------------------------------- MODULE MCProgress -------------------------------
(* Model checking of what must eventually happen: the publication pipeline    *)
(* and the Shopee schedule, which share no state. The one a behaviour is      *)
(* about is chosen at its start, and only it moves.                           *)
EXTENDS PublicationWorker, ShopeeSchedule, TLC

CONSTANTS t1, t2, m1               \* workers that tick, manual command

VARIABLE focus

MCCrews == {{t1, t2}, {t1, m1}}

progressVars == <<focus, vars, shopVars>>

(* The Shopee schedule out of focus starts with any one of its crews.         *)
ProgressInit ==
  /\ focus \in {"worker", "shop"}
  /\ Init /\ ShopInit
  /\ focus = "shop" \/ DOMAIN tick = {t1, t2}

Pipeline(action) == focus = "worker" /\ action /\ UNCHANGED <<focus, shopVars>>
Schedule(action) == focus = "shop" /\ action /\ UNCHANGED <<focus, vars>>

ProgressNext == Pipeline(Next) \/ Schedule(ShopNext)

(* The fairness of PublicationWorker's LiveSpec.                              *)
PipelineFairness ==
  /\ \A w \in Workers : /\ WF_progressVars(Pipeline(Work(w)))
                        /\ WF_progressVars(Pipeline(Quit(w) /\ UNCHANGED workVars))
  /\ WF_progressVars(Pipeline(\E w \in Workers : Lead(w) /\ UNCHANGED workVars))
  /\ SF_progressVars(Pipeline(\E w \in Workers : StartPublication(w)))
  /\ SF_progressVars(Pipeline(\E w \in Workers : StartRetry(w)))
  /\ \A p \in Publications : WF_progressVars(Pipeline(BecomesDue(p)))
  /\ \A k \in Keys :
       WF_progressVars(Pipeline(redis[k] = Gone /\ Lapse(k) /\ UNCHANGED workVars))

(* The scheduler's timer fires again and again, time passes, and keys expire. *)
ScheduleFairness ==
  /\ \A p \in Schedulers \cup Operators :
       WF_progressVars(p \in Discoverers /\ Schedule(DiscoveryStep(p)))
  /\ WF_progressVars(Schedule(ShopTimePasses \/ LeasesEnd))

ProgressSpec ==
  ProgressInit /\ [][ProgressNext]_progressVars /\ PipelineFairness /\ ScheduleFairness
=============================================================================
