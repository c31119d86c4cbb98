------------------------ MODULE PublicationWorkerProofs ------------------------
(***************************************************************************)
(* Proofs about WorkerLease and PublicationWorker: which processes may run *)
(* a component together, types, and what that exclusion is good for: how   *)
(* often a publication is sent and attempted, and that a delivered one     *)
(* stays so.                                                               *)
(***************************************************************************)
EXTENDS PublicationWorker, FiniteSetTheorems, TLAPS

-----------------------------------------------------------------------------
\* The lease.

\* A process that lost its leader key, or the key of the component it runs,
\* lost it to a lapse: nobody else's release or acquisition takes it away.
LeaseInv ==
    /\ LeaseTypeOK
    /\ \A w \in Workers : worker[w].runs # Null => worker[w].leads
    /\ \A w \in Workers :
        (worker[w].leads /\ redis["leader"] # w) => "leader" \in lapsed
    /\ \A w \in Workers :
        (worker[w].runs # Null /\ redis[worker[w].runs] # w)
            => worker[w].runs \in lapsed \/ ~RequireRedis

\* Types of the lease are kept by every step.
LEMMA LeaseTypeStep == LeaseTypeOK /\ [LeaseNext]_leaseVars => LeaseTypeOK'
<1> SUFFICES ASSUME LeaseTypeOK, [LeaseNext]_leaseVars PROVE LeaseTypeOK'
  OBVIOUS
<1> USE OwnersAssumption, LeaseAssumption DEF LeaseTypeOK, Keys, Process, Off
<1>fault. Fault => faults' \in 0 .. MaxFaults
  BY DEF Fault
<1>1. CASE FaultElsewhere
  BY <1>1, <1>fault DEF FaultElsewhere
<1>2. ASSUME NEW k \in Keys, Lapse(k) PROVE LeaseTypeOK'
  BY <1>2 DEF Lapse
<1>3. ASSUME NEW w \in Workers, Lead(w) PROVE LeaseTypeOK'
  BY <1>3 DEF Lead, Acquire
<1>4. ASSUME NEW w \in Workers, LeadUnanswered(w) PROVE LeaseTypeOK'
  BY <1>4, <1>fault DEF LeadUnanswered, LoseReply
<1>5. ASSUME NEW w \in Workers, Abort(w) PROVE LeaseTypeOK'
  BY <1>5 DEF Abort
<1>6. ASSUME NEW w \in Workers, NEW k, Release(w, k) PROVE
        /\ redis' \in [Keys -> Workers \cup {Null, Gone}]
        /\ faults' \in 0 .. MaxFaults
  BY <1>6, <1>fault DEF Release, Surrender
<1>7. ASSUME NEW w \in Workers, Quit(w) PROVE LeaseTypeOK'
  BY <1>7, <1>6 DEF Quit
<1>8. ASSUME NEW w \in Workers, Finish(w) PROVE LeaseTypeOK'
  BY <1>8, <1>6 DEF Finish
<1>9. ASSUME NEW w \in Workers, Crash(w) PROVE LeaseTypeOK'
  BY <1>9, <1>fault DEF Crash
<1>10. ASSUME NEW w \in Workers, NEW c \in Components, Start(w, c) PROVE LeaseTypeOK'
  BY <1>10 DEF Start, Run, Acquire
<1>11. ASSUME NEW w \in Workers, NEW c \in Components, StartUnanswered(w, c)
       PROVE LeaseTypeOK'
  BY <1>11, <1>fault DEF StartUnanswered, LoseReply
<1>12. ASSUME NEW w \in Workers, NEW c \in Components, StartUnlocked(w, c)
       PROVE LeaseTypeOK'
  BY <1>12, <1>fault DEF StartUnlocked, Run, LoseReply
<1>13. CASE UNCHANGED leaseVars
  BY <1>13 DEF leaseVars
<1> QED
  BY <1>1, <1>2, <1>3, <1>4, <1>5, <1>7, <1>8, <1>9, <1>10, <1>11, <1>12, <1>13
  DEF LeaseNext

\* Every step of the locks keeps LeaseInv.
LEMMA LeaseInvStep == LeaseInv /\ [LeaseNext]_leaseVars => LeaseInv'
<1> SUFFICES ASSUME LeaseInv, [LeaseNext]_leaseVars PROVE LeaseInv'
  OBVIOUS
<1>type. LeaseTypeOK'
  BY LeaseTypeStep DEF LeaseInv
<1> USE <1>type, OwnersAssumption, LeaseAssumption
    DEF LeaseInv, LeaseTypeOK, Keys, Process, Off
<1>1. CASE FaultElsewhere
  BY <1>1 DEF FaultElsewhere
<1>2. ASSUME NEW k \in Keys, Lapse(k) PROVE LeaseInv'
  BY <1>2 DEF Lapse
<1>3. ASSUME NEW w \in Workers, Lead(w) PROVE LeaseInv'
  BY <1>3 DEF Lead, Acquire
<1>4. ASSUME NEW w \in Workers, LeadUnanswered(w) PROVE LeaseInv'
  BY <1>4 DEF LeadUnanswered, LoseReply
<1>5. ASSUME NEW w \in Workers, Abort(w) PROVE LeaseInv'
  BY <1>5 DEF Abort
<1>6. ASSUME NEW w \in Workers, Quit(w) PROVE LeaseInv'
  <2>1. \A k \in Keys : redis'[k] = redis[k] \/ (k = "leader" /\ redis[k] = w)
    BY <1>6 DEF Quit, Release, Surrender
  <2>2. worker' = [worker EXCEPT ![w] = Off] /\ lapsed' = lapsed
    BY <1>6 DEF Quit
  <2>3. \A v \in Workers : v # w => worker'[v] = worker[v]
    BY <2>2
  <2>4. worker'[w].leads = FALSE /\ worker'[w].runs = Null
    BY <2>2
  <2> SUFFICES ASSUME NEW v \in Workers
               PROVE  /\ worker'[v].runs # Null => worker'[v].leads
                      /\ worker'[v].leads /\ redis'["leader"] # v => "leader" \in lapsed'
                      /\ worker'[v].runs # Null /\ redis'[worker'[v].runs] # v
                            => worker'[v].runs \in lapsed' \/ ~RequireRedis
    BY Zenon
  <2>5. CASE v = w
    BY <2>4, <2>5
  <2>6. CASE v # w
    <3>1. worker'[v] = worker[v]
      BY <2>3, <2>6
    <3>2. \A k \in Keys : redis[k] = v => redis'[k] = v
      BY <2>1, <2>6
    <3>3. worker[v].runs # Null => worker[v].runs \in Keys
      OBVIOUS
    <3> QED
      BY <2>2, <3>1, <3>2, <3>3
  <2> QED
    BY <2>5, <2>6
<1>7. ASSUME NEW w \in Workers, Finish(w) PROVE LeaseInv'
  BY <1>7 DEF Finish, Release, Surrender
<1>8. ASSUME NEW w \in Workers, Crash(w) PROVE LeaseInv'
  BY <1>8 DEF Crash
<1>9. ASSUME NEW w \in Workers, NEW c \in Components, Start(w, c) PROVE LeaseInv'
  BY <1>9 DEF Start, Run, MayRun, Acquire
<1>10. ASSUME NEW w \in Workers, NEW c \in Components, StartUnanswered(w, c)
       PROVE LeaseInv'
  BY <1>10 DEF StartUnanswered, LoseReply
<1>11. ASSUME NEW w \in Workers, NEW c \in Components, StartUnlocked(w, c)
       PROVE LeaseInv'
  BY <1>11 DEF StartUnlocked, Run, MayRun, LoseReply
<1>12. CASE UNCHANGED leaseVars
  BY <1>12 DEF leaseVars
<1> QED
  BY <1>1, <1>2, <1>3, <1>4, <1>5, <1>6, <1>7, <1>8, <1>9, <1>10, <1>11, <1>12
  DEF LeaseNext

\* LeaseInv holds at the start.
LEMMA LeaseInvInit == LeaseInit => LeaseInv
BY OwnersAssumption, LeaseAssumption
DEF LeaseInit, LeaseInv, LeaseTypeOK, Keys, Process, Off

\* Two owners of one component cannot both hold its key, nor the leader's.
LEMMA LeaseInvExcludes == LeaseInv => OverlapNeedsTwoLapses
BY OwnersAssumption DEF LeaseInv, LeaseTypeOK, Process, Keys, OverlapNeedsTwoLapses

\* The locks alone keep two workers out of one component, whatever the
\* components do.
THEOREM LeaseOverlapNeedsTwoLapses == LeaseSpec => []OverlapNeedsTwoLapses
<1>1. LeaseSpec => []LeaseInv
  BY LeaseInvInit, LeaseInvStep, PTL DEF LeaseSpec
<1> QED
  BY <1>1, LeaseInvExcludes, PTL

-----------------------------------------------------------------------------
\* The pipeline keeps to the lease: each of its steps is one of WorkerLease,
\* or leaves processes and keys alone.

\* A step of the pipeline is a step of the locks or leaves them alone.
LEMMA StepIsLeaseStep == [Next]_vars => [LeaseNext]_leaseVars
<1> SUFFICES ASSUME [Next]_vars PROVE [LeaseNext]_leaseVars
  OBVIOUS
<1> USE PipelineAssumption
<1>1. ASSUME NEW w \in Workers, Work(w) PROVE [LeaseNext]_leaseVars
  BY <1>1 DEF Work, Place, ReadDue, Choose, Take, Requeue, RefuseStale,
     Unavailable, Send, StoreAttempt, StoreResult, ExpireInvalid, Complete,
     LeaseNext
<1>2. ASSUME NEW w \in Workers, Leadership(w) PROVE [LeaseNext]_leaseVars
  BY <1>2 DEF Leadership, LeaseNext
<1>3. ASSUME NEW w \in Workers,
             StartPublication(w) \/ StartRetry(w) \/ StartMaintenance(w)
      PROVE  [LeaseNext]_leaseVars
  BY <1>3 DEF StartPublication, StartRetry, StartMaintenance, LeaseNext
<1>4. ASSUME NEW w \in Workers,
             PlaceUnanswered(w) \/ SendUnanswered(w) \/ FreshnessFails(w)
             \/ DatabaseFails(w) \/ Die(w)
      PROVE  [LeaseNext]_leaseVars
  BY <1>4 DEF PlaceUnanswered, SendUnanswered, FreshnessFails, DatabaseFails, Die, LeaseNext
<1>5. ASSUME NEW k \in Keys, Lapse(k) PROVE [LeaseNext]_leaseVars
  BY <1>5 DEF LeaseNext
<1>6. ASSUME NEW p \in Publications, BecomesDue(p) PROVE [LeaseNext]_leaseVars
  BY <1>6 DEF BecomesDue
<1>7. ASSUME NEW S \in SUBSET ShopeeOffers, ExpireStale(S)
      PROVE  [LeaseNext]_leaseVars
  BY <1>7 DEF ExpireStale
<1>8. CASE UNCHANGED vars
  BY <1>8 DEF vars
<1> QED
  BY <1>1, <1>2, <1>3, <1>4, <1>5, <1>6, <1>7, <1>8 DEF Next

\* So the locks' invariant holds for the pipeline.
LEMMA LeaseInvAlways == Spec => []LeaseInv
<1>1. Init => LeaseInv
  BY LeaseInvInit DEF Init
<1>2. LeaseInv /\ [Next]_vars => LeaseInv'
  BY LeaseInvStep, StepIsLeaseStep
<1> QED
  BY <1>1, <1>2, PTL DEF Spec

\* Two workers never plan, deliver or retry at the same time unless a live
\* leader outlived its lease and a component its lock (worker-leadership.ts,
\* createLockedWorkerDependencies).
THEOREM PipelineOverlapNeedsTwoLapses == Spec => []OverlapNeedsTwoLapses
BY LeaseInvAlways, LeaseInvExcludes, PTL

-----------------------------------------------------------------------------
\* Types.  A step that handles an item has one in hand, and a worker without
\* a component is idle.

InHand == {"send", "attempt", "record"}

Matches(w) ==
    /\ job[w].step = "idle" <=> worker[w].runs = Null
    /\ job[w].step \in {"plan", "place", "deliver"} \cup InHand
        => worker[w].runs = "publication"
    /\ job[w].step = "requeue" => worker[w].runs = "retry"
    /\ job[w].step \in {"place"} \cup InHand => job[w].item \in Item

JobsMatch == \A w \in Workers : Matches(w)

WorkTypeOK ==
    /\ pub \in [Publications -> Row]
    /\ offer \in [Offers -> OfferStatuses]
    /\ job \in [Workers -> Job]
    /\ delivered \in [Publications -> Nat]

\* What the reads of the components return has the type of a job's list.
LEMMA ItemsHaveType ==
    ASSUME WorkTypeOK
    PROVE  /\ OfferItems \subseteq Item
           /\ \A P \in SUBSET Publications : ItemsOf(P) \subseteq Item
           /\ \A status : Due(status) \in SUBSET Publications
<1>1. \A p \in Publications : pub[p].attempts \in Nat
  BY DEF WorkTypeOK, Row
<1>n. 0 \in Nat
  OBVIOUS
<1>2. OfferItems \subseteq Item
  <2> SUFFICES ASSUME NEW p \in Publications
               PROVE  [pub |-> p, ready |-> offer[p[2]] = "READY_TO_PUBLISH",
                       tried |-> 0] \in Item
    BY Zenon DEF OfferItems, Distributed
  <2> QED
    BY <1>n, Zenon DEF Item
<1>3. \A P \in SUBSET Publications : ItemsOf(P) \subseteq Item
  <2> SUFFICES ASSUME NEW p \in Publications
               PROVE  [pub |-> p, ready |-> FALSE, tried |-> pub[p].attempts] \in Item
    BY Zenon DEF ItemsOf
  <2> QED
    BY <1>1, Zenon DEF Item
<1>4. \A status : Due(status) \in SUBSET Publications
  BY DEF Due
<1> QED
  BY <1>2, <1>3, <1>4

\* The jobs that Loop builds have the type of a job.
LEMMA LoopHasType ==
    ASSUME NEW step \in Steps, NEW todo \in SUBSET Item
    PROVE  Loop(step, todo) \in Job
BY DEF Loop, Job

\* What one worker does with its job.
Acts(w) ==
    \/ Work(w)
    \/ StartPublication(w) \/ StartRetry(w) \/ StartMaintenance(w)
    \/ PlaceUnanswered(w) \/ SendUnanswered(w) \/ FreshnessFails(w)
    \/ DatabaseFails(w) \/ Die(w)

\* A worker's own step keeps the types.
LEMMA WorkTypeStep ==
    ASSUME TypeOK, JobsMatch, NEW w \in Workers,
           Acts(w)
    PROVE  WorkTypeOK'
<1>hand. job[w].step \in {"place", "send", "attempt", "record"} => job[w].item \in Item
  BY DEF JobsMatch, Matches, InHand
<1> USE <1>hand DEF TypeOK, At, SetJob
<1>w. WorkTypeOK
  BY DEF WorkTypeOK
<1>n. Null \notin Workers
  BY OwnersAssumption
<1>j. job[w] \in Job /\ \A S \in SUBSET job[w].todo : S \in SUBSET Item
  BY DEF Job
<1>loop. ASSUME NEW step \in Steps, NEW todo \in SUBSET Item,
                job' = [job EXCEPT ![w] = Loop(step, todo)]
         PROVE  job' \in [Workers -> Job]
  BY <1>loop, LoopHasType
<1>next. NextItem(w) => job' \in [Workers -> Job]
  BY <1>loop, <1>j DEF NextItem, Steps
<1>plan. ASSUME job[w].item \in Item, StorePlan(job[w].item)
         PROVE  pub' \in [Publications -> Row] /\ offer' \in [Offers -> OfferStatuses]
  <2>1. job[w].item.pub \in Publications /\ job[w].item.pub[2] \in Offers
    BY <1>plan DEF Item, Publications
  <2>2. [Absent EXCEPT !.status = "SCHEDULED", !.due = TRUE] \in Row
    BY DEF Absent, Row, Statuses
  <2>3. pub' \in [Publications -> Row]
    BY <1>plan, <2>1, <2>2 DEF StorePlan
  <2>4. offer' \in [Offers -> OfferStatuses]
    BY <1>plan, <2>1 DEF StorePlan, OfferStatuses
  <2> QED
    BY <2>3, <2>4
<1>1. ASSUME Place(w) PROVE WorkTypeOK'
  <2> DEFINE todo == {j \in job[w].todo : j.pub[1] # job[w].item.pub[1]}
  <2>1. job' \in [Workers -> Job]
    BY <1>1, <1>loop, <1>j, todo \in SUBSET Item DEF Place, Steps
  <2>2. pub' \in [Publications -> Row] /\ offer' \in [Offers -> OfferStatuses]
    BY <1>1, <1>plan DEF Place
  <2> QED
    BY <1>1, <2>1, <2>2 DEF Place, WorkTypeOK
<1>2. ASSUME ReadDue(w) PROVE WorkTypeOK'
  <2>1. PICK P \in OnePerChannel({p \in Due("SCHEDULED") : ~Waiting(p[1])}) :
            SetJob(w, Loop("deliver", ItemsOf(P)))
    BY <1>2 DEF ReadDue
  <2>2. ItemsOf(P) \in SUBSET Item
    BY <1>w, ItemsHaveType DEF OnePerChannel
  <2> QED
    BY <1>2, <2>1, <2>2, <1>loop DEF ReadDue, WorkTypeOK, Steps
<1>3. ASSUME NEW i \in job[w].todo, Choose(w, i) PROVE WorkTypeOK'
  <2>1. job' \in [Workers -> Job]
    BY <1>3 DEF Choose, Job, Steps
  <2> QED
    BY <1>3, <2>1 DEF Choose, WorkTypeOK
<1>4. ASSUME NEW i \in job[w].todo, Take(w, i) PROVE WorkTypeOK'
  <2>1. job' \in [Workers -> Job]
    BY <1>4 DEF Take, Job, Steps
  <2> QED
    BY <1>4, <2>1 DEF Take, WorkTypeOK
<1>5. ASSUME NEW i \in job[w].todo, Requeue(w, i) PROVE WorkTypeOK'
  <2>1. job' \in [Workers -> Job]
    BY <1>5 DEF Requeue, Job, Steps
  <2>2. pub' \in [Publications -> Row]
    <3>1. \/ pub' = [pub EXCEPT ![i.pub].status = "PUBLICATION_FAILED"]
          \/ pub' = [pub EXCEPT ![i.pub].status = "SCHEDULED", ![i.pub].due = TRUE]
      BY <1>5, Zenon DEF Requeue
    <3>2. {"PUBLICATION_FAILED", "SCHEDULED"} \subseteq Statuses
      BY DEF Statuses
    <3> QED
      BY <3>1, <3>2 DEF Row
  <2> QED
    BY <1>5, <2>1, <2>2 DEF Requeue, WorkTypeOK
<1>6. ASSUME RefuseStale(w) \/ Unavailable(w) PROVE WorkTypeOK'
  <2>1. pub' \in [Publications -> Row]
    BY <1>6 DEF RefuseStale, Unavailable, SetStatus, Row, Statuses
  <2>2. offer' \in [Offers -> OfferStatuses]
    BY <1>6 DEF RefuseStale, Unavailable, OfferStatuses
  <2> QED
    BY <1>6, <1>next, <2>1, <2>2 DEF RefuseStale, Unavailable, WorkTypeOK
<1>7. ASSUME NEW answer \in Answers, Send(w, answer) PROVE WorkTypeOK'
  <2>1. job' \in [Workers -> Job]
    BY <1>7 DEF Send, Job, Steps
  <2>2. delivered' \in [Publications -> Nat]
    BY <1>7 DEF Send, Item
  <2> QED
    BY <1>7, <2>1, <2>2 DEF Send, WorkTypeOK
<1>8. ASSUME StoreAttempt(w) PROVE WorkTypeOK'
  <2>1. job' \in [Workers -> Job]
    BY <1>8 DEF StoreAttempt, Job, Steps
  <2>2. pub' \in [Publications -> Row]
    BY <1>8 DEF StoreAttempt, Item, Row
  <2> QED
    BY <1>8, <2>1, <2>2 DEF StoreAttempt, WorkTypeOK
<1>9. ASSUME StoreResult(w) PROVE WorkTypeOK'
  <2>1. pub' \in [Publications -> Row]
    BY <1>9 DEF StoreResult, SetStatus, Item, Row, Statuses
  <2>2. offer' \in [Offers -> OfferStatuses]
    BY <1>9 DEF StoreResult, OfferStatuses
  <2> QED
    BY <1>9, <1>next, <2>1, <2>2 DEF StoreResult, WorkTypeOK
<1>10. ASSUME NEW S \in SUBSET Offers, ExpireInvalid(w, S) PROVE WorkTypeOK'
  <2>1. job' \in [Workers -> Job]
    <3>1. job' = [job EXCEPT ![w] = Loop("over", {})]
      BY <1>10 DEF ExpireInvalid
    <3>2. "over" \in Steps /\ {} \in SUBSET Item
      BY DEF Steps
    <3>3. ASSUME NEW step \in Steps, NEW todo \in SUBSET Item,
                 job' = [job EXCEPT ![w] = Loop(step, todo)]
          PROVE  job' \in [Workers -> Job]
      BY <3>3, <1>loop
    <3> QED
      BY <3>3, <3>1, <3>2, Zenon
  <2>2. offer' \in [Offers -> OfferStatuses]
    BY <1>10 DEF ExpireInvalid, Reject, OfferStatuses
  <2> QED
    BY <1>10, <2>1, <2>2 DEF ExpireInvalid, WorkTypeOK
<1>11. ASSUME Complete(w) \/ Die(w) PROVE WorkTypeOK'
  BY <1>11 DEF Complete, Die, Idle, WorkTypeOK, Job, Steps
<1>12. ASSUME StartPublication(w) PROVE WorkTypeOK'
  BY <1>12, <1>w, <1>loop, ItemsHaveType DEF StartPublication, WorkTypeOK, Steps
<1>13. ASSUME StartRetry(w) PROVE WorkTypeOK'
  <2>1. PICK P \in OnePerChannel(Due("FAILED")) :
            SetJob(w, Loop("requeue", ItemsOf(P)))
    BY <1>13 DEF StartRetry
  <2>2. ItemsOf(P) \in SUBSET Item
    BY <1>w, ItemsHaveType DEF OnePerChannel
  <2> QED
    BY <1>13, <2>1, <2>2, <1>loop DEF StartRetry, WorkTypeOK, Steps
<1>14. ASSUME StartMaintenance(w) \/ DatabaseFails(w) PROVE WorkTypeOK'
  BY <1>14, <1>loop DEF StartMaintenance, DatabaseFails, WorkTypeOK, Steps
<1>15. ASSUME SendUnanswered(w) PROVE WorkTypeOK'
  <2>1. job' \in [Workers -> Job]
    BY <1>15 DEF SendUnanswered, Job, Steps, Answers
  <2>2. delivered' \in [Publications -> Nat]
    BY <1>15 DEF SendUnanswered, Item
  <2> QED
    BY <1>15, <2>1, <2>2 DEF SendUnanswered, WorkTypeOK
<1>16. ASSUME FreshnessFails(w) PROVE WorkTypeOK'
  BY <1>16, <1>next DEF FreshnessFails, WorkTypeOK
<1>17. ASSUME PlaceUnanswered(w) PROVE WorkTypeOK'
  <2>1. job' \in [Workers -> Job]
    BY <1>17, <1>loop, <1>j DEF PlaceUnanswered, Steps
  <2>2. pub' \in [Publications -> Row] /\ offer' \in [Offers -> OfferStatuses]
    BY <1>17, <1>plan DEF PlaceUnanswered
  <2> QED
    BY <1>17, <2>1, <2>2 DEF PlaceUnanswered, WorkTypeOK
<1> QED
  BY <1>1, <1>2, <1>3, <1>4, <1>5, <1>6, <1>7, <1>8, <1>9, <1>10, <1>11, <1>12,
     <1>13, <1>14, <1>15, <1>16, <1>17 DEF Acts, Work

\* It changes its own job and its own process, and keeps the two in step.
LEMMA WorkMatches ==
    ASSUME TypeOK, JobsMatch, LeaseInv, NEW w \in Workers, Acts(w)
    PROVE  /\ Matches(w)'
           /\ \A v \in Workers : v # w => job'[v] = job[v] /\ worker'[v] = worker[v]
<1> USE OwnersAssumption, PipelineAssumption
    DEF TypeOK, LeaseTypeOK, Process, JobsMatch, Matches, At, SetJob, InHand
<1>d. w \in DOMAIN job /\ w \in DOMAIN worker
  OBVIOUS
<1>1. CASE Place(w)
  BY <1>1 DEF Place, Loop, leaseVars
<1>15. CASE ReadDue(w)
  <2>1. PICK P \in OnePerChannel({p \in Due("SCHEDULED") : ~Waiting(p[1])}) :
            SetJob(w, Loop("deliver", ItemsOf(P)))
    BY <1>15 DEF ReadDue
  <2> QED
    BY <1>15, <2>1 DEF ReadDue, Loop, leaseVars
<1>2. ASSUME NEW i \in job[w].todo, Choose(w, i) \/ Take(w, i) \/ Requeue(w, i)
      PROVE  /\ Matches(w)'
             /\ \A v \in Workers : v # w => job'[v] = job[v] /\ worker'[v] = worker[v]
  <2>1. i \in Item
    BY DEF Job
  <2>2. CASE Choose(w, i)
    BY <2>1, <2>2 DEF Choose, leaseVars, Job
  <2>3. CASE Take(w, i)
    BY <2>1, <2>3 DEF Take, leaseVars, Job
  <2>4. CASE Requeue(w, i)
    BY <2>4 DEF Requeue, leaseVars, Job
  <2> QED
    BY <1>2, <2>2, <2>3, <2>4
<1>3. CASE RefuseStale(w) \/ Unavailable(w)
  BY <1>3 DEF RefuseStale, Unavailable, NextItem, Loop, leaseVars
<1>4. ASSUME NEW answer \in Answers, Send(w, answer)
      PROVE  /\ Matches(w)'
             /\ \A v \in Workers : v # w => job'[v] = job[v] /\ worker'[v] = worker[v]
  BY <1>4 DEF Send, leaseVars, Job
<1>5. CASE StoreAttempt(w)
  BY <1>5 DEF StoreAttempt, leaseVars, Job
<1>6. CASE StoreResult(w)
  BY <1>6 DEF StoreResult, NextItem, Loop, leaseVars
<1>7. ASSUME NEW S \in SUBSET Offers, ExpireInvalid(w, S)
      PROVE  /\ Matches(w)'
             /\ \A v \in Workers : v # w => job'[v] = job[v] /\ worker'[v] = worker[v]
  BY <1>7 DEF ExpireInvalid, Loop, leaseVars
<1>8. CASE Complete(w) \/ Die(w)
  BY <1>8 DEF Complete, Die, Finish, Crash, Idle, Off
<1>9. CASE StartPublication(w)
  BY <1>9 DEF StartPublication, Start, StartUnlocked, Run, Loop
<1>10. CASE StartRetry(w)
  BY <1>10 DEF StartRetry, Start, StartUnlocked, Run, Loop
<1>11. CASE StartMaintenance(w)
  BY <1>11 DEF StartMaintenance, Start, StartUnlocked, Run, Loop
<1>12. CASE SendUnanswered(w)
  BY <1>12 DEF SendUnanswered, FaultElsewhere, Job
<1>13. CASE FreshnessFails(w)
  BY <1>13 DEF FreshnessFails, FaultElsewhere, NextItem, Loop
<1>14. CASE DatabaseFails(w)
  BY <1>14 DEF DatabaseFails, FaultElsewhere, Loop
<1>16. CASE PlaceUnanswered(w)
  BY <1>16 DEF PlaceUnanswered, FaultElsewhere, Loop
<1> QED
  BY <1>1, <1>2, <1>3, <1>4, <1>5, <1>6, <1>7, <1>8, <1>9, <1>10, <1>11, <1>12,
     <1>13, <1>14, <1>15, <1>16 DEF Acts, Work

\* The other steps change no job and no component.
Aside ==
    \/ \E k \in Keys : Lapse(k) /\ UNCHANGED workVars
    \/ \E p \in Publications : BecomesDue(p)
    \/ \E S \in SUBSET ShopeeOffers : ExpireStale(S)
    \/ \E w \in Workers : Leadership(w)
    \/ UNCHANGED vars

\* The steps that are no worker's work leave what every worker has read.
LEMMA AsideKeepsJobs ==
    ASSUME LeaseInv, Aside
    PROVE  job' = job /\ delivered' = delivered
           /\ \A w \in Workers : worker'[w].runs = worker[w].runs
<1> USE DEF LeaseInv, LeaseTypeOK, Process
<1>1. ASSUME NEW k \in Keys, Lapse(k) /\ UNCHANGED workVars
      PROVE  job' = job /\ delivered' = delivered /\ worker' = worker
  BY <1>1 DEF Lapse, workVars
<1>2. ASSUME NEW p \in Publications, BecomesDue(p)
      PROVE  job' = job /\ delivered' = delivered /\ worker' = worker
  BY <1>2 DEF BecomesDue, leaseVars
<1>3. ASSUME NEW S \in SUBSET ShopeeOffers, ExpireStale(S)
      PROVE  job' = job /\ delivered' = delivered /\ worker' = worker
  BY <1>3 DEF ExpireStale, leaseVars
<1>4. ASSUME NEW w \in Workers, Leadership(w)
      PROVE  job' = job /\ delivered' = delivered
             /\ \A v \in Workers : worker'[v].runs = worker[v].runs
  BY <1>4 DEF Leadership, workVars, Lead, LeadUnanswered, Abort, Quit,
     StartUnanswered, Off
<1>5. CASE UNCHANGED vars
  BY <1>5 DEF vars, leaseVars, workVars
<1> QED
  BY <1>1, <1>2, <1>3, <1>4, <1>5 DEF Aside

\* Those steps keep the types.
LEMMA AsideTypeStep ==
    ASSUME TypeOK, LeaseInv, Aside
    PROVE  WorkTypeOK'
<1> USE DEF TypeOK, WorkTypeOK
<1>jobs. job' = job /\ delivered' = delivered
  BY AsideKeepsJobs
<1>1. ASSUME NEW p \in Publications, BecomesDue(p) PROVE WorkTypeOK'
  BY <1>1 DEF BecomesDue, Row
<1>2. ASSUME NEW S \in SUBSET ShopeeOffers, ExpireStale(S) PROVE WorkTypeOK'
  <2>1. pub' \in [Publications -> Row]
    BY <1>2 DEF ExpireStale, Row, Statuses
  <2>2. offer' \in [Offers -> OfferStatuses]
    BY <1>2 DEF ExpireStale, Reject, OfferStatuses
  <2> QED
    BY <1>jobs, <2>1, <2>2
<1>3. CASE UNCHANGED <<pub, offer>>
  BY <1>jobs, <1>3
<1> QED
  BY <1>1, <1>2, <1>3 DEF Aside, workVars, vars, Leadership

BaseInv == TypeOK /\ JobsMatch /\ LeaseInv

\* Every step is some worker's work, or aside of it.
LEMMA NextActs == [Next]_vars => Aside \/ \E w \in Workers : Acts(w)
BY DEF Next, Aside, Acts

\* Every step keeps BaseInv.
LEMMA BaseInvStep == BaseInv /\ [Next]_vars => BaseInv'
<1> SUFFICES ASSUME BaseInv, [Next]_vars PROVE BaseInv'
  OBVIOUS
<1>lease. LeaseInv'
  BY LeaseInvStep, StepIsLeaseStep DEF BaseInv
<1>1. CASE Aside
  <2>1. WorkTypeOK'
    BY <1>1, AsideTypeStep DEF BaseInv
  <2>2. JobsMatch'
    BY <1>1, AsideKeepsJobs DEF BaseInv, JobsMatch, Matches
  <2> QED
    BY <1>lease, <2>1, <2>2 DEF BaseInv, TypeOK, WorkTypeOK, LeaseInv
<1>2. ASSUME NEW w \in Workers, Acts(w) PROVE BaseInv'
  <2>1. WorkTypeOK'
    BY <1>2, WorkTypeStep DEF BaseInv
  <2>2. /\ Matches(w)'
        /\ \A v \in Workers : v # w => job'[v] = job[v] /\ worker'[v] = worker[v]
    BY <1>2, WorkMatches DEF BaseInv
  <2>3. JobsMatch'
    BY <2>2 DEF BaseInv, JobsMatch, Matches
  <2> QED
    BY <1>lease, <2>1, <2>3 DEF BaseInv, TypeOK, WorkTypeOK, LeaseInv
<1> QED
  BY <1>1, <1>2, NextActs

\* BaseInv holds at the start.
LEMMA BaseInvInit == Init => BaseInv
<1> SUFFICES ASSUME Init PROVE BaseInv
  OBVIOUS
<1>1. LeaseInv
  BY LeaseInvInit DEF Init
<1>2. Absent \in Row /\ Idle \in Job
  BY DEF Absent, Row, Statuses, Idle, Job, Steps
<1>3. TypeOK
  BY <1>1, <1>2 DEF Init, TypeOK, LeaseInv, OfferStatuses
<1>4. JobsMatch
  BY DEF Init, LeaseInit, JobsMatch, Matches, Idle, Off, InHand
<1> QED
  BY <1>1, <1>3, <1>4 DEF BaseInv

\* BaseInv holds in every reachable state.
LEMMA BaseInvAlways == Spec => []BaseInv
BY BaseInvInit, BaseInvStep, PTL DEF Spec

\* Types of the pipeline: no step ever handles an item that is not there.
THEOREM PipelineTypeCorrect == Spec => []TypeOK
<1>1. BaseInv => TypeOK
  BY DEF BaseInv
<1> QED
  BY <1>1, BaseInvAlways, PTL

-----------------------------------------------------------------------------
\* What a component has read is still so when it writes, as long as components
\* run one at a time: an item being delivered is scheduled (or was cancelled by
\* the freshness CLI), an item to requeue has failed, and nobody else has
\* stored an attempt.

Open == {"SCHEDULED", "CANCELLED"}
Final == {"PUBLISHED", "EXPORTED"}
Delivering == {"deliver"} \cup InHand

ReadsHold(w) ==
    LET j == job[w]
    IN /\ j.step \in Delivering => \A i \in j.todo :
            /\ pub[i.pub].status \in Open
            /\ i.tried = pub[i.pub].attempts
            /\ i.tried < MaxAttempts + faults
       /\ j.step \in InHand =>
            /\ pub[j.item.pub].status \in Open
            /\ j.item.tried < MaxAttempts + faults
            /\ pub[j.item.pub].attempts =
                IF j.step = "record" THEN j.item.tried + 1 ELSE j.item.tried
            /\ \A i \in j.todo : i.pub # j.item.pub
       /\ j.step = "requeue" => \A i \in j.todo :
            /\ pub[i.pub].status = "FAILED"
            /\ i.tried = pub[i.pub].attempts
       /\ j.step \in Delivering \cup {"requeue"} =>
            \A i, k \in j.todo : i.pub = k.pub => i = k

\* The answer to a message that arrived is in a worker's hand.
Answered(p) ==
    \E w \in Workers : /\ job[w].step \in {"attempt", "record"}
                       /\ job[w].item.pub = p
                       /\ job[w].answer \in Final

Recording(p) == \E w \in Workers : job[w].step = "record" /\ job[w].item.pub = p

\* Beyond the faults, one message and MaxAttempts attempts.
RowBounded(p) ==
    /\ delivered[p] <= 1 + faults
    /\ delivered[p] <= faults \/ pub[p].status \in Final \/ Answered(p)
    /\ pub[p].attempts <= MaxAttempts + faults
    /\ pub[p].status = "SCHEDULED"
        => pub[p].attempts < MaxAttempts + faults \/ Recording(p)

ReadInv ==
    Exclusive => /\ \A w \in Workers : ReadsHold(w)
                 /\ \A p \in Publications : RowBounded(p)

\* What a step leaves as it is: the rows a delivering worker may hold, those a
\* requeueing one may hold, and those that are delivered.
OpenStays ==
    \A p \in Publications : pub[p].status \in Open
        => pub'[p].status \in Open /\ pub'[p].attempts = pub[p].attempts

FailedStays ==
    \A p \in Publications : pub[p].status = "FAILED"
        => pub'[p].status = "FAILED" /\ pub'[p].attempts = pub[p].attempts

FinalStays ==
    \A p \in Publications : pub[p].status \in Final => pub'[p].status = pub[p].status

\* A lapse is never undone and faults are never taken back.
LEMMA ExclusiveBefore ==
    ASSUME LeaseInv, [LeaseNext]_leaseVars
    PROVE  /\ Exclusive' => Exclusive
           /\ faults' >= faults
           /\ lapsed \subseteq lapsed'
<1> USE DEF LeaseInv, LeaseTypeOK
<1>f. Fault => faults' >= faults
  BY DEF Fault
<1>1. lapsed \subseteq lapsed'
  BY DEF LeaseNext, FaultElsewhere, Lapse, Lead, LeadUnanswered, Abort, Quit,
     Finish, Crash, Start, StartUnanswered, StartUnlocked, leaseVars
<1>2. faults' >= faults
  BY <1>f, LeaseAssumption DEF LeaseNext, FaultElsewhere, Lapse, Lead,
     LeadUnanswered, Abort, Quit, Release, Finish, Crash, Start, StartUnanswered,
     StartUnlocked, LoseReply, leaseVars
<1>3. Exclusive' => Exclusive
  BY <1>1 DEF Exclusive
<1> QED
  BY <1>1, <1>2, <1>3

\* As long as components exclude each other, one worker delivers and one
\* requeues at a time.
LEMMA Solo ==
    ASSUME BaseInv, Exclusive, NEW v \in Workers, NEW w \in Workers, v # w
    PROVE  /\ job[w].step \in {"plan", "place"} \cup Delivering
                => job[v].step \notin {"plan", "place"} \cup Delivering
           /\ job[w].step = "requeue" => job[v].step # "requeue"
<1>1. /\ job[w].step \in {"plan", "place"} \cup Delivering => worker[w].runs = "publication"
      /\ job[v].step \in {"plan", "place"} \cup Delivering => worker[v].runs = "publication"
      /\ job[w].step = "requeue" => worker[w].runs = "retry"
      /\ job[v].step = "requeue" => worker[v].runs = "retry"
  BY DEF BaseInv, JobsMatch, Matches, Delivering, InHand
<1>2. /\ "publication" # Null /\ "retry" # Null
      /\ "publication" # "leader" /\ "retry" # "leader"
  BY OwnersAssumption, PipelineAssumption
<1>3. OverlapNeedsTwoLapses
  BY LeaseInvExcludes DEF BaseInv
<1>4. ASSUME worker[w].runs = worker[v].runs, worker[w].runs # Null,
             worker[w].runs # "leader"
      PROVE  FALSE
  BY <1>3, <1>4 DEF OverlapNeedsTwoLapses, Exclusive
<1> QED
  BY <1>1, <1>2, <1>4

\* What a worker has read survives a step that leaves its rows as they are.
LEMMA HoldsAgain ==
    ASSUME BaseInv, BaseInv', NEW v \in Workers, ReadsHold(v), job'[v] = job[v],
           faults' >= faults,
           job[v].step \in Delivering => OpenStays,
           job[v].step = "requeue" => FailedStays
    PROVE  ReadsHold(v)'
<1>1. /\ job[v].todo \in SUBSET Item
      /\ job[v].step \in InHand => job[v].item \in Item
  BY DEF BaseInv, TypeOK, JobsMatch, Matches, Job
<1>2. \A i \in Item : i.pub \in Publications /\ i.tried \in Nat
  BY DEF Item
<1>3. faults \in Nat /\ faults' \in Nat /\ MaxAttempts \in Nat
  BY LeaseAssumption, PipelineAssumption DEF BaseInv, TypeOK, LeaseTypeOK
<1>4. CASE job[v].step \in Delivering
  <2>1. OpenStays
    BY <1>4
  <2>2. \A i \in job[v].todo : /\ pub'[i.pub].status \in Open
                               /\ i.tried = pub'[i.pub].attempts
                               /\ i.tried < MaxAttempts + faults'
    BY <1>1, <1>2, <1>3, <1>4, <2>1 DEF ReadsHold, OpenStays
  <2>3. job[v].step \in InHand =>
            /\ pub'[job[v].item.pub].status \in Open
            /\ job[v].item.tried < MaxAttempts + faults'
            /\ pub'[job[v].item.pub].attempts = pub[job[v].item.pub].attempts
    BY <1>1, <1>2, <1>3, <2>1 DEF ReadsHold, OpenStays
  <2>4. job[v].step # "requeue"
    BY <1>4 DEF Delivering, InHand
  <2> QED
    BY <2>2, <2>3, <2>4 DEF ReadsHold
<1>5. CASE job[v].step = "requeue"
  <2>1. FailedStays /\ job[v].step \notin Delivering /\ job[v].step \notin InHand
    BY <1>5 DEF Delivering, InHand
  <2> QED
    BY <1>1, <1>2, <1>5, <2>1 DEF ReadsHold, FailedStays
<1>6. CASE job[v].step \notin Delivering \cup {"requeue"}
  BY <1>6 DEF ReadsHold, Delivering
<1> QED
  BY <1>4, <1>5, <1>6

\* A worker only writes the rows it has read, and only once they are open (it
\* delivers), failed (it requeues) or absent (it plans).
LEMMA WorkKeepsRows ==
    ASSUME BaseInv, NEW w \in Workers, ReadsHold(w), Acts(w)
    PROVE  /\ FinalStays
           /\ OpenStays \/ job[w].step \in InHand
           /\ FailedStays \/ job[w].step = "requeue"
<1> USE DEF BaseInv, TypeOK, At
<1>hand. job[w].step \in {"place"} \cup InHand => job[w].item \in Item
  BY DEF JobsMatch, Matches
<1>item. \A i \in Item : i.pub \in Publications
  BY DEF Item
<1>todo. job[w].todo \in SUBSET Item
  BY DEF Job
<1>same. ASSUME pub' = pub PROVE FinalStays /\ OpenStays /\ FailedStays
  BY <1>same DEF FinalStays, OpenStays, FailedStays
\* A row that was open: it may be written by whoever delivers it.
<1>open. ASSUME job[w].step \in InHand,
                \A p \in Publications : p # job[w].item.pub => pub'[p] = pub[p]
         PROVE  FinalStays /\ FailedStays
  <2>1. pub[job[w].item.pub].status \in Open
    BY <1>open DEF ReadsHold
  <2> QED
    BY <1>open, <2>1 DEF FinalStays, FailedStays, Open, Final
<1>1. ASSUME job[w].step = "place", StorePlan(job[w].item)
      PROVE  FinalStays /\ OpenStays /\ FailedStays
  <2>1. \A p \in Publications : pub[p].status # "NONE" => pub'[p] = pub[p]
    BY <1>1 DEF StorePlan
  <2> QED
    BY <2>1 DEF FinalStays, OpenStays, FailedStays, Open, Final
<1>2. ASSUME NEW i \in job[w].todo, Requeue(w, i) PROVE FinalStays /\ OpenStays
  <2>1. pub[i.pub].status = "FAILED" /\ i.pub \in Publications
    BY <1>2, <1>todo, <1>item DEF Requeue, ReadsHold
  <2>2. \A p \in Publications : p # i.pub => pub'[p] = pub[p]
    BY <1>2, <2>1 DEF Requeue
  <2> QED
    BY <2>1, <2>2 DEF FinalStays, OpenStays, Open, Final
<1>3. ASSUME RefuseStale(w) \/ Unavailable(w) \/ StoreAttempt(w) \/ StoreResult(w)
      PROVE  FinalStays /\ FailedStays /\ job[w].step \in InHand
  <2>1. job[w].step \in InHand
    BY <1>3 DEF RefuseStale, Unavailable, StoreAttempt, StoreResult, InHand
  <2>2. \A p \in Publications : p # job[w].item.pub => pub'[p] = pub[p]
    BY <1>3 DEF RefuseStale, Unavailable, StoreAttempt, StoreResult, SetStatus
  <2> QED
    BY <1>open, <2>1, <2>2
<1>4. CASE Place(w) \/ PlaceUnanswered(w)
  BY <1>1, <1>4 DEF Place, PlaceUnanswered
<1>5. ASSUME NEW i \in job[w].todo, Choose(w, i) \/ Take(w, i) PROVE pub' = pub
  BY <1>5 DEF Choose, Take
<1>6. ASSUME NEW answer \in Answers, Send(w, answer) PROVE pub' = pub
  BY <1>6 DEF Send
<1>7. ASSUME NEW S \in SUBSET Offers, ExpireInvalid(w, S) PROVE pub' = pub
  BY <1>7 DEF ExpireInvalid
<1>8. ASSUME \/ ReadDue(w) \/ Complete(w) \/ StartPublication(w) \/ StartRetry(w)
             \/ StartMaintenance(w) \/ SendUnanswered(w) \/ FreshnessFails(w)
             \/ DatabaseFails(w) \/ Die(w)
      PROVE  pub' = pub
  BY <1>8 DEF ReadDue, Complete, StartPublication, StartRetry, StartMaintenance,
     SendUnanswered, FreshnessFails, DatabaseFails, Die
<1>9. \/ pub' = pub
      \/ Place(w) \/ PlaceUnanswered(w)
      \/ \E i \in job[w].todo : Requeue(w, i)
      \/ RefuseStale(w) \/ Unavailable(w) \/ StoreAttempt(w) \/ StoreResult(w)
  BY <1>5, <1>6, <1>7, <1>8 DEF Acts, Work
<1>10. (\E i \in job[w].todo : Requeue(w, i)) => job[w].step = "requeue"
  BY DEF Requeue
<1> QED
  BY <1>same, <1>2, <1>3, <1>4, <1>9, <1>10, Zenon

\* One item in hand: what is written to its row, and what of it is known.
LEMMA OwnReadsHold ==
    ASSUME BaseInv, BaseInv', Exclusive, faults' >= faults,
           \A v \in Workers : ReadsHold(v),
           \A p \in Publications : RowBounded(p),
           NEW w \in Workers, Acts(w)
    PROVE  ReadsHold(w)'
<1> USE DEF At, SetJob
<1>type. /\ job \in [Workers -> Job]
         /\ pub \in [Publications -> Row]
         /\ faults \in Nat /\ faults' \in Nat /\ MaxAttempts \in Nat
  BY LeaseAssumption, PipelineAssumption DEF BaseInv, TypeOK, LeaseTypeOK
<1>todo. /\ job[w].todo \in SUBSET Item
         /\ job[w].step \in InHand => job[w].item \in Item
  BY DEF BaseInv, TypeOK, JobsMatch, Matches, Job
<1>item. \A i \in Item : i.pub \in Publications /\ i.tried \in Nat
  BY DEF Item
<1>holds. ReadsHold(w)
  OBVIOUS
\* Steps after which nothing that was read is used again.
<1>1. ASSUME job'[w].step \notin Delivering \cup {"requeue"} PROVE ReadsHold(w)'
  BY <1>1 DEF ReadsHold, Delivering
<1>2. ASSUME \/ Place(w) \/ PlaceUnanswered(w) \/ StartPublication(w)
             \/ StartMaintenance(w) \/ Complete(w) \/ DatabaseFails(w) \/ Die(w)
      PROVE  job'[w].step \notin Delivering \cup {"requeue"}
  BY <1>2, <1>type DEF Place, PlaceUnanswered, StartPublication, StartMaintenance,
     Complete, DatabaseFails, Die, Loop, Idle, Delivering, InHand
<1>3. ASSUME NEW i \in job[w].todo, Choose(w, i)
      PROVE  job'[w].step \notin Delivering \cup {"requeue"}
  BY <1>3, <1>type DEF Choose, Delivering, InHand, Job
<1>4. ASSUME NEW S \in SUBSET Offers, ExpireInvalid(w, S)
      PROVE  job'[w].step \notin Delivering \cup {"requeue"}
  BY <1>4, <1>type DEF ExpireInvalid, Loop, Delivering, InHand
\* The queries.
<1>5. ASSUME NEW P \in SUBSET Publications, NEW i \in ItemsOf(P)
      PROVE  i.pub \in P /\ i.tried = pub[i.pub].attempts
  <2>1. PICK p \in P : i = [pub |-> p, ready |-> FALSE, tried |-> pub[p].attempts]
    BY <1>5, Zenon DEF ItemsOf
  <2>2. i.pub = p /\ i.tried = pub[p].attempts
    BY <2>1, Zenon
  <2> QED
    BY <2>2
<1>6. ASSUME NEW P, NEW i \in ItemsOf(P), NEW k \in ItemsOf(P), i.pub = k.pub
      PROVE  i = k
  <2>1. PICK p \in P : i = [pub |-> p, ready |-> FALSE, tried |-> pub[p].attempts]
    BY <1>6, Zenon DEF ItemsOf
  <2>2. PICK q \in P : k = [pub |-> q, ready |-> FALSE, tried |-> pub[q].attempts]
    BY <1>6, Zenon DEF ItemsOf
  <2>3. i.pub = p /\ k.pub = q
    BY <2>1, <2>2, Zenon
  <2> QED
    BY <1>6, <2>1, <2>2, <2>3, Zenon
<1>7. ASSUME ReadDue(w) PROVE ReadsHold(w)'
  <2>1. PICK P \in OnePerChannel({p \in Due("SCHEDULED") : ~Waiting(p[1])}) :
            SetJob(w, Loop("deliver", ItemsOf(P)))
    BY <1>7 DEF ReadDue
  <2>2. job'[w].step = "deliver" /\ job'[w].todo = ItemsOf(P)
    BY <2>1, <1>type DEF Loop
  <2>3. P \in SUBSET Publications /\ \A p \in P : pub[p].status = "SCHEDULED"
    BY DEF OnePerChannel, Due
  <2>4. pub' = pub
    BY <1>7 DEF ReadDue
  <2>5. job[w].step = "plan"
    BY <1>7 DEF ReadDue
  <2>6. \A p \in P : ~Recording(p)
    <3>1. \A v \in Workers : v # w => job[v].step # "record"
      BY <2>5, Solo DEF Delivering, InHand
    <3> QED
      BY <2>5, <3>1 DEF Recording
  <2>7. \A p \in P : pub[p].attempts < MaxAttempts + faults
    BY <2>3, <2>6 DEF RowBounded
  <2>8. \A p \in P : pub[p].attempts \in Nat
    BY <2>3, <1>type DEF Row
  <2>9. \A i \in ItemsOf(P) : /\ pub[i.pub].status \in Open
                              /\ i.tried = pub[i.pub].attempts
                              /\ i.tried < MaxAttempts + faults'
    BY <1>5, <1>type, <2>3, <2>7, <2>8 DEF Open
  <2>10. \A i, k \in ItemsOf(P) : i.pub = k.pub => i = k
    BY <1>6
  <2> QED
    BY <2>2, <2>4, <2>9, <2>10 DEF ReadsHold, Delivering, InHand
<1>8. ASSUME StartRetry(w) PROVE ReadsHold(w)'
  <2>1. PICK P \in OnePerChannel(Due("FAILED")) :
            SetJob(w, Loop("requeue", ItemsOf(P)))
    BY <1>8 DEF StartRetry
  <2>2. job'[w].step = "requeue" /\ job'[w].todo = ItemsOf(P)
    BY <2>1, <1>type DEF Loop
  <2>3. P \in SUBSET Publications /\ \A p \in P : pub[p].status = "FAILED"
    BY DEF OnePerChannel, Due
  <2>4. pub' = pub
    BY <1>8 DEF StartRetry
  <2>5. \A i \in ItemsOf(P) : pub[i.pub].status = "FAILED" /\ i.tried = pub[i.pub].attempts
    BY <1>5, <2>3
  <2>6. \A i, k \in ItemsOf(P) : i.pub = k.pub => i = k
    BY <1>6
  <2> QED
    BY <2>2, <2>4, <2>5, <2>6 DEF ReadsHold, Delivering, InHand
\* The loops.
<1>9. ASSUME NEW i \in job[w].todo, Take(w, i) PROVE ReadsHold(w)'
  <2>1. /\ job'[w].step = "send" /\ job'[w].todo = job[w].todo \ {i}
        /\ job'[w].item = i /\ pub' = pub
    BY <1>9, <1>type DEF Take, Job
  <2>2. job[w].step = "deliver"
    BY <1>9 DEF Take
  <2>3. /\ pub[i.pub].status \in Open
        /\ i.tried = pub[i.pub].attempts
        /\ i.tried < MaxAttempts + faults'
    BY <2>2, <1>holds, <1>type, <1>todo, <1>item DEF ReadsHold, Delivering
  <2>4. \A k \in job[w].todo : /\ pub[k.pub].status \in Open
                               /\ k.tried = pub[k.pub].attempts
                               /\ k.tried < MaxAttempts + faults'
    BY <2>2, <1>holds, <1>type, <1>todo, <1>item DEF ReadsHold, Delivering
  <2>5. \A k, j \in job[w].todo : k.pub = j.pub => k = j
    BY <2>2, <1>holds DEF ReadsHold, Delivering
  <2> QED
    BY <2>1, <2>3, <2>4, <2>5 DEF ReadsHold, Delivering, InHand
<1>10. ASSUME \/ SendUnanswered(w) \/ \E answer \in Answers : Send(w, answer)
       PROVE  ReadsHold(w)'
  <2>0. PICK answer :
            job' = [job EXCEPT ![w] = [job[w] EXCEPT !.step = "attempt", !.answer = answer]]
    BY <1>10, Zenon DEF Send, SendUnanswered
  <2>1. /\ job'[w].step = "attempt" /\ job'[w].todo = job[w].todo
        /\ job'[w].item = job[w].item
    BY <2>0, <1>type DEF Job
  <2>3. pub' = pub
    BY <1>10, Zenon DEF Send, SendUnanswered
  <2>2. job[w].step = "send"
    BY <1>10 DEF Send, SendUnanswered
  <2> QED
    BY <2>1, <2>2, <2>3, <1>holds, <1>type, <1>todo, <1>item
    DEF ReadsHold, Delivering, InHand
<1>11. ASSUME StoreAttempt(w) PROVE ReadsHold(w)'
  <2> DEFINE q == job[w].item.pub
  <2>1. /\ job'[w].step = "record" /\ job'[w].todo = job[w].todo
        /\ job'[w].item = job[w].item
    BY <1>11, <1>type DEF StoreAttempt, Job
  <2>2. job[w].step = "attempt"
    BY <1>11 DEF StoreAttempt
  <2>3. q \in Publications
    BY <2>2, <1>todo, <1>item DEF InHand
  <2>4. /\ pub'[q].status = pub[q].status /\ pub'[q].attempts = pub[q].attempts + 1
        /\ \A p \in Publications : p # q => pub'[p] = pub[p]
    BY <1>11, <1>type, <2>3 DEF StoreAttempt, Row
  <2> QED
    BY <2>1, <2>2, <2>3, <2>4, <1>holds, <1>type, <1>todo, <1>item
    DEF ReadsHold, Delivering, InHand
<1>12. ASSUME NextItem(w), job[w].step \in InHand,
              \A p \in Publications : p # job[w].item.pub => pub'[p] = pub[p]
       PROVE  ReadsHold(w)'
  <2>1. job'[w].step = "deliver" /\ job'[w].todo = job[w].todo
    BY <1>12, <1>type DEF NextItem, Loop
  <2>2. \A k \in job[w].todo : /\ pub[k.pub].status \in Open
                               /\ k.tried = pub[k.pub].attempts
                               /\ k.tried < MaxAttempts + faults'
                               /\ pub'[k.pub] = pub[k.pub]
    BY <1>12, <1>holds, <1>type, <1>todo, <1>item DEF ReadsHold, Delivering
  <2>3. \A k, j \in job[w].todo : k.pub = j.pub => k = j
    BY <1>12, <1>holds DEF ReadsHold, Delivering
  <2> QED
    BY <2>1, <2>2, <2>3 DEF ReadsHold, Delivering, InHand
<1>13. ASSUME \/ RefuseStale(w) \/ Unavailable(w) \/ StoreResult(w)
              \/ FreshnessFails(w)
       PROVE  ReadsHold(w)'
  <2>1. NextItem(w) /\ job[w].step \in InHand
    BY <1>13 DEF RefuseStale, Unavailable, StoreResult, FreshnessFails, InHand
  <2>2. \A p \in Publications : p # job[w].item.pub => pub'[p] = pub[p]
    BY <1>13, <1>type DEF RefuseStale, Unavailable, StoreResult, FreshnessFails,
       SetStatus
  <2> QED
    BY <1>12, <2>1, <2>2
<1>14. ASSUME NEW i \in job[w].todo, Requeue(w, i) PROVE ReadsHold(w)'
  <2>1. job'[w].step = "requeue" /\ job'[w].todo = job[w].todo \ {i}
    BY <1>14, <1>type DEF Requeue, Job
  <2>2. job[w].step = "requeue"
    BY <1>14 DEF Requeue
  <2>3. \A p \in Publications : p # i.pub => pub'[p] = pub[p]
    BY <1>14, <1>type DEF Requeue
  <2>4. \A k \in job[w].todo \ {i} : /\ pub[k.pub].status = "FAILED"
                                     /\ k.tried = pub[k.pub].attempts
                                     /\ pub'[k.pub] = pub[k.pub]
    BY <2>2, <2>3, <1>holds, <1>todo, <1>item DEF ReadsHold
  <2>5. \A k, j \in job[w].todo \ {i} : k.pub = j.pub => k = j
    BY <2>2, <1>holds DEF ReadsHold
  <2> QED
    BY <2>1, <2>4, <2>5 DEF ReadsHold, Delivering, InHand
<1> QED
  BY <1>1, <1>2, <1>3, <1>4, <1>7, <1>8, <1>9, <1>10, <1>11, <1>13, <1>14
  DEF Acts, Work

\* A step that neither delivers p nor stores an attempt of it, nor schedules it.
LEMMA BoundedAgain ==
    ASSUME BaseInv, BaseInv', NEW w \in Workers, NEW p \in Publications,
           RowBounded(p), faults' >= faults,
           \A v \in Workers : v # w => job'[v] = job[v],
           ~(job[w].step \in {"attempt", "record"} /\ job[w].item.pub = p),
           delivered'[p] = delivered[p],
           pub'[p].attempts = pub[p].attempts,
           \/ pub'[p].status = pub[p].status
           \/ pub[p].status \notin Final /\ pub'[p].status # "SCHEDULED"
    PROVE  RowBounded(p)'
<1>1. /\ delivered[p] \in Nat /\ pub[p].attempts \in Nat
      /\ faults \in Nat /\ faults' \in Nat /\ MaxAttempts \in Nat
  BY LeaseAssumption, PipelineAssumption DEF BaseInv, TypeOK, LeaseTypeOK, Row
<1>2. Answered(p) => Answered(p)'
  BY DEF Answered
<1>3. Recording(p) => Recording(p)'
  BY DEF Recording
<1>4. delivered'[p] <= 1 + faults' /\ pub'[p].attempts <= MaxAttempts + faults'
  BY <1>1 DEF RowBounded
<1>5. delivered'[p] <= faults' \/ pub'[p].status \in Final \/ Answered(p)'
  <2>1. CASE delivered[p] <= faults
    BY <1>1, <2>1
  <2>2. CASE Answered(p)
    BY <1>2, <2>2
  <2>3. CASE pub[p].status \in Final
    BY <2>3
  <2> QED
    BY <2>1, <2>2, <2>3 DEF RowBounded
<1>6. pub'[p].status = "SCHEDULED"
        => pub'[p].attempts < MaxAttempts + faults' \/ Recording(p)'
  BY <1>1, <1>3 DEF RowBounded
<1> QED
  BY <1>4, <1>5, <1>6 DEF RowBounded

\* A fault pays for whatever the worker has forgotten.
LEMMA BoundedByFault ==
    ASSUME BaseInv, BaseInv', NEW p \in Publications, RowBounded(p),
           faults' = faults + 1, delivered'[p] = delivered[p],
           pub'[p] = pub[p]
    PROVE  RowBounded(p)'
<1>1. /\ delivered[p] \in Nat /\ pub[p].attempts \in Nat
      /\ faults \in Nat /\ MaxAttempts \in Nat
  BY LeaseAssumption, PipelineAssumption DEF BaseInv, TypeOK, LeaseTypeOK, Row
<1> QED
  BY <1>1 DEF RowBounded

\* A worker's own step keeps every row within its bounds.
LEMMA OwnRowsBounded ==
    ASSUME BaseInv, BaseInv', Exclusive, faults' >= faults,
           \A v \in Workers : ReadsHold(v),
           NEW p \in Publications, RowBounded(p),
           NEW w \in Workers, Acts(w)
    PROVE  RowBounded(p)'
<1> USE DEF At
<1>type. /\ job \in [Workers -> Job]
         /\ pub \in [Publications -> Row]
         /\ delivered \in [Publications -> Nat]
         /\ faults \in Nat /\ faults' \in Nat /\ MaxAttempts \in Nat
  BY LeaseAssumption, PipelineAssumption DEF BaseInv, TypeOK, LeaseTypeOK
<1>max. 0 < MaxAttempts + faults' /\ 0 <= MaxAttempts + faults'
  <2>1. \A m, f \in Nat : m # 0 => 0 < m + f /\ 0 <= m + f
    OBVIOUS
  <2>2. MaxAttempts \in Nat /\ MaxAttempts # 0 /\ faults' \in Nat
    BY <1>type, PipelineAssumption
  <2> QED
    BY <2>1, <2>2, Zenon
<1>row. delivered[p] \in Nat /\ pub[p].attempts \in Nat
  BY <1>type DEF Row
<1>todo. /\ job[w].todo \in SUBSET Item
         /\ job[w].step \in {"place"} \cup InHand => job[w].item \in Item
  BY DEF BaseInv, TypeOK, JobsMatch, Matches, Job
<1>item. \A i \in Item : i.pub \in Publications /\ i.tried \in Nat
  BY DEF Item
<1>others. \A v \in Workers : v # w => job'[v] = job[v]
  BY WorkMatches DEF BaseInv
<1>holds. ReadsHold(w)
  OBVIOUS
<1> DEFINE q == job[w].item.pub
\* While w has an item in hand, nobody else delivers.
<1>alone. job[w].step \in InHand
            => \A v \in Workers : v # w => job[v].step \notin {"attempt", "record"}
  BY Solo DEF Delivering, InHand
<1>hand. job[w].step \in InHand => q \in Publications /\ pub[q].status \in Open
  BY <1>todo, <1>item DEF ReadsHold
<1>1. ASSUME pub' = pub, delivered' = delivered,
             job[w].step \notin {"attempt", "record"}
      PROVE  RowBounded(p)'
  BY <1>1, <1>others, BoundedAgain
<1>2. ASSUME NEW i \in job[w].todo, Choose(w, i) \/ Take(w, i) PROVE RowBounded(p)'
  <2>1. pub' = pub /\ delivered' = delivered
    BY <1>2 DEF Choose, Take
  <2>2. job[w].step \notin {"attempt", "record"}
    BY <1>2 DEF Choose, Take
  <2> QED
    BY <1>1, <2>1, <2>2
<1>3. ASSUME NEW S \in SUBSET Offers, ExpireInvalid(w, S) PROVE RowBounded(p)'
  BY <1>1, <1>3 DEF ExpireInvalid
<1>4. ASSUME ReadDue(w) \/ Complete(w) \/ FreshnessFails(w) PROVE RowBounded(p)'
  <2>1. pub' = pub /\ delivered' = delivered
    BY <1>4 DEF ReadDue, Complete, FreshnessFails
  <2>2. job[w].step \notin {"attempt", "record"}
    BY <1>4 DEF ReadDue, Complete, FreshnessFails
  <2> QED
    BY <1>1, <2>1, <2>2
<1>5. ASSUME StartPublication(w) \/ StartRetry(w) \/ StartMaintenance(w)
      PROVE  RowBounded(p)'
  <2>1. pub' = pub /\ delivered' = delivered
    BY <1>5 DEF StartPublication, StartRetry, StartMaintenance
  <2>2. worker[w].runs = Null
    BY <1>5 DEF StartPublication, StartRetry, StartMaintenance, Start,
       StartUnlocked, Run, MayRun
  <2>3. job[w].step = "idle"
    BY <2>2 DEF BaseInv, JobsMatch, Matches
  <2> QED
    BY <1>1, <2>1, <2>3
<1>6. ASSUME DatabaseFails(w) \/ Die(w) PROVE RowBounded(p)'
  <2>1. pub' = pub /\ delivered' = delivered
    BY <1>6 DEF DatabaseFails, Die
  <2>2. faults' = faults + 1
    BY <1>6 DEF DatabaseFails, Die, FaultElsewhere, Crash, Fault
  <2> QED
    BY <2>1, <2>2, BoundedByFault
<1>7. ASSUME Place(w) \/ PlaceUnanswered(w) PROVE RowBounded(p)'
  <2>1. job[w].step = "place" /\ StorePlan(job[w].item) /\ delivered' = delivered
    BY <1>7 DEF Place, PlaceUnanswered
  <2>2. q \in Publications
    BY <2>1, <1>todo, <1>item
  <2>3. CASE pub' = pub
    BY <1>1, <2>1, <2>3
  <2>4. CASE pub[q].status = "NONE" /\ p # q
    <3>1. pub'[p] = pub[p]
      BY <2>1, <2>4 DEF StorePlan
    <3> QED
      BY <2>1, <3>1, <1>others, BoundedAgain
  <2>5. CASE pub[q].status = "NONE" /\ p = q
    <3>1. pub'[p].status = "SCHEDULED" /\ pub'[p].attempts = 0
      BY <2>1, <2>2, <2>5, <1>type DEF StorePlan, Absent
    <3>2. delivered[p] <= faults \/ Answered(p)
      BY <2>5 DEF RowBounded, Final
    <3>3. Answered(p) => Answered(p)'
      BY <2>1, <1>others DEF Answered
    <3>4. delivered'[p] <= 1 + faults' /\ (delivered'[p] <= faults' \/ Answered(p)')
      BY <2>1, <3>2, <3>3, <1>type, <1>row DEF RowBounded
    <3>5. pub'[p].attempts < MaxAttempts + faults'
      BY <3>1, <1>max, Zenon
    <3>6. pub'[p].attempts <= MaxAttempts + faults'
      BY <3>1, <1>max, Zenon
    <3> QED
      BY <3>4, <3>5, <3>6, Zenon DEF RowBounded
  <2> QED
    BY <2>1, <2>3, <2>4, <2>5 DEF StorePlan
<1>8. ASSUME NEW i \in job[w].todo, Requeue(w, i) PROVE RowBounded(p)'
  <2>1. job[w].step = "requeue" /\ delivered' = delivered
    BY <1>8 DEF Requeue
  <2>2. /\ i.pub \in Publications /\ pub[i.pub].status = "FAILED"
        /\ i.tried = pub[i.pub].attempts
    BY <2>1, <1>todo, <1>item, <1>holds DEF ReadsHold
  <2>3. CASE p # i.pub
    <3>1. pub'[p] = pub[p]
      BY <1>8, <2>2, <2>3, <1>type DEF Requeue
    <3> QED
      BY <2>1, <3>1, <1>others, BoundedAgain
  <2>4. CASE p = i.pub /\ Exhausted(i.tried)
    <3>1. pub'[p].status = "PUBLICATION_FAILED" /\ pub'[p].attempts = pub[p].attempts
      BY <1>8, <2>2, <2>4, <1>type DEF Requeue, Row
    <3> QED
      BY <2>1, <2>2, <2>4, <3>1, <1>others, BoundedAgain DEF Final
  <2>5. CASE p = i.pub /\ ~Exhausted(i.tried)
    <3>1. pub'[p].status = "SCHEDULED" /\ pub'[p].attempts = pub[p].attempts
      BY <1>8, <2>2, <2>5, <1>type DEF Requeue, Row
    <3>2. pub'[p].attempts < MaxAttempts + faults'
      BY <2>2, <2>5, <3>1, <1>type, <1>row DEF Exhausted
    <3>3. delivered[p] <= faults \/ Answered(p)
      BY <2>2, <2>5 DEF RowBounded, Final
    <3>4. Answered(p) => Answered(p)'
      BY <2>1, <1>others DEF Answered
    <3> QED
      BY <2>1, <3>1, <3>2, <3>3, <3>4, <1>type, <1>row DEF RowBounded
  <2> QED
    BY <2>3, <2>4, <2>5
<1>9. ASSUME RefuseStale(w) \/ Unavailable(w) PROVE RowBounded(p)'
  <2>1. job[w].step = "send" /\ delivered' = delivered
    BY <1>9 DEF RefuseStale, Unavailable
  <2>2. /\ q \in Publications /\ pub[q].status \in Open
    BY <2>1, <1>hand DEF InHand
  <2>3. PICK status \in {"CANCELLED", "PUBLICATION_FAILED"} :
            pub' = [pub EXCEPT ![q].status = status]
    BY <1>9 DEF RefuseStale, Unavailable, SetStatus
  <2>4. pub'[p].attempts = pub[p].attempts
    BY <2>2, <2>3, <1>type DEF Row
  <2>5. pub'[p].status = pub[p].status \/ (p = q /\ pub'[p].status # "SCHEDULED")
    BY <2>2, <2>3, <1>type DEF Row
  <2>6. pub[q].status \notin Final
    BY <2>2 DEF Open, Final
  <2> QED
    BY <2>1, <2>4, <2>5, <2>6, <1>others, BoundedAgain
\* The message goes out: it was not out before, or a fault has been counted.
<1>10. ASSUME job[w].step = "send", pub' = pub,
              \A u \in Publications : u # q => delivered'[u] = delivered[u],
              \/ delivered'[q] = delivered[q]
              \/ /\ delivered'[q] = delivered[q] + 1
                 /\ \/ faults' = faults + 1
                    \/ /\ job'[w].step = "attempt" /\ job'[w].item.pub = q
                       /\ job'[w].answer \in Final
       PROVE  RowBounded(p)'
  <2>1. CASE delivered'[p] = delivered[p]
    BY <1>10, <2>1, <1>others, BoundedAgain
  <2>2. CASE delivered'[p] # delivered[p]
    <3>1. p = q /\ delivered'[p] = delivered[p] + 1
      BY <1>10, <2>2
    <3>2. ~Answered(p)
      BY <1>10, <1>alone DEF Answered, InHand
    <3>3. delivered[p] <= faults
      BY <1>10, <1>hand, <3>1, <3>2 DEF RowBounded, InHand, Open, Final
    <3>4. delivered'[p] <= faults' \/ Answered(p)'
      BY <1>10, <3>1, <3>3, <1>type, <1>row DEF Answered
    <3>5. Recording(p) => Recording(p)'
      BY <1>10, <1>others DEF Recording
    <3> QED
      BY <1>10, <3>1, <3>3, <3>4, <3>5, <1>type, <1>row DEF RowBounded
  <2> QED
    BY <2>1, <2>2
<1>11. ASSUME NEW answer \in Answers, Send(w, answer) PROVE RowBounded(p)'
  <2>1. job[w].step = "send" /\ pub' = pub
    BY <1>11, Zenon DEF Send
  <2>2. delivered' = IF answer \in Final THEN [delivered EXCEPT ![q] = @ + 1]
                     ELSE delivered
    BY <1>11, Zenon DEF Send, Final
  <2>3. job' = [job EXCEPT ![w] = [job[w] EXCEPT !.step = "attempt", !.answer = answer]]
    BY <1>11, Zenon DEF Send, SetJob
  <2>4. /\ job'[w].step = "attempt" /\ job'[w].item.pub = q
        /\ job'[w].answer = answer
    BY <2>3, <1>type DEF Job
  <2>5. \A u \in Publications : u # q => delivered'[u] = delivered[u]
    BY <2>2
  <2>6. \/ delivered'[q] = delivered[q]
        \/ delivered'[q] = delivered[q] + 1 /\ answer \in Final
    BY <2>1, <2>2, <1>hand, <1>type DEF InHand
  <2> QED
    BY <1>10, <2>1, <2>4, <2>5, <2>6
<1>12. ASSUME SendUnanswered(w) PROVE RowBounded(p)'
  <2>1. job[w].step = "send" /\ pub' = pub
    BY <1>12, Zenon DEF SendUnanswered
  <2>2. delivered' = [delivered EXCEPT ![q] = @ + 1]
    BY <1>12, Zenon DEF SendUnanswered
  <2>3. faults' = faults + 1
    BY <1>12, Zenon DEF SendUnanswered, FaultElsewhere, Fault
  <2>4. \A u \in Publications : u # q => delivered'[u] = delivered[u]
    BY <2>2
  <2>5. delivered'[q] = delivered[q] + 1
    BY <2>1, <2>2, <1>hand, <1>type DEF InHand
  <2> QED
    BY <1>10, <2>1, <2>3, <2>4, <2>5
<1>13. ASSUME StoreAttempt(w) PROVE RowBounded(p)'
  <2>1. job[w].step = "attempt" /\ delivered' = delivered
    BY <1>13, Zenon DEF StoreAttempt
  <2>2. /\ q \in Publications /\ pub[q].status \in Open
        /\ pub[q].attempts = job[w].item.tried
        /\ job[w].item.tried < MaxAttempts + faults
    BY <2>1, <1>hand, <1>holds DEF ReadsHold, InHand
  <2>3. /\ pub'[q].status = pub[q].status /\ pub'[q].attempts = pub[q].attempts + 1
        /\ \A u \in Publications : u # q => pub'[u] = pub[u]
    BY <1>13, <1>type, <2>2 DEF StoreAttempt, Row
  <2>4. job' = [job EXCEPT ![w] = [job[w] EXCEPT !.step = "record"]]
    BY <1>13, Zenon DEF StoreAttempt, SetJob
  <2>5. /\ job'[w].step = "record" /\ job'[w].item = job[w].item
        /\ job'[w].answer = job[w].answer
    BY <2>4, <1>type DEF Job
  <2>6. CASE p # q
    BY <2>1, <2>3, <2>6, <1>others, BoundedAgain
  <2>7. CASE p = q
    <3>1. Recording(p)'
      BY <2>5, <2>7 DEF Recording
    <3>2. Answered(p) => Answered(p)'
      BY <2>1, <2>5, <1>others DEF Answered
    <3>3. pub'[p].attempts <= MaxAttempts + faults'
      BY <2>2, <2>3, <2>7, <1>type, <1>row
    <3> QED
      BY <2>1, <2>3, <2>7, <3>1, <3>2, <3>3, <1>type, <1>row DEF RowBounded
  <2> QED
    BY <2>6, <2>7
\* The answer is written down: what arrived is final.
<1>14. ASSUME StoreResult(w) PROVE RowBounded(p)'
  <2>1. job[w].step = "record" /\ delivered' = delivered
    BY <1>14, Zenon DEF StoreResult
  <2>2. q \in Publications /\ pub[q].status \in Open
    BY <2>1, <1>hand DEF InHand
  <2>3. /\ \A u \in Publications : u # q => pub'[u] = pub[u]
        /\ pub'[q].attempts = pub[q].attempts
    BY <1>14, <2>2, <1>type DEF StoreResult, SetStatus, Row
  <2>4. /\ pub'[q].status # "SCHEDULED"
        /\ pub'[q].status \in Final \/ job[w].answer \notin Final
    BY <1>14, <2>2, <1>type DEF StoreResult, SetStatus, Row, Final
  <2>5. CASE p # q
    BY <2>1, <2>3, <2>5, <1>others, BoundedAgain
  <2>6. CASE p = q
    <3>1. delivered[p] <= faults \/ Answered(p)
      BY <2>2, <2>6 DEF RowBounded, Open, Final
    <3>2. Answered(p) => job[w].answer \in Final
      BY <2>1, <1>alone DEF Answered, InHand
    <3>3. delivered[p] <= faults \/ pub'[p].status \in Final
      BY <2>4, <2>6, <3>1, <3>2
    <3> QED
      BY <2>1, <2>3, <2>4, <2>6, <3>3, <1>type, <1>row DEF RowBounded
  <2> QED
    BY <2>5, <2>6
<1> QED
  BY <1>2, <1>3, <1>4, <1>5, <1>6, <1>7, <1>8, <1>9, <1>11, <1>12, <1>13, <1>14
  DEF Acts, Work

\* The steps aside of the workers' work leave rows in hand, failed and delivered.
LEMMA AsideKeepsRows ==
    ASSUME BaseInv, Aside
    PROVE  /\ FinalStays /\ OpenStays /\ FailedStays
           /\ \A p \in Publications : /\ pub'[p].attempts = pub[p].attempts
                                      /\ \/ pub'[p].status = pub[p].status
                                         \/ /\ pub[p].status \notin Final
                                            /\ pub'[p].status # "SCHEDULED"
<1>type. pub \in [Publications -> Row]
  BY DEF BaseInv, TypeOK
<1>s. ASSUME \A p \in Publications : /\ pub'[p].attempts = pub[p].attempts
                                     /\ \/ pub'[p].status = pub[p].status
                                        \/ /\ pub[p].status = "SCHEDULED"
                                           /\ pub'[p].status = "CANCELLED"
      PROVE  /\ FinalStays /\ OpenStays /\ FailedStays
             /\ \A p \in Publications : /\ pub'[p].attempts = pub[p].attempts
                                        /\ \/ pub'[p].status = pub[p].status
                                           \/ /\ pub[p].status \notin Final
                                              /\ pub'[p].status # "SCHEDULED"
  BY <1>s DEF FinalStays, OpenStays, FailedStays, Open, Final
<1>1. ASSUME NEW q \in Publications, BecomesDue(q)
      PROVE  \A p \in Publications : /\ pub'[p].attempts = pub[p].attempts
                                     /\ pub'[p].status = pub[p].status
  BY <1>1, <1>type DEF BecomesDue, Row
<1>2. ASSUME NEW S \in SUBSET ShopeeOffers, ExpireStale(S)
      PROVE  \A p \in Publications : /\ pub'[p].attempts = pub[p].attempts
                                     /\ \/ pub'[p].status = pub[p].status
                                        \/ /\ pub[p].status = "SCHEDULED"
                                           /\ pub'[p].status = "CANCELLED"
  BY <1>2, <1>type DEF ExpireStale, Row
<1>3. CASE UNCHANGED pub
  BY <1>3, <1>s
<1>4. \/ UNCHANGED pub
      \/ \E q \in Publications : BecomesDue(q)
      \/ \E S \in SUBSET ShopeeOffers : ExpireStale(S)
  BY DEF Aside, Leadership, workVars, vars
<1> QED
  BY <1>1, <1>2, <1>3, <1>4, <1>s

\* Every step keeps ReadInv.
LEMMA ReadInvStep == BaseInv /\ ReadInv /\ [Next]_vars => ReadInv'
<1> SUFFICES ASSUME BaseInv, ReadInv, [Next]_vars, Exclusive'
             PROVE  /\ \A v \in Workers : ReadsHold(v)'
                    /\ \A p \in Publications : RowBounded(p)'
  BY DEF ReadInv
<1>base. BaseInv'
  BY BaseInvStep
<1>before. Exclusive /\ faults' >= faults
  BY ExclusiveBefore, StepIsLeaseStep DEF BaseInv
<1>read. /\ \A v \in Workers : ReadsHold(v)
         /\ \A p \in Publications : RowBounded(p)
  BY <1>before DEF ReadInv
<1>1. CASE Aside
  <2>1. job' = job /\ delivered' = delivered
    BY <1>1, AsideKeepsJobs DEF BaseInv
  <2>2. \A v \in Workers : ReadsHold(v)'
    BY <1>1, <1>base, <1>before, <1>read, <2>1, HoldsAgain, AsideKeepsRows
  <2>3. ASSUME NEW p \in Publications PROVE RowBounded(p)'
    <3>1. /\ pub'[p].attempts = pub[p].attempts
          /\ \/ pub'[p].status = pub[p].status
             \/ pub[p].status \notin Final /\ pub'[p].status # "SCHEDULED"
      BY <1>1, AsideKeepsRows
    <3>2. /\ delivered[p] \in Nat /\ pub[p].attempts \in Nat
          /\ faults \in Nat /\ faults' \in Nat /\ MaxAttempts \in Nat
      BY <1>base, LeaseAssumption, PipelineAssumption
      DEF BaseInv, TypeOK, LeaseTypeOK, Row
    <3>3. Answered(p)' = Answered(p) /\ Recording(p)' = Recording(p)
      BY <2>1 DEF Answered, Recording
    <3> QED
      BY <1>before, <1>read, <2>1, <3>1, <3>2, <3>3 DEF RowBounded
  <2> QED
    BY <2>2, <2>3
<1>2. ASSUME NEW w \in Workers, Acts(w)
      PROVE  /\ \A v \in Workers : ReadsHold(v)'
             /\ \A p \in Publications : RowBounded(p)'
  <2>1. ReadsHold(w)'
    BY <1>2, <1>base, <1>before, <1>read, OwnReadsHold
  <2>2. ASSUME NEW v \in Workers, v # w PROVE ReadsHold(v)'
    <3>1. job'[v] = job[v]
      BY <1>2, <2>2, WorkMatches DEF BaseInv
    <3>2. job[v].step \in Delivering => OpenStays
      BY <1>2, <1>before, <1>read, <2>2, WorkKeepsRows, Solo DEF Delivering
    <3>3. job[v].step = "requeue" => FailedStays
      BY <1>2, <1>before, <1>read, <2>2, WorkKeepsRows, Solo
    <3> QED
      BY <1>base, <1>before, <1>read, <3>1, <3>2, <3>3, HoldsAgain
  <2>3. \A p \in Publications : RowBounded(p)'
    BY <1>2, <1>base, <1>before, <1>read, OwnRowsBounded
  <2> QED
    BY <2>1, <2>2, <2>3
<1> QED
  BY <1>1, <1>2, NextActs

\* ReadInv holds at the start.
LEMMA ReadInvInit == Init => ReadInv
<1> SUFFICES ASSUME Init PROVE ReadInv
  OBVIOUS
<1>1. ASSUME NEW w \in Workers PROVE ReadsHold(w)
  <2>1. job[w].step = "idle"
    BY DEF Init, Idle
  <2> QED
    BY <2>1 DEF ReadsHold, Delivering, InHand
<1>2. ASSUME NEW p \in Publications PROVE RowBounded(p)
  <2>1. /\ delivered[p] = 0 /\ pub[p].status = "NONE" /\ pub[p].attempts = 0
        /\ faults = 0 /\ MaxAttempts \in Nat
    BY PipelineAssumption DEF Init, LeaseInit, Absent
  <2> QED
    BY <2>1 DEF RowBounded
<1> QED
  BY <1>1, <1>2 DEF ReadInv

\* ReadInv holds in every reachable state.
LEMMA ReadInvAlways == Spec => [](BaseInv /\ ReadInv)
BY BaseInvInit, BaseInvStep, ReadInvInit, ReadInvStep, PTL DEF Spec

\* A publication reaches its channel once, and once more for each fault at the
\* most (publishScheduledOffers, recordPublicationResult), for any number of
\* workers, channels and offers, as long as not both protections failed.
THEOREM RepeatsAreCounted == Spec => []RepeatsNeedFaults
<1>1. ReadInv => RepeatsNeedFaults
  BY DEF ReadInv, RowBounded, RepeatsNeedFaults
<1> QED
  BY <1>1, ReadInvAlways, PTL

\* Attempts end (retryFailedPublications, recordPublicationResult).
THEOREM AttemptsEnd == Spec => []AttemptsAreBounded
<1>1. ReadInv => AttemptsAreBounded
  BY DEF ReadInv, RowBounded, AttemptsAreBounded
<1> QED
  BY <1>1, ReadInvAlways, PTL

\* No write that follows an older read reopens a delivered publication.
THEOREM DeliveredStaysFinal == Spec => DeliveredIsFinal
<1>1. ASSUME BaseInv, ReadInv, [Next]_vars, Exclusive PROVE FinalStays
  <2>1. \A v \in Workers : ReadsHold(v)
    BY <1>1 DEF ReadInv
  <2>2. CASE Aside
    BY <1>1, <2>2, AsideKeepsRows
  <2>3. ASSUME NEW w \in Workers, Acts(w) PROVE FinalStays
    BY <1>1, <2>1, <2>3, WorkKeepsRows
  <2> QED
    BY <1>1, <2>2, <2>3, NextActs
<1>2. BaseInv /\ ReadInv /\ [Next]_vars
        => [Exclusive => \A p \in Publications :
                pub[p].status \in {"PUBLISHED", "EXPORTED"}
                    => pub'[p].status = pub[p].status]_vars
  BY <1>1 DEF FinalStays, Final
<1> QED
  BY <1>2, ReadInvAlways, PTL DEF Spec, DeliveredIsFinal

-----------------------------------------------------------------------------
\* What else the reads are good for, while components exclude each other: the
\* channels a delivery uses wait for no retry, and the offers a plan would make
\* SCHEDULED are published nowhere.

\* A delivery has at most one publication of a channel.
Paced(w) ==
    LET j == job[w]
    IN /\ j.step \in Delivering =>
            /\ \A i \in j.todo : ~Waiting(i.pub[1])
            /\ \A i, k \in j.todo : i.pub[1] = k.pub[1] => i = k
       /\ j.step \in InHand =>
            /\ ~Waiting(j.item.pub[1])
            /\ \A i \in j.todo : i.pub[1] # j.item.pub[1]

PaceInv == Exclusive => \A w \in Workers : Paced(w)

Unpublished(o) ==
    \A p \in Publications : p[2] = o => pub[p].status # "PUBLISHED"

\* Shopee's offers may be rejected and offered again after they were published.
MayPlan(i) == i.ready /\ i.pub[2] \notin ShopeeOffers => Unpublished(i.pub[2])

Plannable(w) ==
    LET j == job[w]
    IN /\ j.step \in {"plan", "place"} => \A i \in j.todo : MayPlan(i)
       /\ j.step = "place" => MayPlan(j.item)

OfferInv ==
    /\ OfferStaysPublished
    /\ Exclusive => \A w \in Workers : Plannable(w)

Lags(p) == pub[p].status = "FAILED" /\ ~pub[p].due

\* Only the result of a delivery makes a channel wait or a row PUBLISHED.
LEMMA OnlyResults ==
    ASSUME BaseInv, NEW w \in Workers, Acts(w), ~StoreResult(w),
           NEW p \in Publications
    PROVE  /\ Lags(p)' => Lags(p)
           /\ pub'[p].status = "PUBLISHED" => pub[p].status = "PUBLISHED"
<1> USE DEF BaseInv, TypeOK, At, Row
<1>item. /\ \A i \in Item : i.pub \in Publications
         /\ job[w].todo \in SUBSET Item
         /\ job[w].step \in {"place"} \cup InHand => job[w].item \in Item
  BY DEF Item, Job, JobsMatch, Matches
<1>1. ASSUME job[w].step = "place", StorePlan(job[w].item)
      PROVE  \/ pub'[p] = pub[p]
             \/ pub'[p].status = "SCHEDULED"
  BY <1>1, <1>item DEF StorePlan, Absent
<1>2. ASSUME NEW i \in job[w].todo, Requeue(w, i)
      PROVE  \/ pub'[p] = pub[p]
             \/ pub'[p].status \in {"SCHEDULED", "PUBLICATION_FAILED"}
  BY <1>2, <1>item DEF Requeue
<1>3. ASSUME RefuseStale(w) \/ Unavailable(w)
      PROVE  \/ pub'[p] = pub[p]
             \/ pub'[p].status \in {"CANCELLED", "PUBLICATION_FAILED"}
  BY <1>3 DEF RefuseStale, Unavailable, SetStatus
<1>4. ASSUME StoreAttempt(w)
      PROVE  pub'[p].status = pub[p].status /\ pub'[p].due = pub[p].due
  BY <1>4 DEF StoreAttempt
<1>5. CASE Place(w) \/ PlaceUnanswered(w)
  BY <1>1, <1>5 DEF Place, PlaceUnanswered, Lags
<1>6. ASSUME NEW i \in job[w].todo, Choose(w, i) \/ Take(w, i) PROVE pub' = pub
  BY <1>6 DEF Choose, Take
<1>7. ASSUME NEW answer \in Answers, Send(w, answer) PROVE pub' = pub
  BY <1>7 DEF Send
<1>8. ASSUME NEW S \in SUBSET Offers, ExpireInvalid(w, S) PROVE pub' = pub
  BY <1>8 DEF ExpireInvalid
<1>9. ASSUME \/ ReadDue(w) \/ Complete(w) \/ StartPublication(w) \/ StartRetry(w)
             \/ StartMaintenance(w) \/ SendUnanswered(w) \/ FreshnessFails(w)
             \/ DatabaseFails(w) \/ Die(w)
      PROVE  pub' = pub
  BY <1>9 DEF ReadDue, Complete, StartPublication, StartRetry, StartMaintenance,
     SendUnanswered, FreshnessFails, DatabaseFails, Die
<1>10. \/ pub' = pub
       \/ Place(w) \/ PlaceUnanswered(w)
       \/ \E i \in job[w].todo : Requeue(w, i)
       \/ RefuseStale(w) \/ Unavailable(w) \/ StoreAttempt(w)
  BY <1>6, <1>7, <1>8, <1>9 DEF Acts, Work
<1>11. CASE \E i \in job[w].todo : Requeue(w, i)
  BY <1>2, <1>11 DEF Lags
<1>12. CASE RefuseStale(w) \/ Unavailable(w)
  BY <1>3, <1>12 DEF Lags
<1>13. CASE StoreAttempt(w)
  BY <1>4, <1>13 DEF Lags
<1>14. CASE pub' = pub
  BY <1>14 DEF Lags
<1> QED
  BY <1>5, <1>10, <1>11, <1>12, <1>13, <1>14

\* A result is written to the row in hand, and to no other.
LEMMA ResultOfItem ==
    ASSUME BaseInv, NEW w \in Workers, StoreResult(w)
    PROVE  \A p \in Publications : p # job[w].item.pub => pub'[p] = pub[p]
BY DEF BaseInv, TypeOK, StoreResult, SetStatus

\* Time and the freshness CLI neither make a channel wait nor publish.
LEMMA AsideResults ==
    ASSUME BaseInv, Aside, NEW p \in Publications
    PROVE  /\ Lags(p)' => Lags(p)
           /\ pub'[p].status = "PUBLISHED" => pub[p].status = "PUBLISHED"
<1> USE DEF BaseInv, TypeOK, Row, Lags
<1>1. ASSUME NEW q \in Publications, BecomesDue(q)
      PROVE  /\ Lags(p)' => Lags(p)
             /\ pub'[p].status = "PUBLISHED" => pub[p].status = "PUBLISHED"
  BY <1>1 DEF BecomesDue
<1>2. ASSUME NEW S \in SUBSET ShopeeOffers, ExpireStale(S)
      PROVE  /\ Lags(p)' => Lags(p)
             /\ pub'[p].status = "PUBLISHED" => pub[p].status = "PUBLISHED"
  BY <1>2 DEF ExpireStale
<1>3. \/ UNCHANGED pub
      \/ \E q \in Publications : BecomesDue(q)
      \/ \E S \in SUBSET ShopeeOffers : ExpireStale(S)
  BY DEF Aside, Leadership, workVars, vars
<1> QED
  BY <1>1, <1>2, <1>3

\* No channel begins to wait if no row does.
LEMMA WaitsNoMore ==
    ASSUME NEW ch, \A p \in Publications : p[1] = ch => (Lags(p)' => Lags(p))
    PROVE  Waiting(ch)' => Waiting(ch)
BY DEF Waiting, RowsOf, Lags

\* What a worker knows of the channels it uses survives a step that makes none
\* of them wait.
LEMMA PacedAgain ==
    ASSUME NEW v \in Workers, Paced(v), job'[v] = job[v],
           job[v].step \in Delivering => \A p \in Publications : Lags(p)' => Lags(p)
    PROVE  Paced(v)'
<1>1. job[v].step \in Delivering => \A ch : Waiting(ch)' => Waiting(ch)
  BY WaitsNoMore
<1>2. job[v].step \in InHand => job[v].step \in Delivering
  BY DEF Delivering
<1> QED
  BY <1>1, <1>2 DEF Paced

\* The channels of a read without repetitions.
LEMMA ChannelsOfRead ==
    ASSUME NEW Q \in SUBSET Publications, NEW P \in OnePerChannel(Q)
    PROVE  /\ \A i \in ItemsOf(P) : i.pub \in Q
           /\ \A i, k \in ItemsOf(P) : i.pub[1] = k.pub[1] => i = k
<1>1. P \in SUBSET Q /\ \A p, q \in P : p[1] = q[1] => p = q
  BY DEF OnePerChannel
<1>2. ASSUME NEW i \in ItemsOf(P)
      PROVE  i.pub \in P /\ i = [pub |-> i.pub, ready |-> FALSE, tried |-> pub[i.pub].attempts]
  <2>1. PICK p \in P : i = [pub |-> p, ready |-> FALSE, tried |-> pub[p].attempts]
    BY <1>2, Zenon DEF ItemsOf
  <2>2. i.pub = p
    BY <2>1, Zenon
  <2> QED
    BY <2>1, <2>2
<1>3. ASSUME NEW i \in ItemsOf(P), NEW k \in ItemsOf(P), i.pub[1] = k.pub[1]
      PROVE  i = k
  <2>1. i.pub = k.pub
    BY <1>1, <1>2, <1>3
  <2> QED
    BY <1>2, <2>1, Zenon
<1> QED
  BY <1>1, <1>2, <1>3

\* A worker's own step leaves its delivery with channels that do not wait.
LEMMA OwnPaced ==
    ASSUME BaseInv, NEW w \in Workers, Paced(w), Acts(w)
    PROVE  Paced(w)'
<1> USE DEF At, SetJob
<1>type. /\ job \in [Workers -> Job]
         /\ job[w].todo \in SUBSET Item
         /\ job[w].step \in InHand => job[w].item \in Item
         /\ \A i \in Item : i.pub \in Publications
  BY DEF BaseInv, TypeOK, JobsMatch, Matches, Job, Item
<1>1. ASSUME job'[w].step \notin Delivering PROVE Paced(w)'
  BY <1>1 DEF Paced, Delivering
<1>2. ASSUME \/ Place(w) \/ PlaceUnanswered(w) \/ StartPublication(w)
             \/ StartRetry(w) \/ StartMaintenance(w) \/ Complete(w)
             \/ DatabaseFails(w) \/ Die(w)
      PROVE  job'[w].step \notin Delivering
  <2>1. ASSUME NEW P, SetJob(w, Loop("requeue", P)) PROVE job'[w].step \notin Delivering
    BY <2>1, <1>type DEF Loop, Delivering, InHand
  <2>2. CASE StartRetry(w)
    BY <2>1, <2>2 DEF StartRetry
  <2> QED
    BY <1>2, <1>type, <2>2 DEF Place, PlaceUnanswered, StartPublication,
       StartMaintenance, Complete, DatabaseFails, Die, Loop, Idle, Delivering, InHand
<1>3. ASSUME NEW i \in job[w].todo, Choose(w, i) \/ Requeue(w, i)
      PROVE  job'[w].step \notin Delivering
  BY <1>3, <1>type DEF Choose, Requeue, Delivering, InHand, Job
<1>4. ASSUME NEW S \in SUBSET Offers, ExpireInvalid(w, S)
      PROVE  job'[w].step \notin Delivering
  BY <1>4, <1>type DEF ExpireInvalid, Loop, Delivering, InHand
<1>5. ASSUME ReadDue(w) PROVE Paced(w)'
  <2> DEFINE Q == {p \in Due("SCHEDULED") : ~Waiting(p[1])}
  <2>1. PICK P \in OnePerChannel(Q) : SetJob(w, Loop("deliver", ItemsOf(P)))
    BY <1>5 DEF ReadDue
  <2>2. job'[w].step = "deliver" /\ job'[w].todo = ItemsOf(P)
    BY <2>1, <1>type DEF Loop
  <2>3. Q \in SUBSET Publications
    BY DEF Due
  <2>4. \A i \in ItemsOf(P) : i.pub \in Q
    BY <2>3, ChannelsOfRead
  <2>5. \A i, k \in ItemsOf(P) : i.pub[1] = k.pub[1] => i = k
    BY <2>3, ChannelsOfRead
  <2>6. \A ch : Waiting(ch)' = Waiting(ch)
    BY <1>5 DEF ReadDue, Waiting, RowsOf
  <2>7. \A i \in ItemsOf(P) : ~Waiting(i.pub[1])
    BY <2>4
  <2> QED
    BY <2>2, <2>5, <2>6, <2>7 DEF Paced, Delivering, InHand
<1>6. ASSUME NEW i \in job[w].todo, Take(w, i) PROVE Paced(w)'
  <2>1. /\ job'[w].step = "send" /\ job'[w].todo = job[w].todo \ {i}
        /\ job'[w].item = i /\ pub' = pub /\ job[w].step = "deliver"
    BY <1>6, <1>type DEF Take, Job
  <2>2. \A ch : Waiting(ch)' = Waiting(ch)
    BY <2>1 DEF Waiting, RowsOf
  <2> QED
    BY <2>1, <2>2 DEF Paced, Delivering, InHand
<1>7. ASSUME \/ SendUnanswered(w) \/ StoreAttempt(w)
             \/ \E answer \in Answers : Send(w, answer)
      PROVE  Paced(w)'
  <2>1. /\ job[w].step \in InHand /\ job'[w].step \in InHand
        /\ job'[w].todo = job[w].todo /\ job'[w].item = job[w].item
    <3>1. CASE StoreAttempt(w)
      BY <3>1, <1>type DEF StoreAttempt, InHand, Job
    <3>2. CASE \/ SendUnanswered(w) \/ \E answer \in Answers : Send(w, answer)
      <4>1. PICK answer :
                job' = [job EXCEPT ![w] = [job[w] EXCEPT !.step = "attempt", !.answer = answer]]
        BY <3>2, Zenon DEF Send, SendUnanswered
      <4>2. job[w].step = "send"
        BY <3>2 DEF Send, SendUnanswered
      <4> QED
        BY <4>1, <4>2, <1>type DEF Job, InHand
    <3> QED
      BY <1>7, <3>1, <3>2
  <2>2. ~StoreResult(w)
    BY <1>7 DEF SendUnanswered, StoreAttempt, Send, StoreResult
  <2>3. \A ch : Waiting(ch)' => Waiting(ch)
    BY <2>2, OnlyResults, WaitsNoMore
  <2> QED
    BY <2>1, <2>3 DEF Paced, Delivering
<1>8. ASSUME RefuseStale(w) \/ Unavailable(w) \/ StoreResult(w) \/ FreshnessFails(w)
      PROVE  Paced(w)'
  <2>1. NextItem(w) /\ job[w].step \in InHand
    BY <1>8 DEF RefuseStale, Unavailable, StoreResult, FreshnessFails, InHand
  <2>2. job'[w].step = "deliver" /\ job'[w].todo = job[w].todo
    BY <2>1, <1>type DEF NextItem, Loop
  <2>3. \A p \in Publications : p[1] # job[w].item.pub[1] => (Lags(p)' => Lags(p))
    BY <1>8, OnlyResults, ResultOfItem DEF Lags
  <2>4. \A ch : ch # job[w].item.pub[1] => (Waiting(ch)' => Waiting(ch))
    BY <2>3, WaitsNoMore
  <2> QED
    BY <2>1, <2>2, <2>4 DEF Paced, Delivering, InHand
<1> QED
  BY <1>1, <1>2, <1>3, <1>4, <1>5, <1>6, <1>7, <1>8 DEF Acts, Work

\* Every step keeps PaceInv.
LEMMA PaceInvStep == BaseInv /\ PaceInv /\ [Next]_vars => PaceInv'
<1> SUFFICES ASSUME BaseInv, PaceInv, [Next]_vars, Exclusive', NEW v \in Workers
             PROVE  Paced(v)'
  BY DEF PaceInv
<1>before. Exclusive
  BY ExclusiveBefore, StepIsLeaseStep DEF BaseInv
<1>paced. \A w \in Workers : Paced(w)
  BY <1>before DEF PaceInv
<1>1. CASE Aside
  <2>1. job' = job
    BY <1>1, AsideKeepsJobs DEF BaseInv
  <2> QED
    BY <1>1, <1>paced, <2>1, AsideResults, PacedAgain
<1>2. ASSUME NEW w \in Workers, Acts(w) PROVE Paced(v)'
  <2>1. CASE v = w
    BY <1>2, <1>paced, <2>1, OwnPaced
  <2>2. CASE v # w
    <3>1. job'[v] = job[v]
      BY <1>2, <2>2, WorkMatches DEF BaseInv
    <3>2. job[v].step \in Delivering => job[w].step \notin Delivering
      BY <1>before, <2>2, Solo
    <3>3. job[v].step \in Delivering => ~StoreResult(w)
      BY <3>2 DEF StoreResult, At, Delivering, InHand
    <3> QED
      BY <1>2, <1>paced, <3>1, <3>3, OnlyResults, PacedAgain
  <2> QED
    BY <2>1, <2>2
<1> QED
  BY <1>1, <1>2, NextActs

\* A channel with a pending transient failure is not used before its retry time
\* (publishScheduledOffers reads which channels wait, once): no failure of the
\* same channel comes between that read and the delivery.
THEOREM ChannelsWait == Spec => ChannelWaits
<1>1. Init => PaceInv
  <2>1. ASSUME Init, NEW w \in Workers PROVE job[w].step = "idle"
    BY <2>1 DEF Init, Idle
  <2> QED
    BY <2>1 DEF PaceInv, Paced, Delivering, InHand
<1>2. ASSUME BaseInv, PaceInv, [Next]_vars, Exclusive,
             NEW p \in Publications, delivered'[p] > delivered[p]
      PROVE  ~Waiting(p[1])
  <2>type. delivered \in [Publications -> Nat]
    BY <1>2 DEF BaseInv, TypeOK
  <2>1. delivered' # delivered
    BY <1>2, <2>type
  <2>2. ~Aside
    BY <1>2, <2>1, AsideKeepsJobs DEF BaseInv
  <2>3. PICK w \in Workers : Acts(w)
    BY <1>2, <2>2, NextActs
  <2>4. SendUnanswered(w) \/ \E answer \in Answers : Send(w, answer)
    BY <2>1, <2>3 DEF Acts, Work, Place, ReadDue, Choose, Take, Requeue, RefuseStale,
       Unavailable, StoreAttempt, StoreResult, ExpireInvalid, Complete,
       StartPublication, StartRetry, StartMaintenance, PlaceUnanswered,
       FreshnessFails, DatabaseFails, Die
  <2>5. job[w].step = "send" /\ \A q \in Publications :
            q # job[w].item.pub => delivered'[q] = delivered[q]
    BY <2>4, <2>type DEF SendUnanswered, Send, At
  <2>6. p = job[w].item.pub
    BY <1>2, <2>5, <2>type
  <2>7. Paced(w)
    BY <1>2 DEF PaceInv
  <2> QED
    BY <2>5, <2>6, <2>7 DEF Paced, InHand
<1>3. BaseInv /\ PaceInv /\ [Next]_vars
        => [Exclusive => \A p \in Publications :
                delivered'[p] > delivered[p] => ~Waiting(p[1])]_vars
  BY <1>2
<1> QED
  BY <1>1, <1>3, BaseInvAlways, PaceInvStep, PTL DEF Spec, ChannelWaits

\* What is read of the offers is true when it is read.
LEMMA OffersRead ==
    ASSUME OfferStaysPublished, Exclusive, NEW i \in OfferItems
    PROVE  MayPlan(i)
<1>1. PICK p \in Publications :
        i = [pub |-> p, ready |-> offer[p[2]] = "READY_TO_PUBLISH", tried |-> 0]
  BY Zenon DEF OfferItems, Distributed
<1>2. i.pub = p /\ i.ready = (offer[p[2]] = "READY_TO_PUBLISH")
  BY <1>1, Zenon
<1>3. ASSUME i.ready, p[2] \notin ShopeeOffers, NEW q \in Publications, q[2] = p[2]
      PROVE  pub[q].status # "PUBLISHED"
  <2>1. offer[q[2]] = "READY_TO_PUBLISH"
    BY <1>2, <1>3
  <2> QED
    BY <1>3, <2>1 DEF OfferStaysPublished
<1> QED
  BY <1>2, <1>3 DEF MayPlan, Unpublished

\* A plan outlives every step that publishes nothing.
LEMMA PlannableAgain ==
    ASSUME NEW v \in Workers, Plannable(v), job'[v].step \in {"plan", "place"},
           job[v].step \in {"plan", "place"},
           job'[v].todo \subseteq job[v].todo,
           job'[v].step = "place" =>
                job'[v].item \in job[v].todo \/ job'[v] = job[v],
           \A p \in Publications :
                pub'[p].status = "PUBLISHED" => pub[p].status = "PUBLISHED"
    PROVE  Plannable(v)'
<1>1. \A o : Unpublished(o) => Unpublished(o)'
  BY DEF Unpublished
<1>2. \A i : MayPlan(i) => MayPlan(i)'
  BY <1>1 DEF MayPlan
<1>3. \A i \in job[v].todo : MayPlan(i)'
  BY <1>2 DEF Plannable
<1>4. job'[v].step = "place" => MayPlan(job[v].item)' \/ job'[v].item \in job[v].todo
  BY <1>2 DEF Plannable
<1> QED
  BY <1>3, <1>4 DEF Plannable

\* The steps after which a worker plans.
LEMMA StepsOfPlanning ==
    ASSUME BaseInv, NEW w \in Workers, Acts(w), job'[w].step \in {"plan", "place"}
    PROVE  \/ StartPublication(w) \/ Place(w) \/ PlaceUnanswered(w)
           \/ \E i \in job[w].todo : Choose(w, i)
<1> USE DEF At, SetJob
<1>type. job \in [Workers -> Job]
  BY DEF BaseInv, TypeOK
<1>1. ASSUME \/ StartRetry(w) \/ StartMaintenance(w) \/ Complete(w)
             \/ ReadDue(w) \/ DatabaseFails(w) \/ Die(w)
      PROVE  FALSE
  <2>1. \A step, todo : Loop(step, todo).step = step
    BY DEF Loop
  <2>2. \/ \E step \in {"requeue", "deliver", "expire", "over"} :
            \E todo : SetJob(w, Loop(step, todo))
        \/ SetJob(w, Idle)
    BY <1>1 DEF StartRetry, StartMaintenance, Complete, ReadDue, DatabaseFails, Die
  <2>3. Idle.step = "idle"
    BY DEF Idle
  <2> QED
    BY <1>type, <2>1, <2>2, <2>3
<1>2. ASSUME NEW i \in job[w].todo, Take(w, i) \/ Requeue(w, i) PROVE FALSE
  BY <1>2, <1>type DEF Take, Requeue, Job
<1>3. ASSUME NEW S \in SUBSET Offers, ExpireInvalid(w, S) PROVE FALSE
  BY <1>3, <1>type DEF ExpireInvalid, Loop
<1>4. ASSUME StoreAttempt(w) PROVE FALSE
  BY <1>4, <1>type DEF StoreAttempt, Job
<1>5. ASSUME \/ SendUnanswered(w) \/ \E answer \in Answers : Send(w, answer)
      PROVE  FALSE
  <2>1. PICK answer :
            job' = [job EXCEPT ![w] = [job[w] EXCEPT !.step = "attempt", !.answer = answer]]
    BY <1>5, Zenon DEF Send, SendUnanswered
  <2> QED
    BY <2>1, <1>type DEF Job
<1>6. ASSUME RefuseStale(w) \/ Unavailable(w) \/ StoreResult(w) \/ FreshnessFails(w)
      PROVE  FALSE
  BY <1>6, <1>type DEF RefuseStale, Unavailable, StoreResult, FreshnessFails,
     NextItem, Loop
<1> QED
  BY <1>1, <1>2, <1>3, <1>4, <1>5, <1>6 DEF Acts, Work

\* A worker's own step keeps its plan true.
LEMMA OwnPlannable ==
    ASSUME BaseInv, OfferStaysPublished, Exclusive, NEW w \in Workers,
           Plannable(w), Acts(w)
    PROVE  Plannable(w)'
<1> USE DEF At, SetJob
<1>type. job \in [Workers -> Job]
  BY DEF BaseInv, TypeOK
<1>results. ~StoreResult(w) =>
        \A p \in Publications : pub'[p].status = "PUBLISHED" => pub[p].status = "PUBLISHED"
  BY OnlyResults
<1>1. ASSUME job'[w].step \notin {"plan", "place"} PROVE Plannable(w)'
  BY <1>1 DEF Plannable
<1>2. ASSUME StartPublication(w) PROVE Plannable(w)'
  <2>1. /\ job'[w].step = "plan" /\ job'[w].todo = OfferItems
        /\ pub' = pub
    BY <1>2, <1>type DEF StartPublication, Loop
  <2>2. \A i \in OfferItems : MayPlan(i)
    BY OffersRead
  <2>3. \A i : MayPlan(i)' = MayPlan(i)
    BY <2>1 DEF MayPlan, Unpublished
  <2> QED
    BY <2>1, <2>2, <2>3 DEF Plannable
<1>3. ASSUME NEW i \in job[w].todo, Choose(w, i) PROVE Plannable(w)'
  <2>1. /\ job[w].step = "plan" /\ job'[w].step = "place"
        /\ job'[w].todo = job[w].todo /\ job'[w].item = i
    BY <1>3, <1>type DEF Choose, Job
  <2>2. ~StoreResult(w)
    BY <2>1 DEF StoreResult
  <2> QED
    BY <2>1, <2>2, <1>results, PlannableAgain
<1>4. ASSUME Place(w) \/ PlaceUnanswered(w) PROVE Plannable(w)'
  <2>1. /\ job[w].step = "place" /\ job'[w].step = "plan"
        /\ job'[w].todo \subseteq job[w].todo
    BY <1>4, <1>type DEF Place, PlaceUnanswered, Loop
  <2>2. ~StoreResult(w)
    BY <2>1 DEF StoreResult
  <2> QED
    BY <2>1, <2>2, <1>results, PlannableAgain
<1> QED
  BY <1>1, <1>2, <1>3, <1>4, StepsOfPlanning

\* A worker's own step keeps a published offer PUBLISHED.
LEMMA OwnOffers ==
    ASSUME BaseInv, OfferStaysPublished, Exclusive, Exclusive', NEW w \in Workers,
           Plannable(w), Acts(w)
    PROVE  OfferStaysPublished'
<1> USE DEF At
<1>type. /\ pub \in [Publications -> Row] /\ offer \in [Offers -> OfferStatuses]
         /\ \A p \in Publications : p[2] \in Offers
         /\ job[w].step \in {"place"} \cup InHand => job[w].item \in Item
         /\ \A i \in Item : i.pub \in Publications
  BY DEF BaseInv, TypeOK, JobsMatch, Matches, Item, Publications
<1>kept. \A p \in Publications : pub[p].status = "PUBLISHED" /\ p[2] \notin ShopeeOffers
            => offer[p[2]] = "PUBLISHED"
  BY DEF OfferStaysPublished
<1>1. ASSUME ~StoreResult(w),
             \A o \in Offers \ ShopeeOffers : offer[o] = "PUBLISHED" => offer'[o] = "PUBLISHED"
      PROVE  OfferStaysPublished'
  BY <1>1, <1>type, <1>kept, OnlyResults DEF OfferStaysPublished
<1>2. ASSUME ~StoreResult(w), offer' = offer PROVE OfferStaysPublished'
  BY <1>1, <1>2
<1>3. ASSUME job[w].step = "place", StorePlan(job[w].item) PROVE OfferStaysPublished'
  <2> DEFINE i == job[w].item
  <2>1. ~StoreResult(w)
    BY <1>3 DEF StoreResult
  <2>2. i \in Item /\ i.pub \in Publications /\ i.pub[2] \in Offers
    BY <1>3, <1>type
  <2>3. MayPlan(i)
    BY <1>3 DEF Plannable
  <2>4. CASE ~i.ready
    BY <1>2, <1>3, <2>1, <2>4 DEF StorePlan
  <2>5. CASE i.ready
    <3>1. offer' = [offer EXCEPT ![i.pub[2]] = "SCHEDULED"]
      BY <1>3, <2>5 DEF StorePlan
    <3>2. ASSUME NEW p \in Publications, pub'[p].status = "PUBLISHED",
                 p[2] \notin ShopeeOffers
          PROVE  offer'[p[2]] = "PUBLISHED"
      <4>1. pub[p].status = "PUBLISHED"
        BY <2>1, <3>2, OnlyResults
      <4>2. offer[p[2]] = "PUBLISHED"
        BY <1>kept, <3>2, <4>1
      <4>3. p[2] # i.pub[2]
        BY <2>3, <2>5, <3>2, <4>1 DEF MayPlan, Unpublished
      <4> QED
        BY <1>type, <3>1, <4>2, <4>3
    <3> QED
      BY <3>2 DEF OfferStaysPublished
  <2> QED
    BY <2>4, <2>5
<1>4. ASSUME StoreResult(w) PROVE OfferStaysPublished'
  <2> DEFINE q == job[w].item.pub
  <2>1. q \in Publications /\ q[2] \in Offers
    BY <1>4, <1>type DEF StoreResult, InHand
  <2>2. \A p \in Publications : p # q => pub'[p] = pub[p]
    BY <1>4, ResultOfItem
  <2>3. CASE job[w].answer = "PUBLISHED"
    <3>1. offer' = [offer EXCEPT ![q[2]] = "PUBLISHED"]
      BY <1>4, <2>3 DEF StoreResult
    <3>2. \A p \in Publications : p = q \/ offer[p[2]] = "PUBLISHED" => offer'[p[2]] = "PUBLISHED"
      BY <1>type, <2>1, <3>1
    <3> QED
      BY <1>kept, <2>2, <3>2 DEF OfferStaysPublished
  <2>4. CASE job[w].answer # "PUBLISHED"
    <3>1. offer' = offer
      BY <1>4, <2>4 DEF StoreResult
    <3>2. pub'[q].status # "PUBLISHED"
      BY <1>4, <1>type, <2>1, <2>4 DEF StoreResult, SetStatus, Row
    <3> QED
      BY <1>kept, <2>2, <3>1, <3>2 DEF OfferStaysPublished
  <2> QED
    BY <2>3, <2>4
<1>5. ASSUME RefuseStale(w) PROVE OfferStaysPublished'
  <2>1. job[w].item.pub[2] \in ShopeeOffers /\ ~StoreResult(w)
    BY <1>5 DEF RefuseStale, StoreResult
  <2>2. offer' = [offer EXCEPT ![job[w].item.pub[2]] = "REJECTED_EXPIRED"]
    BY <1>5 DEF RefuseStale
  <2>3. \A o \in Offers \ ShopeeOffers : offer'[o] = offer[o]
    BY <1>type, <2>1, <2>2
  <2> QED
    BY <1>1, <2>1, <2>3
<1>6. ASSUME NEW S \in SUBSET Offers, ExpireInvalid(w, S) PROVE OfferStaysPublished'
  <2>1. \A o \in Offers : offer[o] = "PUBLISHED" => offer'[o] = "PUBLISHED"
    BY <1>6 DEF ExpireInvalid, Reject
  <2>2. ~StoreResult(w)
    BY <1>6 DEF ExpireInvalid, StoreResult
  <2> QED
    BY <1>1, <2>1, <2>2
<1>7. CASE Place(w) \/ PlaceUnanswered(w)
  BY <1>3, <1>7 DEF Place, PlaceUnanswered
<1>8. ASSUME NEW i \in job[w].todo, Choose(w, i) \/ Take(w, i) \/ Requeue(w, i)
      PROVE  OfferStaysPublished'
  BY <1>2, <1>8 DEF Choose, Take, Requeue, StoreResult
<1>9. ASSUME NEW answer \in Answers, Send(w, answer) PROVE OfferStaysPublished'
  BY <1>2, <1>9 DEF Send, StoreResult
<1>10. ASSUME \/ ReadDue(w) \/ Complete(w) \/ Unavailable(w) \/ StoreAttempt(w)
              \/ SendUnanswered(w) \/ FreshnessFails(w)
       PROVE  OfferStaysPublished'
  BY <1>2, <1>10 DEF ReadDue, Complete, Unavailable, StoreAttempt, SendUnanswered,
     FreshnessFails, StoreResult
<1>11. ASSUME StartPublication(w) \/ StartRetry(w) \/ StartMaintenance(w) \/ Die(w)
              \/ DatabaseFails(w)
       PROVE  OfferStaysPublished'
  <2>1. offer' = offer /\ pub' = pub
    BY <1>11 DEF StartPublication, StartRetry, StartMaintenance, Die, DatabaseFails
  <2> QED
    BY <1>kept, <2>1 DEF OfferStaysPublished
<1> QED
  BY <1>4, <1>5, <1>6, <1>7, <1>8, <1>9, <1>10, <1>11 DEF Acts, Work

\* Every step keeps OfferInv.
LEMMA OfferInvStep == BaseInv /\ OfferInv /\ [Next]_vars => OfferInv'
<1> SUFFICES ASSUME BaseInv, OfferInv, [Next]_vars, Exclusive'
             PROVE  OfferStaysPublished' /\ \A v \in Workers : Plannable(v)'
  BY DEF OfferInv, OfferStaysPublished
<1>before. Exclusive
  BY ExclusiveBefore, StepIsLeaseStep DEF BaseInv
<1>plan. OfferStaysPublished /\ \A w \in Workers : Plannable(w)
  BY <1>before DEF OfferInv
<1>1. CASE Aside
  <2>1. job' = job
    BY <1>1, AsideKeepsJobs DEF BaseInv
  <2>2. \A p \in Publications : pub'[p].status = "PUBLISHED" => pub[p].status = "PUBLISHED"
    BY <1>1, AsideResults
  <2>3. ASSUME NEW v \in Workers PROVE Plannable(v)'
    <3>1. CASE job[v].step \in {"plan", "place"}
      BY <1>plan, <2>1, <2>2, <3>1, PlannableAgain
    <3>2. CASE job[v].step \notin {"plan", "place"}
      BY <2>1, <3>2 DEF Plannable
    <3> QED
      BY <3>1, <3>2
  <2>4. \A o \in Offers : offer[o] = "PUBLISHED" => offer'[o] = "PUBLISHED"
    <3>1. ASSUME NEW S \in SUBSET ShopeeOffers, ExpireStale(S)
          PROVE  \A o \in Offers : offer[o] = "PUBLISHED" => offer'[o] = "PUBLISHED"
      BY <3>1 DEF ExpireStale, Reject
    <3>2. offer' = offer \/ \E S \in SUBSET ShopeeOffers : ExpireStale(S)
      BY <1>1 DEF Aside, BecomesDue, Leadership, workVars, vars
    <3> QED
      BY <3>1, <3>2
  <2>5. \A p \in Publications : p[2] \in Offers
    BY DEF Publications
  <2>6. OfferStaysPublished'
    BY <1>before, <1>plan, <2>2, <2>4, <2>5 DEF OfferStaysPublished
  <2> QED
    BY <2>3, <2>6
<1>2. ASSUME NEW w \in Workers, Acts(w)
      PROVE  OfferStaysPublished' /\ \A v \in Workers : Plannable(v)'
  <2>1. OfferStaysPublished' /\ Plannable(w)'
    BY <1>2, <1>before, <1>plan, OwnOffers, OwnPlannable
  <2>2. ASSUME NEW v \in Workers, v # w PROVE Plannable(v)'
    <3>1. job'[v] = job[v]
      BY <1>2, <2>2, WorkMatches DEF BaseInv
    <3>2. CASE job[v].step \notin {"plan", "place"}
      BY <3>1, <3>2 DEF Plannable
    <3>3. CASE job[v].step \in {"plan", "place"}
      <4>1. ~StoreResult(w)
        BY <1>before, <2>2, <3>3, Solo DEF StoreResult, At, Delivering, InHand
      <4> QED
        BY <1>2, <1>plan, <3>1, <3>3, <4>1, OnlyResults, PlannableAgain
    <3> QED
      BY <3>2, <3>3
  <2> QED
    BY <2>1, <2>2
<1> QED
  BY <1>1, <1>2, NextActs

\* An offer delivered on one channel stays PUBLISHED while the others are
\* planned (the transaction writes the status that was read before the texts
\* were written), retried and expired.
THEOREM PublishedOfferStays == Spec => []OfferStaysPublished
<1>1. Init => OfferInv
  <2> SUFFICES ASSUME Init PROVE OfferInv
    OBVIOUS
  <2>1. \A w \in Workers : job[w].step = "idle"
    BY DEF Init, Idle
  <2>2. \A p \in Publications : pub[p].status = "NONE"
    BY DEF Init, Absent
  <2> QED
    BY <2>1, <2>2 DEF OfferInv, Plannable, OfferStaysPublished
<1>2. OfferInv => OfferStaysPublished
  BY DEF OfferInv
<1> QED
  BY <1>1, <1>2, BaseInvAlways, OfferInvStep, PTL DEF Spec

-----------------------------------------------------------------------------
\* Planning.  While nobody's lease of the leader key has lapsed there is one
\* leader, which is busy with its plan; only the freshness CLI writes meanwhile,
\* and it only takes rows off the count.

Planned == {p \in Publications : pub[p].status # "NONE"}

PlanInv ==
    /\ IsFiniteSet(Planned)
    /\ "leader" \notin lapsed => \A w \in Workers :
            job[w].step = "place" => Counted(job[w].item.pub[1]) < DailyLimit

\* A count of rows does not grow when no row is added to it.
LEMMA CountShrinks ==
    ASSUME IsFiniteSet(Planned), NEW ch,
           \A p \in Publications : pub'[p].status \in {"SCHEDULED", "PUBLISHED", "EXPORTED"}
                => pub[p].status \in {"SCHEDULED", "PUBLISHED", "EXPORTED"}
    PROVE  Counted(ch)' <= Counted(ch) /\ Counted(ch) \in Nat /\ Counted(ch)' \in Nat
<1> DEFINE S == {"SCHEDULED", "PUBLISHED", "EXPORTED"}
<1>1. RowsOf(ch, S) \subseteq Planned
  BY DEF RowsOf, Planned
<1>2. IsFiniteSet(RowsOf(ch, S))
  BY <1>1, FS_Subset
<1>3. RowsOf(ch, S)' \subseteq RowsOf(ch, S)
  BY DEF RowsOf
<1>4. /\ IsFiniteSet(RowsOf(ch, S)')
      /\ Cardinality(RowsOf(ch, S)') <= Cardinality(RowsOf(ch, S))
  BY <1>2, <1>3, FS_Subset
<1> QED
  BY <1>2, <1>4, FS_CardinalityType DEF Counted

\* One leader acts at a time, and only a leader acts.
LEMMA OneLeader ==
    ASSUME BaseInv, "leader" \notin lapsed,
           NEW v \in Workers, NEW w \in Workers, v # w, Acts(w)
    PROVE  job[v].step = "idle"
<1> USE DEF BaseInv, LeaseInv
<1>1. worker[w].leads
  <2>1. CASE worker[w].runs # Null
    BY <2>1
  <2>2. CASE worker[w].runs = Null
    <3>1. job[w].step = "idle"
      BY <2>2 DEF JobsMatch, Matches
    <3>2. \/ StartPublication(w) \/ StartRetry(w) \/ StartMaintenance(w)
          \/ Complete(w) \/ Die(w)
      BY <3>1 DEF Acts, Work, Place, ReadDue, Choose, Take, Requeue, RefuseStale,
         Unavailable, Send, StoreAttempt, StoreResult, ExpireInvalid,
         PlaceUnanswered, SendUnanswered, FreshnessFails, DatabaseFails, At
    <3> QED
      BY <2>2, <3>2 DEF StartPublication, StartRetry, StartMaintenance, Start,
         StartUnlocked, Run, MayRun, Complete, Finish, Die, Crash
  <2> QED
    BY <2>1, <2>2
<1>2. ~worker[v].leads
  BY <1>1
<1>3. worker[v].runs = Null
  BY <1>2
<1> QED
  BY <1>3 DEF JobsMatch, Matches

\* A step adds at most one row, and none but a plan adds one as long as what was
\* read holds.
LEMMA OnlyPlans ==
    ASSUME BaseInv, NEW w \in Workers, Acts(w)
    PROVE  /\ \E q : Planned' \subseteq Planned \cup {q}
           /\ ReadsHold(w) /\ job[w].step # "place" => Planned' \subseteq Planned
<1> USE DEF BaseInv, TypeOK, At, Row, Planned
<1>item. /\ \A i \in Item : i.pub \in Publications
         /\ job[w].todo \in SUBSET Item
         /\ job[w].step \in {"place"} \cup InHand => job[w].item \in Item
  BY DEF Item, Job, JobsMatch, Matches
<1>q. ASSUME NEW q, \A p \in Publications : p # q => pub'[p] = pub[p]
      PROVE  Planned' \subseteq Planned \cup {q}
  BY <1>q
<1>same. ASSUME pub' = pub PROVE Planned' = Planned
  BY <1>same
<1>1. ASSUME Place(w) \/ PlaceUnanswered(w)
      PROVE  /\ Planned' \subseteq Planned \cup {job[w].item.pub}
             /\ job[w].step = "place"
  <2>1. \A p \in Publications : p # job[w].item.pub => pub'[p] = pub[p]
    BY <1>1 DEF Place, PlaceUnanswered, StorePlan
  <2> QED
    BY <1>1, <1>q, <2>1 DEF Place, PlaceUnanswered
<1>2. ASSUME NEW i \in job[w].todo, Requeue(w, i)
      PROVE  /\ Planned' \subseteq Planned \cup {i.pub}
             /\ ReadsHold(w) => i.pub \in Planned
  <2>1. \A p \in Publications : p # i.pub => pub'[p] = pub[p]
    BY <1>2 DEF Requeue
  <2>2. ReadsHold(w) => i.pub \in Planned
    BY <1>2, <1>item DEF Requeue, ReadsHold
  <2> QED
    BY <1>q, <2>1, <2>2
<1>3. ASSUME RefuseStale(w) \/ Unavailable(w) \/ StoreAttempt(w) \/ StoreResult(w)
      PROVE  /\ Planned' \subseteq Planned \cup {job[w].item.pub}
             /\ ReadsHold(w) => job[w].item.pub \in Planned
  <2>1. job[w].step \in InHand
    BY <1>3 DEF RefuseStale, Unavailable, StoreAttempt, StoreResult, InHand
  <2>2. \A p \in Publications : p # job[w].item.pub => pub'[p] = pub[p]
    BY <1>3 DEF RefuseStale, Unavailable, StoreAttempt, StoreResult, SetStatus
  <2>3. ReadsHold(w) => job[w].item.pub \in Planned
    BY <1>item, <2>1 DEF ReadsHold, Open
  <2> QED
    BY <1>q, <2>2, <2>3
<1>4. ASSUME NEW i \in job[w].todo, Choose(w, i) \/ Take(w, i) PROVE pub' = pub
  BY <1>4 DEF Choose, Take
<1>5. ASSUME NEW answer \in Answers, Send(w, answer) PROVE pub' = pub
  BY <1>5 DEF Send
<1>6. ASSUME NEW S \in SUBSET Offers, ExpireInvalid(w, S) PROVE pub' = pub
  BY <1>6 DEF ExpireInvalid
<1>7. ASSUME \/ ReadDue(w) \/ Complete(w) \/ StartPublication(w) \/ StartRetry(w)
             \/ StartMaintenance(w) \/ SendUnanswered(w) \/ FreshnessFails(w)
             \/ DatabaseFails(w) \/ Die(w)
      PROVE  pub' = pub
  BY <1>7 DEF ReadDue, Complete, StartPublication, StartRetry, StartMaintenance,
     SendUnanswered, FreshnessFails, DatabaseFails, Die
<1>8. \/ pub' = pub
      \/ Place(w) \/ PlaceUnanswered(w)
      \/ \E i \in job[w].todo : Requeue(w, i)
      \/ RefuseStale(w) \/ Unavailable(w) \/ StoreAttempt(w) \/ StoreResult(w)
  BY <1>4, <1>5, <1>6, <1>7 DEF Acts, Work
<1> HIDE DEF Planned
<1>9. \/ Planned' = Planned
      \/ \E q : /\ Planned' \subseteq Planned \cup {q}
                /\ ReadsHold(w) /\ job[w].step # "place" => q \in Planned
  BY <1>same, <1>1, <1>2, <1>3, <1>8
<1> QED
  BY <1>9

\* Time and the freshness CLI only take rows off the count.
LEMMA AsideCancels ==
    ASSUME BaseInv, Aside, NEW p \in Publications
    PROVE  \/ pub'[p].status = pub[p].status
           \/ pub[p].status # "NONE" /\ pub'[p].status = "CANCELLED"
<1> USE DEF BaseInv, TypeOK, Row
<1>1. ASSUME NEW q \in Publications, BecomesDue(q)
      PROVE  pub'[p].status = pub[p].status
  BY <1>1 DEF BecomesDue
<1>2. ASSUME NEW S \in SUBSET ShopeeOffers, ExpireStale(S)
      PROVE  \/ pub'[p].status = pub[p].status
             \/ pub[p].status # "NONE" /\ pub'[p].status = "CANCELLED"
  BY <1>2 DEF ExpireStale
<1>3. \/ UNCHANGED pub
      \/ \E q \in Publications : BecomesDue(q)
      \/ \E S \in SUBSET ShopeeOffers : ExpireStale(S)
  BY DEF Aside, Leadership, workVars, vars
<1> QED
  BY <1>1, <1>2, <1>3

\* Every step keeps PlanInv.
LEMMA PlanInvStep == BaseInv /\ PlanInv /\ [Next]_vars => PlanInv'
<1> SUFFICES ASSUME BaseInv, PlanInv, [Next]_vars PROVE PlanInv'
  OBVIOUS
<1>before. "leader" \notin lapsed' => "leader" \notin lapsed
  BY ExclusiveBefore, StepIsLeaseStep DEF BaseInv
<1>plan. /\ IsFiniteSet(Planned)
         /\ "leader" \notin lapsed => \A w \in Workers :
                job[w].step = "place" => Counted(job[w].item.pub[1]) < DailyLimit
  BY DEF PlanInv
<1>limit. DailyLimit \in Nat
  BY PipelineAssumption
<1>1. CASE Aside
  <2>1. job' = job
    BY <1>1, AsideKeepsJobs DEF BaseInv
  <2>2. ASSUME NEW p \in Publications
        PROVE  \/ pub'[p].status = pub[p].status
               \/ pub[p].status # "NONE" /\ pub'[p].status = "CANCELLED"
    BY <1>1, AsideCancels
  <2>3. Planned' \subseteq Planned
    BY <2>2 DEF Planned
  <2>4. IsFiniteSet(Planned')
    BY <1>plan, <2>3, FS_Subset
  <2>5. \A ch : Counted(ch)' <= Counted(ch) /\ Counted(ch) \in Nat /\ Counted(ch)' \in Nat
    BY <1>plan, <2>2, CountShrinks
  <2>6. ASSUME "leader" \notin lapsed', NEW v \in Workers, job'[v].step = "place"
        PROVE  Counted(job[v].item.pub[1])' < DailyLimit
    <3>1. PICK ch : ch = job[v].item.pub[1]
      OBVIOUS
    <3>2. Counted(ch) < DailyLimit
      BY <1>before, <1>plan, <2>1, <2>6, <3>1
    <3>3. Counted(ch)' < DailyLimit
      BY <1>limit, <2>5, <3>2
    <3> QED
      BY <2>1, <3>1, <3>3
  <2> QED
    BY <2>4, <2>6 DEF PlanInv
<1>2. ASSUME NEW w \in Workers, Acts(w) PROVE PlanInv'
  <2>1. PICK q : Planned' \subseteq Planned \cup {q}
    BY <1>2, OnlyPlans
  <2>2. IsFiniteSet(Planned')
    BY <1>plan, <2>1, FS_AddElement, FS_Subset
  <2>3. ASSUME "leader" \notin lapsed', NEW v \in Workers, job'[v].step = "place"
        PROVE  Counted(job[v].item.pub[1])' < DailyLimit
    <3>1. v = w
      <4>1. v # w => job[v].step = "idle" /\ job'[v] = job[v]
        BY <1>2, <1>before, <2>3, OneLeader, WorkMatches DEF BaseInv
      <4> QED
        BY <2>3, <4>1
    <3>2. PICK i \in job[w].todo : Choose(w, i)
      <4>1. \/ StartPublication(w) \/ Place(w) \/ PlaceUnanswered(w)
            \/ \E i \in job[w].todo : Choose(w, i)
        BY <1>2, <2>3, <3>1, StepsOfPlanning
      <4>2. job \in [Workers -> Job]
        BY DEF BaseInv, TypeOK
      <4>3. ~(StartPublication(w) \/ Place(w) \/ PlaceUnanswered(w))
        BY <2>3, <3>1, <4>2 DEF StartPublication, Place, PlaceUnanswered, SetJob, Loop
      <4> QED
        BY <4>1, <4>3
    <3>3. job'[w].item = i /\ pub' = pub /\ Counted(i.pub[1]) < DailyLimit
      BY <3>2 DEF BaseInv, TypeOK, Choose, SetJob, Job
    <3>4. \A ch : Counted(ch)' = Counted(ch)
      BY <3>3 DEF Counted, RowsOf
    <3> QED
      BY <3>1, <3>3, <3>4
  <2> QED
    BY <2>2, <2>3 DEF PlanInv
<1> QED
  BY <1>1, <1>2, NextActs

\* The daily limit that scheduleReadyOffers counted before the text was written
\* still holds when the row is, as long as the leader kept its lease.
THEOREM PlansKeepTheLimit == Spec => PlannedWithinLimit
<1>1. Init => PlanInv
  <2> SUFFICES ASSUME Init PROVE PlanInv
    OBVIOUS
  <2>1. \A w \in Workers : job[w].step = "idle"
    BY DEF Init, Idle
  <2>2. Planned = {}
    BY DEF Init, Absent, Planned
  <2> QED
    BY <2>1, <2>2, FS_EmptySet DEF PlanInv
<1>2. ASSUME BaseInv, ReadInv, PlanInv, [Next]_vars, "leader" \notin lapsed,
             NEW p \in Publications, pub[p].status = "NONE", pub'[p].status # "NONE"
      PROVE  Counted(p[1]) < DailyLimit
  <2>1. ~(Planned' \subseteq Planned)
    BY <1>2 DEF Planned
  <2>2. ~Aside
    BY <1>2, AsideCancels
  <2>3. PICK w \in Workers : Acts(w)
    BY <1>2, <2>2, NextActs
  <2>4. ReadsHold(w)
    BY <1>2 DEF ReadInv, Exclusive
  <2>5. job[w].step = "place"
    BY <1>2, <2>1, <2>3, <2>4, OnlyPlans
  <2>6. Counted(job[w].item.pub[1]) < DailyLimit
    BY <1>2, <2>5 DEF PlanInv
  <2>7. Place(w) \/ PlaceUnanswered(w) \/ pub' = pub
    BY <2>3, <2>5 DEF Acts, Work, ReadDue, Choose, Take, Requeue, RefuseStale,
       Unavailable, Send, StoreAttempt, StoreResult, ExpireInvalid, Complete,
       StartPublication, StartRetry, StartMaintenance, SendUnanswered,
       FreshnessFails, DatabaseFails, Die, At
  <2>8. p = job[w].item.pub
    BY <1>2, <2>7 DEF BaseInv, TypeOK, Place, PlaceUnanswered, StorePlan
  <2> QED
    BY <2>6, <2>8
<1>3. BaseInv /\ ReadInv /\ PlanInv /\ [Next]_vars
        => [("leader" \notin lapsed) => \A p \in Publications :
                (pub[p].status = "NONE" /\ pub'[p].status # "NONE")
                    => Counted(p[1]) < DailyLimit]_vars
  BY <1>2
<1> QED
  BY <1>1, <1>3, ReadInvAlways, PlanInvStep, PTL DEF Spec, PlannedWithinLimit

=============================================================================
