--------------------------- MODULE PublicationWorker ---------------------------
(***************************************************************************)
(* The publication pipeline of the continuous worker for the channels that *)
(* need no operator (Telegram, manual export), on top of WorkerLease: plan *)
(* (scheduleReadyOffers), deliver (publishScheduledOffers), retry          *)
(* (retryFailedPublications) and maintenance (expireInvalidOffers).        *)
(*                                                                         *)
(* Each component reads rows once and then works through what it read, one *)
(* unconditional write after another.  `delivered` is what reached the     *)
(* channel in the world; no process reads it.  A publication is the pair of*)
(* its channel and its offer version: the idempotency key is unique.       *)
(*                                                                         *)
(* Time: a retry's scheduledAt lies ahead until it BecomesDue; all rows are*)
(* of one day.  The order of priority is arbitrary, and any pair the loop  *)
(* could take may be skipped (policy, hours, interval, no link, a planning *)
(* error), so a pair never taken is a pair skipped.                        *)
(***************************************************************************)
EXTENDS WorkerLease, FiniteSets

CONSTANTS
    Channels,
    ExportChannels, \* the channels of type MANUAL_EXPORT
    Offers,
    ShopeeOffers,   \* the offers whose freshness is checked
    DailyLimit,     \* Channel.dailyPublicationLimit
    MaxAttempts     \* WORKER_MAX_ATTEMPTS

ASSUME PipelineAssumption ==
    /\ Components = {"publication", "retry", "maintenance"}
    /\ ExportChannels \subseteq Channels
    /\ ShopeeOffers \subseteq Offers
    /\ DailyLimit \in Nat
    /\ MaxAttempts \in Nat \ {0}

VARIABLES
    pub,        \* the Publication rows, with the number of their attempts
    offer,      \* Offer.status
    job,        \* what the running component of each worker has read
    delivered   \* messages that reached the channel

workVars == <<pub, offer, job, delivered>>
vars == <<leaseVars, workVars>>

Publications == Channels \X Offers

Statuses == {"NONE", "SCHEDULED", "FAILED", "PUBLISHED", "EXPORTED",
             "PUBLICATION_FAILED", "CANCELLED"}

\* due: scheduledAt <= now; attempts: the PublicationAttempt rows.
Row == [status: Statuses, due: BOOLEAN, attempts: Nat]

Absent == [status |-> "NONE", due |-> FALSE, attempts |-> 0]

OfferStatuses ==
    {"READY_TO_PUBLISH", "SCHEDULED", "PUBLISHED", "REJECTED_EXPIRED"}

\* What a component keeps of a row it read: the pair, whether the offer had to
\* become SCHEDULED, and how many attempts the publication had.
Item == [pub: Publications, ready: BOOLEAN, tried: Nat]

(***************************************************************************)
(* Steps: plan (the loop of scheduleReadyOffers), place (a pair passed its *)
(* checks), deliver (the loop of publishScheduledOffers), send (the item is*)
(* fresh), attempt (publish() answered), record (attempt row written),     *)
(* requeue (the loop of retryFailedPublications), expire, over.            *)
(***************************************************************************)
Steps == {"idle", "plan", "place", "deliver", "send", "attempt", "record",
          "requeue", "expire", "over"}

Answers == {"PUBLISHED", "EXPORTED", "TRANSIENT", "PERMANENT"}

Job == [step: Steps, todo: SUBSET Item, item: Item \cup {Null},
        answer: Answers \cup {Null}]

Idle == [step |-> "idle", todo |-> {}, item |-> Null, answer |-> Null]

TypeOK ==
    /\ LeaseTypeOK
    /\ pub \in [Publications -> Row]
    /\ offer \in [Offers -> OfferStatuses]
    /\ job \in [Workers -> Job]
    /\ delivered \in [Publications -> Nat]

Init ==
    /\ LeaseInit
    /\ pub = [p \in Publications |-> Absent]
    /\ offer = [o \in Offers |-> "READY_TO_PUBLISH"]
    /\ job = [w \in Workers |-> Idle]
    /\ delivered = [p \in Publications |-> 0]

At(w, step) == job[w].step = step

Loop(step, todo) ==
    [step |-> step, todo |-> todo, item |-> Null, answer |-> Null]

SetJob(w, j) == job' = [job EXCEPT ![w] = j]

SetStatus(p, status) == pub' = [pub EXCEPT ![p].status = status]

\* The item in hand is done with; the loop goes on without it.
NextItem(w) == SetJob(w, Loop("deliver", job[w].todo))

-----------------------------------------------------------------------------
\* Queries.

RowsOf(ch, statuses) == {p \in Publications : p[1] = ch /\ pub[p].status \in statuses}

\* channelDailyCount: a failed row gives its slot back.
Counted(ch) == Cardinality(RowsOf(ch, {"SCHEDULED", "PUBLISHED", "EXPORTED"}))

\* A transient failure whose retry time lies ahead.
Waiting(ch) == \E p \in RowsOf(ch, {"FAILED"}) : ~pub[p].due

\* Mutant of Due: the query asks for the time only.
DueWhateverStatus(status) == {p \in Publications : pub[p].due}

Due(status) == {p \in Publications : pub[p].status = status /\ pub[p].due}

\* One publication for every channel that has any in P.
OnePerChannel(P) ==
    {S \in SUBSET P : /\ \A p \in P : \E q \in S : q[1] = p[1]
                      /\ \A q, r \in S : q[1] = r[1] => q = r}

ItemsOf(P) == {[pub |-> p, ready |-> FALSE, tried |-> pub[p].attempts] : p \in P}

ReadyOffers == {"READY_TO_PUBLISH", "SCHEDULED", "PUBLISHED"}

\* Shopee's offers go to Telegram only.
Distributed == {p \in Publications : p[2] \in ShopeeOffers => p[1] \notin ExportChannels}

OfferItems ==
    {[pub |-> p, ready |-> offer[p[2]] = "READY_TO_PUBLISH", tried |-> 0] :
        p \in {q \in Distributed : offer[q[2]] \in ReadyOffers}}

-----------------------------------------------------------------------------
\* publication, first half: scheduleReadyOffers.

\* The component's lock and its first read.
StartPublication(w) ==
    /\ Start(w, "publication") \/ StartUnlocked(w, "publication")
    /\ SetJob(w, Loop("plan", OfferItems))
    /\ UNCHANGED <<pub, offer, delivered>>

\* Mutant of Choose: the limit is off by one.
ChooseBeyondLimit(w, i) ==
    /\ At(w, "plan")
    /\ i \in job[w].todo
    /\ Counted(i.pub[1]) <= DailyLimit
    /\ pub[i.pub].status = "NONE"
    /\ SetJob(w, [job[w] EXCEPT !.step = "place", !.item = i])
    /\ UNCHANGED <<leaseVars, pub, offer, delivered>>

\* The checks of one pair, on rows read now.
Choose(w, i) ==
    /\ At(w, "plan")
    /\ i \in job[w].todo
    /\ Counted(i.pub[1]) < DailyLimit
    /\ pub[i.pub].status = "NONE"
    /\ SetJob(w, [job[w] EXCEPT !.step = "place", !.item = i])
    /\ UNCHANGED <<leaseVars, pub, offer, delivered>>

\* The transaction, after the text is written and the lock is taken: an upsert
\* that leaves an existing row alone, and the offer as it was first read.
StorePlan(i) ==
    /\ pub' = IF pub[i.pub].status = "NONE"
              THEN [pub EXCEPT ![i.pub] = [Absent EXCEPT !.status = "SCHEDULED",
                                                         !.due = TRUE]]
              ELSE pub
    /\ offer' = IF i.ready THEN [offer EXCEPT ![i.pub[2]] = "SCHEDULED"] ELSE offer

\* Mutant of Place: the offer becomes SCHEDULED whatever it was.
PlaceAnew(w) ==
    /\ At(w, "place")
    /\ StorePlan([job[w].item EXCEPT !.ready = TRUE])
    /\ SetJob(w, Loop("plan", {}))
    /\ UNCHANGED <<leaseVars, delivered>>

\* One publication per channel and cycle.
Place(w) ==
    /\ At(w, "place")
    /\ StorePlan(job[w].item)
    /\ SetJob(w, Loop("plan", {j \in job[w].todo : j.pub[1] # job[w].item.pub[1]}))
    /\ UNCHANGED <<leaseVars, delivered>>

\* The transaction commits and its reply is lost: the loop counts the pair as
\* failed and goes on with the channel.
PlaceUnanswered(w) ==
    /\ At(w, "place")
    /\ FaultElsewhere
    /\ StorePlan(job[w].item)
    /\ SetJob(w, Loop("plan", job[w].todo))
    /\ UNCHANGED delivered

-----------------------------------------------------------------------------
\* publication, second half: publishScheduledOffers.

\* Mutant of ReadDue: a channel is used although it waits for a retry.
ReadDueWaiting(w) ==
    /\ At(w, "plan")
    /\ \E P \in OnePerChannel(Due("SCHEDULED")) : SetJob(w, Loop("deliver", ItemsOf(P)))
    /\ UNCHANGED <<leaseVars, pub, offer, delivered>>

ReadDue(w) ==
    /\ At(w, "plan")
    /\ \E P \in OnePerChannel({p \in Due("SCHEDULED") : ~Waiting(p[1])}) :
        SetJob(w, Loop("deliver", ItemsOf(P)))
    /\ UNCHANGED <<leaseVars, pub, offer, delivered>>

\* The next item, fresh if it is one of Shopee's.
Take(w, i) ==
    /\ At(w, "deliver")
    /\ i \in job[w].todo
    /\ SetJob(w, [job[w] EXCEPT !.step = "send", !.todo = @ \ {i}, !.item = i])
    /\ UNCHANGED <<leaseVars, pub, offer, delivered>>

\* ensureShopeePublicationFreshness cancels.
RefuseStale(w) ==
    LET p == job[w].item.pub
    IN /\ At(w, "send")
       /\ p[2] \in ShopeeOffers
       /\ SetStatus(p, "CANCELLED")
       /\ offer' = [offer EXCEPT ![p[2]] = "REJECTED_EXPIRED"]
       /\ NextItem(w)
       /\ UNCHANGED <<leaseVars, delivered>>

\* The freshness check itself throws: the item is left as it is.
FreshnessFails(w) ==
    /\ At(w, "send")
    /\ job[w].item.pub[2] \in ShopeeOffers
    /\ FaultElsewhere
    /\ NextItem(w)
    /\ UNCHANGED <<pub, offer, delivered>>

\* No payload or no publisher for the channel.
Unavailable(w) ==
    /\ At(w, "send")
    /\ SetStatus(job[w].item.pub, "PUBLICATION_FAILED")
    /\ NextItem(w)
    /\ UNCHANGED <<leaseVars, offer, delivered>>

\* publisher.publish: the message arrives or it does not, and the answer says so.
Send(w, answer) ==
    LET p == job[w].item.pub
    IN /\ At(w, "send")
       /\ answer = "EXPORTED" <=> p[1] \in ExportChannels
       /\ delivered' = IF answer \in {"PUBLISHED", "EXPORTED"}
                       THEN [delivered EXCEPT ![p] = @ + 1] ELSE delivered
       /\ SetJob(w, [job[w] EXCEPT !.step = "attempt", !.answer = answer])
       /\ UNCHANGED <<leaseVars, pub, offer>>

\* The message arrives and the request times out: a transient failure.
SendUnanswered(w) ==
    LET p == job[w].item.pub
    IN /\ At(w, "send")
       /\ p[1] \notin ExportChannels
       /\ FaultElsewhere
       /\ delivered' = [delivered EXCEPT ![p] = @ + 1]
       /\ SetJob(w, [job[w] EXCEPT !.step = "attempt", !.answer = "TRANSIENT"])
       /\ UNCHANGED <<pub, offer>>

StoreAttempt(w) ==
    /\ At(w, "attempt")
    /\ pub' = [pub EXCEPT ![job[w].item.pub].attempts = @ + 1]
    /\ SetJob(w, [job[w] EXCEPT !.step = "record"])
    /\ UNCHANGED <<leaseVars, offer, delivered>>

\* Mutant of Exhausted: one attempt too many.
ExhaustedLate(attempts) == attempts > MaxAttempts

Exhausted(attempts) == attempts >= MaxAttempts

\* recordPublicationResult after the attempt row; attemptNumber counts the
\* attempts read with the publication.
StoreResult(w) ==
    LET i == job[w].item
        final == job[w].answer = "PERMANENT" \/ Exhausted(i.tried + 1)
    IN /\ At(w, "record")
       /\ \/ /\ job[w].answer = "PUBLISHED"
             /\ SetStatus(i.pub, "PUBLISHED")
             /\ offer' = [offer EXCEPT ![i.pub[2]] = "PUBLISHED"]
          \/ /\ job[w].answer = "EXPORTED"
             /\ SetStatus(i.pub, "EXPORTED")
             /\ UNCHANGED offer
          \/ /\ job[w].answer \in {"TRANSIENT", "PERMANENT"}
             /\ pub' = [pub EXCEPT
                    ![i.pub].status = IF final THEN "PUBLICATION_FAILED" ELSE "FAILED",
                    ![i.pub].due = final /\ @]
             /\ UNCHANGED offer
       /\ NextItem(w)
       /\ UNCHANGED <<leaseVars, delivered>>

-----------------------------------------------------------------------------
\* retry and maintenance.

StartRetry(w) ==
    /\ Start(w, "retry") \/ StartUnlocked(w, "retry")
    /\ \E P \in OnePerChannel(Due("FAILED")) :
        SetJob(w, Loop("requeue", ItemsOf(P)))
    /\ UNCHANGED <<pub, offer, delivered>>

Requeue(w, i) ==
    /\ At(w, "requeue")
    /\ i \in job[w].todo
    /\ pub' = IF Exhausted(i.tried)
              THEN [pub EXCEPT ![i.pub].status = "PUBLICATION_FAILED"]
              ELSE [pub EXCEPT ![i.pub].status = "SCHEDULED", ![i.pub].due = TRUE]
    /\ SetJob(w, [job[w] EXCEPT !.todo = @ \ {i}])
    /\ UNCHANGED <<leaseVars, offer, delivered>>

StartMaintenance(w) ==
    /\ Start(w, "maintenance") \/ StartUnlocked(w, "maintenance")
    /\ SetJob(w, Loop("expire", {}))
    /\ UNCHANGED <<pub, offer, delivered>>

Reject(S) ==
    [o \in Offers |-> IF o \in S /\ offer[o] \in {"READY_TO_PUBLISH", "SCHEDULED"}
                      THEN "REJECTED_EXPIRED" ELSE offer[o]]

\* S: the offers whose coupon has expired.  Their publications stay.
ExpireInvalid(w, S) ==
    /\ At(w, "expire")
    /\ offer' = Reject(S)
    /\ SetJob(w, Loop("over", {}))
    /\ UNCHANGED <<leaseVars, pub, delivered>>

-----------------------------------------------------------------------------
\* The end of a component, failures, and what happens outside the worker.

Complete(w) ==
    /\ \/ At(w, "over")
       \/ At(w, "deliver") /\ job[w].todo = {}
       \/ At(w, "requeue") /\ job[w].todo = {}
    /\ Finish(w)
    /\ SetJob(w, Idle)
    /\ UNCHANGED <<pub, offer, delivered>>

\* A read or a write that nothing catches fails, or its reply is lost: the rest
\* of the component is not run.
DatabaseFails(w) ==
    /\ job[w].step \in {"plan", "deliver", "send", "attempt", "record", "requeue"}
    /\ FaultElsewhere
    /\ SetJob(w, Loop("over", {}))
    /\ UNCHANGED <<pub, offer, delivered>>

Die(w) == Crash(w) /\ SetJob(w, Idle) /\ UNCHANGED <<pub, offer, delivered>>

BecomesDue(p) ==
    /\ pub[p].status = "FAILED"
    /\ ~pub[p].due
    /\ pub' = [pub EXCEPT ![p].due = TRUE]
    /\ UNCHANGED <<leaseVars, offer, job, delivered>>

\* The freshness CLI (expireStaleShopeeOffers), in one transaction: S are the
\* offers past the age limit.
ExpireStale(S) ==
    LET stale == {o \in S : offer[o] \in {"READY_TO_PUBLISH", "SCHEDULED"}}
    IN /\ stale # {}
       /\ offer' = Reject(stale)
       /\ pub' = [p \in Publications |->
                    IF p[2] \in stale /\ pub[p].status = "SCHEDULED"
                    THEN [pub[p] EXCEPT !.status = "CANCELLED"] ELSE pub[p]]
       /\ UNCHANGED <<leaseVars, job, delivered>>

Leadership(w) ==
    /\ \/ Lead(w) \/ LeadUnanswered(w) \/ Abort(w) \/ Quit(w)
       \/ \E c \in Components : StartUnanswered(w, c)
    /\ UNCHANGED workVars

\* What a live worker does by itself.
Work(w) ==
    \/ Place(w) \/ ReadDue(w)
    \/ \E i \in job[w].todo : Choose(w, i) \/ Take(w, i) \/ Requeue(w, i)
    \/ RefuseStale(w) \/ Unavailable(w)
    \/ \E answer \in Answers : Send(w, answer)
    \/ StoreAttempt(w) \/ StoreResult(w)
    \/ \E S \in SUBSET Offers : ExpireInvalid(w, S)
    \/ Complete(w)

Next ==
    \/ \E k \in Keys : Lapse(k) /\ UNCHANGED workVars
    \/ \E p \in Publications : BecomesDue(p)
    \/ \E S \in SUBSET ShopeeOffers : ExpireStale(S)
    \/ \E w \in Workers :
        \/ Leadership(w)
        \/ StartPublication(w) \/ StartRetry(w) \/ StartMaintenance(w)
        \/ Work(w)
        \/ PlaceUnanswered(w) \/ SendUnanswered(w) \/ FreshnessFails(w)
        \/ DatabaseFails(w) \/ Die(w)

Spec == Init /\ [][Next]_vars

-----------------------------------------------------------------------------
\* Properties.

\* No two workers run one component (OverlapNeedsTwoLapses).
Exclusive ==
    "leader" \notin lapsed \/ (RequireRedis /\ lapsed = {"leader"})

\* A publication reaches its channel again only after a crash, a failed write
\* or a lost answer: one message more for each (docs/operations.md, "Restart
\* and delivery guarantees"), whatever is retried, replanned or overlaps.
RepeatsNeedFaults ==
    Exclusive => \A p \in Publications : delivered[p] <= 1 + faults

\* Transient failures stop after MaxAttempts; only a crash or a failed write
\* between an attempt row and the status can add to them.
AttemptsAreBounded ==
    Exclusive => \A p \in Publications : pub[p].attempts <= MaxAttempts + faults

\* A channel with a pending transient failure is not used for another delivery
\* before its retry time (docs/operations.md:315-317).
ChannelWaits ==
    [][Exclusive => \A p \in Publications :
        delivered'[p] > delivered[p] => ~Waiting(p[1])]_vars

\* The limit counted before the text is written still holds when the row is: no
\* requeued row takes the slot meanwhile, as long as one worker leads.
PlannedWithinLimit ==
    [][("leader" \notin lapsed) => \A p \in Publications :
        (pub[p].status = "NONE" /\ pub'[p].status # "NONE")
            => Counted(p[1]) < DailyLimit]_vars

\* A row once PUBLISHED or EXPORTED is never reopened by a write that follows
\* an older read.
DeliveredIsFinal ==
    [][Exclusive => \A p \in Publications :
        pub[p].status \in {"PUBLISHED", "EXPORTED"}
            => pub'[p].status = pub[p].status]_vars

\* An offer delivered on one channel stays PUBLISHED while the others are
\* planned, retried and expired; only Shopee's freshness may reject it later.
OfferStaysPublished ==
    Exclusive => \A p \in Publications :
        (pub[p].status = "PUBLISHED" /\ p[2] \notin ShopeeOffers)
            => offer[p[2]] = "PUBLISHED"

(***************************************************************************)
(* Fairness: a live worker goes on (every await has a timeout), a stopped  *)
(* one is started again by the supervisor, a due component is started (the *)
(* first tick runs them all), retry times and forgotten keys run out.      *)
(***************************************************************************)
LiveSpec ==
    /\ Spec
    /\ \A w \in Workers : WF_vars(Work(w)) /\ WF_vars(Quit(w) /\ UNCHANGED workVars)
    /\ WF_vars(\E w \in Workers : Lead(w) /\ UNCHANGED workVars)
    /\ SF_vars(\E w \in Workers : StartPublication(w))
    /\ SF_vars(\E w \in Workers : StartRetry(w))
    /\ \A p \in Publications : WF_vars(BecomesDue(p))
    /\ \A k \in Keys : WF_vars(redis[k] = Gone /\ Lapse(k) /\ UNCHANGED workVars)

\* Every planned publication is settled, through crashes, lost answers,
\* retries and the waiting of its channel.
EveryPublicationSettles ==
    \A p \in Publications :
        pub[p].status = "SCHEDULED"
            ~> pub[p].status \in {"PUBLISHED", "EXPORTED", "PUBLICATION_FAILED",
                                  "CANCELLED"}

=============================================================================
