--------------------------- MODULE WhatsAppDispatch ---------------------------
(***************************************************************************)
(* dispatch-authorized: the CLI process that sends one authorized          *)
(* publication to the WhatsApp group, composed with the operational queue. *)
(* A dispatcher loads its context, takes the channel's dispatch lock in    *)
(* Redis, claims the authorization in the database, drives the browser     *)
(* (WhatsAppGroupsWebPublisher.publish), records each stage before the next*)
(* and finalizes the row.  Every invocation dispatches once, so a          *)
(* dispatcher and the claim id it is granted are the same value.           *)
(*                                                                         *)
(* `sent` is what happened in the world: the messages that reached the     *)
(* group.  No process reads it.                                            *)
(*                                                                         *)
(* A database call of the dispatcher may fail without effect, or commit and*)
(* lose its reply; a dispatcher may crash at any point; the lock may lapse *)
(* under a live dispatcher (its renewal ignores the result).  Each of these*)
(* is one fault, bounded by MaxFaults.                                     *)
(***************************************************************************)
EXTENDS WhatsAppQueue

CONSTANT MaxFaults  \* bound: crashes, lost or failed calls, lapses of a live lock

ASSUME FaultsAssumption == MaxFaults \in Nat

VARIABLES
    disp,       \* the dispatchers: control state and local variables
    holder,     \* who holds whatsapp-web:dispatch-channel, or Null
    sent,       \* messages delivered to a group
    faults      \* faults so far

dispatchVars == <<disp, holder, sent, faults>>
vars == <<queueVars, dispatchVars>>

(***************************************************************************)
(* Control states, in the order of the code:                               *)
(*   idle, loaded (gates passed), locked (channel lock), claimed,          *)
(*   drafted (profile and publication locks, attempt, browser, draft),     *)
(*   ready (PRE_SEND_VALIDATION recorded), marking (sendClickStartedAt set *)
(*   locally), click (marker recorded), clicked, waiting, seen (message    *)
(*   confirmed on screen), then what publish() returned: failedResult,     *)
(*   uncertainResult, publishedResult; finishing (finalize done, attempt   *)
(*   not), recover (the catch block), unlock (the finally block), done, or *)
(*   dead after a crash.                                                   *)
(***************************************************************************)
Stages ==
    {"idle", "loaded", "locked", "claimed", "drafted", "ready", "marking",
     "click", "clicked", "waiting", "seen", "failedResult", "uncertainResult",
     "publishedResult", "finishing", "recover", "unlock", "done", "dead"}

\* pub: the publication; group: the group in the loaded context; flag: the
\* dispatcher's own sendClickStarted, which the catch block decides by.
Dispatcher == [stage: Stages, pub: Publications \cup {Null},
               group: Groups \cup {Null}, flag: BOOLEAN]

Idle == [stage |-> "idle", pub |-> Null, group |-> Null, flag |-> FALSE]

Message == [by: Claims, pub: Publications, group: Groups]

TypeOK ==
    /\ QueueTypeOK
    /\ disp \in [Claims -> Dispatcher]
    /\ holder \in Claims \cup {Null}
    /\ sent \subseteq Message
    /\ faults \in 0 .. MaxFaults

Init ==
    /\ QueueInit
    /\ disp = [d \in Claims |-> Idle]
    /\ holder = Null
    /\ sent = {}
    /\ faults = 0

Goto(d, stage) == disp' = [disp EXCEPT ![d].stage = stage]

Fault ==
    /\ faults < MaxFaults
    /\ faults' = faults + 1

NoFault == faults' = faults

-----------------------------------------------------------------------------
\* Before the claim.

\* loadContext and the gates on the loaded row; a refused gate ends the run.
LoadContext(d, p) ==
    /\ disp[d].stage = "idle"
    /\ Planned(p)
    /\ Dispatchable(pub[p], channel, lapsed)
    /\ disp' = [disp EXCEPT ![d] = [stage |-> "loaded", pub |-> p,
                                    group |-> channel.group, flag |-> FALSE]]
    /\ UNCHANGED <<queueVars, holder, sent, faults>>

\* Mutant of TakeChannelLock: a lock held by another dispatcher is overwritten.
TakeChannelLockAnyway(d) ==
    /\ disp[d].stage = "loaded"
    /\ holder' = d /\ Goto(d, "locked")
    /\ UNCHANGED <<queueVars, sent, faults>>

\* acquireOperationalLock: SET NX; busy or Redis unavailable ends the run.
TakeChannelLock(d) ==
    /\ disp[d].stage = "loaded"
    /\ \/ holder = Null /\ holder' = d /\ Goto(d, "locked")
       \/ holder' = holder /\ Goto(d, "unlock")
    /\ UNCHANGED <<queueVars, sent, faults>>

\* A transaction of dispatcher d: it commits and d goes on, it commits but the
\* reply is lost, or it has no effect because a gate refuses it or it fails.
Transaction(d, allowed, commit, next, failed) ==
    \/ allowed /\ commit /\ next /\ NoFault
    \/ allowed /\ commit /\ failed /\ Fault
    \/ allowed /\ UNCHANGED queueVars /\ failed /\ Fault
    \/ ~allowed /\ UNCHANGED queueVars /\ failed /\ NoFault

\* The claim; when it throws the dispatcher has no claim id and the catch block
\* finalizes nothing.
ClaimSend(d) ==
    /\ disp[d].stage = "locked"
    /\ Transaction(d, ClaimAllowed(disp[d].pub), Claim(disp[d].pub, d),
                   Goto(d, "claimed"), Goto(d, "unlock"))
    /\ UNCHANGED <<holder, sent>>

-----------------------------------------------------------------------------
\* Driving the browser: WhatsAppGroupsWebPublisher.publish.

\* Profile and publication locks and the attempt row (a failure there throws to
\* the catch block), then session, group and draft (a failure there is a FAILED
\* result).
PrepareDraft(d) ==
    /\ disp[d].stage = "claimed"
    /\ \E stage \in {"drafted", "recover", "failedResult"} : Goto(d, stage)
    /\ UNCHANGED <<queueVars, holder, sent, faults>>

\* persistSendState(PRE_SEND_VALIDATION_STARTED)
RecordPreSend(d) ==
    /\ disp[d].stage = "drafted"
    /\ Transaction(d, MayRecord(pub[disp[d].pub], d),
                   RecordSendState(disp[d].pub, d, FALSE, FALSE, FALSE),
                   Goto(d, "ready"), Goto(d, "failedResult"))
    /\ UNCHANGED <<holder, sent>>

\* Both validatePreSend calls and the outgoing baseline.
ValidatePreSend(d) ==
    /\ disp[d].stage = "ready"
    /\ \E stage \in {"marking", "failedResult"} : Goto(d, stage)
    /\ UNCHANGED <<queueVars, holder, sent, faults>>

\* Mutant of RecordClickStarted: goes on to the click although the write failed.
RecordClickStartedAnyway(d) ==
    /\ disp[d].stage = "marking"
    /\ Transaction(d, MayRecord(pub[disp[d].pub], d),
                   RecordSendState(disp[d].pub, d, TRUE, FALSE, TRUE),
                   disp' = [disp EXCEPT ![d].stage = "click", ![d].flag = TRUE],
                   Goto(d, "click"))
    /\ UNCHANGED <<holder, sent>>

\* persistSendState(SEND_CLICK_STARTED): the marker that precedes the click.
\* publish() has set its own sendClickStartedAt already, so a failure here is an
\* uncertain result; the dispatcher's flag is set only once the call returned.
RecordClickStarted(d) ==
    /\ disp[d].stage = "marking"
    /\ Transaction(d, MayRecord(pub[disp[d].pub], d),
                   RecordSendState(disp[d].pub, d, TRUE, FALSE, TRUE),
                   disp' = [disp EXCEPT ![d].stage = "click", ![d].flag = TRUE],
                   Goto(d, "uncertainResult"))
    /\ UNCHANGED <<holder, sent>>

\* clickSendTrigger: whether the message goes out and whether the call returns
\* are independent.
ClickSend(d) ==
    /\ disp[d].stage = "click"
    /\ \/ sent' = sent \cup {[by |-> d, pub |-> disp[d].pub, group |-> disp[d].group]}
       \/ sent' = sent
    /\ \E stage \in {"clicked", "uncertainResult"} : Goto(d, stage)
    /\ UNCHANGED <<queueVars, holder, faults>>

\* persistSendState(SEND_CLICK_COMPLETED) and, writing the same fields again,
\* persistSendState(DELIVERY_CONFIRMATION_STARTED).
RecordClickCompleted(d) ==
    /\ disp[d].stage = "clicked"
    /\ Transaction(d, MayRecord(pub[disp[d].pub], d),
                   RecordSendState(disp[d].pub, d, TRUE, TRUE, TRUE),
                   Goto(d, "waiting"), Goto(d, "uncertainResult"))
    /\ UNCHANGED <<holder, sent>>

\* confirmOutgoingMessage: sees the message only if it went out, and may miss it.
ConfirmOutgoing(d) ==
    /\ disp[d].stage = "waiting"
    /\ \/ (\E m \in sent : m.by = d) /\ Goto(d, "seen")
       \/ Goto(d, "uncertainResult")
    /\ UNCHANGED <<queueVars, holder, sent, faults>>

\* persistSendState(DELIVERY_CONFIRMED): the row stays uncertain until finalize.
RecordConfirmed(d) ==
    /\ disp[d].stage = "seen"
    /\ Transaction(d, MayRecord(pub[disp[d].pub], d),
                   RecordSendState(disp[d].pub, d, TRUE, TRUE, FALSE),
                   Goto(d, "publishedResult"), Goto(d, "uncertainResult"))
    /\ UNCHANGED <<holder, sent>>

-----------------------------------------------------------------------------
\* After publish() returned.

OutcomeOf(stage) ==
    CASE stage = "publishedResult" -> "PUBLISHED"
      [] stage = "uncertainResult" -> "DELIVERY_UNCERTAIN"
      [] stage = "failedResult"    -> "FAILED_BEFORE_CLICK"

FinalizeAs(d, outcome, next, failed) ==
    Transaction(d, MayFinalize(pub[disp[d].pub], d, outcome),
                FinalizeDispatch(disp[d].pub, d, outcome), next, failed)

\* finalize with the outcome of the result; any failure goes to the catch block.
FinalizeResult(d) ==
    /\ disp[d].stage \in {"publishedResult", "uncertainResult", "failedResult"}
    /\ FinalizeAs(d, OutcomeOf(disp[d].stage), Goto(d, "finishing"), Goto(d, "recover"))
    /\ UNCHANGED <<holder, sent>>

\* finishAttempt: a failure goes to the catch block although finalize is done.
FinishAttempt(d) ==
    /\ disp[d].stage = "finishing"
    /\ \/ Goto(d, "unlock") /\ NoFault
       \/ Goto(d, "recover") /\ Fault
    /\ UNCHANGED <<queueVars, holder, sent>>

\* Mutant of Recover: the catch block forgets to finalize.
RecoverWithoutFinalize(d) ==
    /\ disp[d].stage = "recover"
    /\ Goto(d, "unlock") /\ NoFault
    /\ UNCHANGED <<queueVars, holder, sent>>

\* The catch block finalizes by the flag alone and swallows every error.
Recover(d) ==
    /\ disp[d].stage = "recover"
    /\ FinalizeAs(d, IF disp[d].flag THEN "DELIVERY_UNCERTAIN" ELSE "FAILED_BEFORE_CLICK",
                  Goto(d, "unlock"), Goto(d, "unlock"))
    /\ UNCHANGED <<holder, sent>>

\* The finally block: compare-and-delete of the lock this dispatcher holds.
ReleaseLocks(d) ==
    /\ disp[d].stage = "unlock"
    /\ holder' = IF holder = d THEN Null ELSE holder
    /\ Goto(d, "done")
    /\ UNCHANGED <<queueVars, sent, faults>>

-----------------------------------------------------------------------------
\* Crashes and lapses.

Running == Stages \ {"idle", "done", "dead"}

Crash(d) ==
    /\ disp[d].stage \in Running
    /\ Goto(d, "dead")
    /\ Fault
    /\ UNCHANGED <<queueVars, holder, sent>>

\* The lock's TTL passes: always when its holder is dead, and as a fault when
\* the holder is alive.
LapseLock ==
    /\ holder # Null
    /\ IF disp[holder].stage = "dead" THEN NoFault ELSE Fault
    /\ holder' = Null
    /\ UNCHANGED <<queueVars, disp, sent>>

-----------------------------------------------------------------------------
DispatchStep(d) ==
    \/ TakeChannelLock(d) \/ ClaimSend(d)
    \/ PrepareDraft(d) \/ RecordPreSend(d) \/ ValidatePreSend(d)
    \/ RecordClickStarted(d) \/ ClickSend(d) \/ RecordClickCompleted(d)
    \/ ConfirmOutgoing(d) \/ RecordConfirmed(d)
    \/ FinalizeResult(d) \/ FinishAttempt(d) \/ Recover(d) \/ ReleaseLocks(d)

DispatchNext ==
    \/ \E d \in Claims : \/ \E p \in Publications : LoadContext(d, p)
                         \/ DispatchStep(d)
                         \/ Crash(d)
    \/ LapseLock

Next == (OperatorNext /\ UNCHANGED dispatchVars) \/ DispatchNext

Spec == Init /\ [][Next]_vars

\* A live process keeps running; nothing is assumed of the operator.
LiveSpec == Spec /\ \A d \in Claims : WF_vars(DispatchStep(d))

-----------------------------------------------------------------------------
\* What the composition implements: each publication is announced by its marker,
\* delivered at most once, and keeps an answer from the mark on (see SendOnce).
\* The mapping counts the messages in the group: every message counts, since a
\* dispatcher clicks once and its messages carry its name.

Deliveries(p) == Cardinality({m \in sent : m.pub = p})

AnswerOf(p) ==
    IF ~pub[p].started THEN "none"
    ELSE IF Unresolved(pub[p]) THEN "unknown" ELSE "decided"

Once == INSTANCE SendOnce
            WITH deliveries <- [p \in Publications |-> Deliveries(p)],
                 answer <- [p \in Publications |-> AnswerOf(p)]

\* The queue with its dispatchers implements SendOnce.
SendsOnce == Once!Spec

-----------------------------------------------------------------------------
\* Properties of the composition.

\* No publication is delivered twice.
AtMostOneSend == \A m, n \in sent : m.pub = n.pub => m = n

\* A delivered message is known to the database: its row carries the marker and
\* blocks the channel until delivery is confirmed or decided by the operator.
SentIsAccountedFor ==
    \A m \in sent :
        LET row == pub[m.pub]
        IN  row.started /\ (Unresolved(row) \/ row.confirmed \/ Decided(row))

\* A row's status does not lie about the message: a delivered one is offered for
\* sending again only after the operator's explicit retry authorization, and a
\* publication says PUBLISHED only if its message went out or the operator said so.
StatusTellsWhatWasSent ==
    /\ \A m \in sent : pub[m.pub].status = "SCHEDULED" => pub[m.pub].retry
    /\ \A p \in Publications :
        pub[p].status = "PUBLISHED" =>
            pub[p].verdict = "DELIVERED" \/ \E m \in sent : m.pub = p

\* At most one delivery of the channel is unresolved at a time.
OneUnresolved == \A p, q \in UnresolvedSet : p = q

\* A claim does not stay behind: a dispatcher that runs on gives it back.
ClaimIsGivenBack ==
    \A p \in Publications : pub[p].auth = "CLAIMED" ~> pub[p].auth # "CLAIMED"

-----------------------------------------------------------------------------
\* What the documentation says of the program and the code does not keep.

\* docs/architecture.md: "terminal items are preserved".
PublishedIsFinal ==
    [][\A p \in Publications :
        pub[p].status = "PUBLISHED" => pub'[p].status = "PUBLISHED"]_vars

\* docs/shopee-production-pipeline.md: the message of a publication cancelled for
\* staleness is "never rewritten or sent".
CancelledIsNeverSent ==
    \A p \in Publications :
        LET unsent == \A m \in sent : m.pub # p
        IN  [](pub[p].status = "CANCELLED" /\ unsent => []unsent)

\* docs/whatsapp-groups.md: an authorization is "bound to the exact
\* Publication/channel/fingerprint": the message goes to the authorized group.
SentToAuthorizedGroup ==
    [][\A m \in sent' \ sent : pub[m.pub].authFp.group = m.group]_vars

\* docs/whatsapp-groups.md: after a not-delivered resolution "a second explicit
\* action [can] authorize one retry": a retry that passed inspection and preflight
\* can be authorized.
RetryCanBeAuthorized ==
    \A p \in Publications :
        /\ pub[p].retry /\ Active(p) /\ UnresolvedSet = {}
        /\ ChannelOpen(channel)
        /\ Inspected(pub[p], channel) /\ Preflighted(pub[p], channel)
        /\ pub[p].web = "PREFLIGHT_READY"
        => MayAuthorize(pub[p], channel, lapsed)
=============================================================================
