------------------------ MODULE WhatsAppDispatchProofs ------------------------
(***************************************************************************)
(* Proofs about WhatsAppDispatch, for any number of dispatchers,           *)
(* publications, crashes and lost replies, as long as no command writes    *)
(* back an old row (MaxReads = 0).                                         *)
(*                                                                         *)
(* Part 1: no publication is delivered twice.  Only a dispatcher in control*)
(* state "click" delivers; it is there only once the marker is stored under*)
(* its own claim; marker and claim never change after that (GoodStep, from *)
(* WhatsAppQueueProofs); so a delivered publication names its one sender,  *)
(* and that sender has left "click" for good.                              *)
(* Part 2: the status of a row does not lie about its message.             *)
(* Part 3: queue and dispatchers implement SendOnce.                       *)
(* Part 4: at most one delivery is unresolved at a time.                   *)
(***************************************************************************)
EXTENDS WhatsAppDispatch, WhatsAppQueueProofs

\* Part 1: no publication is delivered twice.

\* The control states a dispatcher can be in once it has been at "click".
AfterClick ==
    {"clicked", "waiting", "seen", "uncertainResult", "publishedResult",
     "finishing", "recover", "unlock", "done", "dead"}

Assigned(d) == disp[d].stage # "idle" =>
                    disp[d].pub \in Publications /\ disp[d].group \in Groups

ClickIsMarked(d) == disp[d].stage = "click" =>
                        /\ pub[disp[d].pub].started
                        /\ pub[disp[d].pub].claim = d

SentIsMarked(m) == /\ pub[m.pub].started
                   /\ pub[m.pub].claim = m.by
                   /\ disp[m.by].stage \in AfterClick

\* The inductive invariant.
DispatchInv ==
    /\ TypeOK
    /\ QueueInv
    /\ \A d \in Claims : Assigned(d) /\ ClickIsMarked(d)
    /\ \A m \in sent : SentIsMarked(m)
    /\ AtMostOneSend

\* How a step moves the dispatchers when it neither enters "click" nor delivers.
QuietMoves ==
    /\ disp' \in [Claims -> Dispatcher]
    /\ \A d \in Claims :
        /\ Assigned(d)'
        /\ disp[d].stage \in AfterClick => disp'[d].stage \in AfterClick
        /\ disp'[d].stage = "click" => disp'[d] = disp[d]

QuietStep ==
    /\ StepFacts
    /\ QuietMoves
    /\ holder' \in Claims \cup {Null}
    /\ sent' = sent
    /\ faults' \in 0 .. MaxFaults

LEMMA QuietStepKeepsInv ==
    ASSUME MaxReads = 0, DispatchInv, QuietStep
    PROVE  DispatchInv'
<1>1. QueueInv' /\ \A p \in Publications : Keeps(pub[p], pub'[p])
  BY QueueInvStep DEF DispatchInv, QuietStep
<1>2. TypeOK'
  BY DEF DispatchInv, QuietStep, QuietMoves, TypeOK, StepFacts
<1>3. ASSUME NEW d \in Claims
      PROVE  Assigned(d)' /\ ClickIsMarked(d)'
  BY <1>1 DEF QuietStep, QuietMoves, DispatchInv, Assigned, ClickIsMarked, Keeps
<1>4. ASSUME NEW m \in sent'
      PROVE  SentIsMarked(m)'
  <2>1. m \in sent /\ m.pub \in Publications /\ m.by \in Claims
    BY DEF QuietStep, DispatchInv, TypeOK, Message
  <2> QED
    BY <1>1, <2>1 DEF QuietStep, QuietMoves, DispatchInv, SentIsMarked, Keeps
<1>5. AtMostOneSend'
  BY DEF QuietStep, DispatchInv, AtMostOneSend
<1> QED
  BY <1>1, <1>2, <1>3, <1>4, <1>5 DEF DispatchInv

LEMMA NoMove ==
    ASSUME DispatchInv, disp' = disp
    PROVE  QuietMoves
BY DEF DispatchInv, TypeOK, QuietMoves, Assigned

LEMMA GotoMoves ==
    ASSUME DispatchInv, NEW d \in Claims, NEW stage \in Stages \ {"idle", "click"},
           disp[d].stage # "idle",
           disp[d].stage \in AfterClick => stage \in AfterClick,
           Goto(d, stage)
    PROVE  QuietMoves
<1>1. disp \in [Claims -> Dispatcher]
  BY DEF DispatchInv, TypeOK
<1>2. disp' \in [Claims -> Dispatcher]
  BY <1>1 DEF Goto, Dispatcher
<1>3. ASSUME NEW e \in Claims
      PROVE  /\ Assigned(e)'
             /\ disp[e].stage \in AfterClick => disp'[e].stage \in AfterClick
             /\ disp'[e].stage = "click" => disp'[e] = disp[e]
  <2>1. CASE e = d
    <3>1. /\ disp'[e].stage = stage
          /\ disp'[e].pub = disp[e].pub /\ disp'[e].group = disp[e].group
      BY <1>1, <2>1 DEF Goto, Dispatcher
    <3> QED
      BY <2>1, <3>1 DEF DispatchInv, Assigned
  <2>2. CASE e # d
    BY <1>1, <2>2 DEF Goto, DispatchInv, Assigned
  <2> QED
    BY <2>1, <2>2
<1> QED
  BY <1>2, <1>3 DEF QuietMoves

LEMMA SmallFacts ==
    ASSUME DispatchInv
    PROVE  /\ holder \in Claims \cup {Null}
           /\ faults \in 0 .. MaxFaults
           /\ NoFault => faults' \in 0 .. MaxFaults
           /\ Fault => faults' \in 0 .. MaxFaults
           /\ QueueTypeOK
<1>1. faults \in 0 .. MaxFaults
  BY DEF DispatchInv, TypeOK
<1>2. Fault => faults' \in 0 .. MaxFaults
  BY <1>1, FaultsAssumption DEF Fault
<1> QED
  BY <1>1, <1>2 DEF DispatchInv, TypeOK, NoFault

-----------------------------------------------------------------------------
\* One lemma per action: a quiet step, or the invariant directly.

LEMMA OperatorQuiet ==
    ASSUME DispatchInv, OperatorNext, UNCHANGED dispatchVars
    PROVE  QuietStep
BY OperatorFacts, NoMove, SmallFacts DEF QuietStep, dispatchVars

LEMMA LoadContextQuiet ==
    ASSUME DispatchInv, NEW d \in Claims, NEW p \in Publications, LoadContext(d, p)
    PROVE  QuietStep
<1>1. disp \in [Claims -> Dispatcher] /\ channel.group \in Groups
  BY DEF DispatchInv, TypeOK, QueueTypeOK, Channels
<1> DEFINE new == [stage |-> "loaded", pub |-> p, group |-> channel.group, flag |-> FALSE]
<1>2. new \in Dispatcher
  BY <1>1 DEF Dispatcher, Stages
<1>3. disp[d].stage = "idle" /\ disp' = [disp EXCEPT ![d] = new]
  BY DEF LoadContext
<1>4. disp' \in [Claims -> Dispatcher]
  BY <1>1, <1>2, <1>3
<1>5. ASSUME NEW e \in Claims
      PROVE  /\ Assigned(e)'
             /\ disp[e].stage \in AfterClick => disp'[e].stage \in AfterClick
             /\ disp'[e].stage = "click" => disp'[e] = disp[e]
  <2>1. CASE e = d
    BY <1>1, <1>3, <2>1 DEF Assigned, AfterClick
  <2>2. CASE e # d
    BY <1>1, <1>3, <2>2 DEF DispatchInv, Assigned
  <2> QED
    BY <2>1, <2>2
<1>6. QuietMoves
  BY <1>4, <1>5 DEF QuietMoves
<1>7. StepFacts
  BY SmallFacts, StutterFacts DEF LoadContext
<1> QED
  BY <1>6, <1>7, SmallFacts DEF QuietStep, LoadContext

LEMMA TakeChannelLockQuiet ==
    ASSUME DispatchInv, NEW d \in Claims, TakeChannelLock(d)
    PROVE  QuietStep
<1>1. QuietMoves
  <2>1. PICK stage \in {"locked", "unlock"} : Goto(d, stage)
    BY DEF TakeChannelLock
  <2> QED
    BY <2>1, GotoMoves DEF TakeChannelLock, Stages, AfterClick
<1>2. StepFacts
  BY SmallFacts, StutterFacts DEF TakeChannelLock
<1>3. holder' \in Claims \cup {Null}
  BY SmallFacts DEF TakeChannelLock
<1> QED
  BY <1>1, <1>2, <1>3, SmallFacts DEF QuietStep, TakeChannelLock

\* A database step of d that goes to a stage other than "click".
LEMMA DatabaseStepQuiet ==
    ASSUME DispatchInv, NEW d \in Claims, NEW stage \in Stages \ {"idle", "click"},
           disp[d].stage # "idle",
           disp[d].stage \in AfterClick => stage \in AfterClick,
           Goto(d, stage), StepFacts, UNCHANGED <<holder, sent>>, NoFault \/ Fault
    PROVE  QuietStep
BY GotoMoves, SmallFacts DEF QuietStep

LEMMA AssignedPub ==
    ASSUME DispatchInv, NEW d \in Claims, disp[d].stage # "idle"
    PROVE  disp[d].pub \in Publications /\ disp[d].group \in Groups
BY DEF DispatchInv, Assigned

LEMMA ClaimSendQuiet ==
    ASSUME DispatchInv, NEW d \in Claims, ClaimSend(d)
    PROVE  QuietStep
<1>1. disp[d].pub \in Publications
  BY AssignedPub DEF ClaimSend
<1>2. StepFacts
  <2>1. Claim(disp[d].pub, d) \/ UNCHANGED queueVars
    BY DEF ClaimSend, Transaction
  <2> QED
    BY <1>1, <2>1, SmallFacts, ClaimFacts, StutterFacts
<1>3. PICK stage \in {"claimed", "unlock"} : Goto(d, stage)
  BY DEF ClaimSend, Transaction
<1>4. NoFault \/ Fault
  BY DEF ClaimSend, Transaction
<1> QED
  BY <1>2, <1>3, <1>4, DatabaseStepQuiet DEF ClaimSend, Stages, AfterClick

LEMMA PrepareDraftQuiet ==
    ASSUME DispatchInv, NEW d \in Claims, PrepareDraft(d)
    PROVE  QuietStep
<1>1. PICK stage \in {"drafted", "recover", "failedResult"} : Goto(d, stage)
  BY DEF PrepareDraft
<1>2. StepFacts
  BY SmallFacts, StutterFacts DEF PrepareDraft
<1> QED
  BY <1>1, <1>2, DatabaseStepQuiet DEF PrepareDraft, NoFault, Stages, AfterClick

LEMMA ValidatePreSendQuiet ==
    ASSUME DispatchInv, NEW d \in Claims, ValidatePreSend(d)
    PROVE  QuietStep
<1>1. PICK stage \in {"marking", "failedResult"} : Goto(d, stage)
  BY DEF ValidatePreSend
<1>2. StepFacts
  BY SmallFacts, StutterFacts DEF ValidatePreSend
<1> QED
  BY <1>1, <1>2, DatabaseStepQuiet DEF ValidatePreSend, NoFault, Stages, AfterClick

LEMMA ConfirmOutgoingQuiet ==
    ASSUME DispatchInv, NEW d \in Claims, ConfirmOutgoing(d)
    PROVE  QuietStep
<1>1. PICK stage \in {"seen", "uncertainResult"} : Goto(d, stage)
  BY DEF ConfirmOutgoing
<1>2. StepFacts
  BY SmallFacts, StutterFacts DEF ConfirmOutgoing
<1> QED
  BY <1>1, <1>2, DatabaseStepQuiet DEF ConfirmOutgoing, NoFault, Stages, AfterClick

LEMMA RecordFacts ==
    ASSUME DispatchInv, NEW d \in Claims, disp[d].stage # "idle",
           NEW marker \in BOOLEAN, NEW clicked \in BOOLEAN, NEW unsure \in BOOLEAN,
           RecordSendState(disp[d].pub, d, marker, clicked, unsure) \/ UNCHANGED queueVars
    PROVE  StepFacts
BY AssignedPub, SmallFacts, RecordSendStateFacts, StutterFacts

LEMMA RecordPreSendQuiet ==
    ASSUME DispatchInv, NEW d \in Claims, RecordPreSend(d)
    PROVE  QuietStep
<1>1. PICK stage \in {"ready", "failedResult"} : Goto(d, stage)
  BY DEF RecordPreSend, Transaction
<1>2. RecordSendState(disp[d].pub, d, FALSE, FALSE, FALSE) \/ UNCHANGED queueVars
  BY DEF RecordPreSend, Transaction
<1>3. StepFacts
  BY <1>2, RecordFacts DEF RecordPreSend
<1>4. NoFault \/ Fault
  BY DEF RecordPreSend, Transaction
<1> QED
  BY <1>1, <1>3, <1>4, DatabaseStepQuiet DEF RecordPreSend, Stages, AfterClick

LEMMA RecordClickCompletedQuiet ==
    ASSUME DispatchInv, NEW d \in Claims, RecordClickCompleted(d)
    PROVE  QuietStep
<1>1. PICK stage \in {"waiting", "uncertainResult"} : Goto(d, stage)
  BY DEF RecordClickCompleted, Transaction
<1>2. RecordSendState(disp[d].pub, d, TRUE, TRUE, TRUE) \/ UNCHANGED queueVars
  BY DEF RecordClickCompleted, Transaction
<1>3. StepFacts
  BY <1>2, RecordFacts DEF RecordClickCompleted
<1>4. NoFault \/ Fault
  BY DEF RecordClickCompleted, Transaction
<1> QED
  BY <1>1, <1>3, <1>4, DatabaseStepQuiet DEF RecordClickCompleted, Stages, AfterClick

LEMMA RecordConfirmedQuiet ==
    ASSUME DispatchInv, NEW d \in Claims, RecordConfirmed(d)
    PROVE  QuietStep
<1>1. PICK stage \in {"publishedResult", "uncertainResult"} : Goto(d, stage)
  BY DEF RecordConfirmed, Transaction
<1>2. RecordSendState(disp[d].pub, d, TRUE, TRUE, FALSE) \/ UNCHANGED queueVars
  BY DEF RecordConfirmed, Transaction
<1>3. StepFacts
  BY <1>2, RecordFacts DEF RecordConfirmed
<1>4. NoFault \/ Fault
  BY DEF RecordConfirmed, Transaction
<1> QED
  BY <1>1, <1>3, <1>4, DatabaseStepQuiet DEF RecordConfirmed, Stages, AfterClick

LEMMA FinalizeFacts ==
    ASSUME DispatchInv, NEW d \in Claims, disp[d].stage # "idle", NEW outcome \in Outcomes,
           FinalizeDispatch(disp[d].pub, d, outcome) \/ UNCHANGED queueVars
    PROVE  StepFacts
BY AssignedPub, SmallFacts, FinalizeDispatchFacts, StutterFacts

LEMMA FinalizeResultQuiet ==
    ASSUME DispatchInv, NEW d \in Claims, FinalizeResult(d)
    PROVE  QuietStep
<1>1. PICK stage \in {"finishing", "recover"} : Goto(d, stage)
  BY DEF FinalizeResult, FinalizeAs, Transaction
<1>2. OutcomeOf(disp[d].stage) \in Outcomes
  BY DEF FinalizeResult, OutcomeOf, Outcomes
<1>3. FinalizeDispatch(disp[d].pub, d, OutcomeOf(disp[d].stage)) \/ UNCHANGED queueVars
  BY DEF FinalizeResult, FinalizeAs, Transaction
<1>4. StepFacts
  BY <1>2, <1>3, FinalizeFacts DEF FinalizeResult
<1>5. NoFault \/ Fault
  BY DEF FinalizeResult, FinalizeAs, Transaction
<1> QED
  BY <1>1, <1>4, <1>5, DatabaseStepQuiet DEF FinalizeResult, Stages, AfterClick

LEMMA FinishAttemptQuiet ==
    ASSUME DispatchInv, NEW d \in Claims, FinishAttempt(d)
    PROVE  QuietStep
<1>1. PICK stage \in {"unlock", "recover"} : Goto(d, stage)
  BY DEF FinishAttempt
<1>2. StepFacts
  BY SmallFacts, StutterFacts DEF FinishAttempt
<1>3. NoFault \/ Fault
  BY DEF FinishAttempt
<1> QED
  BY <1>1, <1>2, <1>3, DatabaseStepQuiet DEF FinishAttempt, Stages, AfterClick

LEMMA RecoverQuiet ==
    ASSUME DispatchInv, NEW d \in Claims, Recover(d)
    PROVE  QuietStep
<1> DEFINE outcome == IF disp[d].flag THEN "DELIVERY_UNCERTAIN" ELSE "FAILED_BEFORE_CLICK"
<1>1. Goto(d, "unlock")
  BY DEF Recover, FinalizeAs, Transaction
<1>2. outcome \in Outcomes
  BY DEF Outcomes
<1>3. FinalizeDispatch(disp[d].pub, d, outcome) \/ UNCHANGED queueVars
  BY DEF Recover, FinalizeAs, Transaction
<1>4. StepFacts
  BY <1>2, <1>3, FinalizeFacts DEF Recover
<1>5. NoFault \/ Fault
  BY DEF Recover, FinalizeAs, Transaction
<1> QED
  BY <1>1, <1>4, <1>5, DatabaseStepQuiet DEF Recover, Stages, AfterClick

LEMMA ReleaseLocksQuiet ==
    ASSUME DispatchInv, NEW d \in Claims, ReleaseLocks(d)
    PROVE  QuietStep
<1>1. QuietMoves
  BY GotoMoves DEF ReleaseLocks, Stages, AfterClick
<1>2. StepFacts
  BY SmallFacts, StutterFacts DEF ReleaseLocks
<1> QED
  BY <1>1, <1>2, SmallFacts DEF QuietStep, ReleaseLocks

LEMMA CrashQuiet ==
    ASSUME DispatchInv, NEW d \in Claims, Crash(d)
    PROVE  QuietStep
<1>1. QuietMoves
  BY GotoMoves DEF Crash, Running, Stages, AfterClick
<1>2. StepFacts
  BY SmallFacts, StutterFacts DEF Crash
<1> QED
  BY <1>1, <1>2, SmallFacts DEF QuietStep, Crash

LEMMA LapseLockQuiet ==
    ASSUME DispatchInv, LapseLock
    PROVE  QuietStep
<1>1. StepFacts
  BY SmallFacts, StutterFacts DEF LapseLock
<1> QED
  BY <1>1, NoMove, SmallFacts DEF QuietStep, LapseLock

\* Writing the marker: a quiet step when it fails; when it succeeds the dispatcher is
\* at "click" and the row carries the marker under its claim.
LEMMA RecordClickStartedKeepsInv ==
    ASSUME MaxReads = 0, DispatchInv, NEW d \in Claims, RecordClickStarted(d)
    PROVE  DispatchInv'
<1> DEFINE p == disp[d].pub
<1>1. p \in Publications /\ disp[d].stage = "marking"
  BY AssignedPub DEF RecordClickStarted
<1>2. RecordSendState(p, d, TRUE, FALSE, TRUE) \/ UNCHANGED queueVars
  BY DEF RecordClickStarted, Transaction
<1>3. StepFacts
  BY <1>1, <1>2, RecordFacts
<1>4. (NoFault \/ Fault) /\ UNCHANGED <<holder, sent>>
  BY DEF RecordClickStarted, Transaction
<1>5. CASE Goto(d, "uncertainResult")
  BY <1>1, <1>3, <1>4, <1>5, DatabaseStepQuiet, QuietStepKeepsInv DEF Stages, AfterClick
<1>6. CASE /\ MayRecord(pub[p], d)
           /\ RecordSendState(p, d, TRUE, FALSE, TRUE)
           /\ disp' = [disp EXCEPT ![d].stage = "click", ![d].flag = TRUE]
  <2>1. /\ disp \in [Claims -> Dispatcher] /\ sent \subseteq Message
        /\ pub \in [Publications -> Rows]
    BY DEF DispatchInv, TypeOK, QueueTypeOK
  <2>2. QueueInv' /\ \A q \in Publications : Keeps(pub[q], pub'[q])
    BY <1>3, QueueInvStep DEF DispatchInv
  <2>3. pub'[p].started /\ pub'[p].claim = d
    <3>1. pub' = [pub EXCEPT ![p] = Recorded(pub[p], TRUE, FALSE, TRUE)]
      BY <1>1, <1>6, SmallFacts, RecordSendStateFacts
    <3>2. pub[p] \in Rows /\ pub[p].status # "NONE" /\ pub[p].claim = d
      BY <1>1, <1>6, <2>1 DEF RecordSendState, Planned, MayRecord
    <3> QED
      BY <1>1, <2>1, <3>1, <3>2, RecordedStep
  <2>4. /\ disp' \in [Claims -> Dispatcher]
        /\ disp'[d].stage = "click" /\ disp'[d].pub = p /\ disp'[d].group = disp[d].group
        /\ \A e \in Claims \ {d} : disp'[e] = disp[e]
    BY <1>6, <2>1 DEF Dispatcher, Stages
  <2>5. TypeOK'
    BY <1>3, <1>4, <2>1, <2>4, SmallFacts DEF TypeOK, StepFacts
  <2>6. ASSUME NEW e \in Claims
        PROVE  Assigned(e)' /\ ClickIsMarked(e)'
    <3>1. CASE e = d
      BY <1>1, <2>3, <2>4, <3>1, AssignedPub DEF Assigned, ClickIsMarked
    <3>2. CASE e # d
      BY <2>2, <2>4, <3>2 DEF DispatchInv, Assigned, ClickIsMarked, Keeps
    <3> QED
      BY <3>1, <3>2
  <2>7. ASSUME NEW m \in sent'
        PROVE  SentIsMarked(m)'
    <3>1. m \in sent /\ m.pub \in Publications /\ m.by \in Claims
      BY <1>4, <2>1 DEF Message
    <3>2. SentIsMarked(m)
      BY <3>1 DEF DispatchInv
    <3>3. m.by # d
      BY <1>1, <3>2 DEF SentIsMarked, AfterClick
    <3> QED
      BY <2>2, <2>4, <3>1, <3>2, <3>3 DEF SentIsMarked, Keeps
  <2>8. AtMostOneSend'
    BY <1>4 DEF DispatchInv, AtMostOneSend
  <2> QED
    BY <2>2, <2>5, <2>6, <2>7, <2>8 DEF DispatchInv
<1> QED
  BY <1>5, <1>6 DEF RecordClickStarted, Transaction

\* The click: the marker names its one sender, who has not been past "click" before.
LEMMA ClickSendKeepsInv ==
    ASSUME MaxReads = 0, DispatchInv, NEW d \in Claims, ClickSend(d)
    PROVE  DispatchInv'
<1> DEFINE p == disp[d].pub
           new == [by |-> d, pub |-> p, group |-> disp[d].group]
<1>1. /\ p \in Publications /\ disp[d].group \in Groups /\ disp[d].stage = "click"
      /\ pub[p].started /\ pub[p].claim = d
  BY AssignedPub DEF ClickSend, DispatchInv, ClickIsMarked
<1>2. StepFacts /\ pub' = pub
  BY SmallFacts, StutterFacts DEF ClickSend, queueVars
<1>3. PICK stage \in {"clicked", "uncertainResult"} : Goto(d, stage)
  BY DEF ClickSend
<1>4. QuietMoves
  BY <1>1, <1>3, GotoMoves DEF Stages, AfterClick
<1>5. CASE sent' = sent
  BY <1>2, <1>4, <1>5, SmallFacts, QuietStepKeepsInv DEF QuietStep, ClickSend
<1>6. CASE sent' = sent \cup {new}
  <2>1. sent \subseteq Message /\ disp \in [Claims -> Dispatcher]
    BY DEF DispatchInv, TypeOK
  <2>2. new \in Message
    BY <1>1 DEF Message
  <2>3. QueueInv'
    BY <1>2, QueueInvStep DEF DispatchInv
  <2>4. TypeOK'
    BY <1>2, <1>4, <1>6, <2>1, <2>2, SmallFacts
    DEF TypeOK, StepFacts, QuietMoves, ClickSend
  <2>5. ASSUME NEW e \in Claims
        PROVE  Assigned(e)' /\ ClickIsMarked(e)'
    BY <1>2, <1>4 DEF QuietMoves, DispatchInv, ClickIsMarked
  <2>6. disp'[d].stage \in AfterClick
    BY <1>3, <2>1 DEF Goto, AfterClick, Dispatcher
  <2>7. ASSUME NEW m \in sent'
        PROVE  SentIsMarked(m)'
    <3>1. CASE m = new
      BY <1>1, <1>2, <2>6, <3>1 DEF SentIsMarked
    <3>2. CASE m \in sent
      BY <1>2, <1>4, <2>1, <3>2 DEF QuietMoves, DispatchInv, SentIsMarked, Message
    <3> QED
      BY <1>6, <3>1, <3>2
  <2>8. ASSUME NEW m \in sent
        PROVE  m.pub # p
    BY <1>1, <2>8 DEF DispatchInv, SentIsMarked, AfterClick
  <2>9. AtMostOneSend'
    BY <1>6, <2>8 DEF DispatchInv, AtMostOneSend
  <2> QED
    BY <2>3, <2>4, <2>5, <2>7, <2>9 DEF DispatchInv
<1> QED
  BY <1>5, <1>6 DEF ClickSend

LEMMA DispatchStepKeepsInv ==
    ASSUME MaxReads = 0, DispatchInv, NEW d \in Claims, DispatchStep(d)
    PROVE  DispatchInv'
<1>1. CASE RecordClickStarted(d)
  BY <1>1, RecordClickStartedKeepsInv
<1>2. CASE ClickSend(d)
  BY <1>2, ClickSendKeepsInv
<1>3. CASE ~RecordClickStarted(d) /\ ~ClickSend(d)
  <2>1. QuietStep
    BY <1>3, TakeChannelLockQuiet, ClaimSendQuiet, PrepareDraftQuiet, RecordPreSendQuiet,
       ValidatePreSendQuiet, RecordClickCompletedQuiet, ConfirmOutgoingQuiet,
       RecordConfirmedQuiet, FinalizeResultQuiet, FinishAttemptQuiet, RecoverQuiet,
       ReleaseLocksQuiet
    DEF DispatchStep
  <2> QED
    BY <2>1, QuietStepKeepsInv
<1> QED
  BY <1>1, <1>2, <1>3

LEMMA NextKeepsInv ==
    ASSUME MaxReads = 0, DispatchInv, [Next]_vars
    PROVE  DispatchInv'
<1>1. CASE OperatorNext /\ UNCHANGED dispatchVars
  BY <1>1, OperatorQuiet, QuietStepKeepsInv
<1>2. ASSUME NEW d \in Claims, NEW p \in Publications, LoadContext(d, p)
      PROVE  DispatchInv'
  BY <1>2, LoadContextQuiet, QuietStepKeepsInv
<1>3. ASSUME NEW d \in Claims, DispatchStep(d)
      PROVE  DispatchInv'
  BY <1>3, DispatchStepKeepsInv
<1>4. ASSUME NEW d \in Claims, Crash(d)
      PROVE  DispatchInv'
  BY <1>4, CrashQuiet, QuietStepKeepsInv
<1>5. CASE LapseLock
  BY <1>5, LapseLockQuiet, QuietStepKeepsInv
<1>6. CASE UNCHANGED vars
  <2>1. QuietStep
    BY <1>6, NoMove, SmallFacts, StutterFacts DEF QuietStep, vars, dispatchVars
  <2> QED
    BY <2>1, QuietStepKeepsInv
<1> QED
  BY <1>1, <1>2, <1>3, <1>4, <1>5, <1>6 DEF Next, DispatchNext

LEMMA InitInv == Init => DispatchInv
<1> SUFFICES ASSUME Init
             PROVE  DispatchInv
  OBVIOUS
<1>1. QueueInv
  BY QueueInitFacts DEF Init, QueueInv
<1>2. Idle \in Dispatcher
  BY DEF Idle, Dispatcher, Stages
<1>3. TypeOK
  BY <1>1, <1>2, FaultsAssumption DEF Init, TypeOK, QueueInv
<1>4. \A d \in Claims : disp[d].stage = "idle"
  BY DEF Init, Idle
<1> QED
  BY <1>1, <1>3, <1>4 DEF Init, DispatchInv, Assigned, ClickIsMarked, AtMostOneSend

-----------------------------------------------------------------------------
\* The theorems.

LEMMA DispatchInvariant ==
    ASSUME MaxReads = 0
    PROVE  Spec => []DispatchInv
<1>1. DispatchInv /\ [Next]_vars => DispatchInv'
  BY NextKeepsInv
<1> QED
  BY <1>1, InitInv, PTL DEF Spec

\* Every reachable state of queue and dispatchers is well typed.
THEOREM DispatchTypeCorrect ==
    ASSUME MaxReads = 0
    PROVE  Spec => []TypeOK
<1>1. DispatchInv => TypeOK
  BY DEF DispatchInv
<1> QED
  BY <1>1, DispatchInvariant, PTL

\* No publication is delivered twice, however many dispatchers run, crash, lose
\* replies or lose their lock.
THEOREM NoDoubleSend ==
    ASSUME MaxReads = 0
    PROVE  Spec => []AtMostOneSend
<1>1. DispatchInv => AtMostOneSend
  BY DEF DispatchInv
<1> QED
  BY <1>1, DispatchInvariant, PTL

\* Every delivered message carries its click marker and is unresolved, confirmed or
\* decided: the database never takes it for one that was not sent.
THEOREM DeliveriesAreAccountedFor ==
    ASSUME MaxReads = 0
    PROVE  Spec => []SentIsAccountedFor
<1>1. DispatchInv => SentIsAccountedFor
  BY DEF DispatchInv, TypeOK, Message, QueueInv, GoodRow, SentIsMarked,
         SentIsAccountedFor, Unresolved
<1> QED
  BY <1>1, DispatchInvariant, PTL
-----------------------------------------------------------------------------
\* Part 2: what a row says of its message.

\* The control states of a dispatcher whose result is in the row.
Past == {"finishing", "recover", "unlock", "done", "dead"}

Over(c) == c \in Claims /\ disp[c].stage \in Past

\* What is true of the row of publication p beside GoodRow.  A marked row that is
\* offered for sending again was judged not delivered and released for a retry; one
\* that was confirmed on screen and judged not delivered was finalized late, so that
\* its dispatcher writes no more; a published one was sent or judged delivered.
TellsTruth(p, row) ==
    /\ row.uncertain \/ row.confirmed \/ row.verdict # "NONE" => row.started
    /\ row.started /\ row.status = "SCHEDULED" => row.retry /\ row.verdict = "NOT_DELIVERED"
    /\ row.confirmed /\ row.verdict = "NOT_DELIVERED" => Over(row.claim)
    /\ row.status = "PUBLISHED" => row.verdict = "DELIVERED" \/ \E m \in sent : m.pub = p

\* What a dispatcher saw on screen was sent.
SeenIsSent(d) ==
    disp[d].stage \in {"seen", "publishedResult"} => \E m \in sent : m.by = d

StatusInv ==
    /\ DispatchInv
    /\ \A p \in Publications : TellsTruth(p, pub[p])
    /\ \A d \in Claims : SeenIsSent(d)
    /\ \A m \in sent : disp[m.by].pub = m.pub

\* How a step that delivers nothing changes the rows: at most one, to a row that tells
\* the truth; a marker stays, and a new one comes with doubt.
RowStep(p) ==
    \E new : /\ pub' = [pub EXCEPT ![p] = new]
             /\ TellsTruth(p, new)'
             /\ pub[p].started => new.started
             /\ new.started /\ ~pub[p].started => Unresolved(new)

\* How it moves the dispatchers.
StageMoves ==
    \A c \in Claims : /\ Over(c) => Over(c)'
                      /\ disp[c].stage # "idle" => disp'[c].pub = disp[c].pub
                      /\ SeenIsSent(c)'

TellingStep ==
    /\ pub' = pub \/ \E p \in Publications : RowStep(p)
    /\ StageMoves
    /\ sent' = sent

LEMMA TellingStepKeepsInv ==
    ASSUME StatusInv, DispatchInv', TellingStep
    PROVE  StatusInv'
<1>1. pub \in [Publications -> Rows]
  BY DEF StatusInv, DispatchInv, TypeOK, QueueTypeOK
<1>2. ASSUME NEW q \in Publications, pub'[q] = pub[q]
      PROVE  TellsTruth(q, pub[q])'
  <2>1. TellsTruth(q, pub[q])
    BY DEF StatusInv
  <2>2. Over(pub[q].claim) => Over(pub[q].claim)'
    BY <1>2 DEF TellingStep, StageMoves, Over
  <2> QED
    BY <1>2, <2>1, <2>2 DEF TellsTruth, TellingStep
<1>3. ASSUME NEW q \in Publications
      PROVE  TellsTruth(q, pub[q])'
  <2>1. CASE pub' = pub
    BY <1>2, <2>1
  <2>2. ASSUME NEW p \in Publications, RowStep(p)
        PROVE  TellsTruth(q, pub[q])'
    <3>1. PICK new : pub' = [pub EXCEPT ![p] = new] /\ TellsTruth(p, new)'
      BY <2>2 DEF RowStep
    <3>2. CASE q = p
      <4>1. pub'[q] = new
        BY <1>1, <3>1, <3>2
      <4> QED
        BY <3>1, <3>2, <4>1 DEF TellsTruth, Over
    <3>3. CASE q # p
      BY <1>1, <1>2, <3>1, <3>3
    <3> QED
      BY <3>2, <3>3
  <2> QED
    BY <2>1, <2>2 DEF TellingStep
<1>4. ASSUME NEW m \in sent'
      PROVE  disp'[m.by].pub = m.pub
  <2>1. m \in sent /\ m.by \in Claims
    BY DEF TellingStep, StatusInv, DispatchInv, TypeOK, Message
  <2>2. disp[m.by].stage # "idle" /\ disp[m.by].pub = m.pub
    BY <2>1 DEF StatusInv, DispatchInv, SentIsMarked, AfterClick
  <2> QED
    BY <2>1, <2>2 DEF TellingStep, StageMoves
<1> QED
  BY <1>3, <1>4 DEF StatusInv, TellingStep, StageMoves

LEMMA NoStageMoves ==
    ASSUME StatusInv, disp' = disp, sent' = sent
    PROVE  StageMoves
BY DEF StatusInv, StageMoves, Over, SeenIsSent

LEMMA GotoStageMoves ==
    ASSUME StatusInv, NEW d \in Claims, NEW stage \in Stages \ {"idle"}, Goto(d, stage),
           sent \subseteq sent',
           disp[d].stage \in Past => stage \in Past,
           stage \in {"seen", "publishedResult"} => \E m \in sent : m.by = d
    PROVE  StageMoves
<1>1. disp \in [Claims -> Dispatcher]
  BY DEF StatusInv, DispatchInv, TypeOK
<1>2. ASSUME NEW c \in Claims
      PROVE  /\ Over(c) => Over(c)'
             /\ disp'[c].pub = disp[c].pub
             /\ SeenIsSent(c)'
  <2>1. CASE c = d
    <3>1. disp'[c].stage = stage /\ disp'[c].pub = disp[c].pub
      BY <1>1, <2>1 DEF Goto, Dispatcher
    <3> QED
      BY <2>1, <3>1 DEF Over, SeenIsSent
  <2>2. CASE c # d
    <3>1. disp'[c] = disp[c]
      BY <1>1, <2>2 DEF Goto
    <3>2. SeenIsSent(c)
      BY DEF StatusInv
    <3> QED
      BY <3>1, <3>2 DEF Over, SeenIsSent
  <2> QED
    BY <2>1, <2>2
<1> QED
  BY <1>2 DEF StageMoves

\* What an operator's command does to the delivery fields of the row it finds: it keeps
\* them (and may cancel), plans the row, frees one without a marker, judges an
\* uncertain delivery, or releases an undelivered one for a retry.
SameDelivery(old, new) ==
    /\ new.started = old.started /\ new.uncertain = old.uncertain
    /\ new.confirmed = old.confirmed /\ new.verdict = old.verdict

KeptBy(old, new) ==
    SameDelivery(old, new) /\ new.retry = old.retry /\ new.status \in {old.status, "CANCELLED"}

FreedBy(old, new) == SameDelivery(old, new) /\ ~old.started /\ new.status = "SCHEDULED"

JudgedBy(old, new, verdict) ==
    /\ old.uncertain /\ new.started = old.started
    /\ new.verdict = verdict
    /\ new.confirmed = (verdict = "DELIVERED") /\ new.uncertain = (verdict = "KEPT_UNCERTAIN")
    /\ new.status = IF verdict = "DELIVERED" THEN "PUBLISHED" ELSE "PUBLICATION_FAILED"

RetriedBy(old, new) ==
    /\ SameDelivery(old, new) /\ old.verdict = "NOT_DELIVERED"
    /\ new.retry = TRUE /\ new.status = "SCHEDULED"

OperatorMove(name, old, new) ==
    \/ KeptBy(old, new) \/ new = PlannedRow \/ FreedBy(old, new) \/ RetriedBy(old, new)
    \/ \E verdict \in Verdicts \ {"NONE"} :
            JudgedBy(old, new, verdict) /\ (verdict = "KEPT_UNCERTAIN" => name = "keepUncertain")

MovesBy(name, p) == \E new : pub' = [pub EXCEPT ![p] = new] /\ OperatorMove(name, pub[p], new)

LEMMA MetadataMove ==
    ASSUME QueueTypeOK, NEW p \in Publications, NEW row \in Rows, NEW name,
           StoreMetadata(p, row), SameDelivery(pub[p], row), row.retry = pub[p].retry
    PROVE  MovesBy(name, p)
<1> DEFINE new == MetadataOver(pub[p], row)
<1>1. KeptBy(pub[p], new)
  BY DEF KeptBy, SameDelivery, MetadataOver, Rows
<1>2. pub' = [pub EXCEPT ![p] = new]
  BY DEF StoreMetadata, Store
<1> HIDE DEF new
<1> QED
  BY <1>1, <1>2 DEF MovesBy, OperatorMove

LEMMA ErrorKeptMove ==
    ASSUME QueueTypeOK, NEW p \in Publications, NEW row \in Rows, NEW name,
           StoreKeepingError(p, row), OperatorMove(name, pub[p], row), row # PlannedRow
    PROVE  MovesBy(name, p)
<1> DEFINE new == [row EXCEPT !.err = pub[p].err]
<1>1. /\ new.started = row.started /\ new.uncertain = row.uncertain
      /\ new.confirmed = row.confirmed /\ new.verdict = row.verdict
      /\ new.retry = row.retry /\ new.status = row.status
  BY DEF Rows
<1>2. pub' = [pub EXCEPT ![p] = new]
  BY DEF StoreKeepingError, Store
<1> HIDE DEF new
<1>3. OperatorMove(name, pub[p], new)
  BY <1>1 DEF OperatorMove, KeptBy, FreedBy, RetriedBy, JudgedBy, SameDelivery
<1> QED
  BY <1>2, <1>3 DEF MovesBy

\* The commands that write the metadata of the row they read.
LEMMA MetadataCommandMoves ==
    ASSUME QueueTypeOK, stale = {}, NEW p \in Publications, NEW name,
           \/ \E confirmed \in BOOLEAN : RecordVisualInspection(p, confirmed)
           \/ \E ready \in BOOLEAN : RecordPreflight(p, ready) \/ DryRun(p, ready)
           \/ AuthorizeSend(p) \/ RevokeAuthorization(p)
           \/ ArchivePublication(p) \/ RepairPlanning(p)
    PROVE  MovesBy(name, p)
<1> DEFINE Same(row) == /\ row \in Rows /\ SameDelivery(pub[p], row)
                        /\ row.retry = pub[p].retry
<1>1. pub[p] \in Rows /\ channel \in Channels
  BY DEF QueueTypeOK
<1>2. \A r \in Reads(p) : r.row = pub[p] /\ r.ch = channel
  BY ReadsFacts
<1>3. ASSUME NEW row, Same(row), StoreMetadata(p, row)
      PROVE  MovesBy(name, p)
  BY <1>3, MetadataMove
<1>4. ASSUME NEW state \in WebStates
      PROVE  Same(Invalidated(pub[p], state))
  BY <1>1, InvalidatedType DEF Invalidated, SameDelivery, Rows
<1>5. {"VISUAL_INSPECTION_CONFIRMED", "AWAITING_VISUAL_INSPECTION",
       "PREFLIGHT_READY", "PREFLIGHT_REQUIRED"} \subseteq WebStates
  BY DEF WebStates
<1>6. /\ Same(VisualConfirmed(pub[p], channel)) /\ Same(VisualRejected(pub[p]))
      /\ Same(PreflightPassed(pub[p], channel)) /\ Same(PreflightFailed(pub[p]))
  <2>1. ASSUME NEW row \in Rows, Same(row), NEW new \in Rows,
               \/ \E f : new = [row EXCEPT !.visual = f, !.blocked = TRUE]
               \/ \E f : new = [row EXCEPT !.pre = f, !.blocked = TRUE]
               \/ new = [row EXCEPT !.blocked = TRUE]
        PROVE  Same(new)
    BY <2>1 DEF SameDelivery, Rows
  <2> HIDE DEF Same
  <2>2. ASSUME NEW state \in WebStates
        PROVE  Same(Invalidated(pub[p], state)) /\ Invalidated(pub[p], state) \in Rows
    BY <1>1, <1>4, InvalidatedType
  <2> QED
    BY <1>1, <1>5, <2>1, <2>2, InspectionTypes
    DEF VisualConfirmed, VisualRejected, PreflightPassed, PreflightFailed
<1>7. \A id \in Nat : Same(Authorized(pub[p], channel, id))
  BY <1>1, AuthorizedType DEF Authorized, SameDelivery, Rows
<1>8. Same(Revoked(pub[p], channel)) /\ Same(Archived(pub[p])) /\ Same(pub[p])
  <2>1. Same(Revoked(pub[p], channel))
    BY <1>1, RevokedType DEF Revoked, SameDelivery, Rows
  <2>2. Same(Archived(pub[p]))
    BY <1>1, ArchivedType DEF Archived, SameDelivery, Rows
  <2>3. Same(pub[p])
    BY <1>1 DEF SameDelivery
  <2> QED
    BY <2>1, <2>2, <2>3
<1>9. Same(Repaired(pub[p]))
  BY <1>1, RepairedType DEF Repaired, SameDelivery, Rows
<1> HIDE DEF Same
<1>10. ASSUME NEW confirmed \in BOOLEAN, RecordVisualInspection(p, confirmed)
       PROVE  MovesBy(name, p)
  BY <1>2, <1>3, <1>6, <1>10 DEF RecordVisualInspection
<1>11. ASSUME NEW ready \in BOOLEAN, RecordPreflight(p, ready) \/ DryRun(p, ready)
       PROVE  MovesBy(name, p)
  BY <1>2, <1>3, <1>6, <1>8, <1>11 DEF RecordPreflight, DryRun
<1>12. ASSUME AuthorizeSend(p)
       PROVE  MovesBy(name, p)
  BY <1>2, <1>3, <1>7, <1>12, SmallTypes DEF AuthorizeSend
<1>13. ASSUME RevokeAuthorization(p) \/ ArchivePublication(p) \/ RepairPlanning(p)
       PROVE  MovesBy(name, p)
  BY <1>2, <1>3, <1>8, <1>9, <1>13 DEF RevokeAuthorization, ArchivePublication, RepairPlanning
<1> QED
  BY <1>10, <1>11, <1>12, <1>13

LEMMA CommandMoves ==
    ASSUME QueueTypeOK, stale = {}, NEW p \in Publications, NEW name, Command(name, p)
    PROVE  MovesBy(name, p)
<1>1. pub[p] \in Rows
  BY DEF QueueTypeOK
<1>2. \A r \in Reads(p) : r.row = pub[p]
  BY ReadsFacts
<1>3. ASSUME Plan(p)
      PROVE  MovesBy(name, p)
  BY <1>3 DEF Plan, Store, MovesBy, OperatorMove
<1>4. ASSUME ReleaseClaim(p)
      PROVE  MovesBy(name, p)
  <2>1. FreedBy(pub[p], Released(pub[p]))
    BY <1>1, <1>4 DEF ReleaseClaim, MayRelease, Released, FreedBy, SameDelivery, Rows
  <2> QED
    BY <1>4, <2>1 DEF ReleaseClaim, Store, MovesBy, OperatorMove
<1>5. ASSUME ExpireStaleOffer(p)
      PROVE  MovesBy(name, p)
  <2> DEFINE new == [pub[p] EXCEPT !.status = "CANCELLED", !.err = FALSE]
  <2>1. KeptBy(pub[p], new)
    BY <1>1 DEF KeptBy, SameDelivery, Rows
  <2> HIDE DEF new
  <2> QED
    BY <1>5, <2>1 DEF ExpireStaleOffer, Store, MovesBy, OperatorMove, new
<1>6. ASSUME CancelPublication(p)
      PROVE  MovesBy(name, p)
  <2>1. KeptBy(pub[p], Cancelled(pub[p])) /\ Cancelled(pub[p]).status = "CANCELLED"
    BY <1>1 DEF Cancelled, KeptBy, SameDelivery, Rows
  <2>2. Cancelled(pub[p]) \in Rows /\ Cancelled(pub[p]) # PlannedRow
    BY <1>1, <2>1, CancelledType DEF PlannedRow
  <2> QED
    BY <1>2, <1>6, <2>1, <2>2, ErrorKeptMove DEF CancelPublication, OperatorMove
<1>7. ASSUME AuthorizeRetry(p)
      PROVE  MovesBy(name, p)
  <2>1. MayRetry(pub[p]) /\ StoreKeepingError(p, RetryAuthorized(pub[p]))
    BY <1>2, <1>7 DEF AuthorizeRetry
  <2>2. RetriedBy(pub[p], RetryAuthorized(pub[p]))
    BY <1>1, <2>1 DEF MayRetry, RetryAuthorized, RetriedBy, SameDelivery, Rows
  <2>3. RetryAuthorized(pub[p]) \in Rows /\ RetryAuthorized(pub[p]) # PlannedRow
    BY <1>1, <2>2, RetryAuthorizedType DEF PlannedRow, RetriedBy
  <2> QED
    BY <2>1, <2>2, <2>3, ErrorKeptMove DEF OperatorMove
<1>8. ASSUME NEW verdict \in Verdicts \ {"NONE"}, ResolveDelivery(p, verdict),
             verdict = "KEPT_UNCERTAIN" => name = "keepUncertain"
      PROVE  MovesBy(name, p)
  <2>1. MayResolve(pub[p]) /\ StoreKeepingError(p, Resolved(pub[p], verdict))
    BY <1>2, <1>8 DEF ResolveDelivery
  <2>2. JudgedBy(pub[p], Resolved(pub[p], verdict), verdict)
    BY <1>1, <2>1 DEF MayResolve, Resolved, JudgedBy, Rows
  <2>3. Resolved(pub[p], verdict) \in Rows /\ Resolved(pub[p], verdict) # PlannedRow
    BY <1>1, <2>2, ResolvedType DEF PlannedRow, JudgedBy
  <2>4. OperatorMove(name, pub[p], Resolved(pub[p], verdict))
    BY <1>8, <2>2 DEF OperatorMove
  <2> QED
    BY <2>1, <2>3, <2>4, ErrorKeptMove
<1>9. ASSUME \/ \E confirmed \in BOOLEAN : RecordVisualInspection(p, confirmed)
             \/ \E ready \in BOOLEAN : RecordPreflight(p, ready) \/ DryRun(p, ready)
             \/ AuthorizeSend(p) \/ RevokeAuthorization(p)
             \/ ArchivePublication(p) \/ RepairPlanning(p)
      PROVE  MovesBy(name, p)
  BY <1>9, MetadataCommandMoves
<1> QED
  BY <1>3, <1>4, <1>5, <1>6, <1>7, <1>8, <1>9 DEF Command, Verdicts

\* One lemma per action again: it is a telling step.

LEMMA OperatorTells ==
    ASSUME MaxReads = 0, StatusInv, OperatorNext, UNCHANGED dispatchVars
    PROVE  TellingStep
<1>1. disp' = disp /\ sent' = sent
  BY DEF dispatchVars
<1>2. QueueTypeOK /\ stale = {} /\ pub \in [Publications -> Rows]
  BY DEF StatusInv, DispatchInv, QueueInv, QueueTypeOK
<1>3. \A p \in Publications : Keeps(pub[p], pub'[p])
  BY <1>2, OperatorFacts, QueueInvStep DEF StatusInv, DispatchInv
<1>4. ASSUME NEW p \in Publications, NEW name, MovesBy(name, p)
      PROVE  RowStep(p)
  <2>1. PICK new : pub' = [pub EXCEPT ![p] = new] /\ OperatorMove(name, pub[p], new)
    BY <1>4 DEF MovesBy
  <2>2. pub[p].started => new.claim = pub[p].claim
    BY <1>2, <1>3, <2>1 DEF Keeps
  <2>3. TellsTruth(p, pub[p])
    BY DEF StatusInv
  <2>4. TellsTruth(p, new)'
    <3>1. CASE KeptBy(pub[p], new)
      BY <1>1, <2>2, <2>3, <3>1 DEF KeptBy, SameDelivery, TellsTruth, Over
    <3>2. CASE new = PlannedRow
      BY <3>2 DEF PlannedRow, TellsTruth
    <3>3. CASE FreedBy(pub[p], new)
      BY <1>1, <2>2, <2>3, <3>3 DEF FreedBy, SameDelivery, TellsTruth, Over
    <3>4. CASE RetriedBy(pub[p], new)
      BY <1>1, <2>2, <2>3, <3>4 DEF RetriedBy, SameDelivery, TellsTruth, Over
    <3>5. ASSUME NEW verdict \in Verdicts \ {"NONE"}, JudgedBy(pub[p], new, verdict)
          PROVE  TellsTruth(p, new)'
      BY <2>3, <3>5 DEF JudgedBy, TellsTruth
    <3> QED
      BY <2>1, <3>1, <3>2, <3>3, <3>4, <3>5 DEF OperatorMove
  <2>5. new.started => pub[p].started
    <3>1. CASE new = PlannedRow
      BY <3>1 DEF PlannedRow
    <3>2. CASE new # PlannedRow
      <4>1. new.started = pub[p].started
        BY <2>1, <3>2 DEF OperatorMove, KeptBy, FreedBy, RetriedBy, JudgedBy, SameDelivery
      <4> QED
        BY <4>1
    <3> QED
      BY <3>1, <3>2
  <2>6. pub[p].started => new.started
    BY <1>2, <1>3, <2>1 DEF Keeps
  <2> QED
    BY <2>1, <2>4, <2>5, <2>6 DEF RowStep
<1>5. pub' = pub \/ \E p \in Publications : RowStep(p)
  BY <1>2, <1>4, CommandMoves
  DEF OperatorNext, EditChannel, BeginRead, ExpireAuthorization
<1> QED
  BY <1>1, <1>5, NoStageMoves DEF TellingStep

LEMMA LoadContextTells ==
    ASSUME StatusInv, NEW d \in Claims, NEW p \in Publications, LoadContext(d, p)
    PROVE  TellingStep
<1>1. disp \in [Claims -> Dispatcher]
  BY DEF StatusInv, DispatchInv, TypeOK
<1>2. pub' = pub /\ sent' = sent
  BY DEF LoadContext, queueVars
<1> DEFINE new == [stage |-> "loaded", pub |-> p, group |-> channel.group, flag |-> FALSE]
<1>3. disp[d].stage = "idle" /\ disp' = [disp EXCEPT ![d] = new] /\ new.stage = "loaded"
  BY DEF LoadContext
<1> HIDE DEF new
<1>4. ASSUME NEW c \in Claims
      PROVE  /\ Over(c) => Over(c)'
             /\ disp[c].stage # "idle" => disp'[c].pub = disp[c].pub
             /\ SeenIsSent(c)'
  <2>1. CASE c = d
    BY <1>1, <1>3, <2>1 DEF Over, Past, SeenIsSent
  <2>2. CASE c # d
    BY <1>1, <1>2, <1>3, <2>2 DEF Over, SeenIsSent, StatusInv
  <2> QED
    BY <2>1, <2>2
<1> QED
  BY <1>2, <1>4 DEF TellingStep, StageMoves

\* Steps of dispatcher d that write no row.
LEMMA QuietTells ==
    ASSUME StatusInv, NEW d \in Claims,
           \/ TakeChannelLock(d) \/ PrepareDraft(d) \/ ValidatePreSend(d)
           \/ ConfirmOutgoing(d) \/ FinishAttempt(d) \/ ReleaseLocks(d) \/ Crash(d)
    PROVE  TellingStep /\ pub' = pub
<1>1. pub' = pub /\ sent' = sent
  BY DEF TakeChannelLock, PrepareDraft, ValidatePreSend, ConfirmOutgoing, FinishAttempt,
         ReleaseLocks, Crash, queueVars
<1>2. CASE TakeChannelLock(d)
  <2>1. PICK stage \in {"locked", "unlock"} : Goto(d, stage)
    BY <1>2 DEF TakeChannelLock
  <2> QED
    BY <1>1, <1>2, <2>1, GotoStageMoves DEF TakeChannelLock, TellingStep, Stages, Past
<1>3. CASE PrepareDraft(d)
  <2>1. PICK stage \in {"drafted", "recover", "failedResult"} : Goto(d, stage)
    BY <1>3 DEF PrepareDraft
  <2> QED
    BY <1>1, <1>3, <2>1, GotoStageMoves DEF PrepareDraft, TellingStep, Stages, Past
<1>4. CASE ValidatePreSend(d)
  <2>1. PICK stage \in {"marking", "failedResult"} : Goto(d, stage)
    BY <1>4 DEF ValidatePreSend
  <2> QED
    BY <1>1, <1>4, <2>1, GotoStageMoves DEF ValidatePreSend, TellingStep, Stages, Past
<1>5. CASE ConfirmOutgoing(d)
  <2>1. PICK stage \in {"seen", "uncertainResult"} :
            Goto(d, stage) /\ (stage = "seen" => \E m \in sent : m.by = d)
    BY <1>5 DEF ConfirmOutgoing
  <2> QED
    BY <1>1, <1>5, <2>1, GotoStageMoves DEF ConfirmOutgoing, TellingStep, Stages, Past
<1>6. CASE FinishAttempt(d)
  <2>1. PICK stage \in {"unlock", "recover"} : Goto(d, stage)
    BY <1>6 DEF FinishAttempt
  <2> QED
    BY <1>1, <1>6, <2>1, GotoStageMoves DEF TellingStep, Stages, Past
<1>7. CASE ReleaseLocks(d)
  BY <1>1, <1>7, GotoStageMoves DEF ReleaseLocks, TellingStep, Stages, Past
<1>8. CASE Crash(d)
  BY <1>1, <1>8, GotoStageMoves DEF Crash, TellingStep, Stages, Past
<1> QED
  BY <1>1, <1>2, <1>3, <1>4, <1>5, <1>6, <1>7, <1>8

LEMMA ClaimTells ==
    ASSUME StatusInv, NEW d \in Claims, ClaimSend(d)
    PROVE  /\ TellingStep
           /\ \A q \in Publications : Unresolved(pub'[q]) => Unresolved(pub[q])
<1> PICK p \in Publications : p = disp[d].pub
  BY AssignedPub DEF ClaimSend, StatusInv
<1>1. pub \in [Publications -> Rows]
  BY DEF StatusInv, DispatchInv, TypeOK, QueueTypeOK
<1>2. PICK stage \in {"claimed", "unlock"} : Goto(d, stage)
  BY DEF ClaimSend, Transaction
<1>3. sent' = sent /\ StageMoves
  BY <1>2, GotoStageMoves DEF ClaimSend, Stages, Past
<1>4. CASE pub' = pub
  BY <1>3, <1>4 DEF TellingStep
<1>5. CASE Claim(p, d)
  <2> PICK new : new = ClaimedBy(pub[p], d)
    OBVIOUS
  <2>1. pub' = [pub EXCEPT ![p] = new] /\ pub[p].auth = "ACTIVE"
    BY <1>5 DEF Claim, ClaimAllowed, MayClaim, Store
  <2>2. ~pub[p].started
    BY <1>1, <2>1 DEF StatusInv, DispatchInv, QueueInv, GoodRow
  <2>3. SameDelivery(pub[p], new) /\ new.status = pub[p].status
    BY <1>1 DEF ClaimedBy, SameDelivery, Rows
  <2>4. TellsTruth(p, pub[p])
    BY <1>1 DEF StatusInv
  <2>5. TellsTruth(p, new)'
    BY <1>3, <2>2, <2>3, <2>4 DEF TellsTruth, SameDelivery
  <2>6. RowStep(p)
    BY <2>1, <2>2, <2>3, <2>5 DEF RowStep, SameDelivery
  <2>7. \A q \in Publications : Unresolved(pub'[q]) => Unresolved(pub[q])
    BY <1>1, <2>1, <2>3 DEF SameDelivery, Unresolved, Decided
  <2> QED
    BY <1>1, <1>3, <2>6, <2>7 DEF TellingStep
<1> QED
  BY <1>4, <1>5 DEF ClaimSend, Transaction, queueVars

\* What a step of a working dispatcher may write: nothing, or its own row.
OwnStep(d) ==
    /\ TellingStep
    /\ pub' = pub \/ \E p \in Publications : p = disp[d].pub /\ RowStep(p)

\* A record by d, which has not finalized: with the marker, or without any doubt.
LEMMA RecordTells ==
    ASSUME StatusInv, NEW d \in Claims, NEW stage \in Stages \ ({"idle"} \cup Past),
           NEW marker \in BOOLEAN, NEW clicked \in BOOLEAN, NEW unsure \in BOOLEAN,
           unsure => marker,
           disp[d].stage \notin {"idle"} \cup Past,
           RecordSendState(disp[d].pub, d, marker, clicked, unsure),
           StageMoves, sent' = sent
    PROVE  OwnStep(d)
<1> PICK p \in Publications : p = disp[d].pub
  BY AssignedPub DEF StatusInv
<1> PICK new : new = Recorded(pub[p], marker, clicked, unsure)
  OBVIOUS
<1>1. pub[p] \in Rows /\ TellsTruth(p, pub[p])
  BY DEF StatusInv, DispatchInv, TypeOK, QueueTypeOK
<1>2. pub' = [pub EXCEPT ![p] = new] /\ pub[p].claim = d
  BY DEF RecordSendState, Store, MayRecord
<1>3. ~(pub[p].confirmed /\ pub[p].verdict = "NOT_DELIVERED")
  BY <1>1, <1>2 DEF TellsTruth, Over
<1>4. /\ new.started = (marker \/ pub[p].started)
      /\ new.uncertain = (unsure \/ (new.started /\ ~pub[p].confirmed))
      /\ new.confirmed = pub[p].confirmed /\ new.verdict = pub[p].verdict
      /\ new.uncertain => new.status = "PUBLICATION_FAILED"
      /\ ~new.uncertain => new.status = pub[p].status
  BY <1>1 DEF Recorded, Rows
<1>5. TellsTruth(p, new)'
  BY <1>1, <1>3, <1>4 DEF TellsTruth
<1>6. /\ pub[p].started => new.started
      /\ new.started /\ ~pub[p].started => Unresolved(new)
  BY <1>1, <1>4 DEF TellsTruth, Unresolved, Decided
<1> QED
  BY <1>2, <1>5, <1>6 DEF OwnStep, TellingStep, RowStep

\* A finalization by d: as published only when its message was sent, and then d is over.
LEMMA FinalizeTells ==
    ASSUME StatusInv, NEW d \in Claims, NEW outcome \in Outcomes,
           disp[d].stage # "idle",
           outcome = "PUBLISHED" => Over(d)' /\ \E m \in sent : m.by = d,
           FinalizeDispatch(disp[d].pub, d, outcome),
           StageMoves, sent' = sent
    PROVE  OwnStep(d)
<1> PICK p \in Publications : p = disp[d].pub
  BY AssignedPub DEF StatusInv
<1> PICK new : new = Finalized(pub[p], outcome)
  OBVIOUS
<1>1. pub[p] \in Rows /\ TellsTruth(p, pub[p])
  BY DEF StatusInv, DispatchInv, TypeOK, QueueTypeOK
<1>2. pub' = [pub EXCEPT ![p] = new] /\ MayFinalize(pub[p], d, outcome)
  BY DEF FinalizeDispatch, Store
<1>3. TellsTruth(p, new)' /\ new.started = pub[p].started
  <2>1. CASE outcome = "PUBLISHED"
    <3>1. \E m \in sent : m.pub = p
      BY <2>1 DEF StatusInv
    <3>2. /\ new.started = pub[p].started /\ new.claim = d
          /\ new.status = "PUBLISHED"
      BY <1>1, <1>2, <2>1 DEF Finalized, Delivered, MayFinalize, Rows
    <3>3. pub[p].started
      BY <1>2, <2>1 DEF MayFinalize
    <3> QED
      BY <2>1, <3>1, <3>2, <3>3 DEF TellsTruth
  <2>2. CASE outcome = "DELIVERY_UNCERTAIN"
    <3>1. /\ new.started = pub[p].started /\ new.confirmed = FALSE
          /\ new.status = "PUBLICATION_FAILED"
      BY <1>1, <2>2 DEF Finalized, LeftUncertain, Rows
    <3>2. pub[p].started
      BY <1>2, <2>2 DEF MayFinalize
    <3> QED
      BY <3>1, <3>2 DEF TellsTruth
  <2>3. CASE outcome = "FAILED_BEFORE_CLICK"
    <3>1. /\ new.started = pub[p].started /\ new.confirmed = FALSE
          /\ new.uncertain = FALSE /\ new.verdict = pub[p].verdict
          /\ new.status = "SCHEDULED"
      BY <1>1, <2>3 DEF Finalized, FailedSafe, Rows
    <3>2. ~pub[p].started
      BY <1>2, <2>3 DEF MayFinalize
    <3> QED
      BY <1>1, <3>1, <3>2 DEF TellsTruth
  <2> QED
    BY <2>1, <2>2, <2>3 DEF Outcomes
<1> QED
  BY <1>2, <1>3 DEF OwnStep, TellingStep, RowStep

LEMMA DatabaseTells ==
    ASSUME StatusInv, NEW d \in Claims,
           \/ RecordPreSend(d) \/ RecordClickStarted(d)
           \/ RecordClickCompleted(d) \/ RecordConfirmed(d)
           \/ FinalizeResult(d) \/ Recover(d)
    PROVE  OwnStep(d)
<1>1. ASSUME pub' = pub, sent' = sent, StageMoves
      PROVE  OwnStep(d)
  BY <1>1 DEF OwnStep, TellingStep
<1>2. CASE RecordPreSend(d)
  <2>1. PICK stage \in {"ready", "failedResult"} : Goto(d, stage)
    BY <1>2 DEF RecordPreSend, Transaction
  <2>2. sent' = sent /\ StageMoves
    BY <1>2, <2>1, GotoStageMoves DEF RecordPreSend, Stages, Past
  <2>3. RecordSendState(disp[d].pub, d, FALSE, FALSE, FALSE) \/ UNCHANGED queueVars
    BY <1>2 DEF RecordPreSend, Transaction
  <2> QED
    BY <1>1, <1>2, <2>1, <2>2, <2>3, RecordTells
    DEF RecordPreSend, Stages, Past, queueVars
<1>3. CASE RecordClickStarted(d)
  <2>1. StageMoves
    <3>1. CASE Goto(d, "uncertainResult")
      BY <1>3, <3>1, GotoStageMoves DEF RecordClickStarted, Stages, Past
    <3>2. CASE disp' = [disp EXCEPT ![d].stage = "click", ![d].flag = TRUE]
      <4>1. disp \in [Claims -> Dispatcher] /\ disp[d].stage = "marking" /\ sent' = sent
        BY <1>3 DEF RecordClickStarted, StatusInv, DispatchInv, TypeOK
      <4>2. /\ disp'[d].stage = "click" /\ disp'[d].pub = disp[d].pub
            /\ \A c \in Claims \ {d} : disp'[c] = disp[c]
        BY <3>2, <4>1 DEF Dispatcher
      <4>3. \A c \in Claims : SeenIsSent(c)
        BY DEF StatusInv
      <4> QED
        BY <4>1, <4>2, <4>3 DEF StageMoves, Over, Past, SeenIsSent
    <3> QED
      BY <1>3, <3>1, <3>2 DEF RecordClickStarted, Transaction
  <2>2. RecordSendState(disp[d].pub, d, TRUE, FALSE, TRUE) \/ UNCHANGED queueVars
    BY <1>3 DEF RecordClickStarted, Transaction
  <2> QED
    BY <1>1, <1>3, <2>1, <2>2, RecordTells
    DEF RecordClickStarted, Past, Stages, queueVars
<1>4. CASE RecordClickCompleted(d)
  <2>1. PICK stage \in {"waiting", "uncertainResult"} : Goto(d, stage)
    BY <1>4 DEF RecordClickCompleted, Transaction
  <2>2. sent' = sent /\ StageMoves
    BY <1>4, <2>1, GotoStageMoves DEF RecordClickCompleted, Stages, Past
  <2>3. RecordSendState(disp[d].pub, d, TRUE, TRUE, TRUE) \/ UNCHANGED queueVars
    BY <1>4 DEF RecordClickCompleted, Transaction
  <2> QED
    BY <1>1, <1>4, <2>1, <2>2, <2>3, RecordTells
    DEF RecordClickCompleted, Stages, Past, queueVars
<1>5. CASE RecordConfirmed(d)
  <2>1. PICK stage \in {"publishedResult", "uncertainResult"} : Goto(d, stage)
    BY <1>5 DEF RecordConfirmed, Transaction
  <2>2. \E m \in sent : m.by = d
    BY <1>5 DEF RecordConfirmed, StatusInv, SeenIsSent
  <2>3. sent' = sent /\ StageMoves
    BY <1>5, <2>1, <2>2, GotoStageMoves DEF RecordConfirmed, Stages, Past
  <2>4. RecordSendState(disp[d].pub, d, TRUE, TRUE, FALSE) \/ UNCHANGED queueVars
    BY <1>5 DEF RecordConfirmed, Transaction
  <2> QED
    BY <1>1, <1>5, <2>1, <2>3, <2>4, RecordTells
    DEF RecordConfirmed, Stages, Past, queueVars
<1>6. CASE FinalizeResult(d)
  <2>1. PICK stage \in {"finishing", "recover"} : Goto(d, stage)
    BY <1>6 DEF FinalizeResult, FinalizeAs, Transaction
  <2>2. sent' = sent /\ StageMoves
    BY <1>6, <2>1, GotoStageMoves DEF FinalizeResult, Stages, Past
  <2>3. OutcomeOf(disp[d].stage) \in Outcomes
    BY <1>6 DEF FinalizeResult, OutcomeOf, Outcomes
  <2>4. OutcomeOf(disp[d].stage) = "PUBLISHED"
            => Over(d)' /\ \E m \in sent : m.by = d
    <3>1. disp'[d].stage = stage
      BY <2>1 DEF Goto, StatusInv, DispatchInv, TypeOK, Dispatcher
    <3>2. Over(d)'
      BY <2>1, <3>1 DEF Over, Past
    <3>3. OutcomeOf(disp[d].stage) = "PUBLISHED" => disp[d].stage = "publishedResult"
      BY <1>6 DEF FinalizeResult, OutcomeOf
    <3> QED
      BY <3>2, <3>3 DEF StatusInv, SeenIsSent
  <2>5. FinalizeDispatch(disp[d].pub, d, OutcomeOf(disp[d].stage)) \/ UNCHANGED queueVars
    BY <1>6 DEF FinalizeResult, FinalizeAs, Transaction
  <2> PICK outcome \in Outcomes : outcome = OutcomeOf(disp[d].stage)
    BY <2>3
  <2> QED
    BY <1>1, <1>6, <2>2, <2>4, <2>5, FinalizeTells DEF FinalizeResult, queueVars
<1>7. CASE Recover(d)
  <2>1. Goto(d, "unlock")
    BY <1>7 DEF Recover, FinalizeAs, Transaction
  <2>2. sent' = sent /\ StageMoves
    BY <1>7, <2>1, GotoStageMoves DEF Recover, Stages, Past
  <2>3. PICK outcome \in {"DELIVERY_UNCERTAIN", "FAILED_BEFORE_CLICK"} :
            FinalizeDispatch(disp[d].pub, d, outcome) \/ UNCHANGED queueVars
    BY <1>7 DEF Recover, FinalizeAs, Transaction
  <2> QED
    BY <1>1, <1>7, <2>2, <2>3, FinalizeTells DEF Recover, Outcomes, queueVars
<1> QED
  BY <1>2, <1>3, <1>4, <1>5, <1>6, <1>7

\* The click writes no row; it may deliver the dispatcher's message.
LEMMA ClickTells ==
    ASSUME StatusInv, NEW d \in Claims, ClickSend(d)
    PROVE  /\ pub' = pub /\ StageMoves
           /\ disp[d].pub \in Publications /\ disp'[d].pub = disp[d].pub
           /\ pub[disp[d].pub].started
           /\ \A m \in sent : m.pub # disp[d].pub
           /\ \/ sent' = sent
              \/ sent' = sent \cup {[by |-> d, pub |-> disp[d].pub, group |-> disp[d].group]}
<1>1. PICK stage \in {"clicked", "uncertainResult"} : Goto(d, stage)
  BY DEF ClickSend
<1>2. pub' = pub /\ sent \subseteq sent' /\ disp[d].stage = "click"
  BY DEF ClickSend, queueVars
<1>3. StageMoves
  BY <1>1, <1>2, GotoStageMoves DEF Stages, Past
<1>4. disp[d].pub \in Publications /\ pub[disp[d].pub].started /\ pub[disp[d].pub].claim = d
  BY <1>2, AssignedPub DEF StatusInv, DispatchInv, ClickIsMarked
<1>5. \A m \in sent : m.pub # disp[d].pub
  BY <1>2, <1>4 DEF StatusInv, DispatchInv, SentIsMarked, AfterClick
<1>6. disp'[d].pub = disp[d].pub
  BY <1>2, <1>3 DEF StageMoves
<1> QED
  BY <1>2, <1>3, <1>4, <1>5, <1>6 DEF ClickSend

LEMMA ClickKeepsStatusInv ==
    ASSUME StatusInv, DispatchInv', NEW d \in Claims, ClickSend(d)
    PROVE  StatusInv'
<1> DEFINE new == [by |-> d, pub |-> disp[d].pub, group |-> disp[d].group]
<1>1. /\ pub' = pub /\ StageMoves /\ sent \subseteq sent'
      /\ disp'[d].pub = disp[d].pub
      /\ sent' = sent \/ sent' = sent \cup {new}
  BY ClickTells
<1>2. ASSUME NEW p \in Publications
      PROVE  TellsTruth(p, pub[p])'
  BY <1>1 DEF StatusInv, TellsTruth, StageMoves, Over
<1>3. ASSUME NEW m \in sent'
      PROVE  disp'[m.by].pub = m.pub
  <2>1. CASE m = new
    BY <1>1, <2>1
  <2>2. CASE m \in sent
    <3>1. m.by \in Claims /\ disp[m.by].stage # "idle" /\ disp[m.by].pub = m.pub
      BY <2>2 DEF StatusInv, DispatchInv, TypeOK, Message, SentIsMarked, AfterClick
    <3> QED
      BY <1>1, <3>1 DEF StageMoves
  <2> QED
    BY <1>1, <2>1, <2>2
<1>4. \A c \in Claims : SeenIsSent(c)'
  BY <1>1 DEF StageMoves
<1> QED
  BY <1>2, <1>3, <1>4 DEF StatusInv

LEMMA LapseTells ==
    ASSUME StatusInv, LapseLock
    PROVE  TellingStep /\ pub' = pub
BY NoStageMoves DEF LapseLock, TellingStep, queueVars

LEMMA StutterTells ==
    ASSUME StatusInv, UNCHANGED vars
    PROVE  TellingStep /\ pub' = pub
BY NoStageMoves DEF vars, dispatchVars, queueVars, TellingStep

\* Every step but a click is a telling step.
LEMMA NextTells ==
    ASSUME MaxReads = 0, StatusInv, [Next]_vars
    PROVE  TellingStep \/ \E d \in Claims : ClickSend(d)
<1>1. CASE OperatorNext /\ UNCHANGED dispatchVars
  BY <1>1, OperatorTells
<1>2. ASSUME NEW d \in Claims, NEW p \in Publications, LoadContext(d, p)
      PROVE  TellingStep
  BY <1>2, LoadContextTells
<1>3. ASSUME NEW d \in Claims, DispatchStep(d), ~ClickSend(d)
      PROVE  TellingStep
  BY <1>3, QuietTells, ClaimTells, DatabaseTells DEF DispatchStep, OwnStep
<1>4. ASSUME NEW d \in Claims, Crash(d)
      PROVE  TellingStep
  BY <1>4, QuietTells
<1> QED
  BY <1>1, <1>2, <1>3, <1>4, LapseTells, StutterTells DEF Next, DispatchNext

LEMMA StatusInvariant ==
    ASSUME MaxReads = 0
    PROVE  Spec => []StatusInv
<1>1. Init => StatusInv
  <2> SUFFICES ASSUME Init
               PROVE  StatusInv
    OBVIOUS
  <2>1. \A p \in Publications : TellsTruth(p, pub[p])
    BY DEF Init, QueueInit, AbsentRow, PlannedRow, TellsTruth
  <2>2. \A d \in Claims : SeenIsSent(d)
    BY DEF Init, Idle, SeenIsSent
  <2> QED
    BY <2>1, <2>2, InitInv DEF Init, StatusInv
<1>2. StatusInv /\ [Next]_vars => StatusInv'
  <2> SUFFICES ASSUME StatusInv, [Next]_vars
               PROVE  StatusInv'
    OBVIOUS
  <2>1. DispatchInv'
    BY NextKeepsInv DEF StatusInv
  <2> QED
    BY <2>1, NextTells, TellingStepKeepsInv, ClickKeepsStatusInv
<1> QED
  BY <1>1, <1>2, PTL DEF Spec

\* A row's status does not lie about its message: no sent message is offered for
\* sending again without the operator's retry authorization, and no publication is
\* called published that was neither sent nor judged delivered.
THEOREM StatusIsHonest ==
    ASSUME MaxReads = 0
    PROVE  Spec => []StatusTellsWhatWasSent
<1>1. StatusInv => StatusTellsWhatWasSent
  <2> SUFFICES ASSUME StatusInv
               PROVE  StatusTellsWhatWasSent
    OBVIOUS
  <2>1. \A m \in sent : m.pub \in Publications /\ pub[m.pub].started
    BY DEF StatusInv, DispatchInv, TypeOK, Message, SentIsMarked
  <2> QED
    BY <2>1 DEF StatusInv, TellsTruth, StatusTellsWhatWasSent
<1> QED
  BY <1>1, StatusInvariant, PTL

-----------------------------------------------------------------------------
\* Part 3: queue and dispatchers implement SendOnce.

LEMMA InitOnce ==
    ASSUME Init
    PROVE  Once!Init
<1>1. \A p \in Publications : {m \in sent : m.pub = p} = {}
  BY DEF Init
<1>2. \A p \in Publications : Deliveries(p) = 0
  BY <1>1, FS_EmptySet DEF Deliveries
<1>3. \A p \in Publications : AnswerOf(p) = "none"
  BY DEF Init, QueueInit, AbsentRow, PlannedRow, AnswerOf
<1> QED
  BY <1>2, <1>3 DEF Once!Init

\* A telling step announces the row it newly marks, which has no message yet, answers
\* for one that was marked, or leaves both the count and the answer.
LEMMA TellingStepOnce ==
    ASSUME StatusInv, StatusInv', TellingStep
    PROVE  [Once!Next]_Once!vars
<1> DEFINE deliveries == [p \in Publications |-> Deliveries(p)]
           answer == [p \in Publications |-> AnswerOf(p)]
<1>1. pub \in [Publications -> Rows] /\ sent' = sent
  BY DEF StatusInv, DispatchInv, TypeOK, QueueTypeOK, TellingStep
<1>2. deliveries' = deliveries
  BY <1>1 DEF Deliveries
<1>3. CASE pub' = pub
  <2>1. answer' = answer
    BY <1>3 DEF AnswerOf
  <2> QED
    BY <1>2, <2>1 DEF Once!vars
<1>4. ASSUME NEW p \in Publications, RowStep(p)
      PROVE  [Once!Next]_Once!vars
  <2>1. PICK new : /\ pub' = [pub EXCEPT ![p] = new]
                   /\ pub[p].started => new.started
                   /\ new.started /\ ~pub[p].started => Unresolved(new)
    BY <1>4 DEF RowStep
  <2>2. pub'[p] = new /\ \A q \in Publications \ {p} : pub'[q] = pub[q]
    BY <1>1, <2>1
  <2>3. ~pub[p].started => {m \in sent : m.pub = p} = {}
    BY DEF StatusInv, DispatchInv, SentIsMarked
  <2>4. ~pub[p].started => Deliveries(p) = 0
    BY <2>3, FS_EmptySet DEF Deliveries
  <2>5. \A q \in Publications \ {p} : AnswerOf(q)' = AnswerOf(q)
    BY <2>2 DEF AnswerOf
  <2>6. /\ answer' = [answer EXCEPT ![p] = AnswerOf(p)']
        /\ deliveries[p] = Deliveries(p) /\ answer[p] = AnswerOf(p)
    BY <2>5
  <2> HIDE DEF deliveries, answer
  <2>7. CASE ~new.started
    <3>1. AnswerOf(p)' = AnswerOf(p)
      BY <2>1, <2>2, <2>7 DEF AnswerOf
    <3>2. answer' = answer
      BY <2>5, <3>1 DEF answer
    <3> QED
      BY <1>2, <3>2 DEF Once!vars, deliveries, answer
  <2>8. CASE new.started /\ ~pub[p].started
    <3>1. AnswerOf(p) = "none" /\ AnswerOf(p)' = "unknown"
      BY <2>1, <2>2, <2>8 DEF AnswerOf
    <3>2. Once!Announce(p)
      BY <1>2, <2>4, <2>6, <2>8, <3>1 DEF Once!Announce, deliveries, answer
    <3> QED
      BY <3>2 DEF Once!Next
  <2>9. CASE new.started /\ pub[p].started
    <3>1. AnswerOf(p) # "none" /\ AnswerOf(p)' \in {"unknown", "decided"}
      BY <2>2, <2>9 DEF AnswerOf
    <3>2. PICK a \in {"unknown", "decided"} : a = AnswerOf(p)'
      BY <3>1
    <3>3. Once!Answer(p, a)
      BY <1>2, <2>6, <3>1, <3>2 DEF Once!Answer, deliveries, answer
    <3> QED
      BY <3>3 DEF Once!Next
  <2> QED
    BY <2>7, <2>8, <2>9
<1> QED
  BY <1>3, <1>4 DEF TellingStep

\* A click delivers the first message of an announced publication, or nothing.
LEMMA ClickOnce ==
    ASSUME StatusInv, NEW d \in Claims, ClickSend(d)
    PROVE  [Once!Next]_Once!vars
<1> DEFINE deliveries == [p \in Publications |-> Deliveries(p)]
           answer == [p \in Publications |-> AnswerOf(p)]
<1> PICK p \in Publications : p = disp[d].pub
  BY ClickTells
<1> PICK new : new = [by |-> d, pub |-> p, group |-> disp[d].group]
  OBVIOUS
<1>1. /\ pub' = pub /\ pub[p].started /\ \A m \in sent : m.pub # p
      /\ sent' = sent \/ sent' = sent \cup {new}
  BY ClickTells
<1>2. answer' = answer
  BY <1>1 DEF AnswerOf
<1>3. CASE sent' = sent
  <2>1. deliveries' = deliveries
    BY <1>1, <1>3 DEF Deliveries
  <2> QED
    BY <1>2, <2>1 DEF Once!vars
<1>4. CASE sent' = sent \cup {new}
  <2>1. {m \in sent : m.pub = p} = {} /\ {m \in sent' : m.pub = p} = {new}
    BY <1>1, <1>4
  <2>2. Deliveries(p) = 0 /\ Deliveries(p)' = 1
    BY <2>1, FS_EmptySet, FS_Singleton DEF Deliveries
  <2>3. \A q \in Publications \ {p} : {m \in sent' : m.pub = q} = {m \in sent : m.pub = q}
    BY <1>4
  <2>4. \A q \in Publications \ {p} : Deliveries(q)' = Deliveries(q)
    BY <2>3 DEF Deliveries
  <2>5. deliveries[p] = 0 /\ deliveries' = [deliveries EXCEPT ![p] = 1]
    BY <2>2, <2>4
  <2>6. answer[p] # "none"
    BY <1>1 DEF AnswerOf
  <2>7. Once!Deliver(p)
    BY <1>2, <2>5, <2>6 DEF Once!Deliver
  <2> QED
    BY <2>7 DEF Once!Next
<1> QED
  BY <1>1, <1>3, <1>4

\* The queue with its dispatchers implements SendOnce: every message is announced
\* before it goes out, goes out at most once, and has an answer from then on.
THEOREM QueueImplementsSendOnce ==
    ASSUME MaxReads = 0
    PROVE  Spec => SendsOnce
<1>1. Init => Once!Init
  BY InitOnce
<1>2. StatusInv /\ StatusInv' /\ [Next]_vars => [Once!Next]_Once!vars
  BY NextTells, TellingStepOnce, ClickOnce
<1> QED
  BY <1>1, <1>2, StatusInvariant, PTL DEF Spec, SendsOnce, Once!Spec

-----------------------------------------------------------------------------
\* Part 4: one unresolved delivery at a time, as long as no dispatcher loses its lock
\* while it runs and the operator leaves no delivery in doubt.

Working ==
    {"claimed", "drafted", "ready", "marking", "click", "clicked", "waiting", "seen",
     "failedResult", "uncertainResult", "publishedResult", "finishing", "recover"}

Holds(d) == disp[d].stage \in Working \cup {"locked"} => holder = d

\* While a dispatcher works, no publication but its own is unresolved.
OwnDoubt(d) ==
    disp[d].stage \in Working =>
        \A q \in Publications : Unresolved(pub[q]) => q = disp[d].pub

OneDoubt == \A p, q \in Publications : Unresolved(pub[p]) /\ Unresolved(pub[q]) => p = q

LockInv ==
    /\ StatusInv
    /\ \A d \in Claims : Holds(d) /\ OwnDoubt(d)
    /\ OneDoubt

\* The lock leaves its holder only when it is released or its holder is dead.
LockIsKept ==
    holder # Null /\ holder' # holder => disp[holder].stage \in {"unlock", "dead"}

NoNewDoubt == \A q \in Publications : Unresolved(pub'[q]) => Unresolved(pub[q])

\* A step that raises no doubt, and after which every working dispatcher holds the lock
\* and was working before on the same publication.
LEMMA CalmStepKeepsLockInv ==
    ASSUME LockInv, StatusInv', NoNewDoubt,
           \A d \in Claims :
               /\ Holds(d)'
               /\ disp'[d].stage \in Working =>
                      disp[d].stage \in Working /\ disp'[d].pub = disp[d].pub
    PROVE  LockInv'
BY DEF LockInv, NoNewDoubt, Holds, OwnDoubt, OneDoubt

LEMMA OperatorLock ==
    ASSUME MaxReads = 0, "keepUncertain" \notin Commands,
           LockInv, StatusInv', OperatorNext, UNCHANGED dispatchVars
    PROVE  LockInv'
<1>1. QueueTypeOK /\ stale = {} /\ pub \in [Publications -> Rows]
  BY DEF LockInv, StatusInv, DispatchInv, QueueInv, QueueTypeOK
<1>2. ASSUME NEW p \in Publications, NEW name \in Commands, MovesBy(name, p)
      PROVE  NoNewDoubt
  <2>1. PICK new : pub' = [pub EXCEPT ![p] = new] /\ OperatorMove(name, pub[p], new)
    BY <1>2 DEF MovesBy
  <2>2. Unresolved(new) => Unresolved(pub[p])
    <3>1. CASE SameDelivery(pub[p], new)
      BY <3>1 DEF SameDelivery, Unresolved, Decided
    <3>2. CASE new = PlannedRow
      BY <3>2 DEF PlannedRow, Unresolved
    <3>3. ASSUME NEW verdict \in Verdicts \ {"NONE", "KEPT_UNCERTAIN"},
                 JudgedBy(pub[p], new, verdict)
          PROVE  ~Unresolved(new)
      BY <3>3 DEF JudgedBy, Verdicts, Unresolved, Decided
    <3> QED
      BY <1>2, <2>1, <3>1, <3>2, <3>3 DEF OperatorMove, KeptBy, FreedBy, RetriedBy
  <2> QED
    BY <1>1, <2>1, <2>2 DEF NoNewDoubt
<1>3. NoNewDoubt
  BY <1>1, <1>2, CommandMoves
  DEF OperatorNext, EditChannel, BeginRead, ExpireAuthorization, NoNewDoubt
<1> QED
  BY <1>3, CalmStepKeepsLockInv DEF dispatchVars, LockInv, Holds

\* A dispatcher that moves by Goto, outside Working, and raises no doubt.
LEMMA GotoLock ==
    ASSUME LockInv, StatusInv', NoNewDoubt, NEW d \in Claims, NEW stage \in Stages,
           Goto(d, stage),
           stage \in Working => disp[d].stage \in Working,
           stage = "locked" => holder' = d,
           \A e \in Claims \ {d} : holder = e => holder' = e \/ disp[e].stage \in {"unlock", "dead"},
           stage \in Working \cup {"locked"} => holder' = d
    PROVE  LockInv'
<1>1. disp \in [Claims -> Dispatcher]
  BY DEF LockInv, StatusInv, DispatchInv, TypeOK
<1>2. disp'[d].stage = stage /\ disp'[d].pub = disp[d].pub
  BY <1>1 DEF Goto, Dispatcher
<1>3. \A e \in Claims \ {d} : disp'[e] = disp[e]
  BY <1>1 DEF Goto
<1>4. ASSUME NEW e \in Claims
      PROVE  /\ Holds(e)'
             /\ disp'[e].stage \in Working =>
                    disp[e].stage \in Working /\ disp'[e].pub = disp[e].pub
  <2>1. CASE e = d
    BY <1>2, <2>1 DEF Holds
  <2>2. CASE e # d
    BY <1>3, <2>2 DEF LockInv, Holds, Working
  <2> QED
    BY <2>1, <2>2
<1> QED
  BY <1>4, CalmStepKeepsLockInv

\* The steps of a dispatcher that write no row.
LEMMA QuietLock ==
    ASSUME LockInv, StatusInv', NEW d \in Claims,
           \/ TakeChannelLock(d) \/ PrepareDraft(d) \/ ValidatePreSend(d)
           \/ ConfirmOutgoing(d) \/ FinishAttempt(d) \/ ReleaseLocks(d) \/ Crash(d)
           \/ ClickSend(d)
    PROVE  LockInv'
<1>1. NoNewDoubt
  BY DEF TakeChannelLock, PrepareDraft, ValidatePreSend, ConfirmOutgoing, FinishAttempt,
         ReleaseLocks, Crash, ClickSend, queueVars, NoNewDoubt
<1>2. Holds(d) /\ Null \notin Claims
  BY NullAssumption DEF LockInv
<1>3. CASE TakeChannelLock(d)
  <2>1. CASE holder = Null /\ holder' = d /\ Goto(d, "locked")
    BY <1>1, <1>2, <2>1, GotoLock DEF Stages, Working
  <2>2. CASE holder' = holder /\ Goto(d, "unlock")
    BY <1>1, <2>2, GotoLock DEF Stages, Working
  <2> QED
    BY <1>3, <2>1, <2>2 DEF TakeChannelLock
<1>4. CASE PrepareDraft(d)
  <2>1. PICK stage \in {"drafted", "recover", "failedResult"} : Goto(d, stage)
    BY <1>4 DEF PrepareDraft
  <2> QED
    BY <1>1, <1>2, <1>4, <2>1, GotoLock DEF PrepareDraft, Stages, Working, Holds
<1>5. CASE ValidatePreSend(d)
  <2>1. PICK stage \in {"marking", "failedResult"} : Goto(d, stage)
    BY <1>5 DEF ValidatePreSend
  <2> QED
    BY <1>1, <1>2, <1>5, <2>1, GotoLock DEF ValidatePreSend, Stages, Working, Holds
<1>6. CASE ConfirmOutgoing(d)
  <2>1. PICK stage \in {"seen", "uncertainResult"} : Goto(d, stage)
    BY <1>6 DEF ConfirmOutgoing
  <2> QED
    BY <1>1, <1>2, <1>6, <2>1, GotoLock DEF ConfirmOutgoing, Stages, Working, Holds
<1>7. CASE FinishAttempt(d)
  <2>1. PICK stage \in {"unlock", "recover"} : Goto(d, stage)
    BY <1>7 DEF FinishAttempt
  <2> QED
    BY <1>1, <1>2, <1>7, <2>1, GotoLock DEF FinishAttempt, Stages, Working, Holds
<1>8. CASE ReleaseLocks(d)
  BY <1>1, <1>8, GotoLock DEF ReleaseLocks, Stages, Working
<1>9. CASE Crash(d)
  BY <1>1, <1>9, GotoLock DEF Crash, Stages, Working
<1>10. CASE ClickSend(d)
  <2>1. PICK stage \in {"clicked", "uncertainResult"} : Goto(d, stage)
    BY <1>10 DEF ClickSend
  <2> QED
    BY <1>1, <1>2, <1>10, <2>1, GotoLock DEF ClickSend, Stages, Working, Holds
<1> QED
  BY <1>3, <1>4, <1>5, <1>6, <1>7, <1>8, <1>9, <1>10

LEMMA LoadContextLock ==
    ASSUME LockInv, StatusInv', NEW d \in Claims, NEW p \in Publications, LoadContext(d, p)
    PROVE  LockInv'
<1>1. disp \in [Claims -> Dispatcher]
  BY DEF LockInv, StatusInv, DispatchInv, TypeOK
<1>2. NoNewDoubt /\ holder' = holder
  BY DEF LoadContext, queueVars, NoNewDoubt
<1>3. disp'[d].stage = "loaded" /\ \A e \in Claims \ {d} : disp'[e] = disp[e]
  BY <1>1 DEF LoadContext
<1>4. ASSUME NEW e \in Claims
      PROVE  /\ Holds(e)'
             /\ disp'[e].stage \in Working =>
                    disp[e].stage \in Working /\ disp'[e].pub = disp[e].pub
  <2>1. CASE e = d
    BY <1>3, <2>1 DEF Holds, Working
  <2>2. CASE e # d
    BY <1>2, <1>3, <2>2 DEF LockInv, Holds
  <2> QED
    BY <2>1, <2>2
<1> QED
  BY <1>2, <1>4, CalmStepKeepsLockInv

\* The claim: the database is asked, under the row locks, whether any delivery is
\* unresolved.
LEMMA ClaimLock ==
    ASSUME LockInv, StatusInv', NEW d \in Claims, ClaimSend(d)
    PROVE  LockInv'
<1>1. NoNewDoubt
  BY ClaimTells DEF LockInv, NoNewDoubt
<1>2. holder' = holder /\ holder = d
  BY DEF ClaimSend, LockInv, Holds
<1>3. disp \in [Claims -> Dispatcher]
  BY DEF LockInv, StatusInv, DispatchInv, TypeOK
<1>4. CASE Goto(d, "unlock")
  BY <1>1, <1>2, <1>4, GotoLock DEF Stages, Working
<1>5. CASE Goto(d, "claimed") /\ Claim(disp[d].pub, d)
  <2>1. ASSUME NEW q \in Publications, Unresolved(pub[q])
        PROVE  FALSE
    <3>1. pub[q].started
      BY <2>1 DEF LockInv, StatusInv, TellsTruth, Unresolved
    <3>2. Planned(q)
      BY <3>1 DEF LockInv, StatusInv, DispatchInv, QueueInv, GoodRow, Planned
    <3> QED
      BY <1>5, <2>1, <3>2 DEF Claim, ClaimAllowed, UnresolvedSet
  <2>2. \A q \in Publications : ~Unresolved(pub'[q])
    BY <1>1, <2>1 DEF NoNewDoubt
  <2>3. disp'[d].stage = "claimed" /\ \A e \in Claims \ {d} : disp'[e] = disp[e]
    BY <1>3, <1>5 DEF Goto, Dispatcher
  <2>4. \A e \in Claims : Holds(e)'
    BY <1>2, <2>3 DEF LockInv, Holds
  <2> QED
    BY <2>2, <2>4 DEF LockInv, OwnDoubt, OneDoubt
<1> QED
  BY <1>4, <1>5 DEF ClaimSend, Transaction

\* The records and the finalization write the row of the one dispatcher at work.
LEMMA DatabaseLock ==
    ASSUME LockInv, StatusInv', NEW d \in Claims,
           \/ RecordPreSend(d) \/ RecordClickStarted(d)
           \/ RecordClickCompleted(d) \/ RecordConfirmed(d)
           \/ FinalizeResult(d) \/ Recover(d)
    PROVE  LockInv'
<1>1. /\ holder' = holder /\ disp[d].stage \in Working
      /\ \A e \in Claims \ {d} : disp'[e] = disp[e]
  <2>1. disp \in [Claims -> Dispatcher]
    BY DEF LockInv, StatusInv, DispatchInv, TypeOK
  <2>2. holder' = holder /\ disp[d].stage \in Working
    BY DEF RecordPreSend, RecordClickStarted, RecordClickCompleted, RecordConfirmed,
           FinalizeResult, Recover, Working
  <2>3. \/ \E stage : Goto(d, stage)
        \/ disp' = [disp EXCEPT ![d].stage = "click", ![d].flag = TRUE]
    BY DEF RecordPreSend, RecordClickStarted, RecordClickCompleted, RecordConfirmed,
           FinalizeResult, Recover, FinalizeAs, Transaction
  <2> QED
    BY <2>1, <2>2, <2>3 DEF Goto
<1>2. OwnStep(d) /\ disp'[d].pub = disp[d].pub /\ disp[d].pub \in Publications
  BY <1>1, DatabaseTells, AssignedPub
  DEF LockInv, StatusInv, OwnStep, TellingStep, StageMoves, Working
<1>3. holder = d
  BY <1>1 DEF LockInv, Holds
<1>4. ASSUME NEW q \in Publications, Unresolved(pub'[q])
      PROVE  q = disp[d].pub
  <2>1. CASE Unresolved(pub[q])
    BY <1>1, <2>1 DEF LockInv, OwnDoubt
  <2>2. CASE pub'[q] # pub[q]
    BY <1>2, <2>2 DEF OwnStep, RowStep, LockInv, StatusInv, DispatchInv, TypeOK, QueueTypeOK
  <2> QED
    BY <1>4, <2>1, <2>2
<1>5. ASSUME NEW e \in Claims
      PROVE  Holds(e)' /\ OwnDoubt(e)'
  <2>1. CASE e = d
    BY <1>1, <1>2, <1>3, <1>4, <2>1 DEF Holds, OwnDoubt
  <2>2. CASE e # d
    <3>1. disp'[e].stage \notin Working \cup {"locked"}
      BY <1>1, <1>3, <2>2 DEF LockInv, Holds
    <3> QED
      BY <3>1 DEF Holds, OwnDoubt
  <2> QED
    BY <2>1, <2>2
<1> QED
  BY <1>4, <1>5 DEF LockInv, OneDoubt

LEMMA LapseLockInv ==
    ASSUME LockInv, StatusInv', LapseLock, LockIsKept
    PROVE  LockInv'
<1>1. NoNewDoubt /\ disp' = disp
  BY DEF LapseLock, queueVars, NoNewDoubt
<1>2. holder \in Claims /\ disp[holder].stage \in {"unlock", "dead"}
  BY NullAssumption DEF LapseLock, LockIsKept, LockInv, StatusInv, DispatchInv, TypeOK
<1>3. ASSUME NEW e \in Claims
      PROVE  disp[e].stage \notin Working \cup {"locked"}
  BY <1>2 DEF LockInv, Holds, Working
<1> QED
  BY <1>1, <1>3, CalmStepKeepsLockInv DEF Holds

\* At most one delivery of the channel is unresolved at a time: a dispatcher that has
\* claimed holds the channel lock, and it claimed when nothing was unresolved.  Crashes
\* and lost replies do no harm; a lock that lapses under a live dispatcher, and a
\* verdict that keeps a decided delivery uncertain, are excluded.
THEOREM OnlyOneUnresolved ==
    ASSUME MaxReads = 0, "keepUncertain" \notin Commands
    PROVE  Spec /\ [][LockIsKept]_vars => []OneUnresolved
<1>1. Init => LockInv \/ ~StatusInv
  BY DEF Init, QueueInit, AbsentRow, PlannedRow, Idle, LockInv, Holds, OwnDoubt, OneDoubt,
         Unresolved, Working
<1>2. LockInv /\ StatusInv' /\ [Next]_vars /\ [LockIsKept]_vars => LockInv'
  <2> SUFFICES ASSUME LockInv, StatusInv', [Next]_vars, [LockIsKept]_vars
               PROVE  LockInv'
    OBVIOUS
  <2>1. CASE OperatorNext /\ UNCHANGED dispatchVars
    BY <2>1, OperatorLock
  <2>2. ASSUME NEW d \in Claims, NEW p \in Publications, LoadContext(d, p)
        PROVE  LockInv'
    BY <2>2, LoadContextLock
  <2>3. ASSUME NEW d \in Claims, DispatchStep(d) \/ Crash(d)
        PROVE  LockInv'
    BY <2>3, QuietLock, ClaimLock, DatabaseLock DEF DispatchStep
  <2>4. CASE UNCHANGED vars
    BY <2>4, CalmStepKeepsLockInv
    DEF vars, dispatchVars, queueVars, NoNewDoubt, LockInv, Holds
  <2>5. CASE LapseLock
    <3>1. CASE LockIsKept
      BY <2>5, <3>1, LapseLockInv
    <3> QED
      BY <2>4, <3>1
  <2> QED
    BY <2>1, <2>2, <2>3, <2>4, <2>5 DEF Next, DispatchNext
<1>3. LockInv => OneUnresolved
  BY DEF LockInv, OneDoubt, OneUnresolved, UnresolvedSet
<1> QED
  BY <1>1, <1>2, <1>3, StatusInvariant, PTL DEF Spec

\* In particular when there are no faults at all, as in the run that checks it.
THEOREM OnlyOneUnresolvedWithoutFaults ==
    ASSUME MaxReads = 0, MaxFaults = 0, "keepUncertain" \notin Commands
    PROVE  Spec => []OneUnresolved
<1>1. TypeOK /\ [Next]_vars => [LockIsKept]_vars
  <2> SUFFICES ASSUME TypeOK, Next, holder # Null, holder' # holder
               PROVE  disp[holder].stage \in {"unlock", "dead"}
    BY DEF LockIsKept
  <2>1. ~Fault
    BY DEF TypeOK, Fault
  <2>2. CASE LapseLock
    BY <2>1, <2>2 DEF LapseLock
  <2>3. ASSUME NEW d \in Claims, DispatchStep(d)
        PROVE  disp[holder].stage \in {"unlock", "dead"}
    BY <2>3 DEF DispatchStep, TakeChannelLock, ClaimSend, PrepareDraft, RecordPreSend,
                ValidatePreSend, RecordClickStarted, ClickSend, RecordClickCompleted,
                ConfirmOutgoing, RecordConfirmed, FinalizeResult, FinishAttempt, Recover,
                ReleaseLocks
  <2> QED
    BY <2>2, <2>3 DEF Next, DispatchNext, LoadContext, Crash, dispatchVars
<1> QED
  BY <1>1, DispatchTypeCorrect, OnlyOneUnresolved, PTL DEF Spec
=============================================================================
