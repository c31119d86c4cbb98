------------------------- MODULE WhatsAppQueueProofs -------------------------
(***************************************************************************)
(* Proofs about WhatsAppQueue, for any sets of groups, claims and          *)
(* publications and any bounds.                                            *)
(*                                                                         *)
(* Part 1 is about rows: every command writes a row again (typing), keeps a*)
(* good row good, and keeps the click marker.  Part 2 lifts these facts to *)
(* the actions, part 3 states the theorems about markers.  Part 4 follows  *)
(* the authorizations, also through commands that write back old rows.     *)
(***************************************************************************)
EXTENDS WhatsAppQueue, FiniteSetTheorems, TLAPS

-----------------------------------------------------------------------------
\* Part 1: rows.

LEMMA FingerprintType ==
    ASSUME NEW ch \in Channels
    PROVE  Fingerprint(ch) \in Fingerprints
BY DEF Fingerprint, Fingerprints, Channels

LEMMA AbsentRowType == AbsentRow \in Rows /\ PlannedRow \in Rows
BY DEF AbsentRow, PlannedRow, Rows, PublicationStatuses, WebStates, AuthStatuses, Verdicts

LEMMA InvalidatedType ==
    ASSUME NEW row \in Rows, NEW state \in WebStates
    PROVE  Invalidated(row, state) \in Rows
BY DEF Invalidated, Rows, AuthStatuses

LEMMA InspectionTypes ==
    ASSUME NEW row \in Rows, NEW ch \in Channels
    PROVE  /\ VisualConfirmed(row, ch) \in Rows
           /\ VisualRejected(row) \in Rows
           /\ PreflightPassed(row, ch) \in Rows
           /\ PreflightFailed(row) \in Rows
<1>1. /\ Invalidated(row, "VISUAL_INSPECTION_CONFIRMED") \in Rows
      /\ Invalidated(row, "AWAITING_VISUAL_INSPECTION") \in Rows
      /\ Invalidated(row, "PREFLIGHT_READY") \in Rows
      /\ Invalidated(row, "PREFLIGHT_REQUIRED") \in Rows
  BY InvalidatedType DEF WebStates
<1>2. ASSUME NEW r \in Rows, NEW f \in Fingerprints \cup {Null}
      PROVE  /\ [r EXCEPT !.visual = f, !.blocked = TRUE] \in Rows
             /\ [r EXCEPT !.pre = f, !.blocked = TRUE] \in Rows
             /\ [r EXCEPT !.blocked = TRUE] \in Rows
  BY DEF Rows
<1>3. Fingerprint(ch) \in Fingerprints \cup {Null} /\ Null \in Fingerprints \cup {Null}
  BY FingerprintType
<1>4. VisualConfirmed(row, ch) \in Rows
  BY <1>1, <1>2, <1>3 DEF VisualConfirmed
<1>5. VisualRejected(row) \in Rows
  BY <1>1, <1>2, <1>3 DEF VisualRejected
<1>6. PreflightPassed(row, ch) \in Rows
  BY <1>1, <1>2, <1>3 DEF PreflightPassed
<1>7. PreflightFailed(row) \in Rows
  BY <1>1, <1>2, <1>3 DEF PreflightFailed
<1> QED
  BY <1>4, <1>5, <1>6, <1>7

LEMMA AuthorizedType ==
    ASSUME NEW row \in Rows, NEW ch \in Channels, NEW id \in Nat
    PROVE  Authorized(row, ch, id) \in Rows
BY FingerprintType DEF Authorized, Rows, WebStates, AuthStatuses

LEMMA RevokedType ==
    ASSUME NEW row \in Rows, NEW ch \in Channels
    PROVE  Revoked(row, ch) \in Rows
<1>1. ASSUME NEW web \in WebStates
      PROVE  [row EXCEPT !.web = web, !.auth = "REVOKED", !.blocked = TRUE] \in Rows
  BY DEF Rows, AuthStatuses
<1> QED
  BY <1>1 DEF Revoked, WebStates

LEMMA ClaimedType ==
    ASSUME NEW row \in Rows, NEW c \in Claims
    PROVE  ClaimedBy(row, c) \in Rows
BY DEF ClaimedBy, Rows, WebStates, AuthStatuses

LEMMA ReleasedType ==
    ASSUME NEW row \in Rows
    PROVE  Released(row) \in Rows
BY DEF Released, Rows, PublicationStatuses, WebStates, AuthStatuses

LEMMA CancelledType ==
    ASSUME NEW row \in Rows
    PROVE  Cancelled(row) \in Rows
<1>1. ASSUME NEW auth \in AuthStatuses
      PROVE  [row EXCEPT !.status = "CANCELLED", !.web = "CANCELLED", !.auth = auth]
                \in Rows
  BY DEF Rows, PublicationStatuses, WebStates
<1> QED
  BY <1>1 DEF Cancelled, AuthStatuses

LEMMA KeepErrorType ==
    ASSUME NEW row \in Rows, NEW err \in BOOLEAN
    PROVE  [row EXCEPT !.err = err] \in Rows
BY DEF Rows

LEMMA ArchivedType ==
    ASSUME NEW row \in Rows
    PROVE  Archived(row) \in Rows
BY DEF Archived, Rows, WebStates

LEMMA RetryAuthorizedType ==
    ASSUME NEW row \in Rows
    PROVE  RetryAuthorized(row) \in Rows
BY DEF RetryAuthorized, Rows, PublicationStatuses, WebStates

LEMMA RepairedType ==
    ASSUME NEW row \in Rows
    PROVE  Repaired(row) \in Rows
BY DEF Repaired, Rows

LEMMA RecordedType ==
    ASSUME NEW row \in Rows, NEW marker \in BOOLEAN, NEW clicked \in BOOLEAN,
           NEW unsure \in BOOLEAN
    PROVE  Recorded(row, marker, clicked, unsure) \in Rows
<1> DEFINE started   == marker \/ row.started
           uncertain == unsure \/ (started /\ ~row.confirmed)
           status    == IF uncertain THEN "PUBLICATION_FAILED" ELSE row.status
           err       == IF uncertain THEN TRUE ELSE row.err
           auth      == IF started THEN "CONSUMED" ELSE row.auth
<1>1. row.status \in PublicationStatuses /\ row.err \in BOOLEAN /\ row.auth \in AuthStatuses
  BY DEF Rows
<1>2. started \in BOOLEAN /\ uncertain \in BOOLEAN
  OBVIOUS
<1>3. status \in PublicationStatuses /\ err \in BOOLEAN /\ auth \in AuthStatuses
  BY <1>1, <1>2 DEF PublicationStatuses, AuthStatuses
<1>4. Recorded(row, marker, clicked, unsure)
        = [row EXCEPT !.status = status, !.err = err, !.clicked = clicked,
                      !.started = started, !.auth = auth, !.uncertain = uncertain,
                      !.retry = FALSE]
  BY DEF Recorded
<1> HIDE DEF started, uncertain, status, err, auth
<1> QED
  BY <1>2, <1>3, <1>4 DEF Rows

LEMMA FinalizedType ==
    ASSUME NEW row \in Rows, NEW outcome \in Outcomes
    PROVE  Finalized(row, outcome) \in Rows
<1>1. Delivered(row) \in Rows
  BY DEF Delivered, Rows, PublicationStatuses, WebStates, AuthStatuses
<1>2. LeftUncertain(row) \in Rows
  BY DEF LeftUncertain, Rows, PublicationStatuses, WebStates, AuthStatuses
<1>3. FailedSafe(row) \in Rows
  BY DEF FailedSafe, Rows, PublicationStatuses, WebStates, AuthStatuses
<1> QED
  BY <1>1, <1>2, <1>3 DEF Finalized, Outcomes

LEMMA ResolvedType ==
    ASSUME NEW row \in Rows, NEW verdict \in Verdicts
    PROVE  Resolved(row, verdict) \in Rows
<1>1. ASSUME NEW status \in PublicationStatuses, NEW confirmed \in BOOLEAN,
             NEW uncertain \in BOOLEAN
      PROVE  [row EXCEPT !.status = status, !.verdict = verdict,
                         !.confirmed = confirmed, !.uncertain = uncertain,
                         !.retry = FALSE] \in Rows
  BY DEF Rows
<1> QED
  BY <1>1 DEF Resolved, PublicationStatuses

LEMMA MetadataOverType ==
    ASSUME NEW current \in Rows, NEW row \in Rows
    PROVE  MetadataOver(current, row) \in Rows
BY DEF MetadataOver, Rows

\* What every row satisfies as long as no command writes back an old row: a click
\* marker stands on a planned row, leaves no usable authorization, and is answered.
GoodRow(row) ==
    row.started => /\ row.status # "NONE"
                   /\ row.auth \notin {"ACTIVE", "CLAIMED"}
                   /\ row.uncertain \/ row.confirmed \/ Decided(row)

\* The marker and the claim it was set under stay.
Keeps(old, new) == old.started => new.started /\ new.claim = old.claim

GoodStep(old, new) == GoodRow(old) => GoodRow(new) /\ Keeps(old, new)

LEMMA InspectionSteps ==
    ASSUME NEW row \in Rows, row.status # "NONE", NEW ch \in Channels
    PROVE  /\ GoodStep(row, VisualConfirmed(row, ch))
           /\ GoodStep(row, VisualRejected(row))
           /\ GoodStep(row, PreflightPassed(row, ch))
           /\ GoodStep(row, PreflightFailed(row))
<1>1. ASSUME NEW state \in WebStates
      PROVE  LET new == Invalidated(row, state)
             IN  /\ new.started = row.started /\ new.claim = row.claim
                 /\ new.status = row.status
                 /\ new.auth \notin {"ACTIVE", "CLAIMED"}
                 /\ new.uncertain = row.uncertain /\ new.confirmed = row.confirmed
                 /\ new.verdict = row.verdict
  BY DEF Invalidated, Rows
<1>2. ASSUME NEW state \in WebStates, NEW new,
             \/ \E f : new = [Invalidated(row, state) EXCEPT !.visual = f, !.blocked = TRUE]
             \/ \E f : new = [Invalidated(row, state) EXCEPT !.pre = f, !.blocked = TRUE]
             \/ new = [Invalidated(row, state) EXCEPT !.blocked = TRUE]
      PROVE  GoodStep(row, new)
  <2>1. Invalidated(row, state) \in Rows
    BY InvalidatedType
  <2>2. /\ new.started = Invalidated(row, state).started
        /\ new.claim = Invalidated(row, state).claim
        /\ new.status = Invalidated(row, state).status
        /\ new.auth = Invalidated(row, state).auth
        /\ new.uncertain = Invalidated(row, state).uncertain
        /\ new.confirmed = Invalidated(row, state).confirmed
        /\ new.verdict = Invalidated(row, state).verdict
    BY <1>2, <2>1 DEF Rows
  <2> QED
    BY <1>1, <2>2 DEF GoodStep, GoodRow, Keeps, Decided
<1>3. {"VISUAL_INSPECTION_CONFIRMED", "AWAITING_VISUAL_INSPECTION",
       "PREFLIGHT_READY", "PREFLIGHT_REQUIRED"} \subseteq WebStates
  BY DEF WebStates
<1> QED
  BY <1>2, <1>3 DEF VisualConfirmed, VisualRejected, PreflightPassed, PreflightFailed

LEMMA AuthorizationSteps ==
    ASSUME NEW row \in Rows, row.status # "NONE", NEW ch \in Channels
    PROVE  /\ \A id, expired : MayAuthorize(row, ch, expired)
                                 => GoodStep(row, Authorized(row, ch, id))
           /\ GoodStep(row, Revoked(row, ch))
           /\ \A c, expired : MayClaim(row, ch, expired) => GoodStep(row, ClaimedBy(row, c))
           /\ GoodStep(row, Released(row))
<1>1. \A id, expired : MayAuthorize(row, ch, expired) => GoodStep(row, Authorized(row, ch, id))
  BY DEF MayAuthorize, Authorized, GoodStep, GoodRow, Keeps, Rows
<1>2. GoodStep(row, Revoked(row, ch))
  BY DEF Revoked, GoodStep, GoodRow, Keeps, Decided, Rows
<1>3. \A c, expired : MayClaim(row, ch, expired) => GoodStep(row, ClaimedBy(row, c))
  BY DEF MayClaim, ClaimedBy, GoodStep, GoodRow, Keeps, Rows
<1>4. GoodStep(row, Released(row))
  BY DEF Released, GoodStep, GoodRow, Keeps, Decided, Rows
<1> QED
  BY <1>1, <1>2, <1>3, <1>4

LEMMA TerminalSteps ==
    ASSUME NEW row \in Rows, row.status # "NONE"
    PROVE  /\ GoodStep(row, Cancelled(row))
           /\ GoodStep(row, Archived(row))
           /\ MayRetry(row) => GoodStep(row, RetryAuthorized(row))
           /\ GoodStep(row, Repaired(row))
<1>1. GoodStep(row, Cancelled(row))
  BY DEF Cancelled, GoodStep, GoodRow, Keeps, Decided, Rows
<1>2. GoodStep(row, Archived(row))
  BY DEF Archived, GoodStep, GoodRow, Keeps, Decided, Rows
<1>3. GoodStep(row, RetryAuthorized(row))
  BY DEF RetryAuthorized, GoodStep, GoodRow, Keeps, Decided, Rows
<1>4. GoodStep(row, Repaired(row))
  BY DEF Repaired, GoodStep, GoodRow, Keeps, Decided, Rows
<1> QED
  BY <1>1, <1>2, <1>3, <1>4

LEMMA RecordedStep ==
    ASSUME NEW row \in Rows, row.status # "NONE", NEW marker \in BOOLEAN,
           NEW clicked \in BOOLEAN, NEW unsure \in BOOLEAN
    PROVE  /\ GoodStep(row, Recorded(row, marker, clicked, unsure))
           /\ marker => Recorded(row, marker, clicked, unsure).started
           /\ Recorded(row, marker, clicked, unsure).claim = row.claim
BY DEF Recorded, GoodStep, GoodRow, Keeps, Decided, Rows

LEMMA FinalizedStep ==
    ASSUME NEW row \in Rows, NEW c, NEW outcome \in Outcomes, MayFinalize(row, c, outcome)
    PROVE  GoodStep(row, Finalized(row, outcome))
<1>1. CASE outcome = "PUBLISHED"
  BY <1>1 DEF Finalized, Delivered, GoodStep, GoodRow, Keeps, Rows
<1>2. CASE outcome = "DELIVERY_UNCERTAIN"
  BY <1>2 DEF Finalized, LeftUncertain, GoodStep, GoodRow, Keeps, Rows
<1>3. CASE outcome = "FAILED_BEFORE_CLICK"
  BY <1>3 DEF MayFinalize, Finalized, FailedSafe, GoodStep, GoodRow, Keeps, Rows
<1> QED
  BY <1>1, <1>2, <1>3 DEF Outcomes

LEMMA ResolvedStep ==
    ASSUME NEW row \in Rows, NEW verdict \in Verdicts \ {"NONE"}
    PROVE  GoodStep(row, Resolved(row, verdict))
BY DEF Resolved, Verdicts, GoodStep, GoodRow, Keeps, Decided, Rows

LEMMA MetadataOverStep ==
    ASSUME NEW current \in Rows, NEW row \in Rows, row.status = current.status,
           GoodStep(current, row)
    PROVE  GoodStep(current, MetadataOver(current, row))
BY DEF MetadataOver, GoodStep, GoodRow, Keeps, Decided, Rows

-----------------------------------------------------------------------------
\* Part 2: actions.

\* A command writes one row, a good one if it did not act on an old row, and leaves
\* claims, edits and expiries alone.
Writes(p, row) == /\ row \in Rows
                  /\ pub' = [pub EXCEPT ![p] = row]
                  /\ stale = {} => GoodStep(pub[p], row)

QueueStep(p) == /\ \E row : Writes(p, row)
                /\ channel' \in Channels
                /\ granted' \in granted .. MaxAuth
                /\ UNCHANGED <<lapsed, issued, edits>>
                /\ stale' \subseteq stale

LEMMA ReadsFacts ==
    ASSUME QueueTypeOK, NEW p \in Publications, NEW r \in Reads(p)
    PROVE  /\ pub[p] \in Rows /\ r.row \in Rows /\ r.ch \in Channels
           /\ stale = {} => r.row = pub[p] /\ r.ch = channel
BY DEF QueueTypeOK, Reads, ReadRecords

LEMMA StoreMetadataWrites ==
    ASSUME QueueTypeOK, NEW p \in Publications, NEW r \in Reads(p), NEW row \in Rows,
           StoreMetadata(p, row), Finish(r), Planned(p),
           r.row.status # "NONE" => row.status = r.row.status /\ GoodStep(r.row, row)
    PROVE  (\E new : Writes(p, new)) /\ stale' \subseteq stale
<1>1. pub[p] \in Rows /\ MetadataOver(pub[p], row) \in Rows
  BY ReadsFacts, MetadataOverType
<1>2. stale = {} => GoodStep(pub[p], MetadataOver(pub[p], row))
  BY <1>1, ReadsFacts, MetadataOverStep DEF Planned
<1>3. Writes(p, MetadataOver(pub[p], row))
  BY <1>1, <1>2 DEF Writes, StoreMetadata, Store
<1> QED
  BY <1>3 DEF Finish

LEMMA StoreKeepingErrorWrites ==
    ASSUME QueueTypeOK, NEW p \in Publications, NEW r \in Reads(p), NEW row \in Rows,
           StoreKeepingError(p, row), Finish(r), Planned(p),
           r.row.status # "NONE" => GoodStep(r.row, row)
    PROVE  (\E new : Writes(p, new)) /\ stale' \subseteq stale
<1> DEFINE new == [row EXCEPT !.err = pub[p].err]
<1>1. pub[p] \in Rows /\ pub[p].err \in BOOLEAN
  BY DEF QueueTypeOK, Rows
<1>2. new \in Rows
  BY <1>1, KeepErrorType
<1>3. ASSUME stale = {}
      PROVE  GoodStep(pub[p], new)
  <2>1. GoodStep(pub[p], row)
    BY <1>3, ReadsFacts DEF Planned
  <2> QED
    BY <2>1 DEF GoodStep, GoodRow, Keeps, Decided, Rows
<1>4. Writes(p, new)
  BY <1>2, <1>3 DEF Writes, StoreKeepingError, Store
<1> QED
  BY <1>4 DEF Finish

LEMMA SmallTypes ==
    ASSUME QueueTypeOK
    PROVE  /\ channel \in Channels /\ granted \in 0 .. MaxAuth /\ granted \in Nat
           /\ granted \in granted .. MaxAuth
           /\ granted < MaxAuth => granted + 1 \in granted .. MaxAuth /\ granted + 1 \in Nat
BY BoundsAssumption DEF QueueTypeOK

LEMMA PlanStep ==
    ASSUME QueueTypeOK, NEW p \in Publications, Plan(p)
    PROVE  QueueStep(p)
<1>1. PlannedRow \in Rows
  BY AbsentRowType
<1>2. GoodStep(pub[p], PlannedRow)
  BY DEF Plan, Planned, GoodStep, GoodRow, Keeps, PlannedRow
<1>3. Writes(p, PlannedRow)
  BY <1>1, <1>2 DEF Writes, Plan, Store
<1> QED
  BY <1>3, SmallTypes DEF QueueStep, Plan

LEMMA RecordVisualInspectionStep ==
    ASSUME QueueTypeOK, NEW p \in Publications, NEW confirmed \in BOOLEAN,
           RecordVisualInspection(p, confirmed)
    PROVE  QueueStep(p)
<1>1. PICK r \in Reads(p) :
        /\ StoreMetadata(p, IF confirmed THEN VisualConfirmed(r.row, r.ch)
                                         ELSE VisualRejected(r.row))
        /\ Finish(r)
  BY DEF RecordVisualInspection
<1> DEFINE row == IF confirmed THEN VisualConfirmed(r.row, r.ch) ELSE VisualRejected(r.row)
<1>2. r.row \in Rows /\ r.ch \in Channels
  BY ReadsFacts
<1>3. row \in Rows
  BY <1>2, InspectionTypes
<1>4. row.status = r.row.status
  BY <1>2 DEF VisualConfirmed, VisualRejected, Invalidated, Rows
<1>5. r.row.status # "NONE" => GoodStep(r.row, row)
  BY <1>2, InspectionSteps
<1>6. StoreMetadata(p, row) /\ Planned(p)
  BY <1>1 DEF RecordVisualInspection
<1> HIDE DEF row
<1>7. (\E new : Writes(p, new)) /\ stale' \subseteq stale
  BY <1>1, <1>3, <1>4, <1>5, <1>6, StoreMetadataWrites
<1> QED
  BY <1>7, SmallTypes DEF QueueStep, RecordVisualInspection

LEMMA RecordPreflightStep ==
    ASSUME QueueTypeOK, NEW p \in Publications, NEW ready \in BOOLEAN,
           RecordPreflight(p, ready)
    PROVE  QueueStep(p)
<1>1. PICK r \in Reads(p) :
        /\ StoreMetadata(p, IF ready THEN PreflightPassed(r.row, r.ch)
                                     ELSE PreflightFailed(r.row))
        /\ Finish(r)
  BY DEF RecordPreflight
<1> DEFINE row == IF ready THEN PreflightPassed(r.row, r.ch) ELSE PreflightFailed(r.row)
<1>2. r.row \in Rows /\ r.ch \in Channels
  BY ReadsFacts
<1>3. row \in Rows
  BY <1>2, InspectionTypes
<1>4. row.status = r.row.status
  BY <1>2 DEF PreflightPassed, PreflightFailed, Invalidated, Rows
<1>5. r.row.status # "NONE" => GoodStep(r.row, row)
  BY <1>2, InspectionSteps
<1>6. StoreMetadata(p, row) /\ Planned(p)
  BY <1>1 DEF RecordPreflight
<1> HIDE DEF row
<1>7. (\E new : Writes(p, new)) /\ stale' \subseteq stale
  BY <1>1, <1>3, <1>4, <1>5, <1>6, StoreMetadataWrites
<1> QED
  BY <1>7, SmallTypes DEF QueueStep, RecordPreflight

LEMMA AuthorizeSendStep ==
    ASSUME QueueTypeOK, NEW p \in Publications, AuthorizeSend(p)
    PROVE  QueueStep(p)
<1>1. PICK r \in Reads(p) : /\ MayAuthorize(r.row, r.ch, lapsed)
                            /\ StoreMetadata(p, Authorized(r.row, r.ch, granted + 1))
                            /\ Finish(r)
  BY DEF AuthorizeSend
<1> DEFINE row == Authorized(r.row, r.ch, granted + 1)
<1>2. r.row \in Rows /\ r.ch \in Channels
  BY ReadsFacts
<1>3. row \in Rows
  BY <1>2, AuthorizedType, SmallTypes DEF AuthorizeSend
<1>4. row.status = r.row.status
  BY <1>2 DEF Authorized, Rows
<1>5. r.row.status # "NONE" => GoodStep(r.row, row)
  BY <1>1, <1>2, AuthorizationSteps
<1>6. StoreMetadata(p, row) /\ Planned(p)
  BY <1>1 DEF AuthorizeSend
<1> HIDE DEF row
<1>7. (\E new : Writes(p, new)) /\ stale' \subseteq stale
  BY <1>1, <1>3, <1>4, <1>5, <1>6, StoreMetadataWrites
<1> QED
  BY <1>7, SmallTypes DEF QueueStep, AuthorizeSend

LEMMA RevokeAuthorizationStep ==
    ASSUME QueueTypeOK, NEW p \in Publications, RevokeAuthorization(p)
    PROVE  QueueStep(p)
<1>1. PICK r \in Reads(p) : StoreMetadata(p, Revoked(r.row, r.ch)) /\ Finish(r)
  BY DEF RevokeAuthorization
<1> DEFINE row == Revoked(r.row, r.ch)
<1>2. r.row \in Rows /\ r.ch \in Channels
  BY ReadsFacts
<1>3. row \in Rows
  BY <1>2, RevokedType
<1>4. row.status = r.row.status
  BY <1>2 DEF Revoked, Rows
<1>5. r.row.status # "NONE" => GoodStep(r.row, row)
  BY <1>2, AuthorizationSteps
<1>6. StoreMetadata(p, row) /\ Planned(p)
  BY <1>1 DEF RevokeAuthorization
<1> HIDE DEF row
<1>7. (\E new : Writes(p, new)) /\ stale' \subseteq stale
  BY <1>1, <1>3, <1>4, <1>5, <1>6, StoreMetadataWrites
<1> QED
  BY <1>7, SmallTypes DEF QueueStep, RevokeAuthorization

LEMMA CancelPublicationStep ==
    ASSUME QueueTypeOK, NEW p \in Publications, CancelPublication(p)
    PROVE  QueueStep(p)
<1>1. PICK r \in Reads(p) : StoreKeepingError(p, Cancelled(r.row)) /\ Finish(r)
  BY DEF CancelPublication
<1>2. r.row \in Rows
  BY ReadsFacts
<1>3. Cancelled(r.row) \in Rows
  BY <1>2, CancelledType
<1>4. r.row.status # "NONE" => GoodStep(r.row, Cancelled(r.row))
  BY <1>2, TerminalSteps
<1>5. (\E new : Writes(p, new)) /\ stale' \subseteq stale
  BY <1>1, <1>3, <1>4, StoreKeepingErrorWrites DEF CancelPublication
<1> QED
  BY <1>5, SmallTypes DEF QueueStep, CancelPublication

LEMMA ArchivePublicationStep ==
    ASSUME QueueTypeOK, NEW p \in Publications, ArchivePublication(p)
    PROVE  QueueStep(p)
<1>1. PICK r \in Reads(p) : StoreMetadata(p, Archived(r.row)) /\ Finish(r)
  BY DEF ArchivePublication
<1>2. r.row \in Rows
  BY ReadsFacts
<1>3. Archived(r.row) \in Rows
  BY <1>2, ArchivedType
<1>4. Archived(r.row).status = r.row.status
  BY <1>2 DEF Archived, Rows
<1>5. r.row.status # "NONE" => GoodStep(r.row, Archived(r.row))
  BY <1>2, TerminalSteps
<1>6. (\E new : Writes(p, new)) /\ stale' \subseteq stale
  BY <1>1, <1>3, <1>4, <1>5, StoreMetadataWrites DEF ArchivePublication
<1> QED
  BY <1>6, SmallTypes DEF QueueStep, ArchivePublication

LEMMA RepairPlanningStep ==
    ASSUME QueueTypeOK, NEW p \in Publications, RepairPlanning(p)
    PROVE  QueueStep(p)
<1>1. PICK r \in Reads(p) : StoreMetadata(p, Repaired(r.row)) /\ Finish(r)
  BY DEF RepairPlanning
<1>2. r.row \in Rows
  BY ReadsFacts
<1>3. Repaired(r.row) \in Rows
  BY <1>2, RepairedType
<1>4. Repaired(r.row).status = r.row.status
  BY <1>2 DEF Repaired, Rows
<1>5. r.row.status # "NONE" => GoodStep(r.row, Repaired(r.row))
  BY <1>2, TerminalSteps
<1>6. (\E new : Writes(p, new)) /\ stale' \subseteq stale
  BY <1>1, <1>3, <1>4, <1>5, StoreMetadataWrites DEF RepairPlanning
<1> QED
  BY <1>6, SmallTypes DEF QueueStep, RepairPlanning

LEMMA DryRunStep ==
    ASSUME QueueTypeOK, NEW p \in Publications, NEW ready \in BOOLEAN, DryRun(p, ready)
    PROVE  QueueStep(p)
<1>1. PICK r \in Reads(p) :
        /\ StoreMetadata(p, r.row)
        /\ channel' = IF ready THEN [channel EXCEPT !.dry = r.ch.group] ELSE channel
        /\ Finish(r)
  BY DEF DryRun
<1>2. r.row \in Rows /\ r.ch \in Channels
  BY ReadsFacts
<1>3. GoodStep(r.row, r.row)
  BY DEF GoodStep, Keeps
<1>4. (\E new : Writes(p, new)) /\ stale' \subseteq stale
  BY <1>1, <1>2, <1>3, StoreMetadataWrites DEF DryRun
<1>5. channel' \in Channels
  BY <1>1, <1>2, SmallTypes DEF Channels
<1> QED
  BY <1>4, <1>5, SmallTypes DEF QueueStep, DryRun

LEMMA ReleaseClaimStep ==
    ASSUME QueueTypeOK, NEW p \in Publications, ReleaseClaim(p)
    PROVE  QueueStep(p)
<1>1. pub[p] \in Rows /\ channel \in Channels
  BY DEF QueueTypeOK
<1>2. Writes(p, Released(pub[p]))
  BY <1>1, ReleasedType, AuthorizationSteps DEF Writes, Store, ReleaseClaim, Planned
<1> QED
  BY <1>2, SmallTypes DEF QueueStep, ReleaseClaim

LEMMA PausedType ==
    ASSUME QueueTypeOK, NEW ch \in Channels
    PROVE  PausedAfterSuccess(ch) \in Channels
BY DEF QueueTypeOK, PausedAfterSuccess, Channels

LEMMA ResolveDeliveryStep ==
    ASSUME QueueTypeOK, NEW p \in Publications, NEW verdict \in Verdicts \ {"NONE"},
           ResolveDelivery(p, verdict)
    PROVE  QueueStep(p)
<1>1. PICK r \in Reads(p) :
        /\ StoreKeepingError(p, Resolved(r.row, verdict))
        /\ channel' = IF verdict = "DELIVERED" THEN PausedAfterSuccess(r.ch) ELSE channel
        /\ Finish(r)
  BY DEF ResolveDelivery
<1>2. r.row \in Rows /\ r.ch \in Channels
  BY ReadsFacts
<1>3. Resolved(r.row, verdict) \in Rows
  BY <1>2, ResolvedType
<1>4. r.row.status # "NONE" => GoodStep(r.row, Resolved(r.row, verdict))
  BY <1>2, ResolvedStep
<1>5. (\E new : Writes(p, new)) /\ stale' \subseteq stale
  BY <1>1, <1>3, <1>4, StoreKeepingErrorWrites DEF ResolveDelivery
<1>6. channel' \in Channels
  BY <1>1, <1>2, PausedType, SmallTypes
<1> QED
  BY <1>5, <1>6, SmallTypes DEF QueueStep, ResolveDelivery

LEMMA AuthorizeRetryStep ==
    ASSUME QueueTypeOK, NEW p \in Publications, AuthorizeRetry(p)
    PROVE  QueueStep(p)
<1>1. PICK r \in Reads(p) :
        /\ MayRetry(r.row)
        /\ StoreKeepingError(p, RetryAuthorized(r.row))
        /\ Finish(r)
  BY DEF AuthorizeRetry
<1>2. r.row \in Rows
  BY ReadsFacts
<1>3. RetryAuthorized(r.row) \in Rows
  BY <1>2, RetryAuthorizedType
<1>4. r.row.status # "NONE" => GoodStep(r.row, RetryAuthorized(r.row))
  BY <1>1, <1>2, TerminalSteps
<1>5. (\E new : Writes(p, new)) /\ stale' \subseteq stale
  BY <1>1, <1>3, <1>4, StoreKeepingErrorWrites DEF AuthorizeRetry
<1> QED
  BY <1>5, SmallTypes DEF QueueStep, AuthorizeRetry

LEMMA ExpireStaleOfferStep ==
    ASSUME QueueTypeOK, NEW p \in Publications, ExpireStaleOffer(p)
    PROVE  QueueStep(p)
<1>1. pub[p] \in Rows
  BY DEF QueueTypeOK
<1> DEFINE row == [pub[p] EXCEPT !.status = "CANCELLED", !.err = FALSE]
<1>2. row \in Rows
  BY <1>1 DEF Rows, PublicationStatuses
<1>3. GoodStep(pub[p], row)
  BY <1>1 DEF GoodStep, GoodRow, Keeps, Decided, Rows
<1>4. Writes(p, row)
  BY <1>2, <1>3 DEF Writes, Store, ExpireStaleOffer
<1> QED
  BY <1>4, SmallTypes DEF QueueStep, ExpireStaleOffer

LEMMA CommandStep ==
    ASSUME QueueTypeOK, NEW p \in Publications, NEW name, Command(name, p)
    PROVE  QueueStep(p)
BY PlanStep, RecordVisualInspectionStep, RecordPreflightStep, AuthorizeSendStep,
   RevokeAuthorizationStep, CancelPublicationStep, ArchivePublicationStep,
   RepairPlanningStep, DryRunStep, ReleaseClaimStep, ResolveDeliveryStep,
   AuthorizeRetryStep, ExpireStaleOfferStep
DEF Command, Verdicts

\* What any step does to the queue: types are kept and, when no command acts on old
\* rows, so are good rows and click markers.
StepFacts == /\ QueueTypeOK'
             /\ MaxReads = 0 /\ stale = {} =>
                    /\ stale' = {}
                    /\ \A p \in Publications : GoodStep(pub[p], pub'[p])

LEMMA WritesFacts ==
    ASSUME QueueTypeOK, NEW p \in Publications, NEW row, Writes(p, row)
    PROVE  /\ pub' \in [Publications -> Rows]
           /\ stale = {} => \A q \in Publications : GoodStep(pub[q], pub'[q])
<1>1. pub' \in [Publications -> Rows]
  BY DEF Writes, QueueTypeOK
<1>2. ASSUME stale = {}, NEW q \in Publications
      PROVE  GoodStep(pub[q], pub'[q])
  <2>1. CASE q = p
    BY <1>2, <2>1 DEF Writes, QueueTypeOK
  <2>2. CASE q # p
    BY <2>2 DEF Writes, QueueTypeOK, GoodStep, Keeps
  <2> QED
    BY <2>1, <2>2
<1> QED
  BY <1>1, <1>2

LEMMA SamePub ==
    ASSUME pub' = pub
    PROVE  \A q \in Publications : GoodStep(pub[q], pub'[q])
BY DEF GoodStep, Keeps

LEMMA QueueStepFacts ==
    ASSUME QueueTypeOK, NEW p \in Publications, QueueStep(p)
    PROVE  StepFacts
<1>1. PICK row : Writes(p, row)
  BY DEF QueueStep
<1>2. QueueTypeOK'
  <2>1. granted' \in 0 .. MaxAuth /\ lapsed' \subseteq 1 .. granted'
    BY BoundsAssumption DEF QueueStep, QueueTypeOK, AuthIds
  <2> QED
    BY <1>1, <2>1, WritesFacts DEF QueueStep, QueueTypeOK, AuthIds
<1> QED
  BY <1>1, <1>2, WritesFacts DEF QueueStep, StepFacts

LEMMA BeginReadFacts ==
    ASSUME QueueTypeOK, NEW p \in Publications, BeginRead(p)
    PROVE  StepFacts
<1>1. QueueTypeOK'
  BY DEF BeginRead, QueueTypeOK, AuthIds, ReadRecords
<1>2. ~(MaxReads = 0 /\ stale = {})
  BY FS_EmptySet DEF BeginRead
<1> QED
  BY <1>1, <1>2 DEF StepFacts

LEMMA ExpireAuthorizationFacts ==
    ASSUME QueueTypeOK, NEW id \in AuthIds, ExpireAuthorization(id)
    PROVE  StepFacts
<1>1. QueueTypeOK'
  BY DEF ExpireAuthorization, QueueTypeOK, AuthIds
<1> QED
  BY <1>1, SamePub DEF StepFacts, ExpireAuthorization

LEMMA EditChannelFacts ==
    ASSUME QueueTypeOK, NEW setting, EditChannel(setting)
    PROVE  StepFacts
<1>1. \A c \in ChannelReads : c \in Channels
  BY DEF ChannelReads, QueueTypeOK, ReadRecords
<1>2. channel' \in Channels
  BY <1>1 DEF EditChannel, Channels
<1>3. edits' \in 0 .. MaxEdits
  <2>1. edits \in 0 .. MaxEdits /\ edits < MaxEdits /\ edits' = edits + 1
    BY DEF EditChannel, QueueTypeOK
  <2> QED
    BY <2>1, BoundsAssumption
<1>4. QueueTypeOK'
  BY <1>2, <1>3 DEF EditChannel, QueueTypeOK, AuthIds
<1> QED
  BY <1>4, SamePub DEF StepFacts, EditChannel

LEMMA OperatorFacts ==
    ASSUME QueueTypeOK, OperatorNext
    PROVE  StepFacts /\ issued' = issued
<1>1. ASSUME NEW name \in Commands, NEW p \in Publications, Command(name, p)
      PROVE  StepFacts /\ issued' = issued
  BY <1>1, CommandStep, QueueStepFacts DEF QueueStep
<1>2. ASSUME NEW name \in Commands, EditChannel(name)
      PROVE  StepFacts /\ issued' = issued
  BY <1>2, EditChannelFacts DEF EditChannel
<1>3. ASSUME NEW p \in Publications, BeginRead(p)
      PROVE  StepFacts /\ issued' = issued
  BY <1>3, BeginReadFacts DEF BeginRead
<1>4. ASSUME NEW id \in AuthIds, ExpireAuthorization(id)
      PROVE  StepFacts /\ issued' = issued
  BY <1>4, ExpireAuthorizationFacts DEF ExpireAuthorization
<1> QED
  BY <1>1, <1>2, <1>3, <1>4 DEF OperatorNext

LEMMA ClaimFacts ==
    ASSUME QueueTypeOK, NEW p \in Publications, NEW c \in Claims, Claim(p, c)
    PROVE  StepFacts
<1>1. pub[p] \in Rows /\ channel \in Channels
  BY DEF QueueTypeOK
<1>2. Writes(p, ClaimedBy(pub[p], c))
  BY <1>1, ClaimedType, AuthorizationSteps DEF Writes, Store, Claim, ClaimAllowed, Planned
<1>3. QueueTypeOK'
  BY <1>2, WritesFacts DEF Claim, QueueTypeOK, AuthIds
<1> QED
  BY <1>2, <1>3, WritesFacts DEF StepFacts, Claim

LEMMA RecordSendStateFacts ==
    ASSUME QueueTypeOK, NEW p \in Publications, NEW c, NEW marker \in BOOLEAN,
           NEW clicked \in BOOLEAN, NEW unsure \in BOOLEAN,
           RecordSendState(p, c, marker, clicked, unsure)
    PROVE  /\ StepFacts
           /\ pub' = [pub EXCEPT ![p] = Recorded(pub[p], marker, clicked, unsure)]
<1>1. pub[p] \in Rows
  BY DEF QueueTypeOK
<1>2. Writes(p, Recorded(pub[p], marker, clicked, unsure))
  BY <1>1, RecordedType, RecordedStep DEF Writes, Store, RecordSendState, Planned
<1>3. QueueTypeOK'
  BY <1>2, WritesFacts DEF RecordSendState, QueueTypeOK, AuthIds
<1> QED
  BY <1>2, <1>3, WritesFacts DEF StepFacts, RecordSendState, Writes

LEMMA FinalizeDispatchFacts ==
    ASSUME QueueTypeOK, NEW p \in Publications, NEW c, NEW outcome \in Outcomes,
           FinalizeDispatch(p, c, outcome)
    PROVE  StepFacts
<1>1. pub[p] \in Rows
  BY DEF QueueTypeOK
<1>2. Writes(p, Finalized(pub[p], outcome))
  BY <1>1, FinalizedType, FinalizedStep DEF Writes, Store, FinalizeDispatch
<1>3. channel' \in Channels
  BY PausedType DEF FinalizeDispatch, QueueTypeOK
<1>4. QueueTypeOK'
  BY <1>2, <1>3, WritesFacts DEF FinalizeDispatch, QueueTypeOK, AuthIds
<1> QED
  BY <1>2, <1>4, WritesFacts DEF StepFacts, FinalizeDispatch

LEMMA StutterFacts ==
    ASSUME QueueTypeOK, UNCHANGED queueVars
    PROVE  StepFacts
<1>1. QueueTypeOK'
  BY DEF queueVars, QueueTypeOK, AuthIds
<1> QED
  BY <1>1, SamePub DEF StepFacts, queueVars

LEMMA QueueNextFacts ==
    ASSUME QueueTypeOK, [QueueNext]_queueVars
    PROVE  StepFacts
<1>1. ASSUME CallerNext
      PROVE  StepFacts
  <2> PICK p \in Publications, c \in Claims :
        \/ Claim(p, c)
        \/ \E marker, clicked, unsure \in BOOLEAN :
                RecordSendState(p, c, marker, clicked, unsure)
        \/ \E outcome \in Outcomes : FinalizeDispatch(p, c, outcome)
    BY <1>1 DEF CallerNext
  <2> QED
    BY ClaimFacts, RecordSendStateFacts, FinalizeDispatchFacts
<1> QED
  BY <1>1, OperatorFacts, StutterFacts DEF QueueNext

LEMMA QueueInitFacts ==
    ASSUME QueueInit
    PROVE  /\ QueueTypeOK /\ stale = {}
           /\ \A p \in Publications : GoodRow(pub[p])
<1>1. QueueTypeOK
  <2>1. channel \in Channels
    BY DEF QueueInit, Channels
  <2>2. pub \in [Publications -> Rows]
    BY AbsentRowType DEF QueueInit
  <2>3. granted \in 0 .. MaxAuth /\ edits \in 0 .. MaxEdits
    BY BoundsAssumption DEF QueueInit
  <2> QED
    BY <2>1, <2>2, <2>3 DEF QueueInit, QueueTypeOK
<1>2. GoodRow(AbsentRow)
  BY DEF GoodRow, AbsentRow, PlannedRow
<1> QED
  BY <1>1, <1>2 DEF QueueInit

-----------------------------------------------------------------------------
\* Part 3: theorems.

\* Every reachable state of the queue is well typed, whatever its callers do.
THEOREM QueueTypeCorrect == QueueSpec => []QueueTypeOK
<1>1. QueueInit => QueueTypeOK
  BY QueueInitFacts
<1>2. QueueTypeOK /\ [QueueNext]_queueVars => QueueTypeOK'
  BY QueueNextFacts DEF StepFacts
<1> QED
  BY <1>1, <1>2, PTL DEF QueueSpec

\* The inductive invariant of the queue when no command acts on old rows.
QueueInv == /\ QueueTypeOK
            /\ stale = {}
            /\ \A p \in Publications : GoodRow(pub[p])

LEMMA QueueInvStep ==
    ASSUME MaxReads = 0, QueueInv, StepFacts
    PROVE  /\ QueueInv'
           /\ \A p \in Publications : Keeps(pub[p], pub'[p])
BY DEF QueueInv, StepFacts, GoodStep

LEMMA QueueInvImplies ==
    ASSUME QueueInv
    PROVE  MarkedIsSpent /\ MarkedIsAccountedFor
BY DEF QueueInv, GoodRow, MarkedIsSpent, MarkedIsAccountedFor, Unresolved

\* When no command writes back an old row, a click marker leaves no authorization
\* that could be claimed or released.
THEOREM QueueMarkedIsSpent ==
    ASSUME MaxReads = 0
    PROVE  QueueSpec => []MarkedIsSpent
<1>1. QueueInit => QueueInv
  BY QueueInitFacts DEF QueueInv
<1>2. QueueInv /\ [QueueNext]_queueVars => QueueInv'
  BY QueueNextFacts, QueueInvStep DEF QueueInv
<1>3. QueueInv => MarkedIsSpent
  BY QueueInvImplies
<1> QED
  BY <1>1, <1>2, <1>3, PTL DEF QueueSpec

\* Under the same condition, every marked row is unresolved, confirmed or decided.
THEOREM QueueMarkedIsAccountedFor ==
    ASSUME MaxReads = 0
    PROVE  QueueSpec => []MarkedIsAccountedFor
<1>1. QueueInit => QueueInv
  BY QueueInitFacts DEF QueueInv
<1>2. QueueInv /\ [QueueNext]_queueVars => QueueInv'
  BY QueueNextFacts, QueueInvStep DEF QueueInv
<1>3. QueueInv => MarkedIsAccountedFor
  BY QueueInvImplies
<1> QED
  BY <1>1, <1>2, <1>3, PTL DEF QueueSpec

\* Under the same condition, no step removes a click marker or changes the claim it
\* was set under.
THEOREM QueueMarkerIsPermanent ==
    ASSUME MaxReads = 0
    PROVE  QueueSpec => MarkerIsPermanent
<1>1. QueueInit => QueueInv
  BY QueueInitFacts DEF QueueInv
<1>2. QueueInv /\ [QueueNext]_queueVars => QueueInv'
  BY QueueNextFacts, QueueInvStep DEF QueueInv
<1>3. QueueInv /\ [QueueNext]_queueVars
        => [\A p \in Publications :
                pub[p].started => pub'[p].started /\ pub'[p].claim = pub[p].claim]_queueVars
  BY QueueNextFacts, QueueInvStep DEF QueueInv, Keeps
<1> QED
  BY <1>1, <1>2, <1>3, PTL DEF QueueSpec, MarkerIsPermanent
-----------------------------------------------------------------------------
\* Part 4: authorizations, with overlapping reads.

\* What a command writes holds no active authorization, or the one of a row it
\* read, or a new one made of a channel it found open.
FromReads(p, new) ==
    \/ new.auth # "ACTIVE"
    \/ \E r \in Reads(p) : r.row.auth = "ACTIVE" /\ new.authFp = r.row.authFp
    \/ /\ new.authId = granted + 1
       /\ \E r \in Reads(p) : ChannelOpen(r.ch) /\ new.authFp = Fingerprint(r.ch)

AuthStep(p) == \E new : pub' = [pub EXCEPT ![p] = new] /\ FromReads(p, new)

\* A row that was read and written back with its authorization, or without one.
LEMMA KeptAuthStep ==
    ASSUME QueueTypeOK, NEW p \in Publications, NEW r \in Reads(p), NEW row \in Rows,
           \/ row.auth # "ACTIVE"
           \/ row.auth = r.row.auth /\ row.authFp = r.row.authFp,
           StoreMetadata(p, row) \/ StoreKeepingError(p, row)
    PROVE  AuthStep(p)
<1>1. CASE StoreMetadata(p, row)
  <2> DEFINE new == MetadataOver(pub[p], row)
  <2>1. new.auth = row.auth /\ new.authFp = row.authFp
    BY DEF MetadataOver, Rows
  <2>2. FromReads(p, new)
    BY <2>1 DEF FromReads
  <2> HIDE DEF new
  <2> QED
    BY <1>1, <2>2 DEF AuthStep, StoreMetadata, Store, new
<1>2. CASE StoreKeepingError(p, row)
  <2> DEFINE new == [row EXCEPT !.err = pub[p].err]
  <2>1. new.auth = row.auth /\ new.authFp = row.authFp
    BY DEF Rows
  <2>2. FromReads(p, new)
    BY <2>1 DEF FromReads
  <2> HIDE DEF new
  <2> QED
    BY <1>2, <2>2 DEF AuthStep, StoreKeepingError, Store, new
<1> QED
  BY <1>1, <1>2

LEMMA AuthorizeSendAuth ==
    ASSUME QueueTypeOK, NEW p \in Publications, AuthorizeSend(p)
    PROVE  AuthStep(p)
<1>1. PICK r \in Reads(p) : /\ MayAuthorize(r.row, r.ch, lapsed)
                            /\ StoreMetadata(p, Authorized(r.row, r.ch, granted + 1))
  BY DEF AuthorizeSend
<1> DEFINE new == MetadataOver(pub[p], Authorized(r.row, r.ch, granted + 1))
<1>2. new.authFp = Fingerprint(r.ch) /\ new.authId = granted + 1
  BY ReadsFacts DEF MetadataOver, Authorized, Rows
<1>3. FromReads(p, new)
  BY <1>1, <1>2 DEF FromReads, MayAuthorize
<1> HIDE DEF new
<1> QED
  BY <1>1, <1>3 DEF AuthStep, StoreMetadata, Store, new

\* The commands that read first.
LEMMA ReadCommandAuth ==
    ASSUME QueueTypeOK, NEW p \in Publications,
           \/ \E confirmed \in BOOLEAN : RecordVisualInspection(p, confirmed)
           \/ \E ready \in BOOLEAN : RecordPreflight(p, ready) \/ DryRun(p, ready)
           \/ RevokeAuthorization(p) \/ CancelPublication(p) \/ ArchivePublication(p)
           \/ RepairPlanning(p) \/ AuthorizeRetry(p)
           \/ \E verdict \in Verdicts : ResolveDelivery(p, verdict)
    PROVE  AuthStep(p)
<1> DEFINE Kept(r, row) == /\ row \in Rows
                           /\ \/ row.auth # "ACTIVE"
                              \/ row.auth = r.row.auth /\ row.authFp = r.row.authFp
<1>1. ASSUME NEW r \in Reads(p)
      PROVE  /\ Kept(r, VisualConfirmed(r.row, r.ch)) /\ Kept(r, VisualRejected(r.row))
             /\ Kept(r, PreflightPassed(r.row, r.ch)) /\ Kept(r, PreflightFailed(r.row))
             /\ Kept(r, r.row)
             /\ Kept(r, Revoked(r.row, r.ch)) /\ Kept(r, Cancelled(r.row))
             /\ Kept(r, Archived(r.row)) /\ Kept(r, Repaired(r.row))
             /\ Kept(r, RetryAuthorized(r.row))
             /\ \A verdict \in Verdicts : Kept(r, Resolved(r.row, verdict))
  <2>1. r.row \in Rows /\ r.ch \in Channels
    BY ReadsFacts
  <2>2. \A state \in WebStates : Invalidated(r.row, state).auth # "ACTIVE"
    BY <2>1 DEF Invalidated, Rows
  <2>3. {"VISUAL_INSPECTION_CONFIRMED", "AWAITING_VISUAL_INSPECTION",
         "PREFLIGHT_READY", "PREFLIGHT_REQUIRED"} \subseteq WebStates
    BY DEF WebStates
  <2>4. /\ VisualConfirmed(r.row, r.ch).auth # "ACTIVE" /\ VisualRejected(r.row).auth # "ACTIVE"
        /\ PreflightPassed(r.row, r.ch).auth # "ACTIVE" /\ PreflightFailed(r.row).auth # "ACTIVE"
    BY <2>1, <2>2, <2>3, InvalidatedType
    DEF VisualConfirmed, VisualRejected, PreflightPassed, PreflightFailed, Rows
  <2>5. Revoked(r.row, r.ch).auth # "ACTIVE" /\ Cancelled(r.row).auth # "ACTIVE"
    BY <2>1 DEF Revoked, Cancelled, Rows
  <2>6. /\ Archived(r.row).auth = r.row.auth /\ Archived(r.row).authFp = r.row.authFp
        /\ Repaired(r.row).auth = r.row.auth /\ Repaired(r.row).authFp = r.row.authFp
        /\ RetryAuthorized(r.row).auth = r.row.auth
        /\ RetryAuthorized(r.row).authFp = r.row.authFp
    BY <2>1 DEF Archived, Repaired, RetryAuthorized, Rows
  <2>7. \A verdict \in Verdicts : /\ Resolved(r.row, verdict).auth = r.row.auth
                                   /\ Resolved(r.row, verdict).authFp = r.row.authFp
    BY <2>1 DEF Resolved, Rows
  <2>8. /\ VisualConfirmed(r.row, r.ch) \in Rows /\ VisualRejected(r.row) \in Rows
        /\ PreflightPassed(r.row, r.ch) \in Rows /\ PreflightFailed(r.row) \in Rows
        /\ Revoked(r.row, r.ch) \in Rows /\ Cancelled(r.row) \in Rows
        /\ Archived(r.row) \in Rows /\ Repaired(r.row) \in Rows
        /\ RetryAuthorized(r.row) \in Rows
    BY <2>1, InspectionTypes, RevokedType, CancelledType, ArchivedType, RepairedType,
       RetryAuthorizedType
  <2>9. \A verdict \in Verdicts : Resolved(r.row, verdict) \in Rows
    BY <2>1, ResolvedType
  <2> QED
    BY <2>1, <2>4, <2>5, <2>6, <2>7, <2>8, <2>9
<1>2. ASSUME NEW r \in Reads(p), NEW row, Kept(r, row),
             StoreMetadata(p, row) \/ StoreKeepingError(p, row)
      PROVE  AuthStep(p)
  BY <1>2, KeptAuthStep
<1> HIDE DEF Kept
<1>3. ASSUME NEW confirmed \in BOOLEAN, RecordVisualInspection(p, confirmed)
      PROVE  AuthStep(p)
  BY <1>1, <1>2, <1>3 DEF RecordVisualInspection
<1>4. ASSUME NEW ready \in BOOLEAN, RecordPreflight(p, ready)
      PROVE  AuthStep(p)
  BY <1>1, <1>2, <1>4 DEF RecordPreflight
<1>5. ASSUME NEW ready \in BOOLEAN, DryRun(p, ready)
      PROVE  AuthStep(p)
  BY <1>1, <1>2, <1>5 DEF DryRun
<1>6. ASSUME \/ RevokeAuthorization(p) \/ CancelPublication(p) \/ ArchivePublication(p)
             \/ RepairPlanning(p) \/ AuthorizeRetry(p)
      PROVE  AuthStep(p)
  BY <1>1, <1>2, <1>6
  DEF RevokeAuthorization, CancelPublication, ArchivePublication, RepairPlanning, AuthorizeRetry
<1>7. ASSUME NEW verdict \in Verdicts, ResolveDelivery(p, verdict)
      PROVE  AuthStep(p)
  BY <1>1, <1>2, <1>7 DEF ResolveDelivery
<1> QED
  BY <1>3, <1>4, <1>5, <1>6, <1>7

LEMMA CommandAuth ==
    ASSUME QueueTypeOK, NEW p \in Publications, NEW name, Command(name, p)
    PROVE  AuthStep(p)
<1>1. ASSUME Plan(p)
      PROVE  AuthStep(p)
  <2>1. PlannedRow.auth # "ACTIVE"
    BY DEF PlannedRow
  <2>2. FromReads(p, PlannedRow)
    BY <2>1 DEF FromReads
  <2> QED
    BY <1>1, <2>2 DEF Plan, Store, AuthStep
<1>2. ASSUME ReleaseClaim(p)
      PROVE  AuthStep(p)
  <2>1. Released(pub[p]).auth # "ACTIVE"
    BY DEF Released, QueueTypeOK, Rows
  <2> QED
    BY <1>2, <2>1 DEF ReleaseClaim, Store, AuthStep, FromReads
<1>3. ASSUME ExpireStaleOffer(p)
      PROVE  AuthStep(p)
  <2> DEFINE new == [pub[p] EXCEPT !.status = "CANCELLED", !.err = FALSE]
  <2>1. new.auth = pub[p].auth /\ new.authFp = pub[p].authFp
    BY DEF QueueTypeOK, Rows
  <2> HIDE DEF new
  <2>2. \E r \in Reads(p) : r.row = pub[p]
    <3> DEFINE current == [p |-> p, row |-> pub[p], ch |-> channel]
    <3>1. current.row = pub[p]
      OBVIOUS
    <3> HIDE DEF current
    <3>2. current \in Reads(p)
      BY DEF Reads, current
    <3> QED
      BY <3>1, <3>2
  <2>3. FromReads(p, new)
    BY <2>1, <2>2 DEF FromReads
  <2> QED
    BY <1>3, <2>3 DEF ExpireStaleOffer, Store, AuthStep, new
<1> QED
  BY <1>1, <1>2, <1>3, AuthorizeSendAuth, ReadCommandAuth DEF Command, Verdicts

\* Claiming, recording and finalizing activate no authorization.
LEMMA CallerAuth ==
    ASSUME QueueTypeOK, NEW p \in Publications,
           \/ \E c \in Claims : Claim(p, c)
           \/ \E c \in Claims, marker, clicked, unsure \in BOOLEAN :
                  RecordSendState(p, c, marker, clicked, unsure)
           \/ \E c \in Claims, outcome \in Outcomes : FinalizeDispatch(p, c, outcome)
    PROVE  AuthStep(p)
<1>1. pub[p] \in Rows
  BY DEF QueueTypeOK
<1>2. ASSUME NEW c \in Claims, Claim(p, c)
      PROVE  AuthStep(p)
  <2>1. ClaimedBy(pub[p], c).auth # "ACTIVE"
    BY <1>1 DEF ClaimedBy, Rows
  <2> QED
    BY <1>2, <2>1 DEF Claim, Store, AuthStep, FromReads
<1>3. ASSUME NEW c \in Claims, NEW marker \in BOOLEAN, NEW clicked \in BOOLEAN,
             NEW unsure \in BOOLEAN, RecordSendState(p, c, marker, clicked, unsure)
      PROVE  AuthStep(p)
  <2>1. Recorded(pub[p], marker, clicked, unsure).auth # "ACTIVE"
    BY <1>1, <1>3 DEF RecordSendState, MayRecord, Recorded, Rows
  <2> QED
    BY <1>3, <2>1 DEF RecordSendState, Store, AuthStep, FromReads
<1>4. ASSUME NEW c \in Claims, NEW outcome \in Outcomes, FinalizeDispatch(p, c, outcome)
      PROVE  AuthStep(p)
  <2>1. /\ Delivered(pub[p]).auth # "ACTIVE" /\ LeftUncertain(pub[p]).auth # "ACTIVE"
        /\ FailedSafe(pub[p]).auth # "ACTIVE"
    BY <1>1 DEF Delivered, LeftUncertain, FailedSafe, Rows
  <2>2. Finalized(pub[p], outcome).auth # "ACTIVE"
    BY <2>1 DEF Finalized, Outcomes
  <2> QED
    BY <1>4, <2>2 DEF FinalizeDispatch, Store, AuthStep, FromReads
<1> QED
  BY <1>2, <1>3, <1>4

\* Every step writes at most one row, in this way, and reads or writes nothing else
\* of the rows.
LEMMA QueueNextAuth ==
    ASSUME QueueTypeOK, [QueueNext]_queueVars
    PROVE  /\ pub' = pub \/ \E p \in Publications : AuthStep(p)
           /\ \A r \in stale' :
                 r \in stale \/ \E p \in Publications : r.row = pub[p]
<1>1. ASSUME NEW p \in Publications, NEW name, Command(name, p)
      PROVE  AuthStep(p) /\ stale' \subseteq stale
  BY <1>1, CommandAuth, CommandStep DEF QueueStep
<1>2. ASSUME NEW name, EditChannel(name)
      PROVE  pub' = pub /\ stale' = stale
  BY <1>2 DEF EditChannel
<1>3. ASSUME NEW p \in Publications, BeginRead(p)
      PROVE  /\ pub' = pub
             /\ \A r \in stale' : r \in stale \/ r.row = pub[p]
  BY <1>3 DEF BeginRead
<1>4. ASSUME NEW id \in AuthIds, ExpireAuthorization(id)
      PROVE  pub' = pub /\ stale' = stale
  BY <1>4 DEF ExpireAuthorization
<1>5. ASSUME CallerNext
      PROVE  (\E p \in Publications : AuthStep(p)) /\ stale' = stale
  <2> PICK p \in Publications, c \in Claims :
        \/ Claim(p, c)
        \/ \E marker, clicked, unsure \in BOOLEAN :
                RecordSendState(p, c, marker, clicked, unsure)
        \/ \E outcome \in Outcomes : FinalizeDispatch(p, c, outcome)
    BY <1>5 DEF CallerNext
  <2>1. AuthStep(p)
    BY CallerAuth
  <2>2. stale' = stale
    BY DEF Claim, RecordSendState, FinalizeDispatch
  <2> QED
    BY <2>1, <2>2
<1>6. CASE UNCHANGED queueVars
  BY <1>6 DEF queueVars
<1> QED
  BY <1>1, <1>2, <1>3, <1>4, <1>5, <1>6 DEF QueueNext, OperatorNext

\* An active authorization was given for a channel that was open, also in the rows
\* that commands still have in hand.
OpenWhenActive(row) ==
    row.auth = "ACTIVE" => row.authFp.on = TRUE /\ row.authFp.paused = FALSE

OpenInv == /\ QueueTypeOK
           /\ \A p \in Publications : OpenWhenActive(pub[p])
           /\ \A r \in stale : OpenWhenActive(r.row)

LEMMA OpenInvStep ==
    ASSUME OpenInv, [QueueNext]_queueVars
    PROVE  OpenInv'
<1>1. QueueTypeOK /\ QueueTypeOK'
  BY QueueNextFacts DEF OpenInv, StepFacts
<1>2. ASSUME NEW p \in Publications, NEW new, FromReads(p, new)
      PROVE  OpenWhenActive(new)
  <2>1. ASSUME NEW r \in Reads(p)
        PROVE  OpenWhenActive(r.row)
    BY <2>1 DEF Reads, OpenInv
  <2>2. ASSUME NEW r \in Reads(p), ChannelOpen(r.ch)
        PROVE  Fingerprint(r.ch).on = TRUE /\ Fingerprint(r.ch).paused = FALSE
    BY <1>1, <2>2, ReadsFacts DEF ChannelOpen, Fingerprint, Channels
  <2> QED
    BY <1>2, <2>1, <2>2 DEF FromReads, OpenWhenActive
<1>3. ASSUME NEW q \in Publications
      PROVE  OpenWhenActive(pub'[q])
  <2>1. CASE pub' = pub
    BY <2>1 DEF OpenInv
  <2>2. ASSUME NEW p \in Publications, AuthStep(p)
        PROVE  OpenWhenActive(pub'[q])
    BY <1>1, <1>2, <2>2 DEF AuthStep, QueueTypeOK, OpenInv
  <2> QED
    BY <1>1, <2>1, <2>2, QueueNextAuth
<1>4. ASSUME NEW r \in stale'
      PROVE  OpenWhenActive(r.row)
  BY <1>1, QueueNextAuth DEF OpenInv
<1>5. \A r \in stale' : OpenWhenActive(r.row)
  BY <1>4
<1> QED
  BY <1>1, <1>3, <1>5 DEF OpenInv, OpenWhenActive

\* A claim is made only while the channel is enabled and not paused, whatever forms
\* and commands write in between and whatever old rows they write back.
THEOREM QueueClaimsOnlyWhileOpen == QueueSpec => ClaimsOnlyWhileOpen
<1>1. QueueInit => OpenInv
  <2> SUFFICES ASSUME QueueInit
               PROVE  OpenInv
    OBVIOUS
  <2>1. \A p \in Publications : pub[p].auth = "NONE"
    BY DEF QueueInit, AbsentRow, PlannedRow
  <2> QED
    BY <2>1, QueueInitFacts DEF OpenInv, OpenWhenActive
<1>2. OpenInv /\ [QueueNext]_queueVars => OpenInv'
  BY OpenInvStep
<1>3. OpenInv /\ [QueueNext]_queueVars => [issued' # issued => ChannelOpen(channel)]_queueVars
  <2> SUFFICES ASSUME OpenInv, QueueNext, issued' # issued
               PROVE  ChannelOpen(channel)
    OBVIOUS
  <2>1. QueueTypeOK
    BY DEF OpenInv
  <2>2. PICK p \in Publications, c \in Claims : Claim(p, c)
    BY <2>1, OperatorFacts DEF QueueNext, CallerNext, RecordSendState, FinalizeDispatch
  <2>3. pub[p].auth = "ACTIVE" /\ pub[p].authFp = Fingerprint(channel)
    BY <2>2 DEF Claim, ClaimAllowed, MayClaim
  <2>4. Fingerprint(channel).on = TRUE /\ Fingerprint(channel).paused = FALSE
    BY <2>3 DEF OpenInv, OpenWhenActive
  <2> QED
    BY <2>4 DEF Fingerprint, ChannelOpen
<1> QED
  BY <1>1, <1>2, <1>3, PTL DEF QueueSpec, ClaimsOnlyWhileOpen

\* When no command writes back an old row, an authorization that becomes active is
\* a new one: none is used twice.
THEOREM QueueAuthorizationsAreSingleUse ==
    ASSUME MaxReads = 0
    PROVE  QueueSpec => AuthorizationsAreSingleUse
<1>1. QueueInit => QueueInv
  BY QueueInitFacts DEF QueueInv
<1>2. QueueInv /\ [QueueNext]_queueVars => QueueInv'
  BY QueueNextFacts, QueueInvStep DEF QueueInv
<1>3. ASSUME QueueInv, [QueueNext]_queueVars, NEW q \in Publications,
             pub'[q].auth = "ACTIVE", pub[q].auth # "ACTIVE"
      PROVE  pub'[q].authId > granted
  <2>1. QueueTypeOK /\ stale = {}
    BY <1>3 DEF QueueInv
  <2>2. PICK p \in Publications : AuthStep(p)
    BY <1>3, <2>1, QueueNextAuth
  <2>3. PICK new : pub' = [pub EXCEPT ![p] = new] /\ FromReads(p, new)
    BY <2>2 DEF AuthStep
  <2>4. p = q /\ pub'[q] = new
    BY <1>3, <2>1, <2>3 DEF QueueTypeOK
  <2>5. \A r \in Reads(p) : r.row = pub[p]
    BY <2>1 DEF Reads
  <2>6. new.authId = granted + 1
    BY <1>3, <2>3, <2>4, <2>5 DEF FromReads
  <2> QED
    BY <2>1, <2>4, <2>6, SmallTypes
<1>4. QueueInv /\ [QueueNext]_queueVars
        => [\A p \in Publications :
                pub'[p].auth = "ACTIVE" /\ pub[p].auth # "ACTIVE"
                    => pub'[p].authId > granted]_queueVars
  BY <1>3
<1> QED
  BY <1>1, <1>2, <1>4, PTL DEF QueueSpec, AuthorizationsAreSingleUse
=============================================================================
