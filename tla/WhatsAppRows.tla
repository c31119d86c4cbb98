---------------------------- MODULE WhatsAppRows ----------------------------
(***************************************************************************)
(* The rows the WhatsApp Web operational queue works on, and the pure      *)
(* functions over them: what a Publication row and its channel mean        *)
(* (stored state, gates, fingerprints) and what each database command      *)
(* writes into the row it was given.  Nothing here reads a variable: which *)
(* row a command was given (the current one, or one read earlier) is the   *)
(* business of WhatsAppQueue.                                              *)
(*                                                                         *)
(* Fields of a Publication row (Publication.status, .errorMessage and the  *)
(* JSON column .metadata):                                                 *)
(*   status    Publication.status; "NONE" before the row exists            *)
(*   err       errorMessage = "WHATSAPP_WEB_DELIVERY_UNCERTAIN"            *)
(*   web       whatsappWebState                                            *)
(*   visual    visualInspectionFingerprint, Null when not confirmed        *)
(*   pre       preflightFingerprint, Null when not completed               *)
(*   auth      sendAuthorizationStatus, "NONE" for JSON null               *)
(*   authId    sendAuthorizationId, 0 for none                             *)
(*   authFp    sendAuthorizationFingerprint                                *)
(*   claim     sendAuthorizationClaimId                                    *)
(*   started   sendClickStartedAt is set (the click marker)                *)
(*   clicked   sendWasClicked                                              *)
(*   uncertain deliveryUncertain                                           *)
(*   confirmed deliveryConfirmedAt is set                                  *)
(*   verdict   manualDeliveryResolution                                    *)
(*   retry     retryAuthorized                                             *)
(*   archived  archivedAt is set                                           *)
(*   blocked   dispatchBlockedReason is a string                           *)
(***************************************************************************)
EXTENDS Naturals

CONSTANTS
    Groups,     \* values of groupDisplayName the channel may be given
    Claims,     \* claim identifiers (randomUUID() in claimWhatsAppWebSendAuthorization)
    Null        \* JSON null

ASSUME NullAssumption == /\ Null \notin Groups
                         /\ Null \notin Claims

-----------------------------------------------------------------------------
\* The channel row: enabled and automation switches as one flag, the pause
\* flag, the group, and the group of the last successful dry run.
Channels == [on: BOOLEAN, paused: BOOLEAN, group: Groups, dry: Groups \cup {Null}]

\* The part of the channel that whatsappWebPublicationFingerprint hashes; the
\* hashed fields of the publication itself never change after planning.
Fingerprints == [on: BOOLEAN, paused: BOOLEAN, group: Groups]

ASSUME NullFingerprint == Null \notin Fingerprints

\* Mutant of Fingerprint: the pause flag is left out of the hash.
FingerprintWithoutPause(ch) == [on |-> ch.on, paused |-> FALSE, group |-> ch.group]

Fingerprint(ch) == [on |-> ch.on, paused |-> ch.paused, group |-> ch.group]

PublicationStatuses ==
    {"NONE", "SCHEDULED", "PUBLICATION_FAILED", "PUBLISHED", "CANCELLED"}

WebStates ==
    {"AWAITING_VISUAL_INSPECTION", "VISUAL_INSPECTION_CONFIRMED",
     "PREFLIGHT_REQUIRED", "PREFLIGHT_READY", "AUTHORIZED_FOR_SEND",
     "AUTHORIZATION_EXPIRED", "SEND_IN_PROGRESS", "REAUTHORIZE_REQUIRED",
     "PUBLISHED", "DELIVERY_UNCERTAIN", "CANCELLED", "ARCHIVED"}

AuthStatuses ==
    {"NONE", "ACTIVE", "CLAIMED", "CONSUMED", "INVALIDATED", "REVOKED", "FAILED_SAFE"}

Verdicts == {"NONE", "DELIVERED", "NOT_DELIVERED", "KEPT_UNCERTAIN"}

Rows == [status: PublicationStatuses, err: BOOLEAN, web: WebStates,
         visual: Fingerprints \cup {Null}, pre: Fingerprints \cup {Null},
         auth: AuthStatuses, authId: Nat, authFp: Fingerprints \cup {Null},
         claim: Claims \cup {Null},
         started: BOOLEAN, clicked: BOOLEAN, uncertain: BOOLEAN,
         confirmed: BOOLEAN, verdict: Verdicts, retry: BOOLEAN,
         archived: BOOLEAN, blocked: BOOLEAN]

\* The row createPublicationIdempotently inserts for a WEB_EXPERIMENTAL group.
PlannedRow ==
    [status |-> "SCHEDULED", err |-> FALSE, web |-> "AWAITING_VISUAL_INSPECTION",
     visual |-> Null, pre |-> Null, auth |-> "NONE", authId |-> 0,
     authFp |-> Null, claim |-> Null, started |-> FALSE, clicked |-> FALSE,
     uncertain |-> FALSE, confirmed |-> FALSE, verdict |-> "NONE",
     retry |-> FALSE, archived |-> FALSE, blocked |-> TRUE]

AbsentRow == [PlannedRow EXCEPT !.status = "NONE"]

-----------------------------------------------------------------------------
\* What a row means.

Decided(row) == row.verdict \in {"DELIVERED", "NOT_DELIVERED"}

\* isUnresolvedWhatsAppDelivery: this row blocks its whole channel.
Unresolved(row) == row.uncertain /\ ~row.confirmed /\ ~Decided(row)

\* whatsappWebStoredState; lapsed is the set of authorizations past their expiry.
StoredState(row, lapsed) ==
    IF row.archived \/ row.web = "ARCHIVED" THEN "ARCHIVED"
    ELSE IF row.status = "PUBLISHED" THEN "PUBLISHED"
    ELSE IF row.verdict = "NOT_DELIVERED" /\ ~row.retry THEN "CANCELLED"
    ELSE IF row.status = "CANCELLED" \/ row.web = "CANCELLED" THEN "CANCELLED"
    ELSE IF Unresolved(row) THEN "DELIVERY_UNCERTAIN"
    ELSE IF row.auth = "CLAIMED" THEN "SEND_IN_PROGRESS"
    ELSE IF row.auth = "ACTIVE"
         THEN IF row.authId \in lapsed THEN "AUTHORIZATION_EXPIRED"
                                       ELSE "AUTHORIZED_FOR_SEND"
    ELSE row.web

TerminalStates == {"PUBLISHED", "CANCELLED", "ARCHIVED"}

Terminal(row, lapsed) == StoredState(row, lapsed) \in TerminalStates

\* channelAuthorizationError returns null.
ChannelOpen(ch) == ch.on /\ ~ch.paused

Inspected(row, ch) == row.visual = Fingerprint(ch)
Preflighted(row, ch) == row.pre = Fingerprint(ch)

-----------------------------------------------------------------------------
\* What the commands write.

\* invalidatedOperationalMetadata
Invalidated(row, state) ==
    [row EXCEPT !.web = state, !.pre = Null,
                !.auth = IF row.auth = "NONE" THEN "NONE" ELSE "INVALIDATED"]

VisualConfirmed(row, ch) ==
    [Invalidated(row, "VISUAL_INSPECTION_CONFIRMED")
        EXCEPT !.visual = Fingerprint(ch), !.blocked = TRUE]

VisualRejected(row) ==
    [Invalidated(row, "AWAITING_VISUAL_INSPECTION")
        EXCEPT !.visual = Null, !.blocked = TRUE]

PreflightPassed(row, ch) ==
    [Invalidated(row, "PREFLIGHT_READY")
        EXCEPT !.pre = Fingerprint(ch), !.blocked = TRUE]

PreflightFailed(row) ==
    [Invalidated(row, "PREFLIGHT_REQUIRED") EXCEPT !.blocked = TRUE]

\* Mutant of MayAuthorize: the check for an earlier click marker is missing.
MayAuthorizeMarked(row, ch, lapsed) ==
    /\ ChannelOpen(ch)
    /\ row.status \notin {"PUBLISHED", "CANCELLED"}
    /\ ~row.archived
    /\ Inspected(row, ch)
    /\ Preflighted(row, ch)
    /\ StoredState(row, lapsed) \in {"PREFLIGHT_READY", "AUTHORIZATION_EXPIRED"}

\* The part of validateAuthorizationMetadata that looks at the row and channel.
MayAuthorize(row, ch, lapsed) ==
    /\ ChannelOpen(ch)
    /\ row.status \notin {"PUBLISHED", "CANCELLED"}
    /\ ~row.archived
    /\ ~row.started
    /\ Inspected(row, ch)
    /\ Preflighted(row, ch)
    /\ StoredState(row, lapsed) \in {"PREFLIGHT_READY", "AUTHORIZATION_EXPIRED"}

\* The idempotent reply of authorizeWhatsAppWebSend.
AlreadyAuthorized(row, ch, lapsed) ==
    row.auth = "ACTIVE" /\ row.authFp = Fingerprint(ch) /\ row.authId \notin lapsed

\* Mutant of Authorized: the configuration itself is stored for its fingerprint.
AuthorizedStoringChannel(row, ch, id) ==
    [row EXCEPT !.web = "AUTHORIZED_FOR_SEND", !.auth = "ACTIVE", !.authId = id,
                !.authFp = ch, !.claim = Null, !.blocked = FALSE]

Authorized(row, ch, id) ==
    [row EXCEPT !.web = "AUTHORIZED_FOR_SEND", !.auth = "ACTIVE", !.authId = id,
                !.authFp = Fingerprint(ch), !.claim = Null, !.blocked = FALSE]

MayRevoke(row) == ~row.started /\ row.auth \notin {"CLAIMED", "REVOKED"}

Revoked(row, ch) ==
    [row EXCEPT !.web = IF Preflighted(row, ch) THEN "PREFLIGHT_READY"
                                                ELSE "PREFLIGHT_REQUIRED",
                !.auth = "REVOKED", !.blocked = TRUE]

MayCancel(row, lapsed) ==
    /\ row.status # "PUBLISHED"
    /\ StoredState(row, lapsed) \notin {"CANCELLED", "ARCHIVED"}
    /\ ~Unresolved(row)
    /\ ~row.clicked /\ ~row.started
    /\ row.auth # "CLAIMED"

Cancelled(row) ==
    [row EXCEPT !.status = "CANCELLED", !.web = "CANCELLED",
                !.auth = IF row.auth = "NONE" THEN "NONE" ELSE "REVOKED"]

MayArchive(row, lapsed) ==
    /\ StoredState(row, lapsed) \in TerminalStates \ {"ARCHIVED"}
    /\ ~Unresolved(row)

Archived(row) == [row EXCEPT !.web = "ARCHIVED", !.archived = TRUE]

\* The row and channel gates of claimWhatsAppWebSendAuthorization.
MayClaim(row, ch, lapsed) ==
    /\ row.auth = "ACTIVE"
    /\ row.authId # 0 /\ row.authId \notin lapsed
    /\ Preflighted(row, ch)
    /\ row.authFp = Fingerprint(ch)

ClaimedBy(row, c) ==
    [row EXCEPT !.web = "SEND_IN_PROGRESS", !.auth = "CLAIMED", !.claim = c]

MayRecord(row, c) == row.claim = c /\ row.auth \in {"CLAIMED", "CONSUMED"}

\* Mutant of Recorded: uncertain only when the caller says so.
RecordedAsReported(row, marker, clicked, unsure) ==
    LET started == marker \/ row.started
    IN  [row EXCEPT !.status = IF unsure THEN "PUBLICATION_FAILED" ELSE @,
                    !.err = IF unsure THEN TRUE ELSE @,
                    !.clicked = clicked, !.started = started,
                    !.auth = IF started THEN "CONSUMED" ELSE @,
                    !.uncertain = unsure, !.retry = FALSE]

\* recordWhatsAppWebDispatchSendState; marker: the update carries
\* sendClickStartedAt, clicked: sendWasClicked, unsure: deliveryUncertain.
Recorded(row, marker, clicked, unsure) ==
    LET started   == marker \/ row.started
        uncertain == unsure \/ (started /\ ~row.confirmed)
    IN  [row EXCEPT !.status = IF uncertain THEN "PUBLICATION_FAILED" ELSE @,
                    !.err = IF uncertain THEN TRUE ELSE @,
                    !.clicked = clicked,
                    !.started = started,
                    !.auth = IF started THEN "CONSUMED" ELSE @,
                    !.uncertain = uncertain,
                    !.retry = FALSE]

Outcomes == {"PUBLISHED", "DELIVERY_UNCERTAIN", "FAILED_BEFORE_CLICK"}

\* finalizeWhatsAppWebDispatch asks for the claim and for a marker that agrees
\* with the outcome; it does not look at the authorization status.
MayFinalize(row, c, outcome) ==
    /\ row.claim = c
    /\ row.started <=> outcome # "FAILED_BEFORE_CLICK"

\* What finalize writes for each outcome.
Delivered(row) ==
    [row EXCEPT !.status = "PUBLISHED", !.err = FALSE, !.web = "PUBLISHED",
                !.auth = "CONSUMED", !.uncertain = FALSE, !.confirmed = TRUE,
                !.retry = FALSE, !.blocked = FALSE]

LeftUncertain(row) ==
    [row EXCEPT !.status = "PUBLICATION_FAILED", !.err = TRUE,
                !.web = "DELIVERY_UNCERTAIN", !.auth = "CONSUMED",
                !.uncertain = TRUE, !.confirmed = FALSE,
                !.retry = FALSE, !.blocked = TRUE]

FailedSafe(row) ==
    [row EXCEPT !.status = "SCHEDULED", !.err = FALSE, !.web = "PREFLIGHT_REQUIRED",
                !.auth = "FAILED_SAFE", !.pre = Null, !.uncertain = FALSE,
                !.confirmed = FALSE, !.retry = FALSE, !.blocked = TRUE]

Finalized(row, outcome) ==
    CASE outcome = "PUBLISHED"           -> Delivered(row)
      [] outcome = "DELIVERY_UNCERTAIN"  -> LeftUncertain(row)
      [] outcome = "FAILED_BEFORE_CLICK" -> FailedSafe(row)

MayRelease(row) == ~row.started /\ ~row.clicked /\ row.auth = "CLAIMED"

\* Mutant of Released: the authorization becomes usable again.
ReleasedForReuse(row) ==
    [row EXCEPT !.status = "SCHEDULED", !.err = FALSE, !.web = "AUTHORIZED_FOR_SEND",
                !.auth = "ACTIVE"]

Released(row) ==
    [row EXCEPT !.status = "SCHEDULED", !.err = FALSE, !.web = "REAUTHORIZE_REQUIRED",
                !.auth = "FAILED_SAFE", !.pre = Null, !.blocked = TRUE]

MayResolve(row) == row.uncertain /\ row.err

\* Mutant of Resolved: "not delivered" makes the row schedulable at once.
ResolvedForRetry(row, verdict) ==
    [row EXCEPT !.status = CASE verdict = "DELIVERED" -> "PUBLISHED"
                             [] verdict = "NOT_DELIVERED" -> "SCHEDULED"
                             [] verdict = "KEPT_UNCERTAIN" -> "PUBLICATION_FAILED",
                !.verdict = verdict,
                !.confirmed = verdict = "DELIVERED",
                !.uncertain = verdict = "KEPT_UNCERTAIN",
                !.retry = FALSE]

\* resolveWhatsAppWebDelivery with buildWhatsAppManualDeliveryResolution
Resolved(row, verdict) ==
    [row EXCEPT !.status = IF verdict = "DELIVERED" THEN "PUBLISHED"
                                                    ELSE "PUBLICATION_FAILED",
                !.verdict = verdict,
                !.confirmed = verdict = "DELIVERED",
                !.uncertain = verdict = "KEPT_UNCERTAIN",
                !.retry = FALSE]

MayRetry(row) == row.verdict = "NOT_DELIVERED" /\ ~row.uncertain /\ ~row.retry

\* Mutant of RetryAuthorized: the retry starts from a clean row.
RetryAuthorizedClean(row) ==
    [row EXCEPT !.status = "SCHEDULED", !.web = "PREFLIGHT_REQUIRED",
                !.pre = Null, !.retry = TRUE, !.started = FALSE, !.clicked = FALSE]

RetryAuthorized(row) ==
    [row EXCEPT !.status = "SCHEDULED", !.web = "PREFLIGHT_REQUIRED",
                !.pre = Null, !.retry = TRUE]

\* The worker's repair of a scheduled row that lacks planning metadata.
NeedsRepair(row) == row.status = "SCHEDULED" /\ ~row.blocked

Repaired(row) == [row EXCEPT !.clicked = FALSE, !.blocked = TRUE]

\* The gates the dispatcher applies to the context it loaded, before any lock:
\* validateRealSendEligibility and assertPersistedDispatchGates.
Dispatchable(row, ch, lapsed) ==
    /\ ChannelOpen(ch)
    /\ ch.dry = ch.group
    /\ row.status # "PUBLISHED"
    /\ (row.uncertain \/ row.started \/ row.status = "PUBLICATION_FAILED") => row.retry
    /\ row.visual # Null /\ row.visual.group = ch.group
    /\ row.web = "AUTHORIZED_FOR_SEND"
    /\ MayClaim(row, ch, lapsed)
=============================================================================
