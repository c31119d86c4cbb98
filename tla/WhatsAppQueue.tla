---------------------------- MODULE WhatsAppQueue ----------------------------
(***************************************************************************)
(* The operational queue of one WhatsApp Web channel: the Publication rows *)
(* of the channel, the channel row, and every command that writes them.    *)
(* Each command is one PostgreSQL transaction (READ COMMITTED).            *)
(*                                                                         *)
(* claim, record, finalize and release lock the channel and the publication*)
(* before they read, so they act on the current rows.  The other commands  *)
(* of whatsapp-operational-queue.ts read the publication (with its channel)*)
(* FIRST and lock the channel after, then write `{...metadata, patch}`: the*)
(* row they act on is the one they read.  The delivery resolution, the     *)
(* retry authorization, the CLI dry run, the worker's metadata repair and  *)
(* the dashboard's channel forms take no lock at all.                      *)
(* The rows such a command may act on are Reads(p): the current ones and   *)
(* those in `stale`, read earlier by a command still under way.            *)
(*                                                                         *)
(* Here the callers are arbitrary: any claim holder may call record and    *)
(* finalize with any arguments.  WhatsAppDispatch puts the real dispatcher *)
(* in their place.                                                         *)
(***************************************************************************)
EXTENDS WhatsAppRows, FiniteSets

CONSTANTS
    Publications,   \* publications of the channel, numbered by plannedAt
    AutoPause,      \* WHATSAPP_WEB_AUTO_PAUSE_AFTER_FIRST_SUCCESS
    Commands,       \* the commands issued by operator, worker and dashboard
    MaxAuth,        \* bound: authorizations granted
    MaxEdits,       \* bound: channel edits by the dashboard
    MaxReads        \* bound: overlapping reads (0: no command acts on a stale row)

AllCommands ==
    {"plan", "confirm", "reject", "preflight", "preflightFailed", "authorize",
     "expire", "revoke", "cancel", "archive", "release", "delivered",
     "notDelivered", "keepUncertain", "retry", "expireStale", "repair",
     "dryRun", "switch", "pause", "regroup"}

ASSUME BoundsAssumption ==
    /\ Commands \subseteq AllCommands
    /\ Publications \subseteq Nat
    /\ AutoPause \in BOOLEAN
    /\ MaxAuth \in Nat /\ MaxEdits \in Nat /\ MaxReads \in Nat

VARIABLES
    channel,    \* the Channel row
    pub,        \* the Publication rows
    granted,    \* how many authorization ids have been issued
    lapsed,     \* authorization ids whose expiry has passed
    issued,     \* claim ids already issued
    edits,      \* channel edits made so far (bounds the runs)
    stale       \* rows read by commands that have not written yet

queueVars == <<channel, pub, granted, lapsed, issued, edits, stale>>

AuthIds == 1 .. granted

ReadRecords == [p: Publications, row: Rows, ch: Channels]

QueueTypeOK ==
    /\ channel \in Channels
    /\ pub \in [Publications -> Rows]
    /\ granted \in 0 .. MaxAuth
    /\ lapsed \subseteq AuthIds
    /\ issued \subseteq Claims
    /\ edits \in 0 .. MaxEdits
    /\ stale \subseteq ReadRecords

QueueInit ==
    /\ channel \in [on: {TRUE}, paused: {FALSE}, group: Groups, dry: {Null}]
    /\ pub = [p \in Publications |-> AbsentRow]
    /\ granted = 0
    /\ lapsed = {}
    /\ issued = {}
    /\ edits = 0
    /\ stale = {}

-----------------------------------------------------------------------------
\* The queue of the channel (buildWhatsAppWebQueueStatus).

Planned(p) == pub[p].status # "NONE"

UnresolvedSet == {q \in Publications : Planned(q) /\ Unresolved(pub[q])}

NonTerminalSet == {q \in Publications : Planned(q) /\ ~Terminal(pub[q], lapsed)}

Candidates == IF UnresolvedSet # {} THEN UnresolvedSet ELSE NonTerminalSet

\* p is the active publication: the first in queue order.
Active(p) == p \in Candidates /\ \A q \in Candidates : p <= q

\* The rows a command that reads before it locks may be acting on.
Reads(p) == {[p |-> p, row |-> pub[p], ch |-> channel]} \cup {r \in stale : r.p = p}

\* The channel configurations a dashboard form may be acting on.
ChannelReads == {channel} \cup {r.ch : r \in stale}

\* Write only the metadata column: status and errorMessage keep their value.
MetadataOver(current, row) ==
    [row EXCEPT !.status = current.status, !.err = current.err]

Store(p, row) == pub' = [pub EXCEPT ![p] = row]

StoreMetadata(p, row) == Store(p, MetadataOver(pub[p], row))

\* Write the status and the metadata; errorMessage keeps its value.
StoreKeepingError(p, row) == Store(p, [row EXCEPT !.err = pub[p].err])

\* The command that made read r ends with this step.
Finish(r) == stale' = stale \ {r}

-----------------------------------------------------------------------------
\* The worker plans the next publication when the channel has no active one.
Plan(p) ==
    /\ ~Planned(p)
    /\ \A q \in Publications : q < p => Planned(q)
    /\ Candidates = {}
    /\ Store(p, PlannedRow)
    /\ UNCHANGED <<channel, granted, lapsed, issued, edits, stale>>

\* A command reads the publication and its channel and has not written yet.
BeginRead(p) ==
    /\ Planned(p)
    /\ Cardinality(stale) < MaxReads
    /\ stale' = stale \cup {[p |-> p, row |-> pub[p], ch |-> channel]}
    /\ UNCHANGED <<channel, pub, granted, lapsed, issued, edits>>

\* recordWhatsAppWebVisualInspection
RecordVisualInspection(p, confirmed) ==
    /\ Planned(p) /\ Active(p)
    /\ \E r \in Reads(p) :
        /\ StoreMetadata(p, IF confirmed THEN VisualConfirmed(r.row, r.ch)
                                         ELSE VisualRejected(r.row))
        /\ Finish(r)
    /\ UNCHANGED <<channel, granted, lapsed, issued, edits>>

\* recordWhatsAppWebPreflight
RecordPreflight(p, ready) ==
    /\ Planned(p) /\ Active(p)
    /\ \E r \in Reads(p) :
        /\ Inspected(r.row, r.ch)
        /\ StoreMetadata(p, IF ready THEN PreflightPassed(r.row, r.ch)
                                     ELSE PreflightFailed(r.row))
        /\ Finish(r)
    /\ UNCHANGED <<channel, granted, lapsed, issued, edits>>

\* authorizeWhatsAppWebSend; when already authorized it writes nothing.
AuthorizeSend(p) ==
    /\ granted < MaxAuth
    /\ UnresolvedSet = {}
    /\ Planned(p) /\ Active(p)
    /\ \E r \in Reads(p) :
        /\ ~AlreadyAuthorized(r.row, r.ch, lapsed)
        /\ MayAuthorize(r.row, r.ch, lapsed)
        /\ StoreMetadata(p, Authorized(r.row, r.ch, granted + 1))
        /\ Finish(r)
    /\ granted' = granted + 1
    /\ UNCHANGED <<channel, lapsed, issued, edits>>

\* sendAuthorizationExpiresAt of an authorization passes.
ExpireAuthorization(id) ==
    /\ id \in AuthIds \ lapsed
    /\ lapsed' = lapsed \cup {id}
    /\ UNCHANGED <<channel, pub, granted, issued, edits, stale>>

\* revokeWhatsAppWebSendAuthorization; does not ask for the active publication.
RevokeAuthorization(p) ==
    /\ Planned(p)
    /\ \E r \in Reads(p) :
        /\ MayRevoke(r.row)
        /\ StoreMetadata(p, Revoked(r.row, r.ch))
        /\ Finish(r)
    /\ UNCHANGED <<channel, granted, lapsed, issued, edits>>

\* cancelWhatsAppWebPublication; writes the status but not the error message.
CancelPublication(p) ==
    /\ Planned(p)
    /\ \E r \in Reads(p) :
        /\ MayCancel(r.row, lapsed)
        /\ StoreKeepingError(p, Cancelled(r.row))
        /\ Finish(r)
    /\ UNCHANGED <<channel, granted, lapsed, issued, edits>>

\* archiveWhatsAppWebPublication
ArchivePublication(p) ==
    /\ Planned(p)
    /\ \E r \in Reads(p) :
        /\ MayArchive(r.row, lapsed)
        /\ StoreMetadata(p, Archived(r.row))
        /\ Finish(r)
    /\ UNCHANGED <<channel, granted, lapsed, issued, edits>>

\* The gates of claimWhatsAppWebSendAuthorization, read under both row locks.
ClaimAllowed(p) ==
    /\ Planned(p) /\ Active(p)
    /\ UnresolvedSet = {}
    /\ MayClaim(pub[p], channel, lapsed)

\* claimWhatsAppWebSendAuthorization, granting the new claim id c.
Claim(p, c) ==
    /\ c \notin issued
    /\ ClaimAllowed(p)
    /\ Store(p, ClaimedBy(pub[p], c))
    /\ issued' = issued \cup {c}
    /\ UNCHANGED <<channel, granted, lapsed, edits, stale>>

\* recordWhatsAppWebDispatchSendState
RecordSendState(p, c, marker, clicked, unsure) ==
    /\ Planned(p)
    /\ MayRecord(pub[p], c)
    /\ Store(p, Recorded(pub[p], marker, clicked, unsure))
    /\ UNCHANGED <<channel, granted, lapsed, issued, edits, stale>>

\* The channel pauses itself after a confirmed delivery: the configuration ch,
\* read by the same command, is written back paused.
PausedAfterSuccess(ch) == IF AutoPause THEN [ch EXCEPT !.paused = TRUE] ELSE channel

\* finalizeWhatsAppWebDispatch
FinalizeDispatch(p, c, outcome) ==
    /\ Planned(p)
    /\ MayFinalize(pub[p], c, outcome)
    /\ Store(p, Finalized(pub[p], outcome))
    /\ channel' = IF outcome = "PUBLISHED" THEN PausedAfterSuccess(channel) ELSE channel
    /\ UNCHANGED <<granted, lapsed, issued, edits, stale>>

\* releaseWhatsAppWebDispatchClaim
ReleaseClaim(p) ==
    /\ Planned(p)
    /\ MayRelease(pub[p])
    /\ Store(p, Released(pub[p]))
    /\ UNCHANGED <<channel, granted, lapsed, issued, edits, stale>>

\* resolveWhatsAppWebDelivery: the operator's verdict on an uncertain delivery,
\* without any lock.
ResolveDelivery(p, verdict) ==
    /\ Planned(p)
    /\ \E r \in Reads(p) :
        /\ MayResolve(r.row)
        /\ StoreKeepingError(p, Resolved(r.row, verdict))
        /\ channel' = IF verdict = "DELIVERED" THEN PausedAfterSuccess(r.ch) ELSE channel
        /\ Finish(r)
    /\ UNCHANGED <<granted, lapsed, issued, edits>>

\* authorizeWhatsAppWebRetry, without any lock.
AuthorizeRetry(p) ==
    /\ Planned(p)
    /\ \E r \in Reads(p) :
        /\ MayRetry(r.row)
        /\ StoreKeepingError(p, RetryAuthorized(r.row))
        /\ Finish(r)
    /\ UNCHANGED <<channel, granted, lapsed, issued, edits>>

\* expireStaleShopeeOffers: cancels scheduled publications of a stale offer
\* without the queue's lock and without looking at their metadata.
ExpireStaleOffer(p) ==
    /\ pub[p].status = "SCHEDULED"
    /\ Store(p, [pub[p] EXCEPT !.status = "CANCELLED", !.err = FALSE])
    /\ UNCHANGED <<channel, granted, lapsed, issued, edits, stale>>

\* The worker's repair of planning metadata in publishScheduledOffers.
RepairPlanning(p) ==
    /\ Planned(p)
    /\ \E r \in Reads(p) :
        /\ NeedsRepair(r.row)
        /\ StoreMetadata(p, Repaired(r.row))
        /\ Finish(r)
    /\ UNCHANGED <<channel, granted, lapsed, issued, edits>>

\* The CLI dry run: a long browser run between the read and the write, which
\* puts the metadata it read back, whatever the result.
DryRun(p, ready) ==
    /\ Planned(p)
    /\ \E r \in Reads(p) :
        /\ StoreMetadata(p, r.row)
        /\ ready => ChannelOpen(r.ch)
        /\ channel' = IF ready THEN [channel EXCEPT !.dry = r.ch.group] ELSE channel
        /\ Finish(r)
    /\ UNCHANGED <<granted, lapsed, issued, edits>>

\* The dashboard's channel forms write the whole configuration they read, with
\* one setting changed; a new group forgets the successful dry run.
EditChannel(setting) ==
    /\ edits < MaxEdits
    /\ \E c \in ChannelReads :
        \/ setting = "switch" /\ \E b \in BOOLEAN : channel' = [c EXCEPT !.on = b]
        \/ setting = "pause" /\ \E b \in BOOLEAN : channel' = [c EXCEPT !.paused = b]
        \/ /\ setting = "regroup"
           /\ \E g \in Groups \ {c.group} : channel' = [c EXCEPT !.group = g, !.dry = Null]
    /\ edits' = edits + 1
    /\ UNCHANGED <<pub, granted, lapsed, issued, stale>>

\* The effect of each command on publication p.
Command(name, p) ==
    \/ name = "plan"            /\ Plan(p)
    \/ name = "confirm"         /\ RecordVisualInspection(p, TRUE)
    \/ name = "reject"          /\ RecordVisualInspection(p, FALSE)
    \/ name = "preflight"       /\ RecordPreflight(p, TRUE)
    \/ name = "preflightFailed" /\ RecordPreflight(p, FALSE)
    \/ name = "authorize"       /\ AuthorizeSend(p)
    \/ name = "revoke"          /\ RevokeAuthorization(p)
    \/ name = "cancel"          /\ CancelPublication(p)
    \/ name = "archive"         /\ ArchivePublication(p)
    \/ name = "release"         /\ ReleaseClaim(p)
    \/ name = "delivered"       /\ ResolveDelivery(p, "DELIVERED")
    \/ name = "notDelivered"    /\ ResolveDelivery(p, "NOT_DELIVERED")
    \/ name = "keepUncertain"   /\ ResolveDelivery(p, "KEPT_UNCERTAIN")
    \/ name = "retry"           /\ AuthorizeRetry(p)
    \/ name = "expireStale"     /\ ExpireStaleOffer(p)
    \/ name = "repair"          /\ RepairPlanning(p)
    \/ name = "dryRun"          /\ \E ready \in BOOLEAN : DryRun(p, ready)

\* The operator, the worker and the dashboard.
OperatorNext ==
    \/ \E name \in Commands : \/ \E p \in Publications : Command(name, p)
                              \/ EditChannel(name)
    \/ \E p \in Publications : BeginRead(p)
    \/ "expire" \in Commands /\ \E id \in AuthIds : ExpireAuthorization(id)

\* Any holder of a claim, calling with any arguments.
CallerNext ==
    \E p \in Publications, c \in Claims :
        \/ Claim(p, c)
        \/ c \in issued /\ \E marker, clicked, unsure \in BOOLEAN :
                RecordSendState(p, c, marker, clicked, unsure)
        \/ c \in issued /\ \E outcome \in Outcomes : FinalizeDispatch(p, c, outcome)

QueueNext == OperatorNext \/ CallerNext

QueueSpec == QueueInit /\ [][QueueNext]_queueVars

-----------------------------------------------------------------------------
\* Properties of the queue, whoever calls it.

\* A row that carries a click marker holds no authorization that can be claimed
\* or released: README "Claims with a click marker can never be released".
MarkedIsSpent ==
    \A p \in Publications : pub[p].started => pub[p].auth \notin {"ACTIVE", "CLAIMED"}

\* A click marker is never forgotten: until delivery is confirmed or the operator
\* has decided, the row is unresolved and so blocks its channel.
MarkedIsAccountedFor ==
    \A p \in Publications :
        pub[p].started => Unresolved(pub[p]) \/ pub[p].confirmed \/ Decided(pub[p])

\* An authorization that becomes active is a new one: none is active again after
\* it was claimed, consumed, revoked or invalidated.
AuthorizationsAreSingleUse ==
    [][\A p \in Publications :
        pub'[p].auth = "ACTIVE" /\ pub[p].auth # "ACTIVE" => pub'[p].authId > granted]_queueVars

\* An authorization is claimed only while the channel is enabled and not paused.
\* The claim does not look at these switches: it compares fingerprints.
ClaimsOnlyWhileOpen == [][issued' # issued => ChannelOpen(channel)]_queueVars

\* Once the click marker is set neither it nor the claim it was set under goes.
MarkerIsPermanent ==
    [][\A p \in Publications :
        pub[p].started => pub'[p].started /\ pub'[p].claim = pub[p].claim]_queueVars
=============================================================================
