------------------------------ MODULE WorkerLease ------------------------------
(***************************************************************************)
(* Who may run what: the continuous worker's leadership and its component  *)
(* locks, both keys in Redis with an owner's token and a time to live.     *)
(*                                                                         *)
(* A worker takes the leader key, then loops over its components; each run *)
(* of a component takes the component's key.  The leader key is renewed,   *)
(* the component keys never are.  A worker that finds its leadership lost  *)
(* aborts the loop, but a component already running is not interrupted.    *)
(*                                                                         *)
(* Time is the freedom of a key to lapse at any moment.  Every acquisition *)
(* draws a new token, so a key whose owner has forgotten the token (a crash,*)
(* a lost reply) belongs to Gone until it lapses.                          *)
(***************************************************************************)
EXTENDS Naturals

CONSTANTS
    Workers,        \* worker processes
    Components,     \* the components of the loop
    Null,           \* no owner, no component
    Gone,           \* owner of a key whose token no process knows
    RequireRedis,   \* WORKER_REQUIRE_REDIS, read for the component locks
    Lapsing,        \* keys that may lapse while their owner is alive
    MaxFaults       \* bound: crashes, lost replies, Redis outages

Keys == {"leader"} \cup Components

ASSUME OwnersAssumption ==
    /\ Null \notin Workers \cup Components \cup {Gone}
    /\ Gone \notin Workers

ASSUME LeaseAssumption ==
    /\ "leader" \notin Components
    /\ RequireRedis \in BOOLEAN
    /\ Lapsing \subseteq Keys
    /\ MaxFaults \in Nat

VARIABLES
    redis,      \* the owner of each key
    worker,     \* control state of each process
    lapsed,     \* keys that have lapsed while their owner was alive
    faults      \* faults so far

leaseVars == <<redis, worker, lapsed, faults>>

\* leads: inside runWithWorkerLeadership; runs: the component it awaits;
\* aborted: the signal of its abort controller.
Process == [leads: BOOLEAN, runs: Components \cup {Null}, aborted: BOOLEAN]

Off == [leads |-> FALSE, runs |-> Null, aborted |-> FALSE]

LeaseTypeOK ==
    /\ redis \in [Keys -> Workers \cup {Null, Gone}]
    /\ worker \in [Workers -> Process]
    /\ lapsed \subseteq Lapsing
    /\ faults \in 0 .. MaxFaults

LeaseInit ==
    /\ redis = [k \in Keys |-> Null]
    /\ worker = [w \in Workers |-> Off]
    /\ lapsed = {}
    /\ faults = 0

Fault ==
    /\ faults < MaxFaults
    /\ faults' = faults + 1

\* Mutant of Acquire: SET without NX.
AcquireAnyway(w, k) == redis' = [redis EXCEPT ![k] = w]

\* SET NX, and compare-and-delete: only the owner's token frees the key.  A
\* release that does not get through leaves the key to its time to live.
Acquire(w, k) ==
    /\ redis[k] = Null
    /\ redis' = [redis EXCEPT ![k] = w]

Surrender(w, k, to) ==
    redis' = IF redis[k] = w THEN [redis EXCEPT ![k] = to] ELSE redis

Release(w, k) ==
    \/ Surrender(w, k, Null) /\ UNCHANGED faults
    \/ Surrender(w, k, Gone) /\ Fault

\* The SET is done and its reply lost: unavailableLock forgets the token.
LoseReply(k) ==
    /\ redis[k] = Null
    /\ redis' = [redis EXCEPT ![k] = Gone]
    /\ Fault

-----------------------------------------------------------------------------
\* Leadership.

Lead(w) ==
    /\ ~worker[w].leads
    /\ Acquire(w, "leader")
    /\ worker' = [worker EXCEPT ![w] = [Off EXCEPT !.leads = TRUE]]
    /\ UNCHANGED <<lapsed, faults>>

\* Leadership requires Redis: without a reply the worker does not lead.
LeadUnanswered(w) ==
    /\ ~worker[w].leads
    /\ LoseReply("leader")
    /\ UNCHANGED <<worker, lapsed>>

\* A stop signal, or a renewal that finds another token under the key.  A
\* renewal that succeeds only prolongs the lease.
Abort(w) ==
    /\ worker[w].leads
    /\ ~worker[w].aborted
    /\ worker' = [worker EXCEPT ![w].aborted = TRUE]
    /\ UNCHANGED <<redis, lapsed, faults>>

\* The loop has ended; leadership is released.
Quit(w) ==
    /\ worker[w].leads
    /\ worker[w].aborted
    /\ worker[w].runs = Null
    /\ Release(w, "leader")
    /\ worker' = [worker EXCEPT ![w] = Off]
    /\ UNCHANGED lapsed

-----------------------------------------------------------------------------
\* Components.

MayRun(w) == worker[w].leads /\ ~worker[w].aborted /\ worker[w].runs = Null

Run(w, c) ==
    /\ MayRun(w)
    /\ worker' = [worker EXCEPT ![w].runs = c]

\* Mutant of Start: the component trusts in the leadership alone.
StartWithoutLock(w, c) == Run(w, c) /\ UNCHANGED <<redis, lapsed, faults>>

Start(w, c) ==
    /\ Run(w, c)
    /\ Acquire(w, c)
    /\ UNCHANGED <<lapsed, faults>>

\* Without a reply the component FAILs where Redis is required.  In permissive
\* mode it runs without its lock, also when Redis was not reached at all.
StartUnanswered(w, c) ==
    /\ RequireRedis
    /\ MayRun(w)
    /\ LoseReply(c)
    /\ UNCHANGED <<worker, lapsed>>

StartUnlocked(w, c) ==
    /\ ~RequireRedis
    /\ Run(w, c)
    /\ \/ LoseReply(c)
       \/ Fault /\ UNCHANGED redis
    /\ UNCHANGED lapsed

Finish(w) ==
    /\ worker[w].runs # Null
    /\ Release(w, worker[w].runs)
    /\ worker' = [worker EXCEPT ![w].runs = Null]
    /\ UNCHANGED lapsed

-----------------------------------------------------------------------------
\* Time and failures.

\* Mutant of Lapse: SET without PX, so that a forgotten key stays.
LapseUnlessGone(k) ==
    /\ redis[k] \in Workers /\ k \in Lapsing
    /\ redis' = [redis EXCEPT ![k] = Null]
    /\ lapsed' = lapsed \cup {k}
    /\ UNCHANGED <<worker, faults>>

\* The key's time to live is over; its owner, if it is alive, is not told.
Lapse(k) ==
    /\ redis[k] # Null
    /\ redis[k] \in Workers => k \in Lapsing
    /\ redis' = [redis EXCEPT ![k] = Null]
    /\ lapsed' = IF redis[k] \in Workers THEN lapsed \cup {k} ELSE lapsed
    /\ UNCHANGED <<worker, faults>>

Crash(w) ==
    /\ worker[w].leads
    /\ Fault
    /\ redis' = [k \in Keys |-> IF redis[k] = w THEN Gone ELSE redis[k]]
    /\ worker' = [worker EXCEPT ![w] = Off]
    /\ UNCHANGED lapsed

\* A failure of the work itself (a lost answer, a failed write).
FaultElsewhere == Fault /\ UNCHANGED <<redis, worker, lapsed>>

LeaseNext ==
    \/ FaultElsewhere
    \/ \E k \in Keys : Lapse(k)
    \/ \E w \in Workers :
        \/ Lead(w) \/ LeadUnanswered(w) \/ Abort(w) \/ Quit(w)
        \/ Finish(w) \/ Crash(w)
        \/ \E c \in Components :
            Start(w, c) \/ StartUnanswered(w, c) \/ StartUnlocked(w, c)

LeaseSpec == LeaseInit /\ [][LeaseNext]_leaseVars

-----------------------------------------------------------------------------
\* Two workers run one component at a time only if both protections failed:
\* some live leader outlived its lease, and so did some run its component
\* lock (or Redis is not required).  One late renewal, one slow component or
\* any number of crashes are not enough (docs/windows-production-operations.md,
\* "Worker leadership and heartbeat"; docs/operations.md, "Redis coordination").
OverlapNeedsTwoLapses ==
    \A v, w \in Workers :
        (v # w /\ worker[v].runs # Null /\ worker[v].runs = worker[w].runs)
            => /\ "leader" \in lapsed
               /\ worker[v].runs \in lapsed \/ ~RequireRedis

=============================================================================
