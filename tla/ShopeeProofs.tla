------------------------------ MODULE ShopeeProofs ------------------------------
(***************************************************************************)
(* Proofs about ShopeeSchedule, for any workers, manual commands, TTLs and *)
(* intervals, and about ShopeeDistribution, for any offers, channels, time *)
(* zones, forms and limits.                                                *)
(*                                                                         *)
(* Schedule: what a step makes of the process it is about gives types      *)
(* (part 1).  A process whose lock has not reached its TTL is the only one *)
(* (part 2), so that nobody else touches its run (part 3) or imports what  *)
(* it imports (part 4).                                                    *)
(*                                                                         *)
(* Distribution: what others may do to a row in hand (part 5) leaves the   *)
(* numbers of the worker's cycle ahead of what it distributes (part 6), so *)
(* that a pair its policy allows keeps both limits.                        *)
(***************************************************************************)
EXTENDS ShopeeSchedule, ShopeeDistribution, SequenceTheorems, FiniteSetTheorems, TLAPS

-----------------------------------------------------------------------------
\* Part 1: types.

TickSteps == {"idle", "lock", "recheck", "recover", "start", "discover", "import", "job",
              "persist", "finish", "catch", "release", "over"}
RunStates == {"RUNNING", "ABANDONED"} \cup Outcomes

TickRow == [pc : TickSteps, now : Nat, stale : Nat \cup {NoTick},
            recovered : Nat \cup {NoTick}, run : Nat \cup {NoTick}, until : Nat,
            checksum : Checksums \cup {NoTick}, import : Nat \cup {NoTick},
            outcome : Outcomes]
RunRow == [startedAt : Nat, key : Nat \X (Nat \cup {NoTick}), status : RunStates,
           owner : Schedulers]
ImportRow == [checksum : Checksums, status : {"RUNNING", "SUCCEEDED"}, late : BOOLEAN]
LockRow == [owner : Discoverers \cup {NoTick}, until : Nat]

\* The type invariant with its sets named.
LEMMA ShopTypesNamed ==
  ShopTypeOK <=>
    /\ DOMAIN tick \in Crews
    /\ tick \in [Discoverers -> TickRow]
    /\ discoveryRuns \in Seq(RunRow)
    /\ discoveryImports \in Seq(ImportRow)
    /\ discoveryLock \in LockRow
    /\ shopTime \in Nat /\ shopFaults \in Nat
BY DEF ShopTypeOK, TickRow, RunRow, ImportRow, LockRow, TickSteps, RunStates

\* A process is a worker or runs the manual command.
LEMMA OneKind ==
    ASSUME ShopTypeOK, NEW p \in Discoverers
    PROVE  /\ p \in Schedulers \/ p \in Operators
           /\ ~ (p \in Schedulers /\ p \in Operators)
           /\ p # NoTick
<1>1. DOMAIN tick \in SUBSET (Schedulers \cup Operators)
  BY ShopTypesNamed, ShopAssumption
<1> QED
  BY <1>1, ShopAssumption DEF Discoverers

\* The lists of runs and of imports.
LEMMA ShopLists ==
    ASSUME ShopTypeOK
    PROVE  /\ Len(discoveryRuns) \in Nat /\ DOMAIN discoveryRuns = 1 .. Len(discoveryRuns)
           /\ \A r \in DOMAIN discoveryRuns : discoveryRuns[r] \in RunRow
           /\ Len(discoveryImports) \in Nat
           /\ DOMAIN discoveryImports = 1 .. Len(discoveryImports)
           /\ \A i \in DOMAIN discoveryImports : discoveryImports[i] \in ImportRow
<1>1. discoveryRuns \in Seq(RunRow) /\ discoveryImports \in Seq(ImportRow)
  BY ShopTypesNamed
<1> QED
  BY <1>1, LenProperties, ElementOfSeq

\* A list with one more element, and with one changed.
LEMMA Appended ==
    ASSUME NEW S, NEW s \in Seq(S), NEW e \in S
    PROVE  /\ Append(s, e) \in Seq(S) /\ Len(Append(s, e)) = Len(s) + 1
           /\ DOMAIN Append(s, e) = 1 .. Len(s) + 1 /\ Len(s) + 1 \notin DOMAIN s
           /\ DOMAIN s \subseteq DOMAIN Append(s, e)
           /\ Append(s, e)[Len(s) + 1] = e
           /\ \A i \in DOMAIN s : Append(s, e)[i] = s[i]
<1>1. Len(s) \in Nat /\ DOMAIN s = 1 .. Len(s)
  BY LenProperties
<1>2. Append(s, e) \in Seq(S) /\ Len(Append(s, e)) = Len(s) + 1
  OBVIOUS
<1>3. DOMAIN Append(s, e) = 1 .. Len(s) + 1
  BY <1>2, LenProperties
<1>4. Append(s, e)[Len(s) + 1] = e /\ \A i \in 1 .. Len(s) : Append(s, e)[i] = s[i]
  BY <1>1
<1> QED
  BY <1>1, <1>2, <1>3, <1>4

LEMMA Changed ==
    ASSUME NEW S, NEW s \in Seq(S), NEW i \in DOMAIN s, NEW e \in S
    PROVE  /\ [s EXCEPT ![i] = e] \in Seq(S)
           /\ DOMAIN [s EXCEPT ![i] = e] = DOMAIN s
           /\ [s EXCEPT ![i] = e][i] = e
           /\ \A j \in DOMAIN s : j # i => [s EXCEPT ![i] = e][j] = s[j]
<1>1. i \in 1 .. Len(s) /\ DOMAIN s = 1 .. Len(s)
  BY LenProperties
<1>2. [s EXCEPT ![i] = e] \in Seq(S)
  BY <1>1, ExceptSeq
<1> QED
  BY <1>2

-----------------------------------------------------------------------------
\* What a step makes of its process.

BecomesTick(p, row) ==
  /\ row \in TickRow
  /\ tick' = [tick EXCEPT ![p] = row]

LEMMA TickBecomes ==
    ASSUME ShopTypeOK, NEW p \in Discoverers, NEW row, BecomesTick(p, row)
    PROVE  /\ DOMAIN tick' = DOMAIN tick
           /\ tick' \in [DOMAIN tick' -> TickRow]
           /\ tick'[p] = row
           /\ \A q \in Discoverers : q # p => tick'[q] = tick[q]
BY ShopTypesNamed DEF BecomesTick, Discoverers

LEMMA TickFields ==
    ASSUME NEW row \in TickRow
    PROVE  /\ row.pc \in TickSteps /\ row.now \in Nat /\ row.stale \in Nat \cup {NoTick}
           /\ row.recovered \in Nat \cup {NoTick} /\ row.run \in Nat \cup {NoTick}
           /\ row.until \in Nat /\ row.checksum \in Checksums \cup {NoTick}
           /\ row.import \in Nat \cup {NoTick} /\ row.outcome \in Outcomes
BY DEF TickRow

\* A process at rest, or at the beginning of a tick.
LEMMA Resting ==
  /\ NotTicking \in TickRow
  /\ \A pc \in TickSteps : [NotTicking EXCEPT !.pc = pc] \in TickRow
  /\ \A p : Ended(p) \in TickRow /\ Ended(p).pc \in {"idle", "over"}
  /\ \A p : /\ Ended(p).run = NoTick /\ Ended(p).stale = NoTick /\ Ended(p).until = 0
<1>1. NotTicking \in TickRow
  BY DEF NotTicking, TickRow, TickSteps, Outcomes
<1>2. \A pc \in TickSteps : [NotTicking EXCEPT !.pc = pc] \in TickRow
  BY <1>1 DEF TickRow
<1>3. \A p : Ended(p) \in TickRow
  BY <1>1, <1>2 DEF Ended, TickSteps
<1>4. \A p : /\ Ended(p).pc \in {"idle", "over"}
             /\ Ended(p).run = NoTick /\ Ended(p).stale = NoTick /\ Ended(p).until = 0
  BY DEF Ended, NotTicking
<1> QED
  BY <1>1, <1>2, <1>3, <1>4

\* A process that comes to the outcome of its run or command.
LEMMA Concluding ==
    ASSUME ShopTypeOK, NEW p \in Discoverers, NEW outcome \in Outcomes
    PROVE  /\ Conclude(p, outcome) \in TickRow
           /\ Conclude(p, outcome).pc = IF p \in Schedulers THEN "finish" ELSE "release"
           /\ Conclude(p, outcome).run = tick[p].run
           /\ Conclude(p, outcome).until = tick[p].until
           /\ Conclude(p, outcome).stale = NoTick
<1>1. tick[p] \in TickRow /\ NotTicking \in TickRow
  BY ShopTypesNamed, Resting DEF Discoverers
<1>2. tick[p].run \in Nat \cup {NoTick} /\ tick[p].until \in Nat
  BY <1>1, TickFields
<1>3. PICK pc \in TickSteps : pc = IF p \in Schedulers THEN "finish" ELSE "release"
  BY DEF TickSteps
<1>4. Conclude(p, outcome) = [NotTicking EXCEPT !.run = tick[p].run, !.until = tick[p].until,
                                                !.outcome = outcome, !.pc = pc]
  BY <1>3 DEF Conclude
<1>5. Conclude(p, outcome) \in TickRow
  BY <1>1, <1>2, <1>4 DEF TickRow
<1>6. /\ Conclude(p, outcome).pc = pc /\ Conclude(p, outcome).run = tick[p].run
      /\ Conclude(p, outcome).until = tick[p].until /\ Conclude(p, outcome).stale = NoTick
  BY <1>4 DEF NotTicking
<1> QED
  BY <1>3, <1>5, <1>6

\* What a step leaves of the row.
Keeps(p, row) ==
  /\ row.stale = tick[p].stale /\ row.run = tick[p].run /\ row.until = tick[p].until
  /\ row.checksum = tick[p].checksum /\ row.import = tick[p].import
  /\ row.outcome = tick[p].outcome

LEMMA GoesTo ==
    ASSUME ShopTypeOK, NEW p \in Discoverers, NEW pc \in TickSteps,
           tick' = [tick EXCEPT ![p].pc = pc]
    PROVE  \E row : BecomesTick(p, row) /\ row.pc = pc /\ Keeps(p, row)
<1>1. tick[p] \in TickRow /\ tick \in [Discoverers -> TickRow]
  BY ShopTypesNamed DEF Discoverers
<1>2. PICK row : row = [tick[p] EXCEPT !.pc = pc]
  OBVIOUS
<1>3. row \in TickRow /\ row.pc = pc /\ Keeps(p, row)
  BY <1>1, <1>2 DEF TickRow, Keeps
<1>4. tick' = [tick EXCEPT ![p] = row]
  BY <1>1, <1>2
<1> QED
  BY <1>3, <1>4 DEF BecomesTick

\* The run that started last is one of the runs, and there is one as soon as
\* there are runs.
LastInv ==
  LET later == {r \in DOMAIN discoveryRuns : \A s \in DOMAIN discoveryRuns :
                  discoveryRuns[s].startedAt <= discoveryRuns[r].startedAt}
  IN  discoveryRuns # <<>> => \E r \in later : \A s \in later : s <= r

LEMMA LatestIsARun ==
    ASSUME ShopTypeOK, LastInv, Latest # NoTick
    PROVE  Latest \in DOMAIN discoveryRuns
<1> DEFINE later == {r \in DOMAIN discoveryRuns : \A s \in DOMAIN discoveryRuns :
                       discoveryRuns[s].startedAt <= discoveryRuns[r].startedAt}
<1>1. later # {} /\ Latest = CHOOSE r \in later : \A s \in later : s <= r
  BY DEF Latest
<1>2. discoveryRuns # <<>>
  BY <1>1
<1>3. \E r \in later : \A s \in later : s <= r
  BY <1>2 DEF LastInv
<1> HIDE DEF later
<1>4. Latest \in later
  BY <1>1, <1>3, Zenon
<1> QED
  BY <1>4 DEF later

LEMMA LookEffect ==
    ASSUME ShopTypeOK, LastInv, NEW p \in Discoverers, Look(p) \/ Command(p)
    PROVE  /\ \E row : /\ BecomesTick(p, row)
                       /\ row.pc = "lock" /\ row.run = NoTick /\ row.until = 0
                       /\ row.stale # NoTick => row.stale \in DOMAIN discoveryRuns
           /\ UNCHANGED <<discoveryRuns, discoveryImports, discoveryLock, shopTime, shopFaults>>
<1>r. NotTicking \in TickRow
  BY Resting
<1>1. CASE Look(p)
  <2>1. shopTime \in Nat
    BY ShopTypesNamed
  <2>2. PICK stale : stale = IF Stale(shopTime) THEN Latest ELSE NoTick
    OBVIOUS
  <2>3. stale # NoTick => stale \in DOMAIN discoveryRuns
    BY <2>2, LatestIsARun DEF Stale
  <2>4. stale \in Nat \cup {NoTick}
    BY <2>3, ShopLists
  <2>5. PICK row : row = [NotTicking EXCEPT !.pc = "lock", !.now = shopTime, !.stale = stale]
    OBVIOUS
  <2>6. row \in TickRow
    BY <1>r, <2>1, <2>4, <2>5 DEF TickRow, TickSteps
  <2>7. row.pc = "lock" /\ row.run = NoTick /\ row.until = 0 /\ row.stale = stale
    BY <2>5 DEF NotTicking
  <2>8. tick' = [tick EXCEPT ![p] = row]
    BY <1>1, <2>2, <2>5 DEF Look
  <2> QED
    BY <1>1, <2>3, <2>6, <2>7, <2>8 DEF BecomesTick, Look
<1>2. CASE Command(p)
  <2>1. PICK row : row = [NotTicking EXCEPT !.pc = "lock"]
    OBVIOUS
  <2>2. row \in TickRow
    BY <2>1, Resting DEF TickSteps
  <2>3. row.pc = "lock" /\ row.run = NoTick /\ row.until = 0 /\ row.stale = NoTick
    BY <2>1 DEF NotTicking
  <2>4. tick' = [tick EXCEPT ![p] = row]
    BY <1>2, <2>1 DEF Command
  <2> QED
    BY <1>2, <2>2, <2>3, <2>4 DEF BecomesTick, Command
<1> QED
  BY <1>1, <1>2

LEMMA StopEffect ==
    ASSUME ShopTypeOK, NEW p \in Discoverers, Stop(p)
    PROVE  \E row : /\ BecomesTick(p, row)
                    /\ row.pc \in {"idle", "over"} /\ row.run = NoTick /\ row.stale = NoTick
                    /\ row.until = 0
BY Resting DEF Stop, BecomesTick

LEMMA LockEffect ==
    ASSUME ShopTypeOK, NEW p \in Discoverers, LockDiscovery(p)
    PROVE  /\ tick[p].pc = "lock"
           /\ \/ Stop(p) /\ UNCHANGED discoveryLock
              \/ \E row : /\ BecomesTick(p, row)
                          /\ row.pc = IF p \in Schedulers THEN "recheck" ELSE "discover"
                          /\ row.run = tick[p].run /\ row.stale = tick[p].stale
                          /\ discoveryLock.until <= shopTime
                          /\ discoveryLock' = [owner |-> p, until |-> row.until]
           /\ UNCHANGED <<discoveryRuns, discoveryImports, shopTime, shopFaults>>
<1>1. tick[p] \in TickRow /\ tick \in [Discoverers -> TickRow] /\ shopTime \in Nat
  BY ShopTypesNamed DEF Discoverers
<1>2. PICK until \in Nat : until = shopTime + TtlOf(p)
  BY <1>1, ShopAssumption DEF TtlOf
<1>3. PICK pc \in TickSteps : pc = IF p \in Schedulers THEN "recheck" ELSE "discover"
  BY DEF TickSteps
<1>4. PICK row : row = [tick[p] EXCEPT !.until = until, !.pc = pc]
  OBVIOUS
<1>5. /\ row \in TickRow /\ row.pc = pc /\ row.until = until
      /\ row.run = tick[p].run /\ row.stale = tick[p].stale
  BY <1>1, <1>4 DEF TickRow
<1>6. CASE /\ discoveryLock.until <= shopTime
           /\ discoveryLock' = [owner |-> p, until |-> shopTime + TtlOf(p)]
           /\ tick' = [tick EXCEPT ![p].until = [owner |-> p, until |-> shopTime + TtlOf(p)].until,
                         ![p].pc = IF p \in Schedulers THEN "recheck" ELSE "discover"]
  <2>1. [owner |-> p, until |-> shopTime + TtlOf(p)].until = until
    BY <1>2
  <2>2. tick' = [tick EXCEPT ![p] = row]
    BY <1>1, <1>3, <1>4, <1>6, <2>1
  <2> QED
    BY <1>2, <1>3, <1>5, <1>6, <2>2 DEF BecomesTick, LockDiscovery
<1> QED
  BY <1>6 DEF LockDiscovery

LEMMA RecheckEffect ==
    ASSUME ShopTypeOK, NEW p \in Discoverers, Recheck(p)
    PROVE  /\ tick[p].pc = "recheck"
           /\ \E row : /\ BecomesTick(p, row) /\ Keeps(p, row)
                       /\ row.pc \in {"recover", "start", "release"}
                       /\ row.pc = "recover" => row.stale # NoTick
           /\ UNCHANGED <<discoveryRuns, discoveryImports, discoveryLock, shopTime, shopFaults>>
<1>1. PICK pc : /\ pc = CASE Stale(tick[p].now) ->
                               IF tick[p].stale = Latest THEN "recover" ELSE "release"
                          [] ~ Stale(tick[p].now) /\ RunDue(tick[p].now) -> "start"
                          [] OTHER -> "release"
                /\ tick' = [tick EXCEPT ![p].pc = pc]
  BY DEF Recheck
<1>2. /\ pc \in {"recover", "start", "release"}
      /\ pc = "recover" => Stale(tick[p].now) /\ tick[p].stale = Latest
  BY <1>1
<1>3. pc = "recover" => tick[p].stale # NoTick
  BY <1>2 DEF Stale
<1>4. PICK row : BecomesTick(p, row) /\ row.pc = pc /\ Keeps(p, row)
  BY <1>1, <1>2, GoesTo DEF TickSteps
<1>5. row.stale = tick[p].stale
  BY <1>4 DEF Keeps
<1> QED
  BY <1>2, <1>3, <1>4, <1>5 DEF Recheck

-----------------------------------------------------------------------------
\* What each step makes of its process and of the lists.  Begins and Works
\* are the steps before and after a scheduled run has its row.

Begins == {"idle", "lock", "recheck", "recover", "start", "over"}
Works == {"discover", "import", "job", "persist", "finish"}

\* What the row of process p is like when the runs are numbered by N.
Shaped(p, row, N) ==
  /\ p \in Operators => /\ row.pc \notin {"recheck", "recover", "start", "finish", "catch"}
                        /\ row.run = NoTick
  /\ p \in Schedulers /\ row.pc \in Works \cup {"catch"} => row.run # NoTick
  /\ row.pc \in Begins => row.run = NoTick
  /\ row.run # NoTick => row.run \in N
  /\ row.stale # NoTick => row.stale \in N
  /\ row.pc = "recover" => row.stale # NoTick
  /\ row.pc \in {"import", "job", "persist"} => row.checksum \in Checksums
  /\ row.pc \in {"idle", "lock", "over"} => row.until = 0

ShapeInv == \A p \in Discoverers : Shaped(p, tick[p], DOMAIN discoveryRuns)

\* A row that gains neither a lock, a run nor an import.
Follows(p, row) ==
  /\ BecomesTick(p, row)
  /\ Shaped(p, row, DOMAIN discoveryRuns)
  /\ row.until \in {0, tick[p].until}
  /\ row.run \in {NoTick, tick[p].run}
  /\ row.pc \in Works \cup {"catch"} => tick[p].pc \in Works
  /\ row.pc = "catch" => row.outcome = tick[p].outcome
  /\ row.pc \in {"recheck", "recover"} =>
       tick[p].pc \in {"recheck", "recover"} /\ row.stale = tick[p].stale
  /\ row.pc # "persist"
  /\ row.pc = "job" => \A i \in DOMAIN discoveryImports :
       discoveryImports[i].status = "SUCCEEDED" => discoveryImports[i].checksum # row.checksum

\* A step that changes neither list, and at most gives the lock back.
Quiet(p, row) ==
  /\ Follows(p, row)
  /\ \/ UNCHANGED discoveryLock
     \/ discoveryLock.owner = p /\ row.until = 0 /\ discoveryLock' = FreeLock
  /\ shopFaults' \in Nat
  /\ UNCHANGED <<discoveryRuns, discoveryImports, shopTime>>

Takes(p, row) ==
  /\ BecomesTick(p, row)
  /\ Shaped(p, row, DOMAIN discoveryRuns)
  /\ row.run = NoTick /\ row.pc \in {"recheck", "discover"}
  /\ discoveryLock.until <= shopTime
  /\ discoveryLock' = [owner |-> p, until |-> row.until]
  /\ UNCHANGED <<discoveryRuns, discoveryImports, shopTime, shopFaults>>

Abandons(p, row, r) ==
  /\ Follows(p, row) /\ row.run = NoTick
  /\ tick[p].pc = "recover" /\ r = tick[p].stale
  /\ r \in DOMAIN discoveryRuns /\ discoveryRuns[r].status = "RUNNING"
  /\ discoveryRuns' = [discoveryRuns EXCEPT ![r].status = "ABANDONED"]
  /\ UNCHANGED <<discoveryImports, discoveryLock, shopTime, shopFaults>>

Starts(p, row, run) ==
  /\ BecomesTick(p, row)
  /\ Shaped(p, row, DOMAIN discoveryRuns \cup {Len(discoveryRuns) + 1})
  /\ row.pc = "discover" /\ row.until = tick[p].until
  /\ row.run = Len(discoveryRuns) + 1 /\ row.stale = NoTick
  /\ run \in RunRow /\ run.status = "RUNNING"
  /\ discoveryRuns' = Append(discoveryRuns, run)
  /\ UNCHANGED <<discoveryImports, discoveryLock, shopTime, shopFaults>>

Jobs(p, row) ==
  /\ BecomesTick(p, row)
  /\ Shaped(p, row, DOMAIN discoveryRuns)
  /\ tick[p].pc = "job" /\ row.pc = "persist"
  /\ row.until = tick[p].until /\ row.run = tick[p].run
  /\ row.checksum = tick[p].checksum
  /\ row.import = Len(discoveryImports) + 1
  /\ discoveryImports' = Append(discoveryImports,
       [checksum |-> row.checksum, status |-> "RUNNING", late |-> FALSE])
  /\ UNCHANGED <<discoveryRuns, discoveryLock, shopTime, shopFaults>>

Imports(p, row) ==
  /\ Follows(p, row) /\ row.pc # "job"
  /\ tick[p].pc = "persist"
  /\ discoveryImports' = [discoveryImports EXCEPT
       ![tick[p].import] = [@ EXCEPT !.status = "SUCCEEDED", !.late = Overran(p)]]
  /\ UNCHANGED <<discoveryRuns, discoveryLock, shopTime, shopFaults>>

\* The outcome of a run is written, by the step that has it or by the catch.
Finishes(p, row, r, outcome) ==
  /\ Follows(p, row) /\ row.pc \notin Works
  /\ r = tick[p].run /\ r \in DOMAIN discoveryRuns
  /\ \/ tick[p].pc = "finish" /\ outcome = tick[p].outcome
     \/ tick[p].pc = "catch" /\ outcome = "FAILED" /\ row.pc # "catch"
  /\ outcome \in Outcomes
  /\ discoveryRuns' = [discoveryRuns EXCEPT ![r].status = outcome]
  /\ shopFaults' \in Nat
  /\ UNCHANGED <<discoveryImports, discoveryLock, shopTime>>

\* A process that stops, or begins.
LEMMA StopFollows ==
    ASSUME ShopTypeOK, NEW p \in Discoverers, Stop(p)
    PROVE  \E row : Follows(p, row) /\ row.until = 0
<1>1. PICK row : /\ BecomesTick(p, row)
                 /\ row.pc \in {"idle", "over"} /\ row.run = NoTick /\ row.stale = NoTick
                 /\ row.until = 0
  BY StopEffect
<1>2. Follows(p, row)
  BY <1>1 DEF Follows, Shaped, Works
<1> QED
  BY <1>1, <1>2

LEMMA LookQuiet ==
    ASSUME ShopTypeOK, LastInv, NEW p \in Discoverers, Look(p) \/ Command(p)
    PROVE  \E row : Quiet(p, row)
<1>1. PICK row : /\ BecomesTick(p, row)
                 /\ row.pc = "lock" /\ row.run = NoTick /\ row.until = 0
                 /\ row.stale # NoTick => row.stale \in DOMAIN discoveryRuns
  BY LookEffect
<1>2. UNCHANGED <<discoveryRuns, discoveryImports, discoveryLock, shopTime, shopFaults>>
  BY LookEffect
<1>3. Follows(p, row)
  BY <1>1 DEF Follows, Shaped, Works
<1> QED
  BY <1>2, <1>3, ShopTypesNamed DEF Quiet

\* A process that goes on with what it has, and one that comes to an outcome.
LEMMA GoingOn ==
    ASSUME ShopTypeOK, ShapeInv, NEW p \in Discoverers, NEW row, BecomesTick(p, row),
           Keeps(p, row), tick[p].pc \notin {"idle", "lock", "over"}, tick[p].run = NoTick,
           row.pc \in {"recover", "start", "release"}, p \in Schedulers \/ row.pc = "release",
           row.pc = "recover" => row.stale # NoTick /\ tick[p].pc = "recheck"
    PROVE  Follows(p, row)
<1>1. Shaped(p, tick[p], DOMAIN discoveryRuns)
  BY DEF ShapeInv
<1>2. Shaped(p, row, DOMAIN discoveryRuns)
  BY <1>1, OneKind DEF Shaped, Keeps, Works
<1> QED
  BY <1>2 DEF Follows, Keeps, Works

LEMMA Released ==
    ASSUME ShopTypeOK, ShapeInv, NEW p \in Discoverers, NEW row, BecomesTick(p, row),
           Keeps(p, row), row.pc = "release"
    PROVE  Follows(p, row)
<1>1. Shaped(p, tick[p], DOMAIN discoveryRuns)
  BY DEF ShapeInv
<1>2. Shaped(p, row, DOMAIN discoveryRuns)
  BY <1>1 DEF Shaped, Keeps, Works, Begins
<1> QED
  BY <1>2 DEF Follows, Keeps, Works

LEMMA Caught ==
    ASSUME ShopTypeOK, ShapeInv, NEW p \in Discoverers, NEW row, BecomesTick(p, row),
           Keeps(p, row), row.pc = "catch", tick[p].pc \in Works, tick[p].run # NoTick
    PROVE  Follows(p, row)
<1>1. Shaped(p, tick[p], DOMAIN discoveryRuns)
  BY DEF ShapeInv
<1>2. Shaped(p, row, DOMAIN discoveryRuns)
  BY <1>1 DEF Shaped, Keeps, Works, Begins
<1> QED
  BY <1>2 DEF Follows, Keeps, Works

LEMMA Concluded ==
    ASSUME ShopTypeOK, ShapeInv, NEW p \in Discoverers, NEW outcome \in Outcomes,
           tick[p].pc \in Works, tick' = [tick EXCEPT ![p] = Conclude(p, outcome)]
    PROVE  \E row : Follows(p, row) /\ row.pc # "job"
<1>1. PICK row : row = Conclude(p, outcome)
  OBVIOUS
<1>2. /\ row \in TickRow
      /\ row.pc = IF p \in Schedulers THEN "finish" ELSE "release"
      /\ row.run = tick[p].run /\ row.until = tick[p].until /\ row.stale = NoTick
  BY <1>1, Concluding
<1>3. Shaped(p, tick[p], DOMAIN discoveryRuns)
  BY DEF ShapeInv
<1>4. Shaped(p, row, DOMAIN discoveryRuns)
  BY <1>2, <1>3, OneKind DEF Shaped, Works, Begins
<1>5. BecomesTick(p, row)
  BY <1>1, <1>2 DEF BecomesTick
<1> QED
  BY <1>2, <1>4, <1>5 DEF Follows

LEMMA LockQuietOrTakes ==
    ASSUME ShopTypeOK, ShapeInv, NEW p \in Discoverers, LockDiscovery(p)
    PROVE  \E row : Quiet(p, row) \/ Takes(p, row)
<1>1. UNCHANGED <<discoveryRuns, discoveryImports, shopTime, shopFaults>> /\ tick[p].pc = "lock"
  BY LockEffect
<1>2. CASE Stop(p) /\ UNCHANGED discoveryLock
  <2>1. PICK row : Follows(p, row) /\ row.until = 0
    BY <1>2, StopFollows
  <2>2. Quiet(p, row)
    BY <1>1, <1>2, <2>1, ShopTypesNamed DEF Quiet
  <2> QED
    BY <2>2
<1>3. ASSUME NEW row, BecomesTick(p, row),
             row.pc = IF p \in Schedulers THEN "recheck" ELSE "discover",
             row.run = tick[p].run, row.stale = tick[p].stale,
             discoveryLock.until <= shopTime,
             discoveryLock' = [owner |-> p, until |-> row.until]
      PROVE  \E r : Takes(p, r)
  <2>1. Shaped(p, tick[p], DOMAIN discoveryRuns)
    BY DEF ShapeInv
  <2>2. Shaped(p, row, DOMAIN discoveryRuns)
    BY <1>1, <1>3, <2>1, OneKind DEF Shaped, Works, Begins
  <2>3. row.run = NoTick
    BY <1>1, <1>3, <2>1 DEF Shaped, Begins
  <2>4. Takes(p, row)
    BY <1>1, <1>3, <2>2, <2>3 DEF Takes
  <2> QED
    BY <2>4
<1>4. \/ Stop(p) /\ UNCHANGED discoveryLock
      \/ \E row : /\ BecomesTick(p, row)
                  /\ row.pc = IF p \in Schedulers THEN "recheck" ELSE "discover"
                  /\ row.run = tick[p].run /\ row.stale = tick[p].stale
                  /\ discoveryLock.until <= shopTime
                  /\ discoveryLock' = [owner |-> p, until |-> row.until]
  BY LockEffect
<1> QED
  BY <1>2, <1>3, <1>4

LEMMA RecheckQuiet ==
    ASSUME ShopTypeOK, ShapeInv, NEW p \in Discoverers, Recheck(p)
    PROVE  \E row : Quiet(p, row)
<1>1. tick[p].pc = "recheck"
  BY RecheckEffect
<1>2. PICK row : /\ BecomesTick(p, row) /\ Keeps(p, row)
                 /\ row.pc \in {"recover", "start", "release"}
                 /\ row.pc = "recover" => row.stale # NoTick
  BY RecheckEffect
<1>3. tick[p].run = NoTick /\ p \in Schedulers
  BY <1>1, OneKind DEF ShapeInv, Shaped, Begins
<1>4. Follows(p, row)
  BY <1>1, <1>2, <1>3, GoingOn
<1> QED
  BY <1>4, RecheckEffect, ShopTypesNamed DEF Quiet

LEMMA DiscoverQuiet ==
    ASSUME ShopTypeOK, ShapeInv, NEW p \in Discoverers, Discover(p)
    PROVE  \E row : Quiet(p, row)
<1>1. /\ tick[p].pc = "discover"
      /\ UNCHANGED <<discoveryRuns, discoveryImports, discoveryLock, shopTime, shopFaults>>
  BY DEF Discover
<1>2. CASE tick' = [tick EXCEPT ![p] = Conclude(p, "FAILED")]
  <2>1. PICK row : Follows(p, row)
    BY <1>1, <1>2, Concluded DEF Works, Outcomes
  <2> QED
    BY <1>1, <2>1, ShopTypesNamed DEF Quiet
<1>3. ASSUME NEW c \in Checksums,
             tick' = [tick EXCEPT ![p].pc = "import", ![p].checksum = c]
      PROVE  \E row : Quiet(p, row)
  <2>1. tick[p] \in TickRow /\ tick \in [Discoverers -> TickRow]
    BY ShopTypesNamed DEF Discoverers
  <2>2. PICK row : row = [tick[p] EXCEPT !.pc = "import", !.checksum = c]
    OBVIOUS
  <2>3. /\ row \in TickRow /\ row.pc = "import" /\ row.checksum = c
        /\ row.until = tick[p].until /\ row.run = tick[p].run /\ row.stale = tick[p].stale
    BY <2>1, <2>2 DEF TickRow, TickSteps
  <2>4. BecomesTick(p, row)
    BY <1>3, <2>1, <2>2, <2>3 DEF BecomesTick
  <2>5. Shaped(p, tick[p], DOMAIN discoveryRuns)
    BY DEF ShapeInv
  <2>6. Shaped(p, row, DOMAIN discoveryRuns)
    BY <1>1, <2>3, <2>5 DEF Shaped, Works, Begins
  <2>7. Follows(p, row)
    BY <1>1, <2>3, <2>4, <2>6 DEF Follows, Works
  <2> QED
    BY <1>1, <2>7, ShopTypesNamed DEF Quiet
<1> QED
  BY <1>2, <1>3 DEF Discover

LEMMA FindImportQuiet ==
    ASSUME ShopTypeOK, ShapeInv, NEW p \in Discoverers, FindImport(p)
    PROVE  \E row : Quiet(p, row)
<1> DEFINE Imported == \E i \in DOMAIN discoveryImports :
                         /\ discoveryImports[i].checksum = tick[p].checksum
                         /\ discoveryImports[i].status = "SUCCEEDED"
<1>1. /\ tick[p].pc = "import"
      /\ UNCHANGED <<discoveryRuns, discoveryImports, discoveryLock, shopTime, shopFaults>>
  BY DEF FindImport
<1>2. tick' = [tick EXCEPT ![p] =
                 IF Imported THEN Conclude(p, "SUCCEEDED")
                 ELSE IF Len(discoveryImports) = MaxRuns THEN Conclude(p, "FAILED")
                 ELSE [@ EXCEPT !.pc = "job"]]
  BY DEF FindImport
<1> HIDE DEF Imported
<1>3. ASSUME NEW outcome \in Outcomes, tick' = [tick EXCEPT ![p] = Conclude(p, outcome)]
      PROVE  \E row : Quiet(p, row)
  <2>1. PICK row : Follows(p, row)
    BY <1>1, <1>3, Concluded DEF Works
  <2> QED
    BY <1>1, <2>1, ShopTypesNamed DEF Quiet
<1>4. CASE Imported
  BY <1>2, <1>3, <1>4 DEF Outcomes
<1>5. CASE ~ Imported /\ Len(discoveryImports) = MaxRuns
  BY <1>2, <1>3, <1>5 DEF Outcomes
<1>6. CASE ~ Imported /\ Len(discoveryImports) # MaxRuns
  <2>1. tick' = [tick EXCEPT ![p].pc = "job"]
    BY <1>2, <1>6
  <2>2. PICK row : BecomesTick(p, row) /\ row.pc = "job" /\ Keeps(p, row)
    BY <2>1, GoesTo DEF TickSteps
  <2>3. Shaped(p, tick[p], DOMAIN discoveryRuns)
    BY DEF ShapeInv
  <2>4. Shaped(p, row, DOMAIN discoveryRuns)
    BY <1>1, <2>2, <2>3 DEF Shaped, Works, Begins, Keeps
  <2>5. \A i \in DOMAIN discoveryImports :
          discoveryImports[i].status = "SUCCEEDED" => discoveryImports[i].checksum # row.checksum
    BY <1>6, <2>2 DEF Imported, Keeps
  <2>6. Follows(p, row)
    BY <1>1, <2>2, <2>4, <2>5 DEF Follows, Works, Keeps
  <2> QED
    BY <1>1, <2>6, ShopTypesNamed DEF Quiet
<1> QED
  BY <1>4, <1>5, <1>6

LEMMA ReleaseQuiet ==
    ASSUME ShopTypeOK, NEW p \in Discoverers, ReleaseDiscovery(p)
    PROVE  \E row : Quiet(p, row)
<1>1. PICK row : Follows(p, row) /\ row.until = 0
  BY StopFollows DEF ReleaseDiscovery
<1>2. Quiet(p, row)
  BY <1>1, ShopTypesNamed DEF Quiet, ReleaseDiscovery
<1> QED
  BY <1>2

LEMMA FaultQuiet ==
    ASSUME ShopTypeOK, ShapeInv, NEW p \in Discoverers,
           DiscoveryFails(p) \/ DiscoveryCrashes(p)
    PROVE  \E row : Quiet(p, row)
<1>1. /\ UNCHANGED <<discoveryRuns, discoveryImports, discoveryLock, shopTime>>
      /\ shopFaults' \in Nat
  BY ShopTypesNamed DEF DiscoveryFails, DiscoveryCrashes, ShopFault
<1>2. ASSUME NEW row, Follows(p, row) PROVE \E r : Quiet(p, r)
  BY <1>1, <1>2 DEF Quiet
<1>3. CASE Stop(p)
  BY <1>2, <1>3, StopFollows
<1>4. CASE DiscoveryFails(p)
  <2>1. CASE tick[p].run # NoTick /\ tick[p].pc \notin {"catch", "release"}
    <3>1. tick' = [tick EXCEPT ![p].pc = "catch"]
      BY <1>4, <2>1 DEF DiscoveryFails
    <3>2. PICK row : BecomesTick(p, row) /\ row.pc = "catch" /\ Keeps(p, row)
      BY <3>1, GoesTo DEF TickSteps
    <3>3. tick[p].pc \in TickSteps /\ tick[p].pc \notin Begins
      BY <2>1, ShopTypesNamed, TickFields DEF ShapeInv, Shaped
    <3>4. tick[p].pc \in Works
      BY <2>1, <3>3 DEF TickSteps, Begins, Works
    <3> QED
      BY <1>2, <2>1, <3>2, <3>4, Caught
  <2>2. CASE tick[p].pc = "release"
    <3>1. Stop(p)
      BY <1>4, <2>2 DEF DiscoveryFails, Stop
    <3> QED
      BY <1>3, <3>1
  <2>3. CASE ~ (tick[p].run # NoTick /\ tick[p].pc \notin {"catch", "release"})
             /\ tick[p].pc # "release"
    <3>1. tick' = [tick EXCEPT ![p].pc = "release"]
      BY <1>4, <2>3 DEF DiscoveryFails
    <3>2. PICK row : BecomesTick(p, row) /\ row.pc = "release" /\ Keeps(p, row)
      BY <3>1, GoesTo DEF TickSteps
    <3> QED
      BY <1>2, <3>2, Released
  <2> QED
    BY <2>1, <2>2, <2>3
<1> QED
  BY <1>3, <1>4 DEF DiscoveryCrashes

-----------------------------------------------------------------------------
\* The steps that write a run or an import.

LEMMA RecoverAbandons ==
    ASSUME ShopTypeOK, ShapeInv, NEW p \in Discoverers, Recover(p)
    PROVE  \E row : Quiet(p, row) \/ \E r : Abandons(p, row, r)
<1> DEFINE r == tick[p].stale
<1>1. /\ tick[p].pc = "recover"
      /\ UNCHANGED <<discoveryImports, discoveryLock, shopTime, shopFaults>>
  BY DEF Recover
<1>2. Shaped(p, tick[p], DOMAIN discoveryRuns)
  BY DEF ShapeInv
<1>3. /\ tick[p].run = NoTick /\ p \in Schedulers
      /\ r # NoTick /\ r \in DOMAIN discoveryRuns
  BY <1>1, <1>2, OneKind DEF Shaped, Begins
<1>4. r \in Nat
  BY <1>3, ShopLists
<1>5. CASE discoveryRuns[r].status = "RUNNING"
  <2>1. tick[p] \in TickRow /\ tick \in [Discoverers -> TickRow]
    BY ShopTypesNamed DEF Discoverers
  <2>2. PICK row : row = [tick[p] EXCEPT !.pc = "start", !.recovered = r]
    OBVIOUS
  <2>3. row \in TickRow /\ row.pc = "start" /\ Keeps(p, row)
    BY <1>4, <2>1, <2>2 DEF TickRow, TickSteps, Keeps
  <2>4. BecomesTick(p, row)
    BY <1>5, <2>1, <2>2, <2>3 DEF BecomesTick, Recover
  <2>5. Follows(p, row) /\ row.run = NoTick
    BY <1>1, <1>3, <2>3, <2>4, GoingOn DEF Keeps
  <2>6. discoveryRuns' = [discoveryRuns EXCEPT ![r].status = "ABANDONED"]
    BY <1>5 DEF Recover
  <2>7. Abandons(p, row, r)
    BY <1>1, <1>3, <1>5, <2>5, <2>6 DEF Abandons
  <2> QED
    BY <2>7, Zenon
<1>6. CASE discoveryRuns[r].status # "RUNNING"
  <2>1. tick' = [tick EXCEPT ![p].pc = "release"] /\ UNCHANGED discoveryRuns
    BY <1>6 DEF Recover
  <2>2. PICK row : BecomesTick(p, row) /\ row.pc = "release" /\ Keeps(p, row)
    BY <2>1, GoesTo DEF TickSteps
  <2>3. Follows(p, row)
    BY <2>2, Released
  <2> QED
    BY <1>1, <2>1, <2>3, ShopTypesNamed DEF Quiet
<1> QED
  BY <1>5, <1>6

LEMMA StartRunStarts ==
    ASSUME ShopTypeOK, ShapeInv, NEW p \in Discoverers, StartRun(p)
    PROVE  \E row : Quiet(p, row) \/ \E run : Starts(p, row, run)
<1>1. /\ tick[p].pc = "start"
      /\ UNCHANGED <<discoveryImports, discoveryLock, shopTime, shopFaults>>
  BY DEF StartRun
<1>2. p \in Schedulers
  BY <1>1, OneKind DEF ShapeInv, Shaped
<1>3. CASE tick' = [tick EXCEPT ![p].pc = "release"] /\ UNCHANGED discoveryRuns
  <2>1. PICK row : BecomesTick(p, row) /\ row.pc = "release" /\ Keeps(p, row)
    BY <1>3, GoesTo DEF TickSteps
  <2>2. Follows(p, row)
    BY <2>1, Released
  <2> QED
    BY <1>1, <1>3, <2>2, ShopTypesNamed DEF Quiet
<1>4. ASSUME NEW key, key = <<tick[p].now \div Interval, tick[p].recovered>>,
             discoveryRuns' = Append(discoveryRuns,
               [startedAt |-> tick[p].now, key |-> key, status |-> "RUNNING", owner |-> p]),
             tick' = [tick EXCEPT ![p] =
               [NotTicking EXCEPT !.pc = "discover", !.until = tick[p].until,
                                  !.run = Len(discoveryRuns) + 1]]
      PROVE  \E row : \E run : Starts(p, row, run)
  <2>1. tick[p] \in TickRow /\ NotTicking \in TickRow
    BY ShopTypesNamed, Resting DEF Discoverers
  <2>2. tick[p].now \in Nat /\ tick[p].recovered \in Nat \cup {NoTick} /\ tick[p].until \in Nat
    BY <2>1, TickFields
  <2>3. tick[p].now \div Interval \in Nat
    BY <2>2, ShopAssumption
  <2>4. key \in Nat \X (Nat \cup {NoTick})
    BY <1>4, <2>2, <2>3
  <2>5. PICK run : run = [startedAt |-> tick[p].now, key |-> key, status |-> "RUNNING",
                          owner |-> p]
    OBVIOUS
  <2>6. run \in RunRow /\ run.status = "RUNNING"
    BY <1>2, <2>2, <2>4, <2>5 DEF RunRow, RunStates
  <2>7. PICK n \in Nat : n = Len(discoveryRuns) + 1
    BY ShopLists
  <2>8. PICK row : row = [NotTicking EXCEPT !.pc = "discover", !.until = tick[p].until,
                                            !.run = n]
    OBVIOUS
  <2>9. row \in TickRow
    BY <2>1, <2>2, <2>7, <2>8 DEF TickRow, TickSteps
  <2>10. row.pc = "discover" /\ row.until = tick[p].until /\ row.run = n /\ row.stale = NoTick
    BY <2>8 DEF NotTicking
  <2>11. BecomesTick(p, row)
    BY <1>4, <2>7, <2>8, <2>9 DEF BecomesTick
  <2>12. n # NoTick
    BY <2>7, ShopAssumption
  <2>13. Shaped(p, row, DOMAIN discoveryRuns \cup {Len(discoveryRuns) + 1})
    BY <1>2, <2>7, <2>10, <2>12, OneKind DEF Shaped, Works, Begins
  <2>14. Starts(p, row, run)
    BY <1>1, <1>4, <2>5, <2>6, <2>7, <2>10, <2>11, <2>13 DEF Starts
  <2> QED
    BY <2>14, Zenon
<1>5. \/ tick' = [tick EXCEPT ![p].pc = "release"] /\ UNCHANGED discoveryRuns
      \/ \E key : /\ key = <<tick[p].now \div Interval, tick[p].recovered>>
                  /\ discoveryRuns' = Append(discoveryRuns,
                       [startedAt |-> tick[p].now, key |-> key, status |-> "RUNNING",
                        owner |-> p])
                  /\ tick' = [tick EXCEPT ![p] =
                       [NotTicking EXCEPT !.pc = "discover", !.until = tick[p].until,
                                          !.run = Len(discoveryRuns) + 1]]
  BY DEF StartRun
<1> QED
  BY <1>3, <1>4, <1>5

LEMMA StartImportJobs ==
    ASSUME ShopTypeOK, ShapeInv, NEW p \in Discoverers, StartImport(p)
    PROVE  \E row : Jobs(p, row)
<1>1. /\ tick[p].pc = "job"
      /\ UNCHANGED <<discoveryRuns, discoveryLock, shopTime, shopFaults>>
  BY DEF StartImport
<1>2. tick[p] \in TickRow /\ tick \in [Discoverers -> TickRow]
  BY ShopTypesNamed DEF Discoverers
<1>3. PICK n \in Nat : n = Len(discoveryImports) + 1
  BY ShopLists
<1>4. PICK row : row = [tick[p] EXCEPT !.pc = "persist", !.import = n]
  OBVIOUS
<1>5. /\ row \in TickRow /\ row.pc = "persist" /\ row.import = n
      /\ row.until = tick[p].until /\ row.run = tick[p].run /\ row.stale = tick[p].stale
      /\ row.checksum = tick[p].checksum
  BY <1>2, <1>3, <1>4 DEF TickRow, TickSteps
<1>6. BecomesTick(p, row)
  BY <1>2, <1>3, <1>4, <1>5 DEF BecomesTick, StartImport
<1>7. Shaped(p, tick[p], DOMAIN discoveryRuns)
  BY DEF ShapeInv
<1>8. Shaped(p, row, DOMAIN discoveryRuns)
  BY <1>1, <1>5, <1>7 DEF Shaped, Works, Begins
<1>9. discoveryImports' = Append(discoveryImports,
        [checksum |-> row.checksum, status |-> "RUNNING", late |-> FALSE])
  BY <1>5 DEF StartImport
<1>10. Jobs(p, row)
  BY <1>1, <1>3, <1>5, <1>6, <1>8, <1>9 DEF Jobs
<1> QED
  BY <1>10

LEMMA FinishImportImports ==
    ASSUME ShopTypeOK, ShapeInv, NEW p \in Discoverers, FinishImport(p)
    PROVE  \E row : Imports(p, row)
<1>1. tick[p].pc = "persist" /\ tick' = [tick EXCEPT ![p] = Conclude(p, "SUCCEEDED")]
  BY DEF FinishImport
<1>2. PICK row : Follows(p, row) /\ row.pc # "job"
  BY <1>1, Concluded DEF Works, Outcomes
<1>3. Imports(p, row)
  BY <1>1, <1>2 DEF Imports, FinishImport
<1> QED
  BY <1>3

LEMMA FinishRunFinishes ==
    ASSUME ShopTypeOK, ShapeInv, NEW p \in Discoverers,
           FinishRun(p) \/ FinishUnheard(p) \/ FailRun(p)
    PROVE  \E row : \E r, outcome : Finishes(p, row, r, outcome)
<1> DEFINE r == tick[p].run
<1>1. /\ UNCHANGED <<discoveryImports, discoveryLock, shopTime>> /\ shopFaults' \in Nat
      /\ tick[p].pc \in {"finish", "catch"}
  BY ShopTypesNamed DEF FinishRun, FinishUnheard, FailRun, ShopFault
<1>2. r # NoTick /\ r \in DOMAIN discoveryRuns /\ tick[p].outcome \in Outcomes
  BY <1>1, OneKind, ShopTypesNamed, TickFields DEF ShapeInv, Shaped, Works, Discoverers
<1>3. CASE FinishRun(p) \/ FailRun(p)
  <2>1. tick' = [tick EXCEPT ![p].pc = "release"]
    BY <1>3 DEF FinishRun, FailRun
  <2>2. PICK row : BecomesTick(p, row) /\ row.pc = "release" /\ Keeps(p, row)
    BY <2>1, GoesTo DEF TickSteps
  <2>3. Follows(p, row)
    BY <2>2, Released
  <2>4. PICK outcome \in Outcomes :
          /\ \/ tick[p].pc = "finish" /\ outcome = tick[p].outcome
             \/ tick[p].pc = "catch" /\ outcome = "FAILED"
          /\ discoveryRuns' = [discoveryRuns EXCEPT ![r].status = outcome]
    BY <1>2, <1>3 DEF FinishRun, FailRun, WriteOutcome, Outcomes
  <2>5. Finishes(p, row, r, outcome)
    BY <1>1, <1>2, <2>2, <2>3, <2>4 DEF Finishes, Works
  <2> QED
    BY <2>5, Zenon
<1>4. CASE FinishUnheard(p)
  <2>1. tick[p].pc = "finish" /\ tick' = [tick EXCEPT ![p].pc = "catch"]
    BY <1>4 DEF FinishUnheard
  <2>2. PICK row : BecomesTick(p, row) /\ row.pc = "catch" /\ Keeps(p, row)
    BY <2>1, GoesTo DEF TickSteps
  <2>3. Follows(p, row)
    BY <1>2, <2>1, <2>2, Caught DEF Works
  <2>4. discoveryRuns' = [discoveryRuns EXCEPT ![r].status = tick[p].outcome]
    BY <1>4 DEF FinishUnheard, WriteOutcome
  <2>5. Finishes(p, row, r, tick[p].outcome)
    BY <1>1, <1>2, <2>1, <2>2, <2>3, <2>4 DEF Finishes, Works
  <2> QED
    BY <2>5, Zenon
<1> QED
  BY <1>3, <1>4

\* What a step of the specification does.
LEMMA ShopEffects ==
    ASSUME ShopTypeOK, ShapeInv, LastInv, ShopNext
    PROVE  \/ \E p \in Discoverers : \E row :
                \/ Quiet(p, row) \/ Takes(p, row) \/ Jobs(p, row) \/ Imports(p, row)
                \/ \E r : Abandons(p, row, r)
                \/ \E run : Starts(p, row, run)
                \/ \E r, outcome : Finishes(p, row, r, outcome)
           \/ ShopTimePasses \/ LeasesEnd
<1>1. ASSUME NEW p \in Discoverers, \/ DiscoveryStep(p) \/ Command(p) \/ FinishUnheard(p)
                                    \/ DiscoveryFails(p) \/ DiscoveryCrashes(p)
      PROVE  \E row :
                \/ Quiet(p, row) \/ Takes(p, row) \/ Jobs(p, row) \/ Imports(p, row)
                \/ \E r : Abandons(p, row, r)
                \/ \E run : Starts(p, row, run)
                \/ \E r, outcome : Finishes(p, row, r, outcome)
  <2>1. CASE Look(p) \/ Command(p)
    BY <2>1, LookQuiet, Zenon
  <2>2. CASE LockDiscovery(p)
    BY <2>2, LockQuietOrTakes, Zenon
  <2>3. CASE Recheck(p)
    BY <2>3, RecheckQuiet, Zenon
  <2>4. CASE Recover(p)
    BY <2>4, RecoverAbandons, Zenon
  <2>5. CASE StartRun(p)
    BY <2>5, StartRunStarts, Zenon
  <2>6. CASE Discover(p)
    BY <2>6, DiscoverQuiet, Zenon
  <2>7. CASE FindImport(p)
    BY <2>7, FindImportQuiet, Zenon
  <2>8. CASE StartImport(p)
    BY <2>8, StartImportJobs, Zenon
  <2>9. CASE FinishImport(p)
    BY <2>9, FinishImportImports, Zenon
  <2>10. CASE FinishRun(p) \/ FinishUnheard(p) \/ FailRun(p)
    BY <2>10, FinishRunFinishes, Zenon
  <2>11. CASE ReleaseDiscovery(p)
    BY <2>11, ReleaseQuiet, Zenon
  <2>12. CASE DiscoveryFails(p) \/ DiscoveryCrashes(p)
    BY <2>12, FaultQuiet, Zenon
  <2> QED
    BY <1>1, <2>1, <2>2, <2>3, <2>4, <2>5, <2>6, <2>7, <2>8, <2>9, <2>10, <2>11, <2>12
    DEF DiscoveryStep
<1> QED
  BY <1>1, Zenon DEF ShopNext

-----------------------------------------------------------------------------
\* Part 2: the lock is held by one process until its TTL.

Holds(p) == shopTime < tick[p].until

LockInv == \A p \in Discoverers :
  Holds(p) => discoveryLock = [owner |-> p, until |-> tick[p].until]

LEMMA OneHolder ==
    ASSUME LockInv, NEW p \in Discoverers, NEW q \in Discoverers, Holds(p), Holds(q)
    PROVE  p = q
<1>1. discoveryLock.owner = p
  BY DEF LockInv
<1>2. discoveryLock.owner = q
  BY DEF LockInv
<1> QED
  BY <1>1, <1>2

\* Part 3: a run is one process's, and RUNNING while that process works on it
\* under its lock; a process that catches an error under its lock finds the
\* run RUNNING, or with the outcome it did not hear was written.

RunInv ==
  /\ \A p, q \in Discoverers : p # q /\ tick[p].run # NoTick => tick[p].run # tick[q].run
  /\ \A p \in Discoverers : tick[p].run # NoTick /\ tick[p].pc \in Works /\ Holds(p) =>
       discoveryRuns[tick[p].run].status = "RUNNING"
  /\ \A p \in Discoverers : tick[p].run # NoTick /\ tick[p].pc = "catch" /\ Holds(p) =>
       discoveryRuns[tick[p].run].status \in {"RUNNING", tick[p].outcome}
  /\ \A p, q \in Discoverers :
       /\ tick[q].pc \in {"recheck", "recover"} /\ tick[q].stale # NoTick
       /\ tick[p].run = tick[q].stale
       => ~ Holds(p)

\* Part 4: an import under way is one process's, and a process that imports
\* under its lock finds only imports that finished late.

ImportInv ==
  /\ \A p \in Discoverers : tick[p].pc = "persist" =>
       /\ tick[p].import \in DOMAIN discoveryImports
       /\ discoveryImports[tick[p].import].status = "RUNNING"
       /\ discoveryImports[tick[p].import].checksum = tick[p].checksum
  /\ \A p, q \in Discoverers : tick[p].pc = "persist" /\ tick[q].pc = "persist" /\ p # q =>
       tick[p].import # tick[q].import
  /\ \A p \in Discoverers : tick[p].pc \in {"job", "persist"} /\ Holds(p) =>
       \A i \in DOMAIN discoveryImports :
         /\ discoveryImports[i].status = "SUCCEEDED"
         /\ discoveryImports[i].checksum = tick[p].checksum
         => discoveryImports[i].late

ShopInv == ShopTypeOK /\ LastInv /\ ShapeInv /\ LockInv /\ RunInv /\ ImportInv

-----------------------------------------------------------------------------
\* What a step keeps of the types.

LEMMA RowTypes ==
    ASSUME ShopTypeOK, NEW p \in Discoverers, NEW row, BecomesTick(p, row),
           discoveryRuns' \in Seq(RunRow), discoveryImports' \in Seq(ImportRow),
           discoveryLock' \in LockRow, shopTime' \in Nat, shopFaults' \in Nat
    PROVE  ShopTypeOK'
<1>1. DOMAIN tick' = DOMAIN tick /\ tick' \in [DOMAIN tick' -> TickRow]
  BY TickBecomes
<1>2. DOMAIN tick \in Crews
  BY ShopTypesNamed
<1> QED
  BY <1>1, <1>2
  DEF ShopTypeOK, Discoverers, TickRow, RunRow, ImportRow, LockRow, TickSteps, RunStates

LEMMA TypeStep ==
    ASSUME ShopInv, ShopNext
    PROVE  ShopTypeOK'
<1>t. /\ ShopTypeOK /\ LastInv /\ ShapeInv /\ ImportInv
      /\ discoveryRuns \in Seq(RunRow) /\ discoveryImports \in Seq(ImportRow)
      /\ discoveryLock \in LockRow /\ shopTime \in Nat /\ shopFaults \in Nat
      /\ FreeLock \in LockRow
  BY ShopTypesNamed DEF ShopInv, FreeLock, LockRow
<1>1. ASSUME NEW p \in Discoverers, NEW row, Quiet(p, row)
      PROVE  ShopTypeOK'
  BY <1>t, <1>1, RowTypes DEF Quiet, Follows
<1>2. ASSUME NEW p \in Discoverers, NEW row, Takes(p, row)
      PROVE  ShopTypeOK'
  <2>1. BecomesTick(p, row) /\ row.until \in Nat
    BY <1>2, TickFields DEF Takes, BecomesTick
  <2>2. discoveryLock' \in LockRow
    BY <1>2, <2>1 DEF Takes, LockRow
  <2> QED
    BY <1>t, <1>2, <2>1, <2>2, RowTypes DEF Takes
<1>3. ASSUME NEW p \in Discoverers, NEW row, NEW r, Abandons(p, row, r)
      PROVE  ShopTypeOK'
  <2>1. r \in DOMAIN discoveryRuns /\ discoveryRuns[r] \in RunRow
    BY <1>t, <1>3, ShopLists DEF Abandons
  <2>2. PICK run : run = [discoveryRuns[r] EXCEPT !.status = "ABANDONED"]
    OBVIOUS
  <2>3. run \in RunRow
    BY <2>1, <2>2 DEF RunRow, RunStates
  <2>4. discoveryRuns' = [discoveryRuns EXCEPT ![r] = run]
    BY <1>3, <2>2 DEF Abandons
  <2>5. discoveryRuns' \in Seq(RunRow)
    BY <1>t, <2>1, <2>3, <2>4, Changed
  <2> QED
    BY <1>t, <1>3, <2>5, RowTypes DEF Abandons, Follows
<1>4. ASSUME NEW p \in Discoverers, NEW row, NEW run, Starts(p, row, run)
      PROVE  ShopTypeOK'
  <2>1. discoveryRuns' \in Seq(RunRow)
    BY <1>t, <1>4, Appended DEF Starts
  <2> QED
    BY <1>t, <1>4, <2>1, RowTypes DEF Starts
<1>5. ASSUME NEW p \in Discoverers, NEW row, Jobs(p, row)
      PROVE  ShopTypeOK'
  <2>1. row.checksum \in Checksums
    BY <1>5 DEF Jobs, Shaped
  <2>2. [checksum |-> row.checksum, status |-> "RUNNING", late |-> FALSE] \in ImportRow
    BY <2>1 DEF ImportRow
  <2>3. discoveryImports' \in Seq(ImportRow)
    BY <1>t, <1>5, <2>2, Appended DEF Jobs
  <2> QED
    BY <1>t, <1>5, <2>3, RowTypes DEF Jobs
<1>6. ASSUME NEW p \in Discoverers, NEW row, Imports(p, row)
      PROVE  ShopTypeOK'
  <2>1. PICK i : i = tick[p].import
    OBVIOUS
  <2>2. i \in DOMAIN discoveryImports /\ discoveryImports[i] \in ImportRow
    BY <1>t, <1>6, <2>1, ShopLists DEF Imports, ImportInv
  <2>3. PICK late \in BOOLEAN : late = Overran(p)
    <3>1. shopTime \in Nat /\ tick[p].until \in Nat
      BY <1>t, ShopTypesNamed, TickFields DEF Discoverers
    <3>2. Overran(p) \in BOOLEAN
      BY <3>1 DEF Overran
    <3> QED
      BY <3>2
  <2>4. PICK import : import = [discoveryImports[i] EXCEPT !.status = "SUCCEEDED", !.late = late]
    OBVIOUS
  <2>5. import \in ImportRow
    BY <2>2, <2>3, <2>4 DEF ImportRow
  <2>6. discoveryImports' = [discoveryImports EXCEPT ![i] = import]
    BY <1>6, <2>1, <2>3, <2>4 DEF Imports
  <2>7. discoveryImports' \in Seq(ImportRow)
    BY <1>t, <2>2, <2>5, <2>6, Changed
  <2> QED
    BY <1>t, <1>6, <2>7, RowTypes DEF Imports, Follows
<1>7. ASSUME NEW p \in Discoverers, NEW row, NEW r, NEW outcome,
             Finishes(p, row, r, outcome)
      PROVE  ShopTypeOK'
  <2>1. r \in DOMAIN discoveryRuns /\ discoveryRuns[r] \in RunRow
    BY <1>t, <1>7, ShopLists DEF Finishes
  <2>2. outcome \in Outcomes
    BY <1>7 DEF Finishes
  <2>3. PICK run : run = [discoveryRuns[r] EXCEPT !.status = outcome]
    OBVIOUS
  <2>4. run \in RunRow
    BY <2>1, <2>2, <2>3 DEF RunRow, RunStates
  <2>5. discoveryRuns' = [discoveryRuns EXCEPT ![r] = run]
    BY <1>7, <2>3 DEF Finishes
  <2>6. discoveryRuns' \in Seq(RunRow)
    BY <1>t, <2>1, <2>4, <2>5, Changed
  <2> QED
    BY <1>t, <1>7, <2>6, RowTypes DEF Finishes, Follows
<1>8. CASE ShopTimePasses
  <2>1. shopTime' \in Nat
    BY <1>t, <1>8 DEF ShopTimePasses
  <2> QED
    BY <1>t, <1>8, <2>1 DEF ShopTimePasses, ShopTypeOK, Discoverers
<1>9. CASE LeasesEnd
  <2>1. tick \in [Discoverers -> TickRow] /\ DOMAIN tick \in Crews
    BY <1>t, ShopTypesNamed
  <2>2. tick' = [p \in Discoverers |-> [tick[p] EXCEPT !.until = 0]]
    BY <1>9 DEF LeasesEnd
  <2>3. \A p \in Discoverers : [tick[p] EXCEPT !.until = 0] \in TickRow
    BY <2>1 DEF TickRow
  <2>4. DOMAIN tick' = DOMAIN tick /\ tick' \in [DOMAIN tick' -> TickRow]
    BY <2>2, <2>3 DEF Discoverers
  <2> QED
    BY <1>t, <1>9, <2>1, <2>4
    DEF LeasesEnd, ShopTypeOK, Discoverers, TickRow, RunRow, ImportRow, LockRow, TickSteps,
        RunStates
<1> QED
  BY <1>t, <1>1, <1>2, <1>3, <1>4, <1>5, <1>6, <1>7, <1>8, <1>9, ShopEffects, Zenon

-----------------------------------------------------------------------------
\* What a step keeps of the shape of the rows, and of the last run.

LEMMA RowShape ==
    ASSUME ShopTypeOK, ShapeInv, NEW p \in Discoverers, NEW row, BecomesTick(p, row),
           NEW N, N = DOMAIN discoveryRuns', DOMAIN discoveryRuns \subseteq N,
           Shaped(p, row, N)
    PROVE  ShapeInv'
<1>1. /\ DOMAIN tick' = DOMAIN tick /\ tick'[p] = row
      /\ \A q \in Discoverers : q # p => tick'[q] = tick[q]
  BY TickBecomes
<1>2. ASSUME NEW q \in Discoverers PROVE Shaped(q, tick'[q], N)
  <2>1. CASE q = p
    BY <1>1, <2>1
  <2>2. CASE q # p
    BY <1>1, <2>2 DEF ShapeInv, Shaped
  <2> QED
    BY <2>1, <2>2
<1> QED
  BY <1>1, <1>2 DEF ShapeInv, Discoverers

\* Changing the status of a run keeps its number and its start.
LEMMA RunChanged ==
    ASSUME ShopTypeOK, NEW r \in DOMAIN discoveryRuns, NEW status,
           discoveryRuns' = [discoveryRuns EXCEPT ![r].status = status]
    PROVE  /\ DOMAIN discoveryRuns' = DOMAIN discoveryRuns
           /\ \A s \in DOMAIN discoveryRuns :
                /\ discoveryRuns'[s].startedAt = discoveryRuns[s].startedAt
                /\ s # r => discoveryRuns'[s] = discoveryRuns[s]
           /\ discoveryRuns'[r].status = status
<1>1. discoveryRuns[r] \in RunRow
  BY ShopLists
<1> QED
  BY <1>1 DEF RunRow

LEMMA ShapeStep ==
    ASSUME ShopInv, ShopNext
    PROVE  ShapeInv'
<1>t. ShopTypeOK /\ LastInv /\ ShapeInv
  BY DEF ShopInv
<1>1. ASSUME NEW p \in Discoverers, NEW row, BecomesTick(p, row),
             Shaped(p, row, DOMAIN discoveryRuns),
             DOMAIN discoveryRuns' = DOMAIN discoveryRuns
      PROVE  ShapeInv'
  BY <1>t, <1>1, RowShape
<1>2. ASSUME NEW p \in Discoverers, NEW row, Quiet(p, row) \/ Takes(p, row)
                                             \/ Jobs(p, row) \/ Imports(p, row)
      PROVE  ShapeInv'
  <2>1. BecomesTick(p, row) /\ Shaped(p, row, DOMAIN discoveryRuns) /\ UNCHANGED discoveryRuns
    BY <1>2 DEF Quiet, Takes, Jobs, Imports, Follows
  <2> QED
    BY <1>1, <2>1
<1>3. ASSUME NEW p \in Discoverers, NEW row, NEW r, Abandons(p, row, r)
      PROVE  ShapeInv'
  <2>1. DOMAIN discoveryRuns' = DOMAIN discoveryRuns
    BY <1>t, <1>3, RunChanged DEF Abandons
  <2> QED
    BY <1>1, <1>3, <2>1 DEF Abandons, Follows
<1>4. ASSUME NEW p \in Discoverers, NEW row, NEW run, Starts(p, row, run)
      PROVE  ShapeInv'
  <2>1. discoveryRuns \in Seq(RunRow) /\ DOMAIN discoveryRuns = 1 .. Len(discoveryRuns)
        /\ Len(discoveryRuns) \in Nat
    BY <1>t, ShopTypesNamed, ShopLists
  <2>2. DOMAIN discoveryRuns' = 1 .. Len(discoveryRuns) + 1
    BY <1>4, <2>1, Appended DEF Starts
  <2>3. DOMAIN discoveryRuns' = DOMAIN discoveryRuns \cup {Len(discoveryRuns) + 1}
    BY <2>1, <2>2
  <2> QED
    BY <1>t, <1>4, <2>3, RowShape DEF Starts
<1>5. ASSUME NEW p \in Discoverers, NEW row, NEW r, NEW outcome,
             Finishes(p, row, r, outcome)
      PROVE  ShapeInv'
  <2>1. DOMAIN discoveryRuns' = DOMAIN discoveryRuns
    BY <1>t, <1>5, RunChanged DEF Finishes
  <2> QED
    BY <1>1, <1>5, <2>1 DEF Finishes, Follows
<1>6. CASE ShopTimePasses
  BY <1>t, <1>6 DEF ShopTimePasses, ShapeInv, Discoverers
<1>7. CASE LeasesEnd
  <2>1. /\ tick' = [p \in Discoverers |-> [tick[p] EXCEPT !.until = 0]]
        /\ UNCHANGED discoveryRuns
    BY <1>7 DEF LeasesEnd
  <2>2. tick \in [Discoverers -> TickRow]
    BY <1>t, ShopTypesNamed
  <2>3. ASSUME NEW p \in Discoverers PROVE Shaped(p, tick'[p], DOMAIN discoveryRuns)
    <3>1. PICK row : row = [tick[p] EXCEPT !.until = 0] /\ tick'[p] = row
      BY <2>1
    <3>2. /\ row.pc = tick[p].pc /\ row.run = tick[p].run /\ row.stale = tick[p].stale
          /\ row.checksum = tick[p].checksum /\ row.until = 0
      BY <2>2, <3>1 DEF TickRow
    <3> QED
      BY <1>t, <3>1, <3>2 DEF ShapeInv, Shaped
  <2>4. Discoverers' = Discoverers
    BY <2>1, <2>2 DEF Discoverers
  <2> QED
    BY <2>1, <2>3, <2>4 DEF ShapeInv
<1> QED
  BY <1>t, <1>2, <1>3, <1>4, <1>5, <1>6, <1>7, ShopEffects, Zenon

LEMMA LastKept ==
    ASSUME LastInv, DOMAIN discoveryRuns' = DOMAIN discoveryRuns, ShopTypeOK, ShopTypeOK',
           \A s \in DOMAIN discoveryRuns :
             discoveryRuns'[s].startedAt = discoveryRuns[s].startedAt
    PROVE  LastInv'
<1>1. discoveryRuns' # <<>> => discoveryRuns # <<>>
  BY ShopTypesNamed
<1>2. {r \in DOMAIN discoveryRuns' : \A s \in DOMAIN discoveryRuns' :
         discoveryRuns'[s].startedAt <= discoveryRuns'[r].startedAt}
      = {r \in DOMAIN discoveryRuns : \A s \in DOMAIN discoveryRuns :
         discoveryRuns[s].startedAt <= discoveryRuns[r].startedAt}
  OBVIOUS
<1> QED
  BY <1>1, <1>2, Zenon DEF LastInv

LEMMA LastOfOneMore ==
    ASSUME ShopTypeOK, LastInv, NEW run \in RunRow,
           discoveryRuns' = Append(discoveryRuns, run)
    PROVE  LastInv'
<1> DEFINE later == {r \in DOMAIN discoveryRuns : \A s \in DOMAIN discoveryRuns :
                       discoveryRuns[s].startedAt <= discoveryRuns[r].startedAt}
           next == {r \in DOMAIN discoveryRuns' : \A s \in DOMAIN discoveryRuns' :
                       discoveryRuns'[s].startedAt <= discoveryRuns'[r].startedAt}
<1>1. /\ Len(discoveryRuns) \in Nat /\ DOMAIN discoveryRuns = 1 .. Len(discoveryRuns)
      /\ discoveryRuns \in Seq(RunRow)
      /\ \A r \in DOMAIN discoveryRuns : discoveryRuns[r] \in RunRow
  BY ShopLists, ShopTypesNamed
<1>2. PICK n \in Nat : n = Len(discoveryRuns) + 1
  BY <1>1
<1>3. /\ DOMAIN discoveryRuns' = 1 .. n /\ discoveryRuns'[n] = run
      /\ \A r \in DOMAIN discoveryRuns : discoveryRuns'[r] = discoveryRuns[r]
      /\ DOMAIN discoveryRuns = 1 .. n - 1
  BY <1>1, <1>2, Appended
<1>4. /\ run.startedAt \in Nat
      /\ \A r \in 1 .. n - 1 : discoveryRuns[r].startedAt \in Nat
  BY <1>1, <1>3 DEF RunRow
<1>5. \E r \in next : \A s \in next : s <= r
  <2>1. CASE \A s \in 1 .. n - 1 : discoveryRuns[s].startedAt <= run.startedAt
    <3>1. n \in next
      BY <1>2, <1>3, <1>4, <2>1
    <3>2. \A s \in next : s <= n
      BY <1>2, <1>3
    <3> QED
      BY <3>1, <3>2, Zenon
  <2>2. ASSUME NEW s \in 1 .. n - 1, ~ (discoveryRuns[s].startedAt <= run.startedAt)
        PROVE  \E r \in next : \A t \in next : t <= r
    <3>1. discoveryRuns # <<>>
      BY <1>1, <1>2, <2>2
    <3>2. \E r \in later : \A t \in later : t <= r
      BY <3>1 DEF LastInv
    <3>3. PICK r \in later : \A t \in later : t <= r
      BY <3>2, Zenon
    <3>4. /\ r \in 1 .. n - 1
          /\ \A t \in 1 .. n - 1 : discoveryRuns[t].startedAt <= discoveryRuns[r].startedAt
      BY <1>3, <3>3
    <3>5. run.startedAt < discoveryRuns[r].startedAt
      BY <1>4, <2>2, <3>4
    <3>6. r \in next
      <4>1. r \in 1 .. n /\ discoveryRuns'[r] = discoveryRuns[r]
        BY <1>2, <1>3, <3>4
      <4>2. ASSUME NEW t \in 1 .. n
            PROVE  discoveryRuns'[t].startedAt <= discoveryRuns'[r].startedAt
        <5>1. CASE t = n
          BY <1>3, <1>4, <3>4, <3>5, <4>1, <5>1
        <5>2. CASE t \in 1 .. n - 1
          BY <1>3, <3>4, <4>1, <5>2
        <5> QED
          BY <1>2, <5>1, <5>2
      <4> QED
        BY <1>3, <4>1, <4>2
    <3>7. ASSUME NEW t \in next PROVE t <= r
      <4>1. t \in 1 .. n /\ \A u \in 1 .. n :
              discoveryRuns'[u].startedAt <= discoveryRuns'[t].startedAt
        BY <1>3, <3>7
      <4>2. discoveryRuns'[r].startedAt <= discoveryRuns'[t].startedAt
        BY <1>2, <3>4, <4>1
      <4>3. t # n
        BY <1>3, <1>4, <3>4, <3>5, <4>2
      <4>4. t \in 1 .. n - 1
        BY <1>2, <4>1, <4>3
      <4>5. \A u \in 1 .. n - 1 : discoveryRuns[u].startedAt <= discoveryRuns[t].startedAt
        BY <1>2, <1>3, <4>1, <4>4
      <4>6. t \in later
        BY <1>3, <4>4, <4>5
      <4> QED
        BY <3>3, <4>6
    <3> QED
      BY <3>6, <3>7, Zenon
  <2> QED
    BY <2>1, <2>2, Zenon
<1> QED
  BY <1>5, Zenon DEF LastInv

LEMMA LastStep ==
    ASSUME ShopInv, ShopNext
    PROVE  LastInv'
<1>t. ShopTypeOK /\ LastInv /\ ShapeInv /\ ShopTypeOK'
  BY TypeStep DEF ShopInv
<1>1. CASE UNCHANGED discoveryRuns
  BY <1>t, <1>1, LastKept
<1>2. ASSUME NEW p \in Discoverers, NEW row, Quiet(p, row) \/ Takes(p, row)
                                             \/ Jobs(p, row) \/ Imports(p, row)
      PROVE  LastInv'
  BY <1>1, <1>2 DEF Quiet, Takes, Jobs, Imports
<1>3. ASSUME NEW p \in Discoverers, NEW row, NEW r, Abandons(p, row, r)
      PROVE  LastInv'
  BY <1>t, <1>3, RunChanged, LastKept DEF Abandons
<1>4. ASSUME NEW p \in Discoverers, NEW row, NEW run, Starts(p, row, run)
      PROVE  LastInv'
  BY <1>t, <1>4, LastOfOneMore DEF Starts
<1>5. ASSUME NEW p \in Discoverers, NEW row, NEW r, NEW outcome,
             Finishes(p, row, r, outcome)
      PROVE  LastInv'
  BY <1>t, <1>5, RunChanged, LastKept DEF Finishes
<1>6. CASE ShopTimePasses \/ LeasesEnd
  BY <1>1, <1>6 DEF ShopTimePasses, LeasesEnd
<1> QED
  BY <1>t, <1>2, <1>3, <1>4, <1>5, <1>6, ShopEffects, Zenon

-----------------------------------------------------------------------------
\* What a step keeps of the lock.

LEMMA UntilIsTime ==
    ASSUME ShopTypeOK
    PROVE  /\ \A p \in Discoverers : tick[p].until \in Nat
           /\ shopTime \in Nat /\ discoveryLock.until \in Nat
BY ShopTypesNamed, TickFields DEF Discoverers, LockRow

LEMMA LockKept ==
    ASSUME ShopTypeOK, LockInv, NEW p \in Discoverers, NEW row, BecomesTick(p, row),
           row.until \in {0, tick[p].until}, UNCHANGED shopTime,
           \/ UNCHANGED discoveryLock
           \/ discoveryLock.owner = p /\ row.until = 0
    PROVE  LockInv'
<1>1. /\ DOMAIN tick' = DOMAIN tick /\ tick'[p] = row
      /\ \A q \in Discoverers : q # p => tick'[q] = tick[q]
  BY TickBecomes
<1>2. ASSUME NEW q \in Discoverers, shopTime < tick'[q].until
      PROVE  discoveryLock' = [owner |-> q, until |-> tick'[q].until]
  <2>1. tick'[q].until = tick[q].until /\ ~ (q = p /\ row.until = 0)
    BY <1>1, <1>2, UntilIsTime
  <2>2. discoveryLock = [owner |-> q, until |-> tick[q].until]
    BY <1>2, <2>1 DEF LockInv, Holds
  <2>3. discoveryLock.owner = q
    BY <2>2
  <2> QED
    BY <2>1, <2>2, <2>3
<1> QED
  BY <1>1, <1>2 DEF LockInv, Holds, Discoverers

LEMMA LockStep ==
    ASSUME ShopInv, ShopNext
    PROVE  LockInv'
<1>t. ShopTypeOK /\ LastInv /\ ShapeInv /\ LockInv
  BY DEF ShopInv
<1>1. ASSUME NEW p \in Discoverers, NEW row, Quiet(p, row)
      PROVE  LockInv'
  BY <1>t, <1>1, LockKept DEF Quiet, Follows
<1>2. ASSUME NEW p \in Discoverers, NEW row, Takes(p, row)
      PROVE  LockInv'
  <2>1. /\ DOMAIN tick' = DOMAIN tick /\ tick'[p] = row
        /\ \A q \in Discoverers : q # p => tick'[q] = tick[q]
    BY <1>t, <1>2, TickBecomes DEF Takes
  <2>2. ASSUME NEW q \in Discoverers, q # p, shopTime < tick[q].until
        PROVE  FALSE
    <3>1. discoveryLock.until = tick[q].until
      BY <1>t, <2>2 DEF LockInv, Holds
    <3> QED
      BY <1>t, <1>2, <2>2, <3>1, UntilIsTime DEF Takes
  <2>3. /\ discoveryLock' = [owner |-> p, until |-> tick'[p].until]
        /\ UNCHANGED shopTime
    BY <1>2, <2>1 DEF Takes
  <2>4. ASSUME NEW q \in Discoverers, shopTime < tick'[q].until
        PROVE  discoveryLock' = [owner |-> q, until |-> tick'[q].until]
    <3>1. q = p
      BY <2>1, <2>2, <2>4
    <3> QED
      BY <2>3, <3>1
  <2> QED
    BY <2>1, <2>3, <2>4 DEF LockInv, Holds, Discoverers
<1>3. ASSUME NEW p \in Discoverers, NEW row, NEW r, Abandons(p, row, r)
      PROVE  LockInv'
  BY <1>t, <1>3, LockKept DEF Abandons, Follows
<1>4. ASSUME NEW p \in Discoverers, NEW row, NEW run, Starts(p, row, run)
      PROVE  LockInv'
  BY <1>t, <1>4, LockKept DEF Starts
<1>5. ASSUME NEW p \in Discoverers, NEW row, Jobs(p, row)
      PROVE  LockInv'
  BY <1>t, <1>5, LockKept DEF Jobs
<1>6. ASSUME NEW p \in Discoverers, NEW row, Imports(p, row)
      PROVE  LockInv'
  BY <1>t, <1>6, LockKept DEF Imports, Follows
<1>7. ASSUME NEW p \in Discoverers, NEW row, NEW r, NEW outcome,
             Finishes(p, row, r, outcome)
      PROVE  LockInv'
  BY <1>t, <1>7, LockKept DEF Finishes, Follows
<1>8. CASE ShopTimePasses
  <2>1. /\ UNCHANGED <<tick, discoveryLock>> /\ Discoverers' = Discoverers
        /\ shopTime' = shopTime + 1
    BY <1>8 DEF ShopTimePasses, Discoverers
  <2>2. \A p \in Discoverers : shopTime + 1 < tick[p].until => shopTime < tick[p].until
    BY <1>t, UntilIsTime
  <2> QED
    BY <1>t, <2>1, <2>2 DEF LockInv, Holds
<1>9. CASE LeasesEnd
  <2>1. /\ tick' = [p \in Discoverers |-> [tick[p] EXCEPT !.until = 0]]
        /\ UNCHANGED shopTime
    BY <1>9 DEF LeasesEnd
  <2>2. \A p \in Discoverers : tick'[p].until = 0
    BY <1>t, <2>1, ShopTypesNamed DEF TickRow
  <2>3. Discoverers' = Discoverers
    BY <2>1 DEF Discoverers
  <2> QED
    BY <1>t, <2>1, <2>2, <2>3, UntilIsTime DEF LockInv, Holds
<1> QED
  BY <1>t, <1>1, <1>2, <1>3, <1>4, <1>5, <1>6, <1>7, <1>8, <1>9, ShopEffects, Zenon

-----------------------------------------------------------------------------
\* What a step keeps of the runs.

LEMMA RunsKept ==
    ASSUME ShopTypeOK, RunInv, NEW p \in Discoverers, NEW row, BecomesTick(p, row),
           row.until \in {0, tick[p].until}, row.run \in {NoTick, tick[p].run},
           row.pc \in Works \cup {"catch"} => tick[p].pc \in Works,
           row.pc \in {"recheck", "recover"} =>
             tick[p].pc \in {"recheck", "recover"} /\ row.stale = tick[p].stale,
           UNCHANGED shopTime,
           \A q \in Discoverers :
             /\ tick[q].run # NoTick /\ tick[q].pc \in Works \cup {"catch"} /\ Holds(q)
             /\ q = p => row.run # NoTick /\ row.pc \in Works
             => discoveryRuns'[tick[q].run].status = discoveryRuns[tick[q].run].status,
           row.pc = "catch" /\ row.run # NoTick /\ Holds(p) =>
             discoveryRuns'[row.run].status \in {"RUNNING", row.outcome}
    PROVE  RunInv'
<1>1. /\ DOMAIN tick' = DOMAIN tick /\ tick'[p] = row
      /\ \A q \in Discoverers : q # p => tick'[q] = tick[q]
  BY TickBecomes
<1>2. Discoverers' = Discoverers
  BY <1>1 DEF Discoverers
<1>3. \A q \in Discoverers : tick'[q].run # NoTick => tick'[q].run = tick[q].run
  BY <1>1
<1>4. \A q \in Discoverers : Holds(q)' => Holds(q)
  BY <1>1, <1>2, UntilIsTime DEF Holds
<1>5. \A q \in Discoverers : tick'[q].pc \in Works => tick[q].pc \in Works
  BY <1>1
<1>6. \A q \in Discoverers : tick'[q].pc \in {"recheck", "recover"} =>
        tick[q].pc \in {"recheck", "recover"} /\ tick'[q].stale = tick[q].stale
  BY <1>1
<1>7. ASSUME NEW q \in Discoverers, NEW s \in Discoverers, q # s, tick'[q].run # NoTick
      PROVE  tick'[q].run # tick'[s].run
  BY <1>3, <1>7 DEF RunInv
<1>8. ASSUME NEW q \in Discoverers, tick'[q].run # NoTick, tick'[q].pc \in Works, Holds(q)'
      PROVE  discoveryRuns'[tick'[q].run].status = "RUNNING"
  <2>1. tick[q].run # NoTick /\ tick[q].pc \in Works /\ Holds(q) /\ tick'[q].run = tick[q].run
    BY <1>3, <1>4, <1>5, <1>8
  <2>2. discoveryRuns[tick[q].run].status = "RUNNING"
    BY <2>1 DEF RunInv
  <2>3. q = p => row.run # NoTick /\ row.pc \in Works
    BY <1>1, <1>8
  <2> QED
    BY <2>1, <2>2, <2>3
<1>c. ASSUME NEW q \in Discoverers, tick'[q].run # NoTick, tick'[q].pc = "catch", Holds(q)'
      PROVE  discoveryRuns'[tick'[q].run].status \in {"RUNNING", tick'[q].outcome}
  <2>1. CASE q = p
    BY <1>1, <1>4, <1>c, <2>1
  <2>2. CASE q # p
    <3>1. tick'[q] = tick[q] /\ Holds(q)
      BY <1>1, <1>4, <1>c, <2>2
    <3>2. discoveryRuns[tick[q].run].status \in {"RUNNING", tick[q].outcome}
      BY <1>c, <3>1 DEF RunInv
    <3> QED
      BY <1>c, <2>2, <3>1, <3>2
  <2> QED
    BY <2>1, <2>2
<1>9. ASSUME NEW q \in Discoverers, NEW s \in Discoverers,
             tick'[s].pc \in {"recheck", "recover"}, tick'[s].stale # NoTick,
             tick'[q].run = tick'[s].stale
      PROVE  ~ Holds(q)'
  <2>1. tick[s].pc \in {"recheck", "recover"} /\ tick[s].stale # NoTick
    BY <1>6, <1>9
  <2>2. tick[q].run = tick[s].stale
    BY <1>3, <1>6, <1>9
  <2> QED
    BY <1>4, <2>1, <2>2 DEF RunInv
<1> QED
  BY <1>2, <1>7, <1>8, <1>9, <1>c, Zenon DEF RunInv

LEMMA RunStep ==
    ASSUME ShopInv, ShopNext
    PROVE  RunInv'
<1>t. ShopTypeOK /\ LastInv /\ ShapeInv /\ LockInv /\ RunInv
  BY DEF ShopInv
<1>1. ASSUME NEW p \in Discoverers, NEW row, Follows(p, row), UNCHANGED shopTime,
             \A q \in Discoverers :
               /\ tick[q].run # NoTick /\ tick[q].pc \in Works \cup {"catch"} /\ Holds(q)
               /\ q = p => row.run # NoTick /\ row.pc \in Works
               => discoveryRuns'[tick[q].run].status = discoveryRuns[tick[q].run].status,
             row.pc = "catch" /\ row.run # NoTick /\ Holds(p) =>
               discoveryRuns'[row.run].status \in {"RUNNING", row.outcome}
      PROVE  RunInv'
  BY <1>t, <1>1, RunsKept DEF Follows
<1>c. ASSUME NEW p \in Discoverers, NEW row, Follows(p, row), UNCHANGED discoveryRuns,
             row.pc = "catch", row.run # NoTick, Holds(p)
      PROVE  discoveryRuns'[row.run].status \in {"RUNNING", row.outcome}
  <2>1. row.run = tick[p].run /\ tick[p].pc \in Works
    BY <1>c DEF Follows
  <2> QED
    BY <1>t, <1>c, <2>1 DEF RunInv
<1>2. ASSUME NEW p \in Discoverers, NEW row, Quiet(p, row) \/ Imports(p, row)
      PROVE  RunInv'
  <2>1. Follows(p, row) /\ UNCHANGED <<shopTime, discoveryRuns>>
    BY <1>2 DEF Quiet, Imports
  <2> QED
    BY <1>1, <1>c, <2>1
<1>3. ASSUME NEW p \in Discoverers, NEW row, Jobs(p, row)
      PROVE  RunInv'
  BY <1>t, <1>3, RunsKept DEF Jobs, Works
<1>4. ASSUME NEW p \in Discoverers, NEW row, NEW r, Abandons(p, row, r)
      PROVE  RunInv'
  <2>1. \A s \in DOMAIN discoveryRuns : s # r => discoveryRuns'[s] = discoveryRuns[s]
    BY <1>t, <1>4, RunChanged DEF Abandons
  <2>2. r # NoTick /\ tick[p].pc = "recover" /\ r = tick[p].stale
    BY <1>t, <1>4 DEF Abandons, ShapeInv, Shaped
  <2>3. ASSUME NEW q \in Discoverers, tick[q].run # NoTick, Holds(q)
        PROVE  tick[q].run \in DOMAIN discoveryRuns /\ tick[q].run # r
    BY <1>t, <2>2, <2>3 DEF RunInv, ShapeInv, Shaped
  <2> QED
    BY <1>1, <1>4, <2>1, <2>3 DEF Abandons
<1>5. ASSUME NEW p \in Discoverers, NEW row, NEW r, NEW outcome,
             Finishes(p, row, r, outcome)
      PROVE  RunInv'
  <2>1. \A s \in DOMAIN discoveryRuns : s # r => discoveryRuns'[s] = discoveryRuns[s]
    BY <1>t, <1>5, RunChanged DEF Finishes
  <2>2. ASSUME NEW q \in Discoverers, q # p, tick[q].run # NoTick
        PROVE  tick[q].run \in DOMAIN discoveryRuns /\ tick[q].run # r
    BY <1>t, <1>5, <2>2 DEF Finishes, RunInv, ShapeInv, Shaped
  <2>3. row.pc \notin Works /\ Follows(p, row) /\ UNCHANGED shopTime
    BY <1>5 DEF Finishes
  <2>4. ASSUME row.pc = "catch", row.run # NoTick
        PROVE  discoveryRuns'[row.run].status \in {"RUNNING", row.outcome}
    <3>1. outcome = tick[p].outcome /\ r = tick[p].run /\ r \in DOMAIN discoveryRuns
      BY <1>5, <2>4 DEF Finishes
    <3>2. row.run = r /\ row.outcome = outcome
      BY <2>3, <2>4, <3>1 DEF Follows
    <3>3. discoveryRuns'[r].status = outcome
      BY <1>t, <1>5, <3>1, RunChanged DEF Finishes
    <3> QED
      BY <3>2, <3>3
  <2> QED
    BY <1>1, <2>1, <2>2, <2>3, <2>4
<1>6. ASSUME NEW p \in Discoverers, NEW row, Takes(p, row)
      PROVE  RunInv'
  <2>1. /\ DOMAIN tick' = DOMAIN tick /\ tick'[p] = row
        /\ \A q \in Discoverers : q # p => tick'[q] = tick[q]
    BY <1>t, <1>6, TickBecomes DEF Takes
  <2>2. Discoverers' = Discoverers /\ UNCHANGED <<discoveryRuns, shopTime>>
    BY <1>6, <2>1 DEF Discoverers, Takes
  <2>3. row.run = NoTick /\ row.pc # "catch"
    BY <1>6 DEF Takes
  <2>4. ASSUME NEW q \in Discoverers, Holds(q) PROVE FALSE
    <3>1. discoveryLock.until = tick[q].until
      BY <1>t, <2>4 DEF LockInv
    <3> QED
      BY <1>t, <1>6, <2>4, <3>1, UntilIsTime DEF Takes, Holds
  <2>5. ASSUME NEW q \in Discoverers, q # p PROVE ~ Holds(q)'
    BY <2>1, <2>2, <2>4, <2>5 DEF Holds
  <2>6. ASSUME NEW q \in Discoverers, NEW s \in Discoverers, q # s, tick'[q].run # NoTick
        PROVE  tick'[q].run # tick'[s].run
    BY <1>t, <2>1, <2>3, <2>6 DEF RunInv
  <2>7. ASSUME NEW q \in Discoverers, tick'[q].run # NoTick, tick'[q].pc \in Works, Holds(q)'
        PROVE  discoveryRuns'[tick'[q].run].status = "RUNNING"
    BY <2>1, <2>3, <2>5, <2>7
  <2>c. ASSUME NEW q \in Discoverers, tick'[q].run # NoTick, tick'[q].pc = "catch", Holds(q)'
        PROVE  discoveryRuns'[tick'[q].run].status \in {"RUNNING", tick'[q].outcome}
    BY <2>1, <2>3, <2>5, <2>c
  <2>8. ASSUME NEW q \in Discoverers, NEW s \in Discoverers,
               tick'[s].pc \in {"recheck", "recover"}, tick'[s].stale # NoTick,
               tick'[q].run = tick'[s].stale
        PROVE  ~ Holds(q)'
    BY <2>1, <2>3, <2>5, <2>8
  <2> QED
    BY <2>2, <2>6, <2>7, <2>8, <2>c, Zenon DEF RunInv
<1>7. ASSUME NEW p \in Discoverers, NEW row, NEW run, Starts(p, row, run)
      PROVE  RunInv'
  <2>1. /\ DOMAIN tick' = DOMAIN tick /\ tick'[p] = row
        /\ \A q \in Discoverers : q # p => tick'[q] = tick[q]
    BY <1>t, <1>7, TickBecomes DEF Starts
  <2>2. PICK n : n = Len(discoveryRuns) + 1
    OBVIOUS
  <2>3. /\ row.run = n /\ row.pc = "discover" /\ run.status = "RUNNING"
        /\ row.until = tick[p].until /\ UNCHANGED shopTime
    BY <1>7, <2>2 DEF Starts
  <2>4. /\ discoveryRuns'[n] = run /\ n \notin DOMAIN discoveryRuns
        /\ \A s \in DOMAIN discoveryRuns : discoveryRuns'[s] = discoveryRuns[s]
    BY <1>t, <1>7, <2>2, ShopTypesNamed, Appended DEF Starts
  <2>5. Discoverers' = Discoverers
    BY <2>1 DEF Discoverers
  <2>6. \A q \in Discoverers : tick[q].run # NoTick => tick[q].run \in DOMAIN discoveryRuns
    BY <1>t DEF ShapeInv, Shaped
  <2>7. \A q \in Discoverers : tick[q].stale # NoTick => tick[q].stale \in DOMAIN discoveryRuns
    BY <1>t DEF ShapeInv, Shaped
  <2>8. \A q \in Discoverers : q # p => (Holds(q)' <=> Holds(q))
    BY <2>1, <2>3, <2>5 DEF Holds
  <2>n. n # NoTick
    BY <1>t, <2>2, ShopLists, ShopAssumption
  <2>9. ASSUME NEW q \in Discoverers, NEW s \in Discoverers, q # s, tick'[q].run # NoTick
        PROVE  tick'[q].run # tick'[s].run
    BY <1>t, <2>1, <2>3, <2>4, <2>6, <2>9, <2>n DEF RunInv
  <2>10. ASSUME NEW q \in Discoverers, tick'[q].run # NoTick, tick'[q].pc \in Works, Holds(q)'
         PROVE  discoveryRuns'[tick'[q].run].status = "RUNNING"
    <3>1. CASE q = p
      BY <2>1, <2>3, <2>4, <3>1
    <3>2. CASE q # p
      BY <1>t, <2>1, <2>4, <2>6, <2>8, <2>10, <3>2 DEF RunInv
    <3> QED
      BY <3>1, <3>2
  <2>c. ASSUME NEW q \in Discoverers, tick'[q].run # NoTick, tick'[q].pc = "catch", Holds(q)'
        PROVE  discoveryRuns'[tick'[q].run].status \in {"RUNNING", tick'[q].outcome}
    <3>1. q # p /\ tick'[q] = tick[q] /\ Holds(q)
      BY <2>1, <2>3, <2>8, <2>c
    <3>2. discoveryRuns[tick[q].run].status \in {"RUNNING", tick[q].outcome}
      BY <1>t, <2>c, <3>1 DEF RunInv
    <3> QED
      BY <2>4, <2>6, <2>c, <3>1, <3>2
  <2>11. ASSUME NEW q \in Discoverers, NEW s \in Discoverers,
                tick'[s].pc \in {"recheck", "recover"}, tick'[s].stale # NoTick,
                tick'[q].run = tick'[s].stale
         PROVE  ~ Holds(q)'
    <3>1. s # p /\ tick'[s] = tick[s]
      BY <2>1, <2>3, <2>11
    <3>2. q # p
      BY <2>1, <2>3, <2>4, <2>7, <2>11, <3>1
    <3> QED
      BY <1>t, <2>1, <2>8, <2>11, <3>1, <3>2 DEF RunInv
  <2> QED
    BY <2>5, <2>9, <2>10, <2>11, <2>c, Zenon DEF RunInv
<1>8. CASE ShopTimePasses
  <2>1. /\ UNCHANGED <<tick, discoveryRuns>> /\ Discoverers' = Discoverers
        /\ shopTime' = shopTime + 1
    BY <1>8 DEF ShopTimePasses, Discoverers
  <2>2. \A p \in Discoverers : Holds(p)' => Holds(p)
    BY <1>t, <2>1, UntilIsTime DEF Holds
  <2> QED
    BY <1>t, <2>1, <2>2, Zenon DEF RunInv
<1>9. CASE LeasesEnd
  <2>1. /\ tick' = [p \in Discoverers |-> [tick[p] EXCEPT !.until = 0]]
        /\ UNCHANGED <<shopTime, discoveryRuns>>
    BY <1>9 DEF LeasesEnd
  <2>2. Discoverers' = Discoverers
    BY <2>1 DEF Discoverers
  <2>3. \A p \in Discoverers : tick'[p].until = 0 /\ tick'[p].run = tick[p].run
    BY <1>t, <2>1, ShopTypesNamed DEF TickRow
  <2>4. \A p \in Discoverers : ~ Holds(p)'
    BY <1>t, <2>1, <2>2, <2>3, UntilIsTime DEF Holds
  <2> QED
    BY <1>t, <2>2, <2>3, <2>4 DEF RunInv
<1> QED
  BY <1>t, <1>2, <1>3, <1>4, <1>5, <1>6, <1>7, <1>8, <1>9, ShopEffects, Zenon

-----------------------------------------------------------------------------
\* What a step keeps of the imports.

LEMMA ImportsKept ==
    ASSUME ShopTypeOK, ImportInv, NEW p \in Discoverers, NEW row, BecomesTick(p, row),
           row.pc # "persist",
           row.pc = "job" => \A i \in DOMAIN discoveryImports :
             discoveryImports[i].status = "SUCCEEDED" =>
               discoveryImports[i].checksum # row.checksum,
           UNCHANGED <<discoveryImports, shopTime>>
    PROVE  ImportInv'
<1>1. /\ DOMAIN tick' = DOMAIN tick /\ tick'[p] = row
      /\ \A q \in Discoverers : q # p => tick'[q] = tick[q]
  BY TickBecomes
<1>2. Discoverers' = Discoverers
  BY <1>1 DEF Discoverers
<1>3. \A q \in Discoverers : tick'[q].pc = "persist" => q # p /\ tick'[q] = tick[q]
  BY <1>1
<1>4. \A q \in Discoverers : q # p => (Holds(q)' <=> Holds(q))
  BY <1>1, <1>2 DEF Holds
<1>5. ASSUME NEW q \in Discoverers, tick'[q].pc = "persist"
      PROVE  /\ tick'[q].import \in DOMAIN discoveryImports
             /\ discoveryImports[tick'[q].import].status = "RUNNING"
             /\ discoveryImports[tick'[q].import].checksum = tick'[q].checksum
  BY <1>3, <1>5 DEF ImportInv
<1>6. ASSUME NEW q \in Discoverers, NEW s \in Discoverers,
             tick'[q].pc = "persist", tick'[s].pc = "persist", q # s
      PROVE  tick'[q].import # tick'[s].import
  BY <1>3, <1>6 DEF ImportInv
<1>7. ASSUME NEW q \in Discoverers, tick'[q].pc \in {"job", "persist"}, Holds(q)',
             NEW i \in DOMAIN discoveryImports, discoveryImports[i].status = "SUCCEEDED",
             discoveryImports[i].checksum = tick'[q].checksum
      PROVE  discoveryImports[i].late
  <2>1. CASE q = p
    BY <1>1, <1>7, <2>1
  <2>2. CASE q # p
    BY <1>1, <1>4, <1>7, <2>2 DEF ImportInv
  <2> QED
    BY <2>1, <2>2
<1> QED
  BY <1>2, <1>5, <1>6, <1>7 DEF ImportInv

\* One import more, and one finished.
LEMMA ImportAdded ==
    ASSUME ShopTypeOK, NEW p \in Discoverers, NEW row, Jobs(p, row)
    PROVE  \E n : /\ n \notin DOMAIN discoveryImports /\ row.import = n
                  /\ n \in DOMAIN discoveryImports'
                  /\ DOMAIN discoveryImports' = DOMAIN discoveryImports \cup {n}
                  /\ discoveryImports'[n].status = "RUNNING"
                  /\ discoveryImports'[n].checksum = row.checksum
                  /\ \A i \in DOMAIN discoveryImports :
                       discoveryImports'[i] = discoveryImports[i]
<1>1. PICK n : n = Len(discoveryImports) + 1
  OBVIOUS
<1>2. PICK import : import = [checksum |-> row.checksum, status |-> "RUNNING", late |-> FALSE]
  OBVIOUS
<1>3. row.checksum \in Checksums /\ row.import = n
  BY <1>1 DEF Jobs, Shaped
<1>4. import \in ImportRow
  BY <1>2, <1>3 DEF ImportRow
<1>5. discoveryImports' = Append(discoveryImports, import)
  BY <1>2 DEF Jobs
<1>6. /\ discoveryImports \in Seq(ImportRow) /\ Len(discoveryImports) \in Nat
      /\ DOMAIN discoveryImports = 1 .. Len(discoveryImports)
  BY ShopTypesNamed, ShopLists
<1>7. /\ DOMAIN discoveryImports' = 1 .. Len(discoveryImports) + 1
      /\ n \notin DOMAIN discoveryImports
      /\ discoveryImports'[n] = import
      /\ \A i \in DOMAIN discoveryImports : discoveryImports'[i] = discoveryImports[i]
  BY <1>1, <1>4, <1>5, <1>6, Appended
<1>8. DOMAIN discoveryImports' = DOMAIN discoveryImports \cup {n}
  BY <1>1, <1>6, <1>7
<1>9. import.status = "RUNNING" /\ import.checksum = row.checksum
  BY <1>2
<1> QED
  BY <1>3, <1>7, <1>8, <1>9

LEMMA ImportFinished ==
    ASSUME ShopTypeOK, NEW p \in Discoverers, NEW row, Imports(p, row),
           NEW i \in DOMAIN discoveryImports, i = tick[p].import
    PROVE  /\ DOMAIN discoveryImports' = DOMAIN discoveryImports
           /\ discoveryImports'[i].status = "SUCCEEDED"
           /\ discoveryImports'[i].checksum = discoveryImports[i].checksum
           /\ ~ Holds(p) => discoveryImports'[i].late
           /\ \A j \in DOMAIN discoveryImports :
                j # i => discoveryImports'[j] = discoveryImports[j]
<1>1. discoveryImports[i] \in ImportRow
  BY ShopLists
<1>2. discoveryImports' = [discoveryImports EXCEPT
        ![i] = [@ EXCEPT !.status = "SUCCEEDED", !.late = Overran(p)]]
  BY DEF Imports
<1>3. discoveryImports'[i] =
        [discoveryImports[i] EXCEPT !.status = "SUCCEEDED", !.late = Overran(p)]
  BY <1>2
<1>4. /\ discoveryImports'[i].status = "SUCCEEDED"
      /\ discoveryImports'[i].checksum = discoveryImports[i].checksum
      /\ discoveryImports'[i].late = Overran(p)
  BY <1>1, <1>3 DEF ImportRow
<1>5. ~ Holds(p) => Overran(p)
  BY UntilIsTime DEF Holds, Overran
<1> QED
  BY <1>2, <1>4, <1>5

LEMMA ImportStep ==
    ASSUME ShopInv, ShopNext, ImportsRepeatOnlyLate
    PROVE  ImportInv' /\ ImportsRepeatOnlyLate'
<1>t. ShopTypeOK /\ LastInv /\ ShapeInv /\ LockInv /\ ImportInv
  BY DEF ShopInv
<1>u. ASSUME UNCHANGED discoveryImports PROVE ImportsRepeatOnlyLate'
  BY <1>u DEF ImportsRepeatOnlyLate
<1>1. ASSUME NEW p \in Discoverers, NEW row, Quiet(p, row)
      PROVE  ImportInv' /\ UNCHANGED discoveryImports
  BY <1>t, <1>1, ImportsKept DEF Quiet, Follows
<1>2. ASSUME NEW p \in Discoverers, NEW row, Takes(p, row)
      PROVE  ImportInv' /\ UNCHANGED discoveryImports
  BY <1>t, <1>2, ImportsKept DEF Takes
<1>3. ASSUME NEW p \in Discoverers, NEW row, NEW r, Abandons(p, row, r)
      PROVE  ImportInv' /\ UNCHANGED discoveryImports
  BY <1>t, <1>3, ImportsKept DEF Abandons, Follows
<1>4. ASSUME NEW p \in Discoverers, NEW row, NEW run, Starts(p, row, run)
      PROVE  ImportInv' /\ UNCHANGED discoveryImports
  BY <1>t, <1>4, ImportsKept DEF Starts
<1>5. ASSUME NEW p \in Discoverers, NEW row, NEW r, NEW outcome,
             Finishes(p, row, r, outcome)
      PROVE  ImportInv' /\ UNCHANGED discoveryImports
  BY <1>t, <1>5, ImportsKept DEF Finishes, Follows
<1>6. ASSUME NEW p \in Discoverers, NEW row, Jobs(p, row)
      PROVE  ImportInv' /\ ImportsRepeatOnlyLate'
  <2>1. PICK n : /\ n \notin DOMAIN discoveryImports /\ row.import = n
                 /\ n \in DOMAIN discoveryImports'
                 /\ DOMAIN discoveryImports' = DOMAIN discoveryImports \cup {n}
                 /\ discoveryImports'[n].status = "RUNNING"
                 /\ discoveryImports'[n].checksum = row.checksum
                 /\ \A i \in DOMAIN discoveryImports :
                      discoveryImports'[i] = discoveryImports[i]
    BY <1>t, <1>6, ImportAdded
  <2>2. /\ DOMAIN tick' = DOMAIN tick /\ tick'[p] = row
        /\ \A q \in Discoverers : q # p => tick'[q] = tick[q]
    BY <1>t, <1>6, TickBecomes DEF Jobs
  <2>3. Discoverers' = Discoverers /\ UNCHANGED shopTime
    BY <1>6, <2>2 DEF Discoverers, Jobs
  <2>4. /\ tick[p].pc = "job" /\ row.checksum = tick[p].checksum /\ row.until = tick[p].until
    BY <1>6 DEF Jobs
  <2>5. \A q \in Discoverers : Holds(q)' <=> Holds(q)
    BY <2>2, <2>3, <2>4 DEF Holds
  <2>6. ASSUME NEW q \in Discoverers, tick'[q].pc = "persist"
        PROVE  /\ tick'[q].import \in DOMAIN discoveryImports'
               /\ discoveryImports'[tick'[q].import].status = "RUNNING"
               /\ discoveryImports'[tick'[q].import].checksum = tick'[q].checksum
    <3>1. CASE q = p
      BY <2>1, <2>2, <3>1
    <3>2. CASE q # p
      BY <1>t, <2>1, <2>2, <2>6, <3>2 DEF ImportInv
    <3> QED
      BY <3>1, <3>2
  <2>7. ASSUME NEW q \in Discoverers, NEW s \in Discoverers,
               tick'[q].pc = "persist", tick'[s].pc = "persist", q # s
        PROVE  tick'[q].import # tick'[s].import
    BY <1>t, <2>1, <2>2, <2>7 DEF ImportInv
  <2>8. ASSUME NEW q \in Discoverers, tick'[q].pc \in {"job", "persist"}, Holds(q)',
               NEW i \in DOMAIN discoveryImports', discoveryImports'[i].status = "SUCCEEDED",
               discoveryImports'[i].checksum = tick'[q].checksum
        PROVE  discoveryImports'[i].late
    <3>1. i \in DOMAIN discoveryImports /\ discoveryImports'[i] = discoveryImports[i]
      BY <2>1, <2>8
    <3>2. tick[q].pc \in {"job", "persist"} /\ tick[q].checksum = tick'[q].checksum
      BY <2>2, <2>4, <2>8
    <3> QED
      BY <1>t, <2>5, <2>8, <3>1, <3>2 DEF ImportInv
  <2>9. ImportInv'
    BY <2>3, <2>6, <2>7, <2>8 DEF ImportInv
  <2>10. ImportsRepeatOnlyLate'
    <3>1. ASSUME NEW i \in DOMAIN discoveryImports', discoveryImports'[i].status = "SUCCEEDED"
          PROVE  i \in DOMAIN discoveryImports /\ discoveryImports'[i] = discoveryImports[i]
      BY <2>1, <3>1
    <3> QED
      BY <3>1 DEF ImportsRepeatOnlyLate
  <2> QED
    BY <2>9, <2>10
<1>7. ASSUME NEW p \in Discoverers, NEW row, Imports(p, row)
      PROVE  ImportInv' /\ ImportsRepeatOnlyLate'
  <2>1. PICK i : i = tick[p].import
    OBVIOUS
  <2>2. /\ i \in DOMAIN discoveryImports /\ discoveryImports[i].checksum = tick[p].checksum
        /\ tick[p].pc = "persist"
    BY <1>t, <1>7, <2>1 DEF Imports, ImportInv
  <2>3. /\ DOMAIN discoveryImports' = DOMAIN discoveryImports
        /\ discoveryImports'[i].status = "SUCCEEDED"
        /\ discoveryImports'[i].checksum = tick[p].checksum
        /\ ~ Holds(p) => discoveryImports'[i].late
        /\ \A j \in DOMAIN discoveryImports :
             j # i => discoveryImports'[j] = discoveryImports[j]
    BY <1>t, <1>7, <2>1, <2>2, ImportFinished
  <2>4. /\ DOMAIN tick' = DOMAIN tick /\ tick'[p] = row
        /\ \A q \in Discoverers : q # p => tick'[q] = tick[q]
    BY <1>t, <1>7, TickBecomes DEF Imports, Follows
  <2>5. Discoverers' = Discoverers /\ UNCHANGED shopTime
    BY <1>7, <2>4 DEF Discoverers, Imports
  <2>6. row.pc \notin {"job", "persist"}
    BY <1>7 DEF Imports, Follows
  <2>7. \A q \in Discoverers : tick'[q].pc \in {"job", "persist"} => q # p /\ tick'[q] = tick[q]
    BY <2>4, <2>6
  <2>8. \A q \in Discoverers : q # p => (Holds(q)' <=> Holds(q))
    BY <2>4, <2>5 DEF Holds
  <2>9. ASSUME NEW q \in Discoverers, tick'[q].pc = "persist"
        PROVE  /\ tick'[q].import \in DOMAIN discoveryImports'
               /\ discoveryImports'[tick'[q].import].status = "RUNNING"
               /\ discoveryImports'[tick'[q].import].checksum = tick'[q].checksum
    <3>1. q # p /\ tick'[q] = tick[q]
      BY <2>7, <2>9
    <3>2. tick[q].import # i
      BY <1>t, <2>1, <2>2, <2>9, <3>1 DEF ImportInv
    <3> QED
      BY <1>t, <2>3, <2>9, <3>1, <3>2 DEF ImportInv
  <2>10. ASSUME NEW q \in Discoverers, NEW s \in Discoverers,
                tick'[q].pc = "persist", tick'[s].pc = "persist", q # s
         PROVE  tick'[q].import # tick'[s].import
    BY <1>t, <2>7, <2>10 DEF ImportInv
  <2>11. ASSUME NEW q \in Discoverers, tick'[q].pc \in {"job", "persist"}, Holds(q)',
                NEW j \in DOMAIN discoveryImports', discoveryImports'[j].status = "SUCCEEDED",
                discoveryImports'[j].checksum = tick'[q].checksum
         PROVE  discoveryImports'[j].late
    <3>1. q # p /\ tick'[q] = tick[q] /\ Holds(q)
      BY <2>7, <2>8, <2>11
    <3>2. CASE j = i
      BY <1>t, <2>3, <3>1, <3>2, OneHolder
    <3>3. CASE j # i
      BY <1>t, <2>3, <2>11, <3>1, <3>3 DEF ImportInv
    <3> QED
      BY <3>2, <3>3
  <2>12. ImportInv'
    BY <2>5, <2>9, <2>10, <2>11 DEF ImportInv
  <2>13. ASSUME NEW j \in DOMAIN discoveryImports, j # i,
                discoveryImports[j].checksum = tick[p].checksum,
                discoveryImports[j].status = "SUCCEEDED"
         PROVE  discoveryImports[j].late \/ discoveryImports'[i].late
    BY <1>t, <2>2, <2>3, <2>13 DEF ImportInv
  <2>14. ASSUME NEW j \in DOMAIN discoveryImports', NEW k \in DOMAIN discoveryImports', j # k,
                discoveryImports'[j].checksum = discoveryImports'[k].checksum,
                discoveryImports'[j].status = "SUCCEEDED",
                discoveryImports'[k].status = "SUCCEEDED"
         PROVE  discoveryImports'[j].late \/ discoveryImports'[k].late
    <3>1. CASE j = i
      BY <2>3, <2>13, <2>14, <3>1
    <3>2. CASE k = i
      BY <2>3, <2>13, <2>14, <3>2
    <3>3. CASE j # i /\ k # i
      BY <2>3, <2>14, <3>3 DEF ImportsRepeatOnlyLate
    <3> QED
      BY <3>1, <3>2, <3>3
  <2>15. ImportsRepeatOnlyLate'
    BY <2>14 DEF ImportsRepeatOnlyLate
  <2> QED
    BY <2>12, <2>15
<1>8. CASE ShopTimePasses
  <2>1. /\ UNCHANGED <<tick, discoveryImports>> /\ Discoverers' = Discoverers
        /\ shopTime' = shopTime + 1
    BY <1>8 DEF ShopTimePasses, Discoverers
  <2>2. \A p \in Discoverers : Holds(p)' => Holds(p)
    BY <1>t, <2>1, UntilIsTime DEF Holds
  <2>3. ImportInv'
    BY <1>t, <2>1, <2>2 DEF ImportInv
  <2> QED
    BY <1>u, <2>1, <2>3
<1>9. CASE LeasesEnd
  <2>1. /\ tick' = [p \in Discoverers |-> [tick[p] EXCEPT !.until = 0]]
        /\ UNCHANGED <<shopTime, discoveryImports>>
    BY <1>9 DEF LeasesEnd
  <2>2. Discoverers' = Discoverers
    BY <2>1 DEF Discoverers
  <2>3. \A p \in Discoverers :
          /\ tick'[p].until = 0 /\ tick'[p].pc = tick[p].pc
          /\ tick'[p].import = tick[p].import /\ tick'[p].checksum = tick[p].checksum
    BY <1>t, <2>1, ShopTypesNamed DEF TickRow
  <2>4. \A p \in Discoverers : ~ Holds(p)'
    BY <1>t, <2>1, <2>2, <2>3, UntilIsTime DEF Holds
  <2>i. UNCHANGED discoveryImports
    BY <2>1
  <2>5. ASSUME NEW p \in Discoverers, tick'[p].pc = "persist"
        PROVE  /\ tick'[p].import \in DOMAIN discoveryImports
               /\ discoveryImports[tick'[p].import].status = "RUNNING"
               /\ discoveryImports[tick'[p].import].checksum = tick'[p].checksum
    BY <1>t, <2>3, <2>5 DEF ImportInv
  <2>6. ASSUME NEW p \in Discoverers, NEW q \in Discoverers,
               tick'[p].pc = "persist", tick'[q].pc = "persist", p # q
        PROVE  tick'[p].import # tick'[q].import
    BY <1>t, <2>3, <2>6 DEF ImportInv
  <2>7. ImportInv'
    BY <2>i, <2>2, <2>4, <2>5, <2>6 DEF ImportInv
  <2> QED
    BY <1>u, <2>i, <2>7
<1> QED
  BY <1>t, <1>u, <1>1, <1>2, <1>3, <1>4, <1>5, <1>6, <1>7, <1>8, <1>9, ShopEffects, Zenon

-----------------------------------------------------------------------------
\* The theorems.

LEMMA ShopStarts ==
    ASSUME ShopInit
    PROVE  ShopInv /\ ImportsRepeatOnlyLate
<1>1. PICK crew \in Crews : tick = [p \in crew |-> NotTicking]
  BY DEF ShopInit
<1>2. /\ discoveryRuns = <<>> /\ discoveryImports = <<>> /\ discoveryLock = FreeLock
      /\ shopTime = 0 /\ shopFaults = 0
  BY DEF ShopInit
<1>3. Discoverers = crew
  BY <1>1 DEF Discoverers
<1>4. \A p \in Discoverers : tick[p] = NotTicking
  BY <1>1, <1>3
<1>5. ShopTypeOK
  <2>1. tick \in [Discoverers -> TickRow] /\ DOMAIN tick \in Crews
    BY <1>1, <1>3, Resting
  <2>2. discoveryRuns \in Seq(RunRow) /\ discoveryImports \in Seq(ImportRow)
    BY <1>2
  <2>3. discoveryLock \in LockRow
    BY <1>2 DEF FreeLock, LockRow
  <2> QED
    BY <1>2, <2>1, <2>2, <2>3, ShopTypesNamed
<1>6. NotTicking.pc = "idle" /\ NotTicking.run = NoTick /\ NotTicking.stale = NoTick
      /\ NotTicking.until = 0
  BY DEF NotTicking
<1>7. LastInv
  BY <1>2 DEF LastInv
<1>8. ShapeInv
  BY <1>4, <1>6 DEF ShapeInv, Shaped, Works
<1>9. LockInv
  BY <1>2, <1>4, <1>6 DEF LockInv, Holds
<1>10. RunInv
  BY <1>4, <1>6 DEF RunInv
<1>11. ImportInv
  BY <1>4, <1>6 DEF ImportInv
<1>12. ImportsRepeatOnlyLate
  BY <1>2 DEF ImportsRepeatOnlyLate
<1> QED
  BY <1>5, <1>7, <1>8, <1>9, <1>10, <1>11, <1>12 DEF ShopInv

LEMMA ShopSteps ==
    ASSUME ShopInv, ImportsRepeatOnlyLate, [ShopNext]_shopVars
    PROVE  ShopInv' /\ ImportsRepeatOnlyLate'
<1>1. CASE ShopNext
  BY <1>1, TypeStep, LastStep, ShapeStep, LockStep, RunStep, ImportStep DEF ShopInv
<1>2. CASE UNCHANGED shopVars
  <2>1. UNCHANGED <<tick, discoveryRuns, discoveryImports, discoveryLock, shopTime, shopFaults>>
    BY <1>2 DEF shopVars
  <2> QED
    BY <2>1
    DEF ShopInv, ShopTypeOK, LastInv, ShapeInv, LockInv, RunInv, ImportInv, Holds,
        ImportsRepeatOnlyLate, Discoverers
<1> QED
  BY <1>1, <1>2

LEMMA ShopAlways == ShopSpec => [](ShopInv /\ ImportsRepeatOnlyLate)
<1>1. ShopInit => ShopInv /\ ImportsRepeatOnlyLate
  BY ShopStarts
<1>2. (ShopInv /\ ImportsRepeatOnlyLate) /\ [ShopNext]_shopVars
        => (ShopInv /\ ImportsRepeatOnlyLate)'
  BY ShopSteps
<1> QED
  BY <1>1, <1>2, PTL DEF ShopSpec

(* The ticks, the runs, the imports and the lock keep their types, for any    *)
(* workers and commands that run together.                                    *)
THEOREM ShopTypeCorrect == ShopSpec => []ShopTypeOK
<1>1. ShopInv => ShopTypeOK
  BY DEF ShopInv
<1> QED
  BY <1>1, ShopAlways, PTL

(* A catalogue is imported twice only if one of the imports finished after    *)
(* the lock it was made under had expired (remote-discovery.ts: the lookup by *)
(* checksum and the import are made under the lock of the discovery).         *)
THEOREM ImportsRepeatLate == ShopSpec => []ImportsRepeatOnlyLate
BY ShopAlways, PTL

LEMMA OutcomeStands ==
    ASSUME ShopInv, ShopNext, NEW r \in DOMAIN discoveryRuns,
           discoveryRuns[r].status \notin {"RUNNING", discoveryRuns'[r].status}
    PROVE  \E p \in Discoverers : tick[p].run = r /\ (Overran(p) \/ Unheard(p, r))
<1>t. ShopTypeOK /\ LastInv /\ ShapeInv /\ RunInv
  BY DEF ShopInv
<1>1. discoveryRuns'[r] # discoveryRuns[r]
  OBVIOUS
<1>2. ASSUME NEW p \in Discoverers, NEW row, \/ Quiet(p, row) \/ Takes(p, row)
                                             \/ Jobs(p, row) \/ Imports(p, row)
      PROVE  FALSE
  BY <1>1, <1>2 DEF Quiet, Takes, Jobs, Imports
<1>3. ASSUME NEW p \in Discoverers, NEW row, NEW s, Abandons(p, row, s)
      PROVE  FALSE
  <2>1. s \in DOMAIN discoveryRuns /\ discoveryRuns[s].status = "RUNNING" /\ s # r
    BY <1>3 DEF Abandons
  <2>2. discoveryRuns'[r] = discoveryRuns[r]
    BY <1>t, <1>3, <2>1, RunChanged DEF Abandons
  <2> QED
    BY <1>1, <2>2
<1>4. ASSUME NEW p \in Discoverers, NEW row, NEW run, Starts(p, row, run)
      PROVE  FALSE
  <2>1. discoveryRuns \in Seq(RunRow) /\ run \in RunRow
        /\ discoveryRuns' = Append(discoveryRuns, run)
    BY <1>t, <1>4, ShopTypesNamed DEF Starts
  <2>2. discoveryRuns'[r] = discoveryRuns[r]
    BY <2>1, Appended
  <2> QED
    BY <1>1, <2>2
<1>5. ASSUME NEW p \in Discoverers, NEW row, NEW s, NEW outcome,
             Finishes(p, row, s, outcome)
      PROVE  tick[p].run = r /\ (Overran(p) \/ Unheard(p, r))
  <2>1. s = r
    <3>1. s # r => discoveryRuns'[r] = discoveryRuns[r]
      BY <1>t, <1>5, RunChanged DEF Finishes
    <3> QED
      BY <1>1, <3>1
  <2>2. /\ tick[p].run = r /\ tick[p].pc \in {"finish", "catch"}
        /\ r # NoTick
    <3>1. tick[p].run = r /\ tick[p].pc \in {"finish", "catch"}
      BY <1>5, <2>1 DEF Finishes
    <3> QED
      BY <1>t, <3>1, OneKind DEF ShapeInv, Shaped, Works
  <2>3. CASE ~ Holds(p)
    BY <1>t, <2>2, <2>3, UntilIsTime DEF Holds, Overran
  <2>4. CASE Holds(p)
    <3>1. tick[p].pc = "catch"
      BY <1>t, <2>2, <2>4 DEF RunInv, Works
    <3>2. discoveryRuns[r].status \in {"RUNNING", tick[p].outcome}
      BY <1>t, <2>2, <2>4, <3>1 DEF RunInv
    <3> QED
      BY <2>2, <3>1, <3>2 DEF Unheard
  <2> QED
    BY <2>3, <2>4
<1>6. CASE ShopTimePasses \/ LeasesEnd
  BY <1>1, <1>6 DEF ShopTimePasses, LeasesEnd
<1> QED
  BY <1>t, <1>2, <1>3, <1>4, <1>5, <1>6, ShopEffects, Zenon

(* The outcome of a run stands; a process writes over that of its own run,    *)
(* and only if its lock has expired or if it did not hear that its outcome    *)
(* was written and its catch makes it FAILED (scheduled-discovery.ts: finish  *)
(* and the catch update by id, finishAbandoned only a run that is RUNNING).   *)
THEOREM RunOutcomesStand == ShopSpec => OutcomesStand
<1>1. ShopInv /\ [ShopNext]_shopVars =>
        [\A r \in DOMAIN discoveryRuns :
           discoveryRuns[r].status \notin {"RUNNING", discoveryRuns'[r].status} =>
             \E p \in Discoverers : tick[p].run = r /\ (Overran(p) \/ Unheard(p, r))]_shopVars
  BY OutcomeStands
<1> QED
  BY <1>1, ShopAlways, PTL DEF ShopSpec, OutcomesStand

-----------------------------------------------------------------------------
\* Part 5: rows, and what others may do to them.

\* A least element, which SMT does not find of its own: the sets 0 .. n are
\* well-founded under inclusion.
LEMMA LeastNatural ==
    ASSUME NEW S \in SUBSET Nat, S # {}
    PROVE  \E n \in S : \A m \in S : n <= m
<1> DEFINE Below == {0 .. n : n \in S}
<1>1. Below \subseteq FiniteSubsetsOf(Nat) /\ Below # {}
  <2>1. \A n \in S : 0 .. n \in SUBSET Nat /\ IsFiniteSet(0 .. n)
    BY FS_Interval
  <2> QED
    BY <2>1 DEF FiniteSubsetsOf
<1>2. PICK least \in Below : \A B \in Below : <<B, least>> \notin StrictSubsetOrdering(Nat)
  BY <1>1, FS_StrictSubsetOrderingWellFounded, WFMin
<1>3. PICK n \in S : least = 0 .. n
  BY <1>2
<1>4. ASSUME NEW m \in S, m < n
      PROVE  FALSE
  <2>1. 0 .. m \in Below /\ 0 .. m \in SUBSET Nat /\ 0 .. n \in SUBSET Nat
    OBVIOUS
  <2>2. 0 .. m \subseteq 0 .. n /\ n \in 0 .. n /\ n \notin 0 .. m
    BY <1>4
  <2>3. <<0 .. m, 0 .. n>> \in StrictSubsetOrdering(Nat)
    BY <2>1, <2>2 DEF StrictSubsetOrdering
  <2> QED
    BY <1>2, <1>3, <2>1, <2>3
<1> QED
  BY <1>4

-----------------------------------------------------------------------------
AllPairs == ShopOffers \X ShopChannels

Rows == [status : {"NONE", "SCHEDULED", "AWAITING_MANUAL_PUBLICATION",
                   "PUBLISHED", "FAILED", "PUBLICATION_FAILED", "CANCELLED"},
         dist : {"NONE", "PLANNED", "SCHEDULED"},
         at : 0 .. MaxDistTime + 1, sentAt : {NoTime} \cup 0 .. MaxDistTime]

OfferStates == {"READY_TO_PUBLISH", "SCHEDULED", "PUBLISHED", "REJECTED_EXPIRED"}

\* The choice in hand: a pair of the setting while one is placed or activated.
Hands ==
  /\ DOMAIN cycle = DOMAIN CycleAtRest /\ DOMAIN command = DOMAIN NoCommand
  /\ cycle.pc \in {"idle", "choose", "place", "activate", "deliver"}
  /\ cycle.at \in 0 .. distTime /\ command.at \in 0 .. distTime
  /\ cycle.todo \subseteq Pairs /\ command.todo \subseteq Pairs
  /\ cycle.planned \in Nat
  /\ cycle.pair \in Pairs \cup {NoPair} /\ command.pair \in Pairs \cup {NoPair}
  /\ cycle.pc \in {"place", "activate"} <=> cycle.pair \in Pairs
  /\ command.pc = "create" <=> command.pair \in Pairs
  /\ cycle.pc \in {"idle", "deliver"} => cycle.today = <<>> /\ cycle.last = <<>>
  /\ cycle.today \in [DOMAIN cycle.today -> Nat]
  /\ cycle.last \in [DOMAIN cycle.today -> Nat \cup {NoTime}]
  /\ DOMAIN cycle.today \subseteq Zones

DistTypes ==
  /\ setting \in [offers : SUBSET ShopOffers, channels : SUBSET ShopChannels,
                  clerks : SUBSET Clerks, commands : Nat, failures : Nat]
  /\ IsFiniteSet(setting.offers) /\ IsFiniteSet(setting.channels)
  /\ distRow \in [setting.offers \X setting.channels -> Rows]
  /\ offerState \in [setting.offers -> OfferStates]
  /\ distTime \in 0 .. MaxDistTime
  /\ Hands
  /\ \A f \in DOMAIN forms : forms[f].row \in Pairs \cup {NoPair}
  /\ cameBack \subseteq Pairs

Assisted(p) == ChannelKind[p[2]] = "ASSISTED"

\* What holds of every row, whoever wrote it last.
RowGood(p, row, now) ==
  /\ Assisted(p) => row.status \notin {"SCHEDULED", "FAILED"}
  /\ ~Assisted(p) /\ row.status = "AWAITING_MANUAL_PUBLICATION" => row.dist = "PLANNED"
  /\ row.status = "FAILED" \/ row.at <= now
  /\ row.sentAt # NoTime => row.at <= row.sentAt
  /\ ~Assisted(p) /\ row.sentAt # NoTime => row.status = "PUBLISHED"
  /\ row.status = "NONE" => row = NoRow

\* What is still true of a row in hand.
InHand ==
  /\ cycle.pc = "activate" =>
       /\ ~Assisted(cycle.pair)
       /\ distRow[cycle.pair].dist = "PLANNED"
       /\ distRow[cycle.pair].status \in {"AWAITING_MANUAL_PUBLICATION", "CANCELLED"}
  /\ cycle.pc = "deliver" =>
       \A p \in cycle.todo : ~Assisted(p) /\ distRow[p].status \in {"SCHEDULED", "CANCELLED"}
  /\ \A f \in DOMAIN forms : forms[f].row # NoPair =>
       Assisted(forms[f].row) /\ distRow[forms[f].row].status # "NONE"

OnDay(d) == {p \in DistributedRows : Day(distRow[p].at) = d}

Planning == cycle.pc \in {"choose", "place", "activate"}

\* The zones' counts keep up with what is planned: each for itself, so that
\* with several zones each may lag behind by what the others planned.
CountsKeepUp ==
  Planning => \A z \in DOMAIN cycle.today :
    Cardinality(OnDay(Day(cycle.at)))
      <= cycle.today[z] + (IF Cardinality(Zones) > 1 THEN cycle.planned ELSE 0)

\* The zones' last publications: whatever the worker distributes was then, before, or now.
LastIsLast ==
  Planning => \A z \in DOMAIN cycle.last : \A p \in DistributedRows :
    ChannelKind[p[2]] = "TELEGRAM" =>
      \/ distRow[p].at = cycle.at
      \/ cycle.last[z] # NoTime /\ distRow[p].at <= cycle.last[z]

\* A pair in hand was allowed by its zone's numbers.
HandIsAllowed ==
  cycle.pc \in {"place", "activate"} =>
    LET z == ZoneOf[cycle.pair[2]]
    IN  z \in DOMAIN cycle.today /\ PolicyAllows(cycle.planned, cycle.today[z], cycle.last[z], cycle.at)

DistInv ==
  /\ DistTypes
  /\ \A p \in Pairs : RowGood(p, distRow[p], distTime)
  /\ InHand
  /\ CountsKeepUp /\ LastIsLast /\ HandIsAllowed
  /\ ShopeeLimitsHold


-----------------------------------------------------------------------------
CycleFields == {"pc", "at", "seen", "todo", "done", "pair", "planned", "today", "last"}
CommandFields == {"pc", "at", "todo", "pair", "planned"}

LEMMA FieldsNamed == DOMAIN CycleAtRest = CycleFields /\ DOMAIN NoCommand = CommandFields
BY DEF CycleAtRest, NoCommand, CycleFields, CommandFields

LEMMA PairsAreFinite ==
    ASSUME DistTypes
    PROVE  /\ Pairs = setting.offers \X setting.channels /\ Pairs \subseteq AllPairs
           /\ IsFiniteSet(Pairs) /\ IsFiniteSet(Zones)
           /\ NoPair \notin Pairs
           /\ \A S \in SUBSET Pairs : IsFiniteSet(S) /\ Cardinality(S) \in Nat
<1>1. Pairs = setting.offers \X setting.channels
  BY DEF DistTypes, Pairs
<1>2. IsFiniteSet(Pairs)
  BY <1>1, FS_Product DEF DistTypes
<1>3. Pairs \subseteq AllPairs
  BY <1>1 DEF DistTypes, AllPairs
<1>4. IsFiniteSet(Zones)
  <2>1. Zones = {ZoneOf[p[2]] : p \in Pairs}
    BY DEF Zones
  <2> DEFINE f == [p \in Pairs |-> ZoneOf[p[2]]]
  <2>2. f \in Surjection(Pairs, Zones)
    BY <2>1 DEF Surjection
  <2> QED
    BY <1>2, <2>2, FS_Surjection
<1>5. \A S \in SUBSET Pairs : IsFiniteSet(S) /\ Cardinality(S) \in Nat
  BY <1>2, FS_Subset, FS_CardinalityType
<1>6. NoPair \notin Pairs
  BY <1>3, DistributionAssumption DEF AllPairs
<1> QED
  BY <1>1, <1>2, <1>3, <1>4, <1>5, <1>6

LEMMA FirstIsOne ==
    ASSUME DistTypes, NEW todo \in SUBSET Pairs, NEW behind, todo # {}
    PROVE  First(todo, behind) \in todo
<1> DEFINE soon == {p \in todo : p[1] \notin behind}
           next == IF soon = {} THEN todo ELSE soon
           ranks == {Rank[p] : p \in next}
<1>0. Pairs \subseteq AllPairs
  BY PairsAreFinite
<1>1. next \subseteq todo /\ next # {}
  OBVIOUS
<1>2. ranks \in SUBSET Nat /\ ranks # {}
  BY <1>0, <1>1, DistributionAssumption DEF AllPairs
<1>3. PICK least \in ranks : \A r \in ranks : least <= r
  BY <1>2, LeastNatural, Zenon
<1>4. \E p \in next : \A q \in next : Rank[p] <= Rank[q]
  BY <1>3
<1>5. First(todo, behind) = CHOOSE p \in next : \A q \in next : Rank[p] <= Rank[q]
  BY DEF First
<1> QED
  BY <1>1, <1>4, <1>5

\* Half of what a write to a row does.
LEMMA WriteRow ==
    ASSUME DistTypes, NEW p \in Pairs, NEW row \in Rows, Write(p, row)
    PROVE  /\ distRow' \in [Pairs -> Rows] /\ Pairs' = Pairs
           /\ distRow'[p] = row
           /\ \A q \in Pairs : q # p => distRow'[q] = distRow[q]
           /\ cameBack \subseteq cameBack' /\ cameBack' \subseteq Pairs
           /\ distRow[p].status \notin Counted \cup {"NONE"} /\ row.status \in Counted => p \in cameBack'
<1>1. distRow \in [Pairs -> Rows] /\ cameBack \subseteq Pairs
  BY DEF DistTypes, Pairs
<1>2. distRow' = [distRow EXCEPT ![p] = row]
  BY DEF Write
<1>3. /\ distRow' \in [Pairs -> Rows]
      /\ distRow'[p] = row
      /\ \A q \in Pairs : q # p => distRow'[q] = distRow[q]
  BY <1>1, <1>2
<1>4. Pairs' = Pairs
  BY <1>1, <1>3 DEF Pairs
<1>5. /\ cameBack \subseteq cameBack' /\ cameBack' \subseteq Pairs
      /\ distRow[p].status \notin Counted \cup {"NONE"} /\ row.status \in Counted => p \in cameBack'
  BY <1>1 DEF Write
<1> QED
  BY <1>3, <1>4, <1>5

\* The other half: what it does to the rows that count for the limits.
LEMMA WriteDistributed ==
    ASSUME DistTypes, NEW p \in Pairs, NEW row \in Rows, Write(p, row)
    PROVE  \A q \in DistributedRows' :
             \/ q \in DistributedRows /\ q # p /\ distRow'[q] = distRow[q]
             \/ /\ q = p /\ row.status \in Counted /\ row.dist # "PLANNED"
                /\ p \notin cameBack
                /\ distRow[p].status \in Counted \cup {"NONE"}
<1> SUFFICES ASSUME NEW q \in DistributedRows'
             PROVE  \/ q \in DistributedRows /\ q # p /\ distRow'[q] = distRow[q]
                    \/ /\ q = p /\ row.status \in Counted /\ row.dist # "PLANNED"
                       /\ p \notin cameBack
                       /\ distRow[p].status \in Counted \cup {"NONE"}
  OBVIOUS
<1>1. /\ q \in Pairs' /\ q \notin cameBack'
      /\ distRow'[q].status \in Counted /\ distRow'[q].dist # "PLANNED"
  BY DEF DistributedRows, Counted
<1>2. CASE q = p
  BY <1>1, <1>2, WriteRow
<1>3. CASE q # p
  BY <1>1, <1>3, WriteRow DEF DistributedRows
<1> QED
  BY <1>2, <1>3


-----------------------------------------------------------------------------
\* Rows after a step.

RowsWell ==
  /\ distRow \in [Pairs -> Rows] /\ cameBack \subseteq Pairs
  /\ \A p \in Pairs : RowGood(p, distRow[p], distTime)

LEMMA RowsAreWell ==
    ASSUME DistInv
    PROVE  RowsWell
BY DEF DistInv, DistTypes, RowsWell, Pairs

\* The program writes one row, or leaves it as it is.
LEMMA RowWritten ==
    ASSUME DistInv, NEW p \in Pairs, NEW row \in Rows, RowGood(p, row, distTime),
           Write(p, row), UNCHANGED distTime
    PROVE  RowsWell' /\ Pairs' = Pairs
<1>1. RowsWell /\ DistTypes
  BY RowsAreWell DEF DistInv
<1>2. /\ distRow' \in [Pairs -> Rows] /\ Pairs' = Pairs /\ cameBack' \subseteq Pairs
      /\ distRow'[p] = row
      /\ \A q \in Pairs : q # p => distRow'[q] = distRow[q]
  BY <1>1, WriteRow
<1>3. \A q \in Pairs : RowGood(q, distRow'[q], distTime)
  BY <1>1, <1>2 DEF RowsWell
<1> QED
  BY <1>2, <1>3 DEF RowsWell, RowGood, Assisted

LEMMA RowsUnwritten ==
    ASSUME DistInv, UNCHANGED <<distRow, cameBack>>, distTime' \in Nat, distTime' >= distTime
    PROVE  RowsWell' /\ Pairs' = Pairs
<1>1. RowsWell /\ Pairs' = Pairs /\ distTime \in Nat
  BY RowsAreWell, DistributionAssumption DEF Pairs, DistInv, DistTypes
<1>2. ASSUME NEW q \in Pairs
      PROVE  RowGood(q, distRow[q], distTime')
  <2>1. distRow[q].at \in Nat /\ RowGood(q, distRow[q], distTime)
    BY <1>1, DistributionAssumption DEF RowsWell, Rows
  <2> QED
    BY <1>1, <2>1 DEF RowGood
<1>3. distRow' \in [Pairs' -> Rows] /\ cameBack' \subseteq Pairs'
  BY <1>1 DEF RowsWell
<1> QED
  BY <1>1, <1>2, <1>3 DEF RowsWell, RowGood, Assisted

\* The rows the commands write.
LEMMA TimesNumbered ==
    ASSUME DistInv
    PROVE  /\ MaxDistTime \in Nat /\ distTime \in 0 .. MaxDistTime
           /\ cycle.at \in 0 .. distTime /\ command.at \in 0 .. distTime
           /\ NoTime \notin Nat
           /\ distTime \in 0 .. MaxDistTime + 1 /\ cycle.at \in 0 .. MaxDistTime + 1
           /\ command.at \in 0 .. MaxDistTime + 1 /\ cycle.at + 1 \in 0 .. MaxDistTime + 1
<1>1. /\ MaxDistTime \in Nat /\ NoTime \notin Nat
      /\ distTime \in 0 .. MaxDistTime
      /\ cycle.at \in 0 .. distTime /\ command.at \in 0 .. distTime
  BY DistributionAssumption DEF DistInv, DistTypes, Hands
<1>2. cycle.at \in Nat /\ command.at \in Nat /\ cycle.at <= MaxDistTime /\ command.at <= MaxDistTime
  BY <1>1
<1> QED
  BY <1>1, <1>2

LEMMA RowFields ==
    ASSUME DistInv, NEW p \in Pairs
    PROVE  /\ distRow[p] \in Rows /\ RowGood(p, distRow[p], distTime)
           /\ distRow[p].at \in 0 .. MaxDistTime + 1
           /\ distRow[p].sentAt \in {NoTime} \cup 0 .. MaxDistTime
BY RowsAreWell DEF RowsWell, Rows

\* Who writes a row, and what is known of the row before and after.
Reason(p, row) ==
  \/ /\ cycle.pc \in {"place", "activate"} /\ cycle'.pc = "choose"
     /\ p = cycle.pair /\ row.at = cycle.at
  \/ /\ \/ cycle.pc = "deliver" /\ p \in cycle.todo /\ cycle'.todo = cycle.todo \ {p}
        \/ Assisted(p) /\ UNCHANGED cycle
     /\ distRow[p].status # "NONE"
     /\ row.dist = distRow[p].dist /\ (row.at = distRow[p].at \/ row.status = "FAILED")
  \/ distRow[p].status = "FAILED" /\ UNCHANGED cycle
  \/ distRow[p].status = "NONE" /\ row.dist = "PLANNED" /\ UNCHANGED cycle

Wrote ==
  \E p \in Pairs, row \in Rows :
    /\ Write(p, row) /\ UNCHANGED distTime
    /\ RowGood(p, row, distTime) /\ row.status # "NONE"
    /\ Reason(p, row)

LEMMA PlannedPc ==
    ASSUME DistInv, PlacePair \/ ActivatePair
    PROVE  cycle'.pc = "choose"
<1>1. PICK n, done, today :
        cycle' = [cycle EXCEPT !.pc = "choose", !.pair = NoPair, !.planned = n, !.done = done,
                               !.today = today]
  BY DEF PlacePair, ActivatePair, PlannedOne
<1> QED
  BY <1>1, FieldsNamed DEF DistInv, DistTypes, Hands, CycleFields

LEMMA PlacePairRows ==
    ASSUME DistInv, PlacePair
    PROVE  UNCHANGED <<distRow, cameBack, distTime>> \/ Wrote
<1>1. PICK p : p = cycle.pair
  OBVIOUS
<1>2. p \in Pairs
  BY <1>1 DEF PlacePair, DistInv, DistTypes, Hands
<1>3. CASE distRow[p].status = "NONE"
  <2>1. PICK row : row = [NoRow EXCEPT !.at = cycle.at,
                             !.status = IF ChannelKind[p[2]] = "ASSISTED"
                                        THEN "AWAITING_MANUAL_PUBLICATION" ELSE "SCHEDULED"]
    OBVIOUS
  <2>2. Write(p, row) /\ UNCHANGED distTime
    BY <1>1, <1>3, <2>1 DEF PlacePair
  <2>3. /\ row.status = (IF Assisted(p) THEN "AWAITING_MANUAL_PUBLICATION" ELSE "SCHEDULED") /\ row.dist = "NONE"
        /\ row.at = cycle.at /\ row.sentAt = NoTime
    BY <2>1 DEF NoRow, Assisted
  <2>4. row \in Rows
    BY <2>1, <2>3, TimesNumbered DEF Rows, NoRow
  <2>5. RowGood(p, row, distTime)
    BY <2>3, TimesNumbered DEF RowGood, Assisted
  <2>6. Reason(p, row) /\ row.status # "NONE"
    BY <1>1, <2>3, PlannedPc DEF Reason, PlacePair
  <2> QED
    BY <1>2, <2>2, <2>4, <2>5, <2>6 DEF Wrote
<1>4. CASE distRow[p].status # "NONE"
  BY <1>1, <1>4 DEF PlacePair
<1> QED
  BY <1>3, <1>4

LEMMA ActivatePairRows ==
    ASSUME DistInv, ActivatePair
    PROVE  Wrote
<1>1. PICK p : p = cycle.pair
  OBVIOUS
<1>2. p \in Pairs
  BY <1>1 DEF ActivatePair, DistInv, DistTypes, Hands
<1>3. /\ ~Assisted(p) /\ distRow[p].dist = "PLANNED"
      /\ distRow[p].status \in {"AWAITING_MANUAL_PUBLICATION", "CANCELLED"}
  BY <1>1 DEF ActivatePair, DistInv, InHand
<1>4. PICK row : row = [distRow[p] EXCEPT !.status = "SCHEDULED", !.at = cycle.at,
                                        !.dist = "SCHEDULED"]
  OBVIOUS
<1>5. Write(p, row) /\ UNCHANGED distTime
  BY <1>1, <1>4 DEF ActivatePair
<1>6. row \in Rows
  BY <1>2, <1>4, TimesNumbered, RowFields DEF Rows
<1>7. row.status = "SCHEDULED" /\ row.at = cycle.at /\ row.sentAt = distRow[p].sentAt
  BY <1>2, <1>4, RowFields DEF Rows
<1>8. distRow[p].sentAt = NoTime
  BY <1>2, <1>3, RowFields DEF RowGood
<1>9. RowGood(p, row, distTime)
  BY <1>3, <1>7, <1>8, TimesNumbered DEF RowGood
<1>10. Reason(p, row)
  BY <1>1, <1>7, PlannedPc DEF Reason, ActivatePair
<1> QED
  BY <1>2, <1>5, <1>6, <1>7, <1>9, <1>10 DEF Wrote

\* The row a delivery or a form leaves behind.
LEMMA OutcomeRows ==
    ASSUME DistInv, NEW p \in Pairs, NEW row,
           distRow[p].status \notin {"NONE", "FAILED"},
           ~Assisted(p) => distRow[p].status \in {"SCHEDULED", "CANCELLED"},
           \/ row = [distRow[p] EXCEPT !.status = "PUBLISHED", !.sentAt = distTime]
           \/ ~Assisted(p) /\ row = [distRow[p] EXCEPT !.status = "FAILED", !.at = cycle.at + 1]
           \/ row = [distRow[p] EXCEPT !.status = "PUBLICATION_FAILED"]
           \/ row = [distRow[p] EXCEPT !.status = "CANCELLED"]
    PROVE  /\ row \in Rows /\ RowGood(p, row, distTime) /\ row.status # "NONE"
           /\ row.dist = distRow[p].dist /\ (row.at = distRow[p].at \/ row.status = "FAILED")
<1>1. PICK old : old = distRow[p]
  OBVIOUS
<1>2. /\ old \in Rows /\ RowGood(p, old, distTime)
      /\ old.at \in 0 .. MaxDistTime + 1 /\ old.sentAt \in {NoTime} \cup 0 .. MaxDistTime
      /\ ~Assisted(p) => old.sentAt = NoTime
  <2>1. /\ old \in Rows /\ RowGood(p, old, distTime)
        /\ old.at \in 0 .. MaxDistTime + 1 /\ old.sentAt \in {NoTime} \cup 0 .. MaxDistTime
    BY <1>1, RowFields
  <2> QED
    BY <1>1, <2>1 DEF RowGood
<1>3. CASE row = [old EXCEPT !.status = "PUBLISHED", !.sentAt = distTime]
  <2>1. /\ row \in Rows /\ row.status = "PUBLISHED" /\ row.sentAt = distTime /\ row.at = old.at
        /\ row.dist = old.dist
    BY <1>2, <1>3, TimesNumbered DEF Rows
  <2>2. RowGood(p, row, distTime)
    BY <1>1, <1>2, <2>1, TimesNumbered DEF RowGood
  <2> QED
    BY <1>1, <2>1, <2>2
<1>4. CASE ~Assisted(p) /\ row = [old EXCEPT !.status = "FAILED", !.at = cycle.at + 1]
  <2>1. /\ row \in Rows /\ row.status = "FAILED" /\ row.sentAt = old.sentAt /\ row.dist = old.dist
    BY <1>2, <1>4, TimesNumbered DEF Rows
  <2>2. RowGood(p, row, distTime)
    BY <1>1, <1>2, <1>4, <2>1, TimesNumbered DEF RowGood
  <2> QED
    BY <1>1, <2>1, <2>2
<1>5. CASE \/ row = [old EXCEPT !.status = "PUBLICATION_FAILED"]
           \/ row = [old EXCEPT !.status = "CANCELLED"]
  <2>1. /\ row \in Rows /\ row.status \in {"PUBLICATION_FAILED", "CANCELLED"}
        /\ row.sentAt = old.sentAt /\ row.at = old.at /\ row.dist = old.dist
    BY <1>2, <1>5, TimesNumbered DEF Rows
  <2>2. RowGood(p, row, distTime)
    BY <1>1, <1>2, <2>1, TimesNumbered DEF RowGood
  <2> QED
    BY <1>1, <2>1, <2>2
<1> QED
  BY <1>1, <1>3, <1>4, <1>5

LEMMA DeliverRowRows ==
    ASSUME DistInv, DeliverRow
    PROVE  UNCHANGED <<distRow, cameBack, distTime>> \/ Wrote
<1>1. UNCHANGED distTime /\ cycle.pc = "deliver"
  BY DEF DeliverRow
<1>2. PICK p \in cycle.todo :
        /\ cycle' = [cycle EXCEPT !.todo = @ \ {p}]
        /\ \/ UNCHANGED <<distRow, cameBack>>
           \/ \E row : /\ Write(p, row)
                       /\ \/ row = [distRow[p] EXCEPT !.status = "PUBLISHED", !.sentAt = distTime]
                          \/ row = [distRow[p] EXCEPT !.status = "FAILED", !.at = cycle.at + 1]
                          \/ row = [distRow[p] EXCEPT !.status = "PUBLICATION_FAILED"]
                          \/ row = [distRow[p] EXCEPT !.status = "CANCELLED"]
  BY DEF DeliverRow
<1>3. p \in Pairs /\ ~Assisted(p) /\ distRow[p].status \in {"SCHEDULED", "CANCELLED"}
  BY <1>1 DEF DistInv, DistTypes, Hands, InHand
<1>4. cycle'.todo = cycle.todo \ {p}
  BY <1>2, FieldsNamed DEF DistInv, DistTypes, Hands, CycleFields
<1>5. CASE ~ UNCHANGED <<distRow, cameBack>>
  <2>1. PICK row : /\ Write(p, row)
                   /\ \/ row = [distRow[p] EXCEPT !.status = "PUBLISHED", !.sentAt = distTime]
                      \/ row = [distRow[p] EXCEPT !.status = "FAILED", !.at = cycle.at + 1]
                      \/ row = [distRow[p] EXCEPT !.status = "PUBLICATION_FAILED"]
                      \/ row = [distRow[p] EXCEPT !.status = "CANCELLED"]
    BY <1>2, <1>5
  <2>2. /\ row \in Rows /\ RowGood(p, row, distTime) /\ row.status # "NONE"
        /\ row.dist = distRow[p].dist /\ (row.at = distRow[p].at \/ row.status = "FAILED")
    BY <1>3, <2>1, OutcomeRows
  <2>3. Reason(p, row)
    BY <1>1, <1>3, <1>4, <2>2 DEF Reason
  <2> QED
    BY <1>1, <1>3, <2>1, <2>2, <2>3 DEF Wrote
<1> QED
  BY <1>1, <1>5

LEMMA GiveVerdictRows ==
    ASSUME DistInv, NEW f \in DOMAIN forms, GiveVerdict(f)
    PROVE  Wrote
<1>1. PICK p : p = forms[f].row
  OBVIOUS
<1>2. /\ p \in Pairs /\ Assisted(p) /\ distRow[p].status # "NONE" /\ UNCHANGED <<cycle, distTime>>
  BY <1>1 DEF GiveVerdict, DistInv, DistTypes, InHand
<1>3. PICK row : /\ Write(p, row)
                 /\ \/ row = [distRow[p] EXCEPT !.status = "PUBLISHED", !.sentAt = distTime]
                    \/ row = [distRow[p] EXCEPT !.status = "PUBLICATION_FAILED"]
                    \/ row = [distRow[p] EXCEPT !.status = "CANCELLED"]
  BY <1>1 DEF GiveVerdict
<1>4. distRow[p].status \notin {"NONE", "FAILED"}
  BY <1>2, RowFields DEF RowGood
<1>5. /\ row \in Rows /\ RowGood(p, row, distTime) /\ row.status # "NONE"
      /\ row.dist = distRow[p].dist /\ (row.at = distRow[p].at \/ row.status = "FAILED")
  BY <1>2, <1>3, <1>4, OutcomeRows
<1>6. Reason(p, row)
  BY <1>2, <1>5 DEF Reason
<1> QED
  BY <1>2, <1>3, <1>5, <1>6 DEF Wrote

LEMMA RequeueRowRows ==
    ASSUME DistInv, RequeueRow
    PROVE  Wrote
<1>1. PICK p \in Pairs : /\ distRow[p].status = "FAILED" /\ distRow[p].at <= distTime
                         /\ Write(p, [distRow[p] EXCEPT !.status = "SCHEDULED", !.at = distTime])
  BY DEF RequeueRow
<1>2. PICK row : row = [distRow[p] EXCEPT !.status = "SCHEDULED", !.at = distTime]
  OBVIOUS
<1>3. row \in Rows /\ row.status = "SCHEDULED" /\ row.at = distTime
      /\ row.sentAt = distRow[p].sentAt
  BY <1>2, RowFields, TimesNumbered DEF Rows
<1>4. ~Assisted(p) /\ distRow[p].sentAt = NoTime
  BY <1>1, RowFields DEF RowGood
<1>5. RowGood(p, row, distTime)
  BY <1>3, <1>4, TimesNumbered DEF RowGood
<1>6. Reason(p, row) /\ UNCHANGED distTime
  BY <1>1 DEF Reason, RequeueRow
<1> QED
  BY <1>1, <1>2, <1>3, <1>5, <1>6 DEF Wrote

LEMMA CreateControlledRows ==
    ASSUME DistInv, CreateControlled
    PROVE  UNCHANGED <<distRow, cameBack, distTime>> \/ Wrote
<1>1. PICK p : p = command.pair
  OBVIOUS
<1>2. p \in Pairs
  BY <1>1 DEF CreateControlled, DistInv, DistTypes, Hands
<1>3. CASE distRow[p].status = "NONE"
  <2>1. PICK row : row = [NoRow EXCEPT !.status = "AWAITING_MANUAL_PUBLICATION",
                                        !.dist = "PLANNED", !.at = command.at]
    OBVIOUS
  <2>2. Write(p, row) /\ UNCHANGED <<cycle, distTime>>
    BY <1>1, <1>3, <2>1 DEF CreateControlled
  <2>3. /\ row.status = "AWAITING_MANUAL_PUBLICATION" /\ row.dist = "PLANNED"
        /\ row.at = command.at /\ row.sentAt = NoTime
    BY <2>1 DEF NoRow
  <2>4. row \in Rows
    BY <2>1, <2>3, TimesNumbered DEF Rows, NoRow
  <2>5. RowGood(p, row, distTime)
    BY <2>3, TimesNumbered DEF RowGood, Assisted
  <2>6. Reason(p, row)
    BY <1>3, <2>2, <2>3 DEF Reason
  <2> QED
    BY <1>2, <2>2, <2>3, <2>4, <2>5, <2>6 DEF Wrote
<1>4. CASE distRow[p].status # "NONE"
  BY <1>1, <1>4 DEF CreateControlled
<1> QED
  BY <1>3, <1>4

LEMMA ExpireRows ==
    ASSUME DistInv, ExpireStaleOffers
    PROVE  /\ RowsWell' /\ Pairs' = Pairs
           /\ \A p \in Pairs :
                \/ distRow'[p] = distRow[p]
                \/ /\ distRow[p].status \in {"SCHEDULED", "AWAITING_MANUAL_PUBLICATION"}
                   /\ distRow'[p].status = "CANCELLED" /\ distRow'[p].dist = distRow[p].dist
<1>1. PICK stale : distRow' = [p \in Pairs |->
            IF p[1] \in stale /\ distRow[p].status \in {"SCHEDULED", "AWAITING_MANUAL_PUBLICATION"}
            THEN [distRow[p] EXCEPT !.status = "CANCELLED"] ELSE distRow[p]]
  BY DEF ExpireStaleOffers
<1>2. Pairs' = Pairs /\ UNCHANGED <<distTime, cameBack>>
  BY <1>1 DEF Pairs, ExpireStaleOffers
<1>3. ASSUME NEW p \in Pairs
      PROVE  /\ distRow'[p] \in Rows /\ RowGood(p, distRow'[p], distTime)
             /\ \/ distRow'[p] = distRow[p]
                \/ /\ distRow[p].status \in {"SCHEDULED", "AWAITING_MANUAL_PUBLICATION"}
                   /\ distRow'[p].status = "CANCELLED" /\ distRow'[p].dist = distRow[p].dist
  <2>1. PICK old : old = distRow[p]
    OBVIOUS
  <2>2. old \in Rows /\ RowGood(p, old, distTime)
    BY <2>1, RowFields
  <2>3. CASE distRow'[p] = old
    BY <2>1, <2>2, <2>3
  <2>4. CASE /\ distRow'[p] = [old EXCEPT !.status = "CANCELLED"]
             /\ old.status \in {"SCHEDULED", "AWAITING_MANUAL_PUBLICATION"}
    <3>1. PICK row : row = [old EXCEPT !.status = "CANCELLED"]
      OBVIOUS
    <3>2. /\ row \in Rows /\ row.status = "CANCELLED" /\ row.at = old.at
          /\ row.sentAt = old.sentAt /\ row.dist = old.dist
      BY <2>2, <3>1 DEF Rows
    <3>3. RowGood(p, row, distTime)
      BY <2>2, <2>4, <3>2 DEF RowGood
    <3> QED
      BY <2>1, <2>4, <3>1, <3>2, <3>3
  <2> QED
    BY <1>1, <2>1, <2>3, <2>4
<1>4. distRow' \in [Pairs -> Rows] /\ cameBack' \subseteq Pairs
  <2>1. distRow' = [p \in Pairs |-> distRow'[p]]
    BY <1>1
  <2>2. cameBack \subseteq Pairs
    BY RowsAreWell DEF RowsWell
  <2> QED
    BY <1>2, <1>3, <2>1, <2>2
<1> QED
  BY <1>2, <1>3, <1>4 DEF RowsWell, RowGood, Assisted

\* Who writes rows in a step.
LEMMA WhoWrites ==
    ASSUME DistInv, [DistNext]_distVars
    PROVE  \/ UNCHANGED <<distRow, cameBack>> /\ distTime' \in {distTime, distTime + 1}
           \/ Wrote
           \/ ExpireStaleOffers
<1>1. CASE \/ StartCycle \/ ChoosePair \/ EndPlanning \/ EndCycle \/ StartCommandRun
           \/ ConsiderPair \/ (\E f \in DOMAIN forms : OpenForm(f)) \/ DistTimePasses
           \/ UNCHANGED distVars
  BY <1>1 DEF StartCycle, ChoosePair, EndPlanning, EndCycle, StartCommandRun,
              ConsiderPair, OpenForm, DistTimePasses, distVars
<1> QED
  BY <1>1, PlacePairRows, ActivatePairRows, DeliverRowRows, GiveVerdictRows, RequeueRowRows,
     CreateControlledRows DEF DistNext

LEMMA RowsStep ==
    ASSUME DistInv, [DistNext]_distVars
    PROVE  RowsWell' /\ Pairs' = Pairs
<1>1. CASE Wrote
  BY <1>1, RowWritten DEF Wrote
<1>2. CASE UNCHANGED <<distRow, cameBack>> /\ distTime' \in {distTime, distTime + 1}
  BY <1>2, RowsUnwritten, TimesNumbered
<1> QED
  BY <1>1, <1>2, ExpireRows, WhoWrites


-----------------------------------------------------------------------------
\* The worker's cycle after a step.

\* ChoosePair: p is left alone, or placed or activated, as its zone allows.
Chooses(p, last) ==
  LET z == ZoneOf[p[2]]
  IN  /\ cycle.pc = "choose" /\ p \in cycle.todo
      /\ DOMAIN cycle' = CycleFields
      /\ cycle'.at = cycle.at /\ cycle'.planned = cycle.planned
      /\ cycle'.todo = cycle.todo \ {p}
      /\ \/ cycle'.today = cycle.today /\ cycle'.last = cycle.last
         \/ /\ z \notin DOMAIN cycle.today
            /\ cycle'.today = WithZone(cycle.today, z, PublicationsToday(cycle.at))
            /\ cycle'.last = WithZone(cycle.last, z, last)
      /\ \/ cycle'.pc = "choose" /\ cycle'.pair = NoPair
         \/ /\ cycle'.pc \in {"place", "activate"} /\ cycle'.pair = p
            /\ z \in DOMAIN cycle'.today
            /\ PolicyAllows(cycle'.planned, cycle'.today[z], cycle'.last[z], cycle'.at)
            /\ cycle'.pc = "activate" =>
                 ChannelKind[p[2]] = "TELEGRAM" /\ IsControlled(distRow[p])

LEMMA ChoosePairCycle ==
    ASSUME DistInv, ChoosePair
    PROVE  \E p \in Pairs, last \in LastPublications : Chooses(p, last)
<1>1. /\ cycle.pc = "choose" /\ cycle.todo # {} /\ cycle.todo \subseteq Pairs
      /\ DOMAIN cycle = CycleFields
  BY FieldsNamed DEF ChoosePair, DistInv, DistTypes, Hands
<1> DEFINE late == {o \in setting.offers : cycle.seen[o] = "PUBLISHED"}
<1>2. PICK p \in cycle.todo : p = First(cycle.todo, late)
  BY <1>1, FirstIsOne DEF DistInv
<1> DEFINE z == ZoneOf[p[2]]
<1> DEFINE Choice(q, l, suits) ==
             LET read == ZoneRead(ZoneOf[q[2]], l)
                 allowed == /\ q[2] \notin cycle.done
                            /\ PolicyAllows(read.planned, read.today[ZoneOf[q[2]]],
                                            read.last[ZoneOf[q[2]]], read.at)
                            /\ ChannelKind[q[2]] = "ASSISTED" => HasPendingCapacity(q[2])
                            /\ suits
                 step == CASE allowed /\ distRow[q].status = "NONE" -> "place"
                           [] allowed /\ ChannelKind[q[2]] = "TELEGRAM" /\ IsControlled(distRow[q])
                                -> "activate"
                           [] OTHER -> "choose"
             IN  cycle' = [(IF q[2] \in cycle.done THEN cycle ELSE read) EXCEPT
                             !.pc = step, !.todo = @ \ {q},
                             !.pair = IF step = "choose" THEN NoPair ELSE q]
<1>3. PICK last \in LastPublications, suits \in BOOLEAN : Choice(p, last, suits)
  <2>1. \E l \in LastPublications, suits \in BOOLEAN : Choice(First(cycle.todo, late), l, suits)
    BY DEF ChoosePair
  <2> HIDE DEF Choice
  <2> QED
    BY <1>2, <2>1
<1>4. PICK read : read = ZoneRead(z, last)
  OBVIOUS
<1>5. /\ DOMAIN read = CycleFields
      /\ read.at = cycle.at /\ read.planned = cycle.planned /\ read.todo = cycle.todo
      /\ \/ read = cycle /\ z \in DOMAIN cycle.today
         \/ /\ z \notin DOMAIN cycle.today
            /\ read.today = WithZone(cycle.today, z, PublicationsToday(cycle.at))
            /\ read.last = WithZone(cycle.last, z, last)
  <2>1. CASE z \in DOMAIN cycle.today
    BY <1>1, <1>4, <2>1 DEF ZoneRead
  <2>2. CASE z \notin DOMAIN cycle.today
    <3>1. PICK today : today = WithZone(cycle.today, z, PublicationsToday(cycle.at))
      OBVIOUS
    <3>2. PICK before : before = WithZone(cycle.last, z, last)
      OBVIOUS
    <3>3. read = [cycle EXCEPT !.today = today, !.last = before]
      BY <1>4, <2>2, <3>1, <3>2 DEF ZoneRead
    <3> QED
      BY <1>1, <2>2, <3>1, <3>2, <3>3 DEF CycleFields
  <2> QED
    BY <2>1, <2>2
<1>6. PICK step \in {"choose", "place", "activate"} :
        /\ cycle' = [(IF p[2] \in cycle.done THEN cycle ELSE read) EXCEPT
                       !.pc = step, !.todo = @ \ {p},
                       !.pair = IF step = "choose" THEN NoPair ELSE p]
        /\ step # "choose" =>
             /\ p[2] \notin cycle.done
             /\ PolicyAllows(read.planned, read.today[z], read.last[z], read.at)
        /\ step = "activate" => ChannelKind[p[2]] = "TELEGRAM" /\ IsControlled(distRow[p])
  <2> DEFINE allowed == /\ p[2] \notin cycle.done
                        /\ PolicyAllows(read.planned, read.today[z], read.last[z], read.at)
                        /\ ChannelKind[p[2]] = "ASSISTED" => HasPendingCapacity(p[2])
                        /\ suits
             step == CASE allowed /\ distRow[p].status = "NONE" -> "place"
                       [] allowed /\ ChannelKind[p[2]] = "TELEGRAM" /\ IsControlled(distRow[p])
                            -> "activate"
                       [] OTHER -> "choose"
  <2>1. cycle' = [(IF p[2] \in cycle.done THEN cycle ELSE read) EXCEPT
                       !.pc = step, !.todo = @ \ {p},
                       !.pair = IF step = "choose" THEN NoPair ELSE p]
    BY <1>3, <1>4
  <2>2. \/ step = "place" /\ allowed
        \/ step = "activate" /\ allowed /\ ChannelKind[p[2]] = "TELEGRAM" /\ IsControlled(distRow[p])
        \/ step = "choose"
    BY DEF IsControlled
  <2> QED
    BY <2>1, <2>2
<1>7. PICK base \in {cycle, read} : base = IF p[2] \in cycle.done THEN cycle ELSE read
  OBVIOUS
<1>8. cycle' = [base EXCEPT !.pc = step, !.todo = @ \ {p},
                            !.pair = IF step = "choose" THEN NoPair ELSE p]
  BY <1>6, <1>7
<1>9. /\ DOMAIN cycle' = CycleFields
      /\ cycle'.at = cycle.at /\ cycle'.planned = cycle.planned
      /\ cycle'.todo = cycle.todo \ {p} /\ cycle'.pc = step
      /\ cycle'.pair = IF step = "choose" THEN NoPair ELSE p
      /\ cycle'.today = base.today /\ cycle'.last = base.last
  BY <1>1, <1>5, <1>7, <1>8 DEF CycleFields
<1>10. \/ cycle'.today = cycle.today /\ cycle'.last = cycle.last
       \/ /\ z \notin DOMAIN cycle.today
          /\ cycle'.today = WithZone(cycle.today, z, PublicationsToday(cycle.at))
          /\ cycle'.last = WithZone(cycle.last, z, last)
  BY <1>5, <1>7, <1>9
<1>11. ASSUME step # "choose"
       PROVE  /\ cycle'.pc \in {"place", "activate"} /\ cycle'.pair = p
              /\ z \in DOMAIN cycle'.today
              /\ PolicyAllows(cycle'.planned, cycle'.today[z], cycle'.last[z], cycle'.at)
              /\ cycle'.pc = "activate" =>
                   ChannelKind[p[2]] = "TELEGRAM" /\ IsControlled(distRow[p])
  <2>1. base = read
    BY <1>6, <1>7, <1>11
  <2>2. z \in DOMAIN cycle'.today
    BY <1>5, <1>9, <2>1 DEF WithZone
  <2> QED
    BY <1>5, <1>6, <1>9, <1>11, <2>1, <2>2
<1> QED
  BY <1>1, <1>9, <1>10, <1>11 DEF Chooses

\* PlacePair and ActivatePair count the pair.
Counts(p) ==
  LET z == ZoneOf[p[2]]
  IN  /\ cycle.pc \in {"place", "activate"} /\ p = cycle.pair
      /\ DOMAIN cycle' = CycleFields
      /\ cycle'.pc = "choose" /\ cycle'.pair = NoPair
      /\ cycle'.at = cycle.at /\ cycle'.todo = cycle.todo
      /\ cycle'.planned = cycle.planned + 1
      /\ cycle'.today = [cycle.today EXCEPT ![z] = @ + 1] /\ cycle'.last = cycle.last

LEMMA PlannedOneCycle ==
    ASSUME DistInv, PlacePair \/ ActivatePair
    PROVE  \E p \in Pairs : Counts(p)
<1>1. PICK p : p = cycle.pair
  OBVIOUS
<1>2. p \in Pairs /\ DOMAIN cycle = CycleFields /\ cycle.pc \in {"place", "activate"}
  BY <1>1, FieldsNamed DEF PlacePair, ActivatePair, DistInv, DistTypes, Hands
<1>3. cycle' = [cycle EXCEPT !.pc = "choose", !.pair = NoPair, !.planned = @ + 1,
                             !.done = @ \cup {p[2]}, !.today[ZoneOf[p[2]]] = @ + 1]
  BY <1>1 DEF PlacePair, ActivatePair, PlannedOne
<1> QED
  BY <1>1, <1>2, <1>3 DEF Counts, CycleFields

-----------------------------------------------------------------------------
\* The cycle and the command after a step.

PlanningStarts ==
  /\ DOMAIN cycle' = CycleFields /\ cycle'.pc = "choose" /\ cycle'.at = distTime
  /\ cycle'.todo \subseteq Pairs /\ cycle'.pair = NoPair /\ cycle'.planned = 0
  /\ cycle'.today = <<>> /\ cycle'.last = <<>>

EndsPlanning ==
  /\ DOMAIN cycle' = CycleFields /\ cycle'.pc = "deliver" /\ cycle'.at = cycle.at
  /\ cycle'.todo \subseteq {p \in Pairs : distRow[p].status = "SCHEDULED"}
  /\ cycle'.pair = NoPair /\ cycle'.planned = 0
  /\ cycle'.today = <<>> /\ cycle'.last = <<>>

Delivers ==
  /\ cycle.pc = "deliver" /\ DOMAIN cycle' = CycleFields /\ cycle'.pc = "deliver"
  /\ cycle'.at = cycle.at /\ cycle'.todo \subseteq cycle.todo
  /\ cycle'.pair = cycle.pair /\ cycle'.planned = cycle.planned
  /\ cycle'.today = cycle.today /\ cycle'.last = cycle.last

LEMMA CycleStep ==
    ASSUME DistInv, [DistNext]_distVars
    PROVE  \/ UNCHANGED cycle
           \/ UNCHANGED <<distRow, cameBack, distTime>> /\ PlanningStarts
           \/ /\ UNCHANGED <<distRow, cameBack, distTime>>
              /\ \E p \in Pairs, last \in LastPublications : Chooses(p, last)
           \/ /\ UNCHANGED distTime
              /\ \E p \in Pairs : Counts(p)
           \/ UNCHANGED <<distRow, cameBack, distTime>> /\ EndsPlanning
           \/ UNCHANGED distTime /\ Delivers
           \/ UNCHANGED <<distRow, cameBack, distTime>> /\ cycle' = CycleAtRest
<1>1. DOMAIN cycle = CycleFields
  BY FieldsNamed DEF DistInv, DistTypes, Hands
<1>2. ASSUME StartCycle
      PROVE  UNCHANGED <<distRow, cameBack, distTime>> /\ PlanningStarts
  <2>1. PICK found \in SUBSET Pairs :
          cycle' = [CycleAtRest EXCEPT !.pc = "choose", !.at = distTime, !.seen = offerState,
                                       !.todo = found]
    BY <1>2 DEF StartCycle
  <2> QED
    BY <1>2, <2>1 DEF StartCycle, PlanningStarts, CycleAtRest, CycleFields
<1>3. ASSUME EndPlanning
      PROVE  UNCHANGED <<distRow, cameBack, distTime>> /\ EndsPlanning
  <2>1. PICK due \in SUBSET {p \in Pairs : distRow[p].status = "SCHEDULED"} :
          cycle' = [CycleAtRest EXCEPT !.pc = "deliver", !.at = cycle.at, !.todo = due]
    BY <1>3 DEF EndPlanning
  <2> QED
    BY <1>3, <2>1 DEF EndPlanning, EndsPlanning, CycleAtRest, CycleFields
<1>4. ASSUME DeliverRow
      PROVE  UNCHANGED distTime /\ Delivers
  <2>1. PICK p \in cycle.todo : cycle' = [cycle EXCEPT !.todo = @ \ {p}]
    BY <1>4 DEF DeliverRow
  <2> QED
    BY <1>1, <1>4, <2>1 DEF DeliverRow, Delivers, CycleFields
<1>5. ASSUME ChoosePair
      PROVE  /\ UNCHANGED <<distRow, cameBack, distTime>>
             /\ \E p \in Pairs, last \in LastPublications : Chooses(p, last)
  BY <1>5, ChoosePairCycle DEF ChoosePair
<1>6. ASSUME PlacePair \/ ActivatePair
      PROVE  UNCHANGED distTime /\ \E p \in Pairs : Counts(p)
  BY <1>6, PlannedOneCycle DEF PlacePair, ActivatePair
<1>7. ASSUME EndCycle
      PROVE  UNCHANGED <<distRow, cameBack, distTime>> /\ cycle' = CycleAtRest
  BY <1>7 DEF EndCycle
<1>8. ASSUME \/ RequeueRow \/ StartCommandRun \/ ConsiderPair \/ CreateControlled
             \/ (\E f \in DOMAIN forms : OpenForm(f) \/ GiveVerdict(f))
             \/ ExpireStaleOffers \/ DistTimePasses \/ UNCHANGED distVars
      PROVE  UNCHANGED cycle
  BY <1>8 DEF RequeueRow, StartCommandRun, ConsiderPair, CreateControlled, OpenForm, GiveVerdict,
              ExpireStaleOffers, DistTimePasses, distVars
<1> QED
  BY <1>2, <1>3, <1>4, <1>5, <1>6, <1>7, <1>8 DEF DistNext

CommandHand ==
  /\ DOMAIN command = CommandFields
  /\ command.at \in 0 .. distTime /\ command.todo \subseteq Pairs
  /\ command.pair \in Pairs \cup {NoPair}
  /\ command.pc = "create" <=> command.pair \in Pairs

LEMMA CommandStep ==
    ASSUME DistInv, [DistNext]_distVars
    PROVE  CommandHand'
<1>0. /\ Pairs' = Pairs /\ NoPair \notin Pairs /\ CommandHand
      /\ distTime \in Nat /\ distTime' \in {distTime, distTime + 1}
  <2>1. NoPair \notin Pairs /\ CommandHand /\ distTime \in Nat
    BY PairsAreFinite, FieldsNamed, TimesNumbered DEF DistInv, DistTypes, Hands, CommandHand
  <2>2. distTime' \in {distTime, distTime + 1}
    BY DEF DistNext, StartCycle, ChoosePair, PlacePair, ActivatePair, EndPlanning, DeliverRow,
           EndCycle, RequeueRow, StartCommandRun, ConsiderPair, CreateControlled, OpenForm,
           GiveVerdict, ExpireStaleOffers, DistTimePasses, distVars
  <2> QED
    BY <2>1, <2>2, RowsStep
<1>1. CASE UNCHANGED command
  BY <1>0, <1>1 DEF CommandHand
<1>2. CASE StartCommandRun
  <2>1. PICK found \in SUBSET Pairs :
          command' = [NoCommand EXCEPT !.pc = "choose", !.at = distTime, !.todo = found]
    BY <1>2 DEF StartCommandRun
  <2>2. /\ DOMAIN command' = CommandFields /\ command'.pc = "choose" /\ command'.at = distTime
        /\ command'.todo = found /\ command'.pair = NoPair
    BY <2>1 DEF NoCommand, CommandFields
  <2> QED
    BY <1>0, <2>2 DEF CommandHand
<1>3. CASE ConsiderPair
  <2>1. CASE command' = NoCommand
    <3>1. /\ DOMAIN command' = CommandFields /\ command'.pc = "idle" /\ command'.at = 0
          /\ command'.todo = {} /\ command'.pair = NoPair
      BY <2>1 DEF NoCommand, CommandFields
    <3> QED
      BY <1>0, <3>1 DEF CommandHand
  <2>2. CASE command' # NoCommand
    <3>1. command.todo # {} /\ command.todo \subseteq Pairs /\ UNCHANGED distTime
      BY <1>0, <1>3, <2>2 DEF ConsiderPair, CommandHand
    <3>2. PICK p \in command.todo : p = First(command.todo, {})
      BY <3>1, FirstIsOne DEF DistInv
    <3>3. PICK creates \in BOOLEAN :
            command' = [command EXCEPT !.todo = @ \ {p},
                          !.pc = IF creates THEN "create" ELSE "choose",
                          !.pair = IF creates THEN p ELSE NoPair]
      BY <1>3, <2>2, <3>2 DEF ConsiderPair
    <3>4. /\ DOMAIN command' = CommandFields /\ command'.at = command.at
          /\ command'.todo = command.todo \ {p}
          /\ \/ command'.pc = "create" /\ command'.pair = p
             \/ command'.pc = "choose" /\ command'.pair = NoPair
      BY <1>0, <3>3 DEF CommandHand, CommandFields
    <3> QED
      BY <1>0, <3>1, <3>4 DEF CommandHand
  <2> QED
    BY <2>1, <2>2
<1>4. CASE CreateControlled
  <2>1. PICK n : command' = [command EXCEPT !.pc = "choose", !.pair = NoPair, !.planned = n]
    BY <1>4 DEF CreateControlled
  <2>2. /\ DOMAIN command' = CommandFields /\ command'.at = command.at /\ command'.pc = "choose"
        /\ command'.todo = command.todo /\ command'.pair = NoPair
    BY <1>0, <2>1 DEF CommandHand, CommandFields
  <2> QED
    BY <1>0, <1>4, <2>2 DEF CommandHand, CreateControlled
<1> QED
  BY <1>1, <1>2, <1>3, <1>4
  DEF DistNext, StartCycle, ChoosePair, PlacePair, ActivatePair, EndPlanning, DeliverRow,
      EndCycle, RequeueRow, OpenForm, GiveVerdict, ExpireStaleOffers, DistTimePasses, distVars

-----------------------------------------------------------------------------
\* Part 6: what the stage reads of the rows.

LEMMA LastPublicationsKnown ==
    ASSUME DistInv, NEW last \in LastPublications
    PROVE  /\ last \in Nat \cup {NoTime}
           /\ \A p \in DistributedRows :
                ChannelKind[p[2]] = "TELEGRAM" => last # NoTime /\ distRow[p].at <= last
<1> DEFINE live == {p \in Pairs : distRow[p].status \in {"SCHEDULED", "PUBLISHED"}}
           latest == {p \in live : \A q \in live : distRow[q].at <= distRow[p].at}
<1>1. \A p \in Pairs : /\ distRow[p].at \in Nat
                       /\ distRow[p].sentAt \in Nat \cup {NoTime}
                       /\ distRow[p].sentAt # NoTime => distRow[p].at <= distRow[p].sentAt
  BY RowFields, TimesNumbered DEF RowGood
<1>2. \A p \in DistributedRows : ChannelKind[p[2]] = "TELEGRAM" => p \in live
  BY RowFields DEF DistributedRows, Counted, RowGood, Assisted
<1>3. CASE live = {}
  BY <1>2, <1>3 DEF LastPublications
<1>4. CASE live # {}
  <2>1. PICK p \in latest :
          last = IF distRow[p].sentAt = NoTime THEN distRow[p].at ELSE distRow[p].sentAt
    BY <1>4 DEF LastPublications
  <2>2. last \in Nat /\ distRow[p].at <= last
    BY <1>1, <2>1
  <2>3. \A q \in live : distRow[q].at <= last
    BY <1>1, <2>1, <2>2
  <2> QED
    BY <1>2, <2>2, <2>3, TimesNumbered
<1> QED
  BY <1>3, <1>4

LEMMA CountedOnDay ==
    ASSUME DistInv, NEW now
    PROVE  PublicationsToday(now) \in Nat /\ Cardinality(OnDay(Day(now))) <= PublicationsToday(now)
<1> DEFINE counted == {p \in Pairs : distRow[p].status \in Counted /\ Day(distRow[p].at) = Day(now)}
<1>1. counted \in SUBSET Pairs /\ OnDay(Day(now)) \subseteq counted
  BY DEF OnDay, DistributedRows
<1>2. IsFiniteSet(counted) /\ Cardinality(counted) \in Nat
  BY <1>1, PairsAreFinite DEF DistInv
<1> QED
  BY <1>1, <1>2, FS_Subset DEF PublicationsToday

\* Only the worker's planning makes a row count for the limits.
LEMMA DistributedStep ==
    ASSUME DistInv, [DistNext]_distVars
    PROVE  \A q \in DistributedRows' :
             \/ q \in DistributedRows /\ distRow'[q].at = distRow[q].at
             \/ /\ cycle.pc \in {"place", "activate"} /\ cycle' # cycle
                /\ q = cycle.pair /\ distRow'[q].at = cycle.at
<1>1. CASE UNCHANGED <<distRow, cameBack>>
  BY <1>1 DEF DistributedRows, Pairs
<1>2. CASE ExpireStaleOffers
  <2>1. /\ Pairs' = Pairs /\ cameBack' = cameBack
        /\ \A p \in Pairs : \/ distRow'[p] = distRow[p]
                            \/ distRow'[p].status = "CANCELLED"
    BY <1>2, ExpireRows DEF ExpireStaleOffers
  <2> QED
    BY <2>1 DEF DistributedRows, Counted
<1>3. CASE Wrote
  <2>1. PICK p \in Pairs, row \in Rows : /\ Write(p, row) /\ row.status # "NONE" /\ Reason(p, row)
    BY <1>3 DEF Wrote
  <2> SUFFICES ASSUME NEW q \in DistributedRows'
               PROVE  \/ q \in DistributedRows /\ distRow'[q].at = distRow[q].at
                      \/ /\ cycle.pc \in {"place", "activate"} /\ cycle' # cycle
                         /\ q = cycle.pair /\ distRow'[q].at = cycle.at
    OBVIOUS
  <2>2. \/ q \in DistributedRows /\ distRow'[q] = distRow[q]
        \/ /\ q = p /\ row.status \in Counted /\ row.dist # "PLANNED" /\ p \notin cameBack
           /\ distRow[p].status \in Counted \cup {"NONE"} /\ distRow'[p] = row
    BY <2>1, WriteDistributed, WriteRow DEF DistInv
  <2>3. CASE /\ q = p /\ row.status \in Counted /\ row.dist # "PLANNED" /\ p \notin cameBack
             /\ distRow[p].status \in Counted \cup {"NONE"} /\ distRow'[p] = row
    <3>1. CASE /\ cycle.pc \in {"place", "activate"} /\ cycle'.pc = "choose"
               /\ p = cycle.pair /\ row.at = cycle.at
      BY <2>3, <3>1
    <3>2. CASE /\ distRow[p].status # "NONE"
               /\ row.dist = distRow[p].dist /\ (row.at = distRow[p].at \/ row.status = "FAILED")
      BY <2>3, <3>2 DEF Counted, DistributedRows
    <3> QED
      BY <2>1, <2>3, <3>1, <3>2 DEF Reason, Counted
  <2> QED
    BY <2>2, <2>3
<1> QED
  BY <1>1, <1>2, <1>3, WhoWrites

-----------------------------------------------------------------------------
\* Both limits after a step.

LEMMA OnDayFinite ==
    ASSUME DistInv, NEW d
    PROVE  /\ OnDay(d) \subseteq Pairs
           /\ IsFiniteSet(OnDay(d)) /\ Cardinality(OnDay(d)) \in Nat
<1>1. OnDay(d) \in SUBSET Pairs
  BY DEF OnDay, DistributedRows
<1> QED
  BY <1>1, PairsAreFinite DEF DistInv

\* A day gets at most the pair in hand, and that on the day of the cycle.
LEMMA OnDayStep ==
    ASSUME DistInv, [DistNext]_distVars, NEW d
    PROVE  /\ Cardinality(OnDay(d)') \in Nat
           /\ \/ Cardinality(OnDay(d)') <= Cardinality(OnDay(d))
              \/ /\ cycle.pc \in {"place", "activate"} /\ cycle' # cycle /\ d = Day(cycle.at)
                 /\ Cardinality(OnDay(d)') <= Cardinality(OnDay(d)) + 1
<1>1. PICK after : after = OnDay(d)'
  OBVIOUS
<1>2. /\ after \subseteq DistributedRows'
      /\ \A q \in after : Day(distRow'[q].at) = d
  BY <1>1 DEF OnDay, Day
<1>3. CASE after \subseteq OnDay(d)
  BY <1>1, <1>3, OnDayFinite, FS_Subset, FS_CardinalityType
<1>4. CASE ~(after \subseteq OnDay(d))
  <2>1. PICK q \in after : q \notin OnDay(d)
    BY <1>4
  <2>2. /\ cycle.pc \in {"place", "activate"} /\ cycle' # cycle
        /\ q = cycle.pair /\ d = Day(cycle.at)
    BY <1>2, <2>1, DistributedStep DEF OnDay
  <2>3. after \subseteq OnDay(d) \cup {cycle.pair}
    BY <1>2, DistributedStep DEF OnDay
  <2>4. /\ IsFiniteSet(OnDay(d) \cup {cycle.pair})
        /\ Cardinality(OnDay(d) \cup {cycle.pair}) = Cardinality(OnDay(d)) + 1
    BY <2>1, <2>2, OnDayFinite, FS_AddElement
  <2> QED
    BY <1>1, <2>2, <2>3, <2>4, OnDayFinite, FS_Subset, FS_CardinalityType
<1> QED
  BY <1>3, <1>4

LEMMA HandKnown ==
    ASSUME DistInv, cycle.pc \in {"place", "activate"}
    PROVE  \E z \in DOMAIN cycle.today :
             /\ z = ZoneOf[cycle.pair[2]] /\ DOMAIN cycle.last = DOMAIN cycle.today
             /\ cycle.today[z] \in Nat /\ cycle.last[z] \in Nat \cup {NoTime}
             /\ cycle.planned \in Nat /\ cycle.at \in Nat
             /\ cycle.planned < MaxPerCycle /\ cycle.today[z] < MaxPerDay
             /\ cycle.last[z] # NoTime => cycle.at - cycle.last[z] >= MinInterval
             /\ Cardinality(OnDay(Day(cycle.at)))
                  <= cycle.today[z] + (IF Cardinality(Zones) > 1 THEN cycle.planned ELSE 0)
<1>1. PICK z : z = ZoneOf[cycle.pair[2]]
  OBVIOUS
<1>2. z \in DOMAIN cycle.today /\ PolicyAllows(cycle.planned, cycle.today[z], cycle.last[z], cycle.at)
  BY <1>1 DEF DistInv, HandIsAllowed
<1>3. /\ cycle.today \in [DOMAIN cycle.today -> Nat]
      /\ cycle.last \in [DOMAIN cycle.today -> Nat \cup {NoTime}]
      /\ cycle.planned \in Nat
  BY DEF DistInv, DistTypes, Hands
<1>4. Cardinality(OnDay(Day(cycle.at)))
        <= cycle.today[z] + (IF Cardinality(Zones) > 1 THEN cycle.planned ELSE 0)
  BY <1>2 DEF DistInv, CountsKeepUp, Planning
<1> QED
  BY <1>1, <1>2, <1>3, <1>4, TimesNumbered DEF PolicyAllows

LEMMA LimitsNumbered ==
  /\ MinInterval \in Nat /\ MaxDistTime \in Nat
  /\ MaxPerCycle \in Nat \ {0} /\ MaxPerDay \in Nat \ {0}
BY DistributionAssumption

LEMMA ZonesStep ==
    ASSUME DistInv, [DistNext]_distVars
    PROVE  Zones' = Zones /\ IsFiniteSet(Zones) /\ Cardinality(Zones) \in Nat
BY RowsStep, PairsAreFinite, FS_CardinalityType DEF Zones, DistInv

LEMMA DayStep ==
    ASSUME DistInv, [DistNext]_distVars
    PROVE  ShopeeDayHolds'
<1>1. SUFFICES ASSUME NEW d \in {Day(t) : t \in 0 .. MaxDistTime}
               PROVE  Cardinality(OnDay(d)')
                        <= MaxPerDay + (IF Cardinality(Zones) > 1 THEN MaxPerCycle - 1 ELSE 0)
  BY ZonesStep DEF ShopeeDayHolds, OnDay, Day
<1>2. Cardinality(OnDay(d)) <= MaxPerDay + (IF Cardinality(Zones) > 1 THEN MaxPerCycle - 1 ELSE 0)
  BY DEF DistInv, ShopeeLimitsHold, ShopeeDayHolds, OnDay
<1>3. CASE Cardinality(OnDay(d)') <= Cardinality(OnDay(d))
  BY <1>2, <1>3, OnDayStep, OnDayFinite, LimitsNumbered
<1>4. CASE /\ cycle.pc \in {"place", "activate"} /\ d = Day(cycle.at)
           /\ Cardinality(OnDay(d)') <= Cardinality(OnDay(d)) + 1
  BY <1>4, HandKnown, OnDayStep, OnDayFinite, LimitsNumbered
<1> QED
  BY <1>3, <1>4, OnDayStep

LEMMA IntervalStep ==
    ASSUME DistInv, [DistNext]_distVars
    PROVE  ShopeeIntervalHolds'
<1>1. SUFFICES ASSUME NEW p \in DistributedRows', NEW q \in DistributedRows',
                      ChannelKind[p[2]] = "TELEGRAM", ChannelKind[q[2]] = "TELEGRAM",
                      distRow'[p].at < distRow'[q].at
               PROVE  distRow'[q].at - distRow'[p].at >= MinInterval
  BY DEF ShopeeIntervalHolds
<1>2. \A r \in DistributedRows : distRow[r].at \in Nat
  BY RowFields, TimesNumbered DEF DistributedRows
<1>3. CASE /\ p \in DistributedRows /\ distRow'[p].at = distRow[p].at
           /\ q \in DistributedRows /\ distRow'[q].at = distRow[q].at
  BY <1>1, <1>3 DEF DistInv, ShopeeLimitsHold, ShopeeIntervalHolds
<1>4. CASE cycle.pc \in {"place", "activate"}
  <2>1. PICK z \in DOMAIN cycle.today :
          /\ DOMAIN cycle.last = DOMAIN cycle.today
          /\ cycle.last[z] \in Nat \cup {NoTime} /\ cycle.at \in Nat
          /\ cycle.last[z] # NoTime => cycle.at - cycle.last[z] >= MinInterval
    BY <1>4, HandKnown
  <2>2. \A r \in DistributedRows : ChannelKind[r[2]] = "TELEGRAM" =>
          \/ distRow[r].at = cycle.at
          \/ cycle.last[z] # NoTime /\ distRow[r].at <= cycle.last[z]
    BY <1>4, <2>1 DEF DistInv, LastIsLast, Planning
  <2>3. \A r \in DistributedRows : ChannelKind[r[2]] = "TELEGRAM" =>
          distRow[r].at = cycle.at \/ cycle.at - distRow[r].at >= MinInterval
    BY <1>2, <2>1, <2>2, LimitsNumbered
  <2>4. CASE p \notin DistributedRows \/ distRow'[p].at # distRow[p].at
    BY <1>1, <1>2, <2>1, <2>3, <2>4, DistributedStep, LimitsNumbered
  <2>5. CASE /\ p \in DistributedRows /\ distRow'[p].at = distRow[p].at
             /\ ~(q \in DistributedRows /\ distRow'[q].at = distRow[q].at)
    BY <1>1, <1>2, <2>1, <2>3, <2>5, DistributedStep, LimitsNumbered
  <2> QED
    BY <1>3, <2>4, <2>5
<1> QED
  BY <1>3, <1>4, DistributedStep

-----------------------------------------------------------------------------
\* The cycle's numbers after a step.

\* What Hands says of the cycle.
CycleHand ==
  /\ DOMAIN cycle = CycleFields
  /\ cycle.pc \in {"idle", "choose", "place", "activate", "deliver"}
  /\ cycle.at \in 0 .. distTime /\ cycle.todo \subseteq Pairs /\ cycle.planned \in Nat
  /\ cycle.pair \in Pairs \cup {NoPair}
  /\ cycle.pc \in {"place", "activate"} <=> cycle.pair \in Pairs
  /\ cycle.pc \in {"idle", "deliver"} => cycle.today = <<>> /\ cycle.last = <<>>
  /\ cycle.today \in [DOMAIN cycle.today -> Nat]
  /\ cycle.last \in [DOMAIN cycle.today -> Nat \cup {NoTime}]
  /\ DOMAIN cycle.today \subseteq Zones

LEMMA HandsInTwo == Hands <=> CycleHand /\ CommandHand
BY FieldsNamed DEF Hands, CycleHand, CommandHand

LEMMA CycleHandStep ==
    ASSUME DistInv, [DistNext]_distVars
    PROVE  CycleHand'
<1>1. /\ CycleHand /\ Pairs' = Pairs /\ Zones' = Zones /\ NoPair \notin Pairs
      /\ distTime \in Nat /\ distTime' \in {distTime, distTime + 1}
  <2>1. CycleHand /\ NoPair \notin Pairs /\ distTime \in Nat
    BY HandsInTwo, PairsAreFinite, TimesNumbered DEF DistInv, DistTypes
  <2>2. distTime' \in {distTime, distTime + 1}
    BY WhoWrites DEF Wrote, ExpireStaleOffers
  <2> QED
    BY <2>1, <2>2, RowsStep, ZonesStep
<1>2. \A f : f = <<>> => DOMAIN f = {} /\ f \in [{} -> Nat] /\ f \in [{} -> Nat \cup {NoTime}]
  OBVIOUS
<1>3. CASE UNCHANGED cycle
  BY <1>1, <1>3 DEF CycleHand
<1>4. CASE PlanningStarts
  BY <1>1, <1>2, <1>4 DEF CycleHand, PlanningStarts
<1>5. CASE EndsPlanning
  BY <1>1, <1>2, <1>5 DEF CycleHand, EndsPlanning
<1>6. CASE cycle' = CycleAtRest
  <2>1. /\ DOMAIN cycle' = CycleFields /\ cycle'.pc = "idle" /\ cycle'.at = 0 /\ cycle'.todo = {}
        /\ cycle'.planned = 0 /\ cycle'.pair = NoPair /\ cycle'.today = <<>> /\ cycle'.last = <<>>
    BY <1>6 DEF CycleAtRest, CycleFields
  <2> QED
    BY <1>1, <1>2, <2>1 DEF CycleHand
<1>7. CASE Delivers
  BY <1>1, <1>7 DEF CycleHand, Delivers
<1>8. ASSUME NEW p \in Pairs, Counts(p)
      PROVE  CycleHand'
  <2>1. ZoneOf[p[2]] \in DOMAIN cycle.today
    BY <1>8, HandKnown DEF Counts
  <2>2. /\ cycle'.today \in [DOMAIN cycle.today -> Nat] /\ DOMAIN cycle'.today = DOMAIN cycle.today
    BY <1>1, <1>8, <2>1 DEF Counts, CycleHand
  <2>3. cycle'.planned \in Nat
    BY <1>1, <1>8 DEF Counts, CycleHand
  <2> QED
    BY <1>1, <1>8, <2>2, <2>3 DEF CycleHand, Counts
<1>9. ASSUME NEW p \in Pairs, NEW last \in LastPublications, Chooses(p, last)
      PROVE  CycleHand'
  <2>1. ZoneOf[p[2]] \in Zones
    BY DEF Zones
  <2>2. /\ DOMAIN cycle'.today \subseteq Zones
        /\ cycle'.today \in [DOMAIN cycle'.today -> Nat]
        /\ cycle'.last \in [DOMAIN cycle'.today -> Nat \cup {NoTime}]
    <3>1. CASE cycle'.today = cycle.today /\ cycle'.last = cycle.last
      BY <1>1, <3>1 DEF CycleHand
    <3>2. CASE /\ cycle'.today = WithZone(cycle.today, ZoneOf[p[2]], PublicationsToday(cycle.at))
               /\ cycle'.last = WithZone(cycle.last, ZoneOf[p[2]], last)
      <4>1. last \in Nat \cup {NoTime} /\ PublicationsToday(cycle.at) \in Nat
        BY LastPublicationsKnown, CountedOnDay
      <4>2. /\ cycle.today \in [DOMAIN cycle.today -> Nat]
            /\ cycle.last \in [DOMAIN cycle.last -> Nat \cup {NoTime}]
            /\ DOMAIN cycle.last = DOMAIN cycle.today /\ DOMAIN cycle.today \subseteq Zones
        BY <1>1 DEF CycleHand
      <4>3. /\ cycle'.today \in [DOMAIN cycle.today \cup {ZoneOf[p[2]]} -> Nat]
            /\ DOMAIN cycle'.today = DOMAIN cycle.today \cup {ZoneOf[p[2]]}
        BY <3>2, <4>1, <4>2 DEF WithZone
      <4>4. cycle'.last \in [DOMAIN cycle.today \cup {ZoneOf[p[2]]} -> Nat \cup {NoTime}]
        BY <3>2, <4>1, <4>2 DEF WithZone
      <4> QED
        BY <2>1, <4>2, <4>3, <4>4
    <3> QED
      BY <1>9, <3>1, <3>2 DEF Chooses
  <2>3. /\ DOMAIN cycle' = CycleFields /\ cycle'.at = cycle.at /\ cycle'.planned = cycle.planned
        /\ cycle'.todo \subseteq cycle.todo
        /\ \/ cycle'.pc = "choose" /\ cycle'.pair = NoPair
           \/ cycle'.pc \in {"place", "activate"} /\ cycle'.pair = p
    BY <1>9 DEF Chooses
  <2> QED
    BY <1>1, <2>2, <2>3 DEF CycleHand
<1> QED
  BY <1>3, <1>4, <1>5, <1>6, <1>7, <1>8, <1>9, CycleStep

LEMMA OneZone ==
    ASSUME DistInv, ~(Cardinality(Zones) > 1), NEW y \in Zones, NEW z \in Zones
    PROVE  y = z
<1>1. IsFiniteSet(Zones) /\ {y, z} \subseteq Zones
  BY PairsAreFinite DEF DistInv
<1>2. Cardinality({y, z}) <= Cardinality(Zones) /\ Cardinality(Zones) \in Nat
  BY <1>1, FS_Subset, FS_CardinalityType
<1>3. y # z => Cardinality({y, z}) = 2
  <2>1. IsFiniteSet({y}) /\ Cardinality({y}) = 1 /\ {y, z} = {y} \cup {z}
    BY FS_Singleton
  <2> QED
    BY <2>1, FS_AddElement
<1> QED
  BY <1>2, <1>3

LEMMA CountsStep ==
    ASSUME DistInv, [DistNext]_distVars
    PROVE  CountsKeepUp'
<1>1. CycleHand /\ CycleHand' /\ Zones' = Zones /\ Cardinality(Zones) \in Nat
  BY HandsInTwo, CycleHandStep, ZonesStep DEF DistInv, DistTypes
<1>0. PICK day : day = Day(cycle'.at)
  OBVIOUS
<1>2. SUFFICES ASSUME Planning', NEW z \in DOMAIN cycle'.today
               PROVE  Cardinality(OnDay(day)')
                        <= cycle'.today[z] + (IF Cardinality(Zones) > 1 THEN cycle'.planned ELSE 0)
  BY <1>0, <1>1 DEF CountsKeepUp, OnDay, Day
<1>3. cycle'.today[z] \in Nat /\ cycle'.planned \in Nat
  BY <1>1, <1>2 DEF CycleHand
<1>4. Planning => \A y \in DOMAIN cycle.today :
        /\ cycle.today[y] \in Nat
        /\ Cardinality(OnDay(Day(cycle.at)))
             <= cycle.today[y] + (IF Cardinality(Zones) > 1 THEN cycle.planned ELSE 0)
  BY <1>1 DEF DistInv, CountsKeepUp, CycleHand
<1>5. CASE UNCHANGED cycle
  BY <1>0, <1>2, <1>3, <1>4, <1>5, OnDayStep, OnDayFinite DEF Planning
<1>6. CASE PlanningStarts \/ EndsPlanning \/ cycle' = CycleAtRest \/ Delivers
  <2>1. PlanningStarts
    BY <1>2, <1>6 DEF PlanningStarts, EndsPlanning, CycleAtRest, Delivers, Planning
  <2> QED
    BY <1>2, <2>1 DEF PlanningStarts
<1>7. ASSUME NEW p \in Pairs, Counts(p)
      PROVE  Cardinality(OnDay(day)')
               <= cycle'.today[z] + (IF Cardinality(Zones) > 1 THEN cycle'.planned ELSE 0)
  <2>1. /\ cycle.pc \in {"place", "activate"} /\ cycle'.at = cycle.at
        /\ cycle'.today = [cycle.today EXCEPT ![ZoneOf[p[2]]] = @ + 1]
        /\ cycle'.planned = cycle.planned + 1 /\ Planning
    BY <1>7 DEF Counts, Planning
  <2>2. Cardinality(OnDay(day)') <= Cardinality(OnDay(Day(cycle.at))) + 1
    BY <1>0, <2>1, OnDayStep, OnDayFinite
  <2>3. z \in DOMAIN cycle.today /\ cycle.planned \in Nat
    BY <1>1, <1>2, <2>1 DEF CycleHand
  <2>4. CASE Cardinality(Zones) > 1
    BY <1>3, <1>4, <2>1, <2>2, <2>3, <2>4, OnDayStep, OnDayFinite
  <2>5. CASE ~(Cardinality(Zones) > 1)
    <3>1. z = ZoneOf[p[2]]
      <4>1. z \in Zones /\ ZoneOf[p[2]] \in Zones
        BY <1>1, <2>3 DEF CycleHand, Zones
      <4> QED
        BY <1>1, <2>5, <4>1, OneZone
    <3>2. cycle'.today[z] = cycle.today[z] + 1
      BY <2>1, <2>3, <3>1
    <3> QED
      BY <1>3, <1>4, <2>1, <2>2, <2>3, <2>5, <3>2, OnDayStep, OnDayFinite
  <2> QED
    BY <2>4, <2>5
<1>8. ASSUME NEW p \in Pairs, NEW last \in LastPublications, Chooses(p, last),
             UNCHANGED <<distRow, cameBack, distTime>>
      PROVE  Cardinality(OnDay(day)')
               <= cycle'.today[z] + (IF Cardinality(Zones) > 1 THEN cycle'.planned ELSE 0)
  <2>1. OnDay(day)' = OnDay(Day(cycle.at)) /\ cycle'.planned = cycle.planned
    BY <1>0, <1>8 DEF OnDay, DistributedRows, Pairs, Day, Chooses
  <2>2. Planning
    BY <1>8 DEF Chooses, Planning
  <2>3. CASE z \in DOMAIN cycle.today /\ cycle'.today[z] = cycle.today[z]
    BY <1>4, <2>1, <2>2, <2>3
  <2>4. CASE cycle'.today[z] = PublicationsToday(cycle.at)
    BY <1>3, <2>1, <2>4, CountedOnDay, OnDayFinite
  <2>5. \/ z \in DOMAIN cycle.today /\ cycle'.today[z] = cycle.today[z]
        \/ cycle'.today[z] = PublicationsToday(cycle.at)
    <3>1. CASE cycle'.today = cycle.today
      BY <1>2, <3>1
    <3>2. CASE cycle'.today = WithZone(cycle.today, ZoneOf[p[2]], PublicationsToday(cycle.at))
      <4>1. PublicationsToday(cycle.at) \in Nat /\ cycle.today \in [DOMAIN cycle.today -> Nat]
        BY <1>1, CountedOnDay DEF CycleHand
      <4> QED
        BY <1>2, <3>2, <4>1 DEF WithZone
    <3> QED
      BY <1>8, <3>1, <3>2 DEF Chooses
  <2> QED
    BY <2>3, <2>4, <2>5
<1> QED
  BY <1>5, <1>6, <1>7, <1>8, CycleStep

LEMMA LastIsLastStep ==
    ASSUME DistInv, [DistNext]_distVars
    PROVE  LastIsLast'
<1>1. CycleHand /\ CycleHand'
  BY HandsInTwo, CycleHandStep DEF DistInv, DistTypes
<1>2. SUFFICES ASSUME Planning', NEW z \in DOMAIN cycle'.last, NEW p \in DistributedRows',
                      ChannelKind[p[2]] = "TELEGRAM"
               PROVE  \/ distRow'[p].at = cycle'.at
                      \/ cycle'.last[z] # NoTime /\ distRow'[p].at <= cycle'.last[z]
  BY DEF LastIsLast
<1>3. \/ p \in DistributedRows /\ distRow'[p].at = distRow[p].at
      \/ cycle.pc \in {"place", "activate"} /\ p = cycle.pair /\ distRow'[p].at = cycle.at
  BY DistributedStep
<1>4. CASE cycle'.last = cycle.last /\ cycle'.at = cycle.at /\ Planning
  BY <1>2, <1>3, <1>4 DEF DistInv, LastIsLast
<1>5. CASE UNCHANGED cycle
  BY <1>2, <1>4, <1>5 DEF Planning
<1>6. CASE PlanningStarts \/ EndsPlanning \/ cycle' = CycleAtRest \/ Delivers
  <2>1. PlanningStarts
    BY <1>2, <1>6 DEF PlanningStarts, EndsPlanning, CycleAtRest, Delivers, Planning
  <2> QED
    BY <1>2, <2>1 DEF PlanningStarts
<1>7. ASSUME NEW q \in Pairs, Counts(q)
      PROVE  cycle'.last = cycle.last /\ cycle'.at = cycle.at /\ Planning
  BY <1>7 DEF Counts, Planning
<1>8. ASSUME NEW q \in Pairs, NEW last \in LastPublications, Chooses(q, last),
             UNCHANGED <<distRow, cameBack, distTime>>
      PROVE  \/ distRow'[p].at = cycle'.at
             \/ cycle'.last[z] # NoTime /\ distRow'[p].at <= cycle'.last[z]
  <2>1. cycle'.at = cycle.at /\ Planning /\ p \in DistributedRows /\ distRow'[p].at = distRow[p].at
    BY <1>8 DEF Chooses, Planning, DistributedRows, Pairs
  <2>2. CASE cycle'.last = cycle.last
    BY <1>4, <2>1, <2>2
  <2>3. CASE cycle'.last = WithZone(cycle.last, ZoneOf[q[2]], last)
    <3>1. last \in Nat \cup {NoTime} /\ cycle.last \in [DOMAIN cycle.last -> Nat \cup {NoTime}]
      BY <1>1, LastPublicationsKnown DEF CycleHand
    <3>2. CASE cycle'.last[z] = last
      BY <1>2, <2>1, <3>2, LastPublicationsKnown
    <3>3. CASE z \in DOMAIN cycle.last /\ cycle'.last[z] = cycle.last[z]
      BY <1>2, <2>1, <3>3 DEF DistInv, LastIsLast
    <3>4. \/ cycle'.last[z] = last
          \/ z \in DOMAIN cycle.last /\ cycle'.last[z] = cycle.last[z]
      BY <1>2, <2>3, <3>1 DEF WithZone
    <3> QED
      BY <3>2, <3>3, <3>4
  <2> QED
    BY <1>8, <2>2, <2>3 DEF Chooses
<1> QED
  BY <1>4, <1>5, <1>6, <1>7, <1>8, CycleStep

LEMMA HandStep ==
    ASSUME DistInv, [DistNext]_distVars
    PROVE  HandIsAllowed'
<1>1. CASE UNCHANGED cycle
  BY <1>1 DEF DistInv, HandIsAllowed, PolicyAllows
<1>2. CASE PlanningStarts \/ EndsPlanning \/ cycle' = CycleAtRest \/ Delivers
  BY <1>2 DEF HandIsAllowed, PlanningStarts, EndsPlanning, CycleAtRest, Delivers
<1>3. ASSUME NEW p \in Pairs, Counts(p)
      PROVE  HandIsAllowed'
  BY <1>3 DEF HandIsAllowed, Counts
<1>4. ASSUME NEW p \in Pairs, NEW last \in LastPublications, Chooses(p, last)
      PROVE  HandIsAllowed'
  BY <1>4 DEF HandIsAllowed, Chooses, PolicyAllows
<1> QED
  BY <1>1, <1>2, <1>3, <1>4, CycleStep

-----------------------------------------------------------------------------
\* What others may do to the rows in hand.

LEMMA HeldRows ==
    ASSUME DistInv, [DistNext]_distVars, NEW q \in Pairs
    PROVE  /\ distRow[q].status # "NONE" => distRow'[q].status # "NONE"
           /\ \/ distRow'[q] = distRow[q]
              \/ /\ distRow[q].status \in {"SCHEDULED", "AWAITING_MANUAL_PUBLICATION"}
                 /\ distRow'[q].status = "CANCELLED" /\ distRow'[q].dist = distRow[q].dist
              \/ Assisted(q) \/ distRow[q].status \in {"FAILED", "NONE"}
              \/ cycle.pc \in {"place", "activate"} /\ cycle'.pc = "choose"
              \/ cycle.pc = "deliver" /\ q \notin cycle'.todo
<1>1. CASE UNCHANGED <<distRow, cameBack>>
  BY <1>1
<1>2. CASE ExpireStaleOffers
  BY <1>2, ExpireRows
<1>3. CASE Wrote
  <2>1. PICK p \in Pairs, row \in Rows : /\ Write(p, row) /\ row.status # "NONE" /\ Reason(p, row)
    BY <1>3 DEF Wrote
  <2>2. distRow'[p] = row /\ \A r \in Pairs : r # p => distRow'[r] = distRow[r]
    BY <2>1, WriteRow DEF DistInv
  <2> QED
    BY <2>1, <2>2 DEF Reason
<1> QED
  BY <1>1, <1>2, <1>3, WhoWrites

\* The forms, after a step.
FormsInHand ==
  \A f \in DOMAIN forms : forms[f].row # NoPair =>
    forms[f].row \in Pairs /\ Assisted(forms[f].row) /\ distRow[forms[f].row].status # "NONE"

LEMMA FormsStep ==
    ASSUME DistInv, [DistNext]_distVars
    PROVE  FormsInHand' /\ DOMAIN forms' = DOMAIN forms
<1>0. /\ \A f \in DOMAIN forms : forms[f].row # NoPair =>
           /\ forms[f].row \in Pairs /\ Assisted(forms[f].row)
           /\ distRow[forms[f].row].status # "NONE" /\ distRow'[forms[f].row].status # "NONE"
      /\ Pairs' = Pairs
  BY HeldRows, RowsStep DEF DistInv, DistTypes, InHand
<1>1. CASE UNCHANGED forms
  BY <1>0, <1>1 DEF FormsInHand, Assisted
<1>2. ASSUME NEW f \in DOMAIN forms, OpenForm(f)
      PROVE  FormsInHand' /\ DOMAIN forms' = DOMAIN forms
  <2>1. PICK p \in Pairs, v \in {"CONFIRM", "CANCEL", "FAIL"} :
          /\ Assisted(p) /\ distRow[p].status = "AWAITING_MANUAL_PUBLICATION"
          /\ forms' = [forms EXCEPT ![f] = [row |-> p, verdict |-> v]]
    BY <1>2 DEF OpenForm, Assisted
  <2>2. DOMAIN forms' = DOMAIN forms /\ forms'[f].row = p
        /\ \A g \in DOMAIN forms : g # f => forms'[g] = forms[g]
    BY <2>1
  <2>3. distRow' = distRow
    BY <1>2 DEF OpenForm
  <2> QED
    BY <1>0, <2>1, <2>2, <2>3 DEF FormsInHand, Assisted
<1>3. ASSUME NEW f \in DOMAIN forms, GiveVerdict(f)
      PROVE  FormsInHand' /\ DOMAIN forms' = DOMAIN forms
  <2>1. forms' = [forms EXCEPT ![f] = NoForm]
    BY <1>3 DEF GiveVerdict
  <2>2. DOMAIN forms' = DOMAIN forms /\ forms'[f].row = NoPair
        /\ \A g \in DOMAIN forms : g # f => forms'[g] = forms[g]
    BY <2>1 DEF NoForm
  <2> QED
    BY <1>0, <2>2 DEF FormsInHand, Assisted
<1> QED
  BY <1>1, <1>2, <1>3
  DEF DistNext, StartCycle, ChoosePair, PlacePair, ActivatePair, EndPlanning, DeliverRow, EndCycle,
      RequeueRow, StartCommandRun, ConsiderPair, CreateControlled, ExpireStaleOffers,
      DistTimePasses, distVars

LEMMA InHandStep ==
    ASSUME DistInv, [DistNext]_distVars
    PROVE  InHand'
<1>1. ASSUME cycle'.pc = "activate"
      PROVE  /\ ~Assisted(cycle'.pair) /\ distRow'[cycle'.pair].dist = "PLANNED"
             /\ distRow'[cycle'.pair].status \in {"AWAITING_MANUAL_PUBLICATION", "CANCELLED"}
  <2>1. CASE UNCHANGED cycle
    <3>1. /\ cycle.pair \in Pairs /\ ~Assisted(cycle.pair) /\ distRow[cycle.pair].dist = "PLANNED"
          /\ distRow[cycle.pair].status \in {"AWAITING_MANUAL_PUBLICATION", "CANCELLED"}
      BY <1>1, <2>1 DEF DistInv, DistTypes, Hands, InHand
    <3> QED
      BY <1>1, <2>1, <3>1, HeldRows
  <2>2. ASSUME NEW p \in Pairs, NEW last \in LastPublications, Chooses(p, last), UNCHANGED distRow
        PROVE  /\ ~Assisted(cycle'.pair) /\ distRow'[cycle'.pair].dist = "PLANNED"
               /\ distRow'[cycle'.pair].status = "AWAITING_MANUAL_PUBLICATION"
    BY <1>1, <2>2 DEF Chooses, IsControlled, Assisted
  <2>3. \A p \in Pairs : ~Counts(p)
    BY <1>1 DEF Counts
  <2>4. ~PlanningStarts /\ ~EndsPlanning /\ ~Delivers /\ cycle' # CycleAtRest
    BY <1>1 DEF PlanningStarts, EndsPlanning, Delivers, CycleAtRest
  <2> QED
    BY <2>1, <2>2, <2>3, <2>4, CycleStep
<1>2. ASSUME cycle'.pc = "deliver", NEW p \in cycle'.todo
      PROVE  ~Assisted(p) /\ distRow'[p].status \in {"SCHEDULED", "CANCELLED"}
  <2>1. CASE UNCHANGED cycle \/ Delivers
    <3>1. /\ cycle.pc = "deliver" /\ p \in cycle.todo /\ p \in Pairs
          /\ ~Assisted(p) /\ distRow[p].status \in {"SCHEDULED", "CANCELLED"}
      BY <1>2, <2>1 DEF DistInv, DistTypes, Hands, InHand, Delivers
    <3> QED
      BY <1>2, <3>1, HeldRows
  <2>2. CASE UNCHANGED distRow /\ EndsPlanning
    <3>1. p \in Pairs /\ distRow[p].status = "SCHEDULED"
      BY <1>2, <2>2 DEF EndsPlanning
    <3> QED
      BY <2>2, <3>1, RowFields DEF RowGood
  <2>3. /\ ~PlanningStarts /\ cycle' # CycleAtRest
        /\ \A q \in Pairs : ~Counts(q) /\ \A last \in LastPublications : ~Chooses(q, last)
    BY <1>2 DEF PlanningStarts, CycleAtRest, Counts, Chooses
  <2> QED
    BY <2>1, <2>2, <2>3, CycleStep
<1> QED
  BY <1>1, <1>2, FormsStep DEF InHand, FormsInHand, Assisted

-----------------------------------------------------------------------------
\* The rest of the types.

Setting ==
  /\ setting \in [offers : SUBSET ShopOffers, channels : SUBSET ShopChannels,
                  clerks : SUBSET Clerks, commands : Nat, failures : Nat]
  /\ IsFiniteSet(setting.offers) /\ IsFiniteSet(setting.channels)
  /\ offerState \in [setting.offers -> OfferStates]
  /\ distTime \in 0 .. MaxDistTime

LEMMA OfferWritten ==
    ASSUME NEW offers, NEW states, states \in [offers -> OfferStates], NEW o, NEW s \in OfferStates
    PROVE  [states EXCEPT ![o] = s] \in [offers -> OfferStates]
OBVIOUS

LEMMA SettingStep ==
    ASSUME DistInv, [DistNext]_distVars
    PROVE  Setting' /\ setting'.offers = setting.offers /\ setting'.channels = setting.channels
<1>1. Setting /\ MaxDistTime \in Nat
  BY TimesNumbered DEF DistInv, DistTypes, Setting
<1>2. PICK places : places = [offers : SUBSET ShopOffers, channels : SUBSET ShopChannels,
                  clerks : SUBSET Clerks, commands : Nat, failures : Nat]
  OBVIOUS
<1>3. \/ UNCHANGED setting
      \/ setting.commands > 0 /\ setting' = [setting EXCEPT !.commands = @ - 1]
      \/ setting.failures > 0 /\ setting' = [setting EXCEPT !.failures = @ - 1]
  BY DEF DistNext, StartCycle, ChoosePair, PlacePair, ActivatePair, EndPlanning, DeliverRow,
         EndCycle, RequeueRow, StartCommandRun, ConsiderPair, CreateControlled, OpenForm,
         GiveVerdict, ExpireStaleOffers, DistTimePasses, distVars
<1>4. /\ setting' \in [offers : SUBSET ShopOffers, channels : SUBSET ShopChannels,
                       clerks : SUBSET Clerks, commands : Nat, failures : Nat]
      /\ setting'.offers = setting.offers /\ setting'.channels = setting.channels
  BY <1>1, <1>3 DEF Setting
<1>5. \/ UNCHANGED offerState
      \/ \E o, s : s \in OfferStates /\ offerState' = [offerState EXCEPT ![o] = s]
      \/ ExpireStaleOffers
  BY DEF DistNext, StartCycle, ChoosePair, PlacePair, ActivatePair, EndPlanning, DeliverRow,
         EndCycle, RequeueRow, StartCommandRun, ConsiderPair, CreateControlled, OpenForm,
         GiveVerdict, DistTimePasses, distVars, OfferStates
<1>6. offerState' \in [setting.offers -> OfferStates]
  <2>1. CASE UNCHANGED offerState
    BY <1>1, <2>1 DEF Setting
  <2>2. CASE \E o, s : s \in OfferStates /\ offerState' = [offerState EXCEPT ![o] = s]
    BY <1>1, <2>2, OfferWritten DEF Setting
  <2>3. CASE ExpireStaleOffers
    <3>1. PICK stale : offerState' = [o \in setting.offers |->
                           IF o \in stale THEN "REJECTED_EXPIRED" ELSE offerState[o]]
      BY <2>3 DEF ExpireStaleOffers
    <3>2. \A o \in setting.offers : offerState[o] \in OfferStates
      BY <1>1 DEF Setting
    <3> QED
      BY <3>1, <3>2 DEF OfferStates
  <2> QED
    BY <1>5, <2>1, <2>2, <2>3
<1>7. distTime' \in 0 .. MaxDistTime
  <2>1. \/ UNCHANGED distTime
        \/ distTime < MaxDistTime /\ distTime' = distTime + 1
    BY DEF DistNext, StartCycle, ChoosePair, PlacePair, ActivatePair, EndPlanning, DeliverRow,
           EndCycle, RequeueRow, StartCommandRun, ConsiderPair, CreateControlled, OpenForm,
           GiveVerdict, ExpireStaleOffers, DistTimePasses, distVars
  <2> QED
    BY <1>1, <2>1 DEF Setting
<1> QED
  BY <1>1, <1>4, <1>6, <1>7 DEF Setting

LEMMA TypesStep ==
    ASSUME DistInv, [DistNext]_distVars
    PROVE  DistTypes'
<1>1. Hands'
  <2>1. (CycleHand /\ CommandHand)'
    BY CycleHandStep, CommandStep
  <2> QED
    BY <2>1, FieldsNamed DEF Hands, CycleHand, CommandHand
<1>2. distRow' \in [setting'.offers \X setting'.channels -> Rows] /\ cameBack' \subseteq Pairs'
  <2>1. distRow' \in [Pairs' -> Rows] /\ Pairs' = Pairs /\ cameBack' \subseteq Pairs'
    BY RowsStep DEF RowsWell
  <2>2. Pairs = setting.offers \X setting.channels
    BY PairsAreFinite DEF DistInv
  <2> QED
    BY <2>1, <2>2, SettingStep
<1>3. \A f \in DOMAIN forms' : forms'[f].row \in Pairs' \cup {NoPair}
  BY FormsStep DEF FormsInHand
<1> QED
  BY <1>1, <1>2, <1>3, SettingStep DEF DistTypes, Setting

-----------------------------------------------------------------------------
LEMMA DistInvStep ==
    ASSUME DistInv, [DistNext]_distVars
    PROVE  DistInv'
BY TypesStep, RowsStep, InHandStep, CountsStep, LastIsLastStep, HandStep, DayStep, IntervalStep
DEF DistInv, RowsWell, ShopeeLimitsHold

LEMMA DistInvInit == DistInit => DistInv
<1> SUFFICES ASSUME DistInit PROVE DistInv
  OBVIOUS
<1>1. /\ setting \in [offers : SUBSET ShopOffers, channels : SUBSET ShopChannels,
                      clerks : SUBSET Clerks, commands : Nat, failures : Nat]
      /\ IsFiniteSet(setting.offers) /\ IsFiniteSet(setting.channels)
  BY DistributionAssumption DEF DistInit
<1>2. /\ MaxDistTime \in Nat /\ distTime = 0 /\ NoTime \notin Nat
      /\ MaxPerCycle \in Nat \ {0} /\ MaxPerDay \in Nat \ {0}
  BY DistributionAssumption DEF DistInit
<1>3. NoRow \in Rows
  BY <1>2 DEF NoRow, Rows
<1>4. Pairs = setting.offers \X setting.channels /\ NoPair \notin Pairs
      /\ distRow \in [Pairs -> Rows] /\ \A p \in Pairs : distRow[p] = NoRow
  <2>1. Pairs = setting.offers \X setting.channels
    BY DEF DistInit, Pairs
  <2>2. Pairs \subseteq ShopOffers \X ShopChannels
    BY <1>1, <2>1
  <2> QED
    BY <1>3, <2>1, <2>2, DistributionAssumption DEF DistInit
<1>5. cycle = CycleAtRest /\ command = NoCommand
  BY DEF DistInit
<1>6. Hands
  <2>1. /\ cycle.pc = "idle" /\ cycle.at = 0 /\ cycle.todo = {} /\ cycle.pair = NoPair
        /\ cycle.planned = 0 /\ cycle.today = <<>> /\ cycle.last = <<>>
    BY <1>5 DEF CycleAtRest
  <2>2. command.at = 0 /\ command.todo = {} /\ command.pair = NoPair /\ command.pc = "idle"
    BY <1>5 DEF NoCommand
  <2>3. \A f : f = <<>> => DOMAIN f = {} /\ f \in [{} -> Nat] /\ f \in [{} -> Nat \cup {NoTime}]
    OBVIOUS
  <2> QED
    BY <1>2, <1>4, <1>5, <2>1, <2>2, <2>3 DEF Hands
<1>7. /\ cameBack = {} /\ \A f \in DOMAIN forms : forms[f].row = NoPair
      /\ offerState \in [setting.offers -> OfferStates]
  BY DEF DistInit, NoForm, OfferStates
<1>8. DistTypes
  BY <1>1, <1>2, <1>4, <1>6, <1>7 DEF DistTypes
<1>9. \A p \in Pairs : RowGood(p, distRow[p], distTime)
  BY <1>2, <1>4 DEF RowGood, NoRow
<1>10. InHand /\ CountsKeepUp /\ LastIsLast /\ HandIsAllowed
  BY <1>5, <1>7 DEF InHand, CountsKeepUp, LastIsLast, HandIsAllowed, Planning, CycleAtRest
<1>11. DistributedRows = {}
  BY <1>4 DEF DistributedRows, Counted, NoRow
<1>12. ShopeeLimitsHold
  <2>1. ShopeeIntervalHolds
    BY <1>11 DEF ShopeeIntervalHolds
  <2>2. \A d : {p \in DistributedRows : Day(distRow[p].at) = d} = {}
    BY <1>11
  <2>3. Cardinality({}) = 0
    BY FS_EmptySet
  <2>4. IsFiniteSet(Zones) /\ Cardinality(Zones) \in Nat
    BY <1>8, PairsAreFinite, FS_CardinalityType
  <2>5. ShopeeDayHolds
    BY <1>2, <2>2, <2>3, <2>4 DEF ShopeeDayHolds
  <2> QED
    BY <2>1, <2>5 DEF ShopeeLimitsHold
<1> QED
  BY <1>8, <1>9, <1>10, <1>12 DEF DistInv

\* The types of the model's variables: what the program keeps is what it was made to keep.
THEOREM DistTypeCorrect == DistSpec => []DistTypeOK
<1>1. DistInv => DistTypeOK
  <2> SUFFICES ASSUME DistInv PROVE DistTypeOK
    OBVIOUS
  <2>1. distRow \in [Pairs -> Rows] /\ cameBack \subseteq Pairs
    BY RowsAreWell DEF RowsWell
  <2> QED
    BY <2>1 DEF DistInv, DistTypes, DistTypeOK, Hands, Rows, OfferStates
<1> QED
  BY <1>1, DistInvInit, DistInvStep, PTL DEF DistSpec

\* SHOPEE_PUBLICATION_MAX_PER_DAY and SHOPEE_PUBLICATION_MIN_INTERVAL_MINUTES hold for any set of
\* offers, channels and time zones, whatever the limits, the day's length and the order in which
\* the worker, the command, the forms and the expiry of offers get their turns.
THEOREM ShopeeLimitsCorrect == DistSpec => []ShopeeLimitsHold
<1>1. DistInv => ShopeeLimitsHold
  BY DEF DistInv
<1> QED
  BY <1>1, DistInvInit, DistInvStep, PTL DEF DistSpec
=============================================================================
