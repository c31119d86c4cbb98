------------------------------ MODULE WorkerStatus -----------------------------
(* What the continuous worker tells of itself and what it is told: the status *)
(* row that all its instances write, the pause controls that forms write and  *)
(* a loop reads once per tick, and the loop's timers (worker: runtime,        *)
(* worker-leadership, burn-in; dashboard: worker-operations, actions).        *)
(* Components and their locks are in WorkerLease; here a component takes time.*)
EXTENDS Naturals, Sequences, FiniteSets, FiniteSetsExt

CONSTANTS LoopCases,     \* [workers, forms, burnIn, until, faults]: who takes part, and bounds
          LoopOrder,     \* COMPONENTS, in the order of the loop
          PausedBy,      \* the control that pauses a component, or Nobody
          Cadence,       \* of each component
          BeatEvery, StaleAfter, SkewTolerance,  \* of heartbeats
          MaxLate,                               \* bound of writes under way
          Nobody

Loops == UNION {c.workers : c \in LoopCases}
Forms == UNION {c.forms : c \in LoopCases}
Scopes == {"discovery", "publication"}
Parts == {LoopOrder[i] : i \in DOMAIN LoopOrder}

ASSUME LoopAssumption ==
  /\ {BeatEvery, StaleAfter, SkewTolerance, MaxLate} \subseteq Nat
  /\ BeatEvery > 0 /\ Cadence \in [Parts -> Nat \ {0}]
  /\ LoopOrder \in Seq(Parts) /\ PausedBy \in [Parts -> Scopes \cup {Nobody}]
  /\ \A c \in LoopCases : c.until \in Nat
  /\ Nobody \notin Nat \cup Loops

VARIABLES
  crew,       \* the case of this behaviour
  clock,      \* the time that all share
  statusRow,  \* the setting worker:continuous:status or Nobody
  late,       \* writes of it that nobody awaits any more
  controls,   \* the setting worker:continuous:controls
  pauseForm,  \* the calls of updateWorkerPauseAction
  loop,       \* runContinuousWorker of each process
  leader,     \* the owner of the leader key
  told        \* what happened: [lapsed, lateOffline, asked, crossed, early, alive, faults]

statusVars == <<crew, clock, statusRow, late, controls, pauseForm, loop, leader, told>>

(* cycle: the tick under way: its time, the controls it read, the component it *)
(* runs and when that one's heartbeat timer goes off.                         *)
NotBegun == [pc |-> "idle", aborted |-> FALSE, cycle |-> Nobody, note |-> Nobody, nextBeat |-> 0, beat |-> 0,
         next |-> [p \in Parts |-> 0], ran |-> [p \in Parts |-> Nobody]]

LoopOver == [NotBegun EXCEPT !.pc = "done"]

StatusInit ==
  /\ crew \in LoopCases
  /\ clock = 0 /\ statusRow = Nobody /\ late = {} /\ leader = Nobody
  /\ controls = [s \in Scopes |-> FALSE]
  /\ pauseForm = [f \in Forms |-> [pc |-> "idle"]]
  /\ loop = [w \in Loops |-> NotBegun]
  /\ told = [lapsed |-> FALSE, lateOffline |-> FALSE, asked |-> controls, crossed |-> FALSE,
             early |-> {}, alive |-> 0, faults |-> 0]

Fails == told.faults < crew.faults
AfterFault == [told EXCEPT !.faults = @ + 1]

-----------------------------------------------------------------------------
(* The row and its reading.                                                   *)

Status(w, state) == [state |-> state, by |-> w, beat |-> clock,
                     leads |-> IF state = "OFFLINE" THEN "RELEASING" ELSE "ACTIVE"]

Health(row) ==
  CASE row = Nobody -> "STALE"
    [] row # Nobody /\ row.state = "OFFLINE" -> "OFFLINE"
    [] row # Nobody /\ row.state # "OFFLINE"
         /\ (clock > row.beat + StaleAfter \/ row.beat > clock + SkewTolerance) -> "STALE"
    [] OTHER -> "ONLINE"

Shown == Health(statusRow)

(* A write that was sent and is awaited no more arrives, or is lost.          *)
LateWrite ==
  \E write \in late :
    /\ late' = late \ {write}
    /\ statusRow' \in {write, statusRow}
    /\ UNCHANGED <<crew, clock, controls, pauseForm, loop, leader, told>>

-----------------------------------------------------------------------------
(* The pause form: it reads the controls, changes its own one, and writes     *)
(* both.                                                                      *)

ReadControls(f) ==
  /\ f \in crew.forms /\ pauseForm[f].pc = "idle"
  /\ \E s \in Scopes, to \in BOOLEAN :
       pauseForm' = [pauseForm EXCEPT ![f] = [pc |-> "read", scope |-> s, to |-> to, read |-> controls]]
  /\ told' = [told EXCEPT !.crossed = @ \/ \E g \in Forms : pauseForm[g].pc = "read"]
  /\ UNCHANGED <<crew, clock, statusRow, late, controls, loop, leader>>

WriteControls(f) ==
  /\ pauseForm[f].pc = "read"
  /\ controls' = [pauseForm[f].read EXCEPT ![pauseForm[f].scope] = pauseForm[f].to]
  /\ told' = [told EXCEPT !.asked[pauseForm[f].scope] = pauseForm[f].to]
  /\ pauseForm' = [pauseForm EXCEPT ![f] = [pc |-> "done"]]
  /\ UNCHANGED <<crew, clock, statusRow, late, loop, leader>>

-----------------------------------------------------------------------------
(* The loop. Between two things it awaits nothing else of it can happen.      *)

GoOn(w, changes) == loop' = [loop EXCEPT ![w] = changes]
At(w, pc) == loop[w].pc = pc
InTheLoop(w) == loop[w].pc \in {"runs", "after", "sleeps"}

(* Mutant of TakeLead: without Redis a lock of the process itself will do.    *)
TakeLocalLead(w) ==
  /\ w \in crew.workers /\ At(w, "idle")
  /\ leader' \in {leader, w}
  /\ GoOn(w, [loop[w] EXCEPT !.pc = "starts"])
  /\ UNCHANGED <<crew, clock, statusRow, late, controls, pauseForm, told>>

TakeLead(w) ==
  /\ w \in crew.workers /\ At(w, "idle") /\ leader = Nobody
  /\ leader' = w
  /\ GoOn(w, [loop[w] EXCEPT !.pc = "starts"])
  /\ UNCHANGED <<crew, clock, statusRow, late, controls, pauseForm, told>>

(* A failure of what the loop awaits ends it: nothing is written.             *)
BreakOff(w) == Fails /\ told' = AfterFault /\ GoOn(w, [LoopOver EXCEPT !.pc = "leaves"])

(* The first status; the first tick is due at once.                           *)
BeginLoop(w) ==
  /\ At(w, "starts")
  /\ \/ /\ statusRow' = Status(w, "ONLINE")
        /\ GoOn(w, [loop[w] EXCEPT !.pc = "sleeps", !.next = [p \in Parts |-> clock],
                                   !.nextBeat = clock, !.beat = clock])
        /\ told' = [told EXCEPT !.alive = clock]
     \/ BreakOff(w) /\ UNCHANGED statusRow
  /\ UNCHANGED <<crew, clock, late, controls, pauseForm, leader>>

(* The next run counts from this tick.                                        *)
NextRun(l, p) == l.cycle.tick + Cadence[p]

Paused(l, p) == PausedBy[p] \in l.cycle.seen
Due(l, p) == l.cycle.tick >= l.next[p]

(* From component i on: paused ones are passed over until their next run, the *)
(* first one that is due and not paused runs, and then the tick is over.      *)
Onward(l, i) ==
  LET due == {j \in i .. Len(LoopOrder) : Due(l, LoopOrder[j])}
      runs == {j \in due : ~Paused(l, LoopOrder[j])}
      passed == {LoopOrder[j] : j \in {k \in due : \A r \in runs : k < r}}
      after == [l EXCEPT !.next = [p \in Parts |-> IF p \in passed THEN NextRun(l, p) ELSE @[p]]]
  IN  CASE l.aborted -> [l EXCEPT !.pc = "after"]
        [] ~l.aborted /\ runs = {} -> [after EXCEPT !.pc = "after"]
        [] OTHER -> [after EXCEPT !.pc = "runs", !.cycle.at = Min(runs), !.cycle.timer = clock + BeatEvery,
                                  !.ran[LoopOrder[Min(runs)]] = l.cycle.tick]

(* Who runs again before its cadence is over.                                 *)
EarlyIn(l, after) ==
  {p \in Parts : l.ran[p] # Nobody /\ after.ran[p] # l.ran[p] /\ after.ran[p] < l.ran[p] + Cadence[p]}

PassOn(w, l, i) ==
  /\ GoOn(w, Onward(l, i))
  /\ told' = [told EXCEPT !.early = @ \cup EarlyIn(l, Onward(l, i))]

WakesAt(w) == Min({loop[w].nextBeat} \cup {loop[w].next[p] : p \in Parts})

(* A tick reads the controls once, and not in a burn-in.                      *)
BeginTick(w) ==
  /\ At(w, "sleeps") /\ ~loop[w].aborted /\ clock >= WakesAt(w)
  /\ \/ PassOn(w, [loop[w] EXCEPT !.cycle = [tick |-> clock, at |-> 1, timer |-> clock,
                        seen |-> IF crew.burnIn THEN {} ELSE {s \in Scopes : controls[s]}]], 1)
     \/ ~crew.burnIn /\ BreakOff(w)
  /\ UNCHANGED <<crew, clock, statusRow, late, controls, pauseForm, leader>>

EndLoop(w) ==
  /\ At(w, "sleeps") /\ loop[w].aborted
  /\ GoOn(w, [LoopOver EXCEPT !.pc = "stops"])
  /\ UNCHANGED <<crew, clock, statusRow, late, controls, pauseForm, leader, told>>

(* The heartbeat of a running component is sent and not awaited.              *)
SendBeat(w) ==
  /\ At(w, "runs") /\ loop[w].cycle.timer <= clock /\ Cardinality(late) < MaxLate
  /\ late' = late \cup {Status(w, "ONLINE")}
  /\ GoOn(w, [loop[w] EXCEPT !.cycle.timer = clock + BeatEvery, !.beat = clock])
  /\ UNCHANGED <<crew, clock, statusRow, controls, pauseForm, leader, told>>

(* The component succeeded or failed: the loop goes on in the same way.       *)
EndPart(w) ==
  /\ At(w, "runs")
  /\ LET p == LoopOrder[loop[w].cycle.at]
     IN  PassOn(w, [loop[w] EXCEPT !.next[p] = NextRun(loop[w], p)], loop[w].cycle.at + 1)
  /\ UNCHANGED <<crew, clock, statusRow, late, controls, pauseForm, leader>>

(* After the components: the loop's own heartbeat, if it is time, and sleep.  *)
EndTick(w) ==
  /\ At(w, "after")
  /\ LET asleep == [loop[w] EXCEPT !.pc = "sleeps", !.cycle = Nobody]
     IN  \/ /\ clock >= loop[w].nextBeat
            /\ statusRow' = Status(w, "ONLINE")
            /\ GoOn(w, [asleep EXCEPT !.nextBeat = clock + BeatEvery, !.beat = clock])
            /\ UNCHANGED told
         \/ clock < loop[w].nextBeat /\ GoOn(w, asleep) /\ UNCHANGED <<statusRow, told>>
         \/ clock >= loop[w].nextBeat /\ BreakOff(w) /\ UNCHANGED statusRow
  /\ UNCHANGED <<crew, clock, late, controls, pauseForm, leader>>

(* A stop request, or a renewal that finds the leadership lost.               *)
AbortLoop(w) ==
  /\ InTheLoop(w) /\ ~loop[w].aborted
  /\ GoOn(w, [loop[w] EXCEPT !.aborted = TRUE])
  /\ UNCHANGED <<crew, clock, statusRow, late, controls, pauseForm, leader, told>>

(* The last write is awaited for a limited time; it may fail, or be on its    *)
(* way still when the wait is over.                                           *)
SayOffline(w) ==
  /\ At(w, "stops")
  /\ \/ statusRow' = Status(w, "OFFLINE") /\ UNCHANGED <<late, told>>
     \/ Fails /\ told' = AfterFault /\ UNCHANGED <<statusRow, late>>
     \/ /\ Fails /\ told' = [AfterFault EXCEPT !.lateOffline = TRUE]
        /\ late' = late \cup {Status(w, "OFFLINE")} /\ UNCHANGED statusRow
  /\ GoOn(w, [LoopOver EXCEPT !.pc = "leaves"])
  /\ UNCHANGED <<crew, clock, controls, pauseForm, leader>>

(* The key is released if it is still the worker's own.                       *)
Resign(w) ==
  /\ At(w, "leaves")
  /\ leader' = IF leader = w THEN Nobody ELSE leader
  /\ GoOn(w, [LoopOver EXCEPT !.pc = IF crew.burnIn THEN "released" ELSE "done"])
  /\ UNCHANGED <<crew, clock, statusRow, late, controls, pauseForm, told>>

(* A burn-in's worker adds to its own last status that it has released: it    *)
(* reads the row and writes it back.                                          *)
LookAtStatus(w) ==
  /\ At(w, "released")
  /\ GoOn(w, IF statusRow # Nobody /\ statusRow.by = w /\ statusRow.state = "OFFLINE"
             THEN [loop[w] EXCEPT !.pc = "notes", !.note = statusRow]
             ELSE LoopOver)
  /\ UNCHANGED <<crew, clock, statusRow, late, controls, pauseForm, leader, told>>

NoteRelease(w) ==
  /\ At(w, "notes")
  /\ statusRow' = [loop[w].note EXCEPT !.leads = "RELEASED"]
  /\ GoOn(w, LoopOver)
  /\ UNCHANGED <<crew, clock, late, controls, pauseForm, leader, told>>

-----------------------------------------------------------------------------
(* The process dies: nothing is written, the key stays until it lapses.       *)
Die(w) ==
  /\ loop[w].pc \notin {"idle", "done"} /\ Fails
  /\ told' = AfterFault
  /\ GoOn(w, LoopOver)
  /\ UNCHANGED <<crew, clock, statusRow, late, controls, pauseForm, leader>>

LeaderLapses ==
  /\ leader # Nobody
  /\ At(leader, "done") \/ Fails
  /\ leader' = Nobody
  /\ told' = IF At(leader, "done") THEN told ELSE [AfterFault EXCEPT !.lapsed = TRUE]
  /\ UNCHANGED <<crew, clock, statusRow, late, controls, pauseForm, loop>>

(* Time passes in components and in sleep; timers go off when they are due.   *)
Waits(w) ==
  \/ loop[w].pc \in {"idle", "done"}
  \/ At(w, "runs") /\ loop[w].cycle.timer > clock
  \/ At(w, "sleeps") /\ ~loop[w].aborted /\ WakesAt(w) > clock

TimeGoesOn ==
  /\ clock < crew.until /\ \A w \in Loops : Waits(w)
  /\ clock' = clock + 1
  /\ told' = [told EXCEPT !.alive = IF \E w \in Loops : InTheLoop(w) THEN clock + 1 ELSE @]
  /\ UNCHANGED <<crew, statusRow, late, controls, pauseForm, loop, leader>>

StatusNext ==
  \/ TimeGoesOn \/ LateWrite \/ LeaderLapses
  \/ \E f \in Forms : ReadControls(f) \/ WriteControls(f)
  \/ \E w \in Loops :
       \/ TakeLead(w) \/ BeginLoop(w) \/ BeginTick(w) \/ SendBeat(w) \/ EndPart(w) \/ EndTick(w)
       \/ EndLoop(w) \/ AbortLoop(w) \/ SayOffline(w) \/ Resign(w) \/ LookAtStatus(w)
       \/ NoteRelease(w) \/ Die(w)

StatusSpec == StatusInit /\ [][StatusNext]_statusVars
-----------------------------------------------------------------------------
StatusTypeOK ==
  /\ clock \in 0 .. crew.until /\ leader \in Loops \cup {Nobody}
  /\ controls \in [Scopes -> BOOLEAN]
  /\ \A w \in Loops : /\ loop[w].pc \in {"idle", "starts", "runs", "after", "sleeps",
                                         "stops", "leaves", "released", "notes", "done"}
                      /\ At(w, "runs") => loop[w].cycle.at \in DOMAIN LoopOrder

(* What is shown as ONLINE was in its loop not longer ago than the limit.     *)
OnlineIsRecent == Shown = "ONLINE" => clock <= told.alive + StaleAfter

(* What is shown as OFFLINE has stopped, and so has every other worker, unless *)
(* the leader's lease lapsed under it, a last write outlived the wait for it, *)
(* or a burn-in noted its release.                                            *)
OfflineMeansStopped ==
  (Shown = "OFFLINE" /\ ~told.lapsed /\ ~told.lateOffline /\ ~crew.burnIn)
    => \A w \in Loops : ~InTheLoop(w)

(* A worker in its loop sends a status at least once in as many intervals as  *)
(* it has components and one: every component starts the timer anew.          *)
BeatsInTime ==
  \A w \in Loops : InTheLoop(w) => clock <= loop[w].beat + (Len(LoopOrder) + 1) * BeatEvery

(* Controls are as the last form of each kind asked, unless two forms crossed, *)
(* and no component runs that was paused when its tick began.                 *)
PausesHold ==
  /\ ~told.crossed => controls = told.asked
  /\ \A w \in Loops : At(w, "runs") => ~Paused(loop[w], LoopOrder[loop[w].cycle.at])

(* A component never starts again before its cadence is over: what was missed *)
(* is not made up for.                                                        *)
NothingIsReplayed == told.early = {}

(* The worker shows its state, and does what it is told.                      *)
WorkerShowsItsState ==
  OnlineIsRecent /\ OfflineMeansStopped /\ BeatsInTime /\ PausesHold /\ NothingIsReplayed
=============================================================================
