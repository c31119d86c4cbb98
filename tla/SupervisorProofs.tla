---------------------------- MODULE SupervisorProofs ----------------------------
(***************************************************************************)
(* Proofs about Supervisor: types, that no program is held twice or runs   *)
(* on its own, and what a stop leaves; and, in the second half, about      *)
(* WorkerStatus: that the worker shows its state and does what it is told. *)
(***************************************************************************)
EXTENDS Supervisor, WorkerStatus, FiniteSetTheorems, TLAPS

-----------------------------------------------------------------------------
\* What a step does to the process it is about, field by field.

Steps == {"off", "lock", "register", "announce", "boot", "watch", "backoff", "replaced",
          "stopping", "unlock"}

Process == [pc : Steps, held : [Components -> Nat], crashes : [Components -> Nat],
            todo : SUBSET Components]

Commands == {"idle", "find", "wait", "recorded", "clear", "stopped", "restart"}

Command == [pc : Commands, waits : Supervisors \cup {NoSupervisor}, orphans : SUBSET Nat]

\* The other processes stay as they are.
Moves(s, pc, held, todo) ==
  /\ supervisor' \in [Supervisors -> Process]
  /\ supervisor'[s].pc = pc
  /\ supervisor'[s].held = held
  /\ supervisor'[s].todo = todo
  /\ \A r \in Supervisors : r # s => supervisor'[r] = supervisor[r]

Held(s) == supervisor[s].held
Todo(s) == supervisor[s].todo
Pc(s) == supervisor[s].pc

\* The type invariant with its sets named.
LEMMA TypesNamed ==
  SupervisorTypeOK <=>
    /\ operator \in Command
    /\ supervisor \in [Supervisors -> Process]
    /\ supervisorFile \in Supervisors \cup {NoSupervisor}
    /\ componentsFile \in [Components -> Nat]
    /\ stopFile \in BOOLEAN
    /\ fileLock \in Supervisors \cup {NoSupervisor}
    /\ hosts \subseteq Nat /\ children \subseteq Nat
    /\ started \in Nat /\ deaths \in Nat
BY Zenon DEF SupervisorTypeOK, Process, Steps, Command, Commands

\* The end of a process.
LEMMA EndMoves ==
    ASSUME supervisor \in [Supervisors -> Process], NEW s \in Supervisors, EndsProcess(s)
    PROVE  Moves(s, "off", NoProcess, {})
<1>1. "off" \in Steps /\ NoProcess \in [Components -> Nat] /\ {} \in SUBSET Components
  BY DEF Steps, NoProcess
<1>2. supervisor' = [supervisor EXCEPT ![s] =
        [pc |-> "off", held |-> NoProcess, crashes |-> NoProcess, todo |-> {}]]
  BY DEF EndsProcess, Off
<1> HIDE DEF Steps
<1> QED
  BY <1>1, <1>2 DEF Moves, Process

\* The shapes of a move: another step, another list, another host.
LEMMA StepMoves ==
    ASSUME supervisor \in [Supervisors -> Process], NEW s \in Supervisors,
           NEW pc \in Steps, supervisor' = [supervisor EXCEPT ![s].pc = pc]
    PROVE  Moves(s, pc, Held(s), Todo(s))
<1> HIDE DEF Steps
<1> QED
  BY DEF Moves, Process, Held, Todo

\* Another step and another list.
LEMMA ListMoves ==
    ASSUME supervisor \in [Supervisors -> Process], NEW s \in Supervisors,
           NEW pc \in Steps, NEW todo \in SUBSET Components,
           supervisor' = [supervisor EXCEPT ![s].pc = pc, ![s].todo = todo]
    PROVE  Moves(s, pc, Held(s), todo)
<1> HIDE DEF Steps
<1> QED
  BY DEF Moves, Process, Held, Todo

\* A host more, in the list's order or in the place of another.
LEMMA HostMoves ==
    ASSUME supervisor \in [Supervisors -> Process], NEW s \in Supervisors,
           NEW c \in Components, NEW n \in Nat
    PROVE  /\ supervisor' = [supervisor EXCEPT ![s].held[c] = n, ![s].todo = @ \ {c}]
                => Moves(s, Pc(s), [Held(s) EXCEPT ![c] = n], Todo(s) \ {c})
           /\ \A pc \in Steps :
                supervisor' = [supervisor EXCEPT ![s].held[c] = n, ![s].pc = pc, ![s].todo = {}]
                => Moves(s, pc, [Held(s) EXCEPT ![c] = n], {})
<1> HIDE DEF Steps
<1>1. ASSUME supervisor' = [supervisor EXCEPT ![s].held[c] = n, ![s].todo = @ \ {c}]
      PROVE  Moves(s, Pc(s), [Held(s) EXCEPT ![c] = n], Todo(s) \ {c})
  BY <1>1 DEF Moves, Process, Held, Todo, Pc
<1>2. ASSUME NEW pc \in Steps,
             supervisor' = [supervisor EXCEPT ![s].held[c] = n, ![s].pc = pc, ![s].todo = {}]
      PROVE  Moves(s, pc, [Held(s) EXCEPT ![c] = n], {})
  BY <1>2 DEF Moves, Process, Held, Todo, Pc
<1> QED
  BY <1>1, <1>2

\* The count of crashes begins again.
LEMMA ResetMoves ==
    ASSUME supervisor \in [Supervisors -> Process], NEW s \in Supervisors,
           NEW c \in Components, NEW n \in Nat,
           supervisor' = [supervisor EXCEPT ![s].crashes[c] = n]
    PROVE  Moves(s, Pc(s), Held(s), Todo(s))
<1> HIDE DEF Steps
<1> QED
  BY DEF Moves, Process, Held, Todo, Pc

\* Every action that moves a process, as such a move.
LEMMA Movers ==
    ASSUME SupervisorTypeOK, NEW s \in Supervisors
    PROVE
    /\ StartCommand(s) => Moves(s, "lock", Held(s), Todo(s))
    /\ TakeFileLock(s) =>
          \/ fileLock = NoSupervisor /\ fileLock' = s /\ Moves(s, "register", Held(s), Todo(s))
          \/ fileLock # NoSupervisor /\ EndsProcess(s)
    /\ RegisterSupervisor(s) =>
          \/ EndsProcess(s) /\ UNCHANGED supervisorFile
          \/ /\ UNCHANGED fileLock /\ supervisorFile' = NoSupervisor
             /\ ~IsAlive(supervisorFile) /\ Moves(s, "announce", Held(s), Todo(s))
    /\ AnnounceSupervisor(s) => Moves(s, "boot", Held(s), Components)
    /\ RecordComponents(s) => Moves(s, "watch", Held(s), Todo(s))
    /\ SeeStop(s) => Moves(s, "stopping", Held(s), Components)
    /\ FinishSupervisor(s) => Moves(s, "unlock", Held(s), Todo(s))
    /\ \A c \in Components :
         /\ BootComponent(s, c) =>
              Moves(s, "boot", [Held(s) EXCEPT ![c] = started + 1], Todo(s) \ {c})
         /\ NoticeCrash(s, c) =>
              \/ /\ Moves(s, "watch", [Held(s) EXCEPT ![c] = 0], Todo(s))
                 /\ componentsFile' = [Held(s) EXCEPT ![c] = 0]
              \/ Moves(s, "backoff", Held(s), {c}) /\ componentsFile' = Held(s)
         /\ RestartComponent(s, c) =>
              \/ /\ StartsComponent
                 /\ Moves(s, "replaced", [Held(s) EXCEPT ![c] = started + 1], {})
              \/ UNCHANGED <<hosts, children, started>> /\ Moves(s, "watch", Held(s), {})
         /\ ResetCrashes(s, c) => Moves(s, "watch", Held(s), Todo(s))
         /\ StopComponent(s, c) => Moves(s, "stopping", Held(s), Todo(s) \ {c})
<1>t. supervisor \in [Supervisors -> Process] /\ started \in Nat /\ MaxCrashes \in Nat
  BY TypesNamed, SupervisorAssumption
<1>steps. {"lock", "register", "announce", "boot", "watch", "backoff", "replaced", "stopping", "unlock"}
             \subseteq Steps
  BY DEF Steps
<1> HIDE DEF Steps
<1>1. StartCommand(s) => Moves(s, "lock", Held(s), Todo(s))
  BY <1>t, <1>steps, StepMoves DEF StartCommand
<1>2. TakeFileLock(s) =>
          \/ fileLock = NoSupervisor /\ fileLock' = s /\ Moves(s, "register", Held(s), Todo(s))
          \/ fileLock # NoSupervisor /\ EndsProcess(s)
  <2> SUFFICES ASSUME TakeFileLock(s), fileLock = NoSupervisor
               PROVE  fileLock' = s /\ Moves(s, "register", Held(s), Todo(s))
    BY DEF TakeFileLock
  <2> QED
    BY <1>t, <1>steps DEF TakeFileLock, Moves, Process, Held, Todo
<1>3. RegisterSupervisor(s) =>
          \/ EndsProcess(s) /\ UNCHANGED supervisorFile
          \/ /\ UNCHANGED fileLock /\ supervisorFile' = NoSupervisor
             /\ ~IsAlive(supervisorFile) /\ Moves(s, "announce", Held(s), Todo(s))
  <2> SUFFICES ASSUME RegisterSupervisor(s), ~IsAlive(supervisorFile)
               PROVE  /\ UNCHANGED fileLock /\ supervisorFile' = NoSupervisor
                      /\ Moves(s, "announce", Held(s), Todo(s))
    BY DEF RegisterSupervisor
  <2> QED
    BY <1>t, <1>steps, StepMoves DEF RegisterSupervisor
<1>announces. AnnounceSupervisor(s) => Moves(s, "boot", Held(s), Components)
  BY <1>t, <1>steps, ListMoves DEF AnnounceSupervisor
<1>4. RecordComponents(s) => Moves(s, "watch", Held(s), Todo(s))
  BY <1>t, <1>steps, StepMoves DEF RecordComponents
<1>5. SeeStop(s) => Moves(s, "stopping", Held(s), Components)
  BY <1>t, <1>steps, ListMoves DEF SeeStop
<1>6. FinishSupervisor(s) => Moves(s, "unlock", Held(s), Todo(s))
  BY <1>t, <1>steps, StepMoves DEF FinishSupervisor
<1>7. ASSUME NEW c \in Components
      PROVE  BootComponent(s, c) =>
                Moves(s, "boot", [Held(s) EXCEPT ![c] = started + 1], Todo(s) \ {c})
  <2> SUFFICES ASSUME BootComponent(s, c)
               PROVE  Moves(s, "boot", [Held(s) EXCEPT ![c] = started + 1], Todo(s) \ {c})
    OBVIOUS
  <2>1. PICK n \in Nat : n = started + 1
    BY <1>t
  <2>2. /\ Pc(s) = "boot"
        /\ supervisor' = [supervisor EXCEPT ![s].held[c] = n, ![s].todo = @ \ {c}]
    BY <2>1 DEF BootComponent, StartsComponent, Pc
  <2>3. Moves(s, Pc(s), [Held(s) EXCEPT ![c] = n], Todo(s) \ {c})
    BY <1>t, <2>2, HostMoves
  <2> QED
    BY <2>1, <2>2, <2>3, Zenon
<1>8. ASSUME NEW c \in Components
      PROVE  NoticeCrash(s, c) =>
              \/ /\ Moves(s, "watch", [Held(s) EXCEPT ![c] = 0], Todo(s))
                 /\ componentsFile' = [Held(s) EXCEPT ![c] = 0]
              \/ Moves(s, "backoff", Held(s), {c}) /\ componentsFile' = Held(s)
  <2> SUFFICES ASSUME NoticeCrash(s, c)
               PROVE  \/ /\ Moves(s, "watch", [Held(s) EXCEPT ![c] = 0], Todo(s))
                         /\ componentsFile' = [Held(s) EXCEPT ![c] = 0]
                      \/ Moves(s, "backoff", Held(s), {c}) /\ componentsFile' = Held(s)
    OBVIOUS
  <2>1. PICK crashes \in Nat :
          \/ /\ supervisor' = [supervisor EXCEPT ![s].crashes[c] = crashes, ![s].held[c] = 0]
             /\ componentsFile' = [supervisor[s].held EXCEPT ![c] = 0]
          \/ /\ supervisor' = [supervisor EXCEPT ![s].crashes[c] = crashes,
                                 ![s].pc = "backoff", ![s].todo = {c}]
             /\ componentsFile' = supervisor[s].held
    <3>1. supervisor[s].crashes[c] + 1 \in Nat
      BY <1>t DEF Process
    <3> QED
      BY <3>1, Zenon DEF NoticeCrash
  <2>2. supervisor[s].pc = "watch"
    BY DEF NoticeCrash
  <2>3. CASE /\ supervisor' = [supervisor EXCEPT ![s].crashes[c] = crashes, ![s].held[c] = 0]
             /\ componentsFile' = [supervisor[s].held EXCEPT ![c] = 0]
    <3>1. Moves(s, "watch", [Held(s) EXCEPT ![c] = 0], Todo(s))
      BY <1>t, <1>steps, <2>2, <2>3 DEF Moves, Process, Held, Todo
    <3> QED
      BY <2>3, <3>1 DEF Held
  <2>4. CASE /\ supervisor' = [supervisor EXCEPT ![s].crashes[c] = crashes,
                                 ![s].pc = "backoff", ![s].todo = {c}]
             /\ componentsFile' = supervisor[s].held
    <3>1. Moves(s, "backoff", Held(s), {c})
      BY <1>t, <1>steps, <2>4 DEF Moves, Process, Held, Todo
    <3> QED
      BY <2>4, <3>1 DEF Held
  <2> QED
    BY <2>1, <2>3, <2>4
<1>9. ASSUME NEW c \in Components
      PROVE  RestartComponent(s, c) =>
              \/ /\ StartsComponent
                 /\ Moves(s, "replaced", [Held(s) EXCEPT ![c] = started + 1], {})
              \/ UNCHANGED <<hosts, children, started>> /\ Moves(s, "watch", Held(s), {})
  <2> SUFFICES ASSUME RestartComponent(s, c)
               PROVE  \/ /\ StartsComponent
                         /\ Moves(s, "replaced", [Held(s) EXCEPT ![c] = started + 1], {})
                      \/ /\ UNCHANGED <<hosts, children, started>>
                         /\ Moves(s, "watch", Held(s), {})
    OBVIOUS
  <2>1. CASE stopFile
    <3>1. /\ supervisor' = [supervisor EXCEPT ![s].pc = "watch", ![s].todo = {}]
          /\ UNCHANGED <<hosts, children, started>>
      BY <2>1 DEF RestartComponent
    <3>2. Moves(s, "watch", Held(s), {})
      BY <1>t, <1>steps, <3>1 DEF Moves, Process, Held, Todo
    <3> QED
      BY <3>1, <3>2
  <2>2. CASE ~stopFile
    <3>1. PICK n \in Nat : n = started + 1
      BY <1>t
    <3>2. /\ StartsComponent
          /\ supervisor' = [supervisor EXCEPT ![s].held[c] = n, ![s].pc = "replaced",
                              ![s].todo = {}]
      BY <2>2, <3>1 DEF RestartComponent, StartsComponent
    <3>3. Moves(s, "replaced", [Held(s) EXCEPT ![c] = n], {})
      BY <1>t, <1>steps, <3>2, HostMoves
    <3> QED
      BY <3>1, <3>2, <3>3, Zenon
  <2> QED
    BY <2>1, <2>2
<1>10. ASSUME NEW c \in Components
       PROVE  ResetCrashes(s, c) => Moves(s, "watch", Held(s), Todo(s))
  BY <1>t, ResetMoves DEF ResetCrashes, Pc
<1>11. ASSUME NEW c \in Components
       PROVE  StopComponent(s, c) => Moves(s, "stopping", Held(s), Todo(s) \ {c})
  BY <1>t, <1>steps DEF StopComponent, Moves, Process, Held, Todo
<1> QED
  BY <1>1, <1>2, <1>3, <1>announces, <1>4, <1>5, <1>6, <1>7, <1>8, <1>9, <1>10, <1>11

-----------------------------------------------------------------------------
\* Types.

\* What a process does.
Acts(s) ==
  \/ StartCommand(s)
  \/ TakeFileLock(s) \/ RegisterSupervisor(s) \/ AnnounceSupervisor(s)
  \/ RecordComponents(s) \/ SeeStop(s)
  \/ FinishSupervisor(s) \/ UnlockSupervisor(s) \/ SupervisorDies(s)
  \/ \E c \in Components : \/ BootComponent(s, c) \/ NoticeCrash(s, c)
                           \/ RestartComponent(s, c) \/ ResetCrashes(s, c)
                           \/ StopComponent(s, c)

\* Every action of a process keeps the processes' types.
LEMMA ActsAreMoves ==
    ASSUME SupervisorTypeOK, NEW s \in Supervisors, Acts(s)
    PROVE  supervisor' \in [Supervisors -> Process]
<1>1. supervisor \in [Supervisors -> Process]
  BY TypesNamed
<1>2. ASSUME EndsProcess(s) PROVE supervisor' \in [Supervisors -> Process]
  BY <1>1, <1>2, EndMoves DEF Moves
<1>3. ASSUME NEW pc, NEW held, NEW todo, Moves(s, pc, held, todo)
      PROVE  supervisor' \in [Supervisors -> Process]
  BY <1>3 DEF Moves
<1>4. CASE UnlockSupervisor(s) \/ SupervisorDies(s)
  BY <1>2, <1>4 DEF UnlockSupervisor, SupervisorDies
<1>5. CASE StartCommand(s) \/ TakeFileLock(s) \/ RegisterSupervisor(s)
           \/ AnnounceSupervisor(s) \/ RecordComponents(s) \/ SeeStop(s) \/ FinishSupervisor(s)
  BY <1>2, <1>3, <1>5, Movers
<1>6. ASSUME NEW c \in Components,
             BootComponent(s, c) \/ NoticeCrash(s, c) \/ RestartComponent(s, c)
             \/ ResetCrashes(s, c) \/ StopComponent(s, c)
      PROVE  supervisor' \in [Supervisors -> Process]
  BY <1>3, <1>6, Movers
<1> QED
  BY <1>4, <1>5, <1>6 DEF Acts

\* The components file is a list of processes.
LEMMA RecordedTypes ==
    ASSUME SupervisorTypeOK, NEW s \in Supervisors, Acts(s)
    PROVE  componentsFile' \in [Components -> Nat]
<1>1. componentsFile \in [Components -> Nat] /\ supervisor \in [Supervisors -> Process]
  BY TypesNamed
<1>2. Held(s) \in [Components -> Nat] /\ NoProcess \in [Components -> Nat]
  <2>1. supervisor[s] \in Process
    BY <1>1
  <2> QED
    BY <2>1 DEF Held, Process, NoProcess
<1>3. \A c \in Components : [Held(s) EXCEPT ![c] = 0] \in [Components -> Nat]
  BY <1>2
<1>4. \/ componentsFile' = componentsFile
      \/ componentsFile' = Held(s) \/ componentsFile' = NoProcess
      \/ \E c \in Components : NoticeCrash(s, c)
  BY DEF Acts, StartCommand, TakeFileLock, RegisterSupervisor, AnnounceSupervisor,
     RecordComponents, SeeStop,
     FinishSupervisor, UnlockSupervisor, SupervisorDies, BootComponent, RestartComponent,
     ResetCrashes, StopComponent, Held
<1>5. ASSUME NEW c \in Components, NoticeCrash(s, c)
      PROVE  componentsFile' \in [Components -> Nat]
  BY <1>2, <1>3, <1>5, Movers
<1> QED
  BY <1>1, <1>2, <1>4, <1>5

\* What a process does to the hosts and their programs.
LEMMA WorldMoves ==
    ASSUME NEW s \in Supervisors, Acts(s)
    PROVE  /\ \/ UNCHANGED <<hosts, children, started>>
              \/ StartsComponent
              \/ \E c \in Components : Stopped({supervisor[s].held[c]}) /\ UNCHANGED started
           /\ UNCHANGED deaths \/ Death
<1>1. ASSUME NEW c \in Components,
             BootComponent(s, c) \/ NoticeCrash(s, c) \/ RestartComponent(s, c)
             \/ ResetCrashes(s, c) \/ StopComponent(s, c)
      PROVE  /\ \/ UNCHANGED <<hosts, children, started>>
                \/ StartsComponent
                \/ Stopped({supervisor[s].held[c]}) /\ UNCHANGED started
             /\ UNCHANGED deaths
  BY <1>1 DEF BootComponent, NoticeCrash, RestartComponent, ResetCrashes, StopComponent
<1>2. ASSUME \/ StartCommand(s) \/ TakeFileLock(s) \/ RegisterSupervisor(s)
             \/ AnnounceSupervisor(s) \/ RecordComponents(s) \/ SeeStop(s) \/ FinishSupervisor(s)
             \/ UnlockSupervisor(s) \/ SupervisorDies(s)
      PROVE  UNCHANGED <<hosts, children, started>> /\ (UNCHANGED deaths \/ Death)
  BY <1>2 DEF StartCommand, TakeFileLock, RegisterSupervisor, AnnounceSupervisor,
     RecordComponents, SeeStop,
     FinishSupervisor, UnlockSupervisor, SupervisorDies
<1> QED
  BY <1>1, <1>2 DEF Acts

\* Types are kept by every step.
LEMMA SupervisorTypeStep ==
    SupervisorTypeOK /\ [SupervisorNext]_supervisorVars => SupervisorTypeOK'
<1> SUFFICES ASSUME SupervisorTypeOK, [SupervisorNext]_supervisorVars
             PROVE  SupervisorTypeOK'
  OBVIOUS
<1>t. /\ operator \in Command
      /\ supervisor \in [Supervisors -> Process]
      /\ supervisorFile \in Supervisors \cup {NoSupervisor}
      /\ componentsFile \in [Components -> Nat]
      /\ stopFile \in BOOLEAN
      /\ fileLock \in Supervisors \cup {NoSupervisor}
      /\ hosts \subseteq Nat /\ children \subseteq Nat
      /\ started \in Nat /\ deaths \in Nat
  BY TypesNamed
<1>g. SUFFICES
      /\ operator' \in Command
      /\ supervisor' \in [Supervisors -> Process]
      /\ supervisorFile' \in Supervisors \cup {NoSupervisor}
      /\ componentsFile' \in [Components -> Nat]
      /\ stopFile' \in BOOLEAN
      /\ fileLock' \in Supervisors \cup {NoSupervisor}
      /\ hosts' \subseteq Nat /\ children' \subseteq Nat
      /\ started' \in Nat /\ deaths' \in Nat
  BY Zenon DEF SupervisorTypeOK, Process, Steps, Command, Commands
<1>c. /\ \A pc \in Commands : [operator EXCEPT !.pc = pc] \in Command
      /\ \A pc \in Commands, w \in Supervisors \cup {NoSupervisor} :
            [operator EXCEPT !.pc = pc, !.waits = w] \in Command
      /\ \A pc \in Commands, orphans \in SUBSET Nat :
            [pc |-> pc, waits |-> NoSupervisor, orphans |-> orphans] \in Command
  <2> HIDE DEF Commands
  <2> QED
    BY <1>t DEF Command
<1>n. NoProcess \in [Components -> Nat]
  BY DEF NoProcess
<1>e. ASSUME NEW s \in Supervisors, EndsProcess(s)
      PROVE  /\ supervisor' \in [Supervisors -> Process]
             /\ fileLock' \in Supervisors \cup {NoSupervisor}
  BY <1>t, <1>e, EndMoves DEF Moves, EndsProcess
<1> HIDE DEF Process, Command
<1>1. ASSUME NEW s \in Supervisors, Acts(s) PROVE <1>g!1
  <2>1. supervisor' \in [Supervisors -> Process]
    BY <1>1, ActsAreMoves
  <2>2. componentsFile' \in [Components -> Nat]
    BY <1>1, RecordedTypes
  <2>r. ASSUME RecordComponents(s) PROVE operator' \in Command
    <3>1. PICK orphans \in SUBSET Nat : operator' = [operator EXCEPT !.orphans = orphans]
      <4>1. /\ operator.orphans \in SUBSET Nat
            /\ operator.orphans \cup ((OnRecord \cap children) \ HeldBy(s)) \in SUBSET Nat
        BY <1>t DEF Command
      <4> QED
        BY <2>r, <4>1 DEF RecordComponents
    <3> QED
      BY <1>t, <3>1 DEF Command
  <2>3. operator' \in Command
    BY <1>1, <2>r, <1>t, <1>c DEF Acts, StartCommand, TakeFileLock, RegisterSupervisor,
       AnnounceSupervisor, SeeStop, FinishSupervisor, UnlockSupervisor, SupervisorDies,
       BootComponent, NoticeCrash, RestartComponent, ResetCrashes, StopComponent, Commands
  <2>4. fileLock' \in Supervisors \cup {NoSupervisor}
    BY <1>1, <1>t DEF Acts, StartCommand, TakeFileLock, RegisterSupervisor,
       AnnounceSupervisor, RecordComponents, SeeStop, FinishSupervisor, UnlockSupervisor, SupervisorDies,
       BootComponent, NoticeCrash, RestartComponent, ResetCrashes, StopComponent, EndsProcess
  <2>5. supervisorFile' \in Supervisors \cup {NoSupervisor} /\ stopFile' \in BOOLEAN
    BY <1>1, <1>t DEF Acts, StartCommand, TakeFileLock, RegisterSupervisor,
       AnnounceSupervisor, RecordComponents, SeeStop, FinishSupervisor, UnlockSupervisor, SupervisorDies,
       BootComponent, NoticeCrash, RestartComponent, ResetCrashes, StopComponent
  <2>6. hosts' \subseteq Nat /\ children' \subseteq Nat /\ started' \in Nat
    <3>1. CASE StartsComponent
      BY <1>t, <3>1 DEF StartsComponent
    <3>2. CASE \E c \in Components : Stopped({supervisor[s].held[c]}) /\ UNCHANGED started
      BY <1>t, <3>2 DEF Stopped
    <3> QED
      BY <1>1, <1>t, <3>1, <3>2, WorldMoves
  <2>7. deaths' \in Nat
    BY <1>1, <1>t, WorldMoves DEF Death
  <2> QED
    BY <2>1, <2>2, <2>3, <2>4, <2>5, <2>6, <2>7
<1>2. CASE StartRefused
  BY <1>2, <1>t, <1>c DEF StartRefused, Commands
<1>3. CASE StopCommand
  BY <1>3, <1>t, <1>c DEF StopCommand, Commands
<1>4. CASE FindSupervisor
  BY <1>4, <1>t, <1>c DEF FindSupervisor, Commands
<1>5. CASE WaitForSupervisor
  <2>1. CASE IsAlive(operator.waits)
    <3>1. operator.waits \in Supervisors
      BY <2>1 DEF IsAlive, AliveSupervisors
    <3>2. EndsProcess(operator.waits)
      BY <1>5, <2>1 DEF WaitForSupervisor
    <3>3. operator' = [pc |-> "recorded", waits |-> NoSupervisor,
                       orphans |-> operator.orphans \cup Unrecorded(operator.waits)]
      BY <1>5, <2>1 DEF WaitForSupervisor
    <3>4. operator.orphans \cup Unrecorded(operator.waits) \in SUBSET Nat
      <4>1. supervisor[operator.waits] \in Process
        BY <1>t, <3>1
      <4>2. supervisor[operator.waits].held \in [Components -> Nat]
        BY <4>1 DEF Process
      <4>3. HeldBy(operator.waits) \subseteq Nat
        BY <4>2 DEF HeldBy
      <4> QED
        BY <1>t, <4>3 DEF Command, Unrecorded
    <3>5. operator' \in Command
      BY <1>c, <3>3, <3>4 DEF Commands
    <3> QED
      BY <1>5, <1>t, <1>e, <3>1, <3>2, <3>5 DEF WaitForSupervisor
  <2>2. CASE ~IsAlive(operator.waits)
    BY <1>5, <1>t, <1>c, <2>2 DEF WaitForSupervisor, Commands
  <2> QED
    BY <2>1, <2>2
<1>6. CASE StopRecorded
  BY <1>6, <1>t, <1>c DEF StopRecorded, Stopped, Commands
<1>7. CASE ClearFiles
  <2>1. PICK pc \in {"stopped", "restart"} : operator' = [operator EXCEPT !.pc = pc]
    BY <1>7 DEF ClearFiles
  <2>2. operator' \in Command
    BY <1>c, <2>1 DEF Commands
  <2> QED
    BY <1>7, <1>t, <1>n, <2>2 DEF ClearFiles
<1>8. ASSUME NEW i \in 1 .. MaxStarts, ComponentCrashes(i) \/ HostDies(i) PROVE <1>g!1
  <2>1. /\ UNCHANGED <<operator, supervisor, supervisorFile, componentsFile, stopFile, fileLock,
                       started>>
        /\ hosts' \subseteq hosts /\ children' \subseteq children
        /\ UNCHANGED deaths \/ deaths' = deaths + 1
    BY <1>8 DEF ComponentCrashes, HostDies, Death
  <2>2. deaths' \in Nat
    BY <1>t, <2>1
  <2> QED
    BY <1>t, <2>1, <2>2
<1>9. CASE UNCHANGED supervisorVars
  BY <1>9, <1>t DEF supervisorVars
<1> QED
  BY <1>1, <1>2, <1>3, <1>4, <1>5, <1>6, <1>7, <1>8, <1>9
  DEF SupervisorNext, OperatorNext, Acts

-----------------------------------------------------------------------------
\* The lock, and what a process may hold.

Holding == {"boot", "watch", "backoff", "replaced", "stopping"}
Locking == Holding \cup {"register", "announce", "unlock"}

\* A process that has registered, or is about to, has the lock.
LockInv == \A s \in Supervisors : Pc(s) \in Locking => fileLock = s

\* Each host is held in one place; a place to be filled is empty, or its host
\* is gone.
HeldOK(s) ==
  /\ \A c \in Components : Held(s)[c] <= started
  /\ Pc(s) \in {"off", "lock", "register", "announce"} => Held(s) = NoProcess
  /\ \A c, d \in Components : Held(s)[c] = Held(s)[d] /\ Held(s)[c] # 0 => c = d
  /\ Pc(s) = "boot" => \A c \in Todo(s) : Held(s)[c] = 0
  /\ Pc(s) = "backoff" => \A c \in Todo(s) : Held(s)[c] \notin hosts

HeldInv ==
  /\ children \subseteq 1 .. started
  /\ \A s \in Supervisors : HeldOK(s)

\* A process acts from the step that its action names.
LEMMA StepsOfActs ==
    ASSUME SupervisorTypeOK, NEW s \in Supervisors, Acts(s)
    PROVE  /\ \A r \in Supervisors : r # s => supervisor'[r] = supervisor[r]
           /\ \/ EndsProcess(s) /\ Pc(s)' = "off"
              \/ fileLock = NoSupervisor /\ fileLock' = s
              \/ UNCHANGED fileLock /\ (Pc(s)' \in Locking => Pc(s) \in Locking)
<1> USE DEF Pc, Locking, Holding
<1>t. supervisor \in [Supervisors -> Process]
  BY TypesNamed
<1>1. ASSUME EndsProcess(s)
      PROVE  /\ \A r \in Supervisors : r # s => supervisor'[r] = supervisor[r]
             /\ Pc(s)' = "off"
  BY <1>1, <1>t, EndMoves DEF Moves
<1>2. CASE UnlockSupervisor(s) \/ SupervisorDies(s)
  BY <1>1, <1>2 DEF UnlockSupervisor, SupervisorDies
<1>3. CASE TakeFileLock(s) \/ RegisterSupervisor(s)
  <2>1. TakeFileLock(s) \/ Pc(s) = "register"
    BY <1>3 DEF RegisterSupervisor
  <2> QED
    BY <1>1, <1>3, <2>1, Movers DEF Moves
<1>4. CASE StartCommand(s)
  <2>1. UNCHANGED fileLock
    BY <1>4 DEF StartCommand
  <2> QED
    BY <1>4, <2>1, Movers DEF Moves
<1>announces. CASE AnnounceSupervisor(s)
  <2>1. UNCHANGED fileLock /\ Pc(s) = "announce"
    BY <1>announces DEF AnnounceSupervisor
  <2> QED
    BY <1>announces, <2>1, Movers DEF Moves
<1>5. CASE RecordComponents(s) \/ SeeStop(s) \/ FinishSupervisor(s)
  <2>1. UNCHANGED fileLock /\ Pc(s) \in Holding
    BY <1>5 DEF RecordComponents, SeeStop, FinishSupervisor
  <2> QED
    BY <1>5, <2>1, Movers DEF Moves
<1>6. ASSUME NEW c \in Components,
             BootComponent(s, c) \/ NoticeCrash(s, c) \/ RestartComponent(s, c)
             \/ ResetCrashes(s, c) \/ StopComponent(s, c)
      PROVE  /\ \A r \in Supervisors : r # s => supervisor'[r] = supervisor[r]
             /\ UNCHANGED fileLock /\ Pc(s) \in Locking
  <2>1. UNCHANGED fileLock /\ Pc(s) \in Holding
    BY <1>6 DEF BootComponent, NoticeCrash, RestartComponent, ResetCrashes, StopComponent
  <2> QED
    BY <1>6, <2>1, Movers DEF Moves
<1> QED
  BY <1>2, <1>3, <1>4, <1>announces, <1>5, <1>6 DEF Acts

\* What happens besides the actions of processes: the operator's commands, a
\* stop that kills the process it waits for, and crashes of programs and hosts.
Kill == /\ WaitForSupervisor /\ IsAlive(operator.waits)

Aside ==
  \/ StartRefused \/ StopCommand \/ FindSupervisor \/ StopRecorded \/ ClearFiles
  \/ WaitForSupervisor /\ ~IsAlive(operator.waits)
  \/ \E i \in 1 .. MaxStarts : ComponentCrashes(i) \/ HostDies(i)
  \/ UNCHANGED supervisorVars

\* Every step is one of these.
LEMMA StepsSplit ==
  [SupervisorNext]_supervisorVars =>
    Aside \/ Kill \/ \E s \in Supervisors : Acts(s)
BY DEF SupervisorNext, OperatorNext, Aside, Kill, Acts

\* Besides, nothing is started, and processes and their lock stay.
LEMMA AsideKeeps ==
    ASSUME Aside
    PROVE  /\ UNCHANGED <<supervisor, fileLock, started>>
           /\ hosts' \subseteq hosts /\ children' \subseteq children
BY DEF Aside, StartRefused, StopCommand, FindSupervisor, StopRecorded, ClearFiles,
   WaitForSupervisor, ComponentCrashes, HostDies, supervisorVars, Stopped

\* A stop kills the process it waits for; what it has not recorded is an orphan.
LEMMA KillKeeps ==
    ASSUME SupervisorTypeOK, Kill
    PROVE  \E s \in Supervisors :
             /\ s = operator.waits /\ operator.pc = "wait"
             /\ EndsProcess(s) /\ Pc(s)' = "off" /\ Held(s)' = NoProcess
             /\ \A r \in Supervisors : r # s => supervisor'[r] = supervisor[r]
             /\ UNCHANGED <<supervisorFile, componentsFile, stopFile, hosts, children, started,
                            deaths>>
             /\ operator'.pc = "recorded"
             /\ operator'.orphans = operator.orphans \cup Unrecorded(s)
<1>1. operator.waits \in Supervisors
  BY DEF Kill, IsAlive, AliveSupervisors
<1>2. PICK s \in Supervisors : s = operator.waits
  BY <1>1
<1>3. EndsProcess(s)
  BY <1>2 DEF Kill, WaitForSupervisor
<1>4. Moves(s, "off", NoProcess, {})
  BY <1>3, TypesNamed, EndMoves
<1>5. operator' = [pc |-> "recorded", waits |-> NoSupervisor,
                   orphans |-> operator.orphans \cup Unrecorded(s)]
  BY <1>2 DEF Kill, WaitForSupervisor
<1> QED
  BY <1>2, <1>3, <1>4, <1>5 DEF Kill, WaitForSupervisor, Moves, Pc, Held

\* Every step keeps the lock with the process that works.
LEMMA LockStep ==
    ASSUME SupervisorTypeOK, LockInv, [SupervisorNext]_supervisorVars
    PROVE  LockInv'
<1>1. CASE Aside
  BY <1>1, AsideKeeps DEF LockInv, Pc
<1>e. ASSUME NEW s \in Supervisors, EndsProcess(s), Pc(s)' = "off",
             \A r \in Supervisors : r # s => supervisor'[r] = supervisor[r]
      PROVE  LockInv'
  BY <1>e DEF LockInv, EndsProcess, Pc, Locking, Holding
<1>2. CASE Kill
  BY <1>e, <1>2, KillKeeps
<1>3. ASSUME NEW s \in Supervisors, Acts(s) PROVE LockInv'
  <2>1. \A r \in Supervisors : r # s => supervisor'[r] = supervisor[r]
    BY <1>3, StepsOfActs
  <2>2. CASE EndsProcess(s) /\ Pc(s)' = "off"
    BY <1>e, <2>1, <2>2
  <2>3. CASE fileLock = NoSupervisor /\ fileLock' = s
    BY <2>1, <2>3, SupervisorAssumption DEF LockInv, Pc
  <2>4. CASE UNCHANGED fileLock /\ (Pc(s)' \in Locking => Pc(s) \in Locking)
    BY <2>1, <2>4 DEF LockInv, Pc
  <2> QED
    BY <1>3, <2>2, <2>3, <2>4, StepsOfActs
<1> QED
  BY <1>1, <1>2, <1>3, StepsSplit

\* What a process holds is still so after a step of others.
LEMMA HeldAgain ==
    ASSUME SupervisorTypeOK, NEW r \in Supervisors, HeldOK(r),
           supervisor'[r] = supervisor[r], started' \in Nat, started' >= started,
           \A i \in hosts' : i \in hosts \/ i > started
    PROVE  HeldOK(r)'
<1>t. supervisor[r] \in Process /\ started \in Nat /\ hosts \subseteq Nat
  BY TypesNamed
<1>1. /\ Held(r)' = Held(r) /\ Pc(r)' = Pc(r) /\ Todo(r)' = Todo(r)
      /\ Todo(r) \subseteq Components /\ Held(r) \in [Components -> Nat]
  BY <1>t DEF Held, Pc, Todo, Process
<1>2. \A c \in Components : Held(r)[c] \in Nat /\ Held(r)[c] <= started
  BY <1>1 DEF HeldOK
<1>3. \A c \in Components : Held(r)[c] <= started'
  BY <1>t, <1>2
<1>4. \A c \in Components : Held(r)[c] \notin hosts => Held(r)[c] \notin hosts'
  BY <1>t, <1>2
<1> QED
  BY <1>1, <1>3, <1>4 DEF HeldOK

\* Numbers grow, and a new host has a new number.
LEMMA Growth ==
    ASSUME SupervisorTypeOK, children \subseteq 1 .. started,
           NEW s \in Supervisors, Acts(s)
    PROVE  /\ started' \in Nat /\ started' >= started
           /\ \A i \in hosts' : i \in hosts \/ i > started
           /\ children' \subseteq 1 .. started'
<1>t. started \in Nat
  BY TypesNamed
<1>1. CASE StartsComponent
  BY <1>1, <1>t DEF StartsComponent
<1>2. CASE UNCHANGED started /\ hosts' \subseteq hosts /\ children' \subseteq children
  BY <1>2, <1>t
<1> QED
  BY <1>1, <1>2, WorldMoves DEF Stopped

\* A process that gets a new host has it in one place.
LEMMA NewHost ==
    ASSUME NEW held \in [Components -> Nat], NEW c \in Components, started \in Nat,
           \A d \in Components : held[d] <= started,
           \A d, e \in Components : held[d] = held[e] /\ held[d] # 0 => d = e
    PROVE  LET new == [held EXCEPT ![c] = started + 1]
           IN  /\ \A d \in Components : new[d] <= started + 1
               /\ \A d, e \in Components : new[d] = new[e] /\ new[d] # 0 => d = e
<1> DEFINE new == [held EXCEPT ![c] = started + 1]
<1>1. new[c] = started + 1 /\ \A d \in Components : d # c => new[d] = held[d]
  OBVIOUS
<1>2. \A d \in Components : held[d] \in Nat /\ held[d] <= started
  OBVIOUS
<1> HIDE DEF new
<1>3. \A d \in Components : new[d] <= started + 1
  BY <1>1, <1>2
<1>4. \A d \in Components : d # c => new[d] # new[c]
  BY <1>1, <1>2
<1>5. ASSUME NEW d \in Components, NEW e \in Components, new[d] = new[e], new[d] # 0
      PROVE  d = e
  BY <1>1, <1>4, <1>5
<1> QED
  BY <1>3, <1>5 DEF new

\* A process's own step keeps what it holds in order.
LEMMA OwnHeld ==
    ASSUME SupervisorTypeOK, HeldInv, NEW s \in Supervisors, Acts(s)
    PROVE  HeldOK(s)'
<1>t. /\ supervisor \in [Supervisors -> Process] /\ started \in Nat /\ hosts \subseteq Nat
      /\ supervisor[s] \in Process
  BY TypesNamed
<1>p. Held(s) \in [Components -> Nat] /\ Todo(s) \subseteq Components
  BY <1>t DEF Held, Todo, Process
<1>g. /\ started' \in Nat /\ started' >= started
      /\ \A i \in hosts' : i \in hosts \/ i > started
  BY Growth DEF HeldInv
<1>h. /\ \A c \in Components : Held(s)[c] <= started
      /\ Pc(s) \in {"off", "lock", "register", "announce"} => Held(s) = NoProcess
      /\ \A c, d \in Components : Held(s)[c] = Held(s)[d] /\ Held(s)[c] # 0 => c = d
      /\ Pc(s) = "boot" => \A c \in Todo(s) : Held(s)[c] = 0
      /\ Pc(s) = "backoff" => \A c \in Todo(s) : Held(s)[c] \notin hosts
  BY DEF HeldInv, HeldOK
<1>0. NoProcess \in [Components -> Nat] /\ \A c \in Components : NoProcess[c] = 0
  BY DEF NoProcess
<1>i. ASSUME NEW pc, NEW held, NEW todo, Moves(s, pc, held, todo)
      PROVE  Pc(s)' = pc /\ Held(s)' = held /\ Todo(s)' = todo
  BY <1>i DEF Moves, Pc, Held, Todo
<1>l. \A c \in Components : Held(s)[c] <= started'
  BY <1>t, <1>p, <1>g, <1>h
\* The end of a process.
<1>1. ASSUME EndsProcess(s) PROVE HeldOK(s)'
  <2>1. Pc(s)' = "off" /\ Held(s)' = NoProcess
    BY <1>1, <1>t, <1>i, EndMoves
  <2>2. \A c \in Components : NoProcess[c] <= started'
    BY <1>0, <1>g
  <2> QED
    BY <1>0, <2>1, <2>2 DEF HeldOK
\* Steps that hold what was held.
<1>2. ASSUME NEW pc, NEW todo, Moves(s, pc, Held(s), todo),
             pc \in {"off", "lock", "register", "announce", "boot"} => Held(s) = NoProcess,
             pc = "boot" => todo \subseteq Components,
             pc = "backoff" => \A c \in todo : c \in Components /\ Held(s)[c] \notin hosts
      PROVE  HeldOK(s)'
  <2>1. Pc(s)' = pc /\ Held(s)' = Held(s) /\ Todo(s)' = todo
    BY <1>2, <1>i
  <2>2. pc = "backoff" => \A c \in todo : Held(s)[c] \notin hosts'
    BY <1>2, <1>t, <1>p, <1>g, <1>h
  <2>3. pc = "boot" => \A c \in todo : Held(s)[c] = 0
    BY <1>2, <1>0
  <2> QED
    BY <1>2, <1>h, <1>l, <2>1, <2>2, <2>3 DEF HeldOK
<1>3. CASE UnlockSupervisor(s) \/ SupervisorDies(s)
  BY <1>1, <1>3 DEF UnlockSupervisor, SupervisorDies
<1>4. CASE StartCommand(s)
  <2>1. Pc(s) = "off"
    BY <1>4 DEF StartCommand, IsAlive, AliveSupervisors, Pc
  <2> QED
    BY <1>2, <1>4, <1>h, <2>1, Movers
<1>5. CASE TakeFileLock(s) \/ RegisterSupervisor(s) \/ AnnounceSupervisor(s)
  <2>1. Held(s) = NoProcess
    BY <1>5, <1>h DEF TakeFileLock, RegisterSupervisor, AnnounceSupervisor, Pc
  <2>2. CASE Moves(s, "register", Held(s), Todo(s))
    BY <1>2, <2>1, <2>2
  <2>3. CASE Moves(s, "announce", Held(s), Todo(s))
    BY <1>2, <2>1, <2>3
  <2>4. CASE Moves(s, "boot", Held(s), Components)
    BY <1>2, <2>1, <2>4
  <2> QED
    BY <1>1, <1>5, <2>2, <2>3, <2>4, Movers
<1>6. CASE RecordComponents(s) \/ SeeStop(s) \/ FinishSupervisor(s)
  BY <1>2, <1>6, Movers
<1>7. ASSUME NEW c \in Components, BootComponent(s, c) PROVE HeldOK(s)'
  <2> DEFINE new == [Held(s) EXCEPT ![c] = started + 1]
  <2>1. Pc(s)' = "boot" /\ Held(s)' = new /\ Todo(s)' = Todo(s) \ {c}
    BY <1>7, <1>i, Movers
  <2>2. Pc(s) = "boot" /\ started' = started + 1
    BY <1>7 DEF BootComponent, StartsComponent, Pc
  <2>3. \A d \in Todo(s) \ {c} : new[d] = 0
    BY <1>h, <1>p, <2>2
  <2>4. /\ \A d \in Components : new[d] <= started + 1
        /\ \A d, e \in Components : new[d] = new[e] /\ new[d] # 0 => d = e
    BY <1>h, <1>p, <1>t, NewHost
  <2> HIDE DEF new
  <2> QED
    BY <2>1, <2>2, <2>3, <2>4 DEF HeldOK
<1>8. ASSUME NEW c \in Components, NoticeCrash(s, c) PROVE HeldOK(s)'
  <2>1. CASE Moves(s, "watch", [Held(s) EXCEPT ![c] = 0], Todo(s))
    <3> DEFINE new == [Held(s) EXCEPT ![c] = 0]
    <3>1. Pc(s)' = "watch" /\ Held(s)' = new
      BY <1>i, <2>1
    <3>2. new[c] = 0 /\ \A d \in Components : d # c => new[d] = Held(s)[d]
      BY <1>p
    <3> HIDE DEF new
    <3>3. \A d \in Components : new[d] <= started'
      BY <1>l, <1>g, <1>t, <3>2
    <3>4. \A d, e \in Components : new[d] = new[e] /\ new[d] # 0 => d = e
      BY <1>h, <3>2
    <3> QED
      BY <3>1, <3>3, <3>4 DEF HeldOK
  <2>2. CASE Moves(s, "backoff", Held(s), {c})
    <3>1. Held(s)[c] \notin hosts
      BY <1>8 DEF NoticeCrash, HostIsGone, Held
    <3> QED
      BY <1>2, <1>8, <2>2, <3>1
  <2> QED
    BY <1>8, <2>1, <2>2, Movers
<1>9. ASSUME NEW c \in Components, RestartComponent(s, c) PROVE HeldOK(s)'
  <2>1. CASE /\ StartsComponent
             /\ Moves(s, "replaced", [Held(s) EXCEPT ![c] = started + 1], {})
    <3> DEFINE new == [Held(s) EXCEPT ![c] = started + 1]
    <3>1. Pc(s)' = "replaced" /\ Held(s)' = new
      BY <1>i, <2>1
    <3>2. started' = started + 1
      BY <2>1 DEF StartsComponent
    <3>3. /\ \A d \in Components : new[d] <= started + 1
          /\ \A d, e \in Components : new[d] = new[e] /\ new[d] # 0 => d = e
      BY <1>h, <1>p, <1>t, NewHost
    <3> HIDE DEF new
    <3> QED
      BY <3>1, <3>2, <3>3 DEF HeldOK
  <2>2. CASE Moves(s, "watch", Held(s), {})
    BY <1>2, <2>2
  <2> QED
    BY <1>9, <2>1, <2>2, Movers
<1>10. ASSUME NEW c \in Components, ResetCrashes(s, c) \/ StopComponent(s, c)
       PROVE  HeldOK(s)'
  BY <1>2, <1>10, Movers
<1> QED
  BY <1>3, <1>4, <1>5, <1>6, <1>7, <1>8, <1>9, <1>10 DEF Acts

\* Every step keeps HeldInv.
LEMMA HeldStep ==
    ASSUME SupervisorTypeOK, HeldInv, [SupervisorNext]_supervisorVars
    PROVE  HeldInv'
<1>t. started \in Nat /\ supervisor \in [Supervisors -> Process]
  BY TypesNamed
<1>h. children \subseteq 1 .. started /\ \A r \in Supervisors : HeldOK(r)
  BY DEF HeldInv
<1>1. CASE Aside
  <2>1. /\ UNCHANGED <<supervisor, started>>
        /\ hosts' \subseteq hosts /\ children' \subseteq children
    BY <1>1, AsideKeeps
  <2>2. ASSUME NEW r \in Supervisors PROVE HeldOK(r)'
    BY <1>t, <1>h, <2>1, HeldAgain
  <2> QED
    BY <1>h, <2>1, <2>2 DEF HeldInv
<1>2. CASE Kill
  <2>1. PICK s \in Supervisors :
             /\ Pc(s)' = "off" /\ Held(s)' = NoProcess
             /\ \A r \in Supervisors : r # s => supervisor'[r] = supervisor[r]
             /\ UNCHANGED <<hosts, children, started>>
    BY <1>2, KillKeeps
  <2>2. \A r \in Supervisors : r # s => HeldOK(r)'
    BY <1>t, <1>h, <2>1, HeldAgain
  <2>3. HeldOK(s)'
    BY <1>t, <2>1 DEF HeldOK, NoProcess
  <2> QED
    BY <1>h, <2>1, <2>2, <2>3 DEF HeldInv
<1>3. ASSUME NEW s \in Supervisors, Acts(s) PROVE HeldInv'
  <2>1. /\ started' \in Nat /\ started' >= started
        /\ \A i \in hosts' : i \in hosts \/ i > started
        /\ children' \subseteq 1 .. started'
    BY <1>3, <1>h, Growth
  <2>2. HeldOK(s)'
    BY <1>3, OwnHeld
  <2>3. ASSUME NEW r \in Supervisors, r # s PROVE HeldOK(r)'
    BY <1>3, <1>h, <2>1, <2>3, StepsOfActs, HeldAgain
  <2> QED
    BY <2>1, <2>2, <2>3 DEF HeldInv
<1> QED
  BY <1>1, <1>2, <1>3, StepsSplit

-----------------------------------------------------------------------------
\* The files, and every program that runs.

\* What a registered supervisor watches or stops is recorded; whom a stop waits
\* for stays registered until its end.
FileInv ==
  /\ \A s \in Supervisors :
       supervisorFile = s /\ Pc(s) \in {"watch", "backoff", "stopping"}
         => componentsFile = Held(s)
  /\ \A s \in Supervisors :
       operator.pc = "wait" /\ operator.waits = s /\ Pc(s) \in Holding
         => supervisorFile = s

\* Where a process still has programs to look after.
Places(s) ==
  IF Pc(s) = "stopping" THEN Todo(s) ELSE IF Pc(s) \in Holding THEN Components ELSE {}

IsHeld(i) == \E s \in Supervisors : \E c \in Places(s) : Held(s)[c] = i

\* A process whose own record may stand in the components file.
Recording == {"watch", "backoff", "replaced", "stopping"}

\* The stop that killed the supervisor now finds the program recorded, and no
\* other process has written its record over it.
Left(i) ==
  /\ operator.pc = "recorded" /\ i \in OnRecord
  /\ \A s \in Supervisors : Pc(s) \notin Recording

ChildInv ==
  deaths = 0 =>
    /\ children \subseteq hosts
    /\ \A i \in children : IsHeld(i) \/ Left(i) \/ i \in operator.orphans

SupervisorInv == SupervisorTypeOK /\ LockInv /\ HeldInv /\ FileInv /\ ChildInv

\* A process that registers or works is the only one.
LEMMA OnlyOne ==
    ASSUME LockInv, NEW r \in Supervisors, NEW s \in Supervisors,
           Pc(r) \in Locking, Pc(s) \in Locking
    PROVE  r = s
BY DEF LockInv

\* Every step of a process keeps FileInv.
LEMMA OwnFiles ==
    ASSUME SupervisorTypeOK, LockInv, FileInv, NEW s \in Supervisors, Acts(s)
    PROVE  FileInv'
<1> USE DEF Pc, Held, Locking, Holding
<1>t. /\ supervisor \in [Supervisors -> Process] /\ NoSupervisor \notin Supervisors
      /\ operator \in Command
  BY TypesNamed, SupervisorAssumption
<1>o. \A r \in Supervisors : r # s => supervisor'[r] = supervisor[r]
  BY StepsOfActs
<1>f. /\ \A r \in Supervisors :
            supervisorFile = r /\ Pc(r) \in {"watch", "backoff", "stopping"}
                => componentsFile = Held(r)
      /\ \A r \in Supervisors :
            operator.pc = "wait" /\ operator.waits = r /\ Pc(r) \in Holding
                => supervisorFile = r
  BY DEF FileInv
\* While s has the lock, nobody else watches or stops, or is waited for.
<1>w. Pc(s) \in Locking => \A r \in Supervisors : r # s => Pc(r) \notin Locking
  BY OnlyOne
<1>1. ASSUME UNCHANGED <<operator, supervisorFile, componentsFile>>,
             Pc(s)' \notin Holding
      PROVE  FileInv'
  BY <1>1, <1>o, <1>f DEF FileInv
<1>e. EndsProcess(s) => Pc(s)' = "off"
  BY <1>t, EndMoves DEF Moves
<1>2. CASE UnlockSupervisor(s) \/ SupervisorDies(s)
  BY <1>1, <1>2, <1>e DEF UnlockSupervisor, SupervisorDies
<1>3. CASE TakeFileLock(s)
  <2>1. UNCHANGED <<operator, supervisorFile, componentsFile>>
    BY <1>3 DEF TakeFileLock
  <2>2. Pc(s)' \notin Holding
    BY <1>3, <1>e, Movers DEF Moves
  <2> QED
    BY <1>1, <2>1, <2>2
<1>4. CASE StartCommand(s)
  <2>1. /\ supervisorFile' = NoSupervisor
        /\ operator' = [operator EXCEPT !.pc = "idle"]
    BY <1>4 DEF StartCommand
  <2>2. operator'.pc = "idle"
    BY <1>t, <2>1 DEF Command
  <2> QED
    BY <1>t, <2>1, <2>2 DEF FileInv
<1>5. CASE RegisterSupervisor(s)
  <2>1. UNCHANGED <<operator, componentsFile>> /\ Pc(s) = "register"
    BY <1>5 DEF RegisterSupervisor
  <2>2. CASE EndsProcess(s) /\ UNCHANGED supervisorFile
    BY <1>1, <1>e, <2>1, <2>2
  <2>3. CASE Moves(s, "announce", Held(s), Todo(s))
    <3>1. Pc(s)' = "announce"
      BY <2>3 DEF Moves
    <3>2. \A r \in Supervisors : r # s => Pc(r)' \notin Locking
      BY <1>o, <1>w, <2>1
    <3> QED
      BY <3>1, <3>2 DEF FileInv
  <2> QED
    BY <1>5, <2>2, <2>3, Movers
<1>announces. CASE AnnounceSupervisor(s)
  <2>1. supervisorFile' = s /\ Pc(s) = "announce"
    BY <1>announces DEF AnnounceSupervisor
  <2>2. Pc(s)' = "boot"
    BY <1>announces, Movers DEF Moves
  <2>3. \A r \in Supervisors : r # s => Pc(r)' \notin Locking
    BY <1>o, <1>w, <2>1
  <2> QED
    BY <2>1, <2>2, <2>3 DEF FileInv
\* Steps after which s is registered with what it holds, or not registered.
<1>6. ASSUME Pc(s) \in Holding, operator'.pc = operator.pc, operator'.waits = operator.waits,
             \/ UNCHANGED supervisorFile
             \/ supervisorFile' = NoSupervisor /\ Pc(s)' = "unlock",
             Pc(s)' \in {"watch", "backoff", "stopping"} /\ supervisorFile = s
                => componentsFile' = Held(s)'
      PROVE  FileInv'
  <2>1. \A r \in Supervisors : r # s => Pc(r)' \notin Locking
    BY <1>6, <1>o, <1>w
  <2>2. Pc(s)' \in {"watch", "backoff", "stopping"} /\ supervisorFile' = s
            => componentsFile' = Held(s)'
    BY <1>t, <1>6
  <2>3. operator'.pc = "wait" /\ operator'.waits = s /\ Pc(s)' \in Holding
            => supervisorFile' = s
    BY <1>6, <1>f
  <2> QED
    BY <2>1, <2>2, <2>3 DEF FileInv
<1>7. CASE RecordComponents(s)
  <2>1. /\ Pc(s) \in Holding /\ UNCHANGED supervisorFile
        /\ componentsFile' = Held(s)
    BY <1>7 DEF RecordComponents
  <2>2. operator'.pc = operator.pc /\ operator'.waits = operator.waits
    BY <1>7, <1>t DEF RecordComponents, Command
  <2>3. Held(s)' = Held(s)
    BY <1>7, Movers DEF Moves
  <2> QED
    BY <1>6, <2>1, <2>2, <2>3
<1>8. CASE SeeStop(s)
  <2>1. Pc(s) = "watch" /\ UNCHANGED <<operator, supervisorFile, componentsFile>>
    BY <1>8 DEF SeeStop
  <2>2. Held(s)' = Held(s)
    BY <1>8, Movers DEF Moves
  <2> QED
    BY <1>6, <1>f, <2>1, <2>2
<1>9. CASE FinishSupervisor(s)
  <2>1. Pc(s) = "stopping" /\ UNCHANGED operator /\ supervisorFile' = NoSupervisor
    BY <1>9 DEF FinishSupervisor
  <2>2. Pc(s)' = "unlock"
    BY <1>9, Movers DEF Moves
  <2> QED
    BY <1>6, <2>1, <2>2
<1>10. ASSUME NEW c \in Components, BootComponent(s, c) PROVE FileInv'
  <2>1. Pc(s) \in Holding /\ UNCHANGED <<operator, supervisorFile>>
    BY <1>10 DEF BootComponent
  <2>2. Pc(s)' = "boot"
    BY <1>10, Movers DEF Moves
  <2> QED
    BY <1>6, <2>1, <2>2
<1>11. ASSUME NEW c \in Components, NoticeCrash(s, c) PROVE FileInv'
  <2>1. Pc(s) \in Holding /\ UNCHANGED <<operator, supervisorFile>>
    BY <1>11 DEF NoticeCrash
  <2>2. componentsFile' = Held(s)'
    BY <1>11, Movers DEF Moves
  <2> QED
    BY <1>6, <2>1, <2>2
<1>12. ASSUME NEW c \in Components, RestartComponent(s, c) PROVE FileInv'
  <2>1. Pc(s) = "backoff" /\ UNCHANGED <<operator, supervisorFile, componentsFile>>
    BY <1>12 DEF RestartComponent
  <2>2. Pc(s)' = "replaced" \/ Held(s)' = Held(s)
    BY <1>12, Movers DEF Moves
  <2> QED
    BY <1>6, <1>f, <2>1, <2>2
<1>13. ASSUME NEW c \in Components, ResetCrashes(s, c) PROVE FileInv'
  <2>1. /\ Pc(s) \in Holding /\ UNCHANGED <<operator, supervisorFile>>
        /\ componentsFile' = Held(s)
    BY <1>13 DEF ResetCrashes
  <2>2. Held(s)' = Held(s)
    BY <1>13, Movers DEF Moves
  <2> QED
    BY <1>6, <2>1, <2>2
<1>14. ASSUME NEW c \in Components, StopComponent(s, c) PROVE FileInv'
  <2>1. Pc(s) = "stopping" /\ UNCHANGED <<operator, supervisorFile, componentsFile>>
    BY <1>14 DEF StopComponent
  <2>2. Held(s)' = Held(s)
    BY <1>14, Movers DEF Moves
  <2> QED
    BY <1>6, <1>f, <2>1, <2>2
<1> QED
  BY <1>2, <1>3, <1>4, <1>5, <1>announces, <1>7, <1>8, <1>9, <1>10, <1>11, <1>12, <1>13,
     <1>14 DEF Acts

\* Every step keeps FileInv.
LEMMA FileStep ==
    ASSUME SupervisorTypeOK, LockInv, FileInv, [SupervisorNext]_supervisorVars
    PROVE  FileInv'
<1>t. operator \in Command /\ NoSupervisor \notin Supervisors
  BY TypesNamed, SupervisorAssumption
<1>1. CASE Aside
  <2>1. UNCHANGED supervisor
    BY <1>1, AsideKeeps
  <2>2. ASSUME UNCHANGED <<supervisorFile, componentsFile>>,
               operator'.pc = "wait" => UNCHANGED operator
        PROVE  FileInv'
    BY <2>1, <2>2 DEF FileInv, Pc, Held
  <2>3. CASE FindSupervisor
    <3>1. /\ UNCHANGED <<supervisorFile, componentsFile>>
          /\ operator' = [operator EXCEPT !.pc = "wait",
               !.waits = IF IsAlive(supervisorFile) THEN supervisorFile ELSE NoSupervisor]
      BY <2>3 DEF FindSupervisor
    <3>2. operator'.waits \in {supervisorFile, NoSupervisor}
      BY <1>t, <3>1 DEF Command
    <3> QED
      BY <1>t, <2>1, <3>1, <3>2 DEF FileInv, Pc, Held
  <2>4. CASE ClearFiles
    <3>1. supervisorFile' = NoSupervisor /\ operator'.pc \in {"stopped", "restart"}
      BY <1>t, <2>4 DEF ClearFiles, Command
    <3> QED
      BY <1>t, <3>1 DEF FileInv
  <2>5. CASE StartRefused \/ StopCommand \/ StopRecorded
    <3>1. UNCHANGED <<supervisorFile, componentsFile>> /\ operator'.pc # "wait"
      BY <1>t, <2>5 DEF StartRefused, StopCommand, StopRecorded, Command
    <3> QED
      BY <2>2, <3>1
  <2>6. CASE WaitForSupervisor /\ ~IsAlive(operator.waits)
    <3>1. UNCHANGED <<supervisorFile, componentsFile>> /\ operator'.pc # "wait"
      BY <1>t, <2>6 DEF WaitForSupervisor, Command
    <3> QED
      BY <2>2, <3>1
  <2>7. CASE \/ \E i \in 1 .. MaxStarts : ComponentCrashes(i) \/ HostDies(i)
             \/ UNCHANGED supervisorVars
    <3>1. UNCHANGED <<operator, supervisorFile, componentsFile>>
      BY <2>7 DEF ComponentCrashes, HostDies, supervisorVars
    <3> QED
      BY <2>2, <3>1
  <2> QED
    BY <1>1, <2>3, <2>4, <2>5, <2>6, <2>7 DEF Aside
<1>2. CASE Kill
  <2>1. PICK s \in Supervisors :
             /\ Pc(s)' = "off"
             /\ \A r \in Supervisors : r # s => supervisor'[r] = supervisor[r]
             /\ UNCHANGED <<supervisorFile, componentsFile>>
             /\ operator'.pc = "recorded"
    BY <1>2, KillKeeps
  <2> QED
    BY <2>1 DEF FileInv, Pc, Held
<1>3. ASSUME NEW s \in Supervisors, Acts(s) PROVE FileInv'
  BY <1>3, OwnFiles
<1> QED
  BY <1>1, <1>2, <1>3, StepsSplit

\* A program that a process looks after stays in its place.
LEMMA KeepsPlace ==
    ASSUME SupervisorTypeOK, HeldInv, NEW s \in Supervisors, Acts(s),
           ~SupervisorDies(s), children \subseteq hosts,
           NEW c \in Places(s), Held(s)[c] \in children, Held(s)[c] \in children'
    PROVE  c \in Places(s)' /\ Held(s)'[c] = Held(s)[c]
<1> DEFINE i == Held(s)[c]
<1>t. /\ supervisor \in [Supervisors -> Process] /\ started \in Nat
      /\ supervisor[s] \in Process
  BY TypesNamed
<1>p. /\ Held(s) \in [Components -> Nat] /\ Todo(s) \subseteq Components
      /\ c \in Components /\ Pc(s) \in Holding
      /\ Pc(s) = "stopping" => c \in Todo(s)
  BY <1>t DEF Held, Todo, Process, Places, Holding
<1>i. i \in hosts /\ i # 0
  <2>1. children \subseteq 1 .. started
    BY DEF HeldInv
  <2>2. i \in children /\ children \subseteq hosts
    OBVIOUS
  <2> HIDE DEF i
  <2>3. \A j \in 1 .. started : j # 0
    BY <1>t
  <2> QED
    BY <2>1, <2>2, <2>3
<1>h. HeldOK(s)
  BY DEF HeldInv
<1>m. ASSUME NEW pc, NEW held, NEW todo, Moves(s, pc, held, todo)
      PROVE  Pc(s)' = pc /\ Held(s)' = held /\ Todo(s)' = todo
  BY <1>m DEF Moves, Pc, Held, Todo
<1>1. ASSUME NEW pc \in Holding, NEW held, NEW todo, Moves(s, pc, held, todo),
             pc = "stopping" => c \in todo, held[c] = i
      PROVE  c \in Places(s)' /\ Held(s)'[c] = i
  BY <1>1, <1>m, <1>p DEF Places
<1>2. ~(StartCommand(s) \/ TakeFileLock(s) \/ RegisterSupervisor(s) \/ AnnounceSupervisor(s)
        \/ UnlockSupervisor(s))
  BY <1>p DEF StartCommand, TakeFileLock, RegisterSupervisor, AnnounceSupervisor,
     UnlockSupervisor, IsAlive, AliveSupervisors, Holding, Pc
<1>3. ~FinishSupervisor(s)
  BY <1>p DEF FinishSupervisor, Pc, Todo
<1>4. CASE RecordComponents(s)
  BY <1>1, <1>4, Movers DEF Holding
<1>5. CASE SeeStop(s)
  BY <1>1, <1>5, <1>p, Movers DEF Holding
<1>6. ASSUME NEW d \in Components, BootComponent(s, d)
      PROVE  c \in Places(s)' /\ Held(s)'[c] = i
  <2>1. Pc(s) = "boot" /\ d \in Todo(s)
    BY <1>6 DEF BootComponent, Pc, Todo
  <2>2. c # d
    BY <1>h, <1>i, <2>1 DEF HeldOK
  <2>3. [Held(s) EXCEPT ![d] = started + 1][c] = i
    BY <1>p, <2>2
  <2> QED
    BY <1>1, <1>6, <2>3, Movers DEF Holding
<1>7. ASSUME NEW d \in Components, NoticeCrash(s, d)
      PROVE  c \in Places(s)' /\ Held(s)'[c] = i
  <2>1. c # d
    BY <1>7, <1>i DEF NoticeCrash, HostIsGone, Held
  <2>2. [Held(s) EXCEPT ![d] = 0][c] = i
    BY <1>p, <2>1
  <2> QED
    BY <1>1, <1>7, <2>2, Movers DEF Holding
<1>8. ASSUME NEW d \in Components, RestartComponent(s, d)
      PROVE  c \in Places(s)' /\ Held(s)'[c] = i
  <2>1. Pc(s) = "backoff" /\ d \in Todo(s)
    BY <1>8 DEF RestartComponent, Pc, Todo
  <2>2. c # d
    BY <1>h, <1>i, <2>1 DEF HeldOK
  <2>3. [Held(s) EXCEPT ![d] = started + 1][c] = i
    BY <1>p, <2>2
  <2> QED
    BY <1>1, <1>8, <2>3, Movers DEF Holding
<1>9. ASSUME NEW d \in Components, ResetCrashes(s, d)
      PROVE  c \in Places(s)' /\ Held(s)'[c] = i
  BY <1>1, <1>9, Movers DEF Holding
<1>10. ASSUME NEW d \in Components, StopComponent(s, d)
       PROVE  c \in Places(s)' /\ Held(s)'[c] = i
  <2>1. Pc(s) = "stopping" /\ children' = children \ ({Held(s)[d]} \cap hosts)
    BY <1>10 DEF StopComponent, Stopped, Pc, Held
  <2>2. c # d
    BY <1>i, <2>1
  <2>3. c \in Todo(s) \ {d}
    BY <1>p, <2>1, <2>2
  <2> QED
    BY <1>1, <1>10, <2>3, Movers DEF Holding
<1> QED
  BY <1>2, <1>3, <1>4, <1>5, <1>6, <1>7, <1>8, <1>9, <1>10 DEF Acts

\* A program that was started is held.
LEMMA StartedIsHeld ==
    ASSUME SupervisorTypeOK, NEW s \in Supervisors, Acts(s), StartsComponent,
           NEW i, i = started + 1
    PROVE  IsHeld(i)'
<1>t. /\ supervisor \in [Supervisors -> Process] /\ started \in Nat
      /\ supervisor[s] \in Process
  BY TypesNamed
<1>p. Held(s) \in [Components -> Nat]
  BY <1>t DEF Held, Process
<1>n. started' = started + 1 /\ started' # started
  BY <1>t DEF StartsComponent
<1>1. PICK c \in Components : BootComponent(s, c) \/ RestartComponent(s, c)
  BY <1>n DEF Acts, StartCommand, TakeFileLock, RegisterSupervisor, AnnounceSupervisor,
     RecordComponents, SeeStop, FinishSupervisor, UnlockSupervisor, SupervisorDies, NoticeCrash, ResetCrashes,
     StopComponent
<1>m. PICK pc \in {"boot", "replaced"} :
        \E todo : Moves(s, pc, [Held(s) EXCEPT ![c] = started + 1], todo)
  BY <1>1, <1>n, Movers
<1>2. PICK todo : Moves(s, pc, [Held(s) EXCEPT ![c] = started + 1], todo)
  BY <1>m
<1>3. Pc(s)' = pc /\ Held(s)'[c] = i
  BY <1>p, <1>2 DEF Moves, Pc, Held
<1>4. c \in Places(s)'
  BY <1>3 DEF Places, Holding
<1> QED
  BY <1>3, <1>4 DEF IsHeld

\* The stop still finds what it would have found, unless another process writes
\* its record: then what that one does not hold is an orphan.
LEMMA LeftAgain ==
    ASSUME SupervisorTypeOK, NEW s \in Supervisors, Acts(s),
           NEW i \in children, Left(i)
    PROVE  Left(i)' \/ IsHeld(i)' \/ i \in operator'.orphans
<1>t. /\ operator \in Command /\ supervisor \in [Supervisors -> Process]
  BY TypesNamed
<1>l. /\ operator.pc = "recorded" /\ i \in OnRecord
      /\ \A r \in Supervisors : Pc(r) \notin Recording
  BY DEF Left
<1>o. \A r \in Supervisors : r # s => supervisor'[r] = supervisor[r]
  BY StepsOfActs
<1>1. ASSUME UNCHANGED <<operator, componentsFile>>, Pc(s)' \notin Recording
      PROVE  Left(i)'
  <2>1. \A r \in Supervisors : Pc(r)' \notin Recording
    BY <1>l, <1>o, <1>1 DEF Pc
  <2> QED
    BY <1>l, <1>1, <2>1 DEF Left, OnRecord
<1>e. EndsProcess(s) => Pc(s)' \notin Recording
  BY <1>t, EndMoves DEF Moves, Pc, Recording
<1>2. CASE UnlockSupervisor(s) \/ SupervisorDies(s)
  BY <1>1, <1>2, <1>e DEF UnlockSupervisor, SupervisorDies
<1>3. CASE TakeFileLock(s) \/ RegisterSupervisor(s)
  <2>1. UNCHANGED <<operator, componentsFile>>
    BY <1>3 DEF TakeFileLock, RegisterSupervisor
  <2>2. Pc(s)' \notin Recording
    BY <1>3, <1>e, Movers DEF Moves, Pc, Recording
  <2> QED
    BY <1>1, <2>1, <2>2
<1>4. CASE AnnounceSupervisor(s) \/ \E c \in Components : BootComponent(s, c)
  <2>1. UNCHANGED <<operator, componentsFile>>
    BY <1>4 DEF AnnounceSupervisor, BootComponent
  <2>2. Pc(s)' \notin Recording
    BY <1>4, Movers DEF Moves, Pc, Recording
  <2> QED
    BY <1>1, <2>1, <2>2
<1>5. CASE RecordComponents(s)
  <2>1. Moves(s, "watch", Held(s), Todo(s))
    BY <1>5, Movers
  <2>2. CASE i \in HeldBy(s)
    <3>1. PICK c \in Components : Held(s)[c] = i
      BY <2>2 DEF HeldBy, Held
    <3>2. Pc(s)' = "watch" /\ Held(s)' = Held(s)
      BY <2>1 DEF Moves, Pc, Held
    <3>3. c \in Places(s)'
      BY <3>2 DEF Places, Holding
    <3> QED
      BY <3>1, <3>2, <3>3 DEF IsHeld
  <2>3. CASE i \notin HeldBy(s)
    <3>1. operator' = [operator EXCEPT !.orphans = @ \cup ((OnRecord \cap children) \ HeldBy(s))]
      BY <1>5, <1>l DEF RecordComponents
    <3>2. i \in (OnRecord \cap children) \ HeldBy(s)
      BY <1>l, <2>3
    <3> QED
      BY <1>t, <3>1, <3>2 DEF Command
  <2> QED
    BY <2>2, <2>3
<1>6. ~StartCommand(s)
  BY <1>l DEF StartCommand, AtRest
<1>7. ~(SeeStop(s) \/ FinishSupervisor(s))
  BY <1>l DEF SeeStop, FinishSupervisor, Pc, Recording
<1>8. ~ \E c \in Components : NoticeCrash(s, c) \/ RestartComponent(s, c)
                             \/ ResetCrashes(s, c) \/ StopComponent(s, c)
  BY <1>l DEF NoticeCrash, RestartComponent, ResetCrashes, StopComponent, Pc, Recording
<1> QED
  BY <1>2, <1>3, <1>4, <1>5, <1>6, <1>7, <1>8 DEF Acts

\* What a process does takes no orphan from the list.
LEMMA OrphansStay ==
    ASSUME SupervisorTypeOK, NEW s \in Supervisors, Acts(s)
    PROVE  operator.orphans \subseteq operator'.orphans
<1>t. operator \in Command
  BY TypesNamed
<1>1. CASE RecordComponents(s)
  <2>1. PICK orphans : /\ operator.orphans \subseteq orphans
                       /\ operator' = [operator EXCEPT !.orphans = orphans]
    BY <1>1 DEF RecordComponents
  <2> QED
    BY <1>t, <2>1 DEF Command
<1>2. CASE StartCommand(s)
  BY <1>2, <1>t DEF StartCommand, Command
<1>3. CASE ~RecordComponents(s) /\ ~StartCommand(s)
  BY <1>3 DEF Acts, TakeFileLock, RegisterSupervisor, AnnounceSupervisor, SeeStop,
     FinishSupervisor, UnlockSupervisor, SupervisorDies, BootComponent, NoticeCrash,
     RestartComponent, ResetCrashes, StopComponent
<1> QED
  BY <1>1, <1>2, <1>3

\* What a process does leaves no program that nobody looks after.
LEMMA OwnChildren ==
    ASSUME SupervisorTypeOK, HeldInv, ChildInv, NEW s \in Supervisors, Acts(s), deaths' = 0
    PROVE  /\ children' \subseteq hosts'
           /\ \A i \in children' : IsHeld(i)' \/ Left(i)' \/ i \in operator'.orphans
<1>t. started \in Nat /\ deaths \in Nat /\ hosts \subseteq Nat
  BY TypesNamed
<1>d. deaths = 0 /\ ~SupervisorDies(s)
  <2>1. UNCHANGED deaths \/ deaths' = deaths + 1
    BY WorldMoves DEF Death
  <2> QED
    BY <1>t, <2>1 DEF SupervisorDies, Death
<1>c. /\ children \subseteq hosts
      /\ \A i \in children : IsHeld(i) \/ Left(i) \/ i \in operator.orphans
  BY <1>d DEF ChildInv
<1>1. children' \subseteq hosts'
  BY <1>c, WorldMoves DEF StartsComponent, Stopped
<1>2. ASSUME NEW i \in children', i \in children, IsHeld(i) PROVE IsHeld(i)'
  <2>0. PICK r \in Supervisors : \E c \in Places(r) : Held(r)[c] = i
    BY <1>2 DEF IsHeld
  <2>1. PICK c \in Places(r) : Held(r)[c] = i
    BY <2>0
  <2>2. CASE r = s
    <3>1. c \in Places(s)' /\ Held(s)'[c] = i
      BY <1>c, <1>d, <1>2, <2>1, <2>2, KeepsPlace
    <3> QED
      BY <3>1 DEF IsHeld
  <2>3. CASE r # s
    <3>1. supervisor'[r] = supervisor[r]
      BY <2>3, StepsOfActs
    <3> QED
      BY <2>1, <3>1 DEF IsHeld, Places, Pc, Todo, Held
  <2> QED
    BY <2>2, <2>3
<1>3. ASSUME NEW i \in children', i \in children
      PROVE  IsHeld(i)' \/ Left(i)' \/ i \in operator'.orphans
  <2>1. CASE IsHeld(i)
    BY <1>2, <1>3, <2>1
  <2>2. CASE Left(i)
    BY <1>3, <2>2, LeftAgain
  <2>3. CASE i \in operator.orphans
    BY <2>3, OrphansStay
  <2> QED
    BY <1>c, <1>3, <2>1, <2>2, <2>3
<1>4. ASSUME NEW i \in children', i \notin children PROVE IsHeld(i)'
  <2>1. StartsComponent /\ i = started + 1
    BY <1>4, WorldMoves DEF StartsComponent, Stopped
  <2> QED
    BY <2>1, StartedIsHeld
<1> QED
  BY <1>1, <1>3, <1>4

\* Every step keeps ChildInv.
LEMMA ChildStep ==
    ASSUME SupervisorTypeOK, LockInv, HeldInv, FileInv, ChildInv,
           [SupervisorNext]_supervisorVars
    PROVE  ChildInv'
<1>t. operator \in Command /\ deaths \in Nat
  BY TypesNamed
<1>1. CASE Aside
  <2>u. UNCHANGED supervisor /\ children' \subseteq children
    BY <1>1, AsideKeeps
  <2>h. \A i : IsHeld(i) => IsHeld(i)'
    BY <2>u DEF IsHeld, Places, Pc, Todo, Held
  <2>a. \A s \in Supervisors : Pc(s)' = Pc(s)
    BY <2>u DEF Pc
  <2>o. operator'.orphans = operator.orphans
    BY <1>1, <1>t DEF Aside, StartRefused, StopCommand, FindSupervisor, StopRecorded,
       ClearFiles, WaitForSupervisor, ComponentCrashes, HostDies, supervisorVars, Command
  <2>1. CASE UNCHANGED <<operator, componentsFile, hosts, children, deaths>>
    <3>1. \A i : Left(i) => Left(i)'
      BY <2>a, <2>1 DEF Left, OnRecord
    <3> QED
      BY <2>h, <2>o, <2>1, <3>1 DEF ChildInv
  <2>2. CASE \E i \in 1 .. MaxStarts : ComponentCrashes(i) \/ HostDies(i)
    <3>1. PICK i \in 1 .. MaxStarts : ComponentCrashes(i) \/ HostDies(i)
      BY <2>2
    <3>2. UNCHANGED <<operator, componentsFile>>
      BY <3>1 DEF ComponentCrashes, HostDies
    <3>3. \A j : Left(j) => Left(j)'
      BY <2>a, <3>2 DEF Left, OnRecord
    <3>4. CASE ComponentCrashes(i)
      BY <2>h, <2>o, <3>3, <3>4 DEF ChildInv, ComponentCrashes
    <3>5. CASE HostDies(i)
      BY <1>t, <3>5 DEF ChildInv, HostDies, Death
    <3> QED
      BY <3>1, <3>4, <3>5
  <2>3. CASE StopRecorded
    <3>1. /\ hosts' = hosts \ OnRecord
          /\ children' = children \ (OnRecord \cap hosts)
          /\ UNCHANGED deaths
      BY <2>3 DEF StopRecorded, Stopped
    <3>2. ASSUME deaths' = 0, NEW i \in children'
          PROVE  i \in hosts' /\ (IsHeld(i)' \/ i \in operator'.orphans)
      <4>1. i \in hosts /\ i \notin OnRecord
        BY <3>1, <3>2 DEF ChildInv
      <4>2. ~Left(i)
        BY <4>1 DEF Left
      <4> QED
        BY <2>h, <2>o, <3>1, <3>2, <4>1, <4>2 DEF ChildInv
    <3> QED
      BY <3>2 DEF ChildInv
  <2>4. CASE StartRefused \/ StopCommand \/ FindSupervisor \/ ClearFiles
             \/ (WaitForSupervisor /\ ~IsAlive(operator.waits))
    <3>1. UNCHANGED <<hosts, children, deaths>> /\ operator.pc # "recorded"
      BY <2>4 DEF StartRefused, StopCommand, AtRest, FindSupervisor, ClearFiles,
         WaitForSupervisor
    <3> QED
      BY <2>h, <2>o, <3>1 DEF ChildInv, Left
  <2>5. CASE UNCHANGED supervisorVars
    BY <2>1, <2>5 DEF supervisorVars
  <2> QED
    BY <1>1, <2>2, <2>3, <2>4, <2>5 DEF Aside
<1>2. CASE Kill
  <2>1. PICK s \in Supervisors :
             /\ s = operator.waits /\ operator.pc = "wait" /\ Pc(s)' = "off"
             /\ \A r \in Supervisors : r # s => supervisor'[r] = supervisor[r]
             /\ UNCHANGED <<supervisorFile, componentsFile, hosts, children, deaths>>
             /\ operator'.pc = "recorded"
             /\ operator'.orphans = operator.orphans \cup Unrecorded(s)
    BY <1>2, KillKeeps
  <2>2. ASSUME deaths = 0, NEW i \in children, IsHeld(i)
        PROVE  IsHeld(i)' \/ Left(i)' \/ i \in operator'.orphans
    <3>w. PICK r \in Supervisors : \E c \in Places(r) : Held(r)[c] = i
      BY <2>2 DEF IsHeld
    <3>1. PICK c \in Places(r) : Held(r)[c] = i
      BY <3>w
    <3>2. CASE r # s
      <4>1. supervisor'[r] = supervisor[r]
        BY <2>1, <3>2
      <4> QED
        BY <3>1, <4>1 DEF IsHeld, Places, Pc, Todo, Held
    <3>3. CASE r = s
      <4>t. Todo(s) \subseteq Components
        BY TypesNamed DEF Todo, Process
      <4>1. c \in Components /\ Pc(s) \in Holding
        BY <3>1, <3>3, <4>t DEF Places, Holding
      <4>2. i \in HeldBy(s)
        BY <3>1, <3>3, <4>1 DEF HeldBy, Held
      <4>3. CASE i \in Unrecorded(s)
        BY <2>1, <4>3
      <4>4. CASE i \notin Unrecorded(s)
        <5>1. i \in OnRecord
          <6>1. CASE Pc(s) \in {"boot", "replaced"}
            BY <4>2, <4>4, <6>1 DEF Unrecorded, Pc
          <6>2. CASE Pc(s) \in {"watch", "backoff", "stopping"}
            <7>1. componentsFile = Held(s)
              BY <2>1, <4>1, <6>2 DEF FileInv
            <7> QED
              BY <4>2, <7>1 DEF HeldBy, Held, OnRecord
          <6> QED
            BY <4>1, <6>1, <6>2 DEF Holding
        <5>2. ASSUME NEW q \in Supervisors PROVE Pc(q)' \notin Recording
          <6>1. CASE q = s
            BY <2>1, <6>1 DEF Recording
          <6>2. CASE q # s
            <7>1. Pc(q)' = Pc(q)
              BY <2>1, <6>2 DEF Pc
            <7>2. Pc(q) \notin Locking
              BY <4>1, <6>2, OnlyOne DEF Locking
            <7> QED
              BY <7>1, <7>2 DEF Locking, Holding, Recording
          <6> QED
            BY <6>1, <6>2
        <5>3. i \in OnRecord'
          BY <2>1, <5>1 DEF OnRecord
        <5> QED
          BY <2>1, <5>2, <5>3 DEF Left
      <4> QED
        BY <4>3, <4>4
    <3> QED
      BY <3>2, <3>3
  <2>3. ASSUME deaths = 0, NEW i \in children
        PROVE  IsHeld(i)' \/ Left(i)' \/ i \in operator'.orphans
    <3>1. ~Left(i)
      BY <2>1 DEF Left
    <3> QED
      BY <2>1, <2>2, <2>3, <3>1 DEF ChildInv
  <2> QED
    BY <2>1, <2>3 DEF ChildInv
<1>3. ASSUME NEW s \in Supervisors, Acts(s) PROVE ChildInv'
  BY <1>3, OwnChildren DEF ChildInv
<1> QED
  BY <1>1, <1>2, <1>3, StepsSplit

\* The invariant holds at the start.
LEMMA SupervisorInvInit == SupervisorInit => SupervisorInv
<1> SUFFICES ASSUME SupervisorInit PROVE SupervisorInv
  OBVIOUS
<1>n. NoProcess \in [Components -> Nat]
  BY DEF NoProcess
<1>1. \A s \in Supervisors : /\ Pc(s) = "off" /\ Held(s) = NoProcess
                             /\ supervisor[s] = Off
  BY DEF SupervisorInit, Off, Pc, Held
<1>2. SupervisorTypeOK
  <2>1. Off \in Process
    BY <1>n DEF Off, Process, Steps
  <2>2. supervisor \in [Supervisors -> Process]
    BY <2>1 DEF SupervisorInit
  <2>3. operator \in Command
    BY DEF SupervisorInit, Command, Commands
  <2> QED
    BY <1>n, <2>2, <2>3, TypesNamed DEF SupervisorInit
<1>3. LockInv
  BY <1>1 DEF LockInv, Locking, Holding
<1>4. HeldInv
  BY <1>1 DEF HeldInv, HeldOK, NoProcess, SupervisorInit
<1>5. FileInv
  BY <1>1 DEF FileInv, Holding
<1>6. ChildInv
  BY DEF ChildInv, SupervisorInit
<1> QED
  BY <1>2, <1>3, <1>4, <1>5, <1>6 DEF SupervisorInv

\* It holds in every reachable state.
LEMMA SupervisorInvAlways == SupervisorSpec => []SupervisorInv
<1>1. SupervisorInv /\ [SupervisorNext]_supervisorVars => SupervisorInv'
  BY SupervisorTypeStep, LockStep, HeldStep, FileStep, ChildStep DEF SupervisorInv
<1> QED
  BY <1>1, SupervisorInvInit, PTL DEF SupervisorSpec

\* Supervisors, hosts and the operator keep to their steps and types.
THEOREM SupervisorTypeCorrect == SupervisorSpec => []SupervisorTypeOK
<1>1. SupervisorInv => SupervisorTypeOK
  BY DEF SupervisorInv
<1> QED
  BY <1>1, SupervisorInvAlways, PTL

\* Only one supervisor looks after programs, each in one place; but for deaths, no
\* program runs on its own and a stop leaves nothing, except what a supervisor that
\* a stop killed had started and not yet written down, or another overwrote before
\* the stop read it (supervisor.ps1: the lock is held until all components are
\* stopped, a start is recorded after it, and a stop kills before it reads), for any
\* number of supervisors, components, restarts and stops.
THEOREM NothingTwiceNothingLeft == SupervisorSpec => []SupervisionHolds
<1>1. ASSUME SupervisorInv PROVE SupervisionHolds
  <2>t. supervisor \in [Supervisors -> Process] /\ started \in Nat
    BY <1>1, TypesNamed DEF SupervisorInv
  <2>0. \A i \in children : i # 0
    BY <1>1 DEF SupervisorInv, HeldInv
  <2>1. ASSUME NEW i, IsHeld(i)
        PROVE  \E s \in AliveSupervisors, c \in Components : supervisor[s].held[c] = i
    <3>0. PICK s \in Supervisors : \E c \in Places(s) : Held(s)[c] = i
      BY <2>1 DEF IsHeld
    <3>1. PICK c \in Places(s) : Held(s)[c] = i
      BY <3>0
    <3>2. s \in AliveSupervisors
      BY <3>1 DEF Places, Holding, Pc, AliveSupervisors
    <3>3. Todo(s) \subseteq Components
      BY <2>t DEF Todo, Process
    <3>4. c \in Components
      BY <3>1, <3>3 DEF Places
    <3> QED
      BY <3>1, <3>2, <3>4 DEF Held
  <2>2. ASSUME NEW s \in Supervisors, NEW r \in Supervisors,
               NEW c \in Components, NEW d \in Components,
               Held(s)[c] \in children, Held(r)[d] \in children
        PROVE  s = r /\ (Held(s)[c] = Held(r)[d] => c = d)
    <3>1. HeldOK(s) /\ HeldOK(r) /\ LockInv
      BY <1>1 DEF SupervisorInv, HeldInv
    <3>2. Pc(s) \in Locking /\ Pc(r) \in Locking
      <4>1. ASSUME NEW q \in Supervisors, NEW e \in Components, HeldOK(q),
                   Held(q)[e] \in children
            PROVE  Pc(q) \in Locking
        <5>1. Held(q) # NoProcess
          BY <2>0, <4>1 DEF NoProcess
        <5>2. Pc(q) \in Steps
          <6>1. supervisor[q] \in Process
            BY <2>t
          <6> QED
            BY <6>1 DEF Process, Pc
        <5> QED
          BY <4>1, <5>1, <5>2 DEF HeldOK, Steps, Locking, Holding
      <4> QED
        BY <2>2, <3>1, <4>1
    <3>3. s = r
      BY <3>1, <3>2, OnlyOne
    <3> QED
      BY <2>0, <2>2, <3>1, <3>3 DEF HeldOK
  <2>3. NothingHeldTwice
    <3>1. AliveSupervisors \subseteq Supervisors
      BY DEF AliveSupervisors
    <3> QED
      BY <2>2, <3>1 DEF NothingHeldTwice, Held
  <2>4. NothingRunsAlone
    <3> SUFFICES ASSUME deaths = 0, NEW i \in children
                 PROVE  \/ \E s \in AliveSupervisors : i \in HeldBy(s)
                        \/ operator.pc = "recorded" /\ i \in OnRecord
                        \/ i \in operator.orphans
      BY DEF NothingRunsAlone
    <3>1. IsHeld(i) \/ Left(i) \/ i \in operator.orphans
      BY <1>1 DEF SupervisorInv, ChildInv
    <3> QED
      BY <2>1, <3>1 DEF Left, HeldBy
  <2>5. StopLeavesNothing
    BY <2>4 DEF StopLeavesNothing, NothingRunsAlone
  <2> QED
    BY <2>3, <2>4, <2>5 DEF SupervisionHolds
<1> QED
  BY <1>1, SupervisorInvAlways, PTL

-----------------------------------------------------------------------------
\* WorkerStatus: the loop's row and what holds of it.

Pcs == {"idle", "starts", "runs", "after", "sleeps", "stops", "leaves", "released", "notes", "done"}

Statuses == [state : {"ONLINE", "OFFLINE"}, by : Loops, beat : Nat,
             leads : {"ACTIVE", "RELEASING", "RELEASED"}]

TickRow == [tick : Nat, at : Nat, timer : Nat, seen : SUBSET Scopes]

LoopRow == [pc : Pcs, aborted : BOOLEAN, cycle : TickRow \cup {Nobody},
            note : Statuses \cup {Nobody}, nextBeat : Nat, beat : Nat,
            next : [Parts -> Nat], ran : [Parts -> Nat \cup {Nobody}]]

\* A component's next run is at least its cadence after its last one.
Spaced(l, p) == l.ran[p] # Nobody => l.next[p] >= l.ran[p] + Cadence[p]

\* What a loop l knows is not older than its heartbeats allow.
LoopGood(l, now) ==
  /\ l \in LoopRow
  /\ l.beat <= now /\ l.nextBeat <= l.beat + BeatEvery
  /\ l.pc \in {"idle", "starts"} => l = [NotBegun EXCEPT !.pc = l.pc]
  /\ l.pc = "sleeps" => now <= l.nextBeat
  /\ l.pc = "runs" =>
       /\ l.cycle \in TickRow /\ l.cycle.at \in DOMAIN LoopOrder
       /\ now <= l.cycle.timer /\ l.cycle.timer <= l.beat + (l.cycle.at + 1) * BeatEvery
       /\ ~Paused(l, LoopOrder[l.cycle.at])
       /\ l.ran[LoopOrder[l.cycle.at]] = l.cycle.tick
  /\ l.pc = "after" => now <= l.beat + (Len(LoopOrder) + 1) * BeatEvery
  /\ l.pc = "notes" => l.note \in Statuses /\ l.note.state = "OFFLINE"
  /\ \A p \in Parts : (l.pc = "runs" => p # LoopOrder[l.cycle.at]) => Spaced(l, p)

Leading == {"starts", "runs", "after", "sleeps", "stops", "leaves"}

StatusTypes ==
  /\ clock \in 0 .. crew.until /\ crew.until \in Nat
  /\ statusRow \in Statuses \cup {Nobody} /\ late \subseteq Statuses
  /\ controls \in [Scopes -> BOOLEAN] /\ told.asked \in [Scopes -> BOOLEAN]
  /\ leader \in Loops \cup {Nobody}
  /\ DOMAIN loop = Loops
  /\ DOMAIN told = {"lapsed", "lateOffline", "asked", "crossed", "early", "alive", "faults"}
  /\ told.alive \in Nat /\ told.alive <= clock

\* Whoever is in its loop is alive now, and what says ONLINE was written by one who was.
AliveNow ==
  /\ \A w \in Loops : InTheLoop(w) => told.alive = clock
  /\ \A row \in late \cup {statusRow} : row # Nobody /\ row.state = "ONLINE" => row.beat <= told.alive

\* The leader is alone, as long as its lease does not lapse under it.
LeaderIsAlone ==
  ~told.lapsed => \A w \in Loops : loop[w].pc \in Leading => leader = w

OfflineIsLast ==
  /\ \A w \in Loops : loop[w].pc \in {"released", "notes"} => crew.burnIn
  /\ ~told.lapsed /\ ~told.lateOffline /\ ~crew.burnIn =>
       /\ \A row \in late : row.state = "ONLINE"
       /\ statusRow # Nobody /\ statusRow.state = "OFFLINE" => \A w \in Loops : ~InTheLoop(w)

\* Forms that do not cross write what they have read, changed.
FormsAlone ==
  ~told.crossed =>
    /\ controls = told.asked
    /\ \A f \in Forms : pauseForm[f].pc = "read" => pauseForm[f].read = controls
    /\ \A f, g \in Forms : pauseForm[f].pc = "read" /\ pauseForm[g].pc = "read" => f = g

FormsShaped ==
  /\ DOMAIN pauseForm = Forms
  /\ \A f \in Forms : pauseForm[f].pc = "read" =>
       /\ pauseForm[f].scope \in Scopes /\ pauseForm[f].to \in BOOLEAN
       /\ pauseForm[f].read \in [Scopes -> BOOLEAN]

StatusInv ==
  /\ StatusTypes
  /\ \A w \in Loops : LoopGood(loop[w], clock)
  /\ AliveNow /\ LeaderIsAlone /\ OfflineIsLast /\ FormsAlone /\ FormsShaped
  /\ NothingIsReplayed

-----------------------------------------------------------------------------
\* A least element, which SMT does not find of its own: the sets 0 .. n are
\* well-founded under inclusion.
LEMMA LeastNatural ==
    ASSUME NEW S \in SUBSET Nat, S # {}
    PROVE  \E n \in S : \A m \in S : n <= m
<1> DEFINE Below == {0 .. n : n \in S}
<1>1. Below \subseteq FiniteSubsetsOf(Nat) /\ Below # {}
  <2>1. \A n \in S : 0 .. n \in SUBSET Nat /\ IsFiniteSet(0 .. n)
    BY FS_Interval
  <2> QED
    BY <2>1 DEF FiniteSubsetsOf
<1>2. PICK least \in Below : \A B \in Below : <<B, least>> \notin StrictSubsetOrdering(Nat)
  BY <1>1, FS_StrictSubsetOrderingWellFounded, WFMin
<1>3. PICK n \in S : least = 0 .. n
  BY <1>2
<1>4. ASSUME NEW m \in S, m < n
      PROVE  FALSE
  <2>1. 0 .. m \in Below /\ 0 .. m \in SUBSET Nat /\ 0 .. n \in SUBSET Nat
    OBVIOUS
  <2>2. 0 .. m \subseteq 0 .. n /\ n \in 0 .. n /\ n \notin 0 .. m
    BY <1>4
  <2>3. <<0 .. m, 0 .. n>> \in StrictSubsetOrdering(Nat)
    BY <2>1, <2>2 DEF StrictSubsetOrdering
  <2> QED
    BY <1>2, <1>3, <2>1, <2>3
<1> QED
  BY <1>4

-----------------------------------------------------------------------------
\* WorkerStatus: arithmetic and minima.

LEMMA LoopNumbers ==
  /\ BeatEvery \in Nat \ {0} /\ StaleAfter \in Nat
  /\ Len(LoopOrder) \in Nat /\ DOMAIN LoopOrder = 1 .. Len(LoopOrder)
  /\ \A i \in DOMAIN LoopOrder : LoopOrder[i] \in Parts
  /\ Cadence \in [Parts -> Nat \ {0}]
  /\ Nobody \notin Nat /\ Nobody \notin Loops
  /\ \A c \in LoopCases : c.until \in Nat
BY LoopAssumption

LEMMA IntervalsGrow ==
    ASSUME NEW i \in Nat, NEW j \in Nat, i <= j
    PROVE  /\ (i + 1) * BeatEvery \in Nat /\ (j + 1) * BeatEvery \in Nat
           /\ (i + 1) * BeatEvery <= (j + 1) * BeatEvery
           /\ BeatEvery <= (i + 1) * BeatEvery
           /\ (i + 1 + 1) * BeatEvery = (i + 1) * BeatEvery + BeatEvery
<1>1. PICK b \in Nat : b = BeatEvery
  BY LoopNumbers
<1>2. \A m, n \in Nat : m <= n => m * b <= n * b
  <2>1. ASSUME NEW m \in Nat, NEW n \in Nat, m <= n
        PROVE  m * b <= n * b
    <3>1. PICK d \in Nat : n = m + d
      <4>1. n - m \in Nat /\ n = m + (n - m)
        BY <2>1
      <4> QED
        BY <4>1
    <3>2. n * b = m * b + d * b /\ d * b \in Nat /\ m * b \in Nat
      BY <1>1, <3>1
    <3> QED
      BY <3>2
  <2> QED
    BY <2>1
<1>3. (i + 1) * b <= (j + 1) * b /\ 1 * b <= (i + 1) * b
  BY <1>1, <1>2
<1>4. (i + 1) * b \in Nat /\ (j + 1) * b \in Nat /\ (i + 1 + 1) * b = (i + 1) * b + b
  BY <1>1
<1> QED
  BY <1>1, <1>3, <1>4

LEMMA MinIsLeast ==
    ASSUME NEW S \in SUBSET Nat, S # {}
    PROVE  Min(S) \in S /\ \A n \in S : Min(S) <= n
<1>1. \E n \in S : \A m \in S : n <= m
  BY LeastNatural
<1> QED
  BY <1>1 DEF Min

\* A loop wakes at its next heartbeat at the latest.
LEMMA WakesForBeat ==
    ASSUME NEW w \in Loops, loop[w] \in LoopRow
    PROVE  WakesAt(w) \in Nat /\ WakesAt(w) <= loop[w].nextBeat
<1> DEFINE S == {loop[w].nextBeat} \cup {loop[w].next[p] : p \in Parts}
<1>1. S \in SUBSET Nat /\ S # {} /\ loop[w].nextBeat \in S
  BY DEF LoopRow
<1>2. Min(S) \in S /\ \A n \in S : Min(S) <= n
  BY <1>1, MinIsLeast
<1> QED
  BY <1>1, <1>2 DEF WakesAt

-----------------------------------------------------------------------------
\* What the rest of a tick makes of a loop whose components are all spaced.

Ready(l) ==
  /\ l \in LoopRow /\ l.cycle \in TickRow
  /\ \A p \in Parts : Spaced(l, p)

Resumed(l, r, i) ==
  /\ r \in LoopRow /\ r.beat = l.beat /\ r.nextBeat = l.nextBeat
  /\ EarlyIn(l, r) = {}
  /\ \/ r.pc = "after" /\ \A p \in Parts : Spaced(r, p)
     \/ /\ r.pc = "runs" /\ r.cycle \in TickRow
        /\ r.cycle.at \in i .. Len(LoopOrder)
        /\ r.cycle.timer = clock + BeatEvery
        /\ ~Paused(r, LoopOrder[r.cycle.at])
        /\ r.ran[LoopOrder[r.cycle.at]] = r.cycle.tick
        /\ \A p \in Parts : p # LoopOrder[r.cycle.at] => Spaced(r, p)

LEMMA RowFieldsOf ==
    ASSUME NEW l \in LoopRow
    PROVE  /\ DOMAIN l = {"pc", "aborted", "cycle", "note", "nextBeat", "beat", "next", "ran"}
           /\ l.pc \in Pcs /\ l.aborted \in BOOLEAN /\ l.cycle \in TickRow \cup {Nobody}
           /\ l.note \in Statuses \cup {Nobody} /\ l.nextBeat \in Nat /\ l.beat \in Nat
           /\ l.next \in [Parts -> Nat] /\ l.ran \in [Parts -> Nat \cup {Nobody}]
BY DEF LoopRow

LEMMA OnwardResumes ==
    ASSUME NEW l, Ready(l), NEW i \in Nat \ {0}, clock \in Nat
    PROVE  Resumed(l, Onward(l, i), i)
<1> DEFINE due == {j \in i .. Len(LoopOrder) : Due(l, LoopOrder[j])}
           runs == {j \in due : ~Paused(l, LoopOrder[j])}
           passed == {LoopOrder[j] : j \in {k \in due : \A r \in runs : k < r}}
           next == [p \in Parts |-> IF p \in passed THEN NextRun(l, p) ELSE l.next[p]]
           after == [l EXCEPT !.next = next]
<1>1. /\ l \in LoopRow /\ l.cycle \in TickRow
      /\ l.next \in [Parts -> Nat] /\ l.ran \in [Parts -> Nat \cup {Nobody}]
      /\ l.cycle.tick \in Nat
  BY RowFieldsOf DEF Ready, TickRow
<1>2. /\ due \subseteq 1 .. Len(LoopOrder) /\ runs \subseteq due /\ due \subseteq Nat
      /\ \A j \in due : j >= i /\ LoopOrder[j] \in Parts /\ l.cycle.tick >= l.next[LoopOrder[j]]
  BY LoopNumbers DEF Due
<1>3. /\ next \in [Parts -> Nat]
      /\ \A p \in Parts : l.ran[p] # Nobody => next[p] >= l.ran[p] + Cadence[p]
  <2>1. ASSUME NEW p \in Parts
        PROVE  next[p] \in Nat /\ (l.ran[p] # Nobody => next[p] >= l.ran[p] + Cadence[p])
    <3>1. l.next[p] \in Nat /\ Cadence[p] \in Nat /\ l.ran[p] \in Nat \cup {Nobody}
          /\ (l.ran[p] # Nobody => l.next[p] >= l.ran[p] + Cadence[p])
      BY <1>1, LoopNumbers DEF Ready, Spaced
    <3>2. CASE p \in passed
      <4>1. l.cycle.tick >= l.next[p] /\ next[p] = l.cycle.tick + Cadence[p]
        BY <1>2, <3>2 DEF NextRun
      <4> QED
        BY <1>1, <3>1, <4>1
    <3>3. CASE p \notin passed
      BY <3>1, <3>3
    <3> QED
      BY <3>2, <3>3
  <2>2. \A p \in Parts : next[p] \in Nat
    BY <2>1
  <2> HIDE DEF passed
  <2> QED
    BY <2>1, <2>2
<1>4. Onward(l, i) = CASE l.aborted -> [l EXCEPT !.pc = "after"]
        [] ~l.aborted /\ runs = {} -> [after EXCEPT !.pc = "after"]
        [] OTHER -> [after EXCEPT !.pc = "runs", !.cycle.at = Min(runs), !.cycle.timer = clock + BeatEvery,
                                  !.ran[LoopOrder[Min(runs)]] = l.cycle.tick]
  <2>1. after = [l EXCEPT !.next = [p \in Parts |-> IF p \in passed THEN NextRun(l, p) ELSE @[p]]]
    OBVIOUS
  <2> QED
    BY <2>1 DEF Onward
<1> HIDE DEF next
<1>5. CASE l.aborted
  <2>1. PICK r : r = [l EXCEPT !.pc = "after"]
    OBVIOUS
  <2>2. /\ r \in LoopRow /\ r.pc = "after" /\ r.beat = l.beat /\ r.nextBeat = l.nextBeat
        /\ r.next = l.next /\ r.ran = l.ran
    BY <1>1, <2>1 DEF LoopRow, Pcs
  <2>3. EarlyIn(l, r) = {}
    BY <2>2 DEF EarlyIn
  <2> QED
    BY <1>4, <1>5, <2>1, <2>2, <2>3 DEF Resumed, Ready, Spaced
<1>6. CASE ~l.aborted /\ runs = {}
  <2>1. PICK r : r = [l EXCEPT !.next = next, !.pc = "after"]
    OBVIOUS
  <2>2. /\ r \in LoopRow /\ r.pc = "after" /\ r.beat = l.beat /\ r.nextBeat = l.nextBeat
        /\ r.next = next /\ r.ran = l.ran
    BY <1>1, <1>3, <2>1 DEF LoopRow, Pcs
  <2>3. EarlyIn(l, r) = {}
    BY <2>2 DEF EarlyIn
  <2>4. \A p \in Parts : Spaced(r, p)
    BY <1>3, <2>2 DEF Spaced
  <2>5. r = [after EXCEPT !.pc = "after"]
    BY <1>1, <2>1 DEF LoopRow
  <2> HIDE DEF after, runs
  <2>6. Onward(l, i) = r
    BY <1>4, <1>6, <2>5
  <2> QED
    BY <2>2, <2>3, <2>4, <2>6 DEF Resumed
<1>7. CASE ~l.aborted /\ runs # {}
  <2>1. PICK k \in runs : k = Min(runs)
    BY <1>2, <1>7, MinIsLeast
  <2>2. PICK p \in Parts : p = LoopOrder[k]
    BY <1>2, <2>1
  <2>3. k \in i .. Len(LoopOrder) /\ k \in Nat /\ ~Paused(l, p) /\ l.cycle.tick >= l.next[p]
    BY <1>2, <2>1, <2>2
  <2>4. PICK cycle : cycle = [l.cycle EXCEPT !.at = k, !.timer = clock + BeatEvery]
    OBVIOUS
  <2>5. /\ cycle \in TickRow /\ cycle.at = k /\ cycle.timer = clock + BeatEvery
        /\ cycle.tick = l.cycle.tick /\ cycle.seen = l.cycle.seen
    <3>1. clock + BeatEvery \in Nat
      BY LoopNumbers
    <3> QED
      BY <1>1, <2>3, <2>4, <3>1 DEF TickRow
  <2>6. PICK ran : ran = [l.ran EXCEPT ![p] = l.cycle.tick]
    OBVIOUS
  <2>7. /\ ran \in [Parts -> Nat \cup {Nobody}] /\ ran[p] = l.cycle.tick
        /\ \A q \in Parts : q # p => ran[q] = l.ran[q]
    BY <1>1, <2>6
  <2>8. PICK r : r = [l EXCEPT !.next = next, !.pc = "runs", !.cycle = cycle, !.ran = ran]
    OBVIOUS
  <2>9. /\ r \in LoopRow /\ r.pc = "runs" /\ r.beat = l.beat /\ r.nextBeat = l.nextBeat
        /\ r.next = next /\ r.ran = ran /\ r.cycle = cycle
    BY <1>1, <1>3, <2>5, <2>7, <2>8 DEF LoopRow, Pcs
  <2>10. Onward(l, i) = r
    <3>1. r = [after EXCEPT !.pc = "runs", !.cycle.at = k, !.cycle.timer = clock + BeatEvery,
                            !.ran[p] = l.cycle.tick]
      BY <1>1, <2>4, <2>6, <2>8, RowFieldsOf
    <3> QED
      BY <1>4, <1>7, <2>1, <2>2, <3>1
  <2>11. EarlyIn(l, r) = {}
    <3>1. ASSUME NEW q \in Parts, l.ran[q] # Nobody, r.ran[q] # l.ran[q]
          PROVE  ~(r.ran[q] < l.ran[q] + Cadence[q])
      <4>1. q = p /\ r.ran[q] = l.cycle.tick
        BY <2>7, <2>9, <3>1
      <4>2. l.next[p] >= l.ran[p] + Cadence[p]
        BY <3>1, <4>1 DEF Ready, Spaced
      <4>3. l.next[p] \in Nat /\ l.ran[p] \in Nat /\ Cadence[p] \in Nat
        BY <1>1, <3>1, <4>1, LoopNumbers
      <4> QED
        BY <1>1, <2>3, <4>1, <4>2, <4>3
    <3> QED
      BY <3>1 DEF EarlyIn
  <2>12. ~Paused(r, LoopOrder[r.cycle.at])
    BY <2>2, <2>3, <2>5, <2>9 DEF Paused
  <2>13. \A q \in Parts : q # p => Spaced(r, q)
    BY <1>3, <2>7, <2>9 DEF Spaced
  <2> QED
    BY <2>2, <2>3, <2>5, <2>7, <2>9, <2>10, <2>11, <2>12, <2>13 DEF Resumed
<1> QED
  BY <1>1, <1>5, <1>6, <1>7, RowFieldsOf

-----------------------------------------------------------------------------
\* A loop after a step of its own.

Goes(w, from, to) ==
  /\ DOMAIN loop' = Loops /\ clock' = clock
  /\ \A v \in Loops : v # w => loop'[v] = loop[v]
  /\ loop[w].pc \in from /\ loop'[w].pc \in to
  /\ LoopGood(loop'[w], clock)

LEMMA GoesOn ==
    ASSUME StatusInv, NEW w \in Loops, NEW l, GoOn(w, l), UNCHANGED clock,
           NEW from, NEW to, loop[w].pc \in from, l.pc \in to, LoopGood(l, clock)
    PROVE  Goes(w, from, to) /\ loop'[w] = l
BY DEF Goes, GoOn, StatusInv, StatusTypes

LEMMA NotBegunFields ==
  /\ NotBegun \in LoopRow /\ NotBegun.beat = 0 /\ NotBegun.nextBeat = 0
  /\ NotBegun.ran = [p \in Parts |-> Nobody] /\ NotBegun.next = [p \in Parts |-> 0]
<1>1. NotBegun = [pc |-> "idle", aborted |-> FALSE, cycle |-> Nobody, note |-> Nobody, nextBeat |-> 0,
                  beat |-> 0, next |-> [p \in Parts |-> 0], ran |-> [p \in Parts |-> Nobody]]
  BY DEF NotBegun
<1>2. /\ [p \in Parts |-> 0] \in [Parts -> Nat]
      /\ [p \in Parts |-> Nobody] \in [Parts -> Nat \cup {Nobody}]
  OBVIOUS
<1> QED
  BY <1>1, <1>2 DEF LoopRow, Pcs

LEMMA FreshIsGood ==
    ASSUME NEW pc \in {"idle", "starts", "stops", "leaves", "released", "done"}, clock \in Nat
    PROVE  /\ LoopGood([NotBegun EXCEPT !.pc = pc], clock)
           /\ [NotBegun EXCEPT !.pc = pc].pc = pc
<1>1. PICK l : l = [NotBegun EXCEPT !.pc = pc]
  OBVIOUS
<1>2. /\ l \in LoopRow /\ l.pc = pc /\ l.beat = 0 /\ l.nextBeat = 0
      /\ \A p \in Parts : l.ran[p] = Nobody
  BY <1>1, NotBegunFields DEF LoopRow, Pcs
<1> QED
  BY <1>1, <1>2, LoopNumbers DEF LoopGood, Spaced

LEMMA OverIsFresh ==
    ASSUME NEW pc
    PROVE  [LoopOver EXCEPT !.pc = pc] = [NotBegun EXCEPT !.pc = pc] /\ LoopOver = [NotBegun EXCEPT !.pc = "done"]
BY DEF LoopOver, NotBegun

LEMMA ClockNumbered ==
    ASSUME StatusInv
    PROVE  clock \in Nat /\ \A w \in Loops : LoopGood(loop[w], clock) /\ loop[w] \in LoopRow
BY DEF StatusInv, StatusTypes, LoopGood

LEMMA TakeLeadGoes ==
    ASSUME StatusInv, NEW w \in Loops, TakeLead(w)
    PROVE  Goes(w, {"idle"}, {"starts"})
<1>1. loop[w] = [NotBegun EXCEPT !.pc = "idle"] /\ loop[w].pc = "idle"
  BY ClockNumbered DEF TakeLead, At, LoopGood
<1>2. [loop[w] EXCEPT !.pc = "starts"] = [NotBegun EXCEPT !.pc = "starts"]
  BY <1>1 DEF NotBegun
<1>3. PICK l : l = [NotBegun EXCEPT !.pc = "starts"]
  OBVIOUS
<1>4. GoOn(w, l) /\ UNCHANGED clock
  BY <1>2, <1>3 DEF TakeLead
<1>5. LoopGood(l, clock) /\ l.pc \in {"starts"} /\ loop[w].pc \in {"idle"}
  BY <1>1, <1>3, FreshIsGood, ClockNumbered
<1> QED
  BY <1>4, <1>5, GoesOn

LEMMA BreakOffGoes ==
    ASSUME StatusInv, NEW w \in Loops, BreakOff(w), UNCHANGED clock, NEW from, loop[w].pc \in from
    PROVE  Goes(w, from, {"leaves"})
BY GoesOn, FreshIsGood, OverIsFresh, ClockNumbered DEF BreakOff

LEMMA BeginLoopGoes ==
    ASSUME StatusInv, NEW w \in Loops, BeginLoop(w)
    PROVE  Goes(w, {"starts"}, {"sleeps", "leaves"})
<1>1. loop[w] = [NotBegun EXCEPT !.pc = "starts"] /\ loop[w].pc = "starts" /\ UNCHANGED clock
  BY ClockNumbered DEF BeginLoop, At, LoopGood
<1>2. CASE BreakOff(w)
  BY <1>1, <1>2, BreakOffGoes, Zenon DEF Goes
<1>3. CASE ~BreakOff(w)
  <2>1. PICK next : next = [p \in Parts |-> clock]
    OBVIOUS
  <2>2. PICK l : l = [loop[w] EXCEPT !.pc = "sleeps", !.next = next,
                                     !.nextBeat = clock, !.beat = clock]
    OBVIOUS
  <2>3. /\ loop[w] \in LoopRow /\ loop[w].ran = [p \in Parts |-> Nobody]
        /\ next \in [Parts -> Nat]
    BY <1>1, <2>1, NotBegunFields, ClockNumbered DEF LoopRow
  <2>4. /\ l \in LoopRow /\ l.pc = "sleeps" /\ l.beat = clock /\ l.nextBeat = clock
        /\ l.ran = loop[w].ran
    BY <2>2, <2>3, ClockNumbered DEF LoopRow, Pcs
  <2>5. LoopGood(l, clock)
    BY <2>3, <2>4, LoopNumbers, ClockNumbered DEF LoopGood, Spaced
  <2>6. GoOn(w, l)
    BY <1>3, <2>1, <2>2 DEF BeginLoop
  <2>7. loop[w].pc \in {"starts"} /\ l.pc \in {"sleeps", "leaves"}
    BY <1>1, <2>4
  <2> QED
    BY <1>1, <2>5, <2>6, <2>7 DEF Goes, GoOn, StatusInv, StatusTypes
<1> QED
  BY <1>2, <1>3

\* The loop that goes on in its tick.
LEMMA ResumedIsGood ==
    ASSUME StatusInv, NEW l \in LoopRow, NEW r, NEW i \in Nat \ {0}, Resumed(l, r, i),
           l.beat <= clock, l.nextBeat <= l.beat + BeatEvery,
           clock <= l.beat + (i - 1 + 1) * BeatEvery,
           i - 1 <= Len(LoopOrder)
    PROVE  LoopGood(r, clock) /\ r.pc \in {"runs", "after"}
<1>1. /\ l.beat \in Nat /\ r.beat = l.beat /\ r \in LoopRow /\ clock \in Nat
      /\ r.beat <= clock /\ r.nextBeat <= r.beat + BeatEvery
  BY RowFieldsOf, ClockNumbered DEF Resumed
<1>2. CASE r.pc = "after" /\ \A p \in Parts : Spaced(r, p)
  <2>1. /\ (i - 1 + 1) * BeatEvery <= (Len(LoopOrder) + 1) * BeatEvery
        /\ (i - 1 + 1) * BeatEvery \in Nat /\ (Len(LoopOrder) + 1) * BeatEvery \in Nat
    <3>1. i - 1 \in Nat
      OBVIOUS
    <3> QED
      BY <3>1, IntervalsGrow, LoopNumbers
  <2>2. clock <= r.beat + (Len(LoopOrder) + 1) * BeatEvery
    BY <1>1, <2>1
  <2> QED
    BY <1>1, <1>2, <2>2 DEF LoopGood
<1>3. CASE /\ r.pc = "runs" /\ r.cycle \in TickRow
           /\ r.cycle.at \in i .. Len(LoopOrder)
           /\ r.cycle.timer = clock + BeatEvery
           /\ ~Paused(r, LoopOrder[r.cycle.at])
           /\ r.ran[LoopOrder[r.cycle.at]] = r.cycle.tick
           /\ \A p \in Parts : p # LoopOrder[r.cycle.at] => Spaced(r, p)
  <2>1. PICK k \in Nat : k = r.cycle.at /\ k >= i /\ k <= Len(LoopOrder)
    BY <1>3, LoopNumbers DEF TickRow
  <2>2. PICK a \in Nat, c \in Nat :
          /\ a = (i - 1 + 1) * BeatEvery /\ c = (k + 1) * BeatEvery /\ a + BeatEvery <= c
    <3>0. i - 1 \in Nat /\ k - 1 \in Nat /\ i - 1 <= k - 1
      BY <2>1
    <3>1. PICK m \in Nat, n \in Nat : m = i - 1 /\ n = k - 1 /\ m <= n
      BY <3>0, Zenon
    <3>2. /\ (m + 1) * BeatEvery \in Nat /\ (n + 1) * BeatEvery \in Nat
          /\ (m + 1) * BeatEvery <= (n + 1) * BeatEvery
          /\ (n + 1 + 1) * BeatEvery = (n + 1) * BeatEvery + BeatEvery
      <4>1. /\ (m + 1) * BeatEvery \in Nat /\ (n + 1) * BeatEvery \in Nat
            /\ (m + 1) * BeatEvery <= (n + 1) * BeatEvery
        BY <3>1, IntervalsGrow, Zenon
      <4>2. n <= n
        OBVIOUS
      <4>3. (n + 1 + 1) * BeatEvery = (n + 1) * BeatEvery + BeatEvery
        BY <4>2, IntervalsGrow, Zenon
      <4> QED
        BY <4>1, <4>3
    <3>3. n + 1 + 1 = k + 1 /\ m + 1 = i - 1 + 1
      BY <2>1, <3>1
    <3>4. (n + 1 + 1) * BeatEvery \in Nat
      BY <3>2, LoopNumbers
    <3>5. (m + 1) * BeatEvery + BeatEvery <= (n + 1 + 1) * BeatEvery
      BY <3>2, LoopNumbers
    <3> QED
      BY <3>2, <3>3, <3>4, <3>5
  <2>3. clock + BeatEvery <= r.beat + (k + 1) * BeatEvery
    <3>0. a + BeatEvery <= c
      BY <2>2
    <3>1. clock <= l.beat + a
      BY <2>2
    <3>2. clock + BeatEvery <= r.beat + c
      <4>1. PICK t \in Nat, x \in Nat, y \in Nat : t = clock /\ x = l.beat /\ y = BeatEvery
        BY <1>1, LoopNumbers
      <4>2. t <= x + a /\ a + y <= c => t + y <= x + c
        OBVIOUS
      <4> QED
        BY <1>1, <3>0, <3>1, <4>1, <4>2
    <3> QED
      BY <2>2, <3>2
  <2>4. k \in DOMAIN LoopOrder /\ clock <= r.cycle.timer
    BY <1>1, <1>3, <2>1, LoopNumbers
  <2> QED
    BY <1>1, <1>3, <2>1, <2>3, <2>4 DEF LoopGood
<1> QED
  BY <1>2, <1>3 DEF Resumed

LEMMA BeginTickGoes ==
    ASSUME StatusInv, NEW w \in Loops, BeginTick(w)
    PROVE  /\ Goes(w, {"sleeps"}, {"runs", "after", "leaves"})
           /\ told'.early = told.early
<1>1. loop[w].pc = "sleeps" /\ UNCHANGED clock
  BY DEF BeginTick, At
<1>2. /\ loop[w] \in LoopRow /\ clock \in Nat /\ loop[w].beat <= clock
      /\ loop[w].nextBeat <= loop[w].beat + BeatEvery /\ clock <= loop[w].nextBeat
      /\ \A p \in Parts : Spaced(loop[w], p)
  BY <1>1, ClockNumbered DEF LoopGood
<1>t. DOMAIN told = {"lapsed", "lateOffline", "asked", "crossed", "early", "alive", "faults"}
  BY DEF StatusInv, StatusTypes
<1>3. CASE BreakOff(w)
  <2>1. told'.early = told.early
    BY <1>3, <1>t DEF BreakOff, AfterFault
  <2>2. Goes(w, {"sleeps"}, {"leaves"})
    BY <1>1, <1>3, BreakOffGoes
  <2> QED
    BY <2>1, <2>2 DEF Goes
<1>4. CASE ~BreakOff(w)
  <2>1. PICK cycle : cycle = [tick |-> clock, at |-> 1, timer |-> clock,
                        seen |-> IF crew.burnIn THEN {} ELSE {s \in Scopes : controls[s]}]
    OBVIOUS
  <2>2. PICK l : l = [loop[w] EXCEPT !.cycle = cycle]
    OBVIOUS
  <2>3. PassOn(w, l, 1)
    BY <1>4, <2>1, <2>2 DEF BeginTick
  <2>4. cycle \in TickRow
    BY <1>2, <2>1 DEF TickRow
  <2>5. /\ l \in LoopRow /\ l.cycle = cycle /\ l.beat = loop[w].beat /\ l.nextBeat = loop[w].nextBeat
        /\ l.next = loop[w].next /\ l.ran = loop[w].ran
    BY <1>2, <2>2, <2>4 DEF LoopRow
  <2>6. Ready(l)
    BY <1>2, <2>4, <2>5 DEF Ready, Spaced
  <2>7. PICK r : r = Onward(l, 1)
    OBVIOUS
  <2>8. Resumed(l, r, 1)
    BY <1>2, <2>6, <2>7, OnwardResumes
  <2>9. (1 - 1 + 1) * BeatEvery = BeatEvery /\ 1 - 1 <= Len(LoopOrder)
    BY LoopNumbers
  <2>10. LoopGood(r, clock) /\ r.pc \in {"runs", "after"}
    <3>1. clock <= l.beat + (1 - 1 + 1) * BeatEvery
      BY <1>2, <2>5, <2>9, LoopNumbers, RowFieldsOf
    <3> QED
      BY <1>2, <2>5, <2>8, <2>9, <3>1, ResumedIsGood
  <2>11. GoOn(w, r) /\ told' = [told EXCEPT !.early = @ \cup EarlyIn(l, r)]
    BY <2>3, <2>7 DEF PassOn
  <2>12. told'.early = told.early
    BY <1>t, <2>8, <2>11 DEF Resumed
  <2>13. Goes(w, {"sleeps"}, {"runs", "after", "leaves"})
    BY <1>1, <2>10, <2>11, GoesOn
  <2> QED
    BY <2>12, <2>13
<1> QED
  BY <1>3, <1>4

LEMMA EndPartGoes ==
    ASSUME StatusInv, NEW w \in Loops, EndPart(w)
    PROVE  /\ Goes(w, {"runs"}, {"runs", "after"})
           /\ told'.early = told.early /\ told'.alive = told.alive
<1>1. loop[w].pc = "runs" /\ UNCHANGED clock
  BY DEF EndPart, At
<1>2. PICK at \in Nat, p \in Parts : at = loop[w].cycle.at /\ p = LoopOrder[at] /\ at \in DOMAIN LoopOrder
  BY <1>1, ClockNumbered, LoopNumbers DEF LoopGood, TickRow
<1>3. /\ loop[w] \in LoopRow /\ clock \in Nat /\ loop[w].beat <= clock
      /\ loop[w].nextBeat <= loop[w].beat + BeatEvery
      /\ loop[w].cycle \in TickRow /\ loop[w].cycle.tick \in Nat
      /\ clock <= loop[w].cycle.timer /\ loop[w].cycle.timer <= loop[w].beat + (at + 1) * BeatEvery
      /\ loop[w].ran[p] = loop[w].cycle.tick
      /\ \A q \in Parts : q # p => Spaced(loop[w], q)
  BY <1>1, <1>2, ClockNumbered DEF LoopGood, TickRow
<1>t. DOMAIN told = {"lapsed", "lateOffline", "asked", "crossed", "early", "alive", "faults"}
  BY DEF StatusInv, StatusTypes
<1>4. PICK next : next = [loop[w].next EXCEPT ![p] = loop[w].cycle.tick + Cadence[p]]
  OBVIOUS
<1>5. PICK l : l = [loop[w] EXCEPT !.next = next]
  OBVIOUS
<1>6. PassOn(w, l, at + 1)
  <2>1. [loop[w] EXCEPT !.next[p] = NextRun(loop[w], p)] = l
    BY <1>3, <1>4, <1>5, RowFieldsOf DEF NextRun
  <2> QED
    BY <1>2, <2>1 DEF EndPart
<1>7. /\ next \in [Parts -> Nat] /\ next[p] = loop[w].cycle.tick + Cadence[p]
      /\ \A q \in Parts : q # p => next[q] = loop[w].next[q]
  <2>1. PICK row \in LoopRow : row = loop[w]
    BY <1>3
  <2>2. row.next \in [Parts -> Nat]
    BY RowFieldsOf
  <2>3. PICK tick \in Nat : tick = loop[w].cycle.tick
    BY <1>3
  <2>4. Cadence[p] \in Nat
    BY <1>2, LoopNumbers
  <2>5. tick + Cadence[p] \in Nat
    BY <2>4
  <2>6. loop[w].next \in [Parts -> Nat] /\ loop[w].cycle.tick + Cadence[p] \in Nat
    BY <2>1, <2>2, <2>3, <2>5
  <2> QED
    BY <1>2, <1>4, <2>6
<1>8. /\ l \in LoopRow /\ l.cycle = loop[w].cycle /\ l.beat = loop[w].beat
      /\ l.nextBeat = loop[w].nextBeat /\ l.next = next /\ l.ran = loop[w].ran
  BY <1>3, <1>5, <1>7 DEF LoopRow
<1>9. Ready(l)
  <2>1. Spaced(l, p)
    BY <1>3, <1>7, <1>8, LoopNumbers DEF Spaced
  <2>2. \A q \in Parts : q # p => Spaced(l, q)
    BY <1>3, <1>7, <1>8 DEF Spaced
  <2> QED
    BY <1>3, <1>8, <2>1, <2>2 DEF Ready
<1>10. PICK r : r = Onward(l, at + 1)
  OBVIOUS
<1>11. Resumed(l, r, at + 1)
  BY <1>3, <1>9, <1>10, OnwardResumes
<1>12. at + 1 - 1 = at /\ at + 1 \in Nat \ {0} /\ at <= Len(LoopOrder) /\ at + 1 - 1 + 1 = at + 1
  BY <1>2, LoopNumbers
<1>13. clock <= l.beat + (at + 1 - 1 + 1) * BeatEvery
  <2>1. PICK c \in Nat : c = (at + 1) * BeatEvery
    BY LoopNumbers
  <2>2. loop[w].cycle.timer \in Nat /\ l.beat \in Nat
    BY <1>3, <1>8, RowFieldsOf DEF TickRow
  <2>3. loop[w].cycle.timer <= l.beat + c
    BY <1>3, <1>8, <2>1
  <2>4. clock <= l.beat + c
    <3>1. PICK t \in Nat, x \in Nat, y \in Nat : t = clock /\ x = l.beat /\ y = loop[w].cycle.timer
      BY <1>3, <2>2
    <3>2. t <= y /\ y <= x + c => t <= x + c
      OBVIOUS
    <3> QED
      BY <1>3, <2>3, <3>1, <3>2
  <2> QED
    BY <1>12, <2>1, <2>4
<1>14. LoopGood(r, clock) /\ r.pc \in {"runs", "after"}
  <2>1. l.beat <= clock /\ l.nextBeat <= l.beat + BeatEvery /\ at + 1 - 1 <= Len(LoopOrder)
    BY <1>3, <1>8, <1>12
  <2>2. PICK j \in Nat \ {0} : j = at + 1
    BY <1>12
  <2>3. /\ clock <= l.beat + (j - 1 + 1) * BeatEvery /\ j - 1 <= Len(LoopOrder)
        /\ Resumed(l, r, j)
    BY <1>11, <1>13, <2>1, <2>2
  <2> QED
    BY <1>8, <2>1, <2>3, ResumedIsGood, Zenon
<1>15. GoOn(w, r) /\ told' = [told EXCEPT !.early = @ \cup EarlyIn(l, r)]
  BY <1>6, <1>10 DEF PassOn
<1>16. told'.early = told.early /\ told'.alive = told.alive
  BY <1>t, <1>11, <1>15 DEF Resumed
<1>17. Goes(w, {"runs"}, {"runs", "after"})
  <2>1. loop[w].pc \in {"runs"}
    BY <1>1
  <2> QED
    BY <1>1, <1>14, <1>15, <2>1, GoesOn
<1> QED
  BY <1>16, <1>17

LEMMA SendBeatGoes ==
    ASSUME StatusInv, NEW w \in Loops, SendBeat(w)
    PROVE  Goes(w, {"runs"}, {"runs"})
<1>1. loop[w].pc = "runs" /\ UNCHANGED clock
  BY DEF SendBeat, At
<1>2. /\ loop[w] \in LoopRow /\ clock \in Nat
      /\ loop[w].beat <= clock /\ loop[w].nextBeat <= loop[w].beat + BeatEvery
      /\ loop[w].cycle \in TickRow /\ loop[w].cycle.at \in DOMAIN LoopOrder
      /\ ~Paused(loop[w], LoopOrder[loop[w].cycle.at])
      /\ loop[w].ran[LoopOrder[loop[w].cycle.at]] = loop[w].cycle.tick
      /\ \A q \in Parts : q # LoopOrder[loop[w].cycle.at] => Spaced(loop[w], q)
  BY <1>1, ClockNumbered DEF LoopGood
<1>3. PICK cycle : cycle = [loop[w].cycle EXCEPT !.timer = clock + BeatEvery]
  OBVIOUS
<1>4. /\ cycle \in TickRow /\ cycle.at = loop[w].cycle.at /\ cycle.timer = clock + BeatEvery
      /\ cycle.tick = loop[w].cycle.tick /\ cycle.seen = loop[w].cycle.seen
  <2>1. clock + BeatEvery \in Nat
    BY <1>2, LoopNumbers
  <2> QED
    BY <1>2, <1>3, <2>1 DEF TickRow
<1>5. PICK l : l = [loop[w] EXCEPT !.cycle = cycle, !.beat = clock]
  OBVIOUS
<1>6. /\ l \in LoopRow /\ l.pc = "runs" /\ l.beat = clock /\ l.nextBeat = loop[w].nextBeat
      /\ l.cycle = cycle /\ l.next = loop[w].next /\ l.ran = loop[w].ran
  BY <1>1, <1>2, <1>4, <1>5 DEF LoopRow
<1>7. GoOn(w, l)
  <2>1. [loop[w] EXCEPT !.cycle.timer = clock + BeatEvery, !.beat = clock] = l
    BY <1>2, <1>3, <1>5, RowFieldsOf
  <2> QED
    BY <2>1 DEF SendBeat
<1>8. clock + BeatEvery <= clock + (l.cycle.at + 1) * BeatEvery
  <2>1. PICK k \in Nat : k = l.cycle.at
    BY <1>4, <1>6 DEF TickRow
  <2>2. PICK c \in Nat : c = (k + 1) * BeatEvery /\ BeatEvery <= c
    <3>1. k <= k
      OBVIOUS
    <3> QED
      BY <3>1, IntervalsGrow, Zenon
  <2>3. BeatEvery <= c
    BY <2>2
  <2>4. clock + BeatEvery <= clock + c
    BY <1>2, <2>3, LoopNumbers
  <2> QED
    BY <2>1, <2>2, <2>4
<1>9. l.nextBeat <= l.beat + BeatEvery /\ clock <= l.cycle.timer
  BY <1>2, <1>4, <1>6, LoopNumbers, RowFieldsOf
<1>10. /\ ~Paused(l, LoopOrder[l.cycle.at])
       /\ l.ran[LoopOrder[l.cycle.at]] = l.cycle.tick
       /\ \A q \in Parts : q # LoopOrder[l.cycle.at] => Spaced(l, q)
  BY <1>2, <1>4, <1>6 DEF Paused, Spaced
<1>11. LoopGood(l, clock)
  BY <1>2, <1>4, <1>6, <1>8, <1>9, <1>10 DEF LoopGood
<1> QED
  BY <1>1, <1>6, <1>7, <1>11, GoesOn

LEMMA EndTickGoes ==
    ASSUME StatusInv, NEW w \in Loops, EndTick(w)
    PROVE  Goes(w, {"after"}, {"sleeps", "leaves"})
<1>1. loop[w].pc = "after" /\ UNCHANGED clock
  BY DEF EndTick, At
<1>2. /\ loop[w] \in LoopRow /\ clock \in Nat
      /\ loop[w].beat <= clock /\ loop[w].nextBeat <= loop[w].beat + BeatEvery
      /\ \A q \in Parts : Spaced(loop[w], q)
  BY <1>1, ClockNumbered DEF LoopGood
<1> DEFINE asleep == [loop[w] EXCEPT !.pc = "sleeps", !.cycle = Nobody]
<1>3. CASE BreakOff(w)
  BY <1>1, <1>3, BreakOffGoes, Zenon DEF Goes
<1>4. CASE clock < loop[w].nextBeat /\ GoOn(w, asleep)
  <2>1. PICK l : l = asleep
    OBVIOUS
  <2>2. /\ l \in LoopRow /\ l.pc = "sleeps" /\ l.beat = loop[w].beat /\ l.nextBeat = loop[w].nextBeat
        /\ l.next = loop[w].next /\ l.ran = loop[w].ran
    BY <1>2, <2>1 DEF LoopRow, Pcs
  <2>3. LoopGood(l, clock)
    <3>1. clock <= l.nextBeat
      BY <1>2, <1>4, <2>2, RowFieldsOf
    <3>2. \A p \in Parts : Spaced(l, p)
      BY <1>2, <2>2 DEF Spaced
    <3> QED
      BY <1>2, <2>2, <3>1, <3>2 DEF LoopGood
  <2> HIDE DEF asleep
  <2> QED
    BY <1>1, <1>4, <2>1, <2>2, <2>3 DEF Goes, GoOn, StatusInv, StatusTypes
<1>5. CASE GoOn(w, [asleep EXCEPT !.nextBeat = clock + BeatEvery, !.beat = clock])
  <2>1. PICK l : l = [asleep EXCEPT !.nextBeat = clock + BeatEvery, !.beat = clock]
    OBVIOUS
  <2>2. /\ l \in LoopRow /\ l.pc = "sleeps" /\ l.beat = clock /\ l.nextBeat = clock + BeatEvery
        /\ l.next = loop[w].next /\ l.ran = loop[w].ran
    <3>1. clock + BeatEvery \in Nat
      BY <1>2, LoopNumbers
    <3> QED
      BY <1>2, <2>1, <3>1 DEF LoopRow, Pcs
  <2>3. LoopGood(l, clock)
    BY <1>2, <2>2, LoopNumbers DEF LoopGood, Spaced
  <2> HIDE DEF asleep
  <2> QED
    BY <1>1, <1>5, <2>1, <2>2, <2>3 DEF Goes, GoOn, StatusInv, StatusTypes
<1> QED
  BY <1>3, <1>4, <1>5 DEF EndTick

LEMMA AbortLoopGoes ==
    ASSUME StatusInv, NEW w \in Loops, AbortLoop(w)
    PROVE  Goes(w, {"runs", "after", "sleeps"}, {"runs", "after", "sleeps"}) /\ InTheLoop(w)
<1>1. loop[w].pc \in {"runs", "after", "sleeps"} /\ UNCHANGED clock
  BY DEF AbortLoop, InTheLoop
<1>2. PICK l : l = [loop[w] EXCEPT !.aborted = TRUE]
  OBVIOUS
<1>3. loop[w] \in LoopRow /\ LoopGood(loop[w], clock)
  BY ClockNumbered
<1>4. /\ l \in LoopRow /\ l.pc = loop[w].pc /\ l.beat = loop[w].beat
      /\ l.nextBeat = loop[w].nextBeat /\ l.cycle = loop[w].cycle /\ l.next = loop[w].next
      /\ l.ran = loop[w].ran
  BY <1>2, <1>3 DEF LoopRow
<1>5. LoopGood(l, clock)
  BY <1>1, <1>3, <1>4 DEF LoopGood, Spaced, Paused
<1>6. GoOn(w, l) /\ InTheLoop(w)
  BY <1>2 DEF AbortLoop
<1> QED
  BY <1>1, <1>4, <1>5, <1>6, GoesOn

LEMMA LeavingGoes ==
    ASSUME StatusInv, NEW w \in Loops
    PROVE  /\ EndLoop(w) => Goes(w, {"sleeps"}, {"stops"})
           /\ SayOffline(w) => Goes(w, {"stops"}, {"leaves"})
           /\ Resign(w) => Goes(w, {"leaves"}, {"released", "done"})
                             /\ (crew.burnIn \/ loop'[w].pc = "done")
           /\ Die(w) => Goes(w, Pcs \ {"idle", "done"}, {"done"})
           /\ NoteRelease(w) => Goes(w, {"notes"}, {"done"}) /\ loop[w].note \in Statuses
                                  /\ loop[w].note.state = "OFFLINE"
<1>0. loop[w].pc \in Pcs
  BY ClockNumbered, RowFieldsOf
<1>1. \A pc \in {"stops", "leaves", "released", "done"} :
        GoOn(w, [LoopOver EXCEPT !.pc = pc]) /\ UNCHANGED clock
          => /\ DOMAIN loop' = Loops /\ \A v \in Loops : v # w => loop'[v] = loop[v]
             /\ loop'[w].pc = pc /\ LoopGood(loop'[w], clock)
  <2> SUFFICES ASSUME NEW pc \in {"stops", "leaves", "released", "done"},
                      GoOn(w, [LoopOver EXCEPT !.pc = pc]), UNCHANGED clock
               PROVE  /\ DOMAIN loop' = Loops /\ \A v \in Loops : v # w => loop'[v] = loop[v]
                      /\ loop'[w].pc = pc /\ LoopGood(loop'[w], clock)
    OBVIOUS
  <2>1. PICK l : l = [NotBegun EXCEPT !.pc = pc]
    OBVIOUS
  <2>2. LoopGood(l, clock) /\ l.pc = pc /\ GoOn(w, l)
    BY <2>1, FreshIsGood, OverIsFresh, ClockNumbered
  <2> QED
    BY <2>2 DEF GoOn, StatusInv, StatusTypes
<1>2. GoOn(w, LoopOver) => GoOn(w, [LoopOver EXCEPT !.pc = "done"])
  BY OverIsFresh DEF LoopOver, NotBegun
<1>3. EndLoop(w) => Goes(w, {"sleeps"}, {"stops"})
  BY <1>1 DEF EndLoop, At, Goes
<1>4. SayOffline(w) => Goes(w, {"stops"}, {"leaves"})
  BY <1>1 DEF SayOffline, At, Goes
<1>5. ASSUME Resign(w)
      PROVE  Goes(w, {"leaves"}, {"released", "done"}) /\ (crew.burnIn \/ loop'[w].pc = "done")
  <2>1. PICK pc \in {"released", "done"} :
          GoOn(w, [LoopOver EXCEPT !.pc = pc]) /\ (crew.burnIn \/ pc = "done")
    BY <1>5 DEF Resign
  <2>2. UNCHANGED clock /\ loop[w].pc = "leaves"
    BY <1>5 DEF Resign, At
  <2> QED
    BY <1>1, <2>1, <2>2 DEF Goes
<1>6. Die(w) => Goes(w, Pcs \ {"idle", "done"}, {"done"})
  BY <1>0, <1>1, <1>2 DEF Die, Goes
<1>7. NoteRelease(w) => /\ Goes(w, {"notes"}, {"done"}) /\ loop[w].note \in Statuses
                        /\ loop[w].note.state = "OFFLINE"
  BY <1>1, <1>2, ClockNumbered DEF NoteRelease, At, Goes, LoopGood
<1> QED
  BY <1>3, <1>4, <1>5, <1>6, <1>7

LEMMA LookAtStatusGoes ==
    ASSUME StatusInv, NEW w \in Loops, LookAtStatus(w)
    PROVE  Goes(w, {"released"}, {"notes", "done"})
<1>1. loop[w].pc = "released" /\ UNCHANGED clock
  BY DEF LookAtStatus, At
<1>2. /\ loop[w] \in LoopRow /\ LoopGood(loop[w], clock)
  BY ClockNumbered
<1>3. CASE GoOn(w, LoopOver)
  <2>1. PICK l : l = [NotBegun EXCEPT !.pc = "done"]
    OBVIOUS
  <2>2. LoopGood(l, clock) /\ l.pc = "done" /\ GoOn(w, l)
    BY <1>3, <2>1, FreshIsGood, OverIsFresh, ClockNumbered
  <2> QED
    BY <1>1, <2>2 DEF Goes, GoOn, StatusInv, StatusTypes
<1>4. CASE /\ statusRow # Nobody /\ statusRow.state = "OFFLINE"
           /\ GoOn(w, [loop[w] EXCEPT !.pc = "notes", !.note = statusRow])
  <2>1. PICK l : l = [loop[w] EXCEPT !.pc = "notes", !.note = statusRow]
    OBVIOUS
  <2>2. statusRow \in Statuses
    BY <1>4 DEF StatusInv, StatusTypes
  <2>3. /\ l \in LoopRow /\ l.pc = "notes" /\ l.note = statusRow /\ l.beat = loop[w].beat
        /\ l.nextBeat = loop[w].nextBeat /\ l.next = loop[w].next /\ l.ran = loop[w].ran
    BY <1>2, <2>1, <2>2 DEF LoopRow, Pcs
  <2>4. LoopGood(l, clock)
    BY <1>1, <1>2, <1>4, <2>2, <2>3 DEF LoopGood, Spaced
  <2> QED
    BY <1>1, <1>4, <2>1, <2>3, <2>4 DEF Goes, GoOn, StatusInv, StatusTypes
<1> QED
  BY <1>3, <1>4 DEF LookAtStatus

-----------------------------------------------------------------------------
\* What a worker's step does to what all share.

ToldFields == {"lapsed", "lateOffline", "asked", "crossed", "early", "alive", "faults"}

\* The step tells nothing of forms and leases.
TellsLittle ==
  /\ DOMAIN told' = ToldFields
  /\ told'.lapsed = told.lapsed /\ told'.crossed = told.crossed /\ told'.asked = told.asked
  /\ told'.early = told.early
  /\ told.lateOffline => told'.lateOffline

LEMMA FaultTellsLittle ==
    ASSUME StatusInv,
           \/ UNCHANGED told \/ told' = AfterFault
           \/ told' = [AfterFault EXCEPT !.lateOffline = TRUE]
           \/ told' = [told EXCEPT !.alive = clock]
    PROVE  /\ TellsLittle
           /\ told' # [told EXCEPT !.alive = clock] => told'.alive = told.alive
           /\ told' = [told EXCEPT !.alive = clock] => told'.alive = clock
           /\ told' = [AfterFault EXCEPT !.lateOffline = TRUE] => told'.lateOffline
BY DEF StatusInv, StatusTypes, TellsLittle, ToldFields, AfterFault

\* Rows that were there, that one in its loop writes now, or that say OFFLINE.
RowsWritten ==
  /\ \A row \in late' \cup {statusRow'} :
       \/ row \in late \cup {statusRow, Nobody}
       \/ row \in Statuses /\ row.state = "ONLINE" /\ row.beat = clock /\ told'.alive = clock
       \/ row \in Statuses /\ row.state = "OFFLINE"
  /\ \A row \in late' : row \in late \/ row \in Statuses
  /\ \A row \in late' : row \in late \/ row.state = "ONLINE" \/ told'.lateOffline

Works(w) ==
  /\ DOMAIN loop' = Loops /\ clock' = clock /\ crew' = crew
  /\ UNCHANGED <<controls, pauseForm>>
  /\ \A v \in Loops : v # w => loop'[v] = loop[v]
  /\ LoopGood(loop'[w], clock)
  /\ loop'[w].pc \in {"runs", "after", "sleeps"} =>
       loop[w].pc \in {"runs", "after", "sleeps"} \/ told'.alive = clock
  /\ told'.alive \in {told.alive, clock}
  /\ TellsLittle
  /\ loop'[w].pc \in Leading => loop[w].pc \in Leading \/ (leader = Nobody /\ leader' = w)
  /\ \/ leader' = leader
     \/ leader' = w /\ leader = Nobody
     \/ leader' = Nobody /\ leader = w /\ loop'[w].pc \notin Leading
  /\ loop'[w].pc \in {"released", "notes"} => crew.burnIn
  /\ RowsWritten
  /\ \/ /\ statusRow' = statusRow
        /\ loop'[w].pc \in {"runs", "after", "sleeps"} => loop[w].pc \in {"runs", "after", "sleeps"}
     \/ statusRow'.state = "ONLINE"
     \/ loop[w].pc = "stops" /\ loop'[w].pc = "leaves"
     \/ crew.burnIn

LEMMA StatusIsStatus ==
    ASSUME StatusInv, NEW w \in Loops, NEW state \in {"ONLINE", "OFFLINE"}
    PROVE  /\ Status(w, state) \in Statuses /\ Status(w, state).state = state
           /\ Status(w, state).beat = clock
BY DEF StatusInv, StatusTypes, Status, Statuses

LEMMA TakeLeadActs ==
    ASSUME StatusInv, NEW w \in Loops, TakeLead(w)
    PROVE  Works(w)
<1>1. Goes(w, {"idle"}, {"starts"})
  BY TakeLeadGoes
<1>2. TellsLittle /\ told'.alive = told.alive
  BY FaultTellsLittle DEF TakeLead
<1>3. RowsWritten
  BY DEF TakeLead, RowsWritten
<1> QED
  BY <1>1, <1>2, <1>3 DEF TakeLead, Goes, Works, Leading

LEMMA AliveWhileIn ==
    ASSUME StatusInv, NEW w \in Loops, loop[w].pc \in {"runs", "after", "sleeps"}
    PROVE  told.alive = clock
BY DEF StatusInv, AliveNow, InTheLoop

LEMMA BeginLoopActs ==
    ASSUME StatusInv, NEW w \in Loops, BeginLoop(w)
    PROVE  Works(w)
<1>1. Goes(w, {"starts"}, {"sleeps", "leaves"})
  BY BeginLoopGoes
<1>2. CASE statusRow' = Status(w, "ONLINE") /\ told' = [told EXCEPT !.alive = clock]
  <2>1. TellsLittle /\ told'.alive = clock
    BY <1>2, FaultTellsLittle
  <2>2. statusRow' \in Statuses /\ statusRow'.state = "ONLINE" /\ statusRow'.beat = clock
    BY <1>2, StatusIsStatus
  <2>3. RowsWritten
    BY <2>1, <2>2 DEF BeginLoop, RowsWritten
  <2> QED
    BY <1>1, <2>1, <2>2, <2>3 DEF BeginLoop, Goes, Works, Leading
<1>3. CASE BreakOff(w) /\ UNCHANGED statusRow
  <2>1. TellsLittle /\ told'.alive \in {told.alive, clock}
    BY <1>3, FaultTellsLittle DEF BreakOff
  <2>2. RowsWritten
    BY <1>3 DEF BeginLoop, RowsWritten
  <2>3. loop'[w].pc = "leaves"
    BY <1>3, BreakOffGoes, <1>1 DEF BeginLoop, Goes
  <2> QED
    BY <1>1, <1>3, <2>1, <2>2, <2>3 DEF BeginLoop, Goes, Works, Leading
<1> QED
  BY <1>2, <1>3 DEF BeginLoop

LEMMA BeginTickActs ==
    ASSUME StatusInv, NEW w \in Loops, BeginTick(w)
    PROVE  Works(w)
<1>1. Goes(w, {"sleeps"}, {"runs", "after", "leaves"}) /\ told'.early = told.early
  BY BeginTickGoes, Zenon
<1>2. told.alive = clock
  BY <1>1, AliveWhileIn DEF Goes
<1>3. TellsLittle /\ told'.alive = told.alive
  <2>1. CASE BreakOff(w)
    BY <1>2, <2>1, FaultTellsLittle DEF BreakOff
  <2>2. CASE ~BreakOff(w)
    <3>1. PICK early : told' = [told EXCEPT !.early = early]
      BY <2>2 DEF BeginTick, PassOn
    <3> QED
      BY <1>1, <3>1 DEF StatusInv, StatusTypes, TellsLittle, ToldFields
  <2> QED
    BY <2>1, <2>2
<1>4. RowsWritten
  BY DEF BeginTick, RowsWritten
<1> QED
  BY <1>1, <1>2, <1>3, <1>4 DEF BeginTick, Goes, Works, Leading

LEMMA EndPartActs ==
    ASSUME StatusInv, NEW w \in Loops, EndPart(w)
    PROVE  Works(w)
<1>1. Goes(w, {"runs"}, {"runs", "after"}) /\ told'.early = told.early /\ told'.alive = told.alive
  BY EndPartGoes
<1>2. TellsLittle
  <2>1. PICK early : told' = [told EXCEPT !.early = early]
    BY DEF EndPart, PassOn
  <2> QED
    BY <1>1, <2>1 DEF StatusInv, StatusTypes, TellsLittle, ToldFields
<1>3. RowsWritten
  BY DEF EndPart, RowsWritten
<1> QED
  BY <1>1, <1>2, <1>3 DEF EndPart, Goes, Works, Leading

LEMMA SendBeatActs ==
    ASSUME StatusInv, NEW w \in Loops, SendBeat(w)
    PROVE  Works(w)
<1>1. Goes(w, {"runs"}, {"runs"})
  BY SendBeatGoes
<1>2. told.alive = clock
  BY <1>1, AliveWhileIn DEF Goes
<1>3. TellsLittle /\ told'.alive = told.alive
  BY <1>2, FaultTellsLittle DEF SendBeat
<1>4. RowsWritten
  BY <1>2, <1>3, StatusIsStatus DEF SendBeat, RowsWritten
<1> QED
  BY <1>1, <1>3, <1>4 DEF SendBeat, Goes, Works, Leading

LEMMA EndTickActs ==
    ASSUME StatusInv, NEW w \in Loops, EndTick(w)
    PROVE  Works(w)
<1>1. Goes(w, {"after"}, {"sleeps", "leaves"})
  BY EndTickGoes
<1>2. told.alive = clock
  BY <1>1, AliveWhileIn DEF Goes
<1>3. TellsLittle /\ told'.alive = told.alive
  BY <1>2, FaultTellsLittle DEF EndTick, BreakOff
<1>4. statusRow' = statusRow \/ statusRow' = Status(w, "ONLINE")
  BY DEF EndTick
<1>5. RowsWritten
  BY <1>2, <1>3, <1>4, StatusIsStatus DEF EndTick, RowsWritten
<1>6. statusRow' = statusRow \/ statusRow'.state = "ONLINE"
  BY <1>4, StatusIsStatus
<1> QED
  BY <1>1, <1>3, <1>5, <1>6 DEF EndTick, Goes, Works, Leading

LEMMA AbortLoopActs ==
    ASSUME StatusInv, NEW w \in Loops, AbortLoop(w)
    PROVE  Works(w)
<1>1. Goes(w, {"runs", "after", "sleeps"}, {"runs", "after", "sleeps"})
  BY AbortLoopGoes
<1>2. TellsLittle /\ told'.alive \in {told.alive, clock}
  BY FaultTellsLittle DEF AbortLoop
<1>3. RowsWritten
  BY DEF AbortLoop, RowsWritten
<1> QED
  BY <1>1, <1>2, <1>3 DEF AbortLoop, Goes, Works, Leading

LEMMA LeavingActs ==
    ASSUME StatusInv, NEW w \in Loops,
           EndLoop(w) \/ SayOffline(w) \/ Resign(w) \/ Die(w) \/ LookAtStatus(w) \/ NoteRelease(w)
    PROVE  Works(w)
<1>1. /\ EndLoop(w) => Goes(w, {"sleeps"}, {"stops"})
      /\ SayOffline(w) => Goes(w, {"stops"}, {"leaves"})
      /\ Resign(w) => Goes(w, {"leaves"}, {"released", "done"}) /\ (crew.burnIn \/ loop'[w].pc = "done")
      /\ Die(w) => Goes(w, Pcs \ {"idle", "done"}, {"done"})
      /\ NoteRelease(w) => Goes(w, {"notes"}, {"done"}) /\ loop[w].note \in Statuses
                             /\ loop[w].note.state = "OFFLINE"
      /\ LookAtStatus(w) => Goes(w, {"released"}, {"notes", "done"})
  BY LeavingGoes, LookAtStatusGoes
<1>2. \A v \in Loops : loop[v].pc \in {"released", "notes"} => crew.burnIn
  BY DEF StatusInv, OfflineIsLast
<1>3. ASSUME EndLoop(w) \/ Resign(w) \/ Die(w) \/ LookAtStatus(w)
      PROVE  Works(w)
  <2>1. TellsLittle /\ told'.alive \in {told.alive, clock}
    BY <1>3, FaultTellsLittle DEF EndLoop, Resign, Die, LookAtStatus
  <2>2. RowsWritten /\ UNCHANGED <<statusRow, crew, controls, pauseForm>>
    BY <1>3 DEF EndLoop, Resign, Die, LookAtStatus, RowsWritten
  <2>3. CASE EndLoop(w)
    BY <1>1, <2>1, <2>2, <2>3 DEF EndLoop, Goes, Works, Leading
  <2>4. CASE Die(w)
    BY <1>1, <2>1, <2>2, <2>4 DEF Die, Goes, Works, Leading
  <2>5. CASE LookAtStatus(w)
    BY <1>1, <1>2, <2>1, <2>2, <2>5 DEF LookAtStatus, Goes, Works, Leading
  <2>6. CASE Resign(w)
    BY <1>1, <2>1, <2>2, <2>6 DEF Resign, Goes, Works, Leading
  <2> QED
    BY <1>3, <2>3, <2>4, <2>5, <2>6
<1>4. ASSUME SayOffline(w)
      PROVE  Works(w)
  <2>1. TellsLittle /\ told'.alive \in {told.alive, clock}
    BY <1>4, FaultTellsLittle DEF SayOffline
  <2>2. RowsWritten
    BY <1>4, StatusIsStatus, FaultTellsLittle DEF SayOffline, RowsWritten
  <2> QED
    BY <1>1, <1>4, <2>1, <2>2 DEF SayOffline, Goes, Works, Leading
<1>5. ASSUME NoteRelease(w)
      PROVE  Works(w)
  <2>1. TellsLittle /\ told'.alive \in {told.alive, clock}
    BY <1>5, FaultTellsLittle DEF NoteRelease
  <2>2. statusRow' \in Statuses /\ statusRow'.state = "OFFLINE"
    BY <1>1, <1>5 DEF NoteRelease, Statuses
  <2>3. RowsWritten
    BY <1>5, <2>2 DEF NoteRelease, RowsWritten
  <2>4. crew.burnIn
    BY <1>1, <1>2, <1>5 DEF Goes
  <2> QED
    BY <1>1, <1>5, <2>1, <2>3, <2>4 DEF NoteRelease, Goes, Works, Leading
<1> QED
  BY <1>3, <1>4, <1>5

LEMMA WorkerActs ==
    ASSUME StatusInv, NEW w \in Loops,
           \/ TakeLead(w) \/ BeginLoop(w) \/ BeginTick(w) \/ SendBeat(w) \/ EndPart(w) \/ EndTick(w)
           \/ EndLoop(w) \/ AbortLoop(w) \/ SayOffline(w) \/ Resign(w) \/ LookAtStatus(w)
           \/ NoteRelease(w) \/ Die(w)
    PROVE  Works(w)
BY TakeLeadActs, BeginLoopActs, BeginTickActs, SendBeatActs, EndPartActs, EndTickActs,
   AbortLoopActs, LeavingActs

-----------------------------------------------------------------------------
\* WorkerStatus: the invariant is kept.

LEMMA ActsKeepsStatusInv ==
    ASSUME StatusInv, NEW w \in Loops, Works(w)
    PROVE  StatusInv'
<1>1. /\ StatusTypes /\ AliveNow /\ LeaderIsAlone /\ OfflineIsLast /\ FormsAlone /\ FormsShaped
      /\ NothingIsReplayed /\ clock \in Nat
      /\ \A v \in Loops : LoopGood(loop[v], clock)
  BY ClockNumbered DEF StatusInv
<1>2. /\ DOMAIN loop' = Loops /\ clock' = clock /\ crew' = crew
      /\ controls' = controls /\ pauseForm' = pauseForm
      /\ \A v \in Loops : v # w => loop'[v] = loop[v]
      /\ LoopGood(loop'[w], clock)
      /\ told'.alive \in {told.alive, clock} /\ TellsLittle /\ RowsWritten
  BY DEF Works
<1>3. told.alive \in Nat /\ told.alive <= clock /\ told'.alive \in Nat /\ told'.alive <= clock
      /\ told.alive <= told'.alive
  BY <1>1, <1>2 DEF StatusTypes
<1>4. \A row \in late' \cup {statusRow'} : row # Nobody => row \in Statuses
  BY <1>1, <1>2 DEF StatusTypes, RowsWritten
<1>5. StatusTypes'
  <2>1. statusRow' \in Statuses \cup {Nobody} /\ late' \subseteq Statuses
    BY <1>1, <1>2, <1>4 DEF StatusTypes, RowsWritten
  <2>2. leader' \in Loops \cup {Nobody}
    BY <1>1 DEF StatusTypes, Works
  <2> QED
    BY <1>1, <1>2, <1>3, <2>1, <2>2 DEF StatusTypes, TellsLittle, ToldFields
<1>6. \A v \in Loops : LoopGood(loop'[v], clock')
  BY <1>1, <1>2
<1>7. AliveNow'
  <2>1. ASSUME NEW v \in Loops, loop'[v].pc \in {"runs", "after", "sleeps"}
        PROVE  told'.alive = clock'
    BY <1>1, <1>2, <2>1 DEF Works, AliveNow, InTheLoop
  <2>2. ASSUME NEW row \in late' \cup {statusRow'}, row # Nobody, row.state = "ONLINE"
        PROVE  row.beat <= told'.alive
    <3>1. CASE row \in late \cup {statusRow, Nobody}
      <4>1. row \in Statuses /\ row.beat <= told.alive
        BY <1>1, <1>4, <2>2, <3>1 DEF AliveNow
      <4>2. row.beat \in Nat
        BY <4>1 DEF Statuses
      <4> QED
        BY <1>3, <4>1, <4>2
    <3>2. CASE row.beat = clock /\ told'.alive = clock
      BY <1>1, <3>2
    <3> QED
      BY <1>2, <2>2, <3>1, <3>2 DEF RowsWritten
  <2> QED
    BY <2>1, <2>2 DEF AliveNow, InTheLoop
<1>8. LeaderIsAlone'
  <2>1. told'.lapsed = told.lapsed
    BY <1>2 DEF TellsLittle
  <2>2. ASSUME ~told.lapsed, NEW v \in Loops, loop'[v].pc \in Leading
        PROVE  leader' = v
    <3>1. \A u \in Loops : loop[u].pc \in Leading => leader = u
      BY <1>1, <2>2 DEF LeaderIsAlone
    <3>2. Nobody \notin Loops
      BY LoopNumbers
    <3>3. CASE v = w
      BY <2>2, <3>1, <3>2, <3>3 DEF Works
    <3>4. CASE v # w
      BY <1>2, <2>2, <3>1, <3>2, <3>4 DEF Works
    <3> QED
      BY <3>3, <3>4
  <2> QED
    BY <2>1, <2>2 DEF LeaderIsAlone
<1>9. OfflineIsLast'
  <2>1. \A v \in Loops : loop'[v].pc \in {"released", "notes"} => crew'.burnIn
    BY <1>1, <1>2 DEF Works, OfflineIsLast
  <2>2. ASSUME ~told'.lapsed, ~told'.lateOffline, ~crew'.burnIn
        PROVE  /\ \A row \in late' : row.state = "ONLINE"
               /\ statusRow' # Nobody /\ statusRow'.state = "OFFLINE"
                    => \A v \in Loops : loop'[v].pc \notin {"runs", "after", "sleeps"}
    <3>1. ~told.lapsed /\ ~told.lateOffline /\ ~crew.burnIn
      BY <1>2, <2>2 DEF TellsLittle
    <3>2. /\ \A row \in late : row.state = "ONLINE"
          /\ statusRow # Nobody /\ statusRow.state = "OFFLINE"
               => \A v \in Loops : loop[v].pc \notin {"runs", "after", "sleeps"}
      BY <1>1, <3>1 DEF OfflineIsLast, InTheLoop
    <3>3. \A row \in late' : row.state = "ONLINE"
      BY <1>2, <2>2, <3>2 DEF RowsWritten
    <3>4. CASE /\ statusRow' = statusRow
               /\ loop'[w].pc \in {"runs", "after", "sleeps"} => loop[w].pc \in {"runs", "after", "sleeps"}
      BY <1>2, <3>2, <3>3, <3>4
    <3>5. CASE statusRow'.state = "ONLINE"
      BY <3>3, <3>5
    <3>6. CASE loop[w].pc = "stops" /\ loop'[w].pc = "leaves"
      <4>1. \A v \in Loops : loop[v].pc \in Leading => leader = v
        BY <1>1, <3>1 DEF LeaderIsAlone
      <4>2. leader = w
        BY <3>6, <4>1 DEF Leading
      <4>3. \A v \in Loops : v # w => loop'[v].pc \notin {"runs", "after", "sleeps"}
        BY <1>2, <4>1, <4>2 DEF Leading
      <4> QED
        BY <3>3, <3>6, <4>3
    <3> QED
      BY <3>1, <3>4, <3>5, <3>6 DEF Works
  <2> QED
    BY <2>1, <2>2 DEF OfflineIsLast, InTheLoop
<1>10. FormsAlone' /\ FormsShaped'
  BY <1>1, <1>2 DEF FormsAlone, FormsShaped, TellsLittle
<1>11. NothingIsReplayed'
  BY <1>1, <1>2 DEF NothingIsReplayed, TellsLittle
<1> QED
  BY <1>5, <1>6, <1>7, <1>8, <1>9, <1>10, <1>11 DEF StatusInv

\* Time passes only while nothing is due.
LEMMA TimeGoesOnKeepsStatusInv ==
    ASSUME StatusInv, TimeGoesOn
    PROVE  StatusInv'
<1>1. /\ StatusTypes /\ AliveNow /\ LeaderIsAlone /\ OfflineIsLast /\ FormsAlone /\ FormsShaped
      /\ NothingIsReplayed /\ clock \in Nat
      /\ \A v \in Loops : LoopGood(loop[v], clock) /\ loop[v] \in LoopRow
  BY ClockNumbered DEF StatusInv
<1>2. /\ clock' = clock + 1 /\ clock < crew.until /\ \A v \in Loops : Waits(v)
      /\ UNCHANGED <<crew, statusRow, late, controls, pauseForm, loop, leader>>
  BY DEF TimeGoesOn
<1>3. /\ DOMAIN told' = DOMAIN told
      /\ told'.alive = IF \E w \in Loops : InTheLoop(w) THEN clock + 1 ELSE told.alive
      /\ told'.lapsed = told.lapsed /\ told'.lateOffline = told.lateOffline
      /\ told'.crossed = told.crossed /\ told'.asked = told.asked /\ told'.early = told.early
  BY <1>1 DEF TimeGoesOn, StatusTypes
<1>4. told.alive \in Nat /\ told.alive <= clock
  BY <1>1 DEF StatusTypes
<1>5. told'.alive \in Nat /\ told'.alive <= clock' /\ told.alive <= told'.alive
  BY <1>1, <1>2, <1>3, <1>4
<1>6. StatusTypes'
  BY <1>1, <1>2, <1>3, <1>5 DEF StatusTypes
<1>7. ASSUME NEW v \in Loops
      PROVE  LoopGood(loop'[v], clock')
  <2>1. LoopGood(loop[v], clock) /\ loop[v] \in LoopRow /\ Waits(v) /\ loop'[v] = loop[v]
    BY <1>1, <1>2
  <2>2. loop[v].beat \in Nat /\ loop[v].nextBeat \in Nat /\ loop[v].beat <= clock + 1
    BY <1>1, <2>1, RowFieldsOf DEF LoopGood
  <2>3. ASSUME loop[v].pc = "sleeps"
        PROVE  clock + 1 <= loop[v].nextBeat
    <3>1. WakesAt(v) > clock
      BY <2>1, <2>3 DEF Waits, At
    <3>2. WakesAt(v) \in Nat /\ WakesAt(v) <= loop[v].nextBeat
      BY <2>1, WakesForBeat
    <3> QED
      BY <1>1, <2>2, <3>1, <3>2
  <2>4. ASSUME loop[v].pc = "runs"
        PROVE  clock + 1 <= loop[v].cycle.timer
    <3>1. loop[v].cycle.timer > clock /\ loop[v].cycle.timer \in Nat
      BY <2>1, <2>4 DEF Waits, At, LoopGood, TickRow
    <3> QED
      BY <1>1, <3>1
  <2>5. loop[v].pc # "after"
    BY <2>1 DEF Waits, At
  <2>6. LoopGood(loop[v], clock + 1)
    BY <2>1, <2>2, <2>3, <2>4, <2>5 DEF LoopGood
  <2> QED
    BY <1>2, <2>1, <2>6
<1>8. AliveNow'
  <2>1. \A v \in Loops : loop'[v].pc \in {"runs", "after", "sleeps"} => told'.alive = clock'
    BY <1>2, <1>3 DEF InTheLoop
  <2>2. ASSUME NEW row \in late' \cup {statusRow'}, row # Nobody, row.state = "ONLINE"
        PROVE  row.beat <= told'.alive
    <3>1. row.beat <= told.alive /\ row \in Statuses
      BY <1>1, <1>2, <2>2 DEF AliveNow, StatusTypes
    <3>2. row.beat \in Nat
      BY <3>1 DEF Statuses
    <3> QED
      BY <1>4, <1>5, <3>1, <3>2
  <2> QED
    BY <2>1, <2>2 DEF AliveNow, InTheLoop
<1>9. (LeaderIsAlone /\ OfflineIsLast)'
  BY <1>1, <1>2, <1>3 DEF LeaderIsAlone, OfflineIsLast, InTheLoop
<1>10. (FormsAlone /\ FormsShaped /\ NothingIsReplayed)'
  BY <1>1, <1>2, <1>3 DEF FormsAlone, FormsShaped, NothingIsReplayed
<1> QED
  BY <1>6, <1>7, <1>8, <1>9, <1>10 DEF StatusInv

LEMMA LateWriteKeepsStatusInv ==
    ASSUME StatusInv, LateWrite
    PROVE  StatusInv'
<1>1. /\ StatusTypes /\ AliveNow /\ LeaderIsAlone /\ OfflineIsLast /\ FormsAlone /\ FormsShaped
      /\ NothingIsReplayed
      /\ \A v \in Loops : LoopGood(loop[v], clock)
  BY DEF StatusInv
<1>2. /\ UNCHANGED <<crew, clock, controls, pauseForm, loop, leader, told>>
      /\ late' \subseteq late /\ statusRow' \in late \cup {statusRow}
  BY DEF LateWrite
<1>3. StatusTypes'
  BY <1>1, <1>2 DEF StatusTypes
<1>4. AliveNow'
  BY <1>1, <1>2 DEF AliveNow, InTheLoop
<1>5. OfflineIsLast'
  <2>1. \A v \in Loops : loop'[v].pc \in {"released", "notes"} => crew'.burnIn
    BY <1>1, <1>2 DEF OfflineIsLast
  <2>2. ASSUME ~told'.lapsed, ~told'.lateOffline, ~crew'.burnIn
        PROVE  /\ \A row \in late' : row.state = "ONLINE"
               /\ statusRow' # Nobody /\ statusRow'.state = "OFFLINE"
                    => \A v \in Loops : loop'[v].pc \notin {"runs", "after", "sleeps"}
    <3>1. /\ \A row \in late : row.state = "ONLINE"
          /\ statusRow # Nobody /\ statusRow.state = "OFFLINE"
               => \A v \in Loops : loop[v].pc \notin {"runs", "after", "sleeps"}
      BY <1>1, <1>2, <2>2 DEF OfflineIsLast, InTheLoop
    <3> QED
      BY <1>2, <3>1
  <2> QED
    BY <2>1, <2>2 DEF OfflineIsLast, InTheLoop
<1>6. (LeaderIsAlone /\ FormsAlone /\ FormsShaped /\ NothingIsReplayed)'
  BY <1>1, <1>2 DEF LeaderIsAlone, FormsAlone, FormsShaped, NothingIsReplayed
<1>7. \A v \in Loops : LoopGood(loop'[v], clock')
  BY <1>1, <1>2
<1> QED
  BY <1>3, <1>4, <1>5, <1>6, <1>7 DEF StatusInv

LEMMA LeaderLapsesKeepsStatusInv ==
    ASSUME StatusInv, LeaderLapses
    PROVE  StatusInv'
<1>1. /\ StatusTypes /\ AliveNow /\ LeaderIsAlone /\ OfflineIsLast /\ FormsAlone /\ FormsShaped
      /\ NothingIsReplayed
      /\ \A v \in Loops : LoopGood(loop[v], clock)
  BY DEF StatusInv
<1>2. /\ UNCHANGED <<crew, clock, statusRow, late, controls, pauseForm, loop>>
      /\ leader' = Nobody /\ leader \in Loops
  BY <1>1 DEF LeaderLapses, StatusTypes
<1>3. /\ DOMAIN told' = DOMAIN told /\ told'.alive = told.alive
      /\ told'.lateOffline = told.lateOffline
      /\ told'.crossed = told.crossed /\ told'.asked = told.asked /\ told'.early = told.early
      /\ told'.lapsed \/ (told'.lapsed = told.lapsed /\ loop[leader].pc = "done")
  BY <1>1 DEF LeaderLapses, At, AfterFault, StatusTypes
<1>4. StatusTypes' /\ AliveNow'
  BY <1>1, <1>2, <1>3 DEF StatusTypes, AliveNow, InTheLoop
<1>5. LeaderIsAlone'
  <2>1. ASSUME ~told'.lapsed, NEW v \in Loops, loop[v].pc \in Leading
        PROVE  FALSE
    <3>1. leader = v /\ loop[leader].pc = "done"
      BY <1>1, <1>3, <2>1 DEF LeaderIsAlone
    <3> QED
      BY <2>1, <3>1 DEF Leading
  <2> QED
    BY <1>2, <2>1 DEF LeaderIsAlone
<1>6. (OfflineIsLast /\ FormsAlone /\ FormsShaped /\ NothingIsReplayed)'
  <2>1. OfflineIsLast'
    <3>1. \A v \in Loops : loop'[v].pc \in {"released", "notes"} => crew'.burnIn
      BY <1>1, <1>2 DEF OfflineIsLast
    <3>2. ASSUME ~told'.lapsed, ~told'.lateOffline, ~crew'.burnIn
          PROVE  ~told.lapsed /\ ~told.lateOffline /\ ~crew.burnIn
      BY <1>2, <1>3, <3>2
    <3> QED
      BY <1>1, <1>2, <3>1, <3>2 DEF OfflineIsLast, InTheLoop
  <2> QED
    BY <1>1, <1>2, <1>3, <2>1 DEF FormsAlone, FormsShaped, NothingIsReplayed
<1>7. \A v \in Loops : LoopGood(loop'[v], clock')
  BY <1>1, <1>2
<1> QED
  BY <1>4, <1>5, <1>6, <1>7 DEF StatusInv

\* A form that reads while another one has read is crossed by it.
LEMMA ReadControlsKeepsStatusInv ==
    ASSUME StatusInv, NEW f \in Forms, ReadControls(f)
    PROVE  StatusInv'
<1>1. /\ StatusTypes /\ AliveNow /\ LeaderIsAlone /\ OfflineIsLast /\ FormsAlone /\ FormsShaped
      /\ NothingIsReplayed
      /\ \A v \in Loops : LoopGood(loop[v], clock)
  BY DEF StatusInv
<1>2. UNCHANGED <<crew, clock, statusRow, late, controls, loop, leader>>
  BY DEF ReadControls
<1>3. /\ DOMAIN told' = DOMAIN told /\ told'.alive = told.alive
      /\ told'.lateOffline = told.lateOffline /\ told'.lapsed = told.lapsed
      /\ told'.asked = told.asked /\ told'.early = told.early
      /\ ~told'.crossed => ~told.crossed /\ \A g \in Forms : pauseForm[g].pc # "read"
  BY <1>1 DEF ReadControls, StatusTypes
<1>4. PICK s \in Scopes, to \in BOOLEAN :
        pauseForm' = [pauseForm EXCEPT ![f] = [pc |-> "read", scope |-> s, to |-> to, read |-> controls]]
  BY DEF ReadControls
<1>5. /\ DOMAIN pauseForm' = Forms
      /\ pauseForm'[f] = [pc |-> "read", scope |-> s, to |-> to, read |-> controls]
      /\ \A g \in Forms : g # f => pauseForm'[g] = pauseForm[g]
  BY <1>1, <1>4 DEF FormsShaped
<1>6. StatusTypes' /\ AliveNow'
  BY <1>1, <1>2, <1>3 DEF StatusTypes, AliveNow, InTheLoop
<1>7. (LeaderIsAlone /\ OfflineIsLast /\ NothingIsReplayed)'
  BY <1>1, <1>2, <1>3 DEF LeaderIsAlone, OfflineIsLast, InTheLoop, NothingIsReplayed
<1>8. FormsShaped'
  BY <1>1, <1>4, <1>5 DEF FormsShaped, StatusTypes
<1>9. FormsAlone'
  BY <1>1, <1>2, <1>3, <1>5 DEF FormsAlone
<1>10. \A v \in Loops : LoopGood(loop'[v], clock')
  BY <1>1, <1>2
<1> QED
  BY <1>6, <1>7, <1>8, <1>9, <1>10 DEF StatusInv

LEMMA WriteControlsKeepsStatusInv ==
    ASSUME StatusInv, NEW f \in Forms, WriteControls(f)
    PROVE  StatusInv'
<1>1. /\ StatusTypes /\ AliveNow /\ LeaderIsAlone /\ OfflineIsLast /\ FormsAlone /\ FormsShaped
      /\ NothingIsReplayed
      /\ \A v \in Loops : LoopGood(loop[v], clock)
  BY DEF StatusInv
<1>2. UNCHANGED <<crew, clock, statusRow, late, loop, leader>> /\ pauseForm[f].pc = "read"
  BY DEF WriteControls
<1>3. PICK s \in Scopes, to \in BOOLEAN : s = pauseForm[f].scope /\ to = pauseForm[f].to
  BY <1>1, <1>2 DEF FormsShaped
<1>4. /\ controls' = [pauseForm[f].read EXCEPT ![s] = to]
      /\ told'.asked = [told.asked EXCEPT ![s] = to]
      /\ DOMAIN told' = DOMAIN told /\ told'.alive = told.alive
      /\ told'.lateOffline = told.lateOffline /\ told'.lapsed = told.lapsed
      /\ told'.crossed = told.crossed /\ told'.early = told.early
  BY <1>1, <1>3 DEF WriteControls, StatusTypes
<1>5. /\ DOMAIN pauseForm' = Forms /\ pauseForm'[f].pc = "done"
      /\ \A g \in Forms : g # f => pauseForm'[g] = pauseForm[g]
  BY <1>1 DEF FormsShaped, WriteControls
<1>6. controls' \in [Scopes -> BOOLEAN] /\ told'.asked \in [Scopes -> BOOLEAN]
  BY <1>1, <1>2, <1>4 DEF FormsShaped, StatusTypes
<1>7. StatusTypes' /\ AliveNow'
  BY <1>1, <1>2, <1>4, <1>6 DEF StatusTypes, AliveNow, InTheLoop
<1>8. (LeaderIsAlone /\ OfflineIsLast /\ NothingIsReplayed)'
  BY <1>1, <1>2, <1>4 DEF LeaderIsAlone, OfflineIsLast, InTheLoop, NothingIsReplayed
<1>9. FormsShaped'
  BY <1>1, <1>5 DEF FormsShaped
<1>10. FormsAlone'
  BY <1>1, <1>2, <1>4, <1>5 DEF FormsAlone
<1>11. \A v \in Loops : LoopGood(loop'[v], clock')
  BY <1>1, <1>2
<1> QED
  BY <1>7, <1>8, <1>9, <1>10, <1>11 DEF StatusInv

LEMMA StatusInvStep ==
    ASSUME StatusInv, [StatusNext]_statusVars
    PROVE  StatusInv'
<1>1. CASE UNCHANGED statusVars
  BY <1>1 DEF statusVars, StatusInv, StatusTypes, AliveNow, LeaderIsAlone, OfflineIsLast,
     FormsAlone, FormsShaped, NothingIsReplayed, InTheLoop
<1>2. CASE TimeGoesOn \/ LateWrite \/ LeaderLapses
  BY <1>2, TimeGoesOnKeepsStatusInv, LateWriteKeepsStatusInv, LeaderLapsesKeepsStatusInv
<1>3. CASE \E f \in Forms : ReadControls(f) \/ WriteControls(f)
  BY <1>3, ReadControlsKeepsStatusInv, WriteControlsKeepsStatusInv
<1>4. CASE \E w \in Loops :
       \/ TakeLead(w) \/ BeginLoop(w) \/ BeginTick(w) \/ SendBeat(w) \/ EndPart(w) \/ EndTick(w)
       \/ EndLoop(w) \/ AbortLoop(w) \/ SayOffline(w) \/ Resign(w) \/ LookAtStatus(w)
       \/ NoteRelease(w) \/ Die(w)
  BY <1>4, WorkerActs, ActsKeepsStatusInv
<1> QED
  BY <1>1, <1>2, <1>3, <1>4 DEF StatusNext

LEMMA StatusInvInit ==
    ASSUME StatusInit
    PROVE  StatusInv
<1>1. crew \in LoopCases /\ crew.until \in Nat /\ clock = 0 /\ 0 \in 0 .. crew.until
  BY LoopNumbers DEF StatusInit
<1>2. controls \in [Scopes -> BOOLEAN]
  BY DEF StatusInit
<1>3. told = [lapsed |-> FALSE, lateOffline |-> FALSE, asked |-> controls, crossed |-> FALSE,
              early |-> {}, alive |-> 0, faults |-> 0]
  BY DEF StatusInit
<1>4. \A w \in Loops : loop[w] = NotBegun
  BY DEF StatusInit
<1>5. NotBegun.pc = "idle" /\ NotBegun = [NotBegun EXCEPT !.pc = "idle"]
  <2>1. NotBegun.pc = "idle"
    BY DEF NotBegun
  <2> QED
    BY <2>1, NotBegunFields DEF LoopRow
<1>6. \A w \in Loops : LoopGood(loop[w], clock)
  <2>1. LoopGood([NotBegun EXCEPT !.pc = "idle"], clock)
    BY <1>1, FreshIsGood
  <2> QED
    BY <1>4, <1>5, <2>1
<1>7. StatusTypes
  BY <1>1, <1>2, <1>3 DEF StatusInit, StatusTypes
<1>8. AliveNow /\ LeaderIsAlone /\ OfflineIsLast
  BY <1>4, <1>5 DEF StatusInit, AliveNow, LeaderIsAlone, OfflineIsLast, InTheLoop, Leading
<1>9. FormsAlone /\ FormsShaped /\ NothingIsReplayed
  BY <1>3 DEF StatusInit, FormsAlone, FormsShaped, NothingIsReplayed
<1> QED
  BY <1>6, <1>7, <1>8, <1>9 DEF StatusInv

-----------------------------------------------------------------------------
\* What the invariant says of what is shown.

\* Heartbeats come in time: between two of them lies, for each component and
\* once for the loop itself, at most an interval.
LEMMA BeatsComeInTime ==
    ASSUME StatusInv
    PROVE  BeatsInTime
<1> SUFFICES ASSUME NEW w \in Loops, InTheLoop(w)
             PROVE  clock <= loop[w].beat + (Len(LoopOrder) + 1) * BeatEvery
  BY DEF BeatsInTime
<1>1. LoopGood(loop[w], clock) /\ loop[w] \in LoopRow /\ clock \in Nat
  BY ClockNumbered
<1>2. loop[w].beat \in Nat /\ loop[w].nextBeat \in Nat
  BY <1>1, RowFieldsOf
<1>3. CASE loop[w].pc = "after"
  BY <1>1, <1>3 DEF LoopGood
<1>4. ASSUME NEW k \in Nat, k <= Len(LoopOrder), clock <= loop[w].beat + (k + 1) * BeatEvery
      PROVE  clock <= loop[w].beat + (Len(LoopOrder) + 1) * BeatEvery
  <2>1. PICK c \in Nat, d \in Nat :
          c = (k + 1) * BeatEvery /\ d = (Len(LoopOrder) + 1) * BeatEvery /\ c <= d
    <3>1. Len(LoopOrder) \in Nat
      BY LoopNumbers
    <3>2. /\ (k + 1) * BeatEvery \in Nat /\ (Len(LoopOrder) + 1) * BeatEvery \in Nat
          /\ (k + 1) * BeatEvery <= (Len(LoopOrder) + 1) * BeatEvery
      BY <1>4, <3>1, IntervalsGrow, Zenon
    <3> QED
      BY <3>2, Zenon
  <2>2. clock <= loop[w].beat + c
    BY <1>4, <2>1
  <2>3. c <= d
    BY <2>1
  <2>4. clock <= loop[w].beat + d
    BY <1>1, <1>2, <2>2, <2>3
  <2> QED
    BY <2>1, <2>4
<1>5. CASE loop[w].pc = "sleeps"
  <2>1. clock <= loop[w].nextBeat /\ loop[w].nextBeat <= loop[w].beat + BeatEvery
    BY <1>1, <1>5 DEF LoopGood
  <2>2. clock <= loop[w].beat + BeatEvery /\ (0 + 1) * BeatEvery = BeatEvery /\ 0 <= Len(LoopOrder)
    BY <1>1, <1>2, <2>1, LoopNumbers
  <2> QED
    BY <1>4, <2>2
<1>6. CASE loop[w].pc = "runs"
  <2>1. PICK k \in Nat : k = loop[w].cycle.at /\ k <= Len(LoopOrder)
    BY <1>1, <1>6, LoopNumbers DEF LoopGood, TickRow
  <2>2. PICK c \in Nat : c = (k + 1) * BeatEvery
    BY LoopNumbers
  <2>3. PICK t \in Nat : t = loop[w].cycle.timer
    BY <1>1, <1>6 DEF LoopGood, TickRow
  <2>4. clock <= t /\ t <= loop[w].beat + c
    BY <1>1, <1>6, <2>1, <2>2, <2>3 DEF LoopGood
  <2>5. clock <= loop[w].beat + c
    BY <1>1, <1>2, <2>4
  <2> QED
    BY <1>4, <2>1, <2>2, <2>5
<1> QED
  BY <1>3, <1>5, <1>6 DEF InTheLoop

LEMMA ShownAsItIs ==
    ASSUME StatusInv
    PROVE  WorkerShowsItsState
<1>1. /\ StatusTypes /\ AliveNow /\ OfflineIsLast /\ FormsAlone /\ NothingIsReplayed /\ clock \in Nat
      /\ \A v \in Loops : LoopGood(loop[v], clock)
  BY ClockNumbered DEF StatusInv
<1>2. OnlineIsRecent
  <2> SUFFICES ASSUME Shown = "ONLINE"
               PROVE  clock <= told.alive + StaleAfter
    BY DEF OnlineIsRecent
  <2>1. statusRow # Nobody /\ statusRow.state # "OFFLINE" /\ ~(clock > statusRow.beat + StaleAfter)
    BY DEF Shown, Health
  <2>2. statusRow \in Statuses
    BY <1>1, <2>1 DEF StatusTypes
  <2>3. statusRow.state = "ONLINE" /\ statusRow.beat \in Nat
    BY <2>1, <2>2 DEF Statuses
  <2>4. statusRow.beat <= told.alive /\ told.alive \in Nat
    BY <1>1, <2>1, <2>3 DEF AliveNow, StatusTypes
  <2> QED
    BY <1>1, <2>1, <2>3, <2>4, LoopNumbers
<1>3. OfflineMeansStopped
  <2>1. Shown = "OFFLINE" => statusRow # Nobody /\ statusRow.state = "OFFLINE"
    BY DEF Shown, Health
  <2> QED
    BY <1>1, <2>1 DEF OfflineMeansStopped, OfflineIsLast
<1>4. PausesHold
  BY <1>1 DEF PausesHold, FormsAlone, LoopGood, At
<1> QED
  BY <1>1, <1>2, <1>3, <1>4, BeatsComeInTime DEF WorkerShowsItsState

LEMMA StatusTyped ==
    ASSUME StatusInv
    PROVE  StatusTypeOK
<1>1. /\ StatusTypes
      /\ \A v \in Loops : LoopGood(loop[v], clock) /\ loop[v].pc \in Pcs
  BY ClockNumbered, RowFieldsOf DEF StatusInv
<1> QED
  BY <1>1 DEF StatusTypes, StatusTypeOK, LoopGood, Pcs, At

\* The clock, the leader, the controls and the states of the loops have their
\* types (worker/src/runtime.ts).
THEOREM StatusTypeCorrect == StatusSpec => []StatusTypeOK
<1>1. StatusSpec => []StatusInv
  BY StatusInvInit, StatusInvStep, PTL DEF StatusSpec
<1> QED
  BY <1>1, StatusTyped, PTL

\* The worker shows its state and does what it is told, whatever its components,
\* their cadences and the intervals are (runtime.ts, worker-operations.ts): what
\* is shown as ONLINE was in its loop within the limit, what is shown as OFFLINE
\* has stopped, heartbeats come in time, pauses hold and nothing is replayed.
THEOREM WorkerStatusCorrect == StatusSpec => []WorkerShowsItsState
<1>1. StatusSpec => []StatusInv
  BY StatusInvInit, StatusInvStep, PTL DEF StatusSpec
<1> QED
  BY <1>1, ShownAsItIs, PTL

=============================================================================
