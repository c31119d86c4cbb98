------------------------------- MODULE Supervisor -------------------------------
(* The process supervisor: scripts/ops/supervisor.ps1 and process-host.mjs.   *)
(* An operator starts, stops and restarts; a supervisor holds a file lock,    *)
(* registers itself in a file, starts one process host per component, records *)
(* them in another file and restarts those that die. A stop is a file that    *)
(* the supervisor polls, or forgets if it is only starting; the command that  *)
(* wrote it waits, kills the supervisor at a deadline, and then stops what is *)
(* recorded by itself. Supervisors and hosts may die at any time.             *)
EXTENDS Naturals, FiniteSets

CONSTANTS Supervisors,       \* supervisor processes
          Components,        \* dashboard, worker
          NoSupervisor,
          MaxCrashes,        \* AFFILIATE_SUPERVISOR_MAX_CRASHES
          MaxStarts,         \* bound: component processes started
          MaxDeaths          \* bound: supervisors and hosts that die

ASSUME SupervisorAssumption ==
  /\ NoSupervisor \notin Supervisors
  /\ MaxCrashes \in Nat \ {0} /\ MaxStarts \in Nat /\ MaxDeaths \in Nat

VARIABLES operator,          \* the command being executed, whom it waits for, and
                             \* (history) the programs that its stops have missed
          supervisor,        \* per process: step and what it knows of components
          supervisorFile,    \* supervisor.json: the registered process
          componentsFile,    \* components.json: process recorded per component, or 0
          stopFile,          \* stop.requested
          fileLock,          \* owner of supervisor.lock; the system frees it
          hosts, children,   \* live processes: hosts and the programs they run
          started, deaths

supervisorVars == <<operator, supervisor, supervisorFile, componentsFile, stopFile, fileLock,
                    hosts, children, started, deaths>>

NoProcess == [c \in Components |-> 0]
Off == [pc |-> "off", held |-> NoProcess, crashes |-> NoProcess, todo |-> {}]
AliveSupervisors == {s \in Supervisors : supervisor[s].pc # "off"}
IsAlive(s) == s \in AliveSupervisors
HeldBy(s) == {supervisor[s].held[c] : c \in Components}
OnRecord == {componentsFile[c] : c \in Components}

SupervisorInit ==
  /\ operator = [pc |-> "idle", waits |-> NoSupervisor, orphans |-> {}]
  /\ supervisor = [s \in Supervisors |-> Off]
  /\ supervisorFile = NoSupervisor
  /\ componentsFile = NoProcess
  /\ stopFile = FALSE
  /\ fileLock = NoSupervisor
  /\ hosts = {} /\ children = {}
  /\ started = 0 /\ deaths = 0

AtRest == operator.pc \in {"idle", "stopped"}

(* Start: refused if a registered supervisor is alive; a stale file goes. The *)
(* process it launches takes the lock later.                                  *)
StartCommand(s) ==
  /\ AtRest \/ operator.pc = "restart"
  /\ ~ IsAlive(supervisorFile) /\ ~ IsAlive(s)
  /\ operator' = [operator EXCEPT !.pc = "idle"]
  /\ supervisorFile' = NoSupervisor
  /\ supervisor' = [supervisor EXCEPT ![s].pc = "lock"]
  /\ UNCHANGED <<componentsFile, stopFile, fileLock, hosts, children, started, deaths>>

StartRefused ==
  /\ operator.pc = "restart" /\ IsAlive(supervisorFile)
  /\ operator' = [operator EXCEPT !.pc = "idle"]
  /\ UNCHANGED <<supervisor, supervisorFile, componentsFile, stopFile, fileLock, hosts,
                 children, started, deaths>>

(* Request-Stop: the stop file, then whom to wait for ...                     *)
StopCommand ==
  /\ AtRest
  /\ stopFile' = TRUE
  /\ operator' = [operator EXCEPT !.pc = "find"]
  /\ UNCHANGED <<supervisor, supervisorFile, componentsFile, fileLock, hosts, children,
                 started, deaths>>

FindSupervisor ==
  /\ operator.pc = "find"
  /\ operator' = [operator EXCEPT !.pc = "wait",
       !.waits = IF IsAlive(supervisorFile) THEN supervisorFile ELSE NoSupervisor]
  /\ UNCHANGED <<supervisor, supervisorFile, componentsFile, stopFile, fileLock, hosts,
                 children, started, deaths>>

(* A process that ends leaves its lock to the system.                         *)
EndsProcess(s) == /\ supervisor' = [supervisor EXCEPT ![s] = Off]
                  /\ fileLock' = IF fileLock = s THEN NoSupervisor ELSE fileLock

(* What a supervisor has started and not yet written down.                    *)
Unrecorded(s) == IF supervisor[s].pc \in {"boot", "replaced"} THEN HeldBy(s) \ OnRecord ELSE {}

(* ... until it is gone, or the deadline passes and it is killed, wherever it *)
(* is: it may be stopping its components, or know nothing of the stop.        *)
WaitForSupervisor ==
  LET s == operator.waits
  IN  /\ operator.pc = "wait"
      /\ \/ /\ ~ IsAlive(s)
            /\ operator' = [operator EXCEPT !.pc = "recorded", !.waits = NoSupervisor]
            /\ UNCHANGED <<supervisor, fileLock>>
         \/ /\ IsAlive(s)
            /\ EndsProcess(s)
            /\ operator' = [pc |-> "recorded", waits |-> NoSupervisor,
                             orphans |-> operator.orphans \cup Unrecorded(s)]
      /\ UNCHANGED <<supervisorFile, componentsFile, stopFile, hosts, children, started,
                     deaths>>

(* Stop-OwnedProcess: asks, waits, and at last kills the whole tree. A host   *)
(* that is gone has no tree: the program it left behind is not found.         *)
Stopped(processes) == /\ hosts' = hosts \ processes
                      /\ children' = children \ (processes \cap hosts)

(* What is recorded is stopped, and the files are cleared, whoever wrote them.*)
StopRecorded ==
  /\ operator.pc = "recorded"
  /\ Stopped(OnRecord)
  /\ operator' = [operator EXCEPT !.pc = "clear"]
  /\ UNCHANGED <<supervisor, supervisorFile, componentsFile, stopFile, fileLock, started,
                 deaths>>

ClearFiles ==
  /\ operator.pc = "clear"
  /\ componentsFile' = NoProcess
  /\ supervisorFile' = NoSupervisor
  /\ stopFile' = FALSE
  /\ operator' \in {[operator EXCEPT !.pc = pc] : pc \in {"stopped", "restart"}}
  /\ UNCHANGED <<supervisor, fileLock, hosts, children, started, deaths>>

(* Run: the lock decides between supervisors that start at the same time.     *)
TakeFileLock(s) ==
  /\ supervisor[s].pc = "lock"
  /\ IF fileLock = NoSupervisor
     THEN fileLock' = s /\ supervisor' = [supervisor EXCEPT ![s].pc = "register"]
     ELSE EndsProcess(s)
  /\ UNCHANGED <<operator, supervisorFile, componentsFile, stopFile, hosts, children, started,
                 deaths>>

(* A stop requested before is forgotten ...                                   *)
RegisterSupervisor(s) ==
  /\ supervisor[s].pc = "register"
  /\ IF IsAlive(supervisorFile)
     THEN EndsProcess(s) /\ UNCHANGED <<supervisorFile, stopFile>>
     ELSE /\ supervisorFile' = NoSupervisor
          /\ stopFile' = FALSE
          /\ supervisor' = [supervisor EXCEPT ![s].pc = "announce"]
          /\ UNCHANGED fileLock
  /\ UNCHANGED <<operator, componentsFile, hosts, children, started, deaths>>

(* ... and the process registers: a stop between the two knows nobody to wait *)
(* for, and one that was forgotten may find it here.                          *)
AnnounceSupervisor(s) ==
  /\ supervisor[s].pc = "announce"
  /\ supervisorFile' = s
  /\ supervisor' = [supervisor EXCEPT ![s].pc = "boot", ![s].todo = Components]
  /\ UNCHANGED <<operator, componentsFile, stopFile, fileLock, hosts, children, started,
                 deaths>>

(* Start-Component: a host, and the program it runs.                          *)
StartsComponent ==
  /\ started < MaxStarts
  /\ started' = started + 1
  /\ hosts' = hosts \cup {started + 1}
  /\ children' = children \cup {started + 1}

(* The components one by one; the file is written when all have started.      *)
BootComponent(s, c) ==
  /\ supervisor[s].pc = "boot" /\ c \in supervisor[s].todo
  /\ StartsComponent
  /\ supervisor' = [supervisor EXCEPT ![s].held[c] = started', ![s].todo = @ \ {c}]
  /\ UNCHANGED <<operator, supervisorFile, componentsFile, stopFile, fileLock, deaths>>

(* Mutant of RecordComponents: only the first components are recorded.        *)
RecordAtBoot(s) ==
  /\ supervisor[s].pc \in {"boot", "replaced"} /\ supervisor[s].todo = {}
  /\ componentsFile' = IF supervisor[s].pc = "boot" THEN supervisor[s].held ELSE componentsFile
  /\ supervisor' = [supervisor EXCEPT ![s].pc = "watch"]
  /\ UNCHANGED <<operator, supervisorFile, stopFile, fileLock, hosts, children, started,
                 deaths>>

(* A supervisor that waited for the lock may overwrite the record of one that *)
(* a stop has just killed, before the stop reads it.                          *)
RecordComponents(s) ==
  /\ supervisor[s].pc \in {"boot", "replaced"} /\ supervisor[s].todo = {}
  /\ componentsFile' = supervisor[s].held
  /\ operator' = [operator EXCEPT !.orphans = IF operator.pc = "recorded"
                     THEN @ \cup ((OnRecord \cap children) \ HeldBy(s)) ELSE @]
  /\ supervisor' = [supervisor EXCEPT ![s].pc = "watch"]
  /\ UNCHANGED <<supervisorFile, stopFile, fileLock, hosts, children, started, deaths>>

HostIsGone(s, c) == supervisor[s].held[c] # 0 /\ supervisor[s].held[c] \notin hosts

(* The loop: a component whose host is gone waits for its restart, or has     *)
(* crashed too often and stays down.                                          *)
NoticeCrash(s, c) ==
  LET crashes == supervisor[s].crashes[c] + 1
  IN  /\ supervisor[s].pc = "watch" /\ HostIsGone(s, c)
      /\ IF crashes >= MaxCrashes
         THEN /\ supervisor' = [supervisor EXCEPT ![s].crashes[c] = crashes, ![s].held[c] = 0]
              /\ componentsFile' = [supervisor[s].held EXCEPT ![c] = 0]
         ELSE /\ supervisor' = [supervisor EXCEPT ![s].crashes[c] = crashes,
                                  ![s].pc = "backoff", ![s].todo = {c}]
              /\ componentsFile' = supervisor[s].held
      /\ UNCHANGED <<operator, supervisorFile, stopFile, fileLock, hosts, children, started,
                     deaths>>

(* The wait ends early when a stop is requested.                              *)
RestartComponent(s, c) ==
  /\ supervisor[s].pc = "backoff" /\ c \in supervisor[s].todo
  /\ \/ /\ ~ stopFile
        /\ StartsComponent
        /\ supervisor' = [supervisor EXCEPT ![s].held[c] = started', ![s].pc = "replaced",
                            ![s].todo = {}]
     \/ /\ stopFile
        /\ supervisor' = [supervisor EXCEPT ![s].pc = "watch", ![s].todo = {}]
        /\ UNCHANGED <<hosts, children, started>>
  /\ UNCHANGED <<operator, supervisorFile, componentsFile, stopFile, fileLock, deaths>>

(* A component that has run long enough is forgiven its crashes.              *)
ResetCrashes(s, c) ==
  /\ supervisor[s].pc = "watch" /\ supervisor[s].held[c] \in hosts
  /\ supervisor[s].crashes[c] > 0
  /\ supervisor' = [supervisor EXCEPT ![s].crashes[c] = 0]
  /\ componentsFile' = supervisor[s].held
  /\ UNCHANGED <<operator, supervisorFile, stopFile, fileLock, hosts, children, started,
                 deaths>>

SeeStop(s) ==
  /\ supervisor[s].pc = "watch" /\ stopFile
  /\ supervisor' = [supervisor EXCEPT ![s].pc = "stopping", ![s].todo = Components]
  /\ UNCHANGED <<operator, supervisorFile, componentsFile, stopFile, fileLock, hosts,
                 children, started, deaths>>

(* The finally: each component is stopped, then the files are cleared, and    *)
(* the lock goes with the process.                                            *)
StopComponent(s, c) ==
  /\ supervisor[s].pc = "stopping" /\ c \in supervisor[s].todo
  /\ Stopped({supervisor[s].held[c]})
  /\ supervisor' = [supervisor EXCEPT ![s].todo = @ \ {c}]
  /\ UNCHANGED <<operator, supervisorFile, componentsFile, stopFile, fileLock, started, deaths>>

FinishSupervisor(s) ==
  /\ supervisor[s].pc = "stopping" /\ supervisor[s].todo = {}
  /\ componentsFile' = NoProcess
  /\ supervisorFile' = NoSupervisor
  /\ stopFile' = FALSE
  /\ supervisor' = [supervisor EXCEPT ![s].pc = "unlock"]
  /\ UNCHANGED <<operator, fileLock, hosts, children, started, deaths>>

UnlockSupervisor(s) ==
  /\ supervisor[s].pc = "unlock"
  /\ EndsProcess(s)
  /\ UNCHANGED <<operator, supervisorFile, componentsFile, stopFile, hosts, children, started,
                 deaths>>

(* A program that ends takes its host with it.                                *)
ComponentCrashes(i) ==
  /\ i \in children
  /\ children' = children \ {i} /\ hosts' = hosts \ {i}
  /\ UNCHANGED <<operator, supervisor, supervisorFile, componentsFile, stopFile, fileLock,
                 started, deaths>>

Death == deaths < MaxDeaths /\ deaths' = deaths + 1

(* A host that dies leaves its program running; a supervisor that dies leaves *)
(* everything.                                                                *)
HostDies(i) ==
  /\ Death /\ i \in hosts
  /\ hosts' = hosts \ {i}
  /\ UNCHANGED <<operator, supervisor, supervisorFile, componentsFile, stopFile, fileLock,
                 children, started>>

SupervisorDies(s) ==
  /\ Death /\ IsAlive(s)
  /\ EndsProcess(s)
  /\ UNCHANGED <<operator, supervisorFile, componentsFile, stopFile, hosts, children, started>>

OperatorNext ==
  \/ \E s \in Supervisors : StartCommand(s)
  \/ StartRefused \/ StopCommand \/ FindSupervisor \/ WaitForSupervisor
  \/ StopRecorded \/ ClearFiles

SupervisorNext ==
  \/ OperatorNext
  \/ \E s \in Supervisors :
       \/ TakeFileLock(s) \/ RegisterSupervisor(s) \/ AnnounceSupervisor(s)
       \/ RecordComponents(s) \/ SeeStop(s)
       \/ FinishSupervisor(s) \/ UnlockSupervisor(s) \/ SupervisorDies(s)
       \/ \E c \in Components : \/ BootComponent(s, c) \/ NoticeCrash(s, c)
                                \/ RestartComponent(s, c) \/ ResetCrashes(s, c)
                                \/ StopComponent(s, c)
  \/ \E i \in 1 .. MaxStarts : ComponentCrashes(i) \/ HostDies(i)

SupervisorSpec == SupervisorInit /\ [][SupervisorNext]_supervisorVars
-----------------------------------------------------------------------------
SupervisorTypeOK ==
  /\ operator \in [pc : {"idle", "find", "wait", "recorded", "clear", "stopped", "restart"},
                   waits : Supervisors \cup {NoSupervisor}, orphans : SUBSET Nat]
  /\ supervisor \in [Supervisors ->
       [pc : {"off", "lock", "register", "announce", "boot", "watch", "backoff", "replaced",
              "stopping", "unlock"},
        held : [Components -> Nat], crashes : [Components -> Nat],
        todo : SUBSET Components]]
  /\ supervisorFile \in Supervisors \cup {NoSupervisor}
  /\ componentsFile \in [Components -> Nat]
  /\ stopFile \in BOOLEAN
  /\ fileLock \in Supervisors \cup {NoSupervisor}
  /\ hosts \subseteq Nat /\ children \subseteq Nat
  /\ started \in Nat /\ deaths \in Nat

(* No two supervisors look after programs at the same time, and none has the  *)
(* same program twice, whoever died or was killed (supervisor.ps1: the file   *)
(* lock is held until all components are stopped).                            *)
NothingHeldTwice ==
  \A s, r \in AliveSupervisors : \A c, d \in Components :
    LET i == supervisor[s].held[c]
        j == supervisor[r].held[d]
    IN  i \in children /\ j \in children => s = r /\ (i = j => c = d)

(* No program runs on its own: a supervisor that is alive looks after it, or  *)
(* the stop that killed its supervisor is about to find it recorded. But for  *)
(* deaths, the only programs that escape are those that the killed supervisor *)
(* had started since it last wrote its record, and those whose record the     *)
(* next supervisor overwrites first (supervisor.ps1: a component is started,  *)
(* and then written down; the stop kills, and then reads).                    *)
NothingRunsAlone ==
  deaths = 0 =>
    \A i \in children :
      \/ \E s \in AliveSupervisors : i \in HeldBy(s)
      \/ operator.pc = "recorded" /\ i \in OnRecord
      \/ i \in operator.orphans

(* When a stop is over and no supervisor is left, nothing runs but what the   *)
(* stop could not know of, even if it had to kill the supervisor half way. A  *)
(* supervisor that was still starting may not be seen by a stop, and goes on. *)
StopLeavesNothing ==
  operator.pc = "stopped" /\ AliveSupervisors = {} /\ deaths = 0
    => children \subseteq operator.orphans

(* Starting and stopping do what they are for: the three statements above.    *)
SupervisionHolds == NothingHeldTwice /\ NothingRunsAlone /\ StopLeavesNothing
=============================================================================
