---------------------------- MODULE ShopeeSchedule -----------------------------
(* The scheduled and the manual discovery of Shopee offers:                   *)
(* shopee-affiliate/scheduled-discovery, remote-discovery and the import of   *)
(* its result in operational. A tick looks whether a run is due, takes the    *)
(* discovery lock, looks again, declares a run left RUNNING abandoned, starts *)
(* a run, discovers and imports, and writes the outcome. The lock has a TTL   *)
(* that nothing extends: a slow run outlives it.                              *)
EXTENDS Naturals, Sequences, FiniteSets

CONSTANTS Schedulers,        \* workers that tick
          Operators,         \* runs of the manual command
          Crews,             \* which of them there are, chosen at the start
          Checksums,         \* what a discovery may find
          LockTtl,           \* SHOPEE_SCHEDULED_DISCOVERY_LOCK_TTL_MS
          ManualTtl,         \* TTL of the manual command
          Interval,          \* between scheduled runs
          NoTick,            \* no owner, no run
          MaxShopTime,       \* bound: time
          MaxRuns,           \* bound: runs started, and imports
          MaxShopFaults      \* bound: crashes and failed calls

ASSUME ShopAssumption ==
  /\ {LockTtl, ManualTtl, Interval, MaxShopTime, MaxRuns, MaxShopFaults} \subseteq Nat
  /\ LockTtl > 0 /\ ManualTtl > 0 /\ Interval > 0
  /\ Schedulers \cap Operators = {}
  /\ Crews \subseteq SUBSET (Schedulers \cup Operators)
  /\ NoTick \notin Schedulers \cup Operators \cup Nat

VARIABLES tick,              \* per process: the tick or command it executes
          discoveryRuns,     \* AutomationRun, in order of creation
          discoveryImports,  \* ImportJob of the Open API feed
          discoveryLock,     \* Redis: owner and expiry
          shopTime, shopFaults

shopVars == <<tick, discoveryRuns, discoveryImports, discoveryLock, shopTime, shopFaults>>

Discoverers == DOMAIN tick
TtlOf(p) == IF p \in Schedulers THEN LockTtl ELSE ManualTtl

NotTicking == [pc |-> "idle", now |-> 0, stale |-> NoTick, recovered |-> NoTick,
               run |-> NoTick, until |-> 0, checksum |-> NoTick, import |-> NoTick,
               outcome |-> "FAILED"]
FreeLock == [owner |-> NoTick, until |-> 0]

ShopInit ==
  /\ \E crew \in Crews : tick = [p \in crew |-> NotTicking]
  /\ discoveryRuns = <<>> /\ discoveryImports = <<>>
  /\ discoveryLock = FreeLock
  /\ shopTime = 0 /\ shopFaults = 0

ShopFault == /\ shopFaults < MaxShopFaults
             /\ shopFaults' = shopFaults + 1

Overran(p) == shopTime >= tick[p].until

(* The run that started last; no two start at the same time.                  *)
Latest ==
  LET later == {r \in DOMAIN discoveryRuns : \A s \in DOMAIN discoveryRuns :
                  discoveryRuns[s].startedAt <= discoveryRuns[r].startedAt}
  IN  IF later = {} THEN NoTick ELSE CHOOSE r \in later : \A s \in later : s <= r

(* A RUNNING run is stale once the lock it started under has passed its TTL;  *)
(* otherwise the next run is due an interval after the last.                  *)
Stale(now) ==
  /\ Latest # NoTick
  /\ discoveryRuns[Latest].status = "RUNNING"
  /\ now >= discoveryRuns[Latest].startedAt + LockTtl

(* Mutant of RunDue: a run that is RUNNING is waited for.                     *)
RunDueAfterLast(now) ==
  \/ Latest = NoTick
  \/ /\ Latest # NoTick /\ discoveryRuns[Latest].status # "RUNNING"
     /\ now >= discoveryRuns[Latest].startedAt + Interval

RunDue(now) ==
  \/ Latest = NoTick
  \/ Stale(now)
  \/ /\ Latest # NoTick /\ discoveryRuns[Latest].status # "RUNNING"
     /\ now >= discoveryRuns[Latest].startedAt + Interval

(* The first look; without a due run the tick ends with nothing changed.      *)
Look(p) ==
  /\ p \in Schedulers /\ tick[p].pc = "idle"
  /\ RunDue(shopTime)
  /\ tick' = [tick EXCEPT ![p] = [NotTicking EXCEPT
       !.pc = "lock", !.now = shopTime, !.stale = IF Stale(shopTime) THEN Latest ELSE NoTick]]
  /\ UNCHANGED <<discoveryRuns, discoveryImports, discoveryLock, shopTime, shopFaults>>

Command(p) ==
  /\ p \in Operators /\ tick[p].pc = "idle"
  /\ tick' = [tick EXCEPT ![p] = [NotTicking EXCEPT !.pc = "lock"]]
  /\ UNCHANGED <<discoveryRuns, discoveryImports, discoveryLock, shopTime, shopFaults>>

(* A worker ticks again; a command is over.                                   *)
Ended(p) == IF p \in Schedulers THEN NotTicking ELSE [NotTicking EXCEPT !.pc = "over"]
Stop(p) == tick' = [tick EXCEPT ![p] = Ended(p)]

(* SET NX PX; the delegated lock of a scheduled run is the same key.          *)
LockDiscovery(p) ==
  LET taken == [owner |-> p, until |-> shopTime + TtlOf(p)]
  IN  /\ tick[p].pc = "lock"
      /\ \/ /\ discoveryLock.until > shopTime
            /\ Stop(p) /\ UNCHANGED discoveryLock
         \/ /\ discoveryLock.until <= shopTime
            /\ discoveryLock' = taken
            /\ tick' = [tick EXCEPT ![p].until = taken.until,
                          ![p].pc = IF p \in Schedulers THEN "recheck" ELSE "discover"]
      /\ UNCHANGED <<discoveryRuns, discoveryImports, shopTime, shopFaults>>

(* The second look, under the lock but with the time of the first. A run that *)
(* looks stale only now, or another than the one seen, is left alone.         *)
Recheck(p) ==
  LET now == tick[p].now
  IN  /\ tick[p].pc = "recheck"
      /\ tick' = [tick EXCEPT ![p].pc =
           CASE Stale(now) -> IF tick[p].stale = Latest THEN "recover" ELSE "release"
             [] ~ Stale(now) /\ RunDue(now) -> "start"
             [] OTHER -> "release"]
      /\ UNCHANGED <<discoveryRuns, discoveryImports, discoveryLock, shopTime, shopFaults>>

(* Mutant of Recover: finishAbandoned by id, whatever the status.             *)
RecoverAnyway(p) ==
  /\ tick[p].pc = "recover"
  /\ discoveryRuns' = [discoveryRuns EXCEPT ![tick[p].stale].status = "ABANDONED"]
  /\ tick' = [tick EXCEPT ![p].pc = "start", ![p].recovered = tick[p].stale]
  /\ UNCHANGED <<discoveryImports, discoveryLock, shopTime, shopFaults>>

(* finishAbandoned: only a run that is still RUNNING.                         *)
Recover(p) ==
  LET r == tick[p].stale
  IN  /\ tick[p].pc = "recover"
      /\ IF discoveryRuns[r].status = "RUNNING"
         THEN /\ discoveryRuns' = [discoveryRuns EXCEPT ![r].status = "ABANDONED"]
              /\ tick' = [tick EXCEPT ![p].pc = "start", ![p].recovered = r]
         ELSE /\ tick' = [tick EXCEPT ![p].pc = "release"]
              /\ UNCHANGED discoveryRuns
      /\ UNCHANGED <<discoveryImports, discoveryLock, shopTime, shopFaults>>

(* The key of a run: its bucket of time and the run it recovers. A second run *)
(* of the same key, or one beyond the bound, is refused and the tick fails    *)
(* without a run.                                                             *)
StartRun(p) ==
  LET key == <<tick[p].now \div Interval, tick[p].recovered>>
  IN  /\ tick[p].pc = "start"
      /\ IF \/ Len(discoveryRuns) = MaxRuns
            \/ \E r \in DOMAIN discoveryRuns : discoveryRuns[r].key = key
         THEN /\ tick' = [tick EXCEPT ![p].pc = "release"]
              /\ UNCHANGED discoveryRuns
         ELSE /\ discoveryRuns' = Append(discoveryRuns,
                   [startedAt |-> tick[p].now, key |-> key, status |-> "RUNNING",
                    owner |-> p])
              /\ tick' = [tick EXCEPT ![p] =
                   [NotTicking EXCEPT !.pc = "discover", !.until = tick[p].until,
                                      !.run = Len(discoveryRuns) + 1]]
      /\ UNCHANGED <<discoveryImports, discoveryLock, shopTime, shopFaults>>

Conclude(p, outcome) ==
  [NotTicking EXCEPT !.run = tick[p].run, !.until = tick[p].until, !.outcome = outcome,
                     !.pc = IF p \in Schedulers THEN "finish" ELSE "release"]

(* prepareShopeeRemoteDiscovery: an incomplete catalogue (PARTIAL or FAILED)  *)
(* is not imported; a complete one has a checksum.                            *)
Discover(p) ==
  /\ tick[p].pc = "discover"
  /\ \/ tick' = [tick EXCEPT ![p] = Conclude(p, "FAILED")]
     \/ \E c \in Checksums :
          tick' = [tick EXCEPT ![p].pc = "import", ![p].checksum = c]
  /\ UNCHANGED <<discoveryRuns, discoveryImports, discoveryLock, shopTime, shopFaults>>

(* Mutant of FindImport: a duplicate is an outcome of the run.                *)
FindImportAsDuplicate(p) ==
  /\ tick[p].pc = "import"
  /\ tick' = [tick EXCEPT ![p] =
       IF \E i \in DOMAIN discoveryImports :
            /\ discoveryImports[i].checksum = tick[p].checksum
            /\ discoveryImports[i].status = "SUCCEEDED"
       THEN Conclude(p, "DUPLICATE")
       ELSE IF Len(discoveryImports) = MaxRuns THEN Conclude(p, "FAILED")
       ELSE [@ EXCEPT !.pc = "job"]]
  /\ UNCHANGED <<discoveryRuns, discoveryImports, discoveryLock, shopTime, shopFaults>>

(* persistShopeeOperationalWinners: a catalogue imported before is not        *)
(* imported again; the lookup and the new job are two statements.             *)
FindImport(p) ==
  /\ tick[p].pc = "import"
  /\ tick' = [tick EXCEPT ![p] =
       IF \E i \in DOMAIN discoveryImports :
            /\ discoveryImports[i].checksum = tick[p].checksum
            /\ discoveryImports[i].status = "SUCCEEDED"
       THEN Conclude(p, "SUCCEEDED")
       ELSE IF Len(discoveryImports) = MaxRuns THEN Conclude(p, "FAILED")
       ELSE [@ EXCEPT !.pc = "job"]]
  /\ UNCHANGED <<discoveryRuns, discoveryImports, discoveryLock, shopTime, shopFaults>>

StartImport(p) ==
  /\ tick[p].pc = "job"
  /\ discoveryImports' = Append(discoveryImports,
       [checksum |-> tick[p].checksum, status |-> "RUNNING", late |-> FALSE])
  /\ tick' = [tick EXCEPT ![p].pc = "persist", ![p].import = Len(discoveryImports) + 1]
  /\ UNCHANGED <<discoveryRuns, discoveryLock, shopTime, shopFaults>>

(* The winners are persisted one by one, failures are counted, and the job    *)
(* succeeds, with errors or without. Whether its lock was over by then is     *)
(* kept for the property.                                                     *)
FinishImport(p) ==
  /\ tick[p].pc = "persist"
  /\ discoveryImports' = [discoveryImports EXCEPT
       ![tick[p].import] = [@ EXCEPT !.status = "SUCCEEDED", !.late = Overran(p)]]
  /\ tick' = [tick EXCEPT ![p] = Conclude(p, "SUCCEEDED")]
  /\ UNCHANGED <<discoveryRuns, discoveryLock, shopTime, shopFaults>>

(* An outcome is written by id, whatever the run's status has become.         *)
WriteOutcome(p, outcome) ==
  discoveryRuns' = [discoveryRuns EXCEPT ![tick[p].run].status = outcome]

FinishRun(p) ==
  /\ tick[p].pc = "finish"
  /\ WriteOutcome(p, tick[p].outcome)
  /\ tick' = [tick EXCEPT ![p].pc = "release"]
  /\ UNCHANGED <<discoveryImports, discoveryLock, shopTime, shopFaults>>

(* The outcome is written and the reply is lost: to the tick that is an error *)
(* like any other, and its catch writes over what the database holds.         *)
FinishUnheard(p) ==
  /\ tick[p].pc = "finish"
  /\ ShopFault
  /\ WriteOutcome(p, tick[p].outcome)
  /\ tick' = [tick EXCEPT ![p].pc = "catch"]
  /\ UNCHANGED <<discoveryImports, discoveryLock, shopTime>>

(* The catch of a tick that has a run.                                        *)
FailRun(p) ==
  /\ tick[p].pc = "catch"
  /\ WriteOutcome(p, "FAILED")
  /\ tick' = [tick EXCEPT ![p].pc = "release"]
  /\ UNCHANGED <<discoveryImports, discoveryLock, shopTime, shopFaults>>

(* Mutant of ReleaseDiscovery: the key is deleted, whoever owns it.           *)
ReleaseAnyway(p) ==
  /\ tick[p].pc = "release"
  /\ discoveryLock' = FreeLock
  /\ Stop(p)
  /\ UNCHANGED <<discoveryRuns, discoveryImports, shopTime, shopFaults>>

(* The finally; the key is deleted only if it is the process's own.           *)
ReleaseDiscovery(p) ==
  /\ tick[p].pc = "release"
  /\ discoveryLock' = IF discoveryLock.owner = p THEN FreeLock ELSE discoveryLock
  /\ Stop(p)
  /\ UNCHANGED <<discoveryRuns, discoveryImports, shopTime, shopFaults>>

(* An error anywhere goes to the catch if a run was started, and to the       *)
(* finally if not; an error of the catch or of the release is swallowed, and  *)
(* the run or the key stays. The lost reply of another write than the outcome *)
(* leaves what an error of the step after it leaves.                          *)
DiscoveryFails(p) ==
  /\ tick[p].pc \notin {"idle", "lock", "over"}
  /\ ShopFault
  /\ tick' = [tick EXCEPT ![p] =
       IF tick[p].pc = "release" THEN Ended(p)
       ELSE [@ EXCEPT !.pc = IF tick[p].run # NoTick /\ tick[p].pc # "catch"
                             THEN "catch" ELSE "release"]]
  /\ UNCHANGED <<discoveryRuns, discoveryImports, discoveryLock, shopTime>>

(* The process dies and a new one takes its place.                            *)
DiscoveryCrashes(p) ==
  /\ tick[p].pc \notin {"idle", "over"}
  /\ ShopFault
  /\ Stop(p)
  /\ UNCHANGED <<discoveryRuns, discoveryImports, discoveryLock, shopTime>>

ShopTimePasses ==
  /\ shopTime < MaxShopTime
  /\ shopTime' = shopTime + 1
  /\ UNCHANGED <<tick, discoveryRuns, discoveryImports, discoveryLock, shopFaults>>

(* Beyond the bound of time the locks that are left expire.                   *)
LeasesEnd ==
  /\ shopTime = MaxShopTime
  /\ discoveryLock.until > MaxShopTime
  /\ discoveryLock' = FreeLock
  /\ tick' = [p \in Discoverers |-> [tick[p] EXCEPT !.until = 0]]
  /\ UNCHANGED <<discoveryRuns, discoveryImports, shopTime, shopFaults>>

DiscoveryStep(p) ==
  \/ Look(p) \/ LockDiscovery(p) \/ Recheck(p) \/ Recover(p) \/ StartRun(p)
  \/ Discover(p) \/ FindImport(p) \/ StartImport(p) \/ FinishImport(p) \/ FinishRun(p)
  \/ FailRun(p) \/ ReleaseDiscovery(p)

ShopNext ==
  \/ \E p \in Discoverers : \/ DiscoveryStep(p) \/ Command(p)
                            \/ FinishUnheard(p) \/ DiscoveryFails(p) \/ DiscoveryCrashes(p)
  \/ ShopTimePasses \/ LeasesEnd

ShopSpec == ShopInit /\ [][ShopNext]_shopVars
-----------------------------------------------------------------------------
Outcomes == {"SUCCEEDED", "FAILED"}

ShopTypeOK ==
  /\ DOMAIN tick \in Crews
  /\ tick \in [Discoverers ->
       [pc : {"idle", "lock", "recheck", "recover", "start", "discover", "import", "job",
              "persist", "finish", "catch", "release", "over"},
        now : Nat, stale : Nat \cup {NoTick}, recovered : Nat \cup {NoTick},
        run : Nat \cup {NoTick}, until : Nat, checksum : Checksums \cup {NoTick},
        import : Nat \cup {NoTick}, outcome : Outcomes]]
  /\ discoveryRuns \in Seq([startedAt : Nat, key : Nat \X (Nat \cup {NoTick}),
                            status : {"RUNNING", "ABANDONED"} \cup Outcomes,
                            owner : Schedulers])
  /\ discoveryImports \in Seq([checksum : Checksums, status : {"RUNNING", "SUCCEEDED"},
                               late : BOOLEAN])
  /\ discoveryLock \in [owner : Discoverers \cup {NoTick}, until : Nat]
  /\ shopTime \in Nat /\ shopFaults \in Nat

(* The same catalogue is imported twice only if one of the imports finished   *)
(* after its lock had expired (remote-discovery.ts: the lookup by checksum is *)
(* made under the lock of the discovery, and so is the import).               *)
ImportsRepeatOnlyLate ==
  \A i, j \in DOMAIN discoveryImports :
    /\ i # j /\ discoveryImports[i].checksum = discoveryImports[j].checksum
    /\ discoveryImports[i].status = "SUCCEEDED" /\ discoveryImports[j].status = "SUCCEEDED"
    => discoveryImports[i].late \/ discoveryImports[j].late

(* The outcome of a run stands, also the one a later tick gave it when it     *)
(* declared it abandoned. Two processes write over one, each over its own     *)
(* run's: one whose lock has expired, and one in its catch, which did not     *)
(* hear that its outcome was written and turns that outcome into FAILED       *)
(* (scheduled-discovery.ts: finish and the catch update by id,                *)
(* finishAbandoned only a run that is RUNNING).                               *)
Unheard(p, r) ==
  tick[p].pc = "catch" /\ discoveryRuns[r].status = tick[p].outcome

OutcomesStand ==
  [][\A r \in DOMAIN discoveryRuns :
       discoveryRuns[r].status \notin {"RUNNING", discoveryRuns'[r].status} =>
         \E p \in Discoverers : tick[p].run = r /\ (Overran(p) \/ Unheard(p, r))]_shopVars

(* The last run is RUNNING, and started early enough to be stale within the   *)
(* bound of time.                                                             *)
BehindRun(r) == /\ r \in DOMAIN discoveryRuns /\ r = Latest
                /\ discoveryRuns[r].status = "RUNNING"
                /\ discoveryRuns[r].startedAt + LockTtl <= MaxShopTime

(* A run that a crash leaves RUNNING does not stop the schedule: a later tick *)
(* declares it abandoned once its lock can no longer be held, or a run that   *)
(* overlapped it becomes the last one.                                        *)
ScheduleGoesOn == \A r \in 1 .. MaxRuns : BehindRun(r) ~> ~ BehindRun(r)
=============================================================================
