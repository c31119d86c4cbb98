---------------------------- MODULE FinancialImport ----------------------------
(* Import of a conversion or commission CSV: packages/tracking/import. Each   *)
(* import inspects its file, takes the file's lock and its type's lock in     *)
(* Redis, refuses a file imported before, opens a job and writes the rows and *)
(* the job's outcome in one transaction. Imports run at the same time, may    *)
(* crash, and may lose their locks to the TTL.                                *)
EXTENDS Naturals, Sequences, FiniteSets, SequencesExt

CONSTANTS Imports,           \* runs of the command
          Files,
          FileType,          \* [Files -> {"CONVERSION", "COMMISSION"}]
          FileRows,          \* [Files -> Seq(Events)], without duplicates
          FileIssues,        \* files with invalid lines
          Events,            \* external event ids, of conversions and commissions
          ConversionOf,      \* [Events -> Events \cup {NoImport}]
          KnownEvents,       \* events recorded before
          NoImport,          \* no owner, no file, no conversion
          MaxLapses,         \* bound: locks that lapse under a live owner
          MaxImportFaults    \* bound: crashes, lost replies, failed writes

ImportTypes == {"CONVERSION", "COMMISSION"}
ImportKeys  == Files \cup ImportTypes

ASSUME ImportAssumption ==
  /\ FileType \in [Files -> ImportTypes]
  /\ FileRows \in [Files -> Seq(Events)]
  /\ \A f \in Files : \A m, n \in DOMAIN FileRows[f] : FileRows[f][m] = FileRows[f][n] => m = n
  /\ FileIssues \subseteq Files /\ KnownEvents \subseteq Events
  /\ ConversionOf \in [Events -> Events \cup {NoImport}]
  /\ NoImport \notin Imports \cup Files \cup Events
  /\ Files \cap ImportTypes = {}
  /\ MaxLapses \in Nat /\ MaxImportFaults \in Nat

VARIABLES importPc, importFile,
          importSeen,        \* events of the file the inspection found recorded
          importRow,         \* next row of the transaction
          importWritten,     \* entries the open transaction has inserted
          importKeys,        \* Redis: the owner of each lock
          importJobs,        \* status of the job of each import
          ledger,            \* recorded events: [event, conversion, import]
          importLost,        \* imports whose commit went through without a reply (history)
          importLapses, importFaults

importVars == <<importPc, importFile, importSeen, importRow, importWritten, importKeys,
                importJobs, ledger, importLost, importLapses, importFaults>>

Succeeded == {"SUCCEEDED", "SUCCEEDED_WITH_ERRORS"}
Recorded(entries) == {e.event : e \in entries}
RowsOf(i) == FileRows[importFile[i]]

ImportInit ==
  /\ importPc = [i \in Imports |-> "start"]
  /\ importFile = [i \in Imports |-> NoImport]
  /\ importSeen = [i \in Imports |-> {}]
  /\ importRow = [i \in Imports |-> 1]
  /\ importWritten = [i \in Imports |-> {}]
  /\ importKeys = [k \in ImportKeys |-> NoImport]
  /\ importJobs = [i \in Imports |-> "none"]
  /\ ledger = {[event |-> e, conversion |-> NoImport, import |-> NoImport] : e \in KnownEvents}
  /\ importLost = {}
  /\ importLapses = 0 /\ importFaults = 0

Goto(i, pc) == importPc' = [importPc EXCEPT ![i] = pc]

ImportFault == /\ importFaults < MaxImportFaults
               /\ importFaults' = importFaults + 1

(* Compare and delete: only keys that are still the import's own go.          *)
Freed(i, keys) ==
  [k \in ImportKeys |-> IF k \in keys /\ importKeys[k] = i THEN NoImport ELSE importKeys[k]]

OwnsLocks(i) == importKeys[importFile[i]] = i /\ importKeys[FileType[importFile[i]]] = i

(* inspectFinancialCsv: the events already recorded are looked up before any  *)
(* lock is taken. A dry run ends here.                                        *)
Inspect(i, f) ==
  /\ importPc[i] = "start"
  /\ importFile' = [importFile EXCEPT ![i] = f]
  /\ importSeen' = [importSeen EXCEPT ![i] = ToSet(FileRows[f]) \cap Recorded(ledger)]
  /\ Goto(i, "file") \/ Goto(i, "done")
  /\ UNCHANGED <<importRow, importWritten, importKeys, importJobs, ledger,
                 importLost, importLapses, importFaults>>

(* SET NX of the file's key, then of the type's. A reply that is lost leaves  *)
(* the key with a token nobody holds.                                         *)
AcquireFile(i) ==
  /\ importPc[i] = "file"
  /\ IF importKeys[importFile[i]] = NoImport
     THEN /\ importKeys' = [importKeys EXCEPT ![importFile[i]] = i]
          /\ \/ Goto(i, "type") /\ UNCHANGED importFaults
             \/ Goto(i, "done") /\ ImportFault
     ELSE Goto(i, "done") /\ UNCHANGED <<importKeys, importFaults>>
  /\ UNCHANGED <<importFile, importSeen, importRow, importWritten, importJobs, ledger,
                 importLost, importLapses>>

(* Without the type's lock the file's is given back.                          *)
AcquireType(i) ==
  LET type == FileType[importFile[i]]
  IN  /\ importPc[i] = "type"
      /\ \/ /\ importKeys[type] = NoImport
            /\ importKeys' = [importKeys EXCEPT ![type] = i]
            /\ Goto(i, "confirm") /\ UNCHANGED importFaults
         \/ /\ importKeys[type] # NoImport
            /\ importKeys' = Freed(i, {importFile[i]})
            /\ Goto(i, "done") /\ UNCHANGED importFaults
         \/ /\ importKeys[type] = NoImport
            /\ importKeys' = [Freed(i, {importFile[i]}) EXCEPT ![type] = i]
            /\ Goto(i, "done") /\ ImportFault
      /\ UNCHANGED <<importFile, importSeen, importRow, importWritten, importJobs,
                     ledger, importLost, importLapses>>

(* Both locks are extended; an owner that lost one gives up.                  *)
Confirm(i) ==
  /\ importPc[i] = "confirm"
  /\ Goto(i, IF OwnsLocks(i) THEN "previous" ELSE "release")
  /\ UNCHANGED <<importFile, importSeen, importRow, importWritten, importKeys,
                 importJobs, ledger, importLost, importLapses, importFaults>>

(* Mutant of ImportedBefore: an import with errors does not count.            *)
ImportedCleanly(f) == \E j \in Imports : importFile[j] = f /\ importJobs[j] = "SUCCEEDED"

ImportedBefore(f) == \E j \in Imports : importFile[j] = f /\ importJobs[j] \in Succeeded

(* The same bytes imported before: a DUPLICATE job records the attempt.       *)
FindPrevious(i) ==
  /\ importPc[i] = "previous"
  /\ IF ImportedBefore(importFile[i])
     THEN /\ importJobs' = [importJobs EXCEPT ![i] = "DUPLICATE"]
          /\ Goto(i, "release")
     ELSE Goto(i, "job") /\ UNCHANGED importJobs
  /\ UNCHANGED <<importFile, importSeen, importRow, importWritten, importKeys, ledger,
                 importLost, importLapses, importFaults>>

StartJob(i) ==
  /\ importPc[i] = "job"
  /\ importJobs' = [importJobs EXCEPT ![i] = "RUNNING"]
  /\ Goto(i, "rows")
  /\ UNCHANGED <<importFile, importSeen, importRow, importWritten, importKeys, ledger,
                 importLost, importLapses, importFaults>>

(* The conversion a commission is linked to, if it is recorded by now.        *)
LinkedTo(e) == IF ConversionOf[e] \in Recorded(ledger) THEN ConversionOf[e] ELSE NoImport

InsertedByOther(i, e) == \E j \in Imports \ {i} : e \in Recorded(importWritten[j])

(* One row of the transaction: the locks are extended, an event the           *)
(* inspection knew is skipped, another is inserted. The unique key makes the  *)
(* insert wait for an uncommitted one of the same event.                      *)
Row(i) ==
  /\ importPc[i] = "rows" /\ importRow[i] <= Len(RowsOf(i))
  /\ OwnsLocks(i)
  /\ LET e == RowsOf(i)[importRow[i]]
     IN  \/ /\ e \in importSeen[i]
            /\ UNCHANGED importWritten
         \/ /\ e \notin importSeen[i] \cup Recorded(ledger)
            /\ ~ InsertedByOther(i, e)
            /\ importWritten' = [importWritten EXCEPT ![i] = @ \cup
                 {[event |-> e, conversion |-> LinkedTo(e), import |-> i]}]
  /\ importRow' = [importRow EXCEPT ![i] = @ + 1]
  /\ UNCHANGED <<importPc, importFile, importSeen, importKeys, importJobs, ledger,
                 importLost, importLapses, importFaults>>

(* Mutant of TransactionFails: rows are written outside a transaction.        *)
TransactionFailsHalfWay(i) ==
  /\ importPc[i] = "rows"
  /\ importWritten' = [importWritten EXCEPT ![i] = {}]
  /\ ledger' = ledger \cup importWritten[i]
  /\ Goto(i, "failed")
  /\ UNCHANGED <<importFile, importSeen, importRow, importKeys, importJobs,
                 importLost, importLapses, importFaults>>

(* The transaction rolls back: a lock was lost, an event was recorded since   *)
(* the inspection, or the database gives up (its time limit, a deadlock).     *)
TransactionFails(i) ==
  /\ importPc[i] = "rows"
  /\ importWritten' = [importWritten EXCEPT ![i] = {}]
  /\ Goto(i, "failed")
  /\ UNCHANGED <<importFile, importSeen, importRow, importKeys, importJobs, ledger,
                 importLost, importLapses, importFaults>>

(* The job's outcome is part of the transaction. A commit whose reply is lost *)
(* goes to the catch like a failure.                                          *)
CommitImport(i) ==
  /\ importPc[i] = "rows" /\ importRow[i] > Len(RowsOf(i))
  /\ ledger' = ledger \cup importWritten[i]
  /\ importWritten' = [importWritten EXCEPT ![i] = {}]
  /\ importJobs' = [importJobs EXCEPT ![i] =
       IF importFile[i] \in FileIssues THEN "SUCCEEDED_WITH_ERRORS" ELSE "SUCCEEDED"]
  /\ \/ Goto(i, "release") /\ UNCHANGED <<importLost, importFaults>>
     \/ Goto(i, "failed") /\ ImportFault /\ importLost' = importLost \cup {i}
  /\ UNCHANGED <<importFile, importSeen, importRow, importKeys, importLapses>>

(* The catch writes FAILED outside the transaction, by the job's id alone:    *)
(* also over the outcome of a commit whose reply was lost. If that fails as   *)
(* well the job stays as it is.                                               *)
FailJob(i) ==
  /\ importPc[i] = "failed"
  /\ \/ /\ importJobs' = [importJobs EXCEPT ![i] = "FAILED"]
        /\ UNCHANGED importFaults
     \/ ImportFault /\ UNCHANGED importJobs
  /\ Goto(i, "release")
  /\ UNCHANGED <<importFile, importSeen, importRow, importWritten, importKeys, ledger,
                 importLost, importLapses>>

(* finally: the type's lock, then the file's; an error leaves the rest.       *)
ReleaseLocks(i) ==
  LET type == FileType[importFile[i]]
  IN  /\ importPc[i] = "release"
      /\ \/ importKeys' = Freed(i, {type, importFile[i]}) /\ UNCHANGED importFaults
         \/ importKeys' \in {importKeys, Freed(i, {type})} /\ ImportFault
      /\ Goto(i, "done")
      /\ UNCHANGED <<importFile, importSeen, importRow, importWritten, importJobs, ledger,
                     importLost, importLapses>>

(* A read or a write outside the transaction fails, or a write's reply is     *)
(* lost: the job it opened stays as it was opened.                            *)
StepFails(i) ==
  /\ importPc[i] \in {"confirm", "previous", "job"}
  /\ ImportFault
  /\ \/ UNCHANGED importJobs
     \/ /\ importPc[i] = "previous" /\ ImportedBefore(importFile[i])
        /\ importJobs' = [importJobs EXCEPT ![i] = "DUPLICATE"]
     \/ /\ importPc[i] = "job"
        /\ importJobs' = [importJobs EXCEPT ![i] = "RUNNING"]
  /\ Goto(i, "release")
  /\ UNCHANGED <<importFile, importSeen, importRow, importWritten, importKeys,
                 ledger, importLost, importLapses>>

ImportCrashes(i) ==
  /\ importPc[i] \notin {"start", "done"}
  /\ ImportFault
  /\ importWritten' = [importWritten EXCEPT ![i] = {}]
  /\ Goto(i, "done")
  /\ UNCHANGED <<importFile, importSeen, importRow, importKeys, importJobs, ledger,
                 importLost, importLapses>>

(* A key's TTL runs out. Of a command that ended it always may; under a live  *)
(* one it is counted.                                                         *)
KeyLapses(k) ==
  /\ importKeys[k] # NoImport
  /\ importKeys' = [importKeys EXCEPT ![k] = NoImport]
  /\ \/ importPc[importKeys[k]] = "done" /\ UNCHANGED importLapses
     \/ /\ importPc[importKeys[k]] # "done" /\ importLapses < MaxLapses
        /\ importLapses' = importLapses + 1
  /\ UNCHANGED <<importPc, importFile, importSeen, importRow, importWritten, importJobs,
                 ledger, importLost, importFaults>>

ImportStep(i) ==
  \/ AcquireFile(i) \/ AcquireType(i) \/ Confirm(i) \/ FindPrevious(i) \/ StartJob(i)
  \/ Row(i) \/ TransactionFails(i) \/ CommitImport(i) \/ FailJob(i) \/ ReleaseLocks(i)

ImportNext ==
  \/ \E i \in Imports : \/ \E f \in Files : Inspect(i, f)
                        \/ ImportStep(i) \/ StepFails(i) \/ ImportCrashes(i)
  \/ \E k \in ImportKeys : KeyLapses(k)

ImportSpec == ImportInit /\ [][ImportNext]_importVars
-----------------------------------------------------------------------------
Entries == [event : Events, conversion : Events \cup {NoImport},
            import : Imports \cup {NoImport}]

ImportTypeOK ==
  /\ importPc \in [Imports -> {"start", "file", "type", "confirm", "previous", "job",
                               "rows", "failed", "release", "done"}]
  /\ importFile \in [Imports -> Files \cup {NoImport}]
  /\ \A i \in Imports : importPc[i] # "start" => importFile[i] \in Files
  /\ importSeen \in [Imports -> SUBSET Events]
  /\ importRow \in [Imports -> Nat \ {0}]
  /\ importWritten \in [Imports -> SUBSET Entries]
  /\ importKeys \in [ImportKeys -> Imports \cup {NoImport}]
  /\ importJobs \in [Imports -> {"none", "RUNNING", "DUPLICATE", "FAILED"} \cup Succeeded]
  /\ ledger \subseteq Entries /\ importLost \subseteq Imports
  /\ importLapses \in Nat /\ importFaults \in Nat

(* The job's transaction went through: its outcome says so, or the catch      *)
(* wrote FAILED over it because the reply of the commit was lost.             *)
Committed(i) ==
  \/ importJobs[i] \in Succeeded
  \/ i \in importLost /\ importJobs[i] = "FAILED"

(* An import is all or nothing (import.ts: rows and outcome in a transaction).*)
(* Every recorded event was recorded once, by a job that committed, and every *)
(* row of a file whose job committed is recorded; a commission's conversion   *)
(* is. A job that says FAILED has left rows only if its commit's reply was    *)
(* lost, and then all of them.                                                *)
LedgerMatchesJobs ==
  /\ \A e \in ledger :
       /\ e.import # NoImport => /\ Committed(e.import)
                                 /\ e.event \in ToSet(RowsOf(e.import))
       /\ e.conversion # NoImport => e.conversion \in Recorded(ledger)
       /\ \A d \in ledger : d.event = e.event => d = e
  /\ \A i \in Imports : Committed(i) => ToSet(RowsOf(i)) \subseteq Recorded(ledger)

(* Two jobs of the same bytes stand as succeeded only if a lock lapsed under  *)
(* an owner (import.ts: the lookup of a previous job is guarded by the file's *)
(* lock, and so is the commit it looks for). A job that committed and says    *)
(* FAILED does not count: its file can be imported again, and nothing of it   *)
(* is recorded twice (LedgerMatchesJobs).                                     *)
FileImportedOnce ==
  \A i, j \in Imports :
    /\ i # j /\ importFile[i] = importFile[j]
    /\ importJobs[i] \in Succeeded /\ importJobs[j] \in Succeeded
    => importLapses > 0
=============================================================================
