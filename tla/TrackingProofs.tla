----------------------------- MODULE TrackingProofs -----------------------------
(***************************************************************************)
(* Proofs about FinancialImport, ClickTracking and Attribution, and about  *)
(* WhatsAppPage, whose posts the clicks come from: for any imports, files, *)
(* events, visits, links and clicks, and any posts, groups and messages.   *)
(*                                                                         *)
(* The ledger is matched by what an open transaction has inserted (part 2) *)
(* and a file's second import is excluded by who owns the file's key while *)
(* an import is past it (part 3).  Visits count once (part 4), and what a  *)
(* conversion is attributed to follows from its clicks (part 5).           *)
(*                                                                         *)
(* Part 6 follows an errand on WhatsApp Web: what it may rely on of the    *)
(* page and the chats at each of its steps (GoodWith), whose each message  *)
(* is, and that what confirmed an errand is its own message or a rival.    *)
(***************************************************************************)
EXTENDS FinancialImport, Attribution, WhatsAppPage, FiniteSetTheorems, TLAPS

-----------------------------------------------------------------------------
\* Part 1: types.

LEMMA RowsType ==
    ASSUME ImportTypeOK, NEW i \in Imports, importPc[i] # "start"
    PROVE  /\ importFile[i] \in Files
           /\ RowsOf(i) \in Seq(Events)
           /\ FileType[importFile[i]] \in ImportTypes
BY ImportAssumption DEF ImportTypeOK, RowsOf

LEMMA FreedType ==
    ASSUME importKeys \in [ImportKeys -> Imports \cup {NoImport}], NEW i, NEW keys
    PROVE  Freed(i, keys) \in [ImportKeys -> Imports \cup {NoImport}]
BY DEF Freed

LEMMA ImportInitType == ImportInit => ImportTypeOK
BY ImportAssumption DEF ImportInit, ImportTypeOK, Entries, ImportKeys, Succeeded

LEMMA ImportTypeStep ==
    ASSUME ImportTypeOK, [ImportNext]_importVars
    PROVE  ImportTypeOK'
<1>1. CASE UNCHANGED importVars
  BY <1>1 DEF importVars, ImportTypeOK
<1>2. ASSUME NEW i \in Imports, NEW f \in Files, Inspect(i, f)
      PROVE  ImportTypeOK'
  <2>1. FileRows[f] \in Seq(Events)
    BY ImportAssumption
  <2>2. ToSet(FileRows[f]) \subseteq Events
    BY <2>1 DEF ToSet
  <2> QED
    BY <1>2, <2>2 DEF Inspect, Goto, ImportTypeOK
<1>3. ASSUME NEW i \in Imports, importPc[i] # "start",
             \/ AcquireFile(i) \/ AcquireType(i) \/ Confirm(i) \/ ReleaseLocks(i)
      PROVE  ImportTypeOK'
  <2>1. /\ importFile[i] \in ImportKeys /\ FileType[importFile[i]] \in ImportKeys
    BY <1>3, RowsType DEF ImportKeys
  <2>2. importKeys \in [ImportKeys -> Imports \cup {NoImport}]
    BY DEF ImportTypeOK
  <2>3. \A keys : Freed(i, keys) \in [ImportKeys -> Imports \cup {NoImport}]
    BY <2>2, FreedType
  <2>4. importKeys' \in [ImportKeys -> Imports \cup {NoImport}]
    <3>1. ASSUME AcquireFile(i) PROVE importKeys' \in [ImportKeys -> Imports \cup {NoImport}]
      BY <3>1, <2>1, <2>2 DEF AcquireFile
    <3>2. ASSUME AcquireType(i) PROVE importKeys' \in [ImportKeys -> Imports \cup {NoImport}]
      BY <3>2, <2>1, <2>2, <2>3 DEF AcquireType
    <3>3. ASSUME Confirm(i) \/ ReleaseLocks(i)
          PROVE  importKeys' \in [ImportKeys -> Imports \cup {NoImport}]
      BY <3>3, <2>2, <2>3 DEF Confirm, ReleaseLocks
    <3> QED
      BY <1>3, <3>1, <3>2, <3>3
  <2>5. /\ \E pc \in {"type", "done", "confirm", "previous", "release"} : Goto(i, pc)
        /\ importFaults' \in Nat
        /\ UNCHANGED <<importFile, importSeen, importRow, importWritten, importJobs, ledger,
                       importLost, importLapses>>
    BY <1>3 DEF AcquireFile, AcquireType, Confirm, ReleaseLocks, ImportFault, ImportTypeOK
  <2> QED
    BY <1>3, <2>4, <2>5 DEF Goto, ImportTypeOK
<1>4. ASSUME NEW i \in Imports,
             \/ FindPrevious(i) \/ StartJob(i) \/ FailJob(i) \/ StepFails(i)
      PROVE  ImportTypeOK'
  <2>1. /\ \E pc \in {"release", "job", "rows"} : Goto(i, pc)
        /\ importPc[i] # "start"
        /\ \/ UNCHANGED importJobs
           \/ \E status \in {"RUNNING", "DUPLICATE", "FAILED"} :
                importJobs' = [importJobs EXCEPT ![i] = status]
        /\ importFaults' \in Nat
        /\ UNCHANGED <<importFile, importSeen, importRow, importWritten, importKeys, ledger,
                       importLost, importLapses>>
    BY <1>4 DEF FindPrevious, StartJob, FailJob, StepFails, ImportFault, ImportTypeOK
  <2>2. importJobs' \in [Imports -> {"none", "RUNNING", "DUPLICATE", "FAILED"} \cup Succeeded]
    BY <2>1 DEF ImportTypeOK
  <2> QED
    BY <2>1, <2>2 DEF Goto, ImportTypeOK
<1>5. ASSUME NEW i \in Imports, Row(i)
      PROVE  ImportTypeOK'
  <2> DEFINE e == RowsOf(i)[importRow[i]]
  <2>1. e \in Events /\ importRow[i] \in Nat \ {0}
    <3>1. importRow[i] \in 1 .. Len(RowsOf(i)) /\ importPc[i] # "start"
      BY <1>5 DEF Row, ImportTypeOK
    <3> QED
      BY <3>1, RowsType DEF ImportTypeOK
  <2>2. [event |-> e, conversion |-> LinkedTo(e), import |-> i] \in Entries
    BY <2>1, ImportAssumption DEF LinkedTo, Entries
  <2> HIDE DEF e
  <2>3. importWritten' \in [Imports -> SUBSET Entries]
    BY <1>5, <2>2 DEF Row, ImportTypeOK, e
  <2>4. importRow' \in [Imports -> Nat \ {0}]
    BY <1>5, <2>1 DEF Row, ImportTypeOK
  <2> QED
    BY <1>5, <2>3, <2>4 DEF Row, ImportTypeOK
<1>6. ASSUME NEW i \in Imports, TransactionFails(i) \/ CommitImport(i) \/ ImportCrashes(i)
      PROVE  ImportTypeOK'
  <2>1. /\ \E pc \in {"failed", "release", "done"} : Goto(i, pc)
        /\ importPc[i] # "start"
        /\ importWritten' = [importWritten EXCEPT ![i] = {}]
        /\ ledger' \in {ledger, ledger \cup importWritten[i]}
        /\ importJobs' \in {importJobs, [importJobs EXCEPT ![i] = "SUCCEEDED_WITH_ERRORS"],
                            [importJobs EXCEPT ![i] = "SUCCEEDED"]}
        /\ importLost' \in {importLost, importLost \cup {i}}
        /\ importFaults' \in Nat
        /\ UNCHANGED <<importFile, importSeen, importRow, importKeys, importLapses>>
    BY <1>6 DEF TransactionFails, CommitImport, ImportCrashes, ImportFault, ImportTypeOK
  <2>2. /\ importJobs' \in [Imports -> {"none", "RUNNING", "DUPLICATE", "FAILED"} \cup Succeeded]
        /\ ledger' \subseteq Entries /\ importLost' \subseteq Imports
    BY <2>1 DEF ImportTypeOK, Succeeded
  <2>3. PICK pc \in {"failed", "release", "done"} : importPc' = [importPc EXCEPT ![i] = pc]
    BY <2>1 DEF Goto
  <2>4. /\ importPc' \in [Imports -> {"start", "file", "type", "confirm", "previous", "job",
                                      "rows", "failed", "release", "done"}]
        /\ \A j \in Imports : importPc'[j] # "start" => importFile[j] \in Files
    BY <2>1, <2>3 DEF ImportTypeOK
  <2> QED
    BY <2>1, <2>2, <2>4 DEF ImportTypeOK
<1>7. ASSUME NEW k \in ImportKeys, KeyLapses(k)
      PROVE  ImportTypeOK'
  BY <1>7 DEF KeyLapses, ImportTypeOK
<1>8. ASSUME NEW i \in Imports, ImportStep(i)
      PROVE  importPc[i] # "start"
  BY <1>8 DEF ImportStep, AcquireFile, AcquireType, Confirm, FindPrevious, StartJob, Row,
              TransactionFails, CommitImport, FailJob, ReleaseLocks
<1> QED
  BY <1>1, <1>2, <1>3, <1>4, <1>5, <1>6, <1>7, <1>8 DEF ImportNext, ImportStep

\* Every reachable state of the imports is well typed.
THEOREM ImportTypeCorrect == ImportSpec => []ImportTypeOK
BY ImportInitType, ImportTypeStep, PTL DEF ImportSpec

-----------------------------------------------------------------------------
\* Part 2: the ledger.

Before == {"start", "file", "type", "confirm", "previous", "job"}

\* What an open transaction has inserted.
TransactionOK(i) ==
  /\ importPc[i] \in Before => importRow[i] = 1
  /\ importWritten[i] # {} => importPc[i] = "rows"
  /\ \A e \in importWritten[i] :
       /\ e.import = i
       /\ e.event \notin Recorded(ledger)
       /\ e.conversion # NoImport => e.conversion \in Recorded(ledger)
       /\ \E k \in DOMAIN RowsOf(i) : k < importRow[i] /\ RowsOf(i)[k] = e.event
       /\ \A d \in importWritten[i] : d.event = e.event => d = e
  /\ importPc[i] = "rows" =>
       \A k \in DOMAIN RowsOf(i) : k < importRow[i] =>
         RowsOf(i)[k] \in Recorded(ledger) \cup Recorded(importWritten[i])
  /\ importSeen[i] \subseteq Recorded(ledger)
  /\ i \in importLost => Committed(i)
  /\ Committed(i) => \/ importPc[i] \in {"release", "done"}
                     \/ importPc[i] = "failed" /\ i \in importLost

\* No two open transactions have inserted the same event.
TransactionsApart ==
  \A i, j \in Imports : i # j => Recorded(importWritten[i]) \cap Recorded(importWritten[j]) = {}

LedgerInv ==
  /\ ImportTypeOK
  /\ LedgerMatchesJobs
  /\ \A i \in Imports : TransactionOK(i)
  /\ TransactionsApart

LEMMA LedgerInit == ImportInit => LedgerInv
<1> SUFFICES ASSUME ImportInit PROVE LedgerInv
  OBVIOUS
<1>1. \A i \in Imports : TransactionOK(i)
  BY DEF ImportInit, TransactionOK, Committed, Succeeded
<1>2. LedgerMatchesJobs
  BY DEF ImportInit, LedgerMatchesJobs, Committed, Succeeded
<1>3. TransactionsApart
  BY DEF ImportInit, TransactionsApart, Recorded
<1> QED
  BY <1>1, <1>2, <1>3, ImportInitType DEF LedgerInv

\* A step of import i that neither inserts nor commits.
Quiet(i) ==
  /\ UNCHANGED <<importFile, importSeen, importRow, ledger, importLost>>
  /\ \A j \in Imports \ {i} : /\ importPc'[j] = importPc[j]
                              /\ importJobs'[j] = importJobs[j]
                              /\ importWritten'[j] = importWritten[j]
  /\ importWritten'[i] = {}
  /\ importPc'[i] \in Before => importPc[i] \in Before
  /\ importPc'[i] = "rows" => importPc[i] = "job"
  /\ Committed(i)' <=> Committed(i)
  /\ Committed(i) => importPc'[i] \in {"release", "done"}

LEMMA QuietStep ==
    ASSUME LedgerInv, ImportTypeOK', NEW i \in Imports, Quiet(i)
    PROVE  LedgerInv'
<1> \A j \in Imports : Committed(j)' <=> Committed(j)
  BY DEF Quiet, Committed
<1>1. ASSUME NEW j \in Imports
      PROVE  TransactionOK(j)'
  <2>1. CASE j = i
    <3>1. importRow[i] \in Nat /\ TransactionOK(i)
      BY DEF LedgerInv, ImportTypeOK
    <3>2. importPc'[i] \in Before \cup {"rows"} => importRow'[i] = 1
      BY <3>1 DEF Quiet, TransactionOK, Before
    <3>3. ~ (1 < 1) /\ \A k \in DOMAIN RowsOf(i)' : k \in DOMAIN RowsOf(i)
      BY DEF Quiet, RowsOf
    <3>4. importPc'[i] = "rows" => \A k \in DOMAIN RowsOf(i)' : ~ (k < importRow'[i])
      <4> SUFFICES ASSUME importPc'[i] = "rows", NEW k \in DOMAIN RowsOf(i)'
                   PROVE  ~ (k < importRow'[i])
        OBVIOUS
      <4>1. importPc[i] # "start"
        BY DEF Quiet
      <4>2. k \in Nat \ {0}
        BY <4>1, RowsType DEF Quiet, RowsOf, LedgerInv
      <4> QED
        BY <3>2, <4>2
    <3> QED
      BY <2>1, <3>1, <3>2, <3>4 DEF Quiet, TransactionOK
  <2>2. CASE j # i
    BY <2>2 DEF LedgerInv, TransactionOK, Quiet, RowsOf, Recorded
  <2> QED
    BY <2>1, <2>2
<1>2. LedgerMatchesJobs'
  <2>1. \A j \in Imports : RowsOf(j)' = RowsOf(j)
    BY DEF Quiet, RowsOf
  <2>2. ledger \subseteq Entries /\ ledger' = ledger
    BY DEF Quiet, LedgerInv, ImportTypeOK
  <2> QED
    BY <2>1, <2>2 DEF LedgerInv, LedgerMatchesJobs, Recorded, Entries
<1>3. TransactionsApart'
  BY DEF Quiet, LedgerInv, TransactionsApart, Recorded
<1> QED
  BY <1>1, <1>2, <1>3 DEF LedgerInv

LEMMA InspectStep ==
    ASSUME LedgerInv, ImportTypeOK', NEW i \in Imports, NEW f \in Files, Inspect(i, f)
    PROVE  LedgerInv'
<1>1. /\ importPc[i] = "start" /\ importWritten[i] = {} /\ ~ Committed(i)
      /\ importRow[i] = 1
  BY DEF LedgerInv, TransactionOK, Inspect, Before
<1>2. /\ importSeen'[i] \subseteq Recorded(ledger)
      /\ importPc'[i] \in {"file", "done"}
      /\ \A j \in Imports \ {i} : /\ importSeen'[j] = importSeen[j]
                                  /\ importPc'[j] = importPc[j]
                                  /\ importFile'[j] = importFile[j]
      /\ UNCHANGED <<importRow, importWritten, importJobs, ledger, importLost>>
  BY DEF Inspect, Goto, LedgerInv, ImportTypeOK
<1> \A j \in Imports : Committed(j)' <=> Committed(j)
  BY <1>2 DEF Committed
<1>3. \A j \in Imports : TransactionOK(j)'
  BY <1>1, <1>2 DEF LedgerInv, TransactionOK, RowsOf, Recorded
<1>4. LedgerMatchesJobs'
  <2>1. ledger \subseteq Entries
    BY DEF LedgerInv, ImportTypeOK
  <2> QED
    BY <2>1, <1>1, <1>2 DEF LedgerInv, LedgerMatchesJobs, RowsOf, Recorded, Entries
<1>5. TransactionsApart'
  BY <1>2 DEF LedgerInv, TransactionsApart, Recorded
<1> QED
  BY <1>3, <1>4, <1>5 DEF LedgerInv

LEMMA RowStep ==
    ASSUME LedgerInv, ImportTypeOK', NEW i \in Imports, Row(i)
    PROVE  LedgerInv'
<1> DEFINE e   == RowsOf(i)[importRow[i]]
           new == [event |-> e, conversion |-> LinkedTo(e), import |-> i]
<1>1. /\ importPc[i] = "rows" /\ importRow[i] \in DOMAIN RowsOf(i)
      /\ RowsOf(i) \in Seq(Events) /\ importRow[i] \in Nat \ {0}
      /\ \A m, n \in DOMAIN RowsOf(i) : RowsOf(i)[m] = RowsOf(i)[n] => m = n
  BY RowsType, ImportAssumption DEF Row, LedgerInv, ImportTypeOK, RowsOf
<1>2. /\ UNCHANGED <<importPc, importFile, importSeen, importJobs, ledger, importLost>>
      /\ importRow'[i] = importRow[i] + 1
      /\ \A j \in Imports \ {i} : /\ importRow'[j] = importRow[j]
                                  /\ importWritten'[j] = importWritten[j]
  BY DEF Row, LedgerInv, ImportTypeOK
<1>3. /\ \A j \in Imports : RowsOf(j)' = RowsOf(j) /\ (Committed(j)' <=> Committed(j))
      /\ Recorded(ledger)' = Recorded(ledger)
  BY <1>2 DEF RowsOf, Recorded, Committed
<1>4. \/ /\ e \in importSeen[i]
         /\ importWritten'[i] = importWritten[i]
      \/ /\ e \notin Recorded(ledger)
         /\ \A j \in Imports \ {i} : e \notin Recorded(importWritten[j])
         /\ importWritten'[i] = importWritten[i] \cup {new}
  BY DEF Row, LedgerInv, ImportTypeOK, InsertedByOther
<1>5. new.event = e /\ new.import = i /\ new.conversion = LinkedTo(e)
  OBVIOUS
<1>6. LinkedTo(e) # NoImport => LinkedTo(e) \in Recorded(ledger)
  BY DEF LinkedTo
<1>7. TransactionOK(i)
  BY DEF LedgerInv
<1>8. e \notin Recorded(importWritten[i])
  BY <1>1, <1>7 DEF TransactionOK, Recorded
<1> HIDE DEF e, new
<1>9. TransactionOK(i)'
  <2>1. /\ importWritten'[i] # {} => importPc'[i] = "rows"
        /\ importPc'[i] \in Before => importRow'[i] = 1
        /\ importSeen'[i] \subseteq Recorded(ledger)'
        /\ i \in importLost' => Committed(i)'
        /\ Committed(i)' => \/ importPc'[i] \in {"release", "done"}
                            \/ importPc'[i] = "failed" /\ i \in importLost'
    BY <1>1, <1>2, <1>3, <1>7 DEF TransactionOK, Before
  <2>2. ASSUME NEW d \in importWritten'[i]
        PROVE  /\ d.import = i
               /\ d.event \notin Recorded(ledger)
               /\ d.conversion # NoImport => d.conversion \in Recorded(ledger)
               /\ \E k \in DOMAIN RowsOf(i) : k < importRow[i] + 1 /\ RowsOf(i)[k] = d.event
               /\ \A c \in importWritten'[i] : c.event = d.event => c = d
    <3>1. CASE d \in importWritten[i]
      <4>1. \E k \in DOMAIN RowsOf(i) : k < importRow[i] + 1 /\ RowsOf(i)[k] = d.event
        <5>1. PICK k \in DOMAIN RowsOf(i) : k < importRow[i] /\ RowsOf(i)[k] = d.event
          BY <3>1, <1>7 DEF TransactionOK
        <5> QED
          BY <5>1, <1>1
      <4>2. d.event # e
        BY <3>1, <1>8 DEF Recorded
      <4> QED
        BY <3>1, <4>1, <4>2, <1>4, <1>5, <1>7 DEF TransactionOK
    <3>2. CASE d \notin importWritten[i]
      <4>1. d = new /\ e \notin Recorded(ledger) /\ importWritten'[i] = importWritten[i] \cup {new}
        BY <3>2, <1>4
      <4>2. \E k \in DOMAIN RowsOf(i) : k < importRow[i] + 1 /\ RowsOf(i)[k] = e
        BY <1>1 DEF e
      <4>3. \A c \in importWritten[i] : c.event # e
        BY <1>8 DEF Recorded
      <4> QED
        BY <4>1, <4>2, <4>3, <1>5, <1>6
    <3> QED
      BY <3>1, <3>2
  <2>3. ASSUME NEW k \in DOMAIN RowsOf(i), k < importRow[i] + 1
        PROVE  RowsOf(i)[k] \in Recorded(ledger) \cup Recorded(importWritten'[i])
    <3>1. CASE k = importRow[i]
      <4>1. e \in importSeen[i] => e \in Recorded(ledger)
        BY <1>7 DEF TransactionOK
      <4>2. e \in Recorded({new})
        BY <1>5 DEF Recorded
      <4> QED
        BY <3>1, <4>1, <4>2, <1>4 DEF e, Recorded
    <3>2. CASE k # importRow[i]
      <4>1. k < importRow[i]
        BY <2>3, <3>2, <1>1
      <4>2. RowsOf(i)[k] \in Recorded(ledger) \cup Recorded(importWritten[i])
        BY <4>1, <1>1, <1>7 DEF TransactionOK
      <4>3. importWritten[i] \subseteq importWritten'[i]
        BY <1>4
      <4> QED
        BY <4>2, <4>3 DEF Recorded
    <3> QED
      BY <3>1, <3>2
  <2> QED
    BY <2>1, <2>2, <2>3, <1>2, <1>3 DEF TransactionOK, Recorded
<1>10. ASSUME NEW j \in Imports \ {i}
       PROVE  TransactionOK(j)'
  BY <1>2, <1>3 DEF LedgerInv, TransactionOK, Recorded
<1>11. LedgerMatchesJobs'
  <2>1. ledger \subseteq Entries
    BY DEF LedgerInv, ImportTypeOK
  <2> QED
    BY <2>1, <1>2, <1>3 DEF LedgerInv, LedgerMatchesJobs, Entries
<1>12. TransactionsApart'
  <2>1. \A j \in Imports \ {i} : Recorded(importWritten'[i]) \cap Recorded(importWritten[j]) = {}
    BY <1>4, <1>5 DEF LedgerInv, TransactionsApart, Recorded
  <2> QED
    BY <2>1, <1>2 DEF LedgerInv, TransactionsApart, Recorded
<1> QED
  BY <1>9, <1>10, <1>11, <1>12 DEF LedgerInv

LEMMA CommitStep ==
    ASSUME LedgerInv, ImportTypeOK', NEW i \in Imports, CommitImport(i)
    PROVE  LedgerInv'
<1>1. /\ UNCHANGED <<importFile, importSeen, importRow>>
      /\ importPc[i] = "rows" /\ importRow[i] > Len(RowsOf(i))
      /\ RowsOf(i) \in Seq(Events) /\ importRow[i] \in Nat
      /\ ledger' = ledger \cup importWritten[i]
      /\ importJobs'[i] \in Succeeded /\ importWritten'[i] = {}
      /\ \/ importPc'[i] = "release" /\ importLost' = importLost
         \/ importPc'[i] = "failed" /\ importLost' = importLost \cup {i}
      /\ \A j \in Imports \ {i} : /\ importPc'[j] = importPc[j]
                                  /\ importJobs'[j] = importJobs[j]
                                  /\ importWritten'[j] = importWritten[j]
  BY RowsType DEF CommitImport, Goto, LedgerInv, ImportTypeOK, Succeeded
<1>2. /\ \A j \in Imports : RowsOf(j)' = RowsOf(j)
      /\ Committed(i)' /\ \A j \in Imports \ {i} : Committed(j)' <=> Committed(j)
  BY <1>1 DEF RowsOf, Committed
<1>3. Recorded(ledger)' = Recorded(ledger) \cup Recorded(importWritten[i])
  BY <1>1 DEF Recorded
<1>4. TransactionOK(i)
  BY DEF LedgerInv
<1>5. ToSet(RowsOf(i)) \subseteq Recorded(ledger)'
  <2> SUFFICES ASSUME NEW k \in DOMAIN RowsOf(i)
               PROVE  RowsOf(i)[k] \in Recorded(ledger)'
    BY DEF ToSet
  <2>1. k < importRow[i]
    BY <1>1
  <2> QED
    BY <2>1, <1>1, <1>3, <1>4 DEF TransactionOK
<1>6. TransactionOK(i)'
  BY <1>1, <1>2, <1>3, <1>4 DEF TransactionOK, Before
<1>7. ASSUME NEW j \in Imports \ {i}
      PROVE  TransactionOK(j)'
  <2>1. TransactionOK(j)
    BY DEF LedgerInv
  <2>2. \A e \in importWritten[j] : e.event \notin Recorded(ledger)'
    <3>1. \A e \in importWritten[j] : /\ e.event \in Recorded(importWritten[j])
                                      /\ e.event \notin Recorded(ledger)
      BY <2>1 DEF TransactionOK, Recorded
    <3>2. Recorded(importWritten[i]) \cap Recorded(importWritten[j]) = {}
      BY DEF LedgerInv, TransactionsApart
    <3> QED
      BY <3>1, <3>2, <1>3
  <2>3. Recorded(ledger) \subseteq Recorded(ledger)'
    BY <1>3
  <2>4. Recorded(importWritten[j])' = Recorded(importWritten[j])
    BY <1>1 DEF Recorded
  <2>5. /\ importWritten'[j] = importWritten[j] /\ importPc'[j] = importPc[j]
        /\ importJobs'[j] = importJobs[j] /\ importRow'[j] = importRow[j]
        /\ importSeen'[j] = importSeen[j] /\ RowsOf(j)' = RowsOf(j)
    BY <1>1, <1>2
  <2>6. ASSUME NEW e \in importWritten'[j]
        PROVE  /\ e.import = j
               /\ e.event \notin Recorded(ledger)'
               /\ e.conversion # NoImport => e.conversion \in Recorded(ledger)'
               /\ \E k \in DOMAIN RowsOf(j)' : k < importRow'[j] /\ RowsOf(j)'[k] = e.event
               /\ \A d \in importWritten'[j] : d.event = e.event => d = e
    BY <2>1, <2>2, <2>3, <2>5 DEF TransactionOK
  <2>7. ASSUME importPc'[j] = "rows", NEW k \in DOMAIN RowsOf(j)', k < importRow'[j]
        PROVE  RowsOf(j)'[k] \in Recorded(ledger)' \cup Recorded(importWritten[j])'
    BY <2>1, <2>3, <2>4, <2>5, <2>7 DEF TransactionOK
  <2>8. /\ j \in importLost' => Committed(j)'
        /\ Committed(j)' => \/ importPc'[j] \in {"release", "done"}
                            \/ importPc'[j] = "failed" /\ j \in importLost'
    BY <2>1, <1>1, <1>2 DEF TransactionOK
  <2> QED
    BY <2>1, <2>3, <2>5, <2>6, <2>7, <2>8 DEF TransactionOK
<1>8. LedgerMatchesJobs'
  <2>1. ledger \subseteq Entries
    BY DEF LedgerInv, ImportTypeOK
  <2>2. \A j \in Imports : Committed(j) => Committed(j)'
    BY <1>2
  <2>3. ASSUME NEW e \in ledger'
        PROVE  /\ e.import # NoImport => /\ Committed(e.import)'
                                         /\ e.event \in ToSet(RowsOf(e.import))'
               /\ e.conversion # NoImport => e.conversion \in Recorded(ledger)'
               /\ \A d \in ledger' : d.event = e.event => d = e
    <3>1. CASE e \in ledger
      <4>1. /\ e.import # NoImport => e.import \in Imports
            /\ e.import # NoImport => /\ Committed(e.import)
                                      /\ e.event \in ToSet(RowsOf(e.import))
            /\ e.conversion # NoImport => e.conversion \in Recorded(ledger)
            /\ \A d \in ledger : d.event = e.event => d = e
        BY <3>1, <2>1 DEF LedgerInv, LedgerMatchesJobs, Entries
      <4>2. \A d \in importWritten[i] : d.event # e.event
        BY <3>1, <1>4 DEF TransactionOK, Recorded
      <4> QED
        BY <4>1, <4>2, <2>2, <1>1, <1>2, <1>3
    <3>2. CASE e \in importWritten[i]
      <4>1. /\ e.import = i
            /\ e.event \notin Recorded(ledger)
            /\ e.conversion # NoImport => e.conversion \in Recorded(ledger)
            /\ e.event \in ToSet(RowsOf(i))
            /\ \A d \in importWritten[i] : d.event = e.event => d = e
        BY <3>2, <1>4 DEF TransactionOK, ToSet
      <4>2. \A d \in ledger : d.event # e.event
        BY <4>1 DEF Recorded
      <4> QED
        BY <4>1, <4>2, <1>1, <1>2, <1>3
    <3> QED
      BY <3>1, <3>2, <1>1
  <2>4. ASSUME NEW j \in Imports, Committed(j)'
        PROVE  ToSet(RowsOf(j))' \subseteq Recorded(ledger)'
    BY <2>4, <1>1, <1>2, <1>3, <1>5 DEF LedgerInv, LedgerMatchesJobs
  <2> QED
    BY <2>3, <2>4 DEF LedgerMatchesJobs
<1>9. TransactionsApart'
  BY <1>1 DEF LedgerInv, TransactionsApart, Recorded
<1> QED
  BY <1>6, <1>7, <1>8, <1>9 DEF LedgerInv

LEMMA SameLedgerStep ==
    ASSUME LedgerInv, ImportTypeOK',
           UNCHANGED <<importPc, importFile, importSeen, importRow, importWritten, importJobs,
                       ledger, importLost>>
    PROVE  LedgerInv'
<1>1. /\ \A i : RowsOf(i)' = RowsOf(i)
      /\ Recorded(ledger)' = Recorded(ledger)
      /\ \A i : Recorded(importWritten[i])' = Recorded(importWritten[i])
      /\ \A i : Committed(i)' <=> Committed(i)
  BY DEF RowsOf, Recorded, Committed
<1>2. \A i \in Imports : TransactionOK(i)'
  BY <1>1 DEF LedgerInv, TransactionOK
<1>3. LedgerMatchesJobs'
  BY <1>1 DEF LedgerInv, LedgerMatchesJobs
<1>4. TransactionsApart'
  BY <1>1 DEF LedgerInv, TransactionsApart
<1> QED
  BY <1>2, <1>3, <1>4 DEF LedgerInv

LEMMA LedgerStep ==
    ASSUME LedgerInv, [ImportNext]_importVars
    PROVE  LedgerInv'
<1>1. ImportTypeOK /\ ImportTypeOK'
  BY ImportTypeStep DEF LedgerInv
<1>2. CASE UNCHANGED importVars
  BY <1>1, <1>2, SameLedgerStep DEF importVars
<1>3. ASSUME NEW i \in Imports,
             \/ AcquireFile(i) \/ AcquireType(i) \/ Confirm(i) \/ FindPrevious(i)
             \/ StartJob(i) \/ StepFails(i) \/ FailJob(i) \/ ReleaseLocks(i)
      PROVE  LedgerInv'
  <2>1. /\ UNCHANGED <<importFile, importSeen, importRow, importWritten, ledger, importLost>>
        /\ \A j \in Imports \ {i} : /\ importPc'[j] = importPc[j]
                                    /\ importJobs'[j] = importJobs[j]
        /\ importPc[i] \in (Before \ {"start"}) \cup {"failed", "release"}
        /\ importPc'[i] \in {"type", "done", "confirm", "previous", "release", "job", "rows"}
        /\ importPc'[i] \in Before => importPc[i] \in Before
        /\ importPc'[i] = "rows" => importPc[i] = "job"
        /\ importPc[i] = "release" => importPc'[i] = "done" /\ UNCHANGED importJobs
        /\ importPc[i] = "failed" => /\ importPc'[i] = "release"
                                      /\ importJobs'[i] \in {importJobs[i], "FAILED"}
        /\ importJobs'[i] \in {importJobs[i], "DUPLICATE", "RUNNING", "FAILED"}
    BY <1>1, <1>3 DEF AcquireFile, AcquireType, Confirm, FindPrevious, StartJob, StepFails,
                      FailJob, ReleaseLocks, Goto, ImportTypeOK, Before
  <2>2. /\ importWritten[i] = {}
        /\ Committed(i) => \/ importPc[i] = "release"
                           \/ importPc[i] = "failed" /\ i \in importLost
        /\ i \in importLost => Committed(i)
    BY <2>1 DEF LedgerInv, TransactionOK, Before
  <2>3. Committed(i)' <=> Committed(i)
    BY <2>1, <2>2 DEF Committed, Succeeded
  <2>4. Quiet(i)
    BY <2>1, <2>2, <2>3 DEF Quiet
  <2> QED
    BY <2>4, <1>1, QuietStep
<1>4. ASSUME NEW i \in Imports, TransactionFails(i) \/ ImportCrashes(i)
      PROVE  LedgerInv'
  <2>1. /\ UNCHANGED <<importFile, importSeen, importRow, importJobs, ledger, importLost>>
        /\ \A j \in Imports \ {i} : /\ importPc'[j] = importPc[j]
                                    /\ importWritten'[j] = importWritten[j]
        /\ importWritten'[i] = {}
        /\ \/ importPc'[i] = "done"
           \/ importPc[i] = "rows" /\ importPc'[i] = "failed"
    BY <1>1, <1>4 DEF TransactionFails, ImportCrashes, Goto, ImportTypeOK
  <2>2. Committed(i) => importPc[i] # "rows"
    BY DEF LedgerInv, TransactionOK
  <2>3. /\ importPc'[i] \notin Before /\ importPc'[i] # "rows"
        /\ Committed(i)' <=> Committed(i)
        /\ Committed(i) => importPc'[i] = "done"
    BY <2>1, <2>2 DEF Before, Committed
  <2>4. Quiet(i)
    BY <2>1, <2>3 DEF Quiet
  <2> QED
    BY <2>4, <1>1, QuietStep
<1>5. ASSUME NEW k \in ImportKeys, KeyLapses(k)
      PROVE  LedgerInv'
  BY <1>1, <1>5, SameLedgerStep DEF KeyLapses
<1> QED
  BY <1>1, <1>2, <1>3, <1>4, <1>5, InspectStep, RowStep, CommitStep DEF ImportNext, ImportStep

\* For any imports and files, in any order and with any crashes, lapsed locks and lost
\* replies: an import is all or nothing (and a job that says FAILED has left rows only if the
\* reply of its commit was lost), no event is recorded twice, and a commission's conversion
\* is recorded.
THEOREM LedgerCorrect == ImportSpec => []LedgerMatchesJobs
<1>1. LedgerInv => LedgerMatchesJobs
  BY DEF LedgerInv
<1> QED
  BY <1>1, LedgerInit, LedgerStep, PTL DEF ImportSpec

-----------------------------------------------------------------------------
\* Part 3: the second import of a file.

Guarded == {"type", "confirm", "previous", "job", "rows"}

\* While no lock lapses an import owns its file's key up to the end of its transaction, and
\* past the lookup no other import of the file has succeeded.
OnceInv ==
  importLapses = 0 =>
    /\ \A i \in Imports : importPc[i] \in Guarded => importKeys[importFile[i]] = i
    /\ \A i, j \in Imports :
         /\ i # j /\ importFile[i] = importFile[j]
         /\ importPc[i] \in {"job", "rows"}
         => importJobs[j] \notin Succeeded
    /\ FileImportedOnce

LEMMA OnceStep ==
    ASSUME LedgerInv, ImportTypeOK', OnceInv, [ImportNext]_importVars
    PROVE  OnceInv'
<1> SUFFICES ASSUME importLapses' = 0
             PROVE  /\ \A i \in Imports : importPc'[i] \in Guarded =>
                                            importKeys'[importFile'[i]] = i
                    /\ \A i, j \in Imports :
                         /\ i # j /\ importFile'[i] = importFile'[j]
                         /\ importPc'[i] \in {"job", "rows"}
                         => importJobs'[j] \notin Succeeded
                    /\ FileImportedOnce'
  BY DEF OnceInv
<1> DEFINE Goal == /\ \A i \in Imports : importPc'[i] \in Guarded =>
                                           importKeys'[importFile'[i]] = i
                   /\ \A i, j \in Imports :
                        /\ i # j /\ importFile'[i] = importFile'[j]
                        /\ importPc'[i] \in {"job", "rows"}
                        => importJobs'[j] \notin Succeeded
                   /\ FileImportedOnce'
<1>1. ImportTypeOK /\ importLapses \in Nat
  BY DEF LedgerInv, ImportTypeOK
<1>2. ASSUME importLapses = 0
      PROVE  /\ \A i \in Imports : importPc[i] \in Guarded => importKeys[importFile[i]] = i
             /\ \A i, j \in Imports :
                  /\ i # j /\ importFile[i] = importFile[j]
                  /\ importPc[i] \in {"job", "rows"}
                  => importJobs[j] \notin Succeeded
             /\ \A i, j \in Imports :
                  /\ i # j /\ importFile[i] = importFile[j]
                  => ~ (importJobs[i] \in Succeeded /\ importJobs[j] \in Succeeded)
  BY <1>2 DEF OnceInv, FileImportedOnce
<1>3. ASSUME \A i, j \in Imports :
               /\ i # j /\ importFile'[i] = importFile'[j]
               => ~ (importJobs'[i] \in Succeeded /\ importJobs'[j] \in Succeeded)
      PROVE  FileImportedOnce'
  BY <1>3 DEF FileImportedOnce
<1>4. CASE UNCHANGED importVars
  BY <1>2, <1>3, <1>4 DEF importVars
<1>5. ASSUME NEW i \in Imports, NEW f \in Files, Inspect(i, f)
      PROVE  Goal
  <2>1. /\ ~ Committed(i) /\ importJobs[i] \notin Succeeded /\ importPc'[i] \in {"file", "done"}
        /\ importLapses = 0
        /\ \A j \in Imports \ {i} : /\ importPc'[j] = importPc[j]
                                    /\ importFile'[j] = importFile[j]
        /\ UNCHANGED <<importKeys, importJobs>>
    BY <1>1, <1>5 DEF Inspect, Goto, LedgerInv, TransactionOK, ImportTypeOK, Committed
  <2> QED
    BY <2>1, <1>2, <1>3 DEF Guarded
<1>6. ASSUME NEW i \in Imports, AcquireFile(i) \/ AcquireType(i)
      PROVE  Goal
  <2>1. /\ importFile[i] \in Files /\ FileType[importFile[i]] \in ImportTypes
        /\ \A j \in Imports : importPc[j] # "start" => importFile[j] \in Files
        /\ importKeys \in [ImportKeys -> Imports \cup {NoImport}]
        /\ NoImport \notin Imports /\ Files \cap ImportTypes = {}
    BY <1>1, <1>6, RowsType, ImportAssumption DEF AcquireFile, AcquireType, ImportTypeOK
  <2>2. /\ UNCHANGED <<importFile, importJobs, importLapses>>
        /\ \A j \in Imports \ {i} : importPc'[j] = importPc[j]
        /\ importPc[i] \in {"file", "type"} /\ importPc'[i] \in {"type", "confirm", "done"}
    BY <1>1, <1>6 DEF AcquireFile, AcquireType, Goto, ImportTypeOK
  <2>3. ASSUME NEW j \in Imports, importPc'[j] \in Guarded
        PROVE  importKeys'[importFile'[j]] = j
    <3>1. CASE AcquireFile(i)
      BY <3>1, <2>1, <2>2, <2>3, <1>1, <1>2 DEF AcquireFile, Goto, Guarded, ImportKeys, ImportTypeOK
    <3>2. CASE AcquireType(i)
      <4>1. importPc[j] \in Guarded /\ importKeys[importFile[j]] = j /\ importFile[j] \in Files
        BY <3>2, <2>1, <2>2, <2>3, <1>2 DEF AcquireType, Guarded
      <4>2. CASE j = i
        BY <4>1, <4>2, <3>2, <2>1, <2>2, <2>3, <1>1 DEF AcquireType, Goto, Guarded, ImportKeys, ImportTypeOK
      <4>3. CASE j # i
        <5>1. /\ importFile[j] # FileType[importFile[i]]
              /\ importFile[j] \in ImportKeys /\ FileType[importFile[i]] \in ImportKeys
              /\ importKeys[importFile[j]] # i
          BY <4>1, <4>3, <2>1 DEF ImportKeys
        <5>2. \A keys : Freed(i, keys)[importFile[j]] = j
          BY <4>1, <5>1 DEF Freed
        <5>3. \A keys : Freed(i, keys) \in [ImportKeys -> Imports \cup {NoImport}]
          BY <2>1, FreedType
        <5> QED
          BY <4>1, <5>1, <5>2, <5>3, <3>2, <2>1, <2>2 DEF AcquireType
      <4> QED
        BY <4>2, <4>3
    <3> QED
      BY <1>6, <3>1, <3>2
  <2> QED
    BY <2>2, <2>3, <1>2, <1>3
<1>7. ASSUME NEW i \in Imports,
             \/ Confirm(i) \/ StartJob(i) \/ StepFails(i) \/ Row(i) \/ TransactionFails(i)
             \/ FailJob(i) \/ ReleaseLocks(i) \/ ImportCrashes(i) \/ FindPrevious(i)
      PROVE  Goal
  <2>1. /\ UNCHANGED <<importFile, importLapses>>
        /\ \A j \in Imports \ {i} : importPc'[j] = importPc[j]
        /\ importPc'[i] \in Guarded => importPc[i] \in Guarded /\ UNCHANGED importKeys
        /\ importPc'[i] \in {"job", "rows"} =>
             \/ importPc[i] \in {"job", "rows"}
             \/ ~ ImportedBefore(importFile[i])
        /\ \A j \in Imports : importJobs'[j] \in Succeeded => importJobs[j] \in Succeeded
        /\ \/ UNCHANGED importKeys
           \/ importPc[i] = "release" /\ \E keys : importKeys' = Freed(i, keys)
    BY <1>1, <1>7 DEF Confirm, StartJob, StepFails, Row, TransactionFails, FailJob,
         ReleaseLocks, ImportCrashes, FindPrevious, Goto, ImportTypeOK, Succeeded, Guarded
  <2>2. ASSUME NEW j \in Imports, importPc'[j] \in Guarded
        PROVE  importKeys'[importFile'[j]] = j
    <3>1. /\ importPc[j] \in Guarded /\ importKeys[importFile[j]] = j
          /\ importFile[j] \in ImportKeys
      BY <2>1, <2>2, <1>1, <1>2 DEF ImportTypeOK, Guarded, ImportKeys
    <3> QED
      BY <3>1, <2>1, <2>2 DEF Freed, Guarded
  <2>3. ASSUME NEW j \in Imports, NEW k \in Imports, j # k, importFile'[j] = importFile'[k],
               importPc'[j] \in {"job", "rows"}
        PROVE  importJobs'[k] \notin Succeeded
    BY <2>1, <2>3, <1>2 DEF ImportedBefore
  <2> QED
    BY <2>1, <2>2, <2>3, <1>2, <1>3
<1>8. ASSUME NEW i \in Imports, CommitImport(i)
      PROVE  Goal
  <2>1. /\ UNCHANGED <<importFile, importKeys, importLapses>>
        /\ importPc[i] = "rows" /\ importPc'[i] \in {"release", "failed"}
        /\ \A j \in Imports \ {i} : /\ importPc'[j] = importPc[j]
                                    /\ importJobs'[j] = importJobs[j]
    BY <1>1, <1>8 DEF CommitImport, Goto, ImportTypeOK
  <2>2. \A j \in Imports \ {i} : importFile[j] = importFile[i] =>
          importPc[j] \notin Guarded /\ importJobs[j] \notin Succeeded
    BY <2>1, <1>2 DEF Guarded
  <2> QED
    BY <2>1, <2>2, <1>2, <1>3 DEF Guarded
<1>9. ASSUME NEW k \in ImportKeys, KeyLapses(k)
      PROVE  Goal
  <2>1. /\ importLapses = 0 /\ importPc[importKeys[k]] = "done"
        /\ importKeys' = [importKeys EXCEPT ![k] = NoImport]
        /\ UNCHANGED <<importPc, importFile, importJobs>>
    BY <1>1, <1>9 DEF KeyLapses
  <2>2. ASSUME NEW i \in Imports, importPc[i] \in Guarded
        PROVE  importKeys'[importFile[i]] = i
    <3>1. importKeys[importFile[i]] = i /\ importFile[i] \in ImportKeys
      BY <2>1, <2>2, <1>1, <1>2 DEF ImportTypeOK, Guarded, ImportKeys
    <3> QED
      BY <3>1, <2>1, <2>2, <1>1 DEF ImportTypeOK, Guarded
  <2> QED
    BY <2>1, <2>2, <1>2, <1>3
<1> HIDE DEF Goal
<1>10. ASSUME ImportNext
       PROVE  Goal
  BY <1>5, <1>6, <1>7, <1>8, <1>9, <1>10 DEF ImportNext, ImportStep
<1> QED
  BY <1>4, <1>10 DEF Goal

\* As long as no lock lapses under its owner, at most one job of the same bytes stands as
\* succeeded, whoever imports, in any order and with any crashes, lost replies and failed
\* writes.
THEOREM FileImportedOnceCorrect == ImportSpec => []FileImportedOnce
<1>1. ImportInit => OnceInv
  BY DEF ImportInit, OnceInv, FileImportedOnce, Guarded, Succeeded
<1>2. LedgerInv /\ OnceInv /\ [ImportNext]_importVars => LedgerInv' /\ OnceInv'
  BY LedgerStep, OnceStep DEF LedgerInv
<1>3. LedgerInv /\ OnceInv => FileImportedOnce
  BY DEF LedgerInv, ImportTypeOK, OnceInv, FileImportedOnce
<1> QED
  BY <1>1, <1>2, <1>3, LedgerInit, PTL DEF ImportSpec

-----------------------------------------------------------------------------
\* Part 4: visits.

Clicks == [at : Nat, link : Links, offer : Offers, publication : Publications \cup {None},
           visitor : Visitors, window : Nat]
Visits == [pc : {"idle", "rate", "dedup", "store"}, visitor : Visitors \cup {None},
           link : Links \cup {None}, window : Nat]
Keys == Links \X Visitors \X Nat

LEMMA ClickTypesNamed ==
  ClickTypeOK <=>
    /\ clicks \in Seq(Clicks)
    /\ visit \in [Requests -> Visits]
    /\ \A r \in Requests : visit[r].pc # "idle" =>
         visit[r].link \in Links /\ visit[r].visitor \in Visitors
    /\ dedupKeys \subseteq Keys /\ unstored \subseteq Keys
    /\ trackingTime \in Nat /\ redisFaults \in Nat
BY DEF ClickTypeOK, Clicks, Visits, Keys

LEMMA IdleVisit == Idle \in Visits /\ Idle.pc = "idle"
BY DEF Idle, Visits

\* What an offer's click is credited to.
LEMMA CreditType ==
    ASSUME NEW o \in Offers
    PROVE  UnambiguousPublication(o) \in Publications \cup {None}
<1>1. PublicationsOf[o] \subseteq Publications
  BY ClickAssumption
<1>2. CASE Cardinality(PublicationsOf[o]) = 1
  <2>1. PublicationsOf[o] # {}
    BY <1>2, FS_EmptySet
  <2>2. (CHOOSE p \in PublicationsOf[o] : TRUE) \in PublicationsOf[o]
    BY <2>1
  <2> QED
    BY <1>1, <1>2, <2>2 DEF UnambiguousPublication
<1> QED
  BY <1>2 DEF UnambiguousPublication

LEMMA NewClick ==
    ASSUME NEW t \in Nat, NEW l \in Links, NEW v \in Visitors, NEW w \in Nat
    PROVE  Click(t, l, v, w) \in Clicks /\ SameClick(Click(t, l, v, w), l, v, w)
<1>1. OfferOf[l] \in Offers
  BY ClickAssumption
<1> QED
  BY <1>1, CreditType DEF Click, Clicks, SameClick

\* How a request that moves leaves the others.
Serves(r, new) ==
  /\ new \in Visits
  /\ new.pc # "idle" => new.link \in Links /\ new.visitor \in Visitors
  /\ visit' = [visit EXCEPT ![r] = new]

LEMMA ServesTypes ==
    ASSUME ClickTypeOK, NEW r \in Requests, NEW new, Serves(r, new)
    PROVE  /\ visit' \in [Requests -> Visits]
           /\ visit'[r] = new
           /\ \A s \in Requests : s # r => visit'[s] = visit[s]
           /\ \A s \in Requests : visit'[s].pc # "idle" =>
                visit'[s].link \in Links /\ visit'[s].visitor \in Visitors
<1>1. visit \in [Requests -> Visits]
  BY ClickTypesNamed
<1>2. /\ visit' \in [Requests -> Visits] /\ visit'[r] = new
      /\ \A s \in Requests : s # r => visit'[s] = visit[s]
  BY <1>1 DEF Serves
<1> QED
  BY <1>2, ClickTypesNamed DEF Serves

LEMMA RedirectServes ==
    ASSUME NEW r \in Requests, Redirected(r)
    PROVE  Serves(r, Idle)
BY IdleVisit DEF Redirected, Serves

LEMMA MovesOn ==
    ASSUME ClickTypeOK, NEW r \in Requests, visit[r].pc # "idle",
           NEW pc \in {"dedup", "store"}, visit' = [visit EXCEPT ![r].pc = pc]
    PROVE  \E new : /\ Serves(r, new) /\ new.pc = pc
                    /\ new.link = visit[r].link /\ new.visitor = visit[r].visitor
                    /\ new.window = visit[r].window
<1>1. visit \in [Requests -> Visits] /\ visit[r] \in Visits
  BY ClickTypesNamed
<1>2. PICK new : new = [visit[r] EXCEPT !.pc = pc]
  OBVIOUS
<1>3. /\ new \in Visits /\ new.pc = pc
      /\ new.link = visit[r].link /\ new.visitor = visit[r].visitor
      /\ new.window = visit[r].window
  BY <1>1, <1>2 DEF Visits
<1>4. visit' = [visit EXCEPT ![r] = new]
  BY <1>1, <1>2
<1>5. Serves(r, new)
  BY <1>3, <1>4, ClickTypesNamed DEF Serves
<1> QED
  BY <1>3, <1>5

\* What each step does, with types.
LEMMA VisitSteps ==
    ASSUME ClickTypeOK, NEW r \in Requests,
           \/ \E v \in Visitors, l \in Links : Open(r, v, l)
           \/ Limit(r) \/ Deduplicate(r) \/ Store(r) \/ RedirectUntracked(r)
    PROVE  \E new : Serves(r, new)
<1>1. ASSUME NEW v \in Visitors, NEW l \in Links, Open(r, v, l)
      PROVE  \E new : Serves(r, new)
  <2>1. PICK new : new = [pc |-> "rate", visitor |-> v, link |-> l, window |-> trackingTime]
    OBVIOUS
  <2>2. new \in Visits /\ new.link \in Links /\ new.visitor \in Visitors
    BY <2>1, ClickTypesNamed DEF Visits
  <2>3. Serves(r, new)
    BY <1>1, <2>1, <2>2 DEF Open, Serves
  <2> QED
    BY <2>3
<1>2. CASE Redirected(r)
  BY <1>2, RedirectServes
<1>3. CASE Limit(r) \/ Deduplicate(r)
  BY <1>2, <1>3, MovesOn DEF Limit, Deduplicate
<1>4. CASE Store(r) \/ RedirectUntracked(r)
  BY <1>2, <1>4 DEF Store, RedirectUntracked
<1> QED
  BY <1>1, <1>3, <1>4

LEMMA KeyType ==
    ASSUME ClickTypeOK, NEW r \in Requests, visit[r].pc # "idle"
    PROVE  KeyOf(r) \in Keys
<1>1. visit[r].window \in Nat /\ visit[r].link \in Links /\ visit[r].visitor \in Visitors
  BY ClickTypesNamed DEF Visits
<1> QED
  BY <1>1 DEF KeyOf, Keys

\* The click table gains at most the click of the visit, which is no repetition.
LEMMA StoredClick ==
    ASSUME ClickTypeOK, NEW r \in Requests, Store(r)
    PROVE  /\ \/ UNCHANGED clicks
              \/ \E c \in Clicks : /\ clicks' = Append(clicks, c)
                                   /\ SameClick(c, visit[r].link, visit[r].visitor,
                                                visit[r].window)
                                   /\ \A d \in ToSet(clicks) :
                                        ~ SameClick(d, visit[r].link, visit[r].visitor,
                                                    visit[r].window)
           /\ \E c \in ToSet(clicks') :
                SameClick(c, visit[r].link, visit[r].visitor, visit[r].window)
           /\ ToSet(clicks) \subseteq ToSet(clicks')
<1> DEFINE v == visit[r].visitor
           l == visit[r].link
           w == visit[r].window
<1>1. /\ w \in Nat /\ l \in Links /\ v \in Visitors
      /\ trackingTime \in Nat /\ clicks \in Seq(Clicks)
  BY ClickTypesNamed DEF Visits, Store
<1> HIDE DEF v, l, w
<1>2. PICK c : c = Click(trackingTime, l, v, w)
  OBVIOUS
<1>3. c \in Clicks /\ SameClick(c, l, v, w)
  BY <1>1, <1>2, NewClick
<1>4. clicks' = IF \E d \in ToSet(clicks) : SameClick(d, l, v, w) THEN clicks
                ELSE Append(clicks, c)
  BY <1>2 DEF Store, v, l, w
<1>5. CASE \E d \in ToSet(clicks) : SameClick(d, l, v, w)
  BY <1>4, <1>5 DEF v, l, w
<1>6. CASE ~ \E d \in ToSet(clicks) : SameClick(d, l, v, w)
  <2>1. clicks' = Append(clicks, c)
    BY <1>4, <1>6
  <2>2. ToSet(clicks') = ToSet(clicks) \cup {c}
    BY <1>1, <1>3, <2>1 DEF ToSet
  <2> QED
    BY <1>3, <1>6, <2>1, <2>2 DEF v, l, w
<1> QED
  BY <1>5, <1>6

LEMMA ClickTypeStep ==
    ASSUME ClickTypeOK, [ClickNext]_clickVars
    PROVE  ClickTypeOK'
<1>t. /\ clicks \in Seq(Clicks) /\ visit \in [Requests -> Visits]
      /\ \A r \in Requests : visit[r].pc # "idle" =>
           visit[r].link \in Links /\ visit[r].visitor \in Visitors
      /\ dedupKeys \subseteq Keys /\ unstored \subseteq Keys
      /\ trackingTime \in Nat /\ redisFaults \in Nat
  BY ClickTypesNamed
<1>n. ASSUME clicks' \in Seq(Clicks), visit' \in [Requests -> Visits],
             \A r \in Requests : visit'[r].pc # "idle" =>
               visit'[r].link \in Links /\ visit'[r].visitor \in Visitors,
             dedupKeys' \subseteq Keys, unstored' \subseteq Keys,
             trackingTime' \in Nat, redisFaults' \in Nat
      PROVE  ClickTypeOK'
  BY <1>n DEF ClickTypeOK, Clicks, Visits, Keys
<1>1. ASSUME NEW r \in Requests,
             \/ \E v \in Visitors, l \in Links : Open(r, v, l)
             \/ Limit(r) \/ Deduplicate(r) \/ Store(r) \/ RedirectUntracked(r)
      PROVE  ClickTypeOK'
  <2>1. /\ visit' \in [Requests -> Visits]
        /\ \A s \in Requests : visit'[s].pc # "idle" =>
             visit'[s].link \in Links /\ visit'[s].visitor \in Visitors
    BY <1>1, VisitSteps, ServesTypes
  <2>2. CASE (\E v \in Visitors, l \in Links : Open(r, v, l)) \/ Limit(r)
    BY <1>t, <1>n, <2>1, <2>2 DEF Open, Limit
  <2>3. CASE Deduplicate(r)
    BY <1>t, <1>n, <2>1, <2>3, KeyType DEF Deduplicate
  <2>4. CASE Store(r)
    <3>1. clicks' \in Seq(Clicks)
      BY <1>t, <2>4, StoredClick
    <3> QED
      BY <1>t, <1>n, <2>1, <2>4, <3>1 DEF Store
  <2>5. CASE RedirectUntracked(r)
    BY <1>t, <1>n, <2>1, <2>5, KeyType DEF RedirectUntracked
  <2> QED
    BY <1>1, <2>2, <2>3, <2>4, <2>5
<1>2. CASE WindowPasses \/ KeyExpires \/ RedisLosesKeys
  BY <1>t, <1>n, <1>2 DEF WindowPasses, KeyExpires, RedisLosesKeys
<1>3. CASE UNCHANGED clickVars
  BY <1>t, <1>n, <1>3 DEF clickVars
<1> QED
  BY <1>1, <1>2, <1>3 DEF ClickNext

LEMMA VisitsStep ==
    ASSUME ClickTypeOK, VisitsCountOnce, [ClickNext]_clickVars
    PROVE  VisitsCountOnce'
<1> DEFINE Once(t) == \A i, j \in 1 .. Len(t) :
                        SameClick(t[i], t[j].link, t[j].visitor, t[j].window) => i = j
           Stored(key) == \E c \in ToSet(clicks) : SameClick(c, key[1], key[2], key[3])
           Storing(key) == \E r \in Requests : visit[r].pc = "store" /\ KeyOf(r) = key
<1>t. /\ clicks \in Seq(Clicks) /\ visit \in [Requests -> Visits]
      /\ dedupKeys \subseteq Keys /\ unstored \subseteq Keys
  BY ClickTypesNamed
<1>i. /\ Once(clicks)
      /\ \A key \in dedupKeys \ unstored : Stored(key) \/ Storing(key)
  BY DEF VisitsCountOnce
<1>n. ASSUME Once(clicks'),
             \A key \in dedupKeys' \ unstored' : Stored(key)' \/ Storing(key)'
      PROVE  VisitsCountOnce'
  BY <1>n DEF VisitsCountOnce
<1>k. ASSUME NEW r \in Requests, NEW new, Serves(r, new), NEW key, Storing(key),
             visit[r].pc = "store" /\ KeyOf(r) = key => new = visit[r]
      PROVE  Storing(key)'
  <2>1. /\ visit'[r] = new /\ \A s \in Requests : s # r => visit'[s] = visit[s]
    BY <1>k, ServesTypes
  <2>2. PICK s \in Requests : visit[s].pc = "store" /\ KeyOf(s) = key
    BY <1>k
  <2>3. visit'[s] = visit[s]
    BY <1>k, <2>1, <2>2
  <2> QED
    BY <2>2, <2>3 DEF KeyOf
<1>1. ASSUME NEW r \in Requests, (\E v \in Visitors, l \in Links : Open(r, v, l)) \/ Limit(r)
      PROVE  VisitsCountOnce'
  <2>1. /\ UNCHANGED <<clicks, dedupKeys, unstored>> /\ visit[r].pc # "store"
    BY <1>1 DEF Open, Limit
  <2>2. \A key : Storing(key) => Storing(key)'
    BY <1>1, <1>k, <2>1, VisitSteps
  <2>3. \A key : Stored(key) => Stored(key)'
    BY <2>1
  <2> HIDE DEF Stored, Storing, Once
  <2> QED
    BY <1>i, <1>n, <2>1, <2>2, <2>3
<1>2. ASSUME NEW r \in Requests, Deduplicate(r)
      PROVE  VisitsCountOnce'
  <2>1. /\ UNCHANGED <<clicks, unstored>> /\ visit[r].pc = "dedup"
        /\ dedupKeys' = dedupKeys \cup {KeyOf(r)}
    BY <1>2 DEF Deduplicate
  <2>2. \A key : Storing(key) => Storing(key)'
    BY <1>2, <1>k, <2>1, VisitSteps
  <2>3. \A key : Stored(key) => Stored(key)'
    BY <2>1
  <2>k. PICK k : k = KeyOf(r)
    OBVIOUS
  <2>4. k \notin dedupKeys => Storing(k)'
    BY <1>2, <1>t, <2>1, <2>k DEF Deduplicate, KeyOf, Visits
  <2> HIDE DEF Stored, Storing, Once
  <2> QED
    BY <1>i, <1>n, <2>1, <2>2, <2>3, <2>4, <2>k
<1>3. ASSUME NEW r \in Requests, Store(r)
      PROVE  VisitsCountOnce'
  <2>1. /\ UNCHANGED <<dedupKeys, unstored>> /\ visit[r].pc = "store"
        /\ ToSet(clicks) \subseteq ToSet(clicks')
    BY <1>3, StoredClick DEF Store
  <2>k. PICK k : k = <<visit[r].link, visit[r].visitor, visit[r].window>>
    OBVIOUS
  <2>2. Stored(k)'
    BY <1>3, <2>k, StoredClick
  <2>3. \A key : Stored(key) => Stored(key)'
    BY <2>1
  <2>4. \A key : key # k /\ Storing(key) => Storing(key)'
    BY <1>3, <1>k, <2>k, VisitSteps DEF KeyOf
  <2>5. Once(clicks')
    <3>1. CASE UNCHANGED clicks
      BY <1>i, <3>1
    <3>2. ASSUME NEW c \in Clicks, clicks' = Append(clicks, c),
                 SameClick(c, visit[r].link, visit[r].visitor, visit[r].window),
                 \A d \in ToSet(clicks) :
                   ~ SameClick(d, visit[r].link, visit[r].visitor, visit[r].window)
          PROVE  Once(clicks')
      <4> DEFINE n == Len(clicks)
      <4>1. n \in Nat /\ Len(clicks') = n + 1 /\ clicks'[n + 1] = c
        BY <1>t, <3>2
      <4>2. \A i \in 1 .. n : clicks'[i] = clicks[i] /\ clicks[i] \in ToSet(clicks)
        BY <1>t, <3>2 DEF ToSet
      <4>3. ASSUME NEW i \in 1 .. n + 1, NEW j \in 1 .. n + 1,
                   SameClick(clicks'[i], clicks'[j].link, clicks'[j].visitor,
                             clicks'[j].window)
            PROVE  i = j
        <5>1. CASE i \in 1 .. n /\ j \in 1 .. n
          BY <1>i, <4>2, <4>3, <5>1
        <5>2. CASE i = n + 1 /\ j \in 1 .. n
          BY <3>2, <4>1, <4>2, <4>3, <5>2 DEF SameClick
        <5>3. CASE i \in 1 .. n /\ j = n + 1
          BY <3>2, <4>1, <4>2, <4>3, <5>3 DEF SameClick
        <5> QED
          BY <4>1, <5>1, <5>2, <5>3
      <4> QED
        BY <4>1, <4>3
    <3> HIDE DEF Once
    <3> QED
      BY <1>3, <3>1, <3>2, StoredClick
  <2> HIDE DEF Stored, Storing, Once
  <2> QED
    BY <1>i, <1>n, <2>1, <2>2, <2>3, <2>4, <2>5
<1>4. ASSUME NEW r \in Requests, RedirectUntracked(r)
      PROVE  VisitsCountOnce'
  <2>1. UNCHANGED <<clicks, dedupKeys>>
    BY <1>4 DEF RedirectUntracked
  <2>2. \A key : Stored(key) => Stored(key)'
    BY <2>1
  <2>3. ASSUME NEW key, Storing(key), ~ Storing(key)'
        PROVE  visit[r].pc = "store" /\ KeyOf(r) = key
    BY <1>4, <1>k, <2>3, VisitSteps
  <2>4. ASSUME NEW key \in dedupKeys \ unstored'
        PROVE  key \notin unstored /\ (visit[r].pc = "store" => key # KeyOf(r))
    BY <1>4, <1>t, <2>4 DEF RedirectUntracked
  <2> HIDE DEF Stored, Storing, Once
  <2> QED
    BY <1>i, <1>n, <2>1, <2>2, <2>3, <2>4
<1>5. CASE WindowPasses \/ KeyExpires \/ RedisLosesKeys
  <2>1. /\ UNCHANGED <<clicks, visit>>
        /\ dedupKeys' \ unstored' \subseteq dedupKeys \ unstored
    BY <1>5 DEF WindowPasses, KeyExpires, RedisLosesKeys
  <2>2. \A key : (Stored(key) => Stored(key)') /\ (Storing(key) => Storing(key)')
    BY <2>1 DEF KeyOf
  <2> HIDE DEF Stored, Storing, Once
  <2> QED
    BY <1>i, <1>n, <2>1, <2>2
<1>6. CASE UNCHANGED clickVars
  BY <1>6 DEF clickVars, VisitsCountOnce, KeyOf
<1> QED
  BY <1>1, <1>2, <1>3, <1>4, <1>5, <1>6 DEF ClickNext

LEMMA ClickInitHolds == ClickInit => ClickTypeOK /\ VisitsCountOnce
<1> SUFFICES ASSUME ClickInit PROVE ClickTypeOK /\ VisitsCountOnce
  OBVIOUS
<1>1. visit \in [Requests -> Visits] /\ \A r \in Requests : visit[r].pc = "idle"
  BY IdleVisit DEF ClickInit
<1>2. ClickTypeOK
  BY <1>1, ClickTypesNamed DEF ClickInit
<1>3. VisitsCountOnce
  BY DEF ClickInit, VisitsCountOnce
<1> QED
  BY <1>2, <1>3

LEMMA ClicksAlways == ClickSpec => [](ClickTypeOK /\ VisitsCountOnce)
BY ClickInitHolds, ClickTypeStep, VisitsStep, PTL DEF ClickSpec

(* The click table, the visits and the keys in Redis keep their types.        *)
THEOREM ClickTypeCorrect == ClickSpec => []ClickTypeOK
BY ClicksAlways, PTL

-----------------------------------------------------------------------------
\* Part 5: what a conversion is attributed to.

LEMMA OneOfMany ==
    ASSUME NEW S, IsFiniteSet(S), Cardinality(S) = 1
    PROVE  \E x : S = {x}
BY FS_Singleton

\* A set that is not one element and not empty has more than one.
LEMMA SeveralOrNone ==
    ASSUME NEW S, NEW T, IsFiniteSet(T), S \subseteq T, S # {}, Cardinality(S) # 1
    PROVE  Cardinality(T) > 1
<1>1. IsFiniteSet(S) /\ Cardinality(S) <= Cardinality(T)
  BY FS_Subset
<1>2. Cardinality(S) \in Nat /\ Cardinality(T) \in Nat /\ Cardinality(S) # 0
  BY <1>1, FS_CardinalityType, FS_EmptySet
<1> QED
  BY <1>1, <1>2

ClicksNumbered == IsFiniteSet(DOMAIN clicks) /\ DOMAIN clicks \subseteq Nat

\* Of clicks no more than the query returns, it returns all.
LEMMA AllAreCandidates ==
    ASSUME NEW refs, NEW at, ClicksNumbered,
           Cardinality(Found(refs, at)) <= CandidateLimit
    PROVE  Candidates(refs, at) = Found(refs, at)
<1>1. Found(refs, at) \subseteq DOMAIN clicks
  BY DEF Found
<1>2. PICK found : found = Found(refs, at)
  OBVIOUS
<1>3. IsFiniteSet(found) /\ found \subseteq Nat
  BY <1>1, <1>2, FS_Subset DEF ClicksNumbered
<1>4. ASSUME NEW c \in found
      PROVE  Cardinality({d \in found : d > c}) < CandidateLimit
  <2>1. PICK later : later = {d \in found : d > c}
    OBVIOUS
  <2>2. later \subseteq found /\ later # found
    BY <1>3, <2>1
  <2>3. IsFiniteSet(later) /\ Cardinality(later) <= Cardinality(found)
    BY <1>3, <2>2, FS_Subset
  <2>4. Cardinality(later) # Cardinality(found)
    <3>1. Cardinality(found) = Cardinality(later) => found = later
      BY <1>3, <2>2, FS_Subset, Zenon
    <3> QED
      BY <2>2, <3>1
  <2>5. Cardinality(later) \in Nat /\ Cardinality(found) \in Nat
    BY <1>3, <2>3, FS_CardinalityType
  <2> QED
    BY <1>2, <2>1, <2>3, <2>4, <2>5, AttributionAssumption
<1>5. Candidates(refs, at) = {c \in found : Cardinality({d \in found : d > c}) < CandidateLimit}
  BY <1>2 DEF Candidates
<1> QED
  BY <1>2, <1>4, <1>5

\* What a decision says of the clicks it was made from.
LEMMA UniqueIsExact ==
    ASSUME NEW S, NEW T, IsFiniteSet(T), S \subseteq T, S # {}, NEW m
    PROVE  LET u == Unique(S, m)
           IN  \/ S = {u.click} /\ u.method = m /\ u.status = "attributed"
               \/ u = NoClick("ambiguous") /\ Cardinality(T) > 1
<1>1. CASE Cardinality(S) = 1
  <2>1. PICK x : S = {x}
    BY <1>1, OneOfMany, FS_Subset
  <2> QED
    BY <1>1, <2>1 DEF Unique
<1>2. CASE Cardinality(S) # 1
  BY <1>2, SeveralOrNone DEF Unique
<1> QED
  BY <1>1, <1>2

LEMMA DecisionIsExact ==
    ASSUME NEW refs \in References, NEW at, ClicksNumbered,
           Cardinality(Found(refs, at)) <= CandidateLimit
    PROVE  LET decision == Decide(refs, at)
               resolved == [refs EXCEPT !.offer = ResolvedOffer(refs)]
               found    == Found(refs, at)
           IN  /\ refs.click \in found => decision.click = refs.click
               /\ decision.click # None /\ decision.method # "lastClick" =>
                    {c \in found : Answers(c, resolved, decision.method)} = {decision.click}
               /\ decision.status = "ambiguous" => Cardinality(found) > 1
               /\ decision.status = "noClick" => found = {}
<1> DEFINE decision == Decide(refs, at)
           Matches(resolved, m) == {c \in Found(refs, at) : Answers(c, resolved, m)}
<1>1. PICK resolved : resolved = [refs EXCEPT !.offer = ResolvedOffer(refs)]
  OBVIOUS
<1>2. PICK found : found = Found(refs, at)
  OBVIOUS
<1>3. Candidates(refs, at) = found /\ IsFiniteSet(found)
  <2>1. Found(refs, at) \subseteq DOMAIN clicks
    BY DEF Found
  <2> QED
    BY <1>2, <2>1, AllAreCandidates, FS_Subset DEF ClicksNumbered
<1>4. resolved.click = refs.click
  BY <1>1 DEF References
<1> DEFINE Matching(m) == {c \in found : Answers(c, resolved, m)}
           answered == {k \in DOMAIN Methods : Matching(Methods[k]) # {}}
           first == CHOOSE k \in answered : \A l \in answered : k <= l
<1>5. decision = IF answered # {} THEN Unique(Matching(Methods[first]), Methods[first])
                 ELSE IF found # {} THEN Unique(found, "lastClick")
                 ELSE NoClick("noClick")
  BY <1>1, <1>2, <1>3 DEF Decide
<1>6. DOMAIN Methods = 1 .. 5 /\ Methods[1] = "click"
  BY DEF Methods
<1>m. \A k \in 1 .. 5 : Methods[k] # "lastClick"
  BY DEF Methods
<1>7. refs.click \in found => Matching("click") = {refs.click}
  BY <1>4 DEF Answers
<1> HIDE DEF decision, Matching, first
<1>8. CASE answered # {}
  <2>1. \E k \in answered : \A l \in answered : k <= l
    <3>1. CASE 1 \in answered
      BY <1>6, <3>1
    <3>2. CASE 1 \notin answered /\ 2 \in answered
      BY <1>6, <3>2
    <3>3. CASE {1, 2} \cap answered = {} /\ 3 \in answered
      BY <1>6, <3>3
    <3>4. CASE {1, 2, 3} \cap answered = {} /\ 4 \in answered
      BY <1>6, <3>4
    <3>5. CASE answered = {5}
      BY <3>5
    <3> QED
      BY <1>6, <1>8, <3>1, <3>2, <3>3, <3>4, <3>5
  <2>2. first \in answered /\ \A l \in answered : first <= l
    BY <2>1 DEF first
  <2>3. PICK m : m = Methods[first]
    OBVIOUS
  <2>4. Matching(m) # {} /\ Matching(m) \subseteq found /\ m # "lastClick"
    BY <1>6, <1>m, <2>2, <2>3 DEF Matching
  <2>d. decision = Unique(Matching(m), m)
    BY <1>5, <1>8, <2>3
  <2>5. \/ Matching(m) = {decision.click} /\ decision.method = m /\ decision.status = "attributed"
        \/ decision = NoClick("ambiguous") /\ Cardinality(found) > 1
    <3>1. PICK S : S = Matching(m)
      OBVIOUS
    <3>2. decision = Unique(S, m) /\ S \subseteq found /\ S # {}
      BY <2>4, <2>d, <3>1
    <3> QED
      BY <1>3, <3>1, <3>2, UniqueIsExact
  <2>6. refs.click \in found => Matching(m) = {refs.click} /\ Cardinality(Matching(m)) = 1
    <3> SUFFICES ASSUME refs.click \in found PROVE Matching(m) = {refs.click}
      BY FS_Singleton
    <3>1. 1 \in answered
      BY <1>6, <1>7
    <3>2. first = 1
      BY <1>6, <2>2, <3>1
    <3> QED
      BY <1>6, <1>7, <2>3, <3>2
  <2>7. refs.click \in found => decision.click = refs.click
    <3>1. CASE decision = NoClick("ambiguous")
      <4>1. Cardinality(Matching(m)) = 1 => decision # NoClick("ambiguous")
        BY <2>d DEF Unique, NoClick
      <4> QED
        BY <2>6, <3>1, <4>1
    <3> QED
      BY <2>5, <2>6, <3>1
  <2>8. decision.click # None => Matching(decision.method) = {decision.click}
    BY <2>5 DEF NoClick
  <2>9. decision.status = "ambiguous" => Cardinality(found) > 1
    BY <2>5
  <2>10. decision.status # "noClick"
    BY <2>5 DEF NoClick
  <2> QED
    BY <1>1, <1>2, <2>7, <2>8, <2>9, <2>10 DEF decision, Matching
<1>9. CASE answered = {} /\ found # {}
  <2>1. refs.click \notin found
    BY <1>6, <1>7, <1>9
  <2>2. \/ found = {decision.click} /\ decision.method = "lastClick"
             /\ decision.status = "attributed"
        \/ decision = NoClick("ambiguous") /\ Cardinality(found) > 1
    BY <1>3, <1>5, <1>9, UniqueIsExact
  <2>3. /\ decision.click # None => decision.method = "lastClick"
        /\ decision.status = "ambiguous" => Cardinality(found) > 1
        /\ decision.status # "noClick"
    BY <2>2 DEF NoClick
  <2> QED
    BY <1>1, <1>2, <2>1, <2>3 DEF decision
<1>10. CASE answered = {} /\ found = {}
  <2>1. decision = NoClick("noClick")
    BY <1>5, <1>10
  <2>2. decision.click = None /\ decision.status = "noClick"
    BY <2>1 DEF NoClick
  <2> QED
    BY <1>1, <1>2, <1>10, <2>2 DEF decision
<1> QED
  BY <1>8, <1>9, <1>10

\* A table of clicks that the redirect route may have left.
LEMMA TablesAreClicks ==
    ASSUME clicks \in ClickTables
    PROVE  /\ ClicksNumbered
           /\ \A i, j \in 1 .. Len(clicks) :
                SameClick(clicks[i], clicks[j].link, clicks[j].visitor, clicks[j].window)
                  => i = j
<1> DEFINE rows == {Click(t, l, v, t) : t \in 0 .. MaxTime, l \in Links, v \in Visitors}
<1>1. /\ clicks \in UNION {[1 .. n -> rows] : n \in 0 .. MaxTable}
      /\ \A i, j \in DOMAIN clicks : i < j => clicks[i] # clicks[j]
  BY DEF ClickTables
<1>2. PICK n \in 0 .. MaxTable : clicks \in [1 .. n -> rows]
  BY <1>1
<1>3. n \in Nat
  BY <1>2, AttributionAssumption
<1>4. DOMAIN clicks = 1 .. n /\ Len(clicks) = n
  BY <1>2, <1>3
<1>5. ClicksNumbered
  BY <1>3, <1>4, FS_Interval DEF ClicksNumbered
<1>6. ASSUME NEW i \in 1 .. n, NEW j \in 1 .. n,
             SameClick(clicks[i], clicks[j].link, clicks[j].visitor, clicks[j].window)
      PROVE  i = j
  <2>1. clicks[i] \in rows /\ clicks[j] \in rows
    BY <1>2
  <2>2. PICK t \in 0 .. MaxTime, l \in Links, v \in Visitors : clicks[i] = Click(t, l, v, t)
    BY <2>1
  <2>3. PICK u \in 0 .. MaxTime, k \in Links, w \in Visitors : clicks[j] = Click(u, k, w, u)
    BY <2>1
  <2>4. t = u /\ l = k /\ v = w
    BY <1>6, <2>2, <2>3 DEF SameClick, Click
  <2>5. clicks[i] = clicks[j]
    BY <2>2, <2>3, <2>4
  <2> QED
    BY <1>1, <1>3, <1>4, <2>5
<1> QED
  BY <1>4, <1>5, <1>6

AttributionInv ==
  /\ ClicksNumbered
  /\ VisitsCountOnce
  /\ AttributionIsExact

LEMMA AttributionStarts == AttributionInit => AttributionInv
<1> SUFFICES ASSUME AttributionInit PROVE AttributionInv
  OBVIOUS
<1>1. VisitsCountOnce
  BY TablesAreClicks DEF AttributionInit, VisitsCountOnce
<1>2. AttributionIsExact
  BY DEF AttributionInit, AttributionIsExact
<1> QED
  BY <1>1, <1>2, TablesAreClicks DEF AttributionInv, AttributionInit

LEMMA AttributionStep ==
    ASSUME AttributionInv, [AttributionNext]_<<clickVars, conversion>>
    PROVE  AttributionInv'
<1>1. UNCHANGED <<clicks, visit, dedupKeys, unstored>>
  BY DEF AttributionNext, Attribute, clickVars
<1>2. ClicksNumbered'
  BY <1>1 DEF ClicksNumbered, AttributionInv
<1>3. VisitsCountOnce'
  BY <1>1 DEF VisitsCountOnce, AttributionInv, KeyOf
<1>4. \A r, t : Found(r, t)' = Found(r, t)
  BY <1>1 DEF Found, Answers
<1>5. \A r : ResolvedOffer(r)' = ResolvedOffer(r)
  BY DEF ResolvedOffer
<1>6. \A c, r, m : Answers(c, r, m)' = Answers(c, r, m)
  BY <1>1 DEF Answers
<1>7. ASSUME NEW refs \in References, NEW at, Attribute(refs, at)
      PROVE  AttributionIsExact'
  <2>1. PICK made : made = [refs |-> refs, at |-> at, decision |-> Decide(refs, at)]
    OBVIOUS
  <2>2. conversion' = <<made>> /\ conversion'[1] = made
    BY <1>7, <2>1 DEF Attribute
  <2>3. made.refs = refs /\ made.at = at /\ made.decision = Decide(refs, at)
    BY <2>1
  <2> QED
    BY <1>4, <1>5, <1>6, <2>2, <2>3, DecisionIsExact DEF AttributionIsExact, AttributionInv
<1>8. ASSUME UNCHANGED conversion
      PROVE  AttributionIsExact'
  BY <1>4, <1>5, <1>6, <1>8 DEF AttributionIsExact, AttributionInv
<1>9. ASSUME AttributionNext
      PROVE  AttributionIsExact'
  <2>1. PICK refs \in References, t \in 0 .. MaxTime : Attribute(refs, t)
    BY <1>9, Zenon DEF AttributionNext
  <2> QED
    BY <1>7, <2>1, Zenon
<1> QED
  BY <1>2, <1>3, <1>8, <1>9 DEF AttributionInv

(* A visitor's visits to a link within one window count once, whatever Redis  *)
(* forgets and whichever requests cross, and none is turned away for another  *)
(* that is neither stored nor about to be, but for failed inserts (route.ts). *)
THEOREM VisitsAreCountedOnce == ClickSpec => []VisitsCountOnce
BY ClicksAlways, PTL

(* A conversion is credited to the click that led to it, or to none, for any  *)
(* table of clicks, references and limit (packages/tracking/attribution.ts).  *)
THEOREM ConversionsAreCredited == AttributionSpec => []ClicksAreCredited
<1>1. AttributionInv => ClicksAreCredited
  BY DEF AttributionInv, ClicksAreCredited
<1> QED
  BY <1>1, AttributionStarts, AttributionStep, PTL DEF AttributionSpec

-----------------------------------------------------------------------------
\* Part 6 (WhatsAppPage): the errand, the page and the chats.

ErrandSteps == {"open", "media", "attach", "caption", "text", "persist", "validate", "revalidate",
                "baseline", "mark", "click", "record", "confirm", "inspect", "clear", "close", "done"}

Results == {"none", "READY", "FAILED", "PUBLISHED", "UNCERTAIN", "MATCH", "NO_MATCH"}

ErrandRow == [post : Posts, kind : ErrandKinds, pc : ErrandSteps, image : BOOLEAN, tries : Nat,
              result : Results, clickedAt : Nat, baseline : Seq(Messages),
              within : Groups \cup {NoGroup}, unloaded : Nat, upset : SUBSET {"list", "page"}]

PageRow == [group : Groups \cup {NoGroup}, text : Texts \cup {NoText}, image : BOOLEAN, unloaded : Nat]

\* The steps before anything can have been sent.
Unsent == ErrandSteps \ {"record", "confirm", "close", "done"}

Sending == {"persist", "revalidate", "baseline", "mark", "click", "record", "confirm"}

\* What was seen of a message then still holds, but for a state that was not settled.
SameMessage(old, new) ==
  /\ new.by = old.by /\ new.text = old.text /\ new.image = old.image /\ new.at = old.at
  /\ old.state = "SENT" => new.state = "SENT"

Continues(old, new) ==
  \A k \in DOMAIN old : k \in DOMAIN new /\ SameMessage(old[k], new[k])

PageTypes ==
  /\ chats \in [Groups -> Seq(Messages)]
  /\ drafts \in [Groups -> Texts \cup {NoText}]
  /\ page \in PageRow
  /\ errands \in Seq(ErrandRow)
  /\ pageTime \in Nat /\ pageFaults \in Nat

Untouched(e) == "page" \notin e.upset

\* What an errand e that is under way may rely on, of the page and the chats.
GoodWith(e, shown, sent) ==
  /\ e.pc \in {"open", "done"} => shown = NoPage
  /\ e.pc \notin {"open", "close", "done"} => shown.group \in Groups
  /\ ~e.image => ~shown.image
  /\ e.pc = "attach" => e.image
  /\ e.pc \notin {"clear", "close", "done"} => e.result = "none"
  /\ e.pc = "clear" => e.result \in {"READY", "FAILED"}
  /\ e.pc \in Sending => e.kind = "publish"
  /\ e.pc \in {"baseline", "mark", "click", "record", "confirm"} /\ Untouched(e) =>
       shown.group = GroupOf[e.post]
  /\ e.pc \in {"baseline", "mark", "click"} /\ Untouched(e) =>
       shown.text = TextOf[e.post] /\ shown.image = e.image
  /\ e.pc \in {"mark", "click", "record", "confirm"} /\ Untouched(e) =>
       /\ e.within = shown.group /\ Continues(e.baseline, sent[shown.group])
       /\ "list" \notin e.upset => e.unloaded = shown.unloaded

\* Whose a message is, and that nothing was sent before the click.
SendersKnown ==
  \A g \in Groups : \A k \in DOMAIN chats[g] :
    /\ chats[g][k].by \in 0 .. latest
    /\ errands # <<>> /\ errand.pc \in Unsent => chats[g][k].by # latest

Asked(e, g, m) ==
  /\ e.kind = "publish" /\ e.result \in {"none", "PUBLISHED", "UNCERTAIN"}
  /\ "page" \in e.upset \/ (g = GroupOf[e.post] /\ m.text = TextOf[e.post] /\ m.image = e.image)

AllAsAsked ==
  \A n \in DOMAIN errands : \A g \in Groups : \A k \in DOMAIN chats[g] :
    chats[g][k].by = n => Asked(errands[n], g, chats[g][k])

\* What confirms an errand is its own message, or a rival of it.
Ours(e, n, sent, shown) ==
  \/ "page" \in e.upset
  \/ \E k \in DOMAIN sent[GroupOf[e.post]] :
       \/ sent[GroupOf[e.post]][k].by = n
       \/ /\ HasUrl(sent[GroupOf[e.post]][k], e.post) /\ HasTitle(sent[GroupOf[e.post]][k], e.post)
          /\ "times" \in shown => sent[GroupOf[e.post]][k].at + TimeSlack >= e.clickedAt
          /\ \/ k \notin e.unloaded + 1 .. Len(e.baseline)
             \/ e.baseline[k].state # "SENT"
             \/ "ids" \notin shown /\ "list" \in e.upset

AllOurs ==
  \A n \in DOMAIN errands :
    errands[n].result = "PUBLISHED" => Ours(errands[n], n, chats, shows)

PostInv ==
  /\ PageTypes
  /\ errands = <<>> => page = NoPage
  /\ errands # <<>> => GoodWith(errand, page, chats)
  /\ \A n \in DOMAIN errands : n < latest => errands[n].pc = "done"
  /\ SendersKnown /\ AllAsAsked /\ AllOurs

-----------------------------------------------------------------------------
\* What a step has to do to keep the invariant.

LEMMA PageNumbers ==
  /\ GroupOf \in [Posts -> Groups] /\ TextOf \in [Posts -> Texts]
  /\ HasImage \in [Posts -> BOOLEAN] /\ NoText \notin Texts /\ NoGroup \notin Groups
  /\ TimeSlack \in Nat /\ MaxPageTime \in Nat
BY PageAssumption

LEMMA ErrandNow ==
    ASSUME PostInv, errands # <<>>
    PROVE  /\ latest \in Nat \ {0} /\ DOMAIN errands = 1 .. latest /\ latest \in DOMAIN errands
           /\ errand \in ErrandRow /\ errand = errands[latest]
           /\ GoodWith(errand, page, chats)
BY DEF PostInv, PageTypes, latest, errand

LEMMA ContinuesItself ==
    ASSUME NEW chat
    PROVE  Continues(chat, chat)
BY DEF Continues, SameMessage

LEMMA ContinuesFurther ==
    ASSUME NEW a, NEW b, NEW c, Continues(a, b), Continues(b, c)
    PROVE  Continues(a, c)
BY DEF Continues, SameMessage

\* How the row of the errand under way may go on: once something may have been
\* sent, what was asked and what is taken for confirmed stay.
GoesOn(old, new) ==
  /\ new.post = old.post /\ new.kind = old.kind
  /\ new.pc \in Unsent => old.pc \in Unsent
  /\ \/ old.pc \in Unsent
     \/ /\ new.image = old.image /\ old.upset \subseteq new.upset
        /\ new.result \in {old.result, "PUBLISHED", "UNCERTAIN"}
  /\ old.result = "PUBLISHED" =>
       /\ new.clickedAt = old.clickedAt /\ new.baseline = old.baseline
       /\ new.unloaded = old.unloaded /\ old.upset \subseteq new.upset

\* Nothing of what was sent goes, and what comes is not of an errand or as asked.
SendsOnly(e) ==
  /\ chats' \in [Groups -> Seq(Messages)]
  /\ \A g \in Groups : Continues(chats[g], chats'[g])
  /\ \A g \in Groups : \A k \in DOMAIN chats'[g] :
       \/ k \in DOMAIN chats[g] \/ chats'[g][k].by = 0
       \/ chats'[g][k].by = latest /\ e.pc \notin Unsent /\ Asked(e, g, chats'[g][k])

PageStays ==
  /\ drafts' \in [Groups -> Texts \cup {NoText}] /\ page' \in PageRow
  /\ pageTime' \in Nat /\ pageFaults' \in Nat /\ shows' = shows

LEMMA OursStay ==
    ASSUME PostInv, NEW e \in ErrandRow, NEW d \in ErrandRow, NEW n, Ours(e, n, chats, shows),
           NEW sent \in [Groups -> Seq(Messages)], \A g \in Groups : Continues(chats[g], sent[g]),
           d.post = e.post, d.clickedAt = e.clickedAt, d.baseline = e.baseline,
           d.unloaded = e.unloaded, e.upset \subseteq d.upset
    PROVE  Ours(d, n, sent, shows)
<1>1. GroupOf[e.post] \in Groups
  BY PageNumbers DEF ErrandRow
<1>2. CASE "page" \in e.upset
  BY <1>2 DEF Ours
<1>3. ASSUME NEW k \in DOMAIN chats[GroupOf[e.post]],
             \/ chats[GroupOf[e.post]][k].by = n
             \/ /\ HasUrl(chats[GroupOf[e.post]][k], e.post) /\ HasTitle(chats[GroupOf[e.post]][k], e.post)
                /\ "times" \in shows => chats[GroupOf[e.post]][k].at + TimeSlack >= e.clickedAt
                /\ \/ k \notin e.unloaded + 1 .. Len(e.baseline)
                   \/ e.baseline[k].state # "SENT"
                   \/ "ids" \notin shows /\ "list" \in e.upset
      PROVE  Ours(d, n, sent, shows)
  <2>1. /\ k \in DOMAIN sent[GroupOf[d.post]]
        /\ sent[GroupOf[d.post]][k].by = chats[GroupOf[e.post]][k].by
        /\ sent[GroupOf[d.post]][k].text = chats[GroupOf[e.post]][k].text
        /\ sent[GroupOf[d.post]][k].at = chats[GroupOf[e.post]][k].at
    BY <1>1, <1>3 DEF Continues, SameMessage
  <2> QED
    BY <1>3, <2>1 DEF Ours, HasUrl, HasTitle
<1> QED
  BY <1>2, <1>3 DEF Ours

LEMMA StepKeepsPostInv ==
    ASSUME PostInv, errands # <<>>, NEW e \in ErrandRow,
           errands' = [errands EXCEPT ![latest] = e],
           GoesOn(errand, e), SendsOnly(e), PageStays,
           GoodWith(e, page', chats'),
           e.result = "PUBLISHED" => errand.result = "PUBLISHED" \/ Ours(e, latest, chats, shows)
    PROVE  PostInv'
<1>0. /\ latest \in Nat \ {0} /\ DOMAIN errands = 1 .. latest /\ latest \in DOMAIN errands
      /\ errand \in ErrandRow /\ errand = errands[latest]
  BY ErrandNow
<1>1. /\ errands' \in Seq(ErrandRow) /\ errands' # <<>> /\ DOMAIN errands' = DOMAIN errands
      /\ errands'[latest] = e /\ \A n \in DOMAIN errands : n # latest => errands'[n] = errands[n]
      /\ Len(errands') = latest
  BY <1>0 DEF PostInv, PageTypes, latest
<1>2. latest' = latest /\ errand' = e
  BY <1>1 DEF latest, errand
<1>3. PageTypes'
  BY <1>1 DEF PageTypes, PageStays, SendsOnly
<1>4. \A n \in DOMAIN errands' : n < latest' => errands'[n].pc = "done"
  BY <1>0, <1>1, <1>2 DEF PostInv
<1>5. ASSUME NEW g \in Groups, NEW k \in DOMAIN chats'[g]
      PROVE  /\ chats'[g][k].by \in 0 .. latest
             /\ e.pc \in Unsent => chats'[g][k].by # latest
             /\ \A n \in DOMAIN errands : chats'[g][k].by = n => Asked(errands'[n], g, chats'[g][k])
  <2>1. CASE k \in DOMAIN chats[g]
    <3>1. SameMessage(chats[g][k], chats'[g][k])
      BY <1>5, <2>1 DEF SendsOnly, Continues
    <3>2. /\ chats[g][k].by \in 0 .. latest
          /\ errand.pc \in Unsent => chats[g][k].by # latest
          /\ \A n \in DOMAIN errands : chats[g][k].by = n => Asked(errands[n], g, chats[g][k])
      BY <1>0, <1>5, <2>1 DEF PostInv, SendersKnown, AllAsAsked
    <3>3. ASSUME NEW n \in DOMAIN errands, chats'[g][k].by = n
          PROVE  Asked(errands'[n], g, chats'[g][k])
      <4>1. Asked(errands[n], g, chats'[g][k])
        BY <3>1, <3>2, <3>3 DEF SameMessage, Asked
      <4>2. CASE n = latest
        BY <1>0, <1>1, <3>1, <3>2, <3>3, <4>1, <4>2 DEF SameMessage, GoesOn, Asked
      <4> QED
        BY <1>1, <4>1, <4>2
    <3> QED
      BY <3>1, <3>2, <3>3 DEF SameMessage, GoesOn
  <2>2. CASE k \notin DOMAIN chats[g]
    <3>1. \/ chats'[g][k].by = 0
          \/ chats'[g][k].by = latest /\ e.pc \notin Unsent /\ Asked(e, g, chats'[g][k])
      BY <1>5, <2>2 DEF SendsOnly
    <3> QED
      BY <1>0, <1>1, <3>1
  <2> QED
    BY <2>1, <2>2
<1>6. SendersKnown' /\ AllAsAsked'
  BY <1>1, <1>2, <1>5 DEF SendersKnown, AllAsAsked
<1>7. AllOurs'
  <2> SUFFICES ASSUME NEW n \in DOMAIN errands, errands'[n].result = "PUBLISHED"
               PROVE  Ours(errands'[n], n, chats', shows')
    BY <1>1 DEF AllOurs
  <2>1. chats' \in [Groups -> Seq(Messages)] /\ \A g \in Groups : Continues(chats[g], chats'[g])
    BY DEF SendsOnly
  <2>2. errands[n] \in ErrandRow /\ shows' = shows
    BY <1>0 DEF PostInv, PageTypes, PageStays
  <2>3. CASE n # latest
    <3>1. errands'[n] = errands[n] /\ Ours(errands[n], n, chats, shows)
      BY <1>1, <2>3 DEF PostInv, AllOurs
    <3>2. Ours(errands[n], n, chats', shows)
      BY <2>1, <2>2, <3>1, OursStay
    <3> QED
      BY <2>2, <3>1, <3>2
  <2>4. CASE n = latest /\ errand.result = "PUBLISHED"
    <3>1. Ours(errand, n, chats, shows)
      BY <1>0, <2>4 DEF PostInv, AllOurs
    <3>2. Ours(e, n, chats', shows)
      BY <1>0, <2>1, <2>4, <3>1, OursStay DEF GoesOn
    <3> QED
      BY <1>1, <2>2, <2>4, <3>2
  <2>5. CASE n = latest /\ errand.result # "PUBLISHED"
    <3>1. Ours(e, n, chats, shows)
      BY <1>1, <2>5
    <3>2. Ours(e, n, chats', shows)
      BY <2>1, <3>1, OursStay
    <3> QED
      BY <1>1, <2>2, <2>5, <3>2
  <2> QED
    BY <2>3, <2>4, <2>5
<1> QED
  BY <1>1, <1>2, <1>3, <1>4, <1>6, <1>7 DEF PostInv

-----------------------------------------------------------------------------
\* Steps that send nothing.

\* All but the step, the image and the result stays.
Turned(old, new, pc, image, result) ==
  /\ new \in ErrandRow /\ new.pc = pc /\ new.image = image /\ new.result = result
  /\ new.post = old.post /\ new.kind = old.kind /\ new.clickedAt = old.clickedAt
  /\ new.baseline = old.baseline /\ new.within = old.within /\ new.unloaded = old.unloaded
  /\ new.upset = old.upset

LEMMA RowsTurn ==
    ASSUME NEW old \in ErrandRow, NEW pc \in ErrandSteps, NEW result \in Results
    PROVE  /\ Turned(old, [old EXCEPT !.pc = pc], pc, old.image, old.result)
           /\ Turned(old, [old EXCEPT !.pc = pc, !.result = result], pc, old.image, result)
           /\ Turned(old, [old EXCEPT !.pc = pc, !.image = TRUE], pc, TRUE, old.result)
<1>1. PICK e : e = [old EXCEPT !.pc = pc]
  OBVIOUS
<1>2. Turned(old, e, pc, old.image, old.result)
  BY <1>1 DEF Turned, ErrandRow
<1>3. PICK f : f = [old EXCEPT !.pc = pc, !.result = result]
  OBVIOUS
<1>4. Turned(old, f, pc, old.image, result)
  BY <1>3 DEF Turned, ErrandRow
<1>5. PICK g : g = [old EXCEPT !.pc = pc, !.image = TRUE]
  OBVIOUS
<1>6. Turned(old, g, pc, TRUE, old.result)
  BY <1>5 DEF Turned, ErrandRow
<1> QED
  BY <1>1, <1>2, <1>3, <1>4, <1>5, <1>6

LEMMA QuietKeeps ==
    ASSUME PostInv, errands # <<>>, NEW e \in ErrandRow, errands' = [errands EXCEPT ![latest] = e],
           chats' = chats, PageStays, GoesOn(errand, e), GoodWith(e, page', chats),
           e.result # "PUBLISHED" \/ errand.result = "PUBLISHED"
    PROVE  PostInv'
<1>1. SendsOnly(e)
  BY ContinuesItself DEF PostInv, PageTypes, SendsOnly
<1> QED
  BY <1>1, StepKeepsPostInv

LEMMA FailKeeps ==
    ASSUME PostInv, errands # <<>>, Fail, chats' = chats, PageStays, errand.pc \in Unsent,
           page'.group \in Groups, ~errand.image => ~page'.image
    PROVE  PostInv'
<1>1. errand \in ErrandRow /\ errand.pc \notin {"close", "done"}
  BY ErrandNow DEF Unsent
<1>2. PICK e : e = [errand EXCEPT !.pc = "clear", !.result = "FAILED"]
  OBVIOUS
<1>3. Turned(errand, e, "clear", errand.image, "FAILED")
  BY <1>1, <1>2, RowsTurn DEF ErrandSteps, Results
<1>4. errand.result # "PUBLISHED"
  BY <1>1, ErrandNow DEF GoodWith
<1>5. e \in ErrandRow /\ GoesOn(errand, e) /\ e.result # "PUBLISHED"
  BY <1>3, <1>4 DEF Turned, GoesOn
<1>6. GoodWith(e, page', chats)
  BY <1>3 DEF Turned, GoodWith, Sending
<1>7. errands' = [errands EXCEPT ![latest] = e]
  BY <1>2 DEF Fail, Update
<1> QED
  BY <1>5, <1>6, <1>7, QuietKeeps

LEMMA FinishKeeps ==
    ASSUME PostInv, errands # <<>>, NEW result \in Results \ {"PUBLISHED"}, Finish(result),
           chats' = chats, PageStays, errand.pc \notin {"close", "done"},
           errand.pc \in Unsent \/ result = "UNCERTAIN", ~errand.image => ~page'.image
    PROVE  PostInv'
<1>1. errand \in ErrandRow /\ errand.pc \notin {"close", "done"}
  BY ErrandNow
<1>2. PICK e : e = [errand EXCEPT !.pc = "close", !.result = result]
  OBVIOUS
<1>3. Turned(errand, e, "close", errand.image, result)
  BY <1>1, <1>2, RowsTurn DEF ErrandSteps
<1>4. errand.result # "PUBLISHED"
  BY <1>1, ErrandNow DEF GoodWith
<1>5. e \in ErrandRow /\ GoesOn(errand, e) /\ e.result # "PUBLISHED"
  BY <1>3, <1>4 DEF Turned, GoesOn, Unsent
<1>6. GoodWith(e, page', chats)
  BY <1>3 DEF Turned, GoodWith, Sending
<1>7. errands' = [errands EXCEPT ![latest] = e]
  BY <1>2 DEF Finish, Update
<1> QED
  BY <1>5, <1>6, <1>7, QuietKeeps

\* A step to pc that changes nothing else of the row.
LEMMA AdvanceKeeps ==
    ASSUME PostInv, errands # <<>>, NEW pc \in ErrandSteps, Step(pc), chats' = chats, PageStays,
           pc \in Unsent => errand.pc \in Unsent,
           \A e \in ErrandRow : Turned(errand, e, pc, errand.image, errand.result)
                                  => GoodWith(e, page', chats)
    PROVE  PostInv'
<1>1. errand \in ErrandRow /\ errand.result \in Results
  BY ErrandNow DEF ErrandRow
<1>2. PICK e : e = [errand EXCEPT !.pc = pc]
  OBVIOUS
<1>3. Turned(errand, e, pc, errand.image, errand.result)
  BY <1>1, <1>2, RowsTurn
<1>4. e \in ErrandRow /\ GoesOn(errand, e) /\ GoodWith(e, page', chats)
  BY <1>3 DEF Turned, GoesOn
<1>5. e.result # "PUBLISHED" \/ errand.result = "PUBLISHED"
  BY <1>3 DEF Turned
<1>6. errands' = [errands EXCEPT ![latest] = e]
  BY <1>2 DEF Step, Update
<1> QED
  BY <1>4, <1>5, <1>6, QuietKeeps

LEMMA PageRows ==
  /\ NoPage \in PageRow /\ NoPage.group = NoGroup /\ NoPage.text = NoText /\ NoPage.image = FALSE
  /\ \A shown \in PageRow, g \in Groups, t \in Texts \cup {NoText}, i \in BOOLEAN, k \in Nat :
       /\ [shown EXCEPT !.group = g, !.text = t] \in PageRow
       /\ [shown EXCEPT !.text = t] \in PageRow /\ [shown EXCEPT !.image = i] \in PageRow
       /\ [shown EXCEPT !.text = t, !.image = i] \in PageRow
       /\ [shown EXCEPT !.unloaded = k] \in PageRow
BY DEF NoPage, PageRow

LEMMA StaysIf ==
    ASSUME PostInv, drafts' = drafts, pageFaults' = pageFaults, Calm, page' \in PageRow
    PROVE  PageStays
BY DEF PostInv, PageTypes, PageStays, Calm

LEMMA PageNow ==
    ASSUME PostInv
    PROVE  page \in PageRow /\ drafts \in [Groups -> Texts \cup {NoText}]
           /\ chats \in [Groups -> Seq(Messages)]
BY DEF PostInv, PageTypes

LEMMA OpenExactGroupKeeps ==
    ASSUME PostInv, OpenExactGroup
    PROVE  PostInv'
<1>1. errands # <<>> /\ errand.pc = "open" /\ errand \in ErrandRow /\ chats' = chats
      /\ GoodWith(errand, page, chats) /\ page = NoPage
  BY ErrandNow DEF OpenExactGroup, Under, GoodWith
<1>2. CASE Finish("FAILED") /\ UNCHANGED page
  <2>1. PageStays
    BY <1>2, StaysIf, PageNow DEF OpenExactGroup
  <2>2. "FAILED" \in Results \ {"PUBLISHED"} /\ errand.pc \in Unsent
        /\ errand.pc \notin {"close", "done"} /\ (~errand.image => ~page'.image)
    BY <1>1, <1>2 DEF Results, Unsent, ErrandSteps, GoodWith
  <2> QED
    BY <1>1, <1>2, <2>1, <2>2, FinishKeeps
<1>3. CASE /\ page' = [page EXCEPT !.group = GroupOf[errand.post],
                                   !.text = drafts[GroupOf[errand.post]]]
           /\ Step(IF errand.kind = "delivery" THEN "inspect" ELSE "media")
  <2>1. GroupOf[errand.post] \in Groups
    BY <1>1, PageNumbers DEF ErrandRow
  <2>2. page' \in PageRow
    BY <1>3, <2>1, PageRows, PageNow
  <2>3. page'.group \in Groups /\ page'.image = FALSE
    BY <1>1, <1>3, <2>1, PageNow DEF PageRow, NoPage
  <2>4. PageStays
    BY <2>2, StaysIf DEF OpenExactGroup
  <2>5. PICK pc \in {"inspect", "media"} : Step(pc)
    BY <1>3
  <2>6. \A e \in ErrandRow : Turned(errand, e, pc, errand.image, errand.result)
                               => GoodWith(e, page', chats)
    BY <1>1, <2>3 DEF Turned, GoodWith, Sending
  <2>7. pc \in ErrandSteps /\ (pc \in Unsent => errand.pc \in Unsent)
    BY <1>1 DEF ErrandSteps, Unsent
  <2> QED
    BY <1>1, <2>4, <2>5, <2>6, <2>7, AdvanceKeeps
<1> QED
  BY <1>2, <1>3 DEF OpenExactGroup

LEMMA PrepareMediaKeeps ==
    ASSUME PostInv, PrepareMedia
    PROVE  PostInv'
<1>1. errands # <<>> /\ errand.pc = "media" /\ errand \in ErrandRow /\ chats' = chats
      /\ GoodWith(errand, page, chats) /\ page' = page /\ PageStays
  BY ErrandNow, StaysIf, PageNow DEF PrepareMedia, Under
<1>2. page.group \in Groups /\ errand.result = "none"
      /\ (~errand.image => ~page.image)
  BY <1>1 DEF GoodWith
<1>3. CASE Step("text")
  <2>1. \A e \in ErrandRow : Turned(errand, e, "text", errand.image, errand.result)
                               => GoodWith(e, page', chats)
    BY <1>1, <1>2 DEF Turned, GoodWith, Sending
  <2>2. "text" \in ErrandSteps /\ errand.pc \in Unsent
    BY <1>1 DEF ErrandSteps, Unsent
  <2> QED
    BY <1>1, <1>3, <2>1, <2>2, AdvanceKeeps
<1>4. CASE Update([errand EXCEPT !.pc = "attach", !.image = TRUE])
  <2>1. PICK e : e = [errand EXCEPT !.pc = "attach", !.image = TRUE]
    OBVIOUS
  <2>2. Turned(errand, e, "attach", TRUE, "none")
    BY <1>1, <1>2, <2>1, RowsTurn DEF ErrandSteps, Results
  <2>3. GoodWith(e, page', chats)
    BY <1>1, <1>2, <2>2 DEF Turned, GoodWith, Sending
  <2>4. e \in ErrandRow /\ GoesOn(errand, e) /\ e.result # "PUBLISHED"
    BY <1>1, <1>2, <2>2 DEF Turned, GoesOn, Unsent, ErrandSteps
  <2>5. errands' = [errands EXCEPT ![latest] = e]
    BY <1>4, <2>1 DEF Update
  <2> QED
    BY <1>1, <2>3, <2>4, <2>5, QuietKeeps
<1>5. CASE Finish("FAILED")
  <2>1. "FAILED" \in Results \ {"PUBLISHED"} /\ errand.pc \in Unsent
        /\ errand.pc \notin {"close", "done"}
    BY <1>1 DEF Results, Unsent, ErrandSteps
  <2> QED
    BY <1>1, <1>2, <1>5, <2>1, FinishKeeps
<1> QED
  BY <1>3, <1>4, <1>5 DEF PrepareMedia

LEMMA AttachImageKeeps ==
    ASSUME PostInv, AttachImage
    PROVE  PostInv'
<1>1. errands # <<>> /\ errand.pc = "attach" /\ errand \in ErrandRow /\ chats' = chats
      /\ GoodWith(errand, page, chats)
  BY ErrandNow DEF AttachImage, Under
<1>2. page.group \in Groups /\ errand.result = "none" /\ errand.image
  BY <1>1 DEF GoodWith
<1>3. PICK i \in BOOLEAN : page' = [page EXCEPT !.image = i]
  BY DEF AttachImage
<1>4. page' \in PageRow /\ page'.group = page.group
  BY <1>3, PageNow DEF PageRow
<1>5. PageStays
  BY <1>4, StaysIf DEF AttachImage
<1>6. CASE Step("caption")
  <2>1. \A e \in ErrandRow : Turned(errand, e, "caption", errand.image, errand.result)
                               => GoodWith(e, page', chats)
    BY <1>1, <1>2, <1>4 DEF Turned, GoodWith, Sending
  <2>2. "caption" \in ErrandSteps /\ errand.pc \in Unsent
    BY <1>1 DEF ErrandSteps, Unsent
  <2> QED
    BY <1>1, <1>5, <1>6, <2>1, <2>2, AdvanceKeeps
<1>7. CASE Fail
  <2>1. errand.pc \in Unsent
    BY <1>1 DEF Unsent, ErrandSteps
  <2> QED
    BY <1>1, <1>2, <1>4, <1>5, <1>7, <2>1, FailKeeps
<1> QED
  BY <1>6, <1>7 DEF AttachImage

LEMMA TypedKeepsPage ==
    ASSUME PostInv, errands # <<>>, errand \in ErrandRow, Typed
    PROVE  /\ page' \in PageRow /\ page'.group = page.group /\ page'.image = page.image
           /\ pageFaults' \in Nat
<1>1. Expected \in Texts
  BY PageNumbers DEF Expected, ErrandRow
<1>2. PICK t \in Texts \cup {NoText} : page' = [page EXCEPT !.text = t]
  BY <1>1 DEF Typed
<1>3. pageFaults' \in Nat
  BY DEF Typed, PageFault, PostInv, PageTypes
<1> QED
  BY <1>2, <1>3, PageNow DEF PageRow

LEMMA FaultStaysIf ==
    ASSUME PostInv, drafts' = drafts, pageFaults' \in Nat, Calm, page' \in PageRow
    PROVE  PageStays
BY DEF PostInv, PageTypes, PageStays, Calm

LEMMA PreparedAdvances ==
    ASSUME PostInv, errands # <<>>, errand.pc \in {"caption", "text"}, Step(Prepared), chats' = chats,
           PageStays, page'.group \in Groups, page'.image = page.image
    PROVE  PostInv'
<1>1. errand \in ErrandRow /\ GoodWith(errand, page, chats)
  BY ErrandNow
<1>2. errand.result = "none" /\ (~errand.image => ~page'.image)
  BY <1>1 DEF GoodWith
<1>3. PICK pc \in {"persist", "validate"} :
        Step(pc) /\ (pc = "persist" => errand.kind = "publish")
  BY DEF Prepared
<1>4. \A e \in ErrandRow : Turned(errand, e, pc, errand.image, errand.result)
                             => GoodWith(e, page', chats)
  BY <1>2, <1>3 DEF Turned, GoodWith, Sending
<1>5. pc \in ErrandSteps /\ errand.pc \in Unsent
  BY DEF ErrandSteps, Unsent
<1> QED
  BY <1>3, <1>4, <1>5, AdvanceKeeps

LEMMA FillCaptionKeeps ==
    ASSUME PostInv, FillCaption
    PROVE  PostInv'
<1>1. errands # <<>> /\ errand.pc = "caption" /\ errand \in ErrandRow /\ chats' = chats
      /\ GoodWith(errand, page, chats) /\ drafts' = drafts /\ Calm
  BY ErrandNow DEF FillCaption, Under
<1>2. page.group \in Groups /\ errand.result = "none" /\ (~errand.image => ~page.image)
  BY <1>1 DEF GoodWith
<1>3. /\ page' \in PageRow /\ page'.group = page.group /\ page'.image = page.image
      /\ pageFaults' \in Nat
  <2>1. CASE Typed
    BY <1>1, <2>1, TypedKeepsPage
  <2>2. CASE UNCHANGED <<page, pageFaults>>
    BY <2>2, PageNow DEF PostInv, PageTypes
  <2> QED
    BY <2>1, <2>2 DEF FillCaption
<1>4. PageStays
  BY <1>1, <1>3, FaultStaysIf
<1>5. CASE Step(Prepared)
  BY <1>1, <1>2, <1>3, <1>4, <1>5, PreparedAdvances
<1>6. CASE Fail
  <2>1. errand.pc \in Unsent
    BY <1>1 DEF Unsent, ErrandSteps
  <2> QED
    BY <1>1, <1>2, <1>3, <1>4, <1>6, <2>1, FailKeeps
<1>7. CASE Update([errand EXCEPT !.tries = 1])
  <2>1. PICK e : e = [errand EXCEPT !.tries = 1]
    OBVIOUS
  <2>2. Turned(errand, e, "caption", errand.image, "none")
    BY <1>1, <1>2, <2>1 DEF Turned, ErrandRow
  <2>3. GoodWith(e, page', chats)
    BY <1>2, <1>3, <2>2 DEF Turned, GoodWith, Sending
  <2>4. e \in ErrandRow /\ GoesOn(errand, e) /\ e.result # "PUBLISHED"
    BY <1>1, <1>2, <2>2 DEF Turned, GoesOn, Unsent, ErrandSteps
  <2>5. errands' = [errands EXCEPT ![latest] = e]
    BY <1>7, <2>1 DEF Update
  <2> QED
    BY <1>1, <1>4, <2>3, <2>4, <2>5, QuietKeeps
<1> QED
  BY <1>5, <1>6, <1>7 DEF FillCaption

LEMMA FillTextKeeps ==
    ASSUME PostInv, FillText
    PROVE  PostInv'
<1>1. errands # <<>> /\ errand.pc = "text" /\ errand \in ErrandRow /\ chats' = chats
      /\ GoodWith(errand, page, chats) /\ drafts' = drafts /\ Calm
  BY ErrandNow DEF FillText, Under
<1>2. page.group \in Groups /\ errand.result = "none" /\ (~errand.image => ~page.image)
  BY <1>1 DEF GoodWith
<1>3. /\ page' \in PageRow /\ page'.group = page.group /\ page'.image = page.image
      /\ pageFaults' \in Nat
  <2>1. CASE Typed
    BY <1>1, <2>1, TypedKeepsPage
  <2>2. CASE UNCHANGED <<page, pageFaults>>
    BY <2>2, PageNow DEF PostInv, PageTypes
  <2> QED
    BY <2>1, <2>2 DEF FillText
<1>4. PageStays
  BY <1>1, <1>3, FaultStaysIf
<1>5. CASE Step(Prepared)
  BY <1>1, <1>2, <1>3, <1>4, <1>5, PreparedAdvances
<1>6. CASE Fail
  <2>1. errand.pc \in Unsent
    BY <1>1 DEF Unsent, ErrandSteps
  <2> QED
    BY <1>1, <1>2, <1>3, <1>4, <1>6, <2>1, FailKeeps
<1> QED
  BY <1>5, <1>6 DEF FillText

\* A step up to the click that leaves the page alone may fail.
LEMMA QuietlyFails ==
    ASSUME PostInv, errands # <<>>, Fail, UNCHANGED <<chats, drafts, page, pageFaults>>, Calm,
           errand.pc \in Unsent \ {"open"}
    PROVE  PostInv'
<1>1. GoodWith(errand, page, chats) /\ PageStays
  BY ErrandNow, StaysIf, PageNow
<1>2. page'.group \in Groups /\ (~errand.image => ~page'.image)
  BY <1>1 DEF GoodWith, Unsent
<1> QED
  BY <1>1, <1>2, FailKeeps

LEMMA PersistPreSendKeeps ==
    ASSUME PostInv, PersistPreSend
    PROVE  PostInv'
<1>1. errands # <<>> /\ errand.pc = "persist" /\ chats' = chats /\ page' = page
      /\ GoodWith(errand, page, chats) /\ PageStays
  BY ErrandNow, StaysIf, PageNow DEF PersistPreSend, Under
<1>2. errand.pc \in Unsent \ {"open"} /\ "validate" \in ErrandSteps
  BY <1>1 DEF Unsent, ErrandSteps
<1>3. \A e \in ErrandRow : Turned(errand, e, "validate", errand.image, errand.result)
                             => GoodWith(e, page', chats)
  BY <1>1 DEF Turned, GoodWith, Sending
<1>4. CASE Step("validate")
  BY <1>1, <1>2, <1>3, <1>4, AdvanceKeeps
<1>5. CASE Fail
  BY <1>1, <1>2, <1>5, QuietlyFails DEF PersistPreSend
<1> QED
  BY <1>4, <1>5 DEF PersistPreSend

\* What is validated is what was asked for, until someone touches the page.
LEMMA ValidatePreSendKeeps ==
    ASSUME PostInv, ValidatePreSend
    PROVE  PostInv'
<1>1. errands # <<>> /\ errand.pc \in {"validate", "revalidate"} /\ chats' = chats /\ page' = page
      /\ GoodWith(errand, page, chats) /\ PageStays /\ errand \in ErrandRow
  BY ErrandNow, StaysIf, PageNow DEF ValidatePreSend, Under
<1>2. errand.pc \in Unsent \ {"open"} /\ page.group \in Groups /\ errand.result = "none"
      /\ (~errand.image => ~page.image)
  BY <1>1 DEF Unsent, ErrandSteps, GoodWith
<1>3. CASE Fail
  BY <1>1, <1>2, <1>3, QuietlyFails DEF ValidatePreSend
<1>4. ASSUME errand.kind # "publish",
             Update([errand EXCEPT !.pc = "clear", !.result = "READY", !.upset = {}])
      PROVE  PostInv'
  <2>1. PICK e : e = [errand EXCEPT !.pc = "clear", !.result = "READY", !.upset = {}]
    OBVIOUS
  <2>2. /\ e \in ErrandRow /\ e.pc = "clear" /\ e.result = "READY" /\ e.image = errand.image
        /\ e.post = errand.post /\ e.kind = errand.kind
    BY <1>1, <2>1 DEF ErrandRow, ErrandSteps, Results
  <2>3. GoodWith(e, page', chats)
    BY <1>1, <1>2, <2>2 DEF GoodWith, Sending
  <2>4. GoesOn(errand, e)
    BY <1>2, <2>2 DEF GoesOn
  <2>5. errands' = [errands EXCEPT ![latest] = e]
    BY <1>4, <2>1 DEF Update
  <2> QED
    BY <1>1, <2>2, <2>3, <2>4, <2>5, QuietKeeps
<1>5. ASSUME errand.kind = "publish", DraftIsExact, GroupIsOpen, NEW pc \in {"revalidate", "baseline"},
             Update([errand EXCEPT !.upset = {}, !.pc = pc])
      PROVE  PostInv'
  <2>1. PICK e : e = [errand EXCEPT !.upset = {}, !.pc = pc]
    OBVIOUS
  <2>2. /\ e \in ErrandRow /\ e.pc = pc /\ e.result = "none" /\ e.image = errand.image
        /\ e.post = errand.post /\ e.kind = "publish"
    BY <1>1, <1>2, <1>5, <2>1 DEF ErrandRow, ErrandSteps
  <2>3. /\ page.text = TextOf[e.post] /\ page.image = e.image /\ page.group = GroupOf[e.post]
    BY <1>1, <1>2, <1>5, <2>2, PageNow DEF DraftIsExact, GroupIsOpen, Expected, ErrandRow, PageRow
  <2>4. GoodWith(e, page', chats)
    BY <1>1, <1>2, <2>2, <2>3 DEF GoodWith, Sending
  <2>5. GoesOn(errand, e)
    BY <1>2, <1>5, <2>2 DEF GoesOn
  <2>6. errands' = [errands EXCEPT ![latest] = e]
    BY <1>5, <2>1 DEF Update
  <2> QED
    BY <1>1, <2>2, <2>4, <2>5, <2>6, QuietKeeps
<1>6. ASSUME ~Fail
      PROVE  PostInv'
  <2>1. /\ DraftIsExact /\ (errand.kind = "dryRun" \/ GroupIsOpen)
        /\ IF errand.kind # "publish"
           THEN Update([errand EXCEPT !.pc = "clear", !.result = "READY", !.upset = {}])
           ELSE Update([errand EXCEPT !.upset = {},
                  !.pc = IF errand.pc = "validate" THEN "revalidate" ELSE "baseline"])
    BY <1>6 DEF ValidatePreSend
  <2>2. PICK pc \in {"revalidate", "baseline"} :
          pc = IF errand.pc = "validate" THEN "revalidate" ELSE "baseline"
    OBVIOUS
  <2>3. errand.kind = "publish" => GroupIsOpen /\ Update([errand EXCEPT !.upset = {}, !.pc = pc])
    BY <2>1, <2>2
  <2> QED
    BY <1>4, <1>5, <2>1, <2>3
<1> QED
  BY <1>3, <1>6

LEMMA CaptureBaselineKeeps ==
    ASSUME PostInv, CaptureBaseline
    PROVE  PostInv'
<1>1. errands # <<>> /\ errand.pc = "baseline" /\ chats' = chats /\ page' = page
      /\ GoodWith(errand, page, chats) /\ PageStays /\ errand \in ErrandRow
  BY ErrandNow, StaysIf, PageNow DEF CaptureBaseline, Under
<1>2. errand.pc \in Unsent \ {"open"} /\ page.group \in Groups /\ errand.result = "none"
      /\ (~errand.image => ~page.image) /\ errand.kind = "publish"
  BY <1>1 DEF Unsent, ErrandSteps, GoodWith, Sending
<1>3. CASE Fail
  BY <1>1, <1>2, <1>3, QuietlyFails DEF CaptureBaseline
<1>4. CASE Update([errand EXCEPT !.pc = "mark", !.baseline = chats[page.group],
                                 !.within = page.group, !.unloaded = page.unloaded])
  <2>1. PICK e : e = [errand EXCEPT !.pc = "mark", !.baseline = chats[page.group],
                                    !.within = page.group, !.unloaded = page.unloaded]
    OBVIOUS
  <2>2. /\ e \in ErrandRow /\ e.pc = "mark" /\ e.result = "none" /\ e.image = errand.image
        /\ e.post = errand.post /\ e.kind = "publish" /\ e.upset = errand.upset
        /\ e.baseline = chats[page.group] /\ e.within = page.group /\ e.unloaded = page.unloaded
    BY <1>1, <1>2, <2>1, PageNow DEF ErrandRow, ErrandSteps, PageRow
  <2>3. Continues(e.baseline, chats[page.group])
    BY <2>2, ContinuesItself
  <2>4. GoodWith(e, page', chats)
    BY <1>1, <1>2, <2>2, <2>3 DEF GoodWith, Untouched
  <2>5. GoesOn(errand, e)
    BY <1>2, <2>2 DEF GoesOn
  <2>6. errands' = [errands EXCEPT ![latest] = e]
    BY <1>4, <2>1 DEF Update
  <2> QED
    BY <1>1, <2>2, <2>4, <2>5, <2>6, QuietKeeps
<1> QED
  BY <1>3, <1>4 DEF CaptureBaseline

-----------------------------------------------------------------------------
\* From the marker to the end of the session.

LEMMA MarkClickKeeps ==
    ASSUME PostInv, MarkClick
    PROVE  PostInv'
<1>1. errands # <<>> /\ errand.pc = "mark" /\ chats' = chats /\ page' = page
      /\ GoodWith(errand, page, chats) /\ PageStays
  BY ErrandNow, StaysIf, PageNow DEF MarkClick, Under
<1>2. /\ errand.pc \in Unsent /\ "click" \in ErrandSteps /\ "UNCERTAIN" \in Results \ {"PUBLISHED"}
      /\ errand.pc \notin {"close", "done"} /\ (~errand.image => ~page'.image)
  BY <1>1 DEF Unsent, ErrandSteps, Results, GoodWith
<1>3. \A e \in ErrandRow : Turned(errand, e, "click", errand.image, errand.result)
                             => GoodWith(e, page', chats)
  BY <1>1 DEF Turned, GoodWith, Sending, Untouched
<1>4. CASE Step("click")
  BY <1>1, <1>2, <1>3, <1>4, AdvanceKeeps
<1>5. CASE Finish("UNCERTAIN")
  BY <1>1, <1>2, <1>5, FinishKeeps
<1> QED
  BY <1>4, <1>5 DEF MarkClick

LEMMA AppendContinues ==
    ASSUME NEW chat \in Seq(Messages), NEW m \in Messages
    PROVE  /\ Append(chat, m) \in Seq(Messages) /\ Continues(chat, Append(chat, m))
           /\ \A k \in DOMAIN Append(chat, m) : k \in DOMAIN chat \/ Append(chat, m)[k] = m
BY DEF Continues, SameMessage

\* The click sends what is on the page, and that is what was asked for.
LEMMA ClickSendTriggerKeeps ==
    ASSUME PostInv, ClickSendTrigger
    PROVE  PostInv'
<1>1. /\ errands # <<>> /\ errand.pc = "click" /\ errand \in ErrandRow /\ latest \in Nat \ {0}
      /\ GoodWith(errand, page, chats) /\ drafts' = drafts /\ pageFaults' = pageFaults /\ Calm
  BY ErrandNow DEF ClickSendTrigger, Under
<1>2. /\ page.group \in Groups /\ errand.result = "none" /\ errand.kind = "publish"
      /\ (~errand.image => ~page.image)
      /\ (Untouched(errand) =>
            /\ page.group = GroupOf[errand.post]
            /\ page.text = TextOf[errand.post] /\ page.image = errand.image
            /\ errand.within = page.group /\ Continues(errand.baseline, chats[page.group])
            /\ ("list" \notin errand.upset => errand.unloaded = page.unloaded))
  BY <1>1 DEF GoodWith, Sending
<1>3. page \in PageRow /\ chats \in [Groups -> Seq(Messages)] /\ pageTime \in Nat
  BY PageNow DEF PostInv, PageTypes
<1>4. PICK e \in ErrandRow :
        /\ errands' = [errands EXCEPT ![latest] = e]
        /\ e.post = errand.post /\ e.kind = "publish" /\ e.image = errand.image
        /\ e.upset = errand.upset /\ e.within = errand.within /\ e.baseline = errand.baseline
        /\ e.unloaded = errand.unloaded
        /\ \/ e.pc = "record" /\ e.result = "none"
           \/ e.pc = "close" /\ e.result = "UNCERTAIN"
  <2>1. CASE Update([errand EXCEPT !.pc = "record", !.clickedAt = pageTime])
    <3>1. PICK e : e = [errand EXCEPT !.pc = "record", !.clickedAt = pageTime]
      OBVIOUS
    <3>2. /\ e \in ErrandRow /\ e.pc = "record" /\ e.result = "none"
          /\ e.post = errand.post /\ e.kind = "publish" /\ e.image = errand.image
          /\ e.upset = errand.upset /\ e.within = errand.within /\ e.baseline = errand.baseline
          /\ e.unloaded = errand.unloaded
      BY <1>1, <1>2, <1>3, <3>1 DEF ErrandRow, ErrandSteps
    <3> QED
      BY <2>1, <3>1, <3>2 DEF Update
  <2>2. CASE Finish("UNCERTAIN")
    <3>1. PICK e : e = [errand EXCEPT !.pc = "close", !.result = "UNCERTAIN"]
      OBVIOUS
    <3>2. Turned(errand, e, "close", errand.image, "UNCERTAIN")
      BY <1>1, <3>1, RowsTurn DEF ErrandSteps, Results
    <3> QED
      BY <1>2, <2>2, <3>1, <3>2 DEF Finish, Update, Turned
  <2> QED
    BY <2>1, <2>2 DEF ClickSendTrigger
<1>5. CASE UNCHANGED <<chats, page>>
  <2>1. PageStays
    BY <1>1, <1>3, <1>5, StaysIf
  <2>2. GoodWith(e, page', chats)
    BY <1>2, <1>4, <1>5 DEF GoodWith, Untouched
  <2>3. GoesOn(errand, e) /\ e.result # "PUBLISHED"
    BY <1>1, <1>2, <1>4 DEF GoesOn, Unsent, ErrandSteps
  <2> QED
    BY <1>1, <1>4, <1>5, <2>1, <2>2, <2>3, QuietKeeps
<1>6. ASSUME NEW state \in {"PENDING", "UNKNOWN"},
             chats' = [chats EXCEPT ![page.group] = Append(@, Outgoing(state))],
             page' = [page EXCEPT !.text = NoText, !.image = FALSE]
      PROVE  PostInv'
  <2>1. PICK m : m = Outgoing(state)
    OBVIOUS
  <2>2. /\ m \in Messages /\ m.by = latest /\ m.text = page.text /\ m.image = page.image
    <3>1. page.text \in Texts \cup {NoText} /\ page.image \in BOOLEAN
      BY <1>3 DEF PageRow
    <3>2. m = [by |-> latest, text |-> page.text, image |-> page.image, state |-> state, at |-> pageTime]
      BY <2>1 DEF Outgoing
    <3> QED
      BY <1>1, <1>3, <3>1, <3>2 DEF Messages
  <2>3. PICK chat \in Seq(Messages) : chat = chats[page.group]
    BY <1>2, <1>3
  <2>4. /\ Append(chat, m) \in Seq(Messages) /\ Continues(chat, Append(chat, m))
        /\ \A k \in DOMAIN Append(chat, m) : k \in DOMAIN chat \/ Append(chat, m)[k] = m
    BY <2>2, <2>3, AppendContinues
  <2>5. chats' = [chats EXCEPT ![page.group] = Append(chat, m)]
    BY <1>6, <2>1, <2>3
  <2>6. /\ chats' \in [Groups -> Seq(Messages)] /\ chats'[page.group] = Append(chat, m)
        /\ \A g \in Groups : g # page.group => chats'[g] = chats[g]
    BY <1>2, <1>3, <2>4, <2>5
  <2>7. Asked(e, page.group, m)
    BY <1>2, <1>4, <2>2 DEF Asked, Untouched
  <2>8. \A g \in Groups : Continues(chats[g], chats'[g])
    BY <2>3, <2>4, <2>6, ContinuesItself
  <2>9. SendsOnly(e)
    <3>1. ASSUME NEW g \in Groups, NEW k \in DOMAIN chats'[g]
          PROVE  \/ k \in DOMAIN chats[g] \/ chats'[g][k].by = 0
                 \/ chats'[g][k].by = latest /\ e.pc \notin Unsent /\ Asked(e, g, chats'[g][k])
      <4>1. CASE g = page.group
        BY <1>4, <2>2, <2>3, <2>4, <2>6, <2>7, <3>1, <4>1 DEF Unsent
      <4>2. CASE g # page.group
        BY <2>6, <3>1, <4>2
      <4> QED
        BY <4>1, <4>2
    <3> QED
      BY <2>6, <2>8, <3>1 DEF SendsOnly
  <2>10. page' \in PageRow /\ page'.group = page.group /\ page'.image = FALSE
         /\ page'.unloaded = page.unloaded
    BY <1>3, <1>6 DEF PageRow
  <2>11. PageStays
    BY <1>1, <2>10, StaysIf
  <2>12. GoodWith(e, page', chats')
    <3>1. Untouched(errand) => Continues(errand.baseline, chats'[page.group])
      BY <1>2, <2>8, ContinuesFurther
    <3> QED
      BY <1>2, <1>4, <2>10, <3>1 DEF GoodWith, Untouched
  <2>13. GoesOn(errand, e) /\ e.result # "PUBLISHED"
    BY <1>1, <1>2, <1>4 DEF GoesOn, Unsent, ErrandSteps
  <2> QED
    BY <1>1, <1>4, <2>9, <2>11, <2>12, <2>13, StepKeepsPostInv
<1> QED
  BY <1>5, <1>6 DEF ClickSendTrigger

LEMMA RecordClickKeeps ==
    ASSUME PostInv, RecordClick
    PROVE  PostInv'
<1>1. errands # <<>> /\ errand.pc = "record" /\ chats' = chats /\ page' = page
      /\ GoodWith(errand, page, chats) /\ PageStays
  BY ErrandNow, StaysIf, PageNow DEF RecordClick, Under
<1>2. /\ "confirm" \in ErrandSteps \ Unsent /\ "UNCERTAIN" \in Results \ {"PUBLISHED"}
      /\ errand.pc \notin {"close", "done"} /\ (~errand.image => ~page'.image)
  BY <1>1 DEF Unsent, ErrandSteps, Results, GoodWith
<1>3. \A e \in ErrandRow : Turned(errand, e, "confirm", errand.image, errand.result)
                             => GoodWith(e, page', chats)
  BY <1>1 DEF Turned, GoodWith, Sending, Untouched
<1>4. CASE Step("confirm")
  BY <1>1, <1>2, <1>3, <1>4, AdvanceKeeps
<1>5. CASE Finish("UNCERTAIN")
  BY <1>1, <1>2, <1>5, FinishKeeps
<1> QED
  BY <1>4, <1>5 DEF RecordClick

\* A message that is new or has changed since the baseline is the errand's own
\* or a rival's: what was settled and loaded then looks as it did.
LEMMA ConfirmedByOurs ==
    ASSUME PostInv, errands # <<>>, errand.pc = "confirm", Confirmed(TRUE, errand.image)
    PROVE  Ours(errand, latest, chats, shows)
<1>1. errand \in ErrandRow /\ GoodWith(errand, page, chats)
  BY ErrandNow
<1>2. CASE ~Untouched(errand)
  BY <1>2 DEF Untouched, Ours
<1>3. CASE Untouched(errand)
  <2>1. /\ page.group = GroupOf[errand.post] /\ page.group \in Groups
        /\ errand.within = page.group /\ Continues(errand.baseline, chats[page.group])
        /\ "list" \notin errand.upset => errand.unloaded = page.unloaded
    BY <1>1, <1>3 DEF GoodWith
  <2>2. PICK chat \in Seq(Messages) : chat = chats[page.group]
    BY <2>1, PageNow
  <2>3. PICK k \in page.unloaded + 1 .. Len(chat) :
          /\ IsNewOrMutated(k)
          /\ HasUrl(chat[k], errand.post) /\ HasTitle(chat[k], errand.post)
          /\ TimeCoherent(chat[k], errand)
    BY <2>2 DEF Confirmed
  <2>4. k \in DOMAIN chat
    <3>1. page.unloaded \in Nat
      BY PageNow DEF PageRow
    <3> QED
      BY <2>3, <3>1
  <2>5. ASSUME k \in errand.unloaded + 1 .. Len(errand.baseline), errand.baseline[k].state = "SENT",
               ~("ids" \notin shows /\ "list" \in errand.upset)
        PROVE  FALSE
    <3>1. Identity(errand.within, k, errand.unloaded) = Identity(page.group, k, page.unloaded)
      BY <2>1, <2>5 DEF Identity
    <3>2. Fingerprint(errand.baseline[k]) # Fingerprint(chat[k])
      BY <2>2, <2>3, <2>5, <3>1 DEF IsNewOrMutated
    <3>3. k \in DOMAIN errand.baseline
      <4>1. errand.baseline \in Seq(Messages) /\ errand.unloaded \in Nat
        BY <1>1 DEF ErrandRow
      <4> QED
        BY <2>5, <4>1
    <3>4. SameMessage(errand.baseline[k], chat[k])
      BY <2>1, <2>2, <3>3 DEF Continues
    <3> QED
      BY <2>5, <3>2, <3>4 DEF Fingerprint, SameMessage
  <2> QED
    BY <2>1, <2>2, <2>3, <2>4, <2>5 DEF Ours, TimeCoherent
<1> QED
  BY <1>2, <1>3

LEMMA ConfirmDeliveryKeeps ==
    ASSUME PostInv, ConfirmDelivery
    PROVE  PostInv'
<1>1. errands # <<>> /\ errand.pc = "confirm" /\ chats' = chats /\ page' = page
      /\ GoodWith(errand, page, chats) /\ PageStays /\ errand \in ErrandRow
  BY ErrandNow, StaysIf, PageNow DEF ConfirmDelivery, Under
<1>2. /\ "UNCERTAIN" \in Results \ {"PUBLISHED"} /\ errand.result = "none"
      /\ errand.pc \notin {"close", "done"} /\ (~errand.image => ~page'.image)
  BY <1>1 DEF Results, GoodWith
<1>3. CASE Finish("UNCERTAIN")
  BY <1>1, <1>2, <1>3, FinishKeeps
<1>4. CASE Confirmed(TRUE, errand.image) /\ Finish("PUBLISHED")
  <2>1. PICK e : e = [errand EXCEPT !.pc = "close", !.result = "PUBLISHED"]
    OBVIOUS
  <2>2. Turned(errand, e, "close", errand.image, "PUBLISHED")
    BY <1>1, <2>1, RowsTurn DEF ErrandSteps, Results
  <2>3. Ours(errand, latest, chats, shows)
    BY <1>1, <1>4, ConfirmedByOurs
  <2>4. Ours(e, latest, chats, shows)
    <3>1. \A g \in Groups : Continues(chats[g], chats[g])
      BY ContinuesItself
    <3> QED
      BY <1>1, <2>2, <2>3, <3>1, OursStay, PageNow DEF Turned
  <2>5. e \in ErrandRow /\ GoesOn(errand, e) /\ GoodWith(e, page', chats')
    BY <1>1, <1>2, <2>2 DEF Turned, GoesOn, GoodWith, Unsent, Sending
  <2>6. SendsOnly(e)
    BY <1>1, ContinuesItself, PageNow DEF SendsOnly
  <2>7. errands' = [errands EXCEPT ![latest] = e]
    BY <1>4, <2>1 DEF Finish, Update
  <2> QED
    BY <1>1, <2>4, <2>5, <2>6, <2>7, StepKeepsPostInv
<1> QED
  BY <1>3, <1>4 DEF ConfirmDelivery

LEMMA InspectDeliveryKeeps ==
    ASSUME PostInv, InspectDelivery
    PROVE  PostInv'
<1>1. errands # <<>> /\ errand.pc = "inspect" /\ chats' = chats /\ GoodWith(errand, page, chats)
  BY ErrandNow DEF InspectDelivery, Under
<1>2. PICK unloaded \in {page.unloaded, 0} : page' = [page EXCEPT !.unloaded = unloaded]
  BY DEF InspectDelivery
<1>3. page' \in PageRow /\ page'.image = page.image
  <2>1. unloaded \in Nat
    BY PageNow DEF PageRow
  <2> QED
    BY <1>2, <2>1, PageNow DEF PageRow
<1>4. PageStays
  BY <1>3, StaysIf DEF InspectDelivery
<1>5. PICK result \in Results \ {"PUBLISHED"} : Finish(result)
  BY DEF InspectDelivery, Results
<1>6. errand.pc \in Unsent /\ errand.pc \notin {"close", "done"} /\ (~errand.image => ~page'.image)
  BY <1>1, <1>3 DEF Unsent, ErrandSteps, GoodWith
<1> QED
  BY <1>1, <1>4, <1>5, <1>6, FinishKeeps

LEMMA ClearDraftKeeps ==
    ASSUME PostInv, ClearDraft
    PROVE  PostInv'
<1>1. errands # <<>> /\ errand.pc = "clear" /\ chats' = chats /\ GoodWith(errand, page, chats)
  BY ErrandNow DEF ClearDraft, Under
<1>2. PICK t \in {page.text, NoText}, i \in {page.image, FALSE} :
        /\ page' = [page EXCEPT !.text = t, !.image = i]
        /\ Finish(IF errand.result = "READY" /\ (t # NoText \/ i) THEN "FAILED" ELSE errand.result)
  BY DEF ClearDraft
<1>3. page' \in PageRow /\ page'.image = i
  BY <1>2, PageNow DEF PageRow
<1>4. PageStays
  BY <1>3, StaysIf DEF ClearDraft
<1>5. PICK result \in Results \ {"PUBLISHED"} : Finish(result)
  BY <1>1, <1>2 DEF GoodWith, Results
<1>6. errand.pc \in Unsent /\ errand.pc \notin {"close", "done"} /\ (~errand.image => ~page'.image)
  BY <1>1, <1>2, <1>3 DEF Unsent, ErrandSteps, GoodWith
<1> QED
  BY <1>1, <1>4, <1>5, <1>6, FinishKeeps

LEMMA CloseSessionKeeps ==
    ASSUME PostInv, CloseSession
    PROVE  PostInv'
<1>1. errands # <<>> /\ errand.pc = "close" /\ chats' = chats /\ page' = NoPage
  BY DEF CloseSession, Under
<1>2. PageStays
  <2>1. page.text \in Texts \cup {NoText}
    BY PageNow DEF PageRow
  <2>2. drafts' \in [Groups -> Texts \cup {NoText}]
    BY <2>1, PageNow DEF CloseSession
  <2> QED
    BY <1>1, <2>2, PageRows DEF CloseSession, Calm, PageStays, PostInv, PageTypes
<1>3. "done" \in ErrandSteps \ Unsent
  BY DEF Unsent, ErrandSteps
<1>4. \A e \in ErrandRow : Turned(errand, e, "done", errand.image, errand.result)
                             => GoodWith(e, page', chats)
  BY <1>1, PageRows DEF Turned, GoodWith, Sending
<1> QED
  BY <1>1, <1>2, <1>3, <1>4, AdvanceKeeps DEF CloseSession

-----------------------------------------------------------------------------
\* The rest of the world, and a new errand.

LEMMA RestKeeps ==
    ASSUME PostInv, errands # <<>>, errands' = errands, page' = page, PageStays,
           chats' \in [Groups -> Seq(Messages)], \A g \in Groups : Continues(chats[g], chats'[g]),
           \A g \in Groups : \A k \in DOMAIN chats'[g] :
             k \in DOMAIN chats[g] \/ chats'[g][k].by = 0
    PROVE  PostInv'
<1>1. errand \in ErrandRow /\ GoodWith(errand, page, chats) /\ errand = errands[latest]
      /\ latest \in DOMAIN errands
  BY ErrandNow
<1>2. errands' = [errands EXCEPT ![latest] = errand]
  BY <1>1 DEF PostInv, PageTypes
<1>3. GoesOn(errand, errand) /\ SendsOnly(errand)
  BY DEF GoesOn, SendsOnly
<1>4. GoodWith(errand, page', chats')
  <2>1. ASSUME errand.pc \in {"mark", "click", "record", "confirm"}
        PROVE  Continues(errand.baseline, chats[page.group]) => Continues(errand.baseline, chats'[page.group])
    BY <1>1, <2>1, ContinuesFurther DEF GoodWith
  <2> QED
    BY <1>1, <2>1 DEF GoodWith
<1> QED
  BY <1>1, <1>2, <1>3, <1>4, StepKeepsPostInv

LEMMA MessageSettlesKeeps ==
    ASSUME PostInv, MessageSettles
    PROVE  PostInv'
<1>1. /\ errands # <<>> /\ errands' = errands /\ page' = page
      /\ chats \in [Groups -> Seq(Messages)] /\ PageStays
  BY StaysIf, PageNow DEF MessageSettles, UnderWay
<1>2a. PICK g \in Groups :
         \E k \in DOMAIN chats[g], state \in {"SENT", "ERROR"} :
            /\ chats[g][k].state \in {"PENDING", "UNKNOWN"}
            /\ chats' = [chats EXCEPT ![g][k].state = state]
  BY DEF MessageSettles
<1>2. PICK k \in DOMAIN chats[g], state \in {"SENT", "ERROR"} :
        /\ chats[g][k].state \in {"PENDING", "UNKNOWN"}
        /\ chats' = [chats EXCEPT ![g][k].state = state]
  BY <1>2a
<1>3. PICK m : m = [chats[g][k] EXCEPT !.state = state]
  OBVIOUS
<1>4. chats[g] \in Seq(Messages) /\ chats[g][k] \in Messages
  BY <1>1
<1>5. m \in Messages /\ SameMessage(chats[g][k], m)
  BY <1>2, <1>3, <1>4 DEF Messages, SameMessage
<1>6. PICK chat : chat = [chats[g] EXCEPT ![k] = m]
  OBVIOUS
<1>7. chat \in Seq(Messages) /\ DOMAIN chat = DOMAIN chats[g] /\ chat[k] = m
      /\ \A j \in DOMAIN chat : j # k => chat[j] = chats[g][j]
  BY <1>4, <1>5, <1>6
<1>8. chats' = [chats EXCEPT ![g] = chat]
  BY <1>1, <1>2, <1>3, <1>6
<1>9. chats' \in [Groups -> Seq(Messages)] /\ chats'[g] = chat
      /\ \A f \in Groups : f # g => chats'[f] = chats[f]
  BY <1>1, <1>7, <1>8
<1>10. Continues(chats[g], chat)
  BY <1>5, <1>7 DEF Continues, SameMessage
<1>11. \A f \in Groups : Continues(chats[f], chats'[f]) /\ DOMAIN chats'[f] = DOMAIN chats[f]
  BY <1>7, <1>9, <1>10, ContinuesItself
<1> QED
  BY <1>1, <1>9, <1>11, RestKeeps

LEMMA PhoneSendsKeeps ==
    ASSUME PostInv, PhoneSends
    PROVE  PostInv'
<1>1. /\ errands # <<>> /\ errands' = errands /\ page' = page /\ pageTime \in Nat
      /\ chats \in [Groups -> Seq(Messages)] /\ PageStays
  BY FaultStaysIf, PageNow DEF PhoneSends, UnderWay, PageFault, PostInv, PageTypes
<1>2. PICK g \in Groups, t \in Texts :
        chats' = [chats EXCEPT ![g] = Append(@,
          [by |-> 0, text |-> t, image |-> TRUE, state |-> "SENT", at |-> pageTime])]
  BY DEF PhoneSends
<1>3. PICK m : m = [by |-> 0, text |-> t, image |-> TRUE, state |-> "SENT", at |-> pageTime]
  OBVIOUS
<1>4. m \in Messages /\ m.by = 0
  BY <1>1, <1>3 DEF Messages
<1>5. PICK chat \in Seq(Messages) : chat = chats[g]
  BY <1>1
<1>6. /\ Append(chat, m) \in Seq(Messages) /\ Continues(chat, Append(chat, m))
      /\ \A k \in DOMAIN Append(chat, m) : k \in DOMAIN chat \/ Append(chat, m)[k] = m
  BY <1>4, AppendContinues
<1>7. chats' = [chats EXCEPT ![g] = Append(chat, m)]
  BY <1>2, <1>3, <1>5
<1>8. chats' \in [Groups -> Seq(Messages)] /\ chats'[g] = Append(chat, m)
      /\ \A f \in Groups : f # g => chats'[f] = chats[f]
  BY <1>1, <1>6, <1>7
<1>9. \A f \in Groups : Continues(chats[f], chats'[f])
  BY <1>5, <1>6, <1>8, ContinuesItself
<1>10. \A f \in Groups : \A k \in DOMAIN chats'[f] : k \in DOMAIN chats[f] \/ chats'[f][k].by = 0
  BY <1>4, <1>5, <1>6, <1>8
<1> QED
  BY <1>1, <1>8, <1>9, <1>10, RestKeeps

LEMMA PageTimePassesKeeps ==
    ASSUME PostInv, PageTimePasses
    PROVE  PostInv'
<1>1. /\ errands # <<>> /\ errands' = errands /\ page' = page /\ chats' = chats
      /\ chats \in [Groups -> Seq(Messages)] /\ PageStays
  BY PageNow DEF PageTimePasses, UnderWay, PostInv, PageTypes, PageStays
<1> QED
  BY <1>1, ContinuesItself, RestKeeps

LEMMA UpsetRow ==
    ASSUME PostInv, errands # <<>>, NEW what \in {"list", "page"}, Upsets(what)
    PROVE  \E e \in ErrandRow :
             /\ errands' = [errands EXCEPT ![latest] = e] /\ e.upset = errand.upset \cup {what}
             /\ e.pc = errand.pc /\ e.image = errand.image /\ e.result = errand.result
             /\ e.post = errand.post /\ e.kind = errand.kind /\ e.within = errand.within
             /\ e.baseline = errand.baseline /\ e.unloaded = errand.unloaded
             /\ GoesOn(errand, e)
<1>1. errand \in ErrandRow
  BY ErrandNow
<1>2. PICK e : e = [errand EXCEPT !.upset = @ \cup {what}]
  OBVIOUS
<1>3. /\ e \in ErrandRow /\ e.upset = errand.upset \cup {what}
      /\ e.pc = errand.pc /\ e.image = errand.image /\ e.result = errand.result
      /\ e.post = errand.post /\ e.kind = errand.kind /\ e.within = errand.within
      /\ e.baseline = errand.baseline /\ e.unloaded = errand.unloaded
      /\ e.clickedAt = errand.clickedAt
  BY <1>1, <1>2 DEF ErrandRow
<1>4. GoesOn(errand, e)
  BY <1>3 DEF GoesOn
<1>5. errands' = [errands EXCEPT ![latest] = e]
  BY <1>2 DEF Upsets, Update
<1> QED
  BY <1>3, <1>4, <1>5

\* The page is in use only while an errand is under way.
LEMMA PageInUse ==
    ASSUME PostInv, page.group # NoGroup
    PROVE  errands # <<>> /\ errand.pc \notin {"open", "done"} /\ GoodWith(errand, page, chats)
BY ErrandNow, PageRows DEF PostInv, GoodWith

LEMMA ListMovesKeeps ==
    ASSUME PostInv, ListMoves
    PROVE  PostInv'
<1>1. errands # <<>> /\ errand.pc \notin {"open", "done"} /\ GoodWith(errand, page, chats)
      /\ chats' = chats /\ page.group \in Groups
  BY PageInUse, PageNow DEF ListMoves, PageRow
<1>2. PICK unloaded \in Nat : page' = [page EXCEPT !.unloaded = unloaded]
  BY DEF ListMoves
<1>3. /\ page' \in PageRow /\ page'.group = page.group /\ page'.text = page.text
      /\ page'.image = page.image
  BY <1>2, PageNow DEF PageRow
<1>4. PageStays
  BY <1>3, FaultStaysIf DEF ListMoves, PageFault, PostInv, PageTypes
<1>5. PICK e \in ErrandRow :
             /\ errands' = [errands EXCEPT ![latest] = e] /\ e.upset = errand.upset \cup {"list"}
             /\ e.pc = errand.pc /\ e.image = errand.image /\ e.result = errand.result
             /\ e.post = errand.post /\ e.kind = errand.kind /\ e.within = errand.within
             /\ e.baseline = errand.baseline /\ e.unloaded = errand.unloaded
             /\ GoesOn(errand, e)
  BY <1>1, UpsetRow DEF ListMoves
<1>6. GoodWith(e, page', chats)
  BY <1>1, <1>3, <1>5 DEF GoodWith, Untouched
<1> QED
  BY <1>1, <1>4, <1>5, <1>6, QuietKeeps

LEMMA SomeoneTouchesKeeps ==
    ASSUME PostInv, SomeoneTouches
    PROVE  PostInv'
<1>1. errands # <<>> /\ errand.pc \notin {"open", "done"} /\ GoodWith(errand, page, chats)
      /\ chats' = chats /\ page.group \in Groups
  BY PageInUse, PageNow DEF SomeoneTouches, PageRow
<1>2. page' \in PageRow /\ page'.group \in Groups /\ (~page.image => ~page'.image)
  <2>1. ASSUME NEW g \in Groups, page' = [NoPage EXCEPT !.group = g, !.text = drafts[g]]
        PROVE  page' \in PageRow /\ page'.group \in Groups /\ ~page'.image
    <3>1. PICK t \in Texts \cup {NoText} : t = drafts[g]
      BY PageNow
    <3>2. page' = [group |-> g, text |-> t, image |-> FALSE, unloaded |-> 0]
      BY <2>1, <3>1 DEF NoPage
    <3> QED
      BY <3>2 DEF PageRow
  <2>2. ASSUME NEW t \in Texts \cup {NoText}, page' = [page EXCEPT !.text = t]
        PROVE  page' \in PageRow /\ page'.group \in Groups /\ page'.image = page.image
    BY <1>1, <2>2, PageNow DEF PageRow
  <2>3. ASSUME page' = [page EXCEPT !.image = FALSE]
        PROVE  page' \in PageRow /\ page'.group \in Groups /\ ~page'.image
    BY <1>1, <2>3, PageNow DEF PageRow
  <2> QED
    BY <2>1, <2>2, <2>3 DEF SomeoneTouches
<1>3. PageStays
  <2>1. pageFaults' \in Nat
    <3>1. PageFault
      BY DEF SomeoneTouches
    <3> QED
      BY <3>1 DEF PageFault, PostInv, PageTypes
  <2>2. drafts' = drafts /\ Calm
    BY DEF SomeoneTouches
  <2> QED
    BY <1>2, <2>1, <2>2, FaultStaysIf
<1>4. PICK e \in ErrandRow :
             /\ errands' = [errands EXCEPT ![latest] = e] /\ e.upset = errand.upset \cup {"page"}
             /\ e.pc = errand.pc /\ e.image = errand.image /\ e.result = errand.result
             /\ e.post = errand.post /\ e.kind = errand.kind /\ e.within = errand.within
             /\ e.baseline = errand.baseline /\ e.unloaded = errand.unloaded
             /\ GoesOn(errand, e)
  BY <1>1, UpsetRow DEF SomeoneTouches
<1>5. GoodWith(e, page', chats)
  BY <1>1, <1>2, <1>4 DEF GoodWith, Untouched
<1> QED
  BY <1>1, <1>3, <1>4, <1>5, QuietKeeps

LEMMA StartErrandKeeps ==
    ASSUME PostInv, NEW p \in Posts, NEW kind \in ErrandKinds, StartErrand(p, kind)
    PROVE  PostInv'
<1>1. /\ errands \in Seq(ErrandRow) /\ latest \in Nat /\ DOMAIN errands = 1 .. latest
      /\ chats' = chats /\ page' = NoPage /\ shows' = shows
      /\ errands # <<>> => errand.pc = "done"
  BY DEF PostInv, PageTypes, latest, StartErrand, Calm
<1>2. PICK since \in Nat : errands' = Append(errands, NewErrand(p, kind, since))
  <2> DEFINE sent == {n \in DOMAIN errands : /\ errands[n].post = p /\ errands[n].kind = "publish"
                                             /\ errands[n].result \in {"PUBLISHED", "UNCERTAIN"}}
  <2>1. errands' = Append(errands, NewErrand(p, kind,
           IF kind = "delivery" THEN errands[CHOOSE n \in sent : TRUE].clickedAt ELSE 0))
        /\ (kind = "delivery" => sent # {})
    BY DEF StartErrand
  <2>2. sent # {} => (CHOOSE n \in sent : TRUE) \in sent
    OBVIOUS
  <2>3. sent # {} => errands[CHOOSE n \in sent : TRUE].clickedAt \in Nat
    <3> SUFFICES ASSUME sent # {}
                 PROVE  errands[CHOOSE n \in sent : TRUE].clickedAt \in Nat
      OBVIOUS
    <3>1. PICK n \in DOMAIN errands : n = CHOOSE i \in sent : TRUE
      BY <2>2
    <3>2. errands[n] \in ErrandRow
      BY <1>1
    <3> QED
      BY <3>1, <3>2 DEF ErrandRow
  <2> HIDE DEF sent
  <2>4. PICK since \in Nat :
          since = IF kind = "delivery" THEN errands[CHOOSE n \in sent : TRUE].clickedAt ELSE 0
    BY <2>1, <2>3
  <2> QED
    BY <2>1, <2>4
<1>3. PICK e : e = NewErrand(p, kind, since)
  OBVIOUS
<1>4. /\ e \in ErrandRow /\ e.pc = "open" /\ e.result = "none" /\ e.image = FALSE
  <2>1. <<>> \in Seq(Messages)
    OBVIOUS
  <2> QED
    BY <1>3, <2>1 DEF NewErrand, ErrandRow, ErrandSteps, Results
<1>5. /\ errands' \in Seq(ErrandRow) /\ errands' # <<>> /\ latest' = latest + 1 /\ errand' = e
      /\ DOMAIN errands' = 1 .. latest + 1 /\ errands'[latest + 1] = e
      /\ \A n \in 1 .. latest : errands'[n] = errands[n]
  BY <1>1, <1>2, <1>3, <1>4 DEF latest, errand
<1>6. PageTypes'
  BY <1>1, <1>5, PageRows DEF PostInv, PageTypes, StartErrand, Calm
<1>7. GoodWith(e, page', chats')
  BY <1>1, <1>4, PageRows DEF GoodWith, Sending
<1>8. \A n \in DOMAIN errands' : n < latest' => errands'[n].pc = "done"
  BY <1>1, <1>5 DEF PostInv, latest, errand
<1>9. SendersKnown' /\ AllAsAsked'
  <2>1. ASSUME NEW g \in Groups, NEW k \in DOMAIN chats[g]
        PROVE  chats[g][k].by \in 0 .. latest
    BY <2>1 DEF PostInv, SendersKnown
  <2>2. SendersKnown'
    BY <1>1, <1>5, <2>1 DEF SendersKnown
  <2>3. ASSUME NEW n \in 1 .. latest + 1, NEW g \in Groups, NEW k \in DOMAIN chats[g], chats[g][k].by = n
        PROVE  Asked(errands'[n], g, chats[g][k])
    <3>1. n \in 1 .. latest
      BY <1>1, <2>1, <2>3
    <3> QED
      BY <1>1, <1>5, <2>3, <3>1 DEF PostInv, AllAsAsked
  <2> QED
    BY <1>1, <1>5, <2>2, <2>3 DEF AllAsAsked
<1>10. AllOurs'
  <2>1. ASSUME NEW n \in 1 .. latest + 1, errands'[n].result = "PUBLISHED"
        PROVE  Ours(errands'[n], n, chats, shows)
    <3>1. n \in 1 .. latest
      BY <1>1, <1>4, <1>5, <2>1
    <3> QED
      BY <1>1, <1>5, <2>1, <3>1 DEF PostInv, AllOurs
  <2> QED
    BY <1>1, <1>5, <2>1 DEF AllOurs
<1> QED
  BY <1>5, <1>6, <1>7, <1>8, <1>9, <1>10 DEF PostInv

LEMMA PostInvStep ==
    ASSUME PostInv, [PageNext]_pageVars
    PROVE  PostInv'
<1>1. CASE UNCHANGED pageVars
  BY <1>1 DEF pageVars, PostInv, PageTypes, SendersKnown, AllAsAsked, AllOurs, latest, errand
<1>2. CASE \E p \in Posts, kind \in ErrandKinds : StartErrand(p, kind)
  BY <1>2, StartErrandKeeps
<1>3. CASE OpenExactGroup \/ PrepareMedia \/ AttachImage \/ FillCaption \/ FillText
  BY <1>3, OpenExactGroupKeeps, PrepareMediaKeeps, AttachImageKeeps, FillCaptionKeeps, FillTextKeeps
<1>4. CASE PersistPreSend \/ ValidatePreSend \/ CaptureBaseline \/ MarkClick \/ ClickSendTrigger
  BY <1>4, PersistPreSendKeeps, ValidatePreSendKeeps, CaptureBaselineKeeps, MarkClickKeeps,
     ClickSendTriggerKeeps
<1>5. CASE RecordClick \/ ConfirmDelivery \/ InspectDelivery \/ ClearDraft \/ CloseSession
  BY <1>5, RecordClickKeeps, ConfirmDeliveryKeeps, InspectDeliveryKeeps, ClearDraftKeeps,
     CloseSessionKeeps
<1>6. CASE MessageSettles \/ PhoneSends \/ ListMoves \/ SomeoneTouches \/ PageTimePasses
  BY <1>6, MessageSettlesKeeps, PhoneSendsKeeps, ListMovesKeeps, SomeoneTouchesKeeps,
     PageTimePassesKeeps
<1> QED
  BY <1>1, <1>2, <1>3, <1>4, <1>5, <1>6 DEF PageNext

LEMMA PostInvInit ==
    ASSUME PageInit
    PROVE  PostInv
<1>1. plan \in PagePlans /\ chats \in [Groups -> Seq(Messages)]
      /\ \A g \in Groups : \A k \in DOMAIN chats[g] : chats[g][k].by = 0
  BY PageAssumption DEF PageInit
<1>2. errands = <<>> /\ DOMAIN errands = {} /\ latest = 0 /\ errands \in Seq(ErrandRow)
  BY DEF PageInit, latest
<1>3. PageTypes
  BY <1>1, <1>2, PageRows DEF PageInit, PageTypes
<1>4. SendersKnown /\ AllAsAsked /\ AllOurs
  BY <1>1, <1>2 DEF SendersKnown, AllAsAsked, AllOurs
<1> QED
  BY <1>2, <1>3, <1>4 DEF PageInit, PostInv

LEMMA PostedTruly ==
    ASSUME PostInv
    PROVE  PostingIsTrue
<1>1. SentAsAsked
  <2> SUFFICES ASSUME NEW n \in DOMAIN errands, NEW w \in MessagesOf(n)
               PROVE  Asked(errands[n], w[1], chats[w[1]][w[2]])
    BY DEF SentAsAsked, Asked
  <2>0. PICK g \in Groups : \E k \in DOMAIN chats[g] : w = <<g, k>> /\ chats[g][k].by = n
    BY DEF MessagesOf
  <2>1. PICK k \in DOMAIN chats[g] : w = <<g, k>> /\ chats[g][k].by = n
    BY <2>0
  <2> QED
    BY <2>1 DEF PostInv, AllAsAsked
<1>2. ConfirmedIsOurs
  <2> SUFFICES ASSUME NEW n \in DOMAIN errands, errands[n].result = "PUBLISHED",
                      "page" \notin errands[n].upset
               PROVE  \/ \E w \in MessagesOf(n) : w[1] = GroupOf[errands[n].post]
                      \/ \E k \in DOMAIN chats[GroupOf[errands[n].post]] : Rival(n, k)
    BY DEF ConfirmedIsOurs
  <2>1. PICK g \in Groups : g = GroupOf[errands[n].post]
    <3>1. errands[n] \in ErrandRow
      BY DEF PostInv, PageTypes
    <3> QED
      BY <3>1, PageNumbers DEF ErrandRow
  <2>2. PICK k \in DOMAIN chats[g] :
          \/ chats[g][k].by = n
          \/ /\ HasUrl(chats[g][k], errands[n].post) /\ HasTitle(chats[g][k], errands[n].post)
             /\ "times" \in shows => chats[g][k].at + TimeSlack >= errands[n].clickedAt
             /\ \/ k \notin errands[n].unloaded + 1 .. Len(errands[n].baseline)
                \/ errands[n].baseline[k].state # "SENT"
                \/ "ids" \notin shows /\ "list" \in errands[n].upset
    BY <2>1 DEF PostInv, AllOurs, Ours
  <2>3. CASE chats[g][k].by = n
    <3>1. <<g, k>> \in MessagesOf(n) /\ <<g, k>>[1] = g
      BY <2>3 DEF MessagesOf
    <3> QED
      BY <2>1, <3>1
  <2>4. CASE chats[g][k].by # n
    BY <2>1, <2>2, <2>4 DEF Rival, TimeCoherent
  <2> QED
    BY <2>3, <2>4
<1> QED
  BY <1>1, <1>2 DEF PostingIsTrue

LEMMA PageTyped ==
    ASSUME PostInv
    PROVE  PageTypeOK
<1>1. errands # <<>> => GoodWith(errand, page, chats)
  BY DEF PostInv
<1> QED
  BY <1>1, PageNumbers DEF PostInv, PageTypes, PageTypeOK, PageRow, GoodWith

\* The page, the drafts and the errands on WhatsApp Web have their types, and an
\* errand beyond its start has a group open (whatsapp-web-publisher.ts).
THEOREM PageTypeCorrect == PageSpec => []PageTypeOK
<1>1. PageSpec => []PostInv
  BY PostInvInit, PostInvStep, PTL DEF PageSpec
<1> QED
  BY <1>1, PageTyped, PTL

\* What goes out is what was asked for, in the group that was asked for, and
\* what counts as published went out (whatsapp-web-publisher.ts, publish): for
\* any posts, groups, earlier messages, people at the phone and the window.
THEOREM PostingCorrect == PageSpec => []PostingIsTrue
<1>1. PageSpec => []PostInv
  BY PostInvInit, PostInvStep, PTL DEF PageSpec
<1> QED
  BY <1>1, PostedTruly, PTL
================================================================================
