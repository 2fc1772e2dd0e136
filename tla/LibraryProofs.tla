---------------------------- MODULE LibraryProofs ----------------------------
(* What holds of Library for every value of its constants, as long as no   *)
(* allocation of the reservation fails.                                    *)
EXTENDS Library, TLAPS

-----------------------------------------------------------------------------
(* The inductive invariant.  The counter is ahead of every number that was *)
(* ever used, and the reservation keeps it ahead of what is on the disk:   *)
(* after round rounds it has passed round numbers, and it ends only when   *)
(* it has passed maxN.                                                     *)

CounterAhead ==
  /\ \A n \in sequences \cup given : n < nextId
  /\ \A t \in Threads : num[t] < nextId

OnlyWhenUp == \A w \in Workers : pc[w] # "idle" => pc[Main] = "running"

Scanned ==
  /\ \A n \in met : n <= maxN
  /\ pc[Main] \in AllocLabels => met = library /\ round < maxN
  /\ pc[Main] \notin AllocLabels \cup {"running"} => round = 0

Passed ==
  /\ pc[Main] = "running" => \A n \in library : n < nextId
  /\ pc[Main] \in {"begin", "insert"} => round + 1 <= nextId
  /\ pc[Main] \in {"rename", "commit"} => round + 2 <= nextId

Owned ==
  \A w \in Workers :
    /\ InTransaction(w) => num[w] \notin given
    /\ InTransaction(w) \/ pc[w] = "convert" => num[w] \notin library
    /\ Holds(w) => num[w] \in given /\ num[w] \in sequences

Distinct == \A v, w \in Workers : v # w /\ num[v] # 0 => num[v] # num[w]

Created ==
  /\ pc[Main] # "apply" => at = 1
  /\ pc[Main] = "apply" => \A k \in 1..(at - 1) : Schema[k] \in tables
  /\ SchemaComplete

IInv == TypeOK /\ CounterAhead /\ OnlyWhenUp /\ Scanned /\ Passed /\ Owned /\ Distinct
        /\ Created

(* A table of the schema is that of some statement.                        *)
LEMMA SchemaRange ==
  /\ Len(Schema) \in Nat /\ Len(Schema) > 0
  /\ Range(Schema) = {Schema[k] : k \in 1..Len(Schema)}
<1>1. Len(Schema) = 6
  BY DEF Schema
<1>2. DOMAIN Schema = 1..6
  BY DEF Schema
<1> QED
  BY <1>1, <1>2 DEF Range

(* The process has not been started and the database is empty.             *)
LEMMA InvInit == Init => IInv
<1> SUFFICES ASSUME Init PROVE IInv
  OBVIOUS
<1> USE LibraryAssumption, SchemaRange
<1>1. TypeOK
  <2>1. DiskOK /\ MainOK /\ HistoryOK
    BY DEF Init, DiskOK, MainOK, HistoryOK, Seqs
  <2>2. TablesOK
    <3>1. nextId \in 1..(MaxSeq + 1)
      BY DEF Init
    <3>2. applied \in BOOLEAN
      BY Zenon DEF Init
    <3> QED
      BY <3>1, <3>2 DEF Init, TablesOK
  <2>3. ThreadsOK
    BY DEF Init, ThreadsOK, MainLabels, WorkerLabels, Threads, Main
  <2> QED
    BY <2>1, <2>2, <2>3 DEF TypeOK
<1>2. CounterAhead /\ OnlyWhenUp /\ Owned /\ Distinct
  BY DEF Init, CounterAhead, OnlyWhenUp, Owned, Distinct, InTransaction, Holds, Threads
<1>3. Scanned /\ Passed /\ Created
  BY DEF Init, Scanned, Passed, Created, SchemaComplete, AllocLabels, Threads, Main
<1> QED
  BY <1>1, <1>2, <1>3 DEF IInv

(* The user brings a file while the process is down: every worker is idle. *)
LEMMA InvBring ==
  ASSUME IInv, NEW n \in Seqs, Bring(n) PROVE IInv'
<1> USE LibraryAssumption DEF Bring, schema, rows, counter, mainVars, history, IInv, TypeOK
<1>1. TypeOK'
  BY DEF DiskOK, TablesOK, MainOK, ThreadsOK, HistoryOK, Seqs
<1>2. CounterAhead' /\ OnlyWhenUp' /\ Scanned' /\ Passed' /\ Created'
  BY DEF CounterAhead, OnlyWhenUp, Scanned, Passed, Created, SchemaComplete, AllocLabels
<1>3. Owned' /\ Distinct'
  BY DEF Owned, Distinct, InTransaction, Holds, OnlyWhenUp
<1> QED
  BY <1>1, <1>2, <1>3

(* The process dies, by itself or by a crash; nothing of the threads is    *)
(* left, and the disk and the database stay.                               *)
LEMMA InvDie ==
  ASSUME IInv, Die, UNCHANGED <<disk, schema, rows, counter, history>>,
         faults' \in 0..MaxFaults
  PROVE  IInv'
<1> USE LibraryAssumption, SchemaRange
    DEF Die, disk, schema, rows, counter, history, IInv, TypeOK
<1>1. TypeOK'
  BY DEF DiskOK, TablesOK, MainOK, ThreadsOK, HistoryOK, Threads, MainLabels, WorkerLabels
<1>2. CounterAhead' /\ OnlyWhenUp' /\ Scanned' /\ Passed' /\ Created'
  BY DEF CounterAhead, OnlyWhenUp, Scanned, Passed, Created, SchemaComplete, AllocLabels,
     Threads, TablesOK
<1>3. Owned' /\ Distinct'
  BY DEF Owned, Distinct, InTransaction, Holds, Threads
<1> QED
  BY <1>1, <1>2, <1>3

(* A step of Main that moves it from one label to another, below those of  *)
(* the reservation, and touches only the schema.                           *)
LEMMA InvStartOpenMigration ==
  ASSUME IInv, Start \/ Open \/ Migration PROVE IInv'
<1> USE LibraryAssumption, SchemaRange DEF IInv, TypeOK
<1> faults \in Nat
  BY DEF HistoryOK
<1>1. CASE Start
  <2> USE <1>1 DEF Start, Goto, disk, schema, rows, counter, mainVars, history
  <2>1. TypeOK'
    BY DEF DiskOK, TablesOK, MainOK, ThreadsOK, HistoryOK, Threads, MainLabels, WorkerLabels, AllocLabels
  <2>2. CounterAhead' /\ OnlyWhenUp' /\ Scanned' /\ Passed' /\ Created'
    BY DEF CounterAhead, OnlyWhenUp, Scanned, Passed, Created, SchemaComplete, AllocLabels,
       Threads, ThreadsOK
  <2>3. Owned' /\ Distinct'
    BY DEF Owned, Distinct, InTransaction, Holds, Threads, ThreadsOK
  <2> QED
    BY <2>1, <2>2, <2>3
<1>2. ASSUME Open, NoFault, Goto(Main, "versions"), UNCHANGED <<num, mainVars>> PROVE IInv'
  <2> USE <1>2 DEF Open, NoFault, Goto, disk, schema, rows, counter, mainVars, history
  <2>1. TypeOK'
    BY DEF DiskOK, TablesOK, MainOK, ThreadsOK, HistoryOK, Threads, MainLabels, WorkerLabels, AllocLabels
  <2>2. CounterAhead' /\ OnlyWhenUp' /\ Scanned' /\ Passed' /\ Created'
    BY DEF CounterAhead, OnlyWhenUp, Scanned, Passed, Created, SchemaComplete, AllocLabels,
       Threads, ThreadsOK
  <2>3. Owned' /\ Distinct'
    BY DEF Owned, Distinct, InTransaction, Holds, Threads, ThreadsOK
  <2> QED
    BY <2>1, <2>2, <2>3
<1>3. ASSUME Open, Fails("connect"), Die PROVE IInv'
  BY <1>3, InvDie DEF Open, Fails, HistoryOK
<1>4. CASE AskVersion
  <2> USE <1>4 DEF AskVersion, NoFault, Fails, Goto, disk, schema, rows, counter, mainVars, history
  <2>1. TypeOK'
    BY DEF DiskOK, TablesOK, MainOK, ThreadsOK, HistoryOK, Threads, MainLabels, WorkerLabels, AllocLabels
  <2>2. CounterAhead' /\ OnlyWhenUp' /\ Scanned' /\ Passed'
    BY DEF CounterAhead, OnlyWhenUp, Scanned, Passed, AllocLabels, Threads, ThreadsOK
  <2>3. Owned' /\ Distinct'
    BY DEF Owned, Distinct, InTransaction, Holds, Threads, ThreadsOK
  <2>4. Created'
    <3>1. at = 1
      BY DEF Created
    <3>2. pc'[Main] = "apply" \/ (pc'[Main] = "scan" /\ applied)
      BY DEF Threads, ThreadsOK
    <3>3. SchemaComplete'
      BY <3>2 DEF Created, SchemaComplete, AllocLabels
    <3> QED
      BY <3>1, <3>2, <3>3 DEF Created
  <2> QED
    BY <2>1, <2>2, <2>3, <2>4
<1>5. ASSUME Apply, GiveUp, faults' = faults \/ Fails("statement"), UNCHANGED tables PROVE IInv'
  BY <1>5, InvDie DEF Apply, GiveUp, Fails, HistoryOK, schema
<1>6. ASSUME Apply, NoFault, tables' = tables \cup {Schema[at]}, at' = at + 1,
             UNCHANGED <<met, maxN, round, pc, num>>
      PROVE  IInv'
  <2> USE <1>6 DEF Apply, NoFault, disk, rows, counter, history
  <2>1. TypeOK'
    BY DEF DiskOK, TablesOK, MainOK, ThreadsOK, HistoryOK
  <2>2. CounterAhead' /\ OnlyWhenUp' /\ Scanned' /\ Passed'
    BY DEF CounterAhead, OnlyWhenUp, Scanned, Passed
  <2>3. Owned' /\ Distinct'
    BY DEF Owned, Distinct, InTransaction, Holds
  <2>4. Created'
    <3>1. pc[Main] = "apply" /\ \A k \in 1..at : Schema[k] \in tables'
      BY DEF Created, MainOK
    <3>2. Schema[at] \in Range(Schema)
      BY DEF MainOK
    <3>3. SchemaComplete'
      BY <3>1, <3>2 DEF Created, SchemaComplete, TablesOK, AllocLabels
    <3> QED
      BY <3>1, <3>3 DEF Created, MainOK
  <2> QED
    BY <2>1, <2>2, <2>3, <2>4
<1>7. CASE RecordVersion
  <2> USE <1>7 DEF RecordVersion, NoFault, Fails, Goto, disk, rows, counter, history
  <2>1. TypeOK'
    <3>1. applied' \in BOOLEAN
      BY Zenon DEF TablesOK
    <3> QED
      BY <3>1 DEF DiskOK, TablesOK, MainOK, ThreadsOK, HistoryOK, Threads, MainLabels, WorkerLabels,
         AllocLabels
  <2>2. CounterAhead' /\ OnlyWhenUp' /\ Scanned' /\ Passed'
    BY DEF CounterAhead, OnlyWhenUp, Scanned, Passed, AllocLabels, Threads, ThreadsOK
  <2>3. Owned' /\ Distinct'
    BY DEF Owned, Distinct, InTransaction, Holds, Threads, ThreadsOK
  <2>4. Created'
    <3>1. tables = Range(Schema)
      BY DEF Created, MainOK, TablesOK
    <3> QED
      BY <3>1 DEF Created, SchemaComplete, Threads, ThreadsOK
  <2> QED
    BY <2>1, <2>2, <2>3, <2>4
<1> QED
  BY <1>1, <1>2, <1>3, <1>4, <1>5, <1>6, <1>7 DEF Migration, Open, Apply, NoFault

(* A file is met: maxN stays ahead of what has been met, and the           *)
(* reservation begins when that is the whole library.                      *)
LEMMA InvScan ==
  ASSUME IInv, (\E n \in Seqs : Visit(n)) \/ EndScan PROVE IInv'
<1> USE LibraryAssumption, SchemaRange DEF IInv, TypeOK
<1>1. ASSUME NEW n \in Seqs, Visit(n) PROVE IInv'
  <2> USE <1>1 DEF Visit, Greatest, NoFault, Fails, disk, schema, counter, history
  <2>1. TypeOK'
    <3>1. DiskOK' /\ MainOK' /\ ThreadsOK'
      BY DEF DiskOK, MainOK, ThreadsOK, Seqs
    <3>2. TablesOK'
      BY DEF TablesOK
    <3>3. HistoryOK'
      BY DEF HistoryOK
    <3> QED
      BY <3>1, <3>2, <3>3
  <2>2. CounterAhead' /\ OnlyWhenUp' /\ Passed' /\ Created'
    BY DEF CounterAhead, OnlyWhenUp, Passed, Created, SchemaComplete, AllocLabels
  <2>3. Scanned'
    BY DEF Scanned, AllocLabels, MainOK, Seqs
  <2>4. Owned' /\ Distinct'
    BY DEF Owned, Distinct, InTransaction, Holds
  <2> QED
    BY <2>1, <2>2, <2>3, <2>4
<1>2. CASE EndScan
  <2> USE <1>2 DEF EndScan, Goto, disk, schema, rows, counter, mainVars, history
  <2>1. TypeOK'
    <3>1. DiskOK' /\ TablesOK' /\ MainOK' /\ HistoryOK'
      BY DEF DiskOK, TablesOK, MainOK, HistoryOK
    <3>2. ThreadsOK'
      BY DEF ThreadsOK, Threads, MainLabels, WorkerLabels, AllocLabels
    <3> QED
      BY <3>1, <3>2
  <2>2. CounterAhead' /\ OnlyWhenUp' /\ Created'
    BY DEF CounterAhead, OnlyWhenUp, Created, SchemaComplete, AllocLabels, Threads, ThreadsOK
  <2>3. Scanned' /\ Passed'
    BY DEF Scanned, Passed, AllocLabels, Threads, ThreadsOK, MainOK, TablesOK, DiskOK, Seqs
  <2>4. Owned' /\ Distinct'
    BY DEF Owned, Distinct, InTransaction, Holds, Threads, ThreadsOK
  <2> QED
    BY <2>1, <2>2, <2>3, <2>4
<1> QED
  BY <1>1, <1>2

(* START TRANSACTION.                                                      *)
LEMMA InvBegin ==
  ASSUME IInv, "reserve" \notin Faults, NEW t \in Threads, Begin(t) PROVE IInv'
<1> USE LibraryAssumption
    DEF Begin, Return, Goto, NoNumber, Reserved, AllocFails, Fails, NoFault, disk, schema, rows,
        counter, mainVars, history, IInv, TypeOK
<1>1. TypeOK'
  <2>1. DiskOK' /\ MainOK'
    BY DEF DiskOK, MainOK, Scanned, AllocLabels
  <2>2. TablesOK'
    BY DEF TablesOK, ThreadsOK, Seqs
  <2>3. HistoryOK'
    <3>1. given' \subseteq Seqs
      BY DEF HistoryOK, ThreadsOK, Seqs
    <3>2. photos' \in 0..MaxPhotos
      BY DEF HistoryOK
    <3>3. faults' \in 0..MaxFaults
      BY DEF HistoryOK
    <3> QED
      BY <3>1, <3>2, <3>3 DEF HistoryOK
  <2>4. ThreadsOK'
    BY DEF ThreadsOK, TablesOK, Seqs, Threads, MainLabels, WorkerLabels, AllocLabels
  <2> QED
    BY <2>1, <2>2, <2>3, <2>4
<1>2. CounterAhead'
  <2>1. nextId' >= nextId /\ \A u \in Threads : num'[u] < nextId'
    BY DEF CounterAhead, TablesOK, ThreadsOK
  <2> QED
    BY <2>1 DEF CounterAhead, TablesOK, HistoryOK, Seqs
<1>3. OnlyWhenUp' /\ Scanned' /\ Created'
  BY DEF OnlyWhenUp, Scanned, Created, SchemaComplete, AllocLabels, Threads, ThreadsOK, MainOK
<1>4. Passed'
  BY DEF Passed, Scanned, OnlyWhenUp, AllocLabels, TablesOK, ThreadsOK, MainOK, DiskOK, Seqs,
     Threads, CounterAhead
<1>5. Owned'
  BY DEF Owned, Distinct, InTransaction, Holds, Threads, TablesOK, ThreadsOK, CounterAhead, OnlyWhenUp,
     Passed
<1>6. Distinct'
  BY DEF Distinct, Threads, TablesOK, ThreadsOK, CounterAhead
<1> QED
  BY <1>1, <1>2, <1>3, <1>4, <1>5, <1>6

(* The id of the new row is ahead of all numbers, and the counter of it.   *)
LEMMA InvInsertTmp ==
  ASSUME IInv, "reserve" \notin Faults, NEW t \in Threads, InsertTmp(t) PROVE IInv'
<1> USE LibraryAssumption
    DEF InsertTmp, Return, Goto, NoNumber, Reserved, AllocFails, Fails, NoFault, disk, schema, rows,
        counter, mainVars, history, IInv, TypeOK
<1>1. TypeOK'
  <2>1. DiskOK' /\ MainOK'
    BY DEF DiskOK, MainOK, Scanned, AllocLabels
  <2>2. TablesOK'
    BY DEF TablesOK, ThreadsOK, Seqs
  <2>3. HistoryOK'
    <3>1. given' \subseteq Seqs
      BY DEF HistoryOK, ThreadsOK, Seqs
    <3>2. photos' \in 0..MaxPhotos
      BY DEF HistoryOK
    <3>3. faults' \in 0..MaxFaults
      BY DEF HistoryOK
    <3> QED
      BY <3>1, <3>2, <3>3 DEF HistoryOK
  <2>4. ThreadsOK'
    BY DEF ThreadsOK, TablesOK, Seqs, Threads, MainLabels, WorkerLabels, AllocLabels
  <2> QED
    BY <2>1, <2>2, <2>3, <2>4
<1>2. CounterAhead'
  <2>1. nextId' >= nextId /\ \A u \in Threads : num'[u] < nextId'
    BY DEF CounterAhead, TablesOK, ThreadsOK
  <2> QED
    BY <2>1 DEF CounterAhead, TablesOK, HistoryOK, Seqs
<1>3. OnlyWhenUp' /\ Scanned' /\ Created'
  BY DEF OnlyWhenUp, Scanned, Created, SchemaComplete, AllocLabels, Threads, ThreadsOK, MainOK
<1>4. Passed'
  BY DEF Passed, Scanned, OnlyWhenUp, AllocLabels, TablesOK, ThreadsOK, MainOK, DiskOK, Seqs,
     Threads, CounterAhead
<1>5. Owned'
  BY DEF Owned, Distinct, InTransaction, Holds, Threads, TablesOK, ThreadsOK, CounterAhead, OnlyWhenUp,
     Passed
<1>6. Distinct'
  BY DEF Distinct, Threads, TablesOK, ThreadsOK, CounterAhead
<1> QED
  BY <1>1, <1>2, <1>3, <1>4, <1>5, <1>6

(* The row gets its name.                                                  *)
LEMMA InvRename ==
  ASSUME IInv, "reserve" \notin Faults, NEW t \in Threads, Rename(t) PROVE IInv'
<1> USE LibraryAssumption
    DEF Rename, Return, Goto, NoNumber, Reserved, AllocFails, Fails, NoFault, disk, schema, rows,
        counter, mainVars, history, IInv, TypeOK
<1>1. TypeOK'
  <2>1. DiskOK' /\ MainOK'
    BY DEF DiskOK, MainOK, Scanned, AllocLabels
  <2>2. TablesOK'
    BY DEF TablesOK, ThreadsOK, Seqs
  <2>3. HistoryOK'
    <3>1. given' \subseteq Seqs
      BY DEF HistoryOK, ThreadsOK, Seqs
    <3>2. photos' \in 0..MaxPhotos
      BY DEF HistoryOK
    <3>3. faults' \in 0..MaxFaults
      BY DEF HistoryOK
    <3> QED
      BY <3>1, <3>2, <3>3 DEF HistoryOK
  <2>4. ThreadsOK'
    BY DEF ThreadsOK, TablesOK, Seqs, Threads, MainLabels, WorkerLabels, AllocLabels
  <2> QED
    BY <2>1, <2>2, <2>3, <2>4
<1>2. CounterAhead'
  <2>1. nextId' >= nextId /\ \A u \in Threads : num'[u] < nextId'
    BY DEF CounterAhead, TablesOK, ThreadsOK
  <2> QED
    BY <2>1 DEF CounterAhead, TablesOK, HistoryOK, Seqs
<1>3. OnlyWhenUp' /\ Scanned' /\ Created'
  BY DEF OnlyWhenUp, Scanned, Created, SchemaComplete, AllocLabels, Threads, ThreadsOK, MainOK
<1>4. Passed'
  BY DEF Passed, Scanned, OnlyWhenUp, AllocLabels, TablesOK, ThreadsOK, MainOK, DiskOK, Seqs,
     Threads, CounterAhead
<1>5. Owned'
  BY DEF Owned, Distinct, InTransaction, Holds, Threads, TablesOK, ThreadsOK, CounterAhead, OnlyWhenUp,
     Passed
<1>6. Distinct'
  BY DEF Distinct, Threads, TablesOK, ThreadsOK, CounterAhead
<1> QED
  BY <1>1, <1>2, <1>3, <1>4, <1>5, <1>6

(* The number is given to a worker, or ends a round of the reservation.    *)
LEMMA InvCommit ==
  ASSUME IInv, "reserve" \notin Faults, NEW t \in Threads, Commit(t) PROVE IInv'
<1> USE LibraryAssumption
    DEF Commit, Return, Goto, NoNumber, Reserved, CommitFailed, AllocFails, Fails, NoFault, disk, schema, rows,
        counter, mainVars, history, IInv, TypeOK
<1> num[t] \in Seqs
  BY DEF ThreadsOK, Seqs
<1>1. TypeOK'
  <2>1. DiskOK' /\ MainOK'
    BY DEF DiskOK, MainOK, Scanned, AllocLabels
  <2>2. TablesOK'
    BY DEF TablesOK
  <2>3. HistoryOK'
    <3>1. given' \subseteq Seqs
      BY DEF HistoryOK
    <3>2. photos' \in 0..MaxPhotos
      BY DEF HistoryOK
    <3>3. faults' \in 0..MaxFaults
      BY DEF HistoryOK
    <3> QED
      BY <3>1, <3>2, <3>3 DEF HistoryOK
  <2>4. ThreadsOK'
    BY DEF ThreadsOK, TablesOK, Seqs, Threads, MainLabels, WorkerLabels, AllocLabels
  <2> QED
    BY <2>1, <2>2, <2>3, <2>4
<1>2. CounterAhead'
  <2>1. nextId' >= nextId /\ \A u \in Threads : num'[u] < nextId'
    BY DEF CounterAhead, TablesOK, ThreadsOK
  <2> QED
    BY <2>1 DEF CounterAhead, TablesOK, HistoryOK, Seqs
<1>3. OnlyWhenUp' /\ Scanned' /\ Created'
  BY DEF OnlyWhenUp, Scanned, Created, SchemaComplete, AllocLabels, Threads, ThreadsOK, MainOK
<1>4. Passed'
  BY DEF Passed, Scanned, OnlyWhenUp, AllocLabels, TablesOK, ThreadsOK, MainOK, DiskOK, Seqs,
     Threads, CounterAhead
<1>5. Owned'
  BY DEF Owned, Distinct, InTransaction, Holds, Threads, TablesOK, ThreadsOK, CounterAhead, OnlyWhenUp,
     Passed
<1>6. Distinct'
  BY DEF Distinct, Threads, TablesOK, ThreadsOK, CounterAhead
<1> QED
  BY <1>1, <1>2, <1>3, <1>4, <1>5, <1>6

(* A worker writes the DNG of its number and records it.                   *)
LEMMA InvWork ==
  ASSUME IInv, NEW w \in Workers, Take(w) \/ Convert(w) \/ InsertImport(w) PROVE IInv'
<1> USE LibraryAssumption DEF Goto, NoFault, Fails, disk, schema, rows, counter, mainVars, history,
        IInv, TypeOK
<1>1. CASE Take(w)
  <2> USE <1>1 DEF Take
  <2>1. TypeOK'
    <3>1. DiskOK' /\ MainOK'
      BY DEF DiskOK, MainOK, ThreadsOK, Threads, Seqs
    <3>4. HistoryOK'
      BY DEF HistoryOK
    <3>2. TablesOK'
      BY DEF TablesOK, ThreadsOK, Threads, Seqs
    <3>3. ThreadsOK'
      BY DEF ThreadsOK, Threads, MainLabels, WorkerLabels, AllocLabels
    <3> QED
      BY <3>1, <3>2, <3>3, <3>4
  <2>2. CounterAhead' /\ OnlyWhenUp' /\ Scanned' /\ Passed' /\ Created'
    BY DEF CounterAhead, OnlyWhenUp, Scanned, Passed, Created, SchemaComplete, AllocLabels, Threads,
       ThreadsOK
  <2>3. Owned' /\ Distinct'
    BY DEF Owned, Distinct, InTransaction, Holds, Threads, ThreadsOK
  <2> QED
    BY <2>1, <2>2, <2>3
<1>2. CASE Convert(w)
  <2> USE <1>2 DEF Convert
  <2>1. TypeOK'
    <3> num[w] \in Seqs
      BY DEF ThreadsOK, Threads, Seqs
    <3>1. DiskOK' /\ MainOK'
      BY DEF DiskOK, MainOK
    <3>4. HistoryOK'
      BY DEF HistoryOK
    <3>2. TablesOK'
      BY DEF TablesOK, ThreadsOK, Threads, Seqs
    <3>3. ThreadsOK'
      BY DEF ThreadsOK, Threads, MainLabels, WorkerLabels, AllocLabels
    <3> QED
      BY <3>1, <3>2, <3>3, <3>4
  <2>2. CounterAhead' /\ OnlyWhenUp' /\ Created'
    BY DEF CounterAhead, OnlyWhenUp, Created, SchemaComplete, AllocLabels, Threads, ThreadsOK,
       TablesOK
  <2>3. Scanned' /\ Passed'
    BY DEF Scanned, Passed, OnlyWhenUp, CounterAhead, AllocLabels, Threads, ThreadsOK
  <2>4. Owned' /\ Distinct'
    BY DEF Owned, Distinct, InTransaction, Holds, Threads, ThreadsOK
  <2> QED
    BY <2>1, <2>2, <2>3, <2>4
<1>3. CASE InsertImport(w)
  <2> USE <1>3 DEF InsertImport
  <2>1. TypeOK'
    <3> num[w] \in Seqs
      BY DEF ThreadsOK, Threads, Seqs
    <3>1. DiskOK' /\ MainOK'
      BY DEF DiskOK, MainOK
    <3>4. HistoryOK'
      BY DEF HistoryOK
    <3>2. TablesOK'
      BY DEF TablesOK, ThreadsOK, Threads, Seqs
    <3>3. ThreadsOK'
      BY DEF ThreadsOK, Threads, MainLabels, WorkerLabels, AllocLabels
    <3> QED
      BY <3>1, <3>2, <3>3, <3>4
  <2>2. CounterAhead' /\ OnlyWhenUp' /\ Scanned' /\ Passed' /\ Created'
    BY DEF CounterAhead, OnlyWhenUp, Scanned, Passed, Created, SchemaComplete, AllocLabels, Threads,
       ThreadsOK, TablesOK
  <2>3. Owned' /\ Distinct'
    BY DEF Owned, Distinct, InTransaction, Holds, Threads, ThreadsOK
  <2> QED
    BY <2>1, <2>2, <2>3
<1> QED
  BY <1>1, <1>2, <1>3

LEMMA InvNext ==
  ASSUME IInv, "reserve" \notin Faults, [Next]_vars PROVE IInv'
<1>1. CASE UNCHANGED vars
  <2> USE <1>1 DEF vars, disk, schema, rows, counter, mainVars, history, IInv, TypeOK
  <2>1. TypeOK'
    BY DEF DiskOK, TablesOK, MainOK, ThreadsOK, HistoryOK
  <2>2. CounterAhead' /\ OnlyWhenUp' /\ Scanned' /\ Passed' /\ Created'
    BY DEF CounterAhead, OnlyWhenUp, Scanned, Passed, Created, SchemaComplete
  <2>3. Owned' /\ Distinct'
    BY DEF Owned, Distinct, InTransaction, Holds
  <2> QED
    BY <2>1, <2>2, <2>3
<1>2. CASE Crash
  <2>1. faults' \in 0..MaxFaults
    BY <1>2, LibraryAssumption DEF Crash, Fails, IInv, TypeOK, HistoryOK
  <2> QED
    BY <1>2, <2>1, InvDie DEF Crash
<1>3. CASE MainStep
  BY <1>3, InvStartOpenMigration, InvScan, InvBegin, InvInsertTmp, InvRename, InvCommit
     DEF MainStep, Allocate, Threads
<1>4. ASSUME NEW w \in Workers, Work(w) PROVE IInv'
  BY <1>4, InvWork, InvBegin, InvInsertTmp, InvRename, InvCommit DEF Work, Allocate, Threads
<1> QED
  BY <1>1, <1>2, <1>3, <1>4, InvBring DEF Next

-----------------------------------------------------------------------------
(* The theorems.                                                           *)

(* The invariant the others follow from: the counter stays ahead of every  *)
(* number used and, once the process runs, of every number on the disk     *)
(* (reconcile.cpp:65-72).                                                  *)
THEOREM CounterStaysAhead ==
  ASSUME "reserve" \notin Faults PROVE Spec => []IInv
<1>1. Init => IInv
  BY InvInit
<1>2. IInv /\ [Next]_vars => IInv'
  BY InvNext
<1> QED
  BY <1>1, <1>2, PTL DEF Spec

(* Types (reconcile.cpp:13-19, db.cpp:180-322), whatever the library.      *)
THEOREM LibraryTypes ==
  ASSUME "reserve" \notin Faults PROVE Spec => []TypeOK
<1>1. IInv => TypeOK
  BY DEF IInv
<1> QED
  BY <1>1, CounterStaysAhead, PTL

(* New imports never collide with the library nor with each other          *)
(* (reconcile.h:10-11).                                                    *)
THEOREM NeverCollide ==
  ASSUME "reserve" \notin Faults PROVE Spec => []NumbersNeverCollide
<1>1. IInv => NumbersNeverCollide
  BY DEF IInv, Owned, Distinct, NumbersNeverCollide, Holds, TypeOK, ThreadsOK, Threads
<1> QED
  BY <1>1, CounterStaysAhead, PTL

(* A number that is used has its row in sequences (db.cpp:313-321).        *)
THEOREM EveryNumberHasRow ==
  ASSUME "reserve" \notin Faults PROVE Spec => []NumberHasRow
<1>1. IInv => NumberHasRow
  BY DEF IInv, Owned, NumberHasRow
<1> QED
  BY <1>1, CounterStaysAhead, PTL

(* Nothing runs on half a schema (db.cpp:213-240).                         *)
THEOREM SchemaStaysComplete ==
  ASSUME "reserve" \notin Faults PROVE Spec => []SchemaComplete
<1>1. IInv => SchemaComplete
  BY DEF IInv, Created
<1> QED
  BY <1>1, CounterStaysAhead, PTL

-----------------------------------------------------------------------------
(* The start over a library implements the abstract dispenser.             *)

Held(w) == IF Holds(w) THEN num[w] ELSE 0
Taken   == library \cup given

(* A step that neither takes a number nor changes what a worker holds is a *)
(* stutter of the dispenser.                                               *)
LEMMA Stutter ==
  ASSUME Taken' = Taken, \A w \in Workers : Held(w)' = Held(w)
  PROVE  UNCHANGED Numbering!dispenser
BY DEF Taken, Held, Numbering!dispenser

(* The process dies: its numbers are lost and stay taken.                  *)
LEMMA DieIsRestart ==
  ASSUME IInv, Die, UNCHANGED <<library, given>> PROVE Numbering!Next
<1>1. \A w \in Workers : ~Holds(w)'
  BY LibraryAssumption DEF Die, Holds, Threads
<1>2. [w \in Workers |-> IF Holds(w) THEN num[w] ELSE 0]' = Numbering!Empty
  BY <1>1 DEF Numbering!Empty
<1>3. (library \cup given)' = (library \cup given) \cup {}
  OBVIOUS
<1> QED
  BY <1>2, <1>3 DEF Numbering!Next, Numbering!Restart

(* COMMIT hands a worker a number that is free (db.cpp:313-321).           *)
LEMMA CommitHands ==
  ASSUME IInv, NEW w \in Workers, Commit(w), pc'[w] = "convert", num' = [num EXCEPT ![w] = num[w]],
         given' = given \cup {num[w]}
  PROVE  Numbering!Hand(w)
<1> USE LibraryAssumption
<1>1. num[w] \in Seqs \ (library \cup given)
  BY DEF IInv, TypeOK, ThreadsOK, Owned, Commit, InTransaction, Threads, Seqs
<1>2. library' = library
  BY DEF Commit, disk
<1>3. pc' = [pc EXCEPT ![w] = "convert"]
  BY DEF Commit, CommitFailed, Return, Goto, NoNumber, IInv, TypeOK, ThreadsOK, Threads
<1>4. [v \in Workers |-> IF Holds(v) THEN num[v] ELSE 0]'
        = [[v \in Workers |-> IF Holds(v) THEN num[v] ELSE 0] EXCEPT ![w] = num[w]]
  BY <1>3 DEF IInv, TypeOK, ThreadsOK, Threads, Holds
<1>5. [v \in Workers |-> IF Holds(v) THEN num[v] ELSE 0][w] = 0
  BY DEF Commit, Holds
<1> QED
  BY <1>1, <1>2, <1>4, <1>5 DEF Numbering!Hand

LEMMA AllocateIsHandOrStutter ==
  ASSUME IInv, NEW t \in Threads, Allocate(t)
  PROVE  Numbering!Next \/ UNCHANGED Numbering!dispenser
<1> USE LibraryAssumption DEF IInv, TypeOK, ThreadsOK, Return, Goto, NoNumber, disk
<1>1. ASSUME t \in Workers, Commit(t), pc'[t] = "convert" PROVE Numbering!Hand(t)
  <2>1. num' = [num EXCEPT ![t] = num[t]] /\ given' = given \cup {num[t]}
    BY <1>1 DEF Commit, CommitFailed, Threads
  <2> QED
    BY <1>1, <2>1, CommitHands
<1>2. ASSUME ~(t \in Workers /\ Commit(t) /\ pc'[t] = "convert")
      PROVE  Taken' = Taken /\ \A w \in Workers : Held(w)' = Held(w)
  BY <1>2 DEF Allocate, Begin, InsertTmp, Rename, Commit, CommitFailed, Taken, Held, Holds, Threads
<1> QED
  BY <1>1, <1>2, Stutter DEF Numbering!Next

(* A worker that uses its number: the DNG takes none that it does not      *)
(* hold, and the end of the photo lets it go.                              *)
LEMMA WorkIsLetGoOrStutter ==
  ASSUME IInv, NEW w \in Workers, Take(w) \/ Convert(w) \/ InsertImport(w)
  PROVE  Numbering!Next \/ UNCHANGED Numbering!dispenser
<1> USE LibraryAssumption DEF IInv, TypeOK, ThreadsOK, Goto, disk, history
<1>1. Taken' = Taken
  <2>1. Holds(w) => num[w] \in given
    BY DEF Owned
  <2> QED
    BY <2>1 DEF Take, Convert, InsertImport, Taken, Holds
<1>2. \A v \in Workers \ {w} : Held(v)' = Held(v)
  BY DEF Take, Convert, InsertImport, Held, Holds, Threads
<1>3. Held(w)' = Held(w) \/ Held(w)' = 0
  BY DEF Take, Convert, InsertImport, Held, Holds, Threads
<1>4. CASE Held(w)' = Held(w)
  BY <1>1, <1>2, <1>4, Stutter
<1>5. CASE Held(w)' = 0
  <2>1. [v \in Workers |-> IF Holds(v) THEN num[v] ELSE 0]'
          = [[v \in Workers |-> IF Holds(v) THEN num[v] ELSE 0] EXCEPT ![w] = 0]
    BY <1>2, <1>5 DEF Held
  <2> QED
    BY <1>1, <2>1 DEF Taken, Numbering!Next, Numbering!LetGo
<1> QED
  BY <1>3, <1>4, <1>5

LEMMA StepRefines ==
  ASSUME IInv, [Next]_vars PROVE Numbering!Next \/ UNCHANGED Numbering!dispenser
<1> USE LibraryAssumption
<1>1. CASE UNCHANGED vars
  BY <1>1, Stutter DEF vars, disk, history, Taken, Held, Holds
<1>2. ASSUME NEW n \in Seqs, Bring(n) PROVE Numbering!Next
  <2>1. (library \cup given)' = (library \cup given) \cup {n}
    BY <1>2 DEF Bring, history
  <2>2. UNCHANGED [w \in Workers |-> IF Holds(w) THEN num[w] ELSE 0]
    BY <1>2 DEF Bring, Holds
  <2> QED
    BY <2>1, <2>2 DEF Numbering!Next, Numbering!Burn
<1>3. CASE Crash
  BY <1>3, DieIsRestart DEF Crash, disk, history
<1>4. ASSUME Start \/ Open \/ Migration \/ (\E n \in Seqs : Visit(n)) \/ EndScan
      PROVE  Numbering!Next \/ UNCHANGED Numbering!dispenser
  <2>1. CASE Die
    BY <1>4, <2>1, DieIsRestart DEF Start, Open, Migration, AskVersion, Apply, GiveUp,
       RecordVersion, Visit, EndScan, disk, history
  <2>2. CASE ~Die
    <3>1. Taken' = Taken
      BY <1>4 DEF Start, Open, Migration, AskVersion, Apply, RecordVersion, Visit, EndScan,
         Taken, disk, history
    <3>2. \A w \in Workers : Held(w)' = Held(w)
      BY <1>4, <2>2 DEF Start, Open, Migration, AskVersion, Apply, GiveUp, RecordVersion, Visit,
         EndScan, Goto, Held, Holds, IInv, TypeOK, ThreadsOK, Threads
    <3> QED
      BY <3>1, <3>2, Stutter
  <2> QED
    BY <2>1, <2>2
<1> QED
  BY <1>1, <1>2, <1>3, <1>4, AllocateIsHandOrStutter, WorkIsLetGoOrStutter
     DEF Next, MainStep, Work, Threads

(* AllocateSequence, with the start over a library before it and crashes   *)
(* in between, keeps the promise of the dispenser (db.h, db.cpp:245-322,   *)
(* reconcile.cpp:65-72).                                                   *)
THEOREM LibraryImplementsDispenser ==
  ASSUME "reserve" \notin Faults PROVE Spec => NumberingSpec
<1>1. Init => Numbering!Init
  <2> SUFFICES ASSUME Init PROVE Numbering!Init
    OBVIOUS
  <2>1. library \cup given \in SUBSET Seqs
    BY InvInit DEF IInv, TypeOK, DiskOK, HistoryOK
  <2>2. [w \in Workers |-> IF Holds(w) THEN num[w] ELSE 0] = Numbering!Empty
    BY LibraryAssumption DEF Init, Holds, Numbering!Empty, Threads
  <2> QED
    BY <2>1, <2>2 DEF Numbering!Init
<1>2. IInv /\ [Next]_vars => [Numbering!Next]_(Numbering!dispenser)
  BY StepRefines
<1> QED
  BY <1>1, <1>2, CounterStaysAhead, PTL DEF Spec, NumberingSpec, Numbering!Spec

=============================================================================
