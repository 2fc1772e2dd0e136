------------------------------- MODULE Library -------------------------------
(***************************************************************************)
(* Starting over a library that is there already: main.cpp opens the       *)
(* database, applies the migration statement by statement, registers every *)
(* IMG_n.dng it finds, and allocates numbers until the counter is past the *)
(* greatest n; then the workers number and record new photos, each by the  *)
(* same transaction.  The process may die at any statement, with its       *)
(* transactions rolled back, and is started again; while it is down the    *)
(* user may put DNGs into the library.                                     *)
(***************************************************************************)
EXTENDS Naturals, Sequences, FiniteSets, Functions

CONSTANTS
  Workers,     \* the converter threads
  Faults,      \* which calls may fail, and whether the process may crash
  MaxLibrary,  \* bound: numbers of the DNGs the user brings
  MaxPhotos,   \* bound: photos the workers take on
  MaxFaults,   \* bound: how many faults happen
  MaxSeq       \* bound: sequence numbers

Main    == "main"
Threads == Workers \cup {Main}

FaultNames == {"crash", "connect", "versions", "statement", "legacy", "cleanup",
               "alloc", "reserve", "commit", "convert", "insert"}

ASSUME LibraryAssumption ==
  /\ Main \notin Workers /\ Faults \subseteq FaultNames
  /\ MaxLibrary \in Nat /\ MaxPhotos \in Nat /\ MaxFaults \in Nat
  /\ MaxSeq \in Nat /\ MaxLibrary <= MaxSeq

VARIABLES
  library,   \* the n of the files IMG_n.dng under /output and /archive
  tables,    \* tables of the database
  applied,   \* schema_migrations has the version
  nextId,    \* AUTO_INCREMENT of sequences; a rollback does not take it back
  sequences, \* the ids of its committed rows
  legacy,    \* sequence_id of the rows of imports with status "legacy"
  imports,   \* sequence_id of the other rows of imports
  pc,        \* where each thread is; Main is "down" when the process is not up
  at,        \* the statement of the migration Main is at
  met,       \* the files Main's scan has visited
  maxN,      \* the greatest n it has met
  round,     \* rounds of the reservation it has completed
  num,       \* the id each thread got from INSERT, 0 for none
  given, photos, faults   \* history: numbers workers were given; counts

disk     == <<library>>
schema   == <<tables, applied>>
rows     == <<legacy, imports>>
counter  == <<nextId, sequences>>
mainVars == <<at, met, maxN, round>>
history  == <<given, photos>>
vars     == <<disk, schema, rows, counter, pc, mainVars, num, history, faults>>

Seqs   == 1..MaxSeq
Schema == <<"sequences", "imports", "reconversions", "processing_locks", "alerts",
            "preview_edits">>
Parent == [sequences |-> {}, imports |-> {"sequences"}, reconversions |-> {"imports"},
           processing_locks |-> {}, alerts |-> {}, preview_edits |-> {"imports"}]

Fails(f) == f \in Faults /\ faults < MaxFaults /\ faults' = faults + 1
NoFault  == UNCHANGED faults

Goto(t, label) == pc' = [pc EXCEPT ![t] = label]

Init ==
  /\ library \in SUBSET (1..MaxLibrary)
  /\ tables = {} /\ applied = FALSE
  /\ nextId = 1 /\ sequences = {} /\ legacy = {} /\ imports = {}
  /\ pc = [t \in Threads |-> IF t = Main THEN "down" ELSE "idle"]
  /\ at = 1 /\ met = {} /\ maxN = 0 /\ round = 0
  /\ num = [t \in Threads |-> 0]
  /\ given = {} /\ photos = 0 /\ faults = 0

-----------------------------------------------------------------------------
(* Outside: the user, the container's restart policy, and crashes.         *)

Bring(n) ==
  /\ pc[Main] = "down" /\ n \in 1..MaxLibrary
  /\ library' = library \cup {n}
  /\ UNCHANGED <<schema, rows, counter, pc, mainVars, num, history, faults>>

Die ==
  /\ pc' = [t \in Threads |-> IF t = Main THEN "down" ELSE "idle"]
  /\ num' = [t \in Threads |-> 0]
  /\ at' = 1 /\ met' = {} /\ maxN' = 0 /\ round' = 0

Crash ==
  /\ pc[Main] # "down" /\ Fails("crash") /\ Die
  /\ UNCHANGED <<disk, schema, rows, counter, history>>

Start ==
  /\ pc[Main] = "down" /\ Goto(Main, "open")
  /\ UNCHANGED <<disk, schema, rows, counter, mainVars, num, history, faults>>

-----------------------------------------------------------------------------
(* main(), Store::Open and Store::Migrate.                                 *)

(* Five attempts; then main returns 1.                                     *)
Open ==
  /\ pc[Main] = "open"
  /\ \/ NoFault /\ Goto(Main, "versions") /\ UNCHANGED <<num, mainVars>>
     \/ Fails("connect") /\ Die
  /\ UNCHANGED <<disk, schema, rows, counter, history>>

(* The table of versions, whose creation is not checked, and the question  *)
(* whether the file was applied; a query that fails is taken for "no".     *)
AskVersion ==
  /\ pc[Main] = "versions"
  /\ \/ NoFault /\ Goto(Main, IF applied THEN "scan" ELSE "apply")
     \/ Fails("versions") /\ Goto(Main, "apply")
  /\ UNCHANGED <<disk, schema, rows, counter, mainVars, num, history>>

(* CREATE TABLE IF NOT EXISTS: rejected only without the tables it refers  *)
(* to.                                                                     *)
PlainCreate(s) == s \in tables \/ ~(Parent[s] \subseteq tables)   \* a mutant's
Rejected(s)    == ~(Parent[s] \subseteq tables)

GoOn      == at' = at + 1 /\ UNCHANGED <<met, maxN, round, pc, num>>  \* a mutant's
GiveUp    == Die                                 \* Migrate returns false, main 1

Apply ==
  /\ pc[Main] = "apply" /\ at <= Len(Schema)
  /\ \/ /\ ~Rejected(Schema[at]) /\ NoFault
        /\ tables' = tables \cup {Schema[at]} /\ at' = at + 1
        /\ UNCHANGED <<met, maxN, round, pc, num>>
     \/ /\ IF Rejected(Schema[at]) THEN NoFault ELSE Fails("statement")
        /\ GiveUp /\ UNCHANGED tables
  /\ UNCHANGED <<disk, applied, rows, counter, history>>

(* The version is recorded last, and the result is not looked at.          *)
RecordVersion ==
  /\ pc[Main] = "apply" /\ at > Len(Schema)
  /\ \/ applied' = TRUE /\ NoFault
     \/ UNCHANGED applied /\ Fails("versions")
  /\ Goto(Main, "scan") /\ at' = 1
  /\ UNCHANGED <<disk, tables, rows, counter, met, maxN, round, num, history>>

Migration == AskVersion \/ Apply \/ RecordVersion

-----------------------------------------------------------------------------
(* ReconcileLibrary.                                                       *)

(* A file is met; a legacy row for it can be inserted only if sequences    *)
(* has the number (imports.sequence_id REFERENCES sequences(id)), and no   *)
(* one looks at the result.  GetImportBySourcePath never finds an output   *)
(* path, so a known file gets another row.                                 *)
LastMet(n)  == n                                                  \* a mutant's
Greatest(n) == IF n > maxN THEN n ELSE maxN

Visit(n) ==
  /\ pc[Main] = "scan" /\ n \in library \ met
  /\ met' = met \cup {n} /\ maxN' = Greatest(n)
  /\ \/ legacy' = (IF n \in sequences THEN legacy \cup {n} ELSE legacy) /\ NoFault
     \/ UNCHANGED legacy /\ Fails("legacy")
  /\ UNCHANGED <<disk, schema, imports, counter, pc, at, round, num, history>>

(* The reservation starts, unless the library is empty.                    *)
EndScan ==
  /\ pc[Main] = "scan" /\ met = library
  /\ Goto(Main, IF maxN > 0 THEN "begin" ELSE "running")
  /\ UNCHANGED <<disk, schema, rows, counter, mainVars, num, history, faults>>

-----------------------------------------------------------------------------
(* AllocateSequence, for the reservation and for a worker.                 *)

InTransaction(t) == pc[t] \in {"rename", "commit"}

(* What the caller does with the number it got: main allocates again until *)
(* one reaches the greatest n or as many have been tried; a failed         *)
(* allocation ends the reservation and fails a worker's photo.             *)
Unchecked(id) == FALSE                                            \* a mutant's
NoNumber(id)  == id = 0
OneShort(id)  == id + 1 >= maxN \/ round + 1 = maxN               \* a mutant's
Reserved(id)  == id >= maxN \/ round + 1 = maxN

Return(t, id) ==
  IF t = Main
    THEN /\ Goto(t, IF NoNumber(id) \/ Reserved(id) THEN "running" ELSE "begin")
         /\ round' = round + 1 /\ num' = [num EXCEPT ![t] = 0] /\ UNCHANGED given
    ELSE /\ Goto(t, IF NoNumber(id) THEN "idle" ELSE "convert")
         /\ num' = [num EXCEPT ![t] = id]
         /\ given' = IF NoNumber(id) THEN given ELSE given \cup {id}
         /\ UNCHANGED round

AllocFails(t) == Fails(IF t = Main THEN "reserve" ELSE "alloc")

(* The cleanup of TMP_ rows waits for the rows of an open transaction, and *)
(* its failure is only logged; then START TRANSACTION.                     *)
Begin(t) ==
  /\ pc[t] = "begin"
  /\ \/ /\ (NoFault /\ \A u \in Threads : ~InTransaction(u)) \/ Fails("cleanup")
        /\ Goto(t, "insert") /\ UNCHANGED <<num, round, given>>
     \/ AllocFails(t) /\ Return(t, 0)
  /\ UNCHANGED <<disk, schema, rows, counter, at, met, maxN, photos>>

(* INSERT of a TMP_ row: the id is used up even if it is rolled back.      *)
InsertTmp(t) ==
  /\ pc[t] = "insert" /\ nextId <= MaxSeq
  /\ \/ /\ NoFault /\ nextId' = nextId + 1
        /\ num' = [num EXCEPT ![t] = nextId]
        /\ Goto(t, "rename") /\ UNCHANGED <<round, given>>
     \/ AllocFails(t) /\ nextId' \in {nextId, nextId + 1} /\ Return(t, 0)
  /\ UNCHANGED <<disk, schema, rows, sequences, at, met, maxN, photos>>

Rename(t) ==
  /\ pc[t] = "rename"
  /\ \/ NoFault /\ Goto(t, "commit") /\ UNCHANGED <<num, round, given>>
     \/ AllocFails(t) /\ Return(t, 0)
  /\ UNCHANGED <<disk, schema, rows, counter, at, met, maxN, photos>>

(* A COMMIT that reports an error may have been done.                      *)
CommitTrusted(t) == Return(t, num[t])                             \* a mutant's
CommitFailed(t)  == Return(t, 0)

Commit(t) ==
  /\ pc[t] = "commit"
  /\ \/ /\ NoFault /\ sequences' = sequences \cup {num[t]} /\ Return(t, num[t])
     \/ /\ Fails(IF t = Main THEN "reserve" ELSE "commit")
        /\ sequences' \in {sequences, sequences \cup {num[t]}} /\ CommitFailed(t)
  /\ UNCHANGED <<disk, schema, rows, nextId, at, met, maxN, photos>>

Allocate(t) == Begin(t) \/ InsertTmp(t) \/ Rename(t) \/ Commit(t)

-----------------------------------------------------------------------------
(* A worker with a photo: ProcessFile from stage 4 on.                     *)

Take(w) ==
  /\ pc[Main] = "running" /\ pc[w] = "idle" /\ photos < MaxPhotos
  /\ photos' = photos + 1 /\ Goto(w, "begin")
  /\ UNCHANGED <<disk, schema, rows, counter, mainVars, num, given, faults>>

(* The DNG of that number is written, whatever was there.                  *)
Convert(w) ==
  /\ pc[w] = "convert"
  /\ \/ NoFault /\ library' = library \cup {num[w]} /\ Goto(w, "record") /\ UNCHANGED num
     \/ /\ Fails("convert") /\ library' \in {library, library \cup {num[w]}}
        /\ Goto(w, "idle") /\ num' = [num EXCEPT ![w] = 0]
  /\ UNCHANGED <<schema, rows, counter, mainVars, history>>

InsertImport(w) ==
  /\ pc[w] = "record"
  /\ \/ /\ num[w] \in sequences /\ NoFault /\ imports' = imports \cup {num[w]}
     \/ /\ IF num[w] \in sequences THEN Fails("insert") ELSE NoFault
        /\ UNCHANGED imports
  /\ Goto(w, "idle") /\ num' = [num EXCEPT ![w] = 0]
  /\ UNCHANGED <<disk, schema, legacy, counter, mainVars, history>>

Work(w) == Take(w) \/ Allocate(w) \/ Convert(w) \/ InsertImport(w)

MainStep == Start \/ Open \/ Migration \/ (\E n \in Seqs : Visit(n)) \/ EndScan
            \/ Allocate(Main)

Next == (\E n \in Seqs : Bring(n)) \/ Crash \/ MainStep \/ \E w \in Workers : Work(w)

Spec == Init /\ [][Next]_vars

(* "restart: unless-stopped" (docker-compose.yml:7) starts the process     *)
(* again, and the scheduler runs every thread.                             *)
Fairness == WF_vars(MainStep) /\ \A w \in Workers : WF_vars(Work(w))

FairSpec == Spec /\ Fairness

-----------------------------------------------------------------------------
(* Properties.                                                             *)

MainLabels   == {"down", "open", "versions", "apply", "scan", "running"}
AllocLabels  == {"begin", "insert", "rename", "commit"}
WorkerLabels == {"idle", "convert", "record"}

(* Every variable keeps its type, and a thread has a number exactly while  *)
(* it allocates or uses one (reconcile.cpp:13-19, db.cpp:180-322).         *)
DiskOK  == library \subseteq Seqs
TablesOK ==
  /\ tables \subseteq Range(Schema) /\ applied \in BOOLEAN
  /\ nextId \in 1..(MaxSeq + 1) /\ sequences \subseteq Seqs
  /\ legacy \subseteq Seqs /\ imports \subseteq Seqs
MainOK ==
  /\ at \in 1..(Len(Schema) + 1) /\ met \subseteq Seqs
  /\ maxN \in 0..MaxSeq /\ round \in 0..MaxSeq
ThreadsOK ==
  /\ pc \in [Threads -> MainLabels \cup AllocLabels \cup WorkerLabels]
  /\ pc[Main] \in MainLabels \cup AllocLabels
  /\ \A w \in Workers : pc[w] \in AllocLabels \cup WorkerLabels
  /\ num \in [Threads -> 0..MaxSeq]
  /\ \A t \in Threads : num[t] # 0 <=> pc[t] \in {"rename", "commit", "convert", "record"}
HistoryOK == given \subseteq Seqs /\ photos \in 0..MaxPhotos /\ faults \in 0..MaxFaults

TypeOK == DiskOK /\ TablesOK /\ MainOK /\ ThreadsOK /\ HistoryOK

(* "new imports never collide" (reconcile.h:10-11): a number a worker is   *)
(* about to convert to is on no file of the library, old or new, and no    *)
(* other worker has it (reconcile.cpp:65-72, db.cpp:245-322).              *)
Holds(w) == pc[w] \in {"convert", "record"}

NumbersNeverCollide ==
  \A w \in Workers :
    /\ pc[w] = "convert" => num[w] \notin library
    /\ \A v \in Workers \ {w} : Holds(v) /\ Holds(w) => num[v] # num[w]

(* The number a photo is imported under has its row in sequences, so that  *)
(* the foreign key lets the import be recorded, whatever COMMIT reported   *)
(* (db.cpp:313-321, 0001_init.sql:35).                                     *)
NumberHasRow == \A w \in Workers : Holds(w) => num[w] \in sequences

(* Nothing runs on half a schema, and none is taken for applied: not after *)
(* a crash between two statements, nor after one that failed               *)
(* (db.cpp:213-240, main.cpp:41-44).                                       *)
SchemaComplete ==
  applied \/ pc[Main] \in AllocLabels \cup {"scan", "running"}
    => tables = Range(Schema)

(* AllocateSequence as the abstract dispenser of numbers: what is on the   *)
(* disk or was ever given to a worker is taken.                            *)
Numbering == INSTANCE Dispenser WITH
               Clients <- Workers, Numbers <- Seqs, taken <- library \cup given,
               hands <- [w \in Workers |-> IF Holds(w) THEN num[w] ELSE 0]

NumberingSpec == Numbering!Spec

(* However often it dies in between, the process comes up (db.cpp:180-243, *)
(* "Idempotent: safe to re-run", 0001_init.sql:2).                         *)
ComesUp == pc[Main] = "down" ~> pc[Main] = "running"

(* "registers 'legacy' placeholders in the DB" (reconcile.h:9): when the   *)
(* process is up, the database knows every DNG it found.                   *)
LibraryRegistered == pc[Main] = "running" => met \subseteq legacy \cup imports

=============================================================================
