------------------------------- MODULE Ingest -------------------------------
(***************************************************************************)
(* The ingest pipeline of src/worker.cpp: one poller thread scans /watch   *)
(* and queues files, a pool of worker threads takes them through hashing,  *)
(* the duplicate check, sequence allocation, conversion, the database      *)
(* record and the move to /archive, and a failing file is retried until it *)
(* is dead-lettered.  The process may crash and restart at any step; the   *)
(* disks and the database survive, everything else is lost, and the start  *)
(* of src/main.cpp reconciles the database with what is in /output.        *)
(*                                                                         *)
(* A step is what runs between two points where another thread can get in: *)
(* one critical section of Impl::mtx, one statement of the database, one   *)
(* call on the file system, or one run of the converter.                   *)
(***************************************************************************)
EXTENDS Naturals, Sequences, FiniteSets, Functions

CONSTANTS
  Paths,          \* names of files the poller accepts in /watch
  Contents,       \* what a RAW file may hold; the SHA-256 is taken as injective
  Corrupt,        \* the contents the converter rejects
  NoFile,         \* "there is nothing here"
  Torn,           \* a DNG or an archived file that was left unfinished
  Fingerprint,    \* compute_fast_fingerprint of a content, or of a missing file
  Feed,           \* the <<name, content>> pairs a user drops into /watch
  Workers,        \* the converter threads
  MaxRetries,     \* cfg.dead_letter_max_retries
  PollInterval,   \* cfg.poll_interval_sec, in ticks of the clock
  FastFingerprint,\* cfg.fast_fingerprint
  CrossDevice,    \* /watch and /archive are on different file systems
  CacheLimit,     \* kMaxEntries of the fingerprint cache
  Faults,         \* which external calls may fail, and whether the process may crash
  UserEdits,      \* whether the user may also remove or replace a file
  MaxDrops,       \* bound: how often one name is dropped; 1 makes names unique
  MaxFaults,      \* bound: how many of these faults happen
  MaxQueue,       \* bound: entries of the work queue
  MaxSeq          \* bound: sequence numbers

FaultNames == {"crash", "connect", "hash", "lookup", "alloc", "convert", "insert",
               "move", "range", "alert"}
Folders    == {"schema", "duplicates", "failed"}

ASSUME ContentsAssumption ==
  /\ Corrupt \subseteq Contents
  /\ Feed \subseteq Paths \X Contents
  /\ NoFile \notin Contents \cup Paths \cup Folders
  /\ Torn \notin Contents \cup {NoFile}
  /\ DOMAIN Fingerprint = Contents \cup {NoFile}

ASSUME BoundsAssumption ==
  /\ MaxRetries \in Nat \ {0} /\ PollInterval \in Nat \ {0}
  /\ CacheLimit \in Nat \ {0}
  /\ MaxDrops \in Nat /\ MaxFaults \in Nat /\ MaxQueue \in Nat /\ MaxSeq \in Nat

ASSUME SwitchesAssumption ==
  /\ FastFingerprint \in BOOLEAN /\ CrossDevice \in BOOLEAN
  /\ UserEdits \in BOOLEAN /\ Faults \subseteq FaultNames

VARIABLES
  \* the file systems
  watch,        \* /watch: Paths -> content or NoFile
  young,        \* files modified within the debounce window
  archive,      \* /archive/<schema>, /archive/duplicates, /archive/failed
  output,       \* IMG_n.dng under /output: the content it was converted from
  \* the database
  nextSeq,      \* AUTO_INCREMENT of sequences
  imports,      \* rows of imports: sequence, source path, source and output hash
  legacy,       \* the rows of imports with status "legacy"
  alerts,       \* rows of alerts
  \* Worker::Impl, shared under mtx
  files,        \* the work queue
  seen,         \* path -> ticks since it was queued (evicted after the TTL)
  fail_counts,  \* path -> failures of the file so far
  inflight,     \* paths owned by a worker
  fp_cache,     \* path -> fingerprint and SHA-256
  \* the poller thread
  poller, scan, cand, sinceScan,
  \* the worker threads
  pc,           \* where each worker is
  job,          \* the locals of its ProcessFile
  \* history, read by the properties only
  drops,        \* how often each name was dropped
  entrusted,    \* contents the user handed over and did not take back
  failures,     \* failed passes over the file that bears the name now
  faults        \* faults so far

disk     == <<watch, young, archive, output>>
database == <<nextSeq, imports, legacy, alerts>>
memory   == <<files, seen, fail_counts, inflight, fp_cache>>
pollVars == <<poller, scan, cand, sinceScan>>
workVars == <<pc, job>>
ledger   == <<drops, entrusted, failures>>
history  == <<ledger, faults>>
vars     == <<disk, database, memory, pollVars, workVars, history>>

TTL     == 2 * PollInterval
Seqs    == 1..MaxSeq
Hashes  == Contents \cup {NoFile}
Prints  == {Fingerprint[c] : c \in Hashes}

Ages    == 0..(TTL + 1)      \* ages beyond the TTL are all alike
Older(a) == IF a <= TTL THEN a + 1 ELSE a

Fails(f)  == f \in Faults /\ faults < MaxFaults /\ faults' = faults + 1
NoFault   == UNCHANGED faults

Entry == [print : Prints, hash : Contents]

(* A path, its fingerprint and hash, the sequence allocated for it (0:     *)
(* none), the folder of /archive it is on its way to and the source that   *)
(* move_file holds open.                                                   *)
Job   == [path : Paths \cup {NoFile}, print : Prints, hash : Hashes,
          seq : 0..MaxSeq, to : Folders \cup {NoFile}, held : Hashes]
NoJob == [path |-> NoFile, print |-> Fingerprint[NoFile], hash |-> NoFile,
          seq |-> 0, to |-> NoFile, held |-> NoFile]

Init ==
  /\ watch = [p \in Paths |-> NoFile] /\ young = {}
  /\ archive = [d \in Folders |-> [p \in Paths |-> NoFile]]
  /\ output = [s \in Seqs |-> NoFile]
  /\ nextSeq = 1 /\ imports = {} /\ legacy = {} /\ alerts = {}
  /\ files = <<>> /\ seen = << >> /\ fail_counts = [p \in Paths |-> 0]
  /\ inflight = {} /\ fp_cache = << >>
  /\ poller = "sleep" /\ scan = {} /\ cand = NoFile /\ sinceScan = PollInterval
  /\ pc = [w \in Workers |-> "connect"] /\ job = [w \in Workers |-> NoJob]
  /\ drops = [p \in Paths |-> 0] /\ entrusted = {}
  /\ failures = [p \in Paths |-> 0] /\ faults = 0

-----------------------------------------------------------------------------
(* The user's side of /watch.                                              *)

Arrive(p, c) ==
  /\ watch' = [watch EXCEPT ![p] = c]
  /\ young' = young \cup {p}
  /\ drops' = [drops EXCEPT ![p] = @ + 1]
  /\ failures' = [failures EXCEPT ![p] = 0]
  /\ UNCHANGED <<archive, output, database, memory, pollVars, workVars, faults>>

Drop(p, c) ==
  /\ <<p, c>> \in Feed /\ watch[p] = NoFile /\ drops[p] < MaxDrops
  /\ Arrive(p, c)
  /\ entrusted' = entrusted \cup {c}

Replace(p, c) ==
  /\ UserEdits /\ <<p, c>> \in Feed /\ drops[p] < MaxDrops
  /\ watch[p] \notin {NoFile, c}
  /\ Arrive(p, c)
  /\ entrusted' = (entrusted \ {watch[p]}) \cup {c}

Remove(p) ==
  /\ UserEdits /\ watch[p] # NoFile
  /\ watch' = [watch EXCEPT ![p] = NoFile] /\ young' = young \ {p}
  /\ entrusted' = entrusted \ {watch[p]}
  /\ UNCHANGED <<archive, output, database, memory, pollVars, workVars,
                 drops, failures, faults>>

User == \E p \in Paths : Remove(p) \/ \E c \in Contents : Drop(p, c) \/ Replace(p, c)

(* Time passes: queued paths age, freshly written files leave the debounce *)
(* window, and the next scan comes closer; once it is due, how long it has *)
(* been due does not matter.                                               *)
Tick ==
  /\ sinceScan' = IF poller = "sleep" /\ sinceScan >= PollInterval
                    THEN sinceScan ELSE Older(sinceScan)
  /\ seen' = [p \in DOMAIN seen |-> Older(seen[p])]
  /\ young' = {}
  /\ UNCHANGED <<watch, archive, output, database, files, fail_counts, inflight,
                 fp_cache, poller, scan, cand, workVars, history>>

(* ReconcileLibrary: a legacy row for every IMG_n.dng, whose absolute path *)
(* it looks for among the source paths, where no /output path is; then one *)
(* more number, as the counter is past the greatest n already.             *)
Placeholders == {[seq |-> s, out |-> output[s]] : s \in {t \in Seqs : output[t] # NoFile}}
Reserved == IF Placeholders # {} /\ nextSeq <= MaxSeq THEN nextSeq + 1 ELSE nextSeq

(* The process dies and is started again.                                  *)
Crash ==
  /\ Fails("crash")
  /\ files' = <<>> /\ seen' = << >> /\ fail_counts' = [p \in Paths |-> 0]
  /\ inflight' = {} /\ fp_cache' = << >>
  /\ poller' = "sleep" /\ scan' = {} /\ cand' = NoFile /\ sinceScan' = PollInterval
  /\ pc' = [w \in Workers |-> "connect"] /\ job' = [w \in Workers |-> NoJob]
  /\ legacy' = legacy \cup Placeholders /\ nextSeq' = Reserved
  /\ UNCHANGED <<disk, imports, alerts, ledger>>

-----------------------------------------------------------------------------
(* The poller: PollLoop.                                                   *)

(* cleanup_seen_ttl *)
SeenWithinTTL == Restrict(seen, {p \in DOMAIN seen : seen[p] <= TTL})

StartScan ==
  /\ poller = "sleep" /\ sinceScan >= PollInterval
  /\ poller' = "scan" /\ scan' = {p \in Paths : watch[p] # NoFile} /\ sinceScan' = 0
  /\ UNCHANGED <<disk, database, memory, cand, workVars, history>>

(* The directory iterator comes to a name that was there when the scan     *)
(* began; the file counts if it still is and has settled.                  *)
Visit(p) ==
  /\ poller = "scan" /\ p \in scan
  /\ IF watch[p] # NoFile /\ p \notin young
       THEN poller' = "enqueue" /\ cand' = p
       ELSE UNCHANGED <<poller, cand>>
  /\ scan' = scan \ {p}
  /\ UNCHANGED <<disk, database, memory, sinceScan, workVars, history>>

(* The critical section: not a file a worker owns, not one seen within the *)
(* TTL, whose entry is left to expire.  A new entry carries the time the   *)
(* scan began.                                                             *)
SeenNow == [p \in DOMAIN seen \cup {cand} |-> IF p = cand THEN sinceScan ELSE seen[p]]
SeenRefreshed == IF cand \in DOMAIN seen THEN SeenNow ELSE seen   \* a mutant's
SeenKept == seen

Enqueue ==
  /\ poller = "enqueue"
  /\ IF cand \in inflight \/ cand \in DOMAIN seen
       THEN seen' = SeenKept /\ UNCHANGED files
       ELSE seen' = SeenNow /\ files' = Append(files, cand) /\ Len(files) < MaxQueue
  /\ poller' = "scan" /\ cand' = NoFile
  /\ UNCHANGED <<disk, database, fail_counts, inflight, fp_cache, scan, sinceScan,
                 workVars, history>>

EndScan ==
  /\ poller = "scan" /\ scan = {}
  /\ poller' = "sleep" /\ seen' = SeenWithinTTL
  /\ sinceScan' = IF sinceScan < PollInterval THEN sinceScan ELSE PollInterval
  /\ UNCHANGED <<disk, database, files, fail_counts, inflight, fp_cache, scan, cand,
                 workVars, history>>

(* A turn of the loop between two scans.                                   *)
Idle ==
  /\ poller = "sleep" /\ sinceScan < PollInterval
  /\ seen' = SeenWithinTTL
  /\ UNCHANGED <<disk, database, files, fail_counts, inflight, fp_cache, pollVars,
                 workVars, history>>

Poll == StartScan \/ (\E p \in Paths : Visit(p)) \/ Enqueue \/ EndScan \/ Idle

-----------------------------------------------------------------------------
(* The workers: WorkerThread, ProcessFile, move_to_dead_letter.            *)

Goto(w, label) == pc' = [pc EXCEPT ![w] = label]
Finish(w)      == Goto(w, "idle") /\ job' = [job EXCEPT ![w] = NoJob]

(* CreateConnection, up to five times; then the thread gives up for good.  *)
Connect(w) ==
  /\ pc[w] = "connect"
  /\ \/ Goto(w, "idle") /\ NoFault
     \/ Goto(w, "exited") /\ Fails("connect")
  /\ UNCHANGED <<disk, database, memory, pollVars, job, ledger>>

Pop(w) ==
  /\ pc[w] = "idle" /\ files # <<>>
  /\ files' = Tail(files) /\ inflight' = inflight \cup {Head(files)}
  /\ job' = [job EXCEPT ![w].path = Head(files)]
  /\ Goto(w, IF FastFingerprint THEN "fingerprint" ELSE "hash")
  /\ UNCHANGED <<disk, database, seen, fail_counts, fp_cache, pollVars, history>>

TakeFingerprint(w) ==
  /\ pc[w] = "fingerprint"
  /\ job' = [job EXCEPT ![w].print = Fingerprint[watch[job[w].path]]]
  /\ Goto(w, "lookup")
  /\ UNCHANGED <<disk, database, memory, pollVars, history>>

(* A cached entry of the path with the same fingerprint stands for the     *)
(* hash.                                                                   *)
KeyedByPrint(w) ==                                                \* a mutant's
  LET same == {q \in DOMAIN fp_cache : fp_cache[q].print = job[w].print}
  IN IF same = {} THEN job[w].path ELSE CHOOSE q \in same : TRUE
CacheKey(w) == job[w].path

LookUp(w) ==
  /\ pc[w] = "lookup"
  /\ LET p == CacheKey(w) IN
       IF p \in DOMAIN fp_cache /\ fp_cache[p].print = job[w].print
         THEN job' = [job EXCEPT ![w].hash = fp_cache[p].hash] /\ Goto(w, "dedup")
         ELSE UNCHANGED job /\ Goto(w, "hash")
  /\ UNCHANGED <<disk, database, memory, pollVars, history>>

(* sha256_file of the source; no hash if it cannot be opened.              *)
HashFailed(h) == h = NoFile

Hash(w) ==
  /\ pc[w] = "hash"
  /\ \E h \in {watch[job[w].path], NoFile} :
       /\ IF h = watch[job[w].path] THEN NoFault ELSE Fails("hash")
       /\ job' = [job EXCEPT ![w].hash = h]
       /\ Goto(w, IF HashFailed(h) THEN "dlRelease"
                  ELSE IF FastFingerprint THEN "store" ELSE "dedup")
  /\ UNCHANGED <<disk, database, memory, pollVars, ledger>>

(* The new entry was seen last, so evict_fp_cache drops another one.       *)
Store(w) ==
  /\ pc[w] = "store"
  /\ LET p == job[w].path
         keep == DOMAIN fp_cache \cup {p}
         entry == [print |-> job[w].print, hash |-> job[w].hash]
     IN \E out \in IF Cardinality(keep) > CacheLimit
                     THEN {{q} : q \in keep \ {p}} ELSE {{}} :
          fp_cache' = [q \in keep \ out |-> IF q = p THEN entry ELSE fp_cache[q]]
  /\ Goto(w, "dedup")
  /\ UNCHANGED <<disk, database, files, seen, fail_counts, inflight, pollVars, job,
                 history>>

(* GetImportByHash; a read that fails looks like "no such import".         *)
Known(h) == \E r \in imports : r.src = h
DuplicateUnderName(w) ==                                          \* a mutant's
  \E r \in imports : r.src = job[w].hash /\ r.path = job[w].path
Duplicate(w) == Known(job[w].hash)

Dedup(w) ==
  /\ pc[w] = "dedup"
  /\ \/ NoFault /\ Goto(w, IF Duplicate(w) THEN "clear" ELSE "alloc")
     \/ Fails("lookup") /\ Goto(w, "alloc")
  /\ UNCHANGED <<disk, database, memory, pollVars, job, ledger>>

(* AllocateSequence: a transaction; one that rolls back may burn a number. *)
AfterLastImport ==                                                \* a mutant's
  1 + CHOOSE n \in 0..MaxSeq : (\A r \in imports : r.seq <= n)
                            /\ (n = 0 \/ \E r \in imports : r.seq = n)
NewSequence == nextSeq

Alloc(w) ==
  /\ pc[w] = "alloc"
  /\ nextSeq <= MaxSeq
  /\ \/ /\ NoFault /\ nextSeq' = NewSequence + 1
        /\ job' = [job EXCEPT ![w].seq = NewSequence] /\ Goto(w, "convert")
     \/ /\ Fails("alloc") /\ nextSeq' \in {nextSeq, nextSeq + 1}
        /\ Goto(w, "dlRelease") /\ UNCHANGED job
  /\ UNCHANGED <<disk, imports, legacy, alerts, memory, pollVars, ledger>>

(* dnglab convert -f: overwrites the target; one that fails or is killed   *)
(* after five minutes may leave part of a file.                            *)
ExitCodeIgnored(w)  == Goto(w, "clear")                           \* a mutant's
ConversionFailed(w) == Goto(w, "dlRelease")

Convert(w) ==
  /\ pc[w] = "convert"
  /\ LET c == watch[job[w].path] IN
       \/ /\ c \in Contents \ Corrupt /\ NoFault
          /\ output' = [output EXCEPT ![job[w].seq] = c] /\ Goto(w, "clear")
       \/ /\ c \in Corrupt \cup {NoFile} /\ NoFault
          /\ UNCHANGED output /\ ConversionFailed(w)
       \/ /\ Fails("convert")
          /\ output' = [output EXCEPT ![job[w].seq] = Torn] /\ ConversionFailed(w)
  /\ UNCHANGED <<watch, young, archive, database, memory, pollVars, job, ledger>>

(* The failure history is erased, after a conversion and for a duplicate.  *)
Clear(w) ==
  /\ pc[w] = "clear"
  /\ fail_counts' = [fail_counts EXCEPT ![job[w].path] = 0]
  /\ IF job[w].seq # 0
       THEN Goto(w, "insert") /\ UNCHANGED job
       ELSE Goto(w, "move") /\ job' = [job EXCEPT ![w].to = "duplicates"]
  /\ UNCHANGED <<disk, database, files, seen, inflight, fp_cache, pollVars, history>>

(* InsertImport; the caller does not look at its result.                   *)
NewImport(w) == [seq |-> job[w].seq, path |-> job[w].path, src |-> job[w].hash,
                 out |-> output[job[w].seq]]

Insert(w) ==
  /\ pc[w] = "insert"
  /\ \/ imports' = imports \cup {NewImport(w)} /\ NoFault
     \/ UNCHANGED imports /\ Fails("insert")
  /\ Goto(w, "move") /\ job' = [job EXCEPT ![w].to = "schema"]
  /\ UNCHANGED <<disk, nextSeq, legacy, alerts, memory, pollVars, ledger>>

-----------------------------------------------------------------------------
(* move_file: rename, or across devices open and truncate the target, copy, *)
(* and remove whatever bears the source's name by then.                    *)

TakeAway(p) == watch' = [watch EXCEPT ![p] = NoFile] /\ young' = young \ {p}
DeleteDuplicate(w, c) ==                                          \* a mutant's
  archive' = IF job[w].to = "duplicates" THEN archive
             ELSE [archive EXCEPT ![job[w].to][job[w].path] = c]
Place(w, c) == archive' = [archive EXCEPT ![job[w].to][job[w].path] = c]

Moved(w)      == Goto(w, IF job[w].to = "failed" THEN "alert" ELSE "release")
MoveFailed(w) == Goto(w, "release") /\ UNCHANGED <<watch, young>>

Move(w) ==
  /\ pc[w] = "move"
  /\ LET p == job[w].path IN
       \/ /\ watch[p] # NoFile /\ ~CrossDevice /\ NoFault
          /\ Place(w, watch[p]) /\ TakeAway(p) /\ Moved(w) /\ UNCHANGED job
       \/ /\ watch[p] # NoFile /\ CrossDevice /\ NoFault
          /\ job' = [job EXCEPT ![w].held = watch[p]]
          /\ Place(w, Torn) /\ Goto(w, "copy") /\ UNCHANGED <<watch, young>>
       \/ /\ IF watch[p] = NoFile THEN NoFault ELSE Fails("move")
          /\ MoveFailed(w) /\ UNCHANGED <<archive, job>>
  /\ UNCHANGED <<output, database, memory, pollVars, ledger>>

(* copy_file_range reads the file that was opened; where it gives up,      *)
(* copy_file opens whatever bears the name by then.                        *)
Copy(w) ==
  /\ pc[w] = "copy"
  /\ LET found == watch[job[w].path] IN
       \/ /\ Place(w, job[w].held) /\ NoFault
          /\ Goto(w, "unlink") /\ UNCHANGED <<watch, young>>
       \/ /\ found # NoFile /\ Fails("range")
          /\ Place(w, found) /\ Goto(w, "unlink") /\ UNCHANGED <<watch, young>>
       \/ /\ Fails("move") \/ (Fails("range") /\ found = NoFile)
          /\ MoveFailed(w) /\ UNCHANGED archive
  /\ UNCHANGED <<output, database, memory, pollVars, job, ledger>>

Unlink(w) ==
  /\ pc[w] = "unlink"
  /\ \/ TakeAway(job[w].path) /\ Moved(w) /\ NoFault
     \/ Fails("move") /\ MoveFailed(w)
  /\ UNCHANGED <<archive, output, database, memory, pollVars, job, ledger>>

-----------------------------------------------------------------------------
(* move_to_dead_letter: the path is released before the failure is counted. *)

StillOwned(w) == inflight                                         \* a mutant's
Released(w)   == inflight \ {job[w].path}

ReleaseForRetry(w) ==
  /\ pc[w] = "dlRelease"
  /\ inflight' = Released(w)
  /\ Goto(w, "dlCount")
  /\ UNCHANGED <<disk, database, files, seen, fail_counts, fp_cache, pollVars, job,
                 history>>

OneTooMany(count) == count > MaxRetries                           \* a mutant's
OneTooFew(count)  == count + 1 >= MaxRetries                      \* a mutant's
DeadLetter(count) == count >= MaxRetries

CountFailure(w) ==
  /\ pc[w] = "dlCount"
  /\ LET p == job[w].path
         count == fail_counts[p] + 1
     IN /\ failures' = [failures EXCEPT ![p] = IF @ < MaxRetries THEN @ + 1 ELSE @]
        /\ IF DeadLetter(count)
             THEN /\ fail_counts' = [fail_counts EXCEPT ![p] = 0]
                  /\ job' = [job EXCEPT ![w].to = "failed"] /\ Goto(w, "move")
             ELSE /\ fail_counts' = [fail_counts EXCEPT ![p] = count]
                  /\ UNCHANGED job /\ Goto(w, "release")
  /\ UNCHANGED <<disk, database, files, seen, inflight, fp_cache, pollVars, drops,
                 entrusted, faults>>

Alert(w) ==
  /\ pc[w] = "alert"
  /\ \/ alerts' = alerts \cup {job[w].path} /\ NoFault
     \/ UNCHANGED alerts /\ Fails("alert")
  /\ Goto(w, "release")
  /\ UNCHANGED <<disk, nextSeq, imports, legacy, memory, pollVars, job, ledger>>

(* The end of ProcessFile.  A pass that failed before it converted returns *)
(* at once; every other one releases the path, a failed conversion for the *)
(* second time.                                                            *)
Release(w) ==
  /\ pc[w] = "release"
  /\ inflight' = IF job[w].to # "duplicates" /\ job[w].seq = 0
                   THEN inflight ELSE Released(w)
  /\ Finish(w)
  /\ UNCHANGED <<disk, database, files, seen, fail_counts, fp_cache, pollVars, history>>

Work(w) ==
  \/ Connect(w) \/ Pop(w) \/ TakeFingerprint(w) \/ LookUp(w) \/ Hash(w) \/ Store(w)
  \/ Dedup(w) \/ Alloc(w) \/ Convert(w) \/ Clear(w) \/ Insert(w)
  \/ Move(w) \/ Copy(w) \/ Unlink(w)
  \/ ReleaseForRetry(w) \/ CountFailure(w) \/ Alert(w) \/ Release(w)

Next == User \/ Tick \/ Crash \/ Poll \/ \E w \in Workers : Work(w)

Spec == Init /\ [][Next]_vars

(* The scheduler runs every thread, and time passes; nothing obliges the   *)
(* user to act or the process to crash.                                    *)
Fairness == WF_vars(Tick) /\ WF_vars(Poll) /\ \A w \in Workers : WF_vars(Work(w))

FairSpec == Spec /\ Fairness

-----------------------------------------------------------------------------
(* Properties.                                                             *)

Idlers == {"connect", "idle", "exited"}
Labels == Idlers \cup {"fingerprint", "lookup", "hash", "store", "dedup", "alloc",
  "convert", "clear", "insert", "move", "copy", "unlink", "dlRelease", "dlCount",
  "alert", "release"}

(* Every variable keeps its type, the queue and the counters stay within   *)
(* their bounds, and a worker has a path exactly while it processes a file *)
(* (Worker::Impl, worker.cpp:24-57).                                       *)
DiskOK ==
  /\ watch \in [Paths -> Hashes] /\ young \subseteq Paths
  /\ archive \in [Folders -> [Paths -> Hashes \cup {Torn}]]
  /\ output \in [Seqs -> Hashes \cup {Torn}]
DatabaseOK ==
  /\ nextSeq \in 1..(MaxSeq + 1) /\ alerts \subseteq Paths
  /\ imports \subseteq [seq : Seqs, path : Paths, src : Hashes, out : Hashes \cup {Torn}]
  /\ legacy \subseteq [seq : Seqs, out : Hashes \cup {Torn}]
MemoryOK ==
  /\ files \in Seq(Paths) /\ Len(files) <= MaxQueue
  /\ DOMAIN seen \subseteq Paths /\ seen \in [DOMAIN seen -> Ages]
  /\ fail_counts \in [Paths -> 0..(MaxRetries - 1)] /\ inflight \subseteq Paths
  /\ DOMAIN fp_cache \subseteq Paths
  /\ fp_cache \in [DOMAIN fp_cache -> Entry]
PollerOK ==
  /\ poller \in {"sleep", "scan", "enqueue"} /\ scan \subseteq Paths
  /\ cand \in Paths \cup {NoFile} /\ (poller = "enqueue" => cand \in Paths)
  /\ sinceScan \in Ages
WorkersOK ==
  /\ pc \in [Workers -> Labels] /\ job \in [Workers -> Job]
  /\ \A w \in Workers : job[w].path = NoFile <=> pc[w] \in Idlers
HistoryOK ==
  /\ drops \in [Paths -> 0..MaxDrops] /\ faults \in 0..MaxFaults
  /\ entrusted \subseteq Contents /\ failures \in [Paths -> 0..MaxRetries]

TypeOK == DiskOK /\ DatabaseOK /\ MemoryOK /\ PollerOK /\ WorkersOK /\ HistoryOK

(* A finished DNG is never written again: sequence numbers are handed out  *)
(* once, by any number of workers and across restarts, so that dnglab -f   *)
(* (converter.cpp:125-136) never meets an existing file of an earlier run. *)
NoDngOverwritten ==
  [][\A s \in Seqs : output[s] \in Contents => output'[s] = output[s]]_vars

(* AllocateSequence as the abstract dispenser of numbers (db.cpp:245-322): *)
(* a number is one worker's from its allocation to the end of the file,    *)
(* and never anybody's again.                                              *)
Numbering == INSTANCE Dispenser WITH
               Clients <- Workers, Numbers <- Seqs, taken <- 1..(nextSeq - 1),
               hands <- [w \in Workers |-> job[w].seq]

NumberingSpec == Numbering!Spec

(* A row of imports is backed by its DNG: the file is on disk, complete,   *)
(* and still the one whose hash was recorded (worker.cpp:357-387); behind  *)
(* a legacy row there is at least the file that was found                  *)
(* (reconcile.cpp:41-43).                                                  *)
ImportHasDng ==
  /\ \A r \in imports : r.out \in Contents /\ output[r.seq] = r.out
  /\ \A r \in legacy : r.out # NoFile /\ output[r.seq] = r.out

(* The recorded source hash is that of the RAW the DNG was made from: the  *)
(* cache never lends it the hash of another photo that bears the same      *)
(* fingerprint, under another name (worker.cpp:254-267).  The file is read *)
(* again to convert it (351-357), so it holds only while no name comes     *)
(* back with another photo.                                                *)
RecordMatchesConversion == \A r \in imports : r.src = r.out

(* One photo, one import: the duplicate check (worker.cpp:296) keeps a     *)
(* retried, re-dropped, renamed or half-processed file from a second row.  *)
OneImportPerPhoto ==
  \A r1, r2 \in imports : r1.src = r2.src => r1 = r2

(* Nothing is set aside as a duplicate that was never imported: a match in *)
(* the cache "proves the file is byte-identical to what we already hashed" *)
(* (worker.cpp:42-43, 254-315).  It holds while no name comes back; an     *)
(* entry that outlives its file, or was stored for one that came after the *)
(* fingerprint was taken, sets a new photo aside.                          *)
DuplicateWasImported ==
  \A p \in Paths : archive["duplicates"][p] \in Contents =>
    Known(archive["duplicates"][p])

(* An original under its schema folder has its row in imports              *)
(* (worker.cpp:387-403).                                                   *)
ArchivedIsRecorded ==
  \A p \in Paths : archive["schema"][p] \in Contents => Known(archive["schema"][p])

(* Reconciliation skips a DNG the database knows (reconcile.cpp:32-34).    *)
OneRowPerDng == \A r \in imports, l \in legacy : r.seq # l.seq

(* Whatever the user handed over and did not take back is somewhere: in    *)
(* /watch, under /archive, or in a file move_file still holds open         *)
(* (worker.cpp:304 "data-loss fix", util.cpp:175-251).                     *)
Kept(c) ==
  \/ \E p \in Paths : watch[p] = c \/ \E d \in Folders : archive[d][p] = c
  \/ \E w \in Workers : pc[w] = "copy" /\ job[w].held = c

NoOriginalLost == \A c \in entrusted : Kept(c)

(* A file goes to /archive/failed only after MaxRetries failures of its    *)
(* own (worker.cpp:440-450, .env.example "consecutive failures before move *)
(* to /archive/failed/").                                                  *)
DeadLetterDeserved ==
  [][\A p \in Paths :
       archive'["failed"][p] \in Contents /\ archive["failed"][p] # archive'["failed"][p]
         => failures[p] >= MaxRetries]_vars

(* At most one worker is busy with a path (worker.cpp:37-38 and 156-158).  *)
Busy(w) == pc[w] \notin {"dlCount", "alert", "release"} /\ job[w].path # NoFile
NoTwoOwners ==
  \A v, w \in Workers : v # w /\ Busy(v) /\ Busy(w) => job[v].path # job[w].path

(* Every file leaves /watch, however often it fails: it is archived, set   *)
(* aside or dead-lettered (worker.cpp:160-166, 435-477).                   *)
FileLeaves == \A p \in Paths : watch[p] # NoFile ~> watch[p] = NoFile

(* A photo the converter accepts is imported, unless the user takes it     *)
(* back, or uses its name again (worker.cpp:243-415).                      *)
PhotoGetsImported ==
  \A p \in Paths, c \in Contents \ Corrupt :
    watch[p] = c ~> Known(c) \/ c \notin entrusted \/ drops[p] > 1

=============================================================================
