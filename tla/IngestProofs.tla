---------------------------- MODULE IngestProofs ----------------------------
(* What holds of Ingest for every value of its constants.                  *)
EXTENDS Ingest, TLAPS

-----------------------------------------------------------------------------
(* Type correctness.  A step is typed because of where its worker is: the  *)
(* label tells which locals of ProcessFile have been assigned.             *)

Unnumbered == Idlers \cup {"fingerprint", "lookup", "hash", "store", "dedup", "alloc"}

LocalsOK(w) ==
  /\ pc[w] = "store" => job[w].hash \in Contents
  /\ pc[w] \in Unnumbered => job[w].seq = 0
  /\ pc[w] \in {"convert", "insert"} => job[w].seq \in Seqs
  /\ pc[w] \in {"move", "copy", "unlink"} => job[w].to \in Folders

TypeInv == TypeOK /\ \A w \in Workers : LocalsOK(w)

(* A started process has every variable in its type (worker.cpp:24-57).    *)
LEMMA TypeInit == Init => TypeInv
<1> USE ContentsAssumption, BoundsAssumption, SwitchesAssumption
<1> SUFFICES ASSUME Init PROVE TypeInv
  OBVIOUS
<1>1. DiskOK
  BY DEF Init, DiskOK, Hashes
<1>2. DatabaseOK
  BY DEF Init, DatabaseOK
<1>3. MemoryOK
  BY DEF Init, MemoryOK, Ages
<1>4. PollerOK
  BY DEF Init, PollerOK, Ages, TTL
<1>5. WorkersOK /\ \A w \in Workers : LocalsOK(w)
  BY DEF Init, WorkersOK, LocalsOK, Labels, Idlers, Unnumbered, Job, NoJob, Prints, Hashes, Seqs
<1>6. HistoryOK
  BY DEF Init, HistoryOK
<1> QED
  BY <1>1, <1>2, <1>3, <1>4, <1>5, <1>6 DEF TypeInv, TypeOK

(* A group of variables that does not change stays typed.                  *)
LEMMA TypeFrame ==
  ASSUME TypeInv
  PROVE  /\ UNCHANGED disk => DiskOK'
         /\ UNCHANGED database => DatabaseOK'
         /\ UNCHANGED memory => MemoryOK'
         /\ UNCHANGED pollVars => PollerOK'
         /\ UNCHANGED workVars => WorkersOK' /\ \A w \in Workers : LocalsOK(w)'
         /\ UNCHANGED history => HistoryOK'
<1> USE DEF TypeInv, TypeOK
<1>1. UNCHANGED disk => DiskOK'
  BY DEF disk, DiskOK
<1>2. UNCHANGED database => DatabaseOK'
  BY DEF database, DatabaseOK
<1>3. UNCHANGED memory => MemoryOK'
  BY DEF memory, MemoryOK
<1>4. UNCHANGED pollVars => PollerOK'
  BY DEF pollVars, PollerOK
<1>5. UNCHANGED workVars => WorkersOK' /\ \A w \in Workers : LocalsOK(w)'
  BY DEF workVars, WorkersOK, LocalsOK
<1>6. UNCHANGED history => HistoryOK'
  BY DEF history, ledger, HistoryOK
<1> QED BY <1>1, <1>2, <1>3, <1>4, <1>5, <1>6

(* The user, the clock and a crash.                                        *)
LEMMA TypeEnvironment ==
  ASSUME TypeInv, User \/ Tick \/ Crash PROVE TypeInv'
<1> USE ContentsAssumption, BoundsAssumption
<1>1. ASSUME NEW p \in Paths, NEW c \in Contents, Drop(p, c) \/ Replace(p, c) PROVE TypeInv'
  <2>1. DiskOK'
    BY <1>1 DEF Drop, Replace, Arrive, TypeInv, TypeOK, DiskOK, Hashes
  <2>2. HistoryOK'
    BY <1>1 DEF Drop, Replace, Arrive, TypeInv, TypeOK, HistoryOK
  <2> QED
    BY <1>1, <2>1, <2>2, TypeFrame DEF Drop, Replace, Arrive, TypeInv, TypeOK
<1>2. ASSUME NEW p \in Paths, Remove(p) PROVE TypeInv'
  <2>1. DiskOK'
    BY <1>2 DEF Remove, TypeInv, TypeOK, DiskOK, Hashes
  <2>2. HistoryOK'
    BY <1>2 DEF Remove, TypeInv, TypeOK, HistoryOK
  <2> QED
    BY <1>2, <2>1, <2>2, TypeFrame DEF Remove, TypeInv, TypeOK
<1>3. CASE Tick
  <2>1. DiskOK'
    BY <1>3 DEF Tick, TypeInv, TypeOK, DiskOK
  <2>2. MemoryOK'
    BY <1>3 DEF Tick, TypeInv, TypeOK, MemoryOK, Ages, Older, TTL
  <2>3. PollerOK'
    BY <1>3 DEF Tick, TypeInv, TypeOK, PollerOK, Ages, Older, TTL
  <2> QED
    BY <1>3, <2>1, <2>2, <2>3, TypeFrame DEF Tick, TypeInv, TypeOK, database
<1>4. CASE Crash
  <2>1. MemoryOK'
    BY <1>4 DEF Crash, TypeInv, TypeOK, MemoryOK, Ages
  <2>2. PollerOK'
    BY <1>4 DEF Crash, TypeInv, TypeOK, PollerOK, Ages, TTL
  <2>3. WorkersOK' /\ \A w \in Workers : LocalsOK(w)'
    BY <1>4 DEF Crash, WorkersOK, LocalsOK, Labels, Idlers, Unnumbered, Job, NoJob,
         Prints, Hashes, Seqs
  <2>4. HistoryOK'
    BY <1>4 DEF Crash, Fails, ledger, TypeInv, TypeOK, HistoryOK
  <2>5. DatabaseOK'
    <3>1. Placeholders \subseteq [seq : Seqs, out : Hashes \cup {Torn}]
      BY DEF Placeholders, TypeInv, TypeOK, DiskOK
    <3>2. Reserved \in 1..(MaxSeq + 1)
      BY DEF Reserved, TypeInv, TypeOK, DatabaseOK
    <3> QED
      BY <1>4, <3>1, <3>2 DEF Crash, TypeInv, TypeOK, DatabaseOK
  <2> QED
    BY <1>4, <2>1, <2>2, <2>3, <2>4, <2>5, TypeFrame DEF Crash, TypeInv, TypeOK
<1> QED
  BY <1>1, <1>2, <1>3, <1>4 DEF User

(* A step of the poller keeps the types (PollLoop, worker.cpp:124-190).    *)
LEMMA TypePoll ==
  ASSUME TypeInv, Poll PROVE TypeInv'
<1> USE BoundsAssumption
<1>1. CASE StartScan
  <2>1. PollerOK'
    BY <1>1 DEF StartScan, TypeInv, TypeOK, PollerOK, Ages, TTL
  <2> QED
    BY <1>1, <2>1, TypeFrame DEF StartScan, TypeInv, TypeOK
<1>2. ASSUME NEW p \in Paths, Visit(p) PROVE TypeInv'
  <2>1. PollerOK'
    BY <1>2 DEF Visit, TypeInv, TypeOK, PollerOK
  <2> QED
    BY <1>2, <2>1, TypeFrame DEF Visit, TypeInv, TypeOK
<1>3. CASE Enqueue
  <2>1. MemoryOK'
    <3>1. /\ cand \in Paths /\ sinceScan \in Ages /\ MemoryOK
          /\ fail_counts' = fail_counts /\ inflight' = inflight /\ fp_cache' = fp_cache
      BY <1>3 DEF Enqueue, TypeInv, TypeOK, PollerOK
    <3>2. CASE seen' = seen /\ files' = files
      BY <3>1, <3>2 DEF MemoryOK
    <3>3. CASE seen' = SeenNow /\ files' = Append(files, cand) /\ Len(files) < MaxQueue
      <4>1. files' \in Seq(Paths) /\ Len(files') <= MaxQueue
        BY <3>1, <3>3 DEF MemoryOK
      <4>2. DOMAIN seen' \subseteq Paths /\ seen' \in [DOMAIN seen' -> Ages]
        BY <3>1, <3>3 DEF MemoryOK, SeenNow
      <4> QED
        BY <3>1, <4>1, <4>2 DEF MemoryOK
    <3> QED
      BY <1>3, <3>2, <3>3 DEF Enqueue, SeenKept
  <2>2. PollerOK'
    BY <1>3 DEF Enqueue, TypeInv, TypeOK, PollerOK
  <2> QED
    BY <1>3, <2>1, <2>2, TypeFrame DEF Enqueue, TypeInv, TypeOK
<1>4. ASSUME EndScan \/ Idle PROVE TypeInv'
  <2>1. MemoryOK'
    BY <1>4 DEF EndScan, Idle, SeenWithinTTL, Restrict, TypeInv, TypeOK, MemoryOK
  <2>2. PollerOK'
    BY <1>4 DEF EndScan, Idle, pollVars, TypeInv, TypeOK, PollerOK, Ages, TTL
  <2> QED
    BY <1>4, <2>1, <2>2, TypeFrame DEF EndScan, Idle, TypeInv, TypeOK
<1> QED
  BY <1>1, <1>2, <1>3, <1>4 DEF Poll

(* A worker's step: the label and the locals of that worker change, those  *)
(* of the others do not.                                                   *)
LEMMA TypeWorker ==
  ASSUME TypeInv, NEW w \in Workers, NEW l \in Labels, NEW j \in Job,
         pc' = [pc EXCEPT ![w] = l], job' = [job EXCEPT ![w] = j],
         j.path = NoFile <=> l \in Idlers,
         l = "store" => j.hash \in Contents,
         l \in Unnumbered => j.seq = 0,
         l \in {"convert", "insert"} => j.seq \in Seqs,
         l \in {"move", "copy", "unlink"} => j.to \in Folders
  PROVE  WorkersOK' /\ \A v \in Workers : LocalsOK(v)'
<1>1. pc \in [Workers -> Labels] /\ job \in [Workers -> Job]
  BY DEF TypeInv, TypeOK, WorkersOK
<1>2. pc' \in [Workers -> Labels] /\ job' \in [Workers -> Job]
  BY <1>1
<1>3. ASSUME NEW v \in Workers
      PROVE  (job'[v].path = NoFile <=> pc'[v] \in Idlers) /\ LocalsOK(v)'
  <2>1. CASE v = w
    BY <1>1, <2>1 DEF LocalsOK
  <2>2. CASE v # w
    BY <1>1, <2>2 DEF LocalsOK, TypeInv, TypeOK, WorkersOK
  <2> QED BY <2>1, <2>2
<1> QED
  BY <1>2, <1>3 DEF WorkersOK

(* What TypeInv says of one worker, its program counter and its locals.    *)
LEMMA TypeJob ==
  ASSUME TypeInv, NEW w \in Workers
  PROVE  /\ job[w] \in Job /\ pc[w] \in Labels
         /\ job[w].path = NoFile <=> pc[w] \in Idlers
         /\ pc[w] \notin Idlers => job[w].path \in Paths
         /\ LocalsOK(w) /\ job = [job EXCEPT ![w] = job[w]]
  BY DEF TypeInv, TypeOK, WorkersOK, Job

(* A step of a worker keeps the types (worker.cpp:205-477, move_file).     *)
LEMMA TypeWork ==
  ASSUME TypeInv, NEW w \in Workers, Work(w) PROVE TypeInv'
<1> USE BoundsAssumption, ContentsAssumption DEF TypeInv, TypeOK
<1>1. CASE Connect(w)
  <2>1. WorkersOK' /\ \A v \in Workers : LocalsOK(v)'
    BY <1>1 DEF Connect, Goto, WorkersOK, LocalsOK, Labels, Idlers, Unnumbered, Job
  <2>2. HistoryOK'
    BY <1>1 DEF Connect, Fails, NoFault, HistoryOK, ledger
  <2> QED
    BY <1>1, <2>1, <2>2, TypeFrame DEF Connect, disk, database, memory, history
<1>2. CASE Pop(w)
  <2>1. WorkersOK' /\ \A v \in Workers : LocalsOK(v)'
    <3> DEFINE j == [job[w] EXCEPT !.path = Head(files)]
               l == IF FastFingerprint THEN "fingerprint" ELSE "hash"
    <3>1. Head(files) \in Paths
      BY <1>2 DEF Pop, MemoryOK
    <3>2. j \in Job /\ j.path # NoFile /\ j.seq = 0 /\ l \in {"fingerprint", "hash"}
      BY <1>2, <3>1, TypeJob DEF Pop, Job, Idlers, LocalsOK, Unnumbered
    <3>3. pc' = [pc EXCEPT ![w] = l] /\ job' = [job EXCEPT ![w] = j]
      BY <1>2 DEF Pop, Goto
    <3> QED
      BY <3>2, <3>3, TypeWorker DEF Labels, Idlers
  <2>2. MemoryOK'
    <3>1. files \in Seq(Paths) /\ files # << >> /\ Len(files) <= MaxQueue
      BY <1>2 DEF Pop, MemoryOK
    <3>2. /\ Head(files) \in Paths /\ Tail(files) \in Seq(Paths)
          /\ Len(Tail(files)) <= MaxQueue
      BY <3>1
    <3>3. /\ files' = Tail(files) /\ inflight' = inflight \cup {Head(files)}
          /\ UNCHANGED <<seen, fail_counts, fp_cache>>
      BY <1>2 DEF Pop
    <3> QED
      BY <3>1, <3>2, <3>3 DEF MemoryOK
  <2> QED
    BY <1>2, <2>1, <2>2, TypeFrame DEF Pop, disk, database, memory, history
<1>3. CASE TakeFingerprint(w)
  <2>1. WorkersOK' /\ \A v \in Workers : LocalsOK(v)'
    <3> DEFINE j == [job[w] EXCEPT !.print = Fingerprint[watch[job[w].path]]]
    <3>1. job[w].path \in Paths /\ job[w].seq = 0
      BY <1>3, TypeJob DEF TakeFingerprint, Idlers, LocalsOK, Unnumbered
    <3>2. Fingerprint[watch[job[w].path]] \in Prints
      BY <3>1 DEF DiskOK, Prints
    <3>3. j \in Job /\ j.path # NoFile /\ j.seq = 0
      BY <3>1, <3>2, TypeJob DEF Job
    <3>4. pc' = [pc EXCEPT ![w] = "lookup"] /\ job' = [job EXCEPT ![w] = j]
      BY <1>3 DEF TakeFingerprint, Goto
    <3> QED
      BY <3>3, <3>4, TypeWorker DEF Labels, Idlers
  <2> QED
    BY <1>3, <2>1, TypeFrame DEF TakeFingerprint, disk, database, memory, history
<1>4. CASE LookUp(w)
  <2>1. WorkersOK' /\ \A v \in Workers : LocalsOK(v)'
    <3>1. job[w] \in Job /\ job[w].path \in Paths /\ job[w].seq = 0
      BY <1>4, TypeJob DEF LookUp, Idlers, LocalsOK, Unnumbered
    <3>2. CASE UNCHANGED job /\ Goto(w, "hash")
      BY <3>1, <3>2, TypeJob, TypeWorker DEF Goto, Labels, Idlers
    <3>3. ASSUME job[w].path \in DOMAIN fp_cache,
                 job' = [job EXCEPT ![w].hash = fp_cache[job[w].path].hash], Goto(w, "dedup")
          PROVE  WorkersOK' /\ \A v \in Workers : LocalsOK(v)'
      <4> DEFINE j == [job[w] EXCEPT !.hash = fp_cache[job[w].path].hash]
      <4>1. fp_cache[job[w].path].hash \in Hashes
        BY <3>3 DEF MemoryOK, Entry, Hashes
      <4>2. j \in Job /\ j.path # NoFile /\ j.seq = 0
        BY <3>1, <4>1 DEF Job
      <4> QED
        BY <3>3, <4>2, TypeWorker DEF Goto, Labels, Idlers
    <3> QED
      BY <1>4, <3>2, <3>3 DEF LookUp, CacheKey
  <2> QED
    BY <1>4, <2>1, TypeFrame DEF LookUp, disk, database, memory, history
<1>5. CASE Hash(w)
  <2>1. WorkersOK' /\ \A v \in Workers : LocalsOK(v)'
    <3>1. job[w] \in Job /\ job[w].path \in Paths /\ job[w].seq = 0
      BY <1>5, TypeJob DEF Hash, Idlers, LocalsOK, Unnumbered
    <3> DEFINE l(h) == IF HashFailed(h) THEN "dlRelease"
                       ELSE IF FastFingerprint THEN "store" ELSE "dedup"
    <3>2. PICK h \in {watch[job[w].path], NoFile} :
            job' = [job EXCEPT ![w].hash = h] /\ Goto(w, l(h))
      BY <1>5 DEF Hash
    <3> DEFINE j == [job[w] EXCEPT !.hash = h]
    <3>3. h \in Hashes
      BY <3>1, <3>2 DEF DiskOK, Hashes
    <3>4. j \in Job /\ j.path # NoFile /\ j.seq = 0 /\ j.hash = h
      BY <3>1, <3>3 DEF Job
    <3>5. l(h) \in {"dlRelease", "store", "dedup"} /\ (l(h) = "store" => h \in Contents)
      BY <3>3 DEF HashFailed, Hashes
    <3>6. l(h) \in Labels \ Idlers
      BY <3>5 DEF Labels, Idlers
    <3> HIDE DEF j, l
    <3> QED
      BY <3>2, <3>4, <3>5, <3>6, TypeWorker DEF j, Goto
  <2>2. HistoryOK'
    BY <1>5 DEF Hash, Fails, NoFault, HistoryOK, ledger
  <2> QED
    BY <1>5, <2>1, <2>2, TypeFrame DEF Hash, disk, database, memory, history
<1>6. CASE Store(w)
  <2>1. WorkersOK' /\ \A v \in Workers : LocalsOK(v)'
    BY <1>6 DEF Store, Goto, WorkersOK, LocalsOK, Labels, Idlers, Unnumbered, Job
  <2>2. MemoryOK'
    <3> DEFINE p == job[w].path
               entry == [print |-> job[w].print, hash |-> job[w].hash]
    <3>1. p \in Paths /\ entry \in Entry
      BY <1>6, TypeJob DEF Store, Idlers, LocalsOK, Job, Entry
    <3>2. PICK out : fp_cache' = [q \in (DOMAIN fp_cache \cup {p}) \ out |->
                                    IF q = p THEN entry ELSE fp_cache[q]]
      BY <1>6 DEF Store
    <3>3. DOMAIN fp_cache \subseteq Paths /\ \A q \in DOMAIN fp_cache : fp_cache[q] \in Entry
      BY DEF MemoryOK
    <3> HIDE DEF p, entry
    <3>4. DOMAIN fp_cache' \subseteq Paths /\ fp_cache' \in [DOMAIN fp_cache' -> Entry]
      BY <3>1, <3>2, <3>3
    <3>5. UNCHANGED <<files, seen, fail_counts, inflight>>
      BY <1>6 DEF Store
    <3> QED
      BY <3>4, <3>5 DEF MemoryOK
  <2> QED
    BY <1>6, <2>1, <2>2, TypeFrame DEF Store, disk, database, memory, history
<1>7. CASE Dedup(w)
  <2>1. WorkersOK' /\ \A v \in Workers : LocalsOK(v)'
    BY <1>7 DEF Dedup, Goto, WorkersOK, LocalsOK, Labels, Idlers, Unnumbered, Job
  <2>2. HistoryOK'
    BY <1>7 DEF Dedup, Fails, NoFault, HistoryOK, ledger
  <2> QED
    BY <1>7, <2>1, <2>2, TypeFrame DEF Dedup, disk, database, memory, history
<1>8. CASE Alloc(w)
  <2>1. WorkersOK' /\ \A v \in Workers : LocalsOK(v)'
    <3>1. job[w] \in Job /\ job[w].path \in Paths /\ nextSeq \in Seqs
      BY <1>8, TypeJob DEF Alloc, DatabaseOK, Idlers, Seqs
    <3>2. CASE UNCHANGED job /\ Goto(w, "dlRelease")
      BY <3>1, <3>2, TypeJob, TypeWorker DEF Goto, Labels, Idlers, Unnumbered
    <3>3. ASSUME job' = [job EXCEPT ![w].seq = nextSeq], Goto(w, "convert")
          PROVE  WorkersOK' /\ \A v \in Workers : LocalsOK(v)'
      <4> DEFINE j == [job[w] EXCEPT !.seq = nextSeq]
      <4>1. j \in Job /\ j.path # NoFile /\ j.seq \in Seqs
        BY <3>1 DEF Job, Seqs
      <4> QED
        BY <3>3, <4>1, TypeWorker DEF Goto, Labels, Idlers, Unnumbered
    <3> QED
      BY <1>8, <3>2, <3>3 DEF Alloc, NewSequence
  <2>2. DatabaseOK'
    BY <1>8 DEF Alloc, DatabaseOK, NewSequence
  <2>3. HistoryOK'
    BY <1>8 DEF Alloc, Fails, NoFault, HistoryOK, ledger
  <2> QED
    BY <1>8, <2>1, <2>2, <2>3, TypeFrame DEF Alloc, disk, database, memory, history
<1>9. CASE Convert(w)
  <2>1. WorkersOK' /\ \A v \in Workers : LocalsOK(v)'
    BY <1>9 DEF Convert, Goto, WorkersOK, LocalsOK, Labels, Idlers, Unnumbered, Job, ConversionFailed
  <2>2. DiskOK'
    BY <1>9 DEF Convert, DiskOK, ConversionFailed, LocalsOK, Hashes
  <2>3. HistoryOK'
    BY <1>9 DEF Convert, Fails, NoFault, HistoryOK, ledger
  <2> QED
    BY <1>9, <2>1, <2>2, <2>3, TypeFrame DEF Convert, disk, database, memory, history
<1>10. CASE Clear(w)
  <2>1. WorkersOK' /\ \A v \in Workers : LocalsOK(v)'
    <3>1. job[w] \in Job /\ job[w].path \in Paths
      BY <1>10, TypeJob DEF Clear, Idlers
    <3>2. CASE UNCHANGED job /\ Goto(w, "insert") /\ job[w].seq # 0
      <4>1. job[w].seq \in Seqs
        BY <3>1, <3>2 DEF Job, Seqs
      <4>2. job' = [job EXCEPT ![w] = job[w]]
        BY <3>2 DEF TypeInv, TypeOK, WorkersOK
      <4> QED
        BY <3>1, <3>2, <4>1, <4>2, TypeWorker DEF Goto, Labels, Idlers, Unnumbered
    <3>3. ASSUME job' = [job EXCEPT ![w].to = "duplicates"], Goto(w, "move")
          PROVE  WorkersOK' /\ \A v \in Workers : LocalsOK(v)'
      <4> DEFINE j == [job[w] EXCEPT !.to = "duplicates"]
      <4>1. j \in Job /\ j.path # NoFile /\ j.to \in Folders
        BY <3>1 DEF Job, Folders
      <4> QED
        BY <3>3, <4>1, TypeWorker DEF Goto, Labels, Idlers, Unnumbered
    <3> QED
      BY <1>10, <3>2, <3>3 DEF Clear
  <2>2. MemoryOK'
    <3>1. fail_counts' = [fail_counts EXCEPT ![job[w].path] = 0]
      BY <1>10 DEF Clear
    <3>2. fail_counts' \in [Paths -> 0..(MaxRetries - 1)]
      <4>1. 0 \in 0..(MaxRetries - 1) /\ fail_counts \in [Paths -> 0..(MaxRetries - 1)]
        BY DEF MemoryOK
      <4> QED
        BY <3>1, <4>1
    <3>3. UNCHANGED <<files, seen, inflight, fp_cache>>
      BY <1>10 DEF Clear
    <3> QED
      BY <3>2, <3>3 DEF MemoryOK
  <2> QED
    BY <1>10, <2>1, <2>2, TypeFrame DEF Clear, disk, database, memory, history
<1>11. CASE Insert(w)
  <2>1. WorkersOK' /\ \A v \in Workers : LocalsOK(v)'
    BY <1>11 DEF Insert, Goto, WorkersOK, LocalsOK, Labels, Idlers, Unnumbered, Job, Folders
  <2>2. DatabaseOK'
    BY <1>11 DEF Insert, NewImport, DatabaseOK, WorkersOK, LocalsOK, DiskOK, Job, Idlers
  <2>3. HistoryOK'
    BY <1>11 DEF Insert, Fails, NoFault, HistoryOK, ledger
  <2> QED
    BY <1>11, <2>1, <2>2, <2>3, TypeFrame DEF Insert, disk, database, memory, history
<1>12. CASE Move(w)
  <2>1. WorkersOK' /\ \A v \in Workers : LocalsOK(v)'
    <3>1. /\ job[w] \in Job /\ job[w].path \in Paths
          /\ job[w].to \in Folders /\ watch[job[w].path] \in Hashes
      BY <1>12, TypeJob DEF Move, Idlers, LocalsOK, DiskOK
    <3>2. CASE UNCHANGED job /\ (Goto(w, "alert") \/ Goto(w, "release"))
      BY <3>1, <3>2, TypeJob, TypeWorker DEF Goto, Labels, Idlers, Unnumbered
    <3>3. ASSUME job' = [job EXCEPT ![w].held = watch[job[w].path]], Goto(w, "copy")
          PROVE  WorkersOK' /\ \A v \in Workers : LocalsOK(v)'
      <4> DEFINE j == [job[w] EXCEPT !.held = watch[job[w].path]]
      <4>1. j \in Job /\ j.path # NoFile /\ j.to \in Folders
        BY <3>1 DEF Job
      <4> QED
        BY <3>3, <4>1, TypeWorker DEF Goto, Labels, Idlers, Unnumbered
    <3> QED
      BY <1>12, <3>2, <3>3 DEF Move, Moved, MoveFailed
  <2>2. DiskOK'
    BY <1>12 DEF Move, DiskOK, Place, TakeAway, MoveFailed, Hashes
  <2>3. HistoryOK'
    BY <1>12 DEF Move, Fails, NoFault, HistoryOK, ledger
  <2> QED
    BY <1>12, <2>1, <2>2, <2>3, TypeFrame DEF Move, disk, database, memory, history
<1>13. CASE Copy(w)
  <2>1. WorkersOK' /\ \A v \in Workers : LocalsOK(v)'
    BY <1>13 DEF Copy, Goto, WorkersOK, LocalsOK, Labels, Idlers, Unnumbered, Job, MoveFailed
  <2>2. DiskOK'
    <3>1. /\ job[w] \in Job /\ job[w].path \in Paths /\ job[w].to \in Folders
          /\ watch[job[w].path] \in Hashes
      BY <1>13, TypeJob DEF Copy, Idlers, LocalsOK, DiskOK
    <3>2. /\ UNCHANGED <<watch, young, output>>
          /\ archive' = archive \/ \E c \in Hashes : Place(w, c)
      BY <1>13, <3>1 DEF Copy, MoveFailed, Job
    <3>3. archive' \in [Folders -> [Paths -> Hashes \cup {Torn}]]
      <4>1. archive \in [Folders -> [Paths -> Hashes \cup {Torn}]]
        BY DEF DiskOK
      <4>2. ASSUME NEW c \in Hashes, Place(w, c)
            PROVE  archive' \in [Folders -> [Paths -> Hashes \cup {Torn}]]
        BY <3>1, <4>1, <4>2 DEF Place
      <4> QED
        BY <3>2, <4>1, <4>2
    <3> QED
      BY <3>2, <3>3 DEF DiskOK
  <2>3. HistoryOK'
    BY <1>13 DEF Copy, Fails, NoFault, HistoryOK, ledger
  <2> QED
    BY <1>13, <2>1, <2>2, <2>3, TypeFrame DEF Copy, disk, database, memory, history
<1>14. CASE Unlink(w)
  <2>1. WorkersOK' /\ \A v \in Workers : LocalsOK(v)'
    BY <1>14 DEF Unlink, Goto, WorkersOK, LocalsOK, Labels, Idlers, Unnumbered, Job, Moved, MoveFailed
  <2>2. DiskOK'
    BY <1>14 DEF Unlink, DiskOK, TakeAway, MoveFailed, Hashes
  <2>3. HistoryOK'
    BY <1>14 DEF Unlink, Fails, NoFault, HistoryOK, ledger
  <2> QED
    BY <1>14, <2>1, <2>2, <2>3, TypeFrame DEF Unlink, disk, database, memory, history
<1>15. CASE ReleaseForRetry(w)
  <2>1. WorkersOK' /\ \A v \in Workers : LocalsOK(v)'
    BY <1>15 DEF ReleaseForRetry, Goto, WorkersOK, LocalsOK, Labels, Idlers, Unnumbered, Job
  <2>2. MemoryOK'
    BY <1>15 DEF ReleaseForRetry, MemoryOK, Released
  <2> QED
    BY <1>15, <2>1, <2>2, TypeFrame DEF ReleaseForRetry, disk, database, memory, history
<1>16. CASE CountFailure(w)
  <2>1. WorkersOK' /\ \A v \in Workers : LocalsOK(v)'
    <3>1. job[w] \in Job /\ job[w].path \in Paths
      BY <1>16, TypeJob DEF CountFailure, Idlers
    <3>2. CASE UNCHANGED job /\ Goto(w, "release")
      BY <3>1, <3>2, TypeJob, TypeWorker DEF Goto, Labels, Idlers, Unnumbered
    <3>3. ASSUME job' = [job EXCEPT ![w].to = "failed"], Goto(w, "move")
          PROVE  WorkersOK' /\ \A v \in Workers : LocalsOK(v)'
      <4> DEFINE j == [job[w] EXCEPT !.to = "failed"]
      <4>1. j \in Job /\ j.path # NoFile /\ j.to \in Folders
        BY <3>1 DEF Job, Folders
      <4> QED
        BY <3>3, <4>1, TypeWorker DEF Goto, Labels, Idlers, Unnumbered
    <3> QED
      BY <1>16, <3>2, <3>3 DEF CountFailure
  <2>2. MemoryOK'
    <3> DEFINE count == fail_counts[job[w].path] + 1
    <3>1. /\ job[w].path \in Paths
          /\ fail_counts \in [Paths -> 0..(MaxRetries - 1)]
      BY <1>16, TypeJob DEF CountFailure, Idlers, MemoryOK
    <3>2. \/ fail_counts' = [fail_counts EXCEPT ![job[w].path] = 0]
          \/ count < MaxRetries /\ fail_counts' = [fail_counts EXCEPT ![job[w].path] = count]
      BY <1>16, <3>1 DEF CountFailure, DeadLetter
    <3>3. fail_counts' \in [Paths -> 0..(MaxRetries - 1)]
      <4>1. count \in Nat /\ 0 \in 0..(MaxRetries - 1)
        BY <3>1
      <4>2. count < MaxRetries => count \in 0..(MaxRetries - 1)
        BY <4>1
      <4> HIDE DEF count
      <4> QED
        BY <3>1, <3>2, <4>1, <4>2
    <3>4. UNCHANGED <<files, seen, inflight, fp_cache>>
      BY <1>16 DEF CountFailure
    <3> QED
      BY <3>3, <3>4 DEF MemoryOK
  <2>3. HistoryOK'
    <3>1. /\ UNCHANGED <<drops, entrusted, faults>>
          /\ failures' = [failures EXCEPT ![job[w].path] =
                            IF @ < MaxRetries THEN @ + 1 ELSE @]
      BY <1>16 DEF CountFailure
    <3>2. failures \in [Paths -> 0..MaxRetries] /\ job[w].path \in Paths
      BY <1>16, TypeJob DEF CountFailure, Idlers, HistoryOK
    <3>3. failures' \in [Paths -> 0..MaxRetries]
      <4>1. \A n \in 0..MaxRetries : (IF n < MaxRetries THEN n + 1 ELSE n) \in 0..MaxRetries
        OBVIOUS
      <4> QED
        BY <3>1, <3>2, <4>1
    <3> QED
      BY <3>1, <3>3 DEF HistoryOK
  <2> QED
    BY <1>16, <2>1, <2>2, <2>3, TypeFrame DEF CountFailure, disk, database, memory, history
<1>17. CASE Alert(w)
  <2>1. WorkersOK' /\ \A v \in Workers : LocalsOK(v)'
    BY <1>17 DEF Alert, Goto, WorkersOK, LocalsOK, Labels, Idlers, Unnumbered, Job
  <2>2. DatabaseOK'
    <3>1. job[w].path \in Paths
      BY <1>17, TypeJob DEF Alert, Idlers
    <3> QED
      BY <1>17, <3>1 DEF Alert, DatabaseOK
  <2>3. HistoryOK'
    BY <1>17 DEF Alert, Fails, NoFault, HistoryOK, ledger
  <2> QED
    BY <1>17, <2>1, <2>2, <2>3, TypeFrame DEF Alert, disk, database, memory, history
<1>18. CASE Release(w)
  <2>1. WorkersOK' /\ \A v \in Workers : LocalsOK(v)'
    BY <1>18 DEF Release, Goto, WorkersOK, LocalsOK, Labels, Idlers, Unnumbered, Job, Finish, NoJob, Prints, Hashes
  <2>2. MemoryOK'
    BY <1>18 DEF Release, MemoryOK, Released
  <2> QED
    BY <1>18, <2>1, <2>2, TypeFrame DEF Release, disk, database, memory, history
<1> QED
  BY <1>1, <1>2, <1>3, <1>4, <1>5, <1>6, <1>7, <1>8, <1>9, <1>10, <1>11, <1>12, <1>13, <1>14, <1>15, <1>16, <1>17, <1>18 DEF Work

(* TypeInv is inductive: users, clock, crashes, poller and workers.        *)
LEMMA TypeNext == ASSUME TypeInv, [Next]_vars PROVE TypeInv'
<1>1. CASE UNCHANGED vars
  BY <1>1, TypeFrame DEF vars, TypeInv, TypeOK
<1> QED
  BY <1>1, TypeEnvironment, TypePoll, TypeWork DEF Next

(* Every variable keeps its type and its bound, whatever the users, the    *)
(* workers, the faults and the crashes do (Worker::Impl, worker.cpp:24-57). *)
THEOREM TypeCorrect == Spec => []TypeOK
<1>1. Init => TypeInv
  BY TypeInit
<1>2. TypeInv /\ [Next]_vars => TypeInv'
  BY TypeNext
<1>3. TypeInv => TypeOK
  BY DEF TypeInv
<1> QED
  BY <1>1, <1>2, <1>3, PTL DEF Spec

-----------------------------------------------------------------------------
(* Sequence numbers.  A number is handed out once, so its DNG belongs to   *)
(* one worker; until that worker converts, the file does not exist.        *)

NumberInv ==
  /\ \A s \in Seqs : s >= nextSeq => output[s] = NoFile
  /\ \A w \in Workers : job[w].seq < nextSeq
  /\ \A v, w \in Workers : v # w /\ job[v].seq # 0 => job[v].seq # job[w].seq
  /\ \A w \in Workers : pc[w] = "convert" => output[job[w].seq] = NoFile
  /\ \A w \in Workers :
       pc[w] \in {"clear", "insert"} /\ job[w].seq # 0 => output[job[w].seq] \in Contents
  /\ \A r \in imports : r.out \in Contents
  /\ \A r \in imports \cup legacy : /\ r.seq \in Seqs /\ r.seq < nextSeq
                                   /\ r.out # NoFile /\ output[r.seq] = r.out

(* Steps that hand out no number, write no DNG and record nothing.         *)
LEMMA NumberQuiet ==
  ASSUME TypeInv, NumberInv, UNCHANGED <<output, imports>>,
         legacy' \subseteq legacy \cup Placeholders,
         nextSeq' \in Nat, nextSeq' >= nextSeq,
         \A v \in Workers : job'[v].seq \in {0, job[v].seq},
         \A v \in Workers : pc'[v] = "convert" => pc[v] = "convert" /\ job'[v].seq = job[v].seq,
         \A v \in Workers : pc'[v] \in {"clear", "insert"} /\ job'[v].seq # 0
                              => pc[v] \in {"clear", "insert"}
  PROVE  NumberInv'
<1>1. nextSeq \in Nat /\ nextSeq > 0 
         /\ \A r \in imports \cup legacy : r.seq \in Nat
  BY BoundsAssumption DEF TypeInv, TypeOK, DatabaseOK, Seqs
<1>2. \A v \in Workers : job[v].seq \in Nat
  BY BoundsAssumption, TypeJob DEF Job
<1>3. \A s \in Seqs : s >= nextSeq' => output'[s] = NoFile
  BY <1>1 DEF NumberInv, Seqs
<1>4. \A v \in Workers : job'[v].seq < nextSeq'
  BY <1>1, <1>2 DEF NumberInv
<1>5. \A u, v \in Workers : u # v /\ job'[u].seq # 0 => job'[u].seq # job'[v].seq
  BY DEF NumberInv
<1>6. \A v \in Workers : pc'[v] = "convert" => output'[job'[v].seq] = NoFile
  BY DEF NumberInv
<1>7. \A v \in Workers : pc'[v] \in {"clear", "insert"} /\ job'[v].seq # 0
                           => output'[job'[v].seq] \in Contents
  BY DEF NumberInv
<1>8. ASSUME NEW r \in imports' \cup legacy'
      PROVE  /\ r.seq \in Seqs /\ r.seq < nextSeq' /\ r.out # NoFile /\ output'[r.seq] = r.out
  <2>1. CASE r \in imports \cup legacy
    BY <1>1, <2>1 DEF NumberInv
  <2>2. CASE r \in Placeholders
    <3>1. /\ r.seq \in Seqs /\ r.seq \in Nat
          /\ output[r.seq] # NoFile /\ r.out = output[r.seq]
      BY <2>2, BoundsAssumption DEF Placeholders, Seqs
    <3>2. r.seq < nextSeq
      BY <1>1, <3>1 DEF NumberInv
    <3> QED
      BY <1>1, <3>1, <3>2
  <2> QED BY <2>1, <2>2
<1>9. \A r \in imports' : r.out \in Contents
  BY DEF NumberInv
<1> QED
  BY <1>3, <1>4, <1>5, <1>6, <1>7, <1>8, <1>9 DEF NumberInv

(* Before the first step no worker has a number and no row exists.         *)
LEMMA NumberInit == Init => NumberInv
<1> SUFFICES ASSUME Init PROVE NumberInv
  OBVIOUS
<1>1. \A w \in Workers : job[w] = NoJob /\ pc[w] = "connect"
  BY DEF Init
<1> QED
  BY <1>1 DEF Init, NumberInv, NoJob

(* Converting writes only the number in hand, and completes it before the  *)
(* worker goes on to its row (worker.cpp:357-365, converter.cpp:125-136).  *)
LEMMA NumberConvert ==
  ASSUME TypeInv, NumberInv, NEW w \in Workers, Convert(w) PROVE NumberInv'
<1> DEFINE n == job[w].seq
<1>1. n \in Seqs /\ n < nextSeq /\ output[n] = NoFile /\ pc[w] = "convert"
  BY TypeJob DEF Convert, NumberInv, LocalsOK
<1>2. UNCHANGED <<job, imports, legacy, nextSeq>>
  BY DEF Convert, database
<1>3. output \in [Seqs -> Hashes \cup {Torn}] /\ pc \in [Workers -> Labels]
  BY DEF TypeInv, TypeOK, DiskOK, WorkersOK
<1>4. PICK l \in {"clear", "dlRelease"} :
        /\ pc' = [pc EXCEPT ![w] = l]
        /\ \E x : output' = [output EXCEPT ![n] = x]
        /\ l = "clear" => output'[n] \in Contents
  <2>1. CASE UNCHANGED output /\ ConversionFailed(w)
    <3>1. output' = [output EXCEPT ![n] = output[n]]
      BY <2>1, <1>3
    <3> QED
      BY <2>1, <3>1 DEF ConversionFailed, Goto
  <2>2. CASE output' = [output EXCEPT ![n] = Torn] /\ ConversionFailed(w)
    BY <2>2 DEF ConversionFailed, Goto
  <2>3. CASE /\ watch[job[w].path] \in Contents \ Corrupt
             /\ output' = [output EXCEPT ![n] = watch[job[w].path]] /\ Goto(w, "clear")
    BY <2>3, <1>1, <1>3 DEF Goto
  <2> QED
    BY <2>1, <2>2, <2>3 DEF Convert
<1> HIDE DEF n
<1>5. \A s \in Seqs : s # n => output'[s] = output[s]
  BY <1>1, <1>3, <1>4
<1>6. \A v \in Workers : v # w /\ job[v].seq \in Seqs => job[v].seq # n
  BY BoundsAssumption DEF NumberInv, Seqs, n
<1>7. \A s \in Seqs : s >= nextSeq => output'[s] = NoFile
  BY <1>1, <1>5, BoundsAssumption DEF NumberInv, Seqs, TypeInv, TypeOK, DatabaseOK
<1>8. ASSUME NEW v \in Workers
      PROVE  /\ pc'[v] = "convert" => output'[job[v].seq] = NoFile
             /\ pc'[v] \in {"clear", "insert"} /\ job[v].seq # 0
                  => output'[job[v].seq] \in Contents
  <2>1. CASE v = w
    BY <2>1, <1>3, <1>4 DEF n
  <2>2. CASE v # w
    <3>1. pc'[v] = pc[v] /\ (pc[v] = "convert" => job[v].seq \in Seqs)
      BY <2>2, <1>3, <1>4, TypeJob DEF LocalsOK
    <3>2. job[v].seq # 0 => job[v].seq \in Seqs
      BY TypeJob, BoundsAssumption DEF Job, Seqs
    <3> QED
      BY <2>2, <3>1, <3>2, <1>5, <1>6 DEF NumberInv
  <2> QED BY <2>1, <2>2
<1>9. \A r \in imports \cup legacy : /\ r.seq \in Seqs /\ r.seq < nextSeq
                                     /\ r.out # NoFile /\ output'[r.seq] = r.out
  <2>1. \A r \in imports \cup legacy : r.seq # n
    BY <1>1 DEF NumberInv
  <2> QED
    BY <2>1, <1>5 DEF NumberInv
<1> QED
  BY <1>2, <1>7, <1>8, <1>9 DEF NumberInv

(* A new number is nextSeq, which nobody has and no file bears             *)
(* (AllocateSequence, db.cpp:245-322).                                     *)
LEMMA NumberAlloc ==
  ASSUME TypeInv, NumberInv, NEW w \in Workers, Alloc(w) PROVE NumberInv'
<1>1. nextSeq \in Seqs /\ nextSeq \in Nat /\ job \in [Workers -> Job] /\ pc \in [Workers -> Labels]
  BY BoundsAssumption DEF Alloc, TypeInv, TypeOK, DatabaseOK, WorkersOK, Seqs
<1>2. UNCHANGED <<output, imports, legacy>>
  BY DEF Alloc, disk
<1>3. CASE UNCHANGED job /\ Goto(w, "dlRelease") /\ nextSeq' \in {nextSeq, nextSeq + 1}
  BY <1>1, <1>2, <1>3, NumberQuiet DEF Goto
<1>4. ASSUME nextSeq' = nextSeq + 1, job' = [job EXCEPT ![w].seq = nextSeq],
             Goto(w, "convert")
      PROVE  NumberInv'
  <2>1. \A v \in Workers : /\ job[v].seq \in Nat
                           /\ job'[v].seq = IF v = w THEN nextSeq ELSE job[v].seq
                           /\ pc'[v] = IF v = w THEN "convert" ELSE pc[v]
    BY <1>1, <1>4, BoundsAssumption DEF Job, Goto
  <2>2. \A s \in Seqs : s >= nextSeq' => output'[s] = NoFile
    BY <1>1, <1>2, <1>4 DEF NumberInv, Seqs
  <2>3. \A v \in Workers : job'[v].seq < nextSeq'
    BY <1>1, <1>4, <2>1 DEF NumberInv
  <2>4. \A u, v \in Workers : u # v /\ job'[u].seq # 0 => job'[u].seq # job'[v].seq
    BY <1>1, <2>1 DEF NumberInv
  <2>5. \A v \in Workers : pc'[v] = "convert" => output'[job'[v].seq] = NoFile
    BY <1>1, <1>2, <2>1 DEF NumberInv
  <2>6. \A v \in Workers : pc'[v] \in {"clear", "insert"} /\ job'[v].seq # 0
                             => output'[job'[v].seq] \in Contents
    BY <1>2, <2>1 DEF NumberInv
  <2>7. \A r \in imports \cup legacy : /\ r.seq \in Seqs /\ r.seq < nextSeq'
                                       /\ r.out # NoFile /\ output[r.seq] = r.out
    BY <1>1, <1>2, <1>4 DEF NumberInv, Seqs
  <2> QED
    BY <1>2, <2>2, <2>3, <2>4, <2>5, <2>6, <2>7 DEF NumberInv
<1> QED
  BY <1>3, <1>4 DEF Alloc, NewSequence

(* The new row is for a finished DNG (InsertImport, db.cpp:324-409).       *)
LEMMA NumberInsert ==
  ASSUME TypeInv, NumberInv, NEW w \in Workers, Insert(w) PROVE NumberInv'
<1> DEFINE row == NewImport(w)
<1>1. /\ row.seq \in Seqs /\ row.seq < nextSeq /\ row.out # NoFile
      /\ row.out \in Contents /\ output[row.seq] = row.out
  BY TypeJob, BoundsAssumption, ContentsAssumption DEF Insert, NewImport, NumberInv, LocalsOK, Seqs
<1>2. imports' = imports \cup {row} \/ imports' = imports
  BY DEF Insert
<1>3. /\ UNCHANGED <<output, nextSeq, legacy>>
      /\ job' = [job EXCEPT ![w].to = "schema"] /\ pc' = [pc EXCEPT ![w] = "move"]
  BY DEF Insert, disk, Goto
<1>4. \A v \in Workers : job'[v].seq = job[v].seq /\ (pc'[v] # "move" => pc'[v] = pc[v])
  BY <1>3 DEF TypeInv, TypeOK, WorkersOK, Job
<1> HIDE DEF row
<1>5. \A r \in imports' : r.out \in Contents
  BY <1>1, <1>2 DEF NumberInv
<1>6. \A r \in imports' \cup legacy : /\ r.seq \in Seqs /\ r.seq < nextSeq
                                     /\ r.out # NoFile /\ output[r.seq] = r.out
  BY <1>1, <1>2 DEF NumberInv
<1> QED
  BY <1>3, <1>4, <1>5, <1>6 DEF NumberInv

(* A step of one worker that is none of the three.                         *)
LEMMA NumberLocal ==
  ASSUME TypeInv, NumberInv, UNCHANGED <<output, nextSeq, imports, legacy>>,
         NEW w \in Workers, NEW l \in Labels, l # "convert", pc' = [pc EXCEPT ![w] = l],
         \A v \in Workers \ {w} : job'[v] = job[v],
         job'[w].seq \in {0, job[w].seq},
         l \in {"clear", "insert"} /\ job'[w].seq # 0 => pc[w] \in {"clear", "insert"}
  PROVE  NumberInv'
<1>1. nextSeq \in Nat /\ pc \in [Workers -> Labels]
  BY DEF TypeInv, TypeOK, DatabaseOK, WorkersOK
<1>2. \A v \in Workers : pc'[v] = IF v = w THEN l ELSE pc[v]
  BY <1>1
<1>3. \A v \in Workers : job'[v].seq \in {0, job[v].seq}
  OBVIOUS
<1> QED
  BY <1>1, <1>2, <1>3, NumberQuiet

(* A step of a worker keeps NumberInv: three of them touch numbers, rows   *)
(* or DNGs, the others only drop a number.                                 *)
LEMMA NumberWork ==
  ASSUME TypeInv, NumberInv, NEW w \in Workers, Work(w) PROVE NumberInv'
<1>0. job \in [Workers -> Job]
  BY DEF TypeInv, TypeOK, WorkersOK
<1>1. CASE Connect(w)
  <2>1. PICK l \in {"idle", "exited"} : pc' = [pc EXCEPT ![w] = l]
    BY <1>1 DEF Connect, Goto
  <2>2. UNCHANGED <<output, nextSeq, imports, legacy>>
    BY <1>1 DEF Connect, disk, database
  <2>3. UNCHANGED job
    BY <1>1 DEF Connect
  <2> QED
    BY <2>1, <2>2, <2>3, NumberLocal DEF Labels, Idlers
<1>2. CASE Pop(w)
  <2>1. PICK l \in {"fingerprint", "hash"} : pc' = [pc EXCEPT ![w] = l]
    BY <1>2 DEF Pop, Goto
  <2>2. UNCHANGED <<output, nextSeq, imports, legacy>>
    BY <1>2 DEF Pop, disk, database
  <2>3. /\ \A v \in Workers \ {w} : job'[v] = job[v]
        /\ job'[w].seq \in {0, job[w].seq}
    BY <1>2, <1>0 DEF Pop, Job
  <2> QED
    BY <2>1, <2>2, <2>3, NumberLocal DEF Labels, Idlers
<1>3. CASE TakeFingerprint(w)
  <2>1. PICK l \in {"lookup"} : pc' = [pc EXCEPT ![w] = l]
    BY <1>3 DEF TakeFingerprint, Goto
  <2>2. UNCHANGED <<output, nextSeq, imports, legacy>>
    BY <1>3 DEF TakeFingerprint, disk, database
  <2>3. /\ \A v \in Workers \ {w} : job'[v] = job[v]
        /\ job'[w].seq \in {0, job[w].seq}
    BY <1>3, <1>0 DEF TakeFingerprint, Job
  <2> QED
    BY <2>1, <2>2, <2>3, NumberLocal DEF Labels, Idlers
<1>4. CASE LookUp(w)
  <2>1. PICK l \in {"hash", "dedup"} : pc' = [pc EXCEPT ![w] = l]
    BY <1>4 DEF LookUp, Goto
  <2>2. UNCHANGED <<output, nextSeq, imports, legacy>>
    BY <1>4 DEF LookUp, disk, database
  <2>3. /\ \A v \in Workers \ {w} : job'[v] = job[v]
        /\ job'[w].seq \in {0, job[w].seq}
    BY <1>4, <1>0 DEF LookUp, Job
  <2> QED
    BY <2>1, <2>2, <2>3, NumberLocal DEF Labels, Idlers
<1>5. CASE Hash(w)
  <2>1. PICK l \in {"dlRelease", "store", "dedup"} : pc' = [pc EXCEPT ![w] = l]
    BY <1>5 DEF Hash, Goto
  <2>2. UNCHANGED <<output, nextSeq, imports, legacy>>
    BY <1>5 DEF Hash, disk, database
  <2>3. /\ \A v \in Workers \ {w} : job'[v] = job[v]
        /\ job'[w].seq \in {0, job[w].seq}
    BY <1>5, <1>0 DEF Hash, Job
  <2> QED
    BY <2>1, <2>2, <2>3, NumberLocal DEF Labels, Idlers
<1>6. CASE Store(w)
  <2>1. PICK l \in {"dedup"} : pc' = [pc EXCEPT ![w] = l]
    BY <1>6 DEF Store, Goto
  <2>2. UNCHANGED <<output, nextSeq, imports, legacy>>
    BY <1>6 DEF Store, disk, database
  <2>3. UNCHANGED job
    BY <1>6 DEF Store
  <2> QED
    BY <2>1, <2>2, <2>3, NumberLocal DEF Labels, Idlers
<1>7. CASE Dedup(w)
  <2>1. PICK l \in {"clear", "alloc"} : pc' = [pc EXCEPT ![w] = l]
    BY <1>7 DEF Dedup, Goto
  <2>2. UNCHANGED <<output, nextSeq, imports, legacy>>
    BY <1>7 DEF Dedup, disk, database
  <2>3. UNCHANGED job
    BY <1>7 DEF Dedup
  <2>4. job[w].seq = 0
    BY <1>7, TypeJob DEF Dedup, LocalsOK, Unnumbered
  <2> QED
    BY <2>1, <2>2, <2>3, <2>4, NumberLocal DEF Labels, Idlers
<1>8. CASE Clear(w)
  <2>1. PICK l \in {"insert", "move"} : pc' = [pc EXCEPT ![w] = l]
    BY <1>8 DEF Clear, Goto
  <2>2. UNCHANGED <<output, nextSeq, imports, legacy>>
    BY <1>8 DEF Clear, disk, database
  <2>3. /\ \A v \in Workers \ {w} : job'[v] = job[v]
        /\ job'[w].seq \in {0, job[w].seq}
    BY <1>8, <1>0 DEF Clear, Job
  <2> QED
    BY <1>8, <2>1, <2>2, <2>3, NumberLocal DEF Clear, Labels, Idlers
<1>9. CASE Move(w)
  <2>1. PICK l \in {"alert", "release", "copy"} : pc' = [pc EXCEPT ![w] = l]
    BY <1>9 DEF Move, Goto, Moved, MoveFailed
  <2>2. UNCHANGED <<output, nextSeq, imports, legacy>>
    BY <1>9 DEF Move, disk, database
  <2>3. /\ \A v \in Workers \ {w} : job'[v] = job[v]
        /\ job'[w].seq \in {0, job[w].seq}
    BY <1>9, <1>0 DEF Move, Job
  <2> QED
    BY <2>1, <2>2, <2>3, NumberLocal DEF Labels, Idlers
<1>10. CASE Copy(w)
  <2>1. PICK l \in {"unlink", "release"} : pc' = [pc EXCEPT ![w] = l]
    BY <1>10 DEF Copy, Goto, MoveFailed
  <2>2. UNCHANGED <<output, nextSeq, imports, legacy>>
    BY <1>10 DEF Copy, disk, database
  <2>3. UNCHANGED job
    BY <1>10 DEF Copy
  <2> QED
    BY <2>1, <2>2, <2>3, NumberLocal DEF Labels, Idlers
<1>11. CASE Unlink(w)
  <2>1. PICK l \in {"alert", "release"} : pc' = [pc EXCEPT ![w] = l]
    BY <1>11 DEF Unlink, Goto, Moved, MoveFailed
  <2>2. UNCHANGED <<output, nextSeq, imports, legacy>>
    BY <1>11 DEF Unlink, disk, database
  <2>3. UNCHANGED job
    BY <1>11 DEF Unlink
  <2> QED
    BY <2>1, <2>2, <2>3, NumberLocal DEF Labels, Idlers
<1>12. CASE ReleaseForRetry(w)
  <2>1. PICK l \in {"dlCount"} : pc' = [pc EXCEPT ![w] = l]
    BY <1>12 DEF ReleaseForRetry, Goto
  <2>2. UNCHANGED <<output, nextSeq, imports, legacy>>
    BY <1>12 DEF ReleaseForRetry, disk, database
  <2>3. UNCHANGED job
    BY <1>12 DEF ReleaseForRetry
  <2> QED
    BY <2>1, <2>2, <2>3, NumberLocal DEF Labels, Idlers
<1>13. CASE CountFailure(w)
  <2>1. PICK l \in {"move", "release"} : pc' = [pc EXCEPT ![w] = l]
    BY <1>13 DEF CountFailure, Goto
  <2>2. UNCHANGED <<output, nextSeq, imports, legacy>>
    BY <1>13 DEF CountFailure, disk, database
  <2>3. /\ \A v \in Workers \ {w} : job'[v] = job[v]
        /\ job'[w].seq \in {0, job[w].seq}
    BY <1>13, <1>0 DEF CountFailure, Job
  <2> QED
    BY <2>1, <2>2, <2>3, NumberLocal DEF Labels, Idlers
<1>14. CASE Alert(w)
  <2>1. PICK l \in {"release"} : pc' = [pc EXCEPT ![w] = l]
    BY <1>14 DEF Alert, Goto
  <2>2. UNCHANGED <<output, nextSeq, imports, legacy>>
    BY <1>14 DEF Alert, disk, database
  <2>3. UNCHANGED job
    BY <1>14 DEF Alert
  <2> QED
    BY <2>1, <2>2, <2>3, NumberLocal DEF Labels, Idlers
<1>15. CASE Release(w)
  <2>1. PICK l \in {"idle"} : pc' = [pc EXCEPT ![w] = l]
    BY <1>15 DEF Release, Goto, Finish
  <2>2. UNCHANGED <<output, nextSeq, imports, legacy>>
    BY <1>15 DEF Release, disk, database
  <2>3. /\ \A v \in Workers \ {w} : job'[v] = job[v]
        /\ job'[w].seq \in {0, job[w].seq}
    BY <1>15, <1>0 DEF Release, Job, Finish, NoJob
  <2> QED
    BY <2>1, <2>2, <2>3, NumberLocal DEF Labels, Idlers
<1>16. CASE Alloc(w) \/ Convert(w) \/ Insert(w)
  BY <1>16, NumberAlloc, NumberConvert, NumberInsert
<1> QED
  BY <1>1, <1>2, <1>3, <1>4, <1>5, <1>6, <1>7, <1>8, <1>9, <1>10, <1>11, <1>12, <1>13,
     <1>14, <1>15, <1>16 DEF Work

(* Only workers and a crash touch sequences, DNGs, records and locals.     *)
LEMMA OthersLeaveWorkers ==
  ASSUME User \/ Tick \/ Poll \/ UNCHANGED vars
  PROVE  UNCHANGED <<output, nextSeq, imports, legacy, pc, job>>
<1>1. CASE User
  BY <1>1 DEF User, Drop, Replace, Remove, Arrive, database, workVars
<1>2. CASE Tick
  BY <1>2 DEF Tick, database, workVars
<1>3. CASE Poll
  BY <1>3 DEF Poll, StartScan, Visit, Enqueue, EndScan, Idle, disk, database, workVars
<1>4. CASE UNCHANGED vars
  BY <1>4 DEF vars, disk, database, workVars
<1> QED
  BY <1>1, <1>2, <1>3, <1>4

(* The invariant of the sequence numbers is inductive.                     *)
LEMMA NumberNext ==
  ASSUME TypeInv, NumberInv, [Next]_vars PROVE NumberInv'
<1>1. nextSeq \in Nat
  BY DEF TypeInv, TypeOK, DatabaseOK
<1>2. CASE UNCHANGED <<output, nextSeq, imports, legacy, pc, job>>
  BY <1>1, <1>2, NumberQuiet
<1>3. CASE Crash
  <2>1. \A v \in Workers : job'[v] = NoJob /\ pc'[v] = "connect"
    BY <1>3 DEF Crash
  <2>2. UNCHANGED <<output, imports>> /\ legacy' = legacy \cup Placeholders
    BY <1>3 DEF Crash, disk
  <2>3. nextSeq' \in {nextSeq, nextSeq + 1}
    BY <1>3 DEF Crash, Reserved
  <2> QED
    BY <1>1, <2>1, <2>2, <2>3, NumberQuiet DEF NoJob
<1> QED
  BY <1>2, <1>3, OthersLeaveWorkers, NumberWork DEF Next

(* A sequence number is handed out once, its DNG does not exist before the *)
(* worker it was handed to converts, and what imports records stays        *)
(* (db.cpp:245-322, worker.cpp:332-387).                                   *)
THEOREM NumberCorrect == Spec => [](TypeInv /\ NumberInv)
<1>1. Init => TypeInv /\ NumberInv
  BY TypeInit, NumberInit
<1>2. TypeInv /\ NumberInv /\ [Next]_vars => TypeInv' /\ NumberInv'
  BY NumberNext, TypeNext
<1> QED
  BY <1>1, <1>2, PTL DEF Spec

(* A row of imports is backed by its DNG, whatever fails, crashes or runs  *)
(* at the same time (worker.cpp:357-387).                                  *)
THEOREM ImportsHaveDngs == Spec => []ImportHasDng
<1>1. NumberInv => ImportHasDng
  BY DEF NumberInv, ImportHasDng
<1> QED
  BY <1>1, NumberCorrect, PTL

(* A finished DNG is never written again, by any worker or after any       *)
(* restart (db.cpp:245-322, converter.cpp:125-136).                        *)
THEOREM DngsAreNeverOverwritten == Spec => NoDngOverwritten
<1> DEFINE A == \A s \in Seqs : output[s] \in Contents => output'[s] = output[s]
<1>1. TypeInv /\ NumberInv /\ [Next]_vars => [A]_vars
  <2> SUFFICES ASSUME TypeInv, NumberInv, [Next]_vars PROVE [A]_vars
    OBVIOUS
  <2>1. CASE UNCHANGED output
    BY <2>1
  <2>2. ASSUME NEW w \in Workers, Convert(w) PROVE A
    <3>1. job[w].seq \in Seqs /\ output[job[w].seq] \notin Contents
      BY <2>2, TypeJob, ContentsAssumption DEF Convert, NumberInv, LocalsOK
    <3>2. UNCHANGED output \/ \E x : output' = [output EXCEPT ![job[w].seq] = x]
      BY <2>2 DEF Convert
    <3> QED
      BY <3>1, <3>2 DEF TypeInv, TypeOK, DiskOK
  <2>3. ASSUME NEW w \in Workers, Work(w), ~Convert(w) PROVE UNCHANGED output
    BY <2>3 DEF Work, Connect, Pop, TakeFingerprint, LookUp, Hash, Store, Dedup, Alloc, Clear,
         Insert, Move, Copy, Unlink, ReleaseForRetry, CountFailure, Alert, Release, disk
  <2>4. ASSUME User \/ Tick \/ Crash \/ Poll \/ UNCHANGED vars PROVE UNCHANGED output
    <3>1. CASE User
      BY <3>1 DEF User, Drop, Replace, Remove, Arrive
    <3>2. CASE Tick \/ Crash \/ UNCHANGED vars
      BY <3>2 DEF Tick, Crash, vars, disk
    <3>3. CASE Poll
      BY <3>3 DEF Poll, StartScan, Visit, Enqueue, EndScan, Idle, disk
    <3> QED
      BY <2>4, <3>1, <3>2, <3>3
  <2> QED
    BY <2>1, <2>2, <2>3, <2>4 DEF Next
<1> HIDE DEF A
<1> QED
  BY <1>1, NumberCorrect, PTL DEF Spec, NoDngOverwritten, A

-----------------------------------------------------------------------------
(* One import per photo, with a single worker and a duplicate query that   *)
(* does not fail: from the query to the record nobody else records it.     *)

OneInv ==
  /\ OneImportPerPhoto
  /\ \A w \in Workers :
       pc[w] \in {"alloc", "convert", "insert"} \/ (pc[w] = "clear" /\ job[w].seq # 0)
         => ~Known(job[w].hash)

(* The steps of the worker that follow the hash leave it alone, and only   *)
(* Insert records anything.                                                *)
LEMMA OneWork ==
  ASSUME \A v, w \in Workers : v = w, "lookup" \notin Faults,
         TypeInv, OneInv, NEW w \in Workers, Work(w)
  PROVE  OneInv'
<1>1. pc \in [Workers -> Labels] /\ job \in [Workers -> Job] /\ job[w] \in Job
  BY DEF TypeInv, TypeOK, WorkersOK
<1>2. \A v \in Workers : v = w
  OBVIOUS
<1> DEFINE Fresh == pc[w] \in {"alloc", "convert", "insert"} \/ (pc[w] = "clear" /\ job[w].seq # 0)
<1>3. Fresh => ~Known(job[w].hash)
  BY DEF OneInv
<1>4. ASSUME UNCHANGED imports, Fresh' => ~Known(job'[w].hash) PROVE OneInv'
  BY <1>2, <1>4 DEF OneInv, OneImportPerPhoto, Known
<1>5. CASE Insert(w)
  <2>1. pc'[w] = "move"
    BY <1>1, <1>5 DEF Insert, Goto
  <2>2. ~Known(job[w].hash)
    BY <1>3, <1>5 DEF Insert
  <2>3. \/ imports' = imports
        \/ \E r : r.src = job[w].hash /\ imports' = imports \cup {r}
    <3>1. NewImport(w).src = job[w].hash
      BY DEF NewImport
    <3> QED BY <1>5, <3>1 DEF Insert
  <2>4. OneImportPerPhoto'
    BY <2>2, <2>3 DEF OneInv, OneImportPerPhoto, Known
  <2> QED
    BY <1>2, <2>1, <2>4 DEF OneInv
<1>6. CASE Dedup(w)
  <2>1. UNCHANGED <<imports, job>>
    BY <1>6 DEF Dedup, database
  <2>2. job[w].seq = 0 /\ pc'[w] = IF Duplicate(w) THEN "clear" ELSE "alloc"
    BY <1>1, <1>6, TypeJob DEF Dedup, Goto, Fails, LocalsOK, Unnumbered
  <2> QED
    BY <1>4, <2>1, <2>2 DEF Duplicate
<1>7. CASE Alloc(w)
  <2>1. UNCHANGED imports /\ job'[w].hash = job[w].hash
    BY <1>1, <1>7 DEF Alloc, Job
  <2> QED
    BY <1>3, <1>4, <1>7, <2>1 DEF Alloc
<1>8. CASE Convert(w)
  <2>1. UNCHANGED <<imports, job>>
    BY <1>8 DEF Convert, database
  <2> QED
    BY <1>3, <1>4, <1>8, <2>1 DEF Convert
<1>9. CASE Clear(w)
  <2>1. UNCHANGED imports /\ job'[w].hash = job[w].hash
    BY <1>1, <1>9 DEF Clear, database, Job
  <2>2. pc'[w] = "insert" => Fresh
    BY <1>1, <1>9 DEF Clear, Goto
  <2>3. pc'[w] \in {"insert", "move"}
    BY <1>1, <1>9 DEF Clear, Goto
  <2> QED
    BY <1>3, <1>4, <2>1, <2>2, <2>3
<1>10. ASSUME UNCHANGED imports, pc'[w] \notin {"alloc", "convert", "insert", "clear"}
       PROVE  OneInv'
  BY <1>4, <1>10
<1>11. CASE Connect(w) \/ Pop(w) \/ TakeFingerprint(w) \/ LookUp(w) \/ Hash(w) \/ Store(w)
  <2>1. UNCHANGED imports
    BY <1>11 DEF Connect, Pop, TakeFingerprint, LookUp, Hash, Store, database
  <2>2. pc'[w] \in {"idle", "exited", "fingerprint", "lookup", "hash", "store", "dedup",
                    "dlRelease"}
    BY <1>1, <1>11 DEF Connect, Pop, TakeFingerprint, LookUp, Hash, Store, Goto
  <2> QED
    BY <1>10, <2>1, <2>2
<1>12. CASE Move(w) \/ Copy(w) \/ Unlink(w) \/ ReleaseForRetry(w) \/ CountFailure(w)
            \/ Alert(w) \/ Release(w)
  <2>1. UNCHANGED imports
    BY <1>12 DEF Move, Copy, Unlink, ReleaseForRetry, CountFailure, Alert, Release, database
  <2>2. pc'[w] \in {"alert", "release", "copy", "unlink", "dlCount", "move", "idle"}
    BY <1>1, <1>12 DEF Move, Copy, Unlink, ReleaseForRetry, CountFailure, Alert, Release,
         Goto, Moved, MoveFailed, Finish
  <2> QED
    BY <1>10, <2>1, <2>2
<1> QED
  BY <1>5, <1>6, <1>7, <1>8, <1>9, <1>11, <1>12 DEF Work

(* With one converter thread a photo is imported once, however often it is *)
(* retried, dropped again or renamed, and wherever the process crashes     *)
(* (worker.cpp:296-315).                                                   *)
THEOREM OneWorkerImportsOnce ==
  ASSUME \A v, w \in Workers : v = w, "lookup" \notin Faults
  PROVE  Spec => []OneImportPerPhoto
<1>1. Init => OneInv
  BY DEF Init, OneInv, OneImportPerPhoto
<1>2. TypeInv /\ OneInv /\ [Next]_vars => OneInv'
  <2> SUFFICES ASSUME TypeInv, OneInv, [Next]_vars PROVE OneInv'
    OBVIOUS
  <2>1. CASE UNCHANGED <<imports, pc, job>>
    BY <2>1 DEF OneInv, OneImportPerPhoto, Known
  <2>2. CASE Crash
    <3>1. \A v \in Workers : pc'[v] = "connect"
      BY <2>2 DEF Crash
    <3>2. UNCHANGED imports
      BY <2>2 DEF Crash, database
    <3> QED
      BY <3>1, <3>2 DEF OneInv, OneImportPerPhoto, Known
  <2>3. ASSUME User \/ Tick \/ Poll \/ UNCHANGED vars PROVE UNCHANGED <<imports, pc, job>>
    BY <2>3, OthersLeaveWorkers
  <2> QED
    BY <2>1, <2>2, <2>3, OneWork DEF Next
<1>3. OneInv => OneImportPerPhoto
  BY DEF OneInv
<1> QED
  BY <1>1, <1>2, <1>3, NumberCorrect, PTL DEF Spec

-----------------------------------------------------------------------------
(* No original is lost when /watch and /archive share a file system and no *)
(* name comes back: a rename takes the only copy to a place that is free.  *)

KeptInv ==
  /\ \A p \in Paths : drops[p] = 0 =>
       watch[p] = NoFile /\ \A d \in Folders : archive[d][p] = NoFile
  /\ \A p \in Paths : watch[p] # NoFile => \A d \in Folders : archive[d][p] = NoFile
  /\ \A w \in Workers : pc[w] \notin {"copy", "unlink"}
  /\ \A c \in entrusted : c # NoFile /\ Kept(c)

(* KeptInv is inductive when moves are renames and names never come back.  *)
LEMMA KeptNext ==
  ASSUME ~CrossDevice, MaxDrops <= 1, TypeInv, KeptInv, [Next]_vars
  PROVE  KeptInv'
<1>1. /\ watch \in [Paths -> Hashes] /\ archive \in [Folders -> [Paths -> Hashes \cup {Torn}]]
      /\ drops \in [Paths -> 0..MaxDrops] /\ pc \in [Workers -> Labels]
  BY DEF TypeInv, TypeOK, DiskOK, HistoryOK, WorkersOK
<1>2. ASSUME UNCHANGED <<watch, archive, drops, entrusted>>,
             \A w \in Workers : pc'[w] \notin {"copy", "unlink"}
      PROVE  KeptInv'
  BY <1>2 DEF KeptInv, Kept
<1>3. CASE UNCHANGED <<watch, archive, drops, entrusted, pc>>
  BY <1>2, <1>3 DEF KeptInv
<1>4. ASSUME NEW p \in Paths, NEW c \in Contents, Drop(p, c) PROVE KeptInv'
  <2>1. /\ watch' = [watch EXCEPT ![p] = c] /\ drops' = [drops EXCEPT ![p] = @ + 1]
        /\ archive' = archive /\ pc' = pc /\ entrusted' = entrusted \cup {c}
        /\ watch[p] = NoFile /\ drops[p] < MaxDrops
    BY <1>4 DEF Drop, Arrive, workVars
  <2>2. drops[p] = 0 /\ drops'[p] = 1
    <3>1. drops[p] \in 0..MaxDrops /\ MaxDrops \in Nat
      BY <1>1, BoundsAssumption
    <3>2. drops[p] = 0
      BY <2>1, <3>1
    <3>3. drops'[p] = drops[p] + 1
      BY <1>1, <2>1
    <3> QED
      BY <3>2, <3>3
  <2>3. \A q \in Paths : drops'[q] = 0 => q # p /\ drops[q] = 0
    BY <1>1, <2>1, <2>2
  <2>4. \A q \in Paths : watch'[q] = IF q = p THEN c ELSE watch[q]
    BY <1>1, <2>1
  <2>5. \A e \in entrusted' : e # NoFile /\ Kept(e)'
    BY <2>1, <2>4, ContentsAssumption DEF KeptInv, Kept
  <2> QED
    BY <2>1, <2>2, <2>3, <2>4, <2>5 DEF KeptInv
<1>5. ASSUME NEW w \in Workers, Work(w), ~Move(w) PROVE KeptInv'
  <2>1. ~Copy(w) /\ ~Unlink(w)
    BY DEF Copy, Unlink, KeptInv
  <2>2. UNCHANGED <<watch, archive, drops, entrusted>>
    BY <1>5, <2>1 DEF Work, Connect, Pop, TakeFingerprint, LookUp, Hash, Store, Dedup, Alloc,
         Convert, Clear, Insert, ReleaseForRetry, CountFailure, Alert, Release,
         disk, history, ledger
  <2>3. \E l \in Labels \ {"copy", "unlink"} : pc' = [pc EXCEPT ![w] = l]
    BY <1>5, <2>1 DEF Work, Connect, Pop, TakeFingerprint, LookUp, Hash, Store, Dedup, Alloc,
         Convert, ConversionFailed, Clear, Insert, ReleaseForRetry, CountFailure, Alert,
         Release, Finish, Goto, Labels, Idlers
  <2> QED
    BY <1>1, <1>2, <2>2, <2>3 DEF KeptInv
<1>6. ASSUME NEW w \in Workers, Move(w) PROVE KeptInv'
  <2> DEFINE p == job[w].path
             d == job[w].to
  <2>1. p \in Paths /\ d \in Folders
    BY <1>6, TypeJob DEF Move, LocalsOK, Idlers
  <2>2. drops' = drops /\ entrusted' = entrusted
        /\ \E l \in {"alert", "release"} : pc' = [pc EXCEPT ![w] = l]
    BY <1>6 DEF Move, Moved, MoveFailed, Goto, ledger
  <2>3. CASE UNCHANGED <<watch, archive>>
    BY <1>1, <1>2, <2>2, <2>3 DEF KeptInv
  <2>4. CASE /\ watch[p] # NoFile
             /\ archive' = [archive EXCEPT ![d][p] = watch[p]]
             /\ watch' = [watch EXCEPT ![p] = NoFile]
    <3>1. \A q \in Paths : watch'[q] = IF q = p THEN NoFile ELSE watch[q]
      BY <1>1, <2>1, <2>4
    <3>2. \A e \in Folders, q \in Paths :
            archive'[e][q] = IF e = d /\ q = p THEN watch[p] ELSE archive[e][q]
      BY <1>1, <2>1, <2>4
    <3>3. archive[d][p] = NoFile /\ drops[p] # 0
      BY <2>1, <2>4 DEF KeptInv
    <3>4. \A c \in entrusted : c # NoFile /\ Kept(c)'
      <4> SUFFICES ASSUME NEW c \in entrusted PROVE c # NoFile /\ Kept(c)'
        BY <2>2
      <4>1. c # NoFile /\ \E q \in Paths : watch[q] = c \/ \E e \in Folders : archive[e][q] = c
        BY DEF KeptInv, Kept
      <4> QED
        BY <2>1, <3>1, <3>2, <3>3, <4>1 DEF Kept
    <3>5. \A v \in Workers : pc'[v] \notin {"copy", "unlink"}
      BY <1>1, <2>2 DEF KeptInv
    <3> HIDE DEF p, d
    <3> QED
      BY <2>1, <2>2, <3>1, <3>2, <3>3, <3>4, <3>5 DEF KeptInv
  <2> QED
    BY <1>6, <2>3, <2>4 DEF Move, Place, TakeAway, MoveFailed
<1>7. CASE Crash
  BY <1>2, <1>7 DEF Crash, disk, ledger
<1>8. ASSUME NEW p \in Paths, NEW c \in Contents, Replace(p, c) PROVE FALSE
  <2>1. drops[p] < MaxDrops /\ watch[p] # NoFile
    BY <1>8 DEF Replace
  <2>2. drops[p] \in 0..MaxDrops /\ MaxDrops \in Nat
    BY <1>1, BoundsAssumption
  <2>3. drops[p] = 0
    BY <2>1, <2>2
  <2> QED
    BY <2>1, <2>3 DEF KeptInv
<1>9. ASSUME NEW p \in Paths, Remove(p) PROVE KeptInv'
  <2>1. /\ watch' = [watch EXCEPT ![p] = NoFile] /\ entrusted' = entrusted \ {watch[p]}
        /\ UNCHANGED <<archive, drops, pc>>
    BY <1>9 DEF Remove, workVars
  <2>2. \A q \in Paths : watch'[q] = IF q = p THEN NoFile ELSE watch[q]
    BY <1>1, <2>1
  <2>3. \A c \in entrusted' : c # NoFile /\ Kept(c)'
    <3> SUFFICES ASSUME NEW c \in entrusted, c # watch[p] PROVE c # NoFile /\ Kept(c)'
      BY <2>1
    <3> QED
      BY <2>1, <2>2 DEF KeptInv, Kept
  <2> QED
    BY <2>1, <2>2, <2>3 DEF KeptInv
<1>10. CASE Tick \/ Poll \/ UNCHANGED vars
  <2>1. UNCHANGED <<watch, archive, drops, entrusted>>
    BY <1>10 DEF Tick, Poll, StartScan, Visit, Enqueue, EndScan, Idle, vars, disk, history, ledger
  <2> QED
    BY <1>3, <1>10, <2>1, OthersLeaveWorkers
<1> QED
  BY <1>4, <1>5, <1>6, <1>7, <1>8, <1>9, <1>10 DEF Next, User

(* On one file system and with unique names every file handed over stays   *)
(* in /watch or under /archive, also when several workers own it and the   *)
(* process crashes (worker.cpp:304-312 and 401-403, util.cpp:175-251).     *)
THEOREM RenameLosesNothing ==
  ASSUME ~CrossDevice, MaxDrops <= 1
  PROVE  Spec => []NoOriginalLost
<1>1. Init => KeptInv
  BY DEF Init, KeptInv
<1>2. TypeInv /\ KeptInv /\ [Next]_vars => KeptInv'
  BY KeptNext
<1>3. KeptInv => NoOriginalLost
  BY DEF KeptInv, NoOriginalLost
<1> QED
  BY <1>1, <1>2, <1>3, NumberCorrect, PTL DEF Spec

-----------------------------------------------------------------------------
(* The numbers of the pipeline as the abstract dispenser.                  *)

Hands == [v \in Workers |-> job[v].seq]

(* A worker's step hands out a number, lets it go, burns one, or leaves    *)
(* numbers alone.                                                          *)
LEMMA WorkRefines ==
  ASSUME TypeInv, NumberInv, NEW w \in Workers, Work(w)
  PROVE  [Numbering!Next]_(Numbering!dispenser)
<1>1. /\ job \in [Workers -> Job] /\ nextSeq \in Nat /\ nextSeq \in 1..(MaxSeq + 1)
      /\ MaxSeq \in Nat
  BY BoundsAssumption DEF TypeInv, TypeOK, WorkersOK, DatabaseOK
<1>2. CASE Alloc(w)
  <2>1. /\ nextSeq \in Seqs \ (1..(nextSeq - 1)) /\ (nextSeq + 1) - 1 = nextSeq
        /\ 1..nextSeq = (1..(nextSeq - 1)) \cup {nextSeq}
    BY <1>1, <1>2 DEF Alloc, Seqs
  <2>2. CASE nextSeq' = nextSeq + 1 /\ job' = [job EXCEPT ![w].seq = nextSeq]
    <3>1. Hands[w] = 0
      BY <1>2 DEF Alloc, Hands, TypeInv, LocalsOK, Unnumbered
    <3>2. Hands' = [Hands EXCEPT ![w] = nextSeq]
      BY <1>1, <2>2 DEF Hands, Job
    <3>3. 1..(nextSeq' - 1) = (1..(nextSeq - 1)) \cup {nextSeq}
      BY <2>1, <2>2
    <3> QED
      BY <2>1, <3>1, <3>2, <3>3 DEF Numbering!Next, Numbering!Hand, Hands
  <2>3. CASE nextSeq' = nextSeq + 1 /\ UNCHANGED job
    <3>1. 1..(nextSeq' - 1) = (1..(nextSeq - 1)) \cup {nextSeq}
      BY <2>1, <2>3
    <3> QED
      BY <2>1, <2>3, <3>1 DEF Numbering!Next, Numbering!Burn
  <2>4. CASE UNCHANGED <<nextSeq, job>>
    BY <2>4 DEF Numbering!dispenser
  <2> QED
    BY <1>2, <2>2, <2>3, <2>4 DEF Alloc, NewSequence
<1>3. CASE Release(w)
  <2>1. nextSeq' = nextSeq /\ Hands' = [Hands EXCEPT ![w] = 0]
    BY <1>1, <1>3 DEF Release, Finish, NoJob, database, Hands
  <2> QED
    BY <2>1 DEF Numbering!Next, Numbering!LetGo, Hands
<1>4. CASE ~Alloc(w) /\ ~Release(w)
  <2>1. nextSeq' = nextSeq
    BY <1>4 DEF Work, Connect, Pop, TakeFingerprint, LookUp, Hash, Store, Dedup, Convert,
       Clear, Insert, Move, Copy, Unlink, ReleaseForRetry, CountFailure, Alert, database
  <2>2. \A v \in Workers : job'[v].seq = job[v].seq
    BY <1>1, <1>4 DEF Work, Connect, Pop, TakeFingerprint, LookUp, Hash, Store, Dedup, Convert,
       Clear, Insert, Move, Copy, Unlink, ReleaseForRetry, CountFailure, Alert, Job
  <2> QED
    BY <2>1, <2>2 DEF Numbering!dispenser
<1> QED
  BY <1>2, <1>3, <1>4

(* AllocateSequence keeps the promise of the abstract dispenser: a number  *)
(* is handed to one worker, once, across failures and restarts             *)
(* (db.cpp:245-322, db.h:30 "a monotonic sequence id").                    *)
THEOREM IngestImplementsDispenser == Spec => NumberingSpec
<1>1. Init => Numbering!Init
  BY DEF Init, NoJob, Numbering!Init, Numbering!Empty
<1>2. TypeInv /\ NumberInv /\ [Next]_vars => [Numbering!Next]_(Numbering!dispenser)
  <2> SUFFICES ASSUME TypeInv, NumberInv, [Next]_vars
               PROVE  [Numbering!Next]_(Numbering!dispenser)
    OBVIOUS
  <2>1. CASE User \/ Tick \/ Poll \/ UNCHANGED vars
    BY <2>1, OthersLeaveWorkers DEF Numbering!dispenser
  <2>2. CASE Crash
    <3>1. Hands' = Numbering!Empty
      BY <2>2 DEF Crash, NoJob, Numbering!Empty, Hands
    <3>2. nextSeq' = nextSeq \/ (nextSeq' = nextSeq + 1 /\ nextSeq <= MaxSeq)
      BY <2>2 DEF Crash, Reserved
    <3>3. \E more \in SUBSET Seqs : 1..(nextSeq' - 1) = (1..(nextSeq - 1)) \cup more
      <4>1. nextSeq \in 1..(MaxSeq + 1) /\ MaxSeq \in Nat
        BY BoundsAssumption DEF TypeInv, TypeOK, DatabaseOK
      <4>2. CASE nextSeq' = nextSeq
        <5>1. {} \in SUBSET Seqs /\ 1..(nextSeq' - 1) = (1..(nextSeq - 1)) \cup {}
          BY <4>2
        <5> QED
          BY <5>1
      <4>3. CASE nextSeq' = nextSeq + 1 /\ nextSeq <= MaxSeq
        <5>1. {nextSeq} \in SUBSET Seqs
          BY <4>1, <4>3 DEF Seqs
        <5>2. 1..(nextSeq' - 1) = (1..(nextSeq - 1)) \cup {nextSeq}
          BY <4>1, <4>3
        <5> QED
          BY <5>1, <5>2
      <4> QED
        BY <3>2, <4>2, <4>3
    <3> QED
      BY <3>1, <3>3 DEF Numbering!Next, Numbering!Restart, Hands
  <2> QED
    BY <2>1, <2>2, WorkRefines DEF Next
<1> QED
  BY <1>1, <1>2, NumberCorrect, PTL DEF Spec, NumberingSpec, Numbering!Spec

=============================================================================
