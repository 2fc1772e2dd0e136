-------------------------- MODULE IngestNamesProofs --------------------------
(***************************************************************************)
(* Theorems about Ingest that rest on what a name stands for: whether the  *)
(* recorded hash is that of the photo, whether what is set aside was       *)
(* imported, whether a failure is counted against the right file, whether  *)
(* an original is lost between two devices.                                *)
(***************************************************************************)
EXTENDS IngestProofs, SequenceTheorems

-----------------------------------------------------------------------------
(* What a worker's step can touch: its own locals, and what bears the name *)
(* of its file.                                                            *)

LEMMA WorkAlone ==
  ASSUME TypeInv, NEW w \in Workers, Work(w)
  PROVE  \A v \in Workers \ {w} : pc'[v] = pc[v] /\ job'[v] = job[v]
<1>1. pc \in [Workers -> Labels] /\ job \in [Workers -> Job]
  BY DEF TypeInv, TypeOK, WorkersOK
<1>2. \A l : Goto(w, l) => \A v \in Workers \ {w} : pc'[v] = pc[v]
  BY <1>1 DEF Goto
<1>3. \E l : Goto(w, l)
  BY DEF Work, Connect, Pop, TakeFingerprint, LookUp, Hash, Store, Dedup, Alloc, Convert,
         ConversionFailed, Clear, Insert, Move, Copy, Unlink, Moved, MoveFailed,
         ReleaseForRetry, CountFailure, Alert, Release, Finish
<1>4. \A v \in Workers \ {w} : job'[v] = job[v]
  <2>1. CASE Connect(w) \/ Pop(w) \/ TakeFingerprint(w) \/ LookUp(w) \/ Hash(w) \/ Store(w)
             \/ Dedup(w) \/ Alloc(w)
    BY <1>1, <2>1 DEF Connect, Pop, TakeFingerprint, LookUp, Hash, Store, Dedup, Alloc
  <2>2. CASE Convert(w) \/ Clear(w) \/ Insert(w) \/ Move(w) \/ Copy(w) \/ Unlink(w)
    BY <1>1, <2>2 DEF Convert, Clear, Insert, Move, Copy, Unlink
  <2>3. CASE ReleaseForRetry(w) \/ CountFailure(w) \/ Alert(w) \/ Release(w)
    BY <1>1, <2>3 DEF ReleaseForRetry, CountFailure, Alert, Release, Finish
  <2> QED
    BY <2>1, <2>2, <2>3 DEF Work
<1> QED
  BY <1>2, <1>3, <1>4

LEMMA WorkPath ==
  ASSUME TypeInv, NEW w \in Workers, Work(w), ~Pop(w)
  PROVE  job'[w].path \in {job[w].path, NoFile}
<1>1. job \in [Workers -> Job] /\ job[w] \in Job
  BY DEF TypeInv, TypeOK, WorkersOK
<1>2. CASE UNCHANGED job
  BY <1>2
<1>3. CASE TakeFingerprint(w) \/ LookUp(w) \/ Hash(w) \/ Alloc(w)
  BY <1>1, <1>3 DEF TakeFingerprint, LookUp, Hash, Alloc, Job
<1>4. CASE Clear(w) \/ Insert(w) \/ Move(w) \/ CountFailure(w)
  BY <1>1, <1>4 DEF Clear, Insert, Move, CountFailure, Job
<1>5. CASE Release(w)
  BY <1>1, <1>5 DEF Release, Finish, NoJob
<1> QED
  BY <1>2, <1>3, <1>4, <1>5 DEF Work, Connect, Store, Dedup, Convert, Copy, Unlink,
                                ReleaseForRetry, Alert

LEMMA WorkTouches ==
  ASSUME TypeInv, NEW w \in Workers, Work(w)
  PROVE  /\ UNCHANGED <<scan, cand, drops, entrusted>>
         /\ ~Pop(w) => UNCHANGED files
         /\ \A q \in Paths \ {job[w].path} :
              /\ watch'[q] = watch[q] /\ \A d \in Folders : archive'[d][q] = archive[d][q]
              /\ fail_counts'[q] = fail_counts[q] /\ failures'[q] = failures[q]
              /\ q \in DOMAIN fp_cache' => q \in DOMAIN fp_cache /\ fp_cache'[q] = fp_cache[q]
<1> DEFINE p == job[w].path
<1>1. /\ watch \in [Paths -> Hashes] /\ archive \in [Folders -> [Paths -> Hashes \cup {Torn}]]
      /\ fail_counts \in [Paths -> 0..(MaxRetries - 1)] /\ failures \in [Paths -> 0..MaxRetries]
      /\ job[w] \in Job
  BY DEF TypeInv, TypeOK, DiskOK, MemoryOK, HistoryOK, WorkersOK
<1> HIDE DEF p
<1>2. UNCHANGED <<scan, cand, drops, entrusted>>
  BY DEF Work, Connect, Pop, TakeFingerprint, LookUp, Hash, Store, Dedup, Alloc, Convert, Clear,
         Insert, Move, Copy, Unlink, ReleaseForRetry, CountFailure, Alert, Release, pollVars,
         ledger, history
<1>3. ~Pop(w) => UNCHANGED files
  BY DEF Work, Connect, TakeFingerprint, LookUp, Hash, Store, Dedup, Alloc, Convert, Clear,
         Insert, Move, Copy, Unlink, ReleaseForRetry, CountFailure, Alert, Release, memory
<1>4. \A q \in Paths \ {p} : watch'[q] = watch[q]
  <2>1. UNCHANGED watch \/ watch' = [watch EXCEPT ![p] = NoFile]
    BY DEF Work, Connect, Pop, TakeFingerprint, LookUp, Hash, Store, Dedup, Alloc, Convert, Clear,
         Insert, Move, Copy, Unlink, ReleaseForRetry, CountFailure, Alert, Release, disk,
         TakeAway, MoveFailed, p
  <2> QED
    BY <1>1, <2>1
<1>5. \A q \in Paths \ {p}, d \in Folders : archive'[d][q] = archive[d][q]
  <2>1. ASSUME NEW c, Place(w, c) PROVE \A q \in Paths \ {p}, d \in Folders :
                                          archive'[d][q] = archive[d][q]
    <3>1. archive' = [archive EXCEPT ![job[w].to][p] = c]
      BY <2>1 DEF Place, p
    <3> QED
      BY <1>1, <3>1
  <2>2. UNCHANGED archive \/ \E c : Place(w, c)
    BY DEF Work, Connect, Pop, TakeFingerprint, LookUp, Hash, Store, Dedup, Alloc, Convert, Clear,
         Insert, Move, Copy, Unlink, ReleaseForRetry, CountFailure, Alert, Release, disk
  <2> QED
    BY <2>1, <2>2
<1>6. \A q \in Paths \ {p} : fail_counts'[q] = fail_counts[q] /\ failures'[q] = failures[q]
  <2>1. CASE UNCHANGED <<fail_counts, failures>>
    BY <2>1
  <2>2. CASE Clear(w) \/ CountFailure(w)
    <3>1. \E n : fail_counts' = [fail_counts EXCEPT ![p] = n]
      BY <2>2 DEF Clear, CountFailure, p
    <3>2. UNCHANGED failures \/ \E n : failures' = [failures EXCEPT ![p] = n]
      BY <2>2 DEF Clear, CountFailure, history, ledger, p
    <3> QED
      BY <1>1, <3>1, <3>2
  <2> QED
    BY <2>1, <2>2 DEF Work, Connect, Pop, TakeFingerprint, LookUp, Hash, Store, Dedup, Alloc,
         Convert, Insert, Move, Copy, Unlink, ReleaseForRetry, Alert, Release, memory,
         history, ledger
<1>7. \A q \in Paths \ {p} :
        q \in DOMAIN fp_cache' => q \in DOMAIN fp_cache /\ fp_cache'[q] = fp_cache[q]
  <2>1. CASE UNCHANGED fp_cache
    BY <2>1
  <2>2. CASE Store(w)
    <3>1. PICK out, entry :
            fp_cache' = [q \in (DOMAIN fp_cache \cup {p}) \ out |->
                          IF q = p THEN entry ELSE fp_cache[q]]
      BY <2>2 DEF Store, p
    <3> QED
      BY <3>1
  <2> QED
    BY <2>1, <2>2 DEF Work, Connect, Pop, TakeFingerprint, LookUp, Hash, Dedup, Alloc, Convert,
         Clear, Insert, Move, Copy, Unlink, ReleaseForRetry, CountFailure, Alert, Release, memory
<1> QED
  BY <1>2, <1>3, <1>4, <1>5, <1>6, <1>7 DEF p

-----------------------------------------------------------------------------
(* A name that was never dropped is nowhere: not on a disk, not in a       *)
(* queue, not in a worker's hands, and nothing is remembered of it.        *)

Unused(p) ==
  /\ watch[p] = NoFile /\ \A d \in Folders : archive[d][p] = NoFile
  /\ p \notin scan /\ cand # p /\ \A k \in 1..Len(files) : files[k] # p
  /\ \A w \in Workers : job[w].path # p
  /\ p \notin DOMAIN fp_cache /\ fail_counts[p] = 0

UnusedInv == \A p \in Paths : drops[p] = 0 => Unused(p)

(* The queue holds names that were dropped.                                *)
LEMMA QueueTypes ==
  ASSUME TypeInv
  PROVE  /\ files \in Seq(Paths) /\ NoFile \notin Paths
         /\ watch \in [Paths -> Hashes] /\ archive \in [Folders -> [Paths -> Hashes \cup {Torn}]]
         /\ drops \in [Paths -> 0..MaxDrops] /\ MaxDrops \in Nat
         /\ \A p \in Paths : drops[p] \in Nat /\ drops[p] + 1 # 0
<1>1. /\ files \in Seq(Paths) /\ NoFile \notin Paths
      /\ watch \in [Paths -> Hashes] /\ archive \in [Folders -> [Paths -> Hashes \cup {Torn}]]
      /\ drops \in [Paths -> 0..MaxDrops] /\ MaxDrops \in Nat
  BY ContentsAssumption, BoundsAssumption DEF TypeInv, TypeOK, DiskOK, MemoryOK, HistoryOK
<1>2. \A p \in Paths : drops[p] \in Nat /\ drops[p] + 1 # 0
  BY <1>1
<1> QED
  BY <1>1, <1>2

LEMMA UnusedWork == ASSUME TypeInv, UnusedInv, NEW w \in Workers, Work(w) PROVE UnusedInv'
<1> SUFFICES ASSUME NEW q \in Paths, drops'[q] = 0 PROVE Unused(q)'
  BY DEF UnusedInv
<1>1. drops[q] = 0
  BY WorkTouches
<1>2. Unused(q) /\ q # job[w].path
  BY <1>1 DEF UnusedInv, Unused
<1>3. /\ UNCHANGED <<scan, cand>> /\ watch'[q] = watch[q]
      /\ \A d \in Folders : archive'[d][q] = archive[d][q]
      /\ fail_counts'[q] = fail_counts[q] /\ (q \in DOMAIN fp_cache' => q \in DOMAIN fp_cache)
  BY <1>2, WorkTouches
<1>4. (\A k \in 1..Len(files') : files'[k] # q) /\ job'[w].path # q
  <2>1. CASE Pop(w)
    <3>1. files # << >> /\ files' = Tail(files) /\ job' = [job EXCEPT ![w].path = Head(files)]
      BY <2>1 DEF Pop
    <3>0. files \in Seq(Paths)
      BY QueueTypes
    <3>a. Head(files) = files[1] /\ Len(files) \in Nat /\ Len(files) # 0
      BY <3>0, <3>1, HeadTailProperties, EmptySeq, LenProperties
    <3>b. /\ Len(files') = Len(files) - 1
          /\ \A k \in 1..Len(files') : files'[k] = files[k + 1]
      BY <3>0, <3>1, HeadTailProperties
    <3>2. /\ Len(files) \in Nat /\ Len(files) # 0 /\ Head(files) = files[1]
          /\ Len(files') = Len(files) - 1 /\ \A k \in 1..Len(files') : files'[k] = files[k + 1]
      BY <3>a, <3>b
    <3>3. 1 \in 1..Len(files) /\ \A k \in 1..(Len(files) - 1) : k + 1 \in 1..Len(files)
      BY <3>2
    <3>4. job'[w].path = files[1]
      BY <3>1, <3>2 DEF TypeInv, TypeOK, WorkersOK, Job
    <3> QED
      BY <1>2, <3>2, <3>3, <3>4 DEF Unused
  <2>2. CASE ~Pop(w)
    BY <1>2, <2>2, WorkTouches, WorkPath, QueueTypes DEF Unused
  <2> QED
    BY <2>1, <2>2
<1>5. \A v \in Workers : job'[v].path # q
  BY <1>2, <1>4, WorkAlone DEF Unused
<1> QED
  BY <1>2, <1>3, <1>4, <1>5 DEF Unused

LEMMA UnusedPoll == ASSUME TypeInv, UnusedInv, Poll PROVE UnusedInv'
<1> SUFFICES ASSUME NEW q \in Paths, drops'[q] = 0 PROVE Unused(q)'
  BY DEF UnusedInv
<1>1. UNCHANGED <<watch, archive, drops, job, fp_cache, fail_counts>>
  BY DEF Poll, StartScan, Visit, Enqueue, EndScan, Idle, disk, workVars, memory, history, ledger
<1>2. Unused(q)
  BY <1>1 DEF UnusedInv
<1>3. q \notin scan' /\ cand' # q
  BY <1>2, QueueTypes DEF Unused, Poll, StartScan, Visit, Enqueue, EndScan, Idle, pollVars
<1>4. \A k \in 1..Len(files') : files'[k] # q
  <2>1. CASE UNCHANGED files
    BY <1>2, <2>1 DEF Unused
  <2>2. CASE Enqueue /\ files' = Append(files, cand)
    <3>1. cand \in Paths /\ cand # q
      BY <1>2, <2>2 DEF Unused, Enqueue, TypeInv, TypeOK, PollerOK
    <3>2. /\ Len(files) \in Nat /\ Len(files') = Len(files) + 1
          /\ files'[Len(files) + 1] = cand /\ \A k \in 1..Len(files) : files'[k] = files[k]
      BY <2>2, <3>1, QueueTypes, AppendProperties, LenProperties
    <3>3. \A k \in 1..(Len(files) + 1) : k \in 1..Len(files) \/ k = Len(files) + 1
      BY <3>2
    <3> QED
      BY <1>2, <3>1, <3>2, <3>3 DEF Unused
  <2> QED
    BY <2>1, <2>2 DEF Poll, StartScan, Visit, Enqueue, EndScan, Idle, memory
<1> QED
  BY <1>1, <1>2, <1>3, <1>4 DEF Unused

(* The invariant of the names needs no assumption at all.                  *)
LEMMA UnusedNext == TypeInv /\ UnusedInv /\ [Next]_vars => UnusedInv'
<1> SUFFICES ASSUME TypeInv, UnusedInv, [Next]_vars PROVE UnusedInv'
  OBVIOUS
<1>1. ASSUME NEW p \in Paths, NEW c, Drop(p, c) \/ Replace(p, c) PROVE UnusedInv'
  <2>1. /\ watch' = [watch EXCEPT ![p] = c] /\ drops' = [drops EXCEPT ![p] = @ + 1]
        /\ UNCHANGED <<archive, scan, cand, files, job, fp_cache, fail_counts>>
    BY <1>1 DEF Drop, Replace, Arrive, pollVars, memory, workVars
  <2>2. drops'[p] # 0 /\ \A q \in Paths \ {p} : drops'[q] = drops[q] /\ watch'[q] = watch[q]
    BY <2>1, QueueTypes
  <2> QED
    BY <2>1, <2>2 DEF UnusedInv, Unused
<1>2. ASSUME NEW p \in Paths, Remove(p) PROVE UnusedInv'
  <2>1. /\ watch' = [watch EXCEPT ![p] = NoFile]
        /\ UNCHANGED <<drops, archive, scan, cand, files, job, fp_cache, fail_counts>>
    BY <1>2 DEF Remove, pollVars, memory, workVars
  <2>2. \A q \in Paths : watch'[q] \in {watch[q], NoFile}
    BY <2>1, QueueTypes
  <2> QED
    BY <2>1, <2>2 DEF UnusedInv, Unused
<1>3. CASE Tick \/ UNCHANGED vars
  BY <1>3 DEF Tick, vars, disk, memory, pollVars, workVars, history, ledger, UnusedInv, Unused
<1>4. CASE Crash
  <2>1. /\ UNCHANGED <<watch, archive, drops>> /\ Len(files') = 0 /\ DOMAIN fp_cache' = {}
        /\ scan' = {} /\ cand' = NoFile /\ (\A w \in Workers : job'[w].path = NoFile)
        /\ \A p \in Paths : fail_counts'[p] = 0
    BY <1>4, EmptySeq DEF Crash, disk, ledger, NoJob
  <2> QED
    BY <2>1, QueueTypes DEF UnusedInv, Unused
<1> QED
  BY <1>1, <1>2, <1>3, <1>4, UnusedWork, UnusedPoll DEF Next, User

LEMMA UnusedAlways == Spec => [](TypeInv /\ NumberInv /\ UnusedInv)
<1>1. Init => UnusedInv
  <2>1. Init => Len(files) = 0 /\ DOMAIN fp_cache = {} /\ \A w \in Workers : job[w].path = NoFile
    BY EmptySeq DEF Init, NoJob
  <2> QED
    BY <2>1, ContentsAssumption DEF Init, UnusedInv, Unused
<1> QED
  BY <1>1, UnusedNext, NumberCorrect, PTL DEF Spec

-----------------------------------------------------------------------------
(* Failures, when a name is dropped once.                                  *)

FailureInv ==
  /\ \A p \in Paths : fail_counts[p] <= failures[p]
  /\ \A w \in Workers :
       /\ pc[w] \in Idlers => job[w].to = NoFile
       /\ job[w].to = "failed" => failures[job[w].path] >= MaxRetries

LEMMA FailureTypes ==
  ASSUME TypeInv
  PROVE  /\ MaxRetries \in Nat \ {0} /\ NoFile # "failed"
         /\ fail_counts \in [Paths -> 0..(MaxRetries - 1)] /\ failures \in [Paths -> 0..MaxRetries]
         /\ pc \in [Workers -> Labels] /\ job \in [Workers -> Job]
  BY ContentsAssumption, BoundsAssumption
     DEF TypeInv, TypeOK, MemoryOK, HistoryOK, WorkersOK, Folders

(* Steps that forget failures, or count them, for files in nobody's hands. *)
LEMMA FailureKept ==
  ASSUME FailureInv, UNCHANGED <<pc, job>>,
         \A p \in Paths : fail_counts'[p] <= failures'[p],
         \A w \in Workers : job[w].to = "failed" =>
           failures'[job[w].path] = failures[job[w].path]
  PROVE  FailureInv'
  BY DEF FailureInv

(* A first drop of a name: the failures counted are none's.                *)
LEMMA FirstDrop ==
  ASSUME MaxDrops <= 1, TypeInv, UnusedInv, NEW p \in Paths, NEW c, Drop(p, c) \/ Replace(p, c)
  PROVE  Unused(p) /\ drops[p] = 0 /\ Drop(p, c)
<1>1. drops[p] < MaxDrops
  BY DEF Drop, Replace
<1>2. drops[p] = 0
  BY <1>1, QueueTypes
<1>3. Unused(p)
  BY <1>2 DEF UnusedInv
<1> QED
  BY <1>2, <1>3 DEF Unused, Replace

(* move_to_dead_letter (worker.cpp:435-477).                               *)
LEMMA FailureCount ==
  ASSUME TypeInv, FailureInv, NEW w \in Workers, CountFailure(w) PROVE FailureInv'
<1>1. PICK p \in Paths : p = job[w].path
  BY TypeJob DEF CountFailure, Idlers
<1>2. /\ failures' = [failures EXCEPT ![p] = IF @ < MaxRetries THEN @ + 1 ELSE @]
      /\ \/ /\ fail_counts[p] + 1 >= MaxRetries /\ fail_counts' = [fail_counts EXCEPT ![p] = 0]
            /\ job' = [job EXCEPT ![w].to = "failed"] /\ Goto(w, "move")
         \/ /\ fail_counts' = [fail_counts EXCEPT ![p] = fail_counts[p] + 1]
            /\ UNCHANGED job /\ Goto(w, "release")
  BY <1>1 DEF CountFailure, DeadLetter
<1>3. \A f \in 0..(MaxRetries - 1) : \A n \in 0..MaxRetries : f <= n =>
        LET m == IF n < MaxRetries THEN n + 1 ELSE n
        IN  /\ f <= m /\ n <= m /\ f + 1 <= m /\ 0 <= m
            /\ f + 1 >= MaxRetries => m >= MaxRetries
            /\ n >= MaxRetries => m >= MaxRetries
  BY FailureTypes
<1>4. /\ failures'[p] = IF failures[p] < MaxRetries THEN failures[p] + 1 ELSE failures[p]
      /\ \A q \in Paths \ {p} : failures'[q] = failures[q]
      /\ \A q \in Paths \ {p} : fail_counts'[q] = fail_counts[q]
      /\ fail_counts'[p] \in {0, fail_counts[p] + 1}
  BY <1>2, FailureTypes
<1>5. fail_counts[p] \in 0..(MaxRetries - 1) /\ failures[p] \in 0..MaxRetries
      /\ fail_counts[p] <= failures[p]
  BY FailureTypes DEF FailureInv
<1>6. \A q \in Paths : fail_counts'[q] <= failures'[q]
  BY <1>3, <1>4, <1>5 DEF FailureInv
<1>7. \A q \in Paths : failures[q] >= MaxRetries => failures'[q] >= MaxRetries
  BY <1>3, <1>4, <1>5
<1>8. \A v \in Workers \ {w} : pc'[v] = pc[v] /\ job'[v] = job[v]
  BY WorkAlone DEF Work
<1>9. \A v \in Workers : pc'[v] \in Idlers => v # w
  BY <1>2, FailureTypes DEF Goto, Idlers
<1>10. \A v \in Workers : job[v].to = "failed" => job[v].path \in Paths
  BY TypeJob, FailureTypes DEF FailureInv
<1>11. job'[w].path = p /\ job'[w].to \in {job[w].to, "failed"}
       /\ (job'[w].to # job[w].to => fail_counts[p] + 1 >= MaxRetries)
  BY <1>1, <1>2, FailureTypes DEF Job
<1>12. job'[w].to = "failed" => failures'[p] >= MaxRetries
  <2>1. CASE job'[w].to # job[w].to
    BY <1>3, <1>4, <1>5, <1>11, <2>1
  <2>2. CASE job'[w].to = job[w].to
    BY <1>1, <1>7, <2>2 DEF FailureInv
  <2> QED
    BY <2>1, <2>2
<1>13. \A v \in Workers : job'[v].to = "failed" => failures'[job'[v].path] >= MaxRetries
  BY <1>7, <1>8, <1>10, <1>11, <1>12 DEF FailureInv
<1>14. \A v \in Workers : pc'[v] \in Idlers => job'[v].to = NoFile
  BY <1>8, <1>9 DEF FailureInv
<1> QED
  BY <1>6, <1>13, <1>14 DEF FailureInv

(* The folder a file is on its way to is chosen where it is used, and only *)
(* the dead letter chooses "failed".                                       *)
LEMMA FolderChosen ==
  ASSUME TypeInv, FailureInv, NEW w \in Workers, Work(w), ~CountFailure(w)
  PROVE  /\ job'[w].to = "failed" => job[w].to = "failed" /\ job'[w].path = job[w].path
         /\ pc'[w] \in Idlers => job'[w].to = NoFile
<1>1. /\ job \in [Workers -> Job] /\ job[w] \in Job /\ pc \in [Workers -> Labels]
      /\ NoFile # "failed"
  BY FailureTypes
<1>2. CASE Pop(w)
  <2>1. pc[w] = "idle" /\ job' = [job EXCEPT ![w].path = Head(files)]
    BY <1>2 DEF Pop
  <2>2. job'[w].to = job[w].to
    BY <1>1, <2>1 DEF Job
  <2>3. job[w].to = NoFile
    BY <2>1 DEF FailureInv, Idlers
  <2> QED
    BY <1>1, <2>2, <2>3
<1>3. CASE TakeFingerprint(w) \/ LookUp(w) \/ Hash(w) \/ Alloc(w) \/ Move(w)
  <2>1. job'[w].to = job[w].to /\ job'[w].path = job[w].path
    BY <1>1, <1>3 DEF TakeFingerprint, LookUp, Hash, Alloc, Move, Job
  <2>2. pc'[w] \notin Idlers
    BY <1>1, <1>3 DEF TakeFingerprint, LookUp, Hash, Alloc, Move, Goto, Moved, MoveFailed, Idlers
  <2> QED
    BY <2>1, <2>2
<1>4. CASE Clear(w) \/ Insert(w)
  <2>1. /\ job'[w].to = job[w].to \/ job'[w].to \in {"duplicates", "schema"}
        /\ job'[w].path = job[w].path
    BY <1>1, <1>4 DEF Clear, Insert, Job
  <2>2. pc'[w] \notin Idlers
    BY <1>1, <1>4 DEF Clear, Insert, Goto, Idlers
  <2> QED
    BY <2>1, <2>2
<1>5. CASE Release(w)
  <2>1. job'[w] = NoJob
    BY <1>1, <1>5 DEF Release, Finish
  <2> QED
    BY <1>1, <2>1 DEF NoJob
<1>6. CASE Connect(w)
  BY <1>6 DEF Connect, FailureInv, Idlers
<1>7. CASE Store(w) \/ Dedup(w) \/ Convert(w) \/ Copy(w) \/ Unlink(w) \/ ReleaseForRetry(w)
           \/ Alert(w)
  <2>1. UNCHANGED job
    BY <1>7 DEF Store, Dedup, Convert, Copy, Unlink, ReleaseForRetry, Alert
  <2>2. pc'[w] \notin Idlers
    BY <1>1, <1>7 DEF Store, Dedup, Convert, ConversionFailed, Copy, Unlink, ReleaseForRetry,
         Alert, Goto, Moved, MoveFailed, Idlers
  <2> QED
    BY <2>1, <2>2
<1> QED
  BY <1>2, <1>3, <1>4, <1>5, <1>6, <1>7 DEF Work

LEMMA FailureWork ==
  ASSUME TypeInv, FailureInv, NEW w \in Workers, Work(w), ~CountFailure(w) PROVE FailureInv'
<1>1. UNCHANGED failures
  BY DEF Work, Connect, Pop, TakeFingerprint, LookUp, Hash, Store, Dedup, Alloc, Convert, Clear,
         Insert, Move, Copy, Unlink, ReleaseForRetry, Alert, Release, ledger, history
<1>2. \A p \in Paths : fail_counts'[p] <= failures'[p]
  <2>1. CASE UNCHANGED fail_counts
    BY <1>1, <2>1 DEF FailureInv
  <2>2. CASE Clear(w)
    <3>1. fail_counts' = [fail_counts EXCEPT ![job[w].path] = 0]
      BY <2>2 DEF Clear
    <3>2. \A p \in Paths : fail_counts'[p] \in {0, fail_counts[p]}
      BY <3>1, FailureTypes
    <3>3. \A p \in Paths : 0 <= failures[p]
      BY FailureTypes
    <3> QED
      BY <1>1, <3>2, <3>3 DEF FailureInv
  <2> QED
    BY <2>1, <2>2 DEF Work, Connect, Pop, TakeFingerprint, LookUp, Hash, Store, Dedup, Alloc,
         Convert, Insert, Move, Copy, Unlink, ReleaseForRetry, Alert, Release, memory
<1> QED
  BY <1>1, <1>2, WorkAlone, FolderChosen DEF FailureInv

LEMMA FailureNext ==
  ASSUME MaxDrops <= 1
  PROVE  TypeInv /\ UnusedInv /\ FailureInv /\ [Next]_vars => FailureInv'
<1> SUFFICES ASSUME TypeInv, UnusedInv, FailureInv, [Next]_vars PROVE FailureInv'
  OBVIOUS
<1>1. ASSUME NEW p \in Paths, NEW c, Drop(p, c) \/ Replace(p, c) PROVE FailureInv'
  <2>1. Unused(p)
    BY <1>1, FirstDrop
  <2>2. failures' = [failures EXCEPT ![p] = 0] /\ UNCHANGED <<fail_counts, pc, job>>
    BY <1>1 DEF Drop, Replace, Arrive, memory, workVars
  <2>3. failures'[p] = 0 /\ \A q \in Paths \ {p} : failures'[q] = failures[q]
    BY <2>2, FailureTypes
  <2>4. fail_counts[p] = 0 /\ 0 <= 0 /\ \A w \in Workers : job[w].path # p
    BY <2>1 DEF Unused
  <2>5. \A w \in Workers : job[w].to = "failed" => job[w].path \in Paths
    BY TypeJob, FailureTypes DEF FailureInv
  <2> QED
    BY <2>2, <2>3, <2>4, <2>5, FailureKept DEF FailureInv
<1>2. CASE UNCHANGED <<pc, job, fail_counts, failures>>
  BY <1>2, FailureKept DEF FailureInv
<1>3. CASE (\E p \in Paths : Remove(p)) \/ Tick \/ Poll \/ UNCHANGED vars
  BY <1>2, <1>3 DEF Remove, Tick, Poll, StartScan, Visit, Enqueue, EndScan, Idle, vars, memory,
                    workVars, history, ledger
<1>4. CASE Crash
  <2>1. /\ UNCHANGED failures /\ (\A w \in Workers : job'[w].to = NoFile)
        /\ \A p \in Paths : fail_counts'[p] = 0
    BY <1>4 DEF Crash, ledger, NoJob
  <2>2. \A p \in Paths : 0 <= failures[p]
    BY FailureTypes
  <2> QED
    BY <2>1, <2>2, FailureTypes DEF FailureInv
<1> QED
  BY <1>1, <1>3, <1>4, FailureCount, FailureWork DEF Next, User

(* A file goes to /archive/failed only after MaxRetries failed passes of   *)
(* its own (worker.cpp:440-450), with any number of workers that may own   *)
(* it at once, whatever fails and wherever the process crashes, if a name  *)
(* is used once: the counter is kept under the name, and one that comes    *)
(* back inherits the failures of the file before it.                       *)
THEOREM DeadLettersAreDeserved == ASSUME MaxDrops <= 1 PROVE Spec => DeadLetterDeserved
<1> DEFINE A == \A p \in Paths :
       archive'["failed"][p] \in Contents /\ archive["failed"][p] # archive'["failed"][p]
         => failures[p] >= MaxRetries
<1>1. Init => FailureInv
  <2>1. Init => \A w \in Workers : job[w].to = NoFile
    BY DEF Init, NoJob
  <2> QED
    BY <2>1, ContentsAssumption DEF Init, FailureInv, Folders
<1>2. TypeInv /\ FailureInv /\ [Next]_vars => [A]_vars
  <2> SUFFICES ASSUME TypeInv, FailureInv, Next, NEW p \in Paths,
                      archive["failed"][p] # archive'["failed"][p]
               PROVE  failures[p] >= MaxRetries
    BY DEF vars, disk
  <2>1. PICK w \in Workers : Work(w)
    BY DEF Next, User, Drop, Replace, Arrive, Remove, Tick, Crash, Poll, StartScan, Visit,
           Enqueue, EndScan, Idle, disk
  <2>2. PICK c : Place(w, c)
    BY <2>1 DEF Work, Connect, Pop, TakeFingerprint, LookUp, Hash, Store, Dedup, Alloc, Convert,
         Clear, Insert, Move, Copy, Unlink, ReleaseForRetry, CountFailure, Alert, Release, disk
  <2>3. job[w].to = "failed" /\ job[w].path = p
    <3>1. archive' = [archive EXCEPT ![job[w].to][job[w].path] = c]
      BY <2>2 DEF Place
    <3> QED
      BY <3>1, QueueTypes
  <2> QED
    BY <2>3 DEF FailureInv
<1> HIDE DEF A
<1> QED
  BY <1>1, <1>2, FailureNext, UnusedAlways, PTL DEF Spec, DeadLetterDeserved, A

-----------------------------------------------------------------------------
(* Where a worker relies on the hash it has taken, and where it has it     *)
(* from: the file itself, the cache, or the step before.                   *)

Moving     == {"move", "copy", "unlink"}
HasHash(w) == \/ pc[w] \in {"store", "dedup", "alloc", "convert", "clear", "insert"}
              \/ pc[w] \in Moving /\ job[w].to # "failed"

LEMMA WorkerTypes ==
  ASSUME TypeInv, NEW w \in Workers
  PROVE  /\ pc \in [Workers -> Labels] /\ job \in [Workers -> Job] /\ job[w] \in Job
         /\ LocalsOK(w) /\ watch \in [Paths -> Hashes] /\ NoFile \notin Contents
         /\ pc[w] \notin Idlers => job[w].path \in Paths
  BY TypeJob, ContentsAssumption DEF TypeInv, TypeOK, WorkersOK, DiskOK

LEMMA HashSource ==
  ASSUME TypeInv, NEW w \in Workers, Work(w), HasHash(w)'
  PROVE  /\ job'[w].path = job[w].path /\ UNCHANGED watch
         /\ \/ HasHash(w) /\ job'[w].hash = job[w].hash
            \/ Hash(w) /\ job'[w].hash = watch[job[w].path] /\ job'[w].hash # NoFile
            \/ /\ LookUp(w) /\ job[w].path \in DOMAIN fp_cache
               /\ job'[w].hash = fp_cache[job[w].path].hash
<1> USE WorkerTypes
<1>1. ASSUME NEW l, Goto(w, l) PROVE pc'[w] = l
  BY <1>1 DEF Goto
<1>2. ASSUME pc'[w] \in {"idle", "exited", "fingerprint", "hash", "lookup", "dlRelease", "dlCount",
                         "alert", "release"}
      PROVE  FALSE
  BY <1>2 DEF HasHash, Moving
<1>3. CASE Connect(w) \/ Pop(w) \/ TakeFingerprint(w) \/ Unlink(w) \/ ReleaseForRetry(w)
           \/ Alert(w) \/ Release(w)
  BY <1>1, <1>2, <1>3 DEF Connect, Pop, TakeFingerprint, Unlink, ReleaseForRetry, Alert, Release,
                          Finish, Moved, MoveFailed
<1>4. CASE CountFailure(w)
  <2>1. CASE Goto(w, "release")
    BY <1>1, <1>2, <2>1
  <2>2. CASE job' = [job EXCEPT ![w].to = "failed"] /\ Goto(w, "move")
    <3>1. job'[w].to = "failed" /\ pc'[w] = "move"
      BY <1>1, <2>2 DEF Job
    <3> QED
      BY <3>1 DEF HasHash
  <2> QED
    BY <1>4, <2>1, <2>2 DEF CountFailure
<1>5. CASE LookUp(w)
  <2>1. CASE UNCHANGED job /\ Goto(w, "hash")
    BY <1>1, <1>2, <2>1
  <2>2. CASE job[w].path \in DOMAIN fp_cache
             /\ job' = [job EXCEPT ![w].hash = fp_cache[job[w].path].hash]
    <3>1. job'[w].path = job[w].path /\ job'[w].hash = fp_cache[job[w].path].hash
      BY <2>2 DEF Job
    <3> QED
      BY <1>5, <2>2, <3>1 DEF LookUp, CacheKey, disk
  <2> QED
    BY <1>5, <2>1, <2>2 DEF LookUp, CacheKey
<1>6. CASE Hash(w)
  <2>1. PICK h \in {watch[job[w].path], NoFile} :
          /\ job' = [job EXCEPT ![w].hash = h]
          /\ Goto(w, IF h = NoFile THEN "dlRelease"
                     ELSE IF FastFingerprint THEN "store" ELSE "dedup")
    BY <1>6 DEF Hash, HashFailed
  <2>2. h # NoFile
    BY <1>1, <1>2, <2>1
  <2>3. job'[w].path = job[w].path /\ job'[w].hash = h
    BY <2>1 DEF Job
  <2> QED
    BY <1>6, <2>1, <2>2, <2>3 DEF Hash, disk
<1>7. CASE Store(w) \/ Dedup(w) \/ Convert(w)
  <2>1. UNCHANGED <<job, watch>>
    BY <1>7 DEF Store, Dedup, Convert, disk
  <2> QED
    BY <1>7, <2>1 DEF Store, Dedup, Convert, HasHash
<1>8. CASE Alloc(w) \/ Clear(w) \/ Insert(w)
  <2>1. UNCHANGED watch /\ job'[w].path = job[w].path /\ job'[w].hash = job[w].hash
    BY <1>8 DEF Alloc, Clear, Insert, Job, disk
  <2> QED
    BY <1>8, <2>1 DEF Alloc, Clear, Insert, HasHash
<1>9. CASE Move(w)
  <2>1. CASE Moved(w) \/ MoveFailed(w)
    BY <1>1, <1>2, <2>1 DEF Moved, MoveFailed
  <2>2. CASE job' = [job EXCEPT ![w].held = watch[job[w].path]] /\ Goto(w, "copy")
             /\ UNCHANGED <<watch, young>>
    <3>1. /\ job'[w].path = job[w].path /\ job'[w].hash = job[w].hash
          /\ job'[w].to = job[w].to /\ pc'[w] = "copy"
      BY <1>1, <2>2 DEF Job
    <3> QED
      BY <1>9, <2>2, <3>1 DEF Move, HasHash, Moving
  <2> QED
    BY <1>9, <2>1, <2>2 DEF Move
<1>10. CASE Copy(w)
  <2>1. CASE MoveFailed(w)
    BY <1>1, <1>2, <2>1 DEF MoveFailed
  <2>2. CASE Goto(w, "unlink") /\ UNCHANGED <<watch, young>>
    <3>1. UNCHANGED job /\ pc[w] = "copy" /\ pc'[w] = "unlink"
      BY <1>1, <1>10, <2>2 DEF Copy
    <3> QED
      BY <2>2, <3>1 DEF HasHash, Moving
  <2> QED
    BY <1>10, <2>1, <2>2 DEF Copy
<1> QED
  BY <1>3, <1>4, <1>5, <1>6, <1>7, <1>8, <1>9, <1>10 DEF Work

-----------------------------------------------------------------------------
(* What is recorded and what is set aside, as long as every hash a worker  *)
(* relies on is that of the file that bears the name now, if any does.     *)

Agrees(w) == HasHash(w) => /\ job[w].hash \in Contents
                           /\ watch[job[w].path] \in {job[w].hash, NoFile}

AllAgree == \A w \in Workers : Agrees(w)

RecordLocal(w) ==
  /\ pc[w] \in {"clear", "insert"} /\ job[w].seq # 0 => output[job[w].seq] = job[w].hash
  /\ (pc[w] = "clear" /\ job[w].seq = 0) \/ (pc[w] \in Moving /\ job[w].to = "duplicates")
       => Known(job[w].hash)
  /\ pc[w] = "copy" /\ job[w].to = "duplicates" => job[w].held = job[w].hash

RecordInv == RecordMatchesConversion /\ DuplicateWasImported /\ \A w \in Workers : RecordLocal(w)

(* Rows are not taken back.                                                *)
LEMMA KnownStays == [Next]_vars => \A h : Known(h) => Known(h)'
<1> SUFFICES ASSUME [Next]_vars PROVE imports \subseteq imports'
  BY DEF Known
<1>1. CASE User \/ Tick \/ Poll \/ UNCHANGED vars
  BY <1>1, OthersLeaveWorkers
<1>2. CASE Crash
  BY <1>2 DEF Crash
<1>3. ASSUME NEW w \in Workers, Work(w) PROVE imports \subseteq imports'
  BY <1>3 DEF Work, Connect, Pop, TakeFingerprint, LookUp, Hash, Store, Dedup, Alloc, Convert,
       Clear, Insert, Move, Copy, Unlink, ReleaseForRetry, CountFailure, Alert, Release, database
<1> QED
  BY <1>1, <1>2, <1>3 DEF Next

(* The conversion writes the DNG of its own number.                        *)
LEMMA OutputOfOthers ==
  ASSUME TypeInv, NumberInv, NEW w \in Workers, Work(w)
  PROVE  /\ ~Convert(w) => UNCHANGED output
         /\ \A v \in Workers \ {w} : job[v].seq # 0 => output'[job[v].seq] = output[job[v].seq]
<1>1. ~Convert(w) => UNCHANGED output
  BY DEF Work, Connect, Pop, TakeFingerprint, LookUp, Hash, Store, Dedup, Alloc, Clear, Insert,
         Move, Copy, Unlink, ReleaseForRetry, CountFailure, Alert, Release, disk
<1>2. CASE Convert(w)
  <2>1. UNCHANGED output \/ \E c : output' = [output EXCEPT ![job[w].seq] = c]
    BY <1>2 DEF Convert
  <2>2. output \in [Seqs -> Hashes \cup {Torn}]
    BY DEF TypeInv, TypeOK, DiskOK
  <2>3. \A v \in Workers \ {w} : job[v].seq # 0 => job[v].seq # job[w].seq
    BY DEF NumberInv
  <2>4. \A v \in Workers : job[v].seq # 0 => job[v].seq \in Seqs
    <3>1. \A v \in Workers : job[v].seq \in 0..MaxSeq
      BY WorkerTypes DEF Job
    <3>2. \A n \in 0..MaxSeq : n # 0 => n \in Seqs
      BY BoundsAssumption DEF Seqs
    <3> QED
      BY <3>1, <3>2
  <2> QED
    BY <2>1, <2>2, <2>3, <2>4, <1>2 DEF Convert
<1> QED
  BY <1>1, <1>2

(* What the step makes of its own worker.                                  *)
LEMMA RecordOwn ==
  ASSUME TypeInv, NumberInv, RecordInv, AllAgree,
         NEW w \in Workers, Work(w)
  PROVE  RecordLocal(w)'
<1> USE WorkerTypes
<1>1. RecordLocal(w) /\ Agrees(w) /\ \A h : Known(h) => Known(h)'
  BY KnownStays DEF RecordInv, AllAgree, Next
<1>2. ASSUME NEW l, Goto(w, l) PROVE pc'[w] = l
  BY <1>2 DEF Goto
<1>3. ASSUME pc'[w] \notin {"clear", "insert", "move", "copy", "unlink"} PROVE RecordLocal(w)'
  BY <1>3 DEF RecordLocal, Moving
<1>4. CASE Connect(w) \/ Pop(w) \/ TakeFingerprint(w) \/ LookUp(w) \/ Hash(w) \/ Store(w)
           \/ Alloc(w) \/ Unlink(w) \/ ReleaseForRetry(w) \/ Alert(w) \/ Release(w)
  <2>1. PICK l : Goto(w, l) /\ l \notin {"clear", "insert", "move", "copy", "unlink"}
    BY <1>4 DEF Connect, Pop, TakeFingerprint, LookUp, Hash, Store, Alloc, Unlink, Moved,
                MoveFailed, ReleaseForRetry, Alert, Release, Finish
  <2> QED
    BY <1>2, <1>3, <2>1
<1>5. CASE Dedup(w)
  <2>1. UNCHANGED job /\ pc[w] = "dedup" /\ job[w].seq = 0
    BY <1>5 DEF Dedup, LocalsOK, Unnumbered
  <2>2. Goto(w, "alloc") \/ (Goto(w, "clear") /\ Known(job[w].hash))
    BY <1>5 DEF Dedup, Duplicate
  <2> QED
    BY <1>1, <1>2, <2>1, <2>2 DEF RecordLocal, Moving
<1>6. CASE Convert(w)
  <2>1. UNCHANGED <<job, watch>> /\ pc[w] = "convert" /\ job[w].seq \in Seqs /\ job[w].seq # 0
    BY <1>6, BoundsAssumption DEF Convert, LocalsOK, Seqs
  <2>2. CASE ConversionFailed(w)
    BY <1>2, <1>3, <2>2 DEF ConversionFailed
  <2>3. CASE watch[job[w].path] \in Contents /\ Goto(w, "clear")
             /\ output' = [output EXCEPT ![job[w].seq] = watch[job[w].path]]
    <3>1. watch[job[w].path] = job[w].hash
      BY <1>1, <2>1, <2>3 DEF Agrees, HasHash
    <3>2. output'[job[w].seq] = job[w].hash
      BY <2>1, <2>3, <3>1 DEF TypeInv, TypeOK, DiskOK
    <3> QED
      BY <1>2, <2>1, <2>3, <3>2 DEF RecordLocal, Moving
  <2> QED
    BY <1>6, <2>2, <2>3 DEF Convert
<1>7. CASE Clear(w)
  <2>1. UNCHANGED output /\ pc[w] = "clear"
    BY <1>7 DEF Clear, disk
  <2>2. CASE job[w].seq # 0 /\ Goto(w, "insert") /\ UNCHANGED job
    BY <1>1, <1>2, <2>1, <2>2 DEF RecordLocal, Moving
  <2>3. CASE job[w].seq = 0 /\ Goto(w, "move") /\ job' = [job EXCEPT ![w].to = "duplicates"]
    <3>1. pc'[w] = "move" /\ job'[w].hash = job[w].hash
      BY <1>2, <2>3 DEF Job
    <3> QED
      BY <1>1, <2>1, <2>3, <3>1 DEF RecordLocal
  <2> QED
    BY <1>7, <2>2, <2>3 DEF Clear
<1>8. CASE Insert(w)
  <2>1. pc'[w] = "move" /\ job'[w].to = "schema"
    BY <1>8 DEF Insert, Goto, Job
  <2> QED
    BY <2>1 DEF RecordLocal
<1>9. CASE Move(w)
  <2>1. CASE Moved(w) \/ MoveFailed(w)
    BY <1>2, <1>3, <2>1 DEF Moved, MoveFailed
  <2>2. CASE job' = [job EXCEPT ![w].held = watch[job[w].path]] /\ Goto(w, "copy")
             /\ watch[job[w].path] # NoFile
    <3>1. /\ job'[w].to = job[w].to /\ job'[w].hash = job[w].hash /\ pc'[w] = "copy"
          /\ job'[w].held = watch[job[w].path] /\ pc[w] = "move"
      BY <1>2, <1>9, <2>2 DEF Move, Job
    <3>2. job[w].to = "duplicates" => watch[job[w].path] = job[w].hash
      BY <1>1, <2>2, <3>1 DEF Agrees, HasHash, Moving
    <3> QED
      BY <1>1, <3>1, <3>2 DEF RecordLocal, Moving
  <2> QED
    BY <1>9, <2>1, <2>2 DEF Move
<1>10. CASE Copy(w)
  <2>1. CASE MoveFailed(w)
    BY <1>2, <1>3, <2>1 DEF MoveFailed
  <2>2. CASE Goto(w, "unlink")
    <3>1. UNCHANGED job /\ pc[w] = "copy" /\ pc'[w] = "unlink"
      BY <1>2, <1>10, <2>2 DEF Copy
    <3> QED
      BY <1>1, <3>1 DEF RecordLocal, Moving
  <2> QED
    BY <1>10, <2>1, <2>2 DEF Copy
<1>11. CASE CountFailure(w)
  <2>1. CASE Goto(w, "release")
    BY <1>2, <1>3, <2>1
  <2>2. CASE job' = [job EXCEPT ![w].to = "failed"] /\ Goto(w, "move")
    <3>1. job'[w].to = "failed" /\ pc'[w] = "move"
      BY <1>2, <2>2 DEF Job
    <3> QED
      BY <3>1 DEF RecordLocal
  <2> QED
    BY <1>11, <2>1, <2>2 DEF CountFailure
<1> QED
  BY <1>4, <1>5, <1>6, <1>7, <1>8, <1>9, <1>10, <1>11 DEF Work

(* What the step writes where others look: the rows and the duplicates.    *)
LEMMA RecordShared ==
  ASSUME TypeInv, NumberInv, RecordInv, AllAgree,
         NEW w \in Workers, Work(w)
  PROVE  RecordMatchesConversion' /\ DuplicateWasImported'
<1>1. RecordLocal(w) /\ Agrees(w) /\ \A h : Known(h) => Known(h)'
  BY KnownStays DEF RecordInv, AllAgree, Next
<1>2. RecordMatchesConversion'
  <2>1. CASE UNCHANGED imports
    BY <2>1 DEF RecordInv, RecordMatchesConversion
  <2>2. CASE Insert(w)
    <3>1. pc[w] = "insert" /\ job[w].seq \in Seqs /\ job[w].seq # 0
      BY <2>2, WorkerTypes, BoundsAssumption DEF Insert, LocalsOK, Seqs
    <3>2. NewImport(w).src = NewImport(w).out
      BY <1>1, <3>1 DEF RecordLocal, NewImport
    <3> QED
      BY <2>2, <3>2 DEF Insert, RecordInv, RecordMatchesConversion
  <2> QED
    BY <2>1, <2>2 DEF Work, Connect, Pop, TakeFingerprint, LookUp, Hash, Store, Dedup, Alloc,
         Convert, Clear, Move, Copy, Unlink, ReleaseForRetry, CountFailure, Alert, Release, database
<1>3. ASSUME NEW c, Place(w, c), c \in Contents /\ job[w].to = "duplicates" => Known(c)
      PROVE  DuplicateWasImported'
  <2>1. archive' = [archive EXCEPT ![job[w].to][job[w].path] = c]
    BY <1>3 DEF Place
  <2>2. \A p \in Paths : \/ archive'["duplicates"][p] = archive["duplicates"][p]
                         \/ job[w].to = "duplicates" /\ archive'["duplicates"][p] = c
    BY <2>1, QueueTypes
  <2> QED
    BY <1>1, <1>3, <2>2 DEF RecordInv, DuplicateWasImported
<1>4. ASSUME Move(w) PROVE DuplicateWasImported'
  <2>1. pc[w] = "move"
    BY <1>4 DEF Move
  <2>2. CASE watch[job[w].path] # NoFile /\ Place(w, watch[job[w].path])
    <3>1. job[w].to = "duplicates" => Known(job[w].hash) /\ watch[job[w].path] = job[w].hash
      BY <1>1, <2>1, <2>2 DEF RecordLocal, Agrees, HasHash, Moving
    <3> QED
      BY <1>3, <2>2, <3>1
  <2>3. CASE Place(w, Torn)
    BY <1>3, <2>3, ContentsAssumption
  <2>4. CASE UNCHANGED archive
    BY <1>1, <2>4 DEF RecordInv, DuplicateWasImported
  <2> QED
    BY <1>4, <2>2, <2>3, <2>4 DEF Move
<1>5. ASSUME Copy(w) PROVE DuplicateWasImported'
  <2>1. pc[w] = "copy" /\ (job[w].to = "duplicates" => Known(job[w].hash) /\ job[w].held = job[w].hash)
    BY <1>1, <1>5 DEF Copy, RecordLocal, Moving
  <2>2. CASE Place(w, job[w].held)
    BY <1>3, <2>1, <2>2
  <2>3. CASE watch[job[w].path] # NoFile /\ Place(w, watch[job[w].path])
    <3>1. job[w].to = "duplicates" => watch[job[w].path] = job[w].hash
      BY <1>1, <2>1, <2>3 DEF Agrees, HasHash, Moving
    <3> QED
      BY <1>3, <2>1, <2>3, <3>1
  <2>4. CASE UNCHANGED archive
    BY <1>1, <2>4 DEF RecordInv, DuplicateWasImported
  <2> QED
    BY <1>5, <2>2, <2>3, <2>4 DEF Copy
<1>6. ASSUME UNCHANGED archive PROVE DuplicateWasImported'
  BY <1>1, <1>6 DEF RecordInv, DuplicateWasImported
<1> QED
  BY <1>2, <1>4, <1>5, <1>6 DEF Work, Connect, Pop, TakeFingerprint, LookUp, Hash, Store, Dedup,
       Alloc, Convert, Clear, Insert, Unlink, ReleaseForRetry, CountFailure, Alert, Release, disk

LEMMA RecordNext ==
  TypeInv /\ NumberInv /\ RecordInv /\ AllAgree /\ [Next]_vars => RecordInv'
<1> SUFFICES ASSUME TypeInv, NumberInv, RecordInv, AllAgree, [Next]_vars
             PROVE  RecordInv'
  OBVIOUS
<1>1. \A h : Known(h) => Known(h)'
  BY KnownStays
<1>2. ASSUME NEW w \in Workers, Work(w) PROVE RecordInv'
  <2>1. \A v \in Workers \ {w} : RecordLocal(v)'
    <3> SUFFICES ASSUME NEW v \in Workers \ {w} PROVE RecordLocal(v)'
      OBVIOUS
    <3>1. /\ pc'[v] = pc[v] /\ job'[v] = job[v] /\ RecordLocal(v)
          /\ job[v].seq # 0 => output'[job[v].seq] = output[job[v].seq]
      BY <1>2, WorkAlone, OutputOfOthers DEF RecordInv
    <3> QED
      BY <1>1, <3>1 DEF RecordLocal
  <2> QED
    BY <1>2, <2>1, RecordOwn, RecordShared DEF RecordInv
<1>3. ASSUME UNCHANGED <<imports, output, archive>>,
             UNCHANGED <<pc, job>> \/ \A v \in Workers : pc'[v] = "connect"
      PROVE  RecordInv'
  <2>1. RecordMatchesConversion' /\ DuplicateWasImported'
    BY <1>1, <1>3 DEF RecordInv, RecordMatchesConversion, DuplicateWasImported
  <2>2. \A v \in Workers : RecordLocal(v)'
    BY <1>1, <1>3 DEF RecordInv, RecordLocal, Moving
  <2> QED
    BY <2>1, <2>2 DEF RecordInv
<1>4. CASE User \/ Tick \/ Poll \/ UNCHANGED vars
  <2>1. UNCHANGED archive
    BY <1>4 DEF User, Drop, Replace, Remove, Arrive, Tick, Poll, StartScan, Visit, Enqueue,
                EndScan, Idle, vars, disk
  <2> QED
    BY <1>3, <1>4, <2>1, OthersLeaveWorkers
<1>5. CASE Crash
  BY <1>3, <1>5 DEF Crash, disk
<1> QED
  BY <1>2, <1>4, <1>5 DEF Next

LEMMA RecordInit == Init => RecordInv
<1>1. Init => \A p \in Paths : archive["duplicates"][p] \notin Contents
  BY ContentsAssumption DEF Init, Folders
<1> QED
  BY <1>1 DEF Init, RecordInv, RecordMatchesConversion, DuplicateWasImported, RecordLocal, Moving

-----------------------------------------------------------------------------
(* Names that are used once: a name stands for one content, in /watch,     *)
(* under /archive, in the fingerprint cache and in the hands of any number *)
(* of workers.                                                             *)

HasHeld(w) == pc[w] = "copy"

NamedFile(name, p) ==
  /\ watch[p] \in {name[p], NoFile}
  /\ \A d \in Folders : archive[d][p] \in {name[p], Torn, NoFile}
  /\ p \in DOMAIN fp_cache => fp_cache[p].hash = name[p] /\ name[p] \in Contents

NamedJob(name, w) ==
  /\ HasHash(w) => job[w].hash = name[job[w].path] /\ job[w].hash \in Contents
  /\ HasHeld(w) => job[w].held = name[job[w].path] /\ job[w].held \in Contents

Named(name) == /\ \A p \in Paths : NamedFile(name, p)
               /\ \A w \in Workers : NamedJob(name, w)

NameInv == \E name \in [Paths -> Hashes] : Named(name)

LEMMA HasPath ==
  ASSUME TypeInv, NEW w \in Workers, HasHash(w) \/ HasHeld(w) PROVE job[w].path \in Paths
  BY WorkerTypes DEF HasHash, HasHeld, Moving, Idlers

(* The file that move_file holds open is the one that bore the name.       *)
LEMMA HeldSource ==
  ASSUME TypeInv, NEW w \in Workers, Work(w), HasHeld(w)'
  PROVE  /\ job'[w].path = job[w].path /\ job[w].path \in Paths
         /\ job'[w].held = watch[job[w].path] /\ job'[w].held # NoFile
<1> USE WorkerTypes
<1>1. ASSUME NEW l, l # "copy", Goto(w, l) PROVE FALSE
  BY <1>1 DEF Goto, HasHeld
<1>2. Move(w)
  BY <1>1 DEF Work, Connect, Pop, TakeFingerprint, LookUp, Hash, Store, Dedup, Alloc, Convert,
       ConversionFailed, Clear, Insert, Copy, Unlink, Moved, MoveFailed, ReleaseForRetry,
       CountFailure, Alert, Release, Finish
<1>3. /\ job' = [job EXCEPT ![w].held = watch[job[w].path]] /\ watch[job[w].path] # NoFile
      /\ pc[w] = "move"
  BY <1>1, <1>2 DEF Move, Moved, MoveFailed
<1>4. job'[w].path = job[w].path /\ job'[w].held = watch[job[w].path]
  BY <1>3 DEF Job
<1> QED
  BY <1>3, <1>4 DEF Idlers

(* A worker's step keeps what the names stand for.                         *)
LEMMA NamedWork ==
  ASSUME TypeInv, NEW name \in [Paths -> Hashes], Named(name), NEW w \in Workers, Work(w)
  PROVE  Named(name)'
<1> USE WorkerTypes
<1>0. /\ \A p \in Paths : NamedFile(name, p)
      /\ NamedJob(name, w) /\ \A v \in Workers : NamedJob(name, v)
      /\ \A h \in Hashes : h # NoFile => h \in Contents
  BY DEF Named, Hashes
<1>1. ASSUME NEW q \in Paths, q # job[w].path PROVE NamedFile(name, q)'
  BY <1>0, <1>1, WorkTouches DEF NamedFile
<1>2. ASSUME NEW p \in Paths, p = job[w].path PROVE NamedFile(name, p)'
  <2>1. watch[p] \in {name[p], NoFile} /\ \A d \in Folders : archive[d][p] \in {name[p], Torn, NoFile}
    BY <1>0 DEF NamedFile
  <2>2. watch'[p] \in {name[p], NoFile}
    <3>1. UNCHANGED watch \/ watch' = [watch EXCEPT ![p] = NoFile]
      BY <1>2 DEF Work, Connect, Pop, TakeFingerprint, LookUp, Hash, Store, Dedup, Alloc, Convert,
           Clear, Insert, Move, Copy, Unlink, ReleaseForRetry, CountFailure, Alert, Release, disk,
           TakeAway, MoveFailed
    <3> QED
      BY <2>1, <3>1
  <2>3. \A d \in Folders : archive'[d][p] \in {name[p], Torn, NoFile}
    <3>1. ASSUME NEW c, Place(w, c), c \in {name[p], Torn, NoFile}
          PROVE  \A d \in Folders : archive'[d][p] \in {name[p], Torn, NoFile}
      <4>1. archive' = [archive EXCEPT ![job[w].to][p] = c]
        BY <1>2, <3>1 DEF Place
      <4>2. \A d \in Folders : archive'[d][p] \in {archive[d][p], c}
        BY <4>1, QueueTypes
      <4> QED
        BY <2>1, <3>1, <4>2
    <3>2. Move(w) => UNCHANGED archive \/ Place(w, Torn) \/ Place(w, watch[p])
      BY <1>2 DEF Move
    <3>3. Copy(w) => UNCHANGED archive \/ Place(w, watch[p]) \/ Place(w, job[w].held)
      BY <1>2 DEF Copy
    <3>4. Copy(w) => job[w].held = name[p]
      BY <1>0, <1>2 DEF Copy, NamedJob, HasHeld
    <3>5. ~Move(w) /\ ~Copy(w) => UNCHANGED archive
      BY DEF Work, Connect, Pop, TakeFingerprint, LookUp, Hash, Store, Dedup, Alloc, Convert,
             Clear, Insert, Unlink, ReleaseForRetry, CountFailure, Alert, Release, disk
    <3>6. UNCHANGED archive \/ \E c \in {name[p], Torn, NoFile} : Place(w, c)
      BY <2>1, <3>2, <3>3, <3>4, <3>5
    <3> QED
      BY <2>1, <3>1, <3>6
  <2>4. p \in DOMAIN fp_cache' => fp_cache'[p].hash = name[p] /\ name[p] \in Contents
    <3>1. CASE UNCHANGED fp_cache
      BY <1>0, <3>1 DEF NamedFile
    <3>2. CASE Store(w)
      <4>1. job[w].hash = name[p] /\ job[w].hash \in Contents
        BY <1>0, <1>2, <3>2 DEF Store, NamedJob, HasHash
      <4>2. PICK out : fp_cache' =
              [q \in (DOMAIN fp_cache \cup {p}) \ out |->
                IF q = p THEN [print |-> job[w].print, hash |-> job[w].hash] ELSE fp_cache[q]]
        BY <1>2, <3>2 DEF Store
      <4> QED
        BY <4>1, <4>2
    <3> QED
      BY <3>1, <3>2 DEF Work, Connect, Pop, TakeFingerprint, LookUp, Hash, Dedup, Alloc, Convert,
           Clear, Insert, Move, Copy, Unlink, ReleaseForRetry, CountFailure, Alert, Release, memory
  <2> QED
    BY <2>2, <2>3, <2>4 DEF NamedFile
<1>3. NamedJob(name, w)'
  <2>1. ASSUME HasHash(w)' PROVE job'[w].hash = name[job'[w].path] /\ job'[w].hash \in Contents
    <3>1. job'[w].path = job[w].path
      BY <2>1, HashSource
    <3>2. CASE HasHash(w) /\ job'[w].hash = job[w].hash
      BY <1>0, <3>1, <3>2 DEF NamedJob
    <3>3. CASE Hash(w) /\ job'[w].hash = watch[job[w].path] /\ job'[w].hash # NoFile
      <4>1. job[w].path \in Paths
        BY <3>3 DEF Hash, Idlers
      <4> QED
        BY <1>0, <3>1, <3>3, <4>1 DEF NamedFile
    <3>4. CASE LookUp(w) /\ job[w].path \in DOMAIN fp_cache
               /\ job'[w].hash = fp_cache[job[w].path].hash
      <4>1. job[w].path \in Paths
        BY <3>4 DEF LookUp, Idlers
      <4> QED
        BY <1>0, <3>1, <3>4, <4>1 DEF NamedFile
    <3> QED
      BY <2>1, <3>2, <3>3, <3>4, HashSource
  <2>2. ASSUME HasHeld(w)' PROVE job'[w].held = name[job'[w].path] /\ job'[w].held \in Contents
    BY <1>0, <2>2, HeldSource DEF NamedFile
  <2> QED
    BY <2>1, <2>2 DEF NamedJob
<1>4. ASSUME NEW v \in Workers, v # w PROVE NamedJob(name, v)'
  BY <1>0, <1>4, WorkAlone DEF NamedJob, HasHash, HasHeld
<1> QED
  BY <1>1, <1>2, <1>3, <1>4 DEF Named

(* A name that is dropped for the first time may stand for anything.       *)
LEMMA NamedDrop ==
  ASSUME TypeInv, NEW name \in [Paths -> Hashes], Named(name),
         NEW p \in Paths, NEW c \in Contents, Unused(p), Drop(p, c)
  PROVE  \E n \in [Paths -> Hashes] : Named(n)'
<1>1. PICK n \in [Paths -> Hashes] : n = [name EXCEPT ![p] = c]
  BY DEF Hashes
<1>2. n[p] = c /\ \A q \in Paths \ {p} : n[q] = name[q]
  BY <1>1
<1>3. /\ watch' = [watch EXCEPT ![p] = c] /\ UNCHANGED <<archive, fp_cache, pc, job>>
  BY DEF Drop, Arrive, memory, workVars
<1>4. watch'[p] = c /\ \A q \in Paths \ {p} : watch'[q] = watch[q]
  BY <1>3, QueueTypes
<1>5. ASSUME NEW q \in Paths PROVE NamedFile(n, q)'
  <2>1. CASE q = p
    BY <1>2, <1>3, <1>4, <2>1 DEF Unused, NamedFile
  <2>2. CASE q # p
    <3>1. NamedFile(name, q)
      BY DEF Named
    <3> QED
      BY <1>2, <1>3, <1>4, <2>2, <3>1 DEF NamedFile
  <2> QED
    BY <2>1, <2>2
<1>6. ASSUME NEW w \in Workers PROVE NamedJob(n, w)'
  <2>1. HasHash(w) \/ HasHeld(w) => job[w].path \in Paths \ {p}
    BY HasPath DEF Unused
  <2>2. NamedJob(name, w)
    BY DEF Named
  <2> QED
    BY <1>2, <1>3, <2>1, <2>2 DEF NamedJob, HasHash, HasHeld
<1>7. Named(n)'
  BY <1>5, <1>6 DEF Named
<1> QED
  BY <1>7

LEMMA NameNext ==
  ASSUME MaxDrops <= 1 PROVE TypeInv /\ UnusedInv /\ NameInv /\ [Next]_vars => NameInv'
<1> SUFFICES ASSUME TypeInv, UnusedInv, NameInv, [Next]_vars PROVE NameInv'
  OBVIOUS
<1>1. PICK name \in [Paths -> Hashes] : Named(name)
  BY DEF NameInv
<1>2. ASSUME Named(name)' PROVE NameInv'
  BY <1>2 DEF NameInv
<1>3. ASSUME NEW p \in Paths, NEW c \in Contents, Drop(p, c) \/ Replace(p, c) PROVE NameInv'
  BY <1>1, <1>3, FirstDrop, NamedDrop DEF NameInv
<1>4. ASSUME \A p \in Paths : watch'[p] \in {watch[p], NoFile}, UNCHANGED <<archive, fp_cache, pc, job>>
      PROVE  NameInv'
  <2>1. \A p \in Paths : NamedFile(name, p)'
    BY <1>1, <1>4 DEF Named, NamedFile
  <2>2. \A w \in Workers : NamedJob(name, w)'
    BY <1>1, <1>4 DEF Named, NamedJob, HasHash, HasHeld
  <2> QED
    BY <1>2, <2>1, <2>2 DEF Named
<1>5. ASSUME NEW p \in Paths, Remove(p) PROVE NameInv'
  <2>1. watch' = [watch EXCEPT ![p] = NoFile] /\ UNCHANGED <<archive, fp_cache, pc, job>>
    BY <1>5 DEF Remove, memory, workVars
  <2>2. \A q \in Paths : watch'[q] \in {watch[q], NoFile}
    BY <2>1, QueueTypes
  <2> QED
    BY <1>4, <2>1, <2>2
<1>6. CASE Tick \/ Poll \/ UNCHANGED vars
  BY <1>4, <1>6 DEF Tick, Poll, StartScan, Visit, Enqueue, EndScan, Idle, vars, disk, memory,
                    workVars
<1>7. CASE Crash
  <2>1. UNCHANGED <<watch, archive>> /\ DOMAIN fp_cache' = {} /\ \A w \in Workers : pc'[w] = "connect"
    BY <1>7 DEF Crash, disk
  <2>2. \A p \in Paths : NamedFile(name, p)'
    BY <1>1, <2>1 DEF Named, NamedFile
  <2>3. \A w \in Workers : NamedJob(name, w)'
    BY <2>1 DEF NamedJob, HasHash, HasHeld, Moving
  <2> QED
    BY <1>2, <2>2, <2>3 DEF Named
<1> QED
  BY <1>1, <1>2, <1>3, <1>5, <1>6, <1>7, NamedWork DEF Next, User

LEMMA NameInit == Init => NameInv
<1> SUFFICES ASSUME Init PROVE NameInv
  OBVIOUS
<1>1. [p \in Paths |-> NoFile] \in [Paths -> Hashes]
  BY DEF Hashes
<1>2. Named([p \in Paths |-> NoFile])
  BY DEF Init, Named, NamedFile, NamedJob, HasHash, HasHeld, Moving
<1> QED
  BY <1>1, <1>2 DEF NameInv

LEMMA NamesAgree == TypeInv /\ NameInv => AllAgree
<1> SUFFICES ASSUME TypeInv, NEW name \in [Paths -> Hashes], Named(name),
                    NEW w \in Workers, HasHash(w)
             PROVE  job[w].hash \in Contents /\ watch[job[w].path] \in {job[w].hash, NoFile}
  BY DEF NameInv, AllAgree, Agrees
<1>1. NamedFile(name, job[w].path) /\ NamedJob(name, w)
  BY HasPath DEF Named
<1> QED
  BY <1>1 DEF NamedFile, NamedJob

LEMMA NamesAlways ==
  ASSUME MaxDrops <= 1
  PROVE  Spec => [](RecordMatchesConversion /\ DuplicateWasImported)
<1>1. RecordInv => RecordMatchesConversion /\ DuplicateWasImported
  BY DEF RecordInv
<1> QED
  BY <1>1, NameInit, NameNext, NamesAgree, RecordInit, RecordNext, UnusedAlways, PTL DEF Spec

(* Unique names, any number of workers, also two that own one file, any    *)
(* fingerprint, with or without the cache, also while the user takes files *)
(* back: the row has the hash of the photo that was converted              *)
(* (worker.cpp:254-286 and 351-357).                                       *)
THEOREM UniqueNamesAreRecorded ==
  ASSUME MaxDrops <= 1 PROVE Spec => []RecordMatchesConversion
  BY NamesAlways, PTL

(* ... and only photos that were imported are set aside as duplicates      *)
(* (worker.cpp:296-315).                                                   *)
THEOREM UniqueNamesSetDuplicatesAside ==
  ASSUME MaxDrops <= 1 PROVE Spec => []DuplicateWasImported
  BY NamesAlways, PTL

-----------------------------------------------------------------------------
(* No original is lost between two devices when one worker moves it: a     *)
(* target is truncated only while the source is there or open, and the     *)
(* source goes only after its copy is complete.                            *)

KeptAt(c, p) ==
  \/ watch[p] = c
  \/ watch[p] = NoFile /\ drops[p] # 0 /\ \E d \in Folders : archive[d][p] = c

DeviceInv ==
  /\ \A c \in entrusted : \E p \in Paths : KeptAt(c, p)
  /\ \A w \in Workers :
       pc[w] = "unlink" => watch[job[w].path] \in {archive[job[w].to][job[w].path], NoFile}

LEMMA DeviceTypes ==
  ASSUME TypeInv
  PROVE  /\ entrusted \subseteq Contents /\ NoFile \notin Contents /\ Torn \notin Contents
         /\ \A w \in Workers : pc[w] \in {"move", "copy", "unlink"} =>
              job[w].path \in Paths /\ job[w].to \in Folders
<1>1. entrusted \subseteq Contents
  BY DEF TypeInv, TypeOK, HistoryOK
<1> QED
  BY <1>1, ContentsAssumption, TypeJob DEF LocalsOK, Idlers

(* What a worker's step must do for the file in its hands; the other files *)
(* it leaves where they are.                                               *)
LEMMA DeviceFrame ==
  ASSUME TypeInv, DeviceInv, NEW w \in Workers, Work(w), \A v \in Workers : v = w,
         NEW p, p = job[w].path, \A c \in Contents : KeptAt(c, p) => KeptAt(c, p)',
         pc'[w] = "unlink" =>
           watch'[job'[w].path] \in {archive'[job'[w].to][job'[w].path], NoFile}
  PROVE  DeviceInv'
<1>1. /\ UNCHANGED <<drops, entrusted>> /\ entrusted \subseteq Contents
      /\ \A q \in Paths \ {p} :
           watch'[q] = watch[q] /\ \A d \in Folders : archive'[d][q] = archive[d][q]
  BY WorkTouches, DeviceTypes
<1>2. \A c \in Contents, q \in Paths \ {p} : KeptAt(c, q) => KeptAt(c, q)'
  BY <1>1 DEF KeptAt
<1>3. \A c \in entrusted' : \E q \in Paths : KeptAt(c, q)'
  BY <1>1, <1>2 DEF DeviceInv
<1> QED
  BY <1>3 DEF DeviceInv

(* move_file (util.cpp:175-251).                                           *)
LEMMA DeviceMove ==
  ASSUME TypeInv, UnusedInv, NameInv, DeviceInv, NEW w \in Workers, \A v \in Workers : v = w,
         Move(w) \/ Copy(w) \/ Unlink(w)
  PROVE  DeviceInv'
<1>1. PICK p \in Paths : p = job[w].path
  BY DeviceTypes DEF Move, Copy, Unlink
<1>2. PICK d \in Folders : d = job[w].to
  BY DeviceTypes DEF Move, Copy, Unlink
<1>3. PICK name \in [Paths -> Hashes] : Named(name)
  BY DEF NameInv
<1>4. /\ watch[p] \in {name[p], NoFile} /\ \A e \in Folders : archive[e][p] \in {name[p], Torn, NoFile}
      /\ pc[w] = "copy" => job[w].held = name[p] /\ name[p] \in Contents
  BY <1>1, <1>3 DEF Named, NamedFile, NamedJob, HasHeld
<1>5. drops[p] # 0 /\ drops' = drops
  BY <1>1, WorkTouches DEF UnusedInv, Unused, Work
<1>6. ASSUME NEW c, Place(w, c)
      PROVE  archive'[d][p] = c /\ \A e \in Folders : archive'[e][p] \in {archive[e][p], c}
  BY <1>1, <1>2, <1>6, QueueTypes DEF Place
<1>7. ASSUME TakeAway(p) PROVE watch'[p] = NoFile
  BY <1>7, QueueTypes DEF TakeAway
<1>8. ASSUME \A c \in Contents : KeptAt(c, p) => KeptAt(c, p)',
             pc'[w] = "unlink" =>
               watch'[job'[w].path] \in {archive'[job'[w].to][job'[w].path], NoFile}
      PROVE  DeviceInv'
  BY <1>1, <1>8, DeviceFrame DEF Work
<1>9. CASE watch[p] # NoFile /\ Place(w, watch[p]) /\ TakeAway(p) /\ pc'[w] # "unlink"
  BY <1>5, <1>6, <1>7, <1>8, <1>9 DEF KeptAt
<1>10. CASE watch[p] # NoFile /\ UNCHANGED watch /\ pc'[w] # "unlink"
  BY <1>8, <1>10, DeviceTypes DEF KeptAt
<1>11. CASE UNCHANGED <<watch, archive>> /\ pc'[w] # "unlink"
  BY <1>5, <1>8, <1>11 DEF KeptAt
<1>12. ASSUME NEW c \in {job[w].held, watch[p]}, c # NoFile, pc[w] = "copy",
              Place(w, c), UNCHANGED <<watch, job>>
       PROVE  DeviceInv'
  <2>1. c = name[p]
    BY <1>4, <1>12
  <2>2. archive'[d][p] = name[p]
    BY <1>6, <1>12, <2>1
  <2>3. \A e \in Contents : KeptAt(e, p) => KeptAt(e, p)'
    BY <1>4, <1>5, <1>12, <2>2, DeviceTypes DEF KeptAt
  <2>4. watch'[job'[w].path] \in {archive'[job'[w].to][job'[w].path], NoFile}
    BY <1>1, <1>2, <1>4, <1>12, <2>2
  <2> QED
    BY <1>8, <2>3, <2>4
<1>13. CASE TakeAway(p) /\ UNCHANGED archive /\ pc[w] = "unlink" /\ pc'[w] # "unlink"
  <2>1. watch[p] \in {archive[d][p], NoFile}
    BY <1>1, <1>2, <1>13 DEF DeviceInv
  <2>2. \A c \in Contents : KeptAt(c, p) => KeptAt(c, p)'
    BY <1>5, <1>7, <1>13, <2>1 DEF KeptAt
  <2> QED
    BY <1>8, <1>13, <2>2
<1>14. \A l : Goto(w, l) => pc'[w] = l
  BY FailureTypes DEF Goto
<1>15. ASSUME Moved(w) \/ MoveFailed(w) PROVE pc'[w] # "unlink"
  BY <1>14, <1>15 DEF Moved, MoveFailed
<1>16. CASE Move(w)
  BY <1>1, <1>9, <1>10, <1>11, <1>14, <1>15, <1>16 DEF Move, MoveFailed
<1>17. CASE Copy(w)
  BY <1>1, <1>4, <1>11, <1>12, <1>15, <1>17, DeviceTypes DEF Copy, MoveFailed
<1>18. CASE Unlink(w)
  BY <1>1, <1>11, <1>13, <1>15, <1>18 DEF Unlink, MoveFailed
<1> QED
  BY <1>16, <1>17, <1>18

LEMMA DeviceNext ==
  ASSUME \A v, w \in Workers : v = w, MaxDrops <= 1
  PROVE  TypeInv /\ UnusedInv /\ NameInv /\ DeviceInv /\ [Next]_vars => DeviceInv'
<1> SUFFICES ASSUME TypeInv, UnusedInv, NameInv, DeviceInv, [Next]_vars PROVE DeviceInv'
  OBVIOUS
<1>1. ASSUME NEW w \in Workers, Work(w), ~Move(w), ~Copy(w), ~Unlink(w) PROVE DeviceInv'
  <2>1. UNCHANGED <<watch, archive, drops>>
    BY <1>1 DEF Work, Connect, Pop, TakeFingerprint, LookUp, Hash, Store, Dedup, Alloc,
         Convert, Clear, Insert, ReleaseForRetry, CountFailure, Alert, Release,
         disk, history, ledger
  <2>2. pc'[w] # "unlink"
    BY <1>1, FailureTypes DEF Work, Connect, Pop, TakeFingerprint, LookUp, Hash, Store, Dedup,
         Alloc, Convert, ConversionFailed, Clear, Insert, ReleaseForRetry, CountFailure, Alert,
         Release, Finish, Goto
  <2>3. PICK p : p = job[w].path
    OBVIOUS
  <2>4. \A c \in Contents : KeptAt(c, p) => KeptAt(c, p)'
    BY <2>1 DEF KeptAt
  <2> QED
    BY <1>1, <2>2, <2>3, <2>4, DeviceFrame
<1>2. ASSUME NEW p \in Paths, NEW c \in Contents, Drop(p, c) PROVE DeviceInv'
  <2>1. /\ watch' = [watch EXCEPT ![p] = c] /\ drops' = [drops EXCEPT ![p] = @ + 1]
        /\ entrusted' = entrusted \cup {c} /\ UNCHANGED <<archive, pc, job>>
    BY <1>2 DEF Drop, Arrive, workVars
  <2>2. /\ watch'[p] = c
        /\ \A q \in Paths \ {p} : watch'[q] = watch[q] /\ drops'[q] = drops[q]
    BY <2>1, QueueTypes
  <2>3. drops[p] = 0 /\ Unused(p)
    BY <1>2, FirstDrop
  <2>4. \A e \in entrusted, q \in Paths : KeptAt(e, q) => q # p /\ KeptAt(e, q)'
    BY <2>1, <2>2, <2>3, DeviceTypes DEF KeptAt, Unused
  <2>5. \A e \in entrusted' : \E q \in Paths : KeptAt(e, q)'
    BY <2>1, <2>2, <2>4 DEF DeviceInv, KeptAt
  <2>6. \A w \in Workers : pc[w] = "unlink" => job[w].path \in Paths \ {p}
    BY <2>3, DeviceTypes DEF Unused
  <2> QED
    BY <2>1, <2>2, <2>5, <2>6 DEF DeviceInv
<1>3. ASSUME NEW p \in Paths, Remove(p) PROVE DeviceInv'
  <2>1. /\ watch' = [watch EXCEPT ![p] = NoFile] /\ entrusted' = entrusted \ {watch[p]}
        /\ UNCHANGED <<archive, drops, pc, job>> /\ watch[p] # NoFile
    BY <1>3 DEF Remove, workVars
  <2>2. watch'[p] = NoFile /\ \A q \in Paths \ {p} : watch'[q] = watch[q]
    BY <2>1, QueueTypes
  <2>3. \A e \in entrusted', q \in Paths : KeptAt(e, q) => KeptAt(e, q)'
    BY <2>1, <2>2 DEF KeptAt
  <2>4. \A e \in entrusted' : \E q \in Paths : KeptAt(e, q)'
    BY <2>1, <2>3 DEF DeviceInv
  <2>5. \A w \in Workers : pc[w] = "unlink" => job[w].path \in Paths
    BY DeviceTypes
  <2> QED
    BY <2>1, <2>2, <2>4, <2>5 DEF DeviceInv
<1>4. ASSUME UNCHANGED <<watch, archive, drops, entrusted>>,
             UNCHANGED <<pc, job>> \/ \A w \in Workers : pc'[w] = "connect"
      PROVE  DeviceInv'
  <2>1. \A e \in entrusted' : \E q \in Paths : KeptAt(e, q)'
    BY <1>4 DEF DeviceInv, KeptAt
  <2> QED
    BY <1>4, <2>1 DEF DeviceInv
<1>5. CASE Tick \/ Poll \/ UNCHANGED vars
  <2>1. UNCHANGED <<watch, archive, drops, entrusted>>
    BY <1>5 DEF Tick, Poll, StartScan, Visit, Enqueue, EndScan, Idle, vars, disk, history, ledger
  <2> QED
    BY <1>4, <1>5, <2>1, OthersLeaveWorkers
<1>6. CASE Crash
  BY <1>4, <1>6 DEF Crash, disk, ledger
<1>7. ASSUME NEW p \in Paths, NEW c \in Contents, Replace(p, c) PROVE DeviceInv'
  BY <1>2, <1>7, FirstDrop
<1> QED
  BY <1>1, <1>2, <1>3, <1>5, <1>6, <1>7, DeviceMove DEF Next, User

(* With one worker and unique names no photo is lost between /watch and    *)
(* /archive on another device, whatever fails, wherever the process        *)
(* crashes and also if the user takes other files back                     *)
(* (worker.cpp:304-312 and 401-403, util.cpp:175-251).  With two workers   *)
(* it is false.                                                            *)
THEOREM OneWorkerLosesNothing ==
  ASSUME \A v, w \in Workers : v = w, MaxDrops <= 1
  PROVE  Spec => []NoOriginalLost
<1>1. Init => DeviceInv
  BY DEF Init, DeviceInv
<1>2. TypeInv /\ UnusedInv /\ NameInv /\ DeviceInv /\ [Next]_vars => DeviceInv'
  BY DeviceNext
<1>3. DeviceInv => NoOriginalLost
  BY DEF DeviceInv, KeptAt, NoOriginalLost, Kept
<1> QED
  BY <1>1, <1>2, <1>3, NameInit, NameNext, UnusedAlways, PTL DEF Spec

=============================================================================
