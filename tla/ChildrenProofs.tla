--------------------------- MODULE ChildrenProofs ---------------------------
(* What holds of Children for every value of its constants.                *)
EXTENDS Children, SequenceTheorems, TLAPS

-----------------------------------------------------------------------------
(* The inductive invariant.  What keeps the dates apart is that the pipes  *)
(* are empty whenever nobody holds the mutex of a living exiftool, so that *)
(* all a holder can read answers what it has asked itself.                 *)

(* Workers live only while the main thread waits for them or for a signal. *)
Births ==
  /\ pc[Main] \in {"start", "send", "read", "giveup", "bury", "begin"} =>
       \A w \in Workers : pc[w] = "unborn"
  /\ pc[Main] \in {"quit", "reap", "done"} => \A w \in Workers : pc[w] = "exited"

AtWork == \A w \in Workers : pc[w] \notin {"unborn", "idle", "exited"} => file[w] \in Files

Stopping == pc[Main] \in {"giveup", "bury", "quit", "reap", "done"}

Idle ==
  /\ pc[Main] = "start" => exiftool = "none" /\ input = << >> /\ output = << >>
  /\ holder = Nothing /\ exiftool = "alive" /\ ~Stopping => input = << >> /\ output = << >>
  /\ \A t \in Threads : holder # t => reply[t] = << >>

(* Only about the file the answer is for, and nothing behind the sentinel. *)
Answers(lines, request) ==
  \A n \in 1..Len(lines) : /\ lines[n] \in Files => lines[n] = request
                           /\ lines[n] = Ready => n = Len(lines)

OneAnswer ==
  \A t \in Threads : holder = t =>
    /\ input = << >> \/ input = <<Request(t)>>
    /\ input # << >> /\ exiftool = "alive" => output = << >>
    /\ Answers(output, Request(t)) /\ Answers(reply[t], Request(t))

Reaped ==
  /\ NoChildLeft /\ (~present => exiftool = "none")
  /\ pc[Main] = "start" => present

Whole == \A w \in Workers : tool[w] = "exit 0" => file[w] \in Files /\ dng[file[w]] = "whole"

(* Without a fault the daemon comes up and stays, and what it knows of a   *)
(* photo is on its way or has been read.                                   *)
Holds(lines, line) == \E n \in 1..Len(lines) : lines[n] = line

Healthy ==
  Enabled /\ faults = 0 =>
    /\ pc[Main] \notin {"giveup", "bury"}
    /\ pc[Main] \in {"send", "read", "begin", "run", "join"} =>
         exiftool = "alive" /\ running /\ present
    /\ holder = Main /\ input = << >> /\ output # << >> /\ output[1] = Ready =>
         reply[Main] # << >>
    /\ \A w \in Workers : holder = w /\ file[w] \in Dated /\ input = << >> =>
         (output # << >> /\ output[1] = file[w]) \/ Holds(reply[w], file[w])

IInv == TypeOK /\ Births /\ AtWork /\ Idle /\ OneAnswer /\ OwnDate
        /\ Reaped /\ ConvertedIsWhole /\ Whole /\ Healthy /\ NoNeedlessFallback

LEMMA InvInit == Init => IInv
<1> SUFFICES ASSUME Init PROVE IInv
  OBVIOUS
<1> USE ChildrenAssumption
<1>1. FlagsOK
  BY Zenon DEF Init, FlagsOK
<1>2. PipesOK /\ WorkOK
  BY DEF Init, PipesOK, WorkOK
<1>3. ThreadsOK
  BY DEF Init, ThreadsOK, Threads, MainLabels, WorkerLabels, Main, Nothing
<1>4. Births /\ AtWork /\ Idle /\ OneAnswer
  BY DEF Init, Births, AtWork, Idle, OneAnswer, Threads, Main, Nothing, Stopping
<1>5. OwnDate /\ Reaped /\ ConvertedIsWhole /\ Whole
  BY DEF Init, OwnDate, Reaped, NoChildLeft, ConvertedIsWhole, Whole, Threads, Main, Nothing
<1>6. Healthy /\ NoNeedlessFallback
  BY DEF Init, Healthy, NoNeedlessFallback, Threads, Main, Nothing, Mtime
<1> QED
  BY <1>1, <1>2, <1>3, <1>4, <1>5, <1>6 DEF IInv, TypeOK

(* A file is none of the marks.                                            *)
LEMMA NotAMark ==
  \A f \in Files : f \notin {Mtime, Nothing, Ver, Quit, Ready, Other}
BY ChildrenAssumption

(* What exiftool says is about the file it was asked for, and complete.    *)
LEMMA LinesFacts ==
  ASSUME NEW r \in Files \cup {Ver}
  PROVE  /\ Lines(r) \in Seq(Files \cup {Other, Ready}) /\ Answers(Lines(r), r)
         /\ Len(Lines(r)) \in 2..3 /\ Lines(r)[1] # Ready
         /\ r \in Dated => Lines(r)[1] = r
<1>1. Other # Ready /\ Other \notin Files /\ Ready \notin Files /\ Ver \notin Files
  BY NotAMark DEF Other, Ready
<1>2. CASE r \in Dated
  <2>1. r # Ver /\ r # Ready /\ r \in Files
    BY <1>2, NotAMark, ChildrenAssumption
  <2>2. Lines(r) = <<r, Other, Ready>>
    BY <1>2, <2>1 DEF Lines
  <2>3. Answers(<<r, Other, Ready>>, r)
    BY <1>1, <2>1 DEF Answers
  <2> QED
    BY <1>1, <2>1, <2>2, <2>3
<1>3. CASE r \notin Dated
  <2>1. Lines(r) = <<Other, Ready>>
    BY <1>3 DEF Lines
  <2>2. Answers(<<Other, Ready>>, r)
    BY <1>1 DEF Answers
  <2> QED
    BY <1>1, <1>3, <2>1, <2>2
<1> QED
  BY <1>2, <1>3

(* exiftool answers the holder of the mutex, or is told to quit.           *)
LEMMA InvAnswer ==
  ASSUME IInv, Answer PROVE IInv'
<1> USE ChildrenAssumption DEF Answer, daemon, work, tools, results, IInv, TypeOK
<1>1. FlagsOK'
  BY Zenon DEF FlagsOK
<1>2. ThreadsOK' /\ WorkOK' /\ Births' /\ AtWork'
  BY DEF ThreadsOK, WorkOK, Births, AtWork
<1>3. OwnDate' /\ ConvertedIsWhole' /\ Whole' /\ NoNeedlessFallback' /\ Reaped'
  BY DEF OwnDate, ConvertedIsWhole, Whole, NoNeedlessFallback, Reaped, NoChildLeft
<1>4. CASE Stopping
  <2>1. holder = Nothing /\ Stopping' /\ pc[Main] # "start" /\ holder \notin Threads
    BY <1>4 DEF Stopping, ThreadsOK, Births, Threads, MainLabels, Main, Nothing
  <2>2. Head(input) \in Files \cup {Ver, Quit} /\ Tail(input) \in Seq(Files \cup {Ver, Quit})
    BY DEF PipesOK
  <2>3. Head(input) # Quit => output \o Lines(Head(input)) \in Seq(Files \cup {Other, Ready})
    BY <2>2, LinesFacts DEF PipesOK
  <2>4. PipesOK'
    BY <2>2, <2>3 DEF PipesOK
  <2>5. Idle' /\ OneAnswer'
    BY <2>1 DEF Idle, OneAnswer
  <2>6. Healthy'
    BY <2>1 DEF Healthy, Stopping, Threads
  <2> QED
    BY <1>1, <1>2, <1>3, <2>4, <2>5, <2>6
<1>5. CASE ~Stopping
  <2>1. PICK t \in Threads : holder = t /\ input = <<Request(t)>> /\ output = << >>
    BY <1>5 DEF Idle, OneAnswer, ThreadsOK
  <2>2. Request(t) \in Files \cup {Ver} /\ Request(t) # Quit
    BY <2>1, NotAMark DEF Request, AtWork, ThreadsOK, Threads, Ver, Quit
  <2>3. Lines(Request(t)) \in Seq(Files \cup {Other, Ready})
        /\ Answers(Lines(Request(t)), Request(t)) /\ Len(Lines(Request(t))) \in 2..3
        /\ Lines(Request(t))[1] # Ready
        /\ (Request(t) \in Dated => Lines(Request(t))[1] = Request(t))
    BY <2>2, LinesFacts
  <2>4. input' = << >> /\ output' = Lines(Request(t)) /\ exiftool' = exiftool
    BY <2>1, <2>2, <2>3 DEF PipesOK
  <2>5. PipesOK'
    BY <2>3, <2>4 DEF PipesOK
  <2>6. Request(t)' = Request(t)
    BY DEF Request
  <2>7. Idle'
    BY <2>1, <2>4 DEF Idle, Threads, Main, Nothing
  <2>9. OneAnswer'
    <3>1. Answers(reply[t], Request(t)) /\ (\A u \in Threads : holder = u => u = t)
      BY <2>1 DEF OneAnswer
    <3> QED
      BY <2>3, <2>4, <2>6, <3>1 DEF OneAnswer
  <2>8. Healthy'
    BY <2>1, <2>3, <2>4 DEF Healthy, Request, Main
  <2> QED
    BY <1>1, <1>2, <1>3, <2>5, <2>7, <2>8, <2>9
<1> QED
  BY <1>4, <1>5

(* A fault is counted, up to the bound.                                    *)
LEMMA FailsFacts ==
  ASSUME IInv, NEW f, Fails(f) PROVE faults' \in 0..MaxFaults /\ faults' # 0
<1>1. faults \in 0..MaxFaults /\ MaxFaults \in Nat
  BY ChildrenAssumption DEF IInv, TypeOK, WorkOK
<1>2. faults < MaxFaults /\ faults' = faults + 1
  BY DEF Fails
<1> QED
  BY <1>1, <1>2

(* A worker that lives and what belongs to it.                             *)
LEMMA WorkerFacts ==
  ASSUME IInv, NEW w \in Workers, pc[w] \notin {"unborn", "exited"}
  PROVE  /\ w \in Threads /\ Main \in Threads /\ w # Main
         /\ pc[Main] \in {"run", "join"}
         /\ holder = w <=> pc[w] = "read"
         /\ pc[w] # "idle" => file[w] \in Files
         /\ pc[w] \notin {"poll", "kill"} => tool[w] = "none"
BY ChildrenAssumption DEF IInv, TypeOK, ThreadsOK, Threads, MainLabels, Births, AtWork,
   Reaped, NoChildLeft

(* A worker that lives goes on, and neither takes nor leaves the mutex.     *)
LEMMA Moves ==
  ASSUME IInv, NEW w \in Workers, pc[w] \notin {"unborn", "exited", "read"},
         NEW l \in WorkerLabels \ {"unborn", "read"}, pc' = [pc EXCEPT ![w] = l],
         UNCHANGED <<exiftool, input, output, running, holder, reply, present>>,
         file' \in [Workers -> Files \cup {Nothing}],
         \A v \in Workers \ {w} : file'[v] = file[v],
         l \notin {"idle", "exited"} => file'[w] \in Files
  PROVE  /\ PipesOK' /\ ThreadsOK' /\ Births' /\ AtWork' /\ Idle' /\ OneAnswer'
         /\ pc'[Main] = pc[Main] /\ pc'[w] = l
         /\ \A v \in Workers \ {w} : pc'[v] = pc[v]
<1> USE ChildrenAssumption DEF IInv, TypeOK
<1>0. /\ w \in Threads /\ Main \in Threads /\ w # Main /\ pc[Main] \in {"run", "join"}
      /\ holder # w
  BY WorkerFacts
<1>1. /\ pc' \in [Threads -> MainLabels \cup WorkerLabels]
      /\ pc'[Main] = pc[Main] /\ pc'[w] = l
      /\ \A v \in Workers \ {w} : pc'[v] = pc[v]
  BY <1>0 DEF ThreadsOK, Threads
<1>2. PipesOK'
  BY DEF PipesOK
<1>3. ThreadsOK'
  BY <1>0, <1>1 DEF ThreadsOK, Threads
<1>4. Births' /\ AtWork'
  BY <1>0, <1>1 DEF Births, AtWork
<1>5. Idle'
  BY <1>0, <1>1 DEF Idle, Stopping
<1>6. OneAnswer'
  <2>1. \A t \in Threads : holder = t => Request(t)' = Request(t)
    BY <1>0 DEF Request, Threads
  <2> QED
    BY <2>1 DEF OneAnswer
<1> QED
  BY <1>1, <1>2, <1>3, <1>4, <1>5, <1>6

(* What belongs to the workers keeps its meaning: that of one of them      *)
(* changes, that of the others does not.                                   *)
LEMMA Frame ==
  ASSUME IInv, NEW w \in Workers,
         pc'[Main] = pc[Main], UNCHANGED <<exiftool, present>>,
         \A v \in Workers \ {w} : pc'[v] = pc[v] /\ tool'[v] = tool[v] /\ file'[v] = file[v],
         pc'[w] \in {"poll", "kill"} \/ tool'[w] = "none",
         tool'[w] = "exit 0" => file'[w] \in Files /\ dng'[file'[w]] = "whole",
         \A f \in Files : dng[f] = "whole" => dng'[f] = "whole",
         \A f \in Files : result'[f] = "converted" => result[f] = "converted" \/ dng[f] = "whole"
  PROVE  Reaped' /\ Whole' /\ ConvertedIsWhole'
<1> USE DEF IInv
<1>1. Reaped' /\ Whole'
  BY DEF Reaped, NoChildLeft, Whole
<1>2. ConvertedIsWhole'
  BY DEF ConvertedIsWhole
<1> QED
  BY <1>1, <1>2

LEMMA KeepsDates ==
  ASSUME IInv, date' = date, faults' = 0 => faults = 0 PROVE OwnDate' /\ NoNeedlessFallback'
BY DEF IInv, OwnDate, NoNeedlessFallback

(* So does the daemon, which a step of a worker that is not reading leaves *)
(* alone.                                                                  *)
LEMMA StaysHealthy ==
  ASSUME IInv, NEW w \in Workers, holder # w,
         pc'[Main] = pc[Main], faults' = 0 => faults = 0,
         UNCHANGED <<exiftool, input, output, running, holder, reply, present>>,
         \A v \in Workers \ {w} : file'[v] = file[v]
  PROVE  Healthy'
BY DEF IInv, Healthy, Holds

(* The pipes are closed, when no worker lives.                             *)
LEMMA InvStopDaemon ==
  ASSUME IInv, NEW label \in {"quit", "giveup"}, StopDaemon(label) PROVE IInv'
<1> USE ChildrenAssumption DEF StopDaemon, WaitNext, pipes, daemon, work, tools,
     results, NoFault, Goto, IInv, TypeOK, Fails
<1>1. FlagsOK'
  BY Zenon DEF FlagsOK
<1>2. PipesOK'
  BY DEF PipesOK
<1>3. WorkOK'
  BY DEF WorkOK
<1>4. ThreadsOK'
  BY DEF ThreadsOK, Threads, MainLabels, WorkerLabels, Main, Nothing, Births
<1>5. Births' /\ AtWork'
  BY DEF Births, ThreadsOK, Threads, MainLabels, WorkerLabels, AtWork, WorkOK
<1>6. Idle'
  BY DEF Idle, Stopping, ThreadsOK, Births, Threads, MainLabels, WorkerLabels,
     Main, Nothing
<1>7. OneAnswer'
  BY DEF OneAnswer, Request, ThreadsOK, WorkOK, Births, Threads, MainLabels
<1>8. Reaped' /\ OwnDate'
  BY DEF Reaped, NoChildLeft, ThreadsOK, WorkOK, Births, Threads, Main, OwnDate
<1>9. ConvertedIsWhole' /\ Whole'
  BY DEF ConvertedIsWhole, WorkOK, Whole, ThreadsOK, AtWork, Threads
<1>10. Healthy' /\ NoNeedlessFallback'
  BY DEF Healthy, Births, ThreadsOK, WorkOK, Threads, Main, NoNeedlessFallback
<1> QED
  BY <1>1, <1>2, <1>3, <1>4, <1>5, <1>6, <1>7, <1>8, <1>9, <1>10

(* The child has ended and is waited for.                                  *)
LEMMA InvReap ==
  ASSUME IInv, NEW label \in {"reap", "bury"}, Reap(label) PROVE IInv'
<1> USE ChildrenAssumption DEF Reap, pipes, daemon, work, tools, results,
     NoFault, Goto, IInv, TypeOK, Fails
<1>1. FlagsOK'
  BY Zenon DEF FlagsOK
<1>2. PipesOK'
  BY DEF PipesOK
<1>3. WorkOK'
  BY DEF WorkOK
<1>4. ThreadsOK'
  BY DEF ThreadsOK, Threads, MainLabels, WorkerLabels, Main, Nothing, Births
<1>5. Births' /\ AtWork'
  BY DEF Births, ThreadsOK, Threads, MainLabels, WorkerLabels, AtWork, WorkOK
<1>6. Idle'
  BY DEF Idle, Stopping, ThreadsOK, Births, Threads, MainLabels, WorkerLabels,
     Main, Nothing
<1>7. OneAnswer'
  BY DEF OneAnswer, Request, ThreadsOK, WorkOK, Births, Threads, MainLabels
<1>8. Reaped' /\ OwnDate'
  BY DEF Reaped, NoChildLeft, ThreadsOK, WorkOK, Births, Threads, Main, OwnDate
<1>9. ConvertedIsWhole' /\ Whole'
  BY DEF ConvertedIsWhole, WorkOK, Whole, ThreadsOK, AtWork, Threads
<1>10. Healthy' /\ NoNeedlessFallback'
  BY DEF Healthy, Births, ThreadsOK, WorkOK, Threads, Main, NoNeedlessFallback
<1> QED
  BY <1>1, <1>2, <1>3, <1>4, <1>5, <1>6, <1>7, <1>8, <1>9, <1>10

(* The workers are born.                                                   *)
LEMMA InvBegin ==
  ASSUME IInv, Begin PROVE IInv'
<1> USE ChildrenAssumption DEF Begin, pipes, daemon, work, tools, results,
     NoFault, Goto, IInv, TypeOK, Fails
<1>1. FlagsOK'
  BY Zenon DEF FlagsOK
<1>2. PipesOK'
  BY DEF PipesOK
<1>3. WorkOK'
  BY DEF WorkOK
<1>4. ThreadsOK'
  BY DEF ThreadsOK, Threads, MainLabels, WorkerLabels, Main, Nothing, Births
<1>5. Births' /\ AtWork'
  BY DEF Births, ThreadsOK, Threads, MainLabels, WorkerLabels, AtWork, WorkOK
<1>6. Idle'
  BY DEF Idle, Stopping, ThreadsOK, Births, Threads, MainLabels, WorkerLabels,
     Main, Nothing
<1>7. OneAnswer'
  BY DEF OneAnswer, Request, ThreadsOK, WorkOK, Births, Threads, MainLabels
<1>8. Reaped' /\ OwnDate'
  BY DEF Reaped, NoChildLeft, ThreadsOK, WorkOK, Births, Threads, Main, OwnDate
<1>9. ConvertedIsWhole' /\ Whole'
  BY DEF ConvertedIsWhole, WorkOK, Whole, ThreadsOK, AtWork, Threads
<1>10. Healthy' /\ NoNeedlessFallback'
  BY DEF Healthy, Births, ThreadsOK, WorkOK, Threads, Main, NoNeedlessFallback
<1> QED
  BY <1>1, <1>2, <1>3, <1>4, <1>5, <1>6, <1>7, <1>8, <1>9, <1>10

(* The process is told to stop.                                            *)
LEMMA InvSignal ==
  ASSUME IInv, Signal PROVE IInv'
<1> USE ChildrenAssumption DEF Signal, pipes, daemon, work, tools, results,
     NoFault, Goto, IInv, TypeOK, Fails
<1>1. FlagsOK'
  BY Zenon DEF FlagsOK
<1>2. PipesOK'
  BY DEF PipesOK
<1>3. WorkOK'
  BY DEF WorkOK
<1>4. ThreadsOK'
  BY DEF ThreadsOK, Threads, MainLabels, WorkerLabels, Main, Nothing, Births
<1>5. Births' /\ AtWork'
  BY DEF Births, ThreadsOK, Threads, MainLabels, WorkerLabels, AtWork, WorkOK
<1>6. Idle'
  BY DEF Idle, Stopping, ThreadsOK, Births, Threads, MainLabels, WorkerLabels,
     Main, Nothing
<1>7. OneAnswer'
  BY DEF OneAnswer, Request, ThreadsOK, WorkOK, Births, Threads, MainLabels
<1>8. Reaped' /\ OwnDate'
  BY DEF Reaped, NoChildLeft, ThreadsOK, WorkOK, Births, Threads, Main, OwnDate
<1>9. ConvertedIsWhole' /\ Whole'
  BY DEF ConvertedIsWhole, WorkOK, Whole, ThreadsOK, AtWork, Threads
<1>10. Healthy' /\ NoNeedlessFallback'
  BY DEF Healthy, Births, ThreadsOK, WorkOK, Threads, Main, NoNeedlessFallback
<1> QED
  BY <1>1, <1>2, <1>3, <1>4, <1>5, <1>6, <1>7, <1>8, <1>9, <1>10

(* The main thread has joined the workers.                                 *)
LEMMA InvJoin ==
  ASSUME IInv, Join PROVE IInv'
<1> USE ChildrenAssumption DEF Join, Joined, pipes, daemon, work, tools,
     results, NoFault, Goto, IInv, TypeOK, Fails
<1>1. FlagsOK'
  BY Zenon DEF FlagsOK
<1>2. PipesOK'
  BY DEF PipesOK
<1>3. WorkOK'
  BY DEF WorkOK
<1>4. ThreadsOK'
  BY DEF ThreadsOK, Threads, MainLabels, WorkerLabels, Main, Nothing, Births
<1>5. Births' /\ AtWork'
  BY DEF Births, ThreadsOK, Threads, MainLabels, WorkerLabels, AtWork, WorkOK
<1>6. Idle'
  BY DEF Idle, Stopping, ThreadsOK, Births, Threads, MainLabels, WorkerLabels,
     Main, Nothing
<1>7. OneAnswer'
  BY DEF OneAnswer, Request, ThreadsOK, WorkOK, Births, Threads, MainLabels
<1>8. Reaped' /\ OwnDate'
  BY DEF Reaped, NoChildLeft, ThreadsOK, WorkOK, Births, Threads, Main, OwnDate
<1>9. ConvertedIsWhole' /\ Whole'
  BY DEF ConvertedIsWhole, WorkOK, Whole, ThreadsOK, AtWork, Threads
<1>10. Healthy' /\ NoNeedlessFallback'
  BY DEF Healthy, Births, ThreadsOK, WorkOK, Threads, Main, NoNeedlessFallback
<1> QED
  BY <1>1, <1>2, <1>3, <1>4, <1>5, <1>6, <1>7, <1>8, <1>9, <1>10

(* A worker takes a file, or exits.                                        *)
LEMMA InvTake ==
  ASSUME IInv, NEW w \in Workers, Take(w) PROVE IInv'
<1> USE ChildrenAssumption DEF IInv, TypeOK, Take, pipes, daemon, tools, results, Goto
<1>0. pc[w] = "idle" /\ holder # w /\ tool[w] = "none"
  BY WorkerFacts
<1>1. FlagsOK'
  BY Zenon DEF FlagsOK
<1>2. WorkOK'
  BY DEF WorkOK
<1>3. PICK l \in {"date", "exited"} :
        /\ pc' = [pc EXCEPT ![w] = l] /\ file' \in [Workers -> Files \cup {Nothing}]
        /\ \A v \in Workers \ {w} : file'[v] = file[v]
        /\ l = "date" => file'[w] \in Files
  BY DEF WorkOK
<1>4. /\ PipesOK' /\ ThreadsOK' /\ Births' /\ AtWork' /\ Idle' /\ OneAnswer'
      /\ pc'[Main] = pc[Main] /\ \A v \in Workers \ {w} : pc'[v] = pc[v]
  BY <1>0, <1>3, Moves DEF WorkerLabels
<1>5. Reaped' /\ Whole' /\ ConvertedIsWhole' /\ OwnDate' /\ NoNeedlessFallback'
  BY <1>0, <1>3, <1>4, Frame, KeepsDates
<1>6. Healthy'
  BY <1>0, <1>3, <1>4, StaysHealthy
<1> QED
  BY <1>1, <1>2, <1>4, <1>5, <1>6

(* A converter is started, or not.                                         *)
LEMMA InvSpawn ==
  ASSUME IInv, NEW w \in Workers, Spawn(w) PROVE IInv'
<1> USE ChildrenAssumption DEF IInv, TypeOK, pipes, daemon, work, results, Goto
<1>0. pc[w] = "convert" /\ holder # w /\ tool[w] = "none" /\ file[w] \in Files
  BY WorkerFacts DEF Spawn
<1>1. FlagsOK'
  BY Zenon DEF FlagsOK, Spawn, ConvertReturns
<1>2. WorkOK'
  <2>1. faults' \in 0..MaxFaults
    BY FailsFacts DEF Spawn, NoFault, WorkOK
  <2>2. tool' \in [Workers -> {"none", "alive", "exit 0", "exit 1"}]
    BY DEF Spawn, WorkOK
  <2>5. left' \in [Workers -> 0..Timeout]
    <3>1. Timeout \in 0..Timeout
      OBVIOUS
    <3> QED
      BY <3>1 DEF Spawn, WorkOK
  <2>3. file' \in [Workers -> Files \cup {Nothing}]
    BY DEF Spawn, ConvertReturns, WorkOK
  <2>4. result' \in [Files -> {"none", "converted", "failed"}]
    BY <1>0 DEF Spawn, ConvertReturns, WorkOK
  <2> QED
    BY <2>1, <2>2, <2>3, <2>4, <2>5 DEF Spawn, WorkOK
<1>3. PICK l \in {"poll", "idle"} :
        /\ pc' = [pc EXCEPT ![w] = l]
        /\ file' = IF l = "idle" THEN [file EXCEPT ![w] = Nothing] ELSE file
        /\ tool' = IF l = "idle" THEN tool ELSE [tool EXCEPT ![w] = "alive"]
        /\ result' = IF l = "idle" THEN [result EXCEPT ![file[w]] = "failed"] ELSE result
        /\ faults' = 0 => faults = 0
  BY FailsFacts DEF Spawn, ConvertReturns, NoFault
<1>4. /\ UNCHANGED <<exiftool, input, output, running, holder, reply, present, dng, date>>
      /\ file' \in [Workers -> Files \cup {Nothing}]
      /\ \A v \in Workers \ {w} : file'[v] = file[v] /\ tool'[v] = tool[v]
      /\ l # "idle" => file'[w] \in Files
  BY <1>0, <1>3 DEF Spawn, WorkOK
<1>5. /\ PipesOK' /\ ThreadsOK' /\ Births' /\ AtWork' /\ Idle' /\ OneAnswer'
      /\ pc'[Main] = pc[Main] /\ pc'[w] = l /\ \A v \in Workers \ {w} : pc'[v] = pc[v]
  BY <1>0, <1>3, <1>4, Moves DEF WorkerLabels
<1>6. \A f \in Files : result'[f] = "converted" => result[f] = "converted" \/ dng[f] = "whole"
  BY <1>0, <1>3 DEF WorkOK, Whole
<1>7. Reaped' /\ Whole' /\ ConvertedIsWhole' /\ OwnDate' /\ NoNeedlessFallback'
  <2>1. tool \in [Workers -> {"none", "alive", "exit 0", "exit 1"}]
    BY DEF WorkOK
  <2>2. pc'[w] \in {"poll", "kill"} \/ tool'[w] = "none"
    BY <1>0, <1>3, <1>5, <2>1
  <2>3. tool'[w] = "exit 0" => file'[w] \in Files /\ dng'[file'[w]] = "whole"
    BY <1>0, <1>3, <1>4, <2>1 DEF Whole
  <2> QED
    BY <1>3, <1>4, <1>5, <1>6, <2>2, <2>3, Frame, KeepsDates
<1>8. Healthy'
  BY <1>0, <1>3, <1>4, <1>5, StaysHealthy
<1> QED
  BY <1>1, <1>2, <1>5, <1>7, <1>8

(* A worker looks at its converter.                                        *)
LEMMA InvPoll ==
  ASSUME IInv, NEW w \in Workers, Poll(w) PROVE IInv'
<1> USE ChildrenAssumption DEF IInv, TypeOK, pipes, daemon, work, results, Goto
<1>0. pc[w] = "poll" /\ holder # w /\ file[w] \in Files
  BY WorkerFacts DEF Poll
<1>1. FlagsOK'
  BY Zenon DEF FlagsOK, Poll, ConvertReturns
<1>2. WorkOK'
  BY <1>0 DEF Poll, ConvertReturns, Outcome, WorkOK
<1>3. PICK l \in {"kill", "idle"} :
        /\ pc' = [pc EXCEPT ![w] = l]
        /\ file' = IF l = "idle" THEN [file EXCEPT ![w] = Nothing] ELSE file
        /\ tool' = IF l = "idle" THEN [tool EXCEPT ![w] = "none"] ELSE tool
        /\ result' = IF l = "idle" THEN [result EXCEPT ![file[w]] = Outcome(tool[w])]
                     ELSE result
        /\ faults' = faults
  BY DEF Poll, ConvertReturns
<1>4. /\ UNCHANGED <<exiftool, input, output, running, holder, reply, present, dng, date>>
      /\ file' \in [Workers -> Files \cup {Nothing}]
      /\ \A v \in Workers \ {w} : file'[v] = file[v] /\ tool'[v] = tool[v]
      /\ l # "idle" => file'[w] \in Files
  BY <1>0, <1>3 DEF Poll, WorkOK
<1>5. /\ PipesOK' /\ ThreadsOK' /\ Births' /\ AtWork' /\ Idle' /\ OneAnswer'
      /\ pc'[Main] = pc[Main] /\ pc'[w] = l /\ \A v \in Workers \ {w} : pc'[v] = pc[v]
  BY <1>0, <1>3, <1>4, Moves DEF WorkerLabels
<1>6. \A f \in Files : result'[f] = "converted" => result[f] = "converted" \/ dng[f] = "whole"
  BY <1>0, <1>3 DEF WorkOK, Whole, Outcome
<1>7. Reaped' /\ Whole' /\ ConvertedIsWhole' /\ OwnDate' /\ NoNeedlessFallback'
  <2>1. tool \in [Workers -> {"none", "alive", "exit 0", "exit 1"}]
    BY DEF WorkOK
  <2>2. pc'[w] \in {"poll", "kill"} \/ tool'[w] = "none"
    BY <1>0, <1>3, <1>5, <2>1
  <2>3. tool'[w] = "exit 0" => file'[w] \in Files /\ dng'[file'[w]] = "whole"
    BY <1>0, <1>3, <1>4, <2>1 DEF Whole
  <2> QED
    BY <1>3, <1>4, <1>5, <1>6, <2>2, <2>3, Frame, KeepsDates
<1>8. Healthy'
  BY <1>0, <1>3, <1>4, <1>5, StaysHealthy
<1> QED
  BY <1>1, <1>2, <1>5, <1>7, <1>8

(* A converter is killed.                                                  *)
LEMMA InvKill ==
  ASSUME IInv, NEW w \in Workers, Kill(w) PROVE IInv'
<1> USE ChildrenAssumption DEF Kill, ConvertReturns, Killed, pipes, daemon,
     work, tools, results, NoFault, Goto, IInv, TypeOK, Fails
<1>1. FlagsOK'
  BY Zenon DEF FlagsOK
<1>2. PipesOK'
  BY DEF PipesOK
<1>3. WorkOK'
  BY DEF WorkOK
<1>4. ThreadsOK'
  BY DEF ThreadsOK, Threads, MainLabels, WorkerLabels, Main, Nothing, Births
<1>5. Births' /\ AtWork'
  BY DEF Births, ThreadsOK, Threads, MainLabels, WorkerLabels, AtWork, WorkOK
<1>6. Idle'
  BY DEF Idle, Stopping, ThreadsOK, Births, Threads, MainLabels, WorkerLabels,
     Main, Nothing
<1>7. OneAnswer'
  BY DEF OneAnswer, Request, ThreadsOK, WorkOK, Births, Threads, MainLabels
<1>8. Reaped' /\ OwnDate'
  BY DEF Reaped, NoChildLeft, ThreadsOK, WorkOK, Births, Threads, Main, OwnDate
<1>9. ConvertedIsWhole' /\ Whole'
  BY DEF ConvertedIsWhole, WorkOK, Whole, ThreadsOK, AtWork, Threads
<1>10. Healthy' /\ NoNeedlessFallback'
  BY DEF Healthy, Births, ThreadsOK, WorkOK, Threads, Main, NoNeedlessFallback
<1> QED
  BY <1>1, <1>2, <1>3, <1>4, <1>5, <1>6, <1>7, <1>8, <1>9, <1>10

(* A converter writes, and ends.                                           *)
LEMMA InvConvert ==
  ASSUME IInv, NEW w \in Workers, Convert(w) PROVE IInv'
<1> USE ChildrenAssumption DEF IInv, TypeOK, pipes, daemon, work, results
<1>0. pc[w] \in {"poll", "kill"} /\ file[w] \in Files /\ tool[w] = "alive"
  BY DEF Convert, AtWork
<1>1. /\ UNCHANGED <<exiftool, input, output, inOpen, running, holder, reply, present, pc,
                     file, queue, stop, left, date, result>>
      /\ faults' \in 0..MaxFaults /\ (faults' = 0 => faults = 0)
  BY FailsFacts DEF Convert, NoFault, WorkOK
<1>2. PICK s \in {"alive", "exit 0", "exit 1"}, d \in {"none", "part", "whole"} :
        /\ tool' = [tool EXCEPT ![w] = s] /\ dng' = [dng EXCEPT ![file[w]] = d]
        /\ (dng[file[w]] = "whole" => d = "whole") /\ (s = "exit 0" => d = "whole")
  <2>1. /\ tool = [tool EXCEPT ![w] = "alive"]
        /\ dng = [dng EXCEPT ![file[w]] = dng[file[w]]]
        /\ dng[file[w]] \in {"none", "part", "whole"}
    BY <1>0 DEF WorkOK
  <2>2. CASE dng' = [dng EXCEPT ![file[w]] = "part"] /\ dng[file[w]] = "none" /\ tool' = tool
    BY <2>1, <2>2
  <2>3. CASE dng' = [dng EXCEPT ![file[w]] = "whole"] /\ tool' = [tool EXCEPT ![w] = "exit 0"]
    BY <2>3
  <2>4. CASE dng' = dng /\ tool' = [tool EXCEPT ![w] = "exit 1"]
    BY <2>1, <2>4
  <2> QED
    BY <1>0, <2>2, <2>3, <2>4 DEF Convert
<1>3. FlagsOK'
  BY <1>1, Zenon DEF FlagsOK
<1>4. PipesOK' /\ ThreadsOK' /\ WorkOK'
  BY <1>0, <1>1, <1>2 DEF PipesOK, ThreadsOK, WorkOK
<1>5. Births' /\ AtWork' /\ Idle' /\ OneAnswer'
  BY <1>1 DEF Births, AtWork, Idle, OneAnswer, Stopping, Request
<1>6. Reaped' /\ Whole' /\ ConvertedIsWhole' /\ OwnDate' /\ NoNeedlessFallback'
  BY <1>0, <1>1, <1>2, Frame, KeepsDates DEF WorkOK
<1>7. Healthy'
  BY <1>1 DEF Healthy
<1> QED
  BY <1>3, <1>4, <1>5, <1>6, <1>7

(* Time passes.                                                            *)
LEMMA InvTick ==
  ASSUME IInv, Tick PROVE IInv'
<1> USE ChildrenAssumption DEF Tick, pipes, daemon, work, tools, results,
     NoFault, Goto, IInv, TypeOK, Fails
<1>1. FlagsOK'
  BY Zenon DEF FlagsOK
<1>2. PipesOK'
  BY DEF PipesOK
<1>3. WorkOK'
  <2>1. \A w \in Workers : left[w] \in 0..Timeout
    BY DEF WorkOK
  <2>2. \A w \in Workers :
          (IF left[w] > 0 THEN left[w] - 1 ELSE 0) \in 0..Timeout
    BY <2>1
  <2>3. left' \in [Workers -> 0..Timeout]
    BY <2>2
  <2> QED
    BY <2>3 DEF WorkOK
<1>4. ThreadsOK'
  BY DEF ThreadsOK, Threads, MainLabels, WorkerLabels, Main, Nothing, Births
<1>5. Births' /\ AtWork'
  BY DEF Births, ThreadsOK, Threads, MainLabels, WorkerLabels, AtWork, WorkOK
<1>6. Idle'
  BY DEF Idle, Stopping, ThreadsOK, Births, Threads, MainLabels, WorkerLabels,
     Main, Nothing
<1>7. OneAnswer'
  BY DEF OneAnswer, Request, ThreadsOK, WorkOK, Births, Threads, MainLabels
<1>8. Reaped' /\ OwnDate'
  BY DEF Reaped, NoChildLeft, ThreadsOK, WorkOK, Births, Threads, Main, OwnDate
<1>9. ConvertedIsWhole' /\ Whole'
  BY DEF ConvertedIsWhole, WorkOK, Whole, ThreadsOK, AtWork, Threads
<1>10. Healthy' /\ NoNeedlessFallback'
  BY DEF Healthy, Births, ThreadsOK, WorkOK, Threads, Main, NoNeedlessFallback
<1> QED
  BY <1>1, <1>2, <1>3, <1>4, <1>5, <1>6, <1>7, <1>8, <1>9, <1>10

(* Nothing happens.                                                        *)
LEMMA InvStutter ==
  ASSUME IInv, UNCHANGED vars PROVE IInv'
<1> USE ChildrenAssumption DEF vars, pipes, daemon, work, tools, results,
     NoFault, Goto, IInv, TypeOK, Fails
<1>1. FlagsOK'
  BY Zenon DEF FlagsOK
<1>2. PipesOK'
  BY DEF PipesOK
<1>3. WorkOK'
  BY DEF WorkOK
<1>4. ThreadsOK'
  BY DEF ThreadsOK, Threads, MainLabels, WorkerLabels, Main, Nothing, Births
<1>5. Births' /\ AtWork'
  BY DEF Births, ThreadsOK, Threads, MainLabels, WorkerLabels, AtWork, WorkOK
<1>6. Idle'
  BY DEF Idle, Stopping, ThreadsOK, Births, Threads, MainLabels, WorkerLabels,
     Main, Nothing
<1>7. OneAnswer'
  BY DEF OneAnswer, Request, ThreadsOK, WorkOK, Births, Threads, MainLabels
<1>8. Reaped' /\ OwnDate'
  BY DEF Reaped, NoChildLeft, ThreadsOK, WorkOK, Births, Threads, Main, OwnDate
<1>9. ConvertedIsWhole' /\ Whole'
  BY DEF ConvertedIsWhole, WorkOK, Whole, ThreadsOK, AtWork, Threads
<1>10. Healthy' /\ NoNeedlessFallback'
  BY DEF Healthy, Births, ThreadsOK, WorkOK, Threads, Main, NoNeedlessFallback
<1> QED
  BY <1>1, <1>2, <1>3, <1>4, <1>5, <1>6, <1>7, <1>8, <1>9, <1>10

(* A worker looks whether the daemon is there.                             *)
LEMMA InvExtractDate ==
  ASSUME IInv, NEW w \in Workers, ExtractDate(w) PROVE IInv'
<1> USE ChildrenAssumption
        DEF IInv, TypeOK, ExtractDate, pipes, daemon, work, tools, Goto
<1>0. pc[w] = "date" /\ holder # w /\ tool[w] = "none" /\ file[w] \in Files
      /\ pc[Main] \in {"run", "join"}
  BY WorkerFacts
<1>1. FlagsOK'
  BY Zenon DEF FlagsOK
<1>2. PICK l \in {"send", "convert"} : pc' = [pc EXCEPT ![w] = l]
  OBVIOUS
<1>3. Got(<< >>) = Mtime
  BY DEF Got
<1>4. WorkOK' /\ OwnDate'
  BY <1>0, <1>3 DEF WorkOK, OwnDate, GotDate
<1>5. file' \in [Workers -> Files \cup {Nothing}]
  BY DEF WorkOK
<1>6. /\ PipesOK' /\ ThreadsOK' /\ Births' /\ AtWork' /\ Idle' /\ OneAnswer'
      /\ pc'[Main] = pc[Main] /\ \A v \in Workers \ {w} : pc'[v] = pc[v]
  BY <1>0, <1>2, <1>5, Moves DEF WorkerLabels
<1>7. Reaped' /\ Whole' /\ ConvertedIsWhole'
  BY <1>0, <1>2, <1>6, Frame
<1>8. Healthy'
  BY <1>0, <1>6, StaysHealthy
<1>9. NoNeedlessFallback'
  BY <1>0 DEF NoNeedlessFallback, Healthy
<1> QED
  BY <1>1, <1>4, <1>6, <1>7, <1>8, <1>9

(* The date in the lines about a file is that of the file.                 *)
LEMMA GotFacts ==
  ASSUME NEW r \in Files, NEW lines \in Seq(Files \cup {Other}), Answers(lines, r)
  PROVE  Got(lines) \in {Mtime, r} /\ (Holds(lines, r) => Got(lines) = r)
BY DEF Got, Holds, Answers

(* The end of an exchange: the mutex is free and the pipes are empty.      *)
LEMMA InvReturns ==
  ASSUME IInv, NEW t \in Threads, pc[t] \in {"send", "read"}, holder \in {t, Nothing},
         NEW lines \in Seq(Files \cup {Other}), Answers(lines, Request(t)),
         Returns(t, lines), holder' = Nothing,
         UNCHANGED <<exiftool, present, file, queue, tool, left, dng, result, faults>>,
         PipesOK', exiftool = "alive" => input' = << >> /\ output' = << >>,
         Enabled /\ faults = 0 =>
           /\ running' = running
           /\ t = Main => lines # << >>
           /\ t # Main /\ file[t] \in Dated => Holds(lines, file[t])
  PROVE  /\ PipesOK' /\ WorkOK' /\ ThreadsOK' /\ Births' /\ AtWork' /\ Idle' /\ OneAnswer'
         /\ OwnDate' /\ Reaped' /\ ConvertedIsWhole' /\ Whole' /\ Healthy'
         /\ NoNeedlessFallback'
<1> USE ChildrenAssumption DEF IInv, TypeOK
<1>1. PICK l \in {"giveup", "begin", "convert"} :
        /\ pc' = [pc EXCEPT ![t] = l] /\ (l = "convert" <=> t # Main)
        /\ l = "giveup" => lines = << >>
  BY DEF Returns, Goto
<1>2. /\ Main \in Threads /\ Main \notin Workers /\ Nothing \notin Threads
      /\ t # Main => t \in Workers /\ file[t] \in Files /\ pc[Main] \in {"run", "join"}
      /\ pc'[t] = l /\ \A u \in Threads \ {t} : pc'[u] = pc[u]
      /\ t # Main => pc'[Main] = pc[Main]
      /\ t = Main => pc[Main] \in {"send", "read"} /\ pc'[Main] \in {"giveup", "begin"}
  BY <1>1 DEF Threads, ThreadsOK, Births, AtWork, MainLabels, Main, Nothing
<1>3. ThreadsOK'
  <2>1. pc' \in [Threads -> MainLabels \cup WorkerLabels] /\ pc'[Main] \in MainLabels
        /\ \A w \in Workers : pc'[w] \in WorkerLabels
    BY <1>1, <1>2 DEF ThreadsOK, Threads, MainLabels, WorkerLabels
  <2>2. \A u \in Threads : pc'[u] # "read"
    BY <1>1, <1>2 DEF ThreadsOK
  <2>3. reply' \in [Threads -> Seq(Files \cup {Other})]
    BY DEF Returns, ThreadsOK
  <2> QED
    BY <1>2, <2>1, <2>2, <2>3 DEF ThreadsOK
<1>4. date' \in [Files -> Files \cup {Mtime, Nothing}] /\ OwnDate' /\ NoNeedlessFallback'
  <2>1. CASE t = Main
    BY <2>1 DEF Returns, WorkOK, OwnDate, NoNeedlessFallback
  <2>2. CASE t # Main
    <3>1. /\ Got(lines) \in {Mtime, file[t]} /\ file[t] \in Files
          /\ Holds(lines, file[t]) => Got(lines) = file[t]
      BY <1>2, <2>2, GotFacts DEF Request
    <3>2. date' = [date EXCEPT ![file[t]] = Got(lines)]
      BY <2>2 DEF Returns, GotDate
    <3>3. date' \in [Files -> Files \cup {Mtime, Nothing}] /\ OwnDate'
      BY <3>1, <3>2 DEF WorkOK, OwnDate
    <3>4. \A f \in Files : f # Mtime
      BY NotAMark
    <3>5. NoNeedlessFallback'
      BY <2>2, <3>1, <3>2, <3>4 DEF NoNeedlessFallback, WorkOK
    <3> QED
      BY <3>3, <3>5
  <2> QED
    BY <2>1, <2>2
<1>5. WorkOK'
  BY <1>4 DEF WorkOK
<1>6. Births' /\ AtWork'
  BY <1>1, <1>2 DEF Births, AtWork, Threads
<1>7. Idle' /\ OneAnswer'
  <2>1. \A u \in Threads : reply'[u] = << >>
    BY <1>2 DEF Returns, Idle, ThreadsOK
  <2>2. pc'[Main] # "start"
    BY <1>2
  <2> QED
    BY <1>2, <2>1, <2>2 DEF Idle, OneAnswer
<1>8. Reaped' /\ ConvertedIsWhole' /\ Whole'
  <2>1. \A w \in Workers : pc'[w] \notin {"poll", "kill"} => pc[w] \notin {"poll", "kill"}
    BY <1>1, <1>2 DEF Threads
  <2>2. pc'[Main] # "start" /\ (pc'[Main] = "done" => pc[Main] = "done")
        /\ (pc'[Main] \in {"run", "join"} => pc[Main] = pc'[Main])
    BY <1>2
  <2> QED
    BY <2>1, <2>2 DEF Reaped, NoChildLeft, ConvertedIsWhole, Whole
<1>9. Healthy'
  BY <1>1, <1>2 DEF Healthy, Threads
<1> QED
  BY <1>3, <1>4, <1>5, <1>6, <1>7, <1>8, <1>9

(* A thread takes the mutex and writes its request into empty pipes.       *)
LEMMA InvWrite ==
  ASSUME IInv, NEW t \in Threads, Write(t) PROVE IInv'
<1> USE ChildrenAssumption DEF IInv, TypeOK
<1>0. /\ pc[t] = "send" /\ holder = Nothing /\ Main \in Threads /\ Main \notin Workers
      /\ Nothing \notin Threads
      /\ t # Main => t \in Workers /\ file[t] \in Files /\ pc[Main] \in {"run", "join"}
      /\ ~Stopping /\ pc[Main] # "start" /\ \A u \in Threads : pc[u] # "read"
  BY DEF Write, LockFree, Threads, ThreadsOK, Births, AtWork, MainLabels, Main, Nothing,
     Stopping
<1>1. exiftool = "alive" => input = << >> /\ output = << >>
  BY <1>0 DEF Idle
<1>2. FlagsOK'
  BY Zenon DEF Write, FlagsOK, work
<1>3. CASE running /\ exiftool = "alive"
  <2>1. /\ input' = <<Request(t)>> /\ output' = << >> /\ holder' = t
        /\ pc' = [pc EXCEPT ![t] = "read"]
        /\ UNCHANGED <<exiftool, running, reply, present, file, queue, tool, left, dng,
                       date, result, faults>>
    BY <1>1, <1>3 DEF Write, Goto, work, tools, PipesOK
  <2>2. Request(t) \in Files \cup {Ver} /\ Request(t)' = Request(t)
    BY <1>0, <2>1 DEF Request
  <2>3. /\ pc' \in [Threads -> MainLabels \cup WorkerLabels]
        /\ pc'[t] = "read" /\ \A u \in Threads \ {t} : pc'[u] = pc[u]
    BY <2>1 DEF ThreadsOK, MainLabels, WorkerLabels
  <2>4. PipesOK' /\ WorkOK'
    <3>1. <<Request(t)>> \in Seq(Files \cup {Ver, Quit}) /\ << >> \in Seq(Files \cup {Other, Ready})
      BY <2>2
    <3>2. PipesOK'
      BY <2>1, <3>1 DEF PipesOK
    <3>3. WorkOK'
      BY <2>1 DEF WorkOK
    <3> QED
      BY <3>2, <3>3
  <2>5. ThreadsOK'
    BY <1>0, <2>1, <2>3 DEF ThreadsOK, Threads, MainLabels, WorkerLabels
  <2>6. Births' /\ AtWork'
    BY <1>0, <2>1, <2>3 DEF Births, AtWork, Threads, ThreadsOK
  <2>7. Idle'
    BY <1>0, <2>1, <2>3 DEF Idle, Stopping
  <2>8. OneAnswer'
    <3>1. reply[t] = << >>
      BY <1>0 DEF Idle
    <3> QED
      BY <1>0, <2>1, <2>2, <3>1 DEF OneAnswer, Answers
  <2>9. Reaped' /\ ConvertedIsWhole' /\ Whole' /\ OwnDate' /\ NoNeedlessFallback'
    BY <1>0, <2>1, <2>3 DEF Reaped, NoChildLeft, ConvertedIsWhole, Whole, OwnDate,
       NoNeedlessFallback, Threads
  <2>10. Healthy'
    BY <1>0, <2>1, <2>3 DEF Healthy, Threads
  <2> QED
    BY <1>2, <2>4, <2>5, <2>6, <2>7, <2>8, <2>9, <2>10
<1>4. CASE ~(running /\ exiftool = "alive")
  <2>1. /\ Returns(t, << >>) /\ holder' = Nothing /\ input' = input /\ output' = output
        /\ UNCHANGED <<exiftool, present, file, queue, tool, left, dng, result, faults>>
    BY <1>0, <1>4 DEF Write, work, tools
  <2>2. Answers(<< >>, Request(t)) /\ << >> \in Seq(Files \cup {Other})
    BY DEF Answers
  <2>3. ~(Enabled /\ faults = 0)
    BY <1>0, <1>4 DEF Healthy, ThreadsOK, Births, MainLabels, Threads
  <2>4. PipesOK'
    BY <2>1 DEF PipesOK
  <2> QED
    BY <1>0, <1>1, <1>2, <2>1, <2>2, <2>3, <2>4, InvReturns
<1> QED
  BY <1>3, <1>4

(* What is left of an answer, and its first line.                          *)
LEMMA AnswersFacts ==
  ASSUME NEW lines \in Seq(Files \cup {Other, Ready}), NEW r, Answers(lines, r),
         lines # << >>
  PROVE  /\ Head(lines) = lines[1] /\ (Head(lines) = Ready => Tail(lines) = << >>)
         /\ Answers(Tail(lines), r)
<1>1. /\ Len(lines) \in Nat \ {0} /\ Head(lines) = lines[1]
      /\ Tail(lines) \in Seq(Files \cup {Other, Ready}) /\ Len(Tail(lines)) = Len(lines) - 1
  OBVIOUS
<1>2. \A n \in 1..(Len(lines) - 1) : Tail(lines)[n] = lines[n + 1]
  OBVIOUS
<1>3. ASSUME Head(lines) = Ready PROVE Tail(lines) = << >>
  <2>1. 1 \in 1..Len(lines) /\ lines[1] = Ready
    BY <1>1, <1>3
  <2>2. 1 = Len(lines)
    BY <2>1, Zenon DEF Answers
  <2>3. 1 - 1 = 0
    OBVIOUS
  <2>4. Len(Tail(lines)) = 0
    BY <1>1, <2>2, <2>3, Zenon
  <2> QED
    BY <1>1, <2>4, EmptySeq
<1>4. Answers(Tail(lines), r)
  <2> SUFFICES ASSUME NEW n \in 1..(Len(lines) - 1)
               PROVE  /\ lines[n + 1] \in Files => lines[n + 1] = r
                      /\ lines[n + 1] = Ready => n = Len(lines) - 1
    BY <1>1, <1>2 DEF Answers
  <2>1. PICK k \in 1..Len(lines) : k = n + 1
    BY <1>1
  <2>2. /\ lines[k] \in Files => lines[k] = r
        /\ lines[k] = Ready => k = Len(lines)
    BY Zenon DEF Answers
  <2>3. \A m \in Nat, i \in Int : i + 1 = m => i = m - 1
    OBVIOUS
  <2>4. n \in Int /\ Len(lines) \in Nat
    BY <1>1
  <2>5. k = Len(lines) => n = Len(lines) - 1
    BY <2>1, <2>3, <2>4, Zenon
  <2> QED
    BY <2>1, <2>2, <2>5, Zenon
<1> QED
  BY <1>1, <1>3, <1>4

(* The holder of the mutex reads a line, the last line, or the end.        *)
LEMMA InvRead ==
  ASSUME IInv, NEW t \in Threads, Read(t) PROVE IInv'
<1> USE ChildrenAssumption DEF IInv, TypeOK
<1>0. /\ pc[t] = "read" /\ holder = t /\ Main \in Threads /\ Main \notin Workers
      /\ Nothing \notin Threads
      /\ t # Main => t \in Workers /\ file[t] \in Files /\ pc[Main] \in {"run", "join"}
      /\ reply[t] \in Seq(Files \cup {Other}) /\ ~Stopping /\ pc[Main] # "start"
  BY DEF Read, Threads, ThreadsOK, Births, AtWork, MainLabels, Main, Nothing, Stopping
<1>1. /\ Answers(output, Request(t)) /\ Answers(reply[t], Request(t))
      /\ input # << >> /\ exiftool = "alive" => output = << >>
      /\ input = << >> \/ input = <<Request(t)>>
  BY <1>0 DEF OneAnswer
<1>2. FlagsOK'
  BY Zenon DEF Read, FlagsOK, work
<1>3. UNCHANGED <<exiftool, input, present, file, queue, tool, left, dng, result, faults>>
  BY DEF Read, work, tools
<1>4. CASE output # << >> /\ Head(output) = Ready
  <2>1. output[1] = Ready /\ Tail(output) = << >>
    BY <1>1, <1>4, AnswersFacts DEF PipesOK
  <2>2. Returns(t, reply[t]) /\ holder' = Nothing /\ output' = << >> /\ running' = running
    BY <1>0, <1>4, <2>1 DEF Read, EndOfFile
  <2>3. PipesOK'
    BY <1>3, <2>2 DEF PipesOK
  <2>4. ASSUME Enabled /\ faults = 0
        PROVE  /\ t = Main => reply[t] # << >>
               /\ t # Main /\ file[t] \in Dated => Holds(reply[t], file[t])
    <3>1. input = << >>
      BY <1>0, <1>1, <1>4, <2>4 DEF Healthy, ThreadsOK, Births, MainLabels, Threads
    <3>2. \A f \in Files : f # Ready
      BY NotAMark
    <3> QED
      BY <1>0, <1>4, <2>1, <2>4, <3>1, <3>2 DEF Healthy
  <2> QED
    BY <1>0, <1>1, <1>2, <1>3, <1>4, <2>2, <2>3, <2>4, InvReturns
<1>5. CASE output # << >> /\ Head(output) # Ready
  <2>1. /\ output' = Tail(output) /\ reply' = [reply EXCEPT ![t] = Append(@, Head(output))]
        /\ UNCHANGED <<running, holder, pc, date>>
    BY <1>5 DEF Read, EndOfFile
  <2>2. /\ Head(output) \in Files \cup {Other} /\ Tail(output) \in Seq(Files \cup {Other, Ready})
        /\ Head(output) = output[1] /\ Len(output) \in Nat \ {0}
    BY <1>5 DEF PipesOK
  <2>3. reply'[t] = Append(reply[t], Head(output)) /\ reply'[t] \in Seq(Files \cup {Other})
    BY <1>0, <2>1, <2>2 DEF ThreadsOK
  <2>4. /\ Len(reply'[t]) = Len(reply[t]) + 1 /\ Len(reply[t]) \in Nat
        /\ reply'[t][Len(reply[t]) + 1] = Head(output)
        /\ \A n \in 1..Len(reply[t]) : reply'[t][n] = reply[t][n]
    BY <1>0, <2>2, <2>3
  <2>5. PipesOK' /\ WorkOK'
    BY <1>3, <2>1, <2>2 DEF PipesOK, WorkOK
  <2>6. ThreadsOK'
    BY <1>0, <2>1, <2>3 DEF ThreadsOK
  <2>7. Births' /\ AtWork' /\ Reaped' /\ ConvertedIsWhole' /\ Whole' /\ OwnDate'
        /\ NoNeedlessFallback'
    BY <1>3, <2>1 DEF Births, AtWork, Reaped, NoChildLeft, ConvertedIsWhole, Whole, OwnDate,
       NoNeedlessFallback
  <2>8. Idle'
    BY <1>0, <1>3, <2>1 DEF Idle, Stopping, ThreadsOK
  <2>9. Answers(output', Request(t))
    BY <1>1, <1>5, <2>1, AnswersFacts DEF PipesOK
  <2>10. Answers(reply'[t], Request(t))
    <3>1. Head(output) \in Files => Head(output) = Request(t)
      <4>1. 1 \in 1..Len(output)
        BY <2>2
      <4> QED
        BY Zenon, <1>1, <2>2, <4>1 DEF Answers
    <3>2. \A n \in 1..Len(reply'[t]) : reply'[t][n] # Ready
      <4>1. Other # Ready /\ \A f \in Files : f # Ready
        BY NotAMark DEF Other, Ready
      <4> QED
        BY <2>3, <4>1
    <3>3. ASSUME NEW n \in 1..Len(reply'[t]), reply'[t][n] \in Files
          PROVE  reply'[t][n] = Request(t)
      <4>1. CASE n = Len(reply[t]) + 1
        BY <2>4, <3>1, <3>3, <4>1
      <4>2. CASE n # Len(reply[t]) + 1
        <5>1. n \in 1..Len(reply[t])
          BY <2>4, <4>2
        <5> QED
          BY <1>1, <2>4, <3>3, <5>1 DEF Answers
      <4> QED
        BY <4>1, <4>2
    <3> QED
      BY <3>2, <3>3 DEF Answers
  <2>11. OneAnswer'
    <3>1. Request(t)' = Request(t)
      BY <1>3 DEF Request
    <3>2. \A u \in Threads : holder' = u => u = t
      BY <1>0, <2>1
    <3>3. input # << >> /\ exiftool = "alive" => output' = << >>
      BY <1>1, <1>5
    <3> QED
      BY <1>1, <1>3, <2>1, <2>9, <2>10, <3>1, <3>2, <3>3 DEF OneAnswer
  <2>12. Healthy'
    <3>1. reply'[t] # << >>
      BY <2>3, <2>4
    <3>2. \A line : Holds(reply[t], line) \/ line = Head(output) => Holds(reply'[t], line)
      BY <2>4 DEF Holds
    <3> QED
      BY <1>0, <1>3, <2>1, <2>2, <3>1, <3>2 DEF Healthy
  <2> QED
    BY <1>2, <2>5, <2>6, <2>7, <2>8, <2>11, <2>12
<1>6. CASE output = << >>
  <2>1. /\ Returns(t, << >>) /\ holder' = Nothing /\ output' = << >> /\ exiftool = "ended"
    BY <1>6 DEF Read, EndOfFile
  <2>2. Answers(<< >>, Request(t)) /\ << >> \in Seq(Files \cup {Other})
    BY DEF Answers
  <2>3. ~(Enabled /\ faults = 0)
    BY <1>0, <2>1 DEF Healthy, ThreadsOK, Births, MainLabels, Threads
  <2>4. PipesOK'
    BY <1>3, <2>1 DEF PipesOK
  <2> QED
    BY <1>0, <1>2, <1>3, <2>1, <2>2, <2>3, <2>4, InvReturns
<1> QED
  BY <1>4, <1>5, <1>6

(* The child is there and the pipes are empty, or there is no daemon.      *)
LEMMA InvStartDaemon ==
  ASSUME IInv, StartDaemon PROVE IInv'
<1> USE ChildrenAssumption DEF IInv, TypeOK, StartDaemon, work, tools, results
<1>0. /\ pc[Main] = "start" /\ Main \in Threads /\ Main \notin Workers
      /\ exiftool = "none" /\ input = << >> /\ output = << >>
      /\ \A w \in Workers : pc[w] = "unborn"
      /\ \A t \in Threads : holder # t
  BY DEF Threads, Idle, Births, ThreadsOK, Main
<1>1. FlagsOK'
  BY Zenon DEF FlagsOK, MarkedRunning
<1>2. PICK l \in {"send", "begin"} :
        /\ pc' = [pc EXCEPT ![Main] = l]
        /\ l = "send" => exiftool' = "alive" /\ running' /\ present' = present /\ faults' = faults
        /\ l = "begin" => exiftool' = "none" /\ faults' # 0
  BY <1>0, FailsFacts DEF Goto, FirstSend, MarkedRunning, NoFault
<1>3. /\ pc' \in [Threads -> MainLabels \cup WorkerLabels] /\ pc'[Main] = l
      /\ \A w \in Workers : pc'[w] = "unborn"
  BY <1>0, <1>2 DEF ThreadsOK, MainLabels, WorkerLabels, Threads
<1>4. PipesOK' /\ WorkOK'
  <2>1. faults' \in 0..MaxFaults
    BY FailsFacts DEF NoFault, WorkOK
  <2> QED
    BY <1>0, <1>2, <2>1 DEF PipesOK, WorkOK
<1>5. ThreadsOK'
  BY <1>0, <1>3 DEF ThreadsOK, Threads, MainLabels, WorkerLabels
<1>6. Births' /\ AtWork' /\ Idle' /\ OneAnswer'
  BY <1>0, <1>3 DEF Births, AtWork, Idle, OneAnswer
<1>7. ConvertedIsWhole' /\ Whole' /\ OwnDate'
  BY DEF ConvertedIsWhole, Whole, OwnDate
<1>8. Reaped'
  <2>1. \A w \in Workers : tool'[w] = "none"
    BY <1>0 DEF Reaped, NoChildLeft
  <2>2. present
    BY <1>0 DEF Reaped
  <2>3. l = "begin" => exiftool' = "none"
    BY <1>2
  <2>4. l = "send" => present'
    BY <1>2, <2>2
  <2> QED
    BY <1>2, <1>3, <2>1, <2>3, <2>4 DEF Reaped, NoChildLeft
<1>9. Enabled /\ faults = 0 => present
  BY <1>0 DEF Reaped
<1>10. Healthy' /\ NoNeedlessFallback'
  BY <1>0, <1>2, <1>3, <1>9 DEF Healthy, NoNeedlessFallback
<1> QED
  BY <1>1, <1>4, <1>5, <1>6, <1>7, <1>8, <1>10

(* The child ends, having said no more than a part of its answer.          *)
LEMMA InvDie ==
  ASSUME IInv, Die PROVE IInv'
<1> USE ChildrenAssumption DEF IInv, TypeOK, daemon, work, tools, results
<1>0. /\ exiftool = "alive" /\ exiftool' = "ended" /\ faults' \in 0..MaxFaults /\ faults' # 0
      /\ UNCHANGED <<input, inOpen, running, holder, reply, present, pc, file, queue, stop,
                     tool, left, dng, date, result>>
  BY FailsFacts DEF Die
<1>1. FlagsOK'
  BY <1>0, Zenon DEF FlagsOK
<1>2. WorkOK' /\ ThreadsOK' /\ Births' /\ AtWork' /\ Idle'
  BY <1>0 DEF WorkOK, ThreadsOK, Births, AtWork, Idle, Stopping
<1>3. OwnDate' /\ ConvertedIsWhole' /\ Whole' /\ Healthy' /\ NoNeedlessFallback'
  BY <1>0 DEF OwnDate, ConvertedIsWhole, Whole, Healthy, NoNeedlessFallback
<1>4. Reaped'
  BY <1>0 DEF Reaped, NoChildLeft, Idle
<1>5. ASSUME input # << >>, Head(input) # Quit, NEW n \in 1..2
      PROVE  output \o SubSeq(Lines(Head(input)), 1, n) \in Seq(Files \cup {Other, Ready})
  <2>1. Head(input) \in Files \cup {Ver}
    BY <1>5 DEF PipesOK
  <2>2. SubSeq(Lines(Head(input)), 1, n) \in Seq(Files \cup {Other, Ready})
    BY <2>1, LinesFacts
  <2> QED
    BY <2>2 DEF PipesOK
<1>6. PipesOK'
  BY <1>0, <1>5 DEF Die, PipesOK
<1>7. OneAnswer'
  <2> SUFFICES ASSUME NEW t \in Threads, holder = t
               PROVE  Answers(output', Request(t))
    <3>1. \A t \in Threads : Request(t)' = Request(t)
      BY <1>0 DEF Request
    <3> QED
      BY <1>0, <3>1 DEF OneAnswer
  <2>1. CASE output' = output
    BY <2>1 DEF OneAnswer
  <2>2. CASE output' # output
    <3>1. PICK n \in 1..2 : input # << >> /\ output' = output \o SubSeq(Lines(Head(input)), 1, n)
      BY <2>2 DEF Die
    <3>2. input = <<Request(t)>> /\ output = << >> /\ Head(input) = Request(t)
      BY <1>0, <3>1 DEF OneAnswer
    <3>3. Request(t) \in Files \cup {Ver}
      BY <1>0 DEF Request, AtWork, ThreadsOK, Threads
    <3>4. /\ Lines(Request(t)) \in Seq(Files \cup {Other, Ready})
          /\ Answers(Lines(Request(t)), Request(t)) /\ Len(Lines(Request(t))) \in 2..3
      BY <3>3, LinesFacts
    <3>5. output' = SubSeq(Lines(Request(t)), 1, n)
      BY <3>1, <3>2, <3>4
    <3>6. /\ Len(output') = n
          /\ \A k \in 1..n : output'[k] = Lines(Request(t))[k]
      BY <3>4, <3>5
    <3> QED
      BY <3>4, <3>6 DEF Answers
  <2> QED
    BY <2>1, <2>2
<1> QED
  BY <1>1, <1>2, <1>3, <1>4, <1>6, <1>7

LEMMA InvStep == IInv /\ [Next]_vars => IInv'
<1> SUFFICES ASSUME IInv, [Next]_vars PROVE IInv'
  OBVIOUS
<1>1. ASSUME NEW w \in Workers, Work(w) \/ Convert(w) PROVE IInv'
  BY <1>1, InvTake, InvExtractDate, InvWrite, InvRead, InvSpawn, InvPoll, InvKill, InvConvert
     DEF Work, Threads
<1>2. CASE MainStep
  <2>1. ASSUME NEW l \in {"quit", "giveup", "reap", "bury"}, StopDaemon(l) \/ Reap(l)
        PROVE  IInv'
    BY <2>1, InvStopDaemon, InvReap DEF StopDaemon, Reap
  <2> QED
    BY <1>2, <2>1, InvStartDaemon, InvBegin, InvJoin, InvWrite, InvRead DEF MainStep, Threads
<1> QED
  BY <1>1, <1>2, InvAnswer, InvDie, InvSignal, InvTick, InvStutter DEF Next

(* The inductive invariant holds, and with it what follows from it.        *)
LEMMA InvHolds == Spec => []IInv
BY InvInit, InvStep, PTL DEF Spec

(* Every variable keeps its type, and the mutex is held by the thread that *)
(* reads (exiftool_daemon.h:44-51, worker.cpp:100-114).                    *)
THEOREM ChildrenTypes == Spec => []TypeOK
<1>1. IInv => TypeOK
  BY DEF IInv
<1> QED
  BY <1>1, InvHolds, PTL

(* However many workers share the daemon, a photo's capture date is its    *)
(* own or its mtime (exiftool_daemon.cpp:107-140, 142-200).                *)
THEOREM DatesAreOwn == Spec => []OwnDate
<1>1. IInv => OwnDate
  BY DEF IInv
<1> QED
  BY <1>1, InvHolds, PTL

(* Without a fault the daemon starts and stays, and no photo with a date   *)
(* falls back to its mtime (exiftool_daemon.cpp:84-101).                   *)
THEOREM DaemonServes == Spec => []NoNeedlessFallback
<1>1. IInv => NoNeedlessFallback
  BY DEF IInv
<1> QED
  BY <1>1, InvHolds, PTL

(* A conversion that is reported to have worked has left a whole DNG       *)
(* (converter.cpp:52-66, 125-136).                                         *)
THEOREM ConversionsAreWhole == Spec => []ConvertedIsWhole
<1>1. IInv => ConvertedIsWhole
  BY DEF IInv
<1> QED
  BY <1>1, InvHolds, PTL

(* No child outlives the call that started it, and none the process        *)
(* (converter.cpp:52-66, exiftool_daemon.cpp:202-230, worker.cpp:100-114). *)
THEOREM ChildrenAreReaped == Spec => []NoChildLeft
<1>1. IInv => NoChildLeft
  BY DEF IInv, Reaped
<1> QED
  BY <1>1, InvHolds, PTL

=============================================================================
