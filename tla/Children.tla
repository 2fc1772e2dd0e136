------------------------------ MODULE Children ------------------------------
(***************************************************************************)
(* The processes rawimportd starts: one exiftool that all workers share    *)
(* and that answers over a pair of pipes (src/exiftool_daemon.cpp), and    *)
(* one converter per worker, under a deadline (src/converter.cpp).  The    *)
(* Worker starts the first with itself and stops it when its threads have  *)
(* ended (src/worker.cpp).                                                 *)
(*                                                                         *)
(* A child that has ended stays until someone waits for it.  A write to a  *)
(* pipe nobody reads is taken to fail with EPIPE: libmariadb, which the    *)
(* process has used by then, ignores SIGPIPE.                              *)
(***************************************************************************)
EXTENDS Naturals, Sequences, FiniteSets

CONSTANTS
  Files,     \* RAW files
  Dated,     \* those with a DateTimeOriginal
  Workers,   \* the converter threads
  Enabled,   \* cfg.exiftool_daemon
  Timeout,   \* of run_timed, in ticks of the clock
  Faults,    \* what may go wrong
  MaxFaults  \* bound: how often

Main    == "main"
Mtime   == "mtime"     \* exif_from_mtime
Nothing == "nothing"   \* no file, date or thread
Ver == "ver"
Quit == "quit"
Ready == "{ready}"
Other == "other"

FaultNames == {"fork", "die", "tool"}

ASSUME ChildrenAssumption ==
  /\ Dated \subseteq Files /\ Enabled \in BOOLEAN /\ Faults \subseteq FaultNames
  /\ Timeout \in Nat /\ MaxFaults \in Nat
  /\ Files \cap {Mtime, Nothing, Ver, Quit, Ready, Other} = {}
  /\ Workers \cap {Main, Nothing} = {}

VARIABLES
  exiftool,  \* the child: "none", "alive" or "ended", not waited for yet
  input,     \* the pipe to it
  output,    \* the pipe from it
  inOpen,    \* stdin_fd_ is open
  running,   \* running_
  holder,    \* who holds mutex_
  reply,     \* the lines a thread has read so far
  present,   \* Worker has an exif_daemon_
  pc,        \* where each thread is
  file,      \* the file a worker is at
  queue,     \* files nobody has taken yet
  stop,      \* Worker::stop_
  tool,      \* the converter of a worker: "none", "alive", or how it ended
  left,      \* ticks to its deadline
  dng,       \* what it has written: "none", "part", "whole"
  date,      \* ExifResult: Mtime, or the file whose tag it is
  result,    \* what Convert returned
  faults     \* history: faults so far

pipes    == <<input, output, inOpen>>
daemon   == <<running, holder, reply, present>>
tools    == <<tool, left, dng>>
results  == <<date, result>>
work     == <<file, queue, stop>>
vars     == <<exiftool, pipes, daemon, pc, work, tools, results, faults>>

Threads == Workers \cup {Main}

Fails(f) == f \in Faults /\ faults < MaxFaults /\ faults' = faults + 1
NoFault  == UNCHANGED faults

Goto(t, label) == pc' = [pc EXCEPT ![t] = label]

Init ==
  /\ exiftool = "none" /\ input = << >> /\ output = << >> /\ inOpen = FALSE
  /\ running = FALSE /\ holder = Nothing /\ reply = [t \in Threads |-> << >>]
  /\ present = Enabled
  /\ pc = [t \in Threads |-> IF t # Main THEN "unborn"
                             ELSE IF Enabled THEN "start" ELSE "begin"]
  /\ file = [w \in Workers |-> Nothing] /\ queue = Files /\ stop = FALSE
  /\ tool = [w \in Workers |-> "none"] /\ left = [w \in Workers |-> 0]
  /\ dng = [f \in Files |-> "none"]
  /\ date = [f \in Files |-> Nothing] /\ result = [f \in Files |-> "none"]
  /\ faults = 0

-----------------------------------------------------------------------------
(* exiftool -stay_open True -@ -                                           *)

Lines(request) ==
  IF request = Ver THEN <<Other, Ready>>
  ELSE IF request \in Dated THEN <<request, Other, Ready>> ELSE <<Other, Ready>>

Answer ==
  /\ exiftool = "alive" /\ input # << >>
  /\ input' = Tail(input)
  /\ IF Head(input) = Quit
       THEN exiftool' = "ended" /\ UNCHANGED output
       ELSE output' = output \o Lines(Head(input)) /\ UNCHANGED exiftool
  /\ UNCHANGED <<inOpen, daemon, pc, work, tools, results, faults>>

(* It cannot be executed, or dies, perhaps in the middle of an answer.     *)
Die ==
  /\ exiftool = "alive" /\ Fails("die")
  /\ exiftool' = "ended"
  /\ output' \in {output} \cup
       IF input = << >> \/ Head(input) = Quit THEN {}
       ELSE {output \o SubSeq(Lines(Head(input)), 1, n) : n \in 1..2}
  /\ UNCHANGED <<input, inOpen, daemon, pc, work, tools, results>>

-----------------------------------------------------------------------------
(* ExifToolDaemon::send_command: the mutex covers the writing of the       *)
(* command and the reading of the whole answer.                            *)

Request(t) == IF t = Main THEN Ver ELSE file[t]

Unlocked(t) == TRUE                                               \* a mutant's
LockFree(t) == holder = Nothing

(* What start makes of the answer to "-ver", and extract_date of its own:  *)
(* the date in it, else the file's mtime.                                  *)
Got(lines) ==
  IF \E n \in 1..Len(lines) : lines[n] \in Files
    THEN lines[CHOOSE n \in 1..Len(lines) : lines[n] \in Files]
    ELSE Mtime

GotDate(w, lines) == date' = [date EXCEPT ![file[w]] = Got(lines)]

Returns(t, lines) ==
  /\ reply' = [reply EXCEPT ![t] = << >>]
  /\ IF t = Main
       THEN Goto(t, IF lines = << >> THEN "giveup" ELSE "begin") /\ UNCHANGED date
       ELSE Goto(t, "convert") /\ GotDate(t, lines)

(* Under the lock a daemon that is not running answers nothing; nor does   *)
(* one that cannot be written to, which is disabled.                       *)
Write(t) ==
  /\ pc[t] = "send" /\ LockFree(t)
  /\ IF running /\ exiftool = "alive"
       THEN /\ input' = Append(input, Request(t)) /\ holder' = t /\ Goto(t, "read")
            /\ UNCHANGED <<running, reply, date>>
       ELSE running' = FALSE /\ Returns(t, << >>) /\ UNCHANGED <<input, holder>>
  /\ UNCHANGED <<exiftool, output, inOpen, present, work, tools, result, faults>>

(* One line; with the sentinel the answer is complete, and the end of the  *)
(* stream before it disables the daemon.                                   *)
EndUnseen == FALSE                                                \* a mutant's
EndOfFile == output = << >> /\ exiftool = "ended"

Read(t) ==
  /\ pc[t] = "read"
  /\ \/ /\ output # << >> /\ output' = Tail(output) /\ UNCHANGED running
        /\ IF Head(output) = Ready
             THEN holder' = Nothing /\ Returns(t, reply[t])
             ELSE /\ reply' = [reply EXCEPT ![t] = Append(@, Head(output))]
                  /\ UNCHANGED <<holder, pc, date>>
     \/ /\ EndOfFile /\ running' = FALSE /\ holder' = Nothing
        /\ Returns(t, << >>) /\ UNCHANGED output
  /\ UNCHANGED <<exiftool, input, inOpen, present, work, tools, result, faults>>

-----------------------------------------------------------------------------
(* The Worker: its constructor, Start and Stop, on the main thread.        *)

(* ExifToolDaemon::start.  exiftool says nothing of its own accord, and    *)
(* send_command refuses a daemon that is not marked running.               *)
MarkedLater   == FALSE                                            \* a mutant's
MarkedRunning == TRUE
AwaitGreeting == "read"                                           \* a mutant's
FirstSend     == "send"

StartDaemon ==
  /\ pc[Main] = "start"
  /\ \/ /\ NoFault /\ exiftool' = "alive" /\ inOpen' = TRUE /\ running' = MarkedRunning
        /\ Goto(Main, FirstSend) /\ UNCHANGED present
     \/ /\ Fails("fork") /\ Goto(Main, "begin") /\ present' = FALSE
        /\ UNCHANGED <<exiftool, inOpen, running>>
  /\ UNCHANGED <<input, output, holder, reply, work, tools, results>>

(* ExifToolDaemon::stop, after a failed test or after the last worker: the *)
(* pipes are closed, then the child is waited for.                         *)
WaitNext(label) == IF label = "quit" THEN "reap" ELSE "bury"

StopDaemon(label) ==
  /\ pc[Main] = label /\ label \in {"quit", "giveup"}
  /\ input' = Append(input, Quit) /\ inOpen' = FALSE /\ output' = << >>
  /\ Goto(Main, WaitNext(label))
  /\ UNCHANGED <<exiftool, daemon, work, tools, results, faults>>

Reap(label) ==
  /\ pc[Main] = label /\ label \in {"reap", "bury"}
  /\ exiftool = "ended" /\ exiftool' = "none"
  /\ input' = << >> /\ running' = FALSE /\ present' = FALSE
  /\ Goto(Main, IF label = "reap" THEN "done" ELSE "begin")
  /\ UNCHANGED <<output, inOpen, holder, reply, work, tools, results, faults>>

Begin ==
  /\ pc[Main] = "begin"
  /\ pc' = [t \in Threads |-> IF t = Main THEN "run" ELSE "idle"]
  /\ UNCHANGED <<exiftool, pipes, daemon, work, tools, results, faults>>

Signal ==
  /\ pc[Main] = "run" /\ stop' = TRUE /\ Goto(Main, "join")
  /\ UNCHANGED <<exiftool, pipes, daemon, file, queue, tools, results, faults>>

Joined == \A w \in Workers : pc[w] = "exited"

Join ==
  /\ pc[Main] = "join" /\ Joined
  /\ Goto(Main, IF present THEN "quit" ELSE "done")
  /\ UNCHANGED <<exiftool, pipes, daemon, work, tools, results, faults>>

MainStep == StartDaemon \/ Begin \/ Join \/ Write(Main) \/ Read(Main)
            \/ \E l \in {"quit", "giveup", "reap", "bury"} : StopDaemon(l) \/ Reap(l)

-----------------------------------------------------------------------------
(* A worker with a file: the date, then the conversion.                    *)

Take(w) ==
  /\ pc[w] = "idle"
  /\ \/ ~stop /\ \E f \in queue : /\ file' = [file EXCEPT ![w] = f]
                                  /\ queue' = queue \ {f} /\ Goto(w, "date")
     \/ stop /\ Goto(w, "exited") /\ UNCHANGED <<file, queue>>
  /\ UNCHANGED <<exiftool, pipes, daemon, stop, tools, results, faults>>

(* extract_date looks at running_ without the lock.                        *)
ExtractDate(w) ==
  /\ pc[w] = "date"
  /\ IF present /\ running
       THEN Goto(w, "send") /\ UNCHANGED date
       ELSE Goto(w, "convert") /\ GotDate(w, << >>)
  /\ UNCHANGED <<exiftool, pipes, daemon, work, tools, result, faults>>

ConvertReturns(w, outcome) ==
  /\ result' = [result EXCEPT ![file[w]] = outcome]
  /\ file' = [file EXCEPT ![w] = Nothing] /\ Goto(w, "idle")

(* run_timed: a shell that becomes the converter, asked every 50 ms.       *)
Spawn(w) ==
  /\ pc[w] = "convert"
  /\ \/ /\ NoFault /\ tool' = [tool EXCEPT ![w] = "alive"]
        /\ left' = [left EXCEPT ![w] = Timeout] /\ Goto(w, "poll")
        /\ UNCHANGED <<file, result>>
     \/ Fails("fork") /\ ConvertReturns(w, "failed") /\ UNCHANGED <<tool, left>>
  /\ UNCHANGED <<exiftool, pipes, daemon, queue, stop, dng, date>>

AnyEnd(ending)  == "converted"                                    \* a mutant's
Outcome(ending) == IF ending = "exit 0" THEN "converted" ELSE "failed"
NotDue(w) == FALSE                                                \* a mutant's
Due(w)    == left[w] = 0

Poll(w) ==
  /\ pc[w] = "poll"
  /\ IF tool[w] # "alive"
       THEN ConvertReturns(w, Outcome(tool[w])) /\ tool' = [tool EXCEPT ![w] = "none"]
       ELSE Due(w) /\ Goto(w, "kill") /\ UNCHANGED <<file, result, tool>>
  /\ UNCHANGED <<exiftool, pipes, daemon, queue, stop, left, dng, date, faults>>

(* SIGKILL and waitpid; the converter may just have ended by itself.       *)
Abandoned(w) == tool                                              \* a mutant's
Killed(w)    == [tool EXCEPT ![w] = "none"]

Kill(w) ==
  /\ pc[w] = "kill"
  /\ tool' = Killed(w) /\ ConvertReturns(w, "failed")
  /\ UNCHANGED <<exiftool, pipes, daemon, queue, stop, left, dng, date, faults>>

Work(w) == Take(w) \/ ExtractDate(w) \/ Write(w) \/ Read(w) \/ Spawn(w) \/ Poll(w) \/ Kill(w)

(* dnglab: writes, and ends well or not, or not at all.                    *)
Convert(w) ==
  /\ tool[w] = "alive" /\ pc[w] \in {"poll", "kill"}
  /\ LET f == file[w] IN
       \/ /\ dng[f] = "none" /\ dng' = [dng EXCEPT ![f] = "part"]
          /\ NoFault /\ UNCHANGED tool
       \/ /\ dng[f] = "part" /\ dng' = [dng EXCEPT ![f] = "whole"]
          /\ NoFault /\ tool' = [tool EXCEPT ![w] = "exit 0"]
       \/ Fails("tool") /\ tool' = [tool EXCEPT ![w] = "exit 1"] /\ UNCHANGED dng
  /\ UNCHANGED <<exiftool, pipes, daemon, pc, work, left, results>>

Tick ==
  /\ \E w \in Workers : left[w] > 0
  /\ left' = [w \in Workers |-> IF left[w] > 0 THEN left[w] - 1 ELSE 0]
  /\ UNCHANGED <<exiftool, pipes, daemon, pc, work, tool, dng, results, faults>>

Next == Answer \/ Die \/ MainStep \/ Signal \/ Tick
        \/ \E w \in Workers : Work(w) \/ Convert(w)

Spec == Init /\ [][Next]_vars

(* The scheduler runs every thread, time passes, and exiftool answers what *)
(* it is asked unless it dies; the converter need not end, and no one has  *)
(* to send a signal.                                                       *)
Fairness == WF_vars(MainStep) /\ WF_vars(Answer) /\ WF_vars(Tick)
            /\ \A w \in Workers : WF_vars(Work(w))

FairSpec == Spec /\ Fairness

-----------------------------------------------------------------------------
(* Properties.                                                             *)

MainLabels   == {"start", "send", "read", "giveup", "bury", "begin", "run", "join",
                 "quit", "reap", "done"}
WorkerLabels == {"unborn", "idle", "date", "send", "read", "convert", "poll", "kill",
                 "exited"}

PipesOK ==
  /\ exiftool \in {"none", "alive", "ended"}
  /\ input \in Seq(Files \cup {Ver, Quit}) /\ output \in Seq(Files \cup {Other, Ready})

FlagsOK == inOpen \in BOOLEAN /\ running \in BOOLEAN /\ present \in BOOLEAN /\ stop \in BOOLEAN

ThreadsOK ==
  /\ pc \in [Threads -> MainLabels \cup WorkerLabels]
  /\ pc[Main] \in MainLabels /\ \A w \in Workers : pc[w] \in WorkerLabels
  /\ holder \in Threads \cup {Nothing}
  /\ \A t \in Threads : pc[t] = "read" <=> holder = t
  /\ reply \in [Threads -> Seq(Files \cup {Other})]

WorkOK ==
  /\ file \in [Workers -> Files \cup {Nothing}] /\ queue \subseteq Files
  /\ tool \in [Workers -> {"none", "alive", "exit 0", "exit 1"}]
  /\ left \in [Workers -> 0..Timeout] /\ dng \in [Files -> {"none", "part", "whole"}]
  /\ date \in [Files -> Files \cup {Mtime, Nothing}]
  /\ result \in [Files -> {"none", "converted", "failed"}] /\ faults \in 0..MaxFaults

(* Every variable keeps its type, and the mutex is held by the thread that *)
(* reads (exiftool_daemon.h:44-51, worker.cpp:100-114).                    *)
TypeOK == PipesOK /\ FlagsOK /\ ThreadsOK /\ WorkOK

(* A photo's capture date is its own, or its mtime, never that of another  *)
(* file a worker asks about at the same time, nor what is left of an       *)
(* answer that was cut short (exiftool_daemon.cpp:107-140, 142-200).       *)
OwnDate == \A f \in Files : date[f] \in {Nothing, Mtime, f}

(* As long as nothing fails no photo with a date falls back to its mtime   *)
(* (exiftool_daemon.cpp:84-101 "made the test always fail and the daemon   *)
(* silently never start").                                                 *)
NoNeedlessFallback ==
  Enabled /\ faults = 0 => \A f \in Dated : date[f] # Mtime

(* A conversion that is reported to have worked has left a whole DNG       *)
(* (converter.cpp:52-66, 125-136).                                         *)
ConvertedIsWhole == \A f \in Files : result[f] = "converted" => dng[f] = "whole"

(* No child outlives the call that started it, and none the process, alive *)
(* or unwaited for (converter.cpp:52-66, exiftool_daemon.cpp:202-230,      *)
(* worker.cpp:100-114).                                                    *)
NoChildLeft ==
  /\ \A w \in Workers : pc[w] \notin {"poll", "kill"} => tool[w] = "none"
  /\ pc[Main] = "done" => exiftool = "none"
  /\ ~present /\ pc[Main] \in {"run", "join"} => exiftool = "none"

(* The Worker comes up, with the daemon or without                         *)
(* (exiftool_daemon.cpp:84-87 "deadlocked Worker startup").                *)
ComesUp == <>(pc[Main] = "run")

(* Every file a worker takes is finished, though the daemon may die while  *)
(* other workers wait for it and the converter may hang.                   *)
FileFinished == \A w \in Workers : file[w] # Nothing ~> file[w] = Nothing

(* After a signal the Worker stops (worker.cpp:100-114).                   *)
WorkerStops == stop ~> pc[Main] = "done"

=============================================================================
