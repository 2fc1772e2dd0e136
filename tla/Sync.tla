-------------------------------- MODULE Sync --------------------------------
(***************************************************************************)
(* What happens to a DNG after its import: the HTTP thread of src/api.cpp  *)
(* takes the callbacks of the darktable plugin, the thread of              *)
(* src/rotation.cpp writes the orientation a burst of rotations ends with, *)
(* and the main thread stops both (src/main.cpp).  All three share one     *)
(* database connection; the plugin rewrites the same DNGs from outside.    *)
(*                                                                         *)
(* A thread at a label is in the call the label names: "find" is in        *)
(* GetImportBySourcePath, "write" in exiftool; the step out of the label   *)
(* is that call's effect.                                                  *)
(***************************************************************************)
EXTENDS Naturals, Sequences, FiniteSets, Functions

CONSTANTS
  Imports,     \* ids of imported photos
  Rotated,     \* those the plugin rotates
  Embedded,    \* those whose preview the plugin renews
  Strict,      \* the server's sql_mode has STRICT_TRANS_TABLES, its default
  Grace,       \* grace_ms, in ticks of the clock
  Faults,      \* which calls may fail
  MaxIntents,  \* bound: rotations the plugin asks for
  MaxEmbeds,   \* bound: previews the plugin embeds
  MaxBacklog,  \* bound: requests that wait to be accepted
  MaxFaults    \* bound: how many of these faults happen

FaultNames == {"db", "race", "exiftool", "hash", "notify"}

ASSUME SyncAssumption ==
  /\ Rotated \subseteq Imports /\ Embedded \subseteq Imports /\ Strict \in BOOLEAN
  /\ Grace \in Nat \ {0} /\ MaxIntents \in Nat /\ MaxEmbeds \in Nat
  /\ MaxBacklog \in Nat /\ MaxFaults \in Nat /\ Faults \subseteq FaultNames

VARIABLES
  dng,         \* the DNG of each import
  rows,        \* output_hash and orientation of each row of imports
  locks,       \* processing_locks; "rotation-mgr" is the only worker_id used
  edits,       \* rows of preview_edits, in order
  backlog,     \* requests on the listening socket
  req,         \* the request being handled, and what its handler has read
  apiStop,     \* ApiServer::Impl::stop
  pending,     \* RotationManager::Impl::pending: id -> orientation, time left
  timer,       \* the manager's wait_until, in ticks
  due,         \* ids the manager's pass still has to visit
  rehashed,    \* pending has been inserted into while a pass had it unlocked
  stop,        \* RotationManager::Impl::stop
  pc,          \* where each thread is
  job,         \* the rotation a thread dispatches
  plugin,      \* what the plugin is embedding
  asked, since,\* history: the last orientation queued for each import, and how
               \* many ticks ago (Grace: that long or longer)
  sent, embeds, faults   \* how many rotations, previews and faults so far

store    == <<rows, locks, edits>>
apiVars  == <<req, apiStop>>
queued   == <<asked, since>>
rotVars  == <<pending, timer, due, rehashed, stop, queued>>
userVars == <<plugin, sent, embeds>>
vars     == <<dng, store, backlog, apiVars, rotVars, pc, job, userVars, faults>>

Threads    == {"api", "manager", "main"}
Rotators   == {"manager", "main"}
(* Orientations are numbered in the order they are asked for, previews in  *)
(* the order they are embedded; 0 is what the conversion left.  SHA-256 is *)
(* taken as injective: the content stands for its hash.                    *)
Orients    == 0..MaxIntents
Content    == [orient : Orients, preview : 0..MaxEmbeds]
Fresh      == [orient |-> 0, preview |-> 0]
NoRequest  == [kind |-> "none"]
NoJob      == [kind |-> "none"]

Fails(f) == f \in Faults /\ faults < MaxFaults /\ faults' = faults + 1
NoFault  == UNCHANGED faults

InCall(t) == pc[t] \in {"get", "find", "sync", "audit", "acquire", "orient", "release"}

(* A statement fails, or another thread's call on the same connection      *)
(* spoils it.                                                              *)
DbFails(t) == \/ Fails("db")
              \/ (\E u \in Threads \ {t} : InCall(u)) /\ Fails("race")

Init ==
  /\ dng = [i \in Imports |-> Fresh]
  /\ rows = [i \in Imports |-> [hash |-> Fresh, orient |-> 0]]
  /\ locks = {} /\ edits = << >> /\ backlog = << >>
  /\ req = NoRequest /\ apiStop = FALSE
  /\ pending = << >> /\ timer = 0 /\ due = {} /\ rehashed = FALSE /\ stop = FALSE
  /\ pc = [api |-> "top", manager |-> "check", main |-> "run"]
  /\ job = [t \in Rotators |-> NoJob]
  /\ plugin = NoJob /\ asked = [i \in Imports |-> 0]
  /\ since = [i \in Imports |-> Grace]
  /\ sent = 0 /\ embeds = 0 /\ faults = 0

Goto(t, label) == pc' = [pc EXCEPT ![t] = label]

-----------------------------------------------------------------------------
(* Outside: the plugin, other clients of the API, and time.                *)

(* The kernel takes connections as long as a thread is in accept or may    *)
(* come back to it.                                                        *)
Connect(r) == pc["api"] # "exited" /\ backlog' = Append(backlog, r)

Get ==
  /\ Len(backlog) < MaxBacklog /\ Connect([kind |-> "get"])
  /\ UNCHANGED <<dng, store, apiVars, rotVars, pc, job, userVars, faults>>

Rotate(i) ==
  /\ i \in Rotated /\ sent < MaxIntents /\ Len(backlog) < MaxBacklog
  /\ Connect([kind |-> "rotate", id |-> i, orient |-> sent + 1])
  /\ sent' = sent + 1
  /\ UNCHANGED <<dng, store, apiVars, rotVars, pc, job, plugin, embeds, faults>>

(* The embedding tool reads the DNG, writes it anew with the preview, and  *)
(* the plugin posts that it did; the post may not come through.            *)
StartEmbed(i) ==
  /\ i \in Embedded /\ plugin = NoJob /\ embeds < MaxEmbeds
  /\ embeds' = embeds + 1
  /\ plugin' = [kind |-> "embed", id |-> i, held |-> dng[i]]
  /\ UNCHANGED <<dng, store, backlog, apiVars, rotVars, pc, job, sent, faults>>

FinishEmbed ==
  /\ plugin.kind = "embed"
  /\ dng' = [dng EXCEPT ![plugin.id] = [plugin.held EXCEPT !.preview = embeds]]
  /\ plugin' = [kind |-> "notify", id |-> plugin.id]
  /\ UNCHANGED <<store, backlog, apiVars, rotVars, pc, job, sent, embeds, faults>>

NotifyPreview ==
  /\ plugin.kind = "notify"
  /\ \/ /\ Len(backlog) < MaxBacklog
        /\ Connect([kind |-> "preview", id |-> plugin.id]) /\ NoFault
     \/ (Fails("notify") \/ (pc["api"] = "exited" /\ NoFault)) /\ UNCHANGED backlog
  /\ plugin' = NoJob
  /\ UNCHANGED <<dng, store, apiVars, rotVars, pc, job, sent, embeds>>

Plugin == FinishEmbed \/ NotifyPreview \/ \E i \in Imports : Rotate(i) \/ StartEmbed(i)

Less(n) == IF n = 0 THEN 0 ELSE n - 1

Tick ==
  /\ pending' = [i \in DOMAIN pending |-> [pending[i] EXCEPT !.left = Less(@)]]
  /\ timer' = Less(timer)
  /\ since' = [i \in Imports |-> IF since[i] < Grace THEN since[i] + 1 ELSE Grace]
  /\ UNCHANGED <<dng, store, backlog, apiVars, due, rehashed, stop, asked, pc, job,
                 userVars, faults>>

-----------------------------------------------------------------------------
(* The HTTP thread: one request after the other.                           *)

ApiTop ==
  /\ pc["api"] = "top"
  /\ Goto("api", IF apiStop THEN "exited" ELSE "accept")
  /\ UNCHANGED <<dng, store, backlog, apiVars, rotVars, job, userVars, faults>>

(* close(listen_fd) does not wake the thread that is in accept.            *)
Accept ==
  /\ pc["api"] = "accept" /\ backlog # << >>
  /\ backlog' = Tail(backlog) /\ req' = Head(backlog)
  /\ Goto("api", IF Head(backlog).kind = "get" THEN "get" ELSE "find")
  /\ UNCHANGED <<dng, store, apiStop, rotVars, job, userVars, faults>>

Answer == Goto("api", "top") /\ req' = NoRequest

(* GetStats, ListImports, GetImportBy...: no effect.                       *)
HandleGet ==
  /\ pc["api"] = "get" /\ Answer
  /\ UNCHANGED <<dng, store, backlog, apiStop, rotVars, job, userVars, faults>>

(* The row by source or output path; one that is not found answers 404.    *)
Find ==
  /\ pc["api"] = "find"
  /\ \/ /\ NoFault
        /\ IF req.kind = "rotate"
             THEN Goto("api", "queue") /\ UNCHANGED req
             ELSE Goto("api", "hash") /\ req' = [kind |-> "preview", id |-> req.id,
                                                 prev |-> rows[req.id].hash]
     \/ DbFails("api") /\ Answer
  /\ UNCHANGED <<dng, store, backlog, apiStop, rotVars, job, userVars>>

(* notify_all wakes a thread that waits, and no other.                     *)
NotNotified(label) == label                                       \* a mutant's
Notified(label)    == IF label = "wait" THEN "check" ELSE label

(* RotationManager::Queue, under the mutex: the intent replaces an earlier *)
(* one and its grace starts anew.                                          *)
FirstIntent(i, o) == IF i \in DOMAIN pending THEN pending[i].orient ELSE o  \* a mutant's
LastIntent(i, o)  == o
FirstGrace(i) == IF i \in DOMAIN pending THEN pending[i].left ELSE Grace    \* a mutant's
LongGrace(i)  == Grace + 1                                        \* a mutant's
FullGrace(i)  == Grace

Queue ==
  /\ pc["api"] = "queue" /\ pc["manager"] # "doze"
  /\ LET i == req.id
         intent == [orient |-> LastIntent(i, req.orient), left |-> FullGrace(i)]
     IN /\ pending' = [k \in DOMAIN pending \cup {i} |->
                         IF k = i THEN intent ELSE pending[k]]
        /\ asked' = [asked EXCEPT ![i] = req.orient] /\ since' = [since EXCEPT ![i] = 0]
        /\ due' = due \ {i}
        /\ rehashed' = (rehashed \/ i \notin DOMAIN pending)
  /\ pc' = [pc EXCEPT !["api"] = "top",
                      !["manager"] = Notified(@)]
  /\ req' = NoRequest
  /\ UNCHANGED <<dng, store, backlog, apiStop, timer, stop, job, userVars, faults>>

(* sha256_file of the DNG; 500 if it cannot be read.                       *)
HashDng ==
  /\ pc["api"] = "hash"
  /\ \/ NoFault /\ Goto("api", "sync")
        /\ req' = [kind |-> "preview", id |-> req.id, prev |-> req.prev,
                   new |-> dng[req.id]]
     \/ Fails("hash") /\ Answer
  /\ UNCHANGED <<dng, store, backlog, apiStop, rotVars, job, userVars>>

(* UpdateOutputHash, then RecordPreviewEdit; neither result is looked at.  *)
HashDropped(r) == rows                                            \* a mutant's
HashStored(r)  == [rows EXCEPT ![r.id].hash = r.new]

UpdateHash ==
  /\ pc["api"] = "sync"
  /\ \/ rows' = HashStored(req) /\ NoFault
     \/ UNCHANGED rows /\ DbFails("api")
  /\ Goto("api", "audit")
  /\ UNCHANGED <<dng, locks, edits, backlog, apiVars, rotVars, job, userVars>>

RowNow(r)   == rows[r.id].hash                                    \* a mutant's
RowFound(r) == r.prev

(* The worker is given as "api-preview-updated", 19 characters for a       *)
(* VARCHAR(16): a strict server rejects the row, another one cuts it.      *)
WorkerFits == ~Strict

RecordEdit ==
  /\ pc["api"] = "audit"
  /\ \/ /\ WorkerFits /\ NoFault
        /\ edits' = Append(edits, [id |-> req.id, prev |-> RowFound(req), new |-> req.new])
     \/ UNCHANGED edits /\ IF WorkerFits THEN DbFails("api") ELSE NoFault
  /\ Answer
  /\ UNCHANGED <<dng, rows, locks, backlog, apiStop, rotVars, job, userVars>>

Api == ApiTop \/ Accept \/ HandleGet \/ Find \/ Queue \/ HashDng \/ UpdateHash \/ RecordEdit

-----------------------------------------------------------------------------
(* A rotation is dispatched: by the manager's pass, or by Stop.            *)

Dispatch(t, i) ==
  /\ job' = [job EXCEPT ![t] = [kind |-> "rotate", id |-> i, orient |-> pending[i].orient]]
  /\ pending' = Restrict(pending, DOMAIN pending \ {i})
  /\ Goto(t, "acquire")

Return(t) == /\ Goto(t, IF t = "manager" THEN "pass" ELSE "drain")
             /\ job' = [job EXCEPT ![t] = NoJob]

(* AcquireLock: a row of another worker_id would refuse it, but there is   *)
(* only one; a failed statement drops the rotation.                        *)
AcquireLock(t) ==
  /\ pc[t] = "acquire"
  /\ \/ locks' = locks \cup {job[t].id} /\ NoFault /\ Goto(t, "read") /\ UNCHANGED job
     \/ DbFails(t) /\ Return(t) /\ UNCHANGED locks
  /\ UNCHANGED <<dng, rows, edits, backlog, apiVars, rotVars, userVars>>

(* exiftool reads the DNG and writes it in place; if it fails, the manager *)
(* leaves the row alone, but Stop does not look at the result.             *)
ReadDng(t) ==
  /\ pc[t] = "read"
  /\ \/ /\ NoFault /\ Goto(t, "write")
        /\ job' = [job EXCEPT ![t] = [kind |-> "rotate", id |-> @.id, orient |-> @.orient,
                                      held |-> dng[@.id]]]
     \/ /\ Fails("exiftool") /\ UNCHANGED job
        /\ Goto(t, IF t = "manager" THEN "release" ELSE "orient")
  /\ UNCHANGED <<dng, store, backlog, apiVars, rotVars, userVars>>

WriteDng(t) ==
  /\ pc[t] = "write"
  /\ dng' = [dng EXCEPT ![job[t].id] = [job[t].held EXCEPT !.orient = job[t].orient]]
  /\ Goto(t, "orient")
  /\ UNCHANGED <<store, backlog, apiVars, rotVars, job, userVars, faults>>

NoRowWrite(t) == rows                                             \* a mutant's
RowWrite(t)   == [rows EXCEPT ![job[t].id].orient = job[t].orient]

UpdateOrientation(t) ==
  /\ pc[t] = "orient"
  /\ \/ rows' = RowWrite(t) /\ NoFault
     \/ UNCHANGED rows /\ DbFails(t)
  /\ Goto(t, "release")
  /\ UNCHANGED <<dng, locks, edits, backlog, apiVars, rotVars, job, userVars>>

ReleaseLock(t) ==
  /\ pc[t] = "release"
  /\ \/ locks' = locks \ {job[t].id} /\ NoFault
     \/ UNCHANGED locks /\ DbFails(t)
  /\ Return(t)
  /\ UNCHANGED <<dng, rows, edits, backlog, apiVars, rotVars, userVars>>

Rotation(t) == AcquireLock(t) \/ ReadDng(t) \/ WriteDng(t) \/ UpdateOrientation(t)
               \/ ReleaseLock(t)

-----------------------------------------------------------------------------
(* The manager's thread.                                                   *)

Soonest == {n \in {pending[i].left : i \in DOMAIN pending} :
              \A i \in DOMAIN pending : n <= pending[i].left}

(* The loop's head.  With nothing pending it holds the mutex from the test *)
(* of the predicate until it is blocked in cv.wait.                        *)
Check ==
  /\ pc["manager"] = "check"
  /\ IF stop THEN Goto("manager", "exited") /\ UNCHANGED timer
     ELSE IF pending = << >> THEN Goto("manager", "doze") /\ UNCHANGED timer
     ELSE Goto("manager", "grace") /\ timer' \in Soonest
  /\ UNCHANGED <<dng, store, backlog, apiVars, pending, due, rehashed, stop, queued, job,
                 userVars, faults>>

Block ==
  /\ pc["manager"] = "doze" /\ Goto("manager", "wait")
  /\ UNCHANGED <<dng, store, backlog, apiVars, rotVars, job, userVars, faults>>

(* wait_until ends at the deadline it was given, or when stopped.          *)
DueNow == {i \in DOMAIN pending : pending[i].left = 0}

Wake ==
  /\ pc["manager"] = "grace" /\ (timer = 0 \/ stop)
  /\ due' = DueNow /\ rehashed' = FALSE
  /\ Goto("manager", "pass")
  /\ UNCHANGED <<dng, store, backlog, apiVars, pending, timer, stop, queued, job,
                 userVars, faults>>

(* The next due entry.  An insertion while the mutex was released may have *)
(* rehashed the map under the iterator: the pass may then end early.       *)
NextDue ==
  /\ pc["manager"] = "pass"
  /\ \/ \E i \in due \cap DOMAIN pending : Dispatch("manager", i) /\ due' = due \ {i}
     \/ /\ due \cap DOMAIN pending = {} \/ rehashed
        /\ Goto("manager", "check") /\ due' = {} /\ UNCHANGED <<pending, job>>
  /\ UNCHANGED <<dng, store, backlog, apiVars, timer, rehashed, stop, queued, userVars,
                 faults>>

Manager == Check \/ Block \/ Wake \/ NextDue \/ Rotation("manager")

-----------------------------------------------------------------------------
(* The main thread: api.Stop(), worker.Stop(), rotation.Stop().            *)

Signal ==
  /\ pc["main"] = "run" /\ Goto("main", "stopApi")
  /\ UNCHANGED <<dng, store, backlog, apiVars, rotVars, job, userVars, faults>>

StopApi ==
  /\ pc["main"] = "stopApi"
  /\ apiStop' = TRUE /\ Goto("main", "joinApi")
  /\ UNCHANGED <<dng, store, backlog, req, rotVars, job, userVars, faults>>

JoinAtOnce(t) == TRUE                                             \* a mutant's
Joined(t) == pc[t] = "exited"

(* The accept thread has ended.  (worker.Stop touches nothing here.)  The  *)
(* flag is set and the manager notified without the mutex.                 *)
StopRotation ==
  /\ pc["main"] = "joinApi" /\ Joined("api")
  /\ stop' = TRUE
  /\ pc' = [pc EXCEPT !["main"] = "joinManager",
                      !["manager"] = Notified(@)]
  /\ UNCHANGED <<dng, store, backlog, apiVars, pending, timer, due, rehashed, queued, job,
                 userVars, faults>>

JoinManager ==
  /\ pc["main"] = "joinManager" /\ Joined("manager") /\ Goto("main", "drain")
  /\ UNCHANGED <<dng, store, backlog, apiVars, rotVars, job, userVars, faults>>

(* What is left is dispatched without regard to the grace.                 *)
Drain ==
  /\ pc["main"] = "drain"
  /\ IF pending = << >> THEN Goto("main", "done") /\ UNCHANGED <<pending, job>>
     ELSE \E i \in DOMAIN pending : Dispatch("main", i)
  /\ UNCHANGED <<dng, store, backlog, apiVars, timer, due, rehashed, stop, queued,
                 userVars, faults>>

Main == StopApi \/ StopRotation \/ JoinManager \/ Drain \/ Rotation("main")

Next == Plugin \/ Get \/ Tick \/ Signal \/ Api \/ Manager \/ Main

Spec == Init /\ [][Next]_vars

(* The scheduler runs every thread and time passes; no one has to call the *)
(* API or to send a signal.                                                *)
Fairness == WF_vars(Tick) /\ WF_vars(Api) /\ WF_vars(Manager) /\ WF_vars(Main)

FairSpec == Spec /\ Fairness

-----------------------------------------------------------------------------
(* Properties.                                                             *)

Requests == [kind : {"get"}] \cup [kind : {"preview"}, id : Imports]
            \cup [kind : {"rotate"}, id : Imports, orient : Orients]

Jobs == {NoJob} \cup [kind : {"rotate"}, id : Imports, orient : Orients]
        \cup [kind : {"rotate"}, id : Imports, orient : Orients, held : Content]

ApiLabels == {"top", "accept", "get", "find", "queue", "hash", "sync", "audit", "exited"}
RotationLabels == {"acquire", "read", "write", "orient", "release"}
ManagerLabels == RotationLabels \cup {"check", "doze", "wait", "grace", "pass", "exited"}
MainLabels == RotationLabels
              \cup {"run", "stopApi", "joinApi", "joinManager", "drain", "done"}

(* Every variable keeps its type, and a thread has a job exactly while it  *)
(* dispatches (rotation.cpp:15-25 and 82-121).                             *)
TypeOK ==
  /\ dng \in [Imports -> Content]
  /\ rows \in [Imports -> [hash : Content, orient : Orients]]
  /\ locks \subseteq Imports
  /\ edits \in Seq([id : Imports, prev : Content, new : Content])
  /\ backlog \in Seq(Requests) /\ Len(backlog) <= MaxBacklog
  /\ apiStop \in BOOLEAN /\ stop \in BOOLEAN /\ rehashed \in BOOLEAN
  /\ DOMAIN pending \subseteq Imports
  /\ pending \in [DOMAIN pending -> [orient : Orients, left : 0..Grace]]
  /\ timer \in 0..Grace /\ due \subseteq DOMAIN pending
  /\ pc["api"] \in ApiLabels /\ pc["manager"] \in ManagerLabels /\ pc["main"] \in MainLabels
  /\ job \in [Rotators -> Jobs]
  /\ \A t \in Rotators : job[t] = NoJob <=> pc[t] \notin RotationLabels
  /\ asked \in [Imports -> Orients] /\ since \in [Imports -> 0..Grace]
  /\ sent \in 0..MaxIntents /\ embeds \in 0..MaxEmbeds /\ faults \in 0..MaxFaults

Dispatching(i) == \E t \in Rotators : job[t] # NoJob /\ job[t].id = i
Quiet(i) == i \notin DOMAIN pending /\ ~Dispatching(i)

(* When nothing is pending for an import, its DNG has the orientation of   *)
(* the last intent that was queued for it, although intents replace each   *)
(* other, arrive during the dispatch of an earlier one, and are finished   *)
(* by Stop (rotation.cpp:47-60, 67-80, 123-147).                           *)
LastIntentWins == \A i \in Imports : Quiet(i) => dng[i].orient = asked[i]

(* "EXIF Orientation 1-8 agreed across apps" (0001_init.sql:34): when      *)
(* nothing is pending, the row says what the DNG says.                     *)
OrientationAgreed == \A i \in Imports : Quiet(i) => dng[i].orient = rows[i].orient

(* An older intent is never written over a newer one (rotation.cpp:47-60   *)
(* and 123-147): the manager and Stop do not overtake each other.          *)
WrittenInOrder == [][\A i \in Imports : dng'[i].orient >= dng[i].orient]_vars

(* What the manager and Stop do together, seen as one coalescing queue for *)
(* some of the photos: an intent is in hand from its dispatch until the    *)
(* call that is to make it show.                                           *)
Waits(photos) == [i \in photos |-> IF i \in DOMAIN pending THEN pending[i].orient ELSE 0]
Last(photos)  == [i \in photos |-> asked[i]]

InHandOf(t, photos, labels) == pc[t] \in labels /\ job[t].id \in photos

Hand(photos, labels) ==
  LET intent(t) == [id |-> job[t].id, intent |-> job[t].orient] IN
    IF InHandOf("manager", photos, labels) THEN intent("manager")
    ELSE IF InHandOf("main", photos, labels) THEN intent("main")
    ELSE [id |-> 0, intent |-> 0]

Lossy == Faults \cap {"db", "race", "exiftool"} # {}

InRow == INSTANCE Coalescer WITH
  Images <- Imports, Intents <- Orients \ {0},
  slot <- Waits(Imports), last <- Last(Imports),
  hand <- Hand(Imports, {"acquire", "read", "write", "orient"}),
  result <- [i \in Imports |-> rows[i].orient]

Steady == Imports \ Embedded

OnFile == INSTANCE Coalescer WITH
  Images <- Steady, Intents <- Orients \ {0},
  slot <- Waits(Steady), last <- Last(Steady),
  hand <- Hand(Steady, {"acquire", "read", "write"}),
  result <- [i \in Steady |-> dng[i].orient]

(* The row goes through the intents as a coalescing queue would have it,   *)
(* whatever fails and whoever else writes the DNG (rotation.cpp:33-121 and *)
(* 123-147; rotation.h:14-15 "coalesces spammy rotation intents",          *)
(* "dispatches exactly one job").                                          *)
RowsCoalesce == InRow!Spec

(* So does the DNG, unless the plugin renews its preview as well.          *)
FilesCoalesce == OnFile!Spec

(* The manager dispatches an intent only when a whole grace has passed     *)
(* since the last one for that import (rotation.h:21 "Resets the grace     *)
(* timer for that import").                                                *)
GraceKept ==
  [][\A i \in DOMAIN pending : i \notin DOMAIN pending' /\ pc["manager"] = "pass"
       /\ pc'["manager"] = "acquire" => since[i] = Grace]_vars

(* No lock outlives the dispatch it was taken for (rotation.cpp:83-120),   *)
(* and nothing is left behind when the process ends (rotation.cpp:127).    *)
NothingLeftBehind ==
  /\ \A i \in locks : Dispatching(i)
  /\ pc["main"] = "done" => pending = << >>

(* Nobody tells of an embed of this import any more, and nothing rotates.  *)
Told(i) == /\ plugin = NoJob \/ plugin.id # i
           /\ req.kind # "preview" \/ req.id # i
           /\ \A k \in 1..Len(backlog) : backlog[k].kind # "preview" \/ backlog[k].id # i
Settled(i) == Quiet(i) /\ Told(i)

(* The recorded output hash is that of the DNG on disk once the plugin's   *)
(* callbacks have been handled (api.cpp:316-319, README.md:3 "syncs        *)
(* hashes"), although the DNG may be embedded again between the hash and   *)
(* the update.  A rotation leaves the hash of its DNG stale.               *)
HashIsCurrent == pc["api"] # "exited" =>
  \A i \in Imports \ Rotated : Settled(i) => rows[i].hash = dng[i]

(* preview_edits, the "Preview re-embed audit trail" (0001_init.sql:81),   *)
(* is a chain: every edit starts from the hash the one before it ended     *)
(* with, and the row has the last (api.cpp:314-320).                       *)
EndWith(i, n, hash) ==             \* what the edits of i among the first n end with
  \/ hash = Fresh /\ \A k \in 1..n : edits[k].id # i
  \/ \E k \in 1..n : /\ edits[k].id = i /\ edits[k].new = hash
                     /\ \A m \in (k + 1)..n : edits[m].id # i
AuditChain == \A i \in Imports :
  /\ \A k \in 1..Len(edits) : edits[k].id = i => EndWith(i, k - 1, edits[k].prev)
  /\ EndWith(i, Len(edits), IF pc["api"] = "audit" /\ req.id = i THEN req.prev
                            ELSE rows[i].hash)

(* An answer "synced" means the row has the hash (api.cpp:319-322).        *)
SyncedIsSynced ==
  [][pc["api"] = "audit" /\ pc'["api"] = "top" => rows[req.id].hash = req.new]_vars

(* One connection, one caller at a time (worker.cpp:206-207 "libmariadb    *)
(* connections are NOT safe for concurrent use across threads").           *)
OneCaller == \A t, u \in Threads : InCall(t) /\ InCall(u) => t = u

(* A re-embed and a rotation do not write one DNG at the same time         *)
(* (db.h:63 "serialization for reconvert/re-embed/rotation").              *)
OneWriter == plugin.kind = "embed" => ~\E t \in Rotators : pc[t] = "write" /\ job[t].id = plugin.id

(* A queued intent is dispatched, by the manager or by Stop                *)
(* (rotation.cpp:33-62 and 127-147).                                       *)
IntentServed == \A i \in Imports : i \in DOMAIN pending ~> i \notin DOMAIN pending

(* A rotation manager that is told to stop stops (rotation.h:26 "used on  *)
(* shutdown").                                                             *)
RotationStops == stop ~> pc["main"] = "done"

(* After a signal the process ends (main.cpp:69 "graceful shutdown").      *)
ShutdownEnds == pc["main"] = "stopApi" ~> pc["main"] = "done"

=============================================================================
