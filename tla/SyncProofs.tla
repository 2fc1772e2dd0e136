----------------------------- MODULE SyncProofs -----------------------------
(***************************************************************************)
(* Theorems about Sync, for any number of imports and requests, any grace, *)
(* and, where they do not say otherwise, any faults.                       *)
(***************************************************************************)
EXTENDS Sync, SequenceTheorems, TLAPS

-----------------------------------------------------------------------------
(* What the threads know at each label: the request in hand, the rotation  *)
(* being dispatched, what the plugin has read.                             *)

Rotates  == [kind : {"rotate"}, id : Rotated, orient : Orients]
Held     == [kind : {"rotate"}, id : Rotated, orient : Orients, held : Content]
Previews == [kind : {"preview"}, id : Embedded]

Waiting == [kind : {"get"}] \cup Previews \cup Rotates

PcOK ==
  /\ pc \in [Threads -> ApiLabels \cup ManagerLabels \cup MainLabels]
  /\ pc["api"] \in ApiLabels /\ pc["manager"] \in ManagerLabels /\ pc["main"] \in MainLabels

StoreOK ==
  /\ dng \in [Imports -> Content]
  /\ rows \in [Imports -> [hash : Content, orient : Orients]]
  /\ locks \subseteq Imports
  /\ edits \in Seq([id : Imports, prev : Content, new : Content])

RequestOK ==
  /\ pc["api"] \in {"top", "accept", "exited"} => req = NoRequest
  /\ pc["api"] = "get" => req = [kind |-> "get"]
  /\ pc["api"] = "find" => req \in Previews \cup Rotates
  /\ pc["api"] = "queue" => req \in Rotates
  /\ pc["api"] = "hash" => req \in [kind : {"preview"}, id : Embedded, prev : Content]
  /\ pc["api"] \in {"sync", "audit"} =>
       req \in [kind : {"preview"}, id : Embedded, prev : Content, new : Content]

ApiOK == backlog \in Seq(Waiting) /\ Len(backlog) <= MaxBacklog /\ apiStop \in BOOLEAN

PendingOK ==
  /\ DOMAIN pending \subseteq Rotated
  /\ pending \in [DOMAIN pending -> [orient : Orients, left : 0..Grace]]
  /\ timer \in 0..Grace /\ due \subseteq DOMAIN pending
  /\ pc["manager"] \notin RotationLabels \cup {"pass"} => due = {}

FlagsOK == rehashed \in BOOLEAN /\ stop \in BOOLEAN

JobOK ==
  /\ job \in [Rotators -> {NoJob} \cup Rotates \cup Held]
  /\ \A t \in Rotators : job[t] = NoJob <=> pc[t] \notin RotationLabels
  /\ \A t \in Rotators : pc[t] = "write" => job[t] \in Held

UserOK ==
  /\ plugin \in {NoJob} \cup [kind : {"embed"}, id : Embedded, held : Content]
                \cup [kind : {"notify"}, id : Embedded]
  /\ asked \in [Imports -> Orients] /\ since \in [Imports -> 0..Grace]
  /\ sent \in 0..MaxIntents /\ embeds \in 0..MaxEmbeds /\ faults \in 0..MaxFaults

(* Who has stopped when: main joins the HTTP thread before it tells the    *)
(* manager, and the manager before it dispatches what is left.             *)
Phases ==
  /\ pc["main"] \notin {"run", "stopApi", "joinApi"} => pc["api"] = "exited"
  /\ pc["main"] \notin {"run", "stopApi", "joinApi", "joinManager"} =>
       pc["manager"] = "exited"
  /\ pc["main"] = "done" => pending = << >>

TypeInv == PcOK /\ StoreOK /\ RequestOK /\ ApiOK /\ PendingOK /\ FlagsOK /\ JobOK /\ UserOK
           /\ Phases

-----------------------------------------------------------------------------
(* Rotations on their way, when no statement and no exiftool fails and no  *)
(* photo is both rotated and embedded.                                     *)

Reliable == Faults \cap {"db", "race", "exiftool"} = {} /\ Rotated \cap Embedded = {}

(* Intents come in the order they were asked for.                          *)
Coming ==
  /\ \A i \in Imports : asked[i] <= sent
  /\ req.kind = "rotate" => req.orient <= sent /\ \A i \in Imports : asked[i] < req.orient
  /\ \A k \in 1..Len(backlog) : backlog[k].kind = "rotate" =>
       /\ backlog[k].orient <= sent
       /\ \A i \in Imports : asked[i] < backlog[k].orient
       /\ req.kind = "rotate" => req.orient < backlog[k].orient
  /\ \A k, m \in 1..Len(backlog) :
       k < m /\ backlog[k].kind = "rotate" /\ backlog[m].kind = "rotate" =>
         backlog[k].orient < backlog[m].orient

(* An intent is pending, or being written, or written.                     *)
InHand(t, i) == job[t] # NoJob /\ job[t].id = i

Underway ==
  /\ \A i \in DOMAIN pending : pending[i].orient = asked[i]
  /\ \A i \in Imports : dng[i].orient <= asked[i]
  /\ \A t \in Rotators : job[t] # NoJob =>
       /\ dng[job[t].id].orient <= job[t].orient /\ job[t].orient <= asked[job[t].id]
       /\ job[t].id \notin DOMAIN pending => job[t].orient = asked[job[t].id]
  /\ \A i \in Imports : Quiet(i) => dng[i].orient = asked[i] /\ rows[i].orient = asked[i]

Written ==
  \A t \in Rotators :
    /\ pc[t] \in {"orient", "release"} => dng[job[t].id].orient = job[t].orient
    /\ pc[t] = "release" => rows[job[t].id].orient = job[t].orient

(* Photos that are not rotated keep the orientation they have.             *)
Upright ==
  /\ \A i \in Imports \ Rotated : asked[i] = 0 /\ dng[i].orient = 0
  /\ plugin.kind = "embed" => plugin.held.orient = 0

Locked == \A i \in locks : \E t \in Rotators : InHand(t, i) /\ pc[t] # "acquire"

RotationInv == Coming /\ Underway /\ Written /\ Upright

-----------------------------------------------------------------------------
(* Previews on their way, when no statement, hash or callback fails.       *)

Heard == Faults \cap {"db", "race", "hash", "notify"} = {}

(* The plugin or the backlog will tell of it yet.                          *)
Announced(i) == \/ plugin # NoJob /\ plugin.id = i
                \/ \E k \in 1..Len(backlog) : backlog[k].kind = "preview" /\ backlog[k].id = i

PreviewInv ==
  \A i \in Imports \ Rotated : pc["api"] # "exited" /\ ~Announced(i) =>
    /\ req.kind # "preview" \/ req.id # i => rows[i].hash = dng[i]
    /\ pc["api"] = "sync" /\ req.id = i => req.new = dng[i]
    /\ pc["api"] = "audit" /\ req.id = i => rows[i].hash = dng[i]

-----------------------------------------------------------------------------
(* Shapes of the records.                                                  *)

LEMMA JobShapes ==
  /\ \A j \in Rotates \cup Held : j # NoJob /\ j.kind = "rotate" /\ j.id \in Rotated
                                  /\ j.orient \in Orients
  /\ \A j \in Held : j.held \in Content
  /\ NoJob.kind = "none" /\ NoRequest.kind = "none" /\ NoJob = NoRequest
  BY DEF Rotates, Held, NoJob, NoRequest

LEMMA Numbers ==
  /\ Orients = 0..MaxIntents /\ MaxIntents \in Nat /\ MaxEmbeds \in Nat /\ Grace \in Nat
  /\ MaxBacklog \in Nat /\ MaxFaults \in Nat
  /\ Rotated \subseteq Imports /\ Embedded \subseteq Imports
  /\ Fresh \in Content /\ 0 \in Orients
  BY SyncAssumption DEF Orients, Content, Fresh

LEMMA InitTyped == Init => TypeInv
<1> SUFFICES ASSUME Init PROVE TypeInv
  OBVIOUS
<1> USE Numbers DEF Init
<1>1. PcOK
  BY DEF PcOK, Threads, ApiLabels, ManagerLabels, MainLabels, RotationLabels
<1>2. StoreOK
  BY DEF StoreOK
<1>3. RequestOK /\ Phases
  BY DEF RequestOK, Phases
<1>a. FlagsOK /\ apiStop \in BOOLEAN
  BY Zenon DEF FlagsOK
<1>b. ApiOK
  <2>1. backlog \in Seq(Waiting) /\ Len(backlog) = 0
    BY EmptySeq
  <2> QED
    BY <1>a, <2>1 DEF ApiOK
<1>4. PendingOK
  BY DEF PendingOK
<1>5. JobOK
  BY DEF JobOK, Rotators, RotationLabels
<1>6. UserOK
  BY DEF UserOK
<1> QED
  BY <1>1, <1>2, <1>3, <1>a, <1>b, <1>4, <1>5, <1>6 DEF TypeInv

-----------------------------------------------------------------------------
(* Types: a step changes the label of one thread.                          *)

LEMMA ApiMoves ==
  ASSUME TypeInv, NEW l \in ApiLabels, pc["api"] # "exited", Goto("api", l),
         UNCHANGED <<pending, timer, due, job>>
  PROVE  PcOK' /\ PendingOK' /\ JobOK' /\ Phases' /\ pc'["api"] = l
         /\ pc'["manager"] = pc["manager"] /\ pc'["main"] = pc["main"]
<1>1. pc'["api"] = l /\ pc'["manager"] = pc["manager"] /\ pc'["main"] = pc["main"]
  BY DEF TypeInv, PcOK, Threads, Goto
<1>2. PcOK'
  BY <1>1 DEF TypeInv, PcOK, Goto
<1>3. PendingOK'
  BY <1>1 DEF TypeInv, PendingOK
<1>4. JobOK'
  BY <1>1 DEF TypeInv, JobOK, Rotators
<1>5. Phases'
  BY <1>1 DEF TypeInv, Phases
<1> QED
  BY <1>1, <1>2, <1>3, <1>4, <1>5

LEMMA FaultsCounted ==
  ASSUME TypeInv, NoFault \/ \E f \in FaultNames : Fails(f)
  PROVE  faults' \in 0..MaxFaults
  BY Numbers DEF TypeInv, UserOK, NoFault, Fails

LEMMA DbFailsIsFault == \A t : DbFails(t) => \E f \in FaultNames : Fails(f)
  BY DEF DbFails, FaultNames

(* The clients and the clock (betterembeds.lua, api.cpp:345-392).          *)
LEMMA TypeUser == ASSUME TypeInv, Plugin \/ Get PROVE TypeInv'
<1> USE Numbers DEF TypeInv
<1>1. PcOK' /\ RequestOK' /\ PendingOK' /\ FlagsOK' /\ JobOK' /\ Phases'
  <2>1. UNCHANGED <<pc, req, pending, timer, due, rehashed, stop, job>>
    BY DEF Plugin, Get, Rotate, StartEmbed, FinishEmbed, NotifyPreview, apiVars, rotVars, queued
  <2>2. FlagsOK'
    BY Zenon, <2>1 DEF FlagsOK
  <2> QED
    BY <2>1, <2>2 DEF PcOK, RequestOK, PendingOK, JobOK, Phases
<1>2. ApiOK'
  <2>1. CASE UNCHANGED backlog
    BY <2>1 DEF Plugin, Get, Rotate, StartEmbed, FinishEmbed, NotifyPreview, apiVars, ApiOK
  <2>2. ASSUME NEW r \in Waiting, Len(backlog) < MaxBacklog, Connect(r), apiStop' = apiStop
        PROVE  ApiOK'
    BY <2>2 DEF Connect, ApiOK
  <2>3. apiStop' = apiStop
    BY DEF Plugin, Get, Rotate, StartEmbed, FinishEmbed, NotifyPreview, apiVars
  <2>4. CASE Get
    BY <2>2, <2>3, <2>4 DEF Get, Waiting
  <2>5. ASSUME NEW i \in Imports, Rotate(i) PROVE ApiOK'
    <3>1. [kind |-> "rotate", id |-> i, orient |-> sent + 1] \in Waiting
      BY <2>5 DEF Rotate, Waiting, Rotates, UserOK
    <3> QED
      BY <2>2, <2>3, <2>5, <3>1 DEF Rotate
  <2>6. CASE NotifyPreview
    <3>1. [kind |-> "preview", id |-> plugin.id] \in Waiting
      BY <2>6 DEF NotifyPreview, UserOK, Waiting, Previews, NoJob
    <3> QED
      BY <2>1, <2>2, <2>3, <2>6, <3>1 DEF NotifyPreview
  <2> QED
    BY <2>1, <2>4, <2>5, <2>6 DEF Plugin, FinishEmbed, StartEmbed
<1>3. StoreOK' /\ UserOK'
  <2>1. CASE Get
    BY <2>1 DEF Get, store, userVars, rotVars, queued, StoreOK, UserOK
  <2>2. ASSUME NEW i \in Imports, Rotate(i) PROVE StoreOK' /\ UserOK'
    BY <2>2 DEF Rotate, store, rotVars, queued, StoreOK, UserOK
  <2>3. ASSUME NEW i \in Imports, StartEmbed(i) PROVE StoreOK' /\ UserOK'
    <3>1. /\ UNCHANGED <<dng, rows, locks, edits, asked, since, sent, faults>>
          /\ embeds' = embeds + 1 /\ embeds < MaxEmbeds
          /\ plugin' = [kind |-> "embed", id |-> i, held |-> dng[i]] /\ i \in Embedded
      BY <2>3 DEF StartEmbed, store, rotVars, queued
    <3> QED
      BY <3>1 DEF StoreOK, UserOK
  <2>4. CASE FinishEmbed
    <3>1. plugin.id \in Embedded /\ plugin.held \in Content /\ embeds \in 0..MaxEmbeds
      BY <2>4 DEF FinishEmbed, UserOK, NoJob
    <3>2. /\ UNCHANGED <<rows, locks, edits, asked, since, sent, embeds, faults>>
          /\ dng' = [dng EXCEPT ![plugin.id] = [plugin.held EXCEPT !.preview = embeds]]
          /\ plugin' = [kind |-> "notify", id |-> plugin.id]
      BY <2>4 DEF FinishEmbed, store, rotVars, queued
    <3>3. [plugin.held EXCEPT !.preview = embeds] \in Content
      BY <3>1 DEF Content
    <3> QED
      BY <3>1, <3>2, <3>3 DEF StoreOK, UserOK
  <2>5. CASE NotifyPreview
    <3>1. faults' \in 0..MaxFaults
      BY <2>5, FaultsCounted DEF NotifyPreview, FaultNames
    <3> QED
      BY <2>5, <3>1 DEF NotifyPreview, store, rotVars, queued, StoreOK, UserOK
  <2> QED
    BY <2>1, <2>2, <2>3, <2>4, <2>5 DEF Plugin
<1> QED
  BY <1>1, <1>2, <1>3

LEMMA TypeTick == ASSUME TypeInv, Tick PROVE TypeInv'
<1> USE Numbers DEF TypeInv, Tick
<1>1. PcOK' /\ StoreOK' /\ RequestOK' /\ ApiOK' /\ FlagsOK' /\ JobOK'
  BY DEF PcOK, StoreOK, store, RequestOK, ApiOK, apiVars, FlagsOK, JobOK
<1>2. DOMAIN pending' = DOMAIN pending /\ (pending = << >> => pending' = << >>)
  OBVIOUS
<1>3. PendingOK'
  <2>1. \A n \in 0..Grace : Less(n) \in 0..Grace
    BY DEF Less
  <2>2. \A i \in DOMAIN pending :
          [pending[i] EXCEPT !.left = Less(@)] \in [orient : Orients, left : 0..Grace]
    BY <2>1 DEF PendingOK
  <2> QED
    BY <1>2, <2>1, <2>2 DEF PendingOK
<1>4. Phases'
  BY <1>2 DEF Phases
<1>5. UserOK'
  BY DEF UserOK, userVars
<1> QED
  BY <1>1, <1>3, <1>4, <1>5

LEMMA ApiStep ==
  ASSUME TypeInv, NEW l \in ApiLabels, pc["api"] # "exited", Goto("api", l),
         UNCHANGED <<pending, timer, due, rehashed, stop, asked, since, job, userVars>>,
         faults' \in 0..MaxFaults, StoreOK', ApiOK', RequestOK'
  PROVE  TypeInv'
<1>1. PcOK' /\ PendingOK' /\ JobOK' /\ Phases'
  BY ApiMoves
<1>2. FlagsOK'
  BY Zenon DEF TypeInv, FlagsOK
<1>3. UserOK'
  BY DEF TypeInv, UserOK, userVars
<1> QED
  BY <1>1, <1>2, <1>3 DEF TypeInv

LEMMA ApiMove ==
  ASSUME TypeInv, NEW l, Goto("api", l)
  PROVE  pc'["api"] = l
  BY DEF TypeInv, PcOK, Threads, Goto

(* The steps of the HTTP thread but the one that queues (api.cpp:221-344). *)
LEMMA TypeApi == ASSUME TypeInv, Api, ~Queue PROVE TypeInv'
<1> USE Numbers
<1>1. faults \in 0..MaxFaults /\ StoreOK /\ ApiOK /\ RequestOK
  BY DEF TypeInv, UserOK
<1>2. ASSUME UNCHANGED <<backlog, apiStop>> PROVE ApiOK'
  BY Zenon, <1>1, <1>2 DEF ApiOK
<1>3. ASSUME UNCHANGED <<dng, store>> PROVE StoreOK'
  BY <1>1, <1>3 DEF StoreOK, store
<1>4. ASSUME NoFault \/ \E f \in FaultNames : Fails(f) PROVE faults' \in 0..MaxFaults
  BY <1>4, FaultsCounted
<1>5. ASSUME NEW l \in {"top", "accept", "exited"}, pc'["api"] = l, req' = NoRequest
      PROVE  RequestOK'
  BY <1>5 DEF RequestOK
<1>6. CASE ApiTop
  <2>1. req = NoRequest
    BY <1>1, <1>6 DEF ApiTop, RequestOK
  <2> DEFINE l == IF apiStop THEN "exited" ELSE "accept"
  <2>2. l \in {"accept", "exited"} /\ Goto("api", l)
    BY <1>6 DEF ApiTop
  <2>3. /\ UNCHANGED <<backlog, apiStop, req, dng, store, faults>> /\ pc["api"] # "exited"
        /\ UNCHANGED <<pending, timer, due, rehashed, stop, asked, since, job, userVars>>
    BY <1>6 DEF ApiTop, apiVars, rotVars, queued
  <2> HIDE DEF l
  <2>4. pc'["api"] = l
    BY <2>2, ApiMove
  <2>5. RequestOK'
    BY <1>5, <2>1, <2>2, <2>3, <2>4
  <2> QED
    BY <1>1, <1>2, <1>3, <2>2, <2>3, <2>5, ApiStep DEF ApiLabels
<1>7. CASE Accept
  <2> DEFINE l == IF Head(backlog).kind = "get" THEN "get" ELSE "find"
  <2>1. Head(backlog) \in Waiting /\ Tail(backlog) \in Seq(Waiting)
        /\ Len(Tail(backlog)) <= MaxBacklog
    BY <1>1, <1>7, HeadTailProperties DEF Accept, ApiOK
  <2>2. /\ UNCHANGED <<apiStop, dng, store, faults>> /\ pc["api"] # "exited"
        /\ UNCHANGED <<pending, timer, due, rehashed, stop, asked, since, job, userVars>>
        /\ backlog' = Tail(backlog) /\ req' = Head(backlog)
    BY <1>7 DEF Accept, rotVars, queued
  <2>3. l \in {"get", "find"} /\ Goto("api", l)
    BY <1>7 DEF Accept
  <2>4. pc'["api"] = l
    BY <2>3, ApiMove
  <2>5. RequestOK'
    BY <2>1, <2>2, <2>4 DEF RequestOK, Waiting, Previews, Rotates
  <2>6. ApiOK'
    <3>1. apiStop' \in BOOLEAN
      BY Zenon, <1>1, <2>2 DEF ApiOK
    <3> QED
      BY <2>1, <2>2, <3>1 DEF ApiOK
  <2> QED
    BY <1>1, <1>3, <2>2, <2>3, <2>5, <2>6, ApiStep DEF ApiLabels
<1>8. ASSUME Goto("api", "top"), req' = NoRequest, pc["api"] # "exited",
             NoFault \/ \E f \in FaultNames : Fails(f), StoreOK',
             UNCHANGED <<backlog, apiStop, job, userVars, rotVars>>
      PROVE  TypeInv'
  <2>1. pc'["api"] = "top"
    BY <1>8, ApiMove
  <2>2. UNCHANGED <<pending, timer, due, rehashed, stop, asked, since>>
    BY <1>8 DEF rotVars, queued
  <2> QED
    BY <1>2, <1>4, <1>5, <1>8, <2>1, <2>2, ApiStep DEF ApiLabels
<1>9. CASE HandleGet
  BY <1>3, <1>8, <1>9 DEF HandleGet, Answer, NoFault
<1>10. ASSUME NEW l \in ApiLabels, Goto("api", l), pc["api"] # "exited", StoreOK', RequestOK',
              NoFault \/ \E f \in FaultNames : Fails(f),
              UNCHANGED <<backlog, apiStop, job, userVars, rotVars>>
       PROVE  TypeInv'
  <2>1. UNCHANGED <<pending, timer, due, rehashed, stop, asked, since>>
    BY <1>10 DEF rotVars, queued
  <2> QED
    BY <1>2, <1>4, <1>10, <2>1, ApiStep
<1>11. CASE Find
  <2>0. /\ UNCHANGED <<dng, store, backlog, apiStop, rotVars, job, userVars>>
        /\ pc["api"] = "find" /\ req \in Previews \cup Rotates
    BY <1>1, <1>11 DEF Find, RequestOK
  <2>1. CASE DbFails("api") /\ Answer
    BY <1>3, <1>8, <2>0, <2>1, DbFailsIsFault DEF Answer
  <2>2. CASE NoFault /\ req.kind = "rotate" /\ Goto("api", "queue") /\ UNCHANGED req
    <3>1. req \in Rotates
      BY <2>0, <2>2 DEF Previews
    <3>2. pc'["api"] = "queue"
      BY <2>2, ApiMove
    <3>3. RequestOK'
      BY <2>2, <3>1, <3>2 DEF RequestOK
    <3> QED
      BY <1>3, <1>10, <2>0, <2>2, <3>3 DEF ApiLabels
  <2>3. CASE /\ NoFault /\ req.kind # "rotate" /\ Goto("api", "hash")
             /\ req' = [kind |-> "preview", id |-> req.id, prev |-> rows[req.id].hash]
    <3>1. req.id \in Embedded /\ rows[req.id].hash \in Content
      BY <1>1, <2>0, <2>3 DEF Previews, Rotates, StoreOK
    <3>2. pc'["api"] = "hash"
      BY <2>3, ApiMove
    <3>3. RequestOK'
      BY <2>3, <3>1, <3>2 DEF RequestOK
    <3> QED
      BY <1>3, <1>10, <2>0, <2>3, <3>3 DEF ApiLabels
  <2> QED
    BY <1>11, <2>1, <2>2, <2>3 DEF Find
<1>12. CASE HashDng
  <2>0. /\ UNCHANGED <<dng, store, backlog, apiStop, rotVars, job, userVars>>
        /\ pc["api"] = "hash" /\ req \in [kind : {"preview"}, id : Embedded, prev : Content]
    BY <1>1, <1>12 DEF HashDng, RequestOK
  <2>1. CASE Fails("hash") /\ Answer
    BY <1>3, <1>8, <2>0, <2>1 DEF Answer, FaultNames
  <2>2. CASE /\ NoFault /\ Goto("api", "sync")
             /\ req' = [kind |-> "preview", id |-> req.id, prev |-> req.prev,
                         new |-> dng[req.id]]
    <3>1. req.id \in Embedded /\ req.prev \in Content /\ dng[req.id] \in Content
      BY <1>1, <2>0 DEF StoreOK
    <3>2. pc'["api"] = "sync"
      BY <2>2, ApiMove
    <3>3. RequestOK'
      BY <2>2, <3>1, <3>2 DEF RequestOK
    <3> QED
      BY <1>3, <1>10, <2>0, <2>2, <3>3 DEF ApiLabels
  <2> QED
    BY <1>12, <2>1, <2>2 DEF HashDng
<1>13. CASE UpdateHash
  <2>0. /\ UNCHANGED <<dng, locks, edits, backlog, apiStop, req, rotVars, job, userVars>>
        /\ pc["api"] = "sync" /\ Goto("api", "audit")
        /\ req \in [kind : {"preview"}, id : Embedded, prev : Content, new : Content]
    BY <1>1, <1>13 DEF UpdateHash, RequestOK, apiVars
  <2>1. pc'["api"] = "audit"
    BY <2>0, ApiMove
  <2>2. RequestOK'
    BY <2>0, <2>1 DEF RequestOK
  <2>3. StoreOK'
    BY <1>1, <1>13, <2>0 DEF UpdateHash, HashStored, StoreOK
  <2> QED
    BY <1>10, <1>13, <2>0, <2>2, <2>3, DbFailsIsFault DEF UpdateHash, ApiLabels
<1>14. CASE RecordEdit
  <2>0. /\ UNCHANGED <<dng, rows, locks, backlog, apiStop, rotVars, job, userVars>>
        /\ pc["api"] = "audit" /\ Goto("api", "top") /\ req' = NoRequest
        /\ req \in [kind : {"preview"}, id : Embedded, prev : Content, new : Content]
    BY <1>1, <1>14 DEF RecordEdit, RequestOK, Answer
  <2>1. [id |-> req.id, prev |-> RowFound(req), new |-> req.new]
          \in [id : Imports, prev : Content, new : Content]
    BY <2>0 DEF RowFound
  <2>2. StoreOK'
    <3>1. edits' \in Seq([id : Imports, prev : Content, new : Content])
      <4> DEFINE Edit == [id : Imports, prev : Content, new : Content]
                 e == [id |-> req.id, prev |-> RowFound(req), new |-> req.new]
      <4>1. edits \in Seq(Edit) /\ e \in Edit /\ (edits' = edits \/ edits' = Append(edits, e))
        BY <1>1, <1>14, <2>1 DEF RecordEdit, StoreOK
      <4> HIDE DEF Edit, e
      <4>2. edits' \in Seq(Edit)
        BY <4>1, AppendProperties
      <4> QED
        BY <4>2 DEF Edit
    <3> QED
      BY <1>1, <2>0, <3>1 DEF StoreOK
  <2> QED
    BY <1>8, <1>14, <2>0, <2>2, DbFailsIsFault DEF RecordEdit
<1> QED
  BY <1>6, <1>7, <1>9, <1>11, <1>12, <1>13, <1>14 DEF Api

LEMMA TypeQueue == ASSUME TypeInv, Queue PROVE TypeInv'
<1> USE Numbers DEF TypeInv
<1> DEFINE i == req.id
           intent == [orient |-> req.orient, left |-> Grace]
<1>0. /\ UNCHANGED <<dng, store, backlog, apiStop, timer, stop, job, userVars, faults>>
      /\ req' = NoRequest /\ pc["api"] = "queue" /\ pc["manager"] # "doze"
      /\ pc' = [pc EXCEPT !["api"] = "top", !["manager"] = Notified(@)]
      /\ due' = due \ {i} /\ rehashed' = (rehashed \/ i \notin DOMAIN pending)
      /\ asked' = [asked EXCEPT ![i] = req.orient] /\ since' = [since EXCEPT ![i] = 0]
      /\ pending' = [k \in DOMAIN pending \cup {i} |-> IF k = i THEN intent ELSE pending[k]]
  BY DEF Queue, LastIntent, FullGrace
<1>1. i \in Rotated /\ intent \in [orient : Orients, left : 0..Grace] /\ req.orient \in Orients
  BY <1>0 DEF RequestOK, Rotates
<1>2. /\ pc'["api"] = "top" /\ pc'["main"] = pc["main"]
      /\ pc'["manager"] = Notified(pc["manager"])
      /\ pc["manager"] # "wait" => pc'["manager"] = pc["manager"]
      /\ pc["manager"] = "wait" => pc'["manager"] = "check"
  BY <1>0 DEF PcOK, Threads, Notified
<1> HIDE DEF i, intent
<1>3. PcOK'
  BY <1>0, <1>2 DEF PcOK, Notified, ApiLabels, ManagerLabels, MainLabels
<1>4. StoreOK'
  BY <1>0 DEF StoreOK, store
<1>5. RequestOK'
  BY <1>0, <1>2 DEF RequestOK
<1>6. ApiOK'
  BY Zenon, <1>0 DEF ApiOK
<1>7. PendingOK'
  <2>1. pending' \in [DOMAIN pending' -> [orient : Orients, left : 0..Grace]]
        /\ DOMAIN pending' = DOMAIN pending \cup {i}
    BY <1>0, <1>1 DEF PendingOK
  <2>2. pc'["manager"] \notin RotationLabels \cup {"pass"} => due' = {}
    BY <1>0, <1>2 DEF PendingOK, RotationLabels
  <2> QED
    BY <1>0, <1>1, <2>1, <2>2 DEF PendingOK
<1>8. FlagsOK'
  BY Zenon, <1>0 DEF FlagsOK
<1>9. JobOK'
  BY <1>0, <1>2 DEF JobOK, Rotators, RotationLabels
<1>10. UserOK'
  BY <1>0, <1>1 DEF UserOK, userVars
<1>11. Phases'
  BY <1>0, <1>2 DEF Phases
<1> QED
  BY <1>3, <1>4, <1>5, <1>6, <1>7, <1>8, <1>9, <1>10, <1>11

-----------------------------------------------------------------------------
(* Types: the dispatch of a rotation.                                      *)

After(t) == IF t = "manager" THEN "pass" ELSE "drain"

LEMMA RotatorMove ==
  ASSUME TypeInv, NEW t \in Rotators, NEW l, Goto(t, l)
  PROVE  pc'[t] = l /\ \A u \in Threads \ {t} : pc'[u] = pc[u]
  BY DEF TypeInv, PcOK, Threads, Rotators, Goto

LEMMA JobSet ==
  ASSUME TypeInv, NEW t \in Rotators, NEW l, Goto(t, l),
         NEW j \in {NoJob} \cup Rotates \cup Held, job' = [job EXCEPT ![t] = j],
         j = NoJob <=> l \notin RotationLabels, l = "write" => j \in Held
  PROVE  JobOK'
<1>1. pc'[t] = l /\ \A u \in Threads \ {t} : pc'[u] = pc[u]
  BY RotatorMove
<1>2. job' \in [Rotators -> {NoJob} \cup Rotates \cup Held] /\ job'[t] = j
      /\ \A u \in Rotators \ {t} : job'[u] = job[u]
  BY DEF TypeInv, JobOK
<1>3. \A u \in Rotators : job'[u] = NoJob <=> pc'[u] \notin RotationLabels
  BY <1>1, <1>2 DEF TypeInv, JobOK, Rotators, Threads
<1>4. \A u \in Rotators : pc'[u] = "write" => job'[u] \in Held
  BY <1>1, <1>2 DEF TypeInv, JobOK, Rotators, Threads
<1> QED
  BY <1>2, <1>3, <1>4 DEF JobOK

LEMMA RotatorStep ==
  ASSUME TypeInv, NEW t \in Rotators, pc[t] \in RotationLabels \cup {After(t)},
         NEW l \in RotationLabels \cup {After(t)}, Goto(t, l),
         UNCHANGED <<backlog, apiStop, req, timer, rehashed, stop, asked, since, userVars>>,
         faults' \in 0..MaxFaults, StoreOK', JobOK',
         DOMAIN pending' \subseteq Rotated,
         pending' \in [DOMAIN pending' -> [orient : Orients, left : 0..Grace]],
         due' \subseteq DOMAIN pending', t = "manager" \/ due' = due
  PROVE  TypeInv'
<1> USE Numbers DEF TypeInv
<1>1. pc'[t] = l /\ \A u \in Threads \ {t} : pc'[u] = pc[u]
  BY RotatorMove
<1>2. PcOK'
  BY <1>1 DEF PcOK, Goto, Rotators, Threads, After, RotationLabels, ManagerLabels, MainLabels
<1>3. RequestOK' /\ UserOK'
  BY <1>1 DEF RequestOK, UserOK, userVars, Rotators, Threads
<1>4. ApiOK' /\ FlagsOK'
  BY Zenon DEF ApiOK, FlagsOK
<1>5. PendingOK'
  BY <1>1 DEF PendingOK, Rotators, Threads, After, RotationLabels
<1>6. Phases'
  BY <1>1 DEF Phases, Rotators, Threads, After, RotationLabels
<1> QED
  BY <1>2, <1>3, <1>4, <1>5, <1>6

(* ProcessRotationIntent and Stop from the lock to its release             *)
(* (rotation.cpp:82-121).                                                  *)
LEMMA TypeRotation == ASSUME TypeInv, NEW t \in Rotators, Rotation(t) PROVE TypeInv'
<1> USE Numbers
<1>0. /\ faults \in 0..MaxFaults /\ StoreOK /\ PendingOK /\ job[t] # NoJob
      /\ job[t] \in Rotates \cup Held /\ pc[t] \in RotationLabels
      /\ pc[t] = "write" => job[t] \in Held
  <2>1. pc[t] \in RotationLabels
    BY DEF Rotation, AcquireLock, ReadDng, WriteDng, UpdateOrientation, ReleaseLock,
           RotationLabels
  <2> QED
    BY <2>1 DEF TypeInv, UserOK, JobOK
<1>1. job[t].id \in Rotated /\ job[t].id \in Imports /\ job[t].orient \in Orients
  BY <1>0 DEF Rotates, Held
<1>2. UNCHANGED <<backlog, apiStop, req, timer, rehashed, stop, asked, since, userVars,
                  pending, due>>
  BY DEF Rotation, AcquireLock, ReadDng, WriteDng, UpdateOrientation, ReleaseLock, apiVars,
         rotVars, queued
<1>3. ASSUME NoFault \/ \E f \in FaultNames : Fails(f) PROVE faults' \in 0..MaxFaults
  BY <1>3, FaultsCounted
<1>4. ASSUME NEW l \in RotationLabels \cup {After(t)}, Goto(t, l), JobOK', StoreOK',
             NoFault \/ \E f \in FaultNames : Fails(f)
      PROVE  TypeInv'
  <2>1. /\ DOMAIN pending' \subseteq Rotated /\ due' \subseteq DOMAIN pending'
        /\ pending' \in [DOMAIN pending' -> [orient : Orients, left : 0..Grace]]
    BY <1>0, <1>2 DEF PendingOK
  <2> QED
    BY <1>0, <1>2, <1>3, <1>4, <2>1, RotatorStep
<1>5. ASSUME NEW l \in RotationLabels, Goto(t, l), UNCHANGED job, l # "write" PROVE JobOK'
  <2>1. job' = [job EXCEPT ![t] = job[t]]
    BY <1>5 DEF TypeInv, JobOK
  <2>2. (job[t] = NoJob <=> l \notin RotationLabels) /\ (l = "write" => job[t] \in Held)
        /\ job[t] \in {NoJob} \cup Rotates \cup Held
    BY <1>0, <1>5
  <2> QED
    BY <1>5, <2>1, <2>2, JobSet
<1>6. ASSUME Return(t), StoreOK', NoFault \/ \E f \in FaultNames : Fails(f)
      PROVE  TypeInv'
  <2>1. Goto(t, After(t)) /\ job' = [job EXCEPT ![t] = NoJob]
    BY <1>6 DEF Return, After
  <2>2. After(t) \notin RotationLabels
    BY DEF After, RotationLabels
  <2>3. JobOK'
    BY <2>1, <2>2, JobSet DEF RotationLabels
  <2> QED
    BY <1>4, <1>6, <2>1, <2>3
<1>7. CASE AcquireLock(t)
  <2>1. StoreOK'
    BY <1>0, <1>1, <1>7 DEF AcquireLock, StoreOK
  <2>2. CASE NoFault /\ Goto(t, "read") /\ UNCHANGED job
    BY <1>4, <1>5, <2>1, <2>2 DEF RotationLabels
  <2>3. CASE DbFails(t) /\ Return(t)
    BY <1>6, <2>1, <2>3, DbFailsIsFault
  <2> QED
    BY <1>7, <2>2, <2>3 DEF AcquireLock
<1>8. CASE ReadDng(t)
  <2>1. StoreOK'
    BY <1>0, <1>8 DEF ReadDng, StoreOK, store
  <2>2. CASE /\ NoFault /\ Goto(t, "write")
             /\ job' = [job EXCEPT ![t] = [kind |-> "rotate", id |-> @.id,
                                           orient |-> @.orient, held |-> dng[@.id]]]
    <3> DEFINE j == [kind |-> "rotate", id |-> job[t].id, orient |-> job[t].orient,
                     held |-> dng[job[t].id]]
    <3>1. j \in Held /\ j # NoJob
      BY <1>0, <1>1 DEF StoreOK, Held, NoJob
    <3>2. job' = [job EXCEPT ![t] = j]
      BY <2>2
    <3>3. JobOK'
      BY <2>2, <3>1, <3>2, JobSet DEF RotationLabels
    <3> QED
      BY <1>4, <2>1, <2>2, <3>3 DEF RotationLabels
  <2>3. CASE /\ Fails("exiftool") /\ UNCHANGED job
             /\ Goto(t, IF t = "manager" THEN "release" ELSE "orient")
    <3> DEFINE l == IF t = "manager" THEN "release" ELSE "orient"
    <3>1. l \in RotationLabels /\ l # "write"
      BY DEF RotationLabels
    <3> QED
      BY <1>4, <1>5, <2>1, <2>3, <3>1 DEF FaultNames
  <2> QED
    BY <1>8, <2>2, <2>3 DEF ReadDng
<1>9. CASE WriteDng(t)
  <2>1. job[t].held \in Content
    BY <1>0, <1>9 DEF WriteDng, Held
  <2>2. [job[t].held EXCEPT !.orient = job[t].orient] \in Content
    BY <1>1, <2>1 DEF Content
  <2>3. StoreOK'
    BY <1>0, <1>1, <1>9, <2>2 DEF WriteDng, StoreOK, store
  <2> QED
    BY <1>4, <1>5, <1>9, <2>3 DEF WriteDng, NoFault, RotationLabels
<1>10. CASE UpdateOrientation(t)
  <2>1. StoreOK'
    BY <1>0, <1>1, <1>10 DEF UpdateOrientation, RowWrite, StoreOK
  <2> QED
    BY <1>4, <1>5, <1>10, <2>1, DbFailsIsFault DEF UpdateOrientation, RotationLabels
<1>11. CASE ReleaseLock(t)
  <2>1. StoreOK'
    BY <1>0, <1>11 DEF ReleaseLock, StoreOK
  <2> QED
    BY <1>6, <1>11, <2>1, DbFailsIsFault DEF ReleaseLock
<1> QED
  BY <1>7, <1>8, <1>9, <1>10, <1>11 DEF Rotation

LEMMA DispatchShape ==
  ASSUME TypeInv, NEW t \in Rotators, NEW i \in DOMAIN pending, Dispatch(t, i)
  PROVE  /\ Goto(t, "acquire") /\ DOMAIN pending' = DOMAIN pending \ {i}
         /\ \A k \in DOMAIN pending' : pending'[k] = pending[k]
         /\ DOMAIN pending' \subseteq Rotated
         /\ pending' \in [DOMAIN pending' -> [orient : Orients, left : 0..Grace]]
         /\ JobOK' /\ job'[t] = [kind |-> "rotate", id |-> i, orient |-> pending[i].orient]
         /\ \A u \in Rotators \ {t} : job'[u] = job[u]
<1> DEFINE j == [kind |-> "rotate", id |-> i, orient |-> pending[i].orient]
<1>1. j \in Rotates /\ j # NoJob
  BY DEF TypeInv, PendingOK, Rotates, NoJob
<1>2. job' = [job EXCEPT ![t] = j] /\ Goto(t, "acquire")
      /\ pending' = [k \in DOMAIN pending \ {i} |-> pending[k]]
  BY DEF Dispatch, Restrict
<1> HIDE DEF j
<1>3. JobOK'
  <2>1. (j = NoJob <=> "acquire" \notin RotationLabels) /\ "acquire" # "write"
        /\ j \in {NoJob} \cup Rotates \cup Held
    BY <1>1 DEF RotationLabels
  <2> QED
    BY <1>2, <2>1, JobSet
<1>4. job'[t] = j /\ \A u \in Rotators \ {t} : job'[u] = job[u]
  BY <1>2 DEF TypeInv, JobOK
<1>5. DOMAIN pending' = DOMAIN pending \ {i} /\ \A k \in DOMAIN pending' : pending'[k] = pending[k]
  BY <1>2
<1>6. /\ DOMAIN pending' \subseteq Rotated
      /\ pending' \in [DOMAIN pending' -> [orient : Orients, left : 0..Grace]]
  BY <1>2 DEF TypeInv, PendingOK
<1> QED
  BY <1>2, <1>3, <1>4, <1>5, <1>6 DEF j

-----------------------------------------------------------------------------
(* Types: the manager's loop, and the main thread.                         *)

LEMMA TypeManager == ASSUME TypeInv, Manager, ~Rotation("manager") PROVE TypeInv'
<1> USE Numbers
<1>0. /\ faults \in 0..MaxFaults /\ StoreOK /\ PendingOK /\ JobOK /\ RequestOK /\ UserOK /\ PcOK
      /\ Phases /\ pc["manager"] \notin RotationLabels /\ job["manager"] = NoJob
      /\ "manager" \in Rotators
  <2>1. pc["manager"] \notin RotationLabels
    BY DEF Manager, Check, Block, Wake, NextDue, RotationLabels
  <2> QED
    BY <2>1 DEF TypeInv, UserOK, JobOK, Rotators
<1>1. UNCHANGED <<dng, store, backlog, apiVars, stop, queued, userVars, faults>>
  BY DEF Manager, Check, Block, Wake, NextDue, rotVars
<1>a. rehashed' = rehashed \/ rehashed' = FALSE
  BY Zenon DEF Manager, Check, Block, Wake, NextDue, rotVars
<1>2. StoreOK' /\ UNCHANGED <<req, asked, since, plugin, sent, embeds, faults>>
  BY <1>0, <1>1 DEF StoreOK, store, apiVars, queued, userVars
<1>3. UNCHANGED <<backlog, apiStop, stop>>
  BY <1>1 DEF apiVars
<1>4. ApiOK' /\ FlagsOK'
  BY Zenon, <1>a, <1>3 DEF TypeInv, ApiOK, FlagsOK
<1>5. UserOK'
  BY <1>0, <1>2 DEF UserOK
<1>6. ASSUME NEW l \in ManagerLabels, Goto("manager", l), pc["manager"] # "exited"
      PROVE  /\ PcOK' /\ RequestOK' /\ pc'["manager"] = l /\ pc'["main"] = pc["main"]
             /\ UNCHANGED pending => Phases'
             /\ pc["main"] \in {"run", "stopApi", "joinApi", "joinManager"}
  <2>1. pc'["manager"] = l /\ pc'["main"] = pc["main"] /\ pc'["api"] = pc["api"]
    BY <1>0, <1>6, RotatorMove DEF Rotators, Threads
  <2>2. PcOK'
    BY <1>0, <1>6, <2>1 DEF PcOK, Goto
  <2>3. RequestOK'
    BY <1>0, <1>2, <2>1 DEF RequestOK
  <2>4. UNCHANGED pending => Phases'
    BY <1>0, <1>6, <2>1 DEF Phases
  <2>5. pc["main"] \in {"run", "stopApi", "joinApi", "joinManager"}
    BY <1>0, <1>6 DEF Phases
  <2> QED
    BY <2>1, <2>2, <2>3, <2>4, <2>5
<1>7. ASSUME NEW l \in ManagerLabels \ RotationLabels, Goto("manager", l), UNCHANGED job,
             pc["manager"] # "exited"
      PROVE  JobOK'
  <2>1. job' = [job EXCEPT !["manager"] = NoJob]
    BY <1>0, <1>7 DEF JobOK
  <2>2. (NoJob = NoJob <=> l \notin RotationLabels) /\ l # "write" /\ l \notin RotationLabels
    BY <1>7 DEF RotationLabels
  <2> QED
    BY <1>0, <1>7, <2>1, <2>2, JobSet
<1>8. CASE Check
  <2>0. UNCHANGED <<pending, due, job>> /\ pc["manager"] = "check" /\ due = {}
    BY <1>0, <1>8 DEF Check, PendingOK, RotationLabels
  <2>1. timer' \in 0..Grace
    <3>1. CASE timer' = timer
      BY <1>0, <3>1 DEF PendingOK
    <3>2. CASE timer' \in Soonest
      <4>1. PICK i \in DOMAIN pending : timer' = pending[i].left
        BY <3>2 DEF Soonest
      <4>2. pending[i] \in [orient : Orients, left : 0..Grace]
        BY <1>0 DEF PendingOK
      <4> QED
        BY <4>1, <4>2
    <3> QED
      BY <1>8, <3>1, <3>2 DEF Check
  <2>2. PICK l \in {"exited", "doze", "grace"} : Goto("manager", l)
    BY <1>8 DEF Check
  <2>3. l \in ManagerLabels \ RotationLabels /\ l # "pass"
    BY DEF ManagerLabels, RotationLabels
  <2>4. JobOK'
    BY <1>7, <2>0, <2>2, <2>3
  <2>5. PcOK' /\ RequestOK' /\ Phases'
    BY <1>6, <2>0, <2>2, <2>3
  <2>6. PendingOK'
    BY <1>0, <2>0, <2>1 DEF PendingOK
  <2> QED
    BY <1>2, <1>4, <1>5, <2>4, <2>5, <2>6 DEF TypeInv
<1>9. CASE Block
  <2>0. UNCHANGED <<pending, due, timer, job>> /\ pc["manager"] = "doze" /\ due = {}
        /\ Goto("manager", "wait")
    BY <1>0, <1>9 DEF Block, rotVars, PendingOK, RotationLabels
  <2>1. "wait" \in ManagerLabels \ RotationLabels
    BY DEF ManagerLabels, RotationLabels
  <2>2. JobOK'
    BY <1>7, <2>0, <2>1
  <2>3. PcOK' /\ RequestOK' /\ Phases'
    BY <1>6, <2>0, <2>1
  <2>4. PendingOK'
    BY <1>0, <2>0 DEF PendingOK
  <2> QED
    BY <1>2, <1>4, <1>5, <2>2, <2>3, <2>4 DEF TypeInv
<1>10. CASE Wake
  <2>0. UNCHANGED <<pending, timer, job>> /\ pc["manager"] = "grace" /\ due' = DueNow
        /\ Goto("manager", "pass")
    BY <1>10 DEF Wake
  <2>1. "pass" \in ManagerLabels \ RotationLabels
    BY DEF ManagerLabels, RotationLabels
  <2>2. JobOK'
    BY <1>7, <2>0, <2>1
  <2>3. PcOK' /\ RequestOK' /\ Phases' /\ pc'["manager"] = "pass"
    BY <1>6, <2>0, <2>1
  <2>4. PendingOK'
    BY <1>0, <2>0, <2>3 DEF PendingOK, DueNow
  <2> QED
    BY <1>2, <1>4, <1>5, <2>2, <2>3, <2>4 DEF TypeInv
<1>11. CASE NextDue
  <2>0. UNCHANGED <<dng, store, backlog, apiVars, timer, rehashed, stop, queued, userVars, faults>>
        /\ pc["manager"] = "pass"
    BY <1>11 DEF NextDue
  <2>1. ASSUME NEW i \in due \cap DOMAIN pending, Dispatch("manager", i), due' = due \ {i}
        PROVE  TypeInv'
    <3>1. /\ Goto("manager", "acquire") /\ DOMAIN pending' = DOMAIN pending \ {i}
          /\ DOMAIN pending' \subseteq Rotated /\ JobOK'
          /\ pending' \in [DOMAIN pending' -> [orient : Orients, left : 0..Grace]]
      BY <1>0, <2>1, DispatchShape
    <3>2. due' \subseteq DOMAIN pending'
      BY <1>0, <2>1, <3>1 DEF PendingOK
    <3>3. UNCHANGED <<backlog, apiStop, req, timer, rehashed, stop, asked, since, userVars>>
      BY <2>0 DEF apiVars, queued
    <3>4. pc["manager"] \in RotationLabels \cup {After("manager")}
          /\ "acquire" \in RotationLabels \cup {After("manager")}
      BY <2>0 DEF After, RotationLabels
    <3>5. faults' \in 0..MaxFaults
      BY <1>0, <1>2
    <3> QED
      BY <1>0, <1>2, <3>1, <3>2, <3>3, <3>4, <3>5, RotatorStep
  <2>2. CASE Goto("manager", "check") /\ due' = {} /\ UNCHANGED <<pending, job>>
    <3>1. "check" \in ManagerLabels \ RotationLabels
      BY DEF ManagerLabels, RotationLabels
    <3>2. JobOK'
      BY <1>7, <2>0, <2>2, <3>1
    <3>3. PcOK' /\ RequestOK' /\ Phases'
      BY <1>6, <2>0, <2>2, <3>1
    <3>4. PendingOK'
      BY <1>0, <2>0, <2>2 DEF PendingOK
    <3> QED
      BY <1>2, <1>4, <1>5, <3>2, <3>3, <3>4 DEF TypeInv
  <2> QED
    BY <1>11, <2>1, <2>2 DEF NextDue
<1> QED
  BY <1>8, <1>9, <1>10, <1>11 DEF Manager

LEMMA TypeMain == ASSUME TypeInv, Signal \/ Main, ~Rotation("main") PROVE TypeInv'
<1> USE Numbers
<1>0. /\ StoreOK /\ PendingOK /\ JobOK /\ RequestOK /\ UserOK /\ PcOK /\ Phases
      /\ "main" \in Rotators
  BY DEF TypeInv, Rotators
<1>1. UNCHANGED <<dng, store, backlog, req, timer, due, rehashed, queued, userVars, faults>>
  BY DEF Signal, Main, StopApi, StopRotation, JoinManager, Drain, apiVars, rotVars
<1>2. StoreOK' /\ UserOK' /\ UNCHANGED <<backlog, req, timer, due, rehashed>>
  BY <1>0, <1>1 DEF StoreOK, UserOK, store, queued, userVars
<1>3. ASSUME apiStop' \in {apiStop, TRUE} PROVE ApiOK'
  BY Zenon, <1>1, <1>3 DEF TypeInv, ApiOK
<1>4. ASSUME stop' \in {stop, TRUE} PROVE FlagsOK'
  BY Zenon, <1>1, <1>4 DEF TypeInv, FlagsOK
<1>5. ASSUME NEW l \in MainLabels \ RotationLabels, pc["main"] \notin RotationLabels,
             UNCHANGED <<pending, job>>, pc'["main"] = l, pc'["api"] = pc["api"],
             pc' \in [Threads -> ApiLabels \cup ManagerLabels \cup MainLabels],
             \/ pc'["manager"] = pc["manager"]
             \/ (pc["manager"] = "wait" /\ pc'["manager"] = "check")
      PROVE  PcOK' /\ RequestOK' /\ PendingOK' /\ JobOK'
  <2>1. PcOK'
    BY <1>0, <1>5 DEF PcOK, ManagerLabels
  <2>2. RequestOK' /\ PendingOK'
    BY <1>0, <1>2, <1>5 DEF RequestOK, PendingOK, RotationLabels
  <2>3. JobOK'
    BY <1>0, <1>5 DEF JobOK, Rotators, RotationLabels
  <2> QED
    BY <2>1, <2>2, <2>3
<1>6. ASSUME NEW l \in MainLabels, Goto("main", l)
      PROVE  /\ pc'["main"] = l /\ pc'["api"] = pc["api"] /\ pc'["manager"] = pc["manager"]
             /\ pc' \in [Threads -> ApiLabels \cup ManagerLabels \cup MainLabels]
  BY <1>0, <1>6 DEF PcOK, Goto, Threads
<1>7. CASE Signal
  <2>1. /\ UNCHANGED <<pending, job, apiStop, stop>> /\ pc["main"] = "run"
        /\ Goto("main", "stopApi")
    BY <1>7 DEF Signal, apiVars, rotVars
  <2>2. "stopApi" \in MainLabels \ RotationLabels /\ pc["main"] \notin RotationLabels
    BY <2>1 DEF MainLabels, RotationLabels
  <2>3. PcOK' /\ RequestOK' /\ PendingOK' /\ JobOK'
    BY <1>5, <1>6, <2>1, <2>2
  <2>4. Phases'
    BY <1>0, <1>6, <2>1, <2>2 DEF Phases
  <2> QED
    BY <1>2, <1>3, <1>4, <2>1, <2>3, <2>4 DEF TypeInv
<1>8. CASE StopApi
  <2>1. /\ UNCHANGED <<pending, job, stop>> /\ pc["main"] = "stopApi" /\ apiStop' = TRUE
        /\ Goto("main", "joinApi")
    BY <1>8 DEF StopApi, rotVars
  <2>2. "joinApi" \in MainLabels \ RotationLabels /\ pc["main"] \notin RotationLabels
    BY <2>1 DEF MainLabels, RotationLabels
  <2>3. PcOK' /\ RequestOK' /\ PendingOK' /\ JobOK'
    BY <1>5, <1>6, <2>1, <2>2
  <2>4. Phases'
    BY <1>0, <1>6, <2>1, <2>2 DEF Phases
  <2> QED
    BY <1>2, <1>3, <1>4, <2>1, <2>3, <2>4 DEF TypeInv
<1>9. CASE StopRotation
  <2>1. /\ UNCHANGED <<pending, job, apiStop>> /\ pc["main"] = "joinApi" /\ stop' = TRUE
        /\ pc["api"] = "exited"
        /\ pc' = [pc EXCEPT !["main"] = "joinManager", !["manager"] = Notified(@)]
    BY <1>9 DEF StopRotation, apiVars, Joined
  <2>2. "joinManager" \in MainLabels \ RotationLabels /\ pc["main"] \notin RotationLabels
    BY <2>1 DEF MainLabels, RotationLabels
  <2>3. /\ pc'["main"] = "joinManager" /\ pc'["api"] = pc["api"]
        /\ \/ pc'["manager"] = pc["manager"]
           \/ (pc["manager"] = "wait" /\ pc'["manager"] = "check")
        /\ pc' \in [Threads -> ApiLabels \cup ManagerLabels \cup MainLabels]
    BY <1>0, <2>1, <2>2 DEF PcOK, Threads, Notified, ManagerLabels
  <2>4. PcOK' /\ RequestOK' /\ PendingOK' /\ JobOK'
    BY <1>5, <2>1, <2>2, <2>3
  <2>5. Phases'
    BY <2>1, <2>3 DEF Phases
  <2> QED
    BY <1>2, <1>3, <1>4, <2>1, <2>4, <2>5 DEF TypeInv
<1>10. CASE JoinManager
  <2>1. /\ UNCHANGED <<pending, job, apiStop, stop>> /\ pc["main"] = "joinManager"
        /\ pc["manager"] = "exited" /\ Goto("main", "drain")
    BY <1>10 DEF JoinManager, apiVars, rotVars, Joined
  <2>2. "drain" \in MainLabels \ RotationLabels /\ pc["main"] \notin RotationLabels
    BY <2>1 DEF MainLabels, RotationLabels
  <2>3. PcOK' /\ RequestOK' /\ PendingOK' /\ JobOK'
    BY <1>5, <1>6, <2>1, <2>2
  <2>4. Phases'
    BY <1>0, <1>6, <2>1, <2>2 DEF Phases
  <2> QED
    BY <1>2, <1>3, <1>4, <2>1, <2>3, <2>4 DEF TypeInv
<1>11. CASE Drain
  <2>0. UNCHANGED <<apiStop, stop>> /\ pc["main"] = "drain"
    BY <1>11 DEF Drain, apiVars
  <2>1. CASE pending = << >> /\ Goto("main", "done") /\ UNCHANGED <<pending, job>>
    <3>1. "done" \in MainLabels \ RotationLabels /\ pc["main"] \notin RotationLabels
      BY <2>0 DEF MainLabels, RotationLabels
    <3>2. PcOK' /\ RequestOK' /\ PendingOK' /\ JobOK'
      BY <1>5, <1>6, <2>1, <3>1
    <3>3. Phases'
      BY <1>0, <1>6, <2>0, <2>1, <3>1 DEF Phases
    <3> QED
      BY <1>2, <1>3, <1>4, <2>0, <3>2, <3>3 DEF TypeInv
  <2>2. ASSUME NEW i \in DOMAIN pending, Dispatch("main", i) PROVE TypeInv'
    <3>1. /\ Goto("main", "acquire") /\ DOMAIN pending' = DOMAIN pending \ {i}
          /\ DOMAIN pending' \subseteq Rotated /\ JobOK'
          /\ pending' \in [DOMAIN pending' -> [orient : Orients, left : 0..Grace]]
      BY <1>0, <2>2, DispatchShape
    <3>2. due' \subseteq DOMAIN pending' /\ due' = due
      BY <1>0, <1>2, <2>0 DEF PendingOK, Phases, RotationLabels
    <3>3. UNCHANGED <<backlog, apiStop, req, timer, rehashed, stop, asked, since, userVars>>
      BY <1>1, <2>0 DEF queued
    <3>4. pc["main"] \in RotationLabels \cup {After("main")}
          /\ "acquire" \in RotationLabels \cup {After("main")}
      BY <2>0 DEF After, RotationLabels
    <3>5. faults' \in 0..MaxFaults
      BY <1>0, <1>1 DEF UserOK
    <3> QED
      BY <1>0, <1>2, <3>1, <3>2, <3>3, <3>4, <3>5, RotatorStep
  <2> QED
    BY <1>11, <2>1, <2>2 DEF Drain
<1> QED
  BY <1>7, <1>8, <1>9, <1>10, <1>11 DEF Main

LEMMA TypeStep == TypeInv /\ [Next]_vars => TypeInv'
<1>1. ASSUME TypeInv, UNCHANGED vars PROVE TypeInv'
  <2>1. FlagsOK' /\ ApiOK'
    BY Zenon, <1>1 DEF TypeInv, vars, store, apiVars, rotVars, FlagsOK, ApiOK
  <2>2. PcOK' /\ StoreOK' /\ RequestOK' /\ PendingOK' /\ JobOK' /\ UserOK' /\ Phases'
    BY <1>1 DEF TypeInv, vars, store, apiVars, rotVars, queued, userVars, PcOK, StoreOK,
                RequestOK, PendingOK, JobOK, UserOK, Phases
  <2> QED
    BY <2>1, <2>2 DEF TypeInv
<1> QED
  BY <1>1, TypeUser, TypeTick, TypeApi, TypeQueue, TypeRotation, TypeManager, TypeMain
     DEF Next, Manager, Main, Rotators

LEMMA Typed == Spec => []TypeInv
  BY InitTyped, TypeStep, PTL DEF Spec

(* Every variable keeps its type, and a thread has a job exactly while it  *)
(* dispatches (rotation.cpp:15-25 and 82-121).                             *)
THEOREM SyncTypes == Spec => []TypeOK
<1>1. TypeInv => TypeOK
  <2> SUFFICES ASSUME TypeInv PROVE TypeOK
    OBVIOUS
  <2>1. Waiting \subseteq Requests /\ {NoJob} \cup Rotates \cup Held \subseteq Jobs
    BY Numbers DEF Waiting, Requests, Previews, Rotates, Held, Jobs
  <2>2. backlog \in Seq(Requests)
    BY <2>1 DEF TypeInv, ApiOK
  <2>3. job \in [Rotators -> Jobs]
    BY <2>1 DEF TypeInv, JobOK
  <2>4. apiStop \in BOOLEAN /\ stop \in BOOLEAN /\ rehashed \in BOOLEAN
    BY Zenon DEF TypeInv, ApiOK, FlagsOK
  <2>5. DOMAIN pending \subseteq Imports
    BY Numbers DEF TypeInv, PendingOK
  <2> QED
    BY <2>2, <2>3, <2>4, <2>5 DEF TypeOK, TypeInv, PcOK, StoreOK, ApiOK, PendingOK, JobOK, UserOK
<1> QED
  BY <1>1, Typed, PTL

-----------------------------------------------------------------------------
(* No lock outlives its dispatch.                                          *)

LEMMA NoDbFault ==
  ASSUME Faults \cap {"db", "race"} = {}
  PROVE  \A t : ~DbFails(t)
  BY DEF DbFails, Fails

LEMMA LockedStep ==
  ASSUME Faults \cap {"db", "race"} = {}, TypeInv, Locked, [Next]_vars
  PROVE  Locked'
<1> USE DEF TypeInv
<1>1. ASSUME UNCHANGED locks, \A t \in Rotators : pc[t] \in RotationLabels =>
               job'[t] = job[t] /\ (pc'[t] = "acquire" => pc[t] = "acquire")
      PROVE  Locked'
  BY <1>1 DEF Locked, InHand, JobOK
<1>2. ASSUME NEW t \in Rotators, Rotation(t) PROVE Locked'
  <2>0. /\ pc[t] \in RotationLabels /\ job[t] # NoJob /\ ~DbFails(t)
        /\ \A u \in Rotators \ {t} : pc'[u] = pc[u] /\ job'[u] = job[u]
    <3>1. pc[t] \in RotationLabels
      BY <1>2 DEF Rotation, AcquireLock, ReadDng, WriteDng, UpdateOrientation, ReleaseLock,
                  RotationLabels
    <3>2. PICK l : Goto(t, l)
      BY <1>2 DEF Rotation, AcquireLock, ReadDng, WriteDng, UpdateOrientation, ReleaseLock, Return
    <3>3. \A u \in Rotators \ {t} : job'[u] = job[u]
      BY <1>2 DEF Rotation, AcquireLock, ReadDng, WriteDng, UpdateOrientation, ReleaseLock,
                  Return, JobOK
    <3> QED
      BY <3>1, <3>2, <3>3, RotatorMove, NoDbFault DEF JobOK, Rotators, Threads
  <2>1. CASE AcquireLock(t)
    <3>1. locks' = locks \cup {job[t].id} /\ UNCHANGED job /\ Goto(t, "read") /\ pc[t] = "acquire"
      BY <2>0, <2>1 DEF AcquireLock
    <3>2. pc'[t] = "read"
      BY <3>1, RotatorMove
    <3> QED
      BY <2>0, <3>1, <3>2 DEF Locked, InHand
  <2>2. CASE ReadDng(t) \/ WriteDng(t) \/ UpdateOrientation(t)
    <3>1. UNCHANGED locks /\ pc[t] # "acquire"
      BY <2>2 DEF ReadDng, WriteDng, UpdateOrientation, store
    <3>2. PICK l \in {"write", "release", "orient"} : Goto(t, l)
      BY <2>2 DEF ReadDng, WriteDng, UpdateOrientation
    <3>3. job'[t] # NoJob /\ job'[t].id = job[t].id
      <4>1. CASE UNCHANGED job
        BY <2>0, <4>1
      <4>2. CASE job' = [job EXCEPT ![t] = [kind |-> "rotate", id |-> @.id,
                                           orient |-> @.orient, held |-> dng[@.id]]]
        BY <4>2 DEF JobOK, NoJob
      <4> QED
        BY <2>2, <4>1, <4>2 DEF ReadDng, WriteDng, UpdateOrientation
    <3>4. pc'[t] # "acquire"
      BY <3>2, RotatorMove
    <3> QED
      BY <2>0, <3>1, <3>3, <3>4 DEF Locked, InHand
  <2>3. CASE ReleaseLock(t)
    <3>1. locks' = locks \ {job[t].id}
      BY <2>0, <2>3 DEF ReleaseLock
    <3> QED
      BY <2>0, <3>1 DEF Locked, InHand
  <2> QED
    BY <1>2, <2>1, <2>2, <2>3 DEF Rotation
<1>3. ASSUME NEW t \in Rotators, NEW i \in DOMAIN pending, Dispatch(t, i), UNCHANGED locks,
             pc[t] \notin RotationLabels
      PROVE  Locked'
  <2>1. \A u \in Rotators \ {t} : pc'[u] = pc[u] /\ job'[u] = job[u]
    <3>1. Goto(t, "acquire") /\ \A u \in Rotators \ {t} : job'[u] = job[u]
      BY <1>3, DispatchShape
    <3>2. \A u \in Threads \ {t} : pc'[u] = pc[u]
      BY <3>1, RotatorMove
    <3> QED
      BY <3>1, <3>2 DEF Rotators, Threads
  <2> QED
    BY <1>1, <1>3, <2>1
<1>4. CASE Plugin \/ Get \/ Tick \/ UNCHANGED vars
  BY <1>1, <1>4 DEF Plugin, Get, Rotate, StartEmbed, FinishEmbed, NotifyPreview, Tick, store, vars
<1>5. ASSUME UNCHANGED <<locks, job>>, \A t \in Rotators : pc[t] \in RotationLabels => pc'[t] = pc[t]
      PROVE  Locked'
  BY <1>1, <1>5
<1>6. ASSUME NEW l, Goto("api", l), UNCHANGED <<locks, job>> PROVE Locked'
  BY <1>5, <1>6 DEF Goto, PcOK, Threads, Rotators
<1>7. CASE Api
  <2>1. CASE Queue
    <3>1. UNCHANGED <<locks, job>>
          /\ pc' = [pc EXCEPT !["api"] = "top", !["manager"] = Notified(@)]
      BY <2>1 DEF Queue, store
    <3>2. \A t \in Rotators : pc[t] \in RotationLabels => pc'[t] = pc[t]
      BY <3>1 DEF PcOK, Threads, Rotators, Notified, RotationLabels
    <3> QED
      BY <1>5, <3>1, <3>2
  <2>2. CASE ~Queue
    <3>1. UNCHANGED <<locks, job>>
      BY <1>7, <2>2 DEF Api, ApiTop, Accept, HandleGet, Find, HashDng, UpdateHash, RecordEdit,
                        store
    <3>2. PICK l : Goto("api", l)
      BY <1>7, <2>2 DEF Api, ApiTop, Accept, HandleGet, Find, HashDng, UpdateHash, RecordEdit,
                        Answer
    <3> QED
      BY <1>6, <3>1, <3>2
  <2> QED
    BY <2>1, <2>2
<1>8. ASSUME NEW t \in Rotators, NEW l, Goto(t, l), UNCHANGED <<locks, job>>,
             pc[t] \notin RotationLabels
      PROVE  Locked'
  BY <1>5, <1>8 DEF Goto, PcOK, Threads, Rotators
<1>9. CASE Manager /\ ~Rotation("manager")
  <2>1. UNCHANGED locks /\ pc["manager"] \notin RotationLabels /\ "manager" \in Rotators
    BY <1>9 DEF Manager, Check, Block, Wake, NextDue, store, RotationLabels, Rotators
  <2>2. CASE UNCHANGED job
    <3>1. PICK l : Goto("manager", l)
      BY <1>9, <2>2 DEF Manager, Check, Block, Wake, NextDue, Dispatch
    <3> QED
      BY <1>8, <2>1, <2>2, <3>1
  <2>3. CASE \E i \in DOMAIN pending : Dispatch("manager", i)
    BY <1>3, <2>1, <2>3
  <2> QED
    BY <1>9, <2>2, <2>3 DEF Manager, Check, Block, Wake, NextDue
<1>10. CASE (Signal \/ Main) /\ ~Rotation("main")
  <2>1. UNCHANGED locks /\ pc["main"] \notin RotationLabels /\ "main" \in Rotators
    BY <1>10 DEF Signal, Main, StopApi, StopRotation, JoinManager, Drain, store, RotationLabels,
                 Rotators
  <2>2. CASE StopRotation
    <3>1. UNCHANGED job /\ pc' = [pc EXCEPT !["main"] = "joinManager", !["manager"] = Notified(@)]
      BY <2>2 DEF StopRotation
    <3>2. \A t \in Rotators : pc[t] \in RotationLabels => pc'[t] = pc[t]
      BY <2>1, <3>1 DEF PcOK, Threads, Rotators, Notified, RotationLabels
    <3> QED
      BY <1>5, <2>1, <3>1, <3>2
  <2>3. CASE UNCHANGED job /\ ~StopRotation
    <3>1. PICK l : Goto("main", l)
      BY <1>10, <2>3 DEF Signal, Main, StopApi, JoinManager, Drain, Dispatch
    <3> QED
      BY <1>8, <2>1, <2>3, <3>1
  <2>4. CASE \E i \in DOMAIN pending : Dispatch("main", i)
    BY <1>3, <2>1, <2>4
  <2> QED
    BY <1>10, <2>2, <2>3, <2>4 DEF Signal, Main, StopApi, StopRotation, JoinManager, Drain
<1> QED
  BY <1>2, <1>4, <1>7, <1>9, <1>10 DEF Next, Manager, Main, Rotators

(* No lock outlives the dispatch it was taken for (rotation.cpp:83-120),   *)
(* and nothing is left behind when the process ends (rotation.cpp:127), as *)
(* long as no statement fails.                                             *)
THEOREM SyncNothingLeftBehind ==
  ASSUME Faults \cap {"db", "race"} = {} PROVE Spec => []NothingLeftBehind
<1>1. Init => Locked
  BY DEF Init, Locked
<1>2. TypeInv /\ Locked => NothingLeftBehind
  BY DEF TypeInv, Phases, Locked, InHand, NothingLeftBehind, Dispatching
<1> QED
  BY <1>1, <1>2, Typed, LockedStep, PTL DEF Spec

-----------------------------------------------------------------------------
(* The last intent wins.                                                   *)

LEMMA ReliableCalls ==
  ASSUME Reliable
  PROVE  /\ \A t : ~DbFails(t)
         /\ ~Fails("exiftool") /\ Rotated \cap Embedded = {}
  BY DEF Reliable, DbFails, Fails

(* A rotator that dispatches, or is about to, is the only one with a job.  *)
LEMMA Alone ==
  ASSUME TypeInv, NEW t \in Rotators, pc[t] \in RotationLabels \cup {After(t)}
  PROVE  \A u \in Rotators \ {t} : job[u] = NoJob
  BY DEF TypeInv, Phases, JobOK, Rotators, RotationLabels, After

LEMMA Naturals ==
  ASSUME TypeInv
  PROVE  /\ \A i \in Imports : asked[i] \in Nat /\ dng[i].orient \in Nat /\ rows[i].orient \in Nat
         /\ \A i \in DOMAIN pending : pending[i].orient \in Nat /\ i \in Imports
         /\ \A t \in Rotators : job[t] # NoJob =>
              job[t].orient \in Nat /\ job[t].id \in Rotated /\ job[t].id \in Imports
         /\ sent \in Nat /\ Len(backlog) \in Nat
         /\ \A k \in 1..Len(backlog) : backlog[k].kind = "rotate" =>
              backlog[k].orient \in Nat /\ backlog[k].id \in Rotated
         /\ req.kind = "rotate" => req.orient \in Nat /\ req.id \in Rotated /\ req.id \in Imports
<1> USE Numbers DEF TypeInv
<1>1. \A o \in Orients : o \in Nat
  OBVIOUS
<1>2. \A i \in Imports : asked[i] \in Nat /\ dng[i].orient \in Nat /\ rows[i].orient \in Nat
  BY <1>1 DEF UserOK, StoreOK, Content
<1>3. \A i \in DOMAIN pending : pending[i].orient \in Nat /\ i \in Imports
  BY <1>1 DEF PendingOK
<1>4. \A t \in Rotators : job[t] # NoJob =>
        job[t].orient \in Nat /\ job[t].id \in Rotated /\ job[t].id \in Imports
  BY <1>1 DEF JobOK, Rotates, Held
<1>5. sent \in Nat /\ Len(backlog) \in Nat
  BY LenProperties DEF UserOK, ApiOK
<1>6. \A k \in 1..Len(backlog) : backlog[k].kind = "rotate" =>
        backlog[k].orient \in Nat /\ backlog[k].id \in Rotated
  <2>1. \A k \in 1..Len(backlog) : backlog[k] \in Waiting
    BY ElementOfSeq DEF ApiOK
  <2>2. \A r \in Waiting : r.kind = "rotate" => r.orient \in Nat /\ r.id \in Rotated
    BY <1>1 DEF Waiting, Previews, Rotates
  <2> QED
    BY <2>1, <2>2
<1>7. req.kind = "rotate" => req.orient \in Nat /\ req.id \in Rotated /\ req.id \in Imports
  BY <1>1 DEF PcOK, RequestOK, ApiLabels, Previews, Rotates, NoRequest
<1> QED
  BY <1>2, <1>3, <1>4, <1>5, <1>6, <1>7

LEMMA InitRotation == Init => RotationInv
<1> SUFFICES ASSUME Init PROVE RotationInv
  OBVIOUS
<1> USE DEF Init
<1>1. Coming
  <2>1. Len(backlog) = 0 /\ req.kind # "rotate" /\ \A i \in Imports : asked[i] <= sent
    BY EmptySeq DEF NoRequest
  <2> QED
    BY <2>1 DEF Coming
<1>2. Underway
  BY DEF Underway, Quiet, Fresh, Rotators
<1>3. Written /\ Upright
  BY Numbers DEF Written, Upright, NoJob, Fresh, Rotators
<1> QED
  BY <1>1, <1>2, <1>3 DEF RotationInv

(* Steps that leave the requests alone, or drop one.                       *)
LEMMA ComingKept ==
  ASSUME Coming, UNCHANGED <<asked, sent, backlog>>, req' = req \/ req'.kind # "rotate"
  PROVE  Coming'
  BY DEF Coming

LEMMA ComingJoined ==
  ASSUME TypeInv, Coming, UNCHANGED <<asked, req>>, NEW r, backlog' = Append(backlog, r),
         \/ UNCHANGED sent /\ r.kind # "rotate"
         \/ sent' = sent + 1 /\ r.orient = sent + 1
  PROVE  Coming'
<1> DEFINE n == Len(backlog)
<1>0. /\ n \in Nat /\ Len(backlog') = n + 1 /\ backlog'[n + 1] = r
      /\ \A k \in 1..n : backlog'[k] = backlog[k]
  BY AppendProperties DEF TypeInv, ApiOK
<1>1. /\ sent \in Nat /\ sent' \in Nat /\ sent <= sent'
      /\ r.kind = "rotate" => r.orient = sent' /\ sent' = sent + 1
  BY Naturals
<1>2. /\ \A i \in Imports : asked[i] \in Nat /\ asked[i] <= sent
      /\ req.kind = "rotate" => req.orient \in Nat /\ req.orient <= sent
      /\ \A k \in 1..n : backlog[k].kind = "rotate" =>
           backlog[k].orient \in Nat /\ backlog[k].orient <= sent
  BY Naturals DEF Coming
<1>3. \A k \in 1..(n + 1) : k \in 1..n \/ k = n + 1
  BY <1>0
<1> HIDE DEF n
<1>4. \A i \in Imports : asked'[i] <= sent'
  BY <1>1, <1>2
<1>5. req'.kind = "rotate" => req'.orient <= sent' /\ \A i \in Imports : asked'[i] < req'.orient
  BY <1>1, <1>2 DEF Coming
<1>6. ASSUME NEW k \in 1..(n + 1), backlog'[k].kind = "rotate"
      PROVE  /\ backlog'[k].orient <= sent'
             /\ \A i \in Imports : asked'[i] < backlog'[k].orient
             /\ req'.kind = "rotate" => req'.orient < backlog'[k].orient
  <2>1. CASE k \in 1..n
    <3>1. backlog'[k] = backlog[k]
      BY <1>0, <2>1
    <3> QED
      BY <1>1, <1>2, <1>6, <2>1, <3>1 DEF Coming, n
  <2>2. CASE k = n + 1
    <3>1. backlog'[k].orient = sent' /\ sent' = sent + 1
      BY <1>0, <1>1, <1>6, <2>2
    <3> QED
      BY <1>1, <1>2, <3>1
  <2> QED
    BY <1>3, <2>1, <2>2
<1>7. ASSUME NEW k \in 1..(n + 1), NEW m \in 1..(n + 1), k < m,
             backlog'[k].kind = "rotate", backlog'[m].kind = "rotate"
      PROVE  backlog'[k].orient < backlog'[m].orient
  <2>1. CASE m = n + 1
    <3>1. backlog'[m].orient = sent' /\ sent' = sent + 1
      BY <1>0, <1>1, <1>7, <2>1
    <3>2. k \in 1..n /\ backlog'[k] = backlog[k]
      BY <1>0, <1>7, <2>1
    <3>3. backlog[k].orient \in Nat /\ backlog[k].orient <= sent
      BY <1>2, <1>7, <3>2 DEF n
    <3> QED
      BY <1>1, <3>1, <3>2, <3>3
  <2>2. CASE m \in 1..n
    <3>1. k \in 1..n
      BY <1>0, <1>7, <2>2
    <3>2. backlog'[k] = backlog[k] /\ backlog'[m] = backlog[m]
      BY <1>0, <2>2, <3>1
    <3> QED
      BY <1>7, <2>2, <3>1, <3>2 DEF Coming, n
  <2> QED
    BY <1>3, <2>1, <2>2
<1> QED
  BY <1>0, <1>4, <1>5, <1>6, <1>7 DEF Coming

LEMMA ComingAccepted ==
  ASSUME TypeInv, Coming, UNCHANGED <<asked, sent>>, backlog # << >>,
         backlog' = Tail(backlog), req' = Head(backlog)
  PROVE  Coming'
<1>1. /\ Len(backlog) \in Nat /\ 1 \in 1..Len(backlog) /\ req' = backlog[1]
      /\ \A k \in 1..Len(backlog') : /\ k + 1 \in 1..Len(backlog) /\ 1 < k + 1
                                      /\ backlog'[k] = backlog[k + 1]
      /\ Len(backlog') \in Nat
  <2>1. /\ backlog \in Seq(Waiting) /\ Len(backlog) \in Nat /\ Len(backlog) # 0
        /\ req' = backlog[1]
    BY HeadTailProperties, LenProperties, EmptySeq DEF TypeInv, ApiOK
  <2>2. Len(backlog') = Len(backlog) - 1
        /\ \A k \in 1..Len(backlog') : backlog'[k] = backlog[k + 1]
    BY HeadTailProperties DEF TypeInv, ApiOK
  <2> QED
    BY <2>1, <2>2
<1>2. \A i \in Imports : asked'[i] <= sent'
  BY DEF Coming
<1>3. req'.kind = "rotate" => req'.orient <= sent' /\ \A i \in Imports : asked'[i] < req'.orient
  BY <1>1 DEF Coming
<1>4. ASSUME NEW k \in 1..Len(backlog'), backlog'[k].kind = "rotate"
      PROVE  /\ backlog'[k].orient <= sent'
             /\ \A i \in Imports : asked'[i] < backlog'[k].orient
             /\ req'.kind = "rotate" => req'.orient < backlog'[k].orient
  <2>1. PICK m \in 1..Len(backlog) : m = k + 1 /\ 1 < m /\ backlog'[k] = backlog[m]
    BY <1>1
  <2> QED
    BY <1>1, <1>4, <2>1 DEF Coming
<1>5. ASSUME NEW k \in 1..Len(backlog'), NEW m \in 1..Len(backlog'), k < m,
             backlog'[k].kind = "rotate", backlog'[m].kind = "rotate"
      PROVE  backlog'[k].orient < backlog'[m].orient
  <2>1. PICK k1 \in 1..Len(backlog) : k1 = k + 1 /\ backlog'[k] = backlog[k1]
    BY <1>1
  <2>2. PICK m1 \in 1..Len(backlog) : m1 = m + 1 /\ backlog'[m] = backlog[m1]
    BY <1>1
  <2>3. k1 < m1
    BY <1>1, <1>5, <2>1, <2>2
  <2> QED
    BY <1>5, <2>1, <2>2, <2>3 DEF Coming
<1> QED
  BY <1>2, <1>3, <1>4, <1>5 DEF Coming

(* The clients ask for one orientation after the other (betterembeds.lua). *)
LEMMA ComingUser == ASSUME TypeInv, Coming, Plugin \/ Get \/ Tick PROVE Coming'
<1>0. UNCHANGED <<asked, req>>
  BY DEF Plugin, Get, Rotate, StartEmbed, FinishEmbed, NotifyPreview, Tick, apiVars, rotVars, queued
<1>1. CASE UNCHANGED <<backlog, sent>>
  BY <1>0, <1>1, ComingKept
<1>2. ASSUME NEW r, r.kind # "rotate", Connect(r), UNCHANGED sent PROVE Coming'
  BY <1>0, <1>2, ComingJoined DEF Connect
<1>3. CASE Get
  <2>1. Connect([kind |-> "get"]) /\ UNCHANGED sent
    BY <1>3 DEF Get, userVars
  <2> QED
    BY <1>2, <2>1
<1>4. ASSUME NEW i \in Imports, Rotate(i) PROVE Coming'
  <2> DEFINE r == [kind |-> "rotate", id |-> i, orient |-> sent + 1]
  <2>1. backlog' = Append(backlog, r) /\ sent' = sent + 1 /\ r.orient = sent + 1
    BY <1>4 DEF Rotate, Connect
  <2> QED
    BY <1>0, <2>1, ComingJoined
<1>5. CASE NotifyPreview /\ ~UNCHANGED backlog
  <2>1. Connect([kind |-> "preview", id |-> plugin.id]) /\ UNCHANGED sent
    BY <1>5 DEF NotifyPreview
  <2> QED
    BY <1>2, <2>1
<1>6. CASE Tick \/ FinishEmbed \/ (NotifyPreview /\ UNCHANGED backlog)
  BY <1>1, <1>6 DEF Tick, FinishEmbed, NotifyPreview, userVars
<1>7. ASSUME NEW i \in Imports, StartEmbed(i) PROVE Coming'
  BY <1>1, <1>7 DEF StartEmbed
<1> QED
  BY <1>3, <1>4, <1>5, <1>6, <1>7 DEF Plugin

(* The HTTP thread takes one request after the other (api.cpp:221-230).    *)
LEMMA ComingApi == ASSUME TypeInv, Coming, Api, ~Queue PROVE Coming'
<1>0. UNCHANGED <<asked, sent>>
  BY DEF Api, ApiTop, Accept, HandleGet, Find, HashDng, UpdateHash, RecordEdit, rotVars, queued,
         userVars
<1>1. CASE Accept
  BY <1>0, <1>1, ComingAccepted DEF Accept
<1>2. CASE ~Accept
  <2>1. UNCHANGED backlog
    BY <1>2 DEF Api, ApiTop, HandleGet, Find, HashDng, UpdateHash, RecordEdit
  <2>2. req' = req \/ req'.kind # "rotate"
    BY <1>2 DEF Api, ApiTop, HandleGet, Find, HashDng, UpdateHash, RecordEdit, apiVars, Answer,
                NoRequest
  <2> QED
    BY <1>0, <2>1, <2>2, ComingKept
<1> QED
  BY <1>1, <1>2

(* What Queue makes the last intent is newer than the one before it.       *)
LEMMA ComingQueue == ASSUME TypeInv, Coming, Queue PROVE Coming'
<1> DEFINE i == req.id
           o == req.orient
<1>1. /\ UNCHANGED <<sent, backlog>> /\ pc["api"] = "queue" /\ req' = NoRequest
      /\ asked' = [asked EXCEPT ![i] = o]
  BY DEF Queue, userVars
<1>2. req.kind = "rotate" /\ i \in Imports /\ o \in Nat
  BY <1>1, Numbers DEF TypeInv, RequestOK, Rotates, Orients
<1>3. asked'[i] = o /\ \A j \in Imports \ {i} : asked'[j] = asked[j]
  BY <1>1, <1>2 DEF TypeInv, UserOK
<1>4. \A j \in Imports : asked[j] \in Nat /\ asked[j] < o
  BY <1>2, Naturals DEF Coming
<1>5. o <= sent /\ sent \in Nat
  BY <1>2, Naturals DEF Coming
<1>6. \A k \in 1..Len(backlog) : backlog[k].kind = "rotate" =>
        backlog[k].orient \in Nat /\ o < backlog[k].orient
  BY <1>2, Naturals DEF Coming
<1> HIDE DEF i, o
<1>7. \A j \in Imports : asked'[j] \in Nat /\ asked'[j] <= o
  BY <1>2, <1>3, <1>4
<1>8. \A j \in Imports : asked'[j] <= sent'
  BY <1>1, <1>2, <1>5, <1>7
<1>9. \A k \in 1..Len(backlog) : backlog[k].kind = "rotate" =>
        \A j \in Imports : asked'[j] < backlog[k].orient
  BY <1>2, <1>6, <1>7
<1> QED
  BY <1>1, <1>8, <1>9 DEF Coming, NoRequest

(* Steps that no rotation is part of.                                      *)
LEMMA UnderwayKept ==
  ASSUME TypeInv, Underway, Written, UNCHANGED <<job, asked>>,
         \A i \in Imports : dng'[i].orient = dng[i].orient /\ rows'[i].orient = rows[i].orient,
         DOMAIN pending' = DOMAIN pending,
         \A i \in DOMAIN pending : pending'[i].orient = pending[i].orient,
         \A t \in Rotators : pc'[t] \in {"orient", "release"} => pc'[t] = pc[t]
  PROVE  Underway' /\ Written'
<1>1. \A i \in Imports : Quiet(i)' <=> Quiet(i)
  BY DEF Quiet, Dispatching
<1>2. \A t \in Rotators : job[t] # NoJob => job[t].id \in Imports
  BY Naturals
<1>3. Underway'
  BY <1>1, <1>2 DEF Underway
<1>4. Written'
  BY <1>2 DEF TypeInv, Written, JobOK, RotationLabels
<1> QED
  BY <1>3, <1>4

LEMMA UprightKept ==
  ASSUME Upright, UNCHANGED <<asked, plugin>>,
         \A i \in Imports : dng'[i].orient = dng[i].orient
  PROVE  Upright'
  BY DEF Upright

LEMMA RotationUser == ASSUME TypeInv, RotationInv, Reliable, Plugin \/ Get \/ Tick PROVE RotationInv'
<1> USE DEF RotationInv
<1>1. UNCHANGED <<pc, job, asked, rows, req>>
  BY DEF Plugin, Get, Rotate, StartEmbed, FinishEmbed, NotifyPreview, Tick, store, apiVars,
         rotVars, queued
<1>2. \A i \in Imports : dng'[i].orient = dng[i].orient
  <2>1. CASE FinishEmbed
    <3>1. plugin.id \in Embedded /\ plugin.held \in Content /\ plugin.held.orient = 0
      BY <2>1 DEF FinishEmbed, TypeInv, UserOK, NoJob, Upright
    <3>2. plugin.id \in Imports \ Rotated /\ dng[plugin.id].orient = 0
      BY <3>1, ReliableCalls, Numbers DEF Upright
    <3>3. [plugin.held EXCEPT !.preview = embeds].orient = 0
      BY <3>1 DEF Content
    <3> QED
      BY <2>1, <3>2, <3>3 DEF FinishEmbed, TypeInv, StoreOK
  <2>2. CASE UNCHANGED dng
    BY <2>2
  <2> QED
    BY <2>1, <2>2 DEF Plugin, Get, Rotate, StartEmbed, NotifyPreview, Tick
<1>3. DOMAIN pending' = DOMAIN pending
      /\ \A i \in DOMAIN pending : pending'[i].orient = pending[i].orient
  <2>1. CASE Tick
    <3>1. \A i \in DOMAIN pending : [pending[i] EXCEPT !.left = Less(@)].orient = pending[i].orient
      BY DEF TypeInv, PendingOK
    <3> QED
      BY <2>1, <3>1 DEF Tick
  <2>2. CASE UNCHANGED pending
    BY <2>2
  <2> QED
    BY <2>1, <2>2 DEF Plugin, Get, Rotate, StartEmbed, FinishEmbed, NotifyPreview, rotVars
<1>4. Underway' /\ Written'
  BY <1>1, <1>2, <1>3, UnderwayKept
<1>5. Coming'
  BY ComingUser
<1>6. Upright'
  <2>1. ASSUME plugin'.kind = "embed" => plugin'.held.orient = 0 PROVE Upright'
    BY <1>1, <1>2, <2>1 DEF Upright
  <2>2. ASSUME NEW i \in Imports, StartEmbed(i) PROVE Upright'
    <3>1. plugin'.held = dng[i] /\ i \in Imports \ Rotated
      BY <2>2, ReliableCalls DEF StartEmbed
    <3> QED
      BY <2>1, <3>1 DEF Upright
  <2>3. CASE FinishEmbed \/ NotifyPreview
    <3>1. plugin'.kind # "embed"
      BY <2>3 DEF FinishEmbed, NotifyPreview, NoJob
    <3> QED
      BY <2>1, <3>1
  <2>4. CASE UNCHANGED plugin
    BY <2>1, <2>4 DEF Upright
  <2> QED
    BY <2>2, <2>3, <2>4 DEF Plugin, Get, Rotate, Tick, userVars
<1> QED
  BY <1>4, <1>5, <1>6

LEMMA RotationApi == ASSUME TypeInv, RotationInv, Reliable, Api, ~Queue PROVE RotationInv'
<1> USE DEF RotationInv
<1>1. UNCHANGED <<dng, job, plugin, asked, pending, sent>>
  BY DEF Api, ApiTop, Accept, HandleGet, Find, HashDng, UpdateHash, RecordEdit, rotVars, queued,
         userVars
<1>2. PICK l : Goto("api", l)
  BY DEF Api, ApiTop, Accept, HandleGet, Find, HashDng, UpdateHash, RecordEdit, Answer
<1>3. \A t \in Rotators : pc'[t] = pc[t]
  BY <1>2 DEF Goto, TypeInv, PcOK, Threads, Rotators
<1>4. \A i \in Imports : rows'[i].orient = rows[i].orient
  <2>1. CASE rows' = HashStored(req)
    BY <2>1 DEF HashStored, TypeInv, StoreOK
  <2>2. CASE UNCHANGED rows
    BY <2>2
  <2> QED
    BY <2>1, <2>2 DEF Api, ApiTop, Accept, HandleGet, Find, HashDng, UpdateHash, RecordEdit, store
<1>5. Underway' /\ Written' /\ Upright'
  BY <1>1, <1>3, <1>4, UnderwayKept, UprightKept
<1>6. Coming'
  BY ComingApi
<1> QED
  BY <1>5, <1>6

LEMMA RotationQueue == ASSUME TypeInv, RotationInv, Queue PROVE RotationInv'
<1> USE DEF RotationInv
<1> DEFINE i == req.id
           o == req.orient
<1>0. /\ UNCHANGED <<dng, rows, job, plugin, sent, backlog>> /\ pc["api"] = "queue"
      /\ req' = NoRequest /\ asked' = [asked EXCEPT ![i] = o]
      /\ pc' = [pc EXCEPT !["api"] = "top", !["manager"] = Notified(@)]
      /\ pending' = [k \in DOMAIN pending \cup {i} |->
                       IF k = i THEN [orient |-> o, left |-> Grace] ELSE pending[k]]
  BY DEF Queue, store, userVars, LastIntent, FullGrace
<1>1. req.kind = "rotate" /\ i \in Rotated /\ i \in Imports /\ o \in Nat
  BY <1>0, Numbers DEF TypeInv, RequestOK, Rotates, Orients
<1>2. /\ \A j \in Imports : asked[j] \in Nat /\ dng[j].orient \in Nat /\ asked[j] <= o
      /\ asked'[i] = o /\ \A j \in Imports \ {i} : asked'[j] = asked[j]
      /\ DOMAIN pending' = DOMAIN pending \cup {i} /\ pending'[i].orient = o
      /\ \A j \in DOMAIN pending \ {i} : pending'[j] = pending[j]
      /\ \A j \in Imports : asked[j] <= asked'[j]
  <2>1. asked'[i] = o /\ \A j \in Imports \ {i} : asked'[j] = asked[j]
    BY <1>0, <1>1 DEF TypeInv, UserOK
  <2>2. \A j \in Imports : asked[j] \in Nat /\ dng[j].orient \in Nat /\ asked[j] <= o
    <3>1. \A j \in Imports : asked[j] \in Nat /\ dng[j].orient \in Nat /\ asked[j] < o
      BY <1>1, Naturals DEF Coming
    <3> QED
      BY <1>1, <3>1
  <2>3. \A j \in Imports : asked[j] <= asked'[j]
    BY <2>1, <2>2
  <2> QED
    BY <1>0, <2>1, <2>2, <2>3
<1> HIDE DEF i, o
<1>3. Coming'
  BY ComingQueue
<1>4. Underway'
  <2>1. \A j \in DOMAIN pending' : pending'[j].orient = asked'[j]
    BY <1>2, Naturals DEF Underway
  <2>2. \A j \in Imports : dng'[j].orient <= asked'[j]
    <3>1. ASSUME NEW j \in Imports PROVE dng'[j].orient <= asked'[j]
      <4>1. dng[j].orient \in Nat /\ asked[j] \in Nat /\ asked[j] <= asked'[j]
            /\ dng[j].orient <= asked[j] /\ asked'[j] \in Nat
        BY <1>1, <1>2, <3>1 DEF Underway
      <4> QED
        BY <1>0, <4>1
    <3> QED
      BY <3>1
  <2>3. ASSUME NEW t \in Rotators, job[t] # NoJob
        PROVE  /\ dng[job[t].id].orient <= job[t].orient /\ job[t].orient <= asked'[job[t].id]
               /\ job[t].id \notin DOMAIN pending' => job[t].orient = asked'[job[t].id]
    <3>1. job[t].id \in Imports /\ job[t].orient \in Nat
      BY <2>3, Naturals
    <3>2. /\ dng[job[t].id].orient <= job[t].orient /\ job[t].orient <= asked[job[t].id]
          /\ job[t].id \notin DOMAIN pending => job[t].orient = asked[job[t].id]
      BY <2>3 DEF Underway
    <3>3. asked[job[t].id] \in Nat /\ asked'[job[t].id] \in Nat /\ asked[job[t].id] <= asked'[job[t].id]
      BY <1>1, <1>2, <3>1
    <3>4. job[t].id \notin DOMAIN pending' =>
            job[t].id \notin DOMAIN pending /\ asked'[job[t].id] = asked[job[t].id]
      BY <1>2, <3>1
    <3>5. \A a, b, c \in Nat : a <= b /\ b <= c => a <= c
      OBVIOUS
    <3>6. job[t].orient <= asked'[job[t].id]
      BY Zenon, <3>1, <3>2, <3>3, <3>5
    <3> QED
      BY Zenon, <3>2, <3>4, <3>6
  <2>4. \A j \in Imports : Quiet(j)' => Quiet(j) /\ j # i
    BY <1>0, <1>2 DEF Quiet, Dispatching
  <2>5. \A j \in Imports : Quiet(j)' => dng'[j].orient = asked'[j] /\ rows'[j].orient = asked'[j]
    BY <1>0, <1>2, <2>4 DEF Underway
  <2> QED
    BY <1>0, <2>1, <2>2, <2>3, <2>5 DEF Underway
<1>5. Written'
  <2>1. \A t \in Rotators : pc'[t] \in {"orient", "release"} => pc'[t] = pc[t]
    BY <1>0 DEF TypeInv, PcOK, Threads, Rotators, Notified
  <2> QED
    BY <1>0, <2>1 DEF Written
<1>6. Upright'
  BY <1>0, <1>1, <1>2 DEF Upright
<1> QED
  BY <1>3, <1>4, <1>5, <1>6

LEMMA RotationDispatch ==
  ASSUME TypeInv, RotationInv, NEW t \in Rotators, pc[t] = After(t),
         NEW i \in DOMAIN pending, Dispatch(t, i),
         UNCHANGED <<dng, rows, backlog, req, asked, sent, plugin>>
  PROVE  RotationInv'
<1> USE DEF RotationInv
<1>0. /\ job'[t] = [kind |-> "rotate", id |-> i, orient |-> pending[i].orient]
      /\ job'[t] # NoJob /\ job'[t].id = i /\ job'[t].orient = pending[i].orient
      /\ \A u \in Rotators \ {t} : job[u] = NoJob /\ job'[u] = NoJob
      /\ job[t] = NoJob /\ i \in Imports
      /\ DOMAIN pending' = DOMAIN pending \ {i}
      /\ \A k \in DOMAIN pending' : pending'[k] = pending[k]
  <2>1. /\ job'[t] = [kind |-> "rotate", id |-> i, orient |-> pending[i].orient]
        /\ DOMAIN pending' = DOMAIN pending \ {i}
        /\ \A k \in DOMAIN pending' : pending'[k] = pending[k]
        /\ \A u \in Rotators \ {t} : job'[u] = job[u]
    BY DispatchShape
  <2>2. \A u \in Rotators \ {t} : job[u] = NoJob
    BY Alone
  <2>3. job[t] = NoJob
    BY DEF TypeInv, JobOK, After, RotationLabels
  <2>4. i \in Imports
    BY Naturals
  <2> QED
    BY <2>1, <2>2, <2>3, <2>4 DEF NoJob
<1>1. Coming' /\ Upright'
  BY ComingKept, UprightKept
<1>2. Underway'
  <2>1. pending[i].orient = asked[i] /\ dng[i].orient <= asked[i] /\ asked[i] \in Nat
    BY <1>0, Naturals DEF Underway
  <2>2. \A j \in Imports : Quiet(j)' => Quiet(j)
    BY <1>0 DEF Quiet, Dispatching
  <2>3. \A j \in DOMAIN pending' : pending'[j].orient = asked'[j]
    BY <1>0 DEF Underway
  <2>4. \A u \in Rotators : job'[u] # NoJob => u = t
    BY <1>0
  <2>5. /\ dng'[job'[t].id].orient <= job'[t].orient /\ job'[t].orient <= asked'[job'[t].id]
        /\ job'[t].orient = asked'[job'[t].id]
    BY <1>0, <2>1
  <2> QED
    BY <2>2, <2>3, <2>4, <2>5 DEF Underway
<1>3. Written'
  <2>1. pc'[t] = "acquire" /\ \A u \in Threads \ {t} : pc'[u] = pc[u]
    BY RotatorMove, DispatchShape
  <2>2. \A u \in Rotators \ {t} : pc'[u] \notin RotationLabels
    BY <1>0, <2>1 DEF TypeInv, JobOK, Rotators, Threads
  <2> QED
    BY <2>1, <2>2 DEF Written, RotationLabels
<1> QED
  BY <1>1, <1>2, <1>3

(* What a dispatch does to the DNG and the row.                            *)
LEMMA RotationWrites ==
  ASSUME TypeInv, RotationInv, Reliable, NEW t \in Rotators, Rotation(t)
  PROVE  RotationInv' /\ \A i \in Imports : dng'[i].orient >= dng[i].orient
<1> USE DEF RotationInv
<1> DEFINE i == job[t].id
           o == job[t].orient
<1>0. /\ pc[t] \in RotationLabels /\ job[t] # NoJob /\ i \in Rotated /\ i \in Imports /\ o \in Nat
      /\ job[t] \in Rotates \cup Held /\ (pc[t] = "write" => job[t] \in Held)
      /\ dng[i].orient <= o /\ o <= asked[i] /\ (i \notin DOMAIN pending => o = asked[i])
  <2>1. pc[t] \in RotationLabels
    BY DEF Rotation, AcquireLock, ReadDng, WriteDng, UpdateOrientation, ReleaseLock,
           RotationLabels
  <2>2. job[t] # NoJob
    BY <2>1 DEF TypeInv, JobOK
  <2> QED
    BY <2>1, <2>2, Naturals DEF TypeInv, JobOK, Underway
<1>1. \A u \in Rotators \ {t} : job[u] = NoJob /\ job'[u] = NoJob
  <2>1. \A u \in Rotators \ {t} : job[u] = NoJob
    BY <1>0, Alone
  <2>2. \A u \in Rotators \ {t} : job'[u] = job[u]
    BY DEF Rotation, AcquireLock, ReadDng, WriteDng, UpdateOrientation, ReleaseLock, Return,
           TypeInv, JobOK
  <2> QED
    BY <2>1, <2>2
<1>2. UNCHANGED <<backlog, req, pending, asked, sent, plugin>> /\ ~DbFails(t) /\ ~Fails("exiftool")
  BY ReliableCalls DEF Rotation, AcquireLock, ReadDng, WriteDng, UpdateOrientation, ReleaseLock,
     apiVars, rotVars, queued, userVars
<1>3. \A j \in Imports : dng[j].orient \in Nat /\ asked[j] \in Nat
  BY Naturals
<1>4. Coming'
  BY <1>2, ComingKept
<1>5. \A u \in Rotators \ {t} : pc[u] \notin RotationLabels
  BY <1>1 DEF TypeInv, JobOK
<1>6. ASSUME NEW l, Goto(t, l), l \notin {"orient", "release"} PROVE Written'
  <2>1. pc'[t] = l /\ \A u \in Rotators \ {t} : pc'[u] = pc[u]
    BY <1>6, RotatorMove DEF Rotators, Threads
  <2> QED
    BY <1>5, <1>6, <2>1 DEF Written, RotationLabels
<1>7. ASSUME job'[t] # NoJob, job'[t].id = i, job'[t].orient = o,
             \A j \in Imports \ {i} : dng'[j] = dng[j] /\ rows'[j] = rows[j],
             dng'[i].orient \in {dng[i].orient, o}
      PROVE  Underway' /\ Upright' /\ \A j \in Imports : dng'[j].orient >= dng[j].orient
  <2>1. dng'[i].orient <= o /\ dng'[i].orient <= asked[i] /\ dng'[i].orient >= dng[i].orient
    BY <1>0, <1>3, <1>7
  <2>2. \A j \in Imports : dng'[j].orient <= asked[j] /\ dng'[j].orient >= dng[j].orient
    BY <1>3, <1>7, <2>1 DEF Underway
  <2>3. \A j \in Imports : Quiet(j)' => Quiet(j) /\ j # i
    BY <1>0, <1>1, <1>2, <1>7 DEF Quiet, Dispatching
  <2>4. \A u \in Rotators : job'[u] # NoJob => u = t
    BY <1>1
  <2>5. Underway'
    BY <1>0, <1>2, <1>7, <2>1, <2>2, <2>3, <2>4 DEF Underway
  <2>6. Upright'
    BY <1>0, <1>2, <1>7 DEF Upright
  <2> QED
    BY <2>2, <2>5, <2>6
<1>8. CASE AcquireLock(t)
  <2>1. UNCHANGED <<dng, rows, job>> /\ Goto(t, "read")
    BY <1>2, <1>8 DEF AcquireLock
  <2> QED
    BY <1>0, <1>4, <1>6, <1>7, <2>1
<1>9. CASE ReadDng(t)
  <2>1. UNCHANGED <<dng, rows>> /\ Goto(t, "write")
        /\ job' = [job EXCEPT ![t] = [kind |-> "rotate", id |-> @.id, orient |-> @.orient,
                                      held |-> dng[@.id]]]
    BY <1>2, <1>9 DEF ReadDng, store
  <2>2. job'[t] # NoJob /\ job'[t].id = i /\ job'[t].orient = o
    BY <2>1 DEF TypeInv, JobOK, NoJob
  <2> QED
    BY <1>0, <1>4, <1>6, <1>7, <2>1, <2>2
<1>10. CASE WriteDng(t)
  <2>1. UNCHANGED <<rows, job>> /\ Goto(t, "orient") /\ pc[t] = "write"
        /\ dng' = [dng EXCEPT ![i] = [job[t].held EXCEPT !.orient = o]]
    BY <1>10 DEF WriteDng, store
  <2>2. [job[t].held EXCEPT !.orient = o].orient = o
    BY <1>0, <2>1 DEF Held, Content
  <2>3. dng'[i].orient = o /\ \A j \in Imports \ {i} : dng'[j] = dng[j]
    BY <1>0, <2>1, <2>2 DEF TypeInv, StoreOK
  <2>4. Written'
    <3>1. pc'[t] = "orient" /\ \A u \in Rotators \ {t} : pc'[u] = pc[u]
      BY <2>1, RotatorMove DEF Rotators, Threads
    <3> QED
      BY <1>5, <2>1, <2>3, <3>1 DEF Written, RotationLabels
  <2> QED
    BY <1>0, <1>4, <1>7, <2>1, <2>3, <2>4
<1>11. CASE UpdateOrientation(t)
  <2>1. UNCHANGED <<dng, job>> /\ Goto(t, "release") /\ pc[t] = "orient"
        /\ rows' = [rows EXCEPT ![i].orient = o]
    BY <1>2, <1>11 DEF UpdateOrientation, RowWrite
  <2>2. rows'[i].orient = o /\ \A j \in Imports \ {i} : rows'[j] = rows[j]
    BY <1>0, <2>1 DEF TypeInv, StoreOK
  <2>3. Written'
    <3>1. pc'[t] = "release" /\ \A u \in Rotators \ {t} : pc'[u] = pc[u]
      BY <2>1, RotatorMove DEF Rotators, Threads
    <3> QED
      BY <1>5, <2>1, <2>2, <3>1 DEF Written, RotationLabels
  <2> QED
    BY <1>0, <1>4, <1>7, <2>1, <2>2, <2>3
<1>12. CASE ReleaseLock(t)
  <2>1. UNCHANGED <<dng, rows>> /\ Return(t) /\ pc[t] = "release"
    BY <1>2, <1>12 DEF ReleaseLock
  <2>2. Goto(t, After(t)) /\ job'[t] = NoJob
    BY <2>1 DEF Return, After, TypeInv, JobOK
  <2>3. Written'
    BY <1>6, <2>2 DEF After
  <2>4. dng[i].orient = o /\ rows[i].orient = o
    BY <2>1 DEF Written
  <2>5. \A j \in Imports : Quiet(j)' => dng'[j].orient = asked'[j] /\ rows'[j].orient = asked'[j]
    <3>1. \A j \in Imports \ {i} : Quiet(j)' => Quiet(j)
      BY <1>1, <1>2 DEF Quiet, Dispatching
    <3>2. \A j \in Imports : Quiet(j)' /\ j = i =>
            dng'[j].orient = asked'[j] /\ rows'[j].orient = asked'[j]
      BY <1>0, <1>2, <2>1, <2>4 DEF Quiet
    <3> QED
      BY <1>2, <2>1, <3>1, <3>2 DEF Underway
  <2>6. \A u \in Rotators : job'[u] = NoJob
    BY <1>1, <2>2
  <2>7. Underway'
    BY <1>2, <2>1, <2>5, <2>6 DEF Underway
  <2>8. Upright'
    BY <1>2, <2>1, UprightKept
  <2> QED
    BY <1>3, <1>4, <2>1, <2>3, <2>7, <2>8
<1> QED
  BY <1>8, <1>9, <1>10, <1>11, <1>12 DEF Rotation

(* The steps of the two threads between dispatches.                        *)
LEMMA RotationLoops ==
  ASSUME TypeInv, RotationInv, \/ Manager /\ ~Rotation("manager")
                               \/ (Signal \/ Main) /\ ~Rotation("main")
  PROVE  RotationInv' /\ UNCHANGED dng
<1> USE DEF RotationInv
<1>1. UNCHANGED <<dng, rows, backlog, req, asked, sent, plugin>>
  BY DEF Manager, Check, Block, Wake, NextDue, Signal, Main, StopApi, StopRotation, JoinManager,
     Drain, store, apiVars, rotVars, queued, userVars
<1> SUFFICES RotationInv'
  BY <1>1
<1>2. ASSUME UNCHANGED <<pending, job>>,
             \A t \in Rotators : pc'[t] \in {"orient", "release"} => pc'[t] = pc[t]
      PROVE  RotationInv'
  BY <1>1, <1>2, ComingKept, UprightKept, UnderwayKept
<1>3. ASSUME UNCHANGED <<pending, job>>, NEW t \in Rotators, NEW l, l \notin {"orient", "release"},
             Goto(t, l)
      PROVE  RotationInv'
  <2>1. \A u \in Rotators : pc'[u] \in {"orient", "release"} => pc'[u] = pc[u]
    BY <1>3, RotatorMove DEF Rotators, Threads
  <2> QED
    BY <1>2, <1>3, <2>1
<1>4. ASSUME NEW t \in Rotators, NEW i \in DOMAIN pending, Dispatch(t, i), pc[t] = After(t)
      PROVE  RotationInv'
  BY <1>1, <1>4, RotationDispatch
<1>5. "manager" \in Rotators /\ "main" \in Rotators
  BY DEF Rotators
<1>6. CASE NextDue
  <2>1. pc["manager"] = After("manager")
    BY <1>6 DEF NextDue, After
  <2>2. CASE UNCHANGED <<pending, job>> /\ Goto("manager", "check")
    BY <1>3, <1>5, <2>2
  <2>3. CASE \E i \in DOMAIN pending : Dispatch("manager", i)
    BY <1>4, <1>5, <2>1, <2>3
  <2> QED
    BY <1>6, <2>2, <2>3 DEF NextDue
<1>7. CASE Drain
  <2>1. pc["main"] = After("main")
    BY <1>7 DEF Drain, After
  <2>2. CASE UNCHANGED <<pending, job>> /\ Goto("main", "done")
    BY <1>3, <1>5, <2>2
  <2>3. CASE \E i \in DOMAIN pending : Dispatch("main", i)
    BY <1>4, <1>5, <2>1, <2>3
  <2> QED
    BY <1>7, <2>2, <2>3 DEF Drain
<1>8. CASE Check \/ Block \/ Wake
  <2>1. UNCHANGED <<pending, job>>
    BY <1>8 DEF Check, Block, Wake, rotVars
  <2>2. PICK l \in {"exited", "doze", "grace", "wait", "pass"} : Goto("manager", l)
    BY <1>8 DEF Check, Block, Wake
  <2> QED
    BY <1>3, <1>5, <2>1, <2>2
<1>9. CASE Signal \/ StopApi \/ JoinManager
  <2>1. UNCHANGED <<pending, job>>
    BY <1>9 DEF Signal, StopApi, JoinManager, rotVars
  <2>2. PICK l \in {"stopApi", "joinApi", "drain"} : Goto("main", l)
    BY <1>9 DEF Signal, StopApi, JoinManager
  <2> QED
    BY <1>3, <1>5, <2>1, <2>2
<1>10. CASE StopRotation
  <2>1. UNCHANGED <<pending, job>>
        /\ pc' = [pc EXCEPT !["main"] = "joinManager", !["manager"] = Notified(@)]
    BY <1>10 DEF StopRotation
  <2>2. \A t \in Rotators : pc'[t] \in {"orient", "release"} => pc'[t] = pc[t]
    BY <2>1 DEF TypeInv, PcOK, Threads, Rotators, Notified
  <2> QED
    BY <1>2, <2>1, <2>2
<1> QED
  BY <1>1, <1>6, <1>7, <1>8, <1>9, <1>10 DEF Manager, Main

LEMMA RotationStep ==
  ASSUME Reliable
  PROVE  TypeInv /\ RotationInv /\ [Next]_vars => RotationInv'
<1> SUFFICES ASSUME TypeInv, RotationInv, [Next]_vars PROVE RotationInv'
  OBVIOUS
<1>1. CASE UNCHANGED vars
  <2>1. Coming' /\ Upright'
    BY <1>1 DEF RotationInv, Coming, Upright, vars, apiVars, rotVars, queued, userVars
  <2>2. Underway' /\ Written'
    BY <1>1, UnderwayKept DEF RotationInv, vars, rotVars, queued, store
  <2> QED
    BY <2>1, <2>2 DEF RotationInv
<1> QED
  BY <1>1, RotationUser, RotationApi, RotationQueue, RotationWrites, RotationLoops
     DEF Next, Manager, Main, Rotators

LEMMA Rotating == ASSUME Reliable PROVE Spec => [](TypeInv /\ RotationInv)
  BY Typed, InitRotation, RotationStep, PTL DEF Spec

(* When nothing is pending for an import, its DNG has the orientation of   *)
(* the last intent queued for it (rotation.cpp:47-60, 67-80, 123-147), if  *)
(* no statement and no exiftool fails and no photo is also embedded.       *)
THEOREM SyncLastIntentWins == ASSUME Reliable PROVE Spec => []LastIntentWins
<1>1. RotationInv => LastIntentWins
  BY DEF RotationInv, Underway, LastIntentWins
<1> QED
  BY <1>1, Rotating, PTL

(* When nothing is pending, the row says what the DNG says                 *)
(* (0001_init.sql:34), under the same assumption.                          *)
THEOREM SyncOrientationAgreed == ASSUME Reliable PROVE Spec => []OrientationAgreed
<1>1. RotationInv => OrientationAgreed
  BY DEF RotationInv, Underway, OrientationAgreed
<1> QED
  BY <1>1, Rotating, PTL

(* An older intent is never written over a newer one (rotation.cpp:47-60   *)
(* and 123-147), under the same assumption.                                *)
THEOREM SyncWrittenInOrder == ASSUME Reliable PROVE Spec => WrittenInOrder
<1>1. ASSUME TypeInv, RotationInv, [Next]_vars
      PROVE  [\A i \in Imports : dng'[i].orient >= dng[i].orient]_vars
  <2>1. \A i \in Imports : dng[i].orient \in Nat
    BY <1>1, Naturals
  <2>2. CASE UNCHANGED dng
    BY <2>1, <2>2
  <2>3. CASE FinishEmbed
    <3>1. plugin.id \in Embedded /\ plugin.held \in Content /\ plugin.held.orient = 0
      BY <1>1, <2>3 DEF FinishEmbed, TypeInv, UserOK, NoJob, RotationInv, Upright
    <3>2. plugin.id \in Imports \ Rotated /\ dng[plugin.id].orient = 0
      BY <1>1, <3>1, ReliableCalls, Numbers DEF RotationInv, Upright
    <3>3. [plugin.held EXCEPT !.preview = embeds].orient = 0
      BY <3>1 DEF Content
    <3>4. \A i \in Imports : dng'[i].orient = dng[i].orient
      BY <1>1, <2>3, <3>2, <3>3 DEF FinishEmbed, TypeInv, StoreOK
    <3> QED
      BY <2>1, <3>4
  <2>4. ASSUME NEW t \in Rotators, Rotation(t)
        PROVE  \A i \in Imports : dng'[i].orient >= dng[i].orient
    BY <1>1, <2>4, RotationWrites
  <2>5. CASE Next /\ ~FinishEmbed /\ ~\E t \in Rotators : Rotation(t)
    <3>1. CASE Manager \/ Signal \/ Main
      BY <1>1, <2>2, <2>5, <3>1, RotationLoops DEF Rotators
    <3>2. CASE Plugin \/ Get \/ Tick \/ Api
      BY <2>2, <2>5, <3>2 DEF Plugin, Get, Rotate, StartEmbed, NotifyPreview, Tick, Api, ApiTop,
         Accept, HandleGet, Find, Queue, HashDng, UpdateHash, RecordEdit
    <3> QED
      BY <2>5, <3>1, <3>2 DEF Next
  <2>6. CASE UNCHANGED vars
    BY <2>6
  <2> QED
    BY <1>1, <2>3, <2>4, <2>5, <2>6
<1> QED
  BY <1>1, Rotating, PTL DEF Spec, WrittenInOrder

-----------------------------------------------------------------------------
(* The recorded hash is current.                                           *)

LEMMA HeardCalls ==
  ASSUME Heard
  PROVE  (\A t : ~DbFails(t)) /\ ~Fails("hash") /\ ~Fails("notify")
  BY DEF Heard, DbFails, Fails

(* Steps that no embed and no hash is part of.                             *)
LEMMA PreviewKept ==
  ASSUME PreviewInv, UNCHANGED <<plugin, backlog, req>>,
         \A i \in Imports \ Rotated : dng'[i] = dng[i] /\ rows'[i].hash = rows[i].hash,
         pc'["api"] = pc["api"]
  PROVE  PreviewInv'
  BY DEF PreviewInv, Announced

LEMMA PreviewUser == ASSUME TypeInv, PreviewInv, Heard, Plugin \/ Get \/ Tick PROVE PreviewInv'
<1>1. UNCHANGED <<pc, req, rows>>
  BY DEF Plugin, Get, Rotate, StartEmbed, FinishEmbed, NotifyPreview, Tick, store, apiVars
<1>2. ASSUME \A i \in Imports : Announced(i) => Announced(i)' \/ pc["api"] = "exited",
             \A i \in Imports : ~Announced(i)' => dng'[i] = dng[i]
      PROVE  PreviewInv'
  BY <1>1, <1>2 DEF PreviewInv
<1>3. ASSUME NEW r, Connect(r)
      PROVE  /\ Len(backlog') = Len(backlog) + 1 /\ Len(backlog) \in Nat
             /\ backlog'[Len(backlog) + 1] = r
             /\ \A k \in 1..Len(backlog) : backlog'[k] = backlog[k]
             /\ 1..Len(backlog) \subseteq 1..Len(backlog') /\ Len(backlog) + 1 \in 1..Len(backlog')
  <2>1. backlog \in Seq(Waiting) /\ backlog' = Append(backlog, r) /\ Len(backlog) \in Nat
    BY <1>3, LenProperties DEF TypeInv, ApiOK, Connect
  <2>2. /\ Len(backlog') = Len(backlog) + 1 /\ backlog'[Len(backlog) + 1] = r
        /\ \A k \in 1..Len(backlog) : backlog'[k] = backlog[k]
    BY <2>1, AppendProperties
  <2> QED
    BY <2>1, <2>2
<1>4. ASSUME UNCHANGED <<plugin, dng>>, \E r : Connect(r) PROVE PreviewInv'
  <2>1. PICK r : Connect(r)
    BY <1>4
  <2>2. \A i \in Imports : Announced(i) => Announced(i)'
    BY <1>3, <1>4, <2>1 DEF Announced
  <2> QED
    BY <1>2, <1>4, <2>2
<1>5. CASE Get
  BY <1>4, <1>5 DEF Get, userVars
<1>6. ASSUME NEW i \in Imports, Rotate(i) PROVE PreviewInv'
  BY <1>4, <1>6 DEF Rotate
<1>7. ASSUME NEW i \in Imports, StartEmbed(i) PROVE PreviewInv'
  <2>1. UNCHANGED <<dng, backlog>> /\ plugin = NoJob
    BY <1>7 DEF StartEmbed
  <2>2. \A j \in Imports : Announced(j) => Announced(j)'
    BY <2>1 DEF Announced
  <2> QED
    BY <1>2, <2>1, <2>2
<1>8. CASE FinishEmbed
  <2> DEFINE i == plugin.id
  <2>1. /\ plugin' = [kind |-> "notify", id |-> i] /\ UNCHANGED backlog /\ plugin # NoJob
        /\ dng' = [dng EXCEPT ![i] = [plugin.held EXCEPT !.preview = embeds]]
    BY <1>8 DEF FinishEmbed, NoJob
  <2>2. plugin' # NoJob /\ plugin'.id = i
    BY <2>1 DEF NoJob
  <2>3. \A j \in Imports : Announced(j) => Announced(j)'
    BY <2>1, <2>2 DEF Announced
  <2>4. \A j \in Imports : ~Announced(j)' => j # i
    BY <2>2 DEF Announced
  <2>5. \A j \in Imports : j # i => dng'[j] = dng[j]
    BY <2>1 DEF TypeInv, StoreOK
  <2> QED
    BY <1>2, <2>3, <2>4, <2>5
<1>9. CASE NotifyPreview
  <2>1. UNCHANGED dng /\ plugin' = NoJob
    BY <1>9 DEF NotifyPreview
  <2>2. CASE pc["api"] = "exited"
    BY <1>1, <2>2 DEF PreviewInv
  <2>3. CASE Connect([kind |-> "preview", id |-> plugin.id])
    <3>1. \A j \in Imports : Announced(j) => Announced(j)'
      <4> DEFINE r == [kind |-> "preview", id |-> plugin.id]
      <4>1. /\ backlog'[Len(backlog) + 1] = r /\ r.kind = "preview" /\ r.id = plugin.id
            /\ \A k \in 1..Len(backlog) : backlog'[k] = backlog[k]
            /\ 1..Len(backlog) \subseteq 1..Len(backlog') /\ Len(backlog) + 1 \in 1..Len(backlog')
        BY <1>3, <2>3
      <4> HIDE DEF r
      <4>2. ASSUME NEW j \in Imports, plugin.id = j PROVE Announced(j)'
        BY <4>1, <4>2 DEF Announced
      <4>3. ASSUME NEW j \in Imports, NEW k \in 1..Len(backlog),
                   backlog[k].kind = "preview" /\ backlog[k].id = j
            PROVE  Announced(j)'
        BY <4>1, <4>3 DEF Announced
      <4> QED
        BY <4>2, <4>3 DEF Announced
    <3> QED
      BY <1>2, <2>1, <3>1
  <2> QED
    BY <1>9, <2>2, <2>3, HeardCalls DEF NotifyPreview
<1>10. CASE Tick
  BY <1>2, <1>10 DEF Tick, userVars, Announced
<1> QED
  BY <1>5, <1>6, <1>7, <1>8, <1>9, <1>10 DEF Plugin

LEMMA PreviewAccept == ASSUME TypeInv, PreviewInv, Accept PROVE PreviewInv'
<1>1. /\ UNCHANGED <<plugin, dng, rows>> /\ req' = backlog[1] /\ req = NoRequest
      /\ pc["api"] = "accept" /\ Goto("api", IF Head(backlog).kind = "get" THEN "get" ELSE "find")
      /\ backlog # << >> /\ backlog' = Tail(backlog)
  BY HeadTailProperties DEF Accept, TypeInv, RequestOK, ApiOK, store, userVars
<1>2. pc'["api"] \in {"get", "find"}
  BY <1>1 DEF Goto, TypeInv, PcOK, Threads
<1>3. /\ Len(backlog) \in Nat /\ Len(backlog) # 0 /\ Len(backlog') = Len(backlog) - 1
      /\ \A k \in 1..Len(backlog') : backlog'[k] = backlog[k + 1]
  BY <1>1, HeadTailProperties, LenProperties, EmptySeq DEF TypeInv, ApiOK
<1>4. \A k \in 1..Len(backlog) : k # 1 =>
        \E m \in 1..Len(backlog') : backlog'[m] = backlog[k]
  <2> SUFFICES ASSUME NEW k \in 1..Len(backlog), k # 1
               PROVE  \E m \in 1..Len(backlog') : backlog'[m] = backlog[k]
    OBVIOUS
  <2>1. k - 1 \in 1..Len(backlog') /\ (k - 1) + 1 = k
    BY <1>3
  <2> QED
    BY <1>3, <2>1
<1>5. ASSUME NEW i \in Imports, ~Announced(i)', Announced(i)
      PROVE  req'.kind = "preview" /\ req'.id = i
  BY <1>1, <1>4, <1>5 DEF Announced
<1> QED
  BY <1>1, <1>2, <1>5 DEF PreviewInv, NoRequest

LEMMA PreviewApi == ASSUME TypeInv, PreviewInv, Heard, Api, ~Accept PROVE PreviewInv'
<1>1. UNCHANGED <<dng, backlog, plugin>> /\ pc["api"] # "exited" /\ \A t : ~DbFails(t)
  BY HeardCalls DEF Api, ApiTop, HandleGet, Find, Queue, HashDng, UpdateHash, RecordEdit, userVars
<1>2. \A i : Announced(i)' <=> Announced(i)
  BY <1>1 DEF Announced
<1>3. ASSUME NEW l, Goto("api", l) PROVE pc'["api"] = l
  BY <1>3, ApiMove
<1>4. ASSUME UNCHANGED rows, req' = NoRequest, pc'["api"] \notin {"sync", "audit"},
             req.kind # "preview"
      PROVE  PreviewInv'
  BY <1>1, <1>2, <1>4 DEF PreviewInv
<1>5. CASE ApiTop
  <2>1. UNCHANGED <<rows, req>> /\ pc["api"] = "top"
        /\ Goto("api", IF apiStop THEN "exited" ELSE "accept")
    BY <1>5 DEF ApiTop, store, apiVars
  <2>2. req = NoRequest /\ req.kind # "preview"
    BY <2>1 DEF TypeInv, RequestOK, NoRequest
  <2> QED
    BY <1>3, <1>4, <2>1, <2>2
<1>6. CASE HandleGet
  <2>1. UNCHANGED rows /\ req' = NoRequest /\ pc["api"] = "get" /\ Goto("api", "top")
    BY <1>6 DEF HandleGet, Answer, store
  <2>2. req.kind # "preview"
    BY <2>1 DEF TypeInv, RequestOK
  <2> QED
    BY <1>3, <1>4, <2>1, <2>2
<1>7. CASE Find
  <2>1. UNCHANGED rows /\ pc["api"] = "find" /\ req \in Previews \cup Rotates
    BY <1>7 DEF Find, store, TypeInv, RequestOK
  <2>2. CASE req.kind = "rotate"
    <3>1. UNCHANGED req /\ Goto("api", "queue")
      BY <1>1, <1>7, <2>2 DEF Find
    <3>2. pc'["api"] = "queue"
      BY <1>3, <3>1
    <3> QED
      BY <1>1, <1>2, <2>1, <2>2, <3>1, <3>2 DEF PreviewInv
  <2>3. CASE req.kind # "rotate"
    <3>1. req' = [kind |-> "preview", id |-> req.id, prev |-> rows[req.id].hash]
          /\ Goto("api", "hash")
      BY <1>1, <1>7, <2>3 DEF Find
    <3>2. pc'["api"] = "hash" /\ req'.kind = req.kind /\ req'.id = req.id
      BY <1>3, <2>1, <2>3, <3>1 DEF Previews, Rotates
    <3> QED
      BY <1>1, <1>2, <2>1, <3>2 DEF PreviewInv
  <2> QED
    BY <2>2, <2>3
<1>8. CASE Queue
  <2>1. /\ UNCHANGED rows /\ req' = NoRequest /\ pc["api"] = "queue"
        /\ pc' = [pc EXCEPT !["api"] = "top", !["manager"] = Notified(@)]
    BY <1>8 DEF Queue, store
  <2>2. req.kind # "preview" /\ pc'["api"] = "top"
    BY <2>1 DEF TypeInv, RequestOK, Rotates, PcOK, Threads
  <2> QED
    BY <1>4, <2>1, <2>2
<1>9. CASE HashDng
  <2>1. /\ UNCHANGED rows /\ pc["api"] = "hash" /\ Goto("api", "sync")
        /\ req \in [kind : {"preview"}, id : Embedded, prev : Content]
        /\ req' = [kind |-> "preview", id |-> req.id, prev |-> req.prev, new |-> dng[req.id]]
    BY <1>9, HeardCalls DEF HashDng, store, TypeInv, RequestOK
  <2>2. /\ pc'["api"] = "sync" /\ req'.kind = "preview" /\ req'.id = req.id
        /\ req.kind = "preview" /\ req'.new = dng[req.id]
    BY <1>3, <2>1
  <2> QED
    BY <1>1, <1>2, <2>1, <2>2 DEF PreviewInv
<1>10. CASE UpdateHash
  <2>1. /\ rows' = [rows EXCEPT ![req.id].hash = req.new] /\ UNCHANGED req /\ pc["api"] = "sync"
        /\ Goto("api", "audit") /\ req.kind = "preview" /\ req.id \in Embedded
    BY <1>1, <1>10 DEF UpdateHash, HashStored, apiVars, TypeInv, RequestOK
  <2>2. pc'["api"] = "audit"
    BY <1>3, <2>1
  <2>3. \A i \in Imports : rows'[i].hash = IF i = req.id THEN req.new ELSE rows[i].hash
    BY <2>1 DEF TypeInv, StoreOK
  <2> QED
    BY <1>1, <1>2, <2>1, <2>2, <2>3 DEF PreviewInv
<1>11. CASE RecordEdit
  <2>1. /\ UNCHANGED rows /\ req' = NoRequest /\ pc["api"] = "audit" /\ Goto("api", "top")
        /\ req.kind = "preview"
    BY <1>11 DEF RecordEdit, Answer, TypeInv, RequestOK
  <2>2. pc'["api"] = "top"
    BY <1>3, <2>1
  <2> QED
    BY <1>1, <1>2, <2>1, <2>2 DEF PreviewInv
<1> QED
  BY <1>5, <1>6, <1>7, <1>8, <1>9, <1>10, <1>11 DEF Api

LEMMA PreviewOthers ==
  ASSUME TypeInv, PreviewInv, Manager \/ Signal \/ Main PROVE PreviewInv'
<1>1. ASSUME NEW t \in Rotators, NEW l, Goto(t, l) PROVE pc'["api"] = pc["api"]
  BY <1>1, RotatorMove DEF Rotators, Threads
<1>2. ASSUME NEW t \in Rotators, Rotation(t) PROVE PreviewInv'
  <2>1. UNCHANGED <<plugin, backlog, req>>
    BY <1>2 DEF Rotation, AcquireLock, ReadDng, WriteDng, UpdateOrientation, ReleaseLock, apiVars,
                userVars
  <2>2. PICK l : Goto(t, l)
    BY <1>2 DEF Rotation, AcquireLock, ReadDng, WriteDng, UpdateOrientation, ReleaseLock, Return
  <2>3. \A i \in Imports \ Rotated : dng'[i] = dng[i]
    <3>1. CASE WriteDng(t)
      <4>1. job[t] # NoJob
        BY <3>1 DEF WriteDng, TypeInv, JobOK, RotationLabels
      <4>2. job[t].id \in Rotated
        BY <4>1, Naturals
      <4> QED
        BY <3>1, <4>2 DEF WriteDng, TypeInv, StoreOK
    <3>2. CASE UNCHANGED dng
      BY <3>2
    <3> QED
      BY <1>2, <3>1, <3>2 DEF Rotation, AcquireLock, ReadDng, UpdateOrientation, ReleaseLock
  <2>4. \A i \in Imports : rows'[i].hash = rows[i].hash
    <3>1. CASE rows' = [rows EXCEPT ![job[t].id].orient = job[t].orient]
      BY <3>1 DEF TypeInv, StoreOK
    <3>2. CASE UNCHANGED rows
      BY <3>2
    <3> QED
      BY <1>2, <3>1, <3>2 DEF Rotation, AcquireLock, ReadDng, WriteDng, UpdateOrientation,
                              ReleaseLock, RowWrite, store
  <2> QED
    BY <1>1, <1>2, <2>1, <2>2, <2>3, <2>4, PreviewKept
<1>3. CASE (Manager /\ ~Rotation("manager")) \/ ((Signal \/ Main) /\ ~Rotation("main"))
  <2>1. UNCHANGED <<plugin, backlog, req, dng, rows>>
    BY <1>3 DEF Manager, Check, Block, Wake, NextDue, Signal, Main, StopApi, StopRotation,
                JoinManager, Drain, store, apiVars, userVars
  <2>2. CASE StopRotation
    <3>1. pc'["api"] = pc["api"]
      BY <2>2 DEF StopRotation, TypeInv, PcOK, Threads
    <3> QED
      BY <2>1, <3>1, PreviewKept
  <2>3. CASE \E t \in Rotators : \E l : Goto(t, l)
    BY <1>1, <2>1, <2>3, PreviewKept
  <2>4. "manager" \in Rotators /\ "main" \in Rotators
    BY DEF Rotators
  <2>5. CASE Manager /\ ~Rotation("manager")
    <3>1. \E l : Goto("manager", l)
      BY <2>5 DEF Manager, Check, Block, Wake, NextDue, Dispatch
    <3> QED
      BY <2>3, <2>4, <3>1
  <2>6. CASE (Signal \/ Main) /\ ~Rotation("main") /\ ~StopRotation
    <3>1. \E l : Goto("main", l)
      BY <2>6 DEF Signal, Main, StopApi, JoinManager, Drain, Dispatch
    <3> QED
      BY <2>3, <2>4, <3>1
  <2> QED
    BY <1>3, <2>2, <2>5, <2>6
<1> QED
  BY <1>2, <1>3 DEF Manager, Main, Rotators

LEMMA PreviewStep ==
  ASSUME Heard
  PROVE  TypeInv /\ PreviewInv /\ [Next]_vars => PreviewInv'
<1> SUFFICES ASSUME TypeInv, PreviewInv, [Next]_vars PROVE PreviewInv'
  OBVIOUS
<1>1. CASE UNCHANGED vars
  BY <1>1, PreviewKept DEF vars, store, apiVars, userVars
<1> QED
  BY <1>1, PreviewUser, PreviewAccept, PreviewApi, PreviewOthers DEF Next

(* The recorded output hash is that of the DNG on disk once the plugin's   *)
(* callbacks have been handled (api.cpp:316-319), for photos that are not  *)
(* rotated, if no statement, no hash and no callback fails.                *)
THEOREM SyncHashIsCurrent == ASSUME Heard PROVE Spec => []HashIsCurrent
<1>1. Init => PreviewInv
  BY DEF Init, PreviewInv, NoRequest
<1>2. PreviewInv => HashIsCurrent
  BY DEF PreviewInv, Announced, HashIsCurrent, Settled, Told
<1> QED
  BY <1>1, <1>2, Typed, PreviewStep, PTL DEF Spec

=============================================================================
