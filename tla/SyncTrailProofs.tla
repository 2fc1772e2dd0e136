-------------------------- MODULE SyncTrailProofs --------------------------
(***************************************************************************)
(* Theorems about Sync that look at history: the grace since the last      *)
(* intent, under any faults; the audit trail of the previews; and how the  *)
(* intents replace one another, as in the abstract Coalescer.              *)
(***************************************************************************)
EXTENDS SyncProofs

-----------------------------------------------------------------------------
(* The clock of the manager and the clock of the photo agree, also while   *)
(* the pass has released the mutex: an intent that comes then takes its    *)
(* photo out of the pass.                                                  *)

GraceInv ==
  /\ \A i \in DOMAIN pending : pending[i].left + since[i] = Grace
  /\ \A i \in due : pending[i].left = 0

LEMMA GraceTypes ==
  ASSUME TypeInv
  PROVE  /\ Grace \in Nat
         /\ \A i \in Imports : since[i] \in 0..Grace
         /\ \A i \in DOMAIN pending : pending[i].left \in 0..Grace /\ i \in Imports
         /\ due \subseteq DOMAIN pending
<1>1. \A i \in DOMAIN pending : pending[i] \in [orient : Orients, left : 0..Grace]
  BY DEF TypeInv, PendingOK
<1>2. \A p \in [orient : Orients, left : 0..Grace] : p.left \in 0..Grace
  OBVIOUS
<1>3. \A i \in DOMAIN pending : i \in Imports
  BY Numbers DEF TypeInv, PendingOK
<1> QED
  BY <1>1, <1>2, <1>3, Numbers DEF TypeInv, UserOK, PendingOK

(* Steps that leave the intents, or some of them, and their times alone.   *)
LEMMA GraceKeptBy ==
  ASSUME GraceInv, UNCHANGED since,
         DOMAIN pending' \subseteq DOMAIN pending,
         \A i \in DOMAIN pending' : pending'[i] = pending[i],
         due' \subseteq DOMAIN pending', \A i \in due' : pending'[i].left = 0
  PROVE  GraceInv'
  BY DEF GraceInv

LEMMA GraceTick == ASSUME TypeInv, GraceInv, Tick PROVE GraceInv'
<1>1. /\ pending' = [i \in DOMAIN pending |-> [pending[i] EXCEPT !.left = Less(@)]]
      /\ since' = [i \in Imports |-> IF since[i] < Grace THEN since[i] + 1 ELSE Grace]
      /\ due' = due
  BY DEF Tick
<1>2. DOMAIN pending' = DOMAIN pending
  BY <1>1
<1>3. \A i \in DOMAIN pending : pending'[i].left = Less(pending[i].left)
  <2>1. \A p \in [orient : Orients, left : 0..Grace] :
          [p EXCEPT !.left = Less(@)].left = Less(p.left)
    OBVIOUS
  <2>2. \A i \in DOMAIN pending : pending[i] \in [orient : Orients, left : 0..Grace]
    BY DEF TypeInv, PendingOK
  <2> QED
    BY <1>1, <2>1, <2>2
<1>4. \A l, s \in 0..Grace :
        l + s = Grace => Less(l) + (IF s < Grace THEN s + 1 ELSE Grace) = Grace
  BY Numbers DEF Less
<1>5. Less(0) = 0
  BY DEF Less
<1>6. \A i \in DOMAIN pending : pending'[i].left + since'[i] = Grace
  BY <1>1, <1>3, <1>4, GraceTypes DEF GraceInv
<1>7. \A i \in due : pending'[i].left = 0
  BY <1>3, <1>5, GraceTypes DEF GraceInv
<1> QED
  BY <1>1, <1>2, <1>6, <1>7 DEF GraceInv

LEMMA GraceQueue == ASSUME TypeInv, GraceInv, Queue PROVE GraceInv'
<1>1. req.id \in Imports
  BY Numbers DEF Queue, TypeInv, RequestOK, Rotates
<1>2. PICK i \in Imports : i = req.id
  BY <1>1
<1>3. /\ pending' = [k \in DOMAIN pending \cup {i} |->
                       IF k = i THEN [orient |-> req.orient, left |-> Grace] ELSE pending[k]]
      /\ since' = [since EXCEPT ![i] = 0] /\ due' = due \ {i}
  BY <1>2 DEF Queue, LastIntent, FullGrace
<1>4. /\ DOMAIN pending' = DOMAIN pending \cup {i} /\ pending'[i].left = Grace
      /\ \A k \in DOMAIN pending \ {i} : pending'[k] = pending[k]
  BY <1>3
<1>5. since'[i] = 0 /\ \A k \in Imports \ {i} : since'[k] = since[k]
  BY <1>3 DEF TypeInv, UserOK
<1>6. Grace + 0 = Grace
  BY Numbers
<1> QED
  BY <1>3, <1>4, <1>5, <1>6, GraceTypes DEF GraceInv

(* The manager's pass and Stop take intents out of the map one by one.     *)
LEMMA GraceDispatch ==
  ASSUME TypeInv, GraceInv, NEW t \in Rotators, NEW i \in DOMAIN pending, Dispatch(t, i),
         UNCHANGED since, due' = due \ {i}
  PROVE  GraceInv'
<1>1. DOMAIN pending' = DOMAIN pending \ {i} /\ \A k \in DOMAIN pending' : pending'[k] = pending[k]
  BY DispatchShape
<1>2. due' \subseteq DOMAIN pending'
  BY <1>1, GraceTypes
<1>3. \A k \in due' : pending'[k].left = 0
  BY <1>1, <1>2 DEF GraceInv
<1> QED
  BY <1>1, <1>2, <1>3, GraceKeptBy

LEMMA GraceStep == TypeInv /\ GraceInv /\ [Next]_vars => GraceInv'
<1> SUFFICES ASSUME TypeInv, GraceInv, [Next]_vars PROVE GraceInv'
  OBVIOUS
<1>1. ASSUME UNCHANGED <<pending, since, due>> PROVE GraceInv'
  BY <1>1, GraceTypes, GraceKeptBy DEF GraceInv
<1>2. CASE UNCHANGED vars
  BY <1>1, <1>2 DEF vars, rotVars, queued
<1>3. CASE Plugin \/ Get \/ Signal
  BY <1>1, <1>3 DEF Plugin, Get, Signal, Rotate, StartEmbed, FinishEmbed, NotifyPreview,
                    rotVars, queued
<1>4. CASE Api /\ ~Queue
  BY <1>1, <1>4 DEF Api, ApiTop, Accept, HandleGet, Find, HashDng, UpdateHash, RecordEdit,
                    rotVars, queued
<1>5. ASSUME NEW t \in Rotators, Rotation(t) PROVE GraceInv'
  BY <1>1, <1>5 DEF Rotation, AcquireLock, ReadDng, WriteDng, UpdateOrientation, ReleaseLock,
                    rotVars, queued
<1>6. CASE Wake
  <2>1. UNCHANGED <<pending, since>> /\ due' = {i \in DOMAIN pending : pending[i].left = 0}
    BY <1>6 DEF Wake, DueNow, queued
  <2> QED
    BY <2>1, GraceKeptBy
<1>7. CASE NextDue
  <2>1. CASE \E i \in due \cap DOMAIN pending : Dispatch("manager", i) /\ due' = due \ {i}
    BY <1>7, <2>1, GraceDispatch DEF NextDue, queued, Rotators
  <2>2. CASE due' = {} /\ UNCHANGED <<pending, job>>
    BY <1>7, <2>2, GraceKeptBy DEF NextDue, queued
  <2> QED
    BY <1>7, <2>1, <2>2 DEF NextDue
<1>8. CASE Drain
  <2>1. pc["main"] = "drain" /\ UNCHANGED <<due, since>>
    BY <1>8 DEF Drain, queued
  <2>2. due = {}
    BY <2>1 DEF TypeInv, Phases, PendingOK, RotationLabels
  <2>3. CASE pending = << >>
    BY <1>1, <1>8, <2>1, <2>3 DEF Drain
  <2>4. CASE pending # << >>
    <3>1. PICK i \in DOMAIN pending : Dispatch("main", i)
      BY <1>8, <2>4 DEF Drain
    <3>2. due' = due \ {i}
      BY <2>1, <2>2
    <3> QED
      BY <2>1, <3>1, <3>2, GraceDispatch DEF Rotators
  <2> QED
    BY <2>3, <2>4
<1>9. CASE Check \/ Block \/ StopApi \/ StopRotation \/ JoinManager
  BY <1>1, <1>9 DEF Check, Block, StopApi, StopRotation, JoinManager, rotVars, queued
<1> QED
  BY <1>2, <1>3, <1>4, <1>5, <1>6, <1>7, <1>8, <1>9, GraceTick, GraceQueue
     DEF Next, Api, Manager, Main, Rotators

LEMMA Graced == Spec => [](TypeInv /\ GraceInv)
<1>1. Init => GraceInv
  BY DEF Init, GraceInv
<1> QED
  BY <1>1, Typed, GraceStep, PTL DEF Spec

(* The manager dispatches a rotation only when grace_ms have passed since  *)
(* the last intent for that photo (rotation.cpp:47-60 sets the deadline    *)
(* anew, 123-147 serves those that are past it), whatever fails and        *)
(* whenever an intent arrives, also while the pass dispatches another one. *)
THEOREM SyncGraceKept == Spec => GraceKept
<1> DEFINE Whole == \A i \in DOMAIN pending :
                      i \notin DOMAIN pending' /\ pc["manager"] = "pass"
                        /\ pc'["manager"] = "acquire" => since[i] = Grace
<1>1. TypeInv /\ GraceInv /\ [Next]_vars => [Whole]_vars
  <2> SUFFICES ASSUME TypeInv, GraceInv, Next, NEW i \in DOMAIN pending,
                      i \notin DOMAIN pending', pc["manager"] = "pass",
                      pc'["manager"] = "acquire"
               PROVE  since[i] = Grace
    BY DEF vars, rotVars
  <2>1. "main" \in Rotators /\ "manager" \in Threads \ {"main"}
    BY DEF Rotators, Threads
  <2>2. \A l : Goto("main", l) => pc'["manager"] = pc["manager"]
    BY <2>1, RotatorMove
  <2>3. ~(Plugin \/ Get \/ Signal \/ Api \/ Tick)
    <3>1. ~(Plugin \/ Get \/ Signal \/ Tick)
      BY DEF Plugin, Get, Signal, Tick, Rotate, StartEmbed, FinishEmbed, NotifyPreview, rotVars
    <3>2. ~Api
      BY DEF Api, ApiTop, Accept, HandleGet, Find, Queue, HashDng, UpdateHash, RecordEdit, rotVars
    <3> QED
      BY <3>1, <3>2
  <2>4. ~Main
    <3>1. pc'["manager"] # pc["manager"]
      OBVIOUS
    <3>2. ~Rotation("main")
      BY <2>2, <3>1 DEF Rotation, AcquireLock, ReadDng, WriteDng, UpdateOrientation, ReleaseLock,
                        Return
    <3> QED
      BY <2>2, <3>1, <3>2 DEF Main, StopApi, StopRotation, JoinManager, Drain, Dispatch, rotVars
  <2>5. ~Rotation("manager") /\ ~Check /\ ~Block /\ ~Wake
    BY DEF Rotation, AcquireLock, ReadDng, WriteDng, UpdateOrientation, ReleaseLock, Check, Block,
           Wake
  <2>6. NextDue
    BY <2>3, <2>4, <2>5 DEF Next, Manager
  <2>7. PICK k \in due \cap DOMAIN pending : Dispatch("manager", k)
    BY <2>6 DEF NextDue
  <2>8. i = k
    BY <2>7, DispatchShape DEF Rotators
  <2>9. pending[i].left = 0 /\ pending[i].left + since[i] = Grace /\ since[i] \in 0..Grace
    BY <2>7, <2>8, GraceTypes DEF GraceInv
  <2>10. \A n \in 0..Grace : 0 + n = n
    BY Numbers
  <2> QED
    BY <2>9, <2>10
<1> QED
  BY <1>1, Graced, PTL DEF Spec, GraceKept

-----------------------------------------------------------------------------
(* The audit trail, when the server cuts the worker's name and no          *)
(* statement fails: then every hash that is stored is recorded.            *)

Recorded == ~Strict /\ Faults \cap {"db", "race"} = {}

(* What the handler has read is what the row has until the handler itself  *)
(* writes it: nobody else writes an output_hash.                           *)
TrailInv ==
  /\ AuditChain
  /\ pc["api"] \in {"hash", "sync"} => req.prev = rows[req.id].hash
  /\ pc["api"] = "audit" => rows[req.id].hash = req.new

(* Only the HTTP thread writes hashes and the trail: a rotation writes the *)
(* other column of the row.                                                *)
LEMMA OnlyApiRecords ==
  ASSUME TypeInv, [Next]_vars, ~Api
  PROVE  /\ UNCHANGED <<edits, req>> /\ pc'["api"] = pc["api"]
         /\ \A i \in Imports : rows'[i].hash = rows[i].hash
<1>1. ASSUME NEW t \in Rotators, NEW l, Goto(t, l) PROVE pc'["api"] = pc["api"]
  BY <1>1, RotatorMove DEF Rotators, Threads
<1>2. "main" \in Rotators /\ "manager" \in Rotators
  BY DEF Rotators
<1>3. CASE UNCHANGED <<pc, rows, edits, req>>
  BY <1>3
<1>4. CASE Plugin \/ Get \/ Tick \/ UNCHANGED vars
  BY <1>3, <1>4 DEF Plugin, Get, Tick, Rotate, StartEmbed, FinishEmbed, NotifyPreview, store,
                    apiVars, vars
<1>5. ASSUME NEW t \in Rotators, Rotation(t)
      PROVE  /\ UNCHANGED <<edits, req>> /\ pc'["api"] = pc["api"]
             /\ \A i \in Imports : rows'[i].hash = rows[i].hash
  <2>1. UNCHANGED <<edits, req>>
    BY <1>5 DEF Rotation, AcquireLock, ReadDng, WriteDng, UpdateOrientation, ReleaseLock, apiVars,
                store
  <2>2. PICK l : Goto(t, l)
    BY <1>5 DEF Rotation, AcquireLock, ReadDng, WriteDng, UpdateOrientation, ReleaseLock, Return
  <2>3. pc'["api"] = pc["api"]
    BY <1>1, <2>2
  <2>4. CASE UNCHANGED rows
    BY <2>1, <2>3, <2>4
  <2>5. CASE rows' = [rows EXCEPT ![job[t].id].orient = job[t].orient]
    <3>1. \A i \in Imports : rows'[i].hash = rows[i].hash
      BY <2>5 DEF TypeInv, StoreOK
    <3> QED
      BY <2>1, <2>3, <3>1
  <2> QED
    BY <1>5, <2>4, <2>5 DEF Rotation, AcquireLock, ReadDng, WriteDng, UpdateOrientation,
                            ReleaseLock, RowWrite, store
<1>6. CASE StopRotation
  BY <1>6 DEF StopRotation, TypeInv, PcOK, Threads, store, apiVars
<1>7. CASE Check \/ Block \/ Wake \/ NextDue
  <2>1. PICK l : Goto("manager", l)
    BY <1>7 DEF Check, Block, Wake, NextDue, Dispatch
  <2> QED
    BY <1>1, <1>2, <1>7, <2>1 DEF Check, Block, Wake, NextDue, store, apiVars
<1>8. CASE Signal \/ StopApi \/ JoinManager \/ Drain
  <2>1. PICK l : Goto("main", l)
    BY <1>8 DEF Signal, StopApi, JoinManager, Drain, Dispatch
  <2> QED
    BY <1>1, <1>2, <1>8, <2>1 DEF Signal, StopApi, JoinManager, Drain, store, apiVars
<1> QED
  BY <1>2, <1>4, <1>5, <1>6, <1>7, <1>8 DEF Next, Manager, Main

(* EndWith looks at the trail alone.                                       *)
LEMMA EndWithKept ==
  ASSUME UNCHANGED edits PROVE \A i, n, hash : EndWith(i, n, hash)' <=> EndWith(i, n, hash)
  BY DEF EndWith

(* Steps that leave the hashes and the trail alone.                        *)
LEMMA TrailKept ==
  ASSUME TrailInv, UNCHANGED edits, \A i \in Imports : rows'[i].hash = rows[i].hash,
         \A i \in Imports : pc["api"] = "audit" /\ req.id = i <=> (pc["api"] = "audit" /\ req.id = i)',
         pc["api"] = "audit" => req'.prev = req.prev,
         pc'["api"] \in {"hash", "sync"} => req'.id \in Imports /\ req'.prev = rows[req'.id].hash,
         pc'["api"] = "audit" => req'.id \in Imports /\ rows[req'.id].hash = req'.new
  PROVE  TrailInv'
<1>1. AuditChain'
  BY EndWithKept DEF TrailInv, AuditChain
<1> QED
  BY <1>1 DEF TrailInv

(* The handler up to the update of the row (api.cpp:300-316).              *)
LEMMA TrailReads ==
  ASSUME TypeInv, TrailInv, \A t : ~DbFails(t), Api, ~RecordEdit, ~UpdateHash
  PROVE  TrailInv'
<1>1. UNCHANGED <<rows, edits>> /\ pc["api"] # "audit"
  BY DEF Api, ApiTop, Accept, HandleGet, Find, Queue, HashDng, UpdateHash, store
<1>2. ASSUME NEW l, Goto("api", l) PROVE pc'["api"] = l
  BY <1>2, ApiMove
<1>3. ASSUME pc'["api"] \notin {"hash", "sync", "audit"} PROVE TrailInv'
  BY <1>1, <1>3, TrailKept
<1>4. CASE ApiTop \/ Accept \/ HandleGet
  <2>1. PICK l : Goto("api", l) /\ l \notin {"hash", "sync", "audit"}
    BY <1>4 DEF ApiTop, Accept, HandleGet, Answer
  <2> QED
    BY <1>2, <1>3, <2>1
<1>5. CASE Queue
  <2>1. pc'["api"] = "top"
    BY <1>5 DEF Queue, TypeInv, PcOK, Threads
  <2> QED
    BY <1>3, <2>1
<1>6. CASE Find
  <2>1. CASE Goto("api", "queue")
    BY <1>2, <1>3, <2>1
  <2>2. CASE Goto("api", "hash") /\ req' = [kind |-> "preview", id |-> req.id,
                                            prev |-> rows[req.id].hash]
    <3>1. pc'["api"] = "hash" /\ req'.id = req.id /\ req'.prev = rows[req.id].hash
      BY <1>2, <2>2
    <3>2. req.id \in Imports
      BY <1>6, Numbers DEF Find, TypeInv, RequestOK, Previews, Rotates
    <3> QED
      BY <1>1, <3>1, <3>2, TrailKept
  <2> QED
    BY <1>6, <2>1, <2>2 DEF Find
<1>7. CASE HashDng
  <2>1. pc["api"] = "hash" /\ req \in [kind : {"preview"}, id : Embedded, prev : Content]
    BY <1>7 DEF HashDng, TypeInv, RequestOK
  <2>2. CASE Answer
    BY <1>2, <1>3, <2>2 DEF Answer
  <2>3. CASE Goto("api", "sync") /\ req' = [kind |-> "preview", id |-> req.id,
                                            prev |-> req.prev, new |-> dng[req.id]]
    <3>1. pc'["api"] = "sync" /\ req'.id = req.id /\ req'.prev = req.prev /\ req.id \in Imports
      BY <1>2, <2>1, <2>3, Numbers
    <3>2. req.prev = rows[req.id].hash
      BY <2>1 DEF TrailInv
    <3> QED
      BY <1>1, <3>1, <3>2, TrailKept
  <2> QED
    BY <1>7, <2>2, <2>3 DEF HashDng
<1> QED
  BY <1>4, <1>5, <1>6, <1>7 DEF Api

(* UpdateOutputHash: the trail ends where the row was found (316).         *)
LEMMA TrailUpdates ==
  ASSUME TypeInv, TrailInv, \A t : ~DbFails(t), UpdateHash PROVE TrailInv'
<1>1. /\ rows' = [rows EXCEPT ![req.id].hash = req.new] /\ UNCHANGED <<req, edits>>
      /\ pc["api"] = "sync" /\ Goto("api", "audit") /\ req.id \in Imports
      /\ req.prev = rows[req.id].hash
  BY Numbers DEF UpdateHash, HashStored, apiVars, TypeInv, RequestOK, TrailInv
<1>2. pc'["api"] = "audit"
  BY <1>1, ApiMove
<1>3. /\ \A i \in Imports \ {req.id} : rows'[i].hash = rows[i].hash
      /\ rows'[req.id].hash = req.new
  BY <1>1 DEF TypeInv, StoreOK
<1>4. \A i \in Imports : (IF pc'["api"] = "audit" /\ req'.id = i THEN req'.prev ELSE rows'[i].hash)
                         = (IF pc["api"] = "audit" /\ req.id = i THEN req.prev ELSE rows[i].hash)
  BY <1>1, <1>2, <1>3
<1>5. AuditChain'
  BY <1>1, <1>4, EndWithKept DEF TrailInv, AuditChain
<1> QED
  BY <1>1, <1>2, <1>3, <1>5 DEF TrailInv

(* A new row of the trail: what its photo's edits end with becomes what it *)
(* ends with; those of the other photos, and of the rows before it, stay.  *)
LEMMA EndWithAppended ==
  ASSUME NEW e, NEW L \in Nat, \A k \in 1..L : edits'[k] = edits[k], edits'[L + 1] = e
  PROVE  /\ \A i, hash : \A n \in 0..L : EndWith(i, n, hash)' <=> EndWith(i, n, hash)
         /\ \A i, hash : i # e.id /\ EndWith(i, L, hash) => EndWith(i, L + 1, hash)'
         /\ EndWith(e.id, L + 1, e.new)'
<1>1. ASSUME NEW i, NEW hash, NEW n \in 0..L PROVE EndWith(i, n, hash)' <=> EndWith(i, n, hash)
  <2>1. \A k \in 1..n : k \in 1..L /\ \A m \in (k + 1)..n : m \in 1..L
    OBVIOUS
  <2>2. \A k \in 1..n : edits'[k] = edits[k] /\ \A m \in (k + 1)..n : edits'[m] = edits[m]
    BY <2>1
  <2> QED
    BY <2>2 DEF EndWith
<1>2. ASSUME NEW i, NEW hash, i # e.id, EndWith(i, L, hash) PROVE EndWith(i, L + 1, hash)'
  <2>1. \A k \in 1..(L + 1) : k \in 1..L \/ k = L + 1
    OBVIOUS
  <2>2. CASE hash = Fresh /\ \A k \in 1..L : edits[k].id # i
    BY <1>2, <2>1, <2>2 DEF EndWith
  <2>3. CASE \E k \in 1..L : /\ edits[k].id = i /\ edits[k].new = hash
                             /\ \A m \in (k + 1)..L : edits[m].id # i
    <3>1. PICK k \in 1..L : /\ edits[k].id = i /\ edits[k].new = hash
                            /\ \A m \in (k + 1)..L : edits[m].id # i
      BY <2>3
    <3>2. k \in 1..(L + 1) /\ edits'[k].id = i /\ edits'[k].new = hash
      BY <3>1
    <3>3. \A m \in (k + 1)..(L + 1) : (m \in (k + 1)..L /\ m \in 1..L) \/ m = L + 1
      OBVIOUS
    <3>4. \A m \in (k + 1)..(L + 1) : edits'[m].id # i
      BY <1>2, <3>1, <3>3
    <3> QED
      BY <3>2, <3>4 DEF EndWith
  <2> QED
    BY <1>2, <2>2, <2>3 DEF EndWith
<1>3. EndWith(e.id, L + 1, e.new)'
  <2>1. L + 1 \in 1..(L + 1) /\ \A m \in ((L + 1) + 1)..(L + 1) : FALSE
    OBVIOUS
  <2> QED
    BY <2>1 DEF EndWith
<1> QED
  BY <1>1, <1>2, <1>3

(* RecordPreviewEdit (api.cpp:320, db.cpp:556-577).                        *)
LEMMA TrailRecords ==
  ASSUME TypeInv, TrailInv, ~Strict, \A t : ~DbFails(t), RecordEdit PROVE TrailInv'
<1>1. /\ edits' = Append(edits, [id |-> req.id, prev |-> req.prev, new |-> req.new])
      /\ UNCHANGED rows /\ pc["api"] = "audit" /\ Goto("api", "top")
  BY DEF RecordEdit, WorkerFits, RowFound, Answer
<1>2. pc'["api"] = "top" /\ rows[req.id].hash = req.new
  BY <1>1, ApiMove DEF TrailInv
<1>3. /\ req.id \in Imports
      /\ [id |-> req.id, prev |-> req.prev, new |-> req.new]
           \in [id : Imports, prev : Content, new : Content]
  BY <1>1, Numbers DEF TypeInv, RequestOK
<1>4. edits \in Seq([id : Imports, prev : Content, new : Content])
  BY DEF TypeInv, StoreOK
<1>5. PICK e \in [id : Imports, prev : Content, new : Content] :
        /\ edits' = Append(edits, e) /\ e.id = req.id /\ e.prev = req.prev /\ e.new = req.new
  BY <1>1, <1>3
<1>6. PICK L \in Nat : L = Len(edits)
  BY <1>4, LenProperties
<1>7. /\ Len(edits') = L + 1 /\ edits'[L + 1] = e
      /\ \A k \in 1..L : edits'[k] = edits[k]
  BY <1>4, <1>5, <1>6, AppendProperties
<1>8. /\ \A i, hash : \A n \in 0..L : EndWith(i, n, hash)' <=> EndWith(i, n, hash)
      /\ \A i, hash : i # e.id /\ EndWith(i, L, hash) => EndWith(i, L + 1, hash)'
      /\ EndWith(e.id, L + 1, e.new)'
  BY <1>7, EndWithAppended
<1>9. \A k \in 1..(L + 1) : (k \in 1..L /\ k - 1 \in 0..L) \/ (k = L + 1 /\ k - 1 = L)
  OBVIOUS
<1>10. ASSUME NEW i \in Imports
       PROVE  /\ \A k \in 1..L : edits[k].id = i => EndWith(i, k - 1, edits[k].prev)
              /\ i # e.id => EndWith(i, L, rows[i].hash)
              /\ i = e.id => EndWith(i, L, e.prev)
  BY <1>1, <1>5, <1>6, <1>10 DEF TrailInv, AuditChain
<1>11. ASSUME NEW i \in Imports, NEW k \in 1..(L + 1), NEW hash, edits'[k].id = i,
              hash = edits'[k].prev
       PROVE  EndWith(i, k - 1, hash)'
  <2>1. CASE k \in 1..L /\ k - 1 \in 0..L
    <3>1. EndWith(i, k - 1, hash)
      BY <1>7, <1>10, <1>11, <2>1
    <3> QED
      BY <1>8, <2>1, <3>1
  <2>2. CASE k = L + 1 /\ k - 1 = L
    <3>1. EndWith(i, L, hash) /\ L \in 0..L
      BY <1>7, <1>10, <1>11, <2>2
    <3> QED
      BY <1>8, <2>2, <3>1
  <2> QED
    BY <1>9, <2>1, <2>2
<1>12. ASSUME NEW i \in Imports, NEW hash, hash = rows[i].hash
       PROVE  EndWith(i, L + 1, hash)'
  <2>1. CASE i = e.id
    BY <1>2, <1>5, <1>8, <1>12, <2>1
  <2>2. CASE i # e.id
    BY <1>8, <1>10, <1>12, <2>2
  <2> QED
    BY <2>1, <2>2
<1>13. AuditChain'
  BY <1>1, <1>2, <1>7, <1>11, <1>12 DEF AuditChain
<1> QED
  BY <1>2, <1>13 DEF TrailInv

LEMMA TrailStep ==
  ASSUME Recorded
  PROVE  TypeInv /\ TrailInv /\ [Next]_vars => TrailInv'
<1> SUFFICES ASSUME TypeInv, TrailInv, [Next]_vars PROVE TrailInv'
  OBVIOUS
<1>1. ~Strict /\ \A t : ~DbFails(t)
  BY NoDbFault DEF Recorded
<1>2. CASE ~Api
  <2>1. /\ UNCHANGED <<edits, req>> /\ pc'["api"] = pc["api"]
        /\ \A i \in Imports : rows'[i].hash = rows[i].hash
    BY <1>2, OnlyApiRecords
  <2>2. pc["api"] \in {"hash", "sync", "audit"} => req.id \in Imports
    BY Numbers DEF TypeInv, RequestOK
  <2> QED
    BY <2>1, <2>2, TrailKept DEF TrailInv
<1> QED
  BY <1>1, <1>2, TrailReads, TrailUpdates, TrailRecords

(* preview_edits is a chain for every photo, also across rotations of the  *)
(* same row and embeds that overlap: an edit starts from the hash the one  *)
(* before it ended with, and the row has the last (api.cpp:314-320).  It   *)
(* takes a server that is not strict and statements that do not fail.      *)
THEOREM SyncAuditChain == ASSUME Recorded PROVE Spec => []AuditChain
<1>1. Init => TrailInv
  BY EmptySeq DEF Init, TrailInv, AuditChain, EndWith
<1>2. TrailInv => AuditChain
  BY DEF TrailInv
<1> QED
  BY <1>1, <1>2, Typed, TrailStep, PTL DEF Spec

-----------------------------------------------------------------------------
(* The manager and Stop together are a coalescing queue.                   *)

(* An intent has a number, and a newer one than those queued before it.    *)
Positive == /\ \A i \in DOMAIN pending : pending[i].orient # 0
            /\ \A t \in Rotators : job[t] # NoJob => job[t].orient # 0

CoalesceInv == Coming /\ Positive

(* A thread that dispatches goes on with its intent, or drops it.          *)
LEMMA RotatesOn ==
  ASSUME TypeInv, NEW t \in Rotators, Rotation(t)
  PROVE  /\ pc[t] \in RotationLabels /\ job[t] # NoJob /\ job[t].id \in Rotated
         /\ \A u \in Rotators \ {t} : /\ pc[u] \notin RotationLabels /\ pc'[u] = pc[u]
                                       /\ job[u] = NoJob /\ job'[u] = NoJob
         /\ UNCHANGED <<pending, asked>>
         /\ \/ job'[t] = NoJob
            \/ job'[t] # NoJob /\ job'[t].id = job[t].id /\ job'[t].orient = job[t].orient
<1>1. pc[t] \in RotationLabels
  BY DEF Rotation, AcquireLock, ReadDng, WriteDng, UpdateOrientation, ReleaseLock, RotationLabels
<1>2. job[t] # NoJob /\ job[t].id \in Rotated
  BY <1>1, Naturals DEF TypeInv, JobOK
<1>3. \A u \in Rotators \ {t} : job[u] = NoJob /\ pc[u] \notin RotationLabels
  BY <1>1, Alone DEF TypeInv, JobOK
<1>4. PICK l : Goto(t, l)
  BY DEF Rotation, AcquireLock, ReadDng, WriteDng, UpdateOrientation, ReleaseLock, Return
<1>5. \A u \in Rotators \ {t} : pc'[u] = pc[u] /\ job'[u] = job[u]
  <2>1. \A u \in Rotators \ {t} : pc'[u] = pc[u]
    BY <1>4, RotatorMove DEF Rotators, Threads
  <2> QED
    BY <2>1 DEF Rotation, AcquireLock, ReadDng, WriteDng, UpdateOrientation, ReleaseLock, Return,
                TypeInv, JobOK
<1>6. UNCHANGED <<pending, asked>>
  BY DEF Rotation, AcquireLock, ReadDng, WriteDng, UpdateOrientation, ReleaseLock, rotVars, queued
<1>7. \/ job'[t] = NoJob
      \/ job'[t] # NoJob /\ job'[t].id = job[t].id /\ job'[t].orient = job[t].orient
  <2>1. CASE UNCHANGED job
    BY <1>2, <2>1
  <2>2. CASE Return(t)
    BY <2>2 DEF Return, TypeInv, JobOK
  <2>3. CASE job' = [job EXCEPT ![t] = [kind |-> "rotate", id |-> @.id, orient |-> @.orient,
                                        held |-> dng[@.id]]]
    BY <2>3 DEF TypeInv, JobOK, NoJob
  <2> QED
    BY <2>1, <2>2, <2>3 DEF Rotation, AcquireLock, ReadDng, WriteDng, UpdateOrientation,
                            ReleaseLock
<1> QED
  BY <1>1, <1>2, <1>3, <1>5, <1>6, <1>7

LEMMA PositiveStep == TypeInv /\ CoalesceInv /\ [Next]_vars => Positive'
<1> SUFFICES ASSUME TypeInv, Coming, Positive, [Next]_vars PROVE Positive'
  BY DEF CoalesceInv
<1>1. ASSUME UNCHANGED job, DOMAIN pending' \subseteq DOMAIN pending,
             \A i \in DOMAIN pending' : pending'[i].orient = pending[i].orient
      PROVE  Positive'
  BY <1>1 DEF Positive
<1>2. CASE Plugin \/ Get \/ Signal \/ (Api /\ ~Queue) \/ UNCHANGED vars
  BY <1>1, <1>2 DEF Plugin, Get, Signal, Rotate, StartEmbed, FinishEmbed, NotifyPreview, Api,
     ApiTop, Accept, HandleGet, Find, HashDng, UpdateHash, RecordEdit, rotVars, queued, vars
<1>3. CASE Tick
  <2>1. \A i \in DOMAIN pending : [pending[i] EXCEPT !.left = Less(@)].orient = pending[i].orient
    BY DEF TypeInv, PendingOK
  <2> QED
    BY <1>1, <1>3, <2>1 DEF Tick
<1>4. CASE Queue
  <2>1. req.kind = "rotate" /\ req.id \in Imports
    BY <1>4, Numbers DEF Queue, TypeInv, RequestOK, Rotates
  <2>2. asked[req.id] \in Nat /\ asked[req.id] < req.orient /\ req.orient \in Nat
    BY <2>1, Naturals DEF Coming
  <2>3. req.orient # 0
    BY <2>2
  <2> QED
    BY <1>4, <2>3 DEF Queue, LastIntent, FullGrace, Positive
<1>5. ASSUME NEW t \in Rotators, Rotation(t) PROVE Positive'
  BY <1>5, RotatesOn DEF Positive
<1>6. ASSUME NEW t \in Rotators, NEW i \in DOMAIN pending, Dispatch(t, i) PROVE Positive'
  <2>1. /\ DOMAIN pending' = DOMAIN pending \ {i}
        /\ \A k \in DOMAIN pending' : pending'[k] = pending[k]
        /\ job'[t] = [kind |-> "rotate", id |-> i, orient |-> pending[i].orient]
        /\ \A u \in Rotators \ {t} : job'[u] = job[u]
    BY <1>6, DispatchShape
  <2>2. job'[t].orient = pending[i].orient
    BY <2>1
  <2> QED
    BY <2>1, <2>2 DEF Positive
<1>7. CASE Check \/ Block \/ Wake \/ StopApi \/ StopRotation \/ JoinManager
  BY <1>1, <1>7 DEF Check, Block, Wake, StopApi, StopRotation, JoinManager, rotVars, queued
<1>8. CASE NextDue \/ Drain
  BY <1>1, <1>6, <1>8 DEF NextDue, Drain, Rotators
<1> QED
  BY <1>2, <1>3, <1>4, <1>5, <1>7, <1>8 DEF Next, Api, Manager, Main, Rotators

LEMMA ComingStep == TypeInv /\ Coming /\ [Next]_vars => Coming'
<1> SUFFICES ASSUME TypeInv, Coming, [Next]_vars, ~(Plugin \/ Get \/ Tick), ~Api PROVE Coming'
  BY ComingUser, ComingApi, ComingQueue
<1>1. UNCHANGED <<asked, sent, backlog, req>>
  BY DEF Next, Manager, Main, Rotation, AcquireLock, ReadDng, WriteDng, UpdateOrientation,
     ReleaseLock, Check, Block, Wake, NextDue, Signal, StopApi, StopRotation, JoinManager, Drain,
     apiVars, rotVars, queued, userVars, vars
<1> QED
  BY <1>1, ComingKept

LEMMA Coalescing == Spec => [](TypeInv /\ CoalesceInv)
<1>1. Init => CoalesceInv
  <2> SUFFICES ASSUME Init PROVE CoalesceInv
    OBVIOUS
  <2>1. Coming
    BY InitRotation DEF RotationInv
  <2>2. Positive
    BY DEF Init, Positive, Rotators
  <2> QED
    BY <2>1, <2>2 DEF CoalesceInv
<1>2. TypeInv /\ CoalesceInv /\ [Next]_vars => CoalesceInv'
  BY ComingStep, PositiveStep DEF CoalesceInv
<1> QED
  BY <1>1, <1>2, Typed, PTL DEF Spec

(* The mapping, for any photos and any labels of a dispatch.               *)
Nothing   == [id |-> 0, intent |-> 0]
Intent(t) == [id |-> job[t].id, intent |-> job[t].orient]

LEMMA HandIs ==
  ASSUME NEW t \in Rotators, NEW photos, NEW labels \in SUBSET RotationLabels,
         \A u \in Rotators \ {t} : pc[u] \notin RotationLabels
  PROVE  Hand(photos, labels) = IF InHandOf(t, photos, labels) THEN Intent(t) ELSE Nothing
<1>1. t = "manager" \/ t = "main"
  BY DEF Rotators
<1>2. \A u \in Rotators \ {t} : ~InHandOf(u, photos, labels)
  BY DEF InHandOf
<1>3. CASE t = "manager"
  BY <1>2, <1>3 DEF Hand, Intent, Nothing, Rotators
<1>4. CASE t = "main"
  BY <1>2, <1>4 DEF Hand, Intent, Nothing, Rotators
<1> QED
  BY <1>1, <1>3, <1>4

LEMMA HandWillBe ==
  ASSUME NEW t \in Rotators, NEW photos, NEW labels \in SUBSET RotationLabels,
         \A u \in Rotators \ {t} : pc'[u] \notin RotationLabels
  PROVE  Hand(photos, labels)' = IF InHandOf(t, photos, labels)' THEN Intent(t)' ELSE Nothing
<1>1. t = "manager" \/ t = "main"
  BY DEF Rotators
<1>2. \A u \in Rotators \ {t} : ~InHandOf(u, photos, labels)'
  BY DEF InHandOf
<1>3. CASE t = "manager"
  BY <1>2, <1>3 DEF Hand, Intent, Nothing, Rotators
<1>4. CASE t = "main"
  BY <1>2, <1>4 DEF Hand, Intent, Nothing, Rotators
<1> QED
  BY <1>1, <1>3, <1>4

LEMMA HandKept ==
  ASSUME NEW photos, NEW labels, UNCHANGED job,
         \A t \in Rotators : pc'[t] \in labels <=> pc[t] \in labels
  PROVE  UNCHANGED Hand(photos, labels)
<1>1. \A t \in Rotators : InHandOf(t, photos, labels)' <=> InHandOf(t, photos, labels)
  BY DEF InHandOf
<1>2. "manager" \in Rotators /\ "main" \in Rotators
  BY DEF Rotators
<1> QED
  BY <1>1, <1>2 DEF Hand

(* Queue puts an intent in the place of an older one.                      *)
LEMMA QueuePuts ==
  ASSUME TypeInv, Coming, NEW photos \in SUBSET Imports, NEW labels \in SUBSET RotationLabels,
         Queue
  PROVE  /\ UNCHANGED Hand(photos, labels)
         /\ \/ UNCHANGED <<Waits(photos), Last(photos)>>
            \/ \E i \in photos : \E o \in Orients \ {0} :
                 /\ o > Last(photos)[i]
                 /\ Waits(photos)' = [Waits(photos) EXCEPT ![i] = o]
                 /\ Last(photos)' = [Last(photos) EXCEPT ![i] = o]
<1>1. PICK i \in Imports, o \in Orients :
        /\ req.kind = "rotate" /\ req.id = i /\ req.orient = o
  BY Numbers DEF Queue, TypeInv, RequestOK, Rotates
<1>2. /\ UNCHANGED job /\ asked' = [asked EXCEPT ![i] = o]
      /\ pc' = [pc EXCEPT !["api"] = "top", !["manager"] = Notified(@)]
      /\ pending' = [k \in DOMAIN pending \cup {i} |->
                       IF k = i THEN [orient |-> o, left |-> Grace] ELSE pending[k]]
  BY <1>1 DEF Queue, LastIntent, FullGrace
<1>3. asked[i] \in Nat /\ asked[i] < o /\ o \in Nat
  BY <1>1, Naturals DEF Coming
<1>4. UNCHANGED Hand(photos, labels)
  <2>1. /\ pc'["main"] = pc["main"]
        /\ pc'["manager"] = IF pc["manager"] = "wait" THEN "check" ELSE pc["manager"]
    BY <1>2 DEF TypeInv, PcOK, Threads, Notified
  <2>2. ASSUME NEW t \in Rotators PROVE pc'[t] = pc[t] \/ (pc[t] = "wait" /\ pc'[t] = "check")
    <3>1. t = "main" \/ t = "manager"
      BY DEF Rotators
    <3> QED
      BY <2>1, <3>1
  <2>3. \A t \in Rotators : pc'[t] \in labels <=> pc[t] \in labels
    BY <2>2 DEF RotationLabels
  <2> QED
    BY <1>2, <2>3, HandKept
<1>5. asked'[i] = o /\ \A k \in Imports \ {i} : asked'[k] = asked[k]
  BY <1>2 DEF TypeInv, UserOK
<1>6. /\ i \in DOMAIN pending' /\ pending'[i].orient = o
      /\ \A k \in Imports \ {i} : /\ k \in DOMAIN pending' <=> k \in DOMAIN pending
                                  /\ k \in DOMAIN pending => pending'[k] = pending[k]
  BY <1>2
<1>7. CASE i \notin photos
  BY <1>4, <1>5, <1>6, <1>7 DEF Waits, Last
<1>8. CASE i \in photos
  <2>1. o \in Orients \ {0} /\ o > Last(photos)[i]
    BY <1>3, <1>8 DEF Last
  <2>2. Waits(photos)' = [Waits(photos) EXCEPT ![i] = o]
    BY <1>6, <1>8 DEF Waits
  <2>3. Last(photos)' = [Last(photos) EXCEPT ![i] = o]
    BY <1>5, <1>8 DEF Last
  <2> QED
    BY <1>4, <1>8, <2>1, <2>2, <2>3
<1> QED
  BY <1>7, <1>8

(* A dispatch takes it.                                                    *)
LEMMA DispatchTakes ==
  ASSUME TypeInv, Positive, NEW photos \in SUBSET Imports, NEW labels \in SUBSET RotationLabels,
         "acquire" \in labels, NEW t \in Rotators, pc[t] = After(t),
         NEW i \in DOMAIN pending, Dispatch(t, i)
  PROVE  \/ i \notin photos /\ UNCHANGED <<Waits(photos), Hand(photos, labels)>>
         \/ /\ i \in photos /\ Hand(photos, labels) = Nothing /\ Waits(photos)[i] # 0
            /\ Hand(photos, labels)' = [id |-> i, intent |-> Waits(photos)[i]]
            /\ Waits(photos)' = [Waits(photos) EXCEPT ![i] = 0]
<1>1. /\ pc'[t] = "acquire" /\ \A u \in Threads \ {t} : pc'[u] = pc[u]
      /\ DOMAIN pending' = DOMAIN pending \ {i}
      /\ \A k \in DOMAIN pending' : pending'[k] = pending[k]
      /\ job'[t] = [kind |-> "rotate", id |-> i, orient |-> pending[i].orient]
  BY DispatchShape, RotatorMove
<1>2. \A u \in Rotators \ {t} : pc[u] \notin RotationLabels /\ pc'[u] \notin RotationLabels
  <2>1. \A u \in Rotators \ {t} : job[u] = NoJob
    BY Alone
  <2> QED
    BY <1>1, <2>1 DEF TypeInv, JobOK, Rotators, Threads
<1>3. pc[t] \notin labels
  BY DEF After, RotationLabels
<1>4. Hand(photos, labels) = Nothing
  BY <1>2, <1>3, HandIs DEF InHandOf
<1>5. job'[t].id = i /\ job'[t].orient = pending[i].orient
  BY <1>1
<1>6. Hand(photos, labels)' =
        IF i \in photos THEN [id |-> i, intent |-> pending[i].orient] ELSE Nothing
  BY <1>1, <1>2, <1>5, HandWillBe DEF InHandOf, Intent
<1>7. CASE i \notin photos
  <2>1. UNCHANGED Waits(photos)
    BY <1>1, <1>7 DEF Waits
  <2> QED
    BY <1>4, <1>6, <1>7, <2>1
<1>8. CASE i \in photos
  <2>1. Waits(photos)[i] = pending[i].orient /\ Waits(photos)[i] # 0
    BY <1>8 DEF Waits, Positive
  <2>2. Waits(photos)' = [Waits(photos) EXCEPT ![i] = 0]
    BY <1>1, <1>8 DEF Waits
  <2> QED
    BY <1>4, <1>6, <1>8, <2>1, <2>2
<1> QED
  BY <1>7, <1>8

(* On the way the intent stays in hand, or leaves it.                      *)
LEMMA RotationHolds ==
  ASSUME TypeInv, Positive, NEW photos \in SUBSET Imports, NEW labels \in SUBSET RotationLabels,
         NEW t \in Rotators, Rotation(t)
  PROVE  /\ UNCHANGED <<Waits(photos), Last(photos)>>
         /\ Hand(photos, labels) = IF InHandOf(t, photos, labels) THEN Intent(t) ELSE Nothing
         /\ Hand(photos, labels)' = IF pc'[t] \in labels /\ job[t].id \in photos
                                      THEN Intent(t) ELSE Nothing
         /\ Intent(t) # Nothing
<1>1. UNCHANGED <<Waits(photos), Last(photos)>>
  BY RotatesOn DEF Waits, Last
<1>2. Hand(photos, labels) = IF InHandOf(t, photos, labels) THEN Intent(t) ELSE Nothing
  BY RotatesOn, HandIs
<1>3. Hand(photos, labels)' = IF InHandOf(t, photos, labels)' THEN Intent(t)' ELSE Nothing
  BY RotatesOn, HandWillBe
<1>4. job'[t] = NoJob => pc'[t] \notin RotationLabels
  <2>1. TypeInv'
    BY TypeRotation
  <2> QED
    BY <2>1 DEF TypeInv, JobOK
<1>5. job'[t] # NoJob => Intent(t)' = Intent(t) /\ job'[t].id = job[t].id
  BY RotatesOn DEF Intent
<1>6. InHandOf(t, photos, labels)' <=> pc'[t] \in labels /\ job[t].id \in photos
  BY <1>4, <1>5 DEF InHandOf
<1>7. Intent(t) # Nothing
  BY RotatesOn DEF Positive, Intent, Nothing
<1>8. pc'[t] \in labels => Intent(t)' = Intent(t)
  BY <1>4, <1>5
<1> QED
  BY <1>1, <1>2, <1>3, <1>6, <1>7, <1>8

(* The other steps do not concern the queue.                               *)
LEMMA OthersKeep ==
  ASSUME TypeInv, NEW photos \in SUBSET Imports, NEW labels \in SUBSET RotationLabels,
         \/ Plugin \/ Get \/ Tick \/ Signal \/ (Api /\ ~Queue) \/ UNCHANGED vars
         \/ Check \/ Block \/ Wake \/ StopApi \/ StopRotation \/ JoinManager
         \/ (NextDue /\ UNCHANGED <<pending, job>>) \/ (Drain /\ UNCHANGED <<pending, job>>)
  PROVE  UNCHANGED <<Waits(photos), Last(photos), Hand(photos, labels)>>
<1>1. UNCHANGED <<asked, job>>
  BY DEF Plugin, Get, Rotate, StartEmbed, FinishEmbed, NotifyPreview, Tick, Signal, Api, ApiTop,
     Accept, HandleGet, Find, HashDng, UpdateHash, RecordEdit, Check, Block, Wake, StopApi,
     StopRotation, JoinManager, NextDue, Drain, rotVars, queued, vars
<1>2. /\ DOMAIN pending' = DOMAIN pending
      /\ \A i \in DOMAIN pending : pending'[i].orient = pending[i].orient
  <2>1. CASE Tick
    <3>1. \A i \in DOMAIN pending : [pending[i] EXCEPT !.left = Less(@)].orient = pending[i].orient
      BY DEF TypeInv, PendingOK
    <3> QED
      BY <2>1, <3>1 DEF Tick
  <2>2. CASE UNCHANGED pending
    BY <2>2
  <2> QED
    BY <2>1, <2>2 DEF Plugin, Get, Rotate, StartEmbed, FinishEmbed, NotifyPreview, Signal, Api,
       ApiTop, Accept, HandleGet, Find, HashDng, UpdateHash, RecordEdit, Check, Block, Wake,
       StopApi, StopRotation, JoinManager, rotVars, vars
<1>3. UNCHANGED <<Waits(photos), Last(photos)>>
  BY <1>1, <1>2 DEF Waits, Last
<1>4. \A t \in Rotators : pc'[t] \in labels <=> pc[t] \in labels
  <2>1. ASSUME NEW u \in Threads, NEW l, Goto(u, l), u \in Rotators => pc[u] \notin RotationLabels,
               l \notin RotationLabels
        PROVE  \A t \in Rotators : pc'[t] \in labels <=> pc[t] \in labels
    BY <2>1 DEF Goto, TypeInv, PcOK, Threads, Rotators
  <2>2. "api" \in Threads \ Rotators /\ "manager" \in Threads /\ "main" \in Threads
    BY DEF Threads, Rotators
  <2>3. CASE Api /\ ~Queue
    <3>1. PICK l \in ApiLabels : Goto("api", l)
      BY <2>3 DEF Api, ApiTop, Accept, HandleGet, Find, HashDng, UpdateHash, RecordEdit, Answer,
                  ApiLabels
    <3> QED
      BY <2>1, <2>2, <3>1 DEF ApiLabels, RotationLabels
  <2>4. CASE Check \/ Block \/ Wake \/ (NextDue /\ UNCHANGED <<pending, job>>)
    <3>1. pc["manager"] \notin RotationLabels
      BY <2>4 DEF Check, Block, Wake, NextDue, RotationLabels
    <3>2. PICK l \in {"exited", "doze", "grace", "wait", "pass", "check"} : Goto("manager", l)
      <4>1. ASSUME NEW i \in DOMAIN pending, Dispatch("manager", i) PROVE ~UNCHANGED pending
        BY <4>1, DispatchShape DEF Rotators
      <4> QED
        BY <2>4, <4>1 DEF Check, Block, Wake, NextDue
    <3> QED
      BY <2>1, <2>2, <3>1, <3>2 DEF RotationLabels
  <2>5. CASE Signal \/ StopApi \/ JoinManager \/ (Drain /\ UNCHANGED <<pending, job>>)
    <3>1. pc["main"] \notin RotationLabels
      BY <2>5 DEF Signal, StopApi, JoinManager, Drain, RotationLabels
    <3>2. PICK l \in {"stopApi", "joinApi", "drain", "done"} : Goto("main", l)
      <4>1. ASSUME NEW i \in DOMAIN pending, Dispatch("main", i) PROVE ~UNCHANGED pending
        BY <4>1, DispatchShape DEF Rotators
      <4> QED
        BY <2>5, <4>1 DEF Signal, StopApi, JoinManager, Drain
    <3> QED
      BY <2>1, <2>2, <3>1, <3>2 DEF RotationLabels
  <2>6. CASE StopRotation
    <3>1. \A t \in Rotators : \/ pc'[t] = pc[t]
                              \/ pc[t] = "wait" /\ pc'[t] = "check"
                              \/ pc[t] = "joinApi" /\ pc'[t] = "joinManager"
      BY <2>6 DEF StopRotation, TypeInv, PcOK, Threads, Rotators, Notified
    <3> QED
      BY <3>1 DEF RotationLabels
  <2>7. CASE Plugin \/ Get \/ Tick \/ UNCHANGED vars
    BY <2>7 DEF Plugin, Get, Rotate, StartEmbed, FinishEmbed, NotifyPreview, Tick, vars
  <2> QED
    BY <2>3, <2>4, <2>5, <2>6, <2>7
<1> QED
  BY <1>1, <1>3, <1>4, HandKept

(* What a photo shows changes only in the call that writes it.             *)
LEMMA RowKept ==
  ASSUME TypeInv, [Next]_vars, \A t \in Rotators : ~UpdateOrientation(t)
  PROVE  \A i \in Imports : rows'[i].orient = rows[i].orient
<1>1. CASE UpdateHash
  <2>1. req.id \in Imports
    BY <1>1, Numbers DEF UpdateHash, TypeInv, RequestOK
  <2>2. \A i \in Imports : [rows EXCEPT ![req.id].hash = req.new][i].orient = rows[i].orient
    BY <2>1 DEF TypeInv, StoreOK
  <2> QED
    BY <1>1, <2>2 DEF UpdateHash, HashStored
<1>2. CASE ~UpdateHash
  <2>1. UNCHANGED rows
    BY <1>2 DEF Next, Plugin, Get, Rotate, StartEmbed, FinishEmbed, NotifyPreview, Tick, Signal,
       Api, ApiTop, Accept, HandleGet, Find, Queue, HashDng, RecordEdit, Manager, Main, Check,
       Block, Wake, NextDue, StopApi, StopRotation, JoinManager, Drain, Rotation, AcquireLock,
       ReadDng, WriteDng, ReleaseLock, Rotators, store, vars
  <2> QED
    BY <2>1
<1> QED
  BY <1>1, <1>2

LEMMA FileKept ==
  ASSUME TypeInv, [Next]_vars, \A t \in Rotators : ~WriteDng(t)
  PROVE  \A i \in Steady : dng'[i] = dng[i]
<1>1. CASE FinishEmbed
  <2>1. plugin.id \in Embedded
    BY <1>1 DEF FinishEmbed, TypeInv, UserOK, NoJob
  <2> QED
    BY <1>1, <2>1 DEF FinishEmbed, Steady, TypeInv, StoreOK
<1>2. CASE ~FinishEmbed
  <2>1. UNCHANGED dng
    BY <1>2 DEF Next, Plugin, Get, Rotate, StartEmbed, NotifyPreview, Tick, Signal,
       Api, ApiTop, Accept, HandleGet, Find, Queue, HashDng, UpdateHash, RecordEdit, Manager,
       Main, Check, Block, Wake, NextDue, StopApi, StopRotation, JoinManager, Drain, Rotation,
       AcquireLock, ReadDng, UpdateOrientation, ReleaseLock, Rotators, vars
  <2> QED
    BY <2>1
<1> QED
  BY <1>1, <1>2

(* Every step queues, dispatches, is on the way, or does not concern it.   *)
LEMMA StepKinds ==
  ASSUME TypeInv, [Next]_vars
  PROVE  \/ Queue
         \/ \E t \in Rotators : \E i \in DOMAIN pending :
              Dispatch(t, i) /\ pc[t] = After(t) /\ UNCHANGED <<dng, rows, asked>>
         \/ \E t \in Rotators : Rotation(t)
         \/ \/ Plugin \/ Get \/ Tick \/ Signal \/ (Api /\ ~Queue) \/ UNCHANGED vars
            \/ Check \/ Block \/ Wake \/ StopApi \/ StopRotation \/ JoinManager
            \/ (NextDue /\ UNCHANGED <<pending, job>>) \/ (Drain /\ UNCHANGED <<pending, job>>)
<1>1. CASE NextDue
  BY <1>1 DEF NextDue, After, Rotators, store, queued
<1>2. CASE Drain
  BY <1>2 DEF Drain, After, Rotators, store, queued
<1> QED
  BY <1>1, <1>2 DEF Next, Manager, Main, Rotators

(* The calls of a rotation, one after the other.                           *)
LEMMA RotationMoves ==
  ASSUME TypeInv, NEW t \in Rotators, Rotation(t)
  PROVE  \/ pc[t] = "acquire" /\ pc'[t] = "read" /\ UNCHANGED <<dng, rows>>
         \/ pc[t] = "acquire" /\ pc'[t] = After(t) /\ Lossy /\ UNCHANGED <<dng, rows>>
         \/ pc[t] = "read" /\ pc'[t] = "write" /\ UNCHANGED <<dng, rows>>
         \/ pc[t] = "read" /\ pc'[t] \in {"orient", "release"} /\ Lossy /\ UNCHANGED <<dng, rows>>
         \/ /\ pc[t] = "write" /\ pc'[t] = "orient" /\ UNCHANGED rows
            /\ dng' = [dng EXCEPT ![job[t].id] = [job[t].held EXCEPT !.orient = job[t].orient]]
         \/ pc[t] = "orient" /\ pc'[t] = "release" /\ UNCHANGED dng /\ rows' = RowWrite(t)
         \/ pc[t] = "orient" /\ pc'[t] = "release" /\ Lossy /\ UNCHANGED <<dng, rows>>
         \/ pc[t] = "release" /\ pc'[t] = After(t) /\ UNCHANGED <<dng, rows>>
<1>1. \A l : Goto(t, l) => pc'[t] = l
  BY RotatorMove
<1>2. Return(t) => pc'[t] = After(t)
  BY <1>1 DEF Return, After
<1>3. DbFails(t) => Lossy
  BY DEF DbFails, Fails, Lossy
<1>4. Fails("exiftool") => Lossy
  BY DEF Fails, Lossy
<1>5. CASE AcquireLock(t)
  BY <1>1, <1>2, <1>3, <1>5 DEF AcquireLock
<1>6. CASE ReadDng(t)
  BY <1>1, <1>4, <1>6 DEF ReadDng, store
<1>7. CASE WriteDng(t)
  BY <1>1, <1>7 DEF WriteDng, store
<1>8. CASE UpdateOrientation(t)
  BY <1>1, <1>3, <1>8 DEF UpdateOrientation
<1>9. CASE ReleaseLock(t)
  BY <1>2, <1>9 DEF ReleaseLock
<1> QED
  BY <1>5, <1>6, <1>7, <1>8, <1>9 DEF Rotation

(* The row: an intent is in hand until UpdateOrientation.                  *)
LEMMA RowStep ==
  ASSUME TypeInv, Coming, Positive, [Next]_vars
  PROVE  [InRow!Next]_(InRow!coalescer)
<1> DEFINE labels == {"acquire", "read", "write", "orient"}
           hand   == Hand(Imports, labels)
           shown  == [i \in Imports |-> rows[i].orient]
<1>0. Imports \in SUBSET Imports /\ labels \in SUBSET RotationLabels /\ "acquire" \in labels
  BY DEF RotationLabels
<1>1. (\A t \in Rotators : ~UpdateOrientation(t)) => UNCHANGED shown
  BY RowKept
<1>2. ASSUME UNCHANGED <<Waits(Imports), Last(Imports), hand, shown>>
      PROVE  UNCHANGED InRow!coalescer
  BY <1>2 DEF InRow!coalescer
<1>3. CASE Queue
  <2>1. UNCHANGED shown
    BY <1>1, <1>3 DEF Queue, UpdateOrientation, store
  <2>2. UNCHANGED hand
    BY <1>0, <1>3, QueuePuts
  <2>3. ASSUME NEW i \in Imports, NEW o \in Orients \ {0}, o > Last(Imports)[i],
               Waits(Imports)' = [Waits(Imports) EXCEPT ![i] = o],
               Last(Imports)' = [Last(Imports) EXCEPT ![i] = o]
        PROVE  InRow!Next
    BY <2>1, <2>2, <2>3 DEF InRow!Next, InRow!Put
  <2> QED
    BY <1>0, <1>2, <1>3, <2>1, <2>2, <2>3, QueuePuts
<1>4. ASSUME NEW t \in Rotators, NEW i \in DOMAIN pending, Dispatch(t, i), pc[t] = After(t),
             UNCHANGED <<dng, rows, asked>>
      PROVE  InRow!Next
  <2>1. UNCHANGED <<Last(Imports), shown>> /\ i \in Imports
    BY <1>4, Naturals DEF Last
  <2>2. /\ hand = InRow!NoHand /\ Waits(Imports)[i] # 0
        /\ hand' = [id |-> i, intent |-> Waits(Imports)[i]]
        /\ Waits(Imports)' = [Waits(Imports) EXCEPT ![i] = 0]
    BY <1>0, <1>4, <2>1, DispatchTakes DEF InRow!NoHand, Nothing
  <2> QED
    BY <2>1, <2>2 DEF InRow!Next, InRow!Take
<1>5. ASSUME NEW t \in Rotators, Rotation(t) PROVE [InRow!Next]_(InRow!coalescer)
  <2>1. /\ UNCHANGED <<Waits(Imports), Last(Imports)>>
        /\ hand = IF InHandOf(t, Imports, labels) THEN Intent(t) ELSE Nothing
        /\ hand' = IF pc'[t] \in labels /\ job[t].id \in Imports THEN Intent(t) ELSE Nothing
        /\ Intent(t) # Nothing
    BY <1>0, <1>5, RotationHolds
  <2>2. pc[t] \in RotationLabels /\ job[t].id \in Imports
    BY <1>5, RotatesOn, Naturals
  <2>3. CASE UNCHANGED rows /\ (pc'[t] \in labels <=> pc[t] \in labels)
    BY <1>2, <2>1, <2>3 DEF InHandOf
  <2>4. CASE UNCHANGED rows /\ Lossy /\ pc'[t] \notin labels
    <3>1. hand' = Nothing /\ UNCHANGED shown
      BY <2>1, <2>4
    <3> QED
      BY <2>1, <2>4, <3>1 DEF InRow!Next, InRow!GiveUp, InRow!NoHand, Nothing
  <2>5. CASE pc[t] = "orient" /\ pc'[t] = "release" /\ rows' = RowWrite(t)
    <3>1. hand = Intent(t) /\ hand' = Nothing
      BY <2>1, <2>2, <2>5 DEF InHandOf
    <3>2. shown' = [shown EXCEPT ![job[t].id] = job[t].orient]
      BY <2>2, <2>5 DEF RowWrite, TypeInv, StoreOK
    <3>3. hand # Nothing /\ hand.id = job[t].id /\ hand.intent = job[t].orient
      BY <2>1, <3>1 DEF Intent
    <3> QED
      BY <2>1, <3>1, <3>2, <3>3 DEF InRow!Next, InRow!Apply, InRow!NoHand, Nothing
  <2>6. After(t) \notin labels
    BY DEF After
  <2> QED
    BY <1>5, <2>3, <2>4, <2>5, <2>6, RotationMoves
<1>6. CASE UNCHANGED <<Waits(Imports), Last(Imports), hand>>
           /\ \A t \in Rotators : ~UpdateOrientation(t)
  BY <1>1, <1>2, <1>6
<1> QED
  BY <1>0, <1>3, <1>4, <1>5, <1>6, StepKinds, OthersKeep DEF Rotation

(* The DNG: an intent is in hand until exiftool has written it.            *)
LEMMA FileStep ==
  ASSUME TypeInv, Coming, Positive, [Next]_vars
  PROVE  [OnFile!Next]_(OnFile!coalescer)
<1> DEFINE labels == {"acquire", "read", "write"}
           hand   == Hand(Steady, labels)
           shown  == [i \in Steady |-> dng[i].orient]
<1>0. Steady \in SUBSET Imports /\ labels \in SUBSET RotationLabels /\ "acquire" \in labels
  BY DEF RotationLabels, Steady
<1>1. (\A t \in Rotators : ~WriteDng(t)) => UNCHANGED shown
  BY FileKept
<1>2. ASSUME UNCHANGED <<Waits(Steady), Last(Steady), hand, shown>>
      PROVE  UNCHANGED OnFile!coalescer
  BY <1>2 DEF OnFile!coalescer
<1>3. CASE Queue
  <2>1. UNCHANGED shown
    BY <1>1, <1>3 DEF Queue
  <2>2. UNCHANGED hand
    BY <1>0, <1>3, QueuePuts
  <2>3. ASSUME NEW i \in Steady, NEW o \in Orients \ {0}, o > Last(Steady)[i],
               Waits(Steady)' = [Waits(Steady) EXCEPT ![i] = o],
               Last(Steady)' = [Last(Steady) EXCEPT ![i] = o]
        PROVE  OnFile!Next
    BY <2>1, <2>2, <2>3 DEF OnFile!Next, OnFile!Put
  <2> QED
    BY <1>0, <1>2, <1>3, <2>1, <2>2, <2>3, QueuePuts
<1>4. ASSUME NEW t \in Rotators, NEW i \in DOMAIN pending, Dispatch(t, i), pc[t] = After(t),
             UNCHANGED <<dng, rows, asked>>
      PROVE  [OnFile!Next]_(OnFile!coalescer)
  <2>1. UNCHANGED <<Last(Steady), shown>>
    BY <1>4 DEF Last
  <2>2. CASE i \notin Steady /\ UNCHANGED <<Waits(Steady), hand>>
    BY <1>2, <2>1, <2>2
  <2>3. CASE /\ i \in Steady /\ hand = OnFile!NoHand /\ Waits(Steady)[i] # 0
             /\ hand' = [id |-> i, intent |-> Waits(Steady)[i]]
             /\ Waits(Steady)' = [Waits(Steady) EXCEPT ![i] = 0]
    BY <2>1, <2>3 DEF OnFile!Next, OnFile!Take
  <2> QED
    BY <1>0, <1>4, <2>2, <2>3, DispatchTakes DEF OnFile!NoHand, Nothing
<1>5. ASSUME NEW t \in Rotators, Rotation(t) PROVE [OnFile!Next]_(OnFile!coalescer)
  <2>1. /\ UNCHANGED <<Waits(Steady), Last(Steady)>>
        /\ hand = IF InHandOf(t, Steady, labels) THEN Intent(t) ELSE Nothing
        /\ hand' = IF pc'[t] \in labels /\ job[t].id \in Steady THEN Intent(t) ELSE Nothing
        /\ Intent(t) # Nothing
    BY <1>0, <1>5, RotationHolds
  <2>2. job[t].id \in Imports
    BY <1>5, RotatesOn, Naturals
  <2>3. CASE UNCHANGED dng /\ (pc'[t] \in labels <=> pc[t] \in labels)
    BY <1>2, <2>1, <2>3 DEF InHandOf
  <2>4. CASE UNCHANGED dng /\ Lossy /\ pc'[t] \notin labels
    <3>1. hand' = Nothing /\ UNCHANGED shown
      BY <2>1, <2>4
    <3> QED
      BY <2>1, <2>4, <3>1 DEF OnFile!Next, OnFile!GiveUp, OnFile!NoHand, Nothing
  <2>5. CASE /\ pc[t] = "write" /\ pc'[t] = "orient"
             /\ dng' = [dng EXCEPT ![job[t].id] = [job[t].held EXCEPT !.orient = job[t].orient]]
    <3>1. job[t].held \in Content
      BY <2>5 DEF TypeInv, JobOK, Held
    <3>2. [job[t].held EXCEPT !.orient = job[t].orient].orient = job[t].orient
      BY <3>1 DEF Content
    <3>3. CASE job[t].id \notin Steady
      <4>1. UNCHANGED shown
        BY <2>2, <2>5, <3>3 DEF TypeInv, StoreOK, Steady
      <4> QED
        BY <1>2, <2>1, <3>3, <4>1 DEF InHandOf
    <3>4. CASE job[t].id \in Steady
      <4>1. hand = Intent(t) /\ hand' = Nothing
        BY <2>1, <2>5, <3>4 DEF InHandOf
      <4>2. dng'[job[t].id].orient = job[t].orient
            /\ \A i \in Imports \ {job[t].id} : dng'[i] = dng[i]
        BY <2>2, <2>5, <3>2 DEF TypeInv, StoreOK
      <4>3. shown' = [shown EXCEPT ![job[t].id] = job[t].orient]
        BY <3>4, <4>2 DEF Steady
      <4>4. hand # Nothing /\ hand.id = job[t].id /\ hand.intent = job[t].orient
        BY <2>1, <4>1 DEF Intent
      <4> QED
        BY <2>1, <4>1, <4>3, <4>4 DEF OnFile!Next, OnFile!Apply, OnFile!NoHand, Nothing
    <3> QED
      BY <3>3, <3>4
  <2>6. After(t) \notin labels
    BY DEF After
  <2> QED
    BY <1>5, <2>3, <2>4, <2>5, <2>6, RotationMoves
<1>6. CASE UNCHANGED <<Waits(Steady), Last(Steady), hand>> /\ \A t \in Rotators : ~WriteDng(t)
  BY <1>1, <1>2, <1>6
<1> QED
  BY <1>0, <1>3, <1>4, <1>5, <1>6, StepKinds, OthersKeep DEF Rotation

LEMMA NothingYet ==
  ASSUME Init, NEW photos \in SUBSET Imports, NEW labels \in SUBSET RotationLabels
  PROVE  /\ Waits(photos) = [i \in photos |-> 0] /\ Last(photos) = [i \in photos |-> 0]
         /\ Hand(photos, labels) = Nothing
<1>1. pc["manager"] \notin labels /\ pc["main"] \notin labels
  BY DEF Init, RotationLabels
<1> QED
  BY <1>1 DEF Init, Waits, Last, Hand, InHandOf, Nothing

(* The rows go through the rotations as a coalescing queue lets them: a    *)
(* dispatch takes the last intent that waits, by the manager or by Stop,   *)
(* and the row has that intent afterwards or the dispatch has failed.      *)
(* This is so under every fault, on strict servers and others, and         *)
(* whatever the plugin does to the DNGs meanwhile (rotation.cpp:33-62,     *)
(* 82-121 and 123-147; rotation.h:14-15).                                  *)
THEOREM SyncRowsCoalesce == Spec => RowsCoalesce
<1>1. Init => InRow!Init
  <2> SUFFICES ASSUME Init PROVE InRow!Init
    OBVIOUS
  <2>1. {"acquire", "read", "write", "orient"} \in SUBSET RotationLabels
    BY DEF RotationLabels
  <2>2. [i \in Imports |-> rows[i].orient] = [i \in Imports |-> 0]
    BY DEF Init
  <2> QED
    BY <2>1, <2>2, NothingYet DEF InRow!Init, InRow!Empty, InRow!NoHand, Nothing
<1>2. TypeInv /\ CoalesceInv /\ [Next]_vars => [InRow!Next]_(InRow!coalescer)
  BY RowStep DEF CoalesceInv
<1> QED
  BY <1>1, <1>2, Coalescing, PTL DEF Spec, RowsCoalesce, InRow!Spec

(* So do the DNGs the plugin does not embed previews in: nothing but       *)
(* exiftool writes them (rotation.cpp:92-107 and 138-142).                 *)
THEOREM SyncFilesCoalesce == Spec => FilesCoalesce
<1>1. Init => OnFile!Init
  <2> SUFFICES ASSUME Init PROVE OnFile!Init
    OBVIOUS
  <2>1. {"acquire", "read", "write"} \in SUBSET RotationLabels /\ Steady \in SUBSET Imports
    BY DEF RotationLabels, Steady
  <2>2. [i \in Steady |-> dng[i].orient] = [i \in Steady |-> 0]
    BY DEF Init, Fresh, Steady
  <2> QED
    BY <2>1, <2>2, NothingYet DEF OnFile!Init, OnFile!Empty, OnFile!NoHand, Nothing
<1>2. TypeInv /\ CoalesceInv /\ [Next]_vars => [OnFile!Next]_(OnFile!coalescer)
  BY FileStep DEF CoalesceInv
<1> QED
  BY <1>1, <1>2, Coalescing, PTL DEF Spec, FilesCoalesce, OnFile!Spec

(* So what is proved of every coalescing queue is true of the rows and of  *)
(* the DNGs.                                                               *)
InRows == INSTANCE CoalescerProofs WITH
  Images <- Imports, Intents <- Orients \ {0},
  slot <- Waits(Imports), last <- Last(Imports),
  hand <- Hand(Imports, {"acquire", "read", "write", "orient"}),
  result <- [i \in Imports |-> rows[i].orient]

OnFiles == INSTANCE CoalescerProofs WITH
  Images <- Steady, Intents <- Orients \ {0},
  slot <- Waits(Steady), last <- Last(Steady),
  hand <- Hand(Steady, {"acquire", "read", "write"}),
  result <- [i \in Steady |-> dng[i].orient]

LEMMA RowsAreOne == Spec => InRows!Spec
<1>1. InRow!Init => InRows!Init
  BY DEF InRow!Init, InRows!Init, InRow!Empty, InRows!Empty, InRow!NoHand, InRows!NoHand
<1>2. [InRow!Next]_(InRow!coalescer) => [InRows!Next]_(InRows!coalescer)
  BY DEF InRow!Next, InRows!Next, InRow!Put, InRows!Put, InRow!Take, InRows!Take, InRow!Apply,
         InRows!Apply, InRow!GiveUp, InRows!GiveUp, InRow!NoHand, InRows!NoHand,
         InRow!coalescer, InRows!coalescer
<1> QED
  BY <1>1, <1>2, SyncRowsCoalesce, PTL DEF RowsCoalesce, InRow!Spec, InRows!Spec

LEMMA FilesAreOne == Spec => OnFiles!Spec
<1>1. OnFile!Init => OnFiles!Init
  BY DEF OnFile!Init, OnFiles!Init, OnFile!Empty, OnFiles!Empty, OnFile!NoHand, OnFiles!NoHand
<1>2. [OnFile!Next]_(OnFile!coalescer) => [OnFiles!Next]_(OnFiles!coalescer)
  BY DEF OnFile!Next, OnFiles!Next, OnFile!Put, OnFiles!Put, OnFile!Take, OnFiles!Take,
         OnFile!Apply, OnFiles!Apply, OnFile!GiveUp, OnFiles!GiveUp, OnFile!NoHand,
         OnFiles!NoHand, OnFile!coalescer, OnFiles!coalescer
<1> QED
  BY <1>1, <1>2, SyncFilesCoalesce, PTL DEF FilesCoalesce, OnFile!Spec, OnFiles!Spec

(* No rotation is undone by an earlier one, in the rows of the database    *)
(* and in the DNGs the plugin does not embed previews in, whichever calls  *)
(* fail (rotation.cpp:47-60, 92-115 and 138-144).                          *)
THEOREM SyncOnlyForward ==
  Spec => [][/\ \A i \in Imports : rows'[i].orient >= rows[i].orient
             /\ \A i \in Steady : dng'[i].orient >= dng[i].orient]_vars
<1>1. InRows!Numbered /\ OnFiles!Numbered
  BY Numbers DEF InRows!Numbered, OnFiles!Numbered
<1>2. InRows!Spec => [][InRows!Forward]_(InRows!coalescer)
  BY <1>1, InRows!OnlyForward
<1>3. OnFiles!Spec => [][OnFiles!Forward]_(OnFiles!coalescer)
  BY <1>1, OnFiles!OnlyForward
<1>4. TypeInv /\ [InRows!Forward]_(InRows!coalescer) /\ [OnFiles!Forward]_(OnFiles!coalescer)
      => [/\ \A i \in Imports : rows'[i].orient >= rows[i].orient
          /\ \A i \in Steady : dng'[i].orient >= dng[i].orient]_vars
  <2>1. TypeInv /\ [InRows!Forward]_(InRows!coalescer)
          => \A i \in Imports : rows'[i].orient >= rows[i].orient
    BY Naturals DEF InRows!Forward, InRows!coalescer
  <2>2. TypeInv /\ [OnFiles!Forward]_(OnFiles!coalescer)
          => \A i \in Steady : dng'[i].orient >= dng[i].orient
    BY Naturals DEF OnFiles!Forward, OnFiles!coalescer, Steady
  <2> QED
    BY <2>1, <2>2
<1> QED
  BY <1>2, <1>3, <1>4, RowsAreOne, FilesAreOne, Typed, PTL

(* If no statement and no exiftool fails, a photo that is neither pending  *)
(* nor dispatched has the last intent that was queued for it: in its row,  *)
(* even while the plugin renews its preview, and in its DNG if the plugin  *)
(* does not (rotation.cpp:33-62 and 123-147).                              *)
THEOREM SyncNothingForgotten ==
  ASSUME ~Lossy
  PROVE  Spec => [](\A i \in Imports : Quiet(i) => /\ rows[i].orient = asked[i]
                                                   /\ i \in Steady => dng[i].orient = asked[i])
<1>1. InRows!Numbered /\ OnFiles!Numbered
  BY Numbers DEF InRows!Numbered, OnFiles!Numbered
<1>2. InRows!Spec => []InRows!Remembered
  BY <1>1, InRows!NothingForgotten
<1>3. OnFiles!Spec => []OnFiles!Remembered
  BY <1>1, OnFiles!NothingForgotten
<1>4. ASSUME NEW photos, NEW labels \in SUBSET RotationLabels, NEW i, TypeInv, Quiet(i)
      PROVE  Hand(photos, labels) = Nothing \/ Hand(photos, labels).id # i
  <2>1. \A t \in Rotators : InHandOf(t, photos, labels) => job[t].id # i
    BY <1>4 DEF Quiet, Dispatching, InHandOf, TypeInv, JobOK
  <2> QED
    BY <2>1 DEF Hand, Nothing, Rotators
<1>5. ASSUME NEW i \in Imports, TypeInv, Quiet(i)
      PROVE  InRows!Idle(i) /\ (i \in Steady => OnFiles!Idle(i))
  <2>1. Waits(Imports)[i] = 0 /\ (i \in Steady => Waits(Steady)[i] = 0)
    BY <1>5 DEF Quiet, Waits
  <2>2. /\ {"acquire", "read", "write", "orient"} \in SUBSET RotationLabels
        /\ {"acquire", "read", "write"} \in SUBSET RotationLabels
    BY DEF RotationLabels
  <2> QED
    BY <1>4, <1>5, <2>1, <2>2 DEF InRows!Idle, OnFiles!Idle, InRows!NoHand, OnFiles!NoHand, Nothing
<1>6. TypeInv /\ InRows!Remembered /\ OnFiles!Remembered
      => \A i \in Imports : Quiet(i) => /\ rows[i].orient = asked[i]
                                        /\ i \in Steady => dng[i].orient = asked[i]
  BY <1>5 DEF InRows!Remembered, OnFiles!Remembered, Last
<1> QED
  BY <1>2, <1>3, <1>6, RowsAreOne, FilesAreOne, Typed, PTL

=============================================================================
