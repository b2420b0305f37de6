----------------------------- MODULE RoomHomeProofs -----------------------------
(***************************************************************************)
(* Proofs about RoomHome, for any sets of pods, clients and broadcasts and *)
(* any bounds.                                                             *)
(*                                                                         *)
(* That two pods never hold the same generation is not visible in the      *)
(* state: a deposed home may hold an old generation, and a claim may be on *)
(* its way back to the pod that made it.  The argument goes by the history *)
(* of the lease: the object has had every lease that a pod holds or is     *)
(* about to hold, each generation had one holder, and the present lease is *)
(* the latest of its history.                                              *)
(***************************************************************************)
EXTENDS RoomHome, TLAPS

--------------------------------------------------------------------------------
(* Types *)

\* A handler that is at work is at work on some pod.
Placed == \A c \in Clients : cli[c].at \notin {"out", "over"} => cli[c].pod \in Pods

Typed == TypeOK /\ Placed

\* The pieces that types are made of.
LEMMA TypeFacts ==
    /\ Out \in Handlers /\ Out.at = "out" /\ NoNote \in Notes /\ NoRoom \in Rooms
    /\ Bare \in Objects /\ Absent \in Objects /\ Deleted \in Objects
    /\ 0 \in 0 .. MaxGen /\ 1 \in 0 .. MaxGen
    /\ Fresh \in Fresh .. Old /\ Old \in Fresh .. Old
    /\ {Unstamped, JustEmpty, LongEmpty} \subseteq Unstamped .. LongEmpty
    /\ \A e \in BOOLEAN, p \in Pods : EmptyNote(p, e) \in Notes
    /\ \A S \in SUBSET Broadcasts, p \in Pods : AttsNote(p, S) \in Notes
  <1>1. 0 \in 0 .. MaxGen /\ 1 \in 0 .. MaxGen
    BY RoomHomeAssumption
  <1>2. /\ Fresh \in Fresh .. Old /\ Old \in Fresh .. Old
        /\ {Unstamped, JustEmpty, LongEmpty} \subseteq Unstamped .. LongEmpty
    BY DEF Fresh, Old, Unstamped, JustEmpty, LongEmpty
  <1>3. Out \in Handlers /\ Out.at = "out"
    BY <1>1 DEF Out, Handlers
  <1>4. NoNote \in Notes /\ NoRoom \in Rooms
    BY DEF NoNote, Notes, NoRoom, Rooms
  <1>5. Bare \in Objects
    BY <1>1, <1>2 DEF Bare, Objects
  <1>6. Absent \in Objects /\ Deleted \in Objects
    BY <1>5 DEF Absent, Deleted, Objects
  <1>7. ASSUME NEW p \in Pods
        PROVE  /\ \A e \in BOOLEAN : EmptyNote(p, e) \in Notes
               /\ \A S \in SUBSET Broadcasts : AttsNote(p, S) \in Notes
    BY <1>4 DEF EmptyNote, AttsNote, Notes
  <1> QED
    BY <1>1, <1>2, <1>3, <1>4, <1>5, <1>6, <1>7

\* Whatever is written, it is a Room object, and its lease joins the history.
LEMMA WriteType ==
    ASSUME TypeOK, NEW r \in Objects, Write(r)
    PROVE  /\ cr' \in Objects
           /\ past' \subseteq [holder : Pods \cup {NoPod}, gen : 0 .. MaxGen]
  BY DEF TypeOK, Write, Objects, lease

\* A handler that goes on stays on its pod.
LEMMA GoType ==
    ASSUME Typed, NEW c \in Clients, cli[c].pod \in Pods,
           NEW step \in {"status", "undo", "insert", "upgrade", "proxy", "adopt", "claim", "start",
                         "build", "check", "joining", "in"},
           Go(c, step)
    PROVE  cli' \in [Clients -> Handlers] /\ Placed'
  BY TypeFacts DEF Typed, TypeOK, Placed, Go, Out, Handlers

\* A handler that is done is on none.
LEMMA RefusedType ==
    ASSUME Typed, NEW c \in Clients, Refused(c)
    PROVE  cli' \in [Clients -> Handlers] /\ Placed'
  BY TypeFacts DEF Typed, TypeOK, Placed, Refused

\* Any step of one handler that leaves it on some pod.
LEMMA HandlerType ==
    ASSUME Typed, NEW c \in Clients, NEW h \in Handlers, h.pod \in Pods,
           cli' = [cli EXCEPT ![c] = h]
    PROVE  cli' \in [Clients -> Handlers] /\ Placed'
  BY DEF Typed, TypeOK, Placed

\* So is one that comes to a pod.
LEMMA ArriveType ==
    ASSUME Typed, NEW c \in Clients, NEW p \in Pods
    PROVE  /\ \A step \in {"check", "adopt"} :
                ToHere(c, p, step) => cli' \in [Clients -> Handlers] /\ Placed'
           /\ ToHome(c, p) => cli' \in [Clients -> Handlers] /\ Placed'
  <1>1. ASSUME NEW step \in {"check", "adopt"}, ToHere(c, p, step)
        PROVE  cli' \in [Clients -> Handlers] /\ Placed'
    BY <1>1, TypeFacts DEF Typed, TypeOK, Placed, ToHere, Handlers
  <1>2. ASSUME ToHome(c, p)
        PROVE  cli' \in [Clients -> Handlers] /\ Placed'
    <2>1. PICK l \in CachedElsewhere(p) :
             cli' = [cli EXCEPT ![c] =
                        [Out EXCEPT !.at = "proxy", !.pod = l.holder, !.gen = l.gen]]
      BY <1>2 DEF ToHome
    <2> DEFINE h == [Out EXCEPT !.at = "proxy", !.pod = l.holder, !.gen = l.gen]
    <2>2. l.holder \in Pods /\ l.gen \in 0 .. MaxGen
      BY DEF CachedElsewhere, Typed, TypeOK
    <2>3. h \in Handlers /\ h.pod \in Pods
      BY <2>2, TypeFacts DEF Handlers
    <2>4. cli' = [cli EXCEPT ![c] = h]
      BY <2>1
    <2> HIDE DEF h
    <2> QED
      BY <2>3, <2>4, HandlerType
  <1> QED
    BY <1>1, <1>2

\* The end of a room, with whatever job leads to it.
LEMMA EndRoomType ==
    ASSUME Typed, NEW p \in Pods, NEW j, EndRoom(p, j)
    PROVE  /\ room' \in [Pods -> Rooms]
           /\ jobs' \in [Pods -> SUBSET Jobs]
           /\ cli' \in [Clients -> Handlers] /\ Placed'
  <1>1. CASE room[p].on
    <2>1. room' \in [Pods -> Rooms] /\ jobs' \in [Pods -> SUBSET Jobs]
      BY <1>1, TypeFacts DEF Typed, TypeOK, EndRoom, Jobs
    <2> DEFINE o == [Out EXCEPT !.at = "over"]
    <2>2. o \in Handlers /\ o.at = "over"
      BY TypeFacts DEF Handlers
    <2>3. cli' = [c \in Clients |-> IF c \in Present(p) THEN o ELSE cli[c]]
      BY <1>1 DEF EndRoom
    <2> HIDE DEF o
    <2>4. cli' \in [Clients -> Handlers] /\ Placed'
      BY <2>2, <2>3 DEF Typed, TypeOK, Placed
    <2> QED
      BY <2>1, <2>4
  <1>2. CASE ~room[p].on
    BY <1>2 DEF Typed, TypeOK, Placed, EndRoom
  <1> QED
    BY <1>1, <1>2

\* Sessions that are let go.
LEMMA LetGoType ==
    ASSUME Typed, NEW S \in SUBSET Clients, cli' = LetGo(S)
    PROVE  cli' \in [Clients -> Handlers] /\ Placed'
  BY TypeFacts DEF LetGo, Typed, TypeOK, Placed

\* Every step of a handler keeps the types.
LEMMA HandlerTyped ==
    ASSUME Typed, NEW c \in Clients, HandlerStep(c)
    PROVE  Typed'
  <1>t. /\ cli[c] \in Handlers
        /\ cli[c].at \notin {"out", "over"} => cli[c].pod \in Pods
        /\ cr \in Objects
    BY DEF Typed, TypeOK, Placed
  <1>s. ASSUME Fault
        PROVE  spent' \in [joins : 0 .. MaxJoins, faults : 0 .. MaxFaults, edits : 0 .. MaxEdits]
    BY <1>s, RoomHomeAssumption DEF Fault, Spend, Typed, TypeOK
  <1>1. CASE ReserveStatus(c)
    <2>p. cli[c].pod \in Pods
      BY <1>1, <1>t DEF ReserveStatus, At
    <2>1. Reserved(cli[c].pod) \in Objects
      BY <1>t, <2>p, TypeFacts DEF Reserved, Objects
    <2>2. /\ cr' \in Objects
          /\ past' \subseteq [holder : Pods \cup {NoPod}, gen : 0 .. MaxGen]
      BY <1>1, <2>1, WriteType DEF ReserveStatus, KeepObject, Typed, TypeOK
    <2>3. cli' \in [Clients -> Handlers] /\ Placed'
      BY <1>1, <2>p, GoType DEF ReserveStatus
    <2>4. held' \in [Pods -> 0 .. MaxGen]
      BY <1>1, TypeFacts DEF ReserveStatus, Typed, TypeOK
    <2>5. spent' \in [joins : 0 .. MaxJoins, faults : 0 .. MaxFaults, edits : 0 .. MaxEdits]
      BY <1>1, <1>s DEF ReserveStatus, Typed, TypeOK
    <2> QED
      BY <1>1, <2>2, <2>3, <2>4, <2>5 DEF ReserveStatus, Typed, TypeOK
  <1>11. CASE ReserveDelete(c)
    <2>1. cr' \in Objects /\ UNCHANGED past
      BY <1>11, <1>t, TypeFacts DEF ReserveDelete, Remove, KeepObject
    <2>2. spent' \in [joins : 0 .. MaxJoins, faults : 0 .. MaxFaults, edits : 0 .. MaxEdits]
      BY <1>11, <1>s DEF ReserveDelete, Typed, TypeOK
    <2> QED
      BY <1>11, <2>1, <2>2, RefusedType DEF ReserveDelete, Typed, TypeOK
  <1>2. CASE MintInsert(c)
    <2>1. cli[c].pod \in Pods /\ Go(c, "upgrade")
      BY <1>2, <1>t DEF MintInsert, At
    <2>2. PICK b \in Broadcasts :
             /\ room' = [room EXCEPT ![cli[c].pod] = [on |-> TRUE, armed |-> TRUE, atts |-> {b}]]
             /\ Notify(c, AttsNote(cli[c].pod, {b}))
      BY <1>2 DEF MintInsert
    <2>3. room' \in [Pods -> Rooms] /\ note' \in [Actors -> Notes]
      BY <2>1, <2>2, TypeFacts DEF Typed, TypeOK, Rooms, Notify, Actors
    <2> QED
      BY <1>2, <2>1, <2>3, GoType DEF MintInsert, KeepObject, Typed, TypeOK
  <1>3. CASE MintUpgrade(c)
    <2>1. cli[c].pod \in Pods
      BY <1>3, <1>t DEF MintUpgrade, At
    <2>2. cli' \in [Clients -> Handlers] /\ Placed'
      BY <1>3, <2>1, GoType, RefusedType DEF MintUpgrade
    <2>3. /\ jobs' \in [Pods -> SUBSET Jobs]
          /\ spent' \in [joins : 0 .. MaxJoins, faults : 0 .. MaxFaults, edits : 0 .. MaxEdits]
      BY <1>3, RoomHomeAssumption DEF MintUpgrade, Typed, TypeOK, AddJob, Jobs, Fault, Spend
    <2> QED
      BY <1>3, <2>2, <2>3 DEF MintUpgrade, KeepObject, Typed, TypeOK
  <1>4. CASE Proxy(c)
    BY <1>4, <1>t, GoType, RefusedType DEF Proxy, At, KeepObject, Typed, TypeOK
  <1>5. CASE AdoptGet(c)
    <2>1. cli[c].pod \in Pods
      BY <1>5, <1>t DEF AdoptGet, At
    <2>2. cli' \in [Clients -> Handlers] /\ Placed'
      <3>1. CASE Refused(c)
        BY <3>1, RefusedType
      <3>2. CASE ToHome(c, cli[c].pod)
        BY <2>1, <3>2, ArriveType
      <3>3. CASE cli' = [cli EXCEPT ![c].at = "claim", ![c].force = cr.holder # NoPod /\ ~Live(cr)]
        <4> DEFINE h == [cli[c] EXCEPT !.at = "claim", !.force = cr.holder # NoPod /\ ~Live(cr)]
        <4>1. h \in Handlers /\ h.pod \in Pods
          BY <1>t, <2>1 DEF Handlers
        <4>2. cli' = [cli EXCEPT ![c] = h]
          BY <3>3
        <4> HIDE DEF h
        <4> QED
          BY <4>1, <4>2, HandlerType
      <3> QED
        BY <1>5, <3>1, <3>2, <3>3 DEF AdoptGet, HeldElsewhere
    <2> QED
      BY <1>5, <2>2 DEF AdoptGet, KeepObject, Typed, TypeOK
  <1>6. CASE Claim(c)
    <2>p. cli[c].pod \in Pods
      BY <1>6, <1>t DEF Claim, At
    <2>1. spent' \in [joins : 0 .. MaxJoins, faults : 0 .. MaxFaults, edits : 0 .. MaxEdits]
      BY <1>6, <1>s DEF Claim, Typed, TypeOK
    <2>2. ASSUME cr.gen < MaxGen
          PROVE  /\ cr.gen + 1 \in 0 .. MaxGen
                 /\ Claimed(cli[c].pod) \in Objects /\ Claimed(cli[c].pod).gen = cr.gen + 1
      <3>1. cr.gen + 1 \in 0 .. MaxGen
        BY <1>t, <2>2, RoomHomeAssumption DEF Objects
      <3> QED
        BY <1>t, <2>p, <3>1, TypeFacts DEF Claimed, Objects
    <2>3. /\ cr' \in Objects
          /\ past' \subseteq [holder : Pods \cup {NoPod}, gen : 0 .. MaxGen]
      BY <1>6, <2>2, WriteType DEF Claim, KeepObject, Typed, TypeOK
    <2>4. cli' \in [Clients -> Handlers] /\ Placed'
      <3>1. CASE Refused(c)
        BY <3>1, RefusedType
      <3>2. CASE ToHome(c, cli[c].pod)
        BY <2>p, <3>2, ArriveType
      <3>3. CASE /\ cr.gen < MaxGen
                 /\ cli' = [cli EXCEPT ![c].at = "start", ![c].gen = Claimed(cli[c].pod).gen]
        <4> DEFINE h == [cli[c] EXCEPT !.at = "start", !.gen = Claimed(cli[c].pod).gen]
        <4>1. h \in Handlers /\ h.pod \in Pods
          BY <1>t, <2>p, <2>2, <3>3 DEF Handlers
        <4>2. cli' = [cli EXCEPT ![c] = h]
          BY <3>3
        <4> HIDE DEF h
        <4> QED
          BY <4>1, <4>2, HandlerType
      <3> QED
        BY <1>6, <3>1, <3>2, <3>3 DEF Claim, HeldElsewhere
    <2> QED
      BY <1>6, <2>1, <2>3, <2>4 DEF Claim, Typed, TypeOK
  <1>7. CASE startRenew(c)
    <2>1. held' \in [Pods -> 0 .. MaxGen]
      BY <1>7, <1>t DEF startRenew, Typed, TypeOK, Handlers
    <2> QED
      BY <1>7, <1>t, <2>1, GoType DEF startRenew, At, KeepObject, Typed, TypeOK
  <1>8. CASE AdoptBuild(c)
    <2>1. cli' \in [Clients -> Handlers] /\ Placed'
      BY <1>8, <1>t, GoType, RefusedType DEF AdoptBuild, At
    <2>2. room' \in [Pods -> Rooms] /\ held' \in [Pods -> 0 .. MaxGen]
      <3>1. held' \in [Pods -> 0 .. MaxGen]
        BY <1>8, TypeFacts DEF AdoptBuild, Typed, TypeOK
      <3> DEFINE new == [on |-> TRUE, armed |-> TRUE, atts |-> cr.atts]
      <3>2. new \in Rooms /\ room \in [Pods -> Rooms]
        BY <1>t DEF Rooms, Objects, Typed, TypeOK
      <3>3. \/ UNCHANGED room
            \/ room' = [room EXCEPT ![cli[c].pod] = room[cli[c].pod]]
            \/ room' = [room EXCEPT ![cli[c].pod] = new]
        BY <1>8 DEF AdoptBuild
      <3> HIDE DEF new
      <3> QED
        BY <3>1, <3>2, <3>3
    <2> QED
      BY <1>8, <2>1, <2>2 DEF AdoptBuild, KeepObject, Typed, TypeOK
  <1>9. CASE CheckJoin(c)
    BY <1>9, <1>t, GoType, RefusedType DEF CheckJoin, At, KeepObject, Typed, TypeOK
  <1>10. CASE Join(c)
    <2>1. cli[c].pod \in Pods
      BY <1>10, <1>t DEF Join, At
    <2>2. cli' \in [Clients -> Handlers] /\ Placed'
      BY <1>10, <2>1, GoType, RefusedType DEF Join
    <2>3. room' \in [Pods -> Rooms] /\ note' \in [Actors -> Notes]
      <3> DEFINE r == room[cli[c].pod]
      <3>0. r \in Rooms
        BY <2>1 DEF Typed, TypeOK
      <3>1. [r EXCEPT !.armed = FALSE] \in Rooms
        <4> HIDE DEF r
        <4> QED
          BY <3>0 DEF Rooms
      <3>2. room' \in [Pods -> Rooms]
        BY <1>10, <2>1, <3>1 DEF Join, Typed, TypeOK
      <3>3. note' \in [Actors -> Notes]
        <4>1. EmptyNote(cli[c].pod, FALSE) \in Notes
          BY <2>1, TypeFacts
        <4>2. UNCHANGED note \/ Notify(c, EmptyNote(cli[c].pod, FALSE))
          BY <1>10 DEF Join
        <4> QED
          BY <4>1, <4>2 DEF Typed, TypeOK, Notify
      <3> QED
        BY <3>2, <3>3
    <2> QED
      BY <1>10, <2>2, <2>3 DEF Join, KeepObject, Typed, TypeOK
  <1> QED
    BY <1>1, <1>2, <1>3, <1>4, <1>5, <1>6, <1>7, <1>8, <1>9, <1>10, <1>11
    DEF HandlerStep

\* An edit of the attachments of a room.
LEMMA EditType ==
    ASSUME Typed, NEW a \in Actors, NEW p \in Pods, NEW S \in SUBSET Broadcasts, Edit(a, p, S)
    PROVE  Typed'
  <1>1. room' \in [Pods -> Rooms]
    <2>1. [room[p] EXCEPT !.atts = S] \in Rooms
      <3>1. room[p] \in Rooms
        BY DEF Typed, TypeOK
      <3> QED
        BY <3>1 DEF Rooms
    <2> QED
      BY <2>1 DEF Edit, Typed, TypeOK
  <1>2. note' \in [Actors -> Notes]
    <2>1. AttsNote(p, S) \in Notes
      BY TypeFacts
    <2> QED
      BY <2>1 DEF Edit, Notify, Typed, TypeOK
  <1>3. spent' \in [joins : 0 .. MaxJoins, faults : 0 .. MaxFaults, edits : 0 .. MaxEdits]
    BY RoomHomeAssumption DEF Edit, Spend, Typed, TypeOK
  <1> QED
    BY <1>1, <1>2, <1>3 DEF Edit, KeepObject, Typed, TypeOK, Placed

\* Every step of a client keeps the types.
LEMMA ClientTyped ==
    ASSUME Typed, NEW c \in Clients, ClientStep(c)
    PROVE  Typed'
  <1>t. /\ cli[c] \in Handlers /\ c \in Actors
        /\ cli[c].at \notin {"out", "over"} => cli[c].pod \in Pods
    BY DEF Typed, TypeOK, Placed, Actors
  <1>1. ASSUME NEW p \in Pods, Create(c, p) PROVE Typed'
    <2>1. Write(Bare)
      BY <1>1 DEF Create
    <2>2. cli' \in [Clients -> Handlers] /\ Placed'
      BY <1>1, TypeFacts DEF Create, Typed, TypeOK, Placed, Handlers
    <2> QED
      BY <1>1, <2>1, <2>2, TypeFacts, WriteType DEF Create, Typed, TypeOK
  <1>2. ASSUME NEW p \in Pods, Arrive(c, p) PROVE Typed'
    <2>1. cli' \in [Clients -> Handlers] /\ Placed'
      BY <1>2, ArriveType DEF Arrive
    <2>2. spent' \in [joins : 0 .. MaxJoins, faults : 0 .. MaxFaults, edits : 0 .. MaxEdits]
      BY <1>2, RoomHomeAssumption DEF Arrive, Typed, TypeOK, Spend
    <2> QED
      BY <1>2, <2>1, <2>2 DEF Arrive, KeepObject, Typed, TypeOK
  <1>3. ASSUME Leave(c) PROVE Typed'
    <2>1. cli[c].pod \in Pods
      BY <1>3, <1>t DEF Leave, At
    <2>2. cli' \in [Clients -> Handlers] /\ Placed'
      BY <1>3, RefusedType DEF Leave
    <2>3. room' \in [Pods -> Rooms] /\ note' \in [Actors -> Notes]
      <3>1. [room[cli[c].pod] EXCEPT !.armed = TRUE] \in Rooms
        <4>1. room[cli[c].pod] \in Rooms
          BY <2>1 DEF Typed, TypeOK
        <4> QED
          BY <4>1 DEF Rooms
      <3>2. room' \in [Pods -> Rooms]
        BY <1>3, <2>1, <3>1 DEF Leave, Typed, TypeOK
      <3>3. note' \in [Actors -> Notes]
        BY <1>3, <2>1, TypeFacts DEF Leave, Typed, TypeOK, Notify
      <3> QED
        BY <3>2, <3>3
    <2> QED
      BY <1>3, <2>2, <2>3 DEF Leave, KeepObject, Typed, TypeOK
  <1>4. ASSUME EndByCreator(c) PROVE Typed'
    <2>1. cli[c].pod \in Pods
      BY <1>4, <1>t DEF EndByCreator, At
    <2> QED
      BY <1>4, <2>1, EndRoomType DEF EndByCreator, KeepObject, Typed, TypeOK
  <1>5. ASSUME NEW b \in Broadcasts, Attach(c, b) \/ Detach(c, b) PROVE Typed'
    <2>1. cli[c].pod \in Pods
      BY <1>5, <1>t DEF Attach, Detach, At
    <2>2. room[cli[c].pod].atts \in SUBSET Broadcasts
      BY <2>1 DEF Typed, TypeOK, Rooms
    <2>3. /\ room[cli[c].pod].atts \cup {b} \in SUBSET Broadcasts
          /\ room[cli[c].pod].atts \ {b} \in SUBSET Broadcasts
      BY <2>2
    <2> QED
      BY <1>5, <1>t, <2>1, <2>3, EditType DEF Attach, Detach
  <1> QED
    BY <1>1, <1>2, <1>3, <1>4, <1>5 DEF ClientStep

\* The status write of a handler or of a pod's poll.
LEMMA NoteTyped ==
    ASSUME Typed, NEW a \in Actors, patchStatus(a)
    PROVE  Typed'
  <1>1. note' \in [Actors -> Notes]
    BY TypeFacts DEF patchStatus, Notify, Typed, TypeOK
  <1>2. Noted(note[a]) \in Objects
    BY TypeFacts DEF Noted, Typed, TypeOK, Objects, Notes
  <1>3. /\ cr' \in Objects
        /\ past' \subseteq [holder : Pods \cup {NoPod}, gen : 0 .. MaxGen]
    BY <1>2, WriteType DEF patchStatus, KeepObject, Typed, TypeOK
  <1> QED
    BY <1>1, <1>3 DEF patchStatus, Typed, TypeOK, Placed

\* A process that stops takes everything of its own with it.
LEMMA GoneType ==
    ASSUME Typed, NEW p \in Pods, Gone(p)
    PROVE  /\ cr' \in Objects /\ UNCHANGED past
           /\ seen' \in [Pods -> BOOLEAN]
           /\ held' \in [Pods -> 0 .. MaxGen]
           /\ room' \in [Pods -> Rooms]
           /\ jobs' \in [Pods -> SUBSET Jobs]
           /\ cli' \in [Clients -> Handlers] /\ Placed'
           /\ note' \in [Actors -> Notes]
           /\ pod' \in [Pods -> {"up", "draining", "down"}]
  <1>1. cli' \in [Clients -> Handlers] /\ Placed'
    BY TypeFacts DEF Gone, LetGo, Typed, TypeOK, Placed
  <1>2. note' \in [Actors -> Notes]
    BY TypeFacts DEF Gone, Typed, TypeOK
  <1> QED
    BY <1>1, <1>2, TypeFacts DEF Gone, KeepObject, Typed, TypeOK, Jobs

\* Every step of a pod's own goroutines keeps the types.
LEMMA PodTyped ==
    ASSUME Typed, NEW p \in Pods, PodStep(p)
    PROVE  Typed'
  <1>t. cr \in Objects /\ held[p] \in 0 .. MaxGen
    BY DEF Typed, TypeOK
  <1>l. ASSUME lost(p)
        PROVE  held' \in [Pods -> 0 .. MaxGen] /\ jobs' \in [Pods -> SUBSET Jobs]
    BY <1>l, TypeFacts DEF lost, AddJob, Jobs, Typed, TypeOK
  <1>1. CASE EmptyGraceOver(p)
    BY <1>1 DEF EmptyGraceOver, AddJob, Jobs, KeepObject, Typed, TypeOK, Placed
  <1>2. CASE EndEmpty(p)
    BY <1>2, EndRoomType DEF EndEmpty, KeepObject, Typed, TypeOK
  <1>3. CASE RoomEnded(p)
    <2>1. /\ held' \in [Pods -> 0 .. MaxGen] /\ jobs' \in [Pods -> SUBSET Jobs]
          /\ spent' \in [joins : 0 .. MaxJoins, faults : 0 .. MaxFaults, edits : 0 .. MaxEdits]
      BY <1>3, TypeFacts, RoomHomeAssumption DEF RoomEnded, Fault, Spend, Typed, TypeOK
    <2>2. cr' \in Objects /\ UNCHANGED past
      BY <1>3, <1>t, TypeFacts DEF RoomEnded, Remove, KeepObject
    <2> QED
      BY <1>3, <2>1, <2>2 DEF RoomEnded, Typed, TypeOK, Placed
  <1>4. CASE Renew(p)
    <2>1. CASE UNCHANGED <<cr, past>>
      <3>1. held' \in [Pods -> 0 .. MaxGen] /\ jobs' \in [Pods -> SUBSET Jobs]
        BY <1>4, <1>l, TypeFacts DEF Renew, Typed, TypeOK
      <3> QED
        BY <1>4, <2>1, <3>1 DEF Renew, Typed, TypeOK, Placed
    <2>2. CASE Write([cr EXCEPT !.age = Fresh]) /\ UNCHANGED <<held, jobs>>
      <3>1. [cr EXCEPT !.age = Fresh] \in Objects
        BY <1>t, TypeFacts DEF Objects
      <3> QED
        BY <1>4, <2>2, <3>1, WriteType DEF Renew, Typed, TypeOK, Placed
    <2> QED
      BY <1>4, <2>1, <2>2 DEF Renew, KeepObject
  <1>5. CASE Observe(p)
    BY <1>5, <1>l DEF Observe, KeepObject, Typed, TypeOK, Placed
  <1>6. CASE observeDelete(p)
    <2>1. held' \in [Pods -> 0 .. MaxGen] /\ seen' \in [Pods -> BOOLEAN]
      BY <1>6, TypeFacts DEF observeDelete, Typed, TypeOK
    <2> QED
      BY <1>6, <2>1, EndRoomType DEF observeDelete, KeepObject, Typed, TypeOK
  <1>7. CASE HandleRoomLeaseLost(p)
    <2>1. cli' \in [Clients -> Handlers] /\ Placed'
      BY <1>7, LetGoType DEF HandleRoomLeaseLost, Tracked
    <2> QED
      BY <1>7, <2>1 DEF HandleRoomLeaseLost, KeepObject, Jobs, Typed, TypeOK
  <1>11. CASE DropCopy(p)
    BY <1>11, EndRoomType DEF DropCopy, KeepObject, Typed, TypeOK
  <1>8. CASE JanitorSweep(p)
    <2>1. [cr EXCEPT !.stamp = JustEmpty] \in Objects
      BY <1>t, TypeFacts DEF Objects
    <2>2. /\ cr' \in Objects
          /\ past' \subseteq [holder : Pods \cup {NoPod}, gen : 0 .. MaxGen]
      BY <1>8, <2>1, TypeFacts, WriteType DEF JanitorSweep, Swept, Remove, Typed, TypeOK
    <2> QED
      BY <1>8, <2>2 DEF JanitorSweep, Typed, TypeOK, Placed
  <1>9. CASE Release(p)
    <2>1. [cr EXCEPT !.holder = NoPod] \in Objects
      BY <1>t DEF Objects
    <2>2. /\ cr' \in Objects
          /\ past' \subseteq [holder : Pods \cup {NoPod}, gen : 0 .. MaxGen]
      BY <1>9, <2>1, WriteType DEF Release, KeepObject, Typed, TypeOK
    <2>3. held' \in [Pods -> 0 .. MaxGen]
      BY <1>9, TypeFacts DEF Release, Typed, TypeOK
    <2> QED
      BY <1>9, <2>2, <2>3 DEF Release, Typed, TypeOK, Placed
  <1>10. CASE Exit(p)
    BY <1>10, GoneType DEF Exit, Typed, TypeOK
  <1> QED
    BY <1>1, <1>2, <1>3, <1>4, <1>5, <1>6, <1>7, <1>8, <1>9, <1>10, <1>11
    DEF PodStep

\* And every crash, drain and expiry, and the passage of time.
LEMMA OutsideTyped ==
    ASSUME Typed, (\E p \in Pods : Outside(p)) \/ LeaseAges \/ StampAges
    PROVE  Typed'
  <1>s. ASSUME Fault
        PROVE  spent' \in [joins : 0 .. MaxJoins, faults : 0 .. MaxFaults, edits : 0 .. MaxEdits]
    BY <1>s, RoomHomeAssumption DEF Fault, Spend, Typed, TypeOK
  <1>1. ASSUME NEW p \in Pods, Crash(p) PROVE Typed'
    BY <1>1, <1>s, GoneType DEF Crash, Typed, TypeOK
  <1>2. ASSUME NEW p \in Pods, Drain(p) PROVE Typed'
    BY <1>2, <1>s DEF Drain, KeepObject, Typed, TypeOK, Placed
  <1>3. ASSUME NEW p \in Pods, NEW b \in Broadcasts, BroadcastExpired(p, b) PROVE Typed'
    <2>1. p \in Actors /\ room[p].atts \ {b} \in SUBSET Broadcasts
      BY DEF Typed, TypeOK, Rooms, Actors
    <2> QED
      BY <1>3, <2>1, EditType DEF BroadcastExpired
  <1>4. ASSUME LeaseAges PROVE Typed'
    <2>1. cr.age + 1 \in Fresh .. Old
      BY <1>4 DEF LeaseAges, Typed, TypeOK, Objects, Fresh, Old
    <2>2. cr' \in Objects
      BY <1>4, <2>1 DEF LeaseAges, Typed, TypeOK, Objects
    <2>3. spent' \in [joins : 0 .. MaxJoins, faults : 0 .. MaxFaults, edits : 0 .. MaxEdits]
      BY <1>4, <1>s DEF LeaseAges, Typed, TypeOK
    <2> QED
      BY <1>4, <2>2, <2>3 DEF LeaseAges, Typed, TypeOK, Placed
  <1>5. ASSUME StampAges PROVE Typed'
    <2>1. cr' \in Objects
      BY <1>5, TypeFacts DEF StampAges, Typed, TypeOK, Objects
    <2> QED
      BY <1>5, <2>1 DEF StampAges, Typed, TypeOK, Placed
  <1> QED
    BY <1>1, <1>2, <1>3, <1>4, <1>5 DEF Outside

\* The first state has the types.
LEMMA TypedInit == Init => Typed
  <1> SUFFICES ASSUME Init PROVE Typed
    OBVIOUS
  <1>1. spent \in [joins : 0 .. MaxJoins, faults : 0 .. MaxFaults, edits : 0 .. MaxEdits]
    BY RoomHomeAssumption DEF Init
  <1> QED
    BY <1>1, TypeFacts DEF Init, Typed, TypeOK, Placed

\* Together: the types are kept by whatever happens.
LEMMA TypedStep ==
    ASSUME Typed, [Next]_vars
    PROVE  Typed'
  <1>1. CASE UNCHANGED vars
    BY <1>1 DEF vars, Typed, TypeOK, Placed
  <1>2. CASE Next
    BY <1>2, HandlerTyped, ClientTyped, NoteTyped, PodTyped, OutsideTyped DEF Next
  <1> QED
    BY <1>1, <1>2

\* The variables of rooms, leases and handlers keep their types.
THEOREM RoomTypeCorrect == Spec => []TypeOK
  <1>1. Typed => TypeOK
    BY DEF Typed
  <1> QED
    BY <1>1, TypedInit, TypedStep, PTL DEF Spec

--------------------------------------------------------------------------------
(* The history of the lease *)

\* An object that has not been created has had no lease.
Blank == cr.st = "none" => past = {}

\* A claim that is on its way back to its pod was made.
Recorded ==
    \A c \in Clients : At(c, "start") => [holder |-> cli[c].pod, gen |-> cli[c].gen] \in past

\* A pod holds only what it was granted.
HeldGranted == \A p \in Pods : held[p] # 0 => [holder |-> p, gen |-> held[p]] \in past

\* The present lease is the latest one, or the latest one let go.
CurrentIsLatest ==
    Made(cr) =>
        /\ lease(cr) \in past
        /\ \A l \in past : l.gen <= cr.gen /\ (l.gen = cr.gen => cr.holder \in {l.holder, NoPod})

\* No generation had two holders.
OneHolder ==
    \A l, m \in past : l.gen = m.gen => l.holder = m.holder \/ NoPod \in {l.holder, m.holder}

LeaseInv == Typed /\ Blank /\ Recorded /\ HeldGranted /\ CurrentIsLatest /\ OneHolder

\* What a step may do to the object: create it, delete it, leave or rewrite its
\* lease, let the lease go, or grant it at the next generation.
Created == cr = Absent /\ Write(Bare)
Rewritten ==
    /\ Made(cr) /\ Made(cr)' /\ lease(cr)' = lease(cr)
    /\ past' \in {past, past \cup {lease(cr)'}}
LetGoOf == Made(cr) /\ Write([cr EXCEPT !.holder = NoPod])
Granted ==
    /\ Made(cr) /\ Made(cr)'
    /\ cr'.gen = cr.gen + 1
    /\ past' = past \cup {lease(cr)'}
LeaseMove == KeepObject \/ Remove \/ Created \/ Rewritten \/ LetGoOf \/ Granted

\* A pod stops renewing, goes on, or has just been granted what it renews.
HeldMove ==
    \A p \in Pods : held'[p] \in {0, held[p]} \/ [holder |-> p, gen |-> held'[p]] \in past'

\* A handler whose claim was committed knows the lease it was granted.
StartMove ==
    \A c \in Clients :
        cli'[c].at = "start" =>
            cli'[c] = cli[c] \/ [holder |-> cli'[c].pod, gen |-> cli'[c].gen] \in past'

\* Every move of the lease keeps its history in order, and forgets nothing.
LEMMA HistoryKept ==
    ASSUME LeaseInv, LeaseMove, cr' \in Objects
    PROVE  past \subseteq past' /\ Blank' /\ CurrentIsLatest' /\ OneHolder'
  <1>t. /\ cr \in Objects /\ cr.gen \in Nat /\ cr'.gen \in Nat
        /\ \A l \in past : l.gen \in Nat
    BY RoomHomeAssumption DEF LeaseInv, Typed, TypeOK, Objects
  <1>1. CASE KeepObject
    BY <1>1 DEF KeepObject, LeaseInv, Blank, CurrentIsLatest, OneHolder, Made, lease
  <1>2. CASE Remove
    BY <1>2 DEF Remove, Deleted, Bare, LeaseInv, Blank, CurrentIsLatest, OneHolder, Made
  <1>3. CASE Created
    <2>1. past = {} /\ cr' = Bare /\ past' = {lease(cr')}
      BY <1>3 DEF Created, Write, Absent, Bare, LeaseInv, Blank
    <2> QED
      BY <2>1, <1>t DEF Blank, CurrentIsLatest, OneHolder, lease, Bare
  <1>4. CASE Rewritten
    <2>1. past' = past /\ cr'.holder = cr.holder /\ cr'.gen = cr.gen
      BY <1>4 DEF Rewritten, LeaseInv, CurrentIsLatest, lease
    <2> QED
      BY <1>4, <2>1 DEF Rewritten, LeaseInv, Blank, CurrentIsLatest, OneHolder, lease, Made
  <1>5. CASE LetGoOf
    <2>1. /\ cr'.holder = NoPod /\ cr'.gen = cr.gen /\ cr'.st = cr.st /\ Made(cr)
          /\ past' = past \cup {[holder |-> NoPod, gen |-> cr.gen]}
      BY <1>5, <1>t DEF LetGoOf, Write, lease, Objects
    <2> QED
      BY <2>1, <1>t DEF LeaseInv, Blank, CurrentIsLatest, OneHolder, lease, Made
  <1>6. CASE Granted
    <2> DEFINE n == [holder |-> cr'.holder, gen |-> cr'.gen]
    <2>1. /\ past' = past \cup {n} /\ n.gen = cr'.gen /\ n.holder = cr'.holder
          /\ \A l \in past : l.gen < n.gen
      BY <1>6, <1>t DEF Granted, LeaseInv, CurrentIsLatest, lease
    <2>2. lease(cr)' = n
      BY DEF lease
    <2> HIDE DEF n
    <2> QED
      BY <1>6, <1>t, <2>1, <2>2 DEF Granted, LeaseInv, Blank, CurrentIsLatest, OneHolder, Made
  <1> QED
    BY <1>1, <1>2, <1>3, <1>4, <1>5, <1>6 DEF LeaseMove

\* The three moves together keep the invariant.
LEMMA MovesKeep ==
    ASSUME LeaseInv, Typed', LeaseMove, HeldMove, StartMove
    PROVE  LeaseInv'
  <1>1. past \subseteq past' /\ Blank' /\ CurrentIsLatest' /\ OneHolder'
    BY HistoryKept DEF Typed, TypeOK
  <1>2. HeldGranted'
    BY <1>1 DEF HeldMove, HeldGranted, LeaseInv
  <1>3. Recorded'
    BY <1>1 DEF StartMove, Recorded, At, LeaseInv
  <1> QED
    BY <1>1, <1>2, <1>3 DEF LeaseInv

\* A step that leaves the object and what is held alone.
LEMMA QuietMoves ==
    ASSUME KeepObject, UNCHANGED held
    PROVE  LeaseMove /\ HeldMove
  BY DEF LeaseMove, HeldMove

\* A pod that stops renewing.
LEMMA StopMoves ==
    ASSUME TypeOK, NEW p \in Pods, held' = [held EXCEPT ![p] = 0]
    PROVE  HeldMove
  BY DEF HeldMove, TypeOK

\* Handlers that go on, or are done, without a claim.
LEMMA HandlerMoves ==
    ASSUME TypeOK, NEW c \in Clients
    PROVE  /\ UNCHANGED cli => StartMove
           /\ \A step : step # "start" /\ Go(c, step) => StartMove
           /\ Refused(c) => StartMove
           /\ \A p \in Pods : \A step : step # "start" /\ ToHere(c, p, step) => StartMove
           /\ \A p \in Pods : ToHome(c, p) => StartMove
  <1>o. Out = [at |-> "out", pod |-> NoPod, gen |-> 0, force |-> FALSE]
    BY DEF Out
  <1>1. UNCHANGED cli => StartMove
    BY DEF StartMove
  <1>2. ASSUME NEW h, h.at # "start", cli' = [cli EXCEPT ![c] = h]
        PROVE  StartMove
    BY <1>2 DEF StartMove, TypeOK
  <1>3. ASSUME NEW step, step # "start", Go(c, step)
        PROVE  StartMove
    <2> DEFINE h == [Out EXCEPT !.at = step, !.pod = cli[c].pod]
    <2>1. h.at # "start" /\ cli' = [cli EXCEPT ![c] = h]
      BY <1>3, <1>o DEF Go
    <2> HIDE DEF h
    <2> QED
      BY <1>2, <2>1
  <1>4. ASSUME Refused(c)
        PROVE  StartMove
    BY <1>2, <1>4, <1>o DEF Refused
  <1>5. ASSUME NEW p \in Pods, NEW step, step # "start", ToHere(c, p, step)
        PROVE  StartMove
    <2> DEFINE h == [Out EXCEPT !.at = step, !.pod = p]
    <2>1. h.at # "start" /\ cli' = [cli EXCEPT ![c] = h]
      BY <1>5, <1>o DEF ToHere
    <2> HIDE DEF h
    <2> QED
      BY <1>2, <2>1
  <1>6. ASSUME NEW p \in Pods, ToHome(c, p)
        PROVE  StartMove
    <2>1. PICK l \in CachedElsewhere(p) :
             cli' = [cli EXCEPT ![c] =
                        [Out EXCEPT !.at = "proxy", !.pod = l.holder, !.gen = l.gen]]
      BY <1>6 DEF ToHome
    <2> DEFINE h == [Out EXCEPT !.at = "proxy", !.pod = l.holder, !.gen = l.gen]
    <2>2. h.at # "start" /\ cli' = [cli EXCEPT ![c] = h]
      BY <2>1, <1>o
    <2> HIDE DEF h
    <2> QED
      BY <1>2, <2>2
  <1> QED
    BY <1>1, <1>3, <1>4, <1>5, <1>6

\* The end of a room claims nothing.
LEMMA EndRoomMoves ==
    ASSUME TypeOK, NEW p \in Pods, NEW j, EndRoom(p, j)
    PROVE  StartMove
  BY DEF EndRoom, StartMove, TypeOK, Out

\* A handler's step: only a mint and a claim make a lease, and only they, through
\* Reserve and startRenew, let a pod hold one.
LEMMA HandlerLeases ==
    ASSUME LeaseInv, NEW c \in Clients, HandlerStep(c)
    PROVE  LeaseMove /\ HeldMove /\ StartMove
  <1>t. /\ TypeOK /\ cr \in Objects /\ cli[c] \in Handlers
        /\ cli[c].at \notin {"out", "over"} => cli[c].pod \in Pods
    BY DEF LeaseInv, Typed, TypeOK, Placed
  <1>1. CASE ReserveStatus(c)
    <2>p. cli[c].pod \in Pods
      BY <1>1, <1>t DEF ReserveStatus, At
    <2>1. StartMove
      BY <1>1, <1>t, HandlerMoves DEF ReserveStatus
    <2>2. CASE KeepObject /\ UNCHANGED held
      BY <2>1, <2>2, QuietMoves
    <2>3. CASE /\ cr = Bare /\ Write(Reserved(cli[c].pod))
               /\ held' = [held EXCEPT ![cli[c].pod] = 1] \/ UNCHANGED held
      <3> DEFINE r == Reserved(cli[c].pod)
      <3>1. Write(r)
        BY <2>3
      <3>2. /\ r.st = "made" /\ cr.st = "made" /\ cr.gen = 0
            /\ r.gen = 1 /\ r.holder = cli[c].pod
        BY <2>3 DEF Bare, Reserved
      <3> HIDE DEF r
      <3>3. Granted
        BY <3>1, <3>2 DEF Granted, Write, Made
      <3>4. HeldMove
        BY <1>t, <2>p, <2>3, <3>1, <3>2 DEF HeldMove, Write, lease, TypeOK
      <3> QED
        BY <2>1, <3>3, <3>4 DEF LeaseMove
    <2> QED
      BY <1>1, <2>2, <2>3 DEF ReserveStatus
  <1>11. CASE ReserveDelete(c)
    BY <1>11, <1>t, HandlerMoves DEF ReserveDelete, LeaseMove, HeldMove
  <1>2. CASE MintInsert(c)
    BY <1>2, <1>t, QuietMoves, HandlerMoves DEF MintInsert
  <1>3. CASE MintUpgrade(c)
    BY <1>3, <1>t, QuietMoves, HandlerMoves DEF MintUpgrade
  <1>4. CASE Proxy(c)
    BY <1>4, <1>t, QuietMoves, HandlerMoves DEF Proxy
  <1>5. CASE AdoptGet(c)
    <2>1. cli[c].pod \in Pods
      BY <1>5, <1>t DEF AdoptGet, At
    <2>2. CASE cli' = [cli EXCEPT ![c].at = "claim", ![c].force = cr.holder # NoPod /\ ~Live(cr)]
      <3> DEFINE h == [cli[c] EXCEPT !.at = "claim", !.force = cr.holder # NoPod /\ ~Live(cr)]
      <3>1. cli' = [cli EXCEPT ![c] = h] /\ h.at = "claim"
        BY <1>t, <2>2 DEF Handlers
      <3> HIDE DEF h
      <3>2. StartMove
        BY <1>t, <3>1 DEF StartMove, TypeOK
      <3> QED
        BY <1>5, <3>2, QuietMoves DEF AdoptGet
    <2> QED
      BY <1>5, <1>t, <2>1, <2>2, QuietMoves, HandlerMoves DEF AdoptGet, HeldElsewhere
  <1>6. CASE Claim(c)
    <2>1. cli[c].pod \in Pods /\ HeldMove
      BY <1>6, <1>t DEF Claim, At, HeldMove
    <2>2. ASSUME Refused(c) \/ ToHome(c, cli[c].pod)
          PROVE  StartMove
      BY <1>t, <2>1, <2>2, HandlerMoves
    <2>3. ASSUME KeepObject
          PROVE  LeaseMove
      BY <2>3 DEF LeaseMove
    <2> DEFINE r == Claimed(cli[c].pod)
               h == [cli[c] EXCEPT !.at = "start", !.gen = r.gen]
    <2>4. ASSUME Made(cr), Write(r)
          PROVE  LeaseMove /\ (cli' = [cli EXCEPT ![c] = h] => StartMove)
      <3>1. r.st = "made" /\ r.gen = cr.gen + 1 /\ r.holder = cli[c].pod
        BY <1>t, <2>4 DEF Claimed, Objects, Made
      <3> HIDE DEF r
      <3>2. Granted
        BY <2>4, <3>1 DEF Granted, Write, Made
      <3>3. ASSUME cli' = [cli EXCEPT ![c] = h]
            PROVE  StartMove
        <4>1. h.gen = r.gen /\ h.pod = cli[c].pod
          BY <1>t DEF Handlers
        <4> HIDE DEF h
        <4> QED
          BY <1>t, <2>4, <3>1, <3>3, <4>1 DEF StartMove, Write, lease, TypeOK
      <3>4. LeaseMove
        BY <3>2 DEF LeaseMove
      <3> QED
        BY <3>3, <3>4
    <2>5. \/ KeepObject /\ (Refused(c) \/ ToHome(c, cli[c].pod))
          \/ Made(cr) /\ Write(r) /\ (Refused(c) \/ cli' = [cli EXCEPT ![c] = h])
      BY <1>6 DEF Claim, HeldElsewhere, MayClaim
    <2> QED
      BY <2>1, <2>2, <2>3, <2>4, <2>5
  <1>7. CASE startRenew(c)
    <2>1. [holder |-> cli[c].pod, gen |-> cli[c].gen] \in past /\ past' = past
      BY <1>7 DEF startRenew, KeepObject, LeaseInv, Recorded
    <2>2. HeldMove
      BY <1>7, <1>t, <2>1 DEF startRenew, HeldMove, TypeOK
    <2> QED
      BY <1>7, <1>t, <2>2, HandlerMoves DEF startRenew, LeaseMove
  <1>8. CASE AdoptBuild(c)
    <2>1. HeldMove
      BY <1>8, <1>t DEF AdoptBuild, HeldMove, TypeOK
    <2> QED
      BY <1>8, <1>t, <2>1, HandlerMoves DEF AdoptBuild, LeaseMove
  <1>9. CASE CheckJoin(c)
    BY <1>9, <1>t, QuietMoves, HandlerMoves DEF CheckJoin
  <1>10. CASE Join(c)
    BY <1>10, <1>t, QuietMoves, HandlerMoves DEF Join
  <1> QED
    BY <1>1, <1>2, <1>3, <1>4, <1>5, <1>6, <1>7, <1>8, <1>9, <1>10, <1>11
    DEF HandlerStep

\* A client's own steps: only the mint's create touches the object.
LEMMA ClientLeases ==
    ASSUME LeaseInv, NEW c \in Clients, ClientStep(c)
    PROVE  LeaseMove /\ HeldMove /\ StartMove
  <1>t. /\ TypeOK /\ cli[c] \in Handlers
        /\ cli[c].at \notin {"out", "over"} => cli[c].pod \in Pods
    BY DEF LeaseInv, Typed, TypeOK, Placed
  <1>1. ASSUME NEW p \in Pods, Create(c, p)
        PROVE  LeaseMove /\ HeldMove /\ StartMove
    <2>1. ToHere(c, p, "status") /\ Created
      BY <1>1 DEF Create, ToHere, Created
    <2> QED
      BY <1>1, <1>t, <2>1, HandlerMoves DEF Create, LeaseMove, HeldMove
  <1>2. ASSUME NEW p \in Pods, Arrive(c, p)
        PROVE  LeaseMove /\ HeldMove /\ StartMove
    BY <1>2, <1>t, QuietMoves, HandlerMoves DEF Arrive
  <1>3. ASSUME Leave(c)
        PROVE  LeaseMove /\ HeldMove /\ StartMove
    BY <1>3, <1>t, QuietMoves, HandlerMoves DEF Leave
  <1>4. ASSUME EndByCreator(c)
        PROVE  LeaseMove /\ HeldMove /\ StartMove
    <2>1. cli[c].pod \in Pods
      BY <1>4, <1>t DEF EndByCreator, At
    <2> QED
      BY <1>4, <1>t, <2>1, QuietMoves, EndRoomMoves DEF EndByCreator
  <1>5. ASSUME NEW b \in Broadcasts, Attach(c, b) \/ Detach(c, b)
        PROVE  LeaseMove /\ HeldMove /\ StartMove
    BY <1>5, <1>t, QuietMoves, HandlerMoves DEF Attach, Detach, Edit
  <1> QED
    BY <1>1, <1>2, <1>3, <1>4, <1>5 DEF ClientStep

\* A status write passes the fence only when the lease stays what it is.
LEMMA NoteLeases ==
    ASSUME LeaseInv, NEW a \in Actors, patchStatus(a)
    PROVE  LeaseMove /\ HeldMove /\ StartMove
  <1>t. TypeOK /\ cr \in Objects
    BY DEF LeaseInv, Typed, TypeOK
  <1>1. HeldMove /\ StartMove
    BY <1>t DEF patchStatus, HeldMove, StartMove
  <1>2. CASE KeepObject
    BY <1>1, <1>2 DEF LeaseMove
  <1>3. CASE MayWrite(note[a].pod) /\ Write(Noted(note[a]))
    <2> DEFINE r == Noted(note[a])
    <2>1. r.st = cr.st /\ r.holder = cr.holder /\ r.gen = cr.gen
      BY <1>t DEF Noted, Objects
    <2>2. Write(r) /\ Made(cr)
      BY <1>3 DEF MayWrite
    <2> HIDE DEF r
    <2>3. Rewritten
      BY <2>1, <2>2 DEF Rewritten, Write, Made, lease
    <2> QED
      BY <1>1, <2>3 DEF LeaseMove
  <1> QED
    BY <1>2, <1>3 DEF patchStatus

\* A write of the present lease with another age or stamp.
LEMMA RewrittenBy ==
    ASSUME cr \in Objects, Made(cr), NEW r,
           r.st = cr.st, r.holder = cr.holder, r.gen = cr.gen,
           cr' = r, past' \in {past, past \cup {lease(r)}}
    PROVE  LeaseMove
  BY DEF LeaseMove, Rewritten, Made, lease

\* A pod's own goroutines grant nothing: they renew, release, delete and give up.
LEMMA PodLeases ==
    ASSUME LeaseInv, NEW p \in Pods, PodStep(p)
    PROVE  LeaseMove /\ HeldMove /\ StartMove
  <1>t. TypeOK /\ cr \in Objects
    BY DEF LeaseInv, Typed, TypeOK
  <1>1. CASE EmptyGraceOver(p)
    BY <1>1, QuietMoves DEF EmptyGraceOver, StartMove
  <1>2. CASE EndEmpty(p)
    BY <1>2, <1>t, QuietMoves, EndRoomMoves DEF EndEmpty
  <1>3. CASE RoomEnded(p)
    BY <1>3, <1>t, StopMoves DEF RoomEnded, LeaseMove, StartMove
  <1>4. CASE Renew(p)
    <2>1. HeldMove /\ StartMove
      BY <1>4, <1>t, StopMoves DEF Renew, lost, StartMove, HeldMove
    <2>2. CASE KeepObject
      BY <2>1, <2>2 DEF LeaseMove
    <2>3. CASE Made(cr) /\ Write([cr EXCEPT !.age = Fresh])
      BY <1>t, <2>1, <2>3, RewrittenBy DEF Write, Objects
    <2> QED
      BY <1>4, <2>2, <2>3 DEF Renew
  <1>5. CASE Observe(p)
    BY <1>5, <1>t, StopMoves DEF Observe, lost, LeaseMove, StartMove
  <1>6. CASE observeDelete(p)
    BY <1>6, <1>t, StopMoves, EndRoomMoves DEF observeDelete, LeaseMove
  <1>7. CASE HandleRoomLeaseLost(p)
    BY <1>7, <1>t, QuietMoves DEF HandleRoomLeaseLost, LetGo, StartMove, Out, TypeOK
  <1>11. CASE DropCopy(p)
    BY <1>11, <1>t, QuietMoves, EndRoomMoves DEF DropCopy
  <1>8. CASE JanitorSweep(p)
    <2>1. HeldMove /\ StartMove
      BY <1>8 DEF JanitorSweep, HeldMove, StartMove
    <2>2. CASE Remove
      BY <2>1, <2>2 DEF LeaseMove
    <2>3. CASE Made(cr) /\ Write([cr EXCEPT !.stamp = JustEmpty])
      BY <1>t, <2>1, <2>3, RewrittenBy DEF Write, Objects
    <2> QED
      BY <1>8, <2>2, <2>3 DEF JanitorSweep, Swept
  <1>9. CASE Release(p)
    BY <1>9, <1>t, StopMoves DEF Release, LeaseMove, LetGoOf, StartMove
  <1>10. CASE Exit(p)
    BY <1>10, <1>t, StopMoves DEF Exit, Gone, LetGo, LeaseMove, StartMove, Out, TypeOK
  <1> QED
    BY <1>1, <1>2, <1>3, <1>4, <1>5, <1>6, <1>7, <1>8, <1>9, <1>10, <1>11
    DEF PodStep

\* Nor do crashes, drains, expiries and time.
LEMMA OutsideLeases ==
    ASSUME LeaseInv, (\E p \in Pods : Outside(p)) \/ LeaseAges \/ StampAges
    PROVE  LeaseMove /\ HeldMove /\ StartMove
  <1>t. TypeOK /\ cr \in Objects
    BY DEF LeaseInv, Typed, TypeOK
  <1>1. ASSUME NEW p \in Pods, Crash(p)
        PROVE  LeaseMove /\ HeldMove /\ StartMove
    BY <1>1, <1>t, StopMoves DEF Crash, Gone, LetGo, LeaseMove, StartMove, Out, TypeOK
  <1>2. ASSUME NEW p \in Pods, Drain(p)
        PROVE  LeaseMove /\ HeldMove /\ StartMove
    BY <1>2, QuietMoves DEF Drain, StartMove
  <1>3. ASSUME NEW p \in Pods, NEW b \in Broadcasts, BroadcastExpired(p, b)
        PROVE  LeaseMove /\ HeldMove /\ StartMove
    BY <1>3, QuietMoves DEF BroadcastExpired, Edit, StartMove
  <1>4. ASSUME LeaseAges
        PROVE  LeaseMove /\ HeldMove /\ StartMove
    BY <1>4, <1>t, RewrittenBy DEF LeaseAges, Objects, HeldMove, StartMove
  <1>5. ASSUME StampAges
        PROVE  LeaseMove /\ HeldMove /\ StartMove
    BY <1>5, <1>t, RewrittenBy DEF StampAges, Objects, HeldMove, StartMove
  <1> QED
    BY <1>1, <1>2, <1>3, <1>4, <1>5 DEF Outside

\* The history of the lease is in order from the start.
LEMMA LeaseInit == Init => LeaseInv
  BY TypedInit DEF Init, LeaseInv, Blank, Recorded, HeldGranted, CurrentIsLatest, OneHolder,
     At, Out, Made, Absent, Bare

\* And whatever happens keeps it so.
LEMMA LeaseStep ==
    ASSUME LeaseInv, [Next]_vars
    PROVE  LeaseInv'
  <1>1. Typed'
    BY TypedStep DEF LeaseInv
  <1>2. CASE UNCHANGED vars
    BY <1>1, <1>2, QuietMoves, MovesKeep DEF vars, KeepObject, StartMove
  <1>3. CASE Next
    BY <1>1, <1>3, HandlerLeases, ClientLeases, NoteLeases, PodLeases, OutsideLeases, MovesKeep
    DEF Next
  <1> QED
    BY <1>2, <1>3

\* Two pods that hold the same generation would have been granted the same one.
LEMMA LeaseInvOneHome == LeaseInv => OneHome
  <1> SUFFICES ASSUME LeaseInv, NEW p \in Pods, NEW q \in Pods,
                      held[p] = held[q], held[p] # 0
               PROVE  p = q
    BY DEF OneHome
  <1> DEFINE l == [holder |-> p, gen |-> held[p]]
             m == [holder |-> q, gen |-> held[q]]
  <1>1. l \in past /\ m \in past
    BY DEF LeaseInv, HeldGranted
  <1>2. l.gen = m.gen /\ l.holder = p /\ m.holder = q
    OBVIOUS
  <1> HIDE DEF l, m
  <1> QED
    BY <1>1, <1>2, RoomHomeAssumption DEF LeaseInv, OneHolder

\* OneHome: no two pods renew the same lease (Claim, startRenew, Reserve).
THEOREM OneHomeCorrect == Spec => []OneHome
  BY LeaseInit, LeaseStep, LeaseInvOneHome, PTL DEF Spec

--------------------------------------------------------------------------------
(* Lost leases *)

\* Only a renewal and an event of the informer tell a pod that its lease is lost.
LostStep ==
    \A p \in Pods : "lost" \in jobs'[p] \ jobs[p] =>
        ~(Made(cr) /\ lease(cr) = [holder |-> p, gen |-> held[p]])

\* An event that names a lease taken from the pod is never older than its own.
LEMMA ObserveIsTaken ==
    ASSUME LeaseInv, NEW p \in Pods, Observe(p)
    PROVE  ~(Made(cr) /\ lease(cr) = [holder |-> p, gen |-> held[p]])
  <1> SUFFICES ASSUME Made(cr), lease(cr) = [holder |-> p, gen |-> held[p]]
               PROVE  FALSE
    OBVIOUS
  <1>1. cr.holder = p /\ cr.gen = held[p]
    BY DEF lease
  <1>2. PICK l \in past : l.gen >= held[p] /\ l # [holder |-> p, gen |-> held[p]]
    BY DEF Observe, leaseTakenFromUs
  <1>3. l \in [holder : Pods \cup {NoPod}, gen : 0 .. MaxGen] /\ held[p] \in 0 .. MaxGen
    BY DEF LeaseInv, Typed, TypeOK
  <1>4. l.gen = cr.gen /\ l.holder = p
    BY <1>1, <1>2, <1>3, RoomHomeAssumption DEF LeaseInv, CurrentIsLatest
  <1> QED
    BY <1>1, <1>2, <1>3, <1>4

\* No other step of a room adds the job of a lost lease.
LEMMA NotLost ==
    ASSUME LeaseInv, NEW q \in Pods, NEW j
    PROVE  /\ EndRoom(q, j) => LostStep
           /\ UNCHANGED jobs => LostStep
           /\ AddJob(q, "empty") => LostStep
           /\ \A k : jobs' = [jobs EXCEPT ![q] = @ \ {k}] => LostStep
           /\ jobs' = [jobs EXCEPT ![q] = {}] => LostStep
           /\ jobs' = [jobs EXCEPT ![q] = (@ \ {"lost"}) \cup {"drop"}] => LostStep
  BY DEF LostStep, EndRoom, AddJob, LeaseInv, Typed, TypeOK

\* The job is added for the pod whose lease it is, and for no other.
LEMMA LostOnly ==
    ASSUME LeaseInv, NEW p \in Pods, lost(p),
           ~(Made(cr) /\ lease(cr) = [holder |-> p, gen |-> held[p]])
    PROVE  LostStep
  BY DEF lost, AddJob, LostStep, LeaseInv, Typed, TypeOK

\* Every step tells a pod that its lease is lost only when it is.
LEMMA LostStepNext ==
    ASSUME LeaseInv, [Next]_vars
    PROVE  LostStep
  <1>t. TypeOK
    BY DEF LeaseInv, Typed
  <1>0. CASE UNCHANGED vars
    BY <1>0 DEF vars, LostStep
  <1>1. ASSUME NEW c \in Clients, HandlerStep(c)
        PROVE  LostStep
    <2>1. cli[c].at \notin {"out", "over"} => cli[c].pod \in Pods
      BY DEF LeaseInv, Typed, Placed
    <2>2. CASE MintUpgrade(c)
      BY <2>1, <2>2, NotLost DEF MintUpgrade, At, LostStep
    <2>3. CASE UNCHANGED jobs
      BY <2>3 DEF LostStep
    <2> QED
      BY <1>1, <2>2, <2>3
      DEF HandlerStep, ReserveStatus, ReserveDelete, MintInsert, Proxy, AdoptGet, Claim, startRenew, AdoptBuild,
          CheckJoin, Join
  <1>2. ASSUME NEW c \in Clients, ClientStep(c)
        PROVE  LostStep
    <2>1. CASE EndByCreator(c)
      <3>1. cli[c].pod \in Pods
        BY <2>1 DEF EndByCreator, At, LeaseInv, Typed, Placed
      <3> QED
        BY <2>1, <3>1, NotLost DEF EndByCreator
    <2>2. CASE UNCHANGED jobs
      BY <2>2 DEF LostStep
    <2> QED
      BY <1>2, <2>1, <2>2 DEF ClientStep, Create, Arrive, Leave, Attach, Detach, Edit
  <1>3. ASSUME NEW a \in Actors, patchStatus(a)
        PROVE  LostStep
    BY <1>3 DEF patchStatus, LostStep
  <1>4. ASSUME NEW p \in Pods, PodStep(p)
        PROVE  LostStep
    <2>1. CASE Renew(p)
      BY <2>1, LostOnly DEF Renew, LostStep
    <2>2. CASE Observe(p)
      BY <2>2, ObserveIsTaken, LostOnly DEF Observe
    <2>3. CASE RoomEnded(p) \/ Exit(p)
      BY <2>3, NotLost DEF RoomEnded, Exit, Gone
    <2> QED
      BY <1>4, <2>1, <2>2, <2>3, NotLost
      DEF PodStep, EmptyGraceOver, EndEmpty, observeDelete, HandleRoomLeaseLost, DropCopy,
          JanitorSweep, Release
  <1>5. ASSUME NEW p \in Pods, Outside(p)
        PROVE  LostStep
    BY <1>5, NotLost DEF Outside, Crash, Drain, BroadcastExpired, Edit, Gone
  <1>6. CASE LeaseAges \/ StampAges
    BY <1>6 DEF LeaseAges, StampAges, LostStep
  <1> QED
    BY <1>0, <1>1, <1>2, <1>3, <1>4, <1>5, <1>6 DEF Next

\* LostOnlyWhenTaken: a pod gives a room up only when the lease is no longer the
\* one it holds, however late or often the informer repeats the past.
THEOREM LostOnlyWhenTakenCorrect == Spec => LostOnlyWhenTaken
  <1>1. LeaseInv /\ [Next]_vars
            => [\A p \in Pods : "lost" \in jobs'[p] \ jobs[p] =>
                   ~(Made(cr) /\ lease(cr) = [holder |-> p, gen |-> held[p]])]_vars
    BY LostStepNext DEF LostStep
  <1> QED
    BY <1>1, LeaseInit, LeaseStep, PTL DEF Spec, LostOnlyWhenTaken

================================================================================
