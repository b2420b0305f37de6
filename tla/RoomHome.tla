-------------------------------- MODULE RoomHome --------------------------------
(***************************************************************************)
(* The home of a dynamic room in cluster mode                              *)
(* (gawk-server/internal/roomcluster/store.go, the life cycle of a room in *)
(* roomsrv/registry.go and the routing in transport/roomcluster.go).       *)
(*                                                                         *)
(* A Room object carries a lease: the pod that holds it at the current     *)
(* generation is the home and serves the room from its own registry.  The  *)
(* other pods proxy joins to it, or adopt the room when the lease is not   *)
(* live.  The model follows one code through its life.  A get followed by  *)
(* a write conditional on the version read is one step: the write succeeds *)
(* only if the object is still the one the get returned.                   *)
(***************************************************************************)
EXTENDS Naturals, FiniteSets

CONSTANTS
    Pods, Clients, Broadcasts, NoPod,
    MaxGen,     \* bound: generations of the lease
    MaxJoins,   \* bound: join requests
    MaxFaults,  \* bound: crashes, drains, failed calls, renewals that come too late
    MaxEdits    \* bound: attach and detach commands and expiries

ASSUME RoomHomeAssumption ==
    /\ NoPod \notin Pods /\ Pods \cap Clients = {}
    /\ MaxGen \in Nat \ {0} /\ {MaxJoins, MaxFaults, MaxEdits} \subseteq Nat

VARIABLES
    cr,      \* the Room object in the API server
    past,    \* every lease the object has had
    seen,    \* whether each pod's informer has delivered the deletion
    held,    \* Store.held: the generation a pod renews, 0 for none
    room,    \* the room in each pod's registry
    jobs,    \* goroutines of a pod that are ending the room
    cli,     \* the handler of each client's session
    note,    \* the status write each handler and each pod's poll is making
    pod,     \* whether each pod is up, draining or down
    spent    \* steps counted against the bounds

vars == <<cr, past, seen, held, room, jobs, cli, note, pod, spent>>

--------------------------------------------------------------------------------
(* The Room object *)

Fresh == 0   \* renewed within LeaseDuration
Old == 2     \* not renewed for StaleWindow
Unstamped == 0
JustEmpty == 1
LongEmpty == 2   \* empty for longer than EmptyGrace

Objects ==
    [st : {"none", "made", "gone"}, holder : Pods \cup {NoPod}, gen : 0 .. MaxGen,
     age : Fresh .. Old, stamp : Unstamped .. LongEmpty, atts : SUBSET Broadcasts]

\* The status subresource drops the status on create.
Bare == [st |-> "made", holder |-> NoPod, gen |-> 0, age |-> Old,
         stamp |-> Unstamped, atts |-> {}]
Absent == [Bare EXCEPT !.st = "none"]
Deleted == [Bare EXCEPT !.st = "gone"]

Made(r) == r.st = "made"
lease(r) == [holder |-> r.holder, gen |-> r.gen]

\* homeOf(r).Live
Live(r) == r.holder # NoPod /\ r.age = Fresh
LiveElsewhere(r, p) == Live(r) /\ r.holder # p

\* The API server commits r.
Write(r) ==
    /\ cr' = r
    /\ past' = past \cup {lease(r)}
KeepObject == UNCHANGED <<cr, past>>

Remove == cr' = Deleted /\ UNCHANGED past

Up(p) == pod[p] # "down"
Spend(what, bound) == spent[what] < bound /\ spent' = [spent EXCEPT ![what] = @ + 1]
Fault == Spend("faults", MaxFaults)

--------------------------------------------------------------------------------
(* The registry's room *)

\* on: it is in Registry.rooms; armed: its empty timer runs.
Rooms == [on : BOOLEAN, armed : BOOLEAN, atts : SUBSET Broadcasts]
NoRoom == [on |-> FALSE, armed |-> FALSE, atts |-> {}]

Present(p) == {c \in Clients : cli[c].at = "in" /\ cli[c].pod = p}
Tracked(p) == {c \in Clients : cli[c].at \in {"joining", "in"} /\ cli[c].pod = p}

\* at: how far the handler is; force: what adopt passes to Claim; gen: the
\* generation it dials the home with.
Handlers ==
    [at : {"out", "status", "undo", "insert", "upgrade", "proxy", "adopt", "claim", "start",
           "build", "check", "joining", "in", "over"},
     pod : Pods \cup {NoPod}, gen : 0 .. MaxGen, force : BOOLEAN]
Out == [at |-> "out", pod |-> NoPod, gen |-> 0, force |-> FALSE]

At(c, step) == cli[c].at = step
Go(c, step) == cli' = [cli EXCEPT ![c] = [Out EXCEPT !.at = step, !.pod = cli[c].pod]]
Refused(c) == cli' = [cli EXCEPT ![c] = Out]
LetGo(S) == [c \in Clients |-> IF c \in S THEN Out ELSE cli[c]]

Jobs == {"empty", "lost", "drop", "ended"}
AddJob(p, j) == jobs' = [jobs EXCEPT ![p] = @ \cup {j}]

Actors == Clients \cup Pods
NoNote == [of |-> "none", pod |-> NoPod, empty |-> FALSE, atts |-> {}]
Notes == [of : {"none", "empty", "atts"}, pod : Pods \cup {NoPod},
          empty : BOOLEAN, atts : SUBSET Broadcasts]
Idle(a) == note[a] = NoNote
\* OnRoomEmpty and OnAttachmentsChanged are called after the lock is released;
\* until the call returns the handler does nothing else.
Notify(a, n) == note' = [note EXCEPT ![a] = n]
EmptyNote(p, e) == [NoNote EXCEPT !.of = "empty", !.pod = p, !.empty = e]
AttsNote(p, S) == [NoNote EXCEPT !.of = "atts", !.pod = p, !.atts = S]

--------------------------------------------------------------------------------
(* Mint: Registry.Mint with Store.Reserve *)

Create(c, p) ==
    /\ At(c, "out") /\ Idle(c) /\ pod[p] = "up" /\ cr = Absent
    /\ Write(Bare)
    /\ cli' = [cli EXCEPT ![c] = [Out EXCEPT !.at = "status", !.pod = p]]
    /\ UNCHANGED <<seen, held, room, jobs, note, pod, spent>>

Reserved(p) == [cr EXCEPT !.holder = p, !.gen = 1, !.age = Fresh, !.stamp = JustEmpty]

\* The second request, against the version create returned.
ReserveStatus(c) ==
    /\ At(c, "status")
    /\ LET p == cli[c].pod IN
       \/ /\ cr = Bare
          /\ Write(Reserved(p))
          /\ held' = [held EXCEPT ![p] = 1]
          /\ Go(c, "insert") /\ UNCHANGED spent
       \/ /\ cr = Bare /\ Fault             \* the answer is lost
          /\ Write(Reserved(p))
          /\ Go(c, "undo") /\ UNCHANGED held
       \/ /\ IF cr = Bare THEN Fault ELSE UNCHANGED spent
          /\ Go(c, "undo") /\ KeepObject /\ UNCHANGED held
    /\ UNCHANGED <<seen, room, jobs, note, pod>>

\* Whatever the error was, the object is deleted without a precondition, and how
\* that went is not looked at.
ReserveDelete(c) ==
    /\ At(c, "undo")
    /\ \/ Remove /\ UNCHANGED spent
       \/ Fault /\ KeepObject
    /\ Refused(c)
    /\ UNCHANGED <<seen, held, room, jobs, note, pod>>

\* attachLocked, startEmptyGraceLocked, notifyAttachments
MintInsert(c) ==
    /\ At(c, "insert")
    /\ LET p == cli[c].pod IN
       \E b \in Broadcasts :
          /\ room' = [room EXCEPT ![p] = [on |-> TRUE, armed |-> TRUE, atts |-> {b}]]
          /\ Notify(c, AttsNote(p, {b}))
    /\ Go(c, "upgrade")
    /\ KeepObject /\ UNCHANGED <<seen, held, jobs, pod, spent>>

\* handleRoomNew: the session comes up, or the room it was for is ended.
MintUpgrade(c) ==
    /\ At(c, "upgrade") /\ Idle(c)
    /\ \/ Go(c, "joining") /\ UNCHANGED <<jobs, spent>>
       \/ Fault /\ Refused(c) /\ AddJob(cli[c].pod, "empty")
    /\ KeepObject /\ UNCHANGED <<seen, held, room, note, pod>>

--------------------------------------------------------------------------------
(* Join: homedElsewhere, proxyRoom, handleInternalRoom, Store.adopt, Join *)

\* Resolve answers from the informer's cache, which may hold any version the
\* object has had, or none yet.
CachedElsewhere(p) == {l \in past : l.holder \notin {p, NoPod}}

ToHome(c, p) ==
    \E l \in CachedElsewhere(p) :
        cli' = [cli EXCEPT ![c] = [Out EXCEPT !.at = "proxy", !.pod = l.holder, !.gen = l.gen]]

ToHere(c, p, step) == cli' = [cli EXCEPT ![c] = [Out EXCEPT !.at = step, !.pod = p]]

\* Nobody knows the code before the mint has answered.
Minting == \E c \in Clients : cli[c].at \in {"status", "undo", "insert", "upgrade"}

Arrive(c, p) ==
    /\ At(c, "out") /\ Idle(c) /\ pod[p] = "up" /\ Made(cr) /\ ~Minting
    /\ Spend("joins", MaxJoins)
    /\ IF held[p] # 0 THEN ToHere(c, p, "check")
       ELSE ToHere(c, p, "check") \/ ToHere(c, p, "adopt") \/ ToHome(c, p)
    /\ KeepObject /\ UNCHANGED <<seen, held, room, jobs, note, pod>>

\* The home admits a proxied session only at the generation it holds.
Proxy(c) ==
    /\ At(c, "proxy")
    /\ IF pod[cli[c].pod] = "up" /\ held[cli[c].pod] = cli[c].gen
       THEN Go(c, "check") ELSE Refused(c)
    /\ KeepObject /\ UNCHANGED <<seen, held, room, jobs, note, pod, spent>>

\* ErrHeldElsewhere: the cache is asked once more.
HeldElsewhere(c, p) == ToHome(c, p) \/ Refused(c)

AdoptGet(c) ==
    /\ At(c, "adopt")
    /\ LET p == cli[c].pod IN
       CASE ~Made(cr)            -> Refused(c)
         [] LiveElsewhere(cr, p) -> HeldElsewhere(c, p)
         [] OTHER -> cli' = [cli EXCEPT ![c].at = "claim",
                                        ![c].force = cr.holder # NoPod /\ ~Live(cr)]
    /\ KeepObject /\ UNCHANGED <<seen, held, room, jobs, note, pod, spent>>

\* Faulty variant: takes the lease over at the generation it has.
ClaimedSameGen(p) == [cr EXCEPT !.holder = p, !.age = Fresh, !.stamp = JustEmpty]

\* Faulty variant: skips a generation.
ClaimedOffByOne(p) == [cr EXCEPT !.holder = p, !.gen = @ + 2, !.age = Fresh, !.stamp = JustEmpty]

Claimed(p) == [cr EXCEPT !.holder = p, !.gen = @ + 1, !.age = Fresh, !.stamp = JustEmpty]

MayClaim(p, force) == Made(cr) /\ (~LiveElsewhere(cr, p) \/ force)

\* A request that fails, committed or not, refuses the session.
Claim(c) ==
    /\ At(c, "claim")
    /\ LET p == cli[c].pod IN
       \/ /\ ~MayClaim(p, cli[c].force)
          /\ IF Made(cr) THEN HeldElsewhere(c, p) ELSE Refused(c)
          /\ KeepObject /\ UNCHANGED spent
       \/ /\ MayClaim(p, cli[c].force) /\ cr.gen < MaxGen
          /\ Write(Claimed(p))
          /\ cli' = [cli EXCEPT ![c].at = "start", ![c].gen = Claimed(p).gen]
          /\ UNCHANGED spent
       \/ /\ MayClaim(p, cli[c].force) /\ Fault /\ Refused(c)
          /\ \/ KeepObject
             \/ cr.gen < MaxGen /\ Write(Claimed(p))
    /\ UNCHANGED <<seen, held, room, jobs, note, pod>>

startRenew(c) ==
    /\ At(c, "start")
    /\ held' = [held EXCEPT ![cli[c].pod] = cli[c].gen]
    /\ Go(c, "build")
    /\ KeepObject /\ UNCHANGED <<seen, room, jobs, note, pod, spent>>

\* The second get and AdoptDynamic, which leaves a room that is there alone.
AdoptBuild(c) ==
    /\ At(c, "build")
    /\ LET p == cli[c].pod IN
       IF Made(cr)
       THEN /\ room' = [room EXCEPT ![p] =
                  IF @.on THEN @ ELSE [on |-> TRUE, armed |-> TRUE, atts |-> cr.atts]]
            /\ Go(c, "check")
            /\ UNCHANGED held
       ELSE /\ held' = [held EXCEPT ![p] = 0]
            /\ Refused(c)
            /\ UNCHANGED room
    /\ KeepObject /\ UNCHANGED <<seen, jobs, note, pod, spent>>

CheckJoin(c) ==
    /\ At(c, "check")
    /\ IF room[cli[c].pod].on THEN Go(c, "joining") ELSE Refused(c)
    /\ KeepObject /\ UNCHANGED <<seen, held, room, jobs, note, pod, spent>>

Join(c) ==
    /\ At(c, "joining") /\ Idle(c)
    /\ LET p == cli[c].pod IN
       IF room[p].on
       THEN /\ Go(c, "in")
            /\ room' = [room EXCEPT ![p].armed = FALSE]
            /\ IF room[p].armed THEN Notify(c, EmptyNote(p, FALSE)) ELSE UNCHANGED note
       ELSE Refused(c) /\ UNCHANGED <<room, note>>
    /\ KeepObject /\ UNCHANGED <<seen, held, jobs, pod, spent>>

Leave(c) ==
    /\ At(c, "in") /\ Idle(c)
    /\ LET p == cli[c].pod IN
       IF Present(p) = {c}
       THEN /\ room' = [room EXCEPT ![p].armed = TRUE]
            /\ Notify(c, EmptyNote(p, TRUE))
       ELSE UNCHANGED <<room, note>>
    /\ Refused(c)
    /\ KeepObject /\ UNCHANGED <<seen, held, jobs, pod, spent>>

--------------------------------------------------------------------------------
(* Attachments and the notifications *)

Edit(a, p, S) ==
    /\ Idle(a)
    /\ Spend("edits", MaxEdits)
    /\ room' = [room EXCEPT ![p].atts = S]
    /\ Notify(a, AttsNote(p, S))
    /\ KeepObject /\ UNCHANGED <<seen, held, jobs, cli, pod>>

Attach(c, b) ==
    /\ At(c, "in") /\ b \notin room[cli[c].pod].atts
    /\ Edit(c, cli[c].pod, room[cli[c].pod].atts \cup {b})

Detach(c, b) ==
    /\ At(c, "in") /\ b \in room[cli[c].pod].atts
    /\ Edit(c, cli[c].pod, room[cli[c].pod].atts \ {b})

\* The hub's hook, or the poll that finds the broadcast nowhere.
BroadcastExpired(p, b) ==
    /\ Up(p) /\ room[p].on /\ b \in room[p].atts
    /\ Edit(p, p, room[p].atts \ {b})

Noted(n) ==
    IF n.of = "atts" THEN [cr EXCEPT !.atts = n.atts]
    ELSE [cr EXCEPT !.stamp = IF n.empty THEN JustEmpty ELSE Unstamped]

\* The fence of patchStatus.
MayWrite(p) == held[p] # 0 /\ Made(cr) /\ cr.holder = p /\ cr.gen = held[p]

patchStatus(a) ==
    /\ ~Idle(a)
    /\ IF MayWrite(note[a].pod) THEN Write(Noted(note[a])) ELSE KeepObject
    /\ Notify(a, NoNote)
    /\ UNCHANGED <<seen, held, room, jobs, cli, pod, spent>>

--------------------------------------------------------------------------------
(* The end of a room *)

\* The timer's callback checks under the lock and calls EndRoom after it.
EmptyGraceOver(p) ==
    /\ Up(p) /\ room[p].on /\ room[p].armed /\ Present(p) = {} /\ "empty" \notin jobs[p]
    /\ AddJob(p, "empty")
    /\ KeepObject /\ UNCHANGED <<seen, held, room, cli, note, pod, spent>>

\* EndRoom in a goroutine j: whoever is in is told 4007, then the store is told.
EndRoom(p, j) ==
    IF room[p].on
    THEN /\ room' = [room EXCEPT ![p] = NoRoom]
         /\ cli' = [c \in Clients |->
                IF c \in Present(p) THEN [Out EXCEPT !.at = "over"] ELSE cli[c]]
         /\ jobs' = [jobs EXCEPT ![p] = (@ \ {j}) \cup {"ended"}]
    ELSE /\ jobs' = [jobs EXCEPT ![p] = @ \ {j}]
         /\ UNCHANGED <<room, cli>>

EndEmpty(p) ==
    /\ "empty" \in jobs[p]
    /\ EndRoom(p, "empty")
    /\ KeepObject /\ UNCHANGED <<seen, held, note, pod, spent>>

\* RoomCommandEndRoom from a participant with the creator's grant.
EndByCreator(c) ==
    /\ At(c, "in") /\ Idle(c)
    /\ EndRoom(cli[c].pod, "none")
    /\ KeepObject /\ UNCHANGED <<seen, held, note, pod, spent>>

MayDelete(p) == Made(cr) /\ cr.holder \in {p, NoPod}

\* stopRenew, then the delete of an object nobody else holds, which may fail.
RoomEnded(p) ==
    /\ "ended" \in jobs[p]
    /\ held' = [held EXCEPT ![p] = 0]
    /\ \/ /\ IF MayDelete(p) THEN Remove ELSE KeepObject
          /\ UNCHANGED spent
       \/ MayDelete(p) /\ Fault /\ KeepObject
    /\ jobs' = [jobs EXCEPT ![p] = @ \ {"ended"}]
    /\ UNCHANGED <<seen, room, cli, note, pod>>

--------------------------------------------------------------------------------
(* Renewals, the informer, lease loss *)

\* Faulty variant: stops renewing and says nothing.
lostQuietly(p) == held' = [held EXCEPT ![p] = 0] /\ UNCHANGED jobs

\* forgetHeld and OnLeaseLost.
lost(p) == held' = [held EXCEPT ![p] = 0] /\ AddJob(p, "lost")

\* renewOnce
Renew(p) ==
    /\ held[p] # 0
    /\ CASE ~Made(cr) ->
              /\ held' = [held EXCEPT ![p] = 0]
              /\ KeepObject /\ UNCHANGED jobs
         [] Made(cr) /\ lease(cr) = [holder |-> p, gen |-> held[p]] ->
              /\ cr.age # Fresh
              /\ Write([cr EXCEPT !.age = Fresh])
              /\ UNCHANGED <<held, jobs>>
         [] OTHER -> lost(p) /\ KeepObject
    /\ UNCHANGED <<seen, room, cli, note, pod, spent>>

\* Faulty variant: any lease that is not ours has been taken from us.
TakenIfDifferent(l, p, g) == l # [holder |-> p, gen |-> g]

leaseTakenFromUs(l, p, g) == l.gen >= g /\ l # [holder |-> p, gen |-> g]

\* observe: an event may be late, the first list and a relist may be of the past.
Observe(p) ==
    /\ held[p] # 0
    /\ \E l \in past : leaseTakenFromUs(l, p, held[p])
    /\ lost(p)
    /\ KeepObject /\ UNCHANGED <<seen, room, cli, note, pod, spent>>

observeDelete(p) ==
    /\ Up(p) /\ cr.st = "gone" /\ ~seen[p]
    /\ seen' = [seen EXCEPT ![p] = TRUE]
    /\ held' = [held EXCEPT ![p] = 0]
    /\ EndRoom(p, "none")
    /\ KeepObject /\ UNCHANGED <<note, pod, spent>>

\* The sessions known to the server are closed with 4002, and leave.
HandleRoomLeaseLost(p) ==
    /\ "lost" \in jobs[p]
    /\ cli' = LetGo(Tracked(p))
    /\ jobs' = [jobs EXCEPT ![p] = (@ \ {"lost"}) \cup {"drop"}]
    /\ KeepObject /\ UNCHANGED <<seen, held, room, note, pod, spent>>

\* Then the copy is dropped, with whoever came in between.
DropCopy(p) ==
    /\ "drop" \in jobs[p]
    /\ EndRoom(p, "drop")
    /\ KeepObject /\ UNCHANGED <<seen, held, note, pod, spent>>

--------------------------------------------------------------------------------
(* The janitor, time, pods *)

\* Faulty variant: an object without a stamp is left alone.
SweptOnlyStamped ==
    /\ cr.age = Old /\ cr.stamp = LongEmpty
    /\ Remove

\* A stale object is deleted once its stamp is old, and stamped if it has none.
Swept ==
    /\ cr.age = Old
    /\ \/ cr.stamp = LongEmpty /\ Remove
       \/ cr.stamp = Unstamped /\ Write([cr EXCEPT !.stamp = JustEmpty])

\* The sweep works on the cached copy, but its writes name the version of it.
JanitorSweep(p) ==
    /\ Up(p) /\ Made(cr)
    /\ Swept
    /\ UNCHANGED <<seen, held, room, jobs, cli, note, pod, spent>>

Renewing == \E p \in Pods : held[p] # 0 /\ lease(cr) = [holder |-> p, gen |-> held[p]]

\* Time passes without a renewal; a home that renews can only be late by a fault.
LeaseAges ==
    /\ Made(cr) /\ cr.age < Old
    /\ IF Renewing THEN Fault ELSE UNCHANGED spent
    /\ cr' = [cr EXCEPT !.age = @ + 1]
    /\ UNCHANGED <<past, seen, held, room, jobs, cli, note, pod>>

\* Only the sweep looks at the age of a stamp, and only when the lease is old.
StampAges ==
    /\ Made(cr) /\ cr.age = Old /\ cr.stamp = JustEmpty
    /\ cr' = [cr EXCEPT !.stamp = LongEmpty]
    /\ UNCHANGED <<past, seen, held, room, jobs, cli, note, pod, spent>>

Gone(p) ==
    /\ pod' = [pod EXCEPT ![p] = "down"]
    /\ held' = [held EXCEPT ![p] = 0]
    /\ room' = [room EXCEPT ![p] = NoRoom]
    /\ jobs' = [jobs EXCEPT ![p] = {}]
    /\ cli' = LetGo({c \in Clients : cli[c].pod = p})
    /\ note' = [a \in Actors |-> IF note[a].pod = p THEN NoNote ELSE note[a]]
    /\ KeepObject /\ UNCHANGED seen

OtherPodUp(p) == \E q \in Pods \ {p} : pod[q] = "up"

Crash(p) == pod[p] = "up" /\ OtherPodUp(p) /\ Fault /\ Gone(p)

\* drain: new sessions are refused; the open ones are closed with 4002 and leave.
Drain(p) ==
    /\ pod[p] = "up" /\ OtherPodUp(p) /\ Fault
    /\ pod' = [pod EXCEPT ![p] = "draining"]
    /\ KeepObject /\ UNCHANGED <<seen, held, room, jobs, cli, note>>

\* Store.Release, then the process exits.
Release(p) ==
    /\ pod[p] = "draining" /\ held[p] # 0
    /\ held' = [held EXCEPT ![p] = 0]
    /\ IF Made(cr) /\ cr.holder = p THEN Write([cr EXCEPT !.holder = NoPod]) ELSE KeepObject
    /\ UNCHANGED <<seen, room, jobs, cli, note, pod, spent>>

Exit(p) == pod[p] = "draining" /\ held[p] = 0 /\ Gone(p) /\ UNCHANGED spent

--------------------------------------------------------------------------------
(* The specification *)

Init ==
    /\ cr = Absent
    /\ past = {}
    /\ seen = [p \in Pods |-> FALSE]
    /\ held = [p \in Pods |-> 0]
    /\ room = [p \in Pods |-> NoRoom]
    /\ jobs = [p \in Pods |-> {}]
    /\ cli = [c \in Clients |-> Out]
    /\ note = [a \in Actors |-> NoNote]
    /\ pod = [p \in Pods |-> "up"]
    /\ spent = [joins |-> 0, faults |-> 0, edits |-> 0]

HandlerStep(c) ==
    \/ ReserveStatus(c) \/ ReserveDelete(c)
    \/ MintInsert(c) \/ MintUpgrade(c) \/ Proxy(c) \/ AdoptGet(c) \/ Claim(c)
    \/ startRenew(c) \/ AdoptBuild(c) \/ CheckJoin(c) \/ Join(c)

ClientStep(c) ==
    \/ \E p \in Pods : Create(c, p) \/ Arrive(c, p)
    \/ Leave(c) \/ EndByCreator(c)
    \/ \E b \in Broadcasts : Attach(c, b) \/ Detach(c, b)

PodStep(p) ==
    \/ EmptyGraceOver(p) \/ EndEmpty(p) \/ RoomEnded(p)
    \/ Renew(p) \/ Observe(p) \/ observeDelete(p) \/ HandleRoomLeaseLost(p) \/ DropCopy(p)
    \/ JanitorSweep(p) \/ Release(p) \/ Exit(p)

Outside(p) ==
    \/ Crash(p) \/ Drain(p)
    \/ \E b \in Broadcasts : BroadcastExpired(p, b)

Next ==
    \/ \E c \in Clients : HandlerStep(c) \/ ClientStep(c)
    \/ \E a \in Actors : patchStatus(a)
    \/ \E p \in Pods : PodStep(p) \/ Outside(p)
    \/ LeaseAges \/ StampAges

Spec == Init /\ [][Next]_vars

\* Handlers and goroutines run on; the renew loop, the janitor and the informer
\* come round again; a timer fires; time passes.  Nothing makes a client come or
\* go, a pod stop or a broadcast change.
Progress ==
    \/ \E c \in Clients : HandlerStep(c)
    \/ \E a \in Actors : patchStatus(a)
    \/ \E p \in Pods : PodStep(p)
    \/ LeaseAges \/ StampAges

\* Within the bounds no step can be repeated for ever, so that this is as much as
\* fairness of each of them.
FairSpec == Spec /\ WF_vars(Progress)

--------------------------------------------------------------------------------
(* Properties *)

\* Every variable has the type of its counterpart in the store, the registry and
\* the API server.
TypeOK ==
    /\ cr \in Objects /\ seen \in [Pods -> BOOLEAN]
    /\ past \subseteq [holder : Pods \cup {NoPod}, gen : 0 .. MaxGen]
    /\ held \in [Pods -> 0 .. MaxGen]
    /\ room \in [Pods -> Rooms]
    /\ jobs \in [Pods -> SUBSET Jobs]
    /\ cli \in [Clients -> Handlers]
    /\ note \in [Actors -> Notes]
    /\ pod \in [Pods -> {"up", "draining", "down"}]
    /\ spent \in [joins : 0 .. MaxJoins, faults : 0 .. MaxFaults, edits : 0 .. MaxEdits]

\* Two pods never renew the same lease: the generation a pod holds is its own, so
\* that the fence of patchStatus, and the one of the proxy hop, tell the home from
\* the pod it took the room from, however adoptions, crashes, releases and late
\* watch events interleave (Claim, startRenew, Reserve).
OneHome ==
    \A p, q \in Pods : held[p] = held[q] /\ held[p] # 0 => p = q

\* A pod gives a room up, and sends its participants away with 4002, only when the
\* lease is no longer the one it holds: not for an event of the past, its own
\* claim's included, that the informer delivers late or lists again
\* (leaseTakenFromUs, renewOnce).
LostOnlyWhenTaken ==
    [][\A p \in Pods :
          "lost" \in jobs'[p] \ jobs[p] =>
              ~(Made(cr) /\ lease(cr) = [holder |-> p, gen |-> held[p]])]_vars

\* p serves a room it does not hold the current lease of.
Stale(p) == room[p].on /\ Made(cr) /\ ~(held[p] # 0 /\ held[p] = cr.gen)

\* Nobody serves a copy of a room that lives elsewhere for ever: if the watch does
\* not say so, the renew loop finds out, and the copy is dropped with its sessions
\* (renewOnce, observe, HandleRoomLeaseLost).
StaleHomeYields == []<>(\A p \in Pods : ~Stale(p))

\* A room that everybody has left goes away, whatever happened to its home: by its
\* own timer, by the timer of the pod that adopted it, or by the janitor, which
\* first has to stamp a room whose home died while it was populated
\* (startEmptyGraceLocked, RoomEnded, JanitorSweep, stampOrphan).
EmptyRoomCollected ==
    (<>[](\A c \in Clients : ~At(c, "in"))) => <>[](~Made(cr))

================================================================================
