------------------------------ MODULE HubRegistry ------------------------------
(***************************************************************************)
(* The broadcast registry of one relay, gawk-server/internal/hub/hub.go:   *)
(* who may publish a broadcast, how long it outlives its publisher, and    *)
(* what ends it.                                                           *)
(*                                                                         *)
(* Registry.mu makes each operation one step.  What the code does outside  *)
(* the lock is a step of its own: a grace timer that has fired but not yet *)
(* taken the lock, the second half of Stop, the kicks of the stall sweep.  *)
(*                                                                         *)
(* A hub object is named by its ID and by its number among the objects     *)
(* created under that ID, because the code compares pointers (Stop) and    *)
(* because its generation starts over with every object.                   *)
(***************************************************************************)
EXTENDS Naturals, FiniteSets

CONSTANTS
    IDs,                 \* broadcast IDs
    Sessions,            \* publisher sessions, the edge pulls among them
    Viewers,             \* subscriber sessions
    NoSession,           \* a free publisher slot
    NoID,                \* no broadcast
    MaxBroadcasts,       \* Options.MaxBroadcasts
    MaxSubscribers,      \* Options.MaxSubscribers
    MaxTotalSubscribers, \* Options.MaxTotalSubscribers
    StallEnds,           \* Options.PublisherStallEnds
    MaxObjects,          \* bound: hub objects created under one ID
    MaxGen               \* bound: publisher claims of one hub object

ASSUME NamesAssumption ==
    /\ NoSession \notin Sessions
    /\ NoID \notin IDs
ASSUME ViewersAssumption == IsFiniteSet(Viewers)
ASSUME LimitAssumption ==
    /\ MaxBroadcasts \in Nat \ {0}
    /\ MaxSubscribers \in Nat \ {0}
    /\ MaxTotalSubscribers \in Nat \ {0}
    /\ StallEnds \in BOOLEAN
ASSUME BoundAssumption ==
    /\ MaxObjects \in Nat
    /\ MaxGen \in Nat

VARIABLES
    hubs,     \* Registry.hubs
    created,  \* hub objects created under each ID so far
    pubs,     \* the Publisher handle of each session
    firing,   \* grace timers that fired and wait for the registry lock
    subs,     \* where each viewer is subscribed
    kicks     \* broadcasts the stall sweep is about to end

vars == <<hubs, created, pubs, firing, subs, kicks>>

--------------------------------------------------------------------------------
(* Hubs, handles and subscriptions *)

\* obj: which object; gen: generation; pub: the session in the publisher slot;
\* edge: role; grace: the grace timer is armed; kf: the generation whose
\* keyframe is cached (0 = none).
Hubs == [obj : Nat, gen : Nat, pub : Sessions \cup {NoSession}, edge : BOOLEAN,
         grace : BOOLEAN, kf : Nat]

NoHub == [obj |-> 0, gen |-> 0, pub |-> NoSession, edge |-> FALSE,
          grace |-> FALSE, kf |-> 0]

Known(i) == hubs[i].obj # 0
publisherActive(i) == hubs[i].pub # NoSession

\* A Publisher: the hub object and generation it claimed, deposed (closed),
\* with a session bound to it (BindConn), told to go by its successor, between
\* the two halves of Stop, silent for longer than PublisherStallTimeout; pull:
\* the handle of an edge's upstream pull.
Handles == [id : IDs, obj : Nat, gen : Nat, pull : BOOLEAN, closed : BOOLEAN,
            bound : BOOLEAN, told : BOOLEAN, stopping : BOOLEAN, silent : BOOLEAN]

NoHandle == [id |-> NoID, obj |-> 0, gen |-> 0, pull |-> FALSE, closed |-> TRUE,
             bound |-> FALSE, told |-> FALSE, stopping |-> FALSE, silent |-> FALSE]

Idle(s) == pubs[s].id = NoID
Finish(s) == [pubs EXCEPT ![s] = NoHandle]

\* Where a subscriber is; internal: it is a downstream edge.  A subscriber is
\* closed with its hub, so its hub object is the one its ID names.
Subscriptions == [id : IDs, internal : BOOLEAN]
NotSubscribed == [id |-> NoID, internal |-> FALSE]

On(v, i) == subs[v].id = i
External(i) == {v \in Viewers : On(v, i) /\ ~subs[v].internal}
AllExternal == UNION {External(i) : i \in IDs}

--------------------------------------------------------------------------------
(* Claiming the publisher slot *)

newHub(i) == [NoHub EXCEPT !.obj = created[i] + 1]

\* claimPublisherLocked and setRoleLocked: cancels the grace timer, bumps the
\* generation and empties the keyframe cache.
claimed(b, s, edge) ==
    [b EXCEPT !.gen = @ + 1, !.pub = s, !.grace = FALSE, !.kf = 0, !.edge = edge]

Claim(s, i, b, edge) ==
    /\ b.gen < MaxGen
    /\ hubs' = [hubs EXCEPT ![i] = claimed(b, s, edge)]
    /\ created' = [created EXCEPT ![i] = b.obj]

Handle(i, b, pull) ==
    [id |-> i, obj |-> b.obj, gen |-> b.gen + 1, pull |-> pull, closed |-> FALSE,
     bound |-> FALSE, told |-> FALSE, stopping |-> FALSE, silent |-> FALSE]

AtCapacity == Cardinality({i \in IDs : Known(i)}) >= MaxBroadcasts

\* StartPublish("") mints an ID that names no hub.
StartPublish(s, i) ==
    /\ Idle(s) /\ ~AtCapacity
    /\ ~Known(i) /\ created[i] < MaxObjects
    /\ Claim(s, i, newHub(i), FALSE)
    /\ pubs' = [pubs EXCEPT ![s] = Handle(i, newHub(i), FALSE)]
    /\ UNCHANGED <<firing, subs, kicks>>

\* A resume-token holder comes (back) to this relay.
ResumePublish(s, i) ==
    /\ Idle(s)
    /\ ~publisherActive(i)                        \* else ErrPublisherActive
    /\ ~Known(i) => ~AtCapacity /\ created[i] < MaxObjects
    /\ LET b == IF Known(i) THEN hubs[i] ELSE newHub(i) IN
       /\ Claim(s, i, b, FALSE)
       /\ pubs' = [pubs EXCEPT ![s] = Handle(i, b, FALSE)]
    /\ UNCHANGED <<firing, subs, kicks>>

\* An upstream pull claims the slot of an edge hub, exempt from MaxBroadcasts.
EdgePublish(s, i) ==
    /\ Idle(s)
    /\ ~publisherActive(i)
    /\ ~Known(i) => created[i] < MaxObjects
    /\ LET b == IF Known(i) THEN hubs[i] ELSE newHub(i) IN
       /\ Claim(s, i, b, TRUE)
       /\ pubs' = [pubs EXCEPT ![s] = Handle(i, b, TRUE)]
    /\ UNCHANGED <<firing, subs, kicks>>

\* Faulty variant: tells the session but leaves its handle open.
DeposedLeftOpen(h) == [h EXCEPT !.told = h.bound]

\* What becomes of the handle of a deposed session: closed, and told if there is
\* a session bound to close.
Deposed(h) == [h EXCEPT !.closed = TRUE, !.told = h.bound]

\* The newest holder of the token wins over an incumbent.
TakeOverPublish(s, i) ==
    /\ Idle(s)
    /\ Known(i)
    /\ Claim(s, i, hubs[i], FALSE)
    /\ pubs' = [t \in Sessions |->
                   IF t = s THEN Handle(i, hubs[i], FALSE)
                   ELSE IF t = hubs[i].pub THEN Deposed(pubs[t])
                   ELSE pubs[t]]
    /\ UNCHANGED <<firing, subs, kicks>>

--------------------------------------------------------------------------------
(* The life of a publisher session *)

\* Faulty variant: binds without looking whether a successor came first.
BindConnBlind(s) ==
    /\ ~Idle(s) /\ ~pubs[s].pull /\ ~pubs[s].bound /\ ~pubs[s].stopping
    /\ pubs' = [pubs EXCEPT ![s].bound = TRUE]
    /\ UNCHANGED <<hubs, created, firing, subs, kicks>>

\* A session deposed before it was bound must end itself.
BindConn(s) ==
    /\ ~Idle(s) /\ ~pubs[s].pull /\ ~pubs[s].bound /\ ~pubs[s].stopping
    /\ pubs' = IF pubs[s].closed THEN Finish(s)
               ELSE [pubs EXCEPT ![s].bound = TRUE]
    /\ UNCHANGED <<hubs, created, firing, subs, kicks>>

\* Faulty variant: caches the keyframe of a closed handle.
onKeyframeOfAnyone(s) ==
    /\ ~Idle(s)
    /\ hubs' = [hubs EXCEPT ![pubs[s].id].kf = pubs[s].gen]
    /\ UNCHANGED <<created, pubs, firing, subs, kicks>>

\* A keyframe that was read before its session was deposed or closed arrives
\* here late, and is dropped.
onKeyframe(s) ==
    /\ ~Idle(s) /\ ~pubs[s].closed
    /\ hubs' = [hubs EXCEPT ![pubs[s].id].kf = pubs[s].gen]
    /\ UNCHANGED <<created, pubs, firing, subs, kicks>>

\* Faulty variant: forgets to arm the timer.
slotFreedForGood(b) == [b EXCEPT !.pub = NoSession]

\* The hub after its publisher closed: the slot is free, the grace timer armed.
\* BroadcastGrace is positive: NewRegistry sees to it.
slotFreed(b) == [b EXCEPT !.pub = NoSession, !.grace = TRUE]

\* The part of Close and Stop under the lock; nothing happens to a deposed one.
closePublisher(s) ==
    hubs' = IF pubs[s].closed THEN hubs
            ELSE [hubs EXCEPT ![pubs[s].id] = slotFreed(@)]

Close(s) ==
    /\ ~Idle(s) /\ ~pubs[s].stopping
    /\ closePublisher(s)
    /\ pubs' = Finish(s)
    /\ UNCHANGED <<created, firing, subs, kicks>>

\* Stop is Close and then a removal of its own.
StopClose(s) ==
    /\ ~Idle(s) /\ pubs[s].bound /\ ~pubs[s].stopping
    /\ closePublisher(s)
    /\ pubs' = [pubs EXCEPT ![s].closed = TRUE, ![s].stopping = TRUE]
    /\ UNCHANGED <<created, firing, subs, kicks>>

InvalidatePrimes(i) ==
    /\ Known(i) /\ hubs[i].kf # 0
    /\ hubs' = [hubs EXCEPT ![i].kf = 0]
    /\ UNCHANGED <<created, pubs, firing, subs, kicks>>

--------------------------------------------------------------------------------
(* The end of a broadcast *)

\* Faulty variant: leaves the internal mark behind.
UnsubscribedKeepingMark(S) ==
    [v \in Viewers |-> IF v \in S THEN [subs[v] EXCEPT !.id = NoID] ELSE subs[v]]

Unsubscribed(S) ==
    [v \in Viewers |-> IF v \in S THEN NotSubscribed ELSE subs[v]]

\* removeBroadcast: the hub is gone, a live publisher is deposed and every
\* subscriber closed.
removeBroadcast(i) ==
    /\ hubs' = [hubs EXCEPT ![i] = NoHub]
    /\ subs' = Unsubscribed({v \in Viewers : On(v, i)})

\* The grace timer goes off.  From here Timer.Stop no longer prevents it.
GraceTimerFires(i) ==
    /\ hubs[i].grace
    /\ hubs' = [hubs EXCEPT ![i].grace = FALSE]
    /\ firing' = firing \cup {[id |-> i, obj |-> hubs[i].obj, gen |-> hubs[i].gen]}
    /\ UNCHANGED <<created, pubs, subs, kicks>>

\* Faulty variant: does not compare the generation.
StillAway(f) == Known(f.id) /\ ~publisherActive(f.id)

\* The guard of handleGraceExpiry.
StillThatGrace(f) ==
    Known(f.id) /\ ~publisherActive(f.id) /\ hubs[f.id].gen = f.gen

handleGraceExpiry(f) ==
    /\ f \in firing
    /\ firing' = firing \ {f}
    /\ IF StillThatGrace(f) THEN removeBroadcast(f.id) ELSE UNCHANGED <<hubs, subs>>
    /\ UNCHANGED <<created, pubs, kicks>>

\* Faulty variant: the same object, whatever its generation.
StillMyObject(s) ==
    LET h == pubs[s] IN hubs[h.id].obj = h.obj /\ ~publisherActive(h.id)

\* The guard of Stop: the same object at the same generation, nobody publishing.
StillMine(s) ==
    LET h == pubs[s] IN
    /\ hubs[h.id].obj = h.obj
    /\ ~publisherActive(h.id)
    /\ hubs[h.id].gen = h.gen

StopRemove(s) ==
    /\ pubs[s].stopping
    /\ pubs' = Finish(s)
    /\ IF StillMine(s) THEN removeBroadcast(pubs[s].id) ELSE UNCHANGED <<hubs, subs>>
    /\ UNCHANGED <<created, firing, kicks>>

\* The Lease is gone, or the edge's origin ended the broadcast.
EndBroadcast(i) ==
    /\ Known(i) /\ ~publisherActive(i)
    /\ removeBroadcast(i)
    /\ UNCHANGED <<created, pubs, firing, kicks>>

ExpireEdgeIfViewerless(i) ==
    /\ Known(i) /\ ~publisherActive(i)
    /\ hubs[i].edge /\ ~\E v \in Viewers : On(v, i)
    /\ removeBroadcast(i)
    /\ UNCHANGED <<created, pubs, firing, kicks>>

Terminated(i) ==
    /\ removeBroadcast(i)
    /\ pubs' = [t \in Sessions |->
                   IF t = hubs[i].pub THEN Deposed(pubs[t]) ELSE pubs[t]]

\* The operator's ban: the one removal that may end a live broadcast.
TerminateBroadcast(i) ==
    /\ Known(i)
    /\ Terminated(i)
    /\ UNCHANGED <<created, firing, kicks>>

--------------------------------------------------------------------------------
(* The stall sweep *)

FallsSilent(s) ==
    /\ StallEnds
    /\ ~Idle(s) /\ ~pubs[s].closed /\ ~pubs[s].silent
    /\ pubs' = [pubs EXCEPT ![s].silent = TRUE]
    /\ UNCHANGED <<hubs, created, firing, subs, kicks>>

NoteSeen(s) ==
    /\ pubs[s].silent
    /\ pubs' = [pubs EXCEPT ![s].silent = FALSE]
    /\ UNCHANGED <<hubs, created, firing, subs, kicks>>

stalled(i) == Known(i) /\ publisherActive(i) /\ ~hubs[i].edge /\ pubs[hubs[i].pub].silent

\* Under the lock the sweep collects the broadcasts to end; it ends them after
\* the stall hooks ran, one at a time, by their ID.
SweepStalledPublishers ==
    /\ StallEnds
    /\ kicks = {}
    /\ kicks' = {[id |-> i, obj |-> hubs[i].obj, gen |-> hubs[i].gen] :
                    i \in {j \in IDs : stalled(j)}}
    /\ kicks' # {}
    /\ UNCHANGED <<hubs, created, pubs, firing, subs>>

KickStalled(k) ==
    /\ k \in kicks
    /\ kicks' = kicks \ {k}
    /\ IF Known(k.id) THEN Terminated(k.id) ELSE UNCHANGED <<hubs, pubs, subs>>
    /\ UNCHANGED <<created, firing>>

--------------------------------------------------------------------------------
(* Subscribers *)

\* Faulty variant: lets one viewer too many in.
HasRoomForOneMore(i, internal) ==
    internal \/ /\ Cardinality(External(i)) <= MaxSubscribers
                /\ Cardinality(AllExternal) <= MaxTotalSubscribers

\* The caps are for viewers; a downstream edge is exempt from them.
HasRoom(i, internal) ==
    internal \/ /\ Cardinality(External(i)) < MaxSubscribers
                /\ Cardinality(AllExternal) < MaxTotalSubscribers

Subscribe(v, i, internal) ==
    /\ subs[v] = NotSubscribed
    /\ Known(i) /\ HasRoom(i, internal)
    /\ subs' = [subs EXCEPT ![v] = [id |-> i, internal |-> internal]]
    /\ UNCHANGED <<hubs, created, pubs, firing, kicks>>

Unsubscribe(v) ==
    /\ subs[v] # NotSubscribed
    /\ subs' = Unsubscribed({v})
    /\ UNCHANGED <<hubs, created, pubs, firing, kicks>>

Downstream(i) == {v \in Viewers : On(v, i) /\ subs[v].internal}

\* They are collected under the lock and closed one by one after it: S are the
\* ones it has come to before anything else happens.
CloseInternalSubscribers(i) ==
    /\ \E S \in SUBSET Downstream(i) : S # {} /\ subs' = Unsubscribed(S)
    /\ UNCHANGED <<hubs, created, pubs, firing, kicks>>

--------------------------------------------------------------------------------
Init ==
    /\ hubs = [i \in IDs |-> NoHub]
    /\ created = [i \in IDs |-> 0]
    /\ pubs = [s \in Sessions |-> NoHandle]
    /\ subs = [v \in Viewers |-> NotSubscribed]
    /\ firing = {}
    /\ kicks = {}

Publish ==
    \E s \in Sessions, i \in IDs :
        \/ StartPublish(s, i)
        \/ ResumePublish(s, i)
        \/ EdgePublish(s, i)
        \/ TakeOverPublish(s, i)

Session ==
    \E s \in Sessions :
        \/ BindConn(s)
        \/ onKeyframe(s)
        \/ Close(s)
        \/ StopClose(s)
        \/ StopRemove(s)
        \/ FallsSilent(s)
        \/ NoteSeen(s)

Expiry ==
    \/ \E i \in IDs :
        \/ GraceTimerFires(i)
        \/ EndBroadcast(i)
        \/ ExpireEdgeIfViewerless(i)
        \/ TerminateBroadcast(i)
        \/ InvalidatePrimes(i)
    \/ \E f \in firing : handleGraceExpiry(f)
    \/ SweepStalledPublishers
    \/ \E k \in kicks : KickStalled(k)

Watch ==
    \/ \E v \in Viewers, i \in IDs, internal \in BOOLEAN : Subscribe(v, i, internal)
    \/ \E v \in Viewers : Unsubscribe(v)
    \/ \E i \in IDs : CloseInternalSubscribers(i)

Next == Publish \/ Session \/ Expiry \/ Watch

Spec == Init /\ [][Next]_vars

\* The runtime fires a timer that is due and runs its goroutine.
Fairness ==
    \A i \in IDs :
        /\ WF_vars(GraceTimerFires(i))
        /\ WF_vars(\E f \in firing : f.id = i /\ handleGraceExpiry(f))

FairSpec == Spec /\ Fairness

--------------------------------------------------------------------------------
(* Properties *)

\* Every variable has the type of its Go counterpart.
TypeOK ==
    /\ hubs \in [IDs -> Hubs]
    /\ created \in [IDs -> Nat]
    /\ pubs \in [Sessions -> Handles \cup {NoHandle}]
    /\ firing \subseteq [id : IDs, obj : Nat, gen : Nat]
    /\ subs \in [Viewers -> Subscriptions \cup {NotSubscribed}]
    /\ kicks \subseteq [id : IDs, obj : Nat, gen : Nat]

\* A handle that is not closed is the one in its hub's publisher slot, at the
\* hub's generation, and the slot's handle is not closed: a session that was
\* deposed, or whose broadcast was removed and created anew, can no longer feed,
\* free or end anything (Publisher.closed).
SlotOwnedByHandle ==
    /\ \A s \in Sessions : ~pubs[s].closed =>
          LET b == hubs[pubs[s].id] IN
          b.pub = s /\ b.obj = pubs[s].obj /\ b.gen = pubs[s].gen
    /\ \A i \in IDs : publisherActive(i) =>
          ~pubs[hubs[i].pub].closed /\ pubs[hubs[i].pub].id = i

\* The keyframe a joining viewer is primed with comes from the hub's latest
\* publisher session, never from one that was deposed or re-homed away, however
\* late that session's stream was read (onKeyframe, claimPublisherLocked).
PrimeIsCurrent ==
    \A i \in IDs : hubs[i].kf \in {0, hubs[i].gen}

\* A session that was deposed is told so: it is closed by its successor when it
\* was bound, and finds out when it binds otherwise (TakeOverPublish, BindConn).
DeposedIsTold ==
    \A s \in Sessions :
        pubs[s].closed /\ pubs[s].bound /\ ~pubs[s].stopping => pubs[s].told

\* Nobody watches a broadcast this relay does not know, and neither cap is ever
\* exceeded (subscribeOpts, removeBroadcast).
ViewersAccounted ==
    /\ \A v \in Viewers, i \in IDs : On(v, i) => Known(i)
    /\ \A i \in IDs : Cardinality(External(i)) <= MaxSubscribers
    /\ Cardinality(AllExternal) <= MaxTotalSubscribers

\* i was removed in this step.
Removed(i) == Known(i) /\ hubs'[i] = NoHub

\* A timer that fired before a reclaim does not take the broadcast away while
\* the grace of the reclaiming session is still running (handleGraceExpiry).
ReclaimGetsFullGrace ==
    [][\A f \in firing :
          f \notin firing' /\ Removed(f.id) /\ hubs[f.id].obj = f.obj
              => ~hubs[f.id].grace]_vars

\* A Stop that is read late ends nothing another session has claimed since, even
\* when that session is away again (Publisher.Stop).
StopSparesSuccessor ==
    [][\A s \in Sessions :
          pubs[s].stopping /\ pubs'[s] = NoHandle /\ Removed(pubs[s].id)
              => /\ hubs[pubs[s].id].obj = pubs[s].obj
                 /\ hubs[pubs[s].id].gen = pubs[s].gen]_vars

\* A broadcast whose publisher went away ends, unless somebody publishes again
\* (Close, handleGraceExpiry).
AwayBroadcastEnds ==
    \A i \in IDs :
        Known(i) /\ ~publisherActive(i) ~> (~Known(i) \/ publisherActive(i))

================================================================================
