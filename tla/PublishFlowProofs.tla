-------------------------- MODULE PublishFlowProofs --------------------------
(***************************************************************************)
(* Proofs about PublishFlow: types, NoZombieSlot and BannedIDSilenced.     *)
(* Every step of the pod is a step of its registry or leaves it alone, so  *)
(* that the invariant of HubRegistryProofs holds here too.  The handle of  *)
(* a session is then followed through its handler, and a banned broadcast  *)
(* through the goroutine that kills it.                                    *)
(***************************************************************************)
EXTENDS PublishFlow, TLAPS

Reg == INSTANCE HubRegistryProofs WITH StallEnds <- FALSE

\* What is neither the registry's nor a handler's.
LeaseTyped ==
    /\ origin \in [IDs -> Lease!Origins \cup {Lease!Nothing}]
    /\ held \in [IDs -> Nat]
ServerTyped ==
    /\ tracked \in [IDs -> Publishers \cup {NoSession}]
    /\ killed \subseteq Publishers /\ announced \subseteq IDs
BanTyped ==
    /\ bans \subseteq Targets /\ pending \subseteq bans
JobsTyped == jobs \subseteq Jobs
OutsideTyped == outside \in 0..MaxOutside

Typed == LeaseTyped /\ ServerTyped /\ BanTyped /\ JobsTyped /\ OutsideTyped

\* A handler knows its broadcast from its claim of the slot on, and after a close
\* or a hook goes on with what was to follow.
HandlerTyped(h) ==
    /\ h \in Handlers
    /\ h.at \notin {"start", "minting", "done"} => h.id \in IDs
    /\ h.at = "closing" => h.then \in {"done", "ending"}
    /\ h.at = "gracing" => h.then \in {"done", "ending", "stopping"}
    /\ h.at = "erasing" => h.then \in {"minting", "done", "untracking"}

\* The steps at which a handler may have a handle: between the claim of the slot
\* and its close.  The hook of Stop runs between the close and the removal.
Holding(h) ==
    \/ h.at \in {"slotted", "claiming", "drawn", "tracking", "rechecking", "binding",
                 "live", "untracking", "closing", "stopping"}
    \/ h.at = "gracing" /\ h.then = "stopping"

\* A handle is of the broadcast its session's handler is at work for.
Follows(p, h) == p.id # NoID => Holding(h) /\ h.id = p.id

\* A session that is through the checks of a broadcast banned since has lost its
\* slot, or the kill is on its way.
Doomed(i) == i \in bans /\ i \notin pending
Spared(p, h) == h.at \in {"binding", "live"} /\ Doomed(h.id) /\ ~p.closed
KillComing(p, h) == Spared(p, h) => Killing(h.id)

HandlersTyped ==
    /\ flow \in [Publishers -> Handlers]
    /\ \A s \in Publishers : HandlerTyped(flow[s])
HandlesFollowed == \A s \in Publishers : Follows(pubs[s], flow[s])
KillsComing == \A s \in Publishers : KillComing(pubs[s], flow[s])

PInv ==
    Reg!HInv /\ Typed /\ HandlersTyped /\ HandlesFollowed /\ KillsComing
--------------------------------------------------------------------------------
(* The registry of the pod is a registry *)

\* What the registry assumes of its names holds of the pod's.
LEMMA RegNames == Reg!NamesAssumption
  BY PublishFlowAssumption DEF Reg!NamesAssumption

\* The viewers are finitely many.
LEMMA RegViewers == Reg!ViewersAssumption
  BY PublishFlowAssumption DEF Reg!ViewersAssumption, Reg!IsFiniteSet, IsFiniteSet

\* The limits are natural numbers.
LEMMA RegLimits == Reg!LimitAssumption
  BY PublishFlowAssumption DEF Reg!LimitAssumption

\* So are the bounds.
LEMMA RegBounds == Reg!BoundAssumption
  BY PublishFlowAssumption DEF Reg!BoundAssumption

\* The invariant of the registry is kept by its steps.
LEMMA RegStep ==
    ASSUME Reg!HInv, Reg!Next \/ UNCHANGED hubVars
    PROVE  Reg!HInv'
  <1>1. [Reg!Next]_Reg!vars
    BY DEF Reg!vars, hubVars
  <1>2. Reg!HInv /\ [Reg!Next]_Reg!vars => Reg!HInv'
    BY RegNames, RegViewers, RegLimits, RegBounds, Reg!HInvStep
  <1> QED
    BY <1>1, <1>2

\* It holds of an empty relay.
LEMMA RegInit == Hub!Init => Reg!HInv
  <1>1. Reg!Init => Reg!HInv
    BY RegNames, RegViewers, RegLimits, RegBounds, Reg!HInvInit
  <1>2. Hub!Init => Reg!Init
    BY DEF Hub!Init, Reg!Init, Hub!NoHub, Reg!NoHub, Hub!NoHandle, Reg!NoHandle,
           Hub!NotSubscribed, Reg!NotSubscribed
  <1> QED
    BY <1>1, <1>2

\* What the invariant says of types, slots and handles.
LEMMA RegFacts ==
    ASSUME Reg!HInv
    PROVE  /\ Hub!TypeOK
           /\ \A i \in IDs : hubs[i].obj \in Nat
           /\ \A s \in Sessions : pubs[s].id \in IDs \cup {NoID}
           /\ \A s \in Sessions : pubs[s].id = NoID => pubs[s].closed
           /\ \A s \in Sessions : ~pubs[s].closed => hubs[pubs[s].id].pub = s
           /\ \A i \in IDs : Hub!publisherActive(i) =>
                 hubs[i].pub \in Sessions /\ pubs[hubs[i].pub].id = i
           /\ \A i \in IDs : ~Hub!Known(i) => hubs[i] = Hub!NoHub
  <1>1. Reg!TypeOK /\ Reg!SlotOwnedByHandle /\ Reg!PlainParts
    BY DEF Reg!HInv
  <1>2. Hub!TypeOK
    BY <1>1 DEF Hub!TypeOK, Reg!TypeOK, Hub!Hubs, Reg!Hubs, Hub!Handles, Reg!Handles,
               Hub!NoHandle, Reg!NoHandle, Hub!Subscriptions, Reg!Subscriptions,
               Hub!NotSubscribed, Reg!NotSubscribed
  <1>3. \A i \in IDs : hubs[i].obj \in Nat /\ hubs[i].pub \in Sessions \cup {NoSession}
    BY <1>2 DEF Hub!TypeOK, Hub!Hubs
  <1>4. \A s \in Sessions : /\ pubs[s].id \in IDs \cup {NoID}
                            /\ pubs[s].id = NoID => pubs[s].closed
    BY <1>2, PublishFlowAssumption DEF Hub!TypeOK, Hub!Handles, Hub!NoHandle
  <1>5. \A s \in Sessions : ~pubs[s].closed => hubs[pubs[s].id].pub = s
    BY <1>1 DEF Reg!SlotOwnedByHandle
  <1>6. \A i \in IDs : Hub!publisherActive(i) =>
           hubs[i].pub \in Sessions /\ pubs[hubs[i].pub].id = i
    BY <1>1, <1>3 DEF Reg!SlotOwnedByHandle, Reg!publisherActive, Hub!publisherActive
  <1>7. \A i \in IDs : ~Hub!Known(i) => hubs[i] = Hub!NoHub
    BY <1>1 DEF Reg!PlainParts, Reg!Known, Hub!Known, Reg!NoHub, Hub!NoHub
  <1> QED
    BY <1>2, <1>3, <1>4, <1>5, <1>6, <1>7

\* A handle as the types have it.
LEMMA HandleParts ==
    ASSUME Reg!HInv, NEW s \in Sessions
    PROVE  /\ pubs \in [Sessions -> Hub!Handles \cup {Hub!NoHandle}]
           /\ pubs[s] \in Hub!Handles \cup {Hub!NoHandle}
           /\ Hub!Deposed(pubs[s]).id = pubs[s].id /\ Hub!Deposed(pubs[s]).closed
           /\ Hub!NoHandle.id = NoID /\ Hub!NoHandle.closed
           /\ \A b, pull : \A i \in IDs : Hub!Handle(i, b, pull).id = i
  <1>1. pubs \in [Sessions -> Hub!Handles \cup {Hub!NoHandle}]
    BY RegFacts DEF Hub!TypeOK
  <1>2. pubs[s] \in Hub!Handles \cup {Hub!NoHandle}
    BY <1>1
  <1>3. Hub!Deposed(pubs[s]).id = pubs[s].id /\ Hub!Deposed(pubs[s]).closed
    BY <1>2 DEF Hub!Deposed, Hub!Handles, Hub!NoHandle
  <1>4. Hub!NoHandle.id = NoID /\ Hub!NoHandle.closed
    BY DEF Hub!NoHandle
  <1>5. \A b, pull : \A i \in IDs : Hub!Handle(i, b, pull).id = i
    BY DEF Hub!Handle
  <1> QED
    BY <1>1, <1>2, <1>3, <1>4, <1>5

\* Sessions whose handle is not claimed in a step keep its broadcast or lose it,
\* and a handle once closed stays so.
Calm(S) ==
    \A t \in S : /\ pubs'[t].id \in {pubs[t].id, NoID}
                 /\ pubs[t].closed => pubs'[t].closed

\* A session or the pull claims a slot, and whoever had it is deposed.
LEMMA ClaimFacts ==
    ASSUME Reg!HInv, NEW s \in Sessions, NEW i \in IDs,
           \/ Hub!StartPublish(s, i) \/ Hub!ResumePublish(s, i)
           \/ Hub!EdgePublish(s, i) \/ Hub!TakeOverPublish(s, i)
    PROVE  Reg!HInv' /\ pubs'[s].id = i /\ Calm(Sessions \ {s})
  <1>1. Hub!StartPublish(s, i) => Reg!StartPublish(s, i)
    BY DEF Hub!StartPublish, Reg!StartPublish, Hub!Idle, Reg!Idle, Hub!Known, Reg!Known,
           Hub!newHub, Reg!newHub, Hub!NoHub, Reg!NoHub, Hub!Claim, Reg!Claim, Hub!claimed,
           Reg!claimed, Hub!Handle, Reg!Handle, Hub!AtCapacity, Reg!AtCapacity,
           Hub!Cardinality, Reg!Cardinality
  <1>2. Hub!ResumePublish(s, i) => Reg!ResumePublish(s, i)
    BY DEF Hub!ResumePublish, Reg!ResumePublish, Hub!Idle, Reg!Idle, Hub!publisherActive,
           Reg!publisherActive, Hub!Known, Reg!Known, Hub!newHub, Reg!newHub, Hub!NoHub,
           Reg!NoHub, Hub!Claim, Reg!Claim, Hub!claimed, Reg!claimed, Hub!Handle, Reg!Handle,
           Hub!AtCapacity, Reg!AtCapacity, Hub!Cardinality, Reg!Cardinality
  <1>3. Hub!EdgePublish(s, i) => Reg!EdgePublish(s, i)
    BY DEF Hub!EdgePublish, Reg!EdgePublish, Hub!Idle, Reg!Idle, Hub!publisherActive,
           Reg!publisherActive, Hub!Known, Reg!Known, Hub!newHub, Reg!newHub, Hub!NoHub,
           Reg!NoHub, Hub!Claim, Reg!Claim, Hub!claimed, Reg!claimed, Hub!Handle, Reg!Handle
  <1>4. Hub!TakeOverPublish(s, i) => Reg!TakeOverPublish(s, i)
    BY DEF Hub!TakeOverPublish, Reg!TakeOverPublish, Hub!Idle, Reg!Idle, Hub!Known,
           Reg!Known, Hub!Claim, Reg!Claim, Hub!claimed, Reg!claimed, Hub!Handle,
           Reg!Handle, Hub!Deposed, Reg!Deposed
  <1>5. Reg!HInv'
    BY <1>1, <1>2, <1>3, <1>4, RegStep DEF Reg!Next, Reg!Publish
  <1>6. CASE Hub!TakeOverPublish(s, i)
    <2>1. pubs'[s].id = i
      <3>1. pubs'[s] = Hub!Handle(i, hubs[i], FALSE)
        BY <1>6 DEF Hub!TakeOverPublish
      <3> QED
        BY <3>1 DEF Hub!Handle
    <2>2. ASSUME NEW t \in Sessions \ {s}
          PROVE  pubs'[t].id = pubs[t].id /\ (pubs[t].closed => pubs'[t].closed)
      <3>1. pubs'[t] = pubs[t] \/ pubs'[t] = Hub!Deposed(pubs[t])
        BY <1>6 DEF Hub!TakeOverPublish
      <3> QED
        BY <3>1, HandleParts
    <2>3. Calm(Sessions \ {s})
      BY <2>2 DEF Calm
    <2> QED
      BY <1>5, <2>1, <2>3
  <1>7. CASE Hub!StartPublish(s, i) \/ Hub!ResumePublish(s, i) \/ Hub!EdgePublish(s, i)
    <2>1. PICK b, pull : pubs' = [pubs EXCEPT ![s] = Hub!Handle(i, b, pull)]
      BY <1>7 DEF Hub!StartPublish, Hub!ResumePublish, Hub!EdgePublish
    <2> QED
      BY <1>5, <2>1, HandleParts DEF Calm
  <1> QED
    BY <1>6, <1>7

\* A handle is given back.
LEMMA FinishFacts ==
    ASSUME Reg!HInv, NEW s \in Sessions, pubs' = Hub!Finish(s)
    PROVE  pubs'[s].id = NoID /\ Calm(Sessions)
  BY HandleParts DEF Hub!Finish, Calm

\* The handles are left alone.
LEMMA SameHandles ==
    ASSUME UNCHANGED pubs
    PROVE  Calm(Sessions)
  BY DEF Calm

\* A session or the pull gives its slot back, if it has one.
LEMMA CloseFacts ==
    ASSUME Reg!HInv, NEW s \in Sessions, Hub!Close(s)
    PROVE  Reg!HInv' /\ pubs'[s].id = NoID /\ Calm(Sessions)
  <1>1. Reg!Close(s)
    BY DEF Hub!Close, Reg!Close, Hub!Idle, Reg!Idle, Hub!closePublisher, Reg!closePublisher,
           Hub!slotFreed, Reg!slotFreed, Hub!Finish, Reg!Finish, Hub!NoHandle, Reg!NoHandle
  <1>2. Reg!HInv'
    BY <1>1, RegStep DEF Reg!Next, Reg!Session
  <1> QED
    BY <1>2, FinishFacts DEF Hub!Close

\* The two halves of Stop.
LEMMA StopFacts ==
    ASSUME Reg!HInv, NEW s \in Sessions
    PROVE  /\ Hub!StopClose(s) =>
                 Reg!HInv' /\ pubs'[s].id = pubs[s].id /\ Calm(Sessions)
           /\ Hub!StopRemove(s) => Reg!HInv' /\ pubs'[s].id = NoID /\ Calm(Sessions)
  <1>1. ASSUME Hub!StopClose(s)
        PROVE  Reg!HInv' /\ pubs'[s].id = pubs[s].id /\ Calm(Sessions)
    <2>1. Reg!StopClose(s)
      BY <1>1 DEF Hub!StopClose, Reg!StopClose, Hub!Idle, Reg!Idle, Hub!closePublisher,
                  Reg!closePublisher, Hub!slotFreed, Reg!slotFreed
    <2>2. Reg!HInv'
      BY <2>1, RegStep DEF Reg!Next, Reg!Session
    <2>3. PICK h : h = [pubs[s] EXCEPT !.closed = TRUE, !.stopping = TRUE]
      OBVIOUS
    <2>4. h.id = pubs[s].id /\ h.closed
      BY <2>3, HandleParts DEF Hub!Handles, Hub!NoHandle
    <2>5. pubs' = [pubs EXCEPT ![s] = h]
      BY <1>1, <2>3, HandleParts DEF Hub!StopClose
    <2> QED
      BY <2>2, <2>4, <2>5, HandleParts DEF Calm
  <1>2. ASSUME Hub!StopRemove(s)
        PROVE  Reg!HInv' /\ pubs'[s].id = NoID /\ Calm(Sessions)
    <2>1. Reg!StopRemove(s)
      BY <1>2 DEF Hub!StopRemove, Reg!StopRemove, Hub!Finish, Reg!Finish, Hub!NoHandle,
                  Reg!NoHandle, Hub!StillMine, Reg!StillMine, Hub!publisherActive,
                  Reg!publisherActive, Hub!removeBroadcast, Reg!removeBroadcast, Hub!NoHub,
                  Reg!NoHub, Hub!Unsubscribed, Reg!Unsubscribed, Hub!NotSubscribed,
                  Reg!NotSubscribed, Hub!On, Reg!On
    <2>2. Reg!HInv'
      BY <2>1, RegStep DEF Reg!Next, Reg!Session
    <2> QED
      BY <1>2, <2>2, FinishFacts DEF Hub!StopRemove
  <1> QED
    BY <1>1, <1>2

\* A session deposed before it was bound gives up its handle instead.
LEMMA BindFacts ==
    ASSUME Reg!HInv, NEW s \in Sessions, Hub!BindConn(s)
    PROVE  Reg!HInv' /\ Calm(Sessions) /\ (pubs[s].closed => pubs'[s].id = NoID)
  <1>1. Reg!BindConn(s)
    BY DEF Hub!BindConn, Reg!BindConn, Hub!Idle, Reg!Idle, Hub!Finish, Reg!Finish,
           Hub!NoHandle, Reg!NoHandle
  <1>2. Reg!HInv'
    BY <1>1, RegStep DEF Reg!Next, Reg!Session
  <1>3. CASE pubs[s].closed
    BY <1>2, <1>3, FinishFacts DEF Hub!BindConn
  <1>4. CASE ~pubs[s].closed
    <2>1. PICK h : h = [pubs[s] EXCEPT !.bound = TRUE]
      OBVIOUS
    <2>2. h.id = pubs[s].id
      BY <2>1, HandleParts DEF Hub!Handles, Hub!NoHandle
    <2>3. pubs' = [pubs EXCEPT ![s] = h]
      BY <1>4, <2>1, HandleParts DEF Hub!BindConn
    <2> QED
      BY <1>2, <1>4, <2>2, <2>3, HandleParts DEF Calm
  <1> QED
    BY <1>3, <1>4

\* Timers and ends of broadcasts.
LEMMA ExpiryFacts ==
    ASSUME Reg!HInv, NEW i \in IDs,
           \/ Hub!GraceTimerFires(i) \/ Hub!EndBroadcast(i) \/ Hub!TerminateBroadcast(i)
           \/ \E f \in firing : Hub!handleGraceExpiry(f)
    PROVE  Reg!HInv' /\ Calm(Sessions)
  <1>1. Hub!GraceTimerFires(i) => Reg!GraceTimerFires(i)
    BY DEF Hub!GraceTimerFires, Reg!GraceTimerFires
  <1>2. Hub!EndBroadcast(i) => Reg!EndBroadcast(i)
    BY DEF Hub!EndBroadcast, Reg!EndBroadcast, Hub!Known, Reg!Known, Hub!publisherActive,
           Reg!publisherActive, Hub!removeBroadcast, Reg!removeBroadcast, Hub!NoHub, Reg!NoHub,
           Hub!Unsubscribed, Reg!Unsubscribed, Hub!NotSubscribed, Reg!NotSubscribed,
           Hub!On, Reg!On
  <1>3. Hub!TerminateBroadcast(i) => Reg!TerminateBroadcast(i)
    BY DEF Hub!TerminateBroadcast, Reg!TerminateBroadcast, Hub!Known, Reg!Known,
           Hub!Terminated, Reg!Terminated, Hub!Deposed, Reg!Deposed, Hub!removeBroadcast,
           Reg!removeBroadcast, Hub!NoHub, Reg!NoHub, Hub!Unsubscribed, Reg!Unsubscribed,
           Hub!NotSubscribed, Reg!NotSubscribed, Hub!On, Reg!On
  <1>4. ASSUME NEW f \in firing, Hub!handleGraceExpiry(f) PROVE Reg!handleGraceExpiry(f)
    BY <1>4 DEF Hub!handleGraceExpiry, Reg!handleGraceExpiry, Hub!StillThatGrace,
           Reg!StillThatGrace, Hub!Known, Reg!Known, Hub!publisherActive, Reg!publisherActive,
           Hub!removeBroadcast, Reg!removeBroadcast, Hub!NoHub, Reg!NoHub, Hub!Unsubscribed,
           Reg!Unsubscribed, Hub!NotSubscribed, Reg!NotSubscribed, Hub!On, Reg!On
  <1>5. Reg!Expiry
    BY <1>1, <1>2, <1>3, <1>4 DEF Reg!Expiry
  <1>6. Reg!HInv'
    BY <1>5, RegStep DEF Reg!Next
  <1>7. CASE Hub!TerminateBroadcast(i)
    <2>1. \A t \in Sessions : pubs'[t] \in {pubs[t], Hub!Deposed(pubs[t])}
      BY <1>7 DEF Hub!TerminateBroadcast, Hub!Terminated
    <2> QED
      BY <1>6, <2>1, HandleParts DEF Calm
  <1>8. CASE pubs' = pubs
    BY <1>6, <1>8, SameHandles
  <1> QED
    BY <1>7, <1>8 DEF Hub!GraceTimerFires, Hub!EndBroadcast, Hub!handleGraceExpiry

\* A downstream edge subscribes, or those of a demoted broadcast are closed.
LEMMA EdgesFacts ==
    ASSUME Reg!HInv, NEW i \in IDs,
           \/ \E v \in Viewers : Hub!Subscribe(v, i, TRUE)
           \/ /\ subs' = Hub!Unsubscribed(Hub!Downstream(i))
              /\ UNCHANGED <<hubs, created, pubs, firing, kicks>>
    PROVE  Reg!HInv' /\ Calm(Sessions)
  <1>1. ASSUME NEW v \in Viewers, Hub!Subscribe(v, i, TRUE) PROVE Reg!Subscribe(v, i, TRUE)
    BY <1>1 DEF Hub!Subscribe, Reg!Subscribe, Hub!NotSubscribed, Reg!NotSubscribed, Hub!Known,
           Reg!Known, Hub!HasRoom, Reg!HasRoom, Hub!External, Reg!External, Hub!AllExternal,
           Reg!AllExternal, Hub!On, Reg!On, Hub!Cardinality, Reg!Cardinality
  <1>2. CASE \E v \in Viewers : Hub!Subscribe(v, i, TRUE)
    <2>1. Reg!Watch
      BY <1>1, <1>2 DEF Reg!Watch
    <2> QED
      BY <1>2, <2>1, RegStep, SameHandles DEF Reg!Next, Hub!Subscribe
  <1>3. CASE /\ subs' = Hub!Unsubscribed(Hub!Downstream(i))
             /\ UNCHANGED <<hubs, created, pubs, firing, kicks>>
    <2>d. Hub!Downstream(i) = Reg!Downstream(i)
      BY DEF Hub!Downstream, Reg!Downstream, Hub!On, Reg!On
    <2>1. CASE Hub!Downstream(i) # {}
      <3>1. Reg!Downstream(i) # {} /\ subs' = Reg!Unsubscribed(Reg!Downstream(i))
        BY <1>3, <2>1, <2>d DEF Hub!Unsubscribed, Reg!Unsubscribed, Hub!NotSubscribed,
                                Reg!NotSubscribed
      <3>2. Reg!CloseInternalSubscribers(i)
        BY <1>3, <3>1 DEF Reg!CloseInternalSubscribers
      <3> QED
        BY <1>3, <3>2, RegStep, SameHandles DEF Reg!Next, Reg!Watch
    <2>2. CASE Hub!Downstream(i) = {}
      <3>1. subs \in [Viewers -> Hub!Subscriptions \cup {Hub!NotSubscribed}]
        BY RegFacts DEF Hub!TypeOK
      <3>2. subs' = subs
        BY <1>3, <2>2, <3>1 DEF Hub!Unsubscribed
      <3> QED
        BY <1>3, <3>2, RegStep, SameHandles DEF hubVars
    <2> QED
      BY <2>1, <2>2
  <1> QED
    BY <1>2, <1>3

\* The registry is left alone.
LEMMA SameHubFacts ==
    ASSUME Reg!HInv, UNCHANGED hubVars
    PROVE  Reg!HInv' /\ Calm(Sessions) /\ UNCHANGED pubs
  BY RegStep, SameHandles DEF hubVars

\* After the kill of a broadcast every handle of it is closed.
LEMMA KilledFacts ==
    ASSUME Reg!HInv, NEW i \in IDs,
           IF Hub!Known(i) THEN Hub!TerminateBroadcast(i) ELSE UNCHANGED hubVars
    PROVE  /\ Reg!HInv' /\ Calm(Sessions)
           /\ \A s \in Sessions : pubs'[s].id = i => pubs'[s].closed
  <1>1. Reg!HInv' /\ Calm(Sessions)
    BY ExpiryFacts, SameHubFacts
  <1>2. hubs'[i] = Hub!NoHub
    <2>1. CASE Hub!Known(i)
      <3>1. hubs \in [IDs -> Hub!Hubs]
        BY RegFacts DEF Hub!TypeOK
      <3>2. hubs' = [hubs EXCEPT ![i] = Hub!NoHub]
        BY <2>1 DEF Hub!TerminateBroadcast, Hub!Terminated, Hub!removeBroadcast
      <3> QED
        BY <3>1, <3>2
    <2>2. CASE ~Hub!Known(i)
      BY <2>2, RegFacts DEF hubVars
    <2> QED
      BY <2>1, <2>2
  <1>3. ASSUME NEW s \in Sessions, pubs'[s].id = i, ~pubs'[s].closed PROVE FALSE
    <2>1. (~pubs[s].closed => hubs[pubs[s].id].pub = s)'
      <3>1. Reg!SlotOwnedByHandle'
        BY <1>1 DEF Reg!HInv
      <3> QED
        BY <3>1 DEF Reg!SlotOwnedByHandle
    <2>2. hubs'[i].pub = s
      BY <1>3, <2>1
    <2> QED
      BY <1>2, <2>2, PublishFlowAssumption DEF Hub!NoHub
  <1> QED
    BY <1>1, <1>3
--------------------------------------------------------------------------------
(* The Leases *)

\* A Lease is written.
LEMMA WriteTyped ==
    ASSUME LeaseTyped, NEW i \in IDs, NEW l \in Lease!Origins \cup {Lease!Nothing},
           Lease!Write(i, l)
    PROVE  origin' \in [IDs -> Lease!Origins \cup {Lease!Nothing}] /\ origin'[i] = l
  BY DEF LeaseTyped, Lease!Write

\* A claim leaves a Lease.
LEMMA ClaimWrites ==
    ASSUME LeaseTyped, NEW i \in IDs, NEW q \in {Self, Other}, Lease!Claim(q, i, NoPop)
    PROVE  \E l \in Lease!Origins : Lease!Write(i, l)
  <1>1. PICK new : new = [holder |-> q, gen |-> 1, pop |-> NoPop, away |-> FALSE, expired |-> FALSE]
    OBVIOUS
  <1>2. new \in Lease!Origins
    BY <1>1 DEF Lease!Origins
  <1>3. CASE ~Lease!There(i)
    BY <1>1, <1>2, <1>3 DEF Lease!Claim
  <1>4. CASE Lease!There(i)
    <2>1. PICK o : o = origin[i]
      OBVIOUS
    <2>2. PICK n : n = o.gen + 1
      OBVIOUS
    <2>3. o \in Lease!Origins /\ n \in Nat
      BY <1>4, <2>1, <2>2 DEF Lease!There, LeaseTyped, Lease!Origins
    <2>4. PICK l : l = [o EXCEPT !.holder = q, !.gen = n, !.away = FALSE, !.expired = FALSE]
      OBVIOUS
    <2>5. l \in Lease!Origins
      BY <2>3, <2>4 DEF Lease!Origins
    <2>6. Lease!Write(i, l)
      BY <1>4, <2>1, <2>2, <2>4 DEF Lease!Claim
    <2> QED
      BY <2>5, <2>6
  <1> QED
    BY <1>3, <1>4

\* The claim of a handler ...
LEMMA ClaimLeaseTyped ==
    ASSUME LeaseTyped, NEW i \in IDs, ClaimLease(i) \/ ClaimUnanswered(i)
    PROVE  LeaseTyped'
  <1>1. PICK l \in Lease!Origins : Lease!Write(i, l)
    BY ClaimWrites DEF ClaimLease, ClaimUnanswered, ClaimCommits
  <1>2. origin' \in [IDs -> Lease!Origins \cup {Lease!Nothing}] /\ origin'[i] = l
    BY <1>1, WriteTyped
  <1>3. l.gen \in Nat
    BY DEF Lease!Origins
  <1> QED
    BY <1>2, <1>3 DEF ClaimLease, ClaimUnanswered, Renewing, LeaseTyped

\* ... the requests of the hooks ...
LEMMA HookTyped ==
    ASSUME LeaseTyped, NEW i \in IDs, StopRenew(i),
           Lease!EnterGrace(Self, i) \/ Lease!Delete(Self, i) \/ UNCHANGED origin
    PROVE  LeaseTyped'
  <1>1. held' \in [IDs -> Nat]
    BY DEF StopRenew, Renewing, LeaseTyped
  <1>2. CASE Lease!EnterGrace(Self, i)
    <2>1. PICK l : l = [origin[i] EXCEPT !.away = TRUE, !.expired = FALSE]
      OBVIOUS
    <2>2. l \in Lease!Origins /\ Lease!Write(i, l)
      BY <1>2, <2>1 DEF Lease!EnterGrace, Lease!Origins, Lease!There, LeaseTyped
    <2> QED
      BY <1>1, <2>2, WriteTyped DEF LeaseTyped
  <1>3. CASE Lease!Delete(Self, i)
    BY <1>1, <1>3, WriteTyped DEF LeaseTyped, Lease!Delete
  <1>4. CASE UNCHANGED origin
    BY <1>1, <1>4 DEF LeaseTyped
  <1> QED
    BY <1>2, <1>3, <1>4

\* ... and what the rest of the fleet does.
LEMMA FleetTyped ==
    ASSUME LeaseTyped, NEW i \in IDs, UNCHANGED held,
           \/ Lease!Claim(Other, i, NoPop) \/ Lease!Write(i, Lease!Nothing)
           \/ \E pop \in Pops : Lease!Reserve(i, pop)
    PROVE  LeaseTyped'
  <1>1. PICK l \in Lease!Origins \cup {Lease!Nothing} : Lease!Write(i, l)
    <2>1. ASSUME NEW pop \in Pops, Lease!Reserve(i, pop)
          PROVE  \E l \in Lease!Origins : Lease!Write(i, l)
      <3>1. PICK l : l = [holder |-> NoPod, gen |-> 0, pop |-> pop, away |-> FALSE, expired |-> FALSE]
        OBVIOUS
      <3>2. l \in Lease!Origins /\ Lease!Write(i, l)
        BY <2>1, <3>1 DEF Lease!Reserve, Lease!Origins
      <3> QED
        BY <3>2
    <2> QED
      BY <2>1, ClaimWrites
  <1> QED
    BY <1>1, WriteTyped DEF LeaseTyped

--------------------------------------------------------------------------------
(* Handlers *)

\* The parts of the invariant.
LEMMA Parts ==
    ASSUME PInv
    PROVE  /\ Reg!HInv /\ LeaseTyped /\ ServerTyped /\ BanTyped /\ JobsTyped /\ OutsideTyped
           /\ Publishers \subseteq Sessions
           /\ \A s \in Publishers : /\ flow[s] \in Handlers /\ HandlerTyped(flow[s])
                                    /\ Follows(pubs[s], flow[s])
                                    /\ KillComing(pubs[s], flow[s])
  BY DEF PInv, Typed, HandlersTyped, HandlesFollowed, KillsComing, Publishers

\* What is not touched keeps its type.
LEMMA SameTyped ==
    /\ LeaseTyped /\ UNCHANGED leaseVars => LeaseTyped'
    /\ ServerTyped /\ UNCHANGED <<tracked, killed, announced>> => ServerTyped'
    /\ BanTyped /\ UNCHANGED banVars => BanTyped'
    /\ JobsTyped /\ UNCHANGED jobs => JobsTyped'
    /\ OutsideTyped /\ UNCHANGED outside => OutsideTyped'
  BY DEF LeaseTyped, leaseVars, ServerTyped, BanTyped, banVars, JobsTyped, OutsideTyped

\* Kills that are under way go on, and a ban that is no longer pending is one.
KillsGoOn ==
    \A i \in IDs : /\ Killing(i) => Killing(i)'
                   /\ Doomed(i)' => Doomed(i) \/ Killing(i)'

\* So it is in a step that takes nothing from the goroutines and bans nobody.
LEMMA NoKillStops ==
    ASSUME UNCHANGED banVars, jobs \subseteq jobs'
    PROVE  KillsGoOn
  <1>1. \A i \in IDs : Killing(i) => Killing(i)'
    BY DEF Killing
  <1>2. \A i \in IDs : Doomed(i)' => Doomed(i)
    BY DEF Doomed, banVars
  <1> QED
    BY <1>1, <1>2 DEF KillsGoOn

\* A handler that does not move, and whose handle nobody else claims, is as safe as
\* it was.
LEMMA Stays ==
    ASSUME PInv, NEW t \in Publishers, Calm({t}), flow'[t] = flow[t], KillsGoOn
    PROVE  HandlerTyped(flow'[t]) /\ Follows(pubs'[t], flow'[t]) /\ KillComing(pubs[t], flow[t])'
  <1>1. HandlerTyped(flow'[t]) /\ Follows(pubs'[t], flow'[t])
    BY Parts DEF Calm, Follows
  <1>2. ASSUME flow[t].at \in {"binding", "live"}, Doomed(flow[t].id)', ~pubs'[t].closed
        PROVE  Killing(flow[t].id)'
    <2>1. flow[t].id \in IDs
      BY <1>2, Parts DEF HandlerTyped
    <2>2. ~pubs[t].closed
      BY <1>2 DEF Calm
    <2>3. PICK i \in IDs : i = flow[t].id
      BY <2>1
    <2>4. i \in bans' /\ i \notin pending'
      BY <1>2, <2>3 DEF Doomed
    <2>5. Doomed(i)'
      BY <2>4 DEF Doomed
    <2>6. Killing(i)'
      <3>1. Doomed(i) => Killing(i)
        BY <1>2, <2>2, <2>3, Parts DEF KillComing, Spared
      <3> QED
        BY <2>5, <3>1 DEF KillsGoOn
    <2> QED
      BY <2>3, <2>6 DEF Killing
  <1> QED
    BY <1>1, <1>2 DEF KillComing, Spared

\* Handles that are left alone by all are left alone by some.
LEMMA CalmParts ==
    ASSUME Calm(Sessions), NEW s \in Publishers
    PROVE  Calm(Publishers) /\ Calm(Publishers \ {s}) /\ Calm({s})
  BY DEF Calm, Publishers

\* Going live, or staying so, lets no kill be forgotten.
LEMMA KillStays ==
    ASSUME PInv, NEW t \in Publishers, Calm({t}), KillsGoOn,
           flow[t].at \in {"binding", "live"}, flow'[t].id = flow[t].id
    PROVE  KillComing(pubs[t], flow[t])'
  <1> SUFFICES ASSUME Doomed(flow[t].id)', ~pubs'[t].closed
               PROVE  Killing(flow[t].id)'
    BY DEF KillComing, Spared
  <1>1. PICK i \in IDs : i = flow[t].id
    BY Parts DEF HandlerTyped
  <1>2. Doomed(i)'
    BY <1>1 DEF Doomed
  <1>3. ~pubs[t].closed
    BY DEF Calm
  <1>4. Doomed(i) => Killing(i)
    BY <1>1, <1>3, Parts DEF KillComing, Spared
  <1>5. Killing(i)'
    BY <1>2, <1>4 DEF KillsGoOn
  <1> QED
    BY <1>1, <1>5 DEF Killing

\* One handler moves: it knows what it needs to know at its next step, and it goes
\* live only if its broadcast is not banned.
LEMMA Moves ==
    ASSUME PInv, NEW s \in Publishers, NEW h, flow' = [flow EXCEPT ![s] = h],
           HandlerTyped(h), Follows(pubs'[s], h), Calm(Publishers \ {s}), KillsGoOn,
           h.at \in {"binding", "live"} =>
               \/ h.id \notin bans'
               \/ flow[s].at \in {"binding", "live"} /\ h.id = flow[s].id /\ Calm({s}),
           Reg!HInv', Typed'
    PROVE  PInv'
  <1>1. flow \in [Publishers -> Handlers]
    BY DEF PInv, HandlersTyped
  <1>2. flow'[s] = h /\ \A t \in Publishers \ {s} : flow'[t] = flow[t]
    BY <1>1
  <1>3. flow' \in [Publishers -> Handlers]
    BY <1>1 DEF HandlerTyped
  <1>4. KillComing(pubs[s], flow[s])'
    <2>1. CASE h.at \notin {"binding", "live"} \/ h.id \notin bans'
      BY <1>2, <2>1 DEF KillComing, Spared, Doomed
    <2>2. CASE flow[s].at \in {"binding", "live"} /\ h.id = flow[s].id /\ Calm({s})
      BY <1>2, <2>2, KillStays
    <2> QED
      BY <2>1, <2>2
  <1>5. ASSUME NEW t \in Publishers
        PROVE  /\ HandlerTyped(flow'[t]) /\ Follows(pubs'[t], flow'[t])
               /\ KillComing(pubs[t], flow[t])'
    <2>1. CASE t = s
      BY <1>2, <1>4, <2>1
    <2>2. CASE t # s
      <3>1. Calm({t})
        BY <2>2 DEF Calm
      <3> QED
        BY <1>2, <2>2, <3>1, Stays
    <2> QED
      BY <2>1, <2>2
  <1>6. HandlersTyped' /\ HandlesFollowed'
    BY <1>3, <1>5 DEF HandlersTyped, HandlesFollowed, HandlerTyped, Follows, Holding
  <1>7. KillsComing'
    BY <1>5 DEF KillsComing
  <1> QED
    BY <1>6, <1>7 DEF PInv

\* Nobody's handler moves.
LEMMA NobodyMoves ==
    ASSUME PInv, Calm(Sessions) \/ Calm(Publishers), UNCHANGED flow, KillsGoOn,
           Reg!HInv', Typed'
    PROVE  PInv'
  <1>1. ASSUME NEW t \in Publishers
        PROVE  /\ HandlerTyped(flow'[t]) /\ Follows(pubs'[t], flow'[t])
               /\ KillComing(pubs[t], flow[t])'
    <2>1. Calm({t})
      BY DEF Calm, Publishers
    <2> QED
      BY <2>1, Stays
  <1>2. HandlersTyped' /\ HandlesFollowed'
    BY <1>1 DEF PInv, HandlersTyped, HandlesFollowed, HandlerTyped, Follows, Holding
  <1>3. KillsComing'
    BY <1>1 DEF KillsComing
  <1> QED
    BY <1>2, <1>3 DEF PInv

\* A handler moves that touches nothing but slots and Leases.
LEMMA HandlerStep ==
    ASSUME PInv, NEW s \in Publishers, NEW h, flow' = [flow EXCEPT ![s] = h],
           HandlerTyped(h), h.at \notin {"binding", "live"},
           Follows(pubs'[s], h), Calm(Publishers \ {s}), Reg!HInv', LeaseTyped',
           UNCHANGED <<tracked, killed, announced, banVars, jobs, outside>>
    PROVE  PInv'
  <1>1. KillsGoOn
    BY NoKillStops
  <1>2. Typed'
    BY Parts, SameTyped DEF Typed
  <1> QED
    BY <1>1, <1>2, Moves

\* A handler that has its broadcast goes on with it; one that cannot have a handle
\* may do as it likes.
LEMMA FollowsOn ==
    ASSUME PInv, NEW s \in Publishers, Calm({s}), NEW h,
           ~Holding(flow[s]) \/ (h.id = flow[s].id /\ Holding(h))
    PROVE  Follows(pubs'[s], h)
  BY Parts DEF Follows, Calm

\* So it does in a step that leaves the registry alone.
LEMMA QuietHandler ==
    ASSUME PInv, NEW s \in Publishers, NEW h, flow' = [flow EXCEPT ![s] = h],
           HandlerTyped(h), h.at \notin {"binding", "live"},
           ~Holding(flow[s]) \/ (h.id = flow[s].id /\ Holding(h)),
           UNCHANGED hubVars, LeaseTyped',
           UNCHANGED <<tracked, killed, announced, banVars, jobs, outside>>
    PROVE  PInv'
  <1>1. Reg!HInv' /\ Calm(Sessions)
    BY Parts, SameHubFacts
  <1>2. Follows(pubs'[s], h) /\ Calm(Publishers \ {s})
    BY <1>1, CalmParts, FollowsOn
  <1> QED
    BY <1>1, <1>2, HandlerStep

\* The step after Goto and after CloseThen.
LEMMA GotoFacts ==
    ASSUME PInv, NEW s \in Publishers, NEW step \in Steps
    PROVE  /\ Went(flow[s], step) \in Handlers /\ Went(flow[s], step).at = step
           /\ step # "done" => /\ Went(flow[s], step).id = flow[s].id
                               /\ Went(flow[s], step).then = flow[s].then
           /\ Goto(s, step) => flow' = [flow EXCEPT ![s] = Went(flow[s], step)]
  <1>1. flow[s] \in Handlers /\ flow \in [Publishers -> Handlers]
    BY DEF PInv, HandlersTyped
  <1>2. CASE step = "done"
    <2>1. NewHandler \in Handlers
      BY DEF NewHandler, Handlers, Steps
    <2>2. PICK h : h = [NewHandler EXCEPT !.at = "done"]
      OBVIOUS
    <2>3. h \in Handlers /\ h.at = "done"
      BY <2>1, <2>2 DEF Handlers, Steps
    <2>4. Went(flow[s], step) = h
      BY <1>2, <2>2 DEF Went
    <2>5. Goto(s, step) => flow' = [flow EXCEPT ![s] = Went(flow[s], step)]
      BY <1>1 DEF Goto
    <2> QED
      BY <1>2, <2>3, <2>4, <2>5
  <1>3. CASE step # "done"
    <2>1. PICK h : h = [flow[s] EXCEPT !.at = step]
      OBVIOUS
    <2>2. Went(flow[s], step) = h
      BY <1>3, <2>1 DEF Went
    <2>3. h \in Handlers /\ h.at = step /\ h.id = flow[s].id /\ h.then = flow[s].then
      BY <1>1, <2>1 DEF Handlers
    <2> QED
      BY <1>1, <2>2, <2>3 DEF Goto
  <1> QED
    BY <1>2, <1>3

\* The step after a change of step and of what follows it.
Turned(h, step, next) == [h EXCEPT !.at = step, !.then = next]

\* It is of the same broadcast.
LEMMA ThenFacts ==
    ASSUME PInv, NEW s \in Publishers, NEW step \in Steps, NEW next \in Steps
    PROVE  LET h == Turned(flow[s], step, next) IN
           h \in Handlers /\ h.at = step /\ h.then = next /\ h.id = flow[s].id
  BY Parts DEF Handlers, Turned

\* A handler that has claimed a slot closes it and goes on, or ends.
LEMMA CloseThenKeeps ==
    ASSUME PInv, NEW s \in Publishers, NEW next \in {"done", "ending"}, CloseThen(s, next),
           Holding(flow[s]), UNCHANGED hubVars, LeaseTyped',
           UNCHANGED <<tracked, killed, announced, banVars, jobs, outside>>
    PROVE  PInv'
  <1>1. PICK h : /\ h = Turned(flow[s], "closing", next)
                 /\ h \in Handlers /\ h.at = "closing" /\ h.then = next /\ h.id = flow[s].id
    <2>1. "closing" \in Steps /\ next \in Steps
      BY DEF Steps
    <2> QED
      BY <2>1, ThenFacts
  <1>2. flow' = [flow EXCEPT ![s] = h]
    <2>1. flow \in [Publishers -> Handlers]
      BY DEF PInv, HandlersTyped
    <2> QED
      BY <1>1, <2>1 DEF CloseThen, Turned
  <1>3. h.id \in IDs
    BY <1>1, Parts DEF Holding, HandlerTyped
  <1>4. HandlerTyped(h) /\ Holding(h)
    BY <1>1, <1>3 DEF HandlerTyped, Holding
  <1> QED
    BY <1>1, <1>2, <1>4, QuietHandler

\* A handler goes on to a step that has no slot to look after, or keeps its own.
LEMMA GotoKeeps ==
    ASSUME PInv, NEW s \in Publishers, NEW step \in Steps, Goto(s, step),
           step \notin {"binding", "live", "closing", "gracing", "erasing"},
           step \in {"start", "minting", "done"} \/ flow[s].id \in IDs,
           \/ ~Holding(flow[s])
           \/ step \in {"slotted", "claiming", "drawn", "tracking", "rechecking",
                        "untracking", "stopping"},
           UNCHANGED hubVars, LeaseTyped',
           UNCHANGED <<tracked, killed, announced, banVars, jobs, outside>>
    PROVE  PInv'
  <1>1. PICK h : h = Went(flow[s], step)
    OBVIOUS
  <1>2. /\ h \in Handlers /\ h.at = step
        /\ step # "done" => h.id = flow[s].id /\ h.then = flow[s].then
        /\ flow' = [flow EXCEPT ![s] = h]
    BY <1>1, GotoFacts
  <1>3. HandlerTyped(h)
    BY <1>2 DEF HandlerTyped
  <1>4. ~Holding(flow[s]) \/ (h.id = flow[s].id /\ Holding(h))
    BY <1>2 DEF Holding
  <1> QED
    BY <1>2, <1>3, <1>4, QuietHandler

--------------------------------------------------------------------------------
(* Claiming a slot and a Lease *)

\* What a handler's step says of it.
LEMMA AtFacts ==
    ASSUME PInv, NEW s \in Publishers, NEW step, At(s, step)
    PROVE  /\ flow[s].at = step /\ s \in Sessions
           /\ step \notin {"start", "minting", "done"} => flow[s].id \in IDs
           /\ step \notin {"slotted", "claiming", "drawn", "tracking", "rechecking", "binding",
                           "live", "untracking", "closing", "stopping", "gracing"} =>
                 ~Holding(flow[s])
  BY Parts DEF At, HandlerTyped, Holding

\* A handler has a broadcast, and if need be waits for its pull to go.
LEMMA ResumeKeeps ==
    ASSUME PInv, NEW s \in Publishers, NEW i \in IDs, Resume(s, i)
    PROVE  PInv'
  <1>1. flow[s].at = "start" /\ ~Holding(flow[s])
    BY AtFacts DEF Resume
  <1>2. PICK h : h = [flow[s] EXCEPT !.at = "resuming", !.id = i]
    OBVIOUS
  <1>3. h \in Handlers /\ h.at = "resuming" /\ h.id = i
    BY <1>2, Parts DEF Handlers, Steps
  <1>4. flow' = [flow EXCEPT ![s] = h]
    <2>1. flow \in [Publishers -> Handlers]
      BY DEF PInv, HandlersTyped
    <2> QED
      BY <1>2, <2>1 DEF Resume
  <1>5. Reg!HInv' /\ Calm(Sessions)
    <2>1. Hub!Close(Pull) \/ UNCHANGED hubVars
      BY DEF Resume
    <2>2. Pull \in Sessions
      BY PublishFlowAssumption
    <2> QED
      BY <2>1, <2>2, Parts, CloseFacts, SameHubFacts
  <1>6. Follows(pubs'[s], h) /\ Calm(Publishers \ {s})
    BY <1>1, <1>5, CalmParts, FollowsOn
  <1>7. UNCHANGED <<leaseVars, tracked, killed, announced, banVars, jobs, outside>>
    BY DEF Resume
  <1>8. HandlerTyped(h)
    BY <1>3 DEF HandlerTyped
  <1> QED
    BY <1>3, <1>4, <1>5, <1>6, <1>7, <1>8, Parts, SameTyped, HandlerStep

\* A slot is claimed: from here the session's handle is followed.
LEMMA ClaimKeeps ==
    ASSUME PInv, NEW s \in Publishers, NEW i \in IDs, NEW h, h \in Handlers,
           h.at \in {"slotted", "claiming", "drawn"}, h.id = i,
           flow' = [flow EXCEPT ![s] = h],
           Hub!StartPublish(s, i) \/ Hub!ResumePublish(s, i) \/ Hub!TakeOverPublish(s, i),
           UNCHANGED <<leaseVars, tracked, killed, announced, banVars, jobs, outside>>
    PROVE  PInv'
  <1>1. Reg!HInv' /\ pubs'[s].id = i /\ Calm(Sessions \ {s})
    BY Parts, ClaimFacts
  <1>2. Follows(pubs'[s], h)
    BY <1>1 DEF Follows, Holding
  <1>3. Calm(Publishers \ {s})
    BY <1>1 DEF Calm, Publishers
  <1>4. HandlerTyped(h)
    BY DEF HandlerTyped
  <1> QED
    BY <1>1, <1>2, <1>3, <1>4, Parts, SameTyped, HandlerStep

\* Nothing but the registry and the handlers is touched.
LEMMA LeasesKept ==
    ASSUME PInv, UNCHANGED leaseVars
    PROVE  LeaseTyped'
  BY Parts, SameTyped

\* ... by a resume, or by taking it over.
LEMMA ClaimSlotKeeps ==
    ASSUME PInv, NEW s \in Publishers, ClaimSlot(s) \/ TakeOver(s)
    PROVE  PInv'
  <1>1. flow[s].id \in IDs /\ ~Holding(flow[s])
    BY AtFacts DEF ClaimSlot, TakeOver
  <1>2. UNCHANGED <<leaseVars, tracked, killed, announced, banVars, jobs, outside>>
    BY DEF ClaimSlot, TakeOver
  <1>3. "slotted" \in Steps /\ "claiming" \in Steps /\ "ousting" \in Steps /\ "done" \in Steps
    BY DEF Steps
  <1>4. ASSUME NEW step \in {"slotted", "claiming"}, Goto(s, step),
               Hub!ResumePublish(s, flow[s].id) \/ Hub!TakeOverPublish(s, flow[s].id)
        PROVE  PInv'
    <2>1. PICK h : h = Went(flow[s], step)
      OBVIOUS
    <2>2. h \in Handlers /\ h.at = step /\ h.id = flow[s].id /\ flow' = [flow EXCEPT ![s] = h]
      BY <1>3, <1>4, <2>1, GotoFacts
    <2> QED
      BY <1>1, <1>2, <1>4, <2>2, ClaimKeeps
  <1>5. ASSUME NEW step \in {"ousting", "done"}, Goto(s, step), UNCHANGED hubVars
        PROVE  PInv'
    BY <1>1, <1>2, <1>3, <1>5, LeasesKept, GotoKeeps
  <1> QED
    BY <1>4, <1>5 DEF ClaimSlot, TakeOver

\* A drawn ID is claimed, or there is no room.
LEMMA DrawKeeps ==
    ASSUME PInv, NEW s \in Publishers,
           (\E i \in IDs : DrawID(s, i)) \/ DrawRefused(s) \/ Mint(s)
    PROVE  PInv'
  <1>1. UNCHANGED <<leaseVars, tracked, killed, announced, banVars, jobs, outside>>
    BY DEF DrawID, DrawRefused, Mint
  <1>2. ASSUME NEW i \in IDs, DrawID(s, i) PROVE PInv'
    <2>1. PICK d : d = flow[s].draws + 1
      OBVIOUS
    <2>2. PICK h : h = [flow[s] EXCEPT !.at = "drawn", !.id = i, !.draws = d]
      OBVIOUS
    <2>3. d \in Nat
      BY <2>1, Parts DEF Handlers
    <2>4. h \in Handlers /\ h.at = "drawn" /\ h.id = i
      BY <2>2, <2>3, Parts DEF Handlers, Steps
    <2>5. flow' = [flow EXCEPT ![s] = h]
      <3>1. flow \in [Publishers -> Handlers]
        BY DEF PInv, HandlersTyped
      <3> QED
        BY <1>2, <2>1, <2>2, <3>1 DEF DrawID
    <2> QED
      BY <1>1, <1>2, <2>4, <2>5, ClaimKeeps DEF DrawID
  <1>3. CASE DrawRefused(s) \/ Mint(s)
    <2>1. ~Holding(flow[s])
      BY <1>3, AtFacts DEF DrawRefused, Mint
    <2>2. "minting" \in Steps /\ "done" \in Steps
      BY DEF Steps
    <2>3. PICK step \in {"minting", "done"} : Goto(s, step)
      BY <1>3 DEF DrawRefused, Mint
    <2>4. UNCHANGED hubVars
      BY <1>3 DEF DrawRefused, Mint
    <2> QED
      BY <1>1, <2>1, <2>2, <2>3, <2>4, LeasesKept, GotoKeeps
  <1> QED
    BY <1>2, <1>3

\* The Lease of a claimed slot; a handler that is refused gives the slot back.
LEMMA ClaimLeaseKeeps ==
    ASSUME PInv, NEW s \in Publishers,
           ClaimForResume(s) \/ ClaimForTakeOver(s) \/ ClaimForMint(s)
    PROVE  PInv'
  <1>1. flow[s].at \in {"slotted", "claiming", "drawn"} /\ flow[s].id \in IDs
    BY AtFacts DEF ClaimForResume, ClaimForTakeOver, ClaimForMint
  <1>2. UNCHANGED <<hubVars, tracked, killed, announced, banVars, jobs, outside>>
    BY DEF ClaimForResume, ClaimForTakeOver, ClaimForMint
  <1>3. LeaseTyped'
    <2>1. ClaimLease(flow[s].id) \/ ClaimUnanswered(flow[s].id) \/ UNCHANGED leaseVars
      BY DEF ClaimForResume, ClaimForTakeOver, ClaimForMint
    <2> QED
      BY <1>1, <2>1, Parts, ClaimLeaseTyped, LeasesKept
  <1>4. Goto(s, "tracking") \/ \E next \in {"done", "ending"} : CloseThen(s, next)
    BY DEF ClaimForResume, ClaimForTakeOver, ClaimForMint, Upgrade
  <1>5. Holding(flow[s])
    BY <1>1 DEF Holding
  <1>6. CASE Goto(s, "tracking")
    <2>1. "tracking" \in Steps
      BY DEF Steps
    <2> QED
      BY <1>1, <1>2, <1>3, <1>6, <2>1, GotoKeeps
  <1>7. CASE \E next \in {"done", "ending"} : CloseThen(s, next)
    BY <1>2, <1>3, <1>5, <1>7, CloseThenKeeps
  <1> QED
    BY <1>4, <1>6, <1>7

--------------------------------------------------------------------------------
(* Going live *)

\* The session is entered among the publishers.
LEMMA TrackKeeps ==
    ASSUME PInv, NEW s \in Publishers, trackPublisher(s)
    PROVE  PInv'
  <1>1. flow[s].at = "tracking" /\ flow[s].id \in IDs /\ Holding(flow[s])
    BY AtFacts DEF trackPublisher, Holding
  <1>2. PICK h : h = Went(flow[s], "rechecking")
    OBVIOUS
  <1>3. h \in Handlers /\ h.at = "rechecking" /\ h.id = flow[s].id /\ flow' = [flow EXCEPT ![s] = h]
    <2>1. "rechecking" \in Steps
      BY DEF Steps
    <2> QED
      BY <1>2, <2>1, GotoFacts DEF trackPublisher
  <1>4. HandlerTyped(h) /\ Holding(h)
    BY <1>1, <1>3 DEF HandlerTyped, Holding
  <1>5. UNCHANGED <<hubVars, leaseVars, killed, announced, banVars, jobs, outside>>
    BY DEF trackPublisher
  <1>6. Reg!HInv' /\ Calm(Sessions)
    BY <1>5, Parts, SameHubFacts
  <1>7. Follows(pubs'[s], h) /\ Calm(Publishers \ {s})
    BY <1>3, <1>4, <1>6, CalmParts, FollowsOn
  <1>8. ServerTyped'
    BY <1>1, <1>5, Parts DEF ServerTyped, trackPublisher
  <1>9. Typed'
    BY <1>5, <1>8, Parts, SameTyped DEF Typed
  <1>10. KillsGoOn
    BY <1>5, NoKillStops
  <1> QED
    BY <1>3, <1>4, <1>6, <1>7, <1>9, <1>10, Moves

\* The second check lets nobody on whose broadcast is banned.
LEMMA RecheckKeeps ==
    ASSUME PInv, NEW s \in Publishers, Recheck(s)
    PROVE  PInv'
  <1>1. flow[s].at = "rechecking" /\ flow[s].id \in IDs /\ Holding(flow[s])
    BY AtFacts DEF Recheck, Holding
  <1>2. UNCHANGED <<hubVars, leaseVars, tracked, killed, announced, banVars, jobs, outside>>
    BY DEF Recheck
  <1>3. "binding" \in Steps /\ "untracking" \in Steps
    BY DEF Steps
  <1>4. CASE Banned(s, flow[s].id)
    <2>1. Goto(s, "untracking")
      BY <1>4 DEF Recheck
    <2> QED
      BY <1>1, <1>2, <1>3, <2>1, LeasesKept, GotoKeeps
  <1>5. CASE ~Banned(s, flow[s].id)
    <2>1. PICK h : h = Went(flow[s], "binding")
      OBVIOUS
    <2>2. Goto(s, "binding")
      BY <1>5 DEF Recheck
    <2>3. h \in Handlers /\ h.at = "binding" /\ h.id = flow[s].id /\ flow' = [flow EXCEPT ![s] = h]
      BY <1>3, <2>1, <2>2, GotoFacts
    <2>4. HandlerTyped(h) /\ Holding(h)
      BY <1>1, <2>3 DEF HandlerTyped, Holding
    <2>5. h.id \notin bans'
      BY <1>2, <1>5, <2>3 DEF Banned, banVars
    <2>6. Reg!HInv' /\ Calm(Sessions)
      BY <1>2, Parts, SameHubFacts
    <2>7. Follows(pubs'[s], h) /\ Calm(Publishers \ {s})
      BY <2>3, <2>4, <2>6, CalmParts, FollowsOn
    <2>8. Typed' /\ KillsGoOn
      BY <1>2, Parts, SameTyped, NoKillStops DEF Typed
    <2> QED
      BY <2>3, <2>4, <2>5, <2>6, <2>7, <2>8, Moves
  <1> QED
    BY <1>4, <1>5

\* A session that still has its slot goes live.
LEMMA BindKeeps ==
    ASSUME PInv, NEW s \in Publishers, Bind(s)
    PROVE  PInv'
  <1>1. flow[s].at = "binding" /\ flow[s].id \in IDs /\ Holding(flow[s]) /\ s \in Sessions
    BY AtFacts DEF Bind, Holding
  <1>2. Reg!HInv' /\ Calm(Sessions) /\ (pubs[s].closed => pubs'[s].id = NoID)
    BY <1>1, Parts, BindFacts DEF Bind
  <1>3. UNCHANGED <<leaseVars, tracked, killed, banVars, jobs, outside>>
    BY DEF Bind
  <1>4. KillsGoOn
    BY <1>3, NoKillStops
  <1>5. ServerTyped'
    <2>1. announced' \in {announced, announced \cup {flow[s].id}}
      BY DEF Bind
    <2> QED
      BY <1>1, <1>3, <2>1, Parts DEF ServerTyped
  <1>6. Typed'
    BY <1>3, <1>5, Parts, SameTyped DEF Typed
  <1>7. PICK h : /\ h \in Handlers /\ h.at \in {"untracking", "live"} /\ h.id = flow[s].id
                 /\ flow' = [flow EXCEPT ![s] = h]
    <2>1. "untracking" \in Steps /\ "live" \in Steps
      BY DEF Steps
    <2>2. PICK step \in {"untracking", "live"} : Goto(s, step)
      BY DEF Bind
    <2>3. PICK h : h = Went(flow[s], step)
      OBVIOUS
    <2>4. /\ h \in Handlers /\ h.at = step /\ h.id = flow[s].id
          /\ flow' = [flow EXCEPT ![s] = h]
      BY <2>1, <2>2, <2>3, GotoFacts
    <2> QED
      BY <2>4
  <1>8. HandlerTyped(h) /\ Holding(h)
    BY <1>1, <1>7 DEF HandlerTyped, Holding
  <1>9. Follows(pubs'[s], h) /\ Calm(Publishers \ {s}) /\ Calm({s})
    BY <1>2, <1>7, <1>8, CalmParts, FollowsOn
  <1> QED
    BY <1>1, <1>2, <1>4, <1>6, <1>7, <1>8, <1>9, Moves

--------------------------------------------------------------------------------
(* Leaving *)

\* The session is gone.
LEMMA LeaveKeeps ==
    ASSUME PInv, NEW s \in Publishers, Leave(s)
    PROVE  PInv'
  <1>1. flow[s].id \in IDs
    BY AtFacts DEF Leave
  <1>2. "untracking" \in Steps
    BY DEF Steps
  <1>3. Goto(s, "untracking") /\
        UNCHANGED <<hubVars, leaseVars, tracked, killed, announced, banVars, jobs, outside>>
    BY DEF Leave
  <1> QED
    BY <1>1, <1>2, <1>3, LeasesKept, GotoKeeps

\* The broadcaster pressed Stop: the handle stays until the removal.
LEMMA LeaveStoppedKeeps ==
    ASSUME PInv, NEW s \in Publishers, LeaveStopped(s)
    PROVE  PInv'
  <1>1. flow[s].at = "live" /\ flow[s].id \in IDs /\ Holding(flow[s]) /\ s \in Sessions
    BY AtFacts DEF LeaveStopped, Holding
  <1>2. PICK step \in {"stopping", "gracing"} :
           flow' = [flow EXCEPT ![s].at = step, ![s].then = "stopping"]
    BY DEF LeaveStopped
  <1>3. PICK h : h = Turned(flow[s], step, "stopping")
    OBVIOUS
  <1>4. h \in Handlers /\ h.at = step /\ h.then = "stopping" /\ h.id = flow[s].id
    <2>1. step \in Steps /\ "stopping" \in Steps
      BY DEF Steps
    <2> QED
      BY <1>3, <2>1, ThenFacts
  <1>5. flow' = [flow EXCEPT ![s] = h]
    <2>1. flow \in [Publishers -> Handlers]
      BY DEF PInv, HandlersTyped
    <2> QED
      BY <1>2, <1>3, <2>1 DEF Turned
  <1>6. HandlerTyped(h) /\ Holding(h)
    BY <1>1, <1>4 DEF HandlerTyped, Holding
  <1>7. Reg!HInv' /\ Calm(Sessions)
    BY <1>1, Parts, StopFacts DEF LeaveStopped
  <1>8. Follows(pubs'[s], h) /\ Calm(Publishers \ {s})
    BY <1>4, <1>6, <1>7, CalmParts, FollowsOn
  <1>9. UNCHANGED <<leaseVars, tracked, killed, announced, banVars, jobs, outside>>
    BY DEF LeaveStopped
  <1> QED
    BY <1>4, <1>5, <1>6, <1>7, <1>8, <1>9, LeasesKept, HandlerStep

\* The entry is removed; the slot is next.
LEMMA UntrackKeeps ==
    ASSUME PInv, NEW s \in Publishers, Untrack(s)
    PROVE  PInv'
  <1>1. flow[s].at = "untracking" /\ flow[s].id \in IDs /\ Holding(flow[s])
    BY AtFacts DEF Untrack, Holding
  <1>2. PICK h : h = Turned(flow[s], "closing", "done")
    OBVIOUS
  <1>3. h \in Handlers /\ h.at = "closing" /\ h.then = "done" /\ h.id = flow[s].id
    <2>1. "closing" \in Steps /\ "done" \in Steps
      BY DEF Steps
    <2> QED
      BY <1>2, <2>1, ThenFacts
  <1>4. flow' = [flow EXCEPT ![s] = h]
    <2>1. flow \in [Publishers -> Handlers]
      BY DEF PInv, HandlersTyped
    <2> QED
      BY <1>2, <2>1 DEF Untrack, CloseThen, Turned
  <1>5. HandlerTyped(h) /\ Holding(h)
    BY <1>1, <1>3 DEF HandlerTyped, Holding
  <1>6. UNCHANGED <<hubVars, leaseVars, killed, announced, banVars, jobs, outside>>
    BY DEF Untrack
  <1>7. Reg!HInv' /\ Calm(Sessions)
    BY <1>6, Parts, SameHubFacts
  <1>8. Follows(pubs'[s], h) /\ Calm(Publishers \ {s})
    BY <1>3, <1>5, <1>7, CalmParts, FollowsOn
  <1>9. ServerTyped'
    <2>1. PICK x : x = IF tracked[flow[s].id] = s THEN NoSession ELSE tracked[flow[s].id]
      OBVIOUS
    <2>2. tracked' = [tracked EXCEPT ![flow[s].id] = x]
      BY <2>1 DEF Untrack
    <2>3. x \in Publishers \cup {NoSession}
      BY <1>1, <2>1, Parts DEF ServerTyped
    <2> QED
      BY <1>1, <1>6, <2>2, <2>3, Parts DEF ServerTyped
  <1>10. Typed' /\ KillsGoOn
    BY <1>6, <1>9, Parts, SameTyped, NoKillStops DEF Typed
  <1> QED
    BY <1>3, <1>4, <1>5, <1>7, <1>8, <1>10, Moves

\* pub.Close gives the handle back, whatever follows.
LEMMA CloseSlotKeeps ==
    ASSUME PInv, NEW s \in Publishers, CloseSlot(s)
    PROVE  PInv'
  <1>1. /\ flow[s].at = "closing" /\ flow[s].id \in IDs /\ s \in Sessions
        /\ flow[s].then \in {"done", "ending"}
    BY AtFacts, Parts DEF CloseSlot, HandlerTyped
  <1>2. PICK step \in {"done", "ending", "gracing"} : Goto(s, step)
    BY <1>1 DEF CloseSlot
  <1>3. PICK h : h = Went(flow[s], step)
    OBVIOUS
  <1>4. /\ h \in Handlers /\ h.at = step /\ flow' = [flow EXCEPT ![s] = h]
        /\ step # "done" => h.id = flow[s].id /\ h.then = flow[s].then
    <2>1. step \in Steps
      BY DEF Steps
    <2> QED
      BY <1>2, <1>3, <2>1, GotoFacts
  <1>5. HandlerTyped(h)
    BY <1>1, <1>4 DEF HandlerTyped
  <1>6. Reg!HInv' /\ Calm(Sessions) /\ pubs'[s].id = NoID
    <2>1. CASE Hub!Idle(s)
      BY <2>1, Parts, SameHubFacts DEF CloseSlot, Hub!Idle
    <2>2. CASE ~Hub!Idle(s)
      BY <1>1, <2>2, Parts, CloseFacts DEF CloseSlot
    <2> QED
      BY <2>1, <2>2
  <1>7. Follows(pubs'[s], h) /\ Calm(Publishers \ {s})
    BY <1>6, CalmParts DEF Follows
  <1>8. UNCHANGED <<leaseVars, tracked, killed, announced, banVars, jobs, outside>>
    BY DEF CloseSlot
  <1> QED
    BY <1>4, <1>5, <1>6, <1>7, <1>8, LeasesKept, HandlerStep

\* The hook of the close, and on.
LEMMA GraceHookKeeps ==
    ASSUME PInv, NEW s \in Publishers, GraceHook(s)
    PROVE  PInv'
  <1>1. /\ flow[s].at = "gracing" /\ flow[s].id \in IDs
        /\ flow[s].then \in {"done", "ending", "stopping"}
    BY AtFacts, Parts DEF GraceHook, HandlerTyped
  <1>2. Goto(s, flow[s].then)
    BY DEF GraceHook
  <1>3. flow[s].then \in Steps
    BY <1>1 DEF Steps
  <1>4. ~Holding(flow[s]) \/ flow[s].then = "stopping"
    BY <1>1 DEF Holding
  <1>5. LeaseTyped'
    BY <1>1, Parts, HookTyped DEF GraceHook
  <1>6. UNCHANGED <<hubVars, tracked, killed, announced, banVars, jobs, outside>>
    BY DEF GraceHook
  <1> QED
    BY <1>1, <1>2, <1>3, <1>4, <1>5, <1>6, GotoKeeps

\* A handler goes on after a removal, by way of its hook if there is one.
LEMMA AfterRemovalFacts ==
    ASSUME PInv, NEW s \in Publishers, NEW next \in {"minting", "done", "untracking"},
           flow[s].id \in IDs, AfterRemoval(s, next)
    PROVE  \E h : /\ flow' = [flow EXCEPT ![s] = h] /\ HandlerTyped(h)
                  /\ h.at \notin {"binding", "live"}
  <1>1. "erasing" \in Steps /\ next \in Steps
    BY DEF Steps
  <1>2. flow \in [Publishers -> Handlers]
    BY DEF PInv, HandlersTyped
  <1>3. CASE ExpiryHook(flow[s].id) = {}
    <2>1. PICK h : h = Went(flow[s], next)
      OBVIOUS
    <2>2. /\ h \in Handlers /\ h.at = next
          /\ next # "done" => h.id = flow[s].id
      BY <1>1, <2>1, GotoFacts
    <2>3. flow' = [flow EXCEPT ![s] = h]
      BY <1>2, <1>3, <2>1 DEF AfterRemoval
    <2>4. HandlerTyped(h)
      BY <2>2 DEF HandlerTyped
    <2> QED
      BY <2>2, <2>3, <2>4
  <1>4. CASE ExpiryHook(flow[s].id) # {}
    <2>1. PICK h : h = Turned(flow[s], "erasing", next)
      OBVIOUS
    <2>2. h \in Handlers /\ h.at = "erasing" /\ h.then = next /\ h.id = flow[s].id
      BY <1>1, <2>1, ThenFacts
    <2>3. flow' = [flow EXCEPT ![s] = h]
      BY <1>2, <1>4, <2>1 DEF AfterRemoval, Turned
    <2>4. HandlerTyped(h)
      BY <2>2 DEF HandlerTyped
    <2> QED
      BY <2>2, <2>3, <2>4
  <1> QED
    BY <1>3, <1>4

\* The hub of a refused claim ends, or that of a stopped session, whose handle goes
\* with it.
LEMMA RemovalKeeps ==
    ASSUME PInv, NEW s \in Publishers, EndRefused(s) \/ StopRemoves(s)
    PROVE  PInv'
  <1>1. flow[s].id \in IDs /\ s \in Sessions /\ (EndRefused(s) => ~Holding(flow[s]))
    BY AtFacts DEF EndRefused, StopRemoves
  <1>2. PICK h : /\ flow' = [flow EXCEPT ![s] = h] /\ HandlerTyped(h)
                 /\ h.at \notin {"binding", "live"}
    <2>1. PICK next \in {"minting", "done", "untracking"} : AfterRemoval(s, next)
      BY DEF EndRefused, StopRemoves
    <2> QED
      BY <1>1, <2>1, AfterRemovalFacts
  <1>3. Reg!HInv' /\ Calm(Sessions) /\ Follows(pubs'[s], h)
    <2>1. CASE EndRefused(s)
      <3>1. Hub!EndBroadcast(flow[s].id) \/ UNCHANGED hubVars
        BY <2>1 DEF EndRefused, EndIfAway
      <3>2. Reg!HInv' /\ Calm(Sessions)
        BY <1>1, <3>1, Parts, ExpiryFacts, SameHubFacts
      <3> QED
        BY <1>1, <2>1, <3>2, CalmParts, FollowsOn
    <2>2. CASE StopRemoves(s)
      <3>1. Reg!HInv' /\ Calm(Sessions) /\ pubs'[s].id = NoID
        BY <1>1, <2>2, Parts, StopFacts DEF StopRemoves
      <3> QED
        BY <3>1 DEF Follows
    <2> QED
      BY <2>1, <2>2
  <1>4. UNCHANGED <<leaseVars, tracked, killed, announced, banVars, jobs, outside>>
    BY DEF EndRefused, StopRemoves
  <1> QED
    BY <1>2, <1>3, <1>4, CalmParts, LeasesKept, HandlerStep

--------------------------------------------------------------------------------
(* Goroutines *)

\* What starts a goroutine.
LEMMA JobFacts ==
    ASSUME Reg!HInv, NEW i \in IDs
    PROVE  /\ \A step \in {"pull", "session", "hub", "endpull", "endhub", "lost", "deleted"} :
                 Job(i, step) \in Jobs /\ Job(i, step).id = i /\ Job(i, step).at = step
           /\ ExpiryHook(i) \subseteq Jobs
           /\ DeletionEvent(i) \subseteq Jobs
  <1>1. \A step \in {"pull", "session", "hub", "endpull", "endhub", "lost", "deleted"} :
           Job(i, step) \in Jobs /\ Job(i, step).id = i /\ Job(i, step).at = step
    BY DEF Job, Jobs
  <1>2. ExpiryHook(i) \subseteq Jobs
    <2>1. hubs[i].obj \in Nat
      BY RegFacts
    <2>2. [id |-> i, at |-> "erase", obj |-> hubs[i].obj] \in Jobs
      BY <2>1 DEF Jobs
    <2> QED
      BY <2>2 DEF ExpiryHook
  <1>3. DeletionEvent(i) \subseteq Jobs
    BY <1>1 DEF DeletionEvent
  <1> QED
    BY <1>1, <1>2, <1>3

\* A goroutine that kills nobody may end; one that is killing has to go on.
LEMMA SwapFacts ==
    ASSUME PInv, NEW j \in jobs, NEW S \in SUBSET Jobs, Swap(j, S), UNCHANGED banVars,
           \/ j.at \notin {"pull", "session", "hub"}
           \/ \E k \in S : k.id = j.id /\ k.at \in {"pull", "session", "hub"}
    PROVE  JobsTyped' /\ KillsGoOn /\ j \in Jobs /\ j.id \in IDs
  <1>1. JobsTyped' /\ j \in Jobs /\ j.id \in IDs
    BY Parts DEF JobsTyped, Swap, Jobs
  <1>2. ASSUME NEW i \in IDs, Killing(i) PROVE Killing(i)'
    <2>1. PICK k \in jobs : k.id = i /\ k.at \in {"pull", "session", "hub"}
      BY <1>2 DEF Killing
    <2>2. \E l \in jobs' : l.id = i /\ l.at \in {"pull", "session", "hub"}
      BY <2>1 DEF Swap
    <2> QED
      BY <2>2 DEF Killing
  <1>3. \A i \in IDs : Doomed(i)' => Doomed(i)
    BY DEF Doomed, banVars
  <1> QED
    BY <1>1, <1>2, <1>3 DEF KillsGoOn

\* A goroutine takes a step; no handler moves.
LEMMA JobStep ==
    ASSUME PInv, NEW j \in jobs, NEW S \in SUBSET Jobs, Swap(j, S),
           \/ j.at \notin {"pull", "session", "hub"}
           \/ \E k \in S : k.id = j.id /\ k.at \in {"pull", "session", "hub"},
           Reg!HInv', Calm(Sessions), LeaseTyped', ServerTyped',
           UNCHANGED <<flow, banVars, outside>>
    PROVE  PInv'
  <1>1. JobsTyped' /\ KillsGoOn
    BY SwapFacts
  <1>2. Typed'
    BY <1>1, Parts, SameTyped DEF Typed
  <1> QED
    BY <1>1, <1>2, NobodyMoves

\* A goroutine has a broadcast.
LEMMA JobParts ==
    ASSUME PInv, NEW j \in jobs
    PROVE  j \in Jobs /\ j.id \in IDs
  BY Parts DEF JobsTyped, Jobs

\* The hook of a removal deletes the Lease.
LEMMA HookErasesKeeps ==
    ASSUME PInv, NEW j \in jobs, HookErases(j)
    PROVE  PInv'
  <1>1. j.id \in IDs
    BY JobParts
  <1>2. LeaseTyped'
    BY <1>1, Parts, HookTyped DEF HookErases, DeleteLease
  <1>3. UNCHANGED <<hubVars, flow, tracked, killed, announced, banVars, outside>>
    BY DEF HookErases
  <1>4. DeletionEvent(j.id) \in SUBSET Jobs
    BY <1>1, Parts, JobFacts
  <1>5. Reg!HInv' /\ Calm(Sessions) /\ ServerTyped'
    BY <1>3, Parts, SameHubFacts, SameTyped
  <1>6. Swap(j, DeletionEvent(j.id)) /\ j.at \notin {"pull", "session", "hub"}
    BY DEF HookErases
  <1> QED
    BY <1>2, <1>3, <1>4, <1>5, <1>6, JobStep

\* So does a handler for the removal it made itself.
LEMMA HandlerErasesKeeps ==
    ASSUME PInv, NEW s \in Publishers, HandlerErases(s)
    PROVE  PInv'
  <1>1. /\ flow[s].at = "erasing" /\ flow[s].id \in IDs /\ ~Holding(flow[s])
        /\ flow[s].then \in {"minting", "done", "untracking"}
    BY AtFacts, Parts DEF HandlerErases, HandlerTyped
  <1>2. PICK h : h = Went(flow[s], flow[s].then)
    OBVIOUS
  <1>3. /\ h \in Handlers /\ h.at \in {"minting", "done", "untracking"}
        /\ h.at # "done" => h.id = flow[s].id
        /\ flow' = [flow EXCEPT ![s] = h]
    <2>1. PICK step \in {"minting", "done", "untracking"} : step = flow[s].then
      BY <1>1
    <2>2. step \in Steps /\ Goto(s, step) /\ h = Went(flow[s], step)
      BY <1>2, <2>1 DEF Steps, HandlerErases
    <2> QED
      BY <2>2, GotoFacts
  <1>4. HandlerTyped(h)
    BY <1>1, <1>3 DEF HandlerTyped
  <1>5. UNCHANGED <<hubVars, tracked, killed, announced, banVars, outside>>
    BY DEF HandlerErases
  <1>6. Reg!HInv' /\ Calm(Sessions)
    BY <1>5, Parts, SameHubFacts
  <1>7. Follows(pubs'[s], h) /\ Calm(Publishers \ {s})
    BY <1>1, <1>6, CalmParts, FollowsOn
  <1>8. LeaseTyped'
    BY <1>1, Parts, HookTyped DEF HandlerErases, DeleteLease
  <1>9. JobsTyped'
    BY <1>1, Parts, JobFacts DEF HandlerErases, JobsTyped
  <1>10. Typed'
    BY <1>5, <1>8, <1>9, Parts, SameTyped DEF Typed
  <1>11. KillsGoOn
    BY <1>5, NoKillStops DEF HandlerErases
  <1> QED
    BY <1>3, <1>4, <1>6, <1>7, <1>10, <1>11, Moves

\* Grace timers, and the removals they make.
LEMMA TimersKeep ==
    ASSUME PInv, (\E i \in IDs : GraceTimerFires(i)) \/ \E f \in firing : GraceExpires(f)
    PROVE  PInv'
  <1>1. CASE \E i \in IDs : GraceTimerFires(i)
    <2>1. PICK i \in IDs : GraceTimerFires(i)
      BY <1>1
    <2>2. Reg!HInv' /\ Calm(Sessions)
      BY <2>1, Parts, ExpiryFacts DEF GraceTimerFires
    <2>3. UNCHANGED <<leaseVars, flow, tracked, killed, announced, banVars, jobs, outside>>
      BY <2>1 DEF GraceTimerFires
    <2> QED
      BY <2>2, <2>3, Parts, SameTyped, NoKillStops, NobodyMoves DEF Typed
  <1>2. CASE \E f \in firing : GraceExpires(f)
    <2>1. PICK f \in firing : GraceExpires(f)
      BY <1>2
    <2>2. f.id \in IDs
      BY Parts, RegFacts DEF Hub!TypeOK
    <2>3. Hub!handleGraceExpiry(f)
      BY <2>1 DEF GraceExpires
    <2>4. Reg!HInv' /\ Calm(Sessions)
      BY <2>2, <2>3, Parts, ExpiryFacts
    <2>5. UNCHANGED <<leaseVars, flow, tracked, killed, announced, banVars, outside>>
          /\ jobs' = jobs \cup ExpiryHook(f.id)
      BY <2>1 DEF GraceExpires
    <2>6. JobsTyped'
      BY <2>2, <2>5, Parts, JobFacts DEF JobsTyped
    <2>7. KillsGoOn
      BY <2>5, NoKillStops
    <2> QED
      BY <2>4, <2>5, <2>6, <2>7, Parts, SameTyped, NobodyMoves DEF Typed
  <1> QED
    BY <1>1, <1>2

--------------------------------------------------------------------------------
(* Moderation *)

\* A ban is pending at first; its actuation starts a kill of the ID it is of.
LEMMA BansKeep ==
    ASSUME PInv, NEW t \in Targets, BanAdded(t) \/ HandleBanAdded(t)
    PROVE  PInv'
  <1>1. UNCHANGED <<hubVars, leaseVars, flow, tracked, killed, announced, outside>>
    BY DEF BanAdded, HandleBanAdded
  <1>2. Reg!HInv' /\ Calm(Sessions)
    BY <1>1, Parts, SameHubFacts
  <1>3. CASE BanAdded(t)
    <2>1. BanTyped' /\ UNCHANGED jobs
      BY <1>3, Parts DEF BanAdded, BanTyped
    <2>2. KillsGoOn
      BY <1>3 DEF BanAdded, KillsGoOn, Killing, Doomed
    <2> QED
      BY <1>1, <1>2, <2>1, <2>2, Parts, SameTyped, NobodyMoves DEF Typed
  <1>4. CASE HandleBanAdded(t)
    <2>1. /\ pending' = pending \ {t} /\ UNCHANGED bans
          /\ jobs' = jobs \cup {Job(i, "pull") : i \in IF t \in IDs THEN {t} ELSE publishersIn(t)}
      BY <1>4 DEF HandleBanAdded
    <2>2. BanTyped'
      BY <2>1, Parts DEF BanTyped
    <2>3. (IF t \in IDs THEN {t} ELSE publishersIn(t)) \subseteq IDs
      BY DEF publishersIn
    <2>4. JobsTyped'
      BY <2>1, <2>3, Parts, JobFacts DEF JobsTyped
    <2>5. ASSUME NEW i \in IDs PROVE Killing(i) => Killing(i)'
      BY <2>1 DEF Killing
    <2>6. ASSUME NEW i \in IDs, Doomed(i)', ~Doomed(i) PROVE Killing(i)'
      <3>1. i = t
        BY <2>1, <2>6 DEF Doomed
      <3>2. Job(i, "pull") \in jobs'
        BY <2>1, <3>1
      <3>3. Job(i, "pull").id = i /\ Job(i, "pull").at = "pull"
        BY Parts, JobFacts
      <3> QED
        BY <3>2, <3>3 DEF Killing
    <2>7. KillsGoOn
      BY <2>5, <2>6 DEF KillsGoOn
    <2> QED
      BY <1>1, <1>2, <2>2, <2>4, <2>7, Parts, SameTyped, NobodyMoves DEF Typed
  <1> QED
    BY <1>3, <1>4

\* The edge pull is stopped first.
LEMMA StopPullKeeps ==
    ASSUME PInv, NEW j \in jobs, StopPull(j)
    PROVE  PInv'
  <1>1. j.id \in IDs /\ j.at \in {"pull", "endpull"}
    BY JobParts DEF StopPull
  <1>2. UNCHANGED <<leaseVars, flow, tracked, killed, announced, banVars, outside>>
    BY DEF StopPull
  <1>3. Reg!HInv' /\ Calm(Sessions)
    <2>1. Hub!Close(Pull) \/ UNCHANGED hubVars
      BY DEF StopPull
    <2>2. Pull \in Sessions
      BY PublishFlowAssumption
    <2> QED
      BY <2>1, <2>2, Parts, CloseFacts, SameHubFacts
  <1>4. PICK step \in {"session", "endhub"} :
           Swap(j, {Job(j.id, step)}) /\ (j.at = "pull" => step = "session")
    BY DEF StopPull
  <1>5. Job(j.id, step) \in Jobs /\ Job(j.id, step).id = j.id /\ Job(j.id, step).at = step
    BY <1>1, Parts, JobFacts
  <1>6. {Job(j.id, step)} \in SUBSET Jobs
    BY <1>5
  <1>7. \/ j.at \notin {"pull", "session", "hub"}
        \/ \E k \in {Job(j.id, step)} : k.id = j.id /\ k.at \in {"pull", "session", "hub"}
    BY <1>1, <1>4, <1>5
  <1>8. LeaseTyped' /\ ServerTyped'
    BY <1>2, Parts, SameTyped
  <1> QED
    BY <1>2, <1>3, <1>4, <1>6, <1>7, <1>8, JobStep

\* The tracked session of a broadcast is closed.
LEMMA CloseTrackedTyped ==
    ASSUME PInv, NEW i \in IDs, CloseTracked(i), UNCHANGED announced
    PROVE  ServerTyped'
  <1>1. tracked[i] \in Publishers \cup {NoSession}
    BY Parts DEF ServerTyped
  <1> QED
    BY <1>1, Parts DEF ServerTyped, CloseTracked

\* Then the tracked session.
LEMMA KillSessionKeeps ==
    ASSUME PInv, NEW j \in jobs, KillSession(j)
    PROVE  PInv'
  <1>1. j.id \in IDs
    BY JobParts
  <1>2. UNCHANGED <<hubVars, leaseVars, flow, announced, banVars, outside>>
    BY DEF KillSession
  <1>3. Reg!HInv' /\ Calm(Sessions)
    BY <1>2, Parts, SameHubFacts
  <1>4. ServerTyped'
    BY <1>1, <1>2, CloseTrackedTyped DEF KillSession
  <1>5. Job(j.id, "hub") \in Jobs /\ Job(j.id, "hub").id = j.id /\ Job(j.id, "hub").at = "hub"
    BY <1>1, Parts, JobFacts
  <1>6. {Job(j.id, "hub")} \in SUBSET Jobs /\ Swap(j, {Job(j.id, "hub")})
    BY <1>5 DEF KillSession
  <1> QED
    BY <1>2, <1>3, <1>4, <1>5, <1>6, LeasesKept, JobStep

\* The hub comes last.  The kill is over then, and nobody has a slot on the
\* broadcast.
LEMMA KillHubKeeps ==
    ASSUME PInv, NEW j \in jobs, KillHub(j)
    PROVE  PInv'
  <1>1. j.id \in IDs
    BY JobParts
  <1>2. UNCHANGED <<leaseVars, flow, tracked, killed, announced, banVars, outside>>
    BY DEF KillHub
  <1>3. /\ Reg!HInv' /\ Calm(Sessions)
        /\ \A s \in Sessions : pubs'[s].id = j.id => pubs'[s].closed
    BY <1>1, Parts, KilledFacts DEF KillHub
  <1>4. jobs' = (jobs \ {j}) \cup ExpiryHook(j.id)
    BY DEF KillHub, Swap
  <1>5. JobsTyped'
    BY <1>1, <1>4, Parts, JobFacts DEF JobsTyped
  <1>6. Typed'
    BY <1>2, <1>5, Parts, SameTyped DEF Typed
  <1>7. ASSUME NEW t \in Publishers
        PROVE  HandlerTyped(flow'[t]) /\ Follows(pubs'[t], flow'[t])
    BY <1>2, <1>3, Parts DEF Calm, Follows
  <1>8. HandlersTyped' /\ HandlesFollowed'
    BY <1>2, <1>7 DEF PInv, HandlersTyped, HandlesFollowed, HandlerTyped, Follows, Holding
  <1>9. ASSUME NEW t \in Publishers PROVE KillComing(pubs[t], flow[t])'
    <2> SUFFICES ASSUME flow[t].at \in {"binding", "live"}, Doomed(flow[t].id)', ~pubs'[t].closed
                 PROVE  Killing(flow[t].id)'
      BY <1>2 DEF KillComing, Spared
    <2>1. t \in Sessions /\ flow[t].id \in IDs
      BY Parts DEF HandlerTyped
    <2>2. pubs'[t].id # NoID
      <3>1. (\A s \in Sessions : pubs[s].id = NoID => pubs[s].closed)'
        <4>1. Reg!TypeOK'
          BY <1>3 DEF Reg!HInv
        <4> QED
          BY <4>1, PublishFlowAssumption DEF Reg!TypeOK, Reg!Handles, Reg!NoHandle
      <3> QED
        BY <2>1, <3>1
    <2>3. flow[t].id = pubs'[t].id
      BY <1>2, <1>7, <2>2 DEF Follows
    <2>4. flow[t].id # j.id
      BY <1>3, <2>1, <2>3
    <2>5. Doomed(flow[t].id) /\ ~pubs[t].closed
      BY <1>2, <1>3, <2>1 DEF Doomed, banVars, Calm
    <2>6. PICK k \in jobs : k.id = flow[t].id /\ k.at \in {"pull", "session", "hub"}
      BY <2>5, Parts DEF KillComing, Spared, Killing
    <2>7. k \in jobs'
      BY <1>4, <2>4, <2>6
    <2> QED
      BY <1>2, <2>6, <2>7 DEF Killing
  <1>10. KillsComing'
    BY <1>9 DEF KillsComing
  <1> QED
    BY <1>3, <1>6, <1>8, <1>10 DEF PInv

--------------------------------------------------------------------------------
(* Watch events and the rest of the fleet *)

\* A Lease turns out to be somebody else's.
LEMMA LeaseLostKeeps ==
    ASSUME PInv, NEW i \in IDs, LeaseLost(i)
    PROVE  PInv'
  <1>1. UNCHANGED <<hubVars, origin, flow, tracked, killed, announced, banVars, outside>>
        /\ jobs' = jobs \cup {Job(i, "lost")}
    BY DEF LeaseLost
  <1>2. LeaseTyped'
    BY <1>1, Parts, HookTyped DEF LeaseLost
  <1>3. JobsTyped'
    BY <1>1, Parts, JobFacts DEF JobsTyped
  <1>4. KillsGoOn
    BY <1>1, NoKillStops
  <1> QED
    BY <1>1, <1>2, <1>3, <1>4, Parts, SameHubFacts, SameTyped, NobodyMoves DEF Typed

\* What the watch starts: the demotion, and the end of a broadcast whose Lease is
\* gone.
LEMMA WatchKeeps ==
    ASSUME PInv, NEW j \in jobs, HandleLeaseLost(j) \/ HandleLeaseDeleted(j) \/ EndHub(j)
    PROVE  PInv'
  <1>1. j.id \in IDs /\ j.at \notin {"pull", "session", "hub"}
    BY JobParts DEF HandleLeaseLost, HandleLeaseDeleted, EndHub
  <1>2. UNCHANGED <<flow, announced, banVars, outside>>
    BY DEF HandleLeaseLost, HandleLeaseDeleted, EndHub
  <1>3. CASE HandleLeaseLost(j)
    <2>1. Reg!HInv' /\ Calm(Sessions)
      BY <1>1, <1>3, Parts, EdgesFacts DEF HandleLeaseLost
    <2>2. ServerTyped'
      BY <1>1, <1>2, <1>3, CloseTrackedTyped DEF HandleLeaseLost
    <2>3. LeaseTyped'
      BY <1>3, LeasesKept DEF HandleLeaseLost
    <2>4. {} \in SUBSET Jobs /\ Swap(j, {})
      BY <1>3 DEF HandleLeaseLost
    <2> QED
      BY <1>1, <1>2, <2>1, <2>2, <2>3, <2>4, JobStep
  <1>4. CASE HandleLeaseDeleted(j)
    <2>1. UNCHANGED <<hubVars, origin, tracked, killed>>
      BY <1>4 DEF HandleLeaseDeleted
    <2>2. Reg!HInv' /\ Calm(Sessions) /\ ServerTyped'
      BY <1>2, <2>1, Parts, SameHubFacts, SameTyped
    <2>3. LeaseTyped'
      BY <1>1, <1>4, <2>1, Parts, HookTyped DEF HandleLeaseDeleted
    <2>4. PICK step \in {"pull", "endpull"} : Swap(j, {Job(j.id, step)})
      BY <1>4 DEF HandleLeaseDeleted
    <2>5. {Job(j.id, step)} \in SUBSET Jobs
      BY <1>1, Parts, JobFacts
    <2> QED
      BY <1>1, <1>2, <2>2, <2>3, <2>4, <2>5, JobStep
  <1>5. CASE EndHub(j)
    <2>1. Hub!EndBroadcast(j.id) \/ UNCHANGED hubVars
      BY <1>5 DEF EndHub, EndIfAway
    <2>2. Reg!HInv' /\ Calm(Sessions)
      BY <1>1, <2>1, Parts, ExpiryFacts, SameHubFacts
    <2>3. ServerTyped' /\ LeaseTyped'
      BY <1>5, Parts, SameTyped DEF EndHub
    <2>4. ExpiryHook(j.id) \in SUBSET Jobs /\ Swap(j, ExpiryHook(j.id))
      BY <1>1, <1>5, Parts, JobFacts DEF EndHub
    <2> QED
      BY <1>1, <1>2, <2>2, <2>3, <2>4, JobStep
  <1> QED
    BY <1>3, <1>4, <1>5

\* What other pods do to Leases ...
LEMMA FleetKeeps ==
    ASSUME PInv, NEW i \in IDs, Elsewhere(i) \/ Collect(i)
    PROVE  PInv'
  <1>1. UNCHANGED <<hubVars, held, flow, tracked, killed, banVars>>
    BY DEF Elsewhere, Collect, Outside
  <1>2. LeaseTyped'
    BY <1>1, Parts, FleetTyped DEF Elsewhere, Collect
  <1>3. ServerTyped'
    BY <1>1, Parts DEF Elsewhere, Collect, ServerTyped
  <1>4. JobsTyped' /\ jobs \subseteq jobs'
    BY Parts, JobFacts DEF Elsewhere, Collect, JobsTyped
  <1>5. OutsideTyped'
    BY Parts, PublishFlowAssumption DEF Elsewhere, Collect, Outside, OutsideTyped
  <1>6. BanTyped' /\ KillsGoOn
    BY <1>1, <1>4, Parts, SameTyped, NoKillStops
  <1> QED
    BY <1>1, <1>2, <1>3, <1>4, <1>5, <1>6, Parts, SameHubFacts, NobodyMoves DEF Typed

\* ... and to the registry, by edges of theirs or of ours.
LEMMA PullsKeep ==
    ASSUME PInv,
           \/ PullEnds
           \/ \E i \in IDs : PullAttaches(i) \/ \E v \in Viewers : DownstreamEdge(v, i)
    PROVE  PInv'
  <1>1. UNCHANGED <<leaseVars, flow, tracked, killed, announced, banVars, jobs>>
    BY DEF PullEnds, PullAttaches, DownstreamEdge, Outside
  <1>2. OutsideTyped'
    <2>1. UNCHANGED outside \/ Outside
      BY DEF PullEnds, PullAttaches, DownstreamEdge
    <2>2. MaxOutside \in Nat
      BY PublishFlowAssumption
    <2> QED
      BY <2>1, <2>2, Parts DEF Outside, OutsideTyped
  <1>3. Pull \in Sessions
    BY PublishFlowAssumption
  <1>4. Reg!HInv' /\ Calm(Publishers)
    <2>1. CASE PullEnds
      <3>1. Reg!HInv' /\ Calm(Sessions)
        BY <1>3, <2>1, Parts, CloseFacts DEF PullEnds
      <3> QED
        BY <3>1 DEF Calm, Publishers
    <2>2. CASE \E i \in IDs : PullAttaches(i)
      <3>1. Reg!HInv' /\ Calm(Sessions \ {Pull})
        BY <1>3, <2>2, Parts, ClaimFacts DEF PullAttaches
      <3> QED
        BY <3>1 DEF Publishers
    <2>3. CASE \E i \in IDs, v \in Viewers : DownstreamEdge(v, i)
      <3>1. Reg!HInv' /\ Calm(Sessions)
        BY <2>3, Parts, EdgesFacts DEF DownstreamEdge
      <3> QED
        BY <3>1 DEF Calm, Publishers
    <2> QED
      BY <2>1, <2>2, <2>3
  <1>5. Typed' /\ KillsGoOn
    BY <1>1, <1>2, Parts, SameTyped, NoKillStops DEF Typed
  <1> QED
    BY <1>1, <1>4, <1>5, NobodyMoves

--------------------------------------------------------------------------------
(* The invariant *)

\* A pod that has just started.
LEMMA PInvInit == Init => PInv
  <1> SUFFICES ASSUME Init PROVE PInv
    OBVIOUS
  <1>1. Reg!HInv
    BY RegInit DEF Init
  <1>2. LeaseTyped
    <2>1. PICK S \in SUBSET announced :
             origin = [i \in IDs |-> IF i \in S
                                    THEN [Lease!Nothing EXCEPT !.holder = Other, !.gen = 1]
                                    ELSE Lease!Nothing]
      BY DEF Init
    <2>2. PICK l : l = [Lease!Nothing EXCEPT !.holder = Other, !.gen = 1]
      OBVIOUS
    <2>3. l \in Lease!Origins
      BY <2>2 DEF Lease!Nothing, Lease!Origins
    <2>4. origin \in [IDs -> Lease!Origins \cup {Lease!Nothing}]
      BY <2>1, <2>2, <2>3
    <2> QED
      BY <2>4 DEF Init, LeaseTyped
  <1>3. ServerTyped /\ BanTyped /\ JobsTyped /\ OutsideTyped
    BY PublishFlowAssumption DEF Init, ServerTyped, BanTyped, JobsTyped, OutsideTyped
  <1>4. NewHandler \in Handlers /\ NewHandler.at = "start"
    BY DEF NewHandler, Handlers, Steps
  <1>5. HandlersTyped
    BY <1>4 DEF Init, HandlersTyped, HandlerTyped
  <1>6. HandlesFollowed
    BY DEF Init, Hub!Init, Hub!NoHandle, HandlesFollowed, Follows, Publishers
  <1>7. KillsComing
    BY <1>4 DEF Init, KillsComing, KillComing, Spared
  <1> QED
    BY <1>1, <1>2, <1>3, <1>5, <1>6, <1>7 DEF PInv, Typed

\* Every step keeps the invariant.
LEMMA PInvStep == PInv /\ [Next]_vars => PInv'
  <1> SUFFICES ASSUME PInv, [Next]_vars PROVE PInv'
    OBVIOUS
  <1>1. ASSUME NEW s \in Publishers, Connect(s) \/ Handler(s) PROVE PInv'
    BY <1>1, ResumeKeeps, ClaimSlotKeeps, DrawKeeps, ClaimLeaseKeeps, TrackKeeps, RecheckKeeps,
       BindKeeps, LeaveKeeps, LeaveStoppedKeeps, UntrackKeeps, CloseSlotKeeps, GraceHookKeeps,
       RemovalKeeps, HandlerErasesKeeps
       DEF Connect, Handler
  <1>2. ASSUME NEW j \in jobs, Goroutine(j) PROVE PInv'
    BY <1>2, HookErasesKeeps, StopPullKeeps, KillSessionKeeps, KillHubKeeps, WatchKeeps
       DEF Goroutine
  <1>3. ASSUME NEW f \in firing, GraceExpires(f) PROVE PInv'
    BY <1>3, TimersKeep
  <1>4. ASSUME NEW t \in Targets, BanAdded(t) \/ HandleBanAdded(t) PROVE PInv'
    BY <1>4, BansKeep
  <1>5. ASSUME NEW i \in IDs,
               \/ GraceTimerFires(i) \/ LeaseLost(i)
               \/ Elsewhere(i) \/ PullAttaches(i) \/ Collect(i)
               \/ \E v \in Viewers : DownstreamEdge(v, i)
        PROVE  PInv'
    BY <1>5, TimersKeep, LeaseLostKeeps, FleetKeeps, PullsKeep
  <1>6. ASSUME PullEnds PROVE PInv'
    BY <1>6, PullsKeep
  <1>7. ASSUME UNCHANGED vars PROVE PInv'
    BY <1>7, Parts, SameHubFacts, SameTyped, NoKillStops, NobodyMoves DEF vars, Typed
  <1> QED
    BY <1>1, <1>2, <1>3, <1>4, <1>5, <1>6, <1>7 DEF Next

--------------------------------------------------------------------------------
(* Theorems *)

\* The inductive invariant holds throughout.
THEOREM PInvHolds == Spec => []PInv
  BY PInvInit, PInvStep, PTL DEF Spec

\* The variables of a pod keep their types, those of its registry included.
THEOREM FlowTypeCorrect == Spec => []TypeOK
  <1>1. PInv => TypeOK
    BY Parts, RegFacts
       DEF TypeOK, LeaseTyped, ServerTyped, BanTyped, JobsTyped, OutsideTyped, PInv, HandlersTyped
  <1> QED
    BY <1>1, PInvHolds, PTL

\* A publisher slot is always with a session whose handler is at work for that very
\* broadcast and has its Close still to come, or with the edge pull: no path through
\* handlePublish leaves a slot behind.
THEOREM NoZombies == Spec => []NoZombieSlot
  <1>1. PInv => NoZombieSlot
    <2> SUFFICES ASSUME PInv, NEW i \in IDs, Hub!publisherActive(i), hubs[i].pub # Pull
                 PROVE  /\ flow[hubs[i].pub].at \notin {"start", "done"}
                        /\ flow[hubs[i].pub].id = i
      BY DEF NoZombieSlot
    <2>1. hubs[i].pub \in Publishers /\ pubs[hubs[i].pub].id = i /\ i # NoID
      BY Parts, RegFacts, PublishFlowAssumption DEF Publishers
    <2>2. Holding(flow[hubs[i].pub]) /\ flow[hubs[i].pub].id = i
      BY <2>1, Parts DEF Follows
    <2> QED
      BY <2>2 DEF Holding
  <1> QED
    BY <1>1, PInvHolds, PTL

\* A ban that has been carried out leaves nobody live on the broadcast: whoever was
\* through the second check before it fell lost the slot to the kill, and whoever
\* comes later does not pass that check.
THEOREM BansSilence == Spec => []BannedIDSilenced
  <1>1. PInv => BannedIDSilenced
    <2> SUFFICES ASSUME PInv, NEW i \in IDs, Actuated(i), ~Killing(i),
                        NEW s \in Publishers, Live(s, i)
                 PROVE  FALSE
      BY DEF BannedIDSilenced
    <2>1. flow[s].at = "live" /\ flow[s].id = i /\ ~pubs[s].closed
      BY DEF Live, At
    <2>2. Doomed(i)
      BY DEF Actuated, Doomed
    <2> QED
      BY <2>1, <2>2, Parts DEF KillComing, Spared
  <1> QED
    BY <1>1, PInvHolds, PTL

==============================================================================
