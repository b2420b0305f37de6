---------------------------- MODULE EdgePullProofs ----------------------------
(***************************************************************************)
(* Proofs about EdgePull: types, SlotGivenBack, EdgeEndsTruly and          *)
(* KilledMeansKilled.                                                      *)
(*                                                                         *)
(* Every step of an edge is a step of its registry or leaves it alone, so  *)
(* that the invariant of HubRegistryProofs holds here too; a slot that     *)
(* somebody has is then followed from the step that claims it to the one   *)
(* that gives it back (EInv).  What viewers are told rests on a second     *)
(* invariant (TInv), of what each pull knows of its upstream, what each    *)
(* goroutine knows of its broadcast, and which pull feeds which hub.       *)
(***************************************************************************)
EXTENDS EdgePull, TLAPS

Reg == INSTANCE HubRegistryProofs WITH
    Sessions <- Pulls \cup {Home}, MaxBroadcasts <- 1, StallEnds <- FALSE

\* What is not the registry's.  A pull that runs, and a handler that has a request,
\* have a broadcast.
LeaseTyped ==
    /\ origin \in [IDs -> Lease!Origins \cup {Lease!Nothing}]
    /\ held \subseteq IDs /\ over \subseteq IDs
    /\ remote \in [IDs -> {"none", "serving", "away", "ended", "killed"}]
PullTyped ==
    /\ pull \in [Pulls -> PullStates]
    /\ \A p \in Pulls : Running(p) => pull[p].id \in IDs
EdgesTyped == edges \in [IDs -> Pulls \cup {NoSession}]
ViewTyped ==
    /\ join \in [Viewers -> Joins] /\ told \in [Viewers -> Endings]
    /\ \A v \in Viewers : ~JoinAt(v, "out") => join[v].id \in IDs
JobsTyped == jobs \subseteq Jobs

Typed == LeaseTyped /\ PullTyped /\ EdgesTyped /\ ViewTyped /\ JobsTyped

EInv == Reg!HInv /\ Typed /\ SlotGivenBack

--------------------------------------------------------------------------------
(* The registry of an edge is a registry *)

\* What the registry assumes of its constants holds of an edge's.
LEMMA RegNames == Reg!NamesAssumption
  BY EdgePullAssumption DEF Reg!NamesAssumption

\* The viewers are finitely many.
LEMMA RegViewers == Reg!ViewersAssumption
  BY EdgePullAssumption DEF Reg!ViewersAssumption, Reg!IsFiniteSet, IsFiniteSet

\* The limits are natural numbers.
LEMMA RegLimits == Reg!LimitAssumption
  BY EdgePullAssumption DEF Reg!LimitAssumption

\* So are the bounds.
LEMMA RegBounds == Reg!BoundAssumption
  BY EdgePullAssumption DEF Reg!BoundAssumption

\* The invariant of the registry is kept by its steps.
LEMMA RegStep ==
    ASSUME Reg!HInv, Reg!Next \/ UNCHANGED hubVars
    PROVE  Reg!HInv'
  <1>1. [Reg!Next]_Reg!vars
    BY DEF Reg!vars, hubVars
  <1>2. Reg!HInv /\ [Reg!Next]_Reg!vars => Reg!HInv'
    BY RegNames, RegViewers, RegLimits, RegBounds, Reg!HInvStep
  <1> QED
    BY <1>1, <1>2

\* It holds of an empty relay.
LEMMA RegInit == Hub!Init => Reg!HInv
  <1>1. Reg!Init => Reg!HInv
    BY RegNames, RegViewers, RegLimits, RegBounds, Reg!HInvInit
  <1>2. Hub!Init => Reg!Init
    BY DEF Hub!Init, Reg!Init, Hub!NoHub, Reg!NoHub, Hub!NoHandle, Reg!NoHandle,
           Hub!NotSubscribed, Reg!NotSubscribed
  <1> QED
    BY <1>1, <1>2

\* What the invariant says of slots and handles.
LEMMA RegFacts ==
    ASSUME Reg!HInv
    PROVE  /\ Hub!TypeOK
           /\ hubs \in [IDs -> Hub!Hubs] /\ DOMAIN hubs = IDs
           /\ \A i \in IDs : hubs[i].pub \in Pulls \cup {Home, NoSession}
           /\ \A i \in IDs, s \in Pulls \cup {Home} : hubs[i].pub = s =>
                 ~pubs[s].closed /\ pubs[s].id = i /\ ~Hub!Idle(s)
  <1>1. Reg!TypeOK /\ Reg!SlotOwnedByHandle
    BY DEF Reg!HInv
  <1>2. Hub!TypeOK
    BY <1>1 DEF Hub!TypeOK, Reg!TypeOK, Hub!Hubs, Reg!Hubs, Hub!Handles, Reg!Handles,
               Hub!NoHandle, Reg!NoHandle, Hub!Subscriptions, Reg!Subscriptions,
               Hub!NotSubscribed, Reg!NotSubscribed
  <1>3. hubs \in [IDs -> Hub!Hubs] /\ DOMAIN hubs = IDs
    BY <1>2 DEF Hub!TypeOK
  <1>4. \A i \in IDs : hubs[i].pub \in Pulls \cup {Home, NoSession}
    BY <1>3 DEF Hub!Hubs
  <1>5. ASSUME NEW i \in IDs, NEW s \in Pulls \cup {Home}, hubs[i].pub = s
        PROVE  ~pubs[s].closed /\ pubs[s].id = i /\ ~Hub!Idle(s)
    BY <1>1, <1>5, EdgePullAssumption
       DEF Reg!SlotOwnedByHandle, Reg!publisherActive, Hub!Idle
  <1> QED
    BY <1>2, <1>3, <1>4, <1>5

\* Nobody but the broadcaster gets a slot.
Spared == \A k \in IDs : hubs'[k].pub \in {hubs[k].pub, NoSession, Home}

\* A pull claims the slot of a hub that has nobody.
LEMMA EdgePublishFacts ==
    ASSUME Reg!HInv, NEW p \in Pulls, NEW i \in IDs, Hub!EdgePublish(p, i)
    PROVE  /\ Reg!HInv'
           /\ hubs'[i].pub = p
           /\ \A k \in IDs : k # i => hubs'[k].pub = hubs[k].pub
           /\ \A k \in IDs : hubs[k].pub # p
  <1>1. Reg!EdgePublish(p, i)
    BY DEF Hub!EdgePublish, Reg!EdgePublish, Hub!Idle, Reg!Idle, Hub!publisherActive,
           Reg!publisherActive, Hub!Known, Reg!Known, Hub!newHub, Reg!newHub, Hub!NoHub,
           Reg!NoHub, Hub!Claim, Reg!Claim, Hub!claimed, Reg!claimed, Hub!Handle, Reg!Handle
  <1>2. Reg!HInv'
    BY <1>1, RegStep DEF Reg!Next, Reg!Publish
  <1>3. PICK b : /\ b \in {hubs[i], Hub!newHub(i)}
                 /\ hubs' = [hubs EXCEPT ![i] = Hub!claimed(b, p, TRUE)]
    BY DEF Hub!EdgePublish, Hub!Claim
  <1>4. Hub!claimed(b, p, TRUE).pub = p
    <2>1. "pub" \in DOMAIN b
      BY <1>3, RegFacts DEF Hub!Hubs, Hub!newHub, Hub!NoHub
    <2>2. PICK c : c = [b EXCEPT !.gen = @ + 1, !.pub = p, !.grace = FALSE, !.kf = 0, !.edge = TRUE]
      OBVIOUS
    <2> QED
      BY <2>1 DEF Hub!claimed
  <1>5. hubs'[i].pub = p /\ \A k \in IDs : k # i => hubs'[k].pub = hubs[k].pub
    BY <1>3, <1>4, RegFacts
  <1>6. \A k \in IDs : hubs[k].pub # p
    BY RegFacts DEF Hub!EdgePublish
  <1> QED
    BY <1>2, <1>5, <1>6
\* What claiming, closing and removing leave in a slot.
LEMMA SlotOf ==
    ASSUME NEW b \in Hub!Hubs \cup {Hub!NoHub}
    PROVE  /\ \A s, e : Hub!claimed(b, s, e).pub = s
           /\ Hub!slotFreed(b).pub = NoSession
           /\ Hub!NoHub.pub = NoSession
  <1>1. "pub" \in DOMAIN b
    BY DEF Hub!Hubs, Hub!NoHub
  <1>2. ASSUME NEW s, NEW e PROVE Hub!claimed(b, s, e).pub = s
    BY <1>1 DEF Hub!claimed
  <1>3. Hub!slotFreed(b).pub = NoSession
    BY <1>1 DEF Hub!slotFreed
  <1> QED
    BY <1>2, <1>3 DEF Hub!NoHub

\* A broadcaster claims a free slot or takes one over.
LEMMA HomePublishFacts ==
    ASSUME Reg!HInv, NEW i \in IDs, Hub!ResumePublish(Home, i) \/ Hub!TakeOverPublish(Home, i)
    PROVE  Reg!HInv' /\ Spared
  <1>1. Hub!ResumePublish(Home, i) => Reg!ResumePublish(Home, i)
    BY DEF Hub!ResumePublish, Reg!ResumePublish, Hub!Idle, Reg!Idle, Hub!publisherActive,
           Reg!publisherActive, Hub!Known, Reg!Known, Hub!newHub, Reg!newHub, Hub!NoHub,
           Reg!NoHub, Hub!Claim, Reg!Claim, Hub!claimed, Reg!claimed, Hub!Handle, Reg!Handle,
           Hub!AtCapacity, Reg!AtCapacity, Hub!Cardinality, Reg!Cardinality
  <1>2. Hub!TakeOverPublish(Home, i) => Reg!TakeOverPublish(Home, i)
    BY DEF Hub!TakeOverPublish, Reg!TakeOverPublish, Hub!Idle, Reg!Idle, Hub!Known,
           Reg!Known, Hub!Claim, Reg!Claim, Hub!claimed, Reg!claimed, Hub!Handle,
           Reg!Handle, Hub!Deposed, Reg!Deposed
  <1>3. Reg!HInv'
    BY <1>1, <1>2, RegStep DEF Reg!Next, Reg!Publish
  <1>4. PICK b : /\ b \in {hubs[i], Hub!newHub(i)}
                 /\ hubs' = [hubs EXCEPT ![i] = Hub!claimed(b, Home, FALSE)]
    BY DEF Hub!ResumePublish, Hub!TakeOverPublish, Hub!Claim
  <1>5. Hub!claimed(b, Home, FALSE).pub = Home
    <2>1. "pub" \in DOMAIN b
      BY <1>4, RegFacts DEF Hub!Hubs, Hub!newHub, Hub!NoHub
    <2> QED
      BY <2>1 DEF Hub!claimed
  <1>6. Spared
    BY <1>4, <1>5, RegFacts DEF Spared
  <1> QED
    BY <1>3, <1>6

\* A session or a pull gives its slot back, if it has one.
LEMMA CloseFacts ==
    ASSUME Reg!HInv, NEW s \in Pulls \cup {Home}, Hub!Close(s)
    PROVE  Reg!HInv' /\ Spared /\ \A k \in IDs : hubs'[k].pub # s
  <1>1. Reg!Close(s)
    BY DEF Hub!Close, Reg!Close, Hub!Idle, Reg!Idle, Hub!closePublisher, Reg!closePublisher,
           Hub!slotFreed, Reg!slotFreed, Hub!Finish, Reg!Finish, Hub!NoHandle, Reg!NoHandle
  <1>2. Reg!HInv'
    BY <1>1, RegStep DEF Reg!Next, Reg!Session
  <1>3. CASE pubs[s].closed
    <2>1. hubs' = hubs
      BY <1>3 DEF Hub!Close, Hub!closePublisher
    <2> QED
      BY <1>2, <1>3, <2>1, RegFacts DEF Spared
  <1>4. CASE ~pubs[s].closed
    <2> DEFINE i == pubs[s].id
    <2>1. hubs' = [hubs EXCEPT ![i] = Hub!slotFreed(hubs[i])]
      BY <1>4 DEF Hub!Close, Hub!closePublisher
    <2>2. \A k \in IDs : k = i => hubs'[k].pub = NoSession
      BY <2>1, RegFacts, SlotOf
    <2>3. \A k \in IDs : k # i => hubs'[k] = hubs[k] /\ hubs[k].pub # s
      BY <2>1, RegFacts
    <2>4. NoSession # s
      BY EdgePullAssumption
    <2> QED
      BY <1>2, <2>2, <2>3, <2>4 DEF Spared
  <1> QED
    BY <1>3, <1>4

\* A hub is removed: nobody gets its slot.
LEMMA RemoveFacts ==
    ASSUME Reg!HInv, NEW i \in IDs,
           Hub!EndBroadcast(i) \/ Hub!ExpireEdgeIfViewerless(i) \/ Hub!TerminateBroadcast(i)
    PROVE  Reg!HInv' /\ Spared
  <1>1. Hub!EndBroadcast(i) => Reg!EndBroadcast(i)
    BY DEF Hub!EndBroadcast, Reg!EndBroadcast, Hub!Known, Reg!Known, Hub!publisherActive,
           Reg!publisherActive, Hub!removeBroadcast, Reg!removeBroadcast, Hub!NoHub, Reg!NoHub,
           Hub!Unsubscribed, Reg!Unsubscribed, Hub!NotSubscribed, Reg!NotSubscribed,
           Hub!On, Reg!On
  <1>2. Hub!ExpireEdgeIfViewerless(i) => Reg!ExpireEdgeIfViewerless(i)
    BY DEF Hub!ExpireEdgeIfViewerless, Reg!ExpireEdgeIfViewerless, Hub!Known, Reg!Known,
           Hub!publisherActive, Reg!publisherActive, Hub!removeBroadcast, Reg!removeBroadcast,
           Hub!NoHub, Reg!NoHub, Hub!Unsubscribed, Reg!Unsubscribed, Hub!NotSubscribed,
           Reg!NotSubscribed, Hub!On, Reg!On
  <1>3. Hub!TerminateBroadcast(i) => Reg!TerminateBroadcast(i)
    BY DEF Hub!TerminateBroadcast, Reg!TerminateBroadcast, Hub!Known, Reg!Known,
           Hub!Terminated, Reg!Terminated, Hub!Deposed, Reg!Deposed, Hub!removeBroadcast,
           Reg!removeBroadcast, Hub!NoHub, Reg!NoHub, Hub!Unsubscribed, Reg!Unsubscribed,
           Hub!NotSubscribed, Reg!NotSubscribed, Hub!On, Reg!On
  <1>4. Reg!HInv'
    BY <1>1, <1>2, <1>3, RegStep DEF Reg!Next, Reg!Expiry
  <1>5. hubs' = [hubs EXCEPT ![i] = Hub!NoHub]
    BY DEF Hub!EndBroadcast, Hub!ExpireEdgeIfViewerless, Hub!TerminateBroadcast,
           Hub!Terminated, Hub!removeBroadcast
  <1>6. Hub!NoHub.pub = NoSession
    BY DEF Hub!NoHub
  <1>7. Spared
    BY <1>5, <1>6, RegFacts DEF Spared
  <1> QED
    BY <1>4, <1>7

\* The registry is left alone.
LEMMA SameHubFacts ==
    ASSUME Reg!HInv, UNCHANGED hubVars
    PROVE  Reg!HInv' /\ Spared
  BY RegStep DEF hubVars, Spared

\* A viewer comes or goes.
LEMMA ViewerFacts ==
    ASSUME Reg!HInv, NEW v \in Viewers,
           (\E i \in IDs : Hub!Subscribe(v, i, FALSE)) \/ Hub!Unsubscribe(v)
    PROVE  Reg!HInv' /\ Spared
  <1>1. ASSUME NEW i \in IDs, Hub!Subscribe(v, i, FALSE) PROVE Reg!Subscribe(v, i, FALSE)
    BY <1>1 DEF Hub!Subscribe, Reg!Subscribe, Hub!NotSubscribed, Reg!NotSubscribed, Hub!Known,
           Reg!Known, Hub!HasRoom, Reg!HasRoom, Hub!External, Reg!External, Hub!AllExternal,
           Reg!AllExternal, Hub!On, Reg!On, Hub!Cardinality, Reg!Cardinality
  <1>2. Hub!Unsubscribe(v) => Reg!Unsubscribe(v)
    BY DEF Hub!Unsubscribe, Reg!Unsubscribe, Hub!NotSubscribed, Reg!NotSubscribed,
           Hub!Unsubscribed, Reg!Unsubscribed
  <1>3. Reg!Watch
    BY <1>1, <1>2 DEF Reg!Watch
  <1>4. Reg!HInv'
    BY <1>3, RegStep DEF Reg!Next
  <1>5. hubs' = hubs
    BY DEF Hub!Subscribe, Hub!Unsubscribe
  <1> QED
    BY <1>4, <1>5 DEF Spared

--------------------------------------------------------------------------------
(* Pulls *)

\* What a pull that has a slot may become: it goes on, with the slot and for the
\* same broadcast.
Follows(g, h) ==
    /\ h \in PullStates
    /\ h.at # "done" => h.id \in IDs
    /\ g.at # "done" /\ g.slot => h.at # "done" /\ h.slot /\ h.id = g.id
PullsKept == \A p \in Pulls : Follows(pull[p], pull'[p])

\* If every pull goes on like that and no pull gets a slot, no slot is lost.
LEMMA SlotsKept ==
    ASSUME Reg!HInv, SlotGivenBack, Spared, PullsKept
    PROVE  SlotGivenBack'
  <1> SUFFICES ASSUME NEW i \in IDs, hubs'[i].pub \in Pulls
               PROVE  LET s == hubs'[i].pub IN
                      pull'[s].at # "done" /\ pull'[s].slot /\ pull'[s].id = i
    BY DEF SlotGivenBack, Running, PullAt
  <1>1. hubs'[i].pub = hubs[i].pub
    BY EdgePullAssumption DEF Spared
  <1> DEFINE s == hubs[i].pub
  <1>2. s \in Pulls /\ pull[s].at # "done" /\ pull[s].slot /\ pull[s].id = i
    BY <1>1 DEF SlotGivenBack, Running, PullAt
  <1> QED
    BY <1>1, <1>2 DEF PullsKept, Follows

\* A pull that has its slot no more may do as it likes.
LEMMA SlotReturned ==
    ASSUME Reg!HInv, SlotGivenBack, Spared, NEW p \in Pulls,
           \A k \in IDs : hubs'[k].pub # p,
           \A q \in Pulls \ {p} : Follows(pull[q], pull'[q])
    PROVE  SlotGivenBack'
  <1> SUFFICES ASSUME NEW i \in IDs, hubs'[i].pub \in Pulls
               PROVE  LET s == hubs'[i].pub IN
                      pull'[s].at # "done" /\ pull'[s].slot /\ pull'[s].id = i
    BY DEF SlotGivenBack, Running, PullAt
  <1>1. hubs'[i].pub = hubs[i].pub
    BY EdgePullAssumption DEF Spared
  <1> DEFINE s == hubs[i].pub
  <1>2. s \in Pulls \ {p} /\ pull[s].at # "done" /\ pull[s].slot /\ pull[s].id = i
    BY <1>1 DEF SlotGivenBack, Running, PullAt
  <1> QED
    BY <1>1, <1>2 DEF Follows

\* A pull that claims the slot of a free hub has it from then on.
LEMMA SlotClaimed ==
    ASSUME Reg!HInv, SlotGivenBack, NEW p \in Pulls, NEW i \in IDs, Hub!EdgePublish(p, i),
           pull'[p].at # "done", pull'[p].slot, pull'[p].id = i,
           \A q \in Pulls \ {p} : Follows(pull[q], pull'[q])
    PROVE  Reg!HInv' /\ SlotGivenBack'
  <1>1. /\ Reg!HInv'
        /\ hubs'[i].pub = p
        /\ \A k \in IDs : k # i => hubs'[k].pub = hubs[k].pub
        /\ \A k \in IDs : hubs[k].pub # p
    BY EdgePublishFacts
  <1>2. ASSUME NEW k \in IDs, hubs'[k].pub \in Pulls
        PROVE  LET s == hubs'[k].pub IN
               pull'[s].at # "done" /\ pull'[s].slot /\ pull'[s].id = k
    <2>1. CASE k = i
      BY <1>1, <2>1
    <2>2. CASE k # i
      <3> DEFINE s == hubs[k].pub
      <3>1. hubs'[k].pub = s /\ s \in Pulls \ {p}
        BY <1>1, <1>2, <2>2
      <3>2. pull[s].at # "done" /\ pull[s].slot /\ pull[s].id = k
        BY <3>1 DEF SlotGivenBack, Running, PullAt
      <3> QED
        BY <3>1, <3>2 DEF Follows
    <2> QED
      BY <2>1, <2>2
  <1>3. SlotGivenBack'
    BY <1>2 DEF SlotGivenBack, Running, PullAt
  <1> QED
    BY <1>1, <1>3

\* A step of one pull moves that one only.
LEMMA OnePull ==
    ASSUME PullTyped, NEW p \in Pulls, NEW h \in PullStates, h.at # "done" => h.id \in IDs,
           pull' = [pull EXCEPT ![p] = h]
    PROVE  /\ PullTyped'
           /\ pull'[p] = h
           /\ \A q \in Pulls \ {p} : Follows(pull[q], pull'[q])
           /\ Follows(pull[p], h) => PullsKept
  <1>1. pull \in [Pulls -> PullStates] /\ \A q \in Pulls : Running(q) => pull[q].id \in IDs
    BY DEF PullTyped
  <1>2. pull'[p] = h /\ \A q \in Pulls \ {p} : pull'[q] = pull[q]
    BY <1>1
  <1>3. pull' \in [Pulls -> PullStates]
    BY <1>1
  <1>4. \A q \in Pulls : Running(q)' => pull'[q].id \in IDs
    BY <1>1, <1>2 DEF Running, PullAt
  <1>5. \A q \in Pulls \ {p} : Follows(pull[q], pull'[q])
    BY <1>1, <1>2 DEF Follows, Running, PullAt
  <1>6. Follows(pull[p], h) => PullsKept
    BY <1>2, <1>5 DEF PullsKept
  <1>7. PullTyped'
    BY <1>3, <1>4 DEF PullTyped
  <1> QED
    BY <1>2, <1>5, <1>6, <1>7

\* Nothing happens to the pulls.
LEMMA SamePulls ==
    ASSUME PullTyped, UNCHANGED pull
    PROVE  PullTyped' /\ PullsKept
  BY DEF PullTyped, PullsKept, Follows, Running, PullAt

\* The steps of a pull's loop.
Steps == {"resolve", "wait", "dial", "attach", "pump", "judge",
          "lingered", "ending", "killing", "release", "done"}

\* Moving on, a report and a retry leave the slot and the broadcast of a pull.
LEMMA MoveFacts ==
    ASSUME NEW h \in PullStates, NEW step \in Steps
    PROVE  /\ Moved(h, step) \in PullStates
           /\ Moved(h, step).at = step /\ Moved(h, step).slot = h.slot
           /\ Moved(h, step).id = h.id
           /\ Retried(h, step) \in PullStates
           /\ Retried(h, step).at \in {step, "release"} /\ Retried(h, step).slot = h.slot
           /\ Retried(h, step).id = h.id
           /\ \A a \in {"yes", "failed"} :
                 /\ Signal(h, a) \in PullStates
                 /\ Signal(h, a).at = h.at /\ Signal(h, a).slot = h.slot
                 /\ Signal(h, a).id = h.id
  <1>1. /\ Moved(h, step) \in PullStates
        /\ Moved(h, step).at = step /\ Moved(h, step).slot = h.slot
        /\ Moved(h, step).id = h.id
    BY DEF Moved, PullStates, Steps
  <1>2. /\ Retried(h, step) \in PullStates
        /\ Retried(h, step).at \in {step, "release"} /\ Retried(h, step).slot = h.slot
        /\ Retried(h, step).id = h.id
    BY DEF Retried, PullStates, Steps
  <1>3. ASSUME NEW a \in {"yes", "failed"}
        PROVE  /\ Signal(h, a) \in PullStates
               /\ Signal(h, a).at = h.at /\ Signal(h, a).slot = h.slot
               /\ Signal(h, a).id = h.id
    BY DEF Signal, PullStates
  <1> QED
    BY <1>1, <1>2, <1>3

\* A pull whose broadcast, slot and activity stay goes on.
LEMMA GoesOn ==
    ASSUME PullTyped, NEW p \in Pulls, Running(p), NEW h \in PullStates,
           h.at # "done", h.slot = pull[p].slot \/ h.slot = TRUE, h.id = pull[p].id
    PROVE  Follows(pull[p], h) /\ h.id \in IDs
  BY DEF PullTyped, Follows, Running, PullAt

--------------------------------------------------------------------------------
(* The parts a step leaves alone *)

\* The Leases ...
LEMMA SameLeases ==
    ASSUME LeaseTyped, UNCHANGED leaseVars
    PROVE  LeaseTyped'
  BY DEF LeaseTyped, leaseVars

\* ... the viewers ...
LEMMA SameViews ==
    ASSUME ViewTyped, UNCHANGED viewVars
    PROVE  ViewTyped'
  BY DEF ViewTyped, viewVars, JoinAt

\* ... the map of pulls and the goroutines.
LEMMA SameRest ==
    /\ EdgesTyped /\ UNCHANGED edges => EdgesTyped'
    /\ JobsTyped /\ UNCHANGED jobs => JobsTyped'
  BY DEF EdgesTyped, JobsTyped

\* The parts of the invariant.
LEMMA Parts ==
    ASSUME EInv
    PROVE  /\ Reg!HInv /\ LeaseTyped /\ PullTyped /\ EdgesTyped /\ ViewTyped /\ JobsTyped
           /\ SlotGivenBack
           /\ \A p \in Pulls : /\ pull[p] \in PullStates
                               /\ Running(p) => pull[p].id \in IDs
  BY DEF EInv, Typed, PullTyped

\* A step that only moves a pull, which keeps its slot and its broadcast.
LEMMA LoopStep ==
    ASSUME EInv, NEW p \in Pulls, Running(p), NEW h \in PullStates,
           h.at # "done", h.slot = pull[p].slot, h.id = pull[p].id,
           pull' = [pull EXCEPT ![p] = h],
           Reg!HInv', Spared, ViewTyped',
           UNCHANGED <<leaseVars, edges, jobs>>
    PROVE  EInv'
  <1>1. Follows(pull[p], h) /\ h.id \in IDs
    BY Parts, GoesOn
  <1>2. PullTyped' /\ PullsKept
    BY <1>1, Parts, OnePull
  <1>3. SlotGivenBack'
    BY <1>2, Parts, SlotsKept
  <1>4. LeaseTyped' /\ EdgesTyped' /\ JobsTyped'
    BY Parts, SameLeases, SameRest
  <1> QED
    BY <1>2, <1>3, <1>4 DEF EInv, Typed

--------------------------------------------------------------------------------
(* The loop of a pull *)

\* Resolve finds the origin, or that there is none.
LEMMA ResolveKeeps ==
    ASSUME EInv, NEW p \in Pulls, Resolve(p)
    PROVE  EInv'
  <1> DEFINE g == pull[p]
  <1>1. g \in PullStates /\ g.at = "resolve" /\ Running(p) /\ g.id \in IDs
    BY Parts DEF Resolve, PullAt, Running
  <1>2. PICK h : /\ h = AfterResolve(g) \/ h = Unresolved(g)
                 /\ pull' = [pull EXCEPT ![p] = h]
                 /\ UNCHANGED <<hubVars, leaseVars, edges, viewVars, jobs>>
    BY DEF Resolve
  <1>3. HolderElsewhere(g.id) => origin[g.id].gen \in Nat
    BY <1>1, Parts DEF HolderElsewhere, Lease!There, LeaseTyped, Lease!Origins
  <1>4. /\ h \in PullStates /\ h.at # "done" /\ h.slot = g.slot /\ h.id = g.id
    <2>0. ASSUME h = Unresolved(g)
          PROVE  h \in PullStates /\ h.at # "done" /\ h.slot = g.slot /\ h.id = g.id
      BY <1>1, <2>0, MoveFacts DEF Unresolved, Steps
    <2>a. SUFFICES ASSUME h = AfterResolve(g)
                   PROVE  h \in PullStates /\ h.at # "done" /\ h.slot = g.slot /\ h.id = g.id
      BY <1>2, <2>0
    <2>1. CASE g.stop
      BY <1>1, <2>1, <2>a, MoveFacts DEF AfterResolve, Steps
    <2>2. CASE ~g.stop /\ ~Lease!There(g.id)
      <3>1. PICK k : k = [g EXCEPT !.gone = TRUE]
        OBVIOUS
      <3>2. k \in PullStates /\ k.at = g.at /\ k.slot = g.slot /\ k.id = g.id
        BY <1>1, <3>1 DEF PullStates
      <3>3. h = Moved(Signal(k, "failed"), "release")
        BY <2>2, <2>a, <3>1 DEF AfterResolve
      <3> QED
        BY <3>2, <3>3, MoveFacts DEF Steps
    <2>3. CASE ~g.stop /\ Lease!There(g.id) /\ HolderIsSelf(g.id)
      <3>1. h = Moved(Signal(g, "yes"), "release")
        BY <2>3, <2>a, EdgePullAssumption DEF AfterResolve, HolderIsSelf, Dormant, HolderElsewhere
      <3> QED
        BY <1>1, <3>1, MoveFacts DEF Steps
    <2>4. CASE ~g.stop /\ Lease!There(g.id) /\ ~HolderIsSelf(g.id) /\ Dormant(g.id)
      <3>1. h = Moved(g, "wait")
        BY <2>4, <2>a, EdgePullAssumption DEF AfterResolve, Dormant, HolderElsewhere
      <3> QED
        BY <1>1, <3>1, MoveFacts DEF Steps
    <2>5. CASE /\ ~g.stop /\ Lease!There(g.id) /\ ~HolderIsSelf(g.id) /\ ~Dormant(g.id)
               /\ HolderElsewhere(g.id)
      <3>1. PICK k : k = Moved(g, "dial")
        OBVIOUS
      <3>2. k \in PullStates /\ k.at = "dial" /\ k.slot = g.slot /\ k.id = g.id
        BY <1>1, <3>1, MoveFacts DEF Steps
      <3>3. h = [k EXCEPT !.gen = origin[g.id].gen]
        BY <2>5, <2>a, <3>1 DEF AfterResolve
      <3> QED
        BY <1>3, <2>5, <3>2, <3>3 DEF PullStates
    <2>6. CASE /\ ~g.stop /\ Lease!There(g.id) /\ ~HolderIsSelf(g.id) /\ ~Dormant(g.id)
               /\ ~HolderElsewhere(g.id)
      <3>1. h = Moved(Signal(g, "failed"), "resolve")
        BY <2>6, <2>a DEF AfterResolve, Unresolved
      <3> QED
        BY <1>1, <3>1, MoveFacts DEF Steps
    <2> QED
      BY <2>1, <2>2, <2>3, <2>4, <2>5, <2>6
  <1> QED
    BY <1>1, <1>2, <1>4, Parts, SameHubFacts, SameViews, LoopStep

\* Dial, the end of an upstream and its loss touch no slot.
LEMMA UpstreamKeeps ==
    ASSUME EInv, NEW p \in Pulls, Dial(p) \/ UpstreamCloses(p) \/ UpstreamLost(p)
    PROVE  EInv'
  <1> DEFINE g == pull[p]
  <1>1. g \in PullStates /\ Running(p) /\ g.at \in {"dial", "attach", "pump"}
    BY Parts DEF Dial, UpstreamCloses, UpstreamLost, PullAt, Running
  <1>2. UNCHANGED <<hubVars, leaseVars, edges, viewVars, jobs>>
    BY DEF Dial, UpstreamCloses, UpstreamLost, here, leaseVars
  <1>3. PICK h : /\ pull' = [pull EXCEPT ![p] = h]
                 /\ h \in PullStates /\ h.at # "done" /\ h.slot = g.slot /\ h.id = g.id
    <2>1. CASE Dial(p)
      <3>1. CASE Accepts(g.id, g.gen) /\ ~g.stop
        <4>1. PICK k : k = Moved(g, "attach")
          OBVIOUS
        <4>2. k \in PullStates /\ k.at = "attach" /\ k.slot = g.slot /\ k.id = g.id
          BY <1>1, <4>1, MoveFacts DEF Steps
        <4>3. PICK c : c = IF remote[g.id] = "serving" THEN "none" ELSE "ended"
          OBVIOUS
        <4>4. PICK h : h = [k EXCEPT !.up = "open", !.coming = c]
          OBVIOUS
        <4>5. pull' = [pull EXCEPT ![p] = h]
          BY <2>1, <3>1, <4>1, <4>3, <4>4 DEF Dial
        <4>6. h \in PullStates /\ h.at = k.at /\ h.slot = k.slot /\ h.id = k.id
          BY <4>2, <4>3, <4>4 DEF PullStates
        <4> QED
          BY <4>2, <4>5, <4>6
      <3>2. CASE ~(Accepts(g.id, g.gen) /\ ~g.stop)
        <4>1. pull' = [pull EXCEPT ![p] = Moved(Signal(g, "failed"), "resolve")]
          BY <2>1, <3>2 DEF Dial
        <4>2. /\ Signal(g, "failed") \in PullStates /\ Signal(g, "failed").slot = g.slot
              /\ Signal(g, "failed").id = g.id
          BY <1>1, MoveFacts DEF Steps
        <4>3. PICK h : h = Moved(Signal(g, "failed"), "resolve")
          OBVIOUS
        <4>4. h \in PullStates /\ h.at = "resolve" /\ h.slot = g.slot /\ h.id = g.id
          BY <4>2, <4>3, MoveFacts DEF Steps
        <4>5. pull' = [pull EXCEPT ![p] = h]
          BY <4>1, <4>3
        <4> QED
          BY <4>4, <4>5
      <3> QED
        BY <3>1, <3>2
    <2>2. CASE UpstreamCloses(p) \/ UpstreamLost(p)
      <3>1. PICK u \in {"none", "lost", "ended", "killed"} : pull' = [pull EXCEPT ![p] = [g EXCEPT !.up = u]]
        <4>1. g.coming \in {"none", "lost", "ended", "killed"}
          BY <1>1 DEF PullStates
        <4> QED
          BY <2>2, <4>1 DEF UpstreamCloses, UpstreamLost
      <3>2. PICK h : h = [g EXCEPT !.up = u]
        OBVIOUS
      <3>3. h \in PullStates /\ h.at = g.at /\ h.slot = g.slot /\ h.id = g.id
        BY <1>1, <3>2 DEF PullStates
      <3> QED
        BY <1>1, <3>1, <3>2, <3>3
    <2> QED
      BY <2>1, <2>2
  <1> QED
    BY <1>1, <1>2, <1>3, Parts, SameHubFacts, SameViews, LoopStep
\* A step by which a pull gives its slot back.
LEMMA GiveBackStep ==
    ASSUME EInv, NEW p \in Pulls, NEW h \in PullStates, h.at # "done" => h.id \in IDs,
           Hub!Close(p), pull' = [pull EXCEPT ![p] = h],
           UNCHANGED <<leaseVars, edges, viewVars, jobs>>
    PROVE  EInv'
  <1>1. PullTyped' /\ \A q \in Pulls \ {p} : Follows(pull[q], pull'[q])
    BY Parts, OnePull
  <1>2. Reg!HInv' /\ Spared /\ \A k \in IDs : hubs'[k].pub # p
    BY Parts, CloseFacts
  <1>3. SlotGivenBack'
    BY <1>1, <1>2, Parts, SlotReturned
  <1>4. LeaseTyped' /\ EdgesTyped' /\ ViewTyped' /\ JobsTyped'
    BY Parts, SameLeases, SameViews, SameRest
  <1> QED
    BY <1>1, <1>2, <1>3, <1>4 DEF EInv, Typed

\* A step by which a pull claims the slot of its hub.
LEMMA ClaimStep ==
    ASSUME EInv, NEW p \in Pulls, NEW i \in IDs, NEW h \in PullStates,
           h.at # "done", h.slot, h.id = i,
           Hub!EdgePublish(p, i), pull' = [pull EXCEPT ![p] = h],
           EdgesTyped', ViewTyped', UNCHANGED <<leaseVars, jobs>>
    PROVE  EInv'
  <1>1. /\ PullTyped' /\ pull'[p] = h
        /\ \A q \in Pulls \ {p} : Follows(pull[q], pull'[q])
    BY Parts, OnePull
  <1>2. Reg!HInv' /\ SlotGivenBack'
    BY <1>1, Parts, SlotClaimed
  <1>3. LeaseTyped' /\ JobsTyped'
    BY Parts, SameLeases, SameRest
  <1> QED
    BY <1>1, <1>2, <1>3 DEF EInv, Typed

\* Attaching claims the slot, unless the pull has it from a reservation wait.
LEMMA AttachKeeps ==
    ASSUME EInv, NEW p \in Pulls, Attach(p)
    PROVE  EInv'
  <1> DEFINE g == pull[p]
  <1>1. g \in PullStates /\ Running(p) /\ g.at = "attach" /\ g.id \in IDs
    BY Parts DEF Attach, PullAt, Running
  <1>2. UNCHANGED <<leaseVars, edges, viewVars, jobs>>
    BY DEF Attach
  <1>3. CASE /\ ~g.slot /\ UNCHANGED hubVars
             /\ pull' = [pull EXCEPT ![p] = Retried(g, "resolve")]
    <2>1. /\ Retried(g, "resolve") \in PullStates /\ Retried(g, "resolve").at # "done"
          /\ Retried(g, "resolve").slot = g.slot /\ Retried(g, "resolve").id = g.id
      BY <1>1, MoveFacts DEF Steps
    <2> QED
      BY <1>1, <1>2, <1>3, <2>1, Parts, SameHubFacts, SameViews, LoopStep
  <1>4. CASE /\ IF g.slot THEN UNCHANGED hubVars ELSE Hub!EdgePublish(p, g.id)
             /\ pull' = [pull EXCEPT ![p] = Signal([Moved(g, "pump") EXCEPT !.slot = TRUE], "yes")]
    <2>1. PICK m : m = Moved(g, "pump")
      OBVIOUS
    <2>2. m \in PullStates /\ m.at = "pump" /\ m.id = g.id
      BY <1>1, <2>1, MoveFacts DEF Steps
    <2>3. PICK k : k = [m EXCEPT !.slot = TRUE]
      OBVIOUS
    <2>4. k \in PullStates /\ k.at = "pump" /\ k.id = g.id /\ k.slot = TRUE
      BY <2>2, <2>3 DEF PullStates
    <2>5. PICK h : h = Signal(k, "yes")
      OBVIOUS
    <2>6. h \in PullStates /\ h.at = "pump" /\ h.id = g.id /\ h.slot = TRUE
      BY <2>4, <2>5, MoveFacts DEF Steps
    <2>7. pull' = [pull EXCEPT ![p] = h]
      BY <1>4, <2>1, <2>3, <2>5
    <2>8. CASE g.slot
      <3>1. UNCHANGED hubVars /\ h.slot = g.slot
        BY <1>1, <1>4, <2>6, <2>8 DEF PullStates
      <3> QED
        BY <1>1, <1>2, <2>6, <2>7, <3>1, Parts, SameHubFacts, SameViews, LoopStep
    <2>9. CASE ~g.slot
      <3>1. Hub!EdgePublish(p, g.id)
        BY <1>4, <2>9
      <3> QED
        BY <1>1, <1>2, <2>6, <2>7, <3>1, Parts, SameRest, SameViews, ClaimStep
    <2> QED
      BY <2>8, <2>9
  <1> QED
    BY <1>3, <1>4 DEF Attach

\* The pump ends, or nobody watches any more.
LEMMA DetachKeeps ==
    ASSUME EInv, NEW p \in Pulls, PumpEnds(p) \/ PumpLingers(p)
    PROVE  EInv'
  <1> DEFINE g == pull[p]
  <1>1. g \in PullStates /\ g.id \in IDs
    BY Parts DEF PumpEnds, PumpLingers, PullAt, Running
  <1>2. PICK up \in {"none", "open", "lost", "ended", "killed"} : Detach(p, up)
    <2>1. g.up \in {"none", "open", "lost", "ended", "killed"}
      BY <1>1 DEF PullStates
    <2> QED
      BY <2>1 DEF PumpEnds, PumpLingers
  <1>3. PICK k : k = [g EXCEPT !.slot = FALSE, !.up = up]
    OBVIOUS
  <1>4. k \in PullStates /\ k.id = g.id
    BY <1>1, <1>3 DEF PullStates
  <1>5. PICK h : h = AfterPump(k)
    OBVIOUS
  <1>6. h \in PullStates /\ h.id = g.id
    <2>1. PICK m : m = Moved(k, "lingered")
      OBVIOUS
    <2>2. m \in PullStates /\ m.id = g.id
      BY <1>4, <2>1, MoveFacts DEF Steps
    <2>3. [m EXCEPT !.coming = "none"] \in PullStates /\ [m EXCEPT !.coming = "none"].id = g.id
      BY <2>2 DEF PullStates
    <2>4. h \in {[m EXCEPT !.coming = "none"], Moved(k, "killing"), Moved(k, "judge"),
                 Retried(k, "resolve")}
      BY <1>5, <2>1 DEF AfterPump
    <2>5. /\ Moved(k, "killing") \in PullStates /\ Moved(k, "killing").id = g.id
          /\ Moved(k, "judge") \in PullStates /\ Moved(k, "judge").id = g.id
          /\ Retried(k, "resolve") \in PullStates /\ Retried(k, "resolve").id = g.id
      BY <1>4, MoveFacts DEF Steps
    <2> HIDE DEF g
    <2> QED
      BY <2>3, <2>4, <2>5
  <1>7. /\ Hub!Close(p) /\ pull' = [pull EXCEPT ![p] = h]
        /\ UNCHANGED <<leaseVars, edges, viewVars, jobs>>
    BY <1>2, <1>3, <1>5 DEF Detach
  <1> QED
    BY <1>1, <1>6, <1>7, GiveBackStep

\* A stopped pull, or one nobody watches, gives up its wait on a reservation.
LEMMA WaitLingersKeeps ==
    ASSUME EInv, NEW p \in Pulls, WaitLingers(p)
    PROVE  EInv'
  <1> DEFINE g == pull[p]
  <1>1. g \in PullStates /\ g.id \in IDs
    BY Parts DEF WaitLingers, PullAt, Running
  <1>2. PICK k : k = Moved(g, "lingered")
    OBVIOUS
  <1>3. k \in PullStates /\ k.id = g.id
    BY <1>1, <1>2, MoveFacts DEF Steps
  <1>4. PICK h : h = [k EXCEPT !.slot = FALSE]
    OBVIOUS
  <1>5. h \in PullStates /\ h.id = g.id
    BY <1>3, <1>4 DEF PullStates
  <1>6. /\ Hub!Close(p) /\ pull' = [pull EXCEPT ![p] = h]
        /\ UNCHANGED <<leaseVars, edges, viewVars, jobs>>
    BY <1>2, <1>4 DEF WaitLingers
  <1> QED
    BY <1>1, <1>5, <1>6, GiveBackStep
\* Claiming the slot for the time of a reservation, and waking up.
LEMMA WaitKeeps ==
    ASSUME EInv, NEW p \in Pulls, WaitClaims(p) \/ WaitWakes(p)
    PROVE  EInv'
  <1> DEFINE g == pull[p]
  <1>1. g \in PullStates /\ Running(p) /\ g.at = "wait" /\ g.id \in IDs
    BY Parts DEF WaitClaims, WaitWakes, PullAt, Running
  <1>2. UNCHANGED <<leaseVars, edges, viewVars, jobs>>
    BY DEF WaitClaims, WaitWakes
  <1>3. ASSUME NEW step \in {"resolve", "release"}, Move(p, step), UNCHANGED hubVars
        PROVE  EInv'
    <2>1. pull' = [pull EXCEPT ![p] = Moved(g, step)]
      BY <1>3 DEF Move
    <2>2. step \in Steps /\ step # "done"
      BY DEF Steps
    <2>3. Moved(g, step) \in PullStates /\ Moved(g, step).at = step
          /\ Moved(g, step).slot = g.slot /\ Moved(g, step).id = g.id
      BY <1>1, <2>2, MoveFacts
    <2> QED
      BY <1>1, <1>2, <1>3, <2>1, <2>2, <2>3, Parts, SameHubFacts, SameViews, LoopStep
  <1>4. CASE /\ Hub!EdgePublish(p, g.id)
             /\ pull' = [pull EXCEPT ![p] = Signal([g EXCEPT !.slot = TRUE], "yes")]
    <2>1. PICK k : k = [g EXCEPT !.slot = TRUE]
      OBVIOUS
    <2>2. k \in PullStates /\ k.at = "wait" /\ k.id = g.id /\ k.slot = TRUE
      BY <1>1, <2>1 DEF PullStates
    <2>3. PICK h : h = Signal(k, "yes")
      OBVIOUS
    <2>4. h \in PullStates /\ h.at = "wait" /\ h.id = g.id /\ h.slot = TRUE
      BY <2>2, <2>3, MoveFacts DEF Steps
    <2>5. pull' = [pull EXCEPT ![p] = h]
      BY <1>4, <2>1, <2>3
    <2> QED
      BY <1>1, <1>2, <1>4, <2>4, <2>5, Parts, SameRest, SameViews, ClaimStep
  <1>5. CASE WaitClaims(p)
    BY <1>3, <1>4, <1>5 DEF WaitClaims
  <1>6. CASE WaitWakes(p)
    BY <1>3, <1>6 DEF WaitWakes
  <1> QED
    BY <1>5, <1>6

\* What the viewers of a hub that ends are told.
LEMMA TellFacts ==
    ASSUME ViewTyped, NEW code \in {"ended", "expired", "killed"}, Tell(code)
    PROVE  ViewTyped'
  <1>1. code \in Endings
    BY DEF Endings
  <1> QED
    BY <1>1 DEF Tell, ViewTyped, JoinAt

\* A hub is ended unless somebody publishes.
LEMMA EndHubFacts ==
    ASSUME EInv, NEW i \in IDs, EndHub(i) \/ ExpireIfViewerless(i)
    PROVE  Reg!HInv' /\ Spared
  BY Parts, SameHubFacts, RemoveFacts DEF EndHub, ExpireIfViewerless

\* An end is judged by the Lease.
LEMMA JudgeKeeps ==
    ASSUME EInv, NEW p \in Pulls, Judge(p)
    PROVE  EInv'
  <1> DEFINE g == pull[p]
  <1>1. g \in PullStates /\ Running(p)
    BY Parts DEF Judge, PullAt, Running
  <1>2. PICK h \in {Moved(g, "ending"), Retried(g, "resolve")} : pull' = [pull EXCEPT ![p] = h]
    BY DEF Judge
  <1>3. h \in PullStates /\ h.at # "done" /\ h.slot = g.slot /\ h.id = g.id
    BY <1>1, <1>2, MoveFacts DEF Steps
  <1>4. UNCHANGED <<hubVars, leaseVars, edges, viewVars, jobs>>
    BY DEF Judge
  <1> QED
    BY <1>1, <1>2, <1>3, <1>4, Parts, SameHubFacts, SameViews, LoopStep

\* A pull that lingered out ends, or attaches again for whoever joined.
LEMMA LingeredKeeps ==
    ASSUME EInv, NEW p \in Pulls, Lingered(p)
    PROVE  EInv'
  <1> DEFINE g == pull[p]
  <1>1. g \in PullStates /\ Running(p) /\ g.id \in IDs
    BY Parts DEF Lingered, PullAt, Running
  <1>2. PICK step \in {"release", "resolve"} : pull' = [pull EXCEPT ![p] = Retried(g, step)]
    BY DEF Lingered
  <1>3. Retried(g, step) \in PullStates /\ Retried(g, step).at # "done"
        /\ Retried(g, step).slot = g.slot /\ Retried(g, step).id = g.id
    BY <1>1, <1>2, MoveFacts DEF Steps
  <1>4. UNCHANGED <<leaseVars, edges, viewVars, jobs>> /\ Reg!HInv' /\ Spared
    BY <1>1, EndHubFacts DEF Lingered
  <1> QED
    BY <1>1, <1>2, <1>3, <1>4, Parts, SameViews, LoopStep

\* An end or a kill is passed on.
LEMMA PassOnKeeps ==
    ASSUME EInv, NEW p \in Pulls, PassOnEnd(p) \/ PassOnKill(p)
    PROVE  EInv'
  <1> DEFINE g == pull[p]
  <1>1. g \in PullStates /\ Running(p) /\ g.id \in IDs
    BY Parts DEF PassOnEnd, PassOnKill, PullAt, Running
  <1>2. PICK k : k = Moved(g, "release")
    OBVIOUS
  <1>3. k \in PullStates /\ k.at = "release" /\ k.slot = g.slot /\ k.id = g.id
    BY <1>1, <1>2, MoveFacts DEF Steps
  <1>4. PICK h : h = [k EXCEPT !.up = "none", !.coming = "none"]
    OBVIOUS
  <1>5. h \in PullStates /\ h.at = "release" /\ h.slot = g.slot /\ h.id = g.id
    BY <1>3, <1>4 DEF PullStates
  <1>6. pull' = [pull EXCEPT ![p] = k] \/ pull' = [pull EXCEPT ![p] = h]
    BY <1>2, <1>4 DEF PassOnEnd, PassOnKill, Move
  <1>7. UNCHANGED <<leaseVars, edges, jobs>> /\ ViewTyped'
    BY Parts, TellFacts DEF PassOnEnd, PassOnKill
  <1>8. Reg!HInv' /\ Spared
    BY <1>1, Parts, EndHubFacts, SameHubFacts, RemoveFacts DEF PassOnEnd, PassOnKill
  <1> QED
    BY <1>1, <1>3, <1>5, <1>6, <1>7, <1>8, LoopStep

\* The pull gives the slot of a wait back, and only then is done.
LEMMA ReleaseKeeps ==
    ASSUME EInv, NEW p \in Pulls, Release(p)
    PROVE  EInv'
  <1> DEFINE g == pull[p]
  <1>1. g \in PullStates /\ Running(p) /\ g.at = "release" /\ g.id \in IDs
    BY Parts DEF Release, PullAt, Running
  <1>2. CASE g.slot
    <2>1. PICK h : h = [g EXCEPT !.slot = FALSE]
      OBVIOUS
    <2>2. h \in PullStates /\ h.id \in IDs
      BY <1>1, <2>1 DEF PullStates
    <2>3. /\ Hub!Close(p) /\ pull' = [pull EXCEPT ![p] = h]
          /\ UNCHANGED <<leaseVars, edges, viewVars, jobs>>
      BY <1>2, <2>1 DEF Release, viewVars
    <2> QED
      BY <2>2, <2>3, GiveBackStep
  <1>3. CASE ~g.slot
    <2>1. PICK h : h = Moved(g, "done")
      OBVIOUS
    <2>2. h \in PullStates /\ h.id \in IDs
      BY <1>1, <2>1, MoveFacts DEF Steps
    <2>3. pull' = [pull EXCEPT ![p] = h] /\ Tell("ended") /\ UNCHANGED <<leaseVars, jobs>>
      BY <1>3, <2>1 DEF Release, Move
    <2>4. Follows(g, h)
      BY <1>3, <2>2 DEF Follows
    <2>5. PullTyped' /\ PullsKept
      BY <2>2, <2>3, <2>4, Parts, OnePull
    <2>6. Reg!HInv' /\ Spared
      BY <1>1, <1>3, Parts, EndHubFacts, SameHubFacts DEF Release
    <2>7. SlotGivenBack'
      BY <2>5, <2>6, Parts, SlotsKept
    <2>8. edges' = [i \in IDs |-> IF edges[i] = p THEN NoSession ELSE edges[i]]
      BY <1>3 DEF Release
    <2>9. EdgesTyped'
      BY <2>8, Parts DEF EdgesTyped
    <2>10. ViewTyped' /\ LeaseTyped' /\ JobsTyped'
      BY <2>3, Parts, TellFacts, SameLeases, SameRest
    <2> QED
      BY <2>5, <2>6, <2>7, <2>9, <2>10 DEF EInv, Typed
  <1> QED
    BY <1>2, <1>3

--------------------------------------------------------------------------------
(* Viewers *)

\* A step that leaves the registry's slots and the Leases alone.
LEMMA QuietStep ==
    ASSUME EInv, Reg!HInv', Spared, PullTyped', PullsKept, EdgesTyped', ViewTyped',
           JobsTyped', LeaseTyped'
    PROVE  EInv'
  BY Parts, SlotsKept DEF EInv, Typed

\* A handler moves on and keeps its request.
LEMMA JoinFacts ==
    ASSUME ViewTyped, NEW v \in Viewers,
           NEW n \in Joins, n.at # "out" => n.id \in IDs, join' = [join EXCEPT ![v] = n],
           NEW t \in Endings, told' = [told EXCEPT ![v] = t]
    PROVE  ViewTyped'
  <1>1. join \in [Viewers -> Joins] /\ told \in [Viewers -> Endings]
    BY DEF ViewTyped
  <1>2. join' \in [Viewers -> Joins] /\ told' \in [Viewers -> Endings]
    BY <1>1
  <1>3. \A u \in Viewers : join'[u] = IF u = v THEN n ELSE join[u]
    BY <1>1
  <1>4. \A u \in Viewers : join'[u].at # "out" => join'[u].id \in IDs
    BY <1>3 DEF ViewTyped, JoinAt
  <1> QED
    BY <1>2, <1>4 DEF ViewTyped, JoinAt

\* The same when only the step, and the pull that is waited for, change.
LEMMA JoinToFacts ==
    ASSUME ViewTyped, NEW v \in Viewers, ~JoinAt(v, "out"),
           NEW step \in {"recheck", "enter", "in"}, JoinTo(v, step),
           NEW t \in Endings, told' = [told EXCEPT ![v] = t]
    PROVE  ViewTyped'
  <1>1. join[v] \in Joins /\ join[v].id \in IDs
    BY DEF ViewTyped, JoinAt
  <1>2. PICK n : n = [join[v] EXCEPT !.at = step, !.pull = NoSession]
    OBVIOUS
  <1>3. n \in Joins /\ n.id \in IDs
    BY <1>1, <1>2 DEF Joins
  <1>4. join' = [join EXCEPT ![v] = n]
    <2>1. join \in [Viewers -> Joins]
      BY DEF ViewTyped
    <2> QED
      BY <1>1, <1>2, <2>1 DEF JoinTo, Joins
  <1> QED
    BY <1>3, <1>4, JoinFacts

\* Moving on without an answer, or with the 404 of Leave.
LEMMA JoinedOn ==
    ASSUME ViewTyped, NEW v \in Viewers, ~JoinAt(v, "out"),
           \/ /\ \E step \in {"recheck", "enter", "in"} : JoinTo(v, step)
              /\ UNCHANGED told
           \/ Leave(v)
    PROVE  ViewTyped'
  <1>1. told[v] \in Endings /\ told = [told EXCEPT ![v] = told[v]] /\ "left" \in Endings
    BY DEF ViewTyped, Endings
  <1>2. ASSUME NEW step \in {"recheck", "enter", "in"}, JoinTo(v, step), UNCHANGED told
        PROVE  ViewTyped'
    <2>1. told' = [told EXCEPT ![v] = told[v]]
      BY <1>1, <1>2
    <2> QED
      BY <1>1, <1>2, <2>1, JoinToFacts
  <1>3. CASE Leave(v)
    BY <1>1, <1>3, JoinToFacts DEF Leave
  <1> QED
    BY <1>2, <1>3

\* A handler waits for a pull.
LEMMA AwaitFacts ==
    ASSUME ViewTyped, NEW v \in Viewers, ~JoinAt(v, "out"), NEW p \in Pulls \cup {NoSession},
           join' = [join EXCEPT ![v].at = "await", ![v].pull = p], UNCHANGED told
    PROVE  ViewTyped'
  <1>1. join[v] \in Joins /\ join[v].id \in IDs /\ join \in [Viewers -> Joins]
    BY DEF ViewTyped, JoinAt
  <1>2. PICK n : n = [join[v] EXCEPT !.at = "await", !.pull = p]
    OBVIOUS
  <1>3. n \in Joins /\ n.id \in IDs
    BY <1>1, <1>2 DEF Joins
  <1>4. join' = [join EXCEPT ![v] = n]
    BY <1>1, <1>2 DEF Joins
  <1>5. told[v] \in Endings /\ told' = [told EXCEPT ![v] = told[v]]
    BY DEF ViewTyped
  <1> QED
    BY <1>3, <1>4, <1>5, JoinFacts

\* A fresh pull.
LEMMA NewPullFacts ==
    ASSUME NEW i \in IDs
    PROVE  NewPull(i) \in PullStates /\ NewPull(i).at = "resolve" /\ NewPull(i).id = i
  BY DEF NewPull, Unused, PullStates

\* EnsureEdge finds the pull that runs, or starts one that does not.
LEMMA EnsuredFacts ==
    ASSUME EInv, NEW i \in IDs, NEW p \in Pulls, Ensured(i, p)
    PROVE  PullTyped' /\ PullsKept /\ EdgesTyped'
  <1>1. CASE HasPull(i)
    BY <1>1, Parts, SamePulls, SameRest DEF Ensured
  <1>2. CASE ~HasPull(i)
    <2>1. PICK h : h = NewPull(i)
      OBVIOUS
    <2>2. h \in PullStates /\ h.at = "resolve" /\ h.id = i
      BY <2>1, NewPullFacts
    <2>3. /\ ~Running(p) /\ pull' = [pull EXCEPT ![p] = h]
          /\ edges' = [edges EXCEPT ![i] = p]
      BY <1>2, <2>1 DEF Ensured, Free, Started
    <2>4. Follows(pull[p], h)
      BY <2>2, <2>3 DEF Follows, Running, PullAt
    <2>5. PullTyped' /\ PullsKept
      BY <2>2, <2>3, <2>4, Parts, OnePull
    <2>6. EdgesTyped'
      BY <2>3, Parts DEF EdgesTyped
    <2> QED
      BY <2>5, <2>6
  <1> QED
    BY <1>1, <1>2

\* A viewer arrives, or its handler moves on.
LEMMA HandlerKeeps ==
    ASSUME EInv, NEW v \in Viewers,
           (\E i \in IDs : Arrive(v, i)) \/ Ensure(v) \/ Await(v) \/ Recheck(v)
    PROVE  EInv'
  <1>1. LeaseTyped' /\ JobsTyped' /\ UNCHANGED hubVars
    BY Parts, SameLeases, SameRest DEF Arrive, Ensure, Await, Recheck
  <1>2. ASSUME NEW i \in IDs, Arrive(v, i) PROVE ViewTyped'
    <2>1. join[v] \in Joins /\ join \in [Viewers -> Joins] /\ told[v] \in Endings
          /\ told' = [told EXCEPT ![v] = told[v]]
      BY <1>2, Parts DEF ViewTyped, Arrive
    <2>2. PICK step \in {"enter", "ensure"} :
              join' = [join EXCEPT ![v].at = step, ![v].id = i]
      BY <1>2 DEF Arrive
    <2>3. PICK n : n = [join[v] EXCEPT !.at = step, !.id = i]
      OBVIOUS
    <2>4. n \in Joins /\ n.id \in IDs
      BY <2>1, <2>3 DEF Joins
    <2>5. join' = [join EXCEPT ![v] = n]
      BY <2>1, <2>2, <2>3 DEF Joins
    <2> QED
      BY <2>1, <2>4, <2>5, Parts, JoinFacts
  <1>3. CASE (\E i \in IDs : Arrive(v, i)) \/ Await(v) \/ Recheck(v)
    <2>1. UNCHANGED <<pull, edges>>
      BY <1>3 DEF Arrive, Await, Recheck
    <2>2. CASE Await(v) \/ Recheck(v)
      <3>1. /\ ~JoinAt(v, "out")
            /\ \/ (\E step \in {"recheck", "enter", "in"} : JoinTo(v, step)) /\ UNCHANGED told
               \/ Leave(v)
        BY <2>2 DEF Await, Recheck, JoinAt
      <3> QED
        BY <1>1, <2>1, <3>1, Parts, SamePulls, SameRest, SameHubFacts, JoinedOn, QuietStep
    <2> QED
      BY <1>1, <1>2, <1>3, <2>1, <2>2, Parts, SamePulls, SameRest, SameHubFacts, QuietStep
  <1>4. CASE Ensure(v)
    <2> DEFINE i == join[v].id
    <2>1. ~JoinAt(v, "out") /\ i \in IDs
      BY <1>4, Parts DEF Ensure, JoinAt, ViewTyped
    <2>2. ASSUME NEW p \in Pulls, Ensured(i, p), UNCHANGED told,
                 join' = [join EXCEPT ![v].at = "await", ![v].pull = p]
          PROVE  EInv'
      BY <1>1, <2>1, <2>2, Parts, EnsuredFacts, AwaitFacts, SameHubFacts, QuietStep
    <2>3. CASE Leave(v) /\ UNCHANGED <<pull, edges>>
      BY <1>1, <2>1, <2>3, Parts, SamePulls, SameRest, JoinedOn, SameHubFacts, QuietStep
    <2> QED
      BY <1>4, <2>2, <2>3 DEF Ensure
  <1> QED
    BY <1>3, <1>4

\* A reservation makes the waiting hub at once.
LEMMA EnsureWaitKeeps ==
    ASSUME EInv, NEW v \in Viewers, EnsureWait(v)
    PROVE  EInv'
  <1> DEFINE i == join[v].id
  <1>1. ~JoinAt(v, "out") /\ i \in IDs
    BY Parts DEF EnsureWait, JoinAt, ViewTyped
  <1>2. LeaseTyped' /\ JobsTyped' /\ UNCHANGED <<leaseVars, jobs>>
    BY Parts, SameLeases, SameRest DEF EnsureWait
  <1>3. CASE HasPull(i)
    <2>1. UNCHANGED hubVars /\ UNCHANGED <<pull, edges>> /\ UNCHANGED told
      BY <1>3 DEF EnsureWait
    <2>2. ViewTyped'
      <3>1. edges[i] \in Pulls \cup {NoSession}
        BY <1>1, Parts DEF EdgesTyped
      <3>2. \/ JoinTo(v, "recheck")
            \/ join' = [join EXCEPT ![v].at = "await", ![v].pull = edges[i]]
        BY <1>3 DEF EnsureWait
      <3> QED
        BY <1>1, <2>1, <3>1, <3>2, Parts, JoinedOn, AwaitFacts
    <2> QED
      BY <1>2, <2>1, <2>2, Parts, SamePulls, SameRest, SameHubFacts, QuietStep
  <1>4. CASE ~HasPull(i) /\ Hub!publisherActive(i)
    <2>1. Leave(v) /\ UNCHANGED hubVars /\ UNCHANGED <<pull, edges>>
      BY <1>4 DEF EnsureWait
    <2> QED
      BY <1>1, <1>2, <2>1, Parts, SamePulls, SameRest, JoinedOn, SameHubFacts, QuietStep
  <1>5. CASE ~HasPull(i) /\ ~Hub!publisherActive(i)
    <2>1. PICK p \in Pulls :
             /\ Hub!EdgePublish(p, i)
             /\ Started(p, i, Signal([NewPull(i) EXCEPT !.slot = TRUE], "yes"))
             /\ JoinTo(v, "recheck") /\ UNCHANGED told
      BY <1>5 DEF EnsureWait
    <2>a. PICK n : n = NewPull(i)
      OBVIOUS
    <2>b. n \in PullStates /\ n.at = "resolve" /\ n.id = i
      BY <1>1, <2>a, NewPullFacts
    <2>2. PICK k : k = [n EXCEPT !.slot = TRUE]
      OBVIOUS
    <2>3. k \in PullStates /\ k.at = "resolve" /\ k.id = i /\ k.slot = TRUE
      BY <2>b, <2>2 DEF PullStates
    <2>4. PICK h : h = Signal(k, "yes")
      OBVIOUS
    <2>5. h \in PullStates /\ h.at = "resolve" /\ h.id = i /\ h.slot = TRUE
      BY <2>3, <2>4, MoveFacts DEF Steps
    <2>6. pull' = [pull EXCEPT ![p] = h] /\ edges' = [edges EXCEPT ![i] = p]
      BY <2>1, <2>a, <2>2, <2>4 DEF Started
    <2>7. EdgesTyped'
      BY <2>6, Parts DEF EdgesTyped
    <2>8. ViewTyped'
      BY <1>1, <2>1, Parts, JoinedOn
    <2> QED
      BY <1>1, <1>2, <2>1, <2>5, <2>6, <2>7, <2>8, ClaimStep
  <1> QED
    BY <1>3, <1>4, <1>5

\* A viewer subscribes, finds the hub gone, or leaves.
LEMMA ViewerKeeps ==
    ASSUME EInv, NEW v \in Viewers, Enter(v) \/ Depart(v)
    PROVE  EInv'
  <1>1. UNCHANGED <<leaseVars, pull, edges, jobs>>
    BY DEF Enter, Depart
  <1>2. told[v] \in Endings /\ {"late", "left"} \subseteq Endings
        /\ told = [told EXCEPT ![v] = told[v]]
    BY Parts DEF ViewTyped, Endings
  <1>3. CASE Enter(v)
    <2>1. ~JoinAt(v, "out") /\ JoinTo(v, "in") /\ join[v].id \in IDs
      BY <1>3, Parts DEF Enter, JoinAt, ViewTyped
    <2>2. CASE Hub!Subscribe(v, join[v].id, FALSE) /\ UNCHANGED told
      <3>1. Reg!HInv' /\ Spared
        BY <2>1, <2>2, Parts, ViewerFacts
      <3>2. ViewTyped'
        BY <2>1, <2>2, Parts, JoinedOn
      <3> QED
        BY <1>1, <3>1, <3>2, Parts, SamePulls, SameRest, SameLeases, QuietStep
    <2>3. CASE told' = [told EXCEPT ![v] = "late"] /\ UNCHANGED hubVars
      <3>1. ViewTyped'
        BY <1>2, <2>1, <2>3, Parts, JoinToFacts
      <3> QED
        BY <1>1, <2>3, <3>1, Parts, SameHubFacts, SamePulls, SameRest, SameLeases, QuietStep
    <2> QED
      BY <1>3, <2>2, <2>3 DEF Enter
  <1>4. CASE Depart(v)
    <2>1. Hub!Unsubscribe(v) /\ told' = [told EXCEPT ![v] = "left"] /\ UNCHANGED join
      BY <1>4 DEF Depart
    <2>2. ViewTyped'
      BY <1>2, <2>1, Parts DEF ViewTyped, JoinAt
    <2> QED
      BY <1>1, <2>1, <2>2, Parts, ViewerFacts, SamePulls, SameRest, SameLeases, QuietStep
  <1> QED
    BY <1>3, <1>4

--------------------------------------------------------------------------------
(* Leases and goroutines *)

\* A call of the coordinator leaves a Lease or none.
LEMMA OriginFacts ==
    ASSUME LeaseTyped, NEW i \in IDs, NEW q \in {Self, Other},
           \/ Lease!Claim(q, i, NoPop) \/ Lease!Claim(q, i, origin[i].pop)
           \/ Lease!EnterGrace(q, i) \/ Lease!Release(q, i) \/ Lease!Delete(q, i)
           \/ \E pop \in Pops : Lease!Reserve(i, pop)
           \/ Lease!DeleteReservation(i, origin[i].pop)
           \/ Lease!Write(i, Lease!Nothing)
    PROVE  origin' \in [IDs -> Lease!Origins \cup {Lease!Nothing}]
  <1>1. origin \in [IDs -> Lease!Origins \cup {Lease!Nothing}]
    BY DEF LeaseTyped
  <1>2. ASSUME NEW l \in Lease!Origins \cup {Lease!Nothing}, Lease!Write(i, l)
        PROVE  origin' \in [IDs -> Lease!Origins \cup {Lease!Nothing}]
    BY <1>1, <1>2 DEF Lease!Write
  <1>3. Lease!There(i) => origin[i] \in Lease!Origins
    BY <1>1 DEF Lease!There
  <1>4. \/ \E l \in Lease!Origins \cup {Lease!Nothing} : Lease!Write(i, l)
        \/ Lease!Claim(q, i, NoPop) \/ Lease!Claim(q, i, origin[i].pop)
        \/ Lease!EnterGrace(q, i) \/ Lease!Release(q, i)
        \/ \E pop \in Pops : Lease!Reserve(i, pop)
    BY DEF Lease!Delete, Lease!DeleteReservation
  <1>5. ASSUME NEW pop, Lease!Claim(q, i, pop)
        PROVE  \E l \in Lease!Origins : Lease!Write(i, l)
    <2>1. PICK new : new = [holder |-> q, gen |-> 1, pop |-> NoPop, away |-> FALSE, expired |-> FALSE]
      OBVIOUS
    <2>2. new \in Lease!Origins
      BY <2>1 DEF Lease!Origins
    <2>3. CASE ~Lease!There(i)
      BY <1>5, <2>1, <2>2, <2>3 DEF Lease!Claim
    <2>4. CASE Lease!There(i)
      <3> DEFINE l == [origin[i] EXCEPT !.holder = q, !.gen = @ + 1,
                                        !.away = FALSE, !.expired = FALSE]
      <3>1. origin[i] \in Lease!Origins
        BY <1>3, <2>4
      <3>a. PICK o : o = origin[i]
        OBVIOUS
      <3>b. PICK n : n = o.gen + 1
        OBVIOUS
      <3>c. o \in Lease!Origins /\ n \in Nat
        BY <3>1, <3>a, <3>b DEF Lease!Origins
      <3>d. [o EXCEPT !.holder = q, !.gen = n, !.away = FALSE, !.expired = FALSE]
                \in Lease!Origins
        BY <3>c DEF Lease!Origins
      <3>2. l \in Lease!Origins
        BY <3>a, <3>b, <3>d
      <3>3. Lease!Write(i, l)
        BY <1>5, <2>4 DEF Lease!Claim
      <3> QED
        BY <3>2, <3>3
    <2> QED
      BY <2>3, <2>4
  <1>6. ASSUME Lease!EnterGrace(q, i) PROVE \E l \in Lease!Origins : Lease!Write(i, l)
    <2>1. PICK l : l = [origin[i] EXCEPT !.away = TRUE, !.expired = FALSE]
      OBVIOUS
    <2>2. l \in Lease!Origins /\ Lease!Write(i, l)
      BY <1>3, <1>6, <2>1 DEF Lease!EnterGrace, Lease!Origins
    <2> QED
      BY <2>2
  <1>7. ASSUME Lease!Release(q, i) PROVE \E l \in Lease!Origins : Lease!Write(i, l)
    <2>1. PICK l : l = IF origin[i].pop = NoPop
                       THEN [origin[i] EXCEPT !.holder = NoPod]
                       ELSE [origin[i] EXCEPT !.holder = NoPod, !.away = FALSE, !.expired = FALSE]
      OBVIOUS
    <2>2. Lease!Write(i, l)
      BY <1>7, <2>1 DEF Lease!Release
    <2>3. l \in Lease!Origins
      BY <1>3, <1>7, <2>1 DEF Lease!Release, Lease!Origins
    <2> QED
      BY <2>2, <2>3
  <1>8. ASSUME NEW pop \in Pops, Lease!Reserve(i, pop)
        PROVE  \E l \in Lease!Origins : Lease!Write(i, l)
    <2>1. PICK l : l = [holder |-> NoPod, gen |-> 0, pop |-> pop, away |-> FALSE, expired |-> FALSE]
      OBVIOUS
    <2>2. l \in Lease!Origins /\ Lease!Write(i, l)
      BY <1>8, <2>1 DEF Lease!Reserve, Lease!Origins
    <2> QED
      BY <2>2
  <1> QED
    BY <1>2, <1>4, <1>5, <1>6, <1>7, <1>8

\* The goroutines that events and sessions start.
LEMMA JobFacts ==
    /\ \A i \in IDs, step \in {"deleted", "stop", "lease", "leave", "demote", "deletedwait"} :
          Job(i, step) \in Jobs
    /\ \A i \in IDs : DeletionEvent(i) \subseteq Jobs
  BY DEF Job, Jobs, DeletionEvent

\* A goroutine ends or goes on.
LEMMA SwapFacts ==
    ASSUME JobsTyped, NEW j \in jobs, NEW S \in SUBSET Jobs, Swap(j, S)
    PROVE  JobsTyped'
  BY DEF JobsTyped, Swap

\* The upstreams of some pulls get closed: no slot is touched.
LEMMA ClosingFacts ==
    ASSUME EInv, NEW i, NEW code \in {"none", "lost", "ended", "killed"}, Closing(i, code)
    PROVE  PullTyped' /\ PullsKept
  <1>1. ASSUME NEW p \in Pulls
        PROVE  /\ pull'[p] \in PullStates /\ pull'[p].at = pull[p].at
               /\ pull'[p].slot = pull[p].slot /\ pull'[p].id = pull[p].id
    <2>1. pull[p] \in PullStates
      BY Parts
    <2>2. PICK h : h = [pull[p] EXCEPT !.coming = code]
      OBVIOUS
    <2>3. h \in PullStates /\ h.at = pull[p].at /\ h.slot = pull[p].slot /\ h.id = pull[p].id
      BY <2>1, <2>2 DEF PullStates
    <2>4. pull'[p] \in {pull[p], h}
      BY <2>2 DEF Closing
    <2> QED
      BY <2>1, <2>3, <2>4
  <1>2. pull' \in [Pulls -> PullStates]
    BY <1>1 DEF Closing
  <1> QED
    BY <1>1, <1>2, Parts DEF PullTyped, PullsKept, Follows, Running, PullAt

\* StopEdge cancels the pull; it does not wait for it.
LEMMA StopEdgeFacts ==
    ASSUME EInv, NEW j \in jobs, NEW next \in {"deletedwait", "stopwait"}, StopEdge(j, next)
    PROVE  PullTyped' /\ PullsKept /\ EdgesTyped' /\ JobsTyped'
  <1>1. j \in Jobs /\ j.id \in IDs
    BY Parts DEF JobsTyped, Jobs
  <1> DEFINE e == edges[j.id]
  <1>2. e \in Pulls \cup {NoSession}
    BY <1>1, Parts DEF EdgesTyped
  <1>3. EdgesTyped'
    BY Parts DEF StopEdge, EdgesTyped
  <1>4. JobsTyped'
    <2>1. {[id |-> j.id, at |-> next, pull |-> e]} \in SUBSET Jobs
      BY <1>1, <1>2 DEF Jobs
    <2> QED
      BY <2>1, Parts, SwapFacts DEF StopEdge
  <1>5. CASE e = NoSession
    BY <1>3, <1>4, <1>5, Parts, SamePulls DEF StopEdge
  <1>6. CASE e # NoSession
    <2>1. e \in Pulls /\ pull[e] \in PullStates /\ (Running(e) => pull[e].id \in IDs)
      BY <1>2, <1>6, Parts
    <2>2. PICK h : h = [pull[e] EXCEPT !.stop = TRUE]
      OBVIOUS
    <2>3. h \in PullStates /\ h.at = pull[e].at /\ h.slot = pull[e].slot /\ h.id = pull[e].id
      BY <2>1, <2>2 DEF PullStates
    <2>4. pull' = [pull EXCEPT ![e] = h]
      BY <1>6, <2>2 DEF StopEdge
    <2>5. Follows(pull[e], h) /\ (h.at # "done" => h.id \in IDs)
      BY <2>1, <2>3 DEF Follows, Running, PullAt
    <2> QED
      BY <1>3, <1>4, <2>1, <2>3, <2>4, <2>5, Parts, OnePull
  <1> QED
    BY <1>5, <1>6

\* The watch reports that a Lease is gone.
LEMMA DeletionKeeps ==
    ASSUME EInv, NEW j \in jobs, OnLeaseDeleted(j) \/ EndAfterDeletion(j)
    PROVE  EInv'
  <1>1. j.id \in IDs
    BY Parts DEF JobsTyped, Jobs
  <1>2. CASE OnLeaseDeleted(j)
    <2>1. PullTyped' /\ PullsKept /\ EdgesTyped' /\ JobsTyped'
      BY <1>2, StopEdgeFacts DEF OnLeaseDeleted
    <2>2. LeaseTyped'
      BY <1>2, Parts DEF OnLeaseDeleted, LeaseTyped
    <2> QED
      BY <1>2, <2>1, <2>2, Parts, SameHubFacts, SameViews, QuietStep DEF OnLeaseDeleted
  <1>3. CASE EndAfterDeletion(j)
    <2>1. Reg!HInv' /\ Spared
      BY <1>1, <1>3, EndHubFacts DEF EndAfterDeletion
    <2>2. ViewTyped' /\ LeaseTyped' /\ EdgesTyped' /\ PullTyped' /\ PullsKept
      BY <1>3, Parts, TellFacts, SameLeases, SameRest, SamePulls DEF EndAfterDeletion
    <2>3. JobsTyped'
      BY <1>3, Parts, SwapFacts DEF EndAfterDeletion
    <2> QED
      BY <2>1, <2>2, <2>3, QuietStep
  <1> QED
    BY <1>2, <1>3

\* A broadcaster comes home and takes the slot over.
LEMMA HomeComesKeeps ==
    ASSUME EInv, NEW j \in jobs, HomeStops(j) \/ HomeClaims(j)
    PROVE  EInv'
  <1>1. j.id \in IDs
    BY Parts DEF JobsTyped, Jobs
  <1>2. CASE HomeStops(j)
    <2>1. PullTyped' /\ PullsKept /\ EdgesTyped' /\ JobsTyped'
      BY <1>2, StopEdgeFacts DEF HomeStops
    <2> QED
      BY <1>2, <2>1, Parts, SameHubFacts, SameLeases, SameViews, QuietStep DEF HomeStops
  <1>3. CASE HomeClaims(j)
    <2>1. Reg!HInv' /\ Spared
      BY <1>1, <1>3, Parts, HomePublishFacts DEF HomeClaims
    <2>2. ViewTyped' /\ LeaseTyped' /\ EdgesTyped' /\ PullTyped' /\ PullsKept
      BY <1>3, Parts, SameViews, SameLeases, SameRest, SamePulls DEF HomeClaims
    <2>3. JobsTyped'
      <3>1. {Job(j.id, "lease")} \in SUBSET Jobs
        BY <1>1, JobFacts
      <3> QED
        BY <1>3, <3>1, Parts, SwapFacts DEF HomeClaims
    <2> QED
      BY <2>1, <2>2, <2>3, QuietStep
  <1> QED
    BY <1>2, <1>3

\* It claims the Lease, or is refused and gives the slot back.
LEMMA HomeLeasesKeeps ==
    ASSUME EInv, NEW j \in jobs, HomeLeases(j)
    PROVE  EInv'
  <1>1. j.id \in IDs
    BY Parts DEF JobsTyped, Jobs
  <1>2. EdgesTyped' /\ ViewTyped'
    BY Parts, SameRest, SameViews DEF HomeLeases
  <1>3. CASE /\ Lease!Claim(Self, j.id, NoPop)
             /\ held' = held \cup {j.id}
             /\ remote' = [remote EXCEPT ![j.id] = "none"]
             /\ Closing(j.id, "lost")
             /\ Swap(j, {})
             /\ UNCHANGED <<hubVars, over>>
    <2>1. origin' \in [IDs -> Lease!Origins \cup {Lease!Nothing}]
      BY <1>1, <1>3, Parts, OriginFacts
    <2>2. LeaseTyped'
      BY <1>1, <1>3, <2>1, Parts DEF LeaseTyped
    <2>3. PullTyped' /\ PullsKept
      BY <1>3, ClosingFacts
    <2>4. JobsTyped'
      BY <1>3, Parts, SwapFacts
    <2> QED
      BY <1>2, <1>3, <2>2, <2>3, <2>4, Parts, SameHubFacts, QuietStep
  <1>4. CASE /\ Hub!Close(Home)
             /\ Swap(j, {Job(j.id, "deletedwait")})
             /\ UNCHANGED <<leaseVars, pull>>
    <2>1. Reg!HInv' /\ Spared
      BY <1>4, Parts, CloseFacts
    <2>2. JobsTyped'
      <3>1. {Job(j.id, "deletedwait")} \in SUBSET Jobs
        BY <1>1, JobFacts
      <3> QED
        BY <1>4, <3>1, Parts, SwapFacts
    <2> QED
      BY <1>2, <1>4, <2>1, <2>2, Parts, SameLeases, SamePulls, QuietStep
  <1> QED
    BY <1>3, <1>4 DEF HomeLeases

\* Its session ends.
LEMMA HomeLeavesKeeps ==
    ASSUME EInv, NEW j \in jobs, HomeLeaves(j)
    PROVE  EInv'
  <1>1. j.id \in IDs
    BY Parts DEF JobsTyped, Jobs
  <1>2. Reg!HInv' /\ Spared
    BY Parts, CloseFacts DEF HomeLeaves
  <1>3. origin' \in [IDs -> Lease!Origins \cup {Lease!Nothing}]
    <2>1. Lease!EnterGrace(Self, j.id) \/ UNCHANGED origin
      BY DEF HomeLeaves
    <2> QED
      BY <1>1, <2>1, Parts, OriginFacts DEF LeaseTyped
  <1>4. LeaseTyped'
    BY <1>1, <1>3, Parts DEF HomeLeaves, LeaseTyped
  <1>5. JobsTyped'
    BY Parts, SwapFacts DEF HomeLeaves
  <1> QED
    BY <1>2, <1>4, <1>5, Parts, SamePulls, SameRest, SameViews, QuietStep DEF HomeLeaves

\* This pod loses a Lease and becomes an edge of the broadcast.
LEMMA DemotionKeeps ==
    ASSUME EInv, (\E i \in IDs : LeaseLost(i)) \/ \E j \in jobs : Demote(j)
    PROVE  EInv'
  <1>1. ASSUME NEW i \in IDs, LeaseLost(i) PROVE EInv'
    <2>1. LeaseTyped'
      BY <1>1, Parts DEF LeaseLost, LeaseTyped
    <2>2. JobsTyped'
      BY <1>1, Parts, JobFacts DEF LeaseLost, JobsTyped
    <2> QED
      BY <1>1, <2>1, <2>2, Parts, SameHubFacts, SamePulls, SameRest, SameViews, QuietStep
         DEF LeaseLost
  <1>2. ASSUME NEW j \in jobs, Demote(j) PROVE EInv'
    <2>1. j.id \in IDs
      BY Parts DEF JobsTyped, Jobs
    <2>2. PullTyped' /\ PullsKept /\ EdgesTyped'
      BY <1>2, <2>1, Parts, EnsuredFacts, SamePulls, SameRest DEF Demote
    <2>3. JobsTyped'
      BY <1>2, Parts, SwapFacts DEF Demote
    <2> QED
      BY <1>2, <2>2, <2>3, Parts, SameHubFacts, SameLeases, SameViews, QuietStep DEF Demote
  <1> QED
    BY <1>1, <1>2

--------------------------------------------------------------------------------
(* Timers and the world outside *)

\* A grace timer ends the hub, and with an origin's hub its Lease.
LEMMA GraceKeeps ==
    ASSUME EInv, NEW i \in IDs, GraceExpires(i)
    PROVE  EInv'
  <1>1. Reg!HInv' /\ Spared
    BY Parts, RemoveFacts DEF GraceExpires
  <1>2. ViewTyped'
    <2>1. PICK code \in {"ended", "expired"} : Tell(code)
      BY DEF GraceExpires
    <2> QED
      BY <2>1, Parts, TellFacts
  <1>3. origin' \in [IDs -> Lease!Origins \cup {Lease!Nothing}]
    <2>1. Lease!Delete(Self, i) \/ UNCHANGED origin
      BY DEF GraceExpires
    <2> QED
      BY <2>1, Parts, OriginFacts DEF LeaseTyped
  <1>4. LeaseTyped'
    BY <1>3, Parts DEF GraceExpires, LeaseTyped
  <1>5. JobsTyped'
    BY Parts, JobFacts DEF GraceExpires, JobsTyped
  <1> QED
    BY <1>1, <1>2, <1>4, <1>5, Parts, SamePulls, SameRest, QuietStep DEF GraceExpires

\* A step of the world outside touches no slot.
LEMMA OutsideStep ==
    ASSUME EInv, UNCHANGED here, PullTyped', PullsKept, LeaseTyped', JobsTyped'
    PROVE  EInv'
  BY Parts, SameHubFacts, SameRest, SameViews, QuietStep DEF here

\* What it may do to the Leases.
LEMMA OutsideLeases ==
    ASSUME LeaseTyped, NEW i \in IDs, held' = held,
           UNCHANGED remote \/
               \E what \in {"none", "serving", "away", "ended", "killed"} : Elsewhere(i, what),
           UNCHANGED over \/ over' = over \cup {i},
           UNCHANGED origin \/ origin' \in [IDs -> Lease!Origins \cup {Lease!Nothing}]
    PROVE  LeaseTyped'
  BY DEF LeaseTyped, Elsewhere

\* The broadcaster comes to this pod or leaves it.
LEMMA HomeMovesKeeps ==
    ASSUME EInv, NEW i \in IDs, HomeArrives(i) \/ HomeDeparts(i)
    PROVE  EInv'
  <1>1. UNCHANGED <<here, origin, remote, over, pull>>
    BY DEF HomeArrives, HomeDeparts
  <1>2. JobsTyped'
    BY Parts, JobFacts DEF HomeArrives, HomeDeparts, JobsTyped
  <1>3. LeaseTyped'
    BY <1>1, Parts, SameLeases DEF leaseVars, here
  <1> QED
    BY <1>1, <1>2, <1>3, Parts, SamePulls, OutsideStep

\* Another pod becomes the origin, or stops being one.
LEMMA OtherMovesKeeps ==
    ASSUME EInv, NEW i \in IDs,
           \/ OtherClaims(i) \/ OtherGraces(i) \/ OtherDies(i)
           \/ \E code \in {"ended", "killed"} : OtherEnds(i, code)
    PROVE  EInv'
  <1>1. UNCHANGED here /\ held' = held /\ UNCHANGED jobs
    BY DEF OtherClaims, OtherGraces, OtherDies, OtherEnds, here
  <1>2. JobsTyped'
    BY <1>1, Parts, SameRest
  <1>3. \/ UNCHANGED pull
        \/ \E code \in {"none", "lost", "ended", "killed"} : Closing(i, code)
    BY DEF OtherClaims, OtherGraces, OtherDies, OtherEnds
  <1>4. PullTyped' /\ PullsKept
    BY <1>3, Parts, SamePulls, ClosingFacts
  <1>5. UNCHANGED origin \/ Lease!Claim(Other, i, NoPop) \/ Lease!EnterGrace(Other, i)
    BY DEF OtherClaims, OtherGraces, OtherDies, OtherEnds
  <1>6. UNCHANGED origin \/ origin' \in [IDs -> Lease!Origins \cup {Lease!Nothing}]
    BY <1>5, Parts, OriginFacts
  <1>7. /\ \E what \in {"none", "serving", "away", "ended", "killed"} : Elsewhere(i, what)
        /\ UNCHANGED over \/ over' = over \cup {i}
    BY DEF OtherClaims, OtherGraces, OtherDies, OtherEnds
  <1>8. LeaseTyped'
    BY <1>1, <1>6, <1>7, Parts, OutsideLeases
  <1> QED
    BY <1>1, <1>2, <1>4, <1>8, OutsideStep

\* A Lease is deleted by its origin, its PoP or a janitor.
LEMMA LeaseGoesKeeps ==
    ASSUME EInv, NEW i \in IDs, OtherDeletes(i) \/ Collect(i) \/ PopEnds(i)
    PROVE  EInv'
  <1>1. /\ UNCHANGED here /\ held' = held /\ UNCHANGED <<remote, pull>>
        /\ Ended(i) /\ jobs' = jobs \cup DeletionEvent(i)
    BY DEF OtherDeletes, Collect, PopEnds, here
  <1>2. JobsTyped'
    BY <1>1, Parts, JobFacts DEF JobsTyped
  <1>3. \/ Lease!Delete(Other, i) \/ Lease!Write(i, Lease!Nothing)
        \/ Lease!DeleteReservation(i, origin[i].pop)
    BY DEF OtherDeletes, Collect, PopEnds
  <1>4. origin' \in [IDs -> Lease!Origins \cup {Lease!Nothing}]
    BY <1>3, Parts, OriginFacts
  <1>5. UNCHANGED over \/ over' = over \cup {i}
    BY <1>1 DEF Ended
  <1>6. LeaseTyped'
    BY <1>1, <1>4, <1>5, Parts, OutsideLeases
  <1> QED
    BY <1>1, <1>2, <1>6, Parts, SamePulls, OutsideStep

\* A PoP reserves an ID, and its leg comes and goes.
LEMMA PopKeeps ==
    ASSUME EInv, NEW i \in IDs, PopReserves(i) \/ PopClaims(i) \/ PopLeaves(i)
    PROVE  EInv'
  <1>1. UNCHANGED here /\ held' = held /\ UNCHANGED <<over, jobs>>
    BY DEF PopReserves, PopClaims, PopLeaves, here
  <1>2. JobsTyped'
    BY <1>1, Parts, SameRest
  <1>3. UNCHANGED pull \/ \E code \in {"none", "lost", "ended", "killed"} : Closing(i, code)
    BY DEF PopReserves, PopClaims, PopLeaves
  <1>4. PullTyped' /\ PullsKept
    BY <1>3, Parts, SamePulls, ClosingFacts
  <1>5. \/ \E pop \in Pops : Lease!Reserve(i, pop)
        \/ Lease!Claim(Other, i, origin[i].pop) \/ Lease!Release(Other, i)
    BY DEF PopReserves, PopClaims, PopLeaves
  <1>6. origin' \in [IDs -> Lease!Origins \cup {Lease!Nothing}]
    BY <1>5, Parts, OriginFacts
  <1>7. UNCHANGED remote \/
            \E what \in {"none", "serving", "away", "ended", "killed"} : Elsewhere(i, what)
    BY DEF PopReserves, PopClaims, PopLeaves
  <1>8. LeaseTyped'
    BY <1>1, <1>6, <1>7, Parts, OutsideLeases
  <1> QED
    BY <1>1, <1>2, <1>4, <1>8, OutsideStep

--------------------------------------------------------------------------------
(* The invariant *)

\* An edge that serves nobody yet.
LEMMA EInvInit == Init => EInv
  <1> SUFFICES ASSUME Init PROVE EInv
    OBVIOUS
  <1>1. Reg!HInv
    BY RegInit DEF Init
  <1>2. Broadcasts \subseteq Lease!Origins
    <2>1. ASSUME NEW b \in Broadcasts
          PROVE  \/ b = [holder |-> Other, gen |-> 1, pop |-> NoPop, away |-> FALSE,
                        expired |-> FALSE]
                 \/ \E pop \in Pops : b = [holder |-> NoPod, gen |-> 0, pop |-> pop,
                                          away |-> FALSE, expired |-> FALSE]
      BY DEF Broadcasts
    <2>2. /\ [holder |-> Other, gen |-> 1, pop |-> NoPop, away |-> FALSE, expired |-> FALSE]
                \in Lease!Origins
          /\ \A pop \in Pops : [holder |-> NoPod, gen |-> 0, pop |-> pop, away |-> FALSE,
                                expired |-> FALSE] \in Lease!Origins
      BY DEF Lease!Origins
    <2> QED
      BY <2>1, <2>2
  <1>3. LeaseTyped
    BY <1>2 DEF Init, LeaseTyped
  <1>4. PullTyped
    <2>1. Unused \in PullStates /\ Unused.at = "done"
      BY DEF Unused, PullStates
    <2> QED
      BY <2>1 DEF Init, PullTyped, Running, PullAt
  <1>5. EdgesTyped /\ JobsTyped
    BY DEF Init, EdgesTyped, JobsTyped
  <1>6. ViewTyped
    <2>1. Outside \in Joins /\ Outside.at = "out" /\ "no" \in Endings
      BY DEF Outside, Joins, Endings
    <2> QED
      BY <2>1 DEF Init, ViewTyped, JoinAt
  <1>7. SlotGivenBack
    BY EdgePullAssumption DEF Init, Hub!Init, Hub!NoHub, SlotGivenBack
  <1> QED
    BY <1>1, <1>3, <1>4, <1>5, <1>6, <1>7 DEF EInv, Typed

\* Every step keeps the invariant.
LEMMA EInvStep == EInv /\ [Next]_vars => EInv'
  <1> SUFFICES ASSUME EInv, [Next]_vars PROVE EInv'
    OBVIOUS
  <1>1. ASSUME NEW p \in Pulls, PullSteps(p) \/ Lingers(p) \/ UpstreamLost(p) PROVE EInv'
    BY <1>1, ResolveKeeps, UpstreamKeeps, AttachKeeps, DetachKeeps, WaitLingersKeeps,
       WaitKeeps, JudgeKeeps, LingeredKeeps, PassOnKeeps, ReleaseKeeps
       DEF PullSteps, Lingers
  <1>2. ASSUME NEW v \in Viewers,
               ViewerSteps(v) \/ Depart(v) \/ \E i \in IDs : Arrive(v, i)
        PROVE  EInv'
    BY <1>2, HandlerKeeps, EnsureWaitKeeps, ViewerKeeps DEF ViewerSteps
  <1>3. ASSUME NEW j \in jobs, JobSteps(j) PROVE EInv'
    BY <1>3, DeletionKeeps, HomeComesKeeps, HomeLeasesKeeps, HomeLeavesKeeps, DemotionKeeps
       DEF JobSteps
  <1>4. ASSUME NEW i \in IDs,
               World(i) \/ LeaseLost(i) \/ GraceExpires(i) \/ OtherDeletes(i) \/ Collect(i)
        PROVE  EInv'
    BY <1>4, HomeMovesKeeps, OtherMovesKeeps, LeaseGoesKeeps, PopKeeps, DemotionKeeps,
       GraceKeeps DEF World
  <1>5. ASSUME UNCHANGED vars PROVE EInv'
    BY <1>5, Parts, SameHubFacts, SamePulls, SameLeases, SameViews, SameRest, QuietStep
       DEF vars
  <1> QED
    BY <1>1, <1>2, <1>3, <1>4, <1>5 DEF Next

--------------------------------------------------------------------------------
(* Theorems *)

\* The inductive invariant holds throughout.
THEOREM EInvHolds == Spec => []EInv
  BY EInvInit, EInvStep, PTL DEF Spec

\* The variables of an edge keep their types, those of its registry included.
THEOREM EdgeTypeCorrect == Spec => []TypeOK
  <1>1. EInv => TypeOK
    BY Parts, RegFacts DEF TypeOK, LeaseTyped, PullTyped, EdgesTyped, ViewTyped, JobsTyped
  <1> QED
    BY <1>1, EInvHolds, PTL

\* A publisher slot is always with the broadcaster's session or with a running pull
\* of that broadcast, which knows that it has it: however a pull ends (its upstream,
\* the linger time, a stop, a lost Lease, a kill), the slot comes back.
THEOREM SlotsGivenBack == Spec => []SlotGivenBack
  <1>1. EInv => SlotGivenBack
    BY DEF EInv
  <1> QED
    BY <1>1, EInvHolds, PTL

--------------------------------------------------------------------------------
(* The end of a broadcast and the end of a pull *)

\* What the state of a pull says of its upstream, which is closed at the top of the
\* loop and on the way out.
Fit(h) ==
    /\ h.at \in {"resolve", "wait", "dial"} => h.up = "none" /\ h.coming = "none"
    /\ h.up = "open" => h.at \in {"attach", "pump"}
    /\ "killed" \in {h.up, h.coming} => h.at \in {"attach", "pump", "killing"}
    /\ h.at = "judge" => h.up = "ended"
    /\ h.at = "killing" => h.up = "killed"
    /\ h.up \in {"ended", "killed"} => h.coming = h.up
PullsFit == \A p \in Pulls : Fit(pull[p])

\* Of a broadcast that goes on, a pull has seen no end but that of an origin before
\* the present one.
Truthful(h) ==
    h.id \in IDs \ over =>
        /\ ~h.gone /\ h.at # "ending"
        /\ h.gen <= origin[h.id].gen
        /\ "ended" \in {h.up, h.coming} =>
              h.gen < origin[h.id].gen \/ origin[h.id].holder = NoPod
PullsTruthful == \A p \in Pulls : Truthful(pull[p])

\* It has a Lease, and nobody ended it.
LeasesLast ==
    /\ \A i \in IDs \ over : Lease!There(i) /\ remote[i] \notin {"ended", "killed"}
    /\ \A i \in IDs : remote[i] = "killed" /\ HolderElsewhere(i) => origin[i].pop = NoPop

\* When its origin is this pod, its broadcaster's session has the slot.
HomeHas(i) == hubs[i].pub = Home /\ ~hubs[i].edge
HomeServes == \A i \in IDs \ over : HolderIsSelf(i) => HomeHas(i)

\* What a goroutine knows; the broadcaster's session is in one place.
BusySteps == {"stop", "stopwait", "lease", "leave"}
Alone(j, k) == {j.at, k.at} \subseteq BusySteps /\ j.id = k.id => j = k
JobSound(j) ==
    /\ j.at \in {"deleted", "deletedwait"} => j.id \in over
    /\ j.at \in {"stop", "stopwait", "lease"} => j.id \in over \/ origin[j.id].pop = NoPop
    /\ j.at \in {"lease", "leave"} => pubs[Home].id = j.id
    /\ j.at = "lease" => j.id \in over \/ HomeHas(j.id)
JobsSound == \A j \in jobs : JobSound(j) /\ \A k \in jobs : Alone(j, k)

\* A pull that runs is the one in the map, or one a StopEdge waits for.
Stopping(i, p) == \E j \in jobs : j.id = i /\ j.pull = p /\ j.at \in {"stopwait", "deletedwait"}
Mapped ==
    /\ \A i \in IDs : edges[i] \in Pulls =>
          Running(edges[i]) /\ pull[edges[i]].id = i /\ ~pull[edges[i]].stop
    /\ \A p \in Pulls : Running(p) => edges[pull[p].id] = p \/ Stopping(pull[p].id, p)

\* An edge's hub is not left without a pull, unless its broadcaster is coming home.
Fed(i) == edges[i] \in Pulls /\ ~PullAt(edges[i], "release")
Coming(i) == \E j \in jobs : j.id = i /\ j.at = "stopwait"
EdgeHub(i) == Hub!Known(i) /\ hubs[i].edge
HubsFed == \A i \in IDs \ over : EdgeHub(i) => Fed(i) \/ Coming(i)

\* A subscriber is where its handler brought it, and not yet told anything.
ViewerSound(v) ==
    /\ subs[v].id # NoID => subs[v].id = join[v].id /\ JoinAt(v, "in") /\ told[v] = "no"
    /\ told[v] = "ended" => join[v].id \in over
ViewersSound == \A v \in Viewers : ViewerSound(v)

\* A pull whose origin was killed is in the map; nothing else ends its hub.
Killed(h) == "killed" \in {h.up, h.coming}
KillsPass ==
    \A p \in Pulls : Killed(pull[p]) =>
        /\ edges[pull[p].id] = p /\ remote[pull[p].id] = "killed"
        /\ \A j \in jobs : j.id = pull[p].id =>
              j.at \notin {"deletedwait", "stop", "stopwait", "lease"}

TInv == /\ PullsFit /\ PullsTruthful /\ LeasesLast /\ HomeServes /\ JobsSound
        /\ Mapped /\ HubsFed /\ ViewersSound /\ KillsPass

--------------------------------------------------------------------------------
(* What the registry's steps do to a hub's publisher and role *)

HomeKept == /\ pubs'[Home].id = pubs[Home].id
            /\ \A i \in IDs \ over' : HomeHas(i) => HomeHas(i)'
NoNewEdge == \A i \in IDs : EdgeHub(i)' => EdgeHub(i)
Cut(i) == subs' = [v \in Viewers |-> IF Hub!On(v, i) THEN Hub!NotSubscribed ELSE subs[v]]

\* The registry's handles are in the slots.
LEMMA HandleFacts ==
    ASSUME Reg!HInv, NEW s \in Pulls \cup {Home}
    PROVE  /\ ~pubs[s].closed => hubs[pubs[s].id].pub = s
           /\ \A i \in IDs : hubs[i] \in Hub!Hubs
           /\ pubs \in [Pulls \cup {Home} -> Hub!Handles \cup {Hub!NoHandle}]
           /\ Hub!NoHandle.id = NoID
  <1>1. Reg!SlotOwnedByHandle
    BY DEF Reg!HInv
  <1> QED
    BY <1>1, RegFacts DEF Reg!SlotOwnedByHandle, Hub!TypeOK, Hub!NoHandle

\* A pull that closes its handle leaves the broadcaster's session alone.
LEMMA ClosedByPull ==
    ASSUME Reg!HInv, NEW p \in Pulls, Hub!Close(p)
    PROVE  HomeKept /\ NoNewEdge /\ UNCHANGED subs
  <1>1. p # Home /\ pubs'[Home] = pubs[Home] /\ UNCHANGED subs
    BY EdgePullAssumption, HandleFacts DEF Hub!Close, Hub!Finish
  <1>2. CASE pubs[p].closed
    <2>1. hubs' = hubs
      BY <1>2 DEF Hub!Close, Hub!closePublisher
    <2> QED
      BY <1>1, <2>1 DEF HomeKept, NoNewEdge, HomeHas, EdgeHub, Hub!Known
  <1>3. CASE ~pubs[p].closed
    <2> DEFINE k == pubs[p].id
    <2>1. hubs' = [hubs EXCEPT ![k] = Hub!slotFreed(hubs[k])] /\ hubs[k].pub = p
      BY <1>3, HandleFacts DEF Hub!Close, Hub!closePublisher
    <2>2. ASSUME NEW i \in IDs
          PROVE  /\ i # k => hubs'[i] = hubs[i]
                 /\ hubs'[i].edge = hubs[i].edge /\ hubs'[i].obj = hubs[i].obj
      <3>1. hubs[i] \in Hub!Hubs
        BY HandleFacts
      <3>2. Hub!slotFreed(hubs[i]).edge = hubs[i].edge /\ Hub!slotFreed(hubs[i]).obj = hubs[i].obj
        BY <3>1 DEF Hub!slotFreed, Hub!Hubs
      <3> QED
        BY <2>1, <3>2, RegFacts
    <2> QED
      BY <1>1, <2>1, <2>2 DEF HomeKept, NoNewEdge, HomeHas, EdgeHub, Hub!Known
  <1> QED
    BY <1>2, <1>3

\* Neither does a pull that claims a slot, which makes the hub an edge's.
LEMMA ClaimedByPull ==
    ASSUME Reg!HInv, NEW p \in Pulls, NEW i \in IDs, Hub!EdgePublish(p, i)
    PROVE  /\ HomeKept /\ UNCHANGED subs
           /\ \A k \in IDs \ {i} : EdgeHub(k)' => EdgeHub(k)
  <1>1. p # Home /\ UNCHANGED subs /\ pubs'[Home] = pubs[Home]
    BY EdgePullAssumption, HandleFacts DEF Hub!EdgePublish
  <1>2. hubs[i].pub # Home
    BY EdgePullAssumption DEF Hub!EdgePublish, Hub!publisherActive
  <1>3. \A k \in IDs : k # i => hubs'[k] = hubs[k]
    BY RegFacts DEF Hub!EdgePublish, Hub!Claim
  <1> QED
    BY <1>1, <1>2, <1>3 DEF HomeKept, HomeHas, EdgeHub, Hub!Known

\* A hub that is removed takes its subscribers with it.
LEMMA RemovedFacts ==
    ASSUME Reg!HInv, NEW i \in IDs,
           Hub!EndBroadcast(i) \/ Hub!ExpireEdgeIfViewerless(i) \/ Hub!TerminateBroadcast(i)
    PROVE  /\ NoNewEdge /\ Cut(i) /\ ~EdgeHub(i)'
           /\ pubs'[Home].id = pubs[Home].id
           /\ \A k \in IDs : k # i => hubs'[k] = hubs[k]
           /\ ~Hub!TerminateBroadcast(i) => hubs[i].pub # Home
           /\ hubs'[i] = Hub!NoHub
  <1>1. hubs' = [hubs EXCEPT ![i] = Hub!NoHub] /\ Cut(i)
    BY DEF Hub!EndBroadcast, Hub!ExpireEdgeIfViewerless, Hub!TerminateBroadcast,
           Hub!Terminated, Hub!removeBroadcast, Hub!Unsubscribed, Cut
  <1>2. Hub!NoHub.obj = 0
    BY DEF Hub!NoHub
  <1>3. NoNewEdge /\ ~EdgeHub(i)' /\ (\A k \in IDs : k # i => hubs'[k] = hubs[k])
        /\ hubs'[i] = Hub!NoHub
    BY <1>1, <1>2, RegFacts DEF NoNewEdge, EdgeHub, Hub!Known
  <1>4. pubs'[Home].id = pubs[Home].id
    <2>1. CASE UNCHANGED pubs
      BY <2>1
    <2>2. CASE Hub!TerminateBroadcast(i)
      <3>1. pubs'[Home] \in {pubs[Home], Hub!Deposed(pubs[Home])}
        BY <2>2 DEF Hub!TerminateBroadcast, Hub!Terminated
      <3>2. Hub!Deposed(pubs[Home]).id = pubs[Home].id
        BY HandleFacts DEF Hub!Deposed, Hub!Handles, Hub!NoHandle
      <3> QED
        BY <3>1, <3>2
    <2> QED
      BY <2>1, <2>2 DEF Hub!EndBroadcast, Hub!ExpireEdgeIfViewerless
  <1>5. ~Hub!TerminateBroadcast(i) => hubs[i].pub # Home
    BY EdgePullAssumption
       DEF Hub!EndBroadcast, Hub!ExpireEdgeIfViewerless, Hub!publisherActive
  <1> QED
    BY <1>1, <1>3, <1>4, <1>5

\* A hub that nobody publishes to, or a broadcast that is over, is removed: the
\* broadcaster's session keeps what it serves.
LEMMA RemovedKept ==
    ASSUME Reg!HInv, NEW i \in IDs,
           \/ Hub!EndBroadcast(i) \/ Hub!ExpireEdgeIfViewerless(i)
           \/ Hub!TerminateBroadcast(i) /\ i \in over'
    PROVE  HomeKept /\ NoNewEdge /\ Cut(i) /\ ~EdgeHub(i)'
  <1>1. \A k \in IDs : k # i => (HomeHas(k) => HomeHas(k)')
    BY RemovedFacts DEF HomeHas
  <1>2. i \notin over' => ~HomeHas(i)
    <2>1. ~Hub!TerminateBroadcast(i) => hubs[i].pub # Home
      BY RemovedFacts
    <2>2. Hub!EndBroadcast(i) \/ Hub!ExpireEdgeIfViewerless(i) => hubs[i].pub # Home
      BY EdgePullAssumption
         DEF Hub!EndBroadcast, Hub!ExpireEdgeIfViewerless, Hub!publisherActive
    <2> QED
      BY <2>2 DEF HomeHas
  <1> QED
    BY <1>1, <1>2, RemovedFacts DEF HomeKept

\* A broadcaster that comes home takes the slot and the hub is an origin's.
LEMMA ClaimedByHome ==
    ASSUME Reg!HInv, NEW i \in IDs, Hub!ResumePublish(Home, i) \/ Hub!TakeOverPublish(Home, i)
    PROVE  /\ NoNewEdge /\ HomeHas(i)' /\ UNCHANGED subs
           /\ Hub!Idle(Home) /\ pubs'[Home].id = i
           /\ \A k \in IDs : hubs[k].pub # Home
           /\ \A k \in IDs : k # i => hubs'[k] = hubs[k]
  <1>1. PICK b : /\ b \in {hubs[i], Hub!newHub(i)}
                 /\ hubs' = [hubs EXCEPT ![i] = Hub!claimed(b, Home, FALSE)]
                 /\ pubs'[Home] = Hub!Handle(i, b, FALSE)
    <2>1. pubs \in [Pulls \cup {Home} -> Hub!Handles \cup {Hub!NoHandle}]
      BY HandleFacts
    <2> QED
      BY <2>1 DEF Hub!ResumePublish, Hub!TakeOverPublish, Hub!Claim
  <1>2. Hub!claimed(b, Home, FALSE).pub = Home /\ Hub!claimed(b, Home, FALSE).edge = FALSE
    <2>1. {"pub", "edge"} \subseteq DOMAIN b
      BY <1>1, HandleFacts DEF Hub!Hubs, Hub!newHub, Hub!NoHub
    <2> QED
      BY <2>1 DEF Hub!claimed
  <1>3. HomeHas(i)' /\ ~EdgeHub(i)' /\ \A k \in IDs : k # i => hubs'[k] = hubs[k]
    BY <1>1, <1>2, RegFacts DEF HomeHas, EdgeHub
  <1>4. pubs'[Home].id = i
    BY <1>1 DEF Hub!Handle
  <1>5. Hub!Idle(Home) /\ UNCHANGED subs
    BY DEF Hub!ResumePublish, Hub!TakeOverPublish
  <1>6. \A k \in IDs : hubs[k].pub # Home
    BY <1>5, RegFacts
  <1>7. NoNewEdge
    BY <1>3 DEF NoNewEdge, EdgeHub, Hub!Known
  <1> QED
    BY <1>3, <1>4, <1>5, <1>6, <1>7

\* It closes its handle.
LEMMA ClosedByHome ==
    ASSUME Reg!HInv, Hub!Close(Home)
    PROVE  /\ NoNewEdge /\ UNCHANGED subs /\ pubs'[Home].id = NoID
           /\ \A k \in IDs : hubs[k].pub = Home => ~pubs[Home].closed /\ pubs[Home].id = k
  <1>1. pubs'[Home].id = NoID /\ UNCHANGED subs
    BY HandleFacts DEF Hub!Close, Hub!Finish
  <1>2. ASSUME NEW i \in IDs
        PROVE  hubs'[i].edge = hubs[i].edge /\ hubs'[i].obj = hubs[i].obj
    <2>1. hubs[i] \in Hub!Hubs
      BY HandleFacts
    <2>2. Hub!slotFreed(hubs[i]).edge = hubs[i].edge /\ Hub!slotFreed(hubs[i]).obj = hubs[i].obj
      BY <2>1 DEF Hub!slotFreed, Hub!Hubs
    <2> QED
      BY <2>2, RegFacts DEF Hub!Close, Hub!closePublisher
  <1>3. NoNewEdge
    BY <1>2 DEF NoNewEdge, EdgeHub, Hub!Known
  <1>4. \A k \in IDs : hubs[k].pub = Home => ~pubs[Home].closed /\ pubs[Home].id = k
    BY RegFacts
  <1> QED
    BY <1>1, <1>3, <1>4

\* A step that leaves the registry alone.
LEMMA HubsSame ==
    ASSUME UNCHANGED hubVars
    PROVE  HomeKept /\ NoNewEdge /\ UNCHANGED subs
  BY DEF hubVars, HomeKept, NoNewEdge, HomeHas, EdgeHub, Hub!Known

--------------------------------------------------------------------------------
(* What keeps the parts *)

\* The parts of the invariant, and of what it is about.
LEMMA TParts ==
    ASSUME TInv, EInv
    PROVE  /\ PullsFit /\ PullsTruthful /\ LeasesLast /\ HomeServes /\ JobsSound
           /\ Mapped /\ HubsFed /\ ViewersSound /\ KillsPass
           /\ Reg!HInv /\ LeaseTyped /\ PullTyped /\ EdgesTyped /\ ViewTyped /\ JobsTyped
           /\ \A j \in jobs : j \in Jobs /\ j.id \in IDs
           /\ \A p \in Pulls : pull[p] \in PullStates /\ (Running(p) => pull[p].id \in IDs)
  BY Parts DEF TInv, JobsTyped, Jobs

\* A goroutine knows what it knew.
LEMMA JobKept ==
    ASSUME NEW j \in Jobs, JobSound(j), HomeKept, over \subseteq over',
           origin'[j.id].pop = origin[j.id].pop \/ j.id \in over'
    PROVE  JobSound(j)'
  <1>1. j.id \in IDs
    BY DEF Jobs
  <1> QED
    BY <1>1 DEF JobSound, HomeKept

\* All of them do if none is added.
LEMMA JobsKept ==
    ASSUME JobsTyped, JobsSound, HomeKept, over \subseteq over', jobs' \subseteq jobs,
           \A i \in IDs : origin'[i].pop = origin[i].pop \/ i \in over'
    PROVE  JobsSound'
  <1>1. ASSUME NEW j \in jobs' PROVE JobSound(j)'
    <2>1. j \in Jobs /\ JobSound(j) /\ j.id \in IDs
      BY DEF JobsTyped, JobsSound, Jobs
    <2> QED
      BY <2>1, JobKept
  <1>2. \A j, k \in jobs' : Alone(j, k)
    BY DEF JobsSound
  <1> QED
    BY <1>1, <1>2 DEF JobsSound, Alone

\* Viewers to whom nothing happens.
LEMMA ViewersKept ==
    ASSUME ViewersSound, UNCHANGED <<subs, viewVars>>, over \subseteq over'
    PROVE  ViewersSound'
  BY DEF ViewersSound, ViewerSound, viewVars, JoinAt

\* The viewers of a hub that goes are told so, and the truth.
LEMMA ViewersTold ==
    ASSUME ViewersSound, ViewTyped, NEW i \in IDs, NEW code, Tell(code),
           Cut(i) \/ UNCHANGED subs,
           over \subseteq over', code = "ended" => i \in over' \/ UNCHANGED subs
    PROVE  ViewersSound'
  <1>1. ASSUME NEW v \in Viewers PROVE ViewerSound(v)'
    <2>1. /\ told'[v] = IF subs[v].id # NoID /\ subs'[v].id = NoID THEN code ELSE told[v]
          /\ join' = join
      BY DEF Tell
    <2>2. Hub!NotSubscribed.id = NoID /\ NoID \notin IDs
      BY EdgePullAssumption DEF Hub!NotSubscribed
    <2>3. ViewerSound(v)
      BY DEF ViewersSound
    <2>4. CASE UNCHANGED subs
      BY <2>1, <2>3, <2>4 DEF ViewerSound, JoinAt
    <2>5. CASE Cut(i) /\ ~UNCHANGED subs
      <3>1. subs'[v] = IF subs[v].id = i THEN Hub!NotSubscribed ELSE subs[v]
        BY <2>5 DEF Cut, Hub!On
      <3>2. CASE subs[v].id = i
        BY <2>1, <2>2, <2>3, <2>5, <3>1, <3>2 DEF ViewerSound, JoinAt
      <3>3. CASE subs[v].id # i
        BY <2>1, <2>3, <3>1, <3>3 DEF ViewerSound, JoinAt
      <3> QED
        BY <3>2, <3>3
    <2> QED
      BY <2>4, <2>5
  <1> QED
    BY <1>1 DEF ViewersSound

\* What the step of a pull's loop may make of its state.
Goes(g, h) ==
    /\ h.at # "done" /\ h.id = g.id /\ h.stop = g.stop
    /\ Fit(h) /\ Truthful(h) /\ (Killed(h) => Killed(g))
\* It gives up only what nobody needs.
Entitled(g, h) ==
    h.at = "release" => g.at = "release" \/ g.stop \/ g.id \in over \/ ~EdgeHub(h.id)'

\* Such a step keeps the invariant.
LEMMA PullStep ==
    ASSUME EInv, TInv, NEW p \in Pulls, Running(p), NEW h \in PullStates,
           Goes(pull[p], h), Entitled(pull[p], h),
           pull' = [pull EXCEPT ![p] = h],
           UNCHANGED <<origin, remote, over, jobs, edges>>,
           HomeKept, ViewersSound',
           \A k \in IDs : EdgeHub(k)' => EdgeHub(k) \/ (k = h.id /\ h.at # "release")
    PROVE  TInv'
  <1> DEFINE g == pull[p]
             i == g.id
  <1>1. /\ pull'[p] = h /\ \A q \in Pulls \ {p} : pull'[q] = pull[q]
        /\ i \in IDs /\ g.at # "done"
    BY TParts DEF PullTyped, Running, PullAt
  <1>2. PullsFit'
    BY <1>1, TParts DEF PullsFit, Goes
  <1>3. PullsTruthful'
    <2>1. \A q \in Pulls : Truthful(pull'[q])
      BY <1>1, TParts DEF PullsTruthful, Goes
    <2> QED
      BY <2>1 DEF PullsTruthful, Truthful
  <1>4. LeasesLast' /\ HomeServes'
    BY TParts DEF LeasesLast, HomeServes, HomeKept, HolderIsSelf, HolderElsewhere, Lease!There
  <1>5. JobsSound'
    BY TParts, JobsKept
  <1>6. Mapped'
    <2>1. ASSUME NEW k \in IDs, edges'[k] \in Pulls
          PROVE  Running(edges[k])' /\ pull'[edges[k]].id = k /\ ~pull'[edges[k]].stop
      BY <1>1, <2>1, TParts DEF Mapped, Running, PullAt, Goes
    <2>2. ASSUME NEW q \in Pulls, Running(q)'
          PROVE  edges[pull'[q].id] = q \/ Stopping(pull'[q].id, q)
      BY <1>1, <2>2, TParts DEF Mapped, Running, PullAt, Goes
    <2> QED
      BY <2>1, <2>2 DEF Mapped, Stopping
  <1>7. HubsFed'
    <2> SUFFICES ASSUME NEW k \in IDs \ over, EdgeHub(k)', ~Coming(k)
                 PROVE  edges[k] \in Pulls /\ pull'[edges[k]].at # "release"
      BY DEF HubsFed, Fed, Coming, PullAt
    <2>1. CASE k # i
      <3>1. Fed(k)
        BY <2>1, TParts DEF HubsFed, Goes
      <3>2. edges[k] # p
        BY <2>1, <3>1, TParts DEF Mapped, Fed
      <3> QED
        BY <1>1, <3>1, <3>2 DEF Fed, PullAt
    <2>2. CASE k = i
      <3>1. edges[k] = p
        <4>1. ~Stopping(i, p)
          BY <2>2, TParts DEF Stopping, Coming, JobsSound, JobSound
        <4> QED
          BY <2>2, <4>1, TParts DEF Mapped
      <3>2. ~g.stop
        BY <3>1, TParts DEF Mapped
      <3>3. g.at = "release" => h.at # "release"
        <4>1. EdgeHub(k) => g.at # "release"
          BY <3>1, TParts DEF HubsFed, Fed, PullAt
        <4> QED
          BY <4>1
      <3>4. h.at # "release"
        BY <2>2, <3>2, <3>3 DEF Entitled, Goes
      <3> QED
        BY <1>1, <3>1, <3>4
    <2> QED
      BY <2>1, <2>2
  <1>8. KillsPass'
    BY <1>1, TParts DEF KillsPass, Goes
  <1> QED
    BY <1>2, <1>3, <1>4, <1>5, <1>6, <1>7, <1>8 DEF TInv

\* The fields a step of the loop leaves alone, and an upstream that is closed.
Like(g, h) == h.id = g.id /\ h.gen = g.gen /\ h.stop = g.stop /\ h.gone = g.gone
Closed(h) == h.up = "none" /\ h.coming = "none"
SameEnds(g, h) == h.up = g.up /\ h.coming = g.coming

\* Moving on, field by field ...
LEMMA MovedFields ==
    ASSUME NEW g \in PullStates, NEW step \in Steps, NEW h, h = Moved(g, step)
    PROVE  /\ h \in PullStates /\ h.at = step /\ h.slot = g.slot
           /\ Like(g, h) /\ SameEnds(g, h) /\ (Closed(g) => Closed(h))
  BY DEF Like, SameEnds, Closed, Moved, PullStates, Steps

\* ... a report ...
LEMMA SignalFields ==
    ASSUME NEW g \in PullStates, NEW a \in {"yes", "failed"}, NEW h, h = Signal(g, a)
    PROVE  /\ h \in PullStates /\ h.at = g.at /\ h.slot = g.slot
           /\ Like(g, h) /\ SameEnds(g, h) /\ (Closed(g) => Closed(h))
  BY DEF Like, SameEnds, Closed, Signal, PullStates

\* ... and a retry.
LEMMA RetriedFields ==
    ASSUME NEW g \in PullStates, NEW step \in Steps, NEW h, h = Retried(g, step)
    PROVE  /\ h \in PullStates /\ (h.at = step \/ (h.at = "release" /\ g.stop))
           /\ h.slot = g.slot /\ Like(g, h) /\ Closed(h)
  BY DEF Like, Closed, Retried, PullStates, Steps

\* A pull that goes on with its upstream closed.
LEMMA GoesClosed ==
    ASSUME NEW g \in PullStates, NEW h \in PullStates, Truthful(g), Like(g, h), Closed(h),
           h.at \notin {"judge", "ending", "killing", "done"}
    PROVE  Goes(g, h)
  BY DEF Like, Closed, Goes, Fit, Truthful, Killed

\* A pull that goes on with what it knows of its upstream.
LEMMA GoesAlong ==
    ASSUME NEW g \in PullStates, NEW h \in PullStates, Truthful(g), Like(g, h), SameEnds(g, h),
           Fit(h), h.at # "done", h.at = "ending" => g.id \in over
    PROVE  Goes(g, h)
  BY DEF Like, SameEnds, Goes, Truthful, Killed

\* What a pull that takes a step is.
LEMMA PullFacts ==
    ASSUME EInv, TInv, NEW p \in Pulls, ~PullAt(p, "done")
    PROVE  /\ Running(p) /\ pull[p] \in PullStates /\ pull[p].id \in IDs
           /\ Fit(pull[p]) /\ Truthful(pull[p])
  BY TParts DEF Running, PullsFit, PullsTruthful

\* A step of one pull that touches no hub.
LEMMA PullOnly ==
    ASSUME EInv, TInv, NEW p \in Pulls, Running(p), NEW h \in PullStates,
           Goes(pull[p], h), Entitled(pull[p], h),
           pull' = [pull EXCEPT ![p] = h],
           UNCHANGED <<hubVars, origin, remote, over, jobs, edges, viewVars>>
    PROVE  TInv'
  <1>1. HomeKept /\ NoNewEdge /\ UNCHANGED subs
    BY HubsSame
  <1>2. ViewersSound'
    BY <1>1, TParts, ViewersKept
  <1>3. \A k \in IDs : EdgeHub(k)' => EdgeHub(k)
    BY <1>1 DEF NoNewEdge
  <1> QED
    BY <1>1, <1>2, <1>3, PullStep

\* Resolving: the pull of a broadcast that goes on gives up only when this pod is the
\* origin.
LEMMA ResolveStep ==
    ASSUME EInv, TInv, NEW p \in Pulls, Resolve(p)
    PROVE  TInv'
  <1> DEFINE g == pull[p]
             i == g.id
  <1>1. /\ Running(p) /\ g \in PullStates /\ i \in IDs /\ Fit(g) /\ Truthful(g)
        /\ g.at = "resolve" /\ Closed(g)
    BY PullFacts DEF Resolve, PullAt, Fit, Closed
  <1>2. UNCHANGED <<hubVars, origin, remote, over, jobs, edges, viewVars>>
    BY DEF Resolve, leaseVars
  <1>3. PICK h : /\ h = AfterResolve(g) \/ h = Unresolved(g)
                 /\ pull' = [pull EXCEPT ![p] = h]
    BY DEF Resolve
  <1>4. pull' = [pull EXCEPT ![p] = h]
    BY <1>3
  <1>5. h \in PullStates /\ Goes(g, h) /\ Entitled(g, h)
    <2>0. ASSUME h = Unresolved(g)
          PROVE  h \in PullStates /\ Goes(g, h) /\ Entitled(g, h)
      <3>1. h = Moved(Signal(g, "failed"), "resolve")
        BY <2>0 DEF Unresolved
      <3>2. PICK m : m = Signal(g, "failed")
        OBVIOUS
      <3>3. m \in PullStates /\ Like(g, m) /\ Closed(m)
        BY <1>1, <3>2, SignalFields
      <3>4. h \in PullStates /\ h.at = "resolve" /\ Like(m, h) /\ Closed(h)
        BY <3>1, <3>2, <3>3, MovedFields DEF Steps
      <3>5. Like(g, h)
        BY <3>3, <3>4 DEF Like
      <3> QED
        BY <1>1, <3>4, <3>5, GoesClosed DEF Entitled
    <2>a. SUFFICES ASSUME h = AfterResolve(g)
                   PROVE  h \in PullStates /\ Goes(g, h) /\ Entitled(g, h)
      BY <1>3, <2>0
    <2>1. CASE g.stop
      <3>1. h = Moved(g, "release")
        BY <2>a, <2>1 DEF AfterResolve
      <3>2. h \in PullStates /\ h.at = "release" /\ Like(g, h) /\ Closed(h)
        BY <1>1, <3>1, MovedFields DEF Steps
      <3> QED
        BY <1>1, <2>1, <3>2, GoesClosed DEF Entitled
    <2>2. CASE ~g.stop /\ ~Lease!There(i)
      <3>1. PICK k : k = [g EXCEPT !.gone = TRUE]
        OBVIOUS
      <3>2. PICK m : m = Signal(k, "failed")
        OBVIOUS
      <3>3. h = Moved(m, "release")
        BY <2>a, <2>2, <3>1, <3>2 DEF AfterResolve
      <3>4. k \in PullStates /\ k.id = i /\ k.stop = g.stop /\ Closed(k)
        BY <1>1, <3>1 DEF PullStates, Closed
      <3>5. m \in PullStates /\ m.id = i /\ m.stop = g.stop /\ Closed(m)
        BY <3>2, <3>4, SignalFields DEF Like
      <3>6. h \in PullStates /\ h.at = "release" /\ h.id = i /\ h.stop = g.stop /\ Closed(h)
        BY <3>3, <3>5, MovedFields DEF Steps, Like
      <3>7. i \in over
        BY <1>1, <2>2, TParts DEF LeasesLast
      <3> QED
        BY <1>1, <3>6, <3>7 DEF Goes, Fit, Truthful, Killed, Closed, Entitled
    <2>3. CASE ~g.stop /\ Lease!There(i) /\ HolderIsSelf(i)
      <3>1. h = Moved(Signal(g, "yes"), "release")
        BY <2>a, <2>3, EdgePullAssumption DEF AfterResolve, HolderIsSelf, Dormant, HolderElsewhere
      <3>2. PICK m : m = Signal(g, "yes")
        OBVIOUS
      <3>3. m \in PullStates /\ Like(g, m) /\ Closed(m)
        BY <1>1, <3>2, SignalFields
      <3>4. h \in PullStates /\ h.at = "release" /\ Like(m, h) /\ Closed(h)
        BY <3>1, <3>2, <3>3, MovedFields DEF Steps
      <3>5. Like(g, h)
        BY <3>3, <3>4 DEF Like
      <3>6. i \in over \/ ~EdgeHub(i)
        BY <1>1, <2>3, TParts DEF HomeServes, HomeHas, EdgeHub
      <3>7. EdgeHub(h.id)' <=> EdgeHub(i)
        BY <1>2, <3>5 DEF EdgeHub, Hub!Known, hubVars, Like
      <3> QED
        BY <1>1, <3>4, <3>5, <3>6, <3>7, GoesClosed DEF Entitled
    <2>4. CASE ~g.stop /\ Lease!There(i) /\ ~HolderIsSelf(i) /\ Dormant(i)
      <3>1. h = Moved(g, "wait")
        BY <2>a, <2>4, EdgePullAssumption DEF AfterResolve, Dormant, HolderElsewhere
      <3>2. h \in PullStates /\ h.at = "wait" /\ Like(g, h) /\ Closed(h)
        BY <1>1, <3>1, MovedFields DEF Steps
      <3> QED
        BY <1>1, <3>2, GoesClosed DEF Entitled
    <2>5. CASE /\ ~g.stop /\ Lease!There(i) /\ ~HolderIsSelf(i) /\ ~Dormant(i)
               /\ HolderElsewhere(i)
      <3>1. PICK k : k = Moved(g, "dial")
        OBVIOUS
      <3>2. k \in PullStates /\ k.at = "dial" /\ Like(g, k) /\ Closed(k)
        BY <1>1, <3>1, MovedFields DEF Steps
      <3>3. h = [k EXCEPT !.gen = origin[i].gen]
        BY <2>a, <2>5, <3>1 DEF AfterResolve
      <3>4. origin[i].gen \in Nat
        BY <1>1, <2>5, Parts DEF HolderElsewhere, Lease!There, LeaseTyped, Lease!Origins
      <3>5. /\ h \in PullStates /\ h.at = "dial" /\ h.id = i /\ h.stop = g.stop
            /\ h.gone = g.gone /\ h.gen = origin[i].gen /\ Closed(h)
        BY <3>2, <3>3, <3>4 DEF PullStates, Like, Closed
      <3> QED
        BY <1>1, <3>4, <3>5 DEF Goes, Fit, Truthful, Killed, Closed, Entitled
    <2>6. CASE /\ ~g.stop /\ Lease!There(i) /\ ~HolderIsSelf(i) /\ ~Dormant(i)
               /\ ~HolderElsewhere(i)
      BY <2>0, <2>6, <2>a DEF AfterResolve
    <2> QED
      BY <2>1, <2>2, <2>3, <2>4, <2>5, <2>6
  <1> HIDE DEF g
  <1> QED
    BY <1>1, <1>2, <1>4, <1>5, PullOnly DEF g

\* Dialing: the origin's end comes only of a broadcast that was killed.
LEMMA DialStep ==
    ASSUME EInv, TInv, NEW p \in Pulls, Dial(p)
    PROVE  TInv'
  <1> DEFINE g == pull[p]
             i == g.id
  <1>1. /\ Running(p) /\ g \in PullStates /\ i \in IDs /\ Fit(g) /\ Truthful(g)
        /\ g.at = "dial" /\ Closed(g)
    BY PullFacts DEF Dial, PullAt, Fit, Closed
  <1>2. UNCHANGED <<hubVars, origin, remote, over, jobs, edges, viewVars>>
    BY DEF Dial, leaseVars
  <1>3. CASE Accepts(i, g.gen) /\ ~g.stop
    <2>1. PICK k : k = Moved(g, "attach")
      OBVIOUS
    <2>2. k \in PullStates /\ k.at = "attach" /\ Like(g, k)
      BY <1>1, <2>1, MovedFields DEF Steps
    <2>3. PICK c : c = IF remote[i] = "serving" THEN "none" ELSE "ended"
      OBVIOUS
    <2>4. PICK h : h = [k EXCEPT !.up = "open", !.coming = c]
      OBVIOUS
    <2>5. pull' = [pull EXCEPT ![p] = h]
      BY <1>3, <2>1, <2>3, <2>4 DEF Dial
    <2>6. /\ h \in PullStates /\ h.at = "attach" /\ Like(g, h)
          /\ h.up = "open" /\ h.coming = c
      BY <2>2, <2>3, <2>4 DEF PullStates, Like
    <2>7. i \in over \/ c = "none"
      BY <1>1, <1>3, <2>3, TParts DEF Accepts, LeasesLast
    <2>8. Goes(g, h)
      BY <1>1, <2>3, <2>6, <2>7 DEF Goes, Fit, Truthful, Killed, Like
    <2>9. Entitled(g, h)
      BY <2>6 DEF Entitled
    <2> QED
      BY <1>1, <1>2, <2>5, <2>6, <2>8, <2>9, PullOnly
  <1>4. CASE ~(Accepts(i, g.gen) /\ ~g.stop)
    <2>1. PICK m : m = Signal(g, "failed")
      OBVIOUS
    <2>2. PICK h : h = Moved(m, "resolve")
      OBVIOUS
    <2>3. pull' = [pull EXCEPT ![p] = h]
      BY <1>4, <2>1, <2>2 DEF Dial
    <2>4. m \in PullStates /\ Like(g, m) /\ Closed(m)
      BY <1>1, <2>1, SignalFields
    <2>5. h \in PullStates /\ h.at = "resolve" /\ Like(m, h) /\ Closed(h)
      BY <2>2, <2>4, MovedFields DEF Steps
    <2>6. Like(g, h)
      BY <2>4, <2>5 DEF Like
    <2>7. Goes(g, h) /\ Entitled(g, h)
      BY <1>1, <2>5, <2>6, GoesClosed DEF Entitled
    <2> QED
      BY <1>1, <1>2, <2>3, <2>5, <2>7, PullOnly
  <1> QED
    BY <1>3, <1>4

\* An upstream that is closed, or lost.
LEMMA UpstreamStep ==
    ASSUME EInv, TInv, NEW p \in Pulls, UpstreamCloses(p) \/ UpstreamLost(p)
    PROVE  TInv'
  <1> DEFINE g == pull[p]
  <1>1. /\ Running(p) /\ g \in PullStates /\ Fit(g) /\ Truthful(g)
        /\ g.at \in {"attach", "pump"}
    BY PullFacts DEF UpstreamCloses, UpstreamLost, PullAt
  <1>2. UNCHANGED <<hubVars, origin, remote, over, jobs, edges, viewVars>>
    BY DEF UpstreamCloses, UpstreamLost, leaseVars, here
  <1>3. PICK u \in {"lost", g.coming} : /\ pull' = [pull EXCEPT ![p] = [g EXCEPT !.up = u]]
                                        /\ u # "none"
    BY DEF UpstreamCloses, UpstreamLost
  <1>4. PICK h : h = [g EXCEPT !.up = u]
    OBVIOUS
  <1>5. /\ h \in PullStates /\ h.at = g.at /\ Like(g, h) /\ h.up = u /\ h.coming = g.coming
        /\ g.coming \in {"none", "lost", "ended", "killed"}
    BY <1>1, <1>3, <1>4 DEF PullStates, Like
  <1>6. Goes(g, h)
    BY <1>1, <1>3, <1>5 DEF Goes, Fit, Truthful, Killed, Like
  <1>7. Entitled(g, h) /\ pull' = [pull EXCEPT ![p] = h]
    BY <1>1, <1>3, <1>4, <1>5 DEF Entitled
  <1> QED
    BY <1>1, <1>2, <1>5, <1>6, <1>7, PullOnly

\* A pull claims the slot of its hub, or closes its handle, and goes on.
LEMMA PullHub ==
    ASSUME EInv, TInv, NEW p \in Pulls, Running(p), NEW h \in PullStates,
           Goes(pull[p], h), Entitled(pull[p], h),
           pull' = [pull EXCEPT ![p] = h],
           UNCHANGED <<origin, remote, over, jobs, edges, viewVars>>,
           Hub!Close(p) \/ (Hub!EdgePublish(p, h.id) /\ h.at # "release")
    PROVE  TInv'
  <1>1. h.id \in IDs
    BY TParts DEF Goes
  <1>2. HomeKept /\ UNCHANGED subs
    BY <1>1, TParts, ClosedByPull, ClaimedByPull
  <1>3. ViewersSound'
    BY <1>2, TParts, ViewersKept
  <1>4. \A k \in IDs : EdgeHub(k)' => EdgeHub(k) \/ (k = h.id /\ h.at # "release")
    BY <1>1, TParts, ClosedByPull, ClaimedByPull DEF NoNewEdge
  <1> QED
    BY <1>2, <1>3, <1>4, PullStep

\* Attaching.
LEMMA AttachStep ==
    ASSUME EInv, TInv, NEW p \in Pulls, Attach(p)
    PROVE  TInv'
  <1> DEFINE g == pull[p]
  <1>1. /\ Running(p) /\ g \in PullStates /\ Fit(g) /\ Truthful(g) /\ g.at = "attach"
    BY PullFacts DEF Attach, PullAt
  <1>2. UNCHANGED <<origin, remote, over, jobs, edges, viewVars>>
    BY DEF Attach, leaseVars
  <1>3. CASE /\ UNCHANGED hubVars
             /\ pull' = [pull EXCEPT ![p] = Retried(g, "resolve")]
    <2>1. PICK h : h = Retried(g, "resolve")
      OBVIOUS
    <2>2. /\ h \in PullStates /\ (h.at = "resolve" \/ (h.at = "release" /\ g.stop))
          /\ Like(g, h) /\ Closed(h)
      <3>1. "resolve" \in Steps
        BY DEF Steps
      <3> HIDE DEF g
      <3> QED
        BY <1>1, <2>1, <3>1, RetriedFields
    <2>3. Goes(g, h) /\ Entitled(g, h)
      BY <1>1, <2>2, GoesClosed DEF Entitled
    <2>4. pull' = [pull EXCEPT ![p] = h]
      BY <1>3, <2>1
    <2> QED
      BY <1>1, <1>2, <1>3, <2>2, <2>3, <2>4, PullOnly
  <1>4. CASE /\ IF g.slot THEN UNCHANGED hubVars ELSE Hub!EdgePublish(p, g.id)
             /\ pull' = [pull EXCEPT ![p] = Signal([Moved(g, "pump") EXCEPT !.slot = TRUE], "yes")]
    <2>1. PICK m : m = Moved(g, "pump")
      OBVIOUS
    <2>2. m \in PullStates /\ m.at = "pump" /\ Like(g, m) /\ SameEnds(g, m)
      BY <1>1, <2>1, MovedFields DEF Steps
    <2>3. PICK k : k = [m EXCEPT !.slot = TRUE]
      OBVIOUS
    <2>4. k \in PullStates /\ k.at = "pump" /\ Like(g, k) /\ SameEnds(g, k)
      BY <2>2, <2>3 DEF PullStates, Like, SameEnds
    <2>5. PICK h : h = Signal(k, "yes")
      OBVIOUS
    <2>6. h \in PullStates /\ h.at = "pump" /\ Like(k, h) /\ SameEnds(k, h)
      BY <2>4, <2>5, SignalFields
    <2>7. Like(g, h) /\ SameEnds(g, h)
      BY <2>4, <2>6 DEF Like, SameEnds
    <2>8. pull' = [pull EXCEPT ![p] = h]
      BY <1>4, <2>1, <2>3, <2>5
    <2>9. Fit(h)
      BY <1>1, <2>6, <2>7 DEF Fit, SameEnds
    <2>10. Goes(g, h) /\ Entitled(g, h)
      BY <1>1, <2>6, <2>7, <2>9, GoesAlong DEF Entitled
    <2>11. UNCHANGED hubVars \/ (Hub!EdgePublish(p, h.id) /\ h.at # "release")
      BY <1>4, <2>6, <2>7 DEF Like
    <2>12. CASE UNCHANGED hubVars
      BY <1>1, <1>2, <2>6, <2>8, <2>10, <2>12, PullOnly
    <2>13. CASE Hub!EdgePublish(p, h.id) /\ h.at # "release"
      <3> HIDE DEF g
      <3> QED
        BY <1>1, <1>2, <2>6, <2>8, <2>10, <2>13, PullHub DEF g
    <2> QED
      BY <2>11, <2>12, <2>13
  <1> QED
    BY <1>3, <1>4 DEF Attach

\* The pump ends, or nobody watches any more.
LEMMA DetachStep ==
    ASSUME EInv, TInv, NEW p \in Pulls, PumpEnds(p) \/ PumpLingers(p)
    PROVE  TInv'
  <1> DEFINE g == pull[p]
  <1>1. /\ Running(p) /\ g \in PullStates /\ Fit(g) /\ Truthful(g) /\ g.at = "pump"
    BY PullFacts DEF PumpEnds, PumpLingers, PullAt
  <1>2. PICK up \in {"none", g.up} : Detach(p, up) /\ (up = "open" => g.stop)
    BY DEF PumpEnds, PumpLingers
  <1>3. PICK k : k = [g EXCEPT !.slot = FALSE, !.up = up]
    OBVIOUS
  <1>4. /\ k \in PullStates /\ Like(g, k) /\ k.up = up /\ k.coming = g.coming
        /\ up \in {"none", "open", "lost", "ended", "killed"}
    BY <1>1, <1>2, <1>3 DEF PullStates, Like
  <1>5. PICK h : h = AfterPump(k)
    OBVIOUS
  <1>6. h \in PullStates /\ Goes(g, h) /\ Entitled(g, h)
    <2>1. CASE up = "none"
      <3>1. PICK m : m = Moved(k, "lingered")
        OBVIOUS
      <3>2. m \in PullStates /\ m.at = "lingered" /\ Like(k, m) /\ SameEnds(k, m)
        BY <1>4, <3>1, MovedFields DEF Steps
      <3>3. h = [m EXCEPT !.coming = "none"]
        BY <1>4, <1>5, <2>1, <3>1 DEF AfterPump
      <3>4. h \in PullStates /\ h.at = "lingered" /\ Like(g, h) /\ Closed(h)
        BY <1>4, <2>1, <3>2, <3>3 DEF PullStates, Like, SameEnds, Closed
      <3> QED
        BY <1>1, <3>4, GoesClosed DEF Entitled
    <2>2. CASE up \in {"killed", "ended"}
      <3>1. PICK step \in {"killing", "judge"} : /\ h = Moved(k, step)
                                                 /\ step = "killing" <=> up = "killed"
        BY <1>4, <1>5, <2>2 DEF AfterPump
      <3>2. h \in PullStates /\ h.at = step /\ Like(k, h) /\ SameEnds(k, h)
        BY <1>4, <3>1, MovedFields DEF Steps
      <3>3. Like(g, h) /\ SameEnds(g, h)
        BY <1>2, <1>4, <2>2, <3>2 DEF Like, SameEnds
      <3>4. Fit(h)
        BY <1>1, <1>2, <1>4, <2>2, <3>1, <3>2, <3>3 DEF Fit, SameEnds
      <3> QED
        BY <1>1, <3>1, <3>2, <3>3, <3>4, GoesAlong DEF Entitled
    <2>3. CASE up \in {"lost", "open"}
      <3>1. h = Retried(k, "resolve")
        BY <1>4, <1>5, <2>3 DEF AfterPump
      <3>2. /\ h \in PullStates /\ (h.at = "resolve" \/ (h.at = "release" /\ k.stop))
            /\ Like(k, h) /\ Closed(h)
        BY <1>4, <3>1, RetriedFields DEF Steps
      <3>3. Like(g, h) /\ k.stop = g.stop
        BY <1>4, <3>2 DEF Like
      <3> QED
        BY <1>1, <3>2, <3>3, GoesClosed DEF Entitled
    <2> QED
      BY <1>4, <2>1, <2>2, <2>3
  <1>7. /\ Hub!Close(p) /\ pull' = [pull EXCEPT ![p] = h]
        /\ UNCHANGED <<origin, remote, over, jobs, edges, viewVars>>
    BY <1>2, <1>3, <1>5 DEF Detach, leaseVars
  <1> QED
    BY <1>1, <1>6, <1>7, PullHub

\* An end that is final is one: of a broadcast that goes on, a pull knows no end but
\* a former origin's.
LEMMA JudgeStep ==
    ASSUME EInv, TInv, NEW p \in Pulls, Judge(p)
    PROVE  TInv'
  <1> DEFINE g == pull[p]
             i == g.id
  <1>1. /\ Running(p) /\ g \in PullStates /\ i \in IDs /\ Fit(g) /\ Truthful(g)
        /\ g.at = "judge" /\ g.up = "ended" /\ g.coming = "ended"
    BY PullFacts DEF Judge, PullAt, Fit
  <1>2. UNCHANGED <<hubVars, origin, remote, over, jobs, edges, viewVars>>
    BY DEF Judge, leaseVars
  <1>3. CASE upstreamEndIsFinal(g)
    <2>1. i \in over
      <3>1. CASE ~Lease!There(i)
        BY <1>1, <3>1, TParts DEF LeasesLast
      <3>2. CASE Lease!There(i) /\ origin[i].holder = Other /\ origin[i].gen = g.gen
        <4>1. g.gen \in Nat
          BY <1>1 DEF PullStates
        <4> QED
          BY <1>1, <3>2, <4>1, EdgePullAssumption DEF Truthful
      <3> QED
        BY <1>3, <3>1, <3>2 DEF upstreamEndIsFinal
    <2>2. PICK h : h = Moved(g, "ending")
      OBVIOUS
    <2>3. h \in PullStates /\ h.at = "ending" /\ Like(g, h) /\ SameEnds(g, h)
      BY <1>1, <2>2, MovedFields DEF Steps
    <2>4. Fit(h)
      BY <1>1, <2>3 DEF Fit, SameEnds
    <2>5. Goes(g, h) /\ Entitled(g, h)
      BY <1>1, <2>1, <2>3, <2>4, GoesAlong DEF Entitled
    <2>6. pull' = [pull EXCEPT ![p] = h]
      BY <1>3, <2>2 DEF Judge
    <2> QED
      BY <1>1, <1>2, <2>3, <2>5, <2>6, PullOnly
  <1>4. CASE ~upstreamEndIsFinal(g)
    <2>1. PICK h : h = Retried(g, "resolve")
      OBVIOUS
    <2>2. /\ h \in PullStates /\ (h.at = "resolve" \/ (h.at = "release" /\ g.stop))
          /\ Like(g, h) /\ Closed(h)
      <3>1. "resolve" \in Steps
        BY DEF Steps
      <3> HIDE DEF g
      <3> QED
        BY <1>1, <2>1, <3>1, RetriedFields
    <2>3. Goes(g, h) /\ Entitled(g, h)
      BY <1>1, <2>2, GoesClosed DEF Entitled
    <2>4. pull' = [pull EXCEPT ![p] = h]
      BY <1>4, <2>1 DEF Judge
    <2> QED
      BY <1>1, <1>2, <2>2, <2>3, <2>4, PullOnly
  <1> QED
    BY <1>3, <1>4

\* A wait on a reservation.
LEMMA WaitStep ==
    ASSUME EInv, TInv, NEW p \in Pulls, WaitClaims(p) \/ WaitWakes(p) \/ WaitLingers(p)
    PROVE  TInv'
  <1> DEFINE g == pull[p]
  <1>1. /\ Running(p) /\ g \in PullStates /\ Fit(g) /\ Truthful(g)
        /\ g.at = "wait" /\ Closed(g)
    BY PullFacts DEF WaitClaims, WaitWakes, WaitLingers, PullAt, Fit, Closed
  <1>2. UNCHANGED <<origin, remote, over, jobs, edges, viewVars>>
    BY DEF WaitClaims, WaitWakes, WaitLingers, leaseVars
  <1>3. ASSUME NEW step \in {"resolve", "release"}, Move(p, step), UNCHANGED hubVars,
               step = "release" => g.stop
        PROVE  TInv'
    <2>1. PICK h : h = Moved(g, step)
      OBVIOUS
    <2>2. h \in PullStates /\ h.at = step /\ Like(g, h) /\ Closed(h)
      BY <1>1, <2>1, MovedFields DEF Steps
    <2>3. Goes(g, h) /\ Entitled(g, h)
      BY <1>1, <1>3, <2>2, GoesClosed DEF Entitled
    <2>4. pull' = [pull EXCEPT ![p] = h]
      BY <1>3, <2>1 DEF Move
    <2> QED
      BY <1>1, <1>2, <1>3, <2>2, <2>3, <2>4, PullOnly
  <1>4. CASE /\ Hub!EdgePublish(p, g.id)
             /\ pull' = [pull EXCEPT ![p] = Signal([g EXCEPT !.slot = TRUE], "yes")]
    <2>1. PICK k : k = [g EXCEPT !.slot = TRUE]
      OBVIOUS
    <2>2. k \in PullStates /\ k.at = "wait" /\ Like(g, k) /\ Closed(k)
      BY <1>1, <2>1 DEF PullStates, Like, Closed
    <2>3. PICK h : h = Signal(k, "yes")
      OBVIOUS
    <2>4. h \in PullStates /\ h.at = "wait" /\ Like(k, h) /\ Closed(h)
      BY <2>2, <2>3, SignalFields
    <2>5. Like(g, h) /\ h.id = g.id
      BY <2>2, <2>4 DEF Like
    <2>6. pull' = [pull EXCEPT ![p] = h]
      BY <1>4, <2>1, <2>3
    <2>7. Goes(g, h) /\ Entitled(g, h)
      BY <1>1, <2>4, <2>5, GoesClosed DEF Entitled
    <2>8. Hub!EdgePublish(p, h.id)
      BY <1>4, <2>5
    <2> HIDE DEF g
    <2> QED
      BY <1>1, <1>2, <2>4, <2>6, <2>7, <2>8, PullHub DEF g
  <1>5. CASE WaitLingers(p)
    <2>1. PICK k : k = Moved(g, "lingered")
      OBVIOUS
    <2>2. k \in PullStates /\ k.at = "lingered" /\ Like(g, k) /\ Closed(k)
      BY <1>1, <2>1, MovedFields DEF Steps
    <2>3. PICK h : h = [k EXCEPT !.slot = FALSE]
      OBVIOUS
    <2>4. h \in PullStates /\ h.at = "lingered" /\ Like(g, h) /\ Closed(h)
      BY <2>2, <2>3 DEF PullStates, Like, Closed
    <2>5. Goes(g, h) /\ Entitled(g, h)
      BY <1>1, <2>4, GoesClosed DEF Entitled
    <2>6. Hub!Close(p) /\ pull' = [pull EXCEPT ![p] = h]
      BY <1>5, <2>1, <2>3 DEF WaitLingers
    <2> QED
      BY <1>1, <1>2, <2>4, <2>5, <2>6, PullHub
  <1>6. CASE WaitClaims(p)
    BY <1>3, <1>4, <1>6 DEF WaitClaims
  <1>7. CASE WaitWakes(p)
    BY <1>3, <1>7 DEF WaitWakes
  <1> QED
    BY <1>5, <1>6, <1>7

\* The subscribers of a hub nobody watches are none.
LEMMA NobodyCut ==
    ASSUME Reg!HInv, NEW i \in IDs, Cut(i), EdgeDemand(i) = {}
    PROVE  UNCHANGED subs
  <1>1. subs \in [Viewers -> Hub!Subscriptions \cup {Hub!NotSubscribed}]
    BY RegFacts DEF Hub!TypeOK
  <1>2. \A v \in Viewers : ~Hub!On(v, i)
    BY DEF EdgeDemand
  <1>3. subs' = [v \in Viewers |-> subs[v]]
    BY <1>2 DEF Cut
  <1> QED
    BY <1>1, <1>3

\* A pull that lingered out takes its hub with it, or goes on.
LEMMA LingeredStep ==
    ASSUME EInv, TInv, NEW p \in Pulls, Lingered(p)
    PROVE  TInv'
  <1> DEFINE g == pull[p]
             i == g.id
  <1>1. /\ Running(p) /\ g \in PullStates /\ i \in IDs /\ Fit(g) /\ Truthful(g)
        /\ g.at = "lingered"
    BY PullFacts DEF Lingered, PullAt
  <1>2. UNCHANGED <<origin, remote, over, jobs, edges, viewVars>>
    BY DEF Lingered, leaseVars
  <1>3. PICK step : step = IF hubs'[i] = Hub!NoHub THEN "release" ELSE "resolve"
    OBVIOUS
  <1>4. PICK h : h = Retried(g, step)
    OBVIOUS
  <1>5. pull' = [pull EXCEPT ![p] = h]
    BY <1>3, <1>4 DEF Lingered
  <1>6. /\ h \in PullStates /\ (h.at = step \/ (h.at = "release" /\ g.stop))
        /\ Like(g, h) /\ Closed(h) /\ h.id = i
    BY <1>1, <1>3, <1>4, RetriedFields DEF Steps, Like
  <1>7. step = "release" => ~EdgeHub(h.id)'
    <2>1. Hub!NoHub.obj = 0
      BY DEF Hub!NoHub
    <2> QED
      BY <1>3, <1>6, <2>1 DEF EdgeHub, Hub!Known
  <1>8. Goes(g, h) /\ Entitled(g, h)
    BY <1>1, <1>3, <1>6, <1>7, GoesClosed DEF Entitled
  <1>9. HomeKept /\ NoNewEdge /\ UNCHANGED subs
    <2>1. CASE UNCHANGED hubVars
      BY <2>1, HubsSame
    <2>2. CASE Hub!ExpireEdgeIfViewerless(i) /\ EdgeDemand(i) = {}
      BY <1>1, <2>2, TParts, RemovedKept, NobodyCut
    <2> QED
      BY <2>1, <2>2 DEF Lingered, ExpireIfViewerless
  <1>10. ViewersSound' /\ \A k \in IDs : EdgeHub(k)' => EdgeHub(k)
    BY <1>2, <1>9, TParts, ViewersKept DEF NoNewEdge
  <1> QED
    BY <1>1, <1>2, <1>5, <1>6, <1>8, <1>9, <1>10, PullStep

\* EndHub takes the hub and its subscribers, or leaves both.
LEMMA EndHubKept ==
    ASSUME Reg!HInv, NEW i \in IDs, EndHub(i)
    PROVE  HomeKept /\ NoNewEdge /\ (Cut(i) \/ UNCHANGED subs)
  BY HubsSame, RemovedKept DEF EndHub

\* An end, or a kill, that is passed on.
LEMMA PassOnStep ==
    ASSUME EInv, TInv, NEW p \in Pulls, PassOnEnd(p) \/ PassOnKill(p)
    PROVE  TInv'
  <1> DEFINE g == pull[p]
             i == g.id
  <1>1. /\ Running(p) /\ g \in PullStates /\ i \in IDs /\ Fit(g) /\ Truthful(g)
        /\ g.at \in {"ending", "killing"}
    BY PullFacts DEF PassOnEnd, PassOnKill, PullAt
  <1>2. UNCHANGED <<origin, remote, over, jobs, edges>>
    BY DEF PassOnEnd, PassOnKill, leaseVars
  <1>3. i \in over
    <2>1. CASE g.at = "ending"
      BY <1>1, <2>1 DEF Truthful
    <2>2. CASE g.at = "killing"
      <3>1. Killed(g)
        BY <1>1, <2>2 DEF Fit, Killed
      <3> QED
        BY <1>1, <3>1, TParts DEF KillsPass, LeasesLast
    <2> QED
      BY <1>1, <2>1, <2>2
  <1>4. PICK k : k = Moved(g, "release")
    OBVIOUS
  <1>5. k \in PullStates /\ k.at = "release" /\ Like(g, k) /\ SameEnds(g, k)
    BY <1>1, <1>4, MovedFields DEF Steps
  <1>6. PICK h \in PullStates : /\ pull' = [pull EXCEPT ![p] = h]
                                /\ Goes(g, h) /\ h.at = "release"
    <2>1. CASE PassOnEnd(p)
      <3>1. pull' = [pull EXCEPT ![p] = k] /\ g.at = "ending"
        BY <1>4, <2>1 DEF PassOnEnd, Move, PullAt
      <3>2. Fit(k)
        BY <1>1, <1>5, <3>1 DEF Fit, SameEnds
      <3> QED
        BY <1>1, <1>5, <3>1, <3>2, GoesAlong
    <2>2. CASE PassOnKill(p)
      <3>1. PICK h : h = [k EXCEPT !.up = "none", !.coming = "none"]
        OBVIOUS
      <3>2. h \in PullStates /\ h.at = "release" /\ Like(g, h) /\ Closed(h)
        BY <1>5, <3>1 DEF PullStates, Like, Closed
      <3>3. pull' = [pull EXCEPT ![p] = h]
        BY <1>4, <2>2, <3>1 DEF PassOnKill
      <3> QED
        BY <1>1, <3>2, <3>3, GoesClosed
    <2> QED
      BY <2>1, <2>2
  <1>7. Entitled(g, h)
    BY <1>3 DEF Entitled
  <1>8. HomeKept /\ NoNewEdge /\ (Cut(i) \/ UNCHANGED subs)
    <2>1. CASE PassOnEnd(p)
      BY <1>1, <2>1, TParts, EndHubKept DEF PassOnEnd
    <2>2. CASE PassOnKill(p)
      BY <1>1, <1>2, <1>3, <2>2, TParts, HubsSame, RemovedKept DEF PassOnKill
    <2> QED
      BY <2>1, <2>2
  <1>9. PICK code : Tell(code)
    BY DEF PassOnEnd, PassOnKill
  <1>10. ViewersSound'
    BY <1>1, <1>2, <1>3, <1>8, <1>9, TParts, ViewersTold
  <1>11. \A j \in IDs : EdgeHub(j)' => EdgeHub(j)
    BY <1>8 DEF NoNewEdge
  <1> QED
    BY <1>1, <1>2, <1>6, <1>7, <1>8, <1>10, <1>11, PullStep

\* A pull is done, and out of the map, when nobody needs it.
LEMMA DoneStep ==
    ASSUME EInv, TInv, NEW p \in Pulls, Release(p), ~pull[p].slot
    PROVE  TInv'
  <1> DEFINE g == pull[p]
             i == g.id
  <1>1. /\ Running(p) /\ g \in PullStates /\ i \in IDs /\ Fit(g) /\ Truthful(g)
        /\ g.at = "release"
    BY PullFacts DEF Release, PullAt
  <1>2. UNCHANGED <<origin, remote, over, jobs>> /\ Tell("ended") /\ Move(p, "done")
    BY DEF Release, leaseVars
  <1>3. \A k \in IDs : edges'[k] = IF edges[k] = p THEN NoSession ELSE edges[k]
    BY DEF Release
  <1>4. /\ HomeKept /\ NoNewEdge /\ (Cut(i) \/ UNCHANGED subs)
        /\ i \in over \/ UNCHANGED subs
    <2>1. CASE g.gone
      BY <1>1, <2>1, TParts, EndHubKept DEF Release, Truthful
    <2>2. CASE ~g.gone
      BY <2>2, HubsSame DEF Release
    <2> QED
      BY <2>1, <2>2
  <1>5. PICK h : h = Moved(g, "done")
    OBVIOUS
  <1>6. h \in PullStates /\ h.at = "done" /\ Like(g, h) /\ SameEnds(g, h)
    BY <1>1, <1>5, MovedFields DEF Steps
  <1>7. pull'[p] = h /\ \A q \in Pulls \ {p} : pull'[q] = pull[q]
    BY <1>2, <1>5, TParts DEF Move, PullTyped
  <1>8. PullsFit'
    <2>1. Fit(h)
      BY <1>1, <1>6 DEF Fit, SameEnds
    <2> QED
      BY <1>7, <2>1, TParts DEF PullsFit
  <1>9. PullsTruthful'
    <2>1. Truthful(h)
      BY <1>1, <1>6 DEF Truthful, Like, SameEnds
    <2>2. \A q \in Pulls : Truthful(pull'[q])
      BY <1>7, <2>1, TParts DEF PullsTruthful
    <2> QED
      BY <1>2, <2>2 DEF PullsTruthful, Truthful
  <1>10. LeasesLast' /\ HomeServes'
    BY <1>2, <1>4, TParts
       DEF LeasesLast, HomeServes, HomeKept, HolderIsSelf, HolderElsewhere, Lease!There
  <1>11. JobsSound'
    BY <1>2, <1>4, TParts, JobsKept
  <1>12. Mapped'
    <2>1. ASSUME NEW k \in IDs, edges'[k] \in Pulls
          PROVE  Running(edges[k])' /\ pull'[edges'[k]].id = k /\ ~pull'[edges'[k]].stop
      <3>1. edges'[k] = edges[k] /\ edges[k] \in Pulls \ {p}
        BY <1>3, <2>1, EdgePullAssumption
      <3> QED
        BY <1>7, <3>1, TParts DEF Mapped, Running, PullAt
    <2>2. ASSUME NEW q \in Pulls, Running(q)'
          PROVE  edges'[pull'[q].id] = q \/ Stopping(pull'[q].id, q)
      <3>1. q # p /\ pull'[q] = pull[q] /\ Running(q)
        BY <1>6, <1>7, <2>2 DEF Running, PullAt
      <3>2. pull[q].id \in IDs
        BY <3>1, TParts
      <3> QED
        BY <1>3, <3>1, <3>2, TParts DEF Mapped
    <2> QED
      BY <1>2, <2>1, <2>2 DEF Mapped, Stopping
  <1>13. HubsFed'
    <2> SUFFICES ASSUME NEW k \in IDs \ over, EdgeHub(k)', ~Coming(k)
                 PROVE  edges'[k] \in Pulls /\ pull'[edges'[k]].at # "release"
      BY <1>2 DEF HubsFed, Fed, Coming, PullAt
    <2>1. Fed(k)
      BY <1>4, TParts DEF HubsFed, NoNewEdge
    <2>2. edges[k] # p
      BY <1>1, <2>1 DEF Fed, PullAt
    <2> QED
      BY <1>3, <1>7, <2>1, <2>2 DEF Fed, PullAt
  <1>14. KillsPass'
    <2>1. ~Killed(h)
      BY <1>1, <1>6 DEF Fit, Killed, SameEnds
    <2>2. ASSUME NEW q \in Pulls, Killed(pull'[q])
          PROVE  /\ edges'[pull'[q].id] = q /\ remote[pull'[q].id] = "killed"
                 /\ \A j \in jobs : j.id = pull'[q].id =>
                       j.at \notin {"deletedwait", "stop", "stopwait", "lease"}
      <3>1. q # p /\ pull'[q] = pull[q]
        BY <1>7, <2>1, <2>2
      <3>2. Killed(pull[q]) /\ Running(q)
        BY <2>2, <3>1, TParts DEF PullsFit, Fit, Killed, Running, PullAt
      <3>3. pull[q].id \in IDs
        BY <3>2, TParts
      <3> QED
        BY <1>3, <3>1, <3>2, <3>3, TParts DEF KillsPass
    <2> QED
      BY <1>2, <2>2 DEF KillsPass
  <1>15. ViewersSound'
    <2>1. over \subseteq over' /\ ("ended" = "ended" => i \in over' \/ UNCHANGED subs)
      BY <1>2, <1>4
    <2> QED
      BY <1>1, <1>2, <1>4, <2>1, TParts, ViewersTold
  <1> QED
    BY <1>8, <1>9, <1>10, <1>11, <1>12, <1>13, <1>14, <1>15 DEF TInv

\* Giving up: first the slot, then the rest.
LEMMA ReleaseStep ==
    ASSUME EInv, TInv, NEW p \in Pulls, Release(p)
    PROVE  TInv'
  <1> DEFINE g == pull[p]
  <1>1. CASE g.slot
    <2>1. /\ Running(p) /\ g \in PullStates /\ Fit(g) /\ Truthful(g) /\ g.at = "release"
      BY PullFacts DEF Release, PullAt
    <2>2. PICK h : h = [g EXCEPT !.slot = FALSE]
      OBVIOUS
    <2>3. h \in PullStates /\ h.at = "release" /\ Like(g, h) /\ SameEnds(g, h)
      BY <2>1, <2>2 DEF PullStates, Like, SameEnds
    <2>4. Fit(h)
      BY <2>1, <2>3 DEF Fit, SameEnds
    <2>5. Goes(g, h) /\ Entitled(g, h)
      BY <2>1, <2>3, <2>4, GoesAlong DEF Entitled
    <2>6. /\ Hub!Close(p) /\ pull' = [pull EXCEPT ![p] = h]
          /\ UNCHANGED <<origin, remote, over, jobs, edges, viewVars>>
      BY <1>1, <2>2 DEF Release, leaseVars, viewVars
    <2> QED
      BY <2>1, <2>3, <2>5, <2>6, PullHub
  <1>2. CASE ~g.slot
    BY <1>2, DoneStep
  <1> QED
    BY <1>1, <1>2

--------------------------------------------------------------------------------
(* Viewers and fresh pulls *)

\* No goroutine starts, and only one that nobody waits for may end.
NobodyMissed == jobs' \subseteq jobs /\ \A j \in jobs \ jobs' : j.at = "demote"

\* A step that leaves pulls and Leases alone.
LEMMA ViewStep ==
    ASSUME EInv, TInv, UNCHANGED <<pull, edges, origin, remote, over>>, NobodyMissed,
           HomeKept, NoNewEdge, ViewersSound'
    PROVE  TInv'
  <1>1. PullsFit' /\ PullsTruthful' /\ KillsPass'
    BY TParts DEF PullsFit, PullsTruthful, Truthful, KillsPass, NobodyMissed
  <1>2. LeasesLast' /\ HomeServes'
    BY TParts DEF LeasesLast, HomeServes, HomeKept, HolderIsSelf, HolderElsewhere, Lease!There
  <1>3. JobsSound'
    BY TParts, JobsKept DEF NobodyMissed
  <1>4. Mapped'
    BY TParts DEF Mapped, Running, PullAt, Stopping, NobodyMissed
  <1>5. HubsFed'
    BY TParts DEF HubsFed, NoNewEdge, Fed, Coming, PullAt, NobodyMissed
  <1> QED
    BY <1>1, <1>2, <1>3, <1>4, <1>5 DEF TInv

\* A pull that starts feeds the hub of its broadcast, which had none.
LEMMA StartStep ==
    ASSUME EInv, TInv, NEW p \in Pulls, NEW i \in IDs, ~Running(p), ~HasPull(i),
           NEW h \in PullStates, h.at = "resolve", h.id = i, Closed(h), h.gen = 0,
           ~h.gone, ~h.stop,
           pull' = [pull EXCEPT ![p] = h], edges' = [edges EXCEPT ![i] = p],
           UNCHANGED <<origin, remote, over>>,
           NobodyMissed, HomeKept, ViewersSound',
           \A k \in IDs : EdgeHub(k)' => EdgeHub(k) \/ k = i
    PROVE  TInv'
  <1>1. pull'[p] = h /\ \A q \in Pulls \ {p} : pull'[q] = pull[q]
    BY TParts DEF PullTyped
  <1>2. edges'[i] = p /\ \A k \in IDs \ {i} : edges'[k] = edges[k]
    BY TParts DEF EdgesTyped
  <1>3. edges[i] = NoSession /\ \A k \in IDs : edges[k] # p
    BY EdgePullAssumption, TParts DEF Mapped, HasPull, EdgesTyped
  <1>4. PullsFit'
    <2>1. Fit(h)
      BY DEF Fit, Closed
    <2> QED
      BY <1>1, <2>1, TParts DEF PullsFit
  <1>5. PullsTruthful'
    <2>1. Truthful(h)
      <3>1. i \notin over => origin[i].gen \in Nat
        BY TParts DEF LeasesLast, Lease!There, LeaseTyped, Lease!Origins
      <3> QED
        BY <3>1 DEF Truthful, Closed
    <2>2. \A q \in Pulls : Truthful(pull'[q])
      BY <1>1, <2>1, TParts DEF PullsTruthful
    <2> QED
      BY <2>2 DEF PullsTruthful, Truthful
  <1>6. LeasesLast' /\ HomeServes'
    BY TParts DEF LeasesLast, HomeServes, HomeKept, HolderIsSelf, HolderElsewhere, Lease!There
  <1>7. JobsSound'
    BY TParts, JobsKept DEF NobodyMissed
  <1>8. Mapped'
    <2>1. ASSUME NEW k \in IDs, edges'[k] \in Pulls
          PROVE  Running(edges[k])' /\ pull'[edges'[k]].id = k /\ ~pull'[edges'[k]].stop
      <3>1. CASE k = i
        BY <1>1, <1>2, <3>1 DEF Running, PullAt
      <3>2. CASE k # i
        <4>1. edges'[k] = edges[k] /\ edges[k] \in Pulls \ {p}
          BY <1>2, <1>3, <2>1, <3>2
        <4> QED
          BY <1>1, <4>1, TParts DEF Mapped, Running, PullAt
      <3> QED
        BY <3>1, <3>2
    <2>2. ASSUME NEW q \in Pulls, Running(q)'
          PROVE  edges'[pull'[q].id] = q \/ Stopping(pull[q].id, q)'
      <3>1. CASE q = p
        BY <1>1, <1>2, <3>1
      <3>2. CASE q # p
        <4>1. pull'[q] = pull[q] /\ Running(q)
          BY <1>1, <2>2, <3>2 DEF Running, PullAt
        <4>2. pull[q].id \in IDs /\ (edges[pull[q].id] = q \/ Stopping(pull[q].id, q))
          BY <4>1, TParts DEF Mapped
        <4>3. edges[pull[q].id] = q => pull[q].id # i
          BY <1>3, EdgePullAssumption
        <4>4. Stopping(pull[q].id, q) => Stopping(pull[q].id, q)'
          BY <4>1 DEF Stopping, NobodyMissed
        <4> QED
          BY <1>2, <4>1, <4>2, <4>3, <4>4
      <3> QED
        BY <3>1, <3>2
    <2>3. \A q \in Pulls : Running(q)' => (edges[pull[q].id] = q \/ Stopping(pull[q].id, q))'
      BY <2>2
    <2>4. \A k \in IDs : (edges[k] \in Pulls =>
             Running(edges[k]) /\ pull[edges[k]].id = k /\ ~pull[edges[k]].stop)'
      BY <2>1
    <2> QED
      BY <2>3, <2>4 DEF Mapped
  <1>9. HubsFed'
    <2> SUFFICES ASSUME NEW k \in IDs \ over, EdgeHub(k)', ~Coming(k)'
                 PROVE  edges'[k] \in Pulls /\ pull'[edges'[k]].at # "release"
      BY DEF HubsFed, Fed, PullAt
    <2>1. CASE k = i
      BY <1>1, <1>2, <2>1
    <2>2. CASE k # i
      <3>1. Fed(k)
        BY <2>2, TParts DEF HubsFed, Coming, NobodyMissed
      <3> QED
        BY <1>1, <1>2, <1>3, <2>2, <3>1 DEF Fed, PullAt
    <2> QED
      BY <2>1, <2>2
  <1>10. KillsPass'
    <2>1. ~Killed(h)
      BY DEF Closed, Killed
    <2>2. ASSUME NEW q \in Pulls, Killed(pull'[q])
          PROVE  /\ edges'[pull'[q].id] = q /\ remote[pull'[q].id] = "killed"
                 /\ \A j \in jobs : j.id = pull'[q].id =>
                       j.at \notin {"deletedwait", "stop", "stopwait", "lease"}
      <3>1. q # p /\ pull'[q] = pull[q] /\ Killed(pull[q])
        BY <1>1, <2>1, <2>2
      <3>2. Running(q)
        BY <3>1, TParts DEF PullsFit, Fit, Killed, Running, PullAt
      <3>3. pull[q].id \in IDs /\ edges[pull[q].id] = q
        BY <3>1, <3>2, TParts DEF KillsPass
      <3>4. pull[q].id # i
        BY <1>3, <3>3, EdgePullAssumption
      <3> QED
        BY <1>2, <3>1, <3>3, <3>4, TParts DEF KillsPass
    <2> QED
      BY <2>2 DEF KillsPass, NobodyMissed
  <1> QED
    BY <1>4, <1>5, <1>6, <1>7, <1>8, <1>9, <1>10 DEF TInv

\* A handler that has no subscription has none to lose.
LEMMA HandlerViewers ==
    ASSUME ViewersSound, NEW v \in Viewers, ~JoinAt(v, "in"), UNCHANGED <<subs, over>>,
           \A u \in Viewers \ {v} : join'[u] = join[u] /\ told'[u] = told[u],
           told'[v] # "ended"
    PROVE  ViewersSound'
  <1>1. ViewerSound(v)'
    BY DEF ViewersSound, ViewerSound
  <1>2. \A u \in Viewers \ {v} : ViewerSound(u)'
    BY DEF ViewersSound, ViewerSound, JoinAt
  <1> QED
    BY <1>1, <1>2 DEF ViewersSound

\* It moves on, waits or leaves.
LEMMA HandlerMoves ==
    ASSUME ViewTyped, ViewersSound, NEW v \in Viewers, UNCHANGED <<subs, over>>,
           join[v].at \in {"out", "ensure", "await", "recheck", "enter"}, told[v] = "no",
           \/ UNCHANGED told
              /\ \/ \E step : JoinTo(v, step)
                 \/ \E step, q : join' = [join EXCEPT ![v].at = step, ![v].pull = q]
                 \/ \E step, i : join' = [join EXCEPT ![v].at = step, ![v].id = i]
           \/ Leave(v)
    PROVE  ViewersSound'
  <1>1. join \in [Viewers -> Joins] /\ told \in [Viewers -> Endings] /\ ~JoinAt(v, "in")
    BY DEF ViewTyped, JoinAt
  <1>2. told'[v] # "ended" /\ \A u \in Viewers \ {v} : told'[u] = told[u]
    BY <1>1 DEF Leave
  <1>3. \A u \in Viewers \ {v} : join'[u] = join[u]
    BY <1>1 DEF Leave, JoinTo
  <1> QED
    BY <1>1, <1>2, <1>3, HandlerViewers

\* EnsureEdge finds the pull that runs, or starts one.
LEMMA EnsuredStep ==
    ASSUME EInv, TInv, NEW i \in IDs, NEW p \in Pulls, Ensured(i, p),
           UNCHANGED <<hubVars, origin, remote, over>>, NobodyMissed, ViewersSound'
    PROVE  TInv'
  <1>1. HomeKept /\ NoNewEdge /\ UNCHANGED subs
    BY HubsSame
  <1>2. CASE HasPull(i)
    BY <1>1, <1>2, ViewStep DEF Ensured
  <1>3. CASE ~HasPull(i)
    <2>1. PICK h : h = NewPull(i)
      OBVIOUS
    <2>2. /\ h \in PullStates /\ h.at = "resolve" /\ h.id = i /\ Closed(h) /\ h.gen = 0
          /\ ~h.gone /\ ~h.stop
      BY <2>1 DEF NewPull, Unused, PullStates, Closed
    <2>3. /\ ~Running(p) /\ pull' = [pull EXCEPT ![p] = h]
          /\ edges' = [edges EXCEPT ![i] = p]
      BY <1>3, <2>1 DEF Ensured, Free, Started
    <2>4. \A k \in IDs : EdgeHub(k)' => EdgeHub(k) \/ k = i
      BY <1>1 DEF NoNewEdge
    <2> QED
      BY <1>1, <1>3, <2>2, <2>3, <2>4, StartStep
  <1> QED
    BY <1>2, <1>3

\* The steps of a handler before it subscribes.
LEMMA HandlerStep ==
    ASSUME EInv, TInv, NEW v \in Viewers,
           (\E i \in IDs : Arrive(v, i)) \/ Ensure(v) \/ Await(v) \/ Recheck(v)
    PROVE  TInv'
  <1>1. UNCHANGED <<hubVars, origin, remote, over, jobs>> /\ told[v] = "no"
    BY DEF Arrive, Ensure, Await, Recheck, leaseVars
  <1>2. HomeKept /\ NoNewEdge /\ NobodyMissed /\ UNCHANGED <<subs, over>>
    BY <1>1, HubsSame DEF NobodyMissed
  <1>3. ViewTyped /\ ViewersSound
    BY TParts
  <1>4. join[v].at \in {"out", "ensure", "await", "recheck", "enter"}
    BY DEF Arrive, Ensure, Await, Recheck, JoinAt
  <1>5. CASE (\E i \in IDs : Arrive(v, i)) \/ Await(v) \/ Recheck(v)
    <2>1. UNCHANGED <<pull, edges>>
      BY <1>5 DEF Arrive, Await, Recheck
    <2>2. \/ UNCHANGED told
             /\ \/ \E step : JoinTo(v, step)
                \/ \E step, i : join' = [join EXCEPT ![v].at = step, ![v].id = i]
          \/ Leave(v)
      BY <1>5 DEF Arrive, Await, Recheck
    <2>3. ViewersSound'
      BY <1>1, <1>2, <1>3, <1>4, <2>2, HandlerMoves
    <2> QED
      BY <1>1, <1>2, <2>1, <2>3, ViewStep
  <1>6. CASE Ensure(v)
    <2> DEFINE i == join[v].id
    <2>1. i \in IDs
      BY <1>4, <1>6, TParts DEF Ensure, JoinAt, ViewTyped
    <2>2. ASSUME NEW p \in Pulls, Ensured(i, p), UNCHANGED told,
                 join' = [join EXCEPT ![v].at = "await", ![v].pull = p]
          PROVE  TInv'
      <3>1. ViewersSound'
        BY <1>1, <1>2, <1>3, <1>4, <2>2, HandlerMoves
      <3> QED
        BY <1>1, <1>2, <2>1, <2>2, <3>1, EnsuredStep
    <2>3. CASE Leave(v) /\ UNCHANGED <<pull, edges>>
      <3>1. ViewersSound'
        BY <1>1, <1>2, <1>3, <1>4, <2>3, HandlerMoves
      <3> QED
        BY <1>1, <1>2, <2>3, <3>1, ViewStep
    <2> QED
      BY <1>6, <2>2, <2>3 DEF Ensure
  <1> QED
    BY <1>5, <1>6

\* A reservation makes the waiting hub, and its pull, at once.
LEMMA EnsureWaitStep ==
    ASSUME EInv, TInv, NEW v \in Viewers, EnsureWait(v)
    PROVE  TInv'
  <1> DEFINE i == join[v].id
  <1>1. /\ UNCHANGED <<origin, remote, over, jobs>> /\ told[v] = "no"
        /\ join[v].at = "ensure"
    BY DEF EnsureWait, leaseVars, JoinAt
  <1>2. ViewTyped /\ ViewersSound /\ i \in IDs /\ NobodyMissed
    BY <1>1, TParts DEF ViewTyped, JoinAt, NobodyMissed
  <1>3. CASE HasPull(i) \/ Hub!publisherActive(i)
    <2>1. UNCHANGED <<hubVars, pull, edges>>
      BY <1>3 DEF EnsureWait
    <2>2. \/ UNCHANGED told
             /\ \/ \E step : JoinTo(v, step)
                \/ \E step, q : join' = [join EXCEPT ![v].at = step, ![v].pull = q]
          \/ Leave(v)
      BY <1>3 DEF EnsureWait
    <2>3. HomeKept /\ NoNewEdge /\ UNCHANGED <<subs, over>>
      BY <1>1, <2>1, HubsSame
    <2>4. ViewersSound'
      BY <1>1, <1>2, <2>2, <2>3, HandlerMoves
    <2> QED
      BY <1>1, <1>2, <2>1, <2>3, <2>4, ViewStep
  <1>4. CASE ~HasPull(i) /\ ~Hub!publisherActive(i)
    <2>1. PICK p \in Pulls :
             /\ Hub!EdgePublish(p, i) /\ Free(p)
             /\ Started(p, i, Signal([NewPull(i) EXCEPT !.slot = TRUE], "yes"))
             /\ JoinTo(v, "recheck") /\ UNCHANGED told
      BY <1>4 DEF EnsureWait
    <2>2. PICK k : k = [NewPull(i) EXCEPT !.slot = TRUE]
      OBVIOUS
    <2>3. /\ k \in PullStates /\ k.at = "resolve" /\ k.id = i /\ Closed(k) /\ k.gen = 0
          /\ ~k.gone /\ ~k.stop
      BY <1>2, <2>2 DEF NewPull, Unused, PullStates, Closed
    <2>4. PICK h : h = Signal(k, "yes")
      OBVIOUS
    <2>5. h \in PullStates /\ h.at = "resolve" /\ Like(k, h) /\ Closed(h)
      BY <2>3, <2>4, SignalFields
    <2>6. h.id = i /\ h.gen = 0 /\ ~h.gone /\ ~h.stop
      BY <2>3, <2>5 DEF Like
    <2>7. pull' = [pull EXCEPT ![p] = h] /\ edges' = [edges EXCEPT ![i] = p] /\ ~Running(p)
      BY <2>1, <2>2, <2>4 DEF Started, Free
    <2>8. /\ HomeKept /\ UNCHANGED subs
          /\ \A j \in IDs : EdgeHub(j)' => EdgeHub(j) \/ j = i
      BY <1>2, <2>1, TParts, ClaimedByPull
    <2>9. ViewersSound'
      BY <1>1, <1>2, <2>1, <2>8, HandlerMoves
    <2> QED
      BY <1>1, <1>2, <1>4, <2>5, <2>6, <2>7, <2>8, <2>9, StartStep
  <1> QED
    BY <1>3, <1>4

\* A viewer subscribes, finds its hub gone, or leaves.
LEMMA SubscriberStep ==
    ASSUME EInv, TInv, NEW v \in Viewers, Enter(v) \/ Depart(v)
    PROVE  TInv'
  <1>1. UNCHANGED <<pull, edges, jobs, origin, remote, over>>
    BY DEF Enter, Depart, leaseVars
  <1>2. UNCHANGED <<hubs, pubs>>
    BY DEF Enter, Depart, Hub!Subscribe, Hub!Unsubscribe, hubVars
  <1>3. HomeKept /\ NoNewEdge /\ NobodyMissed
    BY <1>1, <1>2 DEF HomeKept, NoNewEdge, HomeHas, EdgeHub, Hub!Known, NobodyMissed
  <1>4. /\ join \in [Viewers -> Joins] /\ told \in [Viewers -> Endings]
        /\ subs \in [Viewers -> Hub!Subscriptions \cup {Hub!NotSubscribed}]
    BY TParts, RegFacts DEF ViewTyped, Hub!TypeOK
  <1>5. ViewersSound
    BY TParts
  <1>6. Hub!NotSubscribed.id = NoID
    BY DEF Hub!NotSubscribed
  <1>7. ViewersSound'
    <2>1. CASE Enter(v)
      <3>1. /\ join'[v].at = "in" /\ join'[v].id = join[v].id
            /\ \A u \in Viewers \ {v} : join'[u] = join[u]
        BY <1>4, <2>1 DEF Enter, JoinTo, Joins
      <3>2. told[v] = "no" /\ subs[v].id = NoID
        BY <1>5, <2>1 DEF Enter, ViewersSound, ViewerSound, JoinAt
      <3>3. CASE Hub!Subscribe(v, join[v].id, FALSE) /\ UNCHANGED told
        <4>1. subs'[v].id = join[v].id /\ \A u \in Viewers \ {v} : subs'[u] = subs[u]
          BY <1>4, <3>3 DEF Hub!Subscribe
        <4> QED
          BY <1>1, <1>5, <3>1, <3>2, <3>3, <4>1 DEF ViewersSound, ViewerSound, JoinAt
      <3>4. CASE told' = [told EXCEPT ![v] = "late"] /\ UNCHANGED hubVars
        <4>1. told'[v] = "late" /\ \A u \in Viewers \ {v} : told'[u] = told[u]
          BY <1>4, <3>4
        <4> QED
          BY <1>1, <1>5, <3>1, <3>2, <3>4, <4>1 DEF ViewersSound, ViewerSound, JoinAt, hubVars
      <3> QED
        BY <2>1, <3>3, <3>4 DEF Enter
    <2>2. CASE Depart(v)
      <3>1. /\ told'[v] = "left" /\ UNCHANGED join
            /\ \A u \in Viewers \ {v} : told'[u] = told[u]
        BY <1>4, <2>2 DEF Depart
      <3>2. subs'[v].id = NoID /\ \A u \in Viewers \ {v} : subs'[u] = subs[u]
        BY <1>4, <1>6, <2>2 DEF Depart, Hub!Unsubscribe, Hub!Unsubscribed
      <3> QED
        BY <1>1, <1>5, <3>1, <3>2 DEF ViewersSound, ViewerSound, JoinAt
    <2> QED
      BY <2>1, <2>2
  <1> QED
    BY <1>1, <1>3, <1>7, ViewStep

--------------------------------------------------------------------------------
(* Leases, goroutines and the world outside *)

\* No pull of the broadcast has seen its origin killed.
NoKill(i) == \A p \in Pulls : pull[p].id = i => ~Killed(pull[p])

\* None has unless it was.
LEMMA NoKillUnlessKilled ==
    ASSUME KillsPass, NEW i \in IDs, remote[i] # "killed"
    PROVE  NoKill(i)
  BY DEF KillsPass, NoKill

\* The steps of goroutines that a kill excludes.
Barred == {"deletedwait", "stop", "stopwait", "lease"}

\* A goroutine that is done leaves no pull and no hub behind.
Spent(j) == /\ j.at \in {"deletedwait", "stopwait"} => Stopped(j.pull)
            /\ j.at = "stopwait" => ~EdgeHub(j.id)'
\* One that starts expects no kill.
Welcome(j) == j.at \in Barred => NoKill(j.id)

\* A broadcast that goes on has a Lease, whose origin is the one it had, or none, or
\* that of a later generation.
GoesOnElsewhere(i) ==
    /\ Lease!There(i)' /\ remote'[i] \notin {"ended", "killed"}
    /\ \/ origin'[i].gen > origin[i].gen
       \/ origin'[i].gen = origin[i].gen /\ origin'[i].holder \in {origin[i].holder, NoPod}

\* What the pulls of a broadcast are told from outside.
LEMMA ClosingIs ==
    ASSUME PullTyped, NEW i \in IDs, NEW code \in {"none", "lost", "ended", "killed"},
           Closing(i, code), NEW q \in Pulls
    PROVE  /\ pull'[q].id = pull[q].id /\ pull'[q].at = pull[q].at
           /\ pull'[q].stop = pull[q].stop /\ pull'[q].gone = pull[q].gone
           /\ pull'[q].gen = pull[q].gen /\ pull'[q].up = pull[q].up
           /\ \/ pull'[q] = pull[q]
              \/ /\ pull[q].id = i /\ pull[q].up = "open" /\ pull[q].coming = "none"
                 /\ pull'[q].coming = code
  <1>1. pull[q] \in PullStates
    BY DEF PullTyped
  <1>2. pull'[q] = IF q \in FedBy(i) /\ pull[q].coming = "none"
                   THEN [pull[q] EXCEPT !.coming = code] ELSE pull[q]
    BY DEF Closing
  <1>3. CASE q \in FedBy(i) /\ pull[q].coming = "none"
    <2>1. pull[q].id = i /\ pull[q].up = "open"
      BY <1>3 DEF FedBy
    <2>2. pull'[q] = [pull[q] EXCEPT !.coming = code]
      BY <1>2, <1>3
    <2> QED
      BY <1>1, <1>3, <2>1, <2>2 DEF PullStates
  <1>4. CASE ~(q \in FedBy(i) /\ pull[q].coming = "none")
    BY <1>2, <1>4
  <1> QED
    BY <1>3, <1>4

\* Nothing comes to them.
LEMMA NothingCloses ==
    ASSUME PullTyped, UNCHANGED pull, NEW i \in IDs
    PROVE  Closing(i, "none")
  <1>1. pull \in [Pulls -> PullStates]
    BY DEF PullTyped
  <1>2. \A q \in Pulls : pull[q].coming = "none" => pull[q] = [pull[q] EXCEPT !.coming = "none"]
    BY <1>1 DEF PullStates
  <1>3. pull' = [q \in Pulls |-> pull[q]]
    BY <1>1
  <1> QED
    BY <1>2, <1>3 DEF Closing

\* A step that changes one broadcast's Lease and what its pulls are told.
LEMMA WorldStep ==
    ASSUME EInv, TInv, LeaseTyped', NEW i \in IDs, UNCHANGED edges, over \subseteq over',
           HomeServes', NoNewEdge, ViewersSound', JobsSound',
           \A j \in jobs \ jobs' : Spent(j), \A j \in jobs' \ jobs : Welcome(j),
           NEW code \in {"none", "lost", "ended", "killed"}, Closing(i, code),
           \A k \in IDs \ {i} : origin'[k] = origin[k] /\ remote'[k] = remote[k],
           i \notin over' => GoesOnElsewhere(i),
           code = "ended" /\ i \notin over' =>
               origin'[i].gen > origin[i].gen \/ origin'[i].holder = NoPod,
           code = "killed" => remote'[i] = "killed" /\ \A j \in jobs' : j.id # i,
           code = "killed" => \A j \in jobs : j.id # i,
           remote'[i] = "killed" \/ NoKill(i),
           remote'[i] = "killed" /\ HolderElsewhere(i)' => origin'[i].pop = NoPop
    PROVE  TInv'
  <1> DEFINE Same(q) == /\ pull'[q].id = pull[q].id /\ pull'[q].at = pull[q].at
                        /\ pull'[q].stop = pull[q].stop /\ pull'[q].gone = pull[q].gone
                        /\ pull'[q].gen = pull[q].gen /\ pull'[q].up = pull[q].up
             Told(q) == /\ pull[q].id = i /\ pull[q].up = "open" /\ pull[q].coming = "none"
                        /\ pull'[q].coming = code
  <1>1. \A q \in Pulls : Same(q) /\ (pull'[q] = pull[q] \/ Told(q))
    BY TParts, ClosingIs
  <1>2. PullsFit'
    <2>1. ASSUME NEW q \in Pulls PROVE Fit(pull'[q])
      <3>1. Fit(pull[q])
        BY TParts DEF PullsFit
      <3> QED
        BY <1>1, <3>1 DEF Fit
    <2> QED
      BY <2>1 DEF PullsFit
  <1>3. PullsTruthful'
    <2>1. ASSUME NEW q \in Pulls, pull[q].id \in IDs \ over'
          PROVE  /\ ~pull'[q].gone /\ pull'[q].at # "ending"
                 /\ pull'[q].gen <= origin'[pull[q].id].gen
                 /\ "ended" \in {pull'[q].up, pull'[q].coming} =>
                       \/ pull'[q].gen < origin'[pull[q].id].gen
                       \/ origin'[pull[q].id].holder = NoPod
      <3> DEFINE k == pull[q].id
      <3>1. /\ ~pull[q].gone /\ pull[q].at # "ending"
            /\ pull[q].gen <= origin[k].gen
            /\ "ended" \in {pull[q].up, pull[q].coming} =>
                  pull[q].gen < origin[k].gen \/ origin[k].holder = NoPod
        BY <2>1, TParts DEF PullsTruthful, Truthful
      <3>2. CASE k # i
        BY <1>1, <2>1, <3>1, <3>2
      <3>3. CASE k = i
        <4>1. origin[i].gen \in Nat /\ origin'[i].gen \in Nat
          BY <2>1, <3>3, TParts DEF LeasesLast, LeaseTyped, Lease!There, Lease!Origins,
                                    GoesOnElsewhere
        <4>2. pull[q].gen \in Nat
          BY TParts DEF PullStates
        <4>3. \/ origin'[i].gen > origin[i].gen
              \/ /\ origin'[i].gen = origin[i].gen
                 /\ origin'[i].holder \in {origin[i].holder, NoPod}
          BY <2>1, <3>3 DEF GoesOnElsewhere
        <4>4. CASE pull'[q] = pull[q]
          BY <1>1, <3>1, <3>3, <4>1, <4>2, <4>3, <4>4
        <4>5. CASE Told(q)
          BY <1>1, <2>1, <3>1, <3>3, <4>1, <4>2, <4>3, <4>5
        <4> QED
          BY <1>1, <4>4, <4>5
      <3> QED
        BY <3>2, <3>3
    <2>2. \A q \in Pulls : pull'[q].id = pull[q].id
      BY <1>1
    <2> QED
      BY <2>1, <2>2 DEF PullsTruthful, Truthful
  <1>4. LeasesLast'
    BY TParts DEF LeasesLast, GoesOnElsewhere, HolderElsewhere, Lease!There
  <1>5. Mapped'
    <2>1. \A k \in IDs : edges[k] \in Pulls =>
             pull'[edges[k]].at # "done" /\ pull'[edges[k]].id = k /\ ~pull'[edges[k]].stop
      BY <1>1, TParts DEF Mapped, Running, PullAt
    <2>2. ASSUME NEW q \in Pulls, pull'[q].at # "done"
          PROVE  edges[pull[q].id] = q \/ Stopping(pull[q].id, q)'
      <3>1. Running(q)
        BY <1>1, <2>2 DEF Running, PullAt
      <3>2. Stopping(pull[q].id, q) => Stopping(pull[q].id, q)'
        <4>1. pull'[q].id = pull[q].id
          BY <1>1
        <4>2. ASSUME NEW j \in jobs, j.pull = q, j.at \in {"stopwait", "deletedwait"}
              PROVE  j \in jobs'
          BY <3>1, <4>2 DEF Spent, Stopped
        <4> QED
          BY <4>1, <4>2 DEF Stopping
      <3> QED
        BY <3>1, <3>2, TParts DEF Mapped
    <2>3. \A q \in Pulls : pull'[q].id = pull[q].id
      BY <1>1
    <2>4. \A k \in IDs : (edges[k] \in Pulls =>
             Running(edges[k]) /\ pull[edges[k]].id = k /\ ~pull[edges[k]].stop)'
      BY <2>1 DEF Running, PullAt
    <2>5. \A q \in Pulls : (Running(q) => edges[pull[q].id] = q \/ Stopping(pull[q].id, q))'
      BY <2>2, <2>3 DEF Running, PullAt
    <2> QED
      BY <2>4, <2>5 DEF Mapped
  <1>6. HubsFed'
    <2> SUFFICES ASSUME NEW k \in IDs \ over', EdgeHub(k)', ~Coming(k)'
                 PROVE  edges[k] \in Pulls /\ pull'[edges[k]].at # "release"
      BY DEF HubsFed, Fed, PullAt
    <2>1. ~Coming(k)
      BY DEF Coming, Spent
    <2>2. Fed(k)
      BY <2>1, TParts DEF HubsFed, NoNewEdge
    <2> QED
      BY <1>1, <2>2 DEF Fed, PullAt
  <1>7. KillsPass'
    <2>1. ASSUME NEW q \in Pulls, Killed(pull'[q])
          PROVE  /\ edges[pull[q].id] = q /\ remote'[pull[q].id] = "killed"
                 /\ \A j \in jobs' : j.id = pull[q].id => j.at \notin Barred
      <3>1. CASE Killed(pull[q])
        <4>1. /\ edges[pull[q].id] = q /\ remote[pull[q].id] = "killed"
              /\ \A j \in jobs : j.id = pull[q].id => j.at \notin Barred
          BY <3>1, TParts DEF KillsPass, Barred
        <4>2. Running(q)
          BY <3>1, TParts DEF PullsFit, Fit, Killed, Running, PullAt
        <4>3. remote'[pull[q].id] = "killed"
          BY <3>1, <4>1, <4>2, TParts DEF NoKill
        <4>4. ASSUME NEW j \in jobs' \ jobs, j.id = pull[q].id PROVE j.at \notin Barred
          BY <3>1, <4>4 DEF Welcome, NoKill
        <4> QED
          BY <4>1, <4>3, <4>4
      <3>2. CASE ~Killed(pull[q])
        <4>1. Told(q) /\ code = "killed"
          BY <1>1, <2>1, <3>2 DEF Killed
        <4>2. Running(q)
          BY <4>1, TParts DEF PullsFit, Fit, Running, PullAt
        <4>3. edges[i] = q
          BY <4>1, <4>2, TParts DEF Mapped, Stopping
        <4> QED
          BY <4>1, <4>3
      <3> QED
        BY <3>1, <3>2
    <2>2. \A q \in Pulls : pull'[q].id = pull[q].id
      BY <1>1
    <2> QED
      BY <2>1, <2>2 DEF KillsPass, Barred
  <1> QED
    BY <1>2, <1>3, <1>4, <1>5, <1>6, <1>7 DEF TInv

\* A Lease that is claimed, in grace or released.
LEMMA ClaimIs ==
    ASSUME LeaseTyped, NEW i \in IDs, NEW q \in {Self, Other}, NEW pop, Lease!Claim(q, i, pop)
    PROVE  /\ \A k \in IDs \ {i} : origin'[k] = origin[k]
           /\ Lease!There(i) => /\ Lease!There(i)'
                                /\ origin'[i].gen = origin[i].gen + 1
                                /\ origin'[i].gen > origin[i].gen
                                /\ origin'[i].holder = q /\ origin'[i].pop = origin[i].pop
                                /\ origin[i].pop = pop
           /\ ~Lease!There(i) => origin'[i].pop = NoPop
  <1>1. origin \in [IDs -> Lease!Origins \cup {Lease!Nothing}]
    BY DEF LeaseTyped
  <1>2. CASE ~Lease!There(i)
    BY <1>1, <1>2 DEF Lease!Claim, Lease!Write
  <1>3. CASE Lease!There(i)
    <2>1. PICK o \in Lease!Origins : o = origin[i]
      BY <1>1, <1>3 DEF Lease!There
    <2>2. PICK n : n = [o EXCEPT !.holder = q, !.gen = @ + 1, !.away = FALSE, !.expired = FALSE]
      OBVIOUS
    <2>3. /\ n.gen = o.gen + 1 /\ n.holder = q /\ n.pop = o.pop
          /\ o.gen \in Nat
      BY <2>1, <2>2 DEF Lease!Origins
    <2>4. origin' = [origin EXCEPT ![i] = n] /\ origin[i].pop = pop
      BY <1>3, <2>1, <2>2 DEF Lease!Claim, Lease!Write
    <2>5. origin'[i] = n /\ \A k \in IDs \ {i} : origin'[k] = origin[k]
      BY <1>1, <2>4
    <2>6. n # Lease!Nothing
      <3>1. Lease!Nothing.gen \notin Nat
        BY DEF Lease!Nothing
      <3> QED
        BY <2>3, <3>1
    <2> QED
      BY <1>3, <2>1, <2>3, <2>4, <2>5, <2>6 DEF Lease!There
  <1> QED
    BY <1>2, <1>3

\* A Lease in grace keeps its origin; one that is released has none.
LEMMA LeftIs ==
    ASSUME LeaseTyped, NEW i \in IDs, NEW q \in {Self, Other},
           Lease!EnterGrace(q, i) \/ Lease!Release(q, i)
    PROVE  /\ \A k \in IDs \ {i} : origin'[k] = origin[k]
           /\ Lease!There(i) /\ Lease!There(i)'
           /\ origin'[i].gen = origin[i].gen /\ origin'[i].pop = origin[i].pop
           /\ Lease!EnterGrace(q, i) => origin'[i].holder = origin[i].holder
           /\ Lease!Release(q, i) => origin'[i].holder = NoPod
  <1>1. origin \in [IDs -> Lease!Origins \cup {Lease!Nothing}] /\ Lease!There(i)
    BY DEF LeaseTyped, Lease!EnterGrace, Lease!Release
  <1>2. PICK o \in Lease!Origins : o = origin[i]
    BY <1>1 DEF Lease!There
  <1>3. \A n : n.gen = o.gen => n # Lease!Nothing
    <2>1. Lease!Nothing.gen \notin Nat
      BY DEF Lease!Nothing
    <2>2. o.gen \in Nat
      BY <1>2 DEF Lease!Origins
    <2> QED
      BY <2>1, <2>2
  <1>4. ASSUME Lease!EnterGrace(q, i)
        PROVE  /\ \A k \in IDs \ {i} : origin'[k] = origin[k]
               /\ Lease!There(i)'
               /\ origin'[i].gen = origin[i].gen /\ origin'[i].pop = origin[i].pop
               /\ origin'[i].holder = origin[i].holder
    <2>1. PICK n : n = [o EXCEPT !.away = TRUE, !.expired = FALSE]
      OBVIOUS
    <2>2. n.gen = o.gen /\ n.holder = o.holder /\ n.pop = o.pop
      BY <2>1 DEF Lease!Origins
    <2>3. origin'[i] = n /\ \A k \in IDs \ {i} : origin'[k] = origin[k]
      BY <1>1, <1>2, <1>4, <2>1 DEF Lease!EnterGrace, Lease!Write
    <2> QED
      BY <1>1, <1>2, <1>3, <1>4, <2>2, <2>3 DEF Lease!There
  <1>5. ASSUME Lease!Release(q, i)
        PROVE  /\ \A k \in IDs \ {i} : origin'[k] = origin[k]
               /\ Lease!There(i)'
               /\ origin'[i].gen = origin[i].gen /\ origin'[i].pop = origin[i].pop
               /\ origin'[i].holder = NoPod
    <2>1. PICK n : n = IF o.pop = NoPop THEN [o EXCEPT !.holder = NoPod]
                       ELSE [o EXCEPT !.holder = NoPod, !.away = FALSE, !.expired = FALSE]
      OBVIOUS
    <2>2. n.gen = o.gen /\ n.holder = NoPod /\ n.pop = o.pop
      BY <2>1 DEF Lease!Origins
    <2>3. origin'[i] = n /\ \A k \in IDs \ {i} : origin'[k] = origin[k]
      BY <1>1, <1>2, <1>5, <2>1 DEF Lease!Release, Lease!Write
    <2> QED
      BY <1>1, <1>2, <1>3, <1>5, <2>2, <2>3 DEF Lease!There
  <1> QED
    BY <1>1, <1>4, <1>5

\* What goroutines know survives the start of others that know what they should.
LEMMA JobsAdded ==
    ASSUME JobsTyped, JobsSound, HomeKept, over \subseteq over',
           \A k \in IDs : origin'[k].pop = origin[k].pop \/ k \in over',
           NEW N, jobs' \subseteq jobs \cup N,
           \A j \in N : JobSound(j)' /\ \A k \in jobs' : Alone(j, k)
    PROVE  JobsSound'
  <1>1. ASSUME NEW j \in jobs', j \notin N PROVE JobSound(j)'
    <2>1. j \in Jobs /\ JobSound(j) /\ j.id \in IDs
      BY <1>1 DEF JobsTyped, JobsSound, Jobs
    <2> QED
      BY <2>1, JobKept
  <1>2. \A j \in jobs', k \in jobs' : Alone(j, k)
    <2>1. \A j, k : Alone(j, k) <=> Alone(k, j)
      BY DEF Alone
    <2> QED
      BY <2>1 DEF JobsSound
  <1> QED
    BY <1>1, <1>2 DEF JobsSound, Alone

\* The broadcaster's session serves what it served.
LEMMA ServesKept ==
    ASSUME HomeServes, HomeKept, over \subseteq over',
           \A k \in IDs \ over' : HolderIsSelf(k)' => HolderIsSelf(k)
    PROVE  HomeServes'
  BY DEF HomeServes, HomeKept

\* A goroutine that a kill excludes meets none.
LEMMA BarredMeetsNoKill ==
    ASSUME KillsPass, NEW j \in jobs, j.at \in Barred
    PROVE  NoKill(j.id)
  BY DEF KillsPass, NoKill, Barred

\* StopEdge leaves a pull to end on its own: it is waited for.
LEMMA StopStep ==
    ASSUME EInv, TInv, NEW j \in jobs, NEW next, StopEdge(j, next),
           UNCHANGED <<hubVars, origin, remote, over, viewVars>>,
           \/ j.at = "deleted" /\ next = "deletedwait" /\ ChanceGiven(j.id)
           \/ j.at = "stop" /\ next = "stopwait"
    PROVE  TInv'
  <1> DEFINE i == j.id
             e == edges[i]
  <1>1. PICK n : n = [id |-> i, at |-> next, pull |-> e]
    OBVIOUS
  <1>2. jobs' = (jobs \ {j}) \cup {n} /\ n.id = i /\ n.at = next /\ n.pull = e
    BY <1>1 DEF StopEdge, Swap
  <1>3. i \in IDs /\ e \in Pulls \cup {NoSession} /\ NoSession \notin Pulls
    BY EdgePullAssumption, TParts DEF EdgesTyped
  <1>4. edges'[i] = NoSession /\ \A k \in IDs \ {i} : edges'[k] = edges[k]
    BY <1>3, TParts DEF StopEdge, EdgesTyped
  <1>5. ASSUME NEW q \in Pulls
        PROVE  /\ pull'[q].at = pull[q].at
               /\ pull'[q].id = pull[q].id /\ pull'[q].gen = pull[q].gen
               /\ pull'[q].gone = pull[q].gone /\ SameEnds(pull[q], pull'[q])
               /\ q # e => pull'[q] = pull[q]
    <2>1. pull \in [Pulls -> PullStates] /\ pull[q] \in PullStates
      BY TParts DEF PullTyped
    <2>2. CASE q = e
      <3>1. pull'[q] = [pull[q] EXCEPT !.stop = TRUE]
        BY <1>3, <2>1, <2>2 DEF StopEdge
      <3> QED
        BY <2>1, <2>2, <3>1 DEF PullStates, Like, SameEnds
    <2>3. CASE q # e
      <3>1. pull'[q] = pull[q]
        BY <1>3, <2>1, <2>3 DEF StopEdge
      <3> QED
        BY <2>1, <2>3, <3>1 DEF PullStates, Like, SameEnds
    <2> QED
      BY <2>2, <2>3
  <1>6. HomeKept /\ NoNewEdge /\ UNCHANGED subs
    BY HubsSame
  <1>7. PullsFit'
    <2>1. \A q \in Pulls : Fit(pull[q]) => Fit(pull'[q])
      BY <1>5 DEF Fit, SameEnds
    <2> QED
      BY <2>1, TParts DEF PullsFit
  <1>8. PullsTruthful'
    <2>1. \A q \in Pulls : Truthful(pull[q]) => Truthful(pull'[q])
      BY <1>5 DEF Truthful, SameEnds
    <2> QED
      BY <2>1, TParts DEF PullsTruthful, Truthful
  <1>9. LeasesLast' /\ HomeServes'
    BY <1>6, TParts, ServesKept DEF LeasesLast, HolderIsSelf, HolderElsewhere, Lease!There
  <1>10. JobsSound'
    <2>1. JobSound(j) /\ \A k \in jobs : Alone(j, k)
      BY TParts DEF JobsSound
    <2>2. JobSound(n)'
      BY <1>2, <2>1 DEF JobSound
    <2>3. \A k \in jobs' : Alone(n, k)
      BY <1>2, <2>1 DEF Alone, BusySteps
    <2>4. jobs' \subseteq jobs \cup {n}
      BY <1>2
    <2>5. \A m \in {n} : JobSound(m)' /\ \A k \in jobs' : Alone(m, k)
      BY <2>2, <2>3
    <2>6. JobsTyped /\ JobsSound /\ HomeKept
      BY <1>6, TParts
    <2>7. over \subseteq over' /\ \A k \in IDs : origin'[k].pop = origin[k].pop \/ k \in over'
      OBVIOUS
    <2>8. PICK N : N = {n}
      OBVIOUS
    <2>9. jobs' \subseteq jobs \cup N
      BY <2>4, <2>8
    <2>10. \A m \in N : JobSound(m)' /\ \A k \in jobs' : Alone(m, k)
      BY <2>5, <2>8
    <2> HIDE DEF i, e
    <2> QED
      BY <2>6, <2>7, <2>9, <2>10, JobsAdded
  <1>11. Mapped'
    <2>1. ASSUME NEW k \in IDs, edges'[k] \in Pulls
          PROVE  /\ pull'[edges'[k]].at # "done" /\ pull'[edges'[k]].id = k
                 /\ ~pull'[edges'[k]].stop
      <3>1. k # i /\ edges'[k] = edges[k]
        BY <1>3, <1>4, <2>1
      <3>2. Running(edges[k]) /\ pull[edges[k]].id = k /\ ~pull[edges[k]].stop
        BY <2>1, <3>1, TParts DEF Mapped
      <3>3. edges[k] # e
        BY <1>3, <2>1, <3>1, <3>2, TParts DEF Mapped
      <3> QED
        BY <1>5, <2>1, <3>1, <3>2, <3>3 DEF Running, PullAt
    <2>2. ASSUME NEW q \in Pulls, pull'[q].at # "done"
          PROVE  edges'[pull[q].id] = q \/ Stopping(pull[q].id, q)'
      <3>1. Running(q)
        BY <1>5, <2>2 DEF Running, PullAt
      <3>2. pull[q].id \in IDs /\ (edges[pull[q].id] = q \/ Stopping(pull[q].id, q))
        BY <3>1, TParts DEF Mapped
      <3>3. pull'[q].id = pull[q].id
        BY <1>5
      <3>4. CASE Stopping(pull[q].id, q)
        <4>1. PICK k \in jobs : /\ k.id = pull[q].id /\ k.pull = q
                                /\ k.at \in {"stopwait", "deletedwait"}
          BY <3>4 DEF Stopping
        <4>2. k \in jobs'
          BY <1>2, <4>1
        <4> QED
          BY <3>3, <4>1, <4>2 DEF Stopping
      <3>5. CASE edges[pull[q].id] = q /\ pull[q].id = i
        BY <1>2, <3>3, <3>5 DEF Stopping
      <3>6. CASE edges[pull[q].id] = q /\ pull[q].id # i
        BY <1>4, <3>2, <3>6
      <3> QED
        BY <3>2, <3>4, <3>5, <3>6
    <2>3. \A q \in Pulls : pull'[q].id = pull[q].id
      BY <1>5
    <2>4. \A k \in IDs : (edges[k] \in Pulls =>
             Running(edges[k]) /\ pull[edges[k]].id = k /\ ~pull[edges[k]].stop)'
      BY <2>1 DEF Running, PullAt
    <2>5. \A q \in Pulls : (Running(q) => edges[pull[q].id] = q \/ Stopping(pull[q].id, q))'
      BY <2>2, <2>3 DEF Running, PullAt
    <2> QED
      BY <2>4, <2>5 DEF Mapped
  <1>12. HubsFed'
    <2> SUFFICES ASSUME NEW k \in IDs \ over, EdgeHub(k)', ~Coming(k)'
                 PROVE  edges'[k] \in Pulls /\ pull'[edges'[k]].at # "release"
      BY DEF HubsFed, Fed, PullAt
    <2>1. k # i
      <3>1. next = "deletedwait" => i \in over
        BY TParts DEF JobsSound, JobSound
      <3> QED
        BY <1>2, <3>1 DEF Coming
    <2>2. ~Coming(k)
      BY <1>2, <2>1 DEF Coming
    <2>3. Fed(k)
      BY <1>6, <2>2, TParts DEF HubsFed, NoNewEdge
    <2> QED
      BY <1>4, <1>5, <2>1, <2>3 DEF Fed, PullAt
  <1>13. KillsPass'
    <2>1. ASSUME NEW q \in Pulls, Killed(pull'[q])
          PROVE  /\ edges'[pull[q].id] = q /\ remote[pull[q].id] = "killed"
                 /\ \A k \in jobs' : k.id = pull[q].id => k.at \notin Barred
      <3>1. Killed(pull[q])
        BY <1>5, <2>1 DEF Killed, SameEnds
      <3>2. /\ edges[pull[q].id] = q /\ remote[pull[q].id] = "killed"
            /\ \A k \in jobs : k.id = pull[q].id => k.at \notin Barred
        BY <3>1, TParts DEF KillsPass, Barred
      <3>3. Running(q) /\ pull[q].id \in IDs
        BY <3>1, TParts DEF PullsFit, Fit, Killed, Running, PullAt
      <3>4. pull[q].id # i
        <4>1. SUFFICES ASSUME pull[q].id = i PROVE FALSE
          OBVIOUS
        <4>2. CASE j.at = "stop"
          BY <3>2, <4>1, <4>2 DEF Barred
        <4>3. CASE ChanceGiven(i)
          <5>1. HasPull(i) /\ edges[i] = q
            BY <1>3, <3>2, <3>3, <4>1 DEF HasPull
          <5>2. pull[q].coming # "killed" /\ pull[q].up # "killed"
            BY <4>3, <5>1 DEF ChanceGiven
          <5> QED
            BY <3>1, <5>2 DEF Killed
        <4> QED
          BY <4>2, <4>3
      <3> QED
        BY <1>2, <1>4, <3>2, <3>3, <3>4
    <2>2. \A q \in Pulls : pull'[q].id = pull[q].id
      BY <1>5
    <2> QED
      BY <2>1, <2>2 DEF KillsPass, Barred
  <1>14. ViewersSound'
    BY <1>6, TParts, ViewersKept
  <1> QED
    BY <1>7, <1>8, <1>9, <1>10, <1>11, <1>12, <1>13, <1>14 DEF TInv

\* A deletion event and a broadcaster that comes home both begin with StopEdge.
LEMMA StopsStep ==
    ASSUME EInv, TInv, NEW j \in jobs, OnLeaseDeleted(j) \/ HomeStops(j)
    PROVE  TInv'
  <1>1. CASE OnLeaseDeleted(j)
    BY <1>1, StopStep DEF OnLeaseDeleted
  <1>2. CASE HomeStops(j)
    BY <1>2, StopStep DEF HomeStops, leaseVars
  <1> QED
    BY <1>1, <1>2

\* A step of this pod that leaves Leases and pulls alone.
LEMMA HereStep ==
    ASSUME EInv, TInv, LeaseTyped', NEW i \in IDs,
           UNCHANGED <<origin, remote, over, pull, edges>>,
           HomeServes', NoNewEdge, ViewersSound', JobsSound',
           \A j \in jobs \ jobs' : Spent(j), \A j \in jobs' \ jobs : Welcome(j)
    PROVE  TInv'
  <1>1. Closing(i, "none")
    BY TParts, NothingCloses
  <1>2. i \notin over' => GoesOnElsewhere(i)
    BY TParts DEF LeasesLast, GoesOnElsewhere, Lease!There
  <1>3. remote'[i] = "killed" \/ NoKill(i)
    BY TParts, NoKillUnlessKilled
  <1>4. remote'[i] = "killed" /\ HolderElsewhere(i)' => origin'[i].pop = NoPop
    BY TParts DEF LeasesLast, HolderElsewhere, Lease!There
  <1>5. /\ over \subseteq over'
        /\ \A k \in IDs \ {i} : origin'[k] = origin[k] /\ remote'[k] = remote[k]
    OBVIOUS
  <1>6. PICK code : code = "none"
    OBVIOUS
  <1>7. code \in {"none", "lost", "ended", "killed"} /\ Closing(i, code)
        /\ code # "ended" /\ code # "killed"
    BY <1>1, <1>6
  <1> QED
    BY <1>2, <1>3, <1>4, <1>5, <1>7, WorldStep

\* HandleLeaseDeleted ends the hub once its pull is done.
LEMMA EndAfterDeletionStep ==
    ASSUME EInv, TInv, LeaseTyped', NEW j \in jobs, EndAfterDeletion(j)
    PROVE  TInv'
  <1> DEFINE i == j.id
  <1>1. /\ UNCHANGED <<origin, remote, over, pull, edges>> /\ jobs' = jobs \ {j}
        /\ j.at = "deletedwait" /\ Stopped(j.pull) /\ EndHub(i) /\ Tell("ended")
    BY DEF EndAfterDeletion, leaseVars, Swap
  <1>2. i \in IDs /\ i \in over
    BY <1>1, TParts DEF JobsSound, JobSound
  <1>3. HomeKept /\ NoNewEdge /\ (Cut(i) \/ UNCHANGED subs)
    BY <1>1, <1>2, TParts, EndHubKept
  <1>4. HomeServes'
    BY <1>1, <1>3, TParts, ServesKept DEF HolderIsSelf, Lease!There
  <1>5. ViewersSound'
    BY <1>1, <1>2, <1>3, TParts, ViewersTold
  <1>6. JobsSound'
    BY <1>1, <1>3, TParts, JobsKept
  <1>7. \A k \in jobs \ jobs' : Spent(k)
    BY <1>1 DEF Spent
  <1>8. \A k \in jobs' \ jobs : Welcome(k)
    BY <1>1
  <1> QED
    BY <1>1, <1>2, <1>3, <1>4, <1>5, <1>6, <1>7, <1>8, HereStep

\* A broadcaster that comes home takes the slot: nothing else of it is on its way.
LEMMA HomeClaimsStep ==
    ASSUME EInv, TInv, LeaseTyped', NEW j \in jobs, HomeClaims(j)
    PROVE  TInv'
  <1> DEFINE i == j.id
  <1>1. PICK n : n = Job(i, "lease")
    OBVIOUS
  <1>2. /\ UNCHANGED <<origin, remote, over, pull, edges, viewVars>>
        /\ jobs' = (jobs \ {j}) \cup {n} /\ n.id = i /\ n.at = "lease"
        /\ j.at = "stopwait" /\ Stopped(j.pull)
        /\ Hub!ResumePublish(Home, i) \/ Hub!TakeOverPublish(Home, i)
    BY <1>1 DEF HomeClaims, leaseVars, Swap, Job
  <1>3. i \in IDs /\ JobSound(j) /\ \A k \in jobs : JobSound(k) /\ Alone(j, k)
    BY TParts DEF JobsSound
  <1>4. /\ NoNewEdge /\ HomeHas(i)' /\ UNCHANGED subs /\ Hub!Idle(Home)
        /\ pubs'[Home].id = i /\ \A k \in IDs : hubs[k].pub # Home
    BY <1>2, <1>3, TParts, ClaimedByHome
  <1>5. \A k \in jobs : k.at \notin {"lease", "leave"}
    <2>1. pubs[Home].id = NoID
      BY <1>4, TParts, HandleFacts DEF Hub!Idle
    <2> QED
      BY <1>3, <2>1, EdgePullAssumption, TParts DEF JobSound
  <1>6. JobsSound'
    <2>1. ASSUME NEW k \in jobs' PROVE JobSound(k)'
      <3>1. CASE k = n
        BY <1>2, <1>3, <1>4, <3>1 DEF JobSound
      <3>2. CASE k \in jobs
        BY <1>2, <1>3, <1>5, <3>2 DEF JobSound
      <3> QED
        BY <1>2, <3>1, <3>2
    <2>2. \A k, m \in jobs' : Alone(k, m)
      BY <1>2, <1>3, TParts DEF JobsSound, Alone, BusySteps
    <2> QED
      BY <2>1, <2>2 DEF JobsSound, Alone
  <1>7. HomeServes'
    BY <1>2, <1>4, TParts DEF HomeServes, HomeHas, HolderIsSelf, Lease!There
  <1>8. ViewersSound'
    BY <1>2, <1>4, TParts, ViewersKept DEF viewVars
  <1>9. \A k \in jobs \ jobs' : Spent(k)
    BY <1>2, <1>4 DEF Spent, HomeHas, EdgeHub
  <1>10. \A k \in jobs' \ jobs : Welcome(k)
    <2>1. NoKill(i)
      BY <1>2, TParts, BarredMeetsNoKill DEF Barred
    <2> QED
      BY <1>2, <2>1 DEF Welcome
  <1> QED
    BY <1>2, <1>3, <1>4, <1>6, <1>7, <1>8, <1>9, <1>10, HereStep

\* What its session knew, when it is closed.
LEMMA HomeGoes ==
    ASSUME EInv, TInv, NEW j \in jobs, j.at \in {"lease", "leave"}, Hub!Close(Home),
           over \subseteq over', \A k \in IDs : origin'[k].pop = origin[k].pop,
           NEW N, jobs' = (jobs \ {j}) \cup N,
           \A n \in N : n.at \notin BusySteps /\ JobSound(n)'
    PROVE  /\ JobsSound' /\ NoNewEdge /\ UNCHANGED subs
           /\ \A k \in IDs : HomeHas(k) => k = j.id /\ ~pubs[Home].closed
  <1>1. j.id \in IDs /\ JobSound(j) /\ \A k \in jobs : JobSound(k) /\ Alone(j, k)
    BY TParts DEF JobsSound
  <1>2. pubs[Home].id = j.id
    BY <1>1 DEF JobSound
  <1>3. ASSUME NEW k \in jobs', k \notin N PROVE JobSound(k)'
    <2>1. k \in jobs /\ k # j /\ k.id \in IDs /\ JobSound(k) /\ Alone(j, k)
      BY <1>1, <1>3, TParts
    <2>2. k.at \notin {"lease", "leave"}
      BY <1>2, <2>1 DEF JobSound, Alone, BusySteps
    <2> QED
      BY <2>1, <2>2 DEF JobSound
  <1>4. \A k, m \in jobs' : Alone(k, m)
    BY TParts DEF JobsSound, Alone
  <1>5. JobsSound'
    BY <1>3, <1>4 DEF JobsSound, Alone
  <1> QED
    BY <1>2, <1>5, TParts, ClosedByHome DEF HomeHas

\* Its session ends.
LEMMA HomeLeavesStep ==
    ASSUME EInv, TInv, LeaseTyped', NEW j \in jobs, HomeLeaves(j)
    PROVE  TInv'
  <1> DEFINE i == j.id
             graced == HolderIsSelf(i) /\ ~pubs[Home].closed
  <1>1. /\ UNCHANGED <<remote, pull, edges, viewVars>> /\ jobs' = jobs \ {j}
        /\ j.at = "leave" /\ Hub!Close(Home)
        /\ graced => Lease!EnterGrace(Self, i) /\ over' = over \cup {i}
        /\ ~graced => UNCHANGED <<origin, over>>
    BY DEF HomeLeaves, Swap
  <1>2. i \in IDs /\ over \subseteq over'
    BY <1>1, TParts
  <1>3. /\ \A k \in IDs \ {i} : origin'[k] = origin[k]
        /\ \A k \in IDs : origin'[k].pop = origin[k].pop /\ origin'[k].holder = origin[k].holder
        /\ graced => Lease!There(i)
    BY <1>1, <1>2, TParts, LeftIs
  <1>4. /\ JobsSound' /\ NoNewEdge /\ UNCHANGED subs
        /\ \A k \in IDs : HomeHas(k) => k = i /\ ~pubs[Home].closed
    <2>1. PICK N : N = {}
      OBVIOUS
    <2>2. jobs' = (jobs \ {j}) \cup N /\ \A n \in N : n.at \notin BusySteps /\ JobSound(n)'
      BY <1>1, <2>1
    <2> HIDE DEF i
    <2>3. JobsSound' /\ NoNewEdge /\ UNCHANGED subs
          /\ \A k \in IDs : HomeHas(k) => k = j.id /\ ~pubs[Home].closed
      BY <1>1, <1>2, <1>3, <2>2, HomeGoes
    <2> QED
      BY <2>3 DEF i
  <1>5. HomeServes'
    <2> SUFFICES ASSUME NEW k \in IDs \ over', HolderIsSelf(k)' PROVE FALSE
      BY DEF HomeServes
    <2>1. HolderIsSelf(k)
      BY <1>2, <1>3, TParts DEF HolderIsSelf, LeasesLast
    <2>2. k = i /\ ~pubs[Home].closed
      BY <1>2, <1>4, <2>1, TParts DEF HomeServes
    <2> QED
      BY <1>1, <2>1, <2>2
  <1>6. ViewersSound'
    BY <1>1, <1>2, <1>4, TParts, ViewersKept DEF viewVars
  <1>7. i \notin over' => GoesOnElsewhere(i)
    BY <1>1, <1>2, TParts DEF LeasesLast, GoesOnElsewhere, Lease!There
  <1>8. remote'[i] = "killed" \/ NoKill(i)
    BY <1>1, <1>2, TParts, NoKillUnlessKilled
  <1>9. remote'[i] = "killed" /\ HolderElsewhere(i)' => origin'[i].pop = NoPop
    <2>1. UNCHANGED origin \/ origin[i].holder = Self
      BY <1>1 DEF HolderIsSelf
    <2> QED
      BY <1>1, <1>2, <1>3, <2>1, EdgePullAssumption, TParts
         DEF LeasesLast, HolderElsewhere, Lease!There
  <1>10. PICK code : code = "none"
    OBVIOUS
  <1>11. code \in {"none", "lost", "ended", "killed"} /\ Closing(i, code)
         /\ code # "ended" /\ code # "killed"
    BY <1>1, <1>2, <1>10, TParts, NothingCloses
  <1>12. (\A k \in jobs \ jobs' : Spent(k)) /\ (\A k \in jobs' \ jobs : Welcome(k))
    BY <1>1 DEF Spent
  <1>13. \A k \in IDs \ {i} : origin'[k] = origin[k] /\ remote'[k] = remote[k]
    BY <1>1, <1>3
  <1> HIDE DEF i, graced
  <1> QED
    BY <1>1, <1>2, <1>4, <1>5, <1>6, <1>7, <1>8, <1>9, <1>11, <1>12, <1>13, WorldStep

\* It claims the Lease, from an origin elsewhere if there is one, or is refused.
LEMMA HomeLeasesStep ==
    ASSUME EInv, TInv, LeaseTyped', NEW j \in jobs, HomeLeases(j)
    PROVE  TInv'
  <1> DEFINE i == j.id
  <1>1. /\ i \in IDs /\ j.at = "lease" /\ JobSound(j) /\ NoKill(i)
        /\ UNCHANGED <<edges, viewVars>>
    BY TParts, BarredMeetsNoKill DEF HomeLeases, JobsSound, Barred
  <1>2. CASE /\ Lease!Claim(Self, i, NoPop)
             /\ remote' = [remote EXCEPT ![i] = "none"]
             /\ Closing(i, "lost")
             /\ Swap(j, {})
             /\ UNCHANGED <<hubVars, over>>
    <2>1. HomeKept /\ NoNewEdge /\ UNCHANGED subs
      BY <1>2, HubsSame
    <2>2. /\ jobs' = jobs \ {j} /\ over \subseteq over'
          /\ remote'[i] = "none" /\ \A k \in IDs \ {i} : remote'[k] = remote[k]
      BY <1>1, <1>2, TParts DEF Swap, LeaseTyped
    <2>3. /\ \A k \in IDs \ {i} : origin'[k] = origin[k]
          /\ Lease!There(i) => /\ Lease!There(i)' /\ origin'[i].gen > origin[i].gen
                               /\ origin'[i].pop = origin[i].pop
      BY <1>1, <1>2, TParts, ClaimIs
    <2>4. i \notin over' => GoesOnElsewhere(i)
      BY <1>1, <1>2, <2>2, <2>3, TParts DEF LeasesLast, GoesOnElsewhere
    <2>5. JobsSound'
      <3>1. \A k \in IDs : origin'[k].pop = origin[k].pop \/ k \in over'
        BY <1>2, <2>3, TParts DEF LeasesLast
      <3> QED
        BY <2>1, <2>2, <3>1, TParts, JobsKept
    <2>6. HomeServes'
      <3>1. \A k \in IDs \ {i} : HolderIsSelf(k)' => HolderIsSelf(k)
        BY <2>3 DEF HolderIsSelf, Lease!There
      <3>2. i \notin over => HomeHas(i)'
        BY <1>1, <1>2, <2>1 DEF JobSound, HomeKept
      <3> QED
        BY <1>2, <2>1, <3>1, <3>2, TParts DEF HomeServes, HomeKept
    <2>7. ViewersSound'
      BY <1>1, <2>1, <2>2, TParts, ViewersKept
    <2>8. (\A k \in jobs \ jobs' : Spent(k)) /\ (\A k \in jobs' \ jobs : Welcome(k))
      BY <1>1, <2>2 DEF Spent
    <2>9. PICK code : code = "lost"
      OBVIOUS
    <2>10. code \in {"none", "lost", "ended", "killed"} /\ Closing(i, code)
           /\ code # "ended" /\ code # "killed"
      BY <1>2, <2>9
    <2>11. remote'[i] # "killed"
      BY <2>2
    <2> HIDE DEF i
    <2> QED
      BY <1>1, <2>1, <2>2, <2>3, <2>4, <2>5, <2>6, <2>7, <2>8, <2>10, <2>11, WorldStep
  <1>3. CASE /\ Lease!There(i) /\ origin[i].pop # NoPop
             /\ Hub!Close(Home)
             /\ Swap(j, {Job(i, "deletedwait")})
             /\ UNCHANGED <<leaseVars, pull>>
    <2>1. PICK n : n = Job(i, "deletedwait")
      OBVIOUS
    <2>2. PICK N : N = {n}
      OBVIOUS
    <2>3. /\ n.id = i /\ n.at = "deletedwait" /\ jobs' = (jobs \ {j}) \cup N
          /\ UNCHANGED <<origin, remote, over, pull>>
      BY <1>3, <2>1, <2>2 DEF Swap, Job, leaseVars
    <2>4. i \in over
      BY <1>1, <1>3 DEF JobSound
    <2>5. \A m \in N : m.at \notin BusySteps /\ JobSound(m)'
      BY <2>2, <2>3, <2>4 DEF JobSound, BusySteps
    <2>6. over \subseteq over' /\ \A k \in IDs : origin'[k].pop = origin[k].pop
      BY <2>3
    <2>7. JobsSound' /\ NoNewEdge /\ UNCHANGED subs /\ \A k \in IDs : HomeHas(k) => k = i
      BY <1>1, <1>3, <2>3, <2>5, <2>6, HomeGoes
    <2>8. HomeServes'
      BY <2>3, <2>4, <2>7, TParts DEF HomeServes, HolderIsSelf, Lease!There
    <2>9. ViewersSound'
      BY <1>1, <2>6, <2>7, TParts, ViewersKept
    <2>10. (\A k \in jobs \ jobs' : Spent(k)) /\ (\A k \in jobs' \ jobs : Welcome(k))
      BY <1>1, <2>2, <2>3 DEF Spent, Welcome
    <2> QED
      BY <1>1, <2>3, <2>7, <2>8, <2>9, <2>10, HereStep
  <1> QED
    BY <1>2, <1>3 DEF HomeLeases

\* The watch reports a Lease that this pod renewed as another pod's.
LEMMA LeaseLostStep ==
    ASSUME EInv, TInv, LeaseTyped', NEW i \in IDs, LeaseLost(i)
    PROVE  TInv'
  <1>1. UNCHANGED <<hubVars, origin, remote, over, pull, edges, viewVars>>
    BY DEF LeaseLost
  <1>2. PICK N : N = {n \in {Job(i, "leave"), Job(i, "demote")} :
                          n.at = "leave" => HomeOn(i) /\ ~HomeBusy(i)}
    OBVIOUS
  <1>3. /\ jobs' \subseteq jobs \cup N /\ jobs \subseteq jobs'
        /\ \A n \in N : /\ n.id = i /\ n.at \in {"leave", "demote"}
                        /\ n.at = "leave" => HomeOn(i) /\ ~HomeBusy(i) /\ n = Job(i, "leave")
    BY <1>2 DEF LeaseLost, Job
  <1>4. HomeKept /\ NoNewEdge /\ UNCHANGED subs
    BY <1>1, HubsSame
  <1>5. ASSUME NEW n \in N PROVE JobSound(n)' /\ \A k \in jobs' : Alone(n, k)
    <2>1. JobSound(n)'
      BY <1>3, <1>4 DEF JobSound, HomeKept, HomeOn
    <2>2. \A k \in jobs' : Alone(n, k)
      BY <1>3 DEF Alone, BusySteps, HomeBusy
    <2> QED
      BY <2>1, <2>2
  <1>6. over \subseteq over' /\ \A k \in IDs : origin'[k].pop = origin[k].pop \/ k \in over'
    BY <1>1
  <1>7. JobsSound'
    BY <1>3, <1>4, <1>5, <1>6, TParts, JobsAdded
  <1>8. HomeServes'
    BY <1>1, <1>4, <1>6, TParts, ServesKept DEF HolderIsSelf, Lease!There
  <1>9. ViewersSound'
    BY <1>1, <1>4, <1>6, TParts, ViewersKept
  <1>10. (\A k \in jobs \ jobs' : Spent(k)) /\ (\A k \in jobs' \ jobs : Welcome(k))
    BY <1>3 DEF Welcome, Barred
  <1> QED
    BY <1>1, <1>4, <1>7, <1>8, <1>9, <1>10, HereStep

\* It becomes an edge.
LEMMA DemoteStep ==
    ASSUME EInv, TInv, NEW j \in jobs, Demote(j)
    PROVE  TInv'
  <1>1. /\ UNCHANGED <<hubVars, origin, remote, over, viewVars>> /\ j.id \in IDs
        /\ (\E p \in Pulls : Ensured(j.id, p)) \/ UNCHANGED <<pull, edges>>
    BY TParts DEF Demote, leaseVars
  <1>2. NobodyMissed
    BY DEF Demote, Swap, NobodyMissed
  <1>3. HomeKept /\ NoNewEdge /\ UNCHANGED subs
    BY <1>1, HubsSame
  <1>4. ViewersSound'
    BY <1>1, <1>3, TParts, ViewersKept
  <1> QED
    BY <1>1, <1>2, <1>3, <1>4, EnsuredStep, ViewStep

\* The broadcaster comes to this pod, or goes.
LEMMA HomeMovesStep ==
    ASSUME EInv, TInv, LeaseTyped', NEW i \in IDs, HomeArrives(i) \/ HomeDeparts(i)
    PROVE  TInv'
  <1>1. PICK n : n = IF HomeArrives(i) THEN Job(i, "stop") ELSE Job(i, "leave")
    OBVIOUS
  <1>2. /\ UNCHANGED <<hubVars, origin, remote, over, pull, edges, viewVars>>
        /\ n.id = i /\ n.at = IF HomeArrives(i) THEN "stop" ELSE "leave"
        /\ ~HomeBusy(i)
    BY <1>1 DEF HomeArrives, HomeDeparts, here, Job
  <1>3. jobs' = jobs \cup {n}
    BY <1>1 DEF HomeArrives, HomeDeparts
  <1>4. PICK N : N = {n}
    OBVIOUS
  <1>5. HomeKept /\ NoNewEdge /\ UNCHANGED subs
    BY <1>2, HubsSame
  <1>6. JobSound(n)'
    <2>1. CASE HomeArrives(i)
      BY <1>2, <2>1, TParts DEF HomeArrives, Token, LeasesLast, JobSound
    <2>2. CASE ~HomeArrives(i)
      BY <1>2, <1>5, <2>2 DEF HomeDeparts, HomeOn, JobSound, HomeKept
    <2> QED
      BY <2>1, <2>2
  <1>7. \A k \in jobs' : Alone(n, k)
    BY <1>2, <1>3 DEF Alone, BusySteps, HomeBusy
  <1>8. \A m \in N : JobSound(m)' /\ \A k \in jobs' : Alone(m, k)
    BY <1>4, <1>6, <1>7
  <1>9. /\ over \subseteq over' /\ jobs' \subseteq jobs \cup N
        /\ \A k \in IDs : origin'[k].pop = origin[k].pop \/ k \in over'
    BY <1>2, <1>3, <1>4
  <1>10. JobsSound'
    BY <1>5, <1>8, <1>9, TParts, JobsAdded
  <1>11. HomeServes'
    BY <1>2, <1>5, <1>9, TParts, ServesKept DEF HolderIsSelf, Lease!There
  <1>12. ViewersSound'
    BY <1>2, <1>5, <1>9, TParts, ViewersKept
  <1>13. \A k \in jobs' \ jobs : Welcome(k)
    <2>1. HomeArrives(i) => NoKill(i)
      BY TParts, NoKillUnlessKilled DEF HomeArrives, Token
    <2> QED
      BY <1>2, <1>3, <2>1 DEF Welcome, Barred
  <1>14. \A k \in jobs \ jobs' : Spent(k)
    BY <1>3
  <1> QED
    BY <1>2, <1>5, <1>10, <1>11, <1>12, <1>13, <1>14, HereStep

\* A step of the rest of the fleet.  Its watch event starts a goroutine here.
LEMMA FleetStep ==
    ASSUME EInv, TInv, LeaseTyped', NEW i \in IDs, UNCHANGED here, over \subseteq over',
           NEW code \in {"none", "lost", "ended", "killed"}, Closing(i, code),
           \A k \in IDs \ {i} : origin'[k] = origin[k] /\ remote'[k] = remote[k],
           jobs \subseteq jobs',
           \A j \in jobs' \ jobs : j.id = i /\ j.at = "deleted" /\ i \in over',
           i \notin over' => /\ GoesOnElsewhere(i)
                             /\ origin'[i].pop = origin[i].pop
                             /\ origin'[i].holder = Self => origin[i].holder = Self,
           code = "ended" /\ i \notin over' =>
               origin'[i].gen > origin[i].gen \/ origin'[i].holder = NoPod,
           code = "killed" => remote'[i] = "killed" /\ \A j \in jobs' : j.id # i,
           remote'[i] = "killed" \/ NoKill(i),
           remote'[i] = "killed" /\ HolderElsewhere(i)' => origin'[i].pop = NoPop
    PROVE  TInv'
  <1>1. UNCHANGED <<hubVars, edges, viewVars>>
    BY DEF here
  <1>2. HomeKept /\ NoNewEdge /\ UNCHANGED subs
    BY <1>1, HubsSame
  <1>3. \A k \in IDs : origin'[k].pop = origin[k].pop \/ k \in over'
    OBVIOUS
  <1>4. HomeServes'
    <2>1. \A k \in IDs \ over' : HolderIsSelf(k)' => HolderIsSelf(k)
      BY TParts DEF HolderIsSelf, LeasesLast
    <2> QED
      BY <1>2, <2>1, TParts, ServesKept
  <1>5. JobsSound'
    <2>1. PICK N : N = jobs' \ jobs
      OBVIOUS
    <2>2. ASSUME NEW n \in N PROVE JobSound(n)' /\ \A k \in jobs' : Alone(n, k)
      <3>1. n.id = i /\ n.at = "deleted" /\ i \in over'
        BY <2>1
      <3> QED
        BY <3>1 DEF JobSound, Alone, BusySteps
    <2>3. jobs' \subseteq jobs \cup N
      BY <2>1
    <2> QED
      BY <1>2, <1>3, <2>2, <2>3, TParts, JobsAdded
  <1>6. ViewersSound'
    BY <1>1, <1>2, TParts, ViewersKept
  <1>7. (\A j \in jobs \ jobs' : Spent(j)) /\ (\A j \in jobs' \ jobs : Welcome(j))
    BY DEF Welcome, Barred
  <1>8. i \notin over' => GoesOnElsewhere(i)
    OBVIOUS
  <1>9. code = "killed" => \A j \in jobs : j.id # i
    OBVIOUS
  <1> QED
    BY <1>1, <1>2, <1>4, <1>5, <1>6, <1>7, <1>8, <1>9, WorldStep

\* What the rest of the fleet does with a broadcast it carries.
LEMMA ElsewhereIs ==
    ASSUME LeaseTyped, NEW i \in IDs, NEW what, Elsewhere(i, what)
    PROVE  remote'[i] = what /\ \A k \in IDs \ {i} : remote'[k] = remote[k]
  BY DEF LeaseTyped, Elsewhere

\* A Lease that goes takes its broadcast with it, and the watch says so.
LEMMA LeaseGoes ==
    ASSUME LeaseTyped, NEW i \in IDs, Lease!Write(i, Lease!Nothing), Ended(i),
           jobs' = jobs \cup DeletionEvent(i)
    PROVE  /\ \A k \in IDs \ {i} : origin'[k] = origin[k]
           /\ ~Lease!There(i)' /\ over' = over \cup {i} /\ jobs \subseteq jobs'
           /\ \A j \in jobs' \ jobs : j.id = i /\ j.at = "deleted" /\ i \in over'
  <1>1. origin'[i] = Lease!Nothing /\ \A k \in IDs \ {i} : origin'[k] = origin[k]
    BY DEF LeaseTyped, Lease!Write
  <1>2. over' = over \cup {i}
    BY <1>1 DEF Ended
  <1>3. \A j \in DeletionEvent(i) : j.id = i /\ j.at = "deleted"
    BY DEF DeletionEvent, Job
  <1> QED
    BY <1>1, <1>2, <1>3 DEF Lease!There

\* The broadcaster, or a PoP's leg, is taken by another pod: a new generation.
LEMMA OtherTakesStep ==
    ASSUME EInv, TInv, LeaseTyped', NEW i \in IDs, OtherClaims(i) \/ PopClaims(i)
    PROVE  TInv'
  <1>1. /\ UNCHANGED here /\ UNCHANGED <<over, jobs>> /\ remote[i] # "killed"
        /\ Elsewhere(i, "serving")
    BY DEF OtherClaims, PopClaims, Token
  <1>2. PICK code \in {"none", "lost", "ended"} : Closing(i, code)
    BY TParts, NothingCloses DEF OtherClaims, PopClaims
  <1>3. remote'[i] = "serving" /\ \A k \in IDs \ {i} : remote'[k] = remote[k]
    BY <1>1, TParts, ElsewhereIs
  <1>4. PICK pop : Lease!Claim(Other, i, pop)
    BY DEF OtherClaims, PopClaims
  <1>5. /\ \A k \in IDs \ {i} : origin'[k] = origin[k]
        /\ Lease!There(i) => /\ Lease!There(i)' /\ origin'[i].gen > origin[i].gen
                             /\ origin'[i].holder = Other
                             /\ origin'[i].pop = origin[i].pop
    BY <1>4, TParts, ClaimIs
  <1>6. i \notin over' => Lease!There(i)
    BY <1>1, TParts DEF LeasesLast
  <1>7. i \notin over' => /\ GoesOnElsewhere(i)
                          /\ origin'[i].pop = origin[i].pop
                          /\ origin'[i].holder = Self => origin[i].holder = Self
    BY <1>3, <1>5, <1>6, EdgePullAssumption DEF GoesOnElsewhere
  <1>8. NoKill(i)
    BY <1>1, TParts, NoKillUnlessKilled
  <1>9. /\ over \subseteq over' /\ jobs \subseteq jobs' /\ code # "killed"
        /\ code \in {"none", "lost", "ended", "killed"} /\ remote'[i] # "killed"
        /\ \A j \in jobs' \ jobs : j.id = i /\ j.at = "deleted" /\ i \in over'
        /\ \A k \in IDs \ {i} : origin'[k] = origin[k] /\ remote'[k] = remote[k]
    BY <1>1, <1>2, <1>3, <1>5
  <1>10. code = "ended" /\ i \notin over' =>
            origin'[i].gen > origin[i].gen \/ origin'[i].holder = NoPod
    BY <1>5, <1>6
  <1> QED
    BY <1>1, <1>2, <1>7, <1>8, <1>9, <1>10, FleetStep

\* An origin elsewhere loses its broadcaster, or its PoP.
LEMMA OtherLeavesStep ==
    ASSUME EInv, TInv, LeaseTyped', NEW i \in IDs, OtherGraces(i) \/ PopLeaves(i)
    PROVE  TInv'
  <1>1. /\ UNCHANGED here /\ UNCHANGED <<over, jobs>> /\ HolderElsewhere(i)
        /\ \E what \in {"away", "none"} : Elsewhere(i, what)
    BY DEF OtherGraces, PopLeaves, LiveElsewhere
  <1>2. PICK code \in {"none", "lost", "ended"} :
            Closing(i, code) /\ (code = "ended" => PopLeaves(i))
    BY TParts, NothingCloses DEF OtherGraces, PopLeaves
  <1>3. remote'[i] \in {"away", "none"} /\ \A k \in IDs \ {i} : remote'[k] = remote[k]
    BY <1>1, TParts, ElsewhereIs
  <1>4. /\ \A k \in IDs \ {i} : origin'[k] = origin[k]
        /\ Lease!There(i)' /\ origin'[i].gen = origin[i].gen /\ origin'[i].pop = origin[i].pop
        /\ origin'[i].holder \in {origin[i].holder, NoPod}
        /\ PopLeaves(i) => origin'[i].holder = NoPod
    BY TParts, LeftIs DEF OtherGraces, PopLeaves
  <1>5. i \notin over' => /\ GoesOnElsewhere(i)
                          /\ origin'[i].pop = origin[i].pop
                          /\ origin'[i].holder = Self => origin[i].holder = Self
    BY <1>3, <1>4, EdgePullAssumption DEF GoesOnElsewhere
  <1>6. NoKill(i)
    <2>1. remote[i] # "killed"
      BY <1>1, TParts DEF OtherGraces, PopLeaves, LiveElsewhere, LeasesLast
    <2> QED
      BY <2>1, TParts, NoKillUnlessKilled
  <1>7. /\ over \subseteq over' /\ jobs \subseteq jobs' /\ code # "killed"
        /\ code \in {"none", "lost", "ended", "killed"} /\ remote'[i] # "killed"
        /\ \A j \in jobs' \ jobs : j.id = i /\ j.at = "deleted" /\ i \in over'
        /\ \A k \in IDs \ {i} : origin'[k] = origin[k] /\ remote'[k] = remote[k]
    BY <1>1, <1>2, <1>3, <1>4
  <1>8. code = "ended" /\ i \notin over' =>
            origin'[i].gen > origin[i].gen \/ origin'[i].holder = NoPod
    BY <1>2, <1>4
  <1> QED
    BY <1>1, <1>2, <1>5, <1>6, <1>7, <1>8, FleetStep

\* An origin elsewhere ends or kills its broadcast, or dies with it.
LEMMA OtherStopsStep ==
    ASSUME EInv, TInv, LeaseTyped', NEW i \in IDs,
           OtherDies(i) \/ \E code \in {"ended", "killed"} : OtherEnds(i, code)
    PROVE  TInv'
  <1>1. PICK code \in {"lost", "ended", "killed"} :
            /\ Closing(i, code)
            /\ Elsewhere(i, IF code = "lost" THEN "none" ELSE code)
            /\ code # "lost" => over' = over \cup {i} /\ origin[i].pop = NoPop
            /\ code = "lost" => UNCHANGED over
            /\ code = "killed" => \A j \in jobs : j.id # i
    BY DEF OtherDies, OtherEnds
  <1>2. /\ UNCHANGED here /\ UNCHANGED <<origin, jobs>> /\ HolderElsewhere(i)
        /\ remote[i] \in {"serving", "away"}
    BY DEF OtherDies, OtherEnds
  <1>3. /\ remote'[i] = IF code = "lost" THEN "none" ELSE code
        /\ \A k \in IDs \ {i} : remote'[k] = remote[k]
    BY <1>1, TParts, ElsewhereIs
  <1>4. i \notin over' => /\ GoesOnElsewhere(i)
                          /\ origin'[i].pop = origin[i].pop
                          /\ origin'[i].holder = Self => origin[i].holder = Self
    BY <1>1, <1>2, <1>3, TParts DEF GoesOnElsewhere, LeasesLast, Lease!There
  <1>5. NoKill(i)
    BY <1>2, TParts, NoKillUnlessKilled
  <1>6. /\ over \subseteq over' /\ jobs \subseteq jobs'
        /\ code \in {"none", "lost", "ended", "killed"}
        /\ \A j \in jobs' \ jobs : j.id = i /\ j.at = "deleted" /\ i \in over'
        /\ \A k \in IDs \ {i} : origin'[k] = origin[k] /\ remote'[k] = remote[k]
        /\ code = "ended" => i \in over'
        /\ code = "killed" => remote'[i] = "killed" /\ \A j \in jobs' : j.id # i
        /\ remote'[i] = "killed" => origin'[i].pop = NoPop
    BY <1>1, <1>2, <1>3
  <1> QED
    BY <1>1, <1>2, <1>4, <1>5, <1>6, FleetStep

\* A Lease is deleted, collected or given up; an ID is reserved.
LEMMA LeaseGoesStep ==
    ASSUME EInv, TInv, LeaseTyped', NEW i \in IDs,
           OtherDeletes(i) \/ Collect(i) \/ PopEnds(i) \/ PopReserves(i)
    PROVE  TInv'
  <1>1. UNCHANGED here /\ UNCHANGED <<remote, pull>>
    BY DEF OtherDeletes, Collect, PopEnds, PopReserves
  <1>2. /\ \A k \in IDs \ {i} : origin'[k] = origin[k]
        /\ ~HolderElsewhere(i)' /\ i \in over' /\ over \subseteq over' /\ jobs \subseteq jobs'
        /\ \A j \in jobs' \ jobs : j.id = i /\ j.at = "deleted" /\ i \in over'
    <2>1. CASE PopReserves(i)
      <3>1. PICK pop : Lease!Reserve(i, pop)
        BY <2>1 DEF PopReserves
      <3>2. /\ \A k \in IDs \ {i} : origin'[k] = origin[k]
            /\ origin'[i] = [holder |-> NoPod, gen |-> 0, pop |-> pop,
                             away |-> FALSE, expired |-> FALSE]
        BY <3>1, TParts DEF LeaseTyped, Lease!Reserve, Lease!Write
      <3> QED
        BY <2>1, <3>2, EdgePullAssumption DEF PopReserves, HolderElsewhere
    <2>2. CASE OtherDeletes(i) \/ Collect(i) \/ PopEnds(i)
      <3>1. /\ Lease!Write(i, Lease!Nothing) /\ Ended(i)
            /\ jobs' = jobs \cup DeletionEvent(i)
        BY <2>2 DEF OtherDeletes, Collect, PopEnds, Lease!Delete, Lease!DeleteReservation
      <3> QED
        BY <3>1, TParts, LeaseGoes DEF HolderElsewhere
    <2> QED
      BY <2>1, <2>2
  <1>3. remote'[i] = "killed" \/ NoKill(i)
    BY <1>1, TParts, NoKillUnlessKilled
  <1>4. PICK code : code = "none"
    OBVIOUS
  <1>5. /\ code \in {"none", "lost", "ended", "killed"} /\ code # "ended" /\ code # "killed"
        /\ Closing(i, code)
    BY <1>1, <1>4, TParts, NothingCloses
  <1>6. \A k \in IDs \ {i} : origin'[k] = origin[k] /\ remote'[k] = remote[k]
    BY <1>1, <1>2
  <1> QED
    BY <1>1, <1>2, <1>3, <1>5, <1>6, FleetStep

\* A grace timer ends an edge's hub only when nothing feeds it.
LEMMA GraceStep ==
    ASSUME EInv, TInv, LeaseTyped', NEW i \in IDs, GraceExpires(i)
    PROVE  TInv'
  <1>1. /\ UNCHANGED <<remote, pull, edges>> /\ Hub!EndBroadcast(i) /\ Hub!Known(i)
        /\ over \subseteq over' /\ \A j \in jobs : j.id # i
        /\ Reachable(i) => ~HasPull(i)
        /\ ~Reachable(i) => i \in over'
        /\ jobs' = jobs \cup DeletionEvent(i)
    BY DEF GraceExpires, Hub!EndBroadcast
  <1>2. PICK code \in {"ended", "expired"} : Tell(code) /\ (code = "ended" => hubs[i].edge)
    BY DEF GraceExpires
  <1>3. HomeKept /\ NoNewEdge /\ Cut(i)
    BY <1>1, TParts, RemovedKept
  <1>4. \/ UNCHANGED origin
        \/ i \in over' /\ ~Lease!There(i)' /\ \A k \in IDs \ {i} : origin'[k] = origin[k]
    <2>1. UNCHANGED origin \/ (Deletable(i) /\ Lease!Write(i, Lease!Nothing))
      BY DEF GraceExpires, Lease!Delete
    <2>2. Deletable(i) => ~Reachable(i)
      BY EdgePullAssumption DEF Deletable, Reachable, LiveElsewhere, HolderElsewhere, Dormant
    <2>3. Lease!Write(i, Lease!Nothing) =>
              ~Lease!There(i)' /\ \A k \in IDs \ {i} : origin'[k] = origin[k]
      BY TParts DEF LeaseTyped, Lease!Write, Lease!There
    <2> QED
      BY <1>1, <2>1, <2>2, <2>3
  <1>5. /\ \A k \in IDs \ {i} : origin'[k] = origin[k] /\ remote'[k] = remote[k]
        /\ \A k \in IDs : origin'[k] = origin[k] \/ k \in over'
    BY <1>1, <1>4
  <1>6. code = "ended" => i \in over'
    <2> SUFFICES ASSUME code = "ended", i \notin over' PROVE FALSE
      OBVIOUS
    <2>1. Fed(i)
      BY <1>1, <1>2, TParts DEF HubsFed, EdgeHub, Coming
    <2>2. HasPull(i)
      BY <2>1, EdgePullAssumption, TParts DEF Fed, Mapped, HasPull
    <2> QED
      BY <1>1, <2>2
  <1>7. ViewersSound'
    BY <1>1, <1>2, <1>3, <1>6, TParts, ViewersTold
  <1>8. HomeServes'
    <2>1. \A k \in IDs \ over' : HolderIsSelf(k)' => HolderIsSelf(k)
      BY <1>5 DEF HolderIsSelf, Lease!There
    <2> QED
      BY <1>1, <1>3, <2>1, TParts, ServesKept
  <1>9. \A j \in DeletionEvent(i) : j.id = i /\ j.at = "deleted" /\ i \in over'
    BY <1>4 DEF DeletionEvent, Job, Lease!There
  <1>10. JobsSound'
    <2>1. \A n \in DeletionEvent(i) : JobSound(n)' /\ \A k \in jobs' : Alone(n, k)
      BY <1>9 DEF JobSound, Alone, BusySteps
    <2>2. PICK N : N = DeletionEvent(i)
      OBVIOUS
    <2>3. jobs' \subseteq jobs \cup N /\ \A n \in N : JobSound(n)' /\ \A k \in jobs' : Alone(n, k)
      BY <1>1, <2>1, <2>2
    <2>4. \A k \in IDs : origin'[k].pop = origin[k].pop \/ k \in over'
      BY <1>5
    <2> QED
      BY <1>1, <1>3, <2>3, <2>4, TParts, JobsAdded
  <1>11. i \notin over' => GoesOnElsewhere(i)
    BY <1>1, <1>5, TParts DEF LeasesLast, GoesOnElsewhere, Lease!There
  <1>12. remote'[i] = "killed" \/ NoKill(i)
    BY <1>1, TParts, NoKillUnlessKilled
  <1>13. remote'[i] = "killed" /\ HolderElsewhere(i)' => origin'[i].pop = NoPop
    BY <1>1, <1>4, TParts DEF LeasesLast, HolderElsewhere, Lease!There
  <1>14. (\A j \in jobs \ jobs' : Spent(j)) /\ (\A j \in jobs' \ jobs : Welcome(j))
    BY <1>1, <1>9 DEF Welcome, Barred
  <1>15. PICK c : c = "none"
    OBVIOUS
  <1>16. /\ c \in {"none", "lost", "ended", "killed"} /\ c # "ended" /\ c # "killed"
         /\ Closing(i, c)
    BY <1>1, <1>15, TParts, NothingCloses
  <1> QED
    BY <1>1, <1>3, <1>5, <1>7, <1>8, <1>10, <1>11, <1>12, <1>13, <1>14, <1>16, WorldStep

--------------------------------------------------------------------------------
(* What viewers are told *)

\* At first nothing is attached and nothing has ended.
LEMMA TInvInit == Init => TInv
  <1> SUFFICES ASSUME Init PROVE TInv
    OBVIOUS
  <1>1. \A p \in Pulls : pull[p] = Unused
    BY DEF Init
  <1>2. Unused.at = "done" /\ Unused.up = "none" /\ Unused.coming = "none" /\ Unused.id \notin IDs
    BY EdgePullAssumption DEF Unused
  <1>3. PullsFit /\ PullsTruthful /\ KillsPass
    BY <1>1, <1>2 DEF PullsFit, Fit, PullsTruthful, Truthful, KillsPass, Killed
  <1>4. ASSUME NEW i \in IDs
        PROVE  Lease!There(i) /\ origin[i].holder # Self /\ remote[i] \in {"serving", "none"}
    <2>1. origin[i] \in Broadcasts
      BY DEF Init
    <2>2. origin[i].gen \in Nat /\ origin[i].holder \in {Other, NoPod}
      <3>1. \/ origin[i] \in [holder : {Other}, gen : {1}, pop : {NoPop}, away : {FALSE},
                             expired : {FALSE}]
            \/ origin[i] \in [holder : {NoPod}, gen : {0}, pop : Pops, away : {FALSE},
                             expired : {FALSE}]
        BY <2>1 DEF Broadcasts
      <3>2. origin[i].gen \in {0, 1} /\ origin[i].holder \in {Other, NoPod}
        BY <3>1
      <3> QED
        BY <3>2
    <2>3. Lease!Nothing.gen \notin Nat
      BY DEF Lease!Nothing
    <2> QED
      BY <2>2, <2>3, EdgePullAssumption DEF Init, Lease!There
  <1>5. LeasesLast /\ HomeServes
    BY <1>4 DEF LeasesLast, HomeServes, HolderIsSelf
  <1>6. JobsSound
    BY DEF Init, JobsSound
  <1>7. Mapped
    BY <1>1, <1>2, EdgePullAssumption DEF Init, Mapped, Running, PullAt
  <1>8. HubsFed
    <2>1. \A i \in IDs : hubs[i].obj = 0
      BY DEF Init, Hub!Init, Hub!NoHub
    <2> QED
      BY <2>1 DEF HubsFed, EdgeHub, Hub!Known
  <1>9. ViewersSound
    BY DEF Init, Hub!Init, Hub!NotSubscribed, ViewersSound, ViewerSound
  <1> QED
    BY <1>3, <1>5, <1>6, <1>7, <1>8, <1>9 DEF TInv

\* Every step keeps what viewers are told true.
LEMMA TInvStep ==
    ASSUME EInv, TInv, [Next]_vars, EInv'
    PROVE  TInv'
  <1>1. LeaseTyped'
    BY DEF EInv, Typed
  <1>2. ASSUME NEW p \in Pulls, PullSteps(p) \/ Lingers(p) \/ UpstreamLost(p) PROVE TInv'
    BY <1>2, ResolveStep, DialStep, UpstreamStep, AttachStep, DetachStep, JudgeStep,
       LingeredStep, PassOnStep, ReleaseStep, WaitStep DEF PullSteps, Lingers
  <1>3. ASSUME NEW v \in Viewers,
               ViewerSteps(v) \/ Depart(v) \/ \E i \in IDs : Arrive(v, i)
        PROVE  TInv'
    BY <1>3, HandlerStep, EnsureWaitStep, SubscriberStep DEF ViewerSteps
  <1>4. ASSUME NEW j \in jobs, JobSteps(j) PROVE TInv'
    BY <1>1, <1>4, StopsStep, EndAfterDeletionStep, HomeClaimsStep, HomeLeasesStep,
       HomeLeavesStep, DemoteStep DEF JobSteps
  <1>5. ASSUME NEW i \in IDs,
               World(i) \/ LeaseLost(i) \/ GraceExpires(i) \/ OtherDeletes(i) \/ Collect(i)
        PROVE  TInv'
    BY <1>1, <1>5, HomeMovesStep, OtherTakesStep, OtherLeavesStep, OtherStopsStep,
       LeaseGoesStep, LeaseLostStep, GraceStep DEF World
  <1>6. ASSUME UNCHANGED vars PROVE TInv'
    <2>1. /\ UNCHANGED <<hubVars, pull, edges, origin, remote, over, jobs, viewVars>>
          /\ over \subseteq over'
      BY <1>6 DEF vars, leaseVars
    <2>2. HomeKept /\ NoNewEdge /\ UNCHANGED subs
      BY <2>1, HubsSame
    <2>3. ViewersSound'
      BY <2>1, <2>2, TParts, ViewersKept
    <2> QED
      BY <2>1, <2>2, <2>3, ViewStep DEF NobodyMissed
  <1> QED
    BY <1>2, <1>3, <1>4, <1>5, <1>6 DEF Next

\* What viewers are told stays true: with its registry's and its pulls', the invariant
\* of an edge.
THEOREM TInvHolds == Spec => [](EInv /\ TInv)
  <1>1. EInv /\ TInv /\ [Next]_vars => (EInv /\ TInv)'
    BY EInvStep, TInvStep
  <1> QED
    BY <1>1, EInvInit, TInvInit, PTL DEF Spec

\* A viewer subscribed on an edge is told that the broadcast ended only after it did:
\* an end that a pull passes on comes from the origin the Lease names, and a hub that
\* has no pull ends only once its broadcast has.
THEOREM EndsAreTrue == Spec => []EdgeEndsTruly
  <1>1. TInv => EdgeEndsTruly
    BY DEF TInv, ViewersSound, ViewerSound, EdgeEndsTruly
  <1> QED
    BY <1>1, TInvHolds, PTL

\* Nothing ends the hub of a broadcast in an ordinary way while its pull has seen it
\* killed.
LEMMA NoKillUnlessAttached ==
    ASSUME EInv, TInv, NEW p \in Pulls, Running(p),
           pull[p].at \notin {"attach", "pump", "killing"}
    PROVE  NoKill(pull[p].id)
  <1> SUFFICES ASSUME NEW q \in Pulls, pull[q].id = pull[p].id, Killed(pull[q]) PROVE FALSE
    BY DEF NoKill
  <1>1. edges[pull[p].id] = p \/ Stopping(pull[p].id, p)
    BY TParts DEF Mapped
  <1>2. edges[pull[p].id] = q /\ ~Stopping(pull[p].id, p)
    BY TParts DEF KillsPass, Stopping
  <1>3. pull[q].at \in {"attach", "pump", "killing"}
    BY TParts DEF PullsFit, Fit, Killed
  <1> QED
    BY <1>1, <1>2, <1>3

\* Nor does a grace timer.
LEMMA NoKillInGrace ==
    ASSUME EInv, TInv, NEW i \in IDs, GraceExpires(i)
    PROVE  NoKill(i)
  <1> SUFFICES ASSUME NEW q \in Pulls, pull[q].id = i, Killed(pull[q]) PROVE FALSE
    BY DEF NoKill
  <1>1. edges[i] = q
    BY TParts DEF KillsPass
  <1>2. pull[q].at \in {"attach", "pump", "killing"}
    BY TParts DEF PullsFit, Fit, Killed
  <1>3. HasPull(i) /\ ~PullAt(edges[i], "resolve")
    BY <1>1, <1>2, EdgePullAssumption DEF HasPull, Running, PullAt
  <1> QED
    BY <1>3 DEF GraceExpires

\* A viewer that loses its subscription was watching the hub that goes.
LEMMA ToldIts ==
    ASSUME EInv, TInv, NEW i \in IDs, Cut(i) \/ UNCHANGED subs, NEW code, Tell(code),
           NEW v \in Viewers, told'[v] # told[v]
    PROVE  join[v].id = i /\ told'[v] = code
  <1>1. subs[v].id # NoID /\ subs'[v].id = NoID /\ told'[v] = code
    BY DEF Tell
  <1>2. subs[v].id = i
    BY <1>1 DEF Cut, Hub!On
  <1> QED
    BY <1>1, <1>2, TParts DEF ViewersSound, ViewerSound

\* The steps that tell a viewer of an ordinary end.
LEMMA EndIsTold ==
    ASSUME EInv, TInv, [Next]_vars,
           NEW v \in Viewers, told[v] # "ended", told'[v] = "ended"
    PROVE  NoKill(join[v].id)
  <1>1. told'[v] # told[v]
    OBVIOUS
  <1>2. ASSUME NEW p \in Pulls, PullSteps(p) \/ Lingers(p) \/ UpstreamLost(p)
        PROVE  NoKill(join[v].id)
    <2>1. /\ PassOnEnd(p) \/ PassOnKill(p) \/ (Release(p) /\ ~pull[p].slot)
          /\ Running(p) /\ pull[p].id \in IDs
      <3>1. PassOnEnd(p) \/ PassOnKill(p) \/ (Release(p) /\ ~pull[p].slot)
        BY <1>1, <1>2 DEF PullSteps, Lingers, viewVars, Resolve, Dial, Attach, UpstreamCloses,
           PumpEnds, PumpLingers, Detach, Judge, Lingered, WaitClaims, WaitWakes, WaitLingers,
           UpstreamLost, here, Release
      <3> QED
        BY <3>1, PullFacts DEF PassOnEnd, PassOnKill, Release, PullAt, Running
    <2>2. CASE PassOnKill(p)
      <3>1. Cut(pull[p].id) \/ UNCHANGED subs
        BY <2>1, <2>2, TParts, HubsSame, RemovedFacts DEF PassOnKill
      <3>2. Tell("killed")
        BY <2>2 DEF PassOnKill
      <3>3. told'[v] = "killed"
        BY <1>1, <2>1, <3>1, <3>2, ToldIts
      <3> QED
        BY <3>3
    <2>3. CASE PassOnEnd(p) \/ (Release(p) /\ ~pull[p].slot)
      <3>1. /\ EndHub(pull[p].id) \/ UNCHANGED hubVars
            /\ Tell("ended") /\ pull[p].at \in {"ending", "release"}
        BY <2>3 DEF PassOnEnd, Release, PullAt
      <3>2. Cut(pull[p].id) \/ UNCHANGED subs
        BY <2>1, <3>1, TParts, HubsSame, EndHubKept
      <3>3. join[v].id = pull[p].id
        BY <1>1, <2>1, <3>1, <3>2, ToldIts
      <3> QED
        BY <2>1, <3>1, <3>3, NoKillUnlessAttached
    <2> QED
      BY <2>1, <2>2, <2>3
  <1>3. ASSUME NEW u \in Viewers,
               ViewerSteps(u) \/ Depart(u) \/ \E i \in IDs : Arrive(u, i)
        PROVE  told'[v] # "ended"
    <2>1. \/ told' = told \/ told' = [told EXCEPT ![u] = "left"]
          \/ told' = [told EXCEPT ![u] = "late"]
      BY <1>3 DEF ViewerSteps, Depart, Arrive, Ensure, EnsureWait, Await, Recheck, Enter, Leave
    <2> QED
      BY <1>1, <2>1, TParts DEF ViewTyped
  <1>4. ASSUME NEW j \in jobs, JobSteps(j) PROVE NoKill(join[v].id)
    <2>1. EndAfterDeletion(j)
      BY <1>1, <1>4 DEF JobSteps, viewVars, OnLeaseDeleted, HomeStops, HomeClaims, HomeLeases,
         HomeLeaves, Demote
    <2>2. j.id \in IDs /\ EndHub(j.id) /\ Tell("ended") /\ j.at \in Barred
      BY <2>1, TParts DEF EndAfterDeletion, Barred
    <2>3. Cut(j.id) \/ UNCHANGED subs
      BY <2>2, TParts, EndHubKept
    <2>4. join[v].id = j.id
      BY <1>1, <2>2, <2>3, ToldIts
    <2> QED
      BY <2>2, <2>4, TParts, BarredMeetsNoKill
  <1>5. ASSUME NEW i \in IDs,
               World(i) \/ LeaseLost(i) \/ GraceExpires(i) \/ OtherDeletes(i) \/ Collect(i)
        PROVE  NoKill(join[v].id)
    <2>1. GraceExpires(i)
      BY <1>1, <1>5 DEF World, viewVars, here, HomeArrives, HomeDeparts, OtherClaims,
         OtherGraces, OtherEnds, OtherDies, PopReserves, PopClaims, PopLeaves, PopEnds,
         LeaseLost, OtherDeletes, Collect
    <2>2. Cut(i)
      BY <2>1, TParts, RemovedFacts DEF GraceExpires
    <2>3. PICK code : Tell(code)
      BY <2>1 DEF GraceExpires
    <2>4. join[v].id = i
      BY <1>1, <2>2, <2>3, ToldIts
    <2> QED
      BY <2>1, <2>4, NoKillInGrace
  <1>6. ~UNCHANGED vars
    BY <1>1 DEF vars, viewVars
  <1> QED
    BY <1>2, <1>3, <1>4, <1>5, <1>6 DEF Next

\* No viewer of a killed broadcast whose pull was attached is told that it just ended:
\* the pull is the one in the map, and each step that ends a hub in the ordinary way
\* belongs to another pull, to a goroutine that waited for this one or to a timer that
\* does not run while there is one.
THEOREM KillsStayKills == Spec => KilledMeansKilled
  <1>1. EInv /\ TInv /\ [Next]_vars
            => [\A v \in Viewers :
              told[v] # "ended" /\ told'[v] = "ended" =>
                  ~\E p \in Pulls : pull[p].id = join[v].id
                                    /\ "killed" \in {pull[p].up, pull[p].coming}]_vars
    BY EndIsTold DEF NoKill, Killed
  <1> QED
    BY <1>1, TInvHolds, PTL DEF Spec, KilledMeansKilled

==============================================================================
