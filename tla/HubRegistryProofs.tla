-------------------------- MODULE HubRegistryProofs --------------------------
(***************************************************************************)
(* Proofs about HubRegistry.  HInv is inductive: the type invariant, the   *)
(* three invariants the registry promises, and the two facts they need of  *)
(* each other (PlainParts).  TimersPast adds that old timers and old stops *)
(* spare later claims, and a last part that the viewers are accounted for. *)
(***************************************************************************)
EXTENDS HubRegistry, FiniteSetTheorems, TLAPS

\* A name without a hub has nothing left of one, and a session between the two
\* halves of Stop has given up its slot.
PlainParts ==
    /\ \A i \in IDs : ~Known(i) => hubs[i] = NoHub
    /\ \A s \in Sessions : pubs[s].stopping => pubs[s].closed

HInv ==
    /\ TypeOK
    /\ PlainParts
    /\ SlotOwnedByHandle
    /\ PrimeIsCurrent
    /\ DeposedIsTold

--------------------------------------------------------------------------------
(* Handles and hubs *)

\* The handle of a session that is not idle is a real one.
LEMMA HandleFacts ==
    ASSUME TypeOK, NEW s \in Sessions
    PROVE  /\ pubs[s] \in Handles \cup {NoHandle}
           /\ pubs[s] = NoHandle <=> Idle(s)
           /\ ~Idle(s) => pubs[s] \in Handles /\ pubs[s].id \in IDs
           /\ ~pubs[s].closed => ~Idle(s)
           /\ pubs[s].stopping => ~Idle(s)
           /\ pubs[s].silent => ~Idle(s)
  BY NamesAssumption DEF TypeOK, Handles, NoHandle, Idle

\* The handle of an idle session is closed and of no hub.
LEMMA NoHandleFacts ==
    /\ NoHandle.closed /\ ~NoHandle.bound /\ ~NoHandle.stopping /\ ~NoHandle.silent
    /\ NoHandle.id = NoID
  BY DEF NoHandle

\* The place of a broadcast the relay does not know is a hub nobody publishes.
LEMMA NoHubFacts ==
    /\ NoHub \in Hubs
    /\ NoHub.obj = 0 /\ NoHub.gen = 0 /\ NoHub.kf = 0
    /\ NoHub.pub = NoSession /\ NoHub.grace = FALSE
  BY DEF NoHub, Hubs

\* Deposing a handle closes it and leaves its hub.
LEMMA DeposedFacts ==
    ASSUME NEW h \in Handles
    PROVE  /\ Deposed(h) \in Handles
           /\ Deposed(h).closed /\ Deposed(h).told = h.bound
           /\ Deposed(h).bound = h.bound /\ Deposed(h).stopping = h.stopping
           /\ Deposed(h).id = h.id /\ Deposed(h).obj = h.obj /\ Deposed(h).gen = h.gen
  BY DEF Deposed, Handles

\* Claiming makes a hub of the next generation ...
LEMMA ClaimedFacts ==
    ASSUME NEW b \in Hubs, NEW s \in Sessions, NEW edge \in BOOLEAN
    PROVE  /\ claimed(b, s, edge) \in Hubs
           /\ claimed(b, s, edge).obj = b.obj /\ claimed(b, s, edge).gen = b.gen + 1
           /\ claimed(b, s, edge).pub = s /\ claimed(b, s, edge).kf = 0
           /\ claimed(b, s, edge).grace = FALSE
  <1> DEFINE g == b.gen + 1
             b1 == [b EXCEPT !.gen = g]
             b2 == [b1 EXCEPT !.pub = s]
             b3 == [b2 EXCEPT !.grace = FALSE]
             b4 == [b3 EXCEPT !.kf = 0]
             b5 == [b4 EXCEPT !.edge = edge]
  <1>0. claimed(b, s, edge) = b5
    BY Zenon DEF claimed
  <1>g. g \in Nat
    BY DEF Hubs
  <1> HIDE DEF g
  <1>1. b1 \in Hubs /\ b1.obj = b.obj /\ b1.gen = g
    BY <1>g DEF Hubs
  <1> HIDE DEF b1
  <1>2. b2 \in Hubs /\ b2.obj = b1.obj /\ b2.gen = b1.gen /\ b2.pub = s
    BY <1>1 DEF Hubs
  <1> HIDE DEF b2
  <1>3. /\ b3 \in Hubs /\ b3.obj = b2.obj /\ b3.gen = b2.gen /\ b3.pub = b2.pub
        /\ b3.grace = FALSE
    BY <1>2 DEF Hubs
  <1> HIDE DEF b3
  <1>4. /\ b4 \in Hubs /\ b4.obj = b3.obj /\ b4.gen = b3.gen /\ b4.pub = b3.pub
        /\ b4.grace = b3.grace /\ b4.kf = 0
    BY <1>3 DEF Hubs
  <1> HIDE DEF b4
  <1>5. /\ b5 \in Hubs /\ b5.obj = b4.obj /\ b5.gen = b4.gen /\ b5.pub = b4.pub
        /\ b5.grace = b4.grace /\ b5.kf = b4.kf
    BY <1>4 DEF Hubs
  <1> HIDE DEF b5
  <1>6. /\ b5 \in Hubs /\ b5.obj = b.obj /\ b5.gen = g /\ b5.pub = s /\ b5.kf = 0
        /\ b5.grace = FALSE
    BY <1>1, <1>2, <1>3, <1>4, <1>5
  <1> QED
    BY <1>0, <1>6, Zenon DEF g

\* ... with an open handle for it.
LEMMA NewHandleFacts ==
    ASSUME NEW b \in Hubs, NEW i \in IDs, NEW pull \in BOOLEAN
    PROVE  /\ Handle(i, b, pull) \in Handles
           /\ Handle(i, b, pull).id = i /\ Handle(i, b, pull).obj = b.obj
           /\ Handle(i, b, pull).gen = b.gen + 1
           /\ Handle(i, b, pull).closed = FALSE /\ Handle(i, b, pull).stopping = FALSE
  BY DEF Handle, Handles, Hubs

\* A freed slot belongs to the same hub at the same generation.
LEMMA SlotFreedFacts ==
    ASSUME NEW b \in Hubs
    PROVE  /\ slotFreed(b) \in Hubs
           /\ slotFreed(b).pub = NoSession /\ slotFreed(b).obj = b.obj
           /\ slotFreed(b).gen = b.gen /\ slotFreed(b).kf = b.kf
           /\ slotFreed(b).grace = TRUE
  <1> DEFINE c == [b EXCEPT !.pub = NoSession]
  <1>1. /\ c \in Hubs /\ c.pub = NoSession /\ c.obj = b.obj /\ c.gen = b.gen
        /\ c.kf = b.kf
    BY DEF Hubs
  <1>2. slotFreed(b) = [c EXCEPT !.grace = TRUE]
    BY Zenon DEF slotFreed
  <1> HIDE DEF c
  <1> QED
    BY <1>1, <1>2 DEF Hubs

\* The session in a slot is one of the relay's, its handle is open and of that
\* very hub, and no idle session is in a slot.
LEMMA SlotFacts ==
    ASSUME HInv, NEW i \in IDs, publisherActive(i)
    PROVE  /\ hubs[i].pub \in Sessions
           /\ ~pubs[hubs[i].pub].closed
           /\ pubs[hubs[i].pub].id = i
           /\ ~pubs[hubs[i].pub].stopping
           /\ ~Idle(hubs[i].pub)
           /\ pubs[hubs[i].pub] \in Handles
           /\ Known(i)
  <1>1. hubs[i].pub \in Sessions
    BY DEF HInv, TypeOK, Hubs, publisherActive
  <1>2. ~pubs[hubs[i].pub].closed /\ pubs[hubs[i].pub].id = i
    BY DEF HInv, SlotOwnedByHandle
  <1>3. Known(i)
    BY NoHubFacts DEF HInv, PlainParts, publisherActive
  <1>4. ~pubs[hubs[i].pub].stopping
    BY <1>1, <1>2 DEF HInv, PlainParts
  <1> QED
    BY <1>1, <1>2, <1>3, <1>4, HandleFacts DEF HInv

--------------------------------------------------------------------------------
(* Steps that change hubs or handles *)

\* Session s gets the handle h for hub i, whose publisher, if any, is deposed.
Installed(s, i, h) ==
    pubs' = [t \in Sessions |->
                IF t = s THEN h
                ELSE IF t = hubs[i].pub THEN Deposed(pubs[t])
                ELSE pubs[t]]

\* A claim of session s makes c of hub i and gives s the handle h; an incumbent
\* is deposed.
LEMMA ClaimKeeps ==
    ASSUME HInv, NEW s \in Sessions, NEW i \in IDs, Idle(s),
           NEW c \in Hubs, c.obj # 0, c.pub = s, c.kf = 0,
           NEW h \in Handles, h.id = i, h.obj = c.obj, h.gen = c.gen,
           h.closed = FALSE, h.stopping = FALSE,
           hubs' = [hubs EXCEPT ![i] = c],
           Installed(s, i, h)
    PROVE  /\ hubs' \in [IDs -> Hubs]
           /\ pubs' \in [Sessions -> Handles \cup {NoHandle}]
           /\ PlainParts' /\ SlotOwnedByHandle' /\ PrimeIsCurrent' /\ DeposedIsTold'
  <1>p. pubs'[s] = h /\ pubs'[s].closed = FALSE /\ pubs'[s].stopping = FALSE
    BY DEF Installed
  <1>r. \A t \in Sessions \ {s} :
            pubs'[t] = IF t = hubs[i].pub THEN Deposed(pubs[t]) ELSE pubs[t]
    BY DEF Installed
  <1>h. /\ hubs \in [IDs -> Hubs] /\ hubs'[i] = c
        /\ \A j \in IDs \ {i} : hubs'[j] = hubs[j]
    BY DEF HInv, TypeOK
  <1>n. s # NoSession
    BY NamesAssumption
  <1>0. hubs' \in [IDs -> Hubs]
    BY <1>h
  <1>o. ASSUME NEW t \in Sessions \ {s}
        PROVE  \/ pubs'[t] = pubs[t] /\ t # hubs[i].pub
               \/ /\ t = hubs[i].pub /\ pubs[t] \in Handles /\ ~pubs[t].stopping
                  /\ pubs'[t].closed /\ ~pubs'[t].stopping
                  /\ pubs'[t].bound = pubs'[t].told
    <2>1. CASE t = hubs[i].pub
      <3>1. publisherActive(i)
        BY <2>1, NamesAssumption DEF publisherActive
      <3>2. pubs[t] \in Handles /\ ~pubs[t].stopping
        BY <2>1, <3>1, SlotFacts
      <3>3. pubs'[t] = Deposed(pubs[t])
        BY <2>1, <1>r
      <3> QED
        BY <2>1, <3>2, <3>3, DeposedFacts
    <2> QED
      BY <2>1, <1>r
  <1>t. pubs' \in [Sessions -> Handles \cup {NoHandle}]
    <2>1. ASSUME NEW t \in Sessions PROVE pubs'[t] \in Handles \cup {NoHandle}
      <3>1. CASE t = s
        BY <3>1, <1>p
      <3>2. CASE t # s /\ t = hubs[i].pub
        <4>1. pubs'[t] = Deposed(pubs[t]) /\ pubs[t] \in Handles
          BY <3>2, <1>o, <1>r
        <4> QED
          BY <4>1, DeposedFacts
      <3>3. CASE t # s /\ t # hubs[i].pub
        BY <3>3, <1>r DEF HInv, TypeOK
      <3> QED
        BY <3>1, <3>2, <3>3
    <2> QED
      BY <2>1 DEF Installed
  <1>1. PlainParts'
    <2>1. \A j \in IDs : ~Known(j)' => hubs'[j] = NoHub
      BY <1>h DEF HInv, PlainParts, Known
    <2>2. \A t \in Sessions : pubs'[t].stopping => pubs'[t].closed
      BY <1>o, <1>p DEF HInv, PlainParts
    <2> QED
      BY <2>1, <2>2 DEF PlainParts
  <1>2. SlotOwnedByHandle'
    <2>1. ASSUME NEW t \in Sessions, ~pubs'[t].closed
          PROVE  LET d == hubs'[pubs'[t].id] IN
                 d.pub = t /\ d.obj = pubs'[t].obj /\ d.gen = pubs'[t].gen
      <3>1. CASE t = s
        BY <3>1, <1>p, <1>h
      <3>2. CASE t # s
        <4>1. pubs'[t] = pubs[t] /\ t # hubs[i].pub
          BY <3>2, <2>1, <1>o
        <4>2. /\ hubs[pubs[t].id].pub = t /\ hubs[pubs[t].id].obj = pubs[t].obj
              /\ hubs[pubs[t].id].gen = pubs[t].gen
          BY <4>1, <2>1 DEF HInv, SlotOwnedByHandle
        <4>3. pubs[t].id \in IDs /\ pubs[t].id # i
          BY <4>1, <4>2, <2>1, HandleFacts DEF HInv
        <4> QED
          BY <4>1, <4>2, <4>3, <1>h
      <3> QED
        BY <3>1, <3>2
    <2>2. ASSUME NEW j \in IDs, hubs'[j].pub # NoSession
          PROVE  ~pubs'[hubs'[j].pub].closed /\ pubs'[hubs'[j].pub].id = j
      <3>1. CASE j = i
        BY <3>1, <1>p, <1>h
      <3>2. CASE j # i
        <4>1. hubs'[j] = hubs[j] /\ publisherActive(j)
          BY <3>2, <2>2, <1>h DEF publisherActive
        <4>2. /\ hubs[j].pub \in Sessions /\ ~pubs[hubs[j].pub].closed
              /\ pubs[hubs[j].pub].id = j /\ ~Idle(hubs[j].pub)
          BY <4>1, SlotFacts
        <4>3. hubs[j].pub # s
          BY <4>2
        <4>4. hubs[j].pub # hubs[i].pub
          <5>1. ASSUME hubs[j].pub = hubs[i].pub PROVE FALSE
            <6>1. publisherActive(i)
              BY <4>1, <5>1 DEF publisherActive
            <6> QED
              BY <3>2, <4>2, <5>1, <6>1, SlotFacts
          <5> QED
            BY <5>1
        <4> QED
          BY <4>1, <4>2, <4>3, <4>4, <1>o
      <3> QED
        BY <3>1, <3>2
    <2> QED
      BY <2>1, <2>2 DEF SlotOwnedByHandle, publisherActive
  <1>3. PrimeIsCurrent'
    BY <1>h DEF HInv, PrimeIsCurrent
  <1>4. DeposedIsTold'
    BY <1>o, <1>p DEF HInv, DeposedIsTold
  <1> QED
    BY <1>0, <1>t, <1>1, <1>2, <1>3, <1>4

\* Removing hub i: a publisher in its slot is deposed, and at most sessions that
\* have no slot end.
LEMMA RemoveKeeps ==
    ASSUME HInv, NEW i \in IDs,
           hubs' = [hubs EXCEPT ![i] = NoHub],
           pubs' \in [Sessions -> Handles \cup {NoHandle}],
           \A t \in Sessions :
               \/ t = hubs[i].pub /\ pubs'[t] = Deposed(pubs[t])
               \/ t # hubs[i].pub /\ pubs'[t] = pubs[t]
               \/ pubs[t].closed /\ pubs'[t] = NoHandle
    PROVE  /\ hubs' \in [IDs -> Hubs]
           /\ PlainParts' /\ SlotOwnedByHandle' /\ PrimeIsCurrent' /\ DeposedIsTold'
  <1>h. /\ hubs \in [IDs -> Hubs] /\ hubs'[i] = NoHub
        /\ \A j \in IDs \ {i} : hubs'[j] = hubs[j]
    BY DEF HInv, TypeOK
  <1>0. hubs' \in [IDs -> Hubs]
    BY <1>h, NoHubFacts
  <1>o. ASSUME NEW t \in Sessions
        PROVE  \/ pubs'[t] = pubs[t] /\ t # hubs[i].pub
               \/ pubs[t].closed /\ pubs'[t] = NoHandle
               \/ /\ t = hubs[i].pub /\ pubs'[t].closed /\ ~pubs'[t].stopping
                  /\ pubs'[t].bound = pubs'[t].told
    <2>1. CASE t = hubs[i].pub /\ pubs'[t] = Deposed(pubs[t])
      <3>1. publisherActive(i)
        BY <2>1, NamesAssumption DEF publisherActive
      <3>2. pubs[t] \in Handles /\ ~pubs[t].stopping
        BY <2>1, <3>1, SlotFacts
      <3> QED
        BY <2>1, <3>2, DeposedFacts
    <2> QED
      BY <2>1
  <1>1. PlainParts'
    <2>1. \A j \in IDs : ~Known(j)' => hubs'[j] = NoHub
      BY <1>h DEF HInv, PlainParts, Known
    <2>2. \A t \in Sessions : pubs'[t].stopping => pubs'[t].closed
      BY <1>o, NoHandleFacts DEF HInv, PlainParts
    <2> QED
      BY <2>1, <2>2 DEF PlainParts
  <1>2. SlotOwnedByHandle'
    <2>1. ASSUME NEW t \in Sessions, ~pubs'[t].closed
          PROVE  LET d == hubs'[pubs'[t].id] IN
                 d.pub = t /\ d.obj = pubs'[t].obj /\ d.gen = pubs'[t].gen
      <3>1. pubs'[t] = pubs[t] /\ t # hubs[i].pub
        BY <2>1, <1>o, NoHandleFacts
      <3>2. /\ hubs[pubs[t].id].pub = t /\ hubs[pubs[t].id].obj = pubs[t].obj
            /\ hubs[pubs[t].id].gen = pubs[t].gen
        BY <3>1, <2>1 DEF HInv, SlotOwnedByHandle
      <3>3. pubs[t].id \in IDs /\ pubs[t].id # i
        BY <3>1, <3>2, <2>1, HandleFacts DEF HInv
      <3> QED
        BY <3>1, <3>2, <3>3, <1>h
    <2>2. ASSUME NEW j \in IDs, hubs'[j].pub # NoSession
          PROVE  ~pubs'[hubs'[j].pub].closed /\ pubs'[hubs'[j].pub].id = j
      <3>1. j # i
        BY <2>2, <1>h, NoHubFacts
      <3>2. hubs'[j] = hubs[j] /\ publisherActive(j)
        BY <3>1, <2>2, <1>h DEF publisherActive
      <3>3. /\ hubs[j].pub \in Sessions /\ ~pubs[hubs[j].pub].closed
            /\ pubs[hubs[j].pub].id = j
        BY <3>2, SlotFacts
      <3>4. ASSUME hubs[j].pub = hubs[i].pub PROVE FALSE
        <4>1. publisherActive(i)
          BY <3>2, <3>4 DEF publisherActive
        <4> QED
          BY <3>1, <3>3, <3>4, <4>1, SlotFacts
      <3> QED
        BY <3>2, <3>3, <3>4, <1>o
    <2> QED
      BY <2>1, <2>2 DEF SlotOwnedByHandle, publisherActive
  <1>3. PrimeIsCurrent'
    BY <1>h, NoHubFacts DEF HInv, PrimeIsCurrent
  <1>4. DeposedIsTold'
    BY <1>o, NoHandleFacts DEF HInv, DeposedIsTold
  <1> QED
    BY <1>0, <1>1, <1>2, <1>3, <1>4

\* The publisher of a hub closes: its slot is free.
LEMMA FreeKeeps ==
    ASSUME HInv, NEW s \in Sessions, ~pubs[s].closed,
           hubs' = [hubs EXCEPT ![pubs[s].id] = slotFreed(hubs[pubs[s].id])],
           pubs' \in [Sessions -> Handles \cup {NoHandle}],
           pubs'[s].closed, pubs'[s].bound => pubs'[s].stopping,
           \A t \in Sessions \ {s} : pubs'[t] = pubs[t]
    PROVE  /\ hubs' \in [IDs -> Hubs]
           /\ PlainParts' /\ SlotOwnedByHandle' /\ PrimeIsCurrent' /\ DeposedIsTold'
  <1> DEFINE i == pubs[s].id
  <1>i. i \in IDs
    BY HandleFacts DEF HInv
  <1>s. hubs[i].pub = s
    BY DEF HInv, SlotOwnedByHandle
  <1>k. Known(i)
    <2>1. publisherActive(i)
      BY <1>s, NamesAssumption DEF publisherActive
    <2> QED
      BY <1>i, <2>1, SlotFacts
  <1> HIDE DEF i
  <1>h. /\ hubs \in [IDs -> Hubs] /\ hubs'[i] = slotFreed(hubs[i])
        /\ \A j \in IDs \ {i} : hubs'[j] = hubs[j]
    BY <1>i DEF HInv, TypeOK, i
  <1>f. /\ slotFreed(hubs[i]) \in Hubs
        /\ slotFreed(hubs[i]).pub = NoSession /\ slotFreed(hubs[i]).obj = hubs[i].obj
        /\ slotFreed(hubs[i]).gen = hubs[i].gen /\ slotFreed(hubs[i]).kf = hubs[i].kf
    BY <1>h, <1>i, SlotFreedFacts
  <1>0. hubs' \in [IDs -> Hubs]
    BY <1>h, <1>f DEF i
  <1>1. PlainParts'
    BY <1>h, <1>f, <1>k DEF HInv, PlainParts, Known
  <1>2. SlotOwnedByHandle'
    <2>1. ASSUME NEW t \in Sessions, ~pubs'[t].closed
          PROVE  LET d == hubs'[pubs'[t].id] IN
                 d.pub = t /\ d.obj = pubs'[t].obj /\ d.gen = pubs'[t].gen
      <3>1. pubs'[t] = pubs[t] /\ t # s
        BY <2>1
      <3>2. /\ hubs[pubs[t].id].pub = t /\ hubs[pubs[t].id].obj = pubs[t].obj
            /\ hubs[pubs[t].id].gen = pubs[t].gen
        BY <3>1, <2>1 DEF HInv, SlotOwnedByHandle
      <3>3. pubs[t].id \in IDs /\ pubs[t].id # i
        BY <1>s, <3>1, <3>2, <2>1, HandleFacts DEF HInv
      <3> QED
        BY <3>1, <3>2, <3>3, <1>h
    <2>2. ASSUME NEW j \in IDs, hubs'[j].pub # NoSession
          PROVE  ~pubs'[hubs'[j].pub].closed /\ pubs'[hubs'[j].pub].id = j
      <3>1. j # i
        BY <2>2, <1>h, <1>f
      <3>2. hubs'[j] = hubs[j] /\ publisherActive(j)
        BY <3>1, <2>2, <1>h DEF publisherActive
      <3>3. /\ hubs[j].pub \in Sessions /\ ~pubs[hubs[j].pub].closed
            /\ pubs[hubs[j].pub].id = j
        BY <3>2, SlotFacts
      <3>4. hubs[j].pub # s
        BY <3>1, <3>3 DEF i
      <3> QED
        BY <3>2, <3>3, <3>4
    <2> QED
      BY <2>1, <2>2 DEF SlotOwnedByHandle, publisherActive
  <1>3. PrimeIsCurrent'
    BY <1>h, <1>f, <1>i DEF HInv, PrimeIsCurrent
  <1>4. DeposedIsTold'
    BY DEF HInv, DeposedIsTold
  <1> QED
    BY <1>0, <1>1, <1>2, <1>3, <1>4

\* A step that moves nobody in or out of a slot.
LEMMA SameSlotsKeep ==
    ASSUME HInv,
           hubs' \in [IDs -> Hubs],
           pubs' \in [Sessions -> Handles \cup {NoHandle}],
           \A j \in IDs :
               /\ hubs'[j].obj = hubs[j].obj /\ hubs'[j].gen = hubs[j].gen
               /\ hubs'[j].pub = hubs[j].pub
               /\ hubs'[j].kf \in {0, hubs[j].kf, hubs[j].gen}
               /\ ~Known(j) => hubs'[j] = hubs[j],
           \A t \in Sessions :
               \/ pubs[t].closed /\ pubs'[t] = NoHandle
               \/ /\ pubs'[t].id = pubs[t].id /\ pubs'[t].obj = pubs[t].obj
                  /\ pubs'[t].gen = pubs[t].gen /\ pubs'[t].closed = pubs[t].closed
                  /\ pubs'[t].stopping => pubs'[t].closed
                  /\ pubs'[t].closed /\ pubs'[t].bound /\ ~pubs'[t].stopping
                        => pubs'[t].told
    PROVE  PlainParts' /\ SlotOwnedByHandle' /\ PrimeIsCurrent' /\ DeposedIsTold'
  <1>1. PlainParts'
    BY NoHandleFacts DEF HInv, PlainParts, Known
  <1>2. SlotOwnedByHandle'
    <2>1. ASSUME NEW t \in Sessions, ~pubs'[t].closed
          PROVE  LET d == hubs'[pubs'[t].id] IN
                 d.pub = t /\ d.obj = pubs'[t].obj /\ d.gen = pubs'[t].gen
      <3>1. /\ pubs'[t].id = pubs[t].id /\ pubs'[t].obj = pubs[t].obj
            /\ pubs'[t].gen = pubs[t].gen /\ ~pubs[t].closed
        BY <2>1, NoHandleFacts
      <3>2. /\ hubs[pubs[t].id].pub = t /\ hubs[pubs[t].id].obj = pubs[t].obj
            /\ hubs[pubs[t].id].gen = pubs[t].gen
        BY <3>1 DEF HInv, SlotOwnedByHandle
      <3>3. pubs[t].id \in IDs
        BY <3>1, HandleFacts DEF HInv
      <3> QED
        BY <3>1, <3>2, <3>3
    <2>2. ASSUME NEW j \in IDs, hubs'[j].pub # NoSession
          PROVE  ~pubs'[hubs'[j].pub].closed /\ pubs'[hubs'[j].pub].id = j
      <3>1. hubs'[j].pub = hubs[j].pub /\ publisherActive(j)
        BY <2>2 DEF publisherActive
      <3>2. /\ hubs[j].pub \in Sessions /\ ~pubs[hubs[j].pub].closed
            /\ pubs[hubs[j].pub].id = j
        BY <3>1, SlotFacts
      <3> QED
        BY <3>1, <3>2
    <2> QED
      BY <2>1, <2>2 DEF SlotOwnedByHandle, publisherActive
  <1>3. PrimeIsCurrent'
    BY DEF HInv, PrimeIsCurrent
  <1>4. DeposedIsTold'
    BY NoHandleFacts DEF HInv, DeposedIsTold
  <1> QED
    BY <1>1, <1>2, <1>3, <1>4

--------------------------------------------------------------------------------
(* The operations *)

\* A claim of a free slot deposes nobody.
LEMMA FreeSlotHandles ==
    ASSUME HInv, NEW s \in Sessions, NEW i \in IDs, ~publisherActive(i),
           NEW h, pubs' = [pubs EXCEPT ![s] = h]
    PROVE  Installed(s, i, h)
  <1>1. hubs[i].pub \notin Sessions
    BY NamesAssumption DEF publisherActive
  <1> QED
    BY <1>1 DEF HInv, TypeOK, Installed

\* A new hub object is free and has no generation yet.
LEMMA NewHubFacts ==
    ASSUME TypeOK, NEW i \in IDs
    PROVE  /\ newHub(i) \in Hubs /\ newHub(i).obj = created[i] + 1
           /\ newHub(i).obj \in Nat /\ newHub(i).obj # 0 /\ newHub(i).gen = 0
  <1>1. created[i] + 1 \in Nat /\ created[i] + 1 # 0
    BY DEF TypeOK
  <1>2. [NoHub EXCEPT !.obj = created[i] + 1] \in Hubs
    BY <1>1, NoHubFacts DEF Hubs
  <1>3. /\ [NoHub EXCEPT !.obj = created[i] + 1].obj = created[i] + 1
        /\ [NoHub EXCEPT !.obj = created[i] + 1].gen = 0
    BY NoHubFacts DEF Hubs
  <1> QED
    BY <1>1, <1>2, <1>3 DEF newHub

\* The four ways to claim the slot.
LEMMA PublishKeeps ==
    ASSUME HInv, NEW s \in Sessions, NEW i \in IDs,
           \/ StartPublish(s, i) \/ ResumePublish(s, i)
           \/ EdgePublish(s, i) \/ TakeOverPublish(s, i)
    PROVE  HInv'
  <1>t. TypeOK
    BY DEF HInv
  <1>b. hubs[i] \in Hubs
    BY <1>t DEF TypeOK
  <1>n. newHub(i) \in Hubs /\ newHub(i).obj \in Nat /\ newHub(i).obj # 0
    BY <1>t, NewHubFacts
  <1>c. ASSUME NEW b \in Hubs, created' = [created EXCEPT ![i] = b.obj],
               UNCHANGED <<firing, subs, kicks>>,
               hubs' \in [IDs -> Hubs],
               pubs' \in [Sessions -> Handles \cup {NoHandle}],
               PlainParts' /\ SlotOwnedByHandle' /\ PrimeIsCurrent' /\ DeposedIsTold'
        PROVE  HInv'
    <2>1. created' \in [IDs -> Nat]
      BY <1>t, <1>c DEF TypeOK, Hubs
    <2> QED
      BY <1>t, <1>c, <2>1 DEF HInv, TypeOK
  <1>f. \A b \in Hubs :
            /\ claimed(b, s, FALSE) \in Hubs /\ claimed(b, s, FALSE).obj = b.obj
            /\ claimed(b, s, FALSE).gen = b.gen + 1 /\ claimed(b, s, FALSE).pub = s
            /\ claimed(b, s, FALSE).kf = 0
    BY ClaimedFacts, Zenon
  <1>e. \A b \in Hubs :
            /\ claimed(b, s, TRUE) \in Hubs /\ claimed(b, s, TRUE).obj = b.obj
            /\ claimed(b, s, TRUE).gen = b.gen + 1 /\ claimed(b, s, TRUE).pub = s
            /\ claimed(b, s, TRUE).kf = 0
    BY ClaimedFacts, Zenon
  <1>g. \A b \in Hubs :
            /\ Handle(i, b, FALSE) \in Handles /\ Handle(i, b, FALSE).id = i
            /\ Handle(i, b, FALSE).obj = b.obj /\ Handle(i, b, FALSE).gen = b.gen + 1
            /\ Handle(i, b, FALSE).closed = FALSE
            /\ Handle(i, b, FALSE).stopping = FALSE
    BY NewHandleFacts, Zenon
  <1>h. \A b \in Hubs :
            /\ Handle(i, b, TRUE) \in Handles /\ Handle(i, b, TRUE).id = i
            /\ Handle(i, b, TRUE).obj = b.obj /\ Handle(i, b, TRUE).gen = b.gen + 1
            /\ Handle(i, b, TRUE).closed = FALSE
            /\ Handle(i, b, TRUE).stopping = FALSE
    BY NewHandleFacts, Zenon
  <1>p. ASSUME NEW b \in Hubs, b.obj # 0, Idle(s), ~publisherActive(i),
               Claim(s, i, b, FALSE),
               pubs' = [pubs EXCEPT ![s] = Handle(i, b, FALSE)],
               UNCHANGED <<firing, subs, kicks>>
        PROVE  HInv'
    <2> DEFINE c == claimed(b, s, FALSE)
               h == Handle(i, b, FALSE)
    <2>1. /\ c \in Hubs /\ c.obj # 0 /\ c.pub = s /\ c.kf = 0
          /\ h \in Handles /\ h.id = i /\ h.obj = c.obj /\ h.gen = c.gen
          /\ h.closed = FALSE /\ h.stopping = FALSE
      BY <1>p, <1>f, <1>g, Zenon
    <2>2. /\ hubs' = [hubs EXCEPT ![i] = c] /\ pubs' = [pubs EXCEPT ![s] = h]
          /\ created' = [created EXCEPT ![i] = b.obj]
      BY <1>p, Zenon DEF Claim
    <2> HIDE DEF c, h
    <2>4. Installed(s, i, h)
      BY <1>p, <2>2, FreeSlotHandles, Zenon
    <2>3. /\ hubs' \in [IDs -> Hubs]
          /\ pubs' \in [Sessions -> Handles \cup {NoHandle}]
          /\ PlainParts' /\ SlotOwnedByHandle' /\ PrimeIsCurrent' /\ DeposedIsTold'
      BY <1>p, <2>1, <2>2, <2>4, ClaimKeeps, Zenon
    <2> QED
      BY <1>c, <1>p, <2>2, <2>3, Zenon
  <1>q. ASSUME NEW b \in Hubs, b.obj # 0, Idle(s), ~publisherActive(i),
               Claim(s, i, b, TRUE),
               pubs' = [pubs EXCEPT ![s] = Handle(i, b, TRUE)],
               UNCHANGED <<firing, subs, kicks>>
        PROVE  HInv'
    <2> DEFINE c == claimed(b, s, TRUE)
               h == Handle(i, b, TRUE)
    <2>1. /\ c \in Hubs /\ c.obj # 0 /\ c.pub = s /\ c.kf = 0
          /\ h \in Handles /\ h.id = i /\ h.obj = c.obj /\ h.gen = c.gen
          /\ h.closed = FALSE /\ h.stopping = FALSE
      BY <1>q, <1>e, <1>h, Zenon
    <2>2. /\ hubs' = [hubs EXCEPT ![i] = c] /\ pubs' = [pubs EXCEPT ![s] = h]
          /\ created' = [created EXCEPT ![i] = b.obj]
      BY <1>q, Zenon DEF Claim
    <2> HIDE DEF c, h
    <2>4. Installed(s, i, h)
      BY <1>q, <2>2, FreeSlotHandles, Zenon
    <2>3. /\ hubs' \in [IDs -> Hubs]
          /\ pubs' \in [Sessions -> Handles \cup {NoHandle}]
          /\ PlainParts' /\ SlotOwnedByHandle' /\ PrimeIsCurrent' /\ DeposedIsTold'
      BY <1>q, <2>1, <2>2, <2>4, ClaimKeeps, Zenon
    <2> QED
      BY <1>c, <1>q, <2>2, <2>3, Zenon
  <1>1. CASE StartPublish(s, i)
    <2>1. ~publisherActive(i)
      BY <1>1, SlotFacts DEF StartPublish
    <2> QED
      BY <1>1, <1>n, <1>p, <2>1 DEF StartPublish
  <1>2. CASE ResumePublish(s, i)
    <2>1. CASE Known(i)
      BY <1>2, <1>b, <1>p, <2>1 DEF ResumePublish, Known
    <2>2. CASE ~Known(i)
      BY <1>2, <1>n, <1>p, <2>2 DEF ResumePublish
    <2> QED
      BY <2>1, <2>2
  <1>3. CASE EdgePublish(s, i)
    <2>1. CASE Known(i)
      BY <1>3, <1>b, <1>q, <2>1 DEF EdgePublish, Known
    <2>2. CASE ~Known(i)
      BY <1>3, <1>n, <1>q, <2>2 DEF EdgePublish
    <2> QED
      BY <2>1, <2>2
  <1>4. CASE TakeOverPublish(s, i)
    <2> DEFINE b == hubs[i]
               c == claimed(b, s, FALSE)
               h == Handle(i, b, FALSE)
    <2>0. Idle(s) /\ b.obj # 0 /\ UNCHANGED <<firing, subs, kicks>>
      BY <1>4, Zenon DEF TakeOverPublish, Known
    <2>1. /\ c \in Hubs /\ c.obj # 0 /\ c.pub = s /\ c.kf = 0
          /\ h \in Handles /\ h.id = i /\ h.obj = c.obj /\ h.gen = c.gen
          /\ h.closed = FALSE /\ h.stopping = FALSE
      BY <1>b, <2>0, <1>f, <1>g, Zenon
    <2>2. /\ hubs' = [hubs EXCEPT ![i] = c]
          /\ created' = [created EXCEPT ![i] = b.obj]
          /\ Installed(s, i, h)
      BY <1>4, Zenon DEF TakeOverPublish, Claim, Installed
    <2> HIDE DEF c, h
    <2>3. /\ hubs' \in [IDs -> Hubs]
          /\ pubs' \in [Sessions -> Handles \cup {NoHandle}]
          /\ PlainParts' /\ SlotOwnedByHandle' /\ PrimeIsCurrent' /\ DeposedIsTold'
      BY <2>0, <2>1, <2>2, ClaimKeeps, Zenon
    <2> QED
      BY <1>b, <1>c, <2>0, <2>2, <2>3, Zenon
  <1> QED
    BY <1>1, <1>2, <1>3, <1>4

\* Handles after one session's record changed, or ended.
LEMMA OneHandle ==
    ASSUME TypeOK, NEW s \in Sessions, NEW h \in Handles \cup {NoHandle},
           pubs' = [pubs EXCEPT ![s] = h]
    PROVE  /\ pubs' \in [Sessions -> Handles \cup {NoHandle}]
           /\ pubs'[s] = h
           /\ \A t \in Sessions \ {s} : pubs'[t] = pubs[t]
  BY DEF TypeOK

\* A step that changes the handle of one session and neither closes nor opens it.
LEMMA HandleKeeps ==
    ASSUME HInv, NEW s \in Sessions, NEW h \in Handles \cup {NoHandle},
           pubs' = [pubs EXCEPT ![s] = h],
           UNCHANGED <<hubs, created, firing, subs, kicks>>,
           \/ pubs[s].closed /\ h = NoHandle
           \/ /\ h.id = pubs[s].id /\ h.obj = pubs[s].obj /\ h.gen = pubs[s].gen
              /\ h.closed = pubs[s].closed
              /\ h.stopping => h.closed
              /\ h.closed /\ h.bound /\ ~h.stopping => h.told
    PROVE  HInv'
  <1>1. TypeOK /\ hubs' \in [IDs -> Hubs]
    BY DEF HInv, TypeOK
  <1>2. /\ pubs' \in [Sessions -> Handles \cup {NoHandle}]
        /\ pubs'[s] = h
        /\ \A t \in Sessions \ {s} : pubs'[t] = pubs[t]
    BY <1>1, OneHandle
  <1>3. \A j \in IDs :
            /\ hubs'[j].obj = hubs[j].obj /\ hubs'[j].gen = hubs[j].gen
            /\ hubs'[j].pub = hubs[j].pub
            /\ hubs'[j].kf \in {0, hubs[j].kf, hubs[j].gen}
            /\ ~Known(j) => hubs'[j] = hubs[j]
    OBVIOUS
  <1>4. \A t \in Sessions :
            \/ pubs[t].closed /\ pubs'[t] = NoHandle
            \/ /\ pubs'[t].id = pubs[t].id /\ pubs'[t].obj = pubs[t].obj
               /\ pubs'[t].gen = pubs[t].gen /\ pubs'[t].closed = pubs[t].closed
               /\ pubs'[t].stopping => pubs'[t].closed
               /\ pubs'[t].closed /\ pubs'[t].bound /\ ~pubs'[t].stopping
                     => pubs'[t].told
    BY <1>2 DEF HInv, PlainParts, DeposedIsTold
  <1>5. PlainParts' /\ SlotOwnedByHandle' /\ PrimeIsCurrent' /\ DeposedIsTold'
    BY <1>1, <1>2, <1>3, <1>4, SameSlotsKeep
  <1> QED
    BY <1>1, <1>2, <1>5 DEF HInv, TypeOK

\* A step that changes the keyframe cache or the timer of one hub.
LEMMA HubKeeps ==
    ASSUME HInv, NEW i \in IDs, NEW b \in Hubs,
           hubs' = [hubs EXCEPT ![i] = b],
           b.obj = hubs[i].obj, b.gen = hubs[i].gen, b.pub = hubs[i].pub,
           b.kf \in {0, hubs[i].kf, hubs[i].gen}, Known(i), pubs' = pubs
    PROVE  /\ hubs' \in [IDs -> Hubs]
           /\ PlainParts' /\ SlotOwnedByHandle' /\ PrimeIsCurrent' /\ DeposedIsTold'
  <1>1. /\ hubs \in [IDs -> Hubs] /\ hubs' \in [IDs -> Hubs] /\ hubs'[i] = b
        /\ \A j \in IDs \ {i} : hubs'[j] = hubs[j]
        /\ pubs' \in [Sessions -> Handles \cup {NoHandle}]
    BY DEF HInv, TypeOK
  <1>2. \A j \in IDs :
            /\ hubs'[j].obj = hubs[j].obj /\ hubs'[j].gen = hubs[j].gen
            /\ hubs'[j].pub = hubs[j].pub
            /\ hubs'[j].kf \in {0, hubs[j].kf, hubs[j].gen}
            /\ ~Known(j) => hubs'[j] = hubs[j]
    BY <1>1
  <1>3. \A t \in Sessions :
            /\ pubs'[t].id = pubs[t].id /\ pubs'[t].obj = pubs[t].obj
            /\ pubs'[t].gen = pubs[t].gen /\ pubs'[t].closed = pubs[t].closed
            /\ pubs'[t].stopping => pubs'[t].closed
            /\ pubs'[t].closed /\ pubs'[t].bound /\ ~pubs'[t].stopping
                  => pubs'[t].told
    BY DEF HInv, PlainParts, DeposedIsTold
  <1> QED
    BY <1>1, <1>2, <1>3, SameSlotsKeep

\* The steps of one session.
LEMMA SessionKeeps ==
    ASSUME HInv, NEW s \in Sessions,
           \/ BindConn(s) \/ onKeyframe(s) \/ Close(s) \/ StopClose(s)
           \/ FallsSilent(s) \/ NoteSeen(s)
    PROVE  HInv'
  <1>t. TypeOK
    BY DEF HInv
  <1>d. ~Idle(s) => /\ pubs[s] \in Handles /\ pubs[s].id \in IDs
                    /\ (pubs[s].stopping => pubs[s].closed)
                    /\ (pubs[s].closed /\ pubs[s].bound /\ ~pubs[s].stopping
                           => pubs[s].told)
    BY <1>t, HandleFacts DEF HInv, PlainParts, DeposedIsTold
  <1>1. CASE BindConn(s)
    <2>1. CASE pubs[s].closed
      BY <1>1, <2>1, HandleKeeps DEF BindConn, Finish
    <2>2. CASE ~pubs[s].closed
      <3> DEFINE h == [pubs[s] EXCEPT !.bound = TRUE]
      <3>1. /\ h \in Handles /\ h.id = pubs[s].id /\ h.obj = pubs[s].obj
            /\ h.gen = pubs[s].gen /\ h.closed = pubs[s].closed
            /\ h.stopping = pubs[s].stopping
        BY <1>1, <1>d DEF BindConn, Handles
      <3>2. /\ pubs' = [pubs EXCEPT ![s] = h]
            /\ UNCHANGED <<hubs, created, firing, subs, kicks>>
        BY <1>1, <2>2 DEF BindConn
      <3> HIDE DEF h
      <3>3. (h.stopping => h.closed) /\ ~h.closed
        BY <3>1, <2>2 DEF HInv, PlainParts
      <3> QED
        BY <3>1, <3>2, <3>3, HandleKeeps
    <2> QED
      BY <2>1, <2>2
  <1>2. CASE onKeyframe(s)
    <2> DEFINE i == pubs[s].id
               b == [hubs[i] EXCEPT !.kf = pubs[s].gen]
    <2>1. ~Idle(s) /\ ~pubs[s].closed /\ UNCHANGED <<created, pubs, firing, subs, kicks>>
      BY <1>2 DEF onKeyframe
    <2>2. i \in IDs /\ hubs[i].pub = s /\ hubs[i].gen = pubs[s].gen
      BY <1>d, <2>1 DEF HInv, SlotOwnedByHandle
    <2>3. Known(i)
      <3>1. publisherActive(i)
        BY <2>2, NamesAssumption DEF publisherActive
      <3> QED
        BY <2>2, <3>1, SlotFacts
    <2>4. hubs[i] \in Hubs /\ pubs[s].gen \in Nat
      BY <1>t, <1>d, <2>1, <2>2 DEF TypeOK, Handles
    <2>5. hubs' = [hubs EXCEPT ![i] = b]
      BY <1>2 DEF onKeyframe
    <2>6. /\ b \in Hubs /\ b.obj = hubs[i].obj /\ b.gen = hubs[i].gen
          /\ b.pub = hubs[i].pub /\ b.kf = hubs[i].gen
      BY <2>2, <2>4 DEF Hubs
    <2> HIDE DEF i, b
    <2>7. /\ hubs' \in [IDs -> Hubs]
          /\ PlainParts' /\ SlotOwnedByHandle' /\ PrimeIsCurrent' /\ DeposedIsTold'
      BY <2>1, <2>2, <2>3, <2>5, <2>6, HubKeeps
    <2> QED
      BY <1>t, <2>1, <2>7 DEF HInv, TypeOK
  <1>3. CASE Close(s)
    <2>0. ~Idle(s) /\ ~pubs[s].stopping /\ UNCHANGED <<created, firing, subs, kicks>>
      BY <1>3 DEF Close
    <2>p. pubs' = [pubs EXCEPT ![s] = NoHandle]
      BY <1>3 DEF Close, Finish
    <2>1. CASE pubs[s].closed
      <3>1. hubs' = hubs
        BY <1>3, <2>1 DEF Close, closePublisher
      <3> QED
        BY <2>0, <2>p, <2>1, <3>1, HandleKeeps
    <2>2. CASE ~pubs[s].closed
      <3>1. hubs' = [hubs EXCEPT ![pubs[s].id] = slotFreed(hubs[pubs[s].id])]
        BY <1>3, <2>2 DEF Close, closePublisher
      <3>2. /\ pubs' \in [Sessions -> Handles \cup {NoHandle}]
            /\ pubs'[s] = NoHandle
            /\ \A t \in Sessions \ {s} : pubs'[t] = pubs[t]
        BY <1>t, <2>p, OneHandle
      <3>3. pubs'[s].closed /\ ~pubs'[s].bound
        BY <3>2, NoHandleFacts
      <3>4. /\ hubs' \in [IDs -> Hubs]
            /\ PlainParts' /\ SlotOwnedByHandle' /\ PrimeIsCurrent' /\ DeposedIsTold'
        BY <2>2, <3>1, <3>2, <3>3, FreeKeeps
      <3> QED
        BY <1>t, <2>0, <3>2, <3>4 DEF HInv, TypeOK
    <2> QED
      BY <2>1, <2>2
  <1>4. CASE StopClose(s)
    <2> DEFINE h1 == [pubs[s] EXCEPT !.closed = TRUE]
               h == [h1 EXCEPT !.stopping = TRUE]
    <2>0. ~Idle(s) /\ UNCHANGED <<created, firing, subs, kicks>>
      BY <1>4 DEF StopClose
    <2>a. /\ h1 \in Handles /\ h1.closed = TRUE /\ h1.id = pubs[s].id
          /\ h1.obj = pubs[s].obj /\ h1.gen = pubs[s].gen
      BY <1>d, <2>0 DEF Handles
    <2>p. pubs' = [pubs EXCEPT ![s] = h]
      <3>1. pubs' = [[pubs EXCEPT ![s].closed = TRUE] EXCEPT ![s].stopping = TRUE]
        BY <1>4, Zenon DEF StopClose
      <3> QED
        BY <1>t, <3>1 DEF TypeOK
    <2> HIDE DEF h1
    <2>b. /\ h \in Handles /\ h.closed = TRUE /\ h.stopping = TRUE /\ h.id = pubs[s].id
          /\ h.obj = pubs[s].obj /\ h.gen = pubs[s].gen
      BY <2>a DEF Handles
    <2> HIDE DEF h
    <2>1. CASE pubs[s].closed
      <3>1. hubs' = hubs
        BY <1>4, <2>1 DEF StopClose, closePublisher
      <3>2. h.closed = pubs[s].closed
        BY <2>1, <2>b, <1>d, <2>0 DEF Handles
      <3> QED
        BY <2>0, <2>p, <2>b, <3>1, <3>2, HandleKeeps
    <2>2. CASE ~pubs[s].closed
      <3>1. hubs' = [hubs EXCEPT ![pubs[s].id] = slotFreed(hubs[pubs[s].id])]
        BY <1>4, <2>2 DEF StopClose, closePublisher
      <3>2. /\ pubs' \in [Sessions -> Handles \cup {NoHandle}]
            /\ pubs'[s] = h
            /\ \A t \in Sessions \ {s} : pubs'[t] = pubs[t]
        BY <1>t, <2>p, <2>b, OneHandle
      <3>4. /\ hubs' \in [IDs -> Hubs]
            /\ PlainParts' /\ SlotOwnedByHandle' /\ PrimeIsCurrent' /\ DeposedIsTold'
        BY <2>2, <2>b, <3>1, <3>2, FreeKeeps
      <3> QED
        BY <1>t, <2>0, <3>2, <3>4 DEF HInv, TypeOK
    <2> QED
      BY <2>1, <2>2
  <1>5. ASSUME NEW x \in BOOLEAN, ~Idle(s), pubs' = [pubs EXCEPT ![s].silent = x],
               UNCHANGED <<hubs, created, firing, subs, kicks>>
        PROVE  HInv'
    <2> DEFINE h == [pubs[s] EXCEPT !.silent = x]
    <2>1. /\ h \in Handles /\ h.id = pubs[s].id /\ h.obj = pubs[s].obj
          /\ h.gen = pubs[s].gen /\ h.closed = pubs[s].closed
          /\ h.stopping = pubs[s].stopping /\ h.bound = pubs[s].bound
          /\ h.told = pubs[s].told
      BY <1>5, <1>d DEF Handles
    <2>2. pubs' = [pubs EXCEPT ![s] = h]
      BY <1>5
    <2> HIDE DEF h
    <2> QED
      BY <1>5, <1>d, <2>1, <2>2, HandleKeeps
  <1>6. CASE FallsSilent(s)
    BY <1>6, <1>5, Zenon DEF FallsSilent
  <1>7. CASE NoteSeen(s)
    <2>1. ~Idle(s)
      BY <1>7, <1>t, HandleFacts DEF NoteSeen
    <2> QED
      BY <1>7, <1>5, <2>1, Zenon DEF NoteSeen
  <1> QED
    BY <1>1, <1>2, <1>3, <1>4, <1>6, <1>7

\* Leaving keeps the type of the subscriptions.
LEMMA UnsubscribedType ==
    ASSUME TypeOK, NEW S
    PROVE  Unsubscribed(S) \in [Viewers -> Subscriptions \cup {NotSubscribed}]
  BY DEF TypeOK, Unsubscribed

\* removeBroadcast of a hub nobody publishes, while at most one session without a
\* slot ends.
LEMMA EndKeeps ==
    ASSUME HInv, NEW i \in IDs, ~publisherActive(i), removeBroadcast(i),
           pubs' \in [Sessions -> Handles \cup {NoHandle}],
           \A t \in Sessions :
               pubs'[t] = pubs[t] \/ (pubs[t].closed /\ pubs'[t] = NoHandle),
           created' = created, firing' \subseteq firing, kicks' = kicks
    PROVE  HInv'
  <1>1. hubs' = [hubs EXCEPT ![i] = NoHub]
    BY DEF removeBroadcast
  <1>2. subs' \in [Viewers -> Subscriptions \cup {NotSubscribed}]
    BY UnsubscribedType DEF HInv, removeBroadcast
  <1>3. \A t \in Sessions : t # hubs[i].pub
    BY NamesAssumption DEF publisherActive
  <1>4. \A t \in Sessions :
            \/ t = hubs[i].pub /\ pubs'[t] = Deposed(pubs[t])
            \/ t # hubs[i].pub /\ pubs'[t] = pubs[t]
            \/ pubs[t].closed /\ pubs'[t] = NoHandle
    BY <1>3
  <1>5. /\ hubs' \in [IDs -> Hubs]
        /\ PlainParts' /\ SlotOwnedByHandle' /\ PrimeIsCurrent' /\ DeposedIsTold'
    BY <1>1, <1>4, RemoveKeeps
  <1> QED
    BY <1>2, <1>5 DEF HInv, TypeOK

\* TerminateBroadcast, by the operator or by the stall sweep.
LEMMA TerminateKeeps ==
    ASSUME HInv, NEW i \in IDs, Terminated(i),
           created' = created, firing' = firing, kicks' \subseteq kicks
    PROVE  HInv'
  <1>1. /\ hubs' = [hubs EXCEPT ![i] = NoHub]
        /\ pubs' = [t \in Sessions |->
                       IF t = hubs[i].pub THEN Deposed(pubs[t]) ELSE pubs[t]]
    BY DEF Terminated, removeBroadcast
  <1>2. subs' \in [Viewers -> Subscriptions \cup {NotSubscribed}]
    BY UnsubscribedType DEF HInv, Terminated, removeBroadcast
  <1>3. pubs' \in [Sessions -> Handles \cup {NoHandle}]
    <2>1. ASSUME NEW t \in Sessions PROVE pubs'[t] \in Handles \cup {NoHandle}
      <3>1. CASE t = hubs[i].pub
        <4>1. publisherActive(i)
          BY <3>1, NamesAssumption DEF publisherActive
        <4>2. pubs'[t] = Deposed(pubs[t]) /\ pubs[t] \in Handles
          BY <1>1, <3>1, <4>1, SlotFacts
        <4> QED
          BY <4>2, DeposedFacts
      <3>2. CASE t # hubs[i].pub
        BY <1>1, <3>2 DEF HInv, TypeOK
      <3> QED
        BY <3>1, <3>2
    <2> QED
      BY <1>1, <2>1
  <1>4. \A t \in Sessions :
            \/ t = hubs[i].pub /\ pubs'[t] = Deposed(pubs[t])
            \/ t # hubs[i].pub /\ pubs'[t] = pubs[t]
            \/ pubs[t].closed /\ pubs'[t] = NoHandle
    BY <1>1
  <1>5. /\ hubs' \in [IDs -> Hubs]
        /\ PlainParts' /\ SlotOwnedByHandle' /\ PrimeIsCurrent' /\ DeposedIsTold'
    BY <1>1, <1>3, <1>4, RemoveKeeps
  <1> QED
    BY <1>2, <1>3, <1>5 DEF HInv, TypeOK

\* Nothing of the three promises changes with subscriptions, timers or kicks.
LEMMA OtherKeeps ==
    ASSUME HInv, UNCHANGED <<hubs, created, pubs>>,
           subs' \in [Viewers -> Subscriptions \cup {NotSubscribed}],
           firing' \subseteq [id : IDs, obj : Nat, gen : Nat],
           kicks' \subseteq [id : IDs, obj : Nat, gen : Nat]
    PROVE  HInv'
  BY DEF HInv, TypeOK, PlainParts, SlotOwnedByHandle, PrimeIsCurrent, DeposedIsTold,
         Known, publisherActive

\* A hub is named by its object and generation.
LEMMA HubName ==
    ASSUME TypeOK, NEW i \in IDs
    PROVE  [id |-> i, obj |-> hubs[i].obj, gen |-> hubs[i].gen]
               \in [id : IDs, obj : Nat, gen : Nat]
  BY DEF TypeOK, Hubs

\* Second halves, timers, sweeps and removals.
LEMMA ExpiryKeeps ==
    ASSUME HInv, Expiry \/ \E s \in Sessions : StopRemove(s)
    PROVE  HInv'
  <1>t. TypeOK
    BY DEF HInv
  <1>s. /\ pubs \in [Sessions -> Handles \cup {NoHandle}]
        /\ firing \subseteq [id : IDs, obj : Nat, gen : Nat]
        /\ kicks \subseteq [id : IDs, obj : Nat, gen : Nat]
        /\ subs \in [Viewers -> Subscriptions \cup {NotSubscribed}]
    BY <1>t DEF TypeOK
  <1>1. ASSUME NEW s \in Sessions, StopRemove(s) PROVE HInv'
    <2>1. pubs[s] \in Handles /\ pubs[s].id \in IDs /\ pubs[s].closed
      BY <1>1, <1>t, HandleFacts DEF StopRemove, HInv, PlainParts
    <2>2. /\ pubs' = [pubs EXCEPT ![s] = NoHandle]
          /\ UNCHANGED <<created, firing, kicks>>
      BY <1>1 DEF StopRemove, Finish
    <2>3. /\ pubs' \in [Sessions -> Handles \cup {NoHandle}]
          /\ \A t \in Sessions :
                pubs'[t] = pubs[t] \/ (pubs[t].closed /\ pubs'[t] = NoHandle)
      BY <1>t, <2>1, <2>2, OneHandle
    <2>4. CASE StillMine(s)
      <3>1. removeBroadcast(pubs[s].id) /\ ~publisherActive(pubs[s].id)
        BY <1>1, <2>4 DEF StopRemove, StillMine
      <3> QED
        BY <2>1, <2>2, <2>3, <3>1, EndKeeps
    <2>5. CASE ~StillMine(s)
      <3>1. UNCHANGED <<hubs, subs>>
        BY <1>1, <2>5 DEF StopRemove
      <3> QED
        BY <2>1, <2>2, <3>1, HandleKeeps
    <2> QED
      BY <2>4, <2>5
  <1>2. ASSUME NEW i \in IDs, GraceTimerFires(i) PROVE HInv'
    <2> DEFINE b == [hubs[i] EXCEPT !.grace = FALSE]
    <2>1. /\ hubs[i].grace /\ hubs' = [hubs EXCEPT ![i] = b]
          /\ firing' = firing \cup {[id |-> i, obj |-> hubs[i].obj, gen |-> hubs[i].gen]}
          /\ UNCHANGED <<created, pubs, subs, kicks>>
      BY <1>2 DEF GraceTimerFires
    <2>2. hubs[i] \in Hubs
      BY <1>t DEF TypeOK
    <2>3. Known(i)
      BY <2>1, NoHubFacts DEF HInv, PlainParts
    <2>4. /\ b \in Hubs /\ b.obj = hubs[i].obj /\ b.gen = hubs[i].gen
          /\ b.pub = hubs[i].pub /\ b.kf = hubs[i].kf
      BY <2>2 DEF Hubs
    <2> HIDE DEF b
    <2>5. /\ hubs' \in [IDs -> Hubs]
          /\ PlainParts' /\ SlotOwnedByHandle' /\ PrimeIsCurrent' /\ DeposedIsTold'
      BY <2>1, <2>3, <2>4, HubKeeps
    <2>6. firing' \subseteq [id : IDs, obj : Nat, gen : Nat]
      BY <1>s, <1>t, <2>1, HubName
    <2> QED
      BY <1>t, <2>1, <2>5, <2>6 DEF HInv, TypeOK
  <1>3. ASSUME NEW i \in IDs, EndBroadcast(i) \/ ExpireEdgeIfViewerless(i) PROVE HInv'
    <2>1. /\ ~publisherActive(i) /\ removeBroadcast(i)
          /\ UNCHANGED <<created, pubs, firing, kicks>>
      BY <1>3 DEF EndBroadcast, ExpireEdgeIfViewerless
    <2> QED
      BY <1>s, <2>1, EndKeeps
  <1>4. ASSUME NEW i \in IDs, TerminateBroadcast(i) PROVE HInv'
    BY <1>4, TerminateKeeps DEF TerminateBroadcast
  <1>5. ASSUME NEW i \in IDs, InvalidatePrimes(i) PROVE HInv'
    <2> DEFINE b == [hubs[i] EXCEPT !.kf = 0]
    <2>1. /\ Known(i) /\ hubs' = [hubs EXCEPT ![i] = b]
          /\ UNCHANGED <<created, pubs, firing, subs, kicks>>
      BY <1>5 DEF InvalidatePrimes
    <2>2. hubs[i] \in Hubs
      BY <1>t DEF TypeOK
    <2>4. /\ b \in Hubs /\ b.obj = hubs[i].obj /\ b.gen = hubs[i].gen
          /\ b.pub = hubs[i].pub /\ b.kf = 0
      BY <2>2 DEF Hubs
    <2> HIDE DEF b
    <2>5. /\ hubs' \in [IDs -> Hubs]
          /\ PlainParts' /\ SlotOwnedByHandle' /\ PrimeIsCurrent' /\ DeposedIsTold'
      BY <2>1, <2>4, HubKeeps
    <2> QED
      BY <1>t, <2>1, <2>5 DEF HInv, TypeOK
  <1>6. ASSUME NEW f \in firing, handleGraceExpiry(f) PROVE HInv'
    <2>1. f.id \in IDs
      BY <1>s
    <2>2. firing' \subseteq firing /\ UNCHANGED <<created, pubs, kicks>>
      BY <1>6 DEF handleGraceExpiry
    <2>3. CASE StillThatGrace(f)
      <3>1. removeBroadcast(f.id) /\ ~publisherActive(f.id)
        BY <1>6, <2>3 DEF handleGraceExpiry, StillThatGrace
      <3> QED
        BY <1>s, <2>1, <2>2, <3>1, EndKeeps
    <2>4. CASE ~StillThatGrace(f)
      <3>1. UNCHANGED <<hubs, subs>>
        BY <1>6, <2>4 DEF handleGraceExpiry
      <3> QED
        BY <1>s, <2>2, <3>1, OtherKeeps
    <2> QED
      BY <2>3, <2>4
  <1>7. ASSUME SweepStalledPublishers PROVE HInv'
    <2>1. kicks' \subseteq [id : IDs, obj : Nat, gen : Nat]
      BY <1>7, <1>t, HubName DEF SweepStalledPublishers
    <2> QED
      BY <1>7, <1>s, <2>1, OtherKeeps DEF SweepStalledPublishers
  <1>8. ASSUME NEW k \in kicks, KickStalled(k) PROVE HInv'
    <2>1. k.id \in IDs
      BY <1>s
    <2>2. kicks' \subseteq kicks /\ UNCHANGED <<created, firing>>
      BY <1>8 DEF KickStalled
    <2>3. CASE Known(k.id)
      BY <1>8, <2>1, <2>2, <2>3, TerminateKeeps DEF KickStalled
    <2>4. CASE ~Known(k.id)
      BY <1>8, <1>s, <2>2, <2>4, OtherKeeps DEF KickStalled
    <2> QED
      BY <2>3, <2>4
  <1> QED
    BY <1>1, <1>2, <1>3, <1>4, <1>5, <1>6, <1>7, <1>8 DEF Expiry

\* Viewers come and go.
LEMMA WatchKeeps ==
    ASSUME HInv, Watch
    PROVE  HInv'
  <1>t. TypeOK
    BY DEF HInv
  <1>1. UNCHANGED <<hubs, created, pubs, firing, kicks>>
    BY DEF Watch, Subscribe, Unsubscribe, CloseInternalSubscribers
  <1>2. subs' \in [Viewers -> Subscriptions \cup {NotSubscribed}]
    <2>1. ASSUME NEW v \in Viewers, NEW i \in IDs, NEW x \in BOOLEAN, Subscribe(v, i, x)
          PROVE  subs' \in [Viewers -> Subscriptions \cup {NotSubscribed}]
      <3>1. [id |-> i, internal |-> x] \in Subscriptions
        BY DEF Subscriptions
      <3> QED
        BY <1>t, <2>1, <3>1 DEF Subscribe, TypeOK
    <2>2. ASSUME NEW S, subs' = Unsubscribed(S)
          PROVE  subs' \in [Viewers -> Subscriptions \cup {NotSubscribed}]
      BY <1>t, <2>2, UnsubscribedType
    <2> QED
      BY <2>1, <2>2 DEF Watch, Unsubscribe, CloseInternalSubscribers
  <1> QED
    BY <1>t, <1>1, <1>2, OtherKeeps DEF TypeOK

\* An empty relay satisfies the invariant.
LEMMA HInvInit == Init => HInv
  <1> SUFFICES ASSUME Init PROVE HInv
    OBVIOUS
  <1>1. TypeOK
    BY NoHubFacts DEF Init, TypeOK
  <1>2. PlainParts /\ PrimeIsCurrent /\ DeposedIsTold
    BY NoHubFacts, NoHandleFacts DEF Init, PlainParts, PrimeIsCurrent, DeposedIsTold, Known
  <1>3. SlotOwnedByHandle
    BY NoHubFacts, NoHandleFacts DEF Init, SlotOwnedByHandle, publisherActive
  <1> QED
    BY <1>1, <1>2, <1>3 DEF HInv

\* Every step keeps the invariant.
LEMMA HInvStep == HInv /\ [Next]_vars => HInv'
  <1> SUFFICES ASSUME HInv, [Next]_vars PROVE HInv'
    OBVIOUS
  <1>1. CASE Publish
    BY <1>1, PublishKeeps DEF Publish
  <1>2. CASE Session
    BY <1>2, SessionKeeps, ExpiryKeeps DEF Session
  <1>3. CASE Expiry
    BY <1>3, ExpiryKeeps
  <1>4. CASE Watch
    BY <1>4, WatchKeeps
  <1>5. CASE UNCHANGED vars
    BY <1>5 DEF vars, HInv, TypeOK, PlainParts, SlotOwnedByHandle, PrimeIsCurrent,
                DeposedIsTold, Known, publisherActive
  <1> QED
    BY <1>1, <1>2, <1>3, <1>4, <1>5 DEF Next

--------------------------------------------------------------------------------
(* Theorems *)

\* The inductive invariant holds throughout.
THEOREM HInvHolds == Spec => []HInv
  BY HInvInit, HInvStep, PTL DEF Spec

\* The registry's variables keep their types.
THEOREM RegistryTypeCorrect == Spec => []TypeOK
  <1>1. HInv => TypeOK
    BY DEF HInv
  <1> QED
    BY <1>1, HInvHolds, PTL

\* Publisher slots and open handles correspond one to one, so a deposed or removed
\* session can touch nothing any more.
THEOREM SlotsOwned == Spec => []SlotOwnedByHandle
  <1>1. HInv => SlotOwnedByHandle
    BY DEF HInv
  <1> QED
    BY <1>1, HInvHolds, PTL

\* The cached keyframe is of the hub's latest publisher session.
THEOREM PrimesCurrent == Spec => []PrimeIsCurrent
  <1>1. HInv => PrimeIsCurrent
    BY DEF HInv
  <1> QED
    BY <1>1, HInvHolds, PTL

\* A bound session that lost its slot has been told so.
THEOREM DeposedTold == Spec => []DeposedIsTold
  <1>1. HInv => DeposedIsTold
    BY DEF HInv
  <1> QED
    BY <1>1, HInvHolds, PTL

--------------------------------------------------------------------------------
(* Old timers.  A timer that fired carries the object and the generation it   *)
(* was armed for.  TimersPast says why comparing generations is enough within *)
(* one hub object: by the time anybody claims the slot again the generation   *)
(* has moved on, so a timer of the present generation belongs to the absence  *)
(* that is still going on.                                                    *)

TimersPast ==
    /\ \A i \in IDs :
        /\ hubs[i].obj \in {0, created[i]}
        /\ hubs[i].grace => ~publisherActive(i)
    /\ \A f \in firing :
        /\ 0 < f.obj /\ f.obj <= created[f.id]
        /\ f.obj = hubs[f.id].obj =>
            /\ f.gen <= hubs[f.id].gen
            /\ f.gen = hubs[f.id].gen =>
                   ~hubs[f.id].grace /\ ~publisherActive(f.id)

--------------------------------------------------------------------------------
(* What a step does to a hub *)

Kept(i) ==
    /\ hubs'[i].obj = hubs[i].obj /\ hubs'[i].gen = hubs[i].gen
    /\ hubs'[i].pub = hubs[i].pub /\ hubs'[i].grace = hubs[i].grace
    /\ created'[i] = created[i]

Claimed(i) ==
    /\ hubs'[i].grace = FALSE
    /\ \/ /\ Known(i) /\ hubs'[i].obj = hubs[i].obj
          /\ hubs'[i].gen = hubs[i].gen + 1 /\ created'[i] = hubs[i].obj
       \/ hubs'[i].obj = created[i] + 1 /\ created'[i] = created[i] + 1

Freed(i) ==
    /\ publisherActive(i) /\ hubs'[i].pub = NoSession
    /\ hubs'[i].obj = hubs[i].obj /\ hubs'[i].gen = hubs[i].gen
    /\ created'[i] = created[i]

Gone(i) == hubs'[i] = NoHub /\ created'[i] = created[i]

Fired(i) ==
    /\ hubs[i].grace /\ hubs'[i].grace = FALSE
    /\ hubs'[i].obj = hubs[i].obj /\ hubs'[i].gen = hubs[i].gen
    /\ hubs'[i].pub = hubs[i].pub /\ created'[i] = created[i]

Moves ==
    \A i \in IDs : Kept(i) \/ Claimed(i) \/ Freed(i) \/ Gone(i) \/ Fired(i)

\* A timer that is new was fired in this step by its hub.
TimersFrom ==
    \A f \in firing' : f \in firing \/
        \E i \in IDs : /\ Fired(i)
                       /\ f = [id |-> i, obj |-> hubs[i].obj, gen |-> hubs[i].gen]

\* Moves keep timers in the past.
LEMMA MovesKeepTimers ==
    ASSUME HInv, HInv', TimersPast, Moves, TimersFrom
    PROVE  TimersPast'
  <1>t. /\ hubs \in [IDs -> Hubs] /\ created \in [IDs -> Nat]
        /\ hubs' \in [IDs -> Hubs] /\ created' \in [IDs -> Nat]
        /\ firing \subseteq [id : IDs, obj : Nat, gen : Nat]
        /\ firing' \subseteq [id : IDs, obj : Nat, gen : Nat]
    BY DEF HInv, TypeOK
  <1>h. ASSUME NEW i \in IDs
        PROVE  /\ hubs[i].obj \in Nat /\ hubs[i].gen \in Nat /\ hubs[i].grace \in BOOLEAN
               /\ created[i] \in Nat /\ created'[i] \in Nat
               /\ hubs'[i].gen \in Nat /\ hubs'[i].grace \in BOOLEAN
    BY <1>t DEF Hubs
  <1>1. ASSUME NEW i \in IDs
        PROVE  hubs'[i].obj \in {0, created'[i]}
    <2>1. CASE Claimed(i)
      BY <1>h, <2>1 DEF Claimed, TimersPast, Known
    <2>2. CASE Gone(i)
      BY <2>2, NoHubFacts DEF Gone
    <2>3. CASE Kept(i) \/ Freed(i) \/ Fired(i)
      BY <2>3 DEF Kept, Freed, Fired, TimersPast
    <2> QED
      BY <2>1, <2>2, <2>3 DEF Moves
  <1>2. ASSUME NEW i \in IDs, hubs'[i].grace
        PROVE  hubs'[i].pub = NoSession
    <2>1. CASE Claimed(i) \/ Fired(i)
      BY <1>2, <2>1 DEF Claimed, Fired
    <2>2. CASE Gone(i)
      BY <2>2, NoHubFacts DEF Gone
    <2>3. CASE Freed(i)
      BY <2>3 DEF Freed
    <2>4. CASE Kept(i)
      BY <1>2, <2>4 DEF Kept, TimersPast, publisherActive
    <2> QED
      BY <2>1, <2>2, <2>3, <2>4 DEF Moves
  <1>3. ASSUME NEW f \in firing'
        PROVE  /\ 0 < f.obj /\ f.obj <= created'[f.id]
               /\ f.obj = hubs'[f.id].obj =>
                    /\ f.gen <= hubs'[f.id].gen
                    /\ f.gen = hubs'[f.id].gen =>
                           ~hubs'[f.id].grace /\ hubs'[f.id].pub = NoSession
    <2>0. f.id \in IDs /\ f.obj \in Nat /\ f.gen \in Nat
      BY <1>t
    <2>1. CASE f \in firing
      <3>0. /\ 0 < f.obj /\ f.obj <= created[f.id]
            /\ f.obj = hubs[f.id].obj =>
                 /\ f.gen <= hubs[f.id].gen
                 /\ f.gen = hubs[f.id].gen =>
                        ~hubs[f.id].grace /\ hubs[f.id].pub = NoSession
        BY <2>1 DEF TimersPast, publisherActive
      <3>1. CASE Kept(f.id)
        BY <2>0, <3>0, <3>1 DEF Kept
      <3>2. CASE Claimed(f.id)
        <4>1. hubs[f.id].obj = created[f.id] \/ ~Known(f.id)
          BY <2>0 DEF TimersPast, Known
        <4> QED
          BY <1>h, <2>0, <3>0, <3>2, <4>1 DEF Claimed
      <3>3. CASE Freed(f.id)
        BY <2>0, <3>0, <3>3 DEF Freed, publisherActive
      <3>4. CASE Gone(f.id)
        BY <2>0, <3>0, <3>4, NoHubFacts DEF Gone
      <3>5. CASE Fired(f.id)
        BY <2>0, <3>0, <3>5 DEF Fired
      <3> QED
        BY <2>0, <3>1, <3>2, <3>3, <3>4, <3>5 DEF Moves
    <2>2. CASE f \notin firing
      <3>1. PICK i \in IDs :
               /\ Fired(i)
               /\ f = [id |-> i, obj |-> hubs[i].obj, gen |-> hubs[i].gen]
        BY <2>2 DEF TimersFrom
      <3>2. f.id = i /\ f.obj = hubs[i].obj /\ f.gen = hubs[i].gen
        BY <3>1
      <3>3. hubs[i].obj # 0
        BY <3>1, NoHubFacts DEF Fired, HInv, PlainParts, Known
      <3>4. hubs[i].pub = NoSession /\ hubs[i].obj = created[i]
        BY <3>1, <3>3 DEF Fired, TimersPast, publisherActive
      <3> QED
        BY <1>h, <3>1, <3>2, <3>3, <3>4 DEF Fired
    <2> QED
      BY <2>1, <2>2
  <1> QED
    BY <1>1, <1>2, <1>3 DEF TimersPast, publisherActive

\* A step that changes one hub only.
LEMMA OneMove ==
    ASSUME HInv, NEW i \in IDs, NEW b \in Hubs, hubs' = [hubs EXCEPT ![i] = b],
           created' = created,
           \/ /\ b.obj = hubs[i].obj /\ b.gen = hubs[i].gen
              /\ b.pub = hubs[i].pub /\ b.grace = hubs[i].grace
           \/ /\ publisherActive(i) /\ b.pub = NoSession
              /\ b.obj = hubs[i].obj /\ b.gen = hubs[i].gen
           \/ b = NoHub
           \/ /\ hubs[i].grace /\ b.grace = FALSE /\ b.pub = hubs[i].pub
              /\ b.obj = hubs[i].obj /\ b.gen = hubs[i].gen
    PROVE  Moves
  <1>1. hubs'[i] = b /\ \A j \in IDs \ {i} : hubs'[j] = hubs[j]
    BY DEF HInv, TypeOK
  <1>2. \A j \in IDs \ {i} : Kept(j)
    BY <1>1 DEF Kept
  <1>3. Kept(i) \/ Freed(i) \/ Gone(i) \/ Fired(i)
    BY <1>1 DEF Kept, Freed, Gone, Fired
  <1> QED
    BY <1>2, <1>3 DEF Moves

\* A step that changes no hub.
LEMMA NoMove ==
    ASSUME hubs' = hubs, created' = created
    PROVE  Moves
  BY DEF Moves, Kept

\* removeBroadcast, as a move.
LEMMA RemoveMoves ==
    ASSUME HInv, NEW i \in IDs, removeBroadcast(i), created' = created
    PROVE  Moves
  BY OneMove, NoHubFacts DEF removeBroadcast

\* Claims.
LEMMA ClaimMoves ==
    ASSUME HInv, NEW s \in Sessions, NEW i \in IDs,
           \/ StartPublish(s, i) \/ ResumePublish(s, i)
           \/ EdgePublish(s, i) \/ TakeOverPublish(s, i)
    PROVE  \A j \in IDs : Kept(j) \/ Claimed(j)
  <1>t. TypeOK
    BY DEF HInv
  <1>b. hubs[i] \in Hubs
    BY <1>t DEF TypeOK
  <1>n. newHub(i) \in Hubs /\ newHub(i).obj = created[i] + 1
    BY <1>t, NewHubFacts
  <1>c. ASSUME NEW b \in Hubs, NEW edge \in BOOLEAN, Claim(s, i, b, edge),
               b = newHub(i) \/ (Known(i) /\ b = hubs[i])
        PROVE  \A j \in IDs : Kept(j) \/ Claimed(j)
    <2> DEFINE c == claimed(b, s, edge)
    <2>1. c.obj = b.obj /\ c.gen = b.gen + 1 /\ c.grace = FALSE
      BY <1>c, ClaimedFacts, Zenon
    <2>2. hubs' = [hubs EXCEPT ![i] = c] /\ created' = [created EXCEPT ![i] = b.obj]
      BY <1>c, Zenon DEF Claim
    <2> HIDE DEF c
    <2>3. /\ hubs'[i] = c /\ created'[i] = b.obj
          /\ \A j \in IDs \ {i} : hubs'[j] = hubs[j] /\ created'[j] = created[j]
      BY <1>t, <2>2 DEF TypeOK
    <2>4. \A j \in IDs \ {i} : Kept(j)
      BY <2>3 DEF Kept
    <2>5. Claimed(i)
      BY <1>c, <1>n, <2>1, <2>3 DEF Claimed
    <2> QED
      BY <2>4, <2>5
  <1>f. ASSUME NEW b \in Hubs, Claim(s, i, b, FALSE) \/ Claim(s, i, b, TRUE),
               b = newHub(i) \/ (Known(i) /\ b = hubs[i])
        PROVE  \A j \in IDs : Kept(j) \/ Claimed(j)
    BY <1>f, <1>c, Zenon
  <1>1. CASE StartPublish(s, i)
    BY <1>1, <1>n, <1>f DEF StartPublish
  <1>2. CASE ResumePublish(s, i)
    <2>1. CASE Known(i)
      BY <1>2, <1>b, <1>f, <2>1 DEF ResumePublish
    <2>2. CASE ~Known(i)
      BY <1>2, <1>n, <1>f, <2>2 DEF ResumePublish
    <2> QED
      BY <2>1, <2>2
  <1>3. CASE EdgePublish(s, i)
    <2>1. CASE Known(i)
      BY <1>3, <1>b, <1>f, <2>1 DEF EdgePublish
    <2>2. CASE ~Known(i)
      BY <1>3, <1>n, <1>f, <2>2 DEF EdgePublish
    <2> QED
      BY <2>1, <2>2
  <1>4. CASE TakeOverPublish(s, i)
    BY <1>4, <1>b, <1>f DEF TakeOverPublish
  <1> QED
    BY <1>1, <1>2, <1>3, <1>4

\* Closing a publisher frees the slot it is in, if it still is.
LEMMA CloseMoves ==
    ASSUME HInv, NEW s \in Sessions, closePublisher(s), created' = created
    PROVE  Moves
  <1>1. CASE pubs[s].closed
    BY <1>1, NoMove DEF closePublisher
  <1>2. CASE ~pubs[s].closed
    <2> DEFINE i == pubs[s].id
    <2>1. i \in IDs /\ hubs[i].pub = s
      BY <1>2, HandleFacts DEF HInv, SlotOwnedByHandle
    <2>2. hubs[i] \in Hubs /\ publisherActive(i)
      BY <2>1, NamesAssumption DEF HInv, TypeOK, publisherActive
    <2>3. hubs' = [hubs EXCEPT ![i] = slotFreed(hubs[i])]
      BY <1>2 DEF closePublisher
    <2> HIDE DEF i
    <2> QED
      BY <2>1, <2>2, <2>3, SlotFreedFacts, OneMove
  <1> QED
    BY <1>1, <1>2

\* Every step is made of moves.
LEMMA StepMoves ==
    ASSUME HInv, [Next]_vars
    PROVE  Moves /\ TimersFrom
  <1>t. TypeOK
    BY DEF HInv
  <1>n. ASSUME firing' \subseteq firing PROVE TimersFrom
    BY <1>n DEF TimersFrom
  <1>1. CASE Publish
    <2>1. firing' = firing
      BY <1>1 DEF Publish, StartPublish, ResumePublish, EdgePublish, TakeOverPublish
    <2> QED
      BY <1>1, <1>n, <2>1, ClaimMoves DEF Publish, Moves
  <1>2. ASSUME NEW s \in Sessions, onKeyframe(s) PROVE Moves /\ TimersFrom
    <2> DEFINE i == pubs[s].id
               b == [hubs[i] EXCEPT !.kf = pubs[s].gen]
    <2>1. UNCHANGED <<created, firing>> /\ hubs' = [hubs EXCEPT ![i] = b]
      BY <1>2 DEF onKeyframe
    <2>2. i \in IDs /\ pubs[s].gen \in Nat
      BY <1>t, <1>2, HandleFacts DEF onKeyframe, Handles
    <2>3. hubs[i] \in Hubs
      BY <1>t, <2>2 DEF TypeOK
    <2>4. /\ b \in Hubs /\ b.obj = hubs[i].obj /\ b.gen = hubs[i].gen
          /\ b.pub = hubs[i].pub /\ b.grace = hubs[i].grace
      BY <2>2, <2>3 DEF Hubs
    <2> HIDE DEF i, b
    <2> QED
      BY <1>n, <2>1, <2>2, <2>4, OneMove
  <1>3. ASSUME NEW s \in Sessions, Close(s) \/ StopClose(s) PROVE Moves /\ TimersFrom
    BY <1>3, <1>n, CloseMoves DEF Close, StopClose
  <1>4. ASSUME NEW s \in Sessions, BindConn(s) \/ FallsSilent(s) \/ NoteSeen(s)
        PROVE  Moves /\ TimersFrom
    BY <1>4, <1>n, NoMove DEF BindConn, FallsSilent, NoteSeen
  <1>5. ASSUME NEW s \in Sessions, StopRemove(s) PROVE Moves /\ TimersFrom
    <2>1. pubs[s].id \in IDs
      BY <1>5, <1>t, HandleFacts DEF StopRemove
    <2> QED
      BY <1>5, <1>n, <2>1, RemoveMoves, NoMove DEF StopRemove
  <1>6. ASSUME NEW i \in IDs, GraceTimerFires(i) PROVE Moves /\ TimersFrom
    <2> DEFINE b == [hubs[i] EXCEPT !.grace = FALSE]
    <2>1. /\ hubs[i].grace /\ hubs' = [hubs EXCEPT ![i] = b]
          /\ firing' = firing \cup {[id |-> i, obj |-> hubs[i].obj, gen |-> hubs[i].gen]}
          /\ created' = created
      BY <1>6 DEF GraceTimerFires
    <2>2. hubs[i] \in Hubs
      BY <1>t DEF TypeOK
    <2>3. /\ b \in Hubs /\ b.obj = hubs[i].obj /\ b.gen = hubs[i].gen
          /\ b.pub = hubs[i].pub /\ b.grace = FALSE
      BY <2>2 DEF Hubs
    <2> HIDE DEF b
    <2>4. hubs'[i] = b
      BY <1>t, <2>1 DEF TypeOK
    <2>5. Fired(i)
      BY <2>1, <2>3, <2>4 DEF Fired
    <2>6. TimersFrom
      BY <2>1, <2>5 DEF TimersFrom
    <2>7. Moves
      BY <2>1, <2>3, OneMove
    <2> QED
      BY <2>6, <2>7
  <1>7. ASSUME NEW i \in IDs,
               EndBroadcast(i) \/ ExpireEdgeIfViewerless(i) \/ TerminateBroadcast(i)
        PROVE  Moves /\ TimersFrom
    BY <1>7, <1>n, RemoveMoves
       DEF EndBroadcast, ExpireEdgeIfViewerless, TerminateBroadcast, Terminated
  <1>8. ASSUME NEW i \in IDs, InvalidatePrimes(i) PROVE Moves /\ TimersFrom
    <2> DEFINE b == [hubs[i] EXCEPT !.kf = 0]
    <2>1. UNCHANGED <<created, firing>> /\ hubs' = [hubs EXCEPT ![i] = b]
      BY <1>8 DEF InvalidatePrimes
    <2>2. hubs[i] \in Hubs
      BY <1>t DEF TypeOK
    <2>3. /\ b \in Hubs /\ b.obj = hubs[i].obj /\ b.gen = hubs[i].gen
          /\ b.pub = hubs[i].pub /\ b.grace = hubs[i].grace
      BY <2>2 DEF Hubs
    <2> HIDE DEF b
    <2> QED
      BY <1>n, <2>1, <2>3, OneMove
  <1>9. ASSUME NEW f \in firing, handleGraceExpiry(f) PROVE Moves /\ TimersFrom
    <2>1. f.id \in IDs
      BY <1>t DEF TypeOK
    <2> QED
      BY <1>9, <1>n, <2>1, RemoveMoves, NoMove DEF handleGraceExpiry
  <1>10. ASSUME SweepStalledPublishers PROVE Moves /\ TimersFrom
    BY <1>10, <1>n, NoMove DEF SweepStalledPublishers
  <1>11. ASSUME NEW k \in kicks, KickStalled(k) PROVE Moves /\ TimersFrom
    <2>1. k.id \in IDs
      BY <1>t DEF TypeOK
    <2> QED
      BY <1>11, <1>n, <2>1, RemoveMoves, NoMove DEF KickStalled, Terminated
  <1>12. CASE Watch \/ UNCHANGED vars
    <2>1. UNCHANGED <<hubs, created, firing>>
      BY <1>12 DEF Watch, Subscribe, Unsubscribe, CloseInternalSubscribers, vars
    <2> QED
      BY <1>n, <2>1, NoMove
  <1>13. CASE Session
    BY <1>13, <1>2, <1>3, <1>4, <1>5 DEF Session
  <1>14. CASE Expiry
    BY <1>14, <1>6, <1>7, <1>8, <1>9, <1>10, <1>11 DEF Expiry
  <1> QED
    BY <1>1, <1>12, <1>13, <1>14 DEF Next

--------------------------------------------------------------------------------
(* Timers and stops *)

TInv == HInv /\ TimersPast

\* The registry's invariant, and with it that every timer that fired was armed
\* for a grace the hub has begun already, hold throughout.
THEOREM TInvHolds == Spec => []TInv
  <1>1. Init => TInv
    <2> SUFFICES ASSUME Init PROVE TimersPast
      BY HInvInit DEF TInv
    <2> QED
      BY NoHubFacts DEF Init, TimersPast
  <1>2. TInv /\ [Next]_vars => TInv'
    BY HInvStep, StepMoves, MovesKeepTimers DEF TInv
  <1> QED
    BY <1>1, <1>2, PTL DEF Spec

\* Only handleGraceExpiry takes a fired timer off.
LEMMA TimerHandled ==
    ASSUME HInv, Next, NEW f \in firing, f \notin firing'
    PROVE  handleGraceExpiry(f)
  <1>1. CASE Publish
    BY <1>1 DEF Publish, StartPublish, ResumePublish, EdgePublish, TakeOverPublish
  <1>2. CASE Session
    BY <1>2 DEF Session, BindConn, onKeyframe, Close, StopClose, StopRemove,
                FallsSilent, NoteSeen
  <1>3. CASE Watch
    BY <1>3 DEF Watch, Subscribe, Unsubscribe, CloseInternalSubscribers
  <1>4. CASE Expiry
    BY <1>4 DEF Expiry, GraceTimerFires, EndBroadcast, ExpireEdgeIfViewerless,
                TerminateBroadcast, InvalidatePrimes, SweepStalledPublishers,
                KickStalled, handleGraceExpiry
  <1> QED
    BY <1>1, <1>2, <1>3, <1>4 DEF Next

\* No timer takes a broadcast away while a later grace of the same hub is running,
\* however long it waited for the registry's lock.
THEOREM ReclaimsGetFullGrace == Spec => ReclaimGetsFullGrace
  <1> DEFINE A == \A f \in firing :
                    f \notin firing' /\ Removed(f.id) /\ hubs[f.id].obj = f.obj
                        => ~hubs[f.id].grace
  <1>1. ASSUME TInv, [Next]_vars PROVE [A]_vars
    <2> SUFFICES ASSUME Next, NEW f \in firing, f \notin firing', Removed(f.id),
                        hubs[f.id].obj = f.obj
                 PROVE  ~hubs[f.id].grace
      BY <1>1
    <2>1. handleGraceExpiry(f)
      BY <1>1, TimerHandled DEF TInv
    <2>2. CASE StillThatGrace(f)
      BY <1>1, <2>2 DEF StillThatGrace, TInv, TimersPast
    <2>3. CASE ~StillThatGrace(f)
      <3>1. hubs'[f.id] = hubs[f.id]
        BY <2>1, <2>3 DEF handleGraceExpiry
      <3> QED
        BY <3>1, NoHubFacts DEF Removed, Known
    <2> QED
      BY <2>2, <2>3
  <1> QED
    BY <1>1, TInvHolds, PTL DEF Spec, ReclaimGetsFullGrace

\* A session between the halves of Stop ends by the second half only.
LEMMA StopEndsItself ==
    ASSUME HInv, Next, NEW s \in Sessions, pubs[s].stopping, pubs'[s] = NoHandle
    PROVE  StopRemove(s)
  <1>t. /\ TypeOK /\ pubs \in [Sessions -> Handles \cup {NoHandle}]
        /\ pubs[s].closed /\ ~Idle(s) /\ pubs[s] # NoHandle
    BY HandleFacts DEF HInv, TypeOK, PlainParts
  <1>k. ASSUME pubs'[s] = pubs[s] PROVE FALSE
    BY <1>t, <1>k
  <1>d. ASSUME NEW i \in IDs, s = hubs[i].pub PROVE FALSE
    <2>1. publisherActive(i)
      BY <1>d, NamesAssumption DEF publisherActive
    <2> QED
      BY <1>d, <1>t, <2>1, SlotFacts
  <1>1. CASE Publish
    <2>1. ASSUME NEW t \in Sessions, NEW i \in IDs, NEW h, Idle(t),
                 pubs' = [pubs EXCEPT ![t] = h]
          PROVE  FALSE
      BY <1>k, <1>t, <2>1
    <2>2. ASSUME NEW t \in Sessions, NEW i \in IDs, TakeOverPublish(t, i)
          PROVE  FALSE
      BY <1>k, <1>t, <1>d, <2>2 DEF TakeOverPublish
    <2> QED
      BY <1>1, <2>1, <2>2 DEF Publish, StartPublish, ResumePublish, EdgePublish
  <1>2. CASE Session
    <2>1. ASSUME NEW t \in Sessions, t # s, NEW h, pubs' = [pubs EXCEPT ![t] = h]
          PROVE  FALSE
      BY <1>k, <1>t, <2>1
    <2>2. ASSUME NEW t \in Sessions, BindConn(t) PROVE FALSE
      BY <1>k, <1>t, <2>2 DEF BindConn, Finish
    <2>3. ASSUME NEW t \in Sessions, onKeyframe(t) PROVE FALSE
      BY <1>k, <2>3 DEF onKeyframe
    <2>4. ASSUME NEW t \in Sessions, Close(t) PROVE FALSE
      BY <2>1, <2>4 DEF Close, Finish
    <2>5. ASSUME NEW t \in Sessions, StopClose(t) PROVE FALSE
      BY <1>k, <1>t, <2>5 DEF StopClose
    <2>6. ASSUME NEW t \in Sessions, StopRemove(t) PROVE t = s
      BY <2>1, <2>6 DEF StopRemove, Finish
    <2>7. ASSUME NEW t \in Sessions, FallsSilent(t) PROVE FALSE
      BY <1>k, <1>t, <2>7 DEF FallsSilent
    <2>8. ASSUME NEW t \in Sessions, NoteSeen(t) PROVE FALSE
      <3>1. CASE t # s
        BY <1>k, <1>t, <2>8, <3>1 DEF NoteSeen
      <3>2. CASE t = s
        <4>1. pubs[s] \in Handles
          BY <1>t
        <4>2. pubs'[s] = [pubs[s] EXCEPT !.silent = FALSE]
          BY <1>t, <2>8, <3>2 DEF NoteSeen
        <4>3. pubs'[s].stopping = pubs[s].stopping
          BY <4>1, <4>2 DEF Handles
        <4> QED
          BY <4>3, NoHandleFacts
      <3> QED
        BY <3>1, <3>2
    <2> QED
      BY <1>2, <2>2, <2>3, <2>4, <2>5, <2>6, <2>7, <2>8 DEF Session
  <1>3. CASE Watch
    BY <1>3, <1>k DEF Watch, Subscribe, Unsubscribe, CloseInternalSubscribers
  <1>4. CASE Expiry
    <2>1. ASSUME NEW i \in IDs, Terminated(i) PROVE FALSE
      BY <1>k, <1>d, <2>1 DEF Terminated
    <2>2. ASSUME NEW k \in kicks, KickStalled(k) PROVE FALSE
      <3>1. k.id \in IDs
        BY <1>t DEF TypeOK
      <3> QED
        BY <1>k, <2>1, <2>2, <3>1 DEF KickStalled
    <2> QED
      BY <1>4, <1>k, <2>1, <2>2
         DEF Expiry, GraceTimerFires, EndBroadcast, ExpireEdgeIfViewerless,
             TerminateBroadcast, InvalidatePrimes, SweepStalledPublishers,
             handleGraceExpiry
  <1> QED
    BY <1>1, <1>2, <1>3, <1>4 DEF Next

\* A Stop that is read late ends nothing another session has claimed since.
THEOREM StopsSpareSuccessors == Spec => StopSparesSuccessor
  <1> DEFINE A == \A s \in Sessions :
                    pubs[s].stopping /\ pubs'[s] = NoHandle /\ Removed(pubs[s].id)
                        => /\ hubs[pubs[s].id].obj = pubs[s].obj
                           /\ hubs[pubs[s].id].gen = pubs[s].gen
  <1>1. ASSUME HInv, [Next]_vars PROVE [A]_vars
    <2> SUFFICES ASSUME Next, NEW s \in Sessions, pubs[s].stopping,
                        pubs'[s] = NoHandle, Removed(pubs[s].id)
                 PROVE  /\ hubs[pubs[s].id].obj = pubs[s].obj
                        /\ hubs[pubs[s].id].gen = pubs[s].gen
      BY <1>1
    <2>1. StopRemove(s)
      BY <1>1, StopEndsItself
    <2>2. CASE StillMine(s)
      BY <2>2 DEF StillMine
    <2>3. CASE ~StillMine(s)
      <3>1. hubs' = hubs
        BY <2>1, <2>3 DEF StopRemove
      <3> QED
        BY <3>1, NoHubFacts DEF Removed, Known
    <2> QED
      BY <2>2, <2>3
  <1> QED
    BY <1>1, HInvHolds, PTL DEF Spec, StopSparesSuccessor

--------------------------------------------------------------------------------
(* Viewers *)

\* Sets of viewers are finite, and a subset of one has no more elements.
LEMMA ViewerSets ==
    ASSUME NEW S \in SUBSET Viewers, NEW T \in SUBSET S
    PROVE  /\ IsFiniteSet(S) /\ IsFiniteSet(T)
           /\ Cardinality(S) \in Nat /\ Cardinality(T) \in Nat
           /\ Cardinality(T) <= Cardinality(S)
  <1>1. IsFiniteSet(S)
    BY ViewersAssumption, FS_Subset
  <1>2. IsFiniteSet(T) /\ Cardinality(T) <= Cardinality(S)
    BY <1>1, FS_Subset
  <1> QED
    BY <1>1, <1>2, FS_CardinalityType

\* Nobody new is counted: no cap is exceeded that was not before.
LEMMA FewerViewers ==
    ASSUME ViewersAccounted,
           \A i \in IDs : External(i)' \subseteq External(i),
           \A v \in Viewers, i \in IDs : On(v, i)' => Known(i)'
    PROVE  ViewersAccounted'
  <1>1. ASSUME NEW i \in IDs PROVE Cardinality(External(i)') <= MaxSubscribers
    <2>1. External(i) \in SUBSET Viewers /\ External(i)' \in SUBSET External(i)
      BY DEF External
    <2>2. /\ Cardinality(External(i)') <= Cardinality(External(i))
          /\ Cardinality(External(i)) \in Nat /\ Cardinality(External(i)') \in Nat
      BY <2>1, ViewerSets
    <2>3. Cardinality(External(i)) <= MaxSubscribers
      BY DEF ViewersAccounted
    <2> QED
      BY <2>2, <2>3, LimitAssumption
  <1>2. Cardinality(AllExternal') <= MaxTotalSubscribers
    <2>1. AllExternal \in SUBSET Viewers /\ AllExternal' \in SUBSET AllExternal
      BY DEF AllExternal, External
    <2>2. /\ Cardinality(AllExternal') <= Cardinality(AllExternal)
          /\ Cardinality(AllExternal) \in Nat /\ Cardinality(AllExternal') \in Nat
      BY <2>1, ViewerSets
    <2>3. Cardinality(AllExternal) <= MaxTotalSubscribers
      BY DEF ViewersAccounted
    <2> QED
      BY <2>2, <2>3, LimitAssumption
  <1> QED
    BY <1>1, <1>2 DEF ViewersAccounted

\* Subscriptions as they were, or fewer.
LEMMA LeavingIsFewer ==
    ASSUME HInv, NEW S, subs' = Unsubscribed(S)
    PROVE  /\ \A i \in IDs : External(i)' \subseteq External(i)
           /\ \A v \in Viewers, i \in IDs : On(v, i)' => On(v, i) /\ v \notin S
  <1>1. \A v \in Viewers : subs'[v] = IF v \in S THEN NotSubscribed ELSE subs[v]
    BY DEF Unsubscribed
  <1>2. NotSubscribed.id \notin IDs
    BY NamesAssumption DEF NotSubscribed
  <1> QED
    BY <1>1, <1>2 DEF External, On

\* A removal takes its viewers along.
LEMMA RemoveViewers ==
    ASSUME HInv, ViewersAccounted, NEW i \in IDs, removeBroadcast(i)
    PROVE  ViewersAccounted'
  <1>1. \A j \in IDs \ {i} : hubs'[j] = hubs[j]
    BY DEF removeBroadcast, HInv, TypeOK
  <1>2. subs' = Unsubscribed({v \in Viewers : On(v, i)})
    BY DEF removeBroadcast
  <1>3. /\ \A j \in IDs : External(j)' \subseteq External(j)
        /\ \A v \in Viewers, j \in IDs :
              On(v, j)' => On(v, j) /\ v \notin {w \in Viewers : On(w, i)}
    BY <1>2, LeavingIsFewer
  <1>4. \A v \in Viewers, j \in IDs : On(v, j)' => Known(j)'
    BY <1>1, <1>3 DEF ViewersAccounted, Known
  <1> QED
    BY <1>3, <1>4, FewerViewers

\* Nobody's subscription changes and no hub goes.
LEMMA SameViewers ==
    ASSUME ViewersAccounted, subs' = subs, \A i \in IDs : Known(i) => Known(i)'
    PROVE  ViewersAccounted'
  <1>1. \A i \in IDs : External(i)' = External(i)
    BY DEF External, On
  <1>2. \A v \in Viewers, i \in IDs : On(v, i)' => Known(i)'
    BY DEF ViewersAccounted, On
  <1> QED
    BY <1>1, <1>2, FewerViewers

\* One hub changes and stays.
LEMMA HubStays ==
    ASSUME HInv, NEW i \in IDs, NEW b, hubs' = [hubs EXCEPT ![i] = b],
           b.obj = hubs[i].obj
    PROVE  \A j \in IDs : Known(j) => Known(j)'
  BY DEF HInv, TypeOK, Known

\* A viewer is let in.
LEMMA SubscribeKeeps ==
    ASSUME HInv, ViewersAccounted, NEW v \in Viewers, NEW i \in IDs,
           NEW internal \in BOOLEAN, Subscribe(v, i, internal)
    PROVE  ViewersAccounted'
  <1>1. /\ subs[v] = NotSubscribed /\ Known(i) /\ HasRoom(i, internal)
        /\ subs' = [subs EXCEPT ![v] = [id |-> i, internal |-> internal]]
        /\ hubs' = hubs
    BY DEF Subscribe
  <1>2. /\ subs'[v].id = i /\ subs'[v].internal = internal
        /\ \A w \in Viewers \ {v} : subs'[w] = subs[w]
    BY <1>1 DEF HInv, TypeOK
  <1>n. NotSubscribed.id \notin IDs
    BY NamesAssumption DEF NotSubscribed
  <1>3. \A w \in Viewers, j \in IDs : On(w, j)' => Known(j)'
    BY <1>1, <1>2 DEF ViewersAccounted, On, Known
  <1>4. CASE internal
    <2>1. \A j \in IDs : External(j)' \subseteq External(j)
      BY <1>2, <1>4 DEF External, On
    <2> QED
      BY <1>3, <2>1, FewerViewers
  <1>5. CASE ~internal
    <2>1. /\ External(i)' = External(i) \cup {v}
          /\ \A j \in IDs \ {i} : External(j)' = External(j)
      BY <1>1, <1>2, <1>n, <1>5 DEF External, On
    <2>2. AllExternal' = AllExternal \cup {v}
      BY <2>1 DEF AllExternal
    <2>3. /\ Cardinality(External(i)) < MaxSubscribers
          /\ Cardinality(AllExternal) < MaxTotalSubscribers
      BY <1>1, <1>5 DEF HasRoom
    <2>4. v \notin External(i) /\ v \notin AllExternal
      BY <1>1, <1>n DEF AllExternal, External, On
    <2>5. /\ External(i) \in SUBSET Viewers /\ AllExternal \in SUBSET Viewers
      BY DEF AllExternal, External
    <2>6. /\ IsFiniteSet(External(i)) /\ IsFiniteSet(AllExternal)
          /\ Cardinality(External(i)) \in Nat /\ Cardinality(AllExternal) \in Nat
      BY <2>5, ViewerSets
    <2>7. /\ Cardinality(External(i)') = Cardinality(External(i)) + 1
          /\ Cardinality(AllExternal') = Cardinality(AllExternal) + 1
      BY <2>1, <2>2, <2>4, <2>6, FS_AddElement
    <2>8. /\ Cardinality(External(i)') <= MaxSubscribers
          /\ Cardinality(AllExternal') <= MaxTotalSubscribers
      BY <2>3, <2>6, <2>7, LimitAssumption
    <2>9. \A j \in IDs : Cardinality(External(j)') <= MaxSubscribers
      BY <2>1, <2>8 DEF ViewersAccounted
    <2> QED
      BY <1>3, <2>8, <2>9 DEF ViewersAccounted
  <1> QED
    BY <1>4, <1>5

\* Every step keeps the viewers accounted for.
LEMMA ViewersStep ==
    ASSUME HInv, ViewersAccounted, [Next]_vars
    PROVE  ViewersAccounted'
  <1>t. TypeOK
    BY DEF HInv
  <1>h. ASSUME hubs' = hubs, subs' = subs PROVE ViewersAccounted'
    BY <1>h, SameViewers DEF Known
  <1>1. ASSUME NEW s \in Sessions, NEW i \in IDs,
               \/ StartPublish(s, i) \/ ResumePublish(s, i)
               \/ EdgePublish(s, i) \/ TakeOverPublish(s, i)
        PROVE  ViewersAccounted'
    <2>1. \A j \in IDs : Kept(j) \/ Claimed(j)
      BY <1>1, ClaimMoves
    <2>2. ASSUME NEW j \in IDs, Known(j) PROVE Known(j)'
      <3>1. created[j] \in Nat
        BY <1>t DEF TypeOK
      <3> QED
        BY <2>1, <2>2, <3>1 DEF Kept, Claimed, Known
    <2>3. subs' = subs
      BY <1>1 DEF StartPublish, ResumePublish, EdgePublish, TakeOverPublish
    <2> QED
      BY <2>2, <2>3, SameViewers
  <1>2. ASSUME NEW s \in Sessions, onKeyframe(s) PROVE ViewersAccounted'
    <2> DEFINE i == pubs[s].id
               b == [hubs[i] EXCEPT !.kf = pubs[s].gen]
    <2>1. subs' = subs /\ hubs' = [hubs EXCEPT ![i] = b]
      BY <1>2 DEF onKeyframe
    <2>2. i \in IDs
      BY <1>t, <1>2, HandleFacts DEF onKeyframe
    <2>3. b.obj = hubs[i].obj
      BY <1>t, <2>2 DEF TypeOK, Hubs
    <2> HIDE DEF i, b
    <2> QED
      BY <2>1, <2>2, <2>3, HubStays, SameViewers
  <1>3. ASSUME NEW s \in Sessions, Close(s) \/ StopClose(s) PROVE ViewersAccounted'
    <2>1. subs' = subs /\ closePublisher(s)
      BY <1>3 DEF Close, StopClose
    <2>2. CASE pubs[s].closed
      BY <1>h, <2>1, <2>2 DEF closePublisher
    <2>3. CASE ~pubs[s].closed
      <3>1. pubs[s].id \in IDs
        BY <1>t, <2>3, HandleFacts
      <3>2. hubs' = [hubs EXCEPT ![pubs[s].id] = slotFreed(hubs[pubs[s].id])]
        BY <2>1, <2>3 DEF closePublisher
      <3>3. slotFreed(hubs[pubs[s].id]).obj = hubs[pubs[s].id].obj
        BY <1>t, <3>1, SlotFreedFacts DEF TypeOK
      <3> QED
        BY <2>1, <3>1, <3>2, <3>3, HubStays, SameViewers
    <2> QED
      BY <2>2, <2>3
  <1>4. ASSUME NEW s \in Sessions, BindConn(s) \/ FallsSilent(s) \/ NoteSeen(s)
        PROVE  ViewersAccounted'
    BY <1>4, <1>h DEF BindConn, FallsSilent, NoteSeen
  <1>5. ASSUME NEW s \in Sessions, StopRemove(s) PROVE ViewersAccounted'
    <2>1. pubs[s].id \in IDs
      BY <1>5, <1>t, HandleFacts DEF StopRemove
    <2> QED
      BY <1>5, <1>h, <2>1, RemoveViewers DEF StopRemove
  <1>6. ASSUME NEW i \in IDs, GraceTimerFires(i) \/ InvalidatePrimes(i)
        PROVE  ViewersAccounted'
    <2>1. PICK b : b.obj = hubs[i].obj /\ hubs' = [hubs EXCEPT ![i] = b]
      <3>1. /\ [hubs[i] EXCEPT !.grace = FALSE].obj = hubs[i].obj
            /\ [hubs[i] EXCEPT !.kf = 0].obj = hubs[i].obj
        BY <1>t DEF TypeOK, Hubs
      <3> QED
        BY <1>6, <3>1 DEF GraceTimerFires, InvalidatePrimes
    <2>2. subs' = subs
      BY <1>6 DEF GraceTimerFires, InvalidatePrimes
    <2> QED
      BY <2>1, <2>2, HubStays, SameViewers
  <1>7. ASSUME NEW i \in IDs,
               EndBroadcast(i) \/ ExpireEdgeIfViewerless(i) \/ TerminateBroadcast(i)
        PROVE  ViewersAccounted'
    BY <1>7, RemoveViewers
       DEF EndBroadcast, ExpireEdgeIfViewerless, TerminateBroadcast, Terminated
  <1>8. ASSUME NEW f \in firing, handleGraceExpiry(f) PROVE ViewersAccounted'
    <2>1. f.id \in IDs
      BY <1>t DEF TypeOK
    <2> QED
      BY <1>8, <1>h, <2>1, RemoveViewers DEF handleGraceExpiry
  <1>9. ASSUME SweepStalledPublishers PROVE ViewersAccounted'
    BY <1>9, <1>h DEF SweepStalledPublishers
  <1>10. ASSUME NEW k \in kicks, KickStalled(k) PROVE ViewersAccounted'
    <2>1. k.id \in IDs
      BY <1>t DEF TypeOK
    <2> QED
      BY <1>10, <1>h, <2>1, RemoveViewers DEF KickStalled, Terminated
  <1>11. ASSUME NEW S, subs' = Unsubscribed(S), hubs' = hubs PROVE ViewersAccounted'
    <2>1. /\ \A i \in IDs : External(i)' \subseteq External(i)
          /\ \A v \in Viewers, i \in IDs : On(v, i)' => On(v, i) /\ v \notin S
      BY <1>11, LeavingIsFewer
    <2>2. \A v \in Viewers, i \in IDs : On(v, i)' => Known(i)'
      BY <1>11, <2>1 DEF ViewersAccounted, Known
    <2> QED
      BY <2>1, <2>2, FewerViewers
  <1>12. CASE Watch
    <2>1. CASE \E v \in Viewers, i \in IDs, internal \in BOOLEAN : Subscribe(v, i, internal)
      BY <2>1, SubscribeKeeps
    <2>2. CASE \E v \in Viewers : Unsubscribe(v)
      BY <2>2, <1>11 DEF Unsubscribe
    <2>3. CASE \E i \in IDs : CloseInternalSubscribers(i)
      BY <2>3, <1>11 DEF CloseInternalSubscribers
    <2> QED
      BY <1>12, <2>1, <2>2, <2>3 DEF Watch
  <1>13. CASE UNCHANGED vars
    BY <1>13, <1>h DEF vars
  <1>14. CASE Session
    BY <1>14, <1>2, <1>3, <1>4, <1>5 DEF Session
  <1>15. CASE Expiry
    BY <1>15, <1>6, <1>7, <1>8, <1>9, <1>10 DEF Expiry
  <1>16. CASE Publish
    BY <1>16, <1>1 DEF Publish
  <1> QED
    BY <1>12, <1>13, <1>14, <1>15, <1>16 DEF Next

\* Nobody watches a broadcast the relay does not know, and neither viewer cap is
\* ever exceeded.
THEOREM ViewersAlwaysAccounted == Spec => []ViewersAccounted
  <1>1. Init => ViewersAccounted
    <2> SUFFICES ASSUME Init PROVE ViewersAccounted
      OBVIOUS
    <2>n. NotSubscribed.id \notin IDs
      BY NamesAssumption DEF NotSubscribed
    <2>1. \A v \in Viewers, i \in IDs : ~On(v, i)
      BY <2>n DEF Init, On
    <2>2. (\A i \in IDs : External(i) = {}) /\ AllExternal = {}
      BY <2>1 DEF AllExternal, External
    <2>3. Cardinality({}) = 0
      BY FS_EmptySet
    <2> QED
      BY <2>1, <2>2, <2>3, LimitAssumption DEF ViewersAccounted
  <1>2. HInv /\ ViewersAccounted /\ [Next]_vars => ViewersAccounted'
    BY ViewersStep
  <1> QED
    BY <1>1, <1>2, HInvHolds, PTL DEF Spec

==============================================================================
