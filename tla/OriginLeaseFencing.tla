-------------------------- MODULE OriginLeaseFencing --------------------------
(***************************************************************************)
(* Proof that the generation of a Lease is a fencing token, that handovers *)
(* bump it, that a Lease disappears only by the rules, that reservations   *)
(* are respected, and that the protocol implements the atomic Lease.       *)
(*                                                                         *)
(* GenerationsUnique is not inductive.  It is strengthened by Fenced:      *)
(* every claim granted on the object that exists now has a generation no   *)
(* higher than the object's, and no claim is of an object yet to come.  A  *)
(* new claim then gets a generation, or an object, that nobody has.        *)
(*                                                                         *)
(* ReservationRespected rests on Fenced too (an answer for an object that  *)
(* was deleted never counts for the next one of that name) and on PopsFit: *)
(* only a claim that named no PoP goes on to create the Lease.             *)
(*                                                                         *)
(* The refinement maps the write of a call to the atomic call: what its    *)
(* read decided still stands when the write is let through, and that is    *)
(* the guard of the atomic call.  Everything else is a stutter.            *)
(***************************************************************************)
EXTENDS OriginLeaseProofs, OriginLeaseRefinement

Fenced ==
    \A i \in IDs : \A t \in Granted(i) :
        /\ t.born <= born[i]
        /\ t.born = born[i] /\ Exists(lease[i]) => t.gen <= lease[i].gen

FInv == Fenced /\ GenerationsUnique

Token(c) == [pod |-> c.pod, gen |-> c.gen, born |-> c.born]

--------------------------------------------------------------------------------
(* Granted claims *)

\* What a member of Granted(i) is.
LEMMA GrantedMember ==
    ASSUME NEW i \in IDs, NEW t
    PROVE  t \in Granted(i) <=>
             \/ \E p \in Pods : /\ held[p][i] # NotHeld
                                /\ t = [pod |-> p, gen |-> held[p][i].gen,
                                        born |-> held[p][i].born]
             \/ \E c \in calls : c.id = i /\ c.phase = "start" /\ t = Token(c)
  BY DEF Granted, Token

\* The same after a step.
LEMMA GrantedMemberNext ==
    ASSUME NEW i \in IDs, NEW t
    PROVE  t \in Granted(i)' <=>
             \/ \E p \in Pods : /\ held'[p][i] # NotHeld
                                /\ t = [pod |-> p, gen |-> held'[p][i].gen,
                                        born |-> held'[p][i].born]
             \/ \E c \in calls' : c.id = i /\ c.phase = "start" /\ t = Token(c)
  BY DEF Granted, Token

\* Its generation and object are numbers.
LEMMA GrantedType ==
    ASSUME TypeOK, NEW i \in IDs, NEW t \in Granted(i)
    PROVE  t.gen \in Nat /\ t.born \in Nat
  BY GrantedMember DEF TypeOK, Claims, Calls, Token

\* e is c with at most its read outdated: the same answer on its way back.
Same(e, c) ==
    /\ e.id = c.id /\ e.phase = c.phase /\ e.op = c.op
    /\ e.pod = c.pod /\ e.pop = c.pop /\ e.gen = c.gen /\ e.born = c.born

\* Every answer on its way after the step was on its way before it.
StartsKept == \A d \in calls' : d.phase = "start" => \E c \in calls : Same(d, c)

\* No held claim is new.
HeldKept ==
    \A p \in Pods, i \in IDs : held'[p][i] = NotHeld \/ held'[p][i] = held[p][i]

\* A step that grants nothing adds no granted claim.
LEMMA NothingGranted ==
    ASSUME StartsKept, HeldKept, NEW i \in IDs
    PROVE  Granted(i)' \subseteq Granted(i)
  <1> SUFFICES ASSUME NEW t \in Granted(i)'
               PROVE  t \in Granted(i)
    OBVIOUS
  <1>1. CASE \E p \in Pods : /\ held'[p][i] # NotHeld
                             /\ t = [pod |-> p, gen |-> held'[p][i].gen,
                                     born |-> held'[p][i].born]
    BY <1>1, GrantedMember DEF HeldKept
  <1>2. CASE \E c \in calls' : c.id = i /\ c.phase = "start" /\ t = Token(c)
    <2>1. PICK d \in calls' : d.id = i /\ d.phase = "start" /\ t = Token(d)
      BY <1>2
    <2>2. PICK c \in calls : Same(d, c)
      BY <2>1 DEF StartsKept
    <2>3. c.id = i /\ c.phase = "start" /\ t = Token(c)
      BY <2>1, <2>2 DEF Same, Token
    <2> QED
      BY <2>3, GrantedMember
  <1> QED
    BY <1>1, <1>2, GrantedMemberNext

\* Outdating a read changes nothing else about a call.
LEMMA OutdateSame ==
    ASSUME NEW S \in SUBSET Calls, NEW i, NEW d \in Outdate(S, i)
    PROVE  \E c \in S : Same(d, c)
  <1>1. PICK c \in S : d = IF c.id = i THEN [c EXCEPT !.fresh = FALSE] ELSE c
    BY DEF Outdate
  <1>2. Same(d, c)
    BY <1>1 DEF Same, Calls
  <1> QED
    BY <1>2

--------------------------------------------------------------------------------
(* What a step may do to a Lease and to its count of creations *)

\* Object i is as before, gone, new, or still there with its generation and PoP.
Quiet(i) ==
    \/ born'[i] = born[i] + 1
    \/ /\ born'[i] = born[i]
       /\ Exists(lease'[i]) => /\ Exists(lease[i])
                               /\ lease'[i].gen = lease[i].gen
                               /\ lease'[i].pop = lease[i].pop

\* A step that grants nothing and is quiet on every object keeps the fence.
LEMMA QuietKeepsFence ==
    ASSUME Inv, FInv, StartsKept, HeldKept, \A i \in IDs : Quiet(i)
    PROVE  FInv'
  <1> SUFFICES ASSUME NEW i \in IDs
               PROVE  /\ \A t \in Granted(i)' :
                            /\ t.born <= born'[i]
                            /\ t.born = born'[i] /\ Exists(lease'[i])
                                  => t.gen <= lease'[i].gen
                      /\ \A s, t \in Granted(i)' :
                            s.gen = t.gen /\ s.born = t.born => s.pod = t.pod
    BY DEF FInv, Fenced, GenerationsUnique
  <1>1. Granted(i)' \subseteq Granted(i)
    BY NothingGranted
  <1>2. \A s, t \in Granted(i)' : s.gen = t.gen /\ s.born = t.born => s.pod = t.pod
    BY <1>1 DEF FInv, GenerationsUnique
  <1>3. ASSUME NEW t \in Granted(i)'
        PROVE  /\ t.born <= born'[i]
               /\ t.born = born'[i] /\ Exists(lease'[i]) => t.gen <= lease'[i].gen
    <2>1. t \in Granted(i) /\ t.gen \in Nat /\ t.born \in Nat
      BY <1>1, GrantedType DEF Inv
    <2>2. /\ t.born <= born[i]
          /\ t.born = born[i] /\ Exists(lease[i]) => t.gen <= lease[i].gen
      BY <2>1 DEF FInv, Fenced
    <2>3. born[i] \in Nat
      BY DEF Inv, TypeOK
    <2> QED
      BY <2>1, <2>2, <2>3 DEF Quiet
  <1> QED
    BY <1>2, <1>3

\* A step that grants claim n on object i, whose generation or whose object is
\* new, keeps the fence.
LEMMA GrantKeepsFence ==
    ASSUME Inv, FInv, HeldKept, NEW i \in IDs, NEW n \in Calls,
           n.id = i,
           \A d \in calls' : d.phase = "start" => d = n \/ \E c \in calls : Same(d, c),
           n.born = born'[i], Exists(lease'[i]), lease'[i].gen = n.gen,
           \/ born'[i] = born[i] + 1
           \/ born'[i] = born[i] /\ Exists(lease[i]) /\ n.gen = lease[i].gen + 1,
           \A j \in IDs \ {i} : Quiet(j)
    PROVE  FInv'
  <1>0. ASSUME NEW j \in IDs, NEW t \in Granted(j)'
        PROVE  t \in Granted(j) \/ (j = i /\ t = Token(n))
    <2>1. CASE \E p \in Pods : /\ held'[p][j] # NotHeld
                               /\ t = [pod |-> p, gen |-> held'[p][j].gen,
                                       born |-> held'[p][j].born]
      BY <2>1, GrantedMember DEF HeldKept
    <2>2. CASE \E d \in calls' : d.id = j /\ d.phase = "start" /\ t = Token(d)
      <3>1. PICK d \in calls' : d.id = j /\ d.phase = "start" /\ t = Token(d)
        BY <2>2
      <3>2. CASE d = n
        BY <3>1, <3>2
      <3>3. CASE \E c \in calls : Same(d, c)
        <4>1. PICK c \in calls : Same(d, c)
          BY <3>3
        <4>2. c.id = j /\ c.phase = "start" /\ t = Token(c)
          BY <3>1, <4>1 DEF Same, Token
        <4> QED
          BY <4>2, GrantedMember
      <3> QED
        BY <3>1, <3>2, <3>3
    <2> QED
      BY <2>1, <2>2, GrantedMemberNext
  <1>1. Token(n).gen = n.gen /\ Token(n).born = n.born /\ n.gen \in Nat /\ n.born \in Nat
    BY DEF Token, Calls
  <1>2. ASSUME NEW t \in Granted(i)
        PROVE  t.born <= born'[i] /\ (t.born = n.born => t.gen < n.gen)
    <2>1. t.gen \in Nat /\ t.born \in Nat /\ born[i] \in Nat
      BY GrantedType DEF Inv, TypeOK
    <2>2. /\ t.born <= born[i]
          /\ t.born = born[i] /\ Exists(lease[i]) => t.gen <= lease[i].gen
      BY DEF FInv, Fenced
    <2>3. Exists(lease[i]) => lease[i].gen \in Nat
      BY LeaseFacts DEF Inv, TypeOK, Leases
    <2> QED
      BY <1>1, <2>1, <2>2, <2>3
  <1>3. Fenced'
    <2> SUFFICES ASSUME NEW j \in IDs, NEW t \in Granted(j)'
                 PROVE  /\ t.born <= born'[j]
                        /\ t.born = born'[j] /\ Exists(lease'[j])
                              => t.gen <= lease'[j].gen
      BY DEF Fenced
    <2>1. CASE j = i
      <3>1. CASE t = Token(n)
        BY <1>1, <2>1, <3>1
      <3>2. CASE t \in Granted(i)
        <4>1. t.gen \in Nat /\ t.born \in Nat
          BY <3>2, GrantedType DEF Inv
        <4> QED
          BY <1>1, <1>2, <2>1, <3>2, <4>1
      <3> QED
        BY <1>0, <2>1, <3>1, <3>2
    <2>2. CASE j # i
      <3>1. t \in Granted(j)
        BY <1>0, <2>2
      <3>2. t.gen \in Nat /\ t.born \in Nat /\ born[j] \in Nat
        BY <3>1, GrantedType DEF Inv, TypeOK
      <3>3. /\ t.born <= born[j]
            /\ t.born = born[j] /\ Exists(lease[j]) => t.gen <= lease[j].gen
        BY <3>1 DEF FInv, Fenced
      <3>4. Quiet(j)
        BY <2>2
      <3> QED
        BY <3>2, <3>3, <3>4 DEF Quiet
    <2> QED
      BY <2>1, <2>2
  <1>4. GenerationsUnique'
    <2> SUFFICES ASSUME NEW j \in IDs, NEW s \in Granted(j)', NEW t \in Granted(j)',
                        s.gen = t.gen, s.born = t.born
                 PROVE  s.pod = t.pod
      BY DEF GenerationsUnique
    <2>1. CASE s \in Granted(j) /\ t \in Granted(j)
      BY <2>1 DEF FInv, GenerationsUnique
    <2>2. CASE j = i /\ s = Token(n) /\ t = Token(n)
      BY <2>2
    <2>3. CASE j = i /\ s = Token(n) /\ t \in Granted(i)
      <3>1. t.gen \in Nat
        BY <2>3, GrantedType DEF Inv
      <3> QED
        BY <1>1, <1>2, <2>3, <3>1
    <2>4. CASE j = i /\ t = Token(n) /\ s \in Granted(i)
      <3>1. s.gen \in Nat
        BY <2>4, GrantedType DEF Inv
      <3> QED
        BY <1>1, <1>2, <2>4, <3>1
    <2> QED
      BY <1>0, <2>1, <2>2, <2>3, <2>4
  <1> QED
    BY <1>3, <1>4 DEF FInv

--------------------------------------------------------------------------------
(* Every action, seen through StartsKept, HeldKept and Quiet *)

\* Forgetting a claim, or leaving held alone, makes no claim new.
LEMMA HeldKeptFacts ==
    ASSUME TypeOK
    PROVE  /\ UNCHANGED held => HeldKept
           /\ \A p \in Pods, i \in IDs : Forget(p, i) => HeldKept
  <1>1. UNCHANGED held => HeldKept
    BY DEF HeldKept
  <1>2. ASSUME NEW p \in Pods, NEW i \in IDs, Forget(p, i),
               NEW q \in Pods, NEW j \in IDs
        PROVE  held'[q][j] = NotHeld \/ held'[q][j] = held[q][j]
    <2>1. held \in [Pods -> [IDs -> Claims]]
      BY DEF TypeOK
    <2>2. held' = [held EXCEPT ![p] = [held[p] EXCEPT ![i] = NotHeld]]
      BY <1>2 DEF Forget
    <2> QED
      BY <2>1, <2>2
  <1> QED
    BY <1>1, <1>2 DEF HeldKept

\* A step that writes no Lease is quiet.
LEMMA NoWriteQuiet ==
    ASSUME UNCHANGED <<lease, born>>, NEW i \in IDs
    PROVE  Quiet(i)
  BY DEF Quiet

\* Adding a call that is no answer keeps the answers.
LEMMA AddStarts ==
    ASSUME NEW n, n.phase # "start", calls' = calls \cup {n}
    PROVE  StartsKept
  BY DEF StartsKept, Same

\* So does continuing a call as something that is no answer.
LEMMA ContinueStarts ==
    ASSUME NEW c \in calls, NEW next, Continue(c, next),
           \A d \in next : d.phase # "start"
    PROVE  StartsKept
  BY DEF StartsKept, Same, Continue

\* Returning, or going on as one call that is no answer.
LEMMA OneStarts ==
    ASSUME NEW c \in calls
    PROVE  /\ Return(c) => StartsKept
           /\ \A n : n.phase # "start" /\ Continue(c, {n}) => StartsKept
  BY ContinueStarts DEF Return

\* After a write, the answers on their way are the new one and the earlier ones.
LEMMA CommitStarts ==
    ASSUME TypeOK, NEW c \in calls, NEW next, NEW i, NEW l, Commit(c, next, i, l)
    PROVE  \A d \in calls' : d \in next \/ \E e \in calls : Same(d, e)
  <1> SUFFICES ASSUME NEW d \in calls', d \notin next
               PROVE  \E e \in calls : Same(d, e)
    OBVIOUS
  <1>1. d \in Outdate(calls \ {c}, i)
    BY DEF Commit
  <1>2. calls \ {c} \in SUBSET Calls
    BY DEF TypeOK
  <1> QED
    BY <1>1, <1>2, OutdateSame

\* A write that keeps generation and PoP of its Lease, or removes it, is quiet.
LEMMA CommitQuiet ==
    ASSUME TypeOK, NEW c \in calls, NEW next, NEW i \in IDs, NEW l,
           Commit(c, next, i, l), UNCHANGED born,
           Exists(l) => Exists(lease[i]) /\ l.gen = lease[i].gen /\ l.pop = lease[i].pop,
           NEW j \in IDs
    PROVE  Quiet(j)
  BY DEF TypeOK, Commit, Quiet

\* The calls made by the rest of the relay, and the loops.
LEMMA CallQuiet ==
    ASSUME Inv, Call
    PROVE  StartsKept /\ HeldKept /\ UNCHANGED <<lease, born>>
  <1> USE DEF Inv
  <1> PICK p \in Pods, i \in IDs :
        \/ \E pop \in Pops \cup {NoPop}, force \in BOOLEAN : CallClaim(p, i, pop, force)
        \/ RenewGet(p, i)
        \/ \E o \in {"grace", "delete", "release"} : CallStoppingRenew(o, p, i)
        \/ \E stalled \in BOOLEAN : CallSetStalled(p, i, stalled)
        \/ \E g \in 1 .. MaxGen : CallReleaseGeneration(p, i, g)
        \/ \E pop \in Pops : CallDeleteReservation(p, i, pop)
        \/ \E pop \in Pops : RenewReservationsList(p, i, pop)
        \/ JanitorList(p, i)
    BY DEF Call
  <1>n. \A o, q, x, g, b : NewCall(p, i, o, q, x, g, b).phase # "start"
    BY DEF NewCall
  <1>r. \A o, q, x, g, b :
            [NewCall(p, i, o, q, x, g, b) EXCEPT !.phase = "update",
                                                 !.fresh = TRUE].phase # "start"
    BY DEF NewCall
  <1>1. ASSUME NEW pop \in Pops \cup {NoPop}, NEW force \in BOOLEAN,
               CallClaim(p, i, pop, force)
        PROVE  StartsKept /\ HeldKept /\ UNCHANGED <<lease, born>>
    BY <1>1, <1>n, AddStarts, HeldKeptFacts DEF CallClaim
  <1>2. ASSUME RenewGet(p, i)
        PROVE  StartsKept /\ HeldKept /\ UNCHANGED <<lease, born>>
    <2>1. HeldKept /\ UNCHANGED <<lease, born>>
      BY <1>2, HeldKeptFacts DEF RenewGet
    <2>2. CASE UNCHANGED calls
      BY <2>1, <2>2 DEF StartsKept, Same
    <2>3. CASE ~UNCHANGED calls
      BY <1>2, <2>1, <2>3, <1>r, AddStarts DEF RenewGet, Renewing
    <2> QED
      BY <2>2, <2>3
  <1>3. ASSUME NEW o \in {"grace", "delete", "release"}, CallStoppingRenew(o, p, i)
        PROVE  StartsKept /\ HeldKept /\ UNCHANGED <<lease, born>>
    BY <1>3, <1>n, AddStarts, HeldKeptFacts DEF CallStoppingRenew
  <1>4. ASSUME NEW stalled \in BOOLEAN, CallSetStalled(p, i, stalled)
        PROVE  StartsKept /\ HeldKept /\ UNCHANGED <<lease, born>>
    BY <1>4, <1>n, AddStarts, HeldKeptFacts DEF CallSetStalled
  <1>5. ASSUME NEW g \in 1 .. MaxGen, CallReleaseGeneration(p, i, g)
        PROVE  StartsKept /\ HeldKept /\ UNCHANGED <<lease, born>>
    BY <1>5, <1>n, AddStarts, HeldKeptFacts DEF CallReleaseGeneration
  <1>6. ASSUME NEW pop \in Pops, CallDeleteReservation(p, i, pop)
        PROVE  StartsKept /\ HeldKept /\ UNCHANGED <<lease, born>>
    BY <1>6, <1>n, AddStarts, HeldKeptFacts DEF CallDeleteReservation
  <1>7. ASSUME NEW pop \in Pops, RenewReservationsList(p, i, pop)
        PROVE  StartsKept /\ HeldKept /\ UNCHANGED <<lease, born>>
    BY <1>7, <1>r, AddStarts, HeldKeptFacts DEF RenewReservationsList
  <1>8. ASSUME JanitorList(p, i)
        PROVE  StartsKept /\ HeldKept /\ UNCHANGED <<lease, born>>
    BY <1>8, <1>r, AddStarts, HeldKeptFacts DEF JanitorList
  <1> QED
    BY <1>1, <1>2, <1>3, <1>4, <1>5, <1>6, <1>7, <1>8

\* The steps of a call other than a grant and the start of its renewal.
LEMMA StepQuiet ==
    ASSUME Inv, NEW c \in calls,
           \/ ClaimGet(c) \/ CreateLeaseList(c) \/ OwnerGet(c)
           \/ ReleaseGenerationGet(c) \/ DeleteReservationGet(c)
           \/ StopRenew(c) \/ RenewUpdate(c) \/ WriteBack(c) \/ Fail(c)
    PROVE  StartsKept /\ HeldKept /\ \A i \in IDs : Quiet(i)
  <1> DEFINE Goal == StartsKept /\ HeldKept /\ \A i \in IDs : Quiet(i)
  <1>c. c \in Calls /\ c.id \in IDs /\ c.pod \in Pods /\ lease[c.id] \in Leases \cup {NoLease}
    BY DEF Inv, TypeOK, Calls
  <1>h. TypeOK
    BY DEF Inv
  <1>p. /\ [c EXCEPT !.phase = "list"].phase # "start"
        /\ [c EXCEPT !.phase = "create"].phase # "start"
        /\ [c EXCEPT !.phase = "update"].phase # "start"
        /\ [c EXCEPT !.phase = "stop", !.fresh = TRUE].phase # "start"
        /\ [c EXCEPT !.phase = "update", !.fresh = TRUE].phase # "start"
        /\ \A g : [c EXCEPT !.phase = "update", !.fresh = TRUE,
                            !.gen = g].phase # "start"
    BY <1>c DEF Calls
  <1>r. \A d \in Refused(c) : d.phase # "start"
    BY <1>c, RefusedFacts
  <1>1. ASSUME ClaimGet(c) PROVE Goal
    <2>1. UNCHANGED <<lease, born, held>>
      BY <1>1 DEF ClaimGet
    <2>2. StartsKept
      <3>1. \/ Return(c)
            \/ Continue(c, {[c EXCEPT !.phase = "list"]})
            \/ \E g : Continue(c, {[c EXCEPT !.phase = "update", !.fresh = TRUE,
                                             !.gen = g]})
        BY <1>1 DEF ClaimGet
      <3> QED
        BY <3>1, <1>p, OneStarts
    <2> QED
      BY <1>h, <2>1, <2>2, HeldKeptFacts, NoWriteQuiet
  <1>2. ASSUME CreateLeaseList(c) PROVE Goal
    <2>1. UNCHANGED <<lease, born, held>>
      BY <1>2 DEF CreateLeaseList
    <2>2. StartsKept
      <3>1. Return(c) \/ Continue(c, {[c EXCEPT !.phase = "create"]})
        BY <1>2 DEF CreateLeaseList
      <3> QED
        BY <3>1, <1>p, OneStarts
    <2> QED
      BY <1>h, <2>1, <2>2, HeldKeptFacts, NoWriteQuiet
  <1>3. ASSUME OwnerGet(c) PROVE Goal
    <2>1. UNCHANGED <<lease, born, held>>
      BY <1>3 DEF OwnerGet
    <2>2. StartsKept
      <3>1. Return(c) \/ Continue(c, {[c EXCEPT !.phase = "update", !.fresh = TRUE]})
        BY <1>3 DEF OwnerGet
      <3> QED
        BY <3>1, <1>p, OneStarts
    <2> QED
      BY <1>h, <2>1, <2>2, HeldKeptFacts, NoWriteQuiet
  <1>4. ASSUME ReleaseGenerationGet(c) PROVE Goal
    <2>1. UNCHANGED <<lease, born, held>>
      BY <1>4 DEF ReleaseGenerationGet
    <2>2. StartsKept
      <3>1. Return(c) \/ Continue(c, {[c EXCEPT !.phase = "stop", !.fresh = TRUE]})
        BY <1>4 DEF ReleaseGenerationGet
      <3> QED
        BY <3>1, <1>p, OneStarts
    <2> QED
      BY <1>h, <2>1, <2>2, HeldKeptFacts, NoWriteQuiet
  <1>5. ASSUME DeleteReservationGet(c) PROVE Goal
    <2>1. UNCHANGED <<lease, born, held>>
      BY <1>5 DEF DeleteReservationGet
    <2>2. StartsKept
      <3>1. Return(c) \/ Continue(c, {[c EXCEPT !.phase = "stop", !.fresh = TRUE]})
        BY <1>5 DEF DeleteReservationGet
      <3> QED
        BY <3>1, <1>p, OneStarts
    <2> QED
      BY <1>h, <2>1, <2>2, HeldKeptFacts, NoWriteQuiet
  <1>e. ASSUME Unchanged(c) PROVE Exists(lease[c.id]) /\ lease[c.id] \in Leases
    <2>1. Exists(lease[c.id])
      BY <1>e DEF Inv, DecisionsStand, DecidedOn, Unchanged
    <2> QED
      BY <2>1, <1>c, LeaseFacts
  <1>6. ASSUME RenewUpdate(c) PROVE Goal
    <2>1. UNCHANGED born /\ HeldKept
      BY <1>6, <1>h, HeldKeptFacts DEF RenewUpdate
    <2>2. CASE Return(c) /\ UNCHANGED lease
      BY <2>1, <2>2, ContinueStarts, NoWriteQuiet DEF Return
    <2>3. ASSUME Unchanged(c), NEW l, l = [lease[c.id] EXCEPT !.age = 0],
                 Commit(c, {}, c.id, l)
          PROVE  Goal
      <3>1. l.gen = lease[c.id].gen /\ l.pop = lease[c.id].pop
        BY <1>e, <2>3 DEF Leases
      <3>2. StartsKept
        BY <1>h, <2>3, CommitStarts DEF StartsKept
      <3>3. \A i \in IDs : Quiet(i)
        BY <1>h, <1>c, <1>e, <2>1, <2>3, <3>1, CommitQuiet
      <3> QED
        BY <2>1, <3>2, <3>3
    <2> QED
      BY <1>6, <2>2, <2>3 DEF RenewUpdate
  <1>7. ASSUME WriteBack(c) PROVE Goal
    <2>1. UNCHANGED born /\ HeldKept
      BY <1>7, <1>h, HeldKeptFacts DEF WriteBack
    <2>2. CASE Continue(c, Refused(c)) /\ UNCHANGED lease
      BY <1>r, <2>1, <2>2, ContinueStarts, NoWriteQuiet
    <2>3. ASSUME Unchanged(c), NEW l, l = Written(c, lease[c.id]),
                 Commit(c, {}, c.id, l)
          PROVE  Goal
      <3>1. Exists(l) => l.gen = lease[c.id].gen /\ l.pop = lease[c.id].pop
        BY <1>e, <2>3 DEF Leases, Written, released, Exists, NoLease
      <3>2. StartsKept
        BY <1>h, <2>3, CommitStarts DEF StartsKept
      <3>3. \A i \in IDs : Quiet(i)
        BY <1>h, <1>c, <1>e, <2>1, <2>3, <3>1, CommitQuiet
      <3> QED
        BY <2>1, <3>2, <3>3
    <2> QED
      BY <1>7, <2>2, <2>3 DEF WriteBack
  <1>8. ASSUME StopRenew(c) PROVE Goal
    <2>1. UNCHANGED <<lease, born>>
      BY <1>8 DEF StopRenew
    <2>2. HeldKept
      BY <1>8, <1>h, <1>c, HeldKeptFacts DEF StopRenew
    <2>3. StartsKept
      BY <1>8, <1>p, OneStarts DEF StopRenew
    <2> QED
      BY <2>1, <2>2, <2>3, NoWriteQuiet
  <1>9. ASSUME Fail(c) PROVE Goal
    <2>1. UNCHANGED <<lease, born, held>>
      BY <1>9 DEF Fail
    <2>2. StartsKept
      BY <1>9, ContinueStarts DEF Fail, Return
    <2> QED
      BY <1>h, <2>1, <2>2, HeldKeptFacts, NoWriteQuiet
  <1> QED
    BY <1>1, <1>2, <1>3, <1>4, <1>5, <1>6, <1>7, <1>8, <1>9

\* The environment grants nothing; a reservation is a new object.
LEMMA EnvironmentQuiet ==
    ASSUME Inv, Environment
    PROVE  StartsKept /\ HeldKept /\ \A i \in IDs : Quiet(i)
  <1> DEFINE Goal == StartsKept /\ HeldKept /\ \A i \in IDs : Quiet(i)
  <1>h. TypeOK
    BY DEF Inv
  <1>s. UNCHANGED calls => StartsKept
    BY DEF StartsKept, Same
  <1>1. ASSUME NEW j \in IDs, NEW pop \in Pops, Reserve(j, pop) PROVE Goal
    <2>1. UNCHANGED <<calls, held>>
      BY <1>1 DEF Reserve
    <2>2. ASSUME NEW i \in IDs PROVE Quiet(i)
      <3>1. CASE i = j
        BY <1>1, <1>h, <3>1 DEF Reserve, Quiet, TypeOK
      <3>2. CASE i # j
        <4>1. born'[i] = born[i] /\ lease'[i] = lease[i]
          BY <1>1, <1>h, <3>2 DEF Reserve, TypeOK
        <4> QED
          BY <4>1 DEF Quiet
      <3> QED
        BY <3>1, <3>2
    <2> QED
      BY <1>h, <1>s, <2>1, <2>2, HeldKeptFacts
  <1>2. ASSUME NEW p \in Pods, NEW i \in IDs, Deliver(p, i) PROVE Goal
    BY <1>2, <1>h, <1>s, HeldKeptFacts, NoWriteQuiet DEF Deliver
  <1>3. ASSUME NEW p \in Pods, NEW i \in IDs, Relist(p, i) PROVE Goal
    BY <1>3, <1>h, <1>s, HeldKeptFacts, NoWriteQuiet DEF Relist
  <1>4. ASSUME NEW p \in Pods, Restart(p) PROVE Goal
    <2>1. HeldKept
      BY <1>4, <1>h DEF Restart, HeldKept, TypeOK
    <2>2. StartsKept
      BY <1>4 DEF Restart, StartsKept, Same
    <2>3. UNCHANGED <<lease, born>>
      BY <1>4 DEF Restart
    <2> QED
      BY <2>1, <2>2, <2>3, NoWriteQuiet
  <1>5. ASSUME Tick PROVE Goal
    <2>1. UNCHANGED <<calls, held, born>>
      BY <1>5 DEF Tick
    <2>2. ASSUME NEW i \in IDs PROVE Quiet(i)
      <3>1. CASE ~Exists(lease[i])
        <4>1. lease'[i] = NoLease
          BY <1>5, <3>1 DEF Tick
        <4> QED
          BY <2>1, <4>1 DEF Quiet, Exists
      <3>2. CASE Exists(lease[i])
        <4>1. lease[i] \in Leases
          BY <1>h, <3>2, LeaseFacts DEF TypeOK
        <4>2. lease'[i] = [lease[i] EXCEPT !.age = Older(@),
                              !.grace = IF @ = NoGrace THEN NoGrace ELSE Older(@)]
          BY <1>5, <3>2 DEF Tick
        <4>3. lease'[i].gen = lease[i].gen /\ lease'[i].pop = lease[i].pop
          BY <4>1, <4>2 DEF Leases
        <4> QED
          BY <2>1, <3>2, <4>3 DEF Quiet
      <3> QED
        BY <3>1, <3>2
    <2> QED
      BY <1>h, <1>s, <2>1, <2>2, HeldKeptFacts
  <1> QED
    BY <1>1, <1>2, <1>3, <1>4, <1>5 DEF Environment

--------------------------------------------------------------------------------
(* Grants *)

\* A claim that creates the Lease or updates it, and the start of its renewal.
LEMMA GrantFence ==
    ASSUME Inv, FInv, NEW c \in calls
    PROVE  /\ CreateLease(c) => FInv'
           /\ ClaimUpdate(c) => FInv'
           /\ StartRenew(c) => FInv'
  <1>c. /\ c \in Calls /\ c.id \in IDs /\ c.pod \in Pods
        /\ c.gen \in Nat /\ c.born \in Nat /\ born[c.id] \in Nat
        /\ lease[c.id] \in Leases \cup {NoLease}
    BY DEF Inv, TypeOK, Calls
  <1>h. TypeOK
    BY DEF Inv
  <1>r. /\ \A d \in Retry(c) : d.phase # "start"
        /\ \A d \in Refused(c) : d.phase # "start"
    BY <1>c, RetryFacts, RefusedFacts
  <1>1. ASSUME CreateLease(c) PROVE FInv'
    <2>1. HeldKept
      BY <1>1, <1>h, HeldKeptFacts DEF CreateLease
    <2>2. CASE UNCHANGED <<lease, born>> /\ (Return(c) \/ Continue(c, Retry(c)))
      <3>1. StartsKept
        BY <1>r, <2>2, OneStarts, ContinueStarts
      <3> QED
        BY <2>1, <2>2, <3>1, NoWriteQuiet, QuietKeepsFence
    <2>3. ASSUME born' = [born EXCEPT ![c.id] = @ + 1],
                 NEW l, l = [holder |-> c.pod, gen |-> 1, pop |-> NoPop, age |-> 0,
                             grace |-> NoGrace, stalled |-> FALSE],
                 Commit(c, {GrantedCall(c, 1, born'[c.id])}, c.id, l)
          PROVE  FInv'
      <3> DEFINE n == GrantedCall(c, 1, born'[c.id])
      <3>1. born'[c.id] = born[c.id] + 1 /\ born'[c.id] \in Nat
        BY <1>c, <1>h, <2>3 DEF TypeOK
      <3>2. n \in Calls /\ n.id = c.id /\ n.gen = 1 /\ n.born = born'[c.id]
        <4>1. n \in Calls
          BY <1>c, <3>1, 1 \in Nat, GrantedCallType
        <4>2. n.id = c.id
          BY DEF GrantedCall, NewCall
        <4>3. n.gen = 1
          BY DEF GrantedCall, NewCall
        <4>4. n.born = born'[c.id]
          BY DEF GrantedCall, NewCall
        <4> QED
          BY <4>1, <4>2, <4>3, <4>4
      <3> HIDE DEF n
      <3>3. \A d \in calls' : d = n \/ \E e \in calls : Same(d, e)
        <4>1. Commit(c, {n}, c.id, l)
          BY <2>3 DEF n
        <4> QED
          BY <1>h, <4>1, CommitStarts
      <3>4. Exists(lease'[c.id]) /\ lease'[c.id].gen = 1
        BY <1>c, <1>h, <2>3 DEF Commit, TypeOK, Exists, NoLease
      <3>5. \A j \in IDs \ {c.id} : Quiet(j)
        BY <1>c, <1>h, <2>3 DEF Commit, TypeOK, Quiet
      <3> QED
        BY <1>c, <2>1, <3>1, <3>2, <3>3, <3>4, <3>5, GrantKeepsFence
    <2> QED
      BY <1>1, <2>2, <2>3 DEF CreateLease
  <1>2. ASSUME ClaimUpdate(c) PROVE FInv'
    <2>1. HeldKept /\ UNCHANGED born
      BY <1>2, <1>h, HeldKeptFacts DEF ClaimUpdate
    <2>2. CASE UNCHANGED lease /\ Continue(c, Refused(c))
      <3>1. StartsKept
        BY <1>r, <2>2, ContinueStarts
      <3> QED
        BY <2>1, <2>2, <3>1, NoWriteQuiet, QuietKeepsFence
    <2>3. ASSUME c.op = "claim", Unchanged(c),
                 NEW l, l = ClaimedBy(c.pod, c.gen, lease[c.id]),
                 Commit(c, {GrantedCall(c, c.gen, born[c.id])}, c.id, l)
          PROVE  FInv'
      <3> DEFINE n == GrantedCall(c, c.gen, born[c.id])
      <3>1. Exists(lease[c.id]) /\ c.gen = lease[c.id].gen + 1
        BY <2>3 DEF Inv, DecisionsStand, DecidedOn, Unchanged
      <3>2. n \in Calls /\ n.id = c.id /\ n.gen = c.gen /\ n.born = born[c.id]
        <4>1. n \in Calls
          BY <1>c, GrantedCallType
        <4>2. n.id = c.id
          BY DEF GrantedCall, NewCall
        <4>3. n.gen = c.gen
          BY DEF GrantedCall, NewCall
        <4>4. n.born = born[c.id]
          BY DEF GrantedCall, NewCall
        <4> QED
          BY <4>1, <4>2, <4>3, <4>4
      <3> HIDE DEF n
      <3>3. \A d \in calls' : d = n \/ \E e \in calls : Same(d, e)
        <4>1. Commit(c, {n}, c.id, l)
          BY <2>3 DEF n
        <4> QED
          BY <1>h, <4>1, CommitStarts
      <3>4. l.gen = c.gen /\ Exists(l)
        <4>1. lease[c.id] \in Leases
          BY <1>c, <3>1, LeaseFacts
        <4>2. l \in Leases /\ l.gen = c.gen
          BY <1>c, <2>3, <4>1, AgeFacts DEF ClaimedBy, Leases
        <4> QED
          BY <4>2, LeaseFacts
      <3>5. lease'[c.id] = l
        BY <1>c, <1>h, <2>3 DEF Commit, TypeOK
      <3>6. \A j \in IDs \ {c.id} : Quiet(j)
        BY <1>c, <1>h, <2>1, <2>3 DEF Commit, TypeOK, Quiet
      <3> QED
        BY <1>c, <2>1, <3>1, <3>2, <3>3, <3>4, <3>5, <3>6, GrantKeepsFence
    <2> QED
      BY <1>2, <2>2, <2>3 DEF ClaimUpdate
  <1>3. ASSUME StartRenew(c) PROVE FInv'
    <2>1. UNCHANGED <<lease, born>> /\ StartsKept /\ c.phase = "start"
      BY <1>3, OneStarts DEF StartRenew
    <2>2. ASSUME NEW i \in IDs, NEW t \in Granted(i)'
          PROVE  t \in Granted(i)
      <3>1. CASE \E p \in Pods : /\ held'[p][i] # NotHeld
                                 /\ t = [pod |-> p, gen |-> held'[p][i].gen,
                                         born |-> held'[p][i].born]
        <4>1. PICK p \in Pods : /\ held'[p][i] # NotHeld
                                /\ t = [pod |-> p, gen |-> held'[p][i].gen,
                                        born |-> held'[p][i].born]
          BY <3>1
        <4>2. CASE p = c.pod /\ i = c.id
          <5>1. held'[p][i] = [gen |-> c.gen, born |-> c.born]
            BY <1>3, <1>c, <1>h, <4>2 DEF StartRenew, TypeOK
          <5>2. t = Token(c)
            BY <4>1, <4>2, <5>1 DEF Token
          <5> QED
            BY <2>1, <4>2, <5>2, GrantedMember
        <4>3. CASE ~(p = c.pod /\ i = c.id)
          <5>1. held'[p][i] = held[p][i]
            <6>1. held \in [Pods -> [IDs -> Claims]]
              BY <1>h DEF TypeOK
            <6>2. held' = [held EXCEPT ![c.pod] =
                              [held[c.pod] EXCEPT ![c.id] = [gen |-> c.gen, born |-> c.born]]]
              BY <1>3 DEF StartRenew
            <6> QED
              BY <6>1, <6>2, <1>c, <4>3
          <5> QED
            BY <4>1, <5>1, GrantedMember
        <4> QED
          BY <4>2, <4>3
      <3>2. CASE \E d \in calls' : d.id = i /\ d.phase = "start" /\ t = Token(d)
        <4>1. PICK d \in calls' : d.id = i /\ d.phase = "start" /\ t = Token(d)
          BY <3>2
        <4>2. d \in calls
          BY <1>3, <4>1 DEF StartRenew, Return, Continue
        <4> QED
          BY <4>1, <4>2, GrantedMember
      <3> QED
        BY <3>1, <3>2, GrantedMemberNext
    <2>3. Fenced'
      BY <2>1, <2>2 DEF FInv, Fenced
    <2>4. GenerationsUnique'
      BY <2>2 DEF FInv, GenerationsUnique
    <2> QED
      BY <2>3, <2>4 DEF FInv
  <1> QED
    BY <1>1, <1>2, <1>3

\* Every step keeps the fence.
LEMMA FenceStep ==
    ASSUME Inv, FInv, [Next]_vars
    PROVE  FInv'
  <1>1. ASSUME UNCHANGED vars PROVE FInv'
    BY <1>1 DEF vars, FInv, Fenced, GenerationsUnique, Granted
  <1>2. ASSUME Call PROVE FInv'
    BY <1>2, CallQuiet, NoWriteQuiet, QuietKeepsFence
  <1>3. ASSUME Step PROVE FInv'
    BY <1>3, StepQuiet, QuietKeepsFence, GrantFence DEF Step
  <1>4. ASSUME Environment PROVE FInv'
    BY <1>4, EnvironmentQuiet, QuietKeepsFence
  <1> QED
    BY <1>1, <1>2, <1>3, <1>4 DEF Next

\* The generation is a fencing token: for any number of pods, calls and crashes,
\* no two pods are ever granted the same generation of one Lease object.
THEOREM Fencing == Spec => []GenerationsUnique
  <1>1. Init => FInv
    BY DEF Init, FInv, Fenced, GenerationsUnique, Granted
  <1>2. Inv /\ FInv /\ [Next]_vars => FInv'
    BY FenceStep
  <1>3. FInv => GenerationsUnique
    BY DEF FInv
  <1> QED
    BY <1>1, <1>2, <1>3, InvHolds, PTL DEF Spec

--------------------------------------------------------------------------------
(* What a step may never do to a Lease *)

\* Every change of an existing Lease is a tick, or the write of a call that the
\* resourceVersion precondition let through.
LEMMA WriteCases ==
    ASSUME Inv, Next, NEW i \in IDs, Exists(lease[i]), lease'[i] # lease[i]
    PROVE  \/ Tick
           \/ \E c \in calls :
                /\ c.id = i /\ c.fresh
                /\ \/ c.op = "claim" /\ lease'[i] = ClaimedBy(c.pod, c.gen, lease[i])
                   \/ c.op = "renew" /\ lease'[i] = [lease[i] EXCEPT !.age = 0]
                   \/ /\ c.op \notin {"claim", "renew"}
                      /\ lease'[i] = Written(c, lease[i])
                      /\ calls' = Outdate(calls \ {c}, i)
  <1>h. TypeOK
    BY DEF Inv
  <1>w. ASSUME NEW c \in calls, NEW next, NEW l, Commit(c, next, c.id, l)
        PROVE  c.id = i /\ lease'[i] = l
    <2>1. c.id \in IDs
      BY <1>h DEF TypeOK, Calls
    <2> QED
      BY <1>w, <1>h, <2>1 DEF Commit, TypeOK
  <1>1. ASSUME Call PROVE FALSE
    BY <1>1, CallQuiet
  <1>2. ASSUME Environment PROVE Tick
    <2>1. ASSUME NEW j \in IDs, NEW pop \in Pops, Reserve(j, pop) PROVE FALSE
      BY <1>h, <2>1 DEF Reserve, TypeOK
    <2>2. ASSUME NEW p \in Pods, NEW j \in IDs, Deliver(p, j) \/ Relist(p, j) PROVE FALSE
      BY <2>2 DEF Deliver, Relist
    <2>3. ASSUME NEW p \in Pods, Restart(p) PROVE FALSE
      BY <2>3 DEF Restart
    <2> QED
      BY <1>2, <2>1, <2>2, <2>3 DEF Environment
  <1>3. ASSUME NEW c \in calls,
               \/ ClaimGet(c) \/ CreateLeaseList(c) \/ StartRenew(c) \/ OwnerGet(c)
               \/ ReleaseGenerationGet(c) \/ DeleteReservationGet(c)
               \/ StopRenew(c) \/ Fail(c)
        PROVE  FALSE
    BY <1>3 DEF ClaimGet, CreateLeaseList, StartRenew, OwnerGet,
                ReleaseGenerationGet, DeleteReservationGet, StopRenew, Fail
  <1>4. ASSUME NEW c \in calls, CreateLease(c) PROVE FALSE
    BY <1>4, <1>w DEF CreateLease
  <1>5. ASSUME NEW c \in calls, ClaimUpdate(c)
        PROVE  /\ c.id = i /\ c.fresh /\ c.op = "claim"
               /\ lease'[i] = ClaimedBy(c.pod, c.gen, lease[i])
    BY <1>5, <1>w DEF ClaimUpdate, Unchanged
  <1>6. ASSUME NEW c \in calls, RenewUpdate(c)
        PROVE  /\ c.id = i /\ c.fresh /\ c.op = "renew"
               /\ lease'[i] = [lease[i] EXCEPT !.age = 0]
    BY <1>6, <1>w DEF RenewUpdate, Unchanged
  <1>7. ASSUME NEW c \in calls, WriteBack(c)
        PROVE  /\ c.id = i /\ c.fresh /\ c.op \notin {"claim", "renew"}
               /\ lease'[i] = Written(c, lease[i])
               /\ calls' = Outdate(calls \ {c}, i)
    <2>1. Unchanged(c) /\ Commit(c, {}, c.id, Written(c, lease[c.id]))
      BY <1>7 DEF WriteBack
    <2>2. c.id = i /\ lease'[i] = Written(c, lease[c.id])
      BY <2>1, <1>w
    <2>3. calls' = Outdate(calls \ {c}, i)
      BY <2>1, <2>2 DEF Commit
    <2> QED
      BY <1>7, <2>1, <2>2, <2>3 DEF WriteBack, Unchanged
  <1> QED
    BY <1>1, <1>2, <1>3, <1>4, <1>5, <1>6, <1>7 DEF Next, Step

\* No step, of any pod and at any moment, removes a Lease that the janitor's
\* rule, its holder's delete or its PoP does not entitle it to remove.
THEOREM LeaseKept == Spec => LiveLeaseKept
  <1> DEFINE A == \A i \in IDs :
          Exists(lease[i]) /\ ~Exists(lease'[i]) =>
            \E c \in calls :
              /\ c.id = i
              /\ calls' = Outdate(calls \ {c}, i)
              /\ \/ c.op = "janitor" /\ janitorExpired(lease[i])
                 \/ /\ c.op = "delete" /\ ~isPopLease(lease[i])
                    /\ lease[i].holder \in {NoPod, c.pod}
                 \/ c.op = "deletereservation" /\ lease[i].pop = c.pop
  <1>1. ASSUME Inv, [Next]_vars PROVE [A]_vars
    <2> SUFFICES ASSUME Next PROVE A
      BY <1>1
    <2> SUFFICES ASSUME NEW i \in IDs, Exists(lease[i]), ~Exists(lease'[i])
                 PROVE  \E c \in calls :
                          /\ c.id = i
                          /\ calls' = Outdate(calls \ {c}, i)
                          /\ \/ c.op = "janitor" /\ janitorExpired(lease[i])
                             \/ /\ c.op = "delete" /\ ~isPopLease(lease[i])
                                /\ lease[i].holder \in {NoPod, c.pod}
                             \/ c.op = "deletereservation" /\ lease[i].pop = c.pop
      OBVIOUS
    <2>l. lease[i] \in Leases /\ lease'[i] = NoLease /\ lease[i] # lease'[i]
      BY <1>1, LeaseFacts DEF Inv, TypeOK, Exists
    <2>1. ASSUME Tick PROVE FALSE
      <3>1. lease'[i].gen = lease[i].gen
        BY <2>l, <2>1 DEF Tick, Leases
      <3> QED
        BY <2>l, <3>1 DEF Leases, NoLease
    <2>2. PICK c \in calls :
             /\ c.id = i /\ c.fresh
             /\ \/ c.op = "claim" /\ lease'[i] = ClaimedBy(c.pod, c.gen, lease[i])
                \/ c.op = "renew" /\ lease'[i] = [lease[i] EXCEPT !.age = 0]
                \/ /\ c.op \notin {"claim", "renew"}
                   /\ lease'[i] = Written(c, lease[i])
                   /\ calls' = Outdate(calls \ {c}, i)
      BY <1>1, <2>l, <2>1, WriteCases
    <2>3. c \in Calls /\ DecidedOn(c, lease[i])
      BY <1>1, <2>2 DEF Inv, TypeOK, DecisionsStand
    <2>4. c.op # "claim"
      <3>1. ClaimedBy(c.pod, c.gen, lease[i]).gen = c.gen /\ c.gen \in Nat
        BY <2>l, <2>3 DEF ClaimedBy, Leases, Calls
      <3> QED
        BY <2>2, <2>l, <3>1 DEF NoLease
    <2>5. c.op # "renew"
      <3>1. [lease[i] EXCEPT !.age = 0].gen = lease[i].gen /\ lease[i].gen \in Nat
        BY <2>l DEF Leases
      <3> QED
        BY <2>2, <2>l, <3>1 DEF NoLease
    <2>6. c.op \in {"janitor", "delete", "deletereservation"}
      <3>1. /\ lease[i].gen \in Nat
            /\ released(lease[i]).gen = lease[i].gen
            /\ [lease[i] EXCEPT !.grace = 0].gen = lease[i].gen
            /\ [lease[i] EXCEPT !.stalled = c.flag].gen = lease[i].gen
            /\ [lease[i] EXCEPT !.age = 0].gen = lease[i].gen
        BY <2>l DEF Leases, released
      <3>2. c.op \notin {"grace", "stall", "release", "releasegen", "renewreservations"}
        BY <2>2, <2>l, <2>4, <2>5, <3>1 DEF Written, NoLease
      <3> QED
        BY <2>3, <2>4, <2>5, <3>2 DEF Calls, CallOps, AllOps
    <2> QED
      BY <2>2, <2>3, <2>4, <2>5, <2>6 DEF DecidedOn, OwnsWhatItRead
  <1> QED
    BY <1>1, InvHolds, PTL DEF Spec, LiveLeaseKept

\* A Lease changes hands only by a claim, which bumps the generation by one; a
\* release clears the holder; nothing else touches either, nor the PoP.
THEOREM HandoverFenced == Spec => HandoverBumpsGeneration
  <1> DEFINE A == \A i \in IDs :
          Exists(lease[i]) /\ Exists(lease'[i]) =>
            /\ lease'[i].gen \in {lease[i].gen, lease[i].gen + 1}
            /\ lease'[i].pop = lease[i].pop
            /\ lease'[i].gen = lease[i].gen =>
                  lease'[i].holder \in {lease[i].holder, NoPod}
  <1>1. ASSUME Inv, [Next]_vars PROVE [A]_vars
    <2> SUFFICES ASSUME Next PROVE A
      BY <1>1
    <2> SUFFICES ASSUME NEW i \in IDs, Exists(lease[i]), Exists(lease'[i]),
                        lease'[i] # lease[i]
                 PROVE  /\ lease'[i].gen \in {lease[i].gen, lease[i].gen + 1}
                        /\ lease'[i].pop = lease[i].pop
                        /\ lease'[i].gen = lease[i].gen =>
                              lease'[i].holder \in {lease[i].holder, NoPod}
      OBVIOUS
    <2>l. lease[i] \in Leases
      BY <1>1, LeaseFacts DEF Inv, TypeOK
    <2>1. CASE Tick
      <3>1. /\ lease'[i].gen = lease[i].gen /\ lease'[i].pop = lease[i].pop
            /\ lease'[i].holder = lease[i].holder
        BY <2>l, <2>1 DEF Tick, Leases
      <3> QED
        BY <3>1
    <2>2. ASSUME NEW c \in calls, c.id = i, c.fresh, c.op = "claim",
                 lease'[i] = ClaimedBy(c.pod, c.gen, lease[i])
          PROVE  lease'[i].gen = lease[i].gen + 1 /\ lease'[i].pop = lease[i].pop
      <3>1. c.gen = lease[i].gen + 1
        BY <1>1, <2>2 DEF Inv, DecisionsStand, DecidedOn
      <3> QED
        BY <2>l, <2>2, <3>1 DEF ClaimedBy, Leases
    <2>3. ASSUME lease'[i] = [lease[i] EXCEPT !.age = 0]
          PROVE  /\ lease'[i].gen = lease[i].gen /\ lease'[i].pop = lease[i].pop
                 /\ lease'[i].holder = lease[i].holder
      BY <2>l, <2>3 DEF Leases
    <2>4. ASSUME NEW c \in calls, lease'[i] = Written(c, lease[i])
          PROVE  /\ lease'[i].gen = lease[i].gen /\ lease'[i].pop = lease[i].pop
                 /\ lease'[i].holder \in {lease[i].holder, NoPod}
      <3> DEFINE l == lease[i]
                 Kept(m) == /\ m.gen = l.gen /\ m.pop = l.pop
                            /\ m.holder \in {l.holder, NoPod}
      <3>1. Kept([l EXCEPT !.grace = 0])
        BY <2>l DEF Leases
      <3>2. Kept([l EXCEPT !.stalled = c.flag])
        BY <2>l DEF Leases
      <3>3. Kept([l EXCEPT !.age = 0])
        BY <2>l DEF Leases
      <3>4. Kept(released(l))
        <4>1. Kept([l EXCEPT !.holder = NoPod, !.grace = NoGrace, !.age = 0])
          BY <2>l DEF Leases
        <4>2. Kept([l EXCEPT !.holder = NoPod])
          BY <2>l DEF Leases
        <4> QED
          BY <4>1, <4>2 DEF released
      <3>5. lease'[i] # NoLease
        BY DEF Exists
      <3> HIDE DEF Kept
      <3>6. Kept(lease'[i])
        BY <2>4, <3>1, <3>2, <3>3, <3>4, <3>5 DEF Written
      <3> QED
        BY <3>6 DEF Kept
    <2>5. lease[i].gen \in Nat
      BY <2>l DEF Leases
    <2>6. CASE ~Tick
      <3>1. PICK c \in calls :
               /\ c.id = i /\ c.fresh
               /\ \/ c.op = "claim" /\ lease'[i] = ClaimedBy(c.pod, c.gen, lease[i])
                  \/ lease'[i] = [lease[i] EXCEPT !.age = 0]
                  \/ lease'[i] = Written(c, lease[i])
        BY <1>1, <2>6, WriteCases
      <3>2. CASE c.op = "claim" /\ lease'[i] = ClaimedBy(c.pod, c.gen, lease[i])
        BY <3>1, <3>2, <2>2, <2>5
      <3>3. CASE lease'[i] = [lease[i] EXCEPT !.age = 0]
        BY <3>3, <2>3
      <3>4. CASE lease'[i] = Written(c, lease[i])
        BY <3>4, <2>4
      <3> QED
        BY <3>1, <3>2, <3>3, <3>4
    <2> QED
      BY <2>1, <2>6
  <1> QED
    BY <1>1, InvHolds, PTL DEF Spec, HandoverBumpsGeneration
--------------------------------------------------------------------------------
(* Reservations *)

\* ReservationRespected is not inductive either: a claim that is about to create
\* the Lease must be one that named no PoP, and a reservation is deleted by a
\* caller that names its PoP.
PopsFit ==
    \A c \in calls :
        /\ c.op = "claim" /\ c.phase \in {"list", "create"} => c.pop = NoPop
        /\ c.op = "deletereservation" => c.pop \in Pops

\* What PopsFit asks of one call.
Fits(d) ==
    /\ d.op = "claim" /\ d.phase \in {"list", "create"} => d.pop = NoPop
    /\ d.op = "deletereservation" => d.pop \in Pops

\* It is enough that the calls a step adds fit.
LEMMA FitsKept ==
    ASSUME PopsFit, \A d \in calls' : Fits(d) \/ \E c \in calls : Same(d, c)
    PROVE  PopsFit'
  BY DEF PopsFit, Fits, Same

\* A call that goes on as next, each of which fits.
LEMMA ContinueFits ==
    ASSUME PopsFit, NEW c \in calls, NEW next, Continue(c, next),
           \A d \in next : Fits(d)
    PROVE  PopsFit'
  BY DEF PopsFit, Fits, Continue

\* The same after a write.
LEMMA CommitFits ==
    ASSUME TypeOK, PopsFit, NEW c \in calls, NEW next, NEW i, NEW l,
           Commit(c, next, i, l), \A d \in next : Fits(d)
    PROVE  PopsFit'
  BY CommitStarts, FitsKept

\* What goes on from a call that fits, without a list or a create, fits.
LEMMA OnwardFits ==
    ASSUME TypeOK, PopsFit, NEW c \in calls
    PROVE  /\ \A d \in Retry(c) \cup Refused(c) : Fits(d)
           /\ \A g, b : Fits(GrantedCall(c, g, b))
           /\ \A n : n.op = c.op /\ n.pop = c.pop /\ n.phase \in {"stop", "update"} => Fits(n)
  <1>c. c \in Calls /\ Fits(c)
    BY DEF TypeOK, PopsFit, Fits
  <1>1. \A d \in Retry(c) \cup Refused(c) : Fits(d)
    BY <1>c DEF Retry, Refused, Fits, Calls
  <1>2. \A g, b : Fits(GrantedCall(c, g, b))
    BY DEF GrantedCall, NewCall, Fits
  <1>3. \A n : n.op = c.op /\ n.pop = c.pop /\ n.phase \in {"stop", "update"} => Fits(n)
    BY <1>c DEF Fits
  <1> QED
    BY <1>1, <1>2, <1>3

\* A call handed to the coordinator fits.
LEMMA CallFits ==
    ASSUME PopsFit, Call
    PROVE  PopsFit'
  <1> PICK p \in Pods, i \in IDs :
        \/ \E pop \in Pops \cup {NoPop}, force \in BOOLEAN : CallClaim(p, i, pop, force)
        \/ RenewGet(p, i)
        \/ \E o \in {"grace", "delete", "release"} : CallStoppingRenew(o, p, i)
        \/ \E stalled \in BOOLEAN : CallSetStalled(p, i, stalled)
        \/ \E g \in 1 .. MaxGen : CallReleaseGeneration(p, i, g)
        \/ \E pop \in Pops : CallDeleteReservation(p, i, pop)
        \/ \E pop \in Pops : RenewReservationsList(p, i, pop)
        \/ JanitorList(p, i)
    BY DEF Call
  <1>a. ASSUME NEW n, Fits(n), calls' = calls \cup {n} PROVE PopsFit'
    BY <1>a DEF PopsFit, Fits
  <1>n. \A o, q, x, g, b :
            o # "deletereservation" => Fits(NewCall(p, i, o, q, x, g, b))
    BY DEF NewCall, Fits
  <1>b. \A n : /\ n.phase = "update" /\ n.op # "deletereservation"
               /\ calls' = calls \cup {n}
               => PopsFit'
    BY <1>a DEF Fits
  <1>u. UNCHANGED calls => PopsFit'
    BY DEF PopsFit
  <1>1. ASSUME NEW pop \in Pops \cup {NoPop}, NEW force \in BOOLEAN,
               CallClaim(p, i, pop, force)
        PROVE  PopsFit'
    BY <1>1, <1>a, <1>n DEF CallClaim
  <1>2. ASSUME RenewGet(p, i) PROVE PopsFit'
    <2> DEFINE n == [NewCall(p, i, "renew", NoPop, FALSE, held[p][i].gen, 0)
                        EXCEPT !.phase = "update", !.fresh = TRUE]
    <2>1. UNCHANGED calls \/ calls' = calls \cup {n}
      BY <1>2 DEF RenewGet, Renewing
    <2>2. n.phase = "update" /\ n.op = "renew"
      BY DEF NewCall
    <2> HIDE DEF n
    <2> QED
      BY <2>1, <2>2, <1>b, <1>u
  <1>3. ASSUME NEW o \in {"grace", "delete", "release"}, CallStoppingRenew(o, p, i)
        PROVE  PopsFit'
    BY <1>3, <1>a, <1>n DEF CallStoppingRenew
  <1>4. ASSUME NEW stalled \in BOOLEAN, CallSetStalled(p, i, stalled) PROVE PopsFit'
    BY <1>4, <1>a, <1>n DEF CallSetStalled
  <1>5. ASSUME NEW g \in 1 .. MaxGen, CallReleaseGeneration(p, i, g) PROVE PopsFit'
    BY <1>5, <1>a, <1>n DEF CallReleaseGeneration
  <1>6. ASSUME NEW pop \in Pops, CallDeleteReservation(p, i, pop) PROVE PopsFit'
    <2>1. Fits(NewCall(p, i, "deletereservation", pop, FALSE, 0, 0))
      BY <1>6 DEF NewCall, Fits
    <2> QED
      BY <1>6, <1>a, <2>1 DEF CallDeleteReservation
  <1>7. ASSUME NEW pop \in Pops, RenewReservationsList(p, i, pop) PROVE PopsFit'
    <2> DEFINE n == [NewCall(p, i, "renewreservations", pop, FALSE, 0, 0)
                        EXCEPT !.phase = "update", !.fresh = TRUE]
    <2>1. calls' = calls \cup {n}
      BY <1>7, Zenon DEF RenewReservationsList
    <2>2. n.phase = "update" /\ n.op = "renewreservations"
      BY DEF NewCall
    <2> HIDE DEF n
    <2> QED
      BY <2>1, <2>2, <1>b
  <1>8. ASSUME JanitorList(p, i) PROVE PopsFit'
    <2> DEFINE n == [NewCall(p, i, "janitor", NoPop, FALSE, 0, 0)
                        EXCEPT !.phase = "update", !.fresh = TRUE]
    <2>1. calls' = calls \cup {n}
      BY <1>8, Zenon DEF JanitorList
    <2>2. n.phase = "update" /\ n.op = "janitor"
      BY DEF NewCall
    <2> HIDE DEF n
    <2> QED
      BY <2>1, <2>2, <1>b
  <1> QED
    BY <1>1, <1>2, <1>3, <1>4, <1>5, <1>6, <1>7, <1>8

\* Every step of a call leaves calls that fit: a claim lists and creates only
\* when it found no Lease and named no PoP.
LEMMA StepFits ==
    ASSUME Inv, PopsFit, Step
    PROVE  PopsFit'
  <1>0. PICK c \in calls :
        \/ ClaimGet(c) \/ CreateLeaseList(c) \/ CreateLease(c) \/ ClaimUpdate(c)
        \/ StartRenew(c) \/ RenewUpdate(c) \/ OwnerGet(c)
        \/ ReleaseGenerationGet(c) \/ DeleteReservationGet(c) \/ StopRenew(c)
        \/ WriteBack(c) \/ Fail(c)
    BY DEF Step
  <1>h. TypeOK
    BY DEF Inv
  <1>c. c \in Calls /\ Fits(c)
    BY <1>h DEF TypeOK, PopsFit, Fits
  <1>o. /\ \A d \in Retry(c) \cup Refused(c) : Fits(d)
        /\ \A g, b : Fits(GrantedCall(c, g, b))
        /\ \A n : n.op = c.op /\ n.pop = c.pop /\ n.phase \in {"stop", "update"} => Fits(n)
    BY <1>h, OnwardFits
  <1>r. Return(c) => PopsFit'
    BY ContinueFits DEF Return
  <1>s. \A n : Fits(n) /\ Continue(c, {n}) => PopsFit'
    BY ContinueFits
  <1>p. /\ LET n == [c EXCEPT !.phase = "update", !.fresh = TRUE]
           IN  n.op = c.op /\ n.pop = c.pop /\ n.phase = "update"
        /\ \A g : LET n == [c EXCEPT !.phase = "update", !.fresh = TRUE, !.gen = g]
                  IN  n.op = c.op /\ n.pop = c.pop /\ n.phase = "update"
    BY <1>c DEF Calls
  <1>u. \A n : /\ n.op = c.op /\ n.pop = c.pop /\ n.phase \in {"stop", "update"}
               /\ Continue(c, {n})
               => PopsFit'
    BY <1>o, <1>s
  <1>v. Continue(c, {[c EXCEPT !.phase = "update", !.fresh = TRUE]}) => PopsFit'
    BY <1>u, <1>p
  <1>x. Continue(c, {[c EXCEPT !.phase = "stop", !.fresh = TRUE]}) => PopsFit'
    <2>1. /\ [c EXCEPT !.phase = "stop", !.fresh = TRUE].op = c.op
          /\ [c EXCEPT !.phase = "stop", !.fresh = TRUE].pop = c.pop
          /\ [c EXCEPT !.phase = "stop", !.fresh = TRUE].phase = "stop"
      BY <1>c DEF Calls
    <2> QED
      BY <1>u, <2>1
  <1>t. Continue(c, Retry(c)) \/ Continue(c, Refused(c)) => PopsFit'
    BY <1>o, ContinueFits
  <1>g. \A n, i, l : Fits(n) /\ Commit(c, {n}, i, l) => PopsFit'
    BY <1>h, CommitFits
  <1>w. \A i, l : Commit(c, {}, i, l) => PopsFit'
    BY <1>h, CommitFits
  <1>1. ASSUME ClaimGet(c) PROVE PopsFit'
    <2>1. c.pop = NoPop => Fits([c EXCEPT !.phase = "list"])
      BY <1>1, <1>c DEF Fits, Calls, ClaimGet
    <2>2. CASE Return(c)
      BY <2>2, <1>r
    <2>3. CASE c.pop = NoPop /\ Continue(c, {[c EXCEPT !.phase = "list"]})
      <3> DEFINE n == [c EXCEPT !.phase = "list"]
      <3>1. Fits(n) /\ Continue(c, {n})
        BY <2>1, <2>3
      <3> HIDE DEF n
      <3> QED
        BY <3>1, <1>s
    <2>4. CASE \E g : Continue(c, {[c EXCEPT !.phase = "update", !.fresh = TRUE,
                                            !.gen = g]})
      <3>1. PICK g : Continue(c, {[c EXCEPT !.phase = "update", !.fresh = TRUE,
                                            !.gen = g]})
        BY <2>4
      <3> DEFINE n == [c EXCEPT !.phase = "update", !.fresh = TRUE, !.gen = g]
      <3>2. /\ n.op = c.op /\ n.pop = c.pop /\ n.phase = "update"
            /\ Continue(c, {n})
        BY <1>c, <3>1 DEF Calls
      <3> HIDE DEF n
      <3> QED
        BY <3>2, <1>u
    <2>5. \/ Return(c)
          \/ Continue(c, {[c EXCEPT !.phase = "list"]})
          \/ \E g : Continue(c, {[c EXCEPT !.phase = "update", !.fresh = TRUE,
                                           !.gen = g]})
      BY <1>1 DEF ClaimGet
    <2>6. \/ c.pop = NoPop
          \/ Return(c)
          \/ \E g : Continue(c, {[c EXCEPT !.phase = "update", !.fresh = TRUE,
                                           !.gen = g]})
      BY <1>1 DEF ClaimGet
    <2> QED
      BY <2>2, <2>3, <2>4, <2>5, <2>6
  <1>2. ASSUME CreateLeaseList(c) PROVE PopsFit'
    <2>1. Fits([c EXCEPT !.phase = "create"])
      BY <1>2, <1>c DEF Fits, Calls, CreateLeaseList
    <2> QED
      BY <1>2, <2>1, <1>r, <1>s DEF CreateLeaseList
  <1>3. ASSUME CreateLease(c) PROVE PopsFit'
    BY <1>3, <1>o, <1>r, <1>t, <1>g DEF CreateLease
  <1>4. ASSUME ClaimUpdate(c) PROVE PopsFit'
    BY <1>4, <1>o, <1>t, <1>g DEF ClaimUpdate
  <1>5. ASSUME StartRenew(c) PROVE PopsFit'
    BY <1>5, <1>r DEF StartRenew
  <1>6. ASSUME RenewUpdate(c) PROVE PopsFit'
    BY <1>6, <1>r, <1>w DEF RenewUpdate
  <1>7. ASSUME OwnerGet(c) PROVE PopsFit'
    <2>1. Return(c) \/ Continue(c, {[c EXCEPT !.phase = "update", !.fresh = TRUE]})
      BY <1>7 DEF OwnerGet
    <2> QED
      BY <2>1, <1>v, <1>r
  <1>8. ASSUME ReleaseGenerationGet(c) PROVE PopsFit'
    <2>1. Return(c) \/ Continue(c, {[c EXCEPT !.phase = "stop", !.fresh = TRUE]})
      BY <1>8 DEF ReleaseGenerationGet
    <2> QED
      BY <2>1, <1>x, <1>r
  <1>9. ASSUME DeleteReservationGet(c) PROVE PopsFit'
    <2>1. Return(c) \/ Continue(c, {[c EXCEPT !.phase = "stop", !.fresh = TRUE]})
      BY <1>9 DEF DeleteReservationGet
    <2> QED
      BY <2>1, <1>x, <1>r
  <1>10. ASSUME WriteBack(c) PROVE PopsFit'
    BY <1>10, <1>t, <1>w DEF WriteBack
  <1>12. ASSUME StopRenew(c) PROVE PopsFit'
    <2>1. /\ [c EXCEPT !.phase = "update"].op = c.op
          /\ [c EXCEPT !.phase = "update"].pop = c.pop
          /\ [c EXCEPT !.phase = "update"].phase = "update"
      BY <1>c DEF Calls
    <2>2. Continue(c, {[c EXCEPT !.phase = "update"]})
      BY <1>12 DEF StopRenew
    <2> QED
      BY <1>u, <2>1, <2>2
  <1>11. ASSUME Fail(c) PROVE PopsFit'
    BY <1>11, <1>r DEF Fail
  <1> QED
    BY <1>0, <1>1, <1>2, <1>3, <1>4, <1>5, <1>6, <1>7, <1>8, <1>9, <1>10, <1>11,
       <1>12

\* The environment adds no call.
LEMMA EnvironmentFits ==
    ASSUME PopsFit, Environment
    PROVE  PopsFit'
  <1>1. calls' \subseteq calls
    <2>1. ASSUME NEW p \in Pods, Restart(p) PROVE calls' \subseteq calls
      BY <2>1 DEF Restart
    <2>2. ASSUME NEW i \in IDs, NEW pop \in Pops, Reserve(i, pop)
          PROVE  calls' \subseteq calls
      BY <2>2 DEF Reserve
    <2>3. ASSUME NEW p \in Pods, NEW i \in IDs, Deliver(p, i) \/ Relist(p, i)
          PROVE  calls' \subseteq calls
      BY <2>3 DEF Deliver, Relist
    <2>4. ASSUME Tick PROVE calls' \subseteq calls
      <3>1. UNCHANGED <<born, held, calls, queue, cache, fails>>
        BY <2>4 DEF Tick
      <3> QED
        BY <3>1
    <2> QED
      BY <2>1, <2>2, <2>3, <2>4 DEF Environment
  <1> QED
    BY <1>1 DEF PopsFit
\* Every step leaves calls that fit.
LEMMA FitStep ==
    ASSUME Inv, PopsFit, [Next]_vars
    PROVE  PopsFit'
  <1>1. ASSUME UNCHANGED vars PROVE PopsFit'
    BY <1>1 DEF vars, PopsFit
  <1>2. ASSUME Next PROVE PopsFit'
    BY <1>2, CallFits, StepFits, EnvironmentFits DEF Next
  <1> QED
    BY <1>1, <1>2

\* Object i is new, gone, or still there with its PoP.
PopKept(i) ==
    \/ born'[i] = born[i] + 1
    \/ /\ born'[i] = born[i]
       /\ Exists(lease'[i]) => Exists(lease[i]) /\ lease'[i].pop = lease[i].pop

\* An answer on its way names the PoP of its Lease if it did before, or if it is
\* new and right: the answers for an earlier object of the name no longer count.
LEMMA PopsKept ==
    ASSUME Inv, FInv, ReservationRespected,
           \A i \in IDs : PopKept(i),
           \A d \in calls' : d.phase = "start" =>
               \/ \E c \in calls : Same(d, c)
               \/ Exists(lease'[d.id]) => lease'[d.id].pop = d.pop
    PROVE  ReservationRespected'
  <1> SUFFICES ASSUME NEW d \in calls', d.phase = "start", d.born = born'[d.id],
                      Exists(lease'[d.id]), NEW c \in calls, Same(d, c)
               PROVE  lease'[d.id].pop = d.pop
    BY DEF ReservationRespected
  <1>1. c \in Calls /\ c.id = d.id /\ c.phase = "start" /\ c.pop = d.pop /\ c.born = d.born
    BY DEF Same, Inv, TypeOK
  <1>2. c.id \in IDs /\ c.born \in Nat /\ born[c.id] \in Nat
    BY <1>1 DEF Calls, Inv, TypeOK
  <1>3. c.born <= born[c.id]
    <2>1. Token(c) \in Granted(c.id)
      BY <1>1, <1>2, GrantedMember
    <2>2. Token(c).born = c.born
      BY DEF Token
    <2> QED
      BY <2>1, <2>2, <1>2 DEF FInv, Fenced
  <1>4. born'[c.id] # born[c.id] + 1
    BY <1>1, <1>2, <1>3
  <1>5. /\ born'[c.id] = born[c.id] /\ Exists(lease[c.id])
        /\ lease'[c.id].pop = lease[c.id].pop
    BY <1>1, <1>2, <1>4 DEF PopKept
  <1>6. lease[c.id].pop = c.pop
    BY <1>1, <1>5 DEF ReservationRespected
  <1> QED
    BY <1>1, <1>5, <1>6

\* A quiet step keeps the PoP of every object.
LEMMA QuietKeepsPops ==
    ASSUME Inv, FInv, ReservationRespected, StartsKept, \A i \in IDs : Quiet(i)
    PROVE  ReservationRespected'
  <1>1. \A i \in IDs : PopKept(i)
    BY DEF Quiet, PopKept
  <1>2. \A d \in calls' : d.phase = "start" => \E c \in calls : Same(d, c)
    BY DEF StartsKept
  <1> QED
    BY <1>1, <1>2, PopsKept

\* The steps that grant a claim, or start its renewal.
LEMMA GrantRespects ==
    ASSUME Inv, FInv, PopsFit, ReservationRespected, NEW c \in calls
    PROVE  /\ CreateLease(c) => ReservationRespected'
           /\ ClaimUpdate(c) => ReservationRespected'
           /\ StartRenew(c) => ReservationRespected'
  <1>c. /\ c \in Calls /\ c.id \in IDs /\ c.pod \in Pods
        /\ c.gen \in Nat /\ born[c.id] \in Nat
        /\ lease[c.id] \in Leases \cup {NoLease}
    BY DEF Inv, TypeOK, Calls
  <1>h. TypeOK
    BY DEF Inv
  <1>r. /\ \A d \in Retry(c) : d.phase # "start"
        /\ \A d \in Refused(c) : d.phase # "start"
    BY <1>c, RetryFacts, RefusedFacts
  <1>q. ASSUME UNCHANGED <<lease, born>>,
               Return(c) \/ Continue(c, Retry(c)) \/ Continue(c, Refused(c))
        PROVE  ReservationRespected'
    <2>1. StartsKept
      BY <1>q, <1>r, OneStarts, ContinueStarts
    <2> QED
      BY <1>q, <2>1, NoWriteQuiet, QuietKeepsPops
  <1>g. ASSUME NEW l, NEW g \in Nat, NEW b \in Nat,
               Commit(c, {GrantedCall(c, g, b)}, c.id, l), l.pop = c.pop
        PROVE  \A d \in calls' :
                  \/ \E e \in calls : Same(d, e)
                  \/ lease'[d.id].pop = d.pop
    <2>1. lease'[c.id] = l
      BY <1>g, <1>c, <1>h DEF Commit, TypeOK
    <2>2. GrantedCall(c, g, b).id = c.id /\ GrantedCall(c, g, b).pop = c.pop
      BY DEF GrantedCall, NewCall
    <2>3. \A d \in calls' : d = GrantedCall(c, g, b) \/ \E e \in calls : Same(d, e)
      BY <1>g, <1>h, CommitStarts
    <2> QED
      BY <1>g, <2>1, <2>2, <2>3
  <1>1. ASSUME CreateLease(c) PROVE ReservationRespected'
    <2>1. CASE UNCHANGED <<lease, born>> /\ (Return(c) \/ Continue(c, Retry(c)))
      BY <2>1, <1>q
    <2>2. ASSUME born' = [born EXCEPT ![c.id] = @ + 1],
                 NEW l, l = [holder |-> c.pod, gen |-> 1, pop |-> NoPop, age |-> 0,
                             grace |-> NoGrace, stalled |-> FALSE],
                 Commit(c, {GrantedCall(c, 1, born'[c.id])}, c.id, l)
          PROVE  ReservationRespected'
      <3>1. c.pop = NoPop /\ l.pop = NoPop
        BY <1>1, <2>2 DEF PopsFit, CreateLease
      <3>2. born'[c.id] \in Nat /\ 1 \in Nat
        BY <1>c, <1>h, <2>2 DEF TypeOK
      <3>3. \A d \in calls' : (\E e \in calls : Same(d, e)) \/ lease'[d.id].pop = d.pop
        BY <2>2, <3>1, <3>2, <1>g
      <3>4. \A i \in IDs : PopKept(i)
        <4>1. ASSUME NEW i \in IDs PROVE PopKept(i)
          <5>1. CASE i = c.id
            BY <2>2, <1>h, <1>c, <5>1 DEF PopKept, TypeOK
          <5>2. CASE i # c.id
            BY <2>2, <1>h, <1>c, <5>2 DEF PopKept, TypeOK, Commit
          <5> QED
            BY <5>1, <5>2
        <4> QED
          BY <4>1
      <3> QED
        BY <3>3, <3>4, PopsKept
    <2> QED
      BY <1>1, <2>1, <2>2 DEF CreateLease
  <1>2. ASSUME ClaimUpdate(c) PROVE ReservationRespected'
    <2>1. CASE UNCHANGED <<lease, born>> /\ Continue(c, Refused(c))
      BY <2>1, <1>q
    <2>2. ASSUME UNCHANGED born, c.op = "claim", Unchanged(c),
                 NEW l, l = ClaimedBy(c.pod, c.gen, lease[c.id]),
                 Commit(c, {GrantedCall(c, c.gen, born[c.id])}, c.id, l)
          PROVE  ReservationRespected'
      <3>1. Exists(lease[c.id]) /\ lease[c.id].pop = c.pop
        BY <2>2 DEF Inv, DecisionsStand, DecidedOn, Unchanged
      <3>2. lease[c.id] \in Leases
        BY <1>c, <3>1, LeaseFacts
      <3>3. l.pop = lease[c.id].pop
        BY <2>2, <3>2 DEF ClaimedBy, Leases
      <3>4. \A d \in calls' : (\E e \in calls : Same(d, e)) \/ lease'[d.id].pop = d.pop
        BY <2>2, <3>1, <3>3, <1>c, <1>g
      <3>5. \A i \in IDs : PopKept(i)
        BY <2>2, <1>h, <1>c, <3>1, <3>3 DEF PopKept, TypeOK, Commit
      <3> QED
        BY <3>4, <3>5, PopsKept
    <2> QED
      BY <1>2, <2>1, <2>2 DEF ClaimUpdate
  <1>3. ASSUME StartRenew(c) PROVE ReservationRespected'
    BY <1>3, <1>q DEF StartRenew
  <1> QED
    BY <1>1, <1>2, <1>3

\* Every step keeps it.
LEMMA RespectStep ==
    ASSUME Inv, FInv, PopsFit, ReservationRespected, [Next]_vars
    PROVE  ReservationRespected'
  <1>1. ASSUME UNCHANGED vars PROVE ReservationRespected'
    BY <1>1 DEF vars, ReservationRespected
  <1>2. ASSUME Call PROVE ReservationRespected'
    BY <1>2, CallQuiet, NoWriteQuiet, QuietKeepsPops
  <1>3. ASSUME Step PROVE ReservationRespected'
    BY <1>3, StepQuiet, QuietKeepsPops, GrantRespects DEF Step
  <1>4. ASSUME Environment PROVE ReservationRespected'
    BY <1>4, EnvironmentQuiet, QuietKeepsPops
  <1> QED
    BY <1>1, <1>2, <1>3, <1>4 DEF Next

\* What the reservations and the atomicity of the calls rest on.
RInv == Inv /\ FInv /\ PopsFit /\ ReservationRespected

\* It holds in every reachable state.
LEMMA RespectInvariant == Spec => []RInv
  <1>1. Init => FInv /\ PopsFit /\ ReservationRespected
    BY DEF Init, FInv, Fenced, GenerationsUnique, Granted, PopsFit, ReservationRespected
  <1>2. Inv /\ FInv /\ PopsFit /\ ReservationRespected /\ [Next]_vars
            => FInv' /\ PopsFit' /\ ReservationRespected'
    BY FenceStep, FitStep, RespectStep
  <1> QED
    BY <1>1, <1>2, InvHolds, PTL DEF Spec, RInv

\* A resume token never takes a reservation, and a PoP's claim nothing else: not
\* even a Lease that was deleted and made again while the claim was under way.
THEOREM ReservationsRespected == Spec => []ReservationRespected
  BY RespectInvariant, PTL DEF RInv
--------------------------------------------------------------------------------
(* The calls look atomic *)

\* The Leases everybody else sees, and one of them written.
Seen == [i \in IDs |-> Abstract(lease[i])]
SeenWrite(i, a) == Seen' = [Seen EXCEPT ![i] = a]

\* What is seen of a Lease, and that a missing one is told from the others.
LEMMA AbstractFacts ==
    ASSUME NEW l \in Leases \cup {NoLease}
    PROVE  /\ Abstract(l).holder = l.holder /\ Abstract(l).gen = l.gen
           /\ Abstract(l).pop = l.pop
           /\ Abstract(l).away = (l.grace # NoGrace)
           /\ Abstract(l).expired = (Exists(l) /\ janitorExpired(l))
           /\ Abstract(NoLease) = Atomic!Nothing
           /\ (Abstract(l) = Atomic!Nothing) = ~Exists(l)
  <1>1. /\ Abstract(l).holder = l.holder /\ Abstract(l).gen = l.gen
        /\ Abstract(l).pop = l.pop
        /\ Abstract(l).away = (l.grace # NoGrace)
        /\ Abstract(l).expired = (Exists(l) /\ janitorExpired(l))
    BY DEF Abstract
  <1>2. Abstract(NoLease) = Atomic!Nothing
    <2>1. ~Exists(NoLease)
      BY DEF Exists
    <2>2. NoLease.grace = NoGrace
      BY DEF NoLease
    <2> QED
      BY <2>1, <2>2 DEF Abstract, Atomic!Nothing, NoLease
  <1>3. l \in Leases => Abstract(l) # Atomic!Nothing
    <2>1. l \in Leases => l.gen \in Nat
      BY DEF Leases
    <2>2. Atomic!Nothing.gen = -1
      BY DEF Atomic!Nothing
    <2> QED
      BY <1>1, <2>1, <2>2
  <1> QED
    BY <1>1, <1>2, <1>3, LeaseFacts DEF Exists

\* A write of one object is seen as a write of that object.
LEMMA CommitSeen ==
    ASSUME TypeOK, NEW c \in calls, NEW next, NEW i \in IDs, NEW l,
           Commit(c, next, i, l)
    PROVE  SeenWrite(i, Abstract(l))
  BY DEF TypeOK, Commit, Seen, SeenWrite

\* A step that writes no Lease is not seen.
LEMMA NoWriteSeen ==
    ASSUME UNCHANGED lease
    PROVE  UNCHANGED Seen
  BY DEF Seen

\* What is seen of a Lease, field by field.
LEMMA SeenRecord ==
    ASSUME NEW l
    PROVE  \E w, e : /\ w = (l.grace # NoGrace)
                     /\ Abstract(l) = [holder |-> l.holder, gen |-> l.gen,
                                       pop |-> l.pop, away |-> w, expired |-> e]
  BY Zenon DEF Abstract

\* What is seen of a Lease the janitor leaves alone.
LEMMA UnexpiredSeen ==
    ASSUME NEW m, ~janitorExpired(m)
    PROVE  Abstract(m) = [holder |-> m.holder, gen |-> m.gen, pop |-> m.pop,
                          away |-> m.grace # NoGrace, expired |-> FALSE]
  <1>1. (Exists(m) /\ janitorExpired(m)) = FALSE
    OBVIOUS
  <1> QED
    BY <1>1, Zenon DEF Abstract

\* A claim of a Lease that is there: the new holder's, ready and not expired.
LEMMA ClaimSeen ==
    ASSUME NEW l \in Leases, NEW p \in Pods, NEW g \in Nat, g = l.gen + 1
    PROVE  Abstract(ClaimedBy(p, g, l)) =
             [Abstract(l) EXCEPT !.holder = p, !.gen = @ + 1,
                                 !.away = FALSE, !.expired = FALSE]
  <1> DEFINE m == ClaimedBy(p, g, l)
  <1>1. /\ m.holder = p /\ m.gen = l.gen + 1 /\ m.pop = l.pop
        /\ m.age = 0 /\ m.grace = NoGrace
    BY DEF ClaimedBy, Leases
  <1>2. ~janitorExpired(m)
    <2>1. p # NoPod /\ ~RenewedTooLongAgo(m)
      BY <1>1, NamesAssumption, AgeFacts DEF RenewedTooLongAgo
    <2> QED
      BY <1>1, <2>1 DEF janitorExpired
  <1> HIDE DEF m
  <1>3. Abstract(m) = [holder |-> p, gen |-> l.gen + 1, pop |-> l.pop,
                       away |-> FALSE, expired |-> FALSE]
    <2>1. (m.grace # NoGrace) = FALSE
      BY <1>1
    <2> QED
      BY <1>1, <1>2, <2>1, UnexpiredSeen
  <1>4. [Abstract(l) EXCEPT !.holder = p, !.gen = @ + 1, !.away = FALSE, !.expired = FALSE]
          = [holder |-> p, gen |-> l.gen + 1, pop |-> l.pop,
             away |-> FALSE, expired |-> FALSE]
    <2>1. PICK w, e : Abstract(l) = [holder |-> l.holder, gen |-> l.gen, pop |-> l.pop,
                                     away |-> w, expired |-> e]
      BY SeenRecord
    <2>2. PICK a : a = [Abstract(l) EXCEPT !.holder = p]
      OBVIOUS
    <2>3. a = [holder |-> p, gen |-> l.gen, pop |-> l.pop, away |-> w, expired |-> e]
      BY <2>1, <2>2
    <2>4. PICK b : b = [a EXCEPT !.gen = @ + 1]
      OBVIOUS
    <2>5. b = [holder |-> p, gen |-> l.gen + 1, pop |-> l.pop, away |-> w, expired |-> e]
      BY <2>3, <2>4
    <2>6. PICK no : no = FALSE
      OBVIOUS
    <2>7. PICK d : d = [b EXCEPT !.away = no]
      OBVIOUS
    <2>8. d = [holder |-> p, gen |-> l.gen + 1, pop |-> l.pop, away |-> no, expired |-> e]
      BY <2>5, <2>7
    <2>9. [d EXCEPT !.expired = no]
            = [holder |-> p, gen |-> l.gen + 1, pop |-> l.pop, away |-> no, expired |-> no]
      BY <2>8
    <2> QED
      BY <2>2, <2>4, <2>6, <2>7, <2>9
  <1> QED
    BY <1>3, <1>4 DEF m

\* A renewal is seen only when it lifts an expiry, which it does unless a grace
\* deadline counts.
LEMMA RenewSeen ==
    ASSUME NEW l \in Leases
    PROVE  \/ Abstract([l EXCEPT !.age = 0]) = Abstract(l)
           \/ /\ Abstract(l).expired
              /\ ~Abstract(l).away \/ Abstract(l).holder = NoPod
              /\ Abstract([l EXCEPT !.age = 0]) = [Abstract(l) EXCEPT !.expired = FALSE]
  <1> DEFINE m == [l EXCEPT !.age = 0]
  <1>1. /\ m.holder = l.holder /\ m.gen = l.gen /\ m.pop = l.pop
        /\ m.grace = l.grace /\ m.age = 0 /\ m \in Leases
    BY AgeFacts DEF Leases
  <1>2. Exists(l) /\ Exists(m)
    BY <1>1, LeaseFacts
  <1>3. ~RenewedTooLongAgo(m)
    BY <1>1, AgeFacts DEF RenewedTooLongAgo
  <1>4. GraceOver(m) = GraceOver(l) /\ isPopLease(m) = isPopLease(l)
    BY <1>1 DEF GraceOver, isPopLease
  <1> HIDE DEF m
  <1>5. CASE (isPopLease(l) /\ l.holder = NoPod) \/ l.grace = NoGrace
    <2>1. ~janitorExpired(m)
      BY <1>1, <1>3, <1>4, <1>5 DEF janitorExpired
    <2>2. CASE janitorExpired(l)
      <3>1. Abstract(m) = [Abstract(l) EXCEPT !.expired = FALSE]
        <4>1. Abstract(m) = [holder |-> l.holder, gen |-> l.gen, pop |-> l.pop,
                             away |-> l.grace # NoGrace, expired |-> FALSE]
          BY <1>1, <2>1, UnexpiredSeen
        <4>2. [Abstract(l) EXCEPT !.expired = FALSE]
                = [holder |-> l.holder, gen |-> l.gen, pop |-> l.pop,
                   away |-> l.grace # NoGrace, expired |-> FALSE]
          <5>1. PICK w, e : /\ w = (l.grace # NoGrace)
                            /\ Abstract(l) = [holder |-> l.holder, gen |-> l.gen,
                                              pop |-> l.pop, away |-> w, expired |-> e]
            BY SeenRecord
          <5>2. PICK no : no = FALSE
            OBVIOUS
          <5>3. [Abstract(l) EXCEPT !.expired = no]
                  = [holder |-> l.holder, gen |-> l.gen, pop |-> l.pop,
                     away |-> w, expired |-> no]
            BY <5>1
          <5>4. [Abstract(l) EXCEPT !.expired = FALSE]
                  = [holder |-> l.holder, gen |-> l.gen, pop |-> l.pop,
                     away |-> w, expired |-> FALSE]
            BY <5>2, <5>3
          <5> QED
            BY <5>1, <5>4, Zenon
        <4> QED
          BY <4>1, <4>2
      <3>2. Abstract(l).expired /\ (~Abstract(l).away \/ Abstract(l).holder = NoPod)
        BY <1>2, <1>5, <2>2 DEF Abstract
      <3> QED
        BY <3>1, <3>2 DEF m
    <2>3. CASE ~janitorExpired(l)
      <3>1. Abstract(m) = Abstract(l)
        BY <1>1, <1>2, <2>1, <2>3 DEF Abstract
      <3> QED
        BY <3>1 DEF m
    <2> QED
      BY <2>2, <2>3
  <1>6. CASE ~(isPopLease(l) /\ l.holder = NoPod) /\ l.grace # NoGrace
    <2>1. janitorExpired(m) = janitorExpired(l)
      BY <1>1, <1>4, <1>6 DEF janitorExpired
    <2>2. Abstract(m) = Abstract(l)
      BY <1>1, <1>2, <2>1 DEF Abstract
    <2> QED
      BY <2>2 DEF m
  <1> QED
    BY <1>5, <1>6

\* A fresh grace deadline in the holder's name takes any expiry away.
LEMMA GraceSeen ==
    ASSUME NEW l \in Leases, l.holder # NoPod
    PROVE  Abstract([l EXCEPT !.grace = 0]) =
             [Abstract(l) EXCEPT !.away = TRUE, !.expired = FALSE]
  <1> DEFINE m == [l EXCEPT !.grace = 0]
  <1>1. /\ m.holder = l.holder /\ m.gen = l.gen /\ m.pop = l.pop
        /\ m.grace = 0 /\ m.grace # NoGrace
    BY AgeFacts DEF Leases
  <1>2. ~janitorExpired(m)
    BY <1>1, AgeFacts DEF janitorExpired, GraceOver
  <1> HIDE DEF m
  <1>3. Abstract(m) = [Abstract(l) EXCEPT !.away = TRUE, !.expired = FALSE]
    <2>1. (m.grace # NoGrace) = TRUE
      BY <1>1
    <2>2. Abstract(m) = [holder |-> l.holder, gen |-> l.gen, pop |-> l.pop,
                         away |-> TRUE, expired |-> FALSE]
      BY <1>1, <1>2, <2>1, UnexpiredSeen
    <2>3. [Abstract(l) EXCEPT !.away = TRUE, !.expired = FALSE]
            = [holder |-> l.holder, gen |-> l.gen, pop |-> l.pop,
               away |-> TRUE, expired |-> FALSE]
      <3>1. PICK w, e : Abstract(l) = [holder |-> l.holder, gen |-> l.gen,
                                       pop |-> l.pop, away |-> w, expired |-> e]
        BY SeenRecord
      <3>2. PICK yes, no : yes = TRUE /\ no = FALSE
        OBVIOUS
      <3>3. PICK a : a = [Abstract(l) EXCEPT !.away = yes]
        OBVIOUS
      <3>4. a = [holder |-> l.holder, gen |-> l.gen, pop |-> l.pop,
                 away |-> yes, expired |-> e]
        BY <3>1, <3>3
      <3>5. [a EXCEPT !.expired = no] = [holder |-> l.holder, gen |-> l.gen, pop |-> l.pop,
                                         away |-> yes, expired |-> no]
        BY <3>4
      <3> QED
        BY <3>2, <3>3, <3>5
    <2> QED
      BY <2>2, <2>3
  <1> QED
    BY <1>3 DEF m

\* Nobody sees the stall stamp.
LEMMA StallSeen ==
    ASSUME NEW l \in Leases, NEW b \in BOOLEAN
    PROVE  Abstract([l EXCEPT !.stalled = b]) = Abstract(l)
  <1> DEFINE m == [l EXCEPT !.stalled = b]
  <1>1. /\ m.holder = l.holder /\ m.gen = l.gen /\ m.pop = l.pop
        /\ m.grace = l.grace /\ m.age = l.age /\ m \in Leases
    BY DEF Leases
  <1>2. Exists(l) /\ Exists(m)
    BY <1>1, LeaseFacts
  <1> HIDE DEF m
  <1>3. janitorExpired(m) = janitorExpired(l)
    BY <1>1 DEF janitorExpired, RenewedTooLongAgo, GraceOver, isPopLease
  <1>4. Abstract(m) = Abstract(l)
    BY <1>1, <1>2, <1>3 DEF Abstract
  <1> QED
    BY <1>4 DEF m

\* A release clears the holder; a reservation is also ready for its PoP again.
LEMMA ReleaseSeen ==
    ASSUME NEW l \in Leases
    PROVE  Abstract(released(l)) =
             IF l.pop = NoPop
             THEN [Abstract(l) EXCEPT !.holder = NoPod]
             ELSE [Abstract(l) EXCEPT !.holder = NoPod, !.away = FALSE,
                                      !.expired = FALSE]
  <1> DEFINE m == released(l)
  <1>1. CASE isPopLease(l)
    <2>1. /\ m.holder = NoPod /\ m.gen = l.gen /\ m.pop = l.pop
          /\ m.grace = NoGrace /\ m.age = 0
      BY <1>1 DEF released, Leases
    <2>2. ~janitorExpired(m)
      BY <1>1, <2>1, AgeFacts DEF janitorExpired, RenewedTooLongAgo, isPopLease
    <2> HIDE DEF m
    <2>3. Abstract(m) = [Abstract(l) EXCEPT !.holder = NoPod, !.away = FALSE,
                                            !.expired = FALSE]
      <3>1. (m.grace # NoGrace) = FALSE
        BY <2>1
      <3>2. Abstract(m) = [holder |-> NoPod, gen |-> l.gen, pop |-> l.pop,
                           away |-> FALSE, expired |-> FALSE]
        BY <2>1, <2>2, <3>1, UnexpiredSeen
      <3>3. [Abstract(l) EXCEPT !.holder = NoPod, !.away = FALSE, !.expired = FALSE]
              = [holder |-> NoPod, gen |-> l.gen, pop |-> l.pop,
                 away |-> FALSE, expired |-> FALSE]
        <4>1. PICK w, e : Abstract(l) = [holder |-> l.holder, gen |-> l.gen,
                                         pop |-> l.pop, away |-> w, expired |-> e]
          BY SeenRecord
        <4>2. PICK no : no = FALSE
          OBVIOUS
        <4>3. PICK a : a = [Abstract(l) EXCEPT !.holder = NoPod]
          OBVIOUS
        <4>4. a = [holder |-> NoPod, gen |-> l.gen, pop |-> l.pop,
                   away |-> w, expired |-> e]
          BY <4>1, <4>3
        <4>5. PICK b : b = [a EXCEPT !.away = no]
          OBVIOUS
        <4>6. b = [holder |-> NoPod, gen |-> l.gen, pop |-> l.pop,
                   away |-> no, expired |-> e]
          BY <4>4, <4>5
        <4>7. [b EXCEPT !.expired = no] = [holder |-> NoPod, gen |-> l.gen, pop |-> l.pop,
                                           away |-> no, expired |-> no]
          BY <4>6
        <4> QED
          BY <4>2, <4>3, <4>5, <4>7
      <3> QED
        BY <3>2, <3>3
    <2> QED
      BY <1>1, <2>3 DEF m, isPopLease
  <1>2. CASE ~isPopLease(l)
    <2>1. /\ m.holder = NoPod /\ m.gen = l.gen /\ m.pop = l.pop
          /\ m.grace = l.grace /\ m.age = l.age /\ m \in Leases
      BY <1>2 DEF released, Leases
    <2>2. Exists(l) /\ Exists(m)
      BY <2>1, LeaseFacts
    <2> HIDE DEF m
    <2>3. janitorExpired(m) = janitorExpired(l)
      BY <1>2, <2>1 DEF janitorExpired, RenewedTooLongAgo, GraceOver, isPopLease
    <2>4. Abstract(m) = [Abstract(l) EXCEPT !.holder = NoPod]
      BY <2>1, <2>2, <2>3 DEF Abstract
    <2> QED
      BY <1>2, <2>4 DEF m, isPopLease
  <1> QED
    BY <1>1, <1>2

\* A Lease just made is seen as one that has time.
LEMMA MadeSeen ==
    ASSUME NEW h \in Pods \cup {NoPod}, NEW g \in Nat, NEW q \in Pops \cup {NoPop}
    PROVE  Abstract([holder |-> h, gen |-> g, pop |-> q, age |-> 0,
                     grace |-> NoGrace, stalled |-> FALSE])
             = [holder |-> h, gen |-> g, pop |-> q, away |-> FALSE, expired |-> FALSE]
  <1> DEFINE m == [holder |-> h, gen |-> g, pop |-> q, age |-> 0,
                   grace |-> NoGrace, stalled |-> FALSE]
  <1>1. /\ m.holder = h /\ m.gen = g /\ m.pop = q /\ m.age = 0
        /\ (m.grace # NoGrace) = FALSE
    OBVIOUS
  <1>2. ~janitorExpired(m)
    BY <1>1, AgeFacts DEF janitorExpired, RenewedTooLongAgo
  <1>3. Abstract(m) = [holder |-> m.holder, gen |-> m.gen, pop |-> m.pop,
                       away |-> m.grace # NoGrace, expired |-> FALSE]
    BY <1>2, UnexpiredSeen
  <1> QED
    BY <1>1, <1>3
\* The atomic Lease, in terms of what is seen.
LEMMA AtomicFacts ==
    ASSUME TypeOK, NEW i \in IDs
    PROVE  /\ Seen[i] = Abstract(lease[i])
           /\ Atomic!There(i) <=> Exists(lease[i])
           /\ \A a : SeenWrite(i, a) => Atomic!Write(i, a)
  <1>1. lease[i] \in Leases \cup {NoLease}
    BY DEF TypeOK
  <1>2. Seen[i] = Abstract(lease[i])
    BY DEF Seen
  <1>3. Atomic!There(i) <=> Exists(lease[i])
    BY <1>1, AbstractFacts DEF Atomic!There
  <1>4. \A a : SeenWrite(i, a) => Atomic!Write(i, a)
    BY DEF SeenWrite, Seen, Atomic!Write
  <1> QED
    BY <1>2, <1>3, <1>4

\* A claim is one atomic claim.
LEMMA ClaimAtomic ==
    ASSUME RInv, NEW c \in calls
    PROVE  /\ CreateLease(c) => Atomic!Claim(c.pod, c.id, NoPop) \/ UNCHANGED Seen
           /\ ClaimUpdate(c) => Atomic!Claim(c.pod, c.id, c.pop) \/ UNCHANGED Seen
  <1>h. TypeOK
    BY DEF RInv, Inv
  <1>c. /\ c \in Calls /\ c.id \in IDs /\ c.pod \in Pods /\ c.gen \in Nat
        /\ lease[c.id] \in Leases \cup {NoLease}
    BY <1>h DEF TypeOK, Calls
  <1>a. /\ Seen[c.id] = Abstract(lease[c.id])
        /\ Atomic!There(c.id) <=> Exists(lease[c.id])
        /\ \A a : SeenWrite(c.id, a) => Atomic!Write(c.id, a)
    BY <1>h, <1>c, AtomicFacts
  <1>1. ASSUME CreateLease(c)
        PROVE  Atomic!Claim(c.pod, c.id, NoPop) \/ UNCHANGED Seen
    <2>1. CASE UNCHANGED lease
      BY <2>1, NoWriteSeen
    <2>2. ASSUME ~Exists(lease[c.id]),
                 NEW next, NEW l, l = [holder |-> c.pod, gen |-> 1, pop |-> NoPop,
                                       age |-> 0, grace |-> NoGrace, stalled |-> FALSE],
                 Commit(c, next, c.id, l)
          PROVE  Atomic!Claim(c.pod, c.id, NoPop)
      <3>1. Abstract(l) = [holder |-> c.pod, gen |-> 1, pop |-> NoPop,
                           away |-> FALSE, expired |-> FALSE]
        BY <2>2, <1>c, 1 \in Nat, MadeSeen
      <3>2. SeenWrite(c.id, Abstract(l))
        BY <2>2, <1>h, <1>c, CommitSeen
      <3>3. Atomic!Write(c.id, [holder |-> c.pod, gen |-> 1, pop |-> NoPop,
                                away |-> FALSE, expired |-> FALSE])
        BY <3>1, <3>2, <1>a, Zenon
      <3> QED
        BY <3>3, <2>2, <1>a, Zenon DEF Atomic!Claim
    <2> QED
      BY <1>1, <2>1, <2>2 DEF CreateLease
  <1>2. ASSUME ClaimUpdate(c)
        PROVE  Atomic!Claim(c.pod, c.id, c.pop) \/ UNCHANGED Seen
    <2>1. CASE UNCHANGED lease
      BY <2>1, NoWriteSeen
    <2>2. ASSUME c.op = "claim", Unchanged(c),
                 NEW next, NEW l, l = ClaimedBy(c.pod, c.gen, lease[c.id]),
                 Commit(c, next, c.id, l)
          PROVE  Atomic!Claim(c.pod, c.id, c.pop)
      <3>1. /\ Exists(lease[c.id]) /\ lease[c.id].pop = c.pop
            /\ c.gen = lease[c.id].gen + 1
        BY <2>2 DEF RInv, Inv, DecisionsStand, DecidedOn, Unchanged
      <3>2. lease[c.id] \in Leases
        BY <1>c, <3>1, LeaseFacts
      <3>3. Abstract(l) = [Abstract(lease[c.id]) EXCEPT !.holder = c.pod, !.gen = @ + 1,
                                !.away = FALSE, !.expired = FALSE]
        BY <2>2, <3>1, <3>2, <1>c, ClaimSeen
      <3>4. SeenWrite(c.id, Abstract(l))
        BY <2>2, <1>h, <1>c, CommitSeen
      <3>5. Atomic!Write(c.id, [Seen[c.id] EXCEPT !.holder = c.pod, !.gen = @ + 1,
                                !.away = FALSE, !.expired = FALSE])
        BY <3>3, <3>4, <1>a, Zenon
      <3>6. Seen[c.id].pop = c.pop
        BY <3>1, <1>a, <1>c, AbstractFacts
      <3> QED
        BY <3>1, <3>5, <3>6, <1>a DEF Atomic!Claim, Seen
    <2> QED
      BY <1>2, <2>1, <2>2 DEF ClaimUpdate
  <1> QED
    BY <1>1, <1>2
\* A renewal is one atomic renewal, or is not seen.
LEMMA RenewAtomic ==
    ASSUME TypeOK, NEW i \in IDs, lease[i] \in Leases,
           SeenWrite(i, Abstract([lease[i] EXCEPT !.age = 0]))
    PROVE  Atomic!Renew(i) \/ UNCHANGED Seen
  <1>a. /\ Seen[i] = Abstract(lease[i])
        /\ Atomic!There(i) <=> Exists(lease[i])
        /\ \A a : SeenWrite(i, a) => Atomic!Write(i, a)
    BY AtomicFacts
  <1>e. Exists(lease[i])
    BY LeaseFacts
  <1>1. CASE Abstract([lease[i] EXCEPT !.age = 0]) = Abstract(lease[i])
    <2>1. Seen' = [Seen EXCEPT ![i] = Seen[i]]
      BY <1>1, <1>a, Zenon DEF SeenWrite
    <2> QED
      BY <2>1 DEF Seen
  <1>2. CASE /\ Abstract(lease[i]).expired
             /\ ~Abstract(lease[i]).away \/ Abstract(lease[i]).holder = NoPod
             /\ Abstract([lease[i] EXCEPT !.age = 0])
                  = [Abstract(lease[i]) EXCEPT !.expired = FALSE]
    <2>1. Atomic!Write(i, [Seen[i] EXCEPT !.expired = FALSE])
      BY <1>2, <1>a, Zenon
    <2>2. Seen[i].expired /\ (~Seen[i].away \/ Seen[i].holder = NoPod)
      BY <1>2, <1>a, Zenon
    <2> QED
      BY <2>1, <2>2, <1>a, <1>e DEF Atomic!Renew, Seen
  <1> QED
    BY <1>1, <1>2, RenewSeen

\* The write of a renew loop.
LEMMA RenewUpdateAtomic ==
    ASSUME RInv, NEW c \in calls, RenewUpdate(c)
    PROVE  Atomic!Renew(c.id) \/ UNCHANGED Seen
  <1>h. TypeOK
    BY DEF RInv, Inv
  <1>c. c \in Calls /\ c.id \in IDs /\ lease[c.id] \in Leases \cup {NoLease}
    BY <1>h DEF TypeOK, Calls
  <1>1. CASE UNCHANGED lease
    BY <1>1, NoWriteSeen
  <1>2. ASSUME Unchanged(c), NEW l, l = [lease[c.id] EXCEPT !.age = 0],
               Commit(c, {}, c.id, l)
        PROVE  Atomic!Renew(c.id) \/ UNCHANGED Seen
    <2>1. Exists(lease[c.id])
      BY <1>2 DEF RInv, Inv, DecisionsStand, DecidedOn, Unchanged
    <2>2. SeenWrite(c.id, Abstract(l))
      BY <1>2, <1>h, <1>c, CommitSeen
    <2>3. SeenWrite(c.id, Abstract([lease[c.id] EXCEPT !.age = 0]))
      BY <1>2, <2>2, Zenon
    <2> QED
      BY <2>1, <2>3, <1>h, <1>c, LeaseFacts, RenewAtomic
  <1> QED
    BY <1>1, <1>2 DEF RenewUpdate

\* What the atomic Lease does on the behalf of call c.
AtomicCall(c) ==
    \/ Atomic!EnterGrace(c.pod, c.id)
    \/ Atomic!Release(c.pod, c.id)
    \/ Atomic!Delete(c.pod, c.id)
    \/ Atomic!Renew(c.id)
    \/ Atomic!Collect(c.id)
    \/ c.pop \in Pops /\ Atomic!DeleteReservation(c.id, c.pop)

\* Every other call that reads, decides and writes is one atomic call.
LEMMA WriteBackAtomic ==
    ASSUME RInv, NEW c \in calls, WriteBack(c)
    PROVE  AtomicCall(c) \/ UNCHANGED Seen
  <1>h. TypeOK
    BY DEF RInv, Inv
  <1>c. /\ c \in Calls /\ c.id \in IDs /\ c.pod \in Pods /\ c.flag \in BOOLEAN
        /\ lease[c.id] \in Leases \cup {NoLease}
    BY <1>h DEF TypeOK, Calls
  <1>1. CASE UNCHANGED lease
    BY <1>1, NoWriteSeen
  <1>2. ASSUME c.op \notin {"claim", "renew"}, Unchanged(c),
               NEW l, l = Written(c, lease[c.id]), Commit(c, {}, c.id, l)
        PROVE  AtomicCall(c) \/ UNCHANGED Seen
    <2> DEFINE m == lease[c.id]
    <2>d. DecidedOn(c, m)
      BY <1>2 DEF RInv, Inv, DecisionsStand, Unchanged
    <2>m. m \in Leases /\ Exists(m)
      BY <2>d, <1>c, LeaseFacts DEF DecidedOn
    <2>w. SeenWrite(c.id, Abstract(l))
      BY <1>2, <1>h, <1>c, CommitSeen
    <2>a. /\ Seen[c.id] = Abstract(m)
          /\ Atomic!There(c.id)
          /\ \A a : SeenWrite(c.id, a) => Atomic!Write(c.id, a)
      BY <2>m, <1>h, <1>c, AtomicFacts
    <2>s. /\ Seen[c.id].holder = m.holder /\ Seen[c.id].pop = m.pop
          /\ Seen[c.id].expired = (Exists(m) /\ janitorExpired(m))
      BY <2>a, <1>c, AbstractFacts
    <2> HIDE DEF m
    <2>n. c.op \in {"delete", "deletereservation", "janitor"}
            => Atomic!Write(c.id, Atomic!Nothing)
      <3>1. c.op \in {"delete", "deletereservation", "janitor"} => l = NoLease
        BY <1>2 DEF Written
      <3>2. Abstract(NoLease) = Atomic!Nothing
        BY AbstractFacts
      <3> QED
        BY <3>1, <3>2, <2>w, <2>a
    <2>1. CASE c.op = "grace"
      <3>1. m.holder = c.pod /\ c.pod # NoPod
        BY <2>1, <2>d, <1>c, NamesAssumption DEF DecidedOn, OwnsWhatItRead
      <3>2. l = [m EXCEPT !.grace = 0]
        BY <2>1, <1>2 DEF Written, m
      <3>3. Abstract([m EXCEPT !.grace = 0])
              = [Abstract(m) EXCEPT !.away = TRUE, !.expired = FALSE]
        BY <3>1, <2>m, GraceSeen
      <3>4. Atomic!Write(c.id, [Seen[c.id] EXCEPT !.away = TRUE, !.expired = FALSE])
        BY <3>2, <3>3, <2>w, <2>a, Zenon
      <3>5. Atomic!EnterGrace(c.pod, c.id)
        BY <3>1, <3>4, <2>a, <2>s DEF Atomic!EnterGrace, Seen
      <3> QED
        BY <3>5 DEF AtomicCall
    <2>2. CASE c.op = "stall"
      <3>1. l = [m EXCEPT !.stalled = c.flag]
        BY <2>2, <1>2 DEF Written, m
      <3>2. Abstract([m EXCEPT !.stalled = c.flag]) = Abstract(m)
        BY <2>m, <1>c, StallSeen
      <3>3. Seen' = [Seen EXCEPT ![c.id] = Seen[c.id]]
        BY <3>1, <3>2, <2>w, <2>a, Zenon DEF SeenWrite
      <3>4. UNCHANGED Seen
        BY <3>3 DEF Seen
      <3> QED
        BY <3>4
    <2>3. CASE c.op \in {"release", "releasegen"}
      <3>1. m.holder = c.pod
        BY <2>3, <2>d DEF DecidedOn, OwnsWhatItRead, Superseded
      <3>2. l = released(m)
        BY <2>3, <1>2 DEF Written, m
      <3>3. Abstract(l) = IF m.pop = NoPop
                          THEN [Abstract(m) EXCEPT !.holder = NoPod]
                          ELSE [Abstract(m) EXCEPT !.holder = NoPod, !.away = FALSE,
                                                   !.expired = FALSE]
        BY <3>2, <2>m, ReleaseSeen
      <3>4. Atomic!Write(c.id,
                IF Seen[c.id].pop = NoPop
                THEN [Seen[c.id] EXCEPT !.holder = NoPod]
                ELSE [Seen[c.id] EXCEPT !.holder = NoPod, !.away = FALSE,
                                        !.expired = FALSE])
        BY <3>3, <2>w, <2>a, <2>s, Zenon
      <3>5. Atomic!Release(c.pod, c.id)
        BY <3>1, <3>4, <2>a, <2>s DEF Atomic!Release, Seen
      <3> QED
        BY <3>5 DEF AtomicCall
    <2>4. CASE c.op = "renewreservations"
      <3>1. l = [m EXCEPT !.age = 0]
        BY <2>4, <1>2 DEF Written, m
      <3>2. SeenWrite(c.id, Abstract([lease[c.id] EXCEPT !.age = 0]))
        BY <3>1, <2>w, Zenon DEF m
      <3>3. Atomic!Renew(c.id) \/ UNCHANGED Seen
        BY <3>2, <2>m, <1>h, <1>c, RenewAtomic DEF m
      <3> QED
        BY <3>3 DEF AtomicCall
    <2>5. CASE c.op = "delete"
      <3>1. m.pop = NoPop /\ m.holder \in {NoPod, c.pod}
        BY <2>5, <2>d DEF DecidedOn, OwnsWhatItRead, isPopLease
      <3>2. Atomic!Delete(c.pod, c.id)
        BY <3>1, <2>5, <2>n, <2>a, <2>s DEF Atomic!Delete, Seen
      <3> QED
        BY <3>2 DEF AtomicCall
    <2>6. CASE c.op = "deletereservation"
      <3>1. m.pop = c.pop /\ c.pop \in Pops
        BY <2>6, <2>d DEF DecidedOn, RInv, PopsFit
      <3>2. Atomic!DeleteReservation(c.id, c.pop)
        BY <3>1, <2>6, <2>n, <2>a, <2>s DEF Atomic!DeleteReservation, Seen
      <3> QED
        BY <3>1, <3>2 DEF AtomicCall
    <2>7. CASE c.op = "janitor"
      <3>1. janitorExpired(m)
        BY <2>7, <2>d DEF DecidedOn
      <3>2. Seen[c.id].expired
        BY <3>1, <2>m, <2>s, Zenon
      <3>3. Atomic!Collect(c.id)
        BY <3>2, <2>7, <2>n, <2>a DEF Atomic!Collect, Seen
      <3> QED
        BY <3>3 DEF AtomicCall
    <2>8. c.op \in {"grace", "stall", "release", "releasegen", "renewreservations",
                    "delete", "deletereservation", "janitor"}
      BY <1>2, <1>c DEF Calls, CallOps, AllOps
    <2> QED
      BY <2>1, <2>2, <2>3, <2>4, <2>5, <2>6, <2>7, <2>8
  <1> QED
    BY <1>1, <1>2 DEF WriteBack

\* A tick makes some Leases expire and is otherwise not seen.
LEMMA TickAtomic ==
    ASSUME TypeOK, Tick
    PROVE  Atomic!Elapse
  <1> DEFINE S == {i \in IDs : Exists(lease[i]) /\ janitorExpired(lease'[i])}
  <1>1. ASSUME NEW i \in IDs
        PROVE  /\ i \in S => Atomic!There(i)
               /\ Abstract(lease'[i]) = IF i \in S
                                        THEN [Seen[i] EXCEPT !.expired = TRUE]
                                        ELSE Seen[i]
    <2>0. /\ lease[i] \in Leases \cup {NoLease}
          /\ Seen[i] = Abstract(lease[i])
          /\ Atomic!There(i) <=> Exists(lease[i])
      BY AtomicFacts DEF TypeOK
    <2>1. CASE ~Exists(lease[i])
      <3>1. lease'[i] = lease[i] /\ i \notin S
        BY <2>1 DEF Tick, Exists
      <3> QED
        BY <3>1, <2>0, Zenon
    <2>2. CASE Exists(lease[i])
      <3> DEFINE l == lease[i]
                 m == lease'[i]
      <3>1. l \in Leases
        BY <2>0, <2>2, LeaseFacts
      <3>2. m = [l EXCEPT !.age = Older(@),
                          !.grace = IF @ = NoGrace THEN NoGrace ELSE Older(@)]
        BY <2>2 DEF Tick
      <3> HIDE DEF m, l
      <3>3. /\ m \in Leases /\ m.holder = l.holder /\ m.gen = l.gen /\ m.pop = l.pop
            /\ m.age >= l.age /\ l.age \in Int /\ m.age \in Int
        BY <3>1, <3>2, AgeFacts DEF Leases
      <3>4. /\ l.grace = NoGrace => m.grace = NoGrace
            /\ l.grace # NoGrace => m.grace # NoGrace /\ m.grace >= l.grace
            /\ l.grace \in Int /\ m.grace \in Int
        BY <3>1, <3>2, AgeFacts DEF Leases, Ages
      <3>5. Exists(l) /\ Exists(m)
        BY <3>1, <3>3, LeaseFacts
      <3>6. janitorExpired(l) => janitorExpired(m)
        <4>1. RenewedTooLongAgo(l) => RenewedTooLongAgo(m)
          BY <3>3, AgeFacts DEF RenewedTooLongAgo
        <4>2. GraceOver(l) => GraceOver(m)
          BY <3>4, AgeFacts DEF GraceOver
        <4> QED
          BY <3>3, <3>4, <4>1, <4>2 DEF janitorExpired, isPopLease
      <3>7. i \in S <=> janitorExpired(m)
        BY <3>5 DEF l, m
      <3>8. (m.grace # NoGrace) = (l.grace # NoGrace)
        BY <3>4
      <3>9. CASE janitorExpired(m)
        <4>1. PICK yes : yes = TRUE
          OBVIOUS
        <4>2. PICK w, e : /\ w = (l.grace # NoGrace)
                          /\ Abstract(l) = [holder |-> l.holder, gen |-> l.gen,
                                            pop |-> l.pop, away |-> w, expired |-> e]
          BY SeenRecord
        <4>3. [Abstract(l) EXCEPT !.expired = yes]
                = [holder |-> l.holder, gen |-> l.gen, pop |-> l.pop,
                   away |-> w, expired |-> yes]
          BY <4>2
        <4>4. (Exists(m) /\ janitorExpired(m)) = TRUE
          BY <3>5, <3>9
        <4>5. Abstract(m) = [holder |-> m.holder, gen |-> m.gen, pop |-> m.pop,
                             away |-> m.grace # NoGrace, expired |-> yes]
          BY <4>1, <4>4, Zenon DEF Abstract
        <4>6. Abstract(m) = [Abstract(l) EXCEPT !.expired = yes]
          BY <4>2, <4>3, <4>5, <3>3, <3>8, Zenon
        <4>7. Abstract(m) = [Seen[i] EXCEPT !.expired = TRUE]
          BY <4>1, <4>6, <2>0, Zenon DEF l
        <4> QED
          BY <4>7, <3>5, <3>7, <3>9, <2>0, Zenon DEF l, m
      <3>10. CASE ~janitorExpired(m)
        <4>1. Abstract(m) = Abstract(l)
          <5>1. Abstract(m) = [holder |-> m.holder, gen |-> m.gen, pop |-> m.pop,
                               away |-> m.grace # NoGrace, expired |-> FALSE]
            BY <3>10, UnexpiredSeen
          <5>2. Abstract(l) = [holder |-> l.holder, gen |-> l.gen, pop |-> l.pop,
                               away |-> l.grace # NoGrace, expired |-> FALSE]
            BY <3>10, <3>6, UnexpiredSeen
          <5> QED
            BY <5>1, <5>2, <3>3, <3>8, Zenon
        <4> QED
          BY <4>1, <3>7, <3>10, <2>0, Zenon DEF l, m
      <3> QED
        BY <3>9, <3>10
    <2> QED
      BY <2>1, <2>2
  <1>2. Seen' = [i \in IDs |-> IF i \in S THEN [Seen[i] EXCEPT !.expired = TRUE]
                                         ELSE Seen[i]]
    <2>1. Seen' = [i \in IDs |-> Abstract(lease'[i])]
      BY DEF Seen
    <2> HIDE DEF S
    <2> QED
      BY <2>1, <1>1, Zenon
  <1>3. S \in SUBSET {i \in IDs : Atomic!There(i)}
    BY <1>1
  <1> HIDE DEF S
  <1> QED
    BY <1>2, <1>3, Zenon DEF Atomic!Elapse, Seen
\* A reservation is one atomic reservation.
LEMMA ReserveAtomic ==
    ASSUME TypeOK, NEW i \in IDs, NEW pop \in Pops, Reserve(i, pop)
    PROVE  Atomic!Reserve(i, pop)
  <1> DEFINE l == [holder |-> NoPod, gen |-> 0, pop |-> pop, age |-> 0,
                   grace |-> NoGrace, stalled |-> FALSE]
  <1>1. ~Exists(lease[i]) /\ lease' = [lease EXCEPT ![i] = l]
    BY DEF Reserve
  <1>2. Abstract(l) = [holder |-> NoPod, gen |-> 0, pop |-> pop,
                       away |-> FALSE, expired |-> FALSE]
    BY MadeSeen
  <1> HIDE DEF l
  <1>3. SeenWrite(i, Abstract(l))
    BY <1>1 DEF TypeOK, Seen, SeenWrite
  <1>4. Atomic!Write(i, [holder |-> NoPod, gen |-> 0, pop |-> pop,
                         away |-> FALSE, expired |-> FALSE])
    BY <1>2, <1>3, AtomicFacts, Zenon
  <1>5. ~Atomic!There(i)
    BY <1>1, AtomicFacts
  <1> QED
    BY <1>4, <1>5, Zenon DEF Atomic!Reserve

\* Every step of the protocol is one step of the atomic Lease, or none.
LEMMA StepAtomic ==
    ASSUME RInv, [Next]_vars
    PROVE  Atomic!Next \/ UNCHANGED Seen
  <1>h. TypeOK /\ Inv
    BY DEF RInv, Inv
  <1>u. UNCHANGED lease => UNCHANGED Seen
    BY NoWriteSeen
  <1>1. CASE UNCHANGED vars
    BY <1>1, <1>u DEF vars
  <1>2. CASE Call
    BY <1>2, <1>h, <1>u, CallQuiet
  <1>3. ASSUME NEW c \in calls,
               \/ ClaimGet(c) \/ CreateLeaseList(c) \/ StartRenew(c) \/ OwnerGet(c)
               \/ ReleaseGenerationGet(c) \/ DeleteReservationGet(c)
               \/ StopRenew(c) \/ Fail(c)
        PROVE  UNCHANGED Seen
    <2>1. UNCHANGED lease
      BY <1>3 DEF ClaimGet, CreateLeaseList, StartRenew, OwnerGet,
                  ReleaseGenerationGet, DeleteReservationGet, StopRenew, Fail
    <2> QED
      BY <2>1, <1>u
  <1>4. ASSUME NEW c \in calls,
               \/ CreateLease(c) \/ ClaimUpdate(c) \/ RenewUpdate(c) \/ WriteBack(c)
        PROVE  Atomic!Next \/ UNCHANGED Seen
    <2>c. c.id \in IDs /\ c.pod \in Pods /\ c.pop \in Pops \cup {NoPop}
      BY <1>h DEF TypeOK, Calls
    <2>1. CASE CreateLease(c)
      BY <2>1, <2>c, ClaimAtomic, Zenon DEF Atomic!Next
    <2>2. CASE ClaimUpdate(c)
      BY <2>2, <2>c, ClaimAtomic, Zenon DEF Atomic!Next
    <2>3. CASE RenewUpdate(c)
      BY <2>3, <2>c, RenewUpdateAtomic, Zenon DEF Atomic!Next
    <2>4. CASE WriteBack(c)
      <3>1. AtomicCall(c) \/ UNCHANGED Seen
        BY <2>4, WriteBackAtomic
      <3>2. CASE Atomic!EnterGrace(c.pod, c.id)
        BY <3>2, <2>c, Zenon DEF Atomic!Next
      <3>3. CASE Atomic!Release(c.pod, c.id)
        BY <3>3, <2>c, Zenon DEF Atomic!Next
      <3>4. CASE Atomic!Delete(c.pod, c.id)
        BY <3>4, <2>c, Zenon DEF Atomic!Next
      <3>5. CASE Atomic!Renew(c.id) \/ Atomic!Collect(c.id)
        BY <3>5, <2>c, Zenon DEF Atomic!Next
      <3>6. CASE c.pop \in Pops /\ Atomic!DeleteReservation(c.id, c.pop)
        BY <3>6, <2>c, Zenon DEF Atomic!Next
      <3> QED
        BY <3>1, <3>2, <3>3, <3>4, <3>5, <3>6 DEF AtomicCall
    <2> QED
      BY <1>4, <2>1, <2>2, <2>3, <2>4
  <1>5. ASSUME NEW i \in IDs, NEW pop \in Pops, Reserve(i, pop)
        PROVE  Atomic!Next
    <2>1. Atomic!Reserve(i, pop)
      BY <1>5, <1>h, ReserveAtomic
    <2> QED
      BY <2>1, Zenon DEF Atomic!Next
  <1>6. ASSUME NEW p \in Pods, NEW i \in IDs, Deliver(p, i) \/ Relist(p, i)
        PROVE  UNCHANGED Seen
    BY <1>6, <1>u DEF Deliver, Relist
  <1>7. ASSUME NEW p \in Pods, Restart(p) PROVE UNCHANGED Seen
    BY <1>7, <1>u DEF Restart
  <1>8. ASSUME Tick PROVE Atomic!Next
    <2>1. Atomic!Elapse
      BY <1>8, <1>h, TickAtomic
    <2> QED
      BY <2>1, Zenon DEF Atomic!Next
  <1> QED
    BY <1>1, <1>2, <1>3, <1>4, <1>5, <1>6, <1>7, <1>8 DEF Next, Step, Environment

\* For any number of pods, PoPs, broadcasts and calls, the requests of a call and
\* whatever runs between them look to everybody else like one indivisible step:
\* the Lease protocol implements the atomic Lease.
THEOREM ImplementsAtomicLease == Spec => CallsAreAtomic
  <1>1. Init => Atomic!Init
    BY AbstractFacts DEF Init, Atomic!Init
  <1>2. RInv /\ [Next]_vars => Atomic!Next \/ UNCHANGED Seen
    BY StepAtomic
  <1>3. UNCHANGED Seen <=> UNCHANGED [i \in IDs |-> Abstract(lease[i])]
    BY DEF Seen
  <1>4. RInv /\ [Next]_vars => [Atomic!Next]_([i \in IDs |-> Abstract(lease[i])])
    BY <1>2, <1>3
  <1> QED
    BY <1>1, <1>4, RespectInvariant, PTL DEF Spec, CallsAreAtomic, Atomic!Spec

================================================================================
