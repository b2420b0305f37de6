-------------------------- MODULE OriginLeaseProofs --------------------------
(***************************************************************************)
(* Proofs about OriginLease, for any number of pods, IDs and PoPs and any  *)
(* values of the bounds.                                                   *)
(*                                                                         *)
(* TypeOK alone is not inductive: a grace or stall stamp keeps the Lease a *)
(* Lease only because a write that is let through finds one.  TypeOK and   *)
(* DecisionsStand are therefore proved together; the fencing argument then *)
(* uses that a claim writes the successor of the generation it finds.      *)
(***************************************************************************)
EXTENDS OriginLease, TLAPS

Inv == TypeOK /\ DecisionsStand

--------------------------------------------------------------------------------
(* The pieces calls and Leases are made of *)

\* A new call is well-formed and has read nothing yet.
LEMMA NewCallType ==
    ASSUME NEW p \in Pods, NEW i \in IDs, NEW o \in CallOps,
           NEW q \in Pops \cup {NoPop}, NEW f \in BOOLEAN, NEW g \in Nat, NEW b \in Nat
    PROVE  /\ NewCall(p, i, o, q, f, g, b) \in Calls
           /\ NewCall(p, i, o, q, f, g, b).fresh = FALSE
  BY LimitsAssumption DEF NewCall, Calls, Phases

\* The same for a caller that passes no flag.
LEMMA PlainCallType ==
    ASSUME NEW p \in Pods, NEW i \in IDs, NEW o \in CallOps,
           NEW q \in Pops \cup {NoPop}, NEW g \in Nat, NEW b \in Nat
    PROVE  /\ NewCall(p, i, o, q, FALSE, g, b) \in Calls
           /\ NewCall(p, i, o, q, FALSE, g, b).fresh = FALSE
  BY LimitsAssumption DEF NewCall, Calls, Phases

\* A call that has read goes on to its write, otherwise unchanged.
LEMMA ReadCallType ==
    ASSUME NEW m \in Calls
    PROVE  LET n == [m EXCEPT !.phase = "update", !.fresh = TRUE] IN
           /\ n \in Calls
           /\ n.pod = m.pod /\ n.id = m.id /\ n.op = m.op
           /\ n.pop = m.pop /\ n.gen = m.gen /\ n.flag = m.flag
  BY DEF Calls, Phases

\* A write to object i leaves no read of it current and changes no other call.
LEMMA OutdateFacts ==
    ASSUME NEW S \in SUBSET Calls, NEW i \in IDs
    PROVE  /\ Outdate(S, i) \subseteq Calls
           /\ \A d \in Outdate(S, i) : d.fresh => d \in S /\ d.id # i
  BY DEF Outdate, Calls

\* A retried call has to read again.
LEMMA RetryFacts ==
    ASSUME NEW c \in Calls
    PROVE  /\ Retry(c) \subseteq Calls
           /\ \A d \in Retry(c) : ~d.fresh /\ d.phase = "get"
  <1> DEFINE e == [c EXCEPT !.phase = "get", !.fresh = FALSE, !.tries = @ + 1]
  <1>1. CASE c.tries < ClaimRetries
    <2>1. Retry(c) = {e}
      BY <1>1 DEF Retry
    <2>2. c.tries + 1 \in 1 .. ClaimRetries
      BY <1>1, LimitsAssumption DEF Calls
    <2>3. e \in Calls /\ e.fresh = FALSE /\ e.phase = "get"
      BY <2>2 DEF Calls, Phases
    <2> QED
      BY <2>1, <2>3
  <1>2. CASE ~(c.tries < ClaimRetries)
    BY <1>2 DEF Retry
  <1> QED
    BY <1>1, <1>2

\* A refused call retries, or ends.
LEMMA RefusedFacts ==
    ASSUME NEW c \in Calls
    PROVE  /\ Refused(c) \in SUBSET Calls
           /\ \A d \in Refused(c) : ~d.fresh /\ d.phase = "get"
  <1>1. Refused(c) = Retry(c) \/ Refused(c) = {}
    BY DEF Refused
  <1> QED
    BY <1>1, RetryFacts

\* The answer to a claim is a well-formed call that has read nothing.
LEMMA GrantedCallType ==
    ASSUME NEW c \in Calls, NEW g \in Nat, NEW b \in Nat
    PROVE  /\ GrantedCall(c, g, b) \in Calls
           /\ GrantedCall(c, g, b).fresh = FALSE
           /\ GrantedCall(c, g, b).phase = "start"
           /\ GrantedCall(c, g, b).pod = c.pod
           /\ GrantedCall(c, g, b).id = c.id
           /\ GrantedCall(c, g, b).pop = c.pop
           /\ GrantedCall(c, g, b).gen = g
           /\ GrantedCall(c, g, b).born = b
  <1> DEFINE n == NewCall(c.pod, c.id, "claim", c.pop, FALSE, g, b)
  <1>1. GrantedCall(c, g, b) = [n EXCEPT !.phase = "start"]
    BY DEF GrantedCall
  <1>t. /\ c.pod \in Pods /\ c.id \in IDs /\ c.pop \in Pops \cup {NoPop}
        /\ "claim" \in CallOps
    BY DEF Calls, AllOps, CallOps
  <1>2. n \in Calls /\ n.fresh = FALSE
    BY <1>t, LimitsAssumption DEF NewCall, Calls, Phases
  <1>3. /\ n.pod = c.pod /\ n.id = c.id /\ n.pop = c.pop
        /\ n.gen = g /\ n.born = b
    BY DEF NewCall
  <1> HIDE DEF n
  <1> QED
    BY <1>1, <1>2, <1>3 DEF Calls, Phases

\* A Lease is told from a missing one by its generation, and its parts are typed.
LEMMA LeaseFacts ==
    ASSUME NEW l \in Leases \cup {NoLease}
    PROVE  /\ Exists(l) => l \in Leases
           /\ l \in Leases => Exists(l)
           /\ parseOrigin(l) \in Origins
  BY DEF Leases, NoLease, Exists, parseOrigin, Origins

\* The ages the model counts include the fresh stamp and both deadlines.
LEMMA AgeFacts ==
    /\ AgeCap \in Nat /\ AgeCap > LeaseDuration + BroadcastGrace
    /\ LeaseDuration \in Nat /\ BroadcastGrace \in Nat
    /\ 0 \in Ages
    /\ \A a \in Ages : a \in Int /\ Older(a) \in Ages /\ Older(a) >= a
    /\ NoGrace = -1
  BY TimesAssumption DEF AgeCap, Ages, Older, NoGrace

\* Dropping a held claim leaves the others.
LEMMA ForgetType ==
    ASSUME TypeOK, NEW p \in Pods, NEW i \in IDs, Forget(p, i)
    PROVE  held' \in [Pods -> [IDs -> Claims]]
  BY DEF TypeOK, Forget, NotHeld, Claims

--------------------------------------------------------------------------------
(* Continue and Commit preserve the invariant *)

\* A step that writes no Lease preserves the invariant on the calls if the
\* continuation is well-formed and what it decided is so.
LEMMA ContinueKeeps ==
    ASSUME Inv, NEW c \in calls, NEW next \in SUBSET Calls, Continue(c, next),
           \A d \in next : d.fresh => DecidedOn(d, lease[d.id]),
           UNCHANGED lease
    PROVE  calls' \subseteq Calls /\ DecisionsStand'
  BY DEF Inv, TypeOK, DecisionsStand, Continue

\* So does a write, whatever it writes: it leaves no read of the object current.
LEMMA CommitKeeps ==
    ASSUME Inv, NEW c \in calls, NEW next \in SUBSET Calls, NEW i \in IDs,
           NEW l \in Leases \cup {NoLease}, Commit(c, next, i, l),
           \A d \in next : ~d.fresh
    PROVE  /\ lease' \in [IDs -> Leases \cup {NoLease}]
           /\ calls' \subseteq Calls
           /\ queue' \in [Pods -> [IDs -> Seq(Origins)]]
           /\ DecisionsStand'
  <1>1. lease' \in [IDs -> Leases \cup {NoLease}]
    BY DEF Inv, TypeOK, Commit
  <1>2. calls \ {c} \in SUBSET Calls
    BY DEF Inv, TypeOK
  <1>3. calls' \subseteq Calls
    BY <1>2, OutdateFacts DEF Commit
  <1>4. queue' \in [Pods -> [IDs -> Seq(Origins)]]
    <2>1. parseOrigin(l) \in Origins
      BY LeaseFacts
    <2> QED
      BY <2>1 DEF Inv, TypeOK, Commit
  <1>5. DecisionsStand'
    <2> SUFFICES ASSUME NEW d \in calls', d.fresh
                 PROVE  DecidedOn(d, lease'[d.id])
      BY DEF DecisionsStand
    <2>1. d \in Outdate(calls \ {c}, i)
      BY DEF Commit
    <2>2. d \in calls /\ d.id # i
      BY <2>1, <1>2, OutdateFacts
    <2>3. d.id \in IDs
      BY <2>2 DEF Inv, TypeOK, Calls
    <2>4. lease'[d.id] = lease[d.id]
      BY <2>2, <2>3 DEF Commit, Inv, TypeOK
    <2> QED
      BY <2>2, <2>4 DEF Inv, DecisionsStand
  <1> QED
    BY <1>1, <1>3, <1>4, <1>5

--------------------------------------------------------------------------------
(* The invariant of the whole system, action by action *)

\* A step that adds a call to those in flight and writes no Lease.
LEMMA AddCallKeeps ==
    ASSUME Inv, NEW n \in Calls, calls' = calls \cup {n},
           n.fresh => DecidedOn(n, lease[n.id]),
           UNCHANGED lease
    PROVE  calls' \subseteq Calls /\ DecisionsStand'
  BY DEF Inv, TypeOK, DecisionsStand

\* Every step made by the rest of the relay or by a loop preserves the invariant.
LEMMA CallKeeps ==
    ASSUME Inv, NEW p \in Pods, NEW i \in IDs
    PROVE  /\ \A pop \in Pops \cup {NoPop}, force \in BOOLEAN :
                CallClaim(p, i, pop, force) => Inv'
           /\ \A o \in {"grace", "delete", "release"} :
                CallStoppingRenew(o, p, i) => Inv'
           /\ \A stalled \in BOOLEAN : CallSetStalled(p, i, stalled) => Inv'
           /\ \A g \in 1 .. MaxGen : CallReleaseGeneration(p, i, g) => Inv'
           /\ \A pop \in Pops : CallDeleteReservation(p, i, pop) => Inv'
  <1>1. ASSUME NEW pop \in Pops \cup {NoPop}, NEW force \in BOOLEAN,
               CallClaim(p, i, pop, force)
        PROVE  Inv'
    <2> DEFINE n == NewCall(p, i, "claim", pop, force, 0, 0)
    <2>1. n \in Calls /\ n.fresh = FALSE
      BY LimitsAssumption DEF NewCall, Calls, Phases, AllOps, CallOps
    <2>2. calls' = calls \cup {n} /\ UNCHANGED lease
      BY <1>1 DEF CallClaim
    <2>3. calls' \subseteq Calls /\ DecisionsStand'
      <3> HIDE DEF n
      <3> QED
        BY <2>1, <2>2, AddCallKeeps
    <2> QED
      BY <1>1, <2>3 DEF CallClaim, Inv, TypeOK
  <1>2. ASSUME NEW o \in {"grace", "delete", "release"}, CallStoppingRenew(o, p, i)
        PROVE  Inv'
    <2> DEFINE n == NewCall(p, i, o, NoPop, FALSE, 0, 0)
    <2>1. n \in Calls /\ n.fresh = FALSE
      BY LimitsAssumption DEF NewCall, Calls, Phases, AllOps, CallOps
    <2>2. calls' = calls \cup {n} /\ UNCHANGED lease
      BY <1>2 DEF CallStoppingRenew
    <2>3. calls' \subseteq Calls /\ DecisionsStand'
      <3> HIDE DEF n
      <3> QED
        BY <2>1, <2>2, AddCallKeeps
    <2>4. held' \in [Pods -> [IDs -> Claims]]
      BY <1>2, ForgetType DEF CallStoppingRenew, Inv
    <2> QED
      BY <1>2, <2>3, <2>4 DEF CallStoppingRenew, Inv, TypeOK
  <1>3. ASSUME NEW stalled \in BOOLEAN, CallSetStalled(p, i, stalled)
        PROVE  Inv'
    <2> DEFINE n == NewCall(p, i, "stall", NoPop, stalled, 0, 0)
    <2>1. n \in Calls /\ n.fresh = FALSE
      BY LimitsAssumption DEF NewCall, Calls, Phases, AllOps, CallOps
    <2>2. calls' = calls \cup {n} /\ UNCHANGED lease
      BY <1>3 DEF CallSetStalled
    <2>3. calls' \subseteq Calls /\ DecisionsStand'
      <3> HIDE DEF n
      <3> QED
        BY <2>1, <2>2, AddCallKeeps
    <2> QED
      BY <1>3, <2>3 DEF CallSetStalled, Inv, TypeOK
  <1>4. ASSUME NEW g \in 1 .. MaxGen, CallReleaseGeneration(p, i, g)
        PROVE  Inv'
    <2> DEFINE n == NewCall(p, i, "releasegen", NoPop, FALSE, g, 0)
    <2>1. n \in Calls /\ n.fresh = FALSE
      BY LimitsAssumption, BoundsAssumption DEF NewCall, Calls, Phases, AllOps, CallOps
    <2>2. calls' = calls \cup {n} /\ UNCHANGED lease
      BY <1>4 DEF CallReleaseGeneration
    <2>3. calls' \subseteq Calls /\ DecisionsStand'
      <3> HIDE DEF n
      <3> QED
        BY <2>1, <2>2, AddCallKeeps
    <2> QED
      BY <1>4, <2>3 DEF CallReleaseGeneration, Inv, TypeOK
  <1>5. ASSUME NEW pop \in Pops, CallDeleteReservation(p, i, pop)
        PROVE  Inv'
    <2> DEFINE n == NewCall(p, i, "deletereservation", pop, FALSE, 0, 0)
    <2>1. n \in Calls /\ n.fresh = FALSE
      BY LimitsAssumption DEF NewCall, Calls, Phases, AllOps, CallOps
    <2>2. calls' = calls \cup {n} /\ UNCHANGED lease
      BY <1>5 DEF CallDeleteReservation
    <2>3. calls' \subseteq Calls /\ DecisionsStand'
      <3> HIDE DEF n
      <3> QED
        BY <2>1, <2>2, AddCallKeeps
    <2> QED
      BY <1>5, <2>3 DEF CallDeleteReservation, Inv, TypeOK
  <1> QED
    BY <1>1, <1>2, <1>3, <1>4, <1>5

\* The loops read a Lease and decide on it in one request.
LEMMA LoopKeeps ==
    ASSUME Inv, NEW p \in Pods, NEW i \in IDs
    PROVE  /\ RenewGet(p, i) => Inv'
           /\ \A pop \in Pops : RenewReservationsList(p, i, pop) => Inv'
           /\ JanitorList(p, i) => Inv'
  <1>1. ASSUME RenewGet(p, i) PROVE Inv'
    <2>1. CASE Superseded(p, held[p][i].gen, lease[i])
      <3>1. held' \in [Pods -> [IDs -> Claims]]
        <4>1. Forget(p, i)
          BY <1>1, <2>1 DEF RenewGet
        <4> QED
          BY <4>1, ForgetType DEF Inv
      <3>2. UNCHANGED <<lease, born, calls, queue, cache, fails>>
        BY <1>1, <2>1 DEF RenewGet
      <3> QED
        BY <3>1, <3>2 DEF Inv, TypeOK, DecisionsStand
    <2>2. CASE ~Superseded(p, held[p][i].gen, lease[i])
      <3> DEFINE g == held[p][i].gen
                 m == NewCall(p, i, "renew", NoPop, FALSE, g, 0)
                 n == [m EXCEPT !.phase = "update", !.fresh = TRUE]
      <3>1. g \in Nat
        BY DEF Inv, TypeOK, Claims
      <3>2. n \in Calls /\ n.op = "renew" /\ n.gen = g /\ n.pod = p /\ n.id = i
        <4>1. /\ m \in Calls
              /\ m.op = "renew" /\ m.gen = g /\ m.pod = p /\ m.id = i
          <5> HIDE DEF g
          <5> QED
            BY <3>1, LimitsAssumption DEF NewCall, Calls, Phases, AllOps, CallOps
        <4> HIDE DEF m
        <4> QED
          BY <4>1, ReadCallType
      <3>3. calls' = calls \cup {n} /\ UNCHANGED lease
        BY <1>1, <2>2 DEF RenewGet, Renewing
      <3>4. Exists(lease[i])
        BY <1>1 DEF RenewGet
      <3>5. DecidedOn(n, lease[n.id])
        <4> HIDE DEF n
        <4> QED
          BY <2>2, <3>2, <3>4 DEF DecidedOn
      <3>6. calls' \subseteq Calls /\ DecisionsStand'
        <4> HIDE DEF n
        <4> QED
          BY <3>2, <3>3, <3>5, AddCallKeeps
      <3> QED
        BY <1>1, <2>2, <3>6 DEF RenewGet, Inv, TypeOK
    <2> QED
      BY <2>1, <2>2
  <1>2. ASSUME NEW pop \in Pops, RenewReservationsList(p, i, pop) PROVE Inv'
    <2> DEFINE m == NewCall(p, i, "renewreservations", pop, FALSE, 0, 0)
               n == [m EXCEPT !.phase = "update", !.fresh = TRUE]
    <2>1. /\ n \in Calls /\ n.op = "renewreservations" /\ n.pop = pop
          /\ n.pod = p /\ n.id = i
      <3>1. /\ m \in Calls /\ m.op = "renewreservations" /\ m.pop = pop
            /\ m.pod = p /\ m.id = i
        BY LimitsAssumption DEF NewCall, Calls, Phases, AllOps, CallOps
      <3> HIDE DEF m
      <3> QED
        BY <3>1, ReadCallType
    <2>2. calls' = calls \cup {n} /\ UNCHANGED lease
      BY <1>2 DEF RenewReservationsList
    <2>3. DecidedOn(n, lease[n.id])
      <3> HIDE DEF n
      <3> QED
        BY <1>2, <2>1 DEF DecidedOn, RenewReservationsList
    <2>4. calls' \subseteq Calls /\ DecisionsStand'
      <3> HIDE DEF n
      <3> QED
        BY <2>1, <2>2, <2>3, AddCallKeeps
    <2> QED
      BY <1>2, <2>4 DEF RenewReservationsList, Inv, TypeOK
  <1>3. ASSUME JanitorList(p, i) PROVE Inv'
    <2> DEFINE m == NewCall(p, i, "janitor", NoPop, FALSE, 0, 0)
               n == [m EXCEPT !.phase = "update", !.fresh = TRUE]
    <2>1. n \in Calls /\ n.op = "janitor" /\ n.pod = p /\ n.id = i
      <3>1. m \in Calls /\ m.op = "janitor" /\ m.pod = p /\ m.id = i
        BY LimitsAssumption DEF NewCall, Calls, Phases, AllOps, CallOps
      <3> HIDE DEF m
      <3> QED
        BY <3>1, ReadCallType
    <2>2. calls' = calls \cup {n} /\ UNCHANGED lease
      BY <1>3 DEF JanitorList
    <2>3. DecidedOn(n, lease[n.id])
      <3> HIDE DEF n
      <3> QED
        BY <1>3, <2>1 DEF DecidedOn, JanitorList
    <2>4. calls' \subseteq Calls /\ DecisionsStand'
      <3> HIDE DEF n
      <3> QED
        BY <2>1, <2>2, <2>3, AddCallKeeps
    <2> QED
      BY <1>3, <2>4 DEF JanitorList, Inv, TypeOK
  <1> QED
    BY <1>1, <1>2, <1>3

\* A call that returns, or goes back to read again, leaves the invariant alone.
LEMMA QuietContinueKeeps ==
    ASSUME Inv, NEW c \in calls, NEW next \in SUBSET Calls, Continue(c, next),
           \A d \in next : ~d.fresh, UNCHANGED lease
    PROVE  calls' \subseteq Calls /\ DecisionsStand'
  BY ContinueKeeps

\* So does one that goes on to its write having decided on what it read.
LEMMA ReadContinueKeeps ==
    ASSUME Inv, NEW c \in calls, NEW g \in Nat,
           Continue(c, {[c EXCEPT !.phase = "update", !.fresh = TRUE, !.gen = g]}),
           DecidedOn([c EXCEPT !.phase = "update", !.fresh = TRUE, !.gen = g],
                     lease[c.id]),
           UNCHANGED lease
    PROVE  calls' \subseteq Calls /\ DecisionsStand'
  <1> DEFINE n == [c EXCEPT !.phase = "update", !.fresh = TRUE, !.gen = g]
  <1>1. n \in Calls /\ n.id = c.id
    BY DEF Inv, TypeOK, Calls, Phases
  <1>2. Continue(c, {n}) /\ DecidedOn(n, lease[c.id])
    OBVIOUS
  <1> HIDE DEF n
  <1> QED
    BY <1>1, <1>2, ContinueKeeps

\* The steps of Claim.
LEMMA ClaimKeeps ==
    ASSUME Inv, NEW c \in calls
    PROVE  /\ ClaimGet(c) => Inv'
           /\ CreateLeaseList(c) => Inv'
           /\ CreateLease(c) => Inv'
           /\ ClaimUpdate(c) => Inv'
           /\ StartRenew(c) => Inv'
  <1>c. c \in Calls /\ c.id \in IDs /\ c.pod \in Pods /\ c.gen \in Nat /\ c.born \in Nat
    BY DEF Inv, TypeOK, Calls
  <1>l. lease[c.id] \in Leases \cup {NoLease}
    BY <1>c DEF Inv, TypeOK
  <1>1. ASSUME ClaimGet(c) PROVE Inv'
    <2>1. UNCHANGED <<lease, born, held, queue, cache, fails>>
      BY <1>1 DEF ClaimGet
    <2>2. CASE Return(c)
      <3>1. calls' \subseteq Calls /\ DecisionsStand'
        BY <2>1, <2>2, QuietContinueKeeps DEF Return
      <3> QED
        BY <2>1, <3>1 DEF Inv, TypeOK
    <2>3. CASE /\ c.op = "claim" /\ c.phase = "get"
               /\ Continue(c, {[c EXCEPT !.phase = "list"]})
      <3> DEFINE n == [c EXCEPT !.phase = "list"]
      <3>1. /\ n \in Calls /\ n.id = c.id /\ n.op = c.op /\ n.fresh = c.fresh
            /\ n.gen = c.gen /\ n.pop = c.pop /\ n.pod = c.pod /\ n.flag = c.flag
        BY <1>c DEF Calls, Phases
      <3>2. Continue(c, {n})
        BY <2>3
      <3>3. n.fresh => DecidedOn(n, lease[n.id])
        <4> HIDE DEF n
        <4> QED
          BY <2>3, <3>1 DEF Inv, DecisionsStand, DecidedOn, takeable
      <3>4. calls' \subseteq Calls /\ DecisionsStand'
        <4> HIDE DEF n
        <4> QED
          BY <2>1, <3>1, <3>2, <3>3, ContinueKeeps
      <3> QED
        BY <2>1, <3>4 DEF Inv, TypeOK
    <2>4. CASE /\ c.op = "claim"
               /\ Exists(lease[c.id]) /\ lease[c.id].pop = c.pop
               /\ takeable(c, lease[c.id])
               /\ Continue(c, {[c EXCEPT !.phase = "update", !.fresh = TRUE,
                                         !.gen = lease[c.id].gen + 1]})
      <3> DEFINE g == lease[c.id].gen + 1
                 n == [c EXCEPT !.phase = "update", !.fresh = TRUE, !.gen = g]
      <3>1. g \in Nat
        BY <1>l, <2>4, LeaseFacts DEF Leases
      <3>2. /\ n.op = c.op /\ n.gen = g /\ n.pop = c.pop /\ n.pod = c.pod
            /\ n.flag = c.flag
        BY <1>c DEF Calls
      <3>3. DecidedOn(n, lease[c.id])
        <4> HIDE DEF n
        <4> QED
          BY <2>4, <3>2 DEF DecidedOn, takeable
      <3>4. calls' \subseteq Calls /\ DecisionsStand'
        BY <2>1, <2>4, <3>1, <3>3, ReadContinueKeeps
      <3> QED
        BY <2>1, <3>4 DEF Inv, TypeOK
    <2> QED
      BY <1>1, <2>2, <2>3, <2>4 DEF ClaimGet
  <1>2. ASSUME CreateLeaseList(c) PROVE Inv'
    <2>1. UNCHANGED <<lease, born, held, queue, cache, fails>>
      BY <1>2 DEF CreateLeaseList
    <2>2. CASE Return(c)
      <3>1. calls' \subseteq Calls /\ DecisionsStand'
        BY <2>1, <2>2, QuietContinueKeeps DEF Return
      <3> QED
        BY <2>1, <3>1 DEF Inv, TypeOK
    <2>3. CASE c.op = "claim" /\ Continue(c, {[c EXCEPT !.phase = "create"]})
      <3> DEFINE n == [c EXCEPT !.phase = "create"]
      <3>1. /\ n \in Calls /\ n.id = c.id /\ n.op = c.op /\ n.fresh = c.fresh
            /\ n.gen = c.gen /\ n.pop = c.pop /\ n.pod = c.pod /\ n.flag = c.flag
        BY <1>c DEF Calls, Phases
      <3>2. Continue(c, {n})
        BY <2>3
      <3>3. n.fresh => DecidedOn(n, lease[n.id])
        <4> HIDE DEF n
        <4> QED
          BY <2>3, <3>1 DEF Inv, DecisionsStand, DecidedOn, takeable
      <3>4. calls' \subseteq Calls /\ DecisionsStand'
        <4> HIDE DEF n
        <4> QED
          BY <2>1, <3>1, <3>2, <3>3, ContinueKeeps
      <3> QED
        BY <2>1, <3>4 DEF Inv, TypeOK
    <2> QED
      BY <1>2, <2>2, <2>3 DEF CreateLeaseList
  <1>3. ASSUME CreateLease(c) PROVE Inv'
    <2>1. UNCHANGED <<held, cache, fails>>
      BY <1>3 DEF CreateLease
    <2>2. CASE Continue(c, Retry(c)) /\ UNCHANGED <<lease, born, queue>>
      <3>1. calls' \subseteq Calls /\ DecisionsStand'
        BY <1>c, <2>2, RetryFacts, QuietContinueKeeps
      <3> QED
        BY <2>1, <2>2, <3>1 DEF Inv, TypeOK
    <2>3. CASE Return(c) /\ UNCHANGED <<lease, born, queue>>
      <3>1. calls' \subseteq Calls /\ DecisionsStand'
        BY <2>3, QuietContinueKeeps DEF Return
      <3> QED
        BY <2>1, <2>3, <3>1 DEF Inv, TypeOK
    <2>4. ASSUME born' = [born EXCEPT ![c.id] = @ + 1],
                 NEW l, l = [holder |-> c.pod, gen |-> 1, pop |-> NoPop, age |-> 0,
                             grace |-> NoGrace, stalled |-> FALSE],
                 Commit(c, {GrantedCall(c, 1, born'[c.id])}, c.id, l)
          PROVE  Inv'
      <3>1. born' \in [IDs -> Nat] /\ born'[c.id] \in Nat
        BY <1>c, <2>4 DEF Inv, TypeOK
      <3>2. l \in Leases
        BY <1>c, <2>4, AgeFacts DEF Leases
      <3>3. /\ {GrantedCall(c, 1, born'[c.id])} \in SUBSET Calls
            /\ \A d \in {GrantedCall(c, 1, born'[c.id])} : ~d.fresh
        <4>1. GrantedCall(c, 1, born'[c.id]) \in Calls
          BY <1>c, <3>1, 1 \in Nat, GrantedCallType
        <4>2. GrantedCall(c, 1, born'[c.id]).fresh = FALSE
          BY <1>c, <3>1, 1 \in Nat, GrantedCallType
        <4> QED
          BY <4>1, <4>2
      <3>4. /\ lease' \in [IDs -> Leases \cup {NoLease}]
            /\ calls' \subseteq Calls
            /\ queue' \in [Pods -> [IDs -> Seq(Origins)]]
            /\ DecisionsStand'
        BY <1>c, <2>4, <3>2, <3>3, CommitKeeps
      <3> QED
        BY <2>1, <3>1, <3>4 DEF Inv, TypeOK
    <2> QED
      BY <1>3, <2>2, <2>3, <2>4 DEF CreateLease
  <1>4. ASSUME ClaimUpdate(c) PROVE Inv'
    <2>1. UNCHANGED <<born, held, cache, fails>>
      BY <1>4 DEF ClaimUpdate
    <2>2. CASE Continue(c, Refused(c)) /\ UNCHANGED <<lease, queue>>
      <3>1. calls' \subseteq Calls /\ DecisionsStand'
        BY <1>c, <2>2, RefusedFacts, QuietContinueKeeps
      <3> QED
        BY <2>1, <2>2, <3>1 DEF Inv, TypeOK
    <2>3. ASSUME Unchanged(c), NEW l, l = ClaimedBy(c.pod, c.gen, lease[c.id]),
                 Commit(c, {GrantedCall(c, c.gen, born[c.id])}, c.id, l)
          PROVE  Inv'
      <3>1. Exists(lease[c.id])
        BY <2>3 DEF Inv, DecisionsStand, DecidedOn, Unchanged
      <3>2. l \in Leases
        BY <1>c, <1>l, <2>3, <3>1, LeaseFacts, AgeFacts DEF ClaimedBy, Leases
      <3>3. /\ {GrantedCall(c, c.gen, born[c.id])} \in SUBSET Calls
            /\ \A d \in {GrantedCall(c, c.gen, born[c.id])} : ~d.fresh
        <4>0. born[c.id] \in Nat
          BY <1>c DEF Inv, TypeOK
        <4>1. GrantedCall(c, c.gen, born[c.id]) \in Calls
          BY <1>c, <4>0, GrantedCallType
        <4>2. GrantedCall(c, c.gen, born[c.id]).fresh = FALSE
          BY <1>c, <4>0, GrantedCallType
        <4> QED
          BY <4>1, <4>2
      <3>4. /\ lease' \in [IDs -> Leases \cup {NoLease}]
            /\ calls' \subseteq Calls
            /\ queue' \in [Pods -> [IDs -> Seq(Origins)]]
            /\ DecisionsStand'
        BY <1>c, <2>3, <3>2, <3>3, CommitKeeps
      <3> QED
        BY <2>1, <3>4 DEF Inv, TypeOK
    <2> QED
      BY <1>4, <2>2, <2>3 DEF ClaimUpdate
  <1>5. ASSUME StartRenew(c) PROVE Inv'
    <2>1. calls' \subseteq Calls /\ DecisionsStand'
      BY <1>5, QuietContinueKeeps DEF StartRenew, Return
    <2>2. held' \in [Pods -> [IDs -> Claims]]
      BY <1>5, <1>c DEF StartRenew, Claims, Inv, TypeOK
    <2> QED
      BY <1>5, <2>1, <2>2 DEF StartRenew, Inv, TypeOK
  <1> QED
    BY <1>1, <1>2, <1>3, <1>4, <1>5

\* A write that ends its call.
LEMMA LastCommitKeeps ==
    ASSUME Inv, NEW c \in calls, NEW i \in IDs,
           NEW l \in Leases \cup {NoLease}, Commit(c, {}, i, l)
    PROVE  /\ lease' \in [IDs -> Leases \cup {NoLease}]
           /\ calls' \subseteq Calls
           /\ queue' \in [Pods -> [IDs -> Seq(Origins)]]
           /\ DecisionsStand'
  <1>1. {} \in SUBSET Calls /\ \A d \in {} : ~d.fresh
    OBVIOUS
  <1> QED
    BY <1>1, CommitKeeps

\* A call that goes on to its write with what it was called with.
LEMMA DecideKeeps ==
    ASSUME Inv, NEW c \in calls, NEW h \in Phases,
           Continue(c, {[c EXCEPT !.phase = h, !.fresh = TRUE]}),
           DecidedOn([c EXCEPT !.phase = h, !.fresh = TRUE], lease[c.id]),
           UNCHANGED lease
    PROVE  calls' \subseteq Calls /\ DecisionsStand'
  <1> DEFINE n == [c EXCEPT !.phase = h, !.fresh = TRUE]
  <1>1. n \in Calls /\ n.id = c.id
    BY DEF Inv, TypeOK, Calls, Phases
  <1>2. Continue(c, {n}) /\ DecidedOn(n, lease[c.id])
    OBVIOUS
  <1> HIDE DEF n
  <1> QED
    BY <1>1, <1>2, ContinueKeeps

\* Every object the owner's calls write is a Lease, or none.
LEMMA WrittenType ==
    ASSUME NEW c \in Calls, NEW l \in Leases
    PROVE  Written(c, l) \in Leases \cup {NoLease}
  <1>1. released(l) \in Leases
    BY AgeFacts DEF released, Leases
  <1>2. [l EXCEPT !.grace = 0] \in Leases /\ [l EXCEPT !.age = 0] \in Leases
    BY AgeFacts DEF Leases
  <1>3. [l EXCEPT !.stalled = c.flag] \in Leases
    BY DEF Leases, Calls
  <1>4. \/ Written(c, l) = [l EXCEPT !.grace = 0]
        \/ Written(c, l) = [l EXCEPT !.stalled = c.flag]
        \/ Written(c, l) = released(l)
        \/ Written(c, l) = [l EXCEPT !.age = 0]
        \/ Written(c, l) = NoLease
    BY DEF Written
  <1> QED
    BY <1>1, <1>2, <1>3, <1>4

\* The steps of the renew loop and of the owner's calls.
LEMMA OwnerKeeps ==
    ASSUME Inv, NEW c \in calls
    PROVE  /\ RenewUpdate(c) => Inv'
           /\ OwnerGet(c) => Inv'
           /\ ReleaseGenerationGet(c) => Inv'
           /\ DeleteReservationGet(c) => Inv'
           /\ StopRenew(c) => Inv'
           /\ WriteBack(c) => Inv'
           /\ Fail(c) => Inv'
  <1>c. c \in Calls /\ c.id \in IDs /\ c.pod \in Pods /\ c.gen \in Nat
    BY DEF Inv, TypeOK, Calls
  <1>l. lease[c.id] \in Leases \cup {NoLease}
    BY <1>c DEF Inv, TypeOK
  <1>u. ASSUME Unchanged(c) PROVE Exists(lease[c.id]) /\ lease[c.id] \in Leases
    <2>1. Exists(lease[c.id])
      BY <1>u DEF Inv, DecisionsStand, DecidedOn, Unchanged
    <2> QED
      BY <2>1, <1>l, LeaseFacts
  <1> DEFINE n == [c EXCEPT !.phase = "update", !.fresh = TRUE]
  <1>n. /\ n.op = c.op /\ n.gen = c.gen /\ n.pop = c.pop /\ n.pod = c.pod
        /\ n.flag = c.flag
    BY <1>c DEF Calls
  <1> DEFINE m == [c EXCEPT !.phase = "stop", !.fresh = TRUE]
  <1>m. m.op = c.op /\ m.gen = c.gen /\ m.pop = c.pop /\ m.pod = c.pod
    BY <1>c DEF Calls
  <1>h. "update" \in Phases /\ "stop" \in Phases
    BY DEF Phases
  <1>1. ASSUME RenewUpdate(c) PROVE Inv'
    <2>1. UNCHANGED <<born, held, cache, fails>>
      BY <1>1 DEF RenewUpdate
    <2>2. CASE Return(c) /\ UNCHANGED <<lease, queue>>
      <3>1. calls' \subseteq Calls /\ DecisionsStand'
        BY <2>2, QuietContinueKeeps DEF Return
      <3> QED
        BY <2>1, <2>2, <3>1 DEF Inv, TypeOK
    <2>3. ASSUME Unchanged(c), NEW l, l = [lease[c.id] EXCEPT !.age = 0],
                 Commit(c, {}, c.id, l)
          PROVE  Inv'
      <3>1. l \in Leases
        BY <1>u, <2>3, AgeFacts DEF Leases
      <3>2. /\ lease' \in [IDs -> Leases \cup {NoLease}]
            /\ calls' \subseteq Calls
            /\ queue' \in [Pods -> [IDs -> Seq(Origins)]]
            /\ DecisionsStand'
        BY <1>c, <2>3, <3>1, LastCommitKeeps
      <3> QED
        BY <2>1, <3>2 DEF Inv, TypeOK
    <2> QED
      BY <1>1, <2>2, <2>3 DEF RenewUpdate
  <1>2. ASSUME OwnerGet(c) PROVE Inv'
    <2>1. UNCHANGED <<lease, born, held, queue, cache, fails>>
      BY <1>2 DEF OwnerGet
    <2>2. CASE Return(c)
      <3>1. calls' \subseteq Calls /\ DecisionsStand'
        BY <2>1, <2>2, QuietContinueKeeps DEF Return
      <3> QED
        BY <2>1, <3>1 DEF Inv, TypeOK
    <2>3. CASE /\ c.op \in {"grace", "stall", "delete", "release"}
               /\ OwnsWhatItRead(c, lease[c.id]) /\ Continue(c, {n})
      <3>1. DecidedOn(n, lease[c.id])
        <4> HIDE DEF n
        <4>1. OwnsWhatItRead(n, lease[c.id])
          BY <1>n, <2>3 DEF OwnsWhatItRead
        <4>2. Exists(lease[c.id])
          BY <2>3 DEF OwnsWhatItRead
        <4> QED
          BY <1>n, <2>3, <4>1, <4>2 DEF DecidedOn
      <3>2. calls' \subseteq Calls /\ DecisionsStand'
        BY <1>h, <2>1, <2>3, <3>1, DecideKeeps
      <3> QED
        BY <2>1, <3>2 DEF Inv, TypeOK
    <2> QED
      BY <1>2, <2>2, <2>3 DEF OwnerGet
  <1>3. ASSUME ReleaseGenerationGet(c) PROVE Inv'
    <2>1. UNCHANGED <<lease, born, held, queue, cache, fails>>
      BY <1>3 DEF ReleaseGenerationGet
    <2>2. CASE Return(c)
      <3>1. calls' \subseteq Calls /\ DecisionsStand'
        BY <2>1, <2>2, QuietContinueKeeps DEF Return
      <3> QED
        BY <2>1, <3>1 DEF Inv, TypeOK
    <2>3. CASE /\ c.op = "releasegen" /\ ~Superseded(c.pod, c.gen, lease[c.id])
               /\ Continue(c, {m})
      <3>1. Exists(lease[c.id])
        BY <1>c, <2>3 DEF Superseded, Exists, NoLease
      <3>2. DecidedOn(m, lease[c.id])
        <4> HIDE DEF m
        <4> QED
          BY <1>m, <2>3, <3>1 DEF DecidedOn
      <3>3. calls' \subseteq Calls /\ DecisionsStand'
        BY <1>h, <2>1, <2>3, <3>2, DecideKeeps
      <3> QED
        BY <2>1, <3>3 DEF Inv, TypeOK
    <2> QED
      BY <1>3, <2>2, <2>3 DEF ReleaseGenerationGet
  <1>4. ASSUME DeleteReservationGet(c) PROVE Inv'
    <2>1. UNCHANGED <<lease, born, held, queue, cache, fails>>
      BY <1>4 DEF DeleteReservationGet
    <2>2. CASE Return(c)
      <3>1. calls' \subseteq Calls /\ DecisionsStand'
        BY <2>1, <2>2, QuietContinueKeeps DEF Return
      <3> QED
        BY <2>1, <3>1 DEF Inv, TypeOK
    <2>3. CASE /\ c.op = "deletereservation"
               /\ Exists(lease[c.id]) /\ lease[c.id].pop = c.pop
               /\ Continue(c, {m})
      <3>1. DecidedOn(m, lease[c.id])
        <4> HIDE DEF m
        <4> QED
          BY <1>m, <2>3 DEF DecidedOn
      <3>2. calls' \subseteq Calls /\ DecisionsStand'
        BY <1>h, <2>1, <2>3, <3>1, DecideKeeps
      <3> QED
        BY <2>1, <3>2 DEF Inv, TypeOK
    <2> QED
      BY <1>4, <2>2, <2>3 DEF DeleteReservationGet
  <1>7. ASSUME StopRenew(c) PROVE Inv'
    <2> DEFINE s == [c EXCEPT !.phase = "update"]
    <2>1. UNCHANGED <<lease, born, queue, cache, fails>> /\ Continue(c, {s})
      BY <1>7 DEF StopRenew
    <2>2. held' \in [Pods -> [IDs -> Claims]]
      <3>1. Forget(c.pod, c.id) \/ UNCHANGED held
        BY <1>7 DEF StopRenew
      <3> QED
        BY <1>c, <3>1, ForgetType DEF Inv, TypeOK
    <2>3. /\ s \in Calls /\ s.id = c.id /\ s.fresh = c.fresh
          /\ s.op \in {"releasegen", "deletereservation"} /\ s.op = c.op
          /\ s.gen = c.gen /\ s.pop = c.pop /\ s.pod = c.pod
      BY <1>7, <1>c DEF StopRenew, Calls, Phases
    <2>4. s.fresh => DecidedOn(s, lease[s.id])
      <3> HIDE DEF s
      <3>1. c.fresh => DecidedOn(c, lease[c.id])
        BY DEF Inv, DecisionsStand
      <3> QED
        BY <2>3, <3>1 DEF DecidedOn
    <2>5. calls' \subseteq Calls /\ DecisionsStand'
      <3> HIDE DEF s
      <3> QED
        BY <2>1, <2>3, <2>4, ContinueKeeps
    <2> QED
      BY <2>1, <2>2, <2>5 DEF Inv, TypeOK
  <1>5. ASSUME WriteBack(c) PROVE Inv'
    <2>1. UNCHANGED <<born, held, cache, fails>>
      BY <1>5 DEF WriteBack
    <2>2. CASE Continue(c, Refused(c)) /\ UNCHANGED <<lease, queue>>
      <3>1. Refused(c) \in SUBSET Calls /\ \A d \in Refused(c) : ~d.fresh
        BY <1>c, RefusedFacts
      <3>2. calls' \subseteq Calls /\ DecisionsStand'
        BY <2>2, <3>1, QuietContinueKeeps
      <3> QED
        BY <2>1, <2>2, <3>2 DEF Inv, TypeOK
    <2>3. ASSUME Unchanged(c), Commit(c, {}, c.id, Written(c, lease[c.id]))
          PROVE  Inv'
      <3>1. Written(c, lease[c.id]) \in Leases \cup {NoLease}
        BY <1>c, <1>u, <2>3, WrittenType
      <3>2. /\ lease' \in [IDs -> Leases \cup {NoLease}]
            /\ calls' \subseteq Calls
            /\ queue' \in [Pods -> [IDs -> Seq(Origins)]]
            /\ DecisionsStand'
        BY <1>c, <2>3, <3>1, LastCommitKeeps
      <3> QED
        BY <2>1, <3>2 DEF Inv, TypeOK
    <2> QED
      BY <1>5, <2>2, <2>3 DEF WriteBack
  <1>6. ASSUME Fail(c) PROVE Inv'
    <2>1. calls' \subseteq Calls /\ DecisionsStand'
      BY <1>6, QuietContinueKeeps DEF Fail, Return
    <2> QED
      BY <1>6, <2>1 DEF Fail, Inv, TypeOK
  <1> QED
    BY <1>1, <1>2, <1>3, <1>4, <1>5, <1>6, <1>7

\* A tick makes no stamp younger, so what a call decided from stays so.
LEMMA TickKeepsDecisions ==
    ASSUME NEW c \in Calls, NEW l \in Leases, NEW m,
           m = [l EXCEPT !.age = Older(@),
                         !.grace = IF @ = NoGrace THEN NoGrace ELSE Older(@)],
           DecidedOn(c, l)
    PROVE  m \in Leases /\ DecidedOn(c, m)
  <1>1. /\ m \in Leases
        /\ m.holder = l.holder /\ m.gen = l.gen /\ m.pop = l.pop
        /\ m.stalled = l.stalled
        /\ m.age >= l.age /\ l.age \in Int /\ m.age \in Int
    BY AgeFacts DEF Leases
  <1>2. /\ l.grace = NoGrace => m.grace = NoGrace
        /\ l.grace # NoGrace => m.grace # NoGrace /\ m.grace >= l.grace
        /\ l.grace \in Int /\ m.grace \in Int
    BY AgeFacts DEF Leases, Ages
  <1>3. Exists(m)
    BY <1>1, LeaseFacts
  <1>4. takeable(c, l) => takeable(c, m)
    BY <1>1, AgeFacts DEF takeable, renewStale
  <1>5. Superseded(c.pod, c.gen, m) = Superseded(c.pod, c.gen, l)
    BY <1>1 DEF Superseded
  <1>6. OwnsWhatItRead(c, l) => OwnsWhatItRead(c, m)
    BY <1>1, <1>3 DEF OwnsWhatItRead, isPopLease
  <1>7. janitorExpired(l) => janitorExpired(m)
    <2>1. RenewedTooLongAgo(l) => RenewedTooLongAgo(m)
      BY <1>1, AgeFacts DEF RenewedTooLongAgo
    <2>2. GraceOver(l) => GraceOver(m)
      BY <1>2, AgeFacts DEF GraceOver
    <2> QED
      BY <1>1, <1>2, <2>1, <2>2 DEF janitorExpired, isPopLease
  <1> QED
    BY <1>1, <1>3, <1>4, <1>5, <1>6, <1>7 DEF DecidedOn

\* The steps of the environment.
LEMMA EnvironmentKeeps ==
    ASSUME Inv
    PROVE  /\ \A i \in IDs, pop \in Pops : Reserve(i, pop) => Inv'
           /\ \A p \in Pods, i \in IDs : Deliver(p, i) => Inv'
           /\ \A p \in Pods, i \in IDs : Relist(p, i) => Inv'
           /\ \A p \in Pods : Restart(p) => Inv'
           /\ Tick => Inv'
  <1>1. ASSUME NEW i \in IDs, NEW pop \in Pops, Reserve(i, pop) PROVE Inv'
    <2> DEFINE l == [holder |-> NoPod, gen |-> 0, pop |-> pop, age |-> 0,
                     grace |-> NoGrace, stalled |-> FALSE]
    <2>1. l \in Leases /\ parseOrigin(l) \in Origins
      BY AgeFacts DEF Leases, parseOrigin, Origins
    <2>2. /\ lease' = [lease EXCEPT ![i] = l]
          /\ queue' = [p \in Pods |->
                          [queue[p] EXCEPT ![i] = Append(@, parseOrigin(l))]]
          /\ born' = [born EXCEPT ![i] = @ + 1]
          /\ UNCHANGED <<held, calls, cache, fails>>
          /\ ~Exists(lease[i])
      BY <1>1 DEF Reserve
    <2> HIDE DEF l
    <2>3. /\ lease' \in [IDs -> Leases \cup {NoLease}]
          /\ queue' \in [Pods -> [IDs -> Seq(Origins)]]
          /\ born' \in [IDs -> Nat]
      BY <2>1, <2>2 DEF Inv, TypeOK
    <2>4. DecisionsStand'
      <3> SUFFICES ASSUME NEW d \in calls, d.fresh
                   PROVE  DecidedOn(d, lease'[d.id])
        BY <2>2 DEF DecisionsStand
      <3>1. DecidedOn(d, lease[d.id]) /\ d.id \in IDs
        BY DEF Inv, DecisionsStand, TypeOK, Calls
      <3>2. d.id # i
        BY <2>2, <3>1 DEF DecidedOn
      <3> QED
        BY <2>2, <3>1, <3>2 DEF Inv, TypeOK
    <2> QED
      BY <2>2, <2>3, <2>4 DEF Inv, TypeOK
  <1>2. ASSUME NEW p \in Pods, NEW i \in IDs, Deliver(p, i) PROVE Inv'
    <2>1. UNCHANGED <<lease, born, calls, fails>>
      BY <1>2 DEF Deliver
    <2>2. held' \in [Pods -> [IDs -> Claims]]
      BY <1>2, ForgetType DEF Deliver, Inv, TypeOK
    <2>3. cache' \in [Pods -> [IDs -> BOOLEAN]]
      BY <1>2 DEF Deliver, Inv, TypeOK
    <2>4. queue' \in [Pods -> [IDs -> Seq(Origins)]]
      <3>1. queue[p][i] \in Seq(Origins) /\ queue[p][i] # <<>>
        BY <1>2 DEF Deliver, Inv, TypeOK
      <3>2. Tail(queue[p][i]) \in Seq(Origins)
        BY <3>1
      <3> QED
        BY <1>2, <3>2 DEF Deliver, Inv, TypeOK
    <2> QED
      BY <2>1, <2>2, <2>3, <2>4 DEF Inv, TypeOK, DecisionsStand
  <1>3. ASSUME NEW p \in Pods, NEW i \in IDs, Relist(p, i) PROVE Inv'
    <2>1. parseOrigin(lease[i]) \in Origins
      BY LeaseFacts DEF Inv, TypeOK
    <2>2. queue' \in [Pods -> [IDs -> Seq(Origins)]]
      <3>1. <<>> \in Seq(Origins) /\ <<parseOrigin(lease[i])>> \in Seq(Origins)
        BY <2>1
      <3> QED
        BY <1>3, <3>1 DEF Relist, Inv, TypeOK
    <2> QED
      BY <1>3, <2>2 DEF Relist, Inv, TypeOK, DecisionsStand
  <1>4. ASSUME NEW p \in Pods, Restart(p) PROVE Inv'
    <2>1. held' \in [Pods -> [IDs -> Claims]]
      BY <1>4 DEF Restart, NotHeld, Claims, Inv, TypeOK
    <2>2. queue' \in [Pods -> [IDs -> Seq(Origins)]]
      BY <1>4 DEF Restart, Inv, TypeOK
    <2>3. cache' \in [Pods -> [IDs -> BOOLEAN]]
      BY <1>4 DEF Restart, Inv, TypeOK, Exists
    <2>4. calls' \subseteq calls /\ UNCHANGED <<lease, born>> /\ fails' \in Nat
      BY <1>4 DEF Restart, Inv, TypeOK
    <2> QED
      BY <2>1, <2>2, <2>3, <2>4 DEF Inv, TypeOK, DecisionsStand
  <1>5. ASSUME Tick PROVE Inv'
    <2> DEFINE older(l) == [l EXCEPT !.age = Older(@),
                               !.grace = IF @ = NoGrace THEN NoGrace ELSE Older(@)]
    <2>1. \A i \in IDs : lease'[i] = IF Exists(lease[i]) THEN older(lease[i])
                                                         ELSE NoLease
      BY <1>5 DEF Tick
    <2>2. \A l \in Leases : older(l) \in Leases
      BY AgeFacts DEF Leases
    <2>3. \A i \in IDs : Exists(lease[i]) => lease[i] \in Leases
      BY LeaseFacts DEF Inv, TypeOK
    <2>4. lease' \in [IDs -> Leases \cup {NoLease}]
      <3>1. \A i \in IDs : lease'[i] \in Leases \cup {NoLease}
        <4> HIDE DEF older
        <4> QED
          BY <2>1, <2>2, <2>3
      <3> QED
        BY <1>5, <3>1 DEF Tick
    <2>5. DecisionsStand'
      <3> SUFFICES ASSUME NEW d \in calls, d.fresh
                   PROVE  DecidedOn(d, lease'[d.id])
        BY <1>5 DEF Tick, DecisionsStand
      <3>1. DecidedOn(d, lease[d.id]) /\ d.id \in IDs /\ d \in Calls
        BY DEF Inv, DecisionsStand, TypeOK, Calls
      <3>2. Exists(lease[d.id]) /\ lease[d.id] \in Leases
        BY <2>3, <3>1 DEF DecidedOn
      <3>3. lease'[d.id] = older(lease[d.id])
        BY <2>1, <3>1, <3>2
      <3> QED
        BY <3>1, <3>2, <3>3, TickKeepsDecisions
    <2> QED
      BY <1>5, <2>4, <2>5 DEF Tick, Inv, TypeOK
  <1> QED
    BY <1>1, <1>2, <1>3, <1>4, <1>5

--------------------------------------------------------------------------------
(* Type correctness and the soundness of the compare-and-swap *)

\* Every step preserves the invariant.
LEMMA InvStep ==
    ASSUME Inv, [Next]_vars
    PROVE  Inv'
  <1>1. ASSUME UNCHANGED vars PROVE Inv'
    BY <1>1 DEF vars, Inv, TypeOK, DecisionsStand
  <1>2. ASSUME Call PROVE Inv'
    BY <1>2, CallKeeps, LoopKeeps DEF Call
  <1>3. ASSUME Step PROVE Inv'
    BY <1>3, ClaimKeeps, OwnerKeeps DEF Step
  <1>4. ASSUME Environment PROVE Inv'
    BY <1>4, EnvironmentKeeps DEF Environment
  <1> QED
    BY <1>1, <1>2, <1>3, <1>4 DEF Next

\* The initial state satisfies it.
LEMMA InvInit == Init => Inv
  <1> SUFFICES ASSUME Init PROVE Inv
    OBVIOUS
  <1> QED
    BY DEF Init, Inv, TypeOK, DecisionsStand, NotHeld, Claims

\* Every variable keeps its type, and whatever another pod, loop or call did
\* since a call read the Lease, a write that the API server lets through still
\* finds the Lease as the call's conditions require it.
THEOREM InvHolds == Spec => []Inv
  <1> QED
    BY InvInit, InvStep, PTL DEF Spec

\* Type correctness of the coordinator.
THEOREM TypeCorrect == Spec => []TypeOK
  <1>1. Inv => TypeOK
    BY DEF Inv
  <1> QED
    BY <1>1, InvHolds, PTL

\* The resourceVersion precondition makes read, decide and write one step.
THEOREM DecisionsSound == Spec => []DecisionsStand
  <1>1. Inv => DecisionsStand
    BY DEF Inv
  <1> QED
    BY <1>1, InvHolds, PTL

================================================================================
