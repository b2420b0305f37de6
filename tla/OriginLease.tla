------------------------------ MODULE OriginLease ------------------------------
(***************************************************************************)
(* The origin-Lease protocol of gawk-server/internal/cluster/cluster.go.   *)
(*                                                                         *)
(* Every broadcast has one Kubernetes Lease.  The pod named in it is the   *)
(* broadcast's origin; its generation counts the claims and fences stale   *)
(* edges.  The API server serialises writes to the object, a write that    *)
(* follows a read is refused when the object changed in between            *)
(* (resourceVersion), and every pod learns of the writes late, in order,   *)
(* through its informer.                                                   *)
(*                                                                         *)
(* A coordinator call (Claim, EnterGrace, Delete, ...) is several requests *)
(* to the API server, so it is a record in "calls" that moves through      *)
(* phases; other calls, of this pod and of others, run between them.  Its  *)
(* field "fresh" says that the object is still the one the call read: the  *)
(* resourceVersion precondition holds exactly while it is TRUE.            *)
(*                                                                         *)
(* Time is counted in ticks.  Instead of absolute stamps the model keeps   *)
(* the age of each stamp, saturated once every comparison with it is       *)
(* decided.                                                                *)
(***************************************************************************)
EXTENDS Integers, Sequences, FiniteSets

CONSTANTS
    Pods,            \* pod names
    IDs,             \* broadcast IDs
    Pops,            \* names of the PoP relays
    NoPod,           \* the empty HolderIdentity
    NoPop,           \* the absent gawk/pop label
    LeaseDuration,   \* Options.LeaseDuration, in ticks
    BroadcastGrace,  \* Options.BroadcastGrace, in ticks
    MaxBroadcasts,   \* Options.MaxBroadcasts; 0 = unlimited
    ClaimRetries,    \* claimRetries
    Ops,             \* the coordinator calls the rest of the relay makes
    MaxGen,          \* bound: claims of one Lease object
    MaxBorn,         \* bound: creations of one Lease name
    MaxLag,          \* bound: events an informer may be behind
    MaxCalls,        \* bound: calls in flight in the fleet
    MaxLoops,        \* bound: renewals and janitor deletes in flight
    MaxFails         \* bound: calls whose API request fails

AllOps == {"claim", "renew", "grace", "stall", "delete", "release",
           "releasegen", "reserve", "deletereservation", "renewreservations",
           "janitor"}

ASSUME NamesAssumption ==
    /\ NoPod \notin Pods
    /\ NoPop \notin Pops
ASSUME TimesAssumption ==
    /\ LeaseDuration \in Nat \ {0}
    /\ BroadcastGrace \in Nat \ {0}
ASSUME LimitsAssumption ==
    /\ MaxBroadcasts \in Nat
    /\ ClaimRetries \in Nat \ {0}
ASSUME BoundsAssumption ==
    /\ MaxGen \in Nat
    /\ MaxBorn \in Nat
    /\ MaxLag \in Nat
    /\ MaxCalls \in Nat
    /\ MaxLoops \in Nat
    /\ MaxFails \in Nat
ASSUME OpsAssumption == Ops \subseteq AllOps

VARIABLES
    lease,   \* the Lease objects in the API server
    born,    \* how often each object was created (its metadata.uid)
    held,    \* Coordinator.held: per pod and ID, the claim being renewed
    calls,   \* coordinator calls in flight
    queue,   \* watch events not yet handled, per pod and ID
    cache,   \* whether the informer's store has the Lease, per pod and ID
    fails    \* calls that failed so far

vars == <<lease, born, held, calls, queue, cache, fails>>

--------------------------------------------------------------------------------
(* The Lease object *)

\* Past this age every comparison below has the same outcome for good.
AgeCap == LeaseDuration + BroadcastGrace + 1
Ages == 0 .. AgeCap
NoGrace == -1

\* age: since Spec.RenewTime; grace: since the grace deadline was stamped
\* (NoGrace: annotation absent); stalled: gawk/stalled-since is present.  Stamps
\* are written to the second, less than a tick.
Leases == [holder : Pods \cup {NoPod}, gen : Nat, pop : Pops \cup {NoPop},
           age : Ages, grace : Ages \cup {NoGrace}, stalled : BOOLEAN]

\* A name with no object behind it.
NoLease == [holder |-> NoPod, gen |-> -1, pop |-> NoPop,
            age |-> 0, grace |-> NoGrace, stalled |-> FALSE]

Exists(l) == l # NoLease

\* What parseOrigin gives the event handlers: Holder, Generation and Pop.
Origins == [holder : Pods \cup {NoPod}, gen : Nat \cup {-1}, pop : Pops \cup {NoPop}]
parseOrigin(l) == [holder |-> l.holder, gen |-> l.gen, pop |-> l.pop]
NoOrigin == parseOrigin(NoLease)

isPopLease(l) == l.pop # NoPop

renewStale(l) == l.age > LeaseDuration

\* janitorExpired with its two helpers: a renewal too old for anyone to come
\* back, and a grace deadline in the past.
RenewedTooLongAgo(l) == l.age > BroadcastGrace + LeaseDuration
GraceOver(l) == l.grace # NoGrace /\ l.grace > BroadcastGrace

\* Faulty variant: collects only what has a grace deadline.
janitorGraceOnly(l) == GraceOver(l)

janitorExpired(l) ==
    IF isPopLease(l) /\ l.holder = NoPod
    THEN RenewedTooLongAgo(l)
    ELSE IF l.grace # NoGrace
         THEN GraceOver(l)
         ELSE RenewedTooLongAgo(l)

--------------------------------------------------------------------------------
(* Calls in flight *)

\* Reserve is a single request and is never in flight.
CallOps == AllOps \ {"reserve"}
Phases == {"get", "list", "create", "stop", "update", "start"}

Calls == [pod : Pods, id : IDs, op : CallOps, phase : Phases, fresh : BOOLEAN,
          tries : 1 .. ClaimRetries, pop : Pops \cup {NoPop}, flag : BOOLEAN,
          gen : Nat, born : Nat]

\* flag: Claim's force, SetStalled's stalled; pop: the PoP named by the caller;
\* gen: the generation a renewal or a fenced release is for, or a claim gets;
\* born: the object a granted claim is of.
NewCall(p, i, o, q, f, g, b) ==
    [pod |-> p, id |-> i, op |-> o, phase |-> "get", fresh |-> FALSE,
     tries |-> 1, pop |-> q, flag |-> f, gen |-> g, born |-> b]

\* Faulty variant: a write without the precondition.
UnchangedBlind(c) == TRUE

\* The resourceVersion precondition of an Update or a Delete.
Unchanged(c) == c.fresh

\* c goes on with next (its continuation, or nothing when it returned); the API
\* server's objects are as before.
Continue(c, next) == calls' = (calls \ {c}) \cup next

Return(c) == Continue(c, {})

\* Faulty variant: one attempt too many.
RetryOnceMore(c) ==
    IF c.tries <= ClaimRetries
    THEN {[c EXCEPT !.phase = "get", !.fresh = FALSE, !.tries = @ + 1]}
    ELSE {}

\* claimRetries bounds the loops that re-read after a lost CAS.
Retry(c) ==
    IF c.tries < ClaimRetries
    THEN {[c EXCEPT !.phase = "get", !.fresh = FALSE, !.tries = @ + 1]}
    ELSE {}

\* A refused Claim, SetStalled, ReleaseGeneration or DeleteReservation re-reads on
\* Conflict; on NotFound, the object being gone, it returns like all the others.
Refused(c) ==
    IF /\ c.op \in {"claim", "stall", "releasegen", "deletereservation"}
       /\ Exists(lease[c.id])
    THEN Retry(c)
    ELSE {}

\* Once object i is written, nobody's earlier read of it is current.
Outdate(S, i) ==
    {IF d.id = i THEN [d EXCEPT !.fresh = FALSE] ELSE d : d \in S}

\* The API server commits l as object i on behalf of call c, which goes on with
\* next, and every informer has one more event to handle.
Commit(c, next, i, l) ==
    /\ \A p \in Pods : Len(queue[p][i]) < MaxLag
    /\ lease' = [lease EXCEPT ![i] = l]
    /\ queue' = [p \in Pods |->
                    [queue[p] EXCEPT ![i] = Append(@, parseOrigin(l))]]
    /\ calls' = Outdate(calls \ {c}, i) \cup next

NotHeld == [gen |-> 0, born |-> 0]
Claims == [gen : Nat, born : Nat]

\* Removing a claim from Coordinator.held also cancels its renew loop.
Forget(p, i) == held' = [held EXCEPT ![p][i] = NotHeld]

\* The bounds on the calls in flight: those of the rest of the relay, and those
\* of the renew loops and the janitor.
Room == Cardinality({c \in calls : c.op \notin {"renew", "janitor"}}) < MaxCalls
LoopRoom == Cardinality({c \in calls : c.op \in {"renew", "janitor"}}) < MaxLoops

--------------------------------------------------------------------------------
(* Claim and ClaimForPop *)

CallClaim(p, i, pop, force) ==
    /\ "claim" \in Ops
    /\ Room
    /\ calls' = calls \cup {NewCall(p, i, "claim", pop, force, 0, 0)}
    /\ UNCHANGED <<lease, born, held, queue, cache, fails>>

takeable(c, l) ==
    \/ l.holder = NoPod
    \/ l.holder = c.pod
    \/ renewStale(l)
    \/ c.flag

\* Get, and what Claim decides from it.
ClaimGet(c) ==
    /\ c.op = "claim" /\ c.phase = "get"
    /\ LET l == lease[c.id] IN
       \/ /\ ~Exists(l) /\ c.pop # NoPop          \* ErrNotFound
          /\ Return(c)
       \/ /\ ~Exists(l) /\ c.pop = NoPop
          /\ Continue(c, {[c EXCEPT !.phase = "list"]})
       \/ /\ Exists(l) /\ l.pop # c.pop           \* ErrReserved
          /\ Return(c)
       \/ /\ Exists(l) /\ l.pop = c.pop /\ ~takeable(c, l)   \* ErrHeldElsewhere
          /\ Return(c)
       \/ /\ Exists(l) /\ l.pop = c.pop /\ takeable(c, l)
          /\ IF l.gen < MaxGen
             THEN Continue(c, {[c EXCEPT !.phase = "update", !.fresh = TRUE,
                                         !.gen = l.gen + 1]})
             ELSE Return(c)                       \* at the bound
    /\ UNCHANGED <<lease, born, held, queue, cache, fails>>

\* The answer to a committed claim is on its way back.
GrantedCall(c, g, b) ==
    [NewCall(c.pod, c.id, "claim", c.pop, FALSE, g, b) EXCEPT !.phase = "start"]

\* createLease counts the Leases that are no PoP reservations.
FleetBroadcasts == {i \in IDs : Exists(lease[i]) /\ ~isPopLease(lease[i])}

CreateLeaseList(c) ==
    /\ c.op = "claim" /\ c.phase = "list"
    /\ IF MaxBroadcasts > 0 /\ Cardinality(FleetBroadcasts) >= MaxBroadcasts
       THEN Return(c)                             \* ErrMaxBroadcasts
       ELSE Continue(c, {[c EXCEPT !.phase = "create"]})
    /\ UNCHANGED <<lease, born, held, queue, cache, fails>>

CreateLease(c) ==
    /\ c.op = "claim" /\ c.phase = "create"
    /\ \/ /\ Exists(lease[c.id])                  \* AlreadyExists
          /\ Continue(c, Retry(c))
          /\ UNCHANGED <<lease, born, queue>>
       \/ /\ ~Exists(lease[c.id]) /\ born[c.id] = MaxBorn      \* at the bound
          /\ Return(c)
          /\ UNCHANGED <<lease, born, queue>>
       \/ /\ ~Exists(lease[c.id]) /\ born[c.id] < MaxBorn
          /\ born' = [born EXCEPT ![c.id] = @ + 1]
          /\ Commit(c, {GrantedCall(c, 1, born'[c.id])}, c.id,
                    [holder |-> c.pod, gen |-> 1, pop |-> NoPop, age |-> 0,
                     grace |-> NoGrace, stalled |-> FALSE])
    /\ UNCHANGED <<held, cache, fails>>

\* Faulty variant: the claim keeps the generation.
ClaimedSameGen(p, g, l) ==
    [l EXCEPT !.holder = p, !.age = 0, !.grace = NoGrace, !.stalled = FALSE]

\* What a successful claim makes of l: a new holder and generation, a fresh
\* renewTime, no grace deadline, no stall stamp.
ClaimedBy(p, g, l) ==
    [l EXCEPT !.holder = p, !.gen = g, !.age = 0,
              !.grace = NoGrace, !.stalled = FALSE]

ClaimUpdate(c) ==
    /\ c.op = "claim" /\ c.phase = "update"
    /\ \/ /\ ~Unchanged(c)
          /\ Continue(c, Refused(c))
          /\ UNCHANGED <<lease, queue>>
       \/ /\ Unchanged(c)
          /\ Commit(c, {GrantedCall(c, c.gen, born[c.id])}, c.id,
                    ClaimedBy(c.pod, c.gen, lease[c.id]))
    /\ UNCHANGED <<born, held, cache, fails>>

\* Back from the API server, the claim becomes the held one and its renew loop
\* starts; a previous loop is cancelled.
StartRenew(c) ==
    /\ c.op = "claim" /\ c.phase = "start"
    /\ held' = [held EXCEPT ![c.pod][c.id] = [gen |-> c.gen, born |-> c.born]]
    /\ Return(c)
    /\ UNCHANGED <<lease, born, queue, cache, fails>>

--------------------------------------------------------------------------------
(* The renew loop of a held claim *)

\* The Lease no longer records claim g of pod p.
Superseded(p, g, l) == l.holder # p \/ l.gen # g

\* A tick that goes on to Update; at most one per loop is in flight.
Renewing(p, i) ==
    /\ LoopRoom
    /\ lease[i].age > 0                           \* at most one renewal per tick
    /\ ~\E c \in calls : /\ c.pod = p /\ c.id = i /\ c.op = "renew"
                         /\ c.gen = held[p][i].gen
    /\ calls' = calls \cup
          {[NewCall(p, i, "renew", NoPop, FALSE, held[p][i].gen, 0)
                EXCEPT !.phase = "update", !.fresh = TRUE]}

\* Faulty variant: the loop of a superseded claim ends and the claim stays held.
RenewGetForgetful(p, i) ==
    /\ "renew" \in Ops
    /\ held[p][i] # NotHeld
    /\ Exists(lease[i]) /\ ~Superseded(p, held[p][i].gen, lease[i])
    /\ Renewing(p, i)
    /\ UNCHANGED <<lease, born, held, queue, cache, fails>>

\* A tick of the loop: Get, then either give the claim up or go on to Update.  A
\* missing Lease is an error the loop only logs.
RenewGet(p, i) ==
    /\ "renew" \in Ops
    /\ held[p][i] # NotHeld
    /\ Exists(lease[i])
    /\ IF Superseded(p, held[p][i].gen, lease[i])
       THEN /\ Forget(p, i)
            /\ UNCHANGED calls
       ELSE /\ Renewing(p, i)
            /\ UNCHANGED held
    /\ UNCHANGED <<lease, born, queue, cache, fails>>

\* The Update is not retried.  It may still land after its loop was cancelled: a
\* cancelled request can already be at the API server.  It writes back the copy
\* the Get read, which is the current object when the precondition holds; so does
\* every other Update below.
RenewUpdate(c) ==
    /\ c.op = "renew" /\ c.phase = "update"
    /\ \/ /\ ~Unchanged(c)
          /\ Return(c)
          /\ UNCHANGED <<lease, queue>>
       \/ /\ Unchanged(c)
          /\ Commit(c, {}, c.id, [lease[c.id] EXCEPT !.age = 0])
    /\ UNCHANGED <<born, held, cache, fails>>

--------------------------------------------------------------------------------
(* EnterGrace, SetStalled, Delete, Release, ReleaseGeneration *)

\* stopRenew comes first: EnterGrace, Delete and Release.
CallStoppingRenew(o, p, i) ==
    /\ o \in Ops
    /\ Room
    /\ calls' = calls \cup {NewCall(p, i, o, NoPop, FALSE, 0, 0)}
    /\ Forget(p, i)
    /\ UNCHANGED <<lease, born, queue, cache, fails>>

CallSetStalled(p, i, stalled) ==
    /\ "stall" \in Ops
    /\ Room
    /\ calls' = calls \cup {NewCall(p, i, "stall", NoPop, stalled, 0, 0)}
    /\ UNCHANGED <<lease, born, held, queue, cache, fails>>

CallReleaseGeneration(p, i, g) ==
    /\ "releasegen" \in Ops
    /\ Room
    /\ g \in 1 .. lease[i].gen
    /\ calls' = calls \cup {NewCall(p, i, "releasegen", NoPop, FALSE, g, 0)}
    /\ UNCHANGED <<lease, born, held, queue, cache, fails>>

\* What each call requires of the Lease it read; otherwise it returns.
OwnsWhatItRead(c, l) ==
    CASE c.op = "grace"   -> Exists(l) /\ l.holder = c.pod
      [] c.op = "stall"   -> Exists(l) /\ l.holder = c.pod /\ l.stalled # c.flag
      [] c.op = "delete"  -> Exists(l) /\ ~isPopLease(l) /\ l.holder \in {NoPod, c.pod}
      [] c.op = "release" -> Exists(l) /\ l.holder = c.pod
      [] OTHER            -> FALSE

\* Faulty variant: only asks whether the Lease is there.
OwnerGetUnchecked(c) ==
    /\ c.op \in {"grace", "stall", "delete", "release"} /\ c.phase = "get"
    /\ IF Exists(lease[c.id])
       THEN Continue(c, {[c EXCEPT !.phase = "update", !.fresh = TRUE]})
       ELSE Return(c)
    /\ UNCHANGED <<lease, born, held, queue, cache, fails>>

OwnerGet(c) ==
    /\ c.op \in {"grace", "stall", "delete", "release"} /\ c.phase = "get"
    /\ IF OwnsWhatItRead(c, lease[c.id])
       THEN Continue(c, {[c EXCEPT !.phase = "update", !.fresh = TRUE]})
       ELSE Return(c)
    /\ UNCHANGED <<lease, born, held, queue, cache, fails>>

\* ReleaseGeneration checks the held claim before the Get.
ReleaseGenerationGet(c) ==
    /\ c.op = "releasegen" /\ c.phase = "get"
    /\ LET h == held[c.pod][c.id] IN
       IF /\ h # NotHeld => h.gen = c.gen
          /\ ~Superseded(c.pod, c.gen, lease[c.id])
       THEN Continue(c, {[c EXCEPT !.phase = "stop", !.fresh = TRUE]})
       ELSE Return(c)
    /\ UNCHANGED <<lease, born, held, queue, cache, fails>>

\* Between its Get and its write, ReleaseGeneration stops the renew loop of the
\* generation it releases, DeleteReservation whichever this pod has by then.
StopRenew(c) ==
    /\ c.op \in {"releasegen", "deletereservation"} /\ c.phase = "stop"
    /\ IF c.op = "releasegen" => held[c.pod][c.id].gen = c.gen
       THEN Forget(c.pod, c.id)
       ELSE UNCHANGED held
    /\ Continue(c, {[c EXCEPT !.phase = "update"]})
    /\ UNCHANGED <<lease, born, queue, cache, fails>>

\* A reservation handed back is dormant again: its renewal clock starts over.
released(l) ==
    IF isPopLease(l)
    THEN [l EXCEPT !.holder = NoPod, !.grace = NoGrace, !.age = 0]
    ELSE [l EXCEPT !.holder = NoPod]

\* The object each call writes.
Written(c, l) ==
    CASE c.op = "grace"             -> [l EXCEPT !.grace = 0]
      [] c.op = "stall"             -> [l EXCEPT !.stalled = c.flag]
      [] c.op = "release"           -> released(l)
      [] c.op = "releasegen"        -> released(l)
      [] c.op = "renewreservations" -> [l EXCEPT !.age = 0]
      [] OTHER                      -> NoLease

\* The conditional Update or Delete that ends every one of these calls.
WriteBack(c) ==
    /\ c.op \notin {"claim", "renew"} /\ c.phase = "update"
    /\ \/ /\ ~Unchanged(c)
          /\ Continue(c, Refused(c))
          /\ UNCHANGED <<lease, queue>>
       \/ /\ Unchanged(c)
          /\ Commit(c, {}, c.id, Written(c, lease[c.id]))
    /\ UNCHANGED <<born, held, cache, fails>>

--------------------------------------------------------------------------------
(* PoP reservations *)

\* Creation is the reservation; an existing Lease is ErrConflict.
Reserve(i, pop) ==
    /\ "reserve" \in Ops
    /\ ~Exists(lease[i])
    /\ born[i] < MaxBorn
    /\ \A p \in Pods : Len(queue[p][i]) < MaxLag
    /\ LET l == [holder |-> NoPod, gen |-> 0, pop |-> pop, age |-> 0,
                 grace |-> NoGrace, stalled |-> FALSE] IN
       /\ lease' = [lease EXCEPT ![i] = l]
       /\ queue' = [p \in Pods |->
                       [queue[p] EXCEPT ![i] = Append(@, parseOrigin(l))]]
    /\ born' = [born EXCEPT ![i] = @ + 1]
    /\ UNCHANGED <<held, calls, cache, fails>>

CallDeleteReservation(p, i, pop) ==
    /\ "deletereservation" \in Ops
    /\ Room
    /\ calls' = calls \cup {NewCall(p, i, "deletereservation", pop, FALSE, 0, 0)}
    /\ UNCHANGED <<lease, born, held, queue, cache, fails>>

DeleteReservationGet(c) ==
    /\ c.op = "deletereservation" /\ c.phase = "get"
    /\ IF Exists(lease[c.id]) /\ lease[c.id].pop = c.pop
       THEN Continue(c, {[c EXCEPT !.phase = "stop", !.fresh = TRUE]})
       ELSE Return(c)
    /\ UNCHANGED <<lease, born, held, queue, cache, fails>>

\* The link-home pod lists a PoP's dormant reservations and renews each.
RenewReservationsList(p, i, pop) ==
    /\ "renewreservations" \in Ops
    /\ Room
    /\ Exists(lease[i]) /\ lease[i].pop = pop /\ lease[i].holder = NoPod
    /\ lease[i].age > 0                           \* at most one renewal per tick
    /\ calls' = calls \cup
          {[NewCall(p, i, "renewreservations", pop, FALSE, 0, 0)
                EXCEPT !.phase = "update", !.fresh = TRUE]}
    /\ UNCHANGED <<lease, born, held, queue, cache, fails>>

--------------------------------------------------------------------------------
(* The janitor *)

\* JanitorSweep lists the Leases and deletes each expired one, conditionally.
JanitorList(p, i) ==
    /\ "janitor" \in Ops
    /\ LoopRoom
    /\ ~\E c \in calls : c.pod = p /\ c.id = i /\ c.op = "janitor"
    /\ Exists(lease[i]) /\ janitorExpired(lease[i])
    /\ calls' = calls \cup
          {[NewCall(p, i, "janitor", NoPop, FALSE, 0, 0)
                EXCEPT !.phase = "update", !.fresh = TRUE]}
    /\ UNCHANGED <<lease, born, held, queue, cache, fails>>

--------------------------------------------------------------------------------
(* The informer *)

\* UpdateFunc calls OnLeaseLost for origin o; an addition has no handler.
ReportsLoss(p, i, o) ==
    /\ o # NoOrigin /\ cache[p][i]
    /\ held[p][i] # NotHeld
    /\ Superseded(p, held[p][i].gen, o)

\* DeleteFunc, UpdateFunc: pod p handles its oldest event of object i.
Deliver(p, i) ==
    /\ queue[p][i] # <<>>
    /\ LET o == Head(queue[p][i]) IN
       /\ IF o = NoOrigin \/ ReportsLoss(p, i, o)
          THEN Forget(p, i)
          ELSE UNCHANGED held
       /\ cache' = [cache EXCEPT ![p][i] = (o # NoOrigin)]
    /\ queue' = [queue EXCEPT ![p][i] = Tail(@)]
    /\ UNCHANGED <<lease, born, calls, fails>>

\* A broken watch is replaced by a new list: the events in between are lost (more
\* than one, or nothing is lost) and only the difference between the store and
\* the server is handled.
Relist(p, i) ==
    /\ Len(queue[p][i]) > 1
    /\ queue' = [queue EXCEPT ![p][i] =
                    IF ~cache[p][i] /\ ~Exists(lease[i])
                    THEN <<>> ELSE <<parseOrigin(lease[i])>>]
    /\ UNCHANGED <<lease, born, held, calls, cache, fails>>

--------------------------------------------------------------------------------
(* Time and failures *)

Older(a) == IF a < AgeCap THEN a + 1 ELSE AgeCap

Tick ==
    /\ lease' = [i \in IDs |->
          IF Exists(lease[i])
          THEN [lease[i] EXCEPT !.age = Older(@),
                   !.grace = IF @ = NoGrace THEN NoGrace ELSE Older(@)]
          ELSE NoLease]
    /\ lease' # lease
    /\ UNCHANGED <<born, held, calls, queue, cache, fails>>

\* A request fails, or its answer is lost after the write was committed: the
\* call returns an error and the claim, if it was one, is never started.
Fail(c) ==
    /\ fails < MaxFails
    /\ fails' = fails + 1
    /\ Return(c)
    /\ UNCHANGED <<lease, born, held, queue, cache>>

\* The relay process of pod p dies and starts again under the same pod name; its
\* informer begins with a list, whose additions no handler sees.
Restart(p) ==
    /\ fails < MaxFails
    /\ fails' = fails + 1
    /\ held' = [held EXCEPT ![p] = [i \in IDs |-> NotHeld]]
    /\ calls' = {c \in calls : c.pod # p}
    /\ queue' = [queue EXCEPT ![p] = [i \in IDs |-> <<>>]]
    /\ cache' = [cache EXCEPT ![p] = [i \in IDs |-> Exists(lease[i])]]
    /\ UNCHANGED <<lease, born>>

--------------------------------------------------------------------------------
Init ==
    /\ lease = [i \in IDs |-> NoLease]
    /\ born = [i \in IDs |-> 0]
    /\ held = [p \in Pods |-> [i \in IDs |-> NotHeld]]
    /\ calls = {}
    /\ queue = [p \in Pods |-> [i \in IDs |-> <<>>]]
    /\ cache = [p \in Pods |-> [i \in IDs |-> FALSE]]
    /\ fails = 0

\* Calls made by the rest of the relay, and the loops.
Call ==
    \E p \in Pods, i \in IDs :
        \/ \E pop \in Pops \cup {NoPop}, force \in BOOLEAN : CallClaim(p, i, pop, force)
        \/ RenewGet(p, i)
        \/ \E o \in {"grace", "delete", "release"} : CallStoppingRenew(o, p, i)
        \/ \E stalled \in BOOLEAN : CallSetStalled(p, i, stalled)
        \/ \E g \in 1 .. MaxGen : CallReleaseGeneration(p, i, g)
        \/ \E pop \in Pops : CallDeleteReservation(p, i, pop)
        \/ \E pop \in Pops : RenewReservationsList(p, i, pop)
        \/ JanitorList(p, i)

\* A call in flight takes its next step.
Step ==
    \E c \in calls :
        \/ ClaimGet(c)
        \/ CreateLeaseList(c)
        \/ CreateLease(c)
        \/ ClaimUpdate(c)
        \/ StartRenew(c)
        \/ RenewUpdate(c)
        \/ OwnerGet(c)
        \/ ReleaseGenerationGet(c)
        \/ DeleteReservationGet(c)
        \/ StopRenew(c)
        \/ WriteBack(c)
        \/ Fail(c)

Environment ==
    \/ \E i \in IDs, pop \in Pops : Reserve(i, pop)
    \/ \E p \in Pods, i \in IDs : Deliver(p, i) \/ Relist(p, i)
    \/ \E p \in Pods : Restart(p)
    \/ Tick

Next == Call \/ Step \/ Environment

Spec == Init /\ [][Next]_vars

\* What the code's scheduling guarantees: the informer and the tickers keep
\* running, API requests return, and time passes.
Progress(c) ==
    \/ ClaimGet(c) \/ CreateLeaseList(c) \/ CreateLease(c) \/ ClaimUpdate(c)
    \/ StartRenew(c) \/ RenewUpdate(c) \/ OwnerGet(c) \/ ReleaseGenerationGet(c)
    \/ DeleteReservationGet(c) \/ StopRenew(c) \/ WriteBack(c)

Fairness ==
    /\ WF_vars(Tick)
    /\ \A p \in Pods, i \in IDs :
        /\ WF_vars(Deliver(p, i))
        /\ WF_vars(RenewGet(p, i))
        /\ WF_vars(JanitorList(p, i))
        /\ \A o \in Ops :
            WF_vars(\E c \in calls : c.pod = p /\ c.id = i /\ c.op = o /\ Progress(c))

FairSpec == Spec /\ Fairness

--------------------------------------------------------------------------------
(* Properties *)

\* Every variable has the type its Go counterpart has.
TypeOK ==
    /\ lease \in [IDs -> Leases \cup {NoLease}]
    /\ born \in [IDs -> Nat]
    /\ held \in [Pods -> [IDs -> Claims]]
    /\ calls \subseteq Calls
    /\ queue \in [Pods -> [IDs -> Seq(Origins)]]
    /\ cache \in [Pods -> [IDs -> BOOLEAN]]
    /\ fails \in Nat

\* What a call decided from its read (the conditions of claim, renewOnce,
\* EnterGrace, SetStalled, Delete, Release, ReleaseGeneration,
\* DeleteReservation, RenewReservations and janitorExpired).
DecidedOn(c, l) ==
    /\ Exists(l)
    /\ c.op = "claim" => c.gen = l.gen + 1 /\ l.pop = c.pop /\ takeable(c, l)
    /\ c.op \in {"renew", "releasegen"} => ~Superseded(c.pod, c.gen, l)
    /\ c.op \in {"grace", "stall", "delete", "release"} => OwnsWhatItRead(c, l)
    /\ c.op = "deletereservation" => l.pop = c.pop
    /\ c.op = "renewreservations" => l.pop = c.pop /\ l.holder = NoPod
    /\ c.op = "janitor" => janitorExpired(l)

\* A write that the resourceVersion precondition lets through finds the Lease as
\* the call's conditions require it, however long ago the call read it and
\* whatever ran in between.
DecisionsStand == \A c \in calls : c.fresh => DecidedOn(c, lease[c.id])

\* The claims of object i that some pod holds, or was granted and is about to
\* hold.
Granted(i) ==
    {[pod |-> p, gen |-> held[p][i].gen, born |-> held[p][i].born] :
        p \in {q \in Pods : held[q][i] # NotHeld}}
    \cup
    {[pod |-> c.pod, gen |-> c.gen, born |-> c.born] :
        c \in {d \in calls : d.id = i /\ d.phase = "start"}}

\* The generation is a fencing token: no two pods are ever granted the same
\* generation of one Lease object (claim, createLease).
GenerationsUnique ==
    \A i \in IDs : \A s, t \in Granted(i) :
        s.gen = t.gen /\ s.born = t.born => s.pod = t.pod

\* A claim granted on the Lease that exists now named that Lease's PoP, or no
\* PoP for an ordinary broadcast: a resume token never takes a reservation, not
\* even one made between the claim's read and its write (claim, ErrReserved).
ReservationRespected ==
    \A c \in calls :
        c.phase = "start" /\ c.born = born[c.id] /\ Exists(lease[c.id])
            => lease[c.id].pop = c.pop

\* A Lease disappears only when the janitor's rule holds for it at that moment,
\* when its own holder (or anyone, once it has none) ends an ordinary broadcast,
\* or when its PoP's reservation is deleted; a pod deposed or reclaimed in the
\* meantime never ends the broadcast under the new origin (Delete, JanitorSweep,
\* DeleteReservation).
LiveLeaseKept ==
    [][\A i \in IDs :
          Exists(lease[i]) /\ ~Exists(lease'[i]) =>
            \E c \in calls :
              /\ c.id = i
              /\ calls' = Outdate(calls \ {c}, i)
              /\ \/ c.op = "janitor" /\ janitorExpired(lease[i])
                 \/ /\ c.op = "delete" /\ ~isPopLease(lease[i])
                    /\ lease[i].holder \in {NoPod, c.pod}
                 \/ c.op = "deletereservation" /\ lease[i].pop = c.pop]_vars

\* A Lease that changes hands changes generation, and a renewal or a stamp never
\* changes either: the pair (holder, generation) an edge resolved stays true
\* until a claim or a release (claim, renewOnce, EnterGrace, SetStalled).
HandoverBumpsGeneration ==
    [][\A i \in IDs :
          Exists(lease[i]) /\ Exists(lease'[i]) =>
            /\ lease'[i].gen \in {lease[i].gen, lease[i].gen + 1}
            /\ lease'[i].pop = lease[i].pop
            /\ lease'[i].gen = lease[i].gen =>
                  lease'[i].holder \in {lease[i].holder, NoPod}]_vars

\* OnLeaseLost "fires when a lease this pod holds (and is renewing) turns out to be
\* held by someone else": never while the Lease records the very claim this pod
\* holds (UpdateFunc).
LossIsReal ==
    [][\A p \in Pods, i \in IDs :
          /\ queue[p][i] # <<>> /\ ReportsLoss(p, i, Head(queue[p][i]))
          /\ queue'[p][i] = Tail(queue[p][i]) /\ held'[p][i] = NotHeld
          => Superseded(p, held[p][i].gen, lease[i])]_vars

\* The Lease records the claim pod p holds.
Recorded(p, i) == lease[i].holder = p /\ lease[i].gen = held[p][i].gen

Deposed(p, i) == held[p][i] # NotHeld /\ Exists(lease[i]) /\ ~Recorded(p, i)

\* A pod whose claim was superseded, by another pod or by a later claim of its own,
\* stops renewing it.  The watch event of a takeover that comes before the pod has
\* started to renew finds nothing to lose, and a relist shows no change: then the
\* renew loop's own check has to find out (startRenew, UpdateFunc, renewOnce).
DeposedHolderStops ==
    \A p \in Pods, i \in IDs : Deposed(p, i) ~> ~Deposed(p, i)

\* A Lease that no pod attends to any more, its origin dead before or after it
\* stamped a grace deadline, is collected or attended to again (janitorLoop on
\* every pod).
Attended(i) ==
    \/ \E p \in Pods : held[p][i] # NotHeld /\ Recorded(p, i)
    \/ \E c \in calls : c.id = i /\ c.op \in {"grace", "renewreservations"}

AbandonedLeaseCollected ==
    \A i \in IDs :
        Exists(lease[i]) /\ ~Attended(i) ~> (~Exists(lease[i]) \/ Attended(i))

================================================================================
