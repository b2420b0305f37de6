-------------------------------- MODULE EdgePull --------------------------------
(***************************************************************************)
(* An edge: a pod that serves viewers of a broadcast whose origin is       *)
(* another pod (gawk-server/internal/transport/edge.go, handleSubscribe,   *)
(* handleInternalSubscribe, HandleLeaseLost, HandleLeaseDeleted).          *)
(*                                                                         *)
(* A pull (edgeSession) is a goroutine that resolves the Lease, dials the  *)
(* origin, claims the publisher slot of the local hub and pumps until its  *)
(* upstream ends, its viewers are gone or it is stopped.  Registry and     *)
(* Leases are the ones of HubRegistry and AtomicLease.  The rest of the    *)
(* fleet is one pod, Other; a broadcaster that moves inside it shows as a  *)
(* new generation.                                                         *)
(***************************************************************************)
EXTENDS Naturals, FiniteSets

CONSTANTS
    IDs, Viewers, NoSession, NoID,
    MaxSubscribers, MaxTotalSubscribers, MaxObjects, MaxGen,
    Pulls,         \* edgeSession objects; one that is done is used again
    Home,          \* the broadcaster's session, when this pod is the origin
    Self, Other, Pops, NoPod, NoPop,
    MaxOutside     \* bound: moves of the broadcaster and faults of its origin

ASSUME EdgePullAssumption ==
    /\ Home \notin Pulls /\ NoSession \notin Pulls \cup {Home}
    /\ NoID \notin IDs /\ IsFiniteSet(Viewers)
    /\ Self # Other /\ NoPod \notin {Self, Other}
    /\ {MaxSubscribers, MaxTotalSubscribers} \subseteq Nat \ {0}
    /\ {MaxObjects, MaxGen, MaxOutside} \subseteq Nat

VARIABLES
    hubs, created, pubs, firing, subs, kicks,   \* HubRegistry
    origin,   \* the Leases
    held,     \* the IDs whose Lease this pod renews
    remote,   \* what the origin elsewhere is doing with each broadcast
    pull,     \* the state of each pull
    edges,    \* EdgeManager.edges
    join,     \* the subscribe handler of each viewer
    told,     \* how each viewer's session was closed
    over,     \* IDs whose broadcast has ended, was out of reach for a whole grace, or
              \* was left by its broadcaster while this pod was the origin
    jobs,     \* goroutines of watch events and of the broadcaster's own session
    outside   \* steps counted against MaxOutside

Hub == INSTANCE HubRegistry WITH
    Sessions <- Pulls \cup {Home}, MaxBroadcasts <- 1, StallEnds <- FALSE
Lease == INSTANCE AtomicLease WITH Pods <- {Self, Other}

hubVars == <<hubs, created, pubs, firing, subs, kicks>>
leaseVars == <<origin, held, remote, over>>
viewVars == <<join, told>>
vars == <<hubVars, leaseVars, pull, edges, viewVars, jobs, outside>>

--------------------------------------------------------------------------------
(* Pulls *)

\* gen: the generation dialed; slot: it has claimed the hub's publisher slot; up:
\* the upstream session and how it ended (ended: with 4000 or 4014, which
\* upstreamEndIsFinal does not tell apart); coming: its end, still on the wire;
\* stop: its context is cancelled; gone: the Lease was not found; attached: what
\* awaitAttached reports.
PullStates ==
    [at : {"resolve", "wait", "dial", "attach", "pump", "judge",
           "lingered", "ending", "killing", "release", "done"},
     id : IDs \cup {NoID}, gen : Nat, slot : BOOLEAN,
     up : {"none", "open", "lost", "ended", "killed"},
     coming : {"none", "lost", "ended", "killed"},
     stop : BOOLEAN, gone : BOOLEAN, attached : {"no", "yes", "failed"}]

Unused == [at |-> "done", id |-> NoID, gen |-> 0, slot |-> FALSE, up |-> "none",
           coming |-> "none", stop |-> FALSE, gone |-> FALSE, attached |-> "no"]

PullAt(p, step) == pull[p].at = step
Running(p) == ~PullAt(p, "done")
HasPull(i) == edges[i] # NoSession /\ Running(edges[i])
\* Nobody refers to the pull any more.
Free(p) == /\ ~Running(p)
           /\ \A v \in Viewers : join[v].pull # p
           /\ \A j \in jobs : j.pull # p

\* signalAttached: only the first report counts.
Signal(h, a) == IF h.attached = "no" THEN [h EXCEPT !.attached = a] ELSE h
Moved(h, step) == [h EXCEPT !.at = step]
Move(p, step) == pull' = [pull EXCEPT ![p] = Moved(@, step)]
\* Back to the top of the loop, or out of it; the upstream is closed.
Retried(h, step) == [h EXCEPT !.at = IF h.stop THEN "release" ELSE step,
                              !.up = "none", !.coming = "none"]

NewPull(i) == [Unused EXCEPT !.at = "resolve", !.id = i]
Started(p, i, h) == /\ pull' = [pull EXCEPT ![p] = h]
                    /\ edges' = [edges EXCEPT ![i] = p]

--------------------------------------------------------------------------------
(* The loop of a pull: edgeSession.run *)

HolderIsSelf(i) == Lease!There(i) /\ origin[i].holder = Self
HolderElsewhere(i) == Lease!There(i) /\ origin[i].holder = Other
LiveElsewhere(i) == HolderElsewhere(i) /\ remote[i] = "serving"
Dormant(i) == Lease!There(i) /\ origin[i].holder = NoPod /\ origin[i].pop # NoPop
Reachable(i) == LiveElsewhere(i) \/ Dormant(i)

\* No origin, or no answer of the API server: a viewer that waits is told so, and
\* the pull tries again.
Unresolved(h) == Moved(Signal(h, "failed"), "resolve")

AfterResolve(h) ==
    IF h.stop THEN Moved(h, "release")
    ELSE IF ~Lease!There(h.id)
    THEN Moved(Signal([h EXCEPT !.gone = TRUE], "failed"), "release")
    ELSE CASE HolderIsSelf(h.id)    -> Moved(Signal(h, "yes"), "release")
           [] Dormant(h.id)         -> Moved(h, "wait")
           [] HolderElsewhere(h.id) -> [Moved(h, "dial") EXCEPT !.gen = origin[h.id].gen]
           [] OTHER                 -> Unresolved(h)

Resolve(p) ==
    /\ PullAt(p, "resolve")
    /\ \/ pull' = [pull EXCEPT ![p] = AfterResolve(@)]
       \/ ~pull[p].stop /\ pull' = [pull EXCEPT ![p] = Unresolved(@)]
    /\ UNCHANGED <<hubVars, leaseVars, edges, viewVars, jobs, outside>>

\* handleInternalSubscribe: the origin takes the pull at the generation it renews;
\* one whose hub is gone closes it at once.
Accepts(i, g) ==
    HolderElsewhere(i) /\ origin[i].gen = g /\ remote[i] \in {"serving", "killed"}

Dial(p) ==
    /\ PullAt(p, "dial")
    /\ pull' = [pull EXCEPT ![p] =
          IF Accepts(@.id, @.gen) /\ ~@.stop
          THEN [Moved(@, "attach") EXCEPT !.up = "open",
                   !.coming = IF remote[pull[p].id] = "serving" THEN "none" ELSE "ended"]
          ELSE Moved(Signal(@, "failed"), "resolve")]
    /\ UNCHANGED <<hubVars, leaseVars, edges, viewVars, jobs, outside>>

\* The pump takes over the slot of a reservation wait, or claims it.
Attach(p) ==
    /\ PullAt(p, "attach")
    /\ LET h == pull[p] IN
       \/ /\ IF h.slot THEN UNCHANGED hubVars ELSE Hub!EdgePublish(p, h.id)
          /\ pull' = [pull EXCEPT ![p] = Signal([Moved(h, "pump") EXCEPT !.slot = TRUE], "yes")]
       \/ /\ ~h.slot /\ Hub!publisherActive(h.id)
          /\ pull' = [pull EXCEPT ![p] = Retried(h, "resolve")]
          /\ UNCHANGED hubVars
    /\ UNCHANGED <<leaseVars, edges, viewVars, jobs, outside>>

UpstreamCloses(p) ==
    /\ PullAt(p, "attach") \/ PullAt(p, "pump")
    /\ pull[p].up = "open" /\ pull[p].coming # "none"
    /\ pull' = [pull EXCEPT ![p] = [@ EXCEPT !.up = pull[p].coming]]
    /\ UNCHANGED <<hubVars, leaseVars, edges, viewVars, jobs, outside>>

EdgeDemand(i) == {v \in Viewers : Hub!On(v, i)}

\* A final end is passed on; a kill is always final.
AfterPump(h) ==
    CASE h.up = "none"   -> [Moved(h, "lingered") EXCEPT !.coming = "none"]
      [] h.up = "killed" -> Moved(h, "killing")
      [] h.up = "ended"  -> Moved(h, "judge")
      [] OTHER           -> Retried(h, "resolve")

\* pump returns and its slot is given back; the keyframes that InvalidatePrimes
\* drops are HubRegistry's.
Detach(p, up) ==
    /\ Hub!Close(p)
    /\ pull' = [pull EXCEPT ![p] = AfterPump([@ EXCEPT !.slot = FALSE, !.up = up])]
    /\ UNCHANGED <<leaseVars, edges, viewVars, jobs, outside>>

\* Faulty variant: only the upstream ends the pump.
PumpEndsWithUpstream(p) ==
    /\ PullAt(p, "pump") /\ pull[p].up # "open"
    /\ Detach(p, pull[p].up)

\* The pump ends with its upstream or when it is stopped.
PumpEnds(p) ==
    /\ PullAt(p, "pump")
    /\ pull[p].stop \/ pull[p].up # "open"
    /\ Detach(p, pull[p].up)

\* Nobody has watched for the linger time.
PumpLingers(p) ==
    /\ PullAt(p, "pump") /\ pull[p].up = "open"
    /\ EdgeDemand(pull[p].id) = {}
    /\ Detach(p, "none")

\* Faulty variant: takes any origin's word.
EndIsFinalAlways(h) == TRUE

\* 4000 ends this pod's copy unless the Lease has a newer claim.  A stopped pull
\* cannot ask.
upstreamEndIsFinal(h) ==
    /\ ~h.stop
    /\ ~Lease!There(h.id) \/ (origin[h.id].holder = Other /\ origin[h.id].gen = h.gen)

Judge(p) ==
    /\ PullAt(p, "judge")
    /\ pull' = [pull EXCEPT ![p] = IF upstreamEndIsFinal(@) THEN Moved(@, "ending")
                                   ELSE Retried(@, "resolve")]
    /\ UNCHANGED <<hubVars, leaseVars, edges, viewVars, jobs, outside>>

--------------------------------------------------------------------------------
(* Ending a hub, and what its viewers are told *)

\* The viewers that lose their subscription in this step get the code.
Tell(code) ==
    /\ told' = [v \in Viewers |-> IF subs[v].id # NoID /\ subs'[v].id = NoID
                                  THEN code ELSE told[v]]
    /\ UNCHANGED join

\* EndBroadcast and EndBroadcastWithCode: nothing while somebody publishes.
EndHub(i) == IF Hub!Known(i) /\ ~Hub!publisherActive(i) THEN Hub!EndBroadcast(i)
             ELSE UNCHANGED hubVars

ExpireIfViewerless(i) ==
    IF Hub!Known(i) /\ ~Hub!publisherActive(i) /\ hubs[i].edge /\ EdgeDemand(i) = {}
    THEN Hub!ExpireEdgeIfViewerless(i) ELSE UNCHANGED hubVars

\* A viewer that joined while the pull lingered out keeps the hub: attach again.
Lingered(p) ==
    /\ PullAt(p, "lingered")
    /\ ExpireIfViewerless(pull[p].id)
    /\ pull' = [pull EXCEPT ![p] =
                   Retried(@, IF hubs'[@.id] = Hub!NoHub THEN "release" ELSE "resolve")]
    /\ UNCHANGED <<leaseVars, edges, viewVars, jobs, outside>>

PassOnEnd(p) ==
    /\ PullAt(p, "ending")
    /\ EndHub(pull[p].id)
    /\ Tell("ended")
    /\ Move(p, "release")
    /\ UNCHANGED <<leaseVars, edges, jobs, outside>>

PassOnKill(p) ==
    /\ PullAt(p, "killing")
    /\ IF Hub!Known(pull[p].id) THEN Hub!TerminateBroadcast(pull[p].id) ELSE UNCHANGED hubVars
    /\ Tell("killed")
    /\ pull' = [pull EXCEPT ![p] = [Moved(@, "release") EXCEPT !.up = "none", !.coming = "none"]]
    /\ UNCHANGED <<leaseVars, edges, jobs, outside>>

\* Faulty variant: forgets the slot of a wait.
ReleaseKeepingSlot(p) ==
    /\ PullAt(p, "release")
    /\ IF pull[p].gone THEN EndHub(pull[p].id) ELSE UNCHANGED hubVars
    /\ Tell("ended")
    /\ Move(p, "done")
    /\ edges' = [i \in IDs |-> IF edges[i] = p THEN NoSession ELSE edges[i]]
    /\ UNCHANGED <<leaseVars, jobs, outside>>

\* The slot of a wait goes with the pull; then, if the Lease was gone, the hub.
Release(p) ==
    /\ PullAt(p, "release")
    /\ IF pull[p].slot
       THEN /\ Hub!Close(p)
            /\ pull' = [pull EXCEPT ![p].slot = FALSE]
            /\ UNCHANGED <<edges, told, join>>
       ELSE /\ IF pull[p].gone THEN EndHub(pull[p].id) ELSE UNCHANGED hubVars
            /\ Tell("ended")
            /\ Move(p, "done")
            /\ edges' = [i \in IDs |-> IF edges[i] = p THEN NoSession ELSE edges[i]]
    /\ UNCHANGED <<leaseVars, jobs, outside>>

--------------------------------------------------------------------------------
(* Waiting on a PoP reservation: awaitReservation *)

\* The slot may still be with a publisher that is leaving.
WaitClaims(p) ==
    /\ PullAt(p, "wait") /\ ~pull[p].slot
    /\ IF Hub!publisherActive(pull[p].id)
       THEN Move(p, "resolve") /\ UNCHANGED hubVars
       ELSE /\ Hub!EdgePublish(p, pull[p].id)
            /\ pull' = [pull EXCEPT ![p] = Signal([@ EXCEPT !.slot = TRUE], "yes")]
    /\ UNCHANGED <<leaseVars, edges, viewVars, jobs, outside>>

\* A kick, the poll or a stop; waking to the same reservation changes nothing.
WaitWakes(p) ==
    /\ PullAt(p, "wait") /\ pull[p].slot
    /\ pull[p].stop \/ ~Dormant(pull[p].id)
    /\ Move(p, IF pull[p].stop THEN "release" ELSE "resolve")
    /\ UNCHANGED <<hubVars, leaseVars, edges, viewVars, jobs, outside>>

WaitLingers(p) ==
    /\ PullAt(p, "wait") /\ pull[p].slot
    /\ EdgeDemand(pull[p].id) = {}
    /\ Hub!Close(p)
    /\ pull' = [pull EXCEPT ![p] = [Moved(@, "lingered") EXCEPT !.slot = FALSE]]
    /\ UNCHANGED <<leaseVars, edges, viewVars, jobs, outside>>

--------------------------------------------------------------------------------
(* Viewers: handleSubscribe *)

\* pull: the one whose first attach the handler waits for.
Joins == [at : {"out", "ensure", "await", "recheck", "enter", "in"},
          id : IDs \cup {NoID}, pull : Pulls \cup {NoSession}]
Outside == [at |-> "out", id |-> NoID, pull |-> NoSession]

JoinAt(v, step) == join[v].at = step
JoinTo(v, step) == join' = [join EXCEPT ![v].at = step, ![v].pull = NoSession]
\* told: not yet; 404 and the viewer's own departure; 4000 from its hub ("ended"
\* on an edge, "expired" on an origin); 4000 instead of a subscription; 4006.
Endings == {"no", "left", "ended", "expired", "late", "killed"}

\* CheckSubscribe.
Arrive(v, i) ==
    /\ JoinAt(v, "out") /\ told[v] = "no"
    /\ join' = [join EXCEPT ![v].at = IF Hub!Known(i) THEN "enter" ELSE "ensure", ![v].id = i]
    /\ UNCHANGED <<hubVars, leaseVars, pull, edges, told, jobs, outside>>

Leave(v) ==
    /\ JoinTo(v, "in")
    /\ told' = [told EXCEPT ![v] = "left"]

\* EnsureEdge, the part that finds the pull or starts one.
Ensured(i, p) ==
    IF HasPull(i) THEN p = edges[i] /\ UNCHANGED <<pull, edges>>
    ELSE Free(p) /\ Started(p, i, NewPull(i))

\* EnsureEdge of a subscribe miss.
Ensure(v) ==
    LET i == join[v].id IN
    /\ JoinAt(v, "ensure") /\ told[v] = "no"
    /\ \/ /\ HolderElsewhere(i)
          /\ \E p \in Pulls : Ensured(i, p)
                              /\ join' = [join EXCEPT ![v].at = "await", ![v].pull = p]
          /\ UNCHANGED <<hubVars, told>>
       \/ /\ ~HolderElsewhere(i) /\ ~Dormant(i)
          /\ Leave(v) /\ UNCHANGED <<hubVars, pull, edges>>
    /\ UNCHANGED <<leaseVars, jobs, outside>>

\* ensureReservationWait: the waiting hub is made at once.
EnsureWait(v) ==
    LET i == join[v].id IN
    /\ JoinAt(v, "ensure") /\ told[v] = "no" /\ Dormant(i)
    /\ IF HasPull(i)
       THEN /\ IF Hub!Known(i) THEN JoinTo(v, "recheck")
               ELSE join' = [join EXCEPT ![v].at = "await", ![v].pull = edges[i]]
            /\ UNCHANGED <<hubVars, pull, edges, told>>
       ELSE IF Hub!publisherActive(i)
       THEN Leave(v) /\ UNCHANGED <<hubVars, pull, edges>>
       ELSE \E p \in {q \in Pulls : Free(q)} :
            /\ Hub!EdgePublish(p, i)
            /\ Started(p, i, Signal([NewPull(i) EXCEPT !.slot = TRUE], "yes"))
            /\ JoinTo(v, "recheck") /\ UNCHANGED told
    /\ UNCHANGED <<leaseVars, jobs, outside>>

\* awaitAttached returns the first report, or runs out of patience.
Await(v) ==
    /\ JoinAt(v, "await") /\ told[v] = "no"
    /\ \/ pull[join[v].pull].attached = "yes" /\ JoinTo(v, "recheck") /\ UNCHANGED told
       \/ pull[join[v].pull].attached # "yes" /\ Leave(v)
    /\ UNCHANGED <<hubVars, leaseVars, pull, edges, jobs, outside>>

Recheck(v) ==
    /\ JoinAt(v, "recheck") /\ told[v] = "no"
    /\ IF Hub!Known(join[v].id) THEN JoinTo(v, "enter") /\ UNCHANGED told ELSE Leave(v)
    /\ UNCHANGED <<hubVars, leaseVars, pull, edges, jobs, outside>>

\* The session is upgraded; a hub that went meanwhile is reported as an end.
Enter(v) ==
    /\ JoinAt(v, "enter") /\ told[v] = "no"
    /\ JoinTo(v, "in")
    /\ IF Hub!Known(join[v].id)
       THEN Hub!Subscribe(v, join[v].id, FALSE) /\ UNCHANGED told
       ELSE told' = [told EXCEPT ![v] = "late"] /\ UNCHANGED hubVars
    /\ UNCHANGED <<leaseVars, pull, edges, jobs, outside>>

Depart(v) ==
    /\ Hub!Unsubscribe(v)
    /\ told' = [told EXCEPT ![v] = "left"]
    /\ UNCHANGED <<leaseVars, pull, edges, join, jobs, outside>>

--------------------------------------------------------------------------------
(* Watch events and the broadcaster's own session *)

\* deleted, deletedwait: HandleLeaseDeleted before and in its StopEdge; stop,
\* stopwait, slot, lease: a broadcaster comes home; leave: its session ends;
\* demote: HandleLeaseLost makes this pod an edge.
Jobs == [id : IDs, at : {"deleted", "deletedwait", "stop", "stopwait", "slot", "lease",
                         "leave", "demote"}, pull : Pulls \cup {NoSession}]
Job(i, step) == [id |-> i, at |-> step, pull |-> NoSession]
Swap(j, new) == jobs' = (jobs \ {j}) \cup new

\* Every pod's watch reports the end of a Lease, and a broadcast ends with it.
DeletionEvent(i) == IF Lease!There(i) /\ origin'[i] = Lease!Nothing
                    THEN {Job(i, "deleted")} ELSE {}
Ended(i) == over' = IF origin'[i] = Lease!Nothing THEN over \cup {i} ELSE over

\* StopEdge: out of the map and cancelled; the caller waits for doneCh.
StopEdge(j, next) ==
    /\ edges' = [edges EXCEPT ![j.id] = NoSession]
    /\ pull' = IF edges[j.id] = NoSession THEN pull
               ELSE [pull EXCEPT ![edges[j.id]].stop = TRUE]
    /\ Swap(j, {[id |-> j.id, at |-> next, pull |-> edges[j.id]]})

Stopped(p) == p \in Pulls => ~Running(p)

\* Faulty variant: stops the pull at once.
ChanceNotGiven(i) == TRUE

\* edgeEndWait: the pull has a bounded time to end with its origin's code.  It is
\* enough for a close that is on its way, and for a pull that has seen one.
ChanceGiven(i) ==
    HasPull(i) => /\ pull[edges[i]].coming \notin {"ended", "killed"}
                  /\ pull[edges[i]].up \notin {"ended", "killed"}

\* HandleLeaseDeleted up to StopEdge, and the end of the renew loop before it.
OnLeaseDeleted(j) ==
    /\ j.at = "deleted" /\ ChanceGiven(j.id)
    /\ held' = held \ {j.id}
    /\ StopEdge(j, "deletedwait")
    /\ UNCHANGED <<hubVars, origin, remote, over, viewVars, outside>>

EndAfterDeletion(j) ==
    /\ j.at = "deletedwait" /\ Stopped(j.pull)
    /\ EndHub(j.id) /\ Tell("ended")
    /\ Swap(j, {})
    /\ UNCHANGED <<leaseVars, pull, edges, outside>>

\* handlePublish of a broadcaster that resumes on this pod: its edge pull is
\* stopped, the slot taken (over), and then the Lease.
HomeStops(j) ==
    /\ j.at = "stop"
    /\ StopEdge(j, "stopwait")
    /\ UNCHANGED <<hubVars, leaseVars, viewVars, outside>>

HomeClaims(j) ==
    /\ j.at = "stopwait" /\ Stopped(j.pull)
    /\ Hub!ResumePublish(Home, j.id) \/ Hub!TakeOverPublish(Home, j.id)
    /\ Swap(j, {Job(j.id, "lease")})
    /\ UNCHANGED <<leaseVars, pull, edges, viewVars, outside>>

\* Pulls fed by the broadcast of i at Other.
FedBy(i) == {p \in Pulls : pull[p].id = i /\ pull[p].up = "open"}
\* Their upstream gets closed with code.
Closing(i, code) ==
    pull' = [p \in Pulls |-> IF p \in FedBy(i) /\ pull[p].coming = "none"
                            THEN [pull[p] EXCEPT !.coming = code] ELSE pull[p]]

\* A demoted origin closes its pulls with 4003.  A refused claim ends the hub.
HomeLeases(j) ==
    /\ j.at = "lease"
    /\ \/ /\ Lease!Claim(Self, j.id, NoPop)
          /\ held' = held \cup {j.id}
          /\ remote' = [remote EXCEPT ![j.id] = "none"]
          /\ Closing(j.id, "lost")
          /\ Swap(j, {})
          /\ UNCHANGED <<hubVars, over>>
       \/ /\ Lease!There(j.id) /\ origin[j.id].pop # NoPop
          /\ Hub!Close(Home)
          /\ Swap(j, {Job(j.id, "deletedwait")})
          /\ UNCHANGED <<leaseVars, pull>>
    /\ UNCHANGED <<edges, viewVars, outside>>

\* Its handler returns: pub.Close, and EnterGrace when the hub is an origin's.
HomeLeaves(j) ==
    /\ j.at = "leave"
    /\ Hub!Close(Home)
    /\ held' = IF pubs[Home].closed THEN held ELSE held \ {j.id}
    /\ IF HolderIsSelf(j.id) /\ ~pubs[Home].closed
       THEN Lease!EnterGrace(Self, j.id) /\ over' = over \cup {j.id}
       ELSE UNCHANGED <<origin, over>>
    /\ Swap(j, {})
    /\ UNCHANGED <<remote, pull, edges, viewVars, outside>>

HomeOn(i) == pubs[Home].id = i
HomeBusy(i) == \E j \in jobs : j.id = i /\ j.at \in {"stop", "stopwait", "lease", "leave"}

\* The watch reports that a Lease this pod renews has another holder.
\* HandleLeaseLost closes the publisher session and, if somebody is watching,
\* makes this pod an edge.
LeaseLost(i) ==
    /\ i \in held /\ HolderElsewhere(i)
    /\ held' = held \ {i}
    /\ jobs' = jobs \cup (IF HomeOn(i) /\ ~HomeBusy(i) THEN {Job(i, "leave")} ELSE {})
                    \cup (IF Hub!External(i) # {} THEN {Job(i, "demote")} ELSE {})
    /\ UNCHANGED <<hubVars, origin, remote, over, pull, edges, viewVars, outside>>

Demote(j) ==
    /\ j.at = "demote"
    /\ IF HolderElsewhere(j.id) THEN \E p \in Pulls : Ensured(j.id, p)
       ELSE UNCHANGED <<pull, edges>>
    /\ Swap(j, {})
    /\ UNCHANGED <<hubVars, leaseVars, viewVars, outside>>

--------------------------------------------------------------------------------
(* Grace timers *)

\* Delete ends a broadcast this pod holds, or nobody.
Deletable(i) == Lease!There(i) /\ origin[i].pop = NoPop /\ origin[i].holder \in {Self, NoPod}

\* handleGraceExpiry, without the delays HubRegistry gives it; the hook of an
\* origin's hub deletes the Lease if it may.  The grace is much longer than the
\* backoff of a pull or a request to the API: a pull that can attach does so, and
\* a handler is done, before it runs out.
GraceExpires(i) ==
    /\ hubs[i].grace
    /\ HasPull(i) => PullAt(edges[i], "resolve") /\ ~Reachable(i)
    /\ \A j \in jobs : j.id # i
    /\ Hub!EndBroadcast(i)
    /\ Tell(IF hubs[i].edge THEN "ended" ELSE "expired")
    /\ held' = IF hubs[i].edge THEN held ELSE held \ {i}
    /\ IF ~hubs[i].edge /\ Deletable(i) THEN Lease!Delete(Self, i) ELSE UNCHANGED origin
    /\ over' = IF Reachable(i) THEN over ELSE over \cup {i}
    /\ jobs' = jobs \cup DeletionEvent(i)
    /\ UNCHANGED <<remote, pull, edges, outside>>

--------------------------------------------------------------------------------
(* The world outside this pod *)

Counted == outside < MaxOutside /\ outside' = outside + 1
Elsewhere(i, what) == remote' = [remote EXCEPT ![i] = what]
here == <<hubVars, held, edges, viewVars>>

\* A resume token is held for a broadcast that is, or was, minted in the fleet.
\* A banned one is refused.
Token(i) == remote[i] # "killed" /\ (IF Lease!There(i) THEN origin[i].pop = NoPop ELSE i \in over)

HomeArrives(i) ==
    /\ Token(i) /\ Hub!Idle(Home) /\ ~HomeBusy(i) /\ Counted
    /\ jobs' = jobs \cup {Job(i, "stop")}
    /\ UNCHANGED <<here, origin, remote, over, pull>>

HomeDeparts(i) ==
    /\ HomeOn(i) /\ ~HomeBusy(i) /\ Counted
    /\ jobs' = jobs \cup {Job(i, "leave")}
    /\ UNCHANGED <<here, origin, remote, over, pull>>

\* A broadcaster resumes on another pod.  If that is not the origin the pulls are
\* attached to, they are closed there: as moved, or when the old hub expires.
OtherClaims(i) ==
    /\ Token(i) /\ Counted
    /\ Lease!Claim(Other, i, NoPop) /\ Elsewhere(i, "serving")
    /\ \E code \in {"none", "lost", "ended"} : Closing(i, code)
    /\ UNCHANGED <<here, over, jobs>>

\* Its session ends there: the origin keeps its hub, but renews no more.
OtherGraces(i) ==
    /\ LiveElsewhere(i) /\ origin[i].pop = NoPop /\ Counted
    /\ Lease!EnterGrace(Other, i) /\ Elsewhere(i, "away")
    /\ UNCHANGED <<here, over, pull, jobs>>

\* The origin removes its hub, and closes the pulls with the reason.  A kill does
\* not meet another change of the same broadcast.
OtherEnds(i, code) ==
    /\ HolderElsewhere(i) /\ origin[i].pop = NoPop /\ Counted
    /\ remote[i] \in {"serving", "away"}
    /\ code = "killed" => \A j \in jobs : j.id # i
    /\ Elsewhere(i, code) /\ Closing(i, code)
    /\ over' = over \cup {i}
    /\ UNCHANGED <<here, origin, jobs>>

\* ... and then deletes its Lease.
OtherDeletes(i) ==
    /\ remote[i] \in {"ended", "killed"} /\ HolderElsewhere(i)
    /\ Lease!Delete(Other, i)
    /\ Ended(i) /\ jobs' = jobs \cup DeletionEvent(i)
    /\ UNCHANGED <<here, remote, pull, outside>>

OtherDies(i) ==
    /\ HolderElsewhere(i) /\ remote[i] \in {"serving", "away"} /\ Counted
    /\ Elsewhere(i, "none") /\ Closing(i, "lost")
    /\ UNCHANGED <<here, origin, over, jobs>>

\* The janitor of some pod collects a Lease nobody renews.
Collect(i) ==
    /\ Lease!There(i) /\ origin[i].pop = NoPop
    /\ \/ HolderElsewhere(i) /\ remote[i] = "none"
       \/ HolderIsSelf(i) /\ i \notin held /\ ~Hub!Known(i)
    /\ Lease!Write(i, Lease!Nothing)
    /\ Ended(i) /\ jobs' = jobs \cup DeletionEvent(i)
    /\ UNCHANGED <<here, remote, pull, outside>>

\* A PoP reserves an ID; its uplink leg comes to another pod, which refuses a banned
\* ID, leaves it, and gives up its broadcast.
PopReserves(i) ==
    /\ i \in over /\ Counted
    /\ \E pop \in Pops : Lease!Reserve(i, pop)
    /\ UNCHANGED <<here, remote, over, pull, jobs>>

PopClaims(i) ==
    /\ Dormant(i) /\ remote[i] # "killed" /\ Counted
    /\ Lease!Claim(Other, i, origin[i].pop) /\ Elsewhere(i, "serving")
    /\ UNCHANGED <<here, over, pull, jobs>>

PopLeaves(i) ==
    /\ HolderElsewhere(i) /\ origin[i].pop # NoPop /\ Counted
    /\ Lease!Release(Other, i) /\ Elsewhere(i, "none")
    /\ \E code \in {"lost", "ended"} : Closing(i, code)
    /\ UNCHANGED <<here, over, jobs>>

PopEnds(i) ==
    /\ Dormant(i) /\ Counted
    /\ Lease!DeleteReservation(i, origin[i].pop)
    /\ Ended(i) /\ jobs' = jobs \cup DeletionEvent(i)
    /\ UNCHANGED <<here, remote, pull>>

UpstreamLost(p) ==
    /\ PullAt(p, "attach") \/ PullAt(p, "pump")
    /\ pull[p].up = "open" /\ Counted
    /\ pull' = [pull EXCEPT ![p].up = "lost"]
    /\ UNCHANGED <<here, origin, remote, over, jobs>>

--------------------------------------------------------------------------------
\* A broadcast of the fleet at its origin, or a PoP's.
Broadcasts ==
    [holder : {Other}, gen : {1}, pop : {NoPop}, away : {FALSE}, expired : {FALSE}]
    \cup [holder : {NoPod}, gen : {0}, pop : Pops, away : {FALSE}, expired : {FALSE}]

Init ==
    /\ Hub!Init
    /\ origin \in [IDs -> Broadcasts]
    /\ remote = [i \in IDs |-> IF origin[i].holder = Other THEN "serving" ELSE "none"]
    /\ held = {} /\ over = {} /\ jobs = {} /\ outside = 0
    /\ pull = [p \in Pulls |-> Unused]
    /\ edges = [i \in IDs |-> NoSession]
    /\ join = [v \in Viewers |-> Outside]
    /\ told = [v \in Viewers |-> "no"]

PullSteps(p) ==
    \/ Resolve(p) \/ Dial(p) \/ Attach(p) \/ UpstreamCloses(p)
    \/ PumpEnds(p) \/ Judge(p) \/ Lingered(p) \/ PassOnEnd(p)
    \/ PassOnKill(p) \/ Release(p) \/ WaitClaims(p) \/ WaitWakes(p)

Lingers(p) == PumpLingers(p) \/ WaitLingers(p)

ViewerSteps(v) == Ensure(v) \/ EnsureWait(v) \/ Await(v) \/ Recheck(v) \/ Enter(v)

JobSteps(j) ==
    \/ OnLeaseDeleted(j) \/ EndAfterDeletion(j)
    \/ HomeStops(j) \/ HomeClaims(j) \/ HomeLeases(j) \/ HomeLeaves(j) \/ Demote(j)

World(i) ==
    \/ HomeArrives(i) \/ HomeDeparts(i) \/ OtherClaims(i) \/ OtherGraces(i)
    \/ \E code \in {"ended", "killed"} : OtherEnds(i, code)
    \/ OtherDies(i) \/ PopReserves(i) \/ PopClaims(i) \/ PopLeaves(i) \/ PopEnds(i)

Next ==
    \/ \E p \in Pulls : PullSteps(p) \/ Lingers(p) \/ UpstreamLost(p)
    \/ \E v \in Viewers : ViewerSteps(v) \/ Depart(v) \/ \E i \in IDs : Arrive(v, i)
    \/ \E j \in jobs : JobSteps(j)
    \/ \E i \in IDs : World(i) \/ LeaseLost(i) \/ GraceExpires(i) \/ OtherDeletes(i) \/ Collect(i)

Spec == Init /\ [][Next]_vars

\* Goroutines run, and what is on the wire arrives.
Fairness ==
    /\ \A p \in Pulls : WF_vars(PullSteps(p))
    /\ WF_vars(\E j \in jobs : JobSteps(j))

FairSpec == Spec /\ Fairness

--------------------------------------------------------------------------------
(* Properties *)

\* Every variable has the type of its Go counterpart.
TypeOK ==
    /\ Hub!TypeOK
    /\ origin \in [IDs -> Lease!Origins \cup {Lease!Nothing}]
    /\ held \subseteq IDs /\ over \subseteq IDs
    /\ remote \in [IDs -> {"none", "serving", "away", "ended", "killed"}]
    /\ pull \in [Pulls -> PullStates]
    /\ edges \in [IDs -> Pulls \cup {NoSession}]
    /\ join \in [Viewers -> Joins] /\ told \in [Viewers -> Endings]
    /\ jobs \subseteq Jobs

\* A viewer subscribed on an edge is told that the broadcast ended (4000) only
\* after it did: not when a former origin says so, not when the broadcaster moved
\* while the pull was on its way, and not because a hub was left behind with no
\* pull to feed it (upstreamEndIsFinal, ExpireEdgeIfViewerless, run).  A viewer
\* whose hub goes between its check and its subscription gets 4000 as well, and
\* the code promises it nothing better ("late").
EdgeEndsTruly == \A v \in Viewers : told[v] = "ended" => join[v].id \in over

\* The publisher slot of a hub is always with somebody who will give it back: the
\* broadcaster's session or a running pull (held, releaseHeld, run).
SlotGivenBack ==
    \A i \in IDs : LET s == hubs[i].pub IN
        s \in Pulls => Running(s) /\ pull[s].slot /\ pull[s].id = i

\* Viewers of a killed broadcast learn that it was killed (4006) if their pull was
\* attached: the Lease deletion that follows the kill, whose event may arrive
\* first, never turns it into an ordinary end (OnLeaseDeleted, edgeEndWait).
KilledMeansKilled ==
    [][\A v \in Viewers :
          told[v] # "ended" /\ told'[v] = "ended" =>
              ~\E p \in Pulls : pull[p].id = join[v].id /\ "killed" \in {pull[p].up, pull[p].coming}]_vars

\* StopEdge returns.  Both its callers block on it: the Lease watch of the whole
\* pod, and a broadcaster that is coming home.
StopEdgeReturns ==
    \A i \in IDs :
        LET waiting == \E j \in jobs : j.id = i /\ j.at \in {"deletedwait", "stopwait"}
        IN  waiting ~> ~waiting

================================================================================
