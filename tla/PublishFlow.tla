------------------------------ MODULE PublishFlow ------------------------------
(***************************************************************************)
(* One relay pod between its broadcasters and the cluster: handlePublish,  *)
(* the hooks that carry the end of a session to the Lease, the operator's  *)
(* bans and the watch events of Leases (gawk-server/internal/transport,    *)
(* serve/run.go).                                                          *)
(*                                                                         *)
(* The module composes the broadcast registry (HubRegistry) with the       *)
(* coordinator as its callers see it (AtomicLease).  A handler is a        *)
(* sequence of steps: each takes one lock or makes one request, and        *)
(* everything else may happen in between.  A session makes one request.    *)
(***************************************************************************)
EXTENDS Naturals, FiniteSets

CONSTANTS
    IDs, Sessions, Viewers, NoSession, NoID,
    MaxBroadcasts, MaxSubscribers, MaxTotalSubscribers, MaxObjects, MaxGen,
    Pull,          \* the session of this pod's edge pull
    Self, Other,   \* this pod; the rest of the fleet
    Pops, NoPod, NoPop,
    Targets,       \* what the operator bans: IDs, and sessions by their address
    MintRedraws,   \* mintRedraws
    MaxLeaseGen,   \* bound: the generation of a Lease
    MaxOutside     \* bound: steps of other pods, edge pulls and viewers

ASSUME PublishFlowAssumption ==
    /\ Pull \in Sessions /\ NoSession \notin Sessions /\ NoID \notin IDs
    /\ IsFiniteSet(Viewers)
    /\ Self # Other
    /\ Targets \subseteq IDs \cup Sessions
    /\ {MaxBroadcasts, MaxSubscribers, MaxTotalSubscribers} \subseteq Nat \ {0}
    /\ {MaxObjects, MaxGen, MintRedraws, MaxLeaseGen, MaxOutside} \subseteq Nat

VARIABLES
    hubs, created, pubs, firing, subs, kicks,   \* HubRegistry
    origin,     \* the Leases
    held,       \* the generation whose renew loop runs here, per ID (0 = none)
    flow,       \* the handler of each session
    tracked,    \* Server.publishers
    killed,     \* sessions the relay closed
    announced,  \* IDs whose resume token was handed out
    bans,       \* the ban set
    pending,    \* bans whose actuation has not started
    jobs,       \* goroutines of bans, timers and watch events
    outside     \* steps counted against MaxOutside

Hub == INSTANCE HubRegistry WITH StallEnds <- FALSE
Lease == INSTANCE AtomicLease WITH Pods <- {Self, Other}

hubVars == <<hubs, created, pubs, firing, subs, kicks>>
leaseVars == <<origin, held>>
banVars == <<bans, pending>>
vars == <<hubVars, leaseVars, flow, tracked, killed, announced, banVars, jobs, outside>>

--------------------------------------------------------------------------------
(* Handlers and jobs *)

Publishers == Sessions \ {Pull}

\* at: the next step; id: the broadcast; then: what follows the hooks of a
\* close; draws: IDs drawn so far by a mint.
Steps == {"start", "resuming", "slotted", "ousting", "claiming", "minting", "drawn",
          "tracking", "rechecking", "binding", "live", "untracking", "closing",
          "gracing", "ending", "stopping", "erasing", "done"}
Handlers == [at : Steps, id : IDs \cup {NoID}, then : Steps, draws : Nat]
NewHandler == [at |-> "start", id |-> NoID, then |-> "done", draws |-> 0]

At(s, step) == s \in Publishers /\ flow[s].at = step
Went(h, step) == IF step = "done" THEN [NewHandler EXCEPT !.at = "done"]
                 ELSE [h EXCEPT !.at = step]
Goto(s, step) == flow' = [flow EXCEPT ![s] = Went(@, step)]
\* Leave by pub.Close and its hooks, then do next.
CloseThen(s, next) == flow' = [flow EXCEPT ![s].at = "closing", ![s].then = next]
\* What only the session itself can see (the upgrade, the mint gate) has no step
\* of its own: it succeeds or the slot is given back.
Upgrade(s) == Goto(s, "tracking") \/ CloseThen(s, "done")

\* A job: of a ban (pull, session, hub), of a deleted Lease (endpull, endhub), of
\* a lost one (lost), the watch event of a deletion (deleted), or the
\* OnBroadcastExpired hook of hub object obj (erase).
Jobs == [id : IDs, at : {"pull", "session", "hub", "endpull", "endhub", "lost",
                         "deleted", "erase"}, obj : Nat]
Job(i, step) == [id |-> i, at |-> step, obj |-> 0]
Swap(j, new) == jobs' = (jobs \ {j}) \cup new

\* The hook of a removal of i's hub, for origin hubs only.
ExpiryHook(i) ==
    IF Hub!Known(i) /\ ~hubs[i].edge /\ hubs'[i] = Hub!NoHub
    THEN {[id |-> i, at |-> "erase", obj |-> hubs[i].obj]} ELSE {}

\* EndBroadcast: a no-op while somebody publishes.
EndIfAway(i) ==
    IF Hub!Known(i) /\ ~Hub!publisherActive(i) THEN Hub!EndBroadcast(i)
    ELSE UNCHANGED hubVars

\* Every pod's watch reports the end of a Lease.
DeletionEvent(i) == IF Lease!There(i) /\ origin'[i] = Lease!Nothing
                    THEN {Job(i, "deleted")} ELSE {}

Banned(s, i) == s \in bans \/ i \in bans

--------------------------------------------------------------------------------
(* The coordinator as seen from here *)

Renewing(i, g) == held' = [held EXCEPT ![i] = g]
StopRenew(i) == Renewing(i, 0)

ClaimCommits(i) == origin[i].gen < MaxLeaseGen /\ Lease!Claim(Self, i, NoPop)
ClaimLease(i) == ClaimCommits(i) /\ Renewing(i, origin'[i].gen)

\* The answer is lost: the Lease names this pod and no renew loop is started.
ClaimUnanswered(i) == ClaimCommits(i) /\ UNCHANGED held

\* A mint does not force: it takes no Lease another pod is holding.
MayMint(i) == ~Lease!There(i) \/ origin[i].holder # Other \/ origin[i].expired

Reserved(i) == Lease!There(i) /\ origin[i].pop # NoPop

--------------------------------------------------------------------------------
(* Claiming an ID: CONNECT /publish/{id} *)

\* The gates before anything is touched.  The lease cache of reservedInCache may
\* be behind, so that refusal is not counted on; then the come-home: an edge pull
\* for the ID is stopped and waited for.
Resume(s, i) ==
    /\ At(s, "start")
    /\ i \in announced
    /\ ~Banned(s, i)
    /\ flow' = [flow EXCEPT ![s].at = "resuming", ![s].id = i]
    /\ IF pubs[Pull].id = i THEN Hub!Close(Pull) ELSE UNCHANGED hubVars
    /\ UNCHANGED <<leaseVars, tracked, killed, announced, banVars, jobs, outside>>

ClaimSlot(s) ==
    /\ At(s, "resuming")
    /\ \/ Hub!ResumePublish(s, flow[s].id) /\ Goto(s, "slotted")
       \/ /\ Hub!publisherActive(flow[s].id)          \* depose it once upgraded
          /\ Goto(s, "ousting") /\ UNCHANGED hubVars
       \/ /\ Hub!publisherActive(flow[s].id) \/ Hub!AtCapacity
          /\ Goto(s, "done") /\ UNCHANGED hubVars
    /\ UNCHANGED <<leaseVars, tracked, killed, announced, banVars, jobs, outside>>

\* The Lease of a resumed slot.  A refused resume ends the hub it made.
ClaimForResume(s) ==
    /\ At(s, "slotted")
    /\ \/ ClaimLease(flow[s].id) /\ Upgrade(s)
       \/ Reserved(flow[s].id) /\ CloseThen(s, "ending") /\ UNCHANGED leaseVars
       \/ /\ CloseThen(s, "done")                            \* a failed request
          /\ \/ UNCHANGED leaseVars
             \/ ClaimUnanswered(flow[s].id)
    /\ UNCHANGED <<hubVars, tracked, killed, announced, banVars, jobs, outside>>

TakeOver(s) ==
    /\ At(s, "ousting")
    /\ \/ Hub!TakeOverPublish(s, flow[s].id) /\ Goto(s, "claiming")
       \/ ~Hub!Known(flow[s].id) /\ Goto(s, "done") /\ UNCHANGED hubVars
    /\ UNCHANGED <<leaseVars, tracked, killed, announced, banVars, jobs, outside>>

ClaimForTakeOver(s) ==
    /\ At(s, "claiming")
    /\ \/ ClaimLease(flow[s].id) /\ Goto(s, "tracking")
       \/ /\ CloseThen(s, "done")                            \* reserved, or failed
          /\ \/ UNCHANGED leaseVars
             \/ ClaimUnanswered(flow[s].id)
    /\ UNCHANGED <<hubVars, tracked, killed, announced, banVars, jobs, outside>>

--------------------------------------------------------------------------------
(* Minting an ID: CONNECT /publish *)

Mint(s) ==
    /\ At(s, "start")
    /\ s \notin bans
    /\ Goto(s, IF Hub!AtCapacity THEN "done" ELSE "minting")
    /\ UNCHANGED <<hubVars, leaseVars, tracked, killed, announced, banVars, jobs, outside>>

\* A drawn ID is nobody's, unless it is one a PoP has reserved.
DrawID(s, i) ==
    /\ At(s, "minting")
    /\ i \notin announced \/ Reserved(i)
    /\ Hub!StartPublish(s, i)
    /\ flow' = [flow EXCEPT ![s].at = "drawn", ![s].id = i, ![s].draws = @ + 1]
    /\ UNCHANGED <<leaseVars, tracked, killed, announced, banVars, jobs, outside>>

\* claimMint, then gateMint, where a PoP relay may refuse.
ClaimForMint(s) ==
    /\ At(s, "drawn")
    /\ \/ MayMint(flow[s].id) /\ ClaimLease(flow[s].id) /\ Upgrade(s)
       \/ Reserved(flow[s].id) /\ CloseThen(s, "ending") /\ UNCHANGED leaseVars
       \/ /\ CloseThen(s, "done")                            \* refused, or failed
          /\ \/ UNCHANGED leaseVars
             \/ MayMint(flow[s].id) /\ ClaimUnanswered(flow[s].id)
    /\ UNCHANGED <<hubVars, tracked, killed, announced, banVars, jobs, outside>>

\* A draw that finds no room ends the session as well.
DrawRefused(s) ==
    /\ At(s, "minting") /\ Hub!AtCapacity
    /\ Goto(s, "done")
    /\ UNCHANGED <<hubVars, leaseVars, tracked, killed, announced, banVars, jobs, outside>>

--------------------------------------------------------------------------------
(* Going live *)

trackPublisher(s) ==
    /\ At(s, "tracking")
    /\ tracked' = [tracked EXCEPT ![flow[s].id] = s]
    /\ Goto(s, "rechecking")
    /\ UNCHANGED <<hubVars, leaseVars, killed, announced, banVars, jobs, outside>>

\* Faulty variant: trusts the check before the upgrade.
RecheckSkipped(s) ==
    /\ At(s, "rechecking")
    /\ Goto(s, "binding")
    /\ UNCHANGED <<hubVars, leaseVars, tracked, killed, announced, banVars, jobs, outside>>

\* The ban check is made again once the session can be found.
Recheck(s) ==
    /\ At(s, "rechecking")
    /\ Goto(s, IF Banned(s, flow[s].id) THEN "untracking" ELSE "binding")
    /\ UNCHANGED <<hubVars, leaseVars, tracked, killed, announced, banVars, jobs, outside>>

\* A session that lost its slot since leaves; another one is announced its ID
\* and resume token.
Bind(s) ==
    /\ At(s, "binding")
    /\ Hub!BindConn(s)
    /\ IF pubs[s].closed
       THEN Goto(s, "untracking") /\ UNCHANGED announced
       ELSE Goto(s, "live") /\ announced' = announced \cup {flow[s].id}
    /\ UNCHANGED <<leaseVars, tracked, killed, banVars, jobs, outside>>

--------------------------------------------------------------------------------
(* Leaving *)

\* The datagram loop ends: the session is gone, whoever closed it.
Leave(s) ==
    /\ At(s, "live")
    /\ Goto(s, "untracking")
    /\ UNCHANGED <<hubVars, leaseVars, tracked, killed, announced, banVars, jobs, outside>>

\* ... or its broadcaster pressed Stop: pub.Stop closes, and removes the hub after
\* the hook of the close.
LeaveStopped(s) ==
    /\ At(s, "live")
    /\ Hub!StopClose(s)
    /\ flow' = [flow EXCEPT ![s].at = IF pubs[s].closed \/ hubs[flow[s].id].edge
                                      THEN "stopping" ELSE "gracing",
                            ![s].then = "stopping"]
    /\ UNCHANGED <<leaseVars, tracked, killed, announced, banVars, jobs, outside>>

\* The deferred untracking removes the session's own entry only.
Untrack(s) ==
    /\ At(s, "untracking")
    /\ tracked' = [tracked EXCEPT ![flow[s].id] = IF @ = s THEN NoSession ELSE @]
    /\ CloseThen(s, "done")
    /\ UNCHANGED <<hubVars, leaseVars, killed, announced, banVars, jobs, outside>>

\* Faulty variant: returns without the deferred Close.
CloseForgotten(s) ==
    /\ At(s, "closing")
    /\ Goto(s, "done")
    /\ UNCHANGED <<hubVars, leaseVars, tracked, killed, announced, banVars, jobs, outside>>

\* pub.Close, a no-op for a deposed session and after Stop; the hook follows
\* outside the lock.
CloseSlot(s) ==
    /\ At(s, "closing")
    /\ IF Hub!Idle(s)
       THEN Goto(s, flow[s].then) /\ UNCHANGED hubVars
       ELSE /\ Hub!Close(s)
            /\ Goto(s, IF pubs[s].closed \/ hubs[flow[s].id].edge
                       THEN flow[s].then ELSE "gracing")
    /\ UNCHANGED <<leaseVars, tracked, killed, announced, banVars, jobs, outside>>

\* OnPublisherClosed: EnterGrace stops the renew loop and stamps the Lease if it is
\* this pod's.  The request may fail; nobody tries again.
GraceHook(s) ==
    /\ At(s, "gracing")
    /\ StopRenew(flow[s].id)
    /\ Lease!EnterGrace(Self, flow[s].id) \/ UNCHANGED origin
    /\ Goto(s, flow[s].then)
    /\ UNCHANGED <<hubVars, tracked, killed, announced, banVars, jobs, outside>>

\* The removals a handler makes itself run their hook in the same goroutine:
\* EndBroadcast of a refused claim, the second half of Stop.
AfterRemoval(s, next) ==
    flow' = [flow EXCEPT ![s] = IF ExpiryHook(flow[s].id) = {} THEN Went(@, next)
                                ELSE [@ EXCEPT !.at = "erasing", !.then = next]]

EndRefused(s) ==
    /\ At(s, "ending")
    /\ EndIfAway(flow[s].id)
    /\ AfterRemoval(s, IF flow[s].draws \in 1..MintRedraws THEN "minting" ELSE "done")
    /\ UNCHANGED <<leaseVars, tracked, killed, announced, banVars, jobs, outside>>

StopRemoves(s) ==
    /\ At(s, "stopping")
    /\ Hub!StopRemove(s)
    /\ AfterRemoval(s, "untracking")
    /\ UNCHANGED <<leaseVars, tracked, killed, announced, banVars, jobs, outside>>

\* OnBroadcastExpired: Delete stops the renew loop and deletes the Lease.
DeleteLease(i) ==
    /\ StopRenew(i)
    /\ Lease!Delete(Self, i) \/ UNCHANGED origin

HandlerErases(s) ==
    /\ At(s, "erasing")
    /\ DeleteLease(flow[s].id)
    /\ Goto(s, flow[s].then)
    /\ jobs' = jobs \cup DeletionEvent(flow[s].id)
    /\ UNCHANGED <<hubVars, tracked, killed, announced, banVars, outside>>

--------------------------------------------------------------------------------
(* Grace timers, and the hooks of the removals they and the bans make *)

GraceTimerFires(i) ==
    /\ Hub!GraceTimerFires(i)
    /\ UNCHANGED <<leaseVars, flow, tracked, killed, announced, banVars, jobs, outside>>

GraceExpires(f) ==
    /\ Hub!handleGraceExpiry(f)
    /\ jobs' = jobs \cup ExpiryHook(f.id)
    /\ UNCHANGED <<leaseVars, flow, tracked, killed, announced, banVars, outside>>

HookErases(j) ==
    /\ j.at = "erase"
    /\ DeleteLease(j.id)
    /\ Swap(j, DeletionEvent(j.id))
    /\ UNCHANGED <<hubVars, flow, tracked, killed, announced, banVars, outside>>

--------------------------------------------------------------------------------
(* Moderation *)

\* Sink.apply: the gate closes before the kill starts.
BanAdded(t) ==
    /\ t \in Targets \ bans
    /\ bans' = bans \cup {t}
    /\ pending' = pending \cup {t}
    /\ UNCHANGED <<hubVars, leaseVars, flow, tracked, killed, announced, jobs, outside>>

publishersIn(t) == {i \in IDs : tracked[i] = t}

\* An ID is terminated; an address is looked up among the tracked publishers, and
\* each broadcast found is terminated.
HandleBanAdded(t) ==
    /\ t \in pending
    /\ pending' = pending \ {t}
    /\ jobs' = jobs \cup {Job(i, "pull") : i \in IF t \in IDs THEN {t} ELSE publishersIn(t)}
    /\ UNCHANGED <<hubVars, leaseVars, flow, tracked, killed, announced, bans, outside>>

\* terminate: the edge pull is stopped, the tracked session closed, the hub
\* removed whoever publishes.
StopPull(j) ==
    /\ j.at \in {"pull", "endpull"}
    /\ IF pubs[Pull].id = j.id THEN Hub!Close(Pull) ELSE UNCHANGED hubVars
    /\ Swap(j, {Job(j.id, IF j.at = "pull" THEN "session" ELSE "endhub")})
    /\ UNCHANGED <<leaseVars, flow, tracked, killed, announced, banVars, outside>>

CloseTracked(i) ==
    /\ killed' = killed \cup ({tracked[i]} \ {NoSession})
    /\ tracked' = [tracked EXCEPT ![i] = NoSession]

KillSession(j) ==
    /\ j.at = "session"
    /\ CloseTracked(j.id)
    /\ Swap(j, {Job(j.id, "hub")})
    /\ UNCHANGED <<hubVars, leaseVars, flow, announced, banVars, outside>>

KillHub(j) ==
    /\ j.at = "hub"
    /\ IF Hub!Known(j.id) THEN Hub!TerminateBroadcast(j.id) ELSE UNCHANGED hubVars
    /\ Swap(j, ExpiryHook(j.id))
    /\ UNCHANGED <<leaseVars, flow, tracked, killed, announced, banVars, outside>>

--------------------------------------------------------------------------------
(* Watch events of the Leases *)

\* A claim held here turns out to be somebody else's.
LeaseLost(i) ==
    /\ held[i] # 0
    /\ Lease!There(i) /\ (origin[i].holder # Self \/ origin[i].gen # held[i])
    /\ StopRenew(i)
    /\ jobs' = jobs \cup {Job(i, "lost")}
    /\ UNCHANGED <<hubVars, origin, flow, tracked, killed, announced, banVars, outside>>

\* The demote path closes the stale session and the downstream edges.
HandleLeaseLost(j) ==
    /\ j.at = "lost"
    /\ CloseTracked(j.id)
    /\ subs' = Hub!Unsubscribed(Hub!Downstream(j.id))
    /\ Swap(j, {})
    /\ UNCHANGED <<hubs, created, pubs, firing, kicks, leaseVars, flow, announced, banVars, outside>>

\* A deletion may be reported after the ID was claimed again.  For a banned ID it
\* is a kill, otherwise the edge pull is stopped and the broadcast ended.
HandleLeaseDeleted(j) ==
    /\ j.at = "deleted"
    /\ StopRenew(j.id)
    /\ Swap(j, {Job(j.id, IF j.id \in bans THEN "pull" ELSE "endpull")})
    /\ UNCHANGED <<hubVars, origin, flow, tracked, killed, announced, banVars, outside>>

EndHub(j) ==
    /\ j.at = "endhub"
    /\ EndIfAway(j.id)
    /\ Swap(j, ExpiryHook(j.id))
    /\ UNCHANGED <<leaseVars, flow, tracked, killed, announced, banVars, outside>>

--------------------------------------------------------------------------------
(* The rest of the fleet, the viewers and time *)

Outside ==
    /\ outside < MaxOutside
    /\ outside' = outside + 1
    /\ UNCHANGED <<flow, tracked, killed, banVars>>

\* The broadcaster re-homes, or a PoP reserves the ID of a broadcast of its own.
Elsewhere(i) ==
    /\ \/ i \in announced /\ origin[i].gen < MaxLeaseGen /\ Lease!Claim(Other, i, NoPop)
       \/ \E pop \in Pops : i \notin announced /\ Lease!Reserve(i, pop)
    /\ announced' = announced \cup {i}
    /\ Outside
    /\ UNCHANGED <<hubVars, held, jobs>>

\* A Lease nobody renews, or whose grace is over, is collected by some janitor.
Collect(i) ==
    /\ Lease!There(i) /\ (held[i] = 0 \/ origin[i].away)
    /\ Lease!Write(i, Lease!Nothing)
    /\ jobs' = jobs \cup DeletionEvent(i)
    /\ Outside
    /\ UNCHANGED <<announced, hubVars, held>>

\* An edge pull attaches for viewers here.
PullAttaches(i) ==
    /\ Lease!There(i) /\ origin[i].holder = Other
    /\ Hub!EdgePublish(Pull, i)
    /\ Outside
    /\ UNCHANGED <<announced, leaseVars, jobs>>

\* Another pod's edge subscribes here; viewers change nothing in this module.
DownstreamEdge(v, i) ==
    /\ Hub!Subscribe(v, i, TRUE)
    /\ Outside
    /\ UNCHANGED <<announced, leaseVars, jobs>>

PullEnds ==
    /\ ~Hub!Idle(Pull)
    /\ Hub!Close(Pull)
    /\ UNCHANGED <<leaseVars, flow, tracked, killed, announced, banVars, jobs, outside>>

--------------------------------------------------------------------------------
\* The pod starts; some broadcasts were announced by others, which may serve them.
Init ==
    /\ Hub!Init
    /\ announced \in SUBSET IDs
    /\ \E S \in SUBSET announced :
          origin = [i \in IDs |-> IF i \in S
                                 THEN [Lease!Nothing EXCEPT !.holder = Other, !.gen = 1]
                                 ELSE Lease!Nothing]
    /\ held = [i \in IDs |-> 0]
    /\ flow = [s \in Publishers |-> NewHandler]
    /\ tracked = [i \in IDs |-> NoSession]
    /\ killed = {} /\ bans = {} /\ pending = {} /\ jobs = {} /\ outside = 0

Handler(s) ==
    \/ ClaimSlot(s) \/ ClaimForResume(s) \/ TakeOver(s) \/ ClaimForTakeOver(s)
    \/ \E i \in IDs : DrawID(s, i)
    \/ DrawRefused(s) \/ ClaimForMint(s)
    \/ trackPublisher(s) \/ Recheck(s) \/ Bind(s)
    \/ Leave(s) \/ LeaveStopped(s)
    \/ Untrack(s) \/ CloseSlot(s) \/ GraceHook(s)
    \/ EndRefused(s) \/ StopRemoves(s) \/ HandlerErases(s)

Connect(s) ==
    \/ \E i \in IDs : Resume(s, i)
    \/ Mint(s)

Goroutine(j) ==
    \/ HookErases(j)
    \/ StopPull(j) \/ KillSession(j) \/ KillHub(j)
    \/ HandleLeaseLost(j) \/ HandleLeaseDeleted(j) \/ EndHub(j)

Next ==
    \/ \E s \in Publishers : Connect(s) \/ Handler(s)
    \/ \E j \in jobs : Goroutine(j)
    \/ \E f \in firing : GraceExpires(f)
    \/ \E t \in Targets : BanAdded(t) \/ HandleBanAdded(t)
    \/ \E i \in IDs :
        \/ GraceTimerFires(i) \/ LeaseLost(i)
        \/ Elsewhere(i) \/ PullAttaches(i) \/ Collect(i)
    \/ PullEnds
    \/ \E v \in Viewers, i \in IDs : DownstreamEdge(v, i)

Spec == Init /\ [][Next]_vars

--------------------------------------------------------------------------------
(* Properties *)

\* Every variable has its type; a handler is idle, or is at a step of its ID.
TypeOK ==
    /\ Hub!TypeOK
    /\ origin \in [IDs -> Lease!Origins \cup {Lease!Nothing}]
    /\ held \in [IDs -> Nat]
    /\ flow \in [Publishers -> Handlers]
    /\ tracked \in [IDs -> Publishers \cup {NoSession}]
    /\ killed \subseteq Publishers /\ announced \subseteq IDs
    /\ bans \subseteq Targets /\ pending \subseteq bans
    /\ jobs \subseteq Jobs
    /\ outside \in 0..MaxOutside

\* s feeds the broadcast i to its viewers.
Live(s, i) == At(s, "live") /\ flow[s].id = i /\ ~pubs[s].closed /\ s \notin killed

\* The actuation of the ban of t has run.
Actuated(t) == t \in bans \ pending

Killing(i) == \E j \in jobs : j.id = i /\ j.at \in {"pull", "session", "hub"}

\* A banned ID is not on the air once its kill has run, however the ban fell
\* between a publisher's checks, its upgrade, takeovers and re-claims
\* (handlePublish, HandleBanAdded, terminate).
BannedIDSilenced ==
    \A i \in IDs : Actuated(i) /\ ~Killing(i) => \A s \in Publishers : ~Live(s, i)

\* No slot outlives its handler: "no zombie slot survives a lost race", however
\* the claim of the Lease, the upgrade, the mint gate or the session failed
\* (handlePublish, claimMint, gateMint).
NoZombieSlot ==
    \A i \in IDs : Hub!publisherActive(i) /\ hubs[i].pub # Pull =>
        flow[hubs[i].pub].at \notin {"start", "done"} /\ flow[hubs[i].pub].id = i

\* Nobody is at work on i: every session on it is live or has ended.
Settled(i) ==
    /\ \A s \in Publishers : flow[s].id = i => flow[s].at \in {"live", "done"}
    /\ \A j \in jobs : j.id # i
    /\ pending = {}

\* An origin renews the Lease of the broadcast it serves, and the Lease says so:
\* "EnterGrace marks the broadcaster as away" only while it is.  The hook of a
\* session that left does not reach the claim of the one that came after it
\* (GraceHook, HookErases).
RenewedWhileLive ==
    \A i \in IDs : Settled(i) /\ (\E s \in Publishers : Live(s, i)) /\ origin[i].holder = Self
        => held[i] # 0 /\ ~origin[i].away

================================================================================
