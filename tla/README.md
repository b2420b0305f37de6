# A TLA+ verification of the gawk relay

gawk is a self-hosted, low-latency live-streaming system. A broadcaster
publishes over WebTransport to a relay (`gawk-server`), and the relay fans the
stream out to viewers. A fleet of relay pods shares the load: the pod a
broadcaster is connected to is the *origin* of its broadcast, every other pod
that has viewers for it becomes an *edge* that pulls from the origin, and a
Kubernetes Lease per broadcast says who the origin is.

The project models the part of the system whose correctness is a matter of
concurrency: the origin-Lease protocol between the pods, the registry that
decides on each relay who publishes, what outlives whom and what ends it, the
handlers and hooks that join the two while an operator bans broadcasts, the pulls
by which an edge feeds its viewers, the delivery of a broadcast to one subscriber,
and the home lease of rooms; and, of the moderation portal, the projection of bans to
the objects the relays watch.

## 1. Inventory

### 1.1 Parts of the repository

| Part | What it is | Here |
| --- | --- | --- |
| `gawk-server/internal/cluster` | origin Leases in Kubernetes: claim, renew, grace, release, PoP reservations, informer, janitor | `OriginLease`, `AtomicLease`, the refinement and the proofs |
| `gawk-server/internal/hub` (`hub.go`) | the registry: publisher slots, generations, grace timers, stall sweep, viewers, keyframe cache, fan-out | `HubRegistry` (life cycle), `Delivery` (fan-out to a subscriber) |
| `gawk-server/internal/hub` (`dvr*.go`, `leg.go`, `stripe.go`, `uplink.go`) | rewind ring, legs to PoPs, striping, their far end | `Delivery` (the ring, its drain, the leg writer); the rest planned |
| `gawk-server/internal/transport` (`server.go`, `mint.go`, `mint_gate.go`, `resume.go`), `internal/serve` | HTTP/3 handlers, ID minting, resume tokens, the hooks that join registry and coordinator | `PublishFlow`; the subscribe handlers in `EdgePull` |
| `gawk-server/internal/transport/edge*.go` | an edge's upstream pull: retry, re-home, linger | `EdgePull` |
| `gawk-server/internal/transport/moderation.go`, `moderationsrc` | ban checks, ban actuation, ban watch | `PublishFlow` (from the ban set on) |
| `gawk-server/internal/roomcluster`, `roomsrv`, `transport/room*.go` | rooms: membership, attachments, voice, the home lease of a room | `RoomHome` (dynamic rooms; not voice) |
| `gawk-server/internal/popsrv`, `popclient`, `poplink`, `popsrc`, `transport/pop_*.go` | PoP relays: control link, reservations, demand | Lease side in `OriginLease`; rest planned |
| `gawk-server/internal/eventbus` | bounded, coalescing event queue | planned |
| `gawk-server/internal/{config,tlsutil,metrics,ops,relayconsole,lanaddr,mediaprobe}` | configuration, certificates, reporting | not modelled: no protocol state |
| `gawk-server/wire`, `publisher`, `pops`, `rooms`, `voice`, `oidcauth`, `screening` | byte layouts, small libraries | not modelled: data without control |
| `gawk-server/third_party/quic-go` | vendored | not modelled |
| `gawk-app`, `gawk-broadcast-desktop`, `gawk-ios` | clients: web, Rust, Swift | not modelled: media pipelines and UI |
| `gawk-admin/internal/{notify,store}` (`deliveries.go`, `events.go`, `webhooks.go`) | the queue of webhook deliveries and its dispatcher | not modelled (section 7) |
| `gawk-admin/internal/{api,kube,store}` (`bans.go`, `reconcile.go`) | bans: rows in Postgres, Ban objects in Kubernetes, the reconciler | `BanProjection` |
| `gawk-admin/internal/{api,store}` (`screening.go`, `contentflags.go`), `relayscan` | content flags: POSTs, review, sweep, automatic kills | not modelled (section 7) |
| the rest of `gawk-admin` | sessions, rooms, event feed, screening samples | not modelled: reads, and rows nothing races for |
| `gawk-telemetry`, `gawk-sampler`, `gawk-mumble-bridge`, `gawk-whip-gateway` | measurements, bridges | not modelled: reporting, clients of the relay |

### 1.2 State and operations of the modelled components

**Coordinator** (`cluster.go`, one per pod). State: `held`, the claims this pod
renews, each with its generation and the cancel function of its renew loop; the
informer's store; and, shared by the fleet, the Lease objects: holder,
generation, renew time, grace deadline, stall stamp, `gawk/pop` label.
Operations: `Claim`, `ClaimForPop`, `EnterGrace`, `SetStalled`, `Delete`,
`Release`, `ReleaseGeneration`, `Reserve`, `DeleteReservation`,
`RenewReservations`, the renew loop, the janitor sweep, and the informer's
update and delete handlers, which call back into the relay (`OnLeaseLost`,
`OnLeaseDeleted`).

**Registry** (`hub.go`, one per relay). State: the hubs by ID, each with a
generation, the handle in its publisher slot, a role, a grace timer, a keyframe
cache and its subscribers; the publisher handles that sessions keep. Operations:
`StartPublish`, `ResumePublish`, `TakeOverPublish`, `EdgePublish`, `BindConn`,
`onKeyframe`, `Close`, `Stop`, `handleGraceExpiry`, `EndBroadcast`,
`ExpireEdgeIfViewerless`, `TerminateBroadcast`, `SweepStalledPublishers`,
`Subscribe`, `Subscriber.Close`, `CloseInternalSubscribers`,
`InvalidatePrimes`.

**Publish handlers** (`server.go`, `mint.go`, `moderation.go`, one per session).
State: how far the handler has come; `Server.publishers`, the tracked session of
each broadcast; the ban set and the bans still to be carried out. Operations: a
resume or a mint (draw, gate, claim), the claims of slot and Lease with their
rollbacks, tracking, the second ban check, `BindConn`, the ways a session ends and
their hooks (`OnPublisherClosed`, `OnBroadcastExpired`), `HandleBanAdded`,
`terminate`, `HandleLeaseLost`, `HandleLeaseDeleted`.

**Edge pulls** (`edge.go`, one goroutine per broadcast). State: `EdgeManager.edges`
and, for each pull, where its loop is, the generation it dialed, whether it holds
the hub's publisher slot, how its upstream ended. Operations: `EnsureEdge`, the
reservation wait, resolve, dial, attach, pump, linger, `upstreamEndIsFinal`, the
end code passed on, `StopEdge`, `OnLeaseDeleted`; and the subscribe handlers that
wait for a pull.

**Delivery** (`hub.go`, `dvr.go`, `leg.go`, one per subscriber). State: the
subscriber's queue and its dead GOP; under `kfMu` the keyframe stream in flight and
the failure streaks; under `carMu` the carrier streams; the ring with its wake
channel and the subscriber's cursor; the goroutines: keyframe writers, the drain,
an eviction, `Close`. Operations: `fanOutLocked`, `enqueueLocked`,
`purgeQueuedDeltasLocked`, `onKeyframe`, `sendKeyframe`, `writeKeyframe`, the four
drains, opening, writing, retiring and resetting carriers, `AppendKeyframe`,
`AppendRecord`, resync, eviction, `Close`.

**Rooms** (`roomcluster/store.go`, `roomsrv/registry.go`, `transport/roomcluster.go`).
State: the Room object with the lease of its home, its empty stamp and its
attachments; on each pod `Store.held`, the registry's copy of the room and its
empty timer. Operations: `Reserve`, `Claim`, `adopt`, the renew loop, the informer,
`RoomEmpty`, `AttachmentsChanged`, `RoomEnded`, `Release`, the janitor; mint, join,
leave, attach, detach, the empty grace; proxying a join to the home.

**Portal bans** (`gawk-admin`, several replicas, one leader). State: the rows of
`bans` in Postgres, the Ban objects in Kubernetes, the requests in flight and the
leader's reconciliation. Operations: ban, kill, unban, expire, project, reconcile,
adopt.

**How they interact.** The publish handler checks and mints an ID, claims the
slot and the Lease, and binds the session. The registry calls hooks when a
publisher goes (`EnterGrace`), when a broadcast is removed (`Delete`) and when
one stalls (`SetStalled`); the coordinator calls hooks when a Lease is lost
(close the publisher, become an edge) or deleted (end the broadcast). Hooks run
outside the locks and make Kubernetes requests. A subscribe that finds no hub asks
the Lease for the origin and starts a pull, which publishes into the local hub
like a session. A ban stops the pull, closes the session and removes the hub, in
that order. A join that finds the room's lease live elsewhere is proxied;
otherwise its pod adopts the room. The portal's bans reach the relays only as Ban
objects, which they watch.

### 1.3 What is hard here

- Every coordinator call is a read, a decision and a conditional write: any
  other call, on any pod, can run in between.
- Watch events are late and can be lost to a relist; a handler compares an old
  event with the claim held now.
- A write can be committed and its answer lost; a pod can die between any two
  steps; a Lease can be deleted and created again, its generations starting over.
- In the registry a timer that fired can no longer be stopped and waits for the
  lock; `Stop` takes the lock twice; the stall sweep decides under the lock and
  acts after it; a session may be deposed before it is bound; keyframe streams
  are read to their end after their session lost the slot.
- Limits: the fleet's and the relay's number of broadcasts, two viewer caps.
- A publish handler claims a slot, a Lease and an entry one after the other, and
  each may be taken away again before the next; a ban falls anywhere in between.
- A pull learns how a broadcast ends from three places (its upstream's close code,
  the Lease, the watch) in any order, while viewers arrive and leave and the
  broadcaster may come home; `StopEdge` blocks the watch of the whole pod until the
  pull has returned.
- Everything that may block on a subscriber runs beside the registry's lock: a
  keyframe write may return just as it is superseded, a rotation may land between
  a leg's decision to write and the write, an append between a cursor's last read
  and its sleep; and `Close` waits for all of them.
- A room's home is decided by three requests of which two pods may interleave
  theirs; a home that was replaced may hear of it late or only from its own renewal;
  a home that dies populated leaves nobody to stamp the room as empty.
- The portal keeps a ban in two stores, which a request writes one after the other
  while a sweep compares lists of both; replicas share nothing else, a leader that
  lost its lease may still be at work, and operators edit the objects with kubectl.

Each of these is listed with its line under `hazards` in `PROJECT.json`.

### 1.4 What makes the components correct

- Coordinator: a generation is a fencing token; a handover bumps it; no
  decision outlives the read it was made on; nobody deletes a Lease that lives;
  a resume token never takes a reservation; a deposed pod stops; an abandoned
  Lease goes away.
- Registry: slots and open handles correspond one to one; old sessions, old
  timers and old stops never touch a later claim; a deposed session learns of it;
  viewers are primed with the current session's keyframe only; caps hold; a
  broadcast without a publisher ends.
- Publish handlers: a banned ID is silent once its kill ran; no handler leaves its
  slot behind; a live broadcast's Lease is renewed and not stamped as away.
- Edge pulls: viewers hear of an end only when there is one, and of a kill as a
  kill; the slot of a pull comes back; `StopEdge` returns.
- Delivery: one keyframe is in flight at a time; an overflow costs media and not the
  keepalive; a cursor does not sleep on data; a leg never waits in an old GOP and
  holds two carriers at most; `Close` returns and leaves no keyframe writer, carrier or
  backlog behind (but for the control sideband of a DVR viewer, which it does not await).
- Rooms: one home per generation; nobody gives one up that was not taken; a stale
  copy is dropped; an empty room goes away.
- Bans: one active row per target; every transition is recorded once; rows and the
  objects that can be read agree in the end.

## 2. Modules

| Module | Contents |
| --- | --- |
| `OriginLease` | the Lease protocol: state, actions, properties |
| `AtomicLease` | what the protocol promises: every call is one step |
| `OriginLeaseRefinement` | the refinement mapping, and the promise as a property |
| `MCOriginLease` | instances for TLC, symmetry of the pods |
| `OriginLeaseProofs` | type correctness and `DecisionsStand`, proved |
| `OriginLeaseFencing` | `GenerationsUnique`, `LiveLeaseKept`, `HandoverBumpsGeneration`, `ReservationRespected` and the refinement `CallsAreAtomic`, proved |
| `HubRegistry` | the registry of one relay: state, actions, properties |
| `HubRegistryProofs` | every safety property of the registry, proved: types, slots, keyframes, handovers, old timers and stops, viewers |
| `PublishFlow` | publish handlers, hooks and bans: composes `HubRegistry` and `AtomicLease` |
| `PublishFlowProofs` | type correctness, `NoZombieSlot` and `BannedIDSilenced`, proved |
| `EdgePull` | edge pulls and subscribe handlers: composes `HubRegistry` and `AtomicLease` |
| `EdgePullProofs` | type correctness, `SlotGivenBack`, `EdgeEndsTruly` and `KilledMeansKilled`, proved |
| `RoomHome` | the home lease of a room and the life of the room |
| `RoomHomeProofs` | type correctness, `OneHome` and `LostOnlyWhenTaken`, proved |
| `Delivery` | a broadcast's way to one subscriber, in each of four modes |
| `DeliveryProofs` | every invariant of `Delivery`, proved |
| `BanProjection` | the bans of one target: rows, Ban objects, handlers, reconcilers, kubectl |
| `BanProjectionProofs` | type correctness and `OnceRecorded`, proved |
| `MCHubRegistry`, `MCPublishFlow`, `MCEdgePull`, `MCRoomHome`, `MCDelivery`, `MCBanProjection` | instances for TLC |

`PublishFlow` and `EdgePull` do not repeat the Lease protocol. They take its calls
as atomic, which is what `CallsAreAtomic` says of `OriginLease`, checked and proved.

Definitions whose comment begins with "Faulty variant" are not part of a
specification: each is what its neighbour would be with a plausible bug in it
(`mutants` in `PROJECT.json` pairs them), and substituting it breaks the property
named there. They show that the property depends on the code.

### 2.1 OriginLease

| Variable | Code |
| --- | --- |
| `lease` | the Lease objects in the API server; stamps are kept as ages |
| `born` | the object's identity: how often this name was created |
| `held` | `Coordinator.held` of each pod |
| `calls` | coordinator calls in flight, with the phase each has reached |
| `queue` | watch events a pod has not handled |
| `cache` | whether the informer's store has the object |
| `fails` | failures so far, to bound them |

A call is a record with a phase: `get`, `list`, `create`, `stop`, `update`, `start`. One
action is one request to the API server together with everything the code does
with its answer up to the next request. So `ClaimGet` covers all of `claim`'s
early returns (`ErrNotFound`, `ErrReserved`, `ErrHeldElsewhere`), and
`ClaimUpdate` its conflict and its retry: `Refused` retries on Conflict, and only in
the calls that loop; when the object is gone the call returns the error. `StopRenew`
is the step in which `DeleteReservation` and `ReleaseGeneration` give up the held
claim, between their get and their write. The field `fresh` is the
resourceVersion: TRUE from a call's read until any write of that object. All
conditional writes go through `Commit`, which appends one event to every
informer. `StartRenew` is separate because the pod is granted the claim by the API
server before `startRenew` records it, and watch events can be handled between.
`Fail` ends any call: the error returns of the code, and the answer lost after a
commit when the call is in phase `start`. `Restart` kills a pod's coordinator;
the pod name is the identity, so a restarted pod may claim its own Lease.
`Relist` is a broken watch: the events in between are dropped and the difference
is delivered.

Abstractions. Times are ages in ticks, saturated at `AgeCap`, after which every
comparison has its final outcome. A renewal is started only if a tick has
passed since the last one, as the ticker would have it. Updates write the fields
they change into the present object, where the code writes back the copy it read:
the resourceVersion precondition makes the two the same. `Resolve`, `Lookup` and
`ListReservations` change nothing; `ReleaseAll` is a loop of `Release`. Parsing
of annotations is the identity on the values the code writes itself.

### 2.2 HubRegistry

| Variable | Code |
| --- | --- |
| `hubs` | `Registry.hubs` |
| `created` | hub objects created under each ID: pointer identity |
| `pubs` | the `Publisher` handle of every session |
| `firing` | grace timers that have fired and wait for `Registry.mu` |
| `subs` | where each viewer is subscribed |
| `kicks` | what the stall sweep collected and has still to end |

`Registry.mu` makes each operation an action. What happens between two critical
sections is a state of its own: `GraceTimerFires` and `handleGraceExpiry`,
`StopClose` and `StopRemove`, `SweepStalledPublishers` and `KickStalled`; and
`CloseInternalSubscribers` closes the edges it collected one by one, after the
lock, so any number of them may be gone before another step. A
publisher handle is kept by its session until the session ends, closed or not,
so late keyframes, closes and stops of deposed sessions are in the model.

Abstractions. A keyframe is the generation of the session it came from. The
passage of time is the nondeterministic moment at which a timer fires or a
session falls silent. The grace of a broadcast is always armed: `slotFreed` has no case
for `BroadcastGrace <= 0`, because `NewRegistry` replaces such a value by its default
(hub.go:899). Datagram fan-out, per-subscriber queues and statistics are
left out.

### 2.3 AtomicLease and OriginLeaseRefinement

`AtomicLease` has one variable, `origin`: per broadcast the Lease as callers of the
coordinator see it. Each call (`Claim`, `EnterGrace`, `Release`, `Delete`,
`Reserve`, `DeleteReservation`) is one step that checks and writes. Time is one bit
per Lease, whether the janitor may collect it.

The mapping `Abstract` keeps holder, generation and PoP of a Lease, reads `away`
off the grace deadline and `expired` off `janitorExpired`. `CallsAreAtomic` then
says that every step of the protocol (a read, a lost race, a retry, a failed or
late answer, a watch event) is one step of the abstract Lease or none.

### 2.4 PublishFlow

One pod, its publishers, and the rest of the fleet as one other pod.

| Variable | Code |
| --- | --- |
| those of `HubRegistry` | the pod's registry |
| `origin`, `held` | the Leases; the generation this pod renews per ID |
| `flow` | the handler of each session, at its next step |
| `tracked` | `Server.publishers` |
| `killed` | sessions the relay has closed |
| `announced` | IDs whose resume token was handed out |
| `bans`, `pending` | the ban set; bans whose actuation has not started |
| `jobs` | goroutines of bans, timers and watch events |
| `outside` | steps of the rest of the fleet, to bound them |

`handlePublish` is cut at every lock it takes and every request it makes; what
lies between is local to the handler. So a takeover, a ban, the loss of the Lease
or a hook of an earlier session can fall between any two of its steps, and a hook
runs after the lock under which its event happened was released. What only the
session can see (the upgrade, the mint gate) either succeeds or takes the
handler's rollback. A claim of the Lease may be committed and its answer lost
(`ClaimUnanswered`): the handler takes its rollback while the Lease names this pod,
which does not renew it.

### 2.5 EdgePull

| Variable | Code |
| --- | --- |
| those of `HubRegistry` | the pod's registry; pulls publish into it like sessions |
| `origin`, `held` | the Leases; the IDs this pod renews |
| `remote` | what the origin elsewhere does with the broadcast |
| `pull`, `edges` | the `edgeSession` objects; `EdgeManager.edges` |
| `join`, `told` | the subscribe handler of each viewer; how its session was closed |
| `over` | IDs whose broadcast has ended |
| `jobs` | watch events and the broadcaster's own session on this pod |
| `outside` | moves of the broadcaster and faults, to bound them |

One action is one step of `edgeSession.run` between two points where it waits or
takes the registry's lock. The close code of an upstream is on the wire for a
while (`coming`), so that it can arrive before or after the watch event of the
Lease's deletion. A `Resolve` may fail by an error of
the API, which the pull answers as it does a Lease without a holder (`Unresolved`).
An upstream's 4000 (ended) and 4014 (reset) are one close, "ended":
`upstreamEndIsFinal` does not tell them apart, and no property is about the wording.
`told` keeps the 4000 a viewer gets for a hub that went between
its check and its subscription apart ("late"): `closeWithNotice` sends it on
purpose and the client tries again. The grace of an edge hub is taken to be longer
than the backoff of a pull and than a request to the API: a hub's timer runs out
under a pull only if there is nothing the pull could attach to, and not under a
handler that is at work.

### 2.6 RoomHome

| Variable | Code |
| --- | --- |
| `cr` | the Room object: lease, empty stamp, attachments |
| `past`, `seen` | what an informer may still deliver: any earlier lease, the deletion |
| `held` | `Store.held` of each pod |
| `room` | the room in each pod's registry, with its empty timer |
| `cli` | the handler of each client: where it is and on which pod |
| `note` | status writes that were decided under the lock and not made yet |
| `jobs` | goroutines that end the room or give it up |
| `pod`, `spent` | pods that drain or are down; steps counted against the bounds |

One code is followed from its mint to its deletion; a code is never minted twice.
A get and the write conditional on its version are one step, since a write that
was overtaken fails and is tried again from its get; `adopt` and `Claim`, which
make two gets of which only the second is fenced, are two. `Reserve` is three: the
create, the status write with the lease, and, if that failed or its answer was lost,
the unconditional delete (`ReserveDelete`), which may fail too. `HandleRoomLeaseLost`
closes the sessions it found and then drops the registry's copy (`DropCopy`); a client
that joins in between is told that the room has ended, though the comment there
(roomcluster.go:370) says that this close code "reaches nobody". An informer may show
any lease the object has had, at any time: that covers late events and relists.

### 2.7 Delivery

| Variable | Code |
| --- | --- |
| `mode` | datagram, reliable or DVR viewer, or the carrier leg of a PoP |
| `conn`, `close`, `evictor` | the session; how far `Close` is; an eviction's goroutine |
| `fan`, `handoff` | the publisher's keyframes and datagrams; keyframes between `onKeyframe` and `sendKeyframe` |
| `kf`, `writers` | what `kfMu` guards; the `writeKeyframe` goroutines |
| `queue`, `dead`, `purge` | the queue; `carDeadRotation`; a purge at work |
| `turned` | `carRotations` is ahead of the drain's `carSeen` |
| `owed` | control datagrams queued and not yet received (history) |
| `drain` | the drain goroutine: its next step and its locals |
| `car`, `live` | what `carMu` guards; carrier streams still open |
| `ring`, `cursor`, `wake`, `fresh` | the ring; the cursor; the wake channel taken is closed; progress is recent |
| `faults` | failures and refusals so far, to bound them |

An action is one critical section, one receive from a channel or the return of one
stream operation, with the local code around it. A stream operation succeeds, fails
on a dead session, or fails by one of the counted faults; the egress cap and the
catch-up ceiling refuse by counted faults too. The purge is a sequence of steps,
because the drain receives from the same channel meanwhile. The DVR drain takes the
wake channel, judges its lag, reads a keyframe or a record, asks whether the GOP is
complete and looks for the next one in separate steps, as it locks the ring for
each. A datagram is media of some GOP or control; a GOP is its keyframe's number;
of a record only its position is kept. A chunk of the old GOP that arrives after the
next keyframe is taken for one of the new keyframe's GOP. The datagrams of a DVR
viewer are control only and leave its queue through the sideband
(`drainControlSideband`), a goroutine that runs until the queue is closed and that
`Close` does not wait for. Time decides when the ring evicts, when a
cursor lags too far and when a viewer has made no progress.

### 2.8 BanProjection

| Variable | Code |
| --- | --- |
| `bans` | the rows for one target; an ID is a position |
| `crs` | the Ban objects, by name: the annotation, and whose spec it has: the portal's, an operator's, or one that cannot be read |
| `calls` | requests in flight (ban, kill, unban), at their next step |
| `sweep` | `ReconcileOnce` of each leader, with the lists it has read |
| `pages` | events recorded, per kind and row (history) |
| `made` | requests, uses of kubectl and faults so far, to bound them |

One action is one statement or one API call with the local code around it. A get and
the update conditional on its version are one step (`Upsert`): one that was overtaken
fails with an error (bans.go:174) and is not repeated at once, which is what a counted
fault does; the next sweep makes up for it. `Adopt` is a merge patch and `Delete` a
delete, neither of them conditional, as in the code. The sweep passes over an object
that cannot be read (`LeaveCR`), unless it has the canonical name and an active row is
projected over it, and `Converges` promises nothing of such an object. An operator who
edits an object so that it names another target is not in the model, which follows the
objects of one target.

## 3. Runs

Passing runs:

| Run | Shows | Instance |
| --- | --- | --- |
| `lease_fencing` | `GenerationsUnique`, `DecisionsStand`, `ReservationRespected`, `HandoverBumpsGeneration`, `LiveLeaseKept` | two pods, one ID, one PoP, two calls in flight and a janitor beside them; claims (forced too), stall stamps, deletes, reservations and their deletion; the object is created twice; informers one event behind; 3.2 million states |
| `lease_deposed` | `TypeOK`, `DeposedHolderStops` | two pods, one ID, two claims in flight and a renewal beside them; informers two events behind, so that a relist can lose one; fairness; 0.3 million states |
| `lease_collect` | `AbandonedLeaseCollected`, `CallsAreAtomic` | two pods, one ID, one PoP, one call in flight and a loop's beside it, two attempts per call; all operations but stall stamps and deletes; fairness, one crash or failed request at any point; 0.2 million states |
| `hub_lifecycle` | `TypeOK`, `SlotOwnedByHandle`, `PrimeIsCurrent`, `DeposedIsTold`, `ViewersAccounted`, `ReclaimGetsFullGrace`, `StopSparesSuccessor`, `AwayBroadcastEnds` | two sessions, two viewers, one ID; two hub objects of up to two claims each; every operation; fairness of timers |
| `publish_bans` | `BannedIDSilenced`, `NoZombieSlot` | two publishers, an edge pull, a downstream edge, one ID that is banned, a PoP; one step of the rest of the fleet |
| `edge_pull` | `EdgeEndsTruly`, `SlotGivenBack`, `KilledMeansKilled`, `StopEdgeReturns` | one viewer, two pulls, one broadcast that moves, comes home, ends, is killed or is a PoP's: three such events; fairness |
| `viewer_delivery` | `TypeOK`, `OneKeyframeInFlight`, `ClosedLeavesNothing`, `QueuedControlKept`, `NoLostWakeup`, `CloseReturns` | a viewer in each mode, a queue of two, three datagrams, two keyframes, two faults; fairness |
| `leg_delivery` | `LegAbandonsOldGop`, `FewCarriers`, `CloseReturns` | a PoP leg, three records of any two adjacent GOPs, two keyframes, one fault; fairness |
| `rooms_home` | `TypeOK`, `OneHome`, `LostOnlyWhenTaken`, `StaleHomeYields`, `EmptyRoomCollected` | two pods, two clients, one room with up to two generations, one fault (a crash, a drain, a failed request or a lost answer), one edit; fairness |
| `ban_converge` | `TypeOK`, `OnceRecorded`, `Converges` | two handlers with two requests, one reconciler, four rows, one use of kubectl (which may leave the spec unreadable), one fault; fairness |

Runs whose property the code violates (`findings` in `PROJECT.json`):

| Run | Property | What happens |
| --- | --- | --- |
| `lease_lateloss` | `LossIsReal` | a pod claims its own Lease again (a reconnect) while a renewal event of the previous generation is still queued; the event's generation differs from the held one, so `UpdateFunc` reports the live claim as lost |
| `publish_stamp` | `RenewedWhileLive` | a session closes; before its hook runs the next session on the same pod claims the Lease; the hook's `EnterGrace`, which names only the ID, stops the new claim's renewals and stamps the live broadcast as away |

**Why the bounds suffice.** The Lease properties are about pairs: of pods, of
claims, of a read and one intervening write. In `lease_fencing` and `lease_deposed`
two pods with two calls in flight, and one of a renew loop or janitor beside them,
give every pairwise interleaving; a lost race ends the call there (`ClaimRetries = 1`),
which is the same as another call that begins with a new read. In `lease_deposed` the
second call is what lets another pod take the Lease between a claim's `Update` and its
`StartRenew`, and the lag of two is what lets a relist lose the event that would have
told the deposed pod: in both cases only the renew loop's own check can find out. In
`lease_collect` one call is in flight beside the loops': what is abandoned is abandoned
by one crash or failure, and `ImplementsAtomicLease` (section 5) says the same of any
number of calls; `ClaimRetries = 2` reaches the retry and its exhaustion. A second
creation (`MaxBorn = 2`) is where generations repeat. Stall stamps are left out of
`lease_collect`: they need a live session, which the module does not have, and stamping
for ever would keep the janitor's conditional delete from ever going through; renewals
race claims in `lease_deposed` and `lease_collect`, and for `DecisionsStand` they are
covered by its proof. Durations of one tick
suffice because only the order of ages and thresholds matters. In the registry two
sessions give incumbent and successor, and two claims and two objects let a stale
timer, stop or keyframe meet a later claim of the same object and of the next.
What is proved (section 5) does not depend on the bounds at all, and covers every
safety property of the passing runs.

In `publish_bans` the pairs are a handler and its successor, a ban and a handler,
and either with one event from the fleet; the second redraw of a mint repeats the
first. In `edge_pull` a second pull is what a stopped one can be confused with, and
three events are a move, a return and an end; viewers do not affect each other
except through demand, for which one is enough to be there or not. In the delivery
runs three datagrams overflow a queue of two and need a carrier in each of three
rotations, which two keyframes make; two keyframes are one superseding the other,
and a ring that can evict; a streak of two failures is the shortest that a success
can break. In `rooms_home` one fault is enough for a second generation, and a
second generation for a stale home; the clients are a creator and somebody who
comes through either pod. In `ban_converge` two requests are
a ban and its lifting, or two bans of one target; one fault puts a crash or a failed
call at any point; four rows let a ban be lifted, made again and adopted.

**Deadlock** is checked for the Lease runs (time passes until everything is
collected) and for `ban_converge` (the reconciler's ticker goes on). It is not
checked for the others: when the bounds are used up and every
session, viewer, client and request has left, the program is simply quiet.

## 4. Fairness

`lease_deposed`, `lease_collect`: `Tick` (time passes), `Deliver` (the informer goroutine runs),
`RenewGet` (the renew ticker of a held claim), `JanitorList` (the janitor ticker
of every pod), and the steps of calls in flight, per pod, ID and operation (requests
return: they carry a context with a deadline, and an error is a return too).
Nothing makes the relay call `Claim` or `Release`, and nothing prevents a crash.
`hub_lifecycle`: `GraceTimerFires` (a Go timer that is armed and due fires) and
`handleGraceExpiry` (its goroutine gets the lock). No publisher or viewer is
assumed to do anything.
`edge_pull`: the steps of each pull and those of the watch and session goroutines
(they run; dials and Lease requests have deadlines; what is on the wire arrives).
Linger timers, viewers, the broadcaster and its origin are not fair: `StopEdge`
has to return without their help.
`viewer_delivery`, `leg_delivery`: goroutines run, so the purge, the keyframe
writers, the drain, the control sideband, an eviction and the steps of `Close` are
weakly fair, and a session that has ended is closed by its handler. Writes return because they have
deadlines; those of a leg have none, so a leg's write is fair only once something
ends it (a rotation, a reset, the end of the session). The publisher and the timer
that resets a finished carrier are not fair.
`rooms_home`: weak fairness of `Progress`, the steps of handlers, of the pods' own
goroutines (renew loop, informer, janitor, empty timer, drain) and of time. Each
of them changes something that the bounds let change only so often, so no step can
starve another for ever. Clients coming or leaving, crashes, drains and edits are
not part of it.
`ban_converge`: requests run to their end and the reconciler's ticker goes on;
operators, expiry dates and faults are not fair.

## 5. Proofs

Proved by TLAPS for arbitrary sets of pods, IDs, PoPs, sessions, viewers, pulls and the
other actors of the modules, and for arbitrary bounds, from the named assumptions of
the modules only (the absent names are none of the names, limits and bounds are natural
numbers, `Ops` are known operations, viewers are finitely many).

- `TypeCorrect`, `DecisionsSound` (`OriginLeaseProofs`). The inductive invariant
  is `Inv == TypeOK /\ DecisionsStand`. `DecisionsStand` needs types (a
  generation that is a number), and the types of what a call writes follow from
  what it decided. The argument has two halves: a write of object *i* makes every
  call on *i* lose `fresh` (`OutdateFacts`, `CommitKeeps`), and a step that writes
  nothing leaves every decision standing. The one exception is the passage of
  time, which changes ages without a write: `TickKeepsDecisions` shows that the
  conditions that mention ages (`renewStale`, `janitorExpired`) only ever become
  true with age.
- `Fencing` (`OriginLeaseFencing`): `GenerationsUnique` is not inductive, because
  it does not say that the next generation is unused. The strengthening `Fenced`
  bounds every granted claim by the object it is of: no claim is of an object yet
  to come, and a claim of the present object has a generation no higher than the
  object's. `NothingGranted` shows that only three steps grant or record claims;
  `GrantKeepsFence` that those get a generation or an object nobody has.
- `LeaseKept` and `HandoverFenced` (`OriginLeaseFencing`): action properties, from
  `DecisionsStand` and one lemma, `WriteCases`, that lists what a step can do to
  an existing Lease.
- `RegistryTypeCorrect`, `SlotsOwned`, `PrimesCurrent`, `DeposedTold`
  (`HubRegistryProofs`). The inductive invariant is `HInv`, the conjunction of the
  type invariant, `SlotOwnedByHandle`, `PrimeIsCurrent`, `DeposedIsTold` and
  `PlainParts`, which adds what those need of each other: a place without a hub
  object is empty, and a handle between the halves of `Stop` is closed. One lemma
  each shows what a claim, a removal, a freed slot and a step that moves nobody
  do to the invariant; every action is one of those.
- `ReclaimsGetFullGrace` (`HubRegistryProofs`) needs more: `TimersPast` says that a
  fired timer is of an object that exists or existed, that its generation is not
  ahead of its hub's, and that while it *is* the hub's generation the absence it
  was armed for is still going on. Every step is a set of moves of hubs (kept,
  claimed, freed, gone, fired), and moves keep `TimersPast`. The theorem is about
  timers of the same hub object; across objects the code does not prevent it
  (section 7).
- `StopsSpareSuccessors` and `ViewersAlwaysAccounted` (`HubRegistryProofs`): the
  first because a session between the halves of `Stop` has lost its slot and only
  `StopRemove` ends it; the second by the cardinality theorems of finite sets,
  from the assumption that `Viewers` is finite.

- `ReservationsRespected` (`OriginLeaseFencing`): a broadcast reserved by a PoP is claimed
  for that PoP only. `RInv` adds to `Fenced` the property itself and `PopsFit`, that a
  claim which found no Lease asks for no PoP and a deletion of a reservation for one; that a claim made on an older read cannot
  commit over a reservation is `DecisionsStand` again.
- `ImplementsAtomicLease` (`OriginLeaseFencing`) is the refinement `CallsAreAtomic`:
  get-decide-update with any number of concurrent writers and conflicts implements
  `AtomicLease`. One lemma per call shows that its committing write is a step of the
  abstract call (`ClaimAtomic`, `RenewUpdateAtomic`, `WriteBackAtomic`, `ReserveAtomic`,
  `TickAtomic`); the guard of the abstract call at that moment is what
  `DecisionsStand` says of a decision made earlier. Everything else stutters.
- `RoomTypeCorrect`, `OneHomeCorrect`, `LostOnlyWhenTakenCorrect` (`RoomHomeProofs`).
  `LeaseInv` is an argument about the history `past` of the Lease object: what a pod
  holds is a version the object had with that pod as its holder, at most one version
  of each generation has a holder, and the present version is the newest. Without the
  history `OneHome` says nothing of a pod that still believes in a home it lost.
- `BanTypeCorrect`, `OnceRecordedCorrect` (`BanProjectionProofs`). That an audit row is
  written once needs to know who is *about to* write it: `CreatedOnce`, `RemovedOnce`
  and `ExpiredOnce` say that at most one handler or sweeper is between its database
  statement and its record for the same row, and that nothing is recorded while it is.
- `DeliveryTypeCorrect`, `OneKeyframeCorrect`, `ClosedCorrect`, `QueuedControlCorrect`,
  `LegAbandonsCorrect`, `FewCarriersCorrect`, `NoLostWakeupCorrect` (`DeliveryProofs`),
  every invariant of the two delivery runs. `DeliveryInv` has one part for each lock
  or goroutine: the flags, the keyframe and its writers, the queue, the stream writer
  with its carriers and leg, the backlog, and the ring. `BacklogInv` is what
  `ClosedLeavesNothing` says of the queue: a drain that has returned, outside the DVR mode,
  left it empty, and nothing is put into the queue of a closed subscriber, by a purge
  either. What the properties need beyond themselves:
  a keyframe in flight has exactly one writer; the control messages owed are those in
  the queue and those a purge keeps, counted; a live stream is the current one, one
  that is finishing or the one a drain works on; a wait on the ring carries the ring's
  state from when its wake channel was taken.
- `EdgeTypeCorrect`, `SlotsGivenBack` (`EdgePullProofs`). The registry's invariant is
  reused, not proved again: `EdgePullProofs` instances `HubRegistryProofs`, proves the
  registry's assumptions from its own, and shows that every step of an edge is a step
  of the registry or leaves it alone. On top of `SlotOwnedByHandle` it remains to
  show what each step of a pull leaves behind. The attempt found arms of
  `AfterResolve` that overlapped (a `CASE` whose choice TLA+ leaves open); they
  are disjoint now, in the order of the code's early returns.
- `EndsAreTrue`, `KillsStayKills` (`EdgePullProofs`). Neither property says anything of
  a step that has not happened yet, so `TInv` follows what each party knows until it
  acts on it. `Fit` and `Truthful`: of a broadcast that goes on, a pull has seen no end
  but that of an earlier generation, or of one that the Lease no longer names, and a
  pull at the top of its loop has no upstream. `JobsSound`: a watch event, and a
  broadcaster on its way home, know something of the broadcast that stays true
  while they wait. `Mapped`: a pull that runs is the one in the map or one that a
  `StopEdge` waits for. `HubsFed`: an edge's hub of a broadcast that goes on has a
  pull that is not on its way out, or its broadcaster is about to take it; so no grace
  timer, linger or release ends it wrongly. `KillsPass`: a pull that has seen a kill is
  the one in the map, its origin was killed, and no goroutine that ends hubs is past
  its wait; then every step that says "ended" belongs to somebody else's broadcast. The
  attempt found two flaws of the model: a stopped pull that left its loop
  kept a close that was still on the wire, so that it seemed killed when it was attached
  to nothing any more, and a PoP's leg could claim an ID after its kill, which
  `handlePopPublish` refuses. Both are corrected.
- `FlowTypeCorrect`, `NoZombies`, `BansSilence` (`PublishFlowProofs`), the same way.
  `HandlesFollowed` says that a handle belongs to the broadcast its session's handler
  works for, from the claim to the close and no longer: so a slot always has a handler
  that will close it. `KillsComing` says that a session past its second ban
  check whose broadcast has been banned since has lost its slot, or a kill of
  that ID is still on its way (pending, or a job of the hub, the session or a pull);
  it is what the order "ban recorded, then kill" gives against "claim, then check again".

Only model-checked: liveness (`DeposedHolderStops`, `AbandonedLeaseCollected`,
`AwayBroadcastEnds`, `StopEdgeReturns`, `StaleHomeYields`, `EmptyRoomCollected`,
`CloseReturns`, `Converges`), which needs
fairness and is out of this prover's reach. The properties of the violated runs are
refuted, so there is nothing to prove of them.

## 6. Plan

Done: the Lease protocol, the registry, the atomic Lease and its refinement, the
publish handlers with bans, edge pulls, rooms, delivery to a subscriber, the portal's
bans; and proofs of all their safety properties. Left, in this order:

1. PoP links and demand, the event bus, stripe legs and the uplink's far end.
2. Static rooms, party walls and voice; the DVR audio ring.
3. The portal's webhook queue and content flags.

## 7. Not modelled, and why

Clients, telemetry and gateways are other programs that use the relay's
protocol. Of the portal, the webhook queue (a queue in Postgres with claims, retries and
a dispatcher that may die at work) and the content flags (requests, reviewers and a
sweep over rows) are left for later: they never touch a relay's state. Authentication,
rooms, the event feed, webhook tests and screening samples read, or write rows nothing
else races for. Configuration, TLS, metrics and the console hold no protocol state.
The wire format is data without control, and the QUIC stack is third-party. The
Kubernetes API server and the client-go informer are not in the repository; they
are modelled from how the code uses them: serialised writes, resourceVersion
preconditions, ordered but late watches, relists.

Of the modelled components these parts are left out: the media an edge forwards
and the standalone mode of a PoP relay; rate limits, secrets and mint-only
requests; how Ban objects are read, and bans that expire or are lifted; static
and voice rooms, `Unreserve`, limits, nicknames and the records on a room's control
stream; a subscriber's audio lanes, the notices of undeliverable video and all counters;
kubectl edits that give a Ban object another target. None of them moves a slot, a Lease, a
room's lease, a carrier or a cursor.

The models contain the following behaviours, which no property excludes because the
code does not prevent them:

- a grace timer that has fired can end the *next* hub of its ID, if that hub's
  publisher is away at the same generation (`handleGraceExpiry`);
- the stall sweep ends a broadcast by ID, after its hooks, even if another session
  took it over meanwhile (`KickStalled`);
- a refused resume ends the hub its attempt made or joined by ID, viewers or not, though
  its comment calls that a no-op when there are viewers (`EndRefused`, `HomeLeases`);
- edge hubs count towards `MaxBroadcasts` (`AtCapacity`);
- a session deposed while it was set up tracks itself after its successor and hides
  it from a ban of the successor's address; a ban of the ID removes the hub and is
  not affected (`trackPublisher`);
- a viewer whose hub goes between its check and its subscription gets 4000
  (`Enter`);
- a join between the check and the end of an empty room's timer is told that the
  room has ended (`EndEmpty`);
- a stale home that drops its copy may delete a room that a later home has just
  released (`RoomEnded`);
- a pod that lost its Lease, or whose Lease was taken while it was in its grace, may
  keep a viewer on a hub nothing feeds: one that subscribes just after
  `HandleLeaseLost` looked for viewers, or that waits on the origin in its grace,
  whose claim is no longer held and so is not reported as lost. It gets 4000 when
  the grace runs out, though the broadcast is live on another pod
  (docs/22-relay-scale-out.md:352 has such an origin become an edge);
- `adopt` decides on force from one get, `Claim` writes after another: a home that
  renewed in between, or a pod that adopted first, is deposed while it is live
  (store.go:648 says "never against a live home");
- a record appended between a DVR drain's `Record` and its `GopComplete`, with the
  next keyframe right after it, is skipped, and a GOP evicted between `GopComplete`
  and `NextGop` too; no resync is counted for either (dvr.go:470 calls the resync
  "the mode's only frame loss");
- the control sideband of a DVR viewer may still send its backlog after `Close` has
  returned, and, in the code, count it after `Close` has folded the counters
  (hub.go:3266 starts it, hub.go:3964-3974 waits for the drain and folds):
  `ClosedLeavesNothing` says nothing of the queue of such a viewer;
- a client that joins a room between the two halves of `HandleRoomLeaseLost` is told
  that the room has ended, and not to reconnect (`DropCopy`);
- a keyframe the catch-up ceiling refuses is tried again at the next append only, and
  the wait is not counted as idle: after a pause of the broadcaster the viewer may be
  evicted as stalled (`dvrProbe`);
- once a reliable viewer's carrier has failed, control datagrams are dropped with the
  rest of the GOP, and a control datagram that arrives at a full queue is the one
  that is dropped (`drainReliable`, `enqueueLocked`);
- a stamp or an adoption decided from the reconciler's list lands on whatever has that
  name by then: an operator's replacement is stamped as the old ban, and an object the
  operator deleted comes back as an adopted row (`Stamp`, `AdoptCR`);
- an unban leaves an adopted object under the operator's own name to the next sweep
  (`Project`);
- until the next sweep, the object of a ban in force may be missing: a repeated unban
  deletes by a name which the target's next ban shares (`Project`), and a sweep that
  listed the rows before that ban was made and the objects after it deletes its object
  as lapsed (`DeleteCR`); `Converges` says that it comes back;
- the sweep never deletes, adopts or stamps an object whose spec became unreadable, though
  its ban was lifted long ago (`LeaveCR`; the code logs it on every pass, for a human);
- an operator's object that was applied under the canonical name and is not annotated
  yet is deleted by an unban that is being projected (`Project`).
