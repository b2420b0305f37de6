-------------------------------- MODULE Delivery --------------------------------
(***************************************************************************)
(* How a relay delivers a broadcast to one subscriber                      *)
(* (gawk-server/internal/hub: hub.go, dvr.go, leg.go).                     *)
(*                                                                         *)
(* The fan-out runs under the registry's lock; everything that may block   *)
(* runs beside it: a goroutine per keyframe stream, the drain, which reads *)
(* the queue (datagram, reliable and leg delivery) or the broadcast's ring *)
(* at a cursor of its own (DVR), and Close.  Keyframe state has one lock,  *)
(* carrier state another.  An action is one critical section, one receive  *)
(* from a channel, or the return of one stream operation, with the local   *)
(* code around it.                                                         *)
(***************************************************************************)
EXTENDS Naturals, FiniteSets, Sequences

CONSTANTS
    Modes,           \* delivery modes
    QueueDepth,      \* Options.QueueDepth
    EvictThreshold,  \* KeyframeOpenFail-, KeyframeSlow-, CarrierOpenFailEvictThreshold
    MaxKeyframes,    \* bound: keyframes
    MaxDatagrams,    \* bound: datagrams fanned out
    Kinds,           \* bound: their kinds
    MaxFaults        \* bound: failed or late stream operations, refusals by the egress
                     \* cap and by the catch-up ceiling, parity a viewer has no share of

ASSUME DeliveryAssumption ==
    /\ Modes \subseteq {"datagram", "reliable", "leg", "dvr"}
    /\ Kinds \subseteq {"media", "control"}
    /\ QueueDepth \in Nat \ {0} /\ EvictThreshold \in Nat \ {0}
    /\ MaxKeyframes \in Nat \ {0} /\ {MaxDatagrams, MaxFaults} \subseteq Nat

VARIABLES
    mode,      \* of the subscriber
    conn,      \* its session is open
    close,     \* how far Close is
    evictor,   \* the goroutine of an eviction has yet to close the session
    faults,
    fan,       \* keyframeSeq, and datagrams so far
    handoff,   \* keyframes on their way from the fan-out to sendKeyframe
    kf,        \* the state under kfMu
    writers,   \* writeKeyframe goroutines
    queue,     \* Subscriber.queue
    turned,    \* carRotations has grown since the drain last looked (carSeen)
    dead,      \* carDeadRotation names the present rotation
    purge,     \* purgeQueuedDeltasLocked at work, holding the registry's lock
    owed,      \* control datagrams queued and not yet taken by the drain
    drain,     \* the drain goroutine
    car,       \* the state under carMu
    live,      \* carrier streams neither reset nor, to a viewer, finished
    ring,      \* DVRRing
    cursor,    \* dvrCursor
    wake,      \* the channel the drain took from Wait is closed
    fresh      \* dvrProgressAt is within DVRProgressTimeout

endVars == <<conn, close, evictor>>
fanVars == <<fan, handoff>>
kfVars == <<kf, writers>>
queueVars == <<queue, dead, purge, owed>>
carVars == <<car, live>>
dvrVars == <<ring, cursor, wake, fresh>>
vars == <<mode, endVars, faults, fanVars, kfVars, queueVars, turned, drain, carVars, dvrVars>>

Closed == close # "no"
Fault == faults < MaxFaults /\ faults' = faults + 1
\* A stream operation fails on a dead session, or by a fault.
Fails == IF conn THEN Fault ELSE UNCHANGED faults
Succeeds == conn /\ UNCHANGED faults

--------------------------------------------------------------------------------
(* The queue: fanOutLocked, enqueueLocked *)

Media(g) == [kind |-> "media", gop |-> g]
Control == [kind |-> "control", gop |-> 0]
Items == {Media(g) : g \in 0 .. MaxKeyframes} \cup {Control}
IsMedia(d) == d.kind = "media"
Owes(d) == IF IsMedia(d) THEN 0 ELSE 1
NoPurge == [on |-> FALSE, left |-> 0, keep |-> <<>>]

\* A full queue costs a datagram viewer the newcomer, and a carrier the whole GOP:
\* it is marked dead and what is queued of it purged.
enqueueLocked(d) ==
    \/ /\ mode # "datagram" /\ IsMedia(d) /\ dead
       /\ UNCHANGED queueVars
    \/ /\ ~(mode # "datagram" /\ IsMedia(d) /\ dead)
       /\ IF Len(queue) < QueueDepth
          THEN queue' = Append(queue, d) /\ owed' = owed + Owes(d) /\ UNCHANGED <<dead, purge>>
          ELSE IF mode = "datagram" THEN UNCHANGED queueVars
          ELSE /\ dead' = TRUE
               /\ purge' = [on |-> TRUE, left |-> Len(queue), keep |-> <<>>]
               /\ UNCHANGED <<queue, owed>>

\* Faulty variant: empties the queue.
PurgeAll ==
    /\ purge.on /\ purge.left > 0 /\ queue # <<>>
    /\ queue' = Tail(queue)
    /\ purge' = [purge EXCEPT !.left = @ - 1]
    /\ UNCHANGED <<dead, owed>>

\* Media is discarded, the rest kept, while the drain goes on receiving.
PurgeOne ==
    /\ purge.on /\ purge.left > 0 /\ queue # <<>>
    /\ queue' = Tail(queue)
    /\ purge' = [purge EXCEPT !.left = @ - 1,
                              !.keep = IF IsMedia(Head(queue)) THEN @ ELSE Append(@, Head(queue))]
    /\ UNCHANGED <<dead, owed>>

\* What was kept is put back, as far as it fits.
PutBack ==
    /\ purge.on /\ (purge.left = 0 \/ queue = <<>>)
    /\ LET all == queue \o purge.keep IN
       queue' = SubSeq(all, 1, IF Len(all) > QueueDepth THEN QueueDepth ELSE Len(all))
    /\ purge' = NoPurge
    /\ UNCHANGED <<dead, owed>>

purgeQueuedDeltasLocked ==
    /\ PurgeOne \/ PutBack
    /\ UNCHANGED <<mode, endVars, faults, fanVars, kfVars, turned, drain, carVars, dvrVars>>

--------------------------------------------------------------------------------
(* The ring *)

\* recs: the number of records of each GOP; first: the sequence number of the first.
\* Every GOP but the last is complete.
Newest == ring.first + Len(ring.recs) - 1
Retained(g) == ring.first <= g /\ g < ring.first + Len(ring.recs)
Records(g) == ring.recs[g - ring.first + 1]
Complete(g) == Retained(g) /\ g # Newest

\* evictLocked: by age or by size, never the newest GOP.
Evictions(r) ==
    {[first |-> r.first + k, recs |-> SubSeq(r.recs, k + 1, Len(r.recs))] :
        k \in 0 .. Len(r.recs) - 1}

AppendKeyframe ==
    /\ ring' \in Evictions([ring EXCEPT !.recs = Append(@, 0)])
    /\ wake' = TRUE
AppendRecord ==
    IF ring.recs = <<>> THEN UNCHANGED <<ring, wake>>
    ELSE /\ ring' \in Evictions([ring EXCEPT !.recs[Len(ring.recs)] = @ + 1])
         /\ wake' = TRUE

--------------------------------------------------------------------------------
(* The publisher: relayVideoChunk, onKeyframe *)

\* A chunk may be fanned out before the keyframe it follows, which comes on a
\* stream of its own; one that comes after the next keyframe is taken for a chunk
\* of that keyframe's GOP.  Only a leg looks at the frame.
Gops == IF mode = "leg" THEN {fan.kf, fan.kf + 1} \cap 0 .. MaxKeyframes ELSE {fan.kf}

\* A closed subscriber is no longer among b.subs.  The media of a DVR subscriber is
\* in the ring; its queue holds the rest.
fanOutLocked(d) ==
    /\ ~Closed /\ ~purge.on /\ fan.sent < MaxDatagrams /\ d.kind \in Kinds
    /\ fan' = [fan EXCEPT !.sent = @ + 1]
    /\ IF mode = "dvr" /\ IsMedia(d)
       THEN AppendRecord /\ UNCHANGED <<cursor, fresh, queueVars>>
       ELSE enqueueLocked(d) /\ UNCHANGED dvrVars
    /\ UNCHANGED <<mode, endVars, faults, handoff, kfVars, turned, drain, carVars>>

onKeyframe ==
    /\ ~Closed /\ ~purge.on /\ fan.kf < MaxKeyframes
    /\ fan' = [fan EXCEPT !.kf = @ + 1]
    /\ IF mode = "dvr" THEN AppendKeyframe /\ UNCHANGED <<handoff, cursor, fresh>>
       ELSE handoff' = handoff \cup {fan'.kf} /\ UNCHANGED dvrVars
    /\ UNCHANGED <<mode, endVars, faults, kfVars, queueVars, turned, drain, carVars>>

--------------------------------------------------------------------------------
(* Keyframe streams *)

Saturate(n) == IF n < EvictThreshold THEN n + 1 ELSE n
\* A streak that reaches its threshold starts one eviction.
Latched(k, n) == [k EXCEPT !.evicting = @ \/ n >= EvictThreshold]
StartEvict == evictor' = (evictor \/ (kf'.evicting /\ ~kf.evicting))

OpenFailed(k) == LET n == Saturate(k.openFailed) IN Latched([k EXCEPT !.openFailed = n], n)

Cancelled(W, seq) == {[w EXCEPT !.cancelled = @ \/ (w.seq = seq /\ w.at = "write")] : w \in W}

\* legNoteKeyframe: the rotation of a leg also ends a write on the old carrier.
Rotate(seq) ==
    CASE mode = "leg"      -> /\ turned' = TRUE /\ dead' = FALSE
                              /\ car' = [car EXCEPT !.kf = seq,
                                             !.hurry = IF car.writing THEN car.cur ELSE @]
      [] mode = "reliable" -> turned' = TRUE /\ dead' = FALSE /\ UNCHANGED car
      [] OTHER             -> UNCHANGED <<turned, dead, car>>

\* Faulty variant: looks at closed before it takes the lock only.
MayHandClosed(seq) == seq >= kf.last

MayHand(seq) == ~Closed /\ seq >= kf.last

sendKeyframe(seq) ==
    /\ seq \in handoff
    /\ handoff' = handoff \ {seq}
    /\ \/ (Fault \/ (~MayHand(seq) /\ UNCHANGED faults)) /\ UNCHANGED <<kfVars, turned, dead, car, evictor>>
       \/ /\ MayHand(seq)
          /\ Rotate(seq)
          /\ LET k == [kf EXCEPT !.last = seq, !.cur = 0] IN
             \/ /\ Fails
                /\ kf' = OpenFailed(k)
                /\ writers' = Cancelled(writers, kf.cur)
             \/ /\ Succeeds
                /\ kf' = [k EXCEPT !.cur = seq, !.openFailed = 0]
                /\ writers' = Cancelled(writers, kf.cur)
                              \cup {[seq |-> seq, at |-> "write", err |-> FALSE, cancelled |-> FALSE]}
          /\ StartEvict
    /\ UNCHANGED <<mode, conn, close, fan, queue, purge, owed, drain, live, dvrVars>>

\* Write and Close of the stream return: delivered, cancelled, or too late.
writeKeyframe(w) ==
    /\ w \in writers /\ w.at = "write"
    /\ \/ /\ Succeeds
          /\ writers' = (writers \ {w}) \cup {[w EXCEPT !.at = "judge", !.cancelled = FALSE]}
       \/ /\ IF w.cancelled THEN UNCHANGED faults ELSE Fails
          /\ writers' = (writers \ {w}) \cup {[w EXCEPT !.at = "judge", !.err = TRUE, !.cancelled = FALSE]}
    /\ UNCHANGED <<mode, endVars, fanVars, kf, queueVars, turned, drain, carVars, dvrVars>>

\* Faulty variant: forgets the stream in flight, whichever it is.
AfterWriteForgets(w) ==
    [kf EXCEPT !.cur = 0, !.slow = IF w.err THEN Saturate(@) ELSE 0]

\* A stall counts towards eviction unless the stream was superseded; a leg is
\* never evicted for one.
AfterWrite(w) ==
    LET mine == kf.cur = w.seq
        k == [kf EXCEPT !.cur = IF mine THEN 0 ELSE @]
        n == Saturate(kf.slow)
    IN  CASE ~w.err -> [k EXCEPT !.slow = 0]
          [] w.err /\ mine /\ mode # "leg" -> Latched([k EXCEPT !.slow = n], n)
          [] OTHER -> k

judgeWrite(w) ==
    /\ w \in writers /\ w.at = "judge"
    /\ kf' = AfterWrite(w)
    /\ writers' = writers \ {w}
    /\ StartEvict
    /\ UNCHANGED <<mode, conn, close, faults, fanVars, queueVars, turned, drain, carVars, dvrVars>>

--------------------------------------------------------------------------------
(* Carrier streams, opened and written by the drain only *)

NewStream == CHOOSE n \in 1 .. 4 : n \notin live /\ \A m \in 1 .. n - 1 : m \in live

CarFailed(k) == LET n == Saturate(k.carFailed) IN Latched([k EXCEPT !.carFailed = n], n)

\* The drain goes on at step, or with the next record.
Drain(step) == drain' = [drain EXCEPT !.at = step]
Afresh(d) == [d EXCEPT !.at = "take", !.item = Control, !.st = 0, !.tries = 0, !.prologue = FALSE]
Take == drain' = Afresh(drain)
\* The rest of the GOP is dropped; a DVR drain tries the record again.
Abandon == drain' = IF mode = "dvr" THEN [Afresh(drain) EXCEPT !.at = "nap"]
                    ELSE [Afresh(drain) EXCEPT !.dead = TRUE]

\* retireCarrier: the stream of a viewer is finished, or reset if it cannot be.
retireCarrier ==
    /\ car' = [car EXCEPT !.cur = 0]
    /\ live' = live \ {car.cur}

\* openCarrier and legOpenCarrier; Close may have come first.
openCarrier ==
    /\ drain.at = "open"
    /\ \/ Fails /\ kf' = CarFailed(kf) /\ Abandon /\ UNCHANGED carVars
       \/ /\ Succeeds
          /\ kf' = [kf EXCEPT !.carFailed = 0]
          /\ IF Closed THEN Abandon /\ UNCHANGED carVars
             ELSE /\ car' = [car EXCEPT !.cur = NewStream, !.hurry = 0]
                  /\ live' = live \cup {NewStream}
                  /\ drain' = [drain EXCEPT !.st = NewStream, !.prologue = TRUE,
                                            !.at = IF mode = "leg" THEN "begin" ELSE "write"]
    /\ StartEvict
    /\ UNCHANGED <<mode, conn, close, fanVars, writers, queueVars, turned, dvrVars>>

\* The stream the drain was writing is reset.
ResetWritten ==
    /\ car' = [car EXCEPT !.cur = IF @ = drain.st THEN 0 ELSE @, !.writing = FALSE, !.hurry = 0]
    /\ live' = live \ {drain.st}

\* writeCarrier, to a viewer: the record is taken, or the stream is cancelled, by
\* Close or at the deadline.
writeCarrier ==
    /\ drain.at = "write" /\ mode # "leg"
    /\ \/ /\ Succeeds /\ drain.st \in live
          /\ IF mode = "dvr" THEN /\ drain' = [Afresh(drain) EXCEPT !.at = "top"]
                                  /\ cursor' = [cursor EXCEPT !.idx = @ + 1]
                                  /\ fresh' = TRUE
             ELSE Take /\ UNCHANGED <<cursor, fresh>>
          /\ UNCHANGED carVars
       \/ /\ IF drain.st \in live THEN Fails ELSE UNCHANGED faults
          /\ ResetWritten /\ Abandon
          /\ UNCHANGED <<cursor, fresh>>
    /\ UNCHANGED <<mode, endVars, fanVars, kfVars, queueVars, turned, ring, wake>>

--------------------------------------------------------------------------------
(* The drains that read the queue *)

\* for dgram := range s.queue
Received ==
    /\ queue # <<>>
    /\ queue' = Tail(queue)
    /\ owed' = owed - Owes(Head(queue))
    /\ UNCHANGED <<dead, purge>>

Receive ==
    /\ drain.at = "take" /\ Received
    /\ UNCHANGED <<mode, endVars, fanVars, kfVars, dvrVars>>

\* A datagram is sent or lost, and never waits.
drainDatagrams ==
    /\ mode = "datagram" /\ Receive
    /\ UNCHANGED <<faults, turned, drain, carVars>>

\* The control datagrams of a DVR subscriber, sent by a goroutine of their own until
\* the closed queue is empty; nobody waits for it.
drainControlSideband ==
    /\ mode = "dvr" /\ Received
    /\ UNCHANGED <<mode, endVars, faults, fanVars, kfVars, turned, drain, carVars, dvrVars>>

\* A new rotation retires the carrier; then the record is dropped, or written to
\* the carrier of its rotation.
drainReliable ==
    /\ mode = "reliable" /\ Receive
    /\ turned' = FALSE
    /\ LET isDead == drain.dead /\ ~turned
           cur == IF turned THEN 0 ELSE car.cur
           next(step) == drain' = [drain EXCEPT !.at = step, !.dead = isDead,
                                                !.st = IF step = "take" THEN 0 ELSE cur]
       IN  /\ IF turned THEN retireCarrier ELSE UNCHANGED carVars
           /\ \/ (isDead \/ Closed) /\ next("take") /\ UNCHANGED faults
              \/ ~isDead /\ ~Closed /\ next("take") /\ Fault
              \/ ~isDead /\ ~Closed /\ next(IF cur = 0 THEN "open" ELSE "write") /\ UNCHANGED faults

\* Only media goes on the carriers of a leg.
legTake ==
    /\ mode = "leg" /\ Receive
    /\ drain' = IF IsMedia(Head(queue))
                THEN [drain EXCEPT !.at = "pass", !.item = Head(queue), !.tries = 2] ELSE drain
    /\ UNCHANGED <<faults, turned, carVars>>

legStale(d) == d.gop < car.kf

\* Faulty variant: leaves the carrier that is still finishing alone.
legRetireKeepingPrevious ==
    /\ car' = [car EXCEPT !.cur = 0]
    /\ UNCHANGED live

\* A rotation: the current carrier is finished, the one before reset.
legRetire ==
    IF car.cur = 0 THEN UNCHANGED carVars
    ELSE /\ car' = [car EXCEPT !.cur = 0, !.finishing = 0]
         /\ live' = live \ {car.finishing}

legTurn ==
    /\ drain.at = "pass" /\ turned
    /\ turned' = FALSE
    /\ legRetire
    /\ drain' = [drain EXCEPT !.dead = FALSE, !.st = car.cur,
                              !.at = IF car.cur = 0 THEN "weigh" ELSE "finish"]
    /\ UNCHANGED <<mode, endVars, faults, fanVars, kfVars, queueVars, dvrVars>>

\* ... and is reset after a while, or at once if it could not be finished or Close
\* has come.
legFinish ==
    /\ drain.at = "finish"
    /\ \/ Fails /\ live' = live \ {drain.st} /\ UNCHANGED car
       \/ /\ Succeeds
          /\ IF Closed THEN live' = live \ {drain.st} /\ UNCHANGED car
             ELSE car' = [car EXCEPT !.finishing = drain.st] /\ UNCHANGED live
    /\ Drain("weigh")
    /\ UNCHANGED <<mode, endVars, fanVars, kfVars, queueVars, turned, dvrVars>>

legResetFinished ==
    /\ car.finishing # 0
    /\ car' = [car EXCEPT !.finishing = 0]
    /\ live' = live \ {car.finishing}
    /\ UNCHANGED <<mode, endVars, faults, fanVars, kfVars, queueVars, turned, drain, dvrVars>>

legWeigh ==
    /\ drain.at = "weigh" \/ (drain.at = "pass" /\ ~turned)
    /\ LET drop == drain.dead \/ Closed \/ legStale(drain.item) IN
       \/ drop /\ Take /\ UNCHANGED faults
       \/ ~drop /\ Take /\ Fault
       \/ ~drop /\ UNCHANGED faults
          /\ drain' = [drain EXCEPT !.at = IF car.cur = 0 THEN "open" ELSE "begin", !.prologue = FALSE]
    /\ UNCHANGED <<mode, endVars, fanVars, kfVars, queueVars, turned, carVars, dvrVars>>

\* A record overtaken by a rotation is weighed once more.
Again == IF drain.tries = 1 THEN Take ELSE drain' = [drain EXCEPT !.tries = @ - 1, !.at = "pass"]

\* Faulty variant: does not look at the rotation.
OvertakenNever == FALSE

Overtaken == turned

\* legWrite decides under carMu to start a write.
legBegin ==
    /\ drain.at = "begin"
    /\ \/ car.cur = 0 /\ Abandon /\ UNCHANGED carVars
       \/ /\ car.cur # 0 /\ Overtaken
          /\ IF drain.prologue THEN ResetWritten ELSE UNCHANGED carVars
          /\ Again
       \/ /\ car.cur # 0 /\ ~Overtaken
          /\ car' = [car EXCEPT !.writing = TRUE]
          /\ drain' = [drain EXCEPT !.at = "write", !.st = car.cur]
          /\ UNCHANGED live
    /\ UNCHANGED <<mode, endVars, faults, fanVars, kfVars, queueVars, turned, dvrVars>>

\* Nothing but this ends a write to a leg that its line does not take.
Unblocked == drain.st \notin live \/ car.hurry = drain.st \/ ~conn

legWrite ==
    /\ drain.at = "write" /\ mode = "leg"
    /\ \/ /\ Succeeds /\ drain.st \in live
          /\ car' = [car EXCEPT !.writing = FALSE, !.hurry = 0]
          /\ IF drain.prologue THEN drain' = [drain EXCEPT !.at = "begin", !.prologue = FALSE] ELSE Take
          /\ UNCHANGED live
       \/ /\ IF Unblocked THEN UNCHANGED faults ELSE Fault
          /\ ResetWritten
          /\ IF turned THEN Again ELSE Abandon
    /\ UNCHANGED <<mode, endVars, fanVars, kfVars, queueVars, turned, dvrVars>>

\* The queue is closed and empty.
drainEnds ==
    /\ drain.at = "take" /\ queue = <<>> /\ Closed
    /\ car' = [car EXCEPT !.cur = 0, !.finishing = 0]
    /\ live' = live \ {car.cur, car.finishing}
    /\ Drain("done")
    /\ UNCHANGED <<mode, endVars, faults, fanVars, kfVars, queueVars, turned, dvrVars>>

--------------------------------------------------------------------------------
(* The drain that reads the ring: drainDVR *)

\* idx: the next record, 0 for the keyframe.
At(g, n) == [gop |-> g, idx |-> n]
FellOffTail == ring.recs # <<>> /\ cursor.gop < ring.first
\* Time decides whether the lag exceeds the viewer's buffer.
MayLag == Retained(cursor.gop) /\ cursor.gop # Newest

dvrReturn == retireCarrier /\ Drain("done")

\* The wake channel is taken before anything is read.
dvrTop ==
    /\ drain.at = "top"
    /\ IF Closed \/ ~fresh
       THEN dvrReturn /\ kf' = [kf EXCEPT !.evicting = @ \/ ~Closed] /\ UNCHANGED wake
       ELSE wake' = FALSE /\ Drain("look") /\ UNCHANGED <<kf, carVars>>
    /\ StartEvict
    /\ UNCHANGED <<mode, conn, close, faults, fanVars, writers, queueVars, turned, ring, cursor, fresh>>

dvrFellBehind ==
    /\ drain.at = "look"
    /\ \/ (FellOffTail \/ MayLag) /\ Drain("resync")
       \/ ~FellOffTail /\ Drain("read")
    /\ UNCHANGED <<mode, endVars, faults, fanVars, kfVars, queueVars, turned, carVars, dvrVars>>

dvrResync ==
    /\ drain.at = "resync"
    /\ cursor' = At(Newest, 0)
    /\ retireCarrier /\ Drain("top")
    /\ UNCHANGED <<mode, endVars, faults, fanVars, kfVars, queueVars, turned, ring, wake, fresh>>

\* A keyframe that is refused or whose stream cannot be opened is skipped, a
\* throttled one waited for.
dvrSendKeyframe ==
    /\ drain.at = "read" /\ cursor.idx = 0
    /\ \/ ~Retained(cursor.gop) /\ Drain("probe") /\ UNCHANGED <<kf, cursor, faults>>
       \/ /\ Retained(cursor.gop)
          /\ \/ Fault /\ Drain("probe") /\ UNCHANGED <<kf, cursor>>
             \/ Fault /\ Drain("top") /\ cursor' = At(cursor.gop, 1) /\ UNCHANGED kf
             \/ /\ Fails /\ Drain("top") /\ cursor' = At(cursor.gop, 1)
                /\ kf' = OpenFailed(kf)
             \/ /\ Succeeds /\ Drain("keyframe") /\ kf' = [kf EXCEPT !.openFailed = 0]
                /\ UNCHANGED cursor
    /\ StartEvict
    /\ UNCHANGED <<mode, conn, close, fanVars, writers, queueVars, turned, carVars, ring, wake, fresh>>

\* Nothing was sent: is there a keyframe at all?
dvrProbe ==
    /\ drain.at = "probe"
    /\ Drain(IF Retained(cursor.gop) THEN "throttled" ELSE "idle")
    /\ UNCHANGED <<mode, endVars, faults, fanVars, kfVars, queueVars, turned, carVars, dvrVars>>

dvrWriteKeyframe ==
    /\ drain.at = "keyframe"
    /\ \/ Succeeds /\ fresh' = TRUE
       \/ Fails /\ UNCHANGED fresh
    /\ cursor' = At(cursor.gop, 1)
    /\ Drain("top")
    /\ UNCHANGED <<mode, endVars, fanVars, kfVars, queueVars, turned, carVars, ring, wake>>

\* A record is skipped (parity beyond this viewer's share), refused and tried
\* again, or written.
dvrRecord ==
    /\ drain.at = "read" /\ cursor.idx > 0
    /\ \/ /\ Retained(cursor.gop) /\ cursor.idx <= Records(cursor.gop)
          /\ \/ Fault /\ Drain("nap") /\ UNCHANGED cursor
             \/ Fault /\ Drain("top") /\ cursor' = At(cursor.gop, cursor.idx + 1)
             \/ /\ drain' = [drain EXCEPT !.at = IF car.cur = 0 THEN "open" ELSE "write", !.st = car.cur]
                /\ UNCHANGED <<faults, cursor>>
       \/ /\ ~(Retained(cursor.gop) /\ cursor.idx <= Records(cursor.gop))
          /\ Drain("ended") /\ UNCHANGED <<faults, cursor>>
    /\ UNCHANGED <<mode, endVars, fanVars, kfVars, queueVars, turned, carVars, ring, wake, fresh>>

\* Faulty variant: takes the wake channel when it goes to sleep.
SleepTakingWake == Drain("idle") /\ wake' = FALSE

Sleep == Drain("idle") /\ UNCHANGED wake

\* Out of records: GopComplete is asked, and then NextGop.
dvrEnded ==
    /\ drain.at = "ended"
    /\ IF Complete(cursor.gop) THEN Drain("next") /\ UNCHANGED wake ELSE Sleep
    /\ UNCHANGED <<mode, endVars, faults, fanVars, kfVars, queueVars, turned, carVars, ring, cursor, fresh>>

\* Faulty variant: one too far.
NextGopOffByOne == cursor.gop + 2

NextGop == IF ring.first > cursor.gop THEN ring.first ELSE cursor.gop + 1

dvrAdvance ==
    /\ drain.at = "next"
    /\ cursor' = At(NextGop, 0)
    /\ retireCarrier /\ Drain("top")
    /\ UNCHANGED <<mode, endVars, faults, fanVars, kfVars, queueVars, turned, ring, wake, fresh>>

\* Faulty variant: Close leaves dvrStop open.
StoppedNever == FALSE

Stopped == Closed

\* dvrStop or an append ends the wait, a moment the one for a refused record.
\* Idle time is not held against the viewer.
dvrAwake ==
    /\ \/ /\ Stopped /\ drain.at \in {"idle", "throttled", "nap"}
          /\ dvrReturn /\ UNCHANGED fresh
       \/ /\ drain.at = "nap" \/ (wake /\ drain.at \in {"idle", "throttled"})
          /\ Drain("top")
          /\ fresh' = (fresh \/ drain.at = "idle")
          /\ UNCHANGED carVars
    /\ UNCHANGED <<mode, endVars, faults, fanVars, kfVars, queueVars, turned, ring, cursor, wake>>

\* DVRProgressTimeout runs out while the drain waits.
dvrStalls ==
    /\ mode = "dvr" /\ fresh /\ drain.at \in {"idle", "throttled", "nap", "write", "keyframe"}
    /\ fresh' = FALSE
    /\ UNCHANGED <<mode, endVars, faults, fanVars, kfVars, queueVars, turned, drain, carVars, ring, cursor, wake>>

--------------------------------------------------------------------------------
(* The end: Close, and what leads to it *)

\* The session dies, or its viewer leaves; the handler then calls Close.
SessionEnds ==
    /\ conn
    /\ conn' = FALSE
    /\ UNCHANGED <<mode, close, evictor, faults, fanVars, kfVars, queueVars, turned, drain, carVars, dvrVars>>

closeUnresponsive ==
    /\ evictor
    /\ evictor' = FALSE /\ conn' = FALSE
    /\ UNCHANGED <<mode, close, faults, fanVars, kfVars, queueVars, turned, drain, carVars, dvrVars>>

\* closed is set and the channels are closed, under the registry's lock.
Close ==
    /\ close = "no" /\ ~purge.on
    /\ close' = "kf"
    /\ UNCHANGED <<mode, conn, evictor, faults, fanVars, kfVars, queueVars, turned, drain, carVars, dvrVars>>

CloseKeyframe ==
    /\ close = "kf"
    /\ close' = "wait"
    /\ writers' = Cancelled(writers, kf.cur)
    /\ kf' = [kf EXCEPT !.cur = 0]
    /\ UNCHANGED <<mode, conn, evictor, faults, fanVars, queueVars, turned, drain, carVars, dvrVars>>

\* Faulty variant: leaves the current carrier to the drain.
CloseCarriersLate ==
    /\ close = "wait" /\ writers = {}
    /\ close' = "drain"
    /\ car' = [car EXCEPT !.finishing = 0]
    /\ live' = live \ {car.finishing}
    /\ UNCHANGED <<mode, conn, evictor, faults, fanVars, kfVars, queueVars, turned, drain, dvrVars>>

\* kfWriters.Wait, then the carriers are reset.
CloseCarriers ==
    /\ close = "wait" /\ writers = {}
    /\ close' = "drain"
    /\ car' = [car EXCEPT !.cur = 0, !.finishing = 0]
    /\ live' = live \ {car.cur, car.finishing}
    /\ UNCHANGED <<mode, conn, evictor, faults, fanVars, kfVars, queueVars, turned, drain, dvrVars>>

CloseReturned ==
    /\ close = "drain" /\ drain.at = "done"
    /\ close' = "done"
    /\ UNCHANGED <<mode, conn, evictor, faults, fanVars, kfVars, queueVars, turned, drain, carVars, dvrVars>>

--------------------------------------------------------------------------------

\* subscribeOpts: the broadcast may have a keyframe already, which primes the
\* subscriber, or the ring of the first DVR subscriber.
Init ==
    /\ mode \in Modes
    /\ conn = TRUE /\ close = "no" /\ evictor = FALSE /\ faults = 0
    /\ \E k \in {0, 1} :
        /\ fan = [kf |-> k, sent |-> 0]
        /\ handoff = IF mode = "dvr" \/ k = 0 THEN {} ELSE {1}
        /\ ring = [first |-> 1, recs |-> IF mode = "dvr" /\ k = 1 THEN <<0>> ELSE <<>>]
    /\ kf = [last |-> 0, cur |-> 0, openFailed |-> 0, slow |-> 0, carFailed |-> 0, evicting |-> FALSE]
    /\ writers = {} /\ queue = <<>> /\ turned = FALSE /\ dead = FALSE /\ purge = NoPurge /\ owed = 0
    /\ drain = [at |-> IF mode = "dvr" THEN "top" ELSE "take", item |-> Control,
                dead |-> FALSE, st |-> 0, tries |-> 0, prologue |-> FALSE]
    /\ car = [cur |-> 0, finishing |-> 0, writing |-> FALSE, kf |-> 0, hurry |-> 0]
    /\ live = {} /\ cursor = At(1, 0) /\ wake = FALSE /\ fresh = TRUE

Publishing == onKeyframe \/ fanOutLocked(Control) \/ \E g \in Gops : fanOutLocked(Media(g))
Writing == \E w \in writers : writeKeyframe(w) \/ judgeWrite(w)
QueueDrain ==
    \/ drainDatagrams \/ drainReliable \/ openCarrier \/ writeCarrier \/ drainEnds
    \/ legTake \/ legTurn \/ legFinish \/ legWeigh \/ legBegin
DVRDrain ==
    \/ dvrTop \/ dvrFellBehind \/ dvrResync \/ dvrSendKeyframe \/ dvrProbe \/ dvrWriteKeyframe
    \/ dvrRecord \/ dvrEnded \/ dvrAdvance \/ dvrAwake
Closing == CloseKeyframe \/ CloseCarriers \/ CloseReturned

Next ==
    \/ Publishing \/ purgeQueuedDeltasLocked
    \/ (\E seq \in handoff : sendKeyframe(seq)) \/ Writing
    \/ QueueDrain \/ legWrite \/ legResetFinished
    \/ DVRDrain \/ drainControlSideband \/ dvrStalls
    \/ SessionEnds \/ closeUnresponsive \/ Close \/ Closing

Spec == Init /\ [][Next]_vars

\* Goroutines run.  Writes return, by their deadline if not before; a leg's have
\* none and return when something ends them.  A session that ended is closed.
FairSpec ==
    /\ Spec
    /\ WF_vars(purgeQueuedDeltasLocked)
    /\ WF_vars(Writing)
    /\ WF_vars(QueueDrain \/ DVRDrain \/ (Unblocked /\ legWrite))
    /\ WF_vars(drainControlSideband)
    /\ WF_vars(closeUnresponsive)
    /\ WF_vars(~conn /\ Close)
    /\ WF_vars(Closing)

--------------------------------------------------------------------------------
(* Properties *)

Seqs == 0 .. MaxKeyframes

\* Types.  In particular, a cursor is never past the newest GOP (NextGop).
TypeOK ==
    /\ mode \in Modes
    /\ {conn, evictor, turned, dead, wake, fresh} \subseteq BOOLEAN
    /\ close \in {"no", "kf", "wait", "drain", "done"}
    /\ faults \in 0 .. MaxFaults
    /\ fan \in [kf : Seqs, sent : 0 .. MaxDatagrams]
    /\ handoff \subseteq Seqs
    /\ kf \in [last : Seqs, cur : Seqs, openFailed : 0 .. EvictThreshold, slow : 0 .. EvictThreshold,
               carFailed : 0 .. EvictThreshold, evicting : BOOLEAN]
    /\ writers \subseteq [seq : Seqs, at : {"write", "judge"}, err : BOOLEAN, cancelled : BOOLEAN]
    /\ queue \in Seq(Items) /\ Len(queue) <= QueueDepth
    /\ purge \in [on : BOOLEAN, left : 0 .. QueueDepth, keep : Seq(Items)]
    /\ owed \in Nat
    /\ drain.at \in {"take", "pass", "finish", "weigh", "open", "begin", "write", "done", "top", "look",
                    "resync", "read", "probe", "keyframe", "ended", "next", "idle", "throttled", "nap"}
    /\ drain.item \in Items /\ drain.tries \in 0 .. 2
    /\ {car.cur, car.finishing, car.hurry, drain.st} \subseteq 0 .. 4 /\ car.kf \in Seqs
    /\ live \subseteq 1 .. 4
    /\ ring.first \in 1 .. MaxKeyframes
    /\ cursor \in [gop : 1 .. IF ring.recs = <<>> THEN ring.first ELSE Newest, idx : 0 .. MaxDatagrams + 1]

\* At most one keyframe stream is in flight to a subscriber, the newest handed to
\* it: every other writer has been cancelled (sendKeyframe, writeKeyframe, Close).
OneKeyframeInFlight ==
    /\ \A w \in writers : w.at = "write" /\ ~w.cancelled => w.seq = kf.cur
    /\ kf.cur \in {0, kf.last}

\* Once Close has returned, no keyframe is being written and no carrier is open,
\* whatever keyframe, carrier or rotation was under way, and the drain has consumed
\* the backlog, whose drops Close counts.  Not so the control sideband of a DVR
\* subscriber: Close does not wait for it, and it may have datagrams left to send.
ClosedLeavesNothing ==
    close = "done" =>
        /\ writers = {} /\ live = {} /\ car.finishing = 0
        /\ mode # "dvr" => queue = <<>>

\* The purge of a dead GOP keeps every queued control datagram, the keepalive
\* included, while the drain takes from the same queue (purgeQueuedDeltasLocked).
QueuedControlKept ==
    LET controls(s) == Cardinality({i \in DOMAIN s : ~IsMedia(s[i])})
    IN  owed = controls(queue) + controls(purge.keep)

\* A leg is never left in a write of an older GOP than the newest keyframe given
\* to it, which nothing but the next keyframe would end: the write is being
\* abandoned, or its carrier is gone (legNoteKeyframe, legWrite).
LegAbandonsOldGop ==
    car.writing /\ drain.item.gop < car.kf => car.hurry = drain.st \/ drain.st \notin live

\* A leg has at most two carriers, the current GOP's and one finishing; a viewer
\* has one (legRetire, retireCarrier).
FewCarriers == Cardinality(live) <= IF mode = "leg" THEN 2 ELSE 1

\* A DVR drain that sleeps until the next append has nothing left to send: no
\* append was missed between its reads and its wait (DVRRing.Wait).
NoLostWakeup ==
    drain.at = "idle" /\ ~wake =>
        IF cursor.idx = 0 THEN ~Retained(cursor.gop)
        ELSE cursor.gop = Newest /\ cursor.idx > Records(cursor.gop)

\* Close returns: it waits for the keyframe writers and for the drain, which wait
\* for streams, the ring and each other.  An eviction, too, ends in it.
CloseReturns == (Closed \/ kf.evicting) ~> close = "done"

================================================================================
