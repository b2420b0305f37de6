----------------------------- MODULE DeliveryProofs -----------------------------
(***************************************************************************)
(* Proofs about Delivery, for any set of modes and any bounds.             *)
(*                                                                         *)
(* The invariant has a part for each lock and each goroutine: keyframes    *)
(* and their writers, the queue and its purge, carriers, the writes to a   *)
(* leg, the ring and the cursor of a DVR drain, and what Close leaves.     *)
(* Each part is kept by the steps that touch its variables, and the others *)
(* leave them alone.                                                       *)
(***************************************************************************)
EXTENDS Delivery, FiniteSetTheorems, SequenceTheorems, TLAPS

--------------------------------------------------------------------------------
(* The invariant *)

KfType == [last : Seqs, cur : Seqs, openFailed : 0 .. EvictThreshold, slow : 0 .. EvictThreshold,
           carFailed : 0 .. EvictThreshold, evicting : BOOLEAN]
WriterType == [seq : Seqs, at : {"write", "judge"}, err : BOOLEAN, cancelled : BOOLEAN]
DrainSteps == {"take", "pass", "finish", "weigh", "open", "begin", "write", "done", "top", "look",
               "resync", "read", "probe", "keyframe", "ended", "next", "idle", "throttled", "nap"}
DrainType == [at : DrainSteps, item : Items, dead : BOOLEAN, st : 0 .. 4, tries : 0 .. 2,
              prologue : BOOLEAN]
CarType == [cur : 0 .. 4, finishing : 0 .. 4, writing : BOOLEAN, kf : Seqs, hurry : 0 .. 4]

\* Flags and counters.
FlagsInv ==
    /\ mode \in Modes
    /\ conn \in BOOLEAN /\ evictor \in BOOLEAN /\ turned \in BOOLEAN
    /\ dead \in BOOLEAN /\ wake \in BOOLEAN /\ fresh \in BOOLEAN
    /\ close \in {"no", "kf", "wait", "drain", "done"}
    /\ faults \in 0 .. MaxFaults

\* Keyframes: each is handed off once and has one writer, so that a writer that
\* ends is the only one of its keyframe.
KfInv ==
    /\ fan \in [kf : Seqs, sent : 0 .. MaxDatagrams]
    /\ handoff \subseteq 0 .. fan.kf
    /\ kf \in KfType
    /\ writers \subseteq WriterType
    /\ \A w \in writers : w.seq <= fan.kf /\ w.seq \notin handoff
    /\ \A v, w \in writers : v.seq = w.seq => v = w
    /\ OneKeyframeInFlight

\* The queue: while it is purged nothing comes in, so that what was kept fits.
Controls(s) == Cardinality({i \in DOMAIN s : ~IsMedia(s[i])})
QueueInv ==
    /\ queue \in Seq(Items)
    /\ purge \in [on : BOOLEAN, left : 0 .. QueueDepth, keep : Seq(Items)]
    /\ Len(queue) + Len(purge.keep) <= QueueDepth
    /\ ~purge.on => purge.keep = <<>>
    /\ owed = Controls(queue) + Controls(purge.keep)

\* Each drain has steps of its own.
StepsInv ==
    /\ drain.at \in {"take", "pass", "finish", "weigh", "begin"} => mode # "dvr"
    /\ drain.at \in {"pass", "finish", "weigh", "begin"} => mode = "leg"
    /\ drain.at \notin {"take", "pass", "finish", "weigh", "begin", "open", "write", "done"} => mode = "dvr"

\* Carriers: every live stream is one that the drain or Close will look at.
Finishing == IF drain.at = "finish" THEN {drain.st} ELSE {}
CarInv ==
    /\ drain \in DrainType /\ car \in CarType /\ live \subseteq 1 .. 4
    /\ live \subseteq {car.cur, car.finishing} \cup Finishing
    /\ drain.at \in {"open", "finish"} => car.cur = 0
    /\ drain.at = "finish" => car.finishing = 0
    /\ mode # "leg" => car.finishing = 0 /\ drain.at # "finish" /\ ~car.writing

\* Writes to a leg: one that was begun before the last rotation is being ended.
\* A record is tried twice.
LegInv ==
    mode = "leg" =>
        /\ car.writing => drain.at = "write" /\ (drain.st = car.cur \/ drain.st \notin live)
        /\ drain.at \in {"open", "begin", "write"} /\ ~turned => drain.item.gop >= car.kf
        /\ drain.at \in {"pass", "finish", "weigh", "open", "begin", "write"} => drain.tries > 0
        /\ LegAbandonsOldGop

\* The end: nothing comes back after Close has waited for it.
EndInv ==
    /\ close \in {"drain", "done"} => writers = {} /\ car.cur = 0 /\ car.finishing = 0
    /\ drain.at = "done" \/ close = "done" => live = {}
    /\ close = "done" => drain.at = "done"

\* The ring and the cursor: no GOP but those of the ring is read, or the next one.
RingData ==
    /\ ring \in [first : Nat \ {0}, recs : Seq(0 .. fan.sent)]
    /\ ring.recs = <<>> => ring.first = 1
    /\ cursor \in [gop : Nat \ {0}, idx : 0 .. MaxDatagrams + 1]
    /\ mode = "dvr" => ring.first + Len(ring.recs) = fan.kf + 1
    /\ mode # "dvr" => ring.recs = <<>>
    /\ IF ring.recs = <<>> THEN cursor = At(1, 0) ELSE cursor.gop <= Newest

\* The DVR drain: what it has read still holds, unless an append has woken it.
RingSteps ==
    /\ drain.at \in {"resync", "next", "keyframe", "ended"} => ring.recs # <<>>
    /\ drain.at = "next" => cursor.gop < Newest
    /\ mode = "dvr" /\ drain.at \in {"open", "write"} => 0 < cursor.idx /\ cursor.idx <= MaxDatagrams
    /\ drain.at \in {"probe", "keyframe"} => cursor.idx = 0
    /\ drain.at = "ended" => cursor.idx > 0
    /\ drain.at \in {"read", "ended"} /\ ~wake => ~FellOffTail
    /\ drain.at = "ended" /\ ~wake => ~(Retained(cursor.gop) /\ cursor.idx <= Records(cursor.gop))
    /\ NoLostWakeup

RingInv == RingData /\ RingSteps
StreamInv == StepsInv /\ CarInv /\ LegInv /\ EndInv

\* The backlog: nothing comes to a closed subscriber, and its drain leaves nothing.
BacklogInv ==
    /\ Closed => ~purge.on
    /\ drain.at = "done" /\ mode # "dvr" => Closed /\ queue = <<>>

DeliveryInv == FlagsInv /\ KfInv /\ QueueInv /\ StreamInv /\ BacklogInv /\ RingInv

--------------------------------------------------------------------------------
(* The queue *)

\* The control datagrams of a sequence are finitely many.
LEMMA ControlsType ==
    ASSUME NEW s \in Seq(Items)
    PROVE  /\ IsFiniteSet({i \in DOMAIN s : ~IsMedia(s[i])})
           /\ Controls(s) \in Nat
  <1>1. Len(s) \in Nat /\ DOMAIN s = 1 .. Len(s)
    BY LenProperties
  <1>2. IsFiniteSet(1 .. Len(s))
    BY <1>1, FS_Interval
  <1>3. IsFiniteSet({i \in DOMAIN s : ~IsMedia(s[i])})
    BY <1>1, <1>2, FS_Subset
  <1> QED
    BY <1>3, FS_CardinalityType DEF Controls

\* The empty sequence has none.
LEMMA ControlsEmpty == Controls(<<>>) = 0
  <1>1. {i \in DOMAIN <<>> : ~IsMedia(<<>>[i])} = {}
    BY EmptySeq, LenProperties
  <1> QED
    BY <1>1, FS_EmptySet DEF Controls

\* One more when a control datagram is put in (enqueueLocked).
LEMMA ControlsAppend ==
    ASSUME NEW s \in Seq(Items), NEW d \in Items
    PROVE  Controls(Append(s, d)) = Controls(s) + Owes(d)
  <1> DEFINE t == Append(s, d)
             A == {i \in DOMAIN s : ~IsMedia(s[i])}
             B == {i \in DOMAIN t : ~IsMedia(t[i])}
             n == Len(s) + 1
  <1>1. /\ t \in Seq(Items) /\ Len(t) = n /\ Len(s) \in Nat
        /\ DOMAIN s = 1 .. Len(s) /\ DOMAIN t = 1 .. Len(t)
        /\ \A i \in 1 .. Len(s) : t[i] = s[i]
        /\ t[n] = d
    BY AppendProperties, LenProperties
  <1>2. IsFiniteSet(A) /\ Controls(s) = Cardinality(A) /\ Controls(t) = Cardinality(B)
        /\ Cardinality(A) \in Nat
    BY ControlsType DEF Controls
  <1>3. n \notin A
    BY <1>1
  <1>4. CASE IsMedia(d)
    <2>1. ASSUME NEW i \in B PROVE i \in A
      BY <1>1, <1>4
    <2>2. ASSUME NEW i \in A PROVE i \in B
      BY <1>1
    <2> HIDE DEF A, B, n
    <2>3. B = A
      BY <2>1, <2>2
    <2> QED
      BY <1>2, <1>4, <2>3 DEF Owes
  <1>5. CASE ~IsMedia(d)
    <2>1. B = A \cup {n}
      <3>1. ASSUME NEW i \in B PROVE i \in A \cup {n}
        BY <1>1
      <3>2. ASSUME NEW i \in A PROVE i \in B
        BY <1>1
      <3>3. n \in B
        BY <1>1, <1>5
      <3> HIDE DEF A, B, n
      <3> QED
        BY <3>1, <3>2, <3>3
    <2> HIDE DEF A, B, n
    <2>2. Cardinality(A \cup {n}) = Cardinality(A) + 1
      BY <1>2, <1>3, FS_AddElement
    <2> QED
      BY <1>2, <1>5, <2>1, <2>2 DEF Owes
  <1> QED
    BY <1>4, <1>5

\* A set of numbers that is shifted has as many elements.
LEMMA Shifted ==
    ASSUME NEW A \in SUBSET Int, IsFiniteSet(A), NEW n \in Int
    PROVE  /\ IsFiniteSet({a + n : a \in A})
           /\ Cardinality({a + n : a \in A}) = Cardinality(A)
  <1> DEFINE B == {a + n : a \in A}
             f == [a \in A |-> a + n]
  <1>1. f \in Bijection(A, B)
    <2>1. f \in [A -> B]
      OBVIOUS
    <2>2. \A a, b \in A : f[a] = f[b] => a = b
      OBVIOUS
    <2>3. \A b \in B : \E a \in A : f[a] = b
      OBVIOUS
    <2> HIDE DEF f, B
    <2> QED
      BY <2>1, <2>2, <2>3 DEF Bijection, Injection, Surjection, IsInjective
  <1>2. ExistsBijection(A, B)
    BY <1>1 DEF ExistsBijection
  <1> QED
    BY <1>2, FS_Bijection

\* Those of both when what was kept is put back (PutBack).
LEMMA ControlsConcat ==
    ASSUME NEW s \in Seq(Items), NEW t \in Seq(Items)
    PROVE  Controls(s \o t) = Controls(s) + Controls(t)
  <1> DEFINE u == s \o t
             A == {i \in DOMAIN s : ~IsMedia(s[i])}
             B == {i \in DOMAIN t : ~IsMedia(t[i])}
             C == {i \in DOMAIN u : ~IsMedia(u[i])}
             D == {i + Len(s) : i \in B}
  <1>1. /\ u \in Seq(Items) /\ Len(u) = Len(s) + Len(t) /\ Len(s) \in Nat /\ Len(t) \in Nat
        /\ DOMAIN s = 1 .. Len(s) /\ DOMAIN t = 1 .. Len(t) /\ DOMAIN u = 1 .. Len(u)
        /\ \A i \in 1 .. Len(s) + Len(t) : u[i] = IF i <= Len(s) THEN s[i] ELSE t[i - Len(s)]
    BY ConcatProperties, LenProperties
  <1>2. /\ IsFiniteSet(A) /\ IsFiniteSet(B)
        /\ Controls(s) = Cardinality(A) /\ Controls(t) = Cardinality(B)
        /\ Controls(u) = Cardinality(C) /\ Cardinality(A) \in Nat /\ Cardinality(B) \in Nat
    BY ControlsType DEF Controls
  <1>3. IsFiniteSet(D) /\ Cardinality(D) = Cardinality(B)
    <2>1. B \in SUBSET Int
      <3>1. ASSUME NEW i \in B PROVE i \in Int
        BY <1>1
      <3> QED
        BY <3>1
    <2> HIDE DEF B
    <2>2. Len(s) \in Int
      BY <1>1
    <2> QED
      BY <1>2, <2>1, <2>2, Shifted
  <1>4. A \cap D = {}
    BY <1>1
  <1>5. C \subseteq A \cup D /\ A \subseteq C /\ D \subseteq C
    <2>1. ASSUME NEW i \in C PROVE i \in A \cup D
      <3>1. CASE i <= Len(s)
        BY <1>1, <3>1
      <3>2. CASE i > Len(s)
        <4>1. i - Len(s) \in B /\ (i - Len(s)) + Len(s) = i
          BY <1>1, <3>2
        <4> QED
          BY <4>1
      <3> QED
        BY <1>1, <3>1, <3>2
    <2>2. ASSUME NEW i \in A PROVE i \in C
      BY <1>1
    <2>3. ASSUME NEW j \in B PROVE j + Len(s) \in C
      <3>1. j \in 1 .. Len(t) /\ ~IsMedia(t[j])
        BY <1>1
      <3>2. j + Len(s) \in 1 .. Len(s) + Len(t) /\ ~(j + Len(s) <= Len(s)) /\ (j + Len(s)) - Len(s) = j
        BY <1>1, <3>1
      <3> QED
        BY <1>1, <3>1, <3>2
    <2> HIDE DEF A, B, C
    <2>4. ASSUME NEW i \in D PROVE i \in C
      BY <2>3, <2>4
    <2> HIDE DEF D
    <2> QED
      BY <2>1, <2>2, <2>4
  <1> HIDE DEF A, B, C, D
  <1>6. C = A \cup D
    BY <1>5
  <1> QED
    <2>1. Cardinality(A \cup D) = Cardinality(A) + Cardinality(D) - Cardinality(A \cap D)
      BY <1>2, <1>3, FS_Union
    <2>2. Cardinality(A \cap D) = 0
      BY <1>4, FS_EmptySet
    <2> QED
      BY <1>2, <1>3, <1>6, <2>1, <2>2

\* One less when a control datagram is taken out (Receive, PurgeOne).
LEMMA ControlsTail ==
    ASSUME NEW s \in Seq(Items), s # <<>>
    PROVE  /\ Head(s) \in Items /\ Tail(s) \in Seq(Items) /\ Len(Tail(s)) = Len(s) - 1
           /\ Controls(s) = Owes(Head(s)) + Controls(Tail(s))
  <1>1. Head(s) \in Items /\ Tail(s) \in Seq(Items) /\ Len(Tail(s)) = Len(s) - 1
    BY HeadTailProperties
  <1> DEFINE h == Append(<<>>, Head(s))
  <1>2. s = h \o Tail(s) /\ h \in Seq(Items)
    <2>1. /\ h \in Seq(Items) /\ Len(h) = 1 /\ h[1] = Head(s)
          /\ h \o Tail(s) \in Seq(Items) /\ Len(h \o Tail(s)) = Len(s) /\ Len(s) \in Nat \ {0}
      <3>1. <<>> \in Seq(Items) /\ Len(<<>>) = 0 /\ Len(s) \in Nat \ {0}
        BY EmptySeq
      <3>2. h \in Seq(Items) /\ Len(h) = 1 /\ h[1] = Head(s)
        BY <1>1, <3>1, AppendProperties
      <3> HIDE DEF h
      <3>3. h \o Tail(s) \in Seq(Items) /\ Len(h \o Tail(s)) = Len(h) + Len(Tail(s))
        BY <1>1, <3>2, ConcatProperties
      <3> QED
        BY <1>1, <3>1, <3>2, <3>3
    <2> HIDE DEF h
    <2>2. ASSUME NEW i \in 1 .. Len(s) PROVE (h \o Tail(s))[i] = s[i]
      <3>1. (h \o Tail(s))[i] = IF i <= Len(h) THEN h[i] ELSE Tail(s)[i - Len(h)]
        BY <1>1, <2>1, ConcatProperties
      <3>2. CASE i = 1
        BY <2>1, <3>1, <3>2
      <3>3. CASE i > 1
        <4>1. i - 1 \in 1 .. Len(Tail(s)) /\ (i - 1) + 1 = i
          BY <1>1, <2>1, <3>3
        <4>2. Tail(s)[i - 1] = s[i]
          BY <4>1, HeadTailProperties
        <4> QED
          BY <2>1, <3>1, <3>3, <4>2
      <3> QED
        BY <2>1, <3>2, <3>3
    <2> QED
      BY <2>1, <2>2, SeqEqual
  <1>3. Controls(h) = Owes(Head(s))
    <2>1. Controls(h) = Controls(<<>>) + Owes(Head(s))
      BY <1>1, EmptySeq, ControlsAppend
    <2> QED
      BY <2>1, ControlsEmpty DEF Owes
  <1> HIDE DEF h
  <1> QED
    BY <1>1, <1>2, <1>3, ControlsConcat
--------------------------------------------------------------------------------
(* The queue: its steps *)

\* A datagram that is fanned out is one of the broadcast's.
LEMMA FannedOut ==
    ASSUME KfInv, FlagsInv
    PROVE  Control \in Items /\ \A g \in Gops : Media(g) \in Items
  <1>1. Gops \subseteq 0 .. MaxKeyframes
    BY DEF Gops, KfInv, Seqs
  <1> QED
    BY <1>1 DEF Items

\* Nothing but the fan-out, the purge and a receive touches the queue.
LEMMA QueueFrame ==
    ASSUME Next
    PROVE  \/ fanOutLocked(Control) \/ \E g \in Gops : fanOutLocked(Media(g))
           \/ PurgeOne \/ PutBack \/ Received
           \/ UNCHANGED <<queue, purge, owed>>
  <1>1. ASSUME Publishing \/ purgeQueuedDeltasLocked
        PROVE  \/ fanOutLocked(Control) \/ \E g \in Gops : fanOutLocked(Media(g))
               \/ PurgeOne \/ PutBack \/ UNCHANGED <<queue, purge, owed>>
    BY <1>1 DEF Publishing, purgeQueuedDeltasLocked, onKeyframe, queueVars
  <1>2. ASSUME (\E seq \in handoff : sendKeyframe(seq)) \/ Writing
        PROVE  UNCHANGED <<queue, purge, owed>>
    BY <1>2 DEF sendKeyframe, Writing, writeKeyframe, judgeWrite, queueVars
  <1>3. ASSUME QueueDrain \/ drainControlSideband
        PROVE  Received \/ UNCHANGED <<queue, purge, owed>>
    BY <1>3 DEF QueueDrain, drainControlSideband, Receive, drainDatagrams, drainReliable, openCarrier, writeCarrier, drainEnds,
      legTake, legTurn, legFinish, legWeigh, legBegin, queueVars
  <1>4. ASSUME DVRDrain PROVE UNCHANGED <<queue, purge, owed>>
    BY <1>4 DEF DVRDrain, dvrTop, dvrFellBehind, dvrResync, dvrSendKeyframe, dvrProbe,
      dvrWriteKeyframe, dvrRecord, dvrEnded, dvrAdvance, dvrAwake, queueVars
  <1>5. ASSUME legWrite \/ legResetFinished \/ dvrStalls \/ SessionEnds \/ closeUnresponsive
               \/ Close \/ Closing
        PROVE  UNCHANGED <<queue, purge, owed>>
    BY <1>5 DEF legWrite, legResetFinished, dvrStalls, SessionEnds, closeUnresponsive, Close, Closing,
      CloseKeyframe, CloseCarriers, CloseReturned, queueVars
  <1> QED
    BY <1>1, <1>2, <1>3, <1>4, <1>5 DEF Next

\* A datagram fanned out.
LEMMA QueueFanOut ==
    ASSUME QueueInv, NEW d \in Items, fanOutLocked(d)
    PROVE  QueueInv'
  <1>1. ~purge.on /\ purge.keep = <<>>
    BY DEF fanOutLocked, QueueInv
  <1>2. Len(queue) \in Nat /\ Len(<<>>) = 0 /\ QueueDepth \in Nat \ {0} /\ <<>> \in Seq(Items)
    BY LenProperties, EmptySeq, DeliveryAssumption DEF QueueInv
  <1>3. Controls(queue) \in Nat /\ Owes(d) \in {0, 1}
    BY ControlsType DEF QueueInv, Owes
  <1>4. CASE UNCHANGED <<queue, purge, owed>>
    BY <1>4 DEF QueueInv, Controls
  <1>5. CASE Len(queue) < QueueDepth /\ queue' = Append(queue, d) /\ owed' = owed + Owes(d) /\ UNCHANGED purge
    <2>1. /\ Append(queue, d) \in Seq(Items) /\ Len(Append(queue, d)) = Len(queue) + 1
      BY AppendProperties DEF QueueInv
    <2>2. Controls(Append(queue, d)) = Controls(queue) + Owes(d)
      BY ControlsAppend DEF QueueInv
    <2>3. /\ owed = Controls(queue) + 0 /\ Controls(<<>>) = 0
          /\ purge \in [on : BOOLEAN, left : 0 .. QueueDepth, keep : Seq(Items)]
      BY <1>1, <1>3, ControlsEmpty DEF QueueInv
    <2> QED
      BY <1>1, <1>2, <1>3, <1>5, <2>1, <2>2, <2>3 DEF QueueInv
  <1>6. CASE /\ purge' = [on |-> TRUE, left |-> Len(queue), keep |-> <<>>]
             /\ UNCHANGED <<queue, owed>>
    <2>1. Len(queue) \in 0 .. QueueDepth /\ Len(queue) + 0 <= QueueDepth
          /\ owed = Controls(queue) + Controls(<<>>) /\ queue \in Seq(Items)
      BY <1>1, <1>2 DEF QueueInv
    <2>2. purge'.keep = <<>> /\ purge'.on
          /\ purge' \in [on : BOOLEAN, left : 0 .. QueueDepth, keep : Seq(Items)]
      BY <1>2, <1>6, <2>1
    <2> QED
      BY <1>2, <1>6, <2>1, <2>2 DEF QueueInv, Controls
  <1> QED
    BY <1>4, <1>5, <1>6 DEF fanOutLocked, enqueueLocked, queueVars

\* A datagram taken out by the purge: dropped, or kept.
LEMMA QueuePurgeOne ==
    ASSUME QueueInv, PurgeOne
    PROVE  QueueInv'
  <1> DEFINE h == Head(queue)
             k == IF IsMedia(h) THEN purge.keep ELSE Append(purge.keep, h)
  <1>1. /\ queue \in Seq(Items) /\ queue # <<>> /\ purge.keep \in Seq(Items)
        /\ purge.on /\ purge.left \in 0 .. QueueDepth /\ purge.left > 0 /\ QueueDepth \in Nat
        /\ queue' = Tail(queue) /\ owed' = owed
        /\ purge' = [on |-> TRUE, left |-> purge.left - 1, keep |-> k]
    BY DeliveryAssumption DEF QueueInv, PurgeOne
  <1>2. /\ h \in Items /\ Tail(queue) \in Seq(Items) /\ Len(Tail(queue)) = Len(queue) - 1
        /\ Controls(queue) = Owes(h) + Controls(Tail(queue))
    BY <1>1, ControlsTail
  <1>3. Len(queue) \in Nat /\ Len(purge.keep) \in Nat /\ Controls(purge.keep) \in Nat
        /\ Controls(Tail(queue)) \in Nat
    BY <1>1, <1>2, LenProperties, ControlsType
  <1>4. k \in Seq(Items) /\ Len(k) <= Len(purge.keep) + 1 /\ Len(k) \in Nat
        /\ Controls(k) = Controls(purge.keep) + Owes(h)
    <2>1. CASE IsMedia(h)
      BY <1>1, <1>3, <2>1 DEF Owes
    <2>2. CASE ~IsMedia(h)
      BY <1>1, <1>2, <1>3, <2>2, AppendProperties, ControlsAppend
    <2> QED
      BY <2>1, <2>2
  <1>5. Owes(h) \in {0, 1}
    BY DEF Owes
  <1> HIDE DEF h, k
  <1>6. purge' \in [on : BOOLEAN, left : 0 .. QueueDepth, keep : Seq(Items)]
        /\ purge'.on /\ purge'.keep = k
    BY <1>1, <1>4
  <1>7. owed = Controls(queue) + Controls(purge.keep) /\ Len(queue) + Len(purge.keep) <= QueueDepth
    BY DEF QueueInv
  <1>8. owed' = Controls(queue') + Controls(purge'.keep)
    BY <1>1, <1>2, <1>3, <1>4, <1>5, <1>6, <1>7
  <1>9. Len(queue') + Len(purge'.keep) <= QueueDepth
    BY <1>1, <1>2, <1>3, <1>4, <1>6, <1>7
  <1> QED
    BY <1>1, <1>2, <1>6, <1>8, <1>9 DEF QueueInv, Controls

\* What was kept put back: it fits.
LEMMA QueuePutBack ==
    ASSUME QueueInv, PutBack
    PROVE  QueueInv'
  <1> DEFINE all == queue \o purge.keep
  <1>1. queue \in Seq(Items) /\ purge.keep \in Seq(Items) /\ QueueDepth \in Nat
    BY DeliveryAssumption DEF QueueInv
  <1>2. all \in Seq(Items) /\ Len(all) = Len(queue) + Len(purge.keep) /\ Len(all) \in Nat
        /\ Controls(all) = Controls(queue) + Controls(purge.keep) /\ Controls(all) \in Nat
    <2>1. all \in Seq(Items) /\ Len(all) = Len(queue) + Len(purge.keep)
      BY <1>1, ConcatProperties
    <2>2. Controls(all) = Controls(queue) + Controls(purge.keep)
      BY <1>1, ControlsConcat
    <2> HIDE DEF all
    <2> QED
      BY <2>1, <2>2, ControlsType, LenProperties
  <1>3. Len(all) <= QueueDepth /\ owed = Controls(all)
    BY <1>2 DEF QueueInv
  <1>4. queue' = SubSeq(all, 1, IF Len(all) > QueueDepth THEN QueueDepth ELSE Len(all))
        /\ purge' = NoPurge /\ owed' = owed
    BY DEF PutBack
  <1> HIDE DEF all
  <1>5. queue' = all
    <2>1. queue' = SubSeq(all, 1, Len(all))
      BY <1>1, <1>2, <1>3, <1>4
    <2> QED
      BY <1>2, <2>1, SubSeqFull
  <1>6. <<>> \in Seq(Items) /\ Len(<<>>) = 0 /\ Controls(<<>>) = 0
    BY EmptySeq, ControlsEmpty
  <1>7. purge'.keep = <<>> /\ purge' \in [on : BOOLEAN, left : 0 .. QueueDepth, keep : Seq(Items)]
    BY <1>1, <1>4, <1>6 DEF NoPurge
  <1>8. owed' = Controls(queue') + Controls(purge'.keep)
    <2>1. Controls(queue') = owed /\ Controls(purge'.keep) = 0 /\ owed \in Nat
      BY <1>2, <1>3, <1>5, <1>6, <1>7
    <2> QED
      BY <1>4, <2>1
  <1>9. Len(queue') + Len(purge'.keep) <= QueueDepth
    <2>1. Len(purge'.keep) = 0
      BY <1>6, <1>7
    <2> QED
      BY <1>2, <1>3, <1>5, <2>1
  <1> QED
    BY <1>2, <1>5, <1>7, <1>8, <1>9 DEF QueueInv, Controls

\* A datagram received by the drain.
LEMMA QueueReceive ==
    ASSUME QueueInv, Received
    PROVE  QueueInv'
  <1>1. queue \in Seq(Items) /\ queue # <<>> /\ purge.keep \in Seq(Items) /\ QueueDepth \in Nat
        /\ queue' = Tail(queue) /\ owed' = owed - Owes(Head(queue)) /\ purge' = purge
    BY DeliveryAssumption DEF QueueInv, Received
  <1>2. /\ Head(queue) \in Items /\ Tail(queue) \in Seq(Items) /\ Len(Tail(queue)) = Len(queue) - 1
        /\ Controls(queue) = Owes(Head(queue)) + Controls(Tail(queue))
    BY <1>1, ControlsTail
  <1>3. Len(queue) \in Nat /\ Len(purge.keep) \in Nat /\ Controls(purge.keep) \in Nat
        /\ Controls(Tail(queue)) \in Nat /\ Owes(Head(queue)) \in {0, 1}
    BY <1>1, <1>2, LenProperties, ControlsType DEF Owes
  <1>4. owed = Controls(queue) + Controls(purge.keep) /\ Len(queue) + Len(purge.keep) <= QueueDepth
    BY DEF QueueInv
  <1>5. owed' = Controls(queue') + Controls(purge'.keep) /\ Len(queue') + Len(purge'.keep) <= QueueDepth
    BY <1>1, <1>2, <1>3, <1>4
  <1> QED
    BY <1>1, <1>2, <1>5 DEF QueueInv, Controls

\* The queue and the purge, whatever step is taken.
LEMMA QueueMove ==
    ASSUME QueueInv, KfInv, FlagsInv, [Next]_vars
    PROVE  QueueInv'
  <1>1. CASE Next
    <2>1. CASE UNCHANGED <<queue, purge, owed>>
      BY <2>1 DEF QueueInv, Controls
    <2> QED
      BY <1>1, <2>1, QueueFrame, FannedOut, QueueFanOut, QueuePurgeOne, QueuePutBack, QueueReceive
  <1>2. CASE UNCHANGED vars
    BY <1>2 DEF vars, queueVars, QueueInv, Controls
  <1> QED
    BY <1>1, <1>2
--------------------------------------------------------------------------------
(* Keyframes and their writers *)

\* A count that goes up stops at its threshold.
LEMMA SaturateType ==
    ASSUME NEW n \in 0 .. EvictThreshold
    PROVE  Saturate(n) \in 0 .. EvictThreshold
  BY DeliveryAssumption DEF Saturate

\* A stream that cannot be opened counts, and the keyframe in flight is the same.
LEMMA Counted ==
    ASSUME NEW k \in KfType
    PROVE  /\ OpenFailed(k) \in KfType /\ OpenFailed(k).last = k.last /\ OpenFailed(k).cur = k.cur
           /\ CarFailed(k) \in KfType /\ CarFailed(k).last = k.last /\ CarFailed(k).cur = k.cur
  <1> DEFINE n == Saturate(k.openFailed)
             m == Saturate(k.carFailed)
  <1>1. n \in 0 .. EvictThreshold /\ m \in 0 .. EvictThreshold
    BY SaturateType DEF KfType
  <1> HIDE DEF n, m
  <1>2. (k.evicting \/ n >= EvictThreshold) \in BOOLEAN /\ (k.evicting \/ m >= EvictThreshold) \in BOOLEAN
    OBVIOUS
  <1>3. OpenFailed(k) = [k EXCEPT !.openFailed = n, !.evicting = @ \/ n >= EvictThreshold]
    BY DEF OpenFailed, Latched, n, KfType
  <1>4. CarFailed(k) = [k EXCEPT !.carFailed = m, !.evicting = @ \/ m >= EvictThreshold]
    BY DEF CarFailed, Latched, m, KfType
  <1> QED
    BY <1>1, <1>2, <1>3, <1>4 DEF KfType

\* Cancelling a keyframe leaves the writers who they were.
LEMMA CancelledWriters ==
    ASSUME writers \subseteq WriterType, NEW c
    PROVE  /\ Cancelled(writers, c) \subseteq WriterType
           /\ \A w \in Cancelled(writers, c) :
                \E v \in writers : /\ w = [v EXCEPT !.cancelled = @ \/ (v.seq = c /\ v.at = "write")]
                                   /\ w.seq = v.seq /\ w.at = v.at
                                   /\ w.at = "write" /\ ~w.cancelled => ~v.cancelled /\ v.seq # c
  <1>1. ASSUME NEW v \in writers
        PROVE  LET w == [v EXCEPT !.cancelled = @ \/ (v.seq = c /\ v.at = "write")]
               IN  /\ w \in WriterType /\ w.seq = v.seq /\ w.at = v.at
                   /\ w.cancelled = (v.cancelled \/ (v.seq = c /\ v.at = "write"))
    <2>1. v \in WriterType /\ (v.cancelled \/ (v.seq = c /\ v.at = "write")) \in BOOLEAN
      OBVIOUS
    <2> QED
      BY <2>1 DEF WriterType
  <1>2. ASSUME NEW w \in Cancelled(writers, c)
        PROVE  \E v \in writers : w = [v EXCEPT !.cancelled = @ \/ (v.seq = c /\ v.at = "write")]
    BY DEF Cancelled
  <1> QED
    BY <1>1, <1>2

\* Cancelled writers are still one for each keyframe, and those that are not
\* cancelled were in flight.
LEMMA StillOneEach ==
    ASSUME KfInv
    PROVE  LET W == Cancelled(writers, kf.cur) IN
           /\ W \subseteq WriterType
           /\ \A w \in W : w.seq <= fan.kf /\ w.seq \notin handoff
           /\ \A v, w \in W : v.seq = w.seq => v = w
           /\ \A w \in W : w.at = "write" => w.cancelled
  <1> DEFINE W == Cancelled(writers, kf.cur)
  <1>1. writers \subseteq WriterType
    BY DEF KfInv
  <1>2. /\ W \subseteq WriterType
        /\ \A w \in W :
             \E v \in writers : /\ w = [v EXCEPT !.cancelled = @ \/ (v.seq = kf.cur /\ v.at = "write")]
                                /\ w.seq = v.seq /\ w.at = v.at
                                /\ w.at = "write" /\ ~w.cancelled => ~v.cancelled /\ v.seq # kf.cur
    BY <1>1, CancelledWriters
  <1> HIDE DEF W
  <1>3. ASSUME NEW w \in W PROVE w.seq <= fan.kf /\ w.seq \notin handoff
    BY <1>2 DEF KfInv
  <1>4. ASSUME NEW v \in W, NEW w \in W, v.seq = w.seq PROVE v = w
    <2>1. PICK x \in writers : v = [x EXCEPT !.cancelled = @ \/ (x.seq = kf.cur /\ x.at = "write")]
                               /\ v.seq = x.seq
      BY <1>2
    <2>2. PICK y \in writers : w = [y EXCEPT !.cancelled = @ \/ (y.seq = kf.cur /\ y.at = "write")]
                               /\ w.seq = y.seq
      BY <1>2
    <2>3. x = y
      BY <1>4, <2>1, <2>2 DEF KfInv
    <2> QED
      BY <2>1, <2>2, <2>3
  <1>5. ASSUME NEW w \in W, w.at = "write", ~w.cancelled PROVE FALSE
    <2>1. PICK v \in writers : v.at = "write" /\ ~v.cancelled /\ v.seq # kf.cur
      BY <1>2, <1>5
    <2> QED
      BY <2>1 DEF KfInv, OneKeyframeInFlight
  <1> QED
    BY <1>2, <1>3, <1>4, <1>5 DEF W

\* A chunk or a keyframe of the publisher.
LEMMA KfPublish ==
    ASSUME KfInv, Publishing
    PROVE  KfInv'
  <1>1. /\ fan \in [kf : Seqs, sent : 0 .. MaxDatagrams] /\ MaxKeyframes \in Nat /\ MaxDatagrams \in Nat
        /\ handoff \subseteq 0 .. fan.kf /\ writers \subseteq WriterType
        /\ \A w \in writers : w.seq <= fan.kf /\ w.seq \notin handoff
    BY DeliveryAssumption DEF KfInv
  <1>2. ASSUME NEW d, fanOutLocked(d) PROVE KfInv'
    <2>1. /\ fan' = [fan EXCEPT !.sent = @ + 1] /\ fan.sent < MaxDatagrams
          /\ UNCHANGED <<handoff, kf, writers>>
      BY <1>2 DEF fanOutLocked, kfVars
    <2>2. fan' \in [kf : Seqs, sent : 0 .. MaxDatagrams] /\ fan'.kf = fan.kf
      BY <1>1, <2>1
    <2> QED
      BY <1>1, <2>1, <2>2 DEF KfInv, OneKeyframeInFlight
  <1>3. ASSUME onKeyframe PROVE KfInv'
    <2>1. /\ fan' = [fan EXCEPT !.kf = @ + 1] /\ fan.kf < MaxKeyframes
          /\ handoff' = handoff \cup {fan'.kf} \/ handoff' = handoff
          /\ UNCHANGED <<kf, writers>>
      BY <1>3 DEF onKeyframe, kfVars
    <2>2. /\ fan' \in [kf : Seqs, sent : 0 .. MaxDatagrams] /\ fan'.kf = fan.kf + 1 /\ fan.kf \in Nat
          /\ \A w \in writers : w.seq \in Nat
      BY <1>1, <2>1 DEF Seqs, WriterType
    <2>3. handoff' \subseteq 0 .. fan'.kf
      BY <1>1, <2>1, <2>2
    <2>4. \A w \in writers : w.seq <= fan'.kf /\ w.seq \notin handoff'
      BY <1>1, <2>1, <2>2
    <2> QED
      BY <2>1, <2>2, <2>3, <2>4 DEF KfInv, OneKeyframeInFlight
  <1> QED
    BY <1>2, <1>3 DEF Publishing

\* A keyframe handed to the subscriber: the one in flight is cancelled.
LEMMA KfSend ==
    ASSUME KfInv, NEW seq \in handoff, sendKeyframe(seq)
    PROVE  KfInv'
  <1> DEFINE W == Cancelled(writers, kf.cur)
             k == [kf EXCEPT !.last = seq, !.cur = 0]
             new == [seq |-> seq, at |-> "write", err |-> FALSE, cancelled |-> FALSE]
  <1>1. /\ fan \in [kf : Seqs, sent : 0 .. MaxDatagrams] /\ MaxKeyframes \in Nat
        /\ handoff \subseteq 0 .. fan.kf /\ kf \in KfType /\ EvictThreshold \in Nat \ {0}
    BY DeliveryAssumption DEF KfInv
  <1>2. seq \in Seqs /\ seq <= fan.kf /\ fan.kf \in Nat /\ 0 \in Seqs
    BY <1>1 DEF Seqs
  <1>3. fan' = fan /\ handoff' = handoff \ {seq}
    BY DEF sendKeyframe
  <1>4. k \in KfType /\ k.last = seq /\ k.cur = 0
    BY <1>1, <1>2 DEF KfType
  <1>5. /\ W \subseteq WriterType
        /\ \A w \in W : w.seq <= fan.kf /\ w.seq \notin handoff
        /\ \A v, w \in W : v.seq = w.seq => v = w
        /\ \A w \in W : w.at = "write" => w.cancelled
    BY StillOneEach
  <1>6. CASE UNCHANGED <<kf, writers>>
    BY <1>1, <1>3, <1>6 DEF KfInv, OneKeyframeInFlight
  <1>7. CASE kf' = OpenFailed(k) /\ writers' = W
    <2>1. kf' \in KfType /\ kf'.cur = 0
      BY <1>4, <1>7, Counted
    <2> HIDE DEF W, k
    <2>2. \A w \in writers' : w.seq <= fan'.kf /\ w.seq \notin handoff'
      BY <1>3, <1>5, <1>7
    <2>3. \A v, w \in writers' : v.seq = w.seq => v = w
      BY <1>5, <1>7
    <2>4. \A w \in writers' : w.at = "write" => w.cancelled
      BY <1>5, <1>7
    <2>5. OneKeyframeInFlight'
      BY <2>1, <2>4 DEF OneKeyframeInFlight
    <2>6. writers' \subseteq WriterType /\ handoff' \subseteq 0 .. fan'.kf
          /\ fan' \in [kf : Seqs, sent : 0 .. MaxDatagrams]
      BY <1>1, <1>3, <1>5, <1>7
    <2> QED
      BY <2>1, <2>2, <2>3, <2>5, <2>6 DEF KfInv
  <1>8. CASE kf' = [k EXCEPT !.cur = seq, !.openFailed = 0] /\ writers' = W \cup {new}
    <2> HIDE DEF k
    <2>1. kf' \in KfType /\ kf'.cur = seq /\ kf'.last = seq
      <3>1. seq \in Seqs /\ 0 \in 0 .. EvictThreshold
        BY <1>1, <1>2
      <3>2. kf' = [k EXCEPT !.cur = seq, !.openFailed = 0]
        BY <1>8
      <3> QED
        BY <1>4, <3>1, <3>2 DEF KfType
    <2>2. new \in WriterType /\ new.seq = seq /\ new.at = "write"
      BY <1>2 DEF WriterType
    <2> HIDE DEF W, new
    <2>3. \A w \in writers' : w.seq <= fan'.kf /\ w.seq \notin handoff'
      BY <1>2, <1>3, <1>5, <1>8, <2>2
    <2>4. \A v, w \in writers' : v.seq = w.seq => v = w
      BY <1>5, <1>8, <2>2
    <2>5. \A w \in writers' : w.at = "write" /\ ~w.cancelled => w.seq = seq
      BY <1>5, <1>8, <2>2
    <2> QED
      BY <1>1, <1>3, <1>5, <1>8, <2>1, <2>2, <2>3, <2>4, <2>5 DEF KfInv, OneKeyframeInFlight
  <1> QED
    BY <1>6, <1>7, <1>8 DEF sendKeyframe, kfVars
\* A writer returns from its stream.
LEMMA KfWrite ==
    ASSUME KfInv, NEW w \in writers, writeKeyframe(w)
    PROVE  KfInv'
  <1>1. PICK x \in WriterType : /\ writers' = (writers \ {w}) \cup {x}
                                /\ x.seq = w.seq /\ x.at = "judge"
    <2>1. w \in WriterType
      BY DEF KfInv
    <2>2. [w EXCEPT !.at = "judge", !.cancelled = FALSE] \in WriterType
          /\ [w EXCEPT !.at = "judge", !.err = TRUE, !.cancelled = FALSE] \in WriterType
      BY <2>1 DEF WriterType
    <2>3. /\ [w EXCEPT !.at = "judge", !.cancelled = FALSE].seq = w.seq
          /\ [w EXCEPT !.at = "judge", !.cancelled = FALSE].at = "judge"
          /\ [w EXCEPT !.at = "judge", !.err = TRUE, !.cancelled = FALSE].seq = w.seq
          /\ [w EXCEPT !.at = "judge", !.err = TRUE, !.cancelled = FALSE].at = "judge"
      BY <2>1 DEF WriterType
    <2> QED
      BY <2>2, <2>3 DEF writeKeyframe
  <1>2. UNCHANGED <<fan, handoff, kf>>
    BY DEF writeKeyframe, fanVars
  <1>3. \A v \in writers' : v.seq <= fan.kf /\ v.seq \notin handoff
    BY <1>1 DEF KfInv
  <1>4. \A u, v \in writers' : u.seq = v.seq => u = v
    BY <1>1 DEF KfInv
  <1> QED
    BY <1>1, <1>2, <1>3, <1>4 DEF KfInv, OneKeyframeInFlight

\* A writer is done: if its keyframe was in flight, none is any more.
LEMMA KfJudge ==
    ASSUME KfInv, NEW w \in writers, judgeWrite(w)
    PROVE  KfInv'
  <1> DEFINE k == [kf EXCEPT !.cur = IF kf.cur = w.seq THEN 0 ELSE @]
             n == Saturate(kf.slow)
  <1>1. kf \in KfType /\ w \in WriterType /\ 0 \in Seqs /\ EvictThreshold \in Nat \ {0}
    BY DeliveryAssumption DEF KfInv, Seqs
  <1>2. n \in 0 .. EvictThreshold /\ (k.evicting \/ n >= EvictThreshold) \in BOOLEAN
    BY <1>1, SaturateType DEF KfType
  <1>3. k \in KfType /\ k.last = kf.last /\ k.cur = IF kf.cur = w.seq THEN 0 ELSE kf.cur
    BY <1>1 DEF KfType
  <1>4. kf' \in {[k EXCEPT !.slow = 0], [k EXCEPT !.slow = n, !.evicting = @ \/ n >= EvictThreshold], k}
    <2>1. Latched([k EXCEPT !.slow = n], n) = [k EXCEPT !.slow = n, !.evicting = @ \/ n >= EvictThreshold]
      BY <1>3 DEF Latched, KfType
    <2> QED
      BY <2>1 DEF judgeWrite, AfterWrite
  <1> HIDE DEF k, n
  <1>5. kf' \in KfType /\ kf'.last = kf.last /\ kf'.cur = IF kf.cur = w.seq THEN 0 ELSE kf.cur
    <2>1. [k EXCEPT !.slow = 0] \in KfType
          /\ [k EXCEPT !.slow = 0].last = k.last /\ [k EXCEPT !.slow = 0].cur = k.cur
      BY <1>1, <1>3 DEF KfType
    <2>2. [k EXCEPT !.slow = n, !.evicting = @ \/ n >= EvictThreshold] \in KfType
          /\ [k EXCEPT !.slow = n, !.evicting = @ \/ n >= EvictThreshold].last = k.last
          /\ [k EXCEPT !.slow = n, !.evicting = @ \/ n >= EvictThreshold].cur = k.cur
      BY <1>1, <1>2, <1>3 DEF KfType
    <2> QED
      BY <1>3, <1>4, <2>1, <2>2
  <1>6. UNCHANGED <<fan, handoff>> /\ writers' = writers \ {w} /\ w.at = "judge"
    BY DEF judgeWrite, fanVars
  <1>7. \A v \in writers' : v.at = "write" /\ ~v.cancelled => v.seq = kf'.cur
    BY <1>5, <1>6 DEF KfInv, OneKeyframeInFlight
  <1> QED
    BY <1>5, <1>6, <1>7 DEF KfInv, OneKeyframeInFlight

\* Close cancels the keyframe in flight.
LEMMA KfClose ==
    ASSUME KfInv, CloseKeyframe
    PROVE  KfInv'
  <1>1. kf' = [kf EXCEPT !.cur = 0] /\ writers' = Cancelled(writers, kf.cur) /\ UNCHANGED <<fan, handoff>>
    BY DEF CloseKeyframe, fanVars
  <1>2. kf' \in KfType /\ kf'.cur = 0
    BY <1>1, DeliveryAssumption DEF KfInv, KfType, Seqs
  <1> QED
    BY <1>1, <1>2, StillOneEach DEF KfInv, OneKeyframeInFlight

\* The drains count what fails, and leave the keyframe in flight alone.
LEMMA KfCount ==
    ASSUME KfInv, openCarrier \/ dvrTop \/ dvrSendKeyframe
    PROVE  KfInv'
  <1>1. UNCHANGED <<fan, handoff, writers>>
    BY DEF openCarrier, dvrTop, dvrSendKeyframe, fanVars
  <1>2. kf' \in {kf, CarFailed(kf), OpenFailed(kf), [kf EXCEPT !.carFailed = 0],
                 [kf EXCEPT !.openFailed = 0], [kf EXCEPT !.evicting = @ \/ ~Closed]}
    BY DEF openCarrier, dvrTop, dvrSendKeyframe
  <1>3. kf \in KfType /\ EvictThreshold \in Nat \ {0}
    BY DeliveryAssumption DEF KfInv
  <1>4. kf' \in KfType /\ kf'.cur = kf.cur /\ kf'.last = kf.last
    <2>1. /\ [kf EXCEPT !.carFailed = 0] \in KfType /\ [kf EXCEPT !.openFailed = 0] \in KfType
          /\ [kf EXCEPT !.evicting = @ \/ ~Closed] \in KfType
      <3>1. 0 \in 0 .. EvictThreshold /\ (kf.evicting \/ ~Closed) \in BOOLEAN
        BY <1>3
      <3> QED
        BY <1>3, <3>1 DEF KfType
    <2>2. /\ [kf EXCEPT !.carFailed = 0].cur = kf.cur /\ [kf EXCEPT !.carFailed = 0].last = kf.last
          /\ [kf EXCEPT !.openFailed = 0].cur = kf.cur /\ [kf EXCEPT !.openFailed = 0].last = kf.last
          /\ [kf EXCEPT !.evicting = @ \/ ~Closed].cur = kf.cur
          /\ [kf EXCEPT !.evicting = @ \/ ~Closed].last = kf.last
      BY <1>3 DEF KfType
    <2> QED
      BY <1>2, <1>3, <2>1, <2>2, Counted
  <1> QED
    BY <1>1, <1>4 DEF KfInv, OneKeyframeInFlight

\* Nothing else touches them.
LEMMA KfFrame ==
    ASSUME Next
    PROVE  \/ Publishing \/ CloseKeyframe \/ openCarrier \/ dvrTop \/ dvrSendKeyframe
           \/ \E seq \in handoff : sendKeyframe(seq)
           \/ \E w \in writers : writeKeyframe(w) \/ judgeWrite(w)
           \/ UNCHANGED <<fanVars, kfVars>>
  <1>1. ASSUME purgeQueuedDeltasLocked \/ drainControlSideband PROVE UNCHANGED <<fanVars, kfVars>>
    BY <1>1 DEF purgeQueuedDeltasLocked, drainControlSideband
  <1>2. ASSUME QueueDrain PROVE openCarrier \/ UNCHANGED <<fanVars, kfVars>>
    BY <1>2 DEF QueueDrain, drainDatagrams, drainReliable, writeCarrier, drainEnds,
      legTake, legTurn, legFinish, legWeigh, legBegin, Receive
  <1>3. ASSUME DVRDrain PROVE dvrTop \/ dvrSendKeyframe \/ UNCHANGED <<fanVars, kfVars>>
    BY <1>3 DEF DVRDrain, dvrFellBehind, dvrResync, dvrProbe,
      dvrWriteKeyframe, dvrRecord, dvrEnded, dvrAdvance, dvrAwake
  <1>4. ASSUME legWrite \/ legResetFinished \/ dvrStalls \/ SessionEnds \/ closeUnresponsive
               \/ Close \/ Closing
        PROVE  CloseKeyframe \/ UNCHANGED <<fanVars, kfVars>>
    BY <1>4 DEF legWrite, legResetFinished, dvrStalls, SessionEnds, closeUnresponsive, Close, Closing,
      CloseCarriers, CloseReturned, kfVars
  <1> QED
    BY <1>1, <1>2, <1>3, <1>4 DEF Next, Writing

\* Keyframes and their writers, whatever step is taken.
LEMMA KfMove ==
    ASSUME KfInv, [Next]_vars
    PROVE  KfInv'
  <1>1. CASE UNCHANGED <<fanVars, kfVars>>
    BY <1>1 DEF fanVars, kfVars, KfInv, OneKeyframeInFlight
  <1>2. CASE Next
    BY <1>1, <1>2, KfFrame, KfPublish, KfClose, KfCount, KfSend, KfWrite, KfJudge
  <1>3. CASE UNCHANGED vars
    BY <1>1, <1>3 DEF vars
  <1> QED
    BY <1>2, <1>3
--------------------------------------------------------------------------------
(* Carrier streams: the moves of the drain *)

\* The drain goes on at another step.
LEMMA DrainTo ==
    ASSUME drain \in DrainType, NEW x \in DrainSteps, Drain(x)
    PROVE  /\ drain' \in DrainType /\ drain'.at = x
           /\ drain'.item = drain.item /\ drain'.st = drain.st /\ drain'.tries = drain.tries
           /\ drain'.prologue = drain.prologue
  BY DEF Drain, DrainType

\* What becomes of the drain's record when it goes on with the next.
LEMMA AfreshType ==
    ASSUME drain \in DrainType
    PROVE  /\ Afresh(drain) \in DrainType /\ Afresh(drain).at = "take"
           /\ Afresh(drain).st = 0 /\ Afresh(drain).tries = 0
  <1>1. Control \in Items /\ 0 \in 0 .. 4 /\ 0 \in 0 .. 2 /\ "take" \in DrainSteps
    BY DEF Items, DrainSteps
  <1> QED
    BY <1>1 DEF Afresh, DrainType

\* The drain takes the next record.
LEMMA TakeTo ==
    ASSUME drain \in DrainType, Take
    PROVE  drain' \in DrainType /\ drain'.at = "take"
  BY AfreshType DEF Take

\* The drain drops the GOP, or tries the record again (DVR).
LEMMA AbandonTo ==
    ASSUME drain \in DrainType, Abandon
    PROVE  drain' \in DrainType /\ drain'.at = IF mode = "dvr" THEN "nap" ELSE "take"
  <1>1. Afresh(drain) \in DrainType /\ "nap" \in DrainSteps
    BY AfreshType DEF DrainSteps
  <1>2. Afresh(drain).at = "take"
    BY AfreshType
  <1> QED
    BY <1>1, <1>2 DEF Abandon, DrainType

\* A record tried again, if it was tried once only.
LEMMA AgainTo ==
    ASSUME drain \in DrainType, Again, drain.tries > 0
    PROVE  /\ drain' \in DrainType
           /\ drain'.at = "take" \/ (drain'.at = "pass" /\ drain'.tries > 0)
  <1>1. CASE Take
    BY <1>1, TakeTo
  <1>2. CASE drain.tries # 1 /\ drain' = [drain EXCEPT !.tries = @ - 1, !.at = "pass"]
    <2>1. drain.tries - 1 \in 0 .. 2 /\ drain.tries - 1 > 0 /\ "pass" \in DrainSteps
      BY <1>2 DEF DrainType, DrainSteps
    <2> QED
      BY <1>2, <2>1 DEF DrainType
  <1> QED
    BY <1>1, <1>2 DEF Again

\* The carrier retired.
LEMMA RetireTo ==
    ASSUME CarInv, retireCarrier
    PROVE  /\ car' \in CarType /\ car'.cur = 0 /\ car'.finishing = car.finishing
           /\ car'.writing = car.writing /\ car'.kf = car.kf /\ car'.hurry = car.hurry
           /\ live' = live \ {car.cur}
  BY DEF retireCarrier, CarInv, CarType

\* The carrier forgotten together with the one that finishes.
LEMMA BothTo ==
    ASSUME car \in CarType, car' = [car EXCEPT !.cur = 0, !.finishing = 0]
    PROVE  /\ car' \in CarType /\ car'.cur = 0 /\ car'.finishing = 0
           /\ car'.writing = car.writing /\ car'.kf = car.kf /\ car'.hurry = car.hurry
  <1>1. 0 \in 0 .. 4
    OBVIOUS
  <1> QED
    BY <1>1 DEF CarType

\* The stream being written reset.
LEMMA ResetTo ==
    ASSUME CarInv, ResetWritten
    PROVE  /\ car' \in CarType /\ car'.cur = IF car.cur = drain.st THEN 0 ELSE car.cur
           /\ car'.finishing = car.finishing /\ car'.writing = FALSE /\ car'.kf = car.kf
           /\ live' = live \ {drain.st}
  <1>1. 0 \in 0 .. 4 /\ FALSE \in BOOLEAN /\ (IF car.cur = drain.st THEN 0 ELSE car.cur) \in 0 .. 4
    BY DEF CarInv, CarType
  <1> QED
    BY <1>1 DEF ResetWritten, CarInv, CarType

\* There is a number for a new stream: at most the one finishing is live.
LEMMA NewStreamType ==
    ASSUME CarInv, drain.at = "open"
    PROVE  NewStream \in 1 .. 4 /\ NewStream \notin live
  <1>1. live \subseteq {car.finishing} /\ live \subseteq 1 .. 4
    BY DEF CarInv, Finishing
  <1>2. \E n \in 1 .. 4 : n \notin live /\ \A m \in 1 .. n - 1 : m \in live
    <2>1. CASE 1 \notin live
      BY <2>1
    <2>2. CASE 1 \in live
      <3>1. 2 \notin live /\ \A m \in 1 .. 2 - 1 : m \in live
        BY <1>1, <2>2
      <3> QED
        BY <3>1
    <2> QED
      BY <2>1, <2>2
  <1> QED
    BY <1>2 DEF NewStream
\* Where none of its variables changes, the invariant stands.
LEMMA StreamFrame ==
    ASSUME StreamInv, UNCHANGED <<mode, close, writers, turned, drain, car, live>>
    PROVE  StreamInv'
  BY DEF StreamInv, StepsInv, CarInv, Finishing, LegInv, LegAbandonsOldGop, EndInv

\* A record taken by a reliable drain.
LEMMA StreamReliable ==
    ASSUME StreamInv, drainReliable
    PROVE  StreamInv'
  <1> DEFINE cur == IF turned THEN 0 ELSE car.cur
  <1>1. mode = "reliable" /\ drain.at = "take" /\ UNCHANGED <<mode, close, writers>>
    BY DEF drainReliable, Receive, endVars, kfVars
  <1>2. /\ car' \in CarType /\ car'.cur = cur /\ car'.finishing = car.finishing
        /\ car'.writing = car.writing
        /\ live' \subseteq live /\ (car'.cur # car.cur => car.cur \notin live')
    <2>1. CASE turned
      BY <2>1, RetireTo DEF drainReliable, StreamInv
    <2>2. CASE ~turned
      BY <2>2 DEF drainReliable, StreamInv, CarInv, carVars
    <2> QED
      BY <2>1, <2>2
  <1>3. PICK step \in {"take", "open", "write"} :
          /\ drain' = [drain EXCEPT !.at = step, !.dead = drain.dead /\ ~turned,
                                    !.st = IF step = "take" THEN 0 ELSE cur]
          /\ step = "open" => cur = 0
    BY DEF drainReliable
  <1>4. cur \in 0 .. 4 /\ drain \in DrainType
    BY DEF StreamInv, CarInv, CarType
  <1> HIDE DEF cur
  <1>5. drain' \in DrainType /\ drain'.at = step
    <2>1. (drain.dead /\ ~turned) \in BOOLEAN /\ (IF step = "take" THEN 0 ELSE cur) \in 0 .. 4
          /\ step \in DrainSteps
      BY <1>3, <1>4 DEF DrainSteps
    <2> QED
      BY <1>3, <1>4, <2>1 DEF DrainType
  <1>6. StepsInv' /\ LegInv'
    BY <1>1, <1>3, <1>5 DEF StepsInv, LegInv
  <1>7. CarInv'
    BY <1>1, <1>2, <1>3, <1>5 DEF StreamInv, CarInv, Finishing
  <1>8. EndInv'
    BY <1>1, <1>2, <1>3, <1>5 DEF StreamInv, EndInv, cur
  <1> QED
    BY <1>6, <1>7, <1>8 DEF StreamInv

\* A carrier opened, or not.
LEMMA StreamOpen ==
    ASSUME StreamInv, openCarrier
    PROVE  StreamInv'
  <1>1. drain.at = "open" /\ UNCHANGED <<mode, close, writers, turned>>
    BY DEF openCarrier, endVars
  <1>2. drain \in DrainType /\ car \in CarType /\ car.cur = 0 /\ NewStream \in 1 .. 4
    BY <1>1, NewStreamType DEF StreamInv, CarInv
  <1>3. CASE Abandon /\ UNCHANGED carVars
    <2>1. drain' \in DrainType /\ drain'.at \in {"nap", "take"}
          /\ drain'.at = IF mode = "dvr" THEN "nap" ELSE "take"
      BY <1>2, <1>3, AbandonTo
    <2>2. UNCHANGED <<car, live>>
      BY <1>3 DEF carVars
    <2>3. StepsInv'
      BY <1>1, <2>1 DEF StreamInv, StepsInv
    <2>4. CarInv'
      BY <1>1, <2>1, <2>2 DEF StreamInv, CarInv, Finishing
    <2>5. LegInv'
      BY <1>1, <2>1, <2>2 DEF StreamInv, LegInv, LegAbandonsOldGop
    <2>6. EndInv'
      BY <1>1, <2>1, <2>2 DEF StreamInv, EndInv
    <2> QED
      BY <2>3, <2>4, <2>5, <2>6 DEF StreamInv
  <1>4. CASE /\ ~Closed
             /\ car' = [car EXCEPT !.cur = NewStream, !.hurry = 0]
             /\ live' = live \cup {NewStream}
             /\ drain' = [drain EXCEPT !.st = NewStream, !.prologue = TRUE,
                                       !.at = IF mode = "leg" THEN "begin" ELSE "write"]
    <2>1. /\ drain' \in DrainType /\ drain'.at = IF mode = "leg" THEN "begin" ELSE "write"
          /\ drain'.item = drain.item /\ drain'.tries = drain.tries
      <3>1. (IF mode = "leg" THEN "begin" ELSE "write") \in DrainSteps /\ NewStream \in 0 .. 4
        BY <1>2 DEF DrainSteps
      <3> QED
        BY <1>2, <1>4, <3>1 DEF DrainType
    <2>2. /\ car' \in CarType /\ car'.cur = NewStream /\ car'.finishing = car.finishing
          /\ car'.writing = car.writing /\ car'.kf = car.kf
      <3>1. NewStream \in 0 .. 4 /\ 0 \in 0 .. 4
        BY <1>2
      <3> QED
        BY <1>2, <1>4, <3>1 DEF CarType
    <2>3. StepsInv'
      BY <1>1, <2>1 DEF StreamInv, StepsInv
    <2>4. CarInv'
      BY <1>1, <1>2, <1>4, <2>1, <2>2 DEF StreamInv, CarInv, Finishing
    <2>5. LegInv'
      BY <1>1, <2>1, <2>2 DEF StreamInv, LegInv, LegAbandonsOldGop
    <2>6. EndInv'
      BY <1>1, <1>4, <2>1 DEF StreamInv, EndInv, Closed
    <2> QED
      BY <2>3, <2>4, <2>5, <2>6 DEF StreamInv
  <1> QED
    BY <1>3, <1>4 DEF openCarrier

\* A record written to a viewer, or its stream reset.
LEMMA StreamWrite ==
    ASSUME StreamInv, writeCarrier
    PROVE  StreamInv'
  <1>1. drain.at = "write" /\ mode # "leg" /\ UNCHANGED <<mode, close, writers, turned>>
    BY DEF writeCarrier, endVars, kfVars
  <1>2. drain \in DrainType /\ CarInv
    BY DEF StreamInv, CarInv
  <1>3. /\ drain' \in DrainType
        /\ drain'.at \in IF mode = "dvr" THEN {"top", "nap"} ELSE {"take"}
    <2>1. CASE Take /\ mode # "dvr"
      BY <1>2, <2>1, TakeTo
    <2>2. CASE Abandon
      BY <1>2, <2>2, AbandonTo
    <2>3. CASE mode = "dvr" /\ drain' = [Afresh(drain) EXCEPT !.at = "top"]
      <3>1. Afresh(drain) \in DrainType /\ "top" \in DrainSteps
        BY <1>2, AfreshType DEF DrainSteps
      <3> QED
        BY <2>3, <3>1 DEF DrainType
    <2> QED
      BY <2>1, <2>2, <2>3 DEF writeCarrier
  <1>4. /\ car' \in CarType /\ car'.finishing = car.finishing /\ live' \subseteq live
        /\ car'.writing => car.writing
        /\ car'.cur = car.cur \/ (car'.cur = 0 /\ car.cur \notin live')
    <2>1. CASE UNCHANGED carVars
      BY <1>2, <2>1 DEF carVars, CarInv
    <2>2. CASE ResetWritten
      BY <1>2, <2>2, ResetTo
    <2> QED
      BY <2>1, <2>2 DEF writeCarrier
  <1>5. StepsInv' /\ LegInv'
    BY <1>1, <1>3 DEF StepsInv, LegInv
  <1>6. CarInv'
    BY <1>1, <1>2, <1>3, <1>4 DEF CarInv, Finishing
  <1>7. EndInv'
    BY <1>1, <1>3, <1>4 DEF StreamInv, EndInv
  <1> QED
    BY <1>5, <1>6, <1>7 DEF StreamInv
\* A record taken by the drain of a leg.
LEMMA StreamTake ==
    ASSUME StreamInv, QueueInv, legTake
    PROVE  StreamInv'
  <1>1. /\ mode = "leg" /\ drain.at = "take" /\ queue # <<>>
        /\ UNCHANGED <<mode, close, writers, turned, car, live>>
    BY DEF legTake, Receive, Received, endVars, kfVars, carVars
  <1>2. CASE drain' = drain
    BY <1>1, <1>2, StreamFrame
  <1>3. CASE drain' = [drain EXCEPT !.at = "pass", !.item = Head(queue), !.tries = 2]
    <2>1. Head(queue) \in Items /\ 2 \in 0 .. 2 /\ "pass" \in DrainSteps
      BY <1>1, HeadTailProperties DEF QueueInv, DrainSteps
    <2>2. drain' \in DrainType /\ drain'.at = "pass" /\ drain'.tries = 2
      BY <1>3, <2>1 DEF StreamInv, CarInv, DrainType
    <2>3. StepsInv'
      BY <1>1, <2>2 DEF StepsInv
    <2>4. CarInv'
      BY <1>1, <2>2 DEF StreamInv, CarInv, Finishing
    <2>5. LegInv'
      BY <1>1, <2>2 DEF StreamInv, LegInv, LegAbandonsOldGop
    <2>6. EndInv'
      BY <1>1, <2>2 DEF StreamInv, EndInv
    <2> QED
      BY <2>3, <2>4, <2>5, <2>6 DEF StreamInv
  <1> QED
    BY <1>2, <1>3 DEF legTake

\* A rotation seen by the drain of a leg: the current carrier becomes the one that
\* finishes, and the one before is reset.
LEMMA StreamTurn ==
    ASSUME StreamInv, legTurn
    PROVE  StreamInv'
  <1>1. /\ drain.at = "pass" /\ UNCHANGED <<mode, close, writers>>
        /\ drain \in DrainType /\ car \in CarType
        /\ drain' = [drain EXCEPT !.dead = FALSE, !.st = car.cur,
                                  !.at = IF car.cur = 0 THEN "weigh" ELSE "finish"]
    BY DEF legTurn, endVars, kfVars, StreamInv, CarInv
  <1>2. mode = "leg" /\ drain.tries > 0 /\ ~car.writing
    BY <1>1 DEF StreamInv, StepsInv, LegInv
  <1>3. /\ drain' \in DrainType /\ drain'.at = IF car.cur = 0 THEN "weigh" ELSE "finish"
        /\ drain'.st = car.cur /\ drain'.tries = drain.tries
    <2>1. (IF car.cur = 0 THEN "weigh" ELSE "finish") \in DrainSteps /\ car.cur \in 0 .. 4
      BY <1>1 DEF DrainSteps, CarType
    <2> QED
      BY <1>1, <2>1 DEF DrainType
  <1>4. /\ car' \in CarType /\ car'.cur = 0 /\ car'.writing = car.writing
        /\ car'.finishing = IF car.cur = 0 THEN car.finishing ELSE 0
        /\ live' = IF car.cur = 0 THEN live ELSE live \ {car.finishing}
    <2>1. CASE car.cur = 0 /\ UNCHANGED carVars
      BY <1>1, <2>1 DEF carVars
    <2>2. CASE /\ car.cur # 0 /\ car' = [car EXCEPT !.cur = 0, !.finishing = 0]
               /\ live' = live \ {car.finishing}
      BY <1>1, <2>2, BothTo
    <2> QED
      BY <2>1, <2>2 DEF legTurn, legRetire
  <1>5. StepsInv'
    BY <1>1, <1>2, <1>3 DEF StepsInv
  <1>6. CarInv'
    BY <1>1, <1>2, <1>3, <1>4 DEF StreamInv, CarInv, Finishing
  <1>7. LegInv'
    BY <1>1, <1>2, <1>3, <1>4 DEF LegInv, LegAbandonsOldGop
  <1>8. EndInv'
    BY <1>1, <1>3, <1>4 DEF StreamInv, EndInv
  <1> QED
    BY <1>5, <1>6, <1>7, <1>8 DEF StreamInv

\* The carrier of the last GOP finished, or reset.
LEMMA StreamFinish ==
    ASSUME StreamInv, legFinish
    PROVE  StreamInv'
  <1>1. /\ drain.at = "finish" /\ UNCHANGED <<mode, close, writers, turned>>
        /\ drain \in DrainType /\ car \in CarType
    BY DEF legFinish, endVars, kfVars, StreamInv, CarInv
  <1>2. mode = "leg" /\ drain.tries > 0 /\ ~car.writing
    BY <1>1 DEF StreamInv, StepsInv, LegInv
  <1>3. drain' \in DrainType /\ drain'.at = "weigh" /\ drain'.tries = drain.tries
    BY <1>1, DrainTo DEF legFinish, DrainSteps
  <1>4. \/ live' = live \ {drain.st} /\ car' = car
        \/ ~Closed /\ car' = [car EXCEPT !.finishing = drain.st] /\ live' = live
    BY DEF legFinish
  <1>5. /\ car' \in CarType /\ car'.cur = car.cur /\ car'.writing = car.writing
        /\ \/ live' = live \ {drain.st} /\ car' = car
           \/ ~Closed /\ car'.finishing = drain.st /\ live' = live
    <2>1. drain.st \in 0 .. 4
      BY <1>1 DEF DrainType
    <2> QED
      BY <1>1, <1>4, <2>1 DEF CarType
  <1>6. StepsInv'
    BY <1>1, <1>2, <1>3 DEF StepsInv
  <1>7. CarInv'
    BY <1>1, <1>2, <1>3, <1>5 DEF StreamInv, CarInv, Finishing
  <1>8. LegInv'
    BY <1>1, <1>2, <1>3, <1>5 DEF LegInv, LegAbandonsOldGop
  <1>9. EndInv'
    BY <1>1, <1>3, <1>5 DEF StreamInv, EndInv, Closed
  <1> QED
    BY <1>6, <1>7, <1>8, <1>9 DEF StreamInv

\* The finished carrier reset after a while.
LEMMA StreamReset ==
    ASSUME StreamInv, legResetFinished
    PROVE  StreamInv'
  <1>1. /\ UNCHANGED <<mode, close, writers, turned, drain>> /\ car \in CarType
        /\ car.finishing # 0 /\ car' = [car EXCEPT !.finishing = 0]
        /\ live' = live \ {car.finishing}
    BY DEF legResetFinished, endVars, kfVars, StreamInv, CarInv
  <1>2. /\ car' \in CarType /\ car'.cur = car.cur /\ car'.finishing = 0
        /\ car'.writing = car.writing /\ car'.kf = car.kf /\ car'.hurry = car.hurry
    BY <1>1 DEF CarType
  <1>3. StepsInv'
    BY <1>1 DEF StreamInv, StepsInv
  <1>4. CarInv'
    BY <1>1, <1>2 DEF StreamInv, CarInv, Finishing
  <1>5. LegInv'
    BY <1>1, <1>2 DEF StreamInv, LegInv, LegAbandonsOldGop
  <1>6. EndInv'
    BY <1>1, <1>2 DEF StreamInv, EndInv
  <1> QED
    BY <1>3, <1>4, <1>5, <1>6 DEF StreamInv

\* A record dropped, or passed on to a carrier of its own GOP or a later one.
LEMMA StreamWeigh ==
    ASSUME StreamInv, legWeigh
    PROVE  StreamInv'
  <1>1. /\ drain.at \in {"weigh", "pass"} /\ UNCHANGED <<mode, close, writers, turned, car, live>>
        /\ drain \in DrainType /\ car \in CarType
    BY DEF legWeigh, endVars, kfVars, carVars, StreamInv, CarInv
  <1>2. mode = "leg" /\ drain.tries > 0 /\ ~car.writing
    BY <1>1 DEF StreamInv, StepsInv, LegInv
  <1>3. \/ Take
        \/ /\ ~legStale(drain.item)
           /\ drain' = [drain EXCEPT !.at = IF car.cur = 0 THEN "open" ELSE "begin", !.prologue = FALSE]
    BY DEF legWeigh
  <1>4. drain' \in DrainType
        /\ \/ drain'.at = "take"
           \/ /\ drain'.at = IF car.cur = 0 THEN "open" ELSE "begin"
              /\ drain'.item.gop >= car.kf /\ drain'.tries = drain.tries
    <2>1. CASE Take
      BY <1>1, <2>1, TakeTo
    <2>2. CASE ~Take
      <3>1. drain' \in DrainType /\ drain'.at = (IF car.cur = 0 THEN "open" ELSE "begin")
            /\ drain'.item = drain.item /\ drain'.tries = drain.tries
        <4>1. (IF car.cur = 0 THEN "open" ELSE "begin") \in DrainSteps
          BY DEF DrainSteps
        <4> QED
          BY <1>1, <1>3, <2>2, <4>1 DEF DrainType
      <3>2. drain.item.gop \in Nat /\ car.kf \in Nat
        BY <1>1, DeliveryAssumption DEF DrainType, CarType, Items, Media, Control, Seqs
      <3>3. drain.item.gop >= car.kf
        BY <1>3, <2>2, <3>2 DEF legStale
      <3> QED
        BY <3>1, <3>3
    <2> QED
      BY <2>1, <2>2
  <1>5. StepsInv'
    BY <1>1, <1>2, <1>4 DEF StepsInv
  <1>6. CarInv'
    BY <1>1, <1>2, <1>4 DEF StreamInv, CarInv, Finishing
  <1>7. LegInv'
    BY <1>1, <1>2, <1>4 DEF LegInv, LegAbandonsOldGop
  <1>8. EndInv'
    BY <1>1, <1>4 DEF StreamInv, EndInv
  <1> QED
    BY <1>5, <1>6, <1>7, <1>8 DEF StreamInv
\* A write to a leg begun, or its record tried again.
LEMMA StreamBegin ==
    ASSUME StreamInv, legBegin
    PROVE  StreamInv'
  <1>1. /\ drain.at = "begin" /\ UNCHANGED <<mode, close, writers, turned>>
        /\ drain \in DrainType /\ car \in CarType /\ CarInv
    BY DEF legBegin, endVars, kfVars, StreamInv, CarInv
  <1>2. mode = "leg" /\ drain.tries > 0 /\ ~car.writing
        /\ (~turned => drain.item.gop >= car.kf)
    BY <1>1 DEF StreamInv, StepsInv, LegInv
  <1>3. CASE (Abandon \/ Again) /\ (ResetWritten \/ UNCHANGED carVars)
    <2>1. /\ drain' \in DrainType
          /\ drain'.at = "take" \/ (drain'.at = "pass" /\ drain'.tries > 0)
      <3>1. CASE Abandon
        BY <1>1, <1>2, <3>1, AbandonTo
      <3>2. CASE Again
        BY <1>1, <1>2, <3>2, AgainTo
      <3> QED
        BY <1>3, <3>1, <3>2
    <2>2. /\ car' \in CarType /\ car'.finishing = car.finishing /\ live' \subseteq live
          /\ ~car'.writing
          /\ car'.cur = car.cur \/ (car'.cur = 0 /\ car.cur \notin live')
      <3>1. CASE ResetWritten
        BY <1>1, <3>1, ResetTo
      <3>2. CASE UNCHANGED carVars
        BY <1>1, <1>2, <3>2 DEF carVars
      <3> QED
        BY <1>3, <3>1, <3>2
    <2>3. StepsInv'
      BY <1>1, <1>2, <2>1 DEF StepsInv
    <2>4. CarInv'
      <3>1. live \subseteq 1 .. 4 /\ live \subseteq {car.cur, car.finishing}
        BY <1>1 DEF CarInv, Finishing
      <3>2. live' \subseteq {car'.cur, car'.finishing} /\ live' \subseteq 1 .. 4
        BY <2>2, <3>1
      <3> QED
        BY <1>1, <1>2, <2>1, <2>2, <3>2 DEF CarInv
    <2>5. LegInv'
      BY <1>1, <2>1, <2>2 DEF LegInv, LegAbandonsOldGop
    <2>6. EndInv'
      BY <1>1, <2>1, <2>2 DEF StreamInv, EndInv
    <2> QED
      BY <2>3, <2>4, <2>5, <2>6 DEF StreamInv
  <1>4. CASE /\ car' = [car EXCEPT !.writing = TRUE]
             /\ drain' = [drain EXCEPT !.at = "write", !.st = car.cur]
             /\ UNCHANGED live /\ ~turned
    <2>1. /\ car' \in CarType /\ car'.cur = car.cur /\ car'.finishing = car.finishing
          /\ car'.kf = car.kf
      BY <1>1, <1>4 DEF CarType
    <2>2. /\ drain' \in DrainType /\ drain'.at = "write" /\ drain'.st = car.cur
          /\ drain'.item = drain.item /\ drain'.tries = drain.tries
      <3>1. "write" \in DrainSteps /\ car.cur \in 0 .. 4
        BY <1>1 DEF DrainSteps, CarType
      <3> QED
        BY <1>1, <1>4, <3>1 DEF DrainType
    <2>3. drain.item.gop \in Nat /\ car.kf \in Nat
      BY <1>1, DeliveryAssumption DEF DrainType, CarType, Items, Media, Control, Seqs
    <2>4. StepsInv'
      BY <1>1, <1>2, <2>2 DEF StepsInv
    <2>5. CarInv'
      BY <1>1, <1>2, <1>4, <2>1, <2>2 DEF CarInv, Finishing
    <2>6. LegInv'
      BY <1>1, <1>2, <1>4, <2>1, <2>2, <2>3 DEF LegInv, LegAbandonsOldGop
    <2>7. EndInv'
      BY <1>1, <1>4, <2>1, <2>2 DEF StreamInv, EndInv
    <2> QED
      BY <2>4, <2>5, <2>6, <2>7 DEF StreamInv
  <1> QED
    BY <1>3, <1>4 DEF legBegin, Overtaken

\* A write to a leg ends.
LEMMA StreamLegWrite ==
    ASSUME StreamInv, legWrite
    PROVE  StreamInv'
  <1>1. /\ drain.at = "write" /\ mode = "leg" /\ UNCHANGED <<mode, close, writers, turned>>
        /\ drain \in DrainType /\ car \in CarType /\ CarInv
    BY DEF legWrite, endVars, kfVars, StreamInv, CarInv
  <1>2. drain.tries > 0 /\ (~turned => drain.item.gop >= car.kf)
    BY <1>1 DEF StreamInv, LegInv
  <1>3. /\ car' \in CarType /\ car'.finishing = car.finishing /\ live' \subseteq live
        /\ ~car'.writing /\ car'.kf = car.kf
        /\ car'.cur = car.cur \/ (car'.cur = 0 /\ car.cur \notin live')
    <2>1. CASE car' = [car EXCEPT !.writing = FALSE, !.hurry = 0] /\ UNCHANGED live
      <3>1. 0 \in 0 .. 4 /\ FALSE \in BOOLEAN
        OBVIOUS
      <3> QED
        BY <1>1, <2>1, <3>1 DEF CarType
    <2>2. CASE ResetWritten
      BY <1>1, <2>2, ResetTo
    <2> QED
      BY <2>1, <2>2 DEF legWrite
  <1>4. /\ drain' \in DrainType
        /\ \/ drain'.at = "take"
           \/ drain'.at = "pass" /\ drain'.tries > 0
           \/ drain'.at = "begin" /\ drain'.tries = drain.tries /\ drain'.item = drain.item
    <2>1. CASE Take
      BY <1>1, <2>1, TakeTo
    <2>2. CASE Abandon
      BY <1>1, <2>2, AbandonTo
    <2>3. CASE Again
      BY <1>1, <1>2, <2>3, AgainTo
    <2>4. CASE drain' = [drain EXCEPT !.at = "begin", !.prologue = FALSE]
      <3>1. "begin" \in DrainSteps /\ FALSE \in BOOLEAN
        BY DEF DrainSteps
      <3> QED
        BY <1>1, <2>4, <3>1 DEF DrainType
    <2> QED
      BY <2>1, <2>2, <2>3, <2>4 DEF legWrite
  <1>5. StepsInv'
    BY <1>1, <1>4 DEF StepsInv
  <1>6. CarInv'
    BY <1>1, <1>3, <1>4 DEF CarInv, Finishing
  <1>7. LegInv'
    BY <1>1, <1>2, <1>3, <1>4 DEF LegInv, LegAbandonsOldGop
  <1>8. EndInv'
    BY <1>1, <1>3, <1>4 DEF StreamInv, EndInv
  <1> QED
    BY <1>5, <1>6, <1>7, <1>8 DEF StreamInv

\* The drain of a queue ends.
LEMMA StreamEnds ==
    ASSUME StreamInv, drainEnds
    PROVE  StreamInv'
  <1>1. /\ drain.at = "take" /\ UNCHANGED <<mode, close, writers, turned>>
        /\ drain \in DrainType /\ car \in CarType
        /\ car' = [car EXCEPT !.cur = 0, !.finishing = 0]
        /\ live' = live \ {car.cur, car.finishing}
    BY DEF drainEnds, endVars, kfVars, StreamInv, CarInv
  <1>2. drain' \in DrainType /\ drain'.at = "done"
    BY <1>1, DrainTo DEF drainEnds, DrainSteps
  <1>3. car' \in CarType /\ car'.cur = 0 /\ car'.finishing = 0 /\ car'.writing = car.writing
    BY <1>1, BothTo
  <1>4. live' = {}
    BY <1>1 DEF StreamInv, CarInv, Finishing
  <1>5. StepsInv'
    BY <1>2 DEF StepsInv
  <1>6. CarInv'
    BY <1>1, <1>2, <1>3, <1>4 DEF StreamInv, CarInv
  <1>7. LegInv'
    BY <1>1, <1>2, <1>3, <1>4 DEF StreamInv, LegInv, LegAbandonsOldGop
  <1>8. EndInv'
    BY <1>1, <1>2, <1>3, <1>4 DEF StreamInv, EndInv
  <1> QED
    BY <1>5, <1>6, <1>7, <1>8 DEF StreamInv
\* A step of the DVR drain, which keeps its carrier or retires it.
LEMMA StreamDVR ==
    ASSUME StreamInv, mode = "dvr", UNCHANGED <<mode, close, writers, turned>>,
           drain.at # "done", drain' \in DrainType,
           drain'.at \notin {"take", "pass", "finish", "weigh", "begin"},
           drain'.at = "open" => car.cur = 0,
           retireCarrier \/ (UNCHANGED carVars /\ drain'.at # "done")
    PROVE  StreamInv'
  <1>1. CarInv /\ car \in CarType
    BY DEF StreamInv, CarInv
  <1>2. /\ car' \in CarType /\ car'.finishing = car.finishing /\ live' \subseteq live
        /\ car'.writing => car.writing
        /\ car'.cur = car.cur \/ (car'.cur = 0 /\ car.cur \notin live')
        /\ drain'.at = "done" => car.cur \notin live'
        /\ drain'.at = "open" => car'.cur = 0
    <2>1. CASE retireCarrier
      BY <1>1, <2>1, RetireTo
    <2>2. CASE UNCHANGED carVars /\ drain'.at # "done"
      BY <1>1, <2>2 DEF carVars
    <2> QED
      BY <2>1, <2>2
  <1>3. live \subseteq {car.cur} \ {0} /\ car.finishing = 0
    <2>1. car.finishing = 0 /\ live \subseteq {car.cur, car.finishing} /\ live \subseteq 1 .. 4
      BY <1>1 DEF CarInv, Finishing
    <2> QED
      BY <2>1
  <1>4. StepsInv' /\ LegInv'
    BY DEF StepsInv, LegInv
  <1>5. CarInv'
    <2>1. live' \subseteq {car'.cur} /\ live' \subseteq 1 .. 4
      BY <1>1, <1>2, <1>3 DEF CarInv
    <2> QED
      BY <1>1, <1>2, <1>3, <2>1 DEF CarInv
  <1>6. EndInv'
    BY <1>2, <1>3 DEF StreamInv, EndInv
  <1> QED
    BY <1>4, <1>5, <1>6 DEF StreamInv

\* Each step of the DVR drain is one.
LEMMA StreamDVRDrain ==
    ASSUME StreamInv, DVRDrain
    PROVE  StreamInv'
  <1> DEFINE Rest == UNCHANGED <<mode, close, writers, turned>>
             Steps == {"top", "look", "resync", "read", "probe", "keyframe", "ended", "next", "idle",
                       "throttled", "nap"}
  <1>1. drain \in DrainType /\ car \in CarType /\ Steps \subseteq DrainSteps /\ "done" \in DrainSteps
    BY DEF StreamInv, CarInv, DrainSteps
  <1>2. ASSUME drain.at \in Steps PROVE mode = "dvr" /\ drain.at # "done"
    BY <1>2 DEF StreamInv, StepsInv
  <1>3. ASSUME drain.at \in Steps, Rest, NEW x \in Steps, Drain(x), UNCHANGED carVars
        PROVE  StreamInv'
    BY <1>1, <1>2, <1>3, DrainTo, StreamDVR
  <1>4. ASSUME drain.at \in Steps, Rest, NEW x \in Steps \cup {"done"}, Drain(x), retireCarrier
        PROVE  StreamInv'
    BY <1>1, <1>2, <1>4, DrainTo, StreamDVR
  <1>5. CASE dvrTop
    <2>1. Rest /\ drain.at \in Steps
      BY <1>5 DEF dvrTop
    <2> QED
      BY <1>3, <1>4, <1>5, <2>1 DEF dvrTop, dvrReturn
  <1>6. CASE dvrFellBehind \/ dvrSendKeyframe \/ dvrProbe \/ dvrWriteKeyframe \/ dvrEnded
    <2>1. Rest /\ drain.at \in Steps /\ UNCHANGED carVars
      BY <1>6 DEF dvrFellBehind, dvrSendKeyframe, dvrProbe, dvrWriteKeyframe, dvrEnded, endVars, kfVars
    <2>2. \E x \in Steps : Drain(x)
      BY <1>6 DEF dvrFellBehind, dvrSendKeyframe, dvrProbe, dvrWriteKeyframe, dvrEnded, Sleep
    <2> QED
      BY <1>3, <2>1, <2>2
  <1>7. CASE dvrResync \/ dvrAdvance
    <2>1. Rest /\ drain.at \in Steps /\ Drain("top") /\ retireCarrier
      BY <1>7 DEF dvrResync, dvrAdvance, endVars, kfVars
    <2> QED
      BY <1>4, <2>1
  <1>8. CASE dvrAwake
    <2>1. Rest /\ drain.at \in Steps
      BY <1>8 DEF dvrAwake, endVars, kfVars
    <2> QED
      BY <1>3, <1>4, <1>8, <2>1 DEF dvrAwake, dvrReturn
  <1>9. CASE dvrRecord
    <2>1. Rest /\ drain.at \in Steps /\ UNCHANGED carVars
      BY <1>9 DEF dvrRecord, endVars, kfVars
    <2>2. CASE \E x \in Steps : Drain(x)
      BY <1>3, <2>1, <2>2
    <2>3. CASE drain' = [drain EXCEPT !.at = IF car.cur = 0 THEN "open" ELSE "write", !.st = car.cur]
      <3>1. (IF car.cur = 0 THEN "open" ELSE "write") \in DrainSteps /\ car.cur \in 0 .. 4
        BY <1>1 DEF DrainSteps, CarType
      <3>2. drain' \in DrainType /\ drain'.at = IF car.cur = 0 THEN "open" ELSE "write"
        BY <1>1, <2>3, <3>1 DEF DrainType
      <3> QED
        BY <1>2, <2>1, <3>2, StreamDVR
    <2> QED
      BY <1>9, <2>2, <2>3 DEF dvrRecord
  <1> QED
    BY <1>5, <1>6, <1>7, <1>8, <1>9 DEF DVRDrain

\* A keyframe handed to the subscriber turns its carriers.
LEMMA StreamSend ==
    ASSUME StreamInv, KfInv, NEW seq \in handoff, sendKeyframe(seq)
    PROVE  StreamInv'
  <1>1. UNCHANGED <<mode, close, drain, live>> /\ car \in CarType /\ drain \in DrainType
    BY DEF sendKeyframe, StreamInv, CarInv
  <1>2. CASE UNCHANGED <<kfVars, turned, car>>
    BY <1>1, <1>2, StreamFrame DEF kfVars
  <1>3. CASE ~Closed /\ Rotate(seq)
    <2>1. car' = car \/ (mode = "leg" /\ turned' /\ car' = [car EXCEPT !.kf = seq,
                                           !.hurry = IF car.writing THEN car.cur ELSE @])
      BY <1>3 DEF Rotate
    <2>2. /\ car' \in CarType /\ car'.cur = car.cur /\ car'.finishing = car.finishing
          /\ car'.writing = car.writing
          /\ mode = "leg" => turned' /\ (car.writing => car'.hurry = car.cur)
      <3>1. CASE mode = "leg" /\ turned' /\ car' = [car EXCEPT !.kf = seq,
                                           !.hurry = IF car.writing THEN car.cur ELSE @]
        <4>1. seq \in Seqs /\ (IF car.writing THEN car.cur ELSE car.hurry) \in 0 .. 4
          BY <1>1, DeliveryAssumption DEF KfInv, Seqs, CarType
        <4> QED
          BY <1>1, <3>1, <4>1 DEF CarType
      <3>2. CASE mode # "leg" /\ car' = car
        BY <1>1, <3>2
      <3> QED
        BY <1>3, <3>1, <3>2 DEF Rotate
    <2>3. StepsInv'
      BY <1>1 DEF StreamInv, StepsInv
    <2>4. CarInv'
      BY <1>1, <2>2 DEF StreamInv, CarInv, Finishing
    <2>5. LegInv'
      BY <1>1, <2>2 DEF StreamInv, LegInv, LegAbandonsOldGop
    <2>6. EndInv'
      BY <1>1, <1>3, <2>2 DEF StreamInv, EndInv, Closed
    <2> QED
      BY <2>3, <2>4, <2>5, <2>6 DEF StreamInv
  <1> QED
    BY <1>2, <1>3 DEF sendKeyframe, MayHand

\* A writer returns, or is done: while there is one, Close waits for it.
LEMMA StreamWriters ==
    ASSUME StreamInv, Writing
    PROVE  StreamInv'
  <1>1. UNCHANGED <<mode, close, turned, drain, car, live>>
    BY DEF Writing, writeKeyframe, judgeWrite, endVars, carVars
  <1>2. writers # {}
    BY DEF Writing
  <1>3. EndInv'
    BY <1>1, <1>2 DEF StreamInv, EndInv
  <1> QED
    BY <1>1, <1>3 DEF StreamInv, StepsInv, CarInv, Finishing, LegInv, LegAbandonsOldGop

\* Close waits for the writers and resets the carriers, and then waits for the drain.
LEMMA StreamClosing ==
    ASSUME StreamInv, Closing \/ Close
    PROVE  StreamInv'
  <1>1. UNCHANGED <<mode, turned, drain>> /\ car \in CarType /\ drain \in DrainType
    BY DEF Closing, Close, CloseKeyframe, CloseCarriers, CloseReturned, StreamInv, CarInv
  <1>2. StepsInv'
    BY <1>1 DEF StreamInv, StepsInv
  <1>3. CASE CloseCarriers
    <2>1. /\ close' = "drain" /\ writers' = {} /\ close = "wait" /\ live' = live \ {car.cur, car.finishing}
          /\ car' = [car EXCEPT !.cur = 0, !.finishing = 0]
      BY <1>3 DEF CloseCarriers, kfVars
    <2>2. /\ car' \in CarType /\ car'.cur = 0 /\ car'.finishing = 0
          /\ car'.writing = car.writing /\ car'.kf = car.kf /\ car'.hurry = car.hurry
      BY <1>1, <2>1, BothTo
    <2>3. CarInv'
      BY <1>1, <2>1, <2>2 DEF StreamInv, CarInv, Finishing
    <2>4. LegInv'
      BY <1>1, <2>1, <2>2 DEF StreamInv, LegInv, LegAbandonsOldGop
    <2>5. EndInv'
      BY <1>1, <2>1, <2>2 DEF StreamInv, EndInv
    <2> QED
      BY <1>2, <2>3, <2>4, <2>5 DEF StreamInv
  <1>4. CASE Close \/ CloseKeyframe \/ CloseReturned
    <2>1. UNCHANGED <<car, live>>
      BY <1>4 DEF Close, CloseKeyframe, CloseReturned, carVars
    <2>2. EndInv'
      BY <1>1, <1>4, <2>1 DEF StreamInv, EndInv, Close, CloseKeyframe, CloseReturned, kfVars
    <2> QED
      BY <1>1, <1>2, <2>1, <2>2 DEF StreamInv, CarInv, Finishing, LegInv, LegAbandonsOldGop
  <1> QED
    BY <1>3, <1>4 DEF Closing

\* Carriers, the drain and Close, whatever step is taken.
LEMMA StreamMove ==
    ASSUME StreamInv, KfInv, QueueInv, [Next]_vars
    PROVE  StreamInv'
  <1> DEFINE Rest == UNCHANGED <<mode, close, writers, turned, drain, car, live>>
  <1>1. ASSUME Publishing \/ purgeQueuedDeltasLocked \/ dvrStalls \/ SessionEnds \/ closeUnresponsive
        PROVE  Rest
    BY <1>1 DEF Publishing, onKeyframe, fanOutLocked, purgeQueuedDeltasLocked, dvrStalls, SessionEnds,
      closeUnresponsive, endVars, kfVars, carVars
  <1>2. ASSUME drainDatagrams \/ drainControlSideband PROVE Rest
    BY <1>2 DEF drainDatagrams, drainControlSideband, Receive, endVars, kfVars, carVars
  <1>3. ASSUME QueueDrain PROVE StreamInv'
    BY <1>2, <1>3, StreamFrame, StreamReliable, StreamOpen, StreamWrite, StreamEnds, StreamTake,
      StreamTurn, StreamFinish, StreamWeigh, StreamBegin DEF QueueDrain
  <1>4. CASE Next
    BY <1>1, <1>2, <1>3, <1>4, StreamFrame, StreamSend, StreamWriters, StreamLegWrite, StreamReset,
      StreamDVRDrain, StreamClosing DEF Next
  <1>5. CASE UNCHANGED vars
    BY <1>5, StreamFrame DEF vars, endVars, kfVars, carVars
  <1> QED
    BY <1>4, <1>5
--------------------------------------------------------------------------------
(* The ring and the cursor *)

\* A sequence over a set is one over any larger set.
LEMMA SeqGrows ==
    ASSUME NEW A, NEW B, A \subseteq B, NEW s \in Seq(A)
    PROVE  s \in Seq(B)
  <1>1. Len(s) \in Nat /\ \A i \in 1 .. Len(s) : s[i] \in B
    BY LenProperties
  <1>2. SubSeq(s, 1, Len(s)) \in Seq(B)
    BY <1>1, SubSeqProperties
  <1> QED
    BY <1>2, SubSeqFull

\* An eviction takes away GOPs from the front, and leaves the newest.
LEMMA EvictionsType ==
    ASSUME NEW A, NEW r \in [first : Nat \ {0}, recs : Seq(A)], r.recs # <<>>, NEW e \in Evictions(r)
    PROVE  /\ e \in [first : Nat \ {0}, recs : Seq(A)] /\ e.recs # <<>>
           /\ e.first + Len(e.recs) = r.first + Len(r.recs)
  <1>1. r.recs \in Seq(A) /\ Len(r.recs) \in Nat \ {0} /\ r.first \in Nat \ {0}
    BY EmptySeq
  <1>2. PICK k \in 0 .. Len(r.recs) - 1 :
          e = [first |-> r.first + k, recs |-> SubSeq(r.recs, k + 1, Len(r.recs))]
    BY DEF Evictions
  <1> DEFINE s == SubSeq(r.recs, k + 1, Len(r.recs))
  <1>3. s \in Seq(A) /\ Len(s) = Len(r.recs) - k
    <2>1. k + 1 \in Int /\ Len(r.recs) \in Int /\ k + 1 <= Len(r.recs)
          /\ Len(r.recs) - (k + 1) + 1 = Len(r.recs) - k
      BY <1>1
    <2>2. \A i \in k + 1 .. Len(r.recs) : r.recs[i] \in A
      BY <1>1, LenProperties
    <2> QED
      BY <2>1, <2>2, SubSeqProperties
  <1> HIDE DEF s
  <1>4. e.first = r.first + k /\ e.recs = s /\ e = [first |-> r.first + k, recs |-> s]
    BY <1>2 DEF s
  <1>5. s # <<>>
    BY <1>1, <1>3, EmptySeq
  <1>6. r.first + k \in Nat \ {0}
    BY <1>1
  <1>7. e \in [first : Nat \ {0}, recs : Seq(A)]
    BY <1>3, <1>4, <1>6
  <1>8. e.first + Len(e.recs) = r.first + Len(r.recs)
    <2>1. e.first + Len(e.recs) = (r.first + k) + (Len(r.recs) - k)
      BY <1>3, <1>4
    <2> QED
      BY <1>1, <2>1
  <1> QED
    BY <1>4, <1>5, <1>7, <1>8

\* The cursor of an empty ring, and of one that is not.
LEMMA RingLength ==
    ASSUME RingData
    PROVE  /\ Len(ring.recs) \in Nat /\ ring.first \in Nat \ {0} /\ (ring.recs # <<>> => Len(ring.recs) > 0)
           /\ Newest \in Int /\ cursor.gop \in Nat \ {0} /\ cursor.idx \in 0 .. MaxDatagrams + 1
           /\ ring.recs = <<>> => cursor.gop = 1 /\ cursor.idx = 0
           /\ ring.recs # <<>> => Newest \in Nat \ {0} /\ ring.first <= Newest
  <1>1. ring.recs \in Seq(0 .. fan.sent) /\ ring.first \in Nat \ {0}
    BY DEF RingData
  <1>2. Len(ring.recs) \in Nat /\ (ring.recs # <<>> => Len(ring.recs) > 0)
    BY <1>1, EmptySeq, LenProperties
  <1>3. cursor.gop \in Nat \ {0} /\ cursor.idx \in 0 .. MaxDatagrams + 1
    BY DEF RingData
  <1>4. ring.recs = <<>> => cursor.gop = 1 /\ cursor.idx = 0
    BY DEF RingData, At
  <1> QED
    BY <1>1, <1>2, <1>3, <1>4 DEF Newest

\* An append to the ring, of a GOP or of a record of the newest.
LEMMA Appended ==
    ASSUME RingInv, KfInv, mode = "dvr", UNCHANGED <<mode, cursor, drain>>, wake',
           ring' \in [first : Nat \ {0}, recs : Seq(0 .. fan'.sent)], ring'.recs # <<>>,
           ring'.first + Len(ring'.recs) = fan'.kf + 1,
           fan'.kf = fan.kf \/ fan'.kf = fan.kf + 1,
           ring.recs = <<>> => fan'.kf = fan.kf + 1
    PROVE  RingInv'
  <1>1. fan.kf \in Nat /\ ring.first + Len(ring.recs) = fan.kf + 1
    BY DeliveryAssumption DEF RingInv, RingData, KfInv, Seqs
  <1>2. Len(ring'.recs) \in Nat /\ Len(ring.recs) \in Nat /\ ring.first \in Nat \ {0}
        /\ (ring.recs = <<>> => ring.first = 1 /\ Len(ring.recs) = 0)
    BY RingLength, LenProperties, EmptySeq DEF RingInv, RingData
  <1>3. Newest' = fan'.kf /\ Newest = fan.kf /\ fan'.kf \in Nat
    <2>1. ring'.first \in Nat \ {0} /\ fan'.kf \in Nat
      BY <1>1
    <2>2. Newest = fan.kf
      BY <1>1, <1>2 DEF Newest
    <2>3. Newest' = fan'.kf
      BY <1>2, <2>1 DEF Newest
    <2> QED
      BY <2>1, <2>2, <2>3
  <1>4. cursor.gop <= Newest' /\ cursor.gop \in Nat /\ (ring.recs # <<>> => cursor.gop <= Newest)
    <2>1. CASE ring.recs = <<>>
      <3>1. cursor.gop = 1 /\ fan.kf = 0
        BY <1>1, <1>2, <2>1, RingLength DEF RingInv
      <3> QED
        BY <1>1, <1>3, <2>1, <3>1
    <2>2. CASE ring.recs # <<>>
      BY <1>1, <1>3, <2>2, RingLength DEF RingInv, RingData
    <2> QED
      BY <2>1, <2>2
  <1>5. RingData'
    BY <1>4 DEF RingInv, RingData
  <1>6. drain.at = "next" => cursor.gop < Newest'
    BY <1>1, <1>3, <1>4 DEF RingInv, RingSteps
  <1>7. RingSteps'
    BY <1>6 DEF RingInv, RingSteps, NoLostWakeup
  <1> QED
    BY <1>5, <1>7 DEF RingInv

\* A viewer that reads the queue has an empty ring.
LEMMA RingUnused ==
    ASSUME RingInv, KfInv, KfInv', mode # "dvr", UNCHANGED <<mode, ring, cursor>>, fan.sent <= fan'.sent, StepsInv'
    PROVE  RingInv'
  <1>1. fan.sent \in Nat /\ fan'.sent \in Nat
    BY DeliveryAssumption DEF KfInv
  <1>2. ring.recs \in Seq(0 .. fan'.sent)
    BY <1>1, SeqGrows DEF RingInv, RingData
  <1>3. ring \in [first : Nat \ {0}, recs : Seq(0 .. fan'.sent)]
    BY <1>2 DEF RingInv, RingData
  <1>4. RingData'
    BY <1>3 DEF RingInv, RingData, Newest
  <1>5. RingSteps'
    BY DEF StepsInv, RingSteps, NoLostWakeup
  <1> QED
    BY <1>4, <1>5 DEF RingInv
\* The publisher.
LEMMA RingPublish ==
    ASSUME RingInv, KfInv, KfInv', StreamInv', Publishing
    PROVE  RingInv'
  <1>1. UNCHANGED <<mode, cursor, drain>> /\ fan.sent \in Nat /\ fan.kf \in Nat
    BY DeliveryAssumption DEF Publishing, onKeyframe, fanOutLocked, dvrVars, KfInv, Seqs
  <1>2. \/ \E d \in {Control} \cup {Media(g) : g \in Gops} : fanOutLocked(d)
        \/ onKeyframe
    BY DEF Publishing
  <1>3. fan.sent <= fan'.sent
    BY <1>1, <1>2 DEF fanOutLocked, onKeyframe, KfInv
  <1>4. CASE mode # "dvr"
    <2>1. UNCHANGED ring
      BY <1>2, <1>4 DEF fanOutLocked, onKeyframe, dvrVars
    <2> QED
      BY <1>1, <1>3, <1>4, <2>1, RingUnused DEF StreamInv
  <1>5. CASE mode = "dvr"
    <2>1. ring \in [first : Nat \ {0}, recs : Seq(0 .. fan.sent)] /\ ring.first + Len(ring.recs) = fan.kf + 1
          /\ Len(ring.recs) \in Nat
      BY <1>5, RingLength DEF RingInv, RingData
    <2>2. CASE onKeyframe
      <3> DEFINE s == Append(ring.recs, 0)
                 r == [ring EXCEPT !.recs = s]
      <3>1. ring' \in Evictions(r) /\ wake' /\ fan'.kf = fan.kf + 1 /\ fan'.sent = fan.sent
        BY <1>5, <2>2 DEF onKeyframe, AppendKeyframe, KfInv
      <3>2. s \in Seq(0 .. fan.sent) /\ s # <<>> /\ Len(s) = Len(ring.recs) + 1
        BY <1>1, <2>1, AppendProperties
      <3> HIDE DEF s
      <3>3. r \in [first : Nat \ {0}, recs : Seq(0 .. fan.sent)] /\ r.recs # <<>>
            /\ r.first + Len(r.recs) = fan.kf + 1 + 1
        <4>1. r \in [first : Nat \ {0}, recs : Seq(0 .. fan.sent)] /\ r.recs = s /\ r.first = ring.first
          BY <2>1, <3>2
        <4>2. ring.first \in Nat
          BY <2>1
        <4> HIDE DEF r
        <4> QED
          BY <1>1, <2>1, <3>2, <4>1, <4>2
      <3> HIDE DEF r
      <3>4. ring' \in [first : Nat \ {0}, recs : Seq(0 .. fan.sent)] /\ ring'.recs # <<>>
            /\ ring'.first + Len(ring'.recs) = r.first + Len(r.recs)
        BY <3>1, <3>3, EvictionsType
      <3> QED
        BY <1>1, <1>5, <3>1, <3>3, <3>4, Appended
    <2>3. CASE \E d \in {Control} \cup {Media(g) : g \in Gops} : fanOutLocked(d)
      <3>1. fan'.sent = fan.sent + 1 /\ fan'.kf = fan.kf /\ (AppendRecord \/ UNCHANGED <<ring, wake>>)
        BY <1>5, <2>3 DEF fanOutLocked, KfInv, dvrVars
      <3>2. ring.recs \in Seq(0 .. fan'.sent)
        BY <1>1, <2>1, <3>1, SeqGrows
      <3>3. CASE UNCHANGED <<ring, wake>>
        <4>1. ring' \in [first : Nat \ {0}, recs : Seq(0 .. fan'.sent)]
          BY <2>1, <3>2, <3>3
        <4>2. RingData'
          BY <1>1, <2>1, <3>1, <3>3, <4>1 DEF RingInv, RingData, Newest
        <4>3. RingSteps'
          BY <1>1, <3>3 DEF RingInv, RingSteps, NoLostWakeup, Newest, Retained, Records, FellOffTail
        <4> QED
          BY <4>2, <4>3 DEF RingInv
      <3>4. CASE ring.recs # <<>> /\ AppendRecord
        <4> DEFINE n == Len(ring.recs)
                   s == [ring.recs EXCEPT ![n] = @ + 1]
                   r == [ring EXCEPT !.recs = s]
        <4>1. ring' \in Evictions(r) /\ wake'
          BY <3>1, <3>4 DEF AppendRecord
        <4>2. n \in 1 .. Len(ring.recs) /\ ring.recs[n] + 1 \in 0 .. fan'.sent
          <5>1. n \in 1 .. Len(ring.recs)
            BY <2>1, <3>4, EmptySeq
          <5>2. ring.recs[n] \in 0 .. fan.sent
            BY <2>1, <5>1, LenProperties
          <5> QED
            BY <1>1, <3>1, <5>1, <5>2
        <4>3. s \in Seq(0 .. fan'.sent) /\ Len(s) = Len(ring.recs)
          BY <3>2, <4>2, ExceptSeq
        <4>4. s # <<>>
          BY <4>2, <4>3, EmptySeq
        <4> HIDE DEF s
        <4>5. r \in [first : Nat \ {0}, recs : Seq(0 .. fan'.sent)] /\ r.recs # <<>>
              /\ r.first + Len(r.recs) = fan.kf + 1
          BY <2>1, <4>3, <4>4
        <4> HIDE DEF r
        <4>6. ring' \in [first : Nat \ {0}, recs : Seq(0 .. fan'.sent)] /\ ring'.recs # <<>>
              /\ ring'.first + Len(ring'.recs) = r.first + Len(r.recs)
          BY <4>1, <4>5, EvictionsType
        <4> QED
          BY <1>1, <1>5, <3>1, <3>4, <4>1, <4>5, <4>6, Appended
      <3> QED
        BY <3>1, <3>3, <3>4 DEF AppendRecord
    <2> QED
      BY <1>2, <2>2, <2>3
  <1> QED
    BY <1>4, <1>5
\* The number of records of a GOP of the ring.
LEMMA RecordsType ==
    ASSUME RingInv, KfInv, NEW g \in Int, Retained(g)
    PROVE  Records(g) \in 0 .. MaxDatagrams /\ ring.recs # <<>>
  <1>1. /\ ring.recs \in Seq(0 .. fan.sent) /\ ring.first \in Nat \ {0} /\ Len(ring.recs) \in Nat
        /\ fan.sent \in 0 .. MaxDatagrams /\ MaxDatagrams \in Nat
    BY RingLength, DeliveryAssumption DEF RingInv, RingData, KfInv
  <1>2. g - ring.first + 1 \in 1 .. Len(ring.recs)
    BY <1>1 DEF Retained
  <1>3. ring.recs[g - ring.first + 1] \in 0 .. fan.sent
    BY <1>1, <1>2, LenProperties
  <1>4. ring.recs # <<>>
    BY <1>1, <1>2, EmptySeq
  <1> QED
    BY <1>1, <1>3, <1>4 DEF Records

\* The cursor moves within the ring.
LEMMA CursorMoved ==
    ASSUME RingData, UNCHANGED <<mode, ring, fan>>, ring.recs # <<>>,
           NEW g \in Nat \ {0}, NEW n \in 0 .. MaxDatagrams + 1, g <= Newest, cursor' = At(g, n)
    PROVE  RingData'
  <1>1. cursor' \in [gop : Nat \ {0}, idx : 0 .. MaxDatagrams + 1] /\ cursor'.gop = g
    BY DEF At
  <1> QED
    BY <1>1 DEF RingData, Newest

\* Where the cursor does not move either.
LEMMA CursorStays ==
    ASSUME RingData, UNCHANGED <<mode, ring, fan, cursor>>
    PROVE  RingData'
  BY DEF RingData, Newest

\* Steps of which nothing is said.
LEMMA RingQuiet ==
    ASSUME drain'.at \notin {"resync", "next", "keyframe", "ended", "probe", "read", "idle"},
           mode' # "dvr" \/ drain'.at \notin {"open", "write"}
    PROVE  RingSteps'
  BY DEF RingSteps, NoLostWakeup

\* The DVR drain looks where it stands.
LEMMA RingLook ==
    ASSUME RingInv, KfInv, StreamInv, mode = "dvr", dvrFellBehind \/ dvrResync
    PROVE  RingInv'
  <1>1. UNCHANGED <<mode, ring, fan>> /\ drain \in DrainType /\ RingData
    BY DEF dvrFellBehind, dvrResync, dvrVars, fanVars, RingInv, StreamInv, CarInv
  <1>2. CASE dvrFellBehind
    <2>1. UNCHANGED <<cursor, wake>> /\ \/ (FellOffTail \/ MayLag) /\ Drain("resync")
                                        \/ ~FellOffTail /\ Drain("read")
      BY <1>2 DEF dvrFellBehind, dvrVars
    <2>2. \/ (FellOffTail \/ MayLag) /\ drain'.at = "resync"
          \/ ~FellOffTail /\ drain'.at = "read"
      BY <1>1, <2>1, DrainTo DEF DrainSteps
    <2>3. FellOffTail \/ MayLag => ring.recs # <<>>
      <3>1. cursor.gop \in Int
        BY <1>1, RingLength
      <3> QED
        BY <1>1, <3>1, RecordsType DEF FellOffTail, MayLag
    <2>4. RingSteps'
      BY <1>1, <2>1, <2>2, <2>3 DEF RingSteps, NoLostWakeup, FellOffTail
    <2> QED
      BY <1>1, <2>1, <2>4, CursorStays DEF RingInv
  <1>3. CASE dvrResync
    <2>1. ring.recs # <<>> /\ cursor' = At(Newest, 0) /\ Drain("top")
      BY <1>3 DEF dvrResync, RingInv, RingSteps
    <2>2. RingData'
      BY <1>1, <2>1, RingLength, CursorMoved, DeliveryAssumption
    <2>3. drain'.at = "top"
      BY <1>1, <2>1, DrainTo DEF DrainSteps
    <2> QED
      BY <2>2, <2>3, RingQuiet DEF RingInv
  <1> QED
    BY <1>2, <1>3

\* The DVR drain sends a keyframe, or finds that there is none.
LEMMA RingKeyframe ==
    ASSUME RingInv, KfInv, StreamInv, mode = "dvr", dvrSendKeyframe \/ dvrProbe \/ dvrWriteKeyframe
    PROVE  RingInv'
  <1>1. UNCHANGED <<mode, ring, fan, wake>> /\ drain \in DrainType /\ RingData
        /\ 1 \in 0 .. MaxDatagrams + 1 /\ cursor.gop \in Nat \ {0}
    BY RingLength, DeliveryAssumption DEF dvrSendKeyframe, dvrProbe, dvrWriteKeyframe, dvrVars, fanVars,
      RingInv, StreamInv, CarInv
  <1>2. CASE dvrSendKeyframe
    <2>1. CASE UNCHANGED cursor /\ Drain("probe")
      <3>1. drain'.at = "probe" /\ cursor'.idx = 0
        BY <1>1, <1>2, <2>1, DrainTo DEF DrainSteps, dvrSendKeyframe
      <3>2. RingSteps'
        BY <3>1 DEF RingSteps, NoLostWakeup
      <3> QED
        BY <1>1, <2>1, <3>2, CursorStays DEF RingInv
    <2>2. CASE Retained(cursor.gop) /\ UNCHANGED cursor /\ Drain("keyframe")
      <3>1. drain'.at = "keyframe" /\ cursor'.idx = 0 /\ ring'.recs # <<>>
        BY <1>1, <1>2, <2>2, DrainTo, RecordsType DEF DrainSteps, dvrSendKeyframe
      <3>2. RingSteps'
        BY <3>1 DEF RingSteps, NoLostWakeup
      <3> QED
        BY <1>1, <2>2, <3>2, CursorStays DEF RingInv
    <2>3. CASE Retained(cursor.gop) /\ cursor' = At(cursor.gop, 1) /\ Drain("top")
      <3>1. drain'.at = "top" /\ ring.recs # <<>>
        BY <1>1, <2>3, DrainTo, RecordsType DEF DrainSteps
      <3>2. cursor.gop <= Newest
        BY <1>1, <3>1 DEF RingData
      <3>3. RingData'
        BY <1>1, <2>3, <3>1, <3>2, CursorMoved
      <3> QED
        BY <3>1, <3>3, RingQuiet DEF RingInv
    <2> QED
      BY <1>2, <2>1, <2>2, <2>3 DEF dvrSendKeyframe
  <1>3. CASE dvrProbe
    <2>1. /\ UNCHANGED <<cursor, wake>> /\ cursor.idx = 0
          /\ Drain(IF Retained(cursor.gop) THEN "throttled" ELSE "idle")
      BY <1>3 DEF dvrProbe, dvrVars, RingInv, RingSteps
    <2>2. drain'.at = IF Retained(cursor.gop) THEN "throttled" ELSE "idle"
      BY <1>1, <2>1, DrainTo DEF DrainSteps
    <2>3. RingSteps'
      BY <1>1, <2>1, <2>2 DEF RingSteps, NoLostWakeup, Retained
    <2> QED
      BY <1>1, <2>1, <2>3, CursorStays DEF RingInv
  <1>4. CASE dvrWriteKeyframe
    <2>1. ring.recs # <<>> /\ cursor' = At(cursor.gop, 1) /\ Drain("top")
      BY <1>4 DEF dvrWriteKeyframe, RingInv, RingSteps
    <2>2. cursor.gop <= Newest
      BY <1>1, <2>1 DEF RingData
    <2>3. RingData'
      BY <1>1, <2>1, <2>2, CursorMoved
    <2>4. drain'.at = "top"
      BY <1>1, <2>1, DrainTo DEF DrainSteps
    <2> QED
      BY <2>3, <2>4, RingQuiet DEF RingInv
  <1> QED
    BY <1>2, <1>3, <1>4
\* The DVR drain reads a record, or finds none.
LEMMA RingRecord ==
    ASSUME RingInv, KfInv, StreamInv, mode = "dvr", dvrRecord
    PROVE  RingInv'
  <1>1. UNCHANGED <<mode, ring, fan, wake>> /\ drain \in DrainType /\ car \in CarType /\ RingData
        /\ drain.at = "read" /\ cursor.idx > 0 /\ cursor.gop \in Nat \ {0}
        /\ cursor.idx \in Nat /\ MaxDatagrams \in Nat
    BY RingLength, DeliveryAssumption DEF dvrRecord, dvrVars, fanVars, RingInv, StreamInv, CarInv
  <1>2. ring.recs # <<>> /\ cursor.gop <= Newest
    <2>1. ring.recs # <<>>
      BY <1>1, RingLength
    <2> QED
      BY <1>1, <2>1 DEF RingData
  <1>3. CASE Retained(cursor.gop) /\ cursor.idx <= Records(cursor.gop)
    <2>1. cursor.idx <= MaxDatagrams
      BY <1>1, <1>3, RecordsType
    <2>2. CASE Drain("nap") /\ UNCHANGED cursor
      <3>1. drain'.at = "nap"
        BY <1>1, <2>2, DrainTo DEF DrainSteps
      <3> QED
        BY <1>1, <2>2, <3>1, CursorStays, RingQuiet DEF RingInv
    <2>3. CASE Drain("top") /\ cursor' = At(cursor.gop, cursor.idx + 1)
      <3>1. drain'.at = "top" /\ cursor.idx + 1 \in 0 .. MaxDatagrams + 1
        BY <1>1, <2>1, <2>3, DrainTo DEF DrainSteps
      <3>2. RingData'
        BY <1>1, <1>2, <2>3, <3>1, CursorMoved
      <3> QED
        BY <3>1, <3>2, RingQuiet DEF RingInv
    <2>4. CASE /\ drain' = [drain EXCEPT !.at = IF car.cur = 0 THEN "open" ELSE "write", !.st = car.cur]
               /\ UNCHANGED cursor
      <3>1. drain'.at = IF car.cur = 0 THEN "open" ELSE "write"
        BY <1>1, <2>4 DEF DrainType
      <3>2. RingSteps'
        BY <1>1, <2>1, <2>4, <3>1 DEF RingSteps, NoLostWakeup
      <3> QED
        BY <1>1, <2>4, <3>2, CursorStays DEF RingInv
    <2> QED
      BY <1>3, <2>2, <2>3, <2>4 DEF dvrRecord
  <1>4. CASE ~(Retained(cursor.gop) /\ cursor.idx <= Records(cursor.gop))
    <2>1. Drain("ended") /\ UNCHANGED cursor
      BY <1>4 DEF dvrRecord
    <2>2. drain'.at = "ended"
      BY <1>1, <2>1, DrainTo DEF DrainSteps
    <2>3. ~wake => ~FellOffTail
      BY <1>1 DEF RingInv, RingSteps
    <2>4. RingSteps'
      BY <1>1, <1>2, <1>4, <2>1, <2>2, <2>3
        DEF RingSteps, NoLostWakeup, FellOffTail, Retained, Records
    <2> QED
      BY <1>1, <2>1, <2>4, CursorStays DEF RingInv
  <1> QED
    BY <1>3, <1>4

\* The DVR drain is at the end of a GOP: it goes on with the next one, or sleeps
\* because there is none.
LEMMA RingEnded ==
    ASSUME RingInv, KfInv, StreamInv, mode = "dvr", dvrEnded \/ dvrAdvance
    PROVE  RingInv'
  <1>1. UNCHANGED <<mode, ring, fan>> /\ drain \in DrainType /\ RingData
        /\ ring.recs # <<>> /\ cursor.gop <= Newest
    BY DEF dvrEnded, dvrAdvance, dvrVars, fanVars, RingInv, RingData, RingSteps, StreamInv, CarInv
  <1>2. /\ cursor.gop \in Nat \ {0} /\ Newest \in Nat \ {0} /\ ring.first \in Nat \ {0}
        /\ Len(ring.recs) \in Nat /\ ring.first <= Newest /\ cursor.idx \in Nat
    BY <1>1, RingLength, DeliveryAssumption
  <1>3. CASE dvrEnded
    <2>1. UNCHANGED <<cursor, wake>> /\ drain.at = "ended"
          /\ IF Complete(cursor.gop) THEN Drain("next") ELSE Drain("idle")
      BY <1>3 DEF dvrEnded, Sleep
    <2>2. drain'.at = IF Complete(cursor.gop) THEN "next" ELSE "idle"
      BY <1>1, <2>1, DrainTo DEF DrainSteps
    <2>3. cursor.idx > 0 /\ (~wake => /\ ~FellOffTail
                                      /\ ~(Retained(cursor.gop) /\ cursor.idx <= Records(cursor.gop)))
      BY <2>1 DEF RingInv, RingSteps
    <2>4. CASE Complete(cursor.gop)
      <3>1. cursor.gop < Newest
        BY <1>1, <1>2, <2>4 DEF Complete
      <3>2. cursor'.gop < Newest' /\ ring'.recs # <<>>
        BY <1>1, <2>1, <3>1 DEF Newest
      <3>3. RingSteps'
        BY <2>2, <2>4, <3>2 DEF RingSteps, NoLostWakeup
      <3> QED
        BY <1>1, <2>1, <3>3, CursorStays DEF RingInv
    <2>5. CASE ~Complete(cursor.gop)
      <3>1. ASSUME ~wake PROVE cursor.gop = Newest /\ cursor.idx > Records(cursor.gop)
        <4>1. ring.first <= cursor.gop
          BY <1>1, <1>2, <2>3, <3>1 DEF FellOffTail
        <4>2. Retained(cursor.gop)
          BY <1>1, <1>2, <4>1 DEF Retained, Newest
        <4>3. cursor.gop = Newest
          BY <2>5, <4>2 DEF Complete
        <4>4. Records(cursor.gop) \in Nat
          BY <1>2, <4>2, RecordsType, DeliveryAssumption
        <4> QED
          BY <1>2, <2>3, <3>1, <4>2, <4>3, <4>4
      <3>2. NoLostWakeup'
        BY <1>1, <2>1, <2>3, <3>1 DEF NoLostWakeup, Newest, Records
      <3>3. RingSteps'
        BY <2>2, <2>5, <3>2 DEF RingSteps
      <3> QED
        BY <1>1, <2>1, <3>3, CursorStays DEF RingInv
    <2> QED
      BY <2>4, <2>5
  <1>4. CASE dvrAdvance
    <2>1. cursor.gop < Newest /\ cursor' = At(NextGop, 0) /\ Drain("top")
      BY <1>4 DEF dvrAdvance, RingInv, RingSteps
    <2>2. NextGop \in Nat \ {0} /\ NextGop <= Newest
      BY <1>2, <2>1 DEF NextGop
    <2>3. RingData'
      BY <1>1, <2>1, <2>2, CursorMoved, DeliveryAssumption
    <2>4. drain'.at = "top"
      BY <1>1, <2>1, DrainTo DEF DrainSteps
    <2> QED
      BY <2>3, <2>4, RingQuiet DEF RingInv
  <1> QED
    BY <1>3, <1>4

\* The other steps of the DVR drain.
LEMMA RingOther ==
    ASSUME RingInv, KfInv, StreamInv, mode = "dvr", dvrTop \/ dvrAwake \/ openCarrier \/ writeCarrier
    PROVE  RingInv'
  <1>1. UNCHANGED <<mode, ring, fan>> /\ drain \in DrainType /\ RingData /\ MaxDatagrams \in Nat
    BY DeliveryAssumption DEF dvrTop, dvrAwake, openCarrier, writeCarrier, dvrVars, fanVars, RingInv,
      StreamInv, CarInv
  <1>2. CASE dvrTop \/ dvrAwake
    <2>1. UNCHANGED cursor /\ \E x \in {"top", "look", "done"} : Drain(x)
      BY <1>2 DEF dvrTop, dvrAwake, dvrReturn
    <2>2. drain'.at \in {"top", "look", "done"}
      BY <1>1, <2>1, DrainTo DEF DrainSteps
    <2> QED
      BY <1>1, <2>1, <2>2, CursorStays, RingQuiet DEF RingInv
  <1>3. CASE openCarrier
    <2>1. UNCHANGED cursor /\ drain.at = "open"
      BY <1>3 DEF openCarrier, dvrVars
    <2>2. CASE Abandon
      <3>1. drain'.at = "nap"
        BY <1>1, <2>2, AbandonTo
      <3> QED
        BY <1>1, <2>1, <3>1, CursorStays, RingQuiet DEF RingInv
    <2>3. CASE drain' = [drain EXCEPT !.st = NewStream, !.prologue = TRUE,
                                      !.at = IF mode = "leg" THEN "begin" ELSE "write"]
      <3>1. drain'.at = "write"
        BY <1>1, <2>3 DEF DrainType
      <3>2. RingSteps'
        BY <1>1, <2>1, <3>1 DEF RingInv, RingSteps, NoLostWakeup
      <3> QED
        BY <1>1, <2>1, <3>2, CursorStays DEF RingInv
    <2> QED
      BY <1>3, <2>2, <2>3 DEF openCarrier
  <1>4. CASE writeCarrier
    <2>1. drain.at = "write" /\ 0 < cursor.idx /\ cursor.idx <= MaxDatagrams
          /\ cursor.idx \in Nat /\ cursor.gop \in Nat \ {0}
      BY <1>1, <1>4, RingLength DEF writeCarrier, RingInv, RingSteps
    <2>2. ring.recs # <<>> /\ cursor.gop <= Newest
      <3>1. ring.recs # <<>>
        BY <1>1, <2>1, RingLength
      <3> QED
        BY <1>1, <3>1 DEF RingData
    <2>3. CASE Abandon /\ UNCHANGED cursor
      <3>1. drain'.at = "nap"
        BY <1>1, <2>3, AbandonTo
      <3> QED
        BY <1>1, <2>3, <3>1, CursorStays, RingQuiet DEF RingInv
    <2>4. CASE /\ drain' = [Afresh(drain) EXCEPT !.at = "top"]
               /\ cursor' = [cursor EXCEPT !.idx = @ + 1]
      <3>1. drain'.at = "top"
        BY <1>1, <2>4, AfreshType DEF DrainType
      <3>2. cursor' = At(cursor.gop, cursor.idx + 1) /\ cursor.idx + 1 \in 0 .. MaxDatagrams + 1
        BY <1>1, <2>1, <2>4 DEF RingData, At
      <3>3. RingData'
        BY <1>1, <2>1, <2>2, <3>2, CursorMoved
      <3> QED
        BY <3>1, <3>3, RingQuiet DEF RingInv
    <2> QED
      BY <1>4, <2>3, <2>4 DEF writeCarrier
  <1> QED
    BY <1>2, <1>3, <1>4
\* Where neither the ring, the cursor nor the drain moves.
LEMMA RingFrame ==
    ASSUME RingInv, UNCHANGED <<mode, fan, drain, ring, cursor, wake>>
    PROVE  RingInv'
  BY DEF RingInv, RingData, RingSteps, NoLostWakeup, Newest, Retained, Records, FellOffTail

\* Who moves them.
LEMMA RingSteppers ==
    ASSUME Next, StreamInv
    PROVE  \/ Publishing
           \/ mode = "dvr" /\ (DVRDrain \/ openCarrier \/ writeCarrier)
           \/ mode = "dvr" /\ UNCHANGED <<mode, fan, drain, ring, cursor, wake>>
           \/ mode # "dvr" /\ UNCHANGED <<mode, fan, ring, cursor>>
  <1> DEFINE Rest == UNCHANGED <<mode, fan, drain, ring, cursor, wake>>
  <1>1. ASSUME \/ purgeQueuedDeltasLocked \/ (\E seq \in handoff : sendKeyframe(seq)) \/ Writing
               \/ legResetFinished \/ drainControlSideband \/ dvrStalls
               \/ SessionEnds \/ closeUnresponsive \/ Close \/ Closing
        PROVE  Rest
    BY <1>1 DEF purgeQueuedDeltasLocked, drainControlSideband, sendKeyframe, Writing, writeKeyframe, judgeWrite,
      legResetFinished, dvrStalls, SessionEnds, closeUnresponsive, Close, Closing, CloseKeyframe,
      CloseCarriers, CloseReturned, fanVars, dvrVars
  <1>2. ASSUME legWrite PROVE mode # "dvr" /\ UNCHANGED <<mode, fan, ring, cursor>>
    BY <1>2 DEF legWrite, fanVars, dvrVars
  <1>3. ASSUME drainDatagrams \/ drainReliable \/ drainEnds \/ legTake \/ legTurn \/ legFinish
               \/ legWeigh \/ legBegin
        PROVE  mode # "dvr" /\ UNCHANGED <<mode, fan, ring, cursor>>
    <2>1. drain.at \in {"take", "pass", "finish", "weigh", "begin"}
      BY <1>3 DEF drainDatagrams, drainReliable, drainEnds, legTake, legTurn, legFinish, legWeigh,
        legBegin, Receive
    <2>2. mode # "dvr"
      BY <2>1 DEF StreamInv, StepsInv
    <2> QED
      BY <1>3, <2>2 DEF drainDatagrams, drainReliable, drainEnds, legTake, legTurn, legFinish, legWeigh,
        legBegin, Receive, fanVars, dvrVars
  <1>4. ASSUME mode # "dvr", openCarrier \/ writeCarrier
        PROVE  UNCHANGED <<mode, fan, ring, cursor>>
    BY <1>4 DEF openCarrier, writeCarrier, fanVars, dvrVars
  <1>5. ASSUME DVRDrain PROVE mode = "dvr"
    <2>1. drain.at \notin {"take", "pass", "finish", "weigh", "begin", "open", "write", "done"}
      BY <1>5 DEF DVRDrain, dvrTop, dvrFellBehind, dvrResync, dvrSendKeyframe, dvrProbe,
        dvrWriteKeyframe, dvrRecord, dvrEnded, dvrAdvance, dvrAwake
    <2> QED
      BY <2>1 DEF StreamInv, StepsInv
  <1>6. ASSUME Rest
        PROVE  (mode = "dvr" /\ Rest) \/ (mode # "dvr" /\ UNCHANGED <<mode, fan, ring, cursor>>)
    BY <1>6
  <1>7. ASSUME QueueDrain
        PROVE  \/ mode = "dvr" /\ (openCarrier \/ writeCarrier)
               \/ mode # "dvr" /\ UNCHANGED <<mode, fan, ring, cursor>>
    BY <1>3, <1>4, <1>7 DEF QueueDrain
  <1> QED
    BY <1>1, <1>2, <1>5, <1>6, <1>7 DEF Next

\* The ring and the cursor, whatever step is taken.
LEMMA RingMove ==
    ASSUME RingInv, KfInv, StreamInv, KfInv', StreamInv', [Next]_vars
    PROVE  RingInv'
  <1>1. CASE mode = "dvr" /\ (DVRDrain \/ openCarrier \/ writeCarrier)
    BY <1>1, RingLook, RingKeyframe, RingRecord, RingEnded, RingOther DEF DVRDrain
  <1>2. CASE mode # "dvr" /\ UNCHANGED <<mode, fan, ring, cursor>>
    <2>1. fan.sent <= fan'.sent
      BY <1>2, DeliveryAssumption DEF KfInv
    <2> QED
      BY <1>2, <2>1, RingUnused DEF StreamInv
  <1>3. CASE Next
    BY <1>1, <1>2, <1>3, RingSteppers, RingPublish, RingFrame
  <1>4. CASE UNCHANGED vars
    BY <1>4, RingFrame DEF vars, fanVars, dvrVars
  <1> QED
    BY <1>3, <1>4

--------------------------------------------------------------------------------
(* Flags *)

\* A fault is counted.
LEMMA FaultCounted ==
    ASSUME faults \in 0 .. MaxFaults, Fault \/ Fails \/ Succeeds \/ UNCHANGED faults
    PROVE  faults' \in 0 .. MaxFaults
  <1>1. MaxFaults \in Nat
    BY DeliveryAssumption
  <1> QED
    BY <1>1 DEF Fault, Fails, Succeeds

\* An eviction may be started by any step of a keyframe or of a carrier.
LEMMA EvictorType ==
    ASSUME StartEvict \/ evictor' \in BOOLEAN
    PROVE  evictor' \in BOOLEAN
  BY DEF StartEvict

\* The flags, whatever step is taken.
LEMMA FlagsMove ==
    ASSUME FlagsInv, [Next]_vars
    PROVE  FlagsInv'
  <1>1. /\ mode \in Modes /\ faults \in 0 .. MaxFaults
        /\ conn \in BOOLEAN /\ evictor \in BOOLEAN /\ turned \in BOOLEAN
        /\ dead \in BOOLEAN /\ wake \in BOOLEAN /\ fresh \in BOOLEAN
        /\ close \in {"no", "kf", "wait", "drain", "done"}
    BY DEF FlagsInv
  <1>2. ASSUME Publishing \/ purgeQueuedDeltasLocked PROVE FlagsInv'
    <2>1. UNCHANGED <<mode, endVars, faults, turned, fresh>>
      BY <1>2 DEF Publishing, onKeyframe, fanOutLocked, purgeQueuedDeltasLocked, dvrVars
    <2>2. dead' \in BOOLEAN /\ wake' \in BOOLEAN
      BY <1>1, <1>2 DEF Publishing, onKeyframe, fanOutLocked, purgeQueuedDeltasLocked, dvrVars,
        queueVars, enqueueLocked, AppendKeyframe, AppendRecord, PurgeOne, PutBack
    <2> QED
      BY <1>1, <2>1, <2>2 DEF endVars, FlagsInv
  <1>3. ASSUME (\E seq \in handoff : sendKeyframe(seq)) \/ Writing PROVE FlagsInv'
    <2>1. UNCHANGED <<mode, conn, close, dvrVars>>
      BY <1>3 DEF sendKeyframe, Writing, writeKeyframe, judgeWrite, endVars
    <2>2. turned' \in BOOLEAN /\ dead' \in BOOLEAN
      BY <1>1, <1>3 DEF sendKeyframe, Rotate, Writing, writeKeyframe, judgeWrite, queueVars
    <2>3. evictor' \in BOOLEAN
      BY <1>1, <1>3, EvictorType DEF sendKeyframe, Writing, writeKeyframe, judgeWrite, endVars
    <2>4. faults' \in 0 .. MaxFaults
      BY <1>1, <1>3, FaultCounted DEF sendKeyframe, Writing, writeKeyframe, judgeWrite
    <2> QED
      BY <1>1, <2>1, <2>2, <2>3, <2>4 DEF dvrVars, FlagsInv
  <1>4. ASSUME QueueDrain \/ legWrite \/ legResetFinished PROVE FlagsInv'
    <2>1. UNCHANGED <<mode, conn, close, dead, wake>>
      BY <1>4 DEF QueueDrain, drainDatagrams, drainReliable, openCarrier, writeCarrier, drainEnds,
        legTake, legTurn, legFinish, legWeigh, legBegin, legWrite, legResetFinished, Receive, Received, endVars,
        queueVars, dvrVars
    <2>2. turned' \in BOOLEAN /\ fresh' \in BOOLEAN
      BY <1>1, <1>4 DEF QueueDrain, drainDatagrams, drainReliable, openCarrier, writeCarrier, drainEnds,
        legTake, legTurn, legFinish, legWeigh, legBegin, legWrite, legResetFinished, Receive, dvrVars
    <2>3. evictor' \in BOOLEAN
      BY <1>1, <1>4, EvictorType DEF QueueDrain, drainDatagrams, drainReliable, openCarrier,
        writeCarrier, drainEnds, legTake, legTurn, legFinish, legWeigh, legBegin, legWrite,
        legResetFinished, Receive, endVars
    <2>4. faults' \in 0 .. MaxFaults
      BY <1>1, <1>4, FaultCounted DEF QueueDrain, drainDatagrams, drainReliable, openCarrier,
        writeCarrier, drainEnds, legTake, legTurn, legFinish, legWeigh, legBegin, legWrite,
        legResetFinished
    <2> QED
      BY <1>1, <2>1, <2>2, <2>3, <2>4 DEF FlagsInv
  <1>5. ASSUME DVRDrain \/ dvrStalls PROVE FlagsInv'
    <2>1. UNCHANGED <<mode, conn, close, dead, turned>>
      BY <1>5 DEF DVRDrain, dvrTop, dvrFellBehind, dvrResync, dvrSendKeyframe, dvrProbe,
        dvrWriteKeyframe, dvrRecord, dvrEnded, dvrAdvance, dvrAwake, dvrStalls, endVars, queueVars
    <2>2. wake' \in BOOLEAN /\ fresh' \in BOOLEAN
      BY <1>1, <1>5 DEF DVRDrain, dvrTop, dvrFellBehind, dvrResync, dvrSendKeyframe, dvrProbe,
        dvrWriteKeyframe, dvrRecord, dvrEnded, dvrAdvance, dvrAwake, dvrStalls, Sleep, dvrVars
    <2>3. evictor' \in BOOLEAN
      BY <1>1, <1>5, EvictorType DEF DVRDrain, dvrTop, dvrFellBehind, dvrResync, dvrSendKeyframe,
        dvrProbe, dvrWriteKeyframe, dvrRecord, dvrEnded, dvrAdvance, dvrAwake, dvrStalls, endVars
    <2>4. faults' \in 0 .. MaxFaults
      BY <1>1, <1>5, FaultCounted DEF DVRDrain, dvrTop, dvrFellBehind, dvrResync, dvrSendKeyframe,
        dvrProbe, dvrWriteKeyframe, dvrRecord, dvrEnded, dvrAdvance, dvrAwake, dvrStalls
    <2> QED
      BY <1>1, <2>1, <2>2, <2>3, <2>4 DEF FlagsInv
  <1>6. ASSUME SessionEnds \/ closeUnresponsive \/ Close \/ Closing PROVE FlagsInv'
    BY <1>1, <1>6 DEF SessionEnds, closeUnresponsive, Close, Closing, CloseKeyframe, CloseCarriers,
      CloseReturned, endVars, queueVars, dvrVars, FlagsInv
  <1>7. CASE UNCHANGED vars
    BY <1>1, <1>7 DEF vars, endVars, queueVars, dvrVars, FlagsInv
  <1>8. ASSUME drainControlSideband PROVE FlagsInv'
    BY <1>1, <1>8 DEF drainControlSideband, Received, endVars, dvrVars, FlagsInv
  <1> QED
    BY <1>2, <1>3, <1>4, <1>5, <1>6, <1>7, <1>8 DEF Next

--------------------------------------------------------------------------------
(* The backlog *)

\* Only the end of the drain makes it done.
LEMMA DoneBy ==
    ASSUME StreamInv, [Next]_vars, mode # "dvr", drain'.at = "done"
    PROVE  drain.at = "done" \/ drainEnds
  <1>1. drain \in DrainType /\ \A x \in DrainSteps : [drain EXCEPT !.at = x].at = x
    BY DEF StreamInv, CarInv, DrainType
  <1>2. ~Take /\ ~Abandon
    BY <1>1, TakeTo, AbandonTo
  <1>3. ASSUME Again PROVE FALSE
    <2>1. drain' = [drain EXCEPT !.tries = @ - 1, !.at = "pass"]
      BY <1>2, <1>3 DEF Again
    <2> QED
      BY <1>1, <2>1 DEF DrainType
  <1>4. ~drainReliable
    BY <1>1 DEF drainReliable, DrainType
  <1>5. legTake => drain.at = "done"
    BY <1>1 DEF legTake, DrainType
  <1>6. ~legTurn /\ ~legFinish /\ ~legWeigh
    BY <1>1, <1>2 DEF legTurn, legFinish, legWeigh, Drain, DrainType
  <1>7. ~legBegin
    BY <1>1, <1>2, <1>3 DEF legBegin, DrainType
  <1>8. ~legWrite
    BY <1>1, <1>2, <1>3 DEF legWrite, DrainType
  <1>9. ~openCarrier
    BY <1>1, <1>2 DEF openCarrier, DrainType
  <1>10. ~writeCarrier
    BY <1>1, <1>2 DEF writeCarrier
  <1>11. drainDatagrams => UNCHANGED drain
    BY DEF drainDatagrams
  <1>12. QueueDrain => drain.at = "done" \/ drainEnds
    BY <1>4, <1>5, <1>6, <1>7, <1>9, <1>10, <1>11 DEF QueueDrain
  <1>13. ~DVRDrain
    <2>1. DVRDrain => drain.at \notin {"take", "pass", "finish", "weigh", "begin", "open", "write", "done"}
      BY DEF DVRDrain, dvrTop, dvrFellBehind, dvrResync, dvrSendKeyframe, dvrProbe,
        dvrWriteKeyframe, dvrRecord, dvrEnded, dvrAdvance, dvrAwake
    <2> QED
      BY <2>1 DEF StreamInv, StepsInv
  <1>14. ASSUME \/ Publishing \/ purgeQueuedDeltasLocked \/ (\E seq \in handoff : sendKeyframe(seq))
                \/ Writing \/ legResetFinished \/ drainControlSideband \/ dvrStalls
                \/ SessionEnds \/ closeUnresponsive \/ Close \/ Closing \/ UNCHANGED vars
         PROVE  UNCHANGED drain
    BY <1>14 DEF Publishing, onKeyframe, fanOutLocked, purgeQueuedDeltasLocked, sendKeyframe, Writing,
      writeKeyframe, judgeWrite, legResetFinished, drainControlSideband, dvrStalls, SessionEnds,
      closeUnresponsive, Close, Closing, CloseKeyframe, CloseCarriers, CloseReturned, vars
  <1> QED
    BY <1>8, <1>12, <1>13, <1>14 DEF Next

\* A closed subscriber stays closed, and no purge begins.
LEMMA ClosedStays ==
    ASSUME [Next]_vars
    PROVE  /\ UNCHANGED mode
           /\ Closed => Closed'
           /\ Closed' => Closed \/ (~purge.on /\ UNCHANGED <<queue, purge>>)
  <1>1. ASSUME \/ Publishing \/ purgeQueuedDeltasLocked \/ (\E seq \in handoff : sendKeyframe(seq))
               \/ Writing \/ QueueDrain \/ legWrite \/ legResetFinished \/ drainControlSideband
               \/ dvrStalls \/ SessionEnds \/ closeUnresponsive \/ UNCHANGED vars
        PROVE  UNCHANGED <<mode, close>>
    BY <1>1 DEF Publishing, onKeyframe, fanOutLocked, purgeQueuedDeltasLocked, sendKeyframe, Writing,
      writeKeyframe, judgeWrite, QueueDrain, drainDatagrams, drainReliable, openCarrier, writeCarrier,
      drainEnds, legTake, legTurn, legFinish, legWeigh, legBegin, Receive, legWrite, legResetFinished,
      drainControlSideband, dvrStalls, SessionEnds, closeUnresponsive, vars, endVars
  <1>2. ASSUME DVRDrain PROVE UNCHANGED <<mode, close>>
    BY <1>2 DEF DVRDrain, dvrTop, dvrFellBehind, dvrResync, dvrSendKeyframe, dvrProbe,
      dvrWriteKeyframe, dvrRecord, dvrEnded, dvrAdvance, dvrAwake, endVars
  <1>3. ASSUME Closing PROVE UNCHANGED mode /\ Closed /\ Closed'
    BY <1>3 DEF Closing, CloseKeyframe, CloseCarriers, CloseReturned, Closed
  <1>4. ASSUME Close PROVE UNCHANGED <<mode, queue, purge>> /\ ~purge.on /\ Closed'
    BY <1>4 DEF Close, Closed, queueVars
  <1> QED
    BY <1>1, <1>2, <1>3, <1>4 DEF Next, Closed

\* The backlog, whatever step is taken.
LEMMA BacklogMove ==
    ASSUME BacklogInv, StreamInv, [Next]_vars
    PROVE  BacklogInv'
  <1>1. Closed => UNCHANGED <<queue, purge>> \/ (Received /\ UNCHANGED purge)
    <2>1. ASSUME Closed, NEW d, fanOutLocked(d) PROVE FALSE
      BY <2>1 DEF fanOutLocked
    <2>2. ASSUME Closed, PurgeOne \/ PutBack PROVE FALSE
      BY <2>2 DEF PurgeOne, PutBack, BacklogInv
    <2> QED
      BY <2>1, <2>2, QueueFrame DEF Received, vars, queueVars
  <1>2. Closed' => ~purge'.on
    BY <1>1, ClosedStays DEF BacklogInv
  <1>3. ASSUME drain'.at = "done", mode' # "dvr" PROVE Closed' /\ queue' = <<>>
    <2>1. Closed /\ queue = <<>>
      BY <1>3, DoneBy, ClosedStays DEF BacklogInv, drainEnds
    <2> QED
      BY <1>1, <2>1, ClosedStays DEF Received
  <1> QED
    BY <1>2, <1>3 DEF BacklogInv

--------------------------------------------------------------------------------
(* The theorems *)

\* At the start nothing is under way.
LEMMA DeliveryInit == Init => DeliveryInv
  <1> SUFFICES ASSUME Init PROVE DeliveryInv
    OBVIOUS
  <1>1. PICK k \in {0, 1} :
          /\ fan = [kf |-> k, sent |-> 0]
          /\ handoff = IF mode = "dvr" \/ k = 0 THEN {} ELSE {1}
          /\ ring = [first |-> 1, recs |-> IF mode = "dvr" /\ k = 1 THEN <<0>> ELSE <<>>]
    BY DEF Init
  <1>2. /\ mode \in Modes /\ conn = TRUE /\ close = "no" /\ evictor = FALSE /\ faults = 0
        /\ kf = [last |-> 0, cur |-> 0, openFailed |-> 0, slow |-> 0, carFailed |-> 0, evicting |-> FALSE]
        /\ writers = {} /\ queue = <<>> /\ turned = FALSE /\ dead = FALSE /\ purge = NoPurge /\ owed = 0
        /\ drain = [at |-> IF mode = "dvr" THEN "top" ELSE "take", item |-> Control,
                    dead |-> FALSE, st |-> 0, tries |-> 0, prologue |-> FALSE]
        /\ car = [cur |-> 0, finishing |-> 0, writing |-> FALSE, kf |-> 0, hurry |-> 0]
        /\ live = {} /\ cursor = At(1, 0) /\ wake = FALSE /\ fresh = TRUE
    BY DEF Init
  <1>3. /\ MaxKeyframes \in Nat \ {0} /\ MaxDatagrams \in Nat /\ MaxFaults \in Nat
        /\ QueueDepth \in Nat /\ EvictThreshold \in Nat
    BY DeliveryAssumption
  <1>4. FlagsInv
    <2>1. faults \in 0 .. MaxFaults /\ mode \in Modes
      BY <1>2, <1>3
    <2>2. /\ conn \in BOOLEAN /\ evictor \in BOOLEAN /\ turned \in BOOLEAN
          /\ dead \in BOOLEAN /\ wake \in BOOLEAN /\ fresh \in BOOLEAN
          /\ close \in {"no", "kf", "wait", "drain", "done"}
      BY <1>2
    <2> QED
      BY <2>1, <2>2 DEF FlagsInv
  <1>5. KfInv
    <2>1. kf \in KfType
      BY <1>2, <1>3 DEF KfType, Seqs
    <2>2. fan \in [kf : Seqs, sent : 0 .. MaxDatagrams] /\ handoff \subseteq 0 .. fan.kf
      BY <1>1, <1>3 DEF Seqs
    <2> QED
      BY <1>2, <2>1, <2>2 DEF KfInv, OneKeyframeInFlight
  <1>6. QueueInv
    <2>1. <<>> \in Seq(Items) /\ Len(<<>>) = 0 /\ Controls(<<>>) = 0
      BY EmptySeq, ControlsEmpty
    <2>2. purge \in [on : BOOLEAN, left : 0 .. QueueDepth, keep : Seq(Items)] /\ purge.keep = <<>>
      BY <1>2, <1>3, <2>1 DEF NoPurge
    <2> QED
      BY <1>2, <1>3, <2>1, <2>2 DEF QueueInv
  <1>7. StreamInv
    <2>1. drain \in DrainType /\ drain.at = IF mode = "dvr" THEN "top" ELSE "take"
      <3>1. Control \in Items /\ (IF mode = "dvr" THEN "top" ELSE "take") \in DrainSteps
        BY DEF Items, DrainSteps
      <3> QED
        BY <1>2, <3>1 DEF DrainType
    <2>2. car \in CarType
      BY <1>2, <1>3 DEF CarType, Seqs
    <2> QED
      BY <1>2, <2>1, <2>2 DEF StreamInv, StepsInv, CarInv, Finishing, LegInv, LegAbandonsOldGop, EndInv
  <1>8. RingData
    <2>1. CASE mode = "dvr" /\ k = 1
      <3>1. <<0>> \in Seq(0 .. 0) /\ Len(<<0>>) = 1 /\ <<0>> # <<>>
        OBVIOUS
      <3>2. ring = [first |-> 1, recs |-> <<0>>] /\ fan.kf = 1 /\ fan.sent = 0
        BY <1>1, <2>1
      <3>3. ring.recs = <<0>> /\ ring.first = 1
        BY <3>2
      <3>4. ring \in [first : Nat \ {0}, recs : Seq(0 .. fan.sent)]
        BY <3>1, <3>2
      <3>5. cursor \in [gop : Nat \ {0}, idx : 0 .. MaxDatagrams + 1] /\ cursor.gop = 1
        BY <1>2, <1>3 DEF At
      <3>6. Newest = 1
        BY <3>1, <3>3 DEF Newest
      <3> QED
        BY <2>1, <3>1, <3>2, <3>3, <3>4, <3>5, <3>6 DEF RingData
    <2>2. CASE ~(mode = "dvr" /\ k = 1)
      <3>1. ring = [first |-> 1, recs |-> <<>>] /\ fan.sent = 0 /\ (mode = "dvr" => fan.kf = 0)
        BY <1>1, <2>2
      <3>2. ring.recs = <<>> /\ ring.first = 1 /\ Len(<<>>) = 0 /\ <<>> \in Seq(0 .. 0)
        BY <3>1, EmptySeq
      <3>3. ring \in [first : Nat \ {0}, recs : Seq(0 .. fan.sent)]
        BY <3>1, <3>2
      <3>4. cursor \in [gop : Nat \ {0}, idx : 0 .. MaxDatagrams + 1]
        BY <1>2, <1>3 DEF At
      <3> QED
        BY <1>2, <3>1, <3>2, <3>3, <3>4 DEF RingData
    <2> QED
      BY <2>1, <2>2
  <1>9. RingSteps
    BY <1>2 DEF RingSteps, NoLostWakeup
  <1>10. BacklogInv
    BY <1>2 DEF BacklogInv, Closed
  <1> QED
    BY <1>4, <1>5, <1>6, <1>7, <1>8, <1>9, <1>10 DEF DeliveryInv, RingInv

\* No step leaves the invariant.
LEMMA DeliveryMove ==
    ASSUME DeliveryInv, [Next]_vars
    PROVE  DeliveryInv'
  <1>1. FlagsInv' /\ KfInv' /\ QueueInv' /\ StreamInv' /\ BacklogInv'
    BY FlagsMove, KfMove, QueueMove, StreamMove, BacklogMove DEF DeliveryInv
  <1> QED
    BY <1>1, RingMove DEF DeliveryInv

\* The state of a subscriber's delivery is always one that the invariant describes.
THEOREM DeliveryInvariant == Spec => []DeliveryInv
  <1>1. DeliveryInv /\ [Next]_vars => DeliveryInv'
    BY DeliveryMove
  <1> QED
    BY <1>1, DeliveryInit, PTL DEF Spec

\* The types of the subscriber's state; the cursor is never past the newest GOP
\* (NextGop).
THEOREM DeliveryTypeCorrect == Spec => []TypeOK
  <1>1. ASSUME DeliveryInv PROVE TypeOK
    <2>1. QueueInv /\ KfInv /\ FlagsInv /\ CarInv /\ RingData
      BY <1>1 DEF DeliveryInv, StreamInv, RingInv
    <2>2. queue \in Seq(Items) /\ Len(queue) <= QueueDepth /\ owed \in Nat
          /\ purge \in [on : BOOLEAN, left : 0 .. QueueDepth, keep : Seq(Items)]
      <3>1. queue \in Seq(Items) /\ purge.keep \in Seq(Items)
            /\ purge \in [on : BOOLEAN, left : 0 .. QueueDepth, keep : Seq(Items)]
        BY <2>1 DEF QueueInv
      <3>2. Len(queue) \in Nat /\ Len(purge.keep) \in Nat /\ Controls(queue) \in Nat
            /\ Controls(purge.keep) \in Nat /\ QueueDepth \in Nat
        BY <3>1, LenProperties, ControlsType, DeliveryAssumption
      <3> QED
        BY <2>1, <3>1, <3>2 DEF QueueInv
    <2>3. handoff \subseteq Seqs
      BY <2>1, DeliveryAssumption DEF KfInv, Seqs
    <2>4. /\ drain.at \in DrainSteps /\ drain.item \in Items /\ drain.tries \in 0 .. 2
          /\ {car.cur, car.finishing, car.hurry, drain.st} \subseteq 0 .. 4 /\ car.kf \in Seqs
          /\ live \subseteq 1 .. 4
      BY <2>1 DEF CarInv, DrainType, CarType
    <2>5. /\ ring.first \in 1 .. MaxKeyframes
          /\ cursor \in [gop : 1 .. IF ring.recs = <<>> THEN ring.first ELSE Newest, idx : 0 .. MaxDatagrams + 1]
      <3>1. cursor \in [gop : Nat \ {0}, idx : 0 .. MaxDatagrams + 1]
            /\ MaxKeyframes \in Nat \ {0} /\ fan.kf \in 0 .. MaxKeyframes
        BY <2>1, DeliveryAssumption DEF RingData, KfInv, Seqs
      <3>2. CASE ring.recs = <<>>
        BY <2>1, <3>1, <3>2, RingLength DEF RingData
      <3>3. CASE ring.recs # <<>>
        <4>1. /\ Len(ring.recs) \in Nat /\ ring.first \in Nat \ {0} /\ Len(ring.recs) > 0
              /\ Newest \in Nat \ {0} /\ cursor.gop \in Nat \ {0} /\ cursor.gop <= Newest
          BY <2>1, <3>3, RingLength DEF RingData
        <4>2. ring.first + Len(ring.recs) = fan.kf + 1
          BY <2>1, <3>3 DEF RingData
        <4>3. ring.first \in 1 .. MaxKeyframes
          BY <3>1, <4>1, <4>2
        <4>4. cursor.gop \in 1 .. Newest
          BY <4>1
        <4> QED
          BY <3>1, <3>3, <4>3, <4>4
      <3> QED
        BY <3>2, <3>3
    <2> QED
      BY <2>1, <2>2, <2>3, <2>4, <2>5 DEF TypeOK, FlagsInv, KfInv, KfType, WriterType, DrainSteps
  <1> QED
    BY <1>1, DeliveryInvariant, PTL

\* At most one keyframe stream is in flight to a subscriber, the newest handed to it.
THEOREM OneKeyframeCorrect == Spec => []OneKeyframeInFlight
  <1>1. DeliveryInv => OneKeyframeInFlight
    BY DEF DeliveryInv, KfInv
  <1> QED
    BY <1>1, DeliveryInvariant, PTL

\* The purge of a dead GOP keeps every queued control datagram, whatever the drain
\* takes meanwhile.
THEOREM QueuedControlCorrect == Spec => []QueuedControlKept
  <1>1. DeliveryInv => QueuedControlKept
    BY DEF DeliveryInv, QueueInv, QueuedControlKept, Controls
  <1> QED
    BY <1>1, DeliveryInvariant, PTL

\* Once Close has returned no keyframe is being written, no carrier is open and,
\* outside DVR mode, the backlog is consumed.
THEOREM ClosedCorrect == Spec => []ClosedLeavesNothing
  <1>1. DeliveryInv => ClosedLeavesNothing
    BY DEF DeliveryInv, StreamInv, EndInv, BacklogInv, ClosedLeavesNothing
  <1> QED
    BY <1>1, DeliveryInvariant, PTL

\* A leg is never left in a write of an older GOP than the newest keyframe given to it.
THEOREM LegAbandonsCorrect == Spec => []LegAbandonsOldGop
  <1>1. ASSUME DeliveryInv PROVE LegAbandonsOldGop
    <2>1. CASE mode = "leg"
      BY <1>1, <2>1 DEF DeliveryInv, StreamInv, LegInv
    <2>2. CASE mode # "leg"
      BY <1>1, <2>2 DEF DeliveryInv, StreamInv, CarInv, LegAbandonsOldGop
    <2> QED
      BY <2>1, <2>2
  <1> QED
    BY <1>1, DeliveryInvariant, PTL

\* A leg has at most two carriers, a viewer one.
THEOREM FewCarriersCorrect == Spec => []FewCarriers
  <1>1. ASSUME DeliveryInv PROVE FewCarriers
    <2>1. PICK a, b : /\ live \subseteq {a, b} \ {0}
                      /\ mode # "leg" => b = 0
      <3>1. live \subseteq {car.cur, car.finishing} \cup Finishing /\ 0 \notin live
            /\ (drain.at = "finish" => car.cur = 0 /\ car.finishing = 0)
            /\ (mode # "leg" => car.finishing = 0 /\ drain.at # "finish")
        BY <1>1 DEF DeliveryInv, StreamInv, CarInv
      <3>2. CASE drain.at = "finish"
        <4>1. live \subseteq {drain.st, 0} \ {0} /\ mode = "leg"
          BY <3>1, <3>2 DEF Finishing
        <4> QED
          BY <4>1
      <3>3. CASE drain.at # "finish"
        <4>1. live \subseteq {car.cur, car.finishing} \ {0}
          BY <3>1, <3>3 DEF Finishing
        <4> QED
          BY <3>1, <4>1
      <3> QED
        BY <3>2, <3>3
    <2>2. IsFiniteSet({a}) /\ Cardinality({a}) = 1
      BY FS_Singleton
    <2>3. CASE mode # "leg"
      <3>1. live \subseteq {a}
        BY <2>1, <2>3
      <3>2. Cardinality(live) <= 1
        BY <2>2, <3>1, FS_Subset
      <3> QED
        BY <2>3, <3>2 DEF FewCarriers
    <2>4. CASE mode = "leg"
      <3>1. IsFiniteSet({a, b}) /\ Cardinality({a, b}) <= 2
        <4>1. {a, b} = {a} \cup {b}
          OBVIOUS
        <4>2. IsFiniteSet({a} \cup {b})
              /\ Cardinality({a} \cup {b}) = IF b \in {a} THEN Cardinality({a}) ELSE Cardinality({a}) + 1
          BY <2>2, FS_AddElement
        <4> QED
          BY <2>2, <4>1, <4>2
      <3>2. live \subseteq {a, b}
        BY <2>1
      <3>3. Cardinality(live) <= Cardinality({a, b}) /\ Cardinality(live) \in Nat /\ Cardinality({a, b}) \in Nat
        BY <3>1, <3>2, FS_Subset, FS_CardinalityType
      <3>4. Cardinality(live) <= 2
        BY <3>1, <3>3
      <3> QED
        BY <2>4, <3>4 DEF FewCarriers
    <2> QED
      BY <2>3, <2>4
  <1> QED
    BY <1>1, DeliveryInvariant, PTL

\* A DVR drain that sleeps until the next append has nothing left to send.
THEOREM NoLostWakeupCorrect == Spec => []NoLostWakeup
  <1>1. DeliveryInv => NoLostWakeup
    BY DEF DeliveryInv, RingInv, RingSteps
  <1> QED
    BY <1>1, DeliveryInvariant, PTL

================================================================================
