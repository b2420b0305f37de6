--------------------------- MODULE BanProjectionProofs ---------------------------
(***************************************************************************)
(* Proofs about BanProjection, for any sets of requests and replicas and   *)
(* any bounds.                                                             *)
(*                                                                         *)
(* That an event is recorded once is not visible in the counts: a request  *)
(* or a sweep that made a transition carries it to the step that records   *)
(* it, and others run in between.  The argument is that a transition is    *)
(* made once, by one statement of one of them, that whoever made it is the *)
(* only one who carries it, and that its row never comes back to where it  *)
(* was.                                                                    *)
(***************************************************************************)
EXTENDS BanProjection, FiniteSetTheorems, SequenceTheorems, TLAPS

--------------------------------------------------------------------------------
(* The invariant *)

Rows == [state : {"active", "removed", "expired"}, lapsed : BOOLEAN]
Steps == {"idle", "checked", "cleared", "created", "lifted", "replayed",
          "recordCreated", "recordRemoved"}
IDs == BanIDs \cup {None}

\* The types, those of what a request and a sweep carry with them included.
Typed ==
    /\ bans \in Seq(Rows) /\ Len(bans) <= MaxBans
    /\ crs \in [Names -> Objects]
    /\ calls \in [Handlers -> [at : Steps, id : IDs]]
    /\ sweep \in [Sweepers -> [at : {"idle", "rows", "objects", "upsert", "match", "stamp"},
                               row : IDs, crs : [Names -> Objects], todo : SUBSET Names,
                               name : Names, id : IDs]]
    /\ pages \in [Kinds -> [BanIDs -> Nat]]
    /\ made \in [calls : 0..MaxCalls, applies : 0..MaxApplies, faults : 0..MaxFaults]

\* What requests and sweeps know of rows is of rows that there are.
KnownRows ==
    /\ \A h \in Handlers : calls[h].id \in {None} \cup DOMAIN bans
    /\ \A s \in Sweepers :
         sweep[s].row \in {None} \cup DOMAIN bans /\ sweep[s].id \in {None} \cup DOMAIN bans

\* The unique index.
OneActive == \A i, j \in Active : i = j

\* A request that is going to record the creation, or the lifting, of row i; a
\* sweep that is going to record its adoption.
Creating(h, i) == calls[h].at \in {"created", "recordCreated"} /\ calls[h].id = i
Lifting(h, i) == calls[h].at \in {"lifted", "recordRemoved"} /\ calls[h].id = i
Adopting(s, i) == sweep[s].at = "stamp" /\ sweep[s].id = i

\* The three kinds of events.
CreatedOnce ==
    \A i \in BanIDs :
        /\ pages["created"][i] <= 1
        /\ pages["created"][i] = 1 => i \in DOMAIN bans
        /\ \A h \in Handlers : Creating(h, i) =>
               /\ pages["created"][i] = 0
               /\ \A g \in Handlers : Creating(g, i) => g = h
               /\ \A s \in Sweepers : ~Adopting(s, i)
        /\ \A s \in Sweepers : Adopting(s, i) =>
               /\ pages["created"][i] = 0
               /\ \A t \in Sweepers : Adopting(t, i) => t = s
RemovedOnce ==
    \A i \in BanIDs :
        /\ pages["removed"][i] <= 1
        /\ pages["removed"][i] = 1 => i \in DOMAIN bans /\ bans[i].state = "removed"
        /\ \A h \in Handlers : Lifting(h, i) =>
               /\ pages["removed"][i] = 0 /\ i \in DOMAIN bans /\ bans[i].state = "removed"
               /\ \A g \in Handlers : Lifting(g, i) => g = h
ExpiredOnce ==
    \A i \in BanIDs :
        /\ pages["expired"][i] <= 1
        /\ pages["expired"][i] = 1 => i \in DOMAIN bans /\ bans[i].state = "expired"

BanInv == Typed /\ KnownRows /\ OneActive /\ CreatedOnce /\ RemovedOnce /\ ExpiredOnce

--------------------------------------------------------------------------------
(* Rows *)

\* What a statement may do to the rows: add one, or move active ones on.
RowMove ==
    /\ bans' \in Seq(Rows) /\ Len(bans) <= Len(bans)' /\ Len(bans)' <= MaxBans
    /\ \A i \in DOMAIN bans : bans[i].state # "active" => bans'[i].state = bans[i].state

\* A row's ID is a position, and rows are never deleted.
LEMMA RowFacts ==
    ASSUME Typed
    PROVE  /\ DOMAIN bans = 1 .. Len(bans) /\ Len(bans) \in Nat /\ MaxBans \in Nat
           /\ DOMAIN bans \subseteq BanIDs /\ None \notin BanIDs
           /\ \A i \in DOMAIN bans : bans[i] \in Rows
           /\ RowMove => DOMAIN bans \subseteq DOMAIN bans' /\ DOMAIN bans' \subseteq BanIDs
  <1>1. DOMAIN bans = 1 .. Len(bans) /\ Len(bans) \in Nat /\ bans \in [1 .. Len(bans) -> Rows]
    BY LenProperties DEF Typed
  <1>2. MaxBans \in Nat
    BY BanProjectionAssumption
  <1>3. RowMove => DOMAIN bans' = 1 .. Len(bans') /\ Len(bans') \in Nat
    BY LenProperties DEF RowMove
  <1> QED
    BY <1>1, <1>2, <1>3 DEF Typed, BanIDs, None, RowMove

\* Rows that stay.
LEMMA SameRows ==
    ASSUME Typed, OneActive, UNCHANGED bans
    PROVE  RowMove /\ OneActive'
  BY RowFacts DEF Typed, RowMove, OneActive, Active

\* CreateBan.
LEMMA CreatedRow ==
    ASSUME Typed, OneActive, MayCreate, Created
    PROVE  RowMove /\ OneActive' /\ Len(bans') = Len(bans) + 1 /\ Len(bans) + 1 \in BanIDs
  <1> DEFINE r == [state |-> "active", lapsed |-> FALSE]
  <1>1. r \in Rows /\ r.state = "active"
    BY DEF Rows
  <1>2. bans' = Append(bans, r)
    BY DEF Created
  <1> HIDE DEF r
  <1>3. /\ bans' \in Seq(Rows) /\ Len(bans') = Len(bans) + 1
        /\ \A i \in 1 .. Len(bans) : bans'[i] = bans[i]
        /\ DOMAIN bans' = 1 .. Len(bans')
    BY <1>1, <1>2, AppendProperties, LenProperties DEF Typed
  <1>4. \A i \in DOMAIN bans : bans[i].state # "active"
    BY DEF MayCreate, Active
  <1>5. Len(bans) < MaxBans
    BY DEF MayCreate
  <1>6. \A i \in DOMAIN bans' : i \in DOMAIN bans \/ i = Len(bans) + 1
    BY <1>3, RowFacts
  <1>7. OneActive'
    BY <1>3, <1>4, <1>6, RowFacts DEF OneActive, Active
  <1> QED
    BY <1>3, <1>5, <1>7, RowFacts DEF RowMove, BanIDs

\* A row that changes, and does not become active.
LEMMA ChangedRow ==
    ASSUME Typed, OneActive, NEW i \in DOMAIN bans, NEW r \in Rows,
           bans[i].state = "active" \/ r.state = bans[i].state,
           r.state = "active" => bans[i].state = "active",
           bans' = [bans EXCEPT ![i] = r]
    PROVE  RowMove /\ OneActive' /\ bans'[i] = r /\ DOMAIN bans' = DOMAIN bans
  <1>1. i \in 1 .. Len(bans)
    BY RowFacts
  <1>2. bans' \in Seq(Rows) /\ Len(bans') = Len(bans)
    BY <1>1, ExceptSeq DEF Typed
  <1>3. DOMAIN bans' = DOMAIN bans /\ \A j \in DOMAIN bans : bans'[j] = IF j = i THEN r ELSE bans[j]
    BY <1>1, RowFacts
  <1>4. OneActive'
    BY <1>3 DEF OneActive, Active
  <1> QED
    BY <1>2, <1>3, <1>4, RowFacts DEF RowMove, Typed

\* The UPDATE of an expiry: its rows were active, and expire.
LEMMA ExpiredRows ==
    ASSUME Typed, OneActive, Expire
    PROVE  /\ RowMove /\ OneActive' /\ DOMAIN bans' = DOMAIN bans
           /\ \A i \in Due : bans[i].state = "active" /\ i \in DOMAIN bans
                             /\ bans'[i].state = "expired"
           /\ \A i \in DOMAIN bans \ Due : bans'[i] = bans[i]
  <1> DEFINE r(i) == IF i \in Due THEN [bans[i] EXCEPT !.state = "expired"] ELSE bans[i]
  <1>1. bans' = [i \in 1 .. Len(bans) |-> r(i)]
    BY RowFacts DEF Expire
  <1>2. \A i \in 1 .. Len(bans) : bans[i] \in Rows
    BY RowFacts
  <1>3. \A i \in 1 .. Len(bans) : r(i) \in Rows /\ (i \in Due => r(i).state = "expired")
    BY <1>2 DEF Rows
  <1>4. \A i \in Due : bans[i].state = "active" /\ i \in DOMAIN bans
    BY DEF Due, Active
  <1>5. \A i \in 1 .. Len(bans) : i \notin Due => r(i) = bans[i]
    OBVIOUS
  <1> HIDE DEF r
  <1>6. bans' \in Seq(Rows) /\ Len(bans') = Len(bans) /\ DOMAIN bans' = 1 .. Len(bans)
    <2>1. bans' \in [1 .. Len(bans) -> Rows] /\ Len(bans) \in Nat
      BY <1>1, <1>3, RowFacts
    <2> QED
      BY <2>1, RowFacts
  <1>7. OneActive'
    BY <1>1, <1>3, <1>5, <1>6, RowFacts DEF OneActive, Active
  <1> QED
    BY <1>1, <1>3, <1>4, <1>5, <1>6, <1>7, RowFacts DEF RowMove, Typed

--------------------------------------------------------------------------------
(* Types *)

CallType == [at : Steps, id : IDs]
SweepType == [at : {"idle", "rows", "objects", "upsert", "match", "stamp"},
              row : IDs, crs : [Names -> Objects], todo : SUBSET Names, name : Names, id : IDs]
MadeType == [calls : 0..MaxCalls, applies : 0..MaxApplies, faults : 0..MaxFaults]
PagesType == [Kinds -> [BanIDs -> Nat]]

\* The pieces of the state that a step does not touch, and those it does.
LEMMA MadeTypes ==
    ASSUME Typed
    PROVE  /\ Fault => made' \in MadeType
           /\ \A h : Request(h) => made' \in MadeType
           /\ \A n \in Names, o \in Objects :
                Write(n, o) => crs' \in [Names -> Objects] /\ made' \in MadeType
           /\ \A n \in Names, i \in IDs :
                Stamp(n, i) => crs' \in [Names -> Objects] /\ made' \in MadeType
           /\ CRName \in Names /\ Absent \in Objects /\ None \in IDs
  <1>t. made \in MadeType /\ crs \in [Names -> Objects] /\ MaxFaults \in Nat /\ MaxCalls \in Nat
    BY BanProjectionAssumption DEF Typed, MadeType
  <1>1. Fault => made' \in MadeType
    BY <1>t DEF Fault, MadeType
  <1>2. \A h : Request(h) => made' \in MadeType
    BY <1>t DEF Request, MadeType
  <1>3. ASSUME NEW n \in Names, NEW o \in Objects, Write(n, o)
        PROVE  crs' \in [Names -> Objects] /\ made' \in MadeType
    BY <1>t, <1>1, <1>3 DEF Write
  <1>4. ASSUME NEW n \in Names, NEW i \in IDs, Stamp(n, i)
        PROVE  crs' \in [Names -> Objects] /\ made' \in MadeType
    <2>1. [crs[n] EXCEPT !.banID = i] \in Objects
      BY <1>t DEF Objects, IDs
    <2> QED
      BY <1>t, <1>3, <1>4, <2>1 DEF Stamp
  <1>5. CRName \in Names /\ Absent \in Objects /\ None \in IDs
    BY DEF Names, Absent, Objects, Specs, IDs
  <1> QED
    BY <1>1, <1>2, <1>3, <1>4, <1>5

\* An event recorded for each row of a set.
LEMMA PagesTypes ==
    ASSUME Typed
    PROVE  \A k \in Kinds : \A ids :
              Recorded(k, ids) =>
                 /\ pages' \in PagesType
                 /\ \A j \in Kinds \ {k} : pages'[j] = pages[j]
                 /\ \A i \in BanIDs : pages'[k][i] = IF i \in ids THEN pages[k][i] + 1 ELSE pages[k][i]
  <1> SUFFICES ASSUME NEW k \in Kinds, NEW ids, Recorded(k, ids)
               PROVE  /\ pages' \in PagesType
                      /\ \A j \in Kinds \ {k} : pages'[j] = pages[j]
                      /\ \A i \in BanIDs :
                           pages'[k][i] = IF i \in ids THEN pages[k][i] + 1 ELSE pages[k][i]
    OBVIOUS
  <1> DEFINE f == [i \in BanIDs |-> IF i \in ids THEN pages[k][i] + 1 ELSE pages[k][i]]
  <1>1. pages \in PagesType
    BY DEF Typed, PagesType
  <1>2. pages' = [pages EXCEPT ![k] = f]
    BY DEF Recorded
  <1>3. f \in [BanIDs -> Nat]
    BY <1>1 DEF PagesType
  <1>4. \A i \in BanIDs : f[i] = IF i \in ids THEN pages[k][i] + 1 ELSE pages[k][i]
    OBVIOUS
  <1> HIDE DEF f
  <1> QED
    BY <1>1, <1>2, <1>3, <1>4 DEF PagesType

\* A request's step.
LEMMA CallTypes ==
    ASSUME Typed, NEW h \in Handlers
    PROVE  /\ \A step \in Steps, id \in IDs :
                Goto(h, step, id) =>
                   /\ calls' \in [Handlers -> CallType]
                   /\ calls'[h].at = step /\ calls'[h].id = id
                   /\ \A g \in Handlers \ {h} : calls'[g] = calls[g]
           /\ Return(h) =>
                   /\ calls' \in [Handlers -> CallType]
                   /\ calls'[h].at = "idle" /\ calls'[h].id = None
                   /\ \A g \in Handlers \ {h} : calls'[g] = calls[g]
  <1>1. ASSUME NEW step \in Steps, NEW id \in IDs,
               calls' = [calls EXCEPT ![h] = [at |-> step, id |-> id]]
        PROVE  /\ calls' \in [Handlers -> CallType]
               /\ calls'[h].at = step /\ calls'[h].id = id
               /\ \A g \in Handlers \ {h} : calls'[g] = calls[g]
    <2> DEFINE c == [at |-> step, id |-> id]
    <2>1. c \in CallType /\ c.at = step /\ c.id = id
      BY DEF CallType
    <2>2. calls' = [calls EXCEPT ![h] = c] /\ calls \in [Handlers -> CallType]
      BY <1>1 DEF Typed, CallType
    <2> HIDE DEF c
    <2> QED
      BY <2>1, <2>2
  <1>2. "idle" \in Steps /\ None \in IDs
    BY DEF Steps, IDs
  <1> QED
    BY <1>1, <1>2 DEF Goto, Return, NoCall

\* And a sweep's.
LEMMA SweepTypes ==
    ASSUME Typed, NEW s \in Sweepers, NEW w \in SweepType, sweep' = [sweep EXCEPT ![s] = w]
    PROVE  /\ sweep' \in [Sweepers -> SweepType]
           /\ sweep'[s] = w
           /\ \A t \in Sweepers \ {s} : sweep'[t] = sweep[t]
  BY DEF Typed, SweepType

--------------------------------------------------------------------------------
(* Who carries an event *)

\* What a step may leave as it is: the rows but for what RowMove allows, the
\* events of a kind, and who is about to record one.
NoNewCreator ==
    /\ \A h \in Handlers, i \in BanIDs : Creating(h, i)' => Creating(h, i)
    /\ \A s \in Sweepers, i \in BanIDs : Adopting(s, i)' => Adopting(s, i)
NoNewLifter == \A h \in Handlers, i \in BanIDs : Lifting(h, i)' => Lifting(h, i)

\* Then nothing changes in how often a creation is recorded, or can be.
LEMMA CreatedKept ==
    ASSUME Typed, RowMove, CreatedOnce, NoNewCreator, pages'["created"] = pages["created"]
    PROVE  CreatedOnce'
  BY RowFacts DEF CreatedOnce, NoNewCreator

\* The same for a lifting.
LEMMA RemovedKept ==
    ASSUME Typed, RowMove, RemovedOnce, NoNewLifter, pages'["removed"] = pages["removed"]
    PROVE  RemovedOnce'
  <1>1. \A i \in DOMAIN bans : /\ i \in DOMAIN bans'
                               /\ bans[i].state = "removed" => bans'[i].state = "removed"
    BY RowFacts DEF RowMove
  <1> QED
    BY <1>1 DEF RemovedOnce, NoNewLifter

\* And for an expiry.
LEMMA ExpiredKept ==
    ASSUME Typed, RowMove, ExpiredOnce, pages'["expired"] = pages["expired"]
    PROVE  ExpiredOnce'
  <1>1. \A i \in DOMAIN bans : /\ i \in DOMAIN bans'
                               /\ bans[i].state = "expired" => bans'[i].state = "expired"
    BY RowFacts DEF RowMove
  <1> QED
    BY <1>1 DEF ExpiredOnce

\* An expiry is recorded by the statement that makes it.
LEMMA ExpiredNow ==
    ASSUME Typed, OneActive, ExpiredOnce, Expire
    PROVE  /\ ExpiredOnce'
           /\ pages' \in PagesType
           /\ pages'["created"] = pages["created"] /\ pages'["removed"] = pages["removed"]
  <1>1. /\ pages' \in PagesType
        /\ pages'["created"] = pages["created"] /\ pages'["removed"] = pages["removed"]
        /\ \A i \in BanIDs : pages'["expired"][i] =
              IF i \in Due THEN pages["expired"][i] + 1 ELSE pages["expired"][i]
    BY PagesTypes DEF Expire, Kinds
  <1>2. \A i \in BanIDs : pages["expired"][i] \in Nat
    BY DEF Typed, Kinds
  <1>3. ASSUME NEW i \in Due, i \in BanIDs
        PROVE  /\ pages'["expired"][i] = 1
               /\ i \in DOMAIN bans' /\ bans'[i].state = "expired"
    <2>1. bans[i].state = "active" /\ i \in DOMAIN bans' /\ bans'[i].state = "expired"
      BY ExpiredRows
    <2>2. pages["expired"][i] = 0
      BY <1>2, <1>3, <2>1 DEF ExpiredOnce
    <2> QED
      BY <1>1, <1>3, <2>1, <2>2
  <1>4. ASSUME NEW i \in BanIDs, i \notin Due
        PROVE  /\ pages'["expired"][i] = pages["expired"][i]
               /\ i \in DOMAIN bans => i \in DOMAIN bans' /\ bans'[i] = bans[i]
    BY <1>1, <1>4, ExpiredRows
  <1>5. ExpiredOnce'
    BY <1>2, <1>3, <1>4 DEF ExpiredOnce
  <1> QED
    BY <1>1, <1>5

\* A request that goes on carries what it carried.
LEMMA CallCarries ==
    ASSUME Typed, NEW h \in Handlers, UNCHANGED sweep
    PROVE  /\ \A step \in Steps, id \in IDs :
                Goto(h, step, id) =>
                   /\ (step \in {"created", "recordCreated"} => Creating(h, id)) => NoNewCreator
                   /\ (step \in {"lifted", "recordRemoved"} => Lifting(h, id)) => NoNewLifter
           /\ Return(h) => NoNewCreator /\ NoNewLifter
  <1>1. ASSUME NEW step \in Steps, NEW id \in IDs, Goto(h, step, id)
        PROVE  /\ (step \in {"created", "recordCreated"} => Creating(h, id)) => NoNewCreator
               /\ (step \in {"lifted", "recordRemoved"} => Lifting(h, id)) => NoNewLifter
    <2>1. /\ calls'[h].at = step /\ calls'[h].id = id
          /\ \A g \in Handlers \ {h} : calls'[g] = calls[g]
      BY <1>1, CallTypes
    <2> QED
      BY <2>1 DEF NoNewCreator, NoNewLifter, Creating, Lifting, Adopting
  <1>2. ASSUME Return(h)
        PROVE  NoNewCreator /\ NoNewLifter
    BY <1>2, CallTypes DEF NoNewCreator, NoNewLifter, Creating, Lifting, Adopting
  <1> QED
    BY <1>1, <1>2

\* So does a sweep, and the world around carries nothing.
LEMMA SweepCarries ==
    ASSUME Typed, UNCHANGED calls
    PROVE  /\ NoNewLifter
           /\ UNCHANGED sweep => NoNewCreator
           /\ \A s \in Sweepers, w \in SweepType :
                sweep' = [sweep EXCEPT ![s] = w] /\ w.at # "stamp" => NoNewCreator
  <1>1. NoNewLifter
    BY DEF NoNewLifter, Lifting
  <1>2. UNCHANGED sweep => NoNewCreator
    BY DEF NoNewCreator, Creating, Adopting
  <1>3. ASSUME NEW s \in Sweepers, NEW w \in SweepType,
               sweep' = [sweep EXCEPT ![s] = w], w.at # "stamp"
        PROVE  NoNewCreator
    BY <1>3, SweepTypes DEF NoNewCreator, Creating, Adopting
  <1> QED
    BY <1>1, <1>2, <1>3

\* Rows that were known are still there.
LEMMA KnownKept ==
    ASSUME Typed, RowMove, KnownRows,
           \A h \in Handlers : calls'[h].id \in {calls[h].id, None} \cup DOMAIN bans',
           \A s \in Sweepers : /\ sweep'[s].row \in {sweep[s].row, None} \cup DOMAIN bans'
                               /\ sweep'[s].id \in {sweep[s].id, None} \cup DOMAIN bans'
    PROVE  KnownRows'
  BY RowFacts DEF KnownRows

\* A request's step leaves what the others know.
LEMMA CallKnows ==
    ASSUME Typed, RowMove, KnownRows, UNCHANGED sweep, NEW h \in Handlers
    PROVE  /\ \A step \in Steps, id \in {None} \cup DOMAIN bans' :
                Goto(h, step, id) /\ id \in IDs => KnownRows'
           /\ Return(h) => KnownRows'
  <1>1. ASSUME NEW step \in Steps, NEW id \in {None} \cup DOMAIN bans', Goto(h, step, id), id \in IDs
        PROVE  KnownRows'
    <2>1. \A g \in Handlers : calls'[g].id \in {calls[g].id, None} \cup DOMAIN bans'
      BY <1>1, CallTypes
    <2> QED
      BY <2>1, KnownKept
  <1>2. ASSUME Return(h) PROVE KnownRows'
    <2>1. \A g \in Handlers : calls'[g].id \in {calls[g].id, None} \cup DOMAIN bans'
      BY <1>2, CallTypes
    <2> QED
      BY <2>1, KnownKept
  <1> QED
    BY <1>1, <1>2

--------------------------------------------------------------------------------
(* Requests *)

\* The parts of the invariant that a request's step disturbs only by what it
\* carries.
LEMMA RequestKeeps ==
    ASSUME BanInv, NEW h \in Handlers, RowMove, OneActive', KnownRows', UNCHANGED sweep,
           calls' \in [Handlers -> CallType], crs' \in [Names -> Objects],
           pages' \in PagesType, made' \in MadeType,
           CreatedOnce', RemovedOnce', ExpiredOnce'
    PROVE  BanInv'
  BY DEF BanInv, Typed, RowMove, CallType, PagesType, MadeType

\* No statement that touches neither rows nor events changes what is recorded.
LEMMA QuietKeeps ==
    ASSUME BanInv, UNCHANGED <<bans, pages>>, NoNewCreator, NoNewLifter
    PROVE  /\ RowMove /\ OneActive' /\ pages' \in PagesType
           /\ CreatedOnce' /\ RemovedOnce' /\ ExpiredOnce'
  <1>1. RowMove /\ OneActive'
    BY SameRows DEF BanInv
  <1>2. pages' \in PagesType
    BY DEF BanInv, Typed, PagesType
  <1> QED
    BY <1>1, <1>2, CreatedKept, RemovedKept, ExpiredKept DEF BanInv

\* A request starts and has made nothing yet.
LEMMA StartBanKeeps ==
    ASSUME BanInv, NEW h \in Handlers, StartBan(h)
    PROVE  BanInv'
  <1>t. Typed /\ KnownRows /\ made' \in MadeType /\ None \in IDs /\ "checked" \in Steps
    BY MadeTypes DEF BanInv, StartBan, Steps
  <1>1. Goto(h, "checked", None) /\ UNCHANGED <<bans, crs, sweep, pages>>
    BY DEF StartBan
  <1>2. NoNewCreator /\ NoNewLifter /\ calls' \in [Handlers -> CallType]
    BY <1>t, <1>1, CallCarries, CallTypes
  <1>3. /\ RowMove /\ OneActive' /\ pages' \in PagesType
        /\ CreatedOnce' /\ RemovedOnce' /\ ExpiredOnce'
    BY <1>1, <1>2, QuietKeeps
  <1>4. KnownRows'
    BY <1>t, <1>1, <1>3, CallKnows
  <1> QED
    BY <1>t, <1>1, <1>2, <1>3, <1>4, RequestKeeps DEF Typed

\* Its expiry is recorded as it happens.
LEMMA expireLapsedKeeps ==
    ASSUME BanInv, NEW h \in Handlers, expireLapsed(h)
    PROVE  BanInv'
  <1>t. /\ Typed /\ KnownRows /\ OneActive /\ None \in IDs /\ "cleared" \in Steps
        /\ Goto(h, "cleared", None) /\ UNCHANGED <<crs, sweep, made>>
    BY MadeTypes DEF BanInv, expireLapsed, Steps
  <1>1. NoNewCreator /\ NoNewLifter /\ calls' \in [Handlers -> CallType]
    BY <1>t, CallCarries, CallTypes
  <1>2. /\ RowMove /\ OneActive' /\ pages' \in PagesType
        /\ CreatedOnce' /\ RemovedOnce' /\ ExpiredOnce'
    <2>1. CASE Expire
      BY <1>t, <1>1, <2>1, ExpiredRows, ExpiredNow, CreatedKept, RemovedKept DEF BanInv
    <2>2. CASE UNCHANGED <<bans, pages>>
      BY <1>1, <2>2, QuietKeeps
    <2> QED
      BY <2>1, <2>2 DEF expireLapsed
  <1>3. KnownRows'
    BY <1>t, <1>2, CallKnows
  <1> QED
    BY <1>t, <1>1, <1>2, <1>3, RequestKeeps DEF Typed, MadeType

\* A new row has no event, and no one but its creator is going to record one.
LEMMA NewRow ==
    ASSUME BanInv
    PROVE  /\ Len(bans) + 1 \in BanIDs => pages["created"][Len(bans) + 1] = 0
           /\ \A h \in Handlers : ~Creating(h, Len(bans) + 1)
           /\ \A s \in Sweepers : ~Adopting(s, Len(bans) + 1)
  <1>1. Len(bans) + 1 \notin {None} \cup DOMAIN bans
    BY RowFacts DEF BanInv, None
  <1>2. \A h \in Handlers : ~Creating(h, Len(bans) + 1)
    BY <1>1 DEF BanInv, KnownRows, Creating
  <1>3. \A s \in Sweepers : ~Adopting(s, Len(bans) + 1)
    BY <1>1 DEF BanInv, KnownRows, Adopting
  <1>4. Len(bans) + 1 \in BanIDs => pages["created"][Len(bans) + 1] \in Nat
    BY DEF BanInv, Typed, Kinds
  <1> QED
    BY <1>1, <1>2, <1>3, <1>4 DEF BanInv, CreatedOnce

\* The row it creates is its own to record.
LEMMA CreateBanKeeps ==
    ASSUME BanInv, NEW h \in Handlers, CreateBan(h)
    PROVE  BanInv'
  <1>t. Typed /\ KnownRows /\ OneActive /\ UNCHANGED <<crs, sweep, pages, made>>
    BY DEF BanInv, CreateBan
  <1>1. CASE Return(h) /\ UNCHANGED bans
    <2>1. NoNewCreator /\ NoNewLifter /\ calls' \in [Handlers -> CallType]
      BY <1>t, <1>1, CallCarries, CallTypes
    <2>2. /\ RowMove /\ OneActive' /\ pages' \in PagesType
          /\ CreatedOnce' /\ RemovedOnce' /\ ExpiredOnce'
      BY <1>t, <1>1, <2>1, QuietKeeps
    <2>3. KnownRows'
      BY <1>t, <1>1, <2>2, CallKnows
    <2> QED
      BY <1>t, <2>1, <2>2, <2>3, RequestKeeps DEF Typed, MadeType
  <1>2. CASE MayCreate /\ Created /\ Goto(h, "created", Len(bans) + 1)
    <2> DEFINE n == Len(bans) + 1
    <2>1. RowMove /\ OneActive' /\ n \in BanIDs /\ n \in IDs /\ n \in DOMAIN bans'
      <3>1. RowMove /\ OneActive' /\ n \in BanIDs /\ Len(bans') = n
        BY <1>t, <1>2, CreatedRow
      <3>2. DOMAIN bans' = 1 .. Len(bans')
        BY <3>1, LenProperties DEF RowMove
      <3> QED
        BY <3>1, <3>2, <1>t, RowFacts DEF IDs
    <2>2. Goto(h, "created", n) /\ "created" \in Steps
      BY <1>2 DEF Steps
    <2>3. pages["created"][n] = 0 /\ (\A g \in Handlers : ~Creating(g, n)) /\ \A s \in Sweepers : ~Adopting(s, n)
      BY <2>1, NewRow
    <2> HIDE DEF n
    <2>4. /\ calls' \in [Handlers -> CallType]
          /\ calls'[h].at = "created" /\ calls'[h].id = n
          /\ \A g \in Handlers \ {h} : calls'[g] = calls[g]
      BY <1>t, <2>1, <2>2, CallTypes
    <2>5. KnownRows'
      BY <1>t, <2>1, <2>2, CallKnows
    <2>6. CreatedOnce'
      <3> SUFFICES ASSUME NEW i \in BanIDs
                   PROVE  /\ pages["created"][i] <= 1
                          /\ pages["created"][i] = 1 => i \in DOMAIN bans'
                          /\ \A g \in Handlers : Creating(g, i)' =>
                               /\ pages["created"][i] = 0
                               /\ \A f \in Handlers : Creating(f, i)' => f = g
                               /\ \A s \in Sweepers : ~Adopting(s, i)
                          /\ \A s \in Sweepers : Adopting(s, i) =>
                               /\ pages["created"][i] = 0
                               /\ \A t \in Sweepers : Adopting(t, i) => t = s
        BY <1>t DEF CreatedOnce, Adopting
      <3>1. \A g \in Handlers : Creating(g, i)' <=> IF i = n THEN g = h ELSE g # h /\ Creating(g, i)
        BY <2>3, <2>4 DEF Creating
      <3> QED
        BY <2>1, <2>3, <3>1, <1>t, RowFacts DEF BanInv, CreatedOnce
    <2>7. RemovedOnce' /\ ExpiredOnce'
      <3>1. NoNewLifter
        BY <1>t, <2>1, <2>2, CallCarries
      <3> QED
        BY <1>t, <2>1, <3>1, RemovedKept, ExpiredKept DEF BanInv
    <2> QED
      BY <1>t, <2>1, <2>4, <2>5, <2>6, <2>7, RequestKeeps DEF Typed, MadeType, PagesType
  <1> QED
    BY <1>1, <1>2 DEF CreateBan

\* One call lifts a ban; its replays lift nothing.
LEMMA RemoveBanKeeps ==
    ASSUME BanInv, NEW h \in Handlers, NEW i \in BanIDs, RemoveBan(h, i)
    PROVE  BanInv'
  <1>t. /\ Typed /\ KnownRows /\ OneActive /\ UNCHANGED <<crs, sweep, pages>>
        /\ made' \in MadeType /\ i \in DOMAIN bans /\ i \in IDs /\ calls[h] = NoCall
        /\ {"replayed", "lifted"} \subseteq Steps
    BY MadeTypes DEF BanInv, RemoveBan, IDs, Request, Steps
  <1>1. CASE UNCHANGED bans /\ (Return(h) \/ Goto(h, "replayed", i))
    <2>1. NoNewCreator /\ NoNewLifter /\ calls' \in [Handlers -> CallType]
      BY <1>t, <1>1, CallCarries, CallTypes
    <2>2. /\ RowMove /\ OneActive' /\ pages' \in PagesType
          /\ CreatedOnce' /\ RemovedOnce' /\ ExpiredOnce'
      BY <1>t, <1>1, <2>1, QuietKeeps
    <2>3. KnownRows'
      BY <1>t, <1>1, <2>2, CallKnows
    <2> QED
      BY <1>t, <2>1, <2>2, <2>3, RequestKeeps DEF Typed
  <1>2. CASE /\ bans[i].state = "active"
             /\ bans' = [bans EXCEPT ![i].state = "removed"]
             /\ Goto(h, "lifted", i)
    <2> DEFINE r == [bans[i] EXCEPT !.state = "removed"]
    <2>1. r \in Rows /\ r.state = "removed"
      BY <1>t, RowFacts DEF Rows
    <2>2. bans' = [bans EXCEPT ![i] = r]
      BY <1>2
    <2> HIDE DEF r
    <2>3. RowMove /\ OneActive' /\ bans'[i].state = "removed" /\ DOMAIN bans' = DOMAIN bans
      BY <1>t, <1>2, <2>1, <2>2, ChangedRow
    <2>4. /\ calls' \in [Handlers -> CallType]
          /\ calls'[h].at = "lifted" /\ calls'[h].id = i
          /\ \A g \in Handlers \ {h} : calls'[g] = calls[g]
      BY <1>t, <1>2, CallTypes
    <2>5. KnownRows'
      BY <1>t, <1>2, <2>3, CallKnows
    <2>6. CreatedOnce' /\ ExpiredOnce'
      <3>1. NoNewCreator
        BY <1>t, <1>2, CallCarries
      <3> QED
        BY <1>t, <2>3, <3>1, CreatedKept, ExpiredKept DEF BanInv
    <2>7. RemovedOnce'
      <3>1. pages["removed"][i] = 0 /\ \A g \in Handlers : ~Lifting(g, i)
        <4>1. pages["removed"][i] \in Nat
          BY <1>t DEF Typed, Kinds
        <4> QED
          BY <1>2, <4>1 DEF BanInv, RemovedOnce
      <3>2. \A g \in Handlers, j \in BanIDs :
              Lifting(g, j)' <=> IF g = h THEN j = i ELSE Lifting(g, j)
        BY <2>4 DEF Lifting
      <3>3. ~\E j \in BanIDs : Lifting(h, j)
        BY <1>t DEF NoCall, Lifting
      <3>4. \A j \in DOMAIN bans : bans[j].state = "removed" => bans'[j].state = "removed"
        BY <2>3 DEF RowMove
      <3> QED
        BY <1>t, <2>3, <3>1, <3>2, <3>3, <3>4 DEF BanInv, RemovedOnce
    <2> QED
      BY <1>t, <2>3, <2>4, <2>5, <2>6, <2>7, RequestKeeps DEF Typed, PagesType
  <1> QED
    BY <1>1, <1>2 DEF RemoveBan

\* The projection hands what the request carries to the step that records it.
LEMMA ProjectKeeps ==
    ASSUME BanInv, NEW h \in Handlers, Project(h)
    PROVE  BanInv'
  <1>t. /\ Typed /\ KnownRows /\ UNCHANGED <<bans, sweep, pages>>
        /\ calls[h].id \in IDs /\ calls[h].id \in {None} \cup DOMAIN bans
        /\ {"recordCreated", "recordRemoved"} \subseteq Steps
    BY DEF BanInv, Project, Typed, KnownRows, Steps
  <1>1. crs' \in [Names -> Objects] /\ made' \in MadeType
    <2>1. Projected(calls[h].id) \in Objects
      BY <1>t DEF Projected, Objects, Specs, IDs
    <2> QED
      BY <1>t, <2>1, MadeTypes DEF Project
  <1>2. \/ Return(h)
        \/ Goto(h, "recordCreated", calls[h].id) /\ calls[h].at = "created"
        \/ Goto(h, "recordRemoved", calls[h].id) /\ calls[h].at = "lifted"
    BY DEF Project, RecordStep
  <1>3. NoNewCreator /\ NoNewLifter /\ calls' \in [Handlers -> CallType]
    BY <1>t, <1>2, CallCarries, CallTypes DEF Creating, Lifting
  <1>4. /\ RowMove /\ OneActive' /\ pages' \in PagesType
        /\ CreatedOnce' /\ RemovedOnce' /\ ExpiredOnce'
    BY <1>t, <1>3, QuietKeeps
  <1>5. KnownRows'
    BY <1>t, <1>2, <1>4, CallKnows
  <1> QED
    BY <1>t, <1>1, <1>3, <1>4, <1>5, RequestKeeps

\* An event is recorded by the request that carries it, which then carries nothing.
LEMMA recordKeeps ==
    ASSUME BanInv, NEW h \in Handlers, record(h)
    PROVE  BanInv'
  <1>t. /\ Typed /\ KnownRows /\ OneActive /\ UNCHANGED <<bans, crs, sweep, made>>
        /\ Return(h) /\ calls[h].id \in IDs
    BY DEF BanInv, record, Typed
  <1>1. NoNewCreator /\ NoNewLifter /\ calls' \in [Handlers -> CallType]
        /\ calls'[h].at = "idle" /\ \A g \in Handlers \ {h} : calls'[g] = calls[g]
    BY <1>t, CallCarries, CallTypes
  <1>2. RowMove /\ OneActive'
    BY <1>t, SameRows
  <1>3. KnownRows'
    BY <1>t, <1>2, CallKnows
  <1> DEFINE n == calls[h].id
  <1>4. CASE calls[h].at = "recordCreated"
    <2>1. /\ pages' \in PagesType
          /\ pages'["removed"] = pages["removed"] /\ pages'["expired"] = pages["expired"]
          /\ \A i \in BanIDs : pages'["created"][i] =
                IF i = n THEN pages["created"][i] + 1 ELSE pages["created"][i]
      <3>1. Recorded("created", {n})
        BY <1>4 DEF record
      <3> QED
        BY <3>1, <1>t, PagesTypes DEF Kinds
    <2>2. Creating(h, n)
      BY <1>4 DEF Creating
    <2> HIDE DEF n
    <2>3. \A g \in Handlers, i \in BanIDs : Creating(g, i)' <=> g # h /\ Creating(g, i)
      BY <1>1 DEF Creating
    <2>4. \A s \in Sweepers, i \in BanIDs : Adopting(s, i)' <=> Adopting(s, i)
      BY <1>t DEF Adopting
    <2>5. CreatedOnce'
      <3> SUFFICES ASSUME NEW i \in BanIDs
                   PROVE  /\ pages'["created"][i] <= 1
                          /\ pages'["created"][i] = 1 => i \in DOMAIN bans'
                          /\ \A g \in Handlers : Creating(g, i)' =>
                               /\ pages'["created"][i] = 0
                               /\ \A f \in Handlers : Creating(f, i)' => f = g
                               /\ \A s \in Sweepers : ~Adopting(s, i)'
                          /\ \A s \in Sweepers : Adopting(s, i)' =>
                               /\ pages'["created"][i] = 0
                               /\ \A t \in Sweepers : Adopting(t, i)' => t = s
        BY DEF CreatedOnce
      <3>1. CASE i = n
        <4>1. /\ pages["created"][i] = 0 /\ (\A g \in Handlers : Creating(g, i) => g = h)
              /\ \A s \in Sweepers : ~Adopting(s, i)
          BY <2>2, <3>1 DEF BanInv, CreatedOnce
        <4>2. i \in DOMAIN bans
          BY <2>2, <3>1, <1>t, RowFacts DEF KnownRows, Creating
        <4> QED
          BY <1>t, <2>1, <2>3, <2>4, <3>1, <4>1, <4>2
      <3>2. CASE i # n
        BY <1>t, <2>1, <2>3, <2>4, <3>2 DEF BanInv, CreatedOnce
      <3> QED
        BY <3>1, <3>2
    <2>6. RemovedOnce' /\ ExpiredOnce'
      BY <1>t, <1>1, <1>2, <2>1, RemovedKept, ExpiredKept DEF BanInv
    <2> QED
      BY <1>t, <1>1, <1>2, <1>3, <2>1, <2>5, <2>6, RequestKeeps DEF Typed, MadeType
  <1>5. CASE calls[h].at = "recordRemoved"
    <2>1. /\ pages' \in PagesType
          /\ pages'["created"] = pages["created"] /\ pages'["expired"] = pages["expired"]
          /\ \A i \in BanIDs : pages'["removed"][i] =
                IF i = n THEN pages["removed"][i] + 1 ELSE pages["removed"][i]
      <3>1. Recorded("removed", {n})
        BY <1>5 DEF record
      <3> QED
        BY <3>1, <1>t, PagesTypes DEF Kinds
    <2>2. Lifting(h, n)
      BY <1>5 DEF Lifting
    <2> HIDE DEF n
    <2>3. \A g \in Handlers, i \in BanIDs : Lifting(g, i)' <=> g # h /\ Lifting(g, i)
      BY <1>1 DEF Lifting
    <2>4. RemovedOnce'
      <3> SUFFICES ASSUME NEW i \in BanIDs
                   PROVE  /\ pages'["removed"][i] <= 1
                          /\ pages'["removed"][i] = 1 => i \in DOMAIN bans /\ bans[i].state = "removed"
                          /\ \A g \in Handlers : Lifting(g, i)' =>
                               /\ pages'["removed"][i] = 0
                               /\ i \in DOMAIN bans /\ bans[i].state = "removed"
                               /\ \A f \in Handlers : Lifting(f, i)' => f = g
        BY <1>t DEF RemovedOnce
      <3>1. CASE i = n
        BY <2>1, <2>2, <2>3, <3>1 DEF BanInv, RemovedOnce
      <3>2. CASE i # n
        BY <2>1, <2>3, <3>2 DEF BanInv, RemovedOnce
      <3> QED
        BY <3>1, <3>2
    <2>5. CreatedOnce' /\ ExpiredOnce'
      BY <1>t, <1>1, <1>2, <2>1, CreatedKept, ExpiredKept DEF BanInv
    <2> QED
      BY <1>t, <1>1, <1>2, <1>3, <2>1, <2>4, <2>5, RequestKeeps DEF Typed, MadeType
  <1> QED
    BY <1>4, <1>5 DEF record

\* What a replica that dies was going to record is recorded by nobody.
LEMMA CrashKeeps ==
    ASSUME BanInv, NEW h \in Handlers, Crash(h)
    PROVE  BanInv'
  <1>t. Typed /\ KnownRows /\ made' \in MadeType /\ Return(h) /\ UNCHANGED <<bans, crs, sweep, pages>>
    BY MadeTypes DEF BanInv, Crash
  <1>1. NoNewCreator /\ NoNewLifter /\ calls' \in [Handlers -> CallType]
    BY <1>t, CallCarries, CallTypes
  <1>2. /\ RowMove /\ OneActive' /\ pages' \in PagesType
        /\ CreatedOnce' /\ RemovedOnce' /\ ExpiredOnce'
    BY <1>t, <1>1, QuietKeeps
  <1>3. KnownRows'
    BY <1>t, <1>2, CallKnows
  <1> QED
    BY <1>t, <1>1, <1>2, <1>3, RequestKeeps DEF Typed

--------------------------------------------------------------------------------
(* The sweep *)

\* As RequestKeeps, for a sweep's step.
LEMMA SweepKeeps ==
    ASSUME BanInv, RowMove, OneActive', KnownRows', UNCHANGED calls,
           sweep' \in [Sweepers -> SweepType], crs' \in [Names -> Objects],
           pages' \in PagesType, made' \in MadeType,
           CreatedOnce', RemovedOnce', ExpiredOnce'
    PROVE  BanInv'
  BY DEF BanInv, Typed, RowMove, SweepType, PagesType, MadeType

\* A sweep's step that ends in state w and records and creates nothing.
LEMMA QuietSweep ==
    ASSUME BanInv, NEW s \in Sweepers, NEW w \in SweepType, sweep' = [sweep EXCEPT ![s] = w],
           w.at # "stamp", w.row \in {sweep[s].row, None} \cup DOMAIN bans,
           w.id \in {sweep[s].id, None},
           UNCHANGED <<bans, calls, pages>>,
           crs' \in [Names -> Objects], made' \in MadeType
    PROVE  BanInv'
  <1>t. Typed /\ KnownRows
    BY DEF BanInv
  <1>1. NoNewCreator /\ NoNewLifter
    BY <1>t, SweepCarries
  <1>2. /\ RowMove /\ OneActive' /\ pages' \in PagesType
        /\ CreatedOnce' /\ RemovedOnce' /\ ExpiredOnce'
    BY <1>1, QuietKeeps
  <1>3. /\ sweep' \in [Sweepers -> SweepType] /\ sweep'[s] = w
        /\ \A t \in Sweepers \ {s} : sweep'[t] = sweep[t]
    BY <1>t, SweepTypes
  <1>4. KnownRows'
    BY <1>t, <1>2, <1>3, KnownKept
  <1> QED
    BY <1>2, <1>3, <1>4, SweepKeeps

\* The step of a sweep that changes where it is, and what it has left to do.
LEMMA SweepFields ==
    ASSUME Typed, NEW s \in Sweepers
    PROVE  /\ sweep[s] \in SweepType
           /\ \A a \in {"rows", "objects", "upsert", "match"} :
                LET w == [sweep[s] EXCEPT !.at = a]
                IN  w \in SweepType /\ w.at = a /\ w.row = sweep[s].row /\ w.id = sweep[s].id
           /\ \A n :
                LET w == [sweep[s] EXCEPT !.todo = @ \ {n}]
                IN  w \in SweepType /\ w.at = sweep[s].at /\ w.row = sweep[s].row /\ w.id = sweep[s].id
           /\ NoSweep \in SweepType /\ NoSweep.at = "idle" /\ NoSweep.row = None /\ NoSweep.id = None
  <1>1. sweep[s] \in SweepType
    BY DEF Typed, SweepType
  <1>2. NoSweep \in SweepType /\ NoSweep.at = "idle" /\ NoSweep.row = None /\ NoSweep.id = None
    BY MadeTypes DEF NoSweep, SweepType
  <1> QED
    BY <1>1, <1>2 DEF SweepType

\* The sweep's expiry is recorded as it happens.
LEMMA ExpireDueBansKeeps ==
    ASSUME BanInv, NEW s \in Sweepers, ExpireDueBans(s)
    PROVE  BanInv'
  <1>t. Typed /\ KnownRows /\ OneActive /\ Expire /\ UNCHANGED <<crs, calls, made>>
    BY DEF BanInv, ExpireDueBans
  <1> DEFINE w == [sweep[s] EXCEPT !.at = "rows"]
  <1>1. /\ w \in SweepType /\ w.at = "rows" /\ w.row = sweep[s].row /\ w.id = sweep[s].id
        /\ sweep' = [sweep EXCEPT ![s] = w]
    BY <1>t, SweepFields DEF ExpireDueBans
  <1> HIDE DEF w
  <1>2. NoNewCreator /\ NoNewLifter
    BY <1>t, <1>1, SweepCarries
  <1>3. /\ RowMove /\ OneActive' /\ pages' \in PagesType
        /\ CreatedOnce' /\ RemovedOnce' /\ ExpiredOnce'
    BY <1>t, <1>2, ExpiredRows, ExpiredNow, CreatedKept, RemovedKept DEF BanInv
  <1>4. /\ sweep' \in [Sweepers -> SweepType] /\ sweep'[s] = w
        /\ \A t \in Sweepers \ {s} : sweep'[t] = sweep[t]
    BY <1>t, <1>1, SweepTypes
  <1>5. KnownRows'
    BY <1>t, <1>1, <1>3, <1>4, KnownKept
  <1> QED
    BY <1>t, <1>3, <1>4, <1>5, SweepKeeps DEF Typed, MadeType

\* Its listings change nothing but what it knows.
LEMMA ListsKeep ==
    ASSUME BanInv, NEW s \in Sweepers, ListBans(s) \/ ListCRs(s)
    PROVE  BanInv'
  <1>t. Typed /\ sweep[s] \in SweepType /\ UNCHANGED <<bans, crs, calls, pages, made>>
    BY SweepFields DEF BanInv, ListBans, ListCRs
  <1>1. CASE ListBans(s)
    <2> DEFINE row == IF Active = {} THEN None ELSE CHOOSE i \in Active : TRUE
               w == [sweep[s] EXCEPT !.at = "objects", !.row = row]
    <2>1. row \in {None} \cup DOMAIN bans /\ row \in IDs
      BY <1>t, RowFacts DEF Active, IDs
    <2>2. sweep' = [sweep EXCEPT ![s] = w]
      BY <1>1 DEF ListBans
    <2> HIDE DEF row
    <2>3. w \in SweepType /\ w.at = "objects" /\ w.row = row /\ w.id = sweep[s].id
      BY <1>t, <2>1 DEF SweepType
    <2> HIDE DEF w
    <2> QED
      BY <1>t, <2>1, <2>2, <2>3, QuietSweep DEF Typed, MadeType
  <1>2. CASE ListCRs(s)
    <2> DEFINE w == [sweep[s] EXCEPT !.at = "upsert", !.crs = crs, !.todo = {n \in Names : Present(crs[n])}]
    <2>1. sweep' = [sweep EXCEPT ![s] = w]
      BY <1>2 DEF ListCRs
    <2>2. crs \in [Names -> Objects] /\ {n \in Names : Present(crs[n])} \in SUBSET Names
      BY <1>t DEF Typed
    <2>3. w \in SweepType /\ w.at = "upsert" /\ w.row = sweep[s].row /\ w.id = sweep[s].id
      BY <1>t, <2>2 DEF SweepType
    <2> HIDE DEF w
    <2> QED
      BY <1>t, <2>1, <2>3, QuietSweep DEF Typed, MadeType
  <1> QED
    BY <1>1, <1>2

\* Nor does the object it writes for a row.
LEMMA UpsertRowKeeps ==
    ASSUME BanInv, NEW s \in Sweepers, UpsertRow(s)
    PROVE  BanInv'
  <1>t. Typed /\ sweep[s] \in SweepType /\ UNCHANGED <<bans, calls, pages>>
    BY SweepFields DEF BanInv, UpsertRow
  <1> DEFINE w == [sweep[s] EXCEPT !.at = "match"]
  <1>1. /\ w \in SweepType /\ w.at = "match" /\ w.row = sweep[s].row /\ w.id = sweep[s].id
        /\ sweep' = [sweep EXCEPT ![s] = w]
    BY <1>t, SweepFields DEF UpsertRow
  <1> HIDE DEF w
  <1>2. crs' \in [Names -> Objects] /\ made' \in MadeType
    <2>1. Projected(sweep[s].row) \in Objects
      BY <1>t DEF SweepType, Projected, Objects, Specs, IDs
    <2>2. UNCHANGED <<crs, made>> \/ Write(CRName, Projected(sweep[s].row))
      BY DEF UpsertRow
    <2> QED
      BY <1>t, <2>1, <2>2, MadeTypes DEF Typed, MadeType
  <1> QED
    BY <1>t, <1>1, <1>2, QuietSweep

\* It goes on to its next object.
LEMMA DoneKeeps ==
    ASSUME BanInv, NEW s \in Sweepers, NEW n, Done(s, n), sweep[s].at # "stamp",
           UNCHANGED <<bans, calls, pages>>, crs' \in [Names -> Objects], made' \in MadeType
    PROVE  BanInv'
  <1>t. Typed
    BY DEF BanInv
  <1> DEFINE w == [sweep[s] EXCEPT !.todo = @ \ {n}]
  <1>1. /\ w \in SweepType /\ w.at = sweep[s].at /\ w.row = sweep[s].row /\ w.id = sweep[s].id
        /\ sweep' = [sweep EXCEPT ![s] = w]
    BY <1>t, SweepFields DEF Done
  <1> HIDE DEF w
  <1> QED
    BY <1>1, QuietSweep

\* A stamp or a deletion of an object, or leaving it, leaves rows and events alone.
LEMMA StampAndDeleteKeep ==
    ASSUME BanInv, NEW s \in Sweepers, NEW n \in Names,
           LeaveCR(s, n) \/ StampCR(s, n) \/ DeleteCR(s, n)
    PROVE  BanInv'
  <1>t. /\ Typed /\ sweep[s] \in SweepType /\ UNCHANGED <<bans, calls, pages>>
        /\ Done(s, n) /\ sweep[s].at = "match" /\ sweep[s].row \in IDs
    BY SweepFields DEF BanInv, LeaveCR, StampCR, DeleteCR, SweepType
  <1>1. \/ UNCHANGED <<crs, made>>
        \/ Stamp(n, sweep[s].row)
        \/ Write(n, Absent)
    BY DEF LeaveCR, StampCR, DeleteCR, Collected
  <1>2. crs' \in [Names -> Objects] /\ made' \in MadeType
    BY <1>t, <1>1, MadeTypes DEF Typed, MadeType
  <1> QED
    BY <1>t, <1>2, DoneKeeps

\* An adopted row is new, and the sweep that made it carries its event.
LEMMA AdoptCRKeeps ==
    ASSUME BanInv, NEW s \in Sweepers, NEW n \in Names, AdoptCR(s, n)
    PROVE  BanInv'
  <1>t. /\ Typed /\ KnownRows /\ OneActive /\ sweep[s] \in SweepType
        /\ UNCHANGED <<crs, calls, pages>> /\ sweep[s].at = "match"
    BY SweepFields DEF BanInv, AdoptCR
  <1>1. CASE Done(s, n) /\ UNCHANGED bans
    <2>1. made' \in MadeType
      BY <1>t, MadeTypes DEF AdoptCR, Typed, MadeType
    <2> QED
      BY <1>t, <1>1, <2>1, DoneKeeps DEF Typed
  <1>2. CASE /\ MayCreate /\ Created /\ UNCHANGED made
             /\ sweep' = [sweep EXCEPT ![s].at = "stamp", ![s].name = n, ![s].id = Len(bans) + 1]
    <2> DEFINE k == Len(bans) + 1
               w == [sweep[s] EXCEPT !.at = "stamp", !.name = n, !.id = k]
    <2>1. RowMove /\ OneActive' /\ k \in BanIDs /\ k \in IDs /\ k \in DOMAIN bans'
      <3>1. RowMove /\ OneActive' /\ k \in BanIDs /\ Len(bans') = k
        BY <1>t, <1>2, CreatedRow
      <3>2. DOMAIN bans' = 1 .. Len(bans')
        BY <3>1, LenProperties DEF RowMove
      <3> QED
        BY <3>1, <3>2, <1>t, RowFacts DEF IDs
    <2>2. sweep' = [sweep EXCEPT ![s] = w]
      BY <1>2
    <2>3. /\ pages["created"][k] = 0 /\ (\A g \in Handlers : ~Creating(g, k))
          /\ \A t \in Sweepers : ~Adopting(t, k)
      BY <2>1, NewRow
    <2> HIDE DEF k
    <2>4. w \in SweepType /\ w.at = "stamp" /\ w.row = sweep[s].row /\ w.id = k
      BY <1>t, <2>1 DEF SweepType
    <2> HIDE DEF w
    <2>5. /\ sweep' \in [Sweepers -> SweepType] /\ sweep'[s] = w
          /\ \A t \in Sweepers \ {s} : sweep'[t] = sweep[t]
      BY <1>t, <2>2, <2>4, SweepTypes
    <2>6. KnownRows'
      BY <1>t, <2>1, <2>4, <2>5, KnownKept
    <2>7. CreatedOnce'
      <3> SUFFICES ASSUME NEW i \in BanIDs
                   PROVE  /\ pages["created"][i] <= 1
                          /\ pages["created"][i] = 1 => i \in DOMAIN bans'
                          /\ \A g \in Handlers : Creating(g, i) =>
                               /\ pages["created"][i] = 0
                               /\ \A f \in Handlers : Creating(f, i) => f = g
                               /\ \A t \in Sweepers : ~Adopting(t, i)'
                          /\ \A t \in Sweepers : Adopting(t, i)' =>
                               /\ pages["created"][i] = 0
                               /\ \A u \in Sweepers : Adopting(u, i)' => u = t
        BY <1>t DEF CreatedOnce, Creating
      <3>1. \A t \in Sweepers : Adopting(t, i)' <=> IF i = k THEN t = s ELSE Adopting(t, i)
        BY <1>t, <2>3, <2>4, <2>5 DEF Adopting
      <3> QED
        BY <2>1, <2>3, <3>1, <1>t, RowFacts DEF BanInv, CreatedOnce
    <2>8. RemovedOnce' /\ ExpiredOnce'
      <3>1. NoNewLifter
        BY <1>t, SweepCarries
      <3> QED
        BY <1>t, <2>1, <3>1, RemovedKept, ExpiredKept DEF BanInv
    <2> QED
      BY <1>t, <1>2, <2>1, <2>5, <2>6, <2>7, <2>8, SweepKeeps DEF Typed, MadeType, PagesType
  <1> QED
    BY <1>1, <1>2 DEF AdoptCR

\* The adoption is recorded once, after the stamp.
LEMMA StampAdoptedKeeps ==
    ASSUME BanInv, NEW s \in Sweepers, StampAdopted(s)
    PROVE  BanInv'
  <1>t. /\ Typed /\ KnownRows /\ OneActive /\ sweep[s] \in SweepType
        /\ UNCHANGED <<bans, calls>> /\ sweep[s].at = "stamp"
        /\ Stamp(sweep[s].name, sweep[s].id) /\ Recorded("created", {sweep[s].id})
    BY SweepFields DEF BanInv, StampAdopted
  <1> DEFINE n == sweep[s].id
             w == [sweep[s] EXCEPT !.at = "match", !.id = None, !.name = CRName,
                                   !.todo = @ \ {sweep[s].name}]
  <1>1. sweep' = [sweep EXCEPT ![s] = w]
    BY DEF StampAdopted
  <1>2. w \in SweepType /\ w.at = "match" /\ w.row = sweep[s].row /\ w.id = None
    BY <1>t, MadeTypes DEF SweepType
  <1>3. crs' \in [Names -> Objects] /\ made' \in MadeType
    BY <1>t, MadeTypes DEF SweepType
  <1> HIDE DEF w
  <1>4. RowMove /\ OneActive'
    BY <1>t, SameRows
  <1>5. /\ sweep' \in [Sweepers -> SweepType] /\ sweep'[s] = w
        /\ \A t \in Sweepers \ {s} : sweep'[t] = sweep[t]
    BY <1>t, <1>1, <1>2, SweepTypes
  <1>6. KnownRows'
    BY <1>t, <1>2, <1>4, <1>5, KnownKept
  <1>7. /\ pages' \in PagesType
        /\ pages'["removed"] = pages["removed"] /\ pages'["expired"] = pages["expired"]
        /\ \A i \in BanIDs : pages'["created"][i] =
              IF i = n THEN pages["created"][i] + 1 ELSE pages["created"][i]
    BY <1>t, PagesTypes DEF Kinds
  <1>8. Adopting(s, n)
    BY <1>t DEF Adopting
  <1>9. n \in {None} \cup DOMAIN bans
    BY <1>t DEF KnownRows
  <1> HIDE DEF n
  <1>10. \A t \in Sweepers, i \in BanIDs : Adopting(t, i)' <=> t # s /\ Adopting(t, i)
    BY <1>2, <1>5 DEF Adopting
  <1>11. CreatedOnce'
    <2> SUFFICES ASSUME NEW i \in BanIDs
                 PROVE  /\ pages'["created"][i] <= 1
                        /\ pages'["created"][i] = 1 => i \in DOMAIN bans
                        /\ \A g \in Handlers : Creating(g, i) =>
                             /\ pages'["created"][i] = 0
                             /\ \A f \in Handlers : Creating(f, i) => f = g
                             /\ \A t \in Sweepers : ~Adopting(t, i)'
                        /\ \A t \in Sweepers : Adopting(t, i)' =>
                             /\ pages'["created"][i] = 0
                             /\ \A u \in Sweepers : Adopting(u, i)' => u = t
      BY <1>t DEF CreatedOnce, Creating
    <2>1. CASE i = n
      <3>1. /\ pages["created"][i] = 0 /\ (\A t \in Sweepers : Adopting(t, i) => t = s)
            /\ \A g \in Handlers : ~Creating(g, i)
        BY <1>8, <2>1 DEF BanInv, CreatedOnce
      <3>2. i \in DOMAIN bans
        BY <1>9, <1>t, <2>1, RowFacts
      <3> QED
        BY <1>7, <1>10, <2>1, <3>1, <3>2
    <2>2. CASE i # n
      BY <1>7, <1>10, <2>2 DEF BanInv, CreatedOnce
    <2> QED
      BY <2>1, <2>2
  <1>12. RemovedOnce' /\ ExpiredOnce'
    BY <1>t, <1>4, <1>7, SweepCarries, RemovedKept, ExpiredKept DEF BanInv
  <1> QED
    BY <1>t, <1>3, <1>4, <1>5, <1>6, <1>7, <1>11, <1>12, SweepKeeps

\* A sweep that ends, or is cut off, takes what it carries with it.
LEMMA SweepEndsKeep ==
    ASSUME BanInv, NEW s \in Sweepers, EndSweep(s) \/ StopLeading(s)
    PROVE  BanInv'
  <1>t. /\ Typed /\ UNCHANGED <<bans, crs, calls, pages>> /\ made' \in MadeType
        /\ sweep' = [sweep EXCEPT ![s] = NoSweep]
    BY MadeTypes DEF BanInv, EndSweep, StopLeading, Typed, MadeType
  <1> QED
    BY <1>t, SweepFields, QuietSweep DEF Typed

--------------------------------------------------------------------------------
(* The world around, and the theorems *)

\* kubectl and the clock record nothing.
LEMMA WorldKeeps ==
    ASSUME BanInv,
           \/ \E n \in Names : Remove(n) \/ \E spec \in {"theirs", "unreadable"} : Apply(n, spec)
           \/ \E i \in BanIDs : Lapse(i)
    PROVE  BanInv'
  <1>t. Typed /\ OneActive /\ KnownRows /\ UNCHANGED <<calls, sweep, pages>>
    BY DEF BanInv, Apply, Remove, Lapse
  <1>s. NoNewCreator /\ NoNewLifter
    BY <1>t, SweepCarries
  <1>1. ASSUME NEW n \in Names, NEW spec \in Specs, Apply(n, spec) \/ Remove(n)
        PROVE  BanInv'
    <2>1. made' \in MadeType
      <3>1. made.applies < MaxApplies /\ made' = [made EXCEPT !.applies = @ + 1]
        BY <1>1 DEF Apply, Remove
      <3> QED
        BY <1>t, <3>1, BanProjectionAssumption DEF Typed, MadeType
    <2> DEFINE o == [crs[n] EXCEPT !.spec = spec]
    <2>2. o \in Objects
      <3>1. crs[n] \in Objects
        BY <1>t DEF Typed
      <3> QED
        BY <3>1 DEF Objects
    <2>a. /\ UNCHANGED bans
          /\ crs' = [crs EXCEPT ![n] = o] \/ crs' = [crs EXCEPT ![n] = Absent]
      BY <1>1 DEF Apply, Remove
    <2> HIDE DEF o
    <2>b. Absent \in Objects /\ crs \in [Names -> Objects]
      BY <1>t, MadeTypes DEF Typed
    <2>3. crs' \in [Names -> Objects] /\ UNCHANGED bans
      BY <2>2, <2>a, <2>b
    <2>4. /\ RowMove /\ OneActive' /\ pages' \in PagesType
          /\ CreatedOnce' /\ RemovedOnce' /\ ExpiredOnce'
      BY <1>t, <1>s, <2>3, QuietKeeps
    <2>5. KnownRows'
      BY <1>t, <2>4, KnownKept
    <2> QED
      BY <1>t, <2>1, <2>3, <2>4, <2>5, SweepKeeps DEF Typed, SweepType
  <1>2. ASSUME NEW i \in BanIDs, Lapse(i)
        PROVE  BanInv'
    <2> DEFINE r == [bans[i] EXCEPT !.lapsed = TRUE]
    <2>1. i \in DOMAIN bans /\ bans[i].state = "active"
      BY <1>2 DEF Lapse, Active
    <2>2. r \in Rows /\ r.state = bans[i].state /\ bans' = [bans EXCEPT ![i] = r]
      BY <1>2, <1>t, <2>1, RowFacts DEF Lapse, Rows
    <2> HIDE DEF r
    <2>3. RowMove /\ OneActive'
      BY <1>t, <2>1, <2>2, ChangedRow
    <2>4. CreatedOnce' /\ RemovedOnce' /\ ExpiredOnce'
      BY <1>t, <1>s, <2>3, CreatedKept, RemovedKept, ExpiredKept DEF BanInv
    <2>5. KnownRows'
      BY <1>t, <2>3, KnownKept
    <2>6. UNCHANGED <<crs, made>>
      BY <1>2 DEF Lapse
    <2> QED
      BY <1>t, <2>3, <2>4, <2>5, <2>6, SweepKeeps DEF Typed, SweepType, MadeType, PagesType
  <1> QED
    BY <1>1, <1>2 DEF Specs

\* There is nothing at first.
LEMMA BanInit == Init => BanInv
  <1> SUFFICES ASSUME Init PROVE BanInv
    OBVIOUS
  <1>1. bans = <<>> /\ bans \in Seq(Rows) /\ Len(bans) = 0 /\ DOMAIN bans = {}
    BY EmptySeq, LenProperties DEF Init
  <1>2. NoCall \in CallType /\ NoCall.at = "idle" /\ NoCall.id = None
    BY DEF NoCall, CallType, Steps, IDs
  <1>3. Absent \in Objects /\ CRName \in Names /\ None \in IDs
    BY DEF Absent, Objects, Specs, Names, IDs
  <1>4. NoSweep \in SweepType /\ NoSweep.at = "idle" /\ NoSweep.row = None /\ NoSweep.id = None
    BY <1>3 DEF NoSweep, SweepType
  <1>5. Typed
    BY <1>1, <1>2, <1>3, <1>4, BanProjectionAssumption DEF Init, Typed, CallType, SweepType
  <1>6. KnownRows /\ OneActive
    BY <1>1, <1>2, <1>4 DEF Init, KnownRows, OneActive, Active
  <1>7. CreatedOnce /\ RemovedOnce /\ ExpiredOnce
    BY <1>2, <1>4
    DEF Init, Kinds, CreatedOnce, RemovedOnce, ExpiredOnce, Creating, Lifting, Adopting
  <1> QED
    BY <1>5, <1>6, <1>7 DEF BanInv

\* Whatever happens keeps the invariant.
LEMMA BanStep ==
    ASSUME BanInv, [Next]_vars
    PROVE  BanInv'
  <1>1. CASE UNCHANGED vars
    <2>1. \A h \in Handlers, s \in Sweepers, i \in BanIDs :
            /\ Creating(h, i)' = Creating(h, i) /\ Lifting(h, i)' = Lifting(h, i)
            /\ Adopting(s, i)' = Adopting(s, i)
      BY <1>1 DEF vars, Creating, Lifting, Adopting
    <2>2. NoNewCreator /\ NoNewLifter /\ UNCHANGED <<bans, crs, calls, sweep, pages, made>>
      BY <1>1 DEF vars, NoNewCreator, NoNewLifter, Creating, Lifting, Adopting
    <2>3. /\ RowMove /\ OneActive' /\ pages' \in PagesType
          /\ CreatedOnce' /\ RemovedOnce' /\ ExpiredOnce'
      BY <2>2, QuietKeeps
    <2>4. KnownRows'
      BY <2>2, <2>3, KnownKept DEF BanInv
    <2> QED
      BY <2>2, <2>3, <2>4, SweepKeeps DEF BanInv, Typed, SweepType, MadeType
  <1>2. ASSUME NEW h \in Handlers,
               StartBan(h) \/ (\E i \in BanIDs : RemoveBan(h, i)) \/ Handle(h) \/ Crash(h)
        PROVE  BanInv'
    BY <1>2, StartBanKeeps, RemoveBanKeeps, expireLapsedKeeps, CreateBanKeeps, ProjectKeeps,
       recordKeeps, CrashKeeps DEF Handle
  <1>3. ASSUME NEW s \in Sweepers, Reconcile(s) \/ StopLeading(s)
        PROVE  BanInv'
    BY <1>3, ExpireDueBansKeeps, ListsKeep, UpsertRowKeeps, StampAndDeleteKeep, AdoptCRKeeps,
       StampAdoptedKeeps, SweepEndsKeep DEF Reconcile
  <1> QED
    BY <1>1, <1>2, <1>3, WorldKeeps DEF Next

\* One active row is a set of one element at most.
LEMMA BanInvTypeOK == BanInv => TypeOK
  <1> SUFFICES ASSUME BanInv PROVE TypeOK
    OBVIOUS
  <1>1. Cardinality(Active) <= 1
    <2>1. CASE Active = {}
      BY <2>1, FS_EmptySet
    <2>2. ASSUME NEW i \in Active PROVE Cardinality(Active) <= 1
      <3>1. Active = {i}
        BY <2>2 DEF BanInv, OneActive
      <3>2. Cardinality({i}) = 1
        BY FS_Singleton
      <3> QED
        BY <3>1, <3>2
    <2> QED
      BY <2>1, <2>2
  <1> QED
    BY <1>1 DEF BanInv, Typed, KnownRows, TypeOK, Rows

\* Counts of one at most.
LEMMA BanInvOnce == BanInv => OnceRecorded
  BY DEF BanInv, CreatedOnce, RemovedOnce, ExpiredOnce, OnceRecorded, Kinds

\* The variables keep their types, and a target has one active row at most,
\* however requests, sweeps and an operator interleave.
THEOREM BanTypeCorrect == Spec => []TypeOK
  BY BanInit, BanStep, BanInvTypeOK, PTL DEF Spec

\* OnceRecorded: nothing double-emits, whatever is retried, swept, adopted or lost.
THEOREM OnceRecordedCorrect == Spec => []OnceRecorded
  BY BanInit, BanStep, BanInvOnce, PTL DEF Spec

================================================================================
