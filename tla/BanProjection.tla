------------------------------ MODULE BanProjection ------------------------------
(***************************************************************************)
(* The moderation portal's bans of one target: the rows in Postgres        *)
(* (gawk-admin/internal/store/bans.go), the Ban objects the relays enforce *)
(* (kube/bans.go), the requests that write both (api/bans.go,              *)
(* api/broadcasts.go) and the leader's sweep that brings them together     *)
(* (kube/reconcile.go).                                                    *)
(*                                                                         *)
(* Requests of any replica, the sweeps of two leaders in a handover and an *)
(* operator with kubectl interleave at every statement and API call.       *)
(* Upsert is one step: its Update is conditional on the version its Get    *)
(* read, and one that was overtaken fails with an error, one of the        *)
(* failures that Write counts.  Adopt and Delete are unconditional.  An    *)
(* edit with kubectl may make an object unreadable or change its expiry;   *)
(* one that makes it a ban of another target is left out.                  *)
(***************************************************************************)
EXTENDS Naturals, Sequences, FiniteSets

CONSTANTS
    CRName,      \* moderation.CRName of the target
    OpNames,     \* names an operator gives a Ban object
    Handlers,    \* requests in flight
    Sweepers,    \* replicas whose leader loop runs
    MaxBans,     \* bound: rows ever created
    MaxCalls,    \* bound: requests ever made
    MaxApplies,  \* bound: uses of kubectl
    MaxFaults    \* bound: failed API calls and lost processes

ASSUME BanProjectionAssumption ==
    CRName \notin OpNames /\ {MaxBans, MaxCalls, MaxApplies, MaxFaults} \subseteq Nat

VARIABLES
    bans,     \* the rows; an ID is a position
    crs,      \* the Ban objects by name
    calls,    \* the requests in flight
    sweep,    \* the sweep of each leader
    pages,    \* history: events recorded of each kind for each row
    made      \* requests, uses of kubectl and faults so far

vars == <<bans, crs, calls, sweep, pages, made>>

BanIDs == 1..MaxBans
None == 0                            \* no row; an object without the annotation
Names == OpNames \cup {CRName}

\* A Ban object: its annotation, and whether its spec is the portal's, an operator's
\* or one that List cannot make a ban of (BanObject.Err).
Specs == {"ours", "theirs", "unreadable"}
Objects == [banID : BanIDs \cup {None}, spec : Specs]
Absent == [banID |-> None, spec |-> "ours"]
Present(o) == o # Absent
Readable(o) == o.spec # "unreadable"
Projected(i) == [banID |-> i, spec |-> "ours"]

Kinds == {"created", "removed", "expired"}

Active == {i \in DOMAIN bans : bans[i].state = "active"}
\* ActiveBanForTarget looks at the clock too, as a relay does.
InForce == {i \in Active : ~bans[i].lapsed}

\* An event is recorded for each row of a set.  (A write that fails is a warning
\* and nothing else; it could only lower the counts.)
Recorded(kind, ids) ==
    pages' = [pages EXCEPT ![kind] = [i \in BanIDs |-> IF i \in ids THEN @[i] + 1 ELSE @[i]]]

Fault == made.faults < MaxFaults /\ made' = [made EXCEPT !.faults = @ + 1]

\* A write of a Ban object, or its failure.
Write(n, o) ==
    \/ crs' = [crs EXCEPT ![n] = o] /\ UNCHANGED made
    \/ Fault /\ UNCHANGED crs

\* The rows the UPDATE of ExpireDueBans or ExpireLapsedBansForTarget returns.
Due == Active \ InForce

\* They expire, with an event each.
Expire ==
    /\ bans' = [i \in DOMAIN bans |->
                  IF i \in Due THEN [bans[i] EXCEPT !.state = "expired"] ELSE bans[i]]
    /\ Recorded("expired", Due)

\* Faulty variant: without the unique index.
MayCreateUnindexed == Len(bans) < MaxBans
\* CreateBan, where the unique index lets it.
MayCreate == Active = {} /\ Len(bans) < MaxBans
Created == bans' = Append(bans, [state |-> "active", lapsed |-> FALSE])

--------------------------------------------------------------------------------
(* Requests: api/bans.go, api/broadcasts.go *)

NoCall == [at |-> "idle", id |-> None]
Goto(h, step, id) == calls' = [calls EXCEPT ![h] = [at |-> step, id |-> id]]
Return(h) == calls' = [calls EXCEPT ![h] = NoCall]

Request(h) ==
    /\ calls[h] = NoCall /\ made.calls < MaxCalls
    /\ made' = [made EXCEPT !.calls = @ + 1]

\* handleCreateBan, handleKill: no ban in force, else the answer is 409.
StartBan(h) ==
    /\ Request(h) /\ InForce = {}
    /\ Goto(h, "checked", None)
    /\ UNCHANGED <<bans, crs, sweep, pages>>

\* expireLapsed, which may fail.
expireLapsed(h) ==
    /\ calls[h].at = "checked"
    /\ Goto(h, "cleared", None)
    /\ \/ Expire
       \/ UNCHANGED <<bans, pages>>
    /\ UNCHANGED <<crs, sweep, made>>

CreateBan(h) ==
    /\ calls[h].at = "cleared"
    /\ \/ MayCreate /\ Created /\ Goto(h, "created", Len(bans) + 1)
       \/ Active # {} /\ Return(h) /\ UNCHANGED bans
    /\ UNCHANGED <<crs, sweep, pages, made>>

\* RemoveBan: lifted by this call, a replay, or not active any more.
RemoveBan(h, i) ==
    /\ Request(h) /\ i \in DOMAIN bans
    /\ \/ /\ bans[i].state = "active"
          /\ bans' = [bans EXCEPT ![i].state = "removed"]
          /\ Goto(h, "lifted", i)
       \/ bans[i].state = "removed" /\ Goto(h, "replayed", i) /\ UNCHANGED bans
       \/ bans[i].state = "expired" /\ Return(h) /\ UNCHANGED bans
    /\ UNCHANGED <<crs, sweep, pages>>

\* Faulty variant: records a replayed unban too.
RecordStepAlways(step) == IF step = "created" THEN "recordCreated" ELSE "recordRemoved"
\* What is left after the projection: an event for a transition this call made.
RecordStep(step) ==
    CASE step = "created" -> "recordCreated"
      [] step = "lifted" -> "recordRemoved"
      [] OTHER -> "idle"

\* project: the row's object under the canonical name, written or deleted.
Project(h) ==
    LET c == calls[h] IN
    /\ c.at \in {"created", "lifted", "replayed"}
    /\ Write(CRName, IF c.at = "created" THEN Projected(c.id) ELSE Absent)
    /\ IF RecordStep(c.at) = "idle" THEN Return(h) ELSE Goto(h, RecordStep(c.at), c.id)
    /\ UNCHANGED <<bans, sweep, pages>>

record(h) ==
    LET c == calls[h] IN
    /\ c.at \in {"recordCreated", "recordRemoved"}
    /\ Recorded(IF c.at = "recordCreated" THEN "created" ELSE "removed", {c.id})
    /\ Return(h)
    /\ UNCHANGED <<bans, crs, sweep, made>>

--------------------------------------------------------------------------------
(* The sweep: ReconcileOnce *)

NoSweep == [at |-> "idle", row |-> None, crs |-> [n \in Names |-> Absent],
            todo |-> {}, name |-> CRName, id |-> None]

\* 1. Expiry first.
ExpireDueBans(s) ==
    /\ sweep[s].at = "idle"
    /\ Expire
    /\ sweep' = [sweep EXCEPT ![s].at = "rows"]
    /\ UNCHANGED <<crs, calls, made>>

\* 2. The rows, then the objects.
ListBans(s) ==
    /\ sweep[s].at = "rows"
    /\ sweep' = [sweep EXCEPT ![s].at = "objects",
                   ![s].row = IF Active = {} THEN None ELSE CHOOSE i \in Active : TRUE]
    /\ UNCHANGED <<bans, crs, calls, pages, made>>

ListCRs(s) ==
    /\ sweep[s].at = "objects"
    /\ sweep' = [sweep EXCEPT ![s].at = "upsert", ![s].crs = crs,
                   ![s].todo = {n \in Names : Present(crs[n])}]
    /\ UNCHANGED <<bans, crs, calls, pages, made>>

\* 3. An active row has an object that matches it; one that cannot be read is
\* written over.
UpsertRow(s) ==
    LET w == sweep[s] IN
    /\ w.at = "upsert"
    /\ IF w.row = None \/ w.crs[CRName] = Projected(w.row) THEN UNCHANGED <<crs, made>>
       ELSE Write(CRName, Projected(w.row))
    /\ sweep' = [sweep EXCEPT ![s].at = "match"]
    /\ UNCHANGED <<bans, calls, pages>>

\* 4. Every object that can be read has an active row.  A stamp is a patch by name: it finds
\* whatever the name now holds, or nothing.
Stamp(n, i) ==
    IF Present(crs[n]) THEN Write(n, [crs[n] EXCEPT !.banID = i])
    ELSE UNCHANGED <<crs, made>>

Done(s, n) == sweep' = [sweep EXCEPT ![s].todo = @ \ {n}]

\* "Never act on an object we could not understand."
LeaveCR(s, n) ==
    /\ sweep[s].at = "match" /\ n \in sweep[s].todo /\ ~Readable(sweep[s].crs[n])
    /\ Done(s, n)
    /\ UNCHANGED <<bans, crs, calls, pages, made>>

StampCR(s, n) ==
    LET w == sweep[s] IN
    /\ w.at = "match" /\ n \in w.todo /\ Readable(w.crs[n]) /\ w.row # None
    /\ IF w.crs[n].banID = None THEN Stamp(n, w.row) ELSE UNCHANGED <<crs, made>>
    /\ Done(s, n)
    /\ UNCHANGED <<bans, calls, pages>>

\* adopt: an operator's object gets a row, unless another replica gave it one.
AdoptCR(s, n) ==
    LET w == sweep[s] IN
    /\ w.at = "match" /\ n \in w.todo /\ Readable(w.crs[n])
    /\ w.row = None /\ w.crs[n].banID = None
    /\ \/ /\ MayCreate /\ Created
          /\ sweep' = [sweep EXCEPT ![s].at = "stamp", ![s].name = n, ![s].id = Len(bans) + 1]
          /\ UNCHANGED made
       \/ Active # {} /\ Done(s, n) /\ UNCHANGED <<bans, made>>
       \/ Fault /\ Done(s, n) /\ UNCHANGED bans
    /\ UNCHANGED <<crs, calls, pages>>

\* The adopted object is stamped under its own name and the event recorded.
StampAdopted(s) ==
    LET w == sweep[s] IN
    /\ w.at = "stamp"
    /\ Stamp(w.name, w.id) /\ Recorded("created", {w.id})
    /\ sweep' = [sweep EXCEPT ![s].at = "match", ![s].id = None, ![s].name = CRName,
                   ![s].todo = @ \ {w.name}]
    /\ UNCHANGED <<bans, calls>>

\* Faulty variant: the object stays.
CollectedNever(o) == o
\* What a deletion by name leaves.
Collected(o) == Absent

\* Ours, and the listing had no active row for its target.
DeleteCR(s, n) ==
    LET w == sweep[s] IN
    /\ w.at = "match" /\ n \in w.todo /\ Readable(w.crs[n])
    /\ w.row = None /\ w.crs[n].banID # None
    /\ Write(n, Collected(crs[n]))
    /\ Done(s, n)
    /\ UNCHANGED <<bans, calls, pages>>

EndSweep(s) ==
    /\ sweep[s].at = "match" /\ sweep[s].todo = {}
    /\ sweep' = [sweep EXCEPT ![s] = NoSweep]
    /\ UNCHANGED <<bans, crs, calls, pages, made>>

--------------------------------------------------------------------------------
(* The world around *)

\* kubectl apply or edit: a new object, or another spec for one that is there.
Apply(n, spec) ==
    /\ made.applies < MaxApplies /\ made' = [made EXCEPT !.applies = @ + 1]
    /\ crs' = [crs EXCEPT ![n].spec = spec]
    /\ UNCHANGED <<bans, calls, sweep, pages>>

\* kubectl delete
Remove(n) ==
    /\ made.applies < MaxApplies /\ made' = [made EXCEPT !.applies = @ + 1]
    /\ Present(crs[n]) /\ crs' = [crs EXCEPT ![n] = Absent]
    /\ UNCHANGED <<bans, calls, sweep, pages>>

\* A ban's expiresAt passes.
Lapse(i) ==
    /\ i \in Active /\ ~bans[i].lapsed
    /\ bans' = [bans EXCEPT ![i].lapsed = TRUE]
    /\ UNCHANGED <<crs, calls, sweep, pages, made>>

\* A replica dies in a request, or a leader in its sweep.
Crash(h) ==
    /\ calls[h] # NoCall /\ Fault /\ Return(h)
    /\ UNCHANGED <<bans, crs, sweep, pages>>

StopLeading(s) ==
    /\ sweep[s].at # "idle" /\ Fault
    /\ sweep' = [sweep EXCEPT ![s] = NoSweep]
    /\ UNCHANGED <<bans, crs, calls, pages>>

Init ==
    /\ bans = <<>> /\ crs = [n \in Names |-> Absent]
    /\ calls = [h \in Handlers |-> NoCall] /\ sweep = [s \in Sweepers |-> NoSweep]
    /\ pages = [k \in Kinds |-> [i \in BanIDs |-> 0]]
    /\ made = [calls |-> 0, applies |-> 0, faults |-> 0]

Reconcile(s) ==
    \/ ExpireDueBans(s) \/ ListBans(s) \/ ListCRs(s) \/ UpsertRow(s)
    \/ \E n \in Names : LeaveCR(s, n) \/ StampCR(s, n) \/ AdoptCR(s, n) \/ DeleteCR(s, n)
    \/ StampAdopted(s) \/ EndSweep(s)

Handle(h) == expireLapsed(h) \/ CreateBan(h) \/ Project(h) \/ record(h)

Next ==
    \/ \E h \in Handlers :
         StartBan(h) \/ (\E i \in BanIDs : RemoveBan(h, i)) \/ Handle(h) \/ Crash(h)
    \/ \E s \in Sweepers : Reconcile(s) \/ StopLeading(s)
    \/ \E n \in Names : Remove(n) \/ \E spec \in {"theirs", "unreadable"} : Apply(n, spec)
    \/ \E i \in BanIDs : Lapse(i)

Spec == Init /\ [][Next]_vars

\* A request runs to its end and a leader keeps sweeping.
FairSpec ==
    /\ Spec
    /\ \A h \in Handlers : WF_vars(Handle(h))
    /\ \A s \in Sweepers : WF_vars(Reconcile(s))

--------------------------------------------------------------------------------
(* Properties *)

\* Every variable keeps its type, and a target has one active row at most, which
\* the sweep's map of active rows by target relies on.
TypeOK ==
    /\ bans \in Seq([state : {"active", "removed", "expired"}, lapsed : BOOLEAN])
    /\ Len(bans) <= MaxBans /\ Cardinality(Active) <= 1
    /\ crs \in [Names -> Objects]
    /\ \A h \in Handlers : calls[h].id \in {None} \cup DOMAIN bans
    /\ \A s \in Sweepers :
         sweep[s].row \in {None} \cup DOMAIN bans /\ sweep[s].todo \subseteq Names
    /\ pages \in [Kinds -> [BanIDs -> Nat]]
    /\ made \in [calls : 0..MaxCalls, applies : 0..MaxApplies, faults : 0..MaxFaults]

\* However often an unban is clicked, a lapsed ban is swept and an operator's
\* object is adopted, each creation, lifting and expiry of a ban is recorded, and
\* paged, once at most ("Nothing double-emits", store/bans.go).
OnceRecorded == \A k \in Kinds, i \in BanIDs : pages[k][i] <= 1

\* Rows and objects agree: an active row has its object under the canonical name,
\* no object that can be read lacks a row, and every one is the portal's.
Agree ==
    /\ \A i \in Active : crs[CRName] = Projected(i)
    /\ \A n \in Names :
         Present(crs[n]) /\ Readable(crs[n]) => Active # {} /\ crs[n].banID # None

\* Whatever requests, races, kubectl, failed calls and crashes leave behind, the
\* sweep brings rows and objects into agreement for good once they are over.  Left
\* out are the objects it cannot read: those it leaves to a human ("a stuck object
\* needing a human", ReconcileOnce), annotated or not, unless an active row's
\* object is written over one.
Converges == <>[]Agree
================================================================================
