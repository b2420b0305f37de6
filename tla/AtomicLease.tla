------------------------------ MODULE AtomicLease ------------------------------
(***************************************************************************)
(* What the coordinator promises the rest of the relay: each of its calls  *)
(* reads, checks and changes the Lease of a broadcast in one indivisible   *)
(* step.  OriginLease implements this with a read, a conditional write and *)
(* retries; PublishFlow and EdgePull are built on it.                      *)
(*                                                                         *)
(* Time is one bit per Lease: whether the janitor may collect it.          *)
(***************************************************************************)
EXTENDS Integers

CONSTANTS
    Pods,    \* pod names
    IDs,     \* broadcast IDs
    Pops,    \* names of the PoP relays
    NoPod,   \* the empty HolderIdentity
    NoPop    \* the absent gawk/pop label

VARIABLE origin   \* per broadcast, its Lease

\* away: the grace deadline is stamped; expired: janitorExpired.
Origins == [holder : Pods \cup {NoPod}, gen : Nat, pop : Pops \cup {NoPop},
            away : BOOLEAN, expired : BOOLEAN]

Nothing == [holder |-> NoPod, gen |-> -1, pop |-> NoPop,
            away |-> FALSE, expired |-> FALSE]

There(i) == origin[i] # Nothing
Write(i, l) == origin' = [origin EXCEPT ![i] = l]

\* Claim and ClaimForPop: a Lease is created, or taken at the next generation.  A
\* resume token takes no reservation and a PoP takes nothing else.
Claim(p, i, pop) ==
    \/ /\ ~There(i) /\ pop = NoPop
       /\ Write(i, [holder |-> p, gen |-> 1, pop |-> NoPop,
                    away |-> FALSE, expired |-> FALSE])
    \/ /\ There(i) /\ origin[i].pop = pop
       /\ Write(i, [origin[i] EXCEPT !.holder = p, !.gen = @ + 1,
                                     !.away = FALSE, !.expired = FALSE])

\* A renewal does not lift a grace deadline.
Renew(i) ==
    /\ There(i) /\ origin[i].expired
    /\ ~origin[i].away \/ origin[i].holder = NoPod
    /\ Write(i, [origin[i] EXCEPT !.expired = FALSE])

EnterGrace(p, i) ==
    /\ There(i) /\ origin[i].holder = p
    /\ Write(i, [origin[i] EXCEPT !.away = TRUE, !.expired = FALSE])

\* Release and ReleaseGeneration: a reservation becomes dormant again.
Release(p, i) ==
    /\ There(i) /\ origin[i].holder = p
    /\ Write(i, IF origin[i].pop = NoPop
                THEN [origin[i] EXCEPT !.holder = NoPod]
                ELSE [origin[i] EXCEPT !.holder = NoPod, !.away = FALSE,
                                       !.expired = FALSE])

\* The end of an ordinary broadcast, by its holder or once it has none.
Delete(p, i) ==
    /\ There(i) /\ origin[i].pop = NoPop /\ origin[i].holder \in {NoPod, p}
    /\ Write(i, Nothing)

Reserve(i, pop) ==
    /\ ~There(i)
    /\ Write(i, [holder |-> NoPod, gen |-> 0, pop |-> pop,
                 away |-> FALSE, expired |-> FALSE])

DeleteReservation(i, pop) ==
    /\ There(i) /\ origin[i].pop = pop
    /\ Write(i, Nothing)

\* JanitorSweep.
Collect(i) ==
    /\ There(i) /\ origin[i].expired
    /\ Write(i, Nothing)

\* Time passes: some Leases expire.
Elapse ==
    \E S \in SUBSET {i \in IDs : There(i)} :
        origin' = [i \in IDs |-> IF i \in S THEN [origin[i] EXCEPT !.expired = TRUE]
                                            ELSE origin[i]]

Init == origin = [i \in IDs |-> Nothing]

Next ==
    \/ \E p \in Pods, i \in IDs :
        \/ \E pop \in Pops \cup {NoPop} : Claim(p, i, pop)
        \/ EnterGrace(p, i)
        \/ Release(p, i)
        \/ Delete(p, i)
    \/ \E i \in IDs : Renew(i) \/ Collect(i)
    \/ \E i \in IDs, pop \in Pops : Reserve(i, pop) \/ DeleteReservation(i, pop)
    \/ Elapse

Spec == Init /\ [][Next]_origin

================================================================================
