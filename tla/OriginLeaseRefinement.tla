------------------------- MODULE OriginLeaseRefinement -------------------------
(***************************************************************************)
(* The Lease protocol implements the atomic Lease: calls that read, decide *)
(* and write in separate requests look to everybody else like one step.    *)
(***************************************************************************)
EXTENDS OriginLease

\* What everybody else sees of a Lease.
Abstract(l) ==
    [holder |-> l.holder, gen |-> l.gen, pop |-> l.pop,
     away |-> l.grace # NoGrace, expired |-> Exists(l) /\ janitorExpired(l)]

Atomic == INSTANCE AtomicLease WITH origin <- [i \in IDs |-> Abstract(lease[i])]

\* The coordinator's calls are atomic: every step of the protocol is a step of
\* one call of AtomicLease, or none (Claim, EnterGrace, Delete, Release,
\* Reserve, JanitorSweep and the renew loops of cluster.go).
CallsAreAtomic == Atomic!Spec

================================================================================
