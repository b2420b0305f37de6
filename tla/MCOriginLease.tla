---------------------------- MODULE MCOriginLease ----------------------------
(* Instances of OriginLease for TLC.  Pods and PoPs are interchangeable.     *)
EXTENDS OriginLeaseRefinement, TLC

PodSymmetry == Permutations(Pods)
==============================================================================
