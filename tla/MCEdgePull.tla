------------------------------ MODULE MCEdgePull ------------------------------
(* A small instance of EdgePull.  Its run checks liveness: no symmetry is used. *)
EXTENDS EdgePull

================================================================================
