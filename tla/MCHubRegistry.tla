---------------------------- MODULE MCHubRegistry ----------------------------
(* Instance of HubRegistry for TLC.  Its run checks liveness: no symmetry is *)
(* used.                                                                     *)
EXTENDS HubRegistry
==============================================================================
