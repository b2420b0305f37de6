---------------------------- MODULE MCBanProjection ----------------------------
(* Instances of BanProjection for TLC.                                        *)
EXTENDS BanProjection
===============================================================================
