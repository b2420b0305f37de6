------------------------------ MODULE MCRoomHome ------------------------------
(* Small instances of RoomHome.  Its run checks liveness: no symmetry is used.     *)
EXTENDS RoomHome

================================================================================
