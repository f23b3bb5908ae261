------------------------------- MODULE MCRooms -------------------------------
(***************************************************************************)
(* Instances of Rooms for TLC.                                             *)
(***************************************************************************)
EXTENDS Rooms

MCOrder == <<"a", "b", "c">>
==============================================================================
