--------------------------- MODULE MCRoomSettings ---------------------------
(* Small instances of RoomSettings for TLC.                                 *)
EXTENDS RoomSettings
=============================================================================
