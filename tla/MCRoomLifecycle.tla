-------------------------- MODULE MCRoomLifecycle --------------------------
(* Small instances of RoomLifecycle for TLC: a socket of the creator and    *)
(* one of another user, who may be the first of the users table.            *)
EXTENDS RoomLifecycle

CONSTANTS c1, g1

MCSockets == {c1, g1}
MCCreator == {c1}
MCFirst   == {g1}
=============================================================================
