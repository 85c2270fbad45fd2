----------------------------- MODULE MCPresence -----------------------------
(* Small instances of Presence for TLC.                                     *)
EXTENDS Presence

\* Socket i of every run belongs to the user listed at place i.
MCOwnerOne == [s \in Sockets |-> CHOOSE u \in Users : TRUE]
=============================================================================
