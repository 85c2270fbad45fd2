--------------------------- MODULE StaleRegister ---------------------------
(* What a cache with a time to live promises: a register whose readers may  *)
(* get an old value, but only one that the register held within the last    *)
(* Window ticks. It is the abstract specification of the settings caches of *)
(* the routers (RoomSettings, ProviderRouting).                             *)
EXTENDS Naturals

CONSTANTS Values,  \* what the register can hold
          Window,  \* how many ticks an answer may lag behind
          Nothing  \* no answer

VARIABLES
    cur,    \* the register
    since,  \* since[v]: ticks since v was last the value; Window + 1: longer ago, or never
    got     \* the last answer given since the last tick, or Nothing

vars == <<cur, since, got>>

Ago == 0..(Window + 1)

Init == /\ cur \in Values
        /\ since = [v \in Values |-> IF v = cur THEN 0 ELSE Window + 1]
        /\ got = Nothing

Write(v) == /\ cur' = v
            /\ since' = [since EXCEPT ![cur] = 0, ![v] = 0]
            /\ UNCHANGED got

Tick == /\ since' = [v \in Values |-> IF v = cur \/ since[v] = Window + 1
                                      THEN since[v] ELSE since[v] + 1]
        /\ got' = Nothing
        /\ UNCHANGED cur

Read(v) == /\ since[v] <= Window
           /\ got' = v
           /\ UNCHANGED <<cur, since>>

Next == Tick \/ \E v \in Values : Write(v) \/ Read(v)

Spec == Init /\ [][Next]_vars
=============================================================================
