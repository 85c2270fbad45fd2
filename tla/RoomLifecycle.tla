---------------------------- MODULE RoomLifecycle ----------------------------
(***************************************************************************)
(* The life of one room code: WSManager's sockets and debounced admin      *)
(* check (api/ws_manager.py), create_room (api/rooms_api.py), ensure_room  *)
(* (api/persistence.py), the persistence service                           *)
(* (api/services/persistence_service.py) and the cleanup service           *)
(* (api/services/room_cleanup_service.py).  The two services are processes *)
(* of their own that share only Redis and the rooms table with the API.    *)
(*                                                                         *)
(* A step is one await of the API or one SQL statement.  While the admin   *)
(* check talks to the database it blocks the event loop, so that no other  *)
(* step of the API comes between its SELECT and its UPDATE; the services'  *)
(* statements do.  Times are ages in ticks, saturating once they are over  *)
(* the threshold.  update_room_recording is no action: it awaits a         *)
(* synchronous session's result and fails before it writes.                *)
(***************************************************************************)
EXTENDS Naturals

CONSTANTS
    Sockets,    \* WebSocket connections to the room
    Creator,    \* those of the user who may call create_room
    First,      \* those of the first user of the users table
    Threshold,  \* ADMIN_ABSENT_THRESHOLD_MINUTES, also the zombie cutoff, in ticks
    MaxFaults   \* bound on errors and restarts

ASSUME RoomAssumption ==
    /\ Creator \subseteq Sockets
    /\ First \subseteq Sockets
    /\ Threshold \in Nat
    /\ MaxFaults \in Nat

VARIABLES
    row,        \* the row of the rooms table
    archived,   \* the code is in room_archive
    heard,      \* processes an STT event of the room is under way to
    cached,     \* the code is in the persistence service's room_cache
    alive,      \* sockets whose handler runs
    conns,      \* wsman.rooms[room]
    check,      \* the pending admin check, or what it is about to write
    cpc,        \* where cleanup_loop is
    faults,     \* faults so far
    settled     \* history: the last word on admin_left_at is a check's

api  == <<alive, conns, check>>
events == <<heard, cached>>
vars == <<row, archived, events, api, cpc, faults, settled>>

Age == 0..Threshold + 1

\* left is the age of admin_left_at, which is NULL while ~marked.
Row == [there : BOOLEAN, owner : {"creator", "first"}, recording : BOOLEAN,
        age : Age, marked : BOOLEAN, left : Age]

TypeOK ==
    /\ row \in Row
    /\ archived \in BOOLEAN
    /\ heard \subseteq {"api", "persistence"}
    /\ cached \in BOOLEAN
    /\ alive \subseteq Sockets
    /\ conns \subseteq Sockets
    /\ check \in {"none", "sleeping", "clear", "mark", "lost"}
    /\ cpc \in {"asleep", "mark", "select", "delete"}
    /\ faults \in Nat
    /\ settled \in BOOLEAN

NewRow(owner, recording) ==
    [there |-> TRUE, owner |-> owner, recording |-> recording, age |-> 0,
     marked |-> FALSE, left |-> 0]

Init ==
    /\ row = [NewRow("creator", FALSE) EXCEPT !.there = FALSE]
    /\ archived = FALSE
    /\ heard = {}
    /\ cached = FALSE
    /\ alive = {}
    /\ conns = {}
    /\ check = "none"
    /\ cpc = "asleep"
    /\ faults = 0
    /\ settled = FALSE

\* The sockets of the room's owner_id.
Admin == IF row.owner = "creator" THEN Creator ELSE First

AdminPresent == conns \cap Admin # {}

\* The event loop is not inside the database calls of a check.
LoopRuns == check \in {"none", "sleeping"}

Fault == faults < MaxFaults /\ faults' = faults + 1

-----------------------------------------------------------------------------
(* The API: sockets.                                                        *)

\* connect, then _check_admin_presence: a pending check is replaced.
WsConnect(s) ==
    /\ LoopRuns
    /\ s \notin alive
    /\ alive' = alive \cup {s}
    /\ conns' = conns \cup {s}
    /\ check' = "sleeping"
    /\ UNCHANGED <<row, archived, events, cpc, faults, settled>>

\* Mutant: no check when a socket goes.
Unchecked == check

\* _check_admin_presence of disconnect
Rescheduled == "sleeping"

\* WebSocketDisconnect
WsDisconnect(s) ==
    /\ LoopRuns
    /\ s \in alive
    /\ alive' = alive \ {s}
    /\ conns' = conns \ {s}
    /\ check' = Rescheduled
    /\ UNCHANGED <<row, archived, events, cpc, faults, settled>>

\* Any other exception ends the handler and leaves the socket in the room:
\* broadcast calls disconnect for it without awaiting it, which does nothing.
HandlerDies(s) ==
    /\ LoopRuns
    /\ s \in alive
    /\ Fault
    /\ alive' = alive \ {s}
    /\ UNCHANGED <<row, archived, events, conns, check, cpc, settled>>

\* create_room refuses a code that is in use or was archived.
CreateRoom ==
    /\ LoopRuns
    /\ ~row.there
    /\ ~archived
    /\ row' = NewRow("creator", FALSE)
    /\ settled' = FALSE
    /\ UNCHANGED <<archived, events, api, cpc, faults>>

Restart ==
    /\ Fault
    /\ alive' = {}
    /\ conns' = {}
    /\ check' = "none"
    /\ heard' = heard \ {"api"}
    /\ settled' = FALSE
    /\ UNCHANGED <<row, archived, cached, cpc>>

-----------------------------------------------------------------------------
(* STT events of the room, and the two places that store them.              *)

\* A participant speaks; the STT router publishes to stt_events.
Speak(s) ==
    /\ s \in alive
    /\ heard' = {"api", "persistence"}
    /\ UNCHANGED <<row, archived, cached, api, cpc, faults, settled>>

\* A row for a code that has none is created for the first user.
EnsureRoom(recording) ==
    /\ row' = IF row.there THEN row ELSE NewRow("first", recording)
    /\ settled' = (settled /\ row.there)

\* save_stt_event or upsert_final_translation
ApiStores ==
    /\ LoopRuns
    /\ "api" \in heard
    /\ heard' = heard \ {"api"}
    /\ EnsureRoom(FALSE)
    /\ UNCHANGED <<archived, cached, api, cpc, faults>>

\* persist_loop: it looks a code up once and remembers it for good.
PersistenceStores ==
    /\ "persistence" \in heard
    /\ heard' = heard \ {"persistence"}
    /\ IF cached THEN UNCHANGED <<row, settled>> ELSE EnsureRoom(TRUE)
    /\ cached' = TRUE
    /\ UNCHANGED <<archived, api, cpc, faults>>

\* A statement of persist_loop fails, its INSERT among them: that names four
\* columns and leaves the others to defaults the table may not have.
PersistenceFails ==
    /\ "persistence" \in heard
    /\ heard' = heard \ {"persistence"}
    /\ UNCHANGED <<row, archived, cached, api, cpc, faults, settled>>

PersistenceRestarts ==
    /\ Fault
    /\ heard' = heard \ {"persistence"}
    /\ cached' = FALSE
    /\ UNCHANGED <<row, archived, api, cpc, settled>>

-----------------------------------------------------------------------------
(* The API: _do_admin_check.                                                *)

\* Mutant: an absence that is already marked is marked again.
MarksAgain == ~AdminPresent

\* admin_left_at is set when it is not set yet.
Marks == ~AdminPresent /\ ~row.marked

Clears == AdminPresent /\ row.marked

CheckReads ==
    /\ check = "sleeping"
    /\ row.there
    /\ \/ Marks /\ check' = "mark"
       \/ Clears /\ check' = "clear"
    /\ UNCHANGED <<row, archived, events, alive, conns, cpc, faults, settled>>

\* The room is gone, or the row says what it should.
CheckDone ==
    /\ check = "sleeping"
    /\ row.there => ~Marks /\ ~Clears
    /\ check' = "none"
    /\ settled' = TRUE
    /\ UNCHANGED <<row, archived, events, alive, conns, cpc, faults>>

CheckWrites ==
    /\ check \in {"mark", "clear"}
    /\ row' = [row EXCEPT !.marked = (check = "mark"), !.left = 0]
    /\ check' = "none"
    /\ settled' = TRUE
    /\ UNCHANGED <<archived, events, alive, conns, cpc, faults>>

\* The row was deleted since it was read: the UPDATE matches no row, whatever
\* row the code has by now, and the commit raises.
CheckLost ==
    /\ check = "lost"
    /\ check' = "none"
    /\ settled' = FALSE
    /\ UNCHANGED <<row, archived, events, alive, conns, cpc, faults>>

CheckFails ==
    /\ check # "none"
    /\ Fault
    /\ check' = "none"
    /\ settled' = FALSE
    /\ UNCHANGED <<row, archived, events, alive, conns, cpc>>

-----------------------------------------------------------------------------
(* The cleanup service.                                                     *)

\* mark_stale_zombie_rooms: the room is old and admin_left_at is NULL.
Zombie == row.there /\ ~row.marked /\ row.age > Threshold

MarkSelect ==
    /\ cpc = "asleep"
    /\ cpc' = IF Zombie THEN "mark" ELSE "select"
    /\ UNCHANGED <<row, archived, events, api, faults, settled>>

\* UPDATE ... WHERE id, whatever the row says by now.
MarkWrite ==
    /\ cpc = "mark"
    /\ row' = [row EXCEPT !.marked = TRUE, !.left = 0]
    /\ settled' = FALSE
    /\ cpc' = "select"
    /\ UNCHANGED <<archived, events, api, faults>>

\* Mutant: recorded rooms are not excluded.
AbandonedOrRecorded == row.there /\ row.marked /\ row.left > Threshold

\* cleanup_abandoned_rooms
Abandoned == row.there /\ row.marked /\ row.left > Threshold /\ ~row.recording

CleanSelect ==
    /\ cpc = "select"
    /\ cpc' = IF Abandoned THEN "delete" ELSE "asleep"
    /\ UNCHANGED <<row, archived, events, api, faults, settled>>

\* archive_room and DELETE, committed together; a code already archived is not
\* archived again.
CleanDelete ==
    /\ cpc = "delete"
    /\ row' = [row EXCEPT !.there = FALSE]
    /\ archived' = TRUE
    /\ check' = IF LoopRuns THEN check ELSE "lost"
    /\ cpc' = "asleep"
    /\ UNCHANGED <<events, alive, conns, faults, settled>>

\* Mutant: the room is deleted although it could not be archived.
UnarchivedRow == [row EXCEPT !.there = FALSE]

\* archive_room returned False, or a statement failed: rollback.
RolledBack == row

CleanFails ==
    /\ cpc = "delete"
    /\ Fault
    /\ row' = RolledBack
    /\ cpc' = "asleep"
    /\ UNCHANGED <<archived, events, api, settled>>

\* An error of another statement, or a restart of the service.
PassFails ==
    /\ cpc \in {"mark", "select"}
    /\ Fault
    /\ cpc' = IF cpc = "mark" THEN "select" ELSE "asleep"
    /\ UNCHANGED <<row, archived, events, api, settled>>

-----------------------------------------------------------------------------
Older(a) == IF a > Threshold THEN a ELSE a + 1

\* A tick is minutes: no check, due three seconds after a join or leave,
\* outlasts it.
Tick ==
    /\ row.there
    /\ check = "none"
    /\ row' = [row EXCEPT !.age = Older(@), !.left = IF row.marked THEN Older(@) ELSE @]
    /\ row' # row
    /\ UNCHANGED <<archived, events, api, cpc, faults, settled>>

-----------------------------------------------------------------------------
CleanerStep == MarkSelect \/ MarkWrite \/ CleanSelect \/ CleanDelete

CheckStep == CheckReads \/ CheckDone \/ CheckWrites \/ CheckLost

Next ==
    \/ \E s \in Sockets : WsConnect(s) \/ WsDisconnect(s) \/ HandlerDies(s)
    \/ CreateRoom
    \/ Restart
    \/ \E s \in Sockets : Speak(s)
    \/ ApiStores
    \/ PersistenceStores \/ PersistenceFails \/ PersistenceRestarts
    \/ CheckStep \/ CheckFails
    \/ CleanerStep \/ CleanFails \/ PassFails
    \/ Tick

Spec == Init /\ [][Next]_vars

\* The services and the event loop run, and time passes however often a check
\* is put off.
FairSpec ==
    /\ Spec
    /\ WF_vars(CleanerStep)
    /\ WF_vars(CheckStep)
    /\ SF_vars(Tick)

-----------------------------------------------------------------------------
(* Properties.                                                              *)

\* Once the debounced check has run and neither a zombie marking nor a new row
\* came after it, admin_left_at is set exactly while no socket of the owner is
\* in the room, whatever joins, leaves and statements of the services came
\* before and during the check.
CheckSettles ==
    settled /\ check = "none" /\ row.there => (row.marked <=> ~AdminPresent)

\* A code whose row is deleted is in room_archive, also when the archiving or a
\* statement fails.
ArchivedBeforeDeletion ==
    [][row.there /\ ~row'.there => archived']_vars

\* A recorded room is never deleted, not even when the row a cleanup pass
\* selected was of another kind ("Rooms with recording=true should never
\* auto-delete").
RecordedKept == [][row.there /\ row.recording => row'.there]_vars

\* A room nobody is connected to, or that its owner's sockets have left, and
\* that is not recorded, is deleted however often its guests' speech creates it
\* again, though handlers die, checks fail and nothing marked it.
AbandonedEventuallyDeleted ==
    <>[]((alive = {} \/ ~AdminPresent) /\ ~row.recording) => []<>(~row.there)
=============================================================================
