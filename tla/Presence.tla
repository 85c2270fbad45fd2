------------------------------ MODULE Presence ------------------------------
(***************************************************************************)
(* Debounced presence of one room: api/presence_manager.py and the part of *)
(* the WebSocket handler ws_room (api/main.py) that calls it.              *)
(*                                                                         *)
(* Every await on Redis is a step of its own, so the handlers of the       *)
(* sockets, the cleanup task and the presence_events subscriber interleave *)
(* as their coroutines do.  Wall-clock time is the age of a disconnect, in *)
(* ticks, saturating at Grace (PRESENCE_GRACE_PERIOD_SECONDS).             *)
(*                                                                         *)
(* A direct broadcast starts in the same task as soon as its HGETALL       *)
(* returns and is one step with it; an event of the cleanup task travels   *)
(* through the presence_events channel and is delivered later.             *)
(***************************************************************************)
EXTENDS Naturals, Sequences, FiniteSets

CONSTANTS
    Users,      \* user ids of the room
    Sockets,    \* WebSocket connections (one handler task each)
    Owner,      \* the user of a socket
    Langs,      \* normalised language codes
    Grace,      \* PRESENCE_GRACE_PERIOD_SECONDS, in ticks
    Overlap,    \* may a user open a socket before the handler of another ended?
    MaxFaults,  \* bound on handler deaths, cleanup errors and restarts
    MaxBus      \* bound on undelivered presence_events

ASSUME PresenceAssumption ==
    /\ Owner \in [Sockets -> Users]
    /\ Langs # {}
    /\ Grace \in Nat \ {0}
    /\ Overlap \in BOOLEAN
    /\ MaxFaults \in Nat
    /\ MaxBus \in Nat

VARIABLES
    hash,       \* room:{id}:presence_state, absent when the field is missing
    timers,     \* users with a room:{id}:disconnect_timer:{user} key
    pc,         \* where the handler of a socket is
    lang,       \* ws.state.preferred_lang of a socket
    got,        \* what the handler's last HGET returned
    cpc,        \* where cleanup_stale_disconnects is
    due,        \* users its HGETALL copy shows expired and it has not removed
    leaving,    \* the user it is removing
    scanned,    \* timers of the orphan scan not yet looked at
    bus,        \* presence_events not yet delivered: sets of participants
    shown,      \* participants in the last event broadcast to the room
    faults,     \* faults so far
    kept,       \* history: came back within the grace period, not left since
    late,       \* history: came back while its expired removal was under way
    orphan      \* history: a handler died without user_disconnected

handlers == <<pc, lang, got>>
cleaner  == <<cpc, due, leaving, scanned>>
history  == <<kept, late, orphan>>
vars == <<hash, timers, handlers, cleaner, bus, shown, faults, history>>

Entry == [state : {"absent", "active", "disconnecting"},
          lang  : Langs,
          init  : BOOLEAN,        \* language_initialized
          age   : 0..Grace]       \* ticks since disconnect_started

Absent == [state |-> "absent", lang |-> CHOOSE l \in Langs : TRUE,
           init |-> FALSE, age |-> 0]

HandlerPc == {"closed", "joinRead", "joinWrite", "joinTimer", "joinSnap",
              "open", "langRead", "langWrite", "langSnap",
              "leaveRead", "leaveWrite", "leaveTimer"}

CleanerPc == {"asleep", "expire", "untimer", "publish", "orphans"}

SocketsOf(u) == {s \in Sockets : Owner[s] = u}

Active == {u \in Users : hash[u].state = "active"}

\* Every handler of the user has ended.
Offline(u) == \A s \in SocketsOf(u) : pc[s] = "closed"

\* A socket of the user is in its receive loop, its join completed.
Connected(u) == \E s \in SocketsOf(u) : pc[s] = "open"

TypeOK ==
    /\ hash \in [Users -> Entry]
    /\ timers \subseteq Users
    /\ pc \in [Sockets -> HandlerPc]
    /\ lang \in [Sockets -> Langs]
    /\ got \in [Sockets -> Entry]
    /\ cpc \in CleanerPc
    /\ due \subseteq Users
    /\ leaving \in Users \cup {"none"}
    /\ scanned \subseteq Users
    /\ bus \in Seq(SUBSET Users)
    /\ shown \subseteq Users
    /\ faults \in Nat
    /\ kept \in [Users -> BOOLEAN]
    /\ late \in [Users -> BOOLEAN]
    /\ orphan \in [Users -> BOOLEAN]

Init ==
    /\ hash = [u \in Users |-> Absent]
    /\ timers = {}
    /\ pc = [s \in Sockets |-> "closed"]
    /\ lang \in [Sockets -> {Absent.lang}]
    /\ got = [s \in Sockets |-> Absent]
    /\ cpc = "asleep"
    /\ due = {}
    /\ leaving = "none"
    /\ scanned = {}
    /\ bus = <<>>
    /\ shown = {}
    /\ faults = 0
    /\ kept = [u \in Users |-> FALSE]
    /\ late = [u \in Users |-> FALSE]
    /\ orphan = [u \in Users |-> FALSE]

-----------------------------------------------------------------------------
(* ws_room, connection: user_connected.                                     *)

WsConnect(s) ==
    /\ pc[s] = "closed"
    /\ Overlap \/ Offline(Owner[s])
    /\ \E l \in Langs : lang' = [lang EXCEPT ![s] = l]
    /\ pc' = [pc EXCEPT ![s] = "joinRead"]
    /\ UNCHANGED <<hash, timers, got, cleaner, bus, shown, faults, history>>

\* The HGET only decides the type of the event, never what is written.
JoinRead(s) ==
    /\ pc[s] = "joinRead"
    /\ pc' = [pc EXCEPT ![s] = "joinWrite"]
    /\ UNCHANGED <<hash, timers, lang, got, cleaner, bus, shown, faults, history>>

\* Mutant: a reconnection keeps the state the entry had.
JoinedEntryKeepsState(s) ==
    [state |-> IF hash[Owner[s]].state = "absent" THEN "active"
                                                  ELSE hash[Owner[s]].state,
     lang |-> lang[s], init |-> FALSE, age |-> hash[Owner[s]].age]

\* The user_data user_connected writes, whatever was there.
JoinedEntry(s) ==
    [state |-> "active", lang |-> lang[s], init |-> FALSE, age |-> 0]

JoinWrite(s) ==
    LET u   == Owner[s]
        old == hash[u]
    IN /\ pc[s] = "joinWrite"
       /\ hash' = [hash EXCEPT ![u] = JoinedEntry(s)]
       /\ kept' = [kept EXCEPT ![u] = /\ old.state = "disconnecting"
                                      /\ old.age < Grace
                                      /\ ~late[u]]
       /\ late' = [late EXCEPT ![u] = late[u] \/ (u \in due /\ old.age >= Grace)]
       /\ pc' = [pc EXCEPT ![s] = "joinTimer"]
       /\ UNCHANGED <<timers, lang, got, cleaner, bus, shown, faults, orphan>>

JoinTimer(s) ==
    /\ pc[s] = "joinTimer"
    /\ timers' = timers \ {Owner[s]}
    /\ pc' = [pc EXCEPT ![s] = "joinSnap"]
    /\ UNCHANGED <<hash, lang, got, cleaner, bus, shown, faults, history>>

JoinSnap(s) ==
    /\ pc[s] = "joinSnap"
    /\ shown' = Active
    /\ pc' = [pc EXCEPT ![s] = "open"]
    /\ UNCHANGED <<hash, timers, lang, got, cleaner, bus, faults, history>>

-----------------------------------------------------------------------------
(* ws_room, set_language message: user_changed_language.                    *)

ReceiveSetLanguage(s) ==
    /\ pc[s] = "open"
    /\ \E l \in Langs : lang' = [lang EXCEPT ![s] = l]
    /\ pc' = [pc EXCEPT ![s] = "langRead"]
    /\ UNCHANGED <<hash, timers, got, cleaner, bus, shown, faults, history>>

\* Mutant: the first set_language of a connection is not stored.
LangChangesOnceInitialised(e, l) == e.state # "absent" /\ e.init /\ e.lang # l

\* Nothing to write for a user who is not listed, nor when an initialised
\* language stays the same.
LangChanges(e, l) == e.state # "absent" /\ (~e.init \/ e.lang # l)

LangRead(s) ==
    LET e == hash[Owner[s]]
        changes == LangChanges(e, lang[s])
    IN /\ pc[s] = "langRead"
       /\ pc' = [pc EXCEPT ![s] = IF changes THEN "langWrite" ELSE "open"]
       /\ got' = [got EXCEPT ![s] = IF changes THEN e ELSE Absent]
       /\ UNCHANGED <<hash, timers, lang, cleaner, bus, shown, faults, history>>

\* Writes back the whole entry that was read; the first language is silent.
LangWrite(s) ==
    LET u == Owner[s]
    IN /\ pc[s] = "langWrite"
       /\ hash' = [hash EXCEPT ![u] =
                     [got[s] EXCEPT !.lang = lang[s], !.init = TRUE]]
       /\ got' = [got EXCEPT ![s] = Absent]
       /\ pc' = [pc EXCEPT ![s] = IF got[s].init THEN "langSnap" ELSE "open"]
       /\ UNCHANGED <<timers, lang, cleaner, bus, shown, faults, history>>

LangSnap(s) ==
    /\ pc[s] = "langSnap"
    /\ shown' = Active
    /\ pc' = [pc EXCEPT ![s] = "open"]
    /\ UNCHANGED <<hash, timers, lang, got, cleaner, bus, faults, history>>

-----------------------------------------------------------------------------
(* ws_room, WebSocketDisconnect: user_disconnected.                         *)

WsDisconnect(s) ==
    /\ pc[s] = "open"
    /\ pc' = [pc EXCEPT ![s] = "leaveRead"]
    /\ UNCHANGED <<hash, timers, lang, got, cleaner, bus, shown, faults, history>>

LeaveRead(s) ==
    LET e == hash[Owner[s]]
    IN /\ pc[s] = "leaveRead"
       /\ pc' = [pc EXCEPT ![s] = IF e.state = "absent" THEN "closed"
                                                        ELSE "leaveWrite"]
       /\ got' = [got EXCEPT ![s] = e]
       /\ UNCHANGED <<hash, timers, lang, cleaner, bus, shown, faults, history>>

LeaveWrite(s) ==
    LET u == Owner[s]
    IN /\ pc[s] = "leaveWrite"
       /\ hash' = [hash EXCEPT ![u] =
                     [got[s] EXCEPT !.state = "disconnecting", !.age = 0]]
       /\ got' = [got EXCEPT ![s] = Absent]
       /\ kept' = [kept EXCEPT ![u] = FALSE]
       /\ orphan' = [orphan EXCEPT ![u] = FALSE]
       /\ pc' = [pc EXCEPT ![s] = "leaveTimer"]
       /\ UNCHANGED <<timers, lang, cleaner, bus, shown, faults, late>>

LeaveTimer(s) ==
    /\ pc[s] = "leaveTimer"
    /\ timers' = timers \cup {Owner[s]}
    /\ pc' = [pc EXCEPT ![s] = "closed"]
    /\ UNCHANGED <<hash, lang, got, cleaner, bus, shown, faults, history>>

-----------------------------------------------------------------------------
(* cleanup_stale_disconnects, every five seconds.                           *)

\* Mutants: the grace period is not looked at; it is compared with >.
ExpiredAtOnce(u) == hash[u].state = "disconnecting"
ExpiredStrictly(u) == hash[u].state = "disconnecting" /\ hash[u].age > Grace

Expired(u) == hash[u].state = "disconnecting" /\ hash[u].age >= Grace

\* HGETALL and the clock are read once; the decisions are taken on the copy.
CleanerScan ==
    /\ cpc = "asleep"
    /\ due' = {u \in Users : Expired(u)}
    /\ cpc' = "expire"
    /\ UNCHANGED <<hash, timers, handlers, leaving, scanned, bus, shown, faults, history>>

\* HDEL of a user of the copy: the entry is not read again.
CleanerRemove(u) ==
    /\ cpc = "expire" /\ u \in due
    /\ hash' = [hash EXCEPT ![u] = Absent]
    /\ due' = due \ {u}
    /\ leaving' = u
    /\ late' = [late EXCEPT ![u] = FALSE]
    /\ cpc' = "untimer"
    /\ UNCHANGED <<timers, handlers, scanned, bus, shown, faults, kept, orphan>>

\* Mutant: the removal is not announced.
CleanerTimerOnly ==
    /\ cpc = "untimer"
    /\ timers' = timers \ {leaving}
    /\ leaving' = "none"
    /\ cpc' = "expire"
    /\ UNCHANGED <<hash, handlers, due, scanned, bus, shown, faults, history>>

CleanerTimer ==
    /\ cpc = "untimer"
    /\ timers' = timers \ {leaving}
    /\ cpc' = "publish"
    /\ UNCHANGED <<hash, handlers, due, leaving, scanned, bus, shown, faults, history>>

CleanerPublish ==
    /\ cpc = "publish"
    /\ Len(bus) < MaxBus
    /\ bus' = Append(bus, Active)
    /\ leaving' = "none"
    /\ cpc' = "expire"
    /\ UNCHANGED <<hash, timers, handlers, due, scanned, shown, faults, history>>

CleanerOrphans ==
    /\ cpc = "expire" /\ due = {}
    /\ scanned' = timers
    /\ cpc' = "orphans"
    /\ UNCHANGED <<hash, timers, handlers, due, leaving, bus, shown, faults, history>>

\* A timer whose user is not listed is deleted (HEXISTS, DEL).
CleanerOrphanTimer(u) ==
    /\ cpc = "orphans" /\ u \in scanned
    /\ scanned' = scanned \ {u}
    /\ timers' = IF hash[u].state = "absent" THEN timers \ {u} ELSE timers
    /\ UNCHANGED <<hash, handlers, cpc, due, leaving, bus, shown, faults, history>>

CleanerSleep ==
    /\ cpc = "orphans" /\ scanned = {}
    /\ cpc' = "asleep"
    /\ UNCHANGED <<hash, timers, handlers, due, leaving, scanned, bus, shown, faults, history>>

-----------------------------------------------------------------------------
(* WSManager.run_pubsub -> _handle_presence_event -> broadcast.             *)

Deliver ==
    /\ bus # <<>>
    /\ shown' = Head(bus)
    /\ bus' = Tail(bus)
    /\ UNCHANGED <<hash, timers, handlers, cleaner, faults, history>>

-----------------------------------------------------------------------------
(* Time, and what can go wrong.                                             *)

Older(e) == IF e.state = "disconnecting" /\ e.age < Grace
            THEN [e EXCEPT !.age = @ + 1] ELSE e

Tick ==
    /\ hash' = [u \in Users |-> Older(hash[u])]
    /\ got' = [s \in Sockets |-> Older(got[s])]
    /\ <<hash, got>>' # <<hash, got>>
    /\ UNCHANGED <<timers, pc, lang, cleaner, bus, shown, faults, history>>

\* The TTL of a timer key; nothing reads the key but the orphan scan.
TimerExpires(u) ==
    /\ u \in timers
    /\ timers' = timers \ {u}
    /\ UNCHANGED <<hash, handlers, cleaner, bus, shown, faults, history>>

\* ws_room catches WebSocketDisconnect only: any other exception (malformed
\* JSON, a Redis error) ends the handler with no clean-up at all.
HandlerDies(s) ==
    /\ faults < MaxFaults
    /\ pc[s] # "closed"
    /\ pc' = [pc EXCEPT ![s] = "closed"]
    /\ got' = [got EXCEPT ![s] = Absent]
    /\ orphan' = [orphan EXCEPT ![Owner[s]] = TRUE]
    /\ faults' = faults + 1
    /\ UNCHANGED <<hash, timers, lang, cleaner, bus, shown, kept, late>>

\* A Redis error abandons the rest of the pass; the loop goes back to sleep.
CleanerFails ==
    /\ faults < MaxFaults
    /\ cpc # "asleep"
    /\ cpc' = "asleep"
    /\ due' = {}
    /\ leaving' = "none"
    /\ scanned' = {}
    /\ late' = [u \in Users |-> FALSE]
    /\ faults' = faults + 1
    /\ UNCHANGED <<hash, timers, handlers, bus, shown, kept, orphan>>

\* The API process restarts: tasks, sockets and undelivered events are gone,
\* Redis keeps the hash.
Restart ==
    /\ faults < MaxFaults
    /\ pc' = [s \in Sockets |-> "closed"]
    /\ got' = [s \in Sockets |-> Absent]
    /\ cpc' = "asleep"
    /\ due' = {}
    /\ leaving' = "none"
    /\ scanned' = {}
    /\ bus' = <<>>
    /\ late' = [u \in Users |-> FALSE]
    /\ orphan' = [u \in Users |-> orphan[u] \/ ~Offline(u)]
    /\ faults' = faults + 1
    /\ UNCHANGED <<hash, timers, lang, shown, kept>>

-----------------------------------------------------------------------------
HandlerStep(s) ==
    \/ JoinRead(s) \/ JoinWrite(s) \/ JoinTimer(s) \/ JoinSnap(s)
    \/ LangRead(s) \/ LangWrite(s) \/ LangSnap(s)
    \/ LeaveRead(s) \/ LeaveWrite(s) \/ LeaveTimer(s)

CleanerStep ==
    \/ CleanerScan
    \/ \E u \in Users : CleanerRemove(u)
    \/ CleanerTimer
    \/ CleanerPublish
    \/ CleanerOrphans
    \/ \E u \in Users : CleanerOrphanTimer(u)
    \/ CleanerSleep

Environment ==
    \/ \E s \in Sockets : WsConnect(s) \/ ReceiveSetLanguage(s) \/ WsDisconnect(s)
    \/ \E s \in Sockets : HandlerDies(s)
    \/ \E u \in Users : TimerExpires(u)
    \/ CleanerFails
    \/ Restart

Next ==
    \/ \E s \in Sockets : HandlerStep(s)
    \/ CleanerStep
    \/ Deliver
    \/ Tick
    \/ Environment

Spec == Init /\ [][Next]_vars

\* The event loop runs every ready task and time passes; clients, message
\* arrivals and faults are not forced.
Fairness ==
    /\ \A s \in Sockets : WF_vars(HandlerStep(s))
    /\ WF_vars(CleanerStep)
    /\ WF_vars(Deliver)
    /\ WF_vars(Tick)

FairSpec == Spec /\ Fairness

-----------------------------------------------------------------------------
(* Properties.                                                              *)

\* A user who reconnects before the grace period of its disconnection is
\* over stays listed as active until its next disconnection: neither the
\* cleanup task nor a write-back of set_language takes it off the list
\* (user_connected: "this cancels the disconnect timer and prevents 'user
\* left' notification from being sent").
ReturnedUserStays == \A u \in Users : kept[u] => hash[u].state = "active"

\* When the cleanup task looks at the room, no user it decides to remove has
\* a socket in its receive loop ("user_left: sent after the grace period
\* expires without reconnection").
OnlyAbsentUsersExpire ==
    [][CleanerScan => \A u \in due' : ~Connected(u)]_vars

\* A user whose socket waits for messages is listed, if at all, with the
\* language that socket asked for last, whatever set_language and
\* reconnections came before.
ListedLanguageIsCurrent ==
    \A s \in Sockets :
        LET e == hash[Owner[s]]
        IN pc[s] = "open" /\ e.state # "absent" => e.lang = lang[s]

Quiet ==
    /\ bus = <<>> /\ cpc = "asleep"
    /\ \A s \in Sockets : pc[s] \in {"open", "closed"}

\* Once nothing is in flight, and as long as no process failed, the room's
\* last event names no user who has been taken off the list: removals are
\* announced, and no event overtakes the announcement.
NoGhostShown ==
    Quiet /\ faults = 0 => \A u \in shown : hash[u].state # "absent"

\* A user whose handlers have all ended for good, the last of them through
\* user_disconnected, is eventually off the list for good, in spite of
\* cleanup passes and handlers that die.
LeaversEventuallyGone ==
    \A u \in Users :
        <>[](Offline(u) /\ ~orphan[u]) => <>[](hash[u].state = "absent")
=============================================================================
