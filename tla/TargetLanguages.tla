-------------------------- MODULE TargetLanguages --------------------------
(***************************************************************************)
(* Which languages the speech of a room is translated to. Each socket of   *)
(* the room has a language (ws.state.preferred_lang), each user a key      *)
(* active_lang in Redis, and the room a set target_languages, which the MT *)
(* router reads for every event.  A handler (ws_room, api/main.py) that    *)
(* registers a language or ends collects the keys anew into the set, step  *)
(* by step, beside the other handlers.  The relay (run_pubsub,             *)
(* api/ws_manager.py) adds the languages of the sockets with every event,  *)
(* and polls of the room's status (api/rooms_api.py) write the keys again  *)
(* with the language of the user's token.                                  *)
(*                                                                         *)
(* The prefix TL keeps the names apart from those of RoomSettings, which   *)
(* RoomProof extends as well.                                              *)
(***************************************************************************)
EXTENDS Naturals, FiniteSets

CONSTANTS
    Users, Sockets, Languages,
    Token,       \* the language in the token of each user
    Default,     \* the language for a room without target languages
    None,        \* no key
    MaxMoves,    \* bound: connects and changes of language
    MaxConnects, \* bound: the first of them, which may be connects
    MaxEvents    \* bound: polls, expiries, failures and restarts

ASSUME TargetAssumption ==
    /\ Token \in [Users -> Languages]
    /\ Default \in Languages
    /\ None \notin Languages
    /\ MaxMoves \in Nat
    /\ MaxConnects \in Nat
    /\ MaxEvents \in Nat

VARIABLES
    user,     \* ws.state.user, None without a socket
    conn,     \* wsman.rooms: the sockets of the room
    lang,     \* ws.state.preferred_lang
    pc,       \* where the handler of each socket is
    todo,     \* users whose key its scan has not met
    found,    \* languages it has collected
    key,      \* room:{id}:active_lang:{user}
    targets,  \* room:{id}:target_languages, empty when absent
    relay,    \* the relay, and the languages it is about to add
    excused,  \* history: sockets whose key was not theirs, or was read too early
    gone,     \* history: the set was lost since it was last written
    moves, events

handlers == <<pc, todo, found>>
tlvars   == <<user, conn, lang, handlers, key, targets, relay, excused, gone, moves, events>>

Collecting == {"scan", "add"}

TLInit ==
    /\ user = [s \in Sockets |-> None]
    /\ conn = {}
    /\ lang = [s \in Sockets |-> Default]
    /\ pc = [s \in Sockets |-> "off"]
    /\ todo = [s \in Sockets |-> {}]
    /\ found = [s \in Sockets |-> {}]
    /\ key = [u \in Users |-> None]
    /\ targets = {}
    /\ relay = [at |-> "idle", langs |-> {}]
    /\ excused = {}
    /\ gone = FALSE
    /\ moves = 0
    /\ events = 0

Goto(s, at) == pc' = [pc EXCEPT ![s] = at]

Event == events < MaxEvents /\ events' = events + 1

\* Sockets of u that do not speak its key.
Others(u, l) == {s \in conn : user[s] = u /\ lang[s] # l}

WriteKey(u, l) == key' = [key EXCEPT ![u] = l]
-----------------------------------------------------------------------------
\* Handlers. ws_room takes the language from the database, get_user_language_from_db.
Connect(s, u, l) ==
    /\ pc[s] = "off" /\ s \notin conn
    /\ moves < MaxConnects
    /\ moves < MaxMoves /\ moves' = moves + 1
    /\ conn' = conn \cup {s}
    /\ user' = [user EXCEPT ![s] = u]
    /\ lang' = [lang EXCEPT ![s] = l]
    /\ Goto(s, "register")
    /\ UNCHANGED <<todo, found, key, targets, relay, excused, gone, events>>

SetLanguage(s, l) ==
    /\ pc[s] = "idle"
    /\ moves < MaxMoves /\ moves' = moves + 1
    /\ lang' = [lang EXCEPT ![s] = l]
    /\ Goto(s, "register")
    /\ UNCHANGED <<user, conn, todo, found, key, targets, relay, excused, gone, events>>

StartScan(s) ==
    /\ Goto(s, "scan")
    /\ todo' = [todo EXCEPT ![s] = Users]
    /\ found' = [found EXCEPT ![s] = {}]

\* Some other handler has read the key of u and not yet written the set.
ReadEarly(u) == \E t \in Sockets : pc[t] \in Collecting /\ u \notin todo[t]

Register(s) ==
    LET u == user[s] IN
    /\ pc[s] = "register"
    /\ WriteKey(u, lang[s])
    /\ StartScan(s)
    /\ excused' = (excused \ {s}) \cup Others(u, lang[s])
                                  \cup IF ReadEarly(u) THEN {s} ELSE {}
    /\ UNCHANGED <<user, conn, lang, targets, relay, gone, moves, events>>

ReadKey(u) == {key[u]} \ {None}

\* scan_iter and the GET of each key it meets.
Visit(s, u) ==
    /\ pc[s] = "scan" /\ u \in todo[s]
    /\ todo' = [todo EXCEPT ![s] = @ \ {u}]
    /\ found' = [found EXCEPT ![s] = @ \cup ReadKey(u)]
    /\ UNCHANGED <<user, conn, lang, pc, key, targets, relay, excused, gone, moves, events>>

\* The handler waits for the next message, or has ended.
Rest(s) == Goto(s, IF s \in conn THEN "idle" ELSE "off") /\ found' = [found EXCEPT ![s] = {}]

Drop(s) ==
    /\ pc[s] = "scan" /\ todo[s] = {}
    /\ targets' = {}
    /\ IF found[s] = {} THEN Rest(s) ELSE Goto(s, "add") /\ UNCHANGED found
    /\ UNCHANGED <<user, conn, lang, todo, key, relay, excused, gone, moves, events>>

Add(s) ==
    /\ pc[s] = "add"
    /\ targets' = targets \cup found[s]
    /\ gone' = FALSE
    /\ Rest(s)
    /\ UNCHANGED <<user, conn, lang, todo, key, relay, excused, moves, events>>

\* wsman.disconnect, then the key, then the set.
Disconnect(s) ==
    /\ pc[s] = "idle"
    /\ conn' = conn \ {s}
    /\ lang' = [lang EXCEPT ![s] = Default]
    /\ excused' = excused \ {s}
    /\ Goto(s, "leave")
    /\ UNCHANGED <<user, todo, found, key, targets, relay, gone, moves, events>>

Leave(s) ==
    LET u == user[s] IN
    /\ pc[s] = "leave"
    /\ WriteKey(u, None)
    /\ StartScan(s)
    /\ excused' = excused \cup Others(u, None)
    /\ user' = [user EXCEPT ![s] = None]
    /\ UNCHANGED <<conn, lang, targets, relay, gone, moves, events>>

\* Another exception than WebSocketDisconnect ends the handler, and nothing else.
HandlerDies(s) ==
    /\ pc[s] # "off"
    /\ Event
    /\ Goto(s, "off")
    /\ todo' = [todo EXCEPT ![s] = {}]
    /\ found' = [found EXCEPT ![s] = {}]
    /\ gone' = (gone \/ pc[s] = "add")
    /\ UNCHANGED <<user, conn, lang, key, targets, relay, excused, moves>>

Restart ==
    /\ Event
    /\ conn' = {}
    /\ user' = [s \in Sockets |-> None]
    /\ lang' = [s \in Sockets |-> Default]
    /\ pc' = [s \in Sockets |-> "off"]
    /\ todo' = [s \in Sockets |-> {}]
    /\ found' = [s \in Sockets |-> {}]
    /\ excused' = {}
    /\ relay' = [at |-> "idle", langs |-> {}]
    /\ gone' = TRUE
    /\ UNCHANGED <<key, targets, moves>>
-----------------------------------------------------------------------------
\* The status of the room, asked for every five seconds by each client.
StatusPoll(u) ==
    /\ key[u] # Token[u]
    /\ Event
    /\ WriteKey(u, Token[u])
    /\ excused' = excused \cup Others(u, Token[u])
    /\ UNCHANGED <<user, conn, lang, handlers, targets, relay, gone, moves>>

\* An hour after it was registered, or 15 seconds after the last poll.
KeyExpires(u) ==
    /\ key[u] # None
    /\ Event
    /\ WriteKey(u, None)
    /\ excused' = excused \cup Others(u, None)
    /\ UNCHANGED <<user, conn, lang, handlers, targets, relay, gone, moves>>

\* Thirty seconds after a handler wrote the set, an hour after the relay did.
TargetsExpire ==
    /\ targets # {}
    /\ Event
    /\ targets' = {}
    /\ gone' = TRUE
    /\ UNCHANGED <<user, conn, lang, handlers, key, relay, excused, moves>>
-----------------------------------------------------------------------------
\* The relay, for each event of stt_events: it broadcasts, reads the languages of
\* the sockets and adds them.
SocketLanguages == {lang[s] : s \in conn}

RelayReads ==
    /\ relay.at = "idle"
    /\ SocketLanguages # {}
    /\ relay' = [at |-> "add", langs |-> SocketLanguages]
    /\ UNCHANGED <<user, conn, lang, handlers, key, targets, excused, gone, moves, events>>

\* Mutant: the set is written anew.
AddedAnew(langs) == targets' = langs

\* Mutant: a set that is there already is left alone.
AddedOnce(langs) == targets' = IF targets = {} THEN langs ELSE targets

Added(langs) == targets' = targets \cup langs

RelayAdds ==
    /\ relay.at = "add"
    /\ Added(relay.langs)
    /\ relay' = [at |-> "idle", langs |-> {}]
    /\ UNCHANGED <<user, conn, lang, handlers, key, excused, gone, moves, events>>

\* What the handler of an event raises ends the relay; nobody starts it again.
RelayDies ==
    /\ relay.at # "dead"
    /\ Event
    /\ relay' = [at |-> "dead", langs |-> {}]
    /\ UNCHANGED <<user, conn, lang, handlers, key, targets, excused, gone, moves>>

\* The languages the MT router translates an event to.
Served == IF targets = {} THEN {Default} ELSE targets
-----------------------------------------------------------------------------
Handling(s) == Register(s) \/ Drop(s) \/ Add(s) \/ Leave(s)
               \/ \E u \in Users : Visit(s, u)

Relaying == RelayReads \/ RelayAdds

Clients == \E s \in Sockets : Disconnect(s) \/ (\E l \in Languages : SetLanguage(s, l)
                                                  \/ \E u \in Users : Connect(s, u, l))

Mishaps == \/ TargetsExpire \/ RelayDies \/ Restart
           \/ \E s \in Sockets : HandlerDies(s)
           \/ \E u \in Users : StatusPoll(u) \/ KeyExpires(u)

TLNext == Clients \/ Relaying \/ Mishaps \/ \E s \in Sockets : Handling(s)

TLSpec == TLInit /\ [][TLNext]_tlvars

\* A handler goes on with what it has begun.
TLFairSpec == TLSpec /\ \A s \in Sockets : WF_tlvars(Handling(s))
-----------------------------------------------------------------------------
TLTypeOK ==
    /\ user \in [Sockets -> Users \cup {None}]
    /\ conn \subseteq Sockets
    /\ lang \in [Sockets -> Languages]
    /\ pc \in [Sockets -> {"off", "register", "idle", "leave"} \cup Collecting]
    /\ todo \in [Sockets -> SUBSET Users]
    /\ found \in [Sockets -> SUBSET Languages]
    /\ key \in [Users -> Languages \cup {None}]
    /\ targets \subseteq Languages
    /\ relay \in [at : {"idle", "add", "dead"}, langs : SUBSET Languages]
    /\ excused \subseteq Sockets
    /\ gone \in BOOLEAN
    /\ moves \in 0..MaxMoves
    /\ events \in 0..MaxEvents

\* A language somebody listens in is left out of the translations only for a
\* cause: its handler is still at work or has died, some handler is writing the
\* set, the set was lost, or its key was lost, overwritten by a poll or another
\* tab, or read by a handler before it was written.
MissingHasACause ==
    \A s \in conn : pc[s] = "idle" /\ lang[s] \notin Served =>
        \/ gone
        \/ s \in excused
        \/ \E t \in Sockets : pc[t] = "add"

\* Whatever was lost, once nothing more happens the events that go on coming
\* bring every language back.
EventuallyServed ==
    []<><<RelayAdds>>_tlvars => <>[](SocketLanguages \subseteq Served)
=============================================================================
