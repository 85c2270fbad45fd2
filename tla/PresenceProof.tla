--------------------------- MODULE PresenceProof ----------------------------
(***************************************************************************)
(* Proofs about Presence for every set of users, sockets and languages and *)
(* every grace period.  The types, and that no user who left stays on the  *)
(* screen, hold for any use of sockets; the others when a user opens one   *)
(* only after the handler of its previous one has ended (NoOverlap).       *)
(* Faults of every kind the module has (handlers that die, abandoned       *)
(* cleanup passes, restarts) are included, without a bound on their number.*)
(***************************************************************************)
EXTENDS Presence, SequenceTheorems, TLAPS

\* The environment some of the theorems assume: one handler per user at a time.
NoOverlap == ~Overlap

\* After JoinWrite and before LeaveWrite the handler's user is listed as
\* active or not at all.
JoinedPc == {"joinTimer", "joinSnap", "open", "langRead", "langWrite",
             "langSnap", "leaveRead", "leaveWrite"}

OneHandler ==
    \A s, t \in Sockets :
        Owner[s] = Owner[t] /\ pc[s] # "closed" /\ pc[t] # "closed" => s = t

JoinedNotDisconnecting ==
    \A s \in Sockets :
        pc[s] \in JoinedPc => hash[Owner[s]].state \in {"active", "absent"}

WritesBackActive ==
    \A s \in Sockets : pc[s] = "langWrite" => got[s].state = "active"

\* What the cleanup task is about to remove is still expired, unless its
\* user came back in the meantime.
DueStillExpired ==
    \A u \in due : late[u] \/ Expired(u)

KeptNotDue ==
    \A u \in Users : kept[u] => u \notin due /\ hash[u].state = "active"

Shape ==
    /\ hash \in [Users -> Entry]
    /\ pc \in [Sockets -> HandlerPc]
    /\ lang \in [Sockets -> Langs]
    /\ got \in [Sockets -> Entry]
    /\ due \subseteq Users
    /\ kept \in [Users -> BOOLEAN]
    /\ late \in [Users -> BOOLEAN]

IInv ==
    /\ Shape
    /\ OneHandler
    /\ JoinedNotDisconnecting
    /\ WritesBackActive
    /\ DueStillExpired
    /\ KeptNotDue

\* The entry that stands for a missing field.
LEMMA AbsentIsEntry == Absent \in Entry /\ Absent.state = "absent" /\ Absent.age = 0
  BY PresenceAssumption DEF Absent, Entry

\* What the writes and the clock make of an entry is an entry.
LEMMA LanguageEntry ==
    ASSUME NEW e \in Entry, NEW l \in Langs
    PROVE  [e EXCEPT !.lang = l, !.init = TRUE] \in Entry
  BY DEF Entry

LEMMA DisconnectingEntry ==
    ASSUME NEW e \in Entry
    PROVE  [e EXCEPT !.state = "disconnecting", !.age = 0] \in Entry
<1>1. 0 \in 0..Grace
  BY PresenceAssumption
<1>. QED
  BY <1>1 DEF Entry

LEMMA OlderEntry ==
    ASSUME NEW e \in Entry
    PROVE  /\ Older(e) \in Entry
           /\ Older(e).state = e.state
           /\ Older(e).lang = e.lang
           /\ e.age >= Grace => Older(e).age >= Grace
<1>1. CASE e.state = "disconnecting" /\ e.age < Grace
  BY <1>1, PresenceAssumption DEF Entry, Older
<1>2. CASE ~(e.state = "disconnecting" /\ e.age < Grace)
  BY <1>2 DEF Older
<1>. QED
  BY <1>1, <1>2

\* The inductive invariant holds initially.
LEMMA InitIInv == Init => IInv
  BY AbsentIsEntry, PresenceAssumption
  DEF Init, IInv, Shape, OneHandler, JoinedNotDisconnecting,
      WritesBackActive, DueStillExpired, KeptNotDue, JoinedPc, Expired,
      HandlerPc, Entry

\* Every step preserves it, as long as handlers of a user do not overlap.
LEMMA NextIInv == ASSUME NoOverlap, IInv, [Next]_vars PROVE IInv'
<1>1. ASSUME NEW s \in Sockets, WsConnect(s) PROVE IInv'
  BY <1>1, AbsentIsEntry, PresenceAssumption
  DEF WsConnect, NoOverlap, Offline, SocketsOf, IInv, Shape, OneHandler,
      JoinedNotDisconnecting, WritesBackActive, DueStillExpired, KeptNotDue,
      JoinedPc, Expired, HandlerPc, Entry, cleaner, handlers, history
<1>2. ASSUME NEW s \in Sockets, JoinRead(s) PROVE IInv'
  BY <1>2, AbsentIsEntry, PresenceAssumption
  DEF JoinRead, IInv, Shape, OneHandler, JoinedNotDisconnecting,
      WritesBackActive, DueStillExpired, KeptNotDue, JoinedPc, Expired,
      HandlerPc, Entry, cleaner, handlers, history
<1>3. ASSUME NEW s \in Sockets, JoinWrite(s) PROVE IInv'
  <2>0. \A t \in Sockets : t # s /\ Owner[t] = Owner[s] => pc[t] = "closed"
    BY <1>3
    DEF JoinWrite, IInv, OneHandler
  <2>u. Owner[s] \in Users
    BY PresenceAssumption
  <2>1. Shape'
    BY <1>3, <2>0, <2>u, AbsentIsEntry, PresenceAssumption
    DEF JoinWrite, JoinedEntry, IInv, Shape, OneHandler,
        JoinedNotDisconnecting, WritesBackActive, DueStillExpired,
        KeptNotDue, JoinedPc, Expired, HandlerPc, Entry, cleaner, handlers,
        history
  <2>2. OneHandler'
    BY <1>3, <2>0, <2>u, AbsentIsEntry, PresenceAssumption
    DEF JoinWrite, JoinedEntry, IInv, Shape, OneHandler,
        JoinedNotDisconnecting, WritesBackActive, DueStillExpired,
        KeptNotDue, JoinedPc, Expired, HandlerPc, Entry, cleaner, handlers,
        history
  <2>3. JoinedNotDisconnecting'
    BY <1>3, <2>0, <2>u, AbsentIsEntry, PresenceAssumption
    DEF JoinWrite, JoinedEntry, IInv, Shape, OneHandler,
        JoinedNotDisconnecting, WritesBackActive, DueStillExpired,
        KeptNotDue, JoinedPc, Expired, HandlerPc, Entry, cleaner, handlers,
        history
  <2>4. WritesBackActive'
    BY <1>3, <2>0, <2>u, AbsentIsEntry, PresenceAssumption
    DEF JoinWrite, JoinedEntry, IInv, Shape, OneHandler,
        JoinedNotDisconnecting, WritesBackActive, DueStillExpired,
        KeptNotDue, JoinedPc, Expired, HandlerPc, Entry, cleaner, handlers,
        history
  <2>5. DueStillExpired'
    <3>. SUFFICES ASSUME NEW v \in due PROVE late'[v] \/ Expired(v)'
      BY <1>3 DEF JoinWrite, cleaner, DueStillExpired
    <3>1. late[v] \/ Expired(v)
      BY DEF IInv, DueStillExpired
    <3>2. CASE v = Owner[s]
      BY <1>3, <2>u, <3>1, <3>2 DEF JoinWrite, IInv, Shape, Expired
    <3>3. CASE v # Owner[s]
      BY <1>3, <2>u, <3>1, <3>3 DEF JoinWrite, IInv, Shape, Expired
    <3>. QED
      BY <3>2, <3>3
  <2>6. KeptNotDue'
    BY <1>3, <2>0, <2>u, AbsentIsEntry, PresenceAssumption
    DEF JoinWrite, JoinedEntry, IInv, Shape, OneHandler,
        JoinedNotDisconnecting, WritesBackActive, DueStillExpired,
        KeptNotDue, JoinedPc, Expired, HandlerPc, Entry, cleaner, handlers,
        history
  <2>. QED
    BY <2>1, <2>2, <2>3, <2>4, <2>5, <2>6 DEF IInv
<1>4. ASSUME NEW s \in Sockets, JoinTimer(s) PROVE IInv'
  BY <1>4, AbsentIsEntry, PresenceAssumption
  DEF JoinTimer, IInv, Shape, OneHandler, JoinedNotDisconnecting,
      WritesBackActive, DueStillExpired, KeptNotDue, JoinedPc, Expired,
      HandlerPc, Entry, cleaner, handlers, history
<1>5. ASSUME NEW s \in Sockets, JoinSnap(s) PROVE IInv'
  BY <1>5, AbsentIsEntry, PresenceAssumption
  DEF JoinSnap, IInv, Shape, OneHandler, JoinedNotDisconnecting,
      WritesBackActive, DueStillExpired, KeptNotDue, JoinedPc, Expired,
      HandlerPc, Entry, cleaner, handlers, history
<1>6. ASSUME NEW s \in Sockets, ReceiveSetLanguage(s) PROVE IInv'
  BY <1>6, AbsentIsEntry, PresenceAssumption
  DEF ReceiveSetLanguage, IInv, Shape, OneHandler, JoinedNotDisconnecting,
      WritesBackActive, DueStillExpired, KeptNotDue, JoinedPc, Expired,
      HandlerPc, Entry, cleaner, handlers, history
<1>7. ASSUME NEW s \in Sockets, LangRead(s) PROVE IInv'
  <2>0. \A t \in Sockets : t # s /\ Owner[t] = Owner[s] => pc[t] = "closed"
    BY <1>7
    DEF LangRead, IInv, OneHandler
  <2>u. Owner[s] \in Users
    BY PresenceAssumption
  <2>1. Shape'
    BY <1>7, <2>0, <2>u, AbsentIsEntry, PresenceAssumption
    DEF LangRead, LangChanges, IInv, Shape, OneHandler,
        JoinedNotDisconnecting, WritesBackActive, DueStillExpired,
        KeptNotDue, JoinedPc, Expired, HandlerPc, Entry, cleaner, handlers,
        history
  <2>2. OneHandler'
    BY <1>7, <2>0, <2>u, AbsentIsEntry, PresenceAssumption
    DEF LangRead, LangChanges, IInv, Shape, OneHandler,
        JoinedNotDisconnecting, WritesBackActive, DueStillExpired,
        KeptNotDue, JoinedPc, Expired, HandlerPc, Entry, cleaner, handlers,
        history
  <2>3. JoinedNotDisconnecting'
    BY <1>7, <2>0, <2>u, AbsentIsEntry, PresenceAssumption
    DEF LangRead, LangChanges, IInv, Shape, OneHandler,
        JoinedNotDisconnecting, WritesBackActive, DueStillExpired,
        KeptNotDue, JoinedPc, Expired, HandlerPc, Entry, cleaner, handlers,
        history
  <2>4. WritesBackActive'
    BY <1>7, <2>0, <2>u, AbsentIsEntry, PresenceAssumption
    DEF LangRead, LangChanges, IInv, Shape, OneHandler,
        JoinedNotDisconnecting, WritesBackActive, DueStillExpired,
        KeptNotDue, JoinedPc, Expired, HandlerPc, Entry, cleaner, handlers,
        history
  <2>5. DueStillExpired'
    BY <1>7, <2>0, <2>u, AbsentIsEntry, PresenceAssumption
    DEF LangRead, LangChanges, IInv, Shape, OneHandler,
        JoinedNotDisconnecting, WritesBackActive, DueStillExpired,
        KeptNotDue, JoinedPc, Expired, HandlerPc, Entry, cleaner, handlers,
        history
  <2>6. KeptNotDue'
    BY <1>7, <2>0, <2>u, AbsentIsEntry, PresenceAssumption
    DEF LangRead, LangChanges, IInv, Shape, OneHandler,
        JoinedNotDisconnecting, WritesBackActive, DueStillExpired,
        KeptNotDue, JoinedPc, Expired, HandlerPc, Entry, cleaner, handlers,
        history
  <2>. QED
    BY <2>1, <2>2, <2>3, <2>4, <2>5, <2>6 DEF IInv
<1>8. ASSUME NEW s \in Sockets, LangWrite(s) PROVE IInv'
  <2>0. \A t \in Sockets : t # s /\ Owner[t] = Owner[s] => pc[t] = "closed"
    BY <1>8
    DEF LangWrite, IInv, OneHandler
  <2>u. Owner[s] \in Users
    BY PresenceAssumption
  <2>1. Shape'
    BY <1>8, <2>u, AbsentIsEntry, LanguageEntry
    DEF LangWrite, IInv, Shape, HandlerPc, cleaner, handlers, history
  <2>2. OneHandler'
    BY <1>8, <2>0, <2>u, AbsentIsEntry, PresenceAssumption
    DEF LangWrite, IInv, Shape, OneHandler, JoinedNotDisconnecting,
        WritesBackActive, DueStillExpired, KeptNotDue, JoinedPc, Expired,
        HandlerPc, Entry, cleaner, handlers, history
  <2>3. JoinedNotDisconnecting'
    BY <1>8, <2>0, <2>u, AbsentIsEntry, PresenceAssumption
    DEF LangWrite, IInv, Shape, OneHandler, JoinedNotDisconnecting,
        WritesBackActive, DueStillExpired, KeptNotDue, JoinedPc, Expired,
        HandlerPc, Entry, cleaner, handlers, history
  <2>4. WritesBackActive'
    BY <1>8, <2>0, <2>u, AbsentIsEntry, PresenceAssumption
    DEF LangWrite, IInv, Shape, OneHandler, JoinedNotDisconnecting,
        WritesBackActive, DueStillExpired, KeptNotDue, JoinedPc, Expired,
        HandlerPc, Entry, cleaner, handlers, history
  <2>5. DueStillExpired'
    BY <1>8, <2>0, <2>u, AbsentIsEntry, PresenceAssumption
    DEF LangWrite, IInv, Shape, OneHandler, JoinedNotDisconnecting,
        WritesBackActive, DueStillExpired, KeptNotDue, JoinedPc, Expired,
        HandlerPc, Entry, cleaner, handlers, history
  <2>6. KeptNotDue'
    BY <1>8, <2>0, <2>u, AbsentIsEntry, PresenceAssumption
    DEF LangWrite, IInv, Shape, OneHandler, JoinedNotDisconnecting,
        WritesBackActive, DueStillExpired, KeptNotDue, JoinedPc, Expired,
        HandlerPc, Entry, cleaner, handlers, history
  <2>. QED
    BY <2>1, <2>2, <2>3, <2>4, <2>5, <2>6 DEF IInv
<1>9. ASSUME NEW s \in Sockets, LangSnap(s) PROVE IInv'
  BY <1>9, AbsentIsEntry, PresenceAssumption
  DEF LangSnap, IInv, Shape, OneHandler, JoinedNotDisconnecting,
      WritesBackActive, DueStillExpired, KeptNotDue, JoinedPc, Expired,
      HandlerPc, Entry, cleaner, handlers, history
<1>10. ASSUME NEW s \in Sockets, WsDisconnect(s) PROVE IInv'
  BY <1>10, AbsentIsEntry, PresenceAssumption
  DEF WsDisconnect, IInv, Shape, OneHandler, JoinedNotDisconnecting,
      WritesBackActive, DueStillExpired, KeptNotDue, JoinedPc, Expired,
      HandlerPc, Entry, cleaner, handlers, history
<1>11. ASSUME NEW s \in Sockets, LeaveRead(s) PROVE IInv'
  <2>0. \A t \in Sockets : t # s /\ Owner[t] = Owner[s] => pc[t] = "closed"
    BY <1>11
    DEF LeaveRead, IInv, OneHandler
  <2>u. Owner[s] \in Users
    BY PresenceAssumption
  <2>1. Shape'
    BY <1>11, <2>0, <2>u, AbsentIsEntry, PresenceAssumption
    DEF LeaveRead, IInv, Shape, OneHandler, JoinedNotDisconnecting,
        WritesBackActive, DueStillExpired, KeptNotDue, JoinedPc, Expired,
        HandlerPc, Entry, cleaner, handlers, history
  <2>2. OneHandler'
    BY <1>11, <2>0, <2>u, AbsentIsEntry, PresenceAssumption
    DEF LeaveRead, IInv, Shape, OneHandler, JoinedNotDisconnecting,
        WritesBackActive, DueStillExpired, KeptNotDue, JoinedPc, Expired,
        HandlerPc, Entry, cleaner, handlers, history
  <2>3. JoinedNotDisconnecting'
    BY <1>11, <2>0, <2>u, AbsentIsEntry, PresenceAssumption
    DEF LeaveRead, IInv, Shape, OneHandler, JoinedNotDisconnecting,
        WritesBackActive, DueStillExpired, KeptNotDue, JoinedPc, Expired,
        HandlerPc, Entry, cleaner, handlers, history
  <2>4. WritesBackActive'
    BY <1>11, <2>0, <2>u, AbsentIsEntry, PresenceAssumption
    DEF LeaveRead, IInv, Shape, OneHandler, JoinedNotDisconnecting,
        WritesBackActive, DueStillExpired, KeptNotDue, JoinedPc, Expired,
        HandlerPc, Entry, cleaner, handlers, history
  <2>5. DueStillExpired'
    BY <1>11, <2>0, <2>u, AbsentIsEntry, PresenceAssumption
    DEF LeaveRead, IInv, Shape, OneHandler, JoinedNotDisconnecting,
        WritesBackActive, DueStillExpired, KeptNotDue, JoinedPc, Expired,
        HandlerPc, Entry, cleaner, handlers, history
  <2>6. KeptNotDue'
    BY <1>11, <2>0, <2>u, AbsentIsEntry, PresenceAssumption
    DEF LeaveRead, IInv, Shape, OneHandler, JoinedNotDisconnecting,
        WritesBackActive, DueStillExpired, KeptNotDue, JoinedPc, Expired,
        HandlerPc, Entry, cleaner, handlers, history
  <2>. QED
    BY <2>1, <2>2, <2>3, <2>4, <2>5, <2>6 DEF IInv
<1>12. ASSUME NEW s \in Sockets, LeaveWrite(s) PROVE IInv'
  <2>0. \A t \in Sockets : t # s /\ Owner[t] = Owner[s] => pc[t] = "closed"
    BY <1>12
    DEF LeaveWrite, IInv, OneHandler
  <2>u. Owner[s] \in Users
    BY PresenceAssumption
  <2>1. Shape'
    BY <1>12, <2>u, AbsentIsEntry, DisconnectingEntry
    DEF LeaveWrite, IInv, Shape, HandlerPc, cleaner, handlers, history
  <2>2. OneHandler'
    BY <1>12, <2>0, <2>u, AbsentIsEntry, PresenceAssumption
    DEF LeaveWrite, IInv, Shape, OneHandler, JoinedNotDisconnecting,
        WritesBackActive, DueStillExpired, KeptNotDue, JoinedPc, Expired,
        HandlerPc, Entry, cleaner, handlers, history
  <2>3. JoinedNotDisconnecting'
    BY <1>12, <2>0, <2>u, AbsentIsEntry, PresenceAssumption
    DEF LeaveWrite, IInv, Shape, OneHandler, JoinedNotDisconnecting,
        WritesBackActive, DueStillExpired, KeptNotDue, JoinedPc, Expired,
        HandlerPc, Entry, cleaner, handlers, history
  <2>4. WritesBackActive'
    BY <1>12, <2>0, <2>u, AbsentIsEntry, PresenceAssumption
    DEF LeaveWrite, IInv, Shape, OneHandler, JoinedNotDisconnecting,
        WritesBackActive, DueStillExpired, KeptNotDue, JoinedPc, Expired,
        HandlerPc, Entry, cleaner, handlers, history
  <2>5. DueStillExpired'
    BY <1>12, <2>0, <2>u, AbsentIsEntry, PresenceAssumption
    DEF LeaveWrite, IInv, Shape, OneHandler, JoinedNotDisconnecting,
        WritesBackActive, DueStillExpired, KeptNotDue, JoinedPc, Expired,
        HandlerPc, Entry, cleaner, handlers, history
  <2>6. KeptNotDue'
    BY <1>12, <2>0, <2>u, AbsentIsEntry, PresenceAssumption
    DEF LeaveWrite, IInv, Shape, OneHandler, JoinedNotDisconnecting,
        WritesBackActive, DueStillExpired, KeptNotDue, JoinedPc, Expired,
        HandlerPc, Entry, cleaner, handlers, history
  <2>. QED
    BY <2>1, <2>2, <2>3, <2>4, <2>5, <2>6 DEF IInv
<1>13. ASSUME NEW s \in Sockets, LeaveTimer(s) PROVE IInv'
  BY <1>13, AbsentIsEntry, PresenceAssumption
  DEF LeaveTimer, IInv, Shape, OneHandler, JoinedNotDisconnecting,
      WritesBackActive, DueStillExpired, KeptNotDue, JoinedPc, Expired,
      HandlerPc, Entry, cleaner, handlers, history
<1>14. ASSUME NEW s \in Sockets, HandlerDies(s) PROVE IInv'
  BY <1>14, AbsentIsEntry, PresenceAssumption
  DEF HandlerDies, IInv, Shape, OneHandler, JoinedNotDisconnecting,
      WritesBackActive, DueStillExpired, KeptNotDue, JoinedPc, Expired,
      HandlerPc, Entry, cleaner, handlers, history
<1>15. ASSUME NEW u \in Users, CleanerRemove(u) PROVE IInv'
  BY <1>15, AbsentIsEntry, PresenceAssumption
  DEF CleanerRemove, IInv, Shape, OneHandler, JoinedNotDisconnecting,
      WritesBackActive, DueStillExpired, KeptNotDue, JoinedPc, Expired,
      HandlerPc, Entry, cleaner, handlers, history
<1>16. ASSUME NEW u \in Users, CleanerOrphanTimer(u) PROVE IInv'
  BY <1>16, AbsentIsEntry, PresenceAssumption
  DEF CleanerOrphanTimer, IInv, Shape, OneHandler, JoinedNotDisconnecting,
      WritesBackActive, DueStillExpired, KeptNotDue, JoinedPc, Expired,
      HandlerPc, Entry, cleaner, handlers, history
<1>17. ASSUME NEW u \in Users, TimerExpires(u) PROVE IInv'
  BY <1>17, AbsentIsEntry, PresenceAssumption
  DEF TimerExpires, IInv, Shape, OneHandler, JoinedNotDisconnecting,
      WritesBackActive, DueStillExpired, KeptNotDue, JoinedPc, Expired,
      HandlerPc, Entry, cleaner, handlers, history
<1>18. CASE CleanerScan
  BY <1>18, AbsentIsEntry, PresenceAssumption
  DEF CleanerScan, IInv, Shape, OneHandler, JoinedNotDisconnecting,
      WritesBackActive, DueStillExpired, KeptNotDue, JoinedPc, Expired,
      HandlerPc, Entry, cleaner, handlers, history
<1>19. CASE CleanerTimer
  BY <1>19, AbsentIsEntry, PresenceAssumption
  DEF CleanerTimer, IInv, Shape, OneHandler, JoinedNotDisconnecting,
      WritesBackActive, DueStillExpired, KeptNotDue, JoinedPc, Expired,
      HandlerPc, Entry, cleaner, handlers, history
<1>20. CASE CleanerPublish
  BY <1>20, AbsentIsEntry, PresenceAssumption
  DEF CleanerPublish, IInv, Shape, OneHandler, JoinedNotDisconnecting,
      WritesBackActive, DueStillExpired, KeptNotDue, JoinedPc, Expired,
      HandlerPc, Entry, cleaner, handlers, history
<1>21. CASE CleanerOrphans
  BY <1>21, AbsentIsEntry, PresenceAssumption
  DEF CleanerOrphans, IInv, Shape, OneHandler, JoinedNotDisconnecting,
      WritesBackActive, DueStillExpired, KeptNotDue, JoinedPc, Expired,
      HandlerPc, Entry, cleaner, handlers, history
<1>22. CASE CleanerSleep
  BY <1>22, AbsentIsEntry, PresenceAssumption
  DEF CleanerSleep, IInv, Shape, OneHandler, JoinedNotDisconnecting,
      WritesBackActive, DueStillExpired, KeptNotDue, JoinedPc, Expired,
      HandlerPc, Entry, cleaner, handlers, history
<1>23. CASE Deliver
  BY <1>23, AbsentIsEntry, PresenceAssumption
  DEF Deliver, IInv, Shape, OneHandler, JoinedNotDisconnecting,
      WritesBackActive, DueStillExpired, KeptNotDue, JoinedPc, Expired,
      HandlerPc, Entry, cleaner, handlers, history
<1>24. CASE Tick
  <2>1. Shape'
    BY <1>24, OlderEntry
    DEF Tick, IInv, Shape, cleaner, history
  <2>2. OneHandler'
    BY <1>24, AbsentIsEntry, PresenceAssumption
    DEF Tick, Older, IInv, Shape, OneHandler, JoinedNotDisconnecting,
        WritesBackActive, DueStillExpired, KeptNotDue, JoinedPc, Expired,
        HandlerPc, Entry, cleaner, handlers, history
  <2>3. JoinedNotDisconnecting'
    BY <1>24, AbsentIsEntry, PresenceAssumption
    DEF Tick, Older, IInv, Shape, OneHandler, JoinedNotDisconnecting,
        WritesBackActive, DueStillExpired, KeptNotDue, JoinedPc, Expired,
        HandlerPc, Entry, cleaner, handlers, history
  <2>4. WritesBackActive'
    BY <1>24, AbsentIsEntry, PresenceAssumption
    DEF Tick, Older, IInv, Shape, OneHandler, JoinedNotDisconnecting,
        WritesBackActive, DueStillExpired, KeptNotDue, JoinedPc, Expired,
        HandlerPc, Entry, cleaner, handlers, history
  <2>5. DueStillExpired'
    BY <1>24, AbsentIsEntry, PresenceAssumption
    DEF Tick, Older, IInv, Shape, OneHandler, JoinedNotDisconnecting,
        WritesBackActive, DueStillExpired, KeptNotDue, JoinedPc, Expired,
        HandlerPc, Entry, cleaner, handlers, history
  <2>6. KeptNotDue'
    BY <1>24, AbsentIsEntry, PresenceAssumption
    DEF Tick, Older, IInv, Shape, OneHandler, JoinedNotDisconnecting,
        WritesBackActive, DueStillExpired, KeptNotDue, JoinedPc, Expired,
        HandlerPc, Entry, cleaner, handlers, history
  <2>. QED
    BY <2>1, <2>2, <2>3, <2>4, <2>5, <2>6 DEF IInv
<1>25. CASE CleanerFails
  BY <1>25, AbsentIsEntry, PresenceAssumption
  DEF CleanerFails, IInv, Shape, OneHandler, JoinedNotDisconnecting,
      WritesBackActive, DueStillExpired, KeptNotDue, JoinedPc, Expired,
      HandlerPc, Entry, cleaner, handlers, history
<1>26. CASE Restart
  BY <1>26, AbsentIsEntry, PresenceAssumption
  DEF Restart, IInv, Shape, OneHandler, JoinedNotDisconnecting,
      WritesBackActive, DueStillExpired, KeptNotDue, JoinedPc, Expired,
      HandlerPc, Entry, cleaner, handlers, history
<1>27. CASE UNCHANGED vars
  BY <1>27
  DEF IInv, Shape, OneHandler, JoinedNotDisconnecting, WritesBackActive,
      DueStillExpired, KeptNotDue, JoinedPc, Expired, HandlerPc, Entry,
      vars, cleaner, handlers, history
<1>. QED
  BY <1>1, <1>2, <1>3, <1>4, <1>5, <1>6, <1>7, <1>8, <1>9, <1>10, <1>11,
     <1>12, <1>13, <1>14, <1>15, <1>16, <1>17, <1>18, <1>19, <1>20, <1>21,
     <1>22, <1>23, <1>24, <1>25, <1>26, <1>27
  DEF Next, HandlerStep, CleanerStep, Environment

\* Every step keeps the types, overlap or not.
LEMMA NextType == ASSUME TypeOK, [Next]_vars PROVE TypeOK'
<1>1. ASSUME NEW s \in Sockets, WsConnect(s) PROVE TypeOK'
  BY <1>1, AbsentIsEntry, PresenceAssumption
  DEF WsConnect, TypeOK, HandlerPc, CleanerPc, Active, cleaner, handlers,
      history
<1>2. ASSUME NEW s \in Sockets, JoinRead(s) PROVE TypeOK'
  BY <1>2, AbsentIsEntry, PresenceAssumption
  DEF JoinRead, TypeOK, HandlerPc, CleanerPc, Active, cleaner, handlers,
      history
<1>3. ASSUME NEW s \in Sockets, JoinWrite(s) PROVE TypeOK'
  BY <1>3, AbsentIsEntry, PresenceAssumption
  DEF JoinWrite, JoinedEntry, TypeOK, Entry, HandlerPc, CleanerPc, Active,
      cleaner, handlers, history
<1>4. ASSUME NEW s \in Sockets, JoinTimer(s) PROVE TypeOK'
  BY <1>4, AbsentIsEntry, PresenceAssumption
  DEF JoinTimer, TypeOK, HandlerPc, CleanerPc, Active, cleaner, handlers,
      history
<1>5. ASSUME NEW s \in Sockets, JoinSnap(s) PROVE TypeOK'
  BY <1>5, AbsentIsEntry, PresenceAssumption
  DEF JoinSnap, TypeOK, HandlerPc, CleanerPc, Active, cleaner, handlers,
      history
<1>6. ASSUME NEW s \in Sockets, ReceiveSetLanguage(s) PROVE TypeOK'
  BY <1>6, AbsentIsEntry, PresenceAssumption
  DEF ReceiveSetLanguage, TypeOK, HandlerPc, CleanerPc, Active, cleaner,
      handlers, history
<1>7. ASSUME NEW s \in Sockets, LangRead(s) PROVE TypeOK'
  BY <1>7, AbsentIsEntry, PresenceAssumption
  DEF LangRead, LangChanges, TypeOK, HandlerPc, CleanerPc, Active,
      cleaner, handlers, history
<1>8. ASSUME NEW s \in Sockets, LangWrite(s) PROVE TypeOK'
  BY <1>8, AbsentIsEntry, PresenceAssumption, LanguageEntry
  DEF LangWrite, TypeOK, HandlerPc, CleanerPc, Active, cleaner, handlers,
      history
<1>9. ASSUME NEW s \in Sockets, LangSnap(s) PROVE TypeOK'
  BY <1>9, AbsentIsEntry, PresenceAssumption
  DEF LangSnap, TypeOK, HandlerPc, CleanerPc, Active, cleaner, handlers,
      history
<1>10. ASSUME NEW s \in Sockets, WsDisconnect(s) PROVE TypeOK'
  BY <1>10, AbsentIsEntry, PresenceAssumption
  DEF WsDisconnect, TypeOK, HandlerPc, CleanerPc, Active, cleaner,
      handlers, history
<1>11. ASSUME NEW s \in Sockets, LeaveRead(s) PROVE TypeOK'
  BY <1>11, AbsentIsEntry, PresenceAssumption
  DEF LeaveRead, TypeOK, HandlerPc, CleanerPc, Active, cleaner, handlers,
      history
<1>12. ASSUME NEW s \in Sockets, LeaveWrite(s) PROVE TypeOK'
  BY <1>12, AbsentIsEntry, PresenceAssumption, DisconnectingEntry
  DEF LeaveWrite, TypeOK, HandlerPc, CleanerPc, Active, cleaner, handlers,
      history
<1>13. ASSUME NEW s \in Sockets, LeaveTimer(s) PROVE TypeOK'
  BY <1>13, AbsentIsEntry, PresenceAssumption
  DEF LeaveTimer, TypeOK, HandlerPc, CleanerPc, Active, cleaner, handlers,
      history
<1>14. ASSUME NEW s \in Sockets, HandlerDies(s) PROVE TypeOK'
  <2>1. /\ pc' \in [Sockets -> HandlerPc] /\ got' \in [Sockets -> Entry]
        /\ faults' \in Nat
    BY <1>14, AbsentIsEntry DEF HandlerDies, TypeOK, HandlerPc
  <2>2. orphan' \in [Users -> BOOLEAN]
    BY <1>14, PresenceAssumption DEF HandlerDies, TypeOK
  <2>. QED
    BY <1>14, <2>1, <2>2 DEF HandlerDies, TypeOK, cleaner
<1>15. ASSUME NEW u \in Users, CleanerRemove(u) PROVE TypeOK'
  BY <1>15, AbsentIsEntry, PresenceAssumption
  DEF CleanerRemove, TypeOK, HandlerPc, CleanerPc, Active, cleaner,
      handlers, history
<1>16. ASSUME NEW u \in Users, CleanerOrphanTimer(u) PROVE TypeOK'
  BY <1>16, AbsentIsEntry, PresenceAssumption
  DEF CleanerOrphanTimer, TypeOK, HandlerPc, CleanerPc, Active, cleaner,
      handlers, history
<1>17. ASSUME NEW u \in Users, TimerExpires(u) PROVE TypeOK'
  BY <1>17, AbsentIsEntry, PresenceAssumption
  DEF TimerExpires, TypeOK, HandlerPc, CleanerPc, Active, cleaner,
      handlers, history
<1>18. CASE CleanerScan
  BY <1>18, AbsentIsEntry, PresenceAssumption
  DEF CleanerScan, TypeOK, HandlerPc, CleanerPc, Active, cleaner,
      handlers, history
<1>19. CASE CleanerTimer
  BY <1>19, AbsentIsEntry, PresenceAssumption
  DEF CleanerTimer, TypeOK, HandlerPc, CleanerPc, Active, cleaner,
      handlers, history
<1>20. CASE CleanerPublish
  BY <1>20, AbsentIsEntry, PresenceAssumption
  DEF CleanerPublish, TypeOK, HandlerPc, CleanerPc, Active, cleaner,
      handlers, history
<1>21. CASE CleanerOrphans
  BY <1>21, AbsentIsEntry, PresenceAssumption
  DEF CleanerOrphans, TypeOK, HandlerPc, CleanerPc, Active, cleaner,
      handlers, history
<1>22. CASE CleanerSleep
  BY <1>22, AbsentIsEntry, PresenceAssumption
  DEF CleanerSleep, TypeOK, HandlerPc, CleanerPc, Active, cleaner,
      handlers, history
<1>23. CASE Deliver
  BY <1>23, AbsentIsEntry, PresenceAssumption
  DEF Deliver, TypeOK, HandlerPc, CleanerPc, Active, cleaner, handlers,
      history
<1>24. CASE Tick
  BY <1>24, AbsentIsEntry, PresenceAssumption, OlderEntry
  DEF Tick, TypeOK, HandlerPc, CleanerPc, Active, cleaner, handlers,
      history
<1>25. CASE CleanerFails
  BY <1>25, AbsentIsEntry, PresenceAssumption
  DEF CleanerFails, TypeOK, HandlerPc, CleanerPc, Active, cleaner,
      handlers, history
<1>26. CASE Restart
  BY <1>26, AbsentIsEntry, PresenceAssumption
  DEF Restart, TypeOK, HandlerPc, CleanerPc, Active, cleaner, handlers,
      history
<1>27. CASE UNCHANGED vars
  BY <1>27
  DEF TypeOK, vars, cleaner, handlers, history
<1>. QED
  BY <1>1, <1>2, <1>3, <1>4, <1>5, <1>6, <1>7, <1>8, <1>9, <1>10,
     <1>11, <1>12, <1>13, <1>14, <1>15, <1>16, <1>17, <1>18, <1>19, <1>20,
     <1>21, <1>22, <1>23, <1>24, <1>25, <1>26, <1>27
  DEF Next, HandlerStep, CleanerStep, Environment

\* Every variable keeps its type, overlap or not: the counters stay in range,
\* handlers and the cleanup task stay at known places.
THEOREM TypeCorrect == Spec => []TypeOK
<1>1. Init => TypeOK
  BY AbsentIsEntry, PresenceAssumption
  DEF Init, TypeOK, HandlerPc, CleanerPc, Entry
<1>2. TypeOK /\ [Next]_vars => TypeOK'
  BY NextType
<1>. QED
  BY <1>1, <1>2, PTL DEF Spec

\* The inductive invariant is an invariant.
THEOREM InductiveInvariant == ASSUME NoOverlap PROVE Spec => []IInv
<1>1. IInv /\ [Next]_vars => IInv'
  BY NextIInv
<1>. QED
  BY <1>1, InitIInv, PTL DEF Spec

\* A user who reconnects within the grace period of its disconnection stays
\* listed as active until it disconnects again (user_connected,
\* cleanup_stale_disconnects).
THEOREM ReturnedUserStaysThm == ASSUME NoOverlap PROVE Spec => []ReturnedUserStays
<1>1. IInv => ReturnedUserStays
  BY DEF IInv, KeptNotDue, ReturnedUserStays
<1>. QED
  BY <1>1, InductiveInvariant, PTL

\* The cleanup task never decides to remove a user one of whose sockets is in
\* its receive loop.
THEOREM OnlyAbsentUsersExpireThm ==
    ASSUME NoOverlap PROVE Spec => OnlyAbsentUsersExpire
<1>1. IInv /\ [Next]_vars => [CleanerScan => \A u \in due' : ~Connected(u)]_vars
  BY DEF IInv, JoinedNotDisconnecting, JoinedPc, CleanerScan, Expired,
         Connected, SocketsOf
<1>. QED
  BY <1>1, InductiveInvariant, PTL DEF Spec, OnlyAbsentUsersExpire


-----------------------------------------------------------------------------
(* The room's last event (JoinSnap, LangSnap, CleanerPublish, Deliver).     *)

\* The event the room sees last once everything on its way is delivered.
LastEvent == IF bus = <<>> THEN shown ELSE bus[Len(bus)]

\* A handler that is about to write an entry back has read one.
GotListed ==
    \A s \in Sockets :
        pc[s] \in {"langWrite", "leaveWrite"} => got[s].state # "absent"

\* As long as nothing failed, only a removal the cleanup task has yet to
\* announce separates that event from the list.
LastEventListed ==
    faults = 0 /\ cpc \notin {"untimer", "publish"} =>
        \A u \in LastEvent : hash[u].state # "absent"

\* An event that is published is the last one; one that is delivered leaves
\* the last one what it was.
LEMMA LastPublished ==
    ASSUME NEW b \in Seq(SUBSET Users), NEW e \in SUBSET Users
    PROVE  Append(b, e) # <<>> /\ Append(b, e)[Len(Append(b, e))] = e
  OBVIOUS

LEMMA LastAfterDelivery ==
    ASSUME NEW b \in Seq(SUBSET Users), b # <<>>
    PROVE  /\ Tail(b) = <<>> => Head(b) = b[Len(b)]
           /\ Tail(b) # <<>> => Tail(b)[Len(Tail(b))] = b[Len(b)]
<1>1. Len(b) \in Nat /\ Len(b) # 0
  BY EmptySeq
<1>2. Len(Tail(b)) = Len(b) - 1
  BY <1>1
<1>3. CASE Tail(b) = <<>>
  <2>1. Len(b) = 1
    BY <1>1, <1>2, <1>3
  <2>. QED
    BY <2>1, <1>3
<1>4. CASE Tail(b) # <<>>
  <2>1. Tail(b) \in Seq(SUBSET Users)
    OBVIOUS
  <2>2. Len(Tail(b)) # 0
    BY <2>1, <1>4, EmptySeq
  <2>3. Len(b) - 1 \in 1..Len(Tail(b))
    BY <1>1, <1>2, <2>2
  <2>. QED
    BY <2>3, <1>1, <1>2, <1>4
<1>. QED
  BY <1>3, <1>4

\* Every step keeps what is read for a write-back listed.
LEMMA NextGotListed ==
    ASSUME TypeOK, GotListed, [Next]_vars
    PROVE  GotListed'
<1>1. ASSUME NEW s \in Sockets, WsConnect(s) PROVE GotListed'
  BY <1>1, AbsentIsEntry, PresenceAssumption, OlderEntry
  DEF WsConnect, LangChanges, GotListed, TypeOK, HandlerPc, cleaner, handlers,
      history
<1>2. ASSUME NEW s \in Sockets, JoinRead(s) PROVE GotListed'
  BY <1>2, AbsentIsEntry, PresenceAssumption, OlderEntry
  DEF JoinRead, LangChanges, GotListed, TypeOK, HandlerPc, cleaner, handlers,
      history
<1>3. ASSUME NEW s \in Sockets, JoinWrite(s) PROVE GotListed'
  BY <1>3, AbsentIsEntry, PresenceAssumption, OlderEntry
  DEF JoinWrite, LangChanges, GotListed, TypeOK, HandlerPc, cleaner, handlers,
      history
<1>4. ASSUME NEW s \in Sockets, JoinTimer(s) PROVE GotListed'
  BY <1>4, AbsentIsEntry, PresenceAssumption, OlderEntry
  DEF JoinTimer, LangChanges, GotListed, TypeOK, HandlerPc, cleaner, handlers,
      history
<1>5. ASSUME NEW s \in Sockets, JoinSnap(s) PROVE GotListed'
  BY <1>5, AbsentIsEntry, PresenceAssumption, OlderEntry
  DEF JoinSnap, LangChanges, GotListed, TypeOK, HandlerPc, cleaner, handlers,
      history
<1>6. ASSUME NEW s \in Sockets, ReceiveSetLanguage(s) PROVE GotListed'
  BY <1>6, AbsentIsEntry, PresenceAssumption, OlderEntry
  DEF ReceiveSetLanguage, LangChanges, GotListed, TypeOK, HandlerPc, cleaner,
      handlers, history
<1>7. ASSUME NEW s \in Sockets, LangRead(s) PROVE GotListed'
  BY <1>7, AbsentIsEntry, PresenceAssumption, OlderEntry
  DEF LangRead, LangChanges, GotListed, TypeOK, HandlerPc, cleaner, handlers,
      history
<1>8. ASSUME NEW s \in Sockets, LangWrite(s) PROVE GotListed'
  BY <1>8, AbsentIsEntry, PresenceAssumption, OlderEntry
  DEF LangWrite, LangChanges, GotListed, TypeOK, HandlerPc, cleaner, handlers,
      history
<1>9. ASSUME NEW s \in Sockets, LangSnap(s) PROVE GotListed'
  BY <1>9, AbsentIsEntry, PresenceAssumption, OlderEntry
  DEF LangSnap, LangChanges, GotListed, TypeOK, HandlerPc, cleaner, handlers,
      history
<1>10. ASSUME NEW s \in Sockets, WsDisconnect(s) PROVE GotListed'
  BY <1>10, AbsentIsEntry, PresenceAssumption, OlderEntry
  DEF WsDisconnect, LangChanges, GotListed, TypeOK, HandlerPc, cleaner,
      handlers, history
<1>11. ASSUME NEW s \in Sockets, LeaveRead(s) PROVE GotListed'
  BY <1>11, AbsentIsEntry, PresenceAssumption, OlderEntry
  DEF LeaveRead, LangChanges, GotListed, TypeOK, HandlerPc, cleaner, handlers,
      history
<1>12. ASSUME NEW s \in Sockets, LeaveWrite(s) PROVE GotListed'
  BY <1>12, AbsentIsEntry, PresenceAssumption, OlderEntry
  DEF LeaveWrite, LangChanges, GotListed, TypeOK, HandlerPc, cleaner, handlers,
      history
<1>13. ASSUME NEW s \in Sockets, LeaveTimer(s) PROVE GotListed'
  BY <1>13, AbsentIsEntry, PresenceAssumption, OlderEntry
  DEF LeaveTimer, LangChanges, GotListed, TypeOK, HandlerPc, cleaner, handlers,
      history
<1>14. ASSUME NEW s \in Sockets, HandlerDies(s) PROVE GotListed'
  BY <1>14, AbsentIsEntry, PresenceAssumption, OlderEntry
  DEF HandlerDies, LangChanges, GotListed, TypeOK, HandlerPc, cleaner,
      handlers, history
<1>15. ASSUME NEW u \in Users, CleanerRemove(u) PROVE GotListed'
  BY <1>15, AbsentIsEntry, PresenceAssumption, OlderEntry
  DEF CleanerRemove, LangChanges, GotListed, TypeOK, HandlerPc, cleaner,
      handlers, history
<1>16. ASSUME NEW u \in Users, CleanerOrphanTimer(u) PROVE GotListed'
  BY <1>16, AbsentIsEntry, PresenceAssumption, OlderEntry
  DEF CleanerOrphanTimer, LangChanges, GotListed, TypeOK, HandlerPc, cleaner,
      handlers, history
<1>17. ASSUME NEW u \in Users, TimerExpires(u) PROVE GotListed'
  BY <1>17, AbsentIsEntry, PresenceAssumption, OlderEntry
  DEF TimerExpires, LangChanges, GotListed, TypeOK, HandlerPc, cleaner,
      handlers, history
<1>18. CASE CleanerScan
  BY <1>18, AbsentIsEntry, PresenceAssumption, OlderEntry
  DEF CleanerScan, LangChanges, GotListed, TypeOK, HandlerPc, cleaner,
      handlers, history
<1>19. CASE CleanerTimer
  BY <1>19, AbsentIsEntry, PresenceAssumption, OlderEntry
  DEF CleanerTimer, LangChanges, GotListed, TypeOK, HandlerPc, cleaner,
      handlers, history
<1>20. CASE CleanerPublish
  BY <1>20, AbsentIsEntry, PresenceAssumption, OlderEntry
  DEF CleanerPublish, LangChanges, GotListed, TypeOK, HandlerPc, cleaner,
      handlers, history
<1>21. CASE CleanerOrphans
  BY <1>21, AbsentIsEntry, PresenceAssumption, OlderEntry
  DEF CleanerOrphans, LangChanges, GotListed, TypeOK, HandlerPc, cleaner,
      handlers, history
<1>22. CASE CleanerSleep
  BY <1>22, AbsentIsEntry, PresenceAssumption, OlderEntry
  DEF CleanerSleep, LangChanges, GotListed, TypeOK, HandlerPc, cleaner,
      handlers, history
<1>23. CASE Deliver
  BY <1>23, AbsentIsEntry, PresenceAssumption, OlderEntry
  DEF Deliver, LangChanges, GotListed, TypeOK, HandlerPc, cleaner, handlers,
      history
<1>24. CASE Tick
  BY <1>24, AbsentIsEntry, PresenceAssumption, OlderEntry
  DEF Tick, LangChanges, GotListed, TypeOK, HandlerPc, cleaner, handlers,
      history
<1>25. CASE CleanerFails
  BY <1>25, AbsentIsEntry, PresenceAssumption, OlderEntry
  DEF CleanerFails, LangChanges, GotListed, TypeOK, HandlerPc, cleaner,
      handlers, history
<1>26. CASE Restart
  BY <1>26, AbsentIsEntry, PresenceAssumption, OlderEntry
  DEF Restart, LangChanges, GotListed, TypeOK, HandlerPc, cleaner, handlers,
      history
<1>27. CASE UNCHANGED vars
  BY <1>27
  DEF vars, LangChanges, GotListed, TypeOK, HandlerPc, cleaner, handlers,
      history
<1>. QED
  BY <1>1, <1>2, <1>3, <1>4, <1>5, <1>6, <1>7, <1>8, <1>9, <1>10, <1>11, <1>12, <1>13, <1>14, <1>15, <1>16, <1>17, <1>18, <1>19, <1>20, <1>21, <1>22, <1>23, <1>24, <1>25, <1>26, <1>27
  DEF Next, HandlerStep, CleanerStep, Environment

\* Every step keeps the last event within the list, or begins a removal, or
\* is a failure.
LEMMA NextLastEvent ==
    ASSUME TypeOK, GotListed, LastEventListed, [Next]_vars
    PROVE  LastEventListed'
<1>1. ASSUME NEW s \in Sockets, WsConnect(s) PROVE LastEventListed'
  BY <1>1, AbsentIsEntry, PresenceAssumption, OlderEntry
  DEF WsConnect, LastEventListed, LastEvent, Active, TypeOK, cleaner, handlers,
      history
<1>2. ASSUME NEW s \in Sockets, JoinRead(s) PROVE LastEventListed'
  BY <1>2, AbsentIsEntry, PresenceAssumption, OlderEntry
  DEF JoinRead, LastEventListed, LastEvent, Active, TypeOK, cleaner, handlers,
      history
<1>3. ASSUME NEW s \in Sockets, JoinWrite(s) PROVE LastEventListed'
  BY <1>3, PresenceAssumption
  DEF JoinWrite, JoinedEntry, GotListed, LastEventListed, LastEvent, TypeOK,
      Entry, cleaner,
      handlers, history
<1>4. ASSUME NEW s \in Sockets, JoinTimer(s) PROVE LastEventListed'
  BY <1>4, AbsentIsEntry, PresenceAssumption, OlderEntry
  DEF JoinTimer, LastEventListed, LastEvent, Active, TypeOK, cleaner, handlers,
      history
<1>5. ASSUME NEW s \in Sockets, JoinSnap(s) PROVE LastEventListed'
  BY <1>5, AbsentIsEntry, PresenceAssumption, OlderEntry
  DEF JoinSnap, LastEventListed, LastEvent, Active, TypeOK, cleaner, handlers,
      history
<1>6. ASSUME NEW s \in Sockets, ReceiveSetLanguage(s) PROVE LastEventListed'
  BY <1>6, AbsentIsEntry, PresenceAssumption, OlderEntry
  DEF ReceiveSetLanguage, LastEventListed, LastEvent, Active, TypeOK, cleaner,
      handlers, history
<1>7. ASSUME NEW s \in Sockets, LangRead(s) PROVE LastEventListed'
  BY <1>7, AbsentIsEntry, PresenceAssumption, OlderEntry
  DEF LangRead, LastEventListed, LastEvent, Active, TypeOK, cleaner, handlers,
      history
<1>8. ASSUME NEW s \in Sockets, LangWrite(s) PROVE LastEventListed'
  BY <1>8, PresenceAssumption
  DEF LangWrite, JoinedEntry, GotListed, LastEventListed, LastEvent, TypeOK,
      Entry, cleaner,
      handlers, history
<1>9. ASSUME NEW s \in Sockets, LangSnap(s) PROVE LastEventListed'
  BY <1>9, AbsentIsEntry, PresenceAssumption, OlderEntry
  DEF LangSnap, LastEventListed, LastEvent, Active, TypeOK, cleaner, handlers,
      history
<1>10. ASSUME NEW s \in Sockets, WsDisconnect(s) PROVE LastEventListed'
  BY <1>10, AbsentIsEntry, PresenceAssumption, OlderEntry
  DEF WsDisconnect, LastEventListed, LastEvent, Active, TypeOK, cleaner,
      handlers, history
<1>11. ASSUME NEW s \in Sockets, LeaveRead(s) PROVE LastEventListed'
  BY <1>11, AbsentIsEntry, PresenceAssumption, OlderEntry
  DEF LeaveRead, LastEventListed, LastEvent, Active, TypeOK, cleaner, handlers,
      history
<1>12. ASSUME NEW s \in Sockets, LeaveWrite(s) PROVE LastEventListed'
  BY <1>12, PresenceAssumption
  DEF LeaveWrite, JoinedEntry, GotListed, LastEventListed, LastEvent, TypeOK,
      Entry, cleaner,
      handlers, history
<1>13. ASSUME NEW s \in Sockets, LeaveTimer(s) PROVE LastEventListed'
  BY <1>13, AbsentIsEntry, PresenceAssumption, OlderEntry
  DEF LeaveTimer, LastEventListed, LastEvent, Active, TypeOK, cleaner,
      handlers, history
<1>14. ASSUME NEW s \in Sockets, HandlerDies(s) PROVE LastEventListed'
  BY <1>14, AbsentIsEntry, PresenceAssumption, OlderEntry
  DEF HandlerDies, LastEventListed, LastEvent, Active, TypeOK, cleaner,
      handlers, history
<1>15. ASSUME NEW u \in Users, CleanerRemove(u) PROVE LastEventListed'
  BY <1>15, AbsentIsEntry, PresenceAssumption, OlderEntry
  DEF CleanerRemove, LastEventListed, LastEvent, Active, TypeOK, cleaner,
      handlers, history
<1>16. ASSUME NEW u \in Users, CleanerOrphanTimer(u) PROVE LastEventListed'
  BY <1>16, AbsentIsEntry, PresenceAssumption, OlderEntry
  DEF CleanerOrphanTimer, LastEventListed, LastEvent, Active, TypeOK, cleaner,
      handlers, history
<1>17. ASSUME NEW u \in Users, TimerExpires(u) PROVE LastEventListed'
  BY <1>17, AbsentIsEntry, PresenceAssumption, OlderEntry
  DEF TimerExpires, LastEventListed, LastEvent, Active, TypeOK, cleaner,
      handlers, history
<1>18. CASE CleanerScan
  BY <1>18, AbsentIsEntry, PresenceAssumption, OlderEntry
  DEF CleanerScan, LastEventListed, LastEvent, Active, TypeOK, cleaner,
      handlers, history
<1>19. CASE CleanerTimer
  BY <1>19, AbsentIsEntry, PresenceAssumption, OlderEntry
  DEF CleanerTimer, LastEventListed, LastEvent, Active, TypeOK, cleaner,
      handlers, history
<1>20. CASE CleanerPublish
  <2>1. Active \in SUBSET Users
    BY DEF Active
  <2>2. LastEvent' = Active
    BY <1>20, <2>1, LastPublished DEF CleanerPublish, LastEvent, TypeOK
  <2>. QED
    BY <1>20, <2>2 DEF CleanerPublish, LastEventListed, Active
<1>21. CASE CleanerOrphans
  BY <1>21, AbsentIsEntry, PresenceAssumption, OlderEntry
  DEF CleanerOrphans, LastEventListed, LastEvent, Active, TypeOK, cleaner,
      handlers, history
<1>22. CASE CleanerSleep
  BY <1>22, AbsentIsEntry, PresenceAssumption, OlderEntry
  DEF CleanerSleep, LastEventListed, LastEvent, Active, TypeOK, cleaner,
      handlers, history
<1>23. CASE Deliver
  <2>1. LastEvent' = LastEvent
    BY <1>23, LastAfterDelivery DEF Deliver, LastEvent, TypeOK
  <2>. QED
    BY <1>23, <2>1 DEF Deliver, LastEventListed, cleaner
<1>24. CASE Tick
  BY <1>24, AbsentIsEntry, PresenceAssumption, OlderEntry, SMTT(30)
  DEF Tick, LastEventListed, LastEvent, Active, TypeOK, cleaner, handlers,
      history
<1>25. CASE CleanerFails
  BY <1>25, AbsentIsEntry, PresenceAssumption, OlderEntry
  DEF CleanerFails, LastEventListed, LastEvent, Active, TypeOK, cleaner,
      handlers, history
<1>26. CASE Restart
  BY <1>26, AbsentIsEntry, PresenceAssumption, OlderEntry
  DEF Restart, LastEventListed, LastEvent, Active, TypeOK, cleaner, handlers,
      history
<1>27. CASE UNCHANGED vars
  BY <1>27
  DEF vars, LastEventListed, LastEvent, Active, TypeOK, cleaner, handlers,
      history
<1>. QED
  BY <1>1, <1>2, <1>3, <1>4, <1>5, <1>6, <1>7, <1>8, <1>9, <1>10, <1>11, <1>12, <1>13, <1>14, <1>15, <1>16, <1>17, <1>18, <1>19, <1>20, <1>21, <1>22, <1>23, <1>24, <1>25, <1>26, <1>27
  DEF Next, HandlerStep, CleanerStep, Environment

\* Once nothing is in flight, and as long as no process failed, the room's
\* last event names no user who has been taken off the list, overlapping
\* sockets or not (CleanerPublish, Deliver and the broadcasts of handlers).
THEOREM NoGhostShownThm == Spec => []NoGhostShown
<1>1. Init => GotListed /\ LastEventListed
  BY DEF Init, GotListed, LastEventListed, LastEvent
<1>2. TypeOK /\ GotListed /\ LastEventListed /\ [Next]_vars
        => GotListed' /\ LastEventListed'
  BY NextGotListed, NextLastEvent
<1>3. LastEventListed => NoGhostShown
  BY DEF LastEventListed, LastEvent, NoGhostShown, Quiet
<1>. QED
  BY <1>1, <1>2, <1>3, TypeCorrect, PTL DEF Spec

-----------------------------------------------------------------------------
(* The language a user is listed with (user_connected and                   *)
(* user_changed_language).                                                  *)

\* From JoinWrite on, the user of a handler that is not in the middle of a
\* change is listed with the language of the handler's socket, if at all.
LanguageHeld ==
    \A s \in Sockets :
        /\ pc[s] \in {"joinTimer", "joinSnap", "open", "langSnap"}
        /\ hash[Owner[s]].state # "absent"
        => hash[Owner[s]].lang = lang[s]

LEMMA NextLanguageHeld ==
    ASSUME NoOverlap, IInv, LanguageHeld, [Next]_vars
    PROVE  LanguageHeld'
<1>1. ASSUME NEW s \in Sockets, WsConnect(s) PROVE LanguageHeld'
  BY <1>1, AbsentIsEntry, PresenceAssumption, OlderEntry
  DEF WsConnect, LanguageHeld, LangChanges, IInv, Shape, HandlerPc, cleaner,
      handlers, history
<1>2. ASSUME NEW s \in Sockets, JoinRead(s) PROVE LanguageHeld'
  BY <1>2, AbsentIsEntry, PresenceAssumption, OlderEntry
  DEF JoinRead, LanguageHeld, LangChanges, IInv, Shape, HandlerPc, cleaner,
      handlers, history
<1>3. ASSUME NEW s \in Sockets, JoinWrite(s) PROVE LanguageHeld'
  <2>1. \A t \in Sockets : t # s /\ Owner[t] = Owner[s] => pc[t] = "closed"
    BY <1>3 DEF JoinWrite, IInv, OneHandler
  <2>. QED
    BY <1>3, <2>1, AbsentIsEntry, PresenceAssumption
    DEF JoinWrite, LanguageHeld, JoinedEntry, Entry, IInv, Shape, HandlerPc,
        cleaner,
        handlers, history
<1>4. ASSUME NEW s \in Sockets, JoinTimer(s) PROVE LanguageHeld'
  BY <1>4, AbsentIsEntry, PresenceAssumption, OlderEntry
  DEF JoinTimer, LanguageHeld, LangChanges, IInv, Shape, HandlerPc, cleaner,
      handlers, history
<1>5. ASSUME NEW s \in Sockets, JoinSnap(s) PROVE LanguageHeld'
  BY <1>5, AbsentIsEntry, PresenceAssumption, OlderEntry
  DEF JoinSnap, LanguageHeld, LangChanges, IInv, Shape, HandlerPc, cleaner,
      handlers, history
<1>6. ASSUME NEW s \in Sockets, ReceiveSetLanguage(s) PROVE LanguageHeld'
  BY <1>6, AbsentIsEntry, PresenceAssumption, OlderEntry
  DEF ReceiveSetLanguage, LanguageHeld, LangChanges, IInv, Shape, HandlerPc,
      cleaner, handlers, history
<1>7. ASSUME NEW s \in Sockets, LangRead(s) PROVE LanguageHeld'
  BY <1>7, AbsentIsEntry, PresenceAssumption, OlderEntry
  DEF LangRead, LanguageHeld, LangChanges, IInv, Shape, HandlerPc, cleaner,
      handlers, history
<1>8. ASSUME NEW s \in Sockets, LangWrite(s) PROVE LanguageHeld'
  <2>1. \A t \in Sockets : t # s /\ Owner[t] = Owner[s] => pc[t] = "closed"
    BY <1>8 DEF LangWrite, IInv, OneHandler
  <2>2. Shape /\ Owner \in [Sockets -> Users]
    BY PresenceAssumption DEF IInv
  <2>3. hash'[Owner[s]].lang = lang[s]
    BY <1>8, <2>2 DEF LangWrite, Shape, Entry
  <2>4. lang' = lang
    BY <1>8 DEF LangWrite, history
  <2>5. ASSUME NEW t \in Sockets, t # s, Owner[t] # Owner[s]
        PROVE  pc'[t] = pc[t] /\ hash'[Owner[t]] = hash[Owner[t]]
    BY <1>8, <2>2, <2>5 DEF LangWrite, Shape
  <2>6. ASSUME NEW t \in Sockets, t # s, Owner[t] = Owner[s]
        PROVE  pc'[t] = "closed"
    BY <1>8, <2>1, <2>2, <2>6 DEF LangWrite, Shape
  <2>. QED
    BY <2>3, <2>4, <2>5, <2>6 DEF LanguageHeld
<1>9. ASSUME NEW s \in Sockets, LangSnap(s) PROVE LanguageHeld'
  BY <1>9, AbsentIsEntry, PresenceAssumption, OlderEntry
  DEF LangSnap, LanguageHeld, LangChanges, IInv, Shape, HandlerPc, cleaner,
      handlers, history
<1>10. ASSUME NEW s \in Sockets, WsDisconnect(s) PROVE LanguageHeld'
  BY <1>10, AbsentIsEntry, PresenceAssumption, OlderEntry
  DEF WsDisconnect, LanguageHeld, LangChanges, IInv, Shape, HandlerPc, cleaner,
      handlers, history
<1>11. ASSUME NEW s \in Sockets, LeaveRead(s) PROVE LanguageHeld'
  BY <1>11, AbsentIsEntry, PresenceAssumption, OlderEntry
  DEF LeaveRead, LanguageHeld, LangChanges, IInv, Shape, HandlerPc, cleaner,
      handlers, history
<1>12. ASSUME NEW s \in Sockets, LeaveWrite(s) PROVE LanguageHeld'
  <2>1. \A t \in Sockets : t # s /\ Owner[t] = Owner[s] => pc[t] = "closed"
    BY <1>12 DEF LeaveWrite, IInv, OneHandler
  <2>. QED
    BY <1>12, <2>1, AbsentIsEntry, PresenceAssumption
    DEF LeaveWrite, LanguageHeld, JoinedEntry, Entry, IInv, Shape, HandlerPc,
        cleaner,
        handlers, history
<1>13. ASSUME NEW s \in Sockets, LeaveTimer(s) PROVE LanguageHeld'
  BY <1>13, AbsentIsEntry, PresenceAssumption, OlderEntry
  DEF LeaveTimer, LanguageHeld, LangChanges, IInv, Shape, HandlerPc, cleaner,
      handlers, history
<1>14. ASSUME NEW s \in Sockets, HandlerDies(s) PROVE LanguageHeld'
  BY <1>14, AbsentIsEntry, PresenceAssumption, OlderEntry
  DEF HandlerDies, LanguageHeld, LangChanges, IInv, Shape, HandlerPc, cleaner,
      handlers, history
<1>15. ASSUME NEW u \in Users, CleanerRemove(u) PROVE LanguageHeld'
  BY <1>15, AbsentIsEntry, PresenceAssumption, OlderEntry
  DEF CleanerRemove, LanguageHeld, LangChanges, IInv, Shape, HandlerPc,
      cleaner, handlers, history
<1>16. ASSUME NEW u \in Users, CleanerOrphanTimer(u) PROVE LanguageHeld'
  BY <1>16, AbsentIsEntry, PresenceAssumption, OlderEntry
  DEF CleanerOrphanTimer, LanguageHeld, LangChanges, IInv, Shape, HandlerPc,
      cleaner, handlers, history
<1>17. ASSUME NEW u \in Users, TimerExpires(u) PROVE LanguageHeld'
  BY <1>17, AbsentIsEntry, PresenceAssumption, OlderEntry
  DEF TimerExpires, LanguageHeld, LangChanges, IInv, Shape, HandlerPc, cleaner,
      handlers, history
<1>18. CASE CleanerScan
  BY <1>18, AbsentIsEntry, PresenceAssumption, OlderEntry
  DEF CleanerScan, LanguageHeld, LangChanges, IInv, Shape, HandlerPc, cleaner,
      handlers, history
<1>19. CASE CleanerTimer
  BY <1>19, AbsentIsEntry, PresenceAssumption, OlderEntry
  DEF CleanerTimer, LanguageHeld, LangChanges, IInv, Shape, HandlerPc, cleaner,
      handlers, history
<1>20. CASE CleanerPublish
  BY <1>20, AbsentIsEntry, PresenceAssumption, OlderEntry
  DEF CleanerPublish, LanguageHeld, LangChanges, IInv, Shape, HandlerPc,
      cleaner, handlers, history
<1>21. CASE CleanerOrphans
  BY <1>21, AbsentIsEntry, PresenceAssumption, OlderEntry
  DEF CleanerOrphans, LanguageHeld, LangChanges, IInv, Shape, HandlerPc,
      cleaner, handlers, history
<1>22. CASE CleanerSleep
  BY <1>22, AbsentIsEntry, PresenceAssumption, OlderEntry
  DEF CleanerSleep, LanguageHeld, LangChanges, IInv, Shape, HandlerPc, cleaner,
      handlers, history
<1>23. CASE Deliver
  BY <1>23, AbsentIsEntry, PresenceAssumption, OlderEntry
  DEF Deliver, LanguageHeld, LangChanges, IInv, Shape, HandlerPc, cleaner,
      handlers, history
<1>24. CASE Tick
  BY <1>24, AbsentIsEntry, PresenceAssumption, OlderEntry
  DEF Tick, LanguageHeld, LangChanges, IInv, Shape, HandlerPc, cleaner,
      handlers, history
<1>25. CASE CleanerFails
  BY <1>25, AbsentIsEntry, PresenceAssumption, OlderEntry
  DEF CleanerFails, LanguageHeld, LangChanges, IInv, Shape, HandlerPc, cleaner,
      handlers, history
<1>26. CASE Restart
  BY <1>26, AbsentIsEntry, PresenceAssumption, OlderEntry
  DEF Restart, LanguageHeld, LangChanges, IInv, Shape, HandlerPc, cleaner,
      handlers, history
<1>27. CASE UNCHANGED vars
  BY <1>27
  DEF vars, LanguageHeld, LangChanges, IInv, Shape, HandlerPc, cleaner,
      handlers, history
<1>. QED
  BY <1>1, <1>2, <1>3, <1>4, <1>5, <1>6, <1>7, <1>8, <1>9, <1>10, <1>11, <1>12, <1>13, <1>14, <1>15, <1>16, <1>17, <1>18, <1>19, <1>20, <1>21, <1>22, <1>23, <1>24, <1>25, <1>26, <1>27
  DEF Next, HandlerStep, CleanerStep, Environment

\* A user whose socket waits for messages is listed, if at all, with the
\* language that socket asked for last.
THEOREM ListedLanguageIsCurrentThm ==
    ASSUME NoOverlap PROVE Spec => []ListedLanguageIsCurrent
<1>1. Init => LanguageHeld
  BY DEF Init, LanguageHeld
<1>2. IInv /\ LanguageHeld /\ [Next]_vars => LanguageHeld'
  BY NextLanguageHeld
<1>3. LanguageHeld => ListedLanguageIsCurrent
  BY DEF LanguageHeld, ListedLanguageIsCurrent
<1>. QED
  BY <1>1, <1>2, <1>3, InductiveInvariant, PTL DEF Spec

=============================================================================
