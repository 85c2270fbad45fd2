------------------------- MODULE RoomsAndCostsProof -------------------------
(***************************************************************************)
(* Proofs about rooms and about what is charged in them.                   *)
(*                                                                         *)
(* RoomLifecycle, for all sockets, thresholds and numbers of faults:       *)
(* CheckSettles is made inductive by what a check in progress and a chosen *)
(* room rely on.  The API's own steps cannot come between the check's      *)
(* SELECT and its UPDATE, those of the services cannot change what it      *)
(* decided, and nobody but the cleanup service deletes a row.              *)
(*                                                                         *)
(* Costs, for all rooms, users, prices, calendars and numbers of rows: the *)
(* rows are paid at prices in force, and histories, reports and budgets    *)
(* add them up.  Sum runs over a sequence and the reports over finite      *)
(* sets, so the first part is about totals: that a running total exists    *)
(* and is unique, that the totals of parts without a common row add up to  *)
(* the total of them all, and that a total grows with the rows.            *)
(***************************************************************************)
EXTENDS Costs, RoomLifecycle, FiniteSetTheorems, WellFoundedInduction,
        SequenceTheorems, TLAPS
-----------------------------------------------------------------------------
(* The lifecycle of rooms.                                                 *)

\* A check about to write was decided on the room as it is.
DecidedAsIs ==
    /\ check = "mark" => row.there /\ ~AdminPresent
    /\ check = "clear" => row.there /\ AdminPresent

\* The row a cleanup statement is about to change is the one that was selected.
SelectedRow ==
    /\ cpc = "mark" => row.there
    /\ cpc = "delete" => row.there /\ ~row.recording

IInv == TypeOK /\ DecidedAsIs /\ SelectedRow /\ CheckSettles

-----------------------------------------------------------------------------
\* A new row is a row.
LEMMA NewRowType ==
    ASSUME NEW owner \in {"creator", "first"}, NEW recording \in BOOLEAN
    PROVE  NewRow(owner, recording) \in Row
BY RoomAssumption DEF NewRow, Row, Age

\* A row whose mark changes is a row.
LEMMA MarkedType ==
    ASSUME NEW r \in Row, NEW m \in BOOLEAN
    PROVE  [r EXCEPT !.marked = m, !.left = 0] \in Row
<1>1. 0 \in Age
  BY RoomAssumption DEF Age
<1> QED
  BY <1>1 DEF Row

\* Age stays within its bound.
LEMMA OlderType == ASSUME NEW a \in Age PROVE Older(a) \in Age
BY RoomAssumption DEF Older, Age

\* In the initial state there is no row and nothing is under way.
LEMMA InitIInv == Init => IInv
<1> SUFFICES ASSUME Init PROVE IInv
  OBVIOUS
<1>1. row \in Row
  <2>1. NewRow("creator", FALSE) \in Row
    BY NewRowType
  <2> QED
    BY <2>1 DEF Init, Row
<1>2. TypeOK
  BY <1>1 DEF Init, TypeOK
<1>3. DecidedAsIs /\ SelectedRow /\ CheckSettles
  BY DEF Init, DecidedAsIs, SelectedRow, CheckSettles
<1> QED
  BY <1>2, <1>3 DEF IInv

-----------------------------------------------------------------------------
\* Every step keeps the types.
LEMMA TypeStep == TypeOK /\ [Next]_vars => TypeOK'
<1> SUFFICES ASSUME TypeOK, [Next]_vars PROVE TypeOK'
  OBVIOUS
<1> USE DEF TypeOK, api, events
<1>0. faults + 1 \in Nat
  OBVIOUS
<1>1. ASSUME NEW s \in Sockets, WsConnect(s) \/ WsDisconnect(s) \/ HandlerDies(s)
      PROVE  TypeOK'
  BY <1>0, <1>1 DEF WsConnect, WsDisconnect, HandlerDies, Rescheduled, Fault
<1>2. CASE CreateRoom
  BY <1>2, NewRowType DEF CreateRoom
<1>3. CASE Restart
  BY <1>0, <1>3 DEF Restart, Fault
<1>4. ASSUME NEW s \in Sockets, Speak(s) PROVE TypeOK'
  BY <1>4 DEF Speak
<1>5. CASE ApiStores
  BY <1>5, NewRowType DEF ApiStores, EnsureRoom
<1>6. CASE PersistenceStores \/ PersistenceFails \/ PersistenceRestarts
  BY <1>0, <1>6, NewRowType
     DEF PersistenceStores, PersistenceFails, PersistenceRestarts, EnsureRoom, Fault
<1>7. CASE CheckReads \/ CheckDone \/ CheckLost \/ CheckFails
  BY <1>0, <1>7 DEF CheckReads, CheckDone, CheckLost, CheckFails, Fault
<1>8. CASE CheckWrites
  <2>1. row' \in Row
    BY <1>8, MarkedType DEF CheckWrites
  <2> QED
    BY <1>8, <2>1 DEF CheckWrites
<1>9. CASE MarkSelect \/ CleanSelect \/ CleanFails \/ PassFails
  BY <1>0, <1>9 DEF MarkSelect, CleanSelect, CleanFails, PassFails, RolledBack, Fault
<1>10. CASE MarkWrite
  <2>1. row' \in Row
    BY <1>10, MarkedType DEF MarkWrite
  <2> QED
    BY <1>10, <2>1 DEF MarkWrite
<1>11. CASE CleanDelete
  <2>1. row' \in Row
    BY <1>11 DEF CleanDelete, Row
  <2> QED
    BY <1>11, <2>1 DEF CleanDelete
<1>12. CASE Tick
  <2>1. row.age \in Age /\ row.left \in Age
    BY DEF Row
  <2>2. Older(row.age) \in Age /\ Older(row.left) \in Age
    BY <2>1, OlderType
  <2>3. row' \in Row
    BY <1>12, <2>2 DEF Tick, Row
  <2> QED
    BY <1>12, <2>3 DEF Tick
<1>13. CASE UNCHANGED vars
  BY <1>13 DEF vars
<1> QED
  BY <1>1, <1>2, <1>3, <1>4, <1>5, <1>6, <1>7, <1>8, <1>9, <1>10, <1>11, <1>12, <1>13
     DEF Next, CheckStep, CleanerStep

\* A step that leaves the sockets and the row alone keeps who is present.
LEMMA SamePresence ==
    ASSUME conns' = conns, row'.owner = row.owner
    PROVE  AdminPresent' <=> AdminPresent
BY DEF AdminPresent, Admin

\* Every step keeps what checks and cleanup passes rely on, and with it the
\* outcome of the checks.
LEMMA RelianceStep ==
    IInv /\ [Next]_vars => DecidedAsIs' /\ SelectedRow' /\ CheckSettles'
<1> SUFFICES ASSUME IInv, [Next]_vars
             PROVE  DecidedAsIs' /\ SelectedRow' /\ CheckSettles'
  OBVIOUS
<1> USE DEF IInv, DecidedAsIs, SelectedRow, CheckSettles, api, events
<1>0. row = [there |-> row.there, owner |-> row.owner, recording |-> row.recording,
             age |-> row.age, marked |-> row.marked, left |-> row.left]
      /\ row.there \in BOOLEAN /\ row.marked \in BOOLEAN /\ row.recording \in BOOLEAN
  BY DEF TypeOK, Row
<1>1. ASSUME NEW s \in Sockets, WsConnect(s) \/ WsDisconnect(s)
      PROVE  DecidedAsIs' /\ SelectedRow' /\ CheckSettles'
  BY <1>1 DEF WsConnect, WsDisconnect, Rescheduled
<1>2. ASSUME NEW s \in Sockets, HandlerDies(s) \/ Speak(s)
      PROVE  DecidedAsIs' /\ SelectedRow' /\ CheckSettles'
  BY <1>2, SamePresence DEF HandlerDies, Speak
<1>3. CASE CreateRoom
  BY <1>3 DEF CreateRoom, LoopRuns
<1>4. CASE Restart
  BY <1>4 DEF Restart
<1>5. CASE ApiStores
  BY <1>5, SamePresence DEF ApiStores, EnsureRoom, LoopRuns
<1>6. CASE PersistenceStores
  BY <1>6, SamePresence DEF PersistenceStores, EnsureRoom
<1>7. CASE PersistenceFails \/ PersistenceRestarts
  BY <1>7, SamePresence DEF PersistenceFails, PersistenceRestarts
<1>8. CASE CheckReads
  BY <1>8, SamePresence DEF CheckReads, Marks, Clears
<1>9. CASE CheckDone
  BY <1>9, <1>0, SamePresence DEF CheckDone, Marks, Clears
<1>10. CASE CheckWrites
  <2>1. row'.there = row.there /\ row'.owner = row.owner
        /\ row'.recording = row.recording /\ row'.marked = (check = "mark")
    BY <1>10, <1>0 DEF CheckWrites
  <2>2. AdminPresent' <=> AdminPresent
    BY <1>10, <2>1, SamePresence DEF CheckWrites
  <2> QED
    BY <1>10, <2>1, <2>2 DEF CheckWrites
<1>11. CASE CheckLost \/ CheckFails
  BY <1>11, SamePresence DEF CheckLost, CheckFails
<1>12. CASE MarkSelect \/ CleanSelect
  BY <1>12, <1>0, SamePresence DEF MarkSelect, CleanSelect, Zombie, Abandoned
<1>13. CASE MarkWrite
  <2>1. row'.there = row.there /\ row'.owner = row.owner /\ row'.recording = row.recording
    BY <1>13, <1>0 DEF MarkWrite
  <2> QED
    BY <1>13, <2>1, SamePresence DEF MarkWrite
<1>14. CASE CleanDelete
  <2>1. row'.there = FALSE /\ check' \notin {"mark", "clear"} /\ cpc' = "asleep"
    BY <1>14, <1>0 DEF CleanDelete, LoopRuns
  <2> QED
    BY <2>1
<1>15. CASE CleanFails \/ PassFails
  BY <1>15, SamePresence DEF CleanFails, PassFails, RolledBack
<1>16. CASE Tick
  <2>1. row'.there = row.there /\ row'.owner = row.owner
        /\ row'.recording = row.recording /\ row'.marked = row.marked
    BY <1>16, <1>0 DEF Tick
  <2> QED
    BY <1>16, <2>1, SamePresence DEF Tick
<1>17. CASE UNCHANGED vars
  BY <1>17, SamePresence DEF vars
<1> QED
  BY <1>1, <1>2, <1>3, <1>4, <1>5, <1>6, <1>7, <1>8, <1>9, <1>10, <1>11, <1>12, <1>13,
     <1>14, <1>15, <1>16, <1>17
     DEF Next, CheckStep, CleanerStep

-----------------------------------------------------------------------------
\* Every reachable state has the inductive invariant: checks write what they
\* decided on the room as it is, and the services the row they selected.
THEOREM InductiveInvariant == Spec => []IInv
<1>1. IInv /\ [Next]_vars => IInv'
  BY TypeStep, RelianceStep DEF IInv
<1> QED
  BY InitIInv, <1>1, PTL DEF Spec

\* Type correctness of the rooms row, the sockets and the three processes.
THEOREM TypeCorrect == Spec => []TypeOK
BY InductiveInvariant, PTL DEF IInv

\* The debounced admin check leaves admin_left_at as it should be.
THEOREM CheckSettlesThm == Spec => []CheckSettles
BY InductiveInvariant, PTL DEF IInv

\* Nothing but the cleanup service's committed deletion removes the row, and it
\* removes it together with the archive record.
THEOREM ArchivedBeforeDeletionThm == Spec => ArchivedBeforeDeletion
<1>1. IInv /\ [Next]_vars => [row.there /\ ~row'.there => archived']_vars
  <2> SUFFICES ASSUME IInv, Next, row.there, ~row'.there PROVE archived'
    OBVIOUS
  <2>0. row = [there |-> row.there, owner |-> row.owner, recording |-> row.recording,
               age |-> row.age, marked |-> row.marked, left |-> row.left]
    BY DEF IInv, TypeOK, Row
  <2>1. CASE CleanDelete
    BY <2>1 DEF CleanDelete
  <2>2. CASE CheckWrites \/ MarkWrite \/ Tick
    BY <2>0, <2>2 DEF CheckWrites, MarkWrite, Tick
  <2>3. CASE CreateRoom \/ ApiStores \/ PersistenceStores
    BY <2>3 DEF CreateRoom, ApiStores, PersistenceStores, EnsureRoom
  <2> QED
    BY <2>1, <2>2, <2>3
       DEF Next, CheckStep, CleanerStep, WsConnect, WsDisconnect, HandlerDies, Restart,
           Speak, PersistenceFails, PersistenceRestarts, CheckReads, CheckDone, CheckLost,
           CheckFails, MarkSelect, CleanSelect, CleanFails, PassFails, RolledBack
<1> QED
  BY <1>1, InductiveInvariant, PTL DEF Spec, ArchivedBeforeDeletion

\* A recorded room is never deleted: the row a pass deletes is the one it
\* selected, and nothing turns recording on meanwhile.
THEOREM RecordedKeptThm == Spec => RecordedKept
<1>1. IInv /\ [Next]_vars => [row.there /\ row.recording => row'.there]_vars
  <2> SUFFICES ASSUME IInv, Next, row.there, row.recording PROVE row'.there
    OBVIOUS
  <2>0. row = [there |-> row.there, owner |-> row.owner, recording |-> row.recording,
               age |-> row.age, marked |-> row.marked, left |-> row.left]
    BY DEF IInv, TypeOK, Row
  <2>1. CASE CleanDelete
    BY <2>1 DEF CleanDelete, IInv, SelectedRow
  <2>2. CASE CheckWrites \/ MarkWrite \/ Tick
    BY <2>0, <2>2 DEF CheckWrites, MarkWrite, Tick
  <2>3. CASE CreateRoom \/ ApiStores \/ PersistenceStores
    BY <2>3 DEF CreateRoom, ApiStores, PersistenceStores, EnsureRoom
  <2> QED
    BY <2>1, <2>2, <2>3
       DEF Next, CheckStep, CleanerStep, WsConnect, WsDisconnect, HandlerDies, Restart,
           Speak, PersistenceFails, PersistenceRestarts, CheckReads, CheckDone, CheckLost,
           CheckFails, MarkSelect, CleanSelect, CleanFails, PassFails, RolledBack
<1> QED
  BY <1>1, InductiveInvariant, PTL DEF Spec, RecordedKept

-----------------------------------------------------------------------------
(* Counting and choosing a smallest set, without an operator as parameter.  *)

\* What holds of 0 and is handed on to the next number holds of all.
LEMMA Counting ==
    ASSUME NEW T, 0 \in T, \A n \in Nat : n \in T => n + 1 \in T
    PROVE  Nat \subseteq T
<1> DEFINE Out == Nat \ T
<1>1. SUFFICES ASSUME Out # {} PROVE FALSE
  OBVIOUS
<1>2. PICK n \in Out : \A m \in Out : ~ (<<m, n>> \in OpToRel(<, Nat))
  <2>1. IsWellFoundedOn(OpToRel(<, Nat), Nat)
    BY NatLessThanWellFounded
  <2> HIDE DEF Out
  <2>2. Out \subseteq Nat
    BY DEF Out
  <2> QED
    BY <1>1, <2>1, <2>2, WFMin
<1>3. n \in Nat /\ n # 0 /\ n - 1 \in Nat /\ n - 1 < n
  OBVIOUS
<1>4. n - 1 \notin Out
  BY <1>2, <1>3 DEF OpToRel
<1>5. n - 1 \in T /\ (n - 1) + 1 = n
  BY <1>3, <1>4
<1> QED
  BY <1>3, <1>5

\* Of the finite sets in a collection one has no other below it.
LEMMA Smallest ==
    ASSUME NEW S, NEW T, T \subseteq FiniteSubsetsOf(S), T # {}
    PROVE  \E A \in T : \A B \in T : B \subseteq A => B = A
<1>1. \E x \in T : \A y \in T : ~ (<<y, x>> \in StrictSubsetOrdering(S))
  BY WFMin, FS_StrictSubsetOrderingWellFounded
<1> QED
  BY <1>1 DEF StrictSubsetOrdering, FiniteSubsetsOf

-----------------------------------------------------------------------------
(* Running totals of amounts that are numbered from 1.                      *)
Runs(u, a, n) == u = [k \in 0..n |-> IF k = 0 THEN 0 ELSE u[k - 1] + a[k]]

Total(a, n) == (CHOOSE u : Runs(u, a, n))[n]

\* There is a running total of any amounts.
LEMMA RunExists ==
    ASSUME NEW a \in [Nat -> Nat]
    PROVE  \A n \in Nat : \E u \in [0..n -> Nat] : Runs(u, a, n)
<1> DEFINE T == {n \in Nat : \E u \in [0..n -> Nat] : Runs(u, a, n)}
<1>1. 0 \in T
  <2> DEFINE u == [k \in 0..0 |-> 0]
  <2>1. u \in [0..0 -> Nat] /\ Runs(u, a, 0)
    BY DEF Runs
  <2> QED
    BY <2>1
<1>2. ASSUME NEW n \in Nat, n \in T PROVE n + 1 \in T
  <2>1. PICK u \in [0..n -> Nat] : Runs(u, a, n)
    BY <1>2
  <2> DEFINE w == [k \in 0..(n + 1) |-> IF k = n + 1 THEN u[n] + a[n + 1] ELSE u[k]]
  <2>2. w \in [0..(n + 1) -> Nat]
    <3>1. u[n] + a[n + 1] \in Nat
      <4>1. n \in 0..n /\ n + 1 \in Nat
        OBVIOUS
      <4>2. u[n] \in Nat /\ a[n + 1] \in Nat
        BY <4>1
      <4>3. \A x, y \in Nat : x + y \in Nat
        OBVIOUS
      <4> QED
        BY ONLY <4>2, <4>3
    <3>2. \A k \in 0..(n + 1) : k # n + 1 => k \in 0..n
      OBVIOUS
    <3> QED
      BY <3>1, <3>2
  <2>3. ASSUME NEW k \in 0..(n + 1) PROVE w[k] = IF k = 0 THEN 0 ELSE w[k - 1] + a[k]
    <3>1. CASE k = 0
      <4>1. k # n + 1 /\ k \in 0..n
        BY <3>1
      <4>2. u[k] = 0
        BY <2>1, <3>1, <4>1 DEF Runs
      <4> QED
        BY <3>1, <4>1, <4>2
    <3>2. CASE k = n + 1
      <4>1. k # 0 /\ k - 1 = n /\ n \in 0..(n + 1) /\ n # n + 1
        BY <3>2
      <4> QED
        BY <3>2, <4>1
    <3>3. CASE k # 0 /\ k # n + 1
      <4>1. k \in 0..n /\ k - 1 \in 0..(n + 1) /\ k - 1 # n + 1
        BY <3>3
      <4>2. u[k] = u[k - 1] + a[k]
        BY <2>1, <3>3, <4>1 DEF Runs
      <4> QED
        BY <3>3, <4>1, <4>2
    <3> QED
      BY <3>1, <3>2, <3>3
  <2> HIDE DEF w
  <2>4. Runs(w, a, n + 1)
    BY <2>2, <2>3 DEF Runs
  <2>5. n + 1 \in Nat
    OBVIOUS
  <2> QED
    BY <2>2, <2>4, <2>5
<1> HIDE DEF T
<1>3. Nat \subseteq T
  BY <1>1, <1>2, Counting
<1> QED
  BY <1>3 DEF T

\* And only one.
LEMMA RunUnique ==
    ASSUME NEW a \in [Nat -> Nat], NEW n \in Nat, NEW u, NEW w, Runs(u, a, n), Runs(w, a, n)
    PROVE  u = w
<1> DEFINE T == {k \in Nat : k <= n => u[k] = w[k]}
<1>1. 0 \in T
  BY DEF Runs
<1>2. ASSUME NEW k \in Nat, k \in T PROVE k + 1 \in T
  <2> SUFFICES ASSUME k + 1 <= n PROVE u[k + 1] = w[k + 1]
    OBVIOUS
  <2>1. u[k] = w[k] /\ k + 1 \in 0..n /\ (k + 1) - 1 = k /\ k + 1 # 0
    BY <1>2
  <2>2. u[k + 1] = u[k] + a[k + 1] /\ w[k + 1] = w[k] + a[k + 1]
    BY <2>1 DEF Runs
  <2> QED
    BY <2>1, <2>2
<1> HIDE DEF T
<1>3. Nat \subseteq T
  BY <1>1, <1>2, Counting
<1>4. \A k \in 0..n : u[k] = w[k]
  BY <1>3 DEF T
<1> QED
  BY <1>4 DEF Runs

\* The total of nothing, and the total with one amount more.
LEMMA TotalRuns ==
    ASSUME NEW a \in [Nat -> Nat], NEW n \in Nat
    PROVE  /\ Total(a, n) \in Nat
           /\ Total(a, 0) = 0
           /\ Total(a, n + 1) = Total(a, n) + a[n + 1]
<1>1. \A m \in Nat : \E u \in [0..m -> Nat] : Runs(u, a, m) /\ Total(a, m) = u[m]
  <2> SUFFICES ASSUME NEW m \in Nat PROVE \E u \in [0..m -> Nat] : Runs(u, a, m) /\ Total(a,
     m) = u[m]
    OBVIOUS
  <2>1. PICK u \in [0..m -> Nat] : Runs(u, a, m)
    BY RunExists
  <2>2. Runs(CHOOSE x : Runs(x, a, m), a, m)
    BY <2>1
  <2>3. (CHOOSE x : Runs(x, a, m)) = u
    BY <2>1, <2>2, RunUnique
  <2> QED
    BY <2>1, <2>3 DEF Total
<1>2. Total(a, n) \in Nat
  <2>1. PICK u \in [0..n -> Nat] : Runs(u, a, n) /\ Total(a, n) = u[n]
    BY <1>1
  <2> QED
    BY <2>1
<1>3. Total(a, 0) = 0
  <2>1. PICK u \in [0..0 -> Nat] : Runs(u, a, 0) /\ Total(a, 0) = u[0]
    BY <1>1
  <2> QED
    BY <2>1 DEF Runs
<1>4. Total(a, n + 1) = Total(a, n) + a[n + 1]
  <2>1. PICK u \in [0..n -> Nat] : Runs(u, a, n) /\ Total(a, n) = u[n]
    BY <1>1
  <2>2. PICK w \in [0..(n + 1) -> Nat] : Runs(w, a, n + 1) /\ Total(a, n + 1) = w[n + 1]
    <3>1. n + 1 \in Nat
      OBVIOUS
    <3> QED
      BY <1>1, <3>1
  <2>3. w[n + 1] = w[n] + a[n + 1]
    <3>1. n + 1 \in 0..(n + 1) /\ n + 1 # 0 /\ (n + 1) - 1 = n
      OBVIOUS
    <3> QED
      BY <2>2, <3>1 DEF Runs
  <2> DEFINE r == [k \in 0..n |-> w[k]]
  <2>4. ASSUME NEW k \in 0..n PROVE r[k] = IF k = 0 THEN 0 ELSE r[k - 1] + a[k]
    <3>1. k \in 0..(n + 1) /\ (k # 0 => k - 1 \in 0..n)
      OBVIOUS
    <3>2. w[k] = IF k = 0 THEN 0 ELSE w[k - 1] + a[k]
      BY <2>2, <3>1 DEF Runs
    <3> QED
      BY <3>1, <3>2
  <2>5. r[n] = w[n] /\ r = [k \in 0..n |-> r[k]]
    OBVIOUS
  <2> HIDE DEF r
  <2>6. Runs(r, a, n)
    BY <2>4, <2>5 DEF Runs
  <2>7. r = u
    BY <2>1, <2>6, RunUnique
  <2> QED
    BY ONLY <2>1, <2>2, <2>3, <2>5, <2>7
<1> QED
  BY <1>2, <1>3, <1>4

\* Totals compare as their amounts do.
LEMMA TotalCompares ==
    ASSUME NEW a \in [Nat -> Nat], NEW b \in [Nat -> Nat], NEW n \in Nat,
           \A k \in 1..n : a[k] <= b[k]
    PROVE  Total(a, n) <= Total(b, n)
<1> DEFINE T == {m \in Nat : m <= n => Total(a, m) <= Total(b, m)}
<1>1. 0 \in T
  <2>1. 0 \in Nat /\ Total(a, 0) = 0 /\ Total(b, 0) = 0
    BY TotalRuns
  <2> QED
    BY ONLY <2>1
<1>2. ASSUME NEW m \in Nat, m \in T PROVE m + 1 \in T
  <2> SUFFICES ASSUME m + 1 <= n PROVE Total(a, m + 1) <= Total(b, m + 1)
    OBVIOUS
  <2>1. Total(a, m) <= Total(b, m) /\ m + 1 \in 1..n /\ m + 1 \in Nat
    BY <1>2
  <2>2. /\ Total(a, m + 1) = Total(a, m) + a[m + 1] /\ Total(a, m) \in Nat
        /\ Total(b, m + 1) = Total(b, m) + b[m + 1] /\ Total(b, m) \in Nat
    BY TotalRuns
  <2>3. a[m + 1] <= b[m + 1] /\ a[m + 1] \in Nat /\ b[m + 1] \in Nat
    BY <2>1
  <2>4. \A x, y, v, w \in Nat : x <= y /\ v <= w => x + v <= y + w
    OBVIOUS
  <2> QED
    BY ONLY <2>1, <2>2, <2>3, <2>4
<1> HIDE DEF T
<1>3. n \in T
  BY <1>1, <1>2, Counting
<1> QED
  BY <1>3 DEF T

\* Equal amounts have equal totals.
LEMMA TotalSame ==
    ASSUME NEW a \in [Nat -> Nat], NEW b \in [Nat -> Nat], NEW n \in Nat,
           \A k \in 1..n : a[k] = b[k]
    PROVE  Total(a, n) = Total(b, n)
<1>1. \A k \in 1..n : a[k] <= b[k] /\ b[k] <= a[k]
  <2> SUFFICES ASSUME NEW k \in 1..n PROVE a[k] <= b[k] /\ b[k] <= a[k]
    OBVIOUS
  <2>1. k \in Nat /\ a[k] = b[k]
    OBVIOUS
  <2>2. a[k] \in Nat
    BY <2>1
  <2> QED
    BY <2>1, <2>2
<1>2. Total(a, n) <= Total(b, n) /\ Total(b, n) <= Total(a, n)
  BY <1>1, TotalCompares
<1>3. Total(a, n) \in Nat /\ Total(b, n) \in Nat
  BY TotalRuns
<1> QED
  BY <1>2, <1>3

\* A total of sums is the sum of the totals.
LEMMA TotalAdds ==
    ASSUME NEW a \in [Nat -> Nat], NEW b \in [Nat -> Nat], NEW c \in [Nat -> Nat],
           NEW n \in Nat, \A k \in 1..n : c[k] = a[k] + b[k]
    PROVE  Total(c, n) = Total(a, n) + Total(b, n)
<1> DEFINE T == {m \in Nat : m <= n => Total(c, m) = Total(a, m) + Total(b, m)}
<1>1. 0 \in T
  <2>1. Total(a, 0) = 0 /\ Total(b, 0) = 0 /\ Total(c, 0) = 0
    BY TotalRuns
  <2> QED
    BY ONLY <2>1
<1>2. ASSUME NEW m \in Nat, m \in T PROVE m + 1 \in T
  <2> SUFFICES ASSUME m + 1 <= n PROVE Total(c, m + 1) = Total(a, m + 1) + Total(b, m + 1)
    OBVIOUS
  <2>1. Total(c, m) = Total(a, m) + Total(b, m) /\ m + 1 \in 1..n /\ m + 1 \in Nat
    BY <1>2
  <2>2. /\ Total(a, m + 1) = Total(a, m) + a[m + 1] /\ Total(a, m) \in Nat
        /\ Total(b, m + 1) = Total(b, m) + b[m + 1] /\ Total(b, m) \in Nat
        /\ Total(c, m + 1) = Total(c, m) + c[m + 1] /\ Total(c, m) \in Nat
    BY TotalRuns
  <2>3. c[m + 1] = a[m + 1] + b[m + 1] /\ a[m + 1] \in Nat /\ b[m + 1] \in Nat
    BY <2>1
  <2>4. \A x, y, v, w \in Nat : (x + y) + (v + w) = (x + v) + (y + w)
    OBVIOUS
  <2> QED
    BY ONLY <2>1, <2>2, <2>3, <2>4
<1> HIDE DEF T
<1>3. n \in T
  BY <1>1, <1>2, Counting
<1> QED
  BY <1>3 DEF T

\* A total is no less than any of its amounts.
LEMMA TotalAtLeast ==
    ASSUME NEW a \in [Nat -> Nat], NEW n \in Nat, NEW k \in 1..n
    PROVE  a[k] <= Total(a, n)
<1> DEFINE T == {m \in Nat : k <= m => a[k] <= Total(a, m)}
<1>0. a[k] \in Nat /\ k \in Nat /\ k >= 1
  OBVIOUS
<1>1. 0 \in T
  <2>1. ~(k <= 0)
    BY ONLY <1>0
  <2>2. k <= 0 => a[k] <= Total(a, 0)
    BY <2>1
  <2> QED
    BY ONLY <2>2
<1>2. ASSUME NEW m \in Nat, m \in T PROVE m + 1 \in T
  <2> SUFFICES ASSUME k <= m + 1 PROVE a[k] <= Total(a, m + 1)
    OBVIOUS
  <2>1. Total(a, m + 1) = Total(a, m) + a[m + 1] /\ Total(a, m) \in Nat
    BY TotalRuns
  <2>2. a[m + 1] \in Nat
    OBVIOUS
  <2>3. k = m + 1 \/ k <= m
    BY <1>0
  <2>4. \A x, y \in Nat : x + y >= x /\ x + y >= y
    OBVIOUS
  <2>5. CASE k = m + 1
    BY ONLY <2>1, <2>2, <2>4, <2>5
  <2>6. CASE k <= m
    <3>1. a[k] <= Total(a, m)
      BY <1>2, <2>6
    <3>2. \A x, y, z \in Nat : x <= y => x <= y + z
      OBVIOUS
    <3> QED
      BY ONLY <1>0, <2>1, <2>2, <3>1, <3>2
  <2> QED
    BY <2>3, <2>5, <2>6
<1> HIDE DEF T
<1>3. n \in T
  BY <1>1, <1>2, Counting
<1> QED
  BY <1>3 DEF T

\* Amounts that are all zero come to zero.
LEMMA TotalOfNothing ==
    ASSUME NEW a \in [Nat -> Nat], NEW n \in Nat, \A k \in 1..n : a[k] = 0
    PROVE  Total(a, n) = 0
<1> DEFINE T == {m \in Nat : m <= n => Total(a, m) = 0}
<1>1. 0 \in T
  BY TotalRuns
<1>2. ASSUME NEW m \in Nat, m \in T PROVE m + 1 \in T
  <2> SUFFICES ASSUME m + 1 <= n PROVE Total(a, m + 1) = 0
    OBVIOUS
  <2>1. Total(a, m + 1) = Total(a, m) + a[m + 1]
    BY TotalRuns
  <2>2. m + 1 \in 1..n /\ Total(a, m) = 0
    BY <1>2
  <2> QED
    BY <2>1, <2>2
<1> HIDE DEF T
<1>3. n \in T
  BY <1>1, <1>2, Counting
<1> QED
  BY <1>3 DEF T

-----------------------------------------------------------------------------
(* Sums over rows.                                                          *)
Priced(cs) == Len(cs) \in Nat /\ \A k \in 1..Len(cs) : cs[k].amount \in Nat

Charged(cs, S) == [k \in Nat |-> IF k \in S /\ k \in 1..Len(cs) THEN cs[k].amount ELSE 0]

SumOf(cs, S) == Total(Charged(cs, S), Len(cs))

\* Amounts of rows are numbers, and so is their sum.
LEMMA ChargedType == ASSUME NEW cs, Priced(cs), NEW S PROVE Charged(cs, S) \in [Nat -> Nat]
BY DEF Priced, Charged

\* The sum of rows is a number.
LEMMA SumNat == ASSUME NEW cs, Priced(cs), NEW S PROVE SumOf(cs, S) \in Nat
BY ChargedType, TotalRuns DEF SumOf, Priced

\* Only the rows that cost something matter.
LEMMA SumSame ==
    ASSUME NEW cs, Priced(cs), NEW S, NEW U,
           \A k \in 1..Len(cs) : cs[k].amount # 0 => (k \in S <=> k \in U)
    PROVE  SumOf(cs, S) = SumOf(cs, U)
<1>1. \A k \in 1..Len(cs) : Charged(cs, S)[k] = Charged(cs, U)[k]
  BY DEF Charged, Priced
<1> QED
  BY <1>1, ChargedType, TotalSame DEF SumOf, Priced

\* No rows, no sum.
LEMMA SumEmpty == ASSUME NEW cs, Priced(cs) PROVE SumOf(cs, {}) = 0
<1>1. \A k \in 1..Len(cs) : Charged(cs, {})[k] = 0
  BY DEF Charged, Priced
<1> QED
  BY <1>1, ChargedType, TotalOfNothing DEF SumOf, Priced

\* The sums of rows that have none in common add up.
LEMMA SumDisjoint ==
    ASSUME NEW cs, Priced(cs), NEW S, NEW U, S \cap U = {}
    PROVE  SumOf(cs, S \cup U) = SumOf(cs, S) + SumOf(cs, U)
<1>1. ASSUME NEW k \in 1..Len(cs)
      PROVE Charged(cs, S \cup U)[k] = Charged(cs, S)[k] + Charged(cs, U)[k]
  <2>1. k \in Nat /\ cs[k].amount \in Nat
    BY DEF Priced
  <2>2. \A x \in Nat : x + 0 = x /\ 0 + x = x
    OBVIOUS
  <2>3. ~(k \in S /\ k \in U)
    OBVIOUS
  <2> QED
    BY <2>1, <2>2, <2>3 DEF Charged
<1>2. /\ Charged(cs, S) \in [Nat -> Nat] /\ Charged(cs, U) \in [Nat -> Nat]
      /\ Charged(cs, S \cup U) \in [Nat -> Nat] /\ Len(cs) \in Nat
  BY ChargedType DEF Priced
<1>3. Total(Charged(cs, S \cup U), Len(cs))
        = Total(Charged(cs, S), Len(cs)) + Total(Charged(cs, U), Len(cs))
  BY ONLY <1>1, <1>2, TotalAdds
<1> QED
  BY ONLY <1>3 DEF SumOf

\* A sum of zero is of rows that cost nothing.
LEMMA SumZero ==
    ASSUME NEW cs, Priced(cs), NEW S, SumOf(cs, S) = 0, NEW k \in 1..Len(cs), k \in S
    PROVE  cs[k].amount = 0
<1>1. Charged(cs, S)[k] <= 0
  BY ChargedType, TotalAtLeast DEF SumOf, Priced
<1>2. k \in Nat /\ cs[k].amount \in Nat
  BY DEF Priced
<1> QED
  BY <1>1, <1>2 DEF Charged

\* Rows are only ever added.
LEMMA SumGrows ==
    ASSUME NEW cs, Priced(cs), NEW ds, Priced(ds), Len(ds) = Len(cs) \/ Len(ds) = Len(cs) + 1,
           \A k \in 1..Len(cs) : ds[k] = cs[k],
           NEW S, NEW U, \A k \in 1..Len(cs) : k \in S => k \in U
    PROVE  SumOf(cs, S) <= SumOf(ds, U)
<1> DEFINE n == Len(cs)
           a == Charged(cs, S)
           b == Charged(ds, U)
<1>1. a \in [Nat -> Nat] /\ b \in [Nat -> Nat] /\ n \in Nat
  BY ChargedType DEF Priced
<1>2. \A k \in 1..n : a[k] <= b[k]
  <2> SUFFICES ASSUME NEW k \in 1..n PROVE a[k] <= b[k]
    OBVIOUS
  <2>1. cs[k].amount \in Nat /\ ds[k] = cs[k] /\ (k \in S => k \in U)
    BY <1>1 DEF Priced
  <2>3. k \in Nat /\ k \in 1..Len(ds)
    <3>1. k \in 1..Len(cs) /\ Len(cs) \in Nat /\ (Len(ds) = Len(cs) \/ Len(ds) = Len(cs) + 1)
      BY <1>1
    <3>2. \A p, q \in Nat : q = p \/ q = p + 1 => \A i \in 1..p : i \in Nat /\ i \in 1..q
      OBVIOUS
    <3> QED
      BY ONLY <3>1, <3>2
  <2>2. \A x \in Nat : x <= x /\ 0 <= x
    OBVIOUS
  <2> QED
    BY <2>1, <2>2, <2>3 DEF Charged
<1> HIDE DEF a, b
<1>3. Total(a, n) <= Total(b, n)
  BY <1>1, <1>2, TotalCompares
<1>4. /\ Total(b, n + 1) = Total(b, n) + b[n + 1] /\ Total(b, n) \in Nat /\ Total(a, n) \in Nat
      /\ b[n + 1] \in Nat
  <2>1. n + 1 \in Nat
    BY <1>1
  <2>2. b[n + 1] \in Nat
    BY <1>1, <2>1
  <2> QED
    BY <1>1, <2>2, TotalRuns
<1>5. \A x, y, z \in Nat : x <= y => x <= y + z
  OBVIOUS
<1>6. Total(a, n) <= Total(b, n + 1)
  BY ONLY <1>3, <1>4, <1>5
<1>7. SumOf(cs, S) = Total(a, n) /\ SumOf(ds, U) = Total(b, Len(ds))
  BY DEF SumOf, a, b
<1> QED
  BY <1>3, <1>6, <1>7

-----------------------------------------------------------------------------
(* Sums over finite sets, as the folds of the community modules compute     *)
(* them: one element after the other.                                       *)
One(S) == CHOOSE x \in S : TRUE

Folds(it, f, S) ==
    it = [s \in SUBSET S |-> IF s = {} THEN 0 ELSE f[One(s)] + it[s \ {One(s)}]]

Fold(f, S) == (CHOOSE it : Folds(it, f, S))[S]

\* SumFunctionOnSet of the community modules is such a fold.
LEMMA SumFunctionIsFold == ASSUME NEW f, NEW S PROVE SumFunctionOnSet(f, S) = Fold(f, S)
BY DEF SumFunctionOnSet, FoldFunctionOnSet, MapThenFoldSet, Fold, Folds, One

\* A set is folded in one way only.
LEMMA FoldUnique ==
    ASSUME NEW f, NEW S, IsFiniteSet(S), NEW it, NEW jt, Folds(it, f, S), Folds(jt, f, S)
    PROVE  it = jt
<1> DEFINE T == {s \in SUBSET S : it[s] # jt[s]}
<1>1. SUFFICES ASSUME T # {} PROVE FALSE
  BY DEF Folds
<1>2. T \subseteq FiniteSubsetsOf(S)
  BY FS_Subset DEF FiniteSubsetsOf
<1>3. PICK A \in T : \A B \in T : B \subseteq A => B = A
  <2> HIDE DEF T
  <2> QED
    BY <1>1, <1>2, Smallest
<1>4. A # {} /\ One(A) \in A
  BY DEF Folds, One
<1>5. A \ {One(A)} \notin T /\ A \ {One(A)} \in SUBSET S
  BY <1>3, <1>4
<1>6. it[A \ {One(A)}] = jt[A \ {One(A)}]
  BY <1>5
<1>7. it[A] = jt[A]
  BY <1>4, <1>6 DEF Folds
<1> QED
  BY <1>7

\* Every fold exists, and does what it says.
LEMMA FoldExists ==
    ASSUME NEW f, NEW S, IsFiniteSet(S)
    PROVE  Folds([s \in SUBSET S |-> Fold(f, s)], f, S)
<1> DEFINE Good(s) == Folds([r \in SUBSET s |-> Fold(f, r)], f, s)
           T == {s \in SUBSET S : ~Good(s)}
<1>1. SUFFICES ASSUME T # {} PROVE FALSE
  OBVIOUS
<1>2. T \subseteq FiniteSubsetsOf(S)
  <2> HIDE DEF Good
  <2> QED
    BY FS_Subset DEF FiniteSubsetsOf
<1>3. PICK A \in T : \A B \in T : B \subseteq A => B = A
  <2> HIDE DEF T
  <2> QED
    BY <1>1, <1>2, Smallest
<1>4. \A B \in SUBSET A : B # A => Good(B)
  BY <1>3
<1> HIDE DEF Good
<1>5. ASSUME NEW B \in SUBSET A, B # A
      PROVE  Fold(f, B) = IF B = {} THEN 0 ELSE f[One(B)] + Fold(f, B \ {One(B)})
  <2>1. Good(B)
    BY <1>4, <1>5
  <2>2. B \in SUBSET B /\ B \ {One(B)} \in SUBSET B
    OBVIOUS
  <2> QED
    BY <2>1, <2>2 DEF Good, Folds
<1> DEFINE top == IF A = {} THEN 0 ELSE f[One(A)] + Fold(f, A \ {One(A)})
           it == [s \in SUBSET A |-> IF s = A THEN top ELSE Fold(f, s)]
<1>6. ASSUME NEW s \in SUBSET A
      PROVE  it[s] = IF s = {} THEN 0 ELSE f[One(s)] + it[s \ {One(s)}]
  <2>1. s # {} => s \ {One(s)} \in SUBSET A /\ s \ {One(s)} # A
    BY DEF One
  <2> QED
    BY <1>5, <2>1
<1>7. Folds(it, f, A)
  <2> HIDE DEF top
  <2>1. it = [s \in SUBSET A |-> it[s]]
    OBVIOUS
  <2> HIDE DEF it
  <2> QED
    BY <1>6, <2>1 DEF Folds
<1>8. Fold(f, A) = it[A]
  <2>1. IsFiniteSet(A) /\ Folds(CHOOSE x : Folds(x, f, A), f, A)
    BY <1>2, <1>7 DEF FiniteSubsetsOf
  <2>2. (CHOOSE x : Folds(x, f, A)) = it
    BY <1>7, <2>1, FoldUnique
  <2> QED
    BY <2>2 DEF Fold
<1>9. [s \in SUBSET A |-> Fold(f, s)] = it
  BY <1>8
<1>10. Good(A)
  BY <1>7, <1>9 DEF Good
<1> QED
  BY <1>10

\* A fold takes one element after the other.
LEMMA FoldSteps ==
    ASSUME NEW f, NEW S, IsFiniteSet(S)
    PROVE  /\ Fold(f, {}) = 0
           /\ S # {} => One(S) \in S /\ Fold(f, S) = f[One(S)] + Fold(f, S \ {One(S)})
<1> DEFINE it == [s \in SUBSET S |-> Fold(f, s)]
<1>1. Folds(it, f, S)
  BY FoldExists
<1>2. ASSUME NEW s \in SUBSET S
      PROVE  it[s] = IF s = {} THEN 0 ELSE f[One(s)] + it[s \ {One(s)}]
  <2> HIDE DEF it
  <2> QED
    BY <1>1 DEF Folds
<1>3. Fold(f, {}) = 0
  BY <1>2
<1>4. S # {} => One(S) \in S
  BY DEF One
<1>5. it[S] = IF S = {} THEN 0 ELSE f[One(S)] + it[S \ {One(S)}]
  BY <1>2
<1>6. it[S] = Fold(f, S) /\ it[S \ {One(S)}] = Fold(f, S \ {One(S)})
  OBVIOUS
<1> QED
  BY <1>3, <1>4, <1>5, <1>6

Cover(P, S) == UNION {P[k] : k \in S}

Apart(P, S) == \A j, k \in S : j # k => P[j] \cap P[k] = {}

\* Parts without a common row, one of them and the others.
LEMMA CoverSteps ==
    ASSUME NEW P, NEW S, Apart(P, S), NEW x \in S
    PROVE  /\ Cover(P, S) = P[x] \cup Cover(P, S \ {x})
           /\ P[x] \cap Cover(P, S \ {x}) = {}
BY DEF Cover, Apart

\* The sums of parts that have no row in common add up to the sum of them all.
LEMMA PartsAddUp ==
    ASSUME NEW cs, Priced(cs), NEW f, NEW P, NEW S, IsFiniteSet(S), Apart(P, S),
           \A k \in S : f[k] = SumOf(cs, P[k])
    PROVE  Fold(f, S) = SumOf(cs, Cover(P, S))
<1> DEFINE T == {s \in SUBSET S : Fold(f, s) # SumOf(cs, Cover(P, s))}
<1>1. SUFFICES ASSUME T # {} PROVE FALSE
  OBVIOUS
<1>2. T \subseteq FiniteSubsetsOf(S)
  BY FS_Subset DEF FiniteSubsetsOf
<1>3. PICK A \in T : \A B \in T : B \subseteq A => B = A
  <2> HIDE DEF T
  <2> QED
    BY <1>1, <1>2, Smallest
<1>4. IsFiniteSet(A) /\ A \subseteq S
  BY <1>2 DEF FiniteSubsetsOf
<1>5. A # {}
  <2>1. Cover(P, {}) = {}
    BY DEF Cover
  <2> QED
    BY <2>1, <1>4, FoldSteps, SumEmpty
<1> DEFINE x == One(A)
<1>6. x \in A /\ Fold(f, A) = f[x] + Fold(f, A \ {x})
  BY <1>4, <1>5, FoldSteps
<1>7. Apart(P, A)
  BY <1>4 DEF Apart
<1> HIDE DEF x
<1>8. Fold(f, A \ {x}) = SumOf(cs, Cover(P, A \ {x}))
  BY <1>3, <1>6
<1>9. SumOf(cs, Cover(P, A)) = SumOf(cs, P[x]) + SumOf(cs, Cover(P, A \ {x}))
  BY <1>6, <1>7, CoverSteps, SumDisjoint
<1> QED
  BY <1>4, <1>6, <1>8, <1>9

\* What is at most the sum of each part adds up to no more.
LEMMA PartsBound ==
    ASSUME NEW cs, Priced(cs), NEW f, NEW P, NEW S, IsFiniteSet(S), Apart(P, S),
           \A k \in S : f[k] \in Nat /\ f[k] <= SumOf(cs, P[k])
    PROVE  Fold(f, S) \in Nat /\ Fold(f, S) <= SumOf(cs, Cover(P, S))
<1> DEFINE Good(s) == Fold(f, s) \in Nat /\ Fold(f, s) <= SumOf(cs, Cover(P, s))
           T == {s \in SUBSET S : ~Good(s)}
<1>1. SUFFICES ASSUME T # {} PROVE FALSE
  OBVIOUS
<1>2. T \subseteq FiniteSubsetsOf(S)
  <2> HIDE DEF Good
  <2> QED
    BY FS_Subset DEF FiniteSubsetsOf
<1>3. PICK A \in T : \A B \in T : B \subseteq A => B = A
  <2> HIDE DEF T
  <2> QED
    BY <1>1, <1>2, Smallest
<1>4. IsFiniteSet(A) /\ A \subseteq S
  BY <1>2 DEF FiniteSubsetsOf
<1>5. A # {}
  <2>1. Cover(P, {}) = {}
    BY DEF Cover
  <2>2. Fold(f, {}) = 0 /\ SumOf(cs, {}) = 0
    BY <1>4, FoldSteps, SumEmpty
  <2>3. Good({})
    BY <2>1, <2>2
  <2> HIDE DEF Good
  <2> QED
    BY <2>3
<1> DEFINE x == One(A)
<1>6. x \in A /\ Fold(f, A) = f[x] + Fold(f, A \ {x})
  BY <1>4, <1>5, FoldSteps
<1>7. Apart(P, A)
  BY <1>4 DEF Apart
<1> HIDE DEF x
<1>8. Good(A \ {x})
  <2> HIDE DEF Good
  <2> QED
    BY <1>3, <1>6
<1>9. SumOf(cs, Cover(P, A)) = SumOf(cs, P[x]) + SumOf(cs, Cover(P, A \ {x}))
  BY <1>6, <1>7, CoverSteps, SumDisjoint
<1>10. f[x] \in Nat /\ f[x] <= SumOf(cs, P[x]) /\ SumOf(cs, P[x]) \in Nat
       /\ SumOf(cs, Cover(P, A \ {x})) \in Nat
  BY <1>4, <1>6, SumNat
<1>11. \A a, b, c, d \in Nat : a <= b /\ c <= d => a + c \in Nat /\ a + c <= b + d
  OBVIOUS
<1>12. Good(A)
  BY ONLY <1>6, <1>8, <1>9, <1>10, <1>11
<1> QED
  BY <1>12

-----------------------------------------------------------------------------
(* Costs: the rows, the prices and the rooms.                               *)

Rows == [of : Event, at : Instants, amount : Nat]

\* What a row of an event may have been charged at.
PriceFor(e) == {p \in Prices : p.service = e.pipeline /\ p.provider = e.provider
                                 /\ <<e.unit, p.model>> \in Converts}

\* Nothing was free that had a price.
FreeForCause(r) ==
    r.amount = 0 => \A p \in PriceFor(r.of) : p.from > Min(Instants) \/
        \E q \in Prices : /\ q.service = p.service /\ q.provider = p.provider
                         /\ p.from <= q.from /\ q.from <= r.at
                         /\ (q \notin PriceFor(r.of) \/ q.price = 0)

\* The prices that had taken effect by t and that the row may have been paid at.
Paid(r, t) == {p \in PriceFor(r.of) : p.price = r.amount /\ p.from <= t}

\* PricedInForce, of any rows.
InOrder(cs) == \A i \in DOMAIN cs :
    /\ FreeForCause(cs[i])
    /\ cs[i].amount # 0 => \E p \in Paid(cs[i], cs[i].at) :
         \A j \in 1..(i - 1) :
           PriceFor(cs[j].of) = PriceFor(cs[i].of) /\ cs[j].amount # 0 =>
             Paid(cs[j], p.from) # {}

\* The prices at hand are those of an instant that is over, and no row was paid
\* at a later price.
Bought == \E t \in Instants :
    /\ t <= clock /\ pricing = InForce(t)
    /\ \A i \in DOMAIN costs : costs[i].amount # 0 => Paid(costs[i], t) # {}

\* Speakers are those of the room as it was made.
Names(e) ==
    \/ e.speaker = None /\ e.target = None
    \/ e.pipeline = "mt" /\ e.speaker \in 1..Speakers[e.room] /\ e.target \in 1..Speakers[e.room]

RowsNamed == \A i \in DOMAIN costs : Names(costs[i].of)

\* A room has the speakers of its code or none, and is another one than the archived.
RoomsMade == \A c \in Codes : rooms[c] # None =>
    /\ rooms[c].speakers \in {0, Speakers[c]}
    /\ archive[c] # None => rooms[c].again

\* An archive, and a history half read, have no more than the rows have.
ArchiveBelow == \A c \in Codes : archive[c] # None =>
    archive[c].stt + archive[c].mt <= Sum(Of({c}))

HistoryBelow == hist # None => hist.total <= Sum(Of(hist.live))

CostsInv ==
    /\ CostsTypeOK /\ InOrder(costs) /\ Bought
    /\ RowsNamed /\ RoomsMade /\ ArchiveBelow /\ HistoryBelow

-----------------------------------------------------------------------------
\* The sum of the model is the sum of the rows.
LEMMA SumIs ==
    ASSUME NEW cs, Priced(cs), NEW S
    PROVE  SumOf(cs, S) =
             LET upTo[k \in 0..Len(cs)] ==
                   IF k = 0 THEN 0 ELSE upTo[k - 1] + IF k \in S THEN cs[k].amount ELSE 0
             IN  upTo[Len(cs)]
<1> DEFINE n == Len(cs)
           a == Charged(cs, S)
<1>1. ASSUME NEW k \in 0..n, k # 0 PROVE a[k] = IF k \in S THEN cs[k].amount ELSE 0
  <2>1. k \in Nat /\ k \in 1..n
    BY <1>1 DEF Priced
  <2> QED
    BY <2>1 DEF Charged
<1> HIDE DEF a
<1>2. \A u : [k \in 0..n |-> IF k = 0 THEN 0 ELSE u[k - 1] + a[k]]
               = [k \in 0..n |-> IF k = 0 THEN 0
                                 ELSE u[k - 1] + IF k \in S THEN cs[k].amount ELSE 0]
  BY <1>1
<1>3. (CHOOSE u : Runs(u, a, n)) =
        CHOOSE u : u = [k \in 0..n |-> IF k = 0 THEN 0
                                       ELSE u[k - 1] + IF k \in S THEN cs[k].amount ELSE 0]
  BY <1>2, Zenon DEF Runs
<1> QED
  BY <1>3 DEF SumOf, Total, a

\* The rows of a table have amounts.
LEMMA RowsPriced == ASSUME NEW cs \in Seq(Rows) PROVE Priced(cs) /\ DOMAIN cs = 1..Len(cs)
<1>1. Len(cs) \in Nat /\ DOMAIN cs = 1..Len(cs)
  OBVIOUS
<1>2. ASSUME NEW k \in 1..Len(cs) PROVE cs[k].amount \in Nat
  <2>1. cs[k] \in Rows
    BY <1>2, ElementOfSeq
  <2> QED
    BY <2>1 DEF Rows
<1> QED
  BY <1>1, <1>2 DEF Priced

\* Sum, the model's operator, is the sum of the rows of costs.
LEMMA SumsOfCosts == ASSUME CostsTypeOK, NEW S PROVE Sum(S) = SumOf(costs, S)
<1>1. Priced(costs)
  BY RowsPriced DEF CostsTypeOK, Rows
<1> QED
  BY <1>1, SumIs DEF Sum

\* The least and the largest of finitely many integers.
LEMMA SomeLeast ==
    ASSUME NEW S, S \subseteq Int, IsFiniteSet(S), S # {}
    PROVE  \E x \in S : \A y \in S : x <= y
<1> DEFINE Up(x) == {y \in S : y <= x}
           T == {Up(x) : x \in S}
<1>1. \A x \in S : Up(x) \subseteq S /\ IsFiniteSet(Up(x))
  <2>1. \A x \in S : Up(x) \subseteq S
    OBVIOUS
  <2> HIDE DEF Up
  <2> QED
    BY <2>1, FS_Subset
<1>2. \A x, y \in S : (~(x <= y) => Up(y) \subseteq Up(x) /\ x \in Up(x) /\ x \notin Up(y))
  <2>1. \A x, y, z \in Int : (~(x <= y) => y <= x) /\ (y <= x /\ z <= y => z <= x) /\ x <= x
    OBVIOUS
  <2> QED
    BY <2>1
<1> HIDE DEF Up
<1>3. T \subseteq FiniteSubsetsOf(S) /\ T # {} /\ \A x \in S : Up(x) \in T
  BY <1>1 DEF FiniteSubsetsOf
<1>4. \A A \in T : \E x \in S : A = Up(x)
  OBVIOUS
<1> HIDE DEF T
<1>5. PICK A \in T : \A B \in T : B \subseteq A => B = A
  BY <1>3, Smallest
<1>6. PICK x \in S : A = Up(x)
  BY <1>4
<1>7. ASSUME NEW y \in S, ~(x <= y) PROVE FALSE
  <2>1. Up(y) \in T /\ Up(y) \subseteq Up(x) /\ x \in Up(x) /\ x \notin Up(y)
    BY <1>2, <1>3, <1>7
  <2> QED
    BY <1>5, <1>6, <2>1
<1> QED
  BY <1>7

\* The largest of finitely many integers.
LEMMA SomeMost ==
    ASSUME NEW S, S \subseteq Int, IsFiniteSet(S), S # {}
    PROVE  \E x \in S : \A y \in S : y <= x
<1> DEFINE Up(x) == {y \in S : x <= y}
           T == {Up(x) : x \in S}
<1>1. \A x \in S : Up(x) \subseteq S /\ IsFiniteSet(Up(x))
  <2>1. \A x \in S : Up(x) \subseteq S
    OBVIOUS
  <2> HIDE DEF Up
  <2> QED
    BY <2>1, FS_Subset
<1>2. \A x, y \in S : (~(y <= x) => Up(y) \subseteq Up(x) /\ x \in Up(x) /\ x \notin Up(y))
  <2>1. \A x, y, z \in Int : (~(y <= x) => x <= y) /\ (x <= y /\ y <= z => x <= z) /\ x <= x
    OBVIOUS
  <2> QED
    BY <2>1
<1> HIDE DEF Up
<1>3. T \subseteq FiniteSubsetsOf(S) /\ T # {} /\ \A x \in S : Up(x) \in T
  BY <1>1 DEF FiniteSubsetsOf
<1>4. \A A \in T : \E x \in S : A = Up(x)
  OBVIOUS
<1> HIDE DEF T
<1>5. PICK A \in T : \A B \in T : B \subseteq A => B = A
  BY <1>3, Smallest
<1>6. PICK x \in S : A = Up(x)
  BY <1>4
<1>7. ASSUME NEW y \in S, ~(y <= x) PROVE FALSE
  <2>1. Up(y) \in T /\ Up(y) \subseteq Up(x) /\ x \in Up(x) /\ x \notin Up(y)
    BY <1>2, <1>3, <1>7
  <2> QED
    BY <1>5, <1>6, <2>1
<1> QED
  BY <1>7

\* The first instant.
LEMMA FirstInstant == Min(Instants) \in Instants /\ \A t \in Instants : Min(Instants) <= t
BY SomeLeast, CostsAssumption DEF Min

\* The values of a function on a finite set.
LEMMA FiniteValues ==
    ASSUME NEW S, IsFiniteSet(S), NEW f
    PROVE  IsFiniteSet({f[x] : x \in S})
<1> DEFINE g == [x \in S |-> f[x]]
           T == {f[x] : x \in S}
<1>1. g \in Surjection(S, T)
  BY DEF Surjection
<1> HIDE DEF g, T
<1>2. IsFiniteSet(T)
  BY <1>1, FS_Surjection
<1> QED
  BY <1>2 DEF T

\* What appending a row does.
LEMMA Appended ==
    ASSUME NEW cs \in Seq(Rows), NEW r \in Rows
    PROVE  /\ Append(cs, r) \in Seq(Rows) /\ Len(cs) \in Nat
           /\ DOMAIN cs = 1..Len(cs) /\ DOMAIN Append(cs, r) = 1..(Len(cs) + 1)
           /\ Len(Append(cs, r)) = Len(cs) + 1
           /\ \A k \in 1..Len(cs) : Append(cs, r)[k] = cs[k]
           /\ Append(cs, r)[Len(cs) + 1] = r
<1>1. /\ Append(cs, r) \in Seq(Rows) /\ Len(cs) \in Nat /\ DOMAIN cs = 1..Len(cs)
      /\ Len(Append(cs, r)) = Len(cs) + 1
      /\ \A k \in 1..Len(cs) : Append(cs, r)[k] = cs[k]
      /\ Append(cs, r)[Len(cs) + 1] = r
  BY AppendProperties
<1>2. DOMAIN Append(cs, r) = 1..Len(Append(cs, r))
  BY <1>1
<1> QED
  BY <1>1, <1>2

\* The fields of a row have their types.
LEMMA RowFields ==
    ASSUME NEW cs \in Seq(Rows), NEW i \in DOMAIN cs
    PROVE  cs[i] \in Rows /\ cs[i].of \in Event /\ cs[i].at \in Instants /\ cs[i].amount \in Nat
<1>1. cs[i] \in Rows
  BY ElementOfSeq
<1> QED
  BY <1>1 DEF Rows

\* The events of the routers.
LEMMA EventType ==
    ASSUME CostsTypeOK, RoomsMade, NEW c \in Codes, NEW e \in Events(c)
    PROVE  e \in Event /\ e.room = c /\ Names(e)
<1>1. CASE e \in SttEvents(c)
  BY <1>1, CostsAssumption DEF SttEvents, Event, Names
<1>2. CASE e \in TtsEvents(c)
  BY <1>2, CostsAssumption DEF TtsEvents, Event, Names
<1>3. CASE e \in MtEvents(c)
  <2>1. PICK p \in Providers.mt, pair \in Pairs(c) :
          e = [room |-> c, pipeline |-> "mt", provider |-> p,
               unit |-> IF p \in ByToken THEN "tokens" ELSE "characters",
               speaker |-> pair[1], target |-> pair[2]]
    BY <1>3 DEF MtEvents
  <2>2. \/ pair[1] = None /\ pair[2] = None
        \/ pair[1] \in 1..Speakers[c] /\ pair[2] \in 1..Speakers[c]
    <3>1. CASE rooms[c] # None /\ rooms[c].speakers > 1
      <4>1. rooms[c].speakers = Speakers[c] /\ Speakers[c] \in Nat
        BY <3>1, CostsAssumption DEF RoomsMade
      <4>2. pair \in (1..Speakers[c]) \X (1..Speakers[c])
        BY <3>1, <4>1 DEF Pairs
      <4> QED
        BY <4>2
    <3>2. CASE ~(rooms[c] # None /\ rooms[c].speakers > 1)
      BY <3>2 DEF Pairs
    <3> QED
      BY <3>1, <3>2
  <2>3. pair[1] \in {None} \cup Nat /\ pair[2] \in {None} \cup Nat
    <3>1. \A n, m \in Nat : n \in 1..m => n \in Nat
      OBVIOUS
    <3>2. Speakers[c] \in Nat
      BY CostsAssumption
    <3> QED
      BY <2>2, <3>1, <3>2
  <2>4. p \in UNION {Providers[q] : q \in DOMAIN Providers} /\ "mt" \in DOMAIN Providers
    BY CostsAssumption
  <2> QED
    BY <2>1, <2>2, <2>3, <2>4 DEF Event, Names
<1> QED
  BY <1>1, <1>2, <1>3 DEF Events

-----------------------------------------------------------------------------
\* calculate_cost.
LEMMA Calculated ==
    ASSUME pricing \subseteq Prices, NEW e
    PROVE  \/ pricing \cap PriceFor(e) = {} /\ CalculateCost(e) = 0
           \/ \E p \in pricing \cap PriceFor(e) : p.price = CalculateCost(e)
<1> DEFINE fits == {p \in pricing : p.service = e.pipeline /\ p.provider = e.provider
                                      /\ <<e.unit, p.model>> \in Converts}
<1>1. fits = pricing \cap PriceFor(e)
  BY DEF PriceFor
<1>2. CalculateCost(e) = IF fits = {} THEN 0 ELSE (CHOOSE p \in fits : TRUE).price
  BY DEF CalculateCost
<1> HIDE DEF fits
<1>3. fits # {} => (CHOOSE p \in fits : TRUE) \in fits
  OBVIOUS
<1> QED
  BY <1>1, <1>2, <1>3

\* Of a service and provider that had a price, one is in force, and not an earlier one.
LEMMA LastPrice ==
    ASSUME NEW t \in Instants, NEW p \in Prices, p.from <= t
    PROVE  \E q \in InForce(t) :
             q.service = p.service /\ q.provider = p.provider /\ p.from <= q.from
<1> DEFINE Alike == {q \in Prices : q.service = p.service /\ q.provider = p.provider /\ q.from <= t}
           S == {q.from : q \in Alike}
<1>1. IsFiniteSet(Alike) /\ p \in Alike /\ \A q \in Alike : q.from \in Int
  BY FS_Subset, CostsAssumption
<1>2. \A q \in Prices : q.service = p.service /\ q.provider = p.provider /\ q.from <= t => q \in Alike
  OBVIOUS
<1>3. \A q \in Alike : q \in Prices /\ q.service = p.service /\ q.provider = p.provider /\ q.from <= t
  OBVIOUS
<1> HIDE DEF Alike
<1>4. S \subseteq Int /\ S # {} /\ IsFiniteSet(S) /\ \A q \in Alike : q.from \in S
  <2> DEFINE f == [q \in Alike |-> q.from]
  <2>1. S = {f[q] : q \in Alike}
    OBVIOUS
  <2>2. IsFiniteSet({f[q] : q \in Alike})
    <3> HIDE DEF f
    <3> QED
      BY <1>1, FiniteValues
  <2> QED
    BY <1>1, <2>1, <2>2
<1>5. \A x \in S : \E q \in Alike : q.from = x
  OBVIOUS
<1> HIDE DEF S
<1>6. PICK x \in S : \A y \in S : y <= x
  BY <1>4, SomeMost
<1>7. PICK q \in Alike : q.from = x
  BY <1>5
<1>8. q \in InForce(t)
  BY <1>2, <1>3, <1>4, <1>6, <1>7 DEF InForce
<1> QED
  BY <1>1, <1>3, <1>4, <1>6, <1>7, <1>8

NewCost(e) == [of |-> e, at |-> clock, amount |-> CalculateCost(e)]

\* clock and the prices' beginnings are integers.
LEMMA Times ==
    /\ \A t \in Instants : t \in Int
    /\ \A p \in Prices : p.from \in Int /\ p.price \in Nat
    /\ Min(Instants) \in Int
BY FirstInstant, CostsAssumption

\* The row stored for an event is a row.
LEMMA RowType ==
    ASSUME CostsTypeOK, NEW e \in Event
    PROVE  /\ NewCost(e) \in Rows /\ CalculateCost(e) \in Nat
           /\ NewCost(e).of = e /\ NewCost(e).at = clock /\ NewCost(e).amount = CalculateCost(e)
<1>1. CalculateCost(e) \in Nat
  BY Calculated, Times DEF CostsTypeOK
<1> QED
  BY <1>1 DEF NewCost, Rows, CostsTypeOK

\* What the tracker charges is paid at a price of the time it read its prices.
LEMMA RowPaid ==
    ASSUME CostsTypeOK, NEW e \in Event, NEW t \in Instants, pricing = InForce(t),
       CalculateCost(e) # 0
    PROVE  \E p \in Paid(NewCost(e), t) : p \in InForce(t)
<1>1. PICK p \in pricing \cap PriceFor(e) : p.price = CalculateCost(e)
  BY Calculated DEF CostsTypeOK
<1>2. p \in InForce(t) /\ p.from <= t /\ p \in PriceFor(e)
  BY <1>1 DEF InForce
<1> QED
  BY <1>1, <1>2, RowType DEF Paid

\* What it charges nothing for has no price then, or one of nothing.
LEMMA RowFree ==
    ASSUME CostsTypeOK, NEW e \in Event, NEW t \in Instants, t <= clock, pricing = InForce(t)
    PROVE  FreeForCause(NewCost(e))
<1>1. SUFFICES ASSUME CalculateCost(e) = 0, NEW p \in PriceFor(e), ~(p.from > Min(Instants))
               PROVE  \E q \in Prices :
                         /\ q.service = p.service /\ q.provider = p.provider
                         /\ p.from <= q.from /\ q.from <= clock
                         /\ (q \notin PriceFor(e) \/ q.price = 0)
  BY RowType DEF FreeForCause
<1>2. p \in Prices /\ p.service = e.pipeline /\ p.provider = e.provider
  BY DEF PriceFor
<1>3. p.from <= t /\ t \in Int /\ clock \in Int /\ p.from \in Int
  <2>1. Min(Instants) <= t /\ Min(Instants) \in Int /\ p.from \in Int /\ t \in Int /\ clock \in Int
    BY <1>2, FirstInstant, Times DEF CostsTypeOK
  <2> QED
    BY ONLY <1>1, <2>1
<1>4. \A q \in InForce(t) : q \in Prices /\ q.from \in Int /\ q.from <= t /\ q.from <= clock
  <2>1. \A q \in InForce(t) : q \in Prices /\ q.from \in Int /\ q.from <= t
    BY Times DEF InForce
  <2>2. \A x \in Int : x <= t => x <= clock
    BY ONLY <1>3, t <= clock
  <2> QED
    BY <2>1, <2>2
<1>5. CASE pricing \cap PriceFor(e) = {}
  <2>1. PICK q \in InForce(t) : q.service = p.service /\ q.provider = p.provider /\ p.from <= q.from
    BY <1>2, <1>3, LastPrice
  <2>2. q \notin PriceFor(e)
    BY <1>5
  <2> QED
    BY <1>4, <2>1, <2>2
<1>6. CASE pricing \cap PriceFor(e) # {}
  <2>1. PICK q \in pricing \cap PriceFor(e) : q.price = CalculateCost(e)
    BY <1>6, Calculated DEF CostsTypeOK
  <2>2. q \in InForce(t) /\ q.service = p.service /\ q.provider = p.provider
    BY <1>2, <2>1 DEF PriceFor
  <2>3. p.from <= q.from
    BY <1>2, <1>3, <2>2 DEF InForce
  <2> QED
    BY <1>1, <1>4, <2>1, <2>2, <2>3
<1> QED
  BY <1>5, <1>6

\* Storing a row keeps the order of prices and what is bought.
LEMMA TrackPrices ==
    ASSUME CostsTypeOK, InOrder(costs), Bought, NEW e \in Event
    PROVE  /\ InOrder(Append(costs, NewCost(e)))
           /\ \E t \in Instants :
                /\ t <= clock /\ pricing = InForce(t)
                /\ \A i \in DOMAIN Append(costs, NewCost(e)) :
                     Append(costs, NewCost(e))[i].amount # 0 => Paid(Append(costs, NewCost(e))[i],
                        t) # {}
<1> DEFINE r == NewCost(e)
           ds == Append(costs, r)
           n == Len(costs)
<1>1. PICK t \in Instants : t <= clock /\ pricing = InForce(t)
                             /\ \A i \in DOMAIN costs : costs[i].amount # 0 => Paid(costs[i],
                                t) # {}
  BY DEF Bought
<1>2. /\ n \in Nat /\ DOMAIN costs = 1..n /\ DOMAIN ds = 1..(n + 1)
      /\ \A k \in 1..n : ds[k] = costs[k]
      /\ ds[n + 1] = r
  BY Appended, RowType DEF CostsTypeOK, Rows
<1>3. FreeForCause(r)
  BY <1>1, RowFree
<1>4. /\ r.of = e /\ r.at = clock /\ r.amount = CalculateCost(e)
      /\ r.amount # 0 => \E p \in Paid(r, t) : p \in InForce(t)
  BY <1>1, RowType, RowPaid
<1> HIDE DEF r
<1>5. \A i \in 1..(n + 1) : i \in 1..n \/ i = n + 1
  BY <1>2
<1>6. \A i \in 1..n : \A j \in 1..(i - 1) : j \in 1..n
  BY <1>2
<1>7. \A j \in 1..((n + 1) - 1) : j \in 1..n
  BY <1>2
<1> HIDE DEF ds, n
<1>8. ASSUME NEW i \in 1..n
      PROVE  /\ FreeForCause(ds[i])
             /\ ds[i].amount # 0 => \E p \in Paid(ds[i], ds[i].at) :
                  \A j \in 1..(i - 1) :
                    PriceFor(ds[j].of) = PriceFor(ds[i].of) /\ ds[j].amount # 0 =>
                      Paid(ds[j], p.from) # {}
  <2>1. ds[i] = costs[i] /\ i \in DOMAIN costs /\ \A j \in 1..(i - 1) : ds[j] = costs[j]
    BY <1>2, <1>6
  <2> QED
    BY <2>1 DEF InOrder
<1>9. r.amount # 0 => \E p \in Paid(r, r.at) :
         \A j \in 1..n :
           PriceFor(ds[j].of) = PriceFor(r.of) /\ ds[j].amount # 0 => Paid(ds[j], p.from) # {}
  <2>1. SUFFICES ASSUME r.amount # 0 PROVE \E p \in Paid(r, r.at) :
         \A j \in 1..n :
           PriceFor(ds[j].of) = PriceFor(r.of) /\ ds[j].amount # 0 => Paid(ds[j], p.from) # {}
    OBVIOUS
  <2>2. PICK p \in Paid(r, t) : p \in InForce(t)
    BY <1>4, <2>1
  <2>3. p \in Paid(r, r.at)
    <3>1. p \in PriceFor(r.of) /\ p.price = r.amount /\ p.from <= t /\ p \in Prices
      BY <2>2 DEF Paid, PriceFor
    <3>2. p.from \in Int /\ t \in Int /\ clock \in Int
      BY <3>1, Times DEF CostsTypeOK
    <3>3. p.from <= clock
      BY ONLY <1>1, <3>1, <3>2
    <3> QED
      BY <1>4, <3>1, <3>3 DEF Paid
  <2>4. ASSUME NEW j \in 1..n, PriceFor(ds[j].of) = PriceFor(r.of), ds[j].amount # 0
        PROVE  Paid(ds[j], p.from) # {}
    <3>1. PICK q \in Paid(ds[j], t) : TRUE
      BY <1>1, <1>2, <2>4
    <3>2. q \in PriceFor(r.of) /\ p \in PriceFor(r.of) /\ q.from <= t /\ q.price = ds[j].amount
          /\ q \in PriceFor(ds[j].of)
      BY <2>2, <2>4, <3>1 DEF Paid
    <3>3. q \in Prices /\ q.service = p.service /\ q.provider = p.provider
      BY <3>2 DEF PriceFor
    <3>4. q.from <= p.from
      BY <2>2, <3>2, <3>3 DEF InForce
    <3> QED
      BY <3>2, <3>4 DEF Paid
  <2> QED
    BY <2>3, <2>4
<1>10. InOrder(ds)
  <2>1. ASSUME NEW i \in DOMAIN ds
        PROVE  /\ FreeForCause(ds[i])
               /\ ds[i].amount # 0 => \E p \in Paid(ds[i], ds[i].at) :
                    \A j \in 1..(i - 1) :
                      PriceFor(ds[j].of) = PriceFor(ds[i].of) /\ ds[j].amount # 0 =>
                        Paid(ds[j], p.from) # {}
    <3>1. CASE i \in 1..n
      BY <1>8, <3>1
    <3>2. CASE i = n + 1
      <4>1. ds[i] = r
        BY <1>2, <3>2
      <4>2. \A j \in 1..(i - 1) : j \in 1..n
        BY <1>7, <3>2
      <4> QED
        BY <1>3, <1>9, <4>1, <4>2
    <3> QED
      BY <1>2, <1>5, <3>1, <3>2
  <2> QED
    BY <2>1 DEF InOrder
<1>11. \A i \in DOMAIN ds : ds[i].amount # 0 => Paid(ds[i], t) # {}
  <2>1. \A i \in 1..n : ds[i].amount # 0 => Paid(ds[i], t) # {}
    BY <1>1, <1>2
  <2>2. r.amount # 0 => Paid(r, t) # {}
    BY <1>4
  <2> QED
    BY <1>2, <1>5, <2>1, <2>2
<1> QED
  BY <1>1, <1>10, <1>11 DEF ds, r

\* Prices read again are later ones.
LEMMA BoughtBy ==
    ASSUME CostsTypeOK, Bought, NEW t \in Instants, clock <= t
    PROVE  \A i \in DOMAIN costs : costs[i].amount # 0 => Paid(costs[i], t) # {}
<1>1. PICK u \in Instants : u <= clock /\ pricing = InForce(u)
                             /\ \A i \in DOMAIN costs : costs[i].amount # 0 => Paid(costs[i],
                                u) # {}
  BY DEF Bought
<1>2. u \in Int /\ clock \in Int /\ t \in Int
  BY Times DEF CostsTypeOK
<1>3. \A x \in Int : x <= u => x <= t
  BY ONLY <1>1, <1>2, clock <= t
<1>4. ASSUME NEW i \in DOMAIN costs, NEW p \in Paid(costs[i], u) PROVE p \in Paid(costs[i], t)
  <2>1. p.from \in Int
    BY <1>4, Times DEF Paid, PriceFor
  <2> QED
    BY <1>3, <1>4, <2>1 DEF Paid
<1> QED
  BY <1>1, <1>4

RowsOf(cs, C) == {i \in DOMAIN cs : cs[i].of.room \in C}

\* Sum after a step, over the rows there are then.
LEMMA SumsAfter ==
    ASSUME CostsTypeOK', NEW C
    PROVE  Sum(Of(C))' = SumOf(costs', RowsOf(costs', C'))
<1>1. Priced(costs')
  BY RowsPriced DEF CostsTypeOK, Rows
<1> QED
  BY <1>1, SumIs DEF Sum, Of, RowsOf

\* Sums of a room, or of rooms, only grow, also when a room is archived.
LEMMA SumsGrow ==
    ASSUME NEW cs \in Seq(Rows), NEW ds \in Seq(Rows),
           ds = cs \/ \E r \in Rows : ds = Append(cs, r), NEW C
    PROVE  /\ SumOf(cs, RowsOf(cs, C)) <= SumOf(ds, RowsOf(ds, C))
           /\ SumOf(cs, RowsOf(cs, C)) \in Nat /\ SumOf(ds, RowsOf(ds, C)) \in Nat
<1>1. Priced(cs) /\ Priced(ds) /\ DOMAIN cs = 1..Len(cs) /\ DOMAIN ds = 1..Len(ds) /\ Len(cs) \in Nat
  BY RowsPriced DEF Priced
<1>2. /\ Len(ds) = Len(cs) \/ Len(ds) = Len(cs) + 1
      /\ \A k \in 1..Len(cs) : ds[k] = cs[k]
      /\ \A k \in 1..Len(cs) : k \in 1..Len(ds)
  <2>1. CASE ds = cs
    BY <1>1, <2>1
  <2>2. CASE \E r \in Rows : ds = Append(cs, r)
    <3>1. Len(ds) = Len(cs) + 1 /\ \A k \in 1..Len(cs) : ds[k] = cs[k]
      BY <2>2, Appended
    <3> QED
      BY <1>1, <3>1
  <2> QED
    BY <2>1, <2>2
<1>3. \A k \in 1..Len(cs) : k \in RowsOf(cs, C) => k \in RowsOf(ds, C)
  BY <1>1, <1>2 DEF RowsOf
<1> QED
  BY <1>1, <1>2, <1>3, SumGrows, SumNat

\* Sum before it.
LEMMA SumsBefore ==
    ASSUME CostsTypeOK
    PROVE  /\ \A C : Of(C) = RowsOf(costs, C) /\ Sum(Of(C)) = SumOf(costs, RowsOf(costs, C))
           /\ \A S : Sum(S) \in Nat /\ Sum(S) = SumOf(costs, S)
<1>1. Priced(costs)
  BY RowsPriced DEF CostsTypeOK, Rows
<1> QED
  BY <1>1, SumsOfCosts, SumNat DEF Of, RowsOf

\* The sums of some rows are at most those of more.
LEMMA SumOfFewer ==
    ASSUME CostsTypeOK, NEW S, NEW U, S \subseteq U
    PROVE  Sum(S) <= Sum(U)
<1>1. Priced(costs)
  BY RowsPriced DEF CostsTypeOK, Rows
<1> QED
  BY <1>1, SumsBefore, SumGrows

\* The sums of two sets of rows without a common row.
LEMMA SumOfTwo ==
    ASSUME CostsTypeOK, NEW S, NEW U, S \cap U = {}
    PROVE  Sum(S \cup U) = Sum(S) + Sum(U)
<1>1. Priced(costs)
  BY RowsPriced DEF CostsTypeOK, Rows
<1> QED
  BY <1>1, SumsBefore, SumDisjoint

\* What is archived is the owner and no more than the room has cost.
LEMMA ArchivedType ==
    ASSUME CostsTypeOK, ArchiveBelow, NEW c \in Codes, rooms[c] # None
    PROVE  /\ Archived(c) \in [owner : Users, stt : Nat, mt : Nat]
           /\ Archived(c).stt + Archived(c).mt <= Sum(Of({c}))
<1>1. CASE archive[c] # None
  <2>1. archive[c] \in [owner : Users, stt : Nat, mt : Nat]
    BY <1>1 DEF CostsTypeOK
  <2> QED
    BY <1>1, <2>1 DEF ArchiveBelow, Archived
<1>2. CASE archive[c] = None
  <2> DEFINE S == Of({c}) \cap Through("stt")
             M == Of({c}) \cap Through("mt")
  <2>1. Archived(c) = [owner |-> rooms[c].owner, stt |-> Sum(S), mt |-> Sum(M)]
    BY <1>2 DEF Archived
  <2>2. S \cap M = {} /\ S \cup M \subseteq Of({c})
    BY DEF Through
  <2> HIDE DEF S, M
  <2>3. /\ Sum(S) \in Nat /\ Sum(M) \in Nat
        /\ Sum(S \cup M) = Sum(S) + Sum(M)
        /\ Sum(S \cup M) <= Sum(Of({c}))
    BY <2>2, SumsBefore, SumOfTwo, SumOfFewer
  <2>4. rooms[c] \in [owner : Users, speakers : Nat, again : BOOLEAN]
    BY DEF CostsTypeOK
  <2> QED
    BY <2>1, <2>3, <2>4
<1> QED
  BY <1>1, <1>2

\* Nothing but costs has to do with the sums: when rows are at most added, archives and
\* histories stay below them.
LEMMA SumsStay ==
    ASSUME CostsTypeOK, CostsTypeOK', costs' = costs \/ \E r \in Rows : costs' = Append(costs, r),
       NEW C
    PROVE  Sum(Of(C)) <= Sum(Of(C))' /\ Sum(Of(C)) \in Nat /\ Sum(Of(C))' \in Nat
<1>1. costs \in Seq(Rows) /\ costs' \in Seq(Rows)
  BY DEF CostsTypeOK, Rows
<1> QED
  BY <1>1, SumsBefore, SumsAfter, SumsGrow

\* Where a value is replaced in a function, the others stay.
LEMMA Replaced ==
    ASSUME NEW S, NEW T, NEW f \in [S -> T], NEW c \in S, NEW x
    PROVE  LET g == [f EXCEPT ![c] = x]
           IN  /\ g[c] = x /\ \A d \in S \ {c} : g[d] = f[d]
               /\ x \in T => g \in [S -> T]
OBVIOUS

\* The steps, by what they change.
Stores == \E c \in Codes : \E e \in Events(c) : Track(e)

\* Every step is one of these.
LEMMA Steps ==
    ASSUME CostsNext
    PROVE  \/ TimePasses \/ RestartTracker \/ ReadArchive \/ Stores
           \/ \E c \in Codes : RemakeRoom(c) \/ CleanUp(c) \/ \E u \in Users : MakeRoom(c, u)
           \/ \E u \in Users : ReadRooms(u)
BY DEF CostsNext, Stores

\* Rows are added one at a time and never taken away.
LEMMA RowsStep ==
    ASSUME CostsInv, [CostsNext]_costvars
    PROVE  costs' = costs \/ \E r \in Rows : costs' = Append(costs, r)
<1>1. CASE Stores
  <2>0. PICK c \in Codes : \E e \in Events(c) : Track(e)
    BY <1>1 DEF Stores
  <2>1. PICK e \in Events(c) : Track(e)
    BY <2>0
  <2>2. NewCost(e) \in Rows /\ costs' = Append(costs, NewCost(e))
    BY <2>1, EventType, RowType DEF CostsInv, Track, NewCost
  <2> QED
    BY <2>2
<1>2. CASE \E c \in Codes : CleanUp(c)
  BY <1>2 DEF CleanUp, KeptCosts
<1>3. CASE UNCHANGED costvars
  BY <1>3 DEF costvars
<1>4. CASE TimePasses \/ RestartTracker \/ ReadArchive
  BY <1>4 DEF TimePasses, RestartTracker, ReadArchive
<1>5. CASE \E c \in Codes : RemakeRoom(c) \/ \E u \in Users : MakeRoom(c, u)
  BY <1>5 DEF RemakeRoom, MakeRoom
<1>6. CASE \E u \in Users : ReadRooms(u)
  BY <1>6 DEF ReadRooms
<1> QED
  BY <1>1, <1>2, <1>3, <1>4, <1>5, <1>6, Steps

\* Every step keeps the types.
LEMMA CostsTypeStep ==
    ASSUME CostsInv, [CostsNext]_costvars
    PROVE  CostsTypeOK'
<1> USE DEF rows
<1>0. /\ clock \in Instants /\ pricing \subseteq Prices
      /\ costs \in Seq(Rows)
      /\ rooms \in [Codes -> {None} \cup [owner : Users, speakers : Nat, again : BOOLEAN]]
      /\ archive \in [Codes -> {None} \cup [owner : Users, stt : Nat, mt : Nat]]
      /\ hist \in {None} \cup [user : Users, live : SUBSET Codes, total : Nat]
  BY DEF CostsInv, CostsTypeOK, Rows
<1>1. costs' \in Seq(Rows)
  BY <1>0, RowsStep, Appended
<1>2. pricing' \subseteq Prices /\ clock' \in Instants
  <2>1. CASE TimePasses \/ RestartTracker
    BY <1>0, <2>1 DEF TimePasses, RestartTracker, InForce
  <2>2. CASE ~(TimePasses \/ RestartTracker)
    BY <1>0, <2>2, Steps
       DEF costvars, Track, Stores, ReadArchive, RemakeRoom, CleanUp, MakeRoom, ReadRooms
  <2> QED
    BY <2>1, <2>2
<1>3. rooms' \in [Codes -> {None} \cup [owner : Users, speakers : Nat, again : BOOLEAN]]
  <2>1. CASE \E c \in Codes, u \in Users : MakeRoom(c, u)
    <3>1. PICK c \in Codes, u \in Users : MakeRoom(c, u)
      BY <2>1
    <3>2. [owner |-> u, speakers |-> Speakers[c], again |-> FALSE]
             \in [owner : Users, speakers : Nat, again : BOOLEAN]
      BY CostsAssumption
    <3> QED
      BY <1>0, <3>1, <3>2, Replaced DEF MakeRoom
  <2>2. CASE \E c \in Codes : RemakeRoom(c)
    <3>1. PICK c \in Codes : RemakeRoom(c)
      BY <2>2
    <3>2. [owner |-> FirstUser, speakers |-> 0, again |-> TRUE]
             \in [owner : Users, speakers : Nat, again : BOOLEAN]
      BY CostsAssumption
    <3> QED
      BY <1>0, <3>1, <3>2, Replaced DEF RemakeRoom
  <2>3. CASE \E c \in Codes : CleanUp(c)
    BY <1>0, <2>3, Replaced DEF CleanUp, Deleted
  <2>4. CASE TimePasses \/ RestartTracker \/ ReadArchive \/ Stores
        \/ (\E u \in Users : ReadRooms(u)) \/ UNCHANGED costvars
    BY <1>0, <2>4 DEF costvars, TimePasses, RestartTracker, Track, Stores, ReadArchive, ReadRooms
  <2> QED
    BY <2>1, <2>2, <2>3, <2>4, Steps
<1>4. archive' \in [Codes -> {None} \cup [owner : Users, stt : Nat, mt : Nat]]
  <2>1. CASE \E c \in Codes : CleanUp(c)
    <3>1. PICK c \in Codes : CleanUp(c)
      BY <2>1
    <3>2. Archived(c) \in [owner : Users, stt : Nat, mt : Nat]
      BY <3>1, ArchivedType DEF CostsInv, CleanUp
    <3> QED
      BY <1>0, <3>1, <3>2, Replaced DEF CleanUp
  <2>2. CASE ~ \E c \in Codes : CleanUp(c)
    BY <1>0, <2>2, Steps
       DEF costvars, TimePasses, RestartTracker, Track, Stores, ReadArchive, RemakeRoom,
       MakeRoom, ReadRooms
  <2> QED
    BY <2>1, <2>2
<1>5. hist' \in {None} \cup [user : Users, live : SUBSET Codes, total : Nat]
  <2>1. CASE \E u \in Users : ReadRooms(u)
    <3>1. PICK u \in Users : ReadRooms(u)
      BY <2>1
    <3>2. OwnedBy(u) \in SUBSET Codes
      BY DEF OwnedBy
    <3>3. Sum(Of(OwnedBy(u)) \cap (Through("stt_final") \cup Through("mt"))) \in Nat
      BY SumsBefore DEF CostsInv
    <3> QED
      BY <3>1, <3>2, <3>3 DEF ReadRooms
  <2>2. CASE ~ \E u \in Users : ReadRooms(u)
    BY <1>0, <2>2, Steps
       DEF costvars, TimePasses, RestartTracker, Track, Stores, ReadArchive, RemakeRoom,
       MakeRoom, CleanUp
  <2> QED
    BY <2>1, <2>2
<1> QED
  BY <1>1, <1>2, <1>3, <1>4, <1>5 DEF CostsTypeOK, Rows

\* Every step keeps the order of prices: what the tracker has at hand are prices of
\* an instant that is over, and no row was paid at later ones.
LEMMA PricesStep ==
    ASSUME CostsInv, [CostsNext]_costvars
    PROVE  InOrder(costs)' /\ Bought'
<1>1. CASE Stores
  <2>0. PICK c \in Codes : \E e \in Events(c) : Track(e)
    BY <1>1 DEF Stores
  <2>1. PICK e \in Events(c) : Track(e)
    BY <2>0
  <2>2. costs' = Append(costs, NewCost(e)) /\ clock' = clock /\ pricing' = pricing
    BY <2>1 DEF Track, NewCost
  <2>3. e \in Event
    BY EventType DEF CostsInv
  <2>4. InOrder(Append(costs, NewCost(e)))
    BY <2>3, TrackPrices DEF CostsInv
  <2>5. PICK t \in Instants :
          /\ t <= clock /\ pricing = InForce(t)
          /\ \A i \in DOMAIN Append(costs, NewCost(e)) :
               Append(costs, NewCost(e))[i].amount # 0 => Paid(Append(costs, NewCost(e))[i], t) # {}
    BY <2>3, TrackPrices DEF CostsInv
  <2>6. InOrder(costs')
    BY <2>2, <2>4
  <2>7. Bought'
    BY <2>2, <2>5 DEF Bought
  <2> QED
    BY <2>6, <2>7 DEF InOrder, FreeForCause, Paid, PriceFor
<1>2. CASE RestartTracker \/ TimePasses
  <2>1. costs' = costs
    BY <1>2 DEF RestartTracker, TimePasses
  <2>2. CASE RestartTracker
    <3>1. clock \in Instants /\ clock \in Int /\ clock <= clock
      BY Times DEF CostsInv, CostsTypeOK
    <3>2. \A i \in DOMAIN costs : costs[i].amount # 0 => Paid(costs[i], clock) # {}
      BY <3>1, BoughtBy DEF CostsInv
    <3> QED
      BY <2>1, <2>2, <3>1, <3>2 DEF RestartTracker, Bought, CostsInv, InOrder
  <2>3. CASE TimePasses
    <3>1. PICK t \in Instants :
            /\ t <= clock /\ pricing = InForce(t)
            /\ \A i \in DOMAIN costs : costs[i].amount # 0 => Paid(costs[i], t) # {}
      BY DEF CostsInv, Bought
    <3>2. t <= clock'
      <4>1. clock \in Int /\ clock' \in Int /\ t \in Int /\ clock < clock'
        BY <2>3, Times DEF TimePasses, CostsInv, CostsTypeOK
      <4> QED
        BY ONLY <3>1, <4>1
    <3> QED
      BY <2>1, <2>3, <3>1, <3>2 DEF TimePasses, Bought, CostsInv, InOrder
  <2> QED
    BY <1>2, <2>2, <2>3
<1>3. CASE ~(Stores \/ RestartTracker \/ TimePasses)
  <2>1. UNCHANGED <<costs, pricing, clock>>
    BY <1>3, Steps DEF costvars, ReadArchive, RemakeRoom, MakeRoom, CleanUp, ReadRooms, KeptCosts
  <2> QED
    BY <2>1 DEF CostsInv, Bought, InOrder
<1> QED
  BY <1>1, <1>2, <1>3

\* Every step keeps the names of speakers within the room.
LEMMA NamedStep ==
    ASSUME CostsInv, [CostsNext]_costvars
    PROVE  RowsNamed'
<1>0. costs \in Seq(Rows) /\ \A i \in DOMAIN costs : Names(costs[i].of)
  BY DEF CostsInv, CostsTypeOK, RowsNamed, Rows
<1>1. CASE Stores
  <2>0. PICK c \in Codes : \E e \in Events(c) : Track(e)
    BY <1>1 DEF Stores
  <2>1. PICK e \in Events(c) : Track(e)
    BY <2>0
  <2>2. NewCost(e) \in Rows /\ costs' = Append(costs, NewCost(e)) /\ NewCost(e).of = e /\ Names(e)
    BY <2>1, EventType, RowType DEF CostsInv, Track, NewCost
  <2>3. ASSUME NEW i \in DOMAIN costs' PROVE Names(costs'[i].of)
    <3>1. /\ DOMAIN costs = 1..Len(costs) /\ DOMAIN costs' = 1..(Len(costs) + 1) /\ Len(costs) \in Nat
          /\ \A k \in 1..Len(costs) : costs'[k] = costs[k]
          /\ costs'[Len(costs) + 1] = NewCost(e)
      BY <1>0, <2>2, Appended
    <3>2. i \in 1..Len(costs) \/ i = Len(costs) + 1
      BY <2>3, <3>1
    <3> QED
      BY <1>0, <2>2, <3>1, <3>2
  <2> QED
    BY <2>3 DEF RowsNamed
<1>2. CASE ~Stores
  <2>1. costs' = costs
    BY <1>2, Steps DEF costvars, ReadArchive, RemakeRoom, MakeRoom, CleanUp, ReadRooms, KeptCosts,
       TimePasses, RestartTracker
  <2> QED
    BY <1>0, <2>1 DEF RowsNamed
<1> QED
  BY <1>1, <1>2

\* A room whose code has an archive was made again.
LEMMA RoomsStep ==
    ASSUME CostsInv, [CostsNext]_costvars
    PROVE  RoomsMade'
<1> USE DEF rows
<1>0. /\ rooms \in [Codes -> {None} \cup [owner : Users, speakers : Nat, again : BOOLEAN]]
      /\ archive \in [Codes -> {None} \cup [owner : Users, stt : Nat, mt : Nat]]
      /\ \A c \in Codes : rooms[c] # None =>
           /\ rooms[c].speakers \in {0, Speakers[c]}
           /\ archive[c] # None => rooms[c].again
  BY DEF CostsInv, CostsTypeOK, RoomsMade
<1>1. CASE \E c \in Codes, u \in Users : MakeRoom(c, u)
  <2>1. PICK c \in Codes, u \in Users : MakeRoom(c, u)
    BY <1>1
  <2>2. /\ rooms'[c] = [owner |-> u, speakers |-> Speakers[c], again |-> FALSE]
        /\ archive' = archive /\ archive[c] = None
        /\ \A d \in Codes \ {c} : rooms'[d] = rooms[d]
    BY <1>0, <2>1 DEF MakeRoom
  <2> QED
    BY <1>0, <2>2 DEF RoomsMade
<1>2. CASE \E c \in Codes : RemakeRoom(c)
  <2>1. PICK c \in Codes : RemakeRoom(c)
    BY <1>2
  <2>2. /\ rooms'[c] = [owner |-> FirstUser, speakers |-> 0, again |-> TRUE]
        /\ archive' = archive
        /\ \A d \in Codes \ {c} : rooms'[d] = rooms[d]
    BY <1>0, <2>1 DEF RemakeRoom
  <2> QED
    BY <1>0, <2>2 DEF RoomsMade
<1>3. CASE \E c \in Codes : CleanUp(c)
  <2>1. PICK c \in Codes : CleanUp(c)
    BY <1>3
  <2>2. /\ rooms'[c] = None
        /\ \A d \in Codes \ {c} : rooms'[d] = rooms[d] /\ archive'[d] = archive[d]
    BY <1>0, <2>1 DEF CleanUp, Deleted
  <2> QED
    BY <1>0, <2>2 DEF RoomsMade
<1>4. CASE ~ \E c \in Codes : RemakeRoom(c) \/ CleanUp(c) \/ \E u \in Users : MakeRoom(c, u)
  <2>1. UNCHANGED <<rooms, archive>>
    <3>1. \/ TimePasses \/ RestartTracker \/ ReadArchive \/ Stores
          \/ \E u \in Users : ReadRooms(u)
          \/ UNCHANGED costvars
      BY <1>4, Steps
    <3> QED
      BY <3>1 DEF costvars, ReadArchive, Stores, Track, ReadRooms, TimePasses, RestartTracker
  <2> QED
    BY <1>0, <2>1 DEF RoomsMade
<1> QED
  BY <1>1, <1>2, <1>3, <1>4

\* Archives and half-read histories stay below the sums of the rows: the rows are
\* never taken away, also when their room is.
LEMMA BelowStep ==
    ASSUME CostsInv, [CostsNext]_costvars
    PROVE  ArchiveBelow' /\ HistoryBelow'
<1> USE DEF rows
<1>0. /\ CostsTypeOK /\ CostsTypeOK'
      /\ costs' = costs \/ \E r \in Rows : costs' = Append(costs, r)
      /\ costs \in Seq(Rows) /\ costs' \in Seq(Rows)
  <2>1. CostsTypeOK /\ CostsTypeOK'
    BY CostsTypeStep DEF CostsInv
  <2> QED
    BY <2>1, RowsStep DEF CostsTypeOK, Rows
\* The sum of the rows of some codes, then and now.
<1> DEFINE old(C) == SumOf(costs, RowsOf(costs, C))
           new(C) == SumOf(costs', RowsOf(costs', C))
<1>1. \A C : old(C) <= new(C) /\ old(C) \in Nat /\ new(C) \in Nat
  BY <1>0, SumsGrow
<1>2. \A C : Sum(Of(C)) = old(C)
  BY <1>0, SumsBefore
<1>3. \A c : Sum(Of({c}))' = new({c})
  <2>1. ASSUME NEW c PROVE Sum(Of({c}))' = new({c})
    BY <1>0, SumsAfter
  <2> QED
    BY <2>1
<1>4. Sum(Of(hist.live))' = new(hist'.live)
  <2>1. Priced(costs')
    BY <1>0, RowsPriced
  <2> QED
    BY <2>1, SumIs DEF Sum, Of, RowsOf
<1> HIDE DEF old, new
<1>5. ArchiveBelow'
  <2>1. SUFFICES ASSUME NEW c \in Codes, archive'[c] # None
                 PROVE  archive'[c].stt + archive'[c].mt <= new({c})
    BY <1>3 DEF ArchiveBelow
  <2>2. CASE archive'[c] = archive[c]
    <3>1. archive[c] \in [owner : Users, stt : Nat, mt : Nat]
      BY <1>0, <2>1, <2>2 DEF CostsTypeOK
    <3>2. archive[c].stt + archive[c].mt <= old({c}) /\ archive[c].stt \in Nat /\ archive[c].mt \in Nat
      BY <1>2, <2>1, <2>2, <3>1 DEF CostsInv, ArchiveBelow
    <3> QED
      BY <1>1, <2>2, <3>2
  <2>3. CASE rooms[c] # None /\ archive'[c] = Archived(c)
    <3>1. /\ Archived(c) \in [owner : Users, stt : Nat, mt : Nat]
          /\ Archived(c).stt + Archived(c).mt <= old({c})
      BY <1>2, <2>3, ArchivedType DEF CostsInv
    <3>2. Archived(c).stt \in Nat /\ Archived(c).mt \in Nat
      BY <3>1
    <3> QED
      BY <1>1, <2>3, <3>1, <3>2
  <2>4. archive'[c] = archive[c] \/ (rooms[c] # None /\ archive'[c] = Archived(c))
    <3>1. CASE \E d \in Codes : CleanUp(d)
      BY <1>0, <3>1 DEF CleanUp, CostsTypeOK
    <3>2. CASE ~ \E d \in Codes : CleanUp(d)
      BY <3>2, Steps
         DEF costvars, ReadArchive, Stores, Track, ReadRooms, TimePasses, RestartTracker,
         MakeRoom, RemakeRoom
    <3> QED
      BY <3>1, <3>2
  <2> QED
    BY <2>2, <2>3, <2>4
<1>6. HistoryBelow'
  <2>1. SUFFICES ASSUME hist' # None PROVE hist'.total <= new(hist'.live)
    BY <1>4 DEF HistoryBelow
  <2>2. CASE hist' = hist
    <3>1. hist.total \in Nat /\ hist.total <= old(hist.live)
      BY <1>0, <1>2, <2>1, <2>2 DEF CostsInv, HistoryBelow, CostsTypeOK
    <3> QED
      BY <1>1, <2>2, <3>1
  <2>3. CASE \E u \in Users : ReadRooms(u)
    <3>1. PICK u \in Users : ReadRooms(u)
      BY <2>3
    <3> DEFINE S == Of(OwnedBy(u)) \cap (Through("stt_final") \cup Through("mt"))
    <3>2. hist'.total = Sum(S) /\ hist'.live = OwnedBy(u)
      BY <3>1 DEF ReadRooms
    <3>3. S \subseteq Of(OwnedBy(u))
      OBVIOUS
    <3> HIDE DEF S
    <3>4. Sum(S) <= old(OwnedBy(u)) /\ Sum(S) \in Nat
      BY <1>0, <1>2, <3>3, SumsBefore, SumOfFewer
    <3> QED
      BY <1>1, <3>2, <3>4
  <2>4. hist' = hist \/ \E u \in Users : ReadRooms(u)
    BY <2>1, Steps DEF costvars, ReadArchive, Stores, Track, TimePasses, RestartTracker,
         MakeRoom, RemakeRoom, CleanUp
  <2> QED
    BY <2>2, <2>3, <2>4
<1> QED
  BY <1>5, <1>6

-----------------------------------------------------------------------------
\* Every reachable state has the inductive invariant: rows are paid at prices in force
\* by then and in their order, speakers are those of their room, and an archive or a
\* half-read history has no more than the rows have.
THEOREM CostsInductiveInvariant == CostsSpec => []CostsInv
<1>1. ASSUME CostsInit PROVE CostsInv
  <2>1. /\ Min(Instants) \in Instants
        /\ Min(Instants) <= Min(Instants)
    BY FirstInstant
  <2>2. costs = <<>> /\ DOMAIN costs = {}
    BY <1>1 DEF CostsInit
  <2>3. CostsTypeOK
    BY <1>1, <2>1 DEF CostsInit, CostsTypeOK, InForce
  <2>4. InOrder(costs) /\ RowsNamed
    BY <2>2 DEF InOrder, RowsNamed
  <2>5. Bought
    BY <1>1, <2>1, <2>2 DEF CostsInit, Bought
  <2>6. RoomsMade /\ ArchiveBelow /\ HistoryBelow
    BY <1>1 DEF CostsInit, RoomsMade, ArchiveBelow, HistoryBelow
  <2> QED
    BY <2>3, <2>4, <2>5, <2>6 DEF CostsInv
<1>2. ASSUME CostsInv, [CostsNext]_costvars PROVE CostsInv'
  BY <1>2, CostsTypeStep, PricesStep, NamedStep, RoomsStep, BelowStep DEF CostsInv
<1> QED
  BY <1>1, <1>2, PTL DEF CostsSpec

\* Type correctness of the rows, the rooms, the archives and the histories.
THEOREM CostsTypeCorrect == CostsSpec => []CostsTypeOK
BY CostsInductiveInvariant, PTL DEF CostsInv

\* Whatever is charged is charged at a price in force, in the order of prices, and what
\* is free is so for a cause, whenever the tracker restarts.
THEOREM EverythingIsPricedInForce == CostsSpec => []PricedInForce
<1>1. ASSUME CostsInv PROVE PricedInForce
  <2>1. CostsTypeOK /\ InOrder(costs)
    BY <1>1 DEF CostsInv
  <2>2. \A i : PriceOf(i) = PriceFor(costs[i].of)
    BY DEF PriceOf, PriceFor
  <2>3. ASSUME NEW i \in DOMAIN costs, costs[i].amount = 0, NEW p \in PriceOf(i),
     ~(p.from > Min(Instants))
        PROVE  \E q \in Prices : /\ q.service = p.service /\ q.provider = p.provider
                                /\ p.from <= q.from /\ q.from <= costs[i].at
                                /\ (q \notin PriceOf(i) \/ q.price = 0)
    BY <2>1, <2>2, <2>3 DEF InOrder, FreeForCause
  <2>4. ASSUME NEW i \in DOMAIN costs, costs[i].amount # 0
        PROVE  \E p \in PriceOf(i) :
                 /\ p.price = costs[i].amount /\ p.from <= costs[i].at
                 /\ \A j \in 1..(i - 1) : PriceOf(j) = PriceOf(i) /\ costs[j].amount # 0 =>
                        \E q \in PriceOf(j) : q.price = costs[j].amount /\ q.from <= p.from
    <3>1. PICK p \in Paid(costs[i], costs[i].at) :
            \A j \in 1..(i - 1) :
              PriceFor(costs[j].of) = PriceFor(costs[i].of) /\ costs[j].amount # 0 =>
                Paid(costs[j], p.from) # {}
      BY <2>1, <2>4 DEF InOrder
    <3>2. p \in PriceOf(i) /\ p.price = costs[i].amount /\ p.from <= costs[i].at
      BY <2>2, <3>1 DEF Paid
    <3>3. ASSUME NEW j \in 1..(i - 1), PriceOf(j) = PriceOf(i), costs[j].amount # 0
          PROVE  \E q \in PriceOf(j) : q.price = costs[j].amount /\ q.from <= p.from
      <4>1. Paid(costs[j], p.from) # {}
        BY <2>2, <3>1, <3>3
      <4> QED
        BY <2>2, <4>1 DEF Paid
    <3> QED
      BY <3>2, <3>3
  <2> QED
    BY <2>1, <2>3, <2>4 DEF PricedInForce
<1> QED
  BY <1>1, CostsInductiveInvariant, PTL

-----------------------------------------------------------------------------
\* What a history adds up of the archives, as a fold.
LEMMA ArchivesSum ==
    ASSUME NEW old, \A c \in old : archive[c].stt + archive[c].mt \in Nat
    PROVE  MapThenSumSet(LAMBDA c : archive[c].stt + archive[c].mt, old)
             = Fold([c \in old |-> archive[c].stt + archive[c].mt], old)
<1> DEFINE f == [c \in old |-> archive[c].stt + archive[c].mt]
           g(c) == archive[c].stt + archive[c].mt
<1>1. \A s \in SUBSET old : s # {} => f[One(s)] = g(One(s))
  <2>1. \A s \in SUBSET old : s # {} => One(s) \in old
    BY DEF One
  <2> QED
    BY <2>1
<1>2. Fold(f, old) = (CHOOSE it : it = [s \in SUBSET old |->
                        IF s = {} THEN 0 ELSE g(One(s)) + it[s \ {One(s)}]])[old]
  <2>1. \A it : [s \in SUBSET old |-> IF s = {} THEN 0 ELSE f[One(s)] + it[s \ {One(s)}]]
              = [s \in SUBSET old |-> IF s = {} THEN 0 ELSE g(One(s)) + it[s \ {One(s)}]]
    <3> HIDE DEF f, g
    <3> QED
      BY <1>1
  <2> HIDE DEF f, g
  <2>2. (CHOOSE it : Folds(it, f, old)) = CHOOSE it : it = [s \in SUBSET old |->
                        IF s = {} THEN 0 ELSE g(One(s)) + it[s \ {One(s)}]]
    BY <2>1, Zenon DEF Folds
  <2> QED
    BY <2>2 DEF Fold
<1>3. MapThenSumSet(LAMBDA c : archive[c].stt + archive[c].mt, old)
        = (CHOOSE it : it = [s \in SUBSET old |->
                        IF s = {} THEN 0 ELSE g(One(s)) + it[s \ {One(s)}]])[old]
  BY DEF MapThenSumSet, MapThenFoldSet, One, g
<1> QED
  BY <1>2, <1>3

\* The rows of different codes have none in common.
LEMMA RoomsApart ==
    ASSUME NEW C, NEW P, P = [c \in C |-> Of({c})]
    PROVE  Apart(P, C) /\ Cover(P, C) = Of(C)
BY DEF Apart, Cover, Of

\* A user's history counts no cost twice unless it shows a code twice, and it shows one
\* twice only if the code was made again or archived between the two reads.
THEOREM HistoriesCountOnce == CostsSpec => []HistoryCountsOnce
<1>1. ASSUME CostsInv PROVE HistoryCountsOnce
  <2> DEFINE L == hist.live
             old == ArchivedOf(hist.user)
  <2>1. SUFFICES ASSUME hist # None PROVE
          /\ Answer.live \cap Answer.old \subseteq Gone \cup {c \in Codes : rooms[c] # None /\ rooms[c].again}
          /\ Answer.live \cap Answer.old = {} => Answer.total <= Sum(Of(Answer.live \cup Answer.old))
    BY DEF HistoryCountsOnce
  <2>2. /\ CostsTypeOK /\ L \subseteq Codes /\ hist.total \in Nat
        /\ old \subseteq Codes /\ \A c \in old : archive[c] # None
    BY <1>1, <2>1 DEF CostsInv, CostsTypeOK, ArchivedOf
  <2>3. Answer.live = L /\ Answer.old = old
        /\ Answer.total = hist.total + MapThenSumSet(LAMBDA c : archive[c].stt + archive[c].mt, old)
    BY DEF Answer
  <2> HIDE DEF L, old
  <2>4. L \cap old \subseteq Gone \cup {c \in Codes : rooms[c] # None /\ rooms[c].again}
    BY <1>1, <2>2 DEF CostsInv, RoomsMade, Gone
  <2>5. ASSUME L \cap old = {} PROVE Answer.total <= Sum(Of(L \cup old))
    <3> DEFINE f == [c \in old |-> archive[c].stt + archive[c].mt]
               P == [c \in old |-> Of({c})]
    <3>1. \A c \in old : /\ f[c] = archive[c].stt + archive[c].mt
                         /\ f[c] \in Nat /\ f[c] <= Sum(Of({c}))
      <4>1. \A c \in old : archive[c] \in [owner : Users, stt : Nat, mt : Nat]
        BY <2>2 DEF CostsTypeOK
      <4> QED
        BY <1>1, <2>2, <4>1 DEF CostsInv, ArchiveBelow
    <3>2. MapThenSumSet(LAMBDA c : archive[c].stt + archive[c].mt, old) = Fold(f, old)
      BY <3>1, ArchivesSum
    <3>3. Apart(P, old) /\ Cover(P, old) = Of(old)
      BY RoomsApart
    <3>4. IsFiniteSet(old) /\ Priced(costs)
      BY <2>2, FS_Subset, CostsAssumption, RowsPriced DEF CostsTypeOK, Rows
    <3>5. \A c \in old : f[c] \in Nat /\ f[c] <= SumOf(costs, P[c])
      BY <2>2, <3>1, SumsBefore
    <3> HIDE DEF f, P
    <3>6. Fold(f, old) \in Nat /\ Fold(f, old) <= SumOf(costs, Of(old))
      BY <3>3, <3>4, <3>5, PartsBound
    <3>7. Sum(Of(L)) + Sum(Of(old)) = Sum(Of(L \cup old)) /\ Sum(Of(L)) \in Nat /\ Sum(Of(old)) \in Nat
      <4>1. Of(L) \cap Of(old) = {} /\ Of(L) \cup Of(old) = Of(L \cup old)
        BY <2>5 DEF Of
      <4> QED
        BY <2>2, <4>1, SumOfTwo, SumsBefore
    <3>8. hist.total <= Sum(Of(L)) /\ SumOf(costs, Of(old)) = Sum(Of(old))
      BY <1>1, <2>1, <2>2, SumsBefore DEF CostsInv, HistoryBelow, L
    <3>9. \A a, b, x, y \in Nat : a <= x /\ b <= y => a + b <= x + y
      OBVIOUS
    <3>10. hist.total + Fold(f, old) <= Sum(Of(L)) + Sum(Of(old))
      BY ONLY <2>2, <3>6, <3>7, <3>8, <3>9
    <3>11. Answer.total = hist.total + Fold(f, old)
      BY ONLY <2>3, <3>2
    <3> QED
      BY ONLY <3>7, <3>10, <3>11
  <2> QED
    BY <2>3, <2>4, <2>5
<1> QED
  BY <1>1, CostsInductiveInvariant, PTL

\* Days and weeks as the calendar of half days divides them.
LEMMA DayOf == \A t \in Int : Day(t) \in Int /\ 2 * Day(t) <= t /\ t < 2 * (Day(t) + 1)
BY DEF Day

\* Seven days of a week.
LEMMA MondayOf ==
    \A d \in Int : /\ d % 7 \in 0..6 /\ d \div 7 \in Int
                   /\ d = 7 * (d \div 7) + (d % 7)
OBVIOUS

\* The month of an instant.
LEMMA MonthIs ==
    ASSUME NEW t \in Instants
    PROVE  /\ MonthOf(t) \in DOMAIN FirstDay /\ NextMonth(MonthOf(t)) \in DOMAIN FirstDay
           /\ FirstDay[MonthOf(t)] <= Day(t) /\ Day(t) < FirstDay[NextMonth(MonthOf(t))]
           /\ FirstDay[MonthOf(t)] \in Int /\ FirstDay[NextMonth(MonthOf(t))] \in Int
<1> DEFINE Is(ym) == /\ FirstDay[ym] <= Day(t)
                     /\ \A other \in DOMAIN FirstDay :
                          FirstDay[other] <= Day(t) => FirstDay[other] <= FirstDay[ym]
<1>1. /\ t \in Int /\ Day(t) \in Int
      /\ \A ym \in DOMAIN FirstDay : FirstDay[ym] \in Int
  BY Times, DayOf, CostsAssumption
<1>2. PICK m \in DOMAIN FirstDay :
        NextMonth(m) \in DOMAIN FirstDay /\ FirstDay[m] <= Day(t) /\ Day(t) < FirstDay[NextMonth(m)]
  BY CalendarAssumption
<1>3. \A ym, other \in DOMAIN FirstDay :
        /\ FirstDay[ym] = FirstDay[other] => ym = other
        /\ NextMonth(ym) \in DOMAIN FirstDay =>
             ~(FirstDay[ym] < FirstDay[other] /\ FirstDay[other] < FirstDay[NextMonth(ym)])
  BY CalendarAssumption
<1>4. \A x, y, z, d \in Int : ~(x < y /\ y < z) /\ y <= d /\ d < z => y <= x
  OBVIOUS
<1>5. Is(m)
  BY <1>1, <1>2, <1>3, <1>4
<1>6. \A ym \in DOMAIN FirstDay : Is(ym) => ym = m
  <2>1. ASSUME NEW ym \in DOMAIN FirstDay, Is(ym) PROVE FirstDay[ym] = FirstDay[m]
    BY <1>1, <1>2, <1>5, <2>1
  <2> QED
    BY <1>3, <2>1
<1>7. MonthOf(t) = CHOOSE ym \in DOMAIN FirstDay : Is(ym)
  BY DEF MonthOf
<1> HIDE DEF Is
<1>8. MonthOf(t) = m
  BY <1>5, <1>6, <1>7
<1> QED
  BY <1>1, <1>2, <1>8

\* An instant is in one month only.
LEMMA SameMonth ==
    ASSUME NEW t \in Instants, NEW a \in Instants,
           FirstDay[MonthOf(t)] <= Day(a), Day(a) < FirstDay[NextMonth(MonthOf(t))]
    PROVE  MonthOf(t) = MonthOf(a)
<1> DEFINE m == MonthOf(t)
           k == MonthOf(a)
<1>1. /\ m \in DOMAIN FirstDay /\ NextMonth(m) \in DOMAIN FirstDay
      /\ k \in DOMAIN FirstDay /\ NextMonth(k) \in DOMAIN FirstDay
      /\ FirstDay[k] <= Day(a) /\ Day(a) < FirstDay[NextMonth(k)]
      /\ FirstDay[m] \in Int /\ FirstDay[NextMonth(m)] \in Int
      /\ FirstDay[k] \in Int /\ FirstDay[NextMonth(k)] \in Int
      /\ Day(a) \in Int
  BY MonthIs, DayOf, Times
<1>2. FirstDay[m] <= Day(a) /\ Day(a) < FirstDay[NextMonth(m)]
  OBVIOUS
<1>3. \A ym, other \in DOMAIN FirstDay :
        /\ FirstDay[ym] = FirstDay[other] => ym = other
        /\ NextMonth(ym) \in DOMAIN FirstDay =>
             ~(FirstDay[ym] < FirstDay[other] /\ FirstDay[other] < FirstDay[NextMonth(ym)])
  BY CalendarAssumption
<1> HIDE DEF m, k
<1>4. \A x, y, u, v, d \in Int :
        ~(x < y /\ y < u) /\ ~(y < x /\ x < v) /\ x <= d /\ d < u /\ y <= d /\ d < v => x = y
  OBVIOUS
<1>5. FirstDay[m] = FirstDay[k]
  BY <1>1, <1>2, <1>3, <1>4
<1> QED
  BY <1>1, <1>3, <1>5 DEF m, k

-----------------------------------------------------------------------------
\* The period of an instant has the instant, and only the instants of that period have it.
LEMMA Daily ==
    ASSUME NEW t \in Instants
    PROVE  Bounds["daily"][t] = <<2 * Day(t), 2 * (Day(t) + 1)>>
BY DEF Bounds, PeriodTypes

\* The period of a type, for an instant.
LEMMA Weekly ==
    ASSUME NEW t \in Instants
    PROVE  Bounds["weekly"][t] = Week(t)
BY DEF Bounds, PeriodTypes

\* The same of a month.
LEMMA Monthly ==
    ASSUME NEW t \in Instants
    PROVE  Bounds["monthly"][t] = <<2 * FirstDay[MonthOf(t)], 2 * FirstDay[NextMonth(MonthOf(t))]>>
BY DEF Bounds, PeriodTypes

Inside(b, a) == b[1] <= a /\ a < b[2]

\* An instant is within its own period.
LEMMA OwnPeriod ==
    ASSUME NEW a \in Instants, NEW type \in PeriodTypes
    PROVE  Inside(Bounds[type][a], a)
<1>0. a \in Int /\ Day(a) \in Int /\ 2 * Day(a) <= a /\ a < 2 * (Day(a) + 1)
  BY Times, DayOf
<1>1. CASE type = "daily"
  BY <1>0, <1>1, Daily DEF Inside
<1>2. CASE type = "weekly"
  <2> DEFINE d == Day(a)
             r == Day(a) % 7
  <2>1. d \in Int /\ r \in Int /\ 0 <= r /\ r <= 6 /\ a \in Int /\ 2 * d <= a /\ a < 2 * (d + 1)
    BY <1>0, MondayOf
  <2>2. Week(a) = <<2 * (d - r), 2 * (d - r + 7)>>
    BY DEF Week
  <2> HIDE DEF d, r
  <2>3. 2 * (d - r) <= a /\ a < 2 * (d - r + 7)
    BY ONLY <2>1
  <2> QED
    BY <1>2, <2>2, <2>3, Weekly DEF Inside
<1>3. CASE type = "monthly"
  <2>1. \A f, n, d,
     t \in Int : f <= d /\ d < n /\ 2 * d <= t /\ t < 2 * (d + 1) => 2 * f <= t /\ t < 2 * n
    OBVIOUS
  <2> QED
    BY <1>0, <1>3, <2>1, MonthIs, Monthly DEF Inside
<1> QED
  BY <1>1, <1>2, <1>3 DEF PeriodTypes

\* And in no other of the type.
LEMMA SamePeriod ==
    ASSUME NEW a \in Instants, NEW t \in Instants, NEW type \in PeriodTypes,
       Inside(Bounds[type][t], a)
    PROVE  Bounds[type][t] = Bounds[type][a]
<1>0. /\ a \in Int /\ Day(a) \in Int /\ 2 * Day(a) <= a /\ a < 2 * (Day(a) + 1)
      /\ t \in Int /\ Day(t) \in Int
  BY Times, DayOf
<1>1. CASE type = "daily"
  <2>1. 2 * Day(t) <= a /\ a < 2 * (Day(t) + 1)
    BY <1>1, Daily DEF Inside
  <2>2. Day(t) = Day(a)
    BY ONLY <1>0, <2>1
  <2> QED
    BY <1>1, <2>2, Daily
<1>2. CASE type = "weekly"
  <2>1. Week(t) = <<2 * (Day(t) - (Day(t) % 7)), 2 * (Day(t) - (Day(t) % 7) + 7)>>
        /\ Week(a) = <<2 * (Day(a) - (Day(a) % 7)), 2 * (Day(a) - (Day(a) % 7) + 7)>>
    BY DEF Week
  <2>2. 2 * (Day(t) - (Day(t) % 7)) <= a /\ a < 2 * (Day(t) - (Day(t) % 7) + 7)
    BY <1>2, <2>1, Weekly DEF Inside
  <2>3. /\ Day(t) % 7 \in 0..6 /\ Day(t) \div 7 \in Int /\ Day(t) = 7 * (Day(t) \div 7) + (Day(t) % 7)
        /\ Day(a) % 7 \in 0..6 /\ Day(a) \div 7 \in Int /\ Day(a) = 7 * (Day(a) \div 7) + (Day(a) % 7)
    BY <1>0, MondayOf
  <2> DEFINE d == Day(t)
             x == Day(t) \div 7
             r == Day(t) % 7
             e == Day(a)
             y == Day(a) \div 7
             s == Day(a) % 7
  <2>4. /\ d \in Int /\ e \in Int /\ x \in Int /\ y \in Int /\ r \in Int /\ s \in Int /\ a \in Int
        /\ 0 <= r /\ r <= 6 /\ 0 <= s /\ s <= 6 /\ d = 7 * x + r /\ e = 7 * y + s
        /\ 2 * (d - r) <= a /\ a < 2 * (d - r + 7) /\ 2 * e <= a /\ a < 2 * (e + 1)
    <3>1. d \in Int /\ e \in Int /\ a \in Int /\ 2 * e <= a /\ a < 2 * (e + 1)
      BY <1>0
    <3>2. 2 * (d - r) <= a /\ a < 2 * (d - r + 7)
      BY <2>2
    <3>3. r \in 0..6 /\ s \in 0..6 /\ x \in Int /\ y \in Int /\ d = 7 * x + r /\ e = 7 * y + s
      BY <2>3
    <3> HIDE DEF d, x, r, e, y, s
    <3> QED
      BY ONLY <3>1, <3>2, <3>3
  <2> HIDE DEF d, x, r, e, y, s
  <2>5. d - r = e - s
    BY ONLY <2>4
  <2>6. Day(t) - (Day(t) % 7) = Day(a) - (Day(a) % 7)
    BY <2>5 DEF d, r, e, s
  <2> QED
    BY <1>2, <2>1, <2>6, Weekly
<1>3. CASE type = "monthly"
  <2>1. 2 * FirstDay[MonthOf(t)] <= a /\ a < 2 * FirstDay[NextMonth(MonthOf(t))]
    BY <1>3, Monthly DEF Inside
  <2>2. \A f, n, d,
     b \in Int : 2 * f <= b /\ b < 2 * n /\ 2 * d <= b /\ b < 2 * (d + 1) => f <= d /\ d < n
    OBVIOUS
  <2>3. FirstDay[MonthOf(t)] <= Day(a) /\ Day(a) < FirstDay[NextMonth(MonthOf(t))]
    BY <1>0, <2>1, <2>2, MonthIs
  <2>4. MonthOf(t) = MonthOf(a)
    BY <2>3, SameMonth
  <2> QED
    BY <1>3, <2>4, Monthly
<1> QED
  BY <1>1, <1>2, <1>3 DEF PeriodTypes

\* Every cost is in exactly one period of each type, and the two times the growth
\* compares share no cost and leave out none between them.
THEOREM PeriodsAndRangesTile == CostsSpec => []RangesTile
<1>1. ASSUME CostsTypeOK PROVE RangesTile
  <2>1. ASSUME NEW i \in DOMAIN costs, NEW type \in PeriodTypes
        PROVE  {b \in {Bounds[type][t] : t \in Instants} : i \in Within(b)}
                 = {Bounds[type][costs[i].at]}
    <3>1. costs[i].at \in Instants
      BY <1>1, RowFields DEF CostsTypeOK, Rows
    <3>2. \A b : i \in Within(b) <=> Inside(b, costs[i].at)
      BY DEF Within, Inside
    <3>3. \A t \in Instants : Inside(Bounds[type][t], costs[i].at)
                               => Bounds[type][t] = Bounds[type][costs[i].at]
      BY <3>1, SamePeriod
    <3>4. Inside(Bounds[type][costs[i].at], costs[i].at)
      BY <3>1, OwnPeriod
    <3> QED
      BY <3>1, <3>2, <3>3, <3>4
  <2>2. ASSUME NEW s \in Instants, NEW e \in Instants, s <= e
        PROVE  /\ Previous(s, e) \cap InRange(s, e) = {}
               /\ Previous(s, e) \cup InRange(s, e) = InRange(s - (e - s), e)
    <3>1. s \in Int /\ e \in Int /\ \A i \in DOMAIN costs : costs[i].at \in Int
      BY <1>1, RowFields, Times DEF CostsTypeOK, Rows
    <3>2. \A x \in Int : /\ ~(x < s /\ s <= x)
                         /\ ((s - (e - s) <= x /\ x < s)
                             \/ (s <= x /\ x <= e)) <=> (s - (e - s) <= x /\ x <= e)
      BY ONLY <2>2, <3>1
    <3> QED
      BY <3>1, <3>2 DEF Previous, InRange
  <2> QED
    BY <2>1, <2>2 DEF RangesTile
<1> QED
  BY <1>1, CostsInductiveInvariant, PTL DEF CostsInv

\* A quotient grows with what is divided.
LEMMA QuotientGrows ==
    ASSUME NEW x \in Nat, NEW y \in Nat, x <= y, NEW n \in Nat \ {0}
    PROVE  x \div n \in Nat /\ y \div n \in Nat /\ x \div n <= y \div n
<1> DEFINE p == x \div n
           q == y \div n
<1>1. p \in Int /\ q \in Int /\ n * p <= x /\ y < n * (q + 1)
  OBVIOUS
<1>2. p \in Nat /\ q \in Nat
  OBVIOUS
<1> HIDE DEF p, q
<1>3. ASSUME ~(p <= q) PROVE FALSE
  <2>1. n * (q + 1) <= n * p
    <3>1. PICK k \in Nat : p = q + 1 + k
      BY ONLY <1>1, <1>3, p = q + 1 + (p - q - 1), p - q - 1 \in Nat
    <3>2. n * k \in Nat /\ n * p = n * (q + 1) + n * k
      BY <1>1, <3>1
    <3> QED
      BY ONLY <1>1, <3>2
  <2>2. n * p \in Int /\ n * (q + 1) \in Int
    BY <1>1
  <2> QED
    BY ONLY <1>1, <2>1, <2>2, x <= y, x \in Nat, y \in Nat
<1> QED
  BY <1>2, <1>3 DEF p, q

\* More cost is never less severe.
LEMMA SeverityGrows ==
    ASSUME NEW x \in Nat, NEW y \in Nat, x <= y, NEW usd \in Amounts, NEW th \in Thresholds
    PROVE  Severity(y, usd, th) >= Severity(x, usd, th)
<1> DEFINE p == (x * 100) \div usd
           q == (y * 100) \div usd
           s(u) == CASE u >= 100   -> 3
                     [] u < 100 /\ u >= th[2] -> 2
                     [] u < 100 /\ u < th[2] /\ u >= th[1] -> 1
                     [] OTHER -> 0
<1>1. p \in Nat /\ q \in Nat /\ p <= q
  <2>1. x * 100 \in Nat /\ y * 100 \in Nat /\ x * 100 <= y * 100
    OBVIOUS
  <2>2. usd \in Nat \ {0}
    BY CostsAssumption
  <2> HIDE DEF p, q
  <2> QED
    BY <2>1, <2>2, QuotientGrows DEF p, q
<1>2. th[1] \in 0..100 /\ th[2] \in 0..100
  BY CostsAssumption
<1>3. Severity(y, usd, th) = s(q) /\ Severity(x, usd, th) = s(p)
  BY DEF Severity
<1> HIDE DEF p, q
<1>4. s(q) >= s(p)
  BY <1>1, <1>2
<1> QED
  BY <1>3, <1>4

\* Within one period the status of a budget only gets worse, for all amounts and
\* thresholds, also when rooms are archived and deleted.
THEOREM TheStatusOnlyWorsens == CostsSpec => StatusOnlyWorsens
<1>1. ASSUME CostsInv, [CostsNext]_costvars, CostsTypeOK',
             NEW type \in {p \in PeriodTypes : Bounds[p][clock] = Bounds[p][clock']}
      PROVE  /\ CurrentCost(type) \in Nat /\ CurrentCost(type)' \in Nat
             /\ CurrentCost(type) <= CurrentCost(type)'
  <2> DEFINE bs == Bounds[type][clock]
             old == {i \in DOMAIN costs : bs[1] <= costs[i].at /\ costs[i].at < bs[2]}
             new == {i \in DOMAIN costs' : bs[1] <= costs'[i].at /\ costs'[i].at < bs[2]}
  <2>1. Priced(costs) /\ Priced(costs') /\ costs \in Seq(Rows) /\ costs' \in Seq(Rows)
        /\ DOMAIN costs = 1..Len(costs) /\ DOMAIN costs' = 1..Len(costs')
    BY <1>1, RowsPriced DEF CostsInv, CostsTypeOK, Rows
  <2>2. CurrentCost(type) = SumOf(costs, old)
    <3>1. old = Within(Bounds[type][clock])
      BY DEF Within
    <3> HIDE DEF old
    <3> QED
      BY <1>1, <3>1, SumsBefore DEF CurrentCost, CostsInv
  <2>3. CurrentCost(type)' = SumOf(costs', new)
    <3>1. Bounds[type][clock'] = bs
      BY <1>1
    <3>2. CurrentCost(type)' = Sum(Within(Bounds[type][clock]))'
      BY DEF CurrentCost
    <3>3. Sum(Within(Bounds[type][clock]))' = SumOf(costs', Within(Bounds[type][clock])')
      <4>1. Priced(costs')
        BY <2>1
      <4>2. SumOf(costs', Within(Bounds[type][clock])') =
              LET upTo[k \in 0..Len(costs')] ==
                    IF k = 0 THEN 0
                    ELSE upTo[k - 1] + IF k \in Within(Bounds[type][clock])' THEN costs'[k].amount ELSE 0
              IN  upTo[Len(costs')]
        BY ONLY <4>1, SumIs
      <4> QED
        BY ONLY <4>2 DEF Sum
    <3>4. Within(Bounds[type][clock])' = new
      BY <3>1 DEF Within
    <3> QED
      BY <3>2, <3>3, <3>4
  <2>4. /\ Len(costs') = Len(costs) \/ Len(costs') = Len(costs) + 1
        /\ \A k \in 1..Len(costs) : costs'[k] = costs[k]
        /\ Len(costs) \in Nat
    <3>1. CASE costs' = costs
      BY <2>1, <3>1
    <3>2. CASE \E r \in Rows : costs' = Append(costs, r)
      BY <2>1, <3>2, Appended
    <3> QED
      BY <1>1, <3>1, <3>2, RowsStep
  <2>5. \A k \in 1..Len(costs) : k \in old => k \in new
    <3>1. \A k \in 1..Len(costs) : k \in 1..Len(costs')
      BY <2>4
    <3> QED
      BY <2>1, <2>4, <3>1
  <2> HIDE DEF bs, old, new
  <2> QED
    BY <2>1, <2>2, <2>3, <2>4, <2>5, SumGrows, SumNat
<1>2. ASSUME CostsInv, [CostsNext]_costvars, CostsTypeOK' PROVE
        [costs' # costs =>
         \A type \in {p \in PeriodTypes : Bounds[p][clock] = Bounds[p][clock']} :
           LET before == CurrentCost(type)
               after == CurrentCost(type)'
           IN  \A usd \in Amounts, th \in Thresholds :
                 Severity(after, usd, th) >= Severity(before, usd, th)]_costvars
  BY <1>1, <1>2, SeverityGrows
<1>3. CostsInv => CostsTypeOK
  BY DEF CostsInv
<1> QED
  BY <1>2, <1>3, CostsInductiveInvariant, PTL DEF CostsSpec, StatusOnlyWorsens

\* The sum of a function is a fold over its domain.
LEMMA SumOfFunction == ASSUME NEW f PROVE SumFunction(f) = Fold(f, DOMAIN f)
BY SumFunctionIsFold DEF SumFunction

\* Sets of rows are finite.
LEMMA RowsFinite ==
    ASSUME CostsTypeOK, NEW S, S \subseteq DOMAIN costs
    PROVE  IsFiniteSet(S) /\ Priced(costs) /\ DOMAIN costs = 1..Len(costs)
<1>1. Priced(costs) /\ DOMAIN costs = 1..Len(costs) /\ Len(costs) \in Nat
  BY RowsPriced DEF CostsTypeOK, Rows, Priced
<1>2. IsFiniteSet(1..Len(costs))
  BY <1>1, FS_Interval
<1> QED
  BY <1>1, <1>2, FS_Subset

\* Rows grouped by any key add up to what they add up to together.
LEMMA Grouped ==
    ASSUME CostsTypeOK, NEW S, S \subseteq DOMAIN costs, NEW key
    PROVE  /\ SumFunction([b \in {key[i] : i \in S} |-> Sum({i \in S : key[i] = b})]) = Sum(S)
           /\ IsFiniteSet({key[i] : i \in S})
<1> DEFINE D == {key[i] : i \in S}
           P == [b \in D |-> {i \in S : key[i] = b}]
           f == [b \in D |-> Sum({i \in S : key[i] = b})]
<1>1. IsFiniteSet(D) /\ Priced(costs) /\ DOMAIN f = D
  BY RowsFinite, FiniteValues
<1>2. \A b \in D : /\ P[b] = {i \in S : key[i] = b} /\ f[b] = Sum({i \in S : key[i] = b})
                   /\ \A i : i \in P[b] <=> i \in S /\ key[i] = b
  OBVIOUS
<1>3. \A i \in S : key[i] \in D
  OBVIOUS
<1> HIDE DEF D, P
<1>4. \A b \in D : f[b] = SumOf(costs, P[b])
  BY <1>2, SumsBefore
<1> HIDE DEF f
<1>5. Apart(P, D)
  <2>1. ASSUME NEW j \in D, NEW k \in D, j # k, NEW i \in P[j] \cap P[k] PROVE FALSE
    BY <1>2, <2>1
  <2> QED
    BY <2>1 DEF Apart
<1>6. Cover(P, D) = S
  <2>1. ASSUME NEW i \in Cover(P, D) PROVE i \in S
    <3>1. PICK b \in D : i \in P[b]
      BY DEF Cover
    <3> QED
      BY <1>2, <3>1
  <2>2. ASSUME NEW i \in S PROVE i \in Cover(P, D)
    <3>1. key[i] \in D /\ i \in P[key[i]]
      BY <1>2, <1>3
    <3> QED
      BY <3>1 DEF Cover
  <2> QED
    BY <2>1, <2>2
<1>7. Fold(f, D) = SumOf(costs, S)
  BY <1>1, <1>4, <1>5, <1>6, PartsAddUp
<1>8. SumFunction(f) = Sum(S)
  BY <1>1, <1>7, SumOfFunction, SumsBefore
<1> QED
  BY <1>1, <1>8 DEF f, D

\* Parts that cost nothing may be left out.
LEMMA LeftOut ==
    ASSUME CostsTypeOK, NEW K, IsFiniteSet(K), NEW P, Apart(P, K),
       \A k \in K : P[k] \subseteq DOMAIN costs,
           NEW f, f = [k \in {j \in K : Sum(P[j]) > 0} |-> Sum(P[k])]
    PROVE  SumFunction(f) = Sum(Cover(P, K))
<1> DEFINE D == {j \in K : Sum(P[j]) > 0}
<1>1. /\ IsFiniteSet(D) /\ Priced(costs) /\ DOMAIN f = D /\ D \subseteq K
      /\ DOMAIN costs = 1..Len(costs)
  BY FS_Subset, RowsFinite
<1>2. \A k \in D : f[k] = SumOf(costs, P[k])
  BY SumsBefore
<1>3. \A k \in K \ D : SumOf(costs, P[k]) = 0
  <2>1. \A n \in Nat : ~(n > 0) => n = 0
    OBVIOUS
  <2> QED
    BY <2>1, SumsBefore
<1> HIDE DEF D
<1>4. Apart(P, D)
  BY <1>1 DEF Apart
<1>5. Fold(f, D) = SumOf(costs, Cover(P, D))
  BY <1>1, <1>2, <1>4, PartsAddUp
<1>6. SumOf(costs, Cover(P, D)) = SumOf(costs, Cover(P, K))
  <2>1. ASSUME NEW i \in 1..Len(costs), costs[i].amount # 0
        PROVE  i \in Cover(P, D) <=> i \in Cover(P, K)
    <3>1. ASSUME NEW k \in K, i \in P[k] PROVE k \in D
      BY <1>1, <1>3, <2>1, <3>1, SumZero
    <3> QED
      BY <1>1, <3>1 DEF Cover
  <2> QED
    BY <1>1, <2>1, SumSame
<1> QED
  BY <1>1, <1>5, <1>6, SumOfFunction, SumsBefore

-----------------------------------------------------------------------------
\* The points of a series add up to the total of its time.
LEMMA PointsAddUp ==
    ASSUME CostsTypeOK, NEW s, NEW e, NEW C, NEW g
    PROVE  /\ SumFunction(Points(s, e, C, g)) = Overview(s, e, C)
           /\ IsFiniteSet(DOMAIN Points(s, e, C, g))
           /\ DOMAIN Points(s, e, C, g) = Buckets(InRange(s, e) \cap Of(C), g)
           /\ \A b \in DOMAIN Points(s, e, C, g) :
                Points(s, e, C, g)[b] = Sum(InBucket(InRange(s, e) \cap Of(C), g, b))
<1> DEFINE S == InRange(s, e) \cap Of(C)
           key == [i \in S |-> Truncate(g, costs[i].at)]
           f == Points(s, e, C, g)
<1>1. S \subseteq DOMAIN costs
  BY DEF InRange
<1>2. Buckets(S, g) = {key[i] : i \in S}
  BY DEF Buckets
<1>3. \A b : InBucket(S, g, b) = {i \in S : key[i] = b}
  BY DEF InBucket
<1>4. f = [b \in Buckets(S, g) |-> Sum(InBucket(S, g, b))]
  BY DEF Points
<1>5. Overview(s, e, C) = Sum(S)
  BY DEF Overview
<1> HIDE DEF S, key, f
<1>6. f = [b \in {key[i] : i \in S} |-> Sum({i \in S : key[i] = b})]
  BY <1>2, <1>3, <1>4
<1>7. SumFunction(f) = Sum(S) /\ IsFiniteSet(DOMAIN f)
  <2>1. DOMAIN f = {key[i] : i \in S}
    BY <1>6
  <2> QED
    BY <1>1, <1>6, <2>1, Grouped
<1> QED
  BY <1>4, <1>5, <1>7 DEF f, S

\* The providers of a point add up to the point.
LEMMA ProvidersAddUp ==
    ASSUME CostsTypeOK, NEW s, NEW e, NEW C, NEW g, NEW b \in Buckets(InRange(s, e) \cap Of(C), g)
    PROVE  SumFunction(ByProvider(s, e, C, g)[b]) = Sum(InBucket(InRange(s, e) \cap Of(C), g, b))
<1> DEFINE S == InBucket(InRange(s, e) \cap Of(C), g, b)
           key == [i \in S |-> <<costs[i].of.pipeline, costs[i].of.provider>>]
           f == [who \in {key[i] : i \in S} |-> Sum({i \in S : key[i] = who})]
<1>1. S \subseteq DOMAIN costs
  BY DEF InBucket, InRange
<1>2. ByProvider(s, e, C, g)[b] =
            [who \in {<<costs[i].of.pipeline, costs[i].of.provider>> : i \in S} |->
                Sum({i \in S : <<costs[i].of.pipeline, costs[i].of.provider>> = who})]
  BY DEF ByProvider
<1>3. /\ {<<costs[i].of.pipeline, costs[i].of.provider>> : i \in S} = {key[i] : i \in S}
      /\ \A who : {i \in S : <<costs[i].of.pipeline,
         costs[i].of.provider>> = who} = {i \in S : key[i] = who}
  BY DEF key
<1> HIDE DEF S, key
<1>4. ByProvider(s, e, C, g)[b] = f
  BY <1>2, <1>3
<1> HIDE DEF f
<1>5. SumFunction(f) = Sum(S)
  BY <1>1, Grouped DEF f
<1> QED
  BY <1>4, <1>5 DEF S

\* The last point has everything.
LEMMA BeginningsAreTimes ==
    ASSUME NEW t \in Instants, NEW g \in PeriodTypes
    PROVE  Truncate(g, t) \in Int
<1>0. t \in Int /\ Day(t) \in Int
  BY Times, DayOf
<1>1. CASE g = "daily"
  BY <1>0, <1>1, Daily DEF Truncate
<1>2. CASE g = "weekly"
  <2>1. Day(t) % 7 \in Int /\ Week(t)[1] = 2 * (Day(t) - (Day(t) % 7))
    BY <1>0 DEF Week
  <2> QED
    BY <1>0, <1>2, <2>1, Weekly DEF Truncate
<1>3. CASE g = "monthly"
  <2>1. Truncate(g, t) = 2 * FirstDay[MonthOf(t)]
    BY <1>3, Monthly DEF Truncate
  <2> QED
    BY <2>1, MonthIs
<1> QED
  BY <1>1, <1>2, <1>3 DEF PeriodTypes

\* The last running total is the total.
LEMMA AccumulatedAll ==
    ASSUME CostsTypeOK, NEW s, NEW e, NEW C, NEW g \in PeriodTypes,
           NEW b \in DOMAIN Points(s, e, C, g), b = Max(DOMAIN Points(s, e, C, g))
    PROVE  Accumulated(Points(s, e, C, g))[b] = SumFunction(Points(s, e, C, g))
<1> DEFINE f == Points(s, e, C, g)
           D == DOMAIN f
<1>1. IsFiniteSet(D) /\ D = Buckets(InRange(s, e) \cap Of(C), g)
  BY PointsAddUp
<1>2. D \subseteq Int
  <2>1. ASSUME NEW i \in DOMAIN costs PROVE Truncate(g, costs[i].at) \in Int
    BY BeginningsAreTimes, RowFields DEF CostsTypeOK, Rows
  <2> QED
    BY <1>1, <2>1 DEF Buckets, InRange
<1>3. Accumulated(f)[b] = SumFunctionOnSet(f, {a \in D : a <= b})
  BY DEF Accumulated
<1>4. b \in D /\ b = Max(D)
  OBVIOUS
<1> HIDE DEF f
<1>5. \A a \in D : a <= b
  <2> HIDE DEF D
  <2>1. PICK m \in D : \A y \in D : y <= m
    BY <1>1, <1>2, <1>4, SomeMost
  <2>2. \A y \in D : m >= y
    BY <1>2, <2>1
  <2>3. \A y \in D : b >= y
    BY <1>4, <2>2 DEF Max
  <2> QED
    BY <1>2, <1>4, <2>3
<1>6. {a \in D : a <= b} = D
  BY <1>5
<1> QED
  BY <1>3, <1>6 DEF SumFunction, f

\* Codes are of a user's rooms, or gone.
LEMMA Owners ==
    ASSUME CostsTypeOK
    PROVE  /\ \A c \in Codes : c \notin Gone => rooms[c].owner \in Users /\ c \in OwnedBy(rooms[c].owner)
           /\ \A u : \A c \in OwnedBy(u) : c \in Codes /\ c \notin Gone /\ rooms[c].owner = u
           /\ \A i \in DOMAIN costs : costs[i].of.room \in Codes
<1>1. \A c \in Codes : rooms[c] # None => rooms[c].owner \in Users
  BY DEF CostsTypeOK
<1>2. \A i \in DOMAIN costs : costs[i].of.room \in Codes
  BY RowFields DEF CostsTypeOK, Rows, Event
<1> QED
  BY <1>1, <1>2 DEF Gone, OwnedBy

\* A total is that of the parts, and that of the codes without a room.
LEMMA WithTheLost ==
    ASSUME CostsTypeOK, NEW s, NEW e, NEW S,
           S = {i \in InRange(s, e) : costs[i].of.room \in Codes \ Gone}
    PROVE  Sum(S) + Overview(s, e, Gone) = Overview(s, e, Codes)
<1> DEFINE L == InRange(s, e) \cap Of(Gone)
           A == InRange(s, e) \cap Of(Codes)
<1>1. S \cap L = {} /\ S \cup L = A
  BY DEF InRange, Of, Gone
<1>2. Overview(s, e, Gone) = Sum(L) /\ Overview(s, e, Codes) = Sum(A)
  BY DEF Overview
<1> HIDE DEF L, A
<1> QED
  BY <1>1, <1>2, SumOfTwo

\* The users add up to the total, but for the codes without a room.
LEMMA UsersAddUp ==
    ASSUME CostsTypeOK, NEW s, NEW e
    PROVE  SumFunction(UserCosts(s, e)) + Overview(s, e, Gone) = Overview(s, e, Codes)
<1> DEFINE P == [u \in Users |-> InRange(s, e) \cap Of(OwnedBy(u))]
           S == {i \in InRange(s, e) : costs[i].of.room \in Codes \ Gone}
           f == [u \in {v \in Users : Sum(P[v]) > 0} |-> Sum(P[u])]
<1>1. UserCosts(s, e) = f
  BY DEF UserCosts, Overview
<1>2. \A u \in Users : \A i : i \in P[u] <=> i \in InRange(s, e) /\ costs[i].of.room \in OwnedBy(u)
  BY DEF InRange, Of
<1>3. \A u \in Users : P[u] \subseteq DOMAIN costs
  BY DEF Of
<1> HIDE DEF P
<1>4. Apart(P, Users)
  <2>1. ASSUME NEW j \in Users, NEW k \in Users, j # k, NEW i \in P[j] \cap P[k] PROVE FALSE
    BY <1>2, <2>1, Owners
  <2> QED
    BY <2>1 DEF Apart
<1>5. Cover(P, Users) = S
  <2>1. ASSUME NEW i \in Cover(P, Users) PROVE i \in S
    <3>1. PICK u \in Users : i \in P[u]
      BY DEF Cover
    <3> QED
      BY <1>2, <3>1, Owners
  <2>2. ASSUME NEW i \in S PROVE i \in Cover(P, Users)
    <3> DEFINE u == rooms[costs[i].of.room].owner
    <3>1. u \in Users /\ i \in P[u]
      BY <1>2, <2>2, Owners
    <3> QED
      BY <3>1 DEF Cover
  <2> QED
    BY <2>1, <2>2
<1>6. SumFunction(f) = Sum(Cover(P, Users))
  BY <1>3, <1>4, LeftOut, CostsAssumption
<1> HIDE DEF f, S
<1>7. Sum(S) + Overview(s, e, Gone) = Overview(s, e, Codes)
  BY WithTheLost DEF S
<1> QED
  BY <1>1, <1>5, <1>6, <1>7

\* The rooms of some codes add up to the codes' total.
LEMMA RoomsOf ==
    ASSUME CostsTypeOK, NEW s, NEW e, NEW K, K \subseteq Codes
    PROVE  SumFunction([c \in {d \in K : Overview(s, e, {d}) > 0} |-> Overview(s, e, {c})])
             = Overview(s, e, K)
<1> DEFINE P == [c \in K |-> InRange(s, e) \cap Of({c})]
           f == [k \in {j \in K : Sum(P[j]) > 0} |-> Sum(P[k])]
<1>1. [c \in {d \in K : Overview(s, e, {d}) > 0} |-> Overview(s, e, {c})] = f
  BY DEF Overview
<1>2. \A c \in K : \A i : i \in P[c] <=> i \in InRange(s, e) /\ costs[i].of.room = c
  BY DEF InRange, Of
<1>3. (\A c \in K : P[c] \subseteq DOMAIN costs) /\ IsFiniteSet(K)
  BY FS_Subset, CostsAssumption DEF Of
<1> HIDE DEF P
<1>4. Apart(P, K)
  <2>1. ASSUME NEW j \in K, NEW k \in K, j # k, NEW i \in P[j] \cap P[k] PROVE FALSE
    BY <1>2, <2>1
  <2> QED
    BY <2>1 DEF Apart
<1>5. Cover(P, K) = InRange(s, e) \cap Of(K)
  <2>1. ASSUME NEW i \in Cover(P, K) PROVE i \in InRange(s, e) \cap Of(K)
    <3>1. PICK c \in K : i \in P[c]
      BY DEF Cover
    <3> QED
      BY <1>2, <3>1 DEF InRange, Of
  <2>2. ASSUME NEW i \in InRange(s, e) \cap Of(K) PROVE i \in Cover(P, K)
    <3>1. costs[i].of.room \in K /\ i \in P[costs[i].of.room]
      BY <1>2, <2>2 DEF Of
    <3> QED
      BY <3>1 DEF Cover
  <2> QED
    BY <2>1, <2>2
<1>6. SumFunction(f) = Sum(Cover(P, K))
  BY <1>3, <1>4, LeftOut
<1> QED
  BY <1>1, <1>5, <1>6 DEF Overview

\* So do the rooms.
LEMMA RoomsAddUp ==
    ASSUME CostsTypeOK, NEW s, NEW e
    PROVE  SumFunction(RoomCosts(s, e)) + Overview(s, e, Gone) = Overview(s, e, Codes)
<1> DEFINE K == Codes \ Gone
           S == {i \in InRange(s, e) : costs[i].of.room \in Codes \ Gone}
<1>1. InRange(s, e) \cap Of(K) = S
  BY DEF InRange, Of
<1>2. RoomCosts(s, e) = [c \in {d \in K : Overview(s, e, {d}) > 0} |-> Overview(s, e, {c})]
  BY DEF RoomCosts
<1>3. K \subseteq Codes
  OBVIOUS
<1> HIDE DEF K
<1>4. SumFunction(RoomCosts(s, e)) = Overview(s, e, K)
  BY <1>2, <1>3, RoomsOf
<1>5. Overview(s, e, K) = Sum(S)
  BY <1>1 DEF Overview
<1> HIDE DEF S
<1>6. Sum(S) + Overview(s, e, Gone) = Overview(s, e, Codes)
  BY WithTheLost DEF S
<1> QED
  BY <1>4, <1>5, <1>6

\* A user's rooms add up to what the user has cost.
LEMMA RoomsOfUser ==
    ASSUME CostsTypeOK, NEW s, NEW e, NEW u
    PROVE  SumFunction(UserRooms(u, s, e)) = Overview(s, e, OwnedBy(u))
<1> DEFINE K == OwnedBy(u)
           D == {d \in K : Overview(s, e, {d}) > 0}
<1>1. K \subseteq Codes /\ K \cap {d \in Codes \ Gone : Overview(s, e, {d}) > 0} = D
  BY Owners DEF OwnedBy
<1>2. DOMAIN RoomCosts(s, e) = {d \in Codes \ Gone : Overview(s, e, {d}) > 0}
      /\ \A c \in DOMAIN RoomCosts(s, e) : RoomCosts(s, e)[c] = Overview(s, e, {c})
  BY DEF RoomCosts
<1>3. UserRooms(u, s, e) = [c \in K \cap DOMAIN RoomCosts(s, e) |-> RoomCosts(s, e)[c]]
  BY DEF UserRooms, Restrict
<1>4. K \cap DOMAIN RoomCosts(s, e) = D
  BY <1>1, <1>2
<1> HIDE DEF K
<1>5. UserRooms(u, s, e) = [c \in D |-> Overview(s, e, {c})]
  BY <1>2, <1>3, <1>4
<1> QED
  BY <1>1, <1>5, RoomsOf DEF K

-----------------------------------------------------------------------------
\* Speakers.
Translated(c) ==
    {i \in Of({c}) \cap Through("mt") : costs[i].of.speaker # None /\ costs[i].of.target # None}

\* The pairs of speakers add up to the translations that name them.
LEMMA PairsAddUp ==
    ASSUME CostsTypeOK, NEW c
    PROVE  SumFunction(TranslationPairs(c)) = Sum(Translated(c))
<1> DEFINE S == Translated(c)
           key == [i \in S |-> <<costs[i].of.speaker, costs[i].of.target>>]
           f == [p \in {key[i] : i \in S} |-> Sum({i \in S : key[i] = p})]
<1>1. S \subseteq DOMAIN costs
  BY DEF Translated, Of
<1>2. TranslationPairs(c) =
         [p \in {<<costs[i].of.speaker, costs[i].of.target>> : i \in S} |->
            Sum({i \in S : <<costs[i].of.speaker, costs[i].of.target>> = p})]
  BY DEF TranslationPairs, Translated
<1>3. /\ {<<costs[i].of.speaker, costs[i].of.target>> : i \in S} = {key[i] : i \in S}
      /\ \A p : {i \in S : <<costs[i].of.speaker, costs[i].of.target>> = p} = {i \in S : key[i] = p}
  BY DEF key
<1> HIDE DEF S, key
<1>4. TranslationPairs(c) = f
  BY <1>2, <1>3
<1> HIDE DEF f
<1>5. SumFunction(f) = Sum(S)
  BY <1>1, Grouped DEF f
<1> QED
  BY <1>4, <1>5 DEF S

\* Of a room with speakers, a row names a speaker of the room, and then a target, or neither.
LEMMA SpeakersOfRoom ==
    ASSUME CostsInv, NEW c \in Codes \ Gone
    PROVE  /\ rooms[c].speakers \in Nat /\ \A n \in 1..rooms[c].speakers : n # None
           /\ rooms[c].speakers > 1 =>
                \A i \in Of({c}) : costs[i].of.speaker # None =>
                  costs[i].of.speaker \in 1..rooms[c].speakers /\ costs[i].of.target # None
           /\ \A i \in Through("stt") : costs[i].of.speaker = None
<1>1. /\ rooms[c] # None /\ rooms[c].speakers \in Nat
      /\ rooms[c].speakers \in {0, Speakers[c]} /\ Speakers[c] \in Nat
  BY CostsAssumption DEF CostsInv, CostsTypeOK, RoomsMade, Gone
<1>2. \A m \in Nat : \A n \in 1..m : n # None
  <2>1. \A m \in Nat : \A n \in 1..m : n \in Nat
    OBVIOUS
  <2> QED
    BY <2>1, CostsAssumption
<1>3. ASSUME rooms[c].speakers > 1, NEW i \in Of({c}), costs[i].of.speaker # None
      PROVE  costs[i].of.speaker \in 1..rooms[c].speakers /\ costs[i].of.target # None
  <2>1. i \in DOMAIN costs /\ costs[i].of.room = c
    BY DEF Of
  <2>2. rooms[c].speakers = Speakers[c]
    BY <1>1, <1>3
  <2>3. Names(costs[i].of)
    BY <2>1 DEF CostsInv, RowsNamed
  <2> QED
    BY <1>1, <1>2, <1>3, <2>1, <2>2, <2>3 DEF Names
<1>4. \A i \in Through("stt") : costs[i].of.speaker = None
  BY DEF CostsInv, RowsNamed, Names, Through
<1> QED
  BY <1>1, <1>2, <1>3, <1>4

\* The speakers add up to the pairs.
LEMMA SpeakersAddUp ==
    ASSUME CostsInv, NEW c \in Codes \ Gone, rooms[c].speakers > 1
    PROVE  SumFunction(SpeakerCosts(c)) = SumFunction(TranslationPairs(c))
<1> DEFINE K == 1..rooms[c].speakers
           M == Of({c}) \cap Through("mt")
           P == [n \in K |-> {i \in M : costs[i].of.speaker = n}]
<1>1. CostsTypeOK /\ IsFiniteSet(K) /\ Priced(costs)
  <2>1. rooms[c].speakers \in Nat /\ CostsTypeOK
    BY SpeakersOfRoom DEF CostsInv
  <2> QED
    BY <2>1, FS_Interval, RowsFinite
<1>2. SpeakerCosts(c) = [n \in K |-> Sum(P[n])]
  BY DEF SpeakerCosts
<1>3. \A n \in K : \A i : i \in P[n] <=> i \in M /\ costs[i].of.speaker = n
  OBVIOUS
<1>4. \A i \in M : costs[i].of.speaker # None =>
         costs[i].of.speaker \in K /\ costs[i].of.target # None
  BY SpeakersOfRoom
<1>5. \A n \in K : n # None
  BY SpeakersOfRoom
<1>6. \A i : i \in Translated(c) <=> i \in M /\ costs[i].of.speaker # None /\ costs[i].of.target # None
  BY DEF Translated
<1> HIDE DEF K, M, P
<1>7. Apart(P, K)
  <2>1. ASSUME NEW j \in K, NEW k \in K, j # k, NEW i \in P[j] \cap P[k] PROVE FALSE
    BY <1>3, <2>1
  <2> QED
    BY <2>1 DEF Apart
<1>8. Cover(P, K) = Translated(c)
  <2>1. ASSUME NEW i \in Cover(P, K) PROVE i \in Translated(c)
    <3>1. PICK n \in K : i \in P[n]
      BY DEF Cover
    <3> QED
      BY <1>3, <1>4, <1>5, <1>6, <3>1
  <2>2. ASSUME NEW i \in Translated(c) PROVE i \in Cover(P, K)
    <3>1. costs[i].of.speaker \in K /\ i \in P[costs[i].of.speaker]
      BY <1>3, <1>4, <1>6
    <3> QED
      BY <3>1 DEF Cover
  <2> QED
    BY <2>1, <2>2
<1> DEFINE f == [n \in K |-> Sum(P[n])]
<1>9. DOMAIN f = K /\ \A n \in K : f[n] = SumOf(costs, P[n])
  BY <1>1, SumsBefore
<1> HIDE DEF f
<1>10. Fold(f, K) = SumOf(costs, Cover(P, K))
  BY <1>1, <1>7, <1>9, PartsAddUp
<1>11. SumFunction(f) = Sum(Translated(c))
  BY <1>1, <1>8, <1>9, <1>10, SumOfFunction, SumsBefore
<1> QED
  BY <1>1, <1>2, <1>11, PairsAddUp DEF f

\* No STT row names a speaker, so nobody is found inactive.
LEMMA NobodyInactive == ASSUME CostsInv, NEW c \in Codes \ Gone PROVE Inactive(c) = {}
<1>1. ASSUME NEW n \in 1..rooms[c].speakers PROVE Airtime(c)[n] = 0
  <2>1. {i \in Of({c}) \cap Through("stt") : costs[i].of.speaker = n} = {}
    BY SpeakersOfRoom
  <2> QED
    BY <2>1, FS_EmptySet DEF Airtime
<1>2. DOMAIN Airtime(c) = 1..rooms[c].speakers
  BY DEF Airtime
<1> QED
  BY <1>1, <1>2 DEF Inactive

\* The reports of one time agree: series, users, rooms, pairs and speakers each add up
\* to the same total, but for the codes without a room.
THEOREM AllReportsAddUp == CostsSpec => []ReportsAddUp
<1>1. ASSUME CostsInv PROVE ReportsAddUp
  <2>1. CostsTypeOK
    BY <1>1 DEF CostsInv
  <2>2. ASSUME NEW s \in Instants, NEW e \in Instants, NEW g \in PeriodTypes
        PROVE  LET points == Points(s, e, Codes, g)
               IN  /\ SumFunction(points) = Overview(s, e, Codes)
                   /\ \A b \in DOMAIN points :
                        /\ b = Max(DOMAIN points) => Accumulated(points)[b] = Overview(s, e, Codes)
                        /\ Answers(InRange(s, e)) =>
                               SumFunction(ByProvider(s, e, Codes, g)[b]) = points[b]
    <3> DEFINE points == Points(s, e, Codes, g)
    <3>1. /\ SumFunction(points) = Overview(s, e, Codes)
          /\ DOMAIN points = Buckets(InRange(s, e) \cap Of(Codes), g)
          /\ \A b \in DOMAIN points : points[b] = Sum(InBucket(InRange(s, e) \cap Of(Codes), g, b))
      BY <2>1, PointsAddUp
    <3>2. \A b \in DOMAIN points : b = Max(DOMAIN points) => Accumulated(points)[b] = SumFunction(points)
      BY <2>1, AccumulatedAll
    <3>3. \A b \in DOMAIN points :
            SumFunction(ByProvider(s, e, Codes, g)[b]) = Sum(InBucket(InRange(s, e) \cap Of(Codes),
               g, b))
      <4>1. ASSUME NEW b \in DOMAIN points
            PROVE  SumFunction(ByProvider(s, e, Codes, g)[b])
                     = Sum(InBucket(InRange(s, e) \cap Of(Codes), g, b))
        <5>1. b \in Buckets(InRange(s, e) \cap Of(Codes), g)
          BY <3>1, <4>1
        <5> QED
          BY <2>1, <5>1, ProvidersAddUp
      <4> QED
        BY <4>1
    <3> HIDE DEF points
    <3> QED
      BY <3>1, <3>2, <3>3 DEF points
  <2>3. ASSUME NEW s \in Instants, NEW e \in Instants, NEW u \in Users
        PROVE  /\ SumFunction(UserRooms(u, s, e)) = Overview(s, e, OwnedBy(u))
               /\ SumFunction(UserDays(u, s, e)) = Overview(s, e, OwnedBy(u))
    BY <2>1, RoomsOfUser, PointsAddUp DEF UserDays
  <2>4. ASSUME NEW s \in Instants, NEW e \in Instants
        PROVE  /\ SumFunction(UserCosts(s, e)) + Overview(s, e, Gone) = Overview(s, e, Codes)
               /\ SumFunction(RoomCosts(s, e)) + Overview(s, e, Gone) = Overview(s, e, Codes)
    BY <2>1, UsersAddUp, RoomsAddUp
  <2>5. \A c \in Codes \ Gone :
        /\ rooms[c].speakers > 1 =>
               SumFunction(SpeakerCosts(c)) = SumFunction(TranslationPairs(c))
        /\ Inactive(c) = {}
    BY <1>1, SpeakersAddUp, NobodyInactive
  <2> QED
    BY <2>2, <2>3, <2>4, <2>5 DEF ReportsAddUp
<1> QED
  BY <1>1, CostsInductiveInvariant, PTL
=============================================================================
