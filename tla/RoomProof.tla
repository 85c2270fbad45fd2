----------------------------- MODULE RoomProof -----------------------------
(***************************************************************************)
(* Proofs about what the routers know of a room: RoomSettings, whose       *)
(* cached look-ups implement StaleRegister for all speakers, languages and *)
(* lifetimes, and TargetLanguages, which leaves a language out only for a  *)
(* cause, for all users, sockets and languages.                            *)
(***************************************************************************)
EXTENDS RoomSettings, TargetLanguages, TLAPS

-----------------------------------------------------------------------------
(* RoomSettings.                                                            *)

\* What the answers rest on. Neither part of a cache entry is older than the
\* entry and the query that filled it; neither part of a running query is older
\* than the query.
CurrentIsNow == /\ since.room[room] = 0
                /\ since.speakers[enrolled] = 0

QueryRecent == /\ query.at # "idle" => since.room[query.row] <= query.took
               /\ query.at = "speakers" => since.speakers[query.spk] <= query.took

CacheRecent == Fresh => /\ since.room[cache.row] <= cache.age + MaxQuery
                        /\ WantsSpeakers(cache.row)
                             => since.speakers[cache.spk] <= cache.age + MaxQuery

IInv == TypeOK /\ CurrentIsNow /\ QueryRecent /\ CacheRecent

\* Constants are what the definitions need.
LEMMA WindowNat == /\ Window \in Nat
                   /\ MaxQuery <= Window
                   /\ \A a \in 0..TTL : a < TTL => a + MaxQuery <= Window
  BY SettingsAssumption DEF Window

LEMMA RowFacts == /\ Absent \in Rows
                  /\ Nobody \in Enrolments
                  /\ \A m \in Modes : NewRoom(m) \in Rows
                  /\ \A row \in Rows \ {Absent}, m \in Modes, b \in BOOLEAN :
                       [row EXCEPT !.disc = m, !.locked = b] \in Rows
                  /\ \A row \in Rows \ {Absent}, b \in BOOLEAN : [row EXCEPT !.tts = b] \in Rows
                  /\ \A row \in Rows : row.locked \in BOOLEAN /\ row.tts \in BOOLEAN
                  /\ \A spk \in Enrolments, s \in Speakers, l \in Langs \cup {NoLang} :
                       [spk EXCEPT ![s] = l] \in Enrolments
  <1>1. Absent \in Rows
    BY DEF Rows
  <1>2. Nobody \in Enrolments
    BY DEF Nobody, Enrolments
  <1>3. \A m \in Modes : NewRoom(m) \in Rows
    BY DEF NewRoom, Rows
  <1>4. /\ \A row \in Rows \ {Absent}, m \in Modes, b \in BOOLEAN :
             [row EXCEPT !.disc = m, !.locked = b] \in Rows
        /\ \A row \in Rows \ {Absent}, b \in BOOLEAN : [row EXCEPT !.tts = b] \in Rows
    BY DEF Rows
  <1>5. \A row \in Rows : row.locked \in BOOLEAN /\ row.tts \in BOOLEAN
    <2> SUFFICES ASSUME NEW row \in Rows PROVE row.locked \in BOOLEAN /\ row.tts \in BOOLEAN
      OBVIOUS
    <2>1. CASE row = Absent
      BY <2>1 DEF Absent
    <2>2. CASE row \in [disc : Modes, locked : BOOLEAN, tts : BOOLEAN]
      BY <2>2
    <2> QED
      BY <2>1, <2>2 DEF Rows
  <1>6. \A spk \in Enrolments, s \in Speakers, l \in Langs \cup {NoLang} :
          [spk EXCEPT ![s] = l] \in Enrolments
    BY DEF Enrolments
  <1> QED
    BY <1>1, <1>2, <1>3, <1>4, <1>5, <1>6

\* A request of the owner replaces the row, the speakers, or both.
SomeChange == \E row \in Rows, spk \in Enrolments : Change(row, spk)

LEMMA OwnerIsChange ==
    ASSUME TypeOK, Owner
    PROVE  /\ SomeChange
           /\ archived' \in BOOLEAN
           /\ bus' \in 0..changes'
           /\ faults' \in 0..MaxFaults
  <1> USE SettingsAssumption
  <1>1. /\ room \in Rows /\ enrolled \in Enrolments
        /\ bus \in 0..changes /\ changes \in 0..MaxChanges /\ faults \in 0..MaxFaults
        /\ archived \in BOOLEAN
    BY DEF TypeOK
  <1>2. ASSUME NEW row \in Rows, NEW spk \in Enrolments, Change(row, spk)
        PROVE  /\ SomeChange
               /\ changes' = changes + 1
               /\ bus \in 0..changes' /\ bus + 1 \in 0..changes'
    <2>1. SomeChange
      BY <1>2, Zenon DEF SomeChange
    <2>2. changes' = changes + 1
      BY <1>2 DEF Change
    <2> QED
      BY <1>1, <2>1, <2>2
  <1>3. CASE CreateRoom
    BY <1>1, <1>2, <1>3, RowFacts DEF CreateRoom, Modes
  <1>4. CASE CreateMultiSpeakerRoom
    BY <1>1, <1>2, <1>4, RowFacts DEF CreateMultiSpeakerRoom, Modes
  <1>5. CASE DeleteRoom
    BY <1>1, <1>2, <1>5, RowFacts DEF DeleteRoom
  <1>6. ASSUME NEW spk \in Enrolments, SetSpeakers(spk)
        PROVE  /\ SomeChange /\ archived' \in BOOLEAN
               /\ bus' \in 0..changes' /\ faults' \in 0..MaxFaults
    BY <1>1, <1>2, <1>6 DEF SetSpeakers
  <1>7. CASE ReplaceSpeakers
    BY <1>6, <1>7 DEF ReplaceSpeakers
  <1>8. CASE UpdateSpeaker
    BY <1>1, <1>6, <1>8, RowFacts DEF UpdateSpeaker
  <1>9. CASE DeleteSpeaker
    BY <1>1, <1>6, <1>9, RowFacts DEF DeleteSpeaker
  <1>10. CASE SetDiscovery
    <2>1. PICK mode \in Modes :
            Change([room EXCEPT !.disc = mode, !.locked = LockFor(mode)], enrolled)
      BY <1>10 DEF SetDiscovery
    <2>2. LockFor(mode) \in BOOLEAN
      BY <1>1, RowFacts DEF LockFor
    <2>3. [room EXCEPT !.disc = mode, !.locked = LockFor(mode)] \in Rows
      BY <1>1, <1>10, <2>2, RowFacts DEF SetDiscovery
    <2>4. /\ SomeChange /\ bus \in 0..changes' /\ bus + 1 \in 0..changes'
      BY <1>1, <1>2, <2>1, <2>3
    <2> QED
      BY <1>1, <1>10, <2>4 DEF SetDiscovery
  <1>11. CASE SetTts
    <2>1. PICK on \in BOOLEAN : Change([room EXCEPT !.tts = on], enrolled)
      BY <1>11 DEF SetTts
    <2>2. [room EXCEPT !.tts = on] \in Rows
      BY <1>1, <1>11, RowFacts DEF SetTts
    <2> QED
      BY <1>1, <1>2, <1>11, <2>1, <2>2 DEF SetTts
  <1> QED
    BY <1>3, <1>4, <1>5, <1>7, <1>8, <1>9, <1>10, <1>11 DEF Owner

LEMMA OlderType ==
    ASSUME NEW V, NEW src \in [V -> 0..(Window + 1)], NEW now \in V, src[now] = 0
    PROVE  /\ Older(src, now) \in [V -> 0..(Window + 1)]
           /\ Older(src, now)[now] = 0
           /\ \A v \in V, n \in Nat : src[v] <= n => Older(src, now)[v] <= n + 1
           /\ Older(src, now) = [v \in V |-> IF v = now \/ src[v] = Window + 1
                                            THEN src[v] ELSE src[v] + 1]
  BY WindowNat DEF Older

LEMMA IdleTypes == NoEntry \in Entries /\ Idle \in Queries
  <1>1. TTL \in 0..TTL /\ 0 \in 0..MaxQuery
    BY SettingsAssumption
  <1>2. Absent \in Rows /\ Nobody \in Enrolments
    BY RowFacts
  <1>3. NoEntry \in Entries
    BY <1>1, <1>2 DEF NoEntry, Entries
  <1>4. Idle \in Queries
    BY <1>1, <1>2 DEF Idle, Queries
  <1> QED
    BY <1>3, <1>4

LEMMA InitInv == Init => IInv
  <1> SUFFICES ASSUME Init PROVE IInv
    OBVIOUS
  <1>1. TypeOK
    <2>1. /\ room \in Rows /\ enrolled \in Enrolments
          /\ cache \in Entries /\ query \in Queries
      BY IdleTypes, RowFacts DEF Init
    <2>2. /\ reader \in Readers /\ bus \in 0..changes
          /\ changes \in 0..MaxChanges /\ faults \in 0..MaxFaults
      BY SettingsAssumption DEF Init
    <2>5. archived \in BOOLEAN
      BY Zenon DEF Init
    <2>3. since \in [room : [Rows -> 0..(Window + 1)], speakers : [Enrolments -> 0..(Window + 1)]]
      BY WindowNat DEF Init
    <2>4. got \in [row : Rows \cup {NoAnswer.row}, spk : Enrolments \cup {NoAnswer.spk}]
      BY DEF Init, NoAnswer
    <2> QED
      BY <2>1, <2>2, <2>3, <2>4, <2>5 DEF TypeOK
  <1>2. CurrentIsNow
    BY RowFacts DEF Init, CurrentIsNow
  <1>3. QueryRecent
    BY DEF Init, QueryRecent, Idle
  <1>4. CacheRecent
    BY SettingsAssumption DEF Init, CacheRecent, Fresh, NoEntry
  <1> QED
    BY <1>1, <1>2, <1>3, <1>4 DEF IInv

Ages == 0..(Window + 1)

LEMMA TypeParts ==
    ASSUME TypeOK
    PROVE  /\ room \in Rows /\ enrolled \in Enrolments
           /\ since = [room |-> since.room, speakers |-> since.speakers]
           /\ since.room \in [Rows -> Ages] /\ since.speakers \in [Enrolments -> Ages]
           /\ cache \in Entries /\ cache.age \in 0..TTL
           /\ cache.row \in Rows /\ cache.spk \in Enrolments
           /\ query \in Queries /\ query.took \in 0..MaxQuery
           /\ query.at \in {"idle", "room", "speakers"}
           /\ query.row \in Rows /\ query.spk \in Enrolments
           /\ changes \in 0..MaxChanges /\ bus \in 0..changes /\ faults \in 0..MaxFaults
  BY DEF TypeOK, Ages, Entries, Queries

\* An answer is typed when the row and the speakers it is made from are.
LEMMA AnswerType ==
    ASSUME TypeOK, NEW row \in Rows, NEW spk \in Enrolments, Answer(row, spk)
    PROVE  got' \in [row : Rows \cup {NoAnswer.row}, spk : Enrolments \cup {NoAnswer.spk}]
  <1>1. got.spk \in Enrolments \cup {NoAnswer.spk}
    BY DEF TypeOK
  <1>2. (IF WantsSpeakers(row) THEN spk ELSE got.spk) \in Enrolments \cup {NoAnswer.spk}
    BY <1>1
  <1> QED
    BY <1>2 DEF Answer

LEMMA ChangeInv ==
    ASSUME IInv, Owner
    PROVE  IInv'
  <1> USE SettingsAssumption, WindowNat
  <1>1. TypeOK /\ CurrentIsNow /\ QueryRecent /\ CacheRecent
    BY DEF IInv
  <1>2. PICK row \in Rows, spk \in Enrolments : Change(row, spk)
    BY <1>1, OwnerIsChange DEF SomeChange
  <1>3. /\ room' = row /\ enrolled' = spk /\ changes' = changes + 1 /\ changes < MaxChanges
        /\ reader' = reader /\ cache' = cache /\ query' = query /\ got' = got
        /\ since'.room = [since.room EXCEPT ![room] = 0, ![row] = 0]
        /\ since'.speakers = [since.speakers EXCEPT ![enrolled] = 0, ![spk] = 0]
        /\ since' = [room |-> since'.room, speakers |-> since'.speakers]
    BY <1>2 DEF Change
  <1>4. /\ \A v \in Rows : since'.room[v] <= since.room[v]
        /\ \A v \in Enrolments : since'.speakers[v] <= since.speakers[v]
        /\ since'.room[row] = 0 /\ since'.speakers[spk] = 0
        /\ since'.room \in [Rows -> Ages] /\ since'.speakers \in [Enrolments -> Ages]
    BY <1>1, <1>3, TypeParts DEF Ages
  <1>5. TypeOK'
    <2>1. since' \in [room : [Rows -> Ages], speakers : [Enrolments -> Ages]]
      BY <1>3, <1>4
    <2>2. archived' \in BOOLEAN /\ bus' \in 0..changes' /\ faults' \in 0..MaxFaults
      BY <1>1, OwnerIsChange
    <2>3. changes' \in 0..MaxChanges
      BY <1>1, <1>3, TypeParts
    <2>4. /\ reader' \in Readers /\ cache' \in Entries /\ query' \in Queries
          /\ got' \in [row : Rows \cup {NoAnswer.row}, spk : Enrolments \cup {NoAnswer.spk}]
      BY <1>1, <1>3 DEF TypeOK
    <2> QED
      BY <1>3, <2>1, <2>2, <2>3, <2>4 DEF TypeOK, Ages
  <1>6. CurrentIsNow'
    BY <1>3, <1>4 DEF CurrentIsNow
  <1>7. QueryRecent'
    BY <1>1, <1>3, <1>4, TypeParts DEF QueryRecent, Ages
  <1>8. CacheRecent'
    <2>1. Fresh' <=> Fresh
      BY <1>3 DEF Fresh
    <2>2. WantsSpeakers(cache.row)' <=> WantsSpeakers(cache.row)
      BY <1>3 DEF WantsSpeakers
    <2> QED
      BY <1>1, <1>3, <1>4, <2>1, <2>2, TypeParts DEF CacheRecent, Ages
  <1> QED
    BY <1>5, <1>6, <1>7, <1>8 DEF IInv

LEMMA TickInv ==
    ASSUME IInv, Tick
    PROVE  IInv'
  <1> USE SettingsAssumption, WindowNat
  <1>1. TypeOK /\ CurrentIsNow /\ QueryRecent /\ CacheRecent
    BY DEF IInv
  <1>2. /\ since'.room = Older(since.room, room)
        /\ since'.speakers = Older(since.speakers, enrolled)
        /\ since' = [room |-> since'.room, speakers |-> since'.speakers]
        /\ room' = room /\ enrolled' = enrolled /\ reader' = reader
    BY DEF Tick, data
  <1>3. /\ since'.room \in [Rows -> Ages] /\ since'.speakers \in [Enrolments -> Ages]
        /\ since'.room[room] = 0 /\ since'.speakers[enrolled] = 0
        /\ \A v \in Rows, n \in Nat : since.room[v] <= n => since'.room[v] <= n + 1
        /\ \A v \in Enrolments, n \in Nat : since.speakers[v] <= n => since'.speakers[v] <= n + 1
    BY <1>1, <1>2, TypeParts, OlderType DEF CurrentIsNow, Ages
  <1>4. \/ query.at = "idle" /\ query' = query
        \/ query.at # "idle" /\ query.took < MaxQuery /\ query' = [query EXCEPT !.took = query.took + 1]
    BY DEF Tick
  <1>5. query' \in Queries
    BY <1>1, <1>4, TypeParts DEF Queries
  <1>6. cache' \in Entries
    BY <1>1, TypeParts, IdleTypes DEF Tick, Aged, Entries
  <1>7. TypeOK'
    <2>1. since' \in [room : [Rows -> Ages], speakers : [Enrolments -> Ages]]
      BY <1>2, <1>3
    <2>2. /\ room' \in Rows /\ enrolled' \in Enrolments /\ bus' \in 0..changes'
          /\ reader' \in Readers /\ changes' \in 0..MaxChanges /\ faults' \in 0..MaxFaults
      BY <1>1 DEF TypeOK, Tick, data
    <2>3. archived' \in BOOLEAN
      BY <1>1, Zenon DEF TypeOK, Tick, data
    <2>4. got' \in [row : Rows \cup {NoAnswer.row}, spk : Enrolments \cup {NoAnswer.spk}]
      BY DEF Tick, NoAnswer
    <2> QED
      BY <1>5, <1>6, <2>1, <2>2, <2>3, <2>4 DEF TypeOK, Ages
  <1>8. CurrentIsNow'
    BY <1>2, <1>3 DEF CurrentIsNow
  <1>9. QueryRecent'
    <2>1. CASE query.at = "idle"
      BY <1>4, <2>1 DEF QueryRecent
    <2>2. CASE query.at # "idle"
      <3>1. /\ query'.at = query.at /\ query'.row = query.row /\ query'.spk = query.spk
            /\ query'.took = query.took + 1
        BY <1>1, <1>4, <2>2, TypeParts DEF Queries
      <3> QED
        BY <1>1, <1>3, <2>2, <3>1, TypeParts DEF QueryRecent
    <2> QED
      BY <2>1, <2>2
  <1>10. CacheRecent'
    <2> SUFFICES ASSUME Fresh'
                 PROVE  CacheRecent'
      BY DEF CacheRecent
    <2>1. /\ cache.age + 1 < TTL /\ cache' = [cache EXCEPT !.age = cache.age + 1]
      BY DEF Tick, Aged, Fresh, NoEntry
    <2>2. cache'.row = cache.row /\ cache'.spk = cache.spk /\ cache'.age = cache.age + 1 /\ Fresh
      BY <1>1, <2>1, TypeParts DEF Entries, Fresh
    <2>3. WantsSpeakers(cache.row)' <=> WantsSpeakers(cache.row)
      BY <1>2, <2>2 DEF WantsSpeakers
    <2>4. cache.age + MaxQuery \in Nat
      BY <1>1, TypeParts
    <2> QED
      BY <1>1, <1>3, <2>2, <2>3, <2>4, TypeParts DEF CacheRecent
  <1> QED
    BY <1>7, <1>8, <1>9, <1>10 DEF IInv

\* What a step of a look-up leaves alone, and what follows from it.
LookupFrame == /\ UNCHANGED <<data, reader, since, changes>>
               /\ cache' \in Entries /\ query' \in Queries
               /\ bus' \in 0..changes /\ faults' \in 0..MaxFaults
               /\ got' \in [row : Rows \cup {NoAnswer.row}, spk : Enrolments \cup {NoAnswer.spk}]

LEMMA FrameInv ==
    ASSUME IInv, LookupFrame
    PROVE  /\ TypeOK' /\ CurrentIsNow'
           /\ query' = query => QueryRecent'
           /\ cache' = cache => CacheRecent'
  <1>1. TypeOK /\ CurrentIsNow /\ QueryRecent /\ CacheRecent
    BY DEF IInv
  <1>2. /\ room' = room /\ enrolled' = enrolled /\ archived' = archived
        /\ reader' = reader /\ since' = since /\ changes' = changes
    BY DEF LookupFrame, data
  <1>3. archived' \in BOOLEAN
    BY <1>1, <1>2, Zenon DEF TypeOK
  <1>4. TypeOK'
    BY <1>1, <1>2, <1>3 DEF TypeOK, LookupFrame
  <1>5. CurrentIsNow'
    BY <1>1, <1>2 DEF CurrentIsNow
  <1>6. query' = query => QueryRecent'
    BY <1>1, <1>2 DEF QueryRecent
  <1>7. cache' = cache => CacheRecent'
    BY <1>1, <1>2 DEF CacheRecent, Fresh, WantsSpeakers
  <1> QED
    BY <1>4, <1>5, <1>6, <1>7

LEMMA LookupInv ==
    ASSUME IInv, DeliverNotice \/ Lookup
    PROVE  IInv'
  <1> USE SettingsAssumption, WindowNat
  <1>1. TypeOK /\ CurrentIsNow /\ QueryRecent /\ CacheRecent
    BY DEF IInv
  <1>2. /\ got \in [row : Rows \cup {NoAnswer.row}, spk : Enrolments \cup {NoAnswer.spk}]
        /\ bus \in 0..changes /\ faults \in 0..MaxFaults
        /\ query \in Queries /\ cache \in Entries /\ bus \in Nat /\ changes \in Nat
    BY <1>1 DEF TypeOK
  <1>3. CASE DeliverNotice
    <2>1. LookupFrame /\ query' = query /\ cache' = cache
      BY <1>2, <1>3 DEF LookupFrame, DeliverNotice, data
    <2> QED
      BY <2>1, FrameInv DEF IInv
  <1>4. CASE Hit
    <2>1. got' \in [row : Rows \cup {NoAnswer.row}, spk : Enrolments \cup {NoAnswer.spk}]
      BY <1>1, <1>4, TypeParts, AnswerType DEF Hit
    <2>2. LookupFrame /\ query' = query /\ cache' = cache
      BY <1>2, <1>4, <2>1 DEF LookupFrame, Hit
    <2> QED
      BY <2>2, FrameInv DEF IInv
  <1>5. CASE ReadRoom
    <2>0. query' = [Idle EXCEPT !.at = "room", !.row = room] /\ since' = since
      BY <1>5 DEF ReadRoom
    <2>1. query' = [at |-> "room", row |-> room, spk |-> Nobody, took |-> 0]
      BY <2>0 DEF Idle
    <2>2. query' \in Queries
      <3>0. 0 \in 0..MaxQuery
        BY SettingsAssumption
      <3>2. room \in Rows /\ Nobody \in Enrolments
        BY <1>1, RowFacts DEF TypeOK
      <3>1. room \in Rows /\ Nobody \in Enrolments /\ 0 \in 0..MaxQuery
        BY <3>0, <3>2
      <3> QED
        BY <2>1, <3>1 DEF Queries
    <2>3. LookupFrame /\ cache' = cache
      BY <1>2, <1>5, <2>2 DEF LookupFrame, ReadRoom
    <2>4. QueryRecent'
      <3>1. query'.at = "room" /\ query'.row = room /\ query'.took = 0 /\ since.room[room] = 0
        BY <1>1, <2>1 DEF CurrentIsNow
      <3> QED
        BY <2>0, <3>1 DEF QueryRecent
    <2> QED
      BY <2>3, <2>4, FrameInv DEF IInv
  <1>6. CASE ReadSpeakers
    <2>1. query' = [at |-> "speakers", row |-> query.row, spk |-> enrolled, took |-> query.took]
      BY <1>2, <1>6 DEF ReadSpeakers, Queries
    <2>2. query' \in Queries
      BY <1>1, <2>1, TypeParts DEF Queries
    <2>3. LookupFrame /\ cache' = cache
      BY <1>2, <1>6, <2>2 DEF LookupFrame, ReadSpeakers
    <2>4. QueryRecent'
      BY <1>1, <1>6, <2>1, TypeParts DEF QueryRecent, CurrentIsNow, ReadSpeakers
    <2> QED
      BY <2>3, <2>4, FrameInv DEF IInv
  <1>7. CASE Fill
    <2>1. Complete /\ (cache' = cache \/ cache' = Kept) /\ query' = Idle
          /\ Answer(query.row, query.spk)
      BY <1>7 DEF Fill, SttKeeps, MtKeeps, TtsKeeps
    <2>2. Kept \in Entries
      BY <1>1, TypeParts DEF Kept, Entries
    <2>3. LookupFrame
      BY <1>1, <1>2, <1>7, <2>1, <2>2, IdleTypes, TypeParts, AnswerType DEF LookupFrame, Fill
    <2>4. QueryRecent'
      BY <2>1 DEF QueryRecent, Idle
    <2>5. CASE cache' = Kept
      <3>1. /\ cache'.row = query.row /\ cache'.spk = query.spk /\ cache'.age = 0
        BY <2>5 DEF Kept
      <3>2. since' = since /\ reader' = reader
        BY <1>7 DEF Fill
      <3>3. query.at # "idle" /\ (WantsSpeakers(query.row) => query.at = "speakers")
        BY <2>1 DEF Complete
      <3>4. WantsSpeakers(cache.row)' <=> WantsSpeakers(query.row)
        BY <3>1, <3>2 DEF WantsSpeakers
      <3>5. since.room[query.row] <= MaxQuery
        BY <1>1, <3>3, TypeParts DEF QueryRecent, Ages
      <3>6. WantsSpeakers(query.row) => since.speakers[query.spk] <= MaxQuery
        BY <1>1, <3>3, TypeParts DEF QueryRecent, Ages
      <3> QED
        BY <2>3, <2>4, <3>1, <3>2, <3>4, <3>5, <3>6, FrameInv DEF IInv, CacheRecent
    <2> QED
      BY <2>1, <2>3, <2>4, <2>5, FrameInv DEF IInv
  <1>8. CASE LookupFails
    <2>1. LookupFrame /\ cache' = cache /\ query' = Idle
      BY <1>2, <1>8, IdleTypes DEF LookupFrame, LookupFails
    <2>2. QueryRecent'
      BY <2>1 DEF QueryRecent, Idle
    <2> QED
      BY <2>1, <2>2, FrameInv DEF IInv
  <1> QED
    BY <1>3, <1>4, <1>5, <1>6, <1>7, <1>8 DEF Lookup, Answering

LEMMA StepInv == IInv /\ [Next]_vars => IInv'
  <1> SUFFICES ASSUME IInv, [Next]_vars PROVE IInv'
    OBVIOUS
  <1>1. CASE UNCHANGED vars
    <2>1. TypeOK'
      <3>1. TypeOK /\ UNCHANGED vars
        BY <1>1 DEF IInv
      <3> QED
        BY <3>1, Zenon DEF TypeOK, vars, data
    <2>2. /\ room' = room /\ enrolled' = enrolled /\ reader' = reader
          /\ since' = since /\ cache' = cache /\ query' = query
      BY <1>1 DEF vars, data
    <2> QED
      BY <2>1, <2>2 DEF IInv, CurrentIsNow, QueryRecent, CacheRecent, Fresh, WantsSpeakers
  <1> QED
    BY <1>1, ChangeInv, TickInv, LookupInv DEF Next

LEMMA Invariance == Spec => []IInv
  BY InitInv, StepInv, PTL DEF Spec

\* Whatever the owner and the routers do, and in whatever order, every variable
\* keeps its type; in particular there is a notice for a change at most.
THEOREM TypeCorrect == Spec => []TypeOK
  <1>1. IInv => TypeOK
    BY DEF IInv
  <1> QED
    BY <1>1, Invariance, PTL

\* The row the routers see is never older than a lifetime and a query: every
\* step of the look-ups, the owner and the clock is a step of StaleRegister.
THEOREM RoomReadsBoundedStaleThm == Spec => RoomReadsBoundedStale
  <1>1. Init => RoomRegister!Init
    <2> SUFFICES ASSUME Init PROVE RoomRegister!Init
      OBVIOUS
    <2>1. room \in Rows /\ got.row = NoAnswer.row
      BY RowFacts DEF Init
    <2>2. since.room = [v \in Rows |-> IF v = room THEN 0 ELSE Window + 1]
      BY DEF Init
    <2> QED
      BY <2>1, <2>2 DEF RoomRegister!Init
  <1>2. ASSUME IInv, [Next]_vars
        PROVE  [RoomRegister!Next]_(RoomRegister!vars)
    <2>0. TypeOK /\ CurrentIsNow /\ QueryRecent /\ CacheRecent
      BY <1>2 DEF IInv
    <2>1. CASE Owner
      <3>1. PICK row \in Rows, spk \in Enrolments : Change(row, spk)
        BY <2>0, <2>1, OwnerIsChange DEF SomeChange
      <3>2. RoomRegister!Write(row)
        BY <3>1 DEF Change, RoomRegister!Write
      <3> QED
        BY <3>2 DEF RoomRegister!Next
    <2>2. CASE Tick
      <3>1. /\ since'.room = Older(since.room, room) /\ room' = room /\ got' = NoAnswer
        BY <2>2 DEF Tick, data
      <3>2. RoomRegister!Tick
        BY <2>0, <3>1, TypeParts, OlderType DEF RoomRegister!Tick, CurrentIsNow, Ages
      <3> QED
        BY <3>2 DEF RoomRegister!Next
    <2>3. CASE Hit
      <3>1. got'.row = cache.row /\ room' = room /\ since' = since /\ Fresh
        BY <2>3 DEF Hit, Answer, data
      <3>2. since.room[cache.row] <= Window
        BY <2>0, <3>1, TypeParts, WindowNat, SettingsAssumption DEF CacheRecent, Fresh, Ages
      <3>3. RoomRegister!Read(cache.row)
        BY <3>1, <3>2 DEF RoomRegister!Read
      <3> QED
        BY <2>0, <3>3, TypeParts DEF RoomRegister!Next
    <2>4. CASE Fill
      <3>1. got'.row = query.row /\ room' = room /\ since' = since /\ query.at # "idle"
        BY <2>4 DEF Fill, Answer, data, Complete
      <3>2. since.room[query.row] <= Window
        BY <2>0, <3>1, TypeParts, WindowNat, SettingsAssumption DEF QueryRecent, Ages
      <3>3. RoomRegister!Read(query.row)
        BY <3>1, <3>2 DEF RoomRegister!Read
      <3> QED
        BY <2>0, <3>3, TypeParts DEF RoomRegister!Next
    <2>5. CASE DeliverNotice \/ ReadRoom \/ ReadSpeakers \/ LookupFails \/ UNCHANGED vars
      <3>1. room' = room /\ since' = since /\ got' = got
        BY <2>5 DEF DeliverNotice, ReadRoom, ReadSpeakers, LookupFails, vars, data
      <3> QED
        BY <3>1 DEF RoomRegister!vars
    <2> QED
      BY <1>2, <2>1, <2>2, <2>3, <2>4, <2>5 DEF Next, Lookup, Answering
  <1> QED
    BY <1>1, <1>2, Invariance, PTL DEF Spec, RoomReadsBoundedStale, RoomRegister!Spec

\* The same of the speakers: a router that maps voices to speakers maps them to
\* an enrolment of the last lifetime and query, although they are kept with a
\* row that was read earlier.
THEOREM SpeakerReadsBoundedStaleThm == Spec => SpeakerReadsBoundedStale
  <1>1. Init => SpeakersRegister!Init
    <2> SUFFICES ASSUME Init PROVE SpeakersRegister!Init
      OBVIOUS
    <2>1. enrolled \in Enrolments /\ got.spk = NoAnswer.spk
      BY RowFacts DEF Init
    <2>2. since.speakers = [v \in Enrolments |-> IF v = enrolled THEN 0 ELSE Window + 1]
      BY DEF Init
    <2> QED
      BY <2>1, <2>2 DEF SpeakersRegister!Init
  <1>2. ASSUME IInv, [Next]_vars
        PROVE  [SpeakersRegister!Next]_(SpeakersRegister!vars)
    <2>0. TypeOK /\ CurrentIsNow /\ QueryRecent /\ CacheRecent
      BY <1>2 DEF IInv
    <2>1. CASE Owner
      <3>1. PICK row \in Rows, spk \in Enrolments : Change(row, spk)
        BY <2>0, <2>1, OwnerIsChange DEF SomeChange
      <3>2. SpeakersRegister!Write(spk)
        BY <3>1 DEF Change, SpeakersRegister!Write
      <3> QED
        BY <3>2 DEF SpeakersRegister!Next
    <2>2. CASE Tick
      <3>1. /\ since'.speakers = Older(since.speakers, enrolled)
            /\ enrolled' = enrolled /\ got' = NoAnswer
        BY <2>2 DEF Tick, data
      <3>2. SpeakersRegister!Tick
        BY <2>0, <3>1, TypeParts, OlderType DEF SpeakersRegister!Tick, CurrentIsNow, Ages
      <3> QED
        BY <3>2 DEF SpeakersRegister!Next
    <2>3. CASE Hit
      <3>1. enrolled' = enrolled /\ since' = since /\ Fresh
        BY <2>3 DEF Hit, data
      <3>2. CASE WantsSpeakers(cache.row)
        <4>1. got'.spk = cache.spk
          BY <2>3, <3>2 DEF Hit, Answer
        <4>2. since.speakers[cache.spk] <= Window
          BY <2>0, <3>1, <3>2, TypeParts, WindowNat, SettingsAssumption
             DEF CacheRecent, Fresh, Ages
        <4>3. SpeakersRegister!Read(cache.spk)
          BY <3>1, <4>1, <4>2 DEF SpeakersRegister!Read
        <4> QED
          BY <2>0, <4>3, TypeParts DEF SpeakersRegister!Next
      <3>3. CASE ~WantsSpeakers(cache.row)
        BY <2>3, <3>1, <3>3 DEF Hit, Answer, SpeakersRegister!vars
      <3> QED
        BY <3>2, <3>3
    <2>4. CASE Fill
      <3>1. enrolled' = enrolled /\ since' = since
        BY <2>4 DEF Fill, data
      <3>2. CASE WantsSpeakers(query.row)
        <4>1. got'.spk = query.spk /\ query.at = "speakers"
          BY <2>4, <3>2 DEF Fill, Answer, Complete
        <4>2. since.speakers[query.spk] <= Window
          BY <2>0, <4>1, TypeParts, WindowNat, SettingsAssumption DEF QueryRecent, Ages
        <4>3. SpeakersRegister!Read(query.spk)
          BY <3>1, <4>1, <4>2 DEF SpeakersRegister!Read
        <4> QED
          BY <2>0, <4>3, TypeParts DEF SpeakersRegister!Next
      <3>3. CASE ~WantsSpeakers(query.row)
        BY <2>4, <3>1, <3>3 DEF Fill, Answer, SpeakersRegister!vars
      <3> QED
        BY <3>2, <3>3
    <2>5. CASE DeliverNotice \/ ReadRoom \/ ReadSpeakers \/ LookupFails \/ UNCHANGED vars
      <3>1. enrolled' = enrolled /\ since' = since /\ got' = got
        BY <2>5 DEF DeliverNotice, ReadRoom, ReadSpeakers, LookupFails, vars, data
      <3> QED
        BY <3>1 DEF SpeakersRegister!vars
    <2> QED
      BY <1>2, <2>1, <2>2, <2>3, <2>4, <2>5 DEF Next, Lookup, Answering
  <1> QED
    BY <1>1, <1>2, Invariance, PTL DEF Spec, SpeakerReadsBoundedStale, SpeakersRegister!Spec
-----------------------------------------------------------------------------
(* TargetLanguages.                                                         *)

\* A handler at work has a user, and reads keys only while it scans.
Tidy == \A s \in Sockets :
          /\ pc[s] \in {"register", "idle"} => s \in conn
          /\ s \in conn \/ pc[s] = "leave" => user[s] \in Users
          /\ pc[s] = "leave" => s \notin conn
          /\ pc[s] # "scan" => todo[s] = {}

\* Sockets whose key is theirs, and was so before anybody read it.
Settled(s) == s \in conn /\ pc[s] \in {"scan", "add", "idle"} /\ s \notin excused

SettledHasKey == \A s \in Sockets : Settled(s) => user[s] \in Users /\ key[user[s]] = lang[s]

\* Whoever writes the set next has read the key or will read it.
SettledIsRead == \A s, t \in Sockets :
    Settled(s) /\ pc[t] \in Collecting => user[s] \in todo[t] \/ lang[s] \in found[t]

SettledIsTarget == \A s \in Sockets :
    Settled(s) /\ pc[s] = "idle" =>
        gone \/ lang[s] \in targets \/ \E t \in Sockets : pc[t] = "add"

TLInv == TLTypeOK /\ Tidy /\ SettledHasKey /\ SettledIsRead /\ SettledIsTarget

LEMMA TLInitInv == TLInit => TLInv
  <1> SUFFICES ASSUME TLInit PROVE TLInv
    OBVIOUS
  <1>1. relay \in [at : {"idle", "add", "dead"}, langs : SUBSET Languages]
    BY DEF TLInit
  <1>2. /\ user \in [Sockets -> Users \cup {None}] /\ conn \subseteq Sockets
        /\ lang \in [Sockets -> Languages] /\ key \in [Users -> Languages \cup {None}]
        /\ targets \subseteq Languages /\ excused \subseteq Sockets /\ gone \in BOOLEAN
        /\ moves \in 0..MaxMoves /\ events \in 0..MaxEvents
    <2> USE TargetAssumption DEF TLInit
    <2>1. moves \in 0..MaxMoves /\ events \in 0..MaxEvents
      OBVIOUS
    <2>2. user \in [Sockets -> Users \cup {None}] /\ lang \in [Sockets -> Languages]
      OBVIOUS
    <2>3. key \in [Users -> Languages \cup {None}]
      OBVIOUS
    <2> QED
      BY <2>1, <2>2, <2>3
  <1>3. /\ pc \in [Sockets -> {"off", "register", "idle", "leave"} \cup Collecting]
        /\ todo \in [Sockets -> SUBSET Users]
        /\ found \in [Sockets -> SUBSET Languages]
    BY DEF TLInit
  <1>4. Tidy
    BY DEF TLInit, Tidy
  <1>5. SettledHasKey /\ SettledIsRead /\ SettledIsTarget
    BY DEF TLInit, Settled, SettledHasKey, SettledIsRead, SettledIsTarget
  <1> QED
    BY <1>1, <1>2, <1>3, <1>4, <1>5 DEF TLInv, TLTypeOK

LEMMA TLTypeStep == ASSUME TLTypeOK, Tidy, [TLNext]_tlvars PROVE TLTypeOK'
  <1> USE TargetAssumption DEF TLTypeOK
  <1>1. ASSUME NEW s \in Sockets, NEW u \in Users, NEW l \in Languages, Connect(s, u, l)
        PROVE  TLTypeOK'
    BY <1>1 DEF Connect, Goto
  <1>2. ASSUME NEW s \in Sockets, NEW l \in Languages, SetLanguage(s, l)
        PROVE  TLTypeOK'
    BY <1>2 DEF SetLanguage, Goto
  <1>3. ASSUME NEW s \in Sockets, Register(s)
        PROVE  TLTypeOK'
    BY <1>3 DEF Register, WriteKey, StartScan, Goto, Collecting, Others, Tidy
  <1>4. ASSUME NEW s \in Sockets, NEW u \in Users, Visit(s, u)
        PROVE  TLTypeOK'
    BY <1>4 DEF Visit, ReadKey
  <1>5. ASSUME NEW s \in Sockets, Drop(s)
        PROVE  TLTypeOK'
    BY <1>5 DEF Drop, Rest, Goto, Collecting
  <1>6. ASSUME NEW s \in Sockets, Add(s)
        PROVE  TLTypeOK'
    BY <1>6 DEF Add, Rest, Goto
  <1>7. ASSUME NEW s \in Sockets, Disconnect(s)
        PROVE  TLTypeOK'
    BY <1>7 DEF Disconnect, Goto
  <1>8. ASSUME NEW s \in Sockets, Leave(s)
        PROVE  TLTypeOK'
    BY <1>8 DEF Leave, WriteKey, StartScan, Goto, Collecting, Others
  <1>9. ASSUME NEW s \in Sockets, HandlerDies(s)
        PROVE  TLTypeOK'
    BY <1>9 DEF HandlerDies, Event, Goto
  <1>10. ASSUME Restart
         PROVE  TLTypeOK'
    BY <1>10 DEF Restart, Event
  <1>11. ASSUME NEW u \in Users, StatusPoll(u) \/ KeyExpires(u)
         PROVE  TLTypeOK'
    BY <1>11 DEF StatusPoll, KeyExpires, Event, WriteKey, Others, handlers
  <1>12. ASSUME TargetsExpire \/ RelayReads \/ RelayAdds \/ RelayDies
         PROVE  TLTypeOK'
    <2>1. CASE TargetsExpire
      BY <2>1 DEF TargetsExpire, Event, handlers
    <2>2. CASE RelayReads
      BY <2>2 DEF RelayReads, SocketLanguages, handlers
    <2>3. CASE RelayAdds
      BY <2>3 DEF RelayAdds, Added, handlers
    <2>4. CASE RelayDies
      BY <2>4 DEF RelayDies, Event, handlers
    <2> QED
      BY <1>12, <2>1, <2>2, <2>3, <2>4
  <1>13. CASE UNCHANGED tlvars
    BY <1>13 DEF tlvars, handlers
  <1> QED
    BY ONLY [TLNext]_tlvars, <1>1, <1>2, <1>3, <1>4, <1>5, <1>6, <1>7, <1>8, <1>9, <1>10, <1>11, <1>12,
            <1>13, Zenon
    DEF TLNext, Clients, Relaying, Mishaps, Handling

LEMMA TLInvStep ==
    ASSUME TLInv, [TLNext]_tlvars
    PROVE  Tidy' /\ SettledHasKey' /\ SettledIsRead' /\ SettledIsTarget'
  <1> DEFINE Rest4 == Tidy' /\ SettledHasKey' /\ SettledIsRead' /\ SettledIsTarget'
  <1> USE TargetAssumption
      DEF TLInv, TLTypeOK, Tidy, Settled, SettledHasKey, SettledIsRead, SettledIsTarget, Collecting
  <1>1. ASSUME NEW s \in Sockets, NEW u \in Users, NEW l \in Languages, Connect(s, u, l)
        PROVE  Rest4
    BY <1>1 DEF Connect, Goto
  <1>2. ASSUME NEW s \in Sockets, NEW l \in Languages, SetLanguage(s, l)
        PROVE  Rest4
    BY <1>2 DEF SetLanguage, Goto
  <1>3. ASSUME NEW s \in Sockets, Register(s)
        PROVE  Rest4
    <2> USE <1>3 DEF Register, WriteKey, StartScan, Goto, Others, ReadEarly
    <2>1. Tidy'
      OBVIOUS
    <2>2. SettledHasKey'
      OBVIOUS
    <2>3. SettledIsRead'
      OBVIOUS
    <2>4. SettledIsTarget'
      OBVIOUS
    <2> QED
      BY <2>1, <2>2, <2>3, <2>4
  <1>4. ASSUME NEW s \in Sockets, NEW u \in Users, Visit(s, u)
        PROVE  Rest4
    <2> USE <1>4 DEF Visit, ReadKey
    <2>1. Tidy' /\ SettledHasKey' /\ SettledIsTarget'
      OBVIOUS
    <2>2. SettledIsRead'
      OBVIOUS
    <2> QED
      BY <2>1, <2>2
  <1>5. ASSUME NEW s \in Sockets, Drop(s)
        PROVE  Rest4
    <2> USE <1>5 DEF Drop, Rest, Goto
    <2>0. /\ \A t \in Sockets : t # s => pc'[t] = pc[t] /\ found'[t] = found[t]
          /\ pc'[s] \in {"idle", "off", "add"}
          /\ pc'[s] = "idle" => s \in conn
      OBVIOUS
    <2>1. Tidy'
      BY <2>0
    <2>4. SettledHasKey'
      BY <2>0
    <2>2. SettledIsRead'
      OBVIOUS
    <2>3. SettledIsTarget'
      OBVIOUS
    <2> QED
      BY <2>1, <2>2, <2>3, <2>4
  <1>6. ASSUME NEW s \in Sockets, Add(s)
        PROVE  Rest4
    <2> USE <1>6 DEF Add, Rest, Goto
    <2>0. /\ \A t \in Sockets : t # s => pc'[t] = pc[t] /\ found'[t] = found[t]
          /\ pc'[s] \in {"idle", "off", "add"}
          /\ pc'[s] = "idle" => s \in conn
      OBVIOUS
    <2>1. Tidy'
      BY <2>0
    <2>4. SettledHasKey'
      BY <2>0
    <2>2. SettledIsRead'
      OBVIOUS
    <2>3. SettledIsTarget'
      OBVIOUS
    <2> QED
      BY <2>1, <2>2, <2>3, <2>4
  <1>7. ASSUME NEW s \in Sockets, Disconnect(s)
        PROVE  Rest4
    <2> USE <1>7 DEF Disconnect, Goto
    <2>1. Tidy'
      OBVIOUS
    <2>2. SettledHasKey'
      OBVIOUS
    <2>3. SettledIsRead'
      OBVIOUS
    <2>4. SettledIsTarget'
      OBVIOUS
    <2> QED
      BY <2>1, <2>2, <2>3, <2>4
  <1>8. ASSUME NEW s \in Sockets, Leave(s)
        PROVE  Rest4
    <2> USE <1>8 DEF Leave, WriteKey, StartScan, Goto, Others
    <2>1. Tidy'
      OBVIOUS
    <2>2. SettledHasKey'
      OBVIOUS
    <2>3. SettledIsRead'
      OBVIOUS
    <2>4. SettledIsTarget'
      OBVIOUS
    <2> QED
      BY <2>1, <2>2, <2>3, <2>4
  <1>9. ASSUME NEW s \in Sockets, HandlerDies(s)
        PROVE  Rest4
    <2> USE <1>9 DEF HandlerDies, Event, Goto
    <2>1. Tidy'
      OBVIOUS
    <2>2. SettledHasKey'
      OBVIOUS
    <2>3. SettledIsRead'
      OBVIOUS
    <2>4. SettledIsTarget'
      OBVIOUS
    <2> QED
      BY <2>1, <2>2, <2>3, <2>4
  <1>10. ASSUME Restart
         PROVE  Rest4
    <2> USE <1>10 DEF Restart, Event
    <2>1. Tidy'
      OBVIOUS
    <2>2. SettledHasKey'
      OBVIOUS
    <2>3. SettledIsRead'
      OBVIOUS
    <2>4. SettledIsTarget'
      OBVIOUS
    <2> QED
      BY <2>1, <2>2, <2>3, <2>4
  <1>11. ASSUME NEW u \in Users, StatusPoll(u) \/ KeyExpires(u)
         PROVE  Rest4
    BY <1>11 DEF StatusPoll, KeyExpires, Event, WriteKey, Others, handlers
  <1>12. ASSUME TargetsExpire \/ RelayReads \/ RelayAdds \/ RelayDies
         PROVE  Rest4
    <2>1. CASE TargetsExpire
      BY <2>1 DEF TargetsExpire, Event, handlers
    <2>2. CASE RelayReads
      BY <2>2 DEF RelayReads, SocketLanguages, handlers
    <2>3. CASE RelayAdds
      BY <2>3 DEF RelayAdds, Added, handlers
    <2>4. CASE RelayDies
      BY <2>4 DEF RelayDies, Event, handlers
    <2> QED
      BY <1>12, <2>1, <2>2, <2>3, <2>4
  <1>13. CASE UNCHANGED tlvars
    BY <1>13 DEF tlvars, handlers
  <1> QED
    BY ONLY [TLNext]_tlvars, <1>1, <1>2, <1>3, <1>4, <1>5, <1>6, <1>7, <1>8, <1>9, <1>10, <1>11, <1>12,
            <1>13, Zenon
    DEF TLNext, Clients, Relaying, Mishaps, Handling

\* The types of the variables of TargetLanguages.
THEOREM TLTypeCorrect == TLSpec => []TLTypeOK
  <1>1. TLInit => TLInv
    BY TLInitInv
  <1>2. TLInv /\ [TLNext]_tlvars => TLInv'
    BY TLTypeStep, TLInvStep DEF TLInv
  <1>3. TLInv => TLTypeOK
    BY DEF TLInv
  <1> QED
    BY <1>1, <1>2, <1>3, PTL DEF TLSpec

\* Whatever the handlers, the relay and the polls do: a listener whose key was
\* not lost, overwritten or read too early is among the target languages, unless
\* the set was lost or is being written.
THEOREM MissingHasACauseThm == TLSpec => []MissingHasACause
  <1>1. TLInit => TLInv
    BY TLInitInv
  <1>2. TLInv /\ [TLNext]_tlvars => TLInv'
    BY TLTypeStep, TLInvStep DEF TLInv
  <1>3. TLInv => MissingHasACause
    BY DEF TLInv, TLTypeOK, SettledIsTarget, Settled, MissingHasACause, Served
  <1> QED
    BY <1>1, <1>2, <1>3, PTL DEF TLSpec
=============================================================================
