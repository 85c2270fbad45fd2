------------------------ MODULE ProviderRoutingProof ------------------------
(***************************************************************************)
(* Proofs about ProviderRouting: what the routers keep of the rules, and   *)
(* what the table of health says, for all rules, lifetimes and bounds.     *)
(***************************************************************************)
EXTENDS ProviderRouting, TLAPS

\* The ages are exact for the rules and the health of this moment.
RowsNow ==
    /\ \A k \in Keys : since[k][rules[k]] = 0
    /\ \A p \in Providers : Down(p) => downAge[p] = 0

\* What a message in work has read was so since the work on it began.
QueryLag ==
    /\ query.at \in {"rule", "health"} =>
         /\ service # "mt"
         /\ query.key \in Asked
         /\ query.try <= Len(Tries(query.key))
         /\ query.try = 2 => since[query.key][Off] <= query.took
    /\ query.at = "health" =>
         /\ query.rule \in Rules
         /\ since[Tries(query.key)[query.try]][query.rule] <= query.took
    /\ query.at = "loaded" =>
         /\ service = "mt"
         /\ \A t \in Keys : since[t][query.seen[t]] <= query.took

\* An entry lags behind the rules by its age and the work that filled it. Its age
\* exceeds the pause since it was used by less than a lifetime.
EntryLag(k) ==
    LET e == cache[k] IN
    /\ e.from \in Keys /\ e.rule \in Rules
    /\ e.age <= pause[k] + TTL - 1
    /\ since[e.from][e.rule] <= e.age + MaxWork
    /\ e.from # k => since[k][Off] <= e.age + MaxWork
    /\ e.provider # e.rule.primary => downAge[e.rule.primary] <= e.age + MaxWork

\* Before the age of an entry starts again from zero, its key has rested.
CacheLag ==
    \A k \in Asked : /\ k \in rested \/ pause[k] < Gap
                     /\ k \notin rested /\ cache[k] # NoEntry => EntryLag(k)

\* The same for the table of the MT router, whose age stops when it is too old.
TableLag ==
    /\ table.age <= TTL => service = "mt"
    /\ \A t \in Keys : since[t][table.rule[t]] <= table.age + MaxWork

\* At most one failure is recorded beyond the calls that went bad: that of a message
\* whose success was recorded before it could not be published. While a failure may
\* still be recorded there is none beyond.
FailuresEarned ==
    \A p \in Providers :
        /\ fails[p] <= bad[p] + 1
        /\ query.at \in {"publish", "failed"} /\ query.provider = p =>
             fails[p] <= bad[p] \/ bad[p] = Limit - 1

IInv == TypeOK /\ RowsNow /\ QueryLag /\ CacheLag /\ TableLag /\ FailuresEarned
-----------------------------------------------------------------------------
\* What the constants give.
LEMMA Bounds ==
    /\ TTL \in Nat \ {0} /\ MaxWork \in Nat /\ Day \in Nat /\ Day > TTL
    /\ Gap \in Nat \ {0} /\ Gap = Day - TTL
    /\ LongAgo \in Nat \ {0} /\ LongAgo = TTL + MaxWork + 1
    /\ Limit = 3
  BY RoutingAssumption DEF Gap, LongAgo, Limit

LEMMA Places ==
    /\ Asked \subseteq {"exact", "any"} /\ Asked \subseteq Keys /\ "any" \in Keys
    /\ \A k \in {"exact", "any"} :
         /\ Len(Tries(k)) \in 1..4 /\ Tries(k)[1] = k
         /\ service # "mt" => Len(Tries(k)) <= 2
         /\ \A i \in 1..Len(Tries(k)) : Tries(k)[i] \in Keys
         /\ service # "mt" /\ Len(Tries(k)) = 2 => Tries(k)[2] # k
  BY DEF Asked, KeyFor, Keys, Tries

\* The keys tried for one that is asked for: the key itself, and then the one for all.
LEMMA TryFacts ==
    ASSUME NEW k \in {"exact", "any"}, NEW n \in 1..2, n <= Len(Tries(k)), service # "mt"
    PROVE  /\ Len(Tries(k)) \in 1..2 /\ Tries(k)[n] \in Keys /\ Tries(k)[1] = k
           /\ n = 1 => Tries(k)[n] = k
  BY DEF Keys, Tries

\* A rule is a cell that is not off, and names a provider.
LEMMA RuleFacts ==
    /\ Off \in Cells /\ Rules \subseteq Cells
    /\ \A v \in Cells : v # Off => v \in Rules
    /\ \A v \in Rules : /\ v \in Cells /\ v # Off /\ v.primary \in Providers
                        /\ v.fallback \in Providers \cup {None}
                        /\ Chosen(v) \in Providers
                        /\ Chosen(v) # v.primary => Down(v.primary)
  <1>1. Off.primary = None /\ Off \in Cells
    BY DEF Off, Cells
  <1>2. ASSUME NEW v \in Rules
        PROVE  v.primary \in Providers /\ v.fallback \in Providers \cup {None}
    BY RoutingAssumption
  <1>3. \A v \in Rules : v # Off
    BY <1>1, <1>2, RoutingAssumption
  <1> QED
    BY <1>1, <1>2, <1>3 DEF Cells, Chosen

LEMMA IdleTyped == Idle \in Queries /\ NoEntry \in Entries
  <1>1. 0 \in 0..MaxWork /\ 0 \in 0..(Day - 1)
    BY Bounds
  <1> QED
    BY <1>1, RuleFacts DEF Idle, Queries, NoEntry, Entries

LEMMA OlderUp ==
    ASSUME NEW top \in Nat, NEW n \in 0..top
    PROVE  Older(n, top) \in 0..top /\ Older(n, top) = IF n = top THEN n ELSE n + 1
  BY DEF Older

\* The message goes on to be spoken, or is done with.
LEMMA ProceedFacts ==
    ASSUME TypeOK, NEW p \in Providers \cup {None}, Proceed(p)
    PROVE  query' \in Queries /\ query'.at \in {"idle", "use"}
  <1>1. query.took \in 0..MaxWork
    BY DEF TypeOK, Queries
  <1> QED
    BY <1>1, IdleTyped DEF Proceed, Queries, Idle

LEMMA CacheTyped ==
    ASSUME TypeOK, NEW k \in Asked
    PROVE  /\ cache[k] \in Entries /\ cache[k].age \in 0..(Day - 1) /\ cache[k].age \in Nat
           /\ cache[k].from \in Keys \cup {"none"}
           /\ cache[k].rule \in Cells /\ cache[k].provider \in Providers \cup {None}
  <1>1. cache[k] \in Entries
    BY DEF TypeOK
  <1> QED
    BY <1>1, Bounds DEF Entries

LEMMA SetFailsTyped ==
    ASSUME TypeOK, NEW p \in Providers, NEW n \in 0..Limit, SetFails(p, n)
    PROVE  fails' \in [Providers -> 0..Limit] /\ downAge' \in [Providers -> 0..LongAgo]
  BY Bounds DEF TypeOK, SetFails
-----------------------------------------------------------------------------
LEMMA NextType == TypeOK /\ QueryLag /\ [Next]_vars => TypeOK'
  <1> SUFFICES ASSUME TypeOK, QueryLag, [Next]_vars
               PROVE  TypeOK'
    OBVIOUS
  <1> USE Bounds, RoutingAssumption
  <1>1. ASSUME NEW k \in Keys, UpdateRouting(k)
        PROVE  TypeOK'
    <2> PICK v \in Cells : /\ rules' = [rules EXCEPT ![k] = v]
                           /\ since' = [since EXCEPT ![k][rules[k]] = 0, ![k][v] = 0]
      BY <1>1 DEF UpdateRouting
    <2>1. rules' \in [Keys -> Cells]
      BY DEF TypeOK
    <2>2. since' \in [Keys -> [Cells -> 0..LongAgo]]
      BY DEF TypeOK
    <2>3. changes' \in 0..MaxChanges
      BY <1>1 DEF TypeOK, UpdateRouting
    <2> QED
      BY <1>1, <2>1, <2>2, <2>3 DEF TypeOK, UpdateRouting
  <1>2. ASSUME NEW p \in Providers, ResetHealth(p)
        PROVE  TypeOK'
    <2>1. fails' \in [Providers -> 0..Limit] /\ downAge' \in [Providers -> 0..LongAgo]
      BY <1>2, SetFailsTyped DEF ResetHealth
    <2>2. bad' \in [Providers -> 0..(Limit - 1)] /\ changes' \in 0..MaxChanges
      BY <1>2 DEF TypeOK, ResetHealth
    <2> QED
      BY <1>2, <2>1, <2>2 DEF TypeOK, ResetHealth
  <1>3. CASE ClearNotice
    <2>1. cache' \in [Asked -> Entries]
      BY <1>3, IdleTyped DEF ClearNotice, Cleared
    <2> QED
      BY <1>3, <2>1 DEF TypeOK, ClearNotice, env, history
  <1>4. CASE ReadTable
    <2>1. query' \in Queries
      BY <1>4, IdleTyped DEF ReadTable, TypeOK, Queries, Idle
    <2> QED
      BY <1>4, <2>1 DEF TypeOK, ReadTable, env, history
  <1>5. CASE LoadFails
    <2>1. query' \in Queries /\ faults' \in 0..MaxFaults
      BY <1>5, IdleTyped DEF LoadFails, Fault, TypeOK
    <2> QED
      BY <1>5, <2>1 DEF TypeOK, LoadFails, env, history
  <1>6. CASE LookupFails
    <2>1. query' \in Queries
      BY <1>6, ProceedFacts DEF LookupFails, UseDefault
    <2>2. faults' \in 0..MaxFaults
      BY <1>6 DEF LookupFails, Fault, TypeOK
    <2> QED
      BY <1>6, <2>1, <2>2 DEF TypeOK, LookupFails, env, history
  <1>7. ASSUME NEW k \in Asked, Hit(k)
        PROVE  TypeOK'
    <2>1. query' \in Queries
      BY <1>7, CacheTyped, ProceedFacts DEF Hit
    <2>2. pause' \in [Asked -> 0..Gap]
      BY <1>7 DEF Hit, TypeOK
    <2> QED
      BY <1>7, <2>1, <2>2 DEF TypeOK, Hit, env
  <1>8. ASSUME NEW k \in Asked, Miss(k)
        PROVE  TypeOK'
    <2>1. query' \in Queries
      BY <1>8, IdleTyped DEF Miss, Queries, Idle
    <2> QED
      BY <1>8, <2>1 DEF TypeOK, Miss, env, history
  <1>9. CASE ReadRule
    <2>1. query \in Queries /\ query.key \in {"exact", "any"} /\ query.try \in 1..2
          /\ service # "mt" /\ query.try <= Len(Tries(query.key))
      BY <1>9, Places DEF ReadRule, TypeOK, Queries, QueryLag
    <2>2. Tries(query.key)[query.try] \in Keys /\ Len(Tries(query.key)) \in 1..2
      BY <2>1, TryFacts
    <2>3. rules[Tries(query.key)[query.try]] \in Cells
      BY <2>2 DEF TypeOK
    <2>4. ASSUME query' = [query EXCEPT !.at = "health",
                                        !.rule = rules[Tries(query.key)[query.try]]]
          PROVE  query' \in Queries
      BY <2>1, <2>3, <2>4 DEF Queries
    <2>5. ASSUME query.try < Len(Tries(query.key)), query' = [query EXCEPT !.try = @ + 1]
          PROVE  query' \in Queries
      <3>1. query.try + 1 \in 1..2
        <4>1. \A n, m \in 1..2 : n < m => n + 1 \in 1..2
          OBVIOUS
        <4> QED
          BY <2>1, <2>2, <2>5, <4>1
      <3> QED
        BY <2>1, <2>5, <3>1 DEF Queries
    <2>6. ASSUME UseDefault
          PROVE  query' \in Queries
      BY <2>6, ProceedFacts DEF UseDefault
    <2>7. query' \in Queries
      BY <1>9, <2>4, <2>5, <2>6 DEF ReadRule
    <2> QED
      BY <1>9, <2>7 DEF TypeOK, ReadRule, env, history
  <1>10. CASE ReadHealth
    <2>1. /\ query.key \in {"exact", "any"} /\ query.key \in Asked /\ query.try \in 1..2
          /\ service # "mt" /\ query.try <= Len(Tries(query.key)) /\ query.rule \in Rules
      BY <1>10, Places DEF ReadHealth, TypeOK, Queries, QueryLag
    <2>2. Tries(query.key)[query.try] \in Keys /\ query.rule \in Cells
      BY <2>1, TryFacts, RuleFacts
    <2>3. ASSUME NEW p \in Providers, Keep(p)
          PROVE  /\ cache' \in [Asked -> Entries] /\ pause' \in [Asked -> 0..Gap]
                 /\ rested' \subseteq Asked /\ query' \in Queries
      <3>1. [age |-> 0, from |-> Tries(query.key)[query.try], rule |-> query.rule,
             provider |-> p] \in Entries
        BY <2>2 DEF Entries
      <3>2. query' \in Queries
        BY <2>3, ProceedFacts DEF Keep
      <3>3. cache' \in [Asked -> Entries]
        BY <2>3, <3>1 DEF Keep, TypeOK
      <3>4. pause' = [pause EXCEPT ![query.key] = 0] /\ rested' = rested \ {query.key}
        BY <2>3 DEF Keep
      <3>5. pause' \in [Asked -> 0..Gap]
        <4>1. 0 \in 0..Gap /\ pause \in [Asked -> 0..Gap]
          BY DEF TypeOK
        <4>2. pause' = [pause EXCEPT ![query.key] = 0]
          BY <3>4
        <4> HIDE DEF Gap
        <4> QED
          BY <4>1, <4>2
      <3>6. rested' \subseteq Asked
        BY <3>4 DEF TypeOK
      <3> QED
        BY <3>2, <3>3, <3>5, <3>6
    <2>4. Chosen(query.rule) \in Providers /\ query.rule.primary \in Providers
      BY <2>1, RuleFacts
    <2>5. /\ cache' \in [Asked -> Entries] /\ pause' \in [Asked -> 0..Gap]
          /\ rested' \subseteq Asked /\ query' \in Queries
      <3>1. CASE Keep(Chosen(query.rule))
        BY <2>3, <2>4, <3>1
      <3>2. CASE Keep(query.rule.primary)
        BY <2>3, <2>4, <3>2
      <3> QED
        BY <1>10, <3>1, <3>2 DEF ReadHealth
    <2>6. faults' \in 0..MaxFaults
      BY <1>10 DEF ReadHealth, Fault, TypeOK
    <2> QED
      BY <1>10, <2>5, <2>6 DEF TypeOK, ReadHealth, env
  <1>11. CASE KeepTable
    <2>1. query' \in Queries
      BY <1>11, IdleTyped DEF KeepTable
    <2>2. query.seen \in [Keys -> Cells] /\ 0 \in 0..(TTL + 1)
      BY DEF TypeOK, Queries
    <2>3. table' \in [rule : [Keys -> Cells], age : 0..(TTL + 1)]
      BY <1>11, <2>2 DEF KeepTable
    <2>4. UNCHANGED <<service, changes, rules, fails, cache, since, downAge, pause, rested, bad,
                      faults>>
      BY <1>11 DEF KeepTable, env, history
    <2> QED
      BY <2>1, <2>3, <2>4 DEF TypeOK
  <1>12. CASE Publish
    <2>1. query' \in Queries
      <3>1. query' = Idle \/ query' = [query EXCEPT !.at = "failed"]
        BY <1>12 DEF Publish
      <3>2. query \in Queries
        BY DEF TypeOK
      <3> QED
        BY <3>1, <3>2, IdleTyped DEF Queries
    <2>3. faults' \in 0..MaxFaults
      BY <1>12 DEF Publish, Fault, TypeOK
    <2> QED
      BY <1>12, <2>1, <2>3 DEF TypeOK, Publish, env, history
  <1>13. ASSUME NEW p \in Providers, SpeakOk(p)
         PROVE  TypeOK'
    <2>1. query' \in Queries
      BY <1>13 DEF SpeakOk, TypeOK, Queries
    <2> QED
      BY <1>13, <2>1 DEF TypeOK, SpeakOk, env, history
  <1>14. ASSUME NEW p \in Providers, SpeakFails(p)
         PROVE  TypeOK'
    <2>1. query' \in Queries
      BY <1>14 DEF SpeakFails, TypeOK, Queries
    <2>2. bad' \in [Providers -> 0..(Limit - 1)]
      BY <1>14 DEF SpeakFails, TypeOK, Older
    <2> QED
      BY <1>14, <2>1, <2>2 DEF TypeOK, SpeakFails, env
  <1>15. ASSUME NEW p \in Providers, RecordSuccess(p)
         PROVE  TypeOK'
    <2>1. query' \in Queries
      BY <1>15 DEF RecordSuccess, TypeOK, Queries
    <2>2. /\ fails' \in [Providers -> 0..Limit] /\ downAge' \in [Providers -> 0..LongAgo]
      BY <1>15, SetFailsTyped DEF RecordSuccess, Recovers, TypeOK
    <2>3. bad' \in [Providers -> 0..(Limit - 1)] /\ faults' \in 0..MaxFaults
      BY <1>15 DEF RecordSuccess, TypeOK, Older, Fault
    <2> QED
      BY <1>15, <2>1, <2>2, <2>3 DEF TypeOK, RecordSuccess, env
  <1>16. ASSUME NEW p \in Providers, RecordFailure(p)
         PROVE  TypeOK'
    <2>1. Older(fails[p], Limit) \in 0..Limit
      BY OlderUp DEF TypeOK
    <2>2. /\ fails' \in [Providers -> 0..Limit] /\ downAge' \in [Providers -> 0..LongAgo]
      BY <1>16, <2>1, SetFailsTyped DEF RecordFailure, TypeOK
    <2>3. query' \in Queries
      BY <1>16, IdleTyped DEF RecordFailure
    <2>4. faults' \in 0..MaxFaults
      BY <1>16 DEF RecordFailure, TypeOK, Fault
    <2> QED
      BY <1>16, <2>2, <2>3, <2>4 DEF TypeOK, RecordFailure, env
  <1>17. CASE Tick
    <2>1. cache' \in [Asked -> Entries]
      <3>1. ASSUME NEW k \in Asked
            PROVE  Aged(cache[k]) \in Entries
        <4>1. (cache[k].age + 1) % Day \in 0..(Day - 1)
          BY CacheTyped
        <4> QED
          BY <4>1, CacheTyped DEF Aged, Entries
      <3> QED
        BY <1>17, <3>1 DEF Tick
    <2>2. table' \in [rule : [Keys -> Cells], age : 0..(TTL + 1)]
      <3>1. table \in [rule : [Keys -> Cells], age : 0..(TTL + 1)]
        BY DEF TypeOK
      <3>2. Older(table.age, TTL + 1) \in 0..(TTL + 1)
        BY <3>1, OlderUp
      <3> QED
        BY <1>17, <3>1, <3>2 DEF Tick
    <2>3. query' \in Queries
      <3>1. query \in Queries /\ query.took \in 0..MaxWork
        BY DEF TypeOK, Queries
      <3>2. CASE query.at = "idle"
        BY <1>17, <3>1, <3>2 DEF Tick
      <3>3. CASE query.at # "idle"
        <4>1. query.took + 1 \in 0..MaxWork /\ query' = [query EXCEPT !.took = @ + 1]
          BY <1>17, <3>1, <3>3 DEF Tick
        <4> QED
          BY <3>1, <4>1 DEF Queries
      <3> QED
        BY <3>2, <3>3
    <2>4. since' \in [Keys -> [Cells -> 0..LongAgo]]
      <3>1. ASSUME NEW k \in Keys, NEW v \in Cells
            PROVE  Older(since[k][v], LongAgo) \in 0..LongAgo
        BY OlderUp DEF TypeOK
      <3> QED
        BY <1>17, <3>1 DEF Tick
    <2>5. downAge' \in [Providers -> 0..LongAgo]
      <3>1. ASSUME NEW p \in Providers
            PROVE  Older(downAge[p], LongAgo) \in 0..LongAgo
        BY OlderUp DEF TypeOK
      <3> QED
        BY <1>17, <3>1 DEF Tick
    <2>6. pause' \in [Asked -> 0..Gap]
      <3>1. ASSUME NEW k \in Asked
            PROVE  Older(pause[k], Gap) \in 0..Gap
        BY OlderUp DEF TypeOK
      <3> QED
        BY <1>17, <3>1 DEF Tick
    <2>7. rested' \subseteq Asked
      BY <1>17 DEF Tick, TypeOK
    <2> QED
      BY <1>17, <2>1, <2>2, <2>3, <2>4, <2>5, <2>6, <2>7 DEF TypeOK, Tick, env
  <1>18. CASE UNCHANGED vars
    BY <1>18 DEF vars, history, TypeOK
  <1> QED
    BY <1>1, <1>2, <1>3, <1>4, <1>5, <1>6, <1>7, <1>8, <1>9, <1>10, <1>11, <1>12, <1>13, <1>14,
       <1>15, <1>16, <1>17, <1>18 DEF Next, Admin, Asking, Working, Recording
-----------------------------------------------------------------------------
\* Most steps leave the rules and the health alone.
LEMMA StepKinds ==
    ASSUME TypeOK, [Next]_vars
    PROVE  /\ service' = service
           /\ \/ \E k \in Keys : UpdateRouting(k)
              \/ Tick
              \/ UNCHANGED <<rules, since, fails, downAge>>
              \/ /\ UNCHANGED <<rules, since>>
                 /\ \E p \in Providers, n \in 0..Limit : SetFails(p, n)
  <1>1. ASSUME NEW p \in Providers, ResetHealth(p)
        PROVE  /\ UNCHANGED <<service, rules, since>>
               /\ \E q \in Providers, n \in 0..Limit : SetFails(q, n)
    BY <1>1, Bounds DEF ResetHealth
  <1>2. ASSUME NEW p \in Providers, RecordSuccess(p)
        PROVE  /\ UNCHANGED <<service, rules, since>>
               /\ \/ UNCHANGED <<fails, downAge>>
                  \/ \E q \in Providers, n \in 0..Limit : SetFails(q, n)
    BY <1>2, Bounds DEF RecordSuccess, Recovers, env
  <1>3. ASSUME NEW p \in Providers, RecordFailure(p)
        PROVE  /\ UNCHANGED <<service, rules, since>>
               /\ \/ UNCHANGED <<fails, downAge>>
                  \/ \E q \in Providers, n \in 0..Limit : SetFails(q, n)
    <2>1. Older(fails[p], Limit) \in 0..Limit
      BY OlderUp, Bounds DEF TypeOK
    <2> QED
      BY <1>3, <2>1 DEF RecordFailure, env
  <1>4. ASSUME NEW k \in Keys, UpdateRouting(k)
        PROVE  service' = service
    BY <1>4 DEF UpdateRouting
  <1>5. CASE Tick
    BY <1>5 DEF Tick, env
  <1>6. CASE ClearNotice \/ ReadTable \/ LoadFails \/ LookupFails \/ ReadRule \/ ReadHealth
             \/ KeepTable \/ Publish \/ UNCHANGED vars
    BY <1>6 DEF ClearNotice, ReadTable, LoadFails, LookupFails, ReadRule, ReadHealth, KeepTable,
                Publish, vars, env, history
  <1>7. CASE \/ \E k \in Asked : Hit(k) \/ Miss(k)
             \/ \E p \in Providers : SpeakOk(p) \/ SpeakFails(p)
    BY <1>7 DEF Hit, Miss, SpeakOk, SpeakFails, env, history
  <1> QED
    BY <1>1, <1>2, <1>3, <1>4, <1>5, <1>6, <1>7 DEF Next, Admin, Asking, Working, Recording

\* Without a tick the ages only fall, with one they grow by one at most.
Grown == IF Tick THEN 1 ELSE 0

LEMMA AgesMove ==
    ASSUME TypeOK, TypeOK', [Next]_vars
    PROVE  /\ \A k \in Keys, v \in Cells : since'[k][v] <= since[k][v] + Grown
           /\ \A p \in Providers : downAge'[p] <= downAge[p] + Grown
  <1>1. Grown \in {0, 1} /\ (Tick => Grown = 1)
    BY DEF Grown
  <1>2. /\ \A k \in Keys, v \in Cells : since[k][v] \in 0..LongAgo /\ since[k][v] \in Nat
        /\ \A p \in Providers : downAge[p] \in 0..LongAgo /\ downAge[p] \in Nat
        /\ \A k \in Keys, v \in Cells : since'[k][v] \in Nat
        /\ \A p \in Providers : downAge'[p] \in Nat
    <2>1. LongAgo' = LongAgo /\ Cells' = Cells
      BY DEF LongAgo, Cells, Off
    <2>2. since' \in [Keys -> [Cells -> 0..LongAgo]] /\ downAge' \in [Providers -> 0..LongAgo]
      BY <2>1 DEF TypeOK
    <2>3. /\ \A k \in Keys, v \in Cells : since'[k][v] \in 0..LongAgo
          /\ \A p \in Providers : downAge'[p] \in 0..LongAgo
      BY <2>2
    <2> QED
      BY <2>3, Bounds DEF TypeOK
  <1>3. ASSUME NEW k \in Keys, UpdateRouting(k)
        PROVE  /\ UNCHANGED downAge
               /\ \A h \in Keys, v \in Cells : since'[h][v] <= since[h][v]
    <2>1. PICK v \in Cells : since' = [since EXCEPT ![k][rules[k]] = 0, ![k][v] = 0]
      BY <1>3 DEF UpdateRouting
    <2>2. \A h \in Keys, w \in Cells : since'[h][w] = 0 \/ since'[h][w] = since[h][w]
      BY <2>1 DEF TypeOK
    <2>3. UNCHANGED downAge
      BY <1>3 DEF UpdateRouting
    <2> QED
      BY <1>2, <2>2, <2>3
  <1>4. ASSUME NEW p \in Providers, NEW n \in 0..Limit, SetFails(p, n)
        PROVE  \A q \in Providers : downAge'[q] <= downAge[q]
    <2>1. \A q \in Providers : downAge'[q] = 0 \/ downAge'[q] = downAge[q]
      BY <1>4 DEF SetFails, TypeOK
    <2> QED
      BY <1>2, <2>1
  <1>5. CASE Tick
    <2>1. \A k \in Keys, v \in Cells : since'[k][v] <= since[k][v] + 1
      BY <1>2, <1>5, OlderUp, Bounds DEF Tick
    <2>2. \A p \in Providers : downAge'[p] <= downAge[p] + 1
      BY <1>2, <1>5, OlderUp, Bounds DEF Tick
    <2> QED
      BY <1>1, <1>5, <2>1, <2>2
  <1>6. CASE UNCHANGED <<since, downAge>>
    BY <1>1, <1>2, <1>6
  <1>7. ASSUME UNCHANGED since, NEW p \in Providers, NEW n \in 0..Limit, SetFails(p, n)
        PROVE  /\ \A k \in Keys, v \in Cells : since'[k][v] <= since[k][v] + Grown
               /\ \A q \in Providers : downAge'[q] <= downAge[q] + Grown
    BY <1>1, <1>2, <1>4, <1>7
  <1>8. ASSUME NEW k \in Keys, UpdateRouting(k)
        PROVE  /\ \A h \in Keys, v \in Cells : since'[h][v] <= since[h][v] + Grown
               /\ \A q \in Providers : downAge'[q] <= downAge[q] + Grown
    BY <1>1, <1>2, <1>3, <1>8
  <1> QED
    BY <1>5, <1>6, <1>7, <1>8, StepKinds

LEMMA NextRows == TypeOK /\ RowsNow /\ [Next]_vars => RowsNow'
  <1> SUFFICES ASSUME TypeOK, RowsNow, [Next]_vars
               PROVE  RowsNow'
    OBVIOUS
  <1>1. ASSUME NEW k \in Keys, UpdateRouting(k)
        PROVE  RowsNow'
    <2>1. PICK v \in Cells : /\ rules' = [rules EXCEPT ![k] = v]
                             /\ since' = [since EXCEPT ![k][rules[k]] = 0, ![k][v] = 0]
      BY <1>1 DEF UpdateRouting
    <2>2. \A h \in Keys : since'[h][rules'[h]] = 0
      BY <2>1 DEF RowsNow, TypeOK
    <2> QED
      BY <1>1, <2>2 DEF RowsNow, UpdateRouting, Down
  <1>2. ASSUME NEW p \in Providers, NEW n \in 0..Limit, SetFails(p, n), UNCHANGED <<rules, since>>
        PROVE  RowsNow'
    <2>1. \A q \in Providers : fails'[q] = Limit => downAge'[q] = 0
      BY <1>2 DEF SetFails, RowsNow, TypeOK, Down
    <2> QED
      BY <1>2, <2>1 DEF RowsNow, Down
  <1>3. CASE Tick
    <2>1. \A k \in Keys : rules[k] \in Cells
      BY DEF TypeOK
    <2>2. \A k \in Keys : since'[k][rules[k]] = 0
      BY <1>3, <2>1 DEF Tick
    <2>3. \A p \in Providers : Down(p) => downAge'[p] = 0
      BY <1>3 DEF Tick
    <2>4. UNCHANGED <<rules, fails>>
      BY <1>3 DEF Tick
    <2> QED
      BY <2>2, <2>3, <2>4 DEF RowsNow, Down
  <1>4. CASE UNCHANGED <<rules, since, fails, downAge>>
    BY <1>4 DEF RowsNow, Down
  <1> QED
    BY <1>1, <1>2, <1>3, <1>4, StepKinds
-----------------------------------------------------------------------------
\* The router and the sets that its keys and rules come from do not change.
LEMMA Constants ==
    [Next]_vars /\ TypeOK =>
        /\ service' = service
        /\ Off' = Off /\ Keys' = Keys /\ Cells' = Cells /\ Gap' = Gap
  BY StepKinds DEF Off, Keys, Cells, Gap

LEMMA QueryTyped ==
    ASSUME TypeOK
    PROVE  /\ query \in Queries /\ query.try \in 1..2 /\ query.rule \in Cells
           /\ query.key \in {"exact", "any"} /\ query.took \in 0..MaxWork /\ query.took \in Nat
           /\ query.seen \in [Keys -> Cells]
  <1>1. query \in Queries
    BY DEF TypeOK
  <1>2. query.key \in Asked \cup {"any"}
    BY <1>1 DEF Queries
  <1>3. query.key \in {"exact", "any"}
    BY <1>2, Places
  <1>4. query.took \in 0..MaxWork /\ query.took \in Nat
    BY <1>1, Bounds DEF Queries
  <1> QED
    BY <1>1, <1>3, <1>4 DEF Queries

\* A message that stays where it is reads nothing; the ages move with its work.
LEMMA SameQuery ==
    ASSUME TypeOK, TypeOK', QueryLag, [Next]_vars,
           query' = [query EXCEPT !.took = @ + Grown]
    PROVE  QueryLag'
  <1>1. /\ query'.at = query.at /\ query'.key = query.key /\ query'.try = query.try
        /\ query'.rule = query.rule /\ query'.seen = query.seen
        /\ query'.took = query.took + Grown
    BY QueryTyped DEF Queries
  <1>2. Grown \in Nat
    BY DEF Grown
  <1>3. /\ \A k \in Keys, v \in Cells : since[k][v] \in Nat /\ since'[k][v] \in Nat
    <2>1. LongAgo' = LongAgo /\ Cells' = Cells
      BY DEF LongAgo, Cells, Off
    <2>2. since' \in [Keys -> [Cells -> 0..LongAgo]]
      BY <2>1 DEF TypeOK
    <2> QED
      BY <2>2, Bounds DEF TypeOK
  <1>4. \A k \in Keys, v \in Cells : since[k][v] <= query.took => since'[k][v] <= query'.took
    BY <1>1, <1>2, <1>3, AgesMove, QueryTyped
  <1>5. ASSUME query.at \in {"rule", "health"}
        PROVE  /\ service' # "mt" /\ query'.key \in Asked
               /\ query'.try <= Len(Tries(query.key)')
               /\ query'.try = 2 => since'[query'.key][Off] <= query'.took
    <2>1. service # "mt" /\ query.key \in Asked /\ query.key \in Keys /\ query.key \in {"exact", "any"}
      BY <1>5, Places DEF QueryLag
    <2>2. Tries(query.key)' = Tries(query.key)
      BY <1>1, Constants DEF Tries
    <2> QED
      BY <1>1, <1>4, <1>5, <2>1, <2>2, Constants, RuleFacts DEF QueryLag
  <1>6. ASSUME query.at = "health"
        PROVE  /\ query'.rule \in Rules
               /\ since'[Tries(query.key)'[query'.try]][query'.rule] <= query'.took
    <2>1. query.rule \in Rules /\ Tries(query.key)[query.try] \in Keys
      BY <1>6, QueryTyped, TryFacts DEF QueryLag
    <2>2. Tries(query.key)' = Tries(query.key)
      BY <1>1, Constants DEF Tries
    <2> QED
      BY <1>1, <1>4, <1>6, <2>1, <2>2, RuleFacts DEF QueryLag
  <1>7. ASSUME query.at = "loaded"
        PROVE  service' = "mt" /\ \A t \in Keys : since'[t][query'.seen[t]] <= query'.took
    BY <1>1, <1>4, <1>7, Constants, QueryTyped DEF QueryLag
  <1> QED
    BY <1>1, <1>5, <1>6, <1>7, Constants, QueryTyped DEF QueryLag

LEMMA NextQuery == TypeOK /\ TypeOK' /\ RowsNow /\ QueryLag /\ [Next]_vars => QueryLag'
  <1> SUFFICES ASSUME TypeOK, TypeOK', RowsNow, QueryLag, [Next]_vars
               PROVE  QueryLag'
    OBVIOUS
  <1>1. CASE query'.at \notin {"rule", "health", "loaded"}
    BY <1>1 DEF QueryLag
  <1>2. CASE ~Tick /\ query' = query
    <2>1. Grown = 0
      BY <1>2 DEF Grown
    <2>2. query' = [query EXCEPT !.took = @ + Grown]
      BY <1>2, <2>1, QueryTyped DEF Queries
    <2> QED
      BY <2>2, SameQuery
  <1>3. CASE Tick
    <2>1. CASE query.at = "idle"
      BY <1>1, <1>3, <2>1 DEF Tick
    <2>2. CASE query.at # "idle"
      <3>1. query' = [query EXCEPT !.took = @ + 1] /\ Grown = 1
        BY <1>3, <2>2 DEF Tick, Grown
      <3> QED
        BY <3>1, SameQuery
    <2> QED
      BY <2>1, <2>2
  <1>4. ASSUME NEW k \in Asked, Miss(k)
        PROVE  QueryLag'
    <2>1. query'.at = "rule" /\ query'.key = k /\ query'.try = 1 /\ service # "mt"
      BY <1>4 DEF Miss, Idle
    <2>2. Len(Tries(k)) >= 1
      BY Places
    <2>3. Tries(query.key)' = Tries(k)
      BY <2>1, Constants DEF Tries
    <2> QED
      BY <2>1, <2>2, <2>3, Constants DEF QueryLag
  <1>5. CASE ReadTable
    <2>1. query'.at = "loaded" /\ query'.seen = rules /\ query'.took = 0 /\ service = "mt"
      BY <1>5 DEF ReadTable, Idle
    <2>2. since' = since
      BY <1>5 DEF ReadTable, history
    <2> QED
      BY <2>1, <2>2, Constants DEF QueryLag, RowsNow
  <1>6. CASE ReadRule
    <2> DEFINE t == Tries(query.key)[query.try]
    <2>1. /\ query.at = "rule" /\ service # "mt" /\ query.key \in Asked
          /\ query.try <= Len(Tries(query.key))
          /\ query.try = 2 => since[query.key][Off] <= query.took
      BY <1>6 DEF ReadRule, QueryLag
    <2>2. since' = since
      BY <1>6 DEF ReadRule, history
    <2>3. /\ t \in Keys /\ Len(Tries(query.key)) \in 1..2 /\ (query.try = 1 => t = query.key)
      BY <2>1, QueryTyped, TryFacts
    <2>4. rules[t] \in Cells /\ since[t][rules[t]] = 0
      BY <2>3 DEF RowsNow, TypeOK
    <2>5. ASSUME rules[t] # Off, query' = [query EXCEPT !.at = "health", !.rule = rules[t]]
          PROVE  QueryLag'
      <3>1. /\ query'.at = "health" /\ query'.key = query.key /\ query'.try = query.try
            /\ query'.rule = rules[t] /\ query'.took = query.took
        BY <2>5, QueryTyped DEF Queries
      <3>2. rules[t] \in Rules
        BY <2>4, <2>5, RuleFacts
      <3>3. Tries(query.key)' = Tries(query.key)
        BY <3>1, Constants DEF Tries
      <3>4. since'[t][query'.rule] <= query'.took
        BY <2>2, <2>4, <3>1, QueryTyped
      <3>5. Tries(query.key)'[query'.try] = t
        BY <3>1, <3>3
      <3> HIDE DEF t
      <3> QED
        BY <2>1, <2>2, <3>1, <3>2, <3>3, <3>4, <3>5, Constants DEF QueryLag
    <2>6. ASSUME rules[t] = Off, query.try < Len(Tries(query.key)),
                 query' = [query EXCEPT !.try = @ + 1]
          PROVE  QueryLag'
      <3>1. /\ query'.at = "rule" /\ query'.key = query.key /\ query'.try = query.try + 1
            /\ query'.took = query.took
        BY <2>1, <2>6, QueryTyped DEF Queries
      <3>2. query.try = 1
        <4>1. \A n, m \in 1..2 : n < m => n = 1
          OBVIOUS
        <4> QED
          BY <2>3, <2>6, <4>1, QueryTyped
      <3>3. since[query.key][Off] = 0
        BY <2>3, <2>4, <2>6, <3>2
      <3>4. Tries(query.key)' = Tries(query.key)
        BY <3>1, Constants DEF Tries
      <3>5. query'.try <= Len(Tries(query.key))
        BY <2>3, <2>6, <3>1, QueryTyped
      <3> QED
        BY <2>1, <2>2, <3>1, <3>3, <3>4, <3>5, Constants, QueryTyped DEF QueryLag
    <2>7. ASSUME UseDefault
          PROVE  QueryLag'
      BY <1>1, <2>7, RoutingAssumption, ProceedFacts DEF UseDefault
    <2> QED
      BY <1>6, <2>5, <2>6, <2>7 DEF ReadRule
  <1>7. CASE LookupFails
    BY <1>1, <1>7, RoutingAssumption, ProceedFacts DEF LookupFails, UseDefault
  <1>8. CASE ReadHealth
    <2>1. query.rule \in Rules
      BY <1>8 DEF ReadHealth, QueryLag
    <2>2. Proceed(Chosen(query.rule)) \/ Proceed(query.rule.primary)
      BY <1>8 DEF ReadHealth, Keep
    <2> QED
      BY <1>1, <2>1, <2>2, RuleFacts, ProceedFacts
  <1>9. ASSUME NEW k \in Asked, Hit(k)
        PROVE  QueryLag'
    BY <1>1, <1>9, CacheTyped, ProceedFacts DEF Hit
  <1>10. ASSUME NEW p \in Providers, SpeakOk(p) \/ SpeakFails(p) \/ RecordSuccess(p) \/ RecordFailure(p)
         PROVE  QueryLag'
    <2>1. query'.at \in {"spoken", "failed", "publish", "idle"}
      BY <1>10, QueryTyped DEF SpeakOk, SpeakFails, RecordSuccess, RecordFailure, Queries, Idle
    <2> QED
      BY <1>1, <2>1
  <1>11. CASE LoadFails \/ KeepTable \/ Publish
    <2>1. query'.at \in {"failed", "idle"}
      BY <1>11, QueryTyped DEF LoadFails, KeepTable, Publish, Queries, Idle
    <2> QED
      BY <1>1, <2>1
  <1>12. CASE Admin \/ UNCHANGED vars
    <2>1. query' = query
      BY <1>12 DEF Admin, UpdateRouting, ResetHealth, ClearNotice, vars
    <2> QED
      BY <1>2, <1>3, <2>1
  <1> QED
    BY <1>3, <1>4, <1>5, <1>6, <1>7, <1>8, <1>9, <1>10, <1>11, <1>12
       DEF Next, Asking, Working, Recording
-----------------------------------------------------------------------------
LEMMA NextTable == TypeOK /\ TypeOK' /\ QueryLag /\ TableLag /\ [Next]_vars => TableLag'
  <1> SUFFICES ASSUME TypeOK, TypeOK', QueryLag, TableLag, [Next]_vars
               PROVE  TableLag'
    OBVIOUS
  <1>1. /\ table.age \in 0..(TTL + 1) /\ table.age \in Nat
        /\ \A t \in Keys : table.rule[t] \in Cells
    <2>1. table \in [rule : [Keys -> Cells], age : 0..(TTL + 1)]
      BY DEF TypeOK
    <2> QED
      BY <2>1, Bounds
  <1>2. \A k \in Keys, v \in Cells : /\ since[k][v] \in 0..LongAgo /\ since[k][v] \in Nat
                                     /\ since'[k][v] \in 0..LongAgo /\ since'[k][v] \in Nat
    <2>1. LongAgo' = LongAgo /\ Cells' = Cells
      BY DEF LongAgo, Cells, Off
    <2>2. since' \in [Keys -> [Cells -> 0..LongAgo]]
      BY <2>1 DEF TypeOK
    <2> QED
      BY <2>2, Bounds DEF TypeOK
  <1>3. CASE Tick
    <2>1. table'.rule = table.rule /\ table'.age = IF table.age = TTL + 1 THEN table.age ELSE table.age + 1
      <3>1. table' = [table EXCEPT !.age = Older(@, TTL + 1)]
        BY <1>3 DEF Tick
      <3>2. table \in [rule : [Keys -> Cells], age : 0..(TTL + 1)]
        BY DEF TypeOK
      <3> QED
        BY <1>1, <3>1, <3>2, OlderUp, Bounds
    <2>2. \A t \in Keys : since'[t][table.rule[t]] <= since[t][table.rule[t]] + 1
      <3>1. Grown = 1
        BY <1>3 DEF Grown
      <3> QED
        BY <1>1, <3>1, AgesMove
    <2>3. \A t \in Keys : since'[t][table.rule[t]] <= table'.age + MaxWork
      <3> TAKE t \in Keys
      <3>1. /\ since[t][table.rule[t]] <= table.age + MaxWork /\ since[t][table.rule[t]] \in Nat
            /\ since'[t][table.rule[t]] \in 0..LongAgo
            /\ since'[t][table.rule[t]] <= since[t][table.rule[t]] + 1
        BY <1>1, <1>2, <2>2 DEF TableLag
      <3> QED
        BY <1>1, <2>1, <3>1, Bounds
    <2>4. table'.age <= TTL => service' = "mt"
      BY <1>1, <2>1, Constants, Bounds DEF TableLag
    <2> QED
      BY <2>1, <2>3, <2>4 DEF TableLag
  <1>4. CASE KeepTable
    <2>1. /\ service' = "mt" /\ since' = since
          /\ table'.age = 0 /\ table'.rule = query.seen
          /\ \A t \in Keys : since[t][query.seen[t]] <= query.took
      BY <1>4, Constants DEF KeepTable, QueryLag, history
    <2>2. \A t \in Keys : since[t][query.seen[t]] <= MaxWork
      BY <1>2, <2>1, QueryTyped, Bounds
    <2> QED
      BY <2>1, <2>2, Bounds DEF TableLag
  <1>5. CASE ~Tick /\ table' = table
    <2>1. Grown = 0
      BY <1>5 DEF Grown
    <2>2. \A t \in Keys : since'[t][table.rule[t]] <= since[t][table.rule[t]]
      <3>1. \A t \in Keys : since'[t][table.rule[t]] <= since[t][table.rule[t]] + 0
        BY <1>1, <2>1, AgesMove
      <3> QED
        BY <1>1, <1>2, <3>1
    <2>3. \A t \in Keys : since'[t][table.rule[t]] <= table.age + MaxWork
      BY <1>1, <1>2, <2>2, Bounds DEF TableLag
    <2> QED
      BY <1>5, <2>3, Constants DEF TableLag
  <1>6. Tick \/ KeepTable \/ table' = table
    BY DEF Next, Admin, Asking, Working, Recording, UpdateRouting, ResetHealth, ClearNotice,
           ReadTable, LoadFails, LookupFails, Hit, Miss, ReadRule, ReadHealth, Publish, SpeakOk,
           SpeakFails, RecordSuccess, RecordFailure, vars
  <1> QED
    BY <1>3, <1>4, <1>5, <1>6
-----------------------------------------------------------------------------
\* The ages that an entry is measured by are numbers, before and after a step.
LEMMA AgesTyped ==
    ASSUME TypeOK, TypeOK', [Next]_vars
    PROVE  /\ \A k \in Keys, v \in Cells : since[k][v] \in Nat /\ since'[k][v] \in Nat
           /\ \A p \in Providers : downAge[p] \in Nat /\ downAge'[p] \in Nat
           /\ \A k \in Asked : pause[k] \in Nat /\ pause[k] <= Gap
  <1>1. LongAgo' = LongAgo /\ Cells' = Cells
    BY DEF LongAgo, Cells, Off
  <1>2. /\ since' \in [Keys -> [Cells -> 0..LongAgo]] /\ downAge' \in [Providers -> 0..LongAgo]
    BY <1>1 DEF TypeOK
  <1> QED
    BY <1>2, Bounds DEF TypeOK

\* What EntryLag says of an entry, with the ages it is measured by.
LEMMA LagKept ==
    ASSUME TypeOK, TypeOK', [Next]_vars, NEW k \in Asked, cache[k] # NoEntry, EntryLag(k),
           cache'[k].from = cache[k].from, cache'[k].rule = cache[k].rule,
           cache'[k].provider = cache[k].provider, cache'[k].age = cache[k].age + Grown,
           cache'[k].age <= pause'[k] + TTL - 1
    PROVE  EntryLag(k)'
  <1> DEFINE e == cache[k]
             f == cache'[k]
  <1>1. /\ e.from \in Keys /\ e.rule \in Rules /\ e.rule \in Cells /\ e.rule.primary \in Providers
        /\ e.age \in Nat /\ k \in Keys /\ Off \in Cells
    BY CacheTyped, RuleFacts, Places DEF EntryLag
  <1>2. f.from \in Keys /\ f.rule \in Rules
    BY <1>1
  <1>3. Grown \in {0, 1}
    BY DEF Grown
  <1>4. \A h \in Keys, v \in Cells : since[h][v] <= e.age + MaxWork => since'[h][v] <= f.age + MaxWork
    BY <1>1, <1>3, AgesMove, AgesTyped, Bounds
  <1>5. \A p \in Providers : downAge[p] <= e.age + MaxWork => downAge'[p] <= f.age + MaxWork
    BY <1>1, <1>3, AgesMove, AgesTyped, Bounds
  <1>6. /\ since'[f.from][f.rule] <= f.age + MaxWork
        /\ f.from # k => since'[k][Off] <= f.age + MaxWork
    BY <1>1, <1>4 DEF EntryLag
  <1>7. f.provider # f.rule.primary => downAge'[f.rule.primary] <= f.age + MaxWork
    BY <1>1, <1>5 DEF EntryLag
  <1> QED
    BY <1>2, <1>6, <1>7, Constants DEF EntryLag

LEMMA NextCache ==
    TypeOK /\ TypeOK' /\ RowsNow /\ QueryLag /\ CacheLag /\ [Next]_vars => CacheLag'
  <1> SUFFICES ASSUME TypeOK, TypeOK', RowsNow, QueryLag, CacheLag, [Next]_vars, NEW k \in Asked
               PROVE  /\ k \in rested' \/ pause'[k] < Gap
                      /\ k \notin rested' /\ cache'[k] # NoEntry => EntryLag(k)'
    <2>1. Asked' = Asked /\ Gap' = Gap /\ NoEntry' = NoEntry
      BY DEF Asked, KeyFor, Gap, NoEntry, Off
    <2> QED
      BY <2>1 DEF CacheLag
  <1>1. /\ k \in rested \/ pause[k] < Gap
        /\ k \notin rested /\ cache[k] # NoEntry => EntryLag(k)
        /\ cache[k].age \in 0..(Day - 1) /\ cache[k].age \in Nat /\ pause[k] \in Nat
    BY CacheTyped, AgesTyped DEF CacheLag
  <1>2. CASE ~Tick /\ UNCHANGED <<cache, pause, rested>>
    <2>1. Grown = 0
      BY <1>2 DEF Grown
    <2>2. ASSUME k \notin rested, cache[k] # NoEntry
          PROVE  EntryLag(k)'
      <3>1. EntryLag(k) /\ cache[k].age <= pause[k] + TTL - 1
        BY <1>1, <2>2 DEF EntryLag
      <3> QED
        BY <1>1, <1>2, <2>1, <2>2, <3>1, LagKept
    <2> QED
      BY <1>1, <1>2, <2>2
  <1>3. CASE ClearNotice
    <2>1. cache'[k] = NoEntry /\ UNCHANGED <<pause, rested>>
      BY <1>3 DEF ClearNotice, Cleared, history
    <2> QED
      BY <1>1, <2>1
  <1>4. ASSUME NEW h \in Asked, Hit(h), ~Tick
        PROVE  /\ k \in rested' \/ pause'[k] < Gap
               /\ k \notin rested' /\ cache'[k] # NoEntry => EntryLag(k)'
    <2>1. /\ UNCHANGED <<cache, rested>> /\ cache[h].age < TTL
          /\ pause'[k] = IF k = h THEN 0 ELSE pause[k]
      BY <1>4 DEF Hit, Fresh, TypeOK
    <2>2. Grown = 0
      BY <1>4 DEF Grown
    <2>3. ASSUME k \notin rested, cache[k] # NoEntry
          PROVE  EntryLag(k)'
      <3>1. EntryLag(k) /\ cache[k].age <= pause[k] + TTL - 1
        BY <1>1, <2>3 DEF EntryLag
      <3>2. cache[k].age <= pause'[k] + TTL - 1
        BY <1>1, <2>1, <3>1, Bounds
      <3> QED
        BY <1>1, <2>1, <2>2, <2>3, <3>1, <3>2, LagKept
    <2> QED
      BY <1>1, <2>1, <2>3, Bounds
  <1>5. CASE ReadHealth
    <2> DEFINE t == Tries(query.key)[query.try]
    <2>1. /\ service # "mt" /\ query.key \in Asked /\ query.try <= Len(Tries(query.key))
          /\ query.try = 2 => since[query.key][Off] <= query.took
          /\ query.rule \in Rules /\ since[t][query.rule] <= query.took
      BY <1>5 DEF ReadHealth, QueryLag
    <2>2. t \in Keys /\ (query.try = 1 => t = query.key)
      BY <2>1, QueryTyped, TryFacts
    <2> HIDE DEF t
    <2>3. UNCHANGED <<since, downAge>>
      BY <1>5 DEF ReadHealth
    <2>4. ASSUME NEW p \in Providers, Keep(p), p # query.rule.primary => downAge[query.rule.primary] = 0
          PROVE  /\ k \in rested' \/ pause'[k] < Gap
                 /\ k \notin rested' /\ cache'[k] # NoEntry => EntryLag(k)'
      <3>1. CASE k = query.key
        <4>1. cache'[k] = [age |-> 0, from |-> t, rule |-> query.rule, provider |-> p]
          BY <2>4, <3>1 DEF Keep, TypeOK, t
        <4>2. pause'[k] = 0 /\ k \notin rested'
          BY <2>4, <3>1 DEF Keep, TypeOK
        <4>3. since'[t][query.rule] <= MaxWork
          BY <2>1, <2>2, <2>3, QueryTyped, AgesTyped, RuleFacts, Bounds
        <4>4. t # k => since'[k][Off] <= MaxWork
          <5>1. t # k => query.try = 2
            BY <2>2, <3>1, QueryTyped
          <5> QED
            BY <2>1, <2>3, <3>1, <5>1, QueryTyped, AgesTyped, RuleFacts, Places, Bounds
        <4>5. p # query.rule.primary => downAge'[query.rule.primary] <= MaxWork
          BY <2>3, <2>4, Bounds
        <4>6. 0 <= pause'[k] + TTL - 1
          BY <4>2, Bounds
        <4>7. EntryLag(k)'
          BY <2>1, <2>2, <4>1, <4>3, <4>4, <4>5, <4>6, Constants, Bounds DEF EntryLag
        <4> QED
          BY <4>2, <4>7, Bounds
      <3>2. CASE k # query.key
        <4>1. cache'[k] = cache[k] /\ pause'[k] = pause[k] /\ (k \in rested' <=> k \in rested)
          BY <2>4, <3>2 DEF Keep, TypeOK
        <4>2. ASSUME k \notin rested, cache[k] # NoEntry
              PROVE  EntryLag(k)'
          <5>1. EntryLag(k)
            BY <1>1, <4>2
          <5> QED
            BY <2>3, <4>1, <5>1, Constants DEF EntryLag
        <4> QED
          BY <1>1, <4>1, <4>2
      <3> QED
        BY <3>1, <3>2
    <2>5. CASE Keep(Chosen(query.rule))
      <3>1. Chosen(query.rule) # query.rule.primary => downAge[query.rule.primary] = 0
        BY <2>1, RuleFacts DEF RowsNow
      <3> QED
        BY <2>1, <2>4, <2>5, <3>1, RuleFacts
    <2>6. CASE Keep(query.rule.primary)
      BY <2>1, <2>4, <2>6, RuleFacts
    <2> QED
      BY <1>5, <2>5, <2>6 DEF ReadHealth
  <1>6. CASE Tick
    <2>1. /\ pause'[k] = Older(pause[k], Gap)
          /\ rested' = rested \cup {h \in Asked : pause'[h] = Gap}
          /\ cache'[k] = Aged(cache[k]) /\ Grown = 1
      BY <1>6 DEF Tick, Grown
    <2>2. pause'[k] \in 0..Gap /\ (pause[k] < Gap => pause'[k] = pause[k] + 1)
      BY <1>1, <2>1, AgesTyped, OlderUp, Bounds
    <2>3. k \in rested' \/ pause'[k] < Gap
      BY <2>1, <2>2, Bounds
    <2>4. ASSUME k \notin rested', cache'[k] # NoEntry
          PROVE  EntryLag(k)'
      <3>1. /\ k \notin rested /\ pause[k] < Gap /\ pause'[k] = pause[k] + 1 /\ pause'[k] < Gap
        BY <1>1, <2>1, <2>2, <2>3, <2>4
      <3>2. cache[k] # NoEntry
        BY <2>1, <2>4 DEF Aged
      <3>3. EntryLag(k) /\ cache[k].age <= pause[k] + TTL - 1
        BY <1>1, <3>1, <3>2 DEF EntryLag
      <3>4. cache[k].age + 1 <= pause'[k] + TTL - 1
        BY <1>1, <3>1, <3>3, Bounds
      <3>5. cache[k].age + 1 \in 0..(Day - 1)
        BY <1>1, <3>1, <3>4, Bounds
      <3>6. (cache[k].age + 1) % Day = cache[k].age + 1
        BY <1>1, <3>5, Bounds
      <3>7. /\ cache'[k].from = cache[k].from /\ cache'[k].rule = cache[k].rule
            /\ cache'[k].provider = cache[k].provider /\ cache'[k].age = cache[k].age + 1
        BY <2>1, <3>2, <3>6, CacheTyped DEF Aged, Entries
      <3> QED
        BY <2>1, <3>2, <3>3, <3>4, <3>7, LagKept
    <2> QED
      BY <2>3, <2>4
  <1>7. \/ Tick \/ ClearNotice \/ ReadHealth \/ UNCHANGED <<cache, pause, rested>>
        \/ \E h \in Asked : Hit(h)
    BY DEF Next, Admin, Asking, Working, Recording, UpdateRouting, ResetHealth, history, KeepTable,
           ReadTable, LoadFails, LookupFails, Miss, ReadRule, Publish, SpeakOk,
           SpeakFails, RecordSuccess, RecordFailure, vars
  <1> QED
    BY <1>2, <1>3, <1>4, <1>5, <1>6, <1>7
-----------------------------------------------------------------------------
LEMMA NextEarned == TypeOK /\ FailuresEarned /\ [Next]_vars => FailuresEarned'
  <1> SUFFICES ASSUME TypeOK, FailuresEarned, [Next]_vars, NEW p \in Providers
               PROVE  /\ fails'[p] <= bad'[p] + 1
                      /\ query'.at \in {"publish", "failed"} /\ query'.provider = p =>
                           fails'[p] <= bad'[p] \/ bad'[p] = Limit - 1
    BY DEF FailuresEarned, Limit
  <1> USE Bounds
  <1>1. /\ fails[p] \in 0..Limit /\ bad[p] \in 0..(Limit - 1) /\ fails[p] <= bad[p] + 1
        /\ query.at \in {"publish", "failed"} /\ query.provider = p =>
             fails[p] <= bad[p] \/ bad[p] = Limit - 1
    BY DEF TypeOK, FailuresEarned
  <1>2. ASSUME NEW q \in Providers, ResetHealth(q)
        PROVE  /\ fails'[p] = IF p = q THEN 0 ELSE fails[p]
               /\ bad'[p] = IF p = q THEN 0 ELSE bad[p]
               /\ query' = query
    BY <1>2 DEF ResetHealth, SetFails, TypeOK
  <1>3. ASSUME NEW q \in Providers, SpeakFails(q)
        PROVE  /\ fails'[p] = fails[p]
               /\ query'.at = "failed" /\ query'.provider = q
               /\ bad'[p] = IF p = q THEN Older(bad[p], Limit - 1) ELSE bad[p]
    BY <1>3, QueryTyped DEF SpeakFails, TypeOK, Queries
  <1>4. ASSUME NEW q \in Providers, RecordSuccess(q)
        PROVE  /\ query'.at = "publish" /\ query'.provider = q
               /\ \/ /\ fails'[p] = IF p = q THEN 0 ELSE fails[p]
                     /\ bad'[p] = IF p = q THEN 0 ELSE bad[p]
                  \/ /\ fails'[p] = fails[p]
                     /\ bad'[p] = IF p = q THEN Older(bad[p], Limit - 1) ELSE bad[p]
    <2>1. query'.at = "publish" /\ query'.provider = q
      BY <1>4, QueryTyped DEF RecordSuccess, Queries
    <2>2. \/ SetFails(q, 0) /\ bad' = [bad EXCEPT ![q] = 0]
          \/ fails' = fails /\ bad' = [bad EXCEPT ![q] = Older(@, Limit - 1)]
      BY <1>4 DEF RecordSuccess, Recovers
    <2> QED
      BY <2>1, <2>2 DEF SetFails, TypeOK
  <1>5. ASSUME NEW q \in Providers, RecordFailure(q)
        PROVE  /\ query.at = "failed" /\ query.provider = q /\ query'.at = "idle"
               /\ bad'[p] = bad[p]
               /\ \/ fails'[p] = fails[p]
                  \/ fails'[p] = IF p = q THEN Older(fails[p], Limit) ELSE fails[p]
    <2>1. query.at = "failed" /\ query.provider = q /\ query'.at = "idle" /\ bad' = bad
      BY <1>5 DEF RecordFailure, Idle
    <2>2. fails' = fails \/ SetFails(q, Older(fails[q], Limit))
      BY <1>5 DEF RecordFailure
    <2> QED
      BY <2>1, <2>2 DEF SetFails, TypeOK
  <1>6. CASE Publish
    <2>1. UNCHANGED <<fails, bad>>
      BY <1>6 DEF Publish, history
    <2>2. /\ query.at = "publish"
          /\ \/ query'.at = "idle"
             \/ query'.at = "failed" /\ query'.provider = query.provider
      BY <1>6, QueryTyped DEF Publish, Queries, Idle
    <2> QED
      BY <1>1, <2>1, <2>2
  <1>7. CASE UNCHANGED <<fails, bad>> /\ query'.at \notin {"publish", "failed"}
    BY <1>1, <1>7
  <1>8. CASE UNCHANGED <<fails, bad>> /\ query'.at = query.at /\ query'.provider = query.provider
    BY <1>1, <1>8
  <1>9. CASE Tick
    <2>1. query'.at = query.at /\ query'.provider = query.provider /\ UNCHANGED <<fails, bad>>
      BY <1>9, QueryTyped DEF Tick, Queries
    <2> QED
      BY <1>8, <2>1
  <1>10. CASE Admin \/ UNCHANGED vars
    <2>1. ASSUME NEW q \in Providers, ResetHealth(q)
          PROVE  /\ fails'[p] <= bad'[p] + 1
                 /\ query'.at \in {"publish", "failed"} /\ query'.provider = p =>
                      fails'[p] <= bad'[p] \/ bad'[p] = Limit - 1
      BY <1>1, <1>2, <2>1
    <2> QED
      BY <1>8, <1>10, <2>1 DEF Admin, UpdateRouting, ClearNotice, history, vars
  <1>11. CASE Asking \/ ReadRule \/ ReadHealth \/ KeepTable
    <2>1. UNCHANGED <<fails, bad>>
      BY <1>11 DEF Asking, ReadTable, LoadFails, LookupFails, Hit, Miss, ReadRule, ReadHealth,
                   KeepTable, history
    <2>2. query'.at \notin {"publish", "failed"}
      <3>1. ASSUME NEW q, Proceed(q)
            PROVE  query'.at \notin {"publish", "failed"}
        <4>1. query' = Idle \/ query' = [Idle EXCEPT !.at = "use", !.provider = q, !.took = query.took]
          BY <3>1 DEF Proceed
        <4>2. Idle.at = "idle" /\ Idle \in Queries
          BY IdleTyped DEF Idle
        <4>3. query'.at = "idle" \/ query'.at = "use"
          BY <4>1, <4>2 DEF Queries
        <4> QED
          BY <4>3
      <3>2. CASE ReadTable
        BY <3>2, IdleTyped DEF ReadTable, Queries
      <3>3. CASE LoadFails \/ KeepTable
        BY <3>3 DEF LoadFails, KeepTable, Idle
      <3>4. CASE LookupFails
        BY <3>1, <3>4 DEF LookupFails, UseDefault
      <3>5. CASE ReadHealth
        BY <3>1, <3>5 DEF ReadHealth, Keep
      <3>6. CASE ReadRule
        BY <3>1, <3>6, QueryTyped DEF ReadRule, UseDefault, Queries
      <3>7. ASSUME NEW k \in Asked, Hit(k) \/ Miss(k)
            PROVE  query'.at \notin {"publish", "failed"}
        BY <3>1, <3>7 DEF Hit, Miss, Idle
      <3> QED
        BY <1>11, <3>2, <3>4, <3>5, <3>6, <3>7, <3>3 DEF Asking
    <2> QED
      BY <1>7, <2>1, <2>2
  <1>12. ASSUME NEW q \in Providers, SpeakOk(q)
         PROVE  UNCHANGED <<fails, bad>> /\ query'.at = "spoken"
    BY <1>12, QueryTyped DEF SpeakOk, history, Queries
  <1>13. /\ Older(bad[p], Limit - 1) = IF bad[p] = Limit - 1 THEN bad[p] ELSE bad[p] + 1
         /\ Older(fails[p], Limit) = IF fails[p] = Limit THEN fails[p] ELSE fails[p] + 1
    BY <1>1 DEF Older
  <1>14. ASSUME NEW q \in Providers, SpeakFails(q) \/ RecordSuccess(q)
         PROVE  /\ fails'[p] <= bad'[p] + 1
                /\ query'.at \in {"publish", "failed"} /\ query'.provider = p =>
                     fails'[p] <= bad'[p] \/ bad'[p] = Limit - 1
    BY <1>1, <1>3, <1>4, <1>13, <1>14
  <1>15. ASSUME NEW q \in Providers, RecordFailure(q)
         PROVE  /\ fails'[p] <= bad'[p] + 1
                /\ query'.at \in {"publish", "failed"} /\ query'.provider = p =>
                     fails'[p] <= bad'[p] \/ bad'[p] = Limit - 1
    BY <1>1, <1>5, <1>13, <1>15
  <1> QED
    BY <1>6, <1>7, <1>9, <1>10, <1>11, <1>12, <1>14, <1>15 DEF Next, Working, Recording
-----------------------------------------------------------------------------
LEMMA InitInv == Init => IInv
  <1> SUFFICES ASSUME Init
               PROVE  IInv
    OBVIOUS
  <1> USE Bounds, RoutingAssumption
  <1>1. /\ query = Idle /\ query.at = "idle" /\ cache = Cleared /\ rested = {}
        /\ table = [rule |-> [k \in Keys |-> Off], age |-> TTL + 1]
    BY DEF Init, Idle
  <1>2. TypeOK
    <2>1. cache \in [Asked -> Entries] /\ query \in Queries
      BY <1>1, IdleTyped DEF Cleared
    <2>2. table \in [rule : [Keys -> Cells], age : 0..(TTL + 1)]
      BY <1>1, RuleFacts
    <2>3. since \in [Keys -> [Cells -> 0..LongAgo]]
      BY DEF Init
    <2>4. /\ rules \in [Keys -> Cells] /\ service \in Services
          /\ fails \in [Providers -> 0..Limit] /\ bad \in [Providers -> 0..(Limit - 1)]
      BY DEF Init
    <2>5. /\ downAge \in [Providers -> 0..LongAgo] /\ pause \in [Asked -> 0..Gap]
          /\ rested \subseteq Asked /\ changes \in 0..MaxChanges /\ faults \in 0..MaxFaults
      BY DEF Init
    <2> QED
      BY <2>1, <2>2, <2>3, <2>4, <2>5 DEF TypeOK
  <1>3. RowsNow
    BY <1>2 DEF Init, RowsNow, Down, TypeOK
  <1>4. QueryLag
    BY <1>1 DEF QueryLag
  <1>5. CacheLag
    BY <1>1 DEF Init, CacheLag, Cleared
  <1>6. TableLag
    <2>1. \A t \in Keys : since[t][Off] \in 0..LongAgo
      BY <1>2, RuleFacts DEF TypeOK
    <2> QED
      BY <1>1, <2>1 DEF TableLag
  <1>7. FailuresEarned
    <2> SUFFICES ASSUME NEW p \in Providers
                 PROVE  fails[p] <= bad[p] + 1
      BY <1>1 DEF FailuresEarned
    <2>1. fails[p] = 0 /\ bad[p] = 0
      BY DEF Init
    <2> QED
      BY <2>1
  <1> QED
    BY <1>2, <1>3, <1>4, <1>5, <1>6, <1>7 DEF IInv

THEOREM InductiveInvariant == Spec => []IInv
  <1>1. IInv /\ [Next]_vars => IInv'
    BY NextType, NextRows, NextQuery, NextCache, NextTable, NextEarned DEF IInv
  <1> QED
    BY InitInv, <1>1, PTL DEF Spec

\* The first of the rules tried for a pair that is not off, if there is one.
LEMMA StrategyFirst ==
    ASSUME service = "mt", NEW t \in [Keys -> Cells]
    PROVE  /\ Len(Tries("exact")) = 4
           /\ Strategy(t) \in 1..5
           /\ \A i \in 1..4 : i < Strategy(t) => t[Tries("exact")[i]] = Off
           /\ \A i \in 1..4 : Tries("exact")[i] \in Keys
  <1> DEFINE tries == Tries("exact")
             found == {i \in 1..Len(tries) : t[tries[i]] # Off}
  <1>1. Len(tries) = 4 /\ \A i \in 1..4 : tries[i] \in Keys
    BY DEF Tries, Keys
  <1>2. Strategy(t) = IF found = {} THEN Len(tries) + 1
                      ELSE CHOOSE n \in found : \A m \in found : n <= m
    BY DEF Strategy
  <1>3. found \subseteq 1..4 /\ \A i \in 1..4 : i \notin found => t[tries[i]] = Off
    BY <1>1
  <1>4. \A i \in found : i \in 1..5
    BY <1>1
  <1> HIDE DEF found, tries
  <1>5. CASE found = {}
    <2>1. Strategy(t) = 5
      BY <1>1, <1>2, <1>5
    <2>2. \A i \in 1..4 : t[tries[i]] = Off
      BY <1>3, <1>5
    <2> QED
      BY <1>1, <2>1, <2>2 DEF tries
  <1>6. CASE found # {}
    <2>1. \E n \in found : \A m \in found : n <= m
      <3> USE <1>3
      <3>1. CASE 1 \in found
        BY <1>3, <3>1
      <3>2. CASE 1 \notin found /\ 2 \in found
        BY <1>3, <3>2
      <3>3. CASE 1 \notin found /\ 2 \notin found /\ 3 \in found
        BY <1>3, <3>3
      <3>4. CASE 1 \notin found /\ 2 \notin found /\ 3 \notin found
        <4>1. PICK n \in found : TRUE
          BY <1>6
        <4>2. \A m \in found : m = 4
          BY <3>4
        <4> QED
          BY <4>1, <4>2
      <3> QED
        BY <3>1, <3>2, <3>3, <3>4
    <2>2. Strategy(t) \in found /\ \A m \in found : Strategy(t) <= m
      BY <1>2, <1>6, <2>1
    <2>3. \A i \in 1..4 : i < Strategy(t) => i \notin found
      <3> DEFINE s == Strategy(t)
      <3>1. s \in 1..4 /\ \A m \in found : s <= m
        BY <1>3, <2>2
      <3> HIDE DEF s
      <3>2. \A i \in 1..4 : i < s => ~(s <= i)
        BY <3>1
      <3> QED
        BY <3>1, <3>2 DEF s
    <2>4. \A i \in 1..4 : i < Strategy(t) => t[tries[i]] = Off
      BY <1>3, <2>3
    <2>5. Strategy(t) \in 1..5
      BY <1>4, <2>2
    <2> QED
      BY <1>1, <2>4, <2>5 DEF tries
  <1> QED
    BY <1>5, <1>6

LEMMA AnswersConfigured == IInv => RouteWasConfigured
  <1> SUFFICES ASSUME IInv
               PROVE  RouteWasConfigured
    OBVIOUS
  <1>1. TypeOK /\ CacheLag /\ TableLag
    BY DEF IInv
  <1>2. ASSUME NEW k \in Asked \ rested, Fresh(k)
        PROVE  LET e == cache[k] IN
               /\ since[e.from][e.rule] <= Window
               /\ e.from # k => since[k][Off] <= Window
               /\ e.provider # e.rule.primary => downAge[e.rule.primary] <= Window
    <2>1. EntryLag(k) /\ cache[k].age <= TTL - 1 /\ cache[k].age \in Nat
      BY <1>1, <1>2, CacheTyped, Bounds DEF CacheLag, Fresh
    <2>2. Window \in Nat /\ cache[k].age + MaxWork <= Window
      BY <2>1, Bounds DEF Window
    <2>3. cache[k].from \in Keys /\ cache[k].rule \in Rules /\ k \in Keys
      BY <2>1, Places DEF EntryLag
    <2>4. /\ since[cache[k].from][cache[k].rule] \in Nat /\ since[k][Off] \in Nat
          /\ downAge[cache[k].rule.primary] \in Nat
      BY <1>1, <2>3, RuleFacts, Bounds DEF TypeOK
    <2> QED
      BY <2>1, <2>2, <2>4, Bounds DEF EntryLag
  <1>3. ASSUME table.age <= TTL
        PROVE  LET tries == Tries("exact")
                   n     == Strategy(table.rule)
               IN  /\ n <= Len(tries) => since[tries[n]][table.rule[tries[n]]] <= Window
                   /\ \A i \in 1..Len(tries) : i < n => since[tries[i]][Off] <= Window
    <2>1. service = "mt" /\ table.rule \in [Keys -> Cells] /\ table.age \in 0..(TTL + 1)
      BY <1>1, <1>3 DEF TypeOK, TableLag
    <2>2. Window = TTL + MaxWork
      BY <2>1 DEF Window
    <2>3. \A h \in Keys : since[h][table.rule[h]] \in Nat
      BY <1>1, <2>1, Bounds DEF TypeOK
    <2>4. \A h \in Keys : since[h][table.rule[h]] <= Window
      BY <1>1, <1>3, <2>1, <2>2, <2>3, Bounds DEF TableLag
    <2>5. /\ Len(Tries("exact")) = 4 /\ Strategy(table.rule) \in 1..5
          /\ \A i \in 1..4 : i < Strategy(table.rule) => table.rule[Tries("exact")[i]] = Off
          /\ \A i \in 1..4 : Tries("exact")[i] \in Keys
      BY <2>1, StrategyFirst
    <2>6. Strategy(table.rule) <= 4 => Strategy(table.rule) \in 1..4
      BY <2>5
    <2> QED
      BY <2>4, <2>5, <2>6
  <1> QED
    BY <1>1, <1>2, <1>3 DEF RouteWasConfigured

\* What a router answers was configured within the last lifetime and the work on one
\* message: the rule it follows, the absence of the rules tried before, and the failures
\* for which it leaves the primary provider (route of the routers, and their caches).
THEOREM RouteConfigured == Spec => []RouteWasConfigured
  BY InductiveInvariant, AnswersConfigured, PTL

\* A provider that the TTS router has marked down failed twice or more since a success
\* was recorded: one message that could not be published adds one failure, and no more.
THEOREM DownEarned == Spec => []DownIsEarned
  <1>1. IInv => DownIsEarned
    <2> SUFFICES ASSUME IInv, NEW p \in Providers, Down(p)
                 PROVE  bad[p] >= Limit - 1
      BY DEF DownIsEarned
    <2>1. fails[p] = Limit /\ bad[p] \in Nat /\ fails[p] <= bad[p] + 1
      BY DEF Down, IInv, FailuresEarned, TypeOK, Limit
    <2> QED
      BY <2>1, Bounds
  <1> QED
    BY InductiveInvariant, <1>1, PTL
=============================================================================
