-------------------------- MODULE ProviderRouting --------------------------
(***************************************************************************)
(* Which provider serves a language: the rules in stt_routing_config,      *)
(* mt_routing_config and tts_routing_config, the table provider_health,    *)
(* and what one router keeps of them. The STT and TTS routers              *)
(* (language_router.py of each) query the rules of a language, the health  *)
(* of its provider, and keep the answer; the MT router (mt/router.py)      *)
(* keeps the whole table. Only the TTS router (tts/router.py) records how  *)
(* its calls went.                                                         *)
(***************************************************************************)
EXTENDS Naturals, Sequences

CONSTANTS
    Providers,
    Backends,    \* providers the TTS router has a backend for
    Default,     \* the provider that serves without a rule
    None,        \* no fallback
    Rules,       \* rules administrators write: [primary, fallback]
    Languages,   \* what people speak: with a code, or unknown
    TTL,         \* lifetime of an entry in ticks
    Day,         \* ticks of a day
    MaxWork,     \* bound: ticks a router works on a message
    MaxChanges,  \* bound: changes of rules and resets of health
    MaxFaults    \* bound: failures of the database or of Redis

ASSUME RoutingAssumption ==
    /\ Backends \subseteq Providers
    /\ Default \in Providers
    /\ None \notin Providers
    /\ Rules \subseteq [primary : Providers, fallback : Providers \cup {None}]
    /\ Languages \subseteq {"coded", "unknown"}
    /\ TTL \in Nat \ {0}
    /\ Day \in Nat /\ Day > TTL
    /\ MaxWork \in Nat
    /\ MaxChanges \in Nat
    /\ MaxFaults \in Nat

Services == {"stt", "mt", "tts"}
\* A rule is for a language (or a pair), for one side of a pair, or for all.
Keys  == {"exact", "from", "to", "any"}

\* "auto" and what has no code are looked up like a language of their own.
KeyFor(lang) == IF lang = "unknown" THEN "any" ELSE "exact"

Asked == {KeyFor(lang) : lang \in Languages}

Off   == [primary |-> None, fallback |-> None]   \* no row, or not enabled
Cells == Rules \cup {Off}

Limit == 3   \* failures in a row: degraded from the first, down from the third

VARIABLES
    service,  \* the router that looks; they share only the database
    rules,    \* the rule of each key
    fails,    \* consecutive_failures of each provider, up to Limit
    cache,    \* _routing_cache of the STT or TTS router
    table,    \* routing_cache of the MT router, and its age
    query,    \* the message in work
    since,    \* history: ticks since a key had a rule
    downAge,  \* history: ticks since a provider was down
    pause,    \* history: ticks since the entry of a key was used or filled
    rested,   \* history: keys with a pause of nearly a day since their entry was filled
    bad,      \* history: calls of a provider since its last recorded success that
              \* failed, or succeeded without being recorded
    changes, faults

env     == <<service, changes>>
history == <<since, downAge, pause, rested, bad>>
vars    == <<service, rules, fails, cache, table, query, history, changes, faults>>

NoEntry == [age |-> 0, from |-> "none", rule |-> Off, provider |-> None]
Idle    == [at |-> "idle", key |-> "any", try |-> 1, rule |-> Off, provider |-> None,
            seen |-> [k \in Keys |-> Off], took |-> 0]

\* How far an answer may lag. The MT router compares with > where the others use <.
Window  == (IF service = "mt" THEN TTL ELSE TTL - 1) + MaxWork
LongAgo == TTL + MaxWork + 1
Gap     == Day - TTL

Cleared == [k \in Asked |-> NoEntry]

Older(n, top) == IF n < top THEN n + 1 ELSE top

\* The rules that are tried for a key, the first that is enabled counts.
Tries(key) == IF key = "any" THEN <<"any">>
              ELSE IF service = "mt" THEN <<"exact", "from", "to", "any">>
              ELSE <<"exact", "any">>

Down(p) == fails[p] = Limit

Init ==
    /\ service \in Services
    /\ rules \in [Keys -> Cells]
    /\ \A k \in {"from", "to"} : service # "mt" => rules[k] = Off
    /\ fails = [p \in Providers |-> 0]
    /\ cache = Cleared
    /\ table = [rule |-> [k \in Keys |-> Off], age |-> TTL + 1]
    /\ query = Idle
    /\ since = [k \in Keys |-> [v \in Cells |-> IF v = rules[k] THEN 0 ELSE LongAgo]]
    /\ downAge = [p \in Providers |-> LongAgo]
    /\ pause = [k \in Asked |-> 0]
    /\ rested = {}
    /\ bad = [p \in Providers |-> 0]
    /\ changes = 0
    /\ faults = 0

Fault == faults < MaxFaults /\ faults' = faults + 1
-----------------------------------------------------------------------------
\* Administrators. The API process clears its own copy of the STT cache, which
\* no router reads; MT and TTS rules are changed in the database.
UpdateRouting(k) ==
    /\ changes < MaxChanges
    /\ service # "mt" => k \in {"exact", "any"}
    /\ \E v \in Cells :
         /\ rules' = [rules EXCEPT ![k] = v]
         /\ since' = [since EXCEPT ![k][rules[k]] = 0, ![k][v] = 0]
    /\ changes' = changes + 1
    /\ UNCHANGED <<service, fails, cache, table, query, downAge, pause, rested, bad, faults>>

SetFails(p, n) ==
    /\ fails' = [fails EXCEPT ![p] = n]
    /\ downAge' = [downAge EXCEPT ![p] = IF Down(p) \/ n = Limit THEN 0 ELSE @]

ResetHealth(p) ==
    /\ changes < MaxChanges
    /\ SetFails(p, 0)
    /\ bad' = [bad EXCEPT ![p] = 0]
    /\ changes' = changes + 1
    /\ UNCHANGED <<service, rules, cache, table, query, since, pause, rested, faults>>

\* A notice on routing_cache_clear without a language: a change of some room's
\* discovery mode. The MT router does not listen.
ClearNotice ==
    /\ service # "mt"
    /\ cache' = Cleared
    /\ UNCHANGED <<env, rules, fails, table, query, history, faults>>
-----------------------------------------------------------------------------
\* Mutant: off by one at the end of the lifetime.
FreshThrough(k) == cache[k] # NoEntry /\ cache[k].age <= TTL

\* timedelta.seconds leaves out whole days: age is counted modulo a day.
Fresh(k) == cache[k] # NoEntry /\ cache[k].age < TTL

\* What happens to the message: the TTS router speaks, the others call elsewhere.
Proceed(p) == query' = IF service = "tts"
                       THEN [Idle EXCEPT !.at = "use", !.provider = p, !.took = query.took]
                       ELSE Idle

Hit(k) ==
    /\ service # "mt"
    /\ query.at = "idle"
    /\ Fresh(k)
    /\ pause' = [pause EXCEPT ![k] = 0]
    /\ Proceed(cache[k].provider)
    /\ UNCHANGED <<env, rules, fails, cache, table, since, downAge, rested, bad, faults>>

Miss(k) ==
    /\ service # "mt"
    /\ query.at = "idle"
    /\ ~Fresh(k)
    /\ query' = [Idle EXCEPT !.at = "rule", !.key = k]
    /\ UNCHANGED <<env, rules, fails, cache, table, history, faults>>

\* Without a rule or a database the default provider serves, and nothing is kept.
UseDefault == Proceed(Default)

ReadRule ==
    /\ query.at = "rule"
    /\ LET tries == Tries(query.key)
           rule  == rules[tries[query.try]]
       IN  \/ /\ rule # Off
              /\ query' = [query EXCEPT !.at = "health", !.rule = rule]
           \/ /\ rule = Off /\ query.try < Len(tries)
              /\ query' = [query EXCEPT !.try = @ + 1]
           \/ rule = Off /\ query.try = Len(tries) /\ UseDefault
    /\ UNCHANGED <<env, rules, fails, cache, table, history, faults>>

LookupFails ==
    /\ query.at = "rule"
    /\ Fault
    /\ UseDefault
    /\ UNCHANGED <<env, rules, fails, cache, table, history>>

\* Mutant: the fallback is not read from the rule.
ChosenPrimary(rule) == rule.primary

Chosen(rule) == IF Down(rule.primary) /\ rule.fallback # None THEN rule.fallback
                ELSE rule.primary

Keep(p) ==
    LET from == Tries(query.key)[query.try]
    IN  /\ cache' = [cache EXCEPT ![query.key] = [age |-> 0, from |-> from, rule |-> query.rule,
                                                  provider |-> p]]
        /\ pause' = [pause EXCEPT ![query.key] = 0]
        /\ rested' = rested \ {query.key}
        /\ Proceed(p)

\* When the health cannot be read the provider counts as healthy.
ReadHealth ==
    /\ query.at = "health"
    /\ \/ Keep(Chosen(query.rule)) /\ UNCHANGED faults
       \/ Keep(query.rule.primary) /\ Fault
    /\ UNCHANGED <<env, rules, fails, table, since, downAge, bad>>
-----------------------------------------------------------------------------
\* The MT router loads the whole table, before the first message and when it is
\* too old. If that fails the old one stays in use, and the next message tries again.
ReadTable ==
    /\ service = "mt"
    /\ query.at = "idle"
    /\ table.age > TTL
    /\ query' = [Idle EXCEPT !.at = "loaded", !.seen = rules]
    /\ UNCHANGED <<env, rules, fails, cache, table, history, faults>>

KeepTable ==
    /\ query.at = "loaded"
    /\ table' = [rule |-> query.seen, age |-> 0]
    /\ query' = Idle
    /\ UNCHANGED <<env, rules, fails, cache, history, faults>>

LoadFails ==
    /\ query.at = "loaded"
    /\ Fault
    /\ query' = Idle
    /\ UNCHANGED <<env, rules, fails, cache, table, history>>

\* The place among the rules tried for a pair of the one that counts.
Strategy(t) ==
    LET tries == Tries("exact")
        found == {i \in 1..Len(tries) : t[tries[i]] # Off}
    IN  IF found = {} THEN Len(tries) + 1 ELSE CHOOSE n \in found : \A m \in found : n <= m
-----------------------------------------------------------------------------
\* The TTS router speaks one message and records how it went.

SpeakOk(p) ==
    /\ query.at = "use" /\ query.provider = p
    /\ p \in Backends
    /\ query' = [query EXCEPT !.at = "spoken"]
    /\ UNCHANGED <<env, rules, fails, cache, table, history, faults>>

SpeakFails(p) ==
    /\ query.at = "use" /\ query.provider = p
    /\ query' = [query EXCEPT !.at = "failed"]
    /\ bad' = [bad EXCEPT ![p] = Older(@, Limit - 1)]
    /\ UNCHANGED <<env, rules, fails, cache, table, since, downAge, pause, rested, faults>>

\* Mutant: the row is marked healthy, its counter goes on.
RecordsNothing(p) == UNCHANGED <<fails, downAge>>

Recovers(p) == SetFails(p, 0)

\* Errors of the update are logged and forgotten.
RecordSuccess(p) ==
    /\ query.at = "spoken" /\ query.provider = p
    /\ \/ /\ Recovers(p)
          /\ bad' = [bad EXCEPT ![p] = 0]
          /\ UNCHANGED faults
       \/ /\ Fault
          /\ bad' = [bad EXCEPT ![p] = Older(@, Limit - 1)]
          /\ UNCHANGED <<fails, downAge>>
    /\ query' = [query EXCEPT !.at = "publish"]
    /\ UNCHANGED <<env, rules, cache, table, since, pause, rested>>

\* The audio and then its cost; the handler of errors takes what fails here for
\* a failure of the provider.
Publish ==
    /\ query.at = "publish"
    /\ \/ query' = Idle /\ UNCHANGED faults
       \/ query' = [query EXCEPT !.at = "failed"] /\ Fault
    /\ UNCHANGED <<env, rules, fails, cache, table, history>>

RecordFailure(p) ==
    /\ query.at = "failed" /\ query.provider = p
    /\ \/ SetFails(p, Older(fails[p], Limit)) /\ UNCHANGED faults
       \/ (Fault /\ UNCHANGED <<fails, downAge>>)
    /\ query' = Idle
    /\ UNCHANGED <<env, rules, cache, table, since, pause, rested, bad>>
-----------------------------------------------------------------------------
Aged(e) == IF e = NoEntry THEN e ELSE [e EXCEPT !.age = (@ + 1) % Day]

Tick ==
    /\ query.at = "idle" \/ query.took < MaxWork
    /\ cache' = [k \in Asked |-> Aged(cache[k])]
    /\ table' = [table EXCEPT !.age = Older(@, TTL + 1)]
    /\ query' = IF query.at = "idle" THEN query ELSE [query EXCEPT !.took = @ + 1]
    /\ since' = [k \in Keys |-> [v \in Cells |-> IF v = rules[k] THEN 0
                                                 ELSE Older(since[k][v], LongAgo)]]
    /\ downAge' = [p \in Providers |-> IF Down(p) THEN 0 ELSE Older(downAge[p], LongAgo)]
    /\ pause' = [k \in Asked |-> Older(pause[k], Gap)]
    /\ rested' = rested \cup {k \in Asked : pause'[k] = Gap}
    /\ UNCHANGED <<env, rules, fails, bad, faults>>

Recording == Publish \/ \E p \in Providers : SpeakOk(p) \/ SpeakFails(p)
                                             \/ RecordSuccess(p) \/ RecordFailure(p)

Working == ReadRule \/ ReadHealth \/ KeepTable \/ Recording

Asking == ReadTable \/ LoadFails \/ LookupFails
          \/ \E k \in Asked : Hit(k) \/ Miss(k)

Admin == (\E k \in Keys : UpdateRouting(k)) \/ (\E p \in Providers : ResetHealth(p)) \/ ClearNotice

Next == Admin \/ Asking \/ Working \/ Tick

Spec == Init /\ [][Next]_vars

\* Time passes, what was started goes on, and people speak every language again
\* and again, at times when it is cached and at times when it is not.
FairSpec == /\ Spec
            /\ WF_vars(Tick)
            /\ WF_vars(Working)
            /\ \A k \in Asked : SF_vars(Hit(k)) /\ SF_vars(Miss(k))
-----------------------------------------------------------------------------
Entries == [age : 0..(Day - 1), from : Keys \cup {"none"}, rule : Cells,
            provider : Providers \cup {None}]

Queries == [at : {"idle", "rule", "health", "loaded", "use", "spoken", "publish", "failed"},
            key : Asked \cup {"any"}, try : 1..2, rule : Cells, provider : Providers \cup {None},
            seen : [Keys -> Cells], took : 0..MaxWork]

TypeOK ==
    /\ service \in Services
    /\ rules \in [Keys -> Cells]
    /\ fails \in [Providers -> 0..Limit]
    /\ cache \in [Asked -> Entries]
    /\ table \in [rule : [Keys -> Cells], age : 0..(TTL + 1)]
    /\ query \in Queries
    /\ since \in [Keys -> [Cells -> 0..LongAgo]]
    /\ downAge \in [Providers -> 0..LongAgo]
    /\ pause \in [Asked -> 0..Gap]
    /\ rested \subseteq Asked
    /\ bad \in [Providers -> 0..(Limit - 1)]
    /\ changes \in 0..MaxChanges
    /\ faults \in 0..MaxFaults

\* What a router would answer was configured within the last lifetime and query:
\* the rule was there, the rules tried before it were not, and a fallback is used
\* only if the provider it stands for was down. The exception is an entry nobody
\* used for a day less a lifetime: its age is compared without the days. (Besides,
\* the state is well typed.)
RouteWasConfigured ==
    /\ TypeOK
    /\ \A k \in Asked \ rested : Fresh(k) =>
         LET e == cache[k] IN
         /\ since[e.from][e.rule] <= Window
         /\ e.from # k => since[k][Off] <= Window
         /\ e.provider # e.rule.primary => downAge[e.rule.primary] <= Window
    /\ table.age <= TTL =>
         LET tries == Tries("exact")
             n     == Strategy(table.rule)
         IN  /\ n <= Len(tries) => since[tries[n]][table.rule[tries[n]]] <= Window
             /\ \A i \in 1..Len(tries) : i < n => since[tries[i]][Off] <= Window

\* A provider is down only if its calls failed twice or more since a success was
\* recorded, not because of messages that could not be published: for such a
\* message the success is recorded first, and only then the failure. A success
\* that could not be recorded counts like a failed call.
DownIsEarned == \A p \in Providers : Down(p) => bad[p] >= Limit - 1

\* Failover: when the provider of a rule with a fallback never again speaks a
\* message, the TTS router leaves it, and stays with the fallback.
FailsOver ==
    \A k \in Asked, p \in Providers :
        (/\ service = "tts"
         /\ <>[](rules[k].primary = p /\ rules[k].fallback \notin {None, p})
         /\ <>[][~SpeakOk(p)]_vars)
        => <>[](cache[k] # NoEntry => cache[k].provider # p)
=============================================================================
