------------------------------ MODULE MCCosts ------------------------------
(* An instance of Costs for TLC.                                            *)
EXTENDS Costs, TLC

CONSTANTS a, b, u1, u2

\* Only the room of b has speakers.
MCSpeakers == a :> 0 @@ b :> 2

MCProviders == [stt |-> {"speechmatics"}, mt |-> {"deepl"}, tts |-> {"google_tts"}]

\* What migrations 008 and 015 insert, and a new price of the STT provider.
MCPrices ==
    {[service |-> "stt", provider |-> "speechmatics", model |-> "per_hour", price |-> 1, from |-> 0],
     [service |-> "stt", provider |-> "speechmatics", model |-> "per_hour", price |-> 2, from |-> 60],
     [service |-> "mt", provider |-> "deepl", model |-> "per_1m_chars", price |-> 1, from |-> 0],
     [service |-> "tts", provider |-> "google_tts", model |-> "per_character", price |-> 1, from |-> 0]}

\* Day 0 is Monday, 2 December 2024.
MCFirstDay == <<2024, 12>> :> -1 @@ <<2025, 1>> :> 30 @@ <<2025, 2>> :> 61

\* Saturday, New Year, and Sunday of the week after, each at 0:00.
MCInstants == {52, 60, 68}

MCThresholds == {<<50, 75>>}

MCAmounts == {2, 4}
=============================================================================
