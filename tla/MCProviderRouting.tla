------------------------- MODULE MCProviderRouting -------------------------
(* A small instance of ProviderRouting for TLC: one provider with a backend *)
(* and one without, and a rule with a fallback that can be turned off.      *)
EXTENDS ProviderRouting

MCRules == {[primary |-> "google", fallback |-> "azure"]}
=============================================================================
