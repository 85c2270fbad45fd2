------------------------- MODULE MCTargetLanguages -------------------------
EXTENDS TargetLanguages

\* Tokens that are older than a change of language.
MCToken == [u \in Users |-> "en"]
=============================================================================
