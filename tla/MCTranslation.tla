--------------------------- MODULE MCTranslation ---------------------------
EXTENDS Translation, TLC

CONSTANTS x, y

\* Three enrolled speakers, two of one language.
MCSpeakerLang == <<"ar", "en", "en">>

\* Texts are only compared.
Symmetry == Permutations(Texts)
=============================================================================
