---------------------------- MODULE MCStreamText ----------------------------
EXTENDS StreamText
=============================================================================
