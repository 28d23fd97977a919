--------------------------- MODULE MCFactoryReset ---------------------------
EXTENDS FactoryReset
CONSTANTS d1, d2
\* two sessions, one that may be short and one that may not: the two kinds of the table of
\* the code.  One more session multiplies the states by ten, too many for a liveness check.
MCSerials == <<0, 1, 1, 2>>
MCData == <<d1, d2>>
=============================================================================
