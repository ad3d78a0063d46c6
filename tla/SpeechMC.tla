------------------------------- MODULE SpeechMC -------------------------------
EXTENDS Speech

CONSTANTS c1

OneTask == [p \in Polls |-> c1]
=============================================================================
