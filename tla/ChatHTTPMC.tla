----------------------------- MODULE ChatHTTPMC -----------------------------
(* Instances of ChatHTTP for TLC: all requests go to one conversation.     *)
EXTENDS ChatHTTP, TLC

CONSTANT c1

NoJobs == {}
NoJobConvs == <<>>
OneConv == {c1}
ToOneConv == [p \in Procs |-> c1]
RequestTopics == Procs
=============================================================================
