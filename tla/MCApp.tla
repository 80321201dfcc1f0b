------------------------------- MODULE MCApp -------------------------------
(* Constants and bound of the model-checked instance of App, and a statement *)
(* of the repository about it.                                               *)
EXTENDS App

\* Two social channels: one to begin with and one to rotate to.
MCSocials == <<"2.4GHz ch1", "2.4GHz ch6">>

\* Bound: how far TLC follows a run.  The more sources have joined and switches
\* were made, the fewer events may be queued.
Bounded == Len(events) + joins + switches <= 3

\* The discovery watchdog acts "After 60 s advertising with no source
\* (`AP-STA-CONNECTED`)" (src/PORT_NOTES.md:226): while a source that joined is
\* waiting for its address, its group is not taken down by the watchdog.  With no
\* interface switch, nothing else takes a group down before the program ends.
JoiningSourceKeepsGroup ==
    switches = 0 /\ loop # "ended" => joining \subseteq groups
=============================================================================
