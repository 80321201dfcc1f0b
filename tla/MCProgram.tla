------------------------------ MODULE MCProgram ------------------------------
(* A statement of the repository about Program.                             *)
EXTENDS Program

\* "Shutdown is triggered by SIGTERM, SIGINT, or window close"
\* (src/docs/architecture.md:169), and "On shutdown: kills the dedicated process
\* and restores NM management" (src/docs/architecture.md:192): when no command
\* failed, no daemon of a run that ended that way is left, and NetworkManager has
\* the adapter that the run took.
ShutdownRestores ==
    phase = "off" /\ ended \in {"closed", "SIGTERM"} /\ took # {} /\ mishaps = {} =>
        managed /\ live = {}
==============================================================================
