-------------------------- MODULE MCConnectionHandler --------------------------
(***************************************************************************)
(* A statement of the repository about the connection handler.             *)
(***************************************************************************)
EXTENDS ConnectionHandler

\* docs/getting-started.md:148 tells the user to "Enter the PIN shown on the
\* server screen": while nothing is being re-armed and the last arming worked,
\* the PIN shown is the PIN the registrar waits for.
DisplayedPinIsArmed == Quiet /\ ~armFailed => shown = armed

===============================================================================
