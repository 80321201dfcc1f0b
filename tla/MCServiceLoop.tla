----------------------------- MODULE MCServiceLoop ----------------------------
(* A claim of the repository about the service loop, for TLC. *)
EXTENDS ServiceLoop

(***************************************************************************)
(* docs/service-mode.md:88 says that service mode "Records sessions to     *)
(* history on stream end".  When the process has exited, every session     *)
(* that was started should have left a record.                             *)
(***************************************************************************)
EverySessionRecorded == loop = "exited" => Len(history) >= started

===============================================================================
