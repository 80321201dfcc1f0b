------------------------------- MODULE JsonFile -------------------------------
(***************************************************************************)
(* One JSON file and write_json_0600 of config.rs, which the configuration *)
(* and the session history share: the document is written to <path>.tmp,   *)
(* which is then renamed to <path>.  Any step may fail, and the process    *)
(* may die between any two.                                                *)
(***************************************************************************)
CONSTANTS Doc,     \* the documents the program writes
          Spoiled  \* what the program cannot use: not JSON, or of another type

VARIABLES
    disk,   \* what <path> holds
    tmp,    \* what <path>.tmp holds
    job     \* the write that is under way

fileVars == <<disk, tmp, job>>

Missing == [file |-> "missing"]   \* there is no such file
Torn == [file |-> "torn"]         \* the beginning of a document
Whole == [file |-> "whole"]       \* the document of the write that made the file
Idle == [at |-> "idle", doc |-> Missing]

FileTypeOK ==
    /\ disk \in Doc \cup Spoiled \cup {Missing, Torn}
    /\ tmp \in {Missing, Torn, Whole}
    /\ job \in {Idle} \cup [at : {"create", "write", "rename"}, doc : Doc]

\* The file an earlier use of the program left, if any.
FileInit(D) == disk \in D \cup {Missing} /\ tmp = Missing /\ job = Idle

\* A document is to be written.
Begin(d) ==
    /\ job = Idle
    /\ job' = [at |-> "create", doc |-> d]
    /\ UNCHANGED <<disk, tmp>>

\* Mutation of Create: the file itself is opened and truncated.
CreateInPlace ==
    /\ job.at = "create"
    /\ disk' = Torn /\ tmp' = Torn
    /\ job' = [job EXCEPT !.at = "write"]

\* The temporary file is created, or one that a crash left behind is truncated.
Create ==
    /\ job.at = "create"
    /\ tmp' = Torn
    /\ job' = [job EXCEPT !.at = "write"]
    /\ UNCHANGED disk

WriteAll ==
    /\ job.at = "write"
    /\ tmp' = Whole
    /\ job' = [job EXCEPT !.at = "rename"]
    /\ UNCHANGED disk

\* The rename succeeds: the write is done.
Rename ==
    /\ job.at = "rename"
    /\ disk' = job.doc /\ tmp' = Missing /\ job' = Idle

\* Mutation of WriteFails: the file is removed with the temporary one.
WriteFailsBoth ==
    /\ job # Idle
    /\ disk' = Missing /\ tmp' = Missing /\ job' = Idle

\* A step fails: the temporary file is removed if it can be, and the error is
\* returned.
WriteFails ==
    /\ job # Idle
    /\ tmp' \in {tmp, Missing} /\ job' = Idle
    /\ UNCHANGED disk

\* The process dies.
WriterDies == job' = Idle /\ UNCHANGED <<disk, tmp>>

\* While no write is under way, somebody edits the file.
Edit(d) == job = Idle /\ disk' = d /\ UNCHANGED <<tmp, job>>
===============================================================================
