------------------------------- MODULE SavedFile -------------------------------
(***************************************************************************)
(* What the program promises about a file it saves documents in, with no   *)
(* temporary file, no steps of a write and no crash: somebody asks for a   *)
(* document to be saved, and then the file holds that document or what it  *)
(* held before.  The program never takes a document out of the file, and   *)
(* puts none into it that was not asked for.                               *)
(***************************************************************************)
CONSTANTS Doc,      \* the documents that can be asked for
          Nothing,  \* no document
          First,    \* what the file may hold at the beginning
          Foreign   \* what others may put into it

VARIABLES
    stored,   \* what the file holds
    asked     \* the document that is to be saved

savedVars == <<stored, asked>>

Init == stored \in First /\ asked = Nothing

Ask ==
    /\ asked = Nothing
    /\ asked' \in Doc
    /\ UNCHANGED stored

\* All of the document replaces all of the file.
Done ==
    /\ asked \in Doc
    /\ stored' = asked /\ asked' = Nothing

\* The save fails, or the process dies.
GiveUp ==
    /\ asked \in Doc
    /\ asked' = Nothing
    /\ UNCHANGED stored

Replace ==
    /\ asked = Nothing
    /\ stored' \in Foreign
    /\ UNCHANGED asked

Next == Ask \/ Done \/ GiveUp \/ Replace

Spec == Init /\ [][Next]_savedVars
================================================================================
