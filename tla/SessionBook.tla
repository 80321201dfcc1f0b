----------------------------- MODULE SessionBook ------------------------------
(***************************************************************************)
(* What the owner of the receiver promises about the session history, with *)
(* no threads, events or pipelines: sessions are begun one at a time, a    *)
(* session that is over leaves a record that is due, and a due record is   *)
(* never dropped.  A session may be reported over more than once, and then *)
(* more than one record is due: the code has no identity to tell.          *)
(***************************************************************************)
EXTENDS Naturals

VARIABLES
    begun,    \* how many sessions were begun
    open,     \* is a session open?
    due,      \* records that will be written if the owner goes on
    records   \* records written

bvars == <<begun, open, due, records>>

Init ==
    /\ begun = 0
    /\ open = FALSE
    /\ due = 0
    /\ records = 0

Begin ==
    /\ ~open
    /\ open' = TRUE
    /\ begun' = begun + 1
    /\ UNCHANGED <<due, records>>

End ==
    /\ open
    /\ open' = FALSE
    /\ due' = due + 1
    /\ UNCHANGED <<begun, records>>

ReportAgain ==
    /\ due' = due + 1
    /\ UNCHANGED <<begun, open, records>>

Record ==
    /\ due > 0
    /\ due' = due - 1
    /\ records' = records + 1
    /\ UNCHANGED <<begun, open>>

Next == Begin \/ End \/ ReportAgain \/ Record

Spec == Init /\ [][Next]_bvars

TypeOK ==
    /\ begun \in Nat
    /\ open \in BOOLEAN
    /\ due \in Nat
    /\ records \in Nat

\* Every session begun is open, or has a record written or due.
NothingLost == begun <= records + due + (IF open THEN 1 ELSE 0)

===============================================================================
