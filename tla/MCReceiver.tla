------------------------------ MODULE MCReceiver ------------------------------
(* What the repository says of the end of a reception.                        *)
EXTENDS Receiver

(***************************************************************************)
(* receiver.rs:631 says of stop_receiving: "Stop receiving and clean up."  *)
(* Once it has returned and no session thread lives, no pipeline should be *)
(* left playing in the slot.                                               *)
(***************************************************************************)
CleanedUp ==
    (/\ ~running
     /\ stopping = "no"
     /\ started > 0
     /\ \A s \in Session : ~RtspAlive(s))
        => pipeline = NoSession

===============================================================================
