----------------------------- MODULE TaskBoard ------------------------------
(***************************************************************************)
(* What a delivery workspace promises to people who use it one command at  *)
(* a time: a board with one status per task.  Moves follow the lifecycle   *)
(* table; the passing states in between are never shown; a settled task    *)
(* moves only when it is proposed anew; a crash may spoil a card, and only *)
(* a new proposal repairs it.                                              *)
(***************************************************************************)
EXTENDS Lifecycle

CONSTANT Tasks

VARIABLE board

Init == board = [t \in Tasks |-> "absent"]

Verdicts == {"accepted", "rejected", "blocked"}

Shows(t, status) == board' = [board EXCEPT ![t] = status]

Propose(t) == Shows(t, "pending")

Submit(t) == board[t] = "pending" /\ Shows(t, "submitted")

Judge(t) ==
  /\ board[t] \in {"pending", "submitted"}
  /\ \E verdict \in Verdicts :
       CanMove("submitted", verdict) /\ Shows(t, verdict)

Spoil(t) == board[t] # "absent" /\ Shows(t, "corrupt")

Next == \E t \in Tasks : Propose(t) \/ Submit(t) \/ Judge(t) \/ Spoil(t)

Spec == Init /\ [][Next]_board
=============================================================================
