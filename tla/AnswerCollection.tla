-------------------------- MODULE AnswerCollection --------------------------
(***************************************************************************)
(* What a discovery promises its caller, without threads, locks or time:   *)
(* answers arrive in any order; now and then everything that has arrived   *)
(* is reported at once; the collection is closed at an instant at which    *)
(* nothing that has arrived is left unreported.  What arrives later is     *)
(* never reported.                                                         *)
(***************************************************************************)
CONSTANT Answers  \* everything that may arrive

VARIABLES arrived,   \* the answers that were accepted so far
          reported,  \* those the caller was given
          closed     \* TRUE once the caller stopped asking

vars == <<arrived, reported, closed>>

Init ==
  /\ arrived = {}
  /\ reported = {}
  /\ closed = FALSE

Arrive(a) ==
  /\ a \notin arrived
  /\ arrived' = arrived \union {a}
  /\ UNCHANGED <<reported, closed>>

Report ==
  /\ ~closed
  /\ reported # arrived
  /\ reported' = arrived
  /\ UNCHANGED <<arrived, closed>>

Close ==
  /\ ~closed
  /\ reported = arrived
  /\ closed' = TRUE
  /\ UNCHANGED <<arrived, reported>>

Next == Report \/ Close \/ \E a \in Answers : Arrive(a)

Spec == Init /\ [][Next]_vars

=============================================================================
