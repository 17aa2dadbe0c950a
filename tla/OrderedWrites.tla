--------------------------- MODULE OrderedWrites ----------------------------
(***************************************************************************)
(* What a configuration promises, seen from the device: the effects of a   *)
(* plan happen one after the other, each at most once and none before its  *)
(* predecessor; the caller is told of success only when all of them have   *)
(* happened.  A failure may be reported at any time, and the effect that   *)
(* was under way may still happen after it.                                *)
(***************************************************************************)
EXTENDS Naturals

VARIABLES length,   \* how many effects the plan has, fixed once it is made
          applied,  \* the effects that have happened
          told      \* what the caller was told: nothing, success or failure

vars == <<length, applied, told>>

Init ==
  /\ length \in Nat
  /\ applied = {}
  /\ told = "nothing"

Apply(i) ==
  /\ told # "success"
  /\ i \notin applied
  /\ \A j \in 1..(i - 1) : j \in applied
  /\ applied' = applied \union {i}
  /\ UNCHANGED <<length, told>>

Tell ==
  /\ told = "nothing"
  /\ told' \in {"success", "failure"}
  /\ told' = "success" => applied = 1..length
  /\ UNCHANGED <<length, applied>>

Next == Tell \/ \E i \in 1..length : Apply(i)

Spec == Init /\ [][Next]_vars

=============================================================================
