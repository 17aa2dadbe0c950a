--------------------------- MODULE AtomicCounter ---------------------------
(***************************************************************************)
(* What gige_request_counter.h promises ("Returns the next request number. *)
(* This method is thread safe."): a counter on which every call is one     *)
(* indivisible step.  RequestCounter, the compare-and-exchange loop of the *)
(* code, is checked and proved to implement it.                            *)
(***************************************************************************)
EXTENDS RequestIds

CONSTANT Threads

VARIABLES counter,  \* the number handed out last, 0 before the first call
          phase,    \* what each thread is doing: idle, calling or holding
          id        \* the number each thread received last

vars == <<counter, phase, id>>

Init ==
  /\ counter = 0
  /\ phase = [t \in Threads |-> "idle"]
  /\ id = [t \in Threads |-> 0]

Invoke(t) ==
  /\ phase[t] = "idle"
  /\ phase' = [phase EXCEPT ![t] = "calling"]
  /\ UNCHANGED <<counter, id>>

Return(t) ==
  /\ phase[t] = "calling"
  /\ counter' = Successor(counter)
  /\ id' = [id EXCEPT ![t] = Successor(counter)]
  /\ phase' = [phase EXCEPT ![t] = "holding"]

Finish(t) ==
  /\ phase[t] = "holding"
  /\ phase' = [phase EXCEPT ![t] = "idle"]
  /\ UNCHANGED <<counter, id>>

Next == \E t \in Threads : Invoke(t) \/ Return(t) \/ Finish(t)

Spec == Init /\ [][Next]_vars

=============================================================================
