--------------------------- MODULE RequestCounter ---------------------------
(***************************************************************************)
(* GigERequestCounter::getNext: one process-wide atomic counter drawn from *)
(* by several threads (in rcdiscover-gui the discover thread and the GUI   *)
(* thread, which sends FORCEIP and register commands) with a load, a       *)
(* computed successor and a weak compare-and-exchange, in a loop.          *)
(***************************************************************************)
EXTENDS RequestIds

CONSTANTS Threads,   \* the threads that call getNext
          MaxCalls   \* bound: no call starts once this many have completed

ASSUME MaxCallsAssumption == MaxCalls \in Nat

VARIABLES
  counter,   \* the static atomic
  pc,        \* where each thread is: idle, load, cas, or holding a number
  current,   \* its local copy of the counter
  id,        \* the number its last call returned
  calls,     \* history: how many calls of the process have completed
  ticket     \* history: which of them was this thread's last call

vars == <<counter, pc, current, id, calls, ticket>>

Init ==
  /\ counter = 0
  /\ pc = [t \in Threads |-> "idle"]
  /\ current = [t \in Threads |-> 0]
  /\ id = [t \in Threads |-> 0]
  /\ calls = 0
  /\ ticket = [t \in Threads |-> 0]

\* A thread enters getNext.
Call(t) ==
  /\ pc[t] = "idle"
  /\ calls < MaxCalls
  /\ pc' = [pc EXCEPT ![t] = "load"]
  /\ UNCHANGED <<counter, current, id, calls, ticket>>

\* The loop body: current = counter (new_value is a function of current).
Load(t) ==
  /\ pc[t] = "load"
  /\ current' = [current EXCEPT ![t] = counter]
  /\ pc' = [pc EXCEPT ![t] = "cas"]
  /\ UNCHANGED <<counter, id, calls, ticket>>

\* Mutations of Exchange: a plain store in place of the comparison; the old
\* value is returned.
Store(t) ==
  /\ pc[t] = "cas"
  /\ counter' = Successor(current[t])
  /\ id' = [id EXCEPT ![t] = Successor(current[t])]
  /\ calls' = calls + 1
  /\ ticket' = [ticket EXCEPT ![t] = calls + 1]
  /\ pc' = [pc EXCEPT ![t] = "holding"]
  /\ UNCHANGED current

ExchangeReturningOld(t) ==
  /\ pc[t] = "cas"
  /\ counter = current[t]
  /\ counter' = Successor(current[t])
  /\ id' = [id EXCEPT ![t] = current[t]]
  /\ calls' = calls + 1
  /\ ticket' = [ticket EXCEPT ![t] = calls + 1]
  /\ pc' = [pc EXCEPT ![t] = "holding"]
  /\ UNCHANGED current

\* compare_exchange_weak(current, new_value) succeeds and getNext returns.
Exchange(t) ==
  /\ pc[t] = "cas"
  /\ counter = current[t]
  /\ counter' = Successor(current[t])
  /\ id' = [id EXCEPT ![t] = Successor(current[t])]
  /\ calls' = calls + 1
  /\ ticket' = [ticket EXCEPT ![t] = calls + 1]
  /\ pc' = [pc EXCEPT ![t] = "holding"]
  /\ UNCHANGED current

\* It fails, because another thread was faster or (weak form) for no reason.
\* The loop starts over and loads the counter afresh.
Retry(t) ==
  /\ pc[t] = "cas"
  /\ pc' = [pc EXCEPT ![t] = "load"]
  /\ UNCHANGED <<counter, current, id, calls, ticket>>

\* The caller has no more use for its number: the request is over.
Finish(t) ==
  /\ pc[t] = "holding"
  /\ pc' = [pc EXCEPT ![t] = "idle"]
  /\ UNCHANGED <<counter, current, id, calls, ticket>>

Next == \E t \in Threads : Call(t) \/ Load(t) \/ Exchange(t) \/ Retry(t) \/ Finish(t)

Spec == Init /\ [][Next]_vars

-----------------------------------------------------------------------------
(* Properties                                                              *)

\* Type correctness of the counter and of every thread's locals.
TypeOK ==
  /\ counter \in CounterValues
  /\ pc \in [Threads -> {"idle", "load", "cas", "holding"}]
  /\ current \in [Threads -> CounterValues]
  /\ id \in [Threads -> CounterValues]
  /\ calls \in Nat
  /\ ticket \in [Threads -> Nat]

\* Two outstanding requests never share a number, unless a full round of
\* MaxId numbers was drawn between them: an acknowledge is matched by its
\* number alone (discover.cc, gvcp_ip_config.cc).
Near(m, n) == m - n < MaxId /\ n - m < MaxId

UniqueIds ==
  \A t, u \in Threads :
    /\ t # u
    /\ pc[t] = "holding"
    /\ pc[u] = "holding"
    /\ Near(ticket[t], ticket[u])
    => id[t] # id[u]

-----------------------------------------------------------------------------
(* The inductive invariant                                                 *)

\* The counter and each number are those of the reference definition, and
\* every call has a ticket of its own.
TicketInv ==
  /\ counter = IF calls = 0 THEN 0 ELSE IdOfCall(calls)
  /\ \A t \in Threads :
       /\ ticket[t] <= calls
       /\ pc[t] = "holding" => ticket[t] > 0 /\ id[t] = IdOfCall(ticket[t])
       /\ \A u \in Threads : t # u /\ ticket[t] > 0 => ticket[t] # ticket[u]

IInv == TypeOK /\ TicketInv

-----------------------------------------------------------------------------
(* Refinement: the loop is one step of the atomic counter                  *)

phase == [t \in Threads |-> IF pc[t] \in {"load", "cas"} THEN "calling" ELSE pc[t]]

Atomic == INSTANCE AtomicCounter

\* Every behaviour of the compare-and-exchange loop is one of the counter
\* whose calls are indivisible (gige_request_counter.h: "thread safe").
AtomicSpec == Atomic!Spec

=============================================================================
