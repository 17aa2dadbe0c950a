----------------------------- MODULE RequestIds -----------------------------
(***************************************************************************)
(* The request numbers that rcdiscover puts into bytes 6 and 7 of every    *)
(* GigE Vision control packet (GigERequestCounter, gige_request_counter).  *)
(* A constant module: the numbers, the successor the counter computes and  *)
(* the number the n-th call of the process receives.                       *)
(***************************************************************************)
EXTENDS Integers

CONSTANT MaxId  \* numeric_limits<uint16_t>::max(), 65535 in the code

ASSUME MaxIdAssumption == MaxId \in Nat \ {0}

\* 0 is the initial value of the counter and never a request number.
Ids == 1..MaxId

CounterValues == 0..MaxId

\* The value that follows c: one more, skipping 0 when 16 bits wrap around.
Successor(c) == IF c = MaxId THEN 1 ELSE c + 1

\* The number handed out by the n-th completed call of the process, n > 0.
\* It is a reference definition: the code never computes it.
IdOfCall(n) == ((n - 1) % MaxId) + 1

=============================================================================
