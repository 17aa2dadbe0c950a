--------------------------- MODULE MCGvcpIPConfig ---------------------------
(***************************************************************************)
(* TLC instances of GvcpIPConfig.                                          *)
(***************************************************************************)
EXTENDS GvcpIPConfig

Two == <<"ip", "gateway">>
One == <<"ip">>

WriteCall(persistent, dhcp) == [op |-> "write", persistent |-> persistent, dhcp |-> dhcp]

ReadCall == [op |-> "read", persistent |-> FALSE, dhcp |-> FALSE]

Scene(c, order, attempts, faults, reorder, contended) ==
  [call |-> c, order |-> order, attempts |-> attempts, faults |-> faults,
   reorder |-> reorder, contended |-> contended]

\* All attempts; a device that reports errors; a rival; a network that overtakes.
Patient == Scene(WriteCall(TRUE, FALSE), Two, 3, {}, FALSE, FALSE)
Failing == Scene(WriteCall(TRUE, FALSE), Two, 2, {"error"}, FALSE, FALSE)
WithRival == Scene(WriteCall(TRUE, FALSE), One, 2, {}, FALSE, TRUE)
Overtaking(c) == Scene(c, One, 2, {"short"}, TRUE, FALSE)

AnyScene ==
  {Patient, Failing, WithRival, Overtaking(ReadCall), Overtaking(WriteCall(FALSE, TRUE))}

OnlyFailing == {[Failing EXCEPT !.order = One]}

=============================================================================
