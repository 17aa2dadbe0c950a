----------------------------- MODULE MCSenders ------------------------------
(***************************************************************************)
(* TLC instance of Senders: two threads (the GUI's two threads), computers *)
(* with one and two interfaces to send on, and numbers 1 to 4, so that the *)
(* counter wraps around while both threads send.                           *)
(***************************************************************************)
EXTENDS Senders, TLC

CONSTANTS lo, eth, wlan

Row(name, traits) == [name |-> name, traits |-> traits]

OneInterface ==
  [os |-> "linux",
   rows |-> <<Row(lo, {"up", "address", "broadcast", "loopback"}),
              Row(eth, {"up", "address", "broadcast"}),
              Row(wlan, {"address", "broadcast"})>>]

\* The second interface has a directed broadcast only.
Windows ==
  [os |-> "windows",
   rows |-> <<Row(lo, {"address", "route", "loopback"}),
              Row(eth, {"adapter", "address", "route"}),
              Row(wlan, {"adapter", "address"})>>]

BothSystems == {OneInterface, Windows}

=============================================================================
