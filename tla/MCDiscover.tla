----------------------------- MODULE MCDiscover -----------------------------
(***************************************************************************)
(* TLC instance of Discover: one interface of a Linux computer.            *)
(***************************************************************************)
EXTENDS Discover

CONSTANTS eth, wlan,  \* interfaces
          camera

\* A socket for the limited broadcast, bound to the address of the interface,
\* a receiver and a socket for the directed broadcast, bound to any address.
OneInterface == <<eth, eth, eth>>

\* The user may name an interface that has no sockets.
Given == {{eth}, {wlan}}

\* The counter counts up.
Lowest(used) == {n \in Ids \ used : \A m \in Ids \ used : n <= m}

CameraOnEth == {<<camera, eth>>}

\* An acknowledge of an earlier request, one without a MAC address and one that
\* is too short.
LateEmptyOrShort ==
  {[sock |-> 1, id |-> 4, dev |-> camera, form |-> "ack"],
   [sock |-> 2, id |-> 1, dev |-> NoDevice, form |-> "ack"],
   [sock |-> 3, id |-> 1, dev |-> camera, form |-> "other"]}

=============================================================================
