----------------------------- MODULE MCDialogs ------------------------------
(***************************************************************************)
(* TLC instance of Dialogs: lists of up to three devices with names of all *)
(* kinds, two configurations to read, and addresses in and beside each of  *)
(* the private ranges.                                                     *)
(***************************************************************************)
EXTENDS Dialogs

Device(name, mac, d, visard, reachable) ==
  [name |-> name, mac |-> mac, ip |-> <<10, 0, d>>, visard |-> visard, reachable |-> reachable]

TwoPlain == <<Device("plain", 1, 2, TRUE, TRUE), Device("plain", 2, 3, FALSE, TRUE)>>
WithDash == <<Device("dash", 1, 2, TRUE, TRUE), Device("plain", 3, 4, TRUE, FALSE)>>
WithSlash == <<Device("slash", 1, 2, TRUE, TRUE), Device("plain", 2, 3, TRUE, TRUE), Device("plain", 3, 4, TRUE, TRUE)>>

AllLists == {<< >>, TwoPlain, WithDash, WithSlash}

\* In, below and above the private ranges.
Ranges ==
  {<< >>, <<10, 0, 1>>, <<172, 15, 2>>, <<172, 16, 2>>, <<172, 31, 3>>, <<172, 48, 2>>,
   <<192, 168, 2>>, <<192, 169, 2>>, <<169, 254, 2>>}

Masks == {<< >>, <<255, 255, 0>>, <<255, 15, 255>>}
Gateways == {<< >>, <<10, 0, 1>>}

\* With a MAC address that is none, and one of no device in the lists.
Scene(kind) == [kind |-> kind, lists |-> AllLists, macs |-> {0, Garbled, 9}, currents |-> {<< >>},
                ips |-> {<< >>}, masks |-> {<< >>}, gateways |-> {<< >>}]

AllScenes ==
  {Scene("reset"), Scene("reconnect"),
   [Scene("tmpip") EXCEPT !.lists = {TwoPlain, WithDash},
                          !.ips = Ranges, !.masks = Masks, !.gateways = Gateways],
   [Scene("config") EXCEPT !.macs = {0}, !.currents = {<< >>, <<10, 0, 2>>, <<10, 0, 7>>},
                           !.ips = {<<10, 0, 1>>}, !.masks = {<<255, 255, 0>>},
                           !.gateways = {<< >>, <<10, 1, 1>>}]}

TwoConfigs ==
  {[persistent |-> TRUE, dhcp |-> FALSE, ip |-> <<10, 0, 2>>, mask |-> <<255, 0, 0>>, gw |-> <<10, 0, 1>>],
   [persistent |-> FALSE, dhcp |-> TRUE, ip |-> <<0, 0, 0>>, mask |-> <<0, 0, 0>>, gw |-> <<0, 0, 0>>]}

=============================================================================
