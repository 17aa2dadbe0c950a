--------------------------- MODULE MCCliCommands ----------------------------
(***************************************************************************)
(* TLC instance of CliCommands: two devices, one of them on two interfaces *)
(* and without a user name, the other of a model with a star in its name,  *)
(* answers that end before the MAC address or before serial number and     *)
(* user name, and command lines of all commands with up to two options and *)
(* with good, wrong and missing addresses or an empty word.                *)
(***************************************************************************)
EXTENDS CliCommands

TwoInterfaces == << <<"e">>, <<"w">> >>

Device(mac, user, model, iface) ==
  [mac |-> mac, user |-> user, model |-> model, serial |-> <<"7">>, iface |-> iface]

ThreeEntries ==
  {Device(1, << >>, <<"b", "a">>, <<"e">>), Device(1, << >>, <<"b", "a">>, <<"w">>),
   Device(18, <<"a">>, <<"b", "*">>, <<"e">>)}

Word(text) == [is |-> text]
Argument(key, pattern) == [is |-> "filter", key |-> key, pattern |-> pattern]
Address(fields) == [is |-> "address", fields |-> fields]

NamePatterns == UNION {[1..n -> {"a", "b", "*", "?"}] : n \in 1..3}

ByName == {<<Word("-f"), Argument("name", p)>> : p \in NamePatterns}

OtherOptions ==
  {<<Word("-y")>>, <<Word("--iponly")>>, <<Word("-h")>>, <<Word("--other")>>, <<Word("-f")>>,
   <<Word("-f"), Argument("mac", <<"0", "?">>)>>, <<Word("-f"), Argument("iface", <<"e">>)>>,
   <<Word("-f"), Argument("iface", <<"*">>)>>, <<Word("-f"), Argument("name", <<"*">>)>>}

GoodAddress == Address(<<10, 0, 0, 2>>)
Mask == Address(<<255, 0, 0, 0>>)
Tails ==
  {<< >>, <<GoodAddress, Mask, Address(<<10, 0, 0, 1>>)>>, <<GoodAddress, Mask>>,
   <<GoodAddress, Mask, Address(<<10, 0, 0, 256>>)>>, <<GoodAddress, Mask, Address(<<10, 0, 1>>)>>}

Starts == {<<Word("ls")>>, <<Word("forceip")>>, <<Word("reconnect")>>, <<Word("reset"), Word("network")>>}

CommandLines ==
  {start \o options1 \o tail : start \in Starts, options1 \in ByName, tail \in {<< >>}}
    \union {start \o first \o second \o tail :
              start \in Starts, first \in OtherOptions, second \in OtherOptions, tail \in Tails}
    \union {<< >>, <<Word("-h")>>, <<Word("--iponly")>>, <<Word("reset")>>, <<Word("reset"), Word("-h")>>,
            <<Word("else")>>, <<Word("")>>, <<Word("reset"), Word("all"), Word("")>>}

=============================================================================
