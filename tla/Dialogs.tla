------------------------------- MODULE Dialogs ------------------------------
(***************************************************************************)
(* The dialogs that command one device: reset, temporary IP address, IP    *)
(* configuration and reconnect.  Each offers the devices of the list in a  *)
(* menu, fills its form from the choice, lets the user edit it, and asks   *)
(* before it sends.  An address is <<a, b, d>>: its first two bytes and    *)
(* one byte for the other two; << >> is a text that is none.  A MAC        *)
(* address is a number, 0 the empty text and Garbled a text that is none.  *)
(***************************************************************************)
EXTENDS Enumeration, SequencesExt

CONSTANTS
  Scenes,    \* [kind, lists, macs, currents, ips, masks, gateways]: a dialog, the
             \* lists it may be opened with, and what the user types into it
  Configs    \* [persistent, dhcp, ip, mask, gw]: what devices answer

Byte == 0..255
Addresses == Byte \X Byte \X Byte
Texts == Addresses \union {<< >>}

Devices ==
  [name : {"plain", "dash", "slash"}, mac : Nat \ {0}, ip : Addresses,
   visard : BOOLEAN, reachable : BOOLEAN]

ASSUME ScenesAssumption ==
  \A s \in Scenes :
    /\ s.kind \in {"reset", "tmpip", "config", "reconnect"}
    /\ s.lists \subseteq Seq(Devices)
    /\ s.ips \subseteq Texts /\ s.masks \subseteq Texts /\ s.gateways \subseteq Texts

ASSUME ConfigsAssumption ==
  \A c \in Configs : c.ip \in Texts /\ c.mask \in Texts /\ c.gw \in Texts

VARIABLES
  scene,     \* which dialog it is
  list,      \* the devices it was opened with last
  chosen,    \* the item of the menu that is chosen
  form,      \* the texts and boxes of the form
  active,    \* which parts of the form take input
  question,  \* the modal question, what it is about and what has been agreed to
  visible,
  from,      \* history: where each value of the configuration comes from, an
             \* address or User
  silent,    \* history: the device did not answer when it was read last
  sent       \* history: what the last step sent, << >> if nothing

vars == <<scene, list, chosen, form, active, question, visible, from, silent, sent>>

Kind == scene.kind
Configuration == {"persistent", "dhcp", "ip", "mask", "gw"}

-----------------------------------------------------------------------------
(* The input fields                                                        *)

Garbled == -1
Empty == << >>
User == << >>
Zero == <<0, 0, 0>>

\* InputIP::getIP, 0 for a text that is no address.
getIP(text) == IF text = Empty THEN Zero ELSE text

\* 0.0.0.0 counts as no address.
IsIP(text) == getIP(text) # Zero

IsMAC(text) == text > 0

\* & of two bytes, bit by bit
HasBit(x, weight) == (x \div weight) % 2 = 1
Both(x, m, weight) == IF HasBit(x, weight) /\ HasBit(m, weight) THEN weight ELSE 0

AndByte(x, m) ==
  Both(x, m, 1) + Both(x, m, 2) + Both(x, m, 4) + Both(x, m, 8)
    + Both(x, m, 16) + Both(x, m, 32) + Both(x, m, 64) + Both(x, m, 128)

And(ip, mask) == [k \in 1..3 |-> AndByte(ip[k], mask[k])]

\* | 0x1
OrOne(ip) == [ip EXCEPT ![3] = @ + 1 - (@ % 2)]

-----------------------------------------------------------------------------
(* The menu                                                                *)

\* What Fl_Menu_::add makes of "name - mac": a slash splits the text into a
\* submenu and its item, closed by an item without a text.  getMAC takes what
\* follows the first " - ".
Items(d) ==
  CASE d.name = "plain" -> <<[is |-> "leaf", mac |-> d.mac]>>
    [] d.name = "dash" -> <<[is |-> "leaf", mac |-> Garbled]>>
    [] d.name = "slash" -> <<[is |-> "title", mac |-> 0], [is |-> "leaf", mac |-> d.mac],
                             [is |-> "end", mac |-> 0]>>

Menu(l) == <<[is |-> "leaf", mac |-> 0]>> \o FlattenSeq([i \in DOMAIN l |-> Items(l[i])])

ip_list(l) == <<Empty>> \o [i \in DOMAIN l |-> l[i].ip]

\* DeviceChoice::getMAC and getIP, by the position in the menu.
getMAC(l, c) == Menu(l)[c].mac
chosenIP(l, c) == IF c <= Len(ip_list(l)) THEN ip_list(l)[c] ELSE Empty

\* DeviceChoice::update chooses by the position in the list.
Preselected(l, mac) ==
  IF \E i \in DOMAIN l : l[i].mac = mac
    THEN 1 + (CHOOSE i \in DOMAIN l : l[i].mac = mac)
    ELSE 1

\* getCurrentNameMACList and getCurrentNameMACIPList
Offered(l) ==
  Kept(l, {i \in DOMAIN l : (Kind = "reset" => l[i].visard) /\ (Kind = "config" => l[i].reachable)})

-----------------------------------------------------------------------------
(* The form                                                                *)

EmptyForm ==
  [mac |-> 0, current |-> Empty, ip |-> Empty, mask |-> Empty, gw |-> Empty,
   persistent |-> FALSE, dhcp |-> FALSE]

AddressesOK(f) == IsIP(f.ip) /\ IsIP(f.mask) /\ IsIP(f.gw)

\* What the button needs, in update and in isSet.
Complete(f) ==
  CASE Kind \in {"reset", "reconnect"} -> IsMAC(f.mac)
    [] Kind = "tmpip" -> IsMAC(f.mac) /\ AddressesOK(f)
    [] Kind = "config" -> IsIP(f.current) /\ (f.persistent => AddressesOK(f))

\* Mutation of update: the fields that go with the device stay open to the user.
updateAllOpen ==
  active' = [device |-> TRUE,
             addresses |-> Kind = "config" => form'.persistent,
             button |-> Complete(form')]

\* The fields that go with the device take input if the menu names none.
update ==
  active' = [device |-> getMAC(list', chosen') = 0,
             addresses |-> Kind = "config" => form'.persistent,
             button |-> Complete(form')]

Fill(f, c) ==
  [f EXCEPT !.persistent = c.persistent, !.dhcp = c.dhcp,
            !.ip = c.ip, !.mask = c.mask, !.gw = c.gw]

\* A device that does not answer leaves the form as it is.
readCurrentConfigFromDevice(f) ==
  \/ /\ ~IsIP(f.current)
     /\ form' = f
     /\ UNCHANGED <<from, silent>>
  \/ /\ IsIP(f.current)
     /\ form' = f
     /\ silent' = TRUE
     /\ UNCHANGED from
  \/ /\ IsIP(f.current)
     /\ \E c \in Configs : form' = Fill(f, c)
     /\ from' = [k \in Configuration |-> f.current]
     /\ silent' = FALSE

\* Mutation of isChangingDevice: the configuration is not read.
isChangingDeviceUnread ==
  /\ form' = [form EXCEPT !.mac = getMAC(list', chosen'),
                          !.current = IF Kind = "config" THEN chosenIP(list', chosen') ELSE Empty]
  /\ UNCHANGED <<question, from, silent>>
  /\ update

\* The item without a text is read as a string: the program ends.
isChangingDevice ==
  IF Menu(list')[chosen'].is = "end"
    THEN /\ question' = [question EXCEPT !.is = "gone"]
         /\ UNCHANGED <<form, from, silent, active>>
    ELSE /\ IF Kind = "config"
              THEN readCurrentConfigFromDevice([form EXCEPT !.mac = getMAC(list', chosen'),
                                                            !.current = chosenIP(list', chosen')])
              ELSE /\ form' = [form EXCEPT !.mac = getMAC(list', chosen')]
                   /\ UNCHANGED <<from, silent>>
         /\ UNCHANGED question
         /\ update

-----------------------------------------------------------------------------

Quiet == [is |-> "none", op |-> "none", proceed |-> FALSE]

Init ==
  /\ scene \in Scenes
  /\ list = << >>
  /\ chosen = 1
  /\ form = EmptyForm
  /\ active = [device |-> TRUE, addresses |-> Kind # "config", button |-> FALSE]
  /\ question = Quiet
  /\ visible = FALSE
  /\ from = [k \in Configuration |-> User]
  /\ silent = FALSE
  /\ sent = << >>

\* doReset, doSetTmpIP, doChangeIPConfig, doReconnect, also while it is open.
\* The selected row of the device list, if there is one, is chosen.
Show ==
  /\ question = Quiet
  /\ \E l \in scene.lists :
       /\ list' = Offered(l)
       /\ \E d \in Range(l) \union {[mac |-> 0, visard |-> TRUE]} :
            /\ Kind = "reset" => d.visard
            /\ chosen' = Preselected(list', d.mac)
  /\ isChangingDevice
  /\ visible' = TRUE
  /\ sent' = << >>
  /\ UNCHANGED scene

\* What the user does to the form.
Editing == visible /\ question = Quiet

Edit == sent' = << >> /\ UNCHANGED <<scene, visible>>

Choose ==
  /\ Editing
  /\ chosen' \in {c \in DOMAIN Menu(list) : Menu(list)[c].is = "leaf"} \ {chosen}
  /\ UNCHANGED list
  /\ isChangingDevice
  /\ Edit

TypeMAC ==
  /\ Editing
  /\ active.device
  /\ \E text \in scene.macs \ {form.mac} : form' = [form EXCEPT !.mac = text]
  /\ UNCHANGED <<list, chosen, question, from, silent>>
  /\ update
  /\ Edit

isChangingCurrentIP ==
  /\ Editing
  /\ Kind = "config"
  /\ active.device
  /\ \E text \in scene.currents \ {form.current} :
       readCurrentConfigFromDevice([form EXCEPT !.current = text])
  /\ UNCHANGED <<list, chosen, question>>
  /\ update
  /\ Edit

WithGateway(f) ==
  IF IsIP(f.ip) /\ IsIP(f.mask) THEN [f EXCEPT !.gw = OrOne(And(f.ip, f.mask))] ELSE f

\* Mutation of MaskOf: a lone number of the second byte.
MaskOfOneNumber(ip) ==
  CASE ip[1] = 10 -> <<255, 0, 0>>
    [] ip[1] = 172 /\ ip[2] = 16 -> <<255, 240, 0>>
    [] ip[1] = 192 /\ ip[2] = 168 -> <<255, 255, 0>>
    [] ip[1] = 169 /\ ip[2] = 254 -> <<255, 255, 0>>
    [] OTHER -> Empty

\* The mask of a private range, told for 172.16.0.0/12 by one bit.
MaskOf(ip) ==
  CASE ip[1] = 10 -> <<255, 0, 0>>
    [] ip[1] = 172 /\ HasBit(ip[2], 16) -> <<255, 240, 0>>
    [] ip[1] = 192 /\ ip[2] = 168 -> <<255, 255, 0>>
    [] ip[1] = 169 /\ ip[2] = 254 -> <<255, 255, 0>>
    [] OTHER -> Empty

\* A mask is proposed for an address, unless there is a valid one.
WithMask(f) ==
  IF IsIP(f.ip) /\ ~IsIP(f.mask) /\ MaskOf(f.ip) # Empty
    THEN [f EXCEPT !.mask = MaskOf(f.ip)] ELSE f

\* The values that differ come from the user.
Enter(f) ==
  /\ form' = f
  /\ from' = [k \in Configuration |-> IF f[k] = form[k] THEN from[k] ELSE User]
  /\ UNCHANGED <<list, chosen, question, silent>>
  /\ update
  /\ Edit

HasAddresses == Kind \in {"tmpip", "config"}

doIP ==
  /\ Editing
  /\ HasAddresses /\ active.addresses
  /\ \E text \in scene.ips \ {form.ip} : Enter(WithGateway(WithMask([form EXCEPT !.ip = text])))

doSubnetMask ==
  /\ Editing
  /\ HasAddresses /\ active.addresses
  /\ \E text \in scene.masks \ {form.mask} : Enter(WithGateway([form EXCEPT !.mask = text]))

TypeGateway ==
  /\ Editing
  /\ HasAddresses /\ active.addresses
  /\ \E text \in scene.gateways \ {form.gw} : Enter([form EXCEPT !.gw = text])

Tick ==
  /\ Editing
  /\ Kind = "config"
  /\ \/ Enter([form EXCEPT !.persistent = ~@])
     \/ Enter([form EXCEPT !.dhcp = ~@])

isClear ==
  /\ Editing
  /\ HasAddresses
  /\ Enter([form EXCEPT !.ip = Empty, !.mask = Empty, !.gw = Empty])

Close ==
  /\ Editing
  /\ visible' = FALSE
  /\ sent' = << >>
  /\ UNCHANGED <<scene, list, chosen, form, active, question, from, silent>>

-----------------------------------------------------------------------------
(* The questions and the command                                           *)

Operations == IF Kind = "reset" THEN {"parameters", "network", "all", "switch-partition"} ELSE {Kind}

Mismatch(f) == And(getIP(f.ip), getIP(f.mask)) # And(getIP(f.gw), getIP(f.mask))

\* Only addresses that will be used are compared.
MustAsk(f) == (Kind = "tmpip" \/ (Kind = "config" /\ f.persistent)) /\ Mismatch(f)

\* The sender is made before the question is asked; it may throw: an alert.
AskSure(op, proceed) ==
  \/ question' = [is |-> "sure", op |-> op, proceed |-> proceed]
  \/ Kind # "reset" /\ question' = Quiet

Unchanged == UNCHANGED <<scene, list, chosen, form, active, from, silent>>

\* One of the buttons.
isSet ==
  /\ Editing
  /\ active.button
  /\ Complete(form)
  /\ \E op \in Operations :
       IF MustAsk(form) THEN question' = [is |-> "subnet", op |-> op, proceed |-> FALSE]
       ELSE AskSure(op, FALSE)
  /\ sent' = << >>
  /\ UNCHANGED visible
  /\ Unchanged

\* Mutation of AnswerSubnet: the answer is not looked at.
AnswerSubnetAnyhow ==
  /\ question.is = "subnet"
  /\ AskSure(question.op, FALSE)
  /\ sent' = << >>
  /\ UNCHANGED visible
  /\ Unchanged

AnswerSubnet ==
  /\ question.is = "subnet"
  /\ question' = Quiet \/ AskSure(question.op, TRUE)
  /\ sent' = << >>
  /\ UNCHANGED visible
  /\ Unchanged

\* Reset names the MAC address, as does the FORCEIP of the other two; the
\* configuration is written to the current address, all of it, with 0.0.0.0 for
\* what is no address.
Command ==
  [op |-> question.op,
   to |-> IF Kind = "config" THEN form.current ELSE form.mac,
   persistent |-> form.persistent,
   dhcp |-> form.dhcp,
   addresses |-> IF HasAddresses THEN <<getIP(form.ip), getIP(form.mask), getIP(form.gw)>>
                 ELSE <<Zero, Zero, Zero>>]

\* The command is sent, or fails on its way: an alert.  The dialogs for
\* addresses stay open after a failure.  A reset can be repeated.
AnswerYes ==
  /\ question.is \in {"sure", "again"}
  /\ sent' = <<Command>>
  /\ \/ /\ question' = IF Kind = "reset" THEN [question EXCEPT !.is = "again"] ELSE Quiet
        /\ visible' = (Kind = "reset")
     \/ /\ question' = Quiet
        /\ visible' = (Kind # "reset")
  /\ Unchanged

\* Reset and reconnect close their window after a no as well.
AnswerNo ==
  /\ question.is \in {"sure", "again"}
  /\ question' = Quiet
  /\ visible' = HasAddresses
  /\ sent' = << >>
  /\ Unchanged

\* The program has ended.
Gone == question.is = "gone" /\ UNCHANGED vars

Next ==
  \/ Show \/ Choose \/ TypeMAC \/ isChangingCurrentIP \/ doIP \/ doSubnetMask \/ TypeGateway
  \/ Tick \/ isClear \/ Close \/ isSet \/ AnswerSubnet \/ AnswerYes \/ AnswerNo \/ Gone

Spec == Init /\ [][Next]_vars

-----------------------------------------------------------------------------
(* Properties                                                              *)

\* While a device is chosen in the menu, the form shows the MAC address and the
\* current IP address of that device, and nothing the user or an earlier choice
\* has left; with <CUSTOM> no device is named.  A command goes to that device: to
\* its MAC address, and a configuration to its current IP address.  So for names
\* without "/", which shifts the positions of all that follow; only a "/" can end
\* the program.  A " - " garbles the MAC address that is shown: such a device can
\* be configured, but no other command is sent to anybody.
ShownIsChosen ==
  LET names == {d.name : d \in Range(list)}
      device == list[chosen - 1]
  IN  /\ "slash" \notin names /\ chosen > 1 =>
           /\ form.mac = IF device.name = "dash" THEN Garbled ELSE device.mac
           /\ Kind = "config" => form.current = device.ip
           /\ sent # << >> =>
                IF Kind = "config" THEN sent[1].to = device.ip
                ELSE sent[1].to = device.mac /\ device.name # "dash"
      /\ question.is = "gone" => "slash" \in names

\* A command names a valid device, an address that is to be used is complete,
\* and a gateway outside the subnet of its address has been agreed to; the
\* modal questions keep the form between the button and the command.
Confirmed ==
  sent' # << >> =>
    LET c == sent'[1]
        used == c.op = "tmpip" \/ (c.op = "config" /\ c.persistent)
    IN  /\ IF c.op = "config" THEN IsIP(c.to) ELSE IsMAC(c.to)
        /\ used => \A k \in 1..3 : c.addresses[k] # Zero
        /\ used /\ And(c.addresses[1], c.addresses[2]) # And(c.addresses[3], c.addresses[2])
             => question.proceed

OnlyConfirmed == [][Confirmed]_vars

\* A value of the configuration that is sent to a device was read from that
\* device or entered by the user, unless the device did not answer when it was
\* read: then the form still holds what was read from another one.
OwnConfigUnlessSilent ==
  [][sent' # << >> /\ Kind = "config" /\ ~silent =>
       \A k \in Configuration : from[k] \in {User, form.current}]_vars

\* An address in one of the private ranges gets its range's mask, any other
\* address none but for those of 172 with the bit set (48 to 63, 80 to 95, ...);
\* a mask that is there is kept.  And a gateway that was proposed does not
\* bring up the question about subnets, unless the mask has the bit that it sets.
PrivateMask(ip) ==
  CASE ip[1] = 10 -> <<255, 0, 0>>
    [] ip[1] = 172 /\ ip[2] \in 16..31 -> <<255, 240, 0>>
    [] ip[1] = 192 /\ ip[2] = 168 -> <<255, 255, 0>>
    [] ip[1] = 169 /\ ip[2] = 254 -> <<255, 255, 0>>
    [] OTHER -> Empty

BitOf16 == UNION {16 * k .. 16 * k + 15 : k \in {3, 5, 7, 9, 11, 13, 15}}

ProposalsFit ==
  [][doIP /\ IsIP(form'.ip) =>
       /\ IF IsIP(form.mask) THEN form'.mask = form.mask
          ELSE \/ form'.mask = PrivateMask(form'.ip)
               \/ PrivateMask(form'.ip) = Empty /\ form'.mask = form.mask
               \/ form'.ip[1] = 172 /\ form'.ip[2] \in BitOf16 /\ form'.mask = <<255, 240, 0>>
       /\ IsIP(form'.mask) /\ form'.mask[3] % 2 = 0 => ~Mismatch(form')]_vars

=============================================================================
