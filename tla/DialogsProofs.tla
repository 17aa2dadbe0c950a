--------------------------- MODULE DialogsProofs ----------------------------
(***************************************************************************)
(* For every list, every text the user types and every configuration that  *)
(* devices answer: what the dialogs send has been confirmed, and a         *)
(* configuration is not one that was read from another device, unless the  *)
(* device was silent; the form shows the device that is chosen; and the    *)
(* proposed mask and gateway fit the address.                              *)
(***************************************************************************)
EXTENDS Dialogs, EnumerationProofs, SequenceTheorems

-----------------------------------------------------------------------------
(* Confirmation                                                            *)

\* While a question is open the form is the one that was complete when the
\* button was pressed, and the question whether to send is asked about different
\* subnets only after they have been agreed to.
QuestionInv ==
  /\ scene \in Scenes
  /\ question \in [is : {"none", "gone", "subnet", "sure", "again"},
                   op : Operations \union {"none"}, proceed : BOOLEAN]
  /\ question.is \in {"subnet", "sure", "again"} => question.op \in Operations /\ Complete(form)
  /\ question.is \in {"sure", "again"} /\ MustAsk(form) => question.proceed

\* What changes the form is not done while a question is open, and opens none.
Filling ==
  /\ question.is = "none"
  /\ UNCHANGED scene
  /\ question' = question \/ question' = [question EXCEPT !.is = "gone"]
  /\ sent' = << >>

LEMMA EnteringFills ==
  ASSUME NEW f, Editing, Enter(f)
  PROVE  Filling
  BY DEF Filling, Editing, Edit, Enter, Quiet

LEMMA StepsThatFill ==
  ASSUME Show \/ Choose \/ TypeMAC \/ isChangingCurrentIP \/ doIP \/ doSubnetMask \/ TypeGateway
           \/ Tick \/ isClear \/ Close
  PROVE  Filling
<1>1. CASE Show \/ Choose
  BY <1>1 DEF Show, Choose, isChangingDevice, Filling, Editing, Edit, Quiet
<1>2. CASE TypeMAC \/ isChangingCurrentIP \/ Close
  BY <1>2 DEF TypeMAC, isChangingCurrentIP, Close, Filling, Editing, Edit, Quiet
<1>3. CASE doIP \/ doSubnetMask \/ TypeGateway
  BY <1>3, EnteringFills DEF doIP, doSubnetMask, TypeGateway
<1>4. CASE Tick \/ isClear
  BY <1>4, EnteringFills DEF Tick, isClear
<1>5. QED
  BY <1>1, <1>2, <1>3, <1>4

LEMMA FillingKeepsQuestion ==
  ASSUME QuestionInv, Filling
  PROVE  QuestionInv'
  BY DEF QuestionInv, Filling, Operations, Kind

\* The questions themselves leave the form alone.
LEMMA AskingKeepsForm ==
  ASSUME isSet \/ AnswerSubnet \/ AnswerYes \/ AnswerNo
  PROVE  /\ UNCHANGED <<scene, form>>
         /\ Operations' = Operations
         /\ Complete(form)' = Complete(form)
         /\ MustAsk(form)' = MustAsk(form)
  BY DEF isSet, AnswerSubnet, AnswerYes, AnswerNo, Unchanged, Operations, Complete, MustAsk, Kind

LEMMA AskingKeepsQuestion ==
  ASSUME QuestionInv, isSet \/ AnswerSubnet \/ AnswerYes \/ AnswerNo
  PROVE  QuestionInv'
<1>1. /\ scene' \in Scenes
      /\ question \in [is : {"none", "gone", "subnet", "sure", "again"},
                       op : Operations \union {"none"}, proceed : BOOLEAN]
  BY AskingKeepsForm DEF QuestionInv
<1>2. CASE question' = Quiet
  BY <1>1, <1>2 DEF Quiet, QuestionInv
<1>3. ASSUME NEW op \in Operations, NEW is \in {"subnet", "sure", "again"}, NEW proceed \in BOOLEAN,
             question' = [is |-> is, op |-> op, proceed |-> proceed],
             Complete(form), is \in {"sure", "again"} /\ MustAsk(form) => proceed
      PROVE  QuestionInv'
  BY <1>1, <1>3, AskingKeepsForm DEF QuestionInv
<1>4. CASE isSet
  <2>1. PICK op \in Operations :
          IF MustAsk(form) THEN question' = [is |-> "subnet", op |-> op, proceed |-> FALSE]
          ELSE AskSure(op, FALSE)
    BY <1>4 DEF isSet
  <2>2. Complete(form)
    BY <1>4 DEF isSet
  <2>3. CASE MustAsk(form)
    BY <1>3, <2>1, <2>2, <2>3
  <2>4. CASE ~MustAsk(form)
    BY <1>2, <1>3, <2>1, <2>2, <2>4 DEF AskSure
  <2>5. QED
    BY <2>3, <2>4
<1>5. CASE AnswerSubnet
  <2>1. question.op \in Operations /\ Complete(form)
    BY <1>5 DEF AnswerSubnet, QuestionInv
  <2>2. QED
    BY <1>2, <1>3, <1>5, <2>1 DEF AnswerSubnet, AskSure
<1>6. CASE AnswerYes
  <2>1. /\ question.op \in Operations /\ Complete(form) /\ question.proceed \in BOOLEAN
        /\ MustAsk(form) => question.proceed
    BY <1>1, <1>6 DEF AnswerYes, QuestionInv
  <2>2. [question EXCEPT !.is = "again"]
          = [is |-> "again", op |-> question.op, proceed |-> question.proceed]
    BY <1>1
  <2>3. QED
    BY <1>2, <1>3, <1>6, <2>1, <2>2 DEF AnswerYes
<1>7. CASE AnswerNo
  BY <1>2, <1>7 DEF AnswerNo
<1>8. QED
  BY <1>4, <1>5, <1>6, <1>7

LEMMA QuestionHolds == Spec => []QuestionInv
<1>1. Init => QuestionInv
  BY DEF Init, Quiet, QuestionInv
<1>2. QuestionInv /\ [Next]_vars => QuestionInv'
  <2>1. CASE Gone \/ UNCHANGED vars
    BY <2>1 DEF Gone, vars, QuestionInv, Operations, Complete, MustAsk, Kind
  <2>2. QED
    BY <2>1, StepsThatFill, FillingKeepsQuestion, AskingKeepsQuestion DEF Next
<1>3. QED
  BY <1>1, <1>2, PTL DEF Spec

\* The command of a complete form whose subnets, if they differ, were agreed to.
LEMMA CommandIsConfirmed ==
  ASSUME QuestionInv, AnswerYes
  PROVE  Confirmed
<1> DEFINE c == Command
<1>1. /\ sent' = <<c>> /\ c.op = question.op
      /\ c.to = IF Kind = "config" THEN form.current ELSE form.mac
      /\ c.persistent = form.persistent
      /\ c.addresses = IF HasAddresses THEN <<getIP(form.ip), getIP(form.mask), getIP(form.gw)>>
                       ELSE <<Zero, Zero, Zero>>
  BY DEF AnswerYes, Command
<1> HIDE DEF c
<1>2. /\ Kind \in {"reset", "tmpip", "config", "reconnect"}
      /\ question.op \in Operations /\ Complete(form)
      /\ MustAsk(form) => question.proceed
  BY ScenesAssumption DEF QuestionInv, AnswerYes, Kind
<1>3. (c.op = "config") = (Kind = "config") /\ (c.op = "tmpip") = (Kind = "tmpip")
  BY <1>1, <1>2 DEF Operations
<1>4. IF c.op = "config" THEN IsIP(c.to) ELSE IsMAC(c.to)
  BY <1>1, <1>2, <1>3 DEF Complete
<1>5. ASSUME Kind = "tmpip" \/ (Kind = "config" /\ form.persistent)
      PROVE  /\ c.addresses[1] = getIP(form.ip) /\ c.addresses[1] # Zero
             /\ c.addresses[2] = getIP(form.mask) /\ c.addresses[2] # Zero
             /\ c.addresses[3] = getIP(form.gw) /\ c.addresses[3] # Zero
             /\ And(c.addresses[1], c.addresses[2]) # And(c.addresses[3], c.addresses[2])
                  => question.proceed
  <2>1. AddressesOK(form)
    BY <1>2, <1>5 DEF Complete
  <2>2. c.addresses = <<getIP(form.ip), getIP(form.mask), getIP(form.gw)>>
    BY <1>1, <1>5 DEF HasAddresses
  <2>3. QED
    BY <1>2, <1>5, <2>1, <2>2 DEF AddressesOK, IsIP, MustAsk, Mismatch
<1>6. sent'[1] = c
  BY <1>1
<1>7. QED
  BY <1>1, <1>3, <1>4, <1>5, <1>6 DEF Confirmed

\* No dialog sends a command without a valid device, with an incomplete address
\* that is to be used, or across subnets without consent.
THEOREM NothingUnconfirmed == Spec => OnlyConfirmed
<1>1. QuestionInv /\ [Next]_vars => [Confirmed]_vars
  <2>1. CASE isSet \/ AnswerSubnet \/ AnswerNo
    BY <2>1 DEF isSet, AnswerSubnet, AnswerNo, Confirmed
  <2>2. CASE Filling
    BY <2>2 DEF Filling, Confirmed
  <2>3. QED
    BY <2>1, <2>2, StepsThatFill, CommandIsConfirmed DEF Next, Gone
<1>2. QED
  BY <1>1, QuestionHolds, PTL DEF Spec, OnlyConfirmed

-----------------------------------------------------------------------------
(* Where a configuration comes from                                        *)

Fields == {"mac", "current", "ip", "mask", "gw", "persistent", "dhcp"}

OwnInv ==
  /\ DOMAIN form = Fields
  /\ Kind = "config" /\ IsIP(form.current) /\ ~silent =>
       \A k \in Configuration : from[k] \in {User, form.current}

\* A device that is named anew is read: its own values, or silence.
LEMMA ReadingIsOwn ==
  ASSUME NEW f, DOMAIN f = Fields, readCurrentConfigFromDevice(f), UNCHANGED scene
  PROVE  OwnInv'
<1>1. CASE ~IsIP(f.current) /\ form' = f
  BY <1>1 DEF OwnInv, IsIP, getIP
<1>2. CASE form' = f /\ silent' = TRUE
  BY <1>2 DEF OwnInv
<1>3. ASSUME NEW c \in Configs, form' = Fill(f, c),
             from' = [k \in Configuration |-> f.current]
      PROVE  OwnInv'
  <2>1. DOMAIN form' = Fields /\ form'.current = f.current
    BY <1>3 DEF Fill, Fields
  <2>2. QED
    BY <1>3, <2>1 DEF OwnInv
<1>4. QED
  BY <1>1, <1>2, <1>3 DEF readCurrentConfigFromDevice

\* An input field that is not the current address changes no other's origin.
LEMMA EnteringIsOwn ==
  ASSUME OwnInv, NEW f, DOMAIN f = Fields, f.current = form.current, Enter(f)
  PROVE  OwnInv'
  BY DEF OwnInv, Enter, Edit, Kind, IsIP, getIP

LEMMA ProposalsKeepDevice ==
  ASSUME NEW f, DOMAIN f = Fields
  PROVE  /\ DOMAIN WithMask(f) = Fields /\ WithMask(f).current = f.current
         /\ DOMAIN WithGateway(f) = Fields /\ WithGateway(f).current = f.current
  BY DEF WithMask, WithGateway, Fields

LEMMA DeviceIsOwn ==
  ASSUME OwnInv, isChangingDevice, UNCHANGED scene
  PROVE  OwnInv'
<1>1. CASE UNCHANGED <<form, from, silent>>
  BY <1>1 DEF OwnInv, Kind, IsIP, getIP
<1>2. CASE Kind = "config" /\ ~(UNCHANGED <<form, from, silent>>)
  <2> DEFINE f == [form EXCEPT !.mac = getMAC(list', chosen'), !.current = chosenIP(list', chosen')]
  <2>1. DOMAIN f = Fields
    BY DEF OwnInv
  <2>2. readCurrentConfigFromDevice(f)
    BY <1>2 DEF isChangingDevice
  <2> HIDE DEF f
  <2>3. QED
    BY <2>1, <2>2, ReadingIsOwn
<1>3. CASE Kind # "config"
  BY <1>3 DEF OwnInv, Kind, isChangingDevice
<1>4. QED
  BY <1>1, <1>2, <1>3

LEMMA OwnHolds == Spec => []OwnInv
<1>1. Init => OwnInv
  BY DEF Init, OwnInv, EmptyForm, Fields
<1>2. OwnInv /\ [Next]_vars => OwnInv'
  <2> SUFFICES ASSUME OwnInv, [Next]_vars
               PROVE  OwnInv'
    OBVIOUS
  <2> USE DEF Edit
  <2>1. CASE Show \/ Choose
    BY <2>1, DeviceIsOwn DEF Show, Choose
  <2>2. CASE TypeMAC
    BY <2>2 DEF TypeMAC, OwnInv, Fields, Kind, IsIP, getIP
  <2>3. CASE isChangingCurrentIP
    <3>1. PICK text \in scene.currents : readCurrentConfigFromDevice([form EXCEPT !.current = text])
      BY <2>3 DEF isChangingCurrentIP
    <3>2. DOMAIN [form EXCEPT !.current = text] = Fields
      BY DEF OwnInv
    <3>3. QED
      BY <2>3, <3>1, <3>2, ReadingIsOwn DEF isChangingCurrentIP
  <2>4. CASE doIP
    <3>1. PICK text \in scene.ips : Enter(WithGateway(WithMask([form EXCEPT !.ip = text])))
      BY <2>4 DEF doIP
    <3>2. DOMAIN [form EXCEPT !.ip = text] = Fields /\ [form EXCEPT !.ip = text].current = form.current
      BY DEF OwnInv, Fields
    <3>3. QED
      BY <3>1, <3>2, ProposalsKeepDevice, EnteringIsOwn
  <2>5. CASE doSubnetMask
    <3>1. PICK text \in scene.masks : Enter(WithGateway([form EXCEPT !.mask = text]))
      BY <2>5 DEF doSubnetMask
    <3>2. DOMAIN [form EXCEPT !.mask = text] = Fields /\ [form EXCEPT !.mask = text].current = form.current
      BY DEF OwnInv, Fields
    <3>3. QED
      BY <3>1, <3>2, ProposalsKeepDevice, EnteringIsOwn
  <2>6. CASE TypeGateway
    <3>1. PICK text \in scene.gateways : Enter([form EXCEPT !.gw = text])
      BY <2>6 DEF TypeGateway
    <3>2. DOMAIN [form EXCEPT !.gw = text] = Fields /\ [form EXCEPT !.gw = text].current = form.current
      BY DEF OwnInv, Fields
    <3>3. QED
      BY <3>1, <3>2, EnteringIsOwn
  <2>7. CASE Tick
    <3>1. PICK f : /\ f = [form EXCEPT !.persistent = ~@] \/ f = [form EXCEPT !.dhcp = ~@]
                   /\ Enter(f)
      BY <2>7 DEF Tick
    <3>2. DOMAIN f = Fields /\ f.current = form.current
      BY <3>1 DEF OwnInv, Fields
    <3>3. QED
      BY <3>1, <3>2, EnteringIsOwn
  <2>8. CASE isClear
    <3> DEFINE f == [form EXCEPT !.ip = Empty, !.mask = Empty, !.gw = Empty]
    <3>1. DOMAIN f = Fields /\ f.current = form.current
      BY DEF OwnInv, Fields
    <3>2. Enter(f)
      BY <2>8 DEF isClear
    <3> HIDE DEF f
    <3>3. QED
      BY <3>1, <3>2, EnteringIsOwn
  <2>9. CASE Close \/ isSet \/ AnswerSubnet \/ AnswerYes \/ AnswerNo \/ Gone \/ UNCHANGED vars
    BY <2>9 DEF Close, isSet, AnswerSubnet, AnswerYes, AnswerNo, Gone, Unchanged, vars,
                OwnInv, Kind, IsIP, getIP
  <2>10. QED
    BY <2>1, <2>2, <2>3, <2>4, <2>5, <2>6, <2>7, <2>8, <2>9 DEF Next
<1>3. QED
  BY <1>1, <1>2, PTL DEF Spec

\* What was read from one device is never written to another, in whatever order
\* devices are chosen, read, edited and confirmed, unless the device that is
\* written to did not answer when it was read.
THEOREM NoOtherDevicesConfig == Spec => OwnConfigUnlessSilent
<1>1. QuestionInv /\ OwnInv /\ [Next]_vars
        => [sent' # << >> /\ Kind = "config" /\ ~silent =>
              \A k \in Configuration : from[k] \in {User, form.current}]_vars
  <2> SUFFICES ASSUME QuestionInv, OwnInv, Next, sent' # << >>, ~(UNCHANGED vars),
                      Kind = "config", ~silent
               PROVE  \A k \in Configuration : from[k] \in {User, form.current}
    OBVIOUS
  <2>1. AnswerYes
    BY StepsThatFill DEF Next, Filling, isSet, AnswerSubnet, AnswerNo, Gone
  <2>2. IsIP(form.current)
    BY <2>1 DEF QuestionInv, AnswerYes, Complete
  <2>3. QED
    BY <2>2 DEF OwnInv
<1>2. QED
  BY <1>1, QuestionHolds, OwnHolds, PTL DEF Spec, OwnConfigUnlessSilent

-----------------------------------------------------------------------------
(* The proposals                                                           *)

\* The bits of a sum of some of the eight weights.
LEMMA BitsOfSum ==
  ASSUME NEW a \in {0, 1}, NEW b \in {0, 2}, NEW c \in {0, 4}, NEW d \in {0, 8},
         NEW e \in {0, 16}, NEW f \in {0, 32}, NEW g \in {0, 64}, NEW h \in {0, 128},
         NEW s, s = a + b + c + d + e + f + g + h
  PROVE  /\ HasBit(s, 1) <=> a = 1
         /\ HasBit(s, 2) <=> b = 2
         /\ HasBit(s, 4) <=> c = 4
         /\ HasBit(s, 8) <=> d = 8
         /\ HasBit(s, 16) <=> e = 16
         /\ HasBit(s, 32) <=> f = 32
         /\ HasBit(s, 64) <=> g = 64
         /\ HasBit(s, 128) <=> h = 128
<1>1. HasBit(s, 1) <=> a = 1
  BY DEF HasBit
<1>2. HasBit(s, 2) <=> b = 2
  BY DEF HasBit
<1>3. HasBit(s, 4) <=> c = 4
  BY DEF HasBit
<1>4. HasBit(s, 8) <=> d = 8
  BY DEF HasBit
<1>5. HasBit(s, 16) <=> e = 16
  BY DEF HasBit
<1>6. HasBit(s, 32) <=> f = 32
  BY DEF HasBit
<1>7. HasBit(s, 64) <=> g = 64
  BY DEF HasBit
<1>8. HasBit(s, 128) <=> h = 128
  BY DEF HasBit
<1>9. QED
  BY <1>1, <1>2, <1>3, <1>4, <1>5, <1>6, <1>7, <1>8

\* & leaves the bits that both have.
LEMMA BitsOfAnd ==
  ASSUME NEW x, NEW m
  PROVE  /\ AndByte(x, m) \in 0..255
         /\ \A w \in {1, 2, 4, 8, 16, 32, 64, 128} :
              HasBit(AndByte(x, m), w) <=> HasBit(x, w) /\ HasBit(m, w)
<1> DEFINE B(w) == Both(x, m, w)
<1>1. \A w \in {1, 2, 4, 8, 16, 32, 64, 128} :
        /\ B(w) \in {0, w}
        /\ B(w) = w <=> HasBit(x, w) /\ HasBit(m, w)
  BY DEF Both
<1>2. AndByte(x, m) = B(1) + B(2) + B(4) + B(8) + B(16) + B(32) + B(64) + B(128)
  BY DEF AndByte
<1> HIDE DEF B
<1>3. AndByte(x, m) \in 0..255
  BY <1>1, <1>2
<1>4. /\ HasBit(AndByte(x, m), 1) <=> B(1) = 1
      /\ HasBit(AndByte(x, m), 2) <=> B(2) = 2
      /\ HasBit(AndByte(x, m), 4) <=> B(4) = 4
      /\ HasBit(AndByte(x, m), 8) <=> B(8) = 8
      /\ HasBit(AndByte(x, m), 16) <=> B(16) = 16
      /\ HasBit(AndByte(x, m), 32) <=> B(32) = 32
      /\ HasBit(AndByte(x, m), 64) <=> B(64) = 64
      /\ HasBit(AndByte(x, m), 128) <=> B(128) = 128
  BY <1>1, <1>2, BitsOfSum
<1>5. QED
  BY <1>1, <1>3, <1>4

\* It only depends on the bits.
LEMMA SameBits ==
  ASSUME NEW x, NEW y, NEW m,
         \A w \in {1, 2, 4, 8, 16, 32, 64, 128} : HasBit(m, w) => (HasBit(x, w) <=> HasBit(y, w))
  PROVE  AndByte(x, m) = AndByte(y, m)
<1>1. \A w \in {1, 2, 4, 8, 16, 32, 64, 128} : Both(x, m, w) = Both(y, m, w)
  BY DEF Both
<1>2. QED
  BY <1>1 DEF AndByte

LEMMA AndAgain ==
  ASSUME NEW x, NEW m
  PROVE  AndByte(AndByte(x, m), m) = AndByte(x, m)
  BY BitsOfAnd, SameBits

\* The lowest bit makes no difference to a mask without it.
LEMMA AndOfOrOne ==
  ASSUME NEW x \in Byte, NEW m \in Byte, m % 2 = 0
  PROVE  AndByte(x + 1 - (x % 2), m) = AndByte(x, m)
<1> DEFINE y == x + 1 - (x % 2)
<1>1. ~HasBit(m, 1)
  BY DEF HasBit, Byte
<1>2. y \in Byte /\ y \div 2 = x \div 2
  BY DEF Byte
<1>3. \A w \in {2, 4, 8, 16, 32, 64, 128} : HasBit(y, w) <=> HasBit(x, w)
  <2>1. y \div 4 = x \div 4 /\ y \div 8 = x \div 8 /\ y \div 16 = x \div 16
    BY <1>2 DEF Byte
  <2>2. y \div 32 = x \div 32 /\ y \div 64 = x \div 64 /\ y \div 128 = x \div 128
    BY <1>2 DEF Byte
  <2>3. QED
    BY <1>2, <2>1, <2>2 DEF HasBit
<1> HIDE DEF y
<1>4. \A w \in {1, 2, 4, 8, 16, 32, 64, 128} : HasBit(m, w) => (HasBit(y, w) <=> HasBit(x, w))
  BY <1>1, <1>3
<1>5. AndByte(y, m) = AndByte(x, m)
  BY <1>4, SameBits
<1>6. QED
  BY <1>5 DEF y

\* A gateway that is proposed is in the subnet of its address.
LEMMA ProposedGateway ==
  ASSUME NEW ip \in Addresses, NEW mask \in Addresses, mask[3] % 2 = 0
  PROVE  And(OrOne(And(ip, mask)), mask) = And(ip, mask)
<1> DEFINE net == And(ip, mask)
           gw == OrOne(net)
<1>1. /\ ip[1] \in Byte /\ ip[2] \in Byte /\ ip[3] \in Byte
      /\ mask[1] \in Byte /\ mask[2] \in Byte /\ mask[3] \in Byte
  BY DEF Addresses
<1>2. /\ DOMAIN net = 1..3 /\ net = [k \in 1..3 |-> net[k]]
      /\ \A k \in 1..3 : net[k] = AndByte(ip[k], mask[k])
  BY DEF And
<1>3. net[3] \in Byte
  BY <1>2, BitsOfAnd DEF Byte
<1> HIDE DEF net
<1>4. gw[1] = net[1] /\ gw[2] = net[2] /\ gw[3] = net[3] + 1 - (net[3] % 2)
  BY <1>2 DEF OrOne
<1> HIDE DEF gw
<1>5. /\ AndByte(gw[1], mask[1]) = net[1]
      /\ AndByte(gw[2], mask[2]) = net[2]
  BY <1>2, <1>4, AndAgain
<1>6. AndByte(gw[3], mask[3]) = net[3]
  <2>1. AndByte(gw[3], mask[3]) = AndByte(net[3], mask[3])
    BY <1>1, <1>3, <1>4, AndOfOrOne
  <2>2. QED
    BY <1>2, <2>1, AndAgain
<1>7. \A k \in 1..3 : AndByte(gw[k], mask[k]) = net[k]
  BY <1>5, <1>6
<1>8. And(gw, mask) = net
  BY <1>2, <1>7 DEF And
<1>9. QED
  BY <1>8 DEF gw, net

LEMMA AndIsText ==
  ASSUME NEW ip \in Addresses, NEW mask \in Addresses
  PROVE  OrOne(And(ip, mask)) \in Texts
<1> DEFINE net == And(ip, mask)
           gw == OrOne(net)
<1>1. \A k \in 1..3 : net[k] \in Byte
  BY BitsOfAnd DEF And, Byte
<1>2. net = [k \in 1..3 |-> net[k]]
  BY DEF And
<1> HIDE DEF net
<1>3. /\ gw = [k \in 1..3 |-> gw[k]]
      /\ gw[1] = net[1] /\ gw[2] = net[2] /\ gw[3] = net[3] + 1 - (net[3] % 2)
  BY <1>2 DEF OrOne
<1>4. net[3] + 1 - (net[3] % 2) \in Byte
  BY <1>1 DEF Byte
<1> HIDE DEF gw
<1>5. gw = <<gw[1], gw[2], gw[3]>>
  BY <1>3
<1>6. gw[1] \in Byte /\ gw[2] \in Byte /\ gw[3] \in Byte
  BY <1>1, <1>3, <1>4
<1>7. gw \in Addresses
  BY <1>5, <1>6 DEF Addresses
<1>8. QED
  BY <1>7 DEF Addresses, Texts, gw, net

LEMMA RangesAreTexts ==
  ASSUME NEW ip
  PROVE  MaskOf(ip) \in Texts
  BY DEF MaskOf, Addresses, Texts, Byte, Empty

\* A form with the fields and with addresses.
Filled(f) == DOMAIN f = Fields /\ f.ip \in Texts /\ f.mask \in Texts /\ f.gw \in Texts

LEMMA ProposalsAreTexts ==
  ASSUME NEW f, Filled(f)
  PROVE  Filled(WithMask(f)) /\ Filled(WithGateway(f))
<1>1. Filled(WithMask(f))
  BY RangesAreTexts DEF WithMask, Filled, Fields
<1>2. CASE IsIP(f.ip) /\ IsIP(f.mask)
  <2>1. f.ip \in Addresses /\ f.mask \in Addresses
    BY <1>2 DEF Filled, Addresses, Texts, IsIP, getIP, Empty
  <2> DEFINE gw == OrOne(And(f.ip, f.mask))
  <2>2. gw \in Texts
    BY <2>1, AndIsText
  <2>3. WithGateway(f) = [f EXCEPT !.gw = gw]
    BY <1>2 DEF WithGateway
  <2> HIDE DEF gw
  <2>4. QED
    BY <1>1, <2>2, <2>3 DEF Filled, Fields
<1>3. CASE ~(IsIP(f.ip) /\ IsIP(f.mask))
  BY <1>1, <1>3 DEF WithGateway
<1>4. QED
  BY <1>2, <1>3

LEMMA ReadAddresses ==
  ASSUME NEW f, Filled(f), readCurrentConfigFromDevice(f)
  PROVE  Filled(form)'
<1>1. CASE form' = f
  BY <1>1 DEF Filled
<1>2. ASSUME NEW c \in Configs, form' = Fill(f, c)
      PROVE  Filled(form)'
  BY <1>2, ConfigsAssumption DEF Filled, Fill, Fields
<1>3. QED
  BY <1>1, <1>2 DEF readCurrentConfigFromDevice

\* The texts of the form for addresses are addresses or none.
FilledInv == Filled(form) /\ scene \in Scenes

LEMMA DeviceKeepsFilled ==
  ASSUME Filled(form), isChangingDevice
  PROVE  Filled(form)'
<1> DEFINE g(mac) == [form EXCEPT !.mac = mac]
           h(mac, ip) == [form EXCEPT !.mac = mac, !.current = ip]
<1>1. \A mac, ip : Filled(g(mac)) /\ Filled(h(mac, ip))
  BY DEF Filled, Fields
<1>2. \/ form' = form
      \/ form' = g(getMAC(list', chosen'))
      \/ readCurrentConfigFromDevice(h(getMAC(list', chosen'), chosenIP(list', chosen')))
  BY DEF isChangingDevice
<1>3. CASE form' = form
  BY <1>3 DEF Filled
<1>4. CASE form' = g(getMAC(list', chosen'))
  <2> HIDE DEF g
  <2>1. Filled(g(getMAC(list', chosen')))
    BY <1>1
  <2>2. QED
    BY <1>4, <2>1 DEF Filled
<1>5. CASE readCurrentConfigFromDevice(h(getMAC(list', chosen'), chosenIP(list', chosen')))
  <2> HIDE DEF g, h
  <2>1. Filled(h(getMAC(list', chosen'), chosenIP(list', chosen')))
    BY <1>1
  <2>2. QED
    BY <1>5, <2>1, ReadAddresses
<1>6. QED
  BY <1>2, <1>3, <1>4, <1>5

LEMMA FormIsFilled == Spec => []FilledInv
<1>1. Init => FilledInv
  BY DEF Init, FilledInv, Filled, EmptyForm, Fields, Addresses, Texts, Empty
<1>2. FilledInv /\ [Next]_vars => FilledInv'
  <2> SUFFICES ASSUME FilledInv, [Next]_vars
               PROVE  FilledInv'
    OBVIOUS
  <2> USE DEF Edit
  <2>0. Filled(form) /\ scene \in Scenes
    BY DEF FilledInv
  <2>s. scene.ips \subseteq Texts /\ scene.masks \subseteq Texts /\ scene.gateways \subseteq Texts
    BY <2>0, ScenesAssumption
  <2>e. ASSUME NEW f, Filled(f), Enter(f)
        PROVE  FilledInv'
    BY <2>0, <2>e DEF Enter, FilledInv, Filled
  <2>1. CASE Show \/ Choose
    BY <2>0, <2>1, DeviceKeepsFilled DEF Show, Choose, FilledInv
  <2>2. CASE TypeMAC
    <3>1. PICK text : form' = [form EXCEPT !.mac = text]
      BY <2>2 DEF TypeMAC
    <3>2. QED
      BY <2>0, <2>2, <3>1 DEF TypeMAC, FilledInv, Filled, Fields
  <2>3. CASE isChangingCurrentIP
    <3>1. PICK text \in scene.currents : readCurrentConfigFromDevice([form EXCEPT !.current = text])
      BY <2>3 DEF isChangingCurrentIP
    <3>2. Filled([form EXCEPT !.current = text])
      BY <2>0 DEF Filled, Fields
    <3>3. QED
      BY <2>0, <2>3, <3>1, <3>2, ReadAddresses DEF isChangingCurrentIP, FilledInv
  <2>4. CASE doIP
    <3>1. PICK text \in scene.ips : Enter(WithGateway(WithMask([form EXCEPT !.ip = text])))
      BY <2>4 DEF doIP
    <3>2. Filled([form EXCEPT !.ip = text])
      BY <2>0, <2>s DEF Filled, Fields
    <3>3. QED
      BY <2>e, <3>1, <3>2, ProposalsAreTexts
  <2>5. CASE doSubnetMask
    <3>1. PICK text \in scene.masks : Enter(WithGateway([form EXCEPT !.mask = text]))
      BY <2>5 DEF doSubnetMask
    <3>2. Filled([form EXCEPT !.mask = text])
      BY <2>0, <2>s DEF Filled, Fields
    <3>3. QED
      BY <2>e, <3>1, <3>2, ProposalsAreTexts
  <2>6. CASE TypeGateway
    <3>1. PICK text \in scene.gateways : Enter([form EXCEPT !.gw = text])
      BY <2>6 DEF TypeGateway
    <3>2. Filled([form EXCEPT !.gw = text])
      BY <2>0, <2>s DEF Filled, Fields
    <3>3. QED
      BY <2>e, <3>1, <3>2
  <2>7. CASE Tick
    <3>1. PICK f : /\ f = [form EXCEPT !.persistent = ~@] \/ f = [form EXCEPT !.dhcp = ~@]
                   /\ Enter(f)
      BY <2>7 DEF Tick
    <3>2. Filled(f)
      BY <2>0, <3>1 DEF Filled, Fields
    <3>3. QED
      BY <2>e, <3>1, <3>2
  <2>8. CASE isClear
    <3> DEFINE f == [form EXCEPT !.ip = Empty, !.mask = Empty, !.gw = Empty]
    <3>1. Filled(f)
      BY <2>0 DEF Filled, Fields, Addresses, Texts, Empty
    <3>2. Enter(f)
      BY <2>8 DEF isClear
    <3> HIDE DEF f
    <3>3. QED
      BY <2>e, <3>1, <3>2
  <2>9. CASE Close \/ isSet \/ AnswerSubnet \/ AnswerYes \/ AnswerNo \/ Gone \/ UNCHANGED vars
    BY <2>9 DEF Close, isSet, AnswerSubnet, AnswerYes, AnswerNo, Gone, Unchanged, vars,
                FilledInv, Filled
  <2>10. QED
    BY <2>1, <2>2, <2>3, <2>4, <2>5, <2>6, <2>7, <2>8, <2>9 DEF Next
<1>3. QED
  BY <1>1, <1>2, PTL DEF Spec

\* The bit that tells 172.16.0.0/12 is set in every second sixteen.
LEMMA BitOf16Is ==
  ASSUME NEW x \in Byte, HasBit(x, 16)
  PROVE  x \in 16..31 \/ x \in BitOf16
<1>1. PICK k \in 0..15 : x \div 16 = k
  BY DEF Byte
<1>2. k \in {1, 3, 5, 7, 9, 11, 13, 15} /\ x \in 16 * k .. 16 * k + 15
  BY <1>1 DEF HasBit, Byte
<1>3. QED
  BY <1>2 DEF BitOf16

LEMMA Bit16 ==
  ASSUME NEW x \in 16..31
  PROVE  HasBit(x, 16)
  BY DEF HasBit

LEMMA ProposedMask ==
  ASSUME NEW ip \in Addresses
  PROVE  \/ MaskOf(ip) = PrivateMask(ip)
         \/ ip[1] = 172 /\ ip[2] \in BitOf16 /\ MaskOf(ip) = <<255, 240, 0>>
  BY BitOf16Is, Bit16 DEF MaskOf, PrivateMask, Addresses

\* What the mask is after an address has been entered.
MaskFits ==
  IF IsIP(form.mask) THEN form'.mask = form.mask
  ELSE \/ form'.mask = PrivateMask(form'.ip)
       \/ PrivateMask(form'.ip) = Empty /\ form'.mask = form.mask
       \/ form'.ip[1] = 172 /\ form'.ip[2] \in BitOf16 /\ form'.mask = <<255, 240, 0>>

LEMMA ProposalFits ==
  ASSUME FilledInv, doIP, IsIP(form'.ip)
  PROVE  /\ MaskFits
         /\ IsIP(form'.mask) /\ form'.mask[3] % 2 = 0 => ~Mismatch(form')
<1>1. PICK text \in Texts : form' = WithGateway(WithMask([form EXCEPT !.ip = text]))
  BY ScenesAssumption DEF FilledInv, doIP, Enter
<1> DEFINE f == [form EXCEPT !.ip = text]
           m == WithMask(f)
<1>2. /\ Filled(f) /\ f.ip = text /\ f.mask = form.mask
      /\ Filled(m) /\ m.ip = text
      /\ m.mask = IF IsIP(text) /\ ~IsIP(form.mask) /\ MaskOf(text) # Empty THEN MaskOf(text) ELSE form.mask
  <2>1. Filled(f) /\ f.ip = text /\ f.mask = form.mask
    BY DEF FilledInv, Filled, Fields
  <2> HIDE DEF f
  <2>2. QED
    BY <2>1, ProposalsAreTexts DEF WithMask, Filled, Fields
<1>3. form' = WithGateway(m)
  BY <1>1
<1> HIDE DEF f, m
<1>4. form'.ip = text /\ form'.mask = m.mask
  BY <1>2, <1>3 DEF WithGateway, Filled, Fields
<1>5. text \in Addresses
  BY <1>4 DEF Addresses, Texts, IsIP, getIP, Empty
<1>6. MaskFits
  <2>1. CASE IsIP(form.mask)
    BY <1>2, <1>4, <2>1 DEF MaskFits
  <2>2. CASE ~IsIP(form.mask) /\ MaskOf(text) # Empty
    BY <1>2, <1>4, <1>5, <2>2, ProposedMask DEF MaskFits
  <2>3. CASE ~IsIP(form.mask) /\ MaskOf(text) = Empty
    <3>1. PrivateMask(text) = Empty
      BY <1>5, <2>3, ProposedMask DEF Empty
    <3>2. QED
      BY <1>2, <1>4, <2>3, <3>1 DEF MaskFits
  <2>4. QED
    BY <2>1, <2>2, <2>3
<1>7. ASSUME IsIP(form'.mask), form'.mask[3] % 2 = 0
      PROVE  ~Mismatch(form')
  <2>1. m.mask \in Addresses
    BY <1>2, <1>4, <1>7 DEF Addresses, Texts, IsIP, getIP, Empty, Filled
  <2> DEFINE gw == OrOne(And(text, m.mask))
  <2>2. form'.gw = gw
    BY <1>2, <1>3, <1>4, <1>7 DEF WithGateway, Filled, Fields
  <2>3. And(gw, m.mask) = And(text, m.mask)
    BY <1>4, <1>5, <1>7, <2>1, ProposedGateway
  <2>4. gw # Empty
    BY DEF OrOne, And, Empty
  <2> HIDE DEF gw
  <2>5. text # Empty /\ m.mask # Empty
    BY <1>4, <1>7 DEF IsIP, getIP
  <2>6. getIP(form'.ip) = text /\ getIP(form'.mask) = m.mask /\ getIP(form'.gw) = gw
    BY <1>4, <2>2, <2>4, <2>5 DEF getIP
  <2>7. QED
    BY <1>4, <2>3, <2>6 DEF Mismatch
<1>8. QED
  BY <1>6, <1>7

\* For every address and every mask: the mask of the range is proposed, and the
\* proposed gateway is in the subnet.
THEOREM ProposalsAreGood == Spec => ProposalsFit
<1>1. FilledInv /\ [Next]_vars =>
        [doIP /\ IsIP(form'.ip) =>
           /\ IF IsIP(form.mask) THEN form'.mask = form.mask
              ELSE \/ form'.mask = PrivateMask(form'.ip)
                   \/ PrivateMask(form'.ip) = Empty /\ form'.mask = form.mask
                   \/ form'.ip[1] = 172 /\ form'.ip[2] \in BitOf16 /\ form'.mask = <<255, 240, 0>>
           /\ IsIP(form'.mask) /\ form'.mask[3] % 2 = 0 => ~Mismatch(form')]_vars
  BY ProposalFits DEF MaskFits
<1>2. QED
  BY <1>1, FormIsFilled, PTL DEF Spec, ProposalsFit

-----------------------------------------------------------------------------
(* The menu                                                                *)

\* A list of lists of one element each, put together.
LEMMA FlattenedOnes ==
  ASSUME NEW X, NEW n \in Nat \ {0}, NEW x \in [1..n -> X]
  PROVE  FlattenSeq([i \in 1..n |-> <<x[i]>>]) = x
<1> DEFINE s == [i \in 1..n |-> <<x[i]>>]
           up(i) == [k \in 1..i |-> x[k]]
           f == [i \in 1..n |-> up(i)]
           Flattens(h) == h = [i \in 1..n |-> IF i = 1 THEN s[i] ELSE h[i - 1] \o s[i]]
<1>1. Len(s) = n /\ \A i \in 1..n : s[i] = <<x[i]>>
  OBVIOUS
<1>2. up(1) = <<x[1]>>
  OBVIOUS
<1>3. ASSUME NEW i \in 2..n
      PROVE  up(i) = up(i - 1) \o <<x[i]>>
  <2>1. /\ up(i - 1) \in Seq(X) /\ Len(up(i - 1)) = i - 1
        /\ up(i) \in Seq(X) /\ Len(up(i)) = i
        /\ <<x[i]>> \in Seq(X) /\ Len(<<x[i]>>) = 1
    OBVIOUS
  <2>2. \A k \in 1..i : up(i)[k] = x[k]
    OBVIOUS
  <2>3. \A k \in 1..(i - 1) : up(i - 1)[k] = x[k]
    OBVIOUS
  <2> DEFINE u == up(i)
             v == up(i - 1)
             w == <<x[i]>>
  <2>4. w[1] = x[i]
    OBVIOUS
  <2>5. /\ v \in Seq(X) /\ Len(v) = i - 1
        /\ u \in Seq(X) /\ Len(u) = i
        /\ w \in Seq(X) /\ Len(w) = 1
        /\ \A k \in 1..i : u[k] = x[k]
        /\ \A k \in 1..(i - 1) : v[k] = x[k]
    BY <2>1, <2>2, <2>3
  <2> HIDE DEF u, v, w, up
  <2>c. /\ v \o w \in Seq(X)
        /\ Len(v \o w) = Len(v) + Len(w)
        /\ \A k \in 1 .. Len(v) + Len(w) :
             (v \o w)[k] = IF k <= Len(v) THEN v[k] ELSE w[k - Len(v)]
    <3>1. v \in Seq(X) /\ w \in Seq(X)
      BY <2>5
    <3> HIDE <2>5
    <3>2. QED
      BY <3>1, ConcatProperties
  <2>p. PICK c : c = v \o w
    OBVIOUS
  <2>6. c \in Seq(X) /\ Len(c) = i /\ \A k \in 1..i : c[k] = IF k <= i - 1 THEN v[k] ELSE w[k - (i - 1)]
    BY <2>5, <2>c, <2>p
  <2>7. \A k \in 1..i : c[k] = x[k]
    BY <2>4, <2>5, <2>6
  <2>8. u = v \o w
    <3>1. u = c
      BY <2>5, <2>6, <2>7
    <3>2. QED
      BY <2>p, <3>1
  <2>9. QED
    BY <2>8 DEF u, v, w
<1> HIDE DEF s, up
<1>4. Flattens(f)
  <2>1. \A i \in 1..n : f[i] = IF i = 1 THEN s[i] ELSE f[i - 1] \o s[i]
    <3>1. SUFFICES ASSUME NEW i \in 1..n
                   PROVE  f[i] = IF i = 1 THEN s[i] ELSE f[i - 1] \o s[i]
      OBVIOUS
    <3>2. CASE i = 1
      BY <1>1, <1>2, <3>2
    <3>3. CASE i # 1
      <4>1. i \in 2..n /\ i - 1 \in 1..n
        BY <3>3
      <4>2. QED
        BY <1>1, <1>3, <3>3, <4>1
    <3>4. QED
      BY <3>2, <3>3
  <2>2. f = [i \in 1..n |-> f[i]]
    OBVIOUS
  <2> HIDE DEF f
  <2>3. QED
    BY <2>1, <2>2
<1> DEFINE flatten == CHOOSE h : Flattens(h)
<1>5. Flattens(flatten)
  BY <1>4
<1>6. FlattenSeq(s) = flatten[n]
  BY <1>1 DEF FlattenSeq
<1> HIDE DEF flatten
<1>7. \A i \in 1..n : flatten[i] = f[i]
  <2> DEFINE Wrong == {i \in 1..n : flatten[i] # f[i]}
  <2>1. SUFFICES ASSUME Wrong # {} PROVE FALSE
    OBVIOUS
  <2>2. PICK i \in Wrong : \A j \in Wrong : i <= j
    <3>1. Wrong \in SUBSET Nat
      OBVIOUS
    <3> HIDE DEF Wrong
    <3>2. QED
      BY <2>1, <3>1, LeastNumber
  <2>3. i \in 1..n /\ flatten[i] # f[i]
    BY <2>2
  <2> HIDE DEF f
  <2>4. CASE i = 1
    BY <1>4, <1>5, <2>3, <2>4
  <2>5. CASE i # 1
    <3>1. i - 1 \in 1..n /\ ~(i <= i - 1)
      BY <2>3, <2>5
    <3>2. flatten[i - 1] = f[i - 1]
      BY <2>2, <3>1
    <3>3. flatten[i] = flatten[i - 1] \o s[i]
      BY <1>5, <2>3, <2>5
    <3>4. f[i] = f[i - 1] \o s[i]
      BY <1>4, <2>3, <2>5
    <3>5. QED
      BY <2>3, <3>2, <3>3, <3>4
  <2>6. QED
    BY <2>4, <2>5
<1>8. f[n] = x
  BY DEF up
<1>9. QED
  BY <1>6, <1>7, <1>8 DEF s

\* No name would be split into a submenu.
NoSlash(l) == \A i \in DOMAIN l : l[i].name # "slash"

\* What the menu item of a device names.
ItemMAC(d) == IF d.name = "dash" THEN Garbled ELSE d.mac

\* Without "/", the menu has <CUSTOM> and one item for each device.
LEMMA MenuOfList ==
  ASSUME NEW l \in Seq(Devices), NoSlash(l)
  PROVE  /\ DOMAIN Menu(l) = 1..(Len(l) + 1)
         /\ Menu(l)[1].mac = 0
         /\ \A c \in DOMAIN Menu(l) : Menu(l)[c].is = "leaf"
         /\ \A c \in DOMAIN Menu(l) : c > 1 => Menu(l)[c].mac = ItemMAC(l[c - 1])
<1>1. PICK n \in Nat : n = Len(l) /\ DOMAIN l = 1..n
  OBVIOUS
<1> DEFINE X == [is : {"leaf"}, mac : Int]
           x == [i \in 1..n |-> [is |-> "leaf", mac |-> ItemMAC(l[i])]]
           first == <<[is |-> "leaf", mac |-> 0]>>
           rest == FlattenSeq([i \in DOMAIN l |-> Items(l[i])])
<1>2. \A i \in 1..n : l[i] \in Devices /\ l[i].name \in {"plain", "dash"}
  <2>1. \A i \in 1..n : l[i] \in Devices /\ l[i].name # "slash"
    BY <1>1 DEF NoSlash
  <2>2. QED
    BY <2>1 DEF Devices
<1>3. x \in [1..n -> X]
  BY <1>2 DEF ItemMAC, Garbled, Devices
<1>4. [i \in DOMAIN l |-> Items(l[i])] = [i \in 1..n |-> <<x[i]>>]
  <2>1. \A i \in 1..n : Items(l[i]) = <<x[i]>>
    BY <1>2 DEF Items, ItemMAC
  <2> HIDE DEF x
  <2>2. QED
    BY <1>1, <2>1
<1>5. rest = x
  <2>1. CASE n = 0
    <3>1. [i \in 1..n |-> <<x[i]>>] = << >> /\ x = << >>
      BY <2>1
    <3>2. FlattenSeq(<< >>) = << >>
      BY DEF FlattenSeq
    <3> HIDE DEF x
    <3>3. QED
      BY <1>4, <3>1, <3>2
  <2>2. CASE n # 0
    <3> HIDE DEF x
    <3>1. FlattenSeq([i \in 1..n |-> <<x[i]>>]) = x
      BY <1>3, <2>2, FlattenedOnes
    <3>2. QED
      BY <1>4, <3>1
  <2>3. QED
    BY <2>1, <2>2
<1>6. Menu(l) = first \o rest
  BY DEF Menu
<1>7. \A k \in 1..n : x[k].is = "leaf" /\ x[k].mac = ItemMAC(l[k])
  OBVIOUS
<1> HIDE DEF x, rest
<1>8. first \in Seq(X) /\ Len(first) = 1 /\ x \in Seq(X) /\ Len(x) = n
  <2>1. [is |-> "leaf", mac |-> 0] \in X
    OBVIOUS
  <2> HIDE DEF X
  <2>2. x \in Seq(X) /\ Len(x) = n
    BY <1>3
  <2>3. first \in Seq(X) /\ Len(first) = 1
    BY <2>1
  <2>4. QED
    BY <2>2, <2>3
<1>9. first[1].is = "leaf" /\ first[1].mac = 0
  OBVIOUS
<1> HIDE DEF first, X
<1>10. /\ first \o x \in Seq(X)
       /\ Len(first \o x) = Len(first) + Len(x)
       /\ \A k \in 1 .. Len(first) + Len(x) :
             (first \o x)[k] = IF k <= Len(first) THEN first[k] ELSE x[k - Len(first)]
  <2>1. first \in Seq(X) /\ x \in Seq(X)
    BY <1>8
  <2> HIDE <1>8
  <2>2. QED
    BY <2>1, ConcatProperties
<1>11. PICK menu : menu = first \o x
  OBVIOUS
<1>12. /\ menu = Menu(l) /\ DOMAIN menu = 1..(n + 1)
       /\ \A k \in 1..(n + 1) : menu[k] = IF k <= 1 THEN first[k] ELSE x[k - 1]
  <2>1. menu \in Seq(X) /\ Len(menu) = 1 + n
    BY <1>8, <1>10, <1>11
  <2>2. \A k \in 1..(1 + n) : menu[k] = IF k <= 1 THEN first[k] ELSE x[k - 1]
    BY <1>8, <1>10, <1>11
  <2>3. QED
    BY <1>5, <1>6, <1>11, <2>1, <2>2
<1>13. menu[1] = first[1] /\ \A k \in 1..(n + 1) : k > 1 => k - 1 \in 1..n /\ menu[k] = x[k - 1]
  BY <1>12
<1>14. \A k \in 1..(n + 1) : menu[k].is = "leaf"
  <2>1. \A k \in 1..(n + 1) : k = 1 \/ k > 1
    OBVIOUS
  <2>2. QED
    BY <1>7, <1>9, <1>13, <2>1
<1>15. QED
  BY <1>1, <1>7, <1>9, <1>12, <1>13, <1>14

LEMMA OfferedIsList ==
  ASSUME NEW l \in Seq(Devices)
  PROVE  Offered(l) \in Seq(Devices)
<1> DEFINE S == {i \in DOMAIN l : (Kind = "reset" => l[i].visard) /\ (Kind = "config" => l[i].reachable)}
<1>1. PICK n \in Nat : DOMAIN l = 1..n /\ \A i \in 1..n : l[i] \in Devices
  OBVIOUS
<1>2. S \in SUBSET (1..n)
  BY <1>1
<1>3. Offered(l) = Kept(l, S)
  BY DEF Offered
<1> HIDE DEF S
<1>4. PICK m \in Nat : DOMAIN Ascending(S) = 1..m /\ \A k \in 1..m : Ascending(S)[k] \in 1..n
  BY <1>2, AscendingPositions
<1>5. Kept(l, S) = [k \in 1..m |-> l[Ascending(S)[k]]]
  BY <1>4 DEF Kept
<1>6. \A k \in 1..m : l[Ascending(S)[k]] \in Devices
  BY <1>1, <1>4
<1>7. QED
  BY <1>3, <1>5, <1>6

LEMMA PreselectedIsItem ==
  ASSUME NEW l \in Seq(Devices), NEW mac
  PROVE  Preselected(l, mac) \in 1..(Len(l) + 1)
<1>1. CASE \E i \in DOMAIN l : l[i].mac = mac
  <2> DEFINE i == CHOOSE i \in DOMAIN l : l[i].mac = mac
  <2>1. i \in DOMAIN l
    BY <1>1
  <2>2. Preselected(l, mac) = 1 + i
    BY <1>1 DEF Preselected
  <2> HIDE DEF i
  <2>3. QED
    BY <2>1, <2>2
<1>2. CASE ~ \E i \in DOMAIN l : l[i].mac = mac
  BY <1>2 DEF Preselected
<1>3. QED
  BY <1>1, <1>2

\* A device that is named by the menu is not open to the user; without "/" the
\* positions of the menu are those of the list.
ChosenInv ==
  /\ list \in Seq(Devices)
  /\ NoSlash(list) =>
       /\ chosen \in 1..(Len(list) + 1)
       /\ question.is # "gone"
       /\ chosen > 1 =>
            /\ ~active.device
            /\ form.mac = ItemMAC(list[chosen - 1])
            /\ Kind = "config" => form.current = list[chosen - 1].ip

\* What the menu names is never left to the user.
LEMMA NamedByMenu ==
  ASSUME NEW l \in Seq(Devices), NoSlash(l), NEW c \in 1..(Len(l) + 1), c > 1
  PROVE  /\ Menu(l)[c].is = "leaf"
         /\ getMAC(l, c) = ItemMAC(l[c - 1])
         /\ getMAC(l, c) # 0
         /\ chosenIP(l, c) = l[c - 1].ip
<1>1. PICK n \in Nat : n = Len(l) /\ DOMAIN l = 1..n /\ \A i \in 1..n : l[i] \in Devices
  OBVIOUS
<1>2. c \in 1..(n + 1) /\ c - 1 \in 1..n
  BY <1>1
<1>3. /\ DOMAIN Menu(l) = 1..(n + 1)
      /\ \A k \in DOMAIN Menu(l) : Menu(l)[k].is = "leaf"
      /\ \A k \in DOMAIN Menu(l) : k > 1 => Menu(l)[k].mac = ItemMAC(l[k - 1])
  BY <1>1, MenuOfList
<1>4. Menu(l)[c].is = "leaf" /\ getMAC(l, c) = ItemMAC(l[c - 1])
  BY <1>2, <1>3 DEF getMAC
<1>5. ItemMAC(l[c - 1]) # 0
  <2>1. l[c - 1] \in Devices
    BY <1>1, <1>2
  <2>2. l[c - 1].mac # 0
    BY <2>1 DEF Devices
  <2>3. QED
    BY <2>2 DEF ItemMAC, Garbled
<1>6. chosenIP(l, c) = l[c - 1].ip
  <2> DEFINE first == <<Empty>>
             ips == [i \in DOMAIN l |-> l[i].ip]
             X == {l[i].ip : i \in DOMAIN l} \union {Empty}
  <2>1. ips = [i \in 1..n |-> l[i].ip] /\ \A i \in 1..n : ips[i] = l[i].ip
    BY <1>1
  <2>2. \A i \in 1..n : l[i].ip \in X
    BY <1>1
  <2>3. first \in Seq(X) /\ Len(first) = 1
    OBVIOUS
  <2>4. first[1] = Empty
    OBVIOUS
  <2> HIDE DEF X, first
  <2>5. ips \in Seq(X) /\ Len(ips) = n
    BY <2>1, <2>2
  <2> HIDE DEF ips
  <2>6. /\ Len(first \o ips) = Len(first) + Len(ips)
        /\ \A k \in 1 .. Len(first) + Len(ips) :
              (first \o ips)[k] = IF k <= Len(first) THEN first[k] ELSE ips[k - Len(first)]
    <3>1. first \in Seq(X) /\ ips \in Seq(X)
      BY <2>3, <2>5
    <3> HIDE <2>3, <2>5
    <3>2. QED
      BY <3>1, ConcatProperties
  <2>7. PICK both : both = first \o ips
    OBVIOUS
  <2>8. Len(both) = 1 + n /\ \A k \in 1..(1 + n) : both[k] = IF k <= 1 THEN first[k] ELSE ips[k - 1]
    BY <2>3, <2>5, <2>6, <2>7
  <2>9. ip_list(l) = both
    BY <2>7 DEF ip_list, first, ips
  <2>10. c <= Len(both) /\ both[c] = ips[c - 1]
    BY <1>1, <1>2, <2>8
  <2>11. QED
    BY <1>2, <2>1, <2>9, <2>10 DEF chosenIP
<1>7. QED
  BY <1>4, <1>5, <1>6

\* Reading a configuration keeps what names the device.
LEMMA ReadingKeepsDevice ==
  ASSUME NEW f, DOMAIN f = Fields, readCurrentConfigFromDevice(f)
  PROVE  form'.mac = f.mac /\ form'.current = f.current
  BY DEF readCurrentConfigFromDevice, Fill, Fields

LEMMA DeviceIsShown ==
  ASSUME DOMAIN form = Fields, isChangingDevice, UNCHANGED scene, question = Quiet,
         list' \in Seq(Devices),
         NoSlash(list') => chosen' \in 1..(Len(list') + 1)
  PROVE  ChosenInv'
<1>1. SUFFICES ASSUME NoSlash(list')
      PROVE  /\ chosen' \in 1..(Len(list') + 1)
             /\ question'.is # "gone"
             /\ chosen' > 1 =>
                  /\ ~active'.device
                  /\ form'.mac = ItemMAC(list'[chosen' - 1])
                  /\ Kind = "config" => form'.current = list'[chosen' - 1].ip
  BY DEF ChosenInv, Kind, NoSlash
<1>2. PICK l, c : l \in Seq(Devices) /\ c \in 1..(Len(l) + 1) /\ l = list' /\ c = chosen' /\ NoSlash(l)
  BY <1>1
<1>3. Menu(l)[c].is = "leaf"
  BY <1>2, MenuOfList
<1>4. /\ IF Kind = "config"
           THEN readCurrentConfigFromDevice([form EXCEPT !.mac = getMAC(l, c), !.current = chosenIP(l, c)])
           ELSE form' = [form EXCEPT !.mac = getMAC(l, c)]
      /\ UNCHANGED question
      /\ update
  BY <1>2, <1>3 DEF isChangingDevice
<1>5. question'.is # "gone"
  BY <1>4 DEF Quiet
<1>6. ASSUME c > 1
      PROVE  /\ ~active'.device
             /\ form'.mac = ItemMAC(l[c - 1])
             /\ Kind = "config" => form'.current = l[c - 1].ip
  <2>1. /\ getMAC(l, c) = ItemMAC(l[c - 1]) /\ getMAC(l, c) # 0
        /\ chosenIP(l, c) = l[c - 1].ip
    BY <1>2, <1>6, NamedByMenu
  <2>2. active'.device = (getMAC(l, c) = 0)
    BY <1>2, <1>4 DEF update
  <2>3. CASE Kind = "config"
    <3> DEFINE f == [form EXCEPT !.mac = getMAC(l, c), !.current = chosenIP(l, c)]
    <3>1. DOMAIN f = Fields /\ f.mac = getMAC(l, c) /\ f.current = chosenIP(l, c)
      BY DEF Fields
    <3>2. readCurrentConfigFromDevice(f)
      BY <1>4, <2>3
    <3> HIDE DEF f
    <3>3. form'.mac = f.mac /\ form'.current = f.current
      BY <3>1, <3>2, ReadingKeepsDevice
    <3>4. QED
      BY <2>1, <2>2, <3>1, <3>3
  <2>4. CASE Kind # "config"
    BY <1>4, <2>1, <2>2, <2>4 DEF Fields
  <2>5. QED
    BY <2>3, <2>4
<1>7. QED
  BY <1>2, <1>5, <1>6

\* The fields that do not name the device.
LEMMA EnteringKeepsDevice ==
  ASSUME ChosenInv, NEW f, Enter(f), f.mac = form.mac, f.current = form.current,
         UNCHANGED scene
  PROVE  ChosenInv'
<1>1. UNCHANGED <<list, chosen, question, scene>> /\ form' = f /\ update
  BY DEF Enter
<1>2. ASSUME NoSlash(list), chosen > 1
      PROVE  ~active'.device
  <2>1. chosen \in 1..(Len(list) + 1) /\ list \in Seq(Devices)
    BY <1>2 DEF ChosenInv
  <2>2. getMAC(list, chosen) # 0
    BY <1>2, <2>1, NamedByMenu
  <2>3. QED
    BY <1>1, <2>2 DEF update
<1>3. QED
  BY <1>1, <1>2 DEF ChosenInv, NoSlash, Kind

LEMMA ProposalsKeepNames ==
  ASSUME NEW f, DOMAIN f = Fields
  PROVE  /\ WithMask(f).mac = f.mac /\ WithMask(f).current = f.current
         /\ WithGateway(f).mac = f.mac /\ WithGateway(f).current = f.current
  BY DEF WithMask, WithGateway, Fields

\* A device that is named by hand is none of the menu.
LEMMA NamingByHand ==
  ASSUME ChosenInv, active.device, UNCHANGED <<scene, list, chosen, question>>
  PROVE  ChosenInv'
  BY DEF ChosenInv, NoSlash

LEMMA ChosenHolds == Spec => []ChosenInv
<1>1. Init => ChosenInv
  BY DEF Init, ChosenInv, NoSlash, Quiet
<1>2. QuestionInv /\ FilledInv /\ ChosenInv /\ [Next]_vars => ChosenInv'
  <2> SUFFICES ASSUME QuestionInv, FilledInv, ChosenInv, [Next]_vars
               PROVE  ChosenInv'
    OBVIOUS
  <2> USE DEF Edit
  <2>0. DOMAIN form = Fields /\ list \in Seq(Devices) /\ scene.lists \subseteq Seq(Devices)
    BY ScenesAssumption DEF FilledInv, Filled, ChosenInv
  <2>1. CASE Show
    <3>1. PICK l \in scene.lists : list' = Offered(l) /\ \E mac : chosen' = Preselected(list', mac)
      BY <2>1 DEF Show
    <3>2. list' \in Seq(Devices)
      BY <2>0, <3>1, OfferedIsList
    <3>3. chosen' \in 1..(Len(list') + 1)
      BY <3>1, <3>2, PreselectedIsItem
    <3>4. isChangingDevice /\ UNCHANGED scene /\ question = Quiet
      BY <2>1 DEF Show
    <3>5. QED
      BY <2>0, <3>2, <3>3, <3>4, DeviceIsShown
  <2>2. CASE Choose
    <3>1. /\ chosen' \in DOMAIN Menu(list) /\ UNCHANGED <<list, scene>>
          /\ isChangingDevice /\ question = Quiet
      BY <2>2 DEF Choose, Editing
    <3>2. NoSlash(list') => chosen' \in 1..(Len(list') + 1)
      <4>1. NoSlash(list) => DOMAIN Menu(list) = 1..(Len(list) + 1)
        BY <2>0, MenuOfList
      <4>2. QED
        BY <3>1, <4>1
    <3>3. QED
      BY <2>0, <3>1, <3>2, DeviceIsShown
  <2>3. CASE TypeMAC \/ isChangingCurrentIP
    BY <2>3, NamingByHand DEF TypeMAC, isChangingCurrentIP
  <2>4. CASE doIP
    <3>1. PICK text \in scene.ips : Enter(WithGateway(WithMask([form EXCEPT !.ip = text])))
      BY <2>4 DEF doIP
    <3> DEFINE f == [form EXCEPT !.ip = text]
    <3>2. DOMAIN f = Fields /\ f.mac = form.mac /\ f.current = form.current
      BY <2>0 DEF Fields
    <3>3. Enter(WithGateway(WithMask(f)))
      BY <3>1
    <3> HIDE DEF f
    <3>4. /\ WithGateway(WithMask(f)).mac = form.mac
          /\ WithGateway(WithMask(f)).current = form.current
      BY <3>2, ProposalsKeepDevice, ProposalsKeepNames
    <3>5. UNCHANGED scene
      BY <3>3 DEF Enter
    <3>6. QED
      BY <3>3, <3>4, <3>5, EnteringKeepsDevice
  <2>5. CASE doSubnetMask
    <3>1. PICK text \in scene.masks : Enter(WithGateway([form EXCEPT !.mask = text]))
      BY <2>5 DEF doSubnetMask
    <3> DEFINE f == [form EXCEPT !.mask = text]
    <3>2. DOMAIN f = Fields /\ f.mac = form.mac /\ f.current = form.current
      BY <2>0 DEF Fields
    <3>3. Enter(WithGateway(f))
      BY <3>1
    <3> HIDE DEF f
    <3>4. WithGateway(f).mac = form.mac /\ WithGateway(f).current = form.current
      BY <3>2, ProposalsKeepNames
    <3>5. UNCHANGED scene
      BY <3>3 DEF Enter
    <3>6. QED
      BY <3>3, <3>4, <3>5, EnteringKeepsDevice
  <2>6. CASE TypeGateway \/ Tick \/ isClear
    <3>1. PICK f : /\ Enter(f)
                   /\ \/ \E text : f = [form EXCEPT !.gw = text]
                      \/ f = [form EXCEPT !.persistent = ~@]
                      \/ f = [form EXCEPT !.dhcp = ~@]
                      \/ f = [form EXCEPT !.ip = Empty, !.mask = Empty, !.gw = Empty]
      BY <2>6 DEF TypeGateway, Tick, isClear
    <3>2. f.mac = form.mac /\ f.current = form.current
      BY <2>0, <3>1 DEF Fields
    <3>3. Enter(f)
      BY <3>1
    <3> HIDE <3>1
    <3>4. UNCHANGED scene
      BY <3>3 DEF Enter
    <3>5. QED
      BY <3>2, <3>3, <3>4, EnteringKeepsDevice
  <2>7. CASE Close \/ isSet \/ AnswerSubnet \/ AnswerYes \/ AnswerNo
    <3>1. UNCHANGED <<scene, list, chosen, form, active>>
      BY <2>7 DEF Close, isSet, AnswerSubnet, AnswerYes, AnswerNo, Unchanged
    <3>2. question'.is = "gone" => question.is = "gone"
      <4>1. CASE Close \/ AnswerNo
        BY <4>1 DEF Close, AnswerNo, Quiet
      <4>2. CASE isSet \/ AnswerSubnet
        BY <4>2 DEF isSet, AnswerSubnet, AskSure, Quiet
      <4>3. CASE AnswerYes
        BY <4>3 DEF AnswerYes, Quiet, QuestionInv
      <4>4. QED
        BY <2>7, <4>1, <4>2, <4>3
    <3>3. QED
      BY <3>1, <3>2 DEF ChosenInv, NoSlash, Kind
  <2>8. CASE Gone \/ UNCHANGED vars
    BY <2>8 DEF Gone, vars, ChosenInv, NoSlash, Kind
  <2>9. QED
    BY <2>1, <2>2, <2>3, <2>4, <2>5, <2>6, <2>7, <2>8 DEF Next
<1>3. QED
  BY <1>1, <1>2, QuestionHolds, FormIsFilled, PTL DEF Spec

\* The form is still the one that the last command was made from.
Target == IF Kind = "config" THEN form.current ELSE form.mac

SentInv == sent # << >> => sent[1].to = Target /\ (Kind # "config" => IsMAC(form.mac))

LEMMA SentHolds == Spec => []SentInv
<1>1. Init => SentInv
  BY DEF Init, SentInv
<1>2. QuestionInv /\ SentInv /\ [Next]_vars => SentInv'
  <2> SUFFICES ASSUME QuestionInv, SentInv, [Next]_vars PROVE SentInv'
    OBVIOUS
  <2>1. ASSUME sent' = << >> PROVE SentInv'
    BY <2>1 DEF SentInv
  <2>2. CASE AnswerYes
    <3>1. UNCHANGED <<scene, form>> /\ sent' = <<Command>>
      BY <2>2 DEF AnswerYes, Unchanged
    <3>2. sent'[1].to = Target
      BY <3>1 DEF Command, Target
    <3>3. Kind # "config" => IsMAC(form.mac)
      <4>1. Complete(form) /\ Kind \in {"reset", "tmpip", "config", "reconnect"}
        BY <2>2, ScenesAssumption DEF AnswerYes, QuestionInv, Kind
      <4>2. QED
        BY <4>1 DEF Complete
    <3>4. QED
      BY <3>1, <3>2, <3>3 DEF SentInv, Target, Kind
  <2>3. CASE Show \/ Choose \/ TypeMAC \/ isChangingCurrentIP
    BY <2>1, <2>3 DEF Show, Choose, TypeMAC, isChangingCurrentIP, Edit
  <2>4. CASE doIP \/ doSubnetMask \/ TypeGateway \/ Tick \/ isClear
    BY <2>1, <2>4 DEF doIP, doSubnetMask, TypeGateway, Tick, isClear, Enter, Edit
  <2>5. CASE Close \/ isSet \/ AnswerSubnet \/ AnswerNo
    BY <2>1, <2>5 DEF Close, isSet, AnswerSubnet, AnswerNo
  <2>6. CASE Gone \/ UNCHANGED vars
    BY <2>6 DEF Gone, vars, SentInv, Target, Kind
  <2>7. QED
    BY <2>2, <2>3, <2>4, <2>5, <2>6 DEF Next
<1>3. QED
  BY <1>1, <1>2, QuestionHolds, PTL DEF Spec

\* For lists of any length: the form shows the device that is chosen in the menu,
\* and a command goes to that one.
THEOREM ChosenIsShown == Spec => []ShownIsChosen
<1>1. ChosenInv /\ SentInv => ShownIsChosen
  <2> SUFFICES ASSUME ChosenInv, SentInv PROVE ShownIsChosen
    OBVIOUS
  <2>1. NoSlash(list) <=> "slash" \notin {d.name : d \in Range(list)}
    BY DEF NoSlash, Range
  <2>2. ASSUME NoSlash(list), chosen > 1, sent # << >>
        PROVE  IF Kind = "config" THEN sent[1].to = list[chosen - 1].ip
               ELSE sent[1].to = list[chosen - 1].mac /\ list[chosen - 1].name # "dash"
    BY <2>2 DEF ChosenInv, SentInv, Target, ItemMAC, IsMAC, Garbled
  <2>3. QED
    BY <2>1, <2>2 DEF ChosenInv, ShownIsChosen, ItemMAC
<1>2. QED
  BY <1>1, ChosenHolds, SentHolds, PTL

=============================================================================
