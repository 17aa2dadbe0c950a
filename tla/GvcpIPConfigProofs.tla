------------------------- MODULE GvcpIPConfigProofs -------------------------
(***************************************************************************)
(* For every call, every number of address registers and of attempts, and  *)
(* whatever device, rival and network do: the device sees the commands of  *)
(* a call in order, the client knows the content of the registers it has   *)
(* read, once control was granted no way out skips its release, control    *)
(* that was released is released for good, the mode register keeps the     *)
(* bits of others, and no command is given up without a reason.            *)
(***************************************************************************)
EXTENDS GvcpIPConfig, SequenceTheorems, TLAPS

-----------------------------------------------------------------------------
(* Sequences                                                               *)

\* What is left of a channel when a packet is taken out of it.
LEMMA RemoveAtType ==
  ASSUME NEW S, NEW s \in Seq(S), NEW i \in DOMAIN s
  PROVE  s[i] \in S /\ RemoveAt(s, i) \in Seq(S)
<1>1. i \in 1..Len(s) /\ Len(s) \in Nat
  BY LenProperties
<1>2. SubSeq(s, 1, i - 1) \in Seq(S) /\ SubSeq(s, i + 1, Len(s)) \in Seq(S)
  BY <1>1, SubSeqProperties
<1>3. QED
  BY <1>1, <1>2, ConcatProperties, ElementOfSeq DEF RemoveAt

\* What is left when the first packet is taken out.
LEMMA TakeFirst ==
  ASSUME NEW S, NEW s \in Seq(S), 1 \in DOMAIN s
  PROVE  /\ Len(s) \in Nat /\ Len(s) > 0 /\ DOMAIN s = 1..Len(s)
         /\ RemoveAt(s, 1) \in Seq(S)
         /\ Len(RemoveAt(s, 1)) = Len(s) - 1
         /\ DOMAIN RemoveAt(s, 1) = 1..(Len(s) - 1)
         /\ \A k \in 1..(Len(s) - 1) : RemoveAt(s, 1)[k] = s[k + 1]
<1>1. DOMAIN s = 1..Len(s) /\ Len(s) \in Nat /\ Len(s) > 0
  BY LenProperties
<1>2. \A k \in 2..Len(s) : s[k] \in S
  BY <1>1, ElementOfSeq
<1> DEFINE rest == SubSeq(s, 2, Len(s))
<1>3. /\ rest \in Seq(S)
      /\ Len(rest) = Len(s) - 1
      /\ \A k \in 1..(Len(s) - 1) : rest[k] = s[k + 1]
  <2>1. Len(s) \in Int /\ 2 \in Int
    BY <1>1
  <2>2. /\ rest \in Seq(S)
        /\ Len(rest) = IF 2 <= Len(s) THEN Len(s) - 2 + 1 ELSE 0
        /\ \A k \in 1..(Len(s) - 2 + 1) : rest[k] = s[2 + k - 1]
    BY <1>2, <2>1, SubSeqProperties
  <2> HIDE DEF rest
  <2>3. Len(rest) = Len(s) - 1
    <3>1. CASE Len(s) = 1
      BY <2>2, <3>1
    <3>2. CASE Len(s) >= 2
      <4>1. 2 <= Len(s) /\ Len(s) - 2 + 1 = Len(s) - 1
        BY <1>1, <3>2
      <4>2. QED
        BY <2>2, <4>1
    <3>3. Len(s) = 1 \/ Len(s) >= 2
      <4>1. \A n \in Nat : n > 0 => (n = 1 \/ n >= 2)
        OBVIOUS
      <4>2. QED
        BY <1>1, <4>1
    <3>4. QED
      BY <3>1, <3>2, <3>3
  <2>4. ASSUME NEW k \in 1..(Len(s) - 1)
        PROVE  rest[k] = s[k + 1]
    <3>1. k \in 1..(Len(s) - 2 + 1) /\ 2 + k - 1 = k + 1
      BY <1>1
    <3>2. QED
      BY <2>2, <3>1
  <2>5. QED
    BY <2>2, <2>3, <2>4
<1> HIDE DEF rest
<1>4. RemoveAt(s, 1) = SubSeq(s, 1, 0) \o rest
  BY DEF RemoveAt, rest
<1>5. SubSeq(s, 1, 0) = << >>
  BY SubSeqEmpty
<1>6. RemoveAt(s, 1) = rest
  BY <1>3, <1>4, <1>5, ConcatEmptySeq
<1>7. QED
  BY <1>1, <1>3, <1>6, LenProperties

-----------------------------------------------------------------------------
(* Scripts                                                                 *)

LEMMA ForAddressesType ==
  ASSUME scene \in Scenes, NEW kind \in {"read", "write"}
  PROVE  ForAddresses(kind) \in Seq(Commands)
<1>1. AddressOrder \in Seq({"ip", "subnet", "gateway"})
  BY ScenesAssumption DEF AllScenes, AddressOrder
<1>2. DOMAIN AddressOrder = 1..Len(AddressOrder) /\ Len(AddressOrder) \in Nat
  BY <1>1, LenProperties
<1>3. \A i \in 1..Len(AddressOrder) : AddressOrder[i] \in {"ip", "subnet", "gateway"}
  BY <1>1, ElementOfSeq
<1>4. \A i \in 1..Len(AddressOrder) : AddressOrder[i] \in Registers \ {"ccp"}
  BY <1>2, <1>3 DEF Registers, Addresses, Range
<1>5. \A i \in 1..Len(AddressOrder) : Command(kind, AddressOrder[i]) \in Commands
  BY <1>4 DEF Command, Commands
<1>6. QED
  BY <1>2, <1>5 DEF ForAddresses

LEMMA ScriptType ==
  ASSUME scene \in Scenes
  PROVE  script \in Seq(Commands) /\ last \in Nat \ {0}
<1>1. Command("read", "mode") \in Commands /\ Command("write", "mode") \in Commands
      /\ Claim \in Commands /\ Release \in Commands
  BY DEF Command, Commands, Claim, Release, Registers
<1>2. <<Claim>> \in Seq(Commands) /\ <<Command("read", "mode")>> \in Seq(Commands)
      /\ << >> \in Seq(Commands)
      /\ <<Command("read", "mode"), Command("write", "mode"), Release>> \in Seq(Commands)
      /\ Len(<<Claim>>) = 1 /\ Len(<<Command("read", "mode")>>) = 1
  BY <1>1
<1>3. ForAddresses("read") \in Seq(Commands) /\ ForAddresses("write") \in Seq(Commands)
  BY ForAddressesType
<1> HIDE DEF Command, Claim, Release
<1>4. ReadScript \in Seq(Commands) /\ Len(ReadScript) = 1 + Len(ForAddresses("read"))
  BY <1>2, <1>3, ConcatProperties DEF ReadScript
<1>5. ASSUME NEW persistent \in BOOLEAN
      PROVE  WriteScript(persistent) \in Seq(Commands) /\ Len(WriteScript(persistent)) > 0
  <2> DEFINE middle == IF persistent THEN ForAddresses("write") ELSE << >>
             first == <<Claim>> \o middle
             rest == <<Command("read", "mode"), Command("write", "mode"), Release>>
  <2>1. middle \in Seq(Commands) /\ rest \in Seq(Commands)
    BY <1>2, <1>3
  <2> HIDE DEF middle, rest
  <2>2. first \in Seq(Commands) /\ Len(first) = 1 + Len(middle)
    BY <1>2, <2>1, ConcatProperties
  <2> HIDE DEF first
  <2>3. first \o rest \in Seq(Commands) /\ Len(first \o rest) = Len(first) + Len(rest)
    BY <2>1, <2>2, ConcatProperties
  <2>4. WriteScript(persistent) = first \o rest
    BY DEF WriteScript, first, middle, rest
  <2>5. Len(middle) \in Nat /\ Len(rest) \in Nat
    BY <2>1, LenProperties
  <2>6. QED
    BY <2>2, <2>3, <2>4, <2>5
<1>6. call.persistent \in BOOLEAN /\ call.op \in {"read", "write"}
  BY ScenesAssumption DEF AllScenes, AllCalls, call
<1>7. Len(ForAddresses("read")) \in Nat
  BY <1>3, LenProperties
<1>8. script \in Seq(Commands) /\ Len(script) > 0
  BY <1>4, <1>5, <1>6, <1>7 DEF script, Script
<1>9. QED
  BY <1>8, LenProperties DEF last

\* The script of writeConfig from its ends.
LEMMA WritePlan ==
  ASSUME scene \in Scenes, call.op = "write"
  PROVE  /\ last \in Nat /\ last >= 4
         /\ script[1] = Claim
         /\ \A i \in 2..(last - 3) : \E a \in Addresses : script[i] = Command("write", a)
         /\ script[last - 2] = Command("read", "mode")
         /\ script[last - 1] = Command("write", "mode")
         /\ script[last] = Release
         /\ call.persistent =>
              \A a \in Addresses : \E i \in 2..(last - 3) : script[i] = Command("write", a)
<1>1. AddressOrder \in Seq({"ip", "subnet", "gateway"})
  BY ScenesAssumption DEF AllScenes, AddressOrder
<1>2. DOMAIN AddressOrder = 1..Len(AddressOrder) /\ Len(AddressOrder) \in Nat
  BY <1>1, LenProperties
<1> DEFINE middle == IF call.persistent THEN ForAddresses("write") ELSE << >>
           rest == <<Command("read", "mode"), Command("write", "mode"), Release>>
           first == <<Claim>> \o middle
<1>3. /\ Command("read", "mode") \in Commands /\ Command("write", "mode") \in Commands
      /\ Claim \in Commands /\ Release \in Commands
  BY DEF Command, Commands, Claim, Release, Registers
<1>4. /\ middle \in Seq(Commands) /\ Len(middle) \in Nat
      /\ \A i \in 1..Len(middle) : \E a \in Addresses : middle[i] = Command("write", a)
      /\ call.persistent => \A a \in Addresses : \E i \in 1..Len(middle) : middle[i] = Command("write", a)
  <2>1. CASE call.persistent
    <3>1. middle = [i \in 1..Len(AddressOrder) |-> Command("write", AddressOrder[i])]
      BY <1>2, <2>1 DEF ForAddresses
    <3>2. middle \in Seq(Commands)
      BY <2>1, ForAddressesType
    <3> HIDE DEF middle
    <3>3. Len(middle) = Len(AddressOrder)
      BY <1>2, <3>1, <3>2, LenProperties
    <3>4. \A i \in 1..Len(middle) : middle[i] = Command("write", AddressOrder[i]) /\ AddressOrder[i] \in Addresses
      BY <1>2, <3>1, <3>3 DEF Addresses, Range
    <3>5. \A a \in Addresses : \E i \in 1..Len(middle) : AddressOrder[i] = a
      BY <1>2, <3>3 DEF Addresses, Range
    <3>6. QED
      BY <1>2, <3>2, <3>3, <3>4, <3>5
  <2>2. CASE ~call.persistent
    BY <2>2
  <2>3. QED
    BY <2>1, <2>2
<1>5. /\ <<Claim>> \in Seq(Commands) /\ Len(<<Claim>>) = 1 /\ <<Claim>>[1] = Claim
      /\ rest \in Seq(Commands) /\ Len(rest) = 3
      /\ rest[1] = Command("read", "mode") /\ rest[2] = Command("write", "mode") /\ rest[3] = Release
  BY <1>3
<1> HIDE DEF middle, rest, Command, Claim, Release
<1>6. /\ first \in Seq(Commands) /\ Len(first) = 1 + Len(middle)
      /\ \A i \in 1..(1 + Len(middle)) : first[i] = IF i <= 1 THEN <<Claim>>[i] ELSE middle[i - 1]
  BY <1>4, <1>5, ConcatProperties
<1> HIDE DEF first
<1>7. /\ Len(first \o rest) = Len(first) + 3
      /\ \A i \in 1..(Len(first) + 3) :
           (first \o rest)[i] = IF i <= Len(first) THEN first[i] ELSE rest[i - Len(first)]
  <2>1. /\ Len(first \o rest) = Len(first) + Len(rest)
        /\ \A i \in 1..(Len(first) + Len(rest)) :
             (first \o rest)[i] = IF i <= Len(first) THEN first[i] ELSE rest[i - Len(first)]
    BY <1>5, <1>6, ConcatProperties
  <2>2. QED
    BY <1>5, <2>1
<1>8. script = first \o rest
  BY DEF script, Script, WriteScript, first, middle, rest
<1> DEFINE n == Len(middle)
<1>9. n \in Nat /\ last = n + 4
  BY <1>4, <1>6, <1>7, <1>8 DEF last
<1>10. script[1] = Claim /\ \A i \in 2..(n + 1) : script[i] = middle[i - 1]
  BY <1>4, <1>5, <1>6, <1>7, <1>8
<1>11. script[n + 2] = rest[1] /\ script[n + 3] = rest[2] /\ script[n + 4] = rest[3]
  <2>1. \A i \in {n + 2, n + 3, n + 4} : i \in 1..(Len(first) + 3) /\ ~(i <= Len(first))
    BY <1>6, <1>9
  <2>2. n + 2 - Len(first) = 1 /\ n + 3 - Len(first) = 2 /\ n + 4 - Len(first) = 3
    BY <1>6, <1>9
  <2>3. QED
    BY <1>7, <1>8, <2>1, <2>2
<1>12. \A i \in 2..(last - 3) : \E a \in Addresses : script[i] = Command("write", a)
  BY <1>4, <1>9, <1>10
<1>13. ASSUME call.persistent, NEW a \in Addresses
       PROVE  \E i \in 2..(last - 3) : script[i] = Command("write", a)
  <2>1. PICK i \in 1..n : middle[i] = Command("write", a)
    BY <1>4, <1>13
  <2>2. i + 1 \in 2..(last - 3) /\ script[i + 1] = middle[i]
    BY <1>9, <1>10
  <2>3. QED
    BY <2>1, <2>2
<1>14. last - 2 = n + 2 /\ last - 1 = n + 3
  BY <1>9
<1>15. QED
  BY <1>5, <1>9, <1>10, <1>11, <1>12, <1>13, <1>14

\* readConfig writes nothing.
LEMMA ReadPlan ==
  ASSUME scene \in Scenes, call.op = "read", NEW i \in 1..last
  PROVE  script[i].kind = "read"
<1>1. AddressOrder \in Seq({"ip", "subnet", "gateway"})
  BY ScenesAssumption DEF AllScenes, AddressOrder
<1>2. DOMAIN AddressOrder = 1..Len(AddressOrder) /\ Len(AddressOrder) \in Nat
  BY <1>1, LenProperties
<1> DEFINE addresses == ForAddresses("read")
<1>3. addresses \in Seq(Commands)
  BY ForAddressesType
<1>4. addresses = [k \in 1..Len(AddressOrder) |-> Command("read", AddressOrder[k])]
  BY <1>2 DEF ForAddresses
<1> HIDE DEF addresses
<1>5. Len(addresses) = Len(AddressOrder) /\ \A k \in 1..Len(addresses) : addresses[k].kind = "read"
  BY <1>2, <1>3, <1>4, LenProperties DEF Command
<1>6. /\ Command("read", "mode") \in Commands
      /\ <<Command("read", "mode")>> \in Seq(Commands) /\ Len(<<Command("read", "mode")>>) = 1
  BY DEF Command, Commands, Registers
<1>7. /\ Len(<<Command("read", "mode")>> \o addresses) = 1 + Len(addresses)
      /\ \A k \in 1..(1 + Len(addresses)) :
           (<<Command("read", "mode")>> \o addresses)[k] =
              IF k <= 1 THEN <<Command("read", "mode")>>[k] ELSE addresses[k - 1]
  BY <1>3, <1>6, ConcatProperties
<1>8. script = <<Command("read", "mode")>> \o addresses
  BY DEF script, Script, ReadScript, addresses
<1>9. Command("read", "mode").kind = "read"
  BY DEF Command
<1>10. QED
  BY <1>2, <1>5, <1>7, <1>8, <1>9 DEF last

-----------------------------------------------------------------------------
(* The invariant                                                           *)

\* All that can be told of a register.
Names == {"ip", "subnet", "gateway"} \union Bits \union Writers \union Clients

\* What a register may contain.
Good(r) ==
  IF r = "mode" THEN SUBSET Bits
  ELSE IF r = "ccp" THEN {{}, {"client"}, {"rival"}}
  ELSE {{r, w} : w \in Writers}

\* A command on its way is one of the script, has a value that suits its
\* register, and was sent after all steps before it had been executed (but for
\* the release, which may follow any step).
GoodPackets ==
  {p \in [id : 1..last, cmd : Commands, value : SUBSET Names] :
     /\ p.cmd = script[p.id]
     /\ p.cmd.kind # "read" => p.value \in Good(p.cmd.reg)
     /\ p.id \in Steps => \A j \in 1..(p.id - 1) : j \in executed}

\* An acknowledge on its way answers a command of the script; "ok" means that
\* the command was executed, and then a value was read from its register.
GoodAcks ==
  {a \in [id : 1..last, ack : {"READREG_ACK", "WRITEREG_ACK"},
          status : {"ok", "denied", "error", "short"}, value : SUBSET Names] :
     a.status = "ok" =>
       /\ a.id \in executed
       /\ script[a.id].kind = "read" => a.value \in Good(script[a.id].reg)}

ChannelInv == toDevice \in Seq(GoodPackets) /\ toClient \in Seq(GoodAcks)

DeviceInv ==
  /\ DOMAIN regs = Registers
  /\ \A r \in Registers : regs[r] \in Good(r) /\ regs[r] \in SUBSET Names

\* The client knows of a register nothing or what it may contain.
SeenInv ==
  /\ DOMAIN seen = Registers
  /\ \A r \in Registers : seen[r] = {} \/ seen[r] \in Good(r)

\* While no exception has been thrown, every step before the current one has
\* been executed; after one, only the release is left.
ProgressInv ==
  /\ scene \in Scenes
  /\ step \in 1..last
  /\ pc \in {"send", "select", "returned"}
  /\ result \in {"none", "denied", "error"}
  /\ result = "none" => \A j \in 1..(step - 1) : j \in executed
  /\ pc # "returned" /\ step \in Steps => result = "none"
  /\ pc = "returned" /\ result = "none" => Steps \subseteq executed

\* Nothing is acknowledged before it is under way, and only a claim that failed
\* returns without a release.
ReleaseInv ==
  /\ pc # "returned" => acked \subseteq 1..(step - 1)
  /\ pc = "returned" /\ call.op = "write" => step = last \/ acked = {}

ScriptInv == ProgressInv /\ ReleaseInv /\ ChannelInv /\ DeviceInv /\ SeenInv

LEMMA GoodIsNames ==
  ASSUME NEW r \in Registers, scene \in Scenes, NEW v \in Good(r)
  PROVE  v \in SUBSET Names
<1>1. r \in {"ip", "subnet", "gateway", "mode", "ccp"}
  <2>1. AddressOrder \in Seq({"ip", "subnet", "gateway"})
    BY ScenesAssumption DEF AllScenes, AddressOrder
  <2>2. Addresses \subseteq {"ip", "subnet", "gateway"}
    BY <2>1, ElementOfSeq, LenProperties DEF Addresses, Range
  <2>3. QED
    BY <2>2 DEF Registers
<1>2. QED
  BY <1>1 DEF Good, Names, Bits, OwnBits, Writers, Clients

\* The scene fixes the script.
LEMMA SameScript ==
  ASSUME UNCHANGED scene
  PROVE  /\ UNCHANGED <<call, script, last, Steps, Registers, Commands, Attempts, Addresses>>
         /\ \A c \in Commands : c.reg \in Registers
  BY DEF call, script, last, Steps, Registers, Commands, Script, ReadScript, WriteScript,
         ForAddresses, AddressOrder, Addresses, Attempts, Claim, Release

LEMMA InitScript == Init => ScriptInv
<1> SUFFICES ASSUME Init PROVE ScriptInv
  OBVIOUS
<1>1. scene \in Scenes /\ last \in Nat \ {0}
  BY ScriptType DEF Init
<1>2. ProgressInv /\ ReleaseInv
  BY <1>1 DEF Init, ProgressInv, ReleaseInv
<1>3. ChannelInv
  BY DEF Init, ChannelInv
<1>4. \A r \in Registers : regs[r] \in Good(r)
  BY DEF Init, Registers, Good, Bits, Clients, Writers
<1>5. DOMAIN regs = Registers
  BY DEF Init
<1>6. DeviceInv
  BY <1>1, <1>4, <1>5, GoodIsNames DEF DeviceInv
<1>7. SeenInv
  BY DEF Init, SeenInv
<1>8. QED
  BY <1>2, <1>3, <1>6, <1>7 DEF ScriptInv

-----------------------------------------------------------------------------
(* Steps of the client                                                     *)

\* What was under way stays good while more is executed.
LEMMA ChannelsStayGood ==
  ASSUME UNCHANGED scene, executed \subseteq executed'
  PROVE  GoodPackets \subseteq GoodPackets' /\ GoodAcks \subseteq GoodAcks'
<1>1. UNCHANGED <<script, last, Steps, Commands>>
  BY SameScript
<1>2. \A r : Good(r)' = Good(r)
  BY DEF Good
<1>3. QED
  BY <1>1, <1>2 DEF GoodPackets, GoodAcks

LEMMA ProceedInv ==
  ASSUME ProgressInv, ReleaseInv, pc # "returned", step \in executed, Proceed,
         UNCHANGED <<scene, executed>>
  PROVE  ProgressInv' /\ ReleaseInv'
<1>1. last \in Nat \ {0} /\ step \in 1..last /\ step \in Nat
  BY ScriptType DEF ProgressInv
<1>2. UNCHANGED <<last, Steps, call>>
  BY SameScript
<1>3. Steps = IF call.op = "write" THEN 1..(last - 1) ELSE 1..last
  BY DEF Steps
<1>4. CASE step = last
  BY <1>1, <1>2, <1>3, <1>4 DEF Proceed, ProgressInv, ReleaseInv
<1>5. CASE step # last
  <2>1. step \in Steps /\ step + 1 \in 1..last
    BY <1>1, <1>3, <1>5
  <2>2. pc' = "send" /\ step' = step + 1 /\ result' = "none" /\ acked' = acked \union {step}
    BY <1>5, <2>1 DEF Proceed, ProgressInv
  <2>3. QED
    BY <1>1, <1>2, <2>1, <2>2 DEF ProgressInv, ReleaseInv
<1>6. QED
  BY <1>4, <1>5

LEMMA ThrowInv ==
  ASSUME ProgressInv, ReleaseInv, pc # "returned", NEW exception \in {"denied", "error"},
         Throw(exception), UNCHANGED <<scene, executed>>
  PROVE  ProgressInv' /\ ReleaseInv'
<1>1. last \in Nat \ {0} /\ step \in 1..last /\ step \in Nat
  BY ScriptType DEF ProgressInv
<1>2. UNCHANGED <<last, Steps, call>>
  BY SameScript
<1>3. Steps = IF call.op = "write" THEN 1..(last - 1) ELSE 1..last
  BY DEF Steps
<1>4. CASE call.op = "write" /\ step > 1 /\ step = last
  BY <1>1, <1>2, <1>3, <1>4 DEF Throw, ProgressInv, ReleaseInv
<1>5. CASE call.op = "write" /\ step > 1 /\ step # last
  BY <1>1, <1>2, <1>3, <1>5 DEF Throw, ProgressInv, ReleaseInv
<1>6. CASE ~(call.op = "write" /\ step > 1)
  BY <1>1, <1>2, <1>3, <1>6 DEF Throw, ProgressInv, ReleaseInv
<1>7. QED
  BY <1>4, <1>5, <1>6

\* A command carries what suits its register.
LEMMA ValueIsGood ==
  ASSUME ProgressInv, SeenInv
  PROVE  /\ current \in Commands
         /\ Value \in SUBSET Names
         /\ current.kind # "read" => Value \in Good(current.reg)
<1>1. current \in Commands
  BY ScriptType, ElementOfSeq DEF ProgressInv, current, last
<1>2. CASE current = Claim
  <2>1. current.kind = "claim" /\ current.reg = "ccp"
    BY <1>2 DEF Claim
  <2>2. Value = {"client"}
    BY <2>1 DEF Value
  <2>3. QED
    BY <1>1, <2>1, <2>2 DEF Good, Names, Clients
<1>3. CASE current = Release
  <2>1. current.kind = "release" /\ current.reg = "ccp"
    BY <1>3 DEF Release
  <2>2. Value = {}
    BY <2>1 DEF Value
  <2>3. QED
    BY <1>1, <2>1, <2>2 DEF Good
<1>4. CASE current.kind = "write" /\ current.reg = "mode"
  <2>1. Value = NewMode(call, seen["mode"])
    BY <1>4 DEF Value
  <2>2. seen["mode"] \in SUBSET Bits
    BY DEF SeenInv, Good, Registers
  <2>3. NewMode(call, seen["mode"]) \subseteq Bits
    BY <2>2 DEF NewMode, WantedBits, Bits, OwnBits
  <2>4. QED
    BY <1>1, <1>4, <2>1, <2>3 DEF Good, Names
<1>5. CASE current.kind = "write" /\ current.reg \in Addresses /\ current.reg # "mode"
  <2>1. Value = {current.reg, "client"}
    BY <1>5 DEF Value
  <2>2. current.reg \in Registers /\ current.reg # "ccp"
    BY <1>1, <1>5 DEF Commands, Claim, Release, Registers
  <2>3. Value \in Good(current.reg)
    BY <1>5, <2>1, <2>2 DEF Good, Writers
  <2>4. QED
    BY <1>1, <2>2, <2>3, GoodIsNames DEF ProgressInv
<1>6. CASE current.kind = "read"
  BY <1>1, <1>6 DEF Value
<1>7. QED
  BY <1>1, <1>2, <1>3, <1>4, <1>5, <1>6 DEF Commands, Registers

\* What does not concern the client: its part of the invariant stays.
LEMMA ClientStays ==
  ASSUME ProgressInv, ReleaseInv, SeenInv, UNCHANGED <<scene, step, pc, result, seen, acked>>,
         executed \subseteq executed'
  PROVE  ProgressInv' /\ ReleaseInv' /\ SeenInv'
<1>1. UNCHANGED <<last, Steps, call, Registers>>
  BY SameScript
<1>2. \A r : Good(r)' = Good(r)
  BY DEF Good
<1>3. QED
  BY <1>1, <1>2 DEF ProgressInv, ReleaseInv, SeenInv

\* What does not concern the device.
LEMMA DeviceStays ==
  ASSUME DeviceInv, UNCHANGED <<scene, regs>>
  PROVE  DeviceInv'
<1>1. UNCHANGED Registers
  BY SameScript
<1>2. \A r : Good(r)' = Good(r)
  BY DEF Good
<1>3. QED
  BY <1>1, <1>2 DEF DeviceInv

LEMMA ChannelsStay ==
  ASSUME ChannelInv, UNCHANGED <<scene, toDevice, toClient>>, executed \subseteq executed'
  PROVE  ChannelInv'
  BY ChannelsStayGood, SeqMonotonic DEF ChannelInv

LEMMA SeenStays ==
  ASSUME SeenInv, UNCHANGED <<scene, seen>>
  PROVE  SeenInv'
<1>1. UNCHANGED Registers
  BY SameScript
<1>2. \A r : Good(r)' = Good(r)
  BY DEF Good
<1>3. QED
  BY <1>1, <1>2 DEF SeenInv

LEMMA SendInv ==
  ASSUME ScriptInv, Send
  PROVE  ScriptInv'
<1> USE DEF ScriptInv
<1> DEFINE packet == [id |-> step, cmd |-> current, value |-> Value]
<1>1. /\ pc = "send" /\ pc' = "select"
      /\ toDevice' \in {toDevice, Append(toDevice, packet)}
      /\ UNCHANGED <<scene, step, result, seen, toClient, regs, executed, historyVars>>
  BY DEF Send, Transmit
<1>2. UNCHANGED <<last, Steps, call>>
  BY <1>1, SameScript
<1>3. packet \in GoodPackets
  <2>1. result = "none" \/ step \notin Steps
    BY <1>1 DEF ProgressInv
  <2>2. step \in 1..last /\ current = script[step]
    BY DEF ProgressInv, current
  <2>3. QED
    BY <2>1, <2>2, ValueIsGood DEF GoodPackets, ProgressInv
<1> HIDE DEF packet
<1>4. toDevice' \in Seq(GoodPackets)
  BY <1>1, <1>3, AppendProperties DEF ChannelInv
<1>5. ChannelInv'
  BY <1>1, <1>4, ChannelsStayGood, SeqMonotonic DEF ChannelInv
<1>6. ProgressInv' /\ ReleaseInv'
  BY <1>1, <1>2 DEF ProgressInv, ReleaseInv, historyVars
<1>7. QED
  BY <1>1, <1>5, <1>6, DeviceStays, SeenStays

LEMMA FailInv ==
  ASSUME ScriptInv, SendFails \/ GiveUp
  PROVE  ScriptInv'
<1> USE DEF ScriptInv
<1>1. /\ pc = "send" /\ Throw("error")
      /\ UNCHANGED <<scene, seen, toDevice, toClient, regs, executed>>
  BY DEF SendFails, GiveUp
<1>2. QED
  BY <1>1, ThrowInv, ChannelsStay, DeviceStays, SeenStays

LEMMA LapseInv ==
  ASSUME ScriptInv, Lapse
  PROVE  ScriptInv'
<1> USE DEF ScriptInv
<1>1. /\ pc = "select" /\ pc' = "send"
      /\ UNCHANGED <<scene, step, result, seen, toDevice, toClient, regs, executed, acked>>
  BY DEF Lapse
<1>2. UNCHANGED <<last, Steps, call>>
  BY <1>1, SameScript
<1>3. ProgressInv' /\ ReleaseInv'
  BY <1>1, <1>2 DEF ProgressInv, ReleaseInv
<1>4. QED
  BY <1>1, <1>3, ChannelsStay, DeviceStays, SeenStays

\* A packet is of use to the client only if it answers the current step; then
\* "ok" means that this step has been executed.
LEMMA ReceiveInv ==
  ASSUME ScriptInv, Receive
  PROVE  ScriptInv'
<1> USE DEF ScriptInv
<1>1. PICK i \in Deliverable(toClient) :
        LET p == toClient[i]
        IN  /\ toClient' = RemoveAt(toClient, i)
            /\ CASE Matches(p) /\ p.status = "ok" ->
                      /\ seen' = IF current.kind = "read"
                                   THEN [seen EXCEPT ![current.reg] = p.value] ELSE seen
                      /\ Proceed
                 [] Matches(p) /\ p.status \in {"denied", "error"} ->
                      /\ Throw(p.status)
                      /\ UNCHANGED seen
                 [] OTHER ->
                      /\ pc' = "send"
                      /\ UNCHANGED <<step, attempt, result, seen, acked>>
  BY DEF Receive
<1>2. pc = "select" /\ UNCHANGED <<scene, toDevice, regs, executed, lapsed, gaveUp>>
  BY DEF Receive
<1> DEFINE p == toClient[i]
<1>3. p \in GoodAcks /\ toClient' \in Seq(GoodAcks)
  <2>1. i \in DOMAIN toClient
    BY DEF Deliverable
  <2>2. QED
    BY <1>1, <2>1, RemoveAtType DEF ChannelInv
<1>4. ChannelInv' /\ DeviceInv'
  BY <1>2, <1>3, ChannelsStayGood, SeqMonotonic, DeviceStays DEF ChannelInv
<1>5. CASE Matches(p) /\ p.status = "ok"
  <2>1. /\ seen' = IF current.kind = "read" THEN [seen EXCEPT ![current.reg] = p.value] ELSE seen
        /\ Proceed
    BY <1>1, <1>5
  <2>2. p.id = step /\ p.id \in executed /\ (script[p.id].kind = "read" => p.value \in Good(script[p.id].reg))
    BY <1>3, <1>5 DEF GoodAcks, Matches
  <2> HIDE DEF p
  <2>3. ProgressInv' /\ ReleaseInv'
    BY <1>2, <2>1, <2>2, ProceedInv
  <2>4. CASE current.kind = "read"
    <3>1. \A r \in Registers : seen'[r] = {} \/ seen'[r] \in Good(r)
      BY <2>1, <2>2, <2>4 DEF SeenInv, current
    <3>2. DOMAIN seen' = Registers
      BY <2>1, <2>4 DEF SeenInv
    <3>3. Registers' = Registers /\ \A r : Good(r)' = Good(r)
      BY <1>2, SameScript DEF Good
    <3>4. SeenInv'
      BY <3>1, <3>2, <3>3 DEF SeenInv
    <3>5. QED
      BY <1>4, <2>3, <3>4
  <2>5. CASE current.kind # "read"
    BY <1>2, <1>4, <2>1, <2>3, <2>5, SeenStays
  <2>6. QED
    BY <2>4, <2>5
<1>6. CASE Matches(p) /\ p.status \in {"denied", "error"}
  <2>1. Throw(p.status) /\ UNCHANGED seen
    BY <1>1, <1>6
  <2>2. QED
    BY <1>2, <1>4, <1>6, <2>1, ThrowInv, SeenStays
<1>7. CASE ~(Matches(p) /\ p.status = "ok") /\ ~(Matches(p) /\ p.status \in {"denied", "error"})
  <2>1. pc' = "send" /\ UNCHANGED <<step, attempt, result, seen, acked>>
    BY <1>1, <1>7
  <2>2. UNCHANGED <<last, Steps, call>>
    BY <1>2, SameScript
  <2>3. ProgressInv' /\ ReleaseInv'
    BY <1>2, <2>1, <2>2 DEF ProgressInv, ReleaseInv
  <2>4. QED
    BY <1>2, <1>4, <2>1, <2>3, SeenStays
<1>8. QED
  BY <1>5, <1>6, <1>7

-----------------------------------------------------------------------------
(* Steps of the device and the rival                                       *)

LEMMA ReplyIsGood ==
  ASSUME scene \in Scenes, DeviceInv, NEW p \in GoodPackets, NEW status \in {"ok", "short", "denied", "error"},
         UNCHANGED scene, status = "ok" => p.id \in executed'
  PROVE  Reply(p, status) \in GoodAcks'
<1>1. p.id \in 1..last /\ p.cmd \in Commands /\ p.cmd = script[p.id]
  BY DEF GoodPackets
<1>2. UNCHANGED <<script, last>> /\ p.cmd.reg \in Registers /\ \A r : Good(r)' = Good(r)
  BY <1>1, SameScript DEF Good
<1>3. regs[p.cmd.reg] \in SUBSET Names /\ regs[p.cmd.reg] \in Good(p.cmd.reg)
  BY <1>2 DEF DeviceInv
<1> DEFINE value == IF p.cmd.kind = "read" /\ status = "ok" THEN regs[p.cmd.reg] ELSE {}
<1>4. value \in SUBSET Names /\ (p.cmd.kind = "read" /\ status = "ok" => value \in Good(p.cmd.reg))
  BY <1>3
<1>5. Reply(p, status) = [id |-> p.id, ack |-> AckKind(p.cmd), status |-> status, value |-> value]
  BY DEF Reply
<1> HIDE DEF value
<1>6. AckKind(p.cmd) \in {"READREG_ACK", "WRITEREG_ACK"}
  BY DEF AckKind
<1>7. QED
  BY <1>1, <1>2, <1>4, <1>5, <1>6 DEF GoodAcks

LEMMA TransmitGood ==
  ASSUME NEW S, NEW T, S \subseteq T, NEW channel \in Seq(S), NEW packet \in T, NEW after,
         Transmit(channel, packet, after)
  PROVE  after \in Seq(T)
  BY SeqMonotonic, AppendProperties DEF Transmit

LEMMA ExecuteInv ==
  ASSUME ScriptInv, Execute
  PROVE  ScriptInv'
<1> USE DEF ScriptInv
<1>1. PICK i \in Deliverable(toDevice) :
        LET p == toDevice[i]
        IN  /\ toDevice' = RemoveAt(toDevice, i)
            /\ \/ /\ Permitted(p.cmd)
                  /\ regs' = IF p.cmd.kind = "read" THEN regs
                             ELSE [regs EXCEPT ![p.cmd.reg] = p.value]
                  /\ executed' = executed \union {p.id}
                  /\ \E status \in {"ok"} \union (Faults \intersect {"short"}) :
                       Transmit(toClient, Reply(p, status), toClient')
               \/ /\ \E status \in IF Permitted(p.cmd) THEN Faults \intersect {"error"}
                                   ELSE {"denied"} :
                       Transmit(toClient, Reply(p, status), toClient')
                  /\ UNCHANGED <<regs, executed>>
  BY DEF Execute
<1> DEFINE p == toDevice[i]
<1>2. UNCHANGED <<scene, step, pc, result, seen, acked>>
  BY DEF Execute, clientVars, historyVars
<1>3. p \in GoodPackets /\ toDevice' \in Seq(GoodPackets)
  <2>1. i \in DOMAIN toDevice
    BY DEF Deliverable
  <2>2. QED
    BY <1>1, <2>1, RemoveAtType DEF ChannelInv
<1>4. executed \subseteq executed'
  BY <1>1
<1>5. ProgressInv' /\ ReleaseInv' /\ SeenInv'
  BY <1>2, <1>4, ClientStays
<1>6. DeviceInv'
  <2>1. CASE UNCHANGED regs
    BY <1>2, <2>1, DeviceStays
  <2>2. CASE p.cmd.kind # "read" /\ regs' = [regs EXCEPT ![p.cmd.reg] = p.value]
    <3>1. p.value \in Good(p.cmd.reg) /\ p.value \in SUBSET Names
      BY <1>3, <2>2 DEF GoodPackets
    <3>2. Registers' = Registers /\ \A r : Good(r)' = Good(r)
      BY <1>2, SameScript DEF Good
    <3> HIDE DEF p
    <3>3. QED
      BY <2>2, <3>1, <3>2 DEF DeviceInv
  <2>3. QED
    BY <1>1, <2>1, <2>2
<1>7. \E status \in {"ok", "short", "denied", "error"} :
        /\ status = "ok" => p.id \in executed'
        /\ Transmit(toClient, Reply(p, status), toClient')
  BY <1>1
<1>8. ChannelInv'
  <2> HIDE DEF p
  <2>1. PICK status \in {"ok", "short", "denied", "error"} :
          /\ status = "ok" => p.id \in executed'
          /\ Transmit(toClient, Reply(p, status), toClient')
    BY <1>7
  <2>2. Reply(p, status) \in GoodAcks'
    BY <1>2, <1>3, <2>1, ReplyIsGood DEF ProgressInv
  <2>3. GoodPackets \subseteq GoodPackets' /\ GoodAcks \subseteq GoodAcks'
    BY <1>2, <1>4, ChannelsStayGood
  <2>4. toClient' \in Seq(GoodAcks')
    BY <2>1, <2>2, <2>3, TransmitGood DEF ChannelInv
  <2>5. toDevice' \in Seq(GoodPackets')
    BY <1>3, <2>3, SeqMonotonic
  <2>6. QED
    BY <2>4, <2>5 DEF ChannelInv
<1>9. QED
  BY <1>5, <1>6, <1>8

LEMMA OthersInv ==
  ASSUME ScriptInv, Expire \/ RivalClaims \/ RivalWrites
  PROVE  ScriptInv'
<1> USE DEF ScriptInv
<1>1. UNCHANGED <<scene, step, pc, result, seen, acked, toDevice, toClient, executed>>
  BY DEF Expire, RivalClaims, RivalWrites, clientVars, historyVars
<1>2. Registers' = Registers /\ \A r : Good(r)' = Good(r)
  BY <1>1, SameScript DEF Good
<1>3. CASE Expire \/ RivalClaims
  <2>1. PICK v \in {{}, {"rival"}} : regs' = [regs EXCEPT !["ccp"] = v]
    BY <1>3 DEF Expire, RivalClaims
  <2>2. v \in Good("ccp") /\ v \in SUBSET Names
    BY DEF Good, Names, Clients
  <2>3. DeviceInv'
    BY <1>2, <2>1, <2>2 DEF DeviceInv
  <2>4. QED
    BY <1>1, <2>3, ClientStays, ChannelsStay
<1>4. CASE RivalWrites
  <2>1. \/ regs' = [regs EXCEPT !["ip"] = {"ip", "rival"}]
        \/ regs' = [regs EXCEPT !["mode"] = regs["mode"] \ {"vendor"}]
        \/ regs' = [regs EXCEPT !["mode"] = regs["mode"] \union {"vendor"}]
    BY <1>4 DEF RivalWrites
  <2>2. "mode" \in Registers /\ regs["mode"] \in SUBSET Bits
    BY DEF DeviceInv, Good, Registers
  <2>3. /\ {"ip", "rival"} \in Good("ip") /\ {"ip", "rival"} \in SUBSET Names
        /\ \A v \in SUBSET Bits : v \in Good("mode") /\ v \in SUBSET Names
    BY DEF Good, Names, Writers
  <2>4. /\ regs["mode"] \ {"vendor"} \in SUBSET Bits
        /\ regs["mode"] \union {"vendor"} \in SUBSET Bits
    BY <2>2 DEF Bits
  <2>5. ASSUME NEW r \in {"ip", "mode"}, NEW v \in Good(r), v \in SUBSET Names,
               regs' = [regs EXCEPT ![r] = v]
        PROVE  DeviceInv'
    BY <1>2, <2>5 DEF DeviceInv
  <2>6. DeviceInv'
    BY ZenonT(40), <2>1, <2>3, <2>4, <2>5
  <2>7. QED
    BY <1>1, <2>6, ClientStays, ChannelsStay
<1>5. QED
  BY <1>3, <1>4

LEMMA ScriptHolds == Spec => []ScriptInv
<1>1. ScriptInv /\ [Next]_vars => ScriptInv'
  <2>1. ASSUME ScriptInv, UNCHANGED vars
        PROVE  ScriptInv'
    BY <2>1, ClientStays, ChannelsStay, DeviceStays DEF vars, ScriptInv
  <2>2. QED
    BY <2>1, SendInv, FailInv, LapseInv, ReceiveInv, ExecuteInv, OthersInv DEF Next, ClientStep
<1>2. QED
  BY <1>1, InitScript, PTL DEF Spec

-----------------------------------------------------------------------------
(* What follows                                                            *)

\* Once control was granted, writeConfig does not return without having tried
\* to release it, however its commands and their acknowledges fail.
THEOREM NoWayAroundTheRelease == Spec => []ReleaseIsTried
<1>1. ScriptInv => ReleaseIsTried
  BY DEF ScriptInv, ReleaseInv, ReleaseIsTried
<1>2. QED
  BY <1>1, ScriptHolds, PTL

\* No late or repeated acknowledge is taken for the content of another register.
THEOREM RegistersAreTold == Spec => []ReadsTheRightRegister
<1>1. ASSUME ScriptInv
      PROVE  ReadsTheRightRegister
  <2>1. seen["mode"] \subseteq Bits
    BY <1>1 DEF ScriptInv, SeenInv, Good, Registers
  <2>2. ASSUME NEW a \in Addresses, seen[a] # {}
        PROVE  a \in seen[a]
    <3>1. a \in {"ip", "subnet", "gateway"}
      <4>1. AddressOrder \in Seq({"ip", "subnet", "gateway"})
        BY <1>1, ScenesAssumption DEF ScriptInv, ProgressInv, AllScenes, AddressOrder
      <4>2. QED
        BY <4>1, ElementOfSeq, LenProperties DEF Addresses, Range
    <3>2. seen[a] \in Good(a)
      BY <1>1, <2>2 DEF ScriptInv, SeenInv, Registers
    <3>3. QED
      BY <3>1, <3>2 DEF Good
  <2>3. QED
    BY <2>1, <2>2 DEF ReadsTheRightRegister
<1>2. QED
  BY <1>1, ScriptHolds, PTL

-----------------------------------------------------------------------------
(* Refinement                                                              *)

LEMMA PlanLength ==
  ASSUME ScriptInv
  PROVE  /\ (IF call.op = "write" THEN last - 1 ELSE last) \in Nat
         /\ Steps = 1..(IF call.op = "write" THEN last - 1 ELSE last)
<1>1. last \in Nat \ {0}
  BY ScriptType DEF ScriptInv, ProgressInv
<1>2. QED
  BY <1>1 DEF Steps

\* Commands have their effect on the device in the order of the script, each
\* once as far as the plan goes, and success is reported only after all of them.
THEOREM CommandsInOrder == Spec => InOrder
<1> DEFINE length == IF call.op = "write" THEN last - 1 ELSE last
           applied == executed \intersect Steps
           told == IF pc # "returned" THEN "nothing"
                   ELSE IF result = "none" THEN "success" ELSE "failure"
           Apply(k) == /\ told # "success"
                       /\ k \notin applied
                       /\ \A j \in 1..(k - 1) : j \in applied
                       /\ applied' = applied \union {k}
                       /\ UNCHANGED <<length, told>>
           Tell == /\ told = "nothing"
                   /\ told' \in {"success", "failure"}
                   /\ told' = "success" => applied = 1..length
                   /\ UNCHANGED <<length, applied>>
<1>1. Init => Device!Init
  <2> SUFFICES ASSUME Init PROVE Device!Init
    OBVIOUS
  <2>1. length \in Nat
    BY InitScript, PlanLength
  <2>2. applied = {} /\ told = "nothing"
    BY DEF Init
  <2>3. QED
    BY <2>1, <2>2 DEF Device!Init
<1>2. ScriptInv /\ [Next]_vars => [Device!Next]_(Device!vars)
  <2> SUFFICES ASSUME ScriptInv, [Next]_vars
               PROVE  (\E k \in 1..length : Apply(k)) \/ Tell \/ UNCHANGED <<length, applied, told>>
    BY DEF Device!Next, Device!Apply, Device!Tell, Device!vars
  <2>0. ScriptInv'
    BY SendInv, FailInv, LapseInv, ReceiveInv, ExecuteInv, OthersInv, ClientStays, ChannelsStay,
       DeviceStays DEF Next, ClientStep, vars, ScriptInv
  <2>1. UNCHANGED scene
    BY DEF Next, ClientStep, Send, SendFails, GiveUp, Lapse, Receive, Execute, Expire, RivalClaims,
           RivalWrites, vars
  <2>2. UNCHANGED <<Steps, length, last, call>>
    BY <2>1, SameScript
  <2>3. Steps = 1..length /\ length \in Nat
    BY PlanLength
  <2> HIDE DEF length
  <2>4. ASSUME ClientStep
        PROVE  Tell \/ UNCHANGED <<length, applied, told>>
    <3>1. UNCHANGED executed /\ pc # "returned"
      BY <2>4 DEF ClientStep, Send, SendFails, GiveUp, Lapse, Receive
    <3>2. told' = "success" => Steps \subseteq executed
      BY <2>0, <2>2, <3>1 DEF ScriptInv, ProgressInv
    <3>3. told' \in {"nothing", "success", "failure"}
      OBVIOUS
    <3>4. QED
      BY <2>2, <2>3, <3>1, <3>2, <3>3
  <2>5. ASSUME Execute
        PROVE  (\E k \in 1..length : Apply(k)) \/ UNCHANGED <<length, applied, told>>
    <3>1. UNCHANGED told
      BY <2>5 DEF Execute, clientVars
    <3>2. PICK i \in Deliverable(toDevice) :
            executed' = executed \/ executed' = executed \union {toDevice[i].id}
      BY <2>5 DEF Execute
    <3>3. CASE UNCHANGED applied
      BY <2>2, <3>1, <3>3
    <3>4. CASE applied' # applied
      <4> DEFINE k == toDevice[i].id
      <4>1. executed' = executed \union {k} /\ k \in Steps /\ k \notin executed
        BY <2>2, <3>2, <3>4
      <4>2. toDevice[i] \in GoodPackets
        BY RemoveAtType DEF Deliverable, ScriptInv, ChannelInv
      <4>3. \A j \in 1..(k - 1) : j \in executed
        BY <4>1, <4>2 DEF GoodPackets
      <4> HIDE DEF k
      <4>4. told # "success"
        BY <4>1 DEF ScriptInv, ProgressInv
      <4>5. k \in 1..length /\ \A j \in 1..(k - 1) : j \in Steps
        BY <2>3, <4>1
      <4>6. applied' = applied \union {k}
        BY <2>2, <4>1
      <4>7. QED
        BY <2>2, <3>1, <4>1, <4>3, <4>4, <4>5, <4>6
    <3>5. QED
      BY <3>3, <3>4
  <2>6. CASE Expire \/ RivalClaims \/ RivalWrites \/ UNCHANGED vars
    <3>1. UNCHANGED <<pc, result, executed>>
      BY <2>6 DEF Expire, RivalClaims, RivalWrites, clientVars, vars
    <3>2. QED
      BY <2>2, <3>1
  <2>7. QED
    BY <2>4, <2>5, <2>6 DEF Next
<1>3. QED
  BY <1>1, <1>2, ScriptHolds, PTL DEF Spec, InOrder, Device!Spec

-----------------------------------------------------------------------------
(***************************************************************************)
(* What is under way.  Beyond ScriptInv: a packet is a copy of the command *)
(* of a step that has been reached, with the value the script gives it.    *)
(***************************************************************************)

\* The commands of writeConfig that fetch and set the mode.
Reading == last - 2
Writing == last - 1

\* A command on its way is the current one or a copy of an earlier one, sent
\* after all steps before it had been acknowledged, and carries what the script
\* says.
KnownPackets ==
  {p \in GoodPackets :
     /\ p.id <= step
     /\ p.id \in Steps => 1..(p.id - 1) \subseteq acked
     /\ call.op = "write" =>
          /\ p.id = last => p.value = {}
          /\ p.id = Writing => p.value = NewMode(call, seen["mode"])
          /\ p.id \in 2..(last - 3) => p.value = {p.cmd.reg, "client"}}

\* An acknowledge on its way is of the kind its command expects.
KnownAcks ==
  {a \in GoodAcks :
     /\ a.id <= step
     /\ a.ack = AckKind(script[a.id])
     /\ a.status = "short" => "short" \in Faults}

\* What is acknowledged was executed, what was executed had been sent.
KnownInv ==
  /\ acked \subseteq executed
  /\ executed \subseteq 1..step
  /\ result = "none" => 1..(step - 1) \subseteq acked
  /\ toDevice \in Seq(KnownPackets)
  /\ toClient \in Seq(KnownAcks)

\* The script goes forward only, and knowledge is kept.
LEMMA Forward ==
  ASSUME ScriptInv, [Next]_vars
  PROVE  /\ UNCHANGED scene
         /\ step' \in Nat /\ step <= step'
         /\ acked \subseteq acked'
         /\ executed \subseteq executed'
<1>1. step \in 1..last /\ last \in Nat \ {0} /\ step \in Nat
  BY ScriptType DEF ScriptInv, ProgressInv
<1>2. ASSUME ClientStep
      PROVE  UNCHANGED <<scene, executed>> /\ (UNCHANGED <<step, acked>> \/ Proceed \/ Throw("error") \/ Throw("denied"))
  <2>1. CASE Send \/ SendFails \/ GiveUp \/ Lapse
    BY <2>1 DEF Send, SendFails, GiveUp, Lapse, historyVars
  <2>2. CASE Receive
    BY <2>2 DEF Receive
  <2>3. QED
    BY <1>2, <2>1, <2>2 DEF ClientStep
<1>3. CASE ClientStep
  <2>1. CASE UNCHANGED <<step, acked>>
    BY <1>1, <1>2, <1>3, <2>1
  <2>2. CASE Proceed
    <3>1. acked \subseteq acked' /\ (step' = step \/ step' = step + 1)
      BY <2>2 DEF Proceed
    <3>2. QED
      BY <1>1, <1>2, <1>3, <3>1
  <2>3. CASE Throw("error") \/ Throw("denied")
    <3>1. acked = acked' /\ (step' = step \/ step' = last)
      BY <2>3 DEF Throw
    <3>2. QED
      BY <1>1, <1>2, <1>3, <3>1
  <2>4. QED
    BY <1>2, <1>3, <2>1, <2>2, <2>3
<1>4. CASE Execute
  <2>1. UNCHANGED <<scene, step, acked>> /\ executed \subseteq executed'
    BY <1>4 DEF Execute, clientVars, historyVars
  <2>2. QED
    BY <1>1, <2>1
<1>5. CASE Expire \/ RivalClaims \/ RivalWrites \/ UNCHANGED vars
  <2>1. UNCHANGED <<scene, step, acked, executed>>
    BY <1>5 DEF Expire, RivalClaims, RivalWrites, vars, clientVars, historyVars
  <2>2. QED
    BY <1>1, <2>1
<1>6. QED
  BY <1>3, <1>4, <1>5 DEF Next

\* What was known of the packets stays known, as the value of a mode that was
\* read does not change once its update is under way.
LEMMA KnownStays ==
  ASSUME ScriptInv, [Next]_vars,
         call.op = "write" => (seen'["mode"] = seen["mode"] \/ step <= Reading)
  PROVE  KnownPackets \subseteq KnownPackets' /\ KnownAcks \subseteq KnownAcks'
<1>1. /\ UNCHANGED scene
      /\ step' \in Nat /\ step <= step'
      /\ acked \subseteq acked'
      /\ executed \subseteq executed'
  BY Forward
<1>2. UNCHANGED <<call, script, last, Steps>> /\ Faults' = Faults
  BY <1>1, SameScript DEF Faults
<1>3. GoodPackets \subseteq GoodPackets' /\ GoodAcks \subseteq GoodAcks'
  BY <1>1, ChannelsStayGood
<1>4. step \in Nat /\ last \in Nat
  BY ScriptType DEF ScriptInv, ProgressInv
<1>5. ASSUME NEW p \in KnownPackets
      PROVE  p \in KnownPackets'
  <2>1. p \in GoodPackets /\ p.id \in 1..last /\ p.id <= step
    BY DEF KnownPackets, GoodPackets
  <2>2. p.id <= step'
    BY <1>1, <1>4, <2>1
  <2>3. call.op = "write" /\ p.id = Writing => seen'["mode"] = seen["mode"]
    BY <1>4, <2>1 DEF Writing, Reading
  <2>4. \A bits : NewMode(call, bits)' = NewMode(call, bits')
    BY <1>2 DEF NewMode, WantedBits
  <2>5. Writing' = Writing
    BY <1>2 DEF Writing
  <2>6. call.op = "write" /\ p.id = Writing => NewMode(call, seen["mode"])' = NewMode(call, seen["mode"])
    BY <1>2, <2>3 DEF NewMode, WantedBits
  <2>7. QED
    BY <1>1, <1>2, <1>3, <2>1, <2>2, <2>5, <2>6 DEF KnownPackets
<1>6. ASSUME NEW a \in KnownAcks
      PROVE  a \in KnownAcks'
  <2>1. a \in GoodAcks /\ a.id \in 1..last /\ a.id <= step
    BY DEF KnownAcks, GoodAcks
  <2>2. a.id <= step'
    BY <1>1, <1>4, <2>1
  <2>3. a.ack = AckKind(script[a.id])'
    BY <1>2 DEF KnownAcks, AckKind
  <2>4. QED
    BY <1>2, <1>3, <2>1, <2>2, <2>3 DEF KnownAcks
<1>7. QED
  BY <1>5, <1>6

LEMMA AddressNames == scene \in Scenes => Addresses \subseteq {"ip", "subnet", "gateway"}
<1> SUFFICES ASSUME scene \in Scenes
             PROVE  Addresses \subseteq {"ip", "subnet", "gateway"}
  OBVIOUS
<1>1. AddressOrder \in Seq({"ip", "subnet", "gateway"})
  BY ScenesAssumption DEF AllScenes, AddressOrder
<1>2. QED
  BY <1>1, ElementOfSeq, LenProperties DEF Addresses, Range

LEMMA InitKnown == Init => KnownInv
<1> SUFFICES ASSUME Init PROVE KnownInv
  OBVIOUS
<1>1. toDevice \in Seq(KnownPackets) /\ toClient \in Seq(KnownAcks)
  BY DEF Init
<1>2. QED
  BY <1>1 DEF Init, KnownInv

\* What a command carries that is sent now.
LEMMA SentIsKnown ==
  ASSUME ScriptInv, KnownInv, pc = "send"
  PROVE  [id |-> step, cmd |-> current, value |-> Value] \in KnownPackets
<1> DEFINE packet == [id |-> step, cmd |-> current, value |-> Value]
<1>1. scene \in Scenes /\ step \in 1..last /\ last \in Nat /\ step \in Nat
  BY ScriptType DEF ScriptInv, ProgressInv
<1>2. result = "none" \/ step \notin Steps
  BY DEF ScriptInv, ProgressInv
<1>3. packet \in GoodPackets
  BY <1>1, <1>2, ValueIsGood DEF GoodPackets, ScriptInv, ProgressInv, current
<1>4. packet.id <= step /\ (packet.id \in Steps => 1..(packet.id - 1) \subseteq acked)
  BY <1>1, <1>2 DEF KnownInv
<1>5. ASSUME call.op = "write"
      PROVE  /\ step = last => Value = {}
             /\ step = Writing => Value = NewMode(call, seen["mode"])
             /\ step \in 2..(last - 3) => Value = {current.reg, "client"}
  <2>1. /\ last >= 4
        /\ script[last - 1] = Command("write", "mode")
        /\ script[last] = Release
        /\ \A i \in 2..(last - 3) : \E a \in Addresses : script[i] = Command("write", a)
    BY <1>1, <1>5, WritePlan
  <2>2. CASE step = last
    BY <1>1, <2>1, <2>2 DEF Value, current, Release, Writing
  <2>3. CASE step = Writing
    BY <1>1, <2>1, <2>3 DEF Value, current, Command, Writing
  <2>4. CASE step \in 2..(last - 3)
    <3>1. PICK a \in Addresses : current = Command("write", a)
      BY <2>1, <2>4 DEF current
    <3>2. current.kind = "write" /\ current.reg # "mode"
      BY <1>1, <3>1, AddressNames DEF Command
    <3>3. Value = {current.reg, "client"}
      BY <3>2 DEF Value
    <3>4. QED
      BY <1>1, <2>1, <2>4, <3>3 DEF Writing
  <2>5. QED
    BY <2>2, <2>3, <2>4
<1>6. QED
  BY <1>3, <1>4, <1>5 DEF KnownPackets

\* The reading of the mode is the only one of writeConfig.
LEMMA OnlyTheModeIsRead ==
  ASSUME ScriptInv, call.op = "write", current.kind = "read"
  PROVE  step = Reading /\ current.reg = "mode"
<1>1. scene \in Scenes /\ step \in 1..last /\ last \in Nat /\ step \in Nat
  BY ScriptType DEF ScriptInv, ProgressInv
<1>2. /\ last >= 4
      /\ script[1] = Claim
      /\ script[last - 2] = Command("read", "mode")
      /\ script[last - 1] = Command("write", "mode")
      /\ script[last] = Release
      /\ \A i \in 2..(last - 3) : \E a \in Addresses : script[i] = Command("write", a)
  BY <1>1, WritePlan
<1>3. step # 1 /\ step # last /\ step # last - 1 /\ step \notin 2..(last - 3)
  <2>1. script[step].kind = "read"
    BY DEF current
  <2>2. /\ Claim.kind # "read" /\ Release.kind # "read"
        /\ \A reg : Command("write", reg).kind # "read"
    BY DEF Claim, Release, Command
  <2>3. QED
    BY <1>2, <2>1, <2>2
<1>4. step = last - 2
  BY <1>1, <1>2, <1>3
<1>5. QED
  BY <1>2, <1>4 DEF Reading, current, Command

LEMMA KnownChannels ==
  ASSUME ScriptInv, KnownInv, [Next]_vars,
         call.op = "write" => (seen'["mode"] = seen["mode"] \/ step <= Reading),
         toDevice' \in Seq(KnownPackets), toClient' \in Seq(KnownAcks)
  PROVE  toDevice' \in Seq(KnownPackets') /\ toClient' \in Seq(KnownAcks')
  BY KnownStays, SeqMonotonic

LEMMA SendKnown ==
  ASSUME ScriptInv, KnownInv, Send
  PROVE  KnownInv'
<1> DEFINE packet == [id |-> step, cmd |-> current, value |-> Value]
<1>1. /\ pc = "send" /\ toDevice' \in {toDevice, Append(toDevice, packet)}
      /\ UNCHANGED <<step, result, seen, toClient, executed, acked>>
  BY DEF Send, Transmit, historyVars
<1>2. packet \in KnownPackets
  BY <1>1, SentIsKnown
<1> HIDE DEF packet
<1>3. toDevice' \in Seq(KnownPackets) /\ toClient' \in Seq(KnownAcks)
  BY <1>1, <1>2, AppendProperties DEF KnownInv
<1>4. toDevice' \in Seq(KnownPackets') /\ toClient' \in Seq(KnownAcks')
  BY <1>1, <1>3, KnownChannels DEF Next, ClientStep
<1>5. QED
  BY <1>1, <1>4 DEF KnownInv

\* An exception leads to the release at the latest.
LEMMA FailKnown ==
  ASSUME ScriptInv, KnownInv, NEW exception \in {"denied", "error"}, Throw(exception), [Next]_vars,
         UNCHANGED <<scene, seen, executed>>,
         toDevice' \in Seq(KnownPackets), toClient' \in Seq(KnownAcks)
  PROVE  KnownInv'
<1>1. toDevice' \in Seq(KnownPackets') /\ toClient' \in Seq(KnownAcks')
  BY KnownChannels
<1>2. step \in 1..last /\ last \in Nat
  BY ScriptType DEF ScriptInv, ProgressInv
<1>3. acked' = acked /\ (step' = step \/ (step' = last /\ result' = exception))
      /\ (step' = step => result' \in {result, exception})
  BY DEF Throw
<1>4. 1..step \subseteq 1..step'
  BY <1>2, <1>3
<1>5. QED
  BY <1>1, <1>3, <1>4 DEF KnownInv

LEMMA ReceiveKnown ==
  ASSUME ScriptInv, KnownInv, Receive
  PROVE  KnownInv'
<1>1. PICK i \in Deliverable(toClient) :
        LET p == toClient[i]
        IN  /\ toClient' = RemoveAt(toClient, i)
            /\ CASE Matches(p) /\ p.status = "ok" ->
                      /\ seen' = IF current.kind = "read"
                                   THEN [seen EXCEPT ![current.reg] = p.value] ELSE seen
                      /\ Proceed
                 [] Matches(p) /\ p.status \in {"denied", "error"} ->
                      /\ Throw(p.status)
                      /\ UNCHANGED seen
                 [] OTHER ->
                      /\ pc' = "send"
                      /\ UNCHANGED <<step, attempt, result, seen, acked>>
  BY DEF Receive
<1> DEFINE p == toClient[i]
<1>2. [Next]_vars /\ UNCHANGED <<scene, toDevice, executed>>
  BY DEF Receive, Next, ClientStep
<1>3. p \in KnownAcks /\ toClient' \in Seq(KnownAcks) /\ toDevice' \in Seq(KnownPackets)
  <2>1. i \in DOMAIN toClient
    BY DEF Deliverable
  <2>2. QED
    BY <1>1, <1>2, <2>1, RemoveAtType DEF KnownInv
<1>4. step \in 1..last /\ last \in Nat /\ step \in Nat
  BY ScriptType DEF ScriptInv, ProgressInv
<1>5. CASE Matches(p) /\ p.status = "ok"
  <2>1. /\ seen' = IF current.kind = "read" THEN [seen EXCEPT ![current.reg] = p.value] ELSE seen
        /\ Proceed
    BY <1>1, <1>5
  <2>2. p.id = step /\ step \in executed
    BY <1>3, <1>5 DEF KnownAcks, GoodAcks, Matches
  <2> HIDE DEF p
  <2>3. acked' = acked \union {step} /\ (step' = step \/ step' = step + 1) /\ result' = result
    BY <2>1 DEF Proceed
  <2>4. 1..step \subseteq 1..step' /\ (1..(step' - 1) \subseteq 1..(step - 1) \union {step})
    BY <1>4, <2>3
  <2>5. call.op = "write" => (seen'["mode"] = seen["mode"] \/ step <= Reading)
    <3>1. CASE current.kind # "read"
      BY <2>1, <3>1
    <3>2. CASE current.kind = "read" /\ call.op = "write"
      <4>1. step = Reading
        BY <3>2, OnlyTheModeIsRead
      <4>2. QED
        BY <1>4, <4>1 DEF Reading
    <3>3. QED
      BY <3>1, <3>2
  <2>6. toDevice' \in Seq(KnownPackets') /\ toClient' \in Seq(KnownAcks')
    BY <1>2, <1>3, <2>5, KnownChannels
  <2>7. QED
    BY <1>2, <2>2, <2>3, <2>4, <2>6 DEF KnownInv
<1>6. CASE Matches(p) /\ p.status \in {"denied", "error"}
  <2>1. Throw(p.status) /\ UNCHANGED seen
    BY <1>1, <1>6
  <2>2. QED
    BY <1>2, <1>3, <1>6, <2>1, FailKnown
<1>7. CASE ~(Matches(p) /\ p.status = "ok") /\ ~(Matches(p) /\ p.status \in {"denied", "error"})
  <2>1. UNCHANGED <<step, result, seen, acked>>
    BY <1>1, <1>7
  <2>2. toDevice' \in Seq(KnownPackets') /\ toClient' \in Seq(KnownAcks')
    BY <1>2, <1>3, <2>1, KnownChannels
  <2>3. QED
    BY <1>2, <2>1, <2>2 DEF KnownInv
<1>8. QED
  BY <1>5, <1>6, <1>7

LEMMA ReplyIsKnown ==
  ASSUME ScriptInv, KnownInv, NEW p \in KnownPackets, NEW status \in {"ok", "short", "denied", "error"},
         Execute, status = "ok" => p.id \in executed', status = "short" => "short" \in Faults
  PROVE  Reply(p, status) \in KnownAcks'
<1>1. UNCHANGED <<scene, step>>
  BY DEF Execute, clientVars
<1>2. UNCHANGED script /\ Faults' = Faults
  BY <1>1, SameScript DEF Faults
<1>3. p \in GoodPackets /\ p.id <= step /\ p.cmd = script[p.id]
  BY DEF KnownPackets, GoodPackets
<1>4. Reply(p, status) \in GoodAcks'
  BY <1>1, <1>3, ReplyIsGood DEF ScriptInv, ProgressInv
<1>5. /\ Reply(p, status).id = p.id
      /\ Reply(p, status).ack = AckKind(script[p.id])
      /\ Reply(p, status).status = status
  BY <1>3 DEF Reply
<1>6. AckKind(script[p.id]) = AckKind(script'[p.id])
  BY <1>2
<1>7. QED
  BY <1>1, <1>2, <1>3, <1>4, <1>5, <1>6 DEF KnownAcks, AckKind

\* What Execute does, in terms of the packet it takes.
LEMMA ExecuteEffect ==
  ASSUME ScriptInv, KnownInv, Execute
  PROVE  \E i \in Deliverable(toDevice), status \in {"ok", "short", "denied", "error"} :
           LET p == toDevice[i]
           IN  /\ i \in DOMAIN toDevice /\ p \in KnownPackets
               /\ toDevice' = RemoveAt(toDevice, i)
               /\ toClient' \in {toClient, Append(toClient, Reply(p, status))}
               /\ status = "ok" => p.id \in executed'
               /\ status = "short" => "short" \in Faults
               /\ \/ /\ Permitted(p.cmd)
                     /\ regs' = IF p.cmd.kind = "read" THEN regs
                                ELSE [regs EXCEPT ![p.cmd.reg] = p.value]
                     /\ executed' = executed \union {p.id}
                  \/ /\ status # "ok"
                     /\ UNCHANGED <<regs, executed>>
<1>1. PICK i \in Deliverable(toDevice) :
        LET p == toDevice[i]
        IN  /\ toDevice' = RemoveAt(toDevice, i)
            /\ \/ /\ Permitted(p.cmd)
                  /\ regs' = IF p.cmd.kind = "read" THEN regs
                             ELSE [regs EXCEPT ![p.cmd.reg] = p.value]
                  /\ executed' = executed \union {p.id}
                  /\ \E status \in {"ok"} \union (Faults \intersect {"short"}) :
                       Transmit(toClient, Reply(p, status), toClient')
               \/ /\ \E status \in IF Permitted(p.cmd) THEN Faults \intersect {"error"}
                                   ELSE {"denied"} :
                       Transmit(toClient, Reply(p, status), toClient')
                  /\ UNCHANGED <<regs, executed>>
  BY DEF Execute
<1> DEFINE p == toDevice[i]
<1>2. i \in DOMAIN toDevice /\ p \in KnownPackets
  BY RemoveAtType DEF KnownInv, Deliverable
<1>3. CASE /\ Permitted(p.cmd)
           /\ regs' = IF p.cmd.kind = "read" THEN regs ELSE [regs EXCEPT ![p.cmd.reg] = p.value]
           /\ executed' = executed \union {p.id}
           /\ \E status \in {"ok"} \union (Faults \intersect {"short"}) :
                Transmit(toClient, Reply(p, status), toClient')
  <2>1. PICK status \in {"ok"} \union (Faults \intersect {"short"}) :
          Transmit(toClient, Reply(p, status), toClient')
    BY <1>3
  <2>2. status \in {"ok", "short", "denied", "error"} /\ (status = "short" => "short" \in Faults)
    OBVIOUS
  <2>3. toClient' \in {toClient, Append(toClient, Reply(p, status))}
    BY <2>1 DEF Transmit
  <2> HIDE DEF p
  <2>4. p.id \in executed'
    BY <1>3
  <2>5. toDevice' = RemoveAt(toDevice, i)
    BY <1>1
  <2>6. QED
    BY <1>2, <1>3, <2>2, <2>3, <2>4, <2>5 DEF p
<1>4. CASE /\ \E status \in IF Permitted(p.cmd) THEN Faults \intersect {"error"} ELSE {"denied"} :
                Transmit(toClient, Reply(p, status), toClient')
           /\ UNCHANGED <<regs, executed>>
  <2>1. PICK status \in {"error", "denied"} : Transmit(toClient, Reply(p, status), toClient')
    BY <1>4
  <2>2. toClient' \in {toClient, Append(toClient, Reply(p, status))}
    BY <2>1 DEF Transmit
  <2>3. toDevice' = RemoveAt(toDevice, i)
    BY <1>1
  <2> HIDE DEF p
  <2>4. QED
    BY <1>2, <1>4, <2>2, <2>3 DEF p
<1>5. QED
  BY <1>1, <1>3, <1>4

LEMMA ExecuteKnown ==
  ASSUME ScriptInv, KnownInv, Execute
  PROVE  KnownInv'
<1>1. PICK i \in Deliverable(toDevice), status \in {"ok", "short", "denied", "error"} :
        /\ i \in DOMAIN toDevice /\ toDevice[i] \in KnownPackets
        /\ toDevice' = RemoveAt(toDevice, i)
        /\ toClient' \in {toClient, Append(toClient, Reply(toDevice[i], status))}
        /\ status = "ok" => toDevice[i].id \in executed'
        /\ status = "short" => "short" \in Faults
        /\ executed' \in {executed, executed \union {toDevice[i].id}}
  BY ExecuteEffect
<1> DEFINE p == toDevice[i]
<1>2. UNCHANGED <<scene, step, result, seen, acked>> /\ [Next]_vars
  BY DEF Execute, clientVars, historyVars, Next
<1>3. KnownPackets \subseteq KnownPackets' /\ KnownAcks \subseteq KnownAcks'
  BY <1>2, KnownStays
<1>4. toDevice' \in Seq(KnownPackets')
  <2>1. toDevice' \in Seq(KnownPackets)
    BY <1>1, RemoveAtType DEF KnownInv
  <2>2. QED
    BY <1>3, <2>1, SeqMonotonic
<1>5. toClient' \in Seq(KnownAcks')
  <2>1. Reply(p, status) \in KnownAcks'
    BY <1>1, ReplyIsKnown
  <2>2. QED
    BY <1>1, <1>3, <2>1, TransmitGood DEF Transmit, KnownInv
<1>6. executed' \subseteq 1..step'
  <2>1. p.id \in 1..step
    <3>1. p.id \in 1..last /\ p.id <= step /\ step \in 1..last
      BY <1>1 DEF KnownPackets, GoodPackets, ScriptInv, ProgressInv
    <3> HIDE DEF p
    <3>2. last \in Nat
      BY ScriptType DEF ScriptInv, ProgressInv
    <3>3. QED
      BY <3>1, <3>2
  <2>2. QED
    BY <1>1, <1>2, <2>1 DEF KnownInv
<1>7. acked' \subseteq executed'
  BY <1>1, <1>2 DEF KnownInv
<1>8. QED
  BY <1>2, <1>4, <1>5, <1>6, <1>7 DEF KnownInv

LEMMA KnownStep ==
  ASSUME ScriptInv, KnownInv, [Next]_vars
  PROVE  KnownInv'
<1>1. CASE SendFails \/ GiveUp
  <2>1. /\ Throw("error")
        /\ UNCHANGED <<scene, seen, toDevice, toClient, executed>>
    BY <1>1 DEF SendFails, GiveUp
  <2>2. QED
    BY <2>1, FailKnown DEF KnownInv
<1>2. CASE Lapse \/ Expire \/ RivalClaims \/ RivalWrites \/ UNCHANGED vars
  <2>1. UNCHANGED <<step, result, seen, toDevice, toClient, executed, acked>>
    BY <1>2 DEF Lapse, Expire, RivalClaims, RivalWrites, vars, clientVars, historyVars
  <2>2. toDevice' \in Seq(KnownPackets') /\ toClient' \in Seq(KnownAcks')
    BY <2>1, KnownChannels DEF KnownInv
  <2>3. QED
    BY <2>1, <2>2 DEF KnownInv
<1>3. QED
  BY <1>1, <1>2, SendKnown, ReceiveKnown, ExecuteKnown DEF Next, ClientStep

LEMMA KnownHolds == Spec => []KnownInv
<1>1. KnownInv /\ ScriptInv /\ [Next]_vars => KnownInv'
  BY KnownStep
<1>2. QED
  BY <1>1, InitKnown, ScriptHolds, PTL DEF Spec

-----------------------------------------------------------------------------
(* The order of the packets, unless the network overtakes                  *)

\* The commands in a channel come in the order of the script.
Rising(channel) == \A i, k \in DOMAIN channel : i < k => channel[i].id <= channel[k].id

\* Unless the network overtakes, the order of the script is kept on the way to
\* the device, in what it has executed, and on the way back.
FifoInv ==
  ~Reorder =>
    /\ Rising(toDevice) /\ Rising(toClient)
    /\ \A i \in DOMAIN toClient, k \in DOMAIN toDevice : toClient[i].id <= toDevice[k].id
    /\ \A j \in executed, k \in DOMAIN toDevice : j <= toDevice[k].id

LEMMA RisingAppend ==
  ASSUME NEW S, NEW s \in Seq(S), NEW e \in S, \A x \in S : x.id \in Nat,
         Rising(s), \A i \in DOMAIN s : s[i].id <= e.id
  PROVE  /\ Rising(Append(s, e))
         /\ \A k \in DOMAIN Append(s, e) :
              Append(s, e)[k] = e \/ (k \in DOMAIN s /\ Append(s, e)[k] = s[k])
<1> DEFINE t == Append(s, e)
<1>1. /\ t \in Seq(S) /\ Len(t) = Len(s) + 1
      /\ \A i \in 1..Len(s) : t[i] = s[i]
      /\ t[Len(s) + 1] = e
  BY AppendProperties
<1> HIDE DEF t
<1>2. DOMAIN s = 1..Len(s) /\ DOMAIN t = 1..(Len(s) + 1) /\ Len(s) \in Nat
  BY <1>1, LenProperties
<1>3. ASSUME NEW i \in DOMAIN t, NEW k \in DOMAIN t, i < k
      PROVE  t[i].id <= t[k].id
  <2>1. i \in DOMAIN s /\ t[i] = s[i]
    BY <1>1, <1>2, <1>3
  <2>2. CASE k = Len(s) + 1
    BY <1>1, <2>1, <2>2
  <2>3. CASE k \in DOMAIN s
    BY <1>1, <1>2, <1>3, <2>1, <2>3 DEF Rising
  <2>4. QED
    BY <1>2, <2>2, <2>3
<1>4. Rising(t)
  BY <1>3 DEF Rising
<1>5. \A k \in DOMAIN t : t[k] = e \/ (k \in DOMAIN s /\ t[k] = s[k])
  BY <1>1, <1>2
<1>6. QED
  BY <1>4, <1>5 DEF t

LEMMA RisingRest ==
  ASSUME NEW S, NEW s \in Seq(S), 1 \in DOMAIN s, Rising(s)
  PROVE  /\ Rising(RemoveAt(s, 1))
         /\ \A k \in DOMAIN RemoveAt(s, 1) : k + 1 \in DOMAIN s /\ RemoveAt(s, 1)[k] = s[k + 1]
                                             /\ s[1].id <= s[k + 1].id
<1> DEFINE t == RemoveAt(s, 1)
<1>1. /\ Len(s) \in Nat /\ DOMAIN s = 1..Len(s)
      /\ DOMAIN t = 1..(Len(s) - 1)
      /\ \A k \in 1..(Len(s) - 1) : t[k] = s[k + 1]
  BY TakeFirst
<1> HIDE DEF t
<1>2. \A k \in DOMAIN t : k + 1 \in DOMAIN s /\ 1 < k + 1 /\ k \in Nat
  BY <1>1
<1>3. \A k \in DOMAIN t : k + 1 \in DOMAIN s /\ t[k] = s[k + 1] /\ s[1].id <= s[k + 1].id
  BY <1>1, <1>2 DEF Rising
<1>4. ASSUME NEW i \in DOMAIN t, NEW k \in DOMAIN t, i < k
      PROVE  t[i].id <= t[k].id
  <2>1. i + 1 < k + 1
    BY <1>2, <1>4
  <2>2. s[i + 1].id <= s[k + 1].id
    BY <1>2, <2>1 DEF Rising
  <2>3. QED
    BY <1>3, <2>2
<1>5. QED
  BY <1>3, <1>4 DEF Rising, t

\* The numbers in the channels.
LEMMA Ids ==
  ASSUME ScriptInv, KnownInv
  PROVE  /\ step \in Nat
         /\ \A i \in DOMAIN toDevice : toDevice[i].id \in Nat /\ toDevice[i].id <= step
         /\ \A i \in DOMAIN toClient : toClient[i].id \in Nat /\ toClient[i].id <= step
         /\ \A x \in KnownPackets \union KnownAcks : x.id \in Nat
         /\ executed \subseteq Nat /\ \A j \in executed : j <= step
<1>1. step \in Nat /\ last \in Nat
  BY ScriptType DEF ScriptInv, ProgressInv
<1>2. \A x \in KnownPackets \union KnownAcks : x.id \in Nat /\ x.id <= step
  BY <1>1 DEF KnownPackets, KnownAcks, GoodPackets, GoodAcks
<1>3. \A i \in DOMAIN toDevice : toDevice[i] \in KnownPackets
  BY RemoveAtType DEF KnownInv
<1>4. \A i \in DOMAIN toClient : toClient[i] \in KnownAcks
  BY RemoveAtType DEF KnownInv
<1>5. executed \subseteq Nat /\ \A j \in executed : j <= step
  BY <1>1 DEF KnownInv
<1>6. QED
  BY <1>1, <1>2, <1>3, <1>4, <1>5

LEMMA FifoStep ==
  ASSUME ScriptInv, KnownInv, FifoInv, [Next]_vars
  PROVE  FifoInv'
<1> SUFFICES ASSUME ~Reorder
             PROVE  FifoInv'
  BY Forward DEF FifoInv, Reorder
<1>1. /\ Rising(toDevice) /\ Rising(toClient)
      /\ \A i \in DOMAIN toClient, k \in DOMAIN toDevice : toClient[i].id <= toDevice[k].id
      /\ \A j \in executed, k \in DOMAIN toDevice : j <= toDevice[k].id
  BY DEF FifoInv
<1>2. toDevice \in Seq(KnownPackets) /\ toClient \in Seq(KnownAcks)
  BY DEF KnownInv
<1>3. CASE UNCHANGED <<toDevice, toClient, executed>>
  BY <1>1, <1>3 DEF FifoInv, Rising
<1>4. CASE Send
  <2> DEFINE packet == [id |-> step, cmd |-> current, value |-> Value]
  <2>1. /\ toDevice' \in {toDevice, Append(toDevice, packet)}
        /\ UNCHANGED <<toClient, executed>>
    BY <1>4 DEF Send, Transmit
  <2>2. packet \in KnownPackets
    BY <1>4, SentIsKnown DEF Send
  <2>3. packet.id = step
    OBVIOUS
  <2> HIDE DEF packet
  <2>4. CASE toDevice' = Append(toDevice, packet)
    <3>1. /\ Rising(toDevice')
          /\ \A k \in DOMAIN toDevice' :
               toDevice'[k] = packet \/ (k \in DOMAIN toDevice /\ toDevice'[k] = toDevice[k])
      BY <1>1, <1>2, <2>2, <2>3, <2>4, Ids, RisingAppend
    <3>2. QED
      BY <1>1, <2>1, <2>3, <3>1, Ids DEF FifoInv, Rising
  <2>5. QED
    BY <1>3, <2>1, <2>4
<1>5. CASE Receive
  <2>1. /\ 1 \in DOMAIN toClient /\ toClient' = RemoveAt(toClient, 1)
        /\ UNCHANGED <<toDevice, executed>>
    BY <1>5 DEF Receive, Deliverable
  <2>2. /\ Rising(toClient')
        /\ \A k \in DOMAIN toClient' : k + 1 \in DOMAIN toClient /\ toClient'[k] = toClient[k + 1]
    BY <1>1, <1>2, <2>1, RisingRest
  <2>3. QED
    BY <1>1, <2>1, <2>2 DEF FifoInv, Rising
<1>6. CASE Execute
  <2>1. PICK status \in {"ok", "short", "denied", "error"} :
          /\ 1 \in DOMAIN toDevice
          /\ toDevice[1] \in KnownPackets
          /\ toDevice' = RemoveAt(toDevice, 1)
          /\ toClient' \in {toClient, Append(toClient, Reply(toDevice[1], status))}
          /\ status = "ok" => toDevice[1].id \in executed'
          /\ status = "short" => "short" \in Faults
          /\ executed' \in {executed, executed \union {toDevice[1].id}}
    BY <1>6, ExecuteEffect DEF Deliverable
  <2> DEFINE p == toDevice[1]
             reply == Reply(p, status)
  <2>2. /\ Rising(toDevice')
        /\ \A k \in DOMAIN toDevice' : /\ k + 1 \in DOMAIN toDevice /\ toDevice'[k] = toDevice[k + 1]
                                       /\ p.id <= toDevice'[k].id
    BY <1>1, <1>2, <2>1, RisingRest
  <2>3. reply.id = p.id
    BY DEF Reply
  <2>4. reply \in KnownAcks' /\ KnownAcks \subseteq KnownAcks'
    <3>1. reply \in KnownAcks'
      BY <1>6, <2>1, ReplyIsKnown
    <3>2. UNCHANGED seen /\ [Next]_vars
      BY <1>6 DEF Execute, clientVars, Next
    <3>3. QED
      BY <3>1, <3>2, KnownStays
  <2>5. toClient \in Seq(KnownAcks') /\ \A x \in KnownAcks' : x.id \in Nat
    <3>1. toClient \in Seq(KnownAcks')
      BY <1>2, <2>4, SeqMonotonic
    <3>2. last' \in Nat /\ 1..last' \subseteq Nat
      <4>1. last \in Nat /\ UNCHANGED last
        BY <1>6, ScriptType, SameScript DEF ScriptInv, ProgressInv, Execute
      <4>2. QED
        BY <4>1
    <3>3. \A x \in KnownAcks' : x.id \in 1..last'
      BY DEF KnownAcks, GoodAcks
    <3>4. QED
      BY <3>1, <3>2, <3>3
  <2> HIDE DEF p, reply
  <2>6. Rising(toClient') /\ \A i \in DOMAIN toClient' :
                               toClient'[i].id = p.id \/ (i \in DOMAIN toClient /\ toClient'[i] = toClient[i])
    <3>1. CASE toClient' = toClient
      BY <1>1, <3>1
    <3>2. CASE toClient' = Append(toClient, reply)
      <4>1. \A i \in DOMAIN toClient : toClient[i].id <= reply.id
        BY <1>1, <2>1, <2>3 DEF p
      <4>2. QED
        BY <1>1, <2>3, <2>4, <2>5, <3>2, <4>1, RisingAppend
    <3>3. QED
      BY <2>1, <3>1, <3>2 DEF p, reply
  <2>7. \A i \in DOMAIN toClient', k \in DOMAIN toDevice' : toClient'[i].id <= toDevice'[k].id
    BY <1>1, <2>2, <2>6
  <2>8. \A j \in executed', k \in DOMAIN toDevice' : j <= toDevice'[k].id
    BY <1>1, <2>1, <2>2 DEF p
  <2>9. QED
    BY <2>2, <2>6, <2>7, <2>8 DEF FifoInv
<1>7. CASE SendFails \/ GiveUp \/ Lapse \/ Expire \/ RivalClaims \/ RivalWrites \/ UNCHANGED vars
  <2>1. UNCHANGED <<toDevice, toClient, executed>>
    BY <1>7 DEF SendFails, GiveUp, Lapse, Expire, RivalClaims, RivalWrites, vars
  <2>2. QED
    BY <1>3, <2>1
<1>8. QED
  BY <1>4, <1>5, <1>6, <1>7 DEF Next, ClientStep

LEMMA FifoHolds == Spec => []FifoInv
<1>1. Init => FifoInv
  BY DEF Init, FifoInv, Rising
<1>2. FifoInv /\ KnownInv /\ ScriptInv /\ [Next]_vars => FifoInv'
  BY FifoStep
<1>3. QED
  BY <1>1, <1>2, ScriptHolds, KnownHolds, PTL DEF Spec

-----------------------------------------------------------------------------
(* Control access                                                          *)

\* While the client holds control, what it has written stands, and the mode it
\* has read is the one the device has until it is updated.
KeptInv ==
  /\ \A j \in executed \intersect (2..(last - 3)) :
       regs[script[j].reg] = {script[j].reg, "client"}
  /\ Reading \in executed /\ Writing \notin executed =>
       /\ \A i \in DOMAIN toClient :
            toClient[i].id = Reading /\ toClient[i].status = "ok" => toClient[i].value = regs["mode"]
       /\ Reading \in acked => seen["mode"] = regs["mode"]

\* Control ends for good with the release, and what was fetched under it holds
\* as long as it lasts: lost once, it does not come back, as no claim is left on
\* its way.
ControlInv ==
  call.op = "write" /\ ~Reorder =>
    /\ last \in executed => regs["ccp"] # {"client"}
    /\ regs["ccp"] = {"client"} => KeptInv

LEMMA InitControl == Init => ControlInv
<1> SUFFICES ASSUME Init PROVE ControlInv
  OBVIOUS
<1>1. regs["ccp"] # {"client"}
  <2>1. "ccp" \in Registers /\ "ccp" \notin Addresses
    BY AddressNames DEF Init, Registers
  <2>2. "ccp" # "mode"
    OBVIOUS
  <2>3. regs["ccp"] \in {{}, {"rival"}}
    BY <2>1, <2>2 DEF Init
  <2>4. QED
    BY <2>3
<1>2. QED
  BY <1>1 DEF ControlInv

\* What the client does leaves the registers alone; a value it reads is current.
LEMMA ClientControl ==
  ASSUME ScriptInv, KnownInv, FifoInv, ControlInv, ClientStep
  PROVE  ControlInv'
<1> SUFFICES ASSUME call.op = "write", ~Reorder, ControlInv
             PROVE  ControlInv'
  BY Forward DEF ControlInv, Reorder, call, Next
<1>1. UNCHANGED <<scene, regs, executed>>
  BY DEF ClientStep, Send, SendFails, GiveUp, Lapse, Receive
<1>2. UNCHANGED <<call, script, last, Reorder, Reading, Writing>>
  BY <1>1, SameScript DEF Reorder, Reading, Writing
<1>3. SUFFICES ASSUME regs["ccp"] = {"client"}, KeptInv
               PROVE  KeptInv'
  BY <1>1, <1>2 DEF ControlInv
<1>4. CASE UNCHANGED <<toClient, seen, acked>>
  BY <1>1, <1>2, <1>3, <1>4 DEF KeptInv
<1>5. CASE SendFails \/ GiveUp
  BY <1>4, <1>5 DEF SendFails, GiveUp, Throw
<1>6. CASE Receive
  <2>1. /\ 1 \in DOMAIN toClient /\ toClient' = RemoveAt(toClient, 1)
        /\ \/ /\ Matches(toClient[1]) /\ toClient[1].status = "ok"
              /\ seen' = IF current.kind = "read"
                           THEN [seen EXCEPT ![current.reg] = toClient[1].value] ELSE seen
              /\ acked' = acked \union {step}
           \/ UNCHANGED <<seen, acked>>
    <3>1. PICK i \in Deliverable(toClient) :
            LET p == toClient[i]
            IN  /\ toClient' = RemoveAt(toClient, i)
                /\ CASE Matches(p) /\ p.status = "ok" ->
                          /\ seen' = IF current.kind = "read"
                                       THEN [seen EXCEPT ![current.reg] = p.value] ELSE seen
                          /\ Proceed
                     [] Matches(p) /\ p.status \in {"denied", "error"} ->
                          /\ Throw(p.status)
                          /\ UNCHANGED seen
                     [] OTHER ->
                          /\ pc' = "send"
                          /\ UNCHANGED <<step, attempt, result, seen, acked>>
      BY <1>6 DEF Receive
    <3>2. i = 1 /\ i \in DOMAIN toClient
      BY DEF Deliverable
    <3>3. CASE Matches(toClient[i]) /\ toClient[i].status = "ok"
      BY <3>1, <3>2, <3>3 DEF Proceed
    <3>4. CASE Matches(toClient[i]) /\ toClient[i].status \in {"denied", "error"}
      BY <3>1, <3>2, <3>4 DEF Throw
    <3>5. CASE ~(Matches(toClient[i]) /\ toClient[i].status = "ok")
               /\ ~(Matches(toClient[i]) /\ toClient[i].status \in {"denied", "error"})
      BY <3>1, <3>2, <3>5
    <3>6. QED
      BY <3>3, <3>4, <3>5
  <2>2. \A k \in DOMAIN toClient' : k + 1 \in DOMAIN toClient /\ toClient'[k] = toClient[k + 1]
    BY <2>1, RisingRest DEF KnownInv, FifoInv
  <2>3. \A j \in executed' \intersect (2..(last' - 3)) :
          regs'[script'[j].reg] = {script'[j].reg, "client"}
    BY <1>1, <1>2, <1>3 DEF KeptInv
  <2>4. ASSUME Reading' \in executed', Writing' \notin executed'
        PROVE  /\ \A i \in DOMAIN toClient' :
                    toClient'[i].id = Reading' /\ toClient'[i].status = "ok" =>
                      toClient'[i].value = regs'["mode"]
               /\ Reading' \in acked' => seen'["mode"] = regs'["mode"]
    <3>1. /\ \A i \in DOMAIN toClient :
               toClient[i].id = Reading /\ toClient[i].status = "ok" => toClient[i].value = regs["mode"]
          /\ Reading \in acked => seen["mode"] = regs["mode"]
      BY <1>1, <1>2, <1>3, <2>4 DEF KeptInv
    <3>2. \A i \in DOMAIN toClient' :
            toClient'[i].id = Reading' /\ toClient'[i].status = "ok" => toClient'[i].value = regs'["mode"]
      BY <1>1, <1>2, <2>2, <3>1
    <3>3. ASSUME Reading' \in acked'
          PROVE  seen'["mode"] = regs'["mode"]
      <4>1. CASE UNCHANGED <<seen, acked>>
        BY <1>1, <1>2, <3>1, <3>3, <4>1
      <4>2. CASE /\ Matches(toClient[1]) /\ toClient[1].status = "ok"
                 /\ seen' = IF current.kind = "read"
                              THEN [seen EXCEPT ![current.reg] = toClient[1].value] ELSE seen
                 /\ acked' = acked \union {step}
        <5>1. CASE current.kind = "read"
          <6>1. step = Reading /\ current.reg = "mode"
            BY <5>1, OnlyTheModeIsRead
          <6>2. toClient[1].value = regs["mode"]
            BY <2>1, <3>1, <4>2, <6>1 DEF Matches
          <6>3. "mode" \in DOMAIN seen
            BY DEF ScriptInv, SeenInv, Registers
          <6>4. QED
            BY <1>1, <4>2, <5>1, <6>1, <6>2, <6>3
        <5>2. CASE current.kind # "read"
          <6>1. script[Reading].kind = "read"
            BY WritePlan DEF ScriptInv, ProgressInv, Reading, Command
          <6>2. step # Reading
            BY <5>2, <6>1 DEF current
          <6>3. QED
            BY <1>1, <1>2, <3>1, <3>3, <4>2, <5>2, <6>2
        <5>3. QED
          BY <5>1, <5>2
      <4>3. QED
        BY <2>1, <4>1, <4>2
    <3>4. QED
      BY <3>2, <3>3
  <2>5. QED
    BY <2>3, <2>4 DEF KeptInv
<1>7. CASE Send \/ Lapse
  BY <1>4, <1>7 DEF Send, Lapse, historyVars
<1>8. QED
  BY <1>5, <1>6, <1>7 DEF ClientStep

\* A command that is executed finds everything before it executed or given up.
LEMMA ExecuteControl ==
  ASSUME ScriptInv, KnownInv, FifoInv, ControlInv, Execute
  PROVE  ControlInv'
<1> SUFFICES ASSUME call.op = "write", ~Reorder
             PROVE  ControlInv'
  BY Forward DEF ControlInv, Reorder, call, Next
<1>1. PICK status \in {"ok", "short", "denied", "error"} :
        LET p == toDevice[1]
        IN  /\ 1 \in DOMAIN toDevice /\ p \in KnownPackets
            /\ toClient' \in {toClient, Append(toClient, Reply(p, status))}
            /\ \/ /\ Permitted(p.cmd)
                  /\ regs' = IF p.cmd.kind = "read" THEN regs
                             ELSE [regs EXCEPT ![p.cmd.reg] = p.value]
                  /\ executed' = executed \union {p.id}
               \/ /\ status # "ok"
                  /\ UNCHANGED <<regs, executed>>
  BY ExecuteEffect DEF Deliverable
<1> DEFINE p == toDevice[1]
           reply == Reply(p, status)
<1>2. UNCHANGED <<scene, seen, acked>>
  BY DEF Execute, clientVars, historyVars
<1>3. UNCHANGED <<call, script, last, Reorder, Reading, Writing>>
  BY <1>2, SameScript DEF Reorder, Reading, Writing
<1>4. /\ p.id \in 1..last /\ p.cmd = script[p.id]
      /\ p.id = last => p.value = {}
      /\ p.id \in 2..(last - 3) => p.value = {p.cmd.reg, "client"}
  BY <1>1 DEF KnownPackets, GoodPackets
<1>5. /\ last \in Nat /\ last >= 4
      /\ script[1] = Claim
      /\ \A i \in 2..(last - 3) : \E a \in Addresses : script[i] = Command("write", a)
      /\ script[Reading] = Command("read", "mode")
      /\ script[Writing] = Command("write", "mode")
      /\ script[last] = Release
  BY WritePlan DEF ScriptInv, ProgressInv, Reading, Writing
<1>6. executed \subseteq 1..p.id /\ p.id \in 1..p.id
  <2>1. \A j \in executed : j <= p.id
    BY <1>1 DEF FifoInv
  <2> HIDE DEF p
  <2>2. executed \subseteq Nat \ {0}
    BY Ids DEF KnownInv
  <2>3. p.id \in Nat /\ p.id >= 1
    BY <1>4, <1>5
  <2>4. QED
    BY <2>1, <2>2, <2>3
<1>7. reply.id = p.id /\ reply.status = status
      /\ (p.cmd.kind = "read" /\ status = "ok" => reply.value = regs[p.cmd.reg])
  BY DEF Reply
<1>8. /\ DOMAIN regs = Registers /\ "ccp" \in Registers /\ "mode" \in Registers
      /\ Addresses \subseteq Registers \ {"ccp", "mode"}
  BY AddressNames DEF ScriptInv, ProgressInv, DeviceInv, Registers
<1>9. \A k \in DOMAIN toClient' : toClient'[k] = reply \/ (k \in DOMAIN toClient /\ toClient'[k] = toClient[k])
  <2>1. CASE toClient' = Append(toClient, reply)
    <3>1. /\ reply \in KnownAcks' \union {reply} /\ KnownAcks \subseteq KnownAcks' \union {reply}
      <4>1. KnownAcks \subseteq KnownAcks'
        BY <1>2, KnownStays DEF Next
      <4>2. QED
        BY <4>1
    <3>2. toClient \in Seq(KnownAcks' \union {reply})
      BY <3>1, SeqMonotonic DEF KnownInv
    <3> HIDE DEF reply, p
    <3>3. /\ Len(toClient) \in Nat /\ DOMAIN toClient = 1..Len(toClient)
          /\ toClient' \in Seq(KnownAcks' \union {reply}) /\ Len(toClient') = Len(toClient) + 1
          /\ \A k \in 1..Len(toClient) : toClient'[k] = toClient[k]
          /\ toClient'[Len(toClient) + 1] = reply
      BY <2>1, <3>1, <3>2, AppendProperties, LenProperties
    <3>4. DOMAIN toClient' = 1..(Len(toClient) + 1)
      BY <3>3, LenProperties
    <3>5. QED
      BY <3>3, <3>4
  <2>2. QED
    BY <1>1, <2>1
<1> HIDE DEF p, reply
<1>10. CASE UNCHANGED <<regs, executed>> /\ status # "ok"
  BY <1>2, <1>3, <1>7, <1>9, <1>10 DEF ControlInv, KeptInv
<1>11. CASE /\ Permitted(p.cmd)
            /\ regs' = IF p.cmd.kind = "read" THEN regs ELSE [regs EXCEPT ![p.cmd.reg] = p.value]
            /\ executed' = executed \union {p.id}
  <2>1. CASE p.id = 1
    <3>1. executed' \subseteq {1}
      BY <1>6, <1>11, <2>1
    <3>2. /\ last \notin {1} /\ Reading \notin {1}
          /\ {1} \intersect (2..(last - 3)) = {}
      BY <1>5 DEF Reading
    <3>3. QED
      BY <1>3, <3>1, <3>2 DEF ControlInv, KeptInv
  <2>2. CASE p.id \in 2..(last - 3)
    <3>1. PICK a \in Addresses : p.cmd = Command("write", a)
      BY <1>4, <1>5, <2>2
    <3>2. p.cmd.kind = "write" /\ p.cmd.reg = a /\ p.value = {a, "client"}
      BY <1>4, <2>2, <3>1 DEF Command
    <3>3. regs["ccp"] = {"client"} /\ regs' = [regs EXCEPT ![a] = {a, "client"}]
      BY <1>11, <3>2 DEF Permitted
    <3>4. KeptInv
      BY <3>3 DEF ControlInv
    <3>5. last \notin executed' /\ Reading \notin executed'
      <4>1. executed' \subseteq 1..p.id
        BY <1>6, <1>11
      <4>2. p.id \in Nat /\ p.id < Reading /\ p.id < last
        BY <1>5, <2>2 DEF Reading
      <4>3. Reading \in Int
        BY <1>5 DEF Reading
      <4>4. QED
        BY <1>5, <4>1, <4>2, <4>3
    <3>6. \A j \in executed' \intersect (2..(last - 3)) :
            regs'[script[j].reg] = {script[j].reg, "client"}
      <4>1. ASSUME NEW j \in executed' \intersect (2..(last - 3))
            PROVE  regs'[script[j].reg] = {script[j].reg, "client"}
        <5>1. PICK b \in Addresses : script[j] = Command("write", b)
          BY <1>5, <4>1
        <5>2. script[j].reg = b
          BY <5>1 DEF Command
        <5>3. CASE b = a
          BY <1>8, <3>3, <5>2, <5>3
        <5>4. CASE b # a
          <6>1. j # p.id
            BY <1>4, <3>2, <5>2, <5>4
          <6>2. j \in executed
            BY <1>11, <4>1, <6>1
          <6>3. regs[b] = {b, "client"}
            BY <3>4, <4>1, <5>2, <6>2 DEF KeptInv
          <6>4. QED
            BY <3>3, <5>2, <5>4, <6>3
        <5>5. QED
          BY <5>3, <5>4
      <4>2. QED
        BY <4>1
    <3>7. QED
      BY <1>3, <3>5, <3>6 DEF ControlInv, KeptInv
  <2>3. CASE p.id = Reading
    <3>1. p.cmd.kind = "read" /\ p.cmd.reg = "mode"
      BY <1>4, <1>5, <2>3 DEF Command
    <3>2. UNCHANGED regs
      BY <1>11, <3>1
    <3>3. last \notin executed' /\ Writing \notin executed'
      <4>1. executed' \subseteq 1..p.id
        BY <1>6, <1>11
      <4>2. QED
        BY <1>5, <2>3, <4>1 DEF Reading, Writing
    <3>4. Reading \notin 2..(last - 3)
      BY <1>5 DEF Reading
    <3>5. SUFFICES ASSUME regs["ccp"] = {"client"}, KeptInv
                   PROVE  KeptInv'
      BY <1>3, <3>2, <3>3, <1>11 DEF ControlInv
    <3>6. \A j \in executed' \intersect (2..(last - 3)) :
            regs'[script[j].reg] = {script[j].reg, "client"}
      BY <1>11, <2>3, <3>2, <3>4, <3>5 DEF KeptInv
    <3>7. ASSUME NEW i \in DOMAIN toClient', toClient'[i].id = Reading, toClient'[i].status = "ok"
          PROVE  toClient'[i].value = regs'["mode"]
      <4>1. CASE toClient'[i] = reply
        BY <1>7, <3>1, <3>2, <3>7, <4>1
      <4>2. CASE i \in DOMAIN toClient /\ toClient'[i] = toClient[i]
        <5>1. toClient[i] \in GoodAcks
          BY <4>2, RemoveAtType DEF ScriptInv, ChannelInv
        <5>2. Reading \in executed
          BY <3>7, <4>2, <5>1 DEF GoodAcks
        <5>3. Writing \notin executed
          BY <1>11, <3>3
        <5>4. QED
          BY <3>2, <3>5, <3>7, <4>2, <5>2, <5>3 DEF KeptInv
      <4>3. QED
        BY <1>9, <4>1, <4>2
    <3>8. Reading \in acked => seen["mode"] = regs["mode"]
      <4>1. acked \subseteq executed /\ Writing \notin executed
        BY <1>11, <3>3 DEF KnownInv
      <4>2. QED
        BY <3>5, <4>1 DEF KeptInv
    <3>9. QED
      BY <1>2, <1>3, <3>2, <3>6, <3>7, <3>8 DEF KeptInv
  <2>4. CASE p.id = Writing
    <3>1. p.cmd.kind = "write" /\ p.cmd.reg = "mode"
      BY <1>4, <1>5, <2>4 DEF Command
    <3>2. regs["ccp"] = {"client"} /\ regs' = [regs EXCEPT !["mode"] = p.value]
      BY <1>11, <3>1 DEF Permitted
    <3>3. KeptInv
      BY <3>2 DEF ControlInv
    <3>4. last \notin executed'
      <4>1. executed' \subseteq 1..p.id
        BY <1>6, <1>11
      <4>2. QED
        BY <1>5, <2>4, <4>1 DEF Writing
    <3>5. Writing \in executed' /\ Writing \notin 2..(last - 3)
      BY <1>5, <1>11, <2>4 DEF Writing
    <3>6. ASSUME NEW j \in executed' \intersect (2..(last - 3))
          PROVE  regs'[script[j].reg] = {script[j].reg, "client"}
      <4>1. PICK b \in Addresses : script[j] = Command("write", b)
        BY <1>5, <3>6
      <4>2. script[j].reg = b /\ b # "mode"
        BY <1>8, <4>1 DEF Command
      <4>3. j \in executed
        BY <1>11, <2>4, <3>5, <3>6
      <4>4. QED
        BY <3>2, <3>3, <3>6, <4>2, <4>3 DEF KeptInv
    <3>7. QED
      BY <1>3, <3>4, <3>5, <3>6 DEF ControlInv, KeptInv
  <2>5. CASE p.id = last
    <3>1. p.cmd.kind = "release" /\ p.cmd.reg = "ccp" /\ p.value = {}
      BY <1>4, <1>5, <2>5 DEF Release
    <3>2. regs'["ccp"] = {}
      BY <1>8, <1>11, <3>1
    <3>3. QED
      BY <3>2 DEF ControlInv
  <2>6. p.id = 1 \/ p.id \in 2..(last - 3) \/ p.id = Reading \/ p.id = Writing \/ p.id = last
    BY <1>4, <1>5 DEF Reading, Writing
  <2>7. QED
    BY <2>1, <2>2, <2>3, <2>4, <2>5, <2>6
<1>12. QED
  BY <1>1, <1>10, <1>11 DEF p

LEMMA ControlStep ==
  ASSUME ScriptInv, KnownInv, FifoInv, ControlInv, [Next]_vars
  PROVE  ControlInv'
<1>1. CASE Expire \/ RivalClaims \/ RivalWrites
  <2>1. UNCHANGED <<scene, executed>>
    BY <1>1 DEF Expire, RivalClaims, RivalWrites
  <2>2. "ccp" \in DOMAIN regs
    BY DEF ScriptInv, DeviceInv, Registers
  <2>3. regs'["ccp"] # {"client"}
    <3>1. CASE Expire \/ RivalClaims
      <4>1. {} # {"client"} /\ {"rival"} # {"client"}
        OBVIOUS
      <4>2. regs'["ccp"] = {} \/ regs'["ccp"] = {"rival"}
        BY <2>2, <3>1 DEF Expire, RivalClaims
      <4>3. QED
        BY <4>1, <4>2
    <3>2. CASE RivalWrites
      <4>1. {"rival"} # {"client"} /\ "ccp" # "ip" /\ "ccp" # "mode"
        OBVIOUS
      <4>2. regs["ccp"] = {"rival"} /\ regs'["ccp"] = regs["ccp"]
        BY <2>2, <3>2, <4>1 DEF RivalWrites
      <4>3. QED
        BY <4>1, <4>2
    <3>3. QED
      BY <1>1, <3>1, <3>2
  <2>4. QED
    BY <2>3 DEF ControlInv
<1>2. CASE UNCHANGED vars
  <2>1. UNCHANGED <<call, script, last, Reorder, Reading, Writing>>
    BY <1>2, SameScript DEF vars, Reorder, Reading, Writing
  <2>2. QED
    BY <1>2, <2>1 DEF vars, ControlInv, KeptInv
<1>3. QED
  BY <1>1, <1>2, ClientControl, ExecuteControl DEF Next

LEMMA ControlHolds == Spec => []ControlInv
<1>1. ControlInv /\ FifoInv /\ KnownInv /\ ScriptInv /\ [Next]_vars => ControlInv'
  BY ControlStep
<1>2. QED
  BY <1>1, InitControl, ScriptHolds, KnownHolds, FifoHolds, PTL DEF Spec

\* When the device has confirmed the release, it is not left under control of
\* the client, whatever was lost or came late.
THEOREM ReleaseIsFinal == Spec => []ReleasedForGood
<1>1. KnownInv /\ ControlInv => ReleasedForGood
  BY DEF KnownInv, ControlInv, ReleasedForGood
<1>2. QED
  BY <1>1, KnownHolds, ControlHolds, PTL

\* The mode is updated from the value the device has at that moment, though the
\* client read it some commands before, and after all addresses were written.
THEOREM ModeIsUpdatedInPlace == Spec => ModeUpdate
<1> DEFINE Update ==
      ExecutesMode /\ ~Reorder =>
        /\ regs'["mode"] = NewMode(call, regs["mode"])
        /\ call.persistent => \A a \in Addresses : regs[a] = {a, "client"}
<1>1. ASSUME ScriptInv, KnownInv, FifoInv, ControlInv, [Next]_vars, ExecutesMode, ~Reorder
      PROVE  /\ regs'["mode"] = NewMode(call, regs["mode"])
             /\ call.persistent => \A a \in Addresses : regs[a] = {a, "client"}
  <2>1. Execute
    <3>1. executed' # executed
      BY <1>1 DEF ExecutesMode
    <3>2. QED
      BY <1>1, <3>1 DEF Next, ClientStep, Send, SendFails, GiveUp, Lapse, Receive, Expire, RivalClaims,
                        RivalWrites, vars
  <2>2. PICK status \in {"ok", "short", "denied", "error"} :
          LET p == toDevice[1]
          IN  /\ p \in KnownPackets
              /\ \/ /\ Permitted(p.cmd)
                    /\ regs' = IF p.cmd.kind = "read" THEN regs
                               ELSE [regs EXCEPT ![p.cmd.reg] = p.value]
                    /\ executed' = executed \union {p.id}
                 \/ UNCHANGED <<regs, executed>>
    BY <1>1, <2>1, ExecuteEffect DEF Deliverable
  <2> DEFINE p == toDevice[1]
  <2>3. PICK i \in executed' \ executed : script[i] = Command("write", "mode")
    BY <1>1 DEF ExecutesMode
  <2>4. /\ i = p.id /\ i \notin executed
        /\ Permitted(p.cmd)
        /\ regs' = IF p.cmd.kind = "read" THEN regs ELSE [regs EXCEPT ![p.cmd.reg] = p.value]
    BY <2>2, <2>3
  <2>5. i \in 1..last /\ p.cmd = script[i] /\ (i \in Steps => 1..(i - 1) \subseteq acked)
        /\ (call.op = "write" => (i = Writing => p.value = NewMode(call, seen["mode"])))
    BY <2>2, <2>4 DEF KnownPackets, GoodPackets
  <2> HIDE DEF p
  <2>6. p.cmd.kind = "write" /\ p.cmd.reg = "mode"
    BY <2>3, <2>5 DEF Command
  <2>7. scene \in Scenes
    BY <1>1 DEF ScriptInv, ProgressInv
  <2>8. call.op = "write"
    <3>1. call.op \in {"read", "write"}
      BY <2>7, ScenesAssumption DEF AllScenes, AllCalls, call
    <3>2. QED
      BY <2>5, <2>6, <2>7, <3>1, ReadPlan
  <2>9. /\ last \in Nat /\ last >= 4
        /\ script[1] = Claim
        /\ \A j \in 2..(last - 3) : \E a \in Addresses : script[j] = Command("write", a)
        /\ script[last - 2] = Command("read", "mode")
        /\ script[last] = Release
        /\ call.persistent => \A a \in Addresses : \E j \in 2..(last - 3) : script[j] = Command("write", a)
    BY <2>7, <2>8, WritePlan
  <2>10. i = Writing
    <3>1. /\ Claim.kind # "write" /\ Release.kind # "write"
          /\ Command("read", "mode").kind # "write"
          /\ \A a \in Addresses : Command("write", a).reg # "mode"
      BY <2>7, AddressNames DEF Claim, Release, Command
    <3>2. i # 1 /\ i # last /\ i # last - 2 /\ i \notin 2..(last - 3)
      BY <2>5, <2>6, <2>9, <3>1
    <3>3. QED
      BY <2>5, <2>9, <3>2 DEF Writing
  <2>11. i \in Steps /\ Reading \in 1..(i - 1) /\ 2..(last - 3) \subseteq 1..(i - 1)
    BY <2>8, <2>9, <2>10 DEF Steps, Writing, Reading
  <2>12. 1..(i - 1) \subseteq acked /\ 1..(i - 1) \subseteq executed
    BY <1>1, <2>5, <2>11 DEF KnownInv
  <2>13. regs["ccp"] = {"client"}
    BY <2>4, <2>6 DEF Permitted
  <2>14. KeptInv
    BY <1>1, <2>8, <2>13 DEF ControlInv
  <2>15. seen["mode"] = regs["mode"]
    BY <2>4, <2>10, <2>11, <2>12, <2>14 DEF KeptInv
  <2>16. "mode" \in DOMAIN regs
    BY <1>1 DEF ScriptInv, DeviceInv, Registers
  <2>17. regs'["mode"] = NewMode(call, regs["mode"])
    BY <2>4, <2>5, <2>6, <2>8, <2>10, <2>15, <2>16
  <2>18. ASSUME call.persistent, NEW a \in Addresses
         PROVE  regs[a] = {a, "client"}
    <3>1. PICK j \in 2..(last - 3) : script[j] = Command("write", a)
      BY <2>9, <2>18
    <3>2. j \in executed /\ script[j].reg = a
      BY <2>11, <2>12, <3>1 DEF Command
    <3>3. QED
      BY <2>14, <3>2 DEF KeptInv
  <2>19. QED
    BY <2>17, <2>18
<1>2. ScriptInv /\ KnownInv /\ FifoInv /\ ControlInv /\ [Next]_vars => [Update]_vars
  BY <1>1
<1> HIDE DEF Update
<1>3. [][Update]_vars => ModeUpdate
  BY DEF ModeUpdate, Update
<1>4. QED
  BY <1>2, <1>3, ScriptHolds, KnownHolds, FifoHolds, ControlHolds, PTL DEF Spec

-----------------------------------------------------------------------------
(* Attempts                                                                *)

\* The first n packets of a channel, and no others, belong to earlier commands.
Behind(channel, n) == n \in 0..Len(channel) /\ \A i \in DOMAIN channel : channel[i].id < step <=> i <= n

\* No more copies of the current command are under way than were sent; those of
\* the command before it, together with the attempts they have used up, are
\* fewer than the attempts there are.
CountInv ==
  /\ attempt \in 0..Attempts
  /\ pc # "returned" /\ result = "none" /\ ~Reorder /\ "short" \notin Faults =>
       \E d, c \in Nat :
         /\ Behind(toDevice, d) /\ Behind(toClient, c)
         /\ (Len(toDevice) - d) + (Len(toClient) - c) <= attempt
         /\ step \notin lapsed =>
              d + c + attempt <= IF pc = "send" THEN Attempts - 1 ELSE Attempts

LEMMA AttemptsType == scene \in Scenes => Attempts \in Nat \ {0}
  BY ScenesAssumption DEF AllScenes, Attempts

LEMMA InitCount == Init => CountInv
<1> SUFFICES ASSUME Init PROVE CountInv
  OBVIOUS
<1>1. Attempts \in Nat \ {0} /\ attempt = 0 /\ pc = "send" /\ toDevice = << >> /\ toClient = << >>
  BY AttemptsType DEF Init
<1>2. Behind(toDevice, 0) /\ Behind(toClient, 0) /\ Len(toDevice) = 0 /\ Len(toClient) = 0
  BY <1>1 DEF Behind
<1>3. (Len(toDevice) - 0) + (Len(toClient) - 0) <= attempt /\ 0 + 0 + attempt <= Attempts - 1
  BY <1>1, <1>2
<1>4. QED
  BY <1>1, <1>2, <1>3 DEF CountInv

\* The packets under way, as counted at a moment when the count matters.
LEMMA SendCount ==
  ASSUME ScriptInv, KnownInv, CountInv, Send
  PROVE  CountInv'
<1> DEFINE packet == [id |-> step, cmd |-> current, value |-> Value]
<1>1. /\ pc = "send" /\ pc' = "select" /\ attempt < Attempts /\ attempt' = attempt + 1
      /\ toDevice' \in {toDevice, Append(toDevice, packet)}
      /\ UNCHANGED <<scene, step, result, toClient, lapsed>>
  BY DEF Send, Transmit, historyVars
<1>2. Attempts \in Nat \ {0} /\ attempt \in Nat /\ Attempts' = Attempts /\ Faults' = Faults /\ Reorder' = Reorder
  BY <1>1, AttemptsType DEF ScriptInv, ProgressInv, CountInv, Attempts, Faults, Reorder
<1>3. packet \in KnownPackets /\ packet.id = step /\ step \in Nat
  BY <1>1, SentIsKnown, Ids
<1> HIDE DEF packet
<1>4. SUFFICES ASSUME result = "none", ~Reorder, "short" \notin Faults
               PROVE  \E d, c \in Nat :
                        /\ Behind(toDevice, d)' /\ Behind(toClient, c)'
                        /\ (Len(toDevice') - d) + (Len(toClient') - c) <= attempt'
                        /\ step \notin lapsed => d + c + attempt' <= Attempts
  BY <1>1, <1>2 DEF CountInv, Behind
<1>5. PICK d, c \in Nat :
        /\ Behind(toDevice, d) /\ Behind(toClient, c)
        /\ (Len(toDevice) - d) + (Len(toClient) - c) <= attempt
        /\ step \notin lapsed => d + c + attempt <= Attempts - 1
  BY <1>1, <1>4 DEF CountInv
<1>6. Len(toDevice) \in Nat /\ Len(toClient) \in Nat /\ DOMAIN toDevice = 1..Len(toDevice)
  BY LenProperties DEF KnownInv
<1>7. Behind(toDevice, d)' /\ Len(toDevice') \in Nat /\ Len(toDevice') <= Len(toDevice) + 1
  <2>1. CASE toDevice' = toDevice
    BY <1>1, <1>5, <1>6, <2>1 DEF Behind
  <2>2. CASE toDevice' = Append(toDevice, packet)
    <3>1. /\ toDevice' \in Seq(KnownPackets)
          /\ Len(toDevice') = Len(toDevice) + 1
          /\ \A i \in 1..Len(toDevice) : toDevice'[i] = toDevice[i]
          /\ toDevice'[Len(toDevice) + 1] = packet
      BY <1>3, <2>2, AppendProperties DEF KnownInv
    <3>2. DOMAIN toDevice' = 1..(Len(toDevice) + 1)
      BY <3>1, LenProperties
    <3>3. d \in 0..Len(toDevice) /\ \A i \in DOMAIN toDevice : toDevice[i].id < step <=> i <= d
      BY <1>5 DEF Behind
    <3>4. d \in 0..Len(toDevice') /\ ~(Len(toDevice) + 1 <= d)
      BY <1>6, <3>1, <3>3
    <3>5. ~(packet.id < step)
      BY <1>3
    <3>6. ASSUME NEW i \in DOMAIN toDevice'
          PROVE  toDevice'[i].id < step <=> i <= d
      BY <1>6, <3>1, <3>2, <3>3, <3>4, <3>5, <3>6
    <3>7. QED
      BY <1>1, <1>6, <3>1, <3>4, <3>6 DEF Behind
  <2>3. QED
    BY <1>1, <2>1, <2>2
<1>8. Behind(toClient, c)' /\ Len(toClient') = Len(toClient)
  BY <1>1, <1>5 DEF Behind
<1>9. (Len(toDevice') - d) + (Len(toClient') - c) <= attempt'
  BY <1>1, <1>2, <1>5, <1>6, <1>7, <1>8
<1>10. step \notin lapsed => d + c + attempt' <= Attempts
  BY <1>1, <1>2, <1>5
<1>11. QED
  BY <1>5, <1>7, <1>8, <1>9, <1>10

\* After an exception nothing is counted.
LEMMA ThrowCount ==
  ASSUME ScriptInv, CountInv, NEW exception \in {"denied", "error"}, Throw(exception), UNCHANGED scene
  PROVE  CountInv'
<1>1. Attempts \in Nat \ {0} /\ Attempts' = Attempts
  BY AttemptsType DEF ScriptInv, ProgressInv, Attempts
<1>2. attempt' \in {attempt, 0} /\ (pc' = "returned" \/ result' = exception)
  BY DEF Throw
<1>3. attempt' \in 0..Attempts'
  BY <1>1, <1>2 DEF CountInv
<1>4. ~(pc' # "returned" /\ result' = "none")
  BY <1>2
<1>5. QED
  BY <1>3, <1>4 DEF CountInv

\* A command whose acknowledge has come leaves fewer copies behind than there
\* were attempts.
LEMMA ProceedCount ==
  ASSUME ScriptInv, KnownInv, FifoInv, CountInv, pc # "returned", Proceed, step \in executed,
         1 \in DOMAIN toClient, toClient[1].id = step, toClient' = RemoveAt(toClient, 1),
         UNCHANGED <<scene, toDevice>>
  PROVE  CountInv'
<1>1. Attempts \in Nat \ {0} /\ attempt \in 0..Attempts /\ step \in Nat
      /\ Attempts' = Attempts /\ Faults' = Faults /\ Reorder' = Reorder
  BY AttemptsType, Ids DEF ScriptInv, ProgressInv, CountInv, Attempts, Faults, Reorder
<1>2. CASE pc' = "returned"
  BY <1>1, <1>2 DEF CountInv, Proceed
<1>3. CASE pc' # "returned"
  <2>1. pc' = "send" /\ step' = step + 1 /\ attempt' = 0 /\ UNCHANGED result
    BY <1>3 DEF Proceed
  <2>2. SUFFICES ASSUME result = "none", ~Reorder, "short" \notin Faults
                 PROVE  \E d, c \in Nat :
                          /\ Behind(toDevice, d)' /\ Behind(toClient, c)'
                          /\ (Len(toDevice') - d) + (Len(toClient') - c) <= attempt'
                          /\ d + c + attempt' <= Attempts - 1
    BY <1>1, <2>1 DEF CountInv
  <2>3. PICK d, c \in Nat :
          /\ Behind(toDevice, d) /\ Behind(toClient, c)
          /\ (Len(toDevice) - d) + (Len(toClient) - c) <= attempt
    BY <2>2 DEF CountInv
  <2>4. /\ Len(toDevice) \in Nat /\ DOMAIN toDevice = 1..Len(toDevice)
        /\ Len(toClient) \in Nat /\ DOMAIN toClient = 1..Len(toClient) /\ Len(toClient) > 0
        /\ Len(toClient') = Len(toClient) - 1 /\ DOMAIN toClient' = 1..(Len(toClient) - 1)
        /\ \A k \in 1..(Len(toClient) - 1) : toClient'[k] = toClient[k + 1]
    BY LenProperties, TakeFirst DEF KnownInv
  <2>5. d = 0
    <3>1. \A k \in DOMAIN toDevice : ~(toDevice[k].id < step)
      BY <1>1, <2>2, Ids DEF FifoInv
    <3>2. \A k \in DOMAIN toDevice : ~(k <= d)
      BY <2>3, <3>1 DEF Behind
    <3>3. QED
      BY <2>3, <2>4, <3>2 DEF Behind
  <2>6. c = 0
    <3>1. ~(1 <= c)
      BY <1>1, <2>3 DEF Behind
    <3>2. QED
      BY <3>1
  <2>7. PICK d1 \in Nat, c1 \in Nat : d1 = Len(toDevice) /\ c1 = Len(toClient) - 1
    <3>1. \A n \in Nat : n > 0 => n - 1 \in Nat
      OBVIOUS
    <3>2. Len(toClient) - 1 \in Nat
      BY <2>4, <3>1
    <3>3. QED
      BY <2>4, <3>2
  <2>8. Behind(toDevice, d1)'
    <3>1. \A k \in DOMAIN toDevice : toDevice[k].id < step + 1 /\ k <= d1
      BY <2>4, <2>7, Ids
    <3>2. d1 \in 0..Len(toDevice)
      BY <2>4, <2>7
    <3>3. QED
      BY <2>1, <3>1, <3>2 DEF Behind
  <2>9. Behind(toClient, c1)'
    <3>1. \A k \in DOMAIN toClient' : k + 1 \in DOMAIN toClient /\ k <= c1 /\ toClient'[k] = toClient[k + 1]
      BY <2>4, <2>7
    <3>2. \A k \in DOMAIN toClient : toClient[k].id < step + 1
      BY Ids
    <3>3. c1 \in 0..Len(toClient')
      BY <2>4, <2>7
    <3>4. \A k \in DOMAIN toClient' : toClient'[k].id < step' /\ k <= c1
      BY <2>1, <3>1, <3>2
    <3>5. QED
      BY <3>3, <3>4 DEF Behind
  <2>10. d1 + c1 <= Attempts - 1
    <3>1. Len(toDevice) + Len(toClient) <= attempt
      BY <2>3, <2>4, <2>5, <2>6
    <3>2. QED
      BY <1>1, <2>4, <2>7, <3>1
  <2>11. (Len(toDevice') - d1) + (Len(toClient') - c1) <= attempt' /\ d1 + c1 + attempt' <= Attempts - 1
    BY <1>1, <2>1, <2>4, <2>7, <2>10
  <2>12. QED
    BY <2>8, <2>9, <2>11
<1>4. QED
  BY <1>2, <1>3

\* A late acknowledge takes an attempt with it.
LEMMA LateCount ==
  ASSUME ScriptInv, KnownInv, CountInv, pc = "select", pc' = "send",
         1 \in DOMAIN toClient, toClient[1].id # step \/ "short" \in Faults,
         toClient' = RemoveAt(toClient, 1),
         UNCHANGED <<scene, step, attempt, result, toDevice, lapsed>>
  PROVE  CountInv'
<1>1. Attempts \in Nat \ {0} /\ attempt \in 0..Attempts /\ step \in Nat
      /\ Attempts' = Attempts /\ Faults' = Faults /\ Reorder' = Reorder
  BY AttemptsType, Ids DEF ScriptInv, ProgressInv, CountInv, Attempts, Faults, Reorder
<1>2. SUFFICES ASSUME result = "none", ~Reorder, "short" \notin Faults
               PROVE  \E d, c \in Nat :
                        /\ Behind(toDevice, d)' /\ Behind(toClient, c)'
                        /\ (Len(toDevice') - d) + (Len(toClient') - c) <= attempt'
                        /\ step \notin lapsed => d + c + attempt <= Attempts - 1
  BY <1>1 DEF CountInv
<1>3. PICK d, c \in Nat :
        /\ Behind(toDevice, d) /\ Behind(toClient, c)
        /\ (Len(toDevice) - d) + (Len(toClient) - c) <= attempt
        /\ step \notin lapsed => d + c + attempt <= Attempts
  BY <1>2 DEF CountInv
<1>4. /\ Len(toDevice) \in Nat
      /\ Len(toClient) \in Nat /\ DOMAIN toClient = 1..Len(toClient) /\ Len(toClient) > 0
      /\ Len(toClient') = Len(toClient) - 1 /\ DOMAIN toClient' = 1..(Len(toClient) - 1)
      /\ \A k \in 1..(Len(toClient) - 1) : toClient'[k] = toClient[k + 1]
  BY LenProperties, TakeFirst DEF KnownInv
<1>5. 1 <= c
  <2>1. toClient[1].id \in Nat /\ toClient[1].id <= step
    BY Ids
  <2>2. toClient[1].id < step
    BY <1>1, <1>2, <2>1
  <2>3. QED
    BY <1>3, <2>2 DEF Behind
<1>6. Behind(toClient, c - 1)'
  <2>1. c \in 0..Len(toClient) /\ \A i \in DOMAIN toClient : toClient[i].id < step <=> i <= c
    BY <1>3 DEF Behind
  <2>2. c - 1 \in 0..Len(toClient')
    BY <1>4, <1>5, <2>1
  <2>3. ASSUME NEW k \in DOMAIN toClient'
        PROVE  toClient'[k].id < step <=> k <= c - 1
    <3>1. k + 1 \in DOMAIN toClient /\ toClient'[k] = toClient[k + 1] /\ k \in Nat
      BY <1>4
    <3>2. toClient'[k].id < step <=> k + 1 <= c
      BY <2>1, <3>1
    <3>3. k + 1 <= c <=> k <= c - 1
      BY <1>3, <3>1
    <3>4. QED
      BY <3>2, <3>3
  <2>4. QED
    BY <2>2, <2>3 DEF Behind
<1>7. Behind(toDevice, d)'
  BY <1>3 DEF Behind
<1>8. c - 1 \in Nat
      /\ (Len(toDevice') - d) + (Len(toClient') - (c - 1)) <= attempt'
      /\ (step \notin lapsed => d + (c - 1) + attempt <= Attempts - 1)
  BY <1>1, <1>3, <1>4, <1>5
<1>9. QED
  BY <1>6, <1>7, <1>8

LEMMA ReceiveCount ==
  ASSUME ScriptInv, KnownInv, FifoInv, CountInv, Receive
  PROVE  CountInv'
<1>1. PICK i \in Deliverable(toClient) :
        LET p == toClient[i]
        IN  /\ toClient' = RemoveAt(toClient, i)
            /\ CASE Matches(p) /\ p.status = "ok" ->
                      /\ seen' = IF current.kind = "read"
                                   THEN [seen EXCEPT ![current.reg] = p.value] ELSE seen
                      /\ Proceed
                 [] Matches(p) /\ p.status \in {"denied", "error"} ->
                      /\ Throw(p.status)
                      /\ UNCHANGED seen
                 [] OTHER ->
                      /\ pc' = "send"
                      /\ UNCHANGED <<step, attempt, result, seen, acked>>
  BY DEF Receive
<1> DEFINE p == toClient[i]
<1>2. pc = "select" /\ UNCHANGED <<scene, toDevice, lapsed>>
  BY DEF Receive
<1>3. i \in DOMAIN toClient /\ p \in KnownAcks /\ (~Reorder => i = 1)
  BY RemoveAtType DEF Deliverable, KnownInv
<1>4. Attempts \in Nat \ {0} /\ attempt \in 0..Attempts /\ Attempts' = Attempts /\ Reorder' = Reorder
  BY <1>2, AttemptsType DEF ScriptInv, ProgressInv, CountInv, Attempts, Reorder
<1>5. CASE Reorder
  <2>1. attempt' \in {attempt, 0}
    <3>1. CASE Matches(p) /\ p.status = "ok"
      BY <1>1, <3>1 DEF Proceed
    <3>2. CASE Matches(p) /\ p.status \in {"denied", "error"}
      BY <1>1, <3>2 DEF Throw
    <3>3. CASE ~(Matches(p) /\ p.status = "ok") /\ ~(Matches(p) /\ p.status \in {"denied", "error"})
      BY <1>1, <3>3
    <3>4. QED
      BY <3>1, <3>2, <3>3
  <2>2. attempt' \in 0..Attempts'
    BY <1>4, <2>1
  <2>3. QED
    BY <1>4, <1>5, <2>2 DEF CountInv
<1>6. CASE ~Reorder /\ Matches(p) /\ p.status = "ok"
  <2>1. Proceed /\ i = 1 /\ toClient' = RemoveAt(toClient, 1)
    BY <1>1, <1>3, <1>6
  <2>2. toClient[1].id = step /\ step \in executed
    BY <1>3, <1>6 DEF KnownAcks, GoodAcks, Matches
  <2>3. QED
    BY <1>2, <1>3, <2>1, <2>2, ProceedCount
<1>7. CASE Matches(p) /\ p.status \in {"denied", "error"}
  BY <1>1, <1>2, <1>7, ThrowCount
<1>8. CASE ~Reorder /\ ~(Matches(p) /\ p.status = "ok") /\ ~(Matches(p) /\ p.status \in {"denied", "error"})
  <2>1. /\ i = 1 /\ toClient' = RemoveAt(toClient, 1)
        /\ pc' = "send" /\ UNCHANGED <<step, attempt, result>>
    BY <1>1, <1>3, <1>8
  <2>2. p.id # step \/ "short" \in Faults
    <3>1. p.ack = AckKind(script[p.id]) /\ p.status \in {"ok", "denied", "error", "short"}
          /\ (p.status = "short" => "short" \in Faults)
      BY <1>3 DEF KnownAcks, GoodAcks
    <3>2. p.id = step => Matches(p)
      BY <3>1 DEF Matches, current
    <3>3. QED
      BY <1>8, <3>1, <3>2
  <2>3. QED
    BY <1>2, <1>3, <2>1, <2>2, LateCount
<1>9. QED
  BY <1>5, <1>6, <1>7, <1>8

\* A packet changes its channel, and its place among the late ones with it.
LEMMA ExecuteCount ==
  ASSUME ScriptInv, KnownInv, FifoInv, CountInv, Execute
  PROVE  CountInv'
<1>1. PICK i \in Deliverable(toDevice), status \in {"ok", "short", "denied", "error"} :
        LET p == toDevice[i]
        IN  /\ i \in DOMAIN toDevice /\ p \in KnownPackets
            /\ toDevice' = RemoveAt(toDevice, i)
            /\ toClient' \in {toClient, Append(toClient, Reply(p, status))}
            /\ status = "ok" => p.id \in executed'
            /\ status = "short" => "short" \in Faults
  BY ExecuteEffect
<1> DEFINE p == toDevice[i]
           reply == Reply(p, status)
<1>2. UNCHANGED <<scene, step, attempt, pc, result, lapsed, seen>>
  BY DEF Execute, clientVars, historyVars
<1>3. Attempts \in Nat \ {0} /\ attempt \in 0..Attempts /\ step \in Nat
      /\ Attempts' = Attempts /\ Faults' = Faults /\ Reorder' = Reorder
  BY <1>2, AttemptsType, Ids DEF ScriptInv, ProgressInv, CountInv, Attempts, Faults, Reorder
<1>4. reply.id = p.id /\ reply \in KnownAcks' /\ KnownAcks \subseteq KnownAcks'
  <2>1. reply \in KnownAcks'
    BY <1>1, ReplyIsKnown
  <2>2. KnownAcks \subseteq KnownAcks'
    BY <1>2, KnownStays DEF Next
  <2>3. QED
    BY <2>1, <2>2 DEF Reply
<1> HIDE DEF reply
<1>5. SUFFICES ASSUME pc # "returned", result = "none", ~Reorder, "short" \notin Faults
               PROVE  \E d, c \in Nat :
                        /\ Behind(toDevice, d)' /\ Behind(toClient, c)'
                        /\ (Len(toDevice') - d) + (Len(toClient') - c) <= attempt'
                        /\ step \notin lapsed =>
                             d + c + attempt <= IF pc = "send" THEN Attempts - 1 ELSE Attempts
  BY <1>2, <1>3 DEF CountInv
<1>6. PICK d, c \in Nat :
        /\ Behind(toDevice, d) /\ Behind(toClient, c)
        /\ (Len(toDevice) - d) + (Len(toClient) - c) <= attempt
        /\ step \notin lapsed => d + c + attempt <= IF pc = "send" THEN Attempts - 1 ELSE Attempts
  BY <1>5 DEF CountInv
<1>7. i = 1 /\ p.id \in Nat /\ p.id <= step
  BY <1>1, <1>5, Ids DEF Deliverable
<1>8. /\ Len(toDevice) \in Nat /\ DOMAIN toDevice = 1..Len(toDevice) /\ Len(toDevice) > 0
      /\ Len(toDevice') = Len(toDevice) - 1 /\ DOMAIN toDevice' = 1..(Len(toDevice) - 1)
      /\ \A k \in 1..(Len(toDevice) - 1) : toDevice'[k] = toDevice[k + 1]
  BY <1>1, <1>7, TakeFirst DEF KnownInv
<1>9. Len(toClient) \in Nat /\ DOMAIN toClient = 1..Len(toClient)
  BY LenProperties DEF KnownInv
<1>10. d \in 0..Len(toDevice) /\ \A k \in DOMAIN toDevice : toDevice[k].id < step <=> k <= d
  BY <1>6 DEF Behind
<1>11. c \in 0..Len(toClient) /\ \A k \in DOMAIN toClient : toClient[k].id < step <=> k <= c
  BY <1>6 DEF Behind
<1> DEFINE n == IF p.id < step THEN 1 ELSE 0
<1>12. n \in {0, 1} /\ (p.id < step <=> n = 1)
  OBVIOUS
<1>13. n <= d /\ (n = 0 => d = 0)
  BY <1>1, <1>7, <1>8, <1>10
<1>14. PICK d1 \in Nat : d1 = d - n
  BY <1>12, <1>13
<1> HIDE DEF n
<1>15. Behind(toDevice, d1)'
  <2>1. d1 \in 0..Len(toDevice')
    <3>1. CASE n = 1
      BY <1>8, <1>10, <1>13, <1>14, <3>1
    <3>2. CASE n = 0
      BY <1>8, <1>13, <1>14, <3>2
    <3>3. QED
      BY <1>12, <3>1, <3>2
  <2>2. ASSUME NEW k \in DOMAIN toDevice'
        PROVE  toDevice'[k].id < step <=> k <= d1
    <3>1. k \in Nat /\ k >= 1 /\ k + 1 \in DOMAIN toDevice /\ toDevice'[k] = toDevice[k + 1]
      BY <1>8
    <3>2. toDevice'[k].id < step <=> k + 1 <= d
      BY <1>10, <3>1
    <3>3. k + 1 <= d <=> k <= d1
      BY <1>12, <1>13, <1>14, <3>1
    <3>4. QED
      BY <3>2, <3>3
  <2>3. QED
    BY <1>2, <2>1, <2>2 DEF Behind
<1>16. CASE toClient' = toClient
  <2>1. Behind(toClient, c)'
    BY <1>2, <1>6, <1>16 DEF Behind
  <2>2. (Len(toDevice') - d1) + (Len(toClient') - c) <= attempt'
    BY <1>2, <1>3, <1>6, <1>8, <1>9, <1>12, <1>14, <1>16
  <2>3. step \notin lapsed => d1 + c + attempt <= IF pc = "send" THEN Attempts - 1 ELSE Attempts
    <3>1. d1 <= d
      BY <1>12, <1>14
    <3>2. QED
      BY <1>3, <1>6, <3>1
  <2>4. QED
    BY <1>15, <2>1, <2>2, <2>3
<1>17. CASE toClient' = Append(toClient, reply)
  <2>1. PICK c1 \in Nat : c1 = c + n
    BY <1>12
  <2>2. /\ Len(toClient') = Len(toClient) + 1 /\ DOMAIN toClient' = 1..(Len(toClient) + 1)
        /\ \A k \in 1..Len(toClient) : toClient'[k] = toClient[k]
        /\ toClient'[Len(toClient) + 1] = reply
    <3>1. toClient \in Seq(KnownAcks')
      BY <1>4, SeqMonotonic DEF KnownInv
    <3>2. /\ toClient' \in Seq(KnownAcks') /\ Len(toClient') = Len(toClient) + 1
          /\ \A k \in 1..Len(toClient) : toClient'[k] = toClient[k]
          /\ toClient'[Len(toClient) + 1] = reply
      BY <1>4, <1>17, <3>1, AppendProperties
    <3>3. QED
      BY <3>2, LenProperties
  <2>3. PICK m \in Nat : m = Len(toClient)
    BY <1>9
  <2>4. n = 1 => c = Len(toClient)
    <3>1. SUFFICES ASSUME n = 1, c # Len(toClient) PROVE FALSE
      OBVIOUS
    <3>2. Len(toClient) \in DOMAIN toClient /\ ~(Len(toClient) <= c)
      <4>1. c \in 0..m /\ c # m
        BY <1>11, <2>3, <3>1
      <4>2. m \in 1..m /\ ~(m <= c)
        BY <4>1
      <4>3. QED
        BY <1>9, <2>3, <4>2
    <3>3. ~(toClient[Len(toClient)].id < step)
      BY <1>11, <3>2
    <3>4. toClient[Len(toClient)].id <= p.id
      BY <1>1, <1>5, <1>7, <3>2 DEF FifoInv
    <3>5. toClient[Len(toClient)].id \in Nat
      BY <3>2, Ids
    <3>6. QED
      BY <1>3, <1>7, <1>12, <3>1, <3>3, <3>4, <3>5
  <2>5. Behind(toClient, c1)'
    <3>1. c1 \in 0..Len(toClient')
      BY <1>9, <1>11, <1>12, <2>1, <2>2
    <3>2. ASSUME NEW k \in DOMAIN toClient'
          PROVE  toClient'[k].id < step <=> k <= c1
      <4>1. CASE k = Len(toClient) + 1
        <5>1. toClient'[k].id = p.id
          BY <1>4, <2>2, <4>1
        <5>2. k <= c1 <=> n = 1
          <6>1. k = m + 1 /\ c \in 0..m /\ c1 = c + n /\ n \in {0, 1} /\ (n = 1 => c = m)
            BY <1>11, <1>12, <2>1, <2>3, <2>4, <4>1
          <6>2. QED
            BY <6>1
        <5>3. QED
          BY <1>12, <5>1, <5>2
      <4>2. CASE k \in 1..Len(toClient)
        <5>1. toClient'[k].id < step <=> k <= c
          BY <1>9, <1>11, <2>2, <4>2
        <5>2. k <= c <=> k <= c1
          <6>1. k \in 1..m /\ c1 = c + n /\ n \in {0, 1} /\ (n = 1 => c = m)
            BY <1>12, <2>1, <2>3, <2>4, <4>2
          <6>2. QED
            BY <6>1
        <5>3. QED
          BY <5>1, <5>2
      <4>3. QED
        BY <1>9, <2>2, <4>1, <4>2
    <3>3. QED
      BY <1>2, <3>1, <3>2 DEF Behind
  <2>6. (Len(toDevice') - d1) + (Len(toClient') - c1) <= attempt'
    BY <1>2, <1>3, <1>6, <1>8, <1>9, <1>12, <1>14, <2>1, <2>2
  <2>7. d1 + c1 = d + c
    BY <1>12, <1>14, <2>1
  <2>8. step \notin lapsed => d1 + c1 + attempt <= IF pc = "send" THEN Attempts - 1 ELSE Attempts
    BY <1>6, <2>7
  <2>9. QED
    BY <1>15, <2>5, <2>6, <2>8
<1>18. QED
  BY <1>1, <1>16, <1>17 DEF reply

LEMMA CountStep ==
  ASSUME ScriptInv, KnownInv, FifoInv, CountInv, [Next]_vars
  PROVE  CountInv'
<1>1. UNCHANGED scene
  BY Forward
<1>2. Attempts' = Attempts /\ Faults' = Faults /\ Reorder' = Reorder
  BY <1>1 DEF Attempts, Faults, Reorder
<1>3. CASE SendFails \/ GiveUp
  BY <1>1, <1>3, ThrowCount DEF SendFails, GiveUp
<1>4. CASE Lapse
  <2>1. /\ UNCHANGED <<attempt, step, result, toDevice, toClient>>
        /\ pc = "select" /\ step' \in lapsed'
    BY <1>4 DEF Lapse
  <2>2. \A n : (Behind(toDevice, n) => Behind(toDevice', n)) /\ (Behind(toClient, n) => Behind(toClient', n))
    BY <2>1
  <2>3. QED
    BY <1>2, <2>1 DEF CountInv, Behind
<1>5. CASE Expire \/ RivalClaims \/ RivalWrites \/ UNCHANGED vars
  <2>1. UNCHANGED <<attempt, pc, step, result, toDevice, toClient, lapsed>>
    BY <1>5 DEF Expire, RivalClaims, RivalWrites, vars, clientVars, historyVars
  <2>2. QED
    BY <1>2, <2>1 DEF CountInv, Behind
<1>6. QED
  BY <1>3, <1>4, <1>5, SendCount, ReceiveCount, ExecuteCount DEF Next, ClientStep

LEMMA CountHolds == Spec => []CountInv
<1>1. CountInv /\ FifoInv /\ KnownInv /\ ScriptInv /\ [Next]_vars => CountInv'
  BY CountStep
<1>2. QED
  BY <1>1, InitCount, ScriptHolds, KnownHolds, FifoHolds, PTL DEF Spec

\* A command is given up only if it has run into a timeout: late acknowledges of
\* the command before it never use up all attempts, unless packets overtake each
\* other or are too short, or the command is the release after one that failed.
THEOREM GivenUpForAReason == Spec => []NoSpuriousGiveUp
<1>1. Init => NoSpuriousGiveUp
  BY DEF Init, NoSpuriousGiveUp
<1>2. ASSUME ScriptInv, CountInv, NoSpuriousGiveUp, [Next]_vars
      PROVE  NoSpuriousGiveUp'
  <2>1. UNCHANGED scene
    BY <1>2, Forward
  <2>2. UNCHANGED <<call, last, Reorder, Faults, Attempts>>
    BY <2>1, SameScript DEF Reorder, Faults, Attempts
  <2>3. lapsed \subseteq lapsed' /\ (result # "none" => result' # "none")
    <3>1. CASE ClientStep \/ Execute
      BY <3>1 DEF ClientStep, Execute, Send, SendFails, GiveUp, Lapse, Receive, Proceed, Throw, clientVars,
                  historyVars
    <3>2. CASE Expire \/ RivalClaims \/ RivalWrites \/ UNCHANGED vars
      BY <3>2 DEF Expire, RivalClaims, RivalWrites, vars, clientVars, historyVars
    <3>3. QED
      BY <1>2, <3>1, <3>2 DEF Next
  <2>4. CASE GiveUp
    <3>1. /\ pc = "send" /\ attempt = Attempts /\ gaveUp' = gaveUp \union {step}
          /\ UNCHANGED lapsed /\ Throw("error")
      BY <2>4 DEF GiveUp
    <3>2. CASE result # "none"
      <4>1. step \notin Steps /\ step \in 1..last /\ last \in Nat
        BY <1>2, <3>1, <3>2, ScriptType DEF ScriptInv, ProgressInv
      <4>2. call.op = "write" /\ step = last
        BY <4>1 DEF Steps
      <4>3. QED
        BY <1>2, <2>2, <2>3, <3>1, <3>2, <4>2 DEF NoSpuriousGiveUp
    <3>3. CASE result = "none"
      <4>1. Reorder \/ "short" \in Faults \/ step \in lapsed
        <5>1. SUFFICES ASSUME ~Reorder, "short" \notin Faults, step \notin lapsed
                       PROVE  FALSE
          OBVIOUS
        <5>2. PICK d, c \in Nat : d + c + attempt <= Attempts - 1
          BY <1>2, <3>1, <3>3, <5>1 DEF CountInv
        <5>3. Attempts \in Nat
          BY <1>2, AttemptsType DEF ScriptInv, ProgressInv
        <5>4. QED
          BY <3>1, <5>2, <5>3
      <4>2. QED
        BY <1>2, <2>2, <2>3, <3>1, <4>1 DEF NoSpuriousGiveUp
    <3>4. QED
      BY <3>2, <3>3
  <2>5. CASE ~GiveUp
    <3>1. UNCHANGED gaveUp
      BY <1>2, <2>5 DEF Next, ClientStep, Execute, Send, SendFails, Lapse, Receive, Expire, RivalClaims,
                        RivalWrites, vars, clientVars, historyVars
    <3>2. QED
      BY <1>2, <2>2, <2>3, <3>1 DEF NoSpuriousGiveUp
  <2>6. QED
    BY <2>4, <2>5
<1>3. NoSpuriousGiveUp /\ CountInv /\ ScriptInv /\ [Next]_vars => NoSpuriousGiveUp'
  BY <1>2
<1>4. QED
  BY <1>1, <1>3, ScriptHolds, CountHolds, PTL DEF Spec


-----------------------------------------------------------------------------
(* Types                                                                   *)

\* The channels, the history of timeouts, and that registers are functions.
TypesInv ==
  /\ toDevice \in Seq(Packets) /\ toClient \in Seq(Acks)
  /\ lapsed \subseteq 1..last /\ gaveUp \subseteq 1..last
  /\ seen = [r \in DOMAIN seen |-> seen[r]] /\ regs = [r \in DOMAIN regs |-> regs[r]]

\* What a register may contain is a content.
LEMMA GoodIsContent ==
  ASSUME NEW r \in Registers, NEW v \in Good(r)
  PROVE  v \in Contents
<1>1. CASE r = "mode"
  BY <1>1 DEF Good, Contents
<1>2. CASE r = "ccp"
  BY <1>2 DEF Good, Contents, Clients
<1>3. CASE r \notin {"mode", "ccp"}
  <2>1. r \in Addresses
    BY <1>3 DEF Registers
  <2>2. PICK w \in Writers : v = {r, w}
    BY <1>3 DEF Good
  <2>3. QED
    BY <2>1, <2>2 DEF Contents
<1>4. QED
  BY <1>1, <1>2, <1>3

LEMMA NothingIsContent == {} \in Contents
BY DEF Contents

\* The command of a packet and what the device answers to it.
LEMMA PacketTyped ==
  ASSUME ScriptInv
  PROVE  [id |-> step, cmd |-> current, value |-> Value] \in Packets
<1>1. step \in Nat
  BY ScriptType DEF ScriptInv, ProgressInv
<1>2. /\ current \in Commands
      /\ current.kind # "read" => Value \in Good(current.reg)
  BY ValueIsGood DEF ScriptInv
<1>3. current.reg \in Registers
  BY <1>2 DEF Commands, Claim, Release, Registers
<1>4. current.kind = "read" => Value = {}
  BY DEF Value
<1>5. Value \in Contents
  BY <1>2, <1>3, <1>4, GoodIsContent, NothingIsContent
<1>6. QED
  BY <1>1, <1>2, <1>5 DEF Packets

LEMMA ReplyTyped ==
  ASSUME ScriptInv, NEW p \in Packets, NEW status \in {"ok", "short", "denied", "error"}
  PROVE  Reply(p, status) \in Acks
<1>1. p.cmd.reg \in Registers /\ p.id \in Nat
  BY DEF Packets, Commands, Claim, Release, Registers
<1>2. regs[p.cmd.reg] \in Contents
  BY <1>1, GoodIsContent DEF ScriptInv, DeviceInv
<1>3. AckKind(p.cmd) \in {"READREG_ACK", "WRITEREG_ACK"}
  BY DEF AckKind
<1>4. QED
  BY <1>1, <1>2, <1>3, NothingIsContent DEF Reply, Acks

LEMMA SameTypes ==
  ASSUME UNCHANGED scene
  PROVE  Packets' = Packets /\ Acks' = Acks /\ last' = last
<1>1. UNCHANGED <<Commands, Addresses, last>>
  BY SameScript
<1>2. Contents' = Contents
  BY <1>1 DEF Contents
<1>3. QED
  BY <1>1, <1>2 DEF Packets, Acks

LEMMA TypesStep ==
  ASSUME ScriptInv, KnownInv, TypesInv, [Next]_vars
  PROVE  TypesInv'
<1>1. UNCHANGED scene
  BY Forward
<1>2. Packets' = Packets /\ Acks' = Acks /\ last' = last
  BY <1>1, SameTypes
<1>3. step \in 1..last
  BY DEF ScriptInv, ProgressInv
<1>4. seen' = [r \in DOMAIN seen' |-> seen'[r]] /\ regs' = [r \in DOMAIN regs' |-> regs'[r]]
  <2>1. CASE Receive
    <3>1. UNCHANGED regs /\ (UNCHANGED seen \/ \E v : seen' = [seen EXCEPT ![current.reg] = v])
      BY <2>1 DEF Receive
    <3>2. QED
      BY <3>1 DEF TypesInv
  <2>2. CASE Execute
    <3>1. UNCHANGED seen /\ (UNCHANGED regs \/ \E r, v : regs' = [regs EXCEPT ![r] = v])
      BY <2>2 DEF Execute, clientVars
    <3>2. QED
      BY <3>1 DEF TypesInv
  <2>3. CASE Expire \/ RivalClaims \/ RivalWrites
    <3>1. UNCHANGED seen /\ \E r, v : regs' = [regs EXCEPT ![r] = v]
      BY <2>3 DEF Expire, RivalClaims, RivalWrites, clientVars
    <3>2. QED
      BY <3>1 DEF TypesInv
  <2>4. CASE Send \/ SendFails \/ GiveUp \/ Lapse \/ UNCHANGED vars
    <3>1. UNCHANGED <<seen, regs>>
      BY <2>4 DEF Send, SendFails, GiveUp, Lapse, vars
    <3>2. QED
      BY <3>1 DEF TypesInv
  <2>5. QED
    BY <2>1, <2>2, <2>3, <2>4 DEF Next, ClientStep
<1>5. CASE Send
  <2>1. PICK packet : packet = [id |-> step, cmd |-> current, value |-> Value]
    OBVIOUS
  <2>2. toDevice' \in {toDevice, Append(toDevice, packet)} /\ UNCHANGED <<toClient, lapsed, gaveUp>>
    BY <1>5, <2>1 DEF Send, Transmit, historyVars
  <2>3. packet \in Packets
    BY <2>1, PacketTyped
  <2>4. toDevice' \in Seq(Packets)
    BY <2>2, <2>3, AppendProperties DEF TypesInv
  <2>5. QED
    BY <1>2, <1>4, <2>2, <2>4 DEF TypesInv
<1>6. CASE SendFails \/ GiveUp \/ Lapse
  <2>1. /\ UNCHANGED <<toDevice, toClient>>
        /\ lapsed' \subseteq lapsed \union {step} /\ gaveUp' \subseteq gaveUp \union {step}
    BY <1>6 DEF SendFails, GiveUp, Lapse
  <2>2. QED
    BY <1>2, <1>3, <1>4, <2>1 DEF TypesInv
<1>7. CASE Receive
  <2>1. PICK i \in Deliverable(toClient) : toClient' = RemoveAt(toClient, i)
    BY <1>7 DEF Receive
  <2>2. i \in DOMAIN toClient
    BY DEF Deliverable
  <2>3. toClient' \in Seq(Acks)
    BY <2>1, <2>2, RemoveAtType DEF TypesInv
  <2>4. UNCHANGED <<toDevice, lapsed, gaveUp>>
    BY <1>7 DEF Receive
  <2>5. QED
    BY <1>2, <1>4, <2>3, <2>4 DEF TypesInv
<1>8. CASE Execute
  <2>1. PICK i \in Deliverable(toDevice), status \in {"ok", "short", "denied", "error"} :
          /\ i \in DOMAIN toDevice
          /\ toDevice' = RemoveAt(toDevice, i)
          /\ toClient' \in {toClient, Append(toClient, Reply(toDevice[i], status))}
    BY <1>8, ExecuteEffect
  <2>2. toDevice[i] \in Packets /\ toDevice' \in Seq(Packets)
    BY <2>1, RemoveAtType DEF TypesInv
  <2>3. Reply(toDevice[i], status) \in Acks
    BY <2>2, ReplyTyped
  <2>4. toClient' \in Seq(Acks)
    BY <2>1, <2>3, AppendProperties DEF TypesInv
  <2>5. UNCHANGED <<lapsed, gaveUp>>
    BY <1>8 DEF Execute, historyVars
  <2>6. QED
    BY <1>2, <1>4, <2>2, <2>4, <2>5 DEF TypesInv
<1>9. CASE Expire \/ RivalClaims \/ RivalWrites \/ UNCHANGED vars
  <2>1. UNCHANGED <<toDevice, toClient, lapsed, gaveUp>>
    BY <1>9 DEF Expire, RivalClaims, RivalWrites, vars, clientVars, historyVars
  <2>2. QED
    BY <1>2, <1>4, <2>1 DEF TypesInv
<1>10. QED
  BY <1>5, <1>6, <1>7, <1>8, <1>9 DEF Next, ClientStep

\* Client, channels, device and history have their types for every scene.
THEOREM TypeCorrect == Spec => []TypeOK
<1>1. ASSUME Init
      PROVE  TypesInv
  <2>1. seen = [r \in DOMAIN seen |-> seen[r]]
    BY <1>1 DEF Init
  <2>2. PICK owner : regs = [r \in Registers |-> CASE r \in Addresses -> {r, "factory"}
                                                  [] r = "mode" -> Bits
                                                  [] r = "ccp" -> owner]
    BY <1>1 DEF Init
  <2>3. regs = [r \in DOMAIN regs |-> regs[r]]
    <3> DEFINE content(r) == CASE r \in Addresses -> {r, "factory"}
                               [] r = "mode" -> Bits
                               [] r = "ccp" -> owner
    <3>1. regs = [r \in Registers |-> content(r)]
      BY <2>2
    <3> HIDE DEF content
    <3>2. QED
      BY <3>1
  <2>4. toDevice = << >> /\ toClient = << >> /\ lapsed = {} /\ gaveUp = {}
    BY <1>1 DEF Init
  <2>5. QED
    BY <2>1, <2>3, <2>4 DEF TypesInv
<1>2. TypesInv /\ KnownInv /\ ScriptInv /\ [Next]_vars => TypesInv'
  BY TypesStep
<1>3. ASSUME ScriptInv, KnownInv, CountInv, TypesInv
      PROVE  TypeOK
  <2>1. scene \in AllScenes /\ last \in Nat
    BY <1>3, ScenesAssumption, ScriptType DEF ScriptInv, ProgressInv
  <2>2. seen \in [Registers -> Contents]
    <3>1. \A r \in Registers : seen[r] \in Contents
      BY <1>3, GoodIsContent, NothingIsContent DEF ScriptInv, SeenInv
    <3>2. QED
      BY <1>3, <3>1 DEF ScriptInv, SeenInv, TypesInv
  <2>3. regs \in [Registers -> Contents]
    <3>1. \A r \in Registers : regs[r] \in Contents
      BY <1>3, GoodIsContent DEF ScriptInv, DeviceInv
    <3>2. QED
      BY <1>3, <3>1 DEF ScriptInv, DeviceInv, TypesInv
  <2>4. executed \subseteq 1..last /\ acked \subseteq 1..last
    <3>1. \A k \in 1..step : k \in 1..last
      BY <1>3, <2>1 DEF ScriptInv, ProgressInv
    <3>2. QED
      BY <1>3, <3>1 DEF KnownInv
  <2>5. /\ \A i \in DOMAIN toDevice : toDevice[i] \in Packets
        /\ \A i \in DOMAIN toClient : toClient[i] \in Acks
    BY <1>3, RemoveAtType DEF TypesInv
  <2>6. QED
    BY <1>3, <2>1, <2>2, <2>3, <2>4, <2>5 DEF TypeOK, ScriptInv, ProgressInv, CountInv, TypesInv
<1>4. QED
  BY <1>1, <1>2, <1>3, ScriptHolds, KnownHolds, CountHolds, PTL DEF Spec

=============================================================================
