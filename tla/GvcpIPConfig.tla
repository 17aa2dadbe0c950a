---------------------------- MODULE GvcpIPConfig ----------------------------
(***************************************************************************)
(* rcdiscover::GvcpIPConfig: readConfig and writeConfig, each a script of  *)
(* register commands to one device.  Every command goes out up to three    *)
(* times and is acknowledged over UDP.  The device and a rival client of   *)
(* the same device are external.  Request numbers are drawn once for each  *)
(* command and differ (RequestCounter), so that the name of a command      *)
(* stands for its number.                                                  *)
(***************************************************************************)
EXTENDS Naturals, Sequences, SequencesExt

CONSTANT
  Scenes  \* what to consider, a set of records:
          \*   call       the call (see AllCalls)
          \*   order      the address registers in the order they are accessed;
          \*              <<"ip", "subnet", "gateway">> in the code
          \*   attempts   how often a command is sent, 3 in the code
          \*   faults     what the device may answer for no reason
          \*   reorder    TRUE if the network may overtake
          \*   contended  TRUE if control may expire or be taken by a rival

AllCalls == [op : {"read", "write"}, persistent : BOOLEAN, dhcp : BOOLEAN]

AllScenes ==
  [call : AllCalls, order : Seq({"ip", "subnet", "gateway"}), attempts : Nat \ {0},
   faults : SUBSET {"error", "short"}, reorder : BOOLEAN, contended : BOOLEAN]

ASSUME ScenesAssumption == Scenes \subseteq AllScenes

VARIABLES
  scene,     \* the call under way and its circumstances
  step,      \* the command of its script that is under way
  attempt,   \* how often that command has been sent
  pc,        \* the client: about to send, in select, or returned
  result,    \* the exception it returns with, "none" for none
  seen,      \* what it has read from the registers
  toDevice,  \* command packets on their way
  toClient,  \* acknowledge packets on their way
  regs,      \* registers of the device
  executed,  \* history: the steps whose command had its effect on the device
  acked,     \* history: the steps that were acknowledged without an error
  lapsed,    \* history: the steps with an attempt that ran into the timeout
  gaveUp     \* history: the steps given up for lack of a response

clientVars == <<step, attempt, pc, result, seen>>
historyVars == <<acked, lapsed, gaveUp>>
vars == <<scene, step, attempt, pc, result, seen, toDevice, toClient, regs,
          executed, acked, lapsed, gaveUp>>

call == scene.call
AddressOrder == scene.order
Attempts == scene.attempts
Faults == scene.faults
Reorder == scene.reorder
Contended == scene.contended

-----------------------------------------------------------------------------
(* Registers and scripts                                                   *)

Addresses == Range(AddressOrder)
Registers == Addresses \union {"mode", "ccp"}

\* The content of an address register is its name and who wrote it, the
\* content of the mode register its set of bits ("vendor" for all others), and
\* that of the control privilege the client that holds it.
Writers == {"factory", "client", "rival"}
OwnBits == {"persistent", "dhcp", "lla"}
Bits == OwnBits \union {"vendor"}
Clients == {"client", "rival"}
Contents == (SUBSET Bits) \union {{a, w} : a \in Addresses, w \in Writers}
            \union {{c} : c \in Clients}

\* A command reads or writes one register.
Command(kind, reg) == [kind |-> kind, reg |-> reg]
Claim == [kind |-> "claim", reg |-> "ccp"]
Release == [kind |-> "release", reg |-> "ccp"]
Commands == [kind : {"read", "write"}, reg : Registers \ {"ccp"}] \union {Claim, Release}

ForAddresses(kind) == [i \in DOMAIN AddressOrder |-> Command(kind, AddressOrder[i])]

\* Mutation of WriteScript: the mode is written first.
WriteScriptModeFirst(persistent) ==
  <<Claim, Command("read", "mode"), Command("write", "mode")>>
    \o (IF persistent THEN ForAddresses("write") ELSE << >>)
    \o <<Release>>

WriteScript(persistent) ==
  <<Claim>> \o (IF persistent THEN ForAddresses("write") ELSE << >>)
            \o <<Command("read", "mode"), Command("write", "mode"), Release>>

ReadScript == <<Command("read", "mode")>> \o ForAddresses("read")

Script(c) == IF c.op = "read" THEN ReadScript ELSE WriteScript(c.persistent)

\* READREG and WRITEREG commands have an acknowledge of their own.
AckKind(c) == IF c.kind = "read" THEN "READREG_ACK" ELSE "WRITEREG_ACK"

\* The bits the caller wants; link-local addressing is always on.
WantedBits(c) ==
  {b \in {"persistent"} : c.persistent} \union {b \in {"dhcp"} : c.dhcp} \union {"lla"}

NewMode(c, bits) == (bits \ OwnBits) \union WantedBits(c)

script == Script(call)
current == script[step]
last == Len(script)

Init ==
  /\ scene \in Scenes
  /\ step = 1
  /\ attempt = 0
  /\ pc = "send"
  /\ result = "none"
  /\ seen = [r \in Registers |-> {}]
  /\ toDevice = << >>
  /\ toClient = << >>
  /\ \E owner \in {{}, {"rival"}} :
       regs = [r \in Registers |-> CASE r \in Addresses -> {r, "factory"}
                                     [] r = "mode" -> Bits
                                     [] r = "ccp" -> owner]
  /\ executed = {}
  /\ acked = {}
  /\ lapsed = {}
  /\ gaveUp = {}

-----------------------------------------------------------------------------
(* The client: the script around sendAndReceive                            *)

\* The command has succeeded: on to the next one, or return.
Proceed ==
  /\ acked' = acked \union {step}
  /\ IF step = last
       THEN pc' = "returned" /\ UNCHANGED <<step, attempt>>
       ELSE pc' = "send" /\ step' = step + 1 /\ attempt' = 0
  /\ UNCHANGED result

\* Mutations of Throw: no handler that releases; the exception is swallowed.
ThrowThrough(exception) ==
  /\ pc' = "returned"
  /\ result' = exception
  /\ UNCHANGED <<step, attempt, acked>>

Swallow(exception) ==
  /\ IF step = last
       THEN pc' = "returned" /\ UNCHANGED <<step, attempt>>
       ELSE pc' = "send" /\ step' = step + 1 /\ attempt' = 0
  /\ UNCHANGED <<result, acked>>

\* An exception leaves sendAndReceive.  After the claim, writeConfig goes on
\* with the release and throws again; the release itself is best effort.
Throw(exception) ==
  /\ IF call.op = "write" /\ step > 1
       THEN IF step = last
              THEN pc' = "returned" /\ UNCHANGED <<step, attempt, result>>
              ELSE pc' = "send" /\ step' = last /\ attempt' = 0 /\ result' = exception
       ELSE pc' = "returned" /\ result' = exception /\ UNCHANGED <<step, attempt>>
  /\ UNCHANGED acked

\* The value a write command carries.
Value ==
  CASE current.kind = "claim" -> {"client"}
    [] current.kind = "write" /\ current.reg = "mode" -> NewMode(call, seen["mode"])
    [] current.kind = "write" /\ current.reg # "mode" -> {current.reg, "client"}
    [] OTHER -> {}

\* The network (external).  It delivers in order unless it may overtake.
Deliverable(channel) == IF Reorder THEN DOMAIN channel ELSE DOMAIN channel \intersect {1}

\* A packet is lost or joins those under way; it may then be delayed at will.
Transmit(channel, packet, after) == after \in {channel, Append(channel, packet)}

Send ==
  /\ pc = "send"
  /\ attempt < Attempts
  /\ attempt' = attempt + 1
  /\ Transmit(toDevice, [id |-> step, cmd |-> current, value |-> Value], toDevice')
  /\ pc' = "select"
  /\ UNCHANGED <<scene, step, result, seen, toClient, regs, executed, historyVars>>

\* send throws a SocketException.
SendFails ==
  /\ pc = "send"
  /\ attempt < Attempts
  /\ Throw("error")
  /\ UNCHANGED <<scene, seen, toDevice, toClient, regs, executed, lapsed, gaveUp>>

\* Mutation of GiveUp: one attempt too early.
GiveUpEarly ==
  /\ pc = "send"
  /\ attempt >= Attempts - 1
  /\ Throw("error")
  /\ gaveUp' = gaveUp \union {step}
  /\ UNCHANGED <<scene, seen, toDevice, toClient, regs, executed, lapsed>>

\* The attempts are used up.
GiveUp ==
  /\ pc = "send"
  /\ attempt = Attempts
  /\ Throw("error")
  /\ gaveUp' = gaveUp \union {step}
  /\ UNCHANGED <<scene, seen, toDevice, toClient, regs, executed, lapsed>>

\* Mutation of Lapse: select is called again and nothing is sent or counted.
LapseAndSelect ==
  /\ pc = "select"
  /\ lapsed' = lapsed \union {step}
  /\ UNCHANGED <<scene, step, attempt, pc, result, seen, toDevice, toClient, regs, executed,
                 acked, gaveUp>>

\* select runs into its timeout.
Lapse ==
  /\ pc = "select"
  /\ pc' = "send"
  /\ lapsed' = lapsed \union {step}
  /\ UNCHANGED <<scene, step, attempt, result, seen, toDevice, toClient, regs, executed,
                 acked, gaveUp>>

\* Mutation of Matches: the number is not compared.
MatchesKind(p) == p.ack = AckKind(current)

\* An attempt takes at most one packet.  Only the acknowledge of the current
\* command counts; any other uses up the attempt.
Matches(p) == p.ack = AckKind(current) /\ p.id = step

Receive ==
  /\ pc = "select"
  /\ \E i \in Deliverable(toClient) :
       LET p == toClient[i]
       IN  /\ toClient' = RemoveAt(toClient, i)
           /\ CASE Matches(p) /\ p.status = "ok" ->
                     /\ seen' = IF current.kind = "read"
                                  THEN [seen EXCEPT ![current.reg] = p.value] ELSE seen
                     /\ Proceed
                [] Matches(p) /\ p.status \in {"denied", "error"} ->
                     /\ Throw(p.status)
                     /\ UNCHANGED seen
                [] OTHER ->
                     /\ pc' = "send"
                     /\ UNCHANGED <<step, attempt, result, seen, acked>>
  /\ UNCHANGED <<scene, toDevice, regs, executed, lapsed, gaveUp>>

-----------------------------------------------------------------------------
(* The device and the rival (external)                                     *)

\* Control access: a client may claim it while nobody else holds it, and only
\* its holder may write the other registers.
Permitted(cmd) ==
  CASE cmd.kind = "read" -> TRUE
    [] cmd.kind = "write" -> regs["ccp"] = {"client"}
    [] OTHER -> regs["ccp"] # {"rival"}

Reply(p, status) ==
  [id |-> p.id, ack |-> AckKind(p.cmd), status |-> status,
   value |-> IF p.cmd.kind = "read" /\ status = "ok" THEN regs[p.cmd.reg] ELSE {}]

\* The device takes a command: it executes it and acknowledges it (perhaps
\* with a packet that is too short), denies it, or reports another error.
Execute ==
  /\ \E i \in Deliverable(toDevice) :
       LET p == toDevice[i]
       IN  /\ toDevice' = RemoveAt(toDevice, i)
           /\ \/ /\ Permitted(p.cmd)
                 /\ regs' = IF p.cmd.kind = "read" THEN regs
                            ELSE [regs EXCEPT ![p.cmd.reg] = p.value]
                 /\ executed' = executed \union {p.id}
                 /\ \E status \in {"ok"} \union (Faults \intersect {"short"}) :
                      Transmit(toClient, Reply(p, status), toClient')
              \/ /\ \E status \in IF Permitted(p.cmd) THEN Faults \intersect {"error"}
                                  ELSE {"denied"} :
                      Transmit(toClient, Reply(p, status), toClient')
                 /\ UNCHANGED <<regs, executed>>
  /\ UNCHANGED <<scene, clientVars, historyVars>>

\* The device gives up a control access whose holder it has not heard of for
\* too long (the code sends no heartbeat), or the rival gives it up.
Expire ==
  /\ Contended
  /\ regs["ccp"] # {}
  /\ regs' = [regs EXCEPT !["ccp"] = {}]
  /\ UNCHANGED <<scene, clientVars, toDevice, toClient, executed, historyVars>>

RivalClaims ==
  /\ Contended
  /\ regs["ccp"] = {}
  /\ regs' = [regs EXCEPT !["ccp"] = {"rival"}]
  /\ UNCHANGED <<scene, clientVars, toDevice, toClient, executed, historyVars>>

\* The rival writes an address or flips a bit that the client must preserve.
RivalWrites ==
  /\ regs["ccp"] = {"rival"}
  /\ \/ regs' = [regs EXCEPT !["ip"] = {"ip", "rival"}]
     \/ regs' = [regs EXCEPT !["mode"] =
                   IF "vendor" \in @ THEN @ \ {"vendor"} ELSE @ \union {"vendor"}]
  /\ UNCHANGED <<scene, clientVars, toDevice, toClient, executed, historyVars>>

ClientStep == Send \/ SendFails \/ GiveUp \/ Lapse \/ Receive

Next ==
  \/ ClientStep
  \/ Execute
  \/ Expire \/ RivalClaims \/ RivalWrites
  \/ pc = "returned" /\ UNCHANGED vars  \* the call is over

Spec == Init /\ [][Next]_vars

\* The client keeps running; select returns at the latest after its timeout.
\* Neither the device nor the network owes it anything.
FairSpec == Spec /\ WF_vars(ClientStep)

-----------------------------------------------------------------------------
(* Properties                                                              *)

Packets ==
  [id : Nat, cmd : Commands, value : Contents]

Acks ==
  [id : Nat, ack : {"READREG_ACK", "WRITEREG_ACK"},
   status : {"ok", "denied", "error", "short"}, value : Contents]

\* Type correctness of the client, the channels, the device and the history.
TypeOK ==
  /\ scene \in AllScenes
  /\ step \in 1..last
  /\ attempt \in 0..Attempts
  /\ pc \in {"send", "select", "returned"}
  /\ result \in {"none", "denied", "error"}
  /\ seen \in [Registers -> Contents]
  /\ \A i \in DOMAIN toDevice : toDevice[i] \in Packets
  /\ \A i \in DOMAIN toClient : toClient[i] \in Acks
  /\ regs \in [Registers -> Contents]
  /\ executed \subseteq 1..last
  /\ acked \subseteq 1..last
  /\ lapsed \subseteq 1..last
  /\ gaveUp \subseteq 1..last

\* What the client believes to have read from a register is the content of that
\* register, however late or often the acknowledges of earlier reads come in.
ReadsTheRightRegister ==
  /\ seen["mode"] \subseteq Bits
  /\ \A a \in Addresses : seen[a] # {} => a \in seen[a]

\* The first time the device changes its mode for this call, the bits that are
\* not the client's stay as they are, and a persistent address is switched on
\* only with all three address registers holding the client's values (header of
\* writeConfig; the rival may come in between whenever control has expired),
\* unless the network overtakes.
ExecutesMode ==
  \E i \in executed' \ executed : script[i] = Command("write", "mode")

ModeUpdate ==
  [][ExecutesMode /\ ~Reorder =>
       /\ regs'["mode"] = NewMode(call, regs["mode"])
       /\ call.persistent => \A a \in Addresses : regs[a] = {a, "client"}]_vars

\* Once control was granted, no way out of writeConfig skips the release.
ReleaseIsTried ==
  pc = "returned" /\ call.op = "write" /\ 1 \in acked => step = last

\* When the device has confirmed the release, it is not left under control of
\* this client: no late copy of the claim takes it again, unless it overtakes
\* the release.
ReleasedForGood ==
  last \in acked /\ call.op = "write" /\ ~Reorder => regs["ccp"] # {"client"}

\* Acknowledges of earlier copies use up attempts, but never all of them: a
\* command that is given up has run into a timeout itself, unless it is the
\* release that follows a command which failed (a device whose packets are too
\* short uses up attempts just so).
NoSpuriousGiveUp ==
  \A s \in gaveUp :
    \/ Reorder \/ "short" \in Faults
    \/ s \in lapsed
    \/ call.op = "write" /\ s = last /\ result # "none"

\* The call returns, even if the device is silent.
Returns == <>(pc = "returned")

\* writeConfig "claims GevCCP control access, ... and releases control access
\* again" (gvcp_ip_config.h): when it has returned and the device did execute
\* its claim, the release has at least been sent.
ControlIsReleased ==
  pc = "returned" /\ call.op = "write" /\ 1 \in executed => step = last

-----------------------------------------------------------------------------
(* Refinement                                                              *)

\* The release is best effort and no part of the promise.
Steps == IF call.op = "write" THEN 1..(last - 1) ELSE 1..last

Device == INSTANCE OrderedWrites WITH
  length <- IF call.op = "write" THEN last - 1 ELSE last,
  applied <- executed \intersect Steps,
  told <- IF pc # "returned" THEN "nothing"
          ELSE IF result = "none" THEN "success" ELSE "failure"

\* With every retransmission, loss and late acknowledge, the device sees the
\* commands of the call in order and none left out, and the call returns
\* normally only if all of them were executed.
InOrder == Device!Spec

=============================================================================
