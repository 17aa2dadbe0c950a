--------------------------- MODULE SendersProofs ----------------------------
(***************************************************************************)
(* For every MaxId and every set of threads: the compare-and-exchange loop *)
(* hands out the numbers of the reference definition, each call a number   *)
(* of its own, and it implements the atomic counter.  For every computer:  *)
(* the senders draw their numbers as RequestCounter says, so what is       *)
(* proved of it holds of them; the packets of all commands on the network  *)
(* carry different numbers; no command keeps a socket; and a command that  *)
(* ends normally has been tried once wherever it is meant for.             *)
(***************************************************************************)
EXTENDS Senders, EnumerationProofs, SequenceTheorems

-----------------------------------------------------------------------------
(* Arithmetic of the wrap-around                                           *)

\* What Euclidean division by MaxId gives.
LEMMA DivisionFacts ==
  ASSUME NEW n \in Int
  PROVE  /\ n \div MaxId \in Int
         /\ n % MaxId \in 0..(MaxId - 1)
         /\ n = MaxId * (n \div MaxId) + (n % MaxId)
  BY SMT, MaxIdAssumption

\* Fewer than MaxId apart in both quotient and remainder form: a multiple of
\* MaxId that lies strictly between -MaxId and MaxId is zero.
LEMMA SmallMultiple ==
  ASSUME NEW q \in Int, MaxId * q < MaxId, -MaxId < MaxId * q
  PROVE  q = 0
<1>1. CASE q > 0
  <2>1. MaxId * q >= MaxId
    BY <1>1, MaxIdAssumption, SMT
  <2>2. QED
    BY <2>1, MaxIdAssumption
<1>2. CASE q < 0
  <2>1. MaxId * (-q) >= MaxId
    BY <1>2, MaxIdAssumption, SMT
  <2>2. MaxId * (-q) = -(MaxId * q)
    BY MaxIdAssumption, SMT
  <2>3. QED
    BY <2>1, <2>2, MaxIdAssumption
<1>3. QED
  BY <1>1, <1>2

\* Quotient and remainder are unique.
LEMMA RemainderUnique ==
  ASSUME NEW q \in Int, NEW r \in 0..(MaxId - 1),
         NEW p \in Int, NEW s \in 0..(MaxId - 1),
         MaxId * q + r = MaxId * p + s
  PROVE  r = s
<1>1. MaxId * (q - p) = s - r
  BY MaxIdAssumption, SMT
<1>2. /\ MaxId * (q - p) < MaxId
      /\ -MaxId < MaxId * (q - p)
  BY <1>1, MaxIdAssumption
<1>3. q - p = 0
  BY <1>2, SmallMultiple
<1>4. QED
  BY <1>1, <1>3, MaxIdAssumption, SMT

\* The number of every call is one of the numbers of the protocol.
LEMMA IdOfCallType ==
  ASSUME NEW n \in Nat \ {0}
  PROVE  IdOfCall(n) \in Ids
  BY DivisionFacts, MaxIdAssumption DEF IdOfCall, Ids

\* The first call receives number 1.
LEMMA FirstId == IdOfCall(1) = Successor(0)
<1>1. 0 = MaxId * 0 + 0 /\ 0 \in 0..(MaxId - 1)
  BY MaxIdAssumption, SMT
<1>2. 0 % MaxId = 0
  BY <1>1, DivisionFacts, RemainderUnique, MaxIdAssumption
<1>3. QED
  BY <1>2, MaxIdAssumption DEF IdOfCall, Successor

\* The number of the next call is the successor the code computes.
LEMMA NextId ==
  ASSUME NEW n \in Nat \ {0}
  PROVE  IdOfCall(n + 1) = Successor(IdOfCall(n))
<1> DEFINE q == (n - 1) \div MaxId
           r == (n - 1) % MaxId
           p == n \div MaxId
           s == n % MaxId
<1>1. q \in Int /\ r \in 0..(MaxId - 1) /\ n - 1 = MaxId * q + r
  BY DivisionFacts
<1>2. p \in Int /\ s \in 0..(MaxId - 1) /\ n = MaxId * p + s
  BY DivisionFacts
<1>3. IdOfCall(n) = r + 1 /\ IdOfCall(n + 1) = s + 1
  BY DEF IdOfCall
<1> HIDE DEF q, r, p, s
<1>4. CASE r = MaxId - 1
  <2>1. n = MaxId * (q + 1) + 0
    BY <1>1, <1>4, MaxIdAssumption, SMT
  <2>2. q + 1 \in Int /\ 0 \in 0..(MaxId - 1) /\ MaxId * (q + 1) + 0 = MaxId * p + s
    BY <2>1, <1>1, <1>2, MaxIdAssumption
  <2>3. s = 0
    BY <2>2, <1>2, RemainderUnique
  <2>4. QED
    BY <2>3, <1>3, <1>4, MaxIdAssumption DEF Successor
<1>5. CASE r # MaxId - 1
  <2>1. n = MaxId * q + (r + 1) /\ r + 1 \in 0..(MaxId - 1)
    BY <1>1, <1>5, MaxIdAssumption, SMT
  <2>2. s = r + 1
    BY <2>1, <1>1, <1>2, RemainderUnique, MaxIdAssumption
  <2>3. QED
    BY <2>2, <1>1, <1>3, <1>5, MaxIdAssumption DEF Successor
<1>6. QED
  BY <1>4, <1>5

\* Fewer than MaxId calls apart, two calls have different numbers.
LEMMA NearIdsDiffer ==
  ASSUME NEW m \in Nat \ {0}, NEW n \in Nat \ {0}, m # n, Near(m, n)
  PROVE  IdOfCall(m) # IdOfCall(n)
<1> SUFFICES ASSUME IdOfCall(m) = IdOfCall(n)
             PROVE  FALSE
  OBVIOUS
<1> DEFINE q == (m - 1) \div MaxId
           p == (n - 1) \div MaxId
           r == (m - 1) % MaxId
           s == (n - 1) % MaxId
<1>0. m - 1 \in Int /\ n - 1 \in Int
  OBVIOUS
<1>1. r + 1 = s + 1
  BY DEF IdOfCall
<1>2. q \in Int /\ r \in 0..(MaxId - 1) /\ m - 1 = MaxId * q + r
  BY <1>0, DivisionFacts
<1>3. p \in Int /\ s \in 0..(MaxId - 1) /\ n - 1 = MaxId * p + s
  BY <1>0, DivisionFacts
<1> HIDE DEF q, p, r, s
<1>4. MaxId * (q - p) = m - n
  BY <1>1, <1>2, <1>3, MaxIdAssumption, SMT
<1>5. q - p = 0
  BY <1>2, <1>3, <1>4, SmallMultiple, MaxIdAssumption DEF Near
<1>6. m = n
  BY <1>1, <1>2, <1>3, <1>5, MaxIdAssumption, SMT
<1>7. QED
  BY <1>6

-----------------------------------------------------------------------------
(* The invariant                                                           *)

LEMMA SuccessorType ==
  ASSUME NEW c \in CounterValues
  PROVE  Successor(c) \in Ids
  BY MaxIdAssumption DEF CounterValues, Successor, Ids

LEMMA InitInv == Init => IInv
  BY MaxIdAssumption DEF Init, IInv, TypeOK, TicketInv, CounterValues

\* One step per action; only Exchange moves the counter and the tickets.
LEMMA StepInv == IInv /\ [Next]_vars => IInv'
<1> SUFFICES ASSUME IInv, [Next]_vars
             PROVE  IInv'
  OBVIOUS
<1> USE DEF IInv
<1>1. ASSUME NEW t \in Threads, Call(t)
      PROVE  IInv'
  BY <1>1 DEF Call, TypeOK, TicketInv
<1>2. ASSUME NEW t \in Threads, Load(t)
      PROVE  IInv'
  BY <1>2 DEF Load, TypeOK, TicketInv
<1>3. ASSUME NEW t \in Threads, Exchange(t)
      PROVE  IInv'
  <2>1. counter' = Successor(counter) /\ counter' \in Ids
    BY <1>3, SuccessorType DEF Exchange, TypeOK
  <2>2. counter' = IdOfCall(calls')
    <3>1. CASE calls = 0
      BY <1>3, <2>1, <3>1, FirstId DEF Exchange, TicketInv
    <3>2. CASE calls # 0
      <4>1. calls \in Nat \ {0} /\ counter = IdOfCall(calls)
        BY <3>2 DEF TypeOK, TicketInv
      <4>2. QED
        BY <1>3, <2>1, <4>1, NextId DEF Exchange
    <3>3. QED
      BY <3>1, <3>2
  <2>3. TypeOK'
    BY <1>3, <2>1, SuccessorType DEF Exchange, TypeOK, Ids, CounterValues
  <2>4. TicketInv'
    BY <1>3, <2>1, <2>2 DEF Exchange, TypeOK, TicketInv
  <2>5. QED
    BY <2>3, <2>4
<1>4. ASSUME NEW t \in Threads, Retry(t)
      PROVE  IInv'
  BY <1>4 DEF Retry, TypeOK, TicketInv
<1>5. ASSUME NEW t \in Threads, Finish(t)
      PROVE  IInv'
  BY <1>5 DEF Finish, TypeOK, TicketInv
<1>6. CASE UNCHANGED vars
  BY <1>6 DEF vars, TypeOK, TicketInv
<1>7. QED
  BY <1>1, <1>2, <1>3, <1>4, <1>5, <1>6 DEF Next

\* The counter and every number handed out are those of the reference
\* definition IdOfCall, in every state of the compare-and-exchange loop.
THEOREM CountsInOrder == Spec => []IInv
<1>1. QED
  BY InitInv, StepInv, PTL DEF Spec

\* Two outstanding requests never carry the same number unless MaxId or more
\* numbers were drawn from one to the other, whatever the interleaving.
THEOREM NumbersAreUnique == Spec => []UniqueIds
<1>1. IInv => UniqueIds
  <2> SUFFICES ASSUME IInv,
                      NEW t \in Threads, NEW u \in Threads, t # u,
                      pc[t] = "holding", pc[u] = "holding",
                      Near(ticket[t], ticket[u])
               PROVE  id[t] # id[u]
    BY DEF UniqueIds
  <2>1. /\ ticket[t] \in Nat \ {0} /\ ticket[u] \in Nat \ {0}
        /\ ticket[t] # ticket[u]
        /\ id[t] = IdOfCall(ticket[t]) /\ id[u] = IdOfCall(ticket[u])
    BY DEF IInv, TypeOK, TicketInv
  <2>2. QED
    BY <2>1, NearIdsDiffer
<1>2. QED
  BY <1>1, CountsInOrder, PTL

-----------------------------------------------------------------------------
(* Refinement                                                              *)

\* Every behaviour of the loop is one of the indivisible counter: a failed
\* exchange is invisible, a successful one is the whole call.
THEOREM LoopIsAtomic == Spec => AtomicSpec
<1>1. Init => Atomic!Init
  BY DEF Init, Atomic!Init, phase
<1>2. IInv /\ [Next]_vars => [Atomic!Next]_Atomic!vars
  <2> SUFFICES ASSUME IInv, [Next]_vars
               PROVE  [Atomic!Next]_Atomic!vars
    OBVIOUS
  <2>1. ASSUME NEW t \in Threads, Call(t)
        PROVE  Atomic!Invoke(t)
    BY <2>1 DEF Call, Atomic!Invoke, phase, IInv, TypeOK
  <2>2. ASSUME NEW t \in Threads, Load(t)
        PROVE  UNCHANGED Atomic!vars
    BY <2>2 DEF Load, Atomic!vars, phase, IInv, TypeOK
  <2>3. ASSUME NEW t \in Threads, Exchange(t)
        PROVE  Atomic!Return(t)
    BY <2>3 DEF Exchange, Atomic!Return, Atomic!Successor, Successor, phase, IInv, TypeOK
  <2>4. ASSUME NEW t \in Threads, Retry(t)
        PROVE  UNCHANGED Atomic!vars
    BY <2>4 DEF Retry, Atomic!vars, phase, IInv, TypeOK
  <2>5. ASSUME NEW t \in Threads, Finish(t)
        PROVE  Atomic!Finish(t)
    BY <2>5 DEF Finish, Atomic!Finish, phase, IInv, TypeOK
  <2>6. CASE UNCHANGED vars
    BY <2>6 DEF vars, Atomic!vars, phase
  <2>7. QED
    BY <2>1, <2>2, <2>3, <2>4, <2>5, <2>6 DEF Next, Atomic!Next
<1>3. QED
  BY <1>1, <1>2, CountsInOrder, PTL DEF Spec, AtomicSpec, Atomic!Spec

-----------------------------------------------------------------------------
(* The senders and the counter                                             *)

\* What a command does beyond drawing a number leaves the counter alone, and
\* the end of a request is its Finish.
LEMMA SenderStepCounts ==
  ASSUME NEW t \in Threads, SenderStep(t)
  PROVE  Next \/ UNCHANGED vars
<1>1. CASE Create(t) \/ SetOptions(t) \/ Skip(t) \/ Done(t)
  BY <1>1 DEF Create, SetOptions, Skip, Done
<1>2. CASE DrawNumber(t)
  BY <1>2 DEF DrawNumber, Next
<1>3. CASE Send(t)
  BY <1>3 DEF Send, Used, Next
<1>4. CASE SendUnreachable(t)
  BY <1>4 DEF SendUnreachable, Used, Next
<1>5. CASE SendFails(t)
  BY <1>5 DEF SendFails, Used, Next
<1>6. QED
  BY <1>1, <1>2, <1>3, <1>4, <1>5 DEF SenderStep

LEMMA StepCounts == [SendersNext]_allVars => [Next]_vars
<1>1. CASE Over \/ UNCHANGED allVars
  BY <1>1 DEF Over, allVars
<1>2. ASSUME NEW t \in Threads, SenderStep(t)
      PROVE  [Next]_vars
  BY <1>2, SenderStepCounts
<1>3. QED
  BY <1>1, <1>2 DEF SendersNext

\* Discoveries, FORCEIPs and magic packets of any threads, on any computer, use
\* the counter only as its specification says.
LEMMA SendersUseTheCounter == SendersSpec => Spec
<1>1. SendersInit => Init
  BY DEF SendersInit
<1>2. QED
  BY <1>1, StepCounts, PTL DEF SendersSpec, Spec

\* No two threads wait with the same number while fewer than MaxId numbers were
\* drawn in between, whatever commands they send.
THEOREM SendersNumbersAreUnique == SendersSpec => []UniqueIds
  BY SendersUseTheCounter, NumbersAreUnique, PTL

\* For the senders too a call of getNext is one indivisible step.
THEOREM SendersSeeAnAtomicCounter == SendersSpec => AtomicSpec
  BY SendersUseTheCounter, LoopIsAtomic, PTL

-----------------------------------------------------------------------------
(* The packets on the network                                              *)

\* A packet carries the number of its ticket; the ticket is used by no other
\* packet and is not in the hands of a thread that may still send with it.
WireInv ==
  /\ \A p \in wire : p.ticket \in 1..calls /\ p.num = IdOfCall(p.ticket)
  /\ \A p, q \in wire : p.ticket = q.ticket => p = q
  /\ \A p \in wire, t \in Threads : pc[t] = "holding" => p.ticket # ticket[t]

\* A thread that is ready to send a numbered packet holds a number and a ticket
\* that no other thread has.
LEMMA HeldTicket ==
  ASSUME IInv, NEW t \in Threads, pc[t] = "holding"
  PROVE  /\ ticket[t] \in 1..calls
         /\ id[t] = IdOfCall(ticket[t])
         /\ \A u \in Threads : u # t => ticket[u] # ticket[t]
  BY DEF IInv, TypeOK, TicketInv

\* Drawing a number: a new ticket is greater than all that were used.
LEMMA DrawWire ==
  ASSUME IInv, WireInv, NEW t \in Threads, DrawNumber(t)
  PROVE  WireInv'
<1>1. wire' = wire
  BY DEF DrawNumber
<1>2. CASE Exchange(t)
  <2>1. /\ calls \in Nat /\ calls' = calls + 1
        /\ ticket \in [Threads -> Nat] /\ ticket' = [ticket EXCEPT ![t] = calls + 1]
        /\ pc \in [Threads -> {"idle", "load", "cas", "holding"}]
        /\ pc' = [pc EXCEPT ![t] = "holding"]
    BY <1>2 DEF Exchange, IInv, TypeOK
  <2>2. \A p \in wire : p.ticket \in 1..calls /\ p.ticket \in 1..(calls + 1) /\ p.ticket # calls + 1
    BY <2>1 DEF WireInv
  <2>3. QED
    BY <1>1, <2>1, <2>2 DEF WireInv
<1>3. CASE Call(t) \/ Load(t) \/ Retry(t)
  <2>1. /\ calls' = calls /\ ticket' = ticket
        /\ \A u \in Threads : pc'[u] = "holding" => pc[u] = "holding"
    BY <1>3 DEF Call, Load, Retry, IInv, TypeOK
  <2>2. QED
    BY <1>1, <2>1 DEF WireInv
<1>4. QED
  BY <1>2, <1>3 DEF DrawNumber

\* Sending: the packet takes the ticket out of the hands of its thread.
LEMMA SendWire ==
  ASSUME IInv, WireInv, NEW t \in Threads, Ready(t), Used(t),
         wire' = wire \/ (command[t] # "wake" /\ wire' = wire \union {Packet(t)})
  PROVE  WireInv'
<1>1. CASE command[t] = "wake"
  <2>1. wire' = wire /\ UNCHANGED vars
    BY <1>1 DEF Used
  <2>2. QED
    BY <2>1 DEF WireInv, vars
<1>2. CASE command[t] # "wake"
  <2>1. pc[t] = "holding"
    BY <1>2 DEF Ready
  <2>2. /\ calls' = calls /\ ticket' = ticket
        /\ \A u \in Threads : pc'[u] = "holding" => u # t /\ pc[u] = "holding"
    BY <1>2 DEF Used, Finish, IInv, TypeOK
  <2>3. CASE wire' = wire
    BY <2>2, <2>3 DEF WireInv
  <2>4. CASE wire' = wire \union {Packet(t)}
    <3>1. Packet(t).ticket = ticket[t] /\ Packet(t).num = id[t]
      BY DEF Packet
    <3>2. /\ \A p \in wire : p.ticket # Packet(t).ticket
          /\ Packet(t).ticket \in 1..calls
          /\ Packet(t).num = IdOfCall(Packet(t).ticket)
          /\ \A u \in Threads : u # t => Packet(t).ticket # ticket[u]
      BY <2>1, <3>1, HeldTicket DEF WireInv
    <3> HIDE DEF Packet
    <3>3. QED
      BY <2>2, <2>4, <3>2 DEF WireInv
  <2>5. QED
    BY <2>3, <2>4
<1>3. QED
  BY <1>1, <1>2

LEMMA StepWire == IInv /\ WireInv /\ [SendersNext]_allVars => WireInv'
<1> SUFFICES ASSUME IInv, WireInv, [SendersNext]_allVars
             PROVE  WireInv'
  OBVIOUS
<1>1. ASSUME NEW t \in Threads, Create(t) \/ SetOptions(t) \/ Skip(t) \/ Done(t)
      PROVE  WireInv'
  BY <1>1 DEF Create, SetOptions, Skip, Done, vars, WireInv
<1>2. ASSUME NEW t \in Threads, DrawNumber(t)
      PROVE  WireInv'
  BY <1>2, DrawWire
<1>3. ASSUME NEW t \in Threads, Send(t)
      PROVE  WireInv'
  BY <1>3, SendWire DEF Send
<1>4. ASSUME NEW t \in Threads, SendUnreachable(t) \/ SendFails(t)
      PROVE  WireInv'
  BY <1>4, SendWire DEF SendUnreachable, SendFails
<1>5. CASE Over \/ UNCHANGED allVars
  BY <1>5 DEF Over, allVars, vars, WireInv
<1>6. QED
  BY <1>1, <1>2, <1>3, <1>4, <1>5 DEF SendersNext, SenderStep

LEMMA WireIsNumbered == IInv /\ WireInv => NumbersOnTheWire
<1> SUFFICES ASSUME IInv, WireInv
             PROVE  NumbersOnTheWire
  OBVIOUS
<1>1. \A p \in wire : p.ticket \in Nat \ {0} /\ p.num = IdOfCall(p.ticket)
  BY DEF WireInv, IInv, TypeOK
<1>2. \A p \in wire : p.num \in Ids
  BY <1>1, IdOfCallType
<1>3. ASSUME NEW p \in wire, NEW q \in wire, p # q, Near(p.ticket, q.ticket)
      PROVE  p.num # q.num
  <2>1. p.ticket # q.ticket
    BY <1>3 DEF WireInv
  <2>2. QED
    BY <1>1, <1>3, <2>1, NearIdsDiffer
<1>4. QED
  BY <1>2, <1>3 DEF NumbersOnTheWire

\* The packets of all commands of all threads carry different numbers, none of
\* them 0, as long as fewer than MaxId numbers were drawn between two.
THEOREM PacketsAreTold == SendersSpec => []NumbersOnTheWire
<1>1. SendersInit => WireInv
  BY DEF SendersInit, WireInv
<1>2. SendersSpec => []IInv
  BY SendersUseTheCounter, CountsInOrder, PTL
<1>3. QED
  BY <1>1, <1>2, StepWire, WireIsNumbered, PTL DEF SendersSpec

-----------------------------------------------------------------------------
(* The sockets                                                             *)

\* Only a command that has failed has left a socket in its constructor.
SocketInv ==
  /\ DOMAIN stage = Threads /\ DOMAIN open = Threads /\ leaked \in [Threads -> BOOLEAN]
  /\ \A t \in Threads : leaked[t] => stage[t] = "failed"
  /\ SocketsAreClosed

LEMMA StepSockets == SocketInv /\ [SendersNext]_allVars => SocketInv'
<1> SUFFICES ASSUME SocketInv, [SendersNext]_allVars
             PROVE  SocketInv'
  OBVIOUS
<1> USE DEF SocketInv, SocketsAreClosed
<1>1. ASSUME NEW t \in Threads, Create(t)
      PROVE  SocketInv'
  BY ZenonT(40), <1>1 DEF Create, Leave
<1>2. ASSUME NEW t \in Threads, SetOptions(t)
      PROVE  SocketInv'
  BY <1>2 DEF SetOptions, Leave
<1>3. ASSUME NEW t \in Threads, Skip(t) \/ DrawNumber(t) \/ Send(t) \/ SendUnreachable(t)
      PROVE  SocketInv'
  BY <1>3 DEF Skip, DrawNumber, Send, SendUnreachable, GoOn, commandVars
<1>4. ASSUME NEW t \in Threads, SendFails(t) \/ Done(t)
      PROVE  SocketInv'
  BY <1>4 DEF SendFails, Done, Leave, Ready, AtSocket
<1>5. CASE Over \/ UNCHANGED allVars
  BY <1>5 DEF Over, allVars, commandVars
<1>6. QED
  BY <1>1, <1>2, <1>3, <1>4, <1>5 DEF SendersNext, SenderStep

\* Whichever way a command ends, its sockets are closed, but for one whose
\* constructor threw.
THEOREM NoSocketIsKept == SendersSpec => []SocketsAreClosed
<1>1. SendersInit => SocketInv
  BY DEF SendersInit, SocketInv, SocketsAreClosed
<1>2. SocketInv => SocketsAreClosed
  BY DEF SocketInv
<1>3. QED
  BY <1>1, <1>2, StepSockets, PTL DEF SendersSpec

-----------------------------------------------------------------------------
(* Where a command is sent                                                 *)

\* The rows of the table that get a socket for dst.
RowsFor(rows, os, dst) ==
  {i \in DOMAIN rows :
     IF os = "linux" THEN Usable(rows[i])
     ELSE IF dst = "limited" THEN Routed(rows[i]) ELSE Addressed(rows[i])}

\* The sockets of a table: each once, and for a broadcast those of its rows.
Complete(s, rows, os) ==
  /\ \A i, j \in DOMAIN s : s[i] = s[j] => i = j
  /\ \A dst \in {"limited", "directed"} :
       /\ \A i \in DOMAIN s : s[i].dst = dst => s[i].row \in RowsFor(rows, os, dst)
       /\ \A r \in RowsFor(rows, os, dst) : \E i \in DOMAIN s : s[i] = Socket(r, dst)

\* A sequence of the elements of a set of numbers, each once.
Enumerates(f, m, S) ==
  /\ Len(f) = m
  /\ \A s \in S : \E k \in 1..m : f[k] = s
  /\ \A k \in 1..m : f[k] \in S /\ f[k] \in Nat
  /\ \A j, k \in 1..m : f[j] = f[k] => j = k

LEMMA AscendingEnumerates ==
  ASSUME NEW n \in Nat, NEW S \in SUBSET (1..n)
  PROVE  \E m \in Nat : Enumerates(Ascending(S), m, S)
<1>1. PICK m \in Nat :
        /\ Len(Ascending(S)) = m
        /\ \A s \in S : \E k \in 1..m : Ascending(S)[k] = s
        /\ \A k \in 1..m : Ascending(S)[k] \in S /\ Ascending(S)[k] \in 1..n
        /\ \A k, l \in 1..m : k < l => Ascending(S)[k] < Ascending(S)[l]
  BY AscendingPositions
<1>2. PICK f : f = Ascending(S)
  OBVIOUS
<1>3. ASSUME NEW j \in 1..m, NEW k \in 1..m, f[j] = f[k]
      PROVE  j = k
  <2>1. f[j] \in Nat /\ f[k] \in Nat
    BY <1>1, <1>2
  <2>2. ~(f[j] < f[k]) /\ ~(f[k] < f[j])
    BY <1>3, <2>1
  <2>3. ~(j < k) /\ ~(k < j)
    BY <1>1, <1>2, <2>2
  <2>4. QED
    BY <2>3
<1>4. Enumerates(f, m, S)
  BY <1>1, <1>2, <1>3 DEF Enumerates
<1>5. QED
  BY <1>2, <1>4

\* Three sockets for each row.
LEMMA ThirdOf ==
  ASSUME NEW m \in Nat, NEW k \in 1..(3 * m)
  PROVE  /\ (k + 2) \div 3 \in 1..m /\ (k + 2) % 3 \in 0..2
         /\ k + 2 = 3 * ((k + 2) \div 3) + ((k + 2) % 3)
  OBVIOUS

LEMMA SocketsOfLinux ==
  ASSUME NEW rows, NEW n \in Nat, DOMAIN rows = 1..n
  PROVE  /\ \E l \in Nat : DOMAIN LinuxSockets(rows) = 1..l /\ Len(LinuxSockets(rows)) = l
         /\ Complete(LinuxSockets(rows), rows, "linux")
<1> DEFINE S == {i \in DOMAIN rows : Usable(rows[i])}
           dsts == <<"limited", "none", "directed">>
<1>1. S \in SUBSET (1..n)
  OBVIOUS
<1>2. S = RowsFor(rows, "linux", "limited") /\ S = RowsFor(rows, "linux", "directed")
  BY DEF RowsFor
<1>3. PICK f : f = Ascending(S)
  OBVIOUS
<1>4. LinuxSockets(rows) = [k \in 1 .. 3 * Len(f) |-> Socket(f[(k + 2) \div 3], dsts[1 + ((k + 2) % 3)])]
  BY <1>3 DEF LinuxSockets
<1> HIDE DEF S
<1>5. PICK m \in Nat : Enumerates(f, m, S)
  BY <1>1, <1>3, AscendingEnumerates
<1>e. /\ Len(f) = m
      /\ \A s \in S : \E k \in 1..m : f[k] = s
      /\ \A k \in 1..m : f[k] \in S /\ f[k] \in Nat
      /\ \A j, k \in 1..m : f[j] = f[k] => j = k
  BY <1>5 DEF Enumerates
<1>6. PICK l \in Nat : l = 3 * m
  OBVIOUS
<1>7. PICK sockets : sockets = LinuxSockets(rows)
  OBVIOUS
<1>8. /\ sockets = [k \in 1..l |-> sockets[k]]
      /\ \A k \in 1..l : sockets[k] = Socket(f[(k + 2) \div 3], dsts[1 + ((k + 2) % 3)])
  BY <1>4, <1>e, <1>6, <1>7
<1>9. DOMAIN sockets = 1..l /\ Len(sockets) = l
  BY <1>8
<1>10. dsts[1] = "limited" /\ dsts[2] = "none" /\ dsts[3] = "directed"
  OBVIOUS
<1> HIDE DEF dsts
<1>11. ASSUME NEW i \in 1..l
       PROVE  /\ (i + 2) \div 3 \in 1..m /\ (i + 2) % 3 \in 0..2
              /\ i + 2 = 3 * ((i + 2) \div 3) + ((i + 2) % 3)
              /\ sockets[i].row = f[(i + 2) \div 3] /\ sockets[i].dst = dsts[1 + ((i + 2) % 3)]
  <2>1. sockets[i] = Socket(f[(i + 2) \div 3], dsts[1 + ((i + 2) % 3)])
    BY <1>8
  <2>2. i \in 1..(3 * m)
    BY <1>6
  <2>3. /\ (i + 2) \div 3 \in 1..m /\ (i + 2) % 3 \in 0..2
        /\ i + 2 = 3 * ((i + 2) \div 3) + ((i + 2) % 3)
    BY <2>2, ThirdOf
  <2>4. QED
    BY <2>1, <2>3 DEF Socket
<1>12. ASSUME NEW i \in 1..l, NEW j \in 1..l, sockets[i] = sockets[j]
       PROVE  i = j
  <2>1. PICK p \in 1..m, a \in 0..2 :
          i + 2 = 3 * p + a /\ sockets[i].row = f[p] /\ sockets[i].dst = dsts[1 + a]
    BY <1>11
  <2>2. PICK q \in 1..m, b \in 0..2 :
          j + 2 = 3 * q + b /\ sockets[j].row = f[q] /\ sockets[j].dst = dsts[1 + b]
    BY <1>11
  <2>3. f[p] = f[q] /\ dsts[1 + a] = dsts[1 + b]
    BY <1>12, <2>1, <2>2
  <2>4. a = b
    BY SMTT(30), <1>10, <2>1, <2>2, <2>3
  <2>5. p = q
    BY <1>e, <2>1, <2>2, <2>3
  <2>6. QED
    BY <2>1, <2>2, <2>4, <2>5
<1>13. ASSUME NEW dst \in {"limited", "directed"}, NEW i \in 1..l, sockets[i].dst = dst
       PROVE  sockets[i].row \in RowsFor(rows, "linux", dst)
  BY <1>2, <1>e, <1>11
<1>14. ASSUME NEW dst \in {"limited", "directed"}, NEW r \in RowsFor(rows, "linux", dst)
       PROVE  \E i \in 1..l : sockets[i] = Socket(r, dst)
  <2>1. r \in S
    BY <1>2
  <2>2. PICK k \in 1..m : f[k] = r
    BY <1>e, <2>1
  <2>3. PICK a \in {0, 2} : dsts[1 + a] = dst
    BY <1>10
  <2>4. PICK i \in 1..l : i + 2 = 3 * k + a
    <3>1. 3 * k + a - 2 \in 1..l
      BY <1>6, <2>2, <2>3
    <3>2. QED
      BY <3>1
  <2>5. (i + 2) \div 3 = k /\ (i + 2) % 3 = a
    BY <2>2, <2>3, <2>4
  <2>6. sockets[i] = Socket(f[(i + 2) \div 3], dsts[1 + ((i + 2) % 3)])
    BY <1>8
  <2>7. sockets[i] = Socket(r, dst)
    BY <2>2, <2>3, <2>5, <2>6
  <2>8. QED
    BY <2>7
<1>15. Complete(sockets, rows, "linux")
  BY <1>9, <1>12, <1>13, <1>14 DEF Complete
<1>16. QED
  BY <1>7, <1>9, <1>15

LEMMA SocketsOfWindows ==
  ASSUME NEW rows, NEW n \in Nat, DOMAIN rows = 1..n
  PROVE  /\ \E l \in Nat : DOMAIN WindowsSockets(rows) = 1..l /\ Len(WindowsSockets(rows)) = l
         /\ \A os : os # "linux" => Complete(WindowsSockets(rows), rows, os)
<1> DEFINE R == {i \in DOMAIN rows : Routed(rows[i])}
           A == {i \in DOMAIN rows : Addressed(rows[i])}
<1>1. R \in SUBSET (1..n) /\ A \in SUBSET (1..n)
  OBVIOUS
<1>2. \A os : os # "linux" => R = RowsFor(rows, os, "limited") /\ A = RowsFor(rows, os, "directed")
  BY DEF RowsFor
<1>3. PICK f, g : f = Ascending(R) /\ g = Ascending(A)
  OBVIOUS
<1>4. WindowsSockets(rows) =
        [k \in 1 .. Len(f) + Len(g) |->
           IF k <= Len(f) THEN Socket(f[k], "limited") ELSE Socket(g[k - Len(f)], "directed")]
  BY <1>3 DEF WindowsSockets
<1> HIDE DEF R, A
<1>5. PICK m \in Nat : Enumerates(f, m, R)
  BY <1>1, <1>3, AscendingEnumerates
<1>6. PICK p \in Nat : Enumerates(g, p, A)
  BY <1>1, <1>3, AscendingEnumerates
<1>7. /\ Len(f) = m
      /\ \A s \in R : \E k \in 1..m : f[k] = s
      /\ \A k \in 1..m : f[k] \in R
      /\ \A j, k \in 1..m : f[j] = f[k] => j = k
      /\ Len(g) = p
      /\ \A s \in A : \E k \in 1..p : g[k] = s
      /\ \A k \in 1..p : g[k] \in A
      /\ \A j, k \in 1..p : g[j] = g[k] => j = k
  BY <1>5, <1>6 DEF Enumerates
<1>8. PICK sockets : sockets = WindowsSockets(rows)
  OBVIOUS
<1>9. PICK l \in Nat : l = m + p
  OBVIOUS
<1>10. /\ sockets = [k \in 1..l |-> sockets[k]]
       /\ \A k \in 1..l :
            sockets[k] = IF k <= m THEN Socket(f[k], "limited") ELSE Socket(g[k - m], "directed")
  BY <1>4, <1>7, <1>8, <1>9
<1>11. DOMAIN sockets = 1..l /\ Len(sockets) = l
  BY <1>10
<1>12. ASSUME NEW i \in 1..l
       PROVE  \/ i \in 1..m /\ sockets[i].row = f[i] /\ sockets[i].dst = "limited"
              \/ i - m \in 1..p /\ sockets[i].row = g[i - m] /\ sockets[i].dst = "directed"
  <2>1. CASE i <= m
    BY <1>10, <2>1 DEF Socket
  <2>2. CASE ~(i <= m)
    BY <1>9, <1>10, <2>2 DEF Socket
  <2>3. QED
    BY <2>1, <2>2
<1>13. ASSUME NEW i \in 1..l, NEW j \in 1..l, sockets[i] = sockets[j]
       PROVE  i = j
  BY SMTT(30), <1>7, <1>12, <1>13
<1>14. ASSUME NEW os, os # "linux",
              NEW dst \in {"limited", "directed"}, NEW i \in 1..l, sockets[i].dst = dst
       PROVE  sockets[i].row \in RowsFor(rows, os, dst)
  BY <1>2, <1>7, <1>12, <1>14
<1>15. ASSUME NEW os, os # "linux",
              NEW dst \in {"limited", "directed"}, NEW r \in RowsFor(rows, os, dst)
       PROVE  \E i \in 1..l : sockets[i] = Socket(r, dst)
  <2>1. CASE dst = "limited"
    <3>1. PICK k \in 1..m : f[k] = r
      BY <1>2, <1>7, <1>15, <2>1
    <3>2. k \in 1..l /\ k <= m
      BY <1>9
    <3>3. QED
      BY <1>10, <2>1, <3>1, <3>2
  <2>2. CASE dst = "directed"
    <3>1. PICK k \in 1..p : g[k] = r
      BY <1>2, <1>7, <1>15, <2>2
    <3>2. k + m \in 1..l /\ ~(k + m <= m) /\ (k + m) - m = k
      BY <1>9
    <3>3. QED
      BY <1>10, <2>2, <3>1, <3>2
  <2>3. QED
    BY <2>1, <2>2
<1>16. \A os : os # "linux" => Complete(sockets, rows, os)
  BY <1>11, <1>13, <1>14, <1>15 DEF Complete
<1>17. QED
  BY <1>8, <1>11, <1>16

\* The sockets of the computer, whatever its table.
LEMMA SocketsAreComplete ==
  ASSUME host \in Hosts
  PROVE  /\ \E l \in Nat : DOMAIN Sockets = 1..l /\ Len(Sockets) = l
         /\ Complete(Sockets, host.rows, host.os)
<1>1. PICK n \in Nat : DOMAIN host.rows = 1..n
  BY HostsAssumption
<1>2. CASE host.os = "linux"
  BY <1>1, <1>2, SocketsOfLinux DEF Sockets
<1>3. CASE host.os # "linux"
  BY <1>1, <1>3, SocketsOfWindows DEF Sockets
<1>4. QED
  BY <1>2, <1>3

\* The sockets that a command is meant for.
Selects(t) == {i \in DOMAIN Sockets : Selected(t, Sockets[i])}

\* The chosen sockets before position n are in s, each once.
Covers(s, n, sockets, Chosen) ==
  /\ \A k \in DOMAIN s : \E i \in Chosen : i < n /\ s[k] = sockets[i]
  /\ \A i \in Chosen : i < n => \E k \in DOMAIN s : s[k] = sockets[i]
  /\ \A j, k \in DOMAIN s : s[j] = s[k] => j = k

Tries(t) == Covers(tried[t], next[t], Sockets, Selects(t))

\* Trying one more.
LEMMA NextIsTried ==
  ASSUME NEW sockets, NEW l \in Nat, DOMAIN sockets = 1..l,
         \A i, j \in 1..l : sockets[i] = sockets[j] => i = j,
         NEW X, NEW s \in Seq(X), NEW n \in 1..l, sockets[n] \in X,
         NEW Chosen \in SUBSET (1..l), n \in Chosen,
         Covers(s, n, sockets, Chosen),
         NEW new, new = Append(s, sockets[n])
  PROVE  /\ new \in Seq(X)
         /\ Covers(new, n + 1, sockets, Chosen)
<1>0. /\ \A k \in DOMAIN s : \E i \in Chosen : i < n /\ s[k] = sockets[i]
      /\ \A i \in Chosen : i < n => \E k \in DOMAIN s : s[k] = sockets[i]
      /\ \A j, k \in DOMAIN s : s[j] = s[k] => j = k
  BY DEF Covers
<1>1. PICK m \in Nat : m = Len(s) /\ DOMAIN s = 1..m
  OBVIOUS
<1>2. new \in Seq(X) /\ Len(new) = m + 1
  BY <1>1, AppendProperties
<1>3. /\ DOMAIN new = 1..(m + 1)
      /\ \A k \in 1..m : new[k] = s[k]
      /\ new[m + 1] = sockets[n]
  BY <1>1, <1>2, AppendProperties
<1>4. \A k \in 1..(m + 1) : k \in 1..m \/ k = m + 1
  OBVIOUS
<1>5. ASSUME NEW k \in 1..(m + 1)
      PROVE  \E i \in Chosen : i < n + 1 /\ new[k] = sockets[i]
  <2>1. CASE k \in 1..m
    <3>1. PICK i \in Chosen : i < n /\ s[k] = sockets[i]
      BY <1>0, <1>1, <2>1
    <3>2. i < n + 1 /\ new[k] = sockets[i]
      BY <1>3, <2>1, <3>1
    <3>3. QED
      BY <3>2
  <2>2. CASE k = m + 1
    <3>1. n < n + 1 /\ new[k] = sockets[n]
      BY <1>3, <2>2
    <3>2. QED
      BY <3>1
  <2>3. QED
    BY <1>4, <2>1, <2>2
<1>6. ASSUME NEW i \in Chosen, i < n + 1
      PROVE  \E k \in 1..(m + 1) : new[k] = sockets[i]
  <2>1. CASE i < n
    <3>1. PICK k \in 1..m : s[k] = sockets[i]
      BY <1>0, <1>1, <2>1
    <3>2. k \in 1..(m + 1) /\ new[k] = sockets[i]
      BY <1>3, <3>1
    <3>3. QED
      BY <3>2
  <2>2. CASE i = n
    <3>1. m + 1 \in 1..(m + 1) /\ new[m + 1] = sockets[i]
      BY <1>3, <2>2
    <3>2. QED
      BY <3>1
  <2>3. i < n \/ i = n
    <3>1. i \in 1..l /\ n \in 1..l
      OBVIOUS
    <3>2. QED
      BY <1>6, <3>1
  <2>4. QED
    BY <2>1, <2>2, <2>3
<1>7. \A k \in 1..m : new[k] # new[m + 1]
  <2>1. SUFFICES ASSUME NEW k \in 1..m, new[k] = new[m + 1] PROVE FALSE
    OBVIOUS
  <2>2. PICK i \in Chosen : i < n /\ s[k] = sockets[i]
    BY <1>0, <1>1
  <2>3. sockets[i] = sockets[n]
    BY <1>3, <2>1, <2>2
  <2>4. i \in 1..l /\ n \in 1..l
    OBVIOUS
  <2>5. i = n
    BY <2>3, <2>4
  <2>6. QED
    BY <2>2, <2>4, <2>5
<1>8. ASSUME NEW j \in 1..(m + 1), NEW k \in 1..(m + 1), new[j] = new[k]
      PROVE  j = k
  <2>1. CASE j \in 1..m /\ k \in 1..m
    BY <1>0, <1>1, <1>3, <1>8, <2>1
  <2>2. CASE j = m + 1 \/ k = m + 1
    BY <1>4, <1>7, <1>8, <2>2
  <2>3. QED
    BY <1>4, <2>1, <2>2
<1>9. QED
  BY <1>2, <1>3, <1>5, <1>6, <1>8 DEF Covers

\* What a thread has tried are sockets of the computer.
TypeTried ==
  /\ host \in Hosts
  /\ command \in [Threads -> Commands \union {"none"}]
  /\ stage \in [Threads -> {"idle", "options", "sending", "failed", "done"}]
  /\ next \in [Threads -> Nat \ {0}]
  /\ tried \in [Threads -> Seq({Sockets[i] : i \in DOMAIN Sockets})]

\* Before it sends a thread has tried nothing, at the end it has passed all.
TriedOf(t) ==
  /\ stage[t] \in {"idle", "options"} => next[t] = 1 /\ tried[t] = << >>
  /\ stage[t] = "done" => next[t] > Len(Sockets)
  /\ Tries(t)

\* A thread whose variables stay.
LEMMA TriedStays ==
  ASSUME NEW t \in Threads, TriedOf(t),
         command'[t] = command[t], next'[t] = next[t], tried'[t] = tried[t],
         stage'[t] = stage[t]
           \/ stage'[t] = "failed"
           \/ (stage[t] = "options" /\ stage'[t] = "sending")
           \/ (stage'[t] = "done" /\ next[t] > Len(Sockets)),
         UNCHANGED host
  PROVE  TriedOf(t)'
<1>1. Sockets' = Sockets
  BY DEF Sockets
<1>2. Selects(t)' = Selects(t)
  BY <1>1 DEF Selects, Selected
<1>3. Tries(t)'
  BY <1>1, <1>2 DEF TriedOf, Tries
<1>4. QED
  BY <1>1, <1>3 DEF TriedOf

\* Before the first socket.
LEMMA NothingTried ==
  ASSUME NEW t \in Threads, next'[t] = 1, tried'[t] = << >>, stage'[t] # "done", host \in Hosts, UNCHANGED host
  PROVE  TriedOf(t)'
<1>1. Sockets' = Sockets
  BY DEF Sockets
<1>2. PICK l \in Nat : DOMAIN Sockets = 1..l
  BY SocketsAreComplete
<1>3. \A i \in Selects(t)' : i \in 1..l /\ ~(i < 1)
  BY <1>1, <1>2 DEF Selects
<1>4. DOMAIN tried'[t] = {}
  OBVIOUS
<1>5. Tries(t)'
  BY <1>3, <1>4 DEF Tries, Covers
<1>6. QED
  BY <1>5 DEF TriedOf

LEMMA SkipTries ==
  ASSUME TypeTried, NEW t \in Threads, TriedOf(t), Skip(t)
  PROVE  TriedOf(t)'
<1>1. /\ Sockets' = Sockets /\ Selects(t)' = Selects(t)
      /\ next'[t] = next[t] + 1 /\ tried'[t] = tried[t]
      /\ stage[t] = "sending" /\ stage'[t] = "sending"
  BY DEF Skip, AtSocket, Sockets, Selects, Selected, TypeTried
<1>2. next[t] \notin Selects(t)
  BY DEF Skip, Selects
<1>3. PICK l \in Nat : DOMAIN Sockets = 1..l
  BY SocketsAreComplete DEF TypeTried
<1>4. next[t] \in Nat /\ Selects(t) \in SUBSET (1..l)
  BY <1>3 DEF TypeTried, Selects
<1>5. \A i \in Selects(t) : i < next[t] + 1 <=> i < next[t]
  BY <1>2, <1>4
<1>6. Tries(t)'
  BY <1>1, <1>5 DEF TriedOf, Tries, Covers
<1>7. QED
  BY <1>1, <1>6 DEF TriedOf

LEMMA GoOnTries ==
  ASSUME TypeTried, NEW t \in Threads, TriedOf(t), Ready(t), GoOn(t), UNCHANGED <<host, command>>
  PROVE  /\ TriedOf(t)'
         /\ tried'[t] \in Seq({Sockets[i] : i \in DOMAIN Sockets})
<1> DEFINE X == {Sockets[i] : i \in DOMAIN Sockets}
<1>1. /\ Sockets' = Sockets /\ Selects(t)' = Selects(t)
      /\ next'[t] = next[t] + 1 /\ tried'[t] = Append(tried[t], Sockets[next[t]])
      /\ stage[t] = "sending" /\ stage'[t] = "sending"
  BY DEF Ready, GoOn, AtSocket, Sockets, Selects, Selected, TypeTried
<1>2. PICK l \in Nat : DOMAIN Sockets = 1..l /\ Len(Sockets) = l /\ \A i, j \in 1..l : Sockets[i] = Sockets[j] => i = j
  BY SocketsAreComplete DEF TypeTried, Complete
<1>3. PICK n, s, sockets, Chosen :
        n = next[t] /\ s = tried[t] /\ sockets = Sockets /\ Chosen = Selects(t)
  OBVIOUS
<1>4. s \in Seq(X)
  BY <1>3 DEF TypeTried
<1>5. n \in 1..l /\ n \in Chosen /\ Chosen \in SUBSET (1..l) /\ sockets[n] \in X
  <2>1. n \in Nat /\ n <= l /\ Selected(t, Sockets[n])
    BY <1>2, <1>3 DEF TypeTried, Ready, AtSocket
  <2>2. n # 0
    BY <1>3 DEF TypeTried
  <2>3. QED
    BY <1>2, <1>3, <2>1, <2>2 DEF Selects
<1>6. Covers(s, n, sockets, Chosen)
  BY <1>3 DEF TriedOf, Tries
<1>7. DOMAIN sockets = 1..l /\ \A i, j \in 1..l : sockets[i] = sockets[j] => i = j
  BY <1>2, <1>3
<1> HIDE DEF X
<1>8. PICK new : new = Append(s, sockets[n])
  OBVIOUS
<1>9. new \in Seq(X) /\ Covers(new, n + 1, sockets, Chosen)
  BY <1>4, <1>5, <1>6, <1>7, <1>8, NextIsTried
<1>10. new = tried'[t]
  BY <1>1, <1>3, <1>8
<1>11. Tries(t)'
  BY <1>1, <1>3, <1>9, <1>10 DEF Tries
<1>12. TriedOf(t)'
  BY <1>1, <1>11 DEF TriedOf
<1>13. QED
  BY <1>9, <1>10, <1>12 DEF X

TriedInv == TypeTried /\ \A t \in Threads : TriedOf(t)

\* The other threads.
LEMMA OthersStay ==
  ASSUME TriedInv, NEW u \in Threads, UNCHANGED host,
         command'[u] = command[u], stage'[u] = stage[u], next'[u] = next[u], tried'[u] = tried[u]
  PROVE  TriedOf(u)'
  BY TriedStays DEF TriedInv

LEMMA StepTries ==
  ASSUME TriedInv, NEW t \in Threads, SenderStep(t)
  PROVE  TriedInv'
<1>1. /\ host' = host /\ host \in Hosts /\ Sockets' = Sockets
      /\ \A u \in Threads : u # t =>
           command'[u] = command[u] /\ stage'[u] = stage[u] /\ next'[u] = next[u] /\ tried'[u] = tried[u]
  <2>1. host' = host
    BY DEF SenderStep, Create, SetOptions, Skip, DrawNumber, Send, SendUnreachable, SendFails, Done
  <2>2. CASE Create(t) \/ SetOptions(t) \/ Done(t) \/ SendFails(t)
    BY <2>1, <2>2 DEF TriedInv, TypeTried, Create, SetOptions, Done, SendFails, Leave, Sockets
  <2>3. CASE Skip(t) \/ DrawNumber(t)
    BY <2>1, <2>3 DEF TriedInv, TypeTried, Skip, DrawNumber, commandVars, Sockets
  <2>4. CASE Send(t) \/ SendUnreachable(t)
    BY <2>1, <2>4 DEF TriedInv, TypeTried, Send, SendUnreachable, GoOn, Sockets
  <2>5. QED
    BY <2>2, <2>3, <2>4 DEF SenderStep
<1>2. \A u \in Threads : u # t => TriedOf(u)'
  BY <1>1, OthersStay
<1>3. ASSUME TypeTried', TriedOf(t)'
      PROVE  TriedInv'
  BY <1>2, <1>3 DEF TriedInv
<1>4. CASE Create(t)
  <2>1. TypeTried'
    BY <1>1, <1>4 DEF TriedInv, TypeTried, Create, Leave
  <2>2. next'[t] = 1 /\ tried'[t] = << >> /\ stage'[t] # "done"
    <3>1. next[t] = 1 /\ tried[t] = << >>
      BY <1>4 DEF TriedInv, TriedOf, Create
    <3>2. next' = next /\ tried' = tried
      BY <1>4 DEF Create
    <3>3. stage'[t] \in {"options", "failed"}
      BY <1>4 DEF Create, Leave, TriedInv, TypeTried
    <3>4. QED
      BY <3>1, <3>2, <3>3
  <2>3. TriedOf(t)'
    BY <1>1, <2>2, NothingTried
  <2>4. QED
    BY <1>3, <2>1, <2>3
<1>5. CASE SetOptions(t) \/ DrawNumber(t) \/ SendFails(t) \/ Done(t)
  <2>1. TypeTried'
    BY <1>1, <1>5 DEF TriedInv, TypeTried, SetOptions, DrawNumber, commandVars, SendFails, Done, Leave
  <2>2. /\ command'[t] = command[t] /\ next'[t] = next[t] /\ tried'[t] = tried[t]
        /\ \/ stage'[t] = stage[t]
           \/ stage'[t] = "failed"
           \/ stage[t] = "options" /\ stage'[t] = "sending"
           \/ stage'[t] = "done" /\ next[t] > Len(Sockets)
    BY <1>5 DEF TriedInv, TypeTried, SetOptions, DrawNumber, commandVars, SendFails, Done, Leave
  <2>3. TriedOf(t)'
    BY <1>1, <2>2, TriedStays DEF TriedInv
  <2>4. QED
    BY <1>3, <2>1, <2>3
<1>6. CASE Skip(t)
  <2>1. TypeTried'
    BY <1>1, <1>6 DEF TriedInv, TypeTried, Skip
  <2>2. QED
    BY <1>3, <1>6, <2>1, SkipTries DEF TriedInv
<1>7. CASE Send(t) \/ SendUnreachable(t)
  <2>1. Ready(t) /\ GoOn(t) /\ UNCHANGED <<host, command>>
    BY <1>1, <1>7 DEF Send, SendUnreachable
  <2>2. TriedOf(t)' /\ tried'[t] \in Seq({Sockets[i] : i \in DOMAIN Sockets})
    BY <2>1, GoOnTries DEF TriedInv
  <2>3. TypeTried'
    <3>1. next' \in [Threads -> Nat \ {0}] /\ stage' = stage
      BY <2>1 DEF TriedInv, TypeTried, GoOn
    <3> DEFINE X == {Sockets[i] : i \in DOMAIN Sockets}
    <3>2. X' = X
      BY <1>1
    <3>3. tried' \in [Threads -> Seq(X)]
      <4>1. tried \in [Threads -> Seq(X)] /\ tried'[t] \in Seq(X)
        BY <2>2 DEF TriedInv, TypeTried
      <4> HIDE DEF X
      <4>2. tried' = [tried EXCEPT ![t] = tried'[t]]
        BY <2>1, <4>1 DEF GoOn
      <4>3. QED
        BY <4>1, <4>2
    <3>4. QED
      BY <1>1, <2>1, <3>1, <3>2, <3>3 DEF TriedInv, TypeTried
  <2>4. QED
    BY <1>3, <2>2, <2>3
<1>8. QED
  BY <1>4, <1>5, <1>6, <1>7 DEF SenderStep

LEMMA TriedHolds == SendersSpec => []TriedInv
<1>1. SendersInit => TriedInv
  <2> SUFFICES ASSUME SendersInit PROVE TriedInv
    OBVIOUS
  <2>1. TypeTried
    BY DEF SendersInit, TypeTried
  <2>2. PICK l \in Nat : DOMAIN Sockets = 1..l
    BY SocketsAreComplete DEF SendersInit
  <2>3. ASSUME NEW t \in Threads PROVE TriedOf(t)
    <3>1. next[t] = 1 /\ tried[t] = << >> /\ stage[t] = "idle"
      BY DEF SendersInit
    <3>2. \A i \in Selects(t) : i \in 1..l /\ ~(i < 1)
      BY <2>2 DEF Selects
    <3>3. Tries(t)
      BY <3>1, <3>2 DEF Tries, Covers
    <3>4. QED
      BY <3>1, <3>3 DEF TriedOf
  <2>4. QED
    BY <2>1, <2>3 DEF TriedInv
<1>2. TriedInv /\ [SendersNext]_allVars => TriedInv'
  <2> SUFFICES ASSUME TriedInv, [SendersNext]_allVars
               PROVE  TriedInv'
    OBVIOUS
  <2>1. CASE UNCHANGED allVars
    <3>1. /\ UNCHANGED <<host, command, stage, next, tried>> /\ Sockets' = Sockets
      BY <2>1 DEF allVars, commandVars, Sockets
    <3>2. TypeTried'
      BY <3>1 DEF TriedInv, TypeTried
    <3>3. \A t \in Threads : TriedOf(t)'
      BY <3>1, OthersStay
    <3>4. QED
      BY <3>2, <3>3 DEF TriedInv
  <2>2. QED
    BY <2>1, StepTries DEF SendersNext, Over
<1>3. QED
  BY <1>1, <1>2, PTL DEF SendersSpec

\* The reference is what the sockets are for.
LEMMA MeantIsSelected ==
  ASSUME host \in Hosts, NEW t \in Threads, NEW dst \in {"limited", "directed"}
  PROVE  Meant(t, dst) = {r \in RowsFor(host.rows, host.os, dst) : Selected(t, Socket(r, dst))}
  BY HostsAssumption DEF Meant, RowsFor, Selected, Socket, Usable, Routed, Addressed

LEMMA TriedIsMeant == TriedInv => TriedEverywhereOnce
<1> SUFFICES ASSUME TriedInv, NEW t \in Threads, stage[t] = "done",
                    NEW dst \in {"limited", "directed"}
             PROVE  LET sends == {k \in DOMAIN tried[t] : tried[t][k].dst = dst}
                    IN  /\ {tried[t][k].row : k \in sends} = Meant(t, dst)
                        /\ \A j, k \in sends : tried[t][j].row = tried[t][k].row => j = k
  BY DEF TriedEverywhereOnce
<1>1. PICK s, n, sockets, Chosen :
        s = tried[t] /\ n = next[t] /\ sockets = Sockets /\ Chosen = Selects(t)
  OBVIOUS
<1>2. Covers(s, n, sockets, Chosen)
  BY <1>1 DEF TriedInv, TriedOf, Tries
<1>3. PICK l \in Nat : DOMAIN sockets = 1..l /\ Len(sockets) = l
  BY <1>1, SocketsAreComplete DEF TriedInv, TypeTried
<1>4. Complete(sockets, host.rows, host.os) /\ host \in Hosts
  BY <1>1, SocketsAreComplete DEF TriedInv, TypeTried
<1>5. \A i \in 1..l : i < n
  <2>1. n > l /\ n \in Nat
    BY <1>1, <1>3 DEF TriedInv, TypeTried, TriedOf
  <2>2. QED
    BY <2>1
<1>6. Chosen = {i \in 1..l : Selected(t, sockets[i])}
  BY <1>1, <1>3 DEF Selects
<1>7. /\ \A k \in DOMAIN s : \E i \in Chosen : s[k] = sockets[i]
      /\ \A i \in Chosen : \E k \in DOMAIN s : s[k] = sockets[i]
      /\ \A j, k \in DOMAIN s : s[j] = s[k] => j = k
  BY <1>2, <1>5, <1>6 DEF Covers
<1> DEFINE sends == {k \in DOMAIN s : s[k].dst = dst}
<1>8. \A i \in 1..l : sockets[i] = Socket(sockets[i].row, sockets[i].dst)
  <2>1. \A i \in 1..l : \E r, d : sockets[i] = Socket(r, d)
    BY <1>1, <1>3 DEF Sockets, LinuxSockets, WindowsSockets
  <2>2. \A r, d : Socket(r, d).row = r /\ Socket(r, d).dst = d
    BY DEF Socket
  <2> HIDE DEF Socket
  <2>3. ASSUME NEW i \in 1..l
        PROVE  sockets[i] = Socket(sockets[i].row, sockets[i].dst)
    <3>1. PICK r, d : sockets[i] = Socket(r, d)
      BY <2>1
    <3>2. sockets[i].row = r /\ sockets[i].dst = d
      BY <2>2, <3>1
    <3>3. QED
      BY <3>1, <3>2
  <2>4. QED
    BY <2>3
<1>9. ASSUME NEW k \in sends
      PROVE  s[k].row \in Meant(t, dst) /\ s[k] = Socket(s[k].row, dst)
  <2>1. PICK i \in Chosen : s[k] = sockets[i]
    BY <1>7
  <2>2. i \in 1..l /\ Selected(t, sockets[i]) /\ sockets[i].dst = dst
    BY <1>6, <1>9, <2>1
  <2>3. sockets[i].row \in RowsFor(host.rows, host.os, dst) /\ sockets[i] = Socket(sockets[i].row, dst)
    BY <1>3, <1>4, <1>8, <2>2 DEF Complete
  <2>4. QED
    BY <1>4, <2>1, <2>2, <2>3, MeantIsSelected
<1>10. ASSUME NEW r \in Meant(t, dst)
       PROVE  \E k \in sends : s[k].row = r
  <2>1. r \in RowsFor(host.rows, host.os, dst) /\ Selected(t, Socket(r, dst))
    BY <1>4, MeantIsSelected
  <2>2. PICK i \in 1..l : sockets[i] = Socket(r, dst)
    BY <1>3, <1>4, <2>1 DEF Complete
  <2>3. PICK k \in DOMAIN s : s[k] = sockets[i]
    BY <1>6, <1>7, <2>1, <2>2
  <2>4. s[k].row = r /\ s[k].dst = dst
    BY <2>2, <2>3 DEF Socket
  <2>5. QED
    BY <2>4
<1>11. \A j, k \in sends : s[j].row = s[k].row => j = k
  BY <1>7, <1>9
<1>12. {s[k].row : k \in sends} = Meant(t, dst)
  BY <1>9, <1>10
<1>13. QED
  BY <1>1, <1>11, <1>12

\* On every computer, whatever its tables: a command that ends normally has been
\* tried once on every broadcast address it is meant for.
THEOREM EverywhereOnce == SendersSpec => []TriedEverywhereOnce
  BY TriedHolds, TriedIsMeant, PTL

=============================================================================
