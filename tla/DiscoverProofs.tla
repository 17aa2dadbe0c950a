--------------------------- MODULE DiscoverProofs ---------------------------
(***************************************************************************)
(* For every number of sockets, every set of devices and every timeout:    *)
(* the lifetime of the object, the waiting caller and the answers.         *)
(***************************************************************************)
EXTENDS Discover, TLAPS

\* The handlers of the calling thread.
USE DEF Sockets

-----------------------------------------------------------------------------
(* Type correctness                                                        *)

LEMMA InitType == Init => TypeOK
<1> SUFFICES ASSUME Init PROVE TypeOK
  OBVIOUS
<1>1. next \in 1..(NSockets + 1) /\ waited \in 0..Timeout /\ elapsed \in 0..MinWait
        /\ tend \in 0..MinWait /\ arrivals \in 0..MaxArrivals
  BY SocketsAssumption, TimeAssumption, ArrivalsAssumption DEF Init
<1>2. QED
  BY <1>1 DEF Init, TypeOK

LEMMA MainType == TypeOK /\ MainStep => TypeOK'
<1> SUFFICES ASSUME TypeOK, MainStep
             PROVE  TypeOK'
  OBVIOUS
<1> USE SocketsAssumption, TimeAssumption DEF TypeOK, mainVars, listenVars, netVars
<1>1. CASE SkipSocket
  BY <1>1 DEF SkipSocket
<1>2. CASE SendRequest
  BY <1>2, FreshAssumption DEF SendRequest
<1>3. CASE AllSent
  BY <1>3 DEF AllSent
<1>4. CASE StartListener
  BY <1>4 DEF StartListener
<1>5. CASE AllStarted
  BY <1>5 DEF AllStarted
<1>6. CASE Block
  <2>1. waited' \in 0..Timeout
    BY <1>6 DEF Block
  <2>2. QED
    BY <1>6, <2>1 DEF Block
<1>7. CASE TakeAll
  BY <1>7 DEF TakeAll
<1>8. CASE WaitAgain
  BY <1>8 DEF WaitAgain
<1>9. CASE TimeOut
  BY <1>9 DEF TimeOut
<1>10. CASE Again
  BY <1>10 DEF Again
<1>11. CASE Enough
  BY <1>11 DEF Enough
<1>12. CASE Stop
  BY <1>12 DEF Stop
<1>13. CASE Join
  BY <1>13 DEF Join
<1>14. QED
  BY <1>1, <1>2, <1>3, <1>4, <1>5, <1>6, <1>7, <1>8, <1>9, <1>10, <1>11, <1>12, <1>13
  DEF MainStep

LEMMA ListenerType ==
  ASSUME TypeOK, NEW s \in Sockets, ListenerStep(s)
  PROVE  TypeOK'
<1> USE DEF TypeOK, mainVars, listenVars, netVars
<1>1. CASE LoopHead(s)
  BY <1>1 DEF LoopHead
<1>2. CASE NothingReceived(s)
  BY <1>2 DEF NothingReceived
<1>3. CASE Receive(s)
  <2>1. PICK p \in buffer[s] :
           /\ buffer' = [buffer EXCEPT ![s] = @ \ {p}]
           /\ IF IsAnswer(p)
                THEN /\ hold' = [hold EXCEPT ![s] = {p}]
                     /\ pc' = [pc EXCEPT ![s] = "push"]
                ELSE /\ pc' = [pc EXCEPT ![s] = "loop"]
                     /\ UNCHANGED hold
    BY <1>3 DEF Receive
  <2>2. buffer' \in [Sockets -> SUBSET Packets] /\ hold' \in [Sockets -> SUBSET Packets]
    BY <2>1
  <2>3. pc' \in [Sockets -> {"off", "loop", "select", "push", "notify", "done"}]
    BY <2>1
  <2>4. QED
    BY <1>3, <2>2, <2>3 DEF Receive
<1>4. CASE Push(s)
  BY <1>4 DEF Push
<1>5. CASE Notify(s)
  BY <1>5 DEF Notify
<1>6. QED
  BY <1>1, <1>2, <1>3, <1>4, <1>5 DEF ListenerStep

LEMMA WorldType ==
  ASSUME TypeOK, \/ \E s \in Sockets : Stray(s)
                 \/ \E d \in Devices : Answer(d)
                 \/ Tick
  PROVE  TypeOK'
<1> USE DEF TypeOK, mainVars, listenVars, netVars
<1>1. ASSUME NEW s \in Sockets, Stray(s)
      PROVE  TypeOK'
  BY <1>1, ArrivalsAssumption, ForeignAssumption DEF Stray
<1>2. ASSUME NEW d \in Devices, Answer(d)
      PROVE  TypeOK'
  <2>1. PICK r \in sent : \E copies \in Queued(r[2]) :
           /\ buffer' = [s \in Sockets |->
                           buffer[s] \union {Ack(t, r[1], d) : t \in copies \intersect {s}}]
           /\ answered' = answered \union {<<r[1], d>>}
    BY <1>2 DEF Answer
  <2>2. PICK copies :
           /\ buffer' = [s \in Sockets |->
                           buffer[s] \union {Ack(t, r[1], d) : t \in copies \intersect {s}}]
           /\ answered' = answered \union {<<r[1], d>>}
    BY <2>1
  <2>3. r[1] \in Ids
    BY <2>1
  <2>4. \A s \in Sockets : Ack(s, r[1], d) \in Packets
    BY <2>3 DEF Packets, Ack
  <2>5. buffer' \in [Sockets -> SUBSET Packets] /\ answered' \subseteq Ids \X Devices
    BY <2>2, <2>3, <2>4
  <2>6. arrivals' \in 0..MaxArrivals
    BY <1>2, ArrivalsAssumption DEF Answer
  <2>7. QED
    BY <1>2, <2>5, <2>6 DEF Answer
<1>3. CASE Tick
  BY <1>3, TimeAssumption DEF Tick
<1>4. QED
  BY <1>1, <1>2, <1>3

LEMMA StutterType == TypeOK /\ UNCHANGED vars => TypeOK'
  BY DEF TypeOK, vars

LEMMA StepType == TypeOK /\ [Next]_vars => TypeOK'
  BY MainType, ListenerType, WorldType, StutterType DEF Next, Destroyed

\* The object, its threads and the network stay within their types.
THEOREM TypeCorrect == Spec => []TypeOK
  BY InitType, StepType, PTL DEF Spec

-----------------------------------------------------------------------------
(* The lifetime of the object                                              *)

\* Only SendRequest draws numbers, and no listener exists before the last one.
NoListenerYet == main = "send" => \A s \in Sockets : pc[s] = "off"

LifeInv == TypeOK /\ NoListenerYet /\ NoUseAfterDestroy

LEMMA InitLife == Init => LifeInv
  BY InitType DEF Init, LifeInv, NoListenerYet, NoUseAfterDestroy

LEMMA StepLife == LifeInv /\ [Next]_vars => LifeInv'
<1> SUFFICES ASSUME LifeInv, [Next]_vars
             PROVE  NoListenerYet' /\ NoUseAfterDestroy'
  BY StepType DEF LifeInv
<1> USE DEF LifeInv, TypeOK, NoListenerYet, NoUseAfterDestroy, mainVars, listenVars, netVars
<1>1. CASE MainStep
  BY <1>1 DEF MainStep, SkipSocket, SendRequest, AllSent, StartListener, AllStarted, Block,
              TakeAll, WaitAgain, TimeOut, Again, Enough, Stop, Join
<1>2. ASSUME NEW s \in Sockets, ListenerStep(s)
      PROVE  NoListenerYet' /\ NoUseAfterDestroy'
  BY <1>2 DEF ListenerStep, LoopHead, NothingReceived, Receive, Push, Notify
<1>3. ASSUME NEW s \in Sockets, Stray(s)
      PROVE  NoListenerYet' /\ NoUseAfterDestroy'
  BY <1>3 DEF Stray
<1>4. ASSUME NEW d \in Devices, Answer(d)
      PROVE  NoListenerYet' /\ NoUseAfterDestroy'
  BY <1>4 DEF Answer
<1>5. CASE Tick
  BY <1>5 DEF Tick
<1>6. CASE UNCHANGED vars
  BY <1>6 DEF vars
<1>7. QED
  BY <1>1, <1>2, <1>3, <1>4, <1>5, <1>6 DEF Next, Destroyed

LEMMA LifeHolds == Spec => []LifeInv
  BY InitLife, StepLife, PTL DEF Spec

\* The destructor ends every thread before the members are destroyed.
THEOREM JoinsBeforeDestroying == Spec => []NoUseAfterDestroy
  BY LifeHolds, PTL DEF LifeInv

\* What discover.cc says of req_nums_, "final for the lifetime of this object",
\* holds in every step after the first listener was started.
THEOREM NumbersAreFinal == Spec => ReqNumsFrozen
<1>1. LifeInv /\ [Next]_vars => [(\E s \in Sockets : pc[s] # "off") => reqNums' = reqNums]_vars
  <2> SUFFICES ASSUME LifeInv, Next, NEW s \in Sockets, pc[s] # "off"
               PROVE  reqNums' = reqNums
    BY DEF vars
  <2>1. main # "send"
    BY DEF LifeInv, NoListenerYet
  <2> USE DEF mainVars
  <2>2. CASE MainStep
    BY <2>1, <2>2 DEF MainStep, SkipSocket, SendRequest, AllSent, StartListener, AllStarted,
                      Block, TakeAll, WaitAgain, TimeOut, Again, Enough, Stop, Join
  <2>3. ASSUME NEW t \in Sockets, ListenerStep(t)
        PROVE  reqNums' = reqNums
    BY <2>3 DEF ListenerStep, LoopHead, NothingReceived, Receive, Push, Notify
  <2>4. QED
    BY <2>2, <2>3 DEF Next, Stray, Answer, Tick, Destroyed, vars
<1>2. QED
  BY <1>1, LifeHolds, PTL DEF Spec, ReqNumsFrozen

-----------------------------------------------------------------------------
(* The waiting caller                                                      *)

LEMMA StepWakeup == TypeOK /\ NoLostWakeup /\ [Next]_vars => NoLostWakeup'
<1> SUFFICES ASSUME TypeOK, NoLostWakeup, [Next]_vars
             PROVE  NoLostWakeup'
  OBVIOUS
<1> USE DEF TypeOK, NoLostWakeup, mainVars, listenVars, netVars
<1>1. CASE MainStep
  BY <1>1 DEF MainStep, SkipSocket, SendRequest, AllSent, StartListener, AllStarted, Block,
              TakeAll, WaitAgain, TimeOut, Again, Enough, Stop, Join
<1>2. ASSUME NEW s \in Sockets, ListenerStep(s)
      PROVE  NoLostWakeup'
  <2>1. CASE LoopHead(s) \/ NothingReceived(s) \/ Receive(s)
    <3>1. \A t \in Sockets : pc[t] = "notify" => pc'[t] = "notify"
      BY <2>1 DEF LoopHead, NothingReceived, Receive
    <3>2. QED
      BY <2>1, <3>1 DEF LoopHead, NothingReceived, Receive
  <2>2. CASE Push(s)
    BY <2>2 DEF Push
  <2>3. CASE Notify(s)
    BY <2>3 DEF Notify
  <2>4. QED
    BY <1>2, <2>1, <2>2, <2>3 DEF ListenerStep
<1>3. CASE Tick
  BY <1>3 DEF Tick
<1>4. CASE UNCHANGED vars
  BY <1>4 DEF vars
<1>5. QED
  BY <1>1, <1>2, <1>3, <1>4 DEF Next, Destroyed, Stray, Answer

\* However the listeners and the caller interleave, the caller does not sleep
\* on a queued answer without a notification that reached it or is due.
THEOREM WakeupsAreNotLost == Spec => []NoLostWakeup
<1>1. Init => NoLostWakeup
  BY DEF Init, NoLostWakeup
<1>2. QED
  BY <1>1, StepWakeup, TypeCorrect, PTL DEF Spec

-----------------------------------------------------------------------------
(* The collection                                                          *)

\* Where the calling thread can be, and what it knows there: next tells a
\* collection from one that an exception ended.
CollectInv ==
  /\ main \in {"call", "wait", "test", "finish"} => next > NSockets
  /\ main = "failed" => next <= NSockets
  /\ main = "finish" => ~ret /\ tend >= MinWait
  /\ tend <= elapsed
  /\ \A s \in Sockets : pc[s] = "push" => \E p \in Packets : hold[s] = {p}

LEMMA InitCollect == Init => CollectInv
  BY SocketsAssumption DEF Init, CollectInv

LEMMA StepCollect == TypeOK /\ CollectInv /\ [Next]_vars => CollectInv'
<1> SUFFICES ASSUME TypeOK, CollectInv, [Next]_vars
             PROVE  CollectInv'
  OBVIOUS
<1> USE SocketsAssumption, TimeAssumption
    DEF TypeOK, CollectInv, GoOn, mainVars, listenVars, netVars
<1>1. CASE MainStep
  <2>1. \A s \in Sockets : pc'[s] = "push" => pc[s] = "push" /\ hold'[s] = hold[s]
    BY <1>1 DEF MainStep, SkipSocket, SendRequest, AllSent, StartListener, AllStarted, Block,
                TakeAll, WaitAgain, TimeOut, Again, Enough, Stop, Join
  <2>2. CASE SkipSocket \/ SendRequest \/ AllSent \/ StartListener \/ AllStarted
    <3>1. /\ tend' <= elapsed'
          /\ main' \in {"send", "start", "call", "failed"}
          /\ main' = "call" => next' > NSockets
          /\ main' = "failed" => next' <= NSockets
      BY <2>2 DEF SkipSocket, SendRequest, AllSent, StartListener, AllStarted
    <3>2. \A s \in Sockets : pc'[s] = "push" => \E p \in Packets : hold'[s] = {p}
      BY <2>1
    <3>3. QED
      BY <3>1, <3>2
  <2>3. CASE Block \/ TakeAll \/ WaitAgain \/ TimeOut
    BY <2>1, <2>3 DEF Block, TakeAll, WaitAgain, TimeOut
  <2>4. CASE Again \/ Enough \/ Stop \/ Join
    BY SMTT(30), <2>1, <2>4 DEF Again, Enough, Stop, Join
  <2>5. QED
    BY <1>1, <2>2, <2>3, <2>4 DEF MainStep
<1>2. ASSUME NEW s \in Sockets, ListenerStep(s)
      PROVE  CollectInv'
  <2>1. \A t \in Sockets : pc'[t] = "push" => \E p \in Packets : hold'[t] = {p}
    <3>1. CASE Receive(s)
      <4>1. PICK p \in buffer[s] :
              IF IsAnswer(p)
                THEN /\ hold' = [hold EXCEPT ![s] = {p}]
                     /\ pc' = [pc EXCEPT ![s] = "push"]
                ELSE /\ pc' = [pc EXCEPT ![s] = "loop"]
                     /\ UNCHANGED hold
        BY <3>1 DEF Receive
      <4>2. p \in Packets
        BY DEF TypeOK
      <4>3. CASE IsAnswer(p)
        BY <4>1, <4>2, <4>3 DEF TypeOK, CollectInv
      <4>4. CASE ~IsAnswer(p)
        BY <4>1, <4>4 DEF TypeOK, CollectInv
      <4>5. QED
        BY <4>3, <4>4
    <3>2. CASE ~Receive(s)
      BY <1>2, <3>2 DEF ListenerStep, LoopHead, NothingReceived, Push, Notify
    <3>3. QED
      BY <3>1, <3>2
  <2>2. UNCHANGED <<main, next, ret, tend, elapsed>>
    BY <1>2 DEF ListenerStep, LoopHead, NothingReceived, Receive, Push, Notify
  <2>3. QED
    BY <2>1, <2>2
<1>3. CASE Tick
  <2>1. UNCHANGED <<main, next, ret, tend, pc, hold>>
    BY <1>3 DEF Tick
  <2>2. tend' <= elapsed'
    BY <1>3, <2>1 DEF Tick
  <2>3. QED
    BY <2>1, <2>2
<1>4. CASE UNCHANGED vars
  BY <1>4 DEF vars
<1>5. QED
  BY <1>1, <1>2, <1>3, <1>4 DEF Next, Destroyed, Stray, Answer

LEMMA CollectHolds == Spec => [](TypeOK /\ CollectInv)
  BY InitCollect, StepCollect, TypeCorrect, PTL DEF Spec

\* No interleaving ends a collection before its minimum duration.
THEOREM WaitsLongEnough == Spec => MinimumDuration
<1>1. TypeOK /\ CollectInv /\ [Next]_vars
        => [main = "test" /\ main' = "finish" => elapsed = MinWait]_vars
  <2> SUFFICES ASSUME TypeOK, CollectInv, Next, main = "test", main' = "finish"
               PROVE  elapsed = MinWait
    BY DEF vars
  <2> USE DEF mainVars
  <2>1. Enough
    BY DEF Next, MainStep, SkipSocket, SendRequest, AllSent, StartListener, AllStarted, Block,
           TakeAll, WaitAgain, TimeOut, Again, Stop, Join, ListenerStep, LoopHead,
           NothingReceived, Receive, Push, Notify, Stray, Answer, Tick, Destroyed, vars
  <2>2. QED
    BY <2>1, TimeAssumption DEF Enough, GoOn, TypeOK, CollectInv
<1>2. QED
  BY <1>1, CollectHolds, PTL DEF Spec, MinimumDuration

\* The threads, the queue and the timeouts implement the abstract collection:
\* every report is complete, and the loop closes only on a complete report.
THEOREM CollectionIsComplete == Spec => SessionSpec
<1> DEFINE arrived == infos \union pending
           closed == next > NSockets /\ (Decided \/ main \in {"join", "destroyed"})
           Report == ~closed /\ infos' = arrived /\ UNCHANGED <<arrived, closed>>
           Close == ~closed /\ infos = arrived /\ closed' /\ UNCHANGED <<arrived, infos>>
<1>1. Init => Session!Init
  BY SocketsAssumption DEF Init, Session!Init, Decided
<1>2. TypeOK /\ CollectInv /\ [Next]_vars => [Session!Next]_(Session!vars)
  <2> SUFFICES ASSUME TypeOK, CollectInv, [Next]_vars
               PROVE  [Session!Next]_(Session!vars)
    OBVIOUS
  <2>1. ASSUME UNCHANGED <<arrived, infos, closed>>
        PROVE  UNCHANGED Session!vars
    BY <2>1 DEF Session!vars
  <2>2. ASSUME Report
        PROVE  Session!Report \/ UNCHANGED Session!vars
    BY <2>2 DEF Session!Report, Session!vars
  <2>3. ASSUME Close
        PROVE  Session!Close
    BY <2>3 DEF Session!Close, Decided
  <2> USE SocketsAssumption, TimeAssumption
      DEF TypeOK, CollectInv, GoOn, Decided, mainVars, listenVars, netVars
  <2>4. CASE SkipSocket \/ SendRequest \/ AllSent \/ StartListener \/ AllStarted
    <3>1. UNCHANGED <<arrived, infos, closed>>
      BY <2>4 DEF SkipSocket, SendRequest, AllSent, StartListener, AllStarted
    <3>2. QED
      BY <2>1, <3>1
  <2>5. CASE Block \/ WaitAgain \/ Again \/ Enough \/ Stop \/ Join
    <3>1. UNCHANGED <<arrived, infos, closed>>
      BY <2>5 DEF Block, WaitAgain, Again, Enough, Stop, Join
    <3>2. QED
      BY <2>1, <3>1
  <2>6. CASE TakeAll
    <3>1. Report
      BY <2>6 DEF TakeAll
    <3>2. QED
      BY <2>2, <3>1 DEF Session!Next
  <2>7. CASE TimeOut
    <3>1. CASE tend >= MinWait
      <4>1. Close
        BY <2>7, <3>1 DEF TimeOut
      <4>2. QED
        BY <2>3, <4>1 DEF Session!Next
    <3>2. CASE tend < MinWait
      <4>1. UNCHANGED <<arrived, infos, closed>>
        BY <2>7, <3>2 DEF TimeOut
      <4>2. QED
        BY <2>1, <4>1
    <3>3. QED
      BY <3>1, <3>2
  <2>8. ASSUME NEW s \in Sockets, Push(s)
        PROVE  [Session!Next]_(Session!vars)
    <3>1. PICK p \in Packets : hold[s] = {p}
      BY <2>8 DEF Push
    <3>2. /\ infos' = infos
          /\ arrived' = arrived \union {p}
          /\ closed' = closed
      BY <2>8, <3>1 DEF Push
    <3>3. CASE p \in arrived
      BY <2>1, <3>2, <3>3
    <3>4. CASE p \notin arrived
      BY <3>2, <3>4 DEF Session!Next, Session!Arrive
    <3>5. QED
      BY <3>3, <3>4
  <2>9. ASSUME NEW s \in Sockets,
               LoopHead(s) \/ NothingReceived(s) \/ Receive(s) \/ Notify(s) \/ Stray(s)
        PROVE  UNCHANGED Session!vars
    <3>1. UNCHANGED <<arrived, infos, closed>>
      BY <2>9 DEF LoopHead, NothingReceived, Receive, Notify, Stray
    <3>2. QED
      BY <2>1, <3>1
  <2>10. ASSUME NEW d \in Devices, Answer(d)
         PROVE  UNCHANGED Session!vars
    BY <2>1, <2>10 DEF Answer
  <2>11. CASE Tick
    BY <2>1, <2>11 DEF Tick
  <2>12. CASE UNCHANGED vars
    BY <2>1, <2>12 DEF vars
  <2>13. QED
    BY <2>4, <2>5, <2>6, <2>7, <2>8, <2>9, <2>10, <2>11, <2>12
    DEF Next, MainStep, ListenerStep, Destroyed
<1>3. QED
  BY <1>1, <1>2, CollectHolds, PTL DEF Spec, SessionSpec, Session!Spec

-----------------------------------------------------------------------------
(* The answers                                                             *)

\* What OnlyOwnAnswers says of a packet.
Own(p) ==
  /\ p.form = "ack" /\ <<p.id, p.dev>> \in answered
  /\ <<p.dev, Iface[p.sock]>> \in Answering
  /\ wanted = {} \/ Iface[p.sock] \in wanted

\* Nothing but own answers gets past the buffers, and none is in two places:
\* an answer that is still in a buffer has not been taken before.
BufferInv ==
  \A s \in Sockets : \A p \in buffer[s] :
    /\ p.sock = s
    /\ IsAnswer(p) => Own(p) /\ p \notin hold[s] \union pending \union infos

HoldInv ==
  \A s \in Sockets : \A p \in hold[s] :
    p.sock = s /\ Own(p) /\ p \notin pending \union infos

\* While the requests go out the numbers still change, but every acknowledge
\* that names a device is already one to a request of this object.
SendInv ==
  main = "send" =>
    /\ pending = {} /\ infos = {}
    /\ \A s \in Sockets : hold[s] = {} /\ \A p \in buffer[s] : p.dev # NoDevice => Own(p)

\* A request has one of the numbers, and so has an answer.
NumbersInv ==
  /\ \A r \in sent : r[1] \in reqNums /\ (wanted = {} \/ r[2] \in wanted)
  /\ \A a \in answered : a[1] \in reqNums

\* Two packets with the same answer in them come from one broadcast.
Around == pending \union infos \union UNION {hold[s] \union buffer[s] : s \in Sockets}

OfOneBroadcast(p, q) == {p.sock, q.sock} \subseteq AnyAddress /\ Iface[p.sock] = Iface[q.sock]

CopiesInv ==
  \A p, q \in Around :
    Own(p) /\ Own(q) /\ p # q /\ p.id = q.id /\ p.dev = q.dev => OfOneBroadcast(p, q)

AnswersInv ==
  /\ NumbersInv
  /\ BufferInv
  /\ HoldInv
  /\ OnlyOwnAnswers
  /\ pending \intersect infos = {}
  /\ SendInv
  /\ CopiesInv

LEMMA InitAnswers == Init => AnswersInv
  BY DEF Init, AnswersInv, NumbersInv, BufferInv, HoldInv, OnlyOwnAnswers, SendInv, CopiesInv,
         Around

\* A step that brings no packet.
LEMMA SameCopies ==
  ASSUME CopiesInv, Around' \subseteq Around, UNCHANGED <<wanted, answered>>
  PROVE  CopiesInv'
<1>1. \A p : Own(p)' <=> Own(p)
  BY DEF Own
<1>2. QED
  BY <1>1 DEF CopiesInv, OfOneBroadcast

\* A step that leaves the queues, the packets and the numbers alone.
LEMMA SameAnswers ==
  ASSUME AnswersInv, main' = "send" => main = "send",
         UNCHANGED <<wanted, reqNums, pending, infos, hold, buffer, sent, answered>>
  PROVE  AnswersInv'
<1>1. Around' = Around
  BY DEF Around
<1>2. QED
  BY <1>1, SameCopies
  DEF AnswersInv, NumbersInv, BufferInv, HoldInv, OnlyOwnAnswers, SendInv, Own, IsAnswer

LEMMA MainAnswers == TypeOK /\ AnswersInv /\ MainStep => AnswersInv'
<1> SUFFICES ASSUME TypeOK, AnswersInv, MainStep
             PROVE  AnswersInv'
  OBVIOUS
<1> USE DEF mainVars, listenVars, netVars
<1>1. CASE SendRequest
  <2>1. main = "send" /\ main' \in {"send", "failed"}
    BY <1>1 DEF SendRequest
  <2>2. UNCHANGED <<wanted, pending, infos, hold, buffer, answered>>
    BY <1>1 DEF SendRequest
  <2>3. NumbersInv'
    <3>1. PICK n : /\ reqNums' = reqNums \union {n}
                   /\ sent' = sent \/ sent' = sent \union {<<n, Iface[next]>>}
      BY <1>1 DEF SendRequest
    <3>2. wanted = {} \/ Iface[next] \in wanted
      BY <1>1 DEF SendRequest, Selected
    <3>3. QED
      BY <2>2, <3>1, <3>2 DEF AnswersInv, NumbersInv
  <2>4. BufferInv'
    BY <2>1, <2>2 DEF AnswersInv, BufferInv, SendInv, Own, IsAnswer
  <2>5. HoldInv' /\ OnlyOwnAnswers' /\ SendInv'
    BY <2>1, <2>2 DEF AnswersInv, HoldInv, OnlyOwnAnswers, SendInv, Own
  <2>6. CopiesInv'
    <3>1. Around' = Around
      BY <2>2 DEF Around
    <3>2. QED
      BY <2>2, <3>1, SameCopies DEF AnswersInv
  <2>7. QED
    BY <2>2, <2>3, <2>4, <2>5, <2>6 DEF AnswersInv
<1>2. CASE TakeAll
  <2>1. main' # "send" /\ UNCHANGED <<wanted, reqNums, hold, buffer, sent, answered>>
    BY <1>2 DEF TakeAll
  <2>2. infos' = infos \union pending /\ pending' = {}
    BY <1>2 DEF TakeAll
  <2>3. CopiesInv'
    <3>1. Around' = Around
      BY <2>1, <2>2 DEF Around
    <3>2. QED
      BY <2>1, <3>1, SameCopies DEF AnswersInv
  <2>4. QED
    BY <2>1, <2>2, <2>3
    DEF AnswersInv, NumbersInv, BufferInv, HoldInv, OnlyOwnAnswers, SendInv, Own, IsAnswer
<1>3. CASE SkipSocket \/ AllSent \/ StartListener \/ AllStarted
  BY <1>3, SameAnswers DEF SkipSocket, AllSent, StartListener, AllStarted
<1>4. CASE Block \/ WaitAgain \/ TimeOut
  BY <1>4, SameAnswers DEF Block, WaitAgain, TimeOut
<1>5. CASE Again \/ Enough \/ Stop \/ Join
  BY <1>5, SameAnswers DEF Again, Enough, Stop, Join
<1>6. QED
  BY <1>1, <1>2, <1>3, <1>4, <1>5 DEF MainStep

LEMMA ListenerAnswers ==
  ASSUME TypeOK, NoListenerYet, AnswersInv, NEW s \in Sockets, ListenerStep(s)
  PROVE  AnswersInv'
<1> USE DEF mainVars, listenVars, netVars
<1>1. main # "send" /\ UNCHANGED <<wanted, main, reqNums, sent, answered>>
  BY DEF NoListenerYet, ListenerStep, LoopHead, NothingReceived, Receive, Push, Notify
<1>2. SendInv'
  BY <1>1 DEF SendInv
<1>3. CASE LoopHead(s) \/ NothingReceived(s) \/ Notify(s)
  BY <1>3, SameAnswers DEF LoopHead, NothingReceived, Notify
<1>4. CASE Receive(s)
  <2>1. PICK p \in buffer[s] :
           /\ buffer' = [buffer EXCEPT ![s] = @ \ {p}]
           /\ \/ IsAnswer(p) /\ hold' = [hold EXCEPT ![s] = {p}]
              \/ UNCHANGED hold
    BY <1>4 DEF Receive
  <2>2. UNCHANGED <<pending, infos>>
    BY <1>4 DEF Receive
  <2>3. p.sock = s /\ (IsAnswer(p) => Own(p) /\ p \notin hold[s] \union pending \union infos)
    BY DEF AnswersInv, BufferInv
  <2>4. \A t \in Sockets : /\ buffer'[t] \subseteq buffer[t]
                           /\ t = s => p \notin buffer'[t]
    BY <2>1 DEF TypeOK
  <2>5. \A t \in Sockets : \/ hold'[t] = hold[t]
                           \/ t = s /\ IsAnswer(p) /\ hold'[t] = {p}
    BY <2>1 DEF TypeOK
  <2>6. BufferInv'
    <3> SUFFICES ASSUME NEW t \in Sockets, NEW q \in buffer'[t]
                 PROVE  q.sock = t /\ (IsAnswer(q) => Own(q) /\ q \notin hold'[t] \union pending \union infos)
      BY <1>1, <2>2 DEF BufferInv, Own, IsAnswer
    <3>1. /\ q.sock = t
          /\ IsAnswer(q) => Own(q) /\ q \notin hold[t] \union pending \union infos
      BY <2>4 DEF AnswersInv, BufferInv
    <3>2. t = s => q # p
      BY <2>4
    <3>3. QED
      BY <2>5, <3>1, <3>2
  <2>7. HoldInv'
    <3> SUFFICES ASSUME NEW t \in Sockets, NEW q \in hold'[t]
                 PROVE  q.sock = t /\ Own(q) /\ q \notin pending \union infos
      BY <1>1, <2>2 DEF HoldInv, Own
    <3>1. CASE hold'[t] = hold[t]
      BY <3>1 DEF AnswersInv, HoldInv
    <3>2. CASE t = s /\ IsAnswer(p) /\ hold'[t] = {p}
      BY <2>3, <3>2
    <3>3. QED
      BY <2>5, <3>1, <3>2
  <2>8. CopiesInv'
    <3>1. Around' \subseteq Around
      BY <2>2, <2>4, <2>5, p \in buffer[s] DEF Around
    <3>2. QED
      BY <1>1, <3>1, SameCopies DEF AnswersInv
  <2>9. QED
    BY <1>1, <1>2, <2>2, <2>6, <2>7, <2>8 DEF AnswersInv, NumbersInv, OnlyOwnAnswers
<1>5. CASE Push(s)
  <2>1. pending' = pending \union hold[s] /\ hold' = [hold EXCEPT ![s] = {}]
    BY <1>5 DEF Push
  <2>2. UNCHANGED <<infos, buffer>>
    BY <1>5 DEF Push
  <2>3. \A t \in Sockets : hold'[t] = IF t = s THEN {} ELSE hold[t]
    BY <2>1 DEF TypeOK
  <2>4. \A p \in hold[s] : p.sock = s /\ Own(p) /\ p \notin pending \union infos
    BY DEF AnswersInv, HoldInv
  <2>5. BufferInv'
    <3> SUFFICES ASSUME NEW t \in Sockets, NEW q \in buffer[t]
                 PROVE  q.sock = t /\ (IsAnswer(q) => Own(q) /\ q \notin hold'[t] \union pending' \union infos)
      BY <1>1, <2>2 DEF BufferInv, Own, IsAnswer
    <3>1. /\ q.sock = t
          /\ IsAnswer(q) => Own(q) /\ q \notin hold[t] \union pending \union infos
      BY DEF AnswersInv, BufferInv
    <3>2. t # s => q \notin hold[s]
      BY <2>4, <3>1
    <3>3. QED
      BY <2>1, <2>3, <3>1, <3>2
  <2>6. HoldInv'
    <3> SUFFICES ASSUME NEW t \in Sockets, NEW q \in hold'[t]
                 PROVE  q.sock = t /\ Own(q) /\ q \notin pending' \union infos
      BY <1>1, <2>2 DEF HoldInv, Own
    <3>1. t # s /\ q \in hold[t]
      BY <2>3
    <3>2. q.sock = t /\ Own(q) /\ q \notin pending \union infos
      BY <3>1 DEF AnswersInv, HoldInv
    <3>3. QED
      BY <2>1, <2>4, <3>1, <3>2
  <2>7. OnlyOwnAnswers' /\ pending' \intersect infos' = {}
    BY <1>1, <2>1, <2>2, <2>4 DEF AnswersInv, OnlyOwnAnswers, Own
  <2>8. CopiesInv'
    <3>1. Around' \subseteq Around
      BY <2>1, <2>2, <2>3 DEF Around
    <3>2. QED
      BY <1>1, <3>1, SameCopies DEF AnswersInv
  <2>9. QED
    BY <1>1, <1>2, <2>5, <2>6, <2>7, <2>8 DEF AnswersInv, NumbersInv
<1>6. QED
  BY <1>3, <1>4, <1>5 DEF ListenerStep

LEMMA StrayAnswers ==
  ASSUME TypeOK, AnswersInv, NEW s \in Sockets, Stray(s)
  PROVE  AnswersInv'
<1> USE DEF mainVars, listenVars, netVars
<1>1. PICK p \in Foreign :
         /\ p.sock = s
         /\ p.form = "ack" /\ p.dev # NoDevice => p.id \notin reqNums
         /\ buffer' = [buffer EXCEPT ![s] = @ \union {p}]
  BY DEF Stray
<1>2. ~IsAnswer(p)
  BY <1>1 DEF IsAnswer
<1>3. main # "send" /\ UNCHANGED <<wanted, main, reqNums, pending, infos, hold, sent, answered>>
  BY DEF Stray
<1>4. \A t \in Sockets : \A q \in buffer'[t] : q \in buffer[t] \/ (t = s /\ q = p)
  BY <1>1 DEF TypeOK
<1>5. BufferInv'
  <2>1. \A q : (Own(q)' <=> Own(q)) /\ (IsAnswer(q)' <=> IsAnswer(q))
    BY <1>3 DEF Own, IsAnswer
  <2>2. SUFFICES ASSUME NEW t \in Sockets, NEW q \in buffer'[t]
                 PROVE  q.sock = t /\ (IsAnswer(q) => Own(q) /\ q \notin hold[t] \union pending \union infos)
    BY <1>3, <2>1 DEF BufferInv
  <2>3. CASE q \in buffer[t]
    BY <2>3 DEF AnswersInv, BufferInv
  <2>4. CASE t = s /\ q = p
    BY <1>1, <1>2, <2>4
  <2>5. QED
    BY <1>4, <2>3, <2>4
<1>6. ~Own(p)
  <2>1. CASE p.dev = NoDevice
    <3>1. <<p.id, p.dev>> \notin answered
      BY <2>1, DevicesAssumption DEF TypeOK
    <3>2. QED
      BY <3>1 DEF Own
  <2>2. CASE p.dev # NoDevice
    <3>1. p.form = "ack" => <<p.id, p.dev>> \notin answered
      BY <1>1, <2>2 DEF AnswersInv, NumbersInv
    <3>2. QED
      BY <3>1 DEF Own
  <2>3. QED
    BY <2>1, <2>2
<1>7. CopiesInv'
  <2>1. Around' \subseteq Around \union {p}
    BY <1>3, <1>4 DEF Around
  <2>2. \A q : Own(q)' <=> Own(q)
    BY <1>3 DEF Own
  <2>3. QED
    BY <1>6, <2>1, <2>2 DEF AnswersInv, CopiesInv, OfOneBroadcast
<1>8. QED
  BY <1>3, <1>5, <1>7 DEF AnswersInv, NumbersInv, HoldInv, OnlyOwnAnswers, SendInv, Own

LEMMA DeviceAnswers ==
  ASSUME TypeOK, AnswersInv, NEW d \in Devices, Answer(d)
  PROVE  AnswersInv'
<1> USE DEF mainVars, listenVars, netVars
<1>1. PICK r \in sent : \E copies \in Queued(r[2]) :
         /\ <<d, r[2]>> \in Answering
         /\ <<r[1], d>> \notin answered
         /\ buffer' = [s \in Sockets |->
                         buffer[s] \union {Ack(t, r[1], d) : t \in copies \intersect {s}}]
         /\ answered' = answered \union {<<r[1], d>>}
  BY DEF Answer
<1>2. PICK copies \in Queued(r[2]) :
         buffer' = [s \in Sockets |->
                      buffer[s] \union {Ack(t, r[1], d) : t \in copies \intersect {s}}]
  BY <1>1
<1>3. UNCHANGED <<wanted, main, reqNums, pending, infos, hold, sent>>
  BY DEF Answer
<1> DEFINE New(s) == Ack(s, r[1], d)
<1>4. /\ copies \subseteq {s \in Sockets : Iface[s] = r[2]}
      /\ \A s, t \in copies : s # t => {s, t} \subseteq AnyAddress
  BY DEF Queued
<1>5. r[1] \in reqNums /\ (wanted = {} \/ r[2] \in wanted)
  BY DEF AnswersInv, NumbersInv
<1>6. \A s \in copies : /\ New(s).sock = s
                        /\ New(s).id = r[1] /\ New(s).dev = d
                        /\ Own(New(s))' /\ ~Own(New(s))
  BY <1>1, <1>3, <1>4, <1>5 DEF Own, Ack
<1>7. \A t \in Sockets : \A q \in buffer'[t] : q \in buffer[t] \/ (t \in copies /\ q = New(t))
  BY <1>2
<1>8. \A q : Own(q) => Own(q)'
  BY <1>1, <1>3 DEF Own
<1>9. \A s \in Sockets : \A q \in hold[s] \union pending \union infos : Own(q)
  BY DEF AnswersInv, HoldInv, OnlyOwnAnswers, Own
<1> HIDE DEF New
<1>10. NumbersInv'
  BY <1>1, <1>3, <1>5 DEF AnswersInv, NumbersInv
<1>11. BufferInv'
  <2> SUFFICES ASSUME NEW t \in Sockets, NEW q \in buffer'[t]
               PROVE  /\ q.sock = t
                      /\ IsAnswer(q)' => Own(q)' /\ q \notin (hold[t] \union pending \union infos)'
    BY DEF BufferInv
  <2>1. IsAnswer(q)' <=> IsAnswer(q)
    BY <1>3 DEF IsAnswer
  <2>2. CASE q \in buffer[t]
    BY <1>3, <1>8, <2>1, <2>2 DEF AnswersInv, BufferInv
  <2>3. CASE t \in copies /\ q = New(t)
    <3>1. q.sock = t /\ Own(q)' /\ q \notin hold[t] \union pending \union infos
      BY <1>6, <1>9, <2>3
    <3>2. QED
      BY <1>3, <3>1
  <2>4. QED
    BY <1>7, <2>2, <2>3
<1>12. HoldInv'
  BY <1>3, <1>8 DEF AnswersInv, HoldInv
<1>13. OnlyOwnAnswers'
  <2>1. \A q \in pending \union infos : Own(q)'
    BY <1>8 DEF AnswersInv, OnlyOwnAnswers, Own
  <2>2. QED
    BY <1>3, <2>1 DEF OnlyOwnAnswers, Own
<1>14. SendInv'
  BY <1>3, <1>6, <1>7, <1>8 DEF AnswersInv, SendInv
<1>15. CopiesInv'
  \* A packet that the answer has made an own one is one of the new copies: one
  \* that was there before with this number and device would be an answer already.
  <2>1. ASSUME NEW p \in Around', Own(p)', ~Own(p)
        PROVE  \E s \in copies : p = New(s)
    <3>1. p.form = "ack" /\ p.id = r[1] /\ p.dev = d
      BY <1>1, <1>3, <2>1 DEF Own
    <3>2. IsAnswer(p)
      BY <1>5, <3>1, DevicesAssumption DEF IsAnswer
    <3>3. \A s \in Sockets : p \notin buffer[s] \union hold[s] \union pending \union infos
      BY <1>9, <2>1, <3>2 DEF AnswersInv, BufferInv
    <3>4. \/ p \in pending \union infos
          \/ \E s \in Sockets : p \in hold[s] \union buffer'[s]
      BY <1>3, <2>1 DEF Around
    <3>5. PICK s \in Sockets : p \in buffer'[s]
      <4>1. CASE p \in pending \union infos
        BY <2>1, <4>1 DEF AnswersInv, OnlyOwnAnswers, Own
      <4>2. QED
        BY <3>3, <3>4, <4>1
    <3>6. QED
      BY <1>7, <3>3, <3>5
  <2>2. ASSUME NEW p \in Around', Own(p)
        PROVE  p \in Around /\ ~(p.id = r[1] /\ p.dev = d)
    <3>1. p \in Around
      BY <1>3, <1>6, <1>7, <2>2 DEF Around
    <3>2. QED
      BY <1>1, <2>2, <3>1 DEF Own
  <2> SUFFICES ASSUME NEW p \in Around', NEW q \in Around', Own(p)', Own(q)',
                      p # q, p.id = q.id, p.dev = q.dev
               PROVE  OfOneBroadcast(p, q)
    BY DEF CopiesInv, OfOneBroadcast
  <2>3. CASE Own(p) /\ Own(q)
    BY <2>2, <2>3 DEF AnswersInv, CopiesInv
  <2>4. CASE ~Own(p) /\ ~Own(q)
    <3>1. PICK s \in copies : p = New(s)
      BY <2>1, <2>4
    <3>2. PICK t \in copies : q = New(t)
      BY <2>1, <2>4
    <3>3. QED
      BY <1>4, <1>6, <3>1, <3>2 DEF OfOneBroadcast
  <2>5. CASE Own(p) /\ ~Own(q)
    BY <1>6, <2>1, <2>2, <2>5
  <2>6. CASE ~Own(p) /\ Own(q)
    BY <1>6, <2>1, <2>2, <2>6
  <2>7. QED
    BY <2>3, <2>4, <2>5, <2>6
<1>16. QED
  BY <1>3, <1>10, <1>11, <1>12, <1>13, <1>14, <1>15 DEF AnswersInv

LEMMA StepAnswers == LifeInv /\ AnswersInv /\ [Next]_vars => AnswersInv'
<1> SUFFICES ASSUME TypeOK, NoListenerYet, AnswersInv, [Next]_vars
             PROVE  AnswersInv'
  BY DEF LifeInv
<1>1. CASE Tick \/ UNCHANGED vars
  BY <1>1, SameAnswers DEF Tick, vars, mainVars, listenVars, netVars
<1>2. QED
  BY <1>1, MainAnswers, ListenerAnswers, StrayAnswers, DeviceAnswers DEF Next, Destroyed

LEMMA AnswersHold == Spec => []AnswersInv
  BY InitAnswers, StepAnswers, LifeHolds, PTL DEF Spec

\* Late acknowledges, foreign packets and answers without an address are kept
\* apart by the number alone, for any number of sockets, devices and strays.
THEOREM NothingForeignIsReported == Spec => []OnlyOwnAnswers
  BY AnswersHold, PTL DEF AnswersInv

\* Along buffer, listener, queue and caller a packet is passed on, not copied: the
\* caller is given an answer twice only if the network delivered it twice, as a
\* broadcast to sockets that are bound to any address.
THEOREM NothingIsReportedTwice == Spec => []HandedOnOnce
<1>1. AnswersInv => HandedOnOnce
  <2> SUFFICES ASSUME AnswersInv PROVE HandedOnOnce
    OBVIOUS
  <2>1. \A s \in Sockets : hold[s] \intersect (pending \union infos) = {}
    BY DEF AnswersInv, HoldInv
  <2>2. \A p \in pending \union infos : p \in Around /\ Own(p)
    BY DEF AnswersInv, OnlyOwnAnswers, Own, Around
  <2>3. \A p, q \in pending \union infos :
          p # q /\ p.id = q.id /\ p.dev = q.dev => OfOneBroadcast(p, q)
    BY <2>2 DEF AnswersInv, CopiesInv
  <2>4. QED
    BY <2>1, <2>3 DEF AnswersInv, HandedOnOnce, OfOneBroadcast
<1>2. QED
  BY <1>1, AnswersHold, PTL

=============================================================================
