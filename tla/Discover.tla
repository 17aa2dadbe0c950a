------------------------------ MODULE Discover ------------------------------
(***************************************************************************)
(* rcdiscover::Discover and the loop of its callers: the calling thread    *)
(* (main) broadcasts a discovery command on every socket, starts one       *)
(* listener thread per socket, collects the answers with getResponse until *)
(* there is silence and a minimum time is over, and destroys the object.   *)
(* Every critical section of mutex_ is one step; notify_one, which the     *)
(* listeners call after they released the mutex, is a step of its own.     *)
(***************************************************************************)
EXTENDS Integers

CONSTANTS
  NSockets,    \* how many sockets createAndBindForAllInterfaces returned
  Iface,       \* the interface of each socket (several sockets may share one)
  Receivers,   \* the sockets that only listen: their send does nothing
  AnyAddress,  \* the sockets bound to INADDR_ANY and the port of their interface
  Filters,     \* the lists of interfaces given to broadcastRequest, {} for all
  Ids,         \* request numbers
  Fresh(_),    \* what getNext may return while those of a set are outstanding
  Devices,
  NoDevice,    \* the content of an acknowledge without a MAC address
  Answering,   \* the pairs <<device, interface>> over which a device is reached
  MinWait,     \* minimum duration of a collection (1000 ms), in ticks
  Timeout,     \* timeout of one getResponse (100 ms), in ticks
  Foreign,     \* the packets that may come in besides
  MaxArrivals  \* bound: how many acknowledges and other packets come in

Sockets == 1..NSockets

ASSUME SocketsAssumption ==
  /\ NSockets \in Nat
  /\ Receivers \subseteq Sockets
  /\ AnyAddress \subseteq Sockets
\* RequestCounter: outstanding numbers differ.
ASSUME FreshAssumption == \A used \in SUBSET Ids : Fresh(used) \subseteq Ids \ used
ASSUME TimeAssumption == MinWait \in Nat /\ Timeout \in Nat \ {0}
ASSUME ArrivalsAssumption == MaxArrivals \in Nat
ASSUME DevicesAssumption == NoDevice \notin Devices

\* A packet in the buffer of a socket.  An "ack" has the header of a discovery
\* acknowledge and is as long as its header says, an "other" packet is not.
Packets ==
  [sock : Sockets, id : Ids, dev : Devices \union {NoDevice}, form : {"ack", "other"}]

ASSUME ForeignAssumption == Foreign \subseteq Packets

VARIABLES
  wanted,    \* the filter of this call
  main,      \* where the calling thread is
  next,      \* the socket that broadcastRequest or startListening handles
  reqNums,   \* req_nums_
  stop,      \* stop_
  pending,   \* pending_
  infos,     \* what getResponse has handed to the caller
  ret,       \* the result of the last getResponse
  awake,     \* a notification has reached the waiting caller
  waited,    \* ticks since the caller began to wait, up to Timeout
  elapsed,   \* ticks since tstart, up to MinWait
  tend,      \* tend - tstart in ticks
  pc,        \* where each listener is
  hold,      \* the packet a listener works on
  buffer,    \* packets the kernel keeps for each socket
  sent,      \* requests that went out: <<number, interface>>
  answered,  \* <<number, device>> of the answers that came back
  arrivals   \* how many packets came in, the copies of a broadcast as one

mainVars == <<main, next, reqNums, stop, infos, ret, waited, tend>>
listenVars == <<pc, hold>>
netVars == <<wanted, sent, answered, arrivals>>
vars == <<wanted, main, next, reqNums, stop, pending, infos, ret, awake, waited, elapsed,
          tend, pc, hold, buffer, sent, answered, arrivals>>

Init ==
  /\ wanted \in Filters
  /\ main = "send"
  /\ next = 1
  /\ reqNums = {}
  /\ stop = FALSE
  /\ pending = {}
  /\ infos = {}
  /\ ret = FALSE
  /\ awake = FALSE
  /\ waited = 0
  /\ elapsed = 0
  /\ tend = 0
  /\ pc = [s \in Sockets |-> "off"]
  /\ hold = [s \in Sockets |-> {}]
  /\ buffer = [s \in Sockets |-> {}]
  /\ sent = {}
  /\ answered = {}
  /\ arrivals = 0

-----------------------------------------------------------------------------
(* The calling thread: broadcastRequest                                    *)

\* The filter on interface names.
Selected(s) == wanted = {} \/ Iface[s] \in wanted

SkipSocket ==
  /\ main = "send"
  /\ next <= NSockets
  /\ ~Selected(next)
  /\ next' = next + 1
  /\ UNCHANGED <<main, reqNums, stop, infos, ret, waited, tend, pending, awake, elapsed,
                 listenVars, buffer, netVars>>

\* A number is drawn and stored before the command is sent.  An unreachable
\* network is ignored; any other failure ends broadcastRequest.
SendRequest ==
  /\ main = "send"
  /\ next <= NSockets
  /\ Selected(next)
  /\ \E n \in Fresh(reqNums) :
       /\ reqNums' = reqNums \union {n}
       /\ \/ /\ next' = next + 1
             /\ sent' = IF next \in Receivers THEN sent
                        ELSE sent \union {<<n, Iface[next]>>}
             /\ UNCHANGED main
          \/ /\ next \notin Receivers  \* NetworkUnreachableException
             /\ next' = next + 1
             /\ UNCHANGED <<main, sent>>
          \/ /\ next \notin Receivers  \* SocketException
             /\ main' = "failed"
             /\ UNCHANGED <<next, sent>>
  /\ UNCHANGED <<stop, infos, ret, waited, tend, pending, awake, elapsed,
                 listenVars, buffer, wanted, answered, arrivals>>

AllSent ==
  /\ main = "send"
  /\ next > NSockets
  /\ main' = "start"
  /\ next' = 1
  /\ UNCHANGED <<reqNums, stop, infos, ret, waited, tend, pending, awake, elapsed,
                 listenVars, buffer, netVars>>

\* startListening; creating a thread may fail, which is an exception too.
StartListener ==
  /\ main = "start"
  /\ next <= NSockets
  /\ \/ /\ pc' = [pc EXCEPT ![next] = "loop"]
        /\ next' = next + 1
        /\ UNCHANGED main
     \/ /\ main' = "failed"
        /\ UNCHANGED <<pc, next>>
  /\ UNCHANGED <<reqNums, stop, infos, ret, waited, tend, pending, awake, elapsed,
                 hold, buffer, netVars>>

\* broadcastRequest returns, the caller reads the clock and asks.
AllStarted ==
  /\ main = "start"
  /\ next > NSockets
  /\ main' = "call"
  /\ elapsed' = 0
  /\ tend' = 0
  /\ UNCHANGED <<next, reqNums, stop, infos, ret, waited, pending, awake,
                 listenVars, buffer, netVars>>

-----------------------------------------------------------------------------
(* The calling thread: getResponse, the loop around it and the destructor  *)

\* wait_for finds the predicate false and blocks; the mutex is released in
\* the same step.
Block ==
  /\ main = "call"
  /\ pending = {}
  /\ main' = "wait"
  /\ waited' = 0
  /\ awake' = FALSE
  /\ UNCHANGED <<next, reqNums, stop, infos, ret, tend, pending, elapsed,
                 listenVars, buffer, netVars>>

\* Mutation of TakeAll: the queue is not cleared.
TakeAllAndKeep ==
  /\ main \in {"call", "wait"}
  /\ pending # {}
  /\ infos' = infos \union pending
  /\ ret' = TRUE
  /\ main' = "test"
  /\ awake' = FALSE
  /\ UNCHANGED <<next, reqNums, stop, waited, tend, pending, elapsed,
                 listenVars, buffer, netVars>>

\* wait_for returns TRUE: the predicate held at once, after a notification, at
\* the timeout or at a spurious wakeup.  Everything pending is handed over.
TakeAll ==
  /\ main \in {"call", "wait"}
  /\ pending # {}
  /\ infos' = infos \union pending
  /\ pending' = {}
  /\ ret' = TRUE
  /\ main' = "test"
  /\ awake' = FALSE
  /\ UNCHANGED <<next, reqNums, stop, waited, tend, elapsed,
                 listenVars, buffer, netVars>>

\* A notification whose answer was taken before: the caller blocks again.
WaitAgain ==
  /\ main = "wait"
  /\ awake
  /\ pending = {}
  /\ awake' = FALSE
  /\ UNCHANGED <<mainVars, pending, elapsed, listenVars, buffer, netVars>>

\* Mutation of TimeOut: the queue is not looked at again after the timeout.
TimeOutBlind ==
  /\ main = "wait"
  /\ waited = Timeout
  /\ ret' = FALSE
  /\ main' = "test"
  /\ awake' = FALSE
  /\ UNCHANGED <<next, reqNums, stop, infos, waited, tend, pending, elapsed,
                 listenVars, buffer, netVars>>

\* The timeout expires and the predicate is still false.
TimeOut ==
  /\ main = "wait"
  /\ waited = Timeout
  /\ pending = {}
  /\ ret' = FALSE
  /\ main' = "test"
  /\ awake' = FALSE
  /\ UNCHANGED <<next, reqNums, stop, infos, waited, tend, pending, elapsed,
                 listenVars, buffer, netVars>>

\* Mutation of GoOn: no minimum time.
GoOnWhileAnswers == ret

\* The condition of the loop: an answer, or less than the minimum time.
GoOn == ret \/ tend < MinWait

Again ==
  /\ main = "test"
  /\ GoOn
  /\ main' = "call"
  /\ tend' = elapsed
  /\ UNCHANGED <<next, reqNums, stop, infos, ret, waited, pending, awake, elapsed,
                 listenVars, buffer, netVars>>

Enough ==
  /\ main = "test"
  /\ ~GoOn
  /\ main' = "finish"
  /\ UNCHANGED <<next, reqNums, stop, infos, ret, waited, tend, pending, awake, elapsed,
                 listenVars, buffer, netVars>>

\* Mutations of Stop: the numbers are cleared before the joins; the flag that
\* ends the listeners is not set.
StopAndClear ==
  /\ main \in {"finish", "failed"}
  /\ stop' = TRUE
  /\ reqNums' = {}
  /\ main' = "join"
  /\ UNCHANGED <<next, infos, ret, waited, tend, pending, awake, elapsed,
                 listenVars, buffer, netVars>>

StopWithoutFlag ==
  /\ main \in {"finish", "failed"}
  /\ main' = "join"
  /\ UNCHANGED <<next, reqNums, stop, infos, ret, waited, tend, pending, awake, elapsed,
                 listenVars, buffer, netVars>>

\* ~Discover, at the end of the scope or while an exception passes.
Stop ==
  /\ main \in {"finish", "failed"}
  /\ stop' = TRUE
  /\ main' = "join"
  /\ UNCHANGED <<next, reqNums, infos, ret, waited, tend, pending, awake, elapsed,
                 listenVars, buffer, netVars>>

\* Mutation of Join: the listeners are detached.
Detach ==
  /\ main = "join"
  /\ main' = "destroyed"
  /\ UNCHANGED <<next, reqNums, stop, infos, ret, waited, tend, pending, awake, elapsed,
                 listenVars, buffer, netVars>>

\* The joins return in the order of the sockets: the last one when no listener
\* is running any more.  Then the members are destroyed.
Join ==
  /\ main = "join"
  /\ \A s \in Sockets : pc[s] \in {"off", "done"}
  /\ main' = "destroyed"
  /\ UNCHANGED <<next, reqNums, stop, infos, ret, waited, tend, pending, awake, elapsed,
                 listenVars, buffer, netVars>>

-----------------------------------------------------------------------------
(* A listener: listenOnSocket                                              *)

\* The head of the loop reads stop_ and goes into select or leaves.
LoopHead(s) ==
  /\ pc[s] = "loop"
  /\ pc' = [pc EXCEPT ![s] = IF stop THEN "done" ELSE "select"]
  /\ UNCHANGED <<mainVars, pending, awake, elapsed, hold, buffer, netVars>>

\* select times out or fails, or recvfrom has nothing to deliver after all.
NothingReceived(s) ==
  /\ pc[s] = "select"
  /\ pc' = [pc EXCEPT ![s] = "loop"]
  /\ UNCHANGED <<mainVars, pending, awake, elapsed, hold, buffer, netVars>>

\* Mutation of IsAnswer: the number is not looked up.
IsAcknowledge(p) == p.form = "ack" /\ p.dev # NoDevice

\* The tests on a received packet, up to isValid.
IsAnswer(p) == p.form = "ack" /\ p.id \in reqNums /\ p.dev # NoDevice

Receive(s) ==
  /\ pc[s] = "select"
  /\ \E p \in buffer[s] :
       /\ buffer' = [buffer EXCEPT ![s] = @ \ {p}]
       /\ IF IsAnswer(p)
            THEN /\ hold' = [hold EXCEPT ![s] = {p}]
                 /\ pc' = [pc EXCEPT ![s] = "push"]
            ELSE /\ pc' = [pc EXCEPT ![s] = "loop"]
                 /\ UNCHANGED hold
  /\ UNCHANGED <<mainVars, pending, awake, elapsed, netVars>>

\* Mutation of Push: nobody is notified.
PushSilently(s) ==
  /\ pc[s] = "push"
  /\ pending' = pending \union hold[s]
  /\ hold' = [hold EXCEPT ![s] = {}]
  /\ pc' = [pc EXCEPT ![s] = "loop"]
  /\ UNCHANGED <<mainVars, awake, elapsed, buffer, netVars>>

\* The answer joins the queue, under the mutex.
Push(s) ==
  /\ pc[s] = "push"
  /\ pending' = pending \union hold[s]
  /\ hold' = [hold EXCEPT ![s] = {}]
  /\ pc' = [pc EXCEPT ![s] = "notify"]
  /\ UNCHANGED <<mainVars, awake, elapsed, buffer, netVars>>

\* notify_one reaches the caller only while it waits.
Notify(s) ==
  /\ pc[s] = "notify"
  /\ awake' = (awake \/ main = "wait")
  /\ pc' = [pc EXCEPT ![s] = "loop"]
  /\ UNCHANGED <<mainVars, pending, elapsed, hold, buffer, netVars>>

-----------------------------------------------------------------------------
(* The environment                                                         *)

\* Time passes while the caller collects.
Tick ==
  /\ main \in {"call", "wait", "test"}
  /\ elapsed' = IF elapsed < MinWait THEN elapsed + 1 ELSE elapsed
  /\ waited' = IF main = "wait" /\ waited < Timeout THEN waited + 1 ELSE waited
  /\ UNCHANGED <<main, next, reqNums, stop, infos, ret, tend, pending, awake,
                 listenVars, buffer, netVars>>

\* The sockets that queue an acknowledge to a request of an interface, whose
\* sockets share a local port.  The flags of the request allow the device to
\* broadcast it: then each of them that is bound to any address queues a copy.
\* Otherwise, or if the buffers of the others are full, it is a single one.
Queued(iface) ==
  LET at == {s \in Sockets : Iface[s] = iface}
  IN  {{s} : s \in at} \union {at \intersect AnyAddress}

Ack(s, n, d) == [sock |-> s, id |-> n, dev |-> d, form |-> "ack"]

\* A device answers a request, or the answer is lost and never comes.
Answer(d) ==
  /\ arrivals < MaxArrivals
  /\ arrivals' = arrivals + 1
  /\ \E r \in sent : \E copies \in Queued(r[2]) :
       /\ <<d, r[2]>> \in Answering
       /\ <<r[1], d>> \notin answered
       /\ buffer' = [s \in Sockets |->
                       buffer[s] \union {Ack(t, r[1], d) : t \in copies \intersect {s}}]
       /\ answered' = answered \union {<<r[1], d>>}
  /\ UNCHANGED <<mainVars, pending, awake, elapsed, listenVars, wanted, sent>>

\* A packet that is no answer to this object: an acknowledge of somebody
\* else's request, one without a MAC address or not an acknowledge at all.
Stray(s) ==
  /\ main # "send"
  /\ arrivals < MaxArrivals
  /\ arrivals' = arrivals + 1
  /\ \E p \in Foreign :
       /\ p.sock = s
       /\ p.form = "ack" /\ p.dev # NoDevice => p.id \notin reqNums
       /\ buffer' = [buffer EXCEPT ![s] = @ \union {p}]
  /\ UNCHANGED <<mainVars, pending, awake, elapsed, listenVars, wanted, sent, answered>>

\* The object is gone.
Destroyed == main = "destroyed" /\ UNCHANGED vars

MainStep ==
  \/ SkipSocket \/ SendRequest \/ AllSent \/ StartListener \/ AllStarted
  \/ Block \/ TakeAll \/ WaitAgain \/ TimeOut \/ Again \/ Enough \/ Stop \/ Join

ListenerStep(s) ==
  LoopHead(s) \/ NothingReceived(s) \/ Receive(s) \/ Push(s) \/ Notify(s)

Next ==
  \/ MainStep
  \/ \E s \in Sockets : ListenerStep(s) \/ Stray(s)
  \/ \E d \in Devices : Answer(d)
  \/ Tick
  \/ Destroyed

Spec == Init /\ [][Next]_vars

\* The scheduler runs every thread that can run, and time passes.  A waiting
\* caller is sure to run only after a notification or the timeout; a spurious
\* wakeup is possible and never relied upon.  Devices owe no answer.
Woken == main = "wait" => awake \/ waited = Timeout

Fairness ==
  /\ WF_vars(MainStep /\ Woken)
  /\ \A s \in Sockets : WF_vars(ListenerStep(s))
  /\ WF_vars(Tick)

FairSpec == Spec /\ Fairness

-----------------------------------------------------------------------------
(* Properties                                                              *)

\* Type correctness of the object, its threads and the network around it.
TypeOK ==
  /\ wanted \in Filters
  /\ main \in {"send", "start", "call", "wait", "test", "finish", "failed", "join", "destroyed"}
  /\ next \in 1..(NSockets + 1)
  /\ reqNums \subseteq Ids
  /\ stop \in BOOLEAN
  /\ pending \subseteq Packets
  /\ infos \subseteq Packets
  /\ ret \in BOOLEAN
  /\ awake \in BOOLEAN
  /\ waited \in 0..Timeout
  /\ elapsed \in 0..MinWait
  /\ tend \in 0..MinWait
  /\ pc \in [Sockets -> {"off", "loop", "select", "push", "notify", "done"}]
  /\ hold \in [Sockets -> SUBSET Packets]
  /\ buffer \in [Sockets -> SUBSET Packets]
  /\ sent \subseteq Ids \X {Iface[s] : s \in Sockets}
  /\ answered \subseteq Ids \X Devices
  /\ arrivals \in 0..MaxArrivals

\* Whatever the caller is given is the answer of a device to a request of this
\* object, received on an interface over which the device is reached and which
\* the caller asked for; never a packet meant for somebody else.
OnlyOwnAnswers ==
  \A p \in pending \union infos :
    /\ p.form = "ack" /\ <<p.id, p.dev>> \in answered
    /\ <<p.dev, Iface[p.sock]>> \in Answering
    /\ wanted = {} \/ Iface[p.sock] \in wanted

\* A listener hands on an acknowledge once: what is on its way is in one place.
\* The caller may be given it more than once all the same (rcdiscover_discover.cc:
\* "remove multiple entries"), but only as the copies of a broadcast on the
\* sockets of one interface that are bound to any address.
HandedOnOnce ==
  /\ pending \intersect infos = {}
  /\ \A s \in Sockets : hold[s] \intersect (pending \union infos) = {}
  /\ \A p, q \in pending \union infos :
       p # q /\ p.id = q.id /\ p.dev = q.dev =>
         {p.sock, q.sock} \subseteq AnyAddress /\ Iface[p.sock] = Iface[q.sock]

\* The caller never sleeps on a queued answer unless a notification has reached
\* it or is about to: notify_one after the unlock loses no wakeup.
NoLostWakeup ==
  main = "wait" /\ pending # {} => awake \/ \E s \in Sockets : pc[s] = "notify"

\* When the object has been destroyed no thread uses its mutex, its condition
\* variable, its queue or its sockets any more.
NoUseAfterDestroy ==
  main = "destroyed" => \A s \in Sockets : pc[s] \in {"off", "done"}

\* The listeners read req_nums_ without a lock: it never changes while one of
\* them exists (discover.cc, comment before startListening).
ReqNumsFrozen == [][(\E s \in Sockets : pc[s] # "off") => reqNums' = reqNums]_vars

\* A collection ends only after the minimum duration (CHANGELOG 1.1.6: "Always
\* wait minimum of 1 seconds for getting responses").
MinimumDuration == [][main = "test" /\ main' = "finish" => elapsed = MinWait]_vars

\* The collection ends and the object is destroyed, whatever comes in.
Ends == <>(main = "destroyed")

-----------------------------------------------------------------------------
(* Refinement                                                              *)

\* The collection is decided when getResponse finds nothing and the minimum
\* time is over: the rest of the loop only acts on it.
Decided == main \in {"test", "finish"} /\ ~ret /\ tend >= MinWait

\* A collection that was given up by an exception (next stands still) is none.
Session == INSTANCE AnswerCollection WITH
  Answers <- Packets,
  arrived <- infos \union pending,
  reported <- infos,
  closed <- next > NSockets /\ (Decided \/ main \in {"join", "destroyed"})

\* The threads, the lock and the timeouts together keep the promise of the
\* abstract collection: what getResponse reports grows by everything that has
\* arrived, and the loop gives up only when nothing that arrived is unreported.
SessionSpec == Session!Spec

=============================================================================
