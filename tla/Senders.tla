------------------------------ MODULE Senders ------------------------------
(***************************************************************************)
(* The commands that go out on every interface: a discovery                *)
(* (Discover::broadcastRequest), FORCEIP (ForceIP) and the magic packet    *)
(* (WOL).  Each command makes a set of sockets from the interface table of *)
(* the computer, sends on one after the other, with a request number of    *)
(* its own for each unless it is a magic packet, and closes them.  Several *)
(* threads do so at the same time and draw their numbers from the counter  *)
(* of RequestCounter.                                                      *)
(***************************************************************************)
EXTENDS RequestCounter, Enumeration, Sequences

CONSTANTS
  Hosts,     \* computers: the operating system and its interfaces in order
  Commands,  \* what the threads send: "discover", "force", "wake"
  Wanted     \* the interfaces given to broadcastRequest, {} for all

ASSUME CommandsAssumption == Commands \subseteq {"discover", "force", "wake"}

\* GetAdaptersInfo of Windows does not list the loopback interface.
ASSUME HostsAssumption ==
  \A h \in Hosts :
    /\ Len(h.rows) \in Nat /\ DOMAIN h.rows = 1 .. Len(h.rows)
    /\ h.os = "linux" \/ \A i \in DOMAIN h.rows : ~({"adapter", "loopback"} \subseteq h.rows[i].traits)

VARIABLES
  host,     \* the computer the program runs on
  command,  \* the command of each thread, "none" before it
  stage,    \* where its thread is in it
  next,     \* the socket it handles
  tried,    \* history: the sockets it has tried to send on, in order
  open,     \* how many sockets it has open in the operating system
  leaked,   \* TRUE once a constructor has thrown with its socket open
  wire      \* history: the numbered packets that were sent

commandVars == <<command, stage, next, tried, open, leaked>>
allVars == <<vars, host, commandVars, wire>>

-----------------------------------------------------------------------------
(* The sockets of a computer: createAndBindForAllInterfaces                *)

\* It belongs to a row of the table; an interface with two addresses has two.
Socket(i, dst) == [row |-> i, dst |-> dst]

\* Linux: the rows of getifaddrs that get sockets.  The loopback is the row named
\* "lo", on Windows the one of 127.0.0.1.
Usable(row) == {"up", "address", "broadcast"} \subseteq row.traits /\ "loopback" \notin row.traits

\* The limited broadcast, a receiver for it without a destination, and the
\* directed broadcast, for each row.
LinuxSockets(rows) ==
  LET usable == Ascending({i \in DOMAIN rows : Usable(rows[i])})
      dsts == <<"limited", "none", "directed">>
  IN  [k \in 1 .. 3 * Len(usable) |-> Socket(usable[(k + 2) \div 3], dsts[1 + ((k + 2) % 3)])]

\* Windows: the limited broadcast wherever the forward table has a direct route
\* for it, then the directed broadcast of every address; both tables name
\* interfaces that must be those of an adapter.
Routed(row) == {"adapter", "route"} \subseteq row.traits
Addressed(row) == {"adapter", "address"} \subseteq row.traits /\ "loopback" \notin row.traits

WindowsSockets(rows) ==
  LET routes == Ascending({i \in DOMAIN rows : Routed(rows[i])})
      addresses == Ascending({i \in DOMAIN rows : Addressed(rows[i])})
  IN  [k \in 1 .. Len(routes) + Len(addresses) |->
         IF k <= Len(routes) THEN Socket(routes[k], "limited")
         ELSE Socket(addresses[k - Len(routes)], "directed")]

Sockets == IF host.os = "linux" THEN LinuxSockets(host.rows) ELSE WindowsSockets(host.rows)

\* Only a discovery has a filter.
Selected(t, s) == command[t] # "discover" \/ Wanted = {} \/ host.rows[s.row].name \in Wanted

-----------------------------------------------------------------------------

SendersInit ==
  /\ Init
  /\ host \in Hosts
  /\ command = [t \in Threads |-> "none"]
  /\ stage = [t \in Threads |-> "idle"]
  /\ next = [t \in Threads |-> 1]
  /\ tried = [t \in Threads |-> << >>]
  /\ open = [t \in Threads |-> 0]
  /\ leaked = [t \in Threads |-> FALSE]
  /\ wire = {}

\* Mutation of Leave: the handles are not closed.
LeaveOpen(t, how) ==
  /\ stage' = [stage EXCEPT ![t] = how]
  /\ UNCHANGED open

\* The sockets are destroyed, at the end of the scope or while an exception
\* passes.
Leave(t, how) ==
  /\ stage' = [stage EXCEPT ![t] = how]
  /\ open' = [open EXCEPT ![t] = 0]

\* The sockets are made from a snapshot of the table.  If one step fails (a
\* table cannot be read, socket, setsockopt or bind), those that exist are
\* closed again, but for the one whose constructor throws after socket: its
\* destructor does not run.
Create(t) ==
  /\ stage[t] = "idle"
  /\ \E c \in Commands : command' = [command EXCEPT ![t] = c]
  /\ \/ /\ stage' = [stage EXCEPT ![t] = "options"]
        /\ open' = [open EXCEPT ![t] = Len(Sockets)]
        /\ UNCHANGED leaked
     \/ /\ Leave(t, "failed")
        /\ UNCHANGED leaked
     \/ /\ host.os = "linux"
        /\ Sockets # << >>
        /\ stage' = [stage EXCEPT ![t] = "failed"]
        /\ open' = [open EXCEPT ![t] = 1]
        /\ leaked' = [leaked EXCEPT ![t] = TRUE]
  /\ UNCHANGED <<vars, host, next, tried, wire>>

\* Broadcast and non-blocking mode for all sockets before anything is sent; WOL
\* does so for each socket when it is its turn.
SetOptions(t) ==
  /\ stage[t] = "options"
  /\ \/ stage' = [stage EXCEPT ![t] = "sending"] /\ UNCHANGED open
     \/ command[t] # "wake" /\ Leave(t, "failed")
  /\ UNCHANGED <<vars, host, command, next, tried, leaked, wire>>

AtSocket(t) == stage[t] = "sending" /\ next[t] <= Len(Sockets)

Skip(t) ==
  /\ AtSocket(t)
  /\ ~Selected(t, Sockets[next[t]])
  /\ next' = [next EXCEPT ![t] = @ + 1]
  /\ UNCHANGED <<vars, host, command, stage, tried, open, leaked, wire>>

\* getNext, in its own steps.
DrawNumber(t) ==
  /\ AtSocket(t)
  /\ Selected(t, Sockets[next[t]])
  /\ command[t] # "wake"
  /\ Call(t) \/ Load(t) \/ Exchange(t) \/ Retry(t)
  /\ UNCHANGED <<host, commandVars, wire>>

\* The thread has what it needs to send.
Ready(t) ==
  /\ AtSocket(t)
  /\ Selected(t, Sockets[next[t]])
  /\ command[t] = "wake" \/ pc[t] = "holding"

GoOn(t) ==
  /\ next' = [next EXCEPT ![t] = @ + 1]
  /\ tried' = [tried EXCEPT ![t] = Append(@, Sockets[next[t]])]
  /\ UNCHANGED <<stage, open>>

Packet(t) == [by |-> t, at |-> next[t], num |-> id[t], ticket |-> ticket[t]]

\* The number is of no more use to this thread once the packet is out.
Used(t) == IF command[t] = "wake" THEN UNCHANGED vars ELSE Finish(t)

\* Mutation of Send: one number for all packets of a command.
SendSameNumber(t) ==
  /\ Ready(t)
  /\ Sockets[next[t]].dst # "none"
  /\ GoOn(t)
  /\ wire' = IF command[t] = "wake" THEN wire ELSE wire \union {Packet(t)}
  /\ UNCHANGED <<vars, host, command, leaked>>

\* send returns; a socket without a destination sends nothing.
Send(t) ==
  /\ Ready(t)
  /\ Used(t)
  /\ GoOn(t)
  /\ wire' = IF command[t] = "wake" \/ Sockets[next[t]].dst = "none"
               THEN wire ELSE wire \union {Packet(t)}
  /\ UNCHANGED <<host, command, leaked>>

\* Mutation of SendUnreachable: the exception ends the loop.
SendUnreachableBreaks(t) ==
  /\ Ready(t)
  /\ Sockets[next[t]].dst # "none"
  /\ Used(t)
  /\ next' = [next EXCEPT ![t] = Len(Sockets) + 1]
  /\ UNCHANGED <<host, command, stage, tried, open, leaked, wire>>

\* NetworkUnreachableException: on to the next socket.
SendUnreachable(t) ==
  /\ Ready(t)
  /\ Sockets[next[t]].dst # "none"
  /\ Used(t)
  /\ GoOn(t)
  /\ UNCHANGED <<host, command, leaked, wire>>

\* Any other exception, of send or (WOL) of setting the options, ends it.
SendFails(t) ==
  /\ Ready(t)
  /\ command[t] = "wake" \/ Sockets[next[t]].dst # "none"
  /\ Used(t)
  /\ Leave(t, "failed")
  /\ UNCHANGED <<host, command, next, tried, leaked, wire>>

Done(t) ==
  /\ stage[t] = "sending"
  /\ next[t] > Len(Sockets)
  /\ Leave(t, "done")
  /\ UNCHANGED <<vars, host, command, next, tried, leaked, wire>>

\* All commands are over.
Over == (\A t \in Threads : stage[t] \in {"failed", "done"}) /\ UNCHANGED allVars

SenderStep(t) ==
  \/ Create(t) \/ SetOptions(t) \/ Skip(t) \/ DrawNumber(t)
  \/ Send(t) \/ SendUnreachable(t) \/ SendFails(t) \/ Done(t)

SendersNext == Over \/ \E t \in Threads : SenderStep(t)

SendersSpec == SendersInit /\ [][SendersNext]_allVars

-----------------------------------------------------------------------------
(* Properties                                                              *)

\* A command that ends normally has been tried exactly once on each broadcast
\* address of each interface it is meant for, and on no other, whatever was
\* unreachable on the way (a reference computed from the table, not from the
\* sockets).
Meant(t, dst) ==
  {i \in DOMAIN host.rows :
     LET row == host.rows[i]
     IN  /\ command[t] # "discover" \/ Wanted = {} \/ row.name \in Wanted
         /\ "loopback" \notin row.traits
         /\ IF host.os = "linux" THEN {"up", "address", "broadcast"} \subseteq row.traits
            ELSE {"adapter", IF dst = "limited" THEN "route" ELSE "address"} \subseteq row.traits}

TriedEverywhereOnce ==
  \A t \in Threads : stage[t] = "done" =>
    \A dst \in {"limited", "directed"} :
      LET sends == {k \in DOMAIN tried[t] : tried[t][k].dst = dst}
      IN  /\ {tried[t][k].row : k \in sends} = Meant(t, dst)
          /\ \A j, k \in sends : tried[t][j].row = tried[t][k].row => j = k

\* Two packets on the network carry different numbers, whichever threads and
\* commands they come from, unless a full round of numbers lies between them;
\* none carries 0 and none a number that two bytes do not hold.
NumbersOnTheWire ==
  /\ \A p \in wire : p.num \in Ids
  /\ \A p, q \in wire : p # q /\ Near(p.ticket, q.ticket) => p.num # q.num

\* A command that is over holds no socket, on any way out, with one exception:
\* the socket of a constructor that threw.
SocketsAreClosed ==
  \A t \in Threads :
    stage[t] \in {"idle", "failed", "done"} => open[t] = IF leaked[t] THEN 1 ELSE 0

=============================================================================
