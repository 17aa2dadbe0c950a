# Verification of rcdiscover

TLA+ models of [rcdiscover](https://github.com/roboception/rcdiscover), the
tool that discovers GigE Vision devices in the local network and configures
their IP address: what the concurrent and the networked parts of the code do,
checked with TLC on small instances, and theorems about them proved with TLAPS
for every instance.

Paths below are relative to the repository. Line numbers are in `PROJECT.json`
(`map`), which names the code behind every definition.

## 1. The system

| Component | State | Operations | Interacts with |
|---|---|---|---|
| request counter (`rcdiscover/gige_request_counter.cc`) | one static atomic per process | `getNext` | called by discovery, force IP and the IP configuration, from two threads in the GUI |
| discovery (`rcdiscover/discover.cc`) | sockets, `req_nums_`, listener threads, `stop_`, `mutex_`, `cv_`, `pending_` | constructor, `broadcastRequest`, `getResponse`, destructor, one `listenOnSocket` per thread | request counter, sockets, device information; used by the CLI and by the GUI's discover thread |
| collection loop (`cli_utils.cc`, `rcdiscover_discover.cc`, `discover_window.cc`) | `infos`, `tstart`, `tend` | loop around `getResponse`, sort, remove duplicates, filter, print | discovery |
| device information (`deviceinfo.cc`) | the fields of an answer | `set` by length, `isValid`, `operator<` | discovery, CLI, device list |
| IP configuration (`rcdiscover/gvcp_ip_config.cc`) | a socket; locals of a call | `readConfig`, `writeConfig` (register reads and writes with three attempts each) | request counter, the device, other clients of the device |
| force IP, reset (`force_ip.cc`, `wol.cc`) | sockets | one broadcast command on every socket | request counter (force IP only), sockets |
| sockets (`socket_linux.cc`, `socket_windows.cc`) | handle, destination, interface | creation for all interfaces, `send` | everything that sends |
| reachability (`ping.cc`) | none | `checkReachabilityOfSensor`: runs `ping` and waits for it | CLI table, GUI discover thread (under the toolkit lock) |
| utilities (`utils.h`) | none | `wildcardMatch`, `split`, `string2byte`, formatting | CLI |
| command line tool (`tools/rcdiscover.cc`, `tools/rcdiscover-cli`) | words, filter, list of devices | `ls`, `forceip`, `reset`, `reconnect` | discovery, force IP, reset |
| main window (`discover_window.cc`) | `running`, the thread, buttons | `doDiscover`, `discoverThread`, `update`, `doClose` | device list, dialogs, discovery |
| device list (`device_list.cc`) | devices, `index` (filtered and sorted), sorting, filter, selection | `clear`, `add`, `filter`, `setSorting`, clicks | main window |
| dialogs (`*_window.cc`, `device_choice.cc`, `input_*.cc`) | the forms | `updateDevices`, `update`, the buttons | force IP, reset, IP configuration |
| settings (`tools/rcdiscover-gui.cc`) | a file | read at the start, written at the end | device list, main window |

What is hard about it:

* **Threads.** One listener per socket pushes answers into a queue that the
  caller empties while it waits with a timeout; the destructor runs while they
  are at work. Two threads of the GUI draw request numbers. The discover thread
  and the callbacks of the GUI share the device list under the toolkit lock.
* **The network.** Requests and acknowledges are UDP packets: lost, late,
  duplicated by the code's own retransmissions, or somebody else's. Only the
  request number tells them apart.
* **Partial failure.** The configuration of a device is a sequence of register
  writes under an exclusive privilege that must be given back on every path.
* **Time.** A discovery ends on silence, but not before a minimum time.

The hazards of `PROJECT.json` name the lines where this bites.

What makes each component correct:

* *request counter*: concurrent calls never receive the same number, 0 is
  skipped, a call is atomic.
* *discovery*: it reports answers to its own requests, no acknowledge twice and
  none lost;
  the caller does not sleep on an answer; the collection lasts its minimum time,
  ends, and is complete when it ends; no thread survives the object.
* *IP configuration*: commands take effect in order, success means that all of
  them did, bits of others are preserved, a half written address is never
  switched on, control is released, late acknowledges do no harm.
* *device list*: one entry per device, merged from its answers; rows show the
  devices that pass the filter in sorted order; the selection denotes the device
  the user chose; highlighted devices are new.
* *main window*: the two threads exclude each other; a join does not wait for a
  thread that waits for the lock; every discovery ends and the button comes
  back; the buttons fit the selection.
* *commands on all sockets*: every interface is tried once on each of its
  broadcast addresses, packets on the network differ in their numbers, sockets
  are closed on every way out.
* *command line*: the selection is what the filter means, a device is shown in
  one line, a command goes to the devices the user was shown and agreed to, an
  address to one device only.
* *dialogs*: the form shows the device of the menu, what is sent was confirmed
  and is complete, the configuration of one device does not reach another, the
  proposed mask and gateway fit the address.
* *settings*: the next start finds what the last end stored, or defaults.

## 2. The modules

| Module | What it is |
|---|---|
| `RequestIds` | constants and the successor of a request number |
| `AtomicCounter` | abstract: a counter whose calls are indivisible |
| `RequestCounter` | `getNext`: load, compare-and-exchange, retry |
| `Senders` | extends `RequestCounter`: discovery, force IP and magic packets on all sockets of a computer, from several threads |
| `SendersProofs` | theorems about the counter and about the senders |
| `AnswerCollection` | abstract: answers arrive, are reported, the collection closes |
| `Discover` | the discovery object, its threads, its caller |
| `DiscoverProofs` | theorems about it |
| `OrderedWrites` | abstract: the effects of a plan happen in order |
| `GvcpIPConfig` | `readConfig` and `writeConfig` against a device |
| `GvcpIPConfigProofs` | theorems about it |
| `CliCommands` | the command line tool from its words to the commands it sends |
| `CliCommandsProofs` | theorems about it |
| `DeviceList` | the table of devices: rows, filter, sorting, selection |
| `DiscoverWindow` | extends `DeviceList`: event loop, discover thread, toolkit lock, buttons, context menu |
| `DiscoverWindowProofs` | theorems about the list, about the window, and about the list in the window |
| `Dialogs` | reset, temporary address, configuration and reconnect: menu, form, questions, command |
| `DialogsProofs` | theorems about it |
| `Settings` | the file of settings, read at the start, written at the end |
| `SettingsProofs` | theorems about it |
| `Enumeration` | numbers in ascending order and the kept positions of a list, for the other modules |
| `EnumerationProofs` | facts about them and about least elements, for the other proofs |
| `MC...` | constants for TLC |

`RequestCounter`, `Discover` and `GvcpIPConfig` are each shown to implement an
abstract module (`AtomicCounter`, `AnswerCollection`, `OrderedWrites`).
`Senders` and `DiscoverWindow` are compositions: their actions are made of those
of the module they extend, so what is proved of that module carries over (the
lemmas `SendersUseTheCounter` and `ListOperationsOnly`).

### RequestCounter

`current` is the local of the loop; `new_value` is a function of it and has no
variable. `Retry` stands for a failed exchange, with or without a reason
(`compare_exchange_weak`). `calls` and `ticket` are history: they number the
calls in the order in which their exchange succeeded. `IdOfCall` is the
reference: call *n* receives `(n - 1) % MaxId + 1`.

### Senders

`host` is a computer: an operating system and its interface table, from which
`LinuxSockets` and `WindowsSockets` compute the sockets as the two
implementations of `createAndBindForAllInterfaces` do. A row has traits (up, an
address, a broadcast address, the loopback, a route, an adapter) instead of
flags and addresses. A socket belongs to a row and not to a name: an interface
with two addresses has two rows and the sockets of both. `HostsAssumption` says
of Windows that `GetAdaptersInfo` does not list the loopback.

* `Create` makes the sockets or fails. On Linux the constructor of one socket
  may throw after it has got its handle; the destructor of an object that was
  never constructed does not run, so that handle is lost (`leaked`).
  `SocketsAreClosed` names this exception and shows that it is the only one.
* `DrawNumber` is the call of `getNext` in the steps of RequestCounter, so the
  threads interleave inside it.
* `Send` covers a socket without a destination (the receivers of Linux), whose
  `send` returns at once; `SendUnreachable` is the exception that the loops of
  force IP, reset and discovery swallow, `SendFails` every other one.
* The magic packet has no number and sets the options of each socket when it is
  its turn; the two other commands set them before anything is sent.

### Discover

`main` is the program counter of the calling thread, from `broadcastRequest` to
the end of the destructor; `pc[s]` that of the listener of socket `s`.

* Every critical section of `mutex_` is one action: `Push` (the push of a
  listener), `Block`, `TakeAll`, `TimeOut` and `WaitAgain` (the parts of
  `wait_for` and what follows it under the lock). `Notify` is separate because
  the code notifies after the unlock.
* `awake` is the notification on its way to the caller. `TakeAll` is enabled
  without it: a spurious wakeup is possible. Fairness does not count on one.
* `Answer` is a device's acknowledge to a request that went out on an interface
  over which it is reached. On Linux the sockets of an interface share a local
  port. An acknowledge to one address goes into the buffer of one of them, and
  the model leaves open which. The request allows the device to broadcast it
  (the flags `0x11`): then every socket that is bound to any address queues a
  copy (`Queued`, `AnyAddress`), each listener hands its copy on and the caller
  gets the answer several times. `HandedOnOnce` says that nothing else gives it
  an answer twice; `CliCommands` has the sorting and `std::unique` that remove
  the multiple entries, and `DeviceList` their merging. A device whose `Answer`
  never happens has lost the request or the acknowledge.
* `Stray` is any packet of `Foreign`: late acknowledges of earlier requests,
  acknowledges without a MAC address, packets that are no acknowledge.
* `SendRequest` has the three outcomes of `send`; `Receivers` are the Linux
  sockets whose `send` does nothing. `StartListener` may fail as a thread
  constructor does. Both failures lead through the destructor, as in the GUI,
  which catches them; the CLI does not catch them and the process ends.
* Time counts in ticks, `elapsed` up to `MinWait` and `waited` up to `Timeout`:
  nothing distinguishes larger values.
* `Fresh` gives the numbers that `getNext` may return: any that is not
  outstanding, which is what `UniqueIds` of RequestCounter gives (fewer than
  65535 requests are outstanding). The run takes the lowest, as a counter does.
* The GUI's loop has the condition `running` in addition; `DiscoverWindow`
  models it, with the collection reduced to rounds of answers.

### GvcpIPConfig

A call is a script of commands. `step` is the command under way, `attempt`
counts how often it was sent. Because a command draws its number once, before
the attempts, the position in the script stands for the number. `Proceed` and
`Throw` are the ways out of `sendAndReceive`; `Throw` contains the handler of
`writeConfig`: after the claim, an exception leads to the release, and one in
the release is dropped. A `READREG` acknowledge with less than four bytes is an
error like any other and is not told apart from an error status.

The device, the rival and the network are external. The device executes
retransmitted commands again, writes only for the holder of control, may drop
control at any time (the code sends no heartbeat) and may report errors. A
packet is lost when it is sent or delayed at will; with `Reorder` packets
overtake.

### CliCommands

The words of the command line are the initial state. `Dispatch` is `main`,
`Operation` and `Option` the loops over the words, `CheckArguments` what
follows them, `Ask` and `Hear` the discovery (`Discover` models what is behind
it), `Select` sorting, removing duplicates, filtering, printing and the first
conditions on the list, `Confirm` the question, `Act` one command.

* `wildcardMatch` is a recursive function over pairs of positions, one in the
  string and one in the pattern; `Compared` is the body of the recursion in the
  code. It has three outcomes. A `?` steps forward at the end of the string as
  well; whatever follows it is then compared with what lies behind the string.
  That is `"undefined"`: the selection may contain such a device or not, or the
  program may end.
* `SelectionIsExact` compares it with `Means`, which cuts the text into pieces,
  and says where they differ: two stars in a row do not match the end of a
  string; a star in the text is taken for the star of the pattern, which then
  stands for that one character only; a pattern for an interface filters answers but
  is compared literally when requests go out, so no request goes out at all.
* `std::sort` is not stable: entries that are equal (`Sortings`) come in any
  order, so of two answers of a device on one interface either may be the one
  that is kept.
* `Printed` groups neighbouring entries of the sorted list. `AddressForOne` and
  `OnlyWhatWasAgreed` say what a device on two interfaces means for the
  commands: two entries, so `forceip` refuses it and `reset` resets it twice.
* An exception of a socket is caught nowhere (`aborted`).

### DeviceList

One action per public operation and per change of the selection that an event
brings about. (That a push, a drag and a release of the mouse are separate
events, and that only the last tells the window, is part of `DiscoverWindow`.) A cell
is a sequence of numbers, because the only cell whose text grows is that of the
interfaces, and a filter text may span two of them ("eth0, eth1"). `CellKey`
gives the sequence, `Less` is `std::string::compare`, `AddDeviceIndex` the
insertion before the first row that is greater, and `DeviceIndices` the rebuild,
a recursive function over the number of devices added.
The toolkit keeps one mark for the selected row (`SELECT_SINGLE`), which
`rows()` cuts off and `select_row(0, 0)` removes; `SelectedRow` reads it back
against the length of `index` as `getSelectedRow` does. `heard` is history: the
first answer of each device on each interface, with the result of its
reachability test. The value that `setSorting` restores is part of the initial
state, because the program calls it while the list is empty.

### DiscoverWindow

The list is that of `DeviceList`, whose operations the actions of the window
call. `main` and `thread` are the program counters of the event loop and of the
discover thread, `owner` and `depth` the recursive lock.

* `TakeEvent` is the return of `Fl::wait` with the lock, because of an event or
  of `Fl::awake`; a callback is one step, as both threads touch the list and the
  buttons only under the lock, and gives the lock back. Two callbacks are split:
  `doDiscover` at its `join`, and `doOpenContextMenu` at `popup()`, which runs an
  event loop of its own. `LeaveMenu` is what is left of `handle` after the menu,
  with a choice, because it looks at the last event that the menu saw.
* The mouse takes three events: `PushRow` selects the row under it and updates
  the window (and opens the web GUI at the second click), `Drag` is the toolkit's
  own, which moves the selection and tells nobody, and `Release` is where `handle`
  calls `update` again. `dragging` says that the button is down: in between the
  buttons may belong to another device, as `ButtonsFit` says. Only the discovery
  button and its thread are then sure to fit; a release outside the list ends the
  drag as well, because the toolkit sends it to the widget that was pushed.
* `ThreadLocks` is each of the thread's three `Fl::lock` calls. `ThreadAdds`
  tests the reachability and adds one answer, `ThreadThrows` is a test that
  throws and the handlers that catch it, with the lock still held.
* The collection is abstract: a round brings up to `MaxBatch` valid answers or
  none, and at any round but the first there may be silence after the minimum
  time. `Discover` models what is behind it; `Ends` is why the rounds are
  bounded.
* When no window is shown any more the event loop returns and the main program
  deletes the window (`Destroy`, `DestroyJoins`).

### Dialogs

One module for the four dialogs, which share the menu, the input fields and the
form; `scene.kind` says which it is and `Complete`, `Offered`, `AskSure` and
`AnswerYes` where they differ. Callbacks of the toolkit run one after the other
in one thread, and a modal question runs an event loop that gives the dialog no
input: an action is a callback up to its question or its end.

* An address keeps its first two bytes and one of the others, which is what the
  class of a private address, the mask and the gateway depend on. `And` is the
  bitwise `&`: a mask that the user types may have any bits.
* The menu is FLTK's, external: `Items` is what `Fl_Menu_::add` makes of a text.
  A `/` in a name makes a submenu and two further items, so the positions of all
  devices that follow differ between the menu and `ip_list_`; the item that
  closes a submenu has no text, and reading it as one ends the program (`gone`).
  A name with ` - ` garbles the MAC address, which is cut out of the text. The
  configuration, which is sent to the current IP address, still reaches that
  device; the other commands need a MAC address and are not sent at all.
  `ShownIsChosen` says both, and names the `/` as the exception.
* `readCurrentConfigFromDevice` is a call of `readConfig` with its outcomes; a
  silent device leaves the form as it is. `from` records for each value whether
  it was read and from whom: `OwnConfigUnlessSilent` says that this is the only
  way in which a device can be given values that were read from another one.
* `MaskOf` tests one bit of the second octet for 172.16.0.0/12, so 172.48 or
  172.80 count as private too; `ProposalsFit` says which.

### Settings

The file is a sequence of words, because it is read by `>>` two at a time and
written line by line. `Load` is the reading loop with `stoi` and its exception,
`Lines` what is written, `Crash` the end of the process at any point, also
between two lines. `getSorting` tests the variable that it is about to set, so a
column that was loaded and is none keeps the user's sorting from ever being
stored again (`stuck`, named in `Restored`). As soon as two devices are listed,
`addDeviceIndex` reads cells of that column, which do not exist; if the program
ends by it this is a `Crash`, and in `DeviceList`, which is about columns that
exist, such a start does not occur. `WordsAssumption`: a key is not a
number, so a key that a shifted pair takes for a value ends the reading.

## 3. What the runs check

| Run | Instance | Shows |
|---|---|---|
| `senders` | 2 threads with any two of the commands, a Linux and a Windows computer, filter on one interface, numbers 1..4, 6 calls | `UniqueIds`, `AtomicSpec` (refinement of AtomicCounter), `NumbersOnTheWire`, `TriedEverywhereOnce`, `SocketsAreClosed` |
| `discover` | the 3 sockets of one Linux interface (limited broadcast, receiver, directed broadcast; the last two bound to any address), a device, a filter that names this interface or another, up to 2 arrivals out of answers, broadcast or not, and 3 foreign packets, 4 numbers, minimum 2 ticks, timeout 1, fairness | `OnlyOwnAnswers`, `HandedOnOnce`, `NoLostWakeup`, `NoUseAfterDestroy`, `ReqNumsFrozen`, `MinimumDuration`, `SessionSpec` (refinement of AnswerCollection), `Ends` |
| `gvcp` | five scenes: a full write with 3 attempts; one against a device that reports errors; one with expiring control and a rival; a read and a change of mode over a network that overtakes; fairness of the client | `ReleaseIsTried`, `ReleasedForGood`, `NoSpuriousGiveUp`, `ReadsTheRightRegister`, `ModeUpdate`, `InOrder` (refinement of OrderedWrites), `Returns` |
| `gvcp_leak` | a write to a device that reports errors | violated: `ControlIsReleased` |
| `cli` | all commands with two options, name patterns of up to 3 characters, good, wrong and missing addresses, empty words; 2 devices, one on two interfaces, one with a star in the name of its model, answers of three lengths, up to 3 of them | `SelectionIsExact`, `OneRowPerDevice`, `OnlyWhatWasAgreed`, `AddressForOne` |
| `list` | 3 devices with equal names, one on two interfaces, filter by name and by two interfaces next to each other | `ViewOfFixedColumns`, `AnswersAreMerged`, `HighlightedAreNew`, `SelectionDoesNotSlip` |
| `list_order` | 2 devices, no filter text | violated: `VisibleInOrder` |
| `window` | 2 devices, 2 rounds per discovery, a dialog, a mouse that is pushed, dragged and released, a reachability test that may throw, fairness | `ListIsProtected`, `JoinDoesNotBlock`, `ButtonsFit`, `DiscoveryEnds`, `ButtonComesBackUnlessThrown` |
| `window_throws` | a device on two interfaces, 1 round | violated: `ButtonComesBack` |
| `window_webgui` | the same without an exception | violated: `WebGUIOfARow` |
| `dialogs` | all four dialogs, lists of up to 3 devices with plain names, a ` - ` and a `/`, addresses in and beside each private range, two configurations to read | `ShownIsChosen`, `OnlyConfirmed`, `OwnConfigUnlessSilent`, `ProposalsFit` |
| `settings` | filter texts of up to four words, among them keys and a column that is none; any number of starts, ends and crashes | `Restored` |

Bounds.

* *Senders.* With four numbers and six calls both threads draw before and after
  the wrap-around; two threads are those of the GUI. A Linux computer has one
  interface to send on (three sockets, one of which sends nothing) next to a
  loopback and one that is down; the Windows computer has an interface with both
  broadcast addresses and one with the directed one only.
* *Discover.* Two sockets send, so one device may answer two requests, or one
  of them with a broadcast that two listeners hand on: two arrivals are enough
  for every race between two listeners, for copies, and for an answer next to a
  foreign packet. A device that answers every request may do so on a socket from
  which none went out, the receiver. `MinWait` 2 and `Timeout` 1 make a
  collection that is cut short, one that ends just at the minimum and one that is
  prolonged by a late answer. Three sockets draw three numbers; the fourth
  is that of an earlier request. A filter on another interface sends nothing and
  leaves only foreign packets. The sockets of several interfaces differ in nothing
  that listeners share; the theorems cover them.
* *GvcpIPConfig.* A scene is the call together with its circumstances. That
  nobody gives up without reason needs the three attempts of the code (two stale
  acknowledges are the most that can be left of a command that succeeded); the
  other properties need one stale copy, so two attempts are enough. A reason is a
  timeout of the command itself; the release after a failed command, and any
  command to a device with short packets, may use up its attempts on stale
  packets alone (`NoSpuriousGiveUp`). The code has
  three address registers, the scenes one or two: a first and a last register
  together with the mode.
* *CliCommands.* Three answers are a device on two interfaces and another one,
  or one that answers twice. Patterns of three characters put each wildcard
  before, between and behind others; the texts have one or two characters, one of
  which is a star. An answer ends before the MAC address (and is dropped), before
  the serial number and the user name, or is whole.
* *DeviceList.* Two devices make every relative order and a third one an
  insertion between two rows; equal names make the ties. Two interfaces make a
  cell that grows once. A discovery may be repeated without bound, so the lists
  of two discoveries always meet.
* *DiscoverWindow.* The rounds and answers of a discovery are bounded because a
  device that was added twice on the same interface changes nothing any more. The
  one dialog of the runs is that of the reset, whose button depends on the
  selection.
* *Dialogs.* The third device of a list is the one that a `/` in the first name
  moves; two configurations are one with and one without addresses; one of the
  masks has a gap between its bits.
* *Settings.* Texts with an odd and an even number of words shift the pairs that
  follow in both ways.

No run uses symmetry.

Deadlock is checked in all passing runs but `cli`, where the program comes to
its end. An object that is destroyed, a call that has returned and a program that
has ended stutter, and so does a window whose discover thread ended as the owner
of the lock (`Stopped`; that is the finding of `window_throws`): no other
deadlock exists.

Fairness. `Discover`: every thread that can run does (`MainStep` only when a
notification or the timeout has come) and time passes. Nothing is assumed of
devices. `GvcpIPConfig`: only the client runs, because `select` has a timeout;
device and network owe nothing. `DiscoverWindow`: both threads run on, and the
discover thread gets the lock in the end (`SF_vars(ThreadLocks)`): the event loop
holds it only while a callback runs and gives it back whenever it waits for an
event. Nothing is assumed of the user. The other modules state no liveness: a
command on all sockets is a bounded loop, and the dialogs, the command line's
question and the settings wait for the user.

Every property of a passing run has a mutant: a plausible error of the code
(listed above the definition it changes) under which TLC finds the property
violated.

### Findings

`gvcp_leak`: `writeConfig` claims control before its `try` block. If the device
executes the claim and the three acknowledges are lost or late, the exception
of `sendAndReceive` leaves `writeConfig` and no release is sent. The header
promises that it "releases control access again"; the device stays locked until
its own heartbeat timeout. `ReleaseIsTried` is what does hold: once control was
granted to the client's knowledge, every way out tries to release it.

`list_order`: `add` changes the interface and reachability cells of
a device that is in the list without sorting or filtering its row again, and
`sortColumn` rebuilds `index` without adjusting the number of rows. So with the
list sorted by one of these columns the order is wrong until the next click on a
header, and with a filter text that finds an interface a device is missing, or
is in `index` without a row. (With three interfaces and a text that spans the
first and the third the reverse happens: more rows than elements of `index`, and
`draw_cell` reads beyond its end.) `ViewOfFixedColumns` is what does hold: a list
neither sorted nor filtered by these cells is what the header says.

`window_throws`: `checkReachabilityOfSensor` is called between `Fl::lock` and
`Fl::unlock` and throws if it cannot start `ping`. The lock is recursive, so the
end of the thread takes it a second time, gives it back once and ends as its
owner. The event loop waits for the lock for ever. `ButtonComesBackUnlessThrown`
is what does hold.

`window_webgui`: the entries of the context menu are activated for
the device that was selected when the menu opened and act on the row that is
selected when one is chosen. In between the discover thread may clear the list
(the Web GUI entry then reads `index[-1]`) or insert a row above the selected
one (the entries then act on another device). `SelectionDoesNotSlip` is what does
hold: nothing else moves the selection from one device to another.

## 4. What is proved

Every invariant and action property that a passing run checks is a theorem for
every value of the constants. The constants obey the assumptions of the modules:
numbers are numbers and texts are sequences, and the few facts about the
environment that have a comment of their own (`HostsAssumption`,
`WordsAssumption`, `FreshAssumption`, `ForeignAssumption`). The bounds of the runs are constants too:
the theorems hold for every bound. What follows names for each component the
inductive invariant and why the property alone is not enough.

### `SendersProofs`: the counter and the senders

For every `MaxId > 0` and every set of threads:

* `CountsInOrder`: `IInv == TypeOK /\ TicketInv` is inductive. The counter is
  `IdOfCall(calls)` and each number is that of its ticket; tickets differ
  because only a successful exchange, which is the only step that moves the
  counter, hands them out. That the successor in the code computes the next
  reference number (`NextId`) rests on the uniqueness of quotient and remainder
  (`RemainderUnique`), with the wrap-around as one of two cases.
* `NumbersAreUnique`: two tickets less than `MaxId` apart have different numbers
  (`NearIdsDiffer`).
* `LoopIsAtomic`: `Exchange` is the abstract `Return`, `Load` and `Retry` are
  stuttering steps.

For every computer and every choice of commands:

* The theorems about the counter hold for the senders too
  (`SendersNumbersAreUnique`, `SendersSeeAnAtomicCounter`), as only `DrawNumber`
  touches it, by the counter's own steps.
* `PacketsAreTold`: `WireInv` ties the number of each packet to its ticket, and
  no two packets, and no packet and the number a thread still holds, have the
  same ticket; a thread gives its number back when the packet is out.
* `NoSocketIsKept`, from `SocketInv`: only a command that has failed has left a
  socket behind in its constructor.
* `EverywhereOnce`, from `TriedInv`: the sockets tried are those before `next`
  that the command selects. The other half is about the two functions that make
  the sockets: for every interface table their lists contain each row with each
  of its broadcast addresses once, which rests on the facts about `Ascending`.

### `DiscoverProofs`

For every number of sockets, every assignment of interfaces, devices, filters and
timeouts, from `SocketsAssumption`, `FreshAssumption`, `TimeAssumption`,
`ArrivalsAssumption`, `DevicesAssumption` and `ForeignAssumption`:

* `TypeCorrect`.
* `JoinsBeforeDestroying` and `NumbersAreFinal`, from `LifeInv`: while the caller
  is in `broadcastRequest`'s first loop no listener exists, and no listener is
  started outside `startListening`.
* `WakeupsAreNotLost`: `NoLostWakeup` is inductive relative to `TypeOK`. `Block`
  is only possible with an empty queue, and a `Push` leaves its listener before
  its `Notify`.
* `WaitsLongEnough` and `CollectionIsComplete`, from `CollectInv`: where the
  caller is after which outcome of its last `getResponse`, and that `tend` never
  runs ahead of the clock. The abstract collection closes in the concrete step
  `TimeOut` that finds the queue empty after the minimum time; leaving the loop,
  which comes later, is invisible.
* `NothingForeignIsReported` and `NothingIsReportedTwice`, from `AnswersInv`. The
  two properties are not inductive: they say nothing of the packets in the
  buffers. `BufferInv` and `HoldInv` say that whatever would pass the tests of a
  listener is an answer to this object and is nowhere else; `SendInv` covers the
  time in which the numbers are still being drawn, when a packet that passes the
  tests in the end would not pass them yet. A device answers a request once at
  most; `CopiesInv` says of all answers wherever they are that two of the same
  content are copies of one broadcast. A new answer has no older copy, because
  `answered` has every number and device that came before (`NumbersInv`: numbers
  of requests and answers are this object's, and `Fresh` gives no number twice).

### `GvcpIPConfigProofs`

For every call, number and order of address registers, number of attempts and
behaviour of device, rival and network, from `ScenesAssumption`. `ScriptInv` is
inductive:

* `ProgressInv`: until an exception is thrown, every step before the current one
  has been executed; afterwards only the release is left.
* `ChannelInv`: a command on its way is one of the script and was sent after all
  earlier steps had been executed; an acknowledge without an error on its way
  answers a step that was executed, and what it says of a register comes from
  that register. Here duplicates, delays and overtaking are absorbed.
* `DeviceInv`, `SeenInv` and `ReleaseInv`: what registers and the client's
  knowledge of them may contain, and that only a claim that failed returns
  without a release.

From it follow `NoWayAroundTheRelease`, `RegistersAreTold` and `CommandsInOrder`,
the refinement of `OrderedWrites`: a retransmitted command that is executed again
is a stuttering step of the plan.

Three properties depend on which copies of a command can still be on their way,
and each needs more, in this order:

* `KnownInv`: a packet is a copy of the command of a step that has been reached,
  and what is acknowledged was executed. `FifoInv`: unless packets overtake, the
  order of the script holds on the way to the device, in what it has executed,
  and on the way back.
* `ReleaseIsFinal` and `ModeIsUpdatedInPlace`, from `ControlInv`: once the release
  has been executed no claim is left on its way, so control does not come back to
  the client; and as long as the client does have control, what it has written
  stands and the mode it has read is the mode of the device (`KeptInv`). A device that drops
  control ends the second part for good, for the same reason as the release.
* `GivenUpForAReason`, from `CountInv`: of the current command there are no more
  copies on their way than were sent, and the copies of the command before it,
  together with the attempts they have used up, are fewer than the attempts there
  are. Acknowledges of the current command that are too short are an exception, as
  they use up its attempts without a timeout, and so is the release that is sent
  while the attempts of a failed command are still on their way; the property
  names both.

`TypeCorrect` adds `TypesInv`: channels of whole packets, and the history of
timeouts.

### `CliCommandsProofs`

For every command line, set of interfaces and sequence of answers:

* `EveryDeviceHasOneRow`, `SentAsAgreed` and `AddressGoesToOne`, from
  `CliInv == ListsInv /\ StageInv /\ OrdersInv`. `ListsInv`: the selection is in
  the order of `operator<` without equal entries; therefore the entries of a
  device are neighbours and grouping neighbours, which is what the printing does,
  groups devices. `StageInv`: what the program has not done yet where it is.
  `OrdersInv`: what has been sent is the beginning of the commands for the list
  that was printed and agreed to.
* `SelectionIsWhatIsMeant`, from `FilterInv` (what the options hold are texts) and
  `ChosenInv` (the selection is one of the outcomes of sorting, removing
  duplicates and filtering). The core is a theorem about `wildcardMatch` for texts
  and patterns of every length: the table that the recursion fills has "yes" at a
  pair of positions exactly if the rest of the text can be cut into pieces for the
  rest of the pattern, under the conditions `SelectionIsExact` names. A wrong pair
  furthest towards the end would rest on right pairs alone, so there is none.

### `DiscoverWindowProofs`

The list first, for every set of answers and filter texts, from
`AnswersAssumption` and `TextsAssumption`:

* `EntriesAreMerged`: `EntriesInv` adds the types of `device` and `heard`. An
  answer on a known interface changes nothing; one on a new interface adds the
  same record to what is heard and to the entry (`AddInterfaceEntries`); for an
  unknown device nothing was heard before, because the devices heard of are
  those of the list (`AddDeviceEntries`).
* `OnlyNewAreHighlighted`: `HighlightInv`, relative to the types above.
* `RowsAreTheView`, from `RowsInv` and `ShownInv`. `RowsInv` keeps every row that
  of a device. `ShownInv` is in two parts, because the filter may be fixed where
  the sorting is not: with a filter text that names no interface the rows are the
  visible devices, each once; sorted by a fixed column too, they are in order. A
  click on a header changes from one column to another, so the first part must
  hold for all columns to give the second. An insertion into ordered rows keeps
  them in order (`AddedInOrder`), and a rebuild inserts the devices one by one
  (`RebuiltRows`; the recursive function behind it is shown to exist by a least
  number for which it does not).
* `SelectionFollowsClicks`, relative to these: an insertion below the selected row
  leaves its device there, and no device changes its MAC address.
* `ListTypeCorrect`: rows are indices of devices, the selected row is one of the
  table's.

The window, for every bound, every set of dialogs and whether the reachability
test throws or not:

* `ListOfTheWindow`: the four properties of the list hold in the program, as the
  window changes the list by its operations alone. The one fact needed is that a
  batch holds answers (`BatchOfAnswers`).
* `MutualExclusion` and `JoinsAreImmediate`, from `WindowInv`. `LockInv` says who
  holds the lock: the main thread exactly once and exactly during a callback,
  the discover thread at least while it uses the list; after an exception it
  stays the owner, so the main thread never gets there again. `ActiveInv` says
  that while there is a discover thread `running` is true and the button
  inactive: therefore `doDiscover`, whose join would wait for a thread that
  waits for the lock, cannot be called, and `doClose` does not end the program.
* `ButtonsFollow`, from `ButtonsInv`, relative to `WindowInv` and the rows: the
  buttons are behind the selection only while the discover thread has the lock or
  the mouse drags, and both end in an `update`. A
  menu that closes without an `update` is no exception, as highlighting is not
  what the buttons depend on.
* `TypeCorrect`, from the parts above.

### `DialogsProofs`

For every list of devices, every text the user types and every configuration that
devices answer, from `ScenesAssumption` and `ConfigsAssumption`:

* `NothingUnconfirmed`: `QuestionInv` says that while a question is open the form
  is the one that was complete when the button was pressed, and that the question
  whether to send follows on different subnets only after they were agreed to.
* `NoOtherDevicesConfig`: `OwnInv` says that while the current address is one and
  its device was not silent, each value comes from the user or from that address,
  because the address changes only together with a new reading.
* `ChosenIsShown`, from `ChosenInv`: what the menu names is not open to the user.
  In a list without a `/` each device has one item (`FlattenSeq` of single items),
  so positions in the menu are those in the list. `SentInv` says that the form is
  still the one that the last command was made from.
* `ProposalsAreGood`, from `FilledInv` (the texts of the form are addresses) and
  lemmas about the bits of a byte: `AndByte` of a number that is itself a
  conjunction with the mask, and what `| 0x1` does to it.

### `SettingsProofs`

For every set of numbers, columns and filter texts: `SettingsComeBack`, from
`SettingsInv`. `ValuesInv` types the settings. `FileInv`: the file holds the first
lines of what was to be stored and the rest is still to be written. This is what
a crash leaves intact, and from it what `Load` returns is computed for every length
of the file and of the filter text, whose words decide how the pairs after it fall.

### What is only model-checked

* The liveness properties `Ends`, `Returns`, `DiscoveryEnds` and
  `ButtonComesBackUnlessThrown`: fairness and ENABLED are out of the prover's
  reach.
* The four violated properties are of course not proved; what does hold in their
  place is (`ReleaseIsTried`, `ViewOfFixedColumns`, `SelectionDoesNotSlip`), or is
  one of the above (`ButtonComesBackUnlessThrown`).

Induction: the induction theorems of the library take an operator as a parameter,
which the provers cannot instantiate. Where data must be gone through, as the
rows of the list or the table of `wildcardMatch`, a least counterexample is taken
instead (`LeastNumber` in `EnumerationProofs`, from the well-foundedness of the
natural numbers). No module declares a RECURSIVE operator; recursion is a
recursive function.

The type invariants `TypeOK` of `RequestCounter`, `Discover`, `GvcpIPConfig`,
`DeviceList` (`ListTypeOK`) and `DiscoverWindow` are theorems. The other modules
have none; their invariants contain the types that the proofs need.

Proofs have corrected the models where a bounded run could not: a command is given
up without a timeout of its own if acknowledges are too short
(`NoSpuriousGiveUp`); `std::sort` may keep either of two equal answers; a star in
a text stops the star of a pattern (`SelectionIsExact`); `&` with a mask that has
gaps is not what a comparison of bytes says (`And`); two rows of an interface
table may have the same name, so that a socket belongs to a row (`Socket`).

## 5. Plan

Done: all components but those below. What would add most from here:

1. The configuration of a device read while another client writes it: the four
   registers of `readConfig` are read without control, and nothing in the code
   promises that they belong together.
2. The finer steps of `checkReachabilityOfSensor` (fork, exec, wait), which are
   now one outcome.

Not modelled and not planned:

* drawing, layout and static text of the GUI: no state that a property speaks of;
* the system calls behind the sockets and the `ping` program: external, with the
  outcomes that the code tells apart;
* `worker.cc`: no target compiles it;
* build files, packaging and generated resources.
