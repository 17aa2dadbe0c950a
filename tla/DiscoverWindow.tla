--------------------------- MODULE DiscoverWindow ---------------------------
(***************************************************************************)
(* The main window: the thread of the event loop (main), the discover      *)
(* thread that doDiscover starts, and the lock of the toolkit that both    *)
(* take before they touch the list.                                        *)
(*                                                                         *)
(* External: the lock is recursive and belongs to a thread.  The event     *)
(* loop gives it back while it waits for an event and takes it again       *)
(* before a callback runs; a popup menu runs such a loop of its own inside *)
(* the callback that opened it.  The event loop ends when no window is     *)
(* shown any more.                                                         *)
(***************************************************************************)
EXTENDS DeviceList

CONSTANTS
  PingMayThrow,  \* whether checkReachabilityOfSensor may throw
  MaxRounds,     \* bound: rounds of the loop of one discovery (silence ends it)
  MaxBatch,      \* bound: valid answers that one round collects
  Dialogs        \* the dialogs the user opens

ASSUME BoundsAssumption ==
  PingMayThrow \in BOOLEAN /\ MaxRounds \in Nat \ {0} /\ MaxBatch \in Nat
ASSUME DialogsAssumption ==
  Dialogs \subseteq {"reset", "set_tmp_ip", "change_ip_config", "reconnect"}

\* Buttons and menu entries that are not always active.
Switched == {"discover", "reset", "change_ip_config"}
Entries == {"webgui", "reset", "change_ip_config"}

VARIABLES
  main,     \* where the main thread is
  thread,   \* where the discover thread is
  owner,    \* the owner of the lock of the toolkit
  depth,    \* how often the owner has taken it
  running,  \* running
  rounds,   \* rounds of the loop of the discover thread
  batch,    \* the answers of this round that are not in the list yet
  buttons,  \* the active ones among Switched
  menu,     \* the active ones among Entries, as the context menu was opened
  shown,    \* the windows that are shown
  dragging  \* the table has seen the left button go down on a cell and not go up

windowVars == <<running, buttons, menu, shown, dragging>>
vars == <<listVars, main, thread, owner, depth, rounds, batch, windowVars>>

Init ==
  /\ ListInit
  /\ main = "join"
  /\ thread = "none"
  /\ owner = "main" /\ depth = 1
  /\ running = FALSE
  /\ rounds = 0
  /\ batch = <<>>
  /\ buttons = Switched
  /\ menu = {}
  /\ shown = {"main"}
  /\ dragging = FALSE

-----------------------------------------------------------------------------
(* Parts of the handlers                                                   *)

\* Fl::lock and Fl::unlock.
Lock(t) ==
  /\ owner \in {"nobody", t}
  /\ owner' = t
  /\ depth' = depth + 1

Unlock ==
  /\ depth' = depth - 1
  /\ owner' = IF depth = 1 THEN "nobody" ELSE owner

\* Mutation of Update: the discover button stays active during a discovery.
UpdateWithoutRunning(isRunning) ==
  buttons' = {b \in Switched :
    \/ b = "discover"
    \/ b = "reset" /\ (IsRCVisardSelected' \/ SelectedMAC' = NoMac)
    \/ b = "change_ip_config" /\ (IsReachableDeviceSelected' \/ SelectedMAC' = NoMac)}

\* update, called last in its handlers: the buttons follow the selection and
\* running.
Update(isRunning) ==
  buttons' = {b \in Switched :
    \/ b = "discover" /\ ~isRunning
    \/ b = "reset" /\ (IsRCVisardSelected' \/ SelectedMAC' = NoMac)
    \/ b = "change_ip_config" /\ (IsReachableDeviceSelected' \/ SelectedMAC' = NoMac)}

\* A callback returns to the event loop.  With no window left, Fl::run
\* returns; it and the main program give the lock back.
BackToLoop ==
  /\ main' = IF shown' = {} THEN "delete" ELSE "wait"
  /\ Unlock

-----------------------------------------------------------------------------
(* The main thread                                                         *)

\* The loop has an event, or Fl::awake was called, and takes the lock.
TakeEvent ==
  /\ main \in {"wait", "popup"}
  /\ Lock("main")
  /\ main' = IF main = "wait" THEN "event" ELSE "menu"
  /\ UNCHANGED <<listVars, thread, rounds, batch, windowVars>>

\* Nothing to do for the event.
Redraw ==
  /\ main \in {"event", "menu"}
  /\ main' = IF main = "event" THEN "wait" ELSE "popup"
  /\ Unlock
  /\ UNCHANGED <<listVars, thread, rounds, batch, windowVars>>

\* doDiscover up to the join.
DoDiscover ==
  /\ main = "event"
  /\ "discover" \in buttons
  /\ running' = FALSE
  /\ main' = "join"
  /\ UNCHANGED <<listVars, thread, owner, depth, rounds, batch, buttons, menu, shown, dragging>>

\* The rest of doDiscover; the lock is held since the event was taken.  The
\* main program calls doDiscover before the event loop runs.
Rerun ==
  /\ main = "join"
  /\ thread \in {"none", "ended"}
  /\ running' = TRUE
  /\ thread' = "start"
  /\ rounds' = 0
  /\ UNCHANGED <<listVars, batch, menu, shown, dragging>>
  /\ Update(TRUE)
  /\ BackToLoop

\* Filter, check box, column headers and clicks with the middle button; all end
\* in update.
UseList ==
  /\ main = "event"
  /\ UserOperation
  /\ Update(running)
  /\ UNCHANGED <<thread, rounds, batch, running, menu, shown, dragging>>
  /\ BackToLoop

\* The left button goes down on a cell: the table selects the row and from now
\* on follows the mouse.  The second time it is a double click, and openWebGUI is
\* called with the row.
PushRow ==
  /\ main = "event"
  /\ \E r \in 1..rowCount : ClickRow(r)
  /\ dragging' = TRUE
  /\ Update(running)
  /\ UNCHANGED <<thread, rounds, batch, running, menu, shown>>
  /\ BackToLoop

\* The table selects the row that the mouse is dragged to, or with the control
\* key takes its mark away.  handle does not look at this event, so nobody is
\* told.
Drag ==
  /\ main = "event"
  /\ dragging
  /\ ClickOutside \/ \E r \in 1..rowCount : SelectRow(r)
  /\ UNCHANGED <<thread, rounds, batch, windowVars>>
  /\ BackToLoop

\* Mutation of Release: the end of a drag is not looked at either.
ReleaseSilently ==
  /\ main = "event"
  /\ dragging' = FALSE
  /\ UNCHANGED <<listVars, thread, rounds, batch, running, buttons, menu, shown>>
  /\ BackToLoop

\* The left button goes up over the list, wherever it went down.
Release ==
  /\ main = "event"
  /\ dragging' = FALSE
  /\ UNCHANGED <<listVars, thread, rounds, batch, running, menu, shown>>
  /\ Update(running)
  /\ BackToLoop

\* doOpenContextMenu up to popup().
DoOpenContextMenu ==
  /\ main = "event"
  /\ \E r \in 1..rowCount : SelectRow(r)
  /\ Update(running)
  /\ menu' = {e \in Entries :
       \/ e = "webgui" /\ IsReachableRCDeviceSelected'
       \/ e = "reset" /\ IsRCVisardSelected'
       \/ e = "change_ip_config" /\ IsReachableDeviceSelected'}
  /\ main' = "popup"
  /\ Unlock
  /\ UNCHANGED <<thread, rounds, batch, running, shown, dragging>>

\* doReset, doSetTmpIP, doChangeIPConfig, doReconnect: which dialogs they
\* show now.
Opens(dialog) == dialog = "reset" => IsRCVisardSelected \/ SelectedMAC = NoMac

\* A click on one of the buttons at the bottom.
PressButton(dialog) ==
  /\ main = "event"
  /\ dialog \in Switched => dialog \in buttons
  /\ shown' = shown \union {d \in {dialog} : Opens(d)}
  /\ BackToLoop
  /\ UNCHANGED <<listVars, thread, rounds, batch, running, buttons, menu, dragging>>

\* The menu closes with an entry chosen (that of a dialog, the Web GUI, a cell to
\* be copied) or none.  What it does, it does for the device selected now.
MenuCloses ==
  /\ main = "menu"
  /\ LeaveMenu
  /\ \/ \E dialog \in Dialogs :
        /\ dialog \in Entries => dialog \in menu
        /\ shown' = shown \union {d \in {dialog} : Opens(d)}
     \/ UNCHANGED shown
  /\ Update(running) \/ UNCHANGED buttons
  /\ menu' = {}
  /\ BackToLoop
  /\ UNCHANGED <<thread, rounds, batch, running, dragging>>

CloseDialog ==
  /\ main = "event"
  /\ \E d \in shown \intersect Dialogs : shown' = shown \ {d}
  /\ BackToLoop
  /\ UNCHANGED <<listVars, thread, rounds, batch, running, buttons, menu, dragging>>

\* doClose: during a discovery only the dialogs are hidden.
DoClose ==
  /\ main = "event"
  /\ shown' = IF running THEN shown \ Dialogs ELSE {}
  /\ BackToLoop
  /\ UNCHANGED <<listVars, thread, rounds, batch, running, buttons, menu, dragging>>

\* The main program deletes the window, without the lock.
Destroy ==
  /\ main = "delete"
  /\ running' = FALSE
  /\ main' = "destroy"
  /\ UNCHANGED <<listVars, thread, owner, depth, rounds, batch, buttons, menu, shown, dragging>>

DestroyJoins ==
  /\ main = "destroy"
  /\ thread \in {"none", "ended"}
  /\ main' = "gone"
  /\ UNCHANGED <<listVars, thread, owner, depth, rounds, batch, windowVars>>

Event ==
  \/ DoDiscover \/ UseList \/ PushRow \/ Drag \/ Release \/ DoOpenContextMenu
  \/ \E dialog \in Dialogs : PressButton(dialog)
  \/ CloseDialog \/ DoClose \/ MenuCloses \/ Redraw

Main == TakeEvent \/ Event \/ Rerun \/ Destroy \/ DestroyJoins

-----------------------------------------------------------------------------
(* The discover thread                                                     *)

AfterLock == [start |-> "clear", got |-> "add", leave |-> "last"]

\* Mutation of ThreadLocks: the answers are added without the lock.
ThreadLocksNotToAdd ==
  /\ thread \in DOMAIN AfterLock
  /\ IF thread = "got" THEN UNCHANGED <<owner, depth>> ELSE Lock("thread")
  /\ thread' = AfterLock[thread]
  /\ UNCHANGED <<listVars, main, rounds, batch, windowVars>>

\* Each of the three Fl::lock calls.
ThreadLocks ==
  /\ thread \in DOMAIN AfterLock
  /\ Lock("thread")
  /\ thread' = AfterLock[thread]
  /\ UNCHANGED <<listVars, main, rounds, batch, windowVars>>

ThreadClears ==
  /\ thread = "clear"
  /\ Clear
  /\ Update(running)
  /\ Unlock
  /\ thread' = "request"
  /\ UNCHANGED <<main, rounds, batch, running, menu, shown, dragging>>

\* Creating the sockets and broadcastRequest, which may throw.
ThreadRequests ==
  /\ thread = "request"
  /\ thread' \in {"loop", "leave"}
  /\ UNCHANGED <<listVars, main, owner, depth, rounds, batch, windowVars>>

\* The condition of the loop: another round, with or without answers, or
\* silence after the minimum time, which is never before the first round.
ThreadCollects ==
  /\ thread = "loop"
  /\ \/ /\ running /\ rounds < MaxRounds
        /\ rounds' = rounds + 1
        /\ batch' \in BoundedSeq(Answers, MaxBatch)
        /\ thread' = "got"
     \/ /\ running => rounds > 0
        /\ thread' = "leave"
        /\ UNCHANGED <<rounds, batch>>
  /\ UNCHANGED <<listVars, main, owner, depth, windowVars>>

\* One answer: the reachability is tested first, with the lock held.
ThreadAdds ==
  /\ thread = "add"
  /\ batch # <<>>
  /\ \E reachable \in BOOLEAN : Add(Head(batch), reachable)
  /\ batch' = Tail(batch)
  /\ UNCHANGED <<main, thread, owner, depth, rounds, windowVars>>

\* The test throws, and the handlers at the end of the thread catch it.
ThreadThrows ==
  /\ PingMayThrow
  /\ thread = "add"
  /\ batch # <<>>
  /\ batch' = <<>>
  /\ thread' = "leave"
  /\ UNCHANGED <<listVars, main, owner, depth, rounds, windowVars>>

ThreadEndsRound ==
  /\ thread = "add"
  /\ batch = <<>>
  /\ UNCHANGED <<listVars, main, rounds, batch, running, menu, shown, dragging>>
  /\ Update(running)
  /\ Unlock
  /\ thread' = "loop"

\* Mutation of ThreadEnds: the buttons are updated before running changes.
ThreadUpdatesFirst ==
  /\ thread = "last"
  /\ running' = FALSE
  /\ UNCHANGED <<listVars, main, rounds, batch, menu, shown, dragging>>
  /\ Update(running)
  /\ Unlock
  /\ thread' = "ended"

\* Mutation of ThreadEnds: running stays true.
ThreadEndsRunning ==
  /\ thread = "last"
  /\ UNCHANGED <<listVars, main, running, rounds, batch, menu, shown, dragging>>
  /\ Update(FALSE)
  /\ Unlock
  /\ thread' = "ended"

\* running becomes false and the discover button active.
ThreadEnds ==
  /\ thread = "last"
  /\ running' = FALSE
  /\ UNCHANGED <<listVars, main, rounds, batch, menu, shown, dragging>>
  /\ Update(FALSE)
  /\ Unlock
  /\ thread' = "ended"

Thread ==
  \/ ThreadLocks \/ ThreadClears \/ ThreadRequests \/ ThreadCollects
  \/ ThreadAdds \/ ThreadThrows \/ ThreadEndsRound \/ ThreadEnds

\* The program has ended, or hangs since the discover thread ended with the
\* lock (the exception of ThreadThrows).
Stopped ==
  /\ main = "gone" \/ (thread = "ended" /\ owner = "thread")
  /\ UNCHANGED vars

Next == Main \/ Thread \/ Stopped

\* Both threads run on.  The event loop holds the lock only while it handles
\* an event, so that a thread that waits for the lock gets it in the end.
Fairness ==
  /\ WF_vars(TakeEvent) /\ WF_vars(Event)
  /\ WF_vars(Rerun) /\ WF_vars(Destroy) /\ WF_vars(DestroyJoins)
  /\ WF_vars(Thread) /\ SF_vars(ThreadLocks)

Spec == Init /\ [][Next]_vars
FairSpec == Spec /\ Fairness

-----------------------------------------------------------------------------
(* Properties                                                              *)

TypeOK ==
  /\ ListTypeOK
  /\ main \in {"wait", "event", "join", "popup", "menu", "delete", "destroy", "gone"}
  /\ thread \in {"none", "start", "clear", "request", "loop", "got", "add", "leave",
                 "last", "ended"}
  /\ owner \in {"nobody", "main", "thread"}
  /\ depth \in Nat
  /\ running \in BOOLEAN
  /\ rounds \in 0..MaxRounds
  /\ batch \in Seq(Answers)
  /\ buttons \subseteq Switched
  /\ menu \subseteq Entries
  /\ shown \subseteq Dialogs \union {"main"}
  /\ dragging \in BOOLEAN

\* The two threads never work on the list at the same time, even after a
\* reachability test threw with the lock held.
MainUsesList == main \in {"event", "menu", "join"}
ThreadUsesList == thread \in {"clear", "add", "last"}
ListIsProtected == ~(MainUsesList /\ ThreadUsesList)

\* doDiscover joins with the lock held, which the thread needs to end.  This
\* is no deadlock because the button is active only after the thread took the
\* lock for the last time.  The same holds for the destructor and doClose.
JoinDoesNotBlock ==
  main \in {"join", "delete", "destroy", "gone"} => thread \in {"none", "ended"}

\* Whenever the window can be redrawn, the discover button fits the discovery,
\* and the two others fit the selection, whichever thread changed it last.  While
\* the left button is held down on the list they may be behind, as the mouse
\* moves the selection: handle calls update again when it goes up.
ButtonsFit ==
  owner = "nobody" /\ main \in {"wait", "popup"} =>
    /\ "discover" \in buttons <=> thread \in {"none", "ended"}
    /\ ~dragging =>
         /\ "reset" \in buttons <=> (IsRCVisardSelected \/ SelectedMAC = NoMac)
         /\ "change_ip_config" \in buttons <=>
              (IsReachableDeviceSelected \/ SelectedMAC = NoMac)

\* discover_window.cc:524 "leaving discover thread and update to activate
\* discover button": the event loop gets the lock again, with the button
\* active, after every discovery.
ButtonComesBack ==
  thread = "leave" ~> (owner = "main" /\ "discover" \in buttons)

\* That promise is kept if no reachability test threw.
ButtonComesBackUnlessThrown ==
  thread = "leave" /\ owner # "thread" ~> (owner = "main" /\ "discover" \in buttons)

\* A discovery that was started ends.
DiscoveryEnds == running ~> ~running

\* device_list.cc:253 "only for reachable rc devices": openWebGUI, which looks its
\* row up without a test, is called for a row of the list by a double click and by
\* the entry of the context menu.
WebGUIOfARow ==
  /\ main = "event" => 1..rowCount \subseteq DOMAIN index
  /\ main = "menu" /\ "webgui" \in menu => SelectedRow # 0

=============================================================================
