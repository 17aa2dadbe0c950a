----------------------------- MODULE DeviceList -----------------------------
(***************************************************************************)
(* The table of the main window: the devices heard of since the list was   *)
(* cleared, the rows shown of them (filtered, sorted), the selected row    *)
(* and the highlighting of devices the previous discovery did not find.    *)
(* Every operation runs under the lock of the toolkit, so each is one      *)
(* step; which thread takes it, and when, is the matter of DiscoverWindow. *)
(*                                                                         *)
(* The text of a cell is a sequence of numbers: the interface cell has one *)
(* number per interface ("eth0, eth1" is two), every other cell has one.   *)
(* A filter text is such a sequence too, found in a cell where its numbers *)
(* follow each other.  Manufacturer, serial number and IP address behave   *)
(* like the name and are left out.                                         *)
(***************************************************************************)
EXTENDS Enumeration, SequencesExt

CONSTANTS
  Answers,  \* what an answer may say: [name, model, mac, iface]
  Texts     \* the filter texts the user enters; <<>> is no filter

Models == {"rc_visard", "rc_other", "other"}
Columns == {"name", "mac", "ifaces", "reachable"}
NoMac == 0  \* the empty string that getSelectedMAC returns without selection

Names == {a.name : a \in Answers}
Macs == {a.mac : a \in Answers}
Ifaces == {a.iface : a \in Answers}

ASSUME AnswersAssumption ==
  Answers \subseteq [name : Nat, model : Models, mac : Nat \ {NoMac}, iface : Nat]
ASSUME TextsAssumption == Texts \subseteq Seq(Nat)

\* DeviceListData.
Devices ==
  [name : Names, model : Models, mac : Macs, ifaces : SUBSET Ifaces,
   reachable : BOOLEAN, new : BOOLEAN]

\* sort_col, sort_down, filter_rc and filter_value.
Views == [col : Columns, down : BOOLEAN, rc : BOOLEAN, text : Texts \union {<<>>}]

VARIABLES
  device,     \* device
  index,      \* index
  rowCount,   \* rows() of the table
  selected,   \* the row the toolkit marks as selected, 0 for none
  view,       \* how the user wants the list to be filtered and sorted
  previous,   \* previous_mac_list
  highlight,  \* new_discovery
  heard       \* history: the first answer of each device on each interface

listVars == <<device, index, rowCount, selected, view, previous, highlight, heard>>

-----------------------------------------------------------------------------
(* The order of the rows                                                   *)

\* What the cell of a column shows.  The check mark of a reachable device
\* sorts before the cross.
CellKey(d, col) ==
  CASE col = "name" -> <<d.name>>
    [] col = "mac" -> <<d.mac>>
    [] col = "ifaces" -> Ascending(d.ifaces)
    [] col = "reachable" -> <<IF d.reachable THEN 0 ELSE 1>>

\* std::string::compare(...) < 0.
Less(s, t) ==
  \/ IsStrictPrefix(s, t)
  \/ \E i \in DOMAIN s \intersect DOMAIN t :
       s[i] < t[i] /\ \A j \in 1..(i - 1) : s[j] = t[j]

\* Device d comes before device e.
Before(d, e, v) ==
  IF v.down THEN Less(CellKey(d, v.col), CellKey(e, v.col))
            ELSE Less(CellKey(e, v.col), CellKey(d, v.col))

\* The conditions of addDeviceIndex for a device to be visible.
Passes(d, v) ==
  /\ v.rc => d.model # "other"
  /\ v.text # <<>> =>
       \E col \in Columns \ {"reachable"} : v.text \in SubSeqs(CellKey(d, col))

\* Mutation of AddDeviceIndex: insert before the first row that is not less.
AddDeviceIndexBeforeEqual(devs, rows, i, v) ==
  LET notLess == {k \in DOMAIN rows : ~Before(devs[rows[k]], devs[i], v)}
  IN  IF ~Passes(devs[i], v) THEN rows
      ELSE IF notLess = {} THEN Append(rows, i)
      ELSE InsertAt(rows, Min(notLess), i)

\* addDeviceIndex: insert before the first row that is strictly greater.
AddDeviceIndex(devs, rows, i, v) ==
  LET greater == {k \in DOMAIN rows : Before(devs[i], devs[rows[k]], v)}
  IN  IF ~Passes(devs[i], v) THEN rows
      ELSE IF greater = {} THEN Append(rows, i)
      ELSE InsertAt(rows, Min(greater), i)

\* updateDeviceIndices.
DeviceIndices(devs, v) ==
  LET rows[n \in 0..Len(devs)] ==
        IF n = 0 THEN <<>> ELSE AddDeviceIndex(devs, rows[n - 1], n, v)
  IN  rows[Len(devs)]

-----------------------------------------------------------------------------
(* What the other parts of the program ask the list                        *)

SelectedRow == IF selected <= Len(index) THEN selected ELSE 0

HasSelection == SelectedRow # 0
SelectedDevice == device[index[SelectedRow]]
SelectedMAC == IF HasSelection THEN SelectedDevice.mac ELSE NoMac

IsReachableRCDeviceSelected ==
  HasSelection /\ SelectedDevice.reachable /\ SelectedDevice.model # "other"
IsReachableDeviceSelected == HasSelection /\ SelectedDevice.reachable
IsRCVisardSelected == HasSelection /\ SelectedDevice.model = "rc_visard"

-----------------------------------------------------------------------------
(* Operations                                                              *)

ListInit ==
  /\ device = <<>>
  /\ index = <<>>
  /\ rowCount = 0
  /\ selected = 0
  /\ view \in [col : Columns, down : BOOLEAN, rc : BOOLEAN, text : {<<>>}]
  /\ previous = {}
  /\ highlight = FALSE
  /\ heard = {}

\* rows(n): the toolkit forgets the marks of the rows that are gone.
SetRows(n) ==
  /\ rowCount' = n
  /\ selected' = IF selected <= n THEN selected ELSE 0

\* Mutation of Clear: the highlighting of the last discovery is kept.
ClearKeepsHighlight ==
  /\ previous' = {device[i].mac : i \in DOMAIN device}
  /\ device' = <<>>
  /\ index' = <<>>
  /\ SetRows(0)
  /\ heard' = {}
  /\ UNCHANGED <<view, highlight>>

Clear ==
  /\ previous' = {device[i].mac : i \in DOMAIN device}
  /\ highlight' = FALSE
  /\ device' = <<>>
  /\ index' = <<>>
  /\ SetRows(0)
  /\ heard' = {}
  /\ UNCHANGED view

\* add for a device that is in the list: nothing happens unless the
\* interface is new; the row keeps its place.
AddInterface(a, reachable, k) ==
  /\ IF a.iface \in device[k].ifaces
     THEN UNCHANGED <<device, heard>>
     ELSE /\ device' = [device EXCEPT ![k].ifaces = @ \union {a.iface},
                                      ![k].reachable = @ \/ reachable]
          /\ heard' = heard \union
               {[mac |-> a.mac, iface |-> a.iface, reachable |-> reachable]}
  /\ UNCHANGED <<index, rowCount, selected, view, previous, highlight>>

\* add for a device that is not in the list.
AddDevice(a, reachable) ==
  LET new == previous # {} /\ a.mac \notin previous
      d == [name |-> a.name, model |-> a.model, mac |-> a.mac, ifaces |-> {a.iface},
            reachable |-> reachable, new |-> new]
  IN  /\ device' = Append(device, d)
      /\ highlight' = (highlight \/ new)
      /\ index' = AddDeviceIndex(device', index, Len(device'), view)
      /\ IF Passes(d, view) THEN SetRows(Len(index')) ELSE UNCHANGED <<rowCount, selected>>
      /\ heard' = heard \union
           {[mac |-> a.mac, iface |-> a.iface, reachable |-> reachable]}
      /\ UNCHANGED <<view, previous>>

\* Mutation of Add: the list is not searched for the MAC address.
AddAlways(a, reachable) == AddDevice(a, reachable)

Add(a, reachable) ==
  \/ \E k \in DOMAIN device : device[k].mac = a.mac /\ AddInterface(a, reachable, k)
  \/ (\A k \in DOMAIN device : device[k].mac # a.mac) /\ AddDevice(a, reachable)

\* Mutation of Refilter: no row is deselected.
RefilterKeepsSelection(v) ==
  /\ view' = v
  /\ index' = DeviceIndices(device, v)
  /\ SetRows(Len(index'))
  /\ UNCHANGED <<device, previous, highlight, heard>>

\* What filterRCDevices and filter do once they stored their parameter.  In
\* single selection mode select_row(0, 0) leaves no row selected.
Refilter(v) ==
  /\ view' = v
  /\ index' = DeviceIndices(device, v)
  /\ rowCount' = Len(index')
  /\ selected' = 0
  /\ UNCHANGED <<device, previous, highlight, heard>>

FilterRCDevices(rc) == Refilter([view EXCEPT !.rc = rc])
Filter(text) == Refilter([view EXCEPT !.text = text])

\* handle removes the highlighting when a cell is clicked.
Unhighlight ==
  /\ highlight' = FALSE
  /\ device' = IF highlight THEN [i \in DOMAIN device |-> [device[i] EXCEPT !.new = FALSE]]
                            ELSE device

\* sortColumn, reached by a click on a column header.  The number of rows of
\* the table is not adjusted.
SortColumn(col) ==
  /\ view' = IF view.col = col THEN [view EXCEPT !.down = ~@]
                               ELSE [view EXCEPT !.col = col, !.down = TRUE]
  /\ index' = DeviceIndices(device, view')
  /\ selected' = 0
  /\ UNCHANGED <<device, rowCount, previous, highlight, heard>>

\* A click on a row: the toolkit selects it, or with the control key takes the
\* mark away again.
ClickRow(r) ==
  /\ r \in 1..rowCount
  /\ selected' \in (IF selected = r THEN {r, 0} ELSE {r})
  /\ Unhighlight
  /\ UNCHANGED <<index, rowCount, view, previous, heard>>

\* A click that does not hit a row.
ClickOutside ==
  /\ selected' = 0
  /\ UNCHANGED <<device, index, rowCount, view, previous, highlight, heard>>

\* The row under the mouse is selected: when the mouse is dragged with the left
\* button down, and by a click with the right button, which opens the context menu.
\* Whether the highlighting goes then depends on the last event that the menu saw.
SelectRow(r) ==
  /\ r \in 1..rowCount
  /\ selected' = r
  /\ UNCHANGED <<device, index, rowCount, view, previous, highlight, heard>>

LeaveMenu ==
  /\ Unhighlight \/ UNCHANGED <<device, highlight>>
  /\ UNCHANGED <<index, rowCount, selected, view, previous, heard>>

UserOperation ==
  \/ \E rc \in BOOLEAN : FilterRCDevices(rc)
  \/ \E text \in Texts : Filter(text)
  \/ \E col \in Columns : SortColumn(col)
  \/ \E r \in 1..rowCount : ClickRow(r)
  \/ ClickOutside

ListNext ==
  \/ Clear
  \/ \E a \in Answers, reachable \in BOOLEAN : Add(a, reachable)
  \/ UserOperation
  \/ \E r \in 1..rowCount : SelectRow(r)
  \/ LeaveMenu

ListSpec == ListInit /\ [][ListNext]_listVars

-----------------------------------------------------------------------------
(* Properties                                                              *)

\* Types, and what the table and the vectors are indexed with.
ListTypeOK ==
  /\ device \in Seq(Devices)
  /\ index \in Seq(1..Len(device))
  /\ rowCount \in Nat
  /\ selected \in 0..rowCount
  /\ view \in Views
  /\ previous \subseteq Macs
  /\ highlight \in BOOLEAN
  /\ heard \subseteq [mac : Macs, iface : Ifaces, reachable : BOOLEAN]

\* The rows are the devices that pass the filter, each once, in the order of
\* the sorting; devices with equal cells stay in the order of their arrival.
IsViewOf(rows, devs, v) ==
  /\ ToSet(rows) = {i \in DOMAIN devs : Passes(devs[i], v)}
  /\ \A j, k \in DOMAIN rows : j < k =>
       \/ Before(devs[rows[j]], devs[rows[k]], v)
       \/ ~Before(devs[rows[k]], devs[rows[j]], v) /\ rows[j] < rows[k]

\* device_list.h:79 "indices of visible devices in sorted order": add changes
\* cells of a device without sorting and filtering its row again.
VisibleInOrder == IsViewOf(index, device, view)

\* The table has as many rows as index has elements.
EveryIndexHasARow == rowCount = Len(index)

\* The cells that add changes later are those of the interfaces and of the
\* reachability.  A list that is neither sorted nor filtered by them is what
\* the header says, with one row per visible device, whatever came before.
FixedColumns(v) ==
  /\ v.col \notin {"ifaces", "reachable"}
  /\ ToSet(v.text) \intersect Ifaces = {}
ViewOfFixedColumns ==
  FixedColumns(view) => VisibleInOrder /\ EveryIndexHasARow

\* An entry has the interfaces its device answered on, and is reachable iff
\* one of the first answers on an interface was.
MergedFrom(d, answers) ==
  LET first == {h \in answers : h.mac = d.mac}
  IN  /\ d.ifaces = {h.iface : h \in first}
      /\ d.reachable <=> \E h \in first : h.reachable

\* Whatever the order of the answers on several interfaces: one entry per
\* device, merged from all of them.
AnswersAreMerged ==
  /\ \A i, j \in DOMAIN device : device[i].mac = device[j].mac => i = j
  /\ {device[i].mac : i \in DOMAIN device} = {h.mac : h \in heard}
  /\ \A i \in DOMAIN device : MergedFrom(device[i], heard)

\* CHANGELOG.rst:57: a row is highlighted only if the discovery before did not
\* find the device, and new_discovery, which decides whether the next click
\* looks for highlighted rows at all, is set exactly while there is one.
HighlightedAreNew ==
  /\ highlight <=> \E i \in DOMAIN device : device[i].new
  /\ \A i \in DOMAIN device : device[i].new => device[i].mac \notin previous

\* No step but a click on a row or a drag to it makes another device the selected
\* one, except for a new device that gets a row above the selected one.
SelectionDoesNotSlip ==
  [][\/ SelectedMAC' \in {SelectedMAC, NoMac}
     \/ \E r \in 1..rowCount : ClickRow(r) \/ SelectRow(r)
     \/ Len(device') > Len(device) /\ selected \in DOMAIN index'
         /\ Len(device') \in {index'[k] : k \in 1..selected}]_listVars

=============================================================================
