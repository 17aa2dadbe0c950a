------------------------ MODULE DiscoverWindowProofs ------------------------
(***************************************************************************)
(* First the list of the window, as a specification of its own.  For every *)
(* list of answers and filter texts: its entries are the merged answers,   *)
(* the highlighting is that of new devices, the rows are the visible       *)
(* devices in order, and the selection changes by clicks.                  *)
(*                                                                         *)
(* Then the window, for every bound and every way the reachability test    *)
(* may fail: the two threads exclude each other, waiting for the discover  *)
(* thread never blocks, the buttons fit the selection, and the theorems    *)
(* about the list hold for the running program.                            *)
(***************************************************************************)
EXTENDS DiscoverWindow, EnumerationProofs, SequenceTheorems

-----------------------------------------------------------------------------
(* The list                                                                *)

\* Entries of the list, their texts not restricted to those of Answers.
Entry == [name : Nat, model : Models, mac : Nat, ifaces : SUBSET Nat,
          reachable : BOOLEAN, new : BOOLEAN]
DevicesTyped == device \in Seq(Entry)

EntriesInv ==
  /\ DevicesTyped
  /\ heard \subseteq [mac : Nat, iface : Nat, reachable : BOOLEAN]
  /\ AnswersAreMerged

LEMMA MergedFromFields ==
  ASSUME NEW d, NEW e, NEW answers, MergedFrom(d, answers),
         e.mac = d.mac, e.ifaces = d.ifaces, e.reachable = d.reachable
  PROVE  MergedFrom(e, answers)
BY DEF MergedFrom

\* Only add and clear change what the list knows; a click changes the
\* highlighting of the entries and nothing else of them.
LEMMA OtherOperations ==
  ASSUME EntriesInv, heard' = heard, Unhighlight \/ UNCHANGED device
  PROVE  EntriesInv'
<1>1. /\ DOMAIN device' = DOMAIN device
      /\ DevicesTyped'
      /\ \A i \in DOMAIN device :
           /\ device'[i].mac = device[i].mac
           /\ device'[i].ifaces = device[i].ifaces
           /\ device'[i].reachable = device[i].reachable
  <2>1. CASE device' = device
    BY <2>1 DEF EntriesInv, DevicesTyped
  <2>2. CASE device' = [i \in DOMAIN device |-> [device[i] EXCEPT !.new = FALSE]]
    <3>1. Len(device) \in Nat /\ DOMAIN device = 1..Len(device)
          /\ \A i \in DOMAIN device : device[i] \in Entry
      BY DEF EntriesInv, DevicesTyped
    <3>2. \A i \in DOMAIN device :
            /\ device'[i] \in Entry
            /\ device'[i].mac = device[i].mac
            /\ device'[i].ifaces = device[i].ifaces
            /\ device'[i].reachable = device[i].reachable
      BY <2>2, <3>1 DEF Entry
    <3>3. device' \in [1..Len(device) -> Entry]
      BY <2>2, <3>1, <3>2
    <3>4. DOMAIN device' = DOMAIN device
      BY <3>1, <3>3
    <3>5. device' \in Seq(Entry)
      BY <3>1, <3>3
    <3> QED
      BY <3>2, <3>4, <3>5 DEF DevicesTyped
  <2> QED
    BY <2>1, <2>2 DEF Unhighlight
<1> QED
  <2>1. {device'[i].mac : i \in DOMAIN device'} = {device[i].mac : i \in DOMAIN device}
    BY <1>1
  <2>2. \A i \in DOMAIN device' : MergedFrom(device'[i], heard')
    <3> SUFFICES ASSUME NEW i \in DOMAIN device PROVE MergedFrom(device'[i], heard)
      BY <1>1
    <3>1. MergedFrom(device[i], heard)
      BY DEF EntriesInv, AnswersAreMerged
    <3> QED
      BY <1>1, <3>1, MergedFromFields
  <2>3. \A i, j \in DOMAIN device' : device'[i].mac = device'[j].mac => i = j
    BY <1>1 DEF EntriesInv, AnswersAreMerged
  <2> QED
    BY <1>1, <2>1, <2>2, <2>3 DEF EntriesInv, AnswersAreMerged

LEMMA ClearEntries == ASSUME EntriesInv, Clear PROVE EntriesInv'
BY DEF Clear, EntriesInv, DevicesTyped, AnswersAreMerged

LEMMA AddInterfaceEntries ==
  ASSUME EntriesInv, NEW a \in Answers, NEW reachable \in BOOLEAN, NEW k \in DOMAIN device,
         device[k].mac = a.mac, AddInterface(a, reachable, k)
  PROVE  EntriesInv'
<1>1. CASE a.iface \in device[k].ifaces
  BY <1>1, OtherOperations DEF AddInterface
<1>2. CASE a.iface \notin device[k].ifaces
  <2> DEFINE new == [mac |-> a.mac, iface |-> a.iface, reachable |-> reachable]
  <2>1. /\ device' = [device EXCEPT ![k].ifaces = @ \union {a.iface},
                                    ![k].reachable = @ \/ reachable]
        /\ heard' = heard \union {new}
    BY <1>2 DEF AddInterface
  <2>2. /\ new \in [mac : Nat, iface : Nat, reachable : BOOLEAN]
        /\ new.mac = a.mac /\ new.iface = a.iface /\ new.reachable = reachable
    BY AnswersAssumption
  <2>3. device \in Seq(Entry) /\ device[k] \in Entry
    BY DEF EntriesInv, DevicesTyped
  <2>4. /\ device' \in Seq(Entry)
        /\ DOMAIN device' = DOMAIN device
    <3>1. [device[k] EXCEPT !.ifaces = @ \union {a.iface}, !.reachable = @ \/ reachable]
            \in Entry
      BY <2>2, <2>3 DEF Entry
    <3>2. device' = [device EXCEPT ![k] =
            [device[k] EXCEPT !.ifaces = @ \union {a.iface}, !.reachable = @ \/ reachable]]
      BY <2>1
    <3> QED
      BY <2>3, <3>1, <3>2
  <2>5. \A i \in DOMAIN device : device'[i].mac = device[i].mac
    BY <2>1, <2>3 DEF Entry
  <2>6. /\ device'[k].ifaces = device[k].ifaces \union {a.iface}
        /\ device'[k].reachable = (device[k].reachable \/ reachable)
    BY <2>1, <2>3 DEF Entry
  <2>7. \A i \in DOMAIN device \ {k} : device'[i] = device[i]
    BY <2>1, <2>3
  <2>8. \A i, j \in DOMAIN device : device[i].mac = device[j].mac => i = j
    BY DEF EntriesInv, AnswersAreMerged
  <2>9. \A i \in DOMAIN device : MergedFrom(device'[i], heard')
    <3> SUFFICES ASSUME NEW i \in DOMAIN device PROVE MergedFrom(device'[i], heard')
      OBVIOUS
    <3> DEFINE before == {h \in heard : h.mac = device[i].mac}
               after == {h \in heard' : h.mac = device'[i].mac}
    <3>1. /\ device[i].ifaces = {h.iface : h \in before}
          /\ device[i].reachable <=> \E h \in before : h.reachable
      BY DEF EntriesInv, AnswersAreMerged, MergedFrom
    <3>2. CASE i = k
      <4>1. after = before \union {new}
        BY <2>1, <2>2, <2>5, <3>2
      <4> QED
        BY ZenonT(40), <2>2, <2>6, <3>1, <3>2, <4>1 DEF MergedFrom
    <3>3. CASE i # k
      <4>1. after = before
        BY <2>1, <2>2, <2>7, <2>8, <3>3
      <4> QED
        BY <2>7, <3>1, <3>3, <4>1 DEF MergedFrom
    <3> QED
      BY <3>2, <3>3
  <2>10. {device'[i].mac : i \in DOMAIN device'} = {h.mac : h \in heard'}
    <3>1. {device[i].mac : i \in DOMAIN device} = {h.mac : h \in heard}
      BY DEF EntriesInv, AnswersAreMerged
    <3>2. {device'[i].mac : i \in DOMAIN device'} = {device[i].mac : i \in DOMAIN device}
      BY <2>4, <2>5
    <3>3. {h.mac : h \in heard'} = {h.mac : h \in heard} \union {a.mac}
      BY <2>1, <2>2
    <3> QED
      BY <3>1, <3>2, <3>3
  <2>11. AnswersAreMerged'
    BY <2>4, <2>5, <2>8, <2>9, <2>10 DEF AnswersAreMerged
  <2> QED
    BY <2>1, <2>2, <2>4, <2>11 DEF EntriesInv, DevicesTyped
<1> QED
  BY <1>1, <1>2

LEMMA AddDeviceEntries ==
  ASSUME EntriesInv, NEW a \in Answers, NEW reachable \in BOOLEAN,
         \A k \in DOMAIN device : device[k].mac # a.mac, AddDevice(a, reachable)
  PROVE  EntriesInv'
<1> DEFINE fresh == previous # {} /\ a.mac \notin previous
           d == [name |-> a.name, model |-> a.model, mac |-> a.mac, ifaces |-> {a.iface},
                 reachable |-> reachable, new |-> fresh]
           h0 == [mac |-> a.mac, iface |-> a.iface, reachable |-> reachable]
<1>1. device' = Append(device, d) /\ heard' = heard \union {h0}
  BY DEF AddDevice
<1>2. /\ h0 \in [mac : Nat, iface : Nat, reachable : BOOLEAN]
      /\ h0.mac = a.mac /\ h0.iface = a.iface /\ h0.reachable = reachable
  BY AnswersAssumption
<1>3. /\ d \in Entry
      /\ d.mac = a.mac /\ d.ifaces = {a.iface} /\ d.reachable = reachable
  BY AnswersAssumption DEF Entry
<1>4. device \in Seq(Entry) /\ Len(device) \in Nat /\ DOMAIN device = 1..Len(device)
  BY DEF EntriesInv, DevicesTyped
<1> HIDE DEF d, h0
<1>5. /\ device' \in Seq(Entry)
      /\ DOMAIN device' = 1..(Len(device) + 1)
      /\ \A i \in DOMAIN device : device'[i] = device[i]
      /\ device'[Len(device) + 1] = d
  BY <1>1, <1>3, <1>4
<1>6. \A h \in heard : h.mac # a.mac
  BY DEF EntriesInv, AnswersAreMerged
<1>7. \A i, j \in DOMAIN device' : device'[i].mac = device'[j].mac => i = j
  <2>1. \A i, j \in DOMAIN device : device[i].mac = device[j].mac => i = j
    BY DEF EntriesInv, AnswersAreMerged
  <2> QED
    BY <1>3, <1>4, <1>5, <2>1
<1>8. {device'[i].mac : i \in DOMAIN device'} = {h.mac : h \in heard'}
  <2>1. {device[i].mac : i \in DOMAIN device} = {h.mac : h \in heard}
    BY DEF EntriesInv, AnswersAreMerged
  <2>2. {device'[i].mac : i \in DOMAIN device'} =
          {device[i].mac : i \in DOMAIN device} \union {a.mac}
    BY <1>3, <1>4, <1>5
  <2>3. {h.mac : h \in heard'} = {h.mac : h \in heard} \union {a.mac}
    BY <1>1, <1>2
  <2> QED
    BY <2>1, <2>2, <2>3
<1>9. ASSUME NEW i \in DOMAIN device PROVE MergedFrom(device'[i], heard')
  <2>1. MergedFrom(device[i], heard)
    BY DEF EntriesInv, AnswersAreMerged
  <2>2. {h \in heard' : h.mac = device[i].mac} = {h \in heard : h.mac = device[i].mac}
    BY <1>1, <1>2
  <2> QED
    BY <1>5, <2>1, <2>2 DEF MergedFrom
<1>10. MergedFrom(d, heard')
  <2>1. {h \in heard' : h.mac = d.mac} = {h0}
    BY <1>1, <1>2, <1>3, <1>6
  <2> QED
    BY <1>2, <1>3, <2>1 DEF MergedFrom
<1>11. \A i \in DOMAIN device' : MergedFrom(device'[i], heard')
  BY <1>4, <1>5, <1>9, <1>10
<1>12. AnswersAreMerged'
  BY <1>7, <1>8, <1>11 DEF AnswersAreMerged
<1> QED
  BY <1>1, <1>2, <1>5, <1>12 DEF EntriesInv, DevicesTyped

LEMMA EntriesStep == EntriesInv /\ [ListNext]_listVars => EntriesInv'
<1> SUFFICES ASSUME EntriesInv, [ListNext]_listVars PROVE EntriesInv'
  OBVIOUS
<1>1. CASE Clear
  BY <1>1, ClearEntries
<1>2. ASSUME NEW a \in Answers, NEW reachable \in BOOLEAN, Add(a, reachable)
      PROVE  EntriesInv'
  BY <1>2, AddInterfaceEntries, AddDeviceEntries DEF Add
<1>3. CASE UserOperation
  BY <1>3, OtherOperations DEF UserOperation, FilterRCDevices, Filter, Refilter, SortColumn,
    ClickRow, ClickOutside
<1>4. CASE (\E r \in 1..rowCount : SelectRow(r)) \/ LeaveMenu
  BY <1>4, OtherOperations DEF SelectRow, LeaveMenu
<1>5. CASE UNCHANGED listVars
  BY <1>5, OtherOperations DEF listVars
<1> QED
  BY <1>1, <1>2, <1>3, <1>4, <1>5 DEF ListNext

\* add merges the answers of a device whatever their order, and nothing else
\* changes what they said.
THEOREM EntriesAreMerged == ListSpec => []AnswersAreMerged
<1>1. ListInit => EntriesInv
  BY DEF ListInit, EntriesInv, DevicesTyped, AnswersAreMerged
<1>2. EntriesInv => AnswersAreMerged
  BY DEF EntriesInv
<1> QED
  BY <1>1, <1>2, EntriesStep, PTL DEF ListSpec

-----------------------------------------------------------------------------
(* Highlighting                                                            *)

HighlightInv ==
  /\ DevicesTyped
  /\ highlight \in BOOLEAN
  /\ HighlightedAreNew

LEMMA HighlightKept ==
  ASSUME HighlightInv, DevicesTyped', UNCHANGED <<previous, highlight>>,
         DOMAIN device' = DOMAIN device,
         \A i \in DOMAIN device :
           device'[i].new = device[i].new /\ device'[i].mac = device[i].mac
  PROVE  HighlightInv'
BY DEF HighlightInv, HighlightedAreNew

LEMMA AddInterfaceHighlight ==
  ASSUME HighlightInv, DevicesTyped', NEW a \in Answers, NEW reachable \in BOOLEAN,
         NEW k \in DOMAIN device, AddInterface(a, reachable, k)
  PROVE  HighlightInv'
<1>1. CASE device' = device
  BY <1>1, HighlightKept DEF AddInterface
<1>2. CASE device' = [device EXCEPT ![k].ifaces = @ \union {a.iface},
                                    ![k].reachable = @ \/ reachable]
  <2>1. device \in Seq(Entry)
    BY DEF HighlightInv, DevicesTyped
  <2>2. \A i \in DOMAIN device :
          device'[i].new = device[i].new /\ device'[i].mac = device[i].mac
    BY <1>2, <2>1 DEF Entry
  <2>3. DOMAIN device' = DOMAIN device
    BY <1>2, <2>1
  <2> QED
    BY <2>2, <2>3, HighlightKept DEF AddInterface
<1> QED
  BY <1>1, <1>2 DEF AddInterface

LEMMA AddDeviceHighlight ==
  ASSUME HighlightInv, DevicesTyped', NEW a \in Answers, NEW reachable \in BOOLEAN,
         AddDevice(a, reachable)
  PROVE  HighlightInv'
<1> DEFINE fresh == previous # {} /\ a.mac \notin previous
           d == [name |-> a.name, model |-> a.model, mac |-> a.mac, ifaces |-> {a.iface},
                 reachable |-> reachable, new |-> fresh]
<1>1. /\ device' = Append(device, d)
      /\ highlight' = (highlight \/ fresh)
      /\ previous' = previous
  BY DEF AddDevice
<1>2. d.mac = a.mac /\ d.new = fresh
  OBVIOUS
<1>3. device \in Seq(Entry) /\ Len(device) \in Nat /\ DOMAIN device = 1..Len(device)
  BY DEF HighlightInv, DevicesTyped
<1>4. fresh \in BOOLEAN /\ highlight' \in BOOLEAN
  BY <1>1 DEF HighlightInv
<1> HIDE DEF d
<1>5. /\ DOMAIN device' = 1..(Len(device) + 1)
      /\ \A i \in DOMAIN device : device'[i] = device[i]
      /\ device'[Len(device) + 1] = d
  BY <1>1, <1>3
<1>6. highlight' <=> \E i \in DOMAIN device' : device'[i].new
  <2>1. highlight <=> \E i \in DOMAIN device : device[i].new
    BY DEF HighlightInv, HighlightedAreNew
  <2>2. \A i \in DOMAIN device' : i \in DOMAIN device \/ i = Len(device) + 1
    BY <1>3, <1>5
  <2>3. DOMAIN device \subseteq DOMAIN device' /\ Len(device) + 1 \in DOMAIN device'
    BY <1>3, <1>5
  <2>4. (\E i \in DOMAIN device' : device'[i].new) <=>
          (\E i \in DOMAIN device : device[i].new) \/ d.new
    <3>1. ASSUME NEW i \in DOMAIN device', device'[i].new
          PROVE  (\E j \in DOMAIN device : device[j].new) \/ d.new
      BY <1>5, <2>2, <3>1
    <3>2. ASSUME NEW i \in DOMAIN device, device[i].new
          PROVE  \E j \in DOMAIN device' : device'[j].new
      BY <1>5, <2>3, <3>2
    <3>3. d.new => \E j \in DOMAIN device' : device'[j].new
      BY <1>5, <2>3
    <3> QED
      BY <3>1, <3>2, <3>3
  <2> QED
    BY <1>1, <1>2, <2>1, <2>4
<1>7. \A i \in DOMAIN device' : device'[i].new => device'[i].mac \notin previous'
  <2>1. \A i \in DOMAIN device : device[i].new => device[i].mac \notin previous
    BY DEF HighlightInv, HighlightedAreNew
  <2>2. ASSUME NEW i \in DOMAIN device, device'[i].new
        PROVE  device'[i].mac \notin previous
    BY <1>5, <2>1, <2>2
  <2>3. d.new => d.mac \notin previous
    BY <1>2
  <2>4. \A i \in DOMAIN device' : i \in DOMAIN device \/ i = Len(device) + 1
    BY <1>3, <1>5
  <2> QED
    BY <1>1, <1>5, <2>2, <2>3, <2>4
<1> QED
  BY <1>4, <1>6, <1>7 DEF HighlightInv, HighlightedAreNew

LEMMA UnhighlightHighlight ==
  ASSUME HighlightInv, DevicesTyped', Unhighlight, previous' = previous
  PROVE  HighlightInv'
<1>1. CASE highlight
  <2>1. device' = [i \in DOMAIN device |-> [device[i] EXCEPT !.new = FALSE]]
    BY <1>1 DEF Unhighlight
  <2>2. \A i \in DOMAIN device : device[i] \in Entry
    BY DEF HighlightInv, DevicesTyped
  <2>3. \A i \in DOMAIN device' : device'[i].new = FALSE
    BY <2>1, <2>2 DEF Entry
  <2>4. HighlightedAreNew'
    BY <2>3 DEF Unhighlight, HighlightedAreNew
  <2> QED
    BY <2>4 DEF Unhighlight, HighlightInv
<1>2. CASE ~highlight
  BY <1>2, HighlightKept DEF Unhighlight, HighlightInv
<1> QED
  BY <1>1, <1>2

LEMMA HighlightStep ==
  HighlightInv /\ DevicesTyped' /\ [ListNext]_listVars => HighlightInv'
<1> SUFFICES ASSUME HighlightInv, DevicesTyped', [ListNext]_listVars PROVE HighlightInv'
  OBVIOUS
<1>1. CASE Clear
  <2>1. device' = <<>> /\ highlight' = FALSE
    BY <1>1 DEF Clear
  <2>2. DOMAIN device' = {}
    BY <2>1
  <2> QED
    BY <2>1, <2>2 DEF HighlightInv, HighlightedAreNew
<1>2. ASSUME NEW a \in Answers, NEW reachable \in BOOLEAN, Add(a, reachable)
      PROVE  HighlightInv'
  BY <1>2, AddInterfaceHighlight, AddDeviceHighlight DEF Add
<1>3. CASE UserOperation
  <2>1. \/ Unhighlight /\ previous' = previous
        \/ UNCHANGED <<device, previous, highlight>>
    BY <1>3 DEF UserOperation, FilterRCDevices, Filter, Refilter, SortColumn, ClickRow,
      ClickOutside
  <2> QED
    BY <2>1, UnhighlightHighlight, HighlightKept
<1>4. CASE (\E r \in 1..rowCount : SelectRow(r)) \/ LeaveMenu
  <2>1. \/ Unhighlight /\ previous' = previous
        \/ UNCHANGED <<device, previous, highlight>>
    BY <1>4 DEF SelectRow, LeaveMenu
  <2> QED
    BY <2>1, UnhighlightHighlight, HighlightKept
<1>5. CASE UNCHANGED listVars
  BY <1>5, HighlightKept DEF listVars
<1> QED
  BY <1>1, <1>2, <1>3, <1>4, <1>5 DEF ListNext

\* A highlighted row is that of a device the discovery before did not find,
\* and the flag the click handler looks at is set while there is one.
THEOREM OnlyNewAreHighlighted == ListSpec => []HighlightedAreNew
<1>1. ListInit => EntriesInv /\ HighlightInv
  <2> SUFFICES ASSUME ListInit PROVE EntriesInv /\ HighlightInv
    OBVIOUS
  <2>1. device = <<>> /\ heard = {} /\ highlight = FALSE
    BY DEF ListInit
  <2>2. DOMAIN device = {} /\ DevicesTyped
    BY <2>1 DEF DevicesTyped
  <2> QED
    BY <2>1, <2>2 DEF EntriesInv, HighlightInv, AnswersAreMerged, HighlightedAreNew
<1>2. EntriesInv => DevicesTyped
  BY DEF EntriesInv
<1>3. HighlightInv => HighlightedAreNew
  BY DEF HighlightInv
<1> QED
  BY <1>1, <1>2, <1>3, EntriesStep, HighlightStep, PTL DEF ListSpec

-----------------------------------------------------------------------------
(* The rows: a device is inserted                                          *)

\* Rows with i inserted at position p.
Inserted(new, rows, p, i) ==
  /\ Len(new) = Len(rows) + 1
  /\ \A k \in 1..(Len(rows) + 1) :
       new[k] = IF k < p THEN rows[k] ELSE IF k = p THEN i ELSE rows[k - 1]

LEMMA InsertAtInserts ==
  ASSUME NEW rows \in Seq(Nat), NEW p \in 1..Len(rows), NEW i \in Nat
  PROVE  InsertAt(rows, p, i) \in Seq(Nat) /\ Inserted(InsertAt(rows, p, i), rows, p, i)
<1>1. PICK n \in Nat : n = Len(rows) /\ DOMAIN rows = 1..n /\ rows \in [1..n -> Nat]
  OBVIOUS
<1>2. p \in 1..n /\ p - 1 \in 0..n /\ p - 1 \in Nat
  BY <1>1
<1> DEFINE low == SubSeq(rows, 1, p - 1)
           high == SubSeq(rows, p, n)
<1>3. low \in Seq(Nat) /\ Len(low) = p - 1 /\ \A k \in 1..(p - 1) : low[k] = rows[k]
  BY <1>1, <1>2
<1>4. high \in Seq(Nat) /\ Len(high) = n - p + 1 /\ \A k \in 1..(n - p + 1) : high[k] = rows[p + k - 1]
  BY <1>1, <1>2
<1>5. InsertAt(rows, p, i) = low \o <<i>> \o high
  BY <1>1 DEF InsertAt
<1> HIDE DEF low, high
<1> DEFINE front == low \o <<i>>
<1>6. front \in Seq(Nat) /\ Len(front) = p
      /\ \A k \in 1..p : front[k] = IF k < p THEN rows[k] ELSE i
  <2>1. <<i>> \in Seq(Nat) /\ Len(<<i>>) = 1 /\ <<i>>[1] = i
    OBVIOUS
  <2>2. front \in Seq(Nat) /\ Len(front) = p
    BY <1>2, <1>3, <2>1
  <2>3. \A k \in 1..p : front[k] = IF k < p THEN low[k] ELSE <<i>>[1]
    BY <1>2, <1>3, <2>1
  <2>4. ASSUME NEW k \in 1..p
        PROVE  front[k] = IF k < p THEN rows[k] ELSE i
    <3>1. CASE k < p
      <4>1. k \in 1..(p - 1)
        BY <1>2, <3>1
      <4>2. front[k] = low[k]
        BY <2>3, <3>1
      <4>3. QED
        BY <1>3, <3>1, <4>1, <4>2
    <3>2. CASE ~(k < p)
      <4>1. front[k] = i
        BY <2>1, <2>3, <3>2
      <4>2. QED
        BY <3>2, <4>1
    <3>3. QED
      BY <3>1, <3>2
  <2>5. QED
    BY <2>2, <2>4
<1> HIDE DEF front
<1> DEFINE new == front \o high
<1>7. new \in Seq(Nat) /\ Len(new) = n + 1
      /\ \A k \in 1..(n + 1) : new[k] = IF k <= p THEN front[k] ELSE high[k - p]
  <2>1. /\ new \in Seq(Nat) /\ Len(new) = Len(front) + Len(high)
        /\ \A k \in 1..(Len(front) + Len(high)) :
             new[k] = IF k <= Len(front) THEN front[k] ELSE high[k - Len(front)]
    BY <1>4, <1>6, ConcatProperties
  <2>2. Len(front) + Len(high) = n + 1
    BY <1>1, <1>2, <1>4, <1>6
  <2> HIDE DEF new
  <2>3. QED
    BY <1>6, <2>1, <2>2
<1> HIDE DEF new
<1>8. ASSUME NEW k \in 1..(n + 1)
      PROVE  new[k] = IF k < p THEN rows[k] ELSE IF k = p THEN i ELSE rows[k - 1]
  <2>1. CASE k < p
    <3>1. k \in 1..p /\ k <= p
      BY <1>2, <2>1
    <3>2. QED
      BY <1>6, <1>7, <2>1, <3>1
  <2>2. CASE k = p
    <3>1. k \in 1..p /\ k <= p /\ ~(k < p)
      BY <1>2, <2>2
    <3>2. QED
      BY <1>6, <1>7, <2>2, <3>1
  <2>3. CASE k > p
    <3>1. k - p \in 1..(n - p + 1) /\ p + (k - p) - 1 = k - 1
      BY <1>2, <2>3
    <3>2. new[k] = high[k - p]
      BY SMTT(30), <1>2, <1>7, <2>3
    <3>3. QED
      BY <1>2, <1>4, <2>3, <3>1, <3>2
  <2>4. QED
    BY <1>2, <2>1, <2>2, <2>3
<1>9. InsertAt(rows, p, i) = new
  BY <1>5 DEF front, new
<1>10. QED
  BY <1>1, <1>7, <1>8, <1>9 DEF Inserted

\* A device that passes the filter gets a row before the first one that is
\* strictly greater.
LEMMA RowIsInserted ==
  ASSUME NEW devs, NEW v, NEW rows \in Seq(Nat), NEW i \in Nat, NEW new,
         new = AddDeviceIndex(devs, rows, i, v), Passes(devs[i], v)
  PROVE  /\ new \in Seq(Nat)
         /\ \E p \in 1..(Len(rows) + 1) :
              /\ Inserted(new, rows, p, i)
              /\ \A k \in 1..(p - 1) : ~Before(devs[i], devs[rows[k]], v)
              /\ p \in DOMAIN rows => Before(devs[i], devs[rows[p]], v)
<1> DEFINE greater == {k \in DOMAIN rows : Before(devs[i], devs[rows[k]], v)}
<1>1. PICK n \in Nat : n = Len(rows) /\ DOMAIN rows = 1..n /\ rows \in [1..n -> Nat]
  OBVIOUS
<1>2. \A k \in 1..n : k \in greater <=> Before(devs[i], devs[rows[k]], v)
  BY <1>1
<1>3. greater \in SUBSET (1..n)
  BY <1>1
<1>4. new = IF greater = {} THEN Append(rows, i) ELSE InsertAt(rows, Min(greater), i)
  BY DEF AddDeviceIndex
<1> HIDE DEF greater
<1>5. CASE greater = {}
  <2>1. new = Append(rows, i)
    BY <1>4, <1>5
  <2>2. new \in Seq(Nat) /\ Len(new) = n + 1
    BY <1>1, <2>1
  <2>3. \A k \in 1..(n + 1) : new[k] = IF k < n + 1 THEN rows[k] ELSE i
    BY <1>1, <2>1
  <2>4. Inserted(new, rows, n + 1, i)
    BY <1>1, <2>2, <2>3 DEF Inserted
  <2>5. \A k \in 1..(n + 1 - 1) : ~Before(devs[i], devs[rows[k]], v)
    BY <1>2, <1>5
  <2>6. n + 1 \in 1..(n + 1) /\ n + 1 \notin DOMAIN rows
    BY <1>1
  <2>7. /\ n + 1 \in 1..(Len(rows) + 1)
        /\ Inserted(new, rows, n + 1, i)
        /\ \A k \in 1..(n + 1 - 1) : ~Before(devs[i], devs[rows[k]], v)
        /\ n + 1 \in DOMAIN rows => Before(devs[i], devs[rows[n + 1]], v)
    BY <1>1, <2>4, <2>5, <2>6
  <2>8. QED
    BY SMTT(30), <2>2, <2>7
<1>6. CASE greater # {}
  <2>1. PICK p \in greater : p = Min(greater) /\ \A k \in greater : p <= k
    <3>1. greater \in SUBSET Nat
      BY <1>3
    <3>2. \E p \in greater : \A k \in greater : p <= k
      BY <1>6, <3>1, LeastNumber
    <3>3. Min(greater) \in greater /\ \A k \in greater : Min(greater) <= k
      BY <3>2 DEF Min
    <3>4. QED
      BY <3>3
  <2>2. p \in 1..n /\ new = InsertAt(rows, p, i)
    BY <1>3, <1>4, <1>6, <2>1
  <2>3. new \in Seq(Nat) /\ Inserted(new, rows, p, i)
    BY <1>1, <2>2, InsertAtInserts
  <2>4. \A k \in 1..(p - 1) : ~Before(devs[i], devs[rows[k]], v)
    <3>1. SUFFICES ASSUME NEW k \in 1..(p - 1) PROVE k \notin greater
      BY <1>2, <2>2
    <3>2. QED
      BY <2>1, <2>2
  <2>5. Before(devs[i], devs[rows[p]], v)
    BY <1>2, <2>1, <2>2
  <2>6. p \in 1..(n + 1)
    BY <2>2
  <2>7. QED
    BY <1>1, <2>3, <2>4, <2>5, <2>6
<1>7. QED
  BY <1>5, <1>6

\* The loop of updateDeviceIndices: each device is added to the rows of those
\* before it.
LEMMA RowsAreBuilt ==
  ASSUME NEW devs, Len(devs) \in Nat, NEW v
  PROVE  \E rows :
           /\ rows[0] = <<>>
           /\ \A n \in 1..Len(devs) : rows[n] = AddDeviceIndex(devs, rows[n - 1], n, v)
           /\ DeviceIndices(devs, v) = rows[Len(devs)]
<1> DEFINE Built(f, m) ==
             /\ f = [n \in 0..m |-> f[n]]
             /\ f[0] = <<>>
             /\ \A n \in 1..m : f[n] = AddDeviceIndex(devs, f[n - 1], n, v)
           Wrong == {m \in Nat : ~ \E f : Built(f, m)}
<1>1. PICK size \in Nat : size = Len(devs)
  OBVIOUS
<1>2. \E f : Built(f, size)
  <2>1. SUFFICES ASSUME Wrong # {} PROVE FALSE
    BY <1>1
  <2>2. PICK m \in Wrong : \A l \in Wrong : m <= l
    <3>1. Wrong \in SUBSET Nat
      OBVIOUS
    <3> HIDE DEF Wrong
    <3>2. QED
      BY <2>1, <3>1, LeastNumber
  <2>3. m \in Nat /\ ~ \E f : Built(f, m)
    BY <2>2
  <2>4. m # 0
    <3>1. SUFFICES ASSUME m = 0 PROVE FALSE
      OBVIOUS
    <3> DEFINE f == [n \in 0..0 |-> <<>>]
    <3>2. f = [n \in 0..0 |-> f[n]] /\ f[0] = <<>>
      OBVIOUS
    <3>3. \A n \in 1..0 : f[n] = AddDeviceIndex(devs, f[n - 1], n, v)
      OBVIOUS
    <3> HIDE DEF f
    <3>4. QED
      BY <2>3, <3>1, <3>2, <3>3
  <2>5. PICK f : Built(f, m - 1)
    <3>1. m - 1 \in Nat /\ ~(m <= m - 1)
      BY <2>3, <2>4
    <3>2. m - 1 \notin Wrong
      BY <2>2, <3>1
    <3> HIDE DEF Built
    <3>3. QED
      BY <3>1, <3>2
  <2> DEFINE g == [n \in 0..m |-> IF n = m THEN AddDeviceIndex(devs, f[m - 1], m, v) ELSE f[n]]
  <2>6. g = [n \in 0..m |-> g[n]]
    OBVIOUS
  <2>7. \A n \in 0..m : g[n] = IF n = m THEN AddDeviceIndex(devs, f[m - 1], m, v) ELSE f[n]
    OBVIOUS
  <2> HIDE DEF g
  <2>8. g[0] = <<>>
    <3>1. 0 \in 0..m /\ 0 # m
      BY <2>3, <2>4
    <3>2. f[0] = <<>>
      BY <2>5
    <3>3. QED
      BY <2>7, <3>1, <3>2
  <2>9. ASSUME NEW n \in 1..m
        PROVE  g[n] = AddDeviceIndex(devs, g[n - 1], n, v)
    <3>1. n - 1 \in 0..m /\ n - 1 # m /\ n \in 0..m
      BY <2>3
    <3>2. g[n - 1] = f[n - 1]
      BY <2>7, <3>1
    <3>3. CASE n = m
      BY <2>7, <3>1, <3>2, <3>3
    <3>4. CASE n # m
      <4>1. n \in 1..(m - 1)
        BY <2>3, <3>4
      <4>2. QED
        BY <2>5, <2>7, <3>1, <3>2, <3>4, <4>1
    <3>5. QED
      BY <3>3, <3>4
  <2>10. QED
    BY <2>3, <2>6, <2>8, <2>9
<1>3. PICK f : Built(f, size)
  BY <1>2
<1>4. f = [n \in 0..size |-> IF n = 0 THEN <<>> ELSE AddDeviceIndex(devs, f[n - 1], n, v)]
  <2>1. \A n \in 0..size :
          f[n] = IF n = 0 THEN <<>> ELSE AddDeviceIndex(devs, f[n - 1], n, v)
    <3>1. SUFFICES ASSUME NEW n \in 0..size
                   PROVE  f[n] = IF n = 0 THEN <<>> ELSE AddDeviceIndex(devs, f[n - 1], n, v)
      OBVIOUS
    <3>2. CASE n = 0
      BY <1>3, <3>2
    <3>3. CASE n # 0
      <4>1. n \in 1..size
        BY <1>1, <3>3
      <4>2. QED
        BY <1>3, <3>3, <4>1
    <3>4. QED
      BY <3>2, <3>3
  <2>2. QED
    BY <1>3, <2>1
<1> DEFINE rows == CHOOSE h : h =
      [n \in 0..size |-> IF n = 0 THEN <<>> ELSE AddDeviceIndex(devs, h[n - 1], n, v)]
<1>5. rows = [n \in 0..size |-> IF n = 0 THEN <<>> ELSE AddDeviceIndex(devs, rows[n - 1], n, v)]
  BY <1>4
<1>6. DeviceIndices(devs, v) = rows[size]
  BY <1>1 DEF DeviceIndices
<1> HIDE DEF rows
<1>7. rows[0] = <<>>
  BY <1>1, <1>5
<1>8. \A n \in 1..size : rows[n] = AddDeviceIndex(devs, rows[n - 1], n, v)
  <2>1. SUFFICES ASSUME NEW n \in 1..size
                 PROVE  rows[n] = AddDeviceIndex(devs, rows[n - 1], n, v)
    OBVIOUS
  <2>2. n \in 0..size /\ n # 0
    BY <1>1
  <2>3. QED
    BY <1>5, <2>2
<1>9. QED
  BY <1>1, <1>6, <1>7, <1>8

\* The rows are those of the devices up to n that pass the filter, each once.
RowsOf(rows, devs, v, n) ==
  /\ rows \in Seq(Nat)
  /\ \A k \in DOMAIN rows : rows[k] \in 1..n /\ Passes(devs[rows[k]], v)
  /\ \A i \in 1..n : Passes(devs[i], v) => \E k \in DOMAIN rows : rows[k] = i
  /\ \A j, k \in DOMAIN rows : rows[j] = rows[k] => j = k

\* Rows with equal cells are in the order of their devices.
InOrder(rows, devs, v) ==
  \A j, k \in DOMAIN rows : j < k =>
    \/ Before(devs[rows[j]], devs[rows[k]], v)
    \/ ~Before(devs[rows[k]], devs[rows[j]], v) /\ rows[j] < rows[k]

\* Where the rows come from when one is inserted.
LEMMA InsertedRows ==
  ASSUME NEW rows \in Seq(Nat), NEW new \in Seq(Nat), NEW i \in Nat, NEW p \in 1..(Len(rows) + 1),
         Inserted(new, rows, p, i)
  PROVE  /\ p \in DOMAIN new /\ new[p] = i
         /\ \A k \in DOMAIN rows : k < p => k \in DOMAIN new /\ new[k] = rows[k]
         /\ \A k \in DOMAIN rows : p <= k => k + 1 \in DOMAIN new /\ new[k + 1] = rows[k]
         /\ \A k \in DOMAIN new :
              \/ k < p /\ k \in DOMAIN rows /\ new[k] = rows[k]
              \/ k = p
              \/ k > p /\ k - 1 \in DOMAIN rows /\ new[k] = rows[k - 1]
<1>1. PICK n \in Nat : n = Len(rows) /\ DOMAIN rows = 1..n
  OBVIOUS
<1>2. DOMAIN new = 1..(n + 1)
  BY <1>1 DEF Inserted
<1>3. \A k \in 1..(n + 1) : new[k] = IF k < p THEN rows[k] ELSE IF k = p THEN i ELSE rows[k - 1]
  BY <1>1 DEF Inserted
<1>4. p \in 1..(n + 1)
  BY <1>1
<1>5. p \in DOMAIN new /\ new[p] = i
  BY <1>2, <1>3, <1>4
<1>6. ASSUME NEW k \in DOMAIN rows, k < p
      PROVE  k \in DOMAIN new /\ new[k] = rows[k]
  <2>1. k \in 1..(n + 1)
    BY <1>1
  <2>2. QED
    BY <1>2, <1>3, <1>6, <2>1
<1>7. ASSUME NEW k \in DOMAIN rows, p <= k
      PROVE  k + 1 \in DOMAIN new /\ new[k + 1] = rows[k]
  <2>1. k + 1 \in 1..(n + 1) /\ ~(k + 1 < p) /\ k + 1 # p /\ (k + 1) - 1 = k
    BY <1>1, <1>4, <1>7
  <2>2. QED
    BY <1>2, <1>3, <2>1
<1>8. ASSUME NEW k \in DOMAIN new
      PROVE  \/ k < p /\ k \in DOMAIN rows /\ new[k] = rows[k]
             \/ k = p
             \/ k > p /\ k - 1 \in DOMAIN rows /\ new[k] = rows[k - 1]
  <2>1. CASE k < p
    <3>1. k \in 1..n /\ k \in 1..(n + 1)
      BY <1>1, <1>2, <1>4, <2>1
    <3>2. QED
      BY <1>1, <1>3, <2>1, <3>1
  <2>2. CASE k > p
    <3>1. k - 1 \in 1..n /\ k \in 1..(n + 1) /\ ~(k < p) /\ k # p
      BY SMTT(30), <1>1, <1>2, <1>4, <2>2
    <3>2. QED
      BY <1>1, <1>3, <2>2, <3>1
  <2>3. QED
    BY <1>2, <1>4, <2>1, <2>2
<1>9. QED
  BY <1>5, <1>6, <1>7, <1>8

\* addDeviceIndex for the next device keeps the rows right ...
LEMMA AddedRows ==
  ASSUME NEW devs, NEW v, NEW n \in Nat \ {0}, NEW rows, RowsOf(rows, devs, v, n - 1)
  PROVE  RowsOf(AddDeviceIndex(devs, rows, n, v), devs, v, n)
<1>1. PICK new : new = AddDeviceIndex(devs, rows, n, v)
  OBVIOUS
<1>2. rows \in Seq(Nat) /\ \A k \in DOMAIN rows : rows[k] \in 1..n /\ rows[k] # n
  BY DEF RowsOf
<1>3. CASE ~Passes(devs[n], v)
  <2>1. new = rows
    BY <1>1, <1>3 DEF AddDeviceIndex
  <2>2. \A i \in 1..n : i \in 1..(n - 1) \/ i = n
    OBVIOUS
  <2>3. RowsOf(rows, devs, v, n)
    BY <1>2, <1>3, <2>2 DEF RowsOf
  <2>4. QED
    BY <1>1, <2>1, <2>3
<1>4. CASE Passes(devs[n], v)
  <2>1. PICK p \in 1..(Len(rows) + 1) : new \in Seq(Nat) /\ Inserted(new, rows, p, n)
    BY <1>1, <1>2, <1>4, RowIsInserted
  <2>2. /\ p \in DOMAIN new /\ new[p] = n
        /\ \A k \in DOMAIN rows : k < p => k \in DOMAIN new /\ new[k] = rows[k]
        /\ \A k \in DOMAIN rows : p <= k => k + 1 \in DOMAIN new /\ new[k + 1] = rows[k]
    BY <1>2, <2>1, InsertedRows
  <2>3. \A k \in DOMAIN new :
          \/ k < p /\ k \in DOMAIN rows /\ new[k] = rows[k]
          \/ k = p
          \/ k > p /\ k - 1 \in DOMAIN rows /\ new[k] = rows[k - 1]
    BY <1>2, <2>1, InsertedRows
  <2>0. p \in Nat /\ DOMAIN rows \subseteq Nat /\ DOMAIN new \subseteq Nat
    BY <1>2, <2>1
  <2>4. ASSUME NEW k \in DOMAIN new
        PROVE  new[k] \in 1..n /\ Passes(devs[new[k]], v)
    BY <1>2, <1>4, <2>2, <2>3 DEF RowsOf
  <2>5. ASSUME NEW i \in 1..n, Passes(devs[i], v)
        PROVE  \E k \in DOMAIN new : new[k] = i
    <3>1. CASE i = n
      BY <2>2, <3>1
    <3>2. CASE i # n
      <4>1. i \in 1..(n - 1)
        BY <3>2
      <4>2. PICK k \in DOMAIN rows : rows[k] = i
        BY <2>5, <4>1 DEF RowsOf
      <4>3. k < p \/ p <= k
        BY <2>0
      <4>4. QED
        BY <2>2, <4>2, <4>3
    <3>3. QED
      BY <3>1, <3>2
  <2>6. ASSUME NEW j \in DOMAIN new, NEW k \in DOMAIN new, new[j] = new[k]
        PROVE  j = k
    <3>0. \A a, b \in DOMAIN rows : rows[a] = rows[b] => a = b
      BY DEF RowsOf
    <3>1. CASE j = p
      BY <1>2, <2>2, <2>3, <2>6, <3>1
    <3>2. CASE k = p
      BY <1>2, <2>2, <2>3, <2>6, <3>2
    <3>3. CASE j < p /\ k < p
      BY <2>0, <2>3, <2>6, <3>0, <3>3
    <3>4. CASE j > p /\ k > p
      <4>1. j - 1 = k - 1
        BY <2>0, <2>3, <2>6, <3>0, <3>4
      <4>2. QED
        BY <2>0, <4>1
    <3>5. CASE j < p /\ k > p
      <4>1. j = k - 1
        BY <2>0, <2>3, <2>6, <3>0, <3>5
      <4>2. QED
        BY <2>0, <3>5, <4>1
    <3>6. CASE j > p /\ k < p
      <4>1. j - 1 = k
        BY <2>0, <2>3, <2>6, <3>0, <3>6
      <4>2. QED
        BY <2>0, <3>6, <4>1
    <3>7. QED
      BY <2>3, <3>1, <3>2, <3>3, <3>4, <3>5, <3>6
  <2>7. RowsOf(new, devs, v, n)
    BY <2>1, <2>4, <2>5, <2>6 DEF RowsOf
  <2>8. QED
    BY <1>1, <2>7
<1>5. QED
  BY <1>3, <1>4

\* The column is one of those whose cells are single numbers.
SortedByNumber(devs, v, n) ==
  /\ v.col \in {"name", "mac"}
  /\ \A i \in 1..n : devs[i].name \in Nat /\ devs[i].mac \in Nat

SortKey(d, v) == IF v.col = "name" THEN d.name ELSE d.mac

LEMMA BeforeByNumber ==
  ASSUME NEW d, NEW e, NEW v, v.col \in {"name", "mac"},
         d.name \in Nat, d.mac \in Nat, e.name \in Nat, e.mac \in Nat
  PROVE  Before(d, e, v) <=> IF v.down THEN SortKey(d, v) < SortKey(e, v)
                                       ELSE SortKey(e, v) < SortKey(d, v)
<1>1. ASSUME NEW x \in Nat, NEW y \in Nat
      PROVE  Less(<<x>>, <<y>>) <=> x < y
  <2>1. DOMAIN <<x>> = {1} /\ DOMAIN <<y>> = {1} /\ <<x>>[1] = x /\ <<y>>[1] = y
    OBVIOUS
  <2>2. ~IsStrictPrefix(<<x>>, <<y>>)
    BY <2>1 DEF IsStrictPrefix, IsPrefix
  <2>3. Less(<<x>>, <<y>>) <=>
          \E i \in {1} : <<x>>[i] < <<y>>[i] /\ \A j \in 1..(i - 1) : <<x>>[j] = <<y>>[j]
    <3>1. DOMAIN <<x>> \intersect DOMAIN <<y>> = {1}
      BY <2>1
    <3>2. QED
      BY <2>2, <3>1, Zenon DEF Less
  <2>4. QED
    BY <2>1, <2>3
<1>2. /\ CellKey(d, v.col) = <<SortKey(d, v)>> /\ SortKey(d, v) \in Nat
      /\ CellKey(e, v.col) = <<SortKey(e, v)>> /\ SortKey(e, v) \in Nat
  <2>1. CASE v.col = "name"
    BY <2>1 DEF CellKey, SortKey
  <2>2. CASE v.col = "mac"
    BY <2>2 DEF CellKey, SortKey
  <2>3. QED
    BY <2>1, <2>2
<1>3. QED
  BY <1>1, <1>2 DEF Before

\* ... and in order.
LEMMA AddedInOrder ==
  ASSUME NEW devs, NEW v, NEW n \in Nat \ {0}, NEW rows, RowsOf(rows, devs, v, n - 1),
         InOrder(rows, devs, v), SortedByNumber(devs, v, n)
  PROVE  InOrder(AddDeviceIndex(devs, rows, n, v), devs, v)
<1>1. PICK new : new = AddDeviceIndex(devs, rows, n, v)
  OBVIOUS
<1>2. rows \in Seq(Nat) /\ \A k \in DOMAIN rows : rows[k] \in 1..n /\ rows[k] < n
  BY DEF RowsOf
<1>3. CASE ~Passes(devs[n], v)
  BY <1>3 DEF AddDeviceIndex
<1>4. CASE Passes(devs[n], v)
  <2>1. PICK p \in 1..(Len(rows) + 1) :
          /\ new \in Seq(Nat) /\ Inserted(new, rows, p, n)
          /\ \A k \in 1..(p - 1) : ~Before(devs[n], devs[rows[k]], v)
          /\ p \in DOMAIN rows => Before(devs[n], devs[rows[p]], v)
    BY <1>1, <1>2, <1>4, RowIsInserted
  <2>2. p \in DOMAIN new /\ new[p] = n
    BY <1>2, <2>1, InsertedRows
  <2>3. \A k \in DOMAIN new :
          \/ k < p /\ k \in DOMAIN rows /\ new[k] = rows[k]
          \/ k = p
          \/ k > p /\ k - 1 \in DOMAIN rows /\ new[k] = rows[k - 1]
    BY <1>2, <2>1, InsertedRows
  <2>0. /\ p \in Nat /\ DOMAIN rows \subseteq Nat /\ DOMAIN new \subseteq Nat
        /\ \A k \in DOMAIN rows : k <= Len(rows) /\ k >= 1
        /\ \A k \in 1..Len(rows) : k \in DOMAIN rows
        /\ Len(rows) \in Nat
    BY <1>2, <2>1
  <2> DEFINE Precedes(a, b) ==
               \/ Before(devs[a], devs[b], v)
               \/ ~Before(devs[b], devs[a], v) /\ a < b
             Key(i) == SortKey(devs[i], v)
  <2>4. \A a, b \in 1..n : Before(devs[a], devs[b], v) <=>
          IF v.down THEN Key(a) < Key(b) ELSE Key(b) < Key(a)
    BY SMTT(30), BeforeByNumber DEF SortedByNumber
  <2>5. \A a \in 1..n : Key(a) \in Nat
    BY DEF SortKey, SortedByNumber
  <2>6. \A j, k \in DOMAIN rows : j < k => Precedes(rows[j], rows[k])
    BY DEF InOrder
  <2>7. n \in 1..n
    OBVIOUS
  <2>8. ASSUME NEW k \in DOMAIN rows, k < p PROVE Precedes(rows[k], n)
    <3>1. k \in 1..(p - 1)
      BY <2>0, <2>8
    <3>2. QED
      BY <1>2, <2>1, <3>1
  <2>9. ASSUME NEW k \in DOMAIN rows, p <= k PROVE Before(devs[n], devs[rows[k]], v)
    <3>1. p \in DOMAIN rows
      BY <2>0, <2>1, <2>9
    <3>2. Before(devs[n], devs[rows[p]], v)
      BY <2>1, <3>1
    <3>3. CASE k = p
      BY <3>2, <3>3
    <3>4. CASE k # p
      <4>1. Precedes(rows[p], rows[k])
        BY <2>0, <2>6, <2>9, <3>1, <3>4
      <4>2. Before(devs[rows[p]], devs[rows[k]], v) \/ ~Before(devs[rows[k]], devs[rows[p]], v)
        BY <4>1
      <4>3. rows[p] \in 1..n /\ rows[k] \in 1..n
        BY <1>2, <3>1
      <4> HIDE DEF Key
      <4>4. /\ Key(n) \in Nat /\ Key(rows[p]) \in Nat /\ Key(rows[k]) \in Nat
        BY <2>5, <2>7, <4>3
      <4>5. CASE v.down
        <5>1. Key(n) < Key(rows[p])
          BY <2>4, <2>7, <3>2, <4>3, <4>5
        <5>2. ~(Key(rows[k]) < Key(rows[p]))
          BY <2>4, <4>2, <4>3, <4>4, <4>5
        <5>3. Key(n) < Key(rows[k])
          BY <4>4, <5>1, <5>2
        <5>4. QED
          BY <2>4, <2>7, <4>3, <4>5, <5>3
      <4>6. CASE ~v.down
        <5>1. Key(rows[p]) < Key(n)
          BY <2>4, <2>7, <3>2, <4>3, <4>6
        <5>2. ~(Key(rows[p]) < Key(rows[k]))
          BY <2>4, <4>2, <4>3, <4>4, <4>6
        <5>3. Key(rows[k]) < Key(n)
          BY <4>4, <5>1, <5>2
        <5>4. QED
          BY <2>4, <2>7, <4>3, <4>6, <5>3
      <4>7. QED
        BY <4>5, <4>6
    <3>5. QED
      BY <3>3, <3>4
  <2>10. ASSUME NEW j \in DOMAIN new, NEW k \in DOMAIN new, j < k
         PROVE  Precedes(new[j], new[k])
    <3> HIDE DEF Precedes
    <3>1. CASE j = p
      <4>1. k - 1 \in DOMAIN rows /\ new[k] = rows[k - 1] /\ p <= k - 1
        BY <2>0, <2>3, <2>10, <3>1
      <4>2. QED
        BY <2>2, <2>9, <3>1, <4>1 DEF Precedes
    <3>2. CASE k = p
      <4>1. j \in DOMAIN rows /\ new[j] = rows[j] /\ j < p
        BY <2>0, <2>3, <2>10, <3>2
      <4>2. QED
        BY <2>2, <2>8, <3>2, <4>1
    <3>3. CASE j < p /\ k < p
      <4>1. j \in DOMAIN rows /\ new[j] = rows[j] /\ k \in DOMAIN rows /\ new[k] = rows[k]
        BY <2>0, <2>3, <3>3
      <4>2. QED
        BY <2>6, <2>10, <4>1
    <3>4. CASE j < p /\ k > p
      <4>1. j \in DOMAIN rows /\ new[j] = rows[j]
            /\ k - 1 \in DOMAIN rows /\ new[k] = rows[k - 1] /\ j < k - 1
        BY <2>0, <2>3, <3>4
      <4>2. QED
        BY <2>6, <4>1
    <3>5. CASE j > p
      <4>1. j - 1 \in DOMAIN rows /\ new[j] = rows[j - 1]
            /\ k - 1 \in DOMAIN rows /\ new[k] = rows[k - 1] /\ j - 1 < k - 1
        <5>1. ~(j < p) /\ j # p /\ ~(k < p) /\ k # p /\ j - 1 < k - 1
          BY <2>0, <2>10, <3>5
        <5>2. QED
          BY <2>3, <5>1
      <4>2. QED
        BY <2>6, <4>1
    <3>6. QED
      BY <2>3, <3>1, <3>2, <3>3, <3>4, <3>5
  <2>11. InOrder(new, devs, v)
    BY <2>10 DEF InOrder
  <2>12. QED
    BY <1>1, <2>11
<1>5. QED
  BY <1>3, <1>4

\* What updateDeviceIndices makes of any list.
LEMMA RebuiltRows ==
  ASSUME NEW devs, Len(devs) \in Nat, NEW v
  PROVE  /\ RowsOf(DeviceIndices(devs, v), devs, v, Len(devs))
         /\ SortedByNumber(devs, v, Len(devs)) => InOrder(DeviceIndices(devs, v), devs, v)
<1>1. PICK rows :
        /\ rows[0] = <<>>
        /\ \A n \in 1..Len(devs) : rows[n] = AddDeviceIndex(devs, rows[n - 1], n, v)
        /\ DeviceIndices(devs, v) = rows[Len(devs)]
  BY RowsAreBuilt
<1>2. PICK size \in Nat : size = Len(devs)
  OBVIOUS
<1> DEFINE Right(n) ==
             /\ RowsOf(rows[n], devs, v, n)
             /\ SortedByNumber(devs, v, size) => InOrder(rows[n], devs, v)
           Wrong == {n \in 0..size : ~Right(n)}
<1>3. Right(0)
  BY <1>1 DEF RowsOf, InOrder
<1>4. ASSUME NEW n \in 1..size, Right(n - 1) PROVE Right(n)
  <2>1. n \in Nat \ {0} /\ rows[n] = AddDeviceIndex(devs, rows[n - 1], n, v)
    BY <1>1, <1>2
  <2>2. RowsOf(rows[n], devs, v, n)
    BY <1>4, <2>1, AddedRows
  <2>3. ASSUME SortedByNumber(devs, v, size) PROVE InOrder(rows[n], devs, v)
    <3>1. SortedByNumber(devs, v, n)
      BY <1>2, <2>3 DEF SortedByNumber
    <3>2. InOrder(rows[n - 1], devs, v)
      BY <1>4, <2>3
    <3>3. QED
      BY <1>4, <2>1, <3>1, <3>2, AddedInOrder
  <2>4. QED
    BY <2>2, <2>3
<1> HIDE DEF Right
<1>5. Wrong = {}
  <2>1. SUFFICES ASSUME Wrong # {} PROVE FALSE
    OBVIOUS
  <2>2. Wrong \in SUBSET Nat
    BY <1>2
  <2>3. PICK n \in Wrong : \A m \in Wrong : n <= m
    <3> HIDE DEF Wrong
    <3>1. QED
      BY <2>1, <2>2, LeastNumber
  <2>4. n \in 0..size /\ ~Right(n)
    BY <2>3
  <2>5. n # 0
    BY <1>3, <2>4
  <2>6. n \in 1..size /\ n - 1 \in 0..size /\ ~(n <= n - 1)
    BY <1>2, <2>4, <2>5
  <2>7. n - 1 \notin Wrong
    BY <2>3, <2>6
  <2>8. Right(n - 1)
    BY <2>6, <2>7
  <2>9. QED
    BY <1>4, <2>4, <2>6, <2>8
<1>6. Right(size)
  BY <1>2, <1>5
<1>7. QED
  BY <1>1, <1>2, <1>6 DEF Right

-----------------------------------------------------------------------------
(* The filter and the cells that change                                    *)

TextFixed(v) == ToSet(v.text) \intersect Ifaces = {}

\* The cell of the interfaces lists interfaces.
LEMMA IfacesCell ==
  ASSUME NEW S \in SUBSET Ifaces, IsFiniteSet(S), NEW text \in SubSeqs(Ascending(S)), text # <<>>
  PROVE  \E x \in ToSet(text) : x \in Ifaces
<1>1. S \in SUBSET Nat
  BY AnswersAssumption DEF Ifaces
<1>2. PICK m \in Nat : Ascending(S) \in [1..m -> S] /\ Len(Ascending(S)) = m
  BY <1>1, AscendingNumbers
<1>3. PICK f : f = Ascending(S) /\ f \in [1..m -> S] /\ Len(f) = m /\ f \in Seq(S)
  BY <1>2
<1>4. PICK i \in 0..m, j \in 0..m : text = SubSeq(f, i + 1, j)
  <2>1. text \in SubSeqs(f)
    BY <1>3
  <2>2. \E i, j \in 0..Len(f) : text = SubSeq(f, i + 1, j)
    BY <2>1 DEF SubSeqs
  <2>3. QED
    BY <1>3, <2>2
<1>5. i < j /\ i + 1 \in 1..m
  BY <1>3, <1>4
<1>6. 1 \in DOMAIN text /\ text[1] = f[i + 1]
  BY <1>3, <1>4, <1>5
<1>7. text[1] \in S
  BY <1>3, <1>5, <1>6
<1>8. text[1] \in ToSet(text)
  BY <1>6 DEF ToSet
<1>9. QED
  BY <1>7, <1>8

\* A filter text without an interface finds a device whatever is heard of it
\* later.
LEMMA SamePasses ==
  ASSUME NEW d, NEW e, NEW v, TextFixed(v),
         d.name = e.name, d.model = e.model, d.mac = e.mac,
         d.ifaces \in SUBSET Ifaces, IsFiniteSet(d.ifaces),
         e.ifaces \in SUBSET Ifaces, IsFiniteSet(e.ifaces)
  PROVE  Passes(d, v) <=> Passes(e, v)
<1>1. Columns \ {"reachable"} = {"name", "mac", "ifaces"}
  BY DEF Columns
<1>2. ASSUME NEW c, c.ifaces \in SUBSET Ifaces, IsFiniteSet(c.ifaces), v.text # <<>>
      PROVE  v.text \notin SubSeqs(CellKey(c, "ifaces"))
  <2>1. CellKey(c, "ifaces") = Ascending(c.ifaces)
    BY DEF CellKey
  <2>2. QED
    BY <1>2, <2>1, IfacesCell DEF TextFixed
<1>3. CellKey(d, "name") = CellKey(e, "name") /\ CellKey(d, "mac") = CellKey(e, "mac")
  BY DEF CellKey
<1>4. ASSUME v.text # <<>>
      PROVE  (\E col \in Columns \ {"reachable"} : v.text \in SubSeqs(CellKey(d, col))) <=>
             (\E col \in Columns \ {"reachable"} : v.text \in SubSeqs(CellKey(e, col)))
  BY <1>1, <1>2, <1>3, <1>4
<1>5. QED
  BY <1>4 DEF Passes

\* As many rows as devices that pass.
LEMMA NumberOfRows ==
  ASSUME NEW rows, NEW devs, NEW v, NEW n \in Nat, RowsOf(rows, devs, v, n)
  PROVE  Len(rows) = Cardinality({i \in 1..n : Passes(devs[i], v)})
<1> DEFINE visible == {i \in 1..n : Passes(devs[i], v)}
<1>1. PICK m \in Nat : m = Len(rows) /\ DOMAIN rows = 1..m /\ rows \in [1..m -> Nat]
  BY DEF RowsOf
<1>2. \A k \in 1..m : rows[k] \in visible
  BY <1>1 DEF RowsOf
<1>3. rows \in [1..m -> visible]
  BY <1>1, <1>2
<1>4. \A i \in visible : \E k \in 1..m : rows[k] = i
  BY <1>1 DEF RowsOf
<1>5. \A j, k \in 1..m : rows[j] = rows[k] => j = k
  BY <1>1 DEF RowsOf
<1> HIDE DEF visible
<1>6. rows \in Bijection(1..m, visible)
  BY <1>3, <1>4, <1>5 DEF Bijection, Injection, Surjection, IsInjective
<1>7. ExistsBijection(1..m, visible)
  BY <1>6 DEF ExistsBijection
<1>8. Cardinality(visible) = m
  BY <1>7, FS_CountingElements
<1>9. QED
  BY <1>1, <1>8 DEF visible

\* Nothing but the outcome of the filter matters for which rows there are ...
LEMMA SameRows ==
  ASSUME NEW rows, NEW c, NEW d, NEW v, NEW w, NEW n, RowsOf(rows, c, v, n),
         \A i \in 1..n : Passes(c[i], v) <=> Passes(d[i], w)
  PROVE  RowsOf(rows, d, w, n)
BY DEF RowsOf

\* ... and nothing but the cells of the column for their order.
LEMMA SameOrder ==
  ASSUME NEW rows, NEW c, NEW d, NEW v, NEW n, InOrder(rows, c, v),
         \A k \in DOMAIN rows : rows[k] \in 1..n,
         SortedByNumber(c, v, n), SortedByNumber(d, v, n),
         \A i \in 1..n : c[i].name = d[i].name /\ c[i].mac = d[i].mac
  PROVE  InOrder(rows, d, v)
<1>1. \A i, j \in 1..n : Before(c[i], c[j], v) <=> Before(d[i], d[j], v)
  <2>1. ASSUME NEW i \in 1..n, NEW j \in 1..n
        PROVE  Before(c[i], c[j], v) <=> Before(d[i], d[j], v)
    <3>1. SortKey(c[i], v) = SortKey(d[i], v) /\ SortKey(c[j], v) = SortKey(d[j], v)
      BY DEF SortKey
    <3>2. QED
      BY <3>1, BeforeByNumber DEF SortedByNumber
  <2>2. QED
    BY <2>1
<1>2. QED
  BY <1>1 DEF InOrder

-----------------------------------------------------------------------------
(* The invariant                                                           *)

\* The rows are those of devices in the list, the cells of which are lists.
RowsInv ==
  /\ \A i \in DOMAIN device : device[i].ifaces \in SUBSET Ifaces /\ IsFiniteSet(device[i].ifaces)
  /\ view \in Views
  /\ index \in Seq(Nat) /\ \A k \in DOMAIN index : index[k] \in DOMAIN device
  /\ selected \in Nat

\* With a filter text in which no interface occurs, the rows are right whatever
\* the column; with a column of numbers too, they are in order.
ShownInv ==
  /\ TextFixed(view) => RowsOf(index, device, view, Len(device)) /\ rowCount = Len(index)
  /\ FixedColumns(view) => InOrder(index, device, view)

LEMMA FixedSorting ==
  ASSUME EntriesInv, NEW v, v \in Views, FixedColumns(v)
  PROVE  TextFixed(v) /\ SortedByNumber(device, v, Len(device))
<1>1. v.col \in Columns /\ v.col \notin {"ifaces", "reachable"} /\ TextFixed(v)
  BY DEF FixedColumns, TextFixed, Views
<1>2. v.col \in {"name", "mac"}
  BY <1>1 DEF Columns
<1>3. \A i \in 1..Len(device) : device[i] \in Entry
  BY DEF EntriesInv, DevicesTyped
<1>4. QED
  BY <1>1, <1>2, <1>3 DEF SortedByNumber, Entry

LEMMA FixedSortingPrime ==
  ASSUME EntriesInv', NEW v, v \in Views, FixedColumns(v)
  PROVE  SortedByNumber(device', v, Len(device'))
<1>1. v.col \in Columns /\ v.col \notin {"ifaces", "reachable"}
  BY DEF FixedColumns, Views
<1>2. v.col \in {"name", "mac"}
  BY <1>1 DEF Columns
<1>3. \A i \in 1..Len(device') : device'[i] \in Entry
  BY DEF EntriesInv, DevicesTyped
<1>4. QED
  BY <1>2, <1>3 DEF SortedByNumber, Entry

\* Operations that change cells of devices, but not the name, the model or the
\* MAC address.
LEMMA RowsStay ==
  ASSUME EntriesInv, EntriesInv', RowsInv, ShownInv,
         UNCHANGED <<index, rowCount, view>>, selected' \in Nat,
         DOMAIN device' = DOMAIN device,
         \A i \in DOMAIN device :
           /\ device'[i].name = device[i].name /\ device'[i].model = device[i].model
           /\ device'[i].mac = device[i].mac
           /\ device'[i].ifaces \in SUBSET Ifaces /\ IsFiniteSet(device'[i].ifaces)
  PROVE  RowsInv' /\ ShownInv'
<1>1. RowsInv'
  BY DEF RowsInv
<1>2. PICK n \in Nat : n = Len(device) /\ n = Len(device') /\ DOMAIN device = 1..n
  BY DEF EntriesInv, DevicesTyped
<1>3. ASSUME TextFixed(view')
      PROVE  RowsOf(index', device', view', Len(device')) /\ rowCount' = Len(index')
  <2>1. RowsOf(index, device, view, n) /\ rowCount = Len(index)
    BY <1>2, <1>3 DEF ShownInv
  <2>2. \A i \in 1..n : Passes(device[i], view) <=> Passes(device'[i], view)
    BY <1>2, <1>3, SamePasses DEF RowsInv
  <2>3. RowsOf(index, device', view, n)
    BY <2>1, <2>2, SameRows
  <2>4. QED
    BY <1>2, <2>1, <2>3
<1>4. ASSUME FixedColumns(view')
      PROVE  InOrder(index', device', view')
  <2>1. /\ view \in Views /\ FixedColumns(view) /\ InOrder(index, device, view)
        /\ \A k \in DOMAIN index : index[k] \in 1..n
    BY <1>2, <1>4 DEF RowsInv, ShownInv
  <2>2. SortedByNumber(device, view, n)
    BY <1>2, <2>1, FixedSorting
  <2>3. SortedByNumber(device', view, n)
    BY <1>2, <2>1, FixedSortingPrime
  <2>4. InOrder(index, device', view)
    BY <1>2, <2>1, <2>2, <2>3, SameOrder
  <2>5. QED
    BY <2>4
<1>5. QED
  BY <1>1, <1>3, <1>4 DEF ShownInv

LEMMA ClearRows ==
  ASSUME RowsInv, Clear PROVE RowsInv' /\ ShownInv'
<1>1. /\ device' = <<>> /\ index' = <<>> /\ rowCount' = 0 /\ view' = view
      /\ selected' \in Nat
  BY DEF Clear, SetRows, RowsInv
<1>2. DOMAIN device' = {} /\ Len(device') = 0 /\ DOMAIN index' = {} /\ Len(index') = 0
      /\ index' \in Seq(Nat)
  BY <1>1
<1>3. RowsOf(index', device', view', Len(device'))
  BY <1>2 DEF RowsOf
<1>4. InOrder(index', device', view')
  BY <1>2 DEF InOrder
<1>5. QED
  BY <1>1, <1>2, <1>3, <1>4 DEF RowsInv, ShownInv

LEMMA AddInterfaceRows ==
  ASSUME EntriesInv, EntriesInv', RowsInv, ShownInv, NEW a \in Answers, NEW reachable \in BOOLEAN,
         NEW k \in DOMAIN device, AddInterface(a, reachable, k)
  PROVE  RowsInv' /\ ShownInv'
<1>1. UNCHANGED <<index, rowCount, view, selected>>
  BY DEF AddInterface
<1>2. a.iface \in Ifaces
  BY DEF Ifaces
<1>3. \/ device' = device
      \/ device' = [device EXCEPT ![k].ifaces = @ \union {a.iface}, ![k].reachable = @ \/ reachable]
  BY DEF AddInterface
<1>4. \A i \in DOMAIN device : device[i] \in Entry
  BY DEF EntriesInv, DevicesTyped
<1>5. DOMAIN device' = DOMAIN device
  BY <1>3
<1>6. \A i \in DOMAIN device :
        /\ device'[i].name = device[i].name /\ device'[i].model = device[i].model
        /\ device'[i].mac = device[i].mac
        /\ device'[i].ifaces = device[i].ifaces \/ device'[i].ifaces = device[i].ifaces \union {a.iface}
  BY <1>3, <1>4 DEF Entry
<1>7. \A i \in DOMAIN device : device'[i].ifaces \in SUBSET Ifaces /\ IsFiniteSet(device'[i].ifaces)
  <2>1. \A i \in DOMAIN device :
          /\ device[i].ifaces \in SUBSET Ifaces
          /\ IsFiniteSet(device[i].ifaces) /\ IsFiniteSet(device[i].ifaces \union {a.iface})
    BY FS_AddElement DEF RowsInv
  <2>2. QED
    BY ZenonT(40), <1>2, <1>6, <2>1
<1>8. selected' \in Nat
  BY <1>1 DEF RowsInv
<1>9. QED
  BY <1>1, <1>5, <1>6, <1>7, <1>8, RowsStay

LEMMA AddDeviceRows ==
  ASSUME EntriesInv, EntriesInv', RowsInv, ShownInv, NEW a \in Answers, NEW reachable \in BOOLEAN,
         AddDevice(a, reachable)
  PROVE  RowsInv' /\ ShownInv'
<1> DEFINE d0 == [name |-> a.name, model |-> a.model, mac |-> a.mac, ifaces |-> {a.iface},
                  reachable |-> reachable, new |-> previous # {} /\ a.mac \notin previous]
<1>1. PICK d :
        /\ device' = Append(device, d)
        /\ d.ifaces = {a.iface}
        /\ IF Passes(d, view) THEN SetRows(Len(index')) ELSE UNCHANGED <<rowCount, selected>>
  <2>1. d0.ifaces = {a.iface}
    OBVIOUS
  <2>2. /\ device' = Append(device, d0)
        /\ IF Passes(d0, view) THEN SetRows(Len(index')) ELSE UNCHANGED <<rowCount, selected>>
    BY DEF AddDevice
  <2> HIDE DEF d0
  <2>3. QED
    BY <2>1, <2>2
<1>2. index' = AddDeviceIndex(device', index, Len(device'), view) /\ view' = view
  BY DEF AddDevice
<1>3. PICK n \in Nat : n = Len(device) /\ DOMAIN device = 1..n /\ device \in Seq(Entry)
  BY DEF EntriesInv, DevicesTyped
<1>4. /\ Len(device') = n + 1 /\ DOMAIN device' = 1..(n + 1)
      /\ \A i \in 1..n : device'[i] = device[i]
      /\ device'[n + 1] = d
  BY <1>1, <1>3
<1>5. n + 1 \in Nat /\ index \in Seq(Nat) /\ \A k \in DOMAIN index : index[k] \in 1..n
  BY <1>3 DEF RowsInv
<1>6. index' \in Seq(Nat) /\ \A k \in DOMAIN index' : index'[k] \in 1..(n + 1)
  <2>1. CASE ~Passes(d, view)
    <3>1. index' = index
      BY <1>2, <1>4, <2>1 DEF AddDeviceIndex
    <3>2. QED
      BY <1>5, <3>1
  <2>2. CASE Passes(d, view)
    <3>1. PICK p \in 1..(Len(index) + 1) : index' \in Seq(Nat) /\ Inserted(index', index, p, n + 1)
      <4>1. Passes(device'[n + 1], view) /\ index' = AddDeviceIndex(device', index, n + 1, view)
        BY <1>2, <1>4, <2>2
      <4>2. QED
        BY <1>5, <4>1, RowIsInserted
    <3>2. \A k \in DOMAIN index' :
            \/ k < p /\ k \in DOMAIN index /\ index'[k] = index[k]
            \/ k = p
            \/ k > p /\ k - 1 \in DOMAIN index /\ index'[k] = index[k - 1]
      BY <1>5, <3>1, InsertedRows
    <3>3. index'[p] = n + 1
      BY <1>5, <3>1, InsertedRows
    <3>4. ASSUME NEW k \in DOMAIN index'
          PROVE  index'[k] = n + 1 \/ index'[k] \in 1..n
      BY <1>5, <3>2, <3>3
    <3>5. n + 1 \in 1..(n + 1) /\ 1..n \subseteq 1..(n + 1)
      BY <1>3
    <3>6. QED
      BY <3>1, <3>4, <3>5
  <2>3. QED
    BY <2>1, <2>2
<1>7. selected' \in Nat
  <2>1. selected \in Nat
    BY DEF RowsInv
  <2>2. QED
    BY <1>1, <2>1 DEF SetRows
<1>8. \A i \in DOMAIN device' : device'[i].ifaces \in SUBSET Ifaces /\ IsFiniteSet(device'[i].ifaces)
  <2>1. d.ifaces \in SUBSET Ifaces /\ IsFiniteSet(d.ifaces)
    BY <1>1, FS_Singleton DEF Ifaces
  <2>2. ASSUME NEW i \in 1..(n + 1)
        PROVE  device'[i].ifaces \in SUBSET Ifaces /\ IsFiniteSet(device'[i].ifaces)
    <3>1. CASE i = n + 1
      BY <1>4, <2>1, <3>1
    <3>2. CASE i # n + 1
      <4>1. i \in 1..n
        BY <3>2
      <4>2. QED
        BY <1>3, <1>4, <4>1 DEF RowsInv
    <3>3. QED
      BY <3>1, <3>2
  <2>3. QED
    BY <1>4, <2>2
<1>9. RowsInv'
  BY <1>2, <1>4, <1>6, <1>7, <1>8 DEF RowsInv
<1>10. ASSUME TextFixed(view)
       PROVE  /\ RowsOf(index, device', view, n) /\ RowsOf(index', device', view, n + 1)
              /\ rowCount' = Len(index')
  <2>1. RowsOf(index, device, view, n) /\ rowCount = Len(index)
    BY <1>3, <1>10 DEF ShownInv
  <2>2. RowsOf(index, device', view, n)
    BY <1>4, <2>1, SameRows
  <2>3. RowsOf(index', device', view, n + 1)
    <3>1. n + 1 \in Nat \ {0} /\ (n + 1) - 1 = n
      OBVIOUS
    <3>2. QED
      BY <1>2, <1>4, <2>2, <3>1, AddedRows
  <2>4. rowCount' = Len(index')
    <3>1. CASE Passes(d, view)
      BY <1>1, <3>1 DEF SetRows
    <3>2. CASE ~Passes(d, view)
      <4>1. index' = index
        BY <1>2, <1>4, <3>2 DEF AddDeviceIndex
      <4>2. QED
        BY <1>1, <2>1, <3>2, <4>1
    <3>3. QED
      BY <3>1, <3>2
  <2>5. QED
    BY <2>2, <2>3, <2>4
<1>11. ASSUME FixedColumns(view)
       PROVE  InOrder(index', device', view)
  <2>1. view \in Views
    BY DEF RowsInv
  <2>2. TextFixed(view) /\ SortedByNumber(device, view, n)
    BY <1>3, <1>11, <2>1, FixedSorting
  <2>3. SortedByNumber(device', view, n + 1)
    BY <1>4, <1>11, <2>1, FixedSortingPrime
  <2>4. InOrder(index, device, view)
    BY <1>11 DEF ShownInv
  <2>5. InOrder(index, device', view)
    <3>1. SortedByNumber(device', view, n)
      BY <2>3 DEF SortedByNumber
    <3>2. QED
      BY <1>4, <1>5, <2>2, <2>4, <3>1, SameOrder
  <2>6. RowsOf(index, device', view, n)
    BY <1>10, <2>2
  <2>7. n + 1 \in Nat \ {0} /\ (n + 1) - 1 = n
    OBVIOUS
  <2>8. QED
    BY <1>2, <1>4, <2>3, <2>5, <2>6, <2>7, AddedInOrder
<1>12. QED
  BY <1>2, <1>4, <1>9, <1>10, <1>11 DEF ShownInv

\* The two operations that build the rows anew.
LEMMA RowsAnew ==
  ASSUME EntriesInv, RowsInv, ShownInv, NEW v \in Views, view' = v,
         index' = DeviceIndices(device, v), selected' = 0, device' = device,
         \/ rowCount' = Len(index')
         \/ rowCount' = rowCount /\ v.rc = view.rc /\ v.text = view.text
  PROVE  RowsInv' /\ ShownInv'
<1>1. PICK n \in Nat : n = Len(device) /\ DOMAIN device = 1..n
  BY DEF EntriesInv, DevicesTyped
<1>2. /\ RowsOf(index', device, v, n)
      /\ SortedByNumber(device, v, n) => InOrder(index', device, v)
  BY <1>1, RebuiltRows
<1>3. RowsInv'
  BY <1>1, <1>2 DEF RowsInv, RowsOf
<1>4. ASSUME TextFixed(v) PROVE rowCount' = Len(index')
  <2>1. CASE rowCount' = Len(index')
    BY <2>1
  <2>2. CASE rowCount' = rowCount /\ v.rc = view.rc /\ v.text = view.text
    <3>1. TextFixed(view)
      BY <1>4, <2>2 DEF TextFixed
    <3>2. rowCount = Len(index) /\ RowsOf(index, device, view, n)
      BY <1>1, <3>1 DEF ShownInv
    <3>3. \A i \in 1..n : Passes(device[i], view) <=> Passes(device[i], v)
      BY <2>2 DEF Passes
    <3>4. RowsOf(index, device, v, n)
      BY <3>2, <3>3, SameRows
    <3>5. Len(index) = Len(index')
      <4>1. Len(index) = Cardinality({i \in 1..n : Passes(device[i], v)})
        BY <3>4, NumberOfRows
      <4>2. Len(index') = Cardinality({i \in 1..n : Passes(device[i], v)})
        BY <1>2, NumberOfRows
      <4>3. QED
        BY <4>1, <4>2
    <3>6. QED
      BY <2>2, <3>2, <3>5
  <2>3. QED
    BY <2>1, <2>2
<1>5. ASSUME FixedColumns(v) PROVE InOrder(index', device, v)
  BY <1>1, <1>2, <1>5, FixedSorting
<1>6. QED
  BY <1>1, <1>2, <1>3, <1>4, <1>5 DEF ShownInv

LEMMA RefilterRows ==
  ASSUME EntriesInv, RowsInv, ShownInv, NEW v \in Views, Refilter(v)
  PROVE  RowsInv' /\ ShownInv'
BY RowsAnew DEF Refilter

LEMMA SortColumnRows ==
  ASSUME EntriesInv, RowsInv, ShownInv, NEW col \in Columns, SortColumn(col)
  PROVE  RowsInv' /\ ShownInv'
<1>1. PICK v : /\ v = IF view.col = col THEN [view EXCEPT !.down = ~@]
                                        ELSE [view EXCEPT !.col = col, !.down = TRUE]
               /\ view' = v /\ index' = DeviceIndices(device, v)
  BY DEF SortColumn
<1>2. view \in Views
  BY DEF RowsInv
<1>3. v \in Views /\ v.rc = view.rc /\ v.text = view.text
  BY <1>1, <1>2 DEF Views
<1>4. selected' = 0 /\ device' = device /\ rowCount' = rowCount
  BY DEF SortColumn
<1>5. QED
  BY <1>1, <1>3, <1>4, RowsAnew

\* A click, or none: the highlighting may go.
LEMMA ClickRows ==
  ASSUME EntriesInv, EntriesInv', RowsInv, ShownInv, Unhighlight \/ device' = device,
         UNCHANGED <<index, rowCount, view>>, selected' \in Nat
  PROVE  RowsInv' /\ ShownInv'
<1>1. \A i \in DOMAIN device : device[i] \in Entry
  BY DEF EntriesInv, DevicesTyped
<1>2. /\ DOMAIN device' = DOMAIN device
      /\ \A i \in DOMAIN device :
           /\ device'[i].name = device[i].name /\ device'[i].model = device[i].model
           /\ device'[i].mac = device[i].mac /\ device'[i].ifaces = device[i].ifaces
  <2>1. CASE device' = device
    BY <2>1
  <2>2. CASE device' = [i \in DOMAIN device |-> [device[i] EXCEPT !.new = FALSE]]
    BY <1>1, <2>2 DEF Entry
  <2>3. QED
    BY <2>1, <2>2 DEF Unhighlight
<1>3. \A i \in DOMAIN device : device'[i].ifaces \in SUBSET Ifaces /\ IsFiniteSet(device'[i].ifaces)
  BY <1>2 DEF RowsInv
<1>4. QED
  BY <1>2, <1>3, RowsStay

LEMMA RowsStep ==
  EntriesInv /\ EntriesInv' /\ RowsInv /\ ShownInv /\ [ListNext]_listVars => RowsInv' /\ ShownInv'
<1> SUFFICES ASSUME EntriesInv, EntriesInv', RowsInv, ShownInv, [ListNext]_listVars
             PROVE  RowsInv' /\ ShownInv'
  OBVIOUS
<1>0. selected \in Nat /\ view \in Views
  BY DEF RowsInv
<1>1. CASE Clear
  BY <1>1, ClearRows
<1>2. ASSUME NEW a \in Answers, NEW reachable \in BOOLEAN, Add(a, reachable)
      PROVE  RowsInv' /\ ShownInv'
  BY <1>2, AddInterfaceRows, AddDeviceRows DEF Add
<1>3. ASSUME NEW rc \in BOOLEAN, FilterRCDevices(rc)
      PROVE  RowsInv' /\ ShownInv'
  <2>1. [view EXCEPT !.rc = rc] \in Views
    BY <1>0 DEF Views
  <2>2. QED
    BY <1>3, <2>1, RefilterRows DEF FilterRCDevices
<1>4. ASSUME NEW text \in Texts, Filter(text)
      PROVE  RowsInv' /\ ShownInv'
  <2>1. [view EXCEPT !.text = text] \in Views
    BY <1>0 DEF Views
  <2>2. QED
    BY <1>4, <2>1, RefilterRows DEF Filter
<1>5. ASSUME NEW col \in Columns, SortColumn(col)
      PROVE  RowsInv' /\ ShownInv'
  BY <1>5, SortColumnRows
<1>6. ASSUME NEW r \in 1..rowCount, ClickRow(r) \/ SelectRow(r)
      PROVE  RowsInv' /\ ShownInv'
  <2>1. selected' \in Nat
    BY <1>6 DEF ClickRow, SelectRow
  <2>2. (Unhighlight \/ device' = device) /\ UNCHANGED <<index, rowCount, view>>
    BY <1>6 DEF ClickRow, SelectRow
  <2>3. QED
    BY <2>1, <2>2, ClickRows
<1>7. CASE ClickOutside \/ LeaveMenu \/ UNCHANGED listVars
  <2>1. selected' \in Nat
    BY <1>0, <1>7 DEF ClickOutside, LeaveMenu, listVars
  <2>2. (Unhighlight \/ device' = device) /\ UNCHANGED <<index, rowCount, view>>
    BY <1>7 DEF ClickOutside, LeaveMenu, listVars
  <2>3. QED
    BY <2>1, <2>2, ClickRows
<1>8. QED
  BY <1>1, <1>2, <1>3, <1>4, <1>5, <1>6, <1>7 DEF ListNext, UserOperation

LEMMA RowsAreRight == ListSpec => [](EntriesInv /\ RowsInv /\ ShownInv)
<1>1. ListInit => EntriesInv /\ RowsInv /\ ShownInv
  <2> SUFFICES ASSUME ListInit PROVE EntriesInv /\ RowsInv /\ ShownInv
    OBVIOUS
  <2>1. /\ device = <<>> /\ index = <<>> /\ rowCount = 0 /\ selected = 0 /\ heard = {}
        /\ view \in [col : Columns, down : BOOLEAN, rc : BOOLEAN, text : {<<>>}]
    BY DEF ListInit
  <2>2. DOMAIN device = {} /\ Len(device) = 0 /\ DOMAIN index = {} /\ Len(index) = 0
        /\ index \in Seq(Nat) /\ DevicesTyped
    BY <2>1 DEF DevicesTyped
  <2>3. EntriesInv
    BY <2>1, <2>2 DEF EntriesInv, AnswersAreMerged
  <2>4. view \in Views
    BY <2>1 DEF Views
  <2>5. RowsOf(index, device, view, Len(device)) /\ InOrder(index, device, view)
    BY <2>1, <2>2 DEF RowsOf, InOrder
  <2>6. QED
    BY <2>1, <2>2, <2>3, <2>4, <2>5 DEF RowsInv, ShownInv
<1>2. QED
  BY <1>1, EntriesStep, RowsStep, PTL DEF ListSpec

\* Sorted by a column whose cells stay as they are and filtered by a text that
\* names no interface, the table shows the devices that pass, each once, in
\* order, with a row for each, whatever operations came before.
THEOREM RowsAreTheView == ListSpec => []ViewOfFixedColumns
<1>1. ASSUME EntriesInv, RowsInv, ShownInv, FixedColumns(view)
      PROVE  VisibleInOrder /\ EveryIndexHasARow
  <2>1. TextFixed(view)
    BY <1>1, FixedSorting DEF RowsInv
  <2>2. PICK n \in Nat : n = Len(device) /\ DOMAIN device = 1..n
    BY <1>1 DEF EntriesInv, DevicesTyped
  <2>3. RowsOf(index, device, view, n) /\ rowCount = Len(index) /\ InOrder(index, device, view)
    BY <1>1, <2>1, <2>2 DEF ShownInv
  <2>4. ToSet(index) = {i \in DOMAIN device : Passes(device[i], view)}
    <3>1. ASSUME NEW i \in ToSet(index) PROVE i \in DOMAIN device /\ Passes(device[i], view)
      BY <2>2, <2>3 DEF RowsOf, ToSet
    <3>2. ASSUME NEW i \in DOMAIN device, Passes(device[i], view) PROVE i \in ToSet(index)
      BY <2>2, <2>3, <3>2 DEF RowsOf, ToSet
    <3>3. QED
      BY <3>1, <3>2
  <2>5. QED
    BY <2>3, <2>4 DEF VisibleInOrder, IsViewOf, InOrder, EveryIndexHasARow
<1>2. EntriesInv /\ RowsInv /\ ShownInv => ViewOfFixedColumns
  BY <1>1 DEF ViewOfFixedColumns
<1>3. QED
  BY <1>2, RowsAreRight, PTL

-----------------------------------------------------------------------------
(* The selection                                                           *)

\* No row is selected any more.
LEMMA NothingSelected == ASSUME selected' = 0 PROVE SelectedMAC' = NoMac
BY DEF SelectedMAC, HasSelection, SelectedRow

\* The same row, of a device with the same MAC address.
LEMMA SameSelection ==
  ASSUME index \in Seq(Nat), index' \in Seq(Nat), selected \in Nat, selected' = selected,
         Len(index) <= Len(index'),
         selected \in 1..Len(index) =>
           index'[selected] = index[selected] /\ device'[index[selected]].mac = device[index[selected]].mac,
         selected <= Len(index') => selected <= Len(index)
  PROVE  SelectedMAC' = SelectedMAC
<1>1. PICK m \in Nat, n \in Nat : m = Len(index) /\ n = Len(index') /\ m <= n
  OBVIOUS
<1>2. CASE selected \in 1..m
  <2>1. SelectedRow = selected /\ selected # 0 /\ SelectedRow' = selected
    BY <1>1, <1>2 DEF SelectedRow
  <2>2. device'[index'[selected]].mac = device[index[selected]].mac
    BY <1>1, <1>2
  <2>3. QED
    BY <2>1, <2>2 DEF SelectedMAC, HasSelection, SelectedDevice
<1>3. CASE selected \notin 1..m
  <2>1. SelectedRow = 0 /\ SelectedRow' = 0
    BY <1>1, <1>3 DEF SelectedRow
  <2>2. QED
    BY <2>1 DEF SelectedMAC, HasSelection
<1>4. QED
  BY <1>2, <1>3

\* The new device gets a row above the selected one, or its own.
MovedUp ==
  /\ Len(device') > Len(device) /\ selected \in DOMAIN index'
  /\ Len(device') \in {index'[k] : k \in 1..selected}

LEMMA AddDeviceSelection ==
  ASSUME EntriesInv, RowsInv, RowsInv', NEW a \in Answers, NEW reachable \in BOOLEAN,
         AddDevice(a, reachable)
  PROVE  SelectedMAC' \in {SelectedMAC, NoMac} \/ MovedUp
<1>1. PICK d :
        /\ device' = Append(device, d)
        /\ IF Passes(d, view) THEN SetRows(Len(index')) ELSE UNCHANGED <<rowCount, selected>>
  BY DEF AddDevice
<1>2. index' = AddDeviceIndex(device', index, Len(device'), view)
  BY DEF AddDevice
<1>3. PICK n \in Nat : n = Len(device) /\ DOMAIN device = 1..n /\ device \in Seq(Entry)
  BY DEF EntriesInv, DevicesTyped
<1>4. /\ Len(device') = n + 1 /\ n + 1 \in Nat /\ device'[n + 1] = d
      /\ \A i \in 1..n : device'[i] = device[i]
  BY <1>1, <1>3
<1>5. /\ index \in Seq(Nat) /\ index' \in Seq(Nat) /\ selected \in Nat
      /\ \A k \in DOMAIN index : index[k] \in 1..n
  BY <1>3 DEF RowsInv
<1>6. PICK m \in Nat : m = Len(index) /\ DOMAIN index = 1..m
  BY <1>5
<1>7. \A k \in 1..m : device'[index[k]].mac = device[index[k]].mac
  BY <1>4, <1>5, <1>6
<1>8. CASE ~Passes(d, view)
  <2>1. index' = index /\ selected' = selected
    BY <1>1, <1>2, <1>4, <1>8 DEF AddDeviceIndex
  <2>2. SelectedMAC' = SelectedMAC
    BY <1>5, <1>6, <1>7, <2>1, SameSelection
  <2>3. QED
    BY <2>2
<1>9. CASE Passes(d, view)
  <2>1. PICK p \in 1..(Len(index) + 1) : Inserted(index', index, p, n + 1)
    <3>1. Passes(device'[n + 1], view) /\ index' = AddDeviceIndex(device', index, n + 1, view)
      BY <1>2, <1>4, <1>9
    <3>2. QED
      BY SMTT(30), <1>4, <1>5, <3>1, RowIsInserted
  <2>2. p \in 1..(m + 1) /\ Len(index') = m + 1 /\ DOMAIN index' = 1..(m + 1)
    BY <1>5, <1>6, <2>1 DEF Inserted
  <2>3. index'[p] = n + 1 /\ \A k \in 1..m : k < p => index'[k] = index[k]
    <3>1. /\ p \in DOMAIN index' /\ index'[p] = n + 1
          /\ \A k \in DOMAIN index : k < p => k \in DOMAIN index' /\ index'[k] = index[k]
      BY <1>4, <1>5, <2>1, InsertedRows
    <3>2. QED
      BY <1>6, <3>1
  <2>4. selected' = IF selected <= m + 1 THEN selected ELSE 0
    BY <1>1, <1>9, <2>2 DEF SetRows
  <2>5. CASE selected > m + 1
    <3>1. selected' = 0
      BY <1>5, <2>4, <2>5
    <3>2. QED
      BY <3>1, NothingSelected
  <2>6. CASE selected <= m + 1 /\ p <= selected
    <3>1. selected \in DOMAIN index' /\ p \in 1..selected
      BY <1>5, <2>2, <2>6
    <3>2. n + 1 \in {index'[k] : k \in 1..selected}
      BY <2>3, <3>1
    <3>3. n + 1 > n
      OBVIOUS
    <3>4. MovedUp
      BY <1>3, <1>4, <3>1, <3>2, <3>3 DEF MovedUp
    <3>5. QED
      BY <3>4
  <2>7. CASE selected <= m + 1 /\ selected < p
    <3>1. selected' = selected /\ selected <= m
      BY <1>5, <2>2, <2>4, <2>7
    <3>2. selected \in 1..m =>
            index'[selected] = index[selected]
            /\ device'[index[selected]].mac = device[index[selected]].mac
      BY <1>7, <2>3, <2>7
    <3>3. SelectedMAC' = SelectedMAC
      BY <1>5, <1>6, <2>2, <3>1, <3>2, SameSelection
    <3>4. QED
      BY <3>3
  <2>8. QED
    BY <1>5, <2>2, <2>5, <2>6, <2>7
<1>10. QED
  BY <1>8, <1>9

LEMMA CellsSelection ==
  ASSUME RowsInv, UNCHANGED <<index, selected>>,
         \A i \in DOMAIN device : device'[i].mac = device[i].mac
  PROVE  SelectedMAC' = SelectedMAC
<1>1. index \in Seq(Nat) /\ selected \in Nat /\ \A k \in 1..Len(index) : index[k] \in DOMAIN device
  BY DEF RowsInv
<1>2. QED
  BY <1>1, SameSelection

LEMMA SelectionStep ==
  ASSUME EntriesInv, RowsInv, RowsInv', [ListNext]_listVars
  PROVE  \/ SelectedMAC' \in {SelectedMAC, NoMac}
         \/ \E r \in 1..rowCount : ClickRow(r) \/ SelectRow(r)
         \/ MovedUp
<1>0. \A i \in DOMAIN device : device[i] \in Entry
  BY DEF EntriesInv, DevicesTyped
<1>1. CASE Clear
  <2>1. selected' = 0
    BY <1>1 DEF Clear, SetRows, RowsInv
  <2>2. QED
    BY <2>1, NothingSelected
<1>2. ASSUME NEW a \in Answers, NEW reachable \in BOOLEAN, Add(a, reachable)
      PROVE  SelectedMAC' \in {SelectedMAC, NoMac} \/ MovedUp
  <2>1. ASSUME NEW k \in DOMAIN device, AddInterface(a, reachable, k)
        PROVE  SelectedMAC' = SelectedMAC
    <3>1. \A i \in DOMAIN device : device'[i].mac = device[i].mac
      BY <1>0, <2>1 DEF AddInterface, Entry
    <3>2. UNCHANGED <<index, selected>>
      BY <2>1 DEF AddInterface
    <3>3. QED
      BY <3>1, <3>2, CellsSelection
  <2>2. QED
    BY <1>2, <2>1, AddDeviceSelection DEF Add
<1>3. CASE UserOperation
  <2>1. \/ selected' = 0
        \/ \E r \in 1..rowCount : ClickRow(r)
    BY <1>3 DEF UserOperation, FilterRCDevices, Filter, Refilter, SortColumn, ClickOutside
  <2>2. QED
    BY <2>1, NothingSelected
<1>4. CASE \E r \in 1..rowCount : SelectRow(r)
  BY <1>4
<1>5. CASE LeaveMenu
  <2>1. \A i \in DOMAIN device : device'[i].mac = device[i].mac
    BY <1>0, <1>5 DEF LeaveMenu, Unhighlight, Entry
  <2>2. UNCHANGED <<index, selected>>
    BY <1>5 DEF LeaveMenu
  <2>3. QED
    BY <2>1, <2>2, CellsSelection
<1>6. CASE UNCHANGED listVars
  BY <1>6, CellsSelection DEF listVars
<1>7. QED
  BY <1>1, <1>2, <1>3, <1>4, <1>5, <1>6 DEF ListNext

\* The selected device is changed only by the user's click, by going away, or
\* by a new device that is sorted in above it.
THEOREM SelectionFollowsClicks == ListSpec => SelectionDoesNotSlip
<1> DEFINE Good == EntriesInv /\ RowsInv /\ ShownInv
<1>1. ListSpec => []Good
  BY RowsAreRight
<1>2. Good /\ Good' /\ [ListNext]_listVars =>
        [\/ SelectedMAC' \in {SelectedMAC, NoMac}
         \/ \E r \in 1..rowCount : ClickRow(r) \/ SelectRow(r)
         \/ Len(device') > Len(device) /\ selected \in DOMAIN index'
             /\ Len(device') \in {index'[k] : k \in 1..selected}]_listVars
  BY SelectionStep DEF MovedUp
<1> HIDE DEF Good
<1>3. QED
  BY <1>1, <1>2, PTL DEF ListSpec, SelectionDoesNotSlip

-----------------------------------------------------------------------------
(* Types                                                                   *)

\* What is heard of, and the highlighting, of devices that gave an answer.
HeardTyped ==
  /\ previous \subseteq Macs
  /\ highlight \in BOOLEAN
  /\ heard \subseteq [mac : Macs, iface : Ifaces, reachable : BOOLEAN]

\* The table has a marked row at most, and it is one of its rows.
MarkTyped == rowCount \in Nat /\ selected \in 0..rowCount

ListTypesInv == device \in Seq(Devices) /\ HeardTyped /\ MarkTyped

\* With what RowsInv says of the rows.
LEMMA TypesOfTheList == ASSUME ListTypesInv, RowsInv PROVE ListTypeOK
<1>1. PICK n \in Nat : n = Len(device) /\ DOMAIN device = 1..n
  BY DEF ListTypesInv
<1>2. index \in Seq(Nat) /\ \A k \in DOMAIN index : index[k] \in 1..n
  BY <1>1 DEF RowsInv
<1>3. PICK m \in Nat : DOMAIN index = 1..m /\ index \in [1..m -> Nat]
  BY <1>2
<1>4. index \in [1..m -> 1..n]
  BY <1>2, <1>3
<1>5. index \in Seq(1..n)
  BY <1>4
<1>6. view \in Views
  BY DEF RowsInv
<1>7. QED
  BY <1>1, <1>5, <1>6 DEF ListTypeOK, ListTypesInv, HeardTyped, MarkTyped

LEMMA NewHeard ==
  ASSUME NEW a \in Answers, NEW reachable \in BOOLEAN, NEW f
  PROVE  /\ [mac |-> a.mac, iface |-> a.iface, reachable |-> reachable]
               \in [mac : Macs, iface : Ifaces, reachable : BOOLEAN]
         /\ f \in BOOLEAN =>
              [name |-> a.name, model |-> a.model, mac |-> a.mac, ifaces |-> {a.iface},
               reachable |-> reachable, new |-> f] \in Devices
<1>1. a.name \in Names /\ a.mac \in Macs /\ a.iface \in Ifaces
  BY DEF Names, Macs, Ifaces
<1>2. a.model \in Models
  BY AnswersAssumption
<1>3. QED
  BY <1>1, <1>2 DEF Devices

LEMMA UnhighlightTypes ==
  ASSUME device \in Seq(Devices), highlight \in BOOLEAN, Unhighlight
  PROVE  device' \in Seq(Devices) /\ highlight' \in BOOLEAN
<1>1. CASE device' = device
  BY <1>1 DEF Unhighlight
<1>2. CASE device' = [i \in DOMAIN device |-> [device[i] EXCEPT !.new = FALSE]]
  <2>1. PICK n \in Nat : DOMAIN device = 1..n /\ \A i \in 1..n : device[i] \in Devices
    OBVIOUS
  <2>2. \A i \in 1..n : [device[i] EXCEPT !.new = FALSE] \in Devices
    BY <2>1 DEF Devices
  <2>3. device' \in [1..n -> Devices]
    BY <1>2, <2>1, <2>2
  <2>4. device' \in Seq(Devices)
    <3>1. n \in Nat
      BY <2>1
    <3>2. QED
      BY <2>3, <3>1
  <2>5. QED
    BY <2>4 DEF Unhighlight
<1>3. QED
  BY <1>1, <1>2 DEF Unhighlight

LEMMA MacsOfDevices ==
  ASSUME device \in Seq(Devices)
  PROVE  {device[i].mac : i \in DOMAIN device} \subseteq Macs
<1>1. \A i \in DOMAIN device : device[i] \in Devices
  OBVIOUS
<1>2. \A i \in DOMAIN device : device[i].mac \in Macs
  BY <1>1 DEF Devices
<1>3. QED
  BY <1>2

LEMMA AddInterfaceTypes ==
  ASSUME ListTypesInv, NEW a \in Answers, NEW reachable \in BOOLEAN, NEW k \in DOMAIN device,
         AddInterface(a, reachable, k)
  PROVE  ListTypesInv'
<1>1. MarkTyped' /\ UNCHANGED <<previous, highlight>>
  BY DEF AddInterface, ListTypesInv, MarkTyped
<1>2. CASE UNCHANGED <<device, heard>>
  BY <1>1, <1>2 DEF ListTypesInv, HeardTyped
<1>3. CASE /\ device' = [device EXCEPT ![k].ifaces = @ \union {a.iface},
                                       ![k].reachable = @ \/ reachable]
           /\ heard' = heard \union
                {[mac |-> a.mac, iface |-> a.iface, reachable |-> reachable]}
  <2>1. device[k] \in Devices /\ a.iface \in Ifaces
    BY DEF ListTypesInv, Ifaces
  <2>2. [device[k] EXCEPT !.ifaces = @ \union {a.iface}, !.reachable = @ \/ reachable] \in Devices
    BY <2>1 DEF Devices
  <2>3. device' = [device EXCEPT ![k] = [device[k] EXCEPT !.ifaces = @ \union {a.iface},
                                                          !.reachable = @ \/ reachable]]
    BY <1>3
  <2>4. device' \in Seq(Devices)
    BY <2>2, <2>3 DEF ListTypesInv
  <2>5. HeardTyped'
    BY <1>1, <1>3, NewHeard DEF ListTypesInv, HeardTyped
  <2>6. QED
    BY <1>1, <2>4, <2>5 DEF ListTypesInv
<1>4. QED
  BY <1>2, <1>3 DEF AddInterface

LEMMA SetRowsTypes ==
  ASSUME MarkTyped, NEW n \in Nat, SetRows(n)
  PROVE  MarkTyped'
BY DEF MarkTyped, SetRows

LEMMA AddDeviceTypes ==
  ASSUME ListTypesInv, index' \in Seq(Nat), NEW a \in Answers, NEW reachable \in BOOLEAN,
         AddDevice(a, reachable)
  PROVE  ListTypesInv'
<1> DEFINE new == previous # {} /\ a.mac \notin previous
           d == [name |-> a.name, model |-> a.model, mac |-> a.mac, ifaces |-> {a.iface},
                 reachable |-> reachable, new |-> new]
<1>1. /\ device' = Append(device, d)
      /\ highlight' = (highlight \/ new)
      /\ SetRows(Len(index')) \/ UNCHANGED <<rowCount, selected>>
      /\ heard' = heard \union {[mac |-> a.mac, iface |-> a.iface, reachable |-> reachable]}
      /\ previous' = previous
  BY DEF AddDevice
<1>2. new \in BOOLEAN
  OBVIOUS
<1>3. d \in Devices
  BY <1>2, NewHeard
<1> HIDE DEF d, new
<1>4. device' \in Seq(Devices)
  BY <1>1, <1>3 DEF ListTypesInv
<1>5. HeardTyped'
  <2>1. highlight' \in BOOLEAN
    BY <1>1, <1>2 DEF ListTypesInv, HeardTyped
  <2>2. QED
    BY <1>1, <2>1, NewHeard DEF ListTypesInv, HeardTyped
<1>6. MarkTyped'
  <2>1. Len(index') \in Nat
    OBVIOUS
  <2>2. CASE UNCHANGED <<rowCount, selected>>
    BY <2>2 DEF ListTypesInv, MarkTyped
  <2>3. QED
    BY <1>1, <2>1, <2>2, SetRowsTypes DEF ListTypesInv
<1>7. QED
  BY <1>4, <1>5, <1>6 DEF ListTypesInv

LEMMA ListTypesStep == ListTypesInv /\ RowsInv' /\ [ListNext]_listVars => ListTypesInv'
<1> SUFFICES ASSUME ListTypesInv, RowsInv', [ListNext]_listVars PROVE ListTypesInv'
  OBVIOUS
<1>1. index' \in Seq(Nat)
  BY DEF RowsInv
<1>2. CASE Clear
  <2>1. SetRows(0) /\ device' = <<>> /\ heard' = {} /\ highlight' = FALSE
    BY <1>2 DEF Clear
  <2>2. MarkTyped'
    BY <2>1, SetRowsTypes DEF ListTypesInv
  <2>3. previous' \subseteq Macs
    BY <1>2, MacsOfDevices DEF Clear, ListTypesInv
  <2>4. device' \in Seq(Devices)
    BY <2>1
  <2>5. QED
    BY <2>1, <2>2, <2>3, <2>4 DEF ListTypesInv, HeardTyped
<1>3. ASSUME NEW a \in Answers, NEW reachable \in BOOLEAN, Add(a, reachable)
      PROVE  ListTypesInv'
  BY <1>1, <1>3, AddInterfaceTypes, AddDeviceTypes DEF Add
<1>4. ASSUME NEW v, Refilter(v) PROVE ListTypesInv'
  <2>1. Len(index') \in Nat
    BY <1>1
  <2>2. QED
    BY <1>4, <2>1 DEF Refilter, ListTypesInv, HeardTyped, MarkTyped
<1>5. ASSUME NEW col, SortColumn(col) PROVE ListTypesInv'
  BY <1>5 DEF SortColumn, ListTypesInv, HeardTyped, MarkTyped
<1>6. ASSUME NEW r \in 1..rowCount, ClickRow(r) PROVE ListTypesInv'
  <2>1. device' \in Seq(Devices) /\ highlight' \in BOOLEAN
    BY <1>6, UnhighlightTypes DEF ClickRow, ListTypesInv, HeardTyped
  <2>2. selected' \in {r, 0} /\ UNCHANGED <<rowCount, previous, heard>>
    BY <1>6 DEF ClickRow
  <2>3. QED
    BY <2>1, <2>2 DEF ListTypesInv, HeardTyped, MarkTyped
<1>7. CASE ClickOutside
  BY <1>7 DEF ClickOutside, ListTypesInv, HeardTyped, MarkTyped
<1>8. CASE \E r \in 1..rowCount : SelectRow(r)
  BY <1>8 DEF SelectRow, ListTypesInv, HeardTyped, MarkTyped
<1>9. CASE LeaveMenu
  <2>1. device' \in Seq(Devices) /\ highlight' \in BOOLEAN
    BY <1>9, UnhighlightTypes DEF LeaveMenu, ListTypesInv, HeardTyped
  <2>2. QED
    BY <1>9, <2>1 DEF LeaveMenu, ListTypesInv, HeardTyped, MarkTyped
<1>10. CASE UNCHANGED listVars
  BY <1>10 DEF listVars, ListTypesInv, HeardTyped, MarkTyped
<1>11. QED
  BY <1>2, <1>3, <1>4, <1>5, <1>6, <1>7, <1>8, <1>9, <1>10
  DEF ListNext, UserOperation, FilterRCDevices, Filter

\* The table and the vectors are indexed with what they hold: every row is that
\* of a device in the list, and the marked row is one of the table's.
THEOREM ListTypeCorrect == ListSpec => []ListTypeOK
<1>1. ListInit => ListTypesInv
  <2> SUFFICES ASSUME ListInit PROVE ListTypesInv
    OBVIOUS
  <2>1. device = <<>> /\ rowCount = 0 /\ selected = 0
    BY DEF ListInit
  <2>2. previous = {} /\ highlight = FALSE /\ heard = {}
    BY DEF ListInit
  <2>3. device \in Seq(Devices)
    BY <2>1
  <2>4. HeardTyped
    BY <2>2 DEF HeardTyped
  <2>5. MarkTyped
    BY <2>1 DEF MarkTyped
  <2>6. QED
    BY <2>3, <2>4, <2>5 DEF ListTypesInv
<1>2. QED
  BY <1>1, ListTypesStep, TypesOfTheList, RowsAreRight, PTL DEF ListSpec

-----------------------------------------------------------------------------
(* Refinement: a step of the window is an operation of the list or leaves  *)
(* the list alone.                                                         *)

\* The answers of a round are answers.
BatchOK == batch \in Seq(Answers)

LEMMA StepIsListOperation ==
  ASSUME BatchOK, [Next]_vars
  PROVE  [ListNext]_listVars
<1>1. ASSUME listVars' = listVars PROVE [ListNext]_listVars
  BY <1>1
<1>2. CASE UseList
  BY <1>2 DEF UseList, ListNext
<1>3. CASE PushRow \/ Drag
  BY <1>3 DEF PushRow, Drag, ListNext, UserOperation
<1>4. CASE DoOpenContextMenu
  BY <1>4 DEF DoOpenContextMenu, ListNext
<1>5. CASE MenuCloses
  BY <1>5 DEF MenuCloses, ListNext
<1>6. CASE ThreadClears
  BY <1>6 DEF ThreadClears, ListNext
<1>7. CASE ThreadAdds
  <2>1. PICK reachable \in BOOLEAN : Add(Head(batch), reachable)
    BY <1>7 DEF ThreadAdds
  <2>2. Head(batch) \in Answers
    BY <1>7 DEF ThreadAdds, BatchOK
  <2> QED
    BY <2>1, <2>2 DEF ListNext
<1>8. CASE TakeEvent \/ Redraw \/ DoDiscover \/ Rerun \/ Release
  BY <1>1, <1>8 DEF TakeEvent, Redraw, DoDiscover, Rerun, Release
<1>9. CASE (\E dialog \in Dialogs : PressButton(dialog)) \/ CloseDialog \/ DoClose
  BY <1>1, <1>9 DEF PressButton, CloseDialog, DoClose
<1>10. CASE Destroy \/ DestroyJoins \/ Stopped \/ vars' = vars
  BY <1>1, <1>10 DEF Destroy, DestroyJoins, Stopped, vars
<1>11. CASE ThreadLocks \/ ThreadRequests \/ ThreadCollects
  BY <1>1, <1>11 DEF ThreadLocks, ThreadRequests, ThreadCollects
<1>12. CASE ThreadThrows \/ ThreadEndsRound \/ ThreadEnds
  BY <1>1, <1>12 DEF ThreadThrows, ThreadEndsRound, ThreadEnds
<1> QED
  BY <1>2, <1>3, <1>4, <1>5, <1>6, <1>7, <1>8, <1>9, <1>10, <1>11, <1>12
  DEF Next, Main, Thread, Event

LEMMA BatchOfAnswers == Spec => []BatchOK
<1>1. Init => BatchOK
  BY DEF Init, BatchOK
<1>2. BatchOK /\ [Next]_vars => BatchOK'
  <2> SUFFICES ASSUME batch \in Seq(Answers), [Next]_vars PROVE batch' \in Seq(Answers)
    BY DEF BatchOK
  <2>1. ASSUME batch' = batch PROVE batch' \in Seq(Answers)
    BY <2>1
  <2>2. CASE ThreadCollects
    <3>1. ASSUME batch' \in BoundedSeq(Answers, MaxBatch)
          PROVE  batch' \in Seq(Answers)
      BY <3>1, BoundsAssumption DEF BoundedSeq, SeqOf
    <3> QED
      BY <2>1, <2>2, <3>1 DEF ThreadCollects
  <2>3. CASE ThreadAdds
    BY <2>3 DEF ThreadAdds
  <2>4. CASE ThreadThrows
    BY <2>4 DEF ThreadThrows
  <2>5. CASE Main
    BY <2>1, <2>5 DEF Main, Event, TakeEvent, DoDiscover, Rerun, UseList, PushRow,
      Drag, Release, DoOpenContextMenu, PressButton, MenuCloses, CloseDialog, DoClose, Redraw,
      Destroy, DestroyJoins
  <2>6. CASE ThreadLocks \/ ThreadClears \/ ThreadRequests \/ ThreadEndsRound \/ ThreadEnds
    BY <2>1, <2>6 DEF ThreadLocks, ThreadClears, ThreadRequests, ThreadEndsRound, ThreadEnds
  <2>7. CASE Stopped \/ vars' = vars
    BY <2>1, <2>7 DEF Stopped, vars
  <2> QED
    BY <2>2, <2>3, <2>4, <2>5, <2>6, <2>7 DEF Next, Thread
<1> QED
  BY <1>1, <1>2, PTL DEF Spec

\* The window implements the specification of the list: what is proved for
\* ListSpec holds for the list of the running program.
LEMMA ListOperationsOnly == Spec => ListSpec
<1>1. Init => ListInit
  BY DEF Init
<1> QED
  BY <1>1, StepIsListOperation, BatchOfAnswers, PTL DEF Spec, ListSpec

\* So the list of the running program is merged and highlighted as proved for
\* DeviceList, its rows are the view the user asked for, and no thread moves the
\* selection, whatever the threads interleave.
THEOREM ListOfTheWindow ==
  Spec => [](AnswersAreMerged /\ HighlightedAreNew /\ ViewOfFixedColumns) /\ SelectionDoesNotSlip
BY ListOperationsOnly, EntriesAreMerged, OnlyNewAreHighlighted, RowsAreTheView,
   SelectionFollowsClicks, PTL

-----------------------------------------------------------------------------
(* The lock and the discover thread.                                       *)

Active == thread \notin {"none", "ended"}

\* Who holds the lock, and how often: the main thread exactly once and exactly
\* while a callback runs; the discover thread at least while it uses the list
\* (and for ever after an exception).
LockInv ==
  /\ depth \in Nat
  /\ owner \in {"nobody", "main", "thread"}
  /\ owner = "nobody" <=> depth = 0
  /\ owner = "main" <=> MainUsesList
  /\ owner = "main" => depth = 1
  /\ ThreadUsesList => owner = "thread"

\* While there is a discover thread, running is true and the button inactive,
\* so the main thread neither joins nor ends.
ActiveInv ==
  /\ Active => running /\ "discover" \notin buttons
  /\ Active => main \in {"wait", "event", "popup", "menu"}
  /\ main \in {"wait", "event", "popup", "menu", "join"} => "main" \in shown

WindowInv == LockInv /\ ActiveInv

LEMMA WindowInvInit == Init => WindowInv
BY DEF Init, WindowInv, LockInv, ActiveInv, Active, MainUsesList, ThreadUsesList

\* The callbacks that leave running and the thread alone, and what they may
\* do to the buttons and the windows.
LEMMA CallbackPreserves ==
  ASSUME WindowInv, main \in {"event", "menu"}, UNCHANGED <<thread, running>>,
         BackToLoop \/ (Unlock /\ main' \in {"wait", "popup"}),
         Update(running) \/ UNCHANGED buttons,
         "main" \in shown' \/ (~running /\ shown' = {} /\ BackToLoop)
  PROVE  WindowInv'
<1>1. Active' => "discover" \notin buttons'
  BY DEF WindowInv, ActiveInv, Active, Update
<1>2. LockInv'
  BY DEF WindowInv, LockInv, MainUsesList, ThreadUsesList, BackToLoop, Unlock
<1>3. Active' => running'
  BY DEF WindowInv, ActiveInv, Active
<1>4. Active' => "main" \in shown'
  BY <1>3
<1>5. main' \in {"wait", "popup"} \/ (shown' = {} /\ main' = "delete")
  BY DEF BackToLoop
<1>6. main' \in {"wait", "popup"} => "main" \in shown'
  BY DEF BackToLoop
<1> QED
  BY <1>1, <1>2, <1>3, <1>4, <1>5, <1>6 DEF WindowInv, ActiveInv

LEMMA WindowInvStep == WindowInv /\ [Next]_vars => WindowInv'
<1> SUFFICES ASSUME WindowInv, [Next]_vars PROVE WindowInv'
  OBVIOUS
<1>1. CASE TakeEvent
  BY <1>1 DEF TakeEvent, Lock, windowVars, WindowInv, LockInv, ActiveInv, Active,
    MainUsesList, ThreadUsesList
<1>2. CASE Redraw
  BY <1>2, CallbackPreserves DEF Redraw, windowVars, WindowInv, ActiveInv
<1>3. CASE DoDiscover
  BY <1>3 DEF DoDiscover, WindowInv, LockInv, ActiveInv, Active, MainUsesList, ThreadUsesList
<1>4. CASE Rerun
  BY <1>4 DEF Rerun, Update, BackToLoop, Unlock, WindowInv, LockInv, ActiveInv, Active,
    MainUsesList, ThreadUsesList
<1>5. CASE UseList
  BY <1>5, CallbackPreserves DEF UseList, WindowInv, ActiveInv
<1>6. CASE PushRow \/ Release
  BY <1>6, CallbackPreserves DEF PushRow, Release, WindowInv, ActiveInv
<1>7. CASE DoOpenContextMenu
  BY <1>7, CallbackPreserves DEF DoOpenContextMenu, WindowInv, ActiveInv
<1>8. ASSUME NEW dialog \in Dialogs, PressButton(dialog) PROVE WindowInv'
  BY <1>8, CallbackPreserves DEF PressButton, WindowInv, ActiveInv
<1>9. CASE MenuCloses
  <2>1. "main" \in shown'
    BY <1>9 DEF MenuCloses, WindowInv, ActiveInv
  <2> QED
    BY <1>9, <2>1, CallbackPreserves DEF MenuCloses
<1>10. CASE CloseDialog
  <2>1. "main" \in shown'
    BY <1>10, DialogsAssumption DEF CloseDialog, WindowInv, ActiveInv
  <2> QED
    BY <1>10, <2>1, CallbackPreserves DEF CloseDialog
<1>11. CASE DoClose
  <2>1. "main" \in shown' \/ (~running /\ shown' = {})
    BY <1>11, DialogsAssumption DEF DoClose, WindowInv, ActiveInv
  <2> QED
    BY <1>11, <2>1, CallbackPreserves DEF DoClose
<1>12. CASE Destroy \/ DestroyJoins
  BY <1>12 DEF Destroy, DestroyJoins, windowVars, WindowInv, LockInv, ActiveInv, Active,
    MainUsesList, ThreadUsesList
<1>13. CASE ThreadLocks
  BY <1>13 DEF ThreadLocks, AfterLock, Lock, windowVars, WindowInv, LockInv, ActiveInv,
    Active, MainUsesList, ThreadUsesList
<1>14. CASE ThreadClears
  BY <1>14 DEF ThreadClears, Update, Unlock, WindowInv, LockInv, ActiveInv, Active,
    MainUsesList, ThreadUsesList
<1>15. CASE ThreadEndsRound
  BY <1>15 DEF ThreadEndsRound, Update, Unlock, WindowInv, LockInv, ActiveInv, Active,
    MainUsesList, ThreadUsesList
<1>16. CASE ThreadEnds
  BY <1>16 DEF ThreadEnds, Unlock, WindowInv, LockInv, ActiveInv, Active, MainUsesList,
    ThreadUsesList
<1>17. CASE ThreadRequests \/ ThreadCollects \/ ThreadAdds \/ ThreadThrows
  BY <1>17 DEF ThreadRequests, ThreadCollects, ThreadAdds, ThreadThrows, windowVars,
    WindowInv, LockInv, ActiveInv, Active, MainUsesList, ThreadUsesList
<1>18. CASE Stopped \/ vars' = vars
  BY <1>18 DEF Stopped, vars, windowVars, WindowInv, LockInv, ActiveInv, Active,
    MainUsesList, ThreadUsesList
<1>19. CASE Drag
  BY <1>19, CallbackPreserves DEF Drag, windowVars, WindowInv, ActiveInv
<1> QED
  BY <1>1, <1>2, <1>3, <1>4, <1>5, <1>6, <1>7, <1>8, <1>9, <1>10, <1>11, <1>12, <1>13,
     <1>14, <1>15, <1>16, <1>17, <1>18, <1>19
  DEF Next, Main, Thread, Event

\* The two threads never use the list at the same time, although the discover
\* thread may leave its critical section by an exception.
THEOREM MutualExclusion == Spec => []ListIsProtected
<1>1. WindowInv => ListIsProtected
  BY DEF WindowInv, LockInv, ListIsProtected
<1> QED
  BY <1>1, WindowInvInit, WindowInvStep, PTL DEF Spec

\* Waiting for the discover thread, in doDiscover with the lock held or in the
\* destructor, never waits: the thread has ended.
THEOREM JoinsAreImmediate == Spec => []JoinDoesNotBlock
<1>1. WindowInv => JoinDoesNotBlock
  BY DEF WindowInv, ActiveInv, Active, JoinDoesNotBlock
<1> QED
  BY <1>1, WindowInvInit, WindowInvStep, PTL DEF Spec

-----------------------------------------------------------------------------
(* The buttons                                                             *)

\* The two buttons that follow the selection.
SelectionShown ==
  /\ "reset" \in buttons <=> (IsRCVisardSelected \/ SelectedMAC = NoMac)
  /\ "change_ip_config" \in buttons <=> (IsReachableDeviceSelected \/ SelectedMAC = NoMac)

\* The discover thread may leave the buttons behind the selection, but only
\* while it holds the lock, and the mouse only until its button is released.
ButtonsInv ==
  /\ running => Active
  /\ "discover" \in buttons <=> ~Active
  /\ owner = "thread" \/ dragging \/ SelectionShown

LEMMA UpdateShows ==
  ASSUME NEW isRunning \in BOOLEAN, Update(isRunning)
  PROVE  SelectionShown' /\ ("discover" \in buttons' <=> ~isRunning)
<1>1. "discover" # "reset" /\ "discover" # "change_ip_config" /\ "reset" # "change_ip_config"
  OBVIOUS
<1>2. QED
  BY <1>1 DEF Update, SelectionShown, Switched

LEMMA ListStays ==
  ASSUME SelectionShown, UNCHANGED <<listVars, buttons>> PROVE SelectionShown'
BY DEF SelectionShown, listVars, IsRCVisardSelected, IsReachableDeviceSelected, SelectedMAC,
  HasSelection, SelectedDevice, SelectedRow

\* Without the highlighting the selected device is what it was.
LEMMA MenuLeavesSelection ==
  ASSUME SelectionShown, EntriesInv, RowsInv, LeaveMenu, buttons' = buttons
  PROVE  SelectionShown'
<1>1. UNCHANGED <<index, selected>>
  BY DEF LeaveMenu
<1>2. SelectedRow' = SelectedRow /\ (HasSelection' <=> HasSelection)
  BY <1>1 DEF SelectedRow, HasSelection
<1>3. ASSUME HasSelection
      PROVE  /\ SelectedDevice'.model = SelectedDevice.model
             /\ SelectedDevice'.mac = SelectedDevice.mac
             /\ SelectedDevice'.reachable = SelectedDevice.reachable
  <2>1. index[SelectedRow] \in DOMAIN device
    <3>1. SelectedRow \in 1..Len(index) /\ DOMAIN index = 1..Len(index)
      BY <1>3 DEF HasSelection, SelectedRow, RowsInv
    <3>2. QED
      BY <3>1 DEF RowsInv
  <2>2. device[index[SelectedRow]] \in Entry
    BY <2>1 DEF EntriesInv, DevicesTyped
  <2>3. \/ device' = device
        \/ device' = [i \in DOMAIN device |-> [device[i] EXCEPT !.new = FALSE]]
    BY DEF LeaveMenu, Unhighlight
  <2>4. index'[SelectedRow'] = index[SelectedRow]
    BY <1>1, <1>2
  <2>5. QED
    BY <2>1, <2>2, <2>3, <2>4 DEF SelectedDevice, Entry
<1>4. /\ IsRCVisardSelected' <=> IsRCVisardSelected
      /\ IsReachableDeviceSelected' <=> IsReachableDeviceSelected
      /\ SelectedMAC' = SelectedMAC
  BY <1>2, <1>3 DEF IsRCVisardSelected, IsReachableDeviceSelected, SelectedMAC
<1>5. QED
  BY <1>4 DEF SelectionShown

RunningOK == running \in BOOLEAN

LEMMA ButtonsStep ==
  WindowInv /\ EntriesInv /\ RowsInv /\ ButtonsInv /\ RunningOK /\ [Next]_vars => ButtonsInv'
<1> SUFFICES ASSUME WindowInv, EntriesInv, RowsInv, ButtonsInv, running \in BOOLEAN, [Next]_vars
             PROVE  ButtonsInv'
  BY DEF RunningOK
<1>1. ASSUME UNCHANGED <<listVars, buttons, thread, running, dragging>>,
             owner' # "thread" => owner # "thread"
      PROVE  ButtonsInv'
  BY <1>1, ListStays DEF ButtonsInv, Active
\* The callbacks end in update.
<1>2. ASSUME Update(running), UNCHANGED <<thread, running>>
      PROVE  ButtonsInv'
  BY <1>2, UpdateShows DEF ButtonsInv, Active, WindowInv, ActiveInv
<1>3. ASSUME main \in {"event", "menu", "join"} PROVE owner = "main"
  BY <1>3 DEF WindowInv, LockInv, MainUsesList
<1>4. CASE TakeEvent \/ Redraw
  BY <1>1, <1>3, <1>4 DEF TakeEvent, Redraw, Lock, windowVars
<1>5. CASE DoDiscover
  <2>1. owner = "main" /\ owner' = owner
    BY <1>3, <1>5 DEF DoDiscover
  <2>2. ~Active /\ ~running' /\ UNCHANGED <<listVars, buttons, thread, dragging>>
    BY <1>5 DEF DoDiscover, ButtonsInv
  <2>3. QED
    BY <2>1, <2>2, ListStays DEF ButtonsInv, Active
<1>6. CASE Rerun
  <2>1. Update(TRUE) /\ thread' = "start" /\ running' = TRUE
    BY <1>6 DEF Rerun
  <2>2. QED
    BY <2>1, UpdateShows DEF ButtonsInv, Active
<1>7. CASE UseList
  BY <1>2, <1>7 DEF UseList
<1>8. CASE PushRow \/ Release
  BY <1>2, <1>8 DEF PushRow, Release
<1>9. CASE DoOpenContextMenu
  BY <1>2, <1>9 DEF DoOpenContextMenu
<1>10. CASE (\E dialog \in Dialogs : PressButton(dialog)) \/ CloseDialog \/ DoClose
  BY <1>1, <1>3, <1>10 DEF PressButton, CloseDialog, DoClose
<1>11. CASE MenuCloses
  <2>1. CASE Update(running)
    BY <1>2, <1>11, <2>1 DEF MenuCloses
  <2>2. CASE buttons' = buttons
    <3>1. owner = "main" /\ LeaveMenu /\ UNCHANGED <<thread, running, dragging>>
      BY <1>3, <1>11 DEF MenuCloses
    <3>2. dragging \/ SelectionShown
      BY <3>1 DEF ButtonsInv
    <3>3. dragging' \/ SelectionShown'
      BY <2>2, <3>1, <3>2, MenuLeavesSelection
    <3>4. QED
      BY <2>2, <3>1, <3>3 DEF ButtonsInv, Active
  <2>3. QED
    BY <1>11, <2>1, <2>2 DEF MenuCloses
<1>12. CASE Destroy \/ DestroyJoins
  <2>1. /\ UNCHANGED <<listVars, buttons, thread, owner, dragging>>
        /\ running' = running \/ running' = FALSE
    BY <1>12 DEF Destroy, DestroyJoins, windowVars
  <2>2. owner' = "thread" \/ dragging' \/ SelectionShown'
    BY <2>1, ListStays DEF ButtonsInv
  <2>3. QED
    BY <2>1, <2>2 DEF ButtonsInv, Active
<1>13. CASE ThreadLocks
  BY <1>13 DEF ThreadLocks, Lock, AfterLock, windowVars, ButtonsInv, Active
<1>14. CASE ThreadClears
  <2>1. Update(running) /\ thread' = "request" /\ running' = running /\ thread = "clear"
    BY <1>14 DEF ThreadClears
  <2>2. QED
    BY <2>1, UpdateShows DEF ButtonsInv, Active, WindowInv, ActiveInv
<1>15. CASE ThreadEndsRound
  <2>1. Update(running) /\ thread' = "loop" /\ running' = running /\ thread = "add"
    BY <1>15 DEF ThreadEndsRound
  <2>2. QED
    BY <2>1, UpdateShows DEF ButtonsInv, Active, WindowInv, ActiveInv
<1>16. CASE ThreadEnds
  <2>1. Update(FALSE) /\ thread' = "ended" /\ running' = FALSE
    BY <1>16 DEF ThreadEnds
  <2>2. QED
    BY <2>1, UpdateShows DEF ButtonsInv, Active
<1>17. CASE ThreadRequests \/ ThreadCollects
  <2>1. /\ thread \in {"request", "loop"} /\ thread' \in {"got", "loop", "leave"}
        /\ UNCHANGED <<listVars, buttons, owner, running, dragging>>
    BY <1>17 DEF ThreadRequests, ThreadCollects, windowVars
  <2>2. owner' = "thread" \/ dragging' \/ SelectionShown'
    BY <2>1, ListStays DEF ButtonsInv
  <2>3. QED
    BY <2>1, <2>2 DEF ButtonsInv, Active
<1>18. CASE ThreadAdds \/ ThreadThrows
  <2>1. /\ thread = "add" /\ thread' \in {"add", "leave"}
        /\ UNCHANGED <<buttons, owner, running>>
    BY <1>18 DEF ThreadAdds, ThreadThrows, windowVars
  <2>2. owner' = "thread"
    BY <2>1 DEF WindowInv, LockInv, ThreadUsesList
  <2>3. QED
    BY <2>1, <2>2 DEF ButtonsInv, Active
<1>19. CASE Stopped \/ vars' = vars
  BY <1>1, <1>19 DEF Stopped, vars, windowVars
<1>20. CASE Drag
  BY <1>20 DEF Drag, windowVars, BackToLoop, ButtonsInv, Active
<1> QED
  BY <1>4, <1>5, <1>6, <1>7, <1>8, <1>9, <1>10, <1>11, <1>12, <1>13, <1>14, <1>15, <1>16,
     <1>17, <1>18, <1>19, <1>20
  DEF Next, Main, Thread, Event

LEMMA RunningIsBoolean == Spec => []RunningOK
<1>1. Init => RunningOK
  BY DEF Init, RunningOK
<1>2. RunningOK /\ [Next]_vars => RunningOK'
  <2> SUFFICES ASSUME running \in BOOLEAN, [Next]_vars PROVE running' \in BOOLEAN
    BY DEF RunningOK
  <2>1. running' = running \/ running' = TRUE \/ running' = FALSE
    BY DEF Next, Main, Event, TakeEvent, Redraw, DoDiscover, Rerun, UseList, PushRow,
      Drag, Release, DoOpenContextMenu, PressButton, MenuCloses, CloseDialog, DoClose, Destroy,
      DestroyJoins, Thread, ThreadLocks, ThreadClears, ThreadRequests, ThreadCollects, ThreadAdds,
      ThreadThrows, ThreadEndsRound, ThreadEnds, Stopped, vars, windowVars
  <2>2. QED
    BY <2>1
<1>3. QED
  BY <1>1, <1>2, PTL DEF Spec

\* Whichever thread changed the list last, when the lock is free and the mouse
\* does not drag the selection along, the buttons fit the selection; the discover
\* button is active exactly without a discovery.
THEOREM ButtonsFollow == Spec => []ButtonsFit
<1>1. Init => ButtonsInv
  <2> SUFFICES ASSUME Init PROVE ButtonsInv
    OBVIOUS
  <2>1. /\ index = <<>> /\ selected = 0 /\ running = FALSE /\ thread = "none" /\ buttons = Switched
    BY DEF Init, ListInit
  <2>2. SelectedMAC = NoMac
    BY <2>1 DEF SelectedMAC, HasSelection, SelectedRow
  <2>3. QED
    BY <2>1, <2>2 DEF ButtonsInv, SelectionShown, Active, Switched
<1>2. ButtonsInv => ButtonsFit
  BY DEF ButtonsInv, SelectionShown, ButtonsFit, Active
<1>3. Spec => []WindowInv
  BY WindowInvInit, WindowInvStep, PTL DEF Spec
<1>4. Spec => [](EntriesInv /\ RowsInv /\ ShownInv)
  BY ListOperationsOnly, RowsAreRight, PTL
<1>5. QED
  BY <1>1, <1>2, <1>3, <1>4, ButtonsStep, RunningIsBoolean, PTL DEF Spec

-----------------------------------------------------------------------------
(* The types of the window                                                 *)

ControlTyped ==
  /\ main \in {"wait", "event", "join", "popup", "menu", "delete", "destroy", "gone"}
  /\ thread \in {"none", "start", "clear", "request", "loop", "got", "add", "leave",
                 "last", "ended"}
  /\ rounds \in 0..MaxRounds

WidgetsTyped ==
  /\ buttons \subseteq Switched
  /\ menu \subseteq Entries
  /\ shown \subseteq Dialogs \union {"main"}
  /\ dragging \in BOOLEAN

\* What callbacks and the discover thread do to the widgets.
LEMMA WidgetsStay == ASSUME WidgetsTyped, UNCHANGED windowVars PROVE WidgetsTyped'
BY DEF WidgetsTyped, windowVars

LEMMA UpdateTypes == ASSUME NEW r, Update(r) PROVE buttons' \subseteq Switched
BY DEF Update

LEMMA WidgetsStep == WidgetsTyped /\ [Next]_vars => WidgetsTyped'
<1> SUFFICES ASSUME WidgetsTyped, [Next]_vars PROVE WidgetsTyped'
  OBVIOUS
<1>1. CASE TakeEvent \/ Redraw \/ Drag \/ DestroyJoins \/ ThreadLocks \/ ThreadRequests
           \/ ThreadCollects \/ ThreadAdds \/ ThreadThrows \/ Stopped \/ vars' = vars
  <2>1. UNCHANGED windowVars
    BY <1>1 DEF TakeEvent, Redraw, Drag, DestroyJoins, ThreadLocks, ThreadRequests, ThreadCollects,
      ThreadAdds, ThreadThrows, Stopped, vars
  <2>2. QED
    BY <2>1, WidgetsStay
<1>2. CASE DoDiscover \/ Destroy
  BY <1>2 DEF DoDiscover, Destroy, WidgetsTyped
<1>3. CASE Rerun \/ UseList \/ ThreadClears \/ ThreadEndsRound \/ ThreadEnds
  <2>1. buttons' \subseteq Switched /\ UNCHANGED <<menu, shown, dragging>>
    BY <1>3, UpdateTypes DEF Rerun, UseList, ThreadClears, ThreadEndsRound, ThreadEnds
  <2>2. QED
    BY <2>1 DEF WidgetsTyped
<1>4. CASE PushRow \/ Release
  <2>1. buttons' \subseteq Switched /\ dragging' \in BOOLEAN /\ UNCHANGED <<menu, shown>>
    BY <1>4, UpdateTypes DEF PushRow, Release
  <2>2. QED
    BY <2>1 DEF WidgetsTyped
<1>5. CASE DoOpenContextMenu
  <2>1. buttons' \subseteq Switched /\ UNCHANGED <<shown, dragging>>
    BY <1>5, UpdateTypes DEF DoOpenContextMenu
  <2>2. menu' \subseteq Entries
    BY <1>5 DEF DoOpenContextMenu
  <2>3. QED
    BY <2>1, <2>2 DEF WidgetsTyped
<1>6. CASE (\E dialog \in Dialogs : PressButton(dialog)) \/ CloseDialog \/ DoClose
  <2>1. shown' \subseteq Dialogs \union {"main"}
    BY <1>6 DEF PressButton, CloseDialog, DoClose, WidgetsTyped
  <2>2. UNCHANGED <<buttons, menu, dragging>>
    BY <1>6 DEF PressButton, CloseDialog, DoClose
  <2>3. QED
    BY <2>1, <2>2 DEF WidgetsTyped
<1>7. CASE MenuCloses
  <2>1. buttons' \subseteq Switched /\ menu' = {}
    BY <1>7, UpdateTypes DEF MenuCloses, WidgetsTyped
  <2>2. dragging' \in BOOLEAN
    BY <1>7 DEF MenuCloses, WidgetsTyped
  <2>3. shown' \subseteq Dialogs \union {"main"}
    BY <1>7 DEF MenuCloses, WidgetsTyped
  <2>4. QED
    BY <2>1, <2>2, <2>3 DEF WidgetsTyped
<1>8. QED
  BY <1>1, <1>2, <1>3, <1>4, <1>5, <1>6, <1>7 DEF Next, Main, Thread, Event

LEMMA ControlStep == ControlTyped /\ [Next]_vars => ControlTyped'
<1> SUFFICES ASSUME ControlTyped, [Next]_vars PROVE ControlTyped'
  OBVIOUS
<1>1. CASE UNCHANGED <<thread, rounds>> /\
           (main' = main \/ main' \in {"wait", "event", "join", "popup", "menu", "delete",
                                       "destroy", "gone"})
  BY <1>1 DEF ControlTyped
<1>2. CASE TakeEvent \/ Redraw \/ DoDiscover \/ UseList \/ PushRow \/ Drag \/ Release
           \/ DoOpenContextMenu
           \/ (\E dialog \in Dialogs : PressButton(dialog)) \/ CloseDialog \/ DoClose
           \/ MenuCloses \/ Destroy \/ DestroyJoins \/ Stopped \/ vars' = vars
  <2>1. UNCHANGED <<thread, rounds>>
    BY <1>2 DEF TakeEvent, Redraw, DoDiscover, UseList, PushRow, Drag, Release,
      DoOpenContextMenu, PressButton, CloseDialog, DoClose, MenuCloses, Destroy, DestroyJoins, Stopped, vars
  <2>2. \/ main' = main
        \/ main' \in {"wait", "event", "join", "popup", "menu", "delete", "destroy", "gone"}
    BY <1>2 DEF TakeEvent, Redraw, DoDiscover, UseList, PushRow, Drag, Release,
      DoOpenContextMenu, PressButton, CloseDialog, DoClose, MenuCloses, Destroy, DestroyJoins, BackToLoop,
      Stopped, vars
  <2>3. QED
    BY <1>1, <2>1, <2>2
<1>3. CASE Rerun
  <2>1. 0 \in 0..MaxRounds
    BY BoundsAssumption
  <2>2. QED
    BY <1>3, <2>1 DEF Rerun, BackToLoop, ControlTyped
<1>4. CASE ThreadCollects
  BY <1>4, BoundsAssumption DEF ThreadCollects, ControlTyped
<1>5. CASE ThreadLocks
  <2>1. thread' \in {"clear", "add", "last"} /\ UNCHANGED <<main, rounds>>
    BY <1>5 DEF ThreadLocks, AfterLock
  <2>2. QED
    BY <2>1 DEF ControlTyped
<1>6. CASE ThreadClears \/ ThreadRequests \/ ThreadAdds \/ ThreadThrows \/ ThreadEndsRound
           \/ ThreadEnds
  <2>1. /\ thread' = thread \/ thread' \in {"request", "loop", "leave", "ended"}
        /\ UNCHANGED <<main, rounds>>
    BY <1>6 DEF ThreadClears, ThreadRequests, ThreadAdds, ThreadThrows, ThreadEndsRound,
      ThreadEnds
  <2>2. QED
    BY <2>1 DEF ControlTyped
<1>7. QED
  BY <1>2, <1>3, <1>4, <1>5, <1>6 DEF Next, Main, Thread, Event

\* The types of the window and of its list.
THEOREM TypeCorrect == Spec => []TypeOK
<1>1. Init => ControlTyped /\ WidgetsTyped
  <2> SUFFICES ASSUME Init PROVE ControlTyped /\ WidgetsTyped
    OBVIOUS
  <2>1. ControlTyped
    BY BoundsAssumption DEF Init, ControlTyped
  <2>2. WidgetsTyped
    BY DEF Init, WidgetsTyped
  <2>3. QED
    BY <2>1, <2>2
<1>2. Spec => []ListTypeOK
  BY ListOperationsOnly, ListTypeCorrect, PTL
<1>3. Spec => []WindowInv
  BY WindowInvInit, WindowInvStep, PTL DEF Spec
<1>4. Spec => [](ControlTyped /\ WidgetsTyped)
  BY <1>1, ControlStep, WidgetsStep, PTL DEF Spec
<1>5. ListTypeOK /\ WindowInv /\ ControlTyped /\ WidgetsTyped /\ RunningOK /\ BatchOK => TypeOK
  BY DEF WindowInv, LockInv, ControlTyped, WidgetsTyped, RunningOK, BatchOK, TypeOK
<1>6. QED
  BY <1>2, <1>3, <1>4, <1>5, RunningIsBoolean, BatchOfAnswers, PTL

=============================================================================
