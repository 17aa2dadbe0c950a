------------------------- MODULE CliCommandsProofs -------------------------
(***************************************************************************)
(* For every command line, every set of interfaces and every sequence of   *)
(* answers: a device is printed in one line with each of its interfaces    *)
(* once, commands go out only after consent and only to what was printed,  *)
(* forceip gives its address to one device on one interface, and what is   *)
(* selected is what the filter means.                                      *)
(***************************************************************************)
EXTENDS CliCommands, EnumerationProofs

-----------------------------------------------------------------------------
(* The order of the entries                                                *)

Infos == {DeviceInfo(e, len) : e \in Entries, len \in Lengths}

LEMMA InfoFields ==
  ASSUME NEW d \in Infos
  PROVE  d.mac \in Nat /\ d.iface \in Range(Interfaces)
<1>1. PICK e \in Entries, len \in Lengths : d = DeviceInfo(e, len)
  BY DEF Infos
<1>2. d.iface = e.iface /\ (d.mac = e.mac \/ d.mac = 0)
  BY <1>1 DEF DeviceInfo
<1>3. e.mac \in Nat /\ e.iface \in Range(Interfaces)
  BY EntriesAssumption, InterfacesAssumption
<1>4. QED
  BY <1>2, <1>3

\* Two interfaces of different rank are different, and the other way round.
LEMMA RankOfInterface ==
  ASSUME NEW x \in Range(Interfaces), NEW y \in Range(Interfaces)
  PROVE  Rank(x) \in Nat /\ (Rank(x) = Rank(y) <=> x = y)
<1>1. ASSUME NEW i \in Range(Interfaces)
      PROVE  Rank(i) \in DOMAIN Interfaces /\ Interfaces[Rank(i)] = i
  BY <1>1 DEF Rank, Range
<1>2. DOMAIN Interfaces \subseteq Nat
  <2>1. Interfaces \in Seq(Range(Interfaces))
    BY InterfacesAssumption
  <2>2. QED
    BY <2>1
<1>3. QED
  BY <1>1, <1>2

\* Less orders the entries, up to a device seen twice on an interface.
LEMMA LessOrders ==
  ASSUME NEW c \in Infos, NEW d \in Infos, NEW e \in Infos
  PROVE  /\ Less(c, d) \/ Less(d, c) \/ SameEntry(c, d)
         /\ Less(c, d) => ~Less(d, c) /\ ~SameEntry(c, d)
         /\ Less(c, d) /\ Less(d, e) => Less(c, e)
         /\ Less(c, d) => c.mac <= d.mac
         /\ SameEntry(c, d) => (Less(c, e) <=> Less(d, e)) /\ (Less(e, c) <=> Less(e, d))
<1>1. c.mac \in Nat /\ d.mac \in Nat /\ e.mac \in Nat
  BY InfoFields
<1>2. c.iface \in Range(Interfaces) /\ d.iface \in Range(Interfaces) /\ e.iface \in Range(Interfaces)
  BY InfoFields
<1>3. Rank(c.iface) \in Nat /\ Rank(d.iface) \in Nat /\ Rank(e.iface) \in Nat
  BY <1>2, RankOfInterface
<1>4. Rank(c.iface) = Rank(d.iface) <=> c.iface = d.iface
  BY <1>2, RankOfInterface
<1>5. QED
  BY <1>1, <1>3, <1>4 DEF Less, SameEntry

Ordered(list) == \A i, j \in DOMAIN list : i < j => Less(list[i], list[j])

\* What is kept of a list is in ascending order if each entry that is kept is
\* after all that are kept before it.
LEMMA KeptIsOrdered ==
  ASSUME NEW list \in Seq(Infos), NEW S \in SUBSET (DOMAIN list), NEW kept, kept = Kept(list, S),
         \A i, j \in S : i < j => Less(list[i], list[j])
  PROVE  kept \in Seq(Infos) /\ Ordered(kept)
<1>1. PICK n \in Nat : n = Len(list)
  OBVIOUS
<1>2. DOMAIN list = 1..n /\ \A i \in 1..n : list[i] \in Infos
  BY <1>1
<1>3. PICK f : f = Ascending(S) /\ kept = [k \in DOMAIN f |-> list[f[k]]]
  BY DEF Kept
<1>4. PICK m \in Nat :
        /\ DOMAIN f = 1..m
        /\ \A k \in 1..m : f[k] \in S /\ f[k] \in 1..n
        /\ \A k, l \in 1..m : k < l => f[k] < f[l]
  BY <1>2, <1>3, AscendingPositions
<1>5. \A k \in 1..m : kept[k] = list[f[k]]
  BY <1>3, <1>4
<1>6. kept \in [1..m -> Infos]
  BY <1>2, <1>3, <1>4
<1>7. kept \in Seq(Infos) /\ DOMAIN kept = 1..m
  BY <1>6
<1>8. QED
  BY <1>4, <1>5, <1>7 DEF Ordered

LEMMA SortingIsSorted ==
  ASSUME NEW list \in Seq(Infos), NEW sorted \in Sortings(list)
  PROVE  /\ sorted \in Seq(Infos) /\ DOMAIN sorted = DOMAIN list
         /\ \A i, j \in DOMAIN sorted : i < j => ~Less(sorted[j], sorted[i])
<1>1. PICK n \in Nat : n = Len(list) /\ DOMAIN list = 1..n
  OBVIOUS
<1>2. PICK p \in Bijection(DOMAIN list, DOMAIN list) :
        /\ sorted = [i \in DOMAIN list |-> list[p[i]]]
        /\ \A i, j \in DOMAIN list : i < j => ~Less(list[p[j]], list[p[i]])
  BY DEF Sortings
<1>3. p \in [1..n -> 1..n]
  BY <1>1, <1>2 DEF Bijection, Injection
<1>4. sorted \in [1..n -> Infos]
  BY <1>1, <1>2, <1>3
<1>5. QED
  BY <1>1, <1>2, <1>4

\* Sorting and dropping what repeats leaves each entry once.
LEMMA FirstsAreOrdered ==
  ASSUME NEW sorted \in Seq(Infos),
         \A i, j \in DOMAIN sorted : i < j => ~Less(sorted[j], sorted[i]),
         NEW entries, entries = Kept(sorted, Firsts(sorted))
  PROVE  entries \in Seq(Infos) /\ Ordered(entries)
<1>1. PICK n \in Nat : n = Len(sorted) /\ DOMAIN sorted = 1..n
  OBVIOUS
<1>2. Firsts(sorted) \in SUBSET (DOMAIN sorted)
  BY DEF Firsts
<1>3. ASSUME NEW i \in Firsts(sorted), NEW j \in Firsts(sorted), i < j
      PROVE  Less(sorted[i], sorted[j])
  <2>1. i \in 1..n /\ j \in 1..n /\ j - 1 \in 1..n /\ i <= j - 1 /\ j - 1 < j /\ j # 1
    BY <1>1, <1>2, <1>3
  <2>2. sorted[i] \in Infos /\ sorted[j] \in Infos /\ sorted[j - 1] \in Infos
    BY <1>1, <2>1
  <2>3. ~SameEntry(sorted[j - 1], sorted[j])
    BY <2>1 DEF Firsts
  <2>4. ~Less(sorted[j], sorted[j - 1])
    BY <1>1, <2>1
  <2>5. Less(sorted[j - 1], sorted[j])
    BY <2>2, <2>3, <2>4, LessOrders
  <2>6. CASE i = j - 1
    BY <2>5, <2>6
  <2>7. CASE i < j - 1
    <3>1. ~Less(sorted[j - 1], sorted[i])
      BY <1>1, <2>1, <2>7
    <3>2. Less(sorted[i], sorted[j - 1]) \/ SameEntry(sorted[i], sorted[j - 1])
      BY <2>2, <3>1, LessOrders
    <3>3. QED
      BY <2>2, <2>5, <3>2, LessOrders
  <2>8. QED
    BY <2>1, <2>6, <2>7
<1>4. QED
  BY <1>2, <1>3, KeptIsOrdered

\* The selection of discoverWithFilter.
LEMMA SelectionIsOrdered ==
  ASSUME infos \in Seq(Infos), discoverWithFilter
  PROVE  devices' \in Seq(Infos) /\ Ordered(devices')
<1>1. PICK sorted \in Sortings(infos) :
        \E passed \in Passing(Kept(sorted, Firsts(sorted))) :
          devices' = Kept(Kept(sorted, Firsts(sorted)), passed)
  BY DEF discoverWithFilter
<1>2. PICK entries : entries = Kept(sorted, Firsts(sorted))
  OBVIOUS
<1>3. PICK passed \in Passing(entries) : devices' = Kept(entries, passed)
  BY <1>1, <1>2
<1>4. entries \in Seq(Infos) /\ Ordered(entries)
  <2>1. /\ sorted \in Seq(Infos)
        /\ \A i, j \in DOMAIN sorted : i < j => ~Less(sorted[j], sorted[i])
    BY SortingIsSorted
  <2>2. QED
    BY <1>2, <2>1, FirstsAreOrdered
<1>5. passed \in SUBSET (DOMAIN entries)
  BY DEF Passing
<1>6. \A i, j \in passed : i < j => Less(entries[i], entries[j])
  BY <1>4, <1>5 DEF Ordered
<1>7. QED
  BY <1>3, <1>4, <1>5, <1>6, KeptIsOrdered

-----------------------------------------------------------------------------
(* The table                                                               *)

\* The rows of a table go from a first to a last entry; they show every entry,
\* and the entries of a row are of one device.
Rows(list, rows, n, first, last) ==
  /\ DOMAIN rows = 1..n /\ Len(rows) = n
  /\ \A k \in 1..n :
       /\ rows[k] = Row(list, first[k], last[k])
       /\ first[k] \in DOMAIN list /\ last[k] \in DOMAIN list /\ first[k] <= last[k]
       /\ \A i \in first[k]..last[k] : list[i].mac = list[first[k]].mac
  /\ \A i \in DOMAIN list : \E k \in 1..n : i \in first[k]..last[k]

\* Each device has one row.
Separate(list, n, first) == \A k, l \in 1..n : k # l => list[first[k]].mac # list[first[l]].mac

LEMMA PrintedRows ==
  ASSUME NEW list \in Seq(Infos), Ordered(list), NEW short \in BOOLEAN,
         NEW rows, rows = Printed(list, short)
  PROVE  \E n \in Nat, first, last \in Seq(Nat) :
           /\ Rows(list, rows, n, first, last)
           /\ short => n = Len(list)
           /\ ~short => Separate(list, n, first)
<1> DEFINE heads == Heads(list, short)
<1>1. PICK size \in Nat : size = Len(list) /\ DOMAIN list = 1..size
  OBVIOUS
<1>2. \A i \in 1..size : list[i] \in Infos /\ list[i].mac \in Nat
  BY <1>1, InfoFields
<1>3. heads \in SUBSET (1..size)
  BY <1>1 DEF Heads
<1>4. PICK h :
        /\ h = Ascending(heads)
        /\ rows = [k \in DOMAIN h |-> Row(list, h[k], IF k = Len(h) THEN Len(list) ELSE h[k + 1] - 1)]
  BY DEF Printed
<1>5. PICK n \in Nat :
        /\ n = Cardinality(heads)
        /\ DOMAIN h = 1..n /\ Len(h) = n /\ h \in [1..n -> heads]
        /\ \A s \in heads : \E k \in 1..n : h[k] = s
        /\ \A k \in 1..n : h[k] \in heads /\ h[k] \in 1..size
        /\ \A k, l \in 1..n : k < l => h[k] < h[l]
  <2> HIDE DEF heads
  <2>1. \E n \in Nat :
          /\ n = Cardinality(heads) /\ n <= size
          /\ DOMAIN Ascending(heads) = 1..n /\ Len(Ascending(heads)) = n /\ Ascending(heads) \in [1..n -> heads]
          /\ \A s \in heads : \E k \in 1..n : Ascending(heads)[k] = s
          /\ \A k \in 1..n : Ascending(heads)[k] \in heads /\ Ascending(heads)[k] \in 1..size
          /\ \A k, l \in 1..n : k < l => Ascending(heads)[k] < Ascending(heads)[l]
    BY <1>3, AscendingPositions
  <2>2. QED
    BY <1>4, <2>1
<1>0. PICK last :
        /\ last = [k \in 1..n |-> last[k]]
        /\ \A k \in 1..n : last[k] = IF k = n THEN size ELSE h[k + 1] - 1
  <2> DEFINE ends == [k \in 1..n |-> IF k = n THEN size ELSE h[k + 1] - 1]
  <2>1. \A k \in 1..n : ends[k] = IF k = n THEN size ELSE h[k + 1] - 1
    OBVIOUS
  <2>2. ends = [k \in 1..n |-> ends[k]]
    OBVIOUS
  <2> HIDE DEF ends
  <2>3. QED
    BY <2>1, <2>2
<1>6. \A i \in 1..size : i \in heads <=> (short \/ i = 1 \/ list[i - 1].mac # list[i].mac)
  BY <1>1 DEF Heads
<1> HIDE DEF heads
<1>7. ASSUME NEW k \in 1..n
      PROVE  last[k] \in 1..size /\ h[k] <= last[k]
  <2>1. CASE k = n
    BY <1>0, <1>5, <2>1
  <2>2. CASE k # n
    <3>1. k + 1 \in 1..n /\ k < k + 1
      BY <2>2
    <3>2. h[k] < h[k + 1] /\ h[k] \in 1..size /\ h[k + 1] \in 1..size
      BY <1>5, <3>1
    <3>3. last[k] = h[k + 1] - 1
      BY <1>0, <2>2
    <3>4. QED
      BY <3>2, <3>3
  <2>3. QED
    BY <2>1, <2>2
<1>8. ASSUME NEW k \in 1..n, NEW i \in 1..size, i \in h[k]..last[k], i # h[k]
      PROVE  i \notin heads
  <2>1. SUFFICES ASSUME i \in heads PROVE FALSE
    OBVIOUS
  <2>2. PICK l \in 1..n : h[l] = i
    BY <1>5, <2>1
  <2>3. h[k] < h[l] /\ h[k] \in 1..size /\ h[l] \in 1..size
    BY <1>5, <1>8, <2>2
  <2>4. k < l
    <3>1. k = l \/ ~(l < k)
      BY <1>5, <2>3
    <3>2. QED
      BY <2>3, <3>1
  <2>5. k + 1 \in 1..n /\ k # n
    BY <2>4
  <2>6. h[k + 1] <= h[l]
    <3>1. k + 1 = l \/ k + 1 < l
      BY <2>4
    <3>2. CASE k + 1 < l
      BY <1>5, <2>3, <2>5, <3>2
    <3>3. QED
      BY <2>3, <3>1, <3>2
  <2>7. h[k + 1] \in 1..size /\ last[k] = h[k + 1] - 1
    BY <1>0, <1>5, <2>5
  <2>8. QED
    BY <1>8, <2>2, <2>3, <2>6, <2>7
<1>9. ASSUME NEW k \in 1..n
      PROVE  \A i \in h[k]..last[k] : list[i].mac = list[h[k]].mac
  <2> DEFINE T == {i \in h[k]..last[k] : list[i].mac # list[h[k]].mac}
  <2>1. h[k] \in 1..size /\ last[k] \in 1..size
    BY <1>5, <1>7
  <2>2. SUFFICES ASSUME T # {} PROVE FALSE
    OBVIOUS
  <2>3. T \in SUBSET Nat
    BY <2>1
  <2>4. PICK i \in T : \A j \in T : i <= j
    BY <2>2, <2>3, LeastNumber
  <2>5. i \in 1..size /\ i \in h[k]..last[k] /\ i # h[k]
    BY <2>1
  <2>6. i - 1 \in h[k]..last[k] /\ i - 1 \notin T
    BY <2>1, <2>4, <2>5
  <2>7. list[i - 1].mac = list[h[k]].mac /\ list[i].mac # list[h[k]].mac
    BY <2>6
  <2>8. i \in heads
    BY <1>6, <2>5, <2>7
  <2>9. QED
    BY <1>8, <2>5, <2>8
<1>10. ASSUME NEW i \in 1..size
       PROVE  \E k \in 1..n : i \in h[k]..last[k]
  <2> DEFINE T == {k \in 1..n : h[k] <= i}
  <2>1. 1 \in heads
    BY <1>6
  <2>2. PICK one \in 1..n : h[one] = 1
    BY <1>5, <2>1
  <2>3. T # {} /\ T \in SUBSET (0..n)
    BY <2>2
  <2>4. PICK k \in T : \A l \in T : l <= k
    BY <2>3, GreatestNumber
  <2>5. k \in 1..n /\ h[k] <= i /\ h[k] \in 1..size
    BY <1>5
  <2>6. CASE k = n
    BY <1>0, <2>5, <2>6
  <2>7. CASE k # n
    <3>1. k + 1 \in 1..n /\ k + 1 \notin T
      BY <2>4, <2>5, <2>7
    <3>2. h[k + 1] \in 1..size /\ ~(h[k + 1] <= i)
      BY <1>5, <3>1
    <3>3. last[k] = h[k + 1] - 1
      BY <1>0, <2>5, <2>7
    <3>4. i \in h[k]..last[k]
      BY <2>5, <3>2, <3>3
    <3>5. QED
      BY <2>5, <3>4
  <2>8. QED
    BY <2>6, <2>7
<1>11. ASSUME ~short, NEW k \in 1..n, NEW l \in 1..n, k < l
       PROVE  list[h[k]].mac # list[h[l]].mac
  <2>1. h[k] \in 1..size /\ h[l] \in 1..size /\ h[k] < h[l] /\ h[l] \in heads
    BY <1>5, <1>11
  <2>2. h[l] - 1 \in 1..size /\ h[l] - 1 < h[l] /\ h[k] <= h[l] - 1
    BY <2>1
  <2>3. list[h[l] - 1].mac # list[h[l]].mac
    BY <1>6, <1>11, <2>1
  <2>4. list[h[l] - 1].mac < list[h[l]].mac
    <3>1. Less(list[h[l] - 1], list[h[l]])
      BY <1>1, <2>1, <2>2 DEF Ordered
    <3>2. list[h[l] - 1].mac <= list[h[l]].mac
      BY <1>2, <2>1, <2>2, <3>1, LessOrders
    <3>3. QED
      BY <1>2, <2>1, <2>2, <2>3, <3>2
  <2>5. list[h[k]].mac <= list[h[l] - 1].mac
    <3>1. CASE h[k] = h[l] - 1
      BY <1>2, <2>1, <3>1
    <3>2. CASE h[k] < h[l] - 1
      <4>1. Less(list[h[k]], list[h[l] - 1])
        BY <1>1, <2>1, <2>2, <3>2 DEF Ordered
      <4>2. QED
        BY <1>2, <2>1, <2>2, <4>1, LessOrders
    <3>3. QED
      BY <2>1, <2>2, <3>1, <3>2
  <2>6. QED
    BY SMTT(30), <1>2, <2>1, <2>2, <2>4, <2>5
<1>12. ~short => Separate(list, n, h)
  <2>1. SUFFICES ASSUME ~short, NEW k \in 1..n, NEW l \in 1..n, k # l
                 PROVE  list[h[k]].mac # list[h[l]].mac
    BY DEF Separate
  <2>2. k < l \/ l < k
    BY <2>1
  <2>3. QED
    BY <1>11, <2>1, <2>2
<1>13. short => n = Len(list)
  <2>1. SUFFICES ASSUME short PROVE n = size
    BY <1>1
  <2>2. heads = 1..size
    BY <1>3, <1>6, <2>1
  <2>3. QED
    BY <1>5, <2>2, FS_Interval
<1>14. \A k \in 1..n : rows[k] = Row(list, h[k], last[k])
  BY <1>0, <1>1, <1>4, <1>5
<1>15. DOMAIN rows = 1..n /\ Len(rows) = n
  BY <1>4, <1>5
<1>16. h \in Seq(Nat) /\ last \in Seq(Nat)
  <2>1. h \in [1..n -> Nat]
    BY <1>3, <1>5
  <2>2. last \in [1..n -> Nat]
    <3>1. \A k \in 1..n : last[k] \in Nat
      BY <1>7
    <3>2. QED
      BY <1>0, <3>1
  <2>3. QED
    BY <2>1, <2>2
<1>17. Rows(list, rows, n, h, last)
  BY <1>1, <1>5, <1>7, <1>9, <1>10, <1>14, <1>15 DEF Rows
<1>18. QED
  BY <1>12, <1>13, <1>16, <1>17

\* A row has as many interfaces as it has entries.
Spans(list, row, f, l, size) ==
  /\ f \in DOMAIN list /\ l \in DOMAIN list /\ f <= l
  /\ size = l - f + 1 /\ size > 0
  /\ row.mac = list[f].mac
  /\ DOMAIN row.ifaces = 1..size /\ Len(row.ifaces) = size
  /\ \A m \in 1..size : row.ifaces[m] = list[f + m - 1].iface

LEMMA RowSpans ==
  ASSUME NEW list \in Seq(Infos), NEW f \in DOMAIN list, NEW l \in DOMAIN list, f <= l
  PROVE  \E size \in Nat : Spans(list, Row(list, f, l), f, l, size)
<1> DEFINE row == Row(list, f, l)
<1>1. f \in Nat /\ l \in Nat
  OBVIOUS
<1>2. l - f + 1 \in Nat /\ l - f + 1 > 0
  BY <1>1
<1>3. PICK size \in Nat : size = l - f + 1 /\ size > 0
  BY <1>2
<1>4. row.ifaces = [m \in 1..size |-> list[f + m - 1].iface] /\ row.mac = list[f].mac
  BY <1>3 DEF Row
<1>5. DOMAIN row.ifaces = 1..size /\ Len(row.ifaces) = size
  BY <1>4
<1> HIDE DEF row
<1>6. Spans(list, row, f, l, size)
  BY <1>3, <1>4, <1>5 DEF Spans
<1>7. QED
  BY <1>6 DEF row

LEMMA RowsSpan ==
  ASSUME NEW list \in Seq(Infos), NEW rows, NEW n \in Nat, NEW first \in Seq(Nat), NEW last \in Seq(Nat),
         Rows(list, rows, n, first, last), NEW k \in 1..n
  PROVE  \E size \in Nat : Spans(list, rows[k], first[k], last[k], size)
<1>1. first[k] \in DOMAIN list /\ last[k] \in DOMAIN list /\ first[k] <= last[k]
  BY DEF Rows
<1>2. rows[k] = Row(list, first[k], last[k])
  BY DEF Rows
<1>3. QED
  BY <1>1, <1>2, RowSpans

\* The table names the devices of the list and no other.
LEMMA RowsShowDevices ==
  ASSUME NEW list \in Seq(Infos), NEW rows, NEW n \in Nat, NEW first \in Seq(Nat), NEW last \in Seq(Nat),
         Rows(list, rows, n, first, last)
  PROVE  /\ \A k \in 1..n : \E i \in DOMAIN list : rows[k].mac = list[i].mac
         /\ \A i \in DOMAIN list : \E k \in 1..n : rows[k].mac = list[i].mac
         /\ {row.mac : row \in Range(rows)} = {e.mac : e \in Range(list)}
<1>1. PICK size \in Nat : DOMAIN list = 1..size
  OBVIOUS
<1>2. ASSUME NEW k \in 1..n
      PROVE  /\ first[k] \in DOMAIN list /\ rows[k].mac = list[first[k]].mac
             /\ \A i \in first[k]..last[k] : list[i].mac = rows[k].mac
  BY SMTT(30), <1>1 DEF Rows, Row
<1>3. \A k \in 1..n : \E i \in DOMAIN list : rows[k].mac = list[i].mac
  BY <1>2
<1>4. \A i \in DOMAIN list : \E k \in 1..n : rows[k].mac = list[i].mac
  BY <1>2 DEF Rows
<1>5. DOMAIN rows = 1..n
  BY DEF Rows
<1>6. {row.mac : row \in Range(rows)} = {e.mac : e \in Range(list)}
  <2>1. \A row \in Range(rows) : \E e \in Range(list) : row.mac = e.mac
    BY <1>3, <1>5 DEF Range
  <2>2. \A e \in Range(list) : \E row \in Range(rows) : row.mac = e.mac
    BY <1>4, <1>5 DEF Range
  <2>3. QED
    BY SMTT(30), <2>1, <2>2
<1>7. QED
  BY <1>3, <1>4, <1>6

\* The entries of a row are the entries of its device.
LEMMA RowOfDevice ==
  ASSUME NEW list \in Seq(Infos), NEW rows, NEW n \in Nat, NEW first \in Seq(Nat), NEW last \in Seq(Nat),
         Rows(list, rows, n, first, last), Separate(list, n, first), NEW k \in 1..n
  PROVE  /\ \A i \in DOMAIN list : list[i].mac = rows[k].mac <=> i \in first[k]..last[k]
         /\ \A i \in first[k]..last[k] : i \in DOMAIN list
<1>1. PICK size \in Nat : DOMAIN list = 1..size
  OBVIOUS
<1>2. \A l \in 1..n : /\ rows[l].mac = list[first[l]].mac
                      /\ first[l] \in 1..size /\ last[l] \in 1..size
                      /\ \A i \in first[l]..last[l] : list[i].mac = list[first[l]].mac
  BY <1>1 DEF Rows, Row
<1>3. \A i \in first[k]..last[k] : i \in 1..size /\ list[i].mac = rows[k].mac
  BY SMTT(30), <1>2
<1>4. ASSUME NEW i \in 1..size, list[i].mac = rows[k].mac
      PROVE  i \in first[k]..last[k]
  <2>1. PICK l \in 1..n : i \in first[l]..last[l]
    BY <1>1 DEF Rows
  <2>2. list[first[l]].mac = list[first[k]].mac
    BY <1>2, <1>4, <2>1
  <2>3. l = k
    BY <2>2 DEF Separate
  <2>4. QED
    BY <2>1, <2>3
<1>5. QED
  BY <1>1, <1>3, <1>4

LEMMA DeviceHasRow ==
  ASSUME NEW list \in Seq(Infos), Ordered(list), NEW rows, NEW n \in Nat,
         NEW first \in Seq(Nat), NEW last \in Seq(Nat),
         Rows(list, rows, n, first, last), Separate(list, n, first), NEW k \in 1..n
  PROVE  /\ Range(rows[k].ifaces) = {e.iface : e \in {d \in Range(list) : d.mac = rows[k].mac}}
         /\ IsInjective(rows[k].ifaces)
<1>1. PICK size \in Nat : DOMAIN list = 1..size /\ size = Len(list)
  OBVIOUS
<1>2. PICK c \in Nat : Spans(list, rows[k], first[k], last[k], c)
  BY RowsSpan
<1>3. PICK f \in Nat, l \in Nat : f = first[k] /\ l = last[k]
  BY <1>1, <1>2 DEF Spans
<1>4. /\ DOMAIN rows[k].ifaces = 1..(l - f + 1)
      /\ \A m \in 1..(l - f + 1) : rows[k].ifaces[m] = list[f + m - 1].iface
  BY <1>2, <1>3 DEF Spans
<1>5. {i \in 1..size : list[i].mac = rows[k].mac} = f..l
  <2>1. /\ \A i \in DOMAIN list : list[i].mac = rows[k].mac <=> i \in first[k]..last[k]
        /\ \A i \in first[k]..last[k] : i \in DOMAIN list
    BY RowOfDevice
  <2>2. QED
    BY <1>1, <1>3, <2>1
<1>6. \A m \in 1..(l - f + 1) : f + m - 1 \in f..l
  OBVIOUS
<1>7. \A i \in f..l : i - f + 1 \in 1..(l - f + 1) /\ f + (i - f + 1) - 1 = i
  OBVIOUS
<1>8. Range(rows[k].ifaces) = {e.iface : e \in {d \in Range(list) : d.mac = rows[k].mac}}
  <2>1. ASSUME NEW m \in 1..(l - f + 1)
        PROVE  \E d \in Range(list) : d.mac = rows[k].mac /\ d.iface = rows[k].ifaces[m]
    BY <1>1, <1>4, <1>5, <1>6 DEF Range
  <2>2. ASSUME NEW d \in Range(list), d.mac = rows[k].mac
        PROVE  \E m \in 1..(l - f + 1) : d.iface = rows[k].ifaces[m]
    <3>1. PICK i \in 1..size : d = list[i]
      BY <1>1 DEF Range
    <3>2. i \in f..l
      BY <1>5, <2>2, <3>1
    <3>3. PICK m \in 1..(l - f + 1) : f + m - 1 = i
      BY <1>7, <3>2
    <3>4. rows[k].ifaces[m] = list[i].iface
      BY <1>4, <3>3
    <3>5. QED
      BY <3>1, <3>4
  <2>3. Range(rows[k].ifaces) = {rows[k].ifaces[m] : m \in 1..(l - f + 1)}
    BY <1>4 DEF Range
  <2> DEFINE seen == {e.iface : e \in {d \in Range(list) : d.mac = rows[k].mac}}
  <2>4. \A x : x \in seen <=> \E d \in Range(list) : d.mac = rows[k].mac /\ d.iface = x
    OBVIOUS
  <2>5. \A x : x \in Range(rows[k].ifaces) <=> \E m \in 1..(l - f + 1) : rows[k].ifaces[m] = x
    BY <2>3
  <2> HIDE DEF seen
  <2>6. Range(rows[k].ifaces) = seen
    BY <2>1, <2>2, <2>4, <2>5
  <2>7. QED
    BY <2>6 DEF seen
<1>9. IsInjective(rows[k].ifaces)
  <2>1. SUFFICES ASSUME NEW a \in 1..(l - f + 1), NEW b \in 1..(l - f + 1), a < b
                 PROVE  rows[k].ifaces[a] # rows[k].ifaces[b]
    <3>1. \A a, b \in 1..(l - f + 1) : a < b => rows[k].ifaces[a] # rows[k].ifaces[b]
      BY <2>1
    <3>2. \A a, b \in 1..(l - f + 1) : a = b \/ a < b \/ b < a
      OBVIOUS
    <3>3. QED
      BY <1>4, <3>1, <3>2 DEF IsInjective
  <2>2. PICK i \in f..l, j \in f..l : i = f + a - 1 /\ j = f + b - 1
    BY <1>6
  <2>3. i < j
    BY <2>1, <2>2
  <2>4. i \in 1..size /\ j \in 1..size /\ list[i].mac = list[j].mac
    BY <1>5
  <2>5. Less(list[i], list[j]) /\ list[i] \in Infos /\ list[j] \in Infos
    BY SMTT(30), <1>1, <2>3, <2>4 DEF Ordered
  <2>6. ~SameEntry(list[i], list[j])
    BY <2>5, LessOrders
  <2>7. QED
    BY <1>4, <2>2, <2>4, <2>6 DEF SameEntry
<1>10. QED
  BY <1>8, <1>9

\* No entry is on the list twice.
LEMMA OrderedHasNoDuplicates ==
  ASSUME NEW list \in Seq(Infos), Ordered(list)
  PROVE  Cardinality({<<e.mac, e.iface>> : e \in Range(list)}) = Len(list)
<1>1. PICK size \in Nat : size = Len(list) /\ DOMAIN list = 1..size
  OBVIOUS
<1> DEFINE T == {<<e.mac, e.iface>> : e \in Range(list)}
           g == [i \in 1..size |-> <<list[i].mac, list[i].iface>>]
<1>2. g \in [1..size -> T] /\ \A t \in T : \E i \in 1..size : g[i] = t
  BY <1>1 DEF Range
<1>3. ASSUME NEW i \in 1..size, NEW j \in 1..size, i < j
      PROVE  g[i] # g[j]
  <2>1. Less(list[i], list[j]) /\ list[i] \in Infos /\ list[j] \in Infos
    BY <1>1, <1>3 DEF Ordered
  <2>2. ~SameEntry(list[i], list[j])
    BY <2>1, LessOrders
  <2>3. QED
    BY <2>2 DEF SameEntry
<1>4. IsInjective(g)
  <2>1. \A i, j \in 1..size : i < j => g[i] # g[j]
    BY <1>3
  <2>2. \A i, j \in 1..size : i = j \/ i < j \/ j < i
    OBVIOUS
  <2>3. DOMAIN g = 1..size
    OBVIOUS
  <2> HIDE DEF g
  <2>4. QED
    BY <2>1, <2>2, <2>3 DEF IsInjective
<1> HIDE DEF g, T
<1>5. g \in Bijection(1..size, T)
  BY <1>2, <1>4 DEF Bijection, Injection, Surjection
<1>6. IsFiniteSet(1..size) /\ Cardinality(1..size) = size
  BY FS_Interval
<1>7. Cardinality(T) = size
  BY <1>5, <1>6, FS_Bijection DEF ExistsBijection
<1>8. QED
  BY <1>1, <1>7 DEF T

-----------------------------------------------------------------------------
(* The invariant                                                           *)

\* What is on the lists, and what is printed.
ListsInv ==
  /\ infos \in Seq(Infos)
  /\ devices \in Seq(Infos) /\ Ordered(devices)
  /\ table = << >> \/ table = Printed(devices, options.short)

\* Where the program is and what it has not done yet.
StageInv ==
  /\ {"yes", "short", "addresses"} \subseteq DOMAIN options
  /\ options.short \in BOOLEAN /\ options.yes \in BOOLEAN
  /\ options.short => command = "ls"
  /\ pc = "dispatch" => command = "none"
  /\ pc \in {"dispatch", "operation", "options", "check", "ask", "collect"} => devices = << >> /\ table = << >>
  /\ pc \in {"dispatch", "operation", "options", "check", "ask", "collect", "confirm"} => acted = << >>
  /\ pc # "exited" => code = "none"

\* The selection has been shown to be acted on.
Proposed == pc \in {"confirm", "act"} \/ acted # << >> \/ code = "Done"

\* What is sent is what follows from the list that was shown and agreed to.
OrdersInv ==
  /\ Proposed => command \in {"forceip", "reset", "reconnect"} /\ table = Printed(devices, FALSE)
  /\ Proposed /\ command = "forceip" => Len(devices) = 1
  /\ pc = "act" \/ acted # << >> => agreed
  /\ \E n \in 0..Len(devices) : acted = [i \in 1..n |-> CommandFor(devices[i])]
  /\ code = "Done" => Len(acted) = Len(devices)
  /\ (Proposed \/ pc \in {"ask", "collect"}) /\ command = "forceip" =>
       options.addresses = <<args[1].fields, args[2].fields, args[3].fields>>

Reading == Dispatch \/ Operation \/ Option \/ CheckArguments

\* What the options that have been read are.
OptionsRead(o, c) ==
  /\ {"yes", "short", "addresses"} \subseteq DOMAIN o
  /\ o.short \in BOOLEAN /\ o.yes \in BOOLEAN
  /\ o.short => c = "ls"

\* The command line is read before anything else is done.
LEMMA ReadingEffect ==
  ASSUME StageInv, Reading
  PROVE  /\ pc \in {"dispatch", "operation", "options", "check"}
         /\ UNCHANGED later
         /\ pc' \in {"operation", "options", "check", "ask", "exited"}
         /\ pc' # "exited" => code' = "none"
         /\ code' \in {"none", "0", "1"}
         /\ OptionsRead(options', command')
         /\ pc' = "ask" /\ command' = "forceip" =>
              options'.addresses = <<args'[1].fields, args'[2].fields, args'[3].fields>>
<1>1. OptionsRead(options, command)
  BY DEF StageInv, OptionsRead
<1>2. CASE Dispatch
  <2>1. pc = "dispatch" /\ command = "none" /\ options' = options
    BY <1>2 DEF Dispatch, StageInv
  <2>2. UNCHANGED later
    BY <1>2 DEF Dispatch, later
  <2>3. code = "none"
    BY <2>1 DEF StageInv
  <2>4. pc' \in {"operation", "options", "exited"} /\ code' \in {"none", "0", "1"}
        /\ (pc' # "exited" => code' = "none")
    BY <1>2, <2>3 DEF Dispatch, Exit, GoTo
  <2>5. OptionsRead(options', command')
    BY <1>1, <2>1 DEF OptionsRead
  <2>6. QED
    BY <2>1, <2>2, <2>4, <2>5
<1>3. CASE Operation
  <2>1. pc = "operation" /\ command' = command
    BY <1>3 DEF Operation
  <2>2. UNCHANGED later
    BY <1>3 DEF Operation, later
  <2>3. code = "none"
    BY <2>1 DEF StageInv
  <2>4. pc' \in {"options", "exited"} /\ code' \in {"none", "0", "1"}
        /\ (pc' # "exited" => code' = "none")
    BY <1>3, <2>3 DEF Operation, Exit, GoTo
  <2>5. options' = options \/ options' = [options EXCEPT !.op = NextWord]
    BY <1>3 DEF Operation
  <2>6. OptionsRead(options', command')
    BY <1>1, <2>1, <2>5 DEF OptionsRead
  <2>7. QED
    BY <2>1, <2>2, <2>4, <2>6
<1>4. CASE Option
  <2>1. pc = "options" /\ command' = command
    BY <1>4 DEF Option
  <2>2. UNCHANGED later
    BY <1>4 DEF Option, later
  <2>3. code = "none"
    BY <2>1 DEF StageInv
  <2>4. ASSUME FilterOption \/ HelpOption \/ EndOfOptions \/ (\E known : WrongOption(known))
        PROVE  /\ pc' \in {"options", "check", "exited"} /\ code' \in {"none", "0", "1"}
               /\ pc' # "exited" => code' = "none"
               /\ OptionsRead(options', command')
    <3>1. /\ pc' \in {"options", "check", "exited"} /\ code' \in {"none", "0", "1"}
          /\ pc' # "exited" => code' = "none"
      BY <2>3, <2>4 DEF FilterOption, HelpOption, EndOfOptions, WrongOption, Exit, GoTo
    <3>2. \/ options' = options
          \/ options' = [options EXCEPT !.filter[args[2].key] = Append(@, args[2].pattern)]
      BY <2>4 DEF FilterOption, HelpOption, EndOfOptions, WrongOption
    <3>3. OptionsRead(options', command')
      BY <1>1, <2>1, <3>2 DEF OptionsRead
    <3>4. QED
      BY <3>1, <3>3
  <2>5. ASSUME YesOption \/ (command = "ls" /\ ShortOption)
        PROVE  /\ pc' = "options" /\ code' = "none"
               /\ OptionsRead(options', command')
    <3>1. pc' = "options" /\ code' = "none"
      BY <2>3, <2>5 DEF YesOption, ShortOption, GoTo
    <3>2. \/ options' = [options EXCEPT !.yes = TRUE]
          \/ command = "ls" /\ options' = [options EXCEPT !.short = TRUE]
      BY <2>5 DEF YesOption, ShortOption
    <3>3. OptionsRead(options', command')
      BY <1>1, <2>1, <3>2 DEF OptionsRead
    <3>4. QED
      BY <3>1, <3>3
  <2>6. \/ FilterOption \/ HelpOption \/ EndOfOptions \/ (\E known : WrongOption(known))
        \/ YesOption \/ (command = "ls" /\ ShortOption)
    BY <1>4 DEF Option, EndOfWords, LsOption, ForceIPOption, ResetOption, ReconnectOption
  <2>7. QED
    BY <2>1, <2>2, <2>4, <2>5, <2>6
<1>5. CASE CheckArguments
  <2>1. pc = "check" /\ command' = command /\ args' = args
    BY <1>5 DEF CheckArguments
  <2>2. UNCHANGED later
    BY <1>5 DEF CheckArguments, later
  <2>3. code = "none"
    BY <2>1 DEF StageInv
  <2>4. pc' \in {"ask", "exited"} /\ code' \in {"none", "0", "1"} /\ (pc' # "exited" => code' = "none")
    BY <1>5, <2>3 DEF CheckArguments, Exit, GoTo
  <2>5. PICK addresses : /\ options' = [options EXCEPT !.addresses = addresses]
                         /\ command = "forceip" => addresses = ForceIPArguments
    BY <1>5 DEF CheckArguments
  <2>6. OptionsRead(options', command')
    BY <1>1, <2>1, <2>5 DEF OptionsRead
  <2>7. ASSUME pc' = "ask", command' = "forceip"
        PROVE  options'.addresses = <<args'[1].fields, args'[2].fields, args'[3].fields>>
    <3>1. ForceIPArguments # << >>
      BY <1>5, <2>1, <2>7 DEF CheckArguments, Exit
    <3>2. ForceIPArguments = <<args[1].fields, args[2].fields, args[3].fields>>
      BY <3>1 DEF ForceIPArguments
    <3>3. options'.addresses = ForceIPArguments
      BY <1>1, <2>1, <2>5, <2>7 DEF OptionsRead
    <3>4. QED
      BY <2>1, <3>2, <3>3
  <2>8. QED
    BY <2>1, <2>2, <2>4, <2>6, <2>7
<1>6. QED
  BY <1>2, <1>3, <1>4, <1>5 DEF Reading

-----------------------------------------------------------------------------
(* Every step keeps it                                                     *)

CliInv == ListsInv /\ StageInv /\ OrdersInv

\* As long as nothing has been proposed there is nothing to keep of the orders
\* but the addresses.
LEMMA NothingSent ==
  ASSUME acted' = << >>, devices' \in Seq(Infos), pc' \notin {"confirm", "act"}, code' # "Done",
         pc' \in {"ask", "collect"} /\ command' = "forceip" =>
           options'.addresses = <<args'[1].fields, args'[2].fields, args'[3].fields>>
  PROVE  OrdersInv'
<1>1. ~Proposed'
  BY DEF Proposed
<1>2. PICK size \in Nat : size = Len(devices')
  OBVIOUS
<1>3. 0 \in 0..Len(devices')
  BY <1>2
<1>4. acted' = [i \in 1..0 |-> CommandFor(devices[i])']
  OBVIOUS
<1>5. QED
  BY <1>1, <1>3, <1>4 DEF OrdersInv

LEMMA SentIsKept ==
  ASSUME OrdersInv, UNCHANGED <<command, options, devices, acted>>
  PROVE  \E n \in 0..Len(devices') : acted' = [i \in 1..n |-> CommandFor(devices[i])']
<1>1. \A d : CommandFor(d)' = CommandFor(d)
  BY DEF CommandFor, ForceIP, Reset, Reconnect
<1>2. PICK n \in 0..Len(devices) : acted = [i \in 1..n |-> CommandFor(devices[i])]
  BY DEF OrdersInv
<1>3. \A i : CommandFor(devices[i])' = CommandFor(devices[i])
  BY <1>1
<1>4. QED
  BY <1>2, <1>3

LEMMA OrdersAreKept ==
  ASSUME OrdersInv, UNCHANGED <<pc, args, command, options, devices, table, agreed, acted, code>>
  PROVE  OrdersInv'
<1>1. \E n \in 0..Len(devices') : acted' = [i \in 1..n |-> CommandFor(devices[i])']
  BY SentIsKept
<1>2. QED
  BY <1>1 DEF OrdersInv, Proposed

LEMMA InitInv ==
  ASSUME Init
  PROVE  CliInv
<1>1. ListsInv
  BY DEF Init, ListsInv, Ordered
<1>2. StageInv
  BY DEF Init, StageInv
<1>3. OrdersInv
  <2>1. acted = [i \in 1..0 |-> CommandFor(devices[i])] /\ 0 \in 0..Len(devices)
    BY DEF Init
  <2>2. QED
    BY <2>1 DEF Init, OrdersInv, Proposed
<1>4. QED
  BY <1>1, <1>2, <1>3 DEF CliInv

LEMMA ReadingKeeps ==
  ASSUME CliInv, Reading
  PROVE  CliInv'
<1>1. /\ pc \in {"dispatch", "operation", "options", "check"}
      /\ UNCHANGED <<infos, devices, table, agreed, acted>>
      /\ pc' \in {"operation", "options", "check", "ask", "exited"}
      /\ pc' # "exited" => code' = "none"
      /\ code' \in {"none", "0", "1"}
      /\ OptionsRead(options', command')
      /\ pc' = "ask" /\ command' = "forceip" =>
           options'.addresses = <<args'[1].fields, args'[2].fields, args'[3].fields>>
  BY ReadingEffect DEF CliInv, later
<1>2. devices = << >> /\ table = << >> /\ acted = << >>
  BY <1>1 DEF CliInv, StageInv
<1>3. ListsInv'
  BY <1>1, <1>2 DEF CliInv, ListsInv
<1>4. StageInv'
  BY <1>1, <1>2 DEF StageInv, OptionsRead
<1>5. OrdersInv'
  <2>1. devices' \in Seq(Infos) /\ acted' = << >>
    BY <1>1, <1>2
  <2>2. QED
    BY <1>1, <2>1, NothingSent
<1>6. QED
  BY <1>3, <1>4, <1>5 DEF CliInv

LEMMA AskKeeps ==
  ASSUME CliInv, Ask
  PROVE  CliInv'
<1>1. /\ pc = "ask" /\ pc' \in {"collect", "aborted"} /\ code' = code
      /\ UNCHANGED <<args, command, options, infos, devices, table, agreed, acted>>
  BY DEF Ask, GoTo
<1>2. devices = << >> /\ table = << >> /\ acted = << >> /\ code = "none"
  BY <1>1 DEF CliInv, StageInv
<1>3. ListsInv'
  BY <1>1, <1>2 DEF CliInv, ListsInv
<1>4. StageInv'
  BY <1>1, <1>2 DEF CliInv, StageInv
<1>5. OrdersInv'
  <2>1. /\ devices' \in Seq(Infos) /\ acted' = << >> /\ code' = "none"
        /\ command' = "forceip" => options'.addresses = <<args'[1].fields, args'[2].fields, args'[3].fields>>
    BY <1>1, <1>2 DEF CliInv, OrdersInv
  <2>2. QED
    BY <1>1, <2>1, NothingSent
<1>6. QED
  BY <1>3, <1>4, <1>5 DEF CliInv

LEMMA HearKeeps ==
  ASSUME CliInv, Hear
  PROVE  CliInv'
<1>1. pc = "collect" /\ UNCHANGED <<pc, args, command, options, devices, table, agreed, acted, code>>
  BY DEF Hear
<1>2. infos' \in Seq(Infos)
  <2>1. PICK e \in Entries, len \in Lengths : infos' = Append(infos, DeviceInfo(e, len))
    BY DEF Hear
  <2>2. DeviceInfo(e, len) \in Infos
    BY DEF Infos
  <2>3. infos \in Seq(Infos)
    BY DEF CliInv, ListsInv
  <2>4. QED
    BY <2>1, <2>2, <2>3
<1>3. ListsInv'
  BY <1>1, <1>2 DEF CliInv, ListsInv
<1>4. StageInv'
  BY <1>1 DEF CliInv, StageInv
<1>5. OrdersInv'
  BY <1>1, OrdersAreKept DEF CliInv
<1>6. QED
  BY <1>3, <1>4, <1>5 DEF CliInv

\* What is shown is the selection, and a command that acts goes on with it only
\* if there are not more entries than will do.
LEMMA ShowEffect ==
  ASSUME CliInv, pc = "collect", NEW enough, ShowOrLeave(enough)
  PROVE  /\ devices' \in Seq(Infos) /\ Ordered(devices')
         /\ table' = << >> \/ table' = Printed(devices', FALSE)
         /\ \/ pc' = "exited" /\ code' = "0"
            \/ /\ pc' \in {"confirm", "act"} /\ code' = "none"
               /\ pc' = "act" => agreed'
               /\ devices' # << >> /\ ~(Len(devices') > enough)
               /\ table' = Printed(devices', FALSE)
<1>1. infos \in Seq(Infos) /\ table = << >> /\ code = "none" /\ options.yes \in BOOLEAN
  BY DEF CliInv, ListsInv, StageInv
<1>2. devices' \in Seq(Infos) /\ Ordered(devices')
  BY <1>1, SelectionIsOrdered DEF ShowOrLeave
<1>3. table' = << >> \/ table' = Printed(devices', FALSE)
  BY <1>1 DEF ShowOrLeave
<1>4. \/ pc' = "exited" /\ code' = "0"
      \/ /\ pc' \in {"confirm", "act"} /\ code' = "none"
         /\ pc' = "act" => agreed'
         /\ devices' # << >> /\ ~(Len(devices') > enough)
         /\ table' = Printed(devices', FALSE)
  <2>1. CASE devices' = << >> \/ Len(devices') > enough
    BY <2>1 DEF ShowOrLeave, Exit
  <2>2. CASE ~(devices' = << >> \/ Len(devices') > enough)
    <3>1. /\ table' = Printed(devices', FALSE)
          /\ agreed' = options.yes
          /\ pc' = IF options.yes THEN "act" ELSE "confirm"
          /\ code' = code
      BY <2>2 DEF ShowOrLeave, GoTo
    <3>2. QED
      BY <1>1, <2>2, <3>1
  <2>3. QED
    BY <2>1, <2>2
<1>5. QED
  BY <1>2, <1>3, <1>4

LEMMA ActingSelectKeeps ==
  ASSUME CliInv, pc = "collect", UNCHANGED <<args, command, options, infos, acted>>,
         command \in {"forceip", "reset", "reconnect"},
         NEW enough, ShowOrLeave(enough), command = "forceip" => enough = 1
  PROVE  CliInv'
<1>1. /\ devices' \in Seq(Infos) /\ Ordered(devices')
      /\ table' = << >> \/ table' = Printed(devices', FALSE)
      /\ \/ pc' = "exited" /\ code' = "0"
         \/ /\ pc' \in {"confirm", "act"} /\ code' = "none"
            /\ pc' = "act" => agreed'
            /\ devices' # << >> /\ ~(Len(devices') > enough)
            /\ table' = Printed(devices', FALSE)
  BY ShowEffect
<1>2. /\ acted = << >> /\ infos \in Seq(Infos) /\ options.short = FALSE
      /\ command = "forceip" => options.addresses = <<args[1].fields, args[2].fields, args[3].fields>>
  BY DEF CliInv, ListsInv, StageInv, OrdersInv
<1>3. ListsInv'
  BY <1>1, <1>2 DEF ListsInv
<1>4. StageInv'
  BY <1>1, <1>2 DEF CliInv, StageInv
<1>5. CASE pc' = "exited" /\ code' = "0"
  <2>1. acted' = << >> /\ devices' \in Seq(Infos)
    BY <1>1, <1>2
  <2>2. OrdersInv'
    BY <1>5, <2>1, NothingSent
  <2>3. QED
    BY <1>3, <1>4, <2>2 DEF CliInv
<1>6. CASE pc' \in {"confirm", "act"} /\ code' = "none"
  <2>1. PICK size \in Nat : size = Len(devices')
    BY <1>1
  <2>2. size > 0
    BY <1>1, <1>6, <2>1
  <2>3. command = "forceip" => size = 1
    <3>1. SUFFICES ASSUME command = "forceip" PROVE size = 1
      OBVIOUS
    <3>2. ~(size > 1)
      BY <1>1, <1>6, <2>1, <3>1
    <3>3. QED
      BY <2>2, <3>2
  <2>4. acted' = [i \in 1..0 |-> CommandFor(devices[i])']
    BY <1>2
  <2>5. 0 \in 0..Len(devices')
    BY <2>1
  <2>6. \E n \in 0..Len(devices') : acted' = [i \in 1..n |-> CommandFor(devices[i])']
    BY <2>4, <2>5
  <2>7. OrdersInv'
    BY <1>1, <1>2, <1>6, <2>1, <2>3, <2>6 DEF OrdersInv
  <2>8. QED
    BY <1>3, <1>4, <2>7 DEF CliInv
<1>7. QED
  BY <1>1, <1>5, <1>6

LEMMA SelectKeeps ==
  ASSUME CliInv, Select
  PROVE  CliInv'
<1>1. pc = "collect" /\ UNCHANGED <<args, command, options, infos, acted>>
  BY DEF Select
<1>2. /\ acted = << >> /\ table = << >> /\ infos \in Seq(Infos) /\ devices \in Seq(Infos)
      /\ Ordered(devices) /\ code = "none"
  BY <1>1 DEF CliInv, ListsInv, StageInv
<1>3. CASE command = "ls" /\ LsShows
  <2>1. devices' \in Seq(Infos) /\ Ordered(devices')
    BY <1>2, <1>3, SelectionIsOrdered DEF LsShows
  <2>2. table' = Printed(devices', options.short) /\ pc' = "exited" /\ code' = "0"
    BY <1>3 DEF LsShows, Exit
  <2>3. ListsInv'
    BY <1>1, <1>2, <2>1, <2>2 DEF ListsInv
  <2>4. StageInv'
    BY <1>1, <1>3, <2>2 DEF CliInv, StageInv
  <2>5. OrdersInv'
    <3>1. acted' = << >>
      BY <1>1, <1>2
    <3>2. QED
      BY <2>1, <2>2, <3>1, NothingSent
  <2>6. QED
    BY <2>3, <2>4, <2>5 DEF CliInv
<1>4. CASE command = "forceip" /\ ForceIPShows
  BY <1>1, <1>4, ActingSelectKeeps DEF ForceIPShows
<1>5. CASE command = "reset" /\ ResetShows
  BY <1>1, <1>5, ActingSelectKeeps DEF ResetShows
<1>6. CASE command = "reconnect" /\ ReconnectShows
  BY <1>1, <1>6, ActingSelectKeeps DEF ReconnectShows
<1>7. CASE GoTo("aborted") /\ UNCHANGED <<devices, table, agreed>>
  <2>1. pc' = "aborted" /\ code' = "none" /\ UNCHANGED <<devices, table>>
    BY <1>2, <1>7 DEF GoTo
  <2>2. ListsInv'
    BY <1>1, <1>2, <2>1 DEF ListsInv
  <2>3. StageInv'
    BY <1>1, <2>1 DEF CliInv, StageInv
  <2>4. OrdersInv'
    <3>1. acted' = << >> /\ devices' \in Seq(Infos)
      BY <1>1, <1>2, <2>1
    <3>2. QED
      BY <2>1, <3>1, NothingSent
  <2>5. QED
    BY <2>2, <2>3, <2>4 DEF CliInv
<1>8. QED
  BY <1>3, <1>4, <1>5, <1>6, <1>7 DEF Select

LEMMA ConfirmKeeps ==
  ASSUME CliInv, Confirm
  PROVE  CliInv'
<1>1. pc = "confirm" /\ UNCHANGED <<args, command, options, infos, devices, table, acted>>
  BY DEF Confirm
<1>2. acted = << >> /\ code = "none" /\ Proposed
  BY <1>1 DEF CliInv, StageInv, Proposed
<1>3. \/ pc' = "act" /\ code' = "none" /\ agreed' = TRUE
      \/ pc' = "exited" /\ code' = "0"
  BY <1>2 DEF Confirm, GoTo, Exit
<1>4. ListsInv'
  BY <1>1 DEF CliInv, ListsInv
<1>5. StageInv'
  BY <1>1, <1>2, <1>3 DEF CliInv, StageInv
<1>6. CASE pc' = "exited" /\ code' = "0"
  <2>1. acted' = << >> /\ devices' \in Seq(Infos)
    BY <1>1, <1>2 DEF CliInv, ListsInv
  <2>2. OrdersInv'
    BY <1>6, <2>1, NothingSent
  <2>3. QED
    BY <1>4, <1>5, <2>2 DEF CliInv
<1>7. CASE pc' = "act" /\ code' = "none" /\ agreed' = TRUE
  <2>1. \E n \in 0..Len(devices') : acted' = [i \in 1..n |-> CommandFor(devices[i])']
    BY <1>1, SentIsKept DEF CliInv
  <2>2. OrdersInv'
    BY <1>1, <1>2, <1>7, <2>1 DEF CliInv, OrdersInv
  <2>3. QED
    BY <1>4, <1>5, <2>2 DEF CliInv
<1>8. QED
  BY <1>3, <1>6, <1>7

LEMMA ActKeeps ==
  ASSUME CliInv, Act
  PROVE  CliInv'
<1>1. pc = "act" /\ UNCHANGED <<args, command, options, infos, devices, table, agreed>>
  BY DEF Act
<1>2. /\ code = "none" /\ Proposed /\ agreed
      /\ devices \in Seq(Infos)
  BY <1>1 DEF CliInv, ListsInv, StageInv, OrdersInv, Proposed
<1>3. PICK n \in 0..Len(devices) : acted = [i \in 1..n |-> CommandFor(devices[i])]
  BY DEF CliInv, OrdersInv
<1>4. PICK size \in Nat : size = Len(devices)
  BY <1>2
<1>5. n \in Nat /\ n <= size /\ Len(acted) = n
  BY <1>3, <1>4
<1>6. \/ n < size /\ acted' = Append(acted, CommandFor(devices[n + 1])) /\ pc' = "act" /\ code' = "none"
      \/ acted' = acted /\ pc' = "aborted" /\ code' = "none"
      \/ n = size /\ acted' = acted /\ pc' = "exited" /\ code' = "Done"
  BY <1>2, <1>4, <1>5 DEF Act, GoTo, Exit
<1>7. ListsInv'
  BY <1>1 DEF CliInv, ListsInv
<1>8. StageInv'
  BY <1>1, <1>6 DEF CliInv, StageInv
<1>9. PICK m \in 0..size :
        acted' = [i \in 1..m |-> CommandFor(devices[i])] /\ (code' = "Done" => m = size)
  <2>1. CASE acted' = acted
    BY <1>3, <1>4, <1>5, <1>6, <2>1
  <2>2. CASE n < size /\ acted' = Append(acted, CommandFor(devices[n + 1])) /\ code' = "none"
    <3>1. PICK S : \A i \in 1..(n + 1) : CommandFor(devices[i]) \in S
      <4>1. \A i \in 1..(n + 1) : CommandFor(devices[i]) \in {CommandFor(devices[j]) : j \in 1..(n + 1)}
        OBVIOUS
      <4>2. QED
        BY <4>1
    <3>2. acted \in Seq(S)
      BY <1>3, <1>5, <3>1
    <3>3. acted' = [i \in 1..(n + 1) |-> CommandFor(devices[i])]
      BY <1>3, <1>5, <2>2, <3>1, <3>2
    <3>4. n + 1 \in 0..size
      BY <1>5, <2>2
    <3>5. QED
      BY <2>2, <3>3, <3>4
  <2>3. QED
    BY <1>6, <2>1, <2>2
<1>10. \A d : CommandFor(d)' = CommandFor(d)
  BY <1>1 DEF CommandFor, ForceIP, Reset, Reconnect
<1>11. \E k \in 0..Len(devices') : acted' = [i \in 1..k |-> CommandFor(devices[i])']
  BY <1>1, <1>4, <1>9, <1>10
<1>12. code' = "Done" => Len(acted') = Len(devices')
  <2>1. Len(acted') = m
    BY <1>9
  <2>2. QED
    BY <1>1, <1>4, <1>9, <2>1
<1>13. OrdersInv'
  BY <1>1, <1>2, <1>11, <1>12 DEF CliInv, OrdersInv
<1>14. QED
  BY <1>7, <1>8, <1>13 DEF CliInv

LEMMA StutterKeeps ==
  ASSUME CliInv, UNCHANGED vars
  PROVE  CliInv'
<1>1. UNCHANGED <<pc, args, command, options, asked, infos, devices, table, agreed, acted, code>>
  BY DEF vars
<1>2. ListsInv'
  BY <1>1 DEF CliInv, ListsInv
<1>3. StageInv'
  BY <1>1 DEF CliInv, StageInv
<1>4. OrdersInv'
  BY <1>1, OrdersAreKept DEF CliInv
<1>5. QED
  BY <1>2, <1>3, <1>4 DEF CliInv

LEMMA NextKeeps ==
  ASSUME CliInv, [Next]_vars
  PROVE  CliInv'
<1>1. CASE Reading
  BY <1>1, ReadingKeeps
<1>2. CASE Ask
  BY <1>2, AskKeeps
<1>3. CASE Hear
  BY <1>3, HearKeeps
<1>4. CASE Select
  BY <1>4, SelectKeeps
<1>5. CASE Confirm
  BY <1>5, ConfirmKeeps
<1>6. CASE Act
  BY <1>6, ActKeeps
<1>7. CASE UNCHANGED vars
  BY <1>7, StutterKeeps
<1>8. QED
  BY <1>1, <1>2, <1>3, <1>4, <1>5, <1>6, <1>7 DEF Next, Reading

LEMMA InvHolds == Spec => []CliInv
<1>1. Init => CliInv
  BY InitInv
<1>2. CliInv /\ [Next]_vars => CliInv'
  BY NextKeeps
<1>3. QED
  BY <1>1, <1>2, PTL DEF Spec

-----------------------------------------------------------------------------
(* The properties                                                          *)

LEMMA TableIsRows ==
  ASSUME ListsInv, options.short \in BOOLEAN, table # << >>
  PROVE  \E n \in Nat, first, last \in Seq(Nat) :
           /\ Rows(devices, table, n, first, last)
           /\ options.short => n = Len(devices)
           /\ ~options.short => Separate(devices, n, first)
  BY PrintedRows DEF ListsInv

LEMMA OneRow == CliInv => OneRowPerDevice
<1> SUFFICES ASSUME CliInv, table # << >> PROVE OneRowPerDevice
  BY DEF OneRowPerDevice
<1>1. ListsInv /\ options.short \in BOOLEAN /\ devices \in Seq(Infos) /\ Ordered(devices)
  BY DEF CliInv, ListsInv, StageInv
<1>2. PICK n \in Nat, first \in Seq(Nat), last \in Seq(Nat) :
        /\ Rows(devices, table, n, first, last)
        /\ options.short => n = Len(devices)
        /\ ~options.short => Separate(devices, n, first)
  BY <1>1, TableIsRows
<1>3. DOMAIN table = 1..n /\ Len(table) = n
  BY <1>2 DEF Rows
<1>4. CASE options.short
  <2>1. Len(table) = Cardinality({<<e.mac, e.iface>> : e \in Range(devices)})
    BY <1>1, <1>2, <1>3, <1>4, OrderedHasNoDuplicates
  <2>2. QED
    BY <1>4, <2>1 DEF OneRowPerDevice
<1>5. CASE ~options.short
  <2>1. Separate(devices, n, first)
    BY <1>2, <1>5
  <2>2. {row.mac : row \in Range(table)} = {e.mac : e \in Range(devices)}
    BY <1>1, <1>2, RowsShowDevices
  <2>3. \A i, j \in DOMAIN table : i # j => table[i].mac # table[j].mac
    <3>1. ASSUME NEW k \in 1..n PROVE table[k].mac = devices[first[k]].mac
      <4>1. PICK c \in Nat : Spans(devices, table[k], first[k], last[k], c)
        BY <1>1, <1>2, RowsSpan
      <4>2. QED
        BY <4>1 DEF Spans
    <3>2. QED
      BY <1>3, <2>1, <3>1 DEF Separate
  <2>4. ASSUME NEW row \in Range(table)
        PROVE  /\ Range(row.ifaces) = {e.iface : e \in {d \in Range(devices) : d.mac = row.mac}}
               /\ IsInjective(row.ifaces)
    <3>1. PICK k \in 1..n : row = table[k]
      BY <1>3 DEF Range
    <3>2. /\ Range(table[k].ifaces) = {e.iface : e \in {d \in Range(devices) : d.mac = table[k].mac}}
          /\ IsInjective(table[k].ifaces)
      BY <1>1, <1>2, <2>1, DeviceHasRow
    <3>3. QED
      BY <3>1, <3>2
  <2>5. QED
    BY <1>5, <2>2, <2>3, <2>4 DEF OneRowPerDevice
<1>6. QED
  BY <1>1, <1>4, <1>5

\* The command for an entry goes to its device.
LEMMA CommandGoesToDevice ==
  ASSUME command \in {"forceip", "reset", "reconnect"}, NEW d
  PROVE  CommandFor(d).to = d.mac
  BY DEF CommandFor, ForceIP, Reset, Reconnect

LEMMA Agreed == CliInv => OnlyWhatWasAgreed
<1> SUFFICES ASSUME CliInv PROVE OnlyWhatWasAgreed
  OBVIOUS
<1>1. ListsInv /\ options.short \in BOOLEAN /\ devices \in Seq(Infos) /\ Ordered(devices)
  BY DEF CliInv, ListsInv, StageInv
<1>2. PICK size \in Nat : size = Len(devices) /\ DOMAIN devices = 1..size
  BY <1>1
<1>3. PICK m \in 0..size : acted = [i \in 1..m |-> CommandFor(devices[i])]
  BY <1>2 DEF CliInv, OrdersInv
<1>4. m \in Nat /\ m <= size /\ Len(acted) = m /\ DOMAIN acted = 1..m
  BY <1>2, <1>3
<1>5. acted # << >> => m > 0
  BY <1>3, <1>4
<1>6. m > 0 => Proposed
  <2>1. m > 0 => acted # << >>
    BY <1>4
  <2>2. QED
    BY <2>1 DEF Proposed
<1>7. Proposed =>
        /\ command \in {"forceip", "reset", "reconnect"}
        /\ table = Printed(devices, FALSE)
  BY DEF CliInv, OrdersInv
<1>8. \A i \in 1..m : acted[i].to = devices[i].mac /\ i \in 1..size
  <2>1. SUFFICES ASSUME NEW i \in 1..m PROVE acted[i].to = devices[i].mac /\ i \in 1..size
    OBVIOUS
  <2>2. m > 0 /\ i \in 1..size
    BY <1>4
  <2>3. command \in {"forceip", "reset", "reconnect"}
    BY <1>6, <1>7, <2>2
  <2>4. acted[i] = CommandFor(devices[i])
    BY <1>3
  <2>5. QED
    BY <2>2, <2>3, <2>4, CommandGoesToDevice
<1>9. acted # << >> => agreed
  BY DEF CliInv, OrdersInv
<1>10. code = "Done" => Proposed /\ m = size
  BY <1>2, <1>4 DEF CliInv, OrdersInv, Proposed
<1>11. ASSUME Proposed
       PROVE  \E n \in Nat, first, last \in Seq(Nat) :
                Rows(devices, table, n, first, last) /\ Separate(devices, n, first)
  <2>1. table = Printed(devices, FALSE)
    BY <1>7, <1>11
  <2>2. \E n \in Nat, first, last \in Seq(Nat) :
          /\ Rows(devices, table, n, first, last)
          /\ FALSE => n = Len(devices)
          /\ ~FALSE => Separate(devices, n, first)
    BY <1>1, <2>1, PrintedRows
  <2>3. QED
    BY <2>2
<1>12. \A i \in DOMAIN acted : acted[i].to \in {row.mac : row \in Range(table)}
  <2>1. SUFFICES ASSUME NEW i \in 1..m PROVE acted[i].to \in {row.mac : row \in Range(table)}
    BY <1>4
  <2>2. Proposed
    BY <1>4, <1>6
  <2>3. PICK n \in Nat, first \in Seq(Nat), last \in Seq(Nat) : Rows(devices, table, n, first, last)
    BY <1>11, <2>2
  <2>4. {row.mac : row \in Range(table)} = {e.mac : e \in Range(devices)}
    BY <1>1, <2>3, RowsShowDevices
  <2>5. devices[i] \in Range(devices)
    BY <1>2, <1>8 DEF Range
  <2>6. QED
    BY <1>8, <2>4, <2>5
<1>13. ASSUME NEW row \in Range(table)
       PROVE  LET sent == {i \in DOMAIN acted : acted[i].to = row.mac}
              IN  /\ Cardinality(sent) <= Len(row.ifaces)
                  /\ code = "Done" => Cardinality(sent) = Len(row.ifaces)
  <2> DEFINE sent == {i \in DOMAIN acted : acted[i].to = row.mac}
  <2>1. table # << >>
    <3>1. PICK k \in DOMAIN table : row = table[k]
      BY <1>13 DEF Range
    <3>2. DOMAIN << >> = {}
      OBVIOUS
    <3>3. QED
      BY <3>1, <3>2
  <2>2. CASE Proposed
    <3>1. PICK n \in Nat, first \in Seq(Nat), last \in Seq(Nat) :
            Rows(devices, table, n, first, last) /\ Separate(devices, n, first)
      BY <1>11, <2>2
    <3>2. DOMAIN table = 1..n
      BY <3>1 DEF Rows
    <3>3. PICK k \in 1..n : row = table[k]
      BY <3>2 DEF Range
    <3>4. PICK c \in Nat : Spans(devices, table[k], first[k], last[k], c)
      BY <1>1, <3>1, RowsSpan
    <3>5. PICK f \in Nat, l \in Nat : f = first[k] /\ l = last[k]
      BY <1>2, <3>4 DEF Spans
    <3>6. f <= l /\ Len(row.ifaces) = l - f + 1
      BY <3>3, <3>4, <3>5 DEF Spans
    <3>7. {i \in 1..size : devices[i].mac = row.mac} = f..l
      <4>1. /\ \A i \in DOMAIN devices : devices[i].mac = table[k].mac <=> i \in first[k]..last[k]
            /\ \A i \in first[k]..last[k] : i \in DOMAIN devices
        BY <1>1, <3>1, RowOfDevice
      <4>2. QED
        BY <1>2, <3>3, <3>5, <4>1
    <3>8. IsFiniteSet(f..l) /\ Cardinality(f..l) = l - f + 1
      <4>1. f \in Int /\ l \in Int /\ ~(f > l)
        BY <3>6
      <4>2. IsFiniteSet(f..l) /\ Cardinality(f..l) = IF f > l THEN 0 ELSE l - f + 1
        BY <4>1, FS_Interval
      <4>3. QED
        BY <4>1, <4>2
    <3>9. sent = {i \in 1..m : devices[i].mac = row.mac}
      BY <1>4, <1>8
    <3>10. sent \in SUBSET (f..l)
      <4>1. \A i \in sent : i \in 1..size /\ devices[i].mac = row.mac
        BY <1>8, <3>9
      <4>2. QED
        BY <3>7, <4>1
    <3>11. m = size => sent = f..l
      BY <3>7, <3>9
    <3> HIDE DEF sent
    <3>12. Cardinality(sent) <= Cardinality(f..l)
      BY <3>8, <3>10, FS_Subset
    <3>13. QED
      BY <1>10, <3>6, <3>8, <3>11, <3>12 DEF sent
  <2>3. CASE ~Proposed
    <3>1. ~(m > 0) /\ code # "Done"
      BY <1>6, <1>10, <2>3
    <3>2. DOMAIN acted = {}
      BY <1>4, <3>1
    <3>3. sent = {}
      BY <3>2
    <3>4. Cardinality(sent) = 0
      BY <3>3, FS_EmptySet
    <3>5. PICK n \in Nat, first \in Seq(Nat), last \in Seq(Nat) : Rows(devices, table, n, first, last)
      BY <1>1, <2>1, TableIsRows
    <3>6. DOMAIN table = 1..n
      BY <3>5 DEF Rows
    <3>7. PICK k \in 1..n : row = table[k]
      BY <3>6 DEF Range
    <3>8. PICK c \in Nat : Spans(devices, table[k], first[k], last[k], c)
      BY <1>1, <3>5, RowsSpan
    <3>9. Len(row.ifaces) = c
      BY <3>7, <3>8 DEF Spans
    <3> HIDE DEF sent
    <3>10. QED
      BY <3>1, <3>4, <3>9 DEF sent
  <2>4. QED
    BY <2>2, <2>3
<1>14. QED
  BY <1>9, <1>12, <1>13 DEF OnlyWhatWasAgreed

LEMMA ForOne == CliInv => AddressForOne
<1> SUFFICES ASSUME CliInv, command = "forceip", acted # << >>
             PROVE  /\ Len(acted) = 1
                    /\ Len(table) = 1 /\ Len(table[1].ifaces) = 1
                    /\ acted[1].with = [k \in 1..3 |-> args[k].fields]
  BY DEF AddressForOne
<1>1. devices \in Seq(Infos) /\ Ordered(devices) /\ Proposed
  BY DEF CliInv, ListsInv, Proposed
<1>2. /\ Len(devices) = 1 /\ table = Printed(devices, FALSE)
      /\ options.addresses = <<args[1].fields, args[2].fields, args[3].fields>>
  BY <1>1 DEF CliInv, OrdersInv
<1>3. PICK m \in 0..1 : acted = [i \in 1..m |-> CommandFor(devices[i])]
  BY <1>2 DEF CliInv, OrdersInv
<1>4. m = 1
  <2>1. m # 0
    BY <1>3
  <2>2. QED
    BY <2>1
<1>5. Len(acted) = 1 /\ acted[1] = CommandFor(devices[1])
  BY <1>3, <1>4
<1>6. acted[1].with = [k \in 1..3 |-> args[k].fields]
  <2>1. CommandFor(devices[1]).with = options.addresses
    BY DEF CommandFor, ForceIP
  <2>2. QED
    BY <1>2, <1>5, <2>1
<1>7. PICK n \in Nat, first \in Seq(Nat), last \in Seq(Nat) :
        Rows(devices, table, n, first, last) /\ Separate(devices, n, first)
  <2>1. \E n \in Nat, first, last \in Seq(Nat) :
          /\ Rows(devices, table, n, first, last)
          /\ FALSE => n = Len(devices)
          /\ ~FALSE => Separate(devices, n, first)
    BY <1>1, <1>2, PrintedRows
  <2>2. QED
    BY <2>1
<1>8. DOMAIN devices = {1}
  BY <1>1, <1>2
<1>9. DOMAIN table = 1..n /\ Len(table) = n /\ \A k \in 1..n : first[k] = 1 /\ last[k] = 1
  BY <1>7, <1>8 DEF Rows
<1>10. n = 1
  <2>1. 1 \in DOMAIN devices
    BY <1>8
  <2>2. PICK k \in 1..n : 1 \in first[k]..last[k]
    BY <1>7, <2>1 DEF Rows
  <2>3. ASSUME n > 1 PROVE FALSE
    <3>1. 1 \in 1..n /\ 2 \in 1..n /\ 1 # 2
      BY <2>3
    <3>2. devices[first[1]].mac # devices[first[2]].mac
      BY <1>7, <3>1 DEF Separate
    <3>3. QED
      BY <1>9, <3>1, <3>2
  <2>4. QED
    BY <2>2, <2>3
<1>11. Len(table[1].ifaces) = 1
  <2>1. PICK c \in Nat : Spans(devices, table[1], first[1], last[1], c)
    BY <1>1, <1>7, <1>10, RowsSpan
  <2>2. first[1] = 1 /\ last[1] = 1
    BY <1>9, <1>10
  <2>3. c = 1
    BY <2>1, <2>2 DEF Spans
  <2>4. QED
    BY <2>1, <2>3 DEF Spans
<1>12. QED
  BY <1>5, <1>6, <1>9, <1>10, <1>11

\* Whatever was answered, in whatever order and however often, the user sees
\* each device of the selection in one line with each of its interfaces once;
\* with --iponly or --serialonly one line for each interface.
THEOREM EveryDeviceHasOneRow == Spec => []OneRowPerDevice
<1>1. CliInv => OneRowPerDevice
  BY OneRow
<1>2. QED
  BY <1>1, InvHolds, PTL

\* Commands go out only after consent and only to devices that were shown, one
\* for each interface in their line; "Done" is said only of a complete list.
THEOREM SentAsAgreed == Spec => []OnlyWhatWasAgreed
<1>1. CliInv => OnlyWhatWasAgreed
  BY Agreed
<1>2. QED
  BY <1>1, InvHolds, PTL

\* forceip gives the address of the command line to one device, which has been
\* seen on one interface.
THEOREM AddressGoesToOne == Spec => []AddressForOne
<1>1. CliInv => AddressForOne
  BY ForOne
<1>2. QED
  BY <1>1, InvHolds, PTL

-----------------------------------------------------------------------------
(* The table of wildcardMatch                                              *)

\* The cells of two tables behind a diagonal are the same.
SameBehind(a, b, str, p, s) ==
  \A x \in 1..(Len(str) + 2), y \in 1..(Len(p) + 1) : s < x + y => a[<<x, y>>] = b[<<x, y>>]

\* Compared looks only at what is further on in the string or in the pattern.
LEMMA ComparedLooksAhead ==
  ASSUME NEW str, NEW p, NEW n \in Nat, n = Len(str), NEW l \in Nat, l = Len(p),
         NEW i \in 1..(n + 2), NEW j \in 1..(l + 1), NEW a, NEW b, SameBehind(a, b, str, p, i + j)
  PROVE  Compared(a, str, p, i, j) = Compared(b, str, p, i, j)
<1>0. \A x \in 1..(n + 2), y \in 1..(l + 1) : i + j < x + y => a[<<x, y>>] = b[<<x, y>>]
  BY DEF SameBehind
<1>1. CASE j > l
  BY <1>1 DEF Compared
<1>2. CASE ~(j > l) /\ i > n + 1
  <2>1. i \in 1..(n + 2) /\ j + 1 \in 1..(l + 1) /\ i + j < i + (j + 1)
    BY <1>2
  <2>2. a[<<i, j + 1>>] = b[<<i, j + 1>>]
    BY <1>0, <2>1
  <2>3. i # n + 1
    BY <1>2
  <2>4. QED
    BY <1>2, <2>2, <2>3 DEF Compared
<1>3. CASE ~(j > l) /\ ~(i > n + 1)
  <2>1. i + 1 \in 1..(n + 2) /\ j + 1 \in 1..(l + 1) /\ i + j < (i + 1) + (j + 1)
        /\ i + j < (i + 1) + j /\ i + j < i + (j + 1)
    BY <1>3
  <2>2. a[<<i + 1, j + 1>>] = b[<<i + 1, j + 1>>]
    BY <1>0, <2>1
  <2>3. a[<<i + 1, j>>] = b[<<i + 1, j>>]
    BY <1>0, <2>1
  <2>4. a[<<i, j + 1>>] = b[<<i, j + 1>>]
    BY <1>0, <2>1
  <2>5. QED
    BY <1>3, <2>2, <2>3, <2>4 DEF Compared
<1>4. QED
  BY <1>1, <1>2, <1>3

Table(m, str, p) ==
  \A i \in 1..(Len(str) + 2), j \in 1..(Len(p) + 1) : m[<<i, j>>] = Compared(m, str, p, i, j)

\* The recursion of wildcardMatch defines a table: it is filled from the end, and
\* there is no last cell at which that stops.
LEMMA TableExists ==
  ASSUME NEW str, NEW p, IsText(str), IsText(p)
  PROVE  \E m : Table(m, str, p) /\ wildcardMatch(str, p) = m[<<1, 1>>]
<1>1. PICK n \in Nat : n = Len(str)
  BY DEF IsText
<1>2. PICK l \in Nat : l = Len(p)
  BY DEF IsText
<1> DEFINE D == (1..(n + 2)) \X (1..(l + 1))
           Filled(m, s) ==
             \A i \in 1..(n + 2), j \in 1..(l + 1) : s <= i + j => m[<<i, j>>] = Compared(m, str, p, i, j)
           Good(s) == \E m : m = [at \in D |-> m[at]] /\ Filled(m, s)
           T == {s \in Nat : Good(s)}
<1>3. n + l + 4 \in T
  <2> DEFINE m == [at \in D |-> "no"]
  <2>1. m = [at \in D |-> m[at]]
    OBVIOUS
  <2>2. \A i \in 1..(n + 2), j \in 1..(l + 1) : ~(n + l + 4 <= i + j)
    OBVIOUS
  <2>3. Filled(m, n + l + 4)
    BY <2>2
  <2> HIDE DEF m, Filled
  <2>4. QED
    BY <2>1, <2>3
<1>4. PICK s \in T : \A t \in T : s <= t
  <2>1. T \in SUBSET Nat /\ T # {}
    BY <1>3
  <2> HIDE DEF T
  <2>2. QED
    BY <2>1, LeastNumber
<1>5. PICK m : m = [at \in D |-> m[at]] /\ Filled(m, s)
  OBVIOUS
<1>6. s = 0
  <2>1. SUFFICES ASSUME s # 0 PROVE FALSE
    OBVIOUS
  <2>2. s \in Nat /\ s - 1 \in Nat
    BY <2>1
  <2> DEFINE f == [at \in D |-> IF at[1] + at[2] = s - 1 THEN Compared(m, str, p, at[1], at[2]) ELSE m[at]]
  <2>3. f = [at \in D |-> f[at]]
    OBVIOUS
  <2>4. ASSUME NEW i \in 1..(n + 2), NEW j \in 1..(l + 1)
        PROVE  f[<<i, j>>] = IF i + j = s - 1 THEN Compared(m, str, p, i, j) ELSE m[<<i, j>>]
    <3>1. <<i, j>> \in D
      OBVIOUS
    <3> HIDE DEF D
    <3>2. QED
      BY <3>1
  <2> HIDE DEF f
  <2>5. ASSUME NEW i \in 1..(n + 2), NEW j \in 1..(l + 1), s - 1 <= i + j
        PROVE  f[<<i, j>>] = Compared(f, str, p, i, j)
    <3>1. \A x \in 1..(n + 2), y \in 1..(l + 1) : i + j < x + y => f[<<x, y>>] = m[<<x, y>>]
      <4>1. \A x \in 1..(n + 2), y \in 1..(l + 1) : i + j < x + y => x + y # s - 1
        BY <2>2, <2>5
      <4>2. QED
        BY <2>4, <4>1
    <3>2. Compared(f, str, p, i, j) = Compared(m, str, p, i, j)
      <4>1. SameBehind(f, m, str, p, i + j)
        BY <1>1, <1>2, <3>1 DEF SameBehind
      <4> HIDE DEF T, Filled, D
      <4>2. QED
        BY <1>1, <1>2, <4>1, ComparedLooksAhead
    <3>3. CASE i + j = s - 1
      BY <2>4, <3>2, <3>3
    <3>4. CASE i + j # s - 1
      <4>1. s <= i + j
        BY <2>2, <2>5, <3>4
      <4>2. m[<<i, j>>] = Compared(m, str, p, i, j)
        BY <1>5, <4>1
      <4>3. QED
        BY <2>4, <3>2, <3>4, <4>2
    <3>5. QED
      BY <3>3, <3>4
  <2>6. Filled(f, s - 1)
    BY <2>5
  <2> HIDE DEF Filled
  <2>7. s - 1 \in T
    BY <2>2, <2>3, <2>6
  <2> HIDE DEF T
  <2>8. QED
    BY <1>4, <2>2, <2>7
<1>7. \A i \in 1..(n + 2), j \in 1..(l + 1) : m[<<i, j>>] = Compared(m, str, p, i, j)
  <2>1. ASSUME NEW i \in 1..(n + 2), NEW j \in 1..(l + 1)
        PROVE  s <= i + j
    BY <1>6
  <2>2. QED
    BY <1>5, <2>1
<1>8. Table(m, str, p)
  BY <1>1, <1>2, <1>7 DEF Table
<1> DEFINE Solves(f) == f = [at \in D |-> Compared(f, str, p, at[1], at[2])]
<1>9. Solves(m)
  <2>1. \A at \in D : at[1] \in 1..(n + 2) /\ at[2] \in 1..(l + 1) /\ at = <<at[1], at[2]>>
    OBVIOUS
  <2> HIDE DEF D
  <2>2. \A at \in D : m[at] = Compared(m, str, p, at[1], at[2])
    BY <1>7, <2>1
  <2>3. QED
    BY <1>5, <2>2
<1> DEFINE f == CHOOSE f : Solves(f)
<1>10. Solves(f)
  BY <1>9
<1>11. wildcardMatch(str, p) = f[<<1, 1>>]
  BY <1>1, <1>2 DEF wildcardMatch
<1> HIDE DEF f
<1>12. ASSUME NEW i \in 1..(n + 2), NEW j \in 1..(l + 1)
       PROVE  f[<<i, j>>] = Compared(f, str, p, i, j)
  <2>1. <<i, j>> \in D
    OBVIOUS
  <2>2. \A at \in D : f[at] = Compared(f, str, p, at[1], at[2])
    <3> HIDE DEF D
    <3>1. QED
      BY <1>10
  <2> HIDE DEF D, Solves
  <2>3. f[<<i, j>>] = Compared(f, str, p, <<i, j>>[1], <<i, j>>[2])
    BY <2>1, <2>2
  <2>4. QED
    BY <2>3
<1>13. Table(f, str, p)
  BY <1>1, <1>2, <1>12 DEF Table
<1>14. QED
  BY <1>11, <1>13

-----------------------------------------------------------------------------
(* What fits a pattern                                                     *)

\* What a character of a pattern can stand for: the text behind from up to to.
Piece(c, str, from, to) ==
  IF c = "*" THEN to >= from ELSE to = from + 1 /\ c \in {"?", str[to]}

\* The text behind i can be cut into pieces for the pattern behind j.
Fits(str, p, i, j) ==
  \E cut \in [j..Len(p) -> 0..Len(str)] :
    /\ cut[j] = i /\ cut[Len(p)] = Len(str)
    /\ \A k \in (j + 1)..Len(p) : Piece(p[k], str, cut[k - 1], cut[k])

LEMMA FitsIsMeans ==
  ASSUME NEW str, NEW p, NEW l \in Nat, l = Len(p)
  PROVE  Means(p, str) <=> Fits(str, p, 0, 0)
<1>1. 0 + 1 = 1
  OBVIOUS
<1>2. ASSUME NEW cut, NEW k \in 1..l
      PROVE  Piece(p[k], str, cut[k - 1], cut[k]) <=>
               IF p[k] = "*" THEN cut[k] >= cut[k - 1]
               ELSE cut[k] = cut[k - 1] + 1 /\ p[k] \in {"?", str[cut[k]]}
  BY DEF Piece
<1>3. QED
  BY <1>1, <1>2 DEF Means, Fits

LEMMA FitsAtTheEnd ==
  ASSUME NEW str, NEW p, NEW n \in Nat, n = Len(str), NEW l \in Nat, l = Len(p), NEW i \in 0..n
  PROVE  Fits(str, p, i, l) <=> i = n
<1>1. ASSUME Fits(str, p, i, l) PROVE i = n
  BY <1>1 DEF Fits
<1>2. ASSUME i = n PROVE Fits(str, p, i, l)
  <2> DEFINE cut == [k \in l..l |-> n]
  <2>1. cut \in [l..l -> 0..n] /\ cut[l] = n
    OBVIOUS
  <2>2. (l + 1)..l = {}
    OBVIOUS
  <2> HIDE DEF cut
  <2>3. QED
    BY <1>2, <2>1, <2>2 DEF Fits
<1>3. QED
  BY <1>1, <1>2

\* The first character of the pattern stands for something, and the rest fits.
LEMMA FitsStepwise ==
  ASSUME NEW str, NEW p, NEW n \in Nat, n = Len(str), NEW l \in Nat, l = Len(p),
         NEW i \in 0..n, NEW j \in 0..l, j < l
  PROVE  Fits(str, p, i, j) <=> \E k \in 0..n : Piece(p[j + 1], str, i, k) /\ Fits(str, p, k, j + 1)
<1>0. j + 1 \in 1..l /\ (j + 1) - 1 = j
  OBVIOUS
<1>1. ASSUME Fits(str, p, i, j)
      PROVE  \E k \in 0..n : Piece(p[j + 1], str, i, k) /\ Fits(str, p, k, j + 1)
  <2>1. PICK cut \in [j..l -> 0..n] :
          /\ cut[j] = i /\ cut[l] = n
          /\ \A k \in (j + 1)..l : Piece(p[k], str, cut[k - 1], cut[k])
    BY <1>1 DEF Fits
  <2>2. cut[j + 1] \in 0..n /\ Piece(p[j + 1], str, i, cut[j + 1])
    <3>1. j + 1 \in (j + 1)..l /\ j + 1 \in j..l
      BY <1>0
    <3>2. Piece(p[j + 1], str, cut[(j + 1) - 1], cut[j + 1])
      BY <2>1, <3>1
    <3>3. QED
      BY <1>0, <2>1, <3>1, <3>2
  <2> DEFINE rest == [k \in (j + 1)..l |-> cut[k]]
  <2>3. rest \in [(j + 1)..l -> 0..n]
    <3>1. \A k \in (j + 1)..l : k \in j..l
      OBVIOUS
    <3>2. QED
      BY <2>1, <3>1
  <2>4. \A k \in (j + 1)..l : rest[k] = cut[k]
    OBVIOUS
  <2>5. l \in (j + 1)..l /\ j + 1 \in (j + 1)..l
    BY <1>0
  <2> HIDE DEF rest
  <2>6. \A k \in (j + 1 + 1)..l : k \in (j + 1)..l /\ k - 1 \in (j + 1)..l
    BY <1>0
  <2>7. \A k \in (j + 1 + 1)..l : Piece(p[k], str, rest[k - 1], rest[k])
    BY <2>1, <2>4, <2>6
  <2>8. Fits(str, p, cut[j + 1], j + 1)
    BY <2>1, <2>3, <2>4, <2>5, <2>7 DEF Fits
  <2>9. QED
    BY <2>2, <2>8
<1>2. ASSUME NEW k \in 0..n, Piece(p[j + 1], str, i, k), Fits(str, p, k, j + 1)
      PROVE  Fits(str, p, i, j)
  <2>1. PICK rest \in [(j + 1)..l -> 0..n] :
          /\ rest[j + 1] = k /\ rest[l] = n
          /\ \A x \in (j + 1 + 1)..l : Piece(p[x], str, rest[x - 1], rest[x])
    BY <1>2 DEF Fits
  <2> DEFINE cut == [x \in j..l |-> IF x = j THEN i ELSE rest[x]]
  <2>2. \A x \in j..l : x = j \/ x \in (j + 1)..l
    OBVIOUS
  <2>3. cut \in [j..l -> 0..n]
    BY <2>1, <2>2
  <2>4. cut[j] = i /\ \A x \in (j + 1)..l : cut[x] = rest[x]
    <3>1. j \in j..l /\ \A x \in (j + 1)..l : x \in j..l /\ x # j
      OBVIOUS
    <3>2. QED
      BY <3>1
  <2>5. l \in (j + 1)..l /\ j + 1 \in (j + 1)..l
    BY <1>0
  <2> HIDE DEF cut
  <2>6. ASSUME NEW x \in (j + 1)..l
        PROVE  Piece(p[x], str, cut[x - 1], cut[x])
    <3>1. CASE x = j + 1
      BY <1>0, <1>2, <2>1, <2>4, <2>5, <3>1
    <3>2. CASE x # j + 1
      <4>1. x \in (j + 1 + 1)..l /\ x - 1 \in (j + 1)..l
        BY <3>2
      <4>2. QED
        BY <2>1, <2>4, <4>1
    <3>3. QED
      BY <3>1, <3>2
  <2>7. QED
    BY <2>1, <2>3, <2>4, <2>5, <2>6 DEF Fits
<1>3. QED
  BY <1>1, <1>2

\* A character that is no star stands for one character of the text.
LEMMA FitsPlain ==
  ASSUME NEW str, NEW p, NEW n \in Nat, n = Len(str), NEW l \in Nat, l = Len(p),
         NEW i \in 0..n, NEW j \in 0..l, j < l, p[j + 1] # "*"
  PROVE  Fits(str, p, i, j) <=> i < n /\ p[j + 1] \in {"?", str[i + 1]} /\ Fits(str, p, i + 1, j + 1)
<1>1. Fits(str, p, i, j) <=> \E k \in 0..n : Piece(p[j + 1], str, i, k) /\ Fits(str, p, k, j + 1)
  BY FitsStepwise
<1>2. \A k \in 0..n : Piece(p[j + 1], str, i, k) <=> k = i + 1 /\ p[j + 1] \in {"?", str[i + 1]}
  BY DEF Piece
<1>3. i < n <=> i + 1 \in 0..n
  OBVIOUS
<1>4. QED
  BY <1>1, <1>2, <1>3

\* A star stands for nothing, or for a character and what it then stands for.
LEMMA FitsStar ==
  ASSUME NEW str, NEW p, NEW n \in Nat, n = Len(str), NEW l \in Nat, l = Len(p),
         NEW i \in 0..n, NEW j \in 0..l, j < l, p[j + 1] = "*"
  PROVE  Fits(str, p, i, j) <=> Fits(str, p, i, j + 1) \/ (i < n /\ Fits(str, p, i + 1, j))
<1>1. Fits(str, p, i, j) <=> \E k \in 0..n : k >= i /\ Fits(str, p, k, j + 1)
  <2>1. \A k \in 0..n : Piece(p[j + 1], str, i, k) <=> k >= i
    BY DEF Piece
  <2>2. QED
    BY <2>1, FitsStepwise
<1>2. i < n => (Fits(str, p, i + 1, j) <=> \E k \in 0..n : k >= i + 1 /\ Fits(str, p, k, j + 1))
  <2>1. \A k \in 0..n : Piece(p[j + 1], str, i + 1, k) <=> k >= i + 1
    BY DEF Piece
  <2>2. i < n => i + 1 \in 0..n
    OBVIOUS
  <2>3. QED
    BY <2>1, <2>2, FitsStepwise
<1>3. \A k \in 0..n : k >= i <=> k = i \/ (i < n /\ k >= i + 1)
  OBVIOUS
<1>4. QED
  BY <1>1, <1>2, <1>3

-----------------------------------------------------------------------------
(* The table says what fits                                                *)

\* If a cell of a table belongs to S whenever all behind it do, then all belong to S.
LEMMA FromBehind ==
  ASSUME NEW n \in Nat, NEW l \in Nat, NEW S,
         \A i \in 1..(n + 2), j \in 1..(l + 1) :
           (\A x \in 1..(n + 2), y \in 1..(l + 1) : i + j < x + y => <<x, y>> \in S) => <<i, j>> \in S
  PROVE  \A i \in 1..(n + 2), j \in 1..(l + 1) : <<i, j>> \in S
<1> DEFINE T == {s \in 0..(n + l + 3) : \E i \in 1..(n + 2), j \in 1..(l + 1) : s = i + j /\ <<i, j>> \notin S}
<1>1. SUFFICES ASSUME NEW a \in 1..(n + 2), NEW b \in 1..(l + 1), <<a, b>> \notin S PROVE FALSE
  OBVIOUS
<1>2. T \in SUBSET (0..(n + l + 3)) /\ T # {}
  <2>1. a + b \in 0..(n + l + 3)
    OBVIOUS
  <2>2. \E i \in 1..(n + 2), j \in 1..(l + 1) : a + b = i + j /\ <<i, j>> \notin S
    BY <1>1
  <2>3. a + b \in T
    BY <2>1, <2>2
  <2>4. QED
    BY <2>3
<1>3. PICK s \in T : \A t \in T : t <= s
  <2> HIDE DEF T
  <2>1. n + l + 3 \in Nat
    OBVIOUS
  <2>2. QED
    BY <1>2, <2>1, GreatestNumber
<1>4. PICK i \in 1..(n + 2), j \in 1..(l + 1) : s = i + j /\ <<i, j>> \notin S
  OBVIOUS
<1>5. ASSUME NEW x \in 1..(n + 2), NEW y \in 1..(l + 1), i + j < x + y
      PROVE  <<x, y>> \in S
  <2>1. SUFFICES ASSUME <<x, y>> \notin S PROVE FALSE
    OBVIOUS
  <2>2. x + y \in T
    <3>1. x + y \in 0..(n + l + 3)
      OBVIOUS
    <3>2. \E c \in 1..(n + 2), d \in 1..(l + 1) : x + y = c + d /\ <<c, d>> \notin S
      BY <2>1
    <3>3. QED
      BY <3>1, <3>2
  <2>3. x + y <= i + j
    BY <1>3, <1>4, <2>2
  <2>4. QED
    BY <1>5, <2>3
<1>6. QED
  BY <1>1, <1>4, <1>5

\* Neither two stars in a row in the pattern nor a star in the text.
Plain(str, p) ==
  /\ \A k \in 2..Len(p) : p[k - 1] # "*" \/ p[k] # "*"
  /\ "*" \notin Range(str)

\* A question mark followed by something else.
Overruns(p, j) == \E k \in (j + 1)..Len(p) : p[k - 1] = "?" /\ p[k] # "?"

\* Nothing but question marks up to something else.
RunsOn(p, j) == \E k \in j..Len(p) : p[k] # "?" /\ \A x \in j..(k - 1) : p[x] = "?"

\* What an outcome says of the string from i and the pattern from j.
Sound(o, str, p, i, j) ==
  /\ o \in {"yes", "no", "undefined"}
  /\ o = "yes" => i <= Len(str) + 1 /\ Fits(str, p, i - 1, j - 1)
  /\ o = "no" /\ i <= Len(str) + 1 /\ Plain(str, p) => ~Fits(str, p, i - 1, j - 1)
  /\ o = "undefined" /\ i <= Len(str) + 1 => Overruns(p, j)
  /\ o = "undefined" /\ ~(i <= Len(str) + 1) => RunsOn(p, j)

LEMMA OverrunsFurther ==
  ASSUME NEW p, NEW l \in Nat, l = Len(p), NEW j \in 1..l
  PROVE  /\ Overruns(p, j + 1) => Overruns(p, j)
         /\ p[j] = "?" /\ RunsOn(p, j + 1) => Overruns(p, j) /\ RunsOn(p, j)
         /\ p[j] # "?" => RunsOn(p, j)
<1>1. ASSUME Overruns(p, j + 1) PROVE Overruns(p, j)
  <2>1. PICK k \in (j + 1 + 1)..l : p[k - 1] = "?" /\ p[k] # "?"
    BY <1>1 DEF Overruns
  <2>2. k \in (j + 1)..l
    OBVIOUS
  <2>3. QED
    BY <2>1, <2>2 DEF Overruns
<1>2. ASSUME p[j] = "?", RunsOn(p, j + 1) PROVE Overruns(p, j) /\ RunsOn(p, j)
  <2>1. PICK k \in (j + 1)..l : p[k] # "?" /\ \A x \in (j + 1)..(k - 1) : p[x] = "?"
    BY <1>2 DEF RunsOn
  <2>2. k \in j..l /\ k \in (j + 1)..l
    OBVIOUS
  <2>3. \A x \in j..(k - 1) : x = j \/ x \in (j + 1)..(k - 1)
    OBVIOUS
  <2>4. \A x \in j..(k - 1) : p[x] = "?"
    BY <1>2, <2>1, <2>3
  <2>5. k - 1 \in j..(k - 1)
    OBVIOUS
  <2>6. p[k - 1] = "?"
    BY <2>4, <2>5
  <2>7. QED
    BY <2>1, <2>2, <2>4, <2>6 DEF Overruns, RunsOn
<1>3. ASSUME p[j] # "?" PROVE RunsOn(p, j)
  <2>1. j \in j..l /\ j..(j - 1) = {}
    OBVIOUS
  <2>2. QED
    BY <1>3, <2>1 DEF RunsOn
<1>4. QED
  BY <1>1, <1>2, <1>3

\* A cell says what is true if those behind it do.
LEMMA CellIsSound ==
  ASSUME NEW str, NEW p, NEW n \in Nat, n = Len(str), DOMAIN str = 1..n, NEW l \in Nat, l = Len(p),
         NEW m, Table(m, str, p), NEW i \in 1..(n + 2), NEW j \in 1..(l + 1),
         \A x \in 1..(n + 2), y \in 1..(l + 1) : i + j < x + y => Sound(m[<<x, y>>], str, p, x, y)
  PROVE  Sound(m[<<i, j>>], str, p, i, j)
<1>1. m[<<i, j>>] = Compared(m, str, p, i, j)
  BY DEF Table
<1>2. CASE j = l + 1
  <2>1. m[<<i, j>>] = IF i = n + 1 THEN "yes" ELSE "no"
    BY <1>1, <1>2 DEF Compared
  <2>2. i <= n + 1 => (Fits(str, p, i - 1, j - 1) <=> i - 1 = n)
    <3>1. i <= n + 1 => i - 1 \in 0..n
      OBVIOUS
    <3>2. j - 1 = l
      BY <1>2
    <3>3. QED
      BY <3>1, <3>2, FitsAtTheEnd
  <2>3. CASE i = n + 1
    BY <2>1, <2>2, <2>3 DEF Sound
  <2>4. CASE i # n + 1
    BY <2>1, <2>2, <2>4 DEF Sound
  <2>5. QED
    BY <2>3, <2>4
<1>3. CASE j # l + 1 /\ i = n + 2
  <2>1. j \in 1..l /\ j + 1 \in 1..(l + 1) /\ ~(i <= n + 1)
    BY <1>3
  <2>2. CASE p[j] = "?"
    <3>1. m[<<i, j>>] = m[<<i, j + 1>>]
      BY SMTT(30), <1>1, <1>3, <2>1, <2>2 DEF Compared
    <3>2. i + j < i + (j + 1)
      BY <2>1
    <3>3. Sound(m[<<i, j + 1>>], str, p, i, j + 1)
      BY <2>1, <3>2
    <3>4. RunsOn(p, j + 1) => RunsOn(p, j)
      BY <2>1, <2>2, OverrunsFurther
    <3>5. QED
      BY <2>1, <3>1, <3>3, <3>4 DEF Sound
  <2>3. CASE p[j] # "?"
    <3>1. m[<<i, j>>] = "undefined"
      BY <1>1, <1>3, <2>1, <2>3 DEF Compared
    <3>2. RunsOn(p, j)
      BY <2>1, <2>3, OverrunsFurther
    <3>3. QED
      BY <2>1, <3>1, <3>2 DEF Sound
  <2>4. QED
    BY <2>2, <2>3
<1>4. CASE j # l + 1 /\ i # n + 2
  <2>1. /\ j \in 1..l /\ j + 1 \in 1..(l + 1) /\ i <= n + 1 /\ i + 1 \in 1..(n + 2)
        /\ i - 1 \in 0..n /\ j - 1 \in 0..l /\ j - 1 < l /\ (j - 1) + 1 = j /\ (i - 1) + 1 = i
        /\ (j + 1) - 1 = j /\ (i + 1) - 1 = i /\ (i - 1 < n <=> i <= n) /\ (i + 1 <= n + 1 <=> i <= n)
    BY <1>4
  <2>2. Sound(m[<<i + 1, j + 1>>], str, p, i + 1, j + 1)
    <3>1. i + j < (i + 1) + (j + 1)
      BY <2>1
    <3>2. QED
      BY <2>1, <3>1
  <2>3. Sound(m[<<i + 1, j>>], str, p, i + 1, j)
    <3>1. i + j < (i + 1) + j
      BY <2>1
    <3>2. QED
      BY <2>1, <3>1
  <2>4. Sound(m[<<i, j + 1>>], str, p, i, j + 1)
    <3>1. i + j < i + (j + 1)
      BY <2>1
    <3>2. QED
      BY <2>1, <3>1
  <2>5. p[j] # "*" => (Fits(str, p, i - 1, j - 1) <=> i <= n /\ p[j] \in {"?", str[i]} /\ Fits(str, p, i, j))
    <3>1. p[(j - 1) + 1] # "*" =>
            (Fits(str, p, i - 1, j - 1) <=>
               i - 1 < n /\ p[(j - 1) + 1] \in {"?", str[(i - 1) + 1]} /\ Fits(str, p, (i - 1) + 1, (j - 1) + 1))
      BY <2>1, FitsPlain
    <3>2. QED
      BY <2>1, <3>1
  <2>6. p[j] = "*" => (Fits(str, p, i - 1, j - 1) <=> Fits(str, p, i - 1, j) \/ (i <= n /\ Fits(str, p, i, j - 1)))
    <3>1. p[(j - 1) + 1] = "*" =>
            (Fits(str, p, i - 1, j - 1) <=>
               Fits(str, p, i - 1, (j - 1) + 1) \/ (i - 1 < n /\ Fits(str, p, (i - 1) + 1, j - 1)))
      BY <2>1, FitsStar
    <3>2. QED
      BY <2>1, <3>1
  <2>7. /\ Overruns(p, j + 1) => Overruns(p, j)
        /\ p[j] = "?" /\ RunsOn(p, j + 1) => Overruns(p, j)
    BY <2>1, OverrunsFurther
  <2>8. CASE p[j] = "?"
    <3>1. m[<<i, j>>] = m[<<i + 1, j + 1>>]
      <4>1. ~(j > l) /\ ~(i > n + 1)
        BY <2>1
      <4>2. QED
        BY <1>1, <2>8, <4>1 DEF Compared
    <3>2. Fits(str, p, i - 1, j - 1) <=> i <= n /\ Fits(str, p, i, j)
      BY <2>5, <2>8
    <3>3. QED
      BY <2>1, <2>2, <2>7, <2>8, <3>1, <3>2 DEF Sound
  <2>9. CASE p[j] # "?" /\ i = n + 1 /\ p[j] # "*"
    <3>1. m[<<i, j>>] = "no"
      BY SMTT(30), <1>1, <2>1, <2>9 DEF Compared
    <3>2. ~Fits(str, p, i - 1, j - 1)
      BY <2>5, <2>9
    <3>3. QED
      BY <2>1, <3>1, <3>2 DEF Sound
  <2>10. CASE p[j] = "*" /\ i = n + 1
    <3>1. m[<<i, j>>] = IF j = l THEN "yes" ELSE "no"
      BY <1>1, <2>1, <2>10 DEF Compared
    <3>2. Fits(str, p, i - 1, j - 1) <=> Fits(str, p, n, j)
      BY <2>6, <2>10
    <3>3. CASE j = l
      <4>1. Fits(str, p, n, l)
        BY FitsAtTheEnd
      <4>2. QED
        BY <2>1, <3>1, <3>2, <3>3, <4>1 DEF Sound
    <3>4. CASE j # l
      <4>1. Plain(str, p) => p[j + 1] # "*"
        <5>1. j + 1 \in 2..l
          BY <2>1, <3>4
        <5>2. QED
          BY <2>1, <2>10, <5>1 DEF Plain
      <4>2. p[j + 1] # "*" => ~Fits(str, p, n, j)
        <5>1. n \in 0..n /\ j \in 0..l /\ j < l /\ ~(n < n)
          BY <2>1, <3>4
        <5>2. QED
          BY <5>1, FitsPlain
      <4>3. QED
        BY <2>1, <3>1, <3>2, <3>4, <4>1, <4>2 DEF Sound
    <3>5. QED
      BY <3>3, <3>4
  <2>11. CASE p[j] # "?" /\ i <= n /\ p[j] = str[i]
    <3>1. m[<<i, j>>] = m[<<i + 1, j + 1>>]
      BY <1>1, <2>1, <2>11 DEF Compared
    <3>2. CASE p[j] # "*"
      <4>1. Fits(str, p, i - 1, j - 1) <=> Fits(str, p, i, j)
        BY <2>5, <2>11, <3>2
      <4>2. QED
        BY <2>1, <2>2, <2>7, <2>11, <3>1, <4>1 DEF Sound
    <3>3. CASE p[j] = "*"
      <4>1. ~Plain(str, p)
        <5>1. i \in DOMAIN str
          BY <2>11
        <5>2. QED
          BY <2>11, <3>3, <5>1 DEF Plain, Range
      <4>2. Fits(str, p, i, j) => Fits(str, p, i - 1, j - 1)
        <5>1. i \in 0..n /\ j - 1 \in 0..l /\ j - 1 < l
          BY <2>1, <2>11
        <5>2. Fits(str, p, i, j) => Fits(str, p, i, j - 1)
          <6>1. p[(j - 1) + 1] = "*" =>
                  (Fits(str, p, i, j - 1) <=>
                     Fits(str, p, i, (j - 1) + 1) \/ (i < n /\ Fits(str, p, i + 1, j - 1)))
            BY <5>1, FitsStar
          <6>2. QED
            BY <2>1, <3>3, <6>1
        <5>3. QED
          BY <2>6, <2>11, <3>3, <5>2
      <4>3. QED
        BY <2>1, <2>2, <2>7, <2>11, <3>1, <4>1, <4>2 DEF Sound
    <3>4. QED
      BY <3>2, <3>3
  <2>12. CASE i <= n /\ p[j] = "*" /\ p[j] # str[i]
    <3>1. m[<<i, j>>] = IF m[<<i + 1, j>>] # "no" THEN m[<<i + 1, j>>] ELSE m[<<i, j + 1>>]
      BY <1>1, <2>1, <2>12 DEF Compared
    <3>2. Fits(str, p, i - 1, j - 1) <=> Fits(str, p, i - 1, j) \/ Fits(str, p, i, j - 1)
      BY <2>6, <2>12
    <3>3. CASE m[<<i + 1, j>>] # "no"
      BY <2>1, <2>3, <2>12, <3>1, <3>2, <3>3 DEF Sound
    <3>4. CASE m[<<i + 1, j>>] = "no"
      BY <2>1, <2>3, <2>4, <2>7, <2>12, <3>1, <3>2, <3>4 DEF Sound
    <3>5. QED
      BY <3>3, <3>4
  <2>13. CASE i <= n /\ p[j] \notin {"?", "*"} /\ p[j] # str[i]
    <3>1. m[<<i, j>>] = "no"
      <4>1. ~(j > l) /\ ~(i > n + 1) /\ i # n + 1
        BY <2>1, <2>13
      <4>2. p[j] # "?" /\ p[j] # "*" /\ p[j] # str[i]
        BY <2>13
      <4>3. QED
        BY <1>1, <4>1, <4>2 DEF Compared
    <3>2. ~Fits(str, p, i - 1, j - 1)
      BY <2>5, <2>13
    <3>3. QED
      BY <2>1, <3>1, <3>2 DEF Sound
  <2>14. i = n + 1 \/ i <= n
    BY <2>1
  <2>15. QED
    BY <2>8, <2>9, <2>10, <2>11, <2>12, <2>13, <2>14
<1>5. QED
  BY <1>2, <1>3, <1>4

\* What wildcardMatch says of a text and a pattern.
LEMMA MatchIsSound ==
  ASSUME NEW str, NEW p, IsText(str), IsText(p)
  PROVE  /\ wildcardMatch(str, p) \in {"yes", "no", "undefined"}
         /\ wildcardMatch(str, p) = "yes" => Means(p, str)
         /\ wildcardMatch(str, p) = "no" /\ Plain(str, p) => ~Means(p, str)
         /\ wildcardMatch(str, p) = "undefined" => \E j \in 2..Len(p) : p[j - 1] = "?" /\ p[j] # "?"
<1>1. PICK n \in Nat : n = Len(str) /\ DOMAIN str = 1..n
  BY DEF IsText
<1>2. PICK l \in Nat : l = Len(p)
  BY DEF IsText
<1>3. PICK m : Table(m, str, p) /\ wildcardMatch(str, p) = m[<<1, 1>>]
  BY TableExists
<1> DEFINE S == {at \in (1..(n + 2)) \X (1..(l + 1)) : Sound(m[at], str, p, at[1], at[2])}
<1>4. ASSUME NEW i \in 1..(n + 2), NEW j \in 1..(l + 1)
      PROVE  <<i, j>> \in S <=> Sound(m[<<i, j>>], str, p, i, j)
  OBVIOUS
<1> HIDE DEF S
<1>5. ASSUME NEW i \in 1..(n + 2), NEW j \in 1..(l + 1),
             \A x \in 1..(n + 2), y \in 1..(l + 1) : i + j < x + y => <<x, y>> \in S
      PROVE  <<i, j>> \in S
  <2>1. \A x \in 1..(n + 2), y \in 1..(l + 1) : i + j < x + y => Sound(m[<<x, y>>], str, p, x, y)
    BY <1>4, <1>5
  <2>2. Sound(m[<<i, j>>], str, p, i, j)
    BY <1>1, <1>2, <1>3, <2>1, CellIsSound
  <2>3. QED
    BY <1>4, <2>2
<1>6. \A i \in 1..(n + 2), j \in 1..(l + 1) : <<i, j>> \in S
  BY <1>5, FromBehind
<1>7. Sound(m[<<1, 1>>], str, p, 1, 1)
  <2>1. 1 \in 1..(n + 2) /\ 1 \in 1..(l + 1)
    OBVIOUS
  <2>2. QED
    BY <1>4, <1>6, <2>1
<1>8. Means(p, str) <=> Fits(str, p, 1 - 1, 1 - 1)
  BY <1>2, FitsIsMeans
<1>9. 1 <= n + 1
  OBVIOUS
<1>10. Overruns(p, 1) <=> \E j \in 2..Len(p) : p[j - 1] = "?" /\ p[j] # "?"
  BY DEF Overruns
<1>11. QED
  BY <1>1, <1>3, <1>7, <1>8, <1>9, <1>10 DEF Sound

\* A text matches itself.
LEMMA SameIsMatched ==
  ASSUME NEW str, IsText(str)
  PROVE  wildcardMatch(str, str) = "yes"
<1>1. PICK n \in Nat : n = Len(str) /\ DOMAIN str = 1..n
  BY DEF IsText
<1>2. PICK m : Table(m, str, str) /\ wildcardMatch(str, str) = m[<<1, 1>>]
  BY TableExists
<1>3. ASSUME NEW i \in 1..n
      PROVE  m[<<i, i>>] = m[<<i + 1, i + 1>>]
  <2>1. i \in 1..(n + 2) /\ i \in 1..(n + 1) /\ i # n + 1 /\ ~(i > n + 1) /\ ~(i > n)
    OBVIOUS
  <2>2. m[<<i, i>>] = Compared(m, str, str, i, i)
    BY <1>1, <1>2, <2>1 DEF Table
  <2>3. QED
    BY <1>1, <2>1, <2>2 DEF Compared
<1>4. m[<<n + 1, n + 1>>] = "yes"
  <2>1. n + 1 \in 1..(n + 2) /\ n + 1 \in 1..(n + 1) /\ n + 1 > n
    OBVIOUS
  <2>2. m[<<n + 1, n + 1>>] = Compared(m, str, str, n + 1, n + 1)
    BY <1>1, <1>2, <2>1 DEF Table
  <2>3. QED
    BY <1>1, <2>1, <2>2 DEF Compared
<1> DEFINE T == {i \in 0..n : m[<<i + 1, i + 1>>] # "yes"}
<1>5. T = {}
  <2>1. SUFFICES ASSUME T # {} PROVE FALSE
    OBVIOUS
  <2>2. PICK i \in T : \A t \in T : t <= i
    BY <2>1, GreatestNumber
  <2>3. i \in 0..n /\ m[<<i + 1, i + 1>>] # "yes"
    OBVIOUS
  <2>4. i # n
    BY <1>4, <2>3
  <2>5. i + 1 \in 1..n /\ i + 1 \in 0..n /\ ~(i + 1 <= i)
    BY <2>3, <2>4
  <2>6. m[<<(i + 1) + 1, (i + 1) + 1>>] = "yes"
    BY <2>2, <2>5
  <2>7. m[<<i + 1, i + 1>>] = m[<<(i + 1) + 1, (i + 1) + 1>>]
    BY <1>3, <2>5
  <2>8. QED
    BY <2>3, <2>6, <2>7
<1>6. 0 \in 0..n /\ 0 \notin T /\ 0 + 1 = 1
  BY <1>5
<1>7. QED
  BY <1>2, <1>6

-----------------------------------------------------------------------------
(* The filter                                                              *)

LEMMA EmptyIsText == IsText(<< >>)
BY DEF IsText, Range

LEMMA InfoTexts ==
  ASSUME NEW d \in Infos, NEW key \in Range(Keys)
  PROVE  IsText(Text(d, key))
<1>1. PICK e \in Entries, len \in Lengths : d = DeviceInfo(e, len)
  BY DEF Infos
<1>2. IsText(e.user) /\ IsText(e.model) /\ IsText(e.serial) /\ IsText(e.iface)
  BY TextsAssumption
<1>3. IsText(d.user) /\ IsText(d.model) /\ IsText(d.serial) /\ IsText(d.iface)
  <2>1. /\ d.user = e.user \/ d.user = << >>
        /\ d.model = e.model \/ d.model = << >>
        /\ d.serial = e.serial \/ d.serial = << >>
        /\ d.iface = e.iface
    BY <1>1 DEF DeviceInfo
  <2>2. QED
    BY <1>2, <2>1, EmptyIsText
<1>4. IsText(mac2string(d.mac))
  <2>1. ASSUME NEW x, NEW y PROVE <<x, y>> \in Seq(Range(<<x, y>>))
    <3>1. x \in Range(<<x, y>>) /\ y \in Range(<<x, y>>)
      BY DEF Range
    <3> HIDE DEF Range
    <3>2. QED
      BY <3>1
  <2>2. QED
    BY <2>1 DEF IsText, mac2string
<1>5. IsText(Name(d))
  BY <1>3 DEF Name
<1>6. key \in {"name", "serial", "mac", "iface", "model"}
  BY DEF Range, Keys
<1>7. QED
  BY <1>3, <1>4, <1>5, <1>6 DEF Text

\* The first of some outcomes that is not the usual one.
LEMMA FirstOtherIs ==
  ASSUME NEW n \in Nat, NEW outcomes, DOMAIN outcomes = 1..n, NEW usual
  PROVE  \/ FirstOther(outcomes, usual) = usual /\ \A k \in 1..n : outcomes[k] = usual
         \/ \E k \in 1..n : FirstOther(outcomes, usual) = outcomes[k] /\ outcomes[k] # usual
<1> DEFINE others == {k \in 1..n : outcomes[k] # usual}
<1>1. CASE others = {}
  BY <1>1 DEF FirstOther
<1>2. CASE others # {}
  <2>1. \E k \in others : \A x \in others : k <= x
    <3>1. others \in SUBSET Nat
      OBVIOUS
    <3> HIDE DEF others
    <3>2. QED
      BY <1>2, <3>1, LeastNumber
  <2>2. Min(others) \in others
    <3> HIDE DEF others
    <3>1. QED
      BY <2>1 DEF Min
  <2>3. FirstOther(outcomes, usual) = outcomes[Min(others)]
    BY <1>2 DEF FirstOther
  <2>4. QED
    BY <2>2, <2>3
<1>3. QED
  BY <1>1, <1>2

ArePatterns(patterns) ==
  /\ patterns \in Seq(Range(patterns))
  /\ \A k \in DOMAIN patterns : IsText(patterns[k])

\* A text passes if a pattern matches it.
LEMMA MatchesFilterIs ==
  ASSUME NEW str, IsText(str), NEW patterns, ArePatterns(patterns)
  PROVE  /\ MatchesFilter(str, patterns) \in {"yes", "no", "undefined"}
         /\ MatchesFilter(str, patterns) = "yes" =>
              patterns = << >> \/ \E k \in DOMAIN patterns : wildcardMatch(str, patterns[k]) = "yes"
         /\ MatchesFilter(str, patterns) = "no" =>
              patterns # << >> /\ \A k \in DOMAIN patterns : wildcardMatch(str, patterns[k]) = "no"
         /\ MatchesFilter(str, patterns) = "undefined" =>
              \E k \in DOMAIN patterns : wildcardMatch(str, patterns[k]) = "undefined"
<1>1. PICK n \in Nat : DOMAIN patterns = 1..n
  <2>1. patterns \in Seq(Range(patterns))
    BY DEF ArePatterns
  <2> HIDE DEF Range
  <2>2. QED
    BY <2>1
<1>2. ASSUME NEW k \in 1..n
      PROVE  wildcardMatch(str, patterns[k]) \in {"yes", "no", "undefined"}
  BY <1>1, MatchIsSound DEF ArePatterns
<1>3. CASE patterns = << >>
  BY <1>3 DEF MatchesFilter
<1>4. CASE patterns # << >>
  <2> DEFINE outcomes == [k \in DOMAIN patterns |-> wildcardMatch(str, patterns[k])]
  <2>1. MatchesFilter(str, patterns) = FirstOther(outcomes, "no")
    BY <1>4 DEF MatchesFilter
  <2>2. DOMAIN outcomes = 1..n /\ \A k \in 1..n : outcomes[k] = wildcardMatch(str, patterns[k])
    BY <1>1
  <2> HIDE DEF outcomes
  <2>3. \/ FirstOther(outcomes, "no") = "no" /\ \A k \in 1..n : outcomes[k] = "no"
        \/ \E k \in 1..n : FirstOther(outcomes, "no") = outcomes[k] /\ outcomes[k] # "no"
    BY <2>2, FirstOtherIs
  <2>4. QED
    BY <1>1, <1>2, <1>4, <2>1, <2>2, <2>3
<1>5. QED
  BY <1>3, <1>4

\* A device passes if all its texts do.
LEMMA FilterDeviceIs ==
  ASSUME NEW d \in Infos, NEW filter, \A key \in Range(Keys) : ArePatterns(filter[key])
  PROVE  /\ filterDevice(d, filter) \in {"yes", "no", "undefined"}
         /\ filterDevice(d, filter) = "yes" =>
              \A key \in Range(Keys) : MatchesFilter(Text(d, key), filter[key]) = "yes"
         /\ filterDevice(d, filter) = "no" =>
              \E key \in Range(Keys) : MatchesFilter(Text(d, key), filter[key]) = "no"
         /\ filterDevice(d, filter) = "undefined" =>
              \E key \in Range(Keys) : MatchesFilter(Text(d, key), filter[key]) = "undefined"
<1>1. \A key \in Range(Keys) : MatchesFilter(Text(d, key), filter[key]) \in {"yes", "no", "undefined"}
  BY InfoTexts, MatchesFilterIs
<1>2. /\ \A k \in 1..5 : Keys[k] \in Range(Keys)
      /\ \A key \in Range(Keys) : \E k \in 1..5 : Keys[k] = key
  BY DEF Keys, Range
<1> DEFINE outcomes == [k \in 1..5 |-> MatchesFilter(Text(d, Keys[k]), filter[Keys[k]])]
<1>3. filterDevice(d, filter) = FirstOther(outcomes, "yes")
  BY DEF filterDevice
<1>4. DOMAIN outcomes = 1..5 /\ \A k \in 1..5 : outcomes[k] = MatchesFilter(Text(d, Keys[k]), filter[Keys[k]])
  OBVIOUS
<1> HIDE DEF outcomes
<1>5. \/ FirstOther(outcomes, "yes") = "yes" /\ \A k \in 1..5 : outcomes[k] = "yes"
      \/ \E k \in 1..5 : FirstOther(outcomes, "yes") = outcomes[k] /\ outcomes[k] # "yes"
  <2>1. PICK n \in Nat : n = 5
    OBVIOUS
  <2>2. DOMAIN outcomes = 1..n
    BY <1>4, <2>1
  <2>3. \/ FirstOther(outcomes, "yes") = "yes" /\ \A k \in 1..n : outcomes[k] = "yes"
        \/ \E k \in 1..n : FirstOther(outcomes, "yes") = outcomes[k] /\ outcomes[k] # "yes"
    BY <2>2, FirstOtherIs
  <2>4. QED
    BY <2>1, <2>3
<1>6. CASE FirstOther(outcomes, "yes") = "yes" /\ \A k \in 1..5 : outcomes[k] = "yes"
  <2>1. \A k \in 1..5 : MatchesFilter(Text(d, Keys[k]), filter[Keys[k]]) = "yes"
    BY <1>4, <1>6
  <2>2. \A key \in Range(Keys) : MatchesFilter(Text(d, key), filter[key]) = "yes"
    BY <1>2, <2>1
  <2>3. QED
    BY <1>3, <1>6, <2>2
<1>7. CASE \E k \in 1..5 : FirstOther(outcomes, "yes") = outcomes[k] /\ outcomes[k] # "yes"
  <2>1. PICK k \in 1..5 : FirstOther(outcomes, "yes") = outcomes[k] /\ outcomes[k] # "yes"
    BY <1>7
  <2>2. PICK key \in Range(Keys) : key = Keys[k]
    BY <1>2
  <2>3. filterDevice(d, filter) = MatchesFilter(Text(d, key), filter[key])
    BY <1>3, <1>4, <2>1, <2>2
  <2>4. filterDevice(d, filter) # "yes"
    BY <1>3, <2>1
  <2>5. QED
    BY <1>1, <2>3, <2>4
<1>8. QED
  BY <1>5, <1>6, <1>7

-----------------------------------------------------------------------------
(* The selection is the choice among the answers                           *)

Words == UNION {Range(argv) : argv \in Argvs}

PatternTexts == {w.pattern : w \in {v \in Words : v.is = "filter"}}

\* The patterns are texts of the words.
FilterInv ==
  /\ args \in Seq(Words)
  /\ "filter" \in DOMAIN options
  /\ options.filter \in [Range(Keys) -> Seq(PatternTexts)]

\* devices are what discoverWithFilter can make of the answers.
Chosen ==
  \E sorted \in Sortings(infos) :
    \E passed \in Passing(Kept(sorted, Firsts(sorted))) : devices = Kept(Kept(sorted, Firsts(sorted)), passed)

\* Answers come from interfaces that the filter allows, and the selection is one
\* of the answers.
ChosenInv ==
  /\ pc \in {"dispatch", "operation", "options", "check", "ask"} => asked = {} /\ infos = << >>
  /\ \A i \in asked : Asks(i)
  /\ \A e \in Range(infos) : e.iface \in asked
  /\ Selected => Chosen

LEMMA WordsAreTexts ==
  /\ \A argv \in Argvs : argv \in Seq(Words)
  /\ \A text \in PatternTexts : IsText(text)
<1>1. ASSUME NEW argv \in Argvs PROVE argv \in Seq(Words)
  <2>1. argv \in Seq(Range(argv))
    BY TextsAssumption
  <2>2. Range(argv) \subseteq Words
    BY DEF Words
  <2> HIDE DEF Words
  <2>3. QED
    BY <2>1, <2>2
<1>2. ASSUME NEW w \in Words, w.is = "filter" PROVE IsText(w.pattern)
  <2>1. PICK argv \in Argvs : w \in Range(argv)
    BY DEF Words
  <2>2. PICK k \in DOMAIN argv : w = argv[k]
    BY <2>1 DEF Range
  <2>3. QED
    BY <1>2, <2>2, TextsAssumption
<1>3. QED
  BY <1>1, <1>2 DEF PatternTexts

\* What follows the first words of the command line.
LEMMA TailOfWords ==
  ASSUME NEW W, NEW s \in Seq(W), s # << >>
  PROVE  Tail(s) \in Seq(W)
OBVIOUS

LEMMA ThirdOfWords ==
  ASSUME NEW W, NEW s \in Seq(W), Len(s) > 1
  PROVE  SubSeq(s, 3, Len(s)) \in Seq(W) /\ s[2] \in W
<1>1. PICK n \in Nat : n = Len(s)
  OBVIOUS
<1>2. \A i \in 3..n : i \in 1..n
  OBVIOUS
<1>3. SubSeq(s, 3, n) \in Seq(W)
  <2>1. \A i \in 3..n : s[i] \in W
    BY <1>1, <1>2
  <2>2. QED
    BY <1>1, <2>1
<1>4. QED
  BY <1>1, <1>3

LEMMA ReadingFilter ==
  ASSUME FilterInv, Reading
  PROVE  FilterInv'
<1> USE DEF FilterInv
<1>0. args = << >> => NextWord = ""
  BY DEF NextWord
<1>1. CASE Dispatch
  <2>1. options' = options /\ (args' = args \/ (args # << >> /\ args' = Tail(args)))
    BY <1>0, <1>1 DEF Dispatch, Commands
  <2>2. QED
    BY <2>1, TailOfWords
<1>2. CASE Operation
  <2>1. /\ options' = options \/ options' = [options EXCEPT !.op = NextWord]
        /\ args' = args \/ (args # << >> /\ args' = Tail(args))
    BY <1>0, <1>2 DEF Operation, Operations
  <2>2. "filter" \in DOMAIN options' /\ options'.filter = options.filter
    BY <2>1
  <2>3. QED
    BY <2>1, <2>2, TailOfWords
<1>3. CASE Option
  <2>1. CASE FilterOption
    <3>1. CASE Len(args) > 1 /\ args[2].is = "filter"
      <4>1. /\ options' = [options EXCEPT !.filter[args[2].key] = Append(@, args[2].pattern)]
            /\ args' = SubSeq(args, 3, Len(args))
        BY <2>1, <3>1 DEF FilterOption
      <4>2. args' \in Seq(Words) /\ args[2] \in Words
        BY <3>1, <4>1, ThirdOfWords
      <4>3. args[2].pattern \in PatternTexts
        BY <3>1, <4>2 DEF PatternTexts
      <4>4. "filter" \in DOMAIN options' /\ options'.filter = [options.filter EXCEPT ![args[2].key] = Append(@, args[2].pattern)]
        BY <4>1
      <4>5. options'.filter \in [Range(Keys) -> Seq(PatternTexts)]
        <5>1. CASE args[2].key \in Range(Keys)
          <6>1. options.filter[args[2].key] \in Seq(PatternTexts)
            BY <5>1
          <6>2. Append(options.filter[args[2].key], args[2].pattern) \in Seq(PatternTexts)
            BY <4>3, <6>1
          <6>3. QED
            BY <4>4, <5>1, <6>2
        <5>2. CASE args[2].key \notin Range(Keys)
          BY <4>4, <5>2
        <5>3. QED
          BY <5>1, <5>2
      <4>6. QED
        BY <4>2, <4>4, <4>5
    <3>2. CASE ~(Len(args) > 1 /\ args[2].is = "filter")
      BY <2>1, <3>2 DEF FilterOption
    <3>3. QED
      BY <3>1, <3>2
  <2>2. CASE YesOption
    <3>1. args # << >> /\ args' = Tail(args) /\ options' = [options EXCEPT !.yes = TRUE]
      BY <1>0, <2>2 DEF YesOption
    <3>2. "filter" \in DOMAIN options' /\ options'.filter = options.filter
      BY <3>1
    <3>3. QED
      BY <3>1, <3>2, TailOfWords
  <2>3. CASE ShortOption
    <3>1. args # << >> /\ args' = Tail(args) /\ options' = [options EXCEPT !.short = TRUE]
      BY <1>0, <2>3 DEF ShortOption
    <3>2. "filter" \in DOMAIN options' /\ options'.filter = options.filter
      BY <3>1
    <3>3. QED
      BY <3>1, <3>2, TailOfWords
  <2>4. CASE HelpOption \/ EndOfOptions \/ (\E known : WrongOption(known))
    <3>1. UNCHANGED <<options, args>>
      BY <2>4 DEF HelpOption, EndOfOptions, WrongOption
    <3>2. QED
      BY <3>1
  <2>5. QED
    BY <1>3, <2>1, <2>2, <2>3, <2>4 DEF Option, EndOfWords, LsOption, ForceIPOption, ResetOption, ReconnectOption
<1>4. CASE CheckArguments
  <2>1. PICK addresses : options' = [options EXCEPT !.addresses = addresses] /\ args' = args
    BY <1>4 DEF CheckArguments
  <2>2. "filter" \in DOMAIN options' /\ options'.filter = options.filter
    BY <2>1
  <2>3. QED
    BY <2>1, <2>2
<1>5. QED
  BY <1>1, <1>2, <1>3, <1>4 DEF Reading

LEMMA FilterStays ==
  ASSUME FilterInv, UNCHANGED <<args, options>>
  PROVE  FilterInv'
BY DEF FilterInv

\* The choice depends on nothing but this.
LEMMA ChosenStays ==
  ASSUME Chosen, UNCHANGED <<command, options, infos, devices>>
  PROVE  Chosen'
BY DEF Chosen, Sortings, Less, Rank, Passing, Listed, IsValid, filterDevice

LEMMA ChosenNow ==
  ASSUME discoverWithFilter, UNCHANGED <<command, options, infos>>
  PROVE  Chosen'
<1>1. \E sorted \in Sortings(infos) :
        \E passed \in Passing(Kept(sorted, Firsts(sorted))) : devices' = Kept(Kept(sorted, Firsts(sorted)), passed)
  BY DEF discoverWithFilter
<1>2. QED
  BY <1>1 DEF Chosen, Passing, Listed

LEMMA ChosenInvInit ==
  ASSUME Init
  PROVE  FilterInv /\ ChosenInv
<1>1. args \in Seq(Words)
  BY WordsAreTexts DEF Init
<1>2. "filter" \in DOMAIN options /\ options.filter = [k \in Range(Keys) |-> << >>]
  BY DEF Init
<1>3. FilterInv
  BY <1>1, <1>2 DEF FilterInv
<1>4. ~Selected
  BY DEF Init, Selected
<1>5. ChosenInv
  BY <1>4 DEF Init, ChosenInv, Range
<1>6. QED
  BY <1>3, <1>5

LEMMA SelectEffect ==
  ASSUME Select
  PROVE  /\ pc = "collect" /\ UNCHANGED <<args, command, options, asked, infos>>
         /\ discoverWithFilter \/ pc' = "aborted"
BY DEF Select, LsShows, ForceIPShows, ResetShows, ReconnectShows, ShowOrLeave, GoTo

LEMMA ChosenInvStep ==
  ASSUME FilterInv, ChosenInv, CliInv, [Next]_vars
  PROVE  FilterInv' /\ ChosenInv'
<1>1. CASE Reading
  <2>1. FilterInv'
    BY <1>1, ReadingFilter
  <2>2. /\ pc \in {"dispatch", "operation", "options", "check"}
        /\ UNCHANGED <<asked, infos>>
        /\ pc' \in {"operation", "options", "check", "ask", "exited"}
    BY <1>1, ReadingEffect DEF CliInv, later
  <2>3. asked' = {} /\ infos' = << >>
    BY <2>2 DEF ChosenInv
  <2>4. ~Selected'
    BY <2>2, <2>3 DEF Selected
  <2>5. ChosenInv'
    BY <2>3, <2>4 DEF ChosenInv, Range
  <2>6. QED
    BY <2>1, <2>5
<1>2. CASE Ask
  <2>1. pc = "ask" /\ pc' \in {"collect", "aborted"} /\ UNCHANGED <<args, options, infos>>
    BY <1>2 DEF Ask, GoTo
  <2>2. FilterInv'
    BY <2>1, FilterStays
  <2>3. \A i : Asks(i)' = Asks(i)
    BY <2>1 DEF Asks
  <2>4. asked' = asked \/ asked' = {i \in Range(Interfaces) : Asks(i)}
    BY <1>2 DEF Ask
  <2>5. \A i \in asked' : Asks(i)'
    BY <2>1, <2>3, <2>4 DEF ChosenInv
  <2>6. infos' = << >>
    BY <2>1 DEF ChosenInv
  <2>7. ~Selected'
    BY <2>1 DEF Selected
  <2>8. ChosenInv'
    BY <2>1, <2>5, <2>6, <2>7 DEF ChosenInv, Range
  <2>9. QED
    BY <2>2, <2>8
<1>3. CASE Hear
  <2>1. pc = "collect" /\ UNCHANGED <<pc, args, command, options, asked, devices>>
    BY <1>3 DEF Hear
  <2>2. FilterInv'
    BY <2>1, FilterStays
  <2>3. PICK e \in Entries, len \in Lengths :
          e.iface \in asked /\ infos' = Append(infos, DeviceInfo(e, len))
    BY <1>3 DEF Hear
  <2>4. DeviceInfo(e, len).iface = e.iface
    BY DEF DeviceInfo
  <2>5. \A d \in Range(infos') : d.iface \in asked
    <3>1. infos \in Seq(Infos) /\ DeviceInfo(e, len) \in Infos
      BY DEF CliInv, ListsInv, Infos
    <3>2. PICK n \in Nat : n = Len(infos) /\ DOMAIN infos = 1..n
      BY <3>1
    <3>3. DOMAIN infos' = 1..(n + 1) /\ \A k \in 1..(n + 1) : infos'[k] = IF k <= n THEN infos[k] ELSE DeviceInfo(e, len)
      BY <2>3, <3>1, <3>2
    <3>4. \A k \in 1..n : infos[k].iface \in asked
      BY <3>2 DEF ChosenInv, Range
    <3>5. \A k \in 1..(n + 1) : infos'[k].iface \in asked
      BY <2>3, <2>4, <3>3, <3>4
    <3>6. QED
      BY <3>3, <3>5 DEF Range
  <2>6. ~Selected'
    BY <2>1 DEF Selected
  <2>7. \A i : Asks(i)' = Asks(i)
    BY <2>1 DEF Asks
  <2>8. ChosenInv'
    BY <2>1, <2>5, <2>6, <2>7 DEF ChosenInv
  <2>9. QED
    BY <2>2, <2>8
<1>4. CASE Select
  <2>1. /\ pc = "collect" /\ UNCHANGED <<args, command, options, asked, infos>>
        /\ discoverWithFilter \/ pc' = "aborted"
    BY <1>4, SelectEffect
  <2>2. FilterInv'
    BY <2>1, FilterStays
  <2>3. \A i : Asks(i)' = Asks(i)
    BY <2>1 DEF Asks
  <2>4. Selected' => Chosen'
    BY <2>1, ChosenNow DEF Selected
  <2>5. pc' \notin {"dispatch", "operation", "options", "check", "ask"}
    BY <1>4, <2>1 DEF Select, LsShows, ForceIPShows, ResetShows, ReconnectShows, ShowOrLeave, GoTo, Exit
  <2>6. ChosenInv'
    BY <2>1, <2>3, <2>4, <2>5 DEF ChosenInv
  <2>7. QED
    BY <2>2, <2>6
<1>5. CASE Confirm \/ Act \/ UNCHANGED vars
  <2>1. UNCHANGED <<args, command, options, asked, infos, devices>>
    BY <1>5 DEF Confirm, Act, vars
  <2>2. \/ pc \in {"confirm", "act"} /\ pc' \notin {"dispatch", "operation", "options", "check", "ask"}
        \/ pc' = pc
    BY <1>5 DEF Confirm, Act, vars, GoTo, Exit
  <2>3. FilterInv'
    BY <2>1, FilterStays
  <2>4. \A i : Asks(i)' = Asks(i)
    BY <2>1 DEF Asks
  <2>5. Selected' => Selected
    BY <2>1, <2>2 DEF Selected
  <2>6. Selected' => Chosen'
    BY <2>1, <2>5, ChosenStays DEF ChosenInv
  <2>7. ChosenInv'
    BY <2>1, <2>2, <2>4, <2>6 DEF ChosenInv
  <2>8. QED
    BY <2>3, <2>7
<1>6. QED
  BY <1>1, <1>2, <1>3, <1>4, <1>5 DEF Next, Reading

-----------------------------------------------------------------------------
(* The selection is what the filter means                                  *)

\* What is kept of a list is what is at the positions that are kept.
LEMMA KeptAre ==
  ASSUME NEW list \in Seq(Infos), NEW S \in SUBSET (DOMAIN list), NEW kept, kept = Kept(list, S)
  PROVE  /\ \A d \in Range(kept) : \E s \in S : d = list[s]
         /\ \A s \in S : list[s] \in Range(kept)
         /\ kept \in Seq(Infos)
<1>1. PICK n \in Nat : n = Len(list)
  OBVIOUS
<1>2. DOMAIN list = 1..n /\ \A i \in 1..n : list[i] \in Infos
  BY <1>1
<1>3. PICK f : f = Ascending(S) /\ kept = [k \in DOMAIN f |-> list[f[k]]]
  BY DEF Kept
<1>4. PICK m \in Nat :
        /\ DOMAIN f = 1..m
        /\ \A s \in S : \E k \in 1..m : f[k] = s
        /\ \A k \in 1..m : f[k] \in S /\ f[k] \in 1..n
  <2>1. S \in SUBSET (1..n)
    BY <1>2
  <2>2. \E m \in Nat :
          /\ m = Cardinality(S) /\ m <= n
          /\ DOMAIN Ascending(S) = 1..m /\ Len(Ascending(S)) = m /\ Ascending(S) \in [1..m -> S]
          /\ \A s \in S : \E k \in 1..m : Ascending(S)[k] = s
          /\ \A k \in 1..m : Ascending(S)[k] \in S /\ Ascending(S)[k] \in 1..n
          /\ \A k, l \in 1..m : k < l => Ascending(S)[k] < Ascending(S)[l]
    BY <2>1, AscendingPositions
  <2>3. QED
    BY <1>3, <2>2
<1>5. DOMAIN kept = 1..m /\ \A k \in 1..m : kept[k] = list[f[k]]
  BY <1>3, <1>4
<1>6. kept \in [1..m -> Infos]
  BY <1>2, <1>3, <1>4
<1>7. ASSUME NEW s \in S PROVE list[s] \in Range(kept)
  <2>1. PICK k \in 1..m : f[k] = s
    BY <1>4
  <2>2. kept[k] = list[s]
    BY <1>5, <2>1
  <2>3. QED
    BY <1>5, <2>2 DEF Range
<1>8. ASSUME NEW d \in Range(kept) PROVE \E s \in S : d = list[s]
  <2>1. PICK k \in 1..m : d = kept[k]
    BY <1>5 DEF Range
  <2>2. QED
    BY <1>4, <1>5, <2>1
<1>9. QED
  BY <1>6, <1>7, <1>8

LEMMA SortingHasAll ==
  ASSUME NEW list \in Seq(Infos), NEW sorted \in Sortings(list)
  PROVE  sorted \in Seq(Infos) /\ Range(sorted) = Range(list)
<1>1. PICK n \in Nat : n = Len(list) /\ DOMAIN list = 1..n
  OBVIOUS
<1>2. PICK p \in Bijection(DOMAIN list, DOMAIN list) : sorted = [i \in DOMAIN list |-> list[p[i]]]
  BY DEF Sortings
<1>3. p \in [1..n -> 1..n] /\ \A x \in 1..n : \E i \in 1..n : p[i] = x
  BY <1>1, <1>2 DEF Bijection, Injection, Surjection
<1>4. DOMAIN sorted = 1..n /\ \A i \in 1..n : sorted[i] = list[p[i]]
  BY <1>1, <1>2
<1>5. \A d \in Range(sorted) : d \in Range(list)
  BY <1>1, <1>3, <1>4 DEF Range
<1>6. ASSUME NEW d \in Range(list) PROVE d \in Range(sorted)
  <2>1. PICK x \in 1..n : d = list[x]
    BY <1>1 DEF Range
  <2>2. PICK i \in 1..n : p[i] = x
    BY <1>3
  <2>3. sorted[i] = d
    BY <1>4, <2>1, <2>2
  <2>4. QED
    BY <1>4, <2>3 DEF Range
<1>7. sorted \in Seq(Infos)
  BY SortingIsSorted
<1>8. QED
  BY <1>5, <1>6, <1>7

\* Every answer is represented in what is left when repetitions are dropped.
LEMMA FirstOfEach ==
  ASSUME NEW sorted \in Seq(Infos), NEW e \in Range(sorted)
  PROVE  \E i \in Firsts(sorted) : SameEntry(sorted[i], e)
<1>1. PICK n \in Nat : n = Len(sorted) /\ DOMAIN sorted = 1..n
  OBVIOUS
<1> DEFINE T == {i \in 1..n : SameEntry(sorted[i], e)}
<1>2. T # {} /\ T \in SUBSET Nat
  BY <1>1 DEF Range, SameEntry
<1>3. PICK i \in T : \A t \in T : i <= t
  BY <1>2, LeastNumber
<1>4. i \in 1..n /\ SameEntry(sorted[i], e)
  OBVIOUS
<1>5. i = 1 \/ ~SameEntry(sorted[i - 1], sorted[i])
  <2>1. SUFFICES ASSUME i # 1, SameEntry(sorted[i - 1], sorted[i]) PROVE FALSE
    OBVIOUS
  <2>2. i - 1 \in 1..n /\ ~(i <= i - 1)
    BY <1>4, <2>1
  <2>3. SameEntry(sorted[i - 1], e)
    BY <1>4, <2>1 DEF SameEntry
  <2>4. QED
    BY <1>3, <2>2, <2>3
<1>6. i \in Firsts(sorted)
  BY <1>1, <1>4, <1>5 DEF Firsts
<1>7. QED
  BY <1>4, <1>6

FiltersAreTexts == \A key \in Range(Keys) : ArePatterns(options.filter[key])

LEMMA FilterTexts ==
  ASSUME FilterInv
  PROVE  FiltersAreTexts
<1>1. ASSUME NEW key \in Range(Keys) PROVE ArePatterns(options.filter[key])
  <2>1. options.filter[key] \in Seq(PatternTexts)
    BY DEF FilterInv
  <2>2. PICK n \in Nat : n = Len(options.filter[key]) /\ DOMAIN options.filter[key] = 1..n
    BY <2>1
  <2>3. \A k \in 1..n : options.filter[key][k] \in PatternTexts
    BY <2>1, <2>2
  <2>4. \A k \in 1..n : IsText(options.filter[key][k])
    BY <2>3, WordsAreTexts
  <2>5. options.filter[key] \in Seq(Range(options.filter[key]))
    <3>1. \A k \in 1..n : options.filter[key][k] \in Range(options.filter[key])
      BY <2>2 DEF Range
    <3> HIDE DEF Range
    <3>2. QED
      BY <2>1, <2>2, <3>1
  <2>6. QED
    BY <2>2, <2>4, <2>5 DEF ArePatterns
<1>2. QED
  BY <1>1 DEF FiltersAreTexts

\* A device that passes the filter on an interface that was asked is wanted.
LEMMA PassedIsWanted ==
  ASSUME FiltersAreTexts, NEW d \in Infos, Asks(d.iface), filterDevice(d, options.filter) = "yes"
  PROVE  Wanted(d)
<1>1. \A key \in Range(Keys) : MatchesFilter(Text(d, key), options.filter[key]) = "yes"
  BY FilterDeviceIs DEF FiltersAreTexts
<1>2. ASSUME NEW key \in Range(Keys), key # "iface"
      PROVE  Range(options.filter[key]) = {} \/ \E p \in Range(options.filter[key]) : Means(p, Text(d, key))
  <2>1. ArePatterns(options.filter[key]) /\ IsText(Text(d, key))
    BY InfoTexts DEF FiltersAreTexts
  <2>2. \/ options.filter[key] = << >>
        \/ \E k \in DOMAIN options.filter[key] : wildcardMatch(Text(d, key), options.filter[key][k]) = "yes"
    BY <1>1, <2>1, MatchesFilterIs
  <2>3. CASE options.filter[key] = << >>
    BY <2>3 DEF Range
  <2>4. CASE \E k \in DOMAIN options.filter[key] : wildcardMatch(Text(d, key), options.filter[key][k]) = "yes"
    <3>1. PICK k \in DOMAIN options.filter[key] : wildcardMatch(Text(d, key), options.filter[key][k]) = "yes"
      BY <2>4
    <3>2. IsText(options.filter[key][k])
      BY <2>1 DEF ArePatterns
    <3>3. Means(options.filter[key][k], Text(d, key))
      BY <2>1, <3>1, <3>2, MatchIsSound
    <3>4. options.filter[key][k] \in Range(options.filter[key])
      BY DEF Range
    <3>5. QED
      BY <3>3, <3>4
  <2>5. QED
    BY <2>2, <2>3, <2>4
<1>3. options.filter["iface"] = << >> \/ d.iface \in Range(options.filter["iface"])
  BY DEF Asks
<1>4. options.filter["iface"] = << >> => Range(options.filter["iface"]) = {}
  BY DEF Range
<1>5. QED
  BY <1>2, <1>3, <1>4 DEF Wanted

\* A device that is wanted is not refused by the filter.
LEMMA WantedPasses ==
  ASSUME FiltersAreTexts, NoDoubleStar, NEW d \in Infos, \A key \in Range(Keys) : "*" \notin Range(Text(d, key)),
         Wanted(d)
  PROVE  filterDevice(d, options.filter) # "no"
<1>1. SUFFICES ASSUME NEW key \in Range(Keys), MatchesFilter(Text(d, key), options.filter[key]) = "no"
               PROVE  FALSE
  BY FilterDeviceIs DEF FiltersAreTexts
<1>2. ArePatterns(options.filter[key]) /\ IsText(Text(d, key))
  BY InfoTexts DEF FiltersAreTexts
<1>3. /\ options.filter[key] # << >>
      /\ \A k \in DOMAIN options.filter[key] : wildcardMatch(Text(d, key), options.filter[key][k]) = "no"
  BY <1>1, <1>2, MatchesFilterIs
<1>4. ASSUME NEW p \in Range(options.filter[key])
      PROVE  wildcardMatch(Text(d, key), p) = "no" /\ IsText(p) /\ Plain(Text(d, key), p)
  <2>1. PICK k \in DOMAIN options.filter[key] : p = options.filter[key][k]
    BY DEF Range
  <2>2. p \in Patterns
    BY DEF Patterns
  <2>3. Plain(Text(d, key), p)
    BY <2>2 DEF Plain, NoDoubleStar
  <2>4. QED
    BY <1>2, <1>3, <2>1, <2>3 DEF ArePatterns
<1>5. Range(options.filter[key]) # {}
  <2>1. options.filter[key] \in Seq(Range(options.filter[key]))
    BY <1>2 DEF ArePatterns
  <2>2. 1 \in DOMAIN options.filter[key]
    <3> HIDE DEF Range
    <3>1. QED
      BY <1>3, <2>1
  <2>3. QED
    BY <2>2 DEF Range
<1>6. CASE key = "iface" /\ d.iface \in Range(options.filter[key])
  <2>1. Text(d, key) = d.iface
    BY <1>6 DEF Text
  <2>2. wildcardMatch(d.iface, d.iface) = "yes"
    BY <1>2, <2>1, SameIsMatched
  <2>3. QED
    BY <1>4, <1>6, <2>1, <2>2
<1>7. CASE \E p \in Range(options.filter[key]) : Means(p, Text(d, key))
  <2>1. PICK p \in Range(options.filter[key]) : Means(p, Text(d, key))
    BY <1>7
  <2>2. QED
    BY <1>2, <1>4, <2>1, MatchIsSound
<1>8. QED
  BY <1>5, <1>6, <1>7 DEF Wanted

\* An undefined outcome comes from a pattern with a question mark.
LEMMA UndefinedPattern ==
  ASSUME FiltersAreTexts, NEW d \in Infos, filterDevice(d, options.filter) = "undefined"
  PROVE  \E p \in Patterns : \E j \in 2..Len(p) : p[j - 1] = "?" /\ p[j] # "?"
<1>1. PICK key \in Range(Keys) : MatchesFilter(Text(d, key), options.filter[key]) = "undefined"
  BY FilterDeviceIs DEF FiltersAreTexts
<1>2. ArePatterns(options.filter[key]) /\ IsText(Text(d, key))
  BY InfoTexts DEF FiltersAreTexts
<1>3. PICK k \in DOMAIN options.filter[key] : wildcardMatch(Text(d, key), options.filter[key][k]) = "undefined"
  BY <1>1, <1>2, MatchesFilterIs
<1>4. PICK p : p = options.filter[key][k]
  OBVIOUS
<1>5. IsText(p) /\ wildcardMatch(Text(d, key), p) = "undefined"
  BY <1>2, <1>3, <1>4 DEF ArePatterns
<1>6. \E j \in 2..Len(p) : p[j - 1] = "?" /\ p[j] # "?"
  BY <1>2, <1>5, MatchIsSound
<1>7. p \in Patterns
  BY <1>4 DEF Patterns, Range
<1>8. QED
  BY <1>6, <1>7

LEMMA Exact == FilterInv /\ ChosenInv /\ CliInv => SelectionIsExact
<1>1. SUFFICES ASSUME FilterInv, ChosenInv, CliInv PROVE SelectionIsExact
  OBVIOUS
<1>2. FiltersAreTexts
  BY <1>1, FilterTexts
<1>3. infos \in Seq(Infos) /\ \A e \in Range(infos) : e \in Infos /\ Asks(e.iface)
  <2>1. infos \in Seq(Infos)
    BY <1>1 DEF CliInv, ListsInv
  <2>2. \A e \in Range(infos) : e \in Infos
    BY <2>1 DEF Range
  <2>3. QED
    BY <1>1, <2>1, <2>2 DEF ChosenInv
<1>4. ASSUME Undefined
      PROVE  \E p \in Patterns : \E j \in 2..Len(p) : p[j - 1] = "?" /\ p[j] # "?"
  <2>1. PICK e \in Range(infos) : filterDevice(e, options.filter) = "undefined"
    BY <1>4 DEF Undefined
  <2>2. QED
    BY <1>2, <1>3, <2>1, UndefinedPattern
<1>5. ASSUME Selected
      PROVE  /\ \A e \in Range(devices) : e \in Range(infos) /\ Listed(e)
             /\ ~Undefined =>
                  /\ \A e \in Range(devices) : Wanted(e)
                  /\ NoDoubleStar /\ NoStarAnswered =>
                       \A e \in Range(infos) :
                         (\A d \in Range(infos) : SameEntry(d, e) => Wanted(d) /\ Listed(d)) =>
                            \E d \in Range(devices) : SameEntry(d, e)
  <2>1. PICK sorted \in Sortings(infos) :
          \E passed \in Passing(Kept(sorted, Firsts(sorted))) : devices = Kept(Kept(sorted, Firsts(sorted)), passed)
    BY <1>1, <1>5 DEF ChosenInv, Chosen
  <2>2. PICK entries : entries = Kept(sorted, Firsts(sorted))
    OBVIOUS
  <2>3. PICK passed \in Passing(entries) : devices = Kept(entries, passed)
    BY <2>1, <2>2
  <2>4. sorted \in Seq(Infos) /\ Range(sorted) = Range(infos)
    BY <1>3, SortingHasAll
  <2>5. Firsts(sorted) \in SUBSET (DOMAIN sorted)
    BY DEF Firsts
  <2>6. /\ \A d \in Range(entries) : \E s \in Firsts(sorted) : d = sorted[s]
        /\ \A s \in Firsts(sorted) : sorted[s] \in Range(entries)
        /\ entries \in Seq(Infos)
    BY <2>2, <2>4, <2>5, KeptAre
  <2>7. \A d \in Range(entries) : d \in Range(infos)
    BY <2>4, <2>5, <2>6 DEF Range
  <2>8. /\ passed \in SUBSET (DOMAIN entries)
        /\ \A s \in passed : Listed(entries[s]) /\ filterDevice(entries[s], options.filter) \in {"yes", "undefined"}
        /\ \A s \in DOMAIN entries :
             Listed(entries[s]) /\ filterDevice(entries[s], options.filter) = "yes" => s \in passed
    BY DEF Passing
  <2>9. /\ \A d \in Range(devices) : \E s \in passed : d = entries[s]
        /\ \A s \in passed : entries[s] \in Range(devices)
    BY <2>3, <2>6, <2>8, KeptAre
  <2>10. ASSUME NEW e \in Range(devices)
         PROVE  /\ e \in Range(infos) /\ Listed(e)
                /\ ~Undefined => Wanted(e)
    <3>1. PICK s \in passed : e = entries[s]
      BY <2>9
    <3>2. e \in Range(infos)
      <4>1. e \in Range(entries)
        BY <2>8, <3>1 DEF Range
      <4>2. QED
        BY <2>7, <4>1
    <3>3. Listed(e) /\ filterDevice(e, options.filter) \in {"yes", "undefined"}
      BY <2>8, <3>1
    <3>4. ~Undefined => filterDevice(e, options.filter) = "yes"
      BY <3>2, <3>3 DEF Undefined
    <3>5. QED
      BY <1>2, <1>3, <3>2, <3>3, <3>4, PassedIsWanted
  <2>11. ASSUME ~Undefined, NoDoubleStar, NoStarAnswered, NEW e \in Range(infos),
                \A d \in Range(infos) : SameEntry(d, e) => Wanted(d) /\ Listed(d)
         PROVE  \E d \in Range(devices) : SameEntry(d, e)
    <3>1. PICK i \in Firsts(sorted) : SameEntry(sorted[i], e)
      BY <2>4, FirstOfEach
    <3>2. PICK d \in Range(entries) : d = sorted[i]
      BY <2>6
    <3>3. d \in Range(infos) /\ Wanted(d) /\ Listed(d) /\ d \in Infos
      BY <1>3, <2>7, <2>11, <3>1, <3>2
    <3>4. filterDevice(d, options.filter) # "no"
      BY <1>2, <2>11, <3>3, WantedPasses DEF NoStarAnswered
    <3>5. filterDevice(d, options.filter) # "undefined"
      BY <2>11, <3>3 DEF Undefined
    <3>6. filterDevice(d, options.filter) = "yes"
      BY <1>2, <3>3, <3>4, <3>5, FilterDeviceIs DEF FiltersAreTexts
    <3>7. PICK s \in DOMAIN entries : d = entries[s]
      BY DEF Range
    <3>8. s \in passed
      BY <2>8, <3>3, <3>6, <3>7
    <3>9. QED
      BY <2>9, <3>1, <3>2, <3>7, <3>8
  <2>12. QED
    BY <2>10, <2>11
<1>6. QED
  BY <1>4, <1>5 DEF SelectionIsExact

\* The selection is what the filter says.
THEOREM SelectionIsWhatIsMeant == Spec => []SelectionIsExact
<1>1. Init => FilterInv /\ ChosenInv
  BY ChosenInvInit
<1>2. FilterInv /\ ChosenInv /\ CliInv /\ [Next]_vars => (FilterInv /\ ChosenInv)'
  BY ChosenInvStep
<1>3. FilterInv /\ ChosenInv /\ CliInv => SelectionIsExact
  BY Exact
<1>4. Spec => []CliInv
  BY InvHolds
<1>5. QED
  BY <1>1, <1>2, <1>3, <1>4, PTL DEF Spec

=============================================================================
