------------------------------ MODULE Settings ------------------------------
(***************************************************************************)
(* The settings of rcdiscover-gui: read from a file in the home directory  *)
(* when the program starts, written line by line when it ends.  A file is  *)
(* the sequence of its words, which is how it is read; it may end anywhere *)
(* between two lines if the program is killed while it writes.  The width  *)
(* stands for the height as well.                                          *)
(***************************************************************************)
EXTENDS Naturals, SequencesExt

CONSTANTS
  Numerals,  \* words that are numbers
  Widths,    \* those a window may be given
  Columns,   \* those that are columns of the table
  Filters    \* filter texts, each the sequence of its words

Keys == {"width", "only_rc", "sort_col", "sort_down"}

ASSUME SettingsAssumption == Widths \union Columns \union {"0", "1", "1180"} \subseteq Numerals /\ "0" \in Columns

\* A key is no number, and a filter text is a sequence.
ASSUME WordsAssumption ==
  /\ Numerals \intersect Keys = {}
  /\ \A text \in Filters : text \in Seq(Range(text))

VARIABLES
  pc,        \* "off", "running", "storing"
  home,      \* there is a home directory
  disk,      \* the words of the file
  todo,      \* the lines still to be written
  loaded,    \* main's variables
  shown,     \* what the window has now
  filter,    \* the text of the filter field
  stored,    \* history: what the window had at the last normal end
  typed,     \* history: the filter text at that end
  stuck      \* history: the column that had been loaded was none at that end

vars == <<pc, home, disk, todo, loaded, shown, filter, stored, typed, stuck>>

Default == [width |-> "1180", only_rc |-> "1", sort_col |-> "0", sort_down |-> "1"]

-----------------------------------------------------------------------------

\* Any number but zero is true.
Truth(word) == IF word = "0" THEN "0" ELSE "1"

\* Two words at a time, a key and its value; the last value of a key counts.  A
\* known key with a value that is no number ends the reading.
Load(words) ==
  LET wrong == {i \in 1..(Len(words) \div 2) : words[2 * i - 1] \in Keys /\ words[2 * i] \notin Numerals}
      pairs == {i \in 1..(Len(words) \div 2) : \A j \in wrong : i < j}
      value(key) ==
        LET at == {i \in pairs : words[2 * i - 1] = key}
        IN  IF at = {} THEN Default[key] ELSE words[2 * Max(at)]
  IN  [key \in Keys |-> IF key = "sort_down" THEN Truth(value(key)) ELSE value(key)]

\* Mutation of Lines: the filter comes first.
LinesFilterFirst(s, text) ==
  (IF text = << >> THEN << >> ELSE << <<"filter">> \o text >>)
    \o << <<"width", s.width>>, <<"only_rc", s.only_rc>> >>
    \o << <<"sort_col", s.sort_col>>, <<"sort_down", s.sort_down>> >>

\* The filter is written if there is one, and passed over when it is read.
Lines(s, text) ==
  << <<"width", s.width>>, <<"only_rc", s.only_rc>> >>
    \o (IF text = << >> THEN << >> ELSE << <<"filter">> \o text >>)
    \o << <<"sort_col", s.sort_col>>, <<"sort_down", s.sort_down>> >>

\* DeviceList::getSorting leaves main's variables alone if the column that was
\* loaded is none.
Sorted(s) ==
  IF loaded.sort_col \in Columns THEN s
  ELSE [s EXCEPT !.sort_col = loaded.sort_col, !.sort_down = loaded.sort_down]

Init ==
  /\ pc = "off"
  /\ home \in BOOLEAN
  /\ disk = << >> /\ todo = << >> /\ filter = << >> /\ typed = << >>
  /\ stuck = FALSE
  /\ loaded = Default /\ shown = Default /\ stored = Default

\* The filter field is empty at the start, whatever was stored.
Start ==
  /\ pc = "off"
  /\ pc' = "running"
  /\ loaded' = IF home THEN Load(disk) ELSE Default
  /\ shown' = [loaded' EXCEPT !.only_rc = Truth(@)]
  /\ filter' = << >>
  /\ UNCHANGED <<home, disk, todo, stored, typed, stuck>>

\* What the user does to the window; a click on the column that is sorted by
\* turns the order.
Use ==
  /\ pc = "running"
  /\ \/ \E w \in Widths : shown' = [shown EXCEPT !.width = w] /\ UNCHANGED filter
     \/ shown' = [shown EXCEPT !.only_rc = IF @ = "0" THEN "1" ELSE "0"] /\ UNCHANGED filter
     \/ /\ \E c \in Columns :
             shown' = IF c # shown.sort_col THEN [shown EXCEPT !.sort_col = c, !.sort_down = "1"]
                      ELSE [shown EXCEPT !.sort_down = IF @ = "0" THEN "1" ELSE "0"]
        /\ UNCHANGED filter
     \/ filter' \in Filters /\ UNCHANGED shown
  /\ UNCHANGED <<pc, home, disk, todo, loaded, stored, typed, stuck>>

\* The file is emptied when it is opened.
Quit ==
  /\ pc = "running"
  /\ IF home
       THEN /\ pc' = "storing"
            /\ disk' = << >>
            /\ todo' = Lines(Sorted(shown), filter)
            /\ stored' = shown
            /\ typed' = filter
            /\ stuck' = (loaded.sort_col \notin Columns)
       ELSE pc' = "off" /\ UNCHANGED <<disk, todo, stored, typed, stuck>>
  /\ UNCHANGED <<home, loaded, shown, filter>>

\* Each line is flushed.
Store ==
  /\ pc = "storing"
  /\ IF todo = << >>
       THEN pc' = "off" /\ UNCHANGED <<disk, todo>>
       ELSE /\ disk' = disk \o Head(todo)
            /\ todo' = Tail(todo)
            /\ UNCHANGED pc
  /\ UNCHANGED <<home, loaded, shown, filter, stored, typed, stuck>>

\* The program is killed, or dies of sorting by a column that is none, whose
\* cells are not there; what has not been written is lost.
Crash ==
  /\ pc \in {"running", "storing"}
  /\ pc' = "off"
  /\ UNCHANGED <<home, disk, todo, loaded, shown, filter, stored, typed, stuck>>

Next == Start \/ Use \/ Quit \/ Store \/ Crash

Spec == Init /\ [][Next]_vars

-----------------------------------------------------------------------------
(* Properties                                                              *)

\* The next start finds the settings of the last normal end ("Filtering and
\* sorting settings are now persistent", but for the filter text): all of them
\* after a filter text of at most one word.  An even number of words shifts the
\* pairs that follow, and writing may be cut short: then a setting is the stored
\* one or the default.  Only a filter text that spells a key can do more harm.
\* A sort column that is none, which such a text can leave, is never repaired:
\* it hides the user's sorting from then on.
Restored ==
  [][Start /\ home =>
       LET complete == todo = << >>
           kept == IF stuck THEN {"width", "only_rc"} ELSE Keys
       IN  /\ complete /\ Len(typed) <= 1 => \A key \in kept : loaded'[key] = stored[key]
           /\ complete /\ Len(typed) <= 1 /\ stuck => loaded'.sort_col \notin Columns
           /\ Range(typed) \intersect Keys = {} =>
                /\ \A key \in kept : loaded'[key] \in {stored[key], Default[key]}
                /\ complete => \A key \in {"width", "only_rc"} : loaded'[key] = stored[key]
                /\ complete /\ Len(typed) % 2 = 1 => \A key \in kept : loaded'[key] = stored[key]]_vars

=============================================================================
