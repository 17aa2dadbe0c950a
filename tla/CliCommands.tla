---------------------------- MODULE CliCommands ----------------------------
(***************************************************************************)
(* The command line tool: ls, forceip, reset and reconnect, from the words *)
(* of the command line through discovery, filter, table and confirmation   *)
(* to the commands that go to the devices.  A word is a record: [is] alone *)
(* for a plain word, with key and pattern for an argument of -f, with      *)
(* fields for a dotted address.  Texts are sequences of characters, which  *)
(* the filter compares without case: all are lower case here.              *)
(***************************************************************************)
EXTENDS Enumeration, SequencesExt

CONSTANTS
  Argvs,       \* the command lines
  Interfaces,  \* the names of the interfaces, in alphabetical order
  Entries,     \* what can be answered: a device as seen on an interface
  Lengths,     \* how long an answer can be
  MaxAnswers   \* bound: answers received in one run of the program

ASSUME InterfacesAssumption ==
  /\ Interfaces \in Seq(Range(Interfaces)) /\ IsInjective(Interfaces)
  /\ {e.iface : e \in Entries} \subseteq Range(Interfaces)
ASSUME EntriesAssumption == {e.mac : e \in Entries} \subseteq Nat

\* A text is a sequence of characters.
IsText(text) == text \in Seq(Range(text))

ASSUME TextsAssumption ==
  /\ \A e \in Entries : IsText(e.user) /\ IsText(e.model) /\ IsText(e.serial) /\ IsText(e.iface)
  /\ \A argv \in Argvs :
       /\ argv \in Seq(Range(argv))
       /\ \A k \in DOMAIN argv : argv[k].is = "filter" => IsText(argv[k].pattern)

VARIABLES
  pc,        \* where the program is; "exited" and "aborted" (by an exception) end it
  args,      \* the words still to be read
  command,   \* "ls", "forceip", "reset", "reconnect"; "none" before dispatch
  options,   \* what the words have set
  asked,     \* the interfaces a discovery request went out on
  infos,     \* the answers in the order in which they came
  devices,   \* the selection
  table,     \* what has been printed of it
  agreed,    \* the user has said yes, or -y
  acted,     \* history: the commands sent, in order
  code       \* what the program has said last: "none", "0", "1", "Done"

vars == <<pc, args, command, options, asked, infos, devices, table, agreed, acted, code>>
later == <<asked, infos, devices, table, agreed, acted>>

-----------------------------------------------------------------------------
(* wildcardMatch, with the outcomes "yes", "no" and "undefined"            *)

\* Mutation of Compared: a star takes at least one character.
ComparedPlus(m, str, p, i, j) ==
  LET end == Len(str) + 1
  IN  IF j > Len(p) THEN IF i = end THEN "yes" ELSE "no"
      ELSE IF p[j] = "?" THEN m[<<IF i > end THEN i ELSE i + 1, j + 1>>]
      ELSE IF i > end THEN "undefined"
      ELSE IF i = end THEN "no"
      ELSE IF p[j] = str[i] THEN m[<<i + 1, j + 1>>]
      ELSE IF p[j] = "*" /\ m[<<i + 1, j>>] = "yes" THEN "yes"
      ELSE IF p[j] = "*" THEN m[<<i + 1, j + 1>>]
      ELSE "no"

\* The string from i is compared with the pattern from j.  A question mark steps
\* forward even at the end of the string: from there (i > end) the end is never
\* met again, and what is read is not the string's.
Compared(m, str, p, i, j) ==
  LET end == Len(str) + 1
  IN  IF j > Len(p) THEN IF i = end THEN "yes" ELSE "no"
      ELSE IF i = end /\ p[j] = "*" THEN IF j = Len(p) THEN "yes" ELSE "no"
      ELSE IF p[j] = "?" THEN m[<<IF i > end THEN i ELSE i + 1, j + 1>>]
      ELSE IF i > end THEN "undefined"
      ELSE IF i = end THEN "no"
      ELSE IF p[j] = str[i] THEN m[<<i + 1, j + 1>>]
      ELSE IF p[j] = "*" THEN IF m[<<i + 1, j>>] # "no" THEN m[<<i + 1, j>>] ELSE m[<<i, j + 1>>]
      ELSE "no"

wildcardMatch(str, p) ==
  LET m[at \in (1..Len(str) + 2) \X (1..Len(p) + 1)] == Compared(m, str, p, at[1], at[2])
  IN  m[<<1, 1>>]

-----------------------------------------------------------------------------
(* The filter                                                              *)

Keys == <<"name", "serial", "mac", "iface", "model">>

HexDigits == <<"0", "1", "2", "3", "4", "5", "6", "7", "8", "9", "a", "b", "c", "d", "e", "f">>

\* Two digits for each byte: here a MAC has one.
mac2string(mac) == <<HexDigits[(mac \div 16) + 1], HexDigits[(mac % 16) + 1]>>

\* The name is the user's, or the model's if the user gave none.
Name(e) == IF e.user = << >> THEN e.model ELSE e.user

Text(e, key) ==
  CASE key = "name" -> Name(e)
    [] key = "mac" -> mac2string(e.mac)
    [] key = "serial" -> e.serial
    [] key = "iface" -> e.iface
    [] key = "model" -> e.model

\* The first outcome that decides, as any_of and the chain of returns take it.
FirstOther(outcomes, usual) ==
  LET others == {k \in DOMAIN outcomes : outcomes[k] # usual}
  IN  IF others = {} THEN usual ELSE outcomes[Min(others)]

MatchesFilter(str, patterns) ==
  IF patterns = << >> THEN "yes"
  ELSE FirstOther([k \in DOMAIN patterns |-> wildcardMatch(str, patterns[k])], "no")

filterDevice(e, filter) ==
  FirstOther([k \in 1..5 |-> MatchesFilter(Text(e, Keys[k]), filter[Keys[k]])], "yes")

-----------------------------------------------------------------------------
(* From the answers to a list                                              *)

Rank(iface) == CHOOSE i \in DOMAIN Interfaces : Interfaces[i] = iface

\* operator<
Less(d, e) == d.mac < e.mac \/ (d.mac = e.mac /\ Rank(d.iface) < Rank(e.iface))

SameEntry(d, e) == d.mac = e.mac /\ d.iface = e.iface

\* Mutation of Sortings: equal entries are dropped without sorting.
Unsorted(list) == {list}

\* std::sort: entries that are equal come in any order.
Sortings(list) ==
  {[i \in DOMAIN list |-> list[p[i]]] :
     p \in {q \in Bijection(DOMAIN list, DOMAIN list) :
              \A i, j \in DOMAIN list : i < j => ~Less(list[q[j]], list[q[i]])}}

\* std::unique: an entry equal to the one before it is dropped.
Firsts(list) == {i \in DOMAIN list : i = 1 \/ ~SameEntry(list[i - 1], list[i])}

\* printDeviceTable: a line for each device with all its interfaces, or one for
\* each entry if only addresses or serial numbers are printed.
Heads(list, short) == {i \in DOMAIN list : short \/ i = 1 \/ list[i - 1].mac # list[i].mac}

Row(list, first, last) ==
  [mac |-> list[first].mac, ifaces |-> [n \in 1..(last - first + 1) |-> list[first + n - 1].iface]]

Printed(list, short) ==
  LET h == Ascending(Heads(list, short))
  IN  [k \in DOMAIN h |-> Row(list, h[k], IF k = Len(h) THEN Len(list) ELSE h[k + 1] - 1)]

-----------------------------------------------------------------------------
(* Reading the words                                                       *)

Help == {"-h", "--help"}
Dashes == Help \union {"-y", "-f", "-iponly", "--iponly", "-serialonly", "--serialonly", "--version", "--other"}
Commands == {"ls", "forceip", "reset", "reconnect"}
Operations == {"parameters", "network", "all", "switch-partition"}

Init ==
  /\ pc = "dispatch"
  /\ args \in Argvs
  /\ command = "none"
  /\ options = [filter |-> [k \in Range(Keys) |-> << >>], yes |-> FALSE,
                short |-> FALSE, op |-> "none", addresses |-> << >>]
  /\ asked = {}
  /\ infos = << >> /\ devices = << >> /\ table = << >> /\ acted = << >>
  /\ agreed = FALSE
  /\ code = "none"

Exit(c) == pc' = "exited" /\ code' = c

GoTo(label) == pc' = label /\ UNCHANGED code

NextWord == IF args = << >> THEN "" ELSE Head(args).is  \* which may be "" too

\* main: without a word that can be a command, which an empty one cannot, the
\* command is ls.
Dispatch ==
  /\ pc = "dispatch"
  /\ \/ /\ NextWord \in Help \union {"--version"}
        /\ Exit("0")
        /\ UNCHANGED <<args, command>>
     \/ /\ NextWord \in (Dashes \ (Help \union {"--version"})) \union {""}
        /\ command' = "ls"
        /\ GoTo("options")
        /\ UNCHANGED args
     \/ /\ NextWord \in Commands
        /\ command' = NextWord
        /\ args' = Tail(args)
        /\ GoTo(IF NextWord = "reset" THEN "operation" ELSE "options")
     \/ /\ NextWord \notin Dashes \union Commands \union {""}
        /\ Exit("1")
        /\ UNCHANGED <<args, command>>
  /\ UNCHANGED <<options, later>>

\* runReset begins with the operation.
Operation ==
  /\ pc = "operation"
  /\ IF NextWord \in Operations
       THEN /\ GoTo("options")
            /\ options' = [options EXCEPT !.op = NextWord]
            /\ args' = Tail(args)
       ELSE /\ Exit(IF NextWord \in Help THEN "0" ELSE "1")
            /\ UNCHANGED <<options, args>>
  /\ UNCHANGED <<command, later>>

\* parseFilterArguments takes the word after -f.
FilterOption ==
  /\ NextWord = "-f"
  /\ IF Len(args) > 1 /\ args[2].is = "filter"
       THEN /\ options' = [options EXCEPT !.filter[args[2].key] = Append(@, args[2].pattern)]
            /\ args' = SubSeq(args, 3, Len(args))
            /\ GoTo("options")
       ELSE Exit("1") /\ UNCHANGED <<options, args>>

HelpOption == NextWord \in Help /\ Exit("0") /\ UNCHANGED <<options, args>>

YesOption ==
  /\ NextWord = "-y"
  /\ options' = [options EXCEPT !.yes = TRUE]
  /\ args' = Tail(args)
  /\ GoTo("options")

ShortOption ==
  /\ NextWord \in {"-iponly", "--iponly", "-serialonly", "--serialonly"}
  /\ options' = [options EXCEPT !.short = TRUE]
  /\ args' = Tail(args)
  /\ GoTo("options")

\* An empty word is wrong as well.
WrongOption(known) ==
  /\ args # << >>
  /\ NextWord \notin known \union Help \union {"-f"}
  /\ Exit("1")
  /\ UNCHANGED <<options, args>>

EndOfOptions == GoTo("check") /\ UNCHANGED <<options, args>>

EndOfWords == args = << >> /\ EndOfOptions

LsOption ==
  \/ ShortOption \/ FilterOption \/ HelpOption
  \/ EndOfWords
  \/ WrongOption({"-iponly", "--iponly", "-serialonly", "--serialonly"})

\* The options end at the first word that is none: the addresses follow.
ForceIPOption ==
  \/ YesOption \/ FilterOption \/ HelpOption
  \/ NextWord \notin Dashes /\ EndOfOptions
  \/ NextWord \in Dashes /\ WrongOption({"-y"})

ResetOption ==
  \/ YesOption \/ FilterOption \/ HelpOption
  \/ EndOfWords
  \/ WrongOption({"-y"})

ReconnectOption ==
  \/ YesOption \/ FilterOption \/ HelpOption
  \/ EndOfWords
  \/ WrongOption({"-y"})

Option ==
  /\ pc = "options"
  /\ \/ command = "ls" /\ LsOption
     \/ command = "forceip" /\ ForceIPOption
     \/ command = "reset" /\ ResetOption
     \/ command = "reconnect" /\ ReconnectOption
  /\ UNCHANGED <<command, later>>

\* One of the filters that tell devices apart must be given.
NoFilterSet == \A key \in {"mac", "name", "serial"} : options.filter[key] = << >>

\* split: as many fields as asked for, neither the first nor the last empty (an
\* empty field, and what stoul does not take, stands as -1).
Split(fields, n) == Len(fields) = n /\ fields[1] # -1 /\ fields[n] # -1

\* string2byte
IsBytes(fields, n) == Split(fields, n) /\ \A i \in 1..n : fields[i] \in 0..255

\* The addresses as bytes, << >> if one of them is missing or wrong.
ForceIPArguments ==
  IF Len(args) = 3 /\ \A i \in 1..3 : args[i].is = "address" /\ IsBytes(args[i].fields, 4)
    THEN <<args[1].fields, args[2].fields, args[3].fields>>
    ELSE << >>

CheckArguments ==
  /\ pc = "check"
  /\ options' = [options EXCEPT !.addresses = IF command = "forceip" THEN ForceIPArguments ELSE << >>]
  /\ IF command # "ls" /\ (NoFilterSet \/ (command = "forceip" /\ ForceIPArguments = << >>))
       THEN Exit("1")
       ELSE GoTo("ask")
  /\ UNCHANGED <<args, command, later>>

-----------------------------------------------------------------------------
(* Discovery                                                               *)

\* broadcastRequest compares names: a pattern is not expanded.
Asks(iface) == options.filter["iface"] = << >> \/ iface \in Range(options.filter["iface"])

\* An exception of discovery is caught nowhere.
Ask ==
  /\ pc = "ask"
  /\ \/ GoTo("collect") /\ asked' = {i \in Range(Interfaces) : Asks(i)}
     \/ GoTo("aborted") /\ UNCHANGED asked
  /\ UNCHANGED <<args, command, options, infos, devices, table, agreed, acted>>

\* DeviceInfo::set takes what the answer is long enough for.
DeviceInfo(e, len) ==
  [mac |-> IF len >= 16 THEN e.mac ELSE 0,
   model |-> IF len >= 136 THEN e.model ELSE << >>,
   serial |-> IF len >= 232 THEN e.serial ELSE << >>,
   user |-> IF len >= 248 THEN e.user ELSE << >>,
   iface |-> e.iface]

IsValid(e) == e.mac # 0

\* getResponse hands on an answer that has a MAC address; a device may answer
\* several times.
Hear ==
  /\ pc = "collect"
  /\ Len(infos) < MaxAnswers
  /\ \E e \in Entries, len \in Lengths :
       /\ e.iface \in asked
       /\ IsValid(DeviceInfo(e, len))
       /\ infos' = Append(infos, DeviceInfo(e, len))
  /\ UNCHANGED <<pc, args, command, options, asked, devices, table, agreed, acted, code>>

\* ls tests again for a MAC address.
Listed(e) == command = "ls" => IsValid(e)

\* The positions the filter leaves.  An undefined outcome may be either.
Passing(list) ==
  LET with(outcome) == {i \in DOMAIN list : Listed(list[i]) /\ filterDevice(list[i], options.filter) = outcome}
  IN  {with("yes") \union S : S \in SUBSET with("undefined")}

discoverWithFilter ==
  \E sorted \in Sortings(infos) :
    LET entries == Kept(sorted, Firsts(sorted))
    IN  \E passed \in Passing(entries) : devices' = Kept(entries, passed)

\* ls prints what it has found.
LsShows ==
  /\ discoverWithFilter
  /\ table' = Printed(devices', options.short)
  /\ Exit("0")
  /\ UNCHANGED agreed

\* Print and ask, if there is something to ask about.
ShowOrLeave(enough) ==
  /\ discoverWithFilter
  /\ IF devices' = << >>
       THEN Exit("0") /\ UNCHANGED <<table, agreed>>
       ELSE /\ table' = Printed(devices', FALSE)
            /\ IF Len(devices') > enough THEN Exit("0") /\ UNCHANGED agreed
               ELSE /\ agreed' = options.yes
                    /\ GoTo(IF options.yes THEN "act" ELSE "confirm")

\* Mutation of ForceIPShows: any number of devices will do.
ForceIPShowsAll == ShowOrLeave(MaxAnswers)

\* An address is for one entry.
ForceIPShows == ShowOrLeave(1)

ResetShows == ShowOrLeave(Len(infos))

ReconnectShows == ShowOrLeave(Len(infos))

\* A read past the end of a string may also end the program.
Undefined ==
  \E e \in Range(infos) :
    Listed(e) /\ filterDevice(e, options.filter) = "undefined"

Select ==
  /\ pc = "collect"
  /\ \/ command = "ls" /\ LsShows
     \/ command = "forceip" /\ ForceIPShows
     \/ command = "reset" /\ ResetShows
     \/ command = "reconnect" /\ ReconnectShows
     \/ Undefined /\ GoTo("aborted") /\ UNCHANGED <<devices, table, agreed>>
  /\ UNCHANGED <<args, command, options, asked, infos, acted>>

\* Mutation of Confirm: the answer is not looked at.
ConfirmAnyhow ==
  /\ pc = "confirm"
  /\ GoTo("act")
  /\ agreed' \in BOOLEAN
  /\ UNCHANGED <<args, command, options, asked, infos, devices, table, acted>>

Confirm ==
  /\ pc = "confirm"
  /\ \/ GoTo("act") /\ agreed' = TRUE
     \/ Exit("0") /\ UNCHANGED agreed
  /\ UNCHANGED <<args, command, options, asked, infos, devices, table, acted>>

-----------------------------------------------------------------------------
(* Acting on the devices, one after the other                              *)

ForceIP(e) == [to |-> e.mac, do |-> "forceip", with |-> options.addresses]

\* A magic packet whose last password byte is the operation.
Reset(e) == [to |-> e.mac, do |-> "wake", with |-> options.op]

\* FORCEIP with nothing but zeros.
Zero == <<0, 0, 0, 0>>
Reconnect(e) == [to |-> e.mac, do |-> "forceip", with |-> <<Zero, Zero, Zero>>]

CommandFor(e) ==
  CASE command = "forceip" -> ForceIP(e)
    [] command = "reset" -> Reset(e)
    [] command = "reconnect" -> Reconnect(e)

\* An exception of a socket is caught nowhere.
Act ==
  /\ pc = "act"
  /\ \/ /\ Len(acted) < Len(devices)
        /\ acted' = Append(acted, CommandFor(devices[Len(acted) + 1]))
        /\ GoTo("act")
     \/ /\ Len(acted) < Len(devices)
        /\ GoTo("aborted")
        /\ UNCHANGED acted
     \/ /\ Len(acted) = Len(devices)
        /\ Exit("Done")
        /\ UNCHANGED acted
  /\ UNCHANGED <<args, command, options, asked, infos, devices, table, agreed>>

Next == Dispatch \/ Operation \/ Option \/ CheckArguments \/ Ask \/ Hear \/ Select \/ Confirm \/ Act

Spec == Init /\ [][Next]_vars
-----------------------------------------------------------------------------
(* Properties                                                              *)

\* The selection has been made.
Selected == pc \in {"confirm", "act"} \/ (pc = "exited" /\ asked # {})

\* What a pattern means: the text can be cut into pieces, one for each character
\* of the pattern.
Means(p, str) ==
  \E cut \in [0..Len(p) -> 0..Len(str)] :
    /\ cut[0] = 0 /\ cut[Len(p)] = Len(str)
    /\ \A j \in 1..Len(p) :
         IF p[j] = "*" THEN cut[j] >= cut[j - 1]
         ELSE cut[j] = cut[j - 1] + 1 /\ p[j] \in {"?", str[cut[j]]}

Wanted(e) ==
  \A key \in Range(Keys) :
    LET patterns == Range(options.filter[key])
    IN  \/ patterns = {}
        \/ key = "iface" /\ e.iface \in patterns
        \/ key # "iface" /\ \E p \in patterns : Means(p, Text(e, key))

Patterns == UNION {Range(options.filter[key]) : key \in Range(Keys)}

\* Two stars in a row are one to the reader, but not at the end of a string.
NoDoubleStar == \A p \in Patterns : \A j \in 2..Len(p) : p[j - 1] # "*" \/ p[j] # "*"

\* A star in a text is taken for the one in the pattern.
NoStarAnswered == \A e \in Range(infos), key \in Range(Keys) : "*" \notin Range(Text(e, key))

\* The recursion of wildcardMatch picks only devices whose texts fit the filter,
\* and all of them (on an interface that is named literally if interfaces are
\* named: a pattern for them finds nothing), for patterns without two stars in a
\* row and texts without a star; of several answers of a device on one interface
\* any may be the one that is looked at.  It leaves the string only behind a
\* question mark that is followed by something else.
SelectionIsExact ==
  /\ Selected => \A e \in Range(devices) : e \in Range(infos) /\ Listed(e)
  /\ Selected /\ ~Undefined =>
       /\ \A e \in Range(devices) : Wanted(e)
       /\ NoDoubleStar /\ NoStarAnswered =>
            \A e \in Range(infos) :
              (\A d \in Range(infos) : SameEntry(d, e) => Wanted(d) /\ Listed(d)) =>
                 \E d \in Range(devices) : SameEntry(d, e)
  /\ Undefined => \E p \in Patterns : \E j \in 2..Len(p) : p[j - 1] = "?" /\ p[j] # "?"

\* Whatever the order of the answers and however often a device answered, the
\* user sees each device of the selection in one line with each of its
\* interfaces once; with --iponly or --serialonly one line for each interface.
OneRowPerDevice ==
  Selected /\ table # << >> =>
    LET ifaces(mac) == {e.iface : e \in {d \in Range(devices) : d.mac = mac}}
    IN  IF options.short THEN Len(table) = Cardinality({<<e.mac, e.iface>> : e \in Range(devices)})
        ELSE /\ {row.mac : row \in Range(table)} = {e.mac : e \in Range(devices)}
             /\ \A i, j \in DOMAIN table : i # j => table[i].mac # table[j].mac
             /\ \A row \in Range(table) :
                  Range(row.ifaces) = ifaces(row.mac) /\ IsInjective(row.ifaces)

\* Nothing is sent without consent, and then only to devices the user has been
\* shown, once for every interface in their line (a device with two interfaces
\* is reset twice); an exception leaves the rest of the list without a command,
\* and only a complete list is reported as done.
OnlyWhatWasAgreed ==
  /\ acted # << >> => agreed
  /\ \A i \in DOMAIN acted : acted[i].to \in {row.mac : row \in Range(table)}
  /\ \A row \in Range(table) :
       LET sent == {i \in DOMAIN acted : acted[i].to = row.mac}
       IN  /\ Cardinality(sent) <= Len(row.ifaces)
           /\ code = "Done" => Cardinality(sent) = Len(row.ifaces)

\* No two devices get the same address, and the device that gets one has been
\* seen on one interface only: one that answers on two is refused.
AddressForOne ==
  command = "forceip" /\ acted # << >> =>
    /\ Len(acted) = 1
    /\ Len(table) = 1 /\ Len(table[1].ifaces) = 1
    /\ acted[1].with = [k \in 1..3 |-> args[k].fields]

=============================================================================
