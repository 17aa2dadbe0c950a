--------------------------- MODULE SettingsProofs ---------------------------
(***************************************************************************)
(* For every set of numbers, columns and filter texts: the settings that a *)
(* start reads are those of the last normal end, or the default where the  *)
(* file ends too early or a filter text has shifted the pairs.  The file   *)
(* always holds the first lines of what was to be stored.                  *)
(***************************************************************************)
EXTENDS Settings, EnumerationProofs, SequenceTheorems

-----------------------------------------------------------------------------
(* Words and pairs                                                         *)

\* What can be in the file.
Vocabulary == Numerals \union Keys \union {"filter"} \union UNION {Range(text) : text \in Filters}

\* What can be in the filter field.
Texts == Filters \union {<< >>}

\* A filter text is made of words that can be in the file.
LEMMA TextsAreWords ==
  ASSUME NEW text \in Texts
  PROVE  text \in Seq(Vocabulary)
<1>1. CASE text = << >>
  BY <1>1
<1>2. CASE text \in Filters
  <2>1. text \in Seq(Range(text))
    BY <1>2, WordsAssumption
  <2>2. Range(text) \subseteq Vocabulary
    BY <1>2 DEF Vocabulary
  <2>3. QED
    BY <2>1, <2>2, SeqMonotonic
<1>3. QED
  BY <1>1, <1>2 DEF Texts

\* Keys are no numbers, and both can be in the file.
LEMMA WordsApart ==
  /\ \A word \in Numerals : word \notin Keys /\ word \in Vocabulary
  /\ Keys \subseteq Vocabulary
  /\ "filter" \notin Keys /\ "filter" \in Vocabulary
BY WordsAssumption DEF Vocabulary, Keys

\* Half of a number.
LEMMA PairsOf ==
  ASSUME NEW n \in Nat, NEW i \in Nat
  PROVE  i \in 1..(n \div 2) <=> i >= 1 /\ 2 * i <= n
OBVIOUS

\* sort_down is read as a truth value, the others as they are.
AsStored(key, word) == IF key = "sort_down" THEN Truth(word) ELSE word

\* The last element of a set of pairs.
LEMMA LastPair ==
  ASSUME NEW h \in Nat, NEW S \in SUBSET (1..h), S # {}
  PROVE  Max(S) \in S
<1>1. S \in SUBSET (0..h)
  OBVIOUS
<1>2. PICK x \in S : \A y \in S : y <= x
  BY <1>1, GreatestNumber
<1>3. \A y \in S : x >= y
  BY <1>1, <1>2
<1>4. QED
  BY <1>3 DEF Max

\* A setting that is read is the default or the value of a pair that is no error.
LEMMA LoadedValue ==
  ASSUME NEW words, NEW n \in Nat, n = Len(words), NEW key \in Keys
  PROVE  /\ \/ Load(words)[key] = AsStored(key, Default[key])
            \/ \E i \in Nat : /\ i >= 1 /\ 2 * i <= n
                              /\ words[2 * i - 1] = key /\ words[2 * i] \in Numerals
                              /\ Load(words)[key] = AsStored(key, words[2 * i])
         /\ DOMAIN Load(words) = Keys
<1> DEFINE wrong == {i \in 1..(n \div 2) : words[2 * i - 1] \in Keys /\ words[2 * i] \notin Numerals}
           pairs == {i \in 1..(n \div 2) : \A j \in wrong : i < j}
           at == {i \in pairs : words[2 * i - 1] = key}
<1>1. DOMAIN Load(words) = Keys /\
      Load(words)[key] = AsStored(key, IF at = {} THEN Default[key] ELSE words[2 * Max(at)])
  BY DEF Load, AsStored
<1>2. CASE at = {}
  BY <1>1, <1>2
<1>3. CASE at # {}
  <2>1. n \div 2 \in Nat
    OBVIOUS
  <2>2. at \in SUBSET (1..(n \div 2))
    OBVIOUS
  <2>3. Max(at) \in at
    <3> HIDE DEF at
    <3>1. QED
      BY <1>3, <2>1, <2>2, LastPair
  <2>4. PICK i \in at : i = Max(at)
    BY <2>3
  <2>5. i \in 1..(n \div 2) /\ words[2 * i - 1] = key /\ i \in pairs
    OBVIOUS
  <2>6. i \notin wrong
    <3>1. i \in Nat /\ ~(i < i)
      BY <2>5
    <3>2. QED
      BY <2>5, <3>1
  <2>7. words[2 * i] \in Numerals
    BY <2>5, <2>6
  <2>8. i \in Nat /\ i >= 1 /\ 2 * i <= n
    BY <2>5, PairsOf
  <2>9. Load(words)[key] = AsStored(key, words[2 * i])
    BY <1>1, <1>3, <2>4
  <2> HIDE DEF wrong, pairs, at
  <2>10. QED
    BY <1>1, <2>5, <2>7, <2>8, <2>9
<1>4. QED
  BY <1>2, <1>3

\* If there is no error a key that is in the file is found.
LEMMA LoadedIfThere ==
  ASSUME NEW words, NEW n \in Nat, n = Len(words), NEW key \in Keys,
         \A i \in Nat : i >= 1 /\ 2 * i <= n /\ words[2 * i - 1] \in Keys => words[2 * i] \in Numerals,
         NEW k \in Nat, k >= 1, 2 * k <= n, words[2 * k - 1] = key
  PROVE  \E i \in Nat : /\ i >= 1 /\ 2 * i <= n
                        /\ words[2 * i - 1] = key
                        /\ Load(words)[key] = AsStored(key, words[2 * i])
<1> DEFINE wrong == {i \in 1..(n \div 2) : words[2 * i - 1] \in Keys /\ words[2 * i] \notin Numerals}
           pairs == {i \in 1..(n \div 2) : \A j \in wrong : i < j}
           at == {i \in pairs : words[2 * i - 1] = key}
<1>1. Load(words)[key] = AsStored(key, IF at = {} THEN Default[key] ELSE words[2 * Max(at)])
  BY DEF Load, AsStored
<1>2. wrong = {}
  <2>1. \A i \in 1..(n \div 2) : i \in Nat /\ i >= 1 /\ 2 * i <= n
    BY PairsOf
  <2>2. QED
    BY <2>1
<1>3. k \in at
  <2>1. k \in 1..(n \div 2)
    BY PairsOf
  <2>2. QED
    BY <1>2, <2>1
<1>4. n \div 2 \in Nat /\ at \in SUBSET (1..(n \div 2))
  OBVIOUS
<1>5. Max(at) \in at
  <2> HIDE DEF at
  <2>1. QED
    BY <1>3, <1>4, LastPair
<1>6. PICK i \in at : i = Max(at)
  BY <1>5
<1>7. i \in 1..(n \div 2) /\ words[2 * i - 1] = key
  OBVIOUS
<1>8. i \in Nat /\ i >= 1 /\ 2 * i <= n
  BY <1>7, PairsOf
<1>9. Load(words)[key] = AsStored(key, words[2 * i])
  BY <1>1, <1>3, <1>6
<1> HIDE DEF wrong, pairs, at
<1>10. QED
  BY <1>7, <1>8, <1>9

\* A truth value is one digit.
LEMMA TruthIs == \A word : Truth(word) \in {"0", "1"} /\ (word \in {"0", "1"} => Truth(word) = word)
BY DEF Truth

\* Settings that can be loaded, shown or stored.
Values == {s \in [Keys -> Numerals] : s.sort_down \in {"0", "1"}}

\* The defaults are settings.
LEMMA DefaultIsValues == Default \in Values
BY SettingsAssumption DEF Default, Values, Keys

\* Whatever is in the file, what is read are settings.
LEMMA LoadIsValues ==
  ASSUME NEW words \in Seq(Vocabulary)
  PROVE  Load(words) \in Values
<1>1. PICK n \in Nat : n = Len(words)
  OBVIOUS
<1>2. \A key \in Keys : AsStored(key, Default[key]) \in Numerals
  BY SettingsAssumption, TruthIs DEF AsStored, Default, Keys
<1>3. ASSUME NEW key \in Keys
      PROVE  Load(words)[key] \in Numerals /\ (key = "sort_down" => Load(words)[key] \in {"0", "1"})
  <2>1. \E word \in Numerals : Load(words)[key] = AsStored(key, word) \/ Load(words)[key] = AsStored(key, Default[key])
    BY <1>1, SettingsAssumption, LoadedValue
  <2>2. QED
    BY <1>2, <2>1, SettingsAssumption, TruthIs DEF AsStored
<1>4. Load(words) = [key \in Keys |-> Load(words)[key]]
  BY DEF Load
<1>5. "sort_down" \in Keys
  BY DEF Keys
<1>6. QED
  BY <1>3, <1>4, <1>5 DEF Values

-----------------------------------------------------------------------------
(* What is read from a file                                                *)

\* The words that a filter text adds to the file.
Gap(text) == IF text = << >> THEN 0 ELSE Len(text) + 1

\* The first words of the file with settings w and a filter text.
Written(words, w, text) ==
  LET n == Len(words)
      gap == Gap(text)
  IN  /\ words \in Seq(Vocabulary)
      /\ n \in {0, 2, 4, 4 + gap, 6 + gap, 8 + gap}
      /\ n >= 2 => words[1] = "width" /\ words[2] = w.width
      /\ n >= 4 => words[3] = "only_rc" /\ words[4] = w.only_rc
      /\ n > 4 /\ gap > 0 => words[5] = "filter" /\ \A j \in 1..Len(text) : words[5 + j] = text[j]
      /\ n >= 6 + gap => words[5 + gap] = "sort_col" /\ words[6 + gap] = w.sort_col
      /\ n >= 8 + gap => words[7 + gap] = "sort_down" /\ words[8 + gap] = w.sort_down

\* A text that cannot be taken for a setting.
Harmless(text) == Len(text) <= 1 \/ Range(text) \intersect Keys = {}

\* Where a key can be.
LEMMA KeyPositions ==
  ASSUME NEW w \in Values, NEW text \in Texts, Harmless(text), NEW words, Written(words, w, text),
         NEW n \in Nat, n = Len(words), NEW gap \in Nat, gap = Gap(text),
         NEW i \in Nat, i >= 1, 2 * i <= n, words[2 * i - 1] \in Keys
  PROVE  \/ i = 1 /\ words[2 * i - 1] = "width" /\ words[2 * i] = w.width
         \/ i = 2 /\ words[2 * i - 1] = "only_rc" /\ words[2 * i] = w.only_rc
         \/ 2 * i = 6 + gap /\ words[2 * i - 1] = "sort_col" /\ words[2 * i] = w.sort_col
         \/ 2 * i = 8 + gap /\ words[2 * i - 1] = "sort_down" /\ words[2 * i] = w.sort_down
<1>1. PICK m \in Nat : m = Len(text)
  BY TextsAreWords
<1>2. gap = IF text = << >> THEN 0 ELSE m + 1
  BY <1>1 DEF Gap
<1>3. n \in {0, 2, 4, 4 + gap, 6 + gap, 8 + gap}
  BY DEF Written
<1>4. CASE i = 1
  BY <1>4 DEF Written
<1>5. CASE i = 2
  BY <1>5 DEF Written
<1>6. CASE 2 * i - 1 >= 5 /\ 2 * i - 1 <= 4 + gap
  <2>1. gap > 0 /\ n > 4 /\ gap = m + 1
    BY <1>2, <1>6
  <2>2. words[5] = "filter" /\ \A j \in 1..m : words[5 + j] = text[j]
    BY <1>1, <2>1 DEF Written
  <2>3. 2 * i - 1 # 5
    BY <2>2, WordsApart
  <2>4. PICK j \in Nat : j = 2 * i - 6
    BY <1>6
  <2>5. j \in 1..m /\ 2 * i - 1 = 5 + j /\ j >= 2
    BY <1>6, <2>1, <2>3, <2>4
  <2>6. words[2 * i - 1] = text[j] /\ ~(m <= 1)
    BY <2>2, <2>5
  <2>7. text[j] \in Range(text)
    <3>1. text \in Seq(Vocabulary)
      BY TextsAreWords
    <3>2. j \in DOMAIN text
      BY <1>1, <2>5, <3>1
    <3>3. QED
      BY <3>2 DEF Range
  <2>8. QED
    BY <1>1, <2>6, <2>7 DEF Harmless
<1>7. CASE 2 * i - 1 = 5 + gap
  <2>1. n >= 6 + gap /\ 2 * i = 6 + gap
    BY <1>7
  <2>2. QED
    BY <1>7, <2>1 DEF Written
<1>8. CASE 2 * i - 1 = 6 + gap
  <2>1. n >= 6 + gap
    BY <1>8
  <2>2. words[6 + gap] = w.sort_col
    BY <2>1 DEF Written
  <2>3. w.sort_col \in Numerals
    BY DEF Values, Keys
  <2>4. QED
    BY <1>8, <2>2, <2>3, WordsApart
<1>9. CASE 2 * i - 1 = 7 + gap
  <2>1. n >= 8 + gap /\ 2 * i = 8 + gap
    BY <1>3, <1>9
  <2>2. QED
    BY <1>9, <2>1 DEF Written
<1>10. 2 * i - 1 <= 7 + gap
  BY <1>3
<1>11. i = 1 \/ i = 2 \/ (2 * i - 1 >= 5 /\ 2 * i - 1 <= 4 + gap)
       \/ 2 * i - 1 = 5 + gap \/ 2 * i - 1 = 6 + gap \/ 2 * i - 1 = 7 + gap
  BY <1>10
<1>12. QED
  BY <1>4, <1>5, <1>6, <1>7, <1>8, <1>9, <1>11

\* What is read of each setting.
LEMMA ReadBack ==
  ASSUME NEW w \in Values, NEW text \in Texts, Harmless(text), NEW words, Written(words, w, text),
         NEW n \in Nat, n = Len(words), NEW gap \in Nat, gap = Gap(text)
  PROVE  /\ Load(words).width = IF n >= 2 THEN w.width ELSE Default.width
         /\ Load(words).only_rc = IF n >= 4 THEN w.only_rc ELSE Default.only_rc
         /\ Load(words).sort_col \in {w.sort_col, Default.sort_col}
         /\ Load(words).sort_down \in {w.sort_down, Default.sort_down}
         /\ gap % 2 = 0 /\ n = 8 + gap => Load(words).sort_col = w.sort_col /\ Load(words).sort_down = w.sort_down
<1>1. ASSUME NEW i \in Nat, i >= 1, 2 * i <= n, words[2 * i - 1] \in Keys
      PROVE  \/ i = 1 /\ words[2 * i - 1] = "width" /\ words[2 * i] = w.width
             \/ i = 2 /\ words[2 * i - 1] = "only_rc" /\ words[2 * i] = w.only_rc
             \/ 2 * i = 6 + gap /\ words[2 * i - 1] = "sort_col" /\ words[2 * i] = w.sort_col
             \/ 2 * i = 8 + gap /\ words[2 * i - 1] = "sort_down" /\ words[2 * i] = w.sort_down
  BY <1>1, KeyPositions
<1>2. /\ w.width \in Numerals /\ w.only_rc \in Numerals /\ w.sort_col \in Numerals /\ w.sort_down \in Numerals
      /\ w.sort_down \in {"0", "1"}
  BY DEF Values, Keys
<1>3. \A i \in Nat : i >= 1 /\ 2 * i <= n /\ words[2 * i - 1] \in Keys => words[2 * i] \in Numerals
  BY <1>1, <1>2
<1>4. "width" \in Keys /\ "only_rc" \in Keys /\ "sort_col" \in Keys /\ "sort_down" \in Keys
  BY DEF Keys
<1>5. AsStored("sort_down", w.sort_down) = w.sort_down /\ AsStored("sort_down", Default.sort_down) = Default.sort_down
      /\ \A word : AsStored("width", word) = word /\ AsStored("only_rc", word) = word /\ AsStored("sort_col", word) = word
  BY <1>2, TruthIs DEF AsStored, Default
<1>6. ASSUME NEW key \in Keys, NEW value,
             \A i \in Nat : i >= 1 /\ 2 * i <= n /\ words[2 * i - 1] = key => words[2 * i] = value
      PROVE  /\ Load(words)[key] \in {AsStored(key, value), AsStored(key, Default[key])}
             /\ (\E i \in Nat : i >= 1 /\ 2 * i <= n /\ words[2 * i - 1] = key) =>
                  Load(words)[key] = AsStored(key, value)
             /\ ~(\E i \in Nat : i >= 1 /\ 2 * i <= n /\ words[2 * i - 1] = key) =>
                  Load(words)[key] = AsStored(key, Default[key])
  <2>1. \/ Load(words)[key] = AsStored(key, Default[key])
        \/ \E i \in Nat : /\ i >= 1 /\ 2 * i <= n
                          /\ words[2 * i - 1] = key /\ words[2 * i] \in Numerals
                          /\ Load(words)[key] = AsStored(key, words[2 * i])
    BY LoadedValue
  <2>2. ASSUME NEW k \in Nat, k >= 1, 2 * k <= n, words[2 * k - 1] = key
        PROVE  Load(words)[key] = AsStored(key, value)
    <3>1. \E i \in Nat : /\ i >= 1 /\ 2 * i <= n
                         /\ words[2 * i - 1] = key
                         /\ Load(words)[key] = AsStored(key, words[2 * i])
      BY <1>3, <2>2, LoadedIfThere
    <3>2. QED
      BY <1>6, <3>1
  <2>3. QED
    BY <1>6, <2>1, <2>2
<1>7. n \in {0, 2, 4, 4 + gap, 6 + gap, 8 + gap}
  BY DEF Written
<1>8. Load(words).width = IF n >= 2 THEN w.width ELSE Default.width
  <2>1. \A i \in Nat : i >= 1 /\ 2 * i <= n /\ words[2 * i - 1] = "width" => words[2 * i] = w.width
    BY <1>1, <1>4
  <2>2. CASE n >= 2
    <3>1. PICK k \in Nat : k = 1
      OBVIOUS
    <3>2. 2 * k - 1 = 1 /\ k >= 1 /\ 2 * k <= n
      BY <2>2, <3>1
    <3>3. words[2 * k - 1] = "width"
      BY <2>2, <3>2 DEF Written
    <3>4. Load(words)["width"] = AsStored("width", w.width)
      BY <1>4, <1>6, <2>1, <3>2, <3>3
    <3>5. QED
      BY <1>5, <2>2, <3>4
  <2>3. CASE ~(n >= 2)
    <3>1. ~(\E i \in Nat : i >= 1 /\ 2 * i <= n /\ words[2 * i - 1] = "width")
      BY <2>3
    <3>2. QED
      BY <1>4, <1>5, <1>6, <2>1, <2>3, <3>1
  <2>4. QED
    BY <2>2, <2>3
<1>9. Load(words).only_rc = IF n >= 4 THEN w.only_rc ELSE Default.only_rc
  <2>1. \A i \in Nat : i >= 1 /\ 2 * i <= n /\ words[2 * i - 1] = "only_rc" => words[2 * i] = w.only_rc
    BY <1>1, <1>4
  <2>2. CASE n >= 4
    <3>1. PICK k \in Nat : k = 2
      OBVIOUS
    <3>2. 2 * k - 1 = 3 /\ k >= 1 /\ 2 * k <= n
      BY <2>2, <3>1
    <3>3. words[2 * k - 1] = "only_rc"
      BY <2>2, <3>2 DEF Written
    <3>4. Load(words)["only_rc"] = AsStored("only_rc", w.only_rc)
      BY <1>4, <1>6, <2>1, <3>2, <3>3
    <3>5. QED
      BY <1>5, <2>2, <3>4
  <2>3. CASE ~(n >= 4)
    <3>1. ~(\E i \in Nat : i >= 1 /\ 2 * i <= n /\ words[2 * i - 1] = "only_rc")
      BY <1>1, <1>4, <2>3
    <3>2. QED
      BY <1>4, <1>5, <1>6, <2>1, <2>3, <3>1
  <2>4. QED
    BY <2>2, <2>3
<1>10. \A i \in Nat : i >= 1 /\ 2 * i <= n /\ words[2 * i - 1] = "sort_col" => words[2 * i] = w.sort_col
  BY <1>1, <1>4
<1>11. \A i \in Nat : i >= 1 /\ 2 * i <= n /\ words[2 * i - 1] = "sort_down" => words[2 * i] = w.sort_down
  BY <1>1, <1>4
<1>12. Load(words).sort_col \in {w.sort_col, Default.sort_col}
  BY <1>4, <1>5, <1>6, <1>10
<1>13. Load(words).sort_down \in {w.sort_down, Default.sort_down}
  BY <1>4, <1>5, <1>6, <1>11
<1>14. ASSUME gap % 2 = 0, n = 8 + gap
       PROVE  Load(words).sort_col = w.sort_col /\ Load(words).sort_down = w.sort_down
  <2>1. PICK h \in Nat : gap = 2 * h
    BY <1>14
  <2>2. PICK k \in Nat, l \in Nat : k = 3 + h /\ l = 4 + h
    OBVIOUS
  <2>3. /\ 2 * k - 1 = 5 + gap /\ k >= 1 /\ 2 * k <= n
        /\ 2 * l - 1 = 7 + gap /\ l >= 1 /\ 2 * l <= n
    BY <1>14, <2>1, <2>2
  <2>4. words[2 * k - 1] = "sort_col" /\ words[2 * l - 1] = "sort_down"
    BY SMTT(30), <1>14, <2>3 DEF Written
  <2>5. Load(words)["sort_col"] = AsStored("sort_col", w.sort_col)
    BY <1>4, <1>6, <1>10, <2>3, <2>4
  <2>6. Load(words)["sort_down"] = AsStored("sort_down", w.sort_down)
    BY <1>4, <1>6, <1>11, <2>3, <2>4
  <2>7. QED
    BY <1>5, <2>5, <2>6
<1>15. QED
  BY <1>8, <1>9, <1>12, <1>13, <1>14

-----------------------------------------------------------------------------
(* What is to be written                                                   *)

FilterLine(text) == <<"filter">> \o text

\* The lines that are still to be written when n words are in the file.
Pending(lines, n, w, text) ==
  LET gap == Gap(text)
      only_rc == <<"only_rc", w.only_rc>>
      sort_col == <<"sort_col", w.sort_col>>
      sort_down == <<"sort_down", w.sort_down>>
  IN  \/ n = 0 /\ lines = Lines(w, text)
      \/ n = 2 /\ text = << >> /\ lines = <<only_rc, sort_col, sort_down>>
      \/ n = 2 /\ text # << >> /\ lines = <<only_rc, FilterLine(text), sort_col, sort_down>>
      \/ n = 4 /\ text # << >> /\ lines = <<FilterLine(text), sort_col, sort_down>>
      \/ n = 4 + gap /\ lines = <<sort_col, sort_down>>
      \/ n = 6 + gap /\ lines = <<sort_down>>
      \/ n = 8 + gap /\ lines = << >>

ValuesInv ==
  /\ loaded \in Values /\ shown \in Values /\ stored \in Values
  /\ filter \in Texts /\ typed \in Texts

\* The file holds the first lines of what was to be stored, and the others are
\* still to be written.
FileOf(w) ==
  /\ w.width = stored.width /\ w.only_rc = stored.only_rc
  /\ IF stuck THEN w.sort_col \notin Columns ELSE w = stored
  /\ Written(disk, w, typed)
  /\ Pending(todo, Len(disk), w, typed)

NothingStored == disk = << >> /\ todo = << >> /\ stored = Default /\ typed = << >> /\ stuck = FALSE

FileInv == NothingStored \/ \E w \in Values : FileOf(w)

\* The words a filter text adds, as a number.
LEMMA TextLength ==
  ASSUME NEW text \in Texts
  PROVE  \E m \in Nat : /\ m = Len(text) /\ DOMAIN text = 1..m
                        /\ text = << >> => m = 0
                        /\ Gap(text) = IF text = << >> THEN 0 ELSE m + 1
<1>1. text \in Seq(Vocabulary)
  BY TextsAreWords
<1>2. PICK m \in Nat : m = Len(text) /\ DOMAIN text = 1..m
  BY <1>1
<1>3. text = << >> => m = 0
  BY <1>2
<1>4. QED
  BY <1>2, <1>3 DEF Gap

\* A sequence of words followed by a key and its value.
LEMMA PairAppended ==
  ASSUME NEW words \in Seq(Vocabulary), NEW n \in Nat, n = Len(words), NEW a \in Vocabulary, NEW b \in Vocabulary
  PROVE  /\ words \o <<a, b>> \in Seq(Vocabulary) /\ Len(words \o <<a, b>>) = n + 2
         /\ \A i \in 1..n : (words \o <<a, b>>)[i] = words[i]
         /\ (words \o <<a, b>>)[n + 1] = a /\ (words \o <<a, b>>)[n + 2] = b
<1>1. <<a, b>> \in Seq(Vocabulary) /\ Len(<<a, b>>) = 2
  OBVIOUS
<1>2. PICK more : more = words \o <<a, b>>
  OBVIOUS
<1>3. /\ more \in Seq(Vocabulary) /\ Len(more) = n + 2
      /\ \A i \in 1..(n + 2) : more[i] = IF i <= n THEN words[i] ELSE <<a, b>>[i - n]
  BY <1>1, <1>2, ConcatProperties
<1>4. (n + 1) - n = 1 /\ (n + 2) - n = 2 /\ n + 1 \in 1..(n + 2) /\ n + 2 \in 1..(n + 2)
      /\ ~(n + 1 <= n) /\ ~(n + 2 <= n) /\ \A i \in 1..n : i \in 1..(n + 2) /\ i <= n
  OBVIOUS
<1>5. more[n + 1] = a /\ more[n + 2] = b
  BY <1>3, <1>4
<1>6. \A i \in 1..n : more[i] = words[i]
  BY <1>3, <1>4
<1>7. QED
  BY <1>2, <1>3, <1>5, <1>6

\* A sequence of words followed by the line of the filter.
Follows(more, words, n, text, m) ==
  /\ more \in Seq(Vocabulary) /\ Len(more) = n + m + 1
  /\ \A i \in 1..n : more[i] = words[i]
  /\ more[n + 1] = "filter"
  /\ \A j \in 1..m : more[n + 1 + j] = text[j]

LEMMA TextAppended ==
  ASSUME NEW words \in Seq(Vocabulary), NEW n \in Nat, n = Len(words), NEW text \in Texts, NEW m \in Nat, m = Len(text)
  PROVE  Follows(words \o FilterLine(text), words, n, text, m)
<1>1. text \in Seq(Vocabulary) /\ <<"filter">> \in Seq(Vocabulary) /\ Len(<<"filter">>) = 1
  BY TextsAreWords, WordsApart
<1>2. PICK line : line = FilterLine(text)
  OBVIOUS
<1>3. /\ line \in Seq(Vocabulary) /\ Len(line) = m + 1
      /\ line[1] = "filter" /\ \A j \in 1..m : line[j + 1] = text[j]
  <2>1. /\ line \in Seq(Vocabulary) /\ Len(line) = 1 + m
        /\ \A i \in 1..(1 + m) : line[i] = IF i <= 1 THEN <<"filter">>[i] ELSE text[i - 1]
    BY <1>1, <1>2, ConcatProperties DEF FilterLine
  <2>2. 1 \in 1..(1 + m) /\ \A j \in 1..m : j + 1 \in 1..(1 + m) /\ ~(j + 1 <= 1) /\ (j + 1) - 1 = j
    OBVIOUS
  <2>3. QED
    BY <2>1, <2>2
<1>4. PICK more : more = words \o line
  OBVIOUS
<1>5. /\ more \in Seq(Vocabulary) /\ Len(more) = n + (m + 1)
      /\ \A i \in 1..(n + (m + 1)) : more[i] = IF i <= n THEN words[i] ELSE line[i - n]
  <2>1. line \in Seq(Vocabulary) /\ Len(line) = m + 1
    BY <1>3
  <2>2. /\ more \in Seq(Vocabulary) /\ Len(more) = Len(words) + Len(line)
        /\ \A i \in 1..(Len(words) + Len(line)) :
             more[i] = IF i <= Len(words) THEN words[i] ELSE line[i - Len(words)]
    BY <1>4, <2>1, ConcatProperties
  <2>3. QED
    BY <2>1, <2>2
<1>6. /\ n + 1 \in 1..(n + (m + 1)) /\ ~(n + 1 <= n) /\ (n + 1) - n = 1
      /\ \A i \in 1..n : i \in 1..(n + (m + 1)) /\ i <= n
      /\ \A j \in 1..m : n + 1 + j \in 1..(n + (m + 1)) /\ ~(n + 1 + j <= n) /\ (n + 1 + j) - n = j + 1
  OBVIOUS
<1>7. more[n + 1] = "filter"
  BY <1>3, <1>5, <1>6
<1>8. \A j \in 1..m : more[n + 1 + j] = text[j]
  BY <1>3, <1>5, <1>6
<1>9. \A i \in 1..n : more[i] = words[i]
  BY <1>5, <1>6
<1>10. Len(more) = n + m + 1
  BY <1>5
<1>11. Follows(more, words, n, text, m)
  BY <1>5, <1>7, <1>8, <1>9, <1>10 DEF Follows
<1>12. QED
  BY <1>2, <1>4, <1>11

\* A concatenation, given element by element.
LEMMA ConcatIs ==
  ASSUME NEW T, NEW a \in Seq(T), NEW b \in Seq(T), NEW c \in Seq(T), Len(c) = Len(a) + Len(b),
         \A i \in 1..Len(c) : c[i] = IF i <= Len(a) THEN a[i] ELSE b[i - Len(a)]
  PROVE  a \o b = c
<1>1. PICK d : d = a \o b
  OBVIOUS
<1>2. /\ d \in Seq(T) /\ Len(d) = Len(a) + Len(b)
      /\ \A i \in 1..(Len(a) + Len(b)) : d[i] = IF i <= Len(a) THEN a[i] ELSE b[i - Len(a)]
  BY <1>1, ConcatProperties
<1>3. d = c
  BY <1>2, SeqEqual
<1>4. QED
  BY <1>1, <1>3

\* The lines of the file one by one.
LEMMA LinesAre ==
  ASSUME NEW w, NEW text
  PROVE  Lines(w, text) =
           IF text = << >>
             THEN << <<"width", w.width>>, <<"only_rc", w.only_rc>>,
                     <<"sort_col", w.sort_col>>, <<"sort_down", w.sort_down>> >>
             ELSE << <<"width", w.width>>, <<"only_rc", w.only_rc>>, FilterLine(text),
                     <<"sort_col", w.sort_col>>, <<"sort_down", w.sort_down>> >>
<1>1. ASSUME NEW a, NEW b, NEW c, NEW d
      PROVE  <<a, b>> \o << >> \o <<c, d>> = <<a, b, c, d>>
  <2> DEFINE T == {a, b, c, d}
  <2>1. a \in T /\ b \in T /\ c \in T /\ d \in T
    OBVIOUS
  <2> HIDE DEF T
  <2>2. <<a, b>> \in Seq(T) /\ <<c, d>> \in Seq(T)
    BY <2>1
  <2>3. <<a, b>> \o << >> = <<a, b>>
    BY <2>2, ConcatEmptySeq
  <2>4. <<a, b>> \o <<c, d>> = <<a, b, c, d>>
    <3>1. PICK x : x = <<a, b>>
      OBVIOUS
    <3>2. PICK y : y = <<c, d>>
      OBVIOUS
    <3>3. PICK z : z = <<a, b, c, d>>
      OBVIOUS
    <3>4. x \in Seq(T) /\ y \in Seq(T) /\ z \in Seq(T) /\ Len(x) = 2 /\ Len(y) = 2 /\ Len(z) = 4
      BY <2>1, <3>1, <3>2, <3>3
    <3>5. \A i \in 1..4 : z[i] = IF i <= 2 THEN x[i] ELSE y[i - 2]
      <4>1. \A i \in 1..4 : i = 1 \/ i = 2 \/ i = 3 \/ i = 4
        OBVIOUS
      <4>2. QED
        BY <3>1, <3>2, <3>3, <4>1
    <3>6. \A i \in 1..Len(z) : z[i] = IF i <= Len(x) THEN x[i] ELSE y[i - Len(x)]
      BY <3>4, <3>5
    <3>7. x \o y = z
      <4>1. Len(z) = Len(x) + Len(y)
        BY <3>4
      <4>2. QED
        BY <3>4, <3>6, <4>1, ConcatIs
    <3>8. QED
      BY <3>1, <3>2, <3>3, <3>7
  <2>5. QED
    BY <2>3, <2>4
<1>2. ASSUME NEW a, NEW b, NEW c, NEW d, NEW e
      PROVE  <<a, b>> \o <<e>> \o <<c, d>> = <<a, b, e, c, d>>
  <2> DEFINE T == {a, b, c, d, e}
  <2>1. a \in T /\ b \in T /\ c \in T /\ d \in T /\ e \in T
    OBVIOUS
  <2> HIDE DEF T
  <2>2. <<a, b>> \in Seq(T) /\ <<c, d>> \in Seq(T) /\ <<e>> \in Seq(T) /\ <<a, b, e>> \in Seq(T)
    BY <2>1
  <2>3. <<a, b>> \o <<e>> = <<a, b, e>>
    <3>1. PICK x : x = <<a, b>>
      OBVIOUS
    <3>2. PICK y : y = <<e>>
      OBVIOUS
    <3>3. PICK z : z = <<a, b, e>>
      OBVIOUS
    <3>4. x \in Seq(T) /\ y \in Seq(T) /\ z \in Seq(T) /\ Len(x) = 2 /\ Len(y) = 1 /\ Len(z) = 3
      BY <2>1, <3>1, <3>2, <3>3
    <3>5. \A i \in 1..3 : z[i] = IF i <= 2 THEN x[i] ELSE y[i - 2]
      <4>1. \A i \in 1..3 : i = 1 \/ i = 2 \/ i = 3
        OBVIOUS
      <4>2. QED
        BY <3>1, <3>2, <3>3, <4>1
    <3>6. \A i \in 1..Len(z) : z[i] = IF i <= Len(x) THEN x[i] ELSE y[i - Len(x)]
      BY <3>4, <3>5
    <3>7. x \o y = z
      <4>1. Len(z) = Len(x) + Len(y)
        BY <3>4
      <4>2. QED
        BY <3>4, <3>6, <4>1, ConcatIs
    <3>8. QED
      BY <3>1, <3>2, <3>3, <3>7
  <2>4. <<a, b, e>> \o <<c, d>> = <<a, b, e, c, d>>
    <3>1. PICK x : x = <<a, b, e>>
      OBVIOUS
    <3>2. PICK y : y = <<c, d>>
      OBVIOUS
    <3>3. PICK z : z = <<a, b, e, c, d>>
      OBVIOUS
    <3>4. x \in Seq(T) /\ y \in Seq(T) /\ z \in Seq(T) /\ Len(x) = 3 /\ Len(y) = 2 /\ Len(z) = 5
      BY <2>1, <3>1, <3>2, <3>3
    <3>5. \A i \in 1..5 : z[i] = IF i <= 3 THEN x[i] ELSE y[i - 3]
      <4>1. \A i \in 1..5 : i = 1 \/ i = 2 \/ i = 3 \/ i = 4 \/ i = 5
        OBVIOUS
      <4>2. QED
        BY <3>1, <3>2, <3>3, <4>1
    <3>6. \A i \in 1..Len(z) : z[i] = IF i <= Len(x) THEN x[i] ELSE y[i - Len(x)]
      BY <3>4, <3>5
    <3>7. x \o y = z
      <4>1. Len(z) = Len(x) + Len(y)
        BY <3>4
      <4>2. QED
        BY <3>4, <3>6, <4>1, ConcatIs
    <3>8. QED
      BY <3>1, <3>2, <3>3, <3>7
  <2>5. QED
    BY <2>3, <2>4
<1> DEFINE a == <<"width", w.width>>
           b == <<"only_rc", w.only_rc>>
           c == <<"sort_col", w.sort_col>>
           d == <<"sort_down", w.sort_down>>
<1>3. CASE text = << >>
  <2>1. Lines(w, text) = <<a, b>> \o << >> \o <<c, d>>
    BY <1>3 DEF Lines
  <2> HIDE DEF a, b, c, d
  <2>2. Lines(w, text) = <<a, b, c, d>>
    BY <1>1, <2>1
  <2>3. QED
    BY <1>3, <2>2 DEF a, b, c, d
<1>4. CASE text # << >>
  <2>1. Lines(w, text) = <<a, b>> \o <<FilterLine(text)>> \o <<c, d>>
    BY <1>4 DEF Lines, FilterLine
  <2> HIDE DEF a, b, c, d
  <2>2. Lines(w, text) = <<a, b, FilterLine(text), c, d>>
    <3>1. PICK e : e = FilterLine(text)
      OBVIOUS
    <3>2. <<a, b>> \o <<e>> \o <<c, d>> = <<a, b, e, c, d>>
      BY <1>2
    <3>3. QED
      BY <2>1, <3>1, <3>2
  <2>3. QED
    BY <1>4, <2>2 DEF a, b, c, d
<1>5. QED
  BY <1>3, <1>4

-----------------------------------------------------------------------------
(* A line is written                                                       *)

\* The pair that comes after n words.
NextPair(n, gap, w, a, b) ==
  \/ n = 0 /\ a = "width" /\ b = w.width
  \/ n = 2 /\ a = "only_rc" /\ b = w.only_rc
  \/ n = 4 + gap /\ a = "sort_col" /\ b = w.sort_col
  \/ n = 6 + gap /\ a = "sort_down" /\ b = w.sort_down

\* The numbers of words after which a pair can come.
LEMMA PairNumbers ==
  ASSUME NEW n \in Nat, NEW gap \in Nat, n = 0 \/ n = 2 \/ n = 4 + gap \/ n = 6 + gap
  PROVE  /\ n + 2 = 2 \/ n + 2 = 4 \/ n + 2 = 6 + gap \/ n + 2 = 8 + gap
         /\ n + 2 >= 8 + gap => n = 6 + gap
         /\ n = 0 \/ n = 2 \/ n >= 4 + gap
OBVIOUS

\* One more line in the file.
LEMMA PairWritten ==
  ASSUME NEW w \in Values, NEW text \in Texts, NEW words, Written(words, w, text),
         NEW n \in Nat, n = Len(words), NEW gap \in Nat, gap = Gap(text),
         NEW a \in Vocabulary, NEW b \in Vocabulary,
         NextPair(n, gap, w, a, b)
  PROVE  Written(words \o <<a, b>>, w, text) /\ Len(words \o <<a, b>>) = n + 2
<1>1. words \in Seq(Vocabulary)
  BY DEF Written
<1>2. PICK more : more = words \o <<a, b>>
  OBVIOUS
<1>3. /\ more \in Seq(Vocabulary) /\ Len(more) = n + 2
      /\ \A i \in 1..n : more[i] = words[i]
      /\ more[n + 1] = a /\ more[n + 2] = b
  BY <1>1, <1>2, PairAppended
<1>4. PICK m \in Nat : m = Len(text) /\ gap = IF text = << >> THEN 0 ELSE m + 1
  BY TextLength
<1>5. /\ n \in {0, 2, 4, 4 + gap, 6 + gap, 8 + gap}
      /\ n >= 2 => words[1] = "width" /\ words[2] = w.width
      /\ n >= 4 => words[3] = "only_rc" /\ words[4] = w.only_rc
      /\ n > 4 /\ gap > 0 => words[5] = "filter" /\ \A j \in 1..m : words[5 + j] = text[j]
      /\ n >= 6 + gap => words[5 + gap] = "sort_col" /\ words[6 + gap] = w.sort_col
      /\ n >= 8 + gap => words[7 + gap] = "sort_down" /\ words[8 + gap] = w.sort_down
  BY <1>4 DEF Written
<1>6. /\ n + 2 \in {0, 2, 4, 4 + gap, 6 + gap, 8 + gap}
      /\ n = 0 \/ n = 2 \/ n = 4 + gap \/ n = 6 + gap
  <2>1. n = 0 \/ n = 2 \/ n = 4 + gap \/ n = 6 + gap
    BY DEF NextPair
  <2>2. n + 2 = 2 \/ n + 2 = 4 \/ n + 2 = 6 + gap \/ n + 2 = 8 + gap
    BY <2>1, PairNumbers
  <2>3. QED
    BY <2>1, <2>2
<1>7. n + 2 >= 2 => more[1] = "width" /\ more[2] = w.width
  BY SMTT(30), <1>3, <1>5, <1>6 DEF NextPair
<1>8. n + 2 >= 4 => more[3] = "only_rc" /\ more[4] = w.only_rc
  <2>1. CASE n = 2
    <3>1. a = "only_rc" /\ b = w.only_rc
      BY <2>1 DEF NextPair
    <3>2. n + 1 = 3 /\ n + 2 = 4
      BY <2>1
    <3>3. QED
      BY <1>3, <3>1, <3>2
  <2>2. CASE n >= 4
    <3>1. 3 \in 1..n /\ 4 \in 1..n
      BY <2>2
    <3>2. QED
      BY <1>3, <1>5, <2>2, <3>1
  <2>3. n = 0 => ~(n + 2 >= 4)
    OBVIOUS
  <2>4. n = 0 \/ n = 2 \/ n >= 4
    BY <1>6
  <2>5. QED
    BY <2>1, <2>2, <2>3, <2>4
<1>9. n + 2 > 4 /\ gap > 0 => more[5] = "filter" /\ \A j \in 1..m : more[5 + j] = text[j]
  <2>1. SUFFICES ASSUME n + 2 > 4, gap > 0
                 PROVE  more[5] = "filter" /\ \A j \in 1..m : more[5 + j] = text[j]
    OBVIOUS
  <2>2. gap = m + 1 /\ n >= 4 + gap
    <3>1. n = 0 \/ n = 2 \/ n >= 4 + gap
      BY <1>6, PairNumbers
    <3>2. n # 0 /\ n # 2
      BY <2>1
    <3>3. QED
      BY <1>4, <2>1, <3>1, <3>2
  <2>3. 5 \in 1..n /\ n > 4 /\ \A j \in 1..m : 5 + j \in 1..n
    <3>1. n >= 5 + m
      BY <2>2
    <3>2. QED
      BY <3>1
  <2>4. words[5] = "filter" /\ \A j \in 1..m : words[5 + j] = text[j]
    BY <1>5, <2>1, <2>3
  <2>5. \A i \in 1..n : more[i] = words[i]
    BY <1>3
  <2>6. QED
    BY <2>3, <2>4, <2>5
<1>10. n + 2 >= 6 + gap => more[5 + gap] = "sort_col" /\ more[6 + gap] = w.sort_col
  <2>1. CASE n = 4 + gap
    <3>1. a = "sort_col" /\ b = w.sort_col
      BY <2>1 DEF NextPair
    <3>2. n + 1 = 5 + gap /\ n + 2 = 6 + gap
      BY <2>1
    <3>3. QED
      BY <1>3, <3>1, <3>2
  <2>2. CASE n = 6 + gap
    <3>1. 5 + gap \in 1..n /\ 6 + gap \in 1..n
      BY <2>2
    <3>2. QED
      BY <1>3, <1>5, <2>2, <3>1
  <2>3. n = 0 \/ n = 2 => ~(n + 2 >= 6 + gap)
    OBVIOUS
  <2>4. QED
    BY <1>6, <2>1, <2>2, <2>3
<1>11. n + 2 >= 8 + gap => more[7 + gap] = "sort_down" /\ more[8 + gap] = w.sort_down
  <2>1. CASE n = 6 + gap
    <3>1. a = "sort_down" /\ b = w.sort_down
      BY <2>1 DEF NextPair
    <3>2. n + 1 = 7 + gap /\ n + 2 = 8 + gap
      BY <2>1
    <3>3. QED
      BY <1>3, <3>1, <3>2
  <2>2. n + 2 >= 8 + gap => n = 6 + gap
    BY <1>6, PairNumbers
  <2>3. QED
    BY <2>1, <2>2
<1>12. Written(more, w, text)
  BY <1>3, <1>4, <1>6, <1>7, <1>8, <1>9, <1>10, <1>11 DEF Written
<1>13. QED
  BY <1>2, <1>3, <1>12

\* The line of the filter in the file.
LEMMA FilterWritten ==
  ASSUME NEW w \in Values, NEW text \in Texts, text # << >>, NEW words, Written(words, w, text),
         NEW n \in Nat, n = Len(words), n = 4, NEW gap \in Nat, gap = Gap(text)
  PROVE  Written(words \o FilterLine(text), w, text) /\ Len(words \o FilterLine(text)) = 4 + gap
<1>1. words \in Seq(Vocabulary)
  BY DEF Written
<1>2. PICK more : more = words \o FilterLine(text)
  OBVIOUS
<1>3. PICK m \in Nat : m = Len(text) /\ gap = m + 1
  BY TextLength
<1>4. n = 4
  OBVIOUS
<1>5. /\ more \in Seq(Vocabulary) /\ Len(more) = n + m + 1
      /\ \A i \in 1..n : more[i] = words[i]
      /\ more[n + 1] = "filter" /\ \A j \in 1..m : more[n + 1 + j] = text[j]
  <2>1. n = Len(words) /\ m = Len(text)
    BY <1>3, <1>4
  <2>2. Follows(words \o FilterLine(text), words, n, text, m)
    BY <1>1, <2>1, TextAppended
  <2>3. QED
    BY <1>2, <2>2 DEF Follows
<1>6. /\ words[1] = "width" /\ words[2] = w.width
      /\ words[3] = "only_rc" /\ words[4] = w.only_rc
  <2>1. Len(words) >= 2 /\ Len(words) >= 4
    OBVIOUS
  <2>2. QED
    BY <2>1 DEF Written
<1>7. /\ Len(more) = 4 + gap
      /\ more[1] = "width" /\ more[2] = w.width
      /\ more[3] = "only_rc" /\ more[4] = w.only_rc
      /\ more[5] = "filter" /\ \A j \in 1..m : more[5 + j] = text[j]
  BY <1>3, <1>4, <1>5, <1>6
<1>8. ~(4 + gap >= 6 + gap) /\ ~(4 + gap >= 8 + gap)
  OBVIOUS
<1>9. Written(more, w, text)
  BY <1>3, <1>5, <1>7, <1>8 DEF Written
<1>10. QED
  BY <1>2, <1>7, <1>9

\* The first line and the others.
LEMMA TailOfTuple ==
  ASSUME NEW a, NEW b, NEW c, NEW d, NEW e
  PROVE  /\ Head(<<a>>) = a /\ Tail(<<a>>) = << >>
         /\ Head(<<a, b>>) = a /\ Tail(<<a, b>>) = <<b>>
         /\ Head(<<a, b, c>>) = a /\ Tail(<<a, b, c>>) = <<b, c>>
         /\ Head(<<a, b, c, d>>) = a /\ Tail(<<a, b, c, d>>) = <<b, c, d>>
         /\ Head(<<a, b, c, d, e>>) = a /\ Tail(<<a, b, c, d, e>>) = <<b, c, d, e>>
OBVIOUS

\* Storing writes the next line of what is to be written.
LEMMA LineWritten ==
  ASSUME NEW w \in Values, NEW text \in Texts, NEW words, Written(words, w, text),
         NEW lines, Pending(lines, Len(words), w, text), lines # << >>
  PROVE  /\ Written(words \o Head(lines), w, text)
         /\ Pending(Tail(lines), Len(words \o Head(lines)), w, text)
<1>1. words \in Seq(Vocabulary)
  BY DEF Written
<1>2. PICK n \in Nat : n = Len(words)
  BY <1>1
<1>3. PICK m \in Nat : m = Len(text) /\ Gap(text) = IF text = << >> THEN 0 ELSE m + 1
  BY TextLength
<1>4. PICK gap \in Nat : gap = Gap(text)
  BY <1>3
<1>5. /\ w.width \in Vocabulary /\ w.only_rc \in Vocabulary /\ w.sort_col \in Vocabulary /\ w.sort_down \in Vocabulary
      /\ "width" \in Vocabulary /\ "only_rc" \in Vocabulary /\ "sort_col" \in Vocabulary /\ "sort_down" \in Vocabulary
  BY WordsApart DEF Values, Keys
<1> DEFINE width == <<"width", w.width>>
           only_rc == <<"only_rc", w.only_rc>>
           sort_col == <<"sort_col", w.sort_col>>
           sort_down == <<"sort_down", w.sort_down>>
<1>6. CASE n = 0 /\ lines = Lines(w, text)
  <2>1. lines = IF text = << >> THEN <<width, only_rc, sort_col, sort_down>>
                ELSE <<width, only_rc, FilterLine(text), sort_col, sort_down>>
    BY <1>6, LinesAre
  <2>2. Head(lines) = width
    BY <2>1, TailOfTuple
  <2>3. Tail(lines) = IF text = << >> THEN <<only_rc, sort_col, sort_down>>
                      ELSE <<only_rc, FilterLine(text), sort_col, sort_down>>
    BY <2>1, TailOfTuple
  <2>4. Written(words \o width, w, text) /\ Len(words \o width) = 2
    <3>1. NextPair(n, gap, w, "width", w.width)
      BY <1>6 DEF NextPair
    <3>2. Written(words \o <<"width", w.width>>, w, text) /\ Len(words \o <<"width", w.width>>) = n + 2
      BY <1>2, <1>4, <1>5, <3>1, PairWritten
    <3>3. QED
      BY <1>6, <3>2
  <2>5. Pending(Tail(lines), 2, w, text)
    BY <2>3 DEF Pending
  <2>6. QED
    BY <2>2, <2>4, <2>5
<1>7. CASE n = 2 /\ text = << >> /\ lines = <<only_rc, sort_col, sort_down>>
  <2>1. Head(lines) = only_rc /\ Tail(lines) = <<sort_col, sort_down>>
    BY <1>7, TailOfTuple
  <2>2. Written(words \o only_rc, w, text) /\ Len(words \o only_rc) = 4
    <3>1. NextPair(n, gap, w, "only_rc", w.only_rc)
      BY <1>7 DEF NextPair
    <3>2. Written(words \o <<"only_rc", w.only_rc>>, w, text) /\ Len(words \o <<"only_rc", w.only_rc>>) = n + 2
      BY <1>2, <1>4, <1>5, <3>1, PairWritten
    <3>3. QED
      BY <1>7, <3>2
  <2>3. 4 = 4 + Gap(text)
    BY <1>3, <1>7
  <2>4. Pending(Tail(lines), 4, w, text)
    BY <2>1, <2>3 DEF Pending
  <2>5. QED
    BY <2>1, <2>2, <2>4
<1>8. CASE n = 2 /\ text # << >> /\ lines = <<only_rc, FilterLine(text), sort_col, sort_down>>
  <2>1. Head(lines) = only_rc /\ Tail(lines) = <<FilterLine(text), sort_col, sort_down>>
    BY <1>8, TailOfTuple
  <2>2. Written(words \o only_rc, w, text) /\ Len(words \o only_rc) = 4
    <3>1. NextPair(n, gap, w, "only_rc", w.only_rc)
      BY <1>8 DEF NextPair
    <3>2. Written(words \o <<"only_rc", w.only_rc>>, w, text) /\ Len(words \o <<"only_rc", w.only_rc>>) = n + 2
      BY <1>2, <1>4, <1>5, <3>1, PairWritten
    <3>3. QED
      BY <1>8, <3>2
  <2>3. Pending(Tail(lines), 4, w, text)
    BY <1>8, <2>1 DEF Pending
  <2>4. QED
    BY <2>1, <2>2, <2>3
<1>9. CASE n = 4 /\ text # << >> /\ lines = <<FilterLine(text), sort_col, sort_down>>
  <2>1. Head(lines) = FilterLine(text) /\ Tail(lines) = <<sort_col, sort_down>>
    BY <1>9, TailOfTuple
  <2>2. Written(words \o FilterLine(text), w, text) /\ Len(words \o FilterLine(text)) = 4 + gap
    BY <1>2, <1>4, <1>9, FilterWritten
  <2>3. Pending(Tail(lines), 4 + gap, w, text)
    BY <1>4, <2>1 DEF Pending
  <2>4. QED
    BY <2>1, <2>2, <2>3
<1>10. CASE n = 4 + gap /\ lines = <<sort_col, sort_down>>
  <2>1. Head(lines) = sort_col /\ Tail(lines) = <<sort_down>>
    BY <1>10, TailOfTuple
  <2>2. Written(words \o sort_col, w, text) /\ Len(words \o sort_col) = 6 + gap
    <3>1. NextPair(n, gap, w, "sort_col", w.sort_col)
      BY <1>10 DEF NextPair
    <3>2. Written(words \o <<"sort_col", w.sort_col>>, w, text) /\ Len(words \o <<"sort_col", w.sort_col>>) = n + 2
      BY <1>2, <1>4, <1>5, <3>1, PairWritten
    <3>3. QED
      BY <1>10, <3>2
  <2>3. Pending(Tail(lines), 6 + gap, w, text)
    BY <1>4, <2>1 DEF Pending
  <2>4. QED
    BY <2>1, <2>2, <2>3
<1>11. CASE n = 6 + gap /\ lines = <<sort_down>>
  <2>1. Head(lines) = sort_down /\ Tail(lines) = << >>
    BY <1>11, TailOfTuple
  <2>2. Written(words \o sort_down, w, text) /\ Len(words \o sort_down) = 8 + gap
    <3>1. NextPair(n, gap, w, "sort_down", w.sort_down)
      BY <1>11 DEF NextPair
    <3>2. Written(words \o <<"sort_down", w.sort_down>>, w, text) /\ Len(words \o <<"sort_down", w.sort_down>>) = n + 2
      BY <1>2, <1>4, <1>5, <3>1, PairWritten
    <3>3. QED
      BY <1>11, <3>2
  <2>3. Pending(Tail(lines), 8 + gap, w, text)
    BY <1>4, <2>1 DEF Pending
  <2>4. QED
    BY <2>1, <2>2, <2>3
<1>12. \/ n = 0 /\ lines = Lines(w, text)
       \/ n = 2 /\ text = << >> /\ lines = <<only_rc, sort_col, sort_down>>
       \/ n = 2 /\ text # << >> /\ lines = <<only_rc, FilterLine(text), sort_col, sort_down>>
       \/ n = 4 /\ text # << >> /\ lines = <<FilterLine(text), sort_col, sort_down>>
       \/ n = 4 + gap /\ lines = <<sort_col, sort_down>>
       \/ n = 6 + gap /\ lines = <<sort_down>>
  BY <1>2, <1>4 DEF Pending
<1> HIDE DEF width, only_rc, sort_col, sort_down
<1>13. QED
  BY <1>6, <1>7, <1>8, <1>9, <1>10, <1>11, <1>12

\* When no line is left all of them are in the file.
LEMMA AllWritten ==
  ASSUME NEW w, NEW text, NEW n, Pending(<< >>, n, w, text)
  PROVE  n = 8 + Gap(text)
<1>1. Lines(w, text) # << >>
  BY LinesAre
<1>2. QED
  BY <1>1 DEF Pending

-----------------------------------------------------------------------------
(* The invariant                                                           *)

SettingsInv == ValuesInv /\ FileInv

\* The values that a user can set are numbers.
LEMMA Words ==
  /\ Widths \subseteq Numerals /\ Columns \subseteq Numerals
  /\ "0" \in Numerals /\ "1" \in Numerals
BY SettingsAssumption

\* A setting that is changed.
LEMMA SettingChanged ==
  ASSUME NEW s \in Values, NEW word \in Numerals
  PROVE  /\ [s EXCEPT !.width = word] \in Values
         /\ [s EXCEPT !.only_rc = word] \in Values
         /\ [s EXCEPT !.sort_col = word] \in Values
         /\ word \in {"0", "1"} => [s EXCEPT !.sort_down = word] \in Values
BY DEF Values, Keys

\* The file consists of known words.
LEMMA FileIsWords ==
  ASSUME FileInv
  PROVE  disk \in Seq(Vocabulary)
<1>1. CASE NothingStored
  BY <1>1 DEF NothingStored
<1>2. ASSUME NEW w \in Values, FileOf(w)
      PROVE  disk \in Seq(Vocabulary)
  BY <1>2 DEF FileOf, Written
<1>3. QED
  BY <1>1, <1>2 DEF FileInv

\* The file that has just been emptied.
LEMMA NothingWritten ==
  ASSUME NEW w, NEW text \in Texts
  PROVE  Written(<< >>, w, text)
<1>1. PICK m \in Nat : Gap(text) = IF text = << >> THEN 0 ELSE m + 1
  BY TextLength
<1>2. PICK gap \in Nat : gap = Gap(text)
  BY <1>1
<1>3. PICK words : words \in Seq(Vocabulary) /\ words = << >>
  <2>1. << >> \in Seq(Vocabulary)
    OBVIOUS
  <2>2. QED
    BY <2>1
<1>4. PICK n \in Nat : n = Len(words) /\ n = 0
  BY <1>3
<1>5. ~(n >= 2) /\ ~(n >= 4) /\ ~(n > 4) /\ ~(n >= 6 + gap) /\ ~(n >= 8 + gap)
  BY <1>4
<1>6. n \in {0, 2, 4, 4 + gap, 6 + gap, 8 + gap}
  BY <1>4
<1>7. Written(words, w, text)
  BY <1>2, <1>3, <1>4, <1>5, <1>6 DEF Written
<1>8. QED
  BY <1>3, <1>7

\* The invariant at the beginning.
LEMMA InitSettings ==
  ASSUME Init
  PROVE  SettingsInv
<1>1. ValuesInv
  BY DefaultIsValues DEF Init, ValuesInv, Texts
<1>2. NothingStored
  BY DEF Init, NothingStored
<1>3. QED
  BY <1>1, <1>2 DEF SettingsInv, FileInv

\* Nothing happens to the file and what is known of it.
LEMMA FileKept ==
  ASSUME FileInv, UNCHANGED <<disk, todo, stored, typed, stuck>>
  PROVE  FileInv'
BY DEF FileInv, FileOf, NothingStored

\* Reading the settings leaves the file alone.
LEMMA StartSettings ==
  ASSUME SettingsInv, Start
  PROVE  SettingsInv'
<1>1. disk \in Seq(Vocabulary)
  BY FileIsWords DEF SettingsInv
<1>2. loaded' \in Values
  BY <1>1, LoadIsValues, DefaultIsValues DEF Start
<1>3. shown' \in Values
  <2>1. PICK s \in Values : s = loaded'
    BY <1>2
  <2>2. Truth(s.only_rc) \in Numerals
    BY Words, TruthIs
  <2>3. [s EXCEPT !.only_rc = Truth(s.only_rc)] \in Values
    BY <2>2, SettingChanged
  <2>4. shown' = [s EXCEPT !.only_rc = Truth(s.only_rc)]
    BY <2>1 DEF Start
  <2>5. QED
    BY <2>3, <2>4
<1>4. ValuesInv'
  BY <1>2, <1>3 DEF Start, SettingsInv, ValuesInv, Texts
<1>5. FileInv'
  BY FileKept DEF Start, SettingsInv
<1>6. QED
  BY <1>4, <1>5 DEF SettingsInv

\* What the user does gives settings.
LEMMA UseSettings ==
  ASSUME SettingsInv, Use
  PROVE  SettingsInv'
<1>1. shown \in Values /\ filter \in Texts
  BY DEF SettingsInv, ValuesInv
<1>2. shown' \in Values /\ filter' \in Texts
  <2>1. CASE \E w \in Widths : shown' = [shown EXCEPT !.width = w] /\ UNCHANGED filter
    BY <1>1, <2>1, Words, SettingChanged
  <2>2. CASE shown' = [shown EXCEPT !.only_rc = IF @ = "0" THEN "1" ELSE "0"] /\ UNCHANGED filter
    <3>1. PICK word \in Numerals : word = IF shown.only_rc = "0" THEN "1" ELSE "0"
      BY Words
    <3>2. shown' = [shown EXCEPT !.only_rc = word]
      BY <2>2, <3>1
    <3>3. QED
      BY <1>1, <2>2, <3>2, SettingChanged
  <2>3. CASE /\ \E c \in Columns :
                  shown' = IF c # shown.sort_col THEN [shown EXCEPT !.sort_col = c, !.sort_down = "1"]
                           ELSE [shown EXCEPT !.sort_down = IF @ = "0" THEN "1" ELSE "0"]
             /\ UNCHANGED filter
    <3>1. PICK c \in Columns :
            shown' = IF c # shown.sort_col THEN [shown EXCEPT !.sort_col = c, !.sort_down = "1"]
                     ELSE [shown EXCEPT !.sort_down = IF @ = "0" THEN "1" ELSE "0"]
      BY <2>3
    <3>2. CASE c # shown.sort_col
      <4>1. PICK s \in Values : s = [shown EXCEPT !.sort_col = c]
        BY <1>1, Words, SettingChanged
      <4>2. [s EXCEPT !.sort_down = "1"] \in Values
        BY Words, SettingChanged
      <4>3. shown' = [s EXCEPT !.sort_down = "1"]
        BY <3>1, <3>2, <4>1
      <4>4. QED
        BY <1>1, <2>3, <4>2, <4>3
    <3>3. CASE c = shown.sort_col
      <4>1. PICK word \in Numerals : word \in {"0", "1"} /\ word = IF shown.sort_down = "0" THEN "1" ELSE "0"
        BY Words
      <4>2. shown' = [shown EXCEPT !.sort_down = word]
        BY <3>1, <3>3, <4>1
      <4>3. QED
        BY <1>1, <2>3, <4>1, <4>2, SettingChanged
    <3>4. QED
      BY <3>2, <3>3
  <2>4. CASE filter' \in Filters /\ UNCHANGED shown
    BY <1>1, <2>4 DEF Texts
  <2>5. QED
    BY <2>1, <2>2, <2>3, <2>4 DEF Use
<1>3. ValuesInv'
  BY <1>2 DEF Use, SettingsInv, ValuesInv
<1>4. FileInv'
  BY FileKept DEF Use, SettingsInv
<1>5. QED
  BY <1>3, <1>4 DEF SettingsInv

\* At the end the file is emptied and everything is to be written.
LEMMA QuitSettings ==
  ASSUME SettingsInv, Quit
  PROVE  SettingsInv'
<1>1. ValuesInv'
  BY DEF Quit, SettingsInv, ValuesInv
<1>2. CASE home
  <2>1. shown \in Values /\ loaded \in Values /\ filter \in Texts
    BY DEF SettingsInv, ValuesInv
  <2>2. /\ disk' = << >> /\ todo' = Lines(Sorted(shown), filter) /\ stored' = shown
        /\ typed' = filter /\ stuck' = (loaded.sort_col \notin Columns)
    BY <1>2 DEF Quit
  <2>3. PICK w : w = Sorted(shown)
    OBVIOUS
  <2>4. /\ w \in Values /\ w.width = shown.width /\ w.only_rc = shown.only_rc
        /\ IF loaded.sort_col \in Columns THEN w = shown ELSE w.sort_col = loaded.sort_col
    <3>1. CASE loaded.sort_col \in Columns
      BY <2>1, <2>3, <3>1 DEF Sorted
    <3>2. CASE loaded.sort_col \notin Columns
      <4>1. loaded.sort_col \in Numerals /\ loaded.sort_down \in Numerals /\ loaded.sort_down \in {"0", "1"}
        BY <2>1 DEF Values, Keys
      <4>2. PICK s \in Values : s = [shown EXCEPT !.sort_col = loaded.sort_col]
        BY <2>1, <4>1, SettingChanged
      <4>3. [s EXCEPT !.sort_down = loaded.sort_down] \in Values
        BY <4>1, SettingChanged
      <4>4. w = [shown EXCEPT !.sort_col = loaded.sort_col, !.sort_down = loaded.sort_down]
        BY <2>3, <3>2 DEF Sorted
      <4>5. w = [s EXCEPT !.sort_down = loaded.sort_down]
        BY <4>2, <4>4
      <4>6. w.width = shown.width /\ w.only_rc = shown.only_rc /\ w.sort_col = loaded.sort_col
        BY <2>1, <4>4 DEF Values, Keys
      <4>7. QED
        BY <3>2, <4>3, <4>5, <4>6
    <3>3. QED
      BY <3>1, <3>2
  <2>5. Written(<< >>, w, filter)
    BY <2>1, NothingWritten
  <2>6. Pending(todo', 0, w, filter)
    BY <2>2, <2>3 DEF Pending
  <2>7. Len(disk') = 0
    BY <2>2
  <2>8. FileOf(w)'
    BY <2>2, <2>4, <2>5, <2>6, <2>7 DEF FileOf
  <2>9. QED
    BY <1>1, <2>4, <2>8 DEF SettingsInv, FileInv
<1>3. CASE ~home
  <2>1. FileInv'
    BY <1>3, FileKept DEF Quit, SettingsInv
  <2>2. QED
    BY <1>1, <2>1 DEF SettingsInv
<1>4. QED
  BY <1>2, <1>3

\* A line moves from what is to be written to the file.
LEMMA StoreSettings ==
  ASSUME SettingsInv, Store
  PROVE  SettingsInv'
<1>1. ValuesInv'
  BY DEF Store, SettingsInv, ValuesInv
<1>2. CASE todo = << >>
  <2>1. FileInv'
    BY <1>2, FileKept DEF Store, SettingsInv
  <2>2. QED
    BY <1>1, <2>1 DEF SettingsInv
<1>3. CASE todo # << >>
  <2>1. disk' = disk \o Head(todo) /\ todo' = Tail(todo) /\ UNCHANGED <<stored, typed, stuck>>
    BY <1>3 DEF Store
  <2>2. PICK w \in Values : FileOf(w)
    BY <1>3 DEF SettingsInv, FileInv, NothingStored
  <2>3. typed \in Texts
    BY DEF SettingsInv, ValuesInv
  <2>4. Written(disk, w, typed) /\ Pending(todo, Len(disk), w, typed)
    BY <2>2 DEF FileOf
  <2>5. Written(disk \o Head(todo), w, typed) /\ Pending(Tail(todo), Len(disk \o Head(todo)), w, typed)
    BY <1>3, <2>3, <2>4, LineWritten
  <2>6. FileOf(w)'
    BY <2>1, <2>2, <2>5 DEF FileOf
  <2>7. QED
    BY <1>1, <2>6 DEF SettingsInv, FileInv
<1>4. QED
  BY <1>2, <1>3

\* SettingsInv is inductive.
LEMMA NextSettings ==
  ASSUME SettingsInv, [Next]_vars
  PROVE  SettingsInv'
<1>1. CASE Start
  BY <1>1, StartSettings
<1>2. CASE Use
  BY <1>2, UseSettings
<1>3. CASE Quit
  BY <1>3, QuitSettings
<1>4. CASE Store
  BY <1>4, StoreSettings
<1>5. CASE Crash
  <2>1. ValuesInv'
    BY <1>5 DEF Crash, SettingsInv, ValuesInv
  <2>2. FileInv'
    BY <1>5, FileKept DEF Crash, SettingsInv
  <2>3. QED
    BY <2>1, <2>2 DEF SettingsInv
<1>6. CASE UNCHANGED vars
  <2>1. ValuesInv'
    BY <1>6 DEF vars, SettingsInv, ValuesInv
  <2>2. FileInv'
    BY <1>6, FileKept DEF vars, SettingsInv
  <2>3. QED
    BY <2>1, <2>2 DEF SettingsInv
<1>7. QED
  BY <1>1, <1>2, <1>3, <1>4, <1>5, <1>6 DEF Next

\* What the settings read at a start have to do with those stored.
Comes(values) ==
  LET complete == todo = << >>
      kept == IF stuck THEN {"width", "only_rc"} ELSE Keys
  IN  /\ complete /\ Len(typed) <= 1 => \A key \in kept : values[key] = stored[key]
      /\ complete /\ Len(typed) <= 1 /\ stuck => values.sort_col \notin Columns
      /\ Range(typed) \intersect Keys = {} =>
           /\ \A key \in kept : values[key] \in {stored[key], Default[key]}
           /\ complete => \A key \in {"width", "only_rc"} : values[key] = stored[key]
           /\ complete /\ Len(typed) % 2 = 1 => \A key \in kept : values[key] = stored[key]

\* A first start finds the defaults.
LEMMA NothingComes ==
  ASSUME NothingStored
  PROVE  Comes(Load(disk))
<1>1. /\ disk = << >> /\ stored = Default /\ stuck = FALSE
  BY DEF NothingStored
<1>2. Written(<< >>, Default, << >>)
  BY NothingWritten DEF Texts
<1>3. << >> \in Texts /\ Harmless(<< >>)
  BY DEF Texts, Harmless
<1>4. PICK n \in Nat : n = Len(<< >>) /\ n = 0
  OBVIOUS
<1>5. PICK gap \in Nat : gap = Gap(<< >>)
  BY DEF Gap
<1>6. PICK words : words = << >>
  OBVIOUS
<1>7. /\ Load(words).width = IF n >= 2 THEN Default.width ELSE Default.width
      /\ Load(words).only_rc = IF n >= 4 THEN Default.only_rc ELSE Default.only_rc
      /\ Load(words).sort_col \in {Default.sort_col, Default.sort_col}
      /\ Load(words).sort_down \in {Default.sort_down, Default.sort_down}
  <2>1. Written(words, Default, << >>) /\ n = Len(words)
    BY <1>2, <1>4, <1>6
  <2>2. QED
    BY <1>3, <1>5, <2>1, DefaultIsValues, ReadBack
<1>8. \A key \in Keys : Load(disk)[key] = stored[key]
  BY <1>1, <1>6, <1>7 DEF Keys
<1>9. "width" \in Keys /\ "only_rc" \in Keys
  BY DEF Keys
<1>10. QED
  BY <1>1, <1>8, <1>9 DEF Comes

\* A later start finds what the file has of the stored settings.
LEMMA StoredComes ==
  ASSUME typed \in Texts, stored \in Values, NEW w \in Values, FileOf(w)
  PROVE  Comes(Load(disk))
<1>1. /\ w.width = stored.width /\ w.only_rc = stored.only_rc
      /\ IF stuck THEN w.sort_col \notin Columns ELSE w = stored
      /\ Written(disk, w, typed)
      /\ Pending(todo, Len(disk), w, typed)
  BY DEF FileOf
<1>2. PICK n \in Nat : n = Len(disk)
  BY <1>1 DEF Written
<1>3. PICK m \in Nat : /\ m = Len(typed)
                       /\ typed = << >> => m = 0
                       /\ Gap(typed) = IF typed = << >> THEN 0 ELSE m + 1
  BY TextLength
<1>4. PICK gap \in Nat : gap = Gap(typed)
  BY <1>3
<1>5. todo = << >> => n = 8 + gap
  BY <1>1, <1>2, <1>4, AllWritten
<1>6. ASSUME Harmless(typed)
      PROVE  /\ Load(disk).width = IF n >= 2 THEN w.width ELSE Default.width
             /\ Load(disk).only_rc = IF n >= 4 THEN w.only_rc ELSE Default.only_rc
             /\ Load(disk).sort_col \in {w.sort_col, Default.sort_col}
             /\ Load(disk).sort_down \in {w.sort_down, Default.sort_down}
             /\ gap % 2 = 0 /\ n = 8 + gap =>
                  Load(disk).sort_col = w.sort_col /\ Load(disk).sort_down = w.sort_down
  BY <1>1, <1>2, <1>4, <1>6, ReadBack
<1>7. m <= 1 => gap % 2 = 0
  <2>1. m <= 1 => gap = 0 \/ gap = 2
    <3>1. typed # << >> => m # 0
      <4>1. typed \in Seq(Vocabulary)
        BY TextsAreWords
      <4>2. QED
        BY <1>3, <4>1, EmptySeq
    <3>2. QED
      BY <1>3, <1>4, <3>1
  <2>2. QED
    BY <2>1
<1>8. m % 2 = 1 => gap % 2 = 0
  <2>1. SUFFICES ASSUME m % 2 = 1 PROVE gap % 2 = 0
    OBVIOUS
  <2>2. gap = m + 1
    BY <1>3, <1>4, <2>1
  <2>3. \A k \in Nat : k % 2 = 1 => (k + 1) % 2 = 0
    OBVIOUS
  <2>4. QED
    BY <2>1, <2>2, <2>3
<1>9. ASSUME Harmless(typed), todo = << >>
      PROVE  Load(disk).width = stored.width /\ Load(disk).only_rc = stored.only_rc
  <2>1. n >= 2 /\ n >= 4
    BY <1>5, <1>9
  <2>2. QED
    BY <1>1, <1>6, <1>9, <2>1
<1>10. ASSUME Harmless(typed), todo = << >>, gap % 2 = 0
       PROVE  Load(disk).sort_col = w.sort_col /\ Load(disk).sort_down = w.sort_down
  BY <1>5, <1>6, <1>10
<1>11. ASSUME Harmless(typed), todo = << >>, gap % 2 = 0,
              NEW key \in IF stuck THEN {"width", "only_rc"} ELSE Keys
       PROVE  Load(disk)[key] = stored[key]
  <2>1. CASE key \in {"width", "only_rc"}
    BY <1>9, <1>11, <2>1
  <2>2. CASE key \in {"sort_col", "sort_down"}
    <3>1. w = stored
      BY <1>1, <1>11, <2>2
    <3>2. QED
      BY <1>10, <1>11, <2>2, <3>1
  <2>3. QED
    BY <1>11, <2>1, <2>2 DEF Keys
<1>12. ASSUME Harmless(typed), NEW key \in IF stuck THEN {"width", "only_rc"} ELSE Keys
       PROVE  Load(disk)[key] \in {stored[key], Default[key]}
  <2>1. CASE key = "width"
    BY <1>1, <1>6, <1>12, <2>1
  <2>2. CASE key = "only_rc"
    BY <1>1, <1>6, <1>12, <2>2
  <2>3. CASE key \in {"sort_col", "sort_down"}
    <3>1. w = stored
      BY <1>1, <1>12, <2>3
    <3>2. QED
      BY <1>6, <1>12, <2>3, <3>1
  <2>4. QED
    BY <1>12, <2>1, <2>2, <2>3 DEF Keys
<1>13. ASSUME todo = << >>, Len(typed) <= 1
       PROVE  /\ \A key \in IF stuck THEN {"width", "only_rc"} ELSE Keys : Load(disk)[key] = stored[key]
              /\ stuck => Load(disk).sort_col \notin Columns
  <2>1. Harmless(typed)
    BY <1>13 DEF Harmless
  <2>2. gap % 2 = 0
    BY <1>3, <1>7, <1>13
  <2>3. QED
    BY <1>1, <1>10, <1>11, <1>13, <2>1, <2>2
<1>14. ASSUME Range(typed) \intersect Keys = {}
       PROVE  /\ \A key \in IF stuck THEN {"width", "only_rc"} ELSE Keys :
                   Load(disk)[key] \in {stored[key], Default[key]}
              /\ todo = << >> => \A key \in {"width", "only_rc"} : Load(disk)[key] = stored[key]
              /\ todo = << >> /\ Len(typed) % 2 = 1 =>
                   \A key \in IF stuck THEN {"width", "only_rc"} ELSE Keys : Load(disk)[key] = stored[key]
  <2>1. Harmless(typed)
    BY <1>14 DEF Harmless
  <2>2. Len(typed) % 2 = 1 => gap % 2 = 0
    BY <1>3, <1>8
  <2>3. QED
    BY <1>9, <1>11, <1>12, <2>1, <2>2
<1>15. QED
  BY <1>13, <1>14 DEF Comes

\* The next start finds the settings of the last normal end, whatever the texts
\* and the moment at which writing was cut short (main of rcdiscover-gui).
THEOREM SettingsComeBack == Spec => Restored
<1>1. Init => SettingsInv
  BY InitSettings
<1>2. SettingsInv /\ [Next]_vars => SettingsInv'
  BY NextSettings
<1>3. ASSUME SettingsInv, [Next]_vars
      PROVE  [Start /\ home =>
                LET complete == todo = << >>
                    kept == IF stuck THEN {"width", "only_rc"} ELSE Keys
                IN  /\ complete /\ Len(typed) <= 1 => \A key \in kept : loaded'[key] = stored[key]
                    /\ complete /\ Len(typed) <= 1 /\ stuck => loaded'.sort_col \notin Columns
                    /\ Range(typed) \intersect Keys = {} =>
                         /\ \A key \in kept : loaded'[key] \in {stored[key], Default[key]}
                         /\ complete => \A key \in {"width", "only_rc"} : loaded'[key] = stored[key]
                         /\ complete /\ Len(typed) % 2 = 1 => \A key \in kept : loaded'[key] = stored[key]]_vars
  <2>1. SUFFICES ASSUME Start, home PROVE Comes(loaded')
    BY DEF Comes
  <2>2. loaded' = Load(disk)
    BY <2>1 DEF Start
  <2>3. typed \in Texts /\ stored \in Values
    BY <1>3 DEF SettingsInv, ValuesInv
  <2>4. Comes(Load(disk))
    BY <1>3, <2>3, NothingComes, StoredComes DEF SettingsInv, FileInv
  <2>5. QED
    BY <2>2, <2>4
<1>4. QED
  BY <1>1, <1>2, <1>3, PTL DEF Spec, Restored

=============================================================================
