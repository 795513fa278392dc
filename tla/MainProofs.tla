------------------------------ MODULE MainProofs ------------------------------
(***************************************************************************)
(* Proofs about the two ends of a run of main.  For every set of words and  *)
(* every command line: an action is selected only when every word was       *)
(* understood, colour is what was asked for, and the operands are there.    *)
(* For output of any length, a pipe of any capacity and any exit code: the  *)
(* terminal gets the output once and in order, a pager nobody left has      *)
(* shown all of it, and the shell prompt never meets a running pager.       *)
(***************************************************************************)
EXTENDS CommandLine, PagedOutput, FiniteSetTheorems, SequenceTheorems, WellFoundedInduction, TLAPS

-----------------------------------------------------------------------------
(* The parts words play: a recursive function along the command line *)

\* A set of natural numbers that has members has a least one.
LEMMA LeastMember ==
  ASSUME NEW S, S \subseteq Nat, S # {}
  PROVE  \E x \in S : \A y \in S : x <= y
<1>1. PICK x \in S : \A y \in S : ~(<<y, x>> \in OpToRel(<, Nat))
  BY NatLessThanWellFounded, WFMin
<1>2. \A y \in S : ~(y < x)
  BY <1>1 DEF OpToRel
<1> QED
  BY <1>2

\* The part of word i, given the parts before it.
Part(f, i) == part_after(i, IF i = 1 THEN "start" ELSE f[i - 1])

\* Parts is a function that satisfies its own definition.
LEMMA PartsAre ==
  ASSUME argv \in Seq(Words)
  PROVE  \A i \in DOMAIN argv : Parts[i] = Part(Parts, i)
<1>1. PICK n \in Nat : n = Len(argv) /\ DOMAIN argv = 1..n
  OBVIOUS
<1> DEFINE Solved(m) == \E f : \A i \in 1..m : f[i] = Part(f, i)
           Bad == {m \in 0..n : ~Solved(m)}
<1>2. Solved(0)
  OBVIOUS
<1>3. ASSUME NEW m \in 0..n, m < n, Solved(m)
      PROVE  Solved(m + 1)
  <2>1. PICK f : \A i \in 1..m : f[i] = Part(f, i)
    BY <1>3
  <2> DEFINE g == [i \in 1..m + 1 |-> IF i = m + 1 THEN Part(f, i) ELSE f[i]]
  <2>2. \A i \in 1..m + 1 : Part(g, i) = Part(f, i)
    <3> SUFFICES ASSUME NEW i \in 1..m + 1, i # 1
                 PROVE  g[i - 1] = f[i - 1]
      BY DEF Part
    <3>1. i - 1 \in 1..m + 1 /\ i - 1 # m + 1
      OBVIOUS
    <3> QED
      BY <3>1
  <2>3. \A i \in 1..m + 1 : g[i] = Part(f, i)
    BY <2>1
  <2> HIDE DEF g
  <2> QED
    BY <2>2, <2>3
<1>4. Bad = {}
  <2> SUFFICES ASSUME Bad # {} PROVE FALSE
    OBVIOUS
  <2>0. Bad \subseteq Nat
    OBVIOUS
  <2> HIDE DEF Bad
  <2>1. PICK m \in Bad : \A y \in Bad : m <= y
    BY <2>0, LeastMember
  <2> USE DEF Bad
  <2>2. m \in 1..n /\ ~Solved(m)
    BY <1>2, <2>1
  <2>3. m - 1 \in 0..n /\ m - 1 < n /\ ~(m <= m - 1)
    BY <2>2
  <2> HIDE DEF Solved
  <2>4. Solved(m - 1)
    BY <2>1, <2>3
  <2>5. (m - 1) + 1 = m
    BY <2>2
  <2> QED
    BY <1>3, <2>2, <2>3, <2>4, <2>5
<1>5. PICK f : \A i \in 1..n : f[i] = Part(f, i)
  <2> HIDE DEF Solved
  <2>1. Solved(n)
    BY <1>4
  <2> QED
    BY <2>1 DEF Solved
<1> DEFINE part == [i \in DOMAIN argv |-> f[i]]
<1>6. \A i \in DOMAIN argv : part[i] = Part(part, i)
  <2> SUFFICES ASSUME NEW i \in 1..n PROVE Part(part, i) = Part(f, i)
    BY <1>1, <1>5
  <2>1. CASE i = 1
    BY <2>1 DEF Part
  <2>2. CASE i # 1
    <3>1. i - 1 \in DOMAIN argv
      BY <1>1, <2>2
    <3>2. part[i - 1] = f[i - 1]
      BY <3>1
    <3> QED
      BY <3>2 DEF Part
  <2> QED
    BY <2>1, <2>2
<1>7. part = [i \in DOMAIN argv |-> part[i]]
  OBVIOUS
<1> HIDE DEF part
<1>8. part = [i \in DOMAIN argv |-> Part(part, i)]
  BY <1>6, <1>7
<1>9. Parts = [i \in DOMAIN argv |-> Part(Parts, i)]
  BY <1>8 DEF Parts, Part
<1> QED
  BY <1>9

\* A word is a value when the option before it takes one, and else it is what it looks like.
LEMMA PartOf ==
  ASSUME argv \in Seq(Words), NEW i \in DOMAIN argv
  PROVE  /\ Parts[i] # "value" => Parts[i] = IF argv[i] \in is_flag THEN "option" ELSE "positional"
         /\ Parts[i] = "value" => /\ i > 1 /\ argv[i] \notin is_flag /\ Parts[i - 1] = "option"
                                  /\ \/ argv[i - 1] \in Valued \cup {"--color"}
                                     \/ argv[i - 1] = "--hex" /\ argv[i] \in Names \cup Paths
         /\ i > 1 /\ argv[i] \notin is_flag /\ Parts[i - 1] = "option"
              /\ (\/ argv[i - 1] \in Valued \cup {"--color"}
                  \/ argv[i - 1] = "--hex" /\ argv[i] \in Names \cup Paths)
            => Parts[i] = "value"
<1>1. Parts[i] = Part(Parts, i)
  BY PartsAre
<1>2. i \in Nat \ {0}
  OBVIOUS
<1> QED
  BY <1>1, <1>2 DEF Part, part_after

\* The command line stays, and with it all that is said of its words.
LEMMA SameWords ==
  ASSUME argv' = argv, NEW n
  PROVE  /\ Parts' = Parts /\ OptionsIn(n)' = OptionsIn(n) /\ LeftIn(n)' = LeftIn(n)
         /\ \A f : ValuesIn(n, f)' = ValuesIn(n, f)
         /\ colors(n)' = colors(n) /\ mode(n)' = mode(n) /\ off(n)' = off(n)
<1>1. Parts' = Parts
  BY DEF Parts, part_after
<1>2. OptionsIn(n)' = OptionsIn(n) /\ LeftIn(n)' = LeftIn(n) /\ \A f : ValuesIn(n, f)' = ValuesIn(n, f)
  BY <1>1 DEF OptionsIn, LeftIn, ValuesIn
<1>3. colors(n)' = colors(n)
  BY <1>2 DEF colors
<1>4. mode(n)' = mode(n)
  BY <1>3 DEF mode, Latest
<1> QED
  BY <1>1, <1>2, <1>3, <1>4 DEF off

-----------------------------------------------------------------------------
(* One more option, option with value, or positional word *)

\* The words up to k, when k is an option without a value.
LEMMA OptionAlone ==
  ASSUME argv \in Seq(Words), NEW k \in DOMAIN argv, Parts[k] = "option"
  PROVE  /\ OptionsIn(k) = OptionsIn(k - 1) \cup {k} /\ LeftIn(k) = LeftIn(k - 1)
         /\ \A f : ValuesIn(k, f) = ValuesIn(k - 1, f)
<1>1. k \in Nat \ {0} /\ 1..k = 1..(k - 1) \cup {k} /\ \A i \in 2..k : i \in 2..(k - 1) \/ i = k
  OBVIOUS
<1>2. \A i \in 2..(k - 1) : i \in 2..k
  BY <1>1
<1> QED
  BY <1>1, <1>2 DEF OptionsIn, LeftIn, ValuesIn

\* The words up to k + 1, when k is an option and k + 1 its value.
LEMMA OptionWithValue ==
  ASSUME argv \in Seq(Words), NEW k \in DOMAIN argv, k + 1 \in DOMAIN argv,
         Parts[k] = "option", Parts[k + 1] = "value"
  PROVE  /\ OptionsIn(k + 1) = OptionsIn(k - 1) \cup {k} /\ LeftIn(k + 1) = LeftIn(k - 1)
         /\ \A f : ValuesIn(k + 1, f) = ValuesIn(k - 1, f) \cup (IF f = argv[k] THEN {k + 1} ELSE {})
<1>1. /\ k \in Nat \ {0} /\ 1..(k + 1) = 1..(k - 1) \cup {k, k + 1}
      /\ 2..(k + 1) = {i \in 2..(k - 1) : TRUE} \cup ({k, k + 1} \ {1}) /\ k + 1 # 1
      /\ (k + 1) - 1 = k
  OBVIOUS
<1>2. \A f : ValuesIn(k + 1, f) = ValuesIn(k - 1, f) \cup (IF f = argv[k] THEN {k + 1} ELSE {})
  BY <1>1 DEF ValuesIn
<1> QED
  BY <1>1, <1>2 DEF OptionsIn, LeftIn

\* The words up to k, when k is neither an option nor a value.
LEMMA PositionalWord ==
  ASSUME argv \in Seq(Words), NEW k \in DOMAIN argv, Parts[k] = "positional"
  PROVE  /\ OptionsIn(k) = OptionsIn(k - 1) /\ LeftIn(k) = LeftIn(k - 1) \cup {k}
         /\ \A f : ValuesIn(k, f) = ValuesIn(k - 1, f)
<1>1. k \in Nat \ {0} /\ 1..k = 1..(k - 1) \cup {k} /\ \A i \in 2..k : i \in 2..(k - 1) \/ i = k
  OBVIOUS
<1>2. \A i \in 2..(k - 1) : i \in 2..k
  BY <1>1
<1> QED
  BY <1>1, <1>2 DEF OptionsIn, LeftIn, ValuesIn

\* What comes last is the latest.
LEMMA LatestIs ==
  ASSUME NEW n \in Int, NEW S, \A i \in S : i \in Int /\ i <= n, NEW m \in Int, m > n
  PROVE  Latest(S \cup {m}) = m
<1>1. \A j \in S \cup {m} : j <= m
  OBVIOUS
<1>2. \A i \in S \cup {m} : (\A j \in S \cup {m} : j <= i) => i = m
  OBVIOUS
<1> QED
  BY <1>1, <1>2 DEF Latest

\* How the words left over are counted.
LEMMA LeftCounted ==
  ASSUME NEW n \in Nat
  PROVE  IsFiniteSet(LeftIn(n)) /\ Cardinality(LeftIn(n)) \in Nat /\ n + 1 \notin LeftIn(n)
<1>1. IsFiniteSet(1..n)
  BY FS_Interval
<1>2. IsFiniteSet(LeftIn(n))
  BY <1>1, FS_Subset DEF LeftIn
<1> QED
  BY <1>2, FS_CardinalityType DEF LeftIn

-----------------------------------------------------------------------------
(* The invariant of parse_args *)

Arguments ==
  [on : SUBSET (Switches \cup {"--hex"}), value : [Valued -> Words \cup {None}],
   hex_section : Words \cup {None}, no_color : BOOLEAN, color_always : BOOLEAN,
   positional : Seq(Words)]

ColourRead(n) == (args.color_always <=> mode(n) = "always") /\ (args.no_color <=> off(n))

\* The first n words are read, and the next is no value of an option.
ReadTo(n) ==
  /\ Understood(n) /\ ColourRead(n)
  /\ n + 1 \in DOMAIN argv => Parts[n + 1] # "value"

Reader ==
  /\ argv \in Seq(Words) /\ args \in Arguments /\ index \in Nat
  /\ action = "parsing" => effect = Undecided /\ \E n \in 0..Len(argv) : index = n + 1 /\ ReadTo(n)
  /\ Selected => ReadTo(Len(argv))
  /\ effect.done => (effect.color <=> resolve_use_color(around))

\* Words of one kind are not of another.
LEMMA Kinds ==
  /\ Switches \cap Valued = {} /\ "--hex" \notin Switches \cup Valued
  /\ {"--color", "--no-color"} \cap (Switches \cup Valued \cup {"--hex"}) = {}
  /\ Switches \cup Valued \cup {"--hex", "--color", "--no-color"} \subseteq is_flag
BY DEF Switches, Valued, Measures, is_flag

\* Nothing is read, and nothing said.
LEMMA ReaderInit == Init => Reader
<1> SUFFICES ASSUME Init PROVE Reader
  OBVIOUS
<1>1. argv \in Seq(Words)
  BY WordConstants DEF Init
<1>2. args \in Arguments
  BY DEF Init, Arguments
<1>3. OptionsIn(0) = {} /\ LeftIn(0) = {} /\ \A f : ValuesIn(0, f) = {}
  BY DEF OptionsIn, LeftIn, ValuesIn
<1>4. Understood(0)
  <2>1. Cardinality({}) = 0
    BY FS_EmptySet
  <2> QED
    BY <1>3, <2>1 DEF Init, Understood
<1>5. ColourRead(0)
  BY <1>3 DEF Init, ColourRead, mode, off, colors
<1>6. 1 \in DOMAIN argv => Parts[1] # "value"
  BY <1>1, PartOf
<1>7. ReadTo(0)
  BY <1>4, <1>5, <1>6 DEF ReadTo
<1>8. 0 \in 0..Len(argv) /\ index = 0 + 1 /\ action = "parsing" /\ ~effect.done /\ effect = Undecided
  BY <1>1 DEF Init, Undecided
<1>9. ~Selected
  BY <1>8 DEF Selected, Actions, Order
<1> QED
  BY <1>1, <1>2, <1>7, <1>8, <1>9 DEF Reader

\* The word that is read next.
LEMMA AtWord ==
  ASSUME Reader, Reading
  PROVE  /\ index \in DOMAIN argv /\ index - 1 \in 0..Len(argv) /\ Parts[index] # "value"
         /\ Understood(index - 1) /\ ColourRead(index - 1) /\ effect = Undecided
         /\ Parts[index] = IF Word \in is_flag THEN "option" ELSE "positional"
<1>1. PICK n \in 0..Len(argv) : index = n + 1 /\ ReadTo(n)
  BY DEF Reader, Reading
<1>2. argv \in Seq(Words) /\ index <= Len(argv)
  BY DEF Reader, Reading
<1>3. index \in DOMAIN argv /\ n = index - 1
  BY <1>1, <1>2
<1>4. ReadTo(index - 1) /\ (index - 1) + 1 = index
  BY <1>1, <1>3
<1>5. Understood(index - 1) /\ ColourRead(index - 1) /\ Parts[index] # "value"
  BY <1>3, <1>4 DEF ReadTo
<1> QED
  BY <1>1, <1>2, <1>3, <1>5, PartOf DEF Word, Reader, Reading

\* A turn that has understood the words up to m keeps the invariant.
LEMMA WordTaken ==
  ASSUME Reader, Reading, NEW m \in 0..Len(argv), index' = m + 1, args' \in Arguments,
         UNCHANGED <<argv, action, around, effect>>,
         Understood(m)', ColourRead(m)', m + 1 \in DOMAIN argv => Parts[m + 1] # "value"
  PROVE  Reader'
<1>1. effect = Undecided /\ action = "parsing" /\ argv \in Seq(Words)
  BY AtWord DEF Reading, Reader
<1>2. m + 1 \in DOMAIN argv' => Parts'[m + 1] # "value"
  BY SameWords
<1>3. ReadTo(m)'
  BY <1>2 DEF ReadTo
<1>4. ~Selected'
  BY <1>1 DEF Selected, Actions, Order
<1>5. ~effect.done
  BY <1>1 DEF Undecided
<1> QED
  BY <1>1, <1>3, <1>4, <1>5 DEF Reader

\* Words that do not speak of colour leave it as it is.
LEMMA ColourSame ==
  ASSUME argv \in Seq(Words), NEW k \in DOMAIN argv, NEW m \in DOMAIN argv, m = k \/ m = k + 1,
         argv[k] \notin {"--color", "--no-color"}, m = k + 1 => argv[k + 1] \notin is_flag,
         OptionsIn(m) \subseteq OptionsIn(k - 1) \cup {k}, OptionsIn(k - 1) \subseteq OptionsIn(m)
  PROVE  mode(m) = mode(k - 1) /\ (off(m) <=> off(k - 1))
<1>1. colors(m) = colors(k - 1)
  BY DEF colors
<1>2. mode(m) = mode(k - 1)
  BY <1>1 DEF mode
<1>3. \A i \in 1..m : argv[i] = "--no-color" => i \in 1..(k - 1)
  BY DEF is_flag
<1>4. \A i \in 1..(k - 1) : i \in 1..m
  OBVIOUS
<1> QED
  BY <1>1, <1>2, <1>3, <1>4 DEF off

\* An option without value.
LEMMA ReadSwitchStep ==
  ASSUME Reader, ReadSwitch
  PROVE  Reader'
<1>1. /\ Reading /\ Word \in Switches /\ index' = index + 1
      /\ args' = [args EXCEPT !.on = @ \cup {Word}] /\ UNCHANGED <<argv, action, around, effect>>
  BY DEF ReadSwitch, Take
<1>2. PICK k : k = index
  OBVIOUS
<1>3. /\ k \in DOMAIN argv /\ Understood(k - 1) /\ ColourRead(k - 1) /\ Parts[k] = "option"
      /\ argv \in Seq(Words) /\ args \in Arguments /\ Word = argv[k]
  BY <1>1, <1>2, AtWord, Kinds DEF Reader, Word
<1>4. args' \in Arguments /\ args'.on = args.on \cup {argv[k]} /\ args'.value = args.value
      /\ args'.positional = args.positional /\ args'.no_color = args.no_color
      /\ args'.color_always = args.color_always
  BY <1>1, <1>3 DEF Arguments
<1>5. Understood(k)'
  BY <1>1, <1>3, <1>4, SameWords, OptionAlone DEF Understood
<1>6. ColourRead(k)'
  BY <1>1, <1>3, <1>4, SameWords, OptionAlone, ColourSame, Kinds DEF ColourRead
<1>7. k + 1 \in DOMAIN argv => Parts[k + 1] # "value"
  BY <1>1, <1>3, PartOf, Kinds
<1>8. k \in 0..Len(argv)
  BY <1>3
<1> QED
  BY <1>1, <1>2, <1>4, <1>5, <1>6, <1>7, <1>8, WordTaken

\* A word that an option takes, and the word after it.
LEMMA ValueTaken ==
  ASSUME Reader, Reading,
         \/ Word \in Valued \cup {"--color"} /\ has_value
         \/ Word = "--hex" /\ index < Len(argv) /\ argv[index + 1] \in Names \cup Paths
  PROVE  /\ index + 1 \in DOMAIN argv /\ argv[index + 1] \notin is_flag
         /\ Parts[index] = "option" /\ Parts[index + 1] = "value"
         /\ index + 2 \in DOMAIN argv => Parts[index + 2] # "value"
<1>1. index \in DOMAIN argv /\ Parts[index] = "option" /\ argv \in Seq(Words) /\ argv[index] = Word
  BY AtWord, Kinds DEF Reader, Word
<1>2. index + 1 \in DOMAIN argv /\ argv[index + 1] \notin is_flag
  BY <1>1, WordConstants DEF has_value
<1>3. index \in Nat /\ index + 1 > 1 /\ (index + 1) - 1 = index /\ (index + 2) - 1 = index + 1
  BY <1>1
<1>4. Parts[index + 1] = "value"
  BY <1>1, <1>2, <1>3, PartOf
<1>5. index + 2 \in DOMAIN argv => Parts[index + 2] # "value"
  BY <1>1, <1>3, <1>4, PartOf
<1> QED
  BY <1>1, <1>2, <1>4, <1>5

\* An option with its value: of several the last counts.
LEMMA ReadValueStep ==
  ASSUME Reader, ReadValue
  PROVE  Reader'
<1>1. /\ Reading /\ Word \in Valued /\ has_value /\ index' = index + 2
      /\ args' = [args EXCEPT !.value[Word] = argv[index + 1]] /\ UNCHANGED <<argv, action, around, effect>>
  BY DEF ReadValue, Take
<1>2. PICK k : k = index
  OBVIOUS
<1>3. /\ k \in DOMAIN argv /\ Understood(k - 1) /\ ColourRead(k - 1)
      /\ argv \in Seq(Words) /\ args \in Arguments /\ Word = argv[k]
  BY <1>1, <1>2, AtWord DEF Reader, Word
<1>4. /\ k + 1 \in DOMAIN argv /\ argv[k + 1] \notin is_flag /\ Parts[k] = "option"
      /\ Parts[k + 1] = "value"
      /\ k + 2 \in DOMAIN argv => Parts[k + 2] # "value"
  <2>1. Reading /\ Word \in Valued \cup {"--color"} /\ has_value
    BY <1>1
  <2>2. /\ index + 1 \in DOMAIN argv /\ argv[index + 1] \notin is_flag
        /\ Parts[index] = "option" /\ Parts[index + 1] = "value"
        /\ index + 2 \in DOMAIN argv => Parts[index + 2] # "value"
    BY <2>1, ValueTaken
  <2> QED
    BY <1>2, <2>2
<1>5. /\ args' \in Arguments /\ args'.on = args.on
      /\ args'.value = [args.value EXCEPT ![argv[k]] = argv[k + 1]]
      /\ args'.positional = args.positional /\ args'.no_color = args.no_color
      /\ args'.color_always = args.color_always
  <2>1. argv[k] \in Valued /\ argv[k + 1] \in Words
    BY <1>1, <1>3, <1>4
  <2>2. args.value \in [Valued -> Words \cup {None}]
    BY <1>3 DEF Arguments
  <2>3. [args.value EXCEPT ![argv[k]] = argv[k + 1]] \in [Valued -> Words \cup {None}]
    BY <2>1, <2>2
  <2>4. args' = [args EXCEPT !.value = [args.value EXCEPT ![argv[k]] = argv[k + 1]]]
    BY <1>1, <1>2, <1>3
  <2> DEFINE v == [args.value EXCEPT ![argv[k]] = argv[k + 1]]
  <2> HIDE DEF v
  <2>5. v \in [Valued -> Words \cup {None}] /\ args' = [args EXCEPT !.value = v]
    BY <2>3, <2>4 DEF v
  <2>6. args'.value = v
    BY <1>3, <2>5 DEF Arguments
  <2>7. args' \in Arguments /\ args'.on = args.on /\ args'.positional = args.positional
        /\ args'.no_color = args.no_color /\ args'.color_always = args.color_always
    BY <1>3, <2>5 DEF Arguments
  <2> QED
    BY <2>6, <2>7 DEF v
<1>6. /\ OptionsIn(k + 1) = OptionsIn(k - 1) \cup {k} /\ LeftIn(k + 1) = LeftIn(k - 1)
      /\ \A f : ValuesIn(k + 1, f) = ValuesIn(k - 1, f) \cup (IF f = argv[k] THEN {k + 1} ELSE {})
  BY <1>3, <1>4, OptionWithValue
<1>7. \A f \in Valued :
        args'.value[f] = IF ValuesIn(k + 1, f) = {} THEN None ELSE argv[Latest(ValuesIn(k + 1, f))]
  <2> SUFFICES ASSUME NEW f \in Valued
               PROVE  args'.value[f] = IF ValuesIn(k + 1, f) = {} THEN None
                                       ELSE argv[Latest(ValuesIn(k + 1, f))]
    OBVIOUS
  <2>1. args.value \in [Valued -> Words \cup {None}]
    BY <1>3 DEF Arguments
  <2>2. CASE f = argv[k]
    <3>1. ValuesIn(k + 1, f) = ValuesIn(k - 1, f) \cup {k + 1} /\ k \in Int
      BY <1>3, <1>6, <2>2
    <3>2. \A i \in ValuesIn(k - 1, f) : i \in Int /\ i <= k - 1
      BY <3>1 DEF ValuesIn
    <3>3. Latest(ValuesIn(k + 1, f)) = k + 1
      BY <3>1, <3>2, LatestIs
    <3>4. args'.value[f] = argv[k + 1]
      BY <1>5, <2>1, <2>2
    <3> QED
      BY <3>1, <3>3, <3>4
  <2>3. CASE f # argv[k]
    <3>1. ValuesIn(k + 1, f) = ValuesIn(k - 1, f)
      BY <1>6, <2>3
    <3>2. args'.value[f] = args.value[f]
      BY <1>5, <2>1, <2>3
    <3> QED
      BY <1>3, <3>1, <3>2 DEF Understood
  <2> QED
    BY <2>2, <2>3
<1>8. {argv[i] : i \in OptionsIn(k + 1)} \cap (Switches \cup {"--hex"})
        = {argv[i] : i \in OptionsIn(k - 1)} \cap (Switches \cup {"--hex"})
  BY <1>1, <1>3, <1>6, Kinds
<1>9. Understood(k + 1)'
  BY <1>1, <1>3, <1>5, <1>6, <1>7, <1>8, SameWords DEF Understood
<1>10. ColourRead(k + 1)'
  BY <1>1, <1>3, <1>4, <1>5, <1>6, SameWords, ColourSame, Kinds DEF ColourRead
<1>11. PICK m \in 0..Len(argv) : m = k + 1
  BY <1>3, <1>4
<1>12. m + 1 = k + 2 /\ index' = m + 1
  BY <1>1, <1>2, <1>3, <1>11
<1>13. Understood(m)' /\ ColourRead(m)' /\ (m + 1 \in DOMAIN argv => Parts[m + 1] # "value")
  BY <1>4, <1>9, <1>10, <1>11, <1>12
<1> QED
  BY <1>1, <1>5, <1>12, <1>13, WordTaken

\* --hex, alone or with the section after it.
LEMMA ReadHexStep ==
  ASSUME Reader, ReadHex
  PROVE  Reader'
<1>1. /\ Reading /\ Word = "--hex" /\ UNCHANGED <<argv, action, around, effect>>
      /\ IF index < Len(argv) /\ argv[index + 1] \in Names \cup Paths
         THEN index' = index + 2 /\ args' = [args EXCEPT !.on = @ \cup {Word}, !.hex_section = argv[index + 1]]
         ELSE index' = index + 1 /\ args' = [args EXCEPT !.on = @ \cup {Word}]
  BY DEF ReadHex, Take
<1>2. PICK k : k = index
  OBVIOUS
<1>3. /\ k \in DOMAIN argv /\ Understood(k - 1) /\ ColourRead(k - 1) /\ Parts[k] = "option"
      /\ argv \in Seq(Words) /\ args \in Arguments /\ argv[k] = "--hex"
  BY <1>1, <1>2, AtWord, Kinds DEF Reader, Word
<1>4. PICK m \in {k, k + 1} :
        /\ m \in DOMAIN argv /\ index' = m + 1 /\ args' \in Arguments
        /\ m = k + 1 => Parts[k + 1] = "value" /\ argv[k + 1] \notin is_flag
        /\ m + 1 \in DOMAIN argv => Parts[m + 1] # "value"
  <2>1. CASE index < Len(argv) /\ argv[index + 1] \in Names \cup Paths
    <3>1. /\ k + 1 \in DOMAIN argv /\ argv[k + 1] \notin is_flag /\ Parts[k + 1] = "value"
          /\ k + 2 \in DOMAIN argv => Parts[k + 2] # "value"
      BY <1>1, <1>2, <2>1, ValueTaken
    <3>2. index' = (k + 1) + 1 /\ (k + 1) + 1 = k + 2
      BY <1>1, <1>2, <1>3, <2>1
    <3>3. argv[k + 1] \in Words /\ args.on \cup {"--hex"} \in SUBSET (Switches \cup {"--hex"})
      BY <1>3, <3>1 DEF Arguments
    <3>4. args' = [args EXCEPT !.on = @ \cup {"--hex"}, !.hex_section = argv[k + 1]]
      BY <1>1, <1>2, <2>1
    <3>5. args' \in Arguments
      BY <1>3, <3>3, <3>4 DEF Arguments
    <3> QED
      BY <3>1, <3>2, <3>5
  <2>2. CASE ~(index < Len(argv) /\ argv[index + 1] \in Names \cup Paths)
    <3>1. k + 1 \in DOMAIN argv => Parts[k + 1] # "value"
      BY <1>2, <1>3, <2>2, PartOf, Kinds
    <3>2. index' = k + 1
      BY <1>1, <1>2, <1>3, <2>2
    <3>3. args' \in Arguments
      BY <1>1, <1>2, <1>3, <2>2 DEF Arguments
    <3> QED
      BY <1>3, <3>1, <3>2, <3>3
  <2> QED
    BY <2>1, <2>2
<1>5. /\ args'.on = args.on \cup {"--hex"} /\ args'.value = args.value
      /\ args'.positional = args.positional /\ args'.no_color = args.no_color
      /\ args'.color_always = args.color_always
  <2>1. CASE index < Len(argv) /\ argv[index + 1] \in Names \cup Paths
    BY <1>1, <1>3, <2>1 DEF Arguments
  <2>2. CASE ~(index < Len(argv) /\ argv[index + 1] \in Names \cup Paths)
    BY <1>1, <1>3, <2>2 DEF Arguments
  <2> QED
    BY <2>1, <2>2
<1>6. /\ OptionsIn(m) = OptionsIn(k - 1) \cup {k} /\ LeftIn(m) = LeftIn(k - 1)
      /\ \A f \in Valued : ValuesIn(m, f) = ValuesIn(k - 1, f)
  <2>1. CASE m = k
    BY <1>3, <2>1, OptionAlone
  <2>2. CASE m = k + 1
    <3>1. k + 1 \in DOMAIN argv /\ Parts[k + 1] = "value"
      BY <1>4, <2>2
    <3>2. /\ OptionsIn(k + 1) = OptionsIn(k - 1) \cup {k} /\ LeftIn(k + 1) = LeftIn(k - 1)
          /\ \A f : ValuesIn(k + 1, f) = ValuesIn(k - 1, f) \cup (IF f = argv[k] THEN {k + 1} ELSE {})
      BY <1>3, <3>1, OptionWithValue
    <3>3. \A f \in Valued : f # argv[k]
      BY <1>3, Kinds
    <3> QED
      BY <2>2, <3>2, <3>3
  <2> QED
    BY <1>4, <2>1, <2>2
<1>7. Understood(m)'
  BY <1>1, <1>3, <1>5, <1>6, SameWords DEF Understood
<1>8. ColourRead(m)'
  BY <1>1, <1>3, <1>4, <1>5, <1>6, SameWords, ColourSame, Kinds DEF ColourRead
<1>9. m \in 0..Len(argv)
  BY <1>3, <1>4
<1> QED
  BY <1>1, <1>4, <1>7, <1>8, <1>9, WordTaken

\* A file or a symbol.
LEMMA ReadPositionalStep ==
  ASSUME Reader, ReadPositional
  PROVE  Reader'
<1>1. /\ Reading /\ Word \notin is_flag /\ index' = index + 1
      /\ args' = [args EXCEPT !.positional = Append(@, Word)] /\ UNCHANGED <<argv, action, around, effect>>
  BY DEF ReadPositional, Take
<1>2. PICK k : k = index
  OBVIOUS
<1>3. /\ k \in DOMAIN argv /\ Understood(k - 1) /\ ColourRead(k - 1) /\ Parts[k] = "positional"
      /\ argv \in Seq(Words) /\ args \in Arguments /\ Word = argv[k]
  BY <1>1, <1>2, AtWord DEF Reader, Word
<1>4. /\ args' \in Arguments /\ args'.on = args.on /\ args'.value = args.value
      /\ args'.positional = Append(args.positional, argv[k]) /\ args'.no_color = args.no_color
      /\ args'.color_always = args.color_always /\ args.positional \in Seq(Words)
  <2>1. args.positional \in Seq(Words) /\ argv[k] \in Words
    BY <1>3 DEF Arguments
  <2> DEFINE q == Append(args.positional, argv[k])
  <2>2. q \in Seq(Words) /\ args' = [args EXCEPT !.positional = q]
    BY <1>1, <1>3, <2>1
  <2> HIDE DEF q
  <2>3. /\ args' \in Arguments /\ args'.on = args.on /\ args'.value = args.value
        /\ args'.positional = q /\ args'.no_color = args.no_color
        /\ args'.color_always = args.color_always
    BY <1>3, <2>2 DEF Arguments
  <2> QED
    BY <2>1, <2>3 DEF q
<1>5. /\ OptionsIn(k) = OptionsIn(k - 1) /\ LeftIn(k) = LeftIn(k - 1) \cup {k}
      /\ \A f : ValuesIn(k, f) = ValuesIn(k - 1, f)
  BY <1>3, PositionalWord
<1>6. Cardinality(LeftIn(k)) = Cardinality(LeftIn(k - 1)) + 1 /\ Cardinality(LeftIn(k - 1)) \in Nat
  <2>1. k - 1 \in Nat /\ (k - 1) + 1 = k
    BY <1>3
  <2>2. IsFiniteSet(LeftIn(k - 1)) /\ Cardinality(LeftIn(k - 1)) \in Nat /\ k \notin LeftIn(k - 1)
    BY <2>1, LeftCounted
  <2> QED
    BY <1>5, <2>2, FS_AddElement
<1>7. Len(args'.positional) = Cardinality(LeftIn(k))
  BY <1>3, <1>4, <1>6 DEF Understood
<1>8. \A i \in LeftIn(k) : args'.positional[Cardinality(LeftIn(i))] = argv[i]
  <2> SUFFICES ASSUME NEW i \in LeftIn(k)
               PROVE  args'.positional[Cardinality(LeftIn(i))] = argv[i]
    OBVIOUS
  <2>1. CASE i = k
    BY <1>3, <1>4, <1>6, <2>1 DEF Understood
  <2>2. CASE i \in LeftIn(k - 1)
    <3>1. args.positional[Cardinality(LeftIn(i))] = argv[i]
      BY <1>3, <2>2 DEF Understood
    <3>2. LeftIn(i) \subseteq LeftIn(k - 1) /\ i \in LeftIn(i) /\ i \in Nat /\ k - 1 \in Nat
      BY <1>3, <2>2 DEF LeftIn
    <3>3. Cardinality(LeftIn(i)) \in 1..Cardinality(LeftIn(k - 1))
      <4>1. IsFiniteSet(LeftIn(i)) /\ IsFiniteSet(LeftIn(k - 1)) /\ Cardinality(LeftIn(i)) \in Nat
        BY <3>2, LeftCounted
      <4>2. Cardinality(LeftIn(i)) <= Cardinality(LeftIn(k - 1))
        BY <3>2, <4>1, FS_Subset
      <4>3. Cardinality(LeftIn(i)) # 0
        BY <3>2, <4>1, FS_EmptySet
      <4> QED
        BY <1>6, <4>1, <4>2, <4>3
    <3>4. Len(args.positional) = Cardinality(LeftIn(k - 1))
      BY <1>3 DEF Understood
    <3> QED
      BY <1>4, <3>1, <3>3, <3>4
  <2> QED
    BY <1>5, <2>1, <2>2
<1>9. Understood(k)'
  <2>1. \A i : LeftIn(i)' = LeftIn(i)
    BY <1>1, SameWords
  <2>2. \A i \in LeftIn(k)' : args'.positional[Cardinality(LeftIn(i)')] = argv'[i]
    BY <1>1, <1>8, <2>1
  <2>3. Len(args'.positional) = Cardinality(LeftIn(k)')
    BY <1>7, <2>1
  <2>4. args'.on = {argv'[i] : i \in OptionsIn(k)'} \cap (Switches \cup {"--hex"})
    BY <1>1, <1>3, <1>4, <1>5, SameWords DEF Understood
  <2>5. \A f \in Valued : args'.value[f] = IF ValuesIn(k, f)' = {} THEN None
                                          ELSE argv'[Latest(ValuesIn(k, f)')]
    BY <1>1, <1>3, <1>4, <1>5, SameWords DEF Understood
  <2> QED
    BY <2>2, <2>3, <2>4, <2>5 DEF Understood
<1>10. ColourRead(k)'
  BY <1>1, <1>3, <1>4, <1>5, SameWords, ColourSame, Kinds DEF ColourRead
<1>11. k + 1 \in DOMAIN argv => Parts[k + 1] # "value"
  BY <1>3, PartOf
<1>12. k \in 0..Len(argv)
  BY <1>3
<1> QED
  BY <1>1, <1>2, <1>4, <1>9, <1>10, <1>11, <1>12, WordTaken

\* --no-color says no; --color says what its value says, whatever was said before.
LEMMA ReadColorStep ==
  ASSUME Reader, ReadColor
  PROVE  Reader'
<1>1. Reading /\ UNCHANGED <<argv, action, around, effect>> /\ Word \in {"--no-color", "--color"}
  BY DEF ReadColor, Take
<1>2. PICK k : k = index
  OBVIOUS
<1>3. /\ k \in DOMAIN argv /\ Understood(k - 1) /\ ColourRead(k - 1) /\ Parts[k] = "option"
      /\ argv \in Seq(Words) /\ args \in Arguments /\ Word = argv[k] /\ k \in Nat /\ k >= 1
  BY <1>1, <1>2, AtWord, Kinds DEF Reader, Word
<1>4. \A j \in colors(k - 1) : j \in Int /\ j <= k - 1
  BY <1>3 DEF colors, OptionsIn
<1>5. PICK m \in {k, k + 1} :
        /\ m \in DOMAIN argv /\ index' = m + 1 /\ args' \in Arguments
        /\ m = k + 1 => Parts[k + 1] = "value" /\ argv[k + 1] \notin is_flag
        /\ m + 1 \in DOMAIN argv => Parts[m + 1] # "value"
        /\ args'.on = args.on /\ args'.value = args.value /\ args'.positional = args.positional
        /\ args'.color_always <=> mode(m) = "always"
        /\ args'.no_color <=> off(m)
  <2>1. CASE Word = "--no-color"
    <3>1. args' = [args EXCEPT !.no_color = TRUE] /\ index' = k + 1
      BY <1>2, <2>1 DEF ReadColor, Take
    <3>2. /\ args' \in Arguments /\ args'.no_color /\ args'.color_always = args.color_always
          /\ args'.on = args.on /\ args'.value = args.value /\ args'.positional = args.positional
      BY <1>3, <3>1 DEF Arguments
    <3>3. colors(k) = colors(k - 1)
      BY <1>3, <2>1, OptionAlone DEF colors
    <3>4. mode(k) = mode(k - 1)
      BY <3>3 DEF mode
    <3>5. off(k)
      <4>1. k \in 1..k /\ argv[k] = "--no-color"
        BY <1>3, <2>1
      <4>2. \A j \in colors(k) : j < k
        BY <1>3, <1>4, <3>3
      <4> QED
        BY <4>1, <4>2 DEF off
    <3>6. k + 1 \in DOMAIN argv => Parts[k + 1] # "value"
      <4>1. argv[k] \notin Valued \cup {"--color"} /\ argv[k] # "--hex"
        BY <1>3, <2>1, Kinds
      <4>2. (k + 1) - 1 = k
        BY <1>3
      <4> QED
        BY <1>3, <4>1, <4>2, PartOf
    <3> QED
      BY <1>3, <3>1, <3>2, <3>4, <3>5, <3>6 DEF ColourRead
  <2>2. CASE Word = "--color"
    <3>1. /\ args' = [args EXCEPT !.no_color = (argv[k + 1] = "never"),
                                  !.color_always = (argv[k + 1] = "always")]
          /\ index' = k + 2 /\ has_value
      BY <1>2, <2>2 DEF ReadColor, Take
    <3>2. /\ args' \in Arguments /\ (args'.no_color <=> argv[k + 1] = "never")
          /\ (args'.color_always <=> argv[k + 1] = "always")
          /\ args'.on = args.on /\ args'.value = args.value /\ args'.positional = args.positional
      BY <1>3, <3>1 DEF Arguments
    <3>3. /\ k + 1 \in DOMAIN argv /\ argv[k + 1] \notin is_flag /\ Parts[k + 1] = "value"
          /\ k + 2 \in DOMAIN argv => Parts[k + 2] # "value"
      <4>1. Word \in Valued \cup {"--color"} /\ has_value
        BY <2>2, <3>1
      <4>2. /\ index + 1 \in DOMAIN argv /\ argv[index + 1] \notin is_flag /\ Parts[index + 1] = "value"
            /\ index + 2 \in DOMAIN argv => Parts[index + 2] # "value"
        BY <1>1, <4>1, ValueTaken
      <4> QED
        BY <1>2, <4>2
    <3>4. colors(k + 1) = colors(k - 1) \cup {k}
      BY <1>3, <2>2, <3>3, OptionWithValue DEF colors
    <3>5. Latest(colors(k - 1) \cup {k}) = k
      <4>1. k - 1 \in Int /\ k \in Int /\ k > k - 1
        BY <1>3
      <4> QED
        BY <1>4, <4>1, LatestIs
    <3>6. mode(k + 1) = argv[k + 1]
      BY <3>4, <3>5 DEF mode
    <3>7. ~\E i \in 1..(k + 1) : argv[i] = "--no-color" /\ \A j \in colors(k + 1) : j < i
      <4> SUFFICES ASSUME NEW i \in 1..(k + 1), argv[i] = "--no-color", k < i
                   PROVE  FALSE
        BY <3>4
      <4>1. i = k + 1
        BY <1>3
      <4> QED
        BY <3>3, <4>1, Kinds
    <3>8. off(k + 1) <=> argv[k + 1] = "never"
      BY <3>6, <3>7 DEF off
    <3>9. (k + 1) + 1 = k + 2
      BY <1>3
    <3> QED
      BY <3>1, <3>2, <3>3, <3>6, <3>8, <3>9
  <2> QED
    BY <1>1, <2>1, <2>2
<1>6. /\ OptionsIn(m) = OptionsIn(k - 1) \cup {k} /\ LeftIn(m) = LeftIn(k - 1)
      /\ \A f \in Valued : ValuesIn(m, f) = ValuesIn(k - 1, f)
  <2>1. CASE m = k
    BY <1>3, <2>1, OptionAlone
  <2>2. CASE m = k + 1
    <3>1. k + 1 \in DOMAIN argv /\ Parts[k + 1] = "value"
      BY <1>5, <2>2
    <3>2. /\ OptionsIn(k + 1) = OptionsIn(k - 1) \cup {k} /\ LeftIn(k + 1) = LeftIn(k - 1)
          /\ \A f : ValuesIn(k + 1, f) = ValuesIn(k - 1, f) \cup (IF f = argv[k] THEN {k + 1} ELSE {})
      BY <1>3, <3>1, OptionWithValue
    <3>3. \A f \in Valued : f # argv[k]
      BY <1>1, <1>3, Kinds
    <3> QED
      BY <2>2, <3>2, <3>3
  <2> QED
    BY <1>5, <2>1, <2>2
<1>7. {argv[i] : i \in OptionsIn(m)} \cap (Switches \cup {"--hex"})
        = {argv[i] : i \in OptionsIn(k - 1)} \cap (Switches \cup {"--hex"})
  BY <1>1, <1>3, <1>6, Kinds
<1>8. Understood(m)'
  BY <1>1, <1>3, <1>5, <1>6, <1>7, SameWords DEF Understood
<1>9. ColourRead(m)'
  BY <1>1, <1>5, SameWords DEF ColourRead
<1>10. m \in 0..Len(argv)
  BY <1>3, <1>5
<1> QED
  BY <1>1, <1>5, <1>8, <1>9, <1>10, WordTaken

-----------------------------------------------------------------------------
(* The end of the words, and what is decided then *)

\* What is understood of the words depends on the reading alone.
LEMMA SameReading ==
  ASSUME argv' = argv, args' = args, NEW n
  PROVE  ReadTo(n)' <=> ReadTo(n)
<1>1. \A i : LeftIn(i)' = LeftIn(i)
  BY SameWords
<1>2. Understood(n)' <=> Understood(n)
  <2>1. OptionsIn(n)' = OptionsIn(n) /\ LeftIn(n)' = LeftIn(n) /\ \A f : ValuesIn(n, f)' = ValuesIn(n, f)
    BY SameWords
  <2>2. {argv[i] : i \in OptionsIn(n)}' = {argv[i] : i \in OptionsIn(n)}
    BY <2>1
  <2>3. (\A i \in LeftIn(n) : args.positional[Cardinality(LeftIn(i))] = argv[i])'
          <=> \A i \in LeftIn(n) : args.positional[Cardinality(LeftIn(i))] = argv[i]
    BY <1>1, <2>1
  <2>4. \A f \in Valued : Latest(ValuesIn(n, f))' = Latest(ValuesIn(n, f))
    BY <2>1 DEF Latest
  <2>5. (\A f \in Valued :
           args.value[f] = IF ValuesIn(n, f) = {} THEN None ELSE argv[Latest(ValuesIn(n, f))])'
          <=> \A f \in Valued :
                args.value[f] = IF ValuesIn(n, f) = {} THEN None ELSE argv[Latest(ValuesIn(n, f))]
    BY <2>1, <2>4
  <2>6. (Len(args.positional) = Cardinality(LeftIn(n)))' <=> Len(args.positional) = Cardinality(LeftIn(n))
    BY <2>1
  <2> QED
    BY <2>2, <2>3, <2>5, <2>6 DEF Understood
<1>3. ColourRead(n)' <=> ColourRead(n)
  BY SameWords DEF ColourRead
<1> QED
  BY <1>2, <1>3, SameWords DEF ReadTo

\* When the last word is read, all are understood.
LEMMA AllRead ==
  ASSUME Reader, AtEnd
  PROVE  ReadTo(Len(argv))
<1>1. PICK n \in 0..Len(argv) : index = n + 1 /\ ReadTo(n)
  BY DEF Reader, AtEnd
<1>2. argv \in Seq(Words) /\ index > Len(argv)
  BY DEF Reader, AtEnd
<1>3. n = Len(argv)
  BY <1>1, <1>2
<1> QED
  BY <1>1, <1>3

\* parse_args returns, with an action only at the end of the words.
LEMMA DecideStep ==
  ASSUME Reader, action = "parsing", NEW what, Decide(what), what # "parsing",
         what \in {"ShowHelp", "ShowVersion", "ShowCompletions", "usage_error"} \/ AtEnd
  PROVE  Reader'
<1>1. /\ action' = what /\ UNCHANGED <<argv, index, args, around, effect>> /\ effect = Undecided
      /\ argv \in Seq(Words) /\ args \in Arguments /\ index \in Nat
  BY DEF Reader, Decide
<1>2. Selected' => ReadTo(Len(argv))'
  <2> SUFFICES ASSUME Selected' PROVE ReadTo(Len(argv))'
    OBVIOUS
  <2>1. what \notin {"ShowHelp", "ShowVersion", "ShowCompletions", "usage_error"}
    BY <1>1 DEF Selected, Actions, Order
  <2>2. PICK n : n = Len(argv)
    OBVIOUS
  <2>3. ReadTo(n)'
    BY <1>1, <2>1, <2>2, AllRead, SameReading
  <2> QED
    BY <1>1, <2>2, <2>3
<1>3. ~effect.done
  BY <1>1 DEF Undecided
<1> QED
  BY <1>1, <1>2, <1>3 DEF Reader

-----------------------------------------------------------------------------
(* The action selected *)

\* The rows of the table of actions are different actions.
LEMMA Rows ==
  /\ DOMAIN Order = 1..15
  /\ \A i, j \in DOMAIN Order : Order[i][2] = Order[j][2] => i = j
  /\ \A i \in DOMAIN Order :
       Order[i][2] \notin {"parsing", "usage_error", "RawBytes", "DisassembleSymbol", "ListFunctions"}
  /\ \A i \in DOMAIN Order : Order[i] = <<Order[i][1], Order[i][2]>>
BY DEF Order

\* The row selected is the first that is given, when one is.
LEMMA FirstGiven ==
  \/ \E i \in DOMAIN Order : Given(Order[i][1]) /\ selected = Order[i][2]
  \/ /\ \A i \in DOMAIN Order : ~Given(Order[i][1])
     /\ selected = IF Len(args.positional) = 2 THEN "DisassembleSymbol" ELSE "ListFunctions"
<1> DEFINE given == {i \in DOMAIN Order : Given(Order[i][1])}
<1>1. CASE given = {}
  BY <1>1 DEF selected
<1>2. CASE given # {}
  <2>1. given \subseteq Nat
    BY Rows
  <2>2. \E i \in given : \A j \in given : i <= j
    <3> HIDE DEF given
    <3> QED
      BY <1>2, <2>1, LeastMember
  <2>3. PICK i \in given : i = CHOOSE n \in given : \A j \in given : n <= j
    BY <2>2
  <2>4. selected = Order[i][2]
    BY <1>2, <2>3 DEF selected
  <2> QED
    BY <2>4
<1> QED
  BY <1>1, <1>2

\* The selected action is one of the table, or the default.
LEMMA SelectedIs == selected \notin {"parsing", "usage_error", "RawBytes"}
BY FirstGiven, Rows

-----------------------------------------------------------------------------
(* parse_args and format_options keep the invariant *)

\* Resolving the options keeps what was read.
LEMMA ResolveOptionsStep ==
  ASSUME Reader, ResolveOptions
  PROVE  Reader'
<1>1. /\ UNCHANGED <<argv, index, args, action>> /\ action # "parsing"
      /\ effect' = [done |-> TRUE, color |-> resolve_use_color(around')]
  BY DEF ResolveOptions
<1>2. effect'.color <=> resolve_use_color(around)'
  BY <1>1 DEF resolve_use_color, Given
<1>3. Selected' => ReadTo(Len(argv))'
  <2>1. PICK n : n = Len(argv)
    OBVIOUS
  <2>2. Selected' => Selected
    BY <1>1 DEF Selected
  <2>3. ReadTo(n)' <=> ReadTo(n)
    BY <1>1, SameReading
  <2> QED
    BY <1>1, <2>1, <2>2, <2>3 DEF Reader
<1> QED
  BY <1>1, <1>2, <1>3 DEF Reader

\* Every step of the program keeps what was read.
LEMMA ReaderStep ==
  ASSUME Reader, [Next]_vars
  PROVE  Reader'
<1>1. CASE ReadAndStop
  <2>1. PICK what \in {"ShowHelp", "ShowVersion", "ShowCompletions", "usage_error"} : Decide(what)
    BY <1>1 DEF ReadAndStop
  <2> QED
    BY <1>1, <2>1, DecideStep DEF ReadAndStop, Reading
<1>2. CASE RejectWord
  BY <1>2, DecideStep DEF RejectWord, Reading
<1>3. CASE SelectRawBytes
  <2>1. PICK what \in {"RawBytes", "usage_error"} : Decide(what)
    BY <1>3 DEF SelectRawBytes
  <2> QED
    BY <1>3, <2>1, DecideStep DEF SelectRawBytes, AtEnd
<1>4. CASE SelectHelp
  BY <1>4, DecideStep DEF SelectHelp, AtEnd
<1>5. CASE SelectAction
  <2>1. PICK what \in {selected, "usage_error"} : Decide(what)
    BY <1>5 DEF SelectAction
  <2>2. what # "parsing"
    BY <2>1, SelectedIs
  <2> QED
    BY <1>5, <2>1, <2>2, DecideStep DEF SelectAction, AtEnd
<1>6. CASE UNCHANGED vars
  <2>1. UNCHANGED <<argv, index, args, action, around, effect>>
    BY <1>6 DEF vars
  <2>2. \A n : ReadTo(n)' <=> ReadTo(n)
    BY <2>1, SameReading
  <2>3. resolve_use_color(around)' <=> resolve_use_color(around)
    BY <2>1 DEF resolve_use_color, Given
  <2>4. Selected' <=> Selected
    BY <2>1 DEF Selected
  <2>5. (\E n \in 0..Len(argv) : index = n + 1 /\ ReadTo(n))
          => (\E n \in 0..Len(argv) : index = n + 1 /\ ReadTo(n))'
    BY <2>1, <2>2
  <2>6. ReadTo(Len(argv))' <=> ReadTo(Len(argv))
    <3>1. PICK n : n = Len(argv)
      OBVIOUS
    <3> QED
      BY <2>1, <2>2, <3>1
  <2> QED
    BY <2>1, <2>3, <2>4, <2>5, <2>6 DEF Reader
<1> QED
  BY <1>1, <1>2, <1>3, <1>4, <1>5, <1>6, ReadSwitchStep, ReadValueStep, ReadColorStep, ReadHexStep,
     ReadPositionalStep, ResolveOptionsStep DEF Next

\* At every moment args holds what the words read so far mean (cli.cpp:265-513).
THEOREM ReaderAlways == Spec => []Reader
<1>1. Reader /\ [Next]_vars => Reader'
  BY ReaderStep
<1> QED
  BY <1>1, ReaderInit, PTL DEF Spec

\* A command line that is acted on was understood to its last word (cli.cpp:240-476).
THEOREM EveryWordUnderstoodAlways == Spec => []EveryWordUnderstood
<1>1. Reader => EveryWordUnderstood
  BY DEF Reader, ReadTo, EveryWordUnderstood
<1> QED
  BY <1>1, ReaderAlways, PTL

\* Colour is what the last --color, --no-color, --quiet and the surroundings say
\* (cli.cpp:209-221, 267-291).
THEOREM ColorAsAskedAlways == Spec => []ColorAsAsked
<1>1. Reader => ColorAsAsked
  <2> SUFFICES ASSUME Reader, Selected, effect.done
               PROVE  effect.color <=>
                        /\ "--quiet" \notin Range(argv)
                        /\ \/ mode(Len(argv)) = "always"
                           \/ ~off(Len(argv)) /\ ~around.NO_COLOR /\ around.tty /\ around.color
    BY DEF ColorAsAsked
  <2>1. PICK n : n = Len(argv)
    OBVIOUS
  <2>2. ReadTo(n) /\ argv \in Seq(Words) /\ DOMAIN argv = 1..n
        /\ (effect.color <=> resolve_use_color(around))
    BY <2>1 DEF Reader
  <2>3. Given("--quiet") <=> "--quiet" \in Range(argv)
    <3>1. Given("--quiet") <=> \E i \in OptionsIn(n) : argv[i] = "--quiet"
      <4>1. "--quiet" \in Switches /\ "--quiet" \notin Valued
        BY DEF Switches, Valued, Measures
      <4>2. args.on = {argv[i] : i \in OptionsIn(n)} \cap (Switches \cup {"--hex"})
        BY <2>2 DEF ReadTo, Understood
      <4> QED
        BY <4>1, <4>2 DEF Given
    <3>2. "--quiet" \in is_flag
      BY DEF is_flag, Switches
    <3>3. \A i \in DOMAIN argv : argv[i] = "--quiet" => i \in OptionsIn(n)
      BY <2>2, <3>2, PartOf DEF OptionsIn
    <3>4. \A i \in OptionsIn(n) : i \in DOMAIN argv
      BY <2>2 DEF OptionsIn
    <3> QED
      BY <3>1, <3>3, <3>4 DEF Range
  <2>4. (args.color_always <=> mode(n) = "always") /\ (args.no_color <=> off(n))
    BY <2>2 DEF ReadTo, ColourRead
  <2> QED
    BY <2>1, <2>2, <2>3, <2>4 DEF resolve_use_color
<1> QED
  BY <1>1, ReaderAlways, PTL

-----------------------------------------------------------------------------
(* Operands *)

\* The operands depend on args alone.
LEMMA OperandsSame ==
  ASSUME OperandsPresent, UNCHANGED <<args, action>>
  PROVE  OperandsPresent'
BY DEF OperandsPresent, Selected, Given

\* Nothing is asked of these.
LEMMA OperandsNone ==
  ASSUME action' \in {"parsing", "ShowHelp", "ShowVersion", "ShowCompletions", "usage_error"}
  PROVE  OperandsPresent'
BY DEF OperandsPresent, Selected, Actions, Order

\* Every step keeps the operands.
LEMMA OperandsStep ==
  ASSUME Reader, OperandsPresent, [Next]_vars
  PROVE  OperandsPresent'
<1>1. CASE ReadAndStop
  BY <1>1, OperandsNone DEF ReadAndStop, Decide
<1>2. CASE RejectWord
  BY <1>2, OperandsNone DEF RejectWord, Decide
<1>3. CASE SelectRawBytes
  <2>1. CASE action' = "usage_error"
    BY <2>1, OperandsNone
  <2>2. CASE Given("--arch") /\ args.positional = <<>> /\ action' = "RawBytes" /\ args' = args
    <3>1. Given("--arch")' /\ args'.positional = <<>>
      BY <2>2 DEF Given
    <3>2. \A i \in DOMAIN Order : Order[i][2] # "RawBytes"
      BY Rows
    <3>3. \A i \in DOMAIN Order : \A f : Order[i] # <<f, "RawBytes">>
      BY <3>2
    <3> QED
      BY <2>2, <3>1, <3>3 DEF OperandsPresent
  <2> QED
    BY <1>3, <2>1, <2>2 DEF SelectRawBytes, Decide
<1>4. CASE SelectHelp
  BY <1>4, OperandsNone DEF SelectHelp, Decide
<1>5. CASE SelectAction
  <2>1. CASE action' = "usage_error"
    BY <2>1, OperandsNone
  <2>2. CASE ~conflict /\ action' = selected /\ args' = args /\ args.positional # <<>>
    <3>1. \A f \in Valued : (\E i \in DOMAIN Order : Order[i] = <<f, selected>>) => Given(f)'
      <4> SUFFICES ASSUME NEW f \in Valued, NEW i \in DOMAIN Order, Order[i] = <<f, selected>>
                   PROVE  Given(f)'
        OBVIOUS
      <4>1. Order[i][2] = selected /\ Order[i][1] = f
        OBVIOUS
      <4>2. PICK j \in DOMAIN Order : Given(Order[j][1]) /\ selected = Order[j][2]
        BY <4>1, FirstGiven, Rows
      <4>3. Given(f)
        BY <4>1, <4>2, Rows
      <4> QED
        BY <2>2, <4>3 DEF Given
    <3>2. selected = "DisassembleSymbol" => Len(args.positional) = 2
      BY FirstGiven, Rows
    <3>3. Len(args.positional) \in 1..2
      <4>1. args.positional \in Seq(Words)
        BY DEF Reader, Arguments
      <4>2. PICK n \in Nat : n = Len(args.positional)
        BY <4>1
      <4>3. n # 0
        BY <2>2, <4>1, <4>2
      <4>4. ~(n > 2)
        BY <2>2, <4>2 DEF conflict
      <4>5. n \in 1..2
        BY <4>3, <4>4
      <4> QED
        BY <4>2, <4>5
    <3>4. ~(Given("--addr") /\ Given("--range"))'
      BY <2>2 DEF conflict, Given
    <3>5. action' # "RawBytes"
      BY <2>2, SelectedIs
    <3> QED
      BY <2>2, <3>1, <3>2, <3>3, <3>4, <3>5 DEF OperandsPresent
  <2> QED
    BY <1>5, <2>1, <2>2 DEF SelectAction, Decide
<1>6. CASE ResolveOptions \/ UNCHANGED vars
  BY <1>6, OperandsSame DEF ResolveOptions, vars
<1>7. CASE ReadSwitch \/ ReadValue \/ ReadColor \/ ReadHex \/ ReadPositional
  <2>1. action' = "parsing"
    BY <1>7 DEF ReadSwitch, ReadValue, ReadColor, ReadHex, ReadPositional, Reading, Take
  <2> QED
    BY <2>1, OperandsNone
<1> QED
  BY <1>1, <1>2, <1>3, <1>4, <1>5, <1>6, <1>7 DEF Next

\* No action is selected without its operands, nor with two that exclude each other
\* (cli.cpp:478-488, 589, 620, 770, 885, 942, 961).
THEOREM OperandsPresentAlways == Spec => []OperandsPresent
<1>1. Init => OperandsPresent
  BY DEF Init, OperandsPresent, Selected, Actions, Order
<1>2. Reader /\ OperandsPresent /\ [Next]_vars => OperandsPresent'
  BY OperandsStep
<1> QED
  BY <1>1, <1>2, ReaderAlways, PTL DEF Spec

-----------------------------------------------------------------------------
(* The other end of a run: the output is handed over. *)

TypeOK ==
  /\ setting \in Settings
  /\ pc \in {"write_output", "fwrite", "wait", "return", "ended"}
  /\ sent \in 0..setting.chunks
  /\ pipe \in Seq(Nat) /\ shown \in Seq(Nat)
  /\ pager \in {"none", "shell", "pager", "gone"}
  /\ left \in BOOLEAN

\* Nothing is lost between fwrite and the terminal: what was shown and what is in
\* the pipe are, in this order, the pieces fwrite has sent.
Conveyed ==
  /\ Len(shown) + Len(pipe) = sent
  /\ \A i \in 1..Len(shown) : shown[i] = i
  /\ \A i \in 1..Len(pipe) : pipe[i] = Len(shown) + i

\* Before and past the pager: nothing is shown yet, or all of it.
Unpaged ==
  /\ ~left
  /\ pc = "write_output" => shown = <<>> /\ pipe = <<>> /\ sent = 0
  /\ pc # "write_output" =>
       pc \in {"return", "ended"} /\ shown = Text /\ (pc = "ended" => status = setting.code)

\* The pager ended because its input did.
Finished == pc # "fwrite" /\ sent = setting.chunks /\ pipe = <<>>

Paged ==
  /\ pc # "write_output" /\ Conveyed
  /\ pc \in {"wait", "return"} => sent = setting.chunks
  /\ pc \in {"return", "ended"} => pager = "gone"
  /\ pager = "pager" => setting.runnable
  /\ pager # "gone" => ~left
  /\ pager = "gone" /\ setting.runnable /\ ~left =>
       Finished /\ (pc = "ended" => status = setting.code)

Handover ==
  /\ TypeOK
  /\ pager = "none" => Unpaged
  /\ pager # "none" => Paged

\* The output has at least one piece, and is what Text says it is.
LEMMA TextIs ==
  ASSUME setting \in Settings
  PROVE  /\ setting.chunks \in Nat \ {0}
         /\ Text \in Seq(Nat) /\ Len(Text) = setting.chunks
         /\ \A i \in 1..setting.chunks : Text[i] = i
BY PagerConstants DEF Settings, Text

\* A run begins with nothing sent and nothing shown.
LEMMA HandoverInit ==
  ASSUME OutputInit
  PROVE  Handover
<1>1. setting.chunks \in Nat \ {0}
  BY TextIs DEF OutputInit
<1>2. TypeOK
  <2>1. pipe \in Seq(Nat) /\ shown \in Seq(Nat)
    BY DEF OutputInit
  <2>2. sent \in 0..setting.chunks /\ setting \in Settings
    BY <1>1 DEF OutputInit
  <2>3. left \in BOOLEAN
    BY DEF OutputInit
  <2> QED
    BY <2>1, <2>2, <2>3 DEF OutputInit, TypeOK
<1>3. pager = "none" /\ Unpaged
  BY DEF OutputInit, Unpaged
<1> QED
  BY <1>2, <1>3 DEF Handover

\* What roe itself does keeps output, pipe and pager in step.
LEMMA RoeHandover ==
  ASSUME Handover, Roe
  PROVE  Handover'
<1> USE TextIs DEF Handover, TypeOK
<1>0. setting.chunks \in Nat \ {0}
  OBVIOUS
<1>1. CASE WriteToStdout \/ PopenFails
  <2>1. pager = "none" /\ pc = "write_output"
    BY <1>1 DEF WriteToStdout, PopenFails, Paged
  <2>2. shown' = Text
    BY <1>1, <2>1 DEF WriteToStdout, PopenFails, Unpaged
  <2>3. TypeOK'
    BY <1>1, <2>2, TextIs DEF WriteToStdout, PopenFails, child
  <2>4. Text' = Text
    BY <1>1 DEF WriteToStdout, PopenFails, Text
  <2>5. Unpaged'
    BY <1>1, <2>1, <2>2, <2>4 DEF WriteToStdout, PopenFails, Unpaged, child
  <2>6. pager' = "none"
    BY <1>1, <2>1 DEF WriteToStdout, PopenFails, child
  <2> QED
    BY <2>3, <2>5, <2>6
<1>2. CASE OpenPager
  <2>1. pager = "none" /\ shown = <<>> /\ pipe = <<>> /\ sent = 0 /\ ~left
    BY <1>2 DEF OpenPager, Unpaged, Paged
  <2> QED
    BY <1>2, <2>1 DEF OpenPager, Paged, Conveyed
<1>3. CASE Write
  <2>1. pager # "none" /\ Paged
    BY <1>3 DEF Write, Unpaged
  <2>2. /\ pipe' = Append(pipe, sent + 1) /\ sent' = sent + 1 /\ shown' = shown
        /\ Len(pipe') = Len(pipe) + 1
        /\ \A i \in 1..Len(pipe) : pipe'[i] = pipe[i]
        /\ pipe'[Len(pipe) + 1] = sent + 1
    BY <1>3 DEF Write
  <2>3. Conveyed'
    <3>1. Conveyed /\ Len(pipe) \in Nat /\ Len(shown) \in Nat
      BY <2>1 DEF Paged
    <3>2. Len(shown') + Len(pipe') = sent'
      BY ONLY <2>2, <3>1 DEF Conveyed
    <3>3. \A i \in 1..Len(pipe') : pipe'[i] = Len(shown') + i
      <4>1. \A i \in 1..Len(pipe) : pipe'[i] = Len(shown') + i
        BY <2>2, <3>1 DEF Conveyed
      <4>2. pipe'[Len(pipe')] = Len(shown') + Len(pipe')
        BY ONLY <2>2, <3>1 DEF Conveyed
      <4>3. \A i \in 1..Len(pipe') : i \in 1..Len(pipe) \/ i = Len(pipe')
        BY <2>2, <3>1
      <4> QED
        BY <4>1, <4>2, <4>3
    <3> QED
      BY <2>2, <3>1, <3>2, <3>3 DEF Conveyed
  <2> QED
    BY <1>3, <2>1, <2>2, <2>3 DEF Write, Paged, Finished, child
<1>4. CASE WriteKills
  <2>1. pager = "gone" /\ Paged
    BY <1>4 DEF WriteKills
  <2>2. ~setting.runnable \/ left
    BY <1>4, <2>1 DEF WriteKills, Paged, Finished
  <2> QED
    BY <1>4, <2>1, <2>2 DEF WriteKills, Paged, Conveyed, Finished, child
<1>5. CASE Close \/ Wait
  <2>1. pager # "none" /\ Paged
    BY <1>5 DEF Close, Wait, Unpaged
  <2>2. TypeOK' /\ pager' # "none" /\ Conveyed'
    BY <1>5, <2>1 DEF Close, Wait, Paged, Conveyed, child
  <2>3. Paged'
    BY <1>5, <2>1, <2>2 DEF Close, Wait, Paged, Finished, child
  <2> QED
    BY <2>2, <2>3
<1>6. CASE Return
  BY <1>6 DEF Return, Unpaged, Paged, Conveyed, Finished, child, Text
<1> QED
  BY <1>1, <1>2, <1>3, <1>4, <1>5, <1>6 DEF Roe

\* So does what the shell, the pager and the user do.
LEMMA ChildHandover ==
  ASSUME Handover, Exec \/ CommandNotFound \/ PagerReads \/ PagerEnds \/ UserLeaves
  PROVE  Handover'
<1> USE TextIs DEF Handover, TypeOK
<1>0. setting.chunks \in Nat \ {0} /\ Paged
  BY DEF Exec, CommandNotFound, PagerReads, PagerEnds, UserLeaves
<1>1. CASE Exec \/ CommandNotFound
  <2>1. Conveyed' /\ TypeOK'
    BY <1>0, <1>1 DEF Exec, CommandNotFound, Paged, Conveyed
  <2> QED
    BY <1>0, <1>1, <2>1 DEF Exec, CommandNotFound, Paged
<1>2. CASE PagerReads
  <2>1. /\ shown' = Append(shown, Head(pipe)) /\ pipe' = Tail(pipe) /\ sent' = sent
        /\ Len(shown') = Len(shown) + 1 /\ Len(pipe') = Len(pipe) - 1
        /\ \A i \in 1..Len(shown) : shown'[i] = shown[i]
        /\ shown'[Len(shown) + 1] = pipe[1]
        /\ \A i \in 1..Len(pipe') : pipe'[i] = pipe[i + 1]
    BY <1>2 DEF PagerReads
  <2>2. Conveyed'
    <3>1. Conveyed /\ Len(pipe) \in Nat \ {0} /\ Len(shown) \in Nat
      BY <1>0, <1>2 DEF PagerReads, Paged
    <3>2. \A i \in 1..Len(shown') : shown'[i] = i
      BY ONLY <2>1, <3>1 DEF Conveyed
    <3>3. \A i \in 1..Len(pipe') : pipe'[i] = Len(shown') + i
      BY ONLY <2>1, <3>1 DEF Conveyed
    <3>4. Len(shown') + Len(pipe') = sent'
      BY ONLY <2>1, <3>1 DEF Conveyed
    <3> QED
      BY <3>2, <3>3, <3>4 DEF Conveyed
  <2> QED
    BY <1>0, <1>2, <2>1, <2>2 DEF PagerReads, Paged, Finished, child
<1>3. CASE PagerEnds
  BY <1>0, <1>3 DEF PagerEnds, Paged, Conveyed, Finished
<1>4. CASE UserLeaves
  BY <1>0, <1>4 DEF UserLeaves, Paged, Conveyed, Finished
<1> QED
  BY <1>1, <1>2, <1>3, <1>4

\* Every state of a run is one of a proper handover.
THEOREM HandoverCorrect == OutputSpec => []Handover
<1>1. Handover /\ [OutputNext]_outputVars => Handover'
  <2> SUFFICES ASSUME Handover, [OutputNext]_outputVars PROVE Handover'
    OBVIOUS
  <2>1. CASE UNCHANGED outputVars
    BY <2>1 DEF outputVars, Handover, TypeOK, Unpaged, Paged, Conveyed, Finished, Text
  <2> QED
    BY <2>1, RoeHandover, ChildHandover DEF OutputNext, Ended
<1> QED
  BY HandoverInit, <1>1, PTL DEF OutputSpec

\* Whatever is on the terminal at any moment is the beginning of the output.
THEOREM ShownInOrderAlways == OutputSpec => []ShownInOrder
<1>1. Handover => ShownInOrder
  <2> SUFFICES ASSUME Handover PROVE ShownInOrder
    OBVIOUS
  <2>1. /\ Len(shown) \in Nat /\ Len(shown) <= Len(Text)
        /\ \A i \in 1..Len(shown) : shown[i] = Text[i]
    BY TextIs DEF Handover, TypeOK, Unpaged, Paged, Conveyed
  <2>2. SubSeq(shown, 1, Len(shown)) = SubSeq(Text, 1, Len(shown))
    BY <2>1, TextIs DEF Handover, TypeOK
  <2> QED
    BY <2>1, <2>2 DEF ShownInOrder, IsPrefix
<1> QED
  BY <1>1, HandoverCorrect, PTL

\* A pager that started and was not left has shown everything when the run ends,
\* and the run returns main_entry's code: SIGPIPE never ended it.
THEOREM EverythingShownAlways == OutputSpec => []EverythingShown
<1>1. Handover => EverythingShown
  <2> SUFFICES ASSUME Handover, pc = "ended", pager = "none" \/ setting.runnable, ~left
               PROVE  shown = Text /\ status = setting.code
    BY DEF EverythingShown
  <2>1. CASE pager = "none"
    BY <2>1 DEF Handover, Unpaged
  <2>2. CASE pager # "none"
    <3>1. Len(shown) = setting.chunks /\ \A i \in 1..Len(shown) : shown[i] = i
      BY <2>2, TextIs DEF Handover, TypeOK, Paged, Conveyed, Finished
    <3>2. /\ shown \in Seq(Nat) /\ Text \in Seq(Nat) /\ Len(shown) = Len(Text)
          /\ \A i \in 1..Len(shown) : shown[i] = Text[i]
      BY <3>1, TextIs DEF Handover, TypeOK
    <3>3. shown = Text
      BY ONLY <3>2, SeqEqual
    <3> QED
      BY <2>2, <3>3 DEF Handover, Paged
  <2> QED
    BY <2>1, <2>2
<1> QED
  BY <1>1, HandoverCorrect, PTL

\* roe is not back at the prompt before the pager gave the terminal back.
THEOREM TerminalHandedBackAlways == OutputSpec => []TerminalHandedBack
<1>1. Handover => TerminalHandedBack
  BY DEF Handover, TypeOK, Paged, TerminalHandedBack
<1> QED
  BY <1>1, HandoverCorrect, PTL
=============================================================================
