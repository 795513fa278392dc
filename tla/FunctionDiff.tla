----------------------------- MODULE FunctionDiff -----------------------------
(***************************************************************************)
(* --diff: diff_functions enters the functions of either file in a map by   *)
(* name, compares the maps, and pairs what was added with what was removed  *)
(* where the bodies are equal.  Names are numbers in the maps' order.       *)
(***************************************************************************)
EXTENDS Naturals, FiniteSets, Sequences, SequencesExt, FiniteSetsExt

CONSTANTS
  Names,        \* names of functions
  Texts,        \* bodies, as the text of their instructions
  MaxFunctions  \* bound: functions of a file

ASSUME DiffConstants == Names \subseteq Nat /\ MaxFunctions \in Nat

Functions == [name : Names, text : Texts]
Files == UNION {[1..n -> Functions] : n \in 0..MaxFunctions}

VARIABLES
  old, new,        \* the functions of either file, in the order of its symbol table
  pc,
  added, removed,  \* sequences of names
  changed,         \* names
  renamed,         \* the pairs <<old name, new name>>, shown among the changed
  unchanged,       \* names
  next             \* position in added of the pairing loop

vars == <<old, new, pc, added, removed, changed, renamed, unchanged, next>>

Init ==
  /\ old \in Files /\ new \in Files
  /\ pc = "compare"
  /\ added = <<>> /\ removed = <<>>
  /\ changed = {} /\ renamed = {} /\ unchanged = {} /\ next = 1

NamesOf(file) == {file[i].name : i \in DOMAIN file}

\* A later function of the same name replaces an earlier one.
signature(file, n) ==
  file[Max({i \in DOMAIN file : file[i].name = n})].text

\* The keys of a std::map, in order.
Sorted(names) ==
  CHOOSE s \in [1..Cardinality(names) -> names] : \A i, j \in DOMAIN s : i < j => s[i] < s[j]

Compare ==
  /\ pc = "compare" /\ pc' = "pair"
  /\ LET both == NamesOf(old) \cap NamesOf(new) IN
     /\ changed' = {n \in both : signature(old, n) # signature(new, n)}
     /\ unchanged' = both \ changed'
  /\ added' = Sorted(NamesOf(new) \ NamesOf(old))
  /\ removed' = Sorted(NamesOf(old) \ NamesOf(new))
  /\ UNCHANGED <<old, new, renamed, next>>

\* Removed functions with the body of the added one.
Matches(n) == {i \in DOMAIN removed : signature(old, removed[i]) = signature(new, n)}

\* Mutant: what is paired stays among the removed.
PairKeeping ==
  /\ pc = "pair" /\ next <= Len(added) /\ Matches(added[next]) # {}
  /\ renamed' = renamed \cup {<<removed[Min(Matches(added[next]))], added[next]>>}
  /\ added' = RemoveAt(added, next)
  /\ UNCHANGED <<old, new, pc, removed, changed, unchanged, next>>

\* Mutant: erase and ++ both.
PairSkipping ==
  /\ pc = "pair" /\ next <= Len(added) /\ Matches(added[next]) # {}
  /\ LET i == Min(Matches(added[next])) IN
     /\ renamed' = renamed \cup {<<removed[i], added[next]>>}
     /\ removed' = RemoveAt(removed, i)
  /\ added' = RemoveAt(added, next) /\ next' = next + 1
  /\ UNCHANGED <<old, new, pc, changed, unchanged>>

\* The added one is a removed one under another name: the first that will do.
Pair ==
  /\ pc = "pair" /\ next <= Len(added) /\ Matches(added[next]) # {}
  /\ LET i == Min(Matches(added[next])) IN
     /\ renamed' = renamed \cup {<<removed[i], added[next]>>}
     /\ removed' = RemoveAt(removed, i)
  /\ added' = RemoveAt(added, next)
  /\ UNCHANGED <<old, new, pc, changed, unchanged, next>>

PairNone ==
  /\ pc = "pair" /\ next <= Len(added) /\ Matches(added[next]) = {}
  /\ next' = next + 1
  /\ UNCHANGED <<old, new, pc, added, removed, changed, renamed, unchanged>>

Report ==
  /\ pc = "pair" /\ next > Len(added) /\ pc' = "report"
  /\ UNCHANGED <<old, new, added, removed, changed, renamed, unchanged, next>>

Next == Compare \/ Pair \/ PairNone \/ Report

Spec == Init /\ [][Next]_vars

-----------------------------------------------------------------------------
(* Properties *)

Olds == {r[1] : r \in renamed}
News == {r[2] : r \in renamed}

\* The report accounts for every name of either file under exactly one heading
\* (features.cpp:282-317).
EveryNameOnce ==
  pc = "report" =>
    /\ NamesOf(old) = Range(removed) \cup changed \cup unchanged \cup Olds
    /\ NamesOf(new) = Range(added) \cup changed \cup unchanged \cup News
    /\ \A s, t \in {Range(removed), Range(added), changed, unchanged, Olds \cup News} :
         s # t => s \cap t = {}
    /\ Cardinality(Olds) = Cardinality(renamed) /\ Cardinality(News) = Cardinality(renamed)

\* features.cpp:300: an added and a removed function with identical bodies is a
\* rename: as many pairs are found as there are, and a pair's bodies are equal, so
\* which file is called the old one makes no difference to what is left over.
RenamesFound ==
  pc = "report" =>
    /\ \A r \in renamed : signature(old, r[1]) = signature(new, r[2])
    /\ \A a \in Range(added), r \in Range(removed) : signature(new, a) # signature(old, r)
=============================================================================
