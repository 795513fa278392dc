---------------------------- MODULE RunDiffProofs ----------------------------
(***************************************************************************)
(* Proofs about --diff, for any names, bodies and numbers of functions:    *)
(* the report of two files accounts for every name once and misses no      *)
(* rename, and that of one symbol is a shortest difference of its bodies.  *)
(***************************************************************************)
EXTENDS RunDiff, FunctionTheorems, FiniteSetTheorems, SequenceTheorems,
        WellFoundedInduction, TLAPS

-----------------------------------------------------------------------------
(* Numbers and sequences *)

\* The least of a set of natural numbers, which the pairing loop takes.
LEMMA MinExists ==
  ASSUME NEW S, S \subseteq Nat, S # {}
  PROVE  Min(S) \in S /\ \A y \in S : Min(S) <= y
<1>1. PICK x \in S : \A y \in S : ~(<<y, x>> \in OpToRel(<, Nat))
  BY NatLessThanWellFounded, WFMin
<1>2. \A y \in S : ~(y < x)
  BY <1>1 DEF OpToRel
<1>3. \A y \in S : x <= y
  BY <1>2
<1> QED
  BY <1>3 DEF Min

\* A finite set of numbers can be put in order: the place of a number is how many of
\* the set do not exceed it.
LEMMA SortedOrder ==
  ASSUME NEW S, S \subseteq Nat, IsFiniteSet(S)
  PROVE  /\ Sorted(S) \in [1..Cardinality(S) -> S]
         /\ \A i, j \in 1..Cardinality(S) : i < j => Sorted(S)[i] < Sorted(S)[j]
<1> DEFINE n == Cardinality(S)
           upto(x) == {y \in S : y <= x}
           place == [x \in S |-> Cardinality(upto(x))]
<1>1. n \in Nat
  BY FS_CardinalityType
<1>2. \A x \in S : IsFiniteSet(upto(x)) /\ Cardinality(upto(x)) \in 1..n
  <2> SUFFICES ASSUME NEW x \in S
               PROVE  IsFiniteSet(upto(x)) /\ Cardinality(upto(x)) \in 1..n
    OBVIOUS
  <2>1. IsFiniteSet(upto(x)) /\ Cardinality(upto(x)) <= n
    BY FS_Subset
  <2>2. x \in upto(x)
    OBVIOUS
  <2>3. Cardinality(upto(x)) \in Nat /\ Cardinality(upto(x)) # 0
    BY <2>1, <2>2, FS_CardinalityType, FS_EmptySet
  <2> QED
    BY <1>1, <2>1, <2>3
<1>3. \A x, y \in S : x < y => place[x] < place[y]
  <2> SUFFICES ASSUME NEW x \in S, NEW y \in S, x < y
               PROVE  Cardinality(upto(x)) < Cardinality(upto(y))
    OBVIOUS
  <2>1. upto(x) \in SUBSET upto(y) /\ upto(x) # upto(y)
    <3>1. \A z \in S : z <= x => z <= y
      OBVIOUS
    <3>2. y \in upto(y) /\ ~(y <= x)
      OBVIOUS
    <3> QED
      BY <3>1, <3>2
  <2>2. Cardinality(upto(x)) <= Cardinality(upto(y)) /\ Cardinality(upto(x)) # Cardinality(upto(y))
    BY <1>2, <2>1, FS_Subset
  <2> QED
    BY <1>2, <1>1, <2>2
<1>4. place \in [S -> 1..n] /\ \A x \in S : place[x] \in Nat
  BY <1>2, <1>1
<1> HIDE DEF place
<1>5. place \in Injection(S, 1..n)
  <2>1. \A x, y \in S : place[x] = place[y] => x = y
    BY <1>3, <1>4
  <2> QED
    BY <1>4, <2>1 DEF Injection, IsInjective
<1>6. IsFiniteSet(1..n) /\ Cardinality(1..n) = n
  BY <1>1, FS_Interval
<1>7. place \in Surjection(S, 1..n)
  BY <1>5, <1>6, FS_Injection
<1>8. \A i \in 1..n : \E x \in S : place[x] = i
  BY <1>7 DEF Surjection
<1> DEFINE s == [i \in 1..n |-> CHOOSE x \in S : place[x] = i]
<1>9. s \in [1..n -> S] /\ \A i \in 1..n : place[s[i]] = i
  BY <1>8
<1> HIDE DEF s
<1>10. ASSUME NEW i \in 1..n, NEW j \in 1..n, i < j
       PROVE  s[i] < s[j]
  <2>1. s[i] \in S /\ s[j] \in S /\ s[i] \in Nat /\ s[j] \in Nat
    BY <1>9
  <2>2. ~(s[j] < s[i]) /\ s[j] # s[i]
    BY <1>3, <1>9, <1>10, <2>1
  <2> QED
    BY <2>1, <2>2
<1>11. \E t \in [1..n -> S] : \A i, j \in DOMAIN t : i < j => t[i] < t[j]
  BY <1>9, <1>10
<1> HIDE DEF n
<1> QED
  BY <1>11 DEF Sorted, n

\* The order has every member of the set once.
LEMMA SortedOnce ==
  ASSUME NEW S, S \subseteq Nat, IsFiniteSet(S)
  PROVE  /\ Sorted(S) \in Seq(Nat) /\ Range(Sorted(S)) = S
         /\ \A i, j \in DOMAIN Sorted(S) : Sorted(S)[i] = Sorted(S)[j] => i = j
<1> DEFINE n == Cardinality(S)
           s == Sorted(S)
<1>1. n \in Nat
  BY FS_CardinalityType
<1>2. s \in [1..n -> S] /\ \A i, j \in 1..n : i < j => s[i] < s[j]
  BY SortedOrder
<1> HIDE DEF s, n
<1>3. \A i, j \in 1..n : s[i] = s[j] => i = j
  <2> SUFFICES ASSUME NEW i \in 1..n, NEW j \in 1..n, s[i] = s[j], i # j
               PROVE  FALSE
    OBVIOUS
  <2>1. i < j \/ j < i
    BY <1>1
  <2>2. s[i] \in Nat /\ s[j] \in Nat
    BY <1>2
  <2> QED
    BY <1>2, <2>1, <2>2
<1>4. s \in Injection(1..n, S)
  BY <1>2, <1>3 DEF Injection, IsInjective
<1>5. IsFiniteSet(1..n) /\ Cardinality(1..n) = n
  BY <1>1, FS_Interval
<1>6. s \in Surjection(1..n, S)
  BY <1>4, <1>5, FS_Injection DEF n
<1>7. Range(s) = S
  BY <1>2, <1>6 DEF Range, Surjection
<1>8. s \in Seq(Nat) /\ DOMAIN s = 1..n
  <2>1. s \in [1..n -> Nat]
    BY <1>2
  <2> QED
    BY <1>1, <2>1
<1> QED
  BY <1>3, <1>7, <1>8 DEF s

\* What RemoveAt leaves of a sequence without repetitions: the others, in their order.
LEMMA RemoveOne ==
  ASSUME NEW s \in Seq(Nat), NEW k \in 1..Len(s),
         \A i, j \in DOMAIN s : s[i] = s[j] => i = j
  PROVE  LET r == RemoveAt(s, k) IN
         /\ r \in Seq(Nat) /\ Len(r) = Len(s) - 1
         /\ \A i \in 1..Len(r) : r[i] = IF i < k THEN s[i] ELSE s[i + 1]
         /\ \A i, j \in DOMAIN r : r[i] = r[j] => i = j
         /\ Range(r) = Range(s) \ {s[k]}
<1> DEFINE r == RemoveAt(s, k)
<1>1. Len(s) \in Nat /\ k \in Nat /\ 1 <= k /\ k <= Len(s) /\ DOMAIN s = 1..Len(s)
  OBVIOUS
<1>2. /\ SubSeq(s, 1, k - 1) \in Seq(Nat) /\ Len(SubSeq(s, 1, k - 1)) = k - 1
      /\ \A i \in 1..(k - 1) : SubSeq(s, 1, k - 1)[i] = s[i]
  <2>1. \A i \in 1..(k - 1) : s[i] \in Nat
    BY <1>1
  <2>2. /\ SubSeq(s, 1, k - 1) \in Seq(Nat)
        /\ Len(SubSeq(s, 1, k - 1)) = IF 1 <= k - 1 THEN (k - 1) - 1 + 1 ELSE 0
        /\ \A i \in 1..((k - 1) - 1 + 1) : SubSeq(s, 1, k - 1)[i] = s[1 + i - 1]
    BY <1>1, <2>1, SubSeqProperties
  <2>3. \A i \in 1..(k - 1) : i \in 1..((k - 1) - 1 + 1) /\ 1 + i - 1 = i
    BY <1>1
  <2> QED
    BY <1>1, <2>2, <2>3
<1>3. /\ SubSeq(s, k + 1, Len(s)) \in Seq(Nat) /\ Len(SubSeq(s, k + 1, Len(s))) = Len(s) - k
      /\ \A i \in 1..(Len(s) - k) : SubSeq(s, k + 1, Len(s))[i] = s[k + i]
  <2>1. \A i \in (k + 1)..Len(s) : s[i] \in Nat
    BY <1>1
  <2>2. /\ SubSeq(s, k + 1, Len(s)) \in Seq(Nat)
        /\ Len(SubSeq(s, k + 1, Len(s))) = IF k + 1 <= Len(s) THEN Len(s) - (k + 1) + 1 ELSE 0
        /\ \A i \in 1..(Len(s) - (k + 1) + 1) : SubSeq(s, k + 1, Len(s))[i] = s[(k + 1) + i - 1]
    BY <1>1, <2>1, SubSeqProperties
  <2>3. \A i \in 1..(Len(s) - k) : i \in 1..(Len(s) - (k + 1) + 1) /\ (k + 1) + i - 1 = k + i
    BY <1>1
  <2>4. SubSeq(s, k + 1, Len(s)) \in Seq(Nat)
    BY <2>2
  <2>5. Len(SubSeq(s, k + 1, Len(s))) = Len(s) - k
    <3>1. PICK n \in Nat : n = Len(s) /\ k <= n
      BY <1>1
    <3>2. (IF k + 1 <= n THEN n - (k + 1) + 1 ELSE 0) = n - k
      BY ONLY k \in 1..Len(s), <3>1
    <3> QED
      BY ONLY <2>2, <3>1, <3>2
  <2>6. ASSUME NEW i \in 1..(Len(s) - k)
        PROVE  SubSeq(s, k + 1, Len(s))[i] = s[k + i]
    <3>1. SubSeq(s, k + 1, Len(s))[i] = s[(k + 1) + i - 1]
      BY <2>2, <2>3
    <3>2. (k + 1) + i - 1 = k + i
      BY <2>3
    <3> QED
      BY <3>1, <3>2
  <2> QED
    BY <2>4, <2>5, <2>6
<1> DEFINE u == SubSeq(s, 1, k - 1)
           v == SubSeq(s, k + 1, Len(s))
<1>u. u \in Seq(Nat) /\ Len(u) = k - 1 /\ \A i \in 1..(k - 1) : u[i] = s[i]
  BY <1>2
<1>v. v \in Seq(Nat) /\ Len(v) = Len(s) - k /\ \A i \in 1..(Len(s) - k) : v[i] = s[k + i]
  BY <1>3
<1>r. r = u \o v
  BY DEF RemoveAt
<1> HIDE DEF u, v, r
<1>4. r \in Seq(Nat) /\ Len(r) = Len(s) - 1
  <2>1. u \o v \in Seq(Nat) /\ Len(u \o v) = Len(u) + Len(v)
    BY <1>u, <1>v, ConcatProperties
  <2> QED
    BY <1>1, <1>r, <1>u, <1>v, <2>1
<1>5. \A i \in 1..(Len(s) - 1) : r[i] = IF i < k THEN s[i] ELSE s[i + 1]
  <2> SUFFICES ASSUME NEW i \in 1..(Len(s) - 1)
               PROVE  (u \o v)[i] = IF i < k THEN s[i] ELSE s[i + 1]
    BY <1>r
  <2>1. i \in 1..(Len(u) + Len(v)) /\ i \in Nat
    BY <1>1, <1>u, <1>v
  <2>2. (u \o v)[i] = IF i <= Len(u) THEN u[i] ELSE v[i - Len(u)]
    BY <1>u, <1>v, <2>1, ConcatProperties, ZenonT(40)
  <2>3. CASE i < k
    BY <1>1, <1>u, <2>1, <2>2, <2>3, SMTT(30)
  <2>4. CASE ~(i < k)
    <3>1. (u \o v)[i] = v[i - (k - 1)] /\ i - (k - 1) \in 1..(Len(s) - k)
      BY <1>1, <1>u, <2>1, <2>2, <2>4
    <3>2. k + (i - (k - 1)) = i + 1
      BY <1>1, <2>1
    <3> QED
      BY <1>v, <2>4, <3>1, <3>2
  <2> QED
    BY <2>3, <2>4
<1>6. DOMAIN r = 1..(Len(s) - 1)
  BY <1>4
<1>7. ASSUME NEW i \in DOMAIN r, NEW j \in DOMAIN r, r[i] = r[j]
      PROVE  i = j
  <2> DEFINE from(a) == IF a < k THEN a ELSE a + 1
  <2>1. \A a \in DOMAIN r : from(a) \in DOMAIN s /\ r[a] = s[from(a)]
    BY <1>1, <1>5, <1>6
  <2>2. from(i) = from(j)
    BY <1>7, <2>1
  <2> QED
    BY <1>1, <1>6, <2>2
<1>8. Range(r) \subseteq Range(s) \ {s[k]}
  <2> SUFFICES ASSUME NEW i \in DOMAIN r
               PROVE  r[i] \in Range(s) /\ r[i] # s[k]
    BY DEF Range
  <2> DEFINE a == IF i < k THEN i ELSE i + 1
  <2>1. a \in DOMAIN s /\ r[i] = s[a] /\ a # k
    BY <1>1, <1>5, <1>6
  <2> QED
    BY <1>1, <2>1 DEF Range
<1>9. Range(s) \ {s[k]} \subseteq Range(r)
  <2> SUFFICES ASSUME NEW i \in DOMAIN s, s[i] # s[k]
               PROVE  s[i] \in Range(r)
    BY DEF Range
  <2> DEFINE a == IF i < k THEN i ELSE i - 1
  <2>1. a \in DOMAIN r /\ r[a] = s[i]
    BY <1>1, <1>5, <1>6
  <2> QED
    BY <2>1 DEF Range
<1> QED
  BY <1>4, <1>5, <1>7, <1>8, <1>9 DEF r

-----------------------------------------------------------------------------
(* The invariant of the comparison *)

Shared == NamesOf(old) \cap NamesOf(new)

\* No name twice.
Distinct(s) == \A i, j \in DOMAIN s : s[i] = s[j] => i = j

\* What the lists hold, and the pairs so far, is what either file has alone.
Split ==
  /\ changed \cup unchanged = Shared /\ changed \cap unchanged = {}
  /\ Range(added) \cup News = NamesOf(new) \ NamesOf(old) /\ Range(added) \cap News = {}
  /\ Range(removed) \cup Olds = NamesOf(old) \ NamesOf(new) /\ Range(removed) \cap Olds = {}

Lists ==
  /\ added \in Seq(Nat) /\ removed \in Seq(Nat) /\ Distinct(added) /\ Distinct(removed)
  /\ next \in 1..(Len(added) + 1)

\* The pairs are pairs of equal bodies, and no name is in two of them.
Pairs ==
  /\ IsFiniteSet(renamed) /\ renamed \subseteq Nat \X Nat
  /\ \A r, s \in renamed : r[1] = s[1] \/ r[2] = s[2] => r = s
  /\ \A r \in renamed : signature(old, r[1]) = signature(new, r[2])

\* What the loop has passed has no match among the removed, and gets none: they
\* only become fewer.
Passed == \A i \in 1..(next - 1) : Matches(added[i]) = {}

Pairing == Split /\ Lists /\ Pairs /\ Passed

Tally ==
  /\ request = All => old \in Files /\ new \in Files
  /\ pc \in {"compare", "pair", "report"} => request = All
  /\ pc \in {"load", "compare"} => renamed = {} /\ next = 1
  /\ pc \in {"pair", "report"} => Pairing
  /\ pc = "report" => next = Len(added) + 1

\* A file has finitely many names, and they are numbers.
LEMMA NamesFinite ==
  ASSUME NEW file \in Files
  PROVE  IsFiniteSet(NamesOf(file)) /\ NamesOf(file) \subseteq Nat
<1>1. PICK n \in 0..MaxFunctions : file \in [1..n -> Functions]
  BY DEF Files
<1> DEFINE f == [i \in 1..n |-> file[i].name]
<1>2. IsFiniteSet(1..n)
  BY FS_Interval, DiffConstants
<1>3. \A i \in 1..n : file[i].name \in Nat
  BY <1>1, DiffConstants DEF Functions
<1>4. f \in Surjection(1..n, NamesOf(file))
  BY <1>1 DEF Surjection, NamesOf
<1>5. IsFiniteSet(NamesOf(file))
  BY <1>2, <1>4, FS_Surjection
<1> QED
  BY <1>1, <1>3, <1>5 DEF NamesOf

\* Comparing the maps.
LEMMA CompareStep ==
  ASSUME Tally, Compare, UNCHANGED symbolVars
  PROVE  Tally'
<1>1. old \in Files /\ new \in Files /\ request = All /\ renamed = {} /\ next = 1 /\ pc' = "pair"
  BY DEF Tally, Compare
<1>2. UNCHANGED <<old, new, request, renamed, next>>
  BY DEF Compare, symbolVars
<1> DEFINE A == NamesOf(new) \ NamesOf(old)
           R == NamesOf(old) \ NamesOf(new)
<1>3. IsFiniteSet(A) /\ IsFiniteSet(R) /\ A \subseteq Nat /\ R \subseteq Nat
  BY <1>1, NamesFinite, FS_Difference
<1>4. added' = Sorted(A) /\ removed' = Sorted(R)
  BY DEF Compare
<1>5. /\ added' \in Seq(Nat) /\ Range(added') = A /\ Distinct(added')
      /\ removed' \in Seq(Nat) /\ Range(removed') = R /\ Distinct(removed')
  BY <1>3, <1>4, SortedOnce DEF Distinct
<1>6. changed' \cup unchanged' = Shared /\ changed' \cap unchanged' = {}
  BY DEF Compare, Shared
<1>7. Olds' = {} /\ News' = {}
  BY <1>1, <1>2 DEF Olds, News
<1>8. Shared' = Shared /\ A = (NamesOf(new) \ NamesOf(old))' /\ R = (NamesOf(old) \ NamesOf(new))'
  BY <1>2 DEF Shared
<1>9. Split'
  BY <1>5, <1>6, <1>7, <1>8 DEF Split
<1>10. Lists'
  BY <1>1, <1>2, <1>5 DEF Lists
<1>11. Pairs'
  BY <1>1, <1>2, FS_EmptySet DEF Pairs
<1>12. Passed'
  BY <1>1, <1>2 DEF Passed
<1> QED
  BY <1>1, <1>2, <1>9, <1>10, <1>11, <1>12 DEF Tally, Pairing

\* Pairing a name that is left over.
LEMMA PairStep ==
  ASSUME Tally, Pair, UNCHANGED symbolVars
  PROVE  Tally'
<1>1. /\ pc = "pair" /\ pc' = "pair" /\ Pairing /\ next \in 1..Len(added)
      /\ Matches(added[next]) # {}
  BY DEF Tally, Pair, Pairing, Lists
<1> DEFINE a == added[next]
           k == Min(Matches(a))
           r == removed[k]
<1>2. /\ UNCHANGED <<old, new, request, changed, unchanged, next>>
      /\ renamed' = renamed \cup {<<r, a>>}
      /\ added' = RemoveAt(added, next) /\ removed' = RemoveAt(removed, k)
  BY DEF Pair, symbolVars
<1>3. k \in Matches(a)
  <2>1. DOMAIN removed \subseteq Nat
    BY <1>1 DEF Pairing, Lists
  <2> QED
    BY <1>1, <2>1, MinExists DEF Matches
<1>4. k \in 1..Len(removed) /\ signature(old, r) = signature(new, a)
  BY <1>1, <1>3 DEF Matches, Pairing, Lists
<1>5. added \in Seq(Nat) /\ removed \in Seq(Nat) /\ Distinct(added) /\ Distinct(removed)
  BY <1>1 DEF Pairing, Lists
<1> HIDE DEF k, r
<1>6. /\ added' \in Seq(Nat) /\ Len(added') = Len(added) - 1 /\ Distinct(added')
      /\ \A i \in 1..Len(added') : added'[i] = IF i < next THEN added[i] ELSE added[i + 1]
      /\ Range(added') = Range(added) \ {a}
  BY <1>1, <1>2, <1>5, RemoveOne DEF Distinct
<1>7. /\ removed' \in Seq(Nat) /\ Len(removed') = Len(removed) - 1 /\ Distinct(removed')
      /\ \A i \in 1..Len(removed') : removed'[i] = IF i < k THEN removed[i] ELSE removed[i + 1]
      /\ Range(removed') = Range(removed) \ {r}
  BY <1>2, <1>4, <1>5, RemoveOne DEF Distinct, r
<1>8. a \in Range(added) /\ r \in Range(removed) /\ a \in Nat /\ r \in Nat
  BY <1>1, <1>4, <1>5 DEF Range, r
<1>9. Olds' = Olds \cup {r} /\ News' = News \cup {a}
  <2> HIDE DEF a
  <2>1. <<r, a>>[1] = r /\ <<r, a>>[2] = a
    OBVIOUS
  <2>2. \A s : s \in renamed' <=> s \in renamed \/ s = <<r, a>>
    BY <1>2
  <2>3. Olds' = Olds \cup {r}
    BY <2>1, <2>2 DEF Olds
  <2>4. News' = News \cup {a}
    BY <2>1, <2>2 DEF News
  <2> QED
    BY <2>3, <2>4
<1>10. Split'
  <2>1. Split /\ Shared' = Shared
    BY <1>1, <1>2 DEF Pairing, Shared
  <2>2. (NamesOf(new) \ NamesOf(old))' = NamesOf(new) \ NamesOf(old)
    BY <1>2
  <2>3. (NamesOf(old) \ NamesOf(new))' = NamesOf(old) \ NamesOf(new)
    BY <1>2
  <2> HIDE DEF a
  <2> QED
    BY <1>2, <1>6, <1>7, <1>8, <1>9, <2>1, <2>2, <2>3 DEF Split
<1>11. Lists'
  BY <1>1, <1>2, <1>5, <1>6, <1>7 DEF Lists
<1>12. Pairs'
  <2>1. Pairs /\ r \notin Olds /\ a \notin News
    BY <1>1, <1>8 DEF Pairing, Split
  <2>2. \A s \in renamed : s[1] # r /\ s[2] # a
    BY <2>1 DEF Olds, News
  <2>3. IsFiniteSet(renamed')
    BY <1>2, <2>1, FS_AddElement DEF Pairs
  <2>4. renamed' \subseteq Nat \X Nat
    BY <1>2, <1>8, <2>1 DEF Pairs
  <2>5. \A s, t \in renamed' : s[1] = t[1] \/ s[2] = t[2] => s = t
    <3> HIDE DEF a
    <3> QED
      BY <1>2, <2>1, <2>2 DEF Pairs
  <2>6. \A s \in renamed' : signature(old, s[1]) = signature(new, s[2])
    <3>1. \A s \in renamed : signature(old, s[1]) = signature(new, s[2])
      BY <2>1 DEF Pairs
    <3>2. \A s \in renamed' : s \in renamed \/ (s[1] = r /\ s[2] = a)
      BY <1>2
    <3> QED
      BY <1>4, <3>1, <3>2
  <2> QED
    BY <1>2, <2>3, <2>4, <2>5, <2>6 DEF Pairs
<1>13. Passed'
  <2> SUFFICES ASSUME NEW i \in 1..(next - 1), NEW m \in Matches(added[i])'
               PROVE  FALSE
    BY <1>2 DEF Passed
  <2>1. i \in 1..Len(added') /\ added'[i] = added[i]
    BY <1>1, <1>5, <1>6, SMTT(30)
  <2>2. m \in DOMAIN removed' /\ signature(old, removed'[m]) = signature(new, added[i])
    BY <1>2, <2>1 DEF Matches
  <2>3. removed'[m] \in Range(removed)
    BY <1>7, <2>2 DEF Range
  <2>4. PICK j \in DOMAIN removed : removed[j] = removed'[m]
    BY <2>3 DEF Range
  <2>5. j \in Matches(added[i])
    BY <2>2, <2>4 DEF Matches
  <2> QED
    BY <1>1, <2>5 DEF Pairing, Passed
<1> QED
  BY <1>1, <1>2, <1>10, <1>11, <1>12, <1>13 DEF Tally, Pairing

\* What depends on the lists and files alone keeps its value with them.
LEMMA SplitKept ==
  ASSUME Split, UNCHANGED <<old, new, added, removed, changed, renamed, unchanged>>
  PROVE  Split'
<1>1. Shared' = Shared /\ Olds' = Olds /\ News' = News
  BY DEF Shared, Olds, News
<1>2. /\ Range(added)' = Range(added) /\ Range(removed)' = Range(removed)
      /\ NamesOf(old)' = NamesOf(old) /\ NamesOf(new)' = NamesOf(new)
  OBVIOUS
<1> QED
  BY <1>1, <1>2 DEF Split

\* A name without a match.
LEMMA PairNoneStep ==
  ASSUME Tally, PairNone, UNCHANGED symbolVars
  PROVE  Tally'
<1>1. /\ pc = "pair" /\ Pairing /\ next \in 1..Len(added) /\ Matches(added[next]) = {}
      /\ next' = next + 1
  BY DEF Tally, PairNone, Pairing, Lists
<1>2. UNCHANGED <<old, new, request, pc, added, removed, changed, renamed, unchanged>>
  BY DEF PairNone, symbolVars
<1>3. Split'
  BY <1>1, <1>2, SplitKept DEF Pairing
<1>4. Lists'
  <2>1. Lists /\ Len(added) \in Nat
    BY <1>1 DEF Pairing, Lists
  <2>2. next + 1 \in 1..(Len(added) + 1)
    BY <1>1, <2>1
  <2> QED
    BY <1>1, <1>2, <2>1, <2>2 DEF Lists, Distinct
<1>5. Pairs'
  BY <1>1, <1>2 DEF Pairing, Pairs, signature
<1>6. Passed'
  <2> SUFFICES ASSUME NEW i \in 1..next
               PROVE  Matches(added[i])' = {}
    BY <1>1 DEF Passed
  <2>1. i \in 1..(next - 1) \/ i = next
    BY <1>1
  <2>2. Matches(added[i]) = {}
    BY <1>1, <2>1 DEF Pairing, Passed
  <2> QED
    BY <1>2, <2>2 DEF Matches, signature
<1> QED
  BY <1>1, <1>2, <1>3, <1>4, <1>5, <1>6 DEF Tally, Pairing

\* The invariant of the pairing depends on these variables alone.
LEMMA PairingKept ==
  ASSUME Pairing, UNCHANGED <<old, new, added, removed, changed, renamed, unchanged, next>>
  PROVE  Pairing'
<1>1. Split'
  BY SplitKept DEF Pairing
<1>2. Lists'
  BY DEF Pairing, Lists, Distinct
<1>3. Pairs'
  BY DEF Pairing, Pairs, signature
<1>4. Passed'
  BY DEF Pairing, Passed, Matches, signature
<1> QED
  BY <1>1, <1>2, <1>3, <1>4 DEF Pairing

\* The report closes the pairing.
LEMMA ReportStep ==
  ASSUME Tally, Report, UNCHANGED symbolVars
  PROVE  Tally'
<1>1. pc = "pair" /\ pc' = "report" /\ Pairing /\ next > Len(added)
  BY DEF Tally, Report
<1>2. UNCHANGED <<old, new, request, added, removed, changed, renamed, unchanged, next>>
  BY DEF Report, symbolVars
<1>3. next = Len(added) + 1
  BY <1>1 DEF Pairing, Lists
<1>4. Pairing'
  BY <1>1, <1>2, PairingKept
<1> QED
  BY <1>1, <1>2, <1>3, <1>4 DEF Tally

\* What run_diff does around the comparison, and for one symbol instead of it.
LEMMA AroundStep ==
  ASSUME Tally, LoadOther \/ FindBodies \/ Walk \/ WalkRest
  PROVE  Tally'
<1>1. UNCHANGED <<old, new, request, added, removed, changed, renamed, unchanged, next>>
  BY DEF LoadOther, FindBodies, Walk, WalkRest, symbolVars
<1>2. \/ pc = "load" /\ pc' \in {"failed", IF request = All THEN "compare" ELSE "find"}
      \/ pc' \in {"missing", "shown", "walk"}
  BY DEF LoadOther, FindBodies, Walk, WalkRest
<1> QED
  BY <1>1, <1>2 DEF Tally

\* Nothing changes.
LEMMA StutterStep ==
  ASSUME Tally, UNCHANGED <<vars, symbolVars>>
  PROVE  Tally'
<1>1. UNCHANGED <<old, new, request, pc, added, removed, changed, renamed, unchanged, next>>
  BY DEF vars, symbolVars
<1>2. Pairing => Pairing'
  BY <1>1, PairingKept
<1> QED
  BY <1>1, <1>2 DEF Tally

\* At every moment of a comparison the lists, the pairs and the rest are a partition of
\* the names (features.cpp:265-317).
THEOREM TallyCorrect == RunSpec => []Tally
<1>1. RunInit => Tally
  BY DEF RunInit, Tally
<1>2. Tally /\ [RunNext]_<<vars, symbolVars>> => Tally'
  <2> SUFFICES ASSUME Tally, [RunNext]_<<vars, symbolVars>>
               PROVE  Tally'
    OBVIOUS
  <2>1. CASE LoadOther \/ FindBodies \/ Walk \/ WalkRest
    BY <2>1, AroundStep
  <2>2. CASE Compare /\ UNCHANGED symbolVars
    BY <2>2, CompareStep
  <2>3. CASE Pair /\ UNCHANGED symbolVars
    BY <2>3, PairStep
  <2>4. CASE PairNone /\ UNCHANGED symbolVars
    BY <2>4, PairNoneStep
  <2>5. CASE Report /\ UNCHANGED symbolVars
    BY <2>5, ReportStep
  <2>6. CASE UNCHANGED <<vars, symbolVars>>
    BY <2>6, StutterStep
  <2> QED
    BY <2>1, <2>2, <2>3, <2>4, <2>5, <2>6 DEF RunNext
<1> QED
  BY <1>1, <1>2, PTL DEF RunSpec

-----------------------------------------------------------------------------
(* What the report says *)

\* As many names on either side as there are pairs.
LEMMA OneNameEach ==
  ASSUME Pairs
  PROVE  Cardinality(Olds) = Cardinality(renamed) /\ Cardinality(News) = Cardinality(renamed)
<1>1. IsFiniteSet(renamed)
  BY DEF Pairs
<1>2. Cardinality(Olds) = Cardinality(renamed)
  <2> DEFINE f == [r \in renamed |-> r[1]]
  <2>1. \A r, s \in renamed : r[1] = s[1] => r = s
    BY DEF Pairs
  <2>2. f \in Bijection(renamed, Olds)
    BY <2>1 DEF Olds, Bijection, Injection, Surjection, IsInjective
  <2> QED
    BY <1>1, <2>2, FS_Bijection DEF ExistsBijection
<1>3. Cardinality(News) = Cardinality(renamed)
  <2> DEFINE f == [r \in renamed |-> r[2]]
  <2>1. \A r, s \in renamed : r[2] = s[2] => r = s
    BY DEF Pairs
  <2>2. f \in Bijection(renamed, News)
    BY <2>1 DEF News, Bijection, Injection, Surjection, IsInjective
  <2> QED
    BY <1>1, <2>2, FS_Bijection DEF ExistsBijection
<1> QED
  BY <1>2, <1>3

\* EveryNameOnce: the report has every name of either file under exactly one heading
\* (features.cpp:282-317).
THEOREM EveryNameOnceAlways == RunSpec => []EveryNameOnce
<1>1. Tally => EveryNameOnce
  <2> SUFFICES ASSUME Tally, pc = "report"
               PROVE  EveryNameOnce
    BY DEF EveryNameOnce
  <2>1. Split /\ Pairs
    BY DEF Tally, Pairing
  <2>2. /\ NamesOf(old) = Range(removed) \cup changed \cup unchanged \cup Olds
        /\ NamesOf(new) = Range(added) \cup changed \cup unchanged \cup News
    BY <2>1 DEF Split, Shared
  <2>3. /\ Range(removed) \cap Range(added) = {} /\ Range(removed) \cap changed = {}
        /\ Range(removed) \cap unchanged = {} /\ Range(removed) \cap (Olds \cup News) = {}
        /\ Range(added) \cap changed = {} /\ Range(added) \cap unchanged = {}
        /\ Range(added) \cap (Olds \cup News) = {}
        /\ changed \cap unchanged = {} /\ changed \cap (Olds \cup News) = {}
        /\ unchanged \cap (Olds \cup News) = {}
    BY <2>1 DEF Split, Shared
  <2>4. \A s, t \in {Range(removed), Range(added), changed, unchanged, Olds \cup News} :
          s # t => s \cap t = {}
    BY <2>3
  <2> QED
    BY <2>1, <2>2, <2>4, OneNameEach DEF EveryNameOnce
<1> QED
  BY <1>1, TallyCorrect, PTL

\* RenamesFound: no added and removed function with equal bodies are left over, and what
\* is paired has equal bodies (features.cpp:300-317).
THEOREM RenamesFoundAlways == RunSpec => []RenamesFound
<1>1. Tally => RenamesFound
  <2> SUFFICES ASSUME Tally, pc = "report"
               PROVE  RenamesFound
    BY DEF RenamesFound
  <2>1. Pairing /\ next = Len(added) + 1 /\ Len(added) \in Nat /\ DOMAIN added = 1..Len(added)
    BY DEF Tally, Pairing, Lists
  <2>2. \A r \in renamed : signature(old, r[1]) = signature(new, r[2])
    BY <2>1 DEF Pairing, Pairs
  <2>3. ASSUME NEW a \in Range(added), NEW r \in Range(removed)
        PROVE  signature(new, a) # signature(old, r)
    <3>1. PICK i \in 1..Len(added) : added[i] = a
      BY <2>1 DEF Range
    <3>2. PICK j \in DOMAIN removed : removed[j] = r
      BY DEF Range
    <3>3. Matches(a) = {}
      <4>1. i \in 1..(next - 1)
        BY <2>1
      <4> QED
        BY <2>1, <3>1, <4>1 DEF Pairing, Passed
    <3> QED
      BY <3>2, <3>3 DEF Matches
  <2> QED
    BY <2>2, <2>3 DEF RenamesFound
<1> QED
  BY <1>1, TallyCorrect, PTL

-----------------------------------------------------------------------------
(* Places in order *)

\* What enumerates a set of numbers upwards says which is the n-th.
LEMMA Enumerated ==
  ASSUME NEW k \in Nat, NEW S, S \subseteq Nat, NEW g \in [1..k -> S],
         \A i, j \in 1..k : i < j => g[i] < g[j],
         \A p \in S : \E i \in 1..k : g[i] = p
  PROVE  Cardinality(S) = k /\ \A n \in 1..k : Nth(S, n) = g[n]
<1>1. \A i, j \in 1..k : g[i] <= g[j] => i <= j
  <2> SUFFICES ASSUME NEW i \in 1..k, NEW j \in 1..k, g[i] <= g[j], j < i
               PROVE  FALSE
    OBVIOUS
  <2>1. g[j] < g[i] /\ g[i] \in Nat /\ g[j] \in Nat
    OBVIOUS
  <2> QED
    BY <2>1
<1>2. \A i, j \in 1..k : g[i] = g[j] => i = j
  <2> SUFFICES ASSUME NEW i \in 1..k, NEW j \in 1..k, g[i] = g[j] PROVE i = j
    OBVIOUS
  <2>1. g[i] \in Nat /\ g[j] \in Nat
    OBVIOUS
  <2>2. i <= j /\ j <= i
    BY <1>1, <2>1
  <2> QED
    BY <2>2
<1>3. ASSUME NEW n \in 1..k
      PROVE  Cardinality({g[i] : i \in 1..n}) = n
  <2> DEFINE h == [i \in 1..n |-> g[i]]
             T == {g[i] : i \in 1..n}
  <2>0. n \in Nat /\ \A i \in 1..n : i \in 1..k
    OBVIOUS
  <2>1. h \in Bijection(1..n, T)
    <3>1. h \in [1..n -> T] /\ \A i \in 1..n : h[i] = g[i]
      OBVIOUS
    <3>2. \A i, j \in 1..n : h[i] = h[j] => i = j
      BY <1>2, <2>0, <3>1
    <3>3. \A t \in T : \E i \in 1..n : h[i] = t
      BY <3>1
    <3> HIDE DEF h, T
    <3> QED
      BY <3>1, <3>2, <3>3 DEF Bijection, Injection, Surjection, IsInjective
  <2>2. IsFiniteSet(1..n) /\ Cardinality(1..n) = n
    BY <2>0, FS_Interval
  <2> HIDE DEF h, T
  <2>3. Cardinality(T) = Cardinality(1..n)
    BY <2>1, <2>2, FS_Bijection DEF ExistsBijection
  <2> QED
    BY <2>2, <2>3 DEF T
<1>4. ASSUME NEW n \in 1..k
      PROVE  {q \in S : q <= g[n]} = {g[i] : i \in 1..n}
  <2>1. \A q \in S : q <= g[n] => q \in {g[i] : i \in 1..n}
    <3> SUFFICES ASSUME NEW q \in S, q <= g[n] PROVE q \in {g[i] : i \in 1..n}
      OBVIOUS
    <3>1. PICK i \in 1..k : g[i] = q
      OBVIOUS
    <3>2. i <= n
      BY <1>1, <3>1
    <3>3. i \in 1..n
      BY <3>2
    <3> QED
      BY <3>1, <3>3
  <2>2. \A i \in 1..n : g[i] \in S /\ g[i] <= g[n]
    <3> SUFFICES ASSUME NEW i \in 1..n PROVE g[i] \in S /\ g[i] <= g[n]
      OBVIOUS
    <3>1. i \in 1..k /\ (i < n \/ i = n)
      OBVIOUS
    <3>2. g[i] \in S /\ g[i] \in Nat /\ g[n] \in Nat
      BY <3>1
    <3>3. i < n => g[i] < g[n]
      BY <3>1
    <3> QED
      BY <3>1, <3>2, <3>3
  <2> QED
    BY <2>1, <2>2
<1>5. ASSUME NEW n \in 1..k
      PROVE  Nth(S, n) = g[n]
  <2>1. g[n] \in S /\ Cardinality({q \in S : q <= g[n]}) = n
    <3>1. {q \in S : q <= g[n]} = {g[i] : i \in 1..n} /\ Cardinality({g[i] : i \in 1..n}) = n
      BY <1>3, <1>4
    <3> QED
      BY ONLY <3>1, g \in [1..k -> S], n \in 1..k
  <2>2. \A p \in S : Cardinality({q \in S : q <= p}) = n => p = g[n]
    <3> SUFFICES ASSUME NEW p \in S, Cardinality({q \in S : q <= p}) = n PROVE p = g[n]
      OBVIOUS
    <3>1. PICK m \in 1..k : g[m] = p
      OBVIOUS
    <3>2. {q \in S : q <= g[m]} = {g[i] : i \in 1..m} /\ Cardinality({g[i] : i \in 1..m}) = m
      BY <1>3, <1>4
    <3> QED
      BY <3>1, <3>2
  <2> QED
    BY <2>1, <2>2 DEF Nth
<1>6. S = {g[i] : i \in 1..k}
  OBVIOUS
<1>7. Cardinality(S) = k
  <2>1. CASE k = 0
    <3>1. S = {}
      BY <1>6, <2>1
    <3> QED
      BY <2>1, <3>1, FS_EmptySet
  <2>2. CASE k > 0
    <3>1. k \in 1..k
      BY <2>2
    <3> QED
      BY <1>3, <1>6, <3>1
  <2> QED
    BY <2>1, <2>2
<1> QED
  BY <1>5, <1>7

\* The places of a finite set of numbers go up.
LEMMA PlacesGoUp ==
  ASSUME NEW S, S \subseteq Nat, IsFiniteSet(S)
  PROVE  /\ \A n \in 1..Cardinality(S) : Nth(S, n) \in S
         /\ \A i, j \in 1..Cardinality(S) : i < j => Nth(S, i) < Nth(S, j)
<1>1. PICK k \in Nat : k = Cardinality(S)
  BY FS_CardinalityType
<1>2. PICK g : g = Sorted(S)
  OBVIOUS
<1>3. g \in [1..k -> S] /\ \A i, j \in 1..k : i < j => g[i] < g[j]
  BY <1>1, <1>2, SortedOrder
<1>4. \A p \in S : \E i \in 1..k : g[i] = p
  BY <1>2, <1>3, SortedOnce DEF Range
<1>5. \A n \in 1..k : Nth(S, n) = g[n]
  BY <1>3, <1>4, Enumerated, ZenonT(40)
<1> QED
  BY <1>1, <1>3, <1>5

-----------------------------------------------------------------------------
(* What a report reads as without one mark *)

Marks == {Blank, "-", "+"}
Reports(L) == Seq(Marks \X L)
Others(b, mark) == {n \in DOMAIN b : b[n][1] # mark}
Goes(b, places, s, g) ==
  /\ g \in [1..Len(s) -> places]
  /\ \A i, j \in 1..Len(s) : i < j => g[i] < g[j]
  /\ \A p \in places : \E i \in 1..Len(s) : g[i] = p
  /\ \A i \in 1..Len(s) : b[g[i]][2] = s[i]
Reads(b, mark, s) == \E g : Goes(b, Others(b, mark), s, g)
KeptIn(b) == Cardinality({n \in DOMAIN b : b[n][1] = Blank})

\* What a report reads as is what remains of it.
LEMMA ReadsWithout ==
  ASSUME NEW L, body \in Reports(L), NEW s \in Seq(L), NEW mark, Reads(body, mark, s)
  PROVE  Without(mark) = s
<1> DEFINE places == Others(body, mark)
           lines == [n \in DOMAIN body |-> body[n][2]]
<1>1. PICK k \in Nat : k = Len(s) /\ s = [i \in 1..k |-> s[i]]
  OBVIOUS
<1>2. PICK g \in [1..k -> places] :
        /\ \A i, j \in 1..k : i < j => g[i] < g[j]
        /\ \A p \in places : \E i \in 1..k : g[i] = p
        /\ \A i \in 1..k : body[g[i]][2] = s[i]
  BY <1>1 DEF Reads, Goes
<1>3. places \subseteq Nat
  BY DEF Others, Reports
<1>31. PICK P : P = places
  OBVIOUS
<1>4. Cardinality(places) = k /\ \A n \in 1..k : Nth(places, n) = g[n]
  <2> HIDE DEF places
  <2>1. P \subseteq Nat /\ g \in [1..k -> P] /\ \A p \in P : \E i \in 1..k : g[i] = p
    BY <1>2, <1>3, <1>31
  <2>2. \A i, j \in 1..k : i < j => g[i] < g[j]
    BY <1>2
  <2>3. Cardinality(P) = k /\ \A n \in 1..k : Nth(P, n) = g[n]
    BY ONLY k \in Nat, <2>1, <2>2, Enumerated, ZenonT(40)
  <2> QED
    BY <1>31, <2>3
<1>5. \A n \in 1..k : lines[g[n]] = s[n]
  BY <1>2 DEF Others
<1>6. Without(mark) = [n \in 1..k |-> lines[Nth(places, n)]]
  BY <1>4 DEF Without, Picked, Others
<1> HIDE DEF places, lines
<1>7. \A n \in 1..k : lines[Nth(places, n)] = s[n]
  BY <1>4, <1>5
<1> QED
  BY <1>1, <1>6, <1>7

\* Lines put behind a report.
Behind(c, b, k, m, r, n) ==
  /\ DOMAIN c = 1..(k + n)
  /\ \A i \in 1..k : c[i] = b[i]
  /\ \A i \in 1..n : c[k + i] = <<m, r[i]>>

\* The marked lines stand behind those before them.
LEMMA MarkedBehind ==
  ASSUME NEW L, NEW b \in Reports(L), NEW m \in Marks, NEW r \in Seq(L), NEW c,
         c = b \o Marked(m, r), NEW k \in Nat, k = Len(b), NEW n \in Nat, n = Len(r)
  PROVE  c \in Reports(L) /\ Behind(c, b, k, m, r, n)
<1>1. PICK d : d = Marked(m, r)
  OBVIOUS
<1>2. DOMAIN r = 1..Len(r) /\ Len(r) \in Nat /\ \A i \in 1..Len(r) : <<m, r[i]>> \in Marks \X L
  OBVIOUS
<1>3. d \in [1..Len(r) -> Marks \X L] /\ \A i \in 1..Len(r) : d[i] = <<m, r[i]>>
  BY <1>1, <1>2 DEF Marked
<1>4. d \in Seq(Marks \X L) /\ Len(d) = Len(r)
  BY <1>2, <1>3
<1>5. c = b \o d
  BY <1>1
<1>6. PICK M : M = Marks \X L
  OBVIOUS
<1>7. b \in Seq(M) /\ d \in Seq(M)
  BY <1>4, <1>6 DEF Reports
<1>8. /\ c \in Seq(M) /\ Len(c) = Len(b) + Len(d)
      /\ \A i \in 1..Len(b) : c[i] = b[i]
      /\ \A i \in 1..Len(d) : c[Len(b) + i] = d[i]
  BY ONLY <1>5, <1>7
<1>9. DOMAIN c = 1..Len(c)
  BY ONLY <1>8
<1>10. Len(b) = k /\ Len(d) = n
  BY <1>4
<1>11. (\A i \in 1..k : c[i] = b[i]) /\ (\A i \in 1..n : c[k + i] = d[i]) /\ Len(c) = k + n
  BY ONLY <1>8, <1>10
<1>12. \A i \in 1..n : d[i] = <<m, r[i]>>
  BY <1>3
<1>13. \A i \in 1..n : c[k + i] = <<m, r[i]>>
  BY ONLY <1>11, <1>12
<1>14. c \in Reports(L)
  BY <1>6, <1>8 DEF Reports
<1>15. DOMAIN c = 1..(k + n)
  BY ONLY <1>9, <1>11
<1> QED
  BY <1>11, <1>13, <1>14, <1>15 DEF Behind

\* Lines of the mark that is left out do not count.
LEMMA ReadsSame ==
  ASSUME NEW L, NEW b \in Reports(L), NEW m \in Marks, NEW r \in Seq(L), NEW s \in Seq(L),
         NEW c, c = b \o Marked(m, r), Reads(b, m, s)
  PROVE  Reads(c, m, s)
<1>1. PICK k \in Nat, n \in Nat : k = Len(b) /\ n = Len(r)
  BY DEF Reports
<1>2. DOMAIN b = 1..k
  BY <1>1 DEF Reports
<1>3. DOMAIN c = 1..(k + n) /\ (\A i \in 1..k : c[i] = b[i])
      /\ \A i \in 1..n : c[k + i] = <<m, r[i]>>
  <2>1. Behind(c, b, k, m, r, n)
    BY <1>1, MarkedBehind
  <2> QED
    BY <2>1 DEF Behind
<1>4. \A i \in 1..(k + n) : i \in 1..k \/ (i - k \in 1..n /\ k + (i - k) = i)
  OBVIOUS
<1>5. \A i \in 1..k : i \in 1..(k + n)
  OBVIOUS
<1>6. \A i \in DOMAIN c : c[i][1] # m => i \in DOMAIN b
  <2> SUFFICES ASSUME NEW i \in 1..(k + n), c[i][1] # m PROVE i \in 1..k
    BY <1>2, <1>3
  <2>1. CASE i \in 1..k
    BY <2>1
  <2>2. CASE i - k \in 1..n /\ k + (i - k) = i
    <3>1. c[i] = <<m, r[i - k]>>
      BY <1>3, <2>2
    <3> QED
      BY <3>1
  <2> QED
    BY <1>4, <2>1, <2>2
<1>7. \A i \in DOMAIN b : i \in DOMAIN c /\ c[i] = b[i]
  BY <1>2, <1>3, <1>5
<1>8. Others(c, m) = Others(b, m)
  BY <1>6, <1>7 DEF Others
<1>9. PICK g : Goes(b, Others(b, m), s, g)
  BY DEF Reads
<1>10. \A i \in 1..Len(s) : g[i] \in DOMAIN b
  BY <1>9 DEF Goes, Others
<1>11. Goes(c, Others(b, m), s, g)
  BY <1>7, <1>9, <1>10 DEF Goes
<1> QED
  BY <1>8, <1>11 DEF Reads

\* Lines of another mark are read at the end.
LEMMA ReadsMore ==
  ASSUME NEW L, NEW b \in Reports(L), NEW m \in Marks, NEW r \in Seq(L), NEW s \in Seq(L),
         NEW mark, mark # m, NEW c, c = b \o Marked(m, r), NEW t, t = s \o r, Reads(b, mark, s)
  PROVE  Reads(c, mark, t)
<1> DEFINE places == Others(b, mark)
           more == Others(c, mark)
<1>1. PICK k \in Nat, n \in Nat, l \in Nat : k = Len(b) /\ n = Len(r) /\ l = Len(s)
  BY DEF Reports
<1>2. DOMAIN b = 1..k
  BY <1>1 DEF Reports
<1>21. DOMAIN c = 1..(k + n) /\ (\A i \in 1..k : c[i] = b[i])
      /\ \A i \in 1..n : c[k + i] = <<m, r[i]>>
  <2>1. Behind(c, b, k, m, r, n)
    BY <1>1, MarkedBehind
  <2> QED
    BY <2>1 DEF Behind
<1>3. Len(t) = l + n /\ (\A i \in 1..l : t[i] = s[i]) /\ \A i \in 1..n : t[l + i] = r[i]
  BY ONLY <1>1, s \in Seq(L), r \in Seq(L), t = s \o r
<1>4. PICK g \in [1..l -> places] :
        /\ \A i, j \in 1..l : i < j => g[i] < g[j]
        /\ \A p \in places : \E i \in 1..l : g[i] = p
        /\ \A i \in 1..l : b[g[i]][2] = s[i]
  BY <1>1 DEF Reads, Goes
<1>5. \A i \in 1..(k + n) : i \in 1..k \/ (i - k \in 1..n /\ k + (i - k) = i)
  OBVIOUS
<1>6. \A i \in 1..k : i \in 1..(k + n)
  OBVIOUS
<1>7. \A i \in 1..n : k + i \in 1..(k + n)
  OBVIOUS
<1>8. \A p \in more : p \in places \/ \E i \in 1..n : p = k + i
  <2> SUFFICES ASSUME NEW p \in 1..(k + n), c[p][1] # mark
               PROVE  p \in places \/ \E i \in 1..n : p = k + i
    BY <1>21 DEF Others
  <2>1. CASE p \in 1..k
    BY <1>2, <1>21, <2>1 DEF Others
  <2>2. CASE p - k \in 1..n /\ k + (p - k) = p
    BY <2>2
  <2> QED
    BY <1>5, <2>1, <2>2
<1>81. \A p \in places : p \in more
  BY <1>2, <1>21, <1>6 DEF Others
<1>82. \A i \in 1..n : k + i \in more
  <2> SUFFICES ASSUME NEW i \in 1..n PROVE k + i \in DOMAIN c /\ c[k + i][1] # mark
    BY DEF Others
  <2>1. c[k + i] = <<m, r[i]>>
    BY <1>21
  <2> QED
    BY <1>7, <1>21, <2>1
<1>83. \A p \in places : p \in 1..k /\ c[p] = b[p]
  BY <1>2, <1>21 DEF Others
<1> HIDE DEF places, more
<1> DEFINE h == [i \in 1..(l + n) |-> IF i <= l THEN g[i] ELSE k + (i - l)]
<1>9. \A i \in 1..(l + n) : (i <= l => i \in 1..l) /\ (~(i <= l) => i - l \in 1..n /\ l + (i - l) = i)
  OBVIOUS
<1>10. \A i \in 1..l : g[i] \in places /\ g[i] \in 1..k
  BY <1>83, <1>4
<1>101. \A i \in 1..(l + n) : h[i] = IF i <= l THEN g[i] ELSE k + (i - l)
  OBVIOUS
<1>11. h \in [1..(l + n) -> more]
  <2> SUFFICES ASSUME NEW i \in 1..(l + n) PROVE (IF i <= l THEN g[i] ELSE k + (i - l)) \in more
    OBVIOUS
  <2>1. CASE i <= l
    BY <1>81, <1>9, <1>10, <2>1
  <2>2. CASE ~(i <= l)
    <3>1. PICK d \in 1..n : d = i - l
      BY <1>9, <2>2
    <3>2. k + d \in more
      BY <1>82
    <3> QED
      BY <2>2, <3>1, <3>2
  <2> QED
    BY <2>1, <2>2
<1> HIDE DEF h
<1>12. \A i, j \in 1..(l + n) : i < j => h[i] < h[j]
  <2> SUFFICES ASSUME NEW i \in 1..(l + n), NEW j \in 1..(l + n), i < j PROVE h[i] < h[j]
    OBVIOUS
  <2>1. CASE j <= l
    <3>1. i \in 1..l /\ j \in 1..l /\ i <= l
      BY <2>1
    <3>2. h[i] = g[i] /\ h[j] = g[j]
      BY <1>101, <2>1, <3>1
    <3> QED
      BY <1>4, <3>1, <3>2
  <2>2. CASE i <= l /\ ~(j <= l)
    <3>1. h[i] \in 1..k /\ j - l \in 1..n
      BY <1>9, <1>10, <1>101, <2>2
    <3>2. h[j] = k + (j - l)
      BY <1>101, <2>2
    <3> QED
      BY <3>1, <3>2
  <2>3. CASE ~(i <= l) /\ ~(j <= l)
    <3>1. h[i] = k + (i - l) /\ h[j] = k + (j - l)
      BY <1>101, <2>3
    <3> QED
      BY <3>1
  <2>4. CASE ~(i <= l) /\ j <= l
    BY <2>4
  <2> QED
    BY <2>1, <2>2, <2>3, <2>4
<1>13. \A p \in more : \E i \in 1..(l + n) : h[i] = p
  <2> SUFFICES ASSUME NEW p \in more PROVE \E i \in 1..(l + n) : h[i] = p
    OBVIOUS
  <2>1. CASE p \in places
    <3>1. PICK i \in 1..l : g[i] = p
      BY <1>4, <2>1
    <3>2. i \in 1..(l + n) /\ i <= l
      OBVIOUS
    <3> QED
      BY <1>101, <3>1, <3>2
  <2>2. CASE \E i \in 1..n : p = k + i
    <3>1. PICK i \in 1..n : p = k + i
      BY <2>2
    <3>2. l + i \in 1..(l + n) /\ ~(l + i <= l) /\ (l + i) - l = i
      OBVIOUS
    <3>3. h[l + i] = k + i
      BY <1>101, <3>2
    <3> QED
      BY <3>1, <3>2, <3>3
  <2> QED
    BY <1>8, <2>1, <2>2
<1>14. \A i \in 1..(l + n) : c[h[i]][2] = t[i]
  <2> SUFFICES ASSUME NEW i \in 1..(l + n) PROVE c[h[i]][2] = t[i]
    OBVIOUS
  <2>1. CASE i <= l
    <3>1. h[i] = g[i] /\ i \in 1..l
      BY <1>9, <1>101, <2>1
    <3>2. c[g[i]] = b[g[i]] /\ t[i] = s[i]
      BY <1>3, <1>10, <1>21, <3>1
    <3> QED
      BY <1>4, <3>1, <3>2
  <2>2. CASE ~(i <= l)
    <3>1. PICK d \in 1..n : d = i - l /\ l + d = i
      BY <1>9, <2>2
    <3>2. h[i] = k + d
      BY <1>101, <2>2, <3>1
    <3>3. t[l + d] = r[d] /\ c[k + d] = <<m, r[d]>>
      BY <1>3, <1>21
    <3>4. c[h[i]] = <<m, r[d]>> /\ t[i] = r[d]
      BY ONLY <3>1, <3>2, <3>3
    <3> QED
      BY ONLY <3>4
  <2> QED
    BY <2>1, <2>2
<1>15. Len(t) = l + n
  BY <1>3
<1>16. Goes(c, more, t, h)
  BY ONLY <1>15, <1>11, <1>12, <1>13, <1>14 DEF Goes
<1> QED
  BY <1>16 DEF Reads, more

-----------------------------------------------------------------------------
(* The table of what two sequences have in common *)

Places(a, b) == (0..Len(a)) \X (0..Len(b))

\* One entry, given those it looks at.
Cell(a, b, f, x, y) ==
  IF x = Len(a) \/ y = Len(b) THEN 0
  ELSE IF a[x + 1] = b[y + 1] THEN f[<<x + 1, y + 1>>] + 1
  ELSE IF f[<<x + 1, y>>] >= f[<<x, y + 1>>] THEN f[<<x + 1, y>>] ELSE f[<<x, y + 1>>]

\* f is the table wherever no more than d lines are left.
Fills(a, b, d, f) ==
  /\ f \in [Places(a, b) -> Nat]
  /\ \A x \in 0..Len(a), y \in 0..Len(b) :
       (Len(a) - x) + (Len(b) - y) <= d => f[<<x, y>>] = Cell(a, b, f, x, y)

\* f and h agree wherever fewer than d lines are left.
Agree(f, h, k, l, d) ==
  \A u \in 0..k, v \in 0..l : (k - u) + (l - v) < d => f[<<u, v>>] = h[<<u, v>>]

\* An entry looks only at entries with fewer lines left.
LEMMA CellLooks ==
  ASSUME NEW a, NEW b, NEW k \in Nat, k = Len(a), NEW l \in Nat, l = Len(b),
         NEW x \in 0..k, NEW y \in 0..l, NEW f, NEW h,
         NEW d \in Nat, d = (k - x) + (l - y), Agree(f, h, k, l, d)
  PROVE  Cell(a, b, f, x, y) = Cell(a, b, h, x, y)
<1>1. CASE x = k \/ y = l
  BY <1>1 DEF Cell
<1>2. CASE ~(x = k \/ y = l)
  <2>1. x + 1 \in 0..k /\ y + 1 \in 0..l
    BY <1>2
  <2>2. /\ (k - (x + 1)) + (l - (y + 1)) < (k - x) + (l - y)
        /\ (k - (x + 1)) + (l - y) < (k - x) + (l - y)
        /\ (k - x) + (l - (y + 1)) < (k - x) + (l - y)
    BY <2>1
  <2>3. /\ f[<<x + 1, y + 1>>] = h[<<x + 1, y + 1>>]
        /\ f[<<x + 1, y>>] = h[<<x + 1, y>>]
        /\ f[<<x, y + 1>>] = h[<<x, y + 1>>]
    BY <2>1, <2>2 DEF Agree
  <2> QED
    BY <1>2, <2>3 DEF Cell
<1> QED
  BY <1>1, <1>2

\* An entry is a number.
LEMMA CellNat ==
  ASSUME NEW a, NEW b, NEW k \in Nat, k = Len(a), NEW l \in Nat, l = Len(b),
         NEW x \in 0..k, NEW y \in 0..l, NEW f,
         \A u \in 0..k, v \in 0..l : f[<<u, v>>] \in Nat
  PROVE  Cell(a, b, f, x, y) \in Nat
<1>1. CASE x = k \/ y = l
  BY <1>1 DEF Cell
<1>2. CASE ~(x = k \/ y = l)
  <2>1. x + 1 \in 0..k /\ y + 1 \in 0..l
    BY <1>2
  <2>2. /\ f[<<x + 1, y + 1>>] \in Nat
        /\ f[<<x + 1, y>>] \in Nat
        /\ f[<<x, y + 1>>] \in Nat
    BY <2>1
  <2> QED
    BY <1>2, <2>2 DEF Cell
<1> QED
  BY <1>1, <1>2

\* One more round of filling reaches one line further.
LEMMA FillsMore ==
  ASSUME NEW a, NEW b, NEW k \in Nat, k = Len(a), NEW l \in Nat, l = Len(b), NEW d \in Nat,
         NEW f, Fills(a, b, d, f)
  PROVE  Fills(a, b, d + 1, [p \in Places(a, b) |-> Cell(a, b, f, p[1], p[2])])
<1> DEFINE h == [p \in Places(a, b) |-> Cell(a, b, f, p[1], p[2])]
<1>1. \A u \in 0..k, v \in 0..l : f[<<u, v>>] \in Nat
  BY DEF Fills, Places
<1>2. \A p \in Places(a, b) : \E x \in 0..k, y \in 0..l : p = <<x, y>>
  BY DEF Places
<1>3. \A p \in Places(a, b) : Cell(a, b, f, p[1], p[2]) \in Nat
  <2> SUFFICES ASSUME NEW p \in Places(a, b) PROVE Cell(a, b, f, p[1], p[2]) \in Nat
    OBVIOUS
  <2>1. PICK x \in 0..k, y \in 0..l : p = <<x, y>>
    BY <1>2
  <2> QED
    BY <1>1, <2>1, CellNat
<1>4. h \in [Places(a, b) -> Nat]
  BY <1>3
<1>5. \A x \in 0..k, y \in 0..l : h[<<x, y>>] = Cell(a, b, f, x, y)
  BY DEF Places
<1>6. \A u \in 0..k, v \in 0..l : (k - u) + (l - v) <= d => h[<<u, v>>] = f[<<u, v>>]
  BY <1>5 DEF Fills
<1> HIDE DEF h
<1>7. ASSUME NEW x \in 0..k, NEW y \in 0..l, (k - x) + (l - y) <= d + 1
      PROVE  h[<<x, y>>] = Cell(a, b, h, x, y)
  <2>0. PICK e \in Nat : e = (k - x) + (l - y)
    BY ONLY k \in Nat, l \in Nat, x \in 0..k, y \in 0..l
  <2>1. Agree(h, f, k, l, e)
    <3> SUFFICES ASSUME NEW u \in 0..k, NEW v \in 0..l, (k - u) + (l - v) < e
                 PROVE  h[<<u, v>>] = f[<<u, v>>]
      BY DEF Agree
    <3>1. (k - u) + (l - v) <= d
      BY <1>7, <2>0
    <3> QED
      BY <1>6, <3>1
  <2>2. Cell(a, b, h, x, y) = Cell(a, b, f, x, y)
    BY <2>0, <2>1, CellLooks
  <2> QED
    BY <1>5, <2>2
<1>8. Fills(a, b, d + 1, h)
  BY <1>4, <1>7 DEF Fills
<1> QED
  BY <1>8 DEF h

\* The table can be filled as far as one likes.
LEMMA Filled ==
  ASSUME NEW a, NEW b, NEW k \in Nat, k = Len(a), NEW l \in Nat, l = Len(b), NEW d \in Nat
  PROVE  \E f : Fills(a, b, d, f)
<1> DEFINE U == {n \in Nat : ~ \E f : Fills(a, b, n, f)}
<1>1. Fills(a, b, 0, [p \in Places(a, b) |-> 0])
  <2> DEFINE f == [p \in Places(a, b) |-> 0]
  <2>1. f \in [Places(a, b) -> Nat]
    OBVIOUS
  <2>2. ASSUME NEW x \in 0..k, NEW y \in 0..l, (k - x) + (l - y) <= 0
        PROVE  f[<<x, y>>] = Cell(a, b, f, x, y)
    <3>1. x = k
      BY <2>2
    <3>2. f[<<x, y>>] = 0
      BY DEF Places
    <3> QED
      BY <3>1, <3>2 DEF Cell
  <2> QED
    BY <2>1, <2>2 DEF Fills
<1>2. ASSUME U # {}
      PROVE  FALSE
  <2>1. U \subseteq Nat
    OBVIOUS
  <2>2. PICK n \in U : \A m \in U : n <= m
    BY <1>2, <2>1, MinExists
  <2>3. n \in Nat /\ ~ \E f : Fills(a, b, n, f)
    BY <2>2
  <2>4. n # 0
    BY <1>1, <2>3
  <2>5. n - 1 \in Nat /\ ~(n <= n - 1) /\ (n - 1) + 1 = n
    BY <2>3, <2>4
  <2>6. PICK q \in Nat : q = n - 1 /\ q + 1 = n /\ ~(n <= q)
    BY <2>5
  <2>7. q \notin U
    BY <2>2, <2>6
  <2>8. PICK f : Fills(a, b, q, f)
    BY <2>7
  <2>9. Fills(a, b, q + 1, [p \in Places(a, b) |-> Cell(a, b, f, p[1], p[2])])
    BY <2>8, FillsMore
  <2> QED
    BY <2>3, <2>6, <2>9
<1> QED
  BY <1>2

\* The table is there, and each entry follows from those it looks at.
LEMMA TableIs ==
  ASSUME NEW a, NEW b, NEW k \in Nat, k = Len(a), NEW l \in Nat, l = Len(b)
  PROVE  /\ \A x \in 0..k, y \in 0..l : lcs_table(a, b)[<<x, y>>] \in Nat
         /\ \A x \in 0..k, y \in 0..l :
              lcs_table(a, b)[<<x, y>>] = Cell(a, b, lcs_table(a, b), x, y)
<1> DEFINE Solves(f) == f = [p \in Places(a, b) |-> Cell(a, b, f, p[1], p[2])]
<1>1. lcs_table(a, b) = CHOOSE f : Solves(f)
  BY DEF lcs_table, Places, Cell
<1>2. PICK f : Fills(a, b, k + l, f)
  BY Filled
<1>3. \A p \in Places(a, b) : f[p] = Cell(a, b, f, p[1], p[2])
  <2> SUFFICES ASSUME NEW p \in Places(a, b) PROVE f[p] = Cell(a, b, f, p[1], p[2])
    OBVIOUS
  <2>1. PICK x \in 0..k, y \in 0..l : p = <<x, y>>
    BY DEF Places
  <2>2. (k - x) + (l - y) <= k + l
    OBVIOUS
  <2> QED
    BY <1>2, <2>1, <2>2 DEF Fills
<1>4. Solves(f)
  BY <1>2, <1>3 DEF Fills
<1>5. PICK T : T = lcs_table(a, b)
  OBVIOUS
<1>6. Solves(T)
  BY <1>1, <1>4, <1>5
<1>7. \A x \in 0..k, y \in 0..l : T[<<x, y>>] = Cell(a, b, T, x, y)
  <2> SUFFICES ASSUME NEW x \in 0..k, NEW y \in 0..l PROVE T[<<x, y>>] = Cell(a, b, T, x, y)
    OBVIOUS
  <2>1. <<x, y>> \in Places(a, b)
    BY DEF Places
  <2> QED
    BY <1>6, <2>1
<1>8. \A x \in 0..k, y \in 0..l : T[<<x, y>>] \in Nat
  <2> DEFINE Bad(d) == \E x \in 0..k, y \in 0..l : (k - x) + (l - y) = d /\ T[<<x, y>>] \notin Nat
             U == {d \in Nat : Bad(d)}
  <2>1. ASSUME U # {}
        PROVE  FALSE
    <3>1. PICK d \in U : \A e \in U : d <= e
      BY <2>1, MinExists
    <3>2. PICK x \in 0..k, y \in 0..l : (k - x) + (l - y) = d /\ T[<<x, y>>] \notin Nat
      BY <3>1
    <3>3. \A u \in 0..k, v \in 0..l : (k - u) + (l - v) < d => T[<<u, v>>] \in Nat
      <4> SUFFICES ASSUME NEW u \in 0..k, NEW v \in 0..l, (k - u) + (l - v) < d, T[<<u, v>>] \notin Nat
                   PROVE  FALSE
        OBVIOUS
      <4>1. PICK e \in Nat : e = (k - u) + (l - v)
        BY ONLY k \in Nat, l \in Nat, u \in 0..k, v \in 0..l
      <4>2. e \in U
        BY <4>1
      <4>3. d <= e /\ d \in Nat
        BY <3>1, <4>2
      <4> QED
        BY <4>1, <4>3
    <3>4. PICK h : h = [p \in Places(a, b) |-> IF T[p] \in Nat THEN T[p] ELSE 0]
      OBVIOUS
    <3>5. \A u \in 0..k, v \in 0..l : h[<<u, v>>] = IF T[<<u, v>>] \in Nat THEN T[<<u, v>>] ELSE 0
      BY <3>4 DEF Places
    <3>6. \A u \in 0..k, v \in 0..l : h[<<u, v>>] \in Nat
      <4> SUFFICES ASSUME NEW u \in 0..k, NEW v \in 0..l PROVE h[<<u, v>>] \in Nat
        OBVIOUS
      <4>1. h[<<u, v>>] = IF T[<<u, v>>] \in Nat THEN T[<<u, v>>] ELSE 0
        BY <3>5
      <4> QED
        BY ONLY <4>1
    <3>7. Agree(h, T, k, l, d)
      BY <3>3, <3>5 DEF Agree
    <3>8. Cell(a, b, h, x, y) = Cell(a, b, T, x, y)
      <4>1. d \in Nat /\ d = (k - x) + (l - y)
        BY <3>1, <3>2
      <4> QED
        BY <3>7, <4>1, CellLooks, SMTT(30)
    <3>9. Cell(a, b, h, x, y) \in Nat
      BY <3>6, CellNat
    <3> QED
      BY <1>7, <3>2, <3>8, <3>9
  <2>2. SUFFICES ASSUME NEW x \in 0..k, NEW y \in 0..l, T[<<x, y>>] \notin Nat PROVE FALSE
    OBVIOUS
  <2>3. PICK d \in Nat : d = (k - x) + (l - y)
    BY ONLY k \in Nat, l \in Nat, x \in 0..k, y \in 0..l
  <2>4. d \in U
    BY <2>2, <2>3
  <2> QED
    BY <2>1, <2>4
<1> QED
  BY <1>5, <1>7, <1>8

-----------------------------------------------------------------------------
(* Nothing in common is longer than the table says *)

\* Behind the first x and y lines, g and h name m lines that are the same in both.
Follows(a, b, k, l, x, y, m, g, h) ==
  /\ g \in [1..m -> Nat] /\ h \in [1..m -> Nat]
  /\ \A n \in 1..m : x < g[n] /\ g[n] <= k /\ y < h[n] /\ h[n] <= l /\ a[g[n]] = b[h[n]]
  /\ \A i, j \in 1..m : i < j => g[i] < g[j] /\ h[i] < h[j]

\* Without its first pair.
LEMMA FirstOff ==
  ASSUME NEW a, NEW b, NEW k \in Nat, NEW l \in Nat, NEW x \in 0..k, NEW y \in 0..l,
         NEW m \in Nat, m > 0, NEW g, NEW h, Follows(a, b, k, l, x, y, m, g, h)
  PROVE  \E p, q : Follows(a, b, k, l, x + 1, y + 1, m - 1, p, q)
<1> DEFINE p == [n \in 1..(m - 1) |-> g[n + 1]]
           q == [n \in 1..(m - 1) |-> h[n + 1]]
<1>1. 1 \in 1..m /\ \A n \in 1..(m - 1) : n + 1 \in 1..m /\ 1 < n + 1
  OBVIOUS
<1>2. \A n \in 1..(m - 1) : p[n] = g[n + 1] /\ q[n] = h[n + 1]
  OBVIOUS
<1>3. p \in [1..(m - 1) -> Nat] /\ q \in [1..(m - 1) -> Nat]
  BY <1>1 DEF Follows
<1> HIDE DEF p, q
<1>4. x < g[1] /\ y < h[1] /\ g[1] \in Nat /\ h[1] \in Nat
  BY <1>1 DEF Follows
<1>5. ASSUME NEW n \in 1..(m - 1)
      PROVE  x + 1 < p[n] /\ p[n] <= k /\ y + 1 < q[n] /\ q[n] <= l /\ a[p[n]] = b[q[n]]
  <2>1. PICK e \in 1..m : e = n + 1 /\ 1 < e
    BY <1>1
  <2>2. g[1] < g[e] /\ h[1] < h[e] /\ g[e] \in Nat /\ h[e] \in Nat
    BY <1>1, <2>1 DEF Follows
  <2>3. g[e] <= k /\ h[e] <= l /\ a[g[e]] = b[h[e]]
    BY <2>1 DEF Follows
  <2>4. p[n] = g[e] /\ q[n] = h[e]
    BY <1>2, <2>1
  <2>5. x + 1 < g[e] /\ y + 1 < h[e]
    BY <1>4, <2>2
  <2> QED
    BY <2>3, <2>4, <2>5
<1>6. ASSUME NEW i \in 1..(m - 1), NEW j \in 1..(m - 1), i < j
      PROVE  p[i] < p[j] /\ q[i] < q[j]
  <2>1. PICK c \in 1..m, d \in 1..m : c = i + 1 /\ d = j + 1 /\ c < d
    BY <1>1, <1>6
  <2>2. g[c] < g[d] /\ h[c] < h[d]
    BY <2>1 DEF Follows
  <2> QED
    BY <1>2, <2>1, <2>2
<1>7. Follows(a, b, k, l, x + 1, y + 1, m - 1, p, q)
  BY <1>3, <1>5, <1>6 DEF Follows
<1> QED
  BY <1>7

\* When the first line of one side is not used, it may as well not be there.
LEMMA NotUsed ==
  ASSUME NEW a, NEW b, NEW k \in Nat, NEW l \in Nat, NEW x \in 0..k, NEW y \in 0..l,
         NEW m \in Nat, m > 0, NEW g, NEW h, Follows(a, b, k, l, x, y, m, g, h)
  PROVE  /\ g[1] # x + 1 => Follows(a, b, k, l, x + 1, y, m, g, h)
         /\ h[1] # y + 1 => Follows(a, b, k, l, x, y + 1, m, g, h)
<1>1. 1 \in 1..m /\ g[1] \in Nat /\ h[1] \in Nat /\ x < g[1] /\ y < h[1]
  BY DEF Follows
<1>2. \A n \in 1..m : g[n] \in Nat /\ h[n] \in Nat /\ g[1] <= g[n] /\ h[1] <= h[n]
  <2> SUFFICES ASSUME NEW n \in 1..m
               PROVE  g[n] \in Nat /\ h[n] \in Nat /\ g[1] <= g[n] /\ h[1] <= h[n]
    OBVIOUS
  <2>1. g[n] \in Nat /\ h[n] \in Nat /\ (n = 1 \/ 1 < n)
    BY DEF Follows
  <2>2. 1 < n => g[1] < g[n] /\ h[1] < h[n]
    BY <1>1 DEF Follows
  <2> QED
    BY <1>1, <2>1, <2>2
<1>3. g[1] # x + 1 => \A n \in 1..m : x + 1 < g[n]
  BY <1>1, <1>2
<1>4. h[1] # y + 1 => \A n \in 1..m : y + 1 < h[n]
  BY <1>1, <1>2
<1> QED
  BY <1>3, <1>4 DEF Follows

\* No more lines are in common than the table says.
LEMMA NoLonger ==
  ASSUME NEW a, NEW b, NEW k \in Nat, k = Len(a), NEW l \in Nat, l = Len(b), NEW T,
         \A x \in 0..k, y \in 0..l : T[<<x, y>>] \in Nat,
         \A x \in 0..k, y \in 0..l : T[<<x, y>>] = Cell(a, b, T, x, y),
         NEW x \in 0..k, NEW y \in 0..l, NEW m \in Nat, NEW g, NEW h,
         Follows(a, b, k, l, x, y, m, g, h)
  PROVE  m <= T[<<x, y>>]
<1> DEFINE More(d) == \E u \in 0..k, v \in 0..l, n \in Nat :
             /\ (k - u) + (l - v) = d
             /\ \E p, q : Follows(a, b, k, l, u, v, n, p, q)
             /\ ~(n <= T[<<u, v>>])
           U == {d \in Nat : More(d)}
<1>1. ASSUME U # {}
      PROVE  FALSE
  <2>1. PICK d \in U : \A e \in U : d <= e
    BY <1>1, MinExists
  <2>11. PICK u \in 0..k, v \in 0..l, n \in Nat :
           /\ (k - u) + (l - v) = d
           /\ \E p, q : Follows(a, b, k, l, u, v, n, p, q)
           /\ ~(n <= T[<<u, v>>])
    BY <2>1
  <2>12. PICK p, q : Follows(a, b, k, l, u, v, n, p, q)
    BY <2>11
  <2>2. /\ (k - u) + (l - v) = d
        /\ Follows(a, b, k, l, u, v, n, p, q)
        /\ ~(n <= T[<<u, v>>])
    BY <2>11, <2>12
  <2>3. T[<<u, v>>] \in Nat /\ n > 0
    <3>1. PICK c \in Nat : c = T[<<u, v>>]
      OBVIOUS
    <3>2. ~(n <= c)
      BY <2>2, <3>1
    <3>3. n > 0
      BY ONLY n \in Nat, c \in Nat, <3>2
    <3> QED
      BY <3>1, <3>3
  <2>4. ASSUME NEW s \in 0..k, NEW t \in 0..l, NEW r \in Nat,
               (k - s) + (l - t) < d, \E f, c : Follows(a, b, k, l, s, t, r, f, c)
        PROVE  r <= T[<<s, t>>]
    <3>1. PICK e \in Nat : e = (k - s) + (l - t)
      BY ONLY k \in Nat, l \in Nat, s \in 0..k, t \in 0..l
    <3>2. e \notin U
      <4>1. d \in Nat /\ e < d
        BY <2>1, <2>4, <3>1
      <4> HIDE DEF U
      <4>2. e \in U => d <= e
        BY <2>1
      <4> QED
        BY <3>1, <4>1, <4>2
    <3> QED
      BY <2>4, <3>1, <3>2
  <2>5. 1 \in 1..n /\ u < p[1] /\ p[1] <= k /\ v < q[1] /\ q[1] <= l /\ a[p[1]] = b[q[1]]
        /\ p[1] \in Nat /\ q[1] \in Nat
    BY <2>2, <2>3, SMTT(30) DEF Follows
  <2>6. u + 1 \in 0..k /\ v + 1 \in 0..l /\ ~(u = k) /\ ~(v = l)
    BY <2>5, SMTT(30)
  <2>7. /\ (k - (u + 1)) + (l - (v + 1)) < d
        /\ (k - (u + 1)) + (l - v) < d
        /\ (k - u) + (l - (v + 1)) < d
    BY <2>2, <2>6
  <2>8. T[<<u, v>>] = Cell(a, b, T, u, v)
    BY <2>2
  <2>9. CASE a[u + 1] = b[v + 1]
    <3>1. \E f, c : Follows(a, b, k, l, u + 1, v + 1, n - 1, f, c)
      BY <2>2, <2>3, FirstOff
    <3>2. n - 1 \in Nat
      BY <2>3
    <3>3. n - 1 <= T[<<u + 1, v + 1>>]
      BY <2>4, <2>6, <2>7, <3>1, <3>2
    <3>4. T[<<u, v>>] = T[<<u + 1, v + 1>>] + 1 /\ T[<<u + 1, v + 1>>] \in Nat
      BY <2>6, <2>8, <2>9 DEF Cell
    <3> QED
      BY <2>2, <3>3, <3>4, SMTT(30)
  <2>10. CASE a[u + 1] # b[v + 1]
    <3>1. p[1] # u + 1 \/ q[1] # v + 1
      BY <2>5, <2>10
    <3>2. T[<<u + 1, v>>] \in Nat /\ T[<<u, v + 1>>] \in Nat
      BY <2>6
    <3>3. T[<<u, v>>] >= T[<<u + 1, v>>] /\ T[<<u, v>>] >= T[<<u, v + 1>>]
      BY <2>6, <2>8, <2>10, <3>2 DEF Cell
    <3>4. CASE p[1] # u + 1
      <4>1. Follows(a, b, k, l, u + 1, v, n, p, q)
        BY ONLY k \in Nat, l \in Nat, <2>2, <2>3, <3>4, NotUsed
      <4>2. n <= T[<<u + 1, v>>]
        BY <2>4, <2>6, <2>7, <4>1
      <4>3. PICK c \in Nat, e \in Nat : c = T[<<u, v>>] /\ e = T[<<u + 1, v>>]
        BY <2>3, <3>2
      <4>4. n <= e /\ c >= e /\ ~(n <= c)
        BY <2>2, <3>3, <4>2, <4>3
      <4> QED
        BY ONLY n \in Nat, c \in Nat, e \in Nat, <4>4
    <3>5. CASE q[1] # v + 1
      <4>1. Follows(a, b, k, l, u, v + 1, n, p, q)
        BY ONLY k \in Nat, l \in Nat, <2>2, <2>3, <3>5, NotUsed
      <4>2. n <= T[<<u, v + 1>>]
        BY <2>4, <2>6, <2>7, <4>1
      <4>3. PICK c \in Nat, e \in Nat : c = T[<<u, v>>] /\ e = T[<<u, v + 1>>]
        BY <2>3, <3>2
      <4>4. n <= e /\ c >= e /\ ~(n <= c)
        BY <2>2, <3>3, <4>2, <4>3
      <4> QED
        BY ONLY n \in Nat, c \in Nat, e \in Nat, <4>4
    <3> QED
      BY <3>1, <3>4, <3>5
  <2> QED
    BY <2>9, <2>10
<1>2. SUFFICES ASSUME ~(m <= T[<<x, y>>]) PROVE FALSE
  OBVIOUS
<1>3. PICK d \in Nat : d = (k - x) + (l - y)
  BY ONLY k \in Nat, l \in Nat, x \in 0..k, y \in 0..l
<1>4. d \in U
  BY <1>2, <1>3
<1> QED
  BY <1>1, <1>4

-----------------------------------------------------------------------------
(* The report grows *)

\* The three marks are different.
LEMMA MarksDiffer ==
  /\ {"-", "+", Blank} \subseteq Marks
  /\ "-" # "+" /\ "-" # Blank /\ "+" # Blank
BY Zenon DEF Marks, Blank

\* An empty report reads as nothing.
LEMMA NothingRead ==
  ASSUME NEW L, NEW mark
  PROVE  <<>> \in Reports(L) /\ Reads(<<>>, mark, <<>>) /\ KeptIn(<<>>) = 0
<1>1. <<>> \in Reports(L)
  BY DEF Reports
<1>2. Others(<<>>, mark) = {} /\ {n \in DOMAIN <<>> : <<>>[n][1] = Blank} = {}
  BY DEF Others
<1>3. Goes(<<>>, {}, <<>>, <<>>)
  BY DEF Goes
<1> QED
  BY <1>1, <1>2, <1>3, FS_EmptySet DEF Reads, KeptIn

\* Lines with another mark are not kept ones, and one kept line is one more.
LEMMA KeptSame ==
  ASSUME NEW L, NEW b \in Reports(L), NEW m \in Marks, m # Blank, NEW r \in Seq(L)
  PROVE  KeptIn(b \o Marked(m, r)) = KeptIn(b)
<1>0. PICK c : c = b \o Marked(m, r)
  OBVIOUS
<1>1. PICK k \in Nat, n \in Nat : k = Len(b) /\ n = Len(r)
  BY DEF Reports
<1>2. DOMAIN b = 1..k
  BY <1>1 DEF Reports
<1>3. Behind(c, b, k, m, r, n)
  BY <1>0, <1>1, MarkedBehind
<1>4. DOMAIN c = 1..(k + n) /\ (\A i \in 1..k : c[i] = b[i]) /\ \A i \in 1..n : c[k + i] = <<m, r[i]>>
  BY <1>3 DEF Behind
<1>5. \A i \in 1..(k + n) : i \in 1..k \/ (i - k \in 1..n /\ k + (i - k) = i)
  OBVIOUS
<1>6. \A i \in 1..k : i \in 1..(k + n)
  OBVIOUS
<1>7. \A i \in DOMAIN c : c[i][1] = Blank => i \in DOMAIN b
  <2> SUFFICES ASSUME NEW i \in 1..(k + n), c[i][1] = Blank PROVE i \in 1..k
    BY <1>2, <1>4
  <2>1. CASE i - k \in 1..n /\ k + (i - k) = i
    <3>1. c[i] = <<m, r[i - k]>>
      BY <1>4, <2>1
    <3> QED
      BY <3>1
  <2> QED
    BY <1>5, <2>1
<1>8. \A i \in DOMAIN b : i \in DOMAIN c /\ c[i] = b[i]
  BY <1>2, <1>4, <1>6
<1>9. {i \in DOMAIN c : c[i][1] = Blank} = {i \in DOMAIN b : b[i][1] = Blank}
  BY <1>7, <1>8
<1> QED
  BY <1>0, <1>9 DEF KeptIn

\* A line of both is one more kept.
LEMMA KeptMore ==
  ASSUME NEW L, NEW b \in Reports(L), NEW a \in L
  PROVE  KeptIn(b \o Marked(Blank, <<a>>)) = KeptIn(b) + 1
<1>0. PICK c : c = b \o Marked(Blank, <<a>>)
  OBVIOUS
<1>1. PICK k \in Nat : k = Len(b)
  BY DEF Reports
<1>2. DOMAIN b = 1..k
  BY <1>1 DEF Reports
<1>3. Behind(c, b, k, Blank, <<a>>, 1)
  <2>1. <<a>> \in Seq(L) /\ Len(<<a>>) = 1 /\ Blank \in Marks
    BY MarksDiffer
  <2> QED
    BY <1>0, <1>1, <2>1, MarkedBehind
<1>4. DOMAIN c = 1..(k + 1) /\ (\A i \in 1..k : c[i] = b[i]) /\ c[k + 1][1] = Blank
  BY <1>3 DEF Behind
<1>5. 1..(k + 1) = (1..k) \cup {k + 1} /\ k + 1 \notin 1..k
  OBVIOUS
<1>6. PICK P : P = {i \in DOMAIN b : b[i][1] = Blank}
  OBVIOUS
<1>7. {i \in DOMAIN c : c[i][1] = Blank} = P \cup {k + 1}
  BY <1>2, <1>4, <1>5, <1>6
<1>8. IsFiniteSet(1..k)
  BY FS_Interval
<1>9. IsFiniteSet(P) /\ k + 1 \notin P
  BY <1>2, <1>5, <1>6, <1>8, FS_Subset
<1>10. Cardinality(P \cup {k + 1}) = Cardinality(P) + 1
  BY <1>9, FS_AddElement
<1> QED
  BY <1>0, <1>6, <1>7, <1>10 DEF KeptIn

\* What is left of either side is put behind a report.
LEMMA RestBehind ==
  ASSUME NEW L, NEW b \in Reports(L), NEW p \in Seq(L), NEW q \in Seq(L),
         NEW s \in Seq(L), NEW t \in Seq(L),
         NEW minus \in Marks, NEW plus \in Marks, minus # plus, plus # minus,
         minus # Blank, plus # Blank, Reads(b, plus, s), Reads(b, minus, t)
  PROVE  /\ b \o Marked(minus, p) \o Marked(plus, q) \in Reports(L)
         /\ Reads(b \o Marked(minus, p) \o Marked(plus, q), plus, s \o p)
         /\ Reads(b \o Marked(minus, p) \o Marked(plus, q), minus, t \o q)
         /\ KeptIn(b \o Marked(minus, p) \o Marked(plus, q)) = KeptIn(b)
<1>1. PICK c : c = b \o Marked(minus, p) \o Marked(plus, q)
  OBVIOUS
<1>2. PICK d : d = b \o Marked(minus, p)
  OBVIOUS
<1>3. PICK u, v : u = s \o p /\ v = t \o q
  OBVIOUS
<1>4. u \in Seq(L)
  BY <1>3
<1>5. d \in Reports(L)
  <2>1. PICK k \in Nat, n \in Nat : k = Len(b) /\ n = Len(p)
    BY DEF Reports
  <2> QED
    BY <1>2, <2>1, MarkedBehind
<1>6. Reads(d, plus, u)
  BY <1>2, <1>3, ReadsMore
<1>7. Reads(d, minus, t)
  BY <1>2, ReadsSame
<1>8. c = d \o Marked(plus, q)
  BY <1>1, <1>2
<1>9. c \in Reports(L)
  <2>1. PICK k \in Nat, n \in Nat : k = Len(d) /\ n = Len(q)
    BY <1>5 DEF Reports
  <2> QED
    BY <1>5, <1>8, <2>1, MarkedBehind
<1>10. Reads(c, plus, u)
  BY <1>4, <1>5, <1>6, <1>8, ReadsSame
<1>11. Reads(c, minus, v)
  BY <1>3, <1>5, <1>7, <1>8, ReadsMore
<1>12. KeptIn(b \o Marked(minus, p)) = KeptIn(b)
  BY KeptSame
<1>13. KeptIn(d \o Marked(plus, q)) = KeptIn(d)
  BY <1>5, KeptSame
<1> QED
  BY <1>1, <1>2, <1>3, <1>9, <1>10, <1>11, <1>12, <1>13

\* The same for the marks of the code.
LEMMA RestRead ==
  ASSUME NEW L, NEW b \in Reports(L), NEW p \in Seq(L), NEW q \in Seq(L),
         NEW s \in Seq(L), NEW t \in Seq(L), Reads(b, "+", s), Reads(b, "-", t)
  PROVE  /\ b \o Marked("-", p) \o Marked("+", q) \in Reports(L)
         /\ Reads(b \o Marked("-", p) \o Marked("+", q), "+", s \o p)
         /\ Reads(b \o Marked("-", p) \o Marked("+", q), "-", t \o q)
         /\ KeptIn(b \o Marked("-", p) \o Marked("+", q)) = KeptIn(b)
<1>1. PICK minus \in Marks, plus \in Marks :
        minus = "-" /\ plus = "+" /\ minus # plus /\ plus # minus /\ minus # Blank /\ plus # Blank
  BY MarksDiffer
<1>2. Reads(b, plus, s) /\ Reads(b, minus, t)
  BY <1>1
<1>3. /\ b \o Marked(minus, p) \o Marked(plus, q) \in Reports(L)
      /\ Reads(b \o Marked(minus, p) \o Marked(plus, q), plus, s \o p)
      /\ Reads(b \o Marked(minus, p) \o Marked(plus, q), minus, t \o q)
      /\ KeptIn(b \o Marked(minus, p) \o Marked(plus, q)) = KeptIn(b)
  BY <1>1, <1>2, RestBehind
<1> QED
  BY <1>1, <1>3

\* One more line of a sequence.
LEMMA OneMore ==
  ASSUME NEW L, NEW s \in Seq(L), NEW i \in Nat, i < Len(s)
  PROVE  /\ SubSeq(s, 1, i + 1) = SubSeq(s, 1, i) \o <<s[i + 1]>>
         /\ SubSeq(s, 1, i) \in Seq(L) /\ s[i + 1] \in L
<1>1. SubSeq(s, 1, i) \in Seq(L) /\ s[i + 1] \in L /\ Len(SubSeq(s, 1, i)) = i
      /\ \A n \in 1..i : SubSeq(s, 1, i)[n] = s[n]
  OBVIOUS
<1>2. SubSeq(s, 1, i + 1) \in Seq(L) /\ Len(SubSeq(s, 1, i + 1)) = i + 1
      /\ \A n \in 1..(i + 1) : SubSeq(s, 1, i + 1)[n] = s[n]
  OBVIOUS
<1>3. PICK u, v, w : u = SubSeq(s, 1, i) /\ v = SubSeq(s, 1, i + 1) /\ w = u \o <<s[i + 1]>>
  OBVIOUS
<1>4. w \in Seq(L) /\ Len(w) = i + 1 /\ w[i + 1] = s[i + 1] /\ \A n \in 1..i : w[n] = u[n]
  BY <1>1, <1>3
<1>5. \A n \in 1..(i + 1) : n \in 1..i \/ n = i + 1
  OBVIOUS
<1>6. \A n \in 1..(i + 1) : w[n] = v[n]
  BY <1>1, <1>2, <1>3, <1>4, <1>5
<1>7. v \in Seq(L) /\ Len(v) = i + 1
  BY <1>2, <1>3
<1>8. w = v
  BY ONLY <1>4, <1>6, <1>7
<1> QED
  BY <1>1, <1>3, <1>8

\* Both parts of a sequence.
LEMMA BothParts ==
  ASSUME NEW L, NEW s \in Seq(L), NEW i \in 0..Len(s)
  PROVE  /\ SubSeq(s, 1, i) \o SubSeq(s, i + 1, Len(s)) = s
         /\ SubSeq(s, 1, i) \in Seq(L) /\ SubSeq(s, i + 1, Len(s)) \in Seq(L)
<1>1. SubSeq(s, 1, i) \in Seq(L) /\ Len(SubSeq(s, 1, i)) = i
      /\ \A n \in 1..i : SubSeq(s, 1, i)[n] = s[n]
  OBVIOUS
<1>2. PICK k \in Nat : k = Len(s) /\ i <= k
  OBVIOUS
<1>3. PICK u, v, w : u = SubSeq(s, 1, i) /\ v = SubSeq(s, i + 1, k) /\ w = u \o v
  OBVIOUS
<1>4. v \in Seq(L) /\ Len(v) = k - i /\ \A n \in 1..(k - i) : v[n] = s[i + n]
  BY ONLY <1>2, <1>3, s \in Seq(L), i \in 0..Len(s)
<1>5. u \in Seq(L) /\ Len(u) = i /\ \A n \in 1..i : u[n] = s[n]
  BY <1>1, <1>3
<1>6. w \in Seq(L) /\ Len(w) = i + (k - i) /\ (\A n \in 1..i : w[n] = u[n])
      /\ \A n \in 1..(k - i) : w[i + n] = v[n]
  BY ONLY <1>3, <1>4, <1>5
<1>7. i \in Nat /\ i + (k - i) = k
  BY <1>2
<1>8. \A n \in 1..k : w[n] = s[n]
  <2> SUFFICES ASSUME NEW n \in 1..k PROVE w[n] = s[n]
    OBVIOUS
  <2>1. CASE n \in 1..i
    BY <1>5, <1>6, <2>1
  <2>2. CASE ~(n \in 1..i)
    <3>1. PICK e \in 1..(k - i) : n = i + e
      <4>1. n - i \in 1..(k - i) /\ n = i + (n - i)
        BY <1>7, <2>2
      <4> QED
        BY <4>1
    <3>2. w[i + e] = v[e] /\ v[e] = s[i + e]
      BY <1>4, <1>6
    <3> QED
      BY <3>1, <3>2
  <2> QED
    BY <2>1, <2>2
<1>9. w = s
  <2>1. Len(w) = k /\ Len(s) = k
    BY <1>2, <1>6, <1>7
  <2>2. w \in Seq(L) /\ s \in Seq(L)
    BY <1>6
  <2>3. \A n \in 1..Len(w) : w[n] = s[n]
    BY <1>8, <2>1
  <2> QED
    BY ONLY <2>1, <2>2, <2>3
<1> QED
  BY <1>2, <1>3, <1>4, <1>5, <1>9

-----------------------------------------------------------------------------
(* The invariant of the comparison of two bodies *)

\* The lines of the bodies that can be asked for.
Lines == UNION {UNION {Range(file[i].text) : i \in DOMAIN file} : file \in SymbolFiles}

Bodies == sides.old \in Seq(Lines) /\ sides.new \in Seq(Lines) /\ body \in Reports(Lines)

\* What the table gives for the whole of both is kept or still to be found, and the report
\* reads as what has been passed of either side.
Walking(x, y) ==
  /\ Bodies /\ x \in 0..Len(sides.old) /\ y \in 0..Len(sides.new) /\ at = <<x, y>>
  /\ dp = lcs_table(sides.old, sides.new)
  /\ Reads(body, "+", SubSeq(sides.old, 1, x)) /\ Reads(body, "-", SubSeq(sides.new, 1, y))
  /\ KeptIn(body) + dp[<<x, y>>] = dp[<<0, 0>>]

Shown ==
  /\ Bodies /\ Reads(body, "+", sides.old) /\ Reads(body, "-", sides.new)
  /\ Len(sides.old) <= MaxLines /\ Len(sides.new) <= MaxLines =>
       KeptIn(body) = lcs_table(sides.old, sides.new)[<<0, 0>>]

Aligned ==
  /\ pc = "load" /\ request # All => old \in SymbolFiles /\ new \in SymbolFiles
  /\ pc = "find" => old \in SymbolFiles /\ new \in SymbolFiles
  /\ pc \in {"load", "find"} => body = <<>> /\ at = <<0, 0>>
  /\ pc = "walk" => \E x, y \in Nat : Walking(x, y)
  /\ pc = "shown" => Shown

\* The lines of a body that is found, or none.
LEMMA BodyLines ==
  ASSUME NEW file \in SymbolFiles
  PROVE  to_lines(file) \in Seq(Lines)
<1>1. CASE find_body(file) = 0
  BY <1>1 DEF to_lines
<1>2. CASE find_body(file) # 0
  <2> DEFINE hits == {i \in DOMAIN file : request \in {file[i].name, file[i].raw}}
  <2>1. hits # {} /\ find_body(file) = Min(hits)
    BY <1>2 DEF find_body
  <2>2. hits \subseteq Nat
    BY RequestsAssumption
  <2>3. PICK f \in DOMAIN file : f = find_body(file)
    <3> HIDE DEF hits
    <3>1. Min(hits) \in hits
      BY <2>1, <2>2, MinExists
    <3> QED
      BY <2>1, <3>1 DEF hits
  <2>4. file[f].text \in Seq(Range(file[f].text))
    BY <2>3, RequestsAssumption
  <2>5. Range(file[f].text) \subseteq Lines
    BY <2>3 DEF Lines
  <2>6. file[f].text \in Seq(Lines)
    BY ONLY <2>4, <2>5
  <2> QED
    BY <1>2, <2>3, <2>6 DEF to_lines
<1> QED
  BY <1>1, <1>2

\* The bodies are found, and the walk begins or they are listed.
LEMMA FindStep ==
  ASSUME Aligned, FindBodies
  PROVE  Aligned'
<1>1. PICK o, n : o = to_lines(old) /\ n = to_lines(new)
  OBVIOUS
<1>2. pc = "find" /\ body = <<>> /\ at = <<0, 0>> /\ o \in Seq(Lines) /\ n \in Seq(Lines)
  BY <1>1, BodyLines DEF Aligned, FindBodies
<1>3. sides' = [old |-> o, new |-> n] /\ sides'.old = o /\ sides'.new = n
      /\ at' = at
  BY <1>1 DEF FindBodies
<1>4. PICK k \in Nat, l \in Nat : k = Len(o) /\ l = Len(n)
  BY <1>2
<1>5. CASE pc' = "missing"
  BY <1>5 DEF Aligned
<1>6. CASE /\ pc' = "shown" /\ (k > MaxLines \/ l > MaxLines)
           /\ body' = Marked("-", o) \o Marked("+", n)
  <2>1. /\ <<>> \o Marked("-", o) \o Marked("+", n) \in Reports(Lines)
        /\ Reads(<<>> \o Marked("-", o) \o Marked("+", n), "+", <<>> \o o)
        /\ Reads(<<>> \o Marked("-", o) \o Marked("+", n), "-", <<>> \o n)
    <3>1. <<>> \in Seq(Lines) /\ <<>> \in Reports(Lines) /\ Reads(<<>>, "+", <<>>) /\ Reads(<<>>, "-", <<>>)
      BY NothingRead
    <3> QED
      BY <1>2, <3>1, RestRead
  <2>2. <<>> \o o = o /\ <<>> \o n = n
    BY <1>2
  <2>3. <<>> \o Marked("-", o) = Marked("-", o)
    <3>1. PICK c : c = <<>> \o Marked("-", o)
      OBVIOUS
    <3>2. Marked("-", o) \in Seq({"-"} \X Lines)
      <4>1. DOMAIN o = 1..k /\ \A i \in 1..k : <<"-", o[i]>> \in {"-"} \X Lines
        BY <1>2, <1>4
      <4>2. Marked("-", o) \in [1..k -> {"-"} \X Lines]
        BY <4>1 DEF Marked
      <4> QED
        BY <4>2
    <3> QED
      BY <3>2
  <2>4. body' \in Reports(Lines) /\ Reads(body', "+", o) /\ Reads(body', "-", n)
    BY <1>6, <2>1, <2>2, <2>3
  <2>5. ~(Len(sides'.old) <= MaxLines /\ Len(sides'.new) <= MaxLines)
    BY <1>3, <1>4, <1>6, RequestsAssumption
  <2>6. Shown'
    BY <1>2, <1>3, <2>4, <2>5 DEF Shown, Bodies
  <2> QED
    BY <1>6, <2>6 DEF Aligned
<1>7. CASE pc' = "walk" /\ dp' = lcs_table(o, n) /\ body' = body
  <2>1. SubSeq(o, 1, 0) = <<>> /\ SubSeq(n, 1, 0) = <<>>
    BY <1>2
  <2>2. body' \in Reports(Lines) /\ Reads(body', "+", <<>>) /\ Reads(body', "-", <<>>)
        /\ KeptIn(body') = 0
    BY <1>2, <1>7, NothingRead
  <2>3. dp'[<<0, 0>>] \in Nat
    <3>1. 0 \in 0..k /\ 0 \in 0..l
      OBVIOUS
    <3>2. lcs_table(o, n)[<<0, 0>>] \in Nat
      BY <1>4, <3>1, TableIs
    <3> QED
      BY <1>7, <3>2
  <2>4. KeptIn(body') + dp'[<<0, 0>>] = dp'[<<0, 0>>]
    BY <2>2, <2>3
  <2>5. 0 \in 0..Len(o) /\ 0 \in 0..Len(n) /\ at' = <<0, 0>>
    BY <1>2, <1>3, <1>4
  <2>6. Walking(0, 0)'
    BY <1>2, <1>3, <1>7, <2>1, <2>2, <2>4, <2>5 DEF Walking, Bodies
  <2>8. 0 \in Nat /\ pc' # "load" /\ pc' # "find" /\ pc' # "shown"
    BY <1>7
  <2> QED
    BY <1>7, <2>6, <2>8 DEF Aligned
<1> QED
  BY <1>1, <1>3, <1>4, <1>5, <1>6, <1>7 DEF FindBodies

\* The kept lines are counted.
LEMMA KeptNat ==
  ASSUME NEW L, NEW b \in Reports(L)
  PROVE  KeptIn(b) \in Nat
<1>1. PICK k \in Nat : DOMAIN b = 1..k
  BY DEF Reports
<1>2. IsFiniteSet(1..k)
  BY FS_Interval
<1>3. IsFiniteSet({n \in DOMAIN b : b[n][1] = Blank})
  BY <1>1, <1>2, FS_Subset
<1> QED
  BY <1>3, FS_CardinalityType DEF KeptIn

\* One line at the end.
LEMMA AppendMarked ==
  ASSUME NEW L, NEW b \in Reports(L), NEW m, NEW a
  PROVE  Append(b, <<m, a>>) = b \o Marked(m, <<a>>)
<1>1. PICK e : e = <<m, a>>
  OBVIOUS
<1>2. Marked(m, <<a>>) = <<e>>
  BY <1>1 DEF Marked
<1>3. PICK M : M = Marks \X L /\ b \in Seq(M)
  BY DEF Reports
<1>4. Append(b, e) = b \o <<e>>
  BY ONLY <1>3
<1> QED
  BY <1>1, <1>2, <1>4

\* Lines are put behind a report.
LEMMA LinesBehind ==
  ASSUME NEW L, NEW b \in Reports(L), NEW m \in Marks, NEW r \in Seq(L)
  PROVE  b \o Marked(m, r) \in Reports(L)
<1>1. PICK k \in Nat, n \in Nat : k = Len(b) /\ n = Len(r)
  BY DEF Reports
<1> QED
  BY <1>1, MarkedBehind

\* Lines of both sides, of the old one, of the new one.
LEMMA LineOfBoth ==
  ASSUME NEW L, NEW b \in Reports(L), NEW r \in Seq(L), NEW s \in Seq(L), NEW t \in Seq(L),
         Reads(b, "+", s), Reads(b, "-", t)
  PROVE  /\ b \o Marked(Blank, r) \in Reports(L)
         /\ Reads(b \o Marked(Blank, r), "+", s \o r)
         /\ Reads(b \o Marked(Blank, r), "-", t \o r)
<1>1. PICK blank \in Marks, minus \in Marks, plus \in Marks :
        /\ blank = Blank /\ minus = "-" /\ plus = "+" /\ minus # plus /\ plus # minus
        /\ plus # blank /\ minus # blank /\ plus # Blank /\ minus # Blank
  BY MarksDiffer
<1>2. PICK c, u, v : c = b \o Marked(blank, r) /\ u = s \o r /\ v = t \o r
  OBVIOUS
<1>3. Reads(b, plus, s) /\ Reads(b, minus, t)
  BY <1>1
<1>4. Reads(c, plus, u)
  BY <1>1, <1>2, <1>3, ReadsMore
<1>5. Reads(c, minus, v)
  BY <1>1, <1>2, <1>3, ReadsMore
<1>6. c \in Reports(L)
  BY <1>2, LinesBehind
<1> QED
  BY <1>1, <1>2, <1>4, <1>5, <1>6

\* The old side is read further, the new one is not.
LEMMA LineOfOld ==
  ASSUME NEW L, NEW b \in Reports(L), NEW r \in Seq(L), NEW s \in Seq(L), NEW t \in Seq(L),
         Reads(b, "+", s), Reads(b, "-", t)
  PROVE  /\ b \o Marked("-", r) \in Reports(L)
         /\ Reads(b \o Marked("-", r), "+", s \o r)
         /\ Reads(b \o Marked("-", r), "-", t)
         /\ KeptIn(b \o Marked("-", r)) = KeptIn(b)
<1>1. PICK blank \in Marks, minus \in Marks, plus \in Marks :
        /\ blank = Blank /\ minus = "-" /\ plus = "+" /\ minus # plus /\ plus # minus
        /\ plus # blank /\ minus # blank /\ plus # Blank /\ minus # Blank
  BY MarksDiffer
<1>11. minus # plus /\ plus # minus /\ plus # Blank /\ minus # Blank
  BY <1>1
<1>2. PICK c, u : c = b \o Marked(minus, r) /\ u = s \o r
  OBVIOUS
<1>3. Reads(b, plus, s) /\ Reads(b, minus, t)
  BY <1>1
<1>4. Reads(c, plus, u)
  BY <1>11, <1>2, <1>3, ReadsMore
<1>5. Reads(c, minus, t)
  BY <1>11, <1>2, <1>3, ReadsSame
<1>6. c \in Reports(L)
  BY <1>2, LinesBehind
<1>7. KeptIn(b \o Marked(minus, r)) = KeptIn(b)
  BY <1>1, KeptSame
<1> QED
  BY <1>1, <1>2, <1>4, <1>5, <1>6, <1>7

\* The new side is read further, the old one is not.
LEMMA LineOfNew ==
  ASSUME NEW L, NEW b \in Reports(L), NEW r \in Seq(L), NEW s \in Seq(L), NEW t \in Seq(L),
         Reads(b, "+", s), Reads(b, "-", t)
  PROVE  /\ b \o Marked("+", r) \in Reports(L)
         /\ Reads(b \o Marked("+", r), "+", s)
         /\ Reads(b \o Marked("+", r), "-", t \o r)
         /\ KeptIn(b \o Marked("+", r)) = KeptIn(b)
<1>1. PICK blank \in Marks, minus \in Marks, plus \in Marks :
        /\ blank = Blank /\ minus = "-" /\ plus = "+" /\ minus # plus /\ plus # minus
        /\ plus # blank /\ minus # blank /\ plus # Blank /\ minus # Blank
  BY MarksDiffer
<1>11. minus # plus /\ plus # minus /\ plus # Blank /\ minus # Blank
  BY <1>1
<1>2. PICK c, v : c = b \o Marked(plus, r) /\ v = t \o r
  OBVIOUS
<1>3. Reads(b, plus, s) /\ Reads(b, minus, t)
  BY <1>1
<1>4. Reads(c, plus, s)
  BY <1>11, <1>2, <1>3, ReadsSame
<1>5. Reads(c, minus, v)
  BY <1>11, <1>2, <1>3, ReadsMore
<1>6. c \in Reports(L)
  BY <1>2, LinesBehind
<1>7. KeptIn(b \o Marked(plus, r)) = KeptIn(b)
  BY <1>1, KeptSame
<1> QED
  BY <1>1, <1>2, <1>4, <1>5, <1>6, <1>7

\* A line of both bodies.
LEMMA WalkBoth ==
  ASSUME NEW x \in Nat, NEW y \in Nat, Walking(x, y), pc = "walk", Walk,
         sides.old[x + 1] = sides.new[y + 1]
  PROVE  Walking(x + 1, y + 1)'
<1>1. PICK o, n : o = sides.old /\ n = sides.new
  OBVIOUS
<1>2. PICK k \in Nat, l \in Nat : k = Len(o) /\ l = Len(n)
  BY <1>1 DEF Walking, Bodies
<1>3. at[1] = x /\ at[2] = y /\ o \in Seq(Lines) /\ n \in Seq(Lines) /\ body \in Reports(Lines)
      /\ dp = lcs_table(o, n) /\ x < k /\ y < l
  BY <1>1, <1>2 DEF Walking, Bodies, Walk
<1>4. PICK a : a = o[x + 1] /\ a = n[y + 1]
  BY <1>1
<1>5. at' = <<x + 1, y + 1>> /\ body' = Append(body, <<Blank, a>>) /\ sides' = sides /\ dp' = dp
  BY <1>1, <1>3, <1>4 DEF Walk
<1>6. /\ SubSeq(o, 1, x + 1) = SubSeq(o, 1, x) \o <<a>> /\ SubSeq(o, 1, x) \in Seq(Lines)
      /\ SubSeq(n, 1, y + 1) = SubSeq(n, 1, y) \o <<a>> /\ SubSeq(n, 1, y) \in Seq(Lines)
      /\ a \in Lines
  <2>1. /\ SubSeq(o, 1, x + 1) = SubSeq(o, 1, x) \o <<o[x + 1]>> /\ SubSeq(o, 1, x) \in Seq(Lines)
        /\ o[x + 1] \in Lines
    BY <1>2, <1>3, OneMore
  <2>2. /\ SubSeq(n, 1, y + 1) = SubSeq(n, 1, y) \o <<n[y + 1]>> /\ SubSeq(n, 1, y) \in Seq(Lines)
    BY <1>2, <1>3, OneMore
  <2> QED
    BY <1>4, <2>1, <2>2
<1>7. body' = body \o Marked(Blank, <<a>>)
  BY <1>3, <1>5, AppendMarked
<1>8. /\ body' \in Reports(Lines)
      /\ Reads(body', "+", SubSeq(o, 1, x + 1)) /\ Reads(body', "-", SubSeq(n, 1, y + 1))
  <2>1. Reads(body, "+", SubSeq(o, 1, x)) /\ Reads(body, "-", SubSeq(n, 1, y))
    BY <1>1 DEF Walking
  <2>2. PICK r \in Seq(Lines) : r = <<a>>
    <3>1. a \in Lines
      BY <1>6
    <3>2. <<a>> \in Seq(Lines)
      BY ONLY <3>1
    <3> QED
      BY <3>2
  <2> QED
    BY <1>3, <1>6, <1>7, <2>1, <2>2, LineOfBoth
<1>9. KeptIn(body') = KeptIn(body) + 1
  BY <1>3, <1>6, <1>7, KeptMore
<1>10. /\ x \in 0..k /\ y \in 0..l /\ x + 1 \in 0..k /\ y + 1 \in 0..l /\ ~(x = k) /\ ~(y = l)
  BY <1>3
<1>11. dp[<<x, y>>] = dp[<<x + 1, y + 1>>] + 1
  <2>1. dp[<<x, y>>] = Cell(o, n, dp, x, y)
    BY <1>2, <1>3, <1>10, TableIs
  <2> QED
    BY <1>2, <1>4, <1>10, <2>1 DEF Cell
<1>12. dp[<<x + 1, y + 1>>] \in Nat
  BY <1>2, <1>3, <1>10, TableIs
<1>13. KeptIn(body) + dp[<<x, y>>] = dp[<<0, 0>>] /\ KeptIn(body) \in Nat
  <2>1. KeptIn(body) \in Nat
    BY <1>3, KeptNat
  <2> QED
    BY <2>1 DEF Walking
<1>14. KeptIn(body') + dp[<<x + 1, y + 1>>] = dp[<<0, 0>>]
  BY ONLY <1>9, <1>11, <1>12, <1>13
<1>15. x + 1 \in 0..Len(o) /\ y + 1 \in 0..Len(n) /\ sides'.old = o /\ sides'.new = n
  BY <1>1, <1>2, <1>5, <1>10
<1> QED
  BY <1>3, <1>5, <1>8, <1>14, <1>15 DEF Walking, Bodies

\* A line of one body only.
LEMMA WalkOld ==
  ASSUME NEW x \in Nat, NEW y \in Nat, Walking(x, y), pc = "walk", Walk,
         sides.old[x + 1] # sides.new[y + 1], old_goes(x, y)
  PROVE  Walking(x + 1, y)'
<1>1. PICK o, n : o = sides.old /\ n = sides.new
  OBVIOUS
<1>2. PICK k \in Nat, l \in Nat : k = Len(o) /\ l = Len(n)
  BY <1>1 DEF Walking, Bodies
<1>3. at[1] = x /\ at[2] = y /\ o \in Seq(Lines) /\ n \in Seq(Lines) /\ body \in Reports(Lines)
      /\ dp = lcs_table(o, n) /\ x < k /\ y < l
  BY <1>1, <1>2 DEF Walking, Bodies, Walk
<1>4. PICK a : a = o[x + 1]
  OBVIOUS
<1>5. at' = <<x + 1, y>> /\ body' = Append(body, <<"-", a>>) /\ sides' = sides /\ dp' = dp
  BY <1>1, <1>3, <1>4 DEF Walk
<1>6. /\ SubSeq(o, 1, x + 1) = SubSeq(o, 1, x) \o <<a>> /\ SubSeq(o, 1, x) \in Seq(Lines)
      /\ SubSeq(n, 1, y) \in Seq(Lines) /\ a \in Lines
  BY <1>2, <1>3, <1>4, OneMore
<1>7. body' = body \o Marked("-", <<a>>)
  BY <1>3, <1>5, AppendMarked
<1>8. /\ body' \in Reports(Lines) /\ KeptIn(body') = KeptIn(body)
      /\ Reads(body', "+", SubSeq(o, 1, x + 1)) /\ Reads(body', "-", SubSeq(n, 1, y))
  <2>1. Reads(body, "+", SubSeq(o, 1, x)) /\ Reads(body, "-", SubSeq(n, 1, y))
    BY <1>1 DEF Walking
  <2>2. PICK r \in Seq(Lines) : r = <<a>>
    <3>1. a \in Lines
      BY <1>6
    <3>2. <<a>> \in Seq(Lines)
      BY ONLY <3>1
    <3> QED
      BY <3>2
  <2> QED
    BY <1>3, <1>6, <1>7, <2>1, <2>2, LineOfOld
<1>10. /\ x \in 0..k /\ y \in 0..l /\ x + 1 \in 0..k /\ y + 1 \in 0..l /\ ~(x = k) /\ ~(y = l)
  BY <1>3
<1>11. dp[<<x, y>>] = dp[<<x + 1, y>>]
  <2>1. dp[<<x, y>>] = Cell(o, n, dp, x, y)
    BY <1>2, <1>3, <1>10, TableIs
  <2> QED
    BY <1>1, <1>2, <1>10, <2>1 DEF Cell, old_goes
<1>14. KeptIn(body') + dp[<<x + 1, y>>] = dp[<<0, 0>>]
  BY <1>8, <1>11 DEF Walking
<1>15. x + 1 \in 0..Len(o) /\ y \in 0..Len(n) /\ sides'.old = o /\ sides'.new = n
  BY <1>1, <1>2, <1>5, <1>10
<1> QED
  BY <1>3, <1>5, <1>8, <1>14, <1>15 DEF Walking, Bodies

\* A line of the new body only.
LEMMA WalkNew ==
  ASSUME NEW x \in Nat, NEW y \in Nat, Walking(x, y), pc = "walk", Walk,
         sides.old[x + 1] # sides.new[y + 1], ~old_goes(x, y)
  PROVE  Walking(x, y + 1)'
<1>1. PICK o, n : o = sides.old /\ n = sides.new
  OBVIOUS
<1>2. PICK k \in Nat, l \in Nat : k = Len(o) /\ l = Len(n)
  BY <1>1 DEF Walking, Bodies
<1>3. at[1] = x /\ at[2] = y /\ o \in Seq(Lines) /\ n \in Seq(Lines) /\ body \in Reports(Lines)
      /\ dp = lcs_table(o, n) /\ x < k /\ y < l
  BY <1>1, <1>2 DEF Walking, Bodies, Walk
<1>4. PICK a : a = n[y + 1]
  OBVIOUS
<1>5. at' = <<x, y + 1>> /\ body' = Append(body, <<"+", a>>) /\ sides' = sides /\ dp' = dp
  BY <1>1, <1>3, <1>4 DEF Walk
<1>6. /\ SubSeq(n, 1, y + 1) = SubSeq(n, 1, y) \o <<a>> /\ SubSeq(n, 1, y) \in Seq(Lines)
      /\ SubSeq(o, 1, x) \in Seq(Lines) /\ a \in Lines
  BY <1>2, <1>3, <1>4, OneMore
<1>7. body' = body \o Marked("+", <<a>>)
  BY <1>3, <1>5, AppendMarked
<1>8. /\ body' \in Reports(Lines) /\ KeptIn(body') = KeptIn(body)
      /\ Reads(body', "+", SubSeq(o, 1, x)) /\ Reads(body', "-", SubSeq(n, 1, y + 1))
  <2>1. Reads(body, "+", SubSeq(o, 1, x)) /\ Reads(body, "-", SubSeq(n, 1, y))
    BY <1>1 DEF Walking
  <2>2. PICK r \in Seq(Lines) : r = <<a>>
    <3>1. a \in Lines
      BY <1>6
    <3>2. <<a>> \in Seq(Lines)
      BY ONLY <3>1
    <3> QED
      BY <3>2
  <2> QED
    BY <1>3, <1>6, <1>7, <2>1, <2>2, LineOfNew
<1>10. /\ x \in 0..k /\ y \in 0..l /\ x + 1 \in 0..k /\ y + 1 \in 0..l /\ ~(x = k) /\ ~(y = l)
  BY <1>3
<1>11. dp[<<x, y>>] = dp[<<x, y + 1>>]
  <2>1. dp[<<x, y>>] = Cell(o, n, dp, x, y)
    BY <1>2, <1>3, <1>10, TableIs
  <2> QED
    BY <1>1, <1>2, <1>10, <2>1 DEF Cell, old_goes
<1>14. KeptIn(body') + dp[<<x, y + 1>>] = dp[<<0, 0>>]
  BY <1>8, <1>11 DEF Walking
<1>15. x \in 0..Len(o) /\ y + 1 \in 0..Len(n) /\ sides'.old = o /\ sides'.new = n
  BY <1>1, <1>2, <1>5, <1>10
<1> QED
  BY <1>3, <1>5, <1>8, <1>14, <1>15 DEF Walking, Bodies

\* One turn of the walk.
LEMMA WalkStep ==
  ASSUME Aligned, Walk
  PROVE  Aligned'
<1>1. pc = "walk" /\ pc' = pc
  BY DEF Walk
<1>2. PICK x \in Nat, y \in Nat : Walking(x, y)
  BY <1>1 DEF Aligned
<1>3. \E u, v \in Nat : Walking(u, v)'
  <2>1. x + 1 \in Nat /\ y + 1 \in Nat
    OBVIOUS
  <2> QED
    BY <1>1, <1>2, <2>1, WalkBoth, WalkOld, WalkNew
<1>4. pc' = "walk"
  BY <1>1
<1> QED
  BY <1>3, <1>4 DEF Aligned

\* What is left of either body closes the report.
LEMMA RestStep ==
  ASSUME Aligned, WalkRest
  PROVE  Aligned'
<1>1. PICK x \in Nat, y \in Nat : Walking(x, y)
  BY DEF Aligned, WalkRest
<1>2. PICK o, n : o = sides.old /\ n = sides.new
  OBVIOUS
<1>3. PICK k \in Nat, l \in Nat : k = Len(o) /\ l = Len(n)
  BY <1>1, <1>2 DEF Walking, Bodies
<1>4. at[1] = x /\ at[2] = y /\ o \in Seq(Lines) /\ n \in Seq(Lines) /\ body \in Reports(Lines)
      /\ dp = lcs_table(o, n) /\ x \in 0..k /\ y \in 0..l
  BY <1>1, <1>2, <1>3 DEF Walking, Bodies
<1>5. /\ pc' = "shown" /\ sides' = sides
      /\ (x = k \/ y = l)
      /\ body' = body \o Marked("-", SubSeq(o, x + 1, Len(o))) \o Marked("+", SubSeq(n, y + 1, Len(n)))
  BY <1>2, <1>3, <1>4 DEF WalkRest
<1>6. PICK s, p, t, q : /\ s = SubSeq(o, 1, x) /\ p = SubSeq(o, x + 1, Len(o))
                        /\ t = SubSeq(n, 1, y) /\ q = SubSeq(n, y + 1, Len(n))
  OBVIOUS
<1>7. /\ s \in Seq(Lines) /\ p \in Seq(Lines) /\ s \o p = o
      /\ t \in Seq(Lines) /\ q \in Seq(Lines) /\ t \o q = n
  BY <1>3, <1>4, <1>6, BothParts
<1>8. Reads(body, "+", s) /\ Reads(body, "-", t)
  BY <1>1, <1>2, <1>6 DEF Walking
<1>9. /\ body \o Marked("-", p) \o Marked("+", q) \in Reports(Lines)
      /\ Reads(body \o Marked("-", p) \o Marked("+", q), "+", s \o p)
      /\ Reads(body \o Marked("-", p) \o Marked("+", q), "-", t \o q)
      /\ KeptIn(body \o Marked("-", p) \o Marked("+", q)) = KeptIn(body)
  <2>1. PICK L, b : L = Lines /\ b = body
    OBVIOUS
  <2>2. /\ b \in Reports(L) /\ p \in Seq(L) /\ q \in Seq(L) /\ s \in Seq(L) /\ t \in Seq(L)
        /\ Reads(b, "+", s) /\ Reads(b, "-", t)
    BY <1>4, <1>7, <1>8, <2>1
  <2>3. /\ b \o Marked("-", p) \o Marked("+", q) \in Reports(L)
        /\ Reads(b \o Marked("-", p) \o Marked("+", q), "+", s \o p)
        /\ Reads(b \o Marked("-", p) \o Marked("+", q), "-", t \o q)
        /\ KeptIn(b \o Marked("-", p) \o Marked("+", q)) = KeptIn(b)
    BY ONLY <2>2, RestRead
  <2> QED
    BY ONLY <2>1, <2>3
<1>10. /\ body' \in Reports(Lines) /\ Reads(body', "+", o) /\ Reads(body', "-", n)
       /\ KeptIn(body') = KeptIn(body)
  BY <1>5, <1>6, <1>7, <1>9
<1>11. dp[<<x, y>>] = 0
  <2>1. dp[<<x, y>>] = Cell(o, n, dp, x, y)
    BY <1>3, <1>4, TableIs
  <2> QED
    BY <1>3, <1>5, <2>1 DEF Cell
<1>12. KeptIn(body') = dp[<<0, 0>>]
  <2>1. KeptIn(body) \in Nat
    BY <1>4, KeptNat
  <2> QED
    BY <1>1, <1>10, <1>11, <2>1 DEF Walking
<1>13. Shown'
  BY <1>2, <1>4, <1>5, <1>10, <1>12 DEF Shown, Bodies
<1> QED
  BY <1>5, <1>13 DEF Aligned

\* At every moment the report reads as what has been passed of both bodies, and what is kept
\* together with what the table still promises is what the table gives for the whole
\* (cli.cpp:1190-1229).
THEOREM AlignedAlways == RunSpec => []Aligned
<1>1. RunInit => Aligned
  BY DEF RunInit, Aligned
<1>2. Aligned /\ [RunNext]_<<vars, symbolVars>> => Aligned'
  <2> SUFFICES ASSUME Aligned, [RunNext]_<<vars, symbolVars>>
               PROVE  Aligned'
    OBVIOUS
  <2>1. CASE LoadOther
    BY <2>1 DEF Aligned, LoadOther, symbolVars
  <2>2. CASE FindBodies
    BY <2>2, FindStep
  <2>3. CASE Walk
    BY <2>3, WalkStep
  <2>4. CASE WalkRest
    BY <2>4, RestStep
  <2>5. CASE Compare \/ Pair \/ PairNone \/ Report
    BY <2>5 DEF Compare, Pair, PairNone, Report, Aligned
  <2>6. CASE UNCHANGED <<vars, symbolVars>>
    <3>1. UNCHANGED <<old, new, pc, request, sides, dp, at, body>>
      BY <2>6 DEF vars, symbolVars
    <3>2. \A x, y : Walking(x, y)' <=> Walking(x, y)
      BY <3>1 DEF Walking, Bodies
    <3>3. Shown' <=> Shown
      BY <3>1 DEF Shown, Bodies
    <3> QED
      BY <3>1, <3>2, <3>3 DEF Aligned
  <2> QED
    BY <2>1, <2>2, <2>3, <2>4, <2>5, <2>6 DEF RunNext
<1> QED
  BY <1>1, <1>2, PTL DEF RunSpec

\* DiffShortest: without what was added the report of a symbol reads as its old body,
\* without what was removed as the new one, and of two bodies that are aligned no larger
\* part could have been kept (cli.cpp:1190-1229).
THEOREM DiffShortestAlways == RunSpec => []DiffShortest
<1>1. Aligned => DiffShortest
  <2> SUFFICES ASSUME Aligned, pc = "shown"
               PROVE  /\ Without("+") = sides.old /\ Without("-") = sides.new
                      /\ Len(sides.old) <= MaxLines /\ Len(sides.new) <= MaxLines =>
                           \A s \in SUBSET (DOMAIN sides.old), t \in SUBSET (DOMAIN sides.new) :
                               Cardinality(s) = Kept + 1 /\ Cardinality(t) = Kept + 1 =>
                                   Picked(sides.old, s) # Picked(sides.new, t)
    BY DEF DiffShortest
  <2>1. Shown /\ sides.old \in Seq(Lines) /\ sides.new \in Seq(Lines) /\ body \in Reports(Lines)
    BY DEF Aligned, Shown, Bodies
  <2>2. Without("+") = sides.old
    BY <2>1, ReadsWithout DEF Shown
  <2>3. Without("-") = sides.new
    BY <2>1, ReadsWithout DEF Shown
  <2>4. ASSUME Len(sides.old) <= MaxLines, Len(sides.new) <= MaxLines,
               NEW s \in SUBSET (DOMAIN sides.old), NEW t \in SUBSET (DOMAIN sides.new),
               Cardinality(s) = Kept + 1, Cardinality(t) = Kept + 1,
               Picked(sides.old, s) = Picked(sides.new, t)
        PROVE  FALSE
    <3>1. PICK o, n : o = sides.old /\ n = sides.new /\ o \in Seq(Lines) /\ n \in Seq(Lines)
      BY <2>1
    <3>2. PICK k \in Nat, l \in Nat : k = Len(o) /\ l = Len(n)
      BY <3>1
    <3>3. PICK T : T = lcs_table(o, n)
      OBVIOUS
    <3>4. PICK m \in Nat : m = Kept + 1 /\ Kept = T[<<0, 0>>] /\ T[<<0, 0>>] \in Nat
      <4>1. 0 \in 0..k /\ 0 \in 0..l
        OBVIOUS
      <4>2. T[<<0, 0>>] \in Nat
        BY <3>2, <3>3, <4>1, TableIs
      <4>3. Kept = T[<<0, 0>>]
        BY <2>1, <2>4, <3>1, <3>3 DEF Shown, Kept, KeptIn
      <4> QED
        BY <4>2, <4>3
    <3>5. s \subseteq 1..k /\ t \subseteq 1..l /\ Cardinality(s) = m /\ Cardinality(t) = m
      BY <2>4, <3>1, <3>2, <3>4
    <3>6. s \subseteq Nat /\ t \subseteq Nat /\ IsFiniteSet(s) /\ IsFiniteSet(t)
      <4>1. IsFiniteSet(1..k) /\ IsFiniteSet(1..l)
        BY FS_Interval
      <4> QED
        BY <3>5, <4>1, FS_Subset
    <3>7. /\ \A e \in 1..m : Nth(s, e) \in s
          /\ \A i, j \in 1..m : i < j => Nth(s, i) < Nth(s, j)
      BY <3>5, <3>6, PlacesGoUp
    <3>8. /\ \A e \in 1..m : Nth(t, e) \in t
          /\ \A i, j \in 1..m : i < j => Nth(t, i) < Nth(t, j)
      BY <3>5, <3>6, PlacesGoUp
    <3>9. PICK g, h : g = [e \in 1..m |-> Nth(s, e)] /\ h = [e \in 1..m |-> Nth(t, e)]
      OBVIOUS
    <3>10. \A e \in 1..m : o[Nth(s, e)] = n[Nth(t, e)]
      <4>1. [e \in 1..m |-> o[Nth(s, e)]] = [e \in 1..m |-> n[Nth(t, e)]]
        BY <2>4, <3>1, <3>5 DEF Picked
      <4> QED
        BY <4>1
    <3>11. Follows(o, n, k, l, 0, 0, m, g, h)
      <4>1. \A e \in 1..m : g[e] \in 1..k /\ h[e] \in 1..l /\ o[g[e]] = n[h[e]]
        BY <3>5, <3>7, <3>8, <3>9, <3>10
      <4>2. \A i, j \in 1..m : i < j => g[i] < g[j] /\ h[i] < h[j]
        BY <3>7, <3>8, <3>9
      <4>3. g \in [1..m -> Nat] /\ h \in [1..m -> Nat]
        BY <3>5, <3>7, <3>8, <3>9
      <4>4. \A e \in 1..m : 0 < g[e] /\ g[e] <= k /\ 0 < h[e] /\ h[e] <= l /\ o[g[e]] = n[h[e]]
        BY <4>1
      <4> QED
        BY <4>2, <4>3, <4>4 DEF Follows
    <3>12. m <= T[<<0, 0>>]
      <4>1. 0 \in 0..k /\ 0 \in 0..l
        OBVIOUS
      <4>2. /\ \A x \in 0..k, y \in 0..l : T[<<x, y>>] \in Nat
            /\ \A x \in 0..k, y \in 0..l : T[<<x, y>>] = Cell(o, n, T, x, y)
        BY <3>2, <3>3, TableIs
      <4> QED
        BY <3>2, <3>11, <4>1, <4>2, NoLonger
    <3> QED
      BY <3>4, <3>12
  <2> QED
    BY <2>2, <2>3, <2>4
<1> QED
  BY <1>1, AlignedAlways, PTL
=============================================================================
