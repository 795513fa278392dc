---------------------------- MODULE CodeViewsProofs ----------------------------
(***************************************************************************)
(* Proofs about the views, for any code, any size of the file and of a     *)
(* word, and any sections as the linker lays them out: what is listed or   *)
(* dumped is what stands at the addresses shown, and all of it.            *)
(***************************************************************************)
EXTENDS CodeViews, SequenceTheorems, WellFoundedInduction, TLAPS

-----------------------------------------------------------------------------
(* The decoder: a recursive function along the file *)

\* What is at position p, given what follows: one turn of the decoder.
Listing(rest, p, address, from, to) ==
  IF p >= to \/ code[p].size = 0 \/ p + code[p].size > to THEN <<>>
  ELSE <<[address |-> address + (p - from), pos |-> p]>> \o rest[p + code[p].size]

Coded == code \in [Positions -> Instructions]

\* A set of natural numbers that has members has a least one: what the inductions rest on.
LEMMA LeastMember ==
  ASSUME NEW S, S \subseteq Nat, S # {}
  PROVE  \E x \in S : \A y \in S : ~(y < x)
<1>1. PICK x \in S : \A y \in S : ~(<<y, x>> \in OpToRel(<, Nat))
  BY NatLessThanWellFounded, WFMin
<1> QED
  BY <1>1 DEF OpToRel

\* What Capstone answers at a position before the end of a window.
LEMMA CodeAt ==
  ASSUME Coded, NEW p \in 0..ImageSize, NEW to \in 0..ImageSize, p < to
  PROVE  p \in Positions /\ code[p].size \in Nat /\ code[p].terminal \in BOOLEAN
BY ViewConstants DEF Coded, Positions, Instructions

\* A turn looks at what follows it only.
LEMMA ListingAgrees ==
  ASSUME Coded, NEW address, NEW from, NEW to \in 0..ImageSize, NEW p \in 0..ImageSize,
         NEW g, NEW h, \A q \in (p + 1)..ImageSize : g[q] = h[q]
  PROVE  Listing(g, p, address, from, to) = Listing(h, p, address, from, to)
<1>1. CASE p >= to \/ code[p].size = 0 \/ p + code[p].size > to
  BY <1>1 DEF Listing
<1>2. CASE ~(p >= to \/ code[p].size = 0 \/ p + code[p].size > to)
  <2>1. p < to
    BY <1>2, ViewConstants
  <2>2. code[p].size \in Nat
    BY <2>1, CodeAt
  <2>3. p + code[p].size \in (p + 1)..ImageSize
    BY <1>2, <2>1, <2>2, ViewConstants
  <2> QED
    BY <1>2, <2>3 DEF Listing
<1> QED
  BY <1>1, <1>2

\* decode is the value at `from` of a function that satisfies its own definition: the
\* recursion ends, since no instruction that is listed has size 0.
LEMMA DecodeIs ==
  ASSUME Coded, NEW address, NEW from \in 0..ImageSize, NEW to \in 0..ImageSize
  PROVE  \E rest : /\ \A p \in 0..ImageSize : rest[p] = Listing(rest, p, address, from, to)
                   /\ decode(address, from, to) = rest[from]
<1> DEFINE T(g, p) == Listing(g, p, address, from, to)
           Solved(n) == \E g : \A p \in n..ImageSize : g[p] = T(g, p)
           Bad == {m \in 0..(ImageSize + 1) : ~Solved(ImageSize + 1 - m)}
<1>0. ImageSize \in Nat
  BY ViewConstants
<1> HIDE DEF T
<1>1. 0 \notin Bad
  <2>1. Solved(ImageSize + 1)
    BY <1>0
  <2> QED
    BY <1>0, <2>1
<1>2. ASSUME NEW n \in 0..ImageSize, Solved(n + 1)
      PROVE  Solved(n)
  <2>1. PICK g : \A p \in (n + 1)..ImageSize : g[p] = T(g, p)
    BY <1>2
  <2> DEFINE h == [p \in n..ImageSize |-> IF p = n THEN T(g, n) ELSE g[p]]
  <2>2. \A q \in (n + 1)..ImageSize : h[q] = g[q]
    BY <1>0
  <2>3. h[n] = T(g, n)
    BY <1>0
  <2> HIDE DEF h
  <2>4. ASSUME NEW p \in n..ImageSize
        PROVE  h[p] = T(h, p)
    <3>1. \A q \in (p + 1)..ImageSize : h[q] = g[q]
      BY <1>0, <2>2
    <3>2. p \in 0..ImageSize
      BY <1>0
    <3>3. T(h, p) = T(g, p)
      BY <3>1, <3>2, ListingAgrees DEF T
    <3>4. p = n \/ p \in (n + 1)..ImageSize
      BY <1>0
    <3> QED
      BY <2>1, <2>2, <2>3, <3>3, <3>4
  <2> QED
    BY <2>4
<1> HIDE DEF Solved
<1>3. Bad = {}
  <2> SUFFICES ASSUME Bad # {}
               PROVE  FALSE
    OBVIOUS
  <2>0. Bad \subseteq Nat
    BY <1>0
  <2> HIDE DEF Bad
  <2>1. PICK m \in Bad : \A y \in Bad : ~(y < m)
    BY <2>0, LeastMember
  <2> USE DEF Bad
  <2>2. m \in 1..(ImageSize + 1) /\ ~Solved(ImageSize + 1 - m)
    BY <1>0, <1>1
  <2>3. m - 1 \in 0..(ImageSize + 1) /\ m - 1 < m /\ ImageSize + 1 - (m - 1) = (ImageSize + 1 - m) + 1
    BY <1>0, <2>2
  <2>4. Solved(ImageSize + 1 - (m - 1))
    BY <2>1, <2>3
  <2>5. ImageSize + 1 - m \in 0..ImageSize
    BY <1>0, <2>2
  <2> QED
    BY <1>2, <2>2, <2>3, <2>4, <2>5
<1>4. Solved(0)
  <2>1. ImageSize + 1 \notin Bad
    BY <1>3
  <2>2. ImageSize + 1 \in 0..(ImageSize + 1) /\ ImageSize + 1 - (ImageSize + 1) = 0
    BY <1>0
  <2> QED
    BY <2>1, <2>2
<1>5. PICK g : \A p \in 0..ImageSize : g[p] = T(g, p)
  BY <1>4 DEF Solved
<1> DEFINE rest == [p \in 0..ImageSize |-> g[p]]
<1>6. ASSUME NEW p \in 0..ImageSize
      PROVE  T(g, p) = T(rest, p)
  <2>1. \A q \in (p + 1)..ImageSize : g[q] = rest[q]
    BY <1>0
  <2> HIDE DEF rest
  <2> QED
    BY <2>1, ListingAgrees DEF T
<1>7. \A p \in 0..ImageSize : rest[p] = T(rest, p)
  BY <1>5, <1>6
<1>8. rest = [p \in 0..ImageSize |-> rest[p]]
  OBVIOUS
<1> HIDE DEF rest
<1>9. rest = [p \in 0..ImageSize |-> Listing(rest, p, address, from, to)]
  BY <1>7, <1>8 DEF T
<1>10. \E r : /\ r = [p \in 0..ImageSize |-> Listing(r, p, address, from, to)]
             /\ decode(address, from, to) = IF from < to THEN r[from] ELSE <<>>
  <2> DEFINE chosen == CHOOSE r : r = [p \in 0..ImageSize |-> Listing(r, p, address, from, to)]
  <2>1. decode(address, from, to) = IF from < to THEN chosen[from] ELSE <<>>
    BY DEF decode, Listing
  <2>2. chosen = [p \in 0..ImageSize |-> Listing(chosen, p, address, from, to)]
    BY <1>9
  <2> HIDE DEF chosen
  <2> QED
    BY <2>1, <2>2
<1>11. PICK r : /\ r = [p \in 0..ImageSize |-> Listing(r, p, address, from, to)]
               /\ decode(address, from, to) = IF from < to THEN r[from] ELSE <<>>
  BY <1>10
<1>12. \A p \in 0..ImageSize : r[p] = Listing(r, p, address, from, to)
  BY <1>11
<1>13. ~(from < to) => r[from] = <<>>
  <2>1. ~(from < to) => from >= to
    BY <1>0
  <2> QED
    BY <1>12, <2>1 DEF Listing
<1> QED
  BY <1>11, <1>12, <1>13

-----------------------------------------------------------------------------
(* What a listing is *)

Entries == [address : Int, pos : Positions]

\* The position after an entry, and after a listing that begins at p.
past(entry) == entry.pos + code[entry.pos].size
after(items, p) == IF items = <<>> THEN p ELSE past(items[Len(items)])

\* The decoder goes no further than q.
Stuck(q, to) == q >= to \/ code[q].size = 0 \/ q + code[q].size > to

\* The entries are those from position p on, each after the one before it, as far as
\* the decoder goes, and their addresses count along with their positions.
Decoded(items, p, address, from, to) ==
  /\ items \in Seq(Entries)
  /\ \A i \in 1..Len(items) : /\ items[i].address = address + (items[i].pos - from)
                              /\ code[items[i].pos].size # 0 /\ past(items[i]) <= to
  /\ items # <<>> => items[1].pos = p
  /\ \A i \in 1..(Len(items) - 1) : items[i + 1].pos = past(items[i])
  /\ Stuck(after(items, p), to)

\* One more entry in front.
LEMMA ConsDecoded ==
  ASSUME Coded, NEW address \in Int, NEW from \in 0..ImageSize, NEW to \in 0..ImageSize,
         NEW p \in 0..ImageSize, ~Stuck(p, to),
         NEW tail, Decoded(tail, p + code[p].size, address, from, to)
  PROVE  Decoded(<<[address |-> address + (p - from), pos |-> p]>> \o tail, p, address, from, to)
<1> DEFINE x == [address |-> address + (p - from), pos |-> p]
           items == <<x>> \o tail
<1>1. p \in Positions /\ code[p].size \in Nat /\ code[p].size # 0 /\ p + code[p].size <= to
  BY CodeAt, ViewConstants DEF Stuck
<1>2. x \in Entries /\ x.pos = p /\ x.address = address + (p - from) /\ past(x) = p + code[p].size
  BY <1>1 DEF Entries, past
<1> HIDE DEF x
<1>3. <<x>> \in Seq(Entries) /\ Len(<<x>>) = 1 /\ <<x>>[1] = x
  BY <1>2
<1>4. tail \in Seq(Entries) /\ Len(tail) \in Nat
  BY DEF Decoded
<1>5. /\ items \in Seq(Entries) /\ Len(items) = 1 + Len(tail)
      /\ \A i \in 1..(1 + Len(tail)) : items[i] = IF i <= 1 THEN <<x>>[i] ELSE tail[i - 1]
  BY <1>3, <1>4, ConcatProperties
<1> HIDE DEF items
<1>6. items # <<>> /\ items[1] = x /\ \A i \in 1..Len(tail) : items[i + 1] = tail[i]
  <2>1. items[1] = x /\ items # <<>>
    BY <1>3, <1>4, <1>5
  <2>2. ASSUME NEW i \in 1..Len(tail)
        PROVE  items[i + 1] = tail[i]
    <3>1. i + 1 \in 1..(1 + Len(tail)) /\ ~(i + 1 <= 1) /\ (i + 1) - 1 = i
      BY <1>4
    <3> QED
      BY <1>5, <3>1
  <2> QED
    BY <2>1, <2>2
<1>7. \A i \in 1..Len(items) : i = 1 \/ (i - 1 \in 1..Len(tail) /\ items[i] = tail[i - 1])
  <2> SUFFICES ASSUME NEW i \in 1..Len(items), i # 1
               PROVE  i - 1 \in 1..Len(tail) /\ items[i] = tail[i - 1]
    OBVIOUS
  <2>1. i - 1 \in 1..Len(tail) /\ (i - 1) + 1 = i
    BY <1>4, <1>5
  <2> QED
    BY <1>6, <2>1
<1>8. ASSUME NEW i \in 1..Len(items)
      PROVE  /\ items[i].address = address + (items[i].pos - from)
             /\ code[items[i].pos].size # 0 /\ past(items[i]) <= to
  <2>1. CASE i = 1
    BY <1>1, <1>2, <1>6, <2>1
  <2>2. CASE i - 1 \in 1..Len(tail) /\ items[i] = tail[i - 1]
    BY <2>2 DEF Decoded
  <2> QED
    BY <1>7, <2>1, <2>2
<1>9. ASSUME NEW i \in 1..(Len(items) - 1)
      PROVE  items[i + 1].pos = past(items[i])
  <2>1. i \in 1..Len(tail) /\ items[i + 1] = tail[i] /\ i \in 1..Len(items)
    BY <1>4, <1>5, <1>6
  <2>2. CASE i = 1
    <3>1. tail # <<>>
      BY <1>4, <2>1
    <3>2. tail[1].pos = p + code[p].size
      BY <3>1 DEF Decoded
    <3> QED
      BY <1>2, <1>6, <2>1, <2>2, <3>2
  <2>3. CASE i # 1
    <3>1. items[i] = tail[i - 1]
      BY <1>7, <2>1, <2>3
    <3>2. i - 1 \in 1..(Len(tail) - 1) /\ (i - 1) + 1 = i
      <4>1. i <= Len(tail) /\ i \in Nat /\ 1 <= i
        BY <1>4, <2>1
      <4> QED
        BY <1>4, <2>3, <4>1
    <3>3. tail[(i - 1) + 1].pos = past(tail[i - 1])
      BY <3>2 DEF Decoded
    <3> QED
      BY <2>1, <3>1, <3>2, <3>3
  <2> QED
    BY <2>2, <2>3
<1>10. after(items, p) = after(tail, p + code[p].size)
  <2>1. CASE tail = <<>>
    <3>1. Len(items) = 1
      BY <1>5, <2>1
    <3> QED
      BY <1>2, <1>6, <2>1, <3>1 DEF after
  <2>2. CASE tail # <<>>
    <3>1. Len(tail) \in 1..Len(tail) /\ items[Len(items)] = tail[Len(tail)]
      <4>1. Len(tail) \in 1..Len(tail) /\ Len(items) = Len(tail) + 1
        BY <1>4, <1>5, <2>2
      <4> QED
        BY <1>6, <4>1
    <3> QED
      BY <1>6, <2>2, <3>1 DEF after
  <2> QED
    BY <2>1, <2>2
<1>11. Stuck(after(items, p), to)
  BY <1>10 DEF Decoded
<1>12. items # <<>> => items[1].pos = p
  BY <1>2, <1>6
<1>13. Decoded(items, p, address, from, to)
  BY <1>5, <1>8, <1>9, <1>11, <1>12 DEF Decoded
<1> QED
  BY <1>13 DEF items, x

\* By induction from the end of the file: what decode returns is a listing from `from`.
LEMMA DecodeDecoded ==
  ASSUME Coded, NEW address \in Int, NEW from \in 0..ImageSize, NEW to \in 0..ImageSize
  PROVE  Decoded(decode(address, from, to), from, address, from, to)
<1>0. ImageSize \in Nat
  BY ViewConstants
<1>1. PICK rest : /\ \A p \in 0..ImageSize : rest[p] = Listing(rest, p, address, from, to)
                  /\ decode(address, from, to) = rest[from]
  BY DecodeIs
<1> DEFINE Good(p) == Decoded(rest[p], p, address, from, to)
           Bad == {m \in 0..ImageSize : ~Good(ImageSize - m)}
<1> HIDE DEF Good
<1>2. ASSUME NEW p \in 0..ImageSize, \A q \in (p + 1)..ImageSize : Good(q)
      PROVE  Good(p)
  <2>1. CASE Stuck(p, to)
    <3>1. rest[p] = <<>>
      BY <1>1, <2>1 DEF Listing, Stuck
    <3>2. Decoded(<<>>, p, address, from, to)
      BY <2>1 DEF Decoded, after
    <3> QED
      BY <3>1, <3>2 DEF Good
  <2>2. CASE ~Stuck(p, to)
    <3>1. p < to
      BY <2>2, <1>0 DEF Stuck
    <3>2. code[p].size \in Nat
      BY <3>1, CodeAt
    <3>3. p + code[p].size \in (p + 1)..ImageSize
      BY <1>0, <2>2, <3>1, <3>2 DEF Stuck
    <3>4. Good(p + code[p].size)
      BY <1>2, <3>3
    <3>5. rest[p] = <<[address |-> address + (p - from), pos |-> p]>> \o rest[p + code[p].size]
      BY <1>1, <2>2 DEF Listing, Stuck
    <3> QED
      BY <2>2, <3>4, <3>5, ConsDecoded DEF Good
  <2> QED
    BY <2>1, <2>2
<1>3. Bad = {}
  <2> SUFFICES ASSUME Bad # {}
               PROVE  FALSE
    OBVIOUS
  <2>0. Bad \subseteq Nat
    BY <1>0
  <2> HIDE DEF Bad
  <2>1. PICK m \in Bad : \A y \in Bad : ~(y < m)
    BY <2>0, LeastMember
  <2> USE DEF Bad
  <2>2. m \in 0..ImageSize /\ ~Good(ImageSize - m) /\ ImageSize - m \in 0..ImageSize
    BY <1>0, <2>1
  <2>3. ASSUME NEW q \in ((ImageSize - m) + 1)..ImageSize
        PROVE  Good(q)
    <3>1. ImageSize - q \in 0..ImageSize /\ ImageSize - q < m /\ ImageSize - (ImageSize - q) = q
      BY <1>0, <2>2
    <3> QED
      BY <2>1, <3>1
  <2> QED
    BY <1>2, <2>2, <2>3
<1>4. Good(from)
  <2>1. ImageSize - from \in 0..ImageSize /\ ImageSize - (ImageSize - from) = from
    BY <1>0
  <2> QED
    BY <1>3, <2>1
<1> QED
  BY <1>1, <1>4 DEF Good

-----------------------------------------------------------------------------
(* A window of a section's bytes, listed *)

\* The window of section s that begins at address first and ends before position to.
Window(s, first, from, to) ==
  /\ s \in Sections /\ InImage(s) /\ first \in Nat /\ s.address <= first
  /\ from = s.offset + (first - s.address) /\ to \in Nat
  /\ from < to /\ to <= s.offset + s.size

\* The ends of a window lie in the file.
LEMMA WindowInFile ==
  ASSUME NEW s, NEW first, NEW from, NEW to, Window(s, first, from, to)
  PROVE  /\ s.address \in Nat /\ s.offset \in Nat /\ s.size \in Nat /\ first \in Nat
         /\ from \in 0..ImageSize /\ to \in 0..ImageSize /\ from \in Nat /\ to \in Nat
<1>1. s.address \in Nat /\ s.offset \in Nat /\ s.size \in Nat /\ s.offset + s.size <= ImageSize
  BY ViewConstants DEF Window, Sections, Word, InImage
<1> QED
  BY <1>1, ViewConstants DEF Window

\* What is shown are the first k entries of what was decoded: all of them, or those up to
\* the first terminal one.
Cut(a, items, k, stops) ==
  /\ a.shown \in Seq(Entries) /\ Len(a.shown) = k
  /\ k \in 0..Len(items) /\ \A i \in 1..k : a.shown[i] = items[i]
  /\ a.ok <=> k # 0
  /\ stops => \A i \in 1..k : terminal(items[i]) => i = k
  /\ k = Len(items) \/ (stops /\ k # 0 /\ terminal(items[k]))

\* A decoded window that is cut lists what the view should show.
LEMMA CutLists ==
  ASSUME Coded, NEW s, NEW first, NEW from, NEW to, Window(s, first, from, to),
         NEW items, Decoded(items, from, first, from, to),
         NEW a, NEW k, NEW stops \in BOOLEAN, Cut(a, items, k, stops)
  PROVE  Lists(a, s, first, first + (to - from), stops)
<1> DEFINE shown == a.shown
           limit == first + (to - from)
           place(at) == s.offset + (at - s.address)
           end(i) == IF i = 0 THEN first ELSE shown[i].address + code[shown[i].pos].size
<1>1. /\ s.address \in Nat /\ s.offset \in Nat /\ first \in Nat /\ from \in Nat /\ to \in Nat
      /\ from = s.offset + (first - s.address)
  BY WindowInFile DEF Window
<1>2. items \in Seq(Entries) /\ Len(items) \in Nat /\ k \in 0..Len(items) /\ k \in Nat
  BY DEF Decoded, Cut
<1>3. \A i \in 1..k : i \in 1..Len(items) /\ shown[i] = items[i]
  BY <1>2 DEF Cut
<1>4. ASSUME NEW i \in 1..Len(items)
      PROVE  /\ items[i].pos \in Nat /\ past(items[i]) \in Nat
             /\ past(items[i]) = items[i].pos + code[items[i].pos].size
             /\ items[i].address = first + (items[i].pos - from) /\ past(items[i]) <= to
  <2>1. items[i] \in Entries
    BY <1>2, ElementOfSeq
  <2>2. items[i].pos \in Positions
    BY <2>1 DEF Entries
  <2>3. items[i].pos \in Nat /\ code[items[i].pos].size \in Nat
    BY <2>2, ViewConstants DEF Coded, Positions, Instructions
  <2> QED
    BY <2>3 DEF Decoded, past
\* Addresses count along with positions.
<1>a. \A q \in Int : place(first + (q - from)) = q /\ (q <= to => first + (q - from) <= limit)
  BY <1>1
<1>5. ASSUME NEW i \in 1..k
      PROVE  end(i) = first + (past(items[i]) - from)
  <2>1. i \in 1..Len(items) /\ shown[i] = items[i] /\ i # 0
    BY <1>2, <1>3
  <2> DEFINE q == items[i].pos
             n == code[items[i].pos].size
  <2>2. end(i) = items[i].address + n
    BY <2>1
  <2>3. q \in Nat /\ past(items[i]) = q + n /\ items[i].address = first + (q - from)
    BY <1>4, <2>1
  <2>4. n \in Nat
    <3>1. items[i] \in Entries
      BY <1>2, <2>1, ElementOfSeq
    <3> QED
      BY <3>1, ViewConstants DEF Entries, Coded, Positions, Instructions
  <2> HIDE DEF q, n
  <2> QED
    BY <1>1, <2>2, <2>3, <2>4
<1> HIDE DEF end, place, limit
<1>6. end(0) = first
  BY DEF end
<1>7. ASSUME NEW i \in 1..k
      PROVE  /\ shown[i].address = end(i - 1) /\ shown[i].pos = place(shown[i].address)
             /\ end(i) <= limit
  <2>1. i \in 1..Len(items) /\ shown[i] = items[i] /\ i \in Nat
    BY <1>2, <1>3
  <2>2. shown[i].pos = place(shown[i].address)
    BY <1>4, <1>a, <2>1
  <2>3. end(i) <= limit
    BY <1>4, <1>5, <1>a, <2>1
  <2>4. CASE i = 1
    <3>1. items[1].pos = from
      BY <1>2, <2>1, <2>4 DEF Decoded
    <3>2. items[1].address = first
      <4>1. items[1].address = first + (from - from)
        BY <1>4, <2>1, <2>4, <3>1
      <4> QED
        BY <1>1, <4>1
    <3> QED
      BY <1>6, <2>1, <2>2, <2>3, <2>4, <3>2
  <2>5. CASE i # 1
    <3>1. i - 1 \in 1..k /\ i - 1 \in 1..(Len(items) - 1) /\ (i - 1) + 1 = i
      BY <1>2, <2>1, <2>5
    <3>2. items[i].pos = past(items[i - 1])
      BY <3>1 DEF Decoded
    <3>3. end(i - 1) = first + (past(items[i - 1]) - from)
      BY <1>5, <3>1
    <3>4. shown[i].address = end(i - 1)
      BY <1>4, <2>1, <3>2, <3>3
    <3> QED
      BY <2>2, <2>3, <3>4
  <2> QED
    BY <2>4, <2>5
<1>8. ASSUME k = Len(items)
      PROVE  \/ end(k) >= limit
             \/ code[place(end(k))].size = 0 \/ end(k) + code[place(end(k))].size > limit
  <2> DEFINE q == after(items, from)
  <2>1. q \in Nat /\ end(k) = first + (q - from)
    <3>1. CASE items = <<>>
      BY <1>1, <1>2, <1>6, <1>8, <3>1 DEF after
    <3>2. CASE items # <<>>
      <4>1. k \in 1..k /\ k \in 1..Len(items)
        BY <1>2, <1>8, <3>2
      <4>2. q = past(items[k])
        BY <1>8, <3>2 DEF after
      <4> HIDE DEF q
      <4> QED
        BY <1>4, <1>5, <4>1, <4>2
    <3> QED
      BY <3>1, <3>2
  <2>2. Stuck(q, to)
    BY DEF Decoded
  <2> HIDE DEF q
  <2>3. place(end(k)) = q
    BY <1>a, <2>1
  <2>4. CASE q >= to
    BY <1>1, <2>1, <2>4 DEF limit
  <2>5. CASE q < to
    <3>1. code[q].size \in Nat
      <4>1. to \in 0..ImageSize /\ ImageSize \in Nat
        BY WindowInFile, ViewConstants
      <4>2. q \in 0..ImageSize
        BY <2>1, <2>5, <4>1
      <4> QED
        BY <2>5, <4>1, <4>2, CodeAt
    <3>2. code[q].size = 0 \/ q + code[q].size > to
      BY <1>1, <2>1, <2>2, <2>5 DEF Stuck
    <3>3. q + code[q].size > to => end(k) + code[q].size > limit
      BY <1>1, <2>1, <3>1 DEF limit
    <3> QED
      BY <2>3, <3>2, <3>3
  <2> QED
    BY <1>1, <2>1, <2>4, <2>5
<1>9. \/ end(k) >= limit
      \/ code[place(end(k))].size = 0 \/ end(k) + code[place(end(k))].size > limit
      \/ stops /\ shown # <<>> /\ terminal(Last(shown))
  <2>1. CASE k = Len(items)
    BY <1>8, <2>1
  <2>2. CASE stops /\ k # 0 /\ terminal(items[k])
    <3>1. k \in 1..k
      BY <1>2, <2>2
    <3>2. shown # <<>> /\ Last(shown) = items[k]
      BY <1>3, <3>1, <2>2 DEF Cut, Last
    <3> QED
      BY <2>2, <3>2
  <2> QED
    BY <2>1, <2>2 DEF Cut
<1>10. DOMAIN shown = 1..k /\ Len(shown) = k
  BY DEF Cut
<1>11. stops => \A i \in DOMAIN shown : terminal(shown[i]) => i = Len(shown)
  BY <1>3, <1>10 DEF Cut
<1>12. a.ok <=> shown # <<>>
  BY <1>2, <1>10 DEF Cut
<1> QED
  BY <1>7, <1>9, <1>10, <1>11, <1>12 DEF Lists, end, place, limit

\* What the decoder makes of a window, all of it.
LEMMA WholeListed ==
  ASSUME Coded, NEW s, NEW first, NEW from, NEW to, Window(s, first, from, to),
         NEW a, a = disassemble_bytes(first, from, to)
  PROVE  Lists(a, s, first, first + (to - from), FALSE)
<1> DEFINE items == decode(first, from, to)
<1>1. Decoded(items, from, first, from, to)
  BY WindowInFile, DecodeDecoded
<1>2. items \in Seq(Entries) /\ Len(items) \in Nat
  BY <1>1 DEF Decoded
<1>3. from < to
  BY DEF Window
<1>4. IF items = <<>> THEN a = Failed ELSE a = Shown(items)
  BY <1>3 DEF disassemble_bytes
<1> HIDE DEF items
<1>5. a.shown = items /\ (a.ok <=> Len(items) # 0)
  <2>1. CASE items = <<>>
    BY <1>4, <2>1 DEF Failed, Pending
  <2>2. CASE items # <<>>
    <3>1. Len(items) # 0
      BY <1>2, <2>2
    <3> QED
      BY <1>4, <2>2, <3>1 DEF Shown, Failed, Pending
  <2> QED
    BY <2>1, <2>2
<1>6. Cut(a, items, Len(items), FALSE)
  BY <1>2, <1>5 DEF Cut
<1> QED
  BY <1>1, <1>6, CutLists

\* The same up to the first terminal instruction.
LEMMA TrimmedListed ==
  ASSUME Coded, NEW s, NEW first, NEW from, NEW to, Window(s, first, from, to),
         NEW a, a = trim_after_first_terminal(disassemble_bytes(first, from, to))
  PROVE  Lists(a, s, first, first + (to - from), TRUE)
<1> DEFINE items == decode(first, from, to)
           ends == {i \in DOMAIN items : terminal(items[i])}
           whole == disassemble_bytes(first, from, to)
<1>1. Decoded(items, from, first, from, to)
  BY WindowInFile, DecodeDecoded
<1>2. items \in Seq(Entries) /\ Len(items) \in Nat /\ DOMAIN items = 1..Len(items)
  BY <1>1 DEF Decoded
<1>3. from < to
  BY DEF Window
<1>4. IF items = <<>> THEN whole = Failed ELSE whole = Shown(items)
  BY <1>3 DEF disassemble_bytes
<1> HIDE DEF items, whole
<1>5. whole.shown = items /\ (whole.ok <=> items # <<>>) /\ whole = [whole EXCEPT !.shown = items]
  <2>1. CASE items = <<>>
    BY <1>4, <2>1 DEF Failed, Pending
  <2>2. CASE items # <<>>
    BY <1>4, <2>2 DEF Shown, Failed, Pending
  <2> QED
    BY <2>1, <2>2
<1>6. IF ends = {} THEN a = whole
      ELSE a = [whole EXCEPT !.shown =
                       SubSeq(items, 1, CHOOSE i \in ends : \A j \in ends : i <= j)]
  BY <1>5 DEF trim_after_first_terminal, whole
<1>7. CASE ends = {}
  <2>1. a.shown = items /\ (a.ok <=> Len(items) # 0)
    BY <1>2, <1>5, <1>6, <1>7
  <2>2. \A i \in 1..Len(items) : terminal(items[i]) => i = Len(items)
    BY <1>2, <1>7
  <2> HIDE DEF ends
  <2> DEFINE k == Len(items)
  <2>a. a.shown \in Seq(Entries) /\ Len(a.shown) = k /\ k \in 0..Len(items)
    BY <1>2, <2>1
  <2>b. \A i \in 1..k : a.shown[i] = items[i]
    BY <2>1
  <2>c. a.ok <=> k # 0
    BY <2>1
  <2>d. TRUE => \A i \in 1..k : terminal(items[i]) => i = k
    BY <2>2
  <2>e. k = Len(items) \/ (TRUE /\ k # 0 /\ terminal(items[k]))
    OBVIOUS
  <2>3. Cut(a, items, k, TRUE)
    BY <2>a, <2>b, <2>c, <2>d, <2>e DEF Cut
  <2> QED
    BY <1>1, <2>3, CutLists
<1>8. CASE ends # {}
  <2> DEFINE k == CHOOSE i \in ends : \A j \in ends : i <= j
  <2>1. ends \subseteq 1..Len(items) /\ ends \subseteq Nat
    BY <1>2
  <2>2. k \in ends /\ \A j \in ends : k <= j
    <3> HIDE DEF ends
    <3>1. PICK x \in ends : \A y \in ends : ~(y < x)
      BY <1>8, <2>1, LeastMember
    <3>2. \A y \in ends : x <= y
      BY <2>1, <3>1
    <3> QED
      BY <3>2
  <2> HIDE DEF k
  <2>3. k \in 1..Len(items) /\ k \in Nat /\ k # 0 /\ terminal(items[k])
    BY <2>1, <2>2
  <2>4. a = [whole EXCEPT !.shown = SubSeq(items, 1, k)]
    BY <1>6, <1>8 DEF k
  <2>5. a.shown = SubSeq(items, 1, k) /\ (a.ok <=> k # 0)
    <3>1. items # <<>>
      BY <1>2, <2>3
    <3>2. whole = Shown(items)
      BY <1>4, <3>1
    <3> QED
      BY <2>3, <2>4, <3>2 DEF Shown, Failed, Pending
  <2>6. /\ SubSeq(items, 1, k) \in Seq(Entries) /\ Len(SubSeq(items, 1, k)) = k
        /\ \A i \in 1..k : SubSeq(items, 1, k)[i] = items[i]
    <3>1. \A i \in 1..k : items[i] \in Entries
      BY <1>2, <2>3, ElementOfSeq
    <3>2. /\ SubSeq(items, 1, k) \in Seq(Entries)
          /\ Len(SubSeq(items, 1, k)) = IF 1 <= k THEN k - 1 + 1 ELSE 0
          /\ \A i \in 1..(k - 1 + 1) : SubSeq(items, 1, k)[i] = items[1 + i - 1]
      BY <2>3, <3>1, SubSeqProperties
    <3>3. \A i \in 1..k : i \in 1..(k - 1 + 1) /\ 1 + i - 1 = i
      BY <2>3
    <3> QED
      BY <2>3, <3>2, <3>3
  <2>7. \A i \in 1..k : terminal(items[i]) => i = k
    <3> SUFFICES ASSUME NEW i \in 1..k, terminal(items[i])
                 PROVE  i = k
      OBVIOUS
    <3>1. i \in ends
      BY <1>2, <2>3
    <3>2. k <= i
      BY <2>2, <3>1
    <3> QED
      BY <2>3, <3>2
  <2>8. Cut(a, items, k, TRUE)
    BY <2>3, <2>5, <2>6, <2>7 DEF Cut
  <2> QED
    BY <1>1, <2>8, CutLists
<1> QED
  BY <1>7, <1>8

-----------------------------------------------------------------------------
(* Section tables, as linked programs have them *)

\* No section reaches the last address of a word.
NoWrap == \A t \in Layouts : \A i \in DOMAIN t : t[i].address + t[i].size < Words

\* No two sections with code have an address in common.
ExecutablesApart ==
  \A t \in Layouts : \A i, j \in DOMAIN t, a \in Word :
    t[i].executable /\ t[j].executable /\ Holds(t[i], a) /\ Holds(t[j], a) => i = j

Typed ==
  /\ sections \in Layouts /\ code \in Codes /\ request \in Requests(DOMAIN sections)
  /\ request.view \in {"function", "elf_function"} =>
       request.start - sections[request.index].address \in 0..(sections[request.index].size - 1)

\* The request and the answer are of the kinds they are declared to be.
LEMMA TypedCorrect == Spec => []Typed
<1>1. Init => Typed
  BY DEF Init, Typed
<1>2. Typed /\ [Next]_vars => Typed'
  <2> SUFFICES ASSUME Typed, [Next]_vars
               PROVE  Typed'
    OBVIOUS
  <2>1. UNCHANGED <<sections, code, request>>
    BY DEF vars, Next, Answer, DisassembleFunction, DisassembleElfFunction, DisassembleSection,
           DisassembleAll, DisassembleAddr, DisassembleRange, HexSection, HexAddr
  <2> QED
    BY <2>1 DEF Typed, Requests
<1> QED
  BY <1>1, <1>2, PTL DEF Spec

\* What a request is made of.
LEMMA RequestParts ==
  ASSUME Typed
  PROVE  /\ request.view \in {"function", "elf_function"} =>
              request.start \in Word /\ request.size \in 0..ImageSize /\ request.index \in DOMAIN sections
         /\ request.view \in {"section", "hex_section"} => request.index \in DOMAIN sections
         /\ request.view \in {"addr", "hex_addr"} => request.start \in Word
         /\ request.view \in {"range", "hex_range"} =>
              request.start \in Word /\ request.end \in Word /\ request.start <= request.end
         /\ request.view \in {"hex_section", "hex_addr"} => request.count \in {Absent} \cup 0..ImageSize
BY DEF Typed, Requests

\* What is known of any section.
LEMMA SectionParts ==
  ASSUME Typed, NEW i \in DOMAIN sections
  PROVE  LET s == sections[i] IN
         /\ s \in Sections /\ i \in Nat /\ 1..(i - 1) \subseteq DOMAIN sections
         /\ s.address \in Nat /\ s.offset \in Nat /\ s.size \in Nat
         /\ s.executable \in BOOLEAN /\ s.nobits \in BOOLEAN
<1>1. sections \in Seq(Sections)
  BY ViewConstants DEF Typed
<1>2. sections[i] \in Sections /\ DOMAIN sections = 1..Len(sections) /\ Len(sections) \in Nat
  BY <1>1
<1>3. i \in Nat /\ 1..(i - 1) \subseteq DOMAIN sections
  BY <1>2
<1> QED
  BY <1>2, <1>3, ViewConstants DEF Sections, Word

\* The bytes of a section that is not outside the file are all there.
LEMMA InFileParts ==
  ASSUME Typed, NEW i \in DOMAIN sections, ~OutOfFile(sections[i])
  PROVE  LET s == sections[i] IN
         /\ InImage(s) /\ backed(s) = s.size /\ s.offset + s.size <= ImageSize
<1> DEFINE s == sections[i]
<1>1. s.offset \in Nat /\ s.size \in Nat /\ ImageSize \in Nat
  BY SectionParts, ViewConstants
<1> HIDE DEF s
<1>2. s.offset + s.size <= ImageSize
  BY <1>1 DEF OutOfFile, s
<1>3. InImage(s)
  BY <1>1, <1>2 DEF InImage
<1> QED
  BY <1>2, <1>3 DEF backed, s

\* Those of one outside it are none.
LEMMA OutOfFileParts ==
  ASSUME Typed, NEW i \in DOMAIN sections, OutOfFile(sections[i])
  PROVE  backed(sections[i]) = 0 /\ ~InImage(sections[i])
<1> DEFINE s == sections[i]
<1>1. s.offset \in Nat /\ s.size \in Nat /\ ImageSize \in Nat
  BY SectionParts, ViewConstants
<1> HIDE DEF s
<1>2. s.offset + s.size > ImageSize
  BY DEF OutOfFile, s
<1>3. ~InImage(s)
  BY <1>1, <1>2 DEF InImage
<1> QED
  BY <1>3 DEF backed, s

\* A section whose bytes are stored is not outside the file.
LEMMA StoredIn ==
  ASSUME Typed, NEW i \in DOMAIN sections, Stored(sections[i])
  PROVE  ~OutOfFile(sections[i]) /\ ~sections[i].nobits
BY SectionParts, ViewConstants DEF Stored, OutOfFile

\* No modular arithmetic is left between addresses of one section.
LEMMA SameDifference ==
  ASSUME NEW x \in Word, NEW y \in Nat, y <= x
  PROVE  Minus(x, y) = x - y
BY ViewConstants DEF Word, Minus

\* A sum below 2^64 does not wrap.
LEMMA SameSum ==
  ASSUME NEW x \in Nat, NEW y \in Nat, x + y < Words
  PROVE  Plus(x, y) = x + y
BY ViewConstants DEF Plus

\* The least index is the first.
LEMMA FirstIs ==
  ASSUME NEW I, I \subseteq Nat, NEW i \in I, \A k \in I : i <= k
  PROVE  FirstOf(I) = {sections[i]}
<1>1. \A j \in I : (\A k \in I : j <= k) <=> j = i
  OBVIOUS
<1> QED
  BY <1>1 DEF FirstOf

\* The section an address is in is the one section_containing finds.
LEMMA SectionFound ==
  ASSUME Typed, NoWrap, NEW i \in DOMAIN sections, NEW at \in Word, Owns(i, at)
  PROVE  /\ section_containing(at) = {sections[i]}
         /\ Minus(at, sections[i].address) = at - sections[i].address
         /\ at - sections[i].address \in Nat /\ at - sections[i].address < sections[i].size
<1>1. \A j \in DOMAIN sections :
        /\ sections[j].address \in Nat /\ sections[j].size \in Nat /\ j \in Nat
        /\ Plus(sections[j].address, sections[j].size) = sections[j].address + sections[j].size
  BY SectionParts, SameSum DEF NoWrap, Typed
<1>2. at \in Nat
  BY DEF Word
<1> DEFINE I == {j \in DOMAIN sections : /\ sections[j].address <= at
                                         /\ at < Plus(sections[j].address, sections[j].size)}
<1>3. \A j \in DOMAIN sections : j \in I <=> Holds(sections[j], at)
  BY <1>1 DEF Holds
<1>4. Holds(sections[i], at) /\ \A j \in 1..(i - 1) : ~Holds(sections[j], at)
  BY DEF Owns
<1>5. i \in I /\ I \subseteq Nat
  BY <1>1, <1>3, <1>4
<1>6. \A k \in I : i <= k
  <2> SUFFICES ASSUME NEW k \in I, ~(i <= k) PROVE FALSE
    OBVIOUS
  <2>1. k \in DOMAIN sections /\ k \in Nat /\ Holds(sections[k], at)
    BY <1>1, <1>3
  <2>2. k >= 1
    BY <2>1, ViewConstants DEF Typed
  <2>3. k \in 1..(i - 1)
    BY <1>1, <2>1, <2>2
  <2> QED
    BY <1>4, <2>1, <2>3
<1>7. section_containing(at) = FirstOf(I)
  BY DEF section_containing
<1> HIDE DEF I
<1>8. FirstOf(I) = {sections[i]}
  BY <1>5, <1>6, FirstIs
<1>9. sections[i].address <= at /\ at < sections[i].address + sections[i].size
  BY <1>4 DEF Holds
<1>10. Minus(at, sections[i].address) = at - sections[i].address
  BY <1>1, <1>9, SameDifference
<1>11. at - sections[i].address \in Nat /\ at - sections[i].address < sections[i].size
  BY <1>1, <1>2, <1>9
<1> QED
  BY <1>7, <1>8, <1>10, <1>11

\* A section that is found is the one the address is in.
LEMMA FoundOwns ==
  ASSUME Typed, NoWrap, NEW at \in Word, section_containing(at) # {}
  PROVE  \E i \in DOMAIN sections : Owns(i, at)
<1>1. \A j \in DOMAIN sections :
        Plus(sections[j].address, sections[j].size) = sections[j].address + sections[j].size
  BY SectionParts, SameSum DEF NoWrap, Typed
<1> DEFINE I == {j \in DOMAIN sections : /\ sections[j].address <= at
                                         /\ at < Plus(sections[j].address, sections[j].size)}
<1>2. PICK i \in I : \A k \in I : i <= k
  <2>1. section_containing(at) = FirstOf(I)
    BY DEF section_containing
  <2> HIDE DEF I
  <2> QED
    BY <2>1 DEF FirstOf
<1>3. \A j \in DOMAIN sections : j \in I <=> Holds(sections[j], at)
  BY <1>1 DEF Holds
<1>4. ASSUME NEW j \in 1..(i - 1) PROVE ~Holds(sections[j], at)
  <2>1. j \in DOMAIN sections /\ i \in Nat /\ ~(i <= j)
    BY <1>4, SectionParts
  <2> QED
    BY <1>2, <1>3, <2>1
<1> QED
  BY <1>2, <1>3, <1>4 DEF Owns

\* The section with code that has an address is found, and no other.
LEMMA ExecutableFound ==
  ASSUME Typed, ExecutablesApart, NEW i \in DOMAIN sections, NEW at \in Word,
         Holds(sections[i], at), sections[i].executable
  PROVE  /\ executable_containing(at) = {sections[i]}
         /\ Minus(at, sections[i].address) = at - sections[i].address
<1>1. \A j \in DOMAIN sections : sections[j].address \in Nat /\ sections[j].size \in Nat /\ j \in Nat
  BY SectionParts
<1>2. at \in Nat
  BY DEF Word
<1>3. \A j \in DOMAIN sections : sections[j].executable /\ Holds(sections[j], at) => j = i
  BY DEF ExecutablesApart, Typed
<1> DEFINE I == {j \in DOMAIN sections : /\ sections[j].executable /\ sections[j].address <= at
                                         /\ Minus(at, sections[j].address) < sections[j].size}
<1>4. ASSUME NEW j \in DOMAIN sections
      PROVE  sections[j].address <= at /\ Minus(at, sections[j].address) < sections[j].size
               <=> Holds(sections[j], at)
  <2>1. sections[j].address <= at => Minus(at, sections[j].address) = at - sections[j].address
    BY <1>1, SameDifference
  <2> QED
    BY <1>1, <1>2, <2>1 DEF Holds
<1>5. I = {i}
  BY <1>3, <1>4
<1>6. executable_containing(at) = FirstOf(I)
  BY DEF executable_containing
<1>7. FirstOf({i}) = {sections[i]}
  BY <1>1, FirstIs
<1> QED
  BY <1>1, <1>5, <1>6, <1>7, SameDifference DEF Holds

-----------------------------------------------------------------------------
(* Disassembly of a function and of a section *)

\* A function with a size, or without, is a window of its section.
LEMMA FunctionListed ==
  ASSUME Typed, ExecutablesApart, request.view = "function", sections[request.index].executable,
         Stored(sections[request.index]), NEW a, a = disassemble_function(request.start, request.size)
  PROVE  LET s == sections[request.index]
             end == s.address + s.size
         IN IF request.size = 0 THEN Lists(a, s, request.start, end, TRUE)
            ELSE Lists(a, s, request.start, Least(request.start + request.size, end), FALSE)
<1> DEFINE s == sections[request.index]
           start == request.start
           size == request.size
           off == start - s.address
           from == s.offset + off
           to == function_end(s, start, size)
<1>1. start \in Word /\ size \in Nat /\ request.index \in DOMAIN sections /\ start \in Nat
  BY RequestParts, ViewConstants DEF Word
<1>2. /\ s \in Sections /\ InImage(s) /\ backed(s) = s.size /\ s.offset + s.size <= ImageSize
      /\ s.address \in Nat /\ s.offset \in Nat /\ s.size \in Nat
  BY <1>1, SectionParts, StoredIn, InFileParts
<1>3. off \in 0..(s.size - 1)
  BY DEF Typed
<1> HIDE DEF s, start, size
<1>4. Holds(s, start)
  BY <1>1, <1>2, <1>3 DEF Holds
<1>5. executable_containing(start) = {s} /\ Minus(start, s.address) = off
  BY <1>1, <1>4, ExecutableFound DEF s, start
<1>6. off \in Nat /\ off < s.size /\ s.address <= start
  BY <1>1, <1>2, <1>3
<1>7. to = s.offset + off + (IF size = 0 THEN s.size - off ELSE Least(size, s.size - off))
  BY <1>2, <1>5 DEF function_end
<1>8. a = trimmed_if(size = 0, disassemble_bytes(start, from, to))
  <2>1. (CHOOSE x \in executable_containing(start) : TRUE) = s
    BY <1>5
  <2>2. \E x \in executable_containing(start) : Minus(start, x.address) <= backed(x)
    BY <1>2, <1>5, <1>6
  <2>3. a = disassemble_function(start, size)
    BY DEF start, size
  <2> HIDE DEF to
  <2> QED
    BY <1>5, <2>1, <2>2, <2>3 DEF disassemble_function, to
<1> DEFINE n == IF size = 0 THEN s.size - off ELSE Least(size, s.size - off)
<1>9. n \in Nat /\ 0 < n /\ n <= s.size - off /\ to = from + n
  BY <1>1, <1>2, <1>6, <1>7 DEF Least
<1> HIDE DEF n, to, off
<1>10. Window(s, start, from, to) /\ to - from = n
  <2>1. s.offset \in Nat /\ off \in Nat /\ n \in Nat /\ s.size \in Nat
    BY <1>2, <1>6, <1>9
  <2>2. to \in Nat /\ from < to /\ to <= s.offset + s.size /\ to - from = n
    BY <1>9, <2>1
  <2> QED
    BY <1>1, <1>2, <1>6, <2>2 DEF Window, off
<1>11. Coded
  BY ViewConstants DEF Typed, Coded
<1>12. CASE size = 0
  <2>1. a = trim_after_first_terminal(disassemble_bytes(start, from, to))
    BY <1>8, <1>12 DEF trimmed_if
  <2>2. Lists(a, s, start, start + n, TRUE)
    BY <1>10, <1>11, <2>1, TrimmedListed
  <2>3. start + n = s.address + s.size
    BY <1>1, <1>2, <1>12 DEF n, off
  <2> QED
    BY <1>12, <2>2, <2>3 DEF s, start, size
<1>13. CASE size # 0
  <2>1. a = disassemble_bytes(start, from, to)
    BY <1>8, <1>13 DEF trimmed_if
  <2>2. Lists(a, s, start, start + n, FALSE)
    BY <1>10, <1>11, <2>1, WholeListed
  <2>3. start + n = Least(start + size, s.address + s.size)
    BY <1>1, <1>2, <1>13 DEF n, off, Least
  <2> QED
    BY <1>13, <2>2, <2>3 DEF s, start, size
<1> QED
  BY <1>12, <1>13

\* A section is a window of itself.
LEMMA SectionListed ==
  ASSUME Typed, NEW i \in DOMAIN sections, sections[i].size > 0, Stored(sections[i]),
         NEW a, a = disassemble_section(sections[i])
  PROVE  Lists(a, sections[i], sections[i].address, sections[i].address + sections[i].size, FALSE)
<1> DEFINE s == sections[i]
<1>1. /\ s \in Sections /\ InImage(s) /\ backed(s) = s.size /\ s.offset + s.size <= ImageSize
      /\ s.address \in Nat /\ s.offset \in Nat /\ s.size \in Nat /\ s.size > 0
  BY SectionParts, StoredIn, InFileParts
<1>2. a = disassemble_bytes(s.address, s.offset, s.offset + s.size)
  BY <1>1 DEF disassemble_section
<1> HIDE DEF s
<1>3. Window(s, s.address, s.offset, s.offset + s.size)
  BY <1>1 DEF Window
<1>4. Coded
  BY ViewConstants DEF Typed, Coded
<1>5. Lists(a, s, s.address, s.address + ((s.offset + s.size) - s.offset), FALSE)
  BY <1>2, <1>3, <1>4, WholeListed
<1>6. (s.offset + s.size) - s.offset = s.size
  BY <1>1
<1> QED
  BY <1>5, <1>6 DEF s

-----------------------------------------------------------------------------
(* Disassembly from an address and of a range *)

\* What --addr makes of the code from an address.
LEMMA AddressListed ==
  ASSUME Typed, NoWrap, request.start \in Word, NEW i \in DOMAIN sections,
         Owns(i, request.start), sections[i].executable, Stored(sections[i]),
         NEW a,
         LET s == CHOOSE s \in code_section(request.start) : TRUE
             end == Least(backed(s), Minus(request.start, s.address) + Cap)
         IN a = trim_after_first_terminal(disassemble_window(s, request.start, end))
  PROVE  Lists(a, sections[i], request.start,
               Least(request.start + Cap, sections[i].address + sections[i].size), TRUE)
<1> DEFINE s == sections[i]
           start == request.start
           off == start - s.address
           end == Least(s.size, off + Cap)
<1>1. /\ s \in Sections /\ InImage(s) /\ backed(s) = s.size /\ s.offset + s.size <= ImageSize
      /\ s.address \in Nat /\ s.offset \in Nat /\ s.size \in Nat
  BY SectionParts, StoredIn, InFileParts
<1>2. start \in Nat /\ Cap \in Nat /\ Cap > 0
  BY ViewConstants DEF Word
<1>3. /\ section_containing(start) = {s} /\ Minus(start, s.address) = off
      /\ off \in Nat /\ off < s.size
  BY SectionFound
<1>4. (CHOOSE x \in code_section(start) : TRUE) = s
  BY <1>1, <1>3 DEF code_section
<1> HIDE DEF s, start
<1>5. a = trim_after_first_terminal(disassemble_bytes(start, s.offset + off, s.offset + end))
  BY <1>1, <1>3, <1>4 DEF disassemble_window, start
<1>6. end \in Nat /\ off < end /\ end <= s.size
  BY <1>1, <1>2, <1>3 DEF Least
<1>7. s.address <= start /\ off = start - s.address
  BY <1>1, <1>2, <1>3
<1> HIDE DEF off, end
<1>8. s.offset + end \in Nat /\ s.offset + off < s.offset + end /\ s.offset + end <= s.offset + s.size
  BY <1>1, <1>3, <1>6
<1>9. Window(s, start, s.offset + off, s.offset + end)
  BY <1>1, <1>2, <1>7, <1>8 DEF Window
<1>10. Coded
  BY ViewConstants DEF Typed, Coded
<1>11. Lists(a, s, start, start + ((s.offset + end) - (s.offset + off)), TRUE)
  BY <1>5, <1>9, <1>10, TrimmedListed
<1>12. start + ((s.offset + end) - (s.offset + off)) = Least(start + Cap, s.address + s.size)
  BY <1>1, <1>2, <1>7 DEF end, Least
<1> QED
  BY <1>11, <1>12 DEF s, start

\* What --range makes of the code between two addresses.
LEMMA RangeListed ==
  ASSUME Typed, NoWrap, request.start \in Word, request.end \in Word,
         request.start <= request.end, NEW i \in DOMAIN sections,
         Owns(i, request.start), sections[i].executable, Stored(sections[i]),
         request.end - sections[i].address < Words - 1,
         NEW a,
         LET s == CHOOSE s \in code_section(request.start) : TRUE
             end == range_end(s, Minus(request.start, s.address), request.end)
         IN a = disassemble_window(s, request.start, end)
  PROVE  Lists(a, sections[i], request.start,
               Least(request.end + 1, sections[i].address + sections[i].size), FALSE)
<1> DEFINE s == sections[i]
           start == request.start
           last == request.end
           off == start - s.address
           end == Least((last - s.address) + 1, s.size)
<1>1. /\ s \in Sections /\ InImage(s) /\ backed(s) = s.size /\ s.offset + s.size <= ImageSize
      /\ s.address \in Nat /\ s.offset \in Nat /\ s.size \in Nat
      /\ last - s.address < Words - 1
  BY SectionParts, StoredIn, InFileParts
<1>2. start \in Nat /\ last \in Nat /\ start <= last /\ last < Words
  BY ViewConstants DEF Word
<1>3. /\ section_containing(start) = {s} /\ Minus(start, s.address) = off
      /\ off \in Nat /\ off < s.size
  BY SectionFound
<1>4. (CHOOSE x \in code_section(start) : TRUE) = s
  BY <1>1, <1>3 DEF code_section
<1> HIDE DEF s
<1>5. Minus(last, s.address) = last - s.address /\ last >= s.address
  BY <1>1, <1>2, <1>3, SameDifference
<1>6. Plus(last - s.address, 1) = (last - s.address) + 1
  <2>1. last - s.address \in Nat /\ (last - s.address) + 1 < Words
    BY <1>1, <1>2, <1>5, ViewConstants
  <2> HIDE DEF last
  <2> QED
    BY <2>1, SameSum
<1>7. end \in Nat /\ off < end /\ end <= s.size
  BY <1>1, <1>2, <1>3 DEF Least
<1>8. range_end(s, off, last) = end
  BY <1>1, <1>3, <1>5, <1>6, <1>7 DEF range_end
<1> HIDE DEF start, last
<1>9. a = disassemble_bytes(start, s.offset + off, s.offset + end)
  BY <1>1, <1>3, <1>4, <1>8 DEF disassemble_window, start, last
<1>10. s.address <= start /\ off = start - s.address
  BY <1>1, <1>2, <1>3
<1> HIDE DEF off, end
<1>11. s.offset + end \in Nat /\ s.offset + off < s.offset + end /\ s.offset + end <= s.offset + s.size
  BY <1>1, <1>3, <1>7
<1>12. Window(s, start, s.offset + off, s.offset + end)
  BY <1>1, <1>2, <1>10, <1>11 DEF Window
<1>13. Coded
  BY ViewConstants DEF Typed, Coded
<1>14. Lists(a, s, start, start + ((s.offset + end) - (s.offset + off)), FALSE)
  BY <1>9, <1>12, <1>13, WholeListed
<1>15. start + ((s.offset + end) - (s.offset + off)) = Least(last + 1, s.address + s.size)
  BY <1>1, <1>2, <1>10 DEF end, Least
<1> QED
  BY <1>14, <1>15 DEF s, start, last

-----------------------------------------------------------------------------
(* The properties *)

\* FunctionShown: a function's listing is its section's code from the symbol's address to its
\* size, cut at the section's end, or to the first terminal instruction; a section's is all of
\* it (disasm.cpp:687-742).
THEOREM FunctionShownAlways ==
  ASSUME ExecutablesApart
  PROVE  Spec => []FunctionShown
<1>1. Init => FunctionShown
  BY DEF Init, FunctionShown, Answered, Pending
<1>2. Typed /\ FunctionShown /\ [Next]_vars => FunctionShown'
  <2> SUFFICES ASSUME Typed, FunctionShown, [Next]_vars
               PROVE  FunctionShown'
    OBVIOUS
  <2> DEFINE s == sections[request.index]
             end == s.address + s.size
  <2>1. CASE UNCHANGED vars
    BY <2>1 DEF vars, FunctionShown, Answered, Lists, terminal, Least, Stored
  <2>2. CASE Next /\ request.view \notin {"function", "section"}
    <3>1. UNCHANGED request
      BY <2>2 DEF Next, Answer, DisassembleFunction, DisassembleElfFunction, DisassembleSection,
                  DisassembleAll, DisassembleAddr, DisassembleRange, HexSection, HexAddr
    <3> QED
      BY <2>2, <3>1 DEF FunctionShown, Answered
  <2>3. CASE Next /\ request.view = "function"
    <3>1. DisassembleFunction
      BY <2>3 DEF Next, DisassembleFunction, DisassembleElfFunction, DisassembleSection,
                  DisassembleAll, DisassembleAddr, DisassembleRange, HexSection, HexAddr
    <3>2. /\ UNCHANGED <<sections, code, request>>
          /\ answer' = disassemble_function(request.start, request.size)
      BY <3>1 DEF DisassembleFunction, Answer
    <3>3. s.executable /\ Stored(s) =>
             IF request.size = 0 THEN Lists(answer', s, request.start, end, TRUE)
             ELSE Lists(answer', s, request.start, Least(request.start + request.size, end), FALSE)
      BY <2>3, <3>2, FunctionListed
    <3>4. CASE ~s.executable \/ ~Stored(s)
      BY <2>3, <3>2, <3>4 DEF FunctionShown, Answered, Stored
    <3>5. CASE s.executable /\ Stored(s) /\ request.size = 0
      <4>1. Lists(answer', s, request.start, end, TRUE)
        BY <3>3, <3>5
      <4> QED
        BY <2>3, <3>2, <3>5, <4>1 DEF FunctionShown, Answered, Lists, terminal
    <3>6. CASE s.executable /\ Stored(s) /\ request.size # 0
      <4>1. Lists(answer', s, request.start, Least(request.start + request.size, end), FALSE)
        BY <3>3, <3>6
      <4> QED
        BY <2>3, <3>2, <3>6, <4>1 DEF FunctionShown, Answered, Lists, terminal, Least
    <3> QED
      BY <3>4, <3>5, <3>6
  <2>4. CASE Next /\ request.view = "section"
    <3>1. DisassembleSection
      BY <2>4 DEF Next, DisassembleFunction, DisassembleElfFunction, DisassembleSection,
                  DisassembleAll, DisassembleAddr, DisassembleRange, HexSection, HexAddr
    <3>2. UNCHANGED <<sections, code, request>> /\ answer' = disassemble_section(s)
      BY <3>1 DEF DisassembleSection, Answer
    <3>3. Stored(s) /\ s.size > 0 => Lists(answer', s, s.address, end, FALSE)
      BY <2>4, <3>2, RequestParts, SectionListed
    <3> QED
      BY <2>4, <3>2, <3>3 DEF FunctionShown, Answered, Lists, terminal, Stored
  <2> QED
    BY <2>1, <2>2, <2>3, <2>4
<1> QED
  BY <1>1, <1>2, TypedCorrect, PTL DEF Spec

\* AddressShown: --addr and --range list the code of the section the address is in, up to the
\* cap or to the range's last byte, and refuse what is no code or not in the file
\* (cli.cpp:943-987).
THEOREM AddressShownAlways ==
  ASSUME NoWrap
  PROVE  Spec => []AddressShown
<1>1. Init => AddressShown
  BY DEF Init, AddressShown, Answered, Pending
<1>2. Typed /\ AddressShown /\ [Next]_vars => AddressShown'
  <2> SUFFICES ASSUME Typed, AddressShown, [Next]_vars
               PROVE  AddressShown'
    OBVIOUS
  <2>1. CASE UNCHANGED vars
    <3>1. sections' = sections /\ code' = code /\ request' = request /\ answer' = answer
      BY <2>1 DEF vars
    <3>2. /\ \A i : Owns(i, request.start)' <=> Owns(i, request.start)
          /\ \A s : Stored(s)' = Stored(s) /\ OutOfFile(s)' = OutOfFile(s)
          /\ \A a : LastBefore(a)' = LastBefore(a)
      BY <3>1 DEF Owns, Holds, Stored, OutOfFile, LastBefore
    <3>3. \A a, s, first, limit, stops :
            Lists(a, s, first, limit, stops)' <=> Lists(a, s, first, limit, stops)
      BY <3>1 DEF Lists, terminal
    <3> QED
      BY <3>1, <3>2, <3>3 DEF AddressShown, Answered, Least
  <2>2. CASE Next /\ request.view \notin {"addr", "range"}
    <3>1. UNCHANGED request
      BY <2>2 DEF Next, Answer, DisassembleFunction, DisassembleElfFunction, DisassembleSection,
                  DisassembleAll, DisassembleAddr, DisassembleRange, HexSection, HexAddr
    <3> QED
      BY <2>2, <3>1 DEF AddressShown, Answered
  <2>3. CASE Next /\ request.view \in {"addr", "range"}
    <3>1. DisassembleAddr \/ DisassembleRange
      BY <2>3 DEF Next, DisassembleFunction, DisassembleElfFunction, DisassembleSection,
                  DisassembleAll, DisassembleAddr, DisassembleRange, HexSection, HexAddr
    <3>2. UNCHANGED <<sections, code, request>>
      BY <3>1 DEF DisassembleAddr, DisassembleRange, Answer
    <3>3. request.start \in Word
      BY <2>3, RequestParts
    <3> DEFINE end(s) == s.address + s.size
               limit == IF request.view = "addr" THEN request.start + Cap ELSE request.end + 1
    <3>4. ASSUME NEW i \in DOMAIN sections, Owns(i, request.start)
          PROVE  /\ sections[i].executable /\ Stored(sections[i]) /\ LastBefore(sections[i].address) =>
                      Lists(answer', sections[i], request.start, Least(limit, end(sections[i])),
                            request.view = "addr")
                 /\ ~sections[i].executable \/ OutOfFile(sections[i]) => ~answer'.ok
      <4>1. /\ section_containing(request.start) = {sections[i]}
            /\ Minus(request.start, sections[i].address) \in Nat
            /\ Minus(request.start, sections[i].address) < sections[i].size
        BY <3>3, <3>4, SectionFound
      <4>2. CASE ~sections[i].executable \/ OutOfFile(sections[i])
        <5>1. OutOfFile(sections[i]) => ~(Minus(request.start, sections[i].address) < backed(sections[i]))
          BY <4>1, OutOfFileParts
        <5>2. code_section(request.start) = {}
          BY <4>1, <4>2, <5>1 DEF code_section
        <5>3. answer' = Failed
          BY <3>1, <5>2 DEF DisassembleAddr, DisassembleRange, Answer
        <5>4. ~(sections[i].executable /\ Stored(sections[i]))
          BY <4>2, StoredIn
        <5> QED
          BY <5>3, <5>4 DEF Failed, Pending
      <4>3. ASSUME sections[i].executable, Stored(sections[i]), LastBefore(sections[i].address)
            PROVE  Lists(answer', sections[i], request.start, Least(limit, end(sections[i])),
                         request.view = "addr")
        <5>1. code_section(request.start) # {}
          BY <4>1, <4>3, StoredIn, InFileParts DEF code_section
        <5>2. CASE request.view = "addr"
          <6>1. LET s == CHOOSE s \in code_section(request.start) : TRUE
                    n == Least(backed(s), Minus(request.start, s.address) + Cap)
                IN answer' = trim_after_first_terminal(disassemble_window(s, request.start, n))
            BY <3>1, <5>1, <5>2 DEF DisassembleAddr, DisassembleRange, Answer
          <6>2. Lists(answer', sections[i], request.start,
                      Least(request.start + Cap, sections[i].address + sections[i].size), TRUE)
            BY <3>3, <3>4, <4>3, <6>1, AddressListed
          <6> QED
            BY <5>2, <6>2
        <5>3. CASE request.view = "range"
          <6>1. LET s == CHOOSE s \in code_section(request.start) : TRUE
                    n == range_end(s, Minus(request.start, s.address), request.end)
                IN answer' = disassemble_window(s, request.start, n)
            BY <3>1, <5>1, <5>3 DEF DisassembleAddr, DisassembleRange, Answer
          <6>2. /\ request.end \in Word /\ request.start <= request.end
                /\ request.end - sections[i].address < Words - 1
            BY <4>3, <5>3, RequestParts DEF LastBefore
          <6>3. Lists(answer', sections[i], request.start,
                      Least(request.end + 1, sections[i].address + sections[i].size), FALSE)
            BY <3>3, <3>4, <4>3, <6>1, <6>2, RangeListed
          <6> QED
            BY <5>3, <6>3
        <5> QED
          BY <2>3, <5>2, <5>3
      <4>4. Stored(sections[i]) => ~OutOfFile(sections[i])
        BY StoredIn
      <4> QED
        BY <4>2, <4>3, <4>4
    <3>5. ASSUME NEW i \in DOMAIN sections, Owns(i, request.start)
          PROVE  (/\ sections[i].executable /\ Stored(sections[i]) /\ LastBefore(sections[i].address) =>
                       Lists(answer, sections[i], request.start, Least(limit, end(sections[i])),
                             request.view = "addr")
                  /\ ~sections[i].executable \/ OutOfFile(sections[i]) => ~answer.ok)'
      <4>1. /\ Stored(sections[i])' = Stored(sections[i]) /\ OutOfFile(sections[i])' = OutOfFile(sections[i])
            /\ LastBefore(sections[i].address)' = LastBefore(sections[i].address)
            /\ Lists(answer, sections[i], request.start, Least(limit, end(sections[i])),
                     request.view = "addr")'
                 = Lists(answer', sections[i], request.start, Least(limit, end(sections[i])),
                         request.view = "addr")
        BY <3>2 DEF Stored, OutOfFile, LastBefore, Lists, terminal, Least
      <4> QED
        BY <3>2, <3>4, <3>5, <4>1
    <3>6. \A i : Owns(i, request.start)' <=> Owns(i, request.start)
      BY <3>2 DEF Owns, Holds
    <3> QED
      BY <3>2, <3>5, <3>6 DEF AddressShown, Answered
  <2> QED
    BY <2>1, <2>2, <2>3
<1> QED
  BY <1>1, <1>2, TypedCorrect, PTL DEF Spec

\* OverloadsAgree: the two overloads of disassemble_function answer alike when the symbol
\* stays in its section (disasm.cpp:455-510, 653-668, 697-742).
THEOREM OverloadsAgreeAlways ==
  ASSUME ExecutablesApart
  PROVE  Spec => []OverloadsAgree
<1>1. Typed => OverloadsAgree
  <2> DEFINE s == sections[request.index]
             start == request.start
             size == request.size
  <2> SUFFICES ASSUME Typed, request.view \in {"function", "elf_function"}, s.executable, Stored(s),
                      start + size <= s.address + s.size
               PROVE  disassemble_elf_function(request.index, start, size)
                        = disassemble_function(start, size)
    BY DEF OverloadsAgree, Answered
  <2>1. start \in Word /\ size \in Nat /\ request.index \in DOMAIN sections /\ start \in Nat
    BY RequestParts, ViewConstants DEF Word
  <2>2. /\ InImage(s) /\ backed(s) = s.size /\ s.address \in Nat /\ s.size \in Nat /\ ~s.nobits
        /\ s.offset \in Nat
    BY <2>1, SectionParts, StoredIn, InFileParts
  <2>3. start - s.address \in 0..(s.size - 1)
    BY DEF Typed
  <2>4. start >= s.address /\ start - s.address <= s.size /\ size <= s.size - (start - s.address)
    BY <2>1, <2>2, <2>3
  <2>5. Holds(s, start)
    BY <2>1, <2>2, <2>3 DEF Holds
  <2>6. executable_containing(start) = {s} /\ Minus(start, s.address) = start - s.address
    BY <2>1, <2>5, ExecutableFound
  <2>7. containing_executable_section(request.index, start) = {s}
    BY DEF containing_executable_section
  <2> HIDE DEF s, start, size
  <2> DEFINE reply == trimmed_if(size = 0, disassemble_bytes(
                        start, s.offset + (start - s.address), function_end(s, start, size)))
  <2>8. disassemble_function(start, size) = reply
    <3>1. (CHOOSE x \in executable_containing(start) : TRUE) = s
      BY <2>6
    <3>2. \E x \in executable_containing(start) : Minus(start, x.address) <= backed(x)
      BY <2>2, <2>4, <2>6
    <3> QED
      BY <2>6, <3>1, <3>2 DEF disassemble_function
  <2>9. disassemble_elf_function(request.index, start, size) = reply
    <3>1. (CHOOSE x \in containing_executable_section(request.index, start) : TRUE) = s
      BY <2>7
    <3>2. \E x \in containing_executable_section(request.index, start) :
            /\ start >= x.address /\ ~x.nobits /\ InImage(x)
            /\ start - x.address <= x.size /\ size <= x.size - (start - x.address)
      BY <2>2, <2>4, <2>7
    <3> QED
      BY <3>1, <3>2 DEF disassemble_elf_function
  <2> QED
    BY <2>8, <2>9
<1> QED
  BY <1>1, TypedCorrect, PTL

-----------------------------------------------------------------------------
(* The dumps *)

\* The bytes of a dump, one by one.
LEMMA BytesShown ==
  ASSUME NEW base \in Nat, NEW from \in Nat, NEW n \in Nat, base + n <= Words
  PROVE  /\ Len(bytes_shown(base, from, n)) = n /\ DOMAIN bytes_shown(base, from, n) = 1..n
         /\ \A i \in 1..n : bytes_shown(base, from, n)[i]
                              = [address |-> base + i - 1, pos |-> from + i - 1]
<1>1. \A i \in 1..n : Plus(base, i - 1) = base + i - 1
  <2> SUFFICES ASSUME NEW i \in 1..n
               PROVE  Plus(base, i - 1) = base + i - 1
    OBVIOUS
  <2>1. i - 1 \in Nat /\ base + (i - 1) < Words
    BY ViewConstants
  <2> QED
    BY <2>1, SameSum
<1> QED
  BY <1>1 DEF bytes_shown

\* What a dump from an address is, by the section that has the address.
LEMMA DumpIs ==
  ASSUME Typed, NoWrap, NEW start \in Word, NEW i \in DOMAIN sections, Owns(i, start),
         ~OutOfFile(sections[i]), NEW length \in Nat, NEW explicit \in BOOLEAN,
         NEW a, a = dump(sections[i], start, length, explicit)
  PROVE  LET s == sections[i]
             n == Least(length, s.address + s.size - start)
         IN /\ a.done /\ a.ok /\ Len(a.shown) = n /\ DOMAIN a.shown = 1..n
            /\ \A k \in 1..n : a.shown[k] = [address |-> start + k - 1,
                                              pos |-> s.offset + (start + k - 1 - s.address)]
            /\ a.note = (explicit /\ length > n)
<1> DEFINE s == sections[i]
           off == start - s.address
           n == Least(length, s.size - off)
<1>1. /\ backed(s) = s.size /\ s.address \in Nat /\ s.offset \in Nat /\ s.size \in Nat
      /\ s.address + s.size < Words
  BY SectionParts, InFileParts DEF NoWrap, Typed
<1>2. Minus(start, s.address) = off /\ off \in Nat /\ off < s.size
  BY SectionFound
<1>3. start \in Nat
  BY DEF Word
<1> HIDE DEF s
<1>4. s.size - off = s.address + s.size - start
  BY <1>1, <1>3
<1>5. n \in Nat /\ start + n <= Words /\ n <= s.size - off
  <2>1. s.size - off \in Nat /\ start + (s.size - off) < Words
    BY <1>1, <1>2, <1>3, <1>4
  <2> HIDE DEF off
  <2>2. n \in Nat /\ n <= s.size - off
    BY <2>1 DEF Least
  <2> HIDE DEF n
  <2> QED
    BY <1>3, <2>1, <2>2, ViewConstants
<1>6. a = [Shown(bytes_shown(start, s.offset + off, n)) EXCEPT !.note = explicit /\ length > s.size - off]
  BY <1>1, <1>2 DEF dump, s
<1> HIDE DEF off
<1>7. s.offset + off \in Nat
  BY <1>1, <1>2
<1> HIDE DEF n
<1>8. /\ Len(bytes_shown(start, s.offset + off, n)) = n
      /\ DOMAIN bytes_shown(start, s.offset + off, n) = 1..n
      /\ \A k \in 1..n : bytes_shown(start, s.offset + off, n)[k]
                           = [address |-> start + k - 1, pos |-> (s.offset + off) + k - 1]
  BY <1>3, <1>5, <1>7, BytesShown
<1>9. /\ a.shown = bytes_shown(start, s.offset + off, n) /\ a.done /\ a.ok
      /\ a.note = (explicit /\ length > s.size - off)
  BY <1>6 DEF Shown, Failed, Pending
<1>10. (length > s.size - off) <=> (length > n)
  BY <1>1, <1>2 DEF n, Least
<1>11. \A k \in 1..n : (s.offset + off) + k - 1 = s.offset + (start + k - 1 - s.address)
  BY <1>1, <1>3, <1>5 DEF off
<1>12. n = Least(length, s.address + s.size - start)
  BY <1>4 DEF n
<1> QED
  BY <1>8, <1>9, <1>10, <1>11, <1>12 DEF s

\* A dump from a section outside the file is empty.
LEMMA NoDumpIs ==
  ASSUME Typed, NoWrap, NEW start \in Word, NEW i \in DOMAIN sections, Owns(i, start),
         OutOfFile(sections[i]), NEW length, NEW explicit,
         NEW a, a = dump(sections[i], start, length, explicit)
  PROVE  a.ok /\ a.shown = <<>>
<1>1. backed(sections[i]) = 0 /\ Minus(start, sections[i].address) \in Nat
  BY OutOfFileParts, SectionFound
<1>2. ~(Minus(start, sections[i].address) < backed(sections[i]))
  BY <1>1
<1> QED
  BY <1>2 DEF dump, Shown, Failed, Pending

\* How many bytes were asked for is no sum that wrapped.
LEMMA AskedIs ==
  ASSUME Typed, request.view \in {"hex_addr", "hex_range"}, LastBefore(request.start)
  PROVE  /\ AskedBytes \in Nat
         /\ AskedBytes = CASE request.view = "hex_range" -> Plus(Minus(request.end, request.start), 1)
                           [] request.view = "hex_addr" /\ request.count = Absent -> Cap
                           [] OTHER -> request.count
<1>1. request.start \in Word /\ request.start \in Nat
  BY RequestParts DEF Word
<1>2. CASE request.view = "hex_range"
  <2> DEFINE start == request.start
             last == request.end
  <2>1. last \in Word /\ start <= last
    BY <1>2, RequestParts
  <2>2. Minus(last, start) = last - start
    BY <1>1, <2>1, SameDifference
  <2>3. last - start \in Nat /\ (last - start) + 1 < Words
    BY <1>1, <1>2, <2>1, ViewConstants DEF Word, LastBefore
  <2>4. Plus(last - start, 1) = (last - start) + 1
    <3> HIDE DEF last, start
    <3> QED
      BY <2>3, SameSum
  <2>5. AskedBytes = (last - start) + 1
    BY <1>2 DEF AskedBytes
  <2>6. AskedBytes = Plus(Minus(last, start), 1)
    BY <2>2, <2>4, <2>5
  <2> QED
    BY <1>2, <2>3, <2>5, <2>6
<1>3. CASE request.view = "hex_addr"
  <2>1. request.count \in {Absent} \cup 0..ImageSize
    BY <1>3, RequestParts
  <2>2. AskedBytes = IF request.count = Absent THEN Cap ELSE request.count
    BY <1>3 DEF AskedBytes
  <2> QED
    BY <1>3, <2>1, <2>2, ViewConstants DEF Absent
<1> QED
  BY <1>2, <1>3

Explicit == request.view = "hex_range" \/ request.count # Absent

\* The answer of run_hex for an address.
LEMMA HexAddrIs ==
  ASSUME Typed, NoWrap, HexAddr, LastBefore(request.start),
         NEW i \in DOMAIN sections, Owns(i, request.start)
  PROVE  answer' = dump(sections[i], request.start, AskedBytes, Explicit)
<1>1. request.view \in {"hex_addr", "hex_range"} /\ request.start \in Word
  BY RequestParts DEF HexAddr
<1>2. section_containing(request.start) = {sections[i]}
  BY <1>1, SectionFound
<1>3. (CHOOSE s \in section_containing(request.start) : TRUE) = sections[i]
  BY <1>2
<1>4. answer' = dump(CHOOSE s \in section_containing(request.start) : TRUE, request.start,
                     AskedBytes, Explicit)
  BY <1>1, <1>2, AskedIs DEF HexAddr, Answer, Explicit
<1> QED
  BY <1>3, <1>4

\* DumpShown: a dump shows, under each address from the first, the byte that is there, as many
\* as were asked for or the section has; of a section outside the file, none
\* (cli.cpp:1044-1062).
THEOREM DumpShownAlways ==
  ASSUME NoWrap
  PROVE  Spec => []DumpShown
<1>1. Init => DumpShown
  BY DEF Init, DumpShown, Answered, Pending
<1>2. Typed /\ DumpShown /\ [Next]_vars => DumpShown'
  <2> SUFFICES ASSUME Typed, DumpShown, [Next]_vars
               PROVE  DumpShown'
    OBVIOUS
  <2>1. CASE UNCHANGED vars
    BY <2>1 DEF vars, DumpShown, Answered, Owns, Holds, AskedBytes, Least, Stored, OutOfFile,
                LastBefore
  <2>2. CASE Next /\ request.view \notin {"hex_addr", "hex_range"}
    <3>1. UNCHANGED request
      BY <2>2 DEF Next, Answer, DisassembleFunction, DisassembleElfFunction, DisassembleSection,
                  DisassembleAll, DisassembleAddr, DisassembleRange, HexSection, HexAddr
    <3> QED
      BY <2>2, <3>1 DEF DumpShown, Answered
  <2>3. CASE Next /\ request.view \in {"hex_addr", "hex_range"}
    <3>1. HexAddr
      BY <2>3 DEF Next, DisassembleFunction, DisassembleElfFunction, DisassembleSection,
                  DisassembleAll, DisassembleAddr, DisassembleRange, HexSection, HexAddr
    <3>2. UNCHANGED <<sections, code, request>>
      BY <3>1 DEF HexAddr, Answer
    <3>3. request.start \in Word /\ Explicit \in BOOLEAN
      BY <2>3, RequestParts DEF Explicit
    <3>4. ASSUME LastBefore(request.start), NEW i \in DOMAIN sections, Owns(i, request.start)
          PROVE  LET s == sections[i]
                     n == Least(AskedBytes, s.address + s.size - request.start)
                 IN /\ answer'.ok
                    /\ OutOfFile(s) => answer'.shown = <<>>
                    /\ Stored(s) =>
                         /\ Len(answer'.shown) = n /\ DOMAIN answer'.shown = 1..n
                         /\ \A k \in 1..n : answer'.shown[k] =
                              [address |-> request.start + k - 1,
                               pos |-> s.offset + (request.start + k - 1 - s.address)]
      <4>1. answer' = dump(sections[i], request.start, AskedBytes, Explicit)
        BY <3>1, <3>4, HexAddrIs
      <4>2. AskedBytes \in Nat
        BY <2>3, <3>4, AskedIs
      <4>3. CASE OutOfFile(sections[i])
        <5>1. answer'.ok /\ answer'.shown = <<>>
          BY <3>3, <3>4, <4>1, <4>3, NoDumpIs
        <5> QED
          BY <4>3, <5>1, StoredIn
      <4>4. CASE ~OutOfFile(sections[i])
        <5> DEFINE n == Least(AskedBytes, sections[i].address + sections[i].size - request.start)
        <5>1. /\ answer'.ok /\ Len(answer'.shown) = n /\ DOMAIN answer'.shown = 1..n
              /\ \A k \in 1..n : answer'.shown[k] =
                   [address |-> request.start + k - 1,
                    pos |-> sections[i].offset + (request.start + k - 1 - sections[i].address)]
          BY <3>3, <3>4, <4>1, <4>2, <4>4, DumpIs
        <5> QED
          BY <4>4, <5>1
      <4> QED
        BY <4>3, <4>4
    <3>5. /\ AskedBytes' = AskedBytes /\ \A i : Owns(i, request.start)' <=> Owns(i, request.start)
          /\ LastBefore(request.start)' = LastBefore(request.start)
          /\ \A s : Stored(s)' = Stored(s) /\ OutOfFile(s)' = OutOfFile(s)
      BY <3>2 DEF AskedBytes, Owns, Holds, LastBefore, Stored, OutOfFile
    <3>6. ASSUME LastBefore(request.start), NEW i \in DOMAIN sections, Owns(i, request.start)
          PROVE  (LET s == sections[i] IN
                  /\ answer.ok
                  /\ OutOfFile(s) => answer.shown = <<>>
                  /\ Stored(s) =>
                       /\ Len(answer.shown) = Least(AskedBytes, s.address + s.size - request.start)
                       /\ \A n \in DOMAIN answer.shown :
                            answer.shown[n] = [address |-> request.start + n - 1,
                                               pos |-> s.offset + (request.start + n - 1 - s.address)])'
      BY <3>2, <3>4, <3>5, <3>6
    <3> QED
      BY <3>2, <3>5, <3>6 DEF DumpShown, Answered
  <2> QED
    BY <2>1, <2>2, <2>3
<1> QED
  BY <1>1, <1>2, TypedCorrect, PTL DEF Spec

\* ShortDumpNoted: a dump that shows fewer bytes than were asked for says so, and no other
\* does, of a named section or from an address whose section is in the file (cli.cpp:993-994).
THEOREM ShortDumpNotedAlways ==
  ASSUME NoWrap
  PROVE  Spec => []ShortDumpNoted
<1>1. Init => ShortDumpNoted
  BY DEF Init, ShortDumpNoted, Answered, Pending
<1>2. Typed /\ ShortDumpNoted /\ [Next]_vars => ShortDumpNoted'
  <2> SUFFICES ASSUME Typed, ShortDumpNoted, [Next]_vars
               PROVE  ShortDumpNoted'
    OBVIOUS
  <2>1. CASE UNCHANGED vars
    BY <2>1 DEF vars, ShortDumpNoted, Answered, AskedBytes, Owns, Holds, OutOfFile, LastBefore
  <2>2. CASE Next /\ request.view \notin {"hex_section", "hex_addr", "hex_range"}
    <3>1. UNCHANGED request
      BY <2>2 DEF Next, Answer, DisassembleFunction, DisassembleElfFunction, DisassembleSection,
                  DisassembleAll, DisassembleAddr, DisassembleRange, HexSection, HexAddr
    <3> QED
      BY <2>2, <3>1 DEF ShortDumpNoted, Answered
  <2>3. CASE Next /\ request.view \in {"hex_addr", "hex_range"}
    <3>1. HexAddr
      BY <2>3 DEF Next, DisassembleFunction, DisassembleElfFunction, DisassembleSection,
                  DisassembleAll, DisassembleAddr, DisassembleRange, HexSection, HexAddr
    <3>2. UNCHANGED <<sections, code, request>>
      BY <3>1 DEF HexAddr, Answer
    <3>3. /\ AskedBytes' = AskedBytes /\ Explicit' = Explicit
          /\ LastBefore(request.start)' = LastBefore(request.start)
          /\ \A i : Owns(i, request.start)' = Owns(i, request.start)
          /\ \A s : OutOfFile(s)' = OutOfFile(s)
      BY <3>2 DEF AskedBytes, Explicit, Owns, Holds, LastBefore, OutOfFile
    <3>4. ASSUME answer'.ok, Explicit, LastBefore(request.start),
                 \A i \in DOMAIN sections : Owns(i, request.start) => ~OutOfFile(sections[i])
          PROVE  answer'.note <=> Len(answer'.shown) < AskedBytes
      <4>1. request.start \in Word /\ Explicit \in BOOLEAN /\ AskedBytes \in Nat
        BY <2>3, <3>4, AskedIs, RequestParts DEF Explicit
      <4>2. section_containing(request.start) # {}
        <5>1. section_containing(request.start) = {} => answer' = Failed
          BY <3>1 DEF HexAddr, Answer
        <5> QED
          BY <3>4, <5>1 DEF Failed, Pending
      <4>3. PICK i \in DOMAIN sections : Owns(i, request.start)
        BY <4>1, <4>2, FoundOwns
      <4>4. answer' = dump(sections[i], request.start, AskedBytes, Explicit)
        BY <3>1, <3>4, <4>3, HexAddrIs
      <4> DEFINE n == Least(AskedBytes, sections[i].address + sections[i].size - request.start)
      <4> HIDE DEF n
      <4>5. Len(answer'.shown) = n /\ answer'.note = (Explicit /\ AskedBytes > n)
        <5>1. ~OutOfFile(sections[i])
          BY <3>4, <4>3
        <5> QED
          BY <4>1, <4>3, <4>4, <5>1, DumpIs DEF n
      <4>6. n \in Int
        <5>1. sections[i].address + sections[i].size - request.start \in Int
          BY <4>1, SectionParts DEF Word
        <5> QED
          BY <4>1, <5>1 DEF n, Least
      <4> QED
        BY <3>4, <4>1, <4>5, <4>6
    <3>5. ASSUME (/\ Answered({"hex_section", "hex_addr", "hex_range"}) /\ answer.ok /\ Explicit
                  /\ LastBefore(request.start)
                  /\ \A i \in DOMAIN sections : Owns(i, request.start) => ~OutOfFile(sections[i]))'
          PROVE  (answer.note <=> Len(answer.shown) < AskedBytes)'
      BY <3>2, <3>3, <3>4, <3>5
    <3>6. request'.view # "hex_section"
      BY <2>3, <3>2
    <3> QED
      BY <3>5, <3>6 DEF ShortDumpNoted, Explicit
  <2>4. CASE Next /\ request.view = "hex_section"
    <3>1. HexSection
      BY <2>4 DEF Next, DisassembleFunction, DisassembleElfFunction, DisassembleSection,
                  DisassembleAll, DisassembleAddr, DisassembleRange, HexSection, HexAddr
    <3>2. UNCHANGED <<sections, code, request>>
      BY <3>1 DEF HexSection, Answer
    <3> DEFINE s == sections[request.index]
               asked == request.count
               held == backed(s)
               n == Least(asked, held)
    <3>3. ASSUME asked # Absent
          PROVE  answer'.note <=> Len(answer'.shown) < asked
      <4>1. held \in Nat
        BY <2>4, RequestParts, SectionParts DEF backed
      <4>2. asked \in Nat
        BY <2>4, <3>3, RequestParts, ViewConstants
      <4>3. answer' = [Shown(bytes_shown(s.address, s.offset, n)) EXCEPT !.note = asked > held]
        BY <3>1, <3>3 DEF HexSection, Answer
      <4> HIDE DEF s, asked, held
      <4>4. n \in Nat /\ (asked > held <=> n < asked)
        BY <4>1, <4>2 DEF Least
      <4> HIDE DEF n
      <4>5. Len(bytes_shown(s.address, s.offset, n)) = n
        BY <4>4 DEF bytes_shown
      <4> QED
        BY <4>3, <4>4, <4>5 DEF Shown, Failed, Pending
    <3>4. AskedBytes = asked \/ asked = Absent
      BY <2>4 DEF AskedBytes
    <3>5. AskedBytes' = AskedBytes
      BY <3>2 DEF AskedBytes
    <3>6. ASSUME asked # Absent
          PROVE  (answer.note <=> Len(answer.shown) < AskedBytes)'
      BY <3>3, <3>4, <3>5, <3>6
    <3> QED
      BY <2>4, <3>2, <3>6 DEF ShortDumpNoted, Answered
  <2> QED
    BY <2>1, <2>2, <2>3, <2>4
<1> QED
  BY <1>1, <1>2, TypedCorrect, PTL DEF Spec

-----------------------------------------------------------------------------
(* All executable sections: a recursive function along the section table *)

listed(s) == s.executable /\ s.size # 0 /\ disassemble_section(s).ok
joined(u, i) ==
  IF i = 0 THEN <<>>
  ELSE IF listed(sections[i]) THEN u[i - 1] \o disassemble_section(sections[i]).shown
  ELSE u[i - 1]

\* The listings can be joined section by section.
LEMMA JoinedExists ==
  ASSUME NEW n \in Nat
  PROVE  \E u : u = [i \in 0..n |-> u[i]] /\ \A i \in 0..n : u[i] = joined(u, i)
<1> DEFINE Solved(m) == \E u : \A i \in 0..m : u[i] = joined(u, i)
           Bad == {m \in 0..n : ~Solved(m)}
<1>1. Solved(0)
  <2> DEFINE u == [i \in 0..0 |-> <<>>]
  <2>1. \A i \in 0..0 : u[i] = joined(u, i)
    BY DEF joined
  <2> HIDE DEF u
  <2> QED
    BY <2>1
<1>2. ASSUME NEW m \in Nat, Solved(m)
      PROVE  Solved(m + 1)
  <2>1. PICK u : \A i \in 0..m : u[i] = joined(u, i)
    BY <1>2
  <2> DEFINE v == [i \in 0..(m + 1) |-> IF i = m + 1 THEN joined(u, i) ELSE u[i]]
  <2>2. \A i \in 0..m : v[i] = u[i]
    OBVIOUS
  <2>3. v[m + 1] = joined(u, m + 1)
    OBVIOUS
  <2> HIDE DEF v
  <2>4. ASSUME NEW i \in 0..(m + 1)
        PROVE  joined(v, i) = joined(u, i)
    <3>1. i # 0 => i - 1 \in 0..m
      OBVIOUS
    <3> QED
      BY <2>2, <3>1 DEF joined
  <2>5. \A i \in 0..(m + 1) : i \in 0..m \/ i = m + 1
    OBVIOUS
  <2>6. \A i \in 0..(m + 1) : v[i] = joined(v, i)
    BY <2>1, <2>2, <2>3, <2>4, <2>5
  <2> QED
    BY <2>6
<1> HIDE DEF Solved
<1>3. Bad = {}
  <2> SUFFICES ASSUME Bad # {}
               PROVE  FALSE
    OBVIOUS
  <2>1. Bad \subseteq Nat
    OBVIOUS
  <2> HIDE DEF Bad
  <2>2. PICK m \in Bad : \A y \in Bad : ~(y < m)
    BY <2>1, LeastMember
  <2> USE DEF Bad
  <2>3. m \in 1..n /\ ~Solved(m)
    BY <1>1, <2>2
  <2>4. m - 1 \in 0..n /\ m - 1 < m /\ m - 1 \in Nat /\ (m - 1) + 1 = m
    BY <2>3
  <2>5. Solved(m - 1)
    BY <2>2, <2>4
  <2> QED
    BY <1>2, <2>3, <2>4, <2>5
<1>4. Solved(n)
  BY <1>3
<1>5. PICK g : \A i \in 0..n : g[i] = joined(g, i)
  BY <1>4 DEF Solved
<1> DEFINE u == [i \in 0..n |-> g[i]]
<1>6. \A i \in 0..n : u[i] = g[i]
  OBVIOUS
<1>7. u = [i \in 0..n |-> u[i]]
  OBVIOUS
<1> HIDE DEF u
<1>8. ASSUME NEW i \in 0..n
      PROVE  joined(u, i) = joined(g, i)
  <2>1. i # 0 => i - 1 \in 0..n
    OBVIOUS
  <2> QED
    BY <1>6, <2>1 DEF joined
<1>9. \A i \in 0..n : u[i] = joined(u, i)
  BY <1>5, <1>6, <1>8
<1> QED
  BY <1>7, <1>9

\* What is concatenated has the entries of both parts.
LEMMA ConcatRange ==
  ASSUME NEW S, NEW a \in Seq(S), NEW b \in Seq(S)
  PROVE  a \o b \in Seq(S) /\ Range(a) \subseteq Range(a \o b) /\ Range(b) \subseteq Range(a \o b)
<1>1. /\ a \o b \in Seq(S) /\ Len(a \o b) = Len(a) + Len(b)
      /\ \A i \in 1..(Len(a) + Len(b)) : (a \o b)[i] = IF i <= Len(a) THEN a[i] ELSE b[i - Len(a)]
  BY ConcatProperties
<1>2. Len(a) \in Nat /\ Len(b) \in Nat /\ DOMAIN a = 1..Len(a) /\ DOMAIN b = 1..Len(b)
  OBVIOUS
<1> DEFINE c == a \o b
<1>3. DOMAIN c = 1..(Len(a) + Len(b))
  BY <1>1
<1>4. \A i \in 1..Len(a) : i \in DOMAIN c /\ c[i] = a[i]
  BY <1>1, <1>2, <1>3
<1>5. ASSUME NEW i \in 1..Len(b)
      PROVE  i + Len(a) \in DOMAIN c /\ c[i + Len(a)] = b[i]
  <2>1. i + Len(a) \in 1..(Len(a) + Len(b)) /\ ~(i + Len(a) <= Len(a)) /\ (i + Len(a)) - Len(a) = i
    BY <1>2
  <2> QED
    BY <1>1, <1>3, <2>1
<1> HIDE DEF c
<1>6. Range(a) \subseteq Range(c) /\ Range(b) \subseteq Range(c)
  BY <1>2, <1>4, <1>5 DEF Range
<1> QED
  BY <1>1, <1>6 DEF c

\* A section's listing is one of its window, from its first byte.
LEMMA SectionDecoded ==
  ASSUME Typed, NEW i \in DOMAIN sections, sections[i].size # 0, ~OutOfFile(sections[i])
  PROVE  LET s == sections[i]
             items == decode(s.address, s.offset, s.offset + s.size)
         IN /\ Decoded(items, s.offset, s.address, s.offset, s.offset + s.size)
            /\ disassemble_section(s).shown = items
            /\ disassemble_section(s).ok <=> items # <<>>
<1> DEFINE s == sections[i]
           to == s.offset + s.size
           items == decode(s.address, s.offset, to)
<1>1. /\ backed(s) = s.size /\ s.offset + s.size <= ImageSize /\ s.address \in Nat
      /\ s.offset \in Nat /\ s.size \in Nat /\ s.size # 0
  BY SectionParts, InFileParts
<1>2. s.offset \in 0..ImageSize /\ to \in 0..ImageSize /\ s.offset < to
  BY <1>1, ViewConstants
<1>3. Coded
  BY ViewConstants DEF Typed, Coded
<1> HIDE DEF s
<1>4. disassemble_section(s) = IF items = <<>> THEN Failed ELSE Shown(items)
  BY <1>1, <1>2 DEF disassemble_section, disassemble_bytes
<1>5. Decoded(items, s.offset, s.address, s.offset, to)
  BY <1>1, <1>2, <1>3, DecodeDecoded
<1> HIDE DEF items
<1>6. disassemble_section(s).shown = items /\ (disassemble_section(s).ok <=> items # <<>>)
  BY <1>4 DEF Shown, Failed, Pending
<1> QED
  BY <1>5, <1>6 DEF items, s

\* One outside the file has none.
LEMMA NothingDecoded ==
  ASSUME Typed, NEW i \in DOMAIN sections, OutOfFile(sections[i])
  PROVE  disassemble_section(sections[i]).shown = <<>>
<1> DEFINE s == sections[i]
<1>1. backed(s) = 0 /\ s.offset \in Nat
  BY SectionParts, OutOfFileParts
<1> HIDE DEF s
<1>2. s.offset + backed(s) = s.offset /\ ~(s.offset < s.offset)
  BY <1>1
<1>3. decode(s.address, s.offset, s.offset + backed(s)) = <<>>
  BY <1>2 DEF decode
<1>4. disassemble_section(s) = Shown(<<>>)
  BY <1>2, <1>3 DEF disassemble_section, disassemble_bytes
<1> QED
  BY <1>4 DEF Shown, Failed, Pending, s

\* The answer of -D has every entry of every section that is listed.
LEMMA AllIs ==
  ASSUME Typed, DisassembleAll
  PROVE  \A i \in DOMAIN sections : listed(sections[i]) =>
           Range(disassemble_section(sections[i]).shown) \subseteq Range(answer'.shown)
<1> DEFINE n == Len(sections)
           shown(i) == disassemble_section(sections[i]).shown
<1>1. n \in Nat /\ DOMAIN sections = 1..n
  BY ViewConstants DEF Typed
<1>2. PICK w : w = [i \in 0..n |-> w[i]] /\ \A i \in 0..n : w[i] = joined(w, i)
  BY <1>1, JoinedExists
<1>3. w = [i \in 0..n |-> joined(w, i)]
  BY <1>2
<1>4. \E u : /\ u = [i \in 0..n |-> joined(u, i)]
             /\ answer' = IF \A s \in Range(sections) : ~listed(s) THEN Failed ELSE Shown(u[n])
  BY <1>3 DEF DisassembleAll, Answer, joined, listed
<1>5. PICK u : /\ u = [i \in 0..n |-> joined(u, i)]
               /\ answer' = IF \A s \in Range(sections) : ~listed(s) THEN Failed ELSE Shown(u[n])
  BY <1>4
<1>6. \A i \in 0..n : u[i] = joined(u, i)
  BY <1>5
<1>7. \A i \in 1..n : listed(sections[i]) => shown(i) \in Seq(Entries)
  <2> SUFFICES ASSUME NEW i \in 1..n, listed(sections[i])
               PROVE  shown(i) \in Seq(Entries)
    OBVIOUS
  <2>1. sections[i].size # 0
    BY DEF listed
  <2>2. CASE OutOfFile(sections[i])
    <3>1. shown(i) = <<>>
      BY <1>1, <2>2, NothingDecoded
    <3> QED
      BY <3>1
  <2>3. CASE ~OutOfFile(sections[i])
    BY <1>1, <2>1, <2>3, SectionDecoded DEF Decoded
  <2> QED
    BY <2>2, <2>3
<1> HIDE DEF shown, n
<1> DEFINE Has(i) == /\ u[i] \in Seq(Entries)
                     /\ \A j \in 1..i : listed(sections[j]) => Range(shown(j)) \subseteq Range(u[i])
           Bad == {i \in 0..n : ~Has(i)}
<1>8. Has(0)
  <2>1. u[0] = <<>>
    BY <1>1, <1>6 DEF joined
  <2> QED
    BY <2>1
<1>9. ASSUME NEW i \in 1..n, Has(i - 1)
      PROVE  Has(i)
  <2>1. i \in 0..n /\ i # 0 /\ \A j \in 1..i : j \in 1..(i - 1) \/ j = i
    BY <1>1
  <2>2. u[i] = IF listed(sections[i]) THEN u[i - 1] \o shown(i) ELSE u[i - 1]
    BY <1>6, <2>1 DEF joined, shown
  <2>3. CASE listed(sections[i])
    <3>1. /\ u[i] \in Seq(Entries) /\ Range(u[i - 1]) \subseteq Range(u[i])
          /\ Range(shown(i)) \subseteq Range(u[i])
      BY <1>7, <1>9, <2>2, <2>3, ConcatRange
    <3> QED
      BY <1>9, <2>1, <3>1
  <2>4. CASE ~listed(sections[i])
    BY <1>9, <2>1, <2>2, <2>4
  <2> QED
    BY <2>3, <2>4
<1> HIDE DEF Has
<1>10. Bad = {}
  <2> SUFFICES ASSUME Bad # {}
               PROVE  FALSE
    OBVIOUS
  <2>1. Bad \subseteq Nat
    BY <1>1
  <2> HIDE DEF Bad
  <2>2. PICK i \in Bad : \A y \in Bad : ~(y < i)
    BY <2>1, LeastMember
  <2> USE DEF Bad
  <2>3. i \in 1..n /\ ~Has(i)
    BY <1>1, <1>8, <2>2
  <2>4. i - 1 \in 0..n /\ i - 1 < i
    BY <1>1, <2>3
  <2> QED
    BY <1>9, <2>2, <2>3, <2>4
<1>11. Has(n)
  BY <1>1, <1>10
<1>12. ASSUME NEW i \in 1..n, listed(sections[i])
       PROVE  Range(shown(i)) \subseteq Range(answer'.shown)
  <2>1. sections[i] \in Range(sections)
    BY <1>1, <1>12 DEF Range
  <2>2. answer' = Shown(u[n])
    BY <1>5, <1>12, <2>1
  <2>3. answer'.shown = u[n]
    BY <2>2 DEF Shown, Failed, Pending
  <2> QED
    BY <1>11, <1>12, <2>3 DEF Has
<1> QED
  BY <1>1, <1>12 DEF shown

\* EverySectionListed: -D leaves out no executable section that begins with an instruction,
\* whatever the sections before it hold (cli.cpp:657-681).
THEOREM EverySectionListedAlways == Spec => []EverySectionListed
<1>1. Init => EverySectionListed
  BY DEF Init, EverySectionListed, Answered, Pending
<1>2. Typed /\ EverySectionListed /\ [Next]_vars => EverySectionListed'
  <2> SUFFICES ASSUME Typed, EverySectionListed, [Next]_vars
               PROVE  EverySectionListed'
    OBVIOUS
  <2>1. CASE UNCHANGED vars
    BY <2>1 DEF vars, EverySectionListed, Answered, Stored
  <2>2. CASE Next /\ request.view # "all"
    <3>1. UNCHANGED request
      BY <2>2 DEF Next, Answer, DisassembleFunction, DisassembleElfFunction, DisassembleSection,
                  DisassembleAll, DisassembleAddr, DisassembleRange, HexSection, HexAddr
    <3> QED
      BY <2>2, <3>1 DEF EverySectionListed, Answered
  <2>3. CASE Next /\ request.view = "all"
    <3>1. DisassembleAll
      BY <2>3 DEF Next, DisassembleFunction, DisassembleElfFunction, DisassembleSection,
                  DisassembleAll, DisassembleAddr, DisassembleRange, HexSection, HexAddr
    <3>2. UNCHANGED <<sections, code, request>>
      BY <3>1 DEF DisassembleAll, Answer
    <3>3. ASSUME NEW i \in DOMAIN sections, sections[i].executable, Stored(sections[i]),
                 sections[i].size > 0, code[sections[i].offset].size \in 1..sections[i].size
          PROVE  [address |-> sections[i].address, pos |-> sections[i].offset] \in Range(answer'.shown)
      <4> DEFINE s == sections[i]
                 to == s.offset + s.size
                 items == decode(s.address, s.offset, to)
      <4>1. s.address \in Nat /\ s.offset \in Nat /\ s.size \in Nat
        BY SectionParts
      <4>2. /\ Decoded(items, s.offset, s.address, s.offset, to)
            /\ disassemble_section(s).shown = items
            /\ disassemble_section(s).ok <=> items # <<>>
        BY <3>3, <4>1, StoredIn, SectionDecoded
      <4>3. ~Stuck(s.offset, to)
        BY <3>3, <4>1 DEF Stuck
      <4> HIDE DEF items
      <4>4. items # <<>> /\ items \in Seq(Entries)
        BY <4>2, <4>3 DEF Decoded, after
      <4>5. 1 \in 1..Len(items) /\ DOMAIN items = 1..Len(items)
        BY <4>4
      <4>6. items[1].pos = s.offset
        BY <4>2, <4>4 DEF Decoded
      <4>7. items[1].address = s.address
        <5>1. items[1].address = s.address + (items[1].pos - s.offset)
          BY <4>2, <4>5 DEF Decoded
        <5> QED
          BY <4>1, <4>6, <5>1
      <4>8. items[1] = [address |-> s.address, pos |-> s.offset]
        <5>1. items[1] \in Entries
          BY <4>4, <4>5
        <5> QED
          BY <4>6, <4>7, <5>1 DEF Entries
      <4>9. items[1] \in Range(items)
        BY <4>5 DEF Range
      <4>10. listed(s)
        BY <3>3, <4>1, <4>2, <4>4 DEF listed
      <4>11. Range(items) \subseteq Range(answer'.shown)
        BY <3>1, <4>2, <4>10, AllIs
      <4> QED
        BY <4>8, <4>9, <4>11
    <3>4. ASSUME NEW s \in Range(sections), s.executable, Stored(s), s.size > 0,
                 code[s.offset].size \in 1..s.size
          PROVE  [address |-> s.address, pos |-> s.offset] \in Range(answer'.shown)
      <4>1. PICK i \in DOMAIN sections : s = sections[i]
        BY DEF Range
      <4> QED
        BY <3>3, <3>4, <4>1
    <3> QED
      BY <3>2, <3>4 DEF EverySectionListed, Answered, Stored
  <2> QED
    BY <2>1, <2>2, <2>3
<1> QED
  BY <1>1, <1>2, TypedCorrect, PTL DEF Spec
=============================================================================
