---------------------------- MODULE ResolverProofs ----------------------------
(***************************************************************************)
(* Proofs about the resolver: what the index says of the instructions of a  *)
(* program, for any number of symbols, relocations and instructions, and    *)
(* that the work of the demangler on any name stays within its budget.      *)
(***************************************************************************)
EXTENDS SymbolIndex, Demangler, FiniteSetTheorems, WellFoundedInduction, TLAPS

-----------------------------------------------------------------------------
(* What is asked of an object file.  Each theorem names what it needs. *)

Visible(o) == {s \in o.symbols : include_binary_symbol(s)}
Kept(r) == r.kind # "metadata" /\ ~r.internal
PltRelocations(o) == {i \in DOMAIN o.relocations : o.relocations[i].kind = "plt"}
Bytes(i) == i.address..(i.address + i.size - 1)
OwnOf(o, i) ==
  {r \in {o.relocations[j] : j \in DOMAIN o.relocations} :
     r.kind # "plt" /\ r.of = i.section /\ r.offset \in Bytes(i)}

\* Where the stubs are, with their header.
PltPlace(o) ==
  IF o.plt = 0 THEN {} ELSE o.plt..(o.plt + Cardinality(PltRelocations(o)) * EntrySize)

\* No two symbols share an address, and none is that of a stub.
SymbolsApart(o) ==
  /\ \A s, t \in Visible(o) : s.address = t.address => s.name = t.name
  /\ \A s \in Visible(o) : s.address \notin PltPlace(o)

\* What symbols stand for does not overlap, and an instruction lies in its function.
LaidOut(o) ==
  \E end \in [Visible(o) -> Nat] :
    /\ \A s, t \in Visible(o) : s.address < t.address => end[s] <= t.address
    /\ \A i \in o.code : \E s \in Visible(o) :
         /\ s.name = i.function /\ s.address <= i.address /\ i.address < end[s]
         /\ \A a \in PltPlace(o) : a < s.address \/ end[s] <= a

\* A stub has a name from the first to the last named one, and .plt a header as long
\* as a stub, as on x86-64.
StubsNamed(o) ==
  /\ HeaderSize = EntrySize
  /\ \A i, k \in PltRelocations(o) :
       k <= i /\ o.relocations[i].name # None =>
         o.relocations[k].name # None /\ ~o.relocations[k].internal

\* The offset of a relocation tells which section it is for: the program is linked, or
\* its code is one section.
OffsetsTell(o) ==
  \A i \in o.code : \A j \in DOMAIN o.relocations :
    LET r == o.relocations[j]
    IN Kept(r) /\ r.offset \in Bytes(i) => r.kind # "plt" /\ r.of = i.section

\* What a branch goes to is not two things, nor a label.
OneTarget(o) ==
  \A i \in o.code : i.branch =>
    \A r, q \in OwnOf(o, i) : Kept(r) /\ r.name = q.name

-----------------------------------------------------------------------------
(* The invariant: the tables and annotations are those of the object *)

Table == {[name |-> s.name, address |-> s.address] : s \in Visible(object)} \cup plt_symbols
References ==
  {[of |-> Relocation(i).of, offset |-> Relocation(i).offset, name |-> Relocation(i).name] :
     i \in kept_relocations}
Annotation(i) ==
  [code |-> i, symbol |-> nearest_symbol(i.address), reference |-> relocation_in_instruction(i),
   branch_target_symbol |-> IF i.target = Nowhere THEN {} ELSE symbol_at(i.target)]
Hits == {a \in bodies : references_symbol(a, query)}

Indexed ==
  /\ object \in Objects
  /\ stage \in {"load", "index", "annotated", "answered"}
  /\ stage # "load" => symbols = Table /\ references = References
  /\ annotated = IF stage \in {"load", "index"} THEN {} ELSE {Annotation(i) : i \in object.code}
  /\ IF stage = "answered"
     THEN xrefs = {a.code : a \in Hits} /\ callers = {a.code.function : a \in Hits}
     ELSE xrefs = {} /\ callers = {}

\* Every step keeps the tables those of the object.
LEMMA IndexedStep ==
  ASSUME Indexed, [Next]_vars
  PROVE  Indexed'
<1>1. CASE build_index
  <2>1. object' = object
    BY <1>1 DEF build_index
  <2>2. /\ Table' = Table /\ References' = References
    BY <2>1 DEF Table, References, Visible, plt_symbols, plt_relocation_names, slot,
       kept_relocations, Relocation
  <2>3. symbols' = Table /\ references' = References
    BY <1>1 DEF build_index, Table, References, Visible
  <2> QED
    BY <1>1, <2>1, <2>2, <2>3 DEF build_index, Indexed
<1>2. CASE annotate
  <2>1. UNCHANGED <<object, symbols, references, xrefs, callers>> /\ stage = "index" /\ stage' = "annotated"
    BY <1>2 DEF annotate
  <2>2. Table' = Table /\ References' = References
    BY <2>1 DEF Table, References, Visible, plt_symbols, plt_relocation_names, slot,
       kept_relocations, Relocation
  <2>3. \A i : Annotation(i)' = Annotation(i)
    BY <2>1 DEF Annotation, nearest_symbol, relocation_in_instruction, symbol_at
  <2>4. annotated' = {Annotation(i) : i \in object.code}
    BY <1>2 DEF annotate, Annotation
  <2> QED
    BY <2>1, <2>2, <2>3, <2>4 DEF Indexed
<1>3. CASE find_xrefs
  <2>1. UNCHANGED <<object, symbols, references, annotated, query>> /\ stage = "annotated" /\ stage' = "answered"
    BY <1>3 DEF find_xrefs
  <2>2. Table' = Table /\ References' = References
    BY <2>1 DEF Table, References, Visible, plt_symbols, plt_relocation_names, slot,
       kept_relocations, Relocation
  <2>3. \A i : Annotation(i)' = Annotation(i)
    BY <2>1 DEF Annotation, nearest_symbol, relocation_in_instruction, symbol_at
  <2>4. Hits' = Hits
    BY <2>1 DEF Hits, bodies, references_symbol
  <2>5. xrefs' = {a.code : a \in Hits} /\ callers' = {a.code.function : a \in Hits}
    BY <1>3 DEF find_xrefs, Hits
  <2> QED
    BY <2>1, <2>2, <2>3, <2>4, <2>5 DEF Indexed
<1>4. CASE UNCHANGED vars
  <2>1. UNCHANGED <<object, stage, symbols, references, annotated, query, xrefs, callers>>
    BY <1>4 DEF vars
  <2>2. Table' = Table /\ References' = References
    BY <2>1 DEF Table, References, Visible, plt_symbols, plt_relocation_names, slot,
       kept_relocations, Relocation
  <2>3. \A i : Annotation(i)' = Annotation(i)
    BY <2>1 DEF Annotation, nearest_symbol, relocation_in_instruction, symbol_at
  <2>4. Hits' = Hits
    BY <2>1 DEF Hits, bodies, references_symbol
  <2> QED
    BY <2>1, <2>2, <2>3, <2>4 DEF Indexed
<1> QED
  BY <1>1, <1>2, <1>3, <1>4 DEF Next

\* The tables and annotations are always those of the object (resolver.cpp:300-461).
THEOREM IndexedAlways == Spec => []Indexed
<1>1. Init => Indexed
  BY DEF Init, Indexed
<1>2. Indexed /\ [Next]_vars => Indexed'
  BY IndexedStep
<1> QED
  BY <1>1, <1>2, PTL DEF Spec

-----------------------------------------------------------------------------
(* The functions of instructions *)

\* What the constants' assumption says of the object.
LEMMA ObjectIs ==
  ASSUME Indexed
  PROVE  /\ object \in Objects /\ object.plt \in Nat /\ object.relocations \in Seq(Relocations)
         /\ \A s \in Visible(object) : s.address \in Nat /\ s.name \in Nat \ {None}
         /\ \A i \in object.code : i.address \in Nat /\ i.size \in Nat /\ i.target \in Int
<1>1. PICK o \in Objects : o = object
  BY DEF Indexed
<1>2. /\ o.symbols \subseteq Symbols /\ o.plt \in Addresses
      /\ o.relocations \in Seq(Relocations) /\ o.code \subseteq Instructions
  BY IndexConstants
<1>3. Addresses \subseteq Nat /\ Names \subseteq Nat \ {None}
  BY IndexConstants DEF Addresses
<1>4. \A s \in Symbols : s.address \in Nat /\ s.name \in Nat \ {None}
  BY <1>3 DEF Symbols
<1>5. \A i \in Instructions : i.address \in Nat /\ i.size \in Nat /\ i.target \in Int
  <2>1. Addresses \cup {Nowhere} \subseteq Int
    BY <1>3 DEF Nowhere
  <2> QED
    BY <1>3, <2>1 DEF Instructions
<1> QED
  BY <1>1, <1>2, <1>3, <1>4, <1>5 DEF Visible

\* The parts of a relocation are numbers.
LEMMA RelocationsAre ==
  \A r \in Relocations : r.of \in Nat /\ r.offset \in Nat /\ r.name \in Nat
<1>1. Addresses \subseteq Nat /\ Names \cup {None} \subseteq Nat
  BY IndexConstants DEF Addresses, None
<1> QED
  BY <1>1 DEF Relocations

\* The relocations of the PLT can be counted.
LEMMA PltCounted ==
  ASSUME Indexed
  PROVE  /\ IsFiniteSet(DOMAIN object.relocations)
         /\ Cardinality(PltRelocations(object)) \in Nat
         /\ \A S \in SUBSET PltRelocations(object) :
              /\ IsFiniteSet(S) /\ Cardinality(S) \in Nat
              /\ Cardinality(S) <= Cardinality(PltRelocations(object))
<1>1. Len(object.relocations) \in Nat /\ DOMAIN object.relocations = 1..Len(object.relocations)
  BY ObjectIs
<1>2. IsFiniteSet(DOMAIN object.relocations)
  BY <1>1, FS_Interval
<1>3. IsFiniteSet(PltRelocations(object))
  BY <1>2, FS_Subset DEF PltRelocations
<1> QED
  BY <1>2, <1>3, FS_Subset, FS_CardinalityType

\* A product of natural numbers grows with its first factor.
LEMMA Grows ==
  ASSUME NEW m \in Nat, NEW n \in Nat, NEW e \in Nat \ {0}
  PROVE  /\ m * e \in Nat /\ n * e \in Nat
         /\ m < n => m * e < n * e
         /\ m <= n => m * e <= n * e
OBVIOUS

\* The symbols made for stubs are where .plt is.
LEMMA StubsInPlace ==
  ASSUME Indexed
  PROVE  \A p \in plt_symbols : p.address \in Nat /\ p.address \in PltPlace(object)
<1> SUFFICES ASSUME object.plt # 0, NEW i \in plt_relocation_names
             PROVE  LET a == object.plt + slot(i) * EntrySize
                    IN a \in Nat /\ a \in PltPlace(object)
  BY DEF plt_symbols
<1>1. {j \in plt_relocation_names : j <= i} \in SUBSET PltRelocations(object)
  BY DEF plt_relocation_names, kept_relocations, PltRelocations, Relocation
<1>2. PICK n \in Nat : n = slot(i)
  BY <1>1, PltCounted DEF slot
<1>3. PICK m \in Nat : m = Cardinality(PltRelocations(object)) /\ n <= m
  BY <1>1, <1>2, PltCounted DEF slot
<1>4. n * EntrySize \in Nat /\ n * EntrySize <= m * EntrySize
  BY <1>3, Grows, IndexConstants
<1>5. PICK p \in Nat, x \in Nat, y \in Nat :
        p = object.plt /\ x = n * EntrySize /\ y = m * EntrySize /\ x <= y
  <2>1. m * EntrySize \in Nat
    BY <1>3, Grows, IndexConstants
  <2> QED
    BY <1>4, <2>1, ObjectIs
<1>6. p + x \in Nat /\ p + x \in p..(p + y)
  BY <1>5
<1> QED
  BY <1>2, <1>3, <1>5, <1>6 DEF PltPlace

\* Where functions do not overlap and no two symbols share an address, an instruction
\* is shown as of the function it is in (resolver.cpp:395-423, 450).
THEOREM InOwnFunctionAlways ==
  ASSUME \A o \in Objects : SymbolsApart(o) /\ LaidOut(o)
  PROVE  Spec => []InOwnFunction
<1>1. Indexed => InOwnFunction
  <2> SUFFICES ASSUME Indexed, NEW i \in object.code, symbols = Table
               PROVE  {s.name : s \in nearest_symbol(i.address)} = {i.function}
    BY DEF InOwnFunction, Indexed, Annotation
  <2>1. SymbolsApart(object) /\ LaidOut(object)
    BY DEF Indexed
  <2>2. PICK end \in [Visible(object) -> Nat] :
          /\ \A s, t \in Visible(object) : s.address < t.address => end[s] <= t.address
          /\ \A j \in object.code : \E s \in Visible(object) :
               /\ s.name = j.function /\ s.address <= j.address /\ j.address < end[s]
               /\ \A a \in PltPlace(object) : a < s.address \/ end[s] <= a
    BY <2>1 DEF LaidOut
  <2>3. PICK s \in Visible(object) :
          /\ s.name = i.function /\ s.address <= i.address /\ i.address < end[s]
          /\ \A a \in PltPlace(object) : a < s.address \/ end[s] <= a
    BY <2>2
  <2> DEFINE e == [name |-> s.name, address |-> s.address]
  <2>4. \A t \in symbols : t.address \in Nat /\ (t.address <= i.address =>
          t.address < s.address \/ (t.address = s.address /\ t.name = s.name))
    <3> SUFFICES ASSUME NEW t \in symbols
                 PROVE  t.address \in Nat /\ (t.address <= i.address =>
                          t.address < s.address \/ (t.address = s.address /\ t.name = s.name))
      OBVIOUS
    <3>1. CASE \E v \in Visible(object) : t = [name |-> v.name, address |-> v.address]
      <4>1. PICK v \in Visible(object) : t.name = v.name /\ t.address = v.address
        BY <3>1
      <4>2. s.address < v.address => end[s] <= v.address
        BY <2>2
      <4>3. s.address = v.address => v.name = s.name
        BY <2>1 DEF SymbolsApart
      <4>4. PICK E \in Nat : E = end[s]
        BY <2>2
      <4> QED
        BY <2>3, <4>1, <4>2, <4>3, <4>4, ObjectIs
    <3>2. CASE t \in plt_symbols
      <4>1. t.address \in Nat /\ t.address \in PltPlace(object)
        BY <3>2, StubsInPlace
      <4>2. t.address < s.address \/ end[s] <= t.address
        BY <2>3, <4>1
      <4>3. PICK E \in Nat : E = end[s]
        BY <2>2
      <4> QED
        BY <2>3, <4>1, <4>2, <4>3, ObjectIs
    <3> QED
      BY <3>1, <3>2 DEF Table
  <2>5. e \in symbols /\ s.address \in Nat /\ s.name \in Nat
    BY ObjectIs DEF Table
  <2>6. e \in nearest_symbol(i.address)
    BY <2>3, <2>4, <2>5 DEF nearest_symbol
  <2>7. \A t \in nearest_symbol(i.address) : t.name = s.name
    <3> SUFFICES ASSUME NEW t \in nearest_symbol(i.address) PROVE t.name = s.name
      OBVIOUS
    <3>1. t \in symbols /\ t.address <= i.address /\ (e.address <= i.address =>
            e.address < t.address \/ (e.address = t.address /\ e.name <= t.name))
      BY <2>5 DEF nearest_symbol
    <3>2. s.address <= t.address
      BY <2>3, <2>4, <2>5, <3>1
    <3> QED
      BY <2>4, <2>5, <3>1, <3>2
  <2> QED
    BY <2>3, <2>6, <2>7
<1> QED
  BY <1>1, IndexedAlways, PTL

-----------------------------------------------------------------------------
(* The references of instructions *)

\* The references in an instruction are those of its own relocations that are kept.
LEMMA ReferencesAreOwn ==
  ASSUME Indexed, OffsetsTell(object), references = References, NEW i \in object.code,
         NEW q \in relocation_in_instruction(i)
  PROVE  \E r \in OwnOf(object, i) : Kept(r) /\ q.of = r.of /\ q.offset = r.offset /\ q.name = r.name
<1>1. q \in references /\ q.offset \in Bytes(i)
  BY DEF relocation_in_instruction, Bytes
<1>2. PICK j \in kept_relocations :
        q = [of |-> Relocation(j).of, offset |-> Relocation(j).offset, name |-> Relocation(j).name]
  BY <1>1 DEF References
<1>3. PICK r : r = object.relocations[j]
  OBVIOUS
<1>4. j \in DOMAIN object.relocations /\ Kept(r) /\ q.of = r.of /\ q.offset = r.offset /\ q.name = r.name
  BY <1>2, <1>3 DEF kept_relocations, Relocation, Kept
<1>5. r.kind # "plt" /\ r.of = i.section
  BY <1>1, <1>3, <1>4 DEF OffsetsTell
<1> QED
  BY <1>1, <1>3, <1>4, <1>5 DEF OwnOf

\* There is one first reference at most.
LEMMA OneReference ==
  ASSUME Indexed, references = References, NEW i \in object.code,
         NEW q \in relocation_in_instruction(i), NEW r \in relocation_in_instruction(i)
  PROVE  q.offset = r.offset /\ q.name = r.name
<1>1. /\ q \in references /\ r \in references /\ Before(q, r) /\ Before(r, q)
  BY DEF relocation_in_instruction
<1>2. \A x \in references : x.of \in Nat /\ x.offset \in Nat /\ x.name \in Nat
  <2> SUFFICES ASSUME NEW j \in kept_relocations
               PROVE  LET x == Relocation(j) IN x.of \in Nat /\ x.offset \in Nat /\ x.name \in Nat
    BY DEF References
  <2>1. Relocation(j) \in Relocations
    BY ObjectIs DEF kept_relocations, Relocation
  <2> QED
    BY <2>1, RelocationsAre
<1> QED
  BY <1>1, <1>2 DEF Before

\* Where offsets tell sections apart, the relocation shown for an instruction is one
\* that applies to its own bytes (resolver.cpp:124-151, 314-336).
THEOREM ReferenceIsOwnAlways ==
  ASSUME \A o \in Objects : OffsetsTell(o)
  PROVE  Spec => []ReferenceIsOwn
<1>1. Indexed => ReferenceIsOwn
  <2> SUFFICES ASSUME Indexed, NEW i \in object.code, references = References,
                      relocation_in_instruction(i) # {}
               PROVE  \E r \in Own(i) : \A q \in relocation_in_instruction(i) :
                        q.offset = r.offset /\ q.name = r.name
    BY DEF ReferenceIsOwn, Indexed, Annotation
  <2>1. PICK p : p \in relocation_in_instruction(i)
    OBVIOUS
  <2>2. PICK r \in OwnOf(object, i) : p.offset = r.offset /\ p.name = r.name
    BY <2>1, ReferencesAreOwn DEF Indexed
  <2>3. r \in Own(i)
    BY <2>2 DEF OwnOf, Own, Relocation, Bytes
  <2> QED
    BY <2>1, <2>2, <2>3, OneReference
<1> QED
  BY <1>1, IndexedAlways, PTL

-----------------------------------------------------------------------------
(* Stubs and what branches go to *)

\* A named stub is where the index takes it to be.
LEMMA SlotIs ==
  ASSUME Indexed, StubsNamed(object), NEW i \in PltSlots, Relocation(i).name # None
  PROVE  /\ i \in plt_relocation_names
         /\ object.plt + slot(i) * EntrySize = StubAddress(i)
<1>0. PltSlots = PltRelocations(object) /\ PltSlots \subseteq Nat
  BY ObjectIs DEF PltSlots, PltRelocations, Relocation
<1>1. \A k \in PltSlots : k <= i => Relocation(k).name # None /\ ~Relocation(k).internal
  BY <1>0 DEF StubsNamed, Relocation
<1>2. \A k \in PltSlots : k <= i => k \in plt_relocation_names
  BY <1>1 DEF plt_relocation_names, kept_relocations, PltSlots
<1>3. i \in plt_relocation_names /\ i \in Nat
  BY <1>0, <1>2
<1> DEFINE S == {j \in PltSlots : j < i}
<1>4. {j \in plt_relocation_names : j <= i} = S \cup {i}
  <2>1. plt_relocation_names \subseteq PltSlots
    BY DEF plt_relocation_names, kept_relocations, PltSlots
  <2>2. \A j \in PltSlots : j <= i <=> (j < i \/ j = i)
    BY <1>0
  <2> QED
    BY <1>2, <1>3, <2>1, <2>2
<1>5. IsFiniteSet(S) /\ i \notin S
  BY <1>0, <1>3, PltCounted
<1>6. PICK n \in Nat : n = Cardinality(S)
  BY <1>0, PltCounted
<1>7. slot(i) = n + 1
  BY <1>4, <1>5, <1>6, FS_AddElement DEF slot
<1>8. HeaderSize = EntrySize /\ EntrySize \in Nat /\ object.plt \in Nat
  BY IndexConstants, ObjectIs DEF StubsNamed
<1>9. PICK p \in Nat, E \in Nat : p = object.plt /\ E = EntrySize
  BY <1>8
<1>10. p + (n + 1) * E = p + E + n * E
  OBVIOUS
<1> QED
  BY <1>3, <1>6, <1>7, <1>8, <1>9, <1>10 DEF StubAddress

\* No two stubs have the same address.
LEMMA StubsApart ==
  ASSUME Indexed, NEW i \in PltSlots, NEW k \in PltSlots, StubAddress(i) = StubAddress(k)
  PROVE  i = k
<1>0. PltSlots = PltRelocations(object) /\ PltSlots \subseteq Nat
  BY ObjectIs DEF PltSlots, PltRelocations, Relocation
<1>1. ASSUME NEW x \in PltSlots, NEW y \in PltSlots, x < y
      PROVE  StubAddress(x) # StubAddress(y)
  <2> DEFINE S == {j \in PltSlots : j < x}
             T == {j \in PltSlots : j < y}
  <2>1. S \cup {x} \subseteq T /\ x \notin S
    BY <1>0, <1>1
  <2>2. IsFiniteSet(S) /\ IsFiniteSet(T) /\ Cardinality(S) \in Nat /\ Cardinality(T) \in Nat
    BY <1>0, PltCounted
  <2>3. Cardinality(S) + 1 <= Cardinality(T)
    <3>1. Cardinality(S \cup {x}) = Cardinality(S) + 1
      BY <2>1, <2>2, FS_AddElement
    <3> HIDE DEF S, T
    <3> QED
      BY <2>1, <2>2, <3>1, FS_Subset
  <2>4. PICK m \in Nat, n \in Nat : m = Cardinality(S) /\ n = Cardinality(T) /\ m < n
    <3> HIDE DEF S, T
    <3> QED
      BY <2>2, <2>3
  <2>5. m * EntrySize \in Nat /\ n * EntrySize \in Nat /\ m * EntrySize < n * EntrySize
    BY <2>4, Grows, IndexConstants
  <2>6. PICK u \in Nat, v \in Nat : u = m * EntrySize /\ v = n * EntrySize /\ u < v
    BY <2>5
  <2>7. PICK p \in Nat, h \in Nat : p = object.plt /\ h = HeaderSize
    BY ObjectIs, IndexConstants
  <2>8. StubAddress(x) = p + h + u /\ StubAddress(y) = p + h + v
    BY <2>4, <2>6, <2>7 DEF StubAddress
  <2> QED
    BY <2>6, <2>8
<1>2. i < k \/ k < i \/ i = k
  BY <1>0
<1> QED
  BY <1>1, <1>2

\* A symbol that the index made for a stub has the name of the stub at its address.
LEMMA StubSymbol ==
  ASSUME Indexed, StubsNamed(object), NEW p \in plt_symbols
  PROVE  StubName(p.address) = {p.name}
<1>1. PICK i \in plt_relocation_names :
        /\ p.name = Relocation(i).name /\ p.address = object.plt + slot(i) * EntrySize
        /\ object.plt # 0
  BY DEF plt_symbols
<1>2. i \in PltSlots /\ Relocation(i).name # None
  BY DEF plt_relocation_names, kept_relocations, PltSlots
<1>3. p.address = StubAddress(i)
  BY <1>1, <1>2, SlotIs
<1>4. \A k \in PltSlots : p.address = StubAddress(k) => k = i
  BY <1>2, <1>3, StubsApart
<1> QED
  BY <1>1, <1>2, <1>3, <1>4 DEF StubName

\* And a stub that has a name has a symbol.
LEMMA StubHasSymbol ==
  ASSUME Indexed, StubsNamed(object), NEW a, NEW n \in StubName(a)
  PROVE  [name |-> n, address |-> a] \in plt_symbols
<1>1. PICK i \in PltSlots : n = Relocation(i).name /\ n # None /\ a = StubAddress(i) /\ object.plt # 0
  BY DEF StubName
<1>2. i \in plt_relocation_names /\ object.plt + slot(i) * EntrySize = a
  BY <1>1, SlotIs
<1> QED
  BY <1>1, <1>2 DEF plt_symbols

\* What is found at an address: the symbols there are, and stubs, but not both.
LEMMA FoundAt ==
  ASSUME Indexed, symbols = Table, SymbolsApart(object), StubsNamed(object), NEW a \in Int
  PROVE  {s.name : s \in symbol_at(a)}
           = {s.name : s \in {t \in object.symbols : t.defined /\ ~t.internal /\ t.address = a}}
               \cup StubName(a)
<1> DEFINE There == {t \in object.symbols : t.defined /\ ~t.internal /\ t.address = a}
<1>1. There = {s \in Visible(object) : s.address = a}
  BY DEF Visible, include_binary_symbol
<1>2. \A s \in symbols : s.address = a =>
        s.name \in Nat /\ (s.name \in {t.name : t \in There} \/ s \in plt_symbols)
  <2> SUFFICES ASSUME NEW s \in symbols, s.address = a
               PROVE  s.name \in Nat /\ (s.name \in {t.name : t \in There} \/ s \in plt_symbols)
    OBVIOUS
  <2>1. CASE s \in plt_symbols
    <3>1. PICK i \in plt_relocation_names : s.name = Relocation(i).name
      BY <2>1 DEF plt_symbols
    <3>2. Relocation(i) \in Relocations
      BY ObjectIs DEF plt_relocation_names, kept_relocations, Relocation
    <3> QED
      BY <2>1, <3>1, <3>2, RelocationsAre
  <2>2. CASE \E v \in Visible(object) : s = [name |-> v.name, address |-> v.address]
    <3>1. PICK v \in Visible(object) : s.name = v.name /\ s.address = v.address
      BY <2>2
    <3> QED
      BY <1>1, <3>1, ObjectIs
  <2> QED
    BY <2>1, <2>2 DEF Table
<1>3. CASE There # {}
  <2>1. PICK t \in There : TRUE
    BY <1>3
  <2>2. a \notin PltPlace(object) /\ \A v \in There : v.name = t.name
    BY <1>1, <2>1 DEF SymbolsApart
  <2>3. \A s \in symbols : s.address = a => s.name = t.name
    BY <1>2, <2>2, StubsInPlace
  <2>4. StubName(a) = {}
    <3> SUFFICES ASSUME NEW n \in StubName(a) PROVE FALSE
      OBVIOUS
    <3> DEFINE e == [name |-> n, address |-> a]
    <3>1. e \in plt_symbols /\ e.address = a
      BY StubHasSymbol
    <3> HIDE DEF e
    <3> QED
      BY <2>2, <3>1, StubsInPlace
  <2>5. [name |-> t.name, address |-> a] \in symbols
    BY <1>1, <2>1 DEF Table
  <2>6. [name |-> t.name, address |-> a] \in symbol_at(a)
    BY <1>2, <2>3, <2>5 DEF symbol_at
  <2>7. \A s \in symbol_at(a) : s.name = t.name
    BY <2>3 DEF symbol_at
  <2> QED
    BY <2>1, <2>2, <2>4, <2>6, <2>7
<1>4. CASE There = {}
  <2>1. \A s \in symbols : s.address = a => s \in plt_symbols /\ StubName(a) = {s.name}
    BY <1>2, <1>4, StubSymbol
  <2>2. {s.name : s \in symbol_at(a)} \subseteq StubName(a)
    BY <2>1 DEF symbol_at
  <2>3. \A n \in StubName(a) : n \in {s.name : s \in symbol_at(a)}
    <3> SUFFICES ASSUME NEW n \in StubName(a) PROVE n \in {s.name : s \in symbol_at(a)}
      OBVIOUS
    <3> DEFINE e == [name |-> n, address |-> a]
    <3>1. e \in symbols /\ e.address = a /\ e.name = n
      BY StubHasSymbol DEF Table
    <3>2. \A s \in symbols : s.address = a => s.name = n /\ n \in Nat
      BY <1>2, <2>1
    <3> HIDE DEF e
    <3>3. e \in symbol_at(a)
      BY <3>1, <3>2 DEF symbol_at
    <3> QED
      BY <3>1, <3>3
  <2> QED
    BY <1>4, <2>2, <2>3
<1> QED
  BY <1>3, <1>4

\* Where the stubs of .plt have names and addresses of their own, a branch to one is
\* shown with the name of the import it jumps to (resolver.cpp:338-354, 452).
THEOREM StubsNamedRightAlways ==
  ASSUME \A o \in Objects : SymbolsApart(o) /\ StubsNamed(o)
  PROVE  Spec => []StubsNamedRight
<1>1. Indexed => StubsNamedRight
  <2> SUFFICES ASSUME Indexed, NEW i \in object.code, symbols = Table, StubName(i.target) # {}
               PROVE  {s.name : s \in IF i.target = Nowhere THEN {} ELSE symbol_at(i.target)}
                        = StubName(i.target)
    BY DEF StubsNamedRight, Indexed, Annotation
  <2>1. PICK n : n \in StubName(i.target)
    OBVIOUS
  <2>2. PICK a \in Int : a = i.target
    BY ObjectIs
  <2> DEFINE e == [name |-> n, address |-> a]
  <2>3. e \in plt_symbols /\ e.address = a
    BY <2>1, <2>2, StubHasSymbol DEF Indexed
  <2>4. a \in Nat /\ a \in PltPlace(object)
    <3> HIDE DEF e
    <3> QED
      BY <2>3, StubsInPlace
  <2>5. {t \in object.symbols : t.defined /\ ~t.internal /\ t.address = a} = {}
    BY <2>4 DEF Indexed, SymbolsApart, Visible, include_binary_symbol
  <2>6. {s.name : s \in symbol_at(a)} = StubName(a)
    BY <2>5, FoundAt DEF Indexed
  <2> QED
    BY <2>2, <2>4, <2>6 DEF Nowhere
<1> QED
  BY <1>1, IndexedAlways, PTL

-----------------------------------------------------------------------------
(* Call sites *)

\* A set of natural numbers that has members has a least one.
LEMMA LeastMember ==
  ASSUME NEW S, S \subseteq Nat, S # {}
  PROVE  \E x \in S : \A y \in S : x <= y
<1>1. PICK x \in S : \A y \in S : ~(<<y, x>> \in OpToRel(<, Nat))
  BY NatLessThanWellFounded, WFMin
<1>2. \A y \in S : ~(y < x)
  BY <1>1 DEF OpToRel
<1> QED
  BY <1>2

\* What a branch with relocations of its own refers to is what they say.
LEMMA OwnReference ==
  ASSUME Indexed, references = References, OffsetsTell(object), OneTarget(object),
         NEW i \in object.code, i.branch, NEW r \in OwnOf(object, i)
  PROVE  {q.name : q \in relocation_in_instruction(i)} = {r.name}
<1> DEFINE inside == {q \in references : q.offset \in Bytes(i)}
<1>1. PICK e \in inside : e.name = r.name
  <2>1. PICK j \in DOMAIN object.relocations : r = object.relocations[j] /\ r.offset \in Bytes(i)
    BY DEF OwnOf
  <2>2. Kept(r)
    BY DEF OneTarget
  <2>3. j \in kept_relocations
    BY <2>1, <2>2 DEF kept_relocations, Kept, Relocation
  <2>4. [of |-> r.of, offset |-> r.offset, name |-> r.name] \in references
    BY <2>1, <2>3 DEF References, Relocation
  <2> QED
    BY <2>1, <2>4
<1>2. \A q \in inside : q.of = i.section /\ q.name = r.name /\ q.offset \in Nat
  <2> SUFFICES ASSUME NEW q \in inside PROVE q.of = i.section /\ q.name = r.name /\ q.offset \in Nat
    OBVIOUS
  <2>1. PICK j \in kept_relocations :
          q.of = Relocation(j).of /\ q.offset = Relocation(j).offset /\ q.name = Relocation(j).name
    BY DEF References
  <2>2. PICK x : x = object.relocations[j]
    OBVIOUS
  <2>3. j \in DOMAIN object.relocations /\ Kept(x) /\ x.offset \in Bytes(i)
    BY <2>1, <2>2 DEF kept_relocations, Kept, Relocation
  <2>4. x.kind # "plt" /\ x.of = i.section
    BY <2>2, <2>3 DEF OffsetsTell
  <2>5. x \in OwnOf(object, i) /\ x \in Relocations
    BY <2>2, <2>3, <2>4, ObjectIs DEF OwnOf
  <2>6. x.name = r.name
    BY <2>5 DEF OneTarget
  <2> QED
    BY <2>1, <2>2, <2>4, <2>5, <2>6, RelocationsAre DEF Relocation
<1>3. r.name \in Nat
  BY ObjectIs, RelocationsAre DEF OwnOf
<1>4. PICK q \in inside : \A x \in inside : q.offset <= x.offset
  <2> DEFINE offsets == {x.offset : x \in inside}
  <2>1. offsets \subseteq Nat /\ offsets # {}
    BY <1>1, <1>2
  <2>2. PICK o \in offsets : \A x \in offsets : o <= x
    <3> HIDE DEF offsets
    <3> QED
      BY <2>1, LeastMember
  <2> QED
    BY <2>2
<1>5. \A x \in inside : Before(q, x)
  BY <1>2, <1>3, <1>4 DEF Before
<1>6. q \in relocation_in_instruction(i)
  BY <1>5 DEF relocation_in_instruction, Bytes
<1>7. relocation_in_instruction(i) \subseteq inside
  BY DEF relocation_in_instruction, Bytes
<1> QED
  BY <1>2, <1>6, <1>7

\* Without relocations of its own, an instruction has no reference.
LEMMA NoReference ==
  ASSUME Indexed, references = References, OffsetsTell(object),
         NEW i \in object.code, OwnOf(object, i) = {}
  PROVE  relocation_in_instruction(i) = {}
BY ReferencesAreOwn

Told(o) == SymbolsApart(o) /\ StubsNamed(o) /\ OffsetsTell(o) /\ OneTarget(o)

\* A branch that no relocation is for names what is at its target.
LEMMA BranchNames ==
  ASSUME Indexed, symbols = Table, references = References, Told(object),
         NEW i \in object.code, i.branch
  PROVE  /\ OwnOf(object, i) # {} =>
              {q.name : q \in Annotation(i).reference} = GoesTo(i)
         /\ OwnOf(object, i) = {} =>
              /\ Annotation(i).reference = {}
              /\ i.target # Nowhere => {s.name : s \in Annotation(i).branch_target_symbol} = GoesTo(i)
              /\ i.target = Nowhere => GoesTo(i) = {}
<1>0. Own(i) = OwnOf(object, i)
  BY DEF Own, OwnOf, Relocation, Bytes
<1>1. ASSUME OwnOf(object, i) # {}
      PROVE  {q.name : q \in relocation_in_instruction(i)} = GoesTo(i)
  <2>1. PICK r \in OwnOf(object, i) : TRUE
    BY <1>1
  <2>2. {q.name : q \in OwnOf(object, i)} = {r.name}
    BY <2>1 DEF Told, OneTarget
  <2>3. GoesTo(i) = {r.name}
    BY <1>0, <1>1, <2>2 DEF GoesTo
  <2> QED
    BY <2>1, <2>3, OwnReference DEF Told
<1> DEFINE There == {t \in object.symbols : t.defined /\ ~t.internal /\ t.address = i.target}
<1>2. OwnOf(object, i) = {} => GoesTo(i) = {s.name : s \in There} \cup StubName(i.target)
  BY <1>0 DEF GoesTo, NamesAt
<1>3. {s.name : s \in symbol_at(i.target)} = {s.name : s \in There} \cup StubName(i.target)
  BY FoundAt, ObjectIs DEF Told
<1>4. i.target = Nowhere => There = {} /\ StubName(i.target) = {}
  <2> SUFFICES ASSUME i.target = -1 PROVE There = {} /\ StubName(-1) = {}
    BY DEF Nowhere
  <2>1. There = {}
    BY ObjectIs DEF Visible, include_binary_symbol
  <2>2. ASSUME NEW n \in StubName(-1) PROVE FALSE
    <3> DEFINE e == [name |-> n, address |-> -1]
    <3>1. e \in plt_symbols /\ e.address = -1
      BY <2>2, StubHasSymbol DEF Told
    <3> HIDE DEF e
    <3> QED
      BY <3>1, StubsInPlace
  <2> QED
    BY <2>1, <2>2
<1> QED
  BY <1>1, <1>2, <1>3, <1>4, NoReference DEF Annotation, Told

\* Every instruction that goes to a symbol is found, whether it is called through a
\* stub, a relocation or directly (features.cpp:110-162; README.md:233).
THEOREM EveryCallSiteFoundAlways ==
  ASSUME \A o \in Objects : Told(o)
  PROVE  Spec => []EveryCallSiteFound
<1>1. Indexed => EveryCallSiteFound
  <2> SUFFICES ASSUME Indexed, stage = "answered", NEW a \in bodies, query \in GoesTo(a.code)
               PROVE  a.code \in xrefs
    BY DEF EveryCallSiteFound
  <2>1. PICK i \in object.code : a = Annotation(i)
    BY DEF bodies, Indexed
  <2>2. a.code = i /\ i.branch
    BY <2>1 DEF Annotation, GoesTo
  <2>3. references_symbol(a, query)
    <3>1. CASE OwnOf(object, i) # {}
      BY <2>1, <2>2, <3>1, BranchNames DEF Indexed, references_symbol
    <3>2. CASE OwnOf(object, i) = {}
      BY <2>1, <2>2, <3>2, BranchNames DEF Indexed, references_symbol
    <3> QED
      BY <3>1, <3>2
  <2> QED
    BY <2>3 DEF Indexed, Hits
<1> QED
  BY <1>1, IndexedAlways, PTL

\* What the listing shows at the target of a branch is what is there.
LEMMA TargetNames ==
  ASSUME Indexed, symbols = Table, SymbolsApart(object), StubsNamed(object),
         NEW i \in object.code, NEW s \in Annotation(i).branch_target_symbol
  PROVE  i.branch /\ s.name \in NamesAt(i.target)
<1>1. i.target # Nowhere /\ s \in symbol_at(i.target)
  BY DEF Annotation
<1>2. i.branch
  BY <1>1, ObjectIs, IndexConstants
<1> DEFINE There == {t \in object.symbols : t.defined /\ ~t.internal /\ t.address = i.target}
<1>3. {x.name : x \in symbol_at(i.target)} = {x.name : x \in There} \cup StubName(i.target)
  BY FoundAt, ObjectIs
<1>4. s.name \in {x.name : x \in symbol_at(i.target)}
  BY <1>1
<1> QED
  BY <1>2, <1>3, <1>4 DEF NamesAt

\* A reference shown for an instruction is one of its own.
LEMMA ReferenceNames ==
  ASSUME Indexed, references = References, OffsetsTell(object), NEW i \in object.code,
         NEW q \in Annotation(i).reference
  PROVE  \E r \in Own(i) : q.name = r.name
BY ReferencesAreOwn DEF Annotation, Own, OwnOf, Relocation, Bytes

\* A function that --calls lists has an instruction that goes to the symbol, or one whose
\* relocation makes it seem so (features.cpp:110-124, resolver.cpp:452).
THEOREM CallersCallAlways ==
  ASSUME \A o \in Objects : SymbolsApart(o) /\ StubsNamed(o) /\ OffsetsTell(o)
  PROVE  Spec => []CallersCall
<1>1. Indexed => CallersCall
  <2> SUFFICES ASSUME Indexed, stage = "answered", NEW f \in callers
               PROVE  \E i \in object.code : i.function = f /\ query \in GoesTo(i) \cup Mistaken(i)
    BY DEF CallersCall
  <2>1. PICK a \in Hits : f = a.code.function
    BY DEF Indexed
  <2>2. PICK i \in object.code : a = Annotation(i)
    BY <2>1 DEF Hits, bodies, Indexed
  <2>3. /\ i.function = f /\ symbols = Table /\ references = References
        /\ SymbolsApart(object) /\ StubsNamed(object) /\ OffsetsTell(object)
    BY <2>1, <2>2 DEF Annotation, Indexed
  <2>4. PICK s \in a.branch_target_symbol \cup a.reference : s.name = query
    BY <2>1 DEF Hits, references_symbol
  <2>5. CASE s \in a.branch_target_symbol
    <3>1. i.branch /\ query \in NamesAt(i.target)
      BY <2>2, <2>3, <2>4, <2>5, TargetNames
    <3> QED
      BY <2>3, <3>1 DEF GoesTo, Mistaken
  <2>6. CASE s \in a.reference
    <3>1. query \in {r.name : r \in Own(i)}
      BY <2>2, <2>3, <2>4, <2>6, ReferenceNames
    <3> QED
      BY <2>3, <3>1 DEF GoesTo, Mistaken
  <2> QED
    BY <2>4, <2>5, <2>6
<1> QED
  BY <1>1, IndexedAlways, PTL

-----------------------------------------------------------------------------
(* The demangler's budget *)

\* A name that is being demangled has a call left; one call over either budget fails.
Spent ==
  /\ steps \in Nat /\ depth \in Int
  /\ steps <= MaxSteps + 1 /\ depth <= MaxDepth + 1
  /\ status = "running" => steps <= MaxSteps

\* Whatever a name refers back to, the work on it is bounded (resolver.cpp:506-512).
THEOREM WithinBudgetAlways == DemangleSpec => []WithinBudget
<1>1. DemangleInit => Spent
  BY BudgetAssumption DEF DemangleInit, Spent
<1>2. Spent /\ [DemangleNext]_demangleVars => Spent'
  <2> SUFFICES ASSUME Spent, [DemangleNext]_demangleVars PROVE Spent'
    OBVIOUS
  <2> USE BudgetAssumption DEF Spent, Fail, within_budget, Top
  <2>1. CASE parse_path
    BY <2>1 DEF parse_path
  <2>2. CASE parse_identifier
    BY <2>2 DEF parse_identifier
  <2>3. CASE parse_type
    BY <2>3 DEF parse_type
  <2>4. CASE parse_list
    <3>1. /\ depth' = depth /\ status = "running"
          /\ \/ steps' = steps /\ status' \in {status, "failed"}
             \/ steps' = steps + 1 /\ status' = "failed"
             \/ steps' = steps + 1 /\ steps < MaxSteps
      <4>1. CASE list_ends(peek(pos))
        BY <2>4, <4>1 DEF parse_list
      <4>2. CASE ~list_ends(peek(pos)) /\ peek(pos) = "end"
        BY <2>4, <4>2 DEF parse_list
      <4>3. CASE ~list_ends(peek(pos)) /\ peek(pos) # "end"
        BY <2>4, <4>3 DEF parse_list
      <4> QED
        BY <4>1, <4>2, <4>3
    <3> QED
      BY <3>1
  <2>5. CASE parse_lifetime
    BY <2>5 DEF parse_lifetime
  <2>6. CASE parse_const
    BY <2>6 DEF parse_const
  <2>7. CASE parse_value
    BY <2>7 DEF parse_value
  <2>8. CASE after_call
    BY <2>8 DEF after_call
  <2>9. CASE Printed \/ Legacy
    BY <2>9 DEF Printed, Legacy
  <2>10. CASE Done \/ UNCHANGED demangleVars
    BY <2>10 DEF Done, demangleVars
  <2> QED
    BY <2>1, <2>2, <2>3, <2>4, <2>5, <2>6, <2>7, <2>8, <2>9, <2>10 DEF DemangleNext
<1>3. Spent => WithinBudget
  BY DEF Spent, WithinBudget
<1> QED
  BY <1>1, <1>2, <1>3, PTL DEF DemangleSpec
=============================================================================
