------------------------------ MODULE SymbolIndex ------------------------------
(***************************************************************************)
(* From symbols and relocations to names in the listing: build_index makes *)
(* the lookup tables, annotate gives every instruction the symbol it is in, *)
(* the relocation in its bytes and the symbol its branch goes to, and       *)
(* find_xrefs and functions_calling answer queries from the annotations.   *)
(*                                                                         *)
(* Names are numbers in the order of the raw names.  A demangled name and   *)
(* the suffixes @plt and @got are other ways to write the same name.        *)
(***************************************************************************)
EXTENDS Integers, FiniteSets, Sequences

CONSTANTS
  MaxAddress,  \* bound: addresses
  Names,       \* raw names, as numbers
  HeaderSize,  \* bytes the linker puts before the first stub of .plt
  EntrySize,   \* bytes of a stub: 16 in the code
  Objects      \* the files looked at

None == 0      \* no name
Nowhere == -1  \* no address

Addresses == 0..MaxAddress
Symbols == [name : Names, address : Addresses,
            function : BOOLEAN, defined : BOOLEAN, internal : BOOLEAN]

\* The section a relocation section applies to tells relocation sections apart.
Relocations == [kind : {"plt", "metadata", "other"}, of : Nat, offset : Addresses,
                name : Names \cup {None}, internal : BOOLEAN]
Instructions == [function : Names, section : Nat, address : Addresses, size : Nat,
                 branch : BOOLEAN, target : Addresses \cup {Nowhere}]

ASSUME IndexConstants ==
  /\ MaxAddress \in Nat /\ Names \subseteq Nat \ {None}
  /\ HeaderSize \in Nat /\ EntrySize \in Nat \ {0}
  /\ \A o \in Objects :
       /\ o.symbols \subseteq Symbols /\ o.plt \in Addresses
       /\ o.relocations \in Seq(Relocations) /\ o.code \subseteq Instructions
       /\ \A i \in o.code : ~i.branch => i.target = Nowhere

VARIABLES
  object,     \* symbols, relocations in file order, address of .plt, and code
  stage,      \* "load", "index" once it is built, "annotated", "answered"
  symbols,    \* Index::symbols
  references, \* Index::relocations
  annotated,  \* the annotated instructions
  query,      \* the symbol asked for
  xrefs, callers \* the answers of --xref and --calls

vars == <<object, stage, symbols, references, annotated, query, xrefs, callers>>

Init ==
  /\ object \in Objects /\ stage = "load"
  /\ symbols = {} /\ references = {} /\ annotated = {}
  /\ query \in Names /\ xrefs = {} /\ callers = {}

-----------------------------------------------------------------------------
(* build_index *)

\* Mutant: symbols other files define are kept, at whatever address they have.
include_undefined(s) == ~s.internal

\* Undefined symbols and compiler-internal ones (.L*, $x) are left out.
include_binary_symbol(s) == s.defined /\ ~s.internal

Relocation(i) == object.relocations[i]

\* Mutant: those of debug and unwind sections stay.
kept_with_metadata == {i \in DOMAIN object.relocations : ~Relocation(i).internal}

\* Relocations of debug and unwind sections, and to internal labels, are left out.
kept_relocations ==
  {i \in DOMAIN object.relocations : Relocation(i).kind # "metadata" /\ ~Relocation(i).internal}

\* Those that name the stubs: .rela.plt has a name for them, and their order counts.
plt_relocation_names ==
  {i \in kept_relocations : Relocation(i).kind = "plt" /\ Relocation(i).name # None}
slot(i) == Cardinality({j \in plt_relocation_names : j <= i})

\* Mutant: the first stub is taken to begin where .plt does.
plt_symbols_from_zero ==
  IF object.plt = 0 THEN {}
  ELSE {[name |-> Relocation(i).name, address |-> object.plt + (slot(i) - 1) * EntrySize] :
          i \in plt_relocation_names}

\* Stub i is taken to stand i entries past the start of .plt.
plt_symbols ==
  IF object.plt = 0 THEN {}
  ELSE {[name |-> Relocation(i).name, address |-> object.plt + slot(i) * EntrySize] :
          i \in plt_relocation_names}

build_index ==
  /\ stage = "load" /\ stage' = "index"
  /\ symbols' = {[name |-> s.name, address |-> s.address] :
                   s \in {t \in object.symbols : include_binary_symbol(t)}} \cup plt_symbols
  /\ references' = {[of |-> Relocation(i).of, offset |-> Relocation(i).offset,
                      name |-> Relocation(i).name] : i \in kept_relocations}
  /\ UNCHANGED <<object, annotated, query, xrefs, callers>>

-----------------------------------------------------------------------------
(* Lookups: both tables are sorted by address, then by name. *)

\* The first symbol at the address.
symbol_at(a) ==
  {s \in symbols : s.address = a /\ \A t \in symbols : t.address = a => s.name <= t.name}

\* Mutant: lower_bound in place of upper_bound.
symbol_before(a) ==
  {s \in symbols :
     /\ s.address < a
     /\ \A t \in symbols : t.address < a =>
          t.address < s.address \/ (t.address = s.address /\ t.name <= s.name)}

\* The last symbol at or before the address; whether it reaches so far is not asked.
nearest_symbol(a) ==
  {s \in symbols :
     /\ s.address <= a
     /\ \A t \in symbols : t.address <= a =>
          t.address < s.address \/ (t.address = s.address /\ t.name <= s.name)}

Before(r, q) ==
  \/ r.offset < q.offset
  \/ r.offset = q.offset /\ (r.of < q.of \/ (r.of = q.of /\ r.name <= q.name))

\* The first relocation for a byte of the instruction.
relocation_in_instruction(i) ==
  LET inside == {r \in references : r.offset \in i.address..(i.address + i.size - 1)}
  IN {r \in inside : \A q \in inside : Before(r, q)}

\* An annotation is a set of at most one symbol or relocation.
annotate ==
  /\ stage = "index" /\ stage' = "annotated"
  /\ annotated' = {[code |-> i, symbol |-> nearest_symbol(i.address),
                    reference |-> relocation_in_instruction(i),
                    branch_target_symbol |->
                      IF i.target = Nowhere THEN {} ELSE symbol_at(i.target)] :
                     i \in object.code}
  /\ UNCHANGED <<object, symbols, references, query, xrefs, callers>>

-----------------------------------------------------------------------------
(* --xref and --calls *)

references_symbol(a, name) == \E s \in a.branch_target_symbol \cup a.reference : s.name = name

\* Bodies are made of defined functions only.
bodies == {a \in annotated : \E s \in object.symbols :
             s.name = a.code.function /\ s.function /\ s.defined /\ ~s.internal}

\* Mutant: one reference a function is reported.
find_first_xrefs ==
  /\ stage = "annotated" /\ stage' = "answered"
  /\ LET hits == {a \in bodies : references_symbol(a, query)} IN
     /\ xrefs' = {a.code : a \in {b \in hits :
                     \A c \in hits : c.code.function = b.code.function
                                      => b.code.address <= c.code.address}}
     /\ callers' = {a.code.function : a \in hits}
  /\ UNCHANGED <<object, symbols, references, annotated, query>>

find_xrefs ==
  /\ stage = "annotated" /\ stage' = "answered"
  /\ xrefs' = {a.code : a \in {b \in bodies : references_symbol(b, query)}}
  /\ callers' = {a.code.function : a \in {b \in bodies : references_symbol(b, query)}}
  /\ UNCHANGED <<object, symbols, references, annotated, query>>

Next == build_index \/ annotate \/ find_xrefs

Spec == Init /\ [][Next]_vars

-----------------------------------------------------------------------------
(* What the linker and the loader make of the object (external) *)

PltSlots == {i \in DOMAIN object.relocations : Relocation(i).kind = "plt"}
StubAddress(i) == object.plt + HeaderSize + Cardinality({j \in PltSlots : j < i}) * EntrySize

\* The name the stub at address a jumps to.
StubName(a) ==
  {Relocation(i).name : i \in {j \in PltSlots : object.plt # 0 /\ a = StubAddress(j)}} \ {None}

\* The relocations that apply to bytes of the instruction.
Own(i) == {r \in {Relocation(j) : j \in DOMAIN object.relocations} :
             r.kind # "plt" /\ r.of = i.section /\ r.offset \in i.address..(i.address + i.size - 1)}

\* The names of what is at an address.  Compiler-internal labels are no names.
NamesAt(a) ==
  {s.name : s \in {t \in object.symbols : t.defined /\ ~t.internal /\ t.address = a}} \cup StubName(a)

\* The names of what a branch goes to: what its relocation says, where it has one, and
\* then not where it seems to go.
GoesTo(i) ==
  IF ~i.branch THEN {}
  ELSE IF Own(i) # {} THEN {r.name : r \in Own(i)}
  ELSE NamesAt(i.target)

\* What an instruction of a file that is not linked is mistaken to go to: a branch, what is
\* where it seems to go before its relocation is applied; another one, the symbol whose
\* address or contents it takes.
Mistaken(i) ==
  IF Own(i) = {} THEN {}
  ELSE IF i.branch THEN NamesAt(i.target)
  ELSE {r.name : r \in Own(i)}

-----------------------------------------------------------------------------
(* Properties *)

\* In a program where no two symbols share an address, every instruction of a function
\* is shown as of that function, its first one too (resolver.cpp:395-423, 450).
InOwnFunction ==
  \A a \in annotated : {s.name : s \in a.symbol} = {a.code.function}

\* A branch to a stub of .plt is shown with the name of the import that the stub
\* jumps to and no other (resolver.cpp:338-354, 452; CHANGELOG.md:52, "Symbol
\* resolution including PLT/GOT").
StubsNamedRight ==
  \A a \in annotated : a.code.branch /\ StubName(a.code.target) # {} =>
    {s.name : s \in a.branch_target_symbol} = StubName(a.code.target)

\* The relocation shown for an instruction is one that applies to its own bytes
\* (resolver.cpp:124-151, 314-336).  docs/DECISIONS.md:12: sections whose "section-relative
\* offsets [...] otherwise collide with .text" are to be kept out.
ReferenceIsOwn ==
  \A a \in annotated : a.reference # {} =>
    \E r \in Own(a.code) : \A q \in a.reference : q.offset = r.offset /\ q.name = r.name

\* README.md:233: --xref shows "every call site of a symbol", called through a stub, a
\* relocation or directly (features.cpp:110-162).
EveryCallSiteFound ==
  stage = "answered" =>
    \A a \in bodies : query \in GoesTo(a.code) => a.code \in xrefs

\* A function that --calls lists has an instruction of its own that goes to the symbol, or
\* one with a relocation that is mistaken for one: nothing in another function, in another
\* section or in debug information makes it a caller (features.cpp:110-124, resolver.cpp:452).
CallersCall ==
  stage = "answered" =>
    \A f \in callers : \E i \in object.code :
       i.function = f /\ query \in GoesTo(i) \cup Mistaken(i)
=============================================================================
