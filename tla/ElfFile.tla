------------------------------- MODULE ElfFile -------------------------------
(***************************************************************************)
(* elf::parse_bytes (elf.cpp) and the adapter over it: header, section     *)
(* headers with extended numbering, segments, symbol tables, relocations   *)
(* and the libraries named in .dynamic.  Every check is taken in the       *)
(* code's order, because later reads rely on it without checking again.    *)
(***************************************************************************)
EXTENDS ByteImage

CONSTANTS Headers,        \* contents of an ELF header: the fields parse_header reads
          RawSections,    \* contents of a section header
          Segments,       \* contents of a program header
          RawSymbols,     \* contents of a symbol: its name, and whether it is undefined
          SymbolIndexes,  \* symbol indexes of relocations
          DynEntries,     \* entries of .dynamic
          Sizes           \* least entry sizes: ehdr, shdr, phdr, sym, rel, rela, dyn

\* Fields are unsigned numbers, and no entry is of size zero.
HeaderFields == [known : BOOLEAN, ehsize : Nat, shoff : Nat, shnum : Nat, shentsize : Nat,
                 shstrndx : Nat, phoff : Nat, phnum : Nat, phentsize : Nat]

ASSUME ElfConstants ==
    /\ Headers \subseteq HeaderFields
    /\ \A s \in RawSections : {s.offset, s.size, s.link, s.info, s.entsize} \subseteq Nat
    /\ \A g \in Segments : {g.offset, g.size} \subseteq Nat
    /\ SymbolIndexes \subseteq Nat
    /\ \A e \in DynEntries : e.value \in Nat
    /\ {Sizes.ehdr, Sizes.shdr, Sizes.phdr, Sizes.sym, Sizes.rel, Sizes.rela, Sizes.dyn}
         \subseteq Nat \ {0}

VARIABLES header,    \* Header: the fields, amended by extended numbering
          first,     \* the section header with index 0 once it was read: <<>> or <<record>>
          sections,  \* vector<RawSection>
          tables,    \* symbols_by_section
          at         \* <<section, entry>> of the loop that runs

elfVars == <<header, first, sections, tables, at>>

XIndex == Short - 1     \* SHN_XINDEX and PN_XNUM

ElfInit ==
    /\ header = [shnum |-> 0] /\ first = <<>> /\ sections = <<>> /\ tables = <<>> /\ at = <<1, 0>>

ElfRefuse == Refuse /\ UNCHANGED elfVars

parse_header ==
    /\ pc = "elf" /\ header' \in Headers
    /\ LET h == header'
           bad == \/ ~range_within(0, Sizes.ehdr)
                  \/ ~h.known                    \* ident, class, byte order, version
                  \/ h.ehsize < Sizes.ehdr
                  \/ h.phnum > 0 /\ h.phentsize < Sizes.phdr
                  \/ h.shnum > 0 /\ h.shentsize < Sizes.shdr
       IN  pc' = IF bad THEN "refused"
                 ELSE IF h.shnum = 0 /\ h.shoff = 0 THEN "segments" ELSE "first"
    /\ UNCHANGED <<image, object, wild, first, sections, tables, at>>

section_table_fits ==
    /\ header.shnum # 0 => ((header.shnum * header.shentsize) % Words) \div header.shnum = header.shentsize
    /\ range_within(header.shoff, (header.shnum * header.shentsize) % Words)
    /\ header.shnum < Short

ExtendedNumbering ==
    /\ pc = "first" /\ first = <<>> /\ header.shentsize > 0
    /\ header.shnum = 0 \/ header.shstrndx = XIndex \/ header.phnum = XIndex
    /\ range_within(header.shoff, header.shentsize) /\ readable(header.shoff, Sizes.shdr)
    /\ \E s \in RawSections :
         /\ first' = <<s>>
         /\ header' = [header EXCEPT !.shnum = IF @ = 0 THEN s.size ELSE @,
                                     !.shstrndx = IF @ = XIndex THEN s.link ELSE @,
                                     !.phnum = IF @ = XIndex THEN s.info ELSE @]
    /\ UNCHANGED <<common, sections, tables, at>>

SectionTable ==
    /\ pc = "first" /\ header.shentsize > 0 /\ section_table_fits
    /\ first # <<>> \/ ~(header.shnum = 0 \/ header.shstrndx = XIndex \/ header.phnum = XIndex)
    /\ pc' = "sections"
    /\ UNCHANGED <<image, object, wild, elfVars>>

\* Every way out of parse_section_headers before its loop
SectionTableRefused ==
    /\ pc = "first"
    /\ LET extended == header.shnum = 0 \/ header.shstrndx = XIndex \/ header.phnum = XIndex
       IN  \/ header.shentsize = 0
           \/ /\ extended /\ first = <<>>
              /\ ~range_within(header.shoff, header.shentsize) \/ ~readable(header.shoff, Sizes.shdr)
           \/ (~extended \/ first # <<>>) /\ ~section_table_fits
    /\ ElfRefuse

parse_section_header ==
    /\ pc = "sections" /\ Len(sections) < header.shnum
    /\ readable(header.shoff + Len(sections) * header.shentsize, Sizes.shdr)
    /\ \E s \in IF sections = <<>> /\ first # <<>> THEN {first[1]} ELSE RawSections :
         sections' = Append(sections, s)
    /\ UNCHANGED <<common, header, first, tables, at>>

SectionHeaderRefused ==
    /\ pc = "sections" /\ Len(sections) < header.shnum
    /\ ~readable(header.shoff + Len(sections) * header.shentsize, Sizes.shdr)
    /\ ElfRefuse

\* range_for_section, as far as string_from_table looks at it: has the table bytes?
range_for_section(s) == IF s.type = "NOBITS" THEN 0 ELSE s.size

\* What a string field that reads r gives with a table of this size; Outside is an error
string_from_table(size, r) == IF r # "" /\ size = 0 THEN Outside ELSE r

InImage(s) == s.type = "NOBITS" \/ range_within(s.offset, s.size)

\* The end of parse_section_headers: names, then the range of every section
NameSections ==
    /\ pc = "sections" /\ Len(sections) = header.shnum
    /\ LET good == \/ sections = <<>>
                   \/ /\ header.shstrndx < Len(sections) /\ InImage(sections[header.shstrndx + 1])
                      /\ \A i \in DOMAIN sections :
                             string_from_table(range_for_section(sections[header.shstrndx + 1]),
                                               sections[i].name) # Outside
                      /\ \A i \in DOMAIN sections : InImage(sections[i])
       IN  pc' = IF good THEN "segments" ELSE "refused"
    /\ UNCHANGED <<image, object, wild, elfVars>>

segment_table_fits ==
    /\ header.phentsize > 0
    /\ ((header.phnum * header.phentsize) % Words) \div header.phnum = header.phentsize
    /\ range_within(header.phoff, (header.phnum * header.phentsize) % Words)

\* One turn of the loop of parse_segments; its reads are not checked
parse_segment ==
    /\ pc = "segments" /\ Len(object.segments) < header.phnum /\ segment_table_fits
    /\ wild' = (wild \/ ~readable(header.phoff + Len(object.segments) * header.phentsize, Sizes.phdr))
    /\ \E g \in Segments :
         IF range_within(g.offset, g.size)
         THEN object' = [object EXCEPT !.segments = Append(@, g)] /\ pc' = pc
         ELSE pc' = "refused" /\ object' = object
    /\ UNCHANGED <<image, elfVars>>

SegmentTableRefused ==
    /\ pc = "segments" /\ header.phnum > 0 /\ ~segment_table_fits
    /\ ElfRefuse

\* parse_bytes between parse_segments and parse_symbols: the sections are published
PublishSections ==
    /\ pc = "segments" /\ Len(object.segments) = header.phnum
    /\ object' = [object EXCEPT !.sections = sections,
                                !.stripped = \A i \in DOMAIN sections : sections[i].type # "SYMTAB"]
    /\ tables' = [i \in DOMAIN sections |-> <<>>]
    /\ at' = <<1, 0>> /\ pc' = "symbols"
    /\ UNCHANGED <<image, wild, header, first, sections>>

Linked(s) == sections[s.link + 1]

\* The entry size of a table: the header's, or the format's when that is zero
entry_size(s, least) == IF s.entsize = 0 THEN least ELSE s.entsize

MultipleOnly(s, least) == s.size % entry_size(s, least) = 0   \* mutant: short entries pass

table_shape_good(s, least) == entry_size(s, least) >= least /\ s.size % entry_size(s, least) = 0

symbol_table_good(s) ==
    /\ table_shape_good(s, Sizes.sym)
    /\ s.link < Len(sections) /\ InImage(Linked(s)) /\ Linked(s).type = "STRTAB"

NextSection == at' = <<at[1] + 1, 0>>

\* One turn of the inner loop of parse_symbols, with parse_symbol; its reads are not checked
parse_symbol ==
    /\ pc = "symbols" /\ at[1] <= Len(sections)
    /\ LET s == sections[at[1]]
           size == entry_size(s, Sizes.sym)
       IN  /\ s.type \in {"SYMTAB", "DYNSYM"} /\ symbol_table_good(s) /\ at[2] < s.size \div size
           /\ wild' = (wild \/ ~readable(s.offset + at[2] * size, Sizes.sym))
           /\ \E y \in RawSymbols :
                IF string_from_table(range_for_section(Linked(s)), y.name) = Outside
                THEN pc' = "refused" /\ UNCHANGED <<object, tables, at>>
                ELSE LET symbol == [y EXCEPT !.dynamic = (s.type = "DYNSYM")]
                     IN  /\ tables' = [tables EXCEPT ![at[1]] = Append(@, symbol)]
                         /\ object' = [object EXCEPT !.symbols = Append(@, symbol)]
                         /\ at' = <<at[1], at[2] + 1>> /\ pc' = pc
    /\ UNCHANGED <<image, header, first, sections>>

SymbolTableDone ==
    /\ pc = "symbols" /\ at[1] <= Len(sections)
    /\ LET s == sections[at[1]]
       IN  IF s.type \in {"SYMTAB", "DYNSYM"} /\ ~symbol_table_good(s)
           THEN pc' = "refused" /\ at' = at
           ELSE /\ s.type \in {"SYMTAB", "DYNSYM"} => at[2] = s.size \div entry_size(s, Sizes.sym)
                /\ NextSection /\ pc' = pc
    /\ UNCHANGED <<image, object, wild, header, first, sections, tables>>

SymbolsDone ==
    /\ pc = "symbols" /\ at[1] > Len(sections)
    /\ pc' = "relocations" /\ at' = <<1, 0>>
    /\ UNCHANGED <<image, object, wild, header, first, sections, tables>>

IsRelocation(s) == s.type \in {"REL", "RELA"}
rel_size(s) == IF s.type = "RELA" THEN Sizes.rela ELSE Sizes.rel
relocation_table_good(s) == s.link < Len(sections) /\ table_shape_good(s, rel_size(s))

\* mutant: the index counts in the list of all symbols
NameInFile(s, k) == IF k < Len(object.symbols) THEN object.symbols[k + 1].name ELSE ""

\* The name of symbol k of the table a relocation section is linked to; index 0 may have none
relocation_name(s, k) ==
    LET table == tables[s.link + 1] IN IF k < Len(table) THEN table[k + 1].name ELSE ""

\* One turn of the inner loop of parse_relocations; its reads are not checked
parse_relocation ==
    /\ pc = "relocations" /\ at[1] <= Len(sections)
    /\ LET s == sections[at[1]]
           size == entry_size(s, rel_size(s))
       IN  /\ IsRelocation(s) /\ relocation_table_good(s) /\ at[2] < s.size \div size
           /\ wild' = (wild \/ ~readable(s.offset + at[2] * size, rel_size(s)))
           /\ \E k \in SymbolIndexes :
                IF k # 0 /\ k >= Len(tables[s.link + 1])
                THEN pc' = "refused" /\ UNCHANGED <<object, at>>
                ELSE /\ object' = [object EXCEPT !.relocations = Append(@,
                            [section |-> at[1], index |-> k, name |-> relocation_name(s, k)])]
                     /\ at' = <<at[1], at[2] + 1>> /\ pc' = pc
    /\ UNCHANGED <<image, header, first, sections, tables>>

RelocationTableDone ==
    /\ pc = "relocations" /\ at[1] <= Len(sections)
    /\ LET s == sections[at[1]]
       IN  IF IsRelocation(s) /\ ~relocation_table_good(s)
           THEN pc' = "refused" /\ at' = at
           ELSE /\ IsRelocation(s) => at[2] = s.size \div entry_size(s, rel_size(s))
                /\ NextSection /\ pc' = pc
    /\ UNCHANGED <<image, object, wild, header, first, sections, tables>>

\* populate_dynamic looks its sections up by name; the first of the name counts
section_named(n) == SelectInSeq(sections, LAMBDA s : s.name = n)
dynamic == sections[section_named(".dynamic")]
dynstr == sections[section_named(".dynstr")]

dynamic_usable ==
    /\ section_named(".dynamic") # 0 /\ section_named(".dynstr") # 0
    /\ range_within(dynamic.offset, dynamic.size) /\ range_within(dynstr.offset, dynstr.size)

RelocationsDone ==
    /\ pc = "relocations" /\ at[1] > Len(sections)
    /\ pc' = (IF dynamic_usable THEN "dynamic" ELSE "done") /\ at' = <<1, 0>>
    /\ UNCHANGED <<image, object, wild, header, first, sections, tables>>

\* One turn of the loop of populate_dynamic; neither its reads nor its bytes are checked
populate_dynamic ==
    /\ pc = "dynamic"
    /\ IF at[2] = dynamic.size \div Sizes.dyn
       THEN pc' = "done" /\ UNCHANGED <<object, at, wild>>
       ELSE \E e \in DynEntries :
            LET needed == e.tag = "NEEDED" /\ e.value < dynstr.size
            IN  /\ wild' = (wild \/ ~readable(dynamic.offset + at[2] * Sizes.dyn, Sizes.dyn)
                                 \/ (needed /\ ~readable(dynstr.offset + e.value, 1)))
                /\ object' = IF needed /\ e.name # ""
                             THEN [object EXCEPT !.libraries = Append(@, e.name)] ELSE object
                /\ IF e.tag = "NULL" THEN pc' = "done" /\ at' = at
                   ELSE pc' = pc /\ at' = <<at[1], at[2] + 1>>
    /\ UNCHANGED <<image, header, first, sections, tables>>

ElfNext == \/ parse_header \/ ExtendedNumbering \/ SectionTable \/ SectionTableRefused
           \/ parse_section_header \/ SectionHeaderRefused \/ NameSections
           \/ parse_segment \/ SegmentTableRefused \/ PublishSections
           \/ parse_symbol \/ SymbolTableDone \/ SymbolsDone
           \/ parse_relocation \/ RelocationTableDone \/ RelocationsDone \/ populate_dynamic

-----------------------------------------------------------------------------
Inside(offset, size) == offset + size <= image

\* The file is an ELF file: before its header is read only shnum has a value
HeaderWasRead == "phnum" \in DOMAIN header

(* What was accepted lies in the file, sums taken over the naturals and not modulo 2^64: the
   tables of headers, every section with content and every segment, in a file with sections and
   in one without (elf.cpp:112-137). *)
ElfInside ==
    HeaderWasRead /\ pc \in {"symbols", "relocations", "dynamic", "done"} =>
        /\ Len(sections) = header.shnum
        /\ Inside(header.shoff, header.shnum * header.shentsize)
        /\ header.phnum > 0 => Inside(header.phoff, header.phnum * header.phentsize)
        /\ \A i \in DOMAIN sections :
               sections[i].type # "NOBITS" => Inside(sections[i].offset, sections[i].size)
        /\ \A i \in DOMAIN object.segments : Inside(object.segments[i].offset, object.segments[i].size)

(* No read whose result is taken without looking fails: the loops over segments, symbols,
   relocations and .dynamic call value() on every field, which throws when the field is not
   in the file, and rely on checks made long before (elf.cpp:599-616, 633-645, 749-763, 1136-1145). *)
ReadsSucceed == ~wild

(* Symbols before the table of section n in the one list the file publishes *)
SlotsBefore(n) == UNION {{m} \X DOMAIN tables[m] : m \in 1..n - 1}
SymbolsBefore(n) == Cardinality(SlotsBefore(n))

(* A relocation bears the name of the symbol of the table its own section is linked to, wherever
   that table lies in the list of all symbols: an index counts in its table, not in the list
   (elf.cpp:739, 773). *)
RelocationsNamed ==
    \A i \in DOMAIN object.relocations :
        LET r == object.relocations[i]
            n == sections[r.section].link + 1
        IN  IF r.index = 0 /\ tables[n] = <<>> THEN r.name = ""
            ELSE r.name = object.symbols[SymbolsBefore(n) + r.index + 1].name
=============================================================================
