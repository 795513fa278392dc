-------------------------------- MODULE PeFile --------------------------------
(***************************************************************************)
(* pe::parse_bytes: headers, the section map, and the three sources of     *)
(* function symbols: import descriptors with their thunks, the export      *)
(* directory, and the COFF symbol table that is joined with the exports.   *)
(* The reader's ok flag is sticky: one field that does not fit ends the    *)
(* loop it is read in and those that come after.                           *)
(***************************************************************************)
EXTENDS ByteImage

CONSTANTS PeHeaders,     \* contents of the headers, with the directories' rvas
          SectionMaps,   \* contents of a section header: va, vsize, raw, rawsize
          Descriptors,   \* contents of an import descriptor
          Thunks,        \* contents of a thunk: 0, an ordinal, or the rva of a name
          ExportRvas,    \* contents of the table of names of the exports
          CoffSymbols,   \* contents of a COFF symbol record
          MaxPeSections, MaxDescriptors, MaxThunks, MaxParsedSymbols, \* 4096, 4096, 65536, 65536
          PeLayout       \* sizes: least file, section header, descriptor, thunk, name rva, symbol record

ASSUME PeConstants ==
    /\ MaxParsedSymbols \in Nat
    /\ \A h \in PeHeaders : {h.base, h.exports} \subseteq Nat
    /\ \A s \in SectionMaps : s.va \in Nat
    /\ \A y \in CoffSymbols : y.value \in Nat /\ y.external \in BOOLEAN

VARIABLES pe,       \* the header's fields
          maps,     \* vector<SectionMap>
          ok,       \* Reader::ok_
          table,    \* file offset of the table the running loop reads
          entry,        \* entries of it read
          inner,    \* the thunks of the descriptor: <<offset, entries read>>, or <<>>
          budget,   \* thunks read in all
          coff      \* the function records of the COFF table, kept for the properties

peVars == <<pe, maps, ok, table, entry, inner, budget, coff>>

PeInit == /\ pe = <<>> /\ maps = <<>> /\ ok = TRUE /\ table = 0 /\ entry = 0 /\ inner = <<>>
          /\ budget = 0 /\ coff = <<>>

Fits(where, size) == where + size <= image

\* rva + span is a sum of 32-bit numbers
in_section(s, rva) ==
    LET span == IF s.vsize > s.rawsize THEN s.vsize ELSE s.rawsize
    IN  rva >= s.va /\ rva < (s.va + span) % Half

\* rva_to_offset: the first section that holds it in its raw part; <<>> when none does
rva_to_offset(rva) ==
    LET holds == SelectSeq(maps, LAMBDA s : in_section(s, rva) /\ rva - s.va < s.rawsize)
    IN  IF holds = <<>> THEN <<>> ELSE <<holds[1].raw + (rva - holds[1].va)>>

\* parse_bytes up to the section table; the rvas of directories past num_dirs are not read
PeHeader ==
    /\ pc = "pe"
    /\ \E h \in PeHeaders :
         /\ pe' = h /\ ok' = h.whole     \* every field of the headers is in the file
         /\ pc' = IF image < PeLayout.least \/ ~h.known \/ h.nsections > MaxPeSections
                  THEN "refused" ELSE "pe_sections"
    /\ UNCHANGED <<image, object, wild, maps, table, entry, inner, budget, coff>>

SectionFits == Fits(pe.sections + (Len(maps) + 1) * PeLayout.section - PeLayout.section, PeLayout.section)

PeSection ==
    /\ pc = "pe_sections" /\ Len(maps) < pe.nsections /\ SectionFits
    /\ \E s \in SectionMaps :
         /\ maps' = Append(maps, s)
         /\ object' = [object EXCEPT !.sections =
                Append(@, [address |-> pe.base + s.va, offset |-> s.raw, size |-> s.rawsize])]
    /\ UNCHANGED <<pc, image, wild, pe, ok, table, entry, inner, budget, coff>>

\* The next loop starts at a table's offset, or is passed over when the table has none
Enter(stage, where, otherwise) ==
    /\ pc' = IF where = <<>> THEN otherwise ELSE stage
    /\ table' = IF where = <<>> THEN 0 ELSE where[1]
    /\ entry' = 0

directory(rva) == IF rva = 0 THEN <<>> ELSE rva_to_offset(rva)

PeSectionsEnd ==
    /\ pc = "pe_sections" /\ (Len(maps) = pe.nsections \/ ~SectionFits)
    /\ Enter("imports", directory(pe.import_rva), "to_exports")
    /\ UNCHANGED <<image, object, wild, pe, maps, ok, inner, budget, coff>>

dll(d) == IF d.name = "" THEN "?" ELSE d.name   \* no name where the rva leads

\* One turn of the loop over descriptors of parse_imports
ImportDescriptor ==
    /\ pc = "imports" /\ inner = <<>>
    /\ IF entry = MaxDescriptors
       THEN pc' = "to_exports" /\ UNCHANGED <<object, ok, entry, inner>>
       ELSE IF ~Fits(table + entry * PeLayout.descriptor, PeLayout.descriptor)
       THEN pc' = "to_exports" /\ ok' = FALSE /\ UNCHANGED <<object, entry, inner>>
       ELSE \E d \in Descriptors :
            IF ~ok \/ (d.ilt = 0 /\ d.name = "" /\ d.iat = 0)
            THEN pc' = "to_exports" /\ UNCHANGED <<object, ok, entry, inner>>
            ELSE LET thunks == IF d.ilt # 0 THEN d.ilt ELSE d.iat
                     where == IF thunks = 0 THEN <<>> ELSE rva_to_offset(thunks)
                 IN  /\ object' = [object EXCEPT !.libraries = Append(@, dll(d))]
                     /\ inner' = IF where = <<>> THEN <<>> ELSE <<where[1], 0>>
                     /\ entry' = entry + 1
                     /\ UNCHANGED <<pc, ok>>
    /\ UNCHANGED <<image, wild, pe, maps, table, budget, coff>>

SpentPerDescriptor == inner[2] >= MaxParsedSymbols   \* mutant: the budget is of each descriptor

\* The budget of thunks over all descriptors is used up
spent == budget >= MaxParsedSymbols

\* One turn of the loop over its thunks
ImportThunk ==
    /\ pc = "imports" /\ inner # <<>>
    /\ IF inner[2] = MaxThunks
       THEN inner' = <<>> /\ UNCHANGED <<pc, object, ok, budget>>
       ELSE IF spent
       THEN budget' = budget + 1 /\ inner' = <<>> /\ pc' = "to_exports" /\ UNCHANGED <<object, ok>>
       ELSE /\ budget' = budget + 1
            /\ IF ~Fits(inner[1] + inner[2] * PeLayout.thunk, PeLayout.thunk)
               THEN ok' = FALSE /\ inner' = <<>> /\ UNCHANGED <<pc, object>>
               ELSE \E t \in Thunks :
                    IF ~ok \/ t = ""
                    THEN inner' = <<>> /\ UNCHANGED <<pc, object, ok>>
                    ELSE /\ inner' = <<inner[1], inner[2] + 1>>
                         /\ object' = IF t = Outside THEN object ELSE
                              [object EXCEPT !.symbols = Append(@, [name |-> t, bind |-> "Imported",
                                  address |-> 0, library |-> Last(object.libraries)])]
                         /\ UNCHANGED <<pc, ok>>
    /\ UNCHANGED <<image, wild, pe, maps, table, entry, coff>>

\* parse_exports up to its loop: the count and the rva of the names are read from the directory
ToExports ==
    /\ pc = "to_exports"
    /\ LET dir == directory(pe.export_rva)
           fits == dir # <<>> /\ Fits(dir[1], PeLayout.directory)
       IN  /\ ok' = (ok /\ (dir = <<>> \/ fits))
           /\ Enter("exports", IF fits /\ pe.exports \in 1..MaxParsedSymbols
                               THEN rva_to_offset(pe.names_rva) ELSE <<>>, "to_coff")
    /\ UNCHANGED <<image, object, wild, pe, maps, inner, budget, coff>>

ExportName ==
    /\ pc = "exports"
    /\ IF entry = pe.exports
       THEN pc' = "to_coff" /\ UNCHANGED <<object, ok, entry>>
       ELSE IF ~Fits(table + entry * PeLayout.name, PeLayout.name)
       THEN pc' = "to_coff" /\ ok' = FALSE /\ UNCHANGED <<object, entry>>
       ELSE \E e \in ExportRvas :
            IF ~ok \/ e = Outside
            THEN pc' = "to_coff" /\ UNCHANGED <<object, ok, entry>>
            ELSE /\ object' = IF e = "" THEN object ELSE
                     [object EXCEPT !.symbols = Append(@,
                        [name |-> e, bind |-> "Exported", address |-> 0, library |-> ""])]
                 /\ entry' = entry + 1 /\ UNCHANGED <<pc, ok>>
    /\ UNCHANGED <<image, wild, pe, maps, table, inner, budget, coff>>

\* parse_coff_symbols up to its loop
ToCoff ==
    /\ pc = "to_coff"
    /\ LET count == IF pe.nsymbols > MaxParsedSymbols THEN MaxParsedSymbols ELSE pe.nsymbols
           usable == /\ ok /\ pe.symbols # 0 /\ count > 0
                     /\ Fits(pe.symbols, count * PeLayout.symbol)
       IN  /\ object' = [object EXCEPT !.stripped = ~usable]
           /\ pe' = [pe EXCEPT !.nsymbols = count]
           /\ Enter("coff", IF usable THEN <<pe.symbols>> ELSE <<>>, "done")
    /\ UNCHANGED <<image, wild, maps, ok, inner, budget, coff>>

\* Only a function anchored to a section of the file becomes a symbol
is_function(y) == y.function /\ y.secnum \in 1..Len(object.sections) /\ y.name # ""

\* export_index: the first export with the name
exported(name) == SelectInSeq(object.symbols, LAMBDA s : s.bind = "Exported" /\ s.name = name)

\* mutant: exports are not looked up
AppendAlways(y, address) ==
    Append(object.symbols, [name |-> y.name, bind |-> "Global", address |-> address, library |-> ""])

\* A function that is exported fills the export's missing address, another one is appended
join(y, address) ==
    LET x == exported(y.name)
    IN  IF x = 0
        THEN Append(object.symbols, [name |-> y.name, bind |-> IF y.external THEN "Global" ELSE "Local",
                                     address |-> address, library |-> ""])
        ELSE IF object.symbols[x].address = 0
        THEN [object.symbols EXCEPT ![x].address = address] ELSE object.symbols

CoffSymbol ==
    /\ pc = "coff" /\ entry < pe.nsymbols
    /\ \E y \in CoffSymbols :
         LET address == object.sections[y.secnum].address + y.value
         IN  /\ entry' = entry + 1 + y.aux      \* over its auxiliary records
             /\ coff' = IF is_function(y) THEN Append(coff, [name |-> y.name, address |-> address, at |-> entry])
                        ELSE coff
             /\ object' = IF is_function(y) THEN [object EXCEPT !.symbols = join(y, address)] ELSE object
    /\ UNCHANGED <<pc, image, wild, pe, maps, ok, table, inner, budget>>

CoffEnd ==
    /\ pc = "coff" /\ entry >= pe.nsymbols
    /\ pc' = "done"
    /\ UNCHANGED <<image, object, wild, peVars>>

PeNext == \/ PeHeader \/ PeSection \/ PeSectionsEnd \/ ImportDescriptor \/ ImportThunk
          \/ ToExports \/ ExportName \/ ToCoff \/ CoffSymbol \/ CoffEnd

-----------------------------------------------------------------------------
Listed == {i \in DOMAIN object.symbols : object.symbols[i].bind # "Imported"}

(* The two sources of functions are joined: every function of the COFF table is listed with an
   address, no address comes from elsewhere, and no name is listed once as an export and once
   from the table ("fills the export's missing address instead of duplicating it", pe.cpp:269). *)
ExportsJoined ==
    pc \in {"coff", "done"} /\ pe # <<>> =>
        /\ \A c \in ToSet(coff) : \E i \in Listed :
               object.symbols[i].name = c.name /\ object.symbols[i].address # 0
        /\ \A i \in Listed : object.symbols[i].address # 0 =>
               \E c \in ToSet(coff) : c.name = object.symbols[i].name
                                       /\ c.address = object.symbols[i].address
        /\ \A i, j \in Listed : object.symbols[i].bind = "Exported" /\ object.symbols[j].bind # "Exported"
               => object.symbols[i].name # object.symbols[j].name

(* However many descriptors, thunks, names and records a file claims, the imports of all its
   descriptors together stay within the limit, and so do the exports (pe.cpp:140-143). *)
SymbolsBounded ==
    pe # <<>> => \A bind \in {"Imported", "Exported"} :
        Cardinality({i \in DOMAIN object.symbols : object.symbols[i].bind = bind}) <= MaxParsedSymbols
=============================================================================
