---------------------------- MODULE LoadFileProofs ----------------------------
(***************************************************************************)
(* Proofs about load_file, for any contents of headers, tables and         *)
(* commands, any limits and any integer widths: what the three readers     *)
(* have in common, the slice and the libraries of the Mach-O reader, the   *)
(* symbols of the PE reader, and of the ELF reader that what it accepted   *)
(* lies in the file, that no read whose result is taken unseen fails, and  *)
(* that a relocation has the name of its own symbol.                       *)
(***************************************************************************)
EXTENDS LoadFile, FiniteSetTheorems, SequenceTheorems, TLAPS

ElfStages == {"elf", "first", "sections", "segments", "symbols", "relocations", "dynamic"}
MachoStages == {"fat", "archs", "slice", "macho", "commands", "nlists"}
PeStages == {"pe", "pe_sections", "imports", "to_exports", "exports", "to_coff", "coff"}
Ends == {"done", "refused"}

ObjectFields == {"sections", "segments", "symbols", "relocations", "libraries", "stripped"}
SymbolFields == {"name", "bind", "address", "library"}

-----------------------------------------------------------------------------
(* Numbers and sets of indexes *)

\* The least member of a set is what Min says.
LEMMA MinIs ==
  ASSUME NEW S, S \subseteq Nat, NEW x \in S, \A y \in S : x <= y
  PROVE  Min(S) = x
<1>1. \E m \in S : \A y \in S : m <= y
  OBVIOUS
<1>2. Min(S) \in S /\ \A y \in S : Min(S) <= y
  BY <1>1 DEF Min
<1>3. Min(S) \in Nat /\ x \in Nat /\ Min(S) <= x /\ x <= Min(S)
  BY <1>2
<1> QED
  BY <1>3

\* A set of natural numbers that has members has a least one.
LEMMA MinExists ==
  ASSUME NEW S, S \subseteq Nat, S # {}
  PROVE  Min(S) \in S /\ \A y \in S : Min(S) <= y
<1>1. PICK x \in S : \A y \in S : ~(<<y, x>> \in OpToRel(<, Nat))
  BY NatLessThanWellFounded, WFMin
<1>2. \A y \in S : ~(y < x)
  BY <1>1 DEF OpToRel
<1>3. \A y \in S : x <= y
  BY <1>2
<1> QED
  BY <1>3, MinIs

\* The first index of a kind, or 0 when there is none: what SelectInSeq computes.
LEMMA FirstOrNone ==
  ASSUME NEW I, I \subseteq Nat
  PROVE  LET x == IF I # {} THEN Min(I) ELSE 0
         IN  (I = {} /\ x = 0) \/ x \in I
BY MinExists

\* A range that passes the check lies in the image, and its end is no sum that wrapped.
LEMMA RangeWithin ==
  ASSUME NEW a \in Nat, NEW n \in Nat, range_within(a, n)
  PROVE  a + n <= image /\ a + n < Words
<1>1. a + n <= Words - 1 /\ a + n \in Nat
  BY WidthsAssumption DEF range_within, checked_add
<1>2. (a + n) % Words = a + n
  BY <1>1, WidthsAssumption
<1> QED
  BY <1>1, <1>2, WidthsAssumption DEF range_within

\* What lies in such a range can be read.
LEMMA Readable ==
  ASSUME NEW a \in Nat, NEW n \in Nat, a + n <= image, a + n < Words
  PROVE  readable(a, n)
<1>1. (a + n) % Words = a + n
  BY WidthsAssumption
<1> QED
  BY <1>1, WidthsAssumption DEF readable, range_within, checked_add

\* A list grows by one at its end, whatever it holds.
LEMMA AppendGrows ==
  ASSUME NEW S, NEW s \in Seq(S), NEW e
  PROVE  /\ Append(s, e) \in Seq(S \cup {e}) /\ Len(s) \in Nat
         /\ Len(Append(s, e)) = Len(s) + 1 /\ DOMAIN s = 1..Len(s)
         /\ DOMAIN Append(s, e) = 1..(Len(s) + 1)
         /\ \A i \in 1..Len(s) : Append(s, e)[i] = s[i]
         /\ Append(s, e)[Len(s) + 1] = e
<1>1. s \in Seq(S \cup {e})
  OBVIOUS
<1> QED
  BY <1>1, AppendProperties

-----------------------------------------------------------------------------
(* The readers take turns with none of the others *)

\* A reader works on its own variables only.
LEMMA ElfStays ==
  ASSUME ElfNext
  PROVE  pc \in ElfStages /\ pc' \in ElfStages \cup Ends /\ image' = image
BY DEF ElfNext, parse_header, ExtendedNumbering, SectionTable, SectionTableRefused,
       parse_section_header, SectionHeaderRefused, NameSections, parse_segment,
       SegmentTableRefused, PublishSections, parse_symbol, SymbolTableDone, SymbolsDone,
       parse_relocation, RelocationTableDone, RelocationsDone, populate_dynamic,
       ElfRefuse, Refuse, common, ElfStages, Ends

LEMMA MachoStays ==
  ASSUME MachoNext
  PROVE  pc \in MachoStages /\ pc' \in MachoStages \cup Ends
BY DEF MachoNext, FatHeader, FatArch, FatArchsEnd, TakeSlice, ThinHeader, LoadCommand,
       CommandsEnd, parse_nlist, NlistsEnd, MachoStages, Ends

LEMMA PeStays ==
  ASSUME PeNext
  PROVE  pc \in PeStages /\ pc' \in PeStages \cup Ends /\ image' = image
BY DEF PeNext, PeHeader, PeSection, PeSectionsEnd, ImportDescriptor, ImportThunk, ToExports,
       ExportName, ToCoff, CoffSymbol, CoffEnd, Enter, PeStages, Ends

-----------------------------------------------------------------------------
(* Mach-O: the slice *)

Arms == {i \in DOMAIN fat.archs : fat.archs[i].arm64}
Full == {i \in DOMAIN fat.archs : fat.archs[i].size > 0}

\* The slice is the first of these.
Chosen(I) ==
  \E i \in I : /\ \A j \in I : i <= j
              /\ slice = <<fat.archs[i].offset, fat.archs[i].size>>

\* While no arm64 slice was met, the first that is not empty is the choice, if any.
WithoutArm == Arms = {} /\ (Full = {} => slice[2] = 0) /\ (Full # {} => Chosen(Full))

SliceInv ==
  /\ fat \in [n : Nat, archs : Seq(FatArchs)] /\ slice \in Nat \X Nat
  /\ pc \in {"load", "fat"} \cup ElfStages \cup PeStages =>
       fat = [n |-> 0, archs |-> <<>>] /\ slice = <<0, 0>>
  /\ pc \in {"fat", "archs", "slice"} => image = ImageSize["MachOFat"]
  /\ pc = "archs" => WithoutArm
  /\ pc = "slice" => WithoutArm \/ Chosen(Arms)
  /\ pc \in {"macho", "commands", "nlists", "done"} /\ fat.n > 0 =>
       /\ WithoutArm \/ Chosen(Arms)
       /\ slice[2] > 0 /\ image = slice[2] /\ slice[1] + slice[2] <= ImageSize["MachOFat"]

\* One more entry of the universal file.
LEMMA FatArchStep ==
  ASSUME SliceInv, FatArch
  PROVE  SliceInv'
<1>1. PICK a \in FatArchs :
        /\ fat' = [fat EXCEPT !.archs = Append(@, a)]
        /\ slice' = IF preferred(a) THEN <<a.offset, a.size>> ELSE slice
        /\ pc' = IF preferred(a) /\ a.arm64 THEN "slice" ELSE pc
  BY DEF FatArch
<1>2. /\ pc = "archs" /\ WithoutArm /\ fat \in [n : Nat, archs : Seq(FatArchs)]
      /\ image' = ImageSize["MachOFat"]
  BY DEF FatArch, SliceInv, WithoutArm
<1>3. a.arm64 \in BOOLEAN /\ a.offset \in Nat /\ a.size \in Nat
  BY MachoConstants
<1> DEFINE n == Len(fat.archs) + 1
<1>4. /\ fat'.n = fat.n /\ fat'.archs = Append(fat.archs, a)
      /\ fat' \in [n : Nat, archs : Seq(FatArchs)] /\ n \in Nat
      /\ DOMAIN fat'.archs = DOMAIN fat.archs \cup {n} /\ fat'.archs[n] = a
      /\ \A i \in DOMAIN fat.archs : fat'.archs[i] = fat.archs[i] /\ i < n
      /\ DOMAIN fat.archs \subseteq Nat
  <2>1. fat'.n = fat.n /\ fat'.archs = Append(fat.archs, a)
        /\ fat' = [n |-> fat.n, archs |-> Append(fat.archs, a)]
    BY <1>1, <1>2
  <2>2. Append(fat.archs, a) \in Seq(FatArchs) /\ n \in Nat
    BY <1>2
  <2>3. \A i \in DOMAIN fat.archs : i < n /\ i \in Nat
    BY <1>2
  <2>4. /\ DOMAIN Append(fat.archs, a) = DOMAIN fat.archs \cup {n}
        /\ Append(fat.archs, a)[n] = a
        /\ \A i \in DOMAIN fat.archs : Append(fat.archs, a)[i] = fat.archs[i]
    BY <1>2
  <2> QED
    BY <1>2, <2>1, <2>2, <2>3, <2>4
<1> HIDE DEF n
<1>5. Arms' = IF a.arm64 THEN {n} ELSE {}
  BY <1>2, <1>4 DEF Arms, WithoutArm
<1>6. Full' = IF a.size > 0 THEN Full \cup {n} ELSE Full
  BY <1>2, <1>4 DEF Full
<1>7. slice' \in Nat \X Nat
  BY <1>1, <1>3 DEF SliceInv
<1>8. CASE a.arm64
  <2>1. slice' = <<a.offset, a.size>> /\ pc' = "slice"
    BY <1>1, <1>8 DEF preferred
  <2>2. Chosen(Arms)'
    <3>1. Arms' = {n}
      BY <1>5, <1>8
    <3>2. slice' = <<fat'.archs[n].offset, fat'.archs[n].size>>
      BY <1>4, <2>1
    <3> QED
      BY <1>4, <3>1, <3>2 DEF Chosen
  <2> QED
    BY <1>2, <1>4, <1>7, <2>1, <2>2 DEF SliceInv, ElfStages, PeStages
<1>9. CASE ~a.arm64
  <2>1. Arms' = {} /\ pc' = "archs"
    BY <1>1, <1>2, <1>5, <1>9
  <2>2. CASE Full = {}
    <3>1. slice' = <<a.offset, a.size>>
      BY <1>1, <1>2, <2>2 DEF preferred, WithoutArm
    <3>2. ASSUME a.size = 0 PROVE WithoutArm'
      BY <1>6, <2>1, <2>2, <3>1, <3>2 DEF WithoutArm
    <3>3. ASSUME a.size > 0 PROVE WithoutArm'
      <4>1. Full' = {n}
        BY <1>6, <2>2, <3>3
      <4>2. Chosen(Full)'
        BY <1>4, <3>1, <4>1 DEF Chosen
      <4> QED
        BY <2>1, <4>1, <4>2 DEF WithoutArm
    <3>4. WithoutArm'
      BY <1>3, <3>2, <3>3
    <3> QED
      BY <1>2, <1>4, <1>7, <2>1, <3>4 DEF SliceInv, ElfStages, PeStages
  <2>3. CASE Full # {}
    <3>1. PICK i \in Full : /\ \A j \in Full : i <= j
                           /\ slice = <<fat.archs[i].offset, fat.archs[i].size>>
      BY <1>2, <2>3 DEF WithoutArm, Chosen
    <3>2. i \in DOMAIN fat.archs /\ fat.archs[i].size > 0 /\ i < n /\ i \in Nat
      BY <1>4 DEF Full
    <3>3. slice' = slice /\ slice = <<fat'.archs[i].offset, fat'.archs[i].size>>
      BY <1>1, <1>4, <1>9, <3>1, <3>2 DEF preferred
    <3>4. i \in Full' /\ \A j \in Full' : i <= j
      BY <1>4, <1>6, <3>1, <3>2
    <3>5. WithoutArm'
      BY <2>1, <3>3, <3>4 DEF WithoutArm, Chosen
    <3> QED
      BY <1>2, <1>4, <1>7, <2>1, <3>5 DEF SliceInv, ElfStages, PeStages
  <2> QED
    BY <2>2, <2>3
<1> QED
  BY <1>3, <1>8, <1>9

\* Nothing is chosen of a file that is not universal.
LEMMA NoSlice ==
  ASSUME SliceInv, fat = [n |-> 0, archs |-> <<>>], slice = <<0, 0>>, UNCHANGED <<fat, slice>>,
         pc' \notin {"archs", "slice"}, pc' = "fat" => image' = ImageSize["MachOFat"]
  PROVE  SliceInv'
<1>1. fat'.n = 0 /\ ~(fat'.n > 0)
  OBVIOUS
<1>2. fat' \in [n : Nat, archs : Seq(FatArchs)] /\ slice' \in Nat \X Nat
  BY DEF SliceInv
<1> QED
  BY <1>1, <1>2 DEF SliceInv

\* One entry of a universal file.
LEMMA SliceStep ==
  ASSUME SliceInv, [Next]_vars
  PROVE  SliceInv'
<1>1. CASE UNCHANGED <<fat, slice>> /\ pc' = pc /\ image' = image
  BY <1>1 DEF SliceInv, WithoutArm, Chosen, Arms, Full
<1>2. CASE load_file
  <2>1. UNCHANGED <<fat, slice>> /\ pc = "load"
    BY <1>2 DEF load_file, machoVars
  <2>2. pc' \in {"elf", "macho", "fat", "pe", "refused"}
        /\ (pc' = "fat" => image' = ImageSize["MachOFat"])
    BY <1>2 DEF load_file, reader
  <2> QED
    BY <2>1, <2>2, NoSlice DEF SliceInv
<1>3. CASE (ElfNext \/ PeNext) /\ UNCHANGED machoVars
  <2>1. UNCHANGED <<fat, slice>>
    BY <1>3 DEF machoVars
  <2>2. pc \in ElfStages \cup PeStages /\ pc' \in ElfStages \cup PeStages \cup Ends
    BY <1>3, ElfStays, PeStays
  <2>3. fat.n = 0 /\ fat = [n |-> 0, archs |-> <<>>] /\ slice = <<0, 0>>
    BY <2>2 DEF SliceInv
  <2> QED
    BY <2>1, <2>2, <2>3, NoSlice DEF ElfStages, PeStages, Ends
<1>4. CASE FatHeader
  <2>1. PICK n \in 0..MaxFat + 1 :
          fat' = [fat EXCEPT !.n = n] /\ pc' \in {"refused", "archs"} /\ image' = image
    BY <1>4 DEF FatHeader
  <2>2. fat = [n |-> 0, archs |-> <<>>] /\ slice = <<0, 0>> /\ slice' = slice /\ n \in Nat
    BY <1>4, MachoConstants DEF FatHeader, SliceInv
  <2>3. fat' = [n |-> n, archs |-> <<>>]
    BY <2>1, <2>2
  <2>5. fat' \in [n : Nat, archs : Seq(FatArchs)]
    BY <2>2, <2>3
  <2>4. WithoutArm'
    BY <2>2, <2>3 DEF WithoutArm, Arms, Full
  <2>6. image' = ImageSize["MachOFat"]
    BY <1>4, <2>1 DEF FatHeader, SliceInv
  <2> QED
    BY <2>1, <2>2, <2>4, <2>5, <2>6 DEF SliceInv, ElfStages, PeStages
<1>5. CASE FatArch
  BY <1>5, FatArchStep
<1>6. CASE FatArchsEnd
  BY <1>6 DEF FatArchsEnd, machoVars, SliceInv, WithoutArm, Chosen, Arms, Full, ElfStages, PeStages
<1>7. CASE TakeSlice
  BY <1>7 DEF TakeSlice, slice_fits, machoVars, SliceInv, WithoutArm, Chosen, Arms, Full, ElfStages, PeStages
<1>8. CASE ThinHeader \/ LoadCommand \/ CommandsEnd \/ parse_nlist \/ NlistsEnd
  <2>1. /\ pc \in {"macho", "commands", "nlists"} /\ UNCHANGED <<fat, slice, image>>
        /\ pc' \in {"commands", "nlists", "done", "refused"}
    BY <1>8 DEF ThinHeader, LoadCommand, CommandsEnd, parse_nlist, NlistsEnd, machoVars
  <2> QED
    BY <2>1 DEF SliceInv, WithoutArm, Chosen, Arms, Full, ElfStages, PeStages
<1> QED
  BY <1>1, <1>2, <1>3, <1>4, <1>5, <1>6, <1>7, <1>8
  DEF Next, Loaded, MachoNext, vars, common, machoVars

\* Of a universal file the arm64 slice is taken if the walk came to one, else the
\* first that is not empty, and it lies in the file, whatever the file claims of its slices.
THEOREM SlicePreferredAlways == Spec => []SlicePreferred
<1>1. Init => SliceInv
  BY DEF Init, MachoInit, SliceInv
<1>2. SliceInv => SlicePreferred
  <2> SUFFICES ASSUME SliceInv, pc \in {"macho", "commands", "nlists", "done"}, fat.n > 0
               PROVE  LET I == IF Arms # {} THEN Arms ELSE Full
                          a == fat.archs[Min(I)]
                      IN  /\ I # {} /\ slice = <<a.offset, a.size>> /\ image = a.size
                          /\ a.offset + a.size <= ImageSize["MachOFat"]
    BY DEF SlicePreferred, Arms, Full
  <2> DEFINE I == IF Arms # {} THEN Arms ELSE Full
  <2>1. I \subseteq Nat
    BY DEF Arms, Full, SliceInv
  <2>2. Chosen(I) /\ image = slice[2] /\ slice[1] + slice[2] <= ImageSize["MachOFat"]
    BY DEF SliceInv, WithoutArm, Chosen
  <2> HIDE DEF I
  <2>3. PICK i \in I : /\ \A j \in I : i <= j
                      /\ slice = <<fat.archs[i].offset, fat.archs[i].size>>
    BY <2>2 DEF Chosen
  <2>4. Min(I) = i
    BY <2>1, <2>3, MinIs
  <2>5. I # {} /\ slice = <<fat.archs[Min(I)].offset, fat.archs[Min(I)].size>>
        /\ image = fat.archs[Min(I)].size
        /\ fat.archs[Min(I)].offset + fat.archs[Min(I)].size <= ImageSize["MachOFat"]
    BY <2>2, <2>3, <2>4
  <2> QED
    BY <2>5 DEF I
<1> QED
  BY <1>1, <1>2, SliceStep, PTL DEF Spec

-----------------------------------------------------------------------------
(* Mach-O: the libraries of imports *)

\* The dylib commands the reader takes, and their numbers in its list.
Recognised(c) == IsDylib(c.kind) /\ c.name_off < c.cmdsize
Taken == {i \in DOMAIN commands : Recognised(commands[i])}
DylibNumber(d) == Cardinality(Taken \cap 1..d)

\* The reader's list of libraries is the list of the dylib commands it takes.
LibrariesNumbered ==
  /\ \E S : object.libraries \in Seq(S)
  /\ Len(object.libraries) = Cardinality(Taken)
  /\ \A d \in Taken :
       DylibNumber(d) \in DOMAIN object.libraries /\ object.libraries[DylibNumber(d)] = commands[d].name

ImportsRight ==
  \A i \in DOMAIN object.symbols :
    object.symbols[i].bind = "Imported" => object.symbols[i].library = import_library(object.symbols[i])

ImportInv ==
  /\ pc \in {"load"} \cup ElfStages \cup MachoStages \cup PeStages \cup Ends
  /\ commands \in Seq(Commands)
  /\ pc \in {"load", "fat", "archs", "slice", "macho"} => object = NoObject /\ commands = <<>>
  /\ pc \in ElfStages \cup PeStages \cup {"refused"} => commands = <<>>
  /\ pc = "commands" => DOMAIN object = ObjectFields /\ object.symbols = <<>> /\ LibrariesNumbered
  /\ pc = "nlists" => /\ DOMAIN object = ObjectFields /\ \E S : object.symbols \in Seq(S)
                      /\ LibrariesNumbered /\ ImportsRight
  /\ pc = "done" /\ commands # <<>> => LibrariesNumbered /\ ImportsRight

\* How one more command counts among those that load a dylib.
LEMMA OneMoreCommand ==
  ASSUME commands \in Seq(Commands), NEW c \in Commands, commands' = Append(commands, c),
         NEW n, n = Len(commands) + 1
  PROVE  /\ commands' \in Seq(Commands) /\ commands'[n] = c
         /\ \A d \in Taken : d \in Taken' /\ commands'[d] = commands[d] /\ DylibNumber(d)' = DylibNumber(d)
         /\ ~Recognised(c) => Taken' = Taken
         /\ Recognised(c) => /\ Taken' = Taken \cup {n}
                               /\ Cardinality(Taken') = Cardinality(Taken) + 1
                               /\ DylibNumber(n)' = Cardinality(Taken) + 1
         /\ Cardinality(Taken) \in Nat
<1>1. /\ n \in Nat /\ commands' \in Seq(Commands) /\ commands'[n] = c
      /\ DOMAIN commands' = DOMAIN commands \cup {n} /\ DOMAIN commands = 1..Len(commands)
      /\ Len(commands) \in Nat
      /\ \A i \in DOMAIN commands : commands'[i] = commands[i] /\ i \in Nat /\ i < n
  OBVIOUS
<1>3. Taken' = Taken \cup (IF Recognised(c) THEN {n} ELSE {})
  BY <1>1 DEF Taken
<1>4. IsFiniteSet(Taken) /\ Cardinality(Taken) \in Nat /\ n \notin Taken
  <2>1. IsFiniteSet(1..Len(commands)) /\ Taken \subseteq 1..Len(commands)
    <3>1. IsFiniteSet(1..Len(commands))
      BY <1>1, FS_Interval
    <3> QED
      BY <1>1, <3>1 DEF Taken
  <2>2. n \notin Taken
    BY <1>1 DEF Taken
  <2> QED
    BY <2>1, <2>2, FS_Subset, FS_CardinalityType
<1>5. \A d \in Taken : d \in DOMAIN commands
  BY DEF Taken
<1>6. ASSUME NEW d \in Taken
      PROVE  DylibNumber(d)' = DylibNumber(d)
  <2>1. Taken' \cap 1..d = Taken \cap 1..d
    BY <1>1, <1>3, <1>5
  <2> QED
    BY <2>1 DEF DylibNumber
<1>7. CASE Recognised(c)
  <2>1. Taken' = Taken \cup {n}
    BY <1>3, <1>7
  <2>2. Taken' \cap 1..n = Taken'
    BY <1>1, <1>5, <2>1
  <2>3. Cardinality(Taken') = Cardinality(Taken) + 1
    BY <1>4, <2>1, FS_AddElement
  <2>4. DylibNumber(n)' = Cardinality(Taken')
    BY <1>1, <2>2 DEF DylibNumber
  <2> QED
    BY <1>1, <1>4, <1>5, <1>6, <1>7, <2>1, <2>3, <2>4
<1>8. CASE ~Recognised(c)
  <2>1. Taken' = Taken
    BY <1>3, <1>8
  <2> QED
    BY <1>1, <1>4, <1>5, <1>6, <1>8, <2>1
<1> QED
  BY <1>7, <1>8

\* One load command.
LEMMA LoadCommandStep ==
  ASSUME ImportInv, LoadCommand
  PROVE  ImportInv'
<1>1. PICK c \in Commands : commands' = Append(commands, c) /\ object' = apply_command(c)
  BY DEF LoadCommand
<1>2. /\ pc = "commands" /\ pc' \in {"commands", "nlists"} /\ DOMAIN object = ObjectFields
      /\ object.symbols = <<>> /\ LibrariesNumbered /\ commands \in Seq(Commands)
  BY DEF LoadCommand, ImportInv
<1> DEFINE n == Len(commands) + 1
<1>0. PICK m : m = n
  OBVIOUS
<1>3. DOMAIN object' = ObjectFields /\ object'.symbols = object.symbols
  BY <1>1, <1>2 DEF apply_command, ObjectFields
<1>4. LibrariesNumbered'
  <2>1. CASE Recognised(c)
    <3>1. object'.libraries = Append(object.libraries, c.name)
      BY <1>1, <1>2, <2>1 DEF apply_command, Recognised, IsDylib, ObjectFields
    <3>2. PICK S : object.libraries \in Seq(S)
      BY <1>2 DEF LibrariesNumbered
    <3>3. object'.libraries \in Seq(S \cup {c.name})
      BY <3>1, <3>2, AppendGrows
    <3>4. /\ Len(object'.libraries) = Len(object.libraries) + 1 /\ Len(object.libraries) \in Nat
          /\ DOMAIN object.libraries = 1..Len(object.libraries)
          /\ DOMAIN object'.libraries = 1..(Len(object.libraries) + 1)
          /\ \A i \in DOMAIN object.libraries : object'.libraries[i] = object.libraries[i]
          /\ object'.libraries[Len(object.libraries) + 1] = c.name
      BY <3>1, <3>2, AppendGrows
    <3>5. Len(object'.libraries) = Cardinality(Taken')
      BY <1>0, <1>1, <1>2, <2>1, <3>4, OneMoreCommand DEF LibrariesNumbered
    <3>6. ASSUME NEW d \in Taken'
          PROVE  /\ DylibNumber(d)' \in DOMAIN object'.libraries
                 /\ object'.libraries[DylibNumber(d)'] = commands'[d].name
      <4>1. CASE d \in Taken
        <5>1. /\ commands'[d] = commands[d] /\ DylibNumber(d)' = DylibNumber(d)
              /\ DylibNumber(d) \in DOMAIN object.libraries
              /\ object.libraries[DylibNumber(d)] = commands[d].name
          BY <1>0, <1>1, <1>2, <4>1, OneMoreCommand DEF LibrariesNumbered
        <5> QED
          BY <3>4, <5>1
      <4>2. CASE d = n
        <5>1. DylibNumber(d)' = Len(object.libraries) + 1 /\ commands'[d] = c
          BY <1>1, <1>2, <2>1, <4>2, OneMoreCommand DEF LibrariesNumbered
        <5> QED
          BY <3>4, <5>1
      <4> QED
        <5>1. Taken' = Taken \cup {m}
          BY <1>0, <1>1, <1>2, <2>1, OneMoreCommand
        <5> QED
          BY <1>0, <3>6, <4>1, <4>2, <5>1
    <3> QED
      BY <3>3, <3>5, <3>6 DEF LibrariesNumbered
  <2>2. CASE ~Recognised(c)
    <3>1. object'.libraries = object.libraries
      BY <1>1, <1>2, <2>2 DEF apply_command, Recognised, ObjectFields
    <3> QED
      BY <1>0, <1>1, <1>2, <2>2, <3>1, OneMoreCommand DEF LibrariesNumbered
  <2> QED
    BY <2>1, <2>2
<1>5. commands' \in Seq(Commands)
  BY <1>1, <1>2
<1>6. object'.symbols = <<>> /\ ImportsRight' /\ \E S : object'.symbols \in Seq(S)
  <2>1. object'.symbols = <<>> /\ <<>> \in Seq({})
    BY <1>2, <1>3
  <2> QED
    BY <2>1 DEF ImportsRight
<1> QED
  BY <1>2, <1>3, <1>4, <1>5, <1>6 DEF ImportInv, ElfStages, MachoStages, PeStages, Ends

\* One entry of the symbol table.
LEMMA NlistStep ==
  ASSUME ImportInv, parse_nlist
  PROVE  ImportInv'
<1>1. /\ pc = "nlists" /\ pc' = pc /\ commands' = commands /\ commands \in Seq(Commands)
      /\ DOMAIN object = ObjectFields /\ LibrariesNumbered /\ ImportsRight
  BY DEF parse_nlist, ImportInv
<1>2. PICK S : object.symbols \in Seq(S)
  BY <1>1 DEF ImportInv
<1>3. \/ object' = object
      \/ \E y : /\ y.bind = "Imported" => y.library = import_library(y)
               /\ object' = [object EXCEPT !.symbols = Append(@, y)]
  <2>1. PICK y \in Nlists :
         object' = IF ~reported(y) THEN object ELSE
             [object EXCEPT !.symbols = Append(@,
                [name |-> y.name, defined |-> y.type # "UNDF", ordinal |-> y.ordinal,
                 bind |-> CASE y.type = "UNDF" -> "Imported"
                            [] y.type = "SECT" /\ y.ext -> "Exported"
                            [] OTHER -> IF y.ext THEN "Global" ELSE "Local",
                 library |-> IF y.type = "UNDF" THEN import_library(y) ELSE ""])]
    BY DEF parse_nlist
  <2> DEFINE bind == CASE y.type = "UNDF" -> "Imported"
                       [] y.type = "SECT" /\ y.ext -> "Exported"
                       [] OTHER -> IF y.ext THEN "Global" ELSE "Local"
             new == [name |-> y.name, defined |-> y.type # "UNDF", ordinal |-> y.ordinal,
                     bind |-> bind, library |-> IF y.type = "UNDF" THEN import_library(y) ELSE ""]
  <2>2. bind = "Imported" => y.type = "UNDF"
    OBVIOUS
  <2>3. new.bind = bind /\ new.ordinal = y.ordinal
        /\ (y.type = "UNDF" => new.library = import_library(y))
    OBVIOUS
  <2>4. new.bind = "Imported" => new.library = import_library(new)
    BY <2>2, <2>3 DEF import_library
  <2>5. object' = object \/ object' = [object EXCEPT !.symbols = Append(@, new)]
    BY <2>1
  <2> HIDE DEF new
  <2> QED
    BY <2>4, <2>5
<1>4. DOMAIN object' = ObjectFields /\ object'.libraries = object.libraries
  BY <1>1, <1>3 DEF ObjectFields
<1>5. LibrariesNumbered'
  BY <1>1, <1>4 DEF LibrariesNumbered, DylibNumber, Taken
<1>6. ImportsRight' /\ \E T : object'.symbols \in Seq(T)
  <2>1. CASE object' = object
    BY <1>1, <1>2, <2>1 DEF ImportsRight, import_library
  <2>2. ASSUME NEW y, y.bind = "Imported" => y.library = import_library(y),
               object' = [object EXCEPT !.symbols = Append(@, y)]
        PROVE  ImportsRight' /\ \E T : object'.symbols \in Seq(T)
    <3>1. object'.symbols = Append(object.symbols, y)
      BY <1>1, <2>2 DEF ObjectFields
    <3>2. object'.symbols \in Seq(S \cup {y})
      BY <1>2, <3>1, AppendGrows
    <3>3. \A i \in DOMAIN object'.symbols :
            \/ i \in DOMAIN object.symbols /\ object'.symbols[i] = object.symbols[i]
            \/ object'.symbols[i] = y
      BY <1>2, <3>1, AppendGrows
    <3> QED
      BY <1>1, <1>4, <2>2, <3>2, <3>3 DEF ImportsRight, import_library
  <2> QED
    BY <1>3, <2>1, <2>2
<1> QED
  BY <1>1, <1>4, <1>5, <1>6 DEF ImportInv, ElfStages, MachoStages, PeStages, Ends

\* One entry of an import table.
LEMMA ImportStep ==
  ASSUME ImportInv, [Next]_vars
  PROVE  ImportInv'
<1>1. CASE UNCHANGED <<pc, commands, object>>
  BY <1>1 DEF ImportInv, LibrariesNumbered, ImportsRight, import_library, DylibNumber, Taken
<1>2. CASE load_file
  <2>1. UNCHANGED <<object, commands>> /\ pc = "load"
    BY <1>2 DEF load_file, machoVars
  <2>2. pc' \in {"elf", "macho", "fat", "pe", "refused"}
    BY <1>2 DEF load_file, reader
  <2> QED
    BY <2>1, <2>2 DEF ImportInv, ElfStages, MachoStages, PeStages, Ends
<1>3. CASE (ElfNext \/ PeNext) /\ UNCHANGED machoVars
  <2>1. commands' = commands
    BY <1>3 DEF machoVars
  <2>2. pc \in ElfStages \cup PeStages /\ pc' \in ElfStages \cup PeStages \cup Ends
    BY <1>3, ElfStays, PeStays
  <2>3. commands = <<>>
    BY <2>2 DEF ImportInv
  <2> QED
    BY <2>1, <2>2, <2>3 DEF ImportInv, ElfStages, MachoStages, PeStages, Ends
<1>4. CASE FatHeader \/ FatArch \/ FatArchsEnd \/ TakeSlice
  BY <1>4 DEF FatHeader, FatArch, FatArchsEnd, TakeSlice, machoVars, ImportInv, ElfStages, MachoStages, PeStages, Ends
<1>5. CASE ThinHeader
  <2>1. /\ object' = NoObject /\ commands' = <<>> /\ commands \in Seq(Commands)
        /\ pc' \in {"refused", "commands"}
    BY <1>5 DEF ThinHeader, ImportInv
  <2>2. Taken' = {} /\ Cardinality({}) = 0
    BY <2>1, FS_EmptySet DEF Taken
  <2>3. LibrariesNumbered'
    <3>1. object'.libraries = <<>> /\ <<>> \in Seq({}) /\ Len(<<>>) = 0
      BY <2>1 DEF NoObject
    <3> QED
      BY <2>2, <3>1 DEF LibrariesNumbered
  <2>4. DOMAIN object' = ObjectFields /\ object'.symbols = <<>>
    BY <2>1 DEF NoObject, ObjectFields
  <2> QED
    BY <1>5, <2>1, <2>3, <2>4 DEF ThinHeader, ImportInv, ElfStages, MachoStages, PeStages, Ends
<1>6. CASE LoadCommand
  BY <1>6, LoadCommandStep
<1>7. CASE CommandsEnd \/ NlistsEnd
  <2>1. /\ UNCHANGED <<object, commands>>
        /\ \/ pc = "commands" /\ pc' = "nlists"
           \/ pc = "nlists" /\ pc' = "done"
    <3>1. ASSUME CommandsEnd
          PROVE  UNCHANGED <<object, commands>> /\ pc = "commands" /\ pc' = "nlists"
      BY <3>1 DEF CommandsEnd, machoVars
    <3>2. ASSUME NlistsEnd
          PROVE  UNCHANGED <<object, commands>> /\ pc = "nlists" /\ pc' = "done"
      BY <3>2 DEF NlistsEnd, machoVars
    <3> QED
      BY <1>7, <3>1, <3>2
  <2>2. LibrariesNumbered' /\ ImportsRight' /\ \E S : object'.symbols \in Seq(S)
    <3>1. <<>> \in Seq({})
      OBVIOUS
    <3>2. LibrariesNumbered'
      BY <2>1 DEF ImportInv, LibrariesNumbered, DylibNumber, Taken
    <3>3. ImportsRight
      BY <2>1 DEF ImportInv, ImportsRight
    <3>4. ImportsRight'
      BY <2>1, <3>3 DEF ImportsRight, import_library
    <3>5. \E S : object.symbols \in Seq(S)
      BY <2>1, <3>1 DEF ImportInv
    <3> QED
      BY <2>1, <3>2, <3>4, <3>5
  <2> QED
    BY <2>1, <2>2 DEF ImportInv, ElfStages, MachoStages, PeStages, Ends
<1>8. CASE parse_nlist
  BY <1>8, NlistStep
<1> QED
  BY <1>1, <1>2, <1>3, <1>4, <1>5, <1>6, <1>7, <1>8
  DEF Next, Loaded, MachoNext, vars, common, machoVars

\* An import is attributed to the library its ordinal counts to, when no command the reader
\* leaves out comes before that library's.
THEOREM ImportsAttributedAlways == Spec => []ImportsAttributed
<1>1. Init => ImportInv
  BY DEF Init, MachoInit, ImportInv, ElfStages, PeStages, NoObject
<1>2. ImportInv => ImportsAttributed
  <2> SUFFICES ASSUME ImportInv, NEW i \in DOMAIN object.symbols, NEW d \in Dylibs,
                      object.symbols[i].bind = "Imported",
                      object.symbols[i].ordinal = Cardinality(Dylibs \cap 1..d), Unread \cap 1..d = {}
               PROVE  object.symbols[i].library = commands[d].name
    BY DEF ImportsAttributed
  <2>1. commands # <<>> /\ object.symbols # <<>> /\ commands \in Seq(Commands)
    BY DEF Dylibs, ImportInv
  <2>2. LibrariesNumbered /\ ImportsRight
    <3>1. pc \in {"commands", "nlists", "done"}
      BY <2>1 DEF ImportInv, ElfStages, MachoStages, PeStages, Ends
    <3>2. pc # "commands"
      BY <2>1 DEF ImportInv
    <3> QED
      BY <2>1, <3>1, <3>2 DEF ImportInv
  <2>3. Dylibs \cap 1..d = Taken \cap 1..d
    BY DEF Dylibs, Unread, Taken, Recognised, IsDylib, DylibKinds, UnreadKinds
  <2>4. d \in Nat /\ d >= 1
    BY <2>1 DEF Dylibs
  <2>5. d \in Taken
    BY <2>3, <2>4
  <2> QED
    BY <2>2, <2>3, <2>5 DEF LibrariesNumbered, DylibNumber, ImportsRight, import_library
<1> QED
  BY <1>1, <1>2, ImportStep, PTL DEF Spec

-----------------------------------------------------------------------------
(* PE: how many symbols *)

Kind(bind) == {i \in DOMAIN object.symbols : object.symbols[i].bind = bind}

Bounded ==
  /\ DOMAIN object = ObjectFields /\ \E S : object.symbols \in Seq(S)
  /\ \A i \in DOMAIN object.symbols : DOMAIN object.symbols[i] = SymbolFields
  /\ budget \in Nat
  /\ Cardinality(Kind("Imported")) <= budget /\ Cardinality(Kind("Imported")) <= MaxParsedSymbols
  /\ Cardinality(Kind("Exported")) <= MaxParsedSymbols

BoundInv ==
  /\ pc \in {"load"} \cup ElfStages \cup MachoStages \cup PeStages \cup Ends
  /\ pc \in {"load"} \cup ElfStages \cup MachoStages => pe = <<>>
  /\ pc \in {"load", "pe"} => object = NoObject /\ budget = 0 /\ coff = <<>>
  /\ pc \in PeStages \ {"pe"} \/ (pc \in Ends /\ pe # <<>>) => Bounded
  /\ pc \in {"pe_sections", "imports", "to_exports", "exports"} => pe.exports \in Nat
  /\ pc \in {"pe_sections", "imports", "to_exports"} => Cardinality(Kind("Exported")) = 0
  /\ pc = "exports" => /\ entry \in Nat /\ Cardinality(Kind("Exported")) <= entry
                       /\ entry <= pe.exports /\ pe.exports <= MaxParsedSymbols

\* The symbols of one binding can be counted.
LEMMA KindFinite ==
  ASSUME NEW S, object.symbols \in Seq(S), NEW bind
  PROVE  IsFiniteSet(Kind(bind)) /\ Cardinality(Kind(bind)) \in Nat
<1>1. DOMAIN object.symbols = 1..Len(object.symbols) /\ Len(object.symbols) \in Int
  OBVIOUS
<1>2. Kind(bind) \subseteq 1..Len(object.symbols) /\ 1 \in Int
  BY <1>1 DEF Kind
<1>3. IsFiniteSet(1..Len(object.symbols))
  BY <1>1, <1>2, FS_Interval
<1>4. IsFiniteSet(Kind(bind))
  BY <1>2, <1>3, FS_Subset
<1> QED
  BY <1>4, FS_CardinalityType

\* One more symbol is one more of its binding and of no other.
LEMMA SymbolCounted ==
  ASSUME NEW S, object.symbols \in Seq(S), NEW y,
         object'.symbols = Append(object.symbols, y), NEW bind
  PROVE  /\ Cardinality(Kind(bind)) \in Nat
         /\ y.bind = bind => Cardinality(Kind(bind)') = Cardinality(Kind(bind)) + 1
         /\ y.bind # bind => Cardinality(Kind(bind)') = Cardinality(Kind(bind))
<1>1. PICK n : n = Len(object.symbols) + 1
  OBVIOUS
<1>2. /\ n \in Nat /\ n \notin DOMAIN object.symbols
      /\ DOMAIN object'.symbols = DOMAIN object.symbols \cup {n}
      /\ \A i \in DOMAIN object.symbols : object'.symbols[i] = object.symbols[i]
      /\ object'.symbols[n] = y
  BY <1>1, AppendGrows
<1>3. Kind(bind)' = Kind(bind) \cup (IF y.bind = bind THEN {n} ELSE {}) /\ n \notin Kind(bind)
  BY <1>2 DEF Kind
<1>4. IsFiniteSet(Kind(bind))
  BY KindFinite
<1>5. Cardinality(Kind(bind)) \in Nat
  BY KindFinite
<1>6. CASE y.bind = bind
  <2>1. Kind(bind)' = Kind(bind) \cup {n}
    BY <1>3, <1>6
  <2> QED
    BY <1>3, <1>4, <1>5, <1>6, <2>1, FS_AddElement
<1>7. CASE y.bind # bind
  BY <1>3, <1>5, <1>7
<1> QED
  BY <1>6, <1>7

\* An object without symbols has none of either binding.
LEMMA NoSymbols ==
  ASSUME object.symbols = <<>>
  PROVE  Cardinality(Kind("Imported")) = 0 /\ Cardinality(Kind("Exported")) = 0
<1>1. Kind("Imported") = {} /\ Kind("Exported") = {}
  BY DEF Kind
<1> QED
  BY <1>1, FS_EmptySet

\* Steps that leave the list of symbols alone.
LEMMA SameSymbols ==
  ASSUME Bounded, DOMAIN object' = DOMAIN object, object'.symbols = object.symbols,
         budget' \in Nat, budget <= budget'
  PROVE  Bounded' /\ \A bind : Kind(bind)' = Kind(bind)
<1>1. \A bind : Kind(bind)' = Kind(bind)
  BY DEF Kind
<1>2. Cardinality(Kind("Imported")) \in Nat
  <2>1. PICK S : object.symbols \in Seq(S)
    BY DEF Bounded
  <2> QED
    BY <2>1, KindFinite
<1> QED
  BY <1>1, <1>2 DEF Bounded

\* The thunks: each costs one of the budget, and none is an export.
LEMMA ImportThunkStep ==
  ASSUME BoundInv, ImportThunk
  PROVE  BoundInv'
<1>1. /\ pc = "imports" /\ pc' \in {"imports", "to_exports"} /\ pe' = pe /\ Bounded
      /\ pe.exports \in Nat /\ Cardinality(Kind("Exported")) = 0
  BY DEF ImportThunk, BoundInv, PeStages
<1>2. \/ object' = object /\ budget' = budget
      \/ object' = object /\ budget' = budget + 1
      \/ /\ budget' = budget + 1 /\ ~spent
         /\ \E y : y.bind = "Imported" /\ DOMAIN y = SymbolFields
                  /\ object' = [object EXCEPT !.symbols = Append(@, y)]
  BY DEF ImportThunk, SymbolFields
<1>3. Bounded' /\ Cardinality(Kind("Exported"))' = 0
  <2>1. CASE object' = object /\ (budget' = budget \/ budget' = budget + 1)
    <3>1. budget' \in Nat /\ budget <= budget'
      BY <1>1, <2>1 DEF Bounded
    <3> QED
      BY <1>1, <2>1, <3>1, SameSymbols
  <2>2. ASSUME budget' = budget + 1, ~spent, NEW y, y.bind = "Imported", DOMAIN y = SymbolFields,
               object' = [object EXCEPT !.symbols = Append(@, y)]
        PROVE  Bounded' /\ Cardinality(Kind("Exported"))' = 0
    <3>1. PICK S : object.symbols \in Seq(S)
      BY <1>1 DEF Bounded
    <3>2. DOMAIN object' = DOMAIN object /\ object'.symbols = Append(object.symbols, y)
      BY <1>1, <2>2 DEF Bounded, ObjectFields
    <3>3. /\ object'.symbols \in Seq(S \cup {y})
          /\ \A i \in DOMAIN object'.symbols : DOMAIN object'.symbols[i] = SymbolFields
      BY <1>1, <2>2, <3>1, <3>2, AppendGrows DEF Bounded
    <3>4. /\ Cardinality(Kind("Imported")) \in Nat
          /\ Cardinality(Kind("Imported")') = Cardinality(Kind("Imported")) + 1
      BY <2>2, <3>1, <3>2, SymbolCounted
    <3>5. Cardinality(Kind("Exported")') = Cardinality(Kind("Exported"))
      BY <2>2, <3>1, <3>2, SymbolCounted
    <3>6. budget < MaxParsedSymbols
      BY <1>1, <2>2, PeConstants DEF spent, Bounded
    <3> QED
      BY <1>1, <2>2, <3>2, <3>3, <3>4, <3>5, <3>6, PeConstants DEF Bounded
  <2> QED
    BY <1>2, <2>1, <2>2
<1> QED
  BY <1>1, <1>3 DEF BoundInv, ElfStages, MachoStages, PeStages, Ends

\* The names of exports: each is one entry of a table whose size was checked.
LEMMA ExportNameStep ==
  ASSUME BoundInv, ExportName
  PROVE  BoundInv'
<1>1. /\ pc = "exports" /\ pc' \in {"exports", "to_coff"} /\ pe' = pe /\ budget' = budget /\ Bounded
      /\ pe.exports \in Nat /\ entry \in Nat /\ Cardinality(Kind("Exported")) <= entry
      /\ entry <= pe.exports /\ pe.exports <= MaxParsedSymbols
  BY DEF ExportName, BoundInv, PeStages
<1>2. \/ object' = object /\ entry' = entry
      \/ object' = object /\ entry # pe.exports /\ entry' = entry + 1
      \/ /\ entry # pe.exports /\ entry' = entry + 1
         /\ \E y : y.bind = "Exported" /\ DOMAIN y = SymbolFields
                  /\ object' = [object EXCEPT !.symbols = Append(@, y)]
  BY DEF ExportName, SymbolFields
<1>3. /\ Bounded' /\ entry' \in Nat /\ entry' <= pe.exports
      /\ Cardinality(Kind("Exported")') <= entry'
  <2>1. CASE object' = object /\ (entry' = entry \/ (entry # pe.exports /\ entry' = entry + 1))
    <3>1. PICK S : object.symbols \in Seq(S)
      BY <1>1 DEF Bounded
    <3>2. Bounded' /\ Kind("Exported")' = Kind("Exported")
      BY <1>1, <2>1, SameSymbols DEF Bounded
    <3>3. Cardinality(Kind("Exported")) \in Nat
      BY <3>1, KindFinite
    <3>4. entry' \in Nat /\ entry' <= pe.exports /\ entry <= entry'
      BY <1>1, <2>1
    <3> QED
      BY <1>1, <3>2, <3>3, <3>4
  <2>2. ASSUME entry # pe.exports, entry' = entry + 1, NEW y, y.bind = "Exported", DOMAIN y = SymbolFields,
               object' = [object EXCEPT !.symbols = Append(@, y)]
        PROVE  /\ Bounded' /\ entry' \in Nat /\ entry' <= pe.exports
               /\ Cardinality(Kind("Exported")') <= entry'
    <3>1. PICK S : object.symbols \in Seq(S)
      BY <1>1 DEF Bounded
    <3>2. DOMAIN object' = DOMAIN object /\ object'.symbols = Append(object.symbols, y)
      BY <1>1, <2>2 DEF Bounded, ObjectFields
    <3>3. /\ object'.symbols \in Seq(S \cup {y})
          /\ \A i \in DOMAIN object'.symbols : DOMAIN object'.symbols[i] = SymbolFields
      BY <1>1, <2>2, <3>1, <3>2, AppendGrows DEF Bounded
    <3>4. /\ Cardinality(Kind("Exported")) \in Nat
          /\ Cardinality(Kind("Exported")') = Cardinality(Kind("Exported")) + 1
      BY <2>2, <3>1, <3>2, SymbolCounted
    <3>5. Cardinality(Kind("Imported")') = Cardinality(Kind("Imported"))
      BY <2>2, <3>1, <3>2, SymbolCounted
    <3>6. entry' \in Nat /\ entry' <= pe.exports /\ Cardinality(Kind("Exported")') <= entry'
      BY <1>1, <2>2, <3>4
    <3> QED
      BY <1>1, <3>2, <3>3, <3>4, <3>5, <3>6, PeConstants DEF Bounded
  <2> QED
    BY <1>2, <2>1, <2>2
<1> QED
  BY <1>1, <1>3 DEF BoundInv, ElfStages, MachoStages, PeStages, Ends

\* What a joined record does to the list: one symbol more, or an address filled in.
Appended(y, address, new) ==
  /\ join(y, address) = Append(object.symbols, new)
  /\ new.name = y.name /\ new.address = address
  /\ new.bind \in {"Global", "Local"} /\ DOMAIN new = SymbolFields
  /\ \A i \in Kind("Exported") : object.symbols[i].name # y.name

FilledIn(y, address, x) ==
  /\ object.symbols[x].name = y.name
  /\ \/ object.symbols[x].address # 0 /\ join(y, address) = object.symbols
     \/ /\ object.symbols[x].address = 0
        /\ join(y, address) = [object.symbols EXCEPT ![x].address = address]

\* A symbol of the COFF table is appended, or gives an export its address.
LEMMA JoinEffect ==
  ASSUME NEW S, object.symbols \in Seq(S), NEW y, NEW address
  PROVE  \/ \E new : Appended(y, address, new)
         \/ \E x \in Kind("Exported") : FilledIn(y, address, x)
<1> DEFINE I == {i \in 1..Len(object.symbols) :
                   object.symbols[i].bind = "Exported" /\ object.symbols[i].name = y.name}
           x == exported(y.name)
<1>1. Len(object.symbols) \in Nat /\ DOMAIN object.symbols = 1..Len(object.symbols)
  OBVIOUS
<1>2. x = IF I # {} THEN Min(I) ELSE 0
  BY DEF exported, SelectInSeq
<1>3. \/ x = 0 /\ I = {}
      \/ x \in I
  <2>1. I \subseteq Nat
    OBVIOUS
  <2> HIDE DEF x, I
  <2> QED
    BY <1>2, <2>1, FirstOrNone
<1>4. CASE x = 0 /\ I = {}
  <2> DEFINE new == [name |-> y.name, bind |-> IF y.external THEN "Global" ELSE "Local",
                     address |-> address, library |-> ""]
  <2>1. join(y, address) = Append(object.symbols, new)
    BY <1>4 DEF join
  <2>2. /\ new.name = y.name /\ new.address = address /\ new.bind \in {"Global", "Local"}
        /\ DOMAIN new = SymbolFields
    BY DEF SymbolFields
  <2>3. \A i \in Kind("Exported") : object.symbols[i].name # y.name
    BY <1>1, <1>4 DEF Kind
  <2> HIDE DEF new
  <2> QED
    BY <2>1, <2>2, <2>3 DEF Appended
<1>5. CASE x \in I
  <2>1. x \in Kind("Exported") /\ object.symbols[x].name = y.name /\ x # 0
    BY <1>1, <1>5 DEF Kind
  <2>2. \/ object.symbols[x].address # 0 /\ join(y, address) = object.symbols
        \/ /\ object.symbols[x].address = 0
           /\ join(y, address) = [object.symbols EXCEPT ![x].address = address]
    BY <2>1 DEF join
  <2> HIDE DEF x
  <2> QED
    BY <2>1, <2>2 DEF FilledIn
<1> QED
  BY <1>3, <1>4, <1>5

\* Filling in an address changes nothing else of the list.
LEMMA AddressFilled ==
  ASSUME NEW S, object.symbols \in Seq(S), NEW x \in Kind("Exported"), NEW address,
         object'.symbols = [object.symbols EXCEPT ![x].address = address],
         DOMAIN object.symbols[x] = SymbolFields
  PROVE  /\ \E T : object'.symbols \in Seq(T)
         /\ DOMAIN object'.symbols = DOMAIN object.symbols
         /\ \A i \in DOMAIN object.symbols :
              /\ object'.symbols[i].bind = object.symbols[i].bind
              /\ object'.symbols[i].name = object.symbols[i].name
              /\ i # x => object'.symbols[i] = object.symbols[i]
              /\ DOMAIN object'.symbols[i] = DOMAIN object.symbols[i]
         /\ object'.symbols[x].address = address
         /\ \A bind : Kind(bind)' = Kind(bind)
<1> DEFINE filled == [object.symbols[x] EXCEPT !.address = address]
<1>1. x \in DOMAIN object.symbols
  BY DEF Kind
<1>2. object'.symbols = [object.symbols EXCEPT ![x] = filled]
  OBVIOUS
<1>3. /\ filled.address = address /\ filled.bind = object.symbols[x].bind
      /\ filled.name = object.symbols[x].name /\ DOMAIN filled = DOMAIN object.symbols[x]
  BY DEF SymbolFields
<1> HIDE DEF filled
<1>4. object.symbols \in Seq(S \cup {filled})
  OBVIOUS
<1>5. object'.symbols \in Seq(S \cup {filled})
  BY <1>1, <1>2, <1>4
<1>6. DOMAIN object'.symbols = DOMAIN object.symbols
  BY <1>2
<1>7. \A i \in DOMAIN object.symbols : object'.symbols[i] = IF i = x THEN filled ELSE object.symbols[i]
  BY <1>1, <1>2
<1>8. \A bind : Kind(bind)' = Kind(bind)
  BY <1>3, <1>6, <1>7 DEF Kind
<1> QED
  BY <1>1, <1>3, <1>5, <1>6, <1>7, <1>8

\* The loops over the sections and from one source of symbols to the next.
LEMMA PeTableStep ==
  ASSUME BoundInv, PeHeader \/ PeSection \/ PeSectionsEnd \/ ImportDescriptor \/ ToExports \/ ToCoff \/ CoffEnd
  PROVE  BoundInv'
<1>1. CASE PeHeader
  <2>1. /\ object' = NoObject /\ budget' = 0 /\ pc' \in {"refused", "pe_sections"}
        /\ pe' \in PeHeaders /\ pe'.exports \in Nat
    BY <1>1, PeConstants DEF PeHeader, BoundInv
  <2>2. object'.symbols = <<>> /\ DOMAIN object' = ObjectFields /\ <<>> \in Seq({})
    BY <2>1 DEF NoObject, ObjectFields
  <2>3. Kind("Imported")' = {} /\ Kind("Exported")' = {}
    BY <2>2 DEF Kind
  <2>4. Cardinality({}) = 0
    BY FS_EmptySet
  <2>5. DOMAIN object'.symbols = {} /\ \E S : object'.symbols \in Seq(S)
    BY <2>2
  <2>6. budget' = 0 /\ 0 <= MaxParsedSymbols /\ 0 \in Nat
    BY <2>1, PeConstants
  <2>7. Cardinality(Kind("Imported"))' = 0 /\ Cardinality(Kind("Exported"))' = 0
    BY <2>3, <2>4
  <2>8. Bounded'
    BY <2>2, <2>5, <2>6, <2>7 DEF Bounded
  <2> QED
    BY <2>1, <2>7, <2>8 DEF BoundInv, ElfStages, MachoStages, PeStages, Ends
<1>2. ASSUME PeSection \/ PeSectionsEnd \/ ImportDescriptor \/ ToExports \/ ToCoff \/ CoffEnd
      PROVE  /\ Bounded /\ DOMAIN object' = DOMAIN object /\ object'.symbols = object.symbols
             /\ budget' = budget
  <2>1. Bounded
    BY <1>2 DEF PeSection, PeSectionsEnd, ImportDescriptor, ToExports, ToCoff, CoffEnd, BoundInv, PeStages
  <2>2. CASE PeSection
    BY <2>1, <2>2 DEF PeSection, Bounded, ObjectFields
  <2>3. CASE ImportDescriptor
    BY <2>1, <2>3 DEF ImportDescriptor, Bounded, ObjectFields
  <2>4. CASE ToCoff
    BY <2>1, <2>4 DEF ToCoff, Bounded, ObjectFields
  <2>5. CASE PeSectionsEnd \/ ToExports \/ CoffEnd
    BY <2>1, <2>5 DEF PeSectionsEnd, ToExports, CoffEnd, peVars
  <2> QED
    BY <1>2, <2>1, <2>2, <2>3, <2>4, <2>5
<1>3. ASSUME PeSection \/ PeSectionsEnd \/ ImportDescriptor \/ ToExports \/ ToCoff \/ CoffEnd
      PROVE  Bounded' /\ \A bind : Kind(bind)' = Kind(bind)
  <2>1. budget \in Nat /\ budget <= budget
    BY <1>2, <1>3 DEF Bounded
  <2> QED
    BY <1>2, <1>3, <2>1, SameSymbols
<1>4. CASE PeSection \/ PeSectionsEnd \/ ImportDescriptor
  <2>1. /\ pc \in {"pe_sections", "imports"} /\ pc' \in {"pe_sections", "imports", "to_exports"}
        /\ pe' = pe
    BY <1>4 DEF PeSection, PeSectionsEnd, ImportDescriptor, Enter
  <2> QED
    BY <1>3, <1>4, <2>1 DEF BoundInv, ElfStages, MachoStages, PeStages, Ends
<1>5. CASE ToExports
  <2>1. /\ pc = "to_exports" /\ pe' = pe /\ pc' \in {"exports", "to_coff"}
        /\ pc' = "exports" => pe.exports \in 1..MaxParsedSymbols /\ entry' = 0
    BY <1>5 DEF ToExports, Enter
  <2>2. pe.exports \in Nat /\ Cardinality(Kind("Exported")) = 0
    BY <2>1 DEF BoundInv
  <2> QED
    BY <1>3, <1>5, <2>1, <2>2, PeConstants DEF BoundInv, ElfStages, MachoStages, PeStages, Ends
<1>6. CASE ToCoff \/ CoffEnd
  <2>1. pc \in {"to_coff", "coff"} /\ pc' \in {"coff", "done"}
    BY <1>6 DEF ToCoff, CoffEnd, Enter
  <2> QED
    BY <1>3, <1>6, <2>1 DEF BoundInv, ElfStages, MachoStages, PeStages, Ends
<1> QED
  BY <1>1, <1>4, <1>5, <1>6

\* The records of the COFF table: what they add is neither import nor export.
LEMMA CoffSymbolStep ==
  ASSUME BoundInv, CoffSymbol
  PROVE  BoundInv'
<1>1. pc = "coff" /\ pc' = "coff" /\ pe' = pe /\ budget' = budget /\ Bounded
  BY DEF CoffSymbol, BoundInv, PeStages
<1>2. PICK S : object.symbols \in Seq(S)
  BY <1>1 DEF Bounded
<1>3. budget \in Nat /\ budget <= budget
  BY <1>1 DEF Bounded
<1>4. \/ object' = object
      \/ \E y, address : object' = [object EXCEPT !.symbols = join(y, address)]
  BY DEF CoffSymbol
<1>5. Bounded'
  <2>1. CASE object' = object
    BY <1>1, <1>3, <2>1, SameSymbols
  <2>2. ASSUME NEW y, NEW address, object' = [object EXCEPT !.symbols = join(y, address)]
        PROVE  Bounded'
    <3>1. DOMAIN object' = DOMAIN object /\ object'.symbols = join(y, address)
      BY <1>1, <2>2 DEF Bounded, ObjectFields
    <3>2. ASSUME NEW new, object'.symbols = Append(object.symbols, new),
                 new.bind \in {"Global", "Local"}, DOMAIN new = SymbolFields
          PROVE  Bounded'
      <4>1. /\ object'.symbols \in Seq(S \cup {new})
            /\ \A i \in DOMAIN object'.symbols : DOMAIN object'.symbols[i] = SymbolFields
        BY <1>1, <1>2, <3>2, AppendGrows DEF Bounded
      <4>2. /\ Cardinality(Kind("Imported")') = Cardinality(Kind("Imported"))
            /\ Cardinality(Kind("Exported")') = Cardinality(Kind("Exported"))
        BY <1>2, <3>2, SymbolCounted
      <4> QED
        BY <1>1, <3>1, <4>1, <4>2 DEF Bounded
    <3>3. ASSUME NEW x \in Kind("Exported"),
                 object'.symbols = [object.symbols EXCEPT ![x].address = address]
          PROVE  Bounded'
      <4>1. DOMAIN object.symbols[x] = SymbolFields
        BY <1>1 DEF Bounded, Kind
      <4>2. /\ \E T : object'.symbols \in Seq(T)
            /\ \A i \in DOMAIN object'.symbols : DOMAIN object'.symbols[i] = SymbolFields
            /\ Kind("Imported")' = Kind("Imported") /\ Kind("Exported")' = Kind("Exported")
        BY <1>1, <1>2, <3>3, <4>1, AddressFilled DEF Bounded
      <4> QED
        BY <1>1, <3>1, <4>2 DEF Bounded
    <3>4. CASE object'.symbols = object.symbols
      BY <1>1, <1>3, <3>1, <3>4, SameSymbols
    <3>5. \/ \E new : Appended(y, address, new)
          \/ \E x \in Kind("Exported") : FilledIn(y, address, x)
      BY <1>2, JoinEffect
    <3>6. CASE \E new : Appended(y, address, new)
      BY <3>1, <3>2, <3>6 DEF Appended
    <3>7. CASE \E x \in Kind("Exported") : FilledIn(y, address, x)
      BY <3>1, <3>3, <3>4, <3>7 DEF FilledIn
    <3> QED
      BY <3>5, <3>6, <3>7
  <2> QED
    BY <1>4, <2>1, <2>2
<1> QED
  BY <1>1, <1>5 DEF BoundInv, ElfStages, MachoStages, PeStages, Ends

\* No step of the PE reader exceeds its limits.
LEMMA BoundStep ==
  ASSUME BoundInv, [Next]_vars
  PROVE  BoundInv'
<1>1. CASE UNCHANGED <<pc, object, peVars>>
  BY <1>1 DEF peVars, BoundInv, Bounded, Kind
<1>2. CASE load_file
  <2>1. UNCHANGED <<object, pe, budget, coff>> /\ pc = "load"
    BY <1>2 DEF load_file, peVars
  <2>2. pc' \in {"elf", "macho", "fat", "pe", "refused"}
    BY <1>2 DEF load_file, reader
  <2> QED
    BY <2>1, <2>2 DEF BoundInv, ElfStages, MachoStages, PeStages, Ends
<1>3. CASE (ElfNext \/ MachoNext) /\ UNCHANGED peVars
  <2>1. pe' = pe
    BY <1>3 DEF peVars
  <2>2. pc \in ElfStages \cup MachoStages /\ pc' \in ElfStages \cup MachoStages \cup Ends
    BY <1>3, ElfStays, MachoStays
  <2> QED
    BY <2>1, <2>2 DEF BoundInv, ElfStages, MachoStages, PeStages, Ends
<1>4. CASE PeNext
  BY <1>4, ImportThunkStep, ExportNameStep, PeTableStep, CoffSymbolStep DEF PeNext
<1> QED
  BY <1>1, <1>2, <1>3, <1>4 DEF Next, Loaded, vars, common

\* The symbols of a PE file never exceed what its tables can hold (pe.cpp:166-540).
THEOREM BoundCorrect == Spec => []BoundInv
<1>1. Init => BoundInv
  BY DEF Init, PeInit, BoundInv, ElfStages, MachoStages, PeStages, Ends
<1> QED
  BY <1>1, BoundStep, PTL DEF Spec

\* Whatever a PE file claims, all its descriptors together give no more imports than
\* the limit, and its directory no more exports.
THEOREM SymbolsBoundedAlways == Spec => []SymbolsBounded
<1>1. BoundInv => SymbolsBounded
  <2> SUFFICES ASSUME BoundInv, pe # <<>>
               PROVE  /\ Cardinality(Kind("Imported")) <= MaxParsedSymbols
                      /\ Cardinality(Kind("Exported")) <= MaxParsedSymbols
    BY DEF SymbolsBounded, Kind
  <2>1. CASE pc = "pe"
    <3>1. object.symbols = <<>>
      BY <2>1 DEF BoundInv, NoObject
    <3> QED
      BY <3>1, NoSymbols, PeConstants
  <2>2. CASE pc # "pe"
    BY <2>2 DEF BoundInv, Bounded
  <2> QED
    BY <2>1, <2>2
<1> QED
  BY <1>1, BoundCorrect, PTL

-----------------------------------------------------------------------------
(* PE: the join of the exports with the COFF table *)

\* No section of the file is loaded at address 0, which the reader takes for "no address".
NothingAtZero == \A h \in PeHeaders, s \in SectionMaps : h.base + s.va > 0

Anchored ==
  /\ \E S : object.sections \in Seq(S)
  /\ \A i \in DOMAIN object.sections : object.sections[i].address \in Nat \ {0}

\* Before the COFF table is read.
Unjoined ==
  \A i \in DOMAIN object.symbols : /\ object.symbols[i].address = 0
                                  /\ object.symbols[i].bind \in {"Imported", "Exported"}

EveryFunctionListed ==
  \A c \in ToSet(coff) : \E i \in Listed :
    object.symbols[i].name = c.name /\ object.symbols[i].address # 0

EveryAddressFromTable ==
  \A i \in Listed : object.symbols[i].address # 0 =>
    \E c \in ToSet(coff) : c.name = object.symbols[i].name /\ c.address = object.symbols[i].address

NoNameTwice ==
  \A i, j \in Listed : object.symbols[i].bind = "Exported" /\ object.symbols[j].bind # "Exported"
                       => object.symbols[i].name # object.symbols[j].name

Joined == EveryFunctionListed /\ EveryAddressFromTable /\ NoNameTwice

JoinInv ==
  /\ pc \in PeStages \ {"pe"} => Anchored
  /\ pc \in PeStages \ {"coff"} => coff = <<>>
  /\ pc \in PeStages \ {"pe", "coff"} => Unjoined
  /\ pc = "pe_sections" => \E h \in PeHeaders : pe.base = h.base
  /\ pc = "coff" => Joined /\ \E S : coff \in Seq(S)
  /\ pc = "done" /\ pe # <<>> => Joined

\* A symbol without address, imported or exported, may join the list before the table.
LEMMA UnjoinedGrows ==
  ASSUME Unjoined, NEW S, object.symbols \in Seq(S), NEW y, y.address = 0,
         y.bind \in {"Imported", "Exported"}, object'.symbols = Append(object.symbols, y)
  PROVE  Unjoined'
<1>1. \A i \in DOMAIN object'.symbols :
        \/ i \in DOMAIN object.symbols /\ object'.symbols[i] = object.symbols[i]
        \/ object'.symbols[i] = y
  BY AppendGrows
<1> QED
  BY <1>1 DEF Unjoined

\* The loops before the COFF table.
LEMMA BeforeTableStep ==
  ASSUME NothingAtZero, BoundInv, JoinInv,
         PeHeader \/ PeSection \/ PeSectionsEnd \/ ImportDescriptor \/ ImportThunk
           \/ ToExports \/ ExportName \/ ToCoff
  PROVE  JoinInv'
<1>1. CASE PeHeader
  <2>1. /\ object' = NoObject /\ coff' = <<>> /\ pc' \in {"refused", "pe_sections"} /\ pe' \in PeHeaders
    BY <1>1 DEF PeHeader, BoundInv
  <2>2. object'.symbols = <<>> /\ object'.sections = <<>> /\ <<>> \in Seq({})
    BY <2>1 DEF NoObject
  <2>3. Unjoined' /\ Anchored'
    BY <2>2 DEF Unjoined, Anchored
  <2> QED
    BY <2>1, <2>3 DEF JoinInv, PeStages
<1>2. ASSUME PeSection \/ PeSectionsEnd \/ ImportDescriptor \/ ImportThunk \/ ToExports \/ ExportName \/ ToCoff
      PROVE  /\ Anchored /\ Unjoined /\ coff = <<>> /\ coff' = coff /\ DOMAIN object = ObjectFields
             /\ \E S : object.symbols \in Seq(S)
             /\ pc \in PeStages \ {"pe", "coff"} /\ pc' \in (PeStages \ {"pe"}) \cup Ends
  BY <1>2 DEF PeSection, PeSectionsEnd, ImportDescriptor, ImportThunk, ToExports, ExportName, ToCoff,
              Enter, BoundInv, Bounded, JoinInv, PeStages, Ends
<1>3. CASE PeSection
  <2>1. PICK s \in SectionMaps : object' = [object EXCEPT !.sections =
               Append(@, [address |-> pe.base + s.va, offset |-> s.raw, size |-> s.rawsize])]
    BY <1>3 DEF PeSection
  <2>2. pc = "pe_sections" /\ pc' = pc /\ pe' = pe
    BY <1>3 DEF PeSection
  <2>3. PICK h \in PeHeaders : pe.base = h.base
    BY <2>2 DEF JoinInv
  <2>4. pe.base + s.va \in Nat \ {0}
    BY <2>3, PeConstants DEF NothingAtZero
  <2> DEFINE new == [address |-> pe.base + s.va, offset |-> s.raw, size |-> s.rawsize]
  <2>5. new.address = pe.base + s.va
    OBVIOUS
  <2>6. object'.sections = Append(object.sections, new) /\ object'.symbols = object.symbols
    BY <1>2, <1>3, <2>1 DEF ObjectFields
  <2> HIDE DEF new
  <2>7. PICK S : object.sections \in Seq(S)
    BY <1>2, <1>3 DEF Anchored
  <2>8. /\ object'.sections \in Seq(S \cup {new})
        /\ \A i \in DOMAIN object'.sections :
             \/ i \in DOMAIN object.sections /\ object'.sections[i] = object.sections[i]
             \/ object'.sections[i] = new
    BY <2>6, <2>7, AppendGrows
  <2>9. Anchored'
    BY <1>2, <1>3, <2>4, <2>5, <2>8 DEF Anchored
  <2>10. Unjoined'
    BY <1>2, <1>3, <2>6 DEF Unjoined
  <2> QED
    BY <1>2, <1>3, <2>2, <2>3, <2>9, <2>10 DEF JoinInv, PeStages
<1>4. CASE PeSectionsEnd \/ ImportDescriptor \/ ToExports \/ ToCoff
  <2>1. object'.sections = object.sections /\ object'.symbols = object.symbols
    <3>1. CASE ImportDescriptor
      BY <1>2, <3>1 DEF ImportDescriptor, ObjectFields
    <3>2. CASE ToCoff
      BY <1>2, <3>2 DEF ToCoff, ObjectFields
    <3>3. CASE PeSectionsEnd \/ ToExports
      BY <3>3 DEF PeSectionsEnd, ToExports
    <3> QED
      BY <1>4, <3>1, <3>2, <3>3
  <2>2. Anchored' /\ Unjoined'
    BY <1>2, <1>4, <2>1 DEF Anchored, Unjoined
  <2>3. pc' # "pe_sections"
    BY <1>4 DEF PeSectionsEnd, ImportDescriptor, ToExports, ToCoff, Enter
  <2>4. Joined' /\ coff' = <<>> /\ <<>> \in Seq({})
    <3>1. coff' = <<>>
      BY <1>2, <1>4
    <3> QED
      BY <2>2, <3>1
      DEF Unjoined, Joined, EveryFunctionListed, EveryAddressFromTable, NoNameTwice, Listed, ToSet
  <2> QED
    BY <1>2, <1>4, <2>2, <2>3, <2>4 DEF JoinInv, PeStages, Ends
<1>5. CASE ImportThunk \/ ExportName
  <2>1. \/ object' = object
        \/ \E y : /\ y.address = 0 /\ y.bind \in {"Imported", "Exported"}
                  /\ object' = [object EXCEPT !.symbols = Append(@, y)]
    <3>1. CASE ImportThunk
      BY <3>1 DEF ImportThunk
    <3>2. CASE ExportName
      BY <3>2 DEF ExportName
    <3> QED
      BY <1>5, <3>1, <3>2
  <2>2. object'.sections = object.sections
    BY <1>2, <1>5, <2>1 DEF ObjectFields
  <2>3. Anchored'
    BY <1>2, <1>5, <2>2 DEF Anchored
  <2>4. Unjoined'
    <3>1. CASE object' = object
      BY <1>2, <1>5, <3>1 DEF Unjoined
    <3>2. ASSUME NEW y, y.address = 0, y.bind \in {"Imported", "Exported"},
                 object' = [object EXCEPT !.symbols = Append(@, y)]
          PROVE  Unjoined'
      <4>1. object'.symbols = Append(object.symbols, y)
        BY <1>2, <1>5, <3>2 DEF ObjectFields
      <4> QED
        BY <1>2, <1>5, <3>2, <4>1, UnjoinedGrows
    <3> QED
      BY <2>1, <3>1, <3>2
  <2>5. pc' \in PeStages \ {"pe", "pe_sections", "coff"}
    BY <1>5 DEF ImportThunk, ExportName, PeStages
  <2> QED
    BY <1>2, <1>5, <2>3, <2>4, <2>5 DEF JoinInv, PeStages
<1> QED
  BY <1>1, <1>3, <1>4, <1>5

\* One more record of the table is one more member of what the properties keep of it.
LEMMA RecordKept ==
  ASSUME NEW S, coff \in Seq(S), NEW c, coff' = Append(coff, c)
  PROVE  ToSet(coff)' = ToSet(coff) \cup {c} /\ \E T : coff' \in Seq(T)
<1>1. /\ DOMAIN coff = 1..Len(coff) /\ DOMAIN coff' = 1..(Len(coff) + 1) /\ Len(coff) \in Nat
      /\ \A i \in 1..Len(coff) : coff'[i] = coff[i]
      /\ coff'[Len(coff) + 1] = c /\ coff' \in Seq(S \cup {c})
  BY AppendGrows
<1>2. PICK n : n = Len(coff) + 1
  OBVIOUS
<1>3. /\ DOMAIN coff' = DOMAIN coff \cup {n} /\ coff'[n] = c
      /\ \A i \in DOMAIN coff : coff'[i] = coff[i]
  BY <1>1, <1>2
<1> QED
  BY <1>1, <1>3 DEF ToSet

\* A function that is not exported is appended.
LEMMA AppendedJoins ==
  ASSUME Joined, NEW S, object.symbols \in Seq(S), NEW y, NEW address, address # 0,
         NEW new, Appended(y, address, new), object'.symbols = Append(object.symbols, new),
         NEW c, c.name = y.name, c.address = address, ToSet(coff)' = ToSet(coff) \cup {c}
  PROVE  Joined'
<1>1. PICK n : n = Len(object.symbols) + 1
  OBVIOUS
<1>2. /\ n \notin DOMAIN object.symbols /\ DOMAIN object'.symbols = DOMAIN object.symbols \cup {n}
      /\ object'.symbols[n] = new
      /\ \A i \in DOMAIN object.symbols : object'.symbols[i] = object.symbols[i]
  BY <1>1, AppendGrows
<1>3. /\ new.name = y.name /\ new.address = address /\ new.bind \in {"Global", "Local"}
      /\ \A i \in Kind("Exported") : object.symbols[i].name # y.name
  BY DEF Appended
<1>4. Listed' = Listed \cup {n}
  BY <1>2, <1>3 DEF Listed
<1>5. \A i \in Listed : i \in DOMAIN object.symbols /\ object'.symbols[i] = object.symbols[i]
  BY <1>2 DEF Listed
<1>6. EveryFunctionListed'
  BY <1>2, <1>3, <1>4, <1>5 DEF Joined, EveryFunctionListed
<1>7. EveryAddressFromTable'
  BY <1>2, <1>3, <1>4, <1>5 DEF Joined, EveryAddressFromTable
<1>8. NoNameTwice'
  <2> SUFFICES ASSUME NEW i \in Listed', NEW j \in Listed', object'.symbols[i].bind = "Exported",
                      object'.symbols[j].bind # "Exported"
               PROVE  object'.symbols[i].name # object'.symbols[j].name
    BY DEF NoNameTwice
  <2>1. i \in Listed /\ object'.symbols[i] = object.symbols[i] /\ i \in Kind("Exported")
    BY <1>2, <1>3, <1>4, <1>5 DEF Kind
  <2>2. CASE j = n
    BY <1>2, <1>3, <2>1, <2>2
  <2>3. CASE j \in Listed
    BY <1>5, <2>1, <2>3 DEF Joined, NoNameTwice
  <2> QED
    BY <1>4, <2>2, <2>3
<1> QED
  BY <1>6, <1>7, <1>8 DEF Joined

\* A function that is exported leaves the list as long as it was.
LEMMA FilledInJoins ==
  ASSUME Joined, NEW S, object.symbols \in Seq(S), NEW y, NEW address, address # 0,
         \A i \in DOMAIN object.symbols : DOMAIN object.symbols[i] = SymbolFields,
         NEW x \in Kind("Exported"), FilledIn(y, address, x), object'.symbols = join(y, address),
         NEW c, c.name = y.name, c.address = address, ToSet(coff)' = ToSet(coff) \cup {c}
  PROVE  Joined'
<1>1. x \in DOMAIN object.symbols /\ object.symbols[x].bind = "Exported" /\ x \in Listed
      /\ object.symbols[x].name = y.name
  BY DEF Kind, Listed, FilledIn
<1>2. /\ DOMAIN object'.symbols = DOMAIN object.symbols
      /\ \A i \in DOMAIN object.symbols :
           /\ object'.symbols[i].bind = object.symbols[i].bind
           /\ object'.symbols[i].name = object.symbols[i].name
           /\ object'.symbols[i].address = object.symbols[i].address
              \/ (i = x /\ object'.symbols[i].address = address)
      /\ object'.symbols[x].address # 0
  <2>1. CASE object.symbols[x].address # 0 /\ join(y, address) = object.symbols
    BY <1>1, <2>1
  <2>2. CASE join(y, address) = [object.symbols EXCEPT ![x].address = address]
    <3>1. object'.symbols = [object.symbols EXCEPT ![x].address = address]
      BY <2>2
    <3>2. DOMAIN object.symbols[x] = SymbolFields
      BY <1>1
    <3> QED
      BY <1>1, <3>1, <3>2, AddressFilled
  <2> QED
    BY <2>1, <2>2 DEF FilledIn
<1>3. Listed' = Listed /\ Listed \subseteq DOMAIN object.symbols
  BY <1>2 DEF Listed
<1>4. EveryFunctionListed'
  <2> SUFFICES ASSUME NEW d \in ToSet(coff)'
               PROVE  \E i \in Listed' : object'.symbols[i].name = d.name /\ object'.symbols[i].address # 0
    BY DEF EveryFunctionListed
  <2>1. CASE d = c
    BY <1>1, <1>2, <1>3, <2>1
  <2>2. CASE d \in ToSet(coff)
    <3>1. PICK i \in Listed : object.symbols[i].name = d.name /\ object.symbols[i].address # 0
      BY <2>2 DEF Joined, EveryFunctionListed
    <3> QED
      BY <1>2, <1>3, <3>1
  <2> QED
    BY <2>1, <2>2
<1>5. EveryAddressFromTable'
  <2> SUFFICES ASSUME NEW i \in Listed', object'.symbols[i].address # 0
               PROVE  \E d \in ToSet(coff)' : /\ d.name = object'.symbols[i].name
                                              /\ d.address = object'.symbols[i].address
    BY DEF EveryAddressFromTable
  <2>1. CASE object'.symbols[i].address = object.symbols[i].address
    BY <1>2, <1>3, <2>1 DEF Joined, EveryAddressFromTable
  <2>2. CASE i = x /\ object'.symbols[i].address = address
    BY <1>1, <1>2, <2>2
  <2> QED
    BY <1>2, <1>3, <2>1, <2>2
<1>6. NoNameTwice'
  BY <1>2, <1>3 DEF Joined, NoNameTwice
<1> QED
  BY <1>4, <1>5, <1>6 DEF Joined

\* A record of the table: its function is anchored to a section, so that it has an address.
LEMMA JoinRecordStep ==
  ASSUME BoundInv, JoinInv, CoffSymbol
  PROVE  JoinInv'
<1>1. /\ pc = "coff" /\ pc' = "coff" /\ Anchored /\ Joined /\ DOMAIN object = ObjectFields
      /\ \A i \in DOMAIN object.symbols : DOMAIN object.symbols[i] = SymbolFields
  BY DEF CoffSymbol, BoundInv, Bounded, JoinInv, PeStages
<1>2. PICK S : object.symbols \in Seq(S)
  BY <1>1 DEF BoundInv, Bounded, PeStages
<1>3. PICK T : coff \in Seq(T)
  BY <1>1 DEF JoinInv
<1>4. PICK address : \E y \in CoffSymbols :
        /\ address = object.sections[y.secnum].address + y.value
        /\ coff' = IF is_function(y) THEN Append(coff, [name |-> y.name, address |-> address, at |-> entry])
                   ELSE coff
        /\ object' = IF is_function(y) THEN [object EXCEPT !.symbols = join(y, address)] ELSE object
  BY DEF CoffSymbol
<1>5. PICK y \in CoffSymbols :
        /\ address = object.sections[y.secnum].address + y.value
        /\ coff' = IF is_function(y) THEN Append(coff, [name |-> y.name, address |-> address, at |-> entry])
                   ELSE coff
        /\ object' = IF is_function(y) THEN [object EXCEPT !.symbols = join(y, address)] ELSE object
  BY <1>4
<1>6. CASE ~is_function(y)
  <2>1. UNCHANGED <<coff, object>>
    BY <1>5, <1>6
  <2>2. Anchored' /\ Joined'
    BY <1>1, <2>1
    DEF Anchored, Joined, EveryFunctionListed, EveryAddressFromTable, NoNameTwice, Listed
  <2> QED
    BY <1>1, <1>3, <2>1, <2>2 DEF JoinInv, PeStages
<1>7. CASE is_function(y)
  <2> DEFINE c == [name |-> y.name, address |-> address, at |-> entry]
  <2>1. c.name = y.name /\ c.address = address /\ coff' = Append(coff, c)
    BY <1>5, <1>7
  <2> HIDE DEF c
  <2>2. /\ DOMAIN object' = ObjectFields /\ object'.sections = object.sections
        /\ object'.symbols = join(y, address)
    BY <1>1, <1>5, <1>7 DEF ObjectFields
  <2>3. address # 0
    <3>1. y.secnum \in DOMAIN object.sections
      <4>1. PICK U : object.sections \in Seq(U)
        BY <1>1 DEF Anchored
      <4>2. DOMAIN object.sections = 1..Len(object.sections)
        BY <4>1
      <4>3. y.secnum \in 1..Len(object.sections)
        BY <1>7 DEF is_function
      <4> QED
        BY <4>2, <4>3
    <3>2. object.sections[y.secnum].address \in Nat \ {0} /\ y.value \in Nat
      BY <1>1, <3>1, PeConstants DEF Anchored
    <3> QED
      BY <1>5, <3>2
  <2>4. Anchored'
    BY <1>1, <2>2 DEF Anchored
  <2>5. ToSet(coff)' = ToSet(coff) \cup {c} /\ \E U : coff' \in Seq(U)
    BY <1>3, <2>1, RecordKept
  <2>6. \/ \E new : Appended(y, address, new)
        \/ \E x \in Kind("Exported") : FilledIn(y, address, x)
    BY <1>2, JoinEffect
  <2>7. Joined'
    <3>1. ASSUME NEW new, Appended(y, address, new) PROVE Joined'
      <4>1. object'.symbols = Append(object.symbols, new)
        BY <2>2, <3>1 DEF Appended
      <4> QED
        BY <1>1, <1>2, <2>1, <2>3, <2>5, <3>1, <4>1, AppendedJoins
    <3>2. ASSUME NEW x \in Kind("Exported"), FilledIn(y, address, x) PROVE Joined'
      BY <1>1, <1>2, <2>1, <2>2, <2>3, <2>5, <3>2, FilledInJoins
    <3> QED
      BY <2>6, <3>1, <3>2
  <2> QED
    BY <1>1, <2>4, <2>5, <2>7 DEF JoinInv, PeStages
<1> QED
  BY <1>6, <1>7

\* A turn of the join keeps what has been joined.
LEMMA JoinStep ==
  ASSUME NothingAtZero, BoundInv, JoinInv, [Next]_vars
  PROVE  JoinInv'
<1>1. CASE UNCHANGED <<pc, object, peVars>>
  BY <1>1 DEF peVars, JoinInv, Anchored, Unjoined, Joined, EveryFunctionListed,
              EveryAddressFromTable, NoNameTwice, Listed
<1>2. CASE load_file
  <2>1. UNCHANGED <<object, pe, coff>> /\ pc = "load"
    BY <1>2 DEF load_file, peVars
  <2>2. pc' \in {"elf", "macho", "fat", "pe", "refused"}
    BY <1>2 DEF load_file, reader
  <2> QED
    BY <2>1, <2>2 DEF BoundInv, JoinInv, PeStages
<1>3. CASE (ElfNext \/ MachoNext) /\ UNCHANGED peVars
  <2>1. pe' = pe
    BY <1>3 DEF peVars
  <2>2. pc \in ElfStages \cup MachoStages /\ pc' \in ElfStages \cup MachoStages \cup Ends
    BY <1>3, ElfStays, MachoStays
  <2>3. pe = <<>>
    BY <2>2 DEF BoundInv
  <2> QED
    BY <2>1, <2>2, <2>3 DEF JoinInv, ElfStages, MachoStages, PeStages, Ends
<1>4. CASE CoffEnd
  BY <1>4 DEF CoffEnd, JoinInv, PeStages, peVars, Joined, EveryFunctionListed,
              EveryAddressFromTable, NoNameTwice, Listed
<1> QED
  BY <1>1, <1>2, <1>3, <1>4, BeforeTableStep, JoinRecordStep DEF Next, Loaded, PeNext, vars, common

\* Every function of the COFF table is listed with an address, no address comes from
\* elsewhere, and no name is listed once as an export and once from the table, when no
\* section is loaded at address 0.
THEOREM ExportsJoinedAlways ==
  ASSUME NothingAtZero
  PROVE  Spec => []ExportsJoined
<1>1. Init => JoinInv
  BY DEF Init, PeInit, JoinInv, PeStages
<1>2. JoinInv => ExportsJoined
  BY DEF JoinInv, ExportsJoined, Joined, EveryFunctionListed, EveryAddressFromTable, NoNameTwice
<1> QED
  BY <1>1, <1>2, BoundCorrect, JoinStep, PTL DEF Spec
-----------------------------------------------------------------------------
(* Arithmetic of tables: entries of one size, one after the other *)

\* Entry i of n lies before the end of the table.
LEMMA EntryWithin ==
  ASSUME NEW n \in Nat, NEW i \in Nat, i < n, NEW e \in Nat, NEW least \in Nat, least <= e
  PROVE  i * e \in Nat /\ n * e \in Nat /\ i * e + least <= n * e
<1>1. PICK d \in Nat : n = i + 1 + d
  <2>1. n - i - 1 \in Nat /\ n = i + 1 + (n - i - 1)
    OBVIOUS
  <2> QED
    BY <2>1
<1>2. n * e = i * e + e + d * e
  BY <1>1
<1>3. d * e \in Nat /\ i * e \in Nat
  OBVIOUS
<1> QED
  BY <1>2, <1>3

\* The entries that fit a size as a whole lie in it.
LEMMA QuotientEntry ==
  ASSUME NEW size \in Nat, NEW e \in Nat \ {0}, NEW i \in Nat, i < size \div e,
         NEW least \in Nat, least <= e
  PROVE  i * e \in Nat /\ i * e + least <= size
<1>1. PICK n \in Nat : n = size \div e
  OBVIOUS
<1>2. n * e <= size
  <2>1. e * n <= size
    BY <1>1
  <2>2. e * n = n * e
    OBVIOUS
  <2> QED
    BY <2>1, <2>2
<1>3. i * e \in Nat /\ n * e \in Nat /\ i * e + least <= n * e
  BY <1>1, EntryWithin
<1> QED
  BY <1>2, <1>3

\* The check of elf.cpp that the product of count and entry size did not wrap.
LEMMA ProductExact ==
  ASSUME NEW n \in Nat \ {0}, NEW e \in Nat, NEW W \in Nat \ {0}, ((n * e) % W) \div n = e
  PROVE  (n * e) % W = n * e
<1>1. PICK r : r = (n * e) % W
  OBVIOUS
<1>2. n * e \in Nat
  OBVIOUS
<1>3. r \in Nat /\ r <= n * e
  <2>1. PICK p \in Nat : p = n * e
    BY <1>2
  <2>2. p % W \in Nat /\ p % W <= p
    OBVIOUS
  <2> QED
    BY <1>1, <2>1, <2>2
<1>4. r \div n = e
  BY <1>1
<1>5. n * e <= r
  BY <1>3, <1>4
<1> QED
  BY <1>1, <1>2, <1>3, <1>5

\* The same, as the checks of the reader say it: the entry can be read.
LEMMA EntryReadable ==
  ASSUME NEW where \in Nat, NEW n \in Nat, NEW e \in Nat, NEW i \in Nat, i < n,
         NEW least \in Nat, least <= e,
         image \in Nat, where + n * e <= image, where + n * e < Words
  PROVE  readable(where + i * e, least)
<1>1. i * e \in Nat /\ n * e \in Nat /\ i * e + least <= n * e
  BY EntryWithin
<1>2. PICK a \in Nat : a = i * e
  BY <1>1
<1>3. PICK b \in Nat : b = n * e
  BY <1>1
<1>4. where + a + least <= where + b /\ where + a \in Nat
  BY <1>1, <1>2, <1>3
<1>5. where + a + least <= image /\ where + a + least < Words
  BY <1>3, <1>4, WidthsAssumption
<1> QED
  BY <1>2, <1>4, <1>5, Readable

LEMMA QuotientReadable ==
  ASSUME NEW where \in Nat, NEW size \in Nat, image \in Nat, range_within(where, size),
         NEW e \in Nat \ {0}, NEW i \in Nat, i < size \div e, NEW least \in Nat, least <= e
  PROVE  readable(where + i * e, least)
<1>1. where + size <= image /\ where + size < Words
  BY RangeWithin
<1>2. PICK a \in Nat : a = i * e
  OBVIOUS
<1>3. a + least <= size
  BY <1>2, QuotientEntry
<1>4. where + a \in Nat /\ where + a + least <= image /\ where + a + least < Words
  BY <1>1, <1>3, WidthsAssumption
<1> QED
  BY <1>2, <1>4, Readable

\* A checked table lies in the image.
LEMMA TableWithin ==
  ASSUME NEW where \in Nat, NEW n \in Nat \ {0}, NEW e \in Nat,
         ((n * e) % Words) \div n = e, range_within(where, (n * e) % Words)
  PROVE  n * e \in Nat /\ where + n * e <= image /\ where + n * e < Words
<1>1. Words \in Nat \ {0}
  BY WidthsAssumption
<1>2. (n * e) % Words = n * e
  BY <1>1, ProductExact
<1>3. PICK p \in Nat : p = n * e
  OBVIOUS
<1> QED
  BY <1>2, <1>3, RangeWithin

-----------------------------------------------------------------------------
(* What was accepted lies in the file *)

HeaderRead == header \in HeaderFields /\ (header.phnum > 0 => header.phentsize >= Sizes.phdr)

SectionsInside ==
  /\ sections \in Seq(RawSections) /\ Len(sections) = header.shnum
  /\ Inside(header.shoff, header.shnum * header.shentsize)
  /\ \A i \in DOMAIN sections : InImage(sections[i])

SegmentsInside ==
  /\ \E S : object.segments \in Seq(S)
  /\ \A i \in DOMAIN object.segments : Inside(object.segments[i].offset, object.segments[i].size)

LaidOut ==
  /\ HeaderRead /\ SectionsInside /\ SegmentsInside
  /\ header.phnum > 0 => Inside(header.phoff, header.phnum * header.phentsize)

\* What holds stage by stage, from the header to the libraries.
ElfInv ==
  /\ pc \in {"load"} \cup ElfStages \cup MachoStages \cup PeStages \cup Ends
  /\ pc \in ElfStages => image \in Nat
  /\ pc \in {"load"} \cup MachoStages \cup PeStages => header = [shnum |-> 0]
  /\ pc \in {"load", "elf"} => first = <<>>
  /\ pc \in {"load", "elf", "first"} => sections = <<>>
  /\ pc \in {"load", "elf", "first", "sections"} => object = NoObject
  /\ pc \in {"first", "sections"} => HeaderRead /\ (first = <<>> \/ \E s \in RawSections : first = <<s>>)
  /\ pc = "sections" => /\ section_table_fits /\ sections \in Seq(RawSections)
                        /\ Len(sections) <= header.shnum
  /\ pc = "segments" => /\ HeaderRead /\ SectionsInside /\ SegmentsInside
                        /\ DOMAIN object = ObjectFields /\ Len(object.segments) <= header.phnum
                        /\ Len(object.segments) > 0 => segment_table_fits
  /\ pc \in {"symbols", "relocations", "dynamic"} =>
       LaidOut /\ DOMAIN object = ObjectFields /\ at \in (Nat \ {0}) \X Nat
  /\ pc = "dynamic" => dynamic_usable /\ at[2] <= dynamic.size \div Sizes.dyn
  /\ pc = "done" /\ HeaderWasRead => LaidOut

\* The numbers a section header is read into.
LEMMA SectionNumbers ==
  ASSUME NEW s \in RawSections
  PROVE  s.offset \in Nat /\ s.size \in Nat /\ s.link \in Nat /\ s.info \in Nat /\ s.entsize \in Nat
BY ElfConstants

LEMMA SizesPositive ==
  /\ Sizes.ehdr \in Nat \ {0} /\ Sizes.shdr \in Nat \ {0} /\ Sizes.phdr \in Nat \ {0}
  /\ Sizes.sym \in Nat \ {0} /\ Sizes.rel \in Nat \ {0} /\ Sizes.rela \in Nat \ {0}
  /\ Sizes.dyn \in Nat \ {0}
BY ElfConstants

\* A range that was checked, in the words of the properties.
LEMMA InsideChecked ==
  ASSUME NEW a \in Nat, NEW n \in Nat, range_within(a, n)
  PROVE  Inside(a, n)
BY RangeWithin DEF Inside

\* The header, with the numbers that stand in the first section header instead.
LEMMA HeaderStep ==
  ASSUME ElfInv, parse_header \/ ExtendedNumbering
  PROVE  ElfInv'
<1>1. CASE parse_header
  <2>1. /\ pc = "elf" /\ pc' \in {"refused", "segments", "first"} /\ header' \in Headers
        /\ UNCHANGED <<image, object, first, sections, at>>
        /\ pc' # "refused" => (header'.phnum > 0 => ~(header'.phentsize < Sizes.phdr))
        /\ pc' = "segments" => header'.shnum = 0 /\ header'.shoff = 0
    BY <1>1 DEF parse_header
  <2>2. /\ image \in Nat /\ object = NoObject /\ sections = <<>> /\ first = <<>>
    BY <2>1 DEF ElfInv, ElfStages
  <2>3. header' \in HeaderFields
    BY <2>1, ElfConstants
  <2>4. header'.phentsize \in Nat /\ header'.phnum \in Nat
    BY <2>3 DEF HeaderFields
  <2>5. pc' # "refused" => HeaderRead'
    BY <2>1, <2>3, <2>4, SizesPositive DEF HeaderRead
  <2>6. /\ object'.segments = <<>> /\ DOMAIN object' = ObjectFields /\ Len(<<>>) = 0
        /\ <<>> \in Seq({}) /\ DOMAIN <<>> = {} /\ <<>> \in Seq(RawSections)
    BY <2>1, <2>2 DEF NoObject, ObjectFields
  <2>7. SegmentsInside'
    BY <2>6 DEF SegmentsInside
  <2>8. ASSUME pc' = "segments" PROVE SectionsInside'
    <3>1. header'.shentsize \in Nat /\ header'.shnum = 0 /\ header'.shoff = 0
      BY <2>1, <2>3, <2>8 DEF HeaderFields
    <3>2. 0 + 0 * header'.shentsize <= image
      BY <2>2, <3>1
    <3> QED
      BY <2>1, <2>2, <2>6, <3>1, <3>2 DEF SectionsInside, Inside
  <2>9. Len(object'.segments) = 0 /\ 0 <= header'.phnum
    BY <2>4, <2>6
  <2> QED
    BY <2>1, <2>2, <2>5, <2>6, <2>7, <2>8, <2>9 DEF ElfInv, ElfStages, MachoStages, PeStages, Ends
<1>2. CASE ExtendedNumbering
  <2>1. PICK s \in RawSections :
          /\ first' = <<s>>
          /\ header' = [header EXCEPT !.shnum = IF @ = 0 THEN s.size ELSE @,
                                      !.shstrndx = IF @ = XIndex THEN s.link ELSE @,
                                      !.phnum = IF @ = XIndex THEN s.info ELSE @]
    BY <1>2 DEF ExtendedNumbering
  <2>2. /\ pc = "first" /\ UNCHANGED <<pc, image, object, sections, at>>
        /\ HeaderRead /\ image \in Nat /\ object = NoObject /\ sections = <<>>
    BY <1>2 DEF ExtendedNumbering, ElfInv, common, ElfStages
  <2>3. header \in HeaderFields /\ XIndex > 0
    BY <2>2, WidthsAssumption DEF HeaderRead, XIndex
  <2>4. /\ header' \in HeaderFields /\ header'.phentsize = header.phentsize
        /\ header'.phnum > 0 => header.phnum > 0
    BY <2>1, <2>3, SectionNumbers DEF HeaderFields
  <2>5. HeaderRead'
    BY <2>2, <2>4 DEF HeaderRead
  <2> QED
    BY <2>1, <2>2, <2>5 DEF ElfInv, ElfStages, MachoStages, PeStages, Ends
<1> QED
  BY <1>1, <1>2

\* The table of section headers.
LEMMA SectionsStep ==
  ASSUME ElfInv, SectionTable \/ parse_section_header \/ NameSections
  PROVE  ElfInv'
<1>1. CASE SectionTable
  <2>1. /\ pc = "first" /\ pc' = "sections" /\ section_table_fits
        /\ UNCHANGED <<image, object, header, first, sections, tables, at>>
    BY <1>1 DEF SectionTable, elfVars
  <2>2. /\ HeaderRead /\ image \in Nat /\ object = NoObject /\ sections = <<>>
        /\ first = <<>> \/ \E s \in RawSections : first = <<s>>
    BY <2>1 DEF ElfInv, ElfStages
  <2>3. sections \in Seq(RawSections) /\ Len(sections) = 0 /\ 0 <= header.shnum
    BY <2>2 DEF HeaderRead, HeaderFields
  <2>4. section_table_fits' /\ HeaderRead'
    BY <2>1, <2>2 DEF section_table_fits, HeaderRead, range_within
  <2> QED
    BY <2>1, <2>2, <2>3, <2>4 DEF ElfInv, ElfStages, MachoStages, PeStages, Ends
<1>2. CASE parse_section_header
  <2>1. /\ pc = "sections" /\ Len(sections) < header.shnum
        /\ UNCHANGED <<pc, image, object, header, first>>
        /\ \E s \in IF sections = <<>> /\ first # <<>> THEN {first[1]} ELSE RawSections :
             sections' = Append(sections, s)
    BY <1>2 DEF parse_section_header, common
  <2>2. /\ HeaderRead /\ image \in Nat /\ object = NoObject /\ section_table_fits
        /\ sections \in Seq(RawSections)
        /\ first = <<>> \/ \E s \in RawSections : first = <<s>>
    BY <2>1 DEF ElfInv, ElfStages
  <2>3. PICK s \in RawSections : sections' = Append(sections, s)
    BY <2>1, <2>2
  <2>4. sections' \in Seq(RawSections) /\ Len(sections') = Len(sections) + 1 /\ Len(sections) \in Nat
    BY <2>2, <2>3
  <2>5. Len(sections') <= header.shnum
    BY <2>1, <2>2, <2>4 DEF HeaderRead, HeaderFields
  <2>6. section_table_fits' /\ HeaderRead'
    BY <2>1, <2>2 DEF section_table_fits, HeaderRead, range_within
  <2> QED
    BY <2>1, <2>2, <2>4, <2>5, <2>6 DEF ElfInv, ElfStages, MachoStages, PeStages, Ends
<1>3. CASE NameSections
  <2>1. /\ pc = "sections" /\ Len(sections) = header.shnum /\ pc' \in {"segments", "refused"}
        /\ pc' = "segments" => sections = <<>> \/ \A i \in DOMAIN sections : InImage(sections[i])
        /\ UNCHANGED <<image, object, header, sections>>
    BY <1>3 DEF NameSections, elfVars
  <2>2. /\ HeaderRead /\ image \in Nat /\ object = NoObject /\ section_table_fits
        /\ sections \in Seq(RawSections)
    BY <2>1 DEF ElfInv, ElfStages
  <2>3. header.shnum \in Nat /\ header.shoff \in Nat /\ header.shentsize \in Nat /\ header.phnum \in Nat
    BY <2>2 DEF HeaderRead, HeaderFields
  <2>4. Inside(header.shoff, header.shnum * header.shentsize)
    <3>1. CASE header.shnum > 0
      BY <2>2, <2>3, <3>1, TableWithin DEF section_table_fits, Inside
    <3>2. CASE header.shnum = 0
      <4>1. header.shnum * header.shentsize = 0 /\ 0 % Words = 0
        BY <2>3, <3>2, WidthsAssumption
      <4>2. range_within(header.shoff, 0)
        BY <2>2, <4>1 DEF section_table_fits
      <4> QED
        BY <2>2, <2>3, <4>1, <4>2, InsideChecked
    <3> QED
      BY <2>3, <3>1, <3>2
  <2>5. ASSUME pc' = "segments" PROVE SectionsInside'
    BY <2>1, <2>2, <2>4, <2>5 DEF SectionsInside, Inside, InImage, range_within
  <2>6. /\ object'.segments = <<>> /\ DOMAIN object' = ObjectFields /\ Len(<<>>) = 0
        /\ <<>> \in Seq({}) /\ DOMAIN <<>> = {}
    BY <2>1, <2>2 DEF NoObject, ObjectFields
  <2>7. SegmentsInside' /\ Len(object'.segments) = 0 /\ 0 <= header'.phnum
    BY <2>1, <2>3, <2>6 DEF SegmentsInside
  <2>8. HeaderRead'
    BY <2>1, <2>2 DEF HeaderRead
  <2> QED
    BY <2>1, <2>2, <2>5, <2>6, <2>7, <2>8 DEF ElfInv, ElfStages, MachoStages, PeStages, Ends
<1> QED
  BY <1>1, <1>2, <1>3

\* The table of segments, to where the sections are published.
LEMMA SegmentsStep ==
  ASSUME ElfInv, parse_segment \/ PublishSections
  PROVE  ElfInv'
<1>1. /\ pc = "segments" /\ HeaderRead /\ SectionsInside /\ SegmentsInside /\ image \in Nat
      /\ DOMAIN object = ObjectFields /\ Len(object.segments) <= header.phnum
      /\ Len(object.segments) > 0 => segment_table_fits
      /\ UNCHANGED <<image, header, sections>>
  BY DEF parse_segment, PublishSections, ElfInv, ElfStages, elfVars
<1>2. header.phnum \in Nat /\ header.phoff \in Nat /\ header.phentsize \in Nat /\ header.shnum \in Nat
  BY <1>1 DEF HeaderRead, HeaderFields
<1>3. HeaderRead' /\ SectionsInside'
  BY <1>1 DEF HeaderRead, SectionsInside, Inside, InImage, range_within
<1>4. PICK S : object.segments \in Seq(S)
  BY <1>1 DEF SegmentsInside
<1>5. CASE parse_segment
  <2>1. /\ Len(object.segments) < header.phnum /\ segment_table_fits
        /\ \/ pc' = "refused"
           \/ pc' = pc /\ \E g \in Segments : /\ range_within(g.offset, g.size)
                                             /\ object' = [object EXCEPT !.segments = Append(@, g)]
    BY <1>5 DEF parse_segment
  <2>2. CASE pc' = "refused"
    BY <2>2 DEF ElfInv, ElfStages, MachoStages, PeStages, Ends
  <2>3. ASSUME pc' = pc, NEW g \in Segments, range_within(g.offset, g.size),
               object' = [object EXCEPT !.segments = Append(@, g)]
        PROVE  ElfInv'
    <3>1. object'.segments = Append(object.segments, g) /\ DOMAIN object' = ObjectFields
      BY <1>1, <2>3 DEF ObjectFields
    <3>2. g.offset \in Nat /\ g.size \in Nat
      BY ElfConstants
    <3>3. Inside(g.offset, g.size)
      BY <2>3, <3>2, InsideChecked
    <3>4. /\ object'.segments \in Seq(S \cup {g}) /\ Len(object'.segments) = Len(object.segments) + 1
          /\ Len(object.segments) \in Nat
          /\ \A i \in DOMAIN object'.segments :
               \/ i \in DOMAIN object.segments /\ object'.segments[i] = object.segments[i]
               \/ object'.segments[i] = g
      BY <1>4, <3>1, AppendGrows
    <3>5. SegmentsInside'
      BY <1>1, <3>3, <3>4 DEF SegmentsInside, Inside
    <3>6. Len(object'.segments) <= header'.phnum
      BY <1>1, <1>2, <2>1, <3>4
    <3>7. segment_table_fits'
      BY <1>1, <2>1 DEF segment_table_fits, range_within
    <3> QED
      BY <1>1, <1>3, <2>3, <3>1, <3>5, <3>6, <3>7 DEF ElfInv, ElfStages, MachoStages, PeStages, Ends
  <2> QED
    BY <2>1, <2>2, <2>3
<1>6. CASE PublishSections
  <2>1. /\ Len(object.segments) = header.phnum /\ at' = <<1, 0>> /\ pc' = "symbols"
        /\ object' = [object EXCEPT !.sections = sections,
                                    !.stripped = \A i \in DOMAIN sections : sections[i].type # "SYMTAB"]
    BY <1>6 DEF PublishSections
  <2>2. object'.segments = object.segments /\ DOMAIN object' = ObjectFields
    BY <1>1, <2>1 DEF ObjectFields
  <2>3. SegmentsInside'
    BY <1>1, <2>2 DEF SegmentsInside, Inside
  <2>4. ASSUME header.phnum > 0
        PROVE  Inside(header.phoff, header.phnum * header.phentsize)
    BY <1>1, <1>2, <2>1, <2>4, TableWithin DEF segment_table_fits, Inside
  <2>5. LaidOut'
    BY <1>1, <1>3, <2>3, <2>4 DEF LaidOut, Inside
  <2>6. at' \in (Nat \ {0}) \X Nat
    BY <2>1
  <2> QED
    BY <1>1, <2>1, <2>2, <2>5, <2>6 DEF ElfInv, ElfStages, MachoStages, PeStages, Ends
<1> QED
  BY <1>5, <1>6

\* The loops after it leave the layout as it was.
LEMMA LayoutKept ==
  ASSUME LaidOut, DOMAIN object = ObjectFields, UNCHANGED <<image, header, sections>>,
         DOMAIN object' = ObjectFields, object'.segments = object.segments
  PROVE  LaidOut'
<1>1. HeaderRead' /\ SectionsInside' /\ SegmentsInside'
  BY DEF LaidOut, HeaderRead, SectionsInside, SegmentsInside, Inside, InImage, range_within
<1> QED
  BY <1>1 DEF LaidOut, Inside

\* The first section of a name is one of them.
LEMMA SectionNamed ==
  ASSUME sections \in Seq(RawSections), NEW n, section_named(n) # 0
  PROVE  section_named(n) \in DOMAIN sections
<1> DEFINE I == {i \in 1..Len(sections) : sections[i].name = n}
           x == section_named(n)
<1>1. Len(sections) \in Nat /\ DOMAIN sections = 1..Len(sections)
  OBVIOUS
<1>2. x = IF I # {} THEN Min(I) ELSE 0
  BY DEF section_named, SelectInSeq
<1>3. I \subseteq Nat /\ I \subseteq DOMAIN sections /\ x # 0
  BY <1>1
<1> HIDE DEF x, I
<1>4. x \in I
  BY <1>2, <1>3, FirstOrNone
<1> QED
  BY <1>3, <1>4 DEF x

LEMMA DynamicSections ==
  ASSUME sections \in Seq(RawSections), dynamic_usable
  PROVE  dynamic \in RawSections /\ dynstr \in RawSections
<1>1. section_named(".dynamic") \in DOMAIN sections /\ section_named(".dynstr") \in DOMAIN sections
  BY SectionNamed DEF dynamic_usable
<1> QED
  BY <1>1 DEF dynamic, dynstr

LEMMA DynamicKept ==
  ASSUME UNCHANGED <<image, sections>>
  PROVE  dynamic' = dynamic /\ dynstr' = dynstr /\ dynamic_usable' = dynamic_usable
<1>1. \A n : section_named(n)' = section_named(n)
  BY DEF section_named, SelectInSeq
<1>2. dynamic' = dynamic /\ dynstr' = dynstr
  BY <1>1 DEF dynamic, dynstr
<1> QED
  BY <1>1, <1>2 DEF dynamic_usable, range_within

\* The loops over symbols, relocations and .dynamic.
LEMMA EntriesStep ==
  ASSUME ElfInv,
         parse_symbol \/ SymbolTableDone \/ SymbolsDone \/ parse_relocation
           \/ RelocationTableDone \/ RelocationsDone \/ populate_dynamic
  PROVE  ElfInv'
<1>1. /\ pc \in {"symbols", "relocations", "dynamic"}
      /\ pc' \in {"symbols", "relocations", "dynamic", "done", "refused"}
      /\ UNCHANGED <<image, header, first, sections>>
  BY DEF parse_symbol, SymbolTableDone, SymbolsDone, parse_relocation, RelocationTableDone,
         RelocationsDone, populate_dynamic
<1>2. LaidOut /\ DOMAIN object = ObjectFields /\ at \in (Nat \ {0}) \X Nat /\ image \in Nat
  BY <1>1 DEF ElfInv, ElfStages
<1>3. DOMAIN object' = ObjectFields /\ object'.segments = object.segments
  <2>1. CASE parse_symbol
    BY <1>2, <2>1 DEF parse_symbol, ObjectFields
  <2>2. CASE parse_relocation
    BY <1>2, <2>2 DEF parse_relocation, ObjectFields
  <2>3. CASE populate_dynamic
    BY <1>2, <2>3 DEF populate_dynamic, ObjectFields
  <2>4. CASE SymbolTableDone \/ SymbolsDone \/ RelocationTableDone \/ RelocationsDone
    BY <1>2, <2>4 DEF SymbolTableDone, SymbolsDone, RelocationTableDone, RelocationsDone
  <2> QED
    BY <2>1, <2>2, <2>3, <2>4
<1>4. LaidOut'
  BY <1>1, <1>2, <1>3, LayoutKept
<1>5. /\ at' \in (Nat \ {0}) \X Nat
      /\ pc' = "dynamic" => dynamic_usable' /\ at'[2] <= dynamic'.size \div Sizes.dyn
  <2>1. CASE parse_symbol \/ SymbolTableDone \/ SymbolsDone \/ parse_relocation \/ RelocationTableDone
    <3>1. pc' # "dynamic"
      BY <2>1 DEF parse_symbol, SymbolTableDone, SymbolsDone, parse_relocation, RelocationTableDone
    <3>2. at' \in {at, <<at[1], at[2] + 1>>, <<at[1] + 1, 0>>, <<1, 0>>}
      BY <2>1 DEF parse_symbol, SymbolTableDone, SymbolsDone, parse_relocation, RelocationTableDone,
                  NextSection
    <3> QED
      BY <1>2, <3>1, <3>2
  <2>2. CASE RelocationsDone
    <3>1. at' = <<1, 0>> /\ (pc' = "dynamic" => dynamic_usable)
      BY <2>2 DEF RelocationsDone
    <3>2. ASSUME pc' = "dynamic"
          PROVE  dynamic_usable' /\ at'[2] <= dynamic'.size \div Sizes.dyn
      <4>1. dynamic \in RawSections
        BY <1>2, <3>1, <3>2, DynamicSections DEF LaidOut, SectionsInside
      <4>2. dynamic.size \in Nat /\ Sizes.dyn \in Nat \ {0}
        BY <4>1, SectionNumbers, SizesPositive
      <4>3. dynamic.size \div Sizes.dyn \in Nat
        BY <4>2
      <4>4. dynamic' = dynamic /\ dynamic_usable'
        BY <1>1, <3>1, <3>2, DynamicKept
      <4> QED
        BY <3>1, <4>3, <4>4
    <3> QED
      BY <3>1, <3>2
  <2>3. CASE populate_dynamic
    <3>1. pc = "dynamic" /\ dynamic_usable /\ at[2] <= dynamic.size \div Sizes.dyn
      BY <2>3 DEF populate_dynamic, ElfInv
    <3>2. dynamic.size \div Sizes.dyn \in Nat
      <4>1. dynamic.size \in Nat /\ Sizes.dyn \in Nat \ {0}
        BY <1>2, <3>1, DynamicSections, SectionNumbers, SizesPositive DEF LaidOut, SectionsInside
      <4> QED
        BY <4>1
    <3>3. \/ at' = at
          \/ at' = <<at[1], at[2] + 1>> /\ at[2] # dynamic.size \div Sizes.dyn
      BY <2>3 DEF populate_dynamic
    <3>4. dynamic' = dynamic /\ dynamic_usable'
      BY <1>1, <3>1, DynamicKept
    <3>5. at' \in (Nat \ {0}) \X Nat /\ at'[2] <= dynamic.size \div Sizes.dyn
      BY <1>2, <3>1, <3>2, <3>3
    <3> QED
      BY <3>4, <3>5
  <2> QED
    BY <2>1, <2>2, <2>3
<1> QED
  BY <1>1, <1>2, <1>3, <1>4, <1>5 DEF ElfInv, ElfStages, MachoStages, PeStages, Ends

LEMMA ElfStep ==
  ASSUME ElfInv, [Next]_vars
  PROVE  ElfInv'
<1>1. CASE UNCHANGED <<common, elfVars>>
  <2>1. UNCHANGED <<pc, image, object, header, first, sections, at>>
    BY <1>1 DEF common, elfVars
  <2>2. /\ dynamic' = dynamic /\ dynamic_usable' = dynamic_usable
        /\ section_table_fits' = section_table_fits /\ segment_table_fits' = segment_table_fits
    BY <2>1, DynamicKept DEF section_table_fits, segment_table_fits, range_within
  <2>3. /\ HeaderRead' = HeaderRead /\ SectionsInside' = SectionsInside
        /\ SegmentsInside' = SegmentsInside /\ LaidOut' = LaidOut
    BY <2>1 DEF HeaderRead, SectionsInside, SegmentsInside, LaidOut, Inside, InImage, range_within
  <2> QED
    BY <2>1, <2>2, <2>3 DEF ElfInv, HeaderWasRead
<1>2. CASE load_file
  <2>1. /\ pc = "load" /\ UNCHANGED <<object, header, first, sections>>
        /\ pc' \in {"elf", "macho", "fat", "pe", "refused"}
    BY <1>2 DEF load_file, reader, elfVars
  <2>2. pc' = "elf" => image' \in Nat
    BY <1>2, ImageSizes DEF load_file
  <2> QED
    BY <2>1, <2>2 DEF ElfInv, ElfStages, MachoStages, PeStages, Ends
<1>3. CASE (MachoNext \/ PeNext) /\ UNCHANGED elfVars
  <2>1. UNCHANGED <<header, first, sections>>
    BY <1>3 DEF elfVars
  <2>2. /\ pc \in MachoStages \cup PeStages
        /\ pc' \in MachoStages \cup PeStages \cup Ends
    BY <1>3, MachoStays, PeStays
  <2>3. header = [shnum |-> 0] /\ ~HeaderWasRead /\ ~HeaderWasRead'
    BY <2>1, <2>2 DEF ElfInv, HeaderWasRead
  <2> QED
    BY <2>1, <2>2, <2>3 DEF ElfInv, ElfStages, MachoStages, PeStages, Ends
<1>4. CASE SectionTableRefused \/ SectionHeaderRefused \/ SegmentTableRefused
  <2>1. pc' = "refused"
    BY <1>4 DEF SectionTableRefused, SectionHeaderRefused, SegmentTableRefused, ElfRefuse, Refuse
  <2> QED
    BY <2>1 DEF ElfInv, ElfStages, MachoStages, PeStages, Ends
<1> QED
  BY <1>1, <1>2, <1>3, <1>4, HeaderStep, SectionsStep, SegmentsStep, EntriesStep
  DEF Next, ElfNext, Loaded, vars

THEOREM ElfCorrect == Spec => []ElfInv
<1>1. Init => ElfInv
  BY DEF Init, ElfInit, ElfInv, ElfStages
<1> QED
  BY <1>1, ElfStep, PTL DEF Spec

\* What was accepted of an ELF file lies in it, with sums that did not wrap: the tables of
\* headers, every section with content and every segment.
THEOREM ElfInsideAlways == Spec => []ElfInside
<1>1. ElfInv => ElfInside
  <2> SUFFICES ASSUME ElfInv, HeaderWasRead, pc \in {"symbols", "relocations", "dynamic", "done"}
               PROVE  /\ Len(sections) = header.shnum
                      /\ Inside(header.shoff, header.shnum * header.shentsize)
                      /\ header.phnum > 0 => Inside(header.phoff, header.phnum * header.phentsize)
                      /\ \A i \in DOMAIN sections :
                           sections[i].type # "NOBITS" => Inside(sections[i].offset, sections[i].size)
                      /\ \A i \in DOMAIN object.segments :
                           Inside(object.segments[i].offset, object.segments[i].size)
    BY DEF ElfInside
  <2>1. LaidOut
    BY DEF ElfInv
  <2>2. ASSUME NEW i \in DOMAIN sections, sections[i].type # "NOBITS"
        PROVE  Inside(sections[i].offset, sections[i].size)
    <3>1. sections[i] \in RawSections /\ InImage(sections[i])
      BY <2>1 DEF LaidOut, SectionsInside
    <3> QED
      BY <2>2, <3>1, SectionNumbers, InsideChecked DEF InImage
  <2> QED
    BY <2>1, <2>2 DEF LaidOut, SectionsInside, SegmentsInside
<1> QED
  BY <1>1, ElfCorrect, PTL

-----------------------------------------------------------------------------
(* Reads whose result is taken unseen *)

LEMMA SegmentRead ==
  ASSUME ElfInv, parse_segment
  PROVE  readable(header.phoff + Len(object.segments) * header.phentsize, Sizes.phdr)
<1>1. /\ HeaderRead /\ SegmentsInside /\ Len(object.segments) < header.phnum /\ segment_table_fits
      /\ image \in Nat
  BY DEF parse_segment, ElfInv, ElfStages
<1>2. /\ header.phnum \in Nat /\ header.phoff \in Nat /\ header.phentsize \in Nat
      /\ Len(object.segments) \in Nat
  BY <1>1 DEF HeaderRead, HeaderFields, SegmentsInside
<1>3. header.phnum \in Nat \ {0} /\ Sizes.phdr \in Nat /\ Sizes.phdr <= header.phentsize
  BY <1>1, <1>2, SizesPositive DEF HeaderRead
<1>4. /\ header.phoff + header.phnum * header.phentsize <= image
      /\ header.phoff + header.phnum * header.phentsize < Words
  BY <1>1, <1>2, <1>3, TableWithin DEF segment_table_fits
<1> QED
  BY <1>1, <1>2, <1>3, <1>4, EntryReadable

\* The entry size that is used is no less than the format's, which is not zero.
LEMMA EntrySize ==
  ASSUME NEW s \in RawSections, NEW least \in Nat \ {0}, table_shape_good(s, least)
  PROVE  entry_size(s, least) \in Nat \ {0} /\ least <= entry_size(s, least)
<1>1. entry_size(s, least) \in Nat /\ entry_size(s, least) >= least
  BY SectionNumbers DEF entry_size, table_shape_good
<1> QED
  BY <1>1

LEMMA TableRead ==
  ASSUME LaidOut, image \in Nat, at \in (Nat \ {0}) \X Nat, at[1] <= Len(sections),
         NEW s, s = sections[at[1]], s.type # "NOBITS", NEW least \in Nat \ {0},
         table_shape_good(s, least), at[2] < s.size \div entry_size(s, least)
  PROVE  readable(s.offset + at[2] * entry_size(s, least), least)
<1>1. sections \in Seq(RawSections) /\ at[1] \in Nat \ {0} /\ at[2] \in Nat
  BY DEF LaidOut, SectionsInside
<1>2. at[1] \in DOMAIN sections
  BY <1>1
<1>3. s \in RawSections /\ range_within(s.offset, s.size)
  BY <1>1, <1>2 DEF LaidOut, SectionsInside, InImage
<1> QED
  BY <1>1, <1>3, SectionNumbers, EntrySize, QuotientReadable

LEMMA DynamicRead ==
  ASSUME ElfInv, pc = "dynamic", at[2] # dynamic.size \div Sizes.dyn
  PROVE  /\ readable(dynamic.offset + at[2] * Sizes.dyn, Sizes.dyn)
         /\ \A e \in DynEntries : e.value < dynstr.size => readable(dynstr.offset + e.value, 1)
<1>1. /\ LaidOut /\ image \in Nat /\ at[2] \in Nat
      /\ dynamic_usable /\ at[2] <= dynamic.size \div Sizes.dyn
  BY DEF ElfInv, ElfStages
<1>2. dynamic \in RawSections /\ dynstr \in RawSections
  BY <1>1, DynamicSections DEF LaidOut, SectionsInside
<1>3. /\ dynamic.offset \in Nat /\ dynamic.size \in Nat /\ dynstr.offset \in Nat /\ dynstr.size \in Nat
      /\ range_within(dynamic.offset, dynamic.size) /\ range_within(dynstr.offset, dynstr.size)
  BY <1>1, <1>2, SectionNumbers DEF dynamic_usable
<1>4. dynamic.size \div Sizes.dyn \in Nat /\ Sizes.dyn \in Nat \ {0}
  BY <1>3, SizesPositive
<1>5. readable(dynamic.offset + at[2] * Sizes.dyn, Sizes.dyn)
  <2>1. at[2] < dynamic.size \div Sizes.dyn /\ Sizes.dyn \in Nat /\ Sizes.dyn <= Sizes.dyn
    BY <1>1, <1>4
  <2> QED
    BY <1>1, <1>3, <1>4, <2>1, QuotientReadable
<1>6. ASSUME NEW e \in DynEntries, e.value < dynstr.size
      PROVE  readable(dynstr.offset + e.value, 1)
  <2>1. dynstr.offset + dynstr.size <= image /\ dynstr.offset + dynstr.size < Words
    BY <1>3, RangeWithin
  <2>2. e.value \in Nat
    BY ElfConstants
  <2>3. /\ dynstr.offset + e.value \in Nat /\ dynstr.offset + e.value + 1 <= image
        /\ dynstr.offset + e.value + 1 < Words
    BY <1>1, <1>3, <1>6, <2>1, <2>2, WidthsAssumption
  <2> QED
    BY <2>3, Readable
<1> QED
  BY <1>5, <1>6

LEMMA WildStep ==
  ASSUME ElfInv, ~wild, [Next]_vars
  PROVE  ~wild'
<1>1. CASE parse_segment
  BY <1>1, SegmentRead DEF parse_segment
<1>2. CASE parse_symbol
  <2>1. PICK s : s = sections[at[1]]
    OBVIOUS
  <2>2. /\ pc = "symbols" /\ at[1] <= Len(sections) /\ s.type \in {"SYMTAB", "DYNSYM"}
        /\ table_shape_good(s, Sizes.sym) /\ at[2] < s.size \div entry_size(s, Sizes.sym)
        /\ wild' = (wild \/ ~readable(s.offset + at[2] * entry_size(s, Sizes.sym), Sizes.sym))
    BY <1>2, <2>1 DEF parse_symbol, symbol_table_good
  <2>3. LaidOut /\ image \in Nat /\ at \in (Nat \ {0}) \X Nat
    BY <2>2 DEF ElfInv, ElfStages
  <2>4. readable(s.offset + at[2] * entry_size(s, Sizes.sym), Sizes.sym)
    BY <2>1, <2>2, <2>3, TableRead, SizesPositive
  <2> QED
    BY <2>2, <2>4
<1>3. CASE parse_relocation
  <2>1. PICK s : s = sections[at[1]]
    OBVIOUS
  <2>2. /\ pc = "relocations" /\ at[1] <= Len(sections) /\ s.type \in {"REL", "RELA"}
        /\ table_shape_good(s, rel_size(s)) /\ at[2] < s.size \div entry_size(s, rel_size(s))
        /\ wild' = (wild \/ ~readable(s.offset + at[2] * entry_size(s, rel_size(s)), rel_size(s)))
    BY <1>3, <2>1 DEF parse_relocation, relocation_table_good, IsRelocation
  <2>3. LaidOut /\ image \in Nat /\ at \in (Nat \ {0}) \X Nat
    BY <2>2 DEF ElfInv, ElfStages
  <2>4. rel_size(s) \in Nat \ {0}
    BY SizesPositive DEF rel_size
  <2>5. readable(s.offset + at[2] * entry_size(s, rel_size(s)), rel_size(s))
    BY <2>1, <2>2, <2>3, <2>4, TableRead
  <2> QED
    BY <2>2, <2>5
<1>4. CASE populate_dynamic
  <2>1. CASE at[2] = dynamic.size \div Sizes.dyn
    BY <1>4, <2>1 DEF populate_dynamic
  <2>2. CASE at[2] # dynamic.size \div Sizes.dyn
    <3>1. PICK e \in DynEntries :
            wild' = (wild \/ ~readable(dynamic.offset + at[2] * Sizes.dyn, Sizes.dyn)
                          \/ ((e.tag = "NEEDED" /\ e.value < dynstr.size)
                              /\ ~readable(dynstr.offset + e.value, 1)))
      BY <1>4, <2>2 DEF populate_dynamic
    <3>2. pc = "dynamic"
      BY <1>4 DEF populate_dynamic
    <3> QED
      BY <2>2, <3>1, <3>2, DynamicRead
  <2> QED
    BY <2>1, <2>2
<1>5. CASE wild' = wild
  BY <1>5
<1>6. \/ parse_segment \/ parse_symbol \/ parse_relocation \/ populate_dynamic
      \/ wild' = wild
  <2>1. CASE ElfNext
    BY <2>1
    DEF ElfNext, parse_header, ExtendedNumbering, SectionTable, SectionTableRefused,
        parse_section_header, SectionHeaderRefused, NameSections, SegmentTableRefused,
        PublishSections, SymbolTableDone, SymbolsDone, RelocationTableDone, RelocationsDone,
        ElfRefuse, Refuse, common
  <2>2. CASE MachoNext
    BY <2>2 DEF MachoNext, FatHeader, FatArch, FatArchsEnd, TakeSlice, ThinHeader, LoadCommand,
                CommandsEnd, parse_nlist, NlistsEnd
  <2>3. CASE PeNext
    BY <2>3 DEF PeNext, PeHeader, PeSection, PeSectionsEnd, ImportDescriptor, ImportThunk, ToExports,
                ExportName, ToCoff, CoffSymbol, CoffEnd
  <2>4. CASE load_file \/ Loaded \/ UNCHANGED vars
    BY <2>4 DEF load_file, Loaded, vars, common
  <2> QED
    BY <2>1, <2>2, <2>3, <2>4 DEF Next
<1> QED
  BY <1>1, <1>2, <1>3, <1>4, <1>5, <1>6

\* The fields that the loops over segments, symbols, relocations and .dynamic take without
\* looking are in the file: no value() of an error, so that no file is refused by an exception.
THEOREM ReadsSucceedAlways == Spec => []ReadsSucceed
<1>1. Init => ~wild
  BY DEF Init
<1>2. ElfInv /\ ~wild /\ [Next]_vars => ~wild'
  BY WildStep
<1> QED
  BY <1>1, <1>2, ElfCorrect, PTL DEF Spec, ReadsSucceed

-----------------------------------------------------------------------------
(* The symbols of each table, and where they lie in the one list *)

Placed ==
  \A m \in DOMAIN tables : \A j \in DOMAIN tables[m] :
    /\ SymbolsBefore(m) \in Nat /\ SymbolsBefore(m) + j \in DOMAIN object.symbols
    /\ object.symbols[SymbolsBefore(m) + j] = tables[m][j]

ListsGood ==
  /\ DOMAIN tables = DOMAIN sections /\ Placed
  /\ \A m \in DOMAIN tables : \E S : tables[m] \in Seq(S)

\* The list ends with what was read of the table that is being read.
TablesGrow ==
  /\ \E S : object.symbols \in Seq(S)
  /\ \A m \in DOMAIN tables : m > at[1] => tables[m] = <<>>
  /\ at[1] <= Len(sections) =>
       /\ IsFiniteSet(SlotsBefore(at[1]))
       /\ SymbolsBefore(at[1]) + Len(tables[at[1]]) = Len(object.symbols)

NamedByTable(r) ==
  /\ r.section \in DOMAIN sections /\ sections[r.section].link + 1 \in DOMAIN tables
  /\ r.index \in Nat
  /\ r.index = 0 \/ r.index < Len(tables[sections[r.section].link + 1])
  /\ r.name = relocation_name(sections[r.section], r.index)

NameInv ==
  /\ DOMAIN object = ObjectFields
  /\ \E S : object.relocations \in Seq(S)
  /\ pc \notin {"relocations", "dynamic"} \cup Ends => object.relocations = <<>>
  /\ pc = "segments" => object.symbols = <<>>
  /\ pc = "symbols" => ListsGood /\ TablesGrow
  /\ pc \in {"relocations", "dynamic"} => ListsGood
  /\ object.relocations # <<>> =>
       ListsGood /\ \A i \in DOMAIN object.relocations : NamedByTable(object.relocations[i])

\* Tables that are left alone keep what lies before them.
LEMMA SlotsKept ==
  ASSUME NEW n, \A m \in 1..n - 1 : tables'[m] = tables[m]
  PROVE  SlotsBefore(n)' = SlotsBefore(n) /\ SymbolsBefore(n)' = SymbolsBefore(n)
<1>1. {{m} \X DOMAIN tables[m] : m \in 1..n - 1}' = {{m} \X DOMAIN tables[m] : m \in 1..n - 1}
  OBVIOUS
<1>2. SlotsBefore(n)' = SlotsBefore(n)
  BY <1>1 DEF SlotsBefore
<1> QED
  BY <1>2 DEF SymbolsBefore

\* One table further there are the symbols of one more.
LEMMA SlotsGrow ==
  ASSUME NEW n \in Nat \ {0}, IsFiniteSet(SlotsBefore(n)), NEW S, tables[n] \in Seq(S)
  PROVE  /\ IsFiniteSet(SlotsBefore(n + 1)) /\ SymbolsBefore(n) \in Nat
         /\ SymbolsBefore(n + 1) = SymbolsBefore(n) + Len(tables[n])
<1> DEFINE New == {n} \X DOMAIN tables[n]
<1>1. DOMAIN tables[n] = 1..Len(tables[n]) /\ Len(tables[n]) \in Nat
  OBVIOUS
<1>2. IsFiniteSet(DOMAIN tables[n]) /\ Cardinality(DOMAIN tables[n]) = Len(tables[n])
  <2>1. PICK l \in Nat : l = Len(tables[n])
    BY <1>1
  <2>2. IsFiniteSet(1..l) /\ Cardinality(1..l) = IF 1 > l THEN 0 ELSE l - 1 + 1
    BY FS_Interval
  <2>3. Cardinality(1..l) = l
    BY <2>2
  <2> QED
    BY <1>1, <2>1, <2>2, <2>3
<1>3. IsFiniteSet({n}) /\ Cardinality({n}) = 1
  BY FS_Singleton
<1>4. IsFiniteSet(New) /\ Cardinality(New) = Len(tables[n])
  <2>1. /\ IsFiniteSet(New)
        /\ Cardinality(New) = Cardinality({n}) * Cardinality(DOMAIN tables[n])
    BY <1>2, <1>3, FS_Product
  <2>2. Cardinality(New) = 1 * Len(tables[n])
    BY <1>2, <1>3, <2>1
  <2> HIDE DEF New
  <2> QED
    BY <1>1, <2>1, <2>2
<1>5. SlotsBefore(n + 1) = SlotsBefore(n) \cup New
  <2>1. 1..(n + 1) - 1 = (1..n - 1) \cup {n}
    OBVIOUS
  <2> QED
    BY <2>1 DEF SlotsBefore
<1>6. SlotsBefore(n) \cap New = {}
  BY DEF SlotsBefore
<1> HIDE DEF New
<1>7. Cardinality(SlotsBefore(n)) \in Nat
  BY FS_CardinalityType
<1>8. /\ IsFiniteSet(SlotsBefore(n) \cup New)
      /\ Cardinality(SlotsBefore(n) \cup New) =
           Cardinality(SlotsBefore(n)) + Cardinality(New) - Cardinality(SlotsBefore(n) \cap New)
  BY <1>4, FS_Union
<1>9. Cardinality({}) = 0
  BY FS_EmptySet
<1>10. Cardinality(SlotsBefore(n + 1)) = Cardinality(SlotsBefore(n)) + Cardinality(New) - Cardinality({})
  BY <1>5, <1>6, <1>8
<1>11. Cardinality(SlotsBefore(n + 1)) = Cardinality(SlotsBefore(n)) + Len(tables[n])
  BY <1>1, <1>4, <1>7, <1>9, <1>10
<1> QED
  BY <1>5, <1>7, <1>8, <1>11 DEF SymbolsBefore

\* A symbol joins its table and the list.
LEMMA SymbolStep ==
  ASSUME ElfInv, NameInv, parse_symbol
  PROVE  NameInv'
<1>1. /\ pc = "symbols" /\ ListsGood /\ TablesGrow /\ object.relocations = <<>>
      /\ DOMAIN object = ObjectFields /\ at \in (Nat \ {0}) \X Nat /\ sections \in Seq(RawSections)
      /\ at[1] <= Len(sections) /\ sections' = sections
  BY DEF parse_symbol, NameInv, ElfInv, LaidOut, SectionsInside, Ends
<1>2. PICK a \in Nat \ {0} : a = at[1]
  BY <1>1
<1>3. a \in DOMAIN tables
  BY <1>1, <1>2 DEF ListsGood
<1>4. \/ pc' = "refused" /\ UNCHANGED <<object, tables, at>>
      \/ /\ pc' = pc /\ at' = <<at[1], at[2] + 1>>
         /\ \E symbol : /\ tables' = [tables EXCEPT ![at[1]] = Append(@, symbol)]
                        /\ object' = [object EXCEPT !.symbols = Append(@, symbol)]
  BY DEF parse_symbol
<1>5. CASE pc' = "refused" /\ UNCHANGED <<object, tables, at>>
  BY <1>1, <1>5 DEF NameInv, Ends
<1>6. ASSUME pc' = pc, at' = <<at[1], at[2] + 1>>, NEW symbol,
             tables' = [tables EXCEPT ![a] = Append(@, symbol)],
             object' = [object EXCEPT !.symbols = Append(@, symbol)]
      PROVE  NameInv'
  <2>1. /\ object'.symbols = Append(object.symbols, symbol) /\ DOMAIN object' = ObjectFields
        /\ object'.relocations = <<>>
    BY <1>1, <1>6 DEF ObjectFields
  <2>2. PICK S : object.symbols \in Seq(S)
    BY <1>1 DEF TablesGrow
  <2>3. PICK T : tables[a] \in Seq(T)
    BY <1>1, <1>3 DEF ListsGood
  <2>4. PICK n \in Nat : n = Len(object.symbols)
    BY <2>2
  <2>5. PICK l \in Nat : l = Len(tables[a])
    BY <2>3
  <2>6. /\ object'.symbols \in Seq(S \cup {symbol}) /\ Len(object'.symbols) = n + 1
        /\ DOMAIN object'.symbols = 1..(n + 1) /\ DOMAIN object.symbols = 1..n
        /\ \A i \in 1..n : object'.symbols[i] = object.symbols[i]
        /\ object'.symbols[n + 1] = symbol
    BY <2>1, <2>2, <2>4, AppendGrows
  <2>7. /\ DOMAIN tables' = DOMAIN tables /\ tables'[a] = Append(tables[a], symbol)
        /\ \A m \in DOMAIN tables : m # a => tables'[m] = tables[m]
    BY <1>3, <1>6
  <2>8. /\ tables'[a] \in Seq(T \cup {symbol}) /\ Len(tables'[a]) = l + 1
        /\ DOMAIN tables'[a] = 1..(l + 1) /\ DOMAIN tables[a] = 1..l
        /\ \A j \in 1..l : tables'[a][j] = tables[a][j]
        /\ tables'[a][l + 1] = symbol
    BY <2>3, <2>5, <2>7, AppendGrows
  <2>9. \A m \in DOMAIN tables : m \in Nat \ {0} /\ (m > a => tables[m] = <<>>)
    BY <1>1, <1>2 DEF ListsGood, TablesGrow
  <2>10. \A m \in DOMAIN tables : m <= a => SlotsBefore(m)' = SlotsBefore(m) /\ SymbolsBefore(m)' = SymbolsBefore(m)
    <3> SUFFICES ASSUME NEW m \in DOMAIN tables, m <= a
                 PROVE  SlotsBefore(m)' = SlotsBefore(m) /\ SymbolsBefore(m)' = SymbolsBefore(m)
      OBVIOUS
    <3>1. DOMAIN tables = 1..Len(sections) /\ m \in Nat
      BY <1>1, <2>9 DEF ListsGood
    <3>2. \A i \in 1..m - 1 : i \in DOMAIN tables /\ i # a
      BY <1>1, <3>1
    <3> QED
      BY <2>7, <3>2, SlotsKept
  <2>11. IsFiniteSet(SlotsBefore(a)) /\ SymbolsBefore(a) + l = n /\ SymbolsBefore(a) \in Nat
    <3>1. IsFiniteSet(SlotsBefore(a)) /\ SymbolsBefore(a) + l = n
      BY <1>1, <1>2, <2>4, <2>5 DEF TablesGrow
    <3> QED
      BY <3>1, FS_CardinalityType DEF SymbolsBefore
  <2>12. Placed'
    <3> SUFFICES ASSUME NEW m \in DOMAIN tables, NEW j \in DOMAIN tables'[m]
                 PROVE  /\ SymbolsBefore(m)' \in Nat /\ SymbolsBefore(m)' + j \in DOMAIN object'.symbols
                        /\ object'.symbols[SymbolsBefore(m)' + j] = tables'[m][j]
      BY <2>7 DEF Placed
    <3>1. m <= a
      BY <1>2, <2>7, <2>9
    <3>2. SymbolsBefore(m)' = SymbolsBefore(m)
      BY <2>10, <3>1
    <3>3. CASE m = a /\ j = l + 1
      <4>1. SymbolsBefore(a) + (l + 1) = n + 1
        BY <2>11
      <4>2. SymbolsBefore(a) \in Nat /\ n + 1 \in DOMAIN object'.symbols
        BY <2>6, <2>11
      <4> QED
        BY <2>6, <2>8, <3>2, <3>3, <4>1, <4>2
    <3>4. CASE ~(m = a /\ j = l + 1)
      <4>1. j \in DOMAIN tables[m] /\ tables'[m][j] = tables[m][j]
        BY <2>7, <2>8, <3>4
      <4>2. /\ SymbolsBefore(m) \in Nat /\ SymbolsBefore(m) + j \in 1..n
            /\ object.symbols[SymbolsBefore(m) + j] = tables[m][j]
        BY <1>1, <2>6, <4>1 DEF ListsGood, Placed
      <4> QED
        BY <2>6, <3>2, <4>1, <4>2
    <3> QED
      BY <3>3, <3>4
  <2>13. ListsGood'
    BY <1>1, <2>7, <2>8, <2>12 DEF ListsGood
  <2>14. TablesGrow'
    <3>1. at'[1] = a
      BY <1>2, <1>6
    <3>2. IsFiniteSet(SlotsBefore(a)') /\ SymbolsBefore(a)' + Len(tables'[a]) = Len(object'.symbols)
      <4>1. a <= a /\ a \in DOMAIN tables
        BY <1>3
      <4>2. SlotsBefore(a)' = SlotsBefore(a) /\ SymbolsBefore(a)' = SymbolsBefore(a)
        BY <2>10, <4>1
      <4>3. SymbolsBefore(a)' + (l + 1) = n + 1
        BY <2>11, <4>2
      <4> QED
        BY <2>6, <2>8, <2>11, <4>2, <4>3
    <3>3. \A m \in DOMAIN tables' : m > a => tables'[m] = <<>>
      BY <1>2, <2>7, <2>9
    <3> QED
      BY <2>6, <3>1, <3>2, <3>3 DEF TablesGrow
  <2>15. <<>> \in Seq({})
    OBVIOUS
  <2> QED
    BY <1>1, <1>6, <2>1, <2>13, <2>14, <2>15 DEF NameInv
<1> QED
  BY <1>2, <1>4, <1>5, <1>6

\* From one table to the next, and from the symbols to the relocations.
LEMMA NextTableStep ==
  ASSUME ElfInv, NameInv, SymbolTableDone \/ SymbolsDone
  PROVE  NameInv'
<1>1. /\ pc = "symbols" /\ ListsGood /\ TablesGrow /\ object.relocations = <<>>
      /\ DOMAIN object = ObjectFields /\ at \in (Nat \ {0}) \X Nat /\ sections \in Seq(RawSections)
      /\ UNCHANGED <<object, sections, tables>> /\ pc' \in {"symbols", "relocations", "refused"}
  BY DEF SymbolTableDone, SymbolsDone, NameInv, ElfInv, LaidOut, SectionsInside, Ends
<1>2. PICK a \in Nat \ {0} : a = at[1]
  BY <1>1
<1>3. \A m : SlotsBefore(m)' = SlotsBefore(m) /\ SymbolsBefore(m)' = SymbolsBefore(m)
  BY <1>1 DEF SlotsBefore, SymbolsBefore
<1>4. ListsGood'
  BY <1>1, <1>3 DEF ListsGood, Placed
<1>5. CASE pc' # "symbols"
  BY <1>1, <1>4, <1>5 DEF NameInv, Ends
<1>6. CASE pc' = "symbols"
  <2>1. at[1] <= Len(sections) /\ at' = <<at[1] + 1, 0>>
    BY <1>1, <1>6 DEF SymbolTableDone, SymbolsDone, NextSection
  <2>2. at'[1] = a + 1 /\ a \in DOMAIN tables
    BY <1>1, <1>2, <2>1 DEF ListsGood
  <2>3. PICK T : tables[a] \in Seq(T)
    BY <1>1, <2>2 DEF ListsGood
  <2>4. IsFiniteSet(SlotsBefore(a)) /\ SymbolsBefore(a) + Len(tables[a]) = Len(object.symbols)
    BY <1>1, <1>2, <2>1 DEF TablesGrow
  <2>5. /\ IsFiniteSet(SlotsBefore(a + 1))
        /\ SymbolsBefore(a + 1) = Len(object.symbols) /\ SymbolsBefore(a) \in Nat
    BY <2>3, <2>4, SlotsGrow
  <2>6. \A m \in DOMAIN tables : m > a => tables[m] = <<>>
    BY <1>1, <1>2 DEF TablesGrow
  <2>7. ASSUME a + 1 <= Len(sections)
        PROVE  SymbolsBefore(a + 1) + Len(tables[a + 1]) = Len(object.symbols)
    <3>1. a + 1 \in DOMAIN tables
      BY <1>1, <2>7 DEF ListsGood
    <3>2. tables[a + 1] = <<>>
      BY <2>6, <3>1
    <3>3. Len(object.symbols) \in Nat /\ Len(<<>>) = 0
      BY <1>1 DEF TablesGrow
    <3> QED
      BY <2>5, <3>2, <3>3
  <2>8. \A m \in DOMAIN tables : m > a + 1 => tables[m] = <<>>
    <3>1. \A m \in DOMAIN tables : m \in Nat
      BY <1>1 DEF ListsGood
    <3> QED
      BY <2>6, <3>1
  <2>9. TablesGrow'
    <3>1. \E S : object'.symbols \in Seq(S)
      BY <1>1 DEF TablesGrow
    <3>2. IsFiniteSet(SlotsBefore(a + 1)') /\ SymbolsBefore(a + 1)' = SymbolsBefore(a + 1)
      BY <1>3, <2>5
    <3> QED
      BY <1>1, <2>2, <2>7, <2>8, <3>1, <3>2 DEF TablesGrow
  <2>10. <<>> \in Seq({})
    OBVIOUS
  <2> QED
    BY <1>1, <1>4, <1>6, <2>9, <2>10 DEF NameInv
<1> QED
  BY <1>5, <1>6

\* The sections are published: there are tables, all empty, and no symbols yet.
LEMMA PublishStep ==
  ASSUME ElfInv, NameInv, PublishSections
  PROVE  NameInv'
<1>1. /\ pc = "segments" /\ pc' = "symbols" /\ at' = <<1, 0>> /\ sections' = sections
      /\ tables' = [i \in DOMAIN sections |-> <<>>] /\ object.symbols = <<>> /\ object.relocations = <<>>
      /\ DOMAIN object = ObjectFields /\ sections \in Seq(RawSections)
      /\ object' = [object EXCEPT !.sections = sections,
                                  !.stripped = \A i \in DOMAIN sections : sections[i].type # "SYMTAB"]
  BY DEF PublishSections, NameInv, ElfInv, SectionsInside, Ends
<1>2. DOMAIN object' = ObjectFields /\ object'.symbols = <<>> /\ object'.relocations = <<>>
  BY <1>1 DEF ObjectFields
<1>3. <<>> \in Seq({}) /\ Len(<<>>) = 0 /\ DOMAIN <<>> = {}
  OBVIOUS
<1>4. \A m \in DOMAIN tables' : tables'[m] = <<>>
  BY <1>1
<1>5. ListsGood'
  BY <1>1, <1>3, <1>4 DEF ListsGood, Placed
<1>6. SlotsBefore(1)' = {}
  BY DEF SlotsBefore
<1>7. IsFiniteSet({}) /\ Cardinality({}) = 0
  BY FS_EmptySet
<1>8. ASSUME 1 <= Len(sections)
      PROVE  tables'[1] = <<>>
  BY <1>1, <1>8
<1>9. at'[1] = 1
  BY <1>1
<1>10. IsFiniteSet(SlotsBefore(1)') /\ SymbolsBefore(1)' = 0
  BY <1>6, <1>7 DEF SymbolsBefore
<1>11. 1 <= Len(sections) => SymbolsBefore(1)' + Len(tables'[1]) = Len(object'.symbols)
  BY <1>2, <1>3, <1>8, <1>10
<1>12. TablesGrow'
  BY <1>1, <1>2, <1>3, <1>4, <1>9, <1>10, <1>11 DEF TablesGrow
<1> QED
  BY <1>1, <1>2, <1>3, <1>5, <1>12 DEF NameInv

\* The tables and the list of symbols stay once the relocations are read.
LEMMA ListsKept ==
  ASSUME ListsGood, UNCHANGED <<sections, tables>>, object'.symbols = object.symbols
  PROVE  ListsGood'
<1>1. \A m : SlotsBefore(m)' = SlotsBefore(m) /\ SymbolsBefore(m)' = SymbolsBefore(m)
  BY DEF SlotsBefore, SymbolsBefore
<1> QED
  BY <1>1 DEF ListsGood, Placed

LEMMA RelocationStep ==
  ASSUME ElfInv, NameInv, parse_relocation
  PROVE  NameInv'
<1>1. /\ pc = "relocations" /\ ListsGood /\ DOMAIN object = ObjectFields
      /\ at \in (Nat \ {0}) \X Nat /\ sections \in Seq(RawSections) /\ at[1] <= Len(sections)
      /\ UNCHANGED <<sections, tables>>
  BY DEF parse_relocation, NameInv, ElfInv, LaidOut, SectionsInside
<1>2. PICK a \in Nat \ {0} : a = at[1]
  BY <1>1
<1>3. PICK s : s = sections[a]
  OBVIOUS
<1>4. a \in DOMAIN sections /\ s \in RawSections /\ s.link \in Nat
  BY <1>1, <1>2, <1>3, SectionNumbers
<1>5. s.link + 1 \in DOMAIN tables
  <2>1. s.link < Len(sections)
    BY <1>2, <1>3 DEF parse_relocation, relocation_table_good
  <2> QED
    BY <1>1, <1>4, <2>1 DEF ListsGood
<1>6. \/ pc' = "refused" /\ UNCHANGED <<object, at>>
      \/ /\ pc' = pc
         /\ \E x \in SymbolIndexes :
              /\ ~(x # 0 /\ x >= Len(tables[s.link + 1]))
              /\ object' = [object EXCEPT !.relocations = Append(@,
                   [section |-> a, index |-> x, name |-> relocation_name(s, x)])]
  BY <1>2, <1>3 DEF parse_relocation
<1>7. CASE pc' = "refused" /\ UNCHANGED <<object, at>>
  <2>1. ListsGood'
    BY <1>1, <1>7, ListsKept
  <2>2. \A r : NamedByTable(r)' = NamedByTable(r)
    BY <1>1 DEF NamedByTable, relocation_name
  <2> QED
    BY <1>7, <2>1, <2>2 DEF NameInv, Ends
<1>8. ASSUME pc' = pc, NEW x \in SymbolIndexes, ~(x # 0 /\ x >= Len(tables[s.link + 1])),
             object' = [object EXCEPT !.relocations = Append(@,
                   [section |-> a, index |-> x, name |-> relocation_name(s, x)])]
      PROVE  NameInv'
  <2> DEFINE r == [section |-> a, index |-> x, name |-> relocation_name(s, x)]
  <2>1. r.section = a /\ r.index = x /\ r.name = relocation_name(s, x)
    OBVIOUS
  <2>2. /\ object'.relocations = Append(object.relocations, r) /\ object'.symbols = object.symbols
        /\ DOMAIN object' = ObjectFields
    BY <1>1, <1>8 DEF ObjectFields
  <2> HIDE DEF r
  <2>3. PICK S : object.relocations \in Seq(S)
    BY DEF NameInv
  <2>4. /\ object'.relocations \in Seq(S \cup {r})
        /\ \A i \in DOMAIN object'.relocations :
             \/ i \in DOMAIN object.relocations /\ object'.relocations[i] = object.relocations[i]
             \/ object'.relocations[i] = r
    BY <2>2, <2>3, AppendGrows
  <2>5. NamedByTable(r)
    <3>1. PICK T : tables[s.link + 1] \in Seq(T)
      BY <1>1, <1>5 DEF ListsGood
    <3>2. x \in Nat /\ Len(tables[s.link + 1]) \in Nat
      <4>1. x \in Nat
        BY ElfConstants
      <4> QED
        BY <3>1, <4>1
    <3>3. x = 0 \/ x < Len(tables[s.link + 1])
      BY <1>8, <3>2
    <3> QED
      BY <1>3, <1>4, <1>5, <2>1, <3>2, <3>3 DEF NamedByTable
  <2>6. \A q : NamedByTable(q)' = NamedByTable(q)
    BY <1>1 DEF NamedByTable, relocation_name
  <2>7. ListsGood'
    BY <1>1, <2>2, ListsKept
  <2>8. \A i \in DOMAIN object.relocations : NamedByTable(object.relocations[i])
    <3>1. CASE object.relocations = <<>>
      BY <3>1
    <3>2. CASE object.relocations # <<>>
      BY <3>2 DEF NameInv
    <3> QED
      BY <3>1, <3>2
  <2>9. \A i \in DOMAIN object'.relocations : NamedByTable(object.relocations[i])'
    <3> SUFFICES ASSUME NEW i \in DOMAIN object'.relocations
                 PROVE  NamedByTable(object.relocations[i])'
      OBVIOUS
    <3>1. PICK q : q = object'.relocations[i]
      OBVIOUS
    <3>2. NamedByTable(q)'
      BY <2>4, <2>5, <2>6, <2>8, <3>1
    <3> QED
      BY <3>1, <3>2 DEF NamedByTable
  <2> QED
    BY <1>1, <1>8, <2>2, <2>4, <2>7, <2>9 DEF NameInv
<1> QED
  BY <1>6, <1>7, <1>8

\* The steps that leave the tables and both lists alone.
LEMMA NamesKept ==
  ASSUME NameInv, UNCHANGED <<object, sections, tables>>,
         pc' \in {pc} \cup {"relocations", "dynamic"} \cup Ends, pc # "symbols",
         pc' \in {"relocations", "dynamic"} => pc \in {"relocations", "dynamic"}
  PROVE  NameInv'
<1>1. \A q : NamedByTable(q)' = NamedByTable(q)
  BY DEF NamedByTable, relocation_name
<1>2. ListsGood' = ListsGood
  BY DEF ListsGood, Placed, SymbolsBefore, SlotsBefore
<1>3. (\A i \in DOMAIN object.relocations : NamedByTable(object.relocations[i]))'
        = \A i \in DOMAIN object.relocations : NamedByTable(object.relocations[i])
  BY DEF NamedByTable, relocation_name
<1> QED
  BY <1>2, <1>3 DEF NameInv, Ends

\* No reader but this one makes relocations.
LEMMA OtherReaders ==
  ASSUME NameInv, MachoNext \/ PeNext
  PROVE  NameInv'
<1>1. /\ pc \in MachoStages \cup PeStages /\ pc' \in MachoStages \cup PeStages \cup Ends
      /\ DOMAIN object = ObjectFields /\ object.relocations = <<>>
  BY MachoStays, PeStays DEF NameInv, MachoStages, PeStages, Ends
<1>2. DOMAIN object' = ObjectFields /\ object'.relocations = <<>>
  <2>1. \/ object' = object \/ object' = NoObject
        \/ \E v : object' = [object EXCEPT !.libraries = v]
        \/ \E v : object' = [object EXCEPT !.symbols = v]
        \/ \E v : object' = [object EXCEPT !.sections = v]
        \/ \E v : object' = [object EXCEPT !.stripped = v]
        \/ \E v, w : object' = [object EXCEPT !.segments = v, !.sections = w]
    <3>1. CASE MachoNext
      BY <3>1 DEF MachoNext, FatHeader, FatArch, FatArchsEnd, TakeSlice, ThinHeader, LoadCommand,
                  CommandsEnd, parse_nlist, NlistsEnd, apply_command
    <3>2. CASE PeNext
      BY <3>2 DEF PeNext, PeHeader, PeSection, PeSectionsEnd, ImportDescriptor, ImportThunk, ToExports,
                  ExportName, ToCoff, CoffSymbol, CoffEnd
    <3> QED
      BY <3>1, <3>2
  <2>2. ASSUME NEW v, NEW w, object' = [object EXCEPT !.segments = v, !.sections = w]
        PROVE  DOMAIN object' = ObjectFields /\ object'.relocations = <<>>
    BY <1>1, <2>2 DEF ObjectFields
  <2>3. CASE object' = object \/ object' = NoObject
    BY <1>1, <2>3 DEF ObjectFields, NoObject
  <2>4. ASSUME NEW v, \/ object' = [object EXCEPT !.libraries = v]
                      \/ object' = [object EXCEPT !.symbols = v]
                      \/ object' = [object EXCEPT !.sections = v]
                      \/ object' = [object EXCEPT !.stripped = v]
        PROVE  DOMAIN object' = ObjectFields /\ object'.relocations = <<>>
    BY <1>1, <2>4 DEF ObjectFields
  <2> QED
    BY <2>1, <2>2, <2>3, <2>4
<1>3. <<>> \in Seq({})
  OBVIOUS
<1> QED
  BY <1>1, <1>2, <1>3 DEF NameInv, MachoStages, PeStages, Ends

\* The stages before the symbols: there is no object yet but for its segments.
LEMMA EarlyStep ==
  ASSUME ElfInv, NameInv,
         load_file \/ parse_header \/ ExtendedNumbering \/ SectionTable \/ SectionTableRefused
           \/ parse_section_header \/ SectionHeaderRefused \/ NameSections \/ parse_segment
           \/ SegmentTableRefused
  PROVE  NameInv'
<1>1. /\ pc \in {"load", "elf", "first", "sections", "segments"}
      /\ pc' \notin {"symbols", "relocations", "dynamic"}
      /\ \/ object' = object
         \/ pc = "segments" /\ \E v : object' = [object EXCEPT !.segments = v]
      /\ pc' = "segments" => pc \in {"elf", "sections", "segments"}
  BY DEF load_file, reader, parse_header, ExtendedNumbering, SectionTable, SectionTableRefused,
         parse_section_header, SectionHeaderRefused, NameSections, parse_segment,
         SegmentTableRefused, ElfRefuse, Refuse, common
<1>2. /\ DOMAIN object = ObjectFields /\ object.relocations = <<>>
      /\ pc = "segments" => object.symbols = <<>>
      /\ pc # "segments" => object = NoObject
  BY <1>1 DEF NameInv, ElfInv, Ends
<1>3. /\ DOMAIN object' = ObjectFields /\ object'.relocations = <<>>
      /\ pc = "segments" => object'.symbols = <<>>
      /\ pc # "segments" => object' = NoObject
  BY <1>1, <1>2 DEF ObjectFields
<1>4. pc' = "segments" => object'.symbols = <<>>
  BY <1>3 DEF NoObject
<1>5. <<>> \in Seq({})
  OBVIOUS
<1> QED
  BY <1>1, <1>3, <1>4, <1>5 DEF NameInv

LEMMA NameStep ==
  ASSUME ElfInv, NameInv, [Next]_vars
  PROVE  NameInv'
<1>1. CASE UNCHANGED vars
  <2>1. UNCHANGED <<pc, object, sections, tables, at>>
    BY <1>1 DEF vars, common, elfVars
  <2>2. ListsGood' = ListsGood /\ TablesGrow' = TablesGrow
    BY <2>1 DEF ListsGood, TablesGrow, Placed, SymbolsBefore, SlotsBefore
  <2>3. (\A i \in DOMAIN object.relocations : NamedByTable(object.relocations[i]))'
          = \A i \in DOMAIN object.relocations : NamedByTable(object.relocations[i])
    BY <2>1 DEF NamedByTable, relocation_name
  <2> QED
    BY <2>1, <2>2, <2>3 DEF NameInv
<1>2. CASE RelocationTableDone \/ RelocationsDone
  <2>1. /\ pc = "relocations" /\ pc' \in {"relocations", "dynamic"} \cup Ends
        /\ UNCHANGED <<object, sections, tables>>
    BY <1>2 DEF RelocationTableDone, RelocationsDone, Ends
  <2> QED
    BY <2>1, NamesKept
<1>3. CASE populate_dynamic
  <2>1. /\ pc = "dynamic" /\ pc' \in {"dynamic", "done"} /\ UNCHANGED <<sections, tables>>
        /\ \/ object' = object
           \/ \E v : object' = [object EXCEPT !.libraries = v]
    BY <1>3 DEF populate_dynamic
  <2>2. DOMAIN object = ObjectFields /\ ListsGood
    BY <2>1 DEF NameInv
  <2>3. /\ DOMAIN object' = ObjectFields /\ object'.symbols = object.symbols
        /\ object'.relocations = object.relocations
    BY <2>1, <2>2 DEF ObjectFields
  <2>4. ListsGood'
    BY <2>1, <2>2, <2>3, ListsKept
  <2>5. (\A i \in DOMAIN object.relocations : NamedByTable(object.relocations[i]))'
          = \A i \in DOMAIN object.relocations : NamedByTable(object.relocations[i])
    BY <2>1, <2>3 DEF NamedByTable, relocation_name
  <2> QED
    BY <2>1, <2>3, <2>4, <2>5 DEF NameInv, Ends
<1> QED
  BY <1>1, <1>2, <1>3, EarlyStep, PublishStep, SymbolStep, NextTableStep, RelocationStep, OtherReaders
  DEF Next, ElfNext, Loaded

\* A relocation bears the name of the symbol its index counts to in the table its own
\* section is linked to, wherever that table lies in the list of all symbols.
THEOREM RelocationsNamedAlways == Spec => []RelocationsNamed
<1>1. Init => NameInv
  <2> SUFFICES ASSUME Init PROVE NameInv
    OBVIOUS
  <2>1. pc = "load" /\ object.relocations = <<>> /\ DOMAIN object = ObjectFields /\ <<>> \in Seq({})
    BY DEF Init, NoObject, ObjectFields
  <2> QED
    BY <2>1 DEF NameInv
<1>2. NameInv => RelocationsNamed
  <2> SUFFICES ASSUME NameInv, NEW i \in DOMAIN object.relocations,
                      NEW r, r = object.relocations[i], NEW n, n = sections[r.section].link + 1
               PROVE  IF r.index = 0 /\ tables[n] = <<>> THEN r.name = ""
                      ELSE r.name = object.symbols[SymbolsBefore(n) + r.index + 1].name
    BY DEF RelocationsNamed
  <2>1. ListsGood /\ NamedByTable(r)
    <3>1. object.relocations # <<>>
      OBVIOUS
    <3> QED
      BY <3>1 DEF NameInv
  <2>2. PICK S : tables[n] \in Seq(S)
    BY <2>1 DEF ListsGood, NamedByTable
  <2>3. PICK l \in Nat : l = Len(tables[n]) /\ DOMAIN tables[n] = 1..l
    BY <2>2
  <2>4. n \in DOMAIN tables /\ r.index \in Nat /\ (r.index = 0 \/ r.index < l)
        /\ r.name = IF r.index < l THEN tables[n][r.index + 1].name ELSE ""
    BY <2>1, <2>3 DEF NamedByTable, relocation_name
  <2>5. PICK x \in Nat : x = r.index
    BY <2>4
  <2>6. CASE r.index = 0 /\ tables[n] = <<>>
    <3>1. l = 0
      BY <2>3, <2>6
    <3>2. ~(x < l)
      BY <2>5, <2>6, <3>1
    <3>3. r.name = ""
      BY <2>4, <2>5, <3>2
    <3> QED
      BY <2>6, <3>3
  <2>7. CASE ~(r.index = 0 /\ tables[n] = <<>>)
    <3>1. tables[n] # <<>> => l > 0
      BY <2>2, <2>3
    <3>2. x < l
      <4>1. CASE tables[n] = <<>>
        BY <2>4, <2>5, <2>7, <4>1
      <4>2. CASE tables[n] # <<>>
        BY <2>4, <2>5, <3>1, <4>2
      <4> QED
        BY <4>1, <4>2
    <3>3. x + 1 \in DOMAIN tables[n] /\ r.name = tables[n][x + 1].name
      BY <2>3, <2>4, <2>5, <3>2
    <3>4. /\ SymbolsBefore(n) \in Nat
          /\ object.symbols[SymbolsBefore(n) + (x + 1)] = tables[n][x + 1]
      BY <2>1, <2>4, <3>3 DEF ListsGood, Placed
    <3>5. PICK p \in Nat : p = SymbolsBefore(n)
      BY <3>4
    <3>6. p + (x + 1) = p + x + 1
      OBVIOUS
    <3>7. r.name = object.symbols[SymbolsBefore(n) + r.index + 1].name
      BY <2>5, <3>3, <3>4, <3>5, <3>6
    <3> QED
      BY <2>7, <3>7
  <2> QED
    BY <2>6, <2>7
<1> QED
  BY <1>1, <1>2, ElfCorrect, NameStep, PTL DEF Spec
=============================================================================
