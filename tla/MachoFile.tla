------------------------------ MODULE MachoFile ------------------------------
(***************************************************************************)
(* macho::parse_bytes: the choice of a slice of a universal file, the load *)
(* commands of a thin one and its symbol table.  Nothing past the header   *)
(* is refused here: a command, a section or a symbol that does not fit     *)
(* ends its loop, and a field that does not fit reads as zero.             *)
(***************************************************************************)
EXTENDS ByteImage

CONSTANTS FatArchs,      \* contents of a fat_arch: is it arm64, offset, size
          Commands,      \* contents of a load command
          Nlists,        \* contents of a symbol
          MaxFat, MaxCommands, MaxSections, MaxSymbols,  \* 64, 100000, 100000, 5000000
          Layout         \* sizes: fat header, fat_arch, header, least command, nlist, section, segment

\* The commands that name a dylib an ordinal may count to, and those of them the reader passes over
DylibKinds == {"LOAD_DYLIB", "LOAD_WEAK_DYLIB", "REEXPORT_DYLIB", "LOAD_UPWARD_DYLIB", "LAZY_LOAD_DYLIB"}
UnreadKinds == {"LOAD_UPWARD_DYLIB", "LAZY_LOAD_DYLIB"}

\* Commands are told apart by their kinds.
ASSUME MachoConstants ==
    /\ MaxFat \in Nat
    /\ \A a \in FatArchs : a.arm64 \in BOOLEAN /\ a.offset \in Nat /\ a.size \in Nat
    /\ \A c \in Commands : c.kind \in {"SEGMENT", "SYMTAB", "OTHER"} \cup DylibKinds

VARIABLES fat,       \* the fat_arch entries read so far, and the count the file claims
          slice,     \* <<chosen_off, chosen_size>>
          commands,  \* the load commands walked: what the file says, kept for the properties
          cursor,    \* where the next command is
          ncmds, symtab, k

machoVars == <<fat, slice, commands, cursor, ncmds, symtab, k>>

NoSymtab == [present |-> FALSE]

MachoInit ==
    /\ fat = [n |-> 0, archs |-> <<>>] /\ slice = <<0, 0>> /\ commands = <<>> /\ cursor = 0
    /\ ncmds = 0 /\ symtab = NoSymtab /\ k = 0

MachoRefuse == Refuse /\ UNCHANGED machoVars

\* parse_bytes of a file with a fat magic; detect_format lets only the 32-bit one through
FatHeader ==
    /\ pc = "fat"
    /\ \E n \in 0..MaxFat + 1 :
         /\ fat' = [fat EXCEPT !.n = n]
         /\ pc' = IF n = 0 \/ n > MaxFat THEN "refused" ELSE "archs"
    /\ UNCHANGED <<image, object, wild, slice, commands, cursor, ncmds, symtab, k>>

\* The choice of a slice: the first that is not empty, until an arm64 one is met
preferred(arch) == slice[2] = 0 \/ arch.arm64

ArchFits == Layout.fat + (Len(fat.archs) + 1) * Layout.arch <= image

FatArch ==
    /\ pc = "archs" /\ Len(fat.archs) < fat.n /\ ArchFits
    /\ \E a \in FatArchs :
         /\ fat' = [fat EXCEPT !.archs = Append(@, a)]
         /\ slice' = IF preferred(a) THEN <<a.offset, a.size>> ELSE slice
         /\ pc' = IF preferred(a) /\ a.arm64 THEN "slice" ELSE pc
    /\ UNCHANGED <<image, object, wild, commands, cursor, ncmds, symtab, k>>

FatArchsEnd ==
    /\ pc = "archs" /\ (Len(fat.archs) = fat.n \/ ~ArchFits)
    /\ pc' = "slice"
    /\ UNCHANGED <<image, object, wild, machoVars>>

NotEmpty == slice[2] > 0   \* mutant: a slice may reach past the end

slice_fits == slice[2] > 0 /\ slice[1] + slice[2] <= image

TakeSlice ==
    /\ pc = "slice"
    /\ IF slice_fits THEN pc' = "macho" /\ image' = slice[2]
       ELSE pc' = "refused" /\ image' = image
    /\ UNCHANGED <<object, wild, machoVars>>

\* u32 and u64 of the Reader: a field that does not fit reads as zero
read(at, size, value) == IF at + size > image THEN 0 ELSE value

\* parse_thin up to its loop; a fat slice need not hold a thin file
ThinHeader ==
    /\ pc = "macho"
    /\ \E n \in 0..MaxCommands + 1, thin \in BOOLEAN :
         /\ ncmds' = read(Layout.ncmds, Layout.word, n)
         /\ pc' = IF ~thin \/ image < Layout.word \/ ncmds' > MaxCommands THEN "refused" ELSE "commands"
    /\ cursor' = Layout.header
    /\ UNCHANGED <<image, object, wild, fat, slice, commands, symtab, k>>

\* The commands whose names fill object.libraries
WithoutReexports(kind) == kind \in {"LOAD_DYLIB", "LOAD_WEAK_DYLIB"}   \* mutant

IsDylib(kind) == kind \in {"LOAD_DYLIB", "LOAD_WEAK_DYLIB", "REEXPORT_DYLIB"}

\* Sections of a segment command, as many as fit in the file; index counts from 0 in each segment
segment_sections(c) ==
    LET base == cursor + Layout.segment
        fits == SelectSeq([n \in 1..c.nsects |-> n], LAMBDA n : base + n * Layout.section <= image)
    IN  [n \in DOMAIN fits |-> [index |-> n - 1, offset |-> c.offset, size |-> c.size, seg |-> Len(commands) + 1]]

\* The effect of one command on the object
apply_command(c) ==
    IF c.kind = "SEGMENT" THEN
        [object EXCEPT !.segments = Append(@, c),
                       !.sections = IF c.nsects > MaxSections THEN @ ELSE @ \o segment_sections(c)]
    ELSE IF IsDylib(c.kind) /\ c.name_off < c.cmdsize THEN [object EXCEPT !.libraries = Append(@, c.name)]
    ELSE object

LoadCommand ==
    /\ pc = "commands" /\ Len(commands) < ncmds
    /\ cursor + Layout.least <= image
    /\ \E c \in Commands :
         /\ c.cmdsize >= Layout.least /\ cursor + c.cmdsize <= image
         /\ commands' = Append(commands, c)
         /\ object' = apply_command(c)
         /\ symtab' = IF c.kind = "SYMTAB" THEN [present |-> TRUE, symoff |-> c.symoff, nsyms |-> c.nsyms]
                      ELSE symtab
         /\ IF c.kind = "SEGMENT" /\ c.nsects > MaxSections
            THEN pc' = "nlists" /\ cursor' = cursor
            ELSE pc' = pc /\ cursor' = cursor + c.cmdsize
    /\ UNCHANGED <<image, wild, fat, slice, ncmds, k>>

\* The loop ends by its count, or with a command that does not fit
CommandsEnd ==
    /\ pc = "commands"
    /\ \/ Len(commands) = ncmds
       \/ cursor + Layout.least > image
       \/ \E c \in Commands : c.cmdsize < Layout.least \/ cursor + c.cmdsize > image
    /\ pc' = "nlists"
    /\ UNCHANGED <<image, object, wild, machoVars>>

\* The symbol loop goes on: a table was named, its size is plausible, and the next entry fits
NlistLeft == /\ symtab.present /\ symtab.nsyms <= MaxSymbols
             /\ k < symtab.nsyms /\ symtab.symoff + (k + 1) * Layout.nlist <= image

\* What the symbol loop makes of one nlist: a debug symbol, a name outside its table and an
\* assembler's temporary are passed over
reported(y) == ~y.stab /\ y.name # "" /\ ~y.temporary

import_library(y) ==
    IF y.ordinal \in DOMAIN object.libraries THEN object.libraries[y.ordinal] ELSE ""

parse_nlist ==
    /\ pc = "nlists" /\ NlistLeft
    /\ \E y \in Nlists :
         object' = IF ~reported(y) THEN object ELSE
             [object EXCEPT !.symbols = Append(@,
                [name |-> y.name, defined |-> y.type # "UNDF", ordinal |-> y.ordinal,
                 bind |-> CASE y.type = "UNDF" -> "Imported"
                            [] y.type = "SECT" /\ y.ext -> "Exported"
                            [] OTHER -> IF y.ext THEN "Global" ELSE "Local",
                 library |-> IF y.type = "UNDF" THEN import_library(y) ELSE ""])]
    /\ k' = k + 1
    /\ UNCHANGED <<pc, image, wild, fat, slice, commands, cursor, ncmds, symtab>>

NlistsEnd ==
    /\ pc = "nlists" /\ ~NlistLeft
    /\ pc' = "done"
    /\ UNCHANGED <<image, object, wild, machoVars>>

MachoNext == \/ FatHeader \/ FatArch \/ FatArchsEnd \/ TakeSlice \/ ThinHeader
             \/ LoadCommand \/ CommandsEnd \/ parse_nlist \/ NlistsEnd

-----------------------------------------------------------------------------
\* The dylibs an ordinal counts are those of all commands that load one
Dylibs == {i \in DOMAIN commands : commands[i].kind \in DylibKinds}

\* Commands the reader leaves out of its list: two kinds, and a name outside its command
Unread == {i \in Dylibs : commands[i].kind \in UnreadKinds \/ ~(commands[i].name_off < commands[i].cmdsize)}

(* An import is attributed to the library its ordinal names, whatever follows that library's
   command: the ordinal counts the commands that load a dylib in their order, and so must the
   reader's list (macho.cpp:341-348, 400-403).  After a command the reader leaves out its list
   counts differently, and nothing is said of the libraries from there on. *)
ImportsAttributed ==
    \A i \in DOMAIN object.symbols, d \in Dylibs :
        LET y == object.symbols[i]
        IN  /\ y.bind = "Imported" /\ y.ordinal = Cardinality(Dylibs \cap 1..d)
            /\ Unread \cap 1..d = {}
            => y.library = commands[d].name
=============================================================================
