------------------------------ MODULE LoadFile ------------------------------
(***************************************************************************)
(* binary::load_file: the format is told from the first bytes and one of   *)
(* the three readers takes over.  The object they build has one form, and  *)
(* what the rest of the program may rely on is stated about that form.     *)
(***************************************************************************)
EXTENDS ElfFile, MachoFile, PeFile

CONSTANTS Formats,   \* what detect_format may find
          ImageSize  \* the size of a file of each format

ASSUME ImageSizes == \A format \in Formats : ImageSize[format] \in Nat

vars == <<common, elfVars, machoVars, peVars>>

Init == /\ pc = "load" /\ image = 0 /\ object = NoObject /\ wild = FALSE
        /\ ElfInit /\ MachoInit /\ PeInit

\* The reader that detect_format and load_bytes choose; archives and the unknown are refused
reader(format) == CASE format = "Elf" -> "elf"
                    [] format = "MachO" -> "macho"
                    [] format = "MachOFat" -> "fat"
                    [] format = "PeCoff" -> "pe"
                    [] OTHER -> "refused"

load_file ==
    /\ pc = "load"
    /\ \/ pc' = "refused" /\ image' = image        \* it cannot be opened or read
       \/ \E format \in Formats : pc' = reader(format) /\ image' = ImageSize[format]
    /\ UNCHANGED <<object, wild, elfVars, machoVars, peVars>>

Loaded == pc \in {"done", "refused"} /\ UNCHANGED vars

Next == \/ load_file
        \/ ElfNext /\ UNCHANGED <<machoVars, peVars>>
        \/ MachoNext /\ UNCHANGED <<elfVars, peVars>>
        \/ PeNext /\ UNCHANGED <<elfVars, machoVars>>
        \/ Loaded

Spec == Init /\ [][Next]_vars

-----------------------------------------------------------------------------
(* Of a universal file the arm64 slice is read if the walk came to one, else the first that is
   not empty ("prefer arm64, else the first", macho.cpp:465), and its bytes lie in the file as it
   was loaded: the image the later reads are checked against is no larger (macho.cpp:501). *)
SlicePreferred ==
    pc \in {"macho", "commands", "nlists", "done"} /\ fat.n > 0 =>
        LET arms == {i \in DOMAIN fat.archs : fat.archs[i].arm64}
            full == {i \in DOMAIN fat.archs : fat.archs[i].size > 0}
            a == fat.archs[Min(IF arms # {} THEN arms ELSE full)]
        IN  /\ arms # {} \/ full # {}
            /\ slice = <<a.offset, a.size>> /\ image = a.size
            /\ a.offset + a.size <= ImageSize["MachOFat"]
=============================================================================
