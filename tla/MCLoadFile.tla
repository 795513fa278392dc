----------------------------- MODULE MCLoadFile -----------------------------
(* Small files of each format: every case of every check occurs in one of them. *)
EXTENDS LoadFile

MCImageSize == [Elf |-> 16, MachO |-> 8, MachOFat |-> 12, PeCoff |-> 12, Archive |-> 4, Unknown |-> 4]

MCSizes == [ehdr |-> 2, shdr |-> 2, phdr |-> 2, sym |-> 2, rel |-> 1, rela |-> 2, dyn |-> 1]

Plain == [known |-> TRUE, ehsize |-> 2, shoff |-> 4, shnum |-> 4, shentsize |-> 2, shstrndx |-> 1,
          phoff |-> 2, phnum |-> 0, phentsize |-> 2]
Few == [Plain EXCEPT !.shnum = 2]
None == [Plain EXCEPT !.shnum = 0, !.shoff = 0]
MCHeaders ==
    {Plain, None}
    \cup {[Few EXCEPT !.known = FALSE], [Few EXCEPT !.ehsize = 1], [Few EXCEPT !.shentsize = 1]}
    \cup {[Few EXCEPT !.shoff = o] : o \in {14, 126}}
    \cup {[Few EXCEPT !.shnum = 0, !.shoff = o, !.shentsize = e] : o \in {4, 15, 126}, e \in {0, 2}}
    \cup {[Few EXCEPT !.shstrndx = x] : x \in {3, XIndex}}
    \cup {[h EXCEPT !.phnum = n, !.phoff = o] : h \in {None, Few}, n \in {2, XIndex}, o \in {2, 14, 126}}
    \cup {[None EXCEPT !.phnum = 1, !.phentsize = 1]}

Sec(type, where, size, link, entsize) ==
    [name |-> "", type |-> type, offset |-> where, size |-> size, link |-> link, info |-> 1,
     entsize |-> entsize]
Named(n, s) == [s EXCEPT !.name = n]
MCRawSections ==
    {Sec("NULL", 0, 3, 1, 0), Sec("STRTAB", 4, 4, 0, 0),
     Sec("SYMTAB", 4, 4, 1, 0), Sec("DYNSYM", 8, 2, 1, 2), Sec("SYMTAB", 15, 1, 1, 1),
     Sec("RELA", 4, 2, 2, 0), Sec("REL", 12, 1, 3, 1), Sec("RELA", 15, 1, 2, 1),
     Sec("NOBITS", 20, 40, 0, 0), Sec("PROGBITS", 14, 4, 0, 0), Sec("PROGBITS", 120, 10, 0, 0),
     Named(".dynamic", Sec("NOBITS", 15, 3, 0, 0)), Named(".dynamic", Sec("DYNAMIC", 8, 2, 0, 0)),
     Named(".dynstr", Sec("STRTAB", 12, 3, 0, 0)), Named(Outside, Sec("PROGBITS", 4, 1, 0, 0))}

MCSegments == {[offset |-> 0, size |-> 16], [offset |-> 14, size |-> 4], [offset |-> 120, size |-> 10]}
MCRawSymbols == {[name |-> s, dynamic |-> FALSE] : s \in {"a", "b", Outside}}
MCSymbolIndexes == {0, 1, 2}
MCDynEntries == {[tag |-> "NULL", value |-> 0, name |-> ""], [tag |-> "NEEDED", value |-> 1, name |-> "a"],
                 [tag |-> "NEEDED", value |-> 9, name |-> "b"]}

MCLayout == [fat |-> 1, arch |-> 1, header |-> 2, word |-> 1, ncmds |-> 1, least |-> 1, nlist |-> 1,
             section |-> 1, segment |-> 2]
MCFatArchs == {[arm64 |-> a, offset |-> o, size |-> z] : a \in BOOLEAN, o \in {4, 9}, z \in {0, 5}}
Dylib(kind, name) == [kind |-> kind, cmdsize |-> 1, name |-> name, name_off |-> 0]
MCCommands ==
    {[kind |-> "SEGMENT", cmdsize |-> 3, nsects |-> n, offset |-> 4, size |-> 2] : n \in {1, 3}}
    \cup {[kind |-> "SYMTAB", cmdsize |-> 1, symoff |-> o, nsyms |-> n] : o \in {6, 7}, n \in {2, 4}}
    \cup {Dylib("LOAD_DYLIB", "A"), Dylib("LOAD_WEAK_DYLIB", "B"), Dylib("REEXPORT_DYLIB", "C"),
          Dylib("LOAD_UPWARD_DYLIB", "D"), [Dylib("LOAD_DYLIB", "E") EXCEPT !.name_off = 1]}
    \cup {[kind |-> "OTHER", cmdsize |-> z] : z \in {0, 1, 20}}
Nlist(name, type, ext, ordinal) ==
    [stab |-> FALSE, temporary |-> FALSE, name |-> name, type |-> type, ext |-> ext, ordinal |-> ordinal]
MCNlists == {Nlist("a", "UNDF", TRUE, 1), Nlist("b", "UNDF", TRUE, 2), Nlist("c", "SECT", TRUE, 0),
             Nlist("", "SECT", TRUE, 0)}

MCPeLayout == [least |-> 2, section |-> 1, descriptor |-> 1, thunk |-> 1, directory |-> 1, name |-> 1,
               symbol |-> 1]
Pe == [known |-> TRUE, whole |-> TRUE, nsections |-> 1, sections |-> 2, base |-> 64, import_rva |-> 2, export_rva |-> 0,
       names_rva |-> 3, exports |-> 2, symbols |-> 0, nsymbols |-> 3]
MCPeHeaders ==
    {Pe, [Pe EXCEPT !.known = FALSE], [Pe EXCEPT !.whole = FALSE, !.symbols = 6],
     [Pe EXCEPT !.nsections = 3], [Pe EXCEPT !.nsections = 2]}
    \cup {[Pe EXCEPT !.import_rva = 0, !.export_rva = 2, !.symbols = y, !.exports = e] :
            y \in {0, 6, 10}, e \in {2, 9}}
    \cup {[Pe EXCEPT !.export_rva = 2, !.symbols = 6, !.nsymbols = 9]}
MCSectionMaps == {[va |-> 2, vsize |-> 4, raw |-> 4, rawsize |-> 4],
                  [va |-> 2, vsize |-> 4, raw |-> 11, rawsize |-> 4],
                  [va |-> 14, vsize |-> 4, raw |-> 4, rawsize |-> 4]}
MCDescriptors == {[ilt |-> 0, name |-> "", iat |-> 0], [ilt |-> 4, name |-> "k.dll", iat |-> 3],
                  [ilt |-> 0, name |-> "u.dll", iat |-> 3]}
MCThunks == {"", "imp", Outside}
MCExportRvas == {"f", "g", Outside}
MCCoffSymbols ==
    {[name |-> s, function |-> TRUE, external |-> x, secnum |-> c, value |-> v, aux |-> a] :
        s \in {"f", "h"}, x \in {TRUE}, c \in {0, 1}, v \in {0, 1}, a \in {0, 1}}
=============================================================================
