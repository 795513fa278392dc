------------------------------- MODULE CodeViews -------------------------------
(***************************************************************************)
(* Which bytes of the file each view of roe shows, and under which address:*)
(* a function, a section, every executable section, an address, a range,   *)
(* and the hex dumps.  A view selects a section, takes the section's bytes *)
(* from the file, cuts a window out of them with 64-bit arithmetic, decodes*)
(* the window and trims the listing.  A byte is its position in the file.  *)
(***************************************************************************)
EXTENDS Integers, Sequences, SequencesExt

CONSTANTS
  Words,      \* 2^64: how many addresses there are
  ImageSize,  \* bytes of the file
  Cap,        \* most bytes --addr decodes (65536)
  Layouts,    \* section tables: sequences of Sections
  Codes       \* what the decoder makes of the file's bytes

Word == 0..(Words - 1)
Positions == 0..(ImageSize - 1)
Sections == [address : Word, offset : Word, size : Word,
             executable : BOOLEAN, nobits : BOOLEAN]

\* An instruction of size 0: the decoder makes nothing of the bytes there.
Instructions == [size : Nat, terminal : BOOLEAN]

ASSUME ViewConstants ==
  /\ Words \in Nat \ {0} /\ ImageSize \in Nat \ {0} /\ Cap \in Nat \ {0}
  /\ Layouts \subseteq Seq(Sections) /\ Codes \subseteq [Positions -> Instructions]

VARIABLES sections, code, request, answer

vars == <<sections, code, request, answer>>

Plus(a, b) == (a + b) % Words
Minus(a, b) == (a - b) % Words
Least(a, b) == IF a <= b THEN a ELSE b

Absent == -1  \* --bytes is not given
Requests(indices) ==
  [view : {"function", "elf_function"}, index : indices, start : Word, size : 0..ImageSize]
  \cup [view : {"section"}, index : indices] \cup [view : {"all"}]
  \cup [view : {"addr"}, start : Word]
  \cup {r \in [view : {"range", "hex_range"}, start : Word, end : Word] : r.start <= r.end}
  \cup [view : {"hex_section"}, index : indices, count : {Absent} \cup 0..ImageSize]
  \cup [view : {"hex_addr"}, start : Word, count : {Absent} \cup 0..ImageSize]

Pending == [done |-> FALSE, ok |-> FALSE, shown |-> <<>>, note |-> FALSE]
Failed == [Pending EXCEPT !.done = TRUE]
Shown(s) == [Failed EXCEPT !.ok = TRUE, !.shown = s]

\* A symbol starts inside its section.
Init ==
  /\ sections \in Layouts /\ code \in Codes
  /\ request \in {r \in Requests(DOMAIN sections) :
                    r.view \in {"function", "elf_function"} =>
                      r.start - sections[r.index].address \in 0..(sections[r.index].size - 1)}
  /\ answer = Pending

-----------------------------------------------------------------------------
(* Sections and their bytes *)

\* Of several sections the first is the one taken.
FirstOf(indices) == {sections[i] : i \in {j \in indices : \A k \in indices : j <= k}}

section_containing(a) ==
  FirstOf({i \in DOMAIN sections :
             /\ sections[i].address <= a
             /\ a < Plus(sections[i].address, sections[i].size)})

\* Mutant: the address past a section's last counts as the section's.
executable_touching(a) ==
  FirstOf({i \in DOMAIN sections :
             /\ sections[i].executable /\ sections[i].address <= a
             /\ Minus(a, sections[i].address) <= sections[i].size})

executable_containing(a) ==
  FirstOf({i \in DOMAIN sections :
             /\ sections[i].executable /\ sections[i].address <= a
             /\ Minus(a, sections[i].address) < sections[i].size})

\* elf: the symbol's own section when it is executable, else the first that has its address.
containing_executable_section(index, a) ==
  IF sections[index].executable THEN {sections[index]} ELSE executable_containing(a)

InImage(s) == s.offset <= ImageSize /\ s.size <= ImageSize - s.offset

\* section_bytes of every backend: as many bytes as the section has, or none.
backed(s) == IF InImage(s) THEN s.size ELSE 0

-----------------------------------------------------------------------------
(* Decoding *)

\* cs_disasm stops at the first bytes it cannot decode, or that the window cuts.
decode(address, from, to) ==
  LET rest[p \in 0..ImageSize] ==
        IF p >= to \/ code[p].size = 0 \/ p + code[p].size > to THEN <<>>
        ELSE <<[address |-> address + (p - from), pos |-> p]>> \o rest[p + code[p].size]
  IN IF from < to THEN rest[from] ELSE <<>>

disassemble_bytes(address, from, to) ==
  LET listing == decode(address, from, to)
  IN IF from < to /\ listing = <<>> THEN Failed ELSE Shown(listing)

terminal(item) == code[item.pos].terminal

trim_after_first_terminal(a) ==
  LET ends == {i \in DOMAIN a.shown : terminal(a.shown[i])}
  IN IF ends = {} THEN a
     ELSE [a EXCEPT !.shown = SubSeq(@, 1, CHOOSE i \in ends : \A j \in ends : i <= j)]

-----------------------------------------------------------------------------
(* The views *)

\* Mutant: a symbol longer than its section is not cut at the section's end.
window_unclamped(s, start, size) ==
  s.offset + Minus(start, s.address)
    + (IF size = 0 THEN backed(s) - Minus(start, s.address)
       ELSE Least(size, ImageSize - s.offset - Minus(start, s.address)))

\* Where the bytes of a symbol of section s end in the file.
function_end(s, start, size) ==
  LET available == backed(s) - Minus(start, s.address)
  IN s.offset + Minus(start, s.address) + (IF size = 0 THEN available ELSE Least(size, available))

trimmed_if(untrimmed, a) == IF untrimmed THEN trim_after_first_terminal(a) ELSE a

disassemble_function(start, size) ==
  IF \E s \in executable_containing(start) : Minus(start, s.address) <= backed(s)
  THEN LET s == CHOOSE s \in executable_containing(start) : TRUE
       IN trimmed_if(size = 0, disassemble_bytes(
            start, s.offset + Minus(start, s.address), function_end(s, start, size)))
  ELSE Failed

\* The overload for elf::File: a symbol that leaves its section is an error.
disassemble_elf_function(index, start, size) ==
  IF \E s \in containing_executable_section(index, start) :
       /\ start >= s.address /\ ~s.nobits /\ InImage(s)
       /\ start - s.address <= s.size /\ size <= s.size - (start - s.address)
  THEN LET s == CHOOSE s \in containing_executable_section(index, start) : TRUE
       IN trimmed_if(size = 0, disassemble_bytes(
            start, s.offset + (start - s.address), function_end(s, start, size)))
  ELSE Failed

disassemble_section(s) == disassemble_bytes(s.address, s.offset, s.offset + backed(s))

\* Mutant: the end is taken as the first address not shown.
range_end_exclusive(s, begin, end) ==
  LET cut == IF end >= s.address THEN Least(Minus(end, s.address), backed(s)) ELSE begin
  IN IF cut <= begin THEN Least(backed(s), begin + 1) ELSE cut

\* run_disassemble_addr, for --range: the offset past the last byte shown.
range_end(s, begin, end) ==
  LET cut == IF end >= s.address
             THEN Least(Plus(Minus(end, s.address), 1), backed(s)) ELSE begin
  IN IF cut <= begin THEN Least(backed(s), begin + 1) ELSE cut

\* The section of an address that can be disassembled.
code_section(start) ==
  {s \in section_containing(start) : s.executable /\ Minus(start, s.address) < backed(s)}

\* Its bytes from the address to offset `end`.
disassemble_window(s, start, end) ==
  disassemble_bytes(start, s.offset + Minus(start, s.address), s.offset + end)

bytes_shown(base, from, count) ==
  [i \in 1..count |-> [address |-> Plus(base, i - 1), pos |-> from + i - 1]]

\* Mutant: the note is kept for --range.
dump_noting_ranges(s, start, length, explicit) ==
  LET off == Minus(start, s.address)
      available == backed(s) - off
  IN IF off < backed(s)
     THEN [Shown(bytes_shown(start, s.offset + off, Least(length, available)))
             EXCEPT !.note = explicit /\ request.view = "hex_range" /\ length > available]
     ELSE Shown(<<>>)

\* Mutant: the length is not cut to what the section has.
dump_unclamped(s, start, length, explicit) ==
  LET off == Minus(start, s.address)
  IN IF off < backed(s) THEN Shown(bytes_shown(start, s.offset + off, length)) ELSE Shown(<<>>)

\* run_hex, for --addr and --range: cut to the section, with a note if a length was given.
dump(s, start, length, explicit) ==
  LET off == Minus(start, s.address)
      available == backed(s) - off
  IN IF off < backed(s)
     THEN [Shown(bytes_shown(start, s.offset + off, Least(length, available)))
             EXCEPT !.note = explicit /\ length > available]
     ELSE Shown(<<>>)

Answer(a) == answer = Pending /\ answer' = a /\ UNCHANGED <<sections, code, request>>

DisassembleFunction ==
  request.view = "function" /\ Answer(disassemble_function(request.start, request.size))

DisassembleElfFunction ==
  /\ request.view = "elf_function"
  /\ Answer(disassemble_elf_function(request.index, request.start, request.size))

DisassembleSection ==
  request.view = "section" /\ Answer(disassemble_section(sections[request.index]))

\* Mutant: the first section that cannot be decoded ends the loop.
DisassembleAllBreaking ==
  /\ request.view = "all"
  /\ LET listing(s) == IF s.executable THEN disassemble_section(s).shown ELSE <<>>
         good == {n \in 0..Len(sections) : \A i \in 1..n : listing(sections[i]) # <<>>}
         n == CHOOSE n \in good : \A m \in good : m <= n
     IN Answer(IF n = 0 THEN Failed ELSE Shown(FlattenSeq([i \in 1..n |-> listing(sections[i])])))

\* -D: the executable sections in turn; what cannot be decoded is left out.
DisassembleAll ==
  /\ request.view = "all"
  /\ LET listed(s) == s.executable /\ s.size # 0 /\ disassemble_section(s).ok
         upto[i \in 0..Len(sections)] ==
           IF i = 0 THEN <<>>
           ELSE IF listed(sections[i]) THEN upto[i - 1] \o disassemble_section(sections[i]).shown
           ELSE upto[i - 1]
     IN Answer(IF \A s \in Range(sections) : ~listed(s) THEN Failed ELSE Shown(upto[Len(sections)]))

DisassembleAddr ==
  /\ request.view = "addr"
  /\ IF code_section(request.start) = {} THEN Answer(Failed)
     ELSE LET s == CHOOSE s \in code_section(request.start) : TRUE
              end == Least(backed(s), Minus(request.start, s.address) + Cap)
          IN Answer(trim_after_first_terminal(disassemble_window(s, request.start, end)))

DisassembleRange ==
  /\ request.view = "range"
  /\ IF code_section(request.start) = {} THEN Answer(Failed)
     ELSE LET s == CHOOSE s \in code_section(request.start) : TRUE
              end == range_end(s, Minus(request.start, s.address), request.end)
          IN Answer(disassemble_window(s, request.start, end))

HexSection ==
  /\ request.view = "hex_section"
  /\ LET s == sections[request.index]
         count == IF request.count = Absent THEN backed(s) ELSE Least(request.count, backed(s))
         note == request.count > backed(s)
     IN Answer([Shown(bytes_shown(s.address, s.offset, count)) EXCEPT !.note = note])

\* 64 bytes by default; Cap stands for them.
HexAddr ==
  /\ request.view \in {"hex_addr", "hex_range"}
  /\ LET found == section_containing(request.start)
         length == CASE request.view = "hex_range" -> Plus(Minus(request.end, request.start), 1)
                     [] request.view = "hex_addr" /\ request.count = Absent -> Cap
                     [] OTHER -> request.count
         explicit == request.view = "hex_range" \/ request.count # Absent
     IN Answer(IF found = {} THEN Failed
               ELSE dump(CHOOSE s \in found : TRUE, request.start, length, explicit))

Next ==
  \/ DisassembleFunction \/ DisassembleElfFunction \/ DisassembleSection \/ DisassembleAll
  \/ DisassembleAddr \/ DisassembleRange \/ HexSection \/ HexAddr

Spec == Init /\ [][Next]_vars

-----------------------------------------------------------------------------
(* Properties *)

Answered(views) == answer.done /\ request.view \in views

Holds(s, a) == s.address <= a /\ a < s.address + s.size

\* The section an address is in: of those of the table that hold it the first, as loaded
\* sections stand before the others, which begin at address 0.
Owns(i, a) == Holds(sections[i], a) /\ \A j \in 1..(i - 1) : ~Holds(sections[j], a)

\* The bytes of a section are in the file, or lie outside it as those of .bss at its end.
\* A section that has none may have a place in the middle of the file all the same.
Stored(s) == ~s.nobits /\ s.offset + s.size <= ImageSize
OutOfFile(s) == s.offset + s.size > ImageSize

\* A range of all addresses of a word, from `first` on, has a length of 0 in a word.
LastBefore(first) == request.view \in {"range", "hex_range"} => request.end - first < Words - 1

\* Item by item, the listing of answer a is the code of section s from `first` on, each
\* instruction after the one before it, none past `limit`; it ends at the limit, at
\* bytes that are no instruction, at an instruction the limit cuts, or, where
\* `stops`, at the first terminal one.
Lists(a, s, first, limit, stops) ==
  LET items == a.shown
      place(at) == s.offset + (at - s.address)
      after(i) == IF i = 0 THEN first ELSE items[i].address + code[items[i].pos].size
      next == after(Len(items))
  IN /\ \A i \in DOMAIN items :
          /\ items[i].address = after(i - 1) /\ items[i].pos = place(items[i].address)
          /\ after(i) <= limit
          /\ stops => (terminal(items[i]) => i = Len(items))
     /\ \/ next >= limit
        \/ code[place(next)].size = 0 \/ next + code[place(next)].size > limit
        \/ stops /\ items # <<>> /\ terminal(Last(items))
     /\ a.ok <=> items # <<>>

\* A function's listing is its section's code from the symbol's address to its size,
\* cut at the section's end, or to the first terminal instruction when the symbol
\* has no size; a section's is all of it; README.md:191, "disassemble one function"
\* (disasm.cpp:687-742).
FunctionShown ==
  Answered({"function", "section"}) =>
    LET s == sections[request.index]
        end == s.address + s.size
    IN Stored(s) =>
         IF request.view = "section" THEN s.size > 0 => Lists(answer, s, s.address, end, FALSE)
         ELSE s.executable =>
                IF request.size = 0 THEN Lists(answer, s, request.start, end, TRUE)
                ELSE Lists(answer, s, request.start, Least(request.start + request.size, end), FALSE)

\* The two overloads of disassemble_function answer alike when the symbol stays in
\* its section (disasm.cpp:455-510, 653-668, 697-742).
OverloadsAgree ==
  Answered({"function", "elf_function"}) =>
    LET s == sections[request.index] IN
    (s.executable /\ Stored(s) /\ request.start + request.size <= s.address + s.size) =>
      disassemble_elf_function(request.index, request.start, request.size)
        = disassemble_function(request.start, request.size)

\* --addr and --range list the code of the section the address is in, from the
\* address to the cap or the range's last byte, and refuse what is no code or not in
\* the file (cli.cpp:943-987).
AddressShown ==
  Answered({"addr", "range"}) =>
    \A i \in DOMAIN sections : Owns(i, request.start) =>
      LET s == sections[i]
          end == s.address + s.size
          limit == IF request.view = "addr" THEN request.start + Cap ELSE request.end + 1
      IN /\ s.executable /\ Stored(s) /\ LastBefore(s.address) =>
              Lists(answer, s, request.start, Least(limit, end), request.view = "addr")
         /\ ~s.executable \/ OutOfFile(s) => ~answer.ok

\* -D leaves out no executable section that begins with an instruction, whatever
\* the sections before it hold (cli.cpp:657-681).
EverySectionListed ==
  Answered({"all"}) =>
    \A s \in Range(sections) :
      s.executable /\ Stored(s) /\ s.size > 0 /\ code[s.offset].size \in 1..s.size
        => [address |-> s.address, pos |-> s.offset] \in Range(answer.shown)

\* How many bytes a hex view is asked for.
AskedBytes ==
  CASE request.view = "hex_range" -> (request.end - request.start) + 1
    [] request.view # "hex_range" /\ request.count = Absent -> Cap
    [] OTHER -> request.count

\* A dump shows, under each address from the first, the byte that is there, as many
\* as were asked for or the section has; of a section outside the file, none
\* (cli.cpp:1044-1062).
DumpShown ==
  Answered({"hex_addr", "hex_range"}) /\ LastBefore(request.start) =>
    \A i \in DOMAIN sections : Owns(i, request.start) =>
      LET s == sections[i] IN
      /\ answer.ok
      /\ OutOfFile(s) => answer.shown = <<>>
      /\ Stored(s) =>
           /\ Len(answer.shown) = Least(AskedBytes, s.address + s.size - request.start)
           /\ \A n \in DOMAIN answer.shown :
                answer.shown[n] = [address |-> request.start + n - 1,
                                   pos |-> s.offset + (request.start + n - 1 - s.address)]

\* cli.cpp:993-994: the note is there "so a short dump is never silently mistaken for
\* the full request"; CHANGELOG.md:81-83 promises it for --bytes and --range.  The code
\* keeps that promise for a named section, and for an address whose section is in the file.
ShortDumpNoted ==
  (/\ Answered({"hex_section", "hex_addr", "hex_range"}) /\ answer.ok
   /\ request.view = "hex_range" \/ request.count # Absent
   /\ request.view # "hex_section" =>
        /\ LastBefore(request.start)
        /\ \A i \in DOMAIN sections : Owns(i, request.start) => ~OutOfFile(sections[i]))
    => (answer.note <=> Len(answer.shown) < AskedBytes)
=============================================================================
