------------------------------- MODULE LineTable -------------------------------
(***************************************************************************)
(* Source lines for --source: debug::load_source_map runs the line-number  *)
(* program of every unit of .debug_line, keeps each row it emits, tags the *)
(* row with its unit, sorts all rows by address, and source_at answers a   *)
(* lookup with the last row at or before the address.                      *)
(*                                                                         *)
(* The programs are those compilers write: a sequence sets its address     *)
(* first, its rows go up in address, end_sequence closes it at the first   *)
(* address past it, and no two sequences overlap.  The compiler's side     *)
(* (`meant`, `open`, `truth`) runs along with roe's, and what it says of   *)
(* each address is compared with the answer of source_at.                  *)
(***************************************************************************)
EXTENDS Integers, FiniteSets

CONSTANTS
  MaxAddress,  \* bound: code addresses
  MaxLine,     \* bound: line numbers
  Files,       \* indices into a unit's file table
  Version,     \* of the line-number programs: 2 to 5
  Units,       \* bound: units of .debug_line
  MaxRows      \* bound: rows emitted

ASSUME LineTableConstants ==
  /\ MaxAddress \in Nat /\ MaxLine \in Nat \ {0}
  /\ Units \in Nat \ {0} /\ MaxRows \in Nat
  /\ Version \in 2..5 /\ Files \subseteq Nat /\ {1, IF Version >= 5 THEN 0 ELSE 1} \subseteq Files

VARIABLES
  pc,     \* "program" while units are parsed, "sorted" when the map is made
  unit,   \* unit_id
  address, line, file, \* registers of the line-number program
  rows,   \* the rows emitted so far, each with its unit's tag
  last,   \* the sorted map: for each address with rows, the last of them
  phase,  \* of the sequence: not "begun", "placed" by set_address, or "open"
  meant,  \* compiler: the line and file its next row is for
  open,   \* compiler: the row emitted last, while the sequence is open
  truth   \* compiler: the location of each address that has one

vars == <<pc, unit, address, line, file, rows, last, phase, meant, open, truth>>
compiler == <<phase, meant, open, truth>>

Addresses == 0..MaxAddress

\* A row's file index is looked up in the table of the unit it is tagged with, so
\* the two stand for the path.
Locations == [unit : 1..Units, file : Files, line : 0..MaxLine]
Rows == [address : Addresses, loc : Locations]

\* The file register of roe at the start of a sequence.
FirstFile == IF Version >= 5 THEN 0 ELSE 1

\* The compiler's: 1 in every version of the format.
Start == [line |-> 1, file |-> 1]

\* No location.
Nowhere == [unit |-> 0, file |-> FirstFile, line |-> 0]

-----------------------------------------------------------------------------
(* roe: parse_unit                                                         *)

\* Mutant: rows are not tagged, and files are looked up in the last unit's table.
tag_last == Units

\* row.file |= unit_id << 32
tag == unit

\* reset()
reset == address' = 0 /\ line' = 1 /\ file' = FirstFile

\* emit(): a line below 1 is recorded as 0.
emit(a, l) ==
  rows' = rows \cup {[address |-> a,
                      loc |-> [unit |-> tag, file |-> file, line |-> IF l > 0 THEN l ELSE 0]]}

-----------------------------------------------------------------------------
(* The compiler                                                            *)

Meant(m) == [unit |-> unit, file |-> m.file, line |-> m.line]

\* At a row for address a, the row before it stood for all addresses up to a;
\* no other sequence has them.
Extend(a) ==
  LET run == UNION {r.address..(a - 1) : r \in open} IN
  /\ Cardinality(rows) < MaxRows
  /\ \A b \in run : truth[b] = Nowhere
  /\ truth' = [b \in Addresses |-> IF b \in run THEN (CHOOSE r \in open : TRUE).loc ELSE truth[b]]

RowMeant(a, m) == Extend(a) /\ open' = {[address |-> a, loc |-> Meant(m)]}

Init ==
  /\ pc = "program" /\ unit = 1
  /\ address = 0 /\ line = 1 /\ file = FirstFile
  /\ rows = {} /\ last = {}
  /\ phase = "begun" /\ meant = Start /\ open = {}
  /\ truth = [a \in Addresses |-> Nowhere]

\* dw_lne_set_address
SetAddress ==
  /\ pc = "program" /\ phase = "begun" /\ phase' = "placed"
  /\ address' \in Addresses
  /\ UNCHANGED <<pc, unit, line, file, rows, last, meant, open, truth>>

\* dw_lns_advance_pc, const_add_pc and fixed_advance_pc.
AdvancePc ==
  /\ pc = "program" /\ phase = "open"
  /\ \E n \in 1..MaxAddress : address + n <= MaxAddress /\ address' = address + n
  /\ UNCHANGED <<pc, unit, line, file, rows, last>> /\ UNCHANGED compiler

\* dw_lns_advance_line
AdvanceLine ==
  /\ pc = "program" /\ phase # "begun"
  /\ \E d \in (-MaxLine)..MaxLine :
       /\ meant.line + d \in 0..MaxLine
       /\ line' = line + d /\ meant' = [meant EXCEPT !.line = @ + d]
  /\ UNCHANGED <<pc, unit, address, file, rows, last, phase, open, truth>>

\* dw_lns_set_file
SetFile ==
  /\ pc = "program" /\ phase # "begun"
  /\ file' \in Files /\ meant' = [meant EXCEPT !.file = file']
  /\ UNCHANGED <<pc, unit, address, line, rows, last, phase, open, truth>>

\* dw_lns_copy
Copy ==
  /\ pc = "program" /\ phase # "begun" /\ phase' = "open"
  /\ emit(address, line) /\ RowMeant(address, meant)
  /\ UNCHANGED <<pc, unit, address, line, file, last, meant>>

\* A special opcode advances the address and the line, and emits.
Special ==
  /\ pc = "program" /\ phase = "open"
  /\ \E n \in 0..MaxAddress, d \in (-MaxLine)..MaxLine :
       /\ address + n <= MaxAddress /\ meant.line + d \in 0..MaxLine
       /\ address' = address + n
       /\ line' = line + d /\ meant' = [meant EXCEPT !.line = @ + d]
  /\ emit(address', line') /\ RowMeant(address', meant')
  /\ UNCHANGED <<pc, unit, file, last, phase>>

\* dw_lne_end_sequence: emit() as for any row, then reset().
EndSequence ==
  /\ pc = "program" /\ phase = "open" /\ \A r \in open : address > r.address
  /\ emit(address, line) /\ reset
  /\ Extend(address)
  /\ phase' = "begun" /\ meant' = Start /\ open' = {}
  /\ UNCHANGED <<pc, unit, last>>

\* load_source_map parses the next unit, whose program has registers of its own.
NextUnit ==
  /\ pc = "program" /\ phase = "begun"
  /\ unit < Units /\ unit' = unit + 1
  /\ address' = 0 /\ line' = 1 /\ file' = FirstFile
  /\ UNCHANGED <<pc, rows, last>> /\ UNCHANGED compiler

\* std::sort compares addresses alone and is not stable: rows of one address end
\* up in any order.
Sort ==
  /\ pc = "program" /\ phase = "begun" /\ unit = Units
  /\ pc' = "sorted"
  /\ \E f \in [{r.address : r \in rows} -> rows] :
       /\ \A a \in DOMAIN f : f[a].address = a
       /\ last' = {f[a] : a \in DOMAIN f}
  /\ UNCHANGED <<unit, address, line, file, rows>> /\ UNCHANGED compiler

Next ==
  \/ SetAddress \/ AdvancePc \/ AdvanceLine \/ SetFile \/ Copy \/ Special
  \/ EndSequence \/ NextUnit \/ Sort

Spec == Init /\ [][Next]_vars

-----------------------------------------------------------------------------
(* The lookup                                                              *)

\* Mutant: lower_bound in place of upper_bound.
entry_before(a) ==
  {r \in last : r.address < a /\ \A s \in last : s.address < a => s.address <= r.address}

\* upper_bound, and the row before it: the last at or before a.
entry_at(a) ==
  {r \in last : r.address <= a /\ \A s \in last : s.address <= a => s.address <= r.address}

\* No row, or a row of line 0, is no location.
source_at(a) ==
  IF \E r \in entry_at(a) : r.loc.line > 0
  THEN (CHOOSE r \in entry_at(a) : TRUE).loc ELSE Nowhere

-----------------------------------------------------------------------------
(* Properties                                                              *)

\* What the compiler says of an address; line 0 says it has no source.
Said(a) == IF truth[a] # Nowhere /\ truth[a].line > 0 THEN truth[a] ELSE Nowhere

\* The rows that stand nearest at or before a are one and the same.
Unambiguous(a) ==
  LET nearest == {r \in rows : r.address <= a
                               /\ \A s \in rows : s.address <= a => s.address <= r.address}
  IN Cardinality(nearest) = 1

\* Every address that line information covers gets the file and line it says,
\* in whatever unit and sequence, unless two rows stand at one address
\* (debug.cpp:432-501, 560-599, 607-622).
CoveredAddressesRight ==
  pc = "sorted" =>
    \A a \in Addresses : truth[a] # Nowhere /\ Unambiguous(a) => source_at(a) = Said(a)
=============================================================================
