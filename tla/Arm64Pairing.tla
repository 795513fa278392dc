----------------------------- MODULE Arm64Pairing -----------------------------
(***************************************************************************)
(* How roe finds the data an AArch64 instruction refers to.  Such code     *)
(* builds an address in two instructions (ADRP for the page, then ADD or   *)
(* LDR for the rest), and disassemble_bytes hands every instruction it     *)
(* decodes to update_arm64_pairing, which tracks what ADRP and ADD left in *)
(* each register.  The tracker runs here beside the machine it             *)
(* approximates: each step executes one instruction of a straight line of  *)
(* code on the registers and shows it to the tracker.                      *)
(***************************************************************************)
EXTENDS Integers

CONSTANTS
  Regs,      \* the registers X0..X30 that the code uses
  Words,     \* 2^64: addresses are computed modulo this
  Pages,     \* page addresses ADRP can materialise
  Offsets,   \* immediates of ADD and displacements of LDR
  Shift,     \* 2^12: what ADD's optional LSL #12 multiplies its immediate by
  Traits     \* what instructions may do besides the plain forms, see below

ASSUME PairingConstants ==
  /\ Words \in Nat \ {0} /\ Shift \in Nat \ {0}
  /\ Pages \subseteq 0..(Words - 1)
  /\ Offsets \subseteq Nat
  /\ Traits \subseteq {"narrow", "shifted", "indexed", "implicit"}
  /\ "outside" \notin Regs

VARIABLES
  reg,     \* the machine: what each register holds
  page,    \* the tracker: what it believes of each register, None if nothing
  target,  \* reference_target of the last instruction, None if it got none
  actual,  \* the machine: the address the last ADD or LDR formed, or None
  derived, \* history: registers whose value ADRP, or ADD to such a one, made
  paired   \* history: the last ADD or LDR used one of them

vars == <<reg, page, target, actual, derived, paired>>

None == -1
Addresses == 0..(Words - 1)

\* A base or index that is none of X0..X30: SP, the zero register, or absent.
Outside == "outside"
Operand == Regs \cup {Outside}

(***************************************************************************)
(* An instruction, as Capstone reports it and as the machine executes it:  *)
(*   id      which of the four kinds the tracker tells apart;              *)
(*   writes  the register operands with write access;                      *)
(*   base    the register it adds to or loads from, imm its immediate;     *)
(*   wide    its registers are named X, not W ("narrow" if FALSE);         *)
(*   lsl     ADD shifts its immediate ("shifted");                         *)
(*   index   LDR adds another register ("indexed");                        *)
(*   also    what it writes that is no register operand with write access: *)
(*           a base written back, what a call clobbers ("implicit").       *)
(***************************************************************************)
Instruction(id, writes, base, imm) ==
  {in \in [id : {id}, writes : writes, base : base, imm : imm, wide : BOOLEAN,
           lsl : BOOLEAN, index : Operand, also : SUBSET Regs] :
     /\ ~in.wide => "narrow" \in Traits /\ in.id # "adrp"
     /\ in.lsl => "shifted" \in Traits /\ in.id = "add"
     /\ in.index # Outside => "indexed" \in Traits /\ in.id = "ldr"
     /\ in.also # {} => "implicit" \in Traits /\ in.id \in {"ldr", "other"}}

AtMostOne == {{}} \cup {{r} : r \in Regs}

Adrps  == Instruction("adrp", AtMostOne, {Outside}, Pages)
Adds   == Instruction("add", AtMostOne, Operand, Offsets)
Ldrs   == Instruction("ldr", AtMostOne, Operand, Offsets)
Others == Instruction("other", SUBSET Regs, {Outside}, {0})

-----------------------------------------------------------------------------
(* The machine (external).                                                 *)

Value(r) == IF r = Outside THEN 0 ELSE reg[r]

AddResult(in) == (Value(in.base) + in.imm * (IF in.lsl THEN Shift ELSE 1)) % Words

LoadAddress(in) == (Value(in.base) + in.imm + Value(in.index)) % Words

\* The registers `in` writes get any value, but for the ones given v.
Write(in, v) ==
  reg' \in {f \in [Regs -> Addresses] :
              \A r \in Regs : /\ r \notin in.writes \cup in.also => f[r] = reg[r]
                              /\ r \in in.writes /\ v # None => f[r] = v}

\* A W register as destination keeps the low half alone.
Full(in, v) == IF in.wide THEN v ELSE None

Derives(in) == IF in.base \in derived \/ in.id = "adrp"
               THEN derived \cup in.writes ELSE derived \ in.writes

-----------------------------------------------------------------------------
(* The tracker                                                             *)

\* arm64_reg_index: the written registers that have a slot; W names have none.
Slots(in) == IF in.wide THEN in.writes ELSE {}

Known(r) == r # Outside /\ page[r] # None

\* The slots of what `in` writes get v.
Track(in, v) == page' = [r \in Regs |-> IF r \in Slots(in) THEN v ELSE page[r]]

Init ==
  /\ reg \in [Regs -> Addresses]
  /\ page = [r \in Regs |-> None]
  /\ target = None /\ actual = None
  /\ derived = {} /\ paired = FALSE

\* ADRP: the page is the register's.
Adrp(in) ==
  /\ Track(in, in.imm) /\ target' = None
  /\ Write(in, in.imm) /\ actual' = None
  /\ derived' = Derives(in) /\ paired' = FALSE

\* Mutant: the pair is annotated, and the destination keeps what was believed of it.
AddWithoutTracking(in) ==
  /\ in.wide /\ Known(in.base)
  /\ target' = (page[in.base] + in.imm) % Words
  /\ UNCHANGED page
  /\ Write(in, Full(in, AddResult(in))) /\ actual' = AddResult(in)
  /\ derived' = Derives(in) /\ paired' = (in.base \in derived)

\* ADD of an immediate to a register that is known: a reference, and the sum
\* is what the destination holds from here.
AddToKnown(in) ==
  /\ in.wide /\ Known(in.base)
  /\ target' = (page[in.base] + in.imm) % Words
  /\ Track(in, target')
  /\ Write(in, Full(in, AddResult(in))) /\ actual' = AddResult(in)
  /\ derived' = Derives(in) /\ paired' = (in.base \in derived)

\* An ADD to any other base invalidates its destination.  (One of a register, and
\* not of an immediate, is no pair: it is among the other instructions.)
AddToUnknown(in) ==
  /\ ~(in.wide /\ Known(in.base))
  /\ target' = None
  /\ Track(in, None)
  /\ Write(in, Full(in, AddResult(in))) /\ actual' = AddResult(in)
  /\ derived' = Derives(in) \ (IF in.wide THEN {} ELSE in.writes)
  /\ paired' = (in.wide /\ in.base \in derived)

\* Mutant: the destination is invalidated before its base is looked up.
LdrInvalidatingFirst(in) ==
  /\ target' = IF Known(in.base) /\ in.base \notin Slots(in)
               THEN (page[in.base] + in.imm) % Words ELSE None
  /\ Track(in, None)
  /\ Write(in, None) /\ actual' = LoadAddress(in)
  /\ derived' = derived \ (in.writes \cup in.also)
  /\ paired' = (in.base \in derived)

\* Mutant: the displacement is subtracted.
LdrBelow(in) ==
  /\ target' = IF Known(in.base) THEN (page[in.base] - in.imm) % Words ELSE None
  /\ Track(in, None)
  /\ Write(in, None) /\ actual' = LoadAddress(in)
  /\ derived' = derived \ (in.writes \cup in.also)
  /\ paired' = (in.base \in derived)

\* LDR: a reference if its base is known; the destination is invalidated.
Ldr(in) ==
  /\ target' = IF Known(in.base) THEN (page[in.base] + in.imm) % Words ELSE None
  /\ Track(in, None)
  /\ Write(in, None) /\ actual' = LoadAddress(in)
  /\ derived' = derived \ (in.writes \cup in.also)
  /\ paired' = (in.base \in derived)

\* Everything else invalidates what it writes.
Other(in) ==
  /\ target' = None
  /\ Track(in, None)
  /\ Write(in, None) /\ actual' = None
  /\ derived' = derived \ (in.writes \cup in.also)
  /\ paired' = FALSE

Next ==
  \/ \E in \in Adrps : Adrp(in)
  \/ \E in \in Adds : AddToKnown(in)
  \/ \E in \in Adds : AddToUnknown(in)
  \/ \E in \in Ldrs : Ldr(in)
  \/ \E in \in Others : Other(in)

Spec == Init /\ [][Next]_vars

-----------------------------------------------------------------------------
(* Properties                                                              *)

TypeOK ==
  /\ reg \in [Regs -> Addresses]
  /\ page \in [Regs -> Addresses \cup {None}]
  /\ target \in Addresses \cup {None} /\ actual \in Addresses \cup {None}
  /\ derived \subseteq Regs /\ paired \in BOOLEAN

\* What the tracker believes of a register is what the register holds: nothing
\* that was written since survives (disasm.cpp:364, "Conservatively invalidate
\* any register this instruction writes").
PagesSound == \A r \in Regs : page[r] # None => page[r] = reg[r]

\* The data address an instruction is annotated with is the one it forms
\* (disasm.cpp:318-319, "the effective data address ... is recovered").
TargetSound == target # None => target = actual

\* No pair is missed: an ADD or LDR of an address that ADRP began is annotated,
\* whatever was done to other registers between (disasm.cpp:320).
PairsRecovered == paired => target # None

\* Why: a register is tracked exactly when ADRP, or ADD to a tracked one, wrote
\* it last.
TrackedIsDerived == \A r \in Regs : page[r] # None <=> r \in derived
=============================================================================
