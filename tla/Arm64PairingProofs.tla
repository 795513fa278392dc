-------------------------- MODULE Arm64PairingProofs --------------------------
(***************************************************************************)
(* Proofs about Arm64Pairing: over plain code (Traits = {}), for any set   *)
(* of registers, pages and offsets and any word size, what the tracker     *)
(* believes is what the machine holds, and no pair goes unannotated.       *)
(***************************************************************************)
EXTENDS Arm64Pairing, TLAPS

\* Machine arithmetic stays within the word.
LEMMA ModuloType ==
  ASSUME NEW n \in Int
  PROVE  n % Words \in Addresses
BY PairingConstants DEF Addresses

\* None is no address, so knowing of a register and knowing its value differ.
LEMMA NoneIsNoAddress == None \notin Addresses
BY DEF None, Addresses

\* The plain instructions: X registers, no shift, no index, and nothing written
\* that is no register operand.
LEMMA PlainForm ==
  ASSUME Traits = {},
         NEW in \in Adrps \cup Adds \cup Ldrs \cup Others
  PROVE  /\ in.wide /\ ~in.lsl /\ in.index = Outside /\ in.also = {}
         /\ in.writes \subseteq Regs /\ in.base \in Operand
<1>1. ASSUME NEW id, NEW w, NEW b, NEW i, in \in Instruction(id, w, b, i),
             \A x \in w : x \subseteq Regs, b \subseteq Operand
      PROVE  /\ in.wide /\ ~in.lsl /\ in.index = Outside /\ in.also = {}
             /\ in.writes \subseteq Regs /\ in.base \in Operand
  BY <1>1 DEF Instruction
<1>2. \A x \in AtMostOne : x \subseteq Regs
  BY DEF AtMostOne
<1> QED
  BY <1>1, <1>2 DEF Adrps, Adds, Ldrs, Others, Operand

\* What a plain instruction writes, and what the tracker makes of it, agree when
\* the value they are given is the same (or the tracker is given none).
LEMMA TrackWrite ==
  ASSUME TypeOK, PagesSound, NEW in, in.wide, in.also = {},
         NEW v \in Addresses \cup {None}, NEW t \in {v, None},
         Track(in, t), Write(in, v)
  PROVE  /\ reg' \in [Regs -> Addresses]
         /\ page' \in [Regs -> Addresses \cup {None}]
         /\ PagesSound'
<1>1. reg' \in [Regs -> Addresses]
  BY DEF Write
<1>2. page' \in [Regs -> Addresses \cup {None}]
  BY DEF Track, TypeOK
<1>3. ASSUME NEW r \in Regs, page'[r] # None
      PROVE  page'[r] = reg'[r]
  <2>1. CASE r \in in.writes
    <3>1. page'[r] = t /\ t = v /\ v # None
      BY <1>3, <2>1 DEF Track, Slots
    <3> QED
      BY <2>1, <3>1 DEF Write
  <2>2. CASE r \notin in.writes
    <3>1. page'[r] = page[r] /\ reg'[r] = reg[r]
      BY <2>2 DEF Track, Slots, Write
    <3> QED
      BY <1>3, <3>1 DEF PagesSound
  <2> QED
    BY <2>1, <2>2
<1> QED
  BY <1>1, <1>2, <1>3 DEF PagesSound

Sound == TypeOK /\ PagesSound /\ TargetSound

\* Every instruction of plain code leaves the tracker sound, and its own
\* annotation right.
LEMMA SoundStep ==
  ASSUME Traits = {}, Sound, Next
  PROVE  Sound'
<1>1. CASE \E in \in Adrps : Adrp(in)
  <2>1. PICK in \in Adrps : Adrp(in)
    BY <1>1
  <2>2. /\ in.wide /\ in.also = {} /\ in.writes \subseteq Regs
        /\ in.imm \in Addresses
    BY <2>1, PlainForm, PairingConstants DEF Adrps, Instruction, Addresses
  <2>3. reg' \in [Regs -> Addresses] /\ page' \in [Regs -> Addresses \cup {None}] /\ PagesSound'
    BY <2>1, <2>2, TrackWrite DEF Adrp, Sound
  <2>4. derived' \subseteq Regs
    BY <2>1, <2>2 DEF Adrp, Derives, Sound, TypeOK
  <2> QED
    BY <2>1, <2>3, <2>4 DEF Adrp, Sound, TypeOK, TargetSound
<1>2. CASE \E in \in Adds : AddToKnown(in)
  <2>1. PICK in \in Adds : AddToKnown(in)
    BY <1>2
  <2>2. /\ in.wide /\ ~in.lsl /\ in.also = {} /\ in.writes \subseteq Regs
        /\ in.base \in Operand /\ in.imm \in Nat
    BY <2>1, PlainForm, PairingConstants DEF Adds, Instruction
  <2>3. /\ in.base \in Regs /\ reg[in.base] \in Int
        /\ page[in.base] = reg[in.base]
    BY <2>1, <2>2 DEF AddToKnown, Known, Operand, Outside, Sound, PagesSound, TypeOK, Addresses
  <2>4. AddResult(in) = (reg[in.base] + in.imm) % Words
    BY <2>2, <2>3, PairingConstants DEF AddResult, Value, Outside
  <2>5. target' = AddResult(in) /\ AddResult(in) \in Addresses
    BY <2>1, <2>2, <2>3, <2>4, ModuloType DEF AddToKnown
  <2>6. Track(in, AddResult(in)) /\ Write(in, AddResult(in))
    BY <2>1, <2>2, <2>5 DEF AddToKnown, Full
  <2>7. reg' \in [Regs -> Addresses] /\ page' \in [Regs -> Addresses \cup {None}] /\ PagesSound'
    BY <2>2, <2>5, <2>6, TrackWrite DEF Sound
  <2>8. derived' \subseteq Regs
    BY <2>1, <2>2 DEF AddToKnown, Derives, Sound, TypeOK
  <2> QED
    BY <2>1, <2>5, <2>7, <2>8 DEF AddToKnown, Sound, TypeOK, TargetSound
<1>3. CASE \E in \in Adds : AddToUnknown(in)
  <2>1. PICK in \in Adds : AddToUnknown(in)
    BY <1>3
  <2>2. /\ in.wide /\ ~in.lsl /\ in.also = {} /\ in.writes \subseteq Regs
        /\ in.base \in Operand /\ in.imm \in Nat
    BY <2>1, PlainForm, PairingConstants DEF Adds, Instruction
  <2>3. Value(in.base) \in Int
    BY <2>2 DEF Value, Operand, Sound, TypeOK, Addresses
  <2>4. AddResult(in) \in Addresses
    BY <2>2, <2>3, ModuloType DEF AddResult
  <2>5. Track(in, None) /\ Write(in, AddResult(in))
    BY <2>1, <2>2 DEF AddToUnknown, Full
  <2>6. reg' \in [Regs -> Addresses] /\ page' \in [Regs -> Addresses \cup {None}] /\ PagesSound'
    BY <2>2, <2>4, <2>5, TrackWrite DEF Sound
  <2>7. derived' \subseteq Regs
    BY <2>1, <2>2 DEF AddToUnknown, Derives, Sound, TypeOK
  <2> QED
    BY <2>1, <2>2, <2>4, <2>6, <2>7 DEF AddToUnknown, Sound, TypeOK, TargetSound
<1>4. CASE \E in \in Ldrs : Ldr(in)
  <2>1. PICK in \in Ldrs : Ldr(in)
    BY <1>4
  <2>2. /\ in.wide /\ in.also = {} /\ in.writes \subseteq Regs /\ in.index = Outside
        /\ in.base \in Operand /\ in.imm \in Nat
    BY <2>1, PlainForm, PairingConstants DEF Ldrs, Instruction
  <2>3. Value(in.base) \in Int /\ LoadAddress(in) = (Value(in.base) + in.imm) % Words
    BY <2>2 DEF Value, LoadAddress, Operand, Sound, TypeOK, Addresses
  <2>4. LoadAddress(in) \in Addresses
    BY <2>2, <2>3, ModuloType
  <2>5. target' # None => target' = LoadAddress(in)
    <3> SUFFICES ASSUME Known(in.base)
                 PROVE  target' = LoadAddress(in)
      BY <2>1 DEF Ldr
    <3>1. in.base \in Regs /\ page[in.base] = reg[in.base]
      BY <2>2 DEF Known, Operand, Sound, PagesSound
    <3> QED
      BY <2>1, <2>3, <3>1 DEF Ldr, Value, Known
  <2>6. target' \in Addresses \cup {None}
    BY <2>1, <2>4, <2>5 DEF Ldr
  <2>7. reg' \in [Regs -> Addresses] /\ page' \in [Regs -> Addresses \cup {None}] /\ PagesSound'
    BY <2>1, <2>2, TrackWrite DEF Ldr, Sound
  <2> QED
    BY <2>1, <2>4, <2>5, <2>6, <2>7 DEF Ldr, Sound, TypeOK, TargetSound
<1>5. CASE \E in \in Others : Other(in)
  <2>1. PICK in \in Others : Other(in)
    BY <1>5
  <2>2. in.wide /\ in.also = {} /\ in.writes \subseteq Regs
    BY <2>1, PlainForm
  <2>3. reg' \in [Regs -> Addresses] /\ page' \in [Regs -> Addresses \cup {None}] /\ PagesSound'
    BY <2>1, <2>2, TrackWrite DEF Other, Sound
  <2> QED
    BY <2>1, <2>3 DEF Other, Sound, TypeOK, TargetSound
<1> QED
  BY <1>1, <1>2, <1>3, <1>4, <1>5 DEF Next

\* Over plain code, whatever update_arm64_pairing believes of a register is what
\* the register holds, and the address it annotates is the one formed.
THEOREM PlainCodeSound ==
  ASSUME Traits = {}
  PROVE  Spec => [](PagesSound /\ TargetSound)
<1>1. Init => Sound
  BY DEF Init, Sound, TypeOK, PagesSound, TargetSound
<1>2. Sound /\ [Next]_vars => Sound'
  <2> SUFFICES ASSUME Sound, [Next]_vars PROVE Sound'
    OBVIOUS
  <2>1. CASE UNCHANGED vars
    BY <2>1 DEF Sound, TypeOK, PagesSound, TargetSound, vars
  <2> QED
    BY <2>1, SoundStep
<1>3. Sound => PagesSound /\ TargetSound
  BY DEF Sound
<1> QED
  BY <1>1, <1>2, <1>3, PTL DEF Spec

\* Every address an instruction of plain code is annotated with is the one it forms.
THEOREM AnnotationsRight ==
  ASSUME Traits = {}
  PROVE  Spec => []TargetSound
<1>1. Spec => [](PagesSound /\ TargetSound)
  BY PlainCodeSound
<1> QED
  BY <1>1, PTL

-----------------------------------------------------------------------------
(* Completeness.                                                           *)

Recovering == Sound /\ TrackedIsDerived /\ PairsRecovered

\* Tracking a value v in the written slots keeps TrackedIsDerived if derived
\* gains them when v is a value, and loses them when it is None.
LEMMA TrackDerived ==
  ASSUME TypeOK, TrackedIsDerived, NEW in, in.wide, in.writes \subseteq Regs,
         NEW v \in Addresses \cup {None}, Track(in, v),
         derived' = IF v = None THEN derived \ in.writes ELSE derived \cup in.writes
  PROVE  TrackedIsDerived'
<1> SUFFICES ASSUME NEW r \in Regs
             PROVE  page'[r] # None <=> r \in derived'
  BY DEF TrackedIsDerived
<1>1. page'[r] = IF r \in in.writes THEN v ELSE page[r]
  BY DEF Track, Slots
<1>2. page[r] # None <=> r \in derived
  BY DEF TrackedIsDerived
<1> QED
  BY <1>1, <1>2

\* Every instruction of plain code keeps tracked and derived the same, and
\* annotates the pair it completes.
LEMMA RecoveringStep ==
  ASSUME Traits = {}, Recovering, Next
  PROVE  Recovering'
<1>0. Sound'
  BY SoundStep DEF Recovering
<1>1. CASE \E in \in Adrps : Adrp(in)
  <2>1. PICK in \in Adrps : Adrp(in)
    BY <1>1
  <2>2. in.wide /\ in.writes \subseteq Regs /\ in.imm \in Addresses /\ in.id = "adrp"
    BY <2>1, PlainForm, PairingConstants DEF Adrps, Instruction, Addresses
  <2>3. derived' = derived \cup in.writes /\ in.imm # None
    BY <2>1, <2>2, NoneIsNoAddress DEF Adrp, Derives
  <2>4. TrackedIsDerived'
    BY <2>1, <2>2, <2>3, TrackDerived DEF Adrp, Recovering, Sound
  <2> QED
    BY <1>0, <2>1, <2>4 DEF Adrp, Recovering, PairsRecovered
<1>2. CASE \E in \in Adds : AddToKnown(in)
  <2>1. PICK in \in Adds : AddToKnown(in)
    BY <1>2
  <2>2. /\ in.wide /\ in.writes \subseteq Regs /\ in.imm \in Nat
        /\ in.base \in Regs /\ page[in.base] \in Addresses
    BY <2>1, PlainForm, PairingConstants
    DEF Adds, Instruction, AddToKnown, Known, Operand, Outside, Recovering, Sound, TypeOK
  <2>3. target' \in Addresses /\ target' # None
    <3>1. page[in.base] + in.imm \in Int
      BY <2>2 DEF Addresses
    <3> QED
      BY <2>1, <3>1, ModuloType, NoneIsNoAddress DEF AddToKnown
  <2>4. derived' = derived \cup in.writes
    BY <2>1, <2>2, NoneIsNoAddress DEF AddToKnown, Derives, Recovering, TrackedIsDerived
  <2>5. Track(in, target')
    BY <2>1 DEF AddToKnown
  <2>6. TrackedIsDerived'
    <3>1. PICK v \in Addresses : v = target'
      BY <2>3
    <3> QED
      BY <2>2, <2>3, <2>4, <2>5, <3>1, TrackDerived DEF Recovering, Sound
  <2> QED
    BY <1>0, <2>3, <2>6 DEF Recovering, PairsRecovered
<1>3. CASE \E in \in Adds : AddToUnknown(in)
  <2>1. PICK in \in Adds : AddToUnknown(in)
    BY <1>3
  <2>2. in.wide /\ in.writes \subseteq Regs /\ in.base \in Operand /\ in.id = "add"
    BY <2>1, PlainForm DEF Adds, Instruction
  <2>3. in.base \notin derived
    BY <2>1, <2>2, PairingConstants
    DEF AddToUnknown, Known, Operand, Outside, Recovering, Sound, TypeOK, TrackedIsDerived
  <2>4. derived' = derived \ in.writes /\ ~paired'
    BY <2>1, <2>2, <2>3 DEF AddToUnknown, Derives
  <2>5. TrackedIsDerived'
    BY <2>1, <2>2, <2>4, TrackDerived DEF AddToUnknown, Recovering, Sound
  <2> QED
    BY <1>0, <2>4, <2>5 DEF Recovering, PairsRecovered
<1>4. CASE \E in \in Ldrs : Ldr(in)
  <2>1. PICK in \in Ldrs : Ldr(in)
    BY <1>4
  <2>2. in.wide /\ in.also = {} /\ in.writes \subseteq Regs /\ in.base \in Operand /\ in.imm \in Nat
    BY <2>1, PlainForm, PairingConstants DEF Ldrs, Instruction
  <2>3. derived' = derived \ in.writes
    BY <2>1, <2>2 DEF Ldr
  <2>4. TrackedIsDerived'
    BY <2>1, <2>2, <2>3, TrackDerived DEF Ldr, Recovering, Sound
  <2>5. paired' => target' # None
    <3> SUFFICES ASSUME in.base \in derived PROVE target' # None
      BY <2>1 DEF Ldr
    <3>1. in.base \in Regs /\ page[in.base] \in Addresses /\ Known(in.base)
      BY <2>2, PairingConstants DEF Recovering, Sound, TypeOK, TrackedIsDerived, Known, Outside
    <3>2. page[in.base] + in.imm \in Int
      BY <2>2, <3>1 DEF Addresses
    <3> QED
      BY <2>1, <3>1, <3>2, ModuloType, NoneIsNoAddress DEF Ldr
  <2> QED
    BY <1>0, <2>4, <2>5 DEF Recovering, PairsRecovered
<1>5. CASE \E in \in Others : Other(in)
  <2>1. PICK in \in Others : Other(in)
    BY <1>5
  <2>2. in.wide /\ in.also = {} /\ in.writes \subseteq Regs
    BY <2>1, PlainForm
  <2>3. TrackedIsDerived'
    BY <2>1, <2>2, TrackDerived DEF Other, Recovering, Sound
  <2> QED
    BY <1>0, <2>1, <2>3 DEF Other, Recovering, PairsRecovered
<1> QED
  BY <1>1, <1>2, <1>3, <1>4, <1>5 DEF Next

\* Over plain code, an ADD or LDR of a register that ADRP began is annotated,
\* however many instructions lie between the two.
THEOREM NoPairMissed ==
  ASSUME Traits = {}
  PROVE  Spec => []PairsRecovered
<1>1. Init => Recovering
  BY DEF Init, Recovering, Sound, TypeOK, PagesSound, TargetSound, TrackedIsDerived, PairsRecovered
<1>2. Recovering /\ [Next]_vars => Recovering'
  <2> SUFFICES ASSUME Recovering, [Next]_vars PROVE Recovering'
    OBVIOUS
  <2>1. CASE UNCHANGED vars
    BY <2>1 DEF Recovering, Sound, TypeOK, PagesSound, TargetSound, TrackedIsDerived,
                PairsRecovered, vars
  <2> QED
    BY <2>1, RecoveringStep
<1>3. Recovering => PairsRecovered
  BY DEF Recovering
<1> QED
  BY <1>1, <1>2, <1>3, PTL DEF Spec
=============================================================================
