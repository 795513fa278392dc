------------------------------ MODULE ByteImage ------------------------------
(***************************************************************************)
(* What the three readers of object files share: the image, the bounds     *)
(* checks every read goes through, and the object they build.  Bytes are   *)
(* not modelled: a field of the file is a value chosen when it is first    *)
(* read, and what was chosen is kept where the file would give it again.   *)
(* Words is 2^64, Half 2^32 and Short 2^16.                                *)
(***************************************************************************)
EXTENDS Naturals, Sequences, SequencesExt

CONSTANTS Words, Half, Short,
          Outside      \* an offset outside its table, or a string not ended in it

ASSUME WidthsAssumption == /\ Words \in Nat /\ Half \in Nat /\ Short \in Nat \ {0, 1}
                           /\ Short < Half /\ Half * Short <= Words

VARIABLES pc,        \* the stage of the reader; "done" and "refused" are its ends
          image,     \* size of the image: bytes.size()
          object,    \* the binary::Object under construction
          wild       \* a read nobody checked failed (Result::value() of an error)

common == <<pc, image, object, wild>>

NoObject == [sections |-> <<>>, segments |-> <<>>, symbols |-> <<>>, relocations |-> <<>>,
             libraries |-> <<>>, stripped |-> FALSE]

WrappingAdd(a, b) == TRUE    \* mutant: the sum is taken as it comes

checked_add(a, b) == a <= Words - 1 - b

range_within(offset, size) == checked_add(offset, size) /\ (offset + size) % Words <= image

\* A field that the Reader gives: its bytes are in the file, or the read is an error
readable(offset, size) == range_within(offset, size)

\* BinaryFile::section_bytes of the three adapters: <<>> stands for no bytes, else the range given
section_bytes(section) ==
    IF section.offset > image \/ section.size > image - section.offset
    THEN <<>> ELSE <<section.offset, section.size>>

Refuse == pc' = "refused" /\ UNCHANGED <<image, object, wild>>
=============================================================================
