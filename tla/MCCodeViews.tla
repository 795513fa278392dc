------------------------------ MODULE MCCodeViews ------------------------------
(* Section tables and code for TLC's instances of CodeViews: a file of eight bytes
   and addresses of four bits. *)
EXTENDS CodeViews

Sect(a, o, n, x, b) == [address |-> a, offset |-> o, size |-> n, executable |-> x, nobits |-> b]

\* A linked program: the null section; two sections that are loaded, at 3 and after it; a
\* third one without bytes, in the middle of the file or past its end, or one whose bytes
\* went with the debug information; and a symbol table, which has no address and covers 0..4.
Linked ==
  {<<Sect(0, 0, 0, FALSE, FALSE), Sect(3, 0, m, x, FALSE), Sect(b, 4, n, y, FALSE), last,
     Sect(0, 2, 5, FALSE, FALSE)>> :
     m \in {2, 4}, b \in {7, 9}, n \in {1, 4}, x, y \in BOOLEAN,
     last \in {Sect(13, 5, 2, FALSE, TRUE), Sect(13, 7, 2, FALSE, TRUE), Sect(13, 9, 2, TRUE, TRUE)}}

\* An object file: every section begins at address 0.
Relocatable ==
  {<<Sect(0, 0, m, x, FALSE), Sect(0, 4, n, TRUE, FALSE)>> :
     m \in {2, 4}, n \in {2, 4}, x \in BOOLEAN}

\* Instructions of one byte, of two, and of both, with a terminal one somewhere.
Whole ==
  {[p \in Positions |-> [size |-> n, terminal |-> p \in ends]] :
     n \in {1, 2}, ends \in {{}, {1, 6}, {2}}}
  \cup {[p \in Positions |-> [size |-> IF p \in {1, 4, 5} THEN 2 ELSE 1, terminal |-> p = 3]]}

\* Data between the instructions, that the decoder does not know.
WithData ==
  Whole \cup {[c EXCEPT ![p].size = 0] : c \in Whole, p \in {4, 6}}
=============================================================================
