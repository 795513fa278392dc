----------------------------- MODULE MCSymbolIndex -----------------------------
(* Object files for TLC's instances of SymbolIndex.  Functions are at 0..7, .plt at 8,
   data above 14; names are 1..4 and an entry of .plt has two bytes. *)
EXTENDS SymbolIndex

Sym(n, a) == [name |-> n, address |-> a, function |-> TRUE, defined |-> TRUE, internal |-> FALSE]
Undefined(n) == [Sym(n, 0) EXCEPT !.defined = FALSE]
Rel(k, o, a, n) == [kind |-> k, of |-> o, offset |-> a, name |-> n, internal |-> FALSE]
Ins(f, s, a, b, t) ==
  [function |-> f, section |-> s, address |-> a, size |-> 2, branch |-> b, target |-> t]

Targets == {Nowhere, 0, 2, 4, 5, 8, 10, 12, 14}

\* A linked x86-64 program: functions 2 and 3, imports 1 and 4, and a stub of no name.
Programs ==
  {[symbols |-> {Sym(2, 0), Sym(3, b), Undefined(1), Undefined(4)} \cup local,
    plt |-> plt,
    relocations |-> slots \o <<Rel("other", 3, 17, 1), Rel("metadata", 4, 1, 4)>>,
    code |-> {Ins(2, 1, 0, TRUE, t), Ins(2, 1, 2, TRUE, u), Ins(3, 1, b, TRUE, v)}] :
     b \in {4, 5}, plt \in {0, 8}, t \in Targets, u \in {Nowhere, 4, 12}, v \in {0, 10},
     local \in {{}, {[Sym(4, 2) EXCEPT !.internal = TRUE]}},
     slots \in {<<>>, <<Rel("plt", 3, 15, 1), Rel("plt", 3, 16, None)>>,
               <<Rel("plt", 3, 15, 4), Rel("plt", 3, 16, 1)>>}}

\* Object files of one code section.  A branch with a relocation has no displacement
\* yet, and seems to go to the instruction after it: for a jump at the end of function 1,
\* that is function 2.  Where that jump is none, it may be a load with a relocation.
OneSection ==
  {[symbols |-> {Sym(1, 0), Sym(2, 6), Undefined(3), Undefined(4)}, plt |-> 0,
    relocations |-> <<Rel("metadata", 4, m, 4), Rel("other", 1, r, 3), Rel("other", 1, s, 4)>>,
    code |-> {Ins(1, 1, 0, TRUE, 2), Ins(1, 1, 2, TRUE, 4),
              Ins(1, 1, 4, jump, IF jump THEN 6 ELSE Nowhere),
              Ins(2, 1, 6, TRUE, IF s = 7 THEN 8 ELSE 0)}] :
     m \in 0..7, r \in {0, 1}, s \in {2, 3, 4, 5, 7}, jump \in BOOLEAN}

Files == Programs \cup OneSection

\* The same for a machine whose .plt has two entries' worth of header, as AArch64's.
Arm64Programs == {o \in Programs : o.plt = 8}

=============================================================================
