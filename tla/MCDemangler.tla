----------------------------- MODULE MCDemangler -----------------------------
(* Names generated from what they mean: w is the mangled form, p the printed one. *)
EXTENDS Demangler

MCDecimal == [d \in {"0", "1", "2", "3", "5"} |->
    CASE d = "0" -> 0 [] d = "1" -> 1 [] d = "2" -> 2 [] d = "3" -> 3 [] OTHER -> 5]
MCDigit62 == MCDecimal @@ [c \in {"a", "x", "z"} |-> CASE c = "a" -> 10 [] c = "x" -> 33 [] OTHER -> 35]

Both(w, p) == [w |-> w, p |-> p]
Idents == {Both(<<"1", "a">>, <<"a">>), Both(<<"s", "1", "_", "2", "b", "c">>, <<"b", "c">>),
           Both(<<"2", "_", "_", "x">>, <<"_", "x">>), Both(<<"u", "1", "z">>, <<"z">>)}
Nameless == Both(<<"0">>, <<>>)

Crate(i) == Both(<<"C">> \o i.w, i.p)
Member(t, i) == Both(<<"N", "v">> \o t.w \o i.w, t.p \o (IF i.p = <<>> THEN <<>> ELSE <<"::">> \o i.p))
Generic1(t, a) == Both(<<"I">> \o t.w \o a.w \o <<"E">>, t.p \o <<"::<">> \o a.p \o <<">">>)
Generic2(t, a, b) ==
    Both(<<"I">> \o t.w \o a.w \o b.w \o <<"E">>, t.p \o <<"::<">> \o a.p \o <<", ">> \o b.p \o <<">">>)
Impl(t, a) == Both(<<"M">> \o t.w \o a.w, <<"<">> \o a.p \o <<">">>)
TraitImpl(t, a, b) == Both(<<"X">> \o t.w \o a.w \o b.w, <<"<">> \o a.p \o <<" as ">> \o b.p \o <<">">>)
TraitType(a, b) == Both(<<"Y">> \o a.w \o b.w, <<"<">> \o a.p \o <<" as ">> \o b.p \o <<">">>)

Plain == {Both(<<"h">>, <<"h">>), Both(<<"l">>, <<"l">>)}
Crates == {Crate(i) : i \in Idents}
Consts == {Both(<<"K", "p">>, <<"_">>), Both(<<"K", "l", "5", "_">>, <<"5">>), Both(<<"K", "h", "_">>, <<"_">>)}
Built(t) ==
    {Both(<<"A">> \o t.w \o <<"l", "2", "_">>, <<"[">> \o t.p \o <<"; ", "2", "]">>),
     Both(<<"S">> \o t.w, <<"[">> \o t.p \o <<"]">>), Both(<<"R">> \o t.w, <<"&">> \o t.p),
     Both(<<"R", "L", "_">> \o t.w, <<"&">> \o t.p), Both(<<"Q">> \o t.w, <<"&mut ">> \o t.p),
     Both(<<"P">> \o t.w, <<"*const ">> \o t.p), Both(<<"O">> \o t.w, <<"*mut ">> \o t.p),
     Both(<<"T", "E">>, <<"(", ")">>), Both(<<"T">> \o t.w \o <<"h", "E">>, <<"(">> \o t.p \o <<", ", "h", ")">>)}
Types == Plain \cup Crates \cup UNION {Built(t) : t \in Plain}
Args == Types \cup Consts \cup {Both(<<"L", "0", "_">>, <<"'_">>)}
A == Both(<<"C", "1", "a">>, <<"a">>)
Traits == {Member(A, Both(<<"1", "z">>, <<"z">>))}

Meant ==
    Crates \cup {Member(t, i) : t \in Crates, i \in Idents \cup {Nameless}}
    \cup {Generic1(t, a) : t \in {A} \cup Traits, a \in Args} \cup {Generic2(A, a, b) : a \in Consts, b \in Args}
    \cup {Impl(A, t) : t \in Types} \cup {TraitImpl(t, a, b) : t \in {A}, a \in Types, b \in Traits}
    \cup {TraitType(a, b) : a \in Types, b \in Traits}
    \cup {Generic1(A, a) : a \in UNION {Built(t) : t \in UNION {Built(u) : u \in Plain}}}
    \cup {Both(<<"1">> \o A.w, A.p)}

\* Back-references: to a path read before, as a type and as a parent, and to a type
Referring ==
    {Both(<<"I", "C", "1", "a", "B", "0", "_", "E">>, <<"a", "::<", "a", ">">>),
     Both(<<"X", "C", "1", "a", "h", "N", "v", "B", "0", "_", "1", "z">>, <<"<", "h", " as ", "a", "::", "z", ">">>),
     Both(<<"I", "C", "1", "a", "S", "h", "B", "3", "_", "l", "E">>,
          <<"a", "::<", "[", "h", "]", ", ", "[", "h", "]", ", ", "l", ">">>)}

V0(w, m, cut) == [kind |-> "v0", body |-> w, meaning |-> m, cut |-> cut]

\* Past the budget: a reference to itself, a long list, a deep type, a length that wraps
Endless == {V0(<<"B", "_">>, <<>>, FALSE), V0(<<"I", "B", "_", "E">>, <<>>, FALSE),
            V0(<<"I", "C", "1", "a">> \o [n \in 1..9 |-> "h"] \o <<"E">>, <<>>, FALSE),
            V0(<<"M", "C", "1", "a">> \o [n \in 1..9 |-> "S"] \o <<"h">>, <<>>, FALSE),
            \* a length that takes the position back to the start
            V0(<<"I", "C", "2", "5", "1", "h", "E">>, <<>>, FALSE)}

Legacies ==
    {[kind |-> "legacy", body |-> b \o <<"::", "h">> \o SubSeq(<<"1", "a", "a">>, 1, n) \o z, cut |-> FALSE,
      meaning |-> <<IF n >= MinHash /\ z = <<>> THEN b ELSE b \o <<"::", "h">> \o SubSeq(<<"1", "a", "a">>, 1, n) \o z>>] :
        b \in {<<"z">>, <<"h">>, <<"z", "::", "h">>, <<"z", "::", "a">>}, n \in 0..3, z \in {<<>>, <<"z">>}}

\* A constant's digits need no end: a name cut among the last of them still reads as one
EndsInConst(m) == Last(m.w) = "_"

MCNames ==
    {V0(m.w, <<m.p>>, FALSE) : m \in Meant \cup Referring}
    \cup UNION {{V0(SubSeq(m.w, 1, n), <<>>, TRUE) :
                   n \in 0..(IF EndsInConst(m) THEN Len(m.w) - 3 ELSE Len(m.w) - 1)} : m \in Meant \cup Referring}
    \cup Endless \cup Legacies
=============================================================================
