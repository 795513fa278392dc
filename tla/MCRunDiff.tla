------------------------------ MODULE MCRunDiff ------------------------------
(* All pairs of bodies up to one line longer than what is aligned. *)
EXTENDS RunDiff

MCTexts == {<<"a">>, <<"b">>}

Bodies == UNION {[1..n -> {"a", "b"}] : n \in 0..MaxLines + 1}
Asked(t) == [name |-> 1, raw |-> 2, text |-> t]
MCSymbolFiles ==
    {<<>>} \cup {<<Asked(t)>> : t \in Bodies}
    \cup {<<[name |-> 3, raw |-> 4, text |-> <<"c">>], [name |-> 2, raw |-> 1, text |-> <<"a", "c", "b">>]>>}
=============================================================================
