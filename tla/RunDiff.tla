------------------------------- MODULE RunDiff -------------------------------
(***************************************************************************)
(* run_diff (cli.cpp): the other file is loaded, then the two files are    *)
(* compared function by function (FunctionDiff), or, when a symbol is      *)
(* given, the two bodies of that symbol line by line along a longest       *)
(* common subsequence.  A body is the sequence of its lines.               *)
(***************************************************************************)
EXTENDS FunctionDiff

CONSTANTS Requests,     \* the symbols asked for
          SymbolFiles,  \* files in which they are looked up: functions with their raw names
          MaxLines      \* 4000: longer bodies are not aligned

All == 0   \* no symbol is given

ASSUME RequestsAssumption ==
    /\ MaxLines \in Nat /\ Requests \subseteq Nat \ {All}
    /\ \A file \in SymbolFiles :
         /\ DOMAIN file \subseteq Nat \ {0}
         /\ \A i \in DOMAIN file : file[i].text \in Seq(Range(file[i].text))

VARIABLES request,  \* args.symbol, or All
          sides,    \* old_lines and new_lines
          dp,       \* dp[i, j]: common lines of what follows the first i and j lines
          at,       \* <<i, j>> of the walk
          body      \* the lines of the report with their marks

symbolVars == <<request, sides, dp, at, body>>

RunInit ==
    /\ request \in Requests \cup {All}
    /\ IF request = All THEN old \in Files /\ new \in Files
       ELSE old \in SymbolFiles /\ new \in SymbolFiles
    /\ pc = "load" /\ added = <<>> /\ removed = <<>>
    /\ changed = {} /\ renamed = {} /\ unchanged = {} /\ next = 1
    /\ sides = [old |-> <<>>, new |-> <<>>] /\ dp = <<>> /\ at = <<0, 0>> /\ body = <<>>

\* The other file is read, or its error is reported
LoadOther ==
    /\ pc = "load"
    /\ pc' \in {"failed", IF request = All THEN "compare" ELSE "find"}
    /\ UNCHANGED <<old, new, added, removed, changed, renamed, unchanged, next, symbolVars>>

\* find_body: the first function with that name or raw name, 0 when there is none
find_body(file) ==
    LET hits == {i \in DOMAIN file : request \in {file[i].name, file[i].raw}}
    IN  IF hits = {} THEN 0 ELSE Min(hits)

to_lines(file) == LET f == find_body(file) IN IF f = 0 THEN <<>> ELSE file[f].text

\* The table filled from its end
lcs_table(a, b) ==
    LET cell[p \in (0..Len(a)) \X (0..Len(b))] ==
            IF p[1] = Len(a) \/ p[2] = Len(b) THEN 0
            ELSE IF a[p[1] + 1] = b[p[2] + 1] THEN cell[<<p[1] + 1, p[2] + 1>>] + 1
            ELSE LET x == cell[<<p[1] + 1, p[2]>>]
                     y == cell[<<p[1], p[2] + 1>>]
                 IN  IF x >= y THEN x ELSE y
    IN  cell

Blank == " "   \* the mark of a line of both bodies

Marked(mark, lines) == [n \in DOMAIN lines |-> <<mark, lines[n]>>]

\* Both bodies are found, or one, and aligned unless one is too long
FindBodies ==
    /\ pc = "find"
    /\ sides' = [old |-> to_lines(old), new |-> to_lines(new)]
    /\ IF find_body(old) = 0 /\ find_body(new) = 0
       THEN pc' = "missing" /\ UNCHANGED <<dp, body>>
       ELSE IF Len(sides'.old) > MaxLines \/ Len(sides'.new) > MaxLines
       THEN pc' = "shown" /\ body' = Marked("-", sides'.old) \o Marked("+", sides'.new) /\ dp' = dp
       ELSE pc' = "walk" /\ dp' = lcs_table(sides'.old, sides'.new) /\ body' = body
    /\ UNCHANGED <<old, new, added, removed, changed, renamed, unchanged, next, request, at>>

NewestFirst(i, j) == dp[<<i + 1, j>>] <= dp[<<i, j + 1>>]   \* mutant: the shorter rest is followed

\* The old line goes when as much is in common without it
old_goes(i, j) == dp[<<i + 1, j>>] >= dp[<<i, j + 1>>]

\* One turn of the walk through the table
Walk ==
    /\ pc = "walk" /\ at[1] < Len(sides.old) /\ at[2] < Len(sides.new)
    /\ LET i == at[1]
           j == at[2]
           a == sides.old[i + 1]
           b == sides.new[j + 1]
       IN  IF a = b THEN at' = <<i + 1, j + 1>> /\ body' = Append(body, <<Blank, a>>)
           ELSE IF old_goes(i, j) THEN at' = <<i + 1, j>> /\ body' = Append(body, <<"-", a>>)
           ELSE at' = <<i, j + 1>> /\ body' = Append(body, <<"+", b>>)
    /\ UNCHANGED <<old, new, pc, added, removed, changed, renamed, unchanged, next, request, sides, dp>>

\* What is left of either side
WalkRest ==
    /\ pc = "walk" /\ (at[1] = Len(sides.old) \/ at[2] = Len(sides.new))
    /\ body' = body \o Marked("-", SubSeq(sides.old, at[1] + 1, Len(sides.old)))
                    \o Marked("+", SubSeq(sides.new, at[2] + 1, Len(sides.new)))
    /\ pc' = "shown"
    /\ UNCHANGED <<old, new, added, removed, changed, renamed, unchanged, next, request, sides, dp, at>>

RunNext == \/ LoadOther \/ FindBodies \/ Walk \/ WalkRest
           \/ (Compare \/ Pair \/ PairNone \/ Report) /\ UNCHANGED symbolVars

RunSpec == RunInit /\ [][RunNext]_<<vars, symbolVars>>

-----------------------------------------------------------------------------
\* The lines of s at these places, in order
Nth(places, n) == CHOOSE p \in places : Cardinality({q \in places : q <= p}) = n
Picked(s, places) == [n \in 1..Cardinality(places) |-> s[Nth(places, n)]]

\* The report without the lines of one mark
Without(mark) == Picked([n \in DOMAIN body |-> body[n][2]], {n \in DOMAIN body : body[n][1] # mark})
Kept == Cardinality({n \in DOMAIN body : body[n][1] = Blank})

(* The report of one symbol is a difference of its two bodies: without what was added it reads
   as the old one, without what was removed as the new one, and of two bodies that are aligned
   no larger part could have been kept in common (cli.cpp:1190-1229). *)
DiffShortest ==
    pc = "shown" =>
        /\ Without("+") = sides.old /\ Without("-") = sides.new
        /\ Len(sides.old) <= MaxLines /\ Len(sides.new) <= MaxLines =>
               \A s \in SUBSET (DOMAIN sides.old), t \in SUBSET (DOMAIN sides.new) :
                   Cardinality(s) = Kept + 1 /\ Cardinality(t) = Kept + 1 =>
                       Picked(sides.old, s) # Picked(sides.new, t)
=============================================================================
