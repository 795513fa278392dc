------------------------------ MODULE Demangler ------------------------------
(***************************************************************************)
(* resolver::demangle.  A name that starts with _R goes through            *)
(* RustV0Demangler, a recursive descent over RFC 2603 names: its calls are *)
(* the items of a stack here, one step per call, so that its budget of     *)
(* steps and depth and its back-references can be watched.  Other names    *)
(* come from the C++ library (external) and lose a Rust hash.  Text is a   *)
(* sequence of characters; what is printed is the sequence out.            *)
(***************************************************************************)
EXTENDS Naturals, Sequences, FiniteSetsExt, SequencesExt

CONSTANTS Words,               \* 2^64: numbers are read modulo it
          MaxSteps, MaxDepth,  \* 20000 and 256
          MinHash,             \* 16 digits at least make a legacy hash
          Decimal, Digit62,    \* the value of each digit, and of each base-62 digit
          Hex,                 \* hexadecimal digits
          Basic,               \* letters of basic types
          Mangled              \* the names given to demangle: [kind, body, ...]

ASSUME BudgetAssumption == MaxSteps \in Nat /\ MaxDepth \in Nat

VARIABLES name,    \* the argument
          pos,     \* position in the body of the name, from 1
          stack,   \* what is still to be parsed or printed, the innermost call first
          out, steps, depth,
          status   \* "running", then "printed" or "failed"

demangleVars == <<name, pos, stack, out, steps, depth, status>>

body == name.body
peek(p) == IF p <= Len(body) THEN body[p] ELSE "end"

\* Where the run of characters from p that lie in S ends
run_end(p, S) == IF p > Len(body) THEN p
                 ELSE Min({q \in p..Len(body) + 1 : q = Len(body) + 1 \/ body[q] \notin S})

number(p, q, base, digit) ==
    FoldLeft(LAMBDA v, c : (v * base + digit[c]) % Words, 0, SubSeq(body, p, q - 1))

\* parse_base62: the position after it and its value; <<>> when it is not ended by "_"
base62(p) ==
    LET q == run_end(p, DOMAIN Digit62)
    IN  IF peek(q) # "_" THEN <<>>
        ELSE <<q + 1, IF q = p THEN 0 ELSE number(p, q, 62, Digit62) + 1>>

\* parse_identifier: an optional disambiguator, an optional u, a length, an optional "_", and
\* the characters; the position after them and the characters, <<>> when they are not there
identifier(p) ==
    LET afterS == IF peek(p) = "s" THEN base62(p + 1) ELSE <<p>>
        d == IF peek(afterS[1]) = "u" THEN afterS[1] + 1 ELSE afterS[1]
        q == run_end(d, DOMAIN Decimal)
        start == IF peek(q) = "_" THEN q + 1 ELSE q
        length == number(d, q, 10, Decimal)
        end == ((start - 1 + length) % Words) + 1    \* before start when the sum wraps
    IN  IF afterS = <<>> \/ q = d \/ end > Len(body) + 1
        THEN <<>> ELSE <<end, SubSeq(body, start, Min({start + length - 1, Len(body)}))>>

\* skip_optional_decimal at the start of run()
start_pos == IF peek(1) \in DOMAIN Decimal \ {"0"} THEN run_end(1, DOMAIN Decimal) ELSE 1

DemangleInit ==
    /\ name \in Mangled /\ stack = <<<<"path">>>> /\ out = <<>> /\ steps = 0 /\ depth = 0
    /\ pos = start_pos /\ status = "running"

Top(item) == status = "running" /\ name.kind = "v0" /\ stack # <<>> /\ Head(stack)[1] = item
Become(items) == stack' = items \o Tail(stack)
Fail == status' = "failed" /\ UNCHANGED <<name, pos, stack, out, depth>>

StepsOnly == steps < MaxSteps     \* mutant: depth is not looked at

\* budget() lets a call through
within_budget == steps < MaxSteps /\ depth <= MaxDepth

path == <<"path">>
type == <<"type">>
emit(s) == <<"emit", s>>
drop == <<"drop", Len(out)>>     \* what is parsed from here on is not printed
back(p) == <<"back", p>>
leave == <<"leave">>

\* The parts of a path with this tag, its position being after the tag
path_parts(tag) ==
    CASE tag = "C" -> <<<<"ident">>>>
      [] tag = "N" -> <<path, <<"member">>>>
      [] tag = "I" -> <<path, emit("::<"), <<"args", TRUE>>>>
      [] tag = "M" -> <<path, drop, emit("<"), type, emit(">")>>
      [] tag = "X" -> <<path, drop, emit("<"), type, emit(" as "), path, emit(">")>>
      [] tag = "Y" -> <<emit("<"), type, emit(" as "), path, emit(">")>>

PathTags == {"C", "N", "I", "M", "X", "Y"}

\* A back-reference reads its target, then goes on behind itself
target(ref) == ref[2] + 1
refers(ref) == ref # <<>> /\ ref[2] < Len(body)

StayBehind(ref, item) == pos' = target(ref) /\ Become(<<item, leave>>)   \* mutant: no way back

follow(ref, item) == pos' = target(ref) /\ Become(<<item, back(ref[1]), leave>>)

parse_path ==
    /\ Top("path") /\ steps' = steps + 1
    /\ LET tag == peek(pos)
       IN  IF ~within_budget \/ tag \notin PathTags \cup {"B"} \/ (tag = "B" /\ ~refers(base62(pos + 1)))
           THEN Fail
           ELSE /\ depth' = depth + 1
                /\ IF tag = "B" THEN follow(base62(pos + 1), path)
                   ELSE /\ pos' = pos + (IF tag = "N" THEN 2 ELSE 1)
                        /\ Become(path_parts(tag) \o <<leave>>)
                /\ UNCHANGED <<name, out, status>>

\* "C" prints its identifier, "N" its identifier behind "::" if there is one
parse_identifier ==
    /\ Top("ident") \/ Top("member")
    /\ steps' = steps + 1
    /\ LET id == identifier(pos)
       IN  IF ~within_budget \/ id = <<>> THEN Fail
           ELSE /\ pos' = id[1]
                /\ out' = out \o (IF Head(stack) = <<"member">> /\ id[2] # <<>>
                                  THEN <<"::">> \o id[2] ELSE id[2])
                /\ Become(<<>>) /\ UNCHANGED <<name, depth, status>>

type_parts(tag) ==
    CASE tag \in Basic -> <<emit(tag)>>
      [] tag = "A" -> <<emit("["), type, emit("; "), <<"const">>, emit("]")>>
      [] tag = "S" -> <<emit("["), type, emit("]")>>
      [] tag = "R" -> <<emit("&"), type>>
      [] tag = "Q" -> <<emit("&mut "), type>>
      [] tag = "P" -> <<emit("*const "), type>>
      [] tag = "O" -> <<emit("*mut "), type>>
      [] tag = "T" -> <<emit("("), <<"tuple", TRUE>>>>
      [] tag \in PathTags -> <<path>>

TypeTags == Basic \cup {"A", "S", "R", "Q", "P", "O", "T"} \cup PathTags

\* The position after the tag of a type; a reference may carry a lifetime, which may be broken
after_tag(tag) ==
    IF tag \in PathTags THEN <<pos>>
    ELSE IF tag \in {"R", "Q"} /\ peek(pos + 1) = "L" THEN base62(pos + 2)
    ELSE <<pos + 1>>

parse_type ==
    /\ Top("type") /\ steps' = steps + 1
    /\ LET tag == peek(pos)
       IN  IF \/ ~within_budget \/ tag \notin TypeTags \cup {"B"}
              \/ tag = "B" /\ ~refers(base62(pos + 1))
              \/ tag # "B" /\ after_tag(tag) = <<>>
           THEN Fail
           ELSE /\ depth' = depth + 1
                /\ IF tag = "B" THEN follow(base62(pos + 1), type)
                   ELSE pos' = after_tag(tag)[1] /\ Become(type_parts(tag) \o <<leave>>)
                /\ UNCHANGED <<name, out, status>>

EndOrNothing(tag) == tag \in {"E", "end"}   \* mutant: a list may end with the name

list_ends(tag) == tag = "E"

\* One turn of the loops over generic arguments and over the elements of a tuple, up to "E"
parse_list ==
    /\ Top("args") \/ Top("tuple")
    /\ LET generic == Head(stack)[1] = "args"
           tag == peek(pos)
           element == CASE ~generic -> type
                        [] generic /\ tag = "L" -> <<"lifetime">>
                        [] generic /\ tag = "K" -> <<"const">>
                        [] OTHER -> type
       IN  IF list_ends(tag)
           THEN /\ pos' = pos + 1 /\ Become(<<emit(IF generic THEN ">" ELSE ")")>>)
                /\ UNCHANGED <<name, out, steps, depth, status>>
           ELSE IF tag = "end" THEN Fail /\ steps' = steps
           ELSE /\ steps' = steps + 1
                /\ IF ~within_budget THEN Fail
                   ELSE /\ out' = IF Head(stack)[2] THEN out ELSE Append(out, ", ")
                        /\ pos' = IF generic /\ tag \in {"L", "K"} THEN pos + 1 ELSE pos
                        /\ Become(<<element, <<Head(stack)[1], FALSE>>>>)
                        /\ UNCHANGED <<name, depth, status>>

parse_lifetime ==
    /\ Top("lifetime") /\ steps' = steps
    /\ IF base62(pos) = <<>> THEN Fail
       ELSE /\ pos' = base62(pos)[1] /\ out' = Append(out, "'_")
            /\ Become(<<>>) /\ UNCHANGED <<name, depth, status>>

\* A placeholder, or a type that is not printed and the digits of a value
parse_const ==
    /\ Top("const")
    /\ IF peek(pos) = "p"
       THEN pos' = pos + 1 /\ out' = Append(out, "_") /\ Become(<<>>)
       ELSE UNCHANGED <<pos, out>> /\ Become(<<type, drop, <<"value">>>>)
    /\ UNCHANGED <<name, steps, depth, status>>

parse_value ==
    /\ Top("value")
    /\ LET p == IF peek(pos) = "n" THEN pos + 1 ELSE pos
           q == run_end(p, ToSet(body) \ {"_"})
       IN  /\ pos' = IF peek(q) = "_" THEN q + 1 ELSE q
           /\ out' = out \o (IF q = p THEN <<"_">> ELSE SubSeq(body, p, q - 1))
    /\ Become(<<>>) /\ UNCHANGED <<name, steps, depth, status>>

\* What happens between and after the calls
after_call ==
    /\ \E item \in {"emit", "drop", "back", "leave"} : Top(item)
    /\ LET op == Head(stack)[1]
       IN  /\ out' = CASE op = "emit" -> Append(out, Head(stack)[2])
                       [] op = "drop" -> SubSeq(out, 1, Head(stack)[2])
                       [] OTHER -> out
           /\ pos' = IF op = "back" THEN Head(stack)[2] ELSE pos
           /\ depth' = IF op = "leave" THEN depth - 1 ELSE depth
    /\ Become(<<>>) /\ UNCHANGED <<name, steps, status>>

\* run() returns; what follows the path is not looked at
Printed ==
    /\ status = "running" /\ name.kind = "v0" /\ stack = <<>>
    /\ status' = "printed" /\ UNCHANGED <<name, pos, stack, out, steps, depth>>

\* strip_rust_legacy_hash of a name the C++ library demangled: "::" is one character here
LastHash(s) == Max({i \in 1..Len(s) : s[i] = "::" /\ i < Len(s) /\ s[i + 1] = "h"} \cup {0})
strip_rust_legacy_hash(s) ==
    LET i == LastHash(s)
    IN  IF i > 0 /\ Len(s) >= i + 1 + MinHash /\ \A j \in i + 2..Len(s) : s[j] \in Hex
        THEN SubSeq(s, 1, i - 1) ELSE s

\* demangle of a name without _R: __cxa_demangle gives the body, or nothing for a plain name
Legacy ==
    /\ status = "running" /\ name.kind = "legacy"
    /\ out' = strip_rust_legacy_hash(body) /\ status' = "printed"
    /\ UNCHANGED <<name, pos, stack, steps, depth>>

Done == status # "running" /\ UNCHANGED demangleVars

DemangleNext ==
    \/ parse_path \/ parse_identifier \/ parse_type \/ parse_list \/ parse_lifetime
    \/ parse_const \/ parse_value \/ after_call \/ Printed \/ Legacy \/ Done

DemangleSpec == DemangleInit /\ [][DemangleNext]_demangleVars

-----------------------------------------------------------------------------
(* A name that was mangled is printed as what it was mangled from: for every name whose meaning
   is known the demangler ends with exactly that text, through generic arguments, parts that
   are parsed and not printed, and back-references (resolver.cpp:489-936). *)
MeaningPrinted ==
    name.meaning # <<>> /\ status # "running" => status = "printed" /\ out = name.meaning[1]

(* A name that was cut short is not taken for another one: it is shown as it is. *)
CutShortRefused == name.cut => status # "printed"

(* Whatever a name refers back to, the work on it is bounded: neither the steps nor the depth of
   the recursion go past the budget (resolver.cpp:506-512). *)
WithinBudget == steps <= MaxSteps + 1 /\ depth <= MaxDepth + 1
=============================================================================
