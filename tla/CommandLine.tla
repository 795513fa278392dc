------------------------------ MODULE CommandLine ------------------------------
(***************************************************************************)
(* From a command line to what roe is going to do: parse_args reads the     *)
(* words one at a time, checks what they amount to and selects one action,  *)
(* and format_options combines the arguments with the environment, the      *)
(* terminal and the configuration file.  A word is one string; of the words *)
(* that are no options it only matters which values they can be.            *)
(***************************************************************************)
EXTENDS Naturals, Sequences, FiniteSets, Functions

CONSTANTS
  Words,    \* the words a command line is made of
  Lines,    \* the command lines
  Names,    \* section names: they begin with a dot or an underscore
  Paths,    \* other words that begin with a dot, as ./a.out does
  Numbers, Ranges, Architectures  \* words that are a number, a range, an --arch

Switches ==
  {"--no-pager", "--json", "--show-bytes", "--source", "--watch", "--stats", "--all",
   "--headers", "--sections", "--segments", "--imports", "--exports", "--strings",
   "--raw-bytes", "--hex-input", "--quiet", "--verbose"}

\* --addr, --bytes, --base and --min-len take a number.
Measures == {"--addr", "--bytes", "--base", "--min-len"}
Valued == Measures \cup {"--section", "--grep", "--calls", "--contains", "--xref",
                         "--diff", "--find", "--arch", "--range"}
Unknown == {"--bogus"}
is_flag == Switches \cup Valued \cup Unknown
             \cup {"--help", "--version", "--completions", "--hex", "--color", "--no-color"}

None == "none"  \* for a value that is not given

ASSUME WordConstants ==
  /\ Lines \subseteq Seq(Words) /\ None \notin Words
  /\ (Names \cup Paths \cup Numbers \cup Ranges \cup Architectures) \cap is_flag = {}

VARIABLES
  argv,    \* the words
  index,   \* the next one
  args,    \* Arguments, and the positional words so far
  action,  \* "parsing", then the action, or "usage_error"
  around,  \* environment, terminal and configuration file, once they are looked at
  effect   \* the decisions taken from all of these

vars == <<argv, index, args, action, around, effect>>

Undecided == [done |-> FALSE]
Surroundings == [NO_COLOR : BOOLEAN, tty : BOOLEAN, color : BOOLEAN]

Init ==
  /\ argv \in Lines
  /\ index = 1
  /\ args = [on |-> {}, value |-> [f \in Valued |-> None], hex_section |-> None,
             no_color |-> FALSE, color_always |-> FALSE, positional |-> <<>>]
  /\ action = "parsing"
  /\ around = [NO_COLOR |-> FALSE, tty |-> FALSE, color |-> TRUE]
  /\ effect = Undecided

-----------------------------------------------------------------------------
(* parse_args: the words *)

Word == argv[index]
Reading == action = "parsing" /\ index <= Len(argv)

\* Reads n words and has these arguments from them.
Take(n, a) ==
  /\ index' = index + n /\ args' = a
  /\ UNCHANGED <<argv, action, around, effect>>

\* parse_args returns.
Decide(what) ==
  /\ action' = what
  /\ UNCHANGED <<argv, index, args, around, effect>>

\* value_for: there is a next word, and it is no flag.
has_value == index < Len(argv) /\ argv[index + 1] \notin is_flag

Accepts(flag, w) ==
  /\ flag \in Measures => w \in Numbers
  /\ flag = "--range" => w \in Ranges
  /\ flag = "--arch" => w \in Architectures
  /\ flag = "--color" => w \in {"auto", "always", "never"}

\* --help, --version and --completions end the parse; the rest is not looked at.
ReadAndStop ==
  /\ Reading
  /\ \/ Word = "--help" /\ Decide("ShowHelp")
     \/ Word = "--version" /\ Decide("ShowVersion")
     \/ Word = "--completions" /\ Decide(IF has_value THEN "ShowCompletions" ELSE "usage_error")

ReadSwitch == Reading /\ Word \in Switches /\ Take(1, [args EXCEPT !.on = @ \cup {Word}])

\* Mutant: the value is read again as a word of its own.
ReadValueAgain ==
  /\ Reading /\ Word \in Valued /\ has_value /\ Accepts(Word, argv[index + 1])
  /\ Take(1, [args EXCEPT !.value[Word] = argv[index + 1]])

ReadValue ==
  /\ Reading /\ Word \in Valued /\ has_value /\ Accepts(Word, argv[index + 1])
  /\ Take(2, [args EXCEPT !.value[Word] = argv[index + 1]])

\* Mutant: --color=auto leaves what was said before.
ReadColorKeeping ==
  /\ Reading
  /\ \/ Word = "--no-color" /\ Take(1, [args EXCEPT !.no_color = TRUE])
     \/ /\ Word = "--color" /\ has_value /\ Accepts(Word, argv[index + 1])
        /\ LET mode == argv[index + 1] IN
           Take(2, [args EXCEPT !.no_color = IF mode = "auto" THEN @ ELSE mode = "never",
                                !.color_always = IF mode = "auto" THEN @ ELSE mode = "always"])

\* --no-color sets its own member alone; --color sets both.
ReadColor ==
  /\ Reading
  /\ \/ Word = "--no-color" /\ Take(1, [args EXCEPT !.no_color = TRUE])
     \/ /\ Word = "--color" /\ has_value /\ Accepts(Word, argv[index + 1])
        /\ Take(2, [args EXCEPT !.no_color = (argv[index + 1] = "never"),
                                !.color_always = (argv[index + 1] = "always")])

\* --hex takes the next word when it begins with a dot or an underscore.
ReadHex ==
  /\ Reading /\ Word = "--hex"
  /\ IF index < Len(argv) /\ argv[index + 1] \in Names \cup Paths
     THEN Take(2, [args EXCEPT !.on = @ \cup {Word}, !.hex_section = argv[index + 1]])
     ELSE Take(1, [args EXCEPT !.on = @ \cup {Word}])

ReadPositional ==
  Reading /\ Word \notin is_flag /\ Take(1, [args EXCEPT !.positional = Append(@, Word)])

\* A value is missing or is none of those the flag takes, or the flag is not known.
RejectWord ==
  /\ Reading
  /\ \/ Word \in Unknown
     \/ Word \in Valued \cup {"--color"} /\ ~(has_value /\ Accepts(Word, argv[index + 1]))
  /\ Decide("usage_error")

-----------------------------------------------------------------------------
(* parse_args: the whole *)

Given(flag) == IF flag \in Valued THEN args.value[flag] # None ELSE flag \in args.on

\* Filters are for the function list.
filters == {"--grep", "--calls", "--contains"}

conflict ==
  \/ Len(args.positional) > 2
  \/ Given("--section") /\ Len(args.positional) = 2
  \/ Given("--addr") /\ Given("--range")
  \/ (\E f \in filters : Given(f)) /\ (Given("--section") \/ Len(args.positional) = 2)

\* The first of these that is given selects the action.
Order ==
  <<<<"--diff", "ShowDiff">>, <<"--headers", "ShowHeaders">>, <<"--sections", "ShowSections">>,
    <<"--segments", "ShowSegments">>, <<"--imports", "ShowImports">>,
    <<"--exports", "ShowExports">>,
    <<"--strings", "ShowStrings">>, <<"--find", "ShowFind">>, <<"--hex", "ShowHex">>,
    <<"--addr", "DisassembleAddr">>, <<"--range", "DisassembleRange">>, <<"--xref", "ShowXrefs">>,
    <<"--stats", "ShowStats">>, <<"--all", "DisassembleAll">>,
    <<"--section", "DisassembleSection">>>>

selected ==
  LET given == {i \in DOMAIN Order : Given(Order[i][1])}
  IN IF given # {} THEN Order[CHOOSE i \in given : \A j \in given : i <= j][2]
     ELSE IF Len(args.positional) = 2 THEN "DisassembleSymbol" ELSE "ListFunctions"

AtEnd == action = "parsing" /\ index > Len(argv)

\* Mutant: --raw-bytes reads stdin whether or not the architecture is known.
SelectRawBytesUnchecked ==
  /\ AtEnd /\ Given("--raw-bytes")
  /\ Decide(IF args.positional # <<>> THEN "usage_error" ELSE "RawBytes")

\* --raw-bytes reads stdin and needs no input file.
SelectRawBytes ==
  /\ AtEnd /\ Given("--raw-bytes")
  /\ Decide(IF Given("--arch") /\ args.positional = <<>> THEN "RawBytes" ELSE "usage_error")

\* Nothing to act on: help, as a usage error.
SelectHelp == AtEnd /\ ~Given("--raw-bytes") /\ args.positional = <<>> /\ Decide("ShowHelp")

SelectAction ==
  /\ AtEnd /\ ~Given("--raw-bytes") /\ args.positional # <<>>
  /\ Decide(IF conflict THEN "usage_error" ELSE selected)

-----------------------------------------------------------------------------
(* What follows from arguments, environment and configuration *)

resolve_use_color(e) ==
  /\ ~Given("--quiet")
  /\ args.color_always \/ (~args.no_color /\ ~e.NO_COLOR /\ e.tty /\ e.color)

\* format_options, once the action is chosen.
ResolveOptions ==
  /\ action \notin {"parsing", "usage_error"} /\ ~effect.done
  /\ around' \in Surroundings
  /\ effect' = [done |-> TRUE, color |-> resolve_use_color(around')]
  /\ UNCHANGED <<argv, index, args, action>>

Next ==
  \/ ReadAndStop \/ ReadSwitch \/ ReadValue \/ ReadColor \/ ReadHex \/ ReadPositional \/ RejectWord
  \/ SelectRawBytes \/ SelectHelp \/ SelectAction \/ ResolveOptions

Spec == Init /\ [][Next]_vars

-----------------------------------------------------------------------------
(* Properties *)

Actions == {Order[i][2] : i \in DOMAIN Order}
             \cup {"ShowHelp", "ShowVersion", "ShowCompletions", "RawBytes", "ListFunctions",
                   "DisassembleSymbol"}

\* The part a word plays, by the one before it and the part that one plays.
part_after(i, before) ==
  IF /\ before = "option" /\ argv[i] \notin is_flag
     /\ \/ argv[i - 1] \in Valued \cup {"--color"}
        \/ argv[i - 1] = "--hex" /\ argv[i] \in Names \cup Paths
  THEN "value" ELSE IF argv[i] \in is_flag THEN "option" ELSE "positional"

Parts ==
  LET part[i \in DOMAIN argv] == part_after(i, IF i = 1 THEN "start" ELSE part[i - 1])
  IN part

\* Among the first n words: the options, the values of f, and the words left over.
OptionsIn(n) == {i \in 1..n : Parts[i] = "option"}
ValuesIn(n, f) == {i \in 2..n : Parts[i] = "value" /\ argv[i - 1] = f}
LeftIn(n) == {i \in 1..n : Parts[i] = "positional"}
Latest(places) == CHOOSE i \in places : \A j \in places : j <= i

Selected == action \in Actions \ {"ShowHelp", "ShowVersion", "ShowCompletions"}

\* The arguments are what the first n words say.
Understood(n) ==
  /\ args.on = {argv[i] : i \in OptionsIn(n)} \cap (Switches \cup {"--hex"})
  /\ \A f \in Valued :
       args.value[f] = IF ValuesIn(n, f) = {} THEN None ELSE argv[Latest(ValuesIn(n, f))]
  /\ Len(args.positional) = Cardinality(LeftIn(n))
  /\ \A i \in LeftIn(n) : args.positional[Cardinality(LeftIn(i))] = argv[i]

\* A command line that is acted on was understood to its last word: every option it
\* has is in force, with the value given last, and the words left over are the file
\* and the symbol, in order, wherever options stand between them (cli.cpp:240-476).
EveryWordUnderstood == Selected => Understood(Len(argv))

\* execute takes the operands of an action for granted (args.symbol.value() and the
\* like, cli.cpp:589, 620, 942, 961, 770, 885): none is ever selected without them,
\* and none with two that exclude each other (cli.cpp:478-488).
OperandsPresent ==
  LET needs(a) == {f \in Valued : \E i \in DOMAIN Order : Order[i] = <<f, a>>}
  IN /\ Selected => \A f \in needs(action) : Given(f)
     /\ action = "RawBytes" => Given("--arch") /\ args.positional = <<>>
     /\ Selected /\ action # "RawBytes" => Len(args.positional) \in 1..2
     /\ action = "DisassembleSymbol" => Len(args.positional) = 2
     /\ Selected => ~(Given("--addr") /\ Given("--range")) \/ action = "RawBytes"

\* What the first n words say of colour: the last --color, and whether it is off.
colors(n) == {i \in OptionsIn(n) : argv[i] = "--color"}
mode(n) == IF colors(n) = {} THEN "auto" ELSE argv[Latest(colors(n)) + 1]
off(n) == \/ mode(n) = "never"
          \/ \E i \in 1..n : /\ argv[i] = "--no-color"
                            /\ \A j \in colors(n) : j < i

\* roe.1: --color=always overrides NO_COLOR and --no-color wherever they stand, of
\* several --color the last counts, and --color=auto undoes a --no-color before it
\* (cli.cpp:209-221, 267-291).
ColorAsAsked ==
  Selected /\ effect.done =>
    (effect.color <=>
       /\ "--quiet" \notin Range(argv)
       /\ \/ mode(Len(argv)) = "always"
          \/ ~off(Len(argv)) /\ ~around.NO_COLOR /\ around.tty /\ around.color)
=============================================================================
