# A formal model of roe

roe is a command-line disassembler: it loads an ELF, Mach-O or PE file, resolves symbols and
relocations, and shows functions, sections, ranges, cross references and differences, through a
pager or in a watch loop. This directory holds TLA+ modules translated from its source, TLC
configurations that check them on small instances, and proofs that TLAPS checks.

Source references are relative to the repository; `watcher.cpp` stands for
`src/watcher/watcher.cpp`, and likewise for the other components. `PROJECT.json` maps every
definition to the lines it models.

## 1. Inventory

| Component | State | Operations | Interacts with | Hard part |
|---|---|---|---|---|
| watcher (`watcher.cpp`) | inotify descriptor, poll baseline | `watch_file`, `poll_loop`, `changed_since` | kernel queue, user's tools, callback of `cli::run` | three concurrent parties; what is missed between a read and a watch |
| pager, main (`features/pager.cpp`, `main.cpp`) | output buffer, pipe | `should_page`, `write_output`, `main` | shell, pager, user | blocking pipe, child that ends early, exit status |
| cli, parsing (`cli.cpp` 1-528) | `Arguments` under construction | `parse_args`, `resolve_use_color` | environment, config | order and repetition of options, operands of the chosen action |
| cli, execution (`cli.cpp` 530-1382) | none between runs | one `run_*` per action | all components below | windows in 64-bit arithmetic, one step of many failing |
| disasm (`disasm.cpp`) | ARM64 page tracker while decoding | `disassemble_function` (two overloads), `disassemble_section`, `disassemble_bytes`, `update_arm64_pairing` | Capstone | which section an address is in; stale register contents |
| resolver (`resolver.cpp` 1-461) | sorted `Index` | `build_index`, `symbol_at`, `nearest_symbol`, `annotate` | binary model | PLT slots, overlapping sections, aliases |
| demangler (`resolver.cpp` 467-936) | position, steps, depth | `demangle` | the C++ library | back-references, budget, names cut short |
| debug (`debug.cpp`) | line-program registers, row table | `load_source_map`, `source_at`, `interleave` | sections' bytes | register resets, unstable sort, DWARF versions |
| features (`features.cpp`) | none | `find_xrefs`, `functions_calling`, `diff_functions`, `compute_stats`, string references, find | resolver's annotations | erasing while iterating, names that are not unique |
| config (`features/config.cpp`) | none | `load_config` | environment | - |
| binary (`binary.cpp`) | none | `load_file`, `detect_format`, `load_bytes` | the readers | a file rewritten while it is read |
| elf (`elf.cpp`) | image, headers, section and symbol tables | `parse_bytes` and what it calls, `section_bytes` | binary model | wrap-around; unchecked reads that rely on earlier checks |
| macho (`macho.cpp`) | image, slice, load commands | `parse_bytes`, `section_bytes` | binary model | ordinals; nothing past the header is an error |
| pe (`pe.cpp`) | image, section map, sticky error flag | `parse_bytes`, `section_bytes` | binary model | three sources of symbols; limits over many tables |
| format (`format.cpp`) | none | text and JSON rendering | - | layout only |
| archive | - | declared in `archive.hpp`, not implemented | - | - |

What makes each one correct: *watcher* - a change that can be noticed is shown, and nothing older
after something newer; *pager* - the output arrives once, whole, in order, and only a pager that stays keeps the run from ending;
*parsing* - every word of an accepted command line takes effect, and an action finds its operands;
*views* - the bytes shown are the ones that stand at the addresses shown, and no fewer than asked;
*tracker* - an annotated address is one the code forms; *resolver* - names belong to the code they
are shown with; *debug* - an address gets its own unit's file and line; *features* - a report
accounts for everything, once, and a difference is a shortest one; *readers* - what they accept lies
in the file, and names and libraries are attributed to the right entries; *demangler* - a name is
printed as what it was mangled from, or as it is, in bounded work. The hazards behind these are in `PROJECT.json`, each at its line.

## 2. Modules

| Module | Models | Proofs |
|---|---|---|
| `WatchMode` | watcher, watch branch of `cli::run`, `load_file` as a read over time | `WatchModeProofs` |
| `LiveView` | what watch mode promises of the screen; `WatchMode` implements it | `WatchModeProofs` |
| `PagedOutput` | `main`, `should_page`, `write_output`, popen's shell, the pager, the user | `MainProofs` |
| `CodeViews` | selection of bytes by every disassembly view and hex dump | `CodeViewsProofs` |
| `Arm64Pairing` | `update_arm64_pairing` beside the machine it approximates | `Arm64PairingProofs` |
| `SymbolIndex` | `build_index`, lookups, `annotate`, `--xref`, `--calls` | `ResolverProofs` |
| `LineTable` | line-number program, row table, `source_at`, beside what the compiler meant | `LineTableProofs` |
| `CommandLine` | `parse_args`, action selection, colour | `MainProofs` |
| `FunctionDiff` | `diff_functions` | `RunDiffProofs` |
| `RunDiff` | `run_diff`: the other file, `FunctionDiff`, or the aligned bodies of one symbol | `RunDiffProofs` |
| `ByteImage` | what the readers share: bounds checks, the object they build, `section_bytes` | `LoadFileProofs` |
| `ElfFile`, `MachoFile`, `PeFile` | the three readers, over `ByteImage` | `LoadFileProofs` |
| `LoadFile` | `load_file`: the choice of the reader, composed with all three | `LoadFileProofs` |
| `Demangler` | `demangle` with `RustV0Demangler` | `ResolverProofs` |

`MC*` modules give TLC its instances; the constants of the other runs are in the `.cfg` files. A module of
proofs may be about two components that meet in the source: `MainProofs` about the way from the words to the
terminal, `ResolverProofs` about `resolver.cpp`.

### WatchMode

`pc` is where roe's thread is: `start`, `open` (about to open the file), `reading`, `install`,
`wait` (blocked in `read` on the inotify descriptor), `debounce`, `sleep` (the poll loop's sleep), and two
exits. A file is a version, whether a writer has it open (`torn`) or it is `absent`, its inode and
its signature. `OpenInput` and `FinishRun` split the callback, so that files change under a read.
The actions of the tools and of the kernel (events of the mask, coalescing, overflow, watches that
die with their directory) are external, modelled from the mask and the event handling in
`watcher.cpp:91-110`. `silent` is a history variable: why the last change could not be noticed.

Four causes make a change unnoticeable: it was made before the watch existed, the file was
deleted, the directory is no longer the watched one, or its signature is the baseline.
`NoLostUpdate` says that there is no fifth.

### PagedOutput

The output is cut into pipe-sized pieces; `Write` blocks when the pipe is full, `WriteKills` is
SIGPIPE, `Close` and `Wait` are the two halves of `pclose`. `setting` is drawn once: terminal,
`NO_PAGER`, length, whether the pager can be run, exit code. popen may fail.

### CodeViews

A byte is its position in the file, an address a number modulo `Words` (2^64).
`code` says of every position how long the instruction is that Capstone decodes there (0 for none)
and whether it ends a block, so decoding is exact and needs no instruction set. One request is
answered per behaviour; TLC takes all requests, section tables and codes. The properties say again,
byte by byte, what each view should show. `Owns` is the section an address is in, also beside sections that are
not loaded and have address 0; `Stored` says that a section's bytes are in the file, `OutOfFile` that they reach
past its end, as those of `.bss` do where nothing follows it.

### Arm64Pairing

`reg` is the machine, `page` the tracker's table. A step executes one instruction and shows it to
the tracker. `Traits` switches on forms beyond the plain ones: W registers, LSL #12, index
registers, and writes that are no operands (write-back, calls). Registers X0..X30 are a set, words
are modulo `Words`. A stack pointer or zero register is `Outside`.

### SymbolIndex

Names are numbers in the order of the raw names, symbols a set of records, relocations a sequence; a lookup
returns a set of at most one. What the code does with the relocations in their order is said of their
indices: which are kept, which are the PLT's, and the slot that each of those has. What the linker makes of the object (stubs, what a relocation applies
to, where a branch goes) is external, and the properties compare the two. `Mistaken` names the two kinds of instruction that
the code takes for a call that they are not.

### LineTable

roe's registers run along with the compiler's intent: `meant` is the line and file of the next row,
`truth` the location of each address. Programs are well-formed: addresses go up in a sequence,
sequences do not overlap. The sort may leave rows of one address in any order.

### CommandLine

A word is one string. What the properties compare `args` with is read off the words themselves: the part that
each word plays (`Parts`: an option, a value, neither) follows from the one before it. `args` holds the members of `Arguments` that matter to the decisions;
`around` the environment, terminal and configuration. Numbers, ranges and architectures are sets of
words that parse.

### FunctionDiff

Either file is a sequence of functions, a body one value. The pairing loop, which erases from both
lists while it walks one, is step by step.

### RunDiff

Extends `FunctionDiff` with what surrounds it. `LoadOther` loads the second file or fails; without a
symbol the comparison of `FunctionDiff` follows. With one, `FindBodies` looks it up in both files by
name or raw name and fills the table of common lines, `Walk` takes one turn of the loop and
`WalkRest` the two loops after it. A line is one value, and a line of the report a mark with it. Bodies above `MaxLines` are listed without alignment.

### ByteImage, ElfFile, MachoFile, PeFile, LoadFile

Bytes are not modelled. A field of the file is chosen when it is first read; where the code reads
it a second time (the section header with index 0) the choice is kept. `image` is the size of the
file or of its slice, `object` the `binary::Object` under construction, `wild` whether a read failed
whose result is taken without looking. Each check is a conjunct in the code's order, each loop an
action per turn, each early return an action or a branch to `refused`. `Words`, `Half` and `Short`
stand for 2^64, 2^32 and 2^16: sums of the ELF reader are taken modulo `Words`, those of rvas in
`PeFile` modulo `Half`.

The readers differ in what an error does, and so do the modules: ELF refuses the file; Mach-O ends
the loop and reads zeroes, which is what `read` gives; PE has a flag that is never reset (`ok`), so
one field outside ends this loop and the later ones. `commands` (Mach-O) and `coff` (PE) keep what
the file said for the properties.

### Demangler

The recursive calls of `RustV0Demangler` are items of `stack`, the innermost first: `parse_path` and
`parse_type` push the parts of what their tag announces, `leave` is the return that lowers the depth,
`back` the position after a back-reference, `drop` a part that is parsed and not printed. Text is a
sequence of characters, `out` of what is printed. Names that the C++ library demangles are given in
their demangled form, and `strip_rust_legacy_hash` is what is left to do.

## 3. Runs

| Run | Instance | Shows |
|---|---|---|
| `watch_mode` | 3 edits, queue of 2, batches of 2, 2 signatures | `NoLostUpdate`, `Inductive`, refinement of `LiveView`, and under fairness `EveryNoticedChangeShown` |
| `paged_output` | 4 pieces through a pipe of 2 | order, completeness, hand-over of the terminal, an end unless the pager stays; deadlock checked |
| `code_views` | 8-byte files, 4-bit addresses, tables of five sections, codes with undecodable bytes | functions, sections, `-D`, addresses, ranges, dumps, the two overloads |
| `views_relocatable` | sections that all start at 0 | **violated**: a function of a later section is shown with another's bytes |
| `arm64_pairing` | 2 registers, words modulo 8 | plain code: sound and complete |
| `symbol_index` | linked x86-64 programs with stubs; one-section object files, with branches and data that await a relocation | names, stubs, references, call sites, callers |
| `index_arm64_plt` | a `.plt` header of two entries | **violated**: each stub has the name of the one after it |
| `line_table` | 4 addresses, 2 units, 2 files, 4 rows | every unambiguous address gets its own location |
| `command_line` | 17 words up to 4, and up to 5 of those that conflict or set colour | all words understood, operands present, colour as asked |
| `function_diff` | 4 names, 2 bodies, 3 functions a file; bodies of up to 5 lines for one symbol | every name once, no rename missed, differences that could not be shorter |
| `load_file` | ELF files of 16 units, Mach-O slices of 8 and universal files of 12, PE files of 12; 64-bit words modulo 128 | tables inside the file, unchecked reads that succeed, relocations, slices, ordinals, exports, limits |
| `demangler` | 1618 names: 405 whole ones, with their meaning or without end, and the others cut short | meanings printed, cut names refused, bounded work |

Why the bounds are enough. Watch mode: three edits allow a change before, during and after a read,
and a queue of two is full with one event waiting behind another. Pager: four pieces fill a pipe of
two while the pager has one in hand. Views: two loaded sections side by side, or apart, and instructions
of one and two bytes give every position of a window's ends to instructions and sections; beside them stand the null
section, a symbol table at address 0 that covers the first section's beginning, and a section without bytes, in the middle of
the file or past its end; four bits are enough for wrap-around. Tracker: two registers are a source and a destination, and eight words let sums
wrap. Symbols: two functions, two imports and one nameless symbol make every neighbour relation,
and a jump at the end of one function, before its relocation, seems to go to the other. Line
table: four rows make two sequences in two units. Command line: the longest dependency is two
options with values and a file, five words. Diff: two added and two removed names let the loop
erase twice in a row; bodies of four lines of two kinds have every tie between the two rests, and one
line more is past `MaxLines`. Readers: four section headers hold a symbol table, its strings, a
relocation table and a second symbol table; 126 and 120 plus a size wrap around 128; two slices, four load
commands (the five kinds among them, and names that lie outside their command), two PE sections, descriptors, thunks and three symbols reach each limit and go past it. The
contents of headers are lists in `MCLoadFile`: one that is right, and one for each check that fails. Demangler: 16 steps and a depth
of 6 let every meaning be printed and are exceeded by self-references, a long list, a deep type and a
length that wraps; a legacy hash has 2 digits instead of 16.

Deadlock is not checked where the program may stop or answers once and ends. Fairness: in
`WatchMode` weak fairness of roe's own steps only - the scheduler runs the thread - and none of the
tools; `read` may fail at any time but need not. In `PagedOutput` roe goes on and the shell starts the pager or
finds none. Nothing is assumed of the pager or its user: `less -R`, the default, reads on when the user scrolls
and ends when the user quits. `EndsUnlessPaged` therefore allows that roe waits for ever, with the pager there and
the pipe full or everything written.

## 4. Proofs

Each theorem holds for every value of the
constants that the module's named `ASSUME` allows; the assumptions only say what kind of thing a constant is
(`PagerConstants`, `ElfConstants`, ...), and where they say more it is what the source says: 2^16 is more
than 1 (`WidthsAssumption`), a table entry has a positive size. Further hypotheses are in the theorem's own
statement and explained below. The inductive invariants were first checked by TLC, as
invariants of the run named.

`WatchModeProofs`, for every number of edits, queue and batch size and set of signatures:

- `TypeCorrect`: `TypeOK`.
- `Invariance`: `Inductive`, three parts. `FreshOrOwed`: either what was read or shown last is the file
  as it is, or a run of the callback is still owed - the thread is on its way to one, a relevant event is
  queued, the baseline differs - or the change is silent or unfinished. `NoLostUpdate` alone is not
  inductive: it speaks of the idle states only. `OneBackend` is needed because the two loops owe
  runs for different reasons, `Ordered` for the refinement. The lemmas about `Enqueue` say that coalescing and
  overflow keep a relevant event relevant, the one about `SubSeq` that a batch without one can
  be dropped.
- `NoUpdateIsLost`: `NoLostUpdate` follows.
- `Refinement`: every step of `WatchMode` is a step of `LiveView` or a stutter under
  `current <- disk.version, displayed <- shown.version`.

`Arm64PairingProofs`, for every set of registers, word size, pages and offsets, and `Traits = {}` (with
other forms of instructions the code does not have these properties, section 5):

- `PlainCodeSound`: `PagesSound`, and `AnnotationsRight`: `TargetSound`; the invariant is their conjunction
  with `TypeOK`, since a target is computed from pages. `TypeOK` and `TrackedIsDerived` are parts of these
  invariants and of no run.
- `NoPairMissed`: `PairsRecovered`, from `TrackedIsDerived`, which ties the tracker's table to the
  history of where a register's value comes from.

`MainProofs`, on `PagedOutput`, for output of any length, a pipe of any capacity and any exit code:
`ShownInOrderAlways`, `EverythingShownAlways`, `TerminalHandedBackAlways`. The invariant `Handover`
(`paged_output`) says that what was shown and what is in the pipe are, in this order, what `fwrite` has sent, and
of each party how far it can be when another has ended; the properties look only at the terminal and
at the end of the run, where nothing is known of the pipe any more.

`MainProofs`, on `CommandLine`, for any set of words and command lines of any length:

- `EveryWordUnderstoodAlways`, `ColorAsAskedAlways`. The properties speak of a command line that has been
  read; the invariant `Reader` (`command_line`) says the same of the words read so far: where the loop stands
  no value is expected, every option read has set what it sets, the value given last is the one kept, and what
  is neither option nor value stands in its place or is refused. `Parts` is a recursive function: `PartsAre` proves that it
  exists, by a least counterexample (`LeastMember`), and three lemmas what one more word adds to what the words say.
- `OperandsPresentAlways`: inductive once `Reader` holds. An action is selected in one step from all of `args`,
  so what must be known is that the selection finds the first row of the table whose option was given
  (`FirstGiven`), and that nothing changes after it.

`ResolverProofs`, on `SymbolIndex`, for any set of objects. The invariant `Indexed` (`symbol_index`) says that the
tables are, entry by entry, those of the object, and every annotation what the lookups give for its
instruction; the properties speak of names. What an object must be like is in named hypotheses, and each
theorem has those it needs. TLC evaluates all of them to TRUE for each of the objects of `symbol_index`.

- `InOwnFunctionAlways`: under `SymbolsApart` and `LaidOut`. What symbols stand for does not overlap, and no
  symbol has the address of another or of a stub; otherwise the nearest symbol below is another's.
- `ReferenceIsOwnAlways`: under `OffsetsTell`. The code compares offsets and not sections, so an offset
  must tell which section it is for (section 5, `resolver.cpp:331`).
- `StubsNamedRightAlways`: under `SymbolsApart` and `StubsNamed`. Stubs are counted: a
  PLT relocation has the slot that as many named ones before it give it, which is right when the named ones come first
  and the header is as long as a stub; `index_arm64_plt` violates the property without the second.
- `EveryCallSiteFoundAlways` under `Told`, the four together without `LaidOut`: what a branch refers to, by its target, a stub or a relocation, is one thing.
- `CallersCallAlways` under the same: a function that is listed has an instruction that goes to the symbol, or one with a
  relocation that the code mistakes for a call (`Mistaken`). Both mistakes are part of the statement and of the
  instances, not assumed away (section 5, `resolver.cpp:452` and `features.cpp:45`).

`ResolverProofs`, on `Demangler`, for any names and any budget: `WithinBudgetAlways`. The invariant `Spent`
(`demangler`) adds that a name still being read has steps left: one step beyond the budget ends it, so
the counters exceed it by one at most, whatever a name refers back to.

`LineTableProofs`, for any units, files, addresses and rows: `CoveredAddressesRightAlways`. The invariant `Table`
(`line_table`) relates the registers to the compiler's (`RegistersFollow`), the rows of a sequence to what
they cover (`RowsAccounted`), and the truth about an address to the last row at or below it
(`TruthFromRows`). The hypothesis `Version <= 4` is where the code stops being right: in version 5
its file register starts at 0 (section 5).

`LoadFileProofs`, for files with any contents, any limits and integer widths. All invariants
are by stages of the reader and were checked on `load_file`.

- `SlicePreferredAlways` (`SliceInv`): the slice chosen so far is the first arm64 one, or else the first that is
  not empty, among the entries read so far; one that does not lie in the file is refused.
- `ImportsAttributedAlways` (`ImportInv`): the list of libraries is, entry by entry, the commands counted by the
  ordinals, while commands are read; imports are attributed after that. The property is about imports of libraries with
  none before them that the reader passes over (`Unread`): an upward or lazy one, or one whose name lies outside its
  command (section 5, `macho.cpp:341`). Such commands are read along with the others, in the run and in the proof.
- `SymbolsBoundedAlways` (`BoundInv`): the budget spent over all descriptors together bounds the imports, the
  number of names the exports; the later join adds to neither. The property speaks of the finished object only.
- `ExportsJoinedAlways` (`JoinInv`): each record of the COFF table is accounted for as it is read, which needs
  that exports and imports had no address before it. Under `NothingAtZero`, no section is loaded at
  address 0: the reader takes that for "no address yet".
- `ElfInsideAlways`, `ReadsSucceedAlways` (`ElfInv`): what each check has established is kept until the stage that relies
  on it. The arithmetic under it is in lemmas: a sum that passes `checked_add` did not wrap, and an entry whose
  number is below the quotient of two sizes lies inside the table. `ReadsSucceed` is the one
  that the code does not state anywhere: checks that make `value()` safe stand functions away from it.
- `RelocationsNamedAlways` (`NameInv`): symbols of a table lie together in the published list, tables in their
  order, so a position in the list belongs to one table and one index (`TablesGrow`, `SlotsGrow`).

`RunDiffProofs`, for any names, bodies and numbers of functions: `EveryNameOnceAlways`, `RenamesFoundAlways`. The
invariant `Tally` (`function_diff`) says that the two lists and the pairs found so far split what either file
has alone (`Split`), that nothing stands in a list twice (`Lists`) or in two pairs (`Pairs`), and that what the loop has
passed matches nothing still among the removed (`Passed`). The last is why erasing while walking is right here: a
list that becomes shorter gives no passed name a match. `SortedOrder` proves that the order of a
finite set of names exists, by counting.

`RunDiffProofs`, on the report of one symbol, for bodies of any length and lines of any kind: `DiffShortestAlways`. The
invariant `Aligned` (its walking part checked on `function_diff`) says that the report so far, without what was added, reads as what has been
passed of the old body, likewise for the new one, and that what is kept, together with what the table says of
the rest, is what the table says of the whole. That alone would be about the table; three lemmas make it
about the bodies. `TableIs`: the table, a recursive function over pairs, exists and each entry follows from those it looks at
(`Filled` builds it line by line from the end). `NoLonger`: whatever lines of both bodies are paired in order are no
more than the table says - the pairing whose beginning has fewest lines left is the counterexample that
cannot be. `Enumerated`: lines that are picked by their places are those in order, which is how the property states what
remains of a report.

`CodeViewsProofs`, for any code, any size of the file and of a word, and any number of sections:
`FunctionShownAlways`, `OverloadsAgreeAlways`, `AddressShownAlways`, `EverySectionListedAlways`, `DumpShownAlways`, `ShortDumpNotedAlways`.
Nothing changes but the answer, so the invariant `Typed` (`code_views`) is small and the work is in the
operators. The decoder and the walk over all sections are recursive functions: `DecodeIs` and `JoinedExists` prove that they exist,
`DecodeDecoded` what a listing holds, by induction along the file as a least counterexample (`LeastMember`), for which
no theorem with an operator parameter is needed. Section tables may hold anything: null sections, sections that are not loaded, sections whose
bytes are not in the file. Two hypotheses remain, each in the theorems that need it: `ExecutablesApart`, no two executable sections
have an address in common (`FunctionShownAlways`, `OverloadsAgreeAlways`; object files do not satisfy it, and `views_relocatable`
violates the property), and `NoWrap`, no section reaches the last address (`AddressShownAlways`, `DumpShownAlways`, `ShortDumpNotedAlways`;
the code refuses such a section's addresses, `cli.cpp:809`). `EverySectionListedAlways` has none.
What the views answer for a section without bytes in the middle of the file is not said (`Stored`), nor is a range of all
addresses (`LastBefore`); `ShortDumpNoted` leaves out addresses in a section outside the file. Section 5 says what the code does there.

Model-checked only:

- liveness, which is out of the prover's reach: `EveryNoticedChangeShown`, `EndsUnlessPaged`;
- `MeaningPrinted` and `CutShortRefused`: the meaning of a name, and whether it is cut, are given with the names of the
  instance; a theorem for all names would state the grammar of names first, and be an induction over it.

## 5. Disagreements between documentation and code

`disasm.cpp:703` (`views_relocatable`) and `resolver.cpp:343` (`index_arm64_plt`) are violation runs;
the others were met while modelling, and the passing runs state their properties, with premises that name the case, or choose their
inputs, so that these cases are left out. With `Traits = {"narrow", "implicit"}` in
`Arm64Pairing.cfg` TLC violates `PagesSound` by the third.

| Where | What the code does | What is said |
|---|---|---|
| `watcher.cpp:82` | changes during the first run are not shown | README.md:254 |
| `disasm.cpp:703` | in object files the first section with the address is disassembled | README.md:191, roe.1:326 |
| `disasm.cpp:364` | W destinations, write-back and calls leave a page valid | comment at 364 |
| `resolver.cpp:343` | PLT header assumed 16 bytes on every machine | CHANGELOG.md:50-52 |
| `watcher.cpp:91-92` | no re-run after the directory is remade, nor after a deletion | README.md:254, ARCHITECTURE.md:199 |
| `watcher.cpp:37` | differences of two attributes can cancel in the signature | comment at 29-30 |
| `pager.cpp:58-62` | a pager that does not exist swallows the output; leaving one early ends roe by SIGPIPE | features.hpp:44, ARCHITECTURE.md:223 |
| `debug.cpp:440` | `end_sequence` leaves a row that answers for what follows | ARCHITECTURE.md:20 |
| `debug.cpp:413` | the file register starts at 0 in version 5 | CHANGELOG.md:54-55 |
| `elf.cpp:1163` | NOBITS sections whose offset and size lie in the file have content, the bytes of other sections | comment at 1165 |
| `disasm.cpp:606` | listings end at the first undecodable bytes | README.md:205 |
| `cli.cpp:1052` | `--hex` of an address in a section outside the file gives an empty dump and no note | cli.cpp:993-994, roe.1:135-141 |
| `cli.cpp:809, 1050` | a section at the top has no addresses; the length of a range of all addresses is 0, an empty dump without a note | cli.cpp:1036, 993-994 |
| `resolver.cpp:331` | relocations of other sections collide in object files | DECISIONS.md:12 |
| `resolver.cpp:377` | only the first of several names is found by `--xref` | README.md:233 |
| `features.cpp:45` | `--calls` lists functions that take an address | README.md:231 |
| `resolver.cpp:452` | in an object file a branch that awaits its relocation seems to go to the next instruction; where that is the next function, `--calls` lists a false caller of it | README.md:231, roe.1:144-146 |
| `features.cpp:276` | of functions of one name the last is compared | roe.1:160 |
| `cli.cpp:375` | `--hex ./a.out` takes the file for a section | README.md:220 |
| `cli.cpp:558` | `source = true` loads no source lines | CONFIG.md:32 |
| `cli.cpp:902` | one hex digit is "no valid hex digits" | comment at 900 |
| `elf.cpp:427` | an entry size too small for a section header passes when the count is in the section header with index 0 | tests/unit/test_elf_errors.cpp:112 |
| `macho.cpp:188` | a CPU type that is not supported is accepted | INTERFACES.md:102-103 |
| `macho.cpp:341` | upward and lazy libraries are not counted, which shifts the ordinals after them | binary.hpp:112 |

Met as well, with nothing said against it: universal files with 64-bit offsets are not recognised by
`detect_format`, though `macho.cpp:464` would read them; the ELF reader's checks of products cannot
fail, since the factors are 16 and 32 bits wide; fields outside a Mach-O file read as 0; exports of a PE file have address 0
unless the COFF table names them. In the demangler a negative constant loses its sign, the
disambiguator of an `impl` and the types `F` and `D` are not understood (the name is then left as it is), a
constant's digits need no end, and decimals wrap.

## 6. Plan

1. Done: watch mode with its proofs; the ARM64 tracker with its proofs; pager, views, symbol index,
   line table, command line, the differences of files and of symbols, the three readers of object files
   under `load_file`, the demangler; proofs about each of them.
2. More of the system: `parse_number` (`cli.cpp:175-205`); `compute_stats` (`features.cpp:164-227`); the
   extraction of strings; the tracker on code with branches; the guess of `--raw-bytes`; the headers of
   DWARF units.
3. Every invariant the runs check is proved, except the two of `Demangler` that depend on the meaning of names. Next
   come proofs about the parts of item 2 as they are modelled.

Not modelled, and why: text and JSON layout (`format.cpp`) are conversions of strings; within the
readers the names of machines, segments and kinds of objects and sections are tables of constants that
no decision of the reader depends on; static archives are refused by `load_file`, which the model
has; Capstone and the C++ demangler are external; `archive.hpp` declares what nothing implements; tests, fuzzers and
packaging are not part of the program.
