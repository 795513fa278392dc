----------------------------- MODULE MCCommandLine -----------------------------
(* The command lines TLC looks at. *)
EXTENDS CommandLine

\* One word for each way a word is read.
EveryKind ==
  {"a.out", ".text", "--section", "--addr", "0x10", "--range", "0x10-0x20", "--grep",
   "--arch", "arm", "--raw-bytes", "--hex", "--stats", "--bogus", "--completions", "--help", "--version"}

\* Options that exclude each other, and their values.
Exclusive ==
  {"a.out", "--addr", "0x10", "--range", "0x10-0x20", "--section", ".text", "--grep", "--diff",
   "--raw-bytes", "--arch", "arm"}

\* What colour depends on.
Colours == {"a.out", "--color", "auto", "always", "never", "--no-color", "--quiet"}

Upto(n, words) == UNION {[1..i -> words] : i \in 0..n}

All == EveryKind \cup Exclusive \cup Colours

Short == Upto(4, EveryKind) \cup Upto(5, Exclusive) \cup Upto(5, Colours)
=============================================================================
