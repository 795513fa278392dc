------------------------------- MODULE LiveView -------------------------------
(***************************************************************************)
(* What watch mode promises its user, with no word of how: the screen      *)
(* shows some version of the file, it only moves to newer versions, and it *)
(* never shows a version the file has not had.                             *)
(***************************************************************************)
EXTENDS Naturals

VARIABLES current,  \* the file's version
          displayed \* the version on the screen

Init == current = 0 /\ displayed = 0

\* The user's tools change the file.
Edit == current' = current + 1 /\ UNCHANGED displayed

\* The screen is brought nearer to the file, not always all the way: a run that
\* opened the file before the last change prints what it opened.
Refresh == displayed' \in displayed..current /\ UNCHANGED current

Next == Edit \/ Refresh

Spec == Init /\ [][Next]_<<current, displayed>>
=============================================================================
