------------------------------ MODULE PagedOutput ------------------------------
(***************************************************************************)
(* How one run of roe hands its output over: main collects it in a buffer, *)
(* write_output sends it to a pager through popen and pclose or writes it   *)
(* to stdout, and main returns the exit code.  The shell popen starts, the  *)
(* pager it runs and the user who may leave it are processes of their own,  *)
(* with the pipe between them and roe.                                      *)
(***************************************************************************)
EXTENDS Naturals, Sequences, SequencesExt

CONSTANTS
  MaxChunks,    \* bound: pipe-sized pieces of output
  PipeCapacity, \* pieces the pipe holds before a write blocks
  Codes         \* exit codes of main_entry

ASSUME PagerConstants ==
  /\ MaxChunks \in Nat \ {0} /\ PipeCapacity \in Nat \ {0} /\ Codes # {}

VARIABLES
  setting, \* what write_output is called with and finds around it
  pc,      \* where main is
  sent,    \* pieces fwrite has put into the pipe
  pipe,    \* those the pager has not read
  pager,   \* the child process
  left,    \* the user left the pager before its input ended
  shown,   \* what reached the terminal, or the file stdout is
  status   \* exit status, once there is one

outputVars == <<setting, pc, sent, pipe, pager, left, shown, status>>
child == <<pager, left>>

Killed == 141  \* the status a shell reports for SIGPIPE
Settings == [allow_pager : BOOLEAN, tty : BOOLEAN, NO_PAGER : BOOLEAN, tall : BOOLEAN,
             runnable : BOOLEAN, chunks : 1..MaxChunks, code : Codes]

\* The output, piece by piece.
Text == [i \in 1..setting.chunks |-> i]

\* `tall`: the output has at least as many lines as the terminal has rows.
should_page == setting.allow_pager /\ setting.tty /\ ~setting.NO_PAGER /\ setting.tall

OutputInit ==
  /\ setting \in Settings
  /\ pc = "write_output" /\ sent = 0 /\ pipe = <<>>
  /\ pager = "none" /\ left = FALSE /\ shown = <<>> /\ status = 0

-----------------------------------------------------------------------------
(* roe *)

WriteToStdout ==
  /\ pc = "write_output" /\ ~should_page
  /\ shown' = shown \o Text /\ pc' = "return"
  /\ UNCHANGED <<setting, sent, pipe, status>> /\ UNCHANGED child

OpenPager ==
  /\ pc = "write_output" /\ should_page
  /\ pager' = "shell" /\ pc' = "fwrite"
  /\ UNCHANGED <<setting, sent, pipe, left, shown, status>>

\* Mutant: the output is dropped with the pipe.
PopenFailsAndReturns ==
  /\ pc = "write_output" /\ should_page
  /\ pc' = "return"
  /\ UNCHANGED <<setting, sent, pipe, shown, status>> /\ UNCHANGED child

\* popen returns NULL: no pipe, or no process.
PopenFails ==
  /\ pc = "write_output" /\ should_page
  /\ shown' = shown \o Text /\ pc' = "return"
  /\ UNCHANGED <<setting, sent, pipe, status>> /\ UNCHANGED child

\* Mutant: what the pipe could not hold is sent from its beginning again.
WriteRetrying ==
  /\ pc = "fwrite" /\ sent < setting.chunks /\ pager # "gone"
  /\ IF Len(pipe) < PipeCapacity
     THEN pipe' = Append(pipe, sent + 1) /\ sent' = sent + 1
     ELSE sent > 0 /\ sent' = sent - 1 /\ pipe' = pipe
  /\ UNCHANGED <<setting, pc, shown, status>> /\ UNCHANGED child

\* fwrite blocks while the pipe is full.
Write ==
  /\ pc = "fwrite" /\ sent < setting.chunks /\ pager # "gone"
  /\ Len(pipe) < PipeCapacity
  /\ pipe' = Append(pipe, sent + 1) /\ sent' = sent + 1
  /\ UNCHANGED <<setting, pc, shown, status>> /\ UNCHANGED child

\* Mutant: SIGPIPE is ignored and the write tried again.
WriteAgain ==
  /\ pc = "fwrite" /\ sent < setting.chunks /\ pager = "gone"
  /\ UNCHANGED outputVars

\* Nothing reads the pipe any more, and roe does not handle SIGPIPE.
WriteKills ==
  /\ pc = "fwrite" /\ sent < setting.chunks /\ pager = "gone"
  /\ pc' = "ended" /\ status' = Killed
  /\ UNCHANGED <<setting, sent, pipe, shown>> /\ UNCHANGED child

\* pclose closes roe's end, then waits for the child.
Close ==
  /\ pc = "fwrite" /\ sent = setting.chunks
  /\ pc' = "wait"
  /\ UNCHANGED <<setting, sent, pipe, shown, status>> /\ UNCHANGED child

\* Mutant: fclose in place of pclose.
WaitNot ==
  /\ pc = "wait" /\ pc' = "return"
  /\ UNCHANGED <<setting, sent, pipe, shown, status>> /\ UNCHANGED child

Wait ==
  /\ pc = "wait" /\ pager = "gone"
  /\ pc' = "return"
  /\ UNCHANGED <<setting, sent, pipe, shown, status>> /\ UNCHANGED child

Return ==
  /\ pc = "return"
  /\ pc' = "ended" /\ status' = setting.code
  /\ UNCHANGED <<setting, sent, pipe, shown>> /\ UNCHANGED child

-----------------------------------------------------------------------------
(* The shell, the pager and the user *)

Exec ==
  /\ pager = "shell" /\ setting.runnable
  /\ pager' = "pager"
  /\ UNCHANGED <<setting, pc, sent, pipe, left, shown, status>>

\* $PAGER names no program: the shell exits, its input unread.
CommandNotFound ==
  /\ pager = "shell" /\ ~setting.runnable
  /\ pager' = "gone"
  /\ UNCHANGED <<setting, pc, sent, pipe, left, shown, status>>

\* The pager is as fast as it likes, or as the user likes.
PagerReads ==
  /\ pager = "pager" /\ pipe # <<>>
  /\ shown' = Append(shown, Head(pipe)) /\ pipe' = Tail(pipe)
  /\ UNCHANGED <<setting, pc, sent, status>> /\ UNCHANGED child

\* End of input: the pipe is empty and roe has closed it.  `less -R` then stays until the
\* user quits, other pagers end by themselves: it may happen, and may not.
PagerEnds ==
  /\ pager = "pager" /\ pipe = <<>> /\ pc \notin {"write_output", "fwrite"}
  /\ pager' = "gone"
  /\ UNCHANGED <<setting, pc, sent, pipe, left, shown, status>>

UserLeaves ==
  /\ pager = "pager"
  /\ pager' = "gone" /\ left' = TRUE
  /\ UNCHANGED <<setting, pc, sent, pipe, shown, status>>

Ended == pc = "ended" /\ pager \in {"none", "gone"} /\ UNCHANGED outputVars

Roe == WriteToStdout \/ OpenPager \/ PopenFails \/ Write \/ WriteKills \/ Close \/ Wait \/ Return

OutputNext ==
  \/ Roe
  \/ Exec \/ CommandNotFound \/ PagerReads \/ PagerEnds \/ UserLeaves
  \/ Ended

\* roe runs on and the shell starts what it can.  Of the pager and its user nothing is
\* assumed: `less -R` reads on when the user scrolls and ends when the user quits.
Fairness == WF_outputVars(Roe) /\ WF_outputVars(Exec \/ CommandNotFound)

OutputSpec == OutputInit /\ [][OutputNext]_outputVars /\ Fairness

-----------------------------------------------------------------------------
(* Properties *)

\* Through the pager or past it, the terminal gets the output once, in order, from
\* its beginning (pager.cpp:53-67).
ShownInOrder == IsPrefix(shown, Text)

\* A run whose pager could be started and was not left by the user has shown
\* everything and returns main_entry's code: SIGPIPE ends no such run, however full
\* the pipe gets (pager.cpp:55-62, main.cpp:22-25).
EverythingShown ==
  pc = "ended" /\ (pager = "none" \/ setting.runnable) /\ ~left =>
    shown = Text /\ status = setting.code

\* roe returns to the shell prompt only after the pager gave the terminal back
\* (pager.cpp:61).  A roe that SIGPIPE kills leaves none behind either.
TerminalHandedBack == pc \in {"return", "ended"} => pager \in {"none", "gone"}

\* Nobody but a pager in front of its user keeps roe: a run ends, or the pager stays for
\* ever, and roe then has given it everything, or as much as the pipe holds
\* (main.cpp:22-25, pager.cpp:53-67).
EndsUnlessPaged ==
  \/ <>(pc = "ended")
  \/ <>[](pager = "pager" /\ (pc = "wait" \/ (pc = "fwrite" /\ Len(pipe) = PipeCapacity)))
=============================================================================
