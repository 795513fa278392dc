------------------------------ MODULE WatchMode ------------------------------
(***************************************************************************)
(* Watch mode (`roe <file> --watch`): cli::run hands watcher::watch_file a *)
(* callback that executes the whole command once, and watch_file calls it  *)
(* at start-up and then after every change it is told of.  Three parties   *)
(* run concurrently:                                                       *)
(*   - roe, one thread: watch_file, its inotify or polling loop, and the   *)
(*     callback, which opens and reads the file (binary::load_file);       *)
(*   - the user's tools, which rewrite, replace, delete and recreate the   *)
(*     file and its directory at any moment, also in the middle of a read; *)
(*   - the kernel's inotify queue for the file's directory.                *)
(*                                                                         *)
(* Contents are abstracted to a version number: every change of the file   *)
(* gives it the next one.  `shown` is what the last execution printed, and *)
(* the question is whether it can stay behind `disk`.                      *)
(***************************************************************************)
EXTENDS Naturals, Sequences

CONSTANTS
  MaxEdits,   \* bound: changes of the file made by the user's tools
  QueueMax,   \* the kernel's max_queued_events
  BatchMax,   \* how many events one 4096-byte read can return
  Signatures  \* values file_signature can compute

ASSUME WatchConstants ==
  /\ MaxEdits \in Nat
  /\ QueueMax \in Nat \ {0}
  /\ BatchMax \in Nat \ {0}
  /\ Signatures \subseteq Nat /\ Signatures # {}

VARIABLES
  pc,     \* where roe's thread is
  after,  \* where watch_file continues when the callback returns
  disk,   \* the file at `path`
  seen,   \* what the callback in progress has read
  shown,  \* what the last completed callback printed
  watch,  \* the inotify watch on the directory now at the file's parent path
  queue,  \* inotify events not read yet
  base,   \* poll_loop's `state`: the signature it last saw
  silent  \* history: why the last change since the last open went unnoticed

vars == <<pc, after, disk, seen, shown, watch, queue, base, silent>>
roe  == <<pc, after, shown, base>>

-----------------------------------------------------------------------------
(* The file.  "torn": a writer has truncated it and not closed it yet.     *)
(* ino is the version that created the inode, sig what stat() makes of it. *)

Files == [version : 0..MaxEdits, state : {"whole", "torn", "absent"},
          ino : 0..MaxEdits, sig : Signatures]

\* Nothing has been printed before the first callback returns.
Nothing == [version |-> 0, state |-> "nothing"]

\* The events of the watch's mask: three name the file itself, "other" another
\* file of the directory, and three carry no name (event->len == 0).
Events == {"create", "close_write", "moved_to", "other",
           "self", "ignored", "overflow"}

\* Mutant: the name is compared without looking at event->len.
RelevantByName(e) == e \in {"create", "close_write", "moved_to"}

\* if (event->len == 0 || filename == event->name) changed = true;
Relevant(e) == e # "other"

HasRelevant(q) == \E i \in 1..Len(q) : Relevant(q[i])

\* The kernel merges an event equal to the last one queued, and replaces
\* what does not fit by a single overflow event.
Enqueue(q, e) ==
  IF q # <<>> /\ q[Len(q)] = e THEN q
  ELSE IF Len(q) < QueueMax THEN Append(q, e)
  ELSE IF \E i \in 1..Len(q) : q[i] = "overflow" THEN q
  ELSE Append(q, "overflow")

Init ==
  /\ pc = "start" /\ after = "install"
  /\ disk \in {f \in Files : f.version = 0 /\ f.ino = 0 /\ f.state # "torn"}
  /\ seen = disk /\ shown = Nothing
  /\ watch = "none" /\ queue = <<>>
  /\ base = 0
  /\ silent = "no"

-----------------------------------------------------------------------------
(* roe: cli::run and watcher::watch_file                                   *)

\* An empty path is a usage error; nothing is watched.
RejectEmptyPath ==
  /\ pc = "start"
  /\ pc' = "exit_usage"
  /\ UNCHANGED <<after, disk, seen, shown, watch, queue, base, silent>>

\* run_immediately: the callback runs before any backend is set up.
RunImmediately ==
  /\ pc = "start"
  /\ pc' = "open"
  /\ UNCHANGED <<after, disk, seen, shown, watch, queue, base, silent>>

\* The callback: load_file opens the file.  From here it reads this inode.
OpenInput ==
  /\ pc = "open"
  /\ pc' = "reading" /\ seen' = disk /\ silent' = "no"
  /\ UNCHANGED <<after, disk, shown, watch, queue, base>>

\* Mutant: the screen is cleared after a run that could not open the file.
FinishRunClearing ==
  /\ pc = "reading"
  /\ shown' = IF seen.state = "absent" THEN Nothing ELSE seen
  /\ pc' = after
  /\ UNCHANGED <<after, disk, seen, watch, queue, base, silent>>

\* The callback returns; execute's exit code is discarded, also on an error.
FinishRun ==
  /\ pc = "reading"
  /\ shown' = seen /\ pc' = after
  /\ UNCHANGED <<after, disk, seen, watch, queue, base, silent>>

\* inotify_init1 and inotify_add_watch on the parent directory succeed.
InstallWatch ==
  /\ pc = "install"
  /\ pc' = "wait" /\ watch' = "live"
  /\ UNCHANGED <<after, disk, seen, shown, queue, base, silent>>

\* Either of them fails (no directory, no descriptors left): poll_loop, which
\* first primes its baseline.
FallBackToPolling ==
  /\ pc = "install"
  /\ pc' = "sleep"
  /\ base' = IF disk.state = "absent" THEN base ELSE disk.sig
  /\ UNCHANGED <<after, disk, seen, shown, watch, queue, silent>>

\* Mutant: only the first event of a batch is looked at.
ReadFirstEvent ==
  /\ pc = "wait" /\ queue # <<>>
  /\ LET n == IF Len(queue) < BatchMax THEN Len(queue) ELSE BatchMax IN
       /\ queue' = SubSeq(queue, n + 1, Len(queue))
       /\ pc' = IF Relevant(queue[1]) THEN "debounce" ELSE "wait"
  /\ UNCHANGED <<after, disk, seen, shown, watch, base, silent>>

\* read() returns a batch; sleep(debounce) only if an event in it matters.
ReadEvents ==
  /\ pc = "wait" /\ queue # <<>>
  /\ LET n == IF Len(queue) < BatchMax THEN Len(queue) ELSE BatchMax IN
       /\ queue' = SubSeq(queue, n + 1, Len(queue))
       /\ pc' = IF \E i \in 1..n : Relevant(queue[i]) THEN "debounce" ELSE "wait"
  /\ UNCHANGED <<after, disk, seen, shown, watch, base, silent>>

\* read() fails other than by EINTR: the loop ends and watch_file returns ok.
ReadFails ==
  /\ pc = "wait"
  /\ pc' = "exit_ok"
  /\ UNCHANGED <<after, disk, seen, shown, watch, queue, base, silent>>

\* Mutant: the loop to return to is taken from where the thread is.
DebounceReturning ==
  /\ pc = "debounce"
  /\ pc' = "open" /\ after' = pc
  /\ UNCHANGED <<disk, seen, shown, watch, queue, base, silent>>

\* Mutant: a burst is coalesced by going back to read() after the sleep.
DebounceAgain ==
  /\ pc = "debounce"
  /\ pc' = (IF queue = <<>> THEN "wait" ELSE "open") /\ after' = "wait"
  /\ UNCHANGED <<disk, seen, shown, watch, queue, base, silent>>

\* sleep_for(options.debounce), then the callback, whatever arrived meanwhile.
DebounceOver ==
  /\ pc = "debounce"
  /\ pc' = "open" /\ after' = "wait"
  /\ UNCHANGED <<disk, seen, shown, watch, queue, base, silent>>

\* detail::changed_since: a missing file is "unchanged" and keeps the baseline.
PollTick ==
  /\ pc = "sleep"
  /\ disk.state # "absent" /\ disk.sig # base
  /\ base' = disk.sig
  /\ pc' = "open" /\ after' = "sleep"
  /\ UNCHANGED <<disk, seen, shown, watch, queue, silent>>

Roe ==
  \/ RejectEmptyPath \/ RunImmediately \/ OpenInput \/ FinishRun
  \/ InstallWatch \/ FallBackToPolling \/ ReadEvents \/ ReadFails
  \/ DebounceOver \/ PollTick

-----------------------------------------------------------------------------
(* The user's tools and the kernel                                         *)

Polling == pc = "sleep" \/ after = "sleep"

\* Does the backend learn of a change to f that the directory's watch reports
\* as event e ("" for none)?  "no" when it does.
Silence(f, e) ==
  IF Polling
  THEN IF f.state = "absent" THEN "deleted"
       ELSE IF f.sig = base THEN "collision" ELSE "no"
  ELSE IF watch = "none" THEN "startup"
  ELSE IF watch # "live" THEN "unwatched"
  ELSE IF e # "" THEN "no"
  ELSE IF f.state = "absent" THEN "deleted" ELSE silent

\* The file becomes f.
Change(f, e) ==
  /\ disk.version < MaxEdits
  /\ disk' = f
  /\ queue' = IF watch = "live" /\ e # "" THEN Enqueue(queue, e) ELSE queue
  /\ silent' = Silence(f, e)
  /\ UNCHANGED roe

Successor(state, ino, s) ==
  [version |-> disk.version + 1, state |-> state, ino |-> ino, sig |-> s]

\* A callback is reading the inode now at `path`.
ReadingDisk == pc = "reading" /\ seen.state # "absent" /\ seen.ino = disk.ino

\* open(O_TRUNC) for an in-place write: no event of the mask.  A callback that
\* is reading this inode has read all of it, or gets a mixture of both contents.
BeginWrite ==
  /\ disk.state = "whole"
  /\ \E s \in Signatures : Change(Successor("torn", disk.ino, s), "")
  /\ seen' \in IF ReadingDisk THEN {seen, disk'} ELSE {seen}
  /\ UNCHANGED watch

\* close() after writing; the callback may have read all of it by now, or not.
EndWrite ==
  /\ disk.state = "torn"
  /\ \E s \in Signatures : Change(Successor("whole", disk.ino, s), "close_write")
  /\ seen' \in IF ReadingDisk THEN {seen, disk'} ELSE {seen}
  /\ UNCHANGED watch

\* open(O_CREAT) of a file that is not there.
CreateFile ==
  /\ disk.state = "absent"
  /\ \E s \in Signatures : Change(Successor("torn", disk.version + 1, s), "create")
  /\ UNCHANGED <<seen, watch>>

\* rename() of a finished file to the name, over the present one or not.
ReplaceFile ==
  /\ \E s \in Signatures : Change(Successor("whole", disk.version + 1, s), "moved_to")
  /\ UNCHANGED <<seen, watch>>

\* unlink(): neither IN_DELETE nor IN_MOVED_FROM is in the watch's mask.
DeleteFile ==
  /\ disk.state = "whole"
  /\ Change(Successor("absent", disk.ino, disk.sig), "")
  /\ UNCHANGED <<seen, watch>>

\* rmdir() of the emptied directory, which is then made anew: the kernel drops
\* the watch with the old directory's inode.
RecreateDirectory ==
  /\ watch = "live" /\ disk.state = "absent"
  /\ watch' = "removed"
  /\ queue' = Enqueue(Enqueue(queue, "self"), "ignored")
  /\ UNCHANGED <<disk, seen, silent>> /\ UNCHANGED roe

\* rename() of the directory and all in it; a new one takes its name, and the
\* watch goes on reporting what happens in the old one.
MoveDirectory ==
  /\ watch = "live"
  /\ Change(Successor("absent", disk.ino, disk.sig), "self")
  /\ watch' = "moved"
  /\ UNCHANGED seen

\* Something else happens in the directory the watch is on.
TouchOther ==
  /\ \/ watch = "live"  /\ queue' = Enqueue(queue, "other")
     \/ watch = "moved" /\ \E e \in {"other", "close_write"} : queue' = Enqueue(queue, e)
  /\ UNCHANGED <<disk, seen, watch, silent>> /\ UNCHANGED roe

Tools ==
  \/ BeginWrite \/ EndWrite \/ CreateFile \/ ReplaceFile \/ DeleteFile
  \/ RecreateDirectory \/ MoveDirectory \/ TouchOther

Next == Roe \/ Tools

Spec == Init /\ [][Next]_vars

\* The scheduler keeps running roe's thread; nothing obliges the user to edit,
\* an empty path is not a step anybody owes, and read() need not fail.
Fairness ==
  WF_vars(RunImmediately \/ OpenInput \/ FinishRun \/ InstallWatch
          \/ FallBackToPolling \/ ReadEvents \/ DebounceOver \/ PollTick)

FairSpec == Spec /\ Fairness

-----------------------------------------------------------------------------
(* Properties                                                              *)

TypeOK ==
  /\ pc \in {"start", "open", "reading", "install", "wait", "debounce",
             "sleep", "exit_ok", "exit_usage"}
  /\ after \in {"install", "wait", "sleep"}
  /\ disk \in Files /\ seen \in Files /\ shown \in Files \cup {Nothing}
  /\ watch \in {"none", "live", "removed", "moved"}
  /\ queue \in Seq(Events)
  /\ base \in Signatures \cup {0}
  /\ silent \in {"no", "startup", "deleted", "unwatched", "collision"}

\* Whenever roe sits in read() with nothing queued, or in the poll sleep with
\* the signature unchanged, the screen shows the file as it is -- unless a
\* writer still has it open, or the last change is one of the four kinds the
\* backends cannot notice: made before the watch was installed, a deletion, in a
\* directory no longer watched, or with the signature of the baseline
\* (watcher.cpp:82, 91, 95 and 67).
Idle ==
  \/ pc = "wait" /\ queue = <<>>
  \/ pc = "sleep" /\ (disk.state = "absent" \/ disk.sig = base)

NoLostUpdate ==
  Idle /\ silent = "no" /\ disk.state # "torn" => shown = disk

\* Why NoLostUpdate is inductive: if the newest read or printed version is not
\* the file's, then somebody still owes a run of the callback.
Fresh == IF pc = "reading" THEN seen = disk ELSE shown = disk

RunOwed ==
  \/ pc \in {"start", "debounce", "open"}
  \/ HasRelevant(queue)
  \/ Polling /\ disk.state # "absent" /\ disk.sig # base

FreshOrOwed ==
  \/ pc \in {"exit_ok", "exit_usage"}
  \/ Fresh \/ RunOwed \/ silent # "no" \/ disk.state = "torn"

\* ... and the two backends never run together: only the inotify loop has a
\* watch and a queue (watcher.cpp:94, 118 and 123).
OneBackend ==
  /\ pc = "install" => after = "install"
  /\ pc \in {"wait", "debounce"} => after # "sleep"
  /\ pc \in {"start", "open", "reading", "install"} /\ after = "install" => watch = "none"
  /\ Polling => watch = "none"
  /\ watch = "none" => queue = <<>>

\* What is printed was read, and what is read was written.
Ordered == shown.version <= seen.version /\ seen.version <= disk.version

\* The inductive invariant of watch mode: no step of roe's thread, the kernel
\* or the user's tools leaves a noticed change without a pending run
\* (watcher.cpp:76-124 with cli.cpp:1353-1360).
Inductive == FreshOrOwed /\ OneBackend /\ Ordered

\* Watch mode implements LiveView: the screen never goes back to older contents
\* of the file, whatever is renamed or rewritten while a callback reads it, and
\* never shows what the file has not held (cli.cpp:1353-1360, binary.cpp:95-112).
View == INSTANCE LiveView WITH current <- disk.version, displayed <- shown.version
ImplementsLiveView == View!Spec

\* Every finished change that the backend can notice is on the screen sooner or
\* later; under polling a later change may hide it (watcher.cpp:94-115, 49-54).
EveryNoticedChangeShown ==
  \A v \in 1..MaxEdits :
    disk.version = v /\ disk.state # "torn" /\ silent = "no"
      ~> \/ shown.version >= v
         \/ pc \in {"exit_ok", "exit_usage"}
         \/ Polling /\ silent # "no"

=============================================================================
