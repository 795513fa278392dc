--------------------------- MODULE WatchModeProofs ---------------------------
(***************************************************************************)
(* Proofs about WatchMode, for every number of changes, queue bound, batch *)
(* size and set of signatures: its type invariant, that no noticed change  *)
(* is lost (NoLostUpdate, from the inductive invariant Inductive), and     *)
(* that it implements LiveView.                                            *)
(***************************************************************************)
EXTENDS WatchMode, SequenceTheorems, TLAPS

-----------------------------------------------------------------------------
(* The kernel's queue.                                                     *)

\* Queueing an event keeps a queue of events (external: inotify(7)).
LEMMA EnqueueType ==
  ASSUME NEW q \in Seq(Events), NEW e \in Events
  PROVE  Enqueue(q, e) \in Seq(Events)
<1>1. "overflow" \in Events
  BY DEF Events
<1>2. Append(q, e) \in Seq(Events) /\ Append(q, "overflow") \in Seq(Events)
  BY <1>1
<1> QED
  BY <1>2 DEF Enqueue

\* An event is at the end of its queue after Append, and the others stay put.
LEMMA AppendRelevant ==
  ASSUME NEW q \in Seq(Events), NEW e \in Events
  PROVE  /\ Relevant(e) => HasRelevant(Append(q, e))
         /\ HasRelevant(q) => HasRelevant(Append(q, e))
<1>1. /\ Len(Append(q, e)) = Len(q) + 1
      /\ Append(q, e)[Len(q) + 1] = e
      /\ \A i \in 1..Len(q) : Append(q, e)[i] = q[i]
      /\ Len(q) \in Nat
  OBVIOUS
<1>2. ASSUME Relevant(e) PROVE HasRelevant(Append(q, e))
  BY <1>1, <1>2 DEF HasRelevant
<1>3. ASSUME HasRelevant(q) PROVE HasRelevant(Append(q, e))
  <2>1. PICK i \in 1..Len(q) : Relevant(q[i])
    BY <1>3 DEF HasRelevant
  <2>2. i \in 1..Len(Append(q, e)) /\ Append(q, e)[i] = q[i]
    BY <1>1, <2>1
  <2> QED
    BY <2>1, <2>2 DEF HasRelevant
<1> QED
  BY <1>2, <1>3

\* Merging equal events and dropping on overflow lose no relevant event: the
\* one it is merged with, or the overflow event, is relevant in its place.
LEMMA EnqueueRelevant ==
  ASSUME NEW q \in Seq(Events), NEW e \in Events
  PROVE  /\ Relevant(e) => HasRelevant(Enqueue(q, e))
         /\ HasRelevant(q) => HasRelevant(Enqueue(q, e))
<1>1. "overflow" \in Events /\ Relevant("overflow")
  BY DEF Events, Relevant
<1>2. CASE q # <<>> /\ q[Len(q)] = e
  <2>1. Enqueue(q, e) = q
    BY <1>2 DEF Enqueue
  <2>2. Len(q) \in 1..Len(q)
    BY <1>2, EmptySeq
  <2> QED
    BY <1>2, <2>1, <2>2 DEF HasRelevant
<1>3. CASE ~(q # <<>> /\ q[Len(q)] = e) /\ Len(q) < QueueMax
  <2>1. Enqueue(q, e) = Append(q, e)
    BY <1>3 DEF Enqueue
  <2> QED
    BY <2>1, AppendRelevant
<1>4. CASE ~(q # <<>> /\ q[Len(q)] = e) /\ ~(Len(q) < QueueMax)
  <2>1. CASE \E i \in 1..Len(q) : q[i] = "overflow"
    <3>1. Enqueue(q, e) = q
      BY <1>4, <2>1 DEF Enqueue
    <3>2. HasRelevant(q)
      BY <1>1, <2>1 DEF HasRelevant
    <3> QED
      BY <3>1, <3>2
  <2>2. CASE ~ \E i \in 1..Len(q) : q[i] = "overflow"
    <3>1. Enqueue(q, e) = Append(q, "overflow")
      BY <1>4, <2>2 DEF Enqueue
    <3>2. HasRelevant(Append(q, "overflow"))
      BY <1>1, AppendRelevant
    <3> QED
      BY <3>1, <3>2
  <2> QED
    BY <2>1, <2>2
<1> QED
  BY <1>2, <1>3, <1>4

\* Reading n events off the front loses a relevant event only if it is one of
\* the n (watcher.cpp:104-110 looks at each).
LEMMA DropIrrelevant ==
  ASSUME NEW q \in Seq(Events), NEW n \in 0..Len(q)
  PROVE  /\ SubSeq(q, n + 1, Len(q)) \in Seq(Events)
         /\ HasRelevant(q) => \/ \E i \in 1..n : Relevant(q[i])
                              \/ HasRelevant(SubSeq(q, n + 1, Len(q)))
<1> DEFINE r == SubSeq(q, n + 1, Len(q))
<1>1. n \in Nat /\ Len(q) \in Nat /\ n <= Len(q)
  OBVIOUS
<1>2. /\ r \in Seq(Events) /\ Len(r) = Len(q) - n
      /\ \A j \in 1..(Len(q) - n) : r[j] = q[n + j]
  BY <1>1
<1>3. ASSUME HasRelevant(q), ~ \E i \in 1..n : Relevant(q[i])
      PROVE  HasRelevant(r)
  <2>1. PICK i \in 1..Len(q) : Relevant(q[i])
    BY <1>3 DEF HasRelevant
  <2>2. i > n
    BY <1>1, <1>3, <2>1
  <2>3. i - n \in 1..(Len(q) - n) /\ n + (i - n) = i
    BY <1>1, <2>1, <2>2
  <2>4. r[i - n] = q[i]
    BY <1>2, <2>3
  <2> QED
    BY <1>2, <2>1, <2>3, <2>4 DEF HasRelevant
<1> QED
  BY <1>2, <1>3

-----------------------------------------------------------------------------
(* Type correctness.                                                       *)

\* What a change of the file does to every variable but disk, seen and watch.
LEMMA ChangeType ==
  ASSUME TypeOK, NEW f, NEW e \in Events \cup {""}, Change(f, e)
  PROVE  /\ queue' \in Seq(Events)
         /\ silent' \in {"no", "startup", "deleted", "unwatched", "collision"}
         /\ disk' = f
         /\ UNCHANGED roe
<1>1. queue' \in Seq(Events)
  BY EnqueueType DEF TypeOK, Change
<1>2. silent' \in {"no", "startup", "deleted", "unwatched", "collision"}
  BY DEF TypeOK, Change, Silence
<1> QED
  BY <1>1, <1>2 DEF Change

\* The next content of the file is one of Files, given room for its version.
LEMMA SuccessorType ==
  ASSUME TypeOK, disk.version < MaxEdits, NEW s \in Signatures,
         NEW st \in {"whole", "torn", "absent"}, NEW i \in 0..MaxEdits
  PROVE  /\ Successor(st, i, s) \in Files
         /\ Successor(st, i, s).version = disk.version + 1
         /\ Successor(st, i, s).state = st
         /\ Successor(st, i, s).sig = s
<1>1. disk.version \in Nat /\ MaxEdits \in Nat
  BY WatchConstants DEF TypeOK, Files
<1> QED
  BY <1>1 DEF Successor, Files

\* Every step of roe keeps the types: one step per action of watch_file.
LEMMA RoeType ==
  ASSUME TypeOK, Roe
  PROVE  TypeOK'
<1>1. CASE RejectEmptyPath
  BY <1>1 DEF TypeOK, RejectEmptyPath
<1>2. CASE RunImmediately
  BY <1>2 DEF TypeOK, RunImmediately
<1>3. CASE OpenInput
  BY <1>3 DEF TypeOK, OpenInput
<1>4. CASE FinishRun
  BY <1>4 DEF TypeOK, FinishRun
<1>5. CASE InstallWatch
  BY <1>5 DEF TypeOK, InstallWatch
<1>6. CASE FallBackToPolling
  <2>1. disk.sig \in Signatures
    BY DEF TypeOK, Files
  <2> QED
    BY <1>6, <2>1 DEF TypeOK, FallBackToPolling
<1>7. CASE ReadEvents
  <2> DEFINE n == IF Len(queue) < BatchMax THEN Len(queue) ELSE BatchMax
  <2>1. n \in 0..Len(queue)
    BY WatchConstants DEF TypeOK
  <2>2. queue' \in Seq(Events)
    BY <1>7, <2>1, DropIrrelevant DEF TypeOK, ReadEvents
  <2> QED
    BY <1>7, <2>2 DEF TypeOK, ReadEvents
<1>8. CASE ReadFails
  BY <1>8 DEF TypeOK, ReadFails
<1>9. CASE DebounceOver
  BY <1>9 DEF TypeOK, DebounceOver
<1>10. CASE PollTick
  <2>1. disk.sig \in Signatures
    BY DEF TypeOK, Files
  <2> QED
    BY <1>10, <2>1 DEF TypeOK, PollTick
<1> QED
  BY <1>1, <1>2, <1>3, <1>4, <1>5, <1>6, <1>7, <1>8, <1>9, <1>10 DEF Roe

\* Every step of the user's tools keeps the types.
LEMMA ToolsType ==
  ASSUME TypeOK, Tools
  PROVE  TypeOK'
<1>0. /\ disk.version \in 0..MaxEdits /\ disk.ino \in 0..MaxEdits
      /\ disk.sig \in Signatures /\ disk \in Files
  BY DEF TypeOK, Files
<1> DEFINE Room == disk.version < MaxEdits
<1>1. Room => disk.version + 1 \in 0..MaxEdits
  BY <1>0, WatchConstants
<1>2. ASSUME NEW f \in Files, NEW e \in Events \cup {""}, Change(f, e),
             watch' \in {"none", "live", "removed", "moved"},
             seen' \in {seen, disk'}
      PROVE  TypeOK'
  <2>1. /\ queue' \in Seq(Events) /\ disk' = f /\ UNCHANGED roe
        /\ silent' \in {"no", "startup", "deleted", "unwatched", "collision"}
    BY <1>2, ChangeType
  <2> QED
    BY <1>2, <2>1 DEF TypeOK, roe
<1>3. CASE BeginWrite
  <2>1. PICK s \in Signatures : Change(Successor("torn", disk.ino, s), "")
    BY <1>3 DEF BeginWrite
  <2>2. Successor("torn", disk.ino, s) \in Files
    BY <1>0, <2>1, SuccessorType DEF Change
  <2>3. seen' \in {seen, disk'} /\ watch' = watch
    BY <1>3 DEF BeginWrite
  <2> QED
    BY <1>2, <2>1, <2>2, <2>3 DEF TypeOK
<1>4. CASE EndWrite
  <2>1. PICK s \in Signatures : Change(Successor("whole", disk.ino, s), "close_write")
    BY <1>4 DEF EndWrite
  <2>2. Successor("whole", disk.ino, s) \in Files
    BY <1>0, <2>1, SuccessorType DEF Change
  <2>3. seen' \in {seen, disk'} /\ watch' = watch
    BY <1>4 DEF EndWrite
  <2> QED
    BY <1>2, <2>1, <2>2, <2>3 DEF TypeOK, Events
<1>5. CASE CreateFile
  <2>1. PICK s \in Signatures : Change(Successor("torn", disk.version + 1, s), "create")
    BY <1>5 DEF CreateFile
  <2>2. Successor("torn", disk.version + 1, s) \in Files
    BY <1>1, <2>1, SuccessorType DEF Change
  <2>3. seen' = seen /\ watch' = watch
    BY <1>5 DEF CreateFile
  <2> QED
    BY <1>2, <2>1, <2>2, <2>3 DEF TypeOK, Events
<1>6. CASE ReplaceFile
  <2>1. PICK s \in Signatures : Change(Successor("whole", disk.version + 1, s), "moved_to")
    BY <1>6 DEF ReplaceFile
  <2>2. Successor("whole", disk.version + 1, s) \in Files
    BY <1>1, <2>1, SuccessorType DEF Change
  <2>3. seen' = seen /\ watch' = watch
    BY <1>6 DEF ReplaceFile
  <2> QED
    BY <1>2, <2>1, <2>2, <2>3 DEF TypeOK, Events
<1>7. CASE DeleteFile
  <2>1. Change(Successor("absent", disk.ino, disk.sig), "") /\ seen' = seen /\ watch' = watch
    BY <1>7 DEF DeleteFile
  <2>2. Successor("absent", disk.ino, disk.sig) \in Files
    BY <1>0, <2>1, SuccessorType DEF Change
  <2> QED
    BY <1>2, <2>1, <2>2 DEF TypeOK
<1>8. CASE RecreateDirectory
  <2>1. queue' \in Seq(Events)
    <3>1. Enqueue(queue, "self") \in Seq(Events)
      BY EnqueueType DEF TypeOK, Events
    <3> QED
      BY <1>8, <3>1, EnqueueType DEF RecreateDirectory, Events
  <2> QED
    BY <1>8, <2>1 DEF TypeOK, RecreateDirectory, roe
<1>9. CASE MoveDirectory
  <2>1. /\ Change(Successor("absent", disk.ino, disk.sig), "self")
        /\ seen' = seen /\ watch' = "moved"
    BY <1>9 DEF MoveDirectory
  <2>2. Successor("absent", disk.ino, disk.sig) \in Files
    BY <1>0, <2>1, SuccessorType DEF Change
  <2> QED
    BY <1>2, <2>1, <2>2 DEF TypeOK, Events
<1>10. CASE TouchOther
  <2>1. queue' \in Seq(Events)
    BY <1>10, EnqueueType DEF TouchOther, TypeOK, Events
  <2> QED
    BY <1>10, <2>1 DEF TypeOK, TouchOther, roe
<1> QED
  BY <1>3, <1>4, <1>5, <1>6, <1>7, <1>8, <1>9, <1>10 DEF Tools

\* The states of watch_file, of the file and of the kernel's queue stay within
\* their types, whatever the tools do and however long roe runs.
THEOREM TypeCorrect == Spec => []TypeOK
<1>1. Init => TypeOK
  <2> SUFFICES ASSUME Init PROVE TypeOK
    OBVIOUS
  <2>1. disk \in Files /\ seen \in Files /\ queue \in Seq(Events)
    BY DEF Init
  <2> QED
    BY <2>1 DEF Init, TypeOK
<1>2. TypeOK /\ [Next]_vars => TypeOK'
  <2> SUFFICES ASSUME TypeOK, [Next]_vars PROVE TypeOK'
    OBVIOUS
  <2>1. CASE UNCHANGED vars
    BY <2>1 DEF TypeOK, vars
  <2> QED
    BY <2>1, RoeType, ToolsType DEF Next
<1> QED
  BY <1>1, <1>2, PTL DEF Spec

-----------------------------------------------------------------------------
(* The inductive invariant.                                                *)

\* Every step of roe keeps OneBackend and Ordered.
LEMMA RoeOrder ==
  ASSUME TypeOK, OneBackend, Ordered, Roe
  PROVE  OneBackend' /\ Ordered'
<1>0. seen.version \in Nat /\ shown.version \in Nat /\ disk.version \in Nat
  BY DEF TypeOK, Files, Nothing
<1>1. CASE RejectEmptyPath
  BY <1>1 DEF OneBackend, Ordered, Polling, RejectEmptyPath
<1>2. CASE RunImmediately
  BY <1>2 DEF OneBackend, Ordered, Polling, RunImmediately
<1>3. CASE OpenInput
  BY <1>0, <1>3 DEF OneBackend, Ordered, Polling, OpenInput
<1>4. CASE FinishRun
  BY <1>0, <1>4 DEF TypeOK, OneBackend, Ordered, Polling, FinishRun
<1>5. CASE InstallWatch
  BY <1>5 DEF OneBackend, Ordered, Polling, InstallWatch
<1>6. CASE FallBackToPolling
  BY <1>6 DEF OneBackend, Ordered, Polling, FallBackToPolling
<1>7. CASE ReadEvents
  BY <1>7 DEF OneBackend, Ordered, Polling, ReadEvents
<1>8. CASE ReadFails
  BY <1>8 DEF OneBackend, Ordered, Polling, ReadFails
<1>9. CASE DebounceOver
  BY <1>9 DEF OneBackend, Ordered, Polling, DebounceOver
<1>10. CASE PollTick
  BY <1>10 DEF OneBackend, Ordered, Polling, PollTick
<1> QED
  BY <1>1, <1>2, <1>3, <1>4, <1>5, <1>6, <1>7, <1>8, <1>9, <1>10 DEF Roe

\* Every step of roe leaves the screen fresh, or a run owed.
LEMMA RoeFresh ==
  ASSUME TypeOK, OneBackend, FreshOrOwed, Roe
  PROVE  FreshOrOwed'
<1>1. CASE RejectEmptyPath
  BY <1>1 DEF FreshOrOwed, RejectEmptyPath
<1>2. CASE RunImmediately
  BY <1>2 DEF FreshOrOwed, RunOwed, RunImmediately
<1>3. CASE OpenInput
  BY <1>3 DEF FreshOrOwed, Fresh, OpenInput
<1>4. CASE FinishRun
  BY <1>4 DEF TypeOK, FreshOrOwed, Fresh, RunOwed, HasRelevant, Polling, FinishRun
<1>5. CASE InstallWatch
  BY <1>5 DEF FreshOrOwed, Fresh, RunOwed, HasRelevant, Polling, InstallWatch
<1>6. CASE FallBackToPolling
  BY <1>6 DEF OneBackend, FreshOrOwed, Fresh, RunOwed, HasRelevant, Polling, FallBackToPolling
<1>7. CASE ReadEvents
  <2> DEFINE n == IF Len(queue) < BatchMax THEN Len(queue) ELSE BatchMax
  <2>1. n \in 0..Len(queue)
    BY WatchConstants DEF TypeOK
  <2>2. HasRelevant(queue) => HasRelevant(queue)' \/ pc' = "debounce"
    BY <1>7, <2>1, DropIrrelevant DEF TypeOK, ReadEvents, HasRelevant
  <2> QED
    BY <1>7, <2>2 DEF FreshOrOwed, Fresh, RunOwed, Polling, ReadEvents
<1>8. CASE ReadFails
  BY <1>8 DEF FreshOrOwed, ReadFails
<1>9. CASE DebounceOver
  BY <1>9 DEF FreshOrOwed, RunOwed, DebounceOver
<1>10. CASE PollTick
  BY <1>10 DEF FreshOrOwed, RunOwed, PollTick
<1> QED
  BY <1>1, <1>2, <1>3, <1>4, <1>5, <1>6, <1>7, <1>8, <1>9, <1>10 DEF Roe

\* A change gives the file the next version; all it can do to what was read is
\* to move it there too.
LEMMA ToolsVersion ==
  ASSUME TypeOK, Tools
  PROVE  /\ disk'.version \in {disk.version, disk.version + 1}
         /\ seen' = seen \/ seen' = disk'
         /\ UNCHANGED roe
<1>0. /\ disk.version \in 0..MaxEdits /\ disk.ino \in 0..MaxEdits /\ disk.sig \in Signatures
      /\ disk.version < MaxEdits => disk.version + 1 \in 0..MaxEdits
  BY WatchConstants DEF TypeOK, Files
<1>1. ASSUME NEW st, NEW i, NEW s, NEW e, Change(Successor(st, i, s), e)
      PROVE  disk'.version = disk.version + 1 /\ UNCHANGED roe
  BY <1>1 DEF Change, Successor
<1>2. CASE BeginWrite
  BY <1>1, <1>2 DEF BeginWrite
<1>3. CASE EndWrite
  BY <1>1, <1>3 DEF EndWrite
<1>4. CASE CreateFile
  BY <1>1, <1>4 DEF CreateFile
<1>5. CASE ReplaceFile
  BY <1>1, <1>5 DEF ReplaceFile
<1>6. CASE DeleteFile
  BY <1>1, <1>6 DEF DeleteFile
<1>7. CASE RecreateDirectory
  BY <1>7 DEF RecreateDirectory
<1>8. CASE MoveDirectory
  BY <1>1, <1>8 DEF MoveDirectory
<1>9. CASE TouchOther
  BY <1>9 DEF TouchOther
<1> QED
  BY <1>2, <1>3, <1>4, <1>5, <1>6, <1>7, <1>8, <1>9 DEF Tools

\* The tools reach the queue only through a watch that is there.
LEMMA ToolsOrder ==
  ASSUME TypeOK, OneBackend, Ordered, Tools
  PROVE  OneBackend' /\ Ordered'
<1>1. seen.version \in Nat /\ shown.version \in Nat /\ disk.version \in Nat
  BY DEF TypeOK, Files, Nothing
<1>2. Ordered'
  BY <1>1, ToolsVersion DEF Ordered, roe
<1>3. watch = "none" => watch' = "none" /\ queue' = queue
  BY DEF Tools, BeginWrite, EndWrite, CreateFile, ReplaceFile, DeleteFile,
         RecreateDirectory, MoveDirectory, TouchOther, Change
<1>4. watch # "none" => watch' # "none"
  BY DEF Tools, BeginWrite, EndWrite, CreateFile, ReplaceFile, DeleteFile,
         RecreateDirectory, MoveDirectory, TouchOther
<1>5. OneBackend'
  BY <1>3, <1>4, ToolsVersion DEF OneBackend, Polling, roe
<1> QED
  BY <1>2, <1>5

\* A finished change is noticed by the backend, which then owes a run, or is of
\* a kind that history records as silent; an unfinished one is torn.
LEMMA ChangeOwed ==
  ASSUME TypeOK, NEW f \in Files, f.state # "torn", NEW e \in Events \cup {""},
         e = "" \/ Relevant(e), e = "" => f.state = "absent",
         watch' = watch \/ watch' = "moved",
         Change(f, e), silent' = "no"
  PROVE  RunOwed'
<1>1. CASE Polling
  <2>1. f.state # "absent" /\ f.sig # base
    BY <1>1 DEF Change, Silence
  <2> QED
    BY <1>1, <2>1 DEF Change, roe, RunOwed, Polling
<1>2. CASE ~Polling
  <2>1. watch = "live" /\ e # ""
    BY <1>2 DEF Change, Silence
  <2>2. HasRelevant(queue')
    BY <2>1, EnqueueRelevant DEF TypeOK, Change
  <2> QED
    BY <2>2 DEF RunOwed, HasRelevant
<1> QED
  BY <1>1, <1>2

\* No step of the user's tools leaves a noticed change without a run owed.
LEMMA ToolsFresh ==
  ASSUME TypeOK, FreshOrOwed, Tools
  PROVE  FreshOrOwed'
<1>0. /\ disk.version \in 0..MaxEdits /\ disk.ino \in 0..MaxEdits /\ disk.sig \in Signatures
      /\ disk.version < MaxEdits => disk.version + 1 \in 0..MaxEdits
  BY WatchConstants DEF TypeOK, Files
<1>1. CASE BeginWrite
  <2>1. PICK s \in Signatures : Change(Successor("torn", disk.ino, s), "")
    BY <1>1 DEF BeginWrite
  <2>2. disk'.state = "torn"
    BY <2>1 DEF Change, Successor
  <2> QED
    BY <2>2 DEF FreshOrOwed
<1>2. CASE CreateFile
  <2>1. PICK s \in Signatures : Change(Successor("torn", disk.version + 1, s), "create")
    BY <1>2 DEF CreateFile
  <2>2. disk'.state = "torn"
    BY <2>1 DEF Change, Successor
  <2> QED
    BY <2>2 DEF FreshOrOwed
<1>3. CASE EndWrite
  <2>1. PICK s \in Signatures : Change(Successor("whole", disk.ino, s), "close_write")
    BY <1>3 DEF EndWrite
  <2>2. /\ Successor("whole", disk.ino, s) \in Files
        /\ Successor("whole", disk.ino, s).state = "whole"
    BY <1>0, <2>1, SuccessorType DEF Change
  <2>3. silent' = "no" => RunOwed'
    <3>1. "close_write" \in Events /\ Relevant("close_write") /\ watch' = watch
      BY <1>3 DEF Events, Relevant, EndWrite
    <3> QED
      BY <2>1, <2>2, <3>1, ChangeOwed
  <2> QED
    BY <2>3 DEF FreshOrOwed
<1>4. CASE ReplaceFile
  <2>1. PICK s \in Signatures : Change(Successor("whole", disk.version + 1, s), "moved_to")
    BY <1>4 DEF ReplaceFile
  <2>2. /\ Successor("whole", disk.version + 1, s) \in Files
        /\ Successor("whole", disk.version + 1, s).state = "whole"
    BY <1>0, <2>1, SuccessorType DEF Change
  <2>3. silent' = "no" => RunOwed'
    <3>1. "moved_to" \in Events /\ Relevant("moved_to") /\ watch' = watch
      BY <1>4 DEF Events, Relevant, ReplaceFile
    <3> QED
      BY <2>1, <2>2, <3>1, ChangeOwed
  <2> QED
    BY <2>3 DEF FreshOrOwed
<1>5. CASE DeleteFile
  <2>1. Change(Successor("absent", disk.ino, disk.sig), "") /\ watch' = watch
    BY <1>5 DEF DeleteFile
  <2>2. /\ Successor("absent", disk.ino, disk.sig) \in Files
        /\ Successor("absent", disk.ino, disk.sig).state = "absent"
    BY <1>0, <2>1, SuccessorType DEF Change
  <2>3. silent' = "no" => RunOwed'
    BY <2>1, <2>2, ChangeOwed
  <2> QED
    BY <2>3 DEF FreshOrOwed
<1>6. CASE MoveDirectory
  <2>1. Change(Successor("absent", disk.ino, disk.sig), "self") /\ watch' = "moved"
    BY <1>6 DEF MoveDirectory
  <2>2. /\ Successor("absent", disk.ino, disk.sig) \in Files
        /\ Successor("absent", disk.ino, disk.sig).state = "absent"
    BY <1>0, <2>1, SuccessorType DEF Change
  <2>3. silent' = "no" => RunOwed'
    <3>1. "self" \in Events /\ Relevant("self")
      BY DEF Events, Relevant
    <3> QED
      BY <2>1, <2>2, <3>1, ChangeOwed
  <2> QED
    BY <2>3 DEF FreshOrOwed
<1>7. CASE RecreateDirectory
  <2>1. HasRelevant(queue')
    <3>1. Enqueue(queue, "self") \in Seq(Events)
      BY EnqueueType DEF TypeOK, Events
    <3> QED
      BY <1>7, <3>1, EnqueueRelevant DEF RecreateDirectory, Events, Relevant
  <2> QED
    BY <2>1 DEF FreshOrOwed, RunOwed, HasRelevant
<1>8. CASE TouchOther
  <2>1. HasRelevant(queue) => HasRelevant(queue')
    BY <1>8, EnqueueRelevant DEF TouchOther, TypeOK, Events
  <2> QED
    BY <1>8, <2>1 DEF FreshOrOwed, Fresh, RunOwed, HasRelevant, Polling, TouchOther, roe
<1> QED
  BY <1>1, <1>2, <1>3, <1>4, <1>5, <1>6, <1>7, <1>8 DEF Tools

\* Every noticed change of the file has a run of the callback still to come, on
\* whichever backend, through any interleaving of roe and the user's tools.
THEOREM Invariance == Spec => []Inductive
<1>1. Init => Inductive
  BY DEF Init, Inductive, FreshOrOwed, RunOwed, OneBackend, Ordered, Polling, Files, Nothing
<1>2. TypeOK /\ Inductive /\ [Next]_vars => Inductive'
  <2> SUFFICES ASSUME TypeOK, Inductive, [Next]_vars PROVE Inductive'
    OBVIOUS
  <2>1. CASE UNCHANGED vars
    BY <2>1 DEF Inductive, FreshOrOwed, Fresh, RunOwed, HasRelevant, OneBackend, Ordered,
                Polling, vars
  <2>2. CASE Next
    BY <2>2, RoeOrder, RoeFresh, ToolsOrder, ToolsFresh DEF Inductive, Next
  <2> QED
    BY <2>1, <2>2
<1> QED
  BY <1>1, <1>2, TypeCorrect, PTL DEF Spec

\* When roe has nothing left to react to, the screen shows the file as it is,
\* but for the four kinds of change its backends cannot notice.
THEOREM NoUpdateIsLost == Spec => []NoLostUpdate
<1>1. TypeOK /\ Inductive => NoLostUpdate
  <2> SUFFICES ASSUME TypeOK, Inductive, Idle, silent = "no", disk.state # "torn"
               PROVE  shown = disk
    BY DEF NoLostUpdate
  <2>1. ~HasRelevant(queue)
    BY DEF Idle, Inductive, OneBackend, Polling, HasRelevant
  <2>2. ~RunOwed
    BY <2>1 DEF Idle, RunOwed, Inductive, OneBackend, Polling
  <2> QED
    BY <2>2 DEF Inductive, FreshOrOwed, Fresh, Idle
<1> QED
  BY <1>1, TypeCorrect, Invariance, PTL

\* Watch mode implements LiveView: each step of roe's is a refresh or a stutter,
\* each step of the tools' an edit or a stutter.
THEOREM Refinement == Spec => ImplementsLiveView
<1>1. Init => View!Init
  BY DEF Init, View!Init, Nothing, Files
<1>2. TypeOK /\ Inductive /\ [Next]_vars => [View!Next]_<<disk.version, shown.version>>
  <2> SUFFICES ASSUME TypeOK, Inductive, [Next]_vars
               PROVE  [View!Next]_<<disk.version, shown.version>>
    OBVIOUS
  <2>0. /\ seen.version \in Nat /\ shown.version \in Nat /\ disk.version \in Nat
        /\ shown.version <= seen.version /\ seen.version <= disk.version
    BY DEF TypeOK, Files, Nothing, Inductive, Ordered
  <2>1. CASE UNCHANGED vars
    BY <2>1 DEF vars
  <2>2. CASE Tools
    BY <2>0, <2>2, ToolsVersion DEF roe, View!Next, View!Edit
  <2>3. CASE FinishRun
    BY <2>0, <2>3 DEF FinishRun, View!Next, View!Refresh
  <2>4. CASE Roe /\ ~FinishRun
    BY <2>4 DEF Roe, RejectEmptyPath, RunImmediately, OpenInput, InstallWatch,
                FallBackToPolling, ReadEvents, ReadFails, DebounceOver, PollTick
  <2> QED
    BY <2>1, <2>2, <2>3, <2>4 DEF Next
<1> QED
  BY <1>1, <1>2, TypeCorrect, Invariance, PTL DEF Spec, ImplementsLiveView, View!Spec
=============================================================================
