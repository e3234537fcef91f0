------------------------------- MODULE Emitter -------------------------------
(***************************************************************************)
(* subp_emitter: runs a command and hands its output on, line by line.     *)
(*                                                                         *)
(* The child writes into a pipe; the parent polls it, appends what it has  *)
(* read to a buffer that grows, and cuts the lines off its front.  The     *)
(* caller gets a last piece without a line end, and a call of done, when   *)
(* the pipe is at its end and the child has exited.                        *)
(***************************************************************************)
EXTENDS Naturals, Sequences, SequencesExt, FiniteSetsExt

CONSTANTS Byte,      \* the bytes a child writes
          NL, NUL,   \* the line end, and the byte that ends a string
          MaxText,   \* bound: how many bytes a child writes
          PipeSize,  \* how many of them the pipe holds
          Chunk,     \* how many of them a read returns at most
          BuffSize   \* what ct_strbuff_init allocates

ASSUME ByteAssumption == {NL, NUL} \subseteq Byte /\ NL # NUL
ASSUME SizeAssumption ==
    MaxText \in Nat /\ {PipeSize, Chunk, BuffSize} \subseteq Nat \ {0}

VARIABLES
    async,    \* CT_SUBP_ASYNC
    pc,       \* what the parent does next
    writers,  \* who has the writing end of the pipe open
    alive,    \* the child has not exited
    text,     \* what the child writes if it is not killed
    todo,     \* how many bytes of it are still to be written
    pipe,     \* what of it is in the pipe
    exited,   \* what the parent knows of the child
    str,      \* sbuff->str, its first sbuff->len bytes
    size,     \* sbuff->size
    ptr,      \* where in str the scan for a line end starts, 0 if ptr is stale
    lines,    \* what has been emitted
    missed,   \* history: a scan has stopped before the end of the buffer
    stray     \* history: a scan has found a line end in freed memory

child == <<writers, alive, text, todo>>
sbuff == <<str, size, ptr>>
output == <<lines, missed, stray>>
vars == <<async, pc, child, pipe, exited, sbuff, output>>

Steps == {"start", "wait", "poll", "read", "scan", "reap", "done", "crashed"}
Texts == BoundedSeq(Byte, MaxText)

(* What a size is multiplied by when it is doubled k times.                *)
Doubled[k \in Nat] == IF k = 0 THEN 1 ELSE 2 * Doubled[k - 1]

TypeOK ==
    /\ async \in BOOLEAN
    /\ pc \in Steps
    /\ writers \subseteq {"parent", "child"}
    /\ alive \in BOOLEAN
    /\ text \in Texts
    /\ todo \in 0..Len(text)
    /\ pipe \in Texts /\ Len(pipe) <= PipeSize
    /\ exited \in BOOLEAN
    /\ str \in Texts /\ Len(str) < size
    /\ size \in {BuffSize * Doubled[k] : k \in 0..MaxText}
    /\ ptr \in 0..MaxText + 1
    /\ lines \in Seq(Texts)
    /\ missed \in BOOLEAN
    /\ stray \in BOOLEAN

Init ==
    /\ async \in BOOLEAN
    /\ pc = "start"
    /\ writers = {}
    /\ alive = FALSE
    /\ text \in Texts
    /\ todo = Len(text)
    /\ pipe = <<>>
    /\ exited = FALSE
    /\ str = <<>>
    /\ size = BuffSize
    /\ ptr = 1
    /\ lines = <<>>
    /\ missed = FALSE
    /\ stray = FALSE

Goes(from, to) == pc = from /\ pc' = to

-----------------------------------------------------------------------------
(* The child.                                                              *)

Sent == SubSeq(text, 1, Len(text) - todo)

(* The next n bytes; a child that the pipe has no room for is blocked.     *)
ChildWrites(n) ==
    /\ "child" \in writers
    /\ n <= todo
    /\ Len(pipe) + n <= PipeSize
    /\ todo' = todo - n
    /\ pipe' = pipe \o SubSeq(text, Len(Sent) + 1, Len(Sent) + n)
    /\ UNCHANGED <<async, pc, writers, alive, text, exited, sbuff, output>>

(* It may go on for a while after its last output.                         *)
ChildCloses ==
    /\ "child" \in writers
    /\ todo = 0
    /\ writers' = writers \ {"child"}
    /\ UNCHANGED <<async, pc, alive, text, todo, pipe, exited, sbuff, output>>

ChildExits ==
    /\ alive
    /\ todo = 0
    /\ alive' = FALSE
    /\ writers' = writers \ {"child"}
    /\ UNCHANGED <<async, pc, text, todo, pipe, exited, sbuff, output>>

(* It is killed, or stops with an error.                                   *)
ChildDies ==
    /\ alive
    /\ todo > 0
    /\ alive' = FALSE
    /\ writers' = writers \ {"child"}
    /\ UNCHANGED <<async, pc, text, todo, pipe, exited, sbuff, output>>

-----------------------------------------------------------------------------
(* ct_subp and ct_subpwait.                                                *)

(* Mutant of Start: the parent leaves its writing end open.                *)
StartOpen ==
    /\ Goes("start", IF async THEN "poll" ELSE "wait")
    /\ alive' = TRUE
    /\ writers' = {"parent", "child"}
    /\ UNCHANGED <<async, text, todo, pipe, exited, sbuff, output>>

(* pipe, fork and the close of the parent's writing end.                   *)
Start ==
    /\ Goes("start", IF async THEN "poll" ELSE "wait")
    /\ alive' = TRUE
    /\ writers' = {"child"}
    /\ UNCHANGED <<async, text, todo, pipe, exited, sbuff, output>>

(* Without CT_SUBP_ASYNC ct_subp itself waits for the child.               *)
Wait ==
    /\ Goes("wait", "poll")
    /\ ~ alive
    /\ exited' = TRUE
    /\ UNCHANGED <<async, child, pipe, sbuff, output>>

Poll ==
    /\ Goes("poll", "read")
    /\ exited' = (exited \/ ~ alive)
    /\ UNCHANGED <<async, child, pipe, sbuff, output>>

-----------------------------------------------------------------------------
(* The loop of subp_emitter over the reads, and ct_strbuff.                *)

Sizes(n) == {k \in 0..n : size * Doubled[k] >= n}

(* Mutant of Grown: no room is kept for the NUL byte.                      *)
GrownTight(n) == size * Doubled[Min(Sizes(n - 1))]

(* ct_strbuff_push doubles the size until there is room for n bytes.       *)
Grown(n) == size * Doubled[Min(Sizes(n))]

(* A read takes what the pipe holds, up to Chunk.  When the push grows the *)
(* buffer the block may move, and ptr points into the one that is freed.   *)
Read ==
    /\ Goes("read", "scan")
    /\ pipe # <<>>
    /\ LET n == Min({Len(pipe), Chunk})
       IN /\ str' = str \o SubSeq(pipe, 1, n)
          /\ pipe' = SubSeq(pipe, n + 1, Len(pipe))
          /\ size' = Grown(Len(str) + n + 1)
    /\ \/ ptr' = Len(str) + 1
       \/ size' > size /\ ptr' = 0
    /\ UNCHANGED <<async, child, exited, output>>

(* EAGAIN: only the pipe of an asynchronous child is O_NONBLOCK.           *)
ReadNothing ==
    /\ Goes("read", "poll")
    /\ async
    /\ pipe = <<>>
    /\ writers # {}
    /\ UNCHANGED <<async, child, pipe, exited, sbuff, output>>

ReadEnd ==
    /\ Goes("read", "reap")
    /\ pipe = <<>>
    /\ writers = {}
    /\ UNCHANGED <<async, child, pipe, exited, sbuff, output>>

(* ct_strbuff_shift and emit.  The block that emit is called with holds    *)
(* the n bytes; it comes without a length, so the caller sees those before *)
(* the first NUL byte.                                                     *)
Emit(n) ==
    /\ lines' = Append(lines, SubSeq(str, 1, n))
    /\ str' = SubSeq(str, n + 1, Len(str))

(* Where the scan stops: at the next line end, or at the end of the string.*)
Stop ==
    LET ends == {i \in ptr..Len(str) : str[i] \in {NL, NUL}}
    IN IF ends = {} THEN Len(str) + 1 ELSE Min(ends)

LineFound == Stop <= Len(str) /\ str[Stop] = NL

(* Mutant of Scan: last_len is not set back when a line has been cut off.  *)
ScanOn ==
    /\ pc = "scan"
    /\ ptr # 0
    /\ \/ /\ LineFound
          /\ Emit(Stop)
          /\ ptr' = IF Stop < Len(str) THEN 2 ELSE 1
          /\ UNCHANGED <<pc, missed>>
       \/ /\ ~ LineFound
          /\ missed' = (missed \/ Stop <= Len(str))
          /\ pc' = "poll"
          /\ UNCHANGED <<str, ptr, lines>>
    /\ UNCHANGED <<async, child, pipe, exited, size, stray>>

(* One line is cut off, or the string ends and the parent sleeps.          *)
Scan ==
    /\ pc = "scan"
    /\ ptr # 0
    /\ \/ /\ LineFound
          /\ Emit(Stop)
          /\ ptr' = 1
          /\ UNCHANGED <<pc, missed>>
       \/ /\ ~ LineFound
          /\ missed' = (missed \/ Stop <= Len(str))
          /\ pc' = "poll"
          /\ UNCHANGED <<str, ptr, lines>>
    /\ UNCHANGED <<async, child, pipe, exited, size, stray>>

(* What the variable line points to.  It is not initialised: before the    *)
(* first line it may be any memory, which the empty text stands for.       *)
LastLine == IF lines = <<>> THEN <<>> ELSE Last(lines)

(* ptr is in a freed block.  It reads as the end of the string there, or   *)
(* has a line end further on; when that is past the string the shift does  *)
(* nothing and emit is called with what line still points to.  Or the      *)
(* process crashes: there, or in emit when line points nowhere.            *)
ScanStale ==
    /\ pc = "scan"
    /\ ptr = 0
    /\ ptr' = 1
    /\ missed' = TRUE
    /\ \/ /\ pc' \in {"poll", "crashed"}
          /\ UNCHANGED <<str, lines, stray>>
       \/ /\ stray' = TRUE
          /\ \/ \E n \in 1..Len(str) : Emit(n)
             \/ /\ lines' = Append(lines, LastLine)
                /\ UNCHANGED str
          /\ UNCHANGED pc
    /\ UNCHANGED <<async, child, pipe, exited, size>>

-----------------------------------------------------------------------------
(* The end of subp_emitter.                                                *)

(* Mutant of Finish: the child is not waited for.                          *)
FinishEarly ==
    /\ Goes("reap", "done")
    /\ exited' = (exited \/ ~ alive)
    /\ IF str # <<>> THEN Emit(Len(str)) ELSE UNCHANGED <<str, lines>>
    /\ UNCHANGED <<async, child, pipe, size, ptr, missed, stray>>

(* Mutant of Finish: what is left of the buffer is freed with it.          *)
FinishWithout ==
    /\ Goes("reap", "done")
    /\ exited \/ ~ alive
    /\ exited' = TRUE
    /\ str' = <<>>
    /\ UNCHANGED <<async, child, pipe, size, ptr, lines, missed, stray>>

(* The child is waited for, the rest is emitted and done is called.        *)
Finish ==
    /\ Goes("reap", "done")
    /\ exited \/ ~ alive
    /\ exited' = TRUE
    /\ IF str # <<>> THEN Emit(Len(str)) ELSE UNCHANGED <<str, lines>>
    /\ UNCHANGED <<async, child, pipe, size, ptr, missed, stray>>

Parent == \/ Start \/ Wait \/ Poll \/ Read \/ ReadNothing \/ ReadEnd
          \/ Scan \/ ScanStale \/ Finish

(* subp_emitter has returned, or its process has crashed.                  *)
Over == pc \in {"done", "crashed"}

Returned == Over /\ UNCHANGED vars

Child == (\E n \in 1..PipeSize : ChildWrites(n)) \/ ChildExits

Next == Parent \/ Child \/ ChildCloses \/ ChildDies \/ Returned

(* The system runs both processes, and a command whose output is taken is  *)
(* one that ends.                                                          *)
Spec == Init /\ [][Next]_vars /\ WF_vars(Parent) /\ WF_vars(Child)

-----------------------------------------------------------------------------
(* What the caller of subp_emitter gets.                                   *)

(* Every byte that the child has written is in a line that was emitted, in *)
(* the buffer or in the pipe, once and in order: however the writes, the   *)
(* reads and the lines overlap, the buffer grows, and whatever happens to  *)
(* the child.  So nothing is lost when done is called, unless a scan has   *)
(* found a line end in freed memory.                                       *)
NothingLost ==
    stray \/ FlattenSeq(lines) \o str \o pipe = Sent

Ends(line) == {i \in DOMAIN line : line[i] = NL}

(* What is emitted before the end is one line with its end, unless a NUL   *)
(* byte or a buffer that has moved has made the scan stop too early.       *)
LinesWhole ==
    missed \/
    \A i \in DOMAIN lines :
        \/ Ends(lines[i]) = {Len(lines[i])}
        \/ pc = "done" /\ i = Len(lines) /\ Ends(lines[i]) = {}

(* done is called when the child is gone and all it wrote has been emitted,*)
(* but for what such a scan has mixed up.                                  *)
DoneLast ==
    [][ pc' = "done" /\ pc # "done" =>
            /\ ~ alive
            /\ stray \/ FlattenSeq(lines') = Sent ]_vars

(* When one of the parent's actions is enabled, and one of Child.          *)
ParentReady ==
    \/ pc \in {"start", "poll", "scan"}
    \/ pc = "wait" /\ ~ alive
    \/ pc = "read" /\ (async \/ pipe # <<>> \/ writers = {})
    \/ pc = "reap" /\ (exited \/ ~ alive)

ChildReady ==
    \/ "child" \in writers /\ todo > 0 /\ Len(pipe) < PipeSize
    \/ alive /\ todo = 0

(* The two never wait for each other: until subp_emitter has returned, one *)
(* of them can go on without a signal from outside.  The exception is a    *)
(* parent that waits before it reads, when the pipe does not hold all.     *)
OnlyWaitBlocks ==
    \/ Over \/ ParentReady \/ ChildReady
    \/ pc = "wait" /\ ~ async /\ Len(text) > PipeSize

(* subp_emitter returns, or the process has crashed in a scan of freed     *)
(* memory.  When it was asked to wait for the child first, that takes a    *)
(* pipe that holds the whole output: the parent does not read while it     *)
(* waits, and the child would wait for the parent.                         *)
EmitterEnds ==
    (async \/ Len(text) <= PipeSize) ~> Over
=============================================================================
