------------------------------ MODULE LibcStdio ------------------------------
(***************************************************************************)
(* Buffered streams of libtool (src/stdio.c) and the exit sequence that    *)
(* flushes them (src/start.c).  One buffer serves reading and writing:     *)
(* pos counts the bytes to flush, or the bytes already handed out of the   *)
(* len read ahead.  write() may be short or fail, read() may be short.     *)
(* Every stream is on a file of its own; disk is what the kernel has.  buf *)
(* is the part of the buffer that can still be read or written out.        *)
(***************************************************************************)
EXTENDS Integers, Sequences, FiniteSets

CONSTANTS Streams,    \* FILE objects, the static ones included
          Std,        \* the streams __stdio_init tracks, in order
          StdErr,     \* the one of them that is flushed at each newline
          Modes,      \* of "r", "w", "a", "r+": what clients pass to fopen
          Bytes, NL,  \* file content; NL is the newline
          Contents,   \* what files hold at first
          Inputs,     \* what clients write in one call
          BufSz,      \* BUFSZ
          MaxFiles,   \* MAX_FILES
          MaxLen,     \* a file of this length fills its disk
          AtExitMax   \* ATEXIT_MAX

Assumptions ==
  /\ BufSz \in Nat \ {0} /\ MaxFiles \in Nat \ {0} /\ MaxLen \in Nat /\ AtExitMax \in Nat
  /\ Std \in Seq(Streams) /\ Len(Std) <= MaxFiles
  /\ StdErr \in Streams /\ \E i \in 1..Len(Std) : Std[i] = StdErr
  /\ NL \in Bytes
  /\ Modes \subseteq {"r", "w", "a", "r+"}
  /\ Contents \subseteq Seq(Bytes) /\ Inputs \subseteq Seq(Bytes)

VARIABLES
  f,        \* the FILE structures, with the kernel's offset
  disk,     \* the files
  tracked,  \* __open_files[0 .. __open_file_count)
  fns,      \* __atexit_count
  left,     \* exit: handlers still to be called
  pc,       \* where the current call is
  call      \* its arguments and local variables (NoCall has them all)

vars == <<f, disk, tracked, fns, left, pc, call>>

NoCall == [
  user |-> CHOOSE s \in Streams : TRUE,  \* the stream
  home |-> "idle",    \* where the call returns to
  todo |-> <<>>,      \* fwrite: bytes not yet in the buffer
  char |-> 0,         \* fputc: 1 when it has to flush before it returns
  want |-> 0,         \* fread: bytes still wanted
  got |-> <<>>,       \* fread: bytes handed out so far
  whence |-> "SET", offset |-> 0,  \* fseek
  done |-> 0,         \* file_flush: bytes of the buffer already written
  after |-> "return", \* file_flush: where it returns to
  walk |-> 1]         \* __stdio_flush_all: its loop variable

user == call.user
F == f[user]
Reads(s) == f[s].mode \in {"r", "r+"}
Writes(s) == f[s].mode \in {"w", "a", "r+"}
IsStd(s) == \E i \in 1..Len(Std) : Std[i] = s

Fresh(m) == [open |-> 1, mode |-> m, eof |-> 0, err |-> 0,
             buf |-> <<>>, pos |-> 0, len |-> 0, off |-> 0]
Shut == [Fresh("w") EXCEPT !.open = 0]

Init ==
  /\ f = [s \in Streams |-> IF IsStd(s) THEN Fresh("w") ELSE Shut]
  /\ disk \in {d \in [Streams -> Contents] : \A s \in Streams : IsStd(s) => d[s] = <<>>}
  /\ tracked = Std
  /\ fns = 0 /\ left = 0
  /\ pc = "idle"
  /\ call = NoCall

Becomes(g) == f' = [f EXCEPT ![user] = g]
Goto(p) == pc' = p /\ UNCHANGED call
Overwrite(d, at, data) ==
  LET end == at + Len(data)
  IN [i \in 1..(IF end > Len(d) THEN end ELSE Len(d)) |->
        IF at < i /\ i <= end THEN data[i - at] ELSE d[i]]
Least(a, b) == IF a < b THEN a ELSE b

-----------------------------------------------------------------------------
(* Calls a client makes, from main or from an atexit handler *)

ClientRuns == pc \in {"idle", "handler"}
Begin(c, p) ==
  /\ ClientRuns
  /\ call' = [c EXCEPT !.home = pc]
  /\ pc' = p
  /\ UNCHANGED <<f, disk, tracked, fns, left>>

Track(s) == tracked' = IF Len(tracked) < MaxFiles THEN Append(tracked, s) ELSE tracked

Fopen(s, m) ==
  /\ ClientRuns
  /\ f[s].open = 0 /\ ~IsStd(s)
  /\ f' = [f EXCEPT ![s] = Fresh(m)]
  /\ disk' = IF m = "w" THEN [disk EXCEPT ![s] = <<>>] ELSE disk
  /\ Track(s)
  /\ UNCHANGED <<fns, left, pc, call>>

\* fwrite and fputs; fputc is a single byte, and flushes at a newline.
Fwrite(s, data, single) ==
  /\ f[s].open = 1 /\ Writes(s)
  /\ single => Len(data) = 1
  /\ Begin([NoCall EXCEPT !.user = s, !.todo = data,
              !.char = IF single /\ (s = StdErr \/ data[1] = NL) THEN 1 ELSE 0], "write")

\* fread; fgetc and fgets take one byte at a time.
Fread(s, n) ==
  /\ f[s].open = 1 /\ Reads(s)
  /\ Begin([NoCall EXCEPT !.user = s, !.want = n], "read")

\* These begin with file_flush.
Fflush(s) == f[s].open = 1 /\ Begin([NoCall EXCEPT !.user = s], "flush")
Fclose(s) == f[s].open = 1 /\ Begin([NoCall EXCEPT !.user = s, !.after = "close"], "flush")
\* Bound of the model: no seek past the end of the file.
Fseek(s, w, k) ==
  /\ f[s].open = 1
  /\ k > 0 => w = "SET" /\ k <= Len(disk[s])
  /\ Begin([NoCall EXCEPT !.user = s, !.after = "seek", !.whence = w, !.offset = k], "flush")

\* fflush(NULL): every tracked stream in turn.
FflushAll == Begin(NoCall, "flushall")

\* Mutant: one handler more than the table has room for.
RoomAndOne == fns <= AtExitMax

HandlerRoom == fns < AtExitMax

\* A handler that a handler registers is never called: exit counts down from
\* the count it saw first.
Atexit ==
  /\ ClientRuns
  /\ HandlerRoom
  /\ fns' = fns + 1
  /\ UNCHANGED <<f, disk, tracked, left, pc, call>>

Return ==
  /\ pc = "return"
  /\ pc' = call.home
  /\ call' = NoCall
  /\ UNCHANGED <<f, disk, tracked, fns, left>>

-----------------------------------------------------------------------------
(* fwrite *)

\* Mutant: only a newline at the end of what was copied is seen.
EndsInNewline(k) == call.todo[k] = NL

HasNewline(k) == \E i \in 1..k : call.todo[i] = NL

Filled(data) == Overwrite(F.buf, F.pos, data)

\* As much as the buffer has room for.
WriteCopy ==
  /\ pc = "write" /\ Len(call.todo) > 0 /\ F.pos < BufSz
  /\ LET k == Least(Len(call.todo), BufSz - F.pos)
         flush == user = StdErr /\ HasNewline(k)
     IN /\ Becomes([F EXCEPT !.buf = Filled(SubSeq(call.todo, 1, k)), !.pos = @ + k])
        /\ call' = [call EXCEPT !.todo = SubSeq(@, k + 1, Len(@)),
                                !.after = IF flush THEN "write" ELSE @]
        /\ pc' = IF flush THEN "flush" ELSE "write"
  /\ UNCHANGED <<disk, tracked, fns, left>>

WriteFull ==
  /\ pc = "write" /\ Len(call.todo) > 0 /\ F.pos = BufSz
  /\ pc' = "flush"
  /\ call' = [call EXCEPT !.after = "full"]
  /\ UNCHANGED <<f, disk, tracked, fns, left>>

WriteDone ==
  /\ pc = "write" /\ call.todo = <<>>
  /\ pc' = IF call.char = 1 THEN "flush" ELSE "return"
  /\ call' = [call EXCEPT !.after = "return"]
  /\ UNCHANGED <<f, disk, tracked, fns, left>>

-----------------------------------------------------------------------------
(* file_flush *)

Dirty(s) == Writes(s) /\ f[s].pos > 0

\* One write(): at the end of the file in append mode.
Written(data) ==
  IF F.mode = "a" THEN disk[user] \o data ELSE Overwrite(disk[user], F.off, data)
OffsetAfter(n) == IF F.mode = "a" THEN Len(disk[user]) + n ELSE F.off + n

\* Mutant: a short write is taken for a complete one.
ShortIsAll(n) == F.pos

Progress(n) == call.done + n

FlushWrite ==
  /\ pc = "flush" /\ Dirty(user) /\ call.done < F.pos
  /\ \E n \in 1..Least(F.pos - call.done, MaxLen - OffsetAfter(0)) :
       /\ disk' = [disk EXCEPT ![user] =
                     Written(SubSeq(F.buf, call.done + 1, call.done + n))]
       /\ Becomes([F EXCEPT !.off = OffsetAfter(n)])
       /\ call' = [call EXCEPT !.done = Progress(n)]
  /\ UNCHANGED <<tracked, fns, left, pc>>

\* fwrite gives up, every other caller ignores the result.
AfterFailure == IF call.after = "full" THEN "return" ELSE call.after

\* write() fails: what was already written stays in the buffer all the same.
FlushFails ==
  /\ pc = "flush" /\ Dirty(user) /\ call.done < F.pos
  /\ Becomes([F EXCEPT !.err = 1])
  /\ pc' = AfterFailure
  /\ call' = [call EXCEPT !.done = 0]
  /\ UNCHANGED <<disk, tracked, fns, left>>

Emptied == Becomes([F EXCEPT !.pos = 0, !.buf = SubSeq(@, 1, F.len)])

FlushDone ==
  /\ pc = "flush"
  /\ Dirty(user) => call.done = F.pos
  /\ IF Dirty(user) THEN Emptied ELSE f' = f
  /\ pc' = IF call.after = "full" THEN "write" ELSE call.after
  /\ call' = [call EXCEPT !.done = 0]
  /\ UNCHANGED <<disk, tracked, fns, left>>

-----------------------------------------------------------------------------
(* fread *)

ReadCopy ==
  /\ pc = "read" /\ call.want > 0 /\ F.pos < F.len
  /\ LET k == Least(call.want, F.len - F.pos)
     IN /\ call' = [call EXCEPT !.want = @ - k,
                                !.got = @ \o SubSeq(F.buf, F.pos + 1, F.pos + k)]
        /\ Becomes([F EXCEPT !.pos = @ + k])
  /\ UNCHANGED <<disk, tracked, fns, left, pc>>

\* read() returns what it likes of what there is.
ReadRefill ==
  /\ pc = "read" /\ call.want > 0 /\ F.pos >= F.len
  /\ \E n \in 1..Least(BufSz, Len(disk[user]) - F.off) :
       Becomes([F EXCEPT !.pos = 0, !.len = n, !.off = @ + n,
                         !.buf = SubSeq(disk[user], F.off + 1, F.off + n)])
  /\ UNCHANGED <<disk, tracked, fns, left, pc, call>>

\* End of file, or an error, ends the call; fread returns what it has.
ReadEnds ==
  /\ pc = "read" /\ call.want > 0 /\ F.pos >= F.len
  /\ \/ F.off >= Len(disk[user]) /\ Becomes([F EXCEPT !.eof = 1])
     \/ Becomes([F EXCEPT !.err = 1])
  /\ Goto("return")
  /\ UNCHANGED <<disk, tracked, fns, left>>

ReadDone ==
  /\ pc = "read" /\ call.want = 0
  /\ Goto("return")
  /\ UNCHANGED <<f, disk, tracked, fns, left>>

-----------------------------------------------------------------------------
(* fseek and fclose, once the buffer has been flushed *)

\* The offset lseek is asked for; it refuses a negative one.  SEEK_CUR counts
\* from the kernel's offset, which is ahead of the client's by what was read ahead.
SeekTo ==
  call.offset + (CASE call.whence = "SET" -> 0
                   [] call.whence = "CUR" -> F.off
                   [] call.whence = "END" -> Len(disk[user]))

Sought(to) == [F EXCEPT !.buf = <<>>, !.pos = 0, !.len = 0, !.eof = 0, !.off = to]

\* Even a seek that lseek refuses drops what was read ahead.
SeekDo ==
  /\ pc = "seek"
  /\ Becomes(Sought(IF SeekTo < 0 THEN F.off ELSE SeekTo))
  /\ Goto("return")
  /\ UNCHANGED <<disk, tracked, fns, left>>

\* The last tracked stream takes the place of the i-th.
Untrack(i) == tracked' = [j \in 1..(Len(tracked) - 1) |->
                            IF j = i THEN tracked[Len(tracked)] ELSE tracked[j]]

CloseDo ==
  /\ pc = "close"
  /\ Becomes(Shut)
  /\ \/ \E i \in 1..Len(tracked) : tracked[i] = user /\ Untrack(i)
     \/ (\A i \in 1..Len(tracked) : tracked[i] # user) /\ tracked' = tracked
  /\ Goto("return")
  /\ UNCHANGED <<disk, fns, left>>

-----------------------------------------------------------------------------
(* exit: the handlers, last registered first, then __stdio_flush_all *)

Exit ==
  /\ pc = "idle"
  /\ left' = fns
  /\ Goto("exit")
  /\ UNCHANGED <<f, disk, tracked, fns>>

RunHandler ==
  /\ pc = "exit" /\ left > 0
  /\ left' = left - 1
  /\ Goto("handler")
  /\ UNCHANGED <<f, disk, tracked, fns>>

HandlerReturns ==
  /\ pc = "handler"
  /\ Goto("exit")
  /\ UNCHANGED <<f, disk, tracked, fns, left>>

\* Mutant: the process ends without flushing.
ExitAtOnce == pc' = "exited" /\ UNCHANGED call

FlushThenExit == pc' = "flushall" /\ call' = [NoCall EXCEPT !.home = "exited"]

LastFlush ==
  /\ pc = "exit" /\ left = 0
  /\ FlushThenExit
  /\ UNCHANGED <<f, disk, tracked, fns, left>>

FlushNext ==
  /\ pc = "flushall" /\ call.walk <= Len(tracked)
  /\ pc' = "flush"
  /\ call' = [call EXCEPT !.user = tracked[call.walk], !.walk = @ + 1, !.after = "flushall"]
  /\ UNCHANGED <<f, disk, tracked, fns, left>>

FlushAllDone ==
  /\ pc = "flushall" /\ call.walk > Len(tracked)
  /\ Goto("return")
  /\ UNCHANGED <<f, disk, tracked, fns, left>>

-----------------------------------------------------------------------------

ClientCall ==
  \/ \E s \in Streams :
       \/ \E m \in Modes : Fopen(s, m)
       \/ \E data \in Inputs, single \in BOOLEAN : Fwrite(s, data, single)
       \/ \E n \in 1..(BufSz + 1) : Fread(s, n)
       \/ \E w \in {"SET", "CUR", "END"}, k \in {-1, 0, 1} : Fseek(s, w, k)
       \/ Fflush(s) \/ Fclose(s)
  \/ FflushAll \/ Atexit \/ Exit \/ HandlerReturns

Step ==
  \/ WriteCopy \/ WriteFull \/ WriteDone
  \/ FlushWrite \/ FlushFails \/ FlushDone
  \/ ReadCopy \/ ReadRefill \/ ReadEnds \/ ReadDone
  \/ SeekDo \/ CloseDo \/ Return
  \/ RunHandler \/ LastFlush \/ FlushNext \/ FlushAllDone

Next == ClientCall \/ Step

Spec == Init /\ [][Next]_vars

-----------------------------------------------------------------------------
(* Properties *)

FileRec == [open : {0, 1}, mode : {"r", "w", "a", "r+"}, eof : {0, 1}, err : {0, 1},
            buf : Seq(Bytes), pos : 0..BufSz, len : 0..BufSz, off : Nat]
CallRec == [user : Streams, home : {"idle", "handler", "exited"},
            todo : Seq(Bytes), char : {0, 1}, want : Nat, got : Seq(Bytes),
            whence : {"SET", "CUR", "END"}, offset : Int, done : 0..BufSz,
            after : {"return", "write", "full", "seek", "close", "flushall"}, walk : Nat]

\* The structures, the files and a call's variables have the types of their C
\* counterparts, and the table of streams is never overrun.
TypeOK ==
  /\ f \in [Streams -> FileRec]
  /\ disk \in [Streams -> Seq(Bytes)]
  /\ tracked \in Seq(Streams) /\ Len(tracked) <= MaxFiles
  /\ fns \in 0..AtExitMax /\ left \in 0..AtExitMax
  /\ pc \in {"idle", "write", "flush", "read", "seek", "close", "return",
             "exit", "handler", "flushall", "exited"}
  /\ call \in CallRec

\* A process that has exited has left nothing in the buffers of the streams it
\* tracks, what its handlers wrote included, unless a write failed.
ExitFlushes ==
  pc = "exited" =>
    \A i \in 1..Len(tracked) : Dirty(tracked[i]) => f[tracked[i]].err = 1

\* What fwrite, fputs and fputc leave in the buffer of stderr when they return
\* is part of one line: no complete line waits there, unless a write failed.
StderrPrompt ==
  pc \in {"idle", "handler"} /\ f[StdErr].err = 0 =>
    \A i \in 1..f[StdErr].pos : f[StdErr].buf[i] # NL

(* What the client sees, without the buffer: StreamView.                      *)
Pending(s) ==
  SubSeq(f[s].buf, 1 + (IF pc = "flush" /\ user = s THEN call.done ELSE 0), f[s].pos)
From(s) == IF f[s].mode = "a" THEN Len(disk[s]) ELSE f[s].off
Seen(s) ==
  IF f[s].open = 0 THEN [state |-> "closed", content |-> <<>>, at |-> 0]
  ELSE IF f[s].mode = "r+" \/ (Writes(s) /\ f[s].err = 1)
    THEN [state |-> "lost", content |-> <<>>, at |-> 0]
  ELSE IF f[s].mode = "r"
    THEN [state |-> "open", content |-> disk[s], at |-> f[s].off - (f[s].len - f[s].pos)]
  ELSE [state |-> "open", content |-> Overwrite(disk[s], From(s), Pending(s)),
        at |-> From(s) + Len(Pending(s))]

View == INSTANCE StreamView WITH view <- [s \in Streams |-> Seen(s)],
                                 todo <- call.todo, got <- call.got

\* The buffered streams implement plain files with a position.
StdioImplementsView == View!Spec
=============================================================================
