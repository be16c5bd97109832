----------------------------- MODULE TailFollow -----------------------------
(***************************************************************************)
(* tail (src/tail.c): the end of each file, through a ring of lines or a   *)
(* seek, and then, with -f or -F, a loop that compares the size of the     *)
(* file with the size it has seen.  Files are sequences of lines (or       *)
(* bytes), each with a number of its own; other processes append to them,  *)
(* truncate them and put others under their names at any moment.  The      *)
(* operand - is the standard input: one of the files, or a pipe with what  *)
(* it holds.                                                               *)
(***************************************************************************)
EXTENDS Integers, Sequences, FiniteSets

CONSTANTS Names,         \* <<n1, ..>>: the files there are at the start
          Stdin,         \* the argument -
          Scenarios,     \* [args, opts, input, seekable, kinds]: the FILE arguments; the
                         \* options; the file stdin is, and whether it can be sought in; and
                         \* what others do: "append", "truncate", "remove", "create"
          DefaultLines,  \* DEFAULT_LINES
          Initial,       \* how many lines each file has at the start
          Changes        \* how often others change something

NameSet == {Names[k] : k \in 1..Len(Names)}
Operands == NameSet \cup {Stdin}

\* The files there can be: those of the start, and one for each that is created.
Files == 1..(Len(Names) + Changes)

\* lines and bytes are num_lines and num_bytes, negative to count from the start;
\* mode is 0, 1 for following the descriptor and 2 for the name.
OptionRecords == [lines : Int, bytes : Int, mode : 0..2, retry : {0, 1}, pid : {0, 1}, max : Nat]

TailAssumptions ==
  /\ Names \in Seq(NameSet)
  /\ Stdin \notin NameSet
  /\ DefaultLines \in Nat \ {0} /\ Initial \in Nat /\ Changes \in Nat
  /\ \A s \in Scenarios :
       /\ s.args \in Seq(Operands) /\ s.args # <<>>
       /\ s.input \in 1..Len(Names) /\ s.seekable \in {0, 1}
       /\ s.opts \in OptionRecords
       /\ s.kinds \subseteq {"append", "truncate", "remove", "create"}

VARIABLES
  file,       \* what each file holds
  at,         \* name -> its file, 0: there is none
  written,    \* lines written so far; the next one has the next number
  left,       \* changes others may still make
  alive,      \* 1: the process of --pid lives
  scenario,   \* the arguments, the options, stdin, and what others do
  stdin,      \* where stdin is read next, and its end-of-file indicator
  arg,        \* the argument that is processed
  again,      \* 1: it is processed a second time, without following
  tailPc,
  fp, pos,    \* the open file (0: NULL) and where it is read
  eof,        \* 1: a read of it has met its end, so that no more is read
  ring,       \* CircularBuffer
  last, cur,  \* last_size, current_size
  unchanged,  \* unchanged_count, up to max_unchanged_stats
  test,       \* test_fp
  code,       \* exit_status
  out         \* what has been printed

world == <<file, at, written, left, alive, scenario>>
follow == <<last, cur, unchanged, test>>
place == <<stdin, arg, again, tailPc, code>>
tailVars == <<world, place, fp, pos, eof, ring, follow, out>>

args == scenario.args
options == scenario.opts

Wanted == IF options.lines > 0 THEN options.lines ELSE DefaultLines
EmptyRing == [lines |-> [k \in 1..Wanted |-> 0], start |-> 0, count |-> 0]

TailInit ==
  /\ file = [f \in Files |-> IF f <= Len(Names) THEN [k \in 1..Initial |-> (f - 1) * Initial + k] ELSE <<>>]
  /\ at = [n \in Operands |-> IF n = Stdin THEN 0 ELSE CHOOSE k \in 1..Len(Names) : Names[k] = n]
  /\ written = Len(Names) * Initial
  /\ left = Changes
  /\ scenario \in Scenarios
  /\ alive = options.pid
  /\ arg = 1 /\ again = 0
  /\ tailPc = "open"
  /\ stdin = [pos |-> 0, eof |-> 0]
  /\ fp = 0 /\ pos = 0 /\ eof = 0
  /\ ring = EmptyRing
  /\ last = -1 /\ cur = 0 /\ unchanged = 0 /\ test = 0
  /\ code = 0
  /\ out = <<>>

Name == args[arg]
Size(f) == Len(file[f])

-----------------------------------------------------------------------------
(* main *)

\* process_file returns r: with -f every file but the last is processed again,
\* and what that returns is ignored.
FileReturns(r) ==
  /\ code' = IF r = 1 /\ again = 0 THEN 1 ELSE code
  /\ CASE options.mode # 0 /\ arg < Len(args) /\ again = 0 -> arg' = arg /\ again' = 1 /\ tailPc' = "open"
       [] arg < Len(args) /\ ~(options.mode # 0 /\ again = 0) -> arg' = arg + 1 /\ again' = 0 /\ tailPc' = "open"
       [] OTHER -> tailPc' = "exited" /\ UNCHANGED <<arg, again>>

GoesTo(to) == tailPc' = to /\ UNCHANGED <<arg, again, code>>

-----------------------------------------------------------------------------
(* process_file *)

Following == options.mode # 0 /\ again = 0 /\ Name # Stdin

InRing == options.bytes = 0 /\ options.lines >= 0

\* stdin goes on where it was left.
OpenFile ==
  /\ tailPc = "open"
  /\ ring' = EmptyRing
  /\ IF Name = Stdin
       THEN fp' = scenario.input /\ pos' = stdin.pos /\ eof' = stdin.eof
       ELSE fp' = at[Name] /\ pos' = 0 /\ eof' = 0
  /\ IF fp' = 0 THEN FileReturns(1) ELSE GoesTo(IF InRing THEN "fill" ELSE "seek")
  /\ UNCHANGED <<world, stdin, follow, out>>

\* process_file has read the file to its end; it closes all but stdin.
Leave ==
  /\ fp' = 0
  /\ stdin' = IF Name = Stdin THEN [pos |-> pos, eof |-> 1] ELSE stdin
  /\ last' = -1 /\ unchanged' = 0 /\ cur' = cur /\ test' = test
  /\ IF Following THEN GoesTo("pid") ELSE FileReturns(0)

\* Whether fgets or fread returns anything.
MoreToRead == pos < Size(fp) /\ eof = 0

\* Mutant: the slot after the newest line is searched from the first slot.
SlotFromCount(r) == r.count % Wanted

Slot(r) == (r.start + r.count) % Wanted

Counted(r) == IF r.count < Wanted THEN r.count + 1 ELSE r.count

\* add_to_circular_buffer
Added(r, line) ==
  [lines |-> [r.lines EXCEPT ![Slot(r) + 1] = line],
   count |-> Counted(r),
   start |-> IF r.count < Wanted THEN r.start ELSE (r.start + 1) % Wanted]

InOrder(r) == [k \in 1..r.count |-> r.lines[((r.start + k - 1) % Wanted) + 1]]

\* tail_lines: one line into the ring, or at the end the ring to stdout.
Fill ==
  /\ tailPc = "fill"
  /\ IF MoreToRead
       THEN /\ ring' = Added(ring, file[fp][pos + 1]) /\ pos' = pos + 1
            /\ GoesTo("fill") /\ UNCHANGED <<stdin, fp, follow, out>>
       ELSE /\ out' = out \o InOrder(ring)
            /\ Leave /\ UNCHANGED <<pos, ring>>
  /\ UNCHANGED <<world, eof>>

Smaller(a, b) == IF a < b THEN a ELSE b

CanSeek == Name # Stdin \/ scenario.seekable = 1

\* tail_from_start_bytes seeks only for more than one byte.
Seeks == options.bytes \notin {0, -1} /\ CanSeek

\* Where tail_bytes, tail_from_start_bytes and tail_from_start_lines begin; where
\* they stand if the seek fails, or if there is nothing more to skip.
Begin ==
  CASE Seeks /\ options.bytes > 0 -> IF options.bytes >= Size(fp) THEN 0 ELSE Size(fp) - options.bytes
    [] Seeks /\ options.bytes < 0 -> -options.bytes - 1
    [] options.bytes = 0 /\ eof = 0 -> Smaller(-options.lines - 1, Size(fp))
    [] OTHER -> pos

\* A seek takes the end-of-file indicator away; skipping lines may meet the end.
Seek ==
  /\ tailPc = "seek"
  /\ pos' = Begin
  /\ eof' = CASE Seeks -> 0
              [] options.bytes = 0 /\ -options.lines - 1 > Size(fp) -> 1
              [] OTHER -> eof
  /\ GoesTo("copy")
  /\ UNCHANGED <<world, stdin, follow, fp, ring, out>>

\* Everything up to the end.
CopyAll ==
  /\ tailPc = "copy"
  /\ IF MoreToRead
       THEN /\ out' = Append(out, file[fp][pos + 1]) /\ pos' = pos + 1
            /\ GoesTo("copy") /\ UNCHANGED <<stdin, fp, follow>>
       ELSE Leave /\ UNCHANGED <<pos, out>>
  /\ UNCHANGED <<world, eof, ring>>

-----------------------------------------------------------------------------
(* follow_file; sleeping is the time between two steps *)

CheckPid ==
  /\ tailPc = "pid"
  /\ IF options.pid = 1 /\ alive = 0
       THEN fp' = 0 /\ FileReturns(0)
       ELSE fp' = fp /\ GoesTo(IF fp = 0 THEN "reopen" ELSE "size")
  /\ UNCHANGED <<world, stdin, pos, eof, ring, follow, out>>

Reopen ==
  /\ tailPc = "reopen"
  /\ fp' = at[Name]
  /\ CASE at[Name] # 0 -> GoesTo("end")
       [] at[Name] = 0 /\ options.retry = 1 -> GoesTo("pid")
       [] OTHER -> FileReturns(1)
  /\ UNCHANGED <<world, stdin, pos, eof, ring, follow, out>>

\* What the file already holds is passed over.
SeekEnd ==
  /\ tailPc = "end"
  /\ last' = Size(fp)
  /\ GoesTo("size")
  /\ UNCHANGED <<world, stdin, fp, pos, eof, ring, cur, unchanged, test, out>>

\* Mutant: what is new is read from where ftell has just been.
FromTheEnd == cur'

FromLast == last

\* The size of the open file.
CheckSize ==
  /\ tailPc = "size"
  /\ cur' = Size(fp)
  /\ \/ /\ cur' > last
        /\ pos' = FromLast
        /\ GoesTo("new") /\ UNCHANGED <<fp, unchanged>>
     \/ /\ cur' < last
        /\ fp' = IF options.mode = 2 THEN 0 ELSE fp
        /\ GoesTo("pid") /\ UNCHANGED <<pos, unchanged>>
     \/ /\ cur' = last
        /\ unchanged' = Smaller(unchanged + 1, options.max)
        /\ GoesTo(IF options.mode = 2 /\ unchanged + 1 >= options.max THEN "look" ELSE "pid")
        /\ UNCHANGED <<fp, pos>>
  /\ UNCHANGED <<world, stdin, eof, ring, last, test, out>>

\* After max_unchanged_stats rounds without a change: what the name stands for now.
LookAtName ==
  /\ tailPc = "look"
  /\ test' = at[Name]
  /\ GoesTo(IF at[Name] = 0 THEN "pid" ELSE "compare")
  /\ UNCHANGED <<world, stdin, fp, pos, eof, ring, last, cur, unchanged, out>>

\* Mutant: only a file that has become smaller is taken for another one.
NeverAnother == FALSE

AnotherFile == Size(test) # last

\* Its size, with last_size and not with what the open file holds by now.
Compare ==
  /\ tailPc = "compare"
  /\ IF AnotherFile THEN fp' = 0 /\ unchanged' = 0 ELSE UNCHANGED <<fp, unchanged>>
  /\ test' = 0
  /\ GoesTo("pid")
  /\ UNCHANGED <<world, stdin, pos, eof, ring, last, cur, out>>

\* Everything from last_size to the end, which may have moved on.
New ==
  /\ tailPc = "new"
  /\ IF pos < Size(fp)
       THEN /\ out' = Append(out, file[fp][pos + 1]) /\ pos' = pos + 1
            /\ GoesTo("new") /\ UNCHANGED <<last, unchanged>>
       ELSE /\ last' = cur /\ unchanged' = 0
            /\ GoesTo("pid") /\ UNCHANGED <<pos, out>>
  /\ UNCHANGED <<world, stdin, fp, eof, ring, cur, test>>

-----------------------------------------------------------------------------
(* The other processes *)

Change(kind) ==
  /\ tailPc # "exited" /\ kind \in scenario.kinds /\ left > 0
  /\ left' = left - 1
  /\ UNCHANGED <<alive, scenario, place, fp, pos, eof, ring, follow, out>>

\* To a file that has a name, or has lost it.
Grow(f) ==
  /\ Change("append")
  /\ file' = [file EXCEPT ![f] = Append(@, written + 1)]
  /\ written' = written + 1 /\ at' = at

Truncate(f) ==
  /\ Change("truncate") /\ file[f] # <<>>
  /\ file' = [file EXCEPT ![f] = <<>>]
  /\ UNCHANGED <<written, at>>

Unlink(n) ==
  /\ Change("remove") /\ at[n] # 0
  /\ at' = [at EXCEPT ![n] = 0]
  /\ UNCHANGED <<file, written>>

\* Files are given out in order: there is one left for each change.
Create(n) ==
  /\ Change("create") /\ at[n] = 0
  /\ at' = [at EXCEPT ![n] = Len(Names) + Changes - left']
  /\ UNCHANGED <<file, written>>

PidDies ==
  /\ tailPc # "exited" /\ alive = 1
  /\ alive' = 0
  /\ UNCHANGED <<file, at, written, left, scenario, place, fp, pos, eof, ring, follow, out>>

Used == {f \in Files : f <= Len(Names) \/ \E n \in NameSet : at[n] = f}

Follower == CheckPid \/ Reopen \/ SeekEnd \/ CheckSize \/ LookAtName \/ Compare \/ New

Reader == OpenFile \/ Fill \/ Seek \/ CopyAll \/ Follower

World ==
  \/ \E f \in Used : Grow(f) \/ Truncate(f)
  \/ \E n \in NameSet : Unlink(n) \/ Create(n)
  \/ PidDies

TailNext == Reader \/ World

TailSpec == TailInit /\ [][TailNext]_tailVars

\* sleep returns: tail goes on as long as it has not exited.
TailFairSpec == TailSpec /\ WF_tailVars(Reader)

-----------------------------------------------------------------------------
(* Properties *)

TailTypeOK ==
  /\ DOMAIN file = Files /\ \A f \in Files : file[f] \in Seq(1..written)
  /\ at \in [Operands -> Files \cup {0}]
  /\ left \in 0..Changes /\ alive \in {0, 1} /\ scenario \in Scenarios
  /\ arg \in 1..Len(args) /\ again \in {0, 1}
  /\ tailPc \in {"open", "fill", "seek", "copy", "pid", "reopen", "end", "size", "look", "compare", "new", "exited"}
  /\ stdin \in [pos : Nat, eof : {0, 1}]
  /\ fp \in Files \cup {0} /\ test \in Files \cup {0} /\ pos \in Nat /\ eof \in {0, 1}
  /\ Len(ring.lines) = Wanted /\ ring.start \in 0..(Wanted - 1) /\ ring.count \in 0..Wanted
  /\ last \in -1..(Initial + Changes) /\ cur \in 0..(Initial + Changes)
  /\ unchanged \in 0..options.max /\ code \in {0, 1}
  /\ out \in Seq(1..written)

LastOf(s, n) == SubSeq(s, Len(s) - Smaller(n, Len(s)) + 1, Len(s))
OnlyGrow == scenario.kinds \subseteq {"append"}

\* The ring holds exactly the last lines of what has been read, oldest first,
\* however often it has wrapped; nothing, when stdin has been read before.
RingIsLast ==
  tailPc = "fill" /\ OnlyGrow =>
    InOrder(ring) = IF eof = 1 THEN <<>> ELSE LastOf(SubSeq(file[fp], 1, pos), Wanted)

CameOut(f, k) == k <= Size(f) /\ \E m \in 1..Len(out) : out[m] = file[f][k]

\* What a file holds beyond last_size before tail next measures or reads it comes
\* out, whatever is appended meanwhile, or tail ends.
AppendedComesOut ==
  \A f \in Files : \A k \in 1..(Initial + Changes) :
    (OnlyGrow /\ tailPc \in {"pid", "size", "new"} /\ fp = f /\ last < k /\ k <= Size(f))
      ~> (tailPc = "exited" \/ CameOut(f, k))

\* By name, tail comes to the file that has the name, if only its size is not
\* that of the old one.
ComesToTheName ==
  <>[](\/ tailPc = "exited" \/ options.mode # 2 \/ at[Name] \in {0, fp}
       \/ Size(at[Name]) = last)

Count(s, x) == Cardinality({k \in 1..Len(s) : s[k] = x})

\* tail.c: "output appended data as the file grows".  It may come twice.
AppendedOnce ==
  Len(args) = 1 => \A k \in (Len(Names) * Initial + 1)..written : Count(out, k) <= 1

\* tail.c: "output appended data as the file grows".  Once a file is followed,
\* last_size moves only past what has been printed: a file that only grows is
\* never given up with lines that then are passed over.
NothingSkipped ==
  [][OnlyGrow /\ last >= 0 /\ last' > last => \A k \in (last + 1)..last' : CameOut(fp, k)]_tailVars
=============================================================================
