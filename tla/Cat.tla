--------------------------------- MODULE Cat ---------------------------------
(***************************************************************************)
(* cat (src/cat.c): one file after the other, through cat_simple or, with  *)
(* options that change the text, through cat_full, which keeps what it     *)
(* knows about the line across blocks and across files.                    *)
(***************************************************************************)
EXTENDS TextTool

\* call = [given, files]; mem = [opts, start, wasBlank, blank, lines].
CONSTANT BufferSize

\* -b overrides -n, in whatever order they come.
SetOption(o, given) ==
  CASE given \in {"A", "--show-all"} -> o \cup {"v", "E", "T"}
    [] given \in {"b", "--number-nonblank"} -> (o \cup {"b"}) \ {"n"}
    [] given \in {"n", "--number"} -> IF "b" \in o THEN o ELSE o \cup {"n"}
    [] given = "e" -> o \cup {"v", "E"}
    [] given = "t" -> o \cup {"v", "T"}
    [] OTHER -> o \cup {given}

Init ==
  /\ call \in Calls
  /\ inp = call.files /\ out = <<>>
  /\ mem = [opts |-> FoldLeft(SetOption, {}, call.given), start |-> 1, wasBlank |-> 0, blank |-> 1, lines |-> 0]
  /\ pc = "file" /\ status = 0 /\ faults = Faults

Transforms == mem.opts \cap {"n", "b", "E", "s", "T", "v"} # {}

\* put_char.  A line number n is written as -n here.
Caret == 94
Dollar == 36
Shown(o, c) ==
  CASE c = Tab -> IF "T" \in o THEN <<Caret, 73>> ELSE <<Tab>>
    [] c >= 128 /\ "v" \in o -> <<77, 45>> \o (CASE c < 160 -> <<Caret, c - 64>> [] c = 255 -> <<Caret, 63>> [] OTHER -> <<c - 128>>)
    [] (c < 32 \/ c = 127) /\ "v" \in o -> <<Caret, IF c = 127 THEN 63 ELSE c + 64>>
    [] OTHER -> <<c>>
Number(n) == <<0 - n>>

\* Mutant: what is known of the line is forgotten at the end of a block.
FreshLine(m) == [m EXCEPT !.start = 1, !.blank = 1]

SameLine(m) == m

\* cat_full for one byte: r.out is what it puts out.
Newline(r) ==
  IF "s" \in r.opts /\ r.blank = 1 /\ r.wasBlank = 1 THEN [r EXCEPT !.start = 1]
  ELSE [r EXCEPT !.wasBlank = r.blank, !.blank = 1, !.start = 1,
                 !.out = @ \o (IF "E" \in r.opts THEN <<Dollar>> ELSE <<>>) \o <<Nl>>]
Visible(r, c) ==
  LET numbers == r.start = 1 /\ r.opts \cap {"n", "b"} # {} IN
    [r EXCEPT !.start = 0, !.blank = 0,
              !.lines = IF numbers THEN @ + 1 ELSE @,
              !.out = @ \o (IF numbers THEN Number(r.lines + 1) ELSE <<>>) \o Shown(r.opts, c)]
OneByte(r, c) == IF c = Nl THEN Newline(r) ELSE Visible(r, c)
Kept(r) == Restrict(r, DOMAIN mem)

\* do_cat: open.  A file that cannot be opened, or is a directory, is passed over.
EndFile(failed) ==
  /\ NextFile
  /\ status' = IF failed THEN 1 ELSE status
  /\ pc' = IF Len(inp) = 1 THEN "exited" ELSE "file"

OpenFile ==
  /\ pc = "file"
  /\ \/ Opens /\ pc' = "read" /\ UNCHANGED <<inp, status>>
     \/ CannotOpen /\ EndFile(TRUE)
  /\ UNCHANGED <<call, out, mem>>

\* A block of any size is read, and written as it is or changed.  In cat_simple
\* writing may fail after a part of the block.
Read ==
  /\ pc = "read"
  /\ \/ \E n \in 1..Min({BufferSize, Len(Head(inp))}) :
          LET block == Take(Head(inp), n)
              r == FoldLeft(OneByte, [out |-> <<>>] @@ SameLine(mem), block)
          IN \/ /\ Consumed(n)
                /\ out' = out \o (IF Transforms THEN r.out ELSE block)
                /\ mem' = IF Transforms THEN Kept(r) ELSE mem
                /\ Works /\ UNCHANGED <<pc, status>>
             \/ /\ ~Transforms /\ Fails /\ EndFile(TRUE) /\ mem' = mem
                /\ \E part \in 0..n - 1 : out' = out \o Take(block, part)
     \/ Head(inp) = <<>> /\ EndFile(FALSE) /\ Works /\ UNCHANGED <<out, mem>>
     \/ Fails /\ EndFile(TRUE) /\ UNCHANGED <<out, mem>>
  /\ UNCHANGED call

Next == OpenFile \/ Read

Spec == Init /\ [][Next]_vars

-----------------------------------------------------------------------------
(* Properties *)

TypeOK ==
  /\ TypesOK({"file", "read", "exited"})
  /\ mem.start \in {0, 1} /\ mem.blank \in {0, 1} /\ mem.wasBlank \in {0, 1} /\ mem.lines <= Len(out)

Text == FlattenSeq(Readable(call.files))
Lines == LinesOf(Text, Nl)
HasEnd(k) == k < Len(Lines) \/ Last(Text) = Nl

\* What the help makes of line k, said without any state: with -s a blank line
\* after a blank line goes; of the others -n numbers all and -b those that are
\* not blank, and "$" stands before their newline.
Goes(k) == "s" \in mem.opts /\ k > 1 /\ Lines[k] = <<>> /\ Lines[k - 1] = <<>>
HasNumber(k) == ~Goes(k) /\ ("n" \in mem.opts \/ ("b" \in mem.opts /\ Lines[k] # <<>>))
Line(k) ==
  LET number == Number(Cardinality({j \in 1..k : HasNumber(j)}))
      end == (IF "E" \in mem.opts THEN <<Dollar>> ELSE <<>>) \o <<Nl>>
  IN IF Goes(k) THEN <<>>
     ELSE (IF HasNumber(k) THEN number ELSE <<>>)
          \o FlattenSeq([j \in 1..Len(Lines[k]) |-> Shown(mem.opts, Lines[k][j])])
          \o (IF HasEnd(k) THEN end ELSE <<>>)
Changed == FlattenSeq([k \in 1..Len(Lines) |-> Line(k)])

IsNumber(c) == c < 0
Numbers(s) == SelectSeq(s, IsNumber)
Bytes(s) == SelectSeq(s, LAMBDA c : ~IsNumber(c))
BlankNumbered == \E k \in 1..Len(Lines) : HasNumber(k) /\ Lines[k] = <<>>

\* The output is the changed lines of all files as one text, wherever files and
\* blocks end: in particular inside a line.  With -n and blank lines the numbers
\* are only known to count from 1: where they stand is what AllNumbered asks.
LinesWhole ==
  pc = "exited" /\ faults = Faults =>
    /\ status = IF Missing \in Range(call.files) THEN 1 ELSE 0
    /\ ~BlankNumbered => out = Changed
    /\ BlankNumbered => Bytes(out) = Bytes(Changed) /\ Numbers(out) = [k \in 1..Len(Numbers(out)) |-> 0 - k]

\* cat.c:65, help: "-n, --number  number all output lines"; cat.c:26: "-n: number
\* all lines".  Violated: a blank line gets no number.
AllNumbered == pc = "exited" /\ faults = Faults /\ "n" \in mem.opts => out = Changed
=============================================================================
