--------------------------------- MODULE Head ---------------------------------
(***************************************************************************)
(* head (src/head.c): the first lines or bytes of each file, with a header  *)
(* for each if there are several.  Texts have no NUL.                       *)
(***************************************************************************)
EXTENDS TextTool

\* call = [given, files]; an option is [o, n], n the number of -n or -c, which
\* is -1 for one with a minus sign or an unknown suffix.
\* mem = [opts, file, left]: how many lines or bytes of a file are left.
CONSTANTS BufferSize, IntMax    \* BUFFER_SIZE, INT_MAX

\* The number is a long long that is assigned to an int.
AsInt(n) == LET w == 2 * (IntMax + 1) IN ((n + IntMax + 1) % w) - (IntMax + 1)

SetOption(s, option) ==
  CASE s.bad = 1 -> s
    [] option.o = "?" \/ (option.o \in {"c", "n"} /\ option.n < 0) -> [s EXCEPT !.bad = 1]
    [] option.o = "c" -> [s EXCEPT !.bytes = AsInt(option.n), !.lines = 0]
    [] option.o = "n" -> [s EXCEPT !.lines = AsInt(option.n), !.bytes = 0]
    [] option.o = "q" -> [s EXCEPT !.headers = 0, !.quiet = 1]
    [] option.o = "v" -> [s EXCEPT !.headers = 1, !.quiet = 0]

Init ==
  /\ call \in Calls
  /\ inp = call.files /\ out = <<>>
  /\ mem = [opts |-> FoldLeft(SetOption, [lines |-> 10, bytes |-> 0, headers |-> 0, quiet |-> 0, bad |-> 0], call.given),
            file |-> 1, left |-> 0]
  /\ pc = "main" /\ status = 0 /\ faults = Faults

Main ==
  /\ pc = "main" /\ Works
  /\ IF mem.opts.bad = 1 THEN Exit(1) ELSE pc' = "file" /\ status' = status
  /\ UNCHANGED <<call, inp, out, mem>>

ByBytes == mem.opts.bytes > 0
Several == Len(call.files) > 1 /\ mem.opts.quiet = 0

\* process_file: the header of file k is written as -k.
OpenFile ==
  /\ pc = "file"
  /\ \/ inp = <<>> /\ pc' = "exited" /\ Works /\ UNCHANGED <<inp, out, mem, status>>
     \/ /\ Opens /\ pc' = "read" /\ UNCHANGED <<inp, status>>
        /\ out' = IF mem.opts.headers = 1 \/ Several THEN Append(out, 0 - mem.file) ELSE out
        /\ mem' = [mem EXCEPT !.left = IF ByBytes THEN mem.opts.bytes ELSE mem.opts.lines]
     \/ /\ CannotOpen /\ NextFile /\ mem' = [mem EXCEPT !.file = @ + 1]
        /\ status' = 1 /\ UNCHANGED <<out, pc>>
  /\ UNCHANGED call

\* Mutant: what fgets gives counts as a line, whether or not it has an end.
PieceCounts(piece) == 1

LinesIn(piece) == IF Last(piece) = Nl THEN 1 ELSE 0

\* head_lines, head_bytes
Read ==
  /\ pc = "read" /\ Works
  /\ IF mem.left <= 0 \/ Head(inp) = <<>> THEN pc' = "done" /\ UNCHANGED <<inp, out, mem>>
     ELSE LET piece == IF ByBytes THEN Take(Head(inp), Min({mem.left, BufferSize})) ELSE Piece(Head(inp), Nl, BufferSize - 1) IN
       /\ Consumed(Len(piece)) /\ out' = out \o piece /\ pc' = pc
       /\ mem' = [mem EXCEPT !.left = @ - (IF ByBytes THEN Len(piece) ELSE LinesIn(piece))]
  /\ UNCHANGED <<call, status>>

\* An empty line separates it from the next file.
CloseFile ==
  /\ pc = "done" /\ Works
  /\ NextFile /\ mem' = [mem EXCEPT !.file = @ + 1]
  /\ out' = IF Several /\ Len(inp) > 1 THEN Append(out, Nl) ELSE out
  /\ pc' = "file" /\ UNCHANGED <<call, status>>

Next == Main \/ OpenFile \/ Read \/ CloseFile

Spec == Init /\ [][Next]_vars

-----------------------------------------------------------------------------
(* Properties *)

TypeOK == TypesOK({"main", "file", "read", "done", "exited"}) /\ mem.file \in 1..Len(call.files) + 1

\* The last -n or -c counts.
Counts == SelectSeq(call.given, LAMBDA g : g.o \in {"c", "n"})
Wanted == IF Counts = <<>> THEN [o |-> "n", n |-> 10] ELSE Last(Counts)
FirstLines(text, n) ==
  LET ends == {k \in 1..Len(text) : text[k] = Nl /\ Cardinality({j \in 1..k : text[j] = Nl}) = n}
  IN IF n = 0 THEN <<>> ELSE IF ends = {} THEN text ELSE SubSeq(text, 1, Max(ends))
First(text) == IF Wanted.o = "c" THEN Take(text, Wanted.n) ELSE FirstLines(text, Wanted.n)

\* head writes the first lines or bytes of each file that can be read, with its
\* header, and the exit status says whether all could.  A number above INT_MAX
\* is left out: it is another number, or none, then.
HeadRight ==
  pc = "exited" /\ mem.opts.bad = 0 /\ faults = Faults /\ Wanted.n <= IntMax =>
    /\ status = IF Missing \in Range(call.files) THEN 1 ELSE 0
    /\ out = FlattenSeq([k \in 1..Len(call.files) |->
               IF call.files[k] = Missing THEN <<>>
               ELSE (IF mem.opts.headers = 1 \/ Several THEN <<0 - k>> ELSE <<>>) \o First(call.files[k])
                    \o (IF Several /\ k < Len(call.files) THEN <<Nl>> ELSE <<>>)])
=============================================================================
