---------------------------------- MODULE Wc ----------------------------------
(***************************************************************************)
(* wc (src/wc.c): lines, words and bytes of each file and of all of them.   *)
(***************************************************************************)
EXTENDS TextTool

\* call = [show, files]; mem = [lines, words, bytes, inWord, total, done].  The
\* rows of out have the counts that are shown, in the order l, w, m, c, and the
\* number of the file: 0 for the total.
CONSTANT BufferSize

Shows == IF call.show = {} THEN {"l", "w", "c"} ELSE call.show
NoCounts == [lines |-> 0, words |-> 0, bytes |-> 0]
Fresh(m) == NoCounts @@ [inWord |-> 0] @@ m

Init ==
  /\ call \in Calls
  /\ inp = call.files /\ out = <<>>
  /\ mem = Fresh([total |-> NoCounts, done |-> 0, file |-> 1])
  /\ pc = "main" /\ status = 0 /\ faults = Faults

Main ==
  /\ pc = "main" /\ Works
  /\ IF "?" \in call.show THEN Exit(1) ELSE pc' = "file" /\ status' = status
  /\ UNCHANGED <<call, inp, out, mem>>

\* print_counts: characters are bytes.
Row(c, name) ==
  LET shown == SelectSeq(<<<<"l", c.lines>>, <<"w", c.words>>, <<"m", c.bytes>>, <<"c", c.bytes>>>>, LAMBDA p : p[1] \in Shows)
  IN Append([k \in 1..Len(shown) |-> shown[k][2]], name)

\* A file that cannot be opened is passed over; the total needs two that could.
OpenFile ==
  /\ pc = "file"
  /\ \/ Opens /\ pc' = "read" /\ mem' = Fresh(mem) /\ UNCHANGED <<inp, out, status>>
     \/ CannotOpen /\ NextFile /\ mem' = [mem EXCEPT !.file = @ + 1] /\ UNCHANGED <<out, pc, status>>
     \/ /\ inp = <<>> /\ Exit(0) /\ Works
        /\ out' = IF mem.done > 1 THEN Append(out, Row(mem.total, 0)) ELSE out
        /\ UNCHANGED <<inp, mem>>
  /\ UNCHANGED call

OneByte(m, c) ==
  [m EXCEPT !.bytes = @ + 1,
            !.lines = IF c = Nl THEN @ + 1 ELSE @,
            !.words = IF ~IsSpace(c) /\ m.inWord = 0 THEN @ + 1 ELSE @,
            !.inWord = IF IsSpace(c) THEN 0 ELSE 1]

\* Mutant: a word ends with the block.
NewWord(m) == [m EXCEPT !.inWord = 0]

SameWord(m) == m

Plus(t, m) == [lines |-> t.lines + m.lines, words |-> t.words + m.words, bytes |-> t.bytes + m.bytes]

\* process_file: blocks of any size; a read error ends the file like its end.
Read ==
  /\ pc = "read"
  /\ \/ \E n \in 1..Min({BufferSize, Len(Head(inp))}) :
          /\ mem' = FoldLeft(OneByte, SameWord(mem), Take(Head(inp), n))
          /\ Consumed(n) /\ Works /\ UNCHANGED <<out, pc>>
     \/ /\ IF Head(inp) = <<>> THEN Works ELSE Fails
        /\ out' = Append(out, Row(mem, mem.file))
        /\ mem' = [mem EXCEPT !.total = Plus(@, mem), !.done = @ + 1, !.file = @ + 1]
        /\ NextFile /\ pc' = "file"
  /\ UNCHANGED <<call, status>>

Next == Main \/ OpenFile \/ Read

Spec == Init /\ [][Next]_vars

-----------------------------------------------------------------------------
(* Properties *)

TypeOK == TypesOK({"main", "file", "read", "exited"}) /\ mem.words <= mem.bytes /\ mem.done < mem.file

CountsOf(text) ==
  [lines |-> Cardinality({k \in 1..Len(text) : text[k] = Nl}),
   words |-> Cardinality({k \in 1..Len(text) : ~IsSpace(text[k]) /\ (k = 1 \/ IsSpace(text[k - 1]))}),
   bytes |-> Len(text)]

\* The counts do not depend on how the files are read, and the total is that of
\* the files that could be.
WcRight ==
  pc = "exited" /\ "?" \notin call.show /\ faults = Faults =>
    LET files == SelectSeq([k \in 1..Len(call.files) |-> k], LAMBDA k : call.files[k] # Missing)
        rows == [k \in 1..Len(files) |-> Row(CountsOf(call.files[files[k]]), files[k])]
        total == FoldLeft(LAMBDA t, k : Plus(t, CountsOf(call.files[k])), NoCounts, files)
    IN out = rows \o (IF Len(files) > 1 THEN <<Row(total, 0)>> ELSE <<>>)
=============================================================================
