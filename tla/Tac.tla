---------------------------------- MODULE Tac ----------------------------------
(***************************************************************************)
(* tac (src/tac.c): the lines of each file, last line first.                *)
(***************************************************************************)
EXTENDS TextTool

\* call = [before, separator, files]; mem = [lines, missing].

Init ==
  /\ call \in Calls
  /\ inp = call.files /\ out = <<>> /\ mem = [lines |-> <<>>, missing |-> 0]
  /\ pc = "file" /\ status = 0 /\ faults = Faults

\* read_file: a file that cannot be opened is passed over.
OpenFile ==
  /\ pc = "file"
  /\ \/ inp = <<>> /\ Exit(0) /\ Works /\ UNCHANGED <<inp, mem>>
     \/ Opens /\ pc' = "read" /\ mem' = [lines |-> <<>>, missing |-> 0] /\ UNCHANGED <<inp, status>>
     \/ CannotOpen /\ NextFile /\ UNCHANGED <<mem, pc, status>>
  /\ UNCHANGED <<call, out>>

\* A line is read and kept, up to a NUL.  An error ends the file like its end.
Read ==
  /\ pc = "read"
  /\ LET piece == Piece(Head(inp), Nl, Len(Head(inp))) line == Unended(piece, Nl) IN
       \/ /\ piece # <<>> /\ Consumed(Len(piece)) /\ Works /\ pc' = pc
          /\ mem' = [lines |-> Append(mem.lines, BeforeNul(line)),
                     missing |-> IF Last(piece) = Nl THEN 0 ELSE 1]
       \/ (IF piece = <<>> THEN Works ELSE Fails) /\ pc' = "print" /\ UNCHANGED <<inp, mem>>
  /\ UNCHANGED <<call, out, status>>

\* Mutant: the separator of the line that had no newline is not left out.
AlwaysSeparated(k) == call.separator

SeparatorAfter(k) == IF k = Len(mem.lines) /\ mem.missing = 1 THEN <<>> ELSE call.separator

\* print_reverse
PrintReverse ==
  /\ pc = "print" /\ Works
  /\ LET n == Len(mem.lines)
         after == [k \in 1..n |-> mem.lines[n + 1 - k] \o SeparatorAfter(n + 1 - k)]
         before == [k \in 1..n |-> (IF k = 1 THEN <<>> ELSE call.separator) \o mem.lines[n + 1 - k]]
     IN out' = out \o (CASE n = 0           -> <<>>
                         [] call.before = 1 -> FlattenSeq(before) \o call.separator
                         [] OTHER           -> FlattenSeq(after))
  /\ NextFile /\ pc' = "file" /\ UNCHANGED <<call, mem, status>>

Next == OpenFile \/ Read \/ PrintReverse

Spec == Init /\ [][Next]_vars

-----------------------------------------------------------------------------
(* Properties *)

TypeOK == TypesOK({"file", "read", "print", "exited"}) /\ mem.missing \in {0, 1}

Turned(text) == FlattenSeq([k \in 1..Len(LinesOf(text, Nl)) |->
                  LET n == Len(LinesOf(text, Nl)) + 1 - k
                  IN LinesOf(text, Nl)[n] \o (IF n = Len(LinesOf(text, Nl)) /\ Last(text) # Nl THEN <<>> ELSE <<Nl>>)])

\* tac turns each file round and changes none of its lines and bytes: turned
\* twice, a text with an end is what it was.  (A NUL ends the line it is in.)
TacRight ==
  pc = "exited" /\ faults = Faults /\ call.separator = <<Nl>> =>
    /\ status = 0
    /\ (\A f \in Range(Readable(call.files)) : Nul \notin Range(f)) /\ call.before = 0 =>
         /\ out = FlattenSeq([k \in 1..Len(Readable(call.files)) |-> Turned(Readable(call.files)[k])])
         /\ Len(call.files) = 1 /\ out # <<>> /\ Last(call.files[1]) = Nl => Turned(out) = call.files[1]
=============================================================================
