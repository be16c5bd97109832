--------------------------------- MODULE Uniq ---------------------------------
(***************************************************************************)
(* uniq (src/uniq.c): each line is compared with the first of its group.    *)
(***************************************************************************)
EXTENDS TextTool

\* call = [given, fields, chars, most, onto, in]: in is the text; onto is 1 when
\* the output is the same file.  mem = [group, count]: the first line of the
\* group, in a sequence, and how many there are.
CONSTANT LineSize      \* MAX_LINE_LENGTH

Init ==
  /\ call \in Calls
  /\ inp = call.in /\ out = <<>> /\ mem = [group |-> <<>>, count |-> 1]
  /\ pc = "main" /\ status = 0 /\ faults = Faults

\* The output is emptied when it is opened, before anything is read.
Main ==
  /\ pc = "main"
  /\ IF Cardinality(call.given \cap {"c", "d", "D", "u"}) > 1 \/ inp = Missing THEN Exit(1) /\ Works /\ inp' = inp
     ELSE \/ pc' = "read" /\ status' = status /\ Works /\ inp' = IF call.onto = 1 THEN <<>> ELSE inp
          \/ Exit(1) /\ Fails /\ inp' = inp
  /\ UNCHANGED <<call, out, mem>>

\* process_line: strlen ends at a NUL; with -z nothing is cut off.
Processed(piece) == IF "z" \in call.given THEN BeforeNul(piece) ELSE Unended(BeforeNul(piece), Nl)

\* compare_lines: what of a line is compared.  Blanks behind skipped fields go too.
Compared(line) ==
  LET starts == SetToSortSeq({k \in 1..Len(line) : ~IsSpace(line[k]) /\ (k = 1 \/ IsSpace(line[k - 1]))}, <)
      fields == CASE call.fields = 0 -> line
                  [] call.fields < Len(starts) -> From(line, starts[call.fields + 1])
                  [] OTHER -> <<>>
      rest == From(fields, call.chars + 1)
      text == IF call.most = 0 THEN rest ELSE Take(rest, call.most)
  IN IF "i" \in call.given THEN MapSeq(ToLower, text) ELSE text

\* Mutant: lines are the same when one ends inside the other.
Alike(x, y) == LET n == Min({Len(Compared(x)), Len(Compared(y))}) IN Take(Compared(x), n) = Take(Compared(y), n)

Same(x, y) == Compared(x) = Compared(y)

\* What a group of lines gives; a count n is written as -n.
Printed(line, count) ==
  LET ended == Append(line, Nl) IN
    CASE "d" \in call.given -> IF count > 1 THEN ended ELSE <<>>
      [] "u" \in call.given -> IF count = 1 THEN ended ELSE <<>>
      [] "D" \in call.given -> IF count > 1 THEN FlattenSeq([k \in 1..count |-> ended]) ELSE <<>>
      [] "c" \in call.given -> <<0 - count>> \o ended
      [] OTHER              -> ended

\* uniq_file: fgets takes LineSize - 1 bytes at most.
Read ==
  /\ pc = "read" /\ inp # <<>>
  /\ LET piece == Piece(inp, Nl, LineSize - 1) line == Processed(piece) IN
       /\ inp' = From(inp, Len(piece) + 1)
       /\ IF mem.group = <<>> THEN mem' = [mem EXCEPT !.group = <<line>>] /\ out' = out
          ELSE IF Same(mem.group[1], line) THEN mem' = [mem EXCEPT !.count = @ + 1] /\ out' = out
          ELSE mem' = [group |-> <<line>>, count |-> 1] /\ out' = out \o Printed(mem.group[1], mem.count)
  /\ UNCHANGED <<call, pc, status, faults>>

Finish ==
  /\ pc = "read" /\ inp = <<>>
  /\ out' = (IF mem.group = <<>> THEN out ELSE out \o Printed(mem.group[1], mem.count))
  /\ Exit(0) /\ UNCHANGED <<call, inp, mem, faults>>

Next == Main \/ Read \/ Finish

Spec == Init /\ [][Next]_vars

-----------------------------------------------------------------------------
(* Properties *)

TypeOK == TypesOK({"main", "read", "exited"}) /\ mem.count > 0 /\ Len(mem.group) <= 1

Lines == LinesOf(call.in, Nl)
\* Lines j and k belong together: so does everything between.
Together(j, k) == \A l \in j..k - 1 : Compared(Lines[l]) = Compared(Lines[l + 1])
GroupOf(k) == {j \in 1..Len(Lines) : Together(Min({j, k}), Max({j, k}))}
Leads(k) == k = Min(GroupOf(k))
Count(k) == Cardinality(GroupOf(k))
Due(k) ==
  LET ended == Append(Lines[k], Nl) IN
    CASE "D" \in call.given -> IF Count(k) > 1 THEN ended ELSE <<>>
      [] ~Leads(k)          -> <<>>
      [] "d" \in call.given -> IF Count(k) > 1 THEN ended ELSE <<>>
      [] "u" \in call.given -> IF Count(k) = 1 THEN ended ELSE <<>>
      [] "c" \in call.given -> <<0 - Count(k)>> \o ended
      [] OTHER              -> ended

\* Of each group of adjacent lines that compare equal, uniq writes what its
\* option says, the last group and an unended line too.  Left out are what the
\* code does otherwise: lines that do not fit, NULs, -z, and -D with lines that
\* are only alike.
UniqRight ==
  /\ pc = "exited" /\ status = 0 /\ call.onto = 0 /\ "z" \notin call.given /\ Nul \notin Range(call.in)
  /\ \A k \in 1..Len(Lines) : Len(Lines[k]) < LineSize - 1
  /\ "D" \in call.given => call.fields = 0 /\ call.chars = 0 /\ call.most = 0 /\ "i" \notin call.given
  => out = FlattenSeq([k \in 1..Len(Lines) |-> Due(k)])
=============================================================================
