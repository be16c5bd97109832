--------------------------------- MODULE Cut ---------------------------------
(***************************************************************************)
(* cut (src/cut.c): some of the characters, or of the fields, of each line. *)
(***************************************************************************)
EXTENDS TextTool

\* call = [mode, list, sep, outSep, only, files]: mode is "f", "c" or what is an
\* error; list holds ranges <<first, last>>, last -1 being the end of the line;
\* outSep is 0 when it is not given.  mem = [seps].
CONSTANTS LineSize, MaxFields

OutSep == IF call.outSep = 0 THEN call.sep ELSE call.outSep

\* strtok_r is given the address of the delimiter as if it were a string: what
\* lies behind it in memory, by the build the output delimiter, may separate too.
Init ==
  /\ call \in Calls
  /\ inp = call.files /\ out = <<>>
  /\ mem \in {[seps |-> {call.sep}], [seps |-> {call.sep, OutSep}]}
  /\ pc = "main" /\ status = 0 /\ faults = Faults

\* parse_field_list, parse_range: no more than MaxFields ranges are taken.
Ranges == Take(call.list, MaxFields)
InRange(n, r) == n >= r[1] /\ (r[2] = -1 \/ n <= r[2])

\* is_field_selected
Selected(n) == \E k \in 1..Len(Ranges) : InRange(n, Ranges[k])

Main ==
  /\ pc = "main" /\ Works
  /\ IF call.mode \in {"f", "c"} /\ \A k \in 1..Len(Ranges) : Ranges[k][1] >= 1 /\ (Ranges[k][2] = -1 \/ Ranges[k][2] >= Ranges[k][1])
       THEN pc' = "file" /\ status' = status
     ELSE Exit(1)
  /\ UNCHANGED <<call, inp, out, mem>>

\* A file that cannot be opened is passed over, and not in the exit status.
OpenFile ==
  /\ pc = "file"
  /\ \/ inp = <<>> /\ Exit(0) /\ Works /\ inp' = inp
     \/ Opens /\ pc' = "read" /\ UNCHANGED <<inp, status>>
     \/ CannotOpen /\ NextFile /\ UNCHANGED <<pc, status>>
  /\ UNCHANGED <<call, out, mem>>

\* strtok_r: the runs of bytes between separators; there is no empty field.
Fields(line) ==
  LET starts == SetToSortSeq({k \in 1..Len(line) : line[k] \notin mem.seps /\ (k = 1 \/ line[k - 1] \in mem.seps)}, <)
      stop(k) == Min({j \in k..Len(line) : line[j] \in mem.seps} \cup {Len(line) + 1})
  IN Take([k \in 1..Len(starts) |-> SubSeq(line, starts[k], stop(starts[k]) - 1)], MaxFields)
Chosen(s) == LET at == SelectSeq([k \in 1..Len(s) |-> k], Selected) IN [k \in 1..Len(at) |-> s[at[k]]]
Joined(fields) == FlattenSeq([k \in 1..Len(fields) |-> IF k = 1 THEN fields[k] ELSE <<OutSep>> \o fields[k]])

CutFields(line) ==
  CASE call.sep \notin Range(line) -> IF call.only = 1 THEN <<>> ELSE Append(line, Nl)
    [] Chosen(Fields(line)) = <<>> -> <<>>
    [] OTHER                       -> Append(Joined(Chosen(Fields(line))), Nl)

\* Mutant: every line gets an end.
EndAll(piece) == Append(Chosen(Unended(piece, Nl)), Nl)

CutCharacters(piece) == Chosen(Unended(piece, Nl)) \o (IF Last(piece) = Nl THEN <<Nl>> ELSE <<>>)

\* process_field_mode, process_character_mode: what fgets gives is a line.
Read ==
  /\ pc = "read" /\ Works
  /\ IF Head(inp) = <<>> THEN NextFile /\ pc' = "file" /\ out' = out
     ELSE LET piece == Piece(Head(inp), Nl, LineSize - 1) IN
       /\ Consumed(Len(piece)) /\ pc' = pc
       /\ out' = out \o (IF call.mode = "f" THEN CutFields(Unended(piece, Nl)) ELSE CutCharacters(piece))
  /\ UNCHANGED <<call, mem, status>>

Next == Main \/ OpenFile \/ Read

Spec == Init /\ [][Next]_vars

-----------------------------------------------------------------------------
(* Properties *)

TypeOK == TypesOK({"main", "file", "read", "exited"}) /\ call.sep \in mem.seps

Texts == Readable(call.files)
Lines == FlattenSeq([k \in 1..Len(Texts) |-> LinesOf(Texts[k], Nl)])
\* The fields of a line, empty ones too.
Split(line) ==
  LET ends == SetToSortSeq({k \in 1..Len(line) : line[k] = call.sep} \cup {Len(line) + 1}, <)
  IN [k \in 1..Len(ends) |-> SubSeq(line, (IF k = 1 THEN 0 ELSE ends[k - 1]) + 1, ends[k] - 1)]
Plain(line) ==
  /\ Len(line) < LineSize - 1 /\ Len(Split(line)) <= MaxFields
  /\ call.mode = "f" => /\ Len(Split(line)) > 1 => <<>> \notin Range(Split(line))
                        /\ OutSep # call.sep => OutSep \notin Range(line)
Due(line, ended) ==
  CASE call.mode = "c" -> Chosen(line) \o (IF ended THEN <<Nl>> ELSE <<>>)
    [] Len(Split(line)) = 1 -> IF call.only = 1 THEN <<>> ELSE Append(line, Nl)
    [] Chosen(Split(line)) = <<>> -> <<>>
    [] OTHER -> Append(Joined(Chosen(Split(line))), Nl)
DueOf(text) ==
  LET lines == LinesOf(text, Nl)
  IN FlattenSeq([k \in 1..Len(lines) |-> Due(lines[k], k < Len(lines) \/ Last(text) = Nl)])

\* cut writes what is selected of each line of each file, in the order in which
\* it is read, once.  Left out are lines that do not fit or have empty fields,
\* which do not count here, and lines with the output delimiter.
CutRight ==
  pc = "exited" /\ status = 0 /\ faults = Faults /\ (\A k \in 1..Len(Lines) : Plain(Lines[k])) =>
    out = FlattenSeq([k \in 1..Len(Texts) |-> DueOf(Texts[k])])
=============================================================================
