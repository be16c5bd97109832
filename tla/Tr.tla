---------------------------------- MODULE Tr ----------------------------------
(***************************************************************************)
(* tr (src/tr.c): a table is built of two sets of bytes, and every byte goes *)
(* through it.                                                               *)
(***************************************************************************)
EXTENDS TextTool

\* call = [given, set1, set2, in]: the sets are texts, Absent when not given.
\* mem = [prev, printed, any]: any is what lies in front of the empty list of
\* the bytes of an empty SET2.
CONSTANTS Alphabet,      \* the bytes, in their order
          BufferSize

Absent == Missing
Dash == 45
Backslash == 92

\* parse_escaped: the escapes for newline and tab, and any other byte for itself.
Escaped(c) == CASE c = 110 -> Nl [] c = 116 -> Tab [] OTHER -> c
Unescaped(s) ==
  FoldLeft(LAMBDA r, c :
             CASE r.after = 1     -> [text |-> Append(r.text, Escaped(c)), after |-> 0]
               [] c = Backslash -> [r EXCEPT !.after = 1]
               [] OTHER           -> [r EXCEPT !.text = Append(@, c)],
           [text |-> <<>>, after |-> 0], s).text

\* parse_range: single bytes and ranges, in either direction; escapes are read
\* once more.
RangeSet(s) ==
  FoldLeft(LAMBDA r, k :
             CASE r.after = 1 -> [set |-> r.set \cup {Escaped(s[k])}, last |-> Escaped(s[k]), open |-> 0, after |-> 0]
               [] s[k] = Backslash -> [r EXCEPT !.after = 1]
               [] s[k] = Dash /\ k > 1 /\ k < Len(s) /\ r.open = 0 -> [r EXCEPT !.open = 1]
               [] r.open = 1 -> [r EXCEPT !.set = @ \cup (Min({r.last, s[k]})..Max({r.last, s[k]}) \cap Alphabet), !.last = s[k], !.open = 0]
               [] OTHER -> [r EXCEPT !.set = @ \cup {s[k]}, !.last = s[k]],
           [set |-> {}, last |-> 0, open |-> 0, after |-> 0], [k \in 1..Len(s) |-> k]).set

Deletes == "d" \in call.given
Squeezes == "s" \in call.given
Set1 == RangeSet(Unescaped(call.set1))
Set2 == CASE call.set2 # Absent -> RangeSet(Unescaped(call.set2))
          [] Deletes -> {}
          [] OTHER -> Set1
InSet1(c) == IF "c" \in call.given THEN c \notin Set1 ELSE c \in Set1

Valid == /\ "?" \notin call.given /\ call.set1 # Absent
         /\ ~(Deletes /\ call.set2 # Absent /\ ~Squeezes)

Init ==
  /\ call \in Calls
  /\ inp = call.in /\ out = <<>> /\ mem = [prev |-> 0, printed |-> 0, any |-> 0]
  /\ pc = "main" /\ status = 0 /\ faults = Faults

\* parse_arguments.  With an empty SET2 the byte in front of an array is read:
\* it may be any.
Main ==
  /\ pc = "main" /\ Works
  /\ IF Valid THEN pc' = "read" /\ status' = status /\ \E b \in (IF Set2 = {} THEN Alphabet ELSE {0}) : mem' = [mem EXCEPT !.any = b]
     ELSE Exit(1) /\ mem' = mem
  /\ UNCHANGED <<call, inp, out>>

\* build_translation_table: both sets in the order of the bytes, whatever their
\* order on the command line; the last byte of SET2 is repeated.  A byte that is
\* to be deleted becomes a NUL.
Translated(c) ==
  LET rank == Cardinality({b \in Alphabet : InSet1(b) /\ b <= c})
      bytes == SetToSortSeq(Set2, <)
  IN CASE ~InSet1(c)  -> c
       [] Deletes     -> Nul
       [] Set2 = {}   -> mem.any
       [] OTHER       -> bytes[Min({rank, Len(bytes)})]

Squeezable(c) == IF Deletes THEN c \in Set2 ELSE InSet1(c)

\* process_stream for one byte.
OneByte(r, c) ==
  LET new == Translated(c) IN
    IF Deletes /\ new = Nul THEN r
    ELSE IF ~Squeezes THEN [r EXCEPT !.out = Append(@, new)]
    ELSE IF new = r.mem.prev /\ Squeezable(new) /\ r.mem.printed = 1 THEN r
    ELSE [out |-> Append(r.out, new), mem |-> [r.mem EXCEPT !.prev = new, !.printed = 1]]

\* Mutant: nothing has been put out yet when a block begins.
NewStart(m) == [m EXCEPT !.printed = 0]

SameStart(m) == m

Read ==
  /\ pc = "read"
  /\ \/ \E n \in 1..Min({BufferSize, Len(inp)}) :
          LET r == FoldLeft(OneByte, [out |-> out, mem |-> SameStart(mem)], Take(inp, n))
          IN out' = r.out /\ mem' = r.mem /\ inp' = From(inp, n + 1) /\ Works /\ UNCHANGED <<pc, status>>
     \/ (IF inp = <<>> THEN Works ELSE Fails) /\ Exit(0) /\ UNCHANGED <<inp, out, mem>>
  /\ UNCHANGED call

Next == Main \/ Read

Spec == Init /\ [][Next]_vars

-----------------------------------------------------------------------------
(* Properties *)

TypeOK == TypesOK({"main", "read", "exited"}) /\ mem.prev \in Alphabet /\ mem.printed \in {0, 1}

\* The table, said by ranks: it keeps the order of the bytes of SET1.
Image(c) ==
  CHOOSE b \in Set2 :
    Cardinality({x \in Set2 : x < b}) = Min({Cardinality({x \in Alphabet : InSet1(x) /\ x < c}), Cardinality(Set2) - 1})
Mapped == [k \in 1..Len(call.in) |-> IF InSet1(call.in[k]) THEN Image(call.in[k]) ELSE call.in[k]]
Remaining == SelectSeq(call.in, LAMBDA c : ~InSet1(c))
Squeezed(s) ==
  LET first == SelectSeq([k \in 1..Len(s) |-> k], LAMBDA k : k = 1 \/ s[k] # s[k - 1] \/ ~Squeezable(s[k]))
  IN [k \in 1..Len(first) |-> s[first[k]]]

Collapsed(s) ==
  LET first == SelectSeq([k \in 1..Len(s) |-> k], LAMBDA k : k = 1 \/ s[k] # s[k - 1])
  IN [k \in 1..Len(first) |-> s[first[k]]]

\* A NUL in the input of -d is left out, which is deleted whatever SET1 is, and
\* so is an empty SET2.
Defined == Valid /\ (Deletes \/ Set2 # {}) /\ Nul \notin Range(call.in)
SqueezesImage == Squeezes /\ ~Deletes /\ call.set2 # Absent

\* What comes out is the input with the bytes of SET1 deleted or translated, and
\* then squeezed, as one text: how it is read does not matter.  With -s and SET2
\* the repeats are left open here: they are what RunsSqueezed is about.
TrRight ==
  pc = "exited" /\ faults = Faults /\ Defined =>
    LET changed == IF Deletes THEN Remaining ELSE Mapped
    IN CASE SqueezesImage -> Collapsed(out) = Collapsed(changed)
         [] Squeezes /\ ~SqueezesImage -> out = Squeezed(changed)
         [] OTHER -> out = changed

\* tr.c:34, help: "-s, --squeeze-replace  replace each input sequence of repeated
\* characters with a single occurrence".  At most so many bytes come out as the
\* input has without the repeats of bytes of SET1, whatever they become.
\* Violated: with SET2 the translated byte is looked up in SET1.
RunsSqueezed ==
  pc = "exited" /\ faults = Faults /\ Defined /\ Squeezes /\ ~Deletes =>
    Len(out) <= Cardinality({k \in 1..Len(call.in) : k = 1 \/ call.in[k] # call.in[k - 1] \/ ~InSet1(call.in[k])})
=============================================================================
