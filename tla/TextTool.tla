------------------------------- MODULE TextTool -------------------------------
(***************************************************************************)
(* What the tools that read texts and write one have in common: bytes,     *)
(* lines, and how the files of the command line are opened one by one.     *)
(***************************************************************************)
EXTENDS Integers, SequencesExt

CONSTANTS Calls,     \* the operands and options a tool is run with
          Faults     \* how many calls may fail

VARIABLES call,
          inp,       \* what is left to read: the files of the command line, or one text
          out,       \* what is written
          mem,       \* the variables of the tool
          pc, status, faults

vars == <<call, inp, out, mem, pc, status, faults>>

Fails == faults > 0 /\ faults' = faults - 1
Works == faults' = faults
Exit(s) == pc' = "exited" /\ status' = s

\* Bytes are their ASCII codes.
Nul == 0
Tab == 9
Nl == 10
Blank == 32
IsBlank(c) == c \in {Tab, Blank}
IsSpace(c) == c \in 9..13 \cup {Blank}
IsDigit(c) == c \in 48..57
IsUpper(c) == c \in 65..90
IsLower(c) == c \in 97..122
IsAlpha(c) == IsUpper(c) \/ IsLower(c)
ToLower(c) == IF IsUpper(c) THEN c + 32 ELSE c
ToUpper(c) == IF IsLower(c) THEN c - 32 ELSE c
MapSeq(Op(_), s) == [k \in 1..Len(s) |-> Op(s[k])]

From(s, n) == SubSeq(s, n, Len(s))
Take(s, n) == SubSeq(s, 1, Min({n, Len(s)}))
Sign(n) == IF n > 0 THEN 1 ELSE IF n < 0 THEN -1 ELSE 0

\* strcmp
Lex(x, y) ==
  LET differ == {k \in 1..Min({Len(x), Len(y)}) : x[k] # y[k]}
  IN IF differ = {} THEN Sign(Len(x) - Len(y)) ELSE Sign(x[Min(differ)] - y[Min(differ)])

\* getdelim: up to and with the next end of a line.  fgets: at most size - 1 bytes of it.
Piece(text, end, most) ==
  SubSeq(text, 1, Min({most, Len(text)} \cup {k \in 1..Len(text) : text[k] = end}))
Unended(line, end) == IF line # <<>> /\ Last(line) = end THEN Front(line) ELSE line

\* What a string function sees of a line.
BeforeNul(s) == Unended(Piece(s, Nul, Len(s)), Nul)

\* The lines of a text, without their ends.
LinesOf(text, end) ==
  LET ends == SetToSortSeq({k \in 1..Len(text) : text[k] = end} \cup (IF text = <<>> THEN {} ELSE {Len(text)}), <)
  IN [k \in 1..Len(ends) |-> Unended(SubSeq(text, (IF k = 1 THEN 0 ELSE ends[k - 1]) + 1, ends[k]), end)]

\* A file that cannot be opened.
Missing == <<-1>>
Readable(files) == SelectSeq(files, LAMBDA f : f # Missing)

\* The next file is opened: it is there and opening works, or it is passed over.
Opens == inp # <<>> /\ Head(inp) # Missing /\ Works
CannotOpen == inp # <<>> /\ IF Head(inp) = Missing THEN Works ELSE Fails
NextFile == inp' = Tail(inp)
Consumed(n) == inp' = <<From(Head(inp), n + 1)>> \o Tail(inp)

TypesOK(pcs) == call \in Calls /\ pc \in pcs /\ faults \in 0..Faults /\ status \in {0, 1, 2, 4, 130, 139}
=============================================================================
