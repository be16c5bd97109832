----------------------------- MODULE PromptView -----------------------------
(***************************************************************************)
(* What the prompt of toolsh promises its user: a text with a cursor in    *)
(* it, and the commands of the past, oldest first, the last HistMax of     *)
(* them, no command twice in a row.  "!!" and "!N" stand for one of them.  *)
(* There is no buffer and no ring here; ToolshPrompt implements this.      *)
(***************************************************************************)
EXTENDS Integers, Sequences

CONSTANTS Chars,       \* what can be typed, "!" and " " among it
          Digits,      \* the digits among them
          DigitValue,  \* digit -> what it counts
          HistMax      \* how many commands are remembered

VARIABLES
  text,    \* the text
  cursor,  \* how many characters are to the left of the cursor
  past,    \* the commands that are remembered
  ran      \* the command run last

vars == <<text, cursor, past, ran>>

\* Without the blanks around it.
Trim(s) ==
  LET ink == {i \in 1..Len(s) : s[i] # " "}
      first == CHOOSE i \in ink : \A j \in ink : i <= j
      last == CHOOSE i \in ink : \A j \in ink : j <= i
  IN IF ink = {} THEN <<>> ELSE SubSeq(s, first, last)

\* The number that the first k characters of s spell.
Spelled(s, k) ==
  LET value[i \in 0..k] == IF i = 0 THEN 0 ELSE 10 * value[i - 1] + DigitValue[s[i]]
  IN value[k]

\* atoi: the digits that s begins with.
Number(s) ==
  LET n == CHOOSE k \in 0..Len(s) :
             /\ \A i \in 1..k : s[i] \in Digits
             /\ k < Len(s) => s[k + 1] \notin Digits
  IN Spelled(s, n)

IsBangBang(c) == c = <<"!", "!">>
IsBangNumber(c) == Len(c) >= 2 /\ c[1] = "!" /\ c[2] \in Digits

\* A command is remembered unless it is the last one again; the oldest one goes.
Remember(h, c) ==
  IF Len(h) > 0 /\ h[Len(h)] = c THEN h
  ELSE LET all == Append(h, c)
       IN IF Len(all) > HistMax THEN SubSeq(all, 2, Len(all)) ELSE all

\* The commands a line stands for: none, or one.
Meant(c, h) ==
  IF c = <<>> THEN {}
  ELSE IF IsBangBang(c) /\ Len(h) > 0 THEN {h[Len(h)]}
  ELSE IF IsBangNumber(c)
    THEN LET n == Number(SubSeq(c, 2, Len(c))) IN IF n \in 1..Len(h) THEN {h[n]} ELSE {}
  ELSE {c}

Init == text = <<>> /\ cursor = 0 /\ past = <<>> /\ ran = <<>>

Insert ==
  /\ \E c \in Chars :
       text' = SubSeq(text, 1, cursor) \o <<c>> \o SubSeq(text, cursor + 1, Len(text))
  /\ cursor' = cursor + 1
  /\ UNCHANGED <<past, ran>>

\* The character to the left of the cursor, or to its right.
Remove ==
  /\ \E i \in {cursor, cursor + 1} \cap 1..Len(text) :
       /\ text' = SubSeq(text, 1, i - 1) \o SubSeq(text, i + 1, Len(text))
       /\ cursor' = i - 1
  /\ UNCHANGED <<past, ran>>

Move == cursor' \in 0..Len(text) /\ UNCHANGED <<text, past, ran>>

\* The text is dropped, or becomes another; the cursor is behind it.
Replace ==
  /\ text' \in Seq(Chars)
  /\ cursor' = Len(text')
  /\ UNCHANGED <<past, ran>>

\* The line is entered: it runs as it is shown, and a new one begins.
Enter ==
  /\ \E c \in Meant(Trim(text), past) : ran' = c /\ past' = Remember(past, c)
  /\ text' = <<>> /\ cursor' = 0

EnterNothing ==
  /\ Meant(Trim(text), past) = {}
  /\ text' = <<>> /\ cursor' = 0
  /\ UNCHANGED <<past, ran>>

Next == Insert \/ Remove \/ Move \/ Replace \/ Enter \/ EnterNothing

Spec == Init /\ [][Next]_vars
=============================================================================
