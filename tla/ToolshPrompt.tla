---------------------------- MODULE ToolshPrompt ----------------------------
(***************************************************************************)
(* The interactive prompt of toolsh (src/toolsh.c): the line editor that   *)
(* reads keys into a fixed buffer, the ring of past commands it browses,   *)
(* and the expansion of !! and !N in main.                                 *)
(***************************************************************************)
EXTENDS Integers, Sequences

CONSTANTS Chars,       \* printable characters
          Digits,      \* the digits among them
          DigitValue,  \* digit -> what it counts
          NUL,         \* the byte that ends a string
          Size,        \* SH_INPUT_MAX
          HistMax      \* MAX_HISTORY

PromptAssumptions ==
  /\ {"!", " "} \subseteq Chars /\ Digits \subseteq Chars /\ NUL \notin Chars
  /\ DigitValue \in [Digits -> 0..9]
  /\ Size \in Nat /\ Size > 2
  /\ HistMax \in Nat \ {0}

VARIABLES
  line,       \* static char line[]
  len, pos,   \* its length and the cursor
  saved,      \* static char saved[], as a string
  nav,        \* hist_nav
  idx,        \* hist_idx
  history,    \* history[]
  histPos,    \* hist_pos
  histCount,  \* hist_count
  state,      \* "edit", "got" (main has the line) or "ended"
  ran,        \* the line run_pipeline was given last
  kept        \* the text that was left with the first Up (not in the code)

ringVars == <<history, histPos, histCount, ran>>
promptVars == <<line, len, pos, saved, nav, idx, ringVars, state, kept>>

Cells == 0..(Size - 1)
Slots == 0..(HistMax - 1)
Texts == UNION {[1..n -> Chars] : n \in 0..(Size - 2)}

\* The string that a buffer holds.
String(b) ==
  LET n == CHOOSE i \in Cells : b[i] = NUL /\ \A j \in 0..(i - 1) : b[j] # NUL
  IN [i \in 1..n |-> b[i - 1]]

\* A buffer that holds s and nothing else: memset, or strncpy with its padding.
Buffer(s) == [i \in Cells |-> IF i < Len(s) THEN s[i + 1] ELSE NUL]

PromptInit ==
  /\ line = Buffer(<<>>) /\ len = 0 /\ pos = 0
  /\ saved = <<>>
  /\ nav = 0 /\ idx = 0
  /\ history = [i \in Slots |-> <<>>]
  /\ histPos = 0 /\ histCount = 0
  /\ state = "edit"
  /\ ran = <<>>
  /\ kept = <<>>

-----------------------------------------------------------------------------
(* Keys that edit.  memmove copies n bytes as if through another buffer. *)

Moved(b, to, from, n) == [i \in Cells |-> IF to <= i /\ i < to + n THEN b[from + (i - to)] ELSE b[i]]

Editing == state = "edit" /\ UNCHANGED <<saved, nav, idx, ringVars, state, kept>>

Room == len < Size - 2

\* Mutant: the end of the line is not moved.
NoEnd(b, n) == b

Ended(b, n) == [b EXCEPT ![n] = NUL]

Type(c) ==
  /\ Editing
  /\ Room
  /\ line' = Ended([Moved(line, pos + 1, pos, len - pos) EXCEPT ![pos] = c], len + 1)
  /\ pos' = pos + 1 /\ len' = len + 1

Backspace ==
  /\ Editing
  /\ pos > 0
  /\ line' = Ended(Moved(line, pos - 1, pos, len - pos), len - 1)
  /\ pos' = pos - 1 /\ len' = len - 1

Delete ==
  /\ Editing
  /\ pos < len
  /\ line' = Ended(Moved(line, pos, pos + 1, len - pos), len - 1)
  /\ len' = len - 1 /\ pos' = pos

\* Left, Right, Home (Ctrl-A), End (Ctrl-E).
MoveCursor ==
  /\ Editing
  /\ \/ pos > 0 /\ pos' \in {pos - 1, 0}
     \/ pos < len /\ pos' \in {pos + 1, len}
  /\ UNCHANGED <<line, len>>

\* Ctrl-U and Ctrl-C: an empty line, browsed from where one was.
Kill ==
  /\ Editing
  /\ line' = Buffer(<<>>) /\ len' = 0 /\ pos' = 0

Show(s) == line' = Buffer(s) /\ len' = Len(s) /\ pos' = Len(s)

-----------------------------------------------------------------------------
(* The ring and the keys that browse it *)

\* Mutant: the oldest entry is looked for from the start of the array.
FromStart(i) == i % HistMax

\* Where the i-th command is, counted from 0 for the oldest.
Index(i) == (histPos - histCount + i + HistMax) % HistMax

Browsing == state = "edit" /\ UNCHANGED <<ringVars, state>>

\* Mutant: the line is saved at every Up.
SaveAlways == TRUE

FirstUp == nav = 0

Up ==
  /\ Browsing
  /\ nav' = 1
  /\ saved' = IF FirstUp THEN String(line) ELSE saved
  /\ kept' = IF nav = 0 THEN String(line) ELSE kept
  /\ \/ /\ idx > 0 /\ histCount > 0
        /\ idx' = idx - 1
        /\ Show(history[Index(idx')])
     \/ /\ ~(idx > 0 /\ histCount > 0)
        /\ UNCHANGED <<idx, line, len, pos>>

Down ==
  /\ Browsing
  /\ nav = 1 /\ idx < histCount
  /\ idx' = idx + 1
  /\ Show(IF idx' = histCount THEN saved ELSE history[Index(idx')])
  /\ UNCHANGED <<saved, nav, kept>>

-----------------------------------------------------------------------------
(* Enter, the end of the input, and what main does with the line *)

\* Enter, or a read that fails: the line is returned as it is.
Enter ==
  /\ state = "edit"
  /\ state' = "got"
  /\ UNCHANGED <<line, len, pos, saved, nav, idx, ringVars, kept>>

CtrlD ==
  /\ state = "edit" /\ len = 0
  /\ state' = "ended"
  /\ UNCHANGED <<line, len, pos, saved, nav, idx, ringVars, kept>>

Prompt == INSTANCE PromptView WITH text <- String(line), cursor <- pos,
                                   past <- [i \in 1..histCount |-> history[Index(i - 1)]]

Trimmed == Prompt!Trim(String(line))
Latest == history[(histPos - 1 + HistMax) % HistMax]

Again(c) == histCount > 0 /\ Latest = c

\* add_history
Add(c) ==
  IF Again(c)
    THEN UNCHANGED <<history, histPos, histCount>>
    ELSE /\ history' = [history EXCEPT ![histPos] = c]
         /\ histPos' = (histPos + 1) % HistMax
         /\ histCount' = IF histCount < HistMax THEN histCount + 1 ELSE histCount

Run(c) == Add(c) /\ ran' = c

\* The next call of read_line_interactive: hist_idx is what hist_count is by then.
NextLine ==
  /\ state = "got"
  /\ state' = "edit"
  /\ Show(<<>>)
  /\ nav' = 0 /\ idx' = histCount'
  /\ UNCHANGED <<saved, kept>>

Blank == Trimmed = <<>>
BangBang == Prompt!IsBangBang(Trimmed) /\ histCount > 0
BangNumber == ~BangBang /\ Prompt!IsBangNumber(Trimmed)
\* Which command "!N" asks for, the oldest being 1.
Asked == Prompt!Number(SubSeq(Trimmed, 2, Len(Trimmed)))

RunBlank == Blank /\ UNCHANGED ringVars /\ NextLine
RunBangBang == ~Blank /\ BangBang /\ Run(Latest) /\ NextLine
RunBangNumber ==
  /\ ~Blank /\ BangNumber
  /\ \/ Asked \in 1..histCount /\ Run(history[Index(Asked - 1)])
     \/ Asked \notin 1..histCount /\ UNCHANGED ringVars
  /\ NextLine
RunLine == ~Blank /\ ~BangBang /\ ~BangNumber /\ Run(Trimmed) /\ NextLine

PromptNext ==
  \/ (\E c \in Chars : Type(c)) \/ Backspace \/ Delete \/ MoveCursor \/ Kill
  \/ Up \/ Down \/ Enter \/ CtrlD
  \/ RunBlank \/ RunBangBang \/ RunBangNumber \/ RunLine

PromptSpec == PromptInit /\ [][PromptNext]_promptVars

-----------------------------------------------------------------------------
(* Properties *)

PromptTypeOK ==
  /\ line \in [Cells -> Chars \cup {NUL}]
  /\ len \in 0..(Size - 2) /\ pos \in 0..len
  /\ saved \in Texts /\ kept \in Texts /\ ran \in Texts
  /\ nav \in {0, 1} /\ idx \in 0..HistMax
  /\ history \in [Slots -> Texts]
  /\ histPos \in Slots /\ histCount \in 0..HistMax
  /\ state \in {"edit", "got", "ended"}

\* The variables keep their types, and the string in the buffer, which is shown
\* and run, is as long as len says, after any mix of typing, deleting and
\* recalling longer and shorter commands.
LenExact == PromptTypeOK /\ Len(String(line)) = len

\* Back at the bottom of the history the line is what it was when the user
\* first went up.
TextKept == [][Down /\ idx' = histCount => String(line') = kept]_promptVars

\* The prompt implements PromptView: the ring is the list of the last commands
\* whatever wraps around, every key edits the text as its user sees it, and what
\* runs for a line, for !! or for !N is what that list says.
PromptImplementsView == Prompt!Spec
=============================================================================
