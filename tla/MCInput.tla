------------------------------- MODULE MCInput -------------------------------
(* How what is typed becomes commands and what they print is written: the      *)
(* prompt, the commands of a line, the words of a command, and the streams of  *)
(* libtool, one at a time; the variables of the others stay as they are at     *)
(* their start.  The names of the other three are used as they are. *)
(*                                                                             *)
(* The prompt: lines of up to two characters, a ring of two commands.  Lines: *)
(* up to four commands with every choice of operators, and lines with the other *)
(* tokens.  Words: commands of up to three, written in every way, and what aliases *)
(* and variables make of them.  Store: four variables in a table of three, two     *)
(* directories, two aliases.  Streams: stderr and one file, a buffer of two bytes.                *)
EXTENDS LibcStdio, ToolshPrompt, ToolshLine, ToolshStore, TLC

CONSTANTS err, f1, x, nl, nul, d1, d2, none

At(first, ts) == [k \in 1..Len(ts) |-> [t |-> ts[k], at |-> first + k]]
Operators == {";", "&&", "||"}
Chain3 == {At(0, <<"tool", a, "builtin", b, "tool">>) : a, b \in Operators}
Chain4 == {At(0, <<"tool", a, "tool", b, "builtin", c, "tool">>) : a, b, c \in Operators}
OtherLines == {At(0, l) : l \in {
  <<>>, <<"#", "tool">>, <<"&">>, <<"tool", "||">>,
  <<"tool", ";", "#", "tool", ";", "tool">>,
  <<"tool", "';'", "tool">>, <<"tool", "'&'">>, <<"tool", "&">>,
  <<"tool", "&&", "tool", "&">>, <<"tool", "&", ";", "tool">>,
  <<"tool", "||", "&">>, <<"tool", "||", "#", "tool">>, <<"source", ";", "source">>,
  <<"tool", "|", "tool", "&&", "builtin">>, <<"tool", "|", "tool", "&">>,
  <<"source", "&&", "tool">>, <<"tool", "||", "source", ";", "tool">>,
  <<"tool", "&&", "exit", ";", "tool">>}}
AllLines == Chain3 \cup Chain4 \cup OtherLines
File == <<At(100, <<"tool", "&&", "tool">>), At(200, <<"#", "tool">>), At(300, <<"builtin">>)>>

\* Words in ASCII: ls, echo, and one that is no tool.  a is 97.
ls == <<108, 115>>
echo == <<101, 99, 104, 111>>
unknown == <<120>>
Word(how, w) == [op |-> <<>>, how |-> how, word |-> w]
Bare(w) == Word("bare", w)
ToFile(op, how, w) == [op |-> op, how |-> how, word |-> w]
Parts == {Bare(<<97>>), Bare(<<50>>), Word("single", <<97, 32, 34, 62>>), Word("single", <<>>), Word("double", <<39, 59, 92, 110>>),
          Word("double", <<34, 124, 92>>), Word("single", <<62>>), Word("var", <<65>>), Word("braces", <<66>>),
          ToFile(<<62>>, "bare", <<102>>), ToFile(<<62, 62>>, "double", <<102, 32, 103>>), ToFile(<<60>>, "bare", <<102>>),
          ToFile(<<50, 62>>, "single", <<103>>), Bare(<<38>>)}
Plain(parts) == [alias |-> <<>>, how |-> "", parts |-> parts]
Given(lines) == [lines |-> lines, vars |-> <<65>> :> <<97, 32, 62, 32, 98>> @@ <<66>> :> <<>> @@ <<72>> :> <<47>>,
                 aliases |-> <<108, 108>> :> ls \o <<32, 45, 108>>]
\* A word that begins a line, and two parts; what is odd in any way.
OneCommand == {Given(<<Plain(<<Bare(w), q, r>>)>>) : w \in {ls, unknown}, q, r \in Parts}
Odd == {<<36>>, <<36, 123, 65>>, <<36, 123, 65, 125, 36, 63, 36, 36>>, <<126, 47, 126>>, <<36, 65, 36, 49>>, <<34, 97>>, <<39, 97>>, <<>>, <<62>>,
        <<49, 62>>, <<49, 62, 62, 102>>, <<34, 92, 36, 66, 92>>, <<97, 32, 97, 32, 97, 32, 97, 32, 97, 32, 97, 32, 97, 32, 97, 32, 97, 32, 97>>}
OddCommand == {Given(<<Plain(<<Bare(w)>>), Plain(<<Bare(ls), Bare(w)>>), Plain(<<Bare(ls), Bare(<<36, 63>>)>>)>>) :
                 w \in Odd \cup {<<108, 108>>, <<46, 47, 108, 115>>, <<46, 47, 98, 105, 110, 47, 108, 115>>, <<46, 47, 120>>, <<65, 61, 98>>, <<98, 47, 108, 115>>}}
\* An alias, its use, and its end or that of another; assignments.
AliasTexts == {<<Bare(echo), Bare(<<97>>)>>, <<Bare(ls), Word("double", <<97, 32, 97>>)>>, <<Bare(echo), Word("single", <<98, 32>>)>>, <<>>,
          <<Bare(echo), Bare(<<45, 101>>), Word("double", <<97, 92, 110, 92>>)>>, <<Bare(echo), Bare(<<45, 110, 101>>), Bare(<<92, 92, 99>>)>>}
Define(how, parts) == [alias |-> <<101>>, how |-> how, parts |-> parts]
Unquoted(parts, q) == \A k \in 1..Len(parts) : parts[k].how # q /\ (q = "double" => \A j \in 1..Len(parts[k].word) : parts[k].word[j] # 92)
Definings == {Define("single", t) : t \in {u \in AliasTexts : Unquoted(u, "single")}} \cup {Define("double", t) : t \in AliasTexts}
             \cup {Define("whole", t) : t \in {u \in AliasTexts : Unquoted(u, "double") /\ Unquoted(u, "single")}} \cup {Define("bare", <<Bare(echo)>>)}
Using == Plain(<<Bare(<<101>>), Word("single", <<98, 98>>), ToFile(<<62>>, "bare", <<102>>), Bare(<<99>>)>>)
UseAlone == Plain(<<Bare(<<101>>)>>)
Says(name, w) == Plain(<<Bare(name), Bare(w)>>)
Aliased == {Given(<<d, Using, UseAlone, e, UseAlone>>) :
              d \in Definings, e \in Definings \cup {Says(<<117, 110, 97, 108, 105, 97, 115>>, <<122>>), Says(<<97, 108, 105, 97, 115>>, <<122>>)}}
Assigned == {Given(<<Plain(<<Bare(w)>>), Says(<<101, 120, 112, 111, 114, 116>>, v), Plain(<<Bare(ls), Word("var", <<65>>), Word("braces", <<67>>)>>)>>) :
               w, v \in {<<65, 61, 98, 61>>, <<67, 61, 39, 98, 39>>, <<67>>}}
Unaliased == {Given(<<Define("single", <<Bare(echo)>>), Says(<<117, 110, 97, 108, 105, 97, 115>>, <<101>>), Plain(<<Bare(<<36, 97>>)>>)>>)}
WordCalls == OneCommand \cup OddCommand \cup Aliased \cup Assigned \cup Unaliased

VarNames == {"HOME", "PWD", "OLDPWD", "x"}
Environments ==
  {[HOME |-> h, PWD |-> none, OLDPWD |-> o, x |-> v] :
     h \in {d1, none}, o \in {d2, none}, v \in {d1, none}}
NoPreset == <<>>
Default == <<Entry("ll", "e1")>>

AllChars == {"!", " ", "2"}
AllDigits == {"2"}
ValueOf == [d \in AllDigits |-> 2]
StdStreams == <<err>>
AllContents == {<<>>, <<x, nl, x>>}
AllInputs == {<<nl, x>>, <<nl>>}

VARIABLES part,     \* "prompt", "line", "words", "store" or "streams"
          wordCall, inp, out, mem, wordPc, status, faults

W == INSTANCE ToolshWords WITH
       Calls <- WordCalls, Tools <- {ls, echo}, Bin <- <<98, 47>>, MaxArgs <- 10, Faults <- 0, call <- wordCall, pc <- wordPc

ASSUME PromptAssumption == PromptAssumptions
ASSUME LineAssumption == LineAssumptions
ASSUME StdioAssumption == Assumptions

wordVars == <<wordCall, inp, out, mem, wordPc, status, faults>>
inputVars == <<part, promptVars, lineVars, wordVars, storeVars, vars>>

\* What is not started could be started in some way.
LineIdle == mode = "-c" /\ given = <<>>
StreamsIdle == \A s \in {err, f1} : disk[s] = <<>>
StoreIdle == wd = d1 /\ \A n \in VarNames \ {"PWD"} : env[n] = none
NoWords == wordCall = 0 /\ inp = <<>> /\ out = <<>> /\ mem = <<>> /\ wordPc = "" /\ status = 0 /\ faults = 0

InputInit ==
  /\ Init /\ PromptInit /\ LineInit /\ StoreInit
  /\ part \in {"prompt", "line", "words", "store", "streams"}
  /\ part # "line" => LineIdle
  /\ part # "store" => StoreIdle
  /\ part # "streams" => StreamsIdle
  /\ IF part = "words" THEN W!Init ELSE NoWords

Key == part = "prompt" /\ PromptNext /\ UNCHANGED <<part, lineVars, wordVars, storeVars, vars>>
Command == part = "line" /\ LineNext /\ UNCHANGED <<part, promptVars, wordVars, storeVars, vars>>
Expansion == part = "words" /\ W!Next /\ UNCHANGED <<part, promptVars, lineVars, storeVars, vars>>
Setting == part = "store" /\ StoreNext /\ UNCHANGED <<part, promptVars, lineVars, wordVars, vars>>
StreamCall == part = "streams" /\ Next /\ UNCHANGED <<part, promptVars, lineVars, wordVars, storeVars>>

InputNext == Key \/ Command \/ Expansion \/ Setting \/ StreamCall

InputSpec == InputInit /\ [][InputNext]_inputVars

\* Bounds of the model: while f1 is open, stderr may have something in its
\* buffer, but what has reached its file is followed no further; and so are
\* aliases that were changed, which no variable looks at, once there are three
\* variables.
OneInUse == (disk[err] = <<>> \/ f[f1] = Shut) /\ (aliases = Default \/ Len(variables) < 3)

(* Properties *)

\* The string in the buffer of the prompt is as long as its length says after any
\* mix of typing, deleting and recalling; each command gets the words and files
\* that were written, in quotes or not, by alias or variable or not; the variables
\* of a line, its words and the streams have the types their C counterparts have.
InputRight ==
  CASE part = "prompt" -> LenExact
    [] part = "line" -> LineTypeOK
    [] part = "store" -> StoreTypeOK
    [] part = "words" -> W!TypeOK /\ W!WordsKept /\ W!EchoSeparates
    [] part = "streams" -> TypeOK
=============================================================================
