----------------------------- MODULE ToolshLine -----------------------------
(***************************************************************************)
(* How toolsh runs a line (src/toolsh.c: run_pipeline, builtin_source and  *)
(* the script modes of main).  run_pipeline calls itself: on both sides of *)
(* the first unquoted ";", and, when there is none, on the left of the     *)
(* first "&&" or "||" and then, if its result says so, on all the rest.    *)
(* What is still to be done after such a call is on the stack.             *)
(*                                                                         *)
(* A line is a sequence of tokens with their places in it.  A command is   *)
(* what a segment begins with: "tool" for one that is executed, "builtin", *)
(* "source", "exit"; "word" stands for an argument.  An operator in quotes *)
(* is another token: "';'" does not split a line.                          *)
(***************************************************************************)
EXTENDS Integers, Sequences, FiniteSets

CONSTANTS Lines,     \* the lines toolsh is given
          Sourced,   \* the lines of the file that "source" reads
          Statuses   \* what a command may exit with, 0 and 1 among them

Separators == {";", "&&", "||"}
CommandNames == {"tool", "builtin", "source", "exit"}
Tokens == Separators \cup CommandNames \cup {"|", "&", "#", "word", "';'", "'&'"}

Line(l) == l \in Seq([t : Tokens, at : Nat])

\* The places of a line's tokens.
Places(l) == {l[i].at : i \in 1..Len(l)}

\* Places grow from left to right, and no two lines share one.
LineAssumptions ==
  /\ \A l \in Lines : Line(l)
  /\ Sourced \in Seq(Seq([t : Tokens, at : Nat]))
  /\ \A l \in Lines \cup {Sourced[n] : n \in 1..Len(Sourced)} :
       \A i, j \in 1..Len(l) : i < j => l[i].at < l[j].at
  /\ \A n \in 1..Len(Sourced) :
       /\ \A l \in Lines : Places(Sourced[n]) \cap Places(l) = {}
       /\ \A m \in 1..Len(Sourced) : m # n => Places(Sourced[n]) \cap Places(Sourced[m]) = {}
  /\ {0, 1} \subseteq Statuses /\ Statuses \subseteq Nat

VARIABLES
  mode,      \* "-c", or "script": the line is in a file or on standard input
  given,     \* the line toolsh was given
  current,   \* the argument of the current call
  stack,     \* what its callers have still to do: [kind, rest, lines]
  linePc,    \* "call", "return" or "exited"
  ret,       \* what the current call returns; once exited, the exit status
  lastExit,  \* last_exit
  executed,  \* the commands that were run, in order: [at, status, bg]
  failed     \* fork failed once

lineVars == <<mode, given, current, stack, linePc, ret, lastExit, executed, failed>>

LineInit ==
  /\ mode \in {"-c", "script"}
  /\ given \in Lines
  /\ current = given
  /\ stack = <<>>
  /\ linePc = "call"
  /\ ret = 0 /\ lastExit = 0
  /\ executed = <<>>
  /\ failed = 0

-----------------------------------------------------------------------------

Positions(l, ops) == {i \in 1..Len(l) : l[i].t \in ops}

LastOf(at) == CHOOSE i \in at : \A j \in at : j <= i

FirstOf(at) == CHOOSE i \in at : \A j \in at : i <= j

After(l, i) == SubSeq(l, i + 1, Len(l))

\* Mutant: both calls get the line behind the operator.
BehindIt(l, i) == After(l, i)

Before(l, i) == SubSeq(l, 1, i - 1)

Frame(kind, rest, lines) == [kind |-> kind, rest |-> rest, lines |-> lines]
Push(fr) == stack' = <<fr>> \o stack
Top == stack[1]
Pop == SubSeq(stack, 2, Len(stack))

Result(r) == linePc' = "return" /\ ret' = r /\ UNCHANGED <<current, stack>>

\* The whole line is blank or a comment.
Skipped(l) == Len(l) > 0 => l[1].t = "#"

Nothing ==
  /\ linePc = "call" /\ Skipped(current)
  /\ Result(0)
  /\ UNCHANGED <<mode, given, lastExit, executed, failed>>

Semicolons == Positions(current, {";"})
AndOrs == Positions(current, {"&&", "||"})

\* Semicolons are looked for first, then && and ||: both calls are on what is
\* left of the operator; what is right of it waits on the stack.
Split ==
  /\ linePc = "call" /\ ~Skipped(current)
  /\ LET ops == IF Semicolons # {} THEN Semicolons ELSE AndOrs
     IN /\ ops # {}
        /\ LET i == FirstOf(ops)
           IN /\ Push(Frame(IF Semicolons # {} THEN ";" ELSE current[i].t, After(current, i), <<>>))
              /\ current' = Before(current, i)
  /\ UNCHANGED <<mode, given, linePc, ret, lastExit, executed, failed>>

-----------------------------------------------------------------------------
(* A line without operators: one pipeline *)

IsPipeline == linePc = "call" /\ ~Skipped(current) /\ Semicolons = {} /\ AndOrs = {}
Pipes == Positions(current, {"|"})
Starters == CommandNames \cup {"word", "';'"}
Words == Positions(current, Starters)
Name == current[FirstOf(Words)].t

\* An "&" that ends the line, or one between words, quoted or not.
Background == Positions(current, {"&", "'&'"}) # {}

\* What was run is known by the place where its line begins.
Ran(st, bg) == executed' = Append(executed, [at |-> current[1].at, status |-> st, bg |-> bg])

NoCommand ==
  /\ IsPipeline /\ Pipes = {} /\ Words = {}
  /\ Result(0)
  /\ UNCHANGED <<mode, given, lastExit, executed, failed>>

BuiltinResults == Statuses

\* Mutant: last_exit is left alone.
KeepExit(st) == UNCHANGED lastExit

SetExit(st) == lastExit' = st

Builtin ==
  /\ IsPipeline /\ Pipes = {} /\ Words # {} /\ Name = "builtin"
  /\ \E st \in BuiltinResults : Result(st) /\ SetExit(st) /\ Ran(st, 0)
  /\ UNCHANGED <<mode, given, failed>>

\* exit: the shell ends in the middle of whatever it was running.
ExitBuiltin ==
  /\ IsPipeline /\ Pipes = {} /\ Words # {} /\ Name = "exit"
  /\ linePc' = "exited" /\ ret' = lastExit
  /\ Ran(lastExit, 0)
  /\ UNCHANGED <<mode, given, current, stack, lastExit, failed>>

\* The lines of the file are run one after the other.
Source ==
  /\ IsPipeline /\ Pipes = {} /\ Words # {} /\ Name = "source"
  /\ Push(Frame("source", <<>>, Sourced))
  /\ linePc' = "return"
  /\ Ran(0, 0)
  /\ UNCHANGED <<mode, given, current, ret, lastExit, failed>>

\* The file cannot be opened.
SourceFails ==
  /\ IsPipeline /\ Pipes = {} /\ Words # {} /\ Name = "source"
  /\ Result(1) /\ lastExit' = 1 /\ Ran(1, 0)
  /\ UNCHANGED <<mode, given, failed>>

\* A name that is no builtin, a tool or not: fork, and wait unless in the
\* background.  A pipeline is waited for in any case, "&" or not.
Execute ==
  /\ IsPipeline
  /\ \/ Pipes # {}
     \/ Words # {} /\ Name \in {"tool", "word", "';'"}
  /\ \/ Pipes = {} /\ Background /\ Result(lastExit) /\ Ran(lastExit, 1)
        /\ UNCHANGED lastExit
     \/ (Pipes # {} \/ ~Background)
        /\ \E st \in Statuses : Result(st) /\ lastExit' = st /\ Ran(st, 0)
  /\ UNCHANGED <<mode, given, failed>>

\* fork, or pipe, fails: last_exit keeps its value, the result is 1.
ForkFails ==
  /\ IsPipeline
  /\ \/ Pipes # {}
     \/ Words # {} /\ Name \in {"tool", "word", "';'"}
  /\ Result(1)
  /\ failed' = 1
  /\ UNCHANGED <<mode, given, lastExit, executed>>

-----------------------------------------------------------------------------
(* Back in the caller *)

Call(l, st) == linePc' = "call" /\ current' = l /\ stack' = st /\ UNCHANGED ret
Returns(fr) == linePc = "return" /\ stack # <<>> /\ Top.kind = fr

\* run_pipeline(line); run_pipeline(p + 1); return last_exit
RunSecond ==
  /\ Returns(";")
  /\ Call(Top.rest, <<Frame("second", <<>>, <<>>)>> \o Pop)
  /\ UNCHANGED <<mode, given, lastExit, executed, failed>>

BothRun ==
  /\ Returns("second")
  /\ ret' = lastExit /\ stack' = Pop
  /\ UNCHANGED <<mode, given, current, linePc, lastExit, executed, failed>>

\* Mutant: && goes on whatever the result.
GoesOnAlways(op) == op = "&&" \/ ret # 0

GoesOn(op) == (op = "&&" /\ ret = 0) \/ (op = "||" /\ ret # 0)

\* The rest, with all its operators, is run or not as a whole.
AndOr ==
  /\ \E op \in {"&&", "||"} :
       /\ Returns(op)
       /\ \/ GoesOn(op) /\ Call(Top.rest, Pop)
          \/ ~GoesOn(op) /\ stack' = Pop /\ UNCHANGED <<current, linePc, ret>>
  /\ UNCHANGED <<mode, given, lastExit, executed, failed>>

\* builtin_source: the next line that is neither blank nor a comment; it
\* returns 0 whatever its commands did, and last_exit becomes that.
NextSourced ==
  /\ Returns("source") /\ Top.lines # <<>>
  /\ LET later == [stack EXCEPT ![1].lines = Tail(@)]
     IN IF Skipped(Head(Top.lines))
          THEN stack' = later /\ UNCHANGED <<current, linePc, ret>>
          ELSE Call(Head(Top.lines), later)
  /\ UNCHANGED <<mode, given, lastExit, executed, failed>>

SourceDone ==
  /\ Returns("source") /\ Top.lines = <<>>
  /\ stack' = Pop
  /\ ret' = 0 /\ lastExit' = 0
  /\ UNCHANGED <<mode, given, current, linePc, executed, failed>>

\* main: the result of the line with -c, last_exit at the end of a script.
MainReturns ==
  /\ linePc = "return" /\ stack = <<>>
  /\ linePc' = "exited"
  /\ ret' = IF mode = "-c" THEN ret ELSE lastExit
  /\ UNCHANGED <<mode, given, current, stack, lastExit, executed, failed>>

-----------------------------------------------------------------------------

LineNext ==
  \/ Nothing \/ Split
  \/ NoCommand \/ Builtin \/ ExitBuiltin \/ Source \/ SourceFails \/ Execute \/ ForkFails
  \/ RunSecond \/ BothRun \/ AndOr \/ NextSourced \/ SourceDone
  \/ MainReturns

LineSpec == LineInit /\ [][LineNext]_lineVars

-----------------------------------------------------------------------------
(* Properties *)

LineTypeOK ==
  /\ mode \in {"-c", "script"} /\ Line(given) /\ Line(current)
  /\ \A i \in 1..Len(stack) :
       /\ stack[i].kind \in Separators \cup {"second", "source"}
       /\ Line(stack[i].rest)
       /\ \A j \in 1..Len(stack[i].lines) : Line(stack[i].lines[j])
  /\ linePc \in {"call", "return", "exited"}
  /\ ret \in Statuses /\ lastExit \in Statuses
  /\ executed \in Seq([at : Nat, status : Statuses, bg : {0, 1}])
  /\ failed \in {0, 1}

\* The file is read once at most.
SourcedOnce ==
  /\ \A i, j \in Positions(given, {"source"}) : i = j
  /\ \A n \in 1..Len(Sourced) : Positions(Sourced[n], {"source"}) = {}

\* A piece of the line that was given is run at most once, and never before one
\* to its left: whatever is split off and taken up again, nothing is run twice or
\* out of order.  The same holds of the lines of a file that is read once.
InOrder(l) ==
  \A i, j \in {n \in 1..Len(executed) : executed[n].at \in Places(l)} :
    i < j => executed[i].at < executed[j].at
OnceAndInOrder ==
  /\ InOrder(given)
  /\ SourcedOnce => \A n \in 1..Len(Sourced) : InOrder(Sourced[n])

(* The shell's grammar, read off the line that was given: a list of pieces     *)
(* between semicolons, each a left-associative chain of && and ||.             *)
Place(i) == given[i].at
HasRun(at) == \E n \in 1..Len(executed) : executed[n].at = at
StatusOf(at) == LET n == CHOOSE m \in 1..Len(executed) : executed[m].at = at IN executed[n].status

Commented == \E i \in 1..Len(given) : given[i].t = "#"
CommandsOf(l) == {i \in 1..Len(l) :
  l[i].t \in CommandNames /\ (i = 1 \/ l[i - 1].t \in Separators)}

\* The commands to the left of command c of the line in the same piece, the ones that ran.
LeftOf(c) == {b \in CommandsOf(given) :
  b < c /\ HasRun(Place(b)) /\ \A m \in b..c : given[m].t # ";"}

\* In a left-associative chain, c is run when the last command that ran before
\* it has the status its operator asks for.
ShouldRun(c) ==
  \/ c = 1
  \/ given[c - 1].t = ";"
  \/ LET last == LastOf(LeftOf(c))
     IN (given[c - 1].t = "&&") = (StatusOf(Place(last)) = 0)

\* Chains of one operator only, between semicolons.
Unmixed ==
  \A i, j \in Positions(given, {"&&", "||"}) :
    (\A m \in i..j : given[m].t # ";") /\ i < j => given[i].t = given[j].t

\* Each piece between operators begins with a command, or is nothing or a lone
\* "&", and every && and || has a command in the piece to its left.
WellWritten ==
  \A i \in 1..Len(given) :
    /\ i = 1 \/ given[i - 1].t \in Separators =>
         \/ given[i].t \in CommandNames \cup Separators
         \/ given[i].t = "&" /\ (i = Len(given) \/ given[i + 1].t \in Separators)
    /\ given[i].t \in {"&&", "||"} =>
         \E b \in CommandsOf(given) : b < i /\ \A m \in b..(i - 1) : given[m].t \notin Separators

\* Neither the line nor the file ends the shell.
NoExit ==
  /\ Positions(given, {"exit"}) = {}
  /\ \A n \in 1..Len(Sourced) : Positions(Sourced[n], {"exit"}) = {}

Finished == linePc = "exited" /\ failed = 0
RunAsWritten ==
  /\ \A c \in CommandsOf(given) : HasRun(Place(c)) <=> ShouldRun(c)
  /\ \A at \in Places(given) : HasRun(at) => \E c \in CommandsOf(given) : Place(c) = at

\* A line whose pieces each use one operator runs the commands that its
\* grammar says, quoted operators are not operators, and nothing else is run.
ChainsRun == Finished /\ WellWritten /\ Unmixed /\ NoExit => RunAsWritten

\* toolsh.md, Conditionals: test -f file.txt && cat file.txt || echo "not found".
ConditionalsRun == Finished /\ NoExit /\ ~Commented => RunAsWritten

\* Every && and || has a command directly to its right.
Complete(l) ==
  \A i \in Positions(l, {"&&", "||"}) : i < Len(l) /\ l[i + 1].t \in Starters

\* What toolsh exits with, from -c or from a script, is the status of the last
\* command that was waited for, unless a fork failed: last_exit and the result
\* of run_pipeline do not part, but for an && or || with no command to its right,
\* as in "c ||" or "c || &", and a "source", which counts as 0.
Waited == {n \in 1..Len(executed) : executed[n].bg = 0}
ExitIsLastStatus ==
  Finished /\ Complete(given) /\ Positions(given, {"source"}) = {} =>
    ret = IF Waited = {} THEN 0 ELSE executed[LastOf(Waited)].status
=============================================================================
