----------------------------- MODULE ToolshWords -----------------------------
(***************************************************************************)
(* How toolsh reads one command of a line (src/toolsh.c: tokenize,         *)
(* parse_command, expand_variables, resolve_command and the builtins that  *)
(* take their arguments apart).  A call is a list of such commands, run    *)
(* one after the other: what one defines, the next ones use.               *)
(***************************************************************************)
EXTENDS TextTool

\* call = [lines, vars, aliases]: the variables and aliases at the start, and a
\* line is what somebody means: [alias, how, parts] (see Init).
\* inp: the lines that are still to be run; out: what was run.
\* mem = [tokens, cmd, vars, aliases, n]: tokens that parse_command has not read,
\* cmd the Command, n how many lines were begun.  status is last_exit.
CONSTANTS Tools,     \* KNOWN_TOOLS
          Bin,       \* "coreutils/bin/"
          MaxArgs    \* MAX_ARGS

Quote == 39
DoubleQuote == 34
Backslash == 92
Dollar == 36
Tilde == 126
Equals == 61
Dash == 45
In == <<60>>
Onto == <<62>>
Behind == <<62, 62>>
Ampersand == <<38>>
Slashed == <<46, 47>>
EchoName == <<101, 99, 104, 111>>
AliasName == <<97, 108, 105, 97, 115>>
UnaliasName == <<117, 110>> \o AliasName
ExportName == <<101, 120, 112, 111, 114, 116>>
NoFile == Missing

-----------------------------------------------------------------------------
(* tokenize: one token, and what is behind it *)

EndsWord(c) == IsSpace(c) \/ c \in {124, 62, 60, 38, 59, DoubleQuote, Quote}
FirstAt(s, Test(_)) == Min({k \in 1..Len(s) : Test(s[k])} \cup {Len(s) + 1})

Piecewise(token, rest) == [token |-> token, rest |-> rest]
Single(s) ==
  LET k == FirstAt(s, LAMBDA c : c = Quote) IN Piecewise(Take(s, k - 1), From(s, k + 1))

\* Mutant: the character behind a backslash is taken as any other.
EscapedAny(c) == <<Backslash, c>>

\* Behind a backslash the quote, the backslash and the dollar stand for
\* themselves; before anything else the backslash stays, for echo -e.
Escaped(c) == IF c \in {DoubleQuote, Backslash, Dollar} THEN <<c>> ELSE <<Backslash, c>>

Double(s) ==
  LET r == FoldLeft(LAMBDA q, c :
             CASE q.at = "done"        -> q
               [] q.at = "escape"      -> [token |-> q.token \o Escaped(c), at |-> "in", used |-> q.used + 1]
               [] c = Backslash        -> [q EXCEPT !.at = "escape", !.used = @ + 1]
               [] c = DoubleQuote      -> [q EXCEPT !.at = "done", !.used = @ + 1]
               [] OTHER                -> [q EXCEPT !.token = Append(@, c), !.used = @ + 1],
             [token |-> <<>>, at |-> "in", used |-> 0], s)
  IN Piecewise(IF r.at = "escape" THEN Append(r.token, Backslash) ELSE r.token, From(s, r.used + 1))

OneToken(s) ==
  CASE s[1] = DoubleQuote   -> Double(Tail(s))
    [] s[1] = Quote         -> Single(Tail(s))
    [] IsPrefix(Behind, s)  -> Piecewise(Behind, From(s, 3))
    [] EndsWord(s[1])       -> Piecewise(<<s[1]>>, Tail(s))
    [] OTHER                -> LET k == FirstAt(s, EndsWord) IN Piecewise(Take(s, k - 1), From(s, k))

Skipped(s) == From(s, FirstAt(s, LAMBDA c : ~IsSpace(c)))
Tokenize(text) ==
  FoldLeft(LAMBDA r, k :
             IF Skipped(r.rest) = <<>> \/ Len(r.tokens) = MaxArgs - 1 THEN r
             ELSE LET t == OneToken(Skipped(r.rest)) IN [tokens |-> Append(r.tokens, t.token), rest |-> t.rest],
           [tokens |-> <<>>, rest |-> text], [k \in 1..Len(text) |-> k]).tokens

-----------------------------------------------------------------------------
(* expand_variables *)

Value(vars_, name) == IF name \in DOMAIN vars_ THEN vars_[name] ELSE <<>>
ValueOf(name) == Value(mem.vars, name)
Home == <<72>>
ShellPid == <<57>>
InName(c) == IsAlpha(c) \/ IsDigit(c) \/ c = 95

Text(r, c) ==
  CASE c = Dollar -> [r EXCEPT !.at = "dollar"]
    [] c = Tilde /\ r.last \in {0, Blank} -> [r EXCEPT !.text = @ \o (IF Home \in DOMAIN mem.vars THEN ValueOf(Home) ELSE <<c>>)]
    [] OTHER -> [r EXCEPT !.text = Append(@, c)]
Plus(r, t) == [r EXCEPT !.text = @ \o t, !.at = "text", !.name = <<>>]
ExpandOne(r, c) ==
  LET next == CASE r.at = "text" -> Text(r, c)
                [] r.at = "dollar" ->
                     (CASE c = 63 -> Plus(r, <<48 + status>>)
                        [] c = Dollar -> Plus(r, ShellPid)
                        [] c = 123 -> [r EXCEPT !.at = "brace"]
                        [] InName(c) /\ ~IsDigit(c) -> [r EXCEPT !.at = "name", !.name = <<c>>]
                        [] OTHER -> Plus(r, <<Dollar, c>>))
                [] r.at = "brace" -> IF c = 125 THEN Plus(r, ValueOf(r.name)) ELSE [r EXCEPT !.name = Append(@, c)]
                [] r.at = "name" -> IF InName(c) THEN [r EXCEPT !.name = Append(@, c)] ELSE Text(Plus(r, ValueOf(r.name)), c)
  IN [next EXCEPT !.last = c]

\* Behind an unclosed brace the loop steps over the end of the string, and what
\* lies there is expanded too: it may be anything.  So it is behind a dollar at
\* the end, but there the result ends before it.
Expansions(t) ==
  LET r == FoldLeft(ExpandOne, [text |-> <<>>, at |-> "text", name |-> <<>>, last |-> 0], t)
  IN CASE r.at = "dollar" -> {Append(r.text, Dollar)}
       [] r.at = "brace"  -> {r.text \o ValueOf(r.name) \o beyond : beyond \in {<<>>, <<97>>}}
       [] OTHER           -> {r.text \o ValueOf(r.name)}

-----------------------------------------------------------------------------
(* parse_command: redirections are taken out, the other tokens are arguments *)

NoCommand == [argv |-> <<>>, infile |-> NoFile, outfile |-> NoFile, appendfile |-> NoFile, errfile |-> NoFile, background |-> 0]

\* A command of the line, between its operators.
NextLine ==
  /\ pc = "line" /\ inp # <<>>
  /\ inp' = Tail(inp)
  /\ mem' = [mem EXCEPT !.tokens = Tokenize(Head(inp)), !.cmd = NoCommand, !.n = @ + 1]
  /\ pc' = "word"
  /\ UNCHANGED <<call, out, status, faults>>

NoMore ==
  /\ pc = "line" /\ inp = <<>>
  /\ pc' = "exited"
  /\ UNCHANGED <<call, inp, out, mem, status, faults>>

Token(k) == mem.tokens[k]
More(n) == Len(mem.tokens) > n
IsFd == More(1) /\ Len(Token(1)) = 1 /\ IsDigit(Token(1)[1]) /\ Token(2) \in {Onto, Behind}
IsRedirection == More(1) /\ Token(1) \in {Onto, Behind, In}
Read(n, cmd) ==
  /\ mem' = [mem EXCEPT !.tokens = From(@, n + 1), !.cmd = cmd]
  /\ UNCHANGED <<call, inp, out, pc, status, faults>>

\* N> and N>>: only 2 is standard error, and it is never appended to.
FdRedirection ==
  /\ pc = "word" /\ IsFd
  /\ LET c == mem.cmd
         fd == Token(1)[1] - 48
     IN Read(3, CASE ~More(2)                        -> c
                  [] More(2) /\ fd = 2               -> [c EXCEPT !.errfile = Token(3)]
                  [] More(2) /\ fd # 2 /\ Token(2) = Onto -> [c EXCEPT !.outfile = Token(3)]
                  [] OTHER                           -> [c EXCEPT !.appendfile = Token(3)])

Redirection ==
  /\ pc = "word" /\ ~IsFd /\ IsRedirection
  /\ LET c == mem.cmd IN
       Read(2, CASE Token(1) = Onto   -> [c EXCEPT !.outfile = Token(2)]
                 [] Token(1) = Behind -> [c EXCEPT !.appendfile = Token(2)]
                 [] OTHER             -> [c EXCEPT !.infile = Token(2)])

InBackground ==
  /\ pc = "word" /\ More(0) /\ ~IsFd /\ Token(1) = Ampersand
  /\ Read(1, [mem.cmd EXCEPT !.background = 1])

\* Mutant: what a variable holds is taken apart at its blanks.
WordsOf(t) == SelectSeq(LinesOf(t, Blank), LAMBDA w : w # <<>>)

OneWord(t) == <<t>>

Argument ==
  /\ pc = "word" /\ More(0) /\ ~IsFd /\ ~IsRedirection /\ Token(1) # Ampersand
  /\ \E t \in Expansions(Token(1)) : Read(1, [mem.cmd EXCEPT !.argv = @ \o OneWord(t)])

-----------------------------------------------------------------------------
(* The command's name *)

\* resolve_command, then the alias of what it has become: the tokens of an alias
\* are neither expanded nor resolved, and a tool is no alias any more.
Legacy(name) ==
  LET rest == From(name, 3) IN IF IsPrefix(<<98, 105, 110, 47>>, rest) THEN From(rest, 5) ELSE rest
Resolved(name) ==
  CASE IsPrefix(Bin, name)                                -> name
    [] IsPrefix(Slashed, name) /\ Legacy(name) \in Tools  -> Bin \o Legacy(name)
    [] name \in Tools                                     -> Bin \o name
    [] OTHER                                              -> name

Resolve ==
  /\ pc = "word" /\ ~More(0)
  /\ LET argv == mem.cmd.argv IN
       IF argv = <<>> THEN pc' = "line" /\ mem' = mem
       ELSE LET name == Resolved(argv[1])
                words == IF name \in DOMAIN mem.aliases THEN Tokenize(mem.aliases[name]) ELSE <<name>>
            IN /\ mem' = [mem EXCEPT !.cmd.argv = words \o Tail(argv)]
               /\ pc' = IF words \o Tail(argv) = <<>> THEN "line" ELSE "run"
  /\ UNCHANGED <<call, inp, out, status, faults>>

-----------------------------------------------------------------------------
(* Builtins.  They pay no attention to redirections. *)

Argv == mem.cmd.argv
Args == Tail(Argv)
Runs(name) == pc = "run" /\ Argv[1] = name
Returns(st, result) ==
  /\ pc' = "line" /\ status' = st /\ out' = Append(out, result)
  /\ UNCHANGED <<call, inp, faults>>

\* builtin_echo
IsOption(w) == Len(w) > 1 /\ w[1] = Dash /\ \A k \in 2..Len(w) : w[k] \in {110, 101}
Escapes == 110 :> Nl @@ 116 :> Tab @@ 114 :> 13 @@ 97 :> 7 @@ 98 :> 8 @@ Backslash :> Backslash @@ 101 :> 27 @@ 48 :> Nul
Interpreted(w) ==
  LET r == FoldLeft(LAMBDA q, c :
             IF q.after = 1 THEN [text |-> q.text \o (IF c \in DOMAIN Escapes THEN <<Escapes[c]>> ELSE <<Backslash, c>>), after |-> 0]
             ELSE IF c = Backslash THEN [q EXCEPT !.after = 1]
             ELSE [q EXCEPT !.text = Append(@, c)], [text |-> <<>>, after |-> 0], w)
  IN IF r.after = 1 THEN Append(r.text, Backslash) ELSE r.text

\* Mutant: a blank behind every word.
JoinedAll(ws) == FoldLeft(LAMBDA s, w : s \o w \o <<Blank>>, <<>>, ws)

Joined(ws) == FoldLeft(LAMBDA s, k : (IF k = 1 THEN s ELSE Append(s, Blank)) \o ws[k], <<>>, [k \in 1..Len(ws) |-> k])

Echo ==
  /\ Runs(EchoName)
  /\ LET first == FirstAt(Args, LAMBDA w : ~IsOption(w))
         Given(letter) == \E k \in 1..(first - 1) : \E j \in 2..Len(Args[k]) : Args[k][j] = letter
         words == [k \in 1..Len(From(Args, first)) |->
                     IF Given(101) THEN Interpreted(From(Args, first)[k]) ELSE From(Args, first)[k]]
     IN Returns(0, [did |-> "echo", cmd |-> mem.cmd, text |-> Joined(words) \o (IF Given(110) THEN <<>> ELSE <<Nl>>)])
  /\ mem' = mem

\* builtin_alias: NAME=VALUE, where VALUE may have quotes of its own around it;
\* without them it is joined with all further arguments.
Cut(w) == FirstAt(w, LAMBDA c : c = Equals)
NameIn(w) == Take(w, Cut(w) - 1)
ValueIn(w) == From(w, Cut(w) + 1)
HasValue(w) == Cut(w) <= Len(w)
Within(v) == Len(v) >= 2 /\ v[1] \in {Quote, DoubleQuote} /\ Last(v) = v[1]
\* Mutant: the quotes stay.
Unstripped(v) == v

Stripped(v) == SubSeq(v, 2, Len(v) - 1)

Defined(r, k) ==
  LET w == Args[k] IN
    CASE r.skip = 1 \/ r.ret = 1 -> r
      [] ~HasValue(w) -> [r EXCEPT !.ret = IF w \in DOMAIN r.aliases THEN 0 ELSE 1]
      [] HasValue(w) /\ Within(ValueIn(w)) -> [r EXCEPT !.aliases = NameIn(w) :> Stripped(ValueIn(w)) @@ @]
      [] OTHER -> [r EXCEPT !.skip = 1, !.aliases = NameIn(w) :> Joined(<<ValueIn(w)>> \o From(Args, k + 1)) @@ @]
Alias ==
  /\ Runs(AliasName)
  /\ LET r == FoldLeft(Defined, [aliases |-> mem.aliases, skip |-> 0, ret |-> 0], [k \in 1..Len(Args) |-> k])
     IN mem' = [mem EXCEPT !.aliases = r.aliases] /\ Returns(r.ret, [did |-> "alias", cmd |-> mem.cmd, text |-> <<>>])

Unalias ==
  /\ Runs(UnaliasName)
  /\ mem' = [mem EXCEPT !.aliases = [a \in DOMAIN @ \ Range(Args) |-> @[a]]]
  /\ Returns(0, [did |-> "unalias", cmd |-> mem.cmd, text |-> <<>>])

\* export NAME=VALUE for each argument, and NAME=VALUE as a command: of the
\* latter the first word only.
Assigned(old, w) == IF HasValue(w) THEN NameIn(w) :> ValueIn(w) @@ old ELSE old
Export ==
  /\ Runs(ExportName)
  /\ mem' = [mem EXCEPT !.vars = FoldLeft(Assigned, @, Args)]
  /\ Returns(0, [did |-> "export", cmd |-> mem.cmd, text |-> <<>>])

Builtins == {EchoName, AliasName, UnaliasName, ExportName}
IsAssignment == HasValue(Argv[1]) /\ NameIn(Argv[1]) # <<>> /\ \A k \in 1..Len(NameIn(Argv[1])) : InName(NameIn(Argv[1])[k])
Assign ==
  /\ pc = "run" /\ Argv[1] \notin Builtins /\ IsAssignment
  /\ mem' = [mem EXCEPT !.vars = Assigned(@, Argv[1])]
  /\ Returns(0, [did |-> "assign", cmd |-> mem.cmd, text |-> <<>>])

\* fork and exec_with_fallback: nothing but what is in coreutils/bin is run.  In
\* the background its status is not waited for.
Execute ==
  /\ pc = "run" /\ Argv[1] \notin Builtins /\ ~IsAssignment
  /\ \E st \in (IF mem.cmd.background = 1 THEN {status} ELSE IF IsPrefix(Bin, Argv[1]) THEN {0, 1} ELSE {127}) :
       Returns(st, [did |-> IF IsPrefix(Bin, Argv[1]) THEN "exec" ELSE "unknown", cmd |-> mem.cmd, text |-> <<>>])
  /\ mem' = mem

Builtin == Echo \/ Alias \/ Unalias \/ Export \/ Assign

-----------------------------------------------------------------------------
(* What somebody means by a line, and how they write it: parts that are words *)
(* (or, behind op, files), bare or in quotes, or variables; or an alias that   *)
(* stands for such parts.                                                      *)

Put(quote, w) == <<quote>> \o w \o <<quote>>
WithEscapes(w) == FoldLeft(LAMBDA s, c : s \o (IF c \in {DoubleQuote, Backslash, Dollar} THEN <<Backslash, c>> ELSE <<c>>), <<>>, w)
Spelled(how, w) ==
  CASE how = "bare"   -> w
    [] how = "single" -> Put(Quote, w)
    [] how = "double" -> Put(DoubleQuote, WithEscapes(w))
    [] how = "var"    -> <<Dollar>> \o w
    [] how = "braces" -> Put(DoubleQuote, <<Dollar, 123>> \o w \o <<125>>)
Blanks(ws) == SubSeq(FlattenSeq([k \in 1..Len(ws) |-> <<Blank>> \o ws[k]]), 2, Len(FlattenSeq(ws)) + Len(ws))
WrittenParts(parts) == Blanks([k \in 1..Len(parts) |-> parts[k].op \o Spelled(parts[k].how, parts[k].word)])
WrittenLine(l) ==
  IF l.alias = <<>> THEN WrittenParts(l.parts)
  ELSE AliasName \o <<Blank>> \o
       (IF l.how = "whole" THEN Put(DoubleQuote, l.alias \o <<Equals>> \o Put(Quote, WrittenParts(l.parts)))
        ELSE l.alias \o <<Equals>> \o Spelled(l.how, WrittenParts(l.parts)))

Init ==
  /\ call \in Calls
  /\ inp = [k \in 1..Len(call.lines) |-> WrittenLine(call.lines[k])]
  /\ out = <<>>
  /\ mem = [tokens |-> <<>>, cmd |-> NoCommand, vars |-> call.vars, aliases |-> call.aliases, n |-> 0]
  /\ pc = "line" /\ status = 0 /\ faults = Faults

Next ==
  \/ NextLine \/ NoMore \/ FdRedirection \/ Redirection \/ InBackground \/ Argument \/ Resolve
  \/ Builtin \/ Execute

Spec == Init /\ [][Next]_vars

-----------------------------------------------------------------------------
(* Properties *)

IsFile(f) == f = NoFile \/ Range(f) \subseteq 0..255
TypeOK ==
  /\ call \in Calls /\ pc \in {"line", "word", "run", "exited"} /\ status \in {0, 1, 127}
  /\ Len(mem.tokens) < MaxArgs /\ mem.n \in 0..Len(call.lines) /\ mem.cmd.background \in {0, 1}
  /\ \A f \in {"infile", "outfile", "appendfile", "errfile"} : IsFile(mem.cmd[f])

Line == call.lines[mem.n]
IsWord(p) == p.op = <<>>
Meant(p) == IF p.how \in {"var", "braces"} THEN ValueOf(p.word) ELSE p.word
WordsMeant(l) == LET ws == SelectSeq(l.parts, IsWord) IN [k \in 1..Len(ws) |-> Meant(ws[k])]
FileMeant(l, ops) ==
  LET fs == SelectSeq(l.parts, LAMBDA p : p.op \in ops) IN IF fs = <<>> THEN NoFile ELSE Last(fs).word

\* What toolsh reads in a way of its own: operators even in quotes, a digit
\* before a redirection, and dollars and tildes in single quotes.
Operators == {Onto, Behind, In, Ampersand}
Ordinary(l) ==
  /\ \A k \in 1..Len(l.parts) :
       LET p == l.parts[k] IN
         /\ p.word \notin Operators /\ Dollar \notin Range(p.word) /\ Tilde \notin Range(p.word)
         /\ p.how = "bare" => p.word # <<>> /\ \A j \in 1..Len(p.word) : ~EndsWord(p.word[j])
         /\ k < Len(l.parts) /\ l.parts[k + 1].op \in {Onto, Behind} => ~(Len(p.word) = 1 /\ IsDigit(p.word[1]))
  /\ 3 * Len(l.parts) < MaxArgs

\* The alias a name has when line n is run.
Definitions(name) == {k \in 1..(mem.n - 1) : call.lines[k].alias = name}
Stands(name) == WordsMeant(call.lines[Max(Definitions(name))])

\* A command gets exactly the words that were written, however they were quoted,
\* each variable as one word whatever it holds, and its redirections the files:
\* nothing is lost, split, joined or taken for another thing on the way.  An
\* alias that was defined by an earlier line, in quotes of either kind, stands
\* for exactly the words of its text.
WordsKept ==
  pc = "run" /\ Line.alias = <<>> /\ Ordinary(Line) /\ WordsMeant(Line) # <<>> =>
    LET words == WordsMeant(Line)
        name == words[1]
    IN IF Definitions(name) = {}
         THEN /\ name \notin DOMAIN call.aliases /\ ~IsPrefix(Slashed, name) => Argv \in {words, <<Bin \o name>> \o Tail(words)}
              /\ mem.cmd.outfile = FileMeant(Line, {Onto})
              /\ mem.cmd.appendfile = FileMeant(Line, {Behind})
              /\ mem.cmd.infile = FileMeant(Line, {In})
              /\ mem.cmd.errfile = FileMeant(Line, {<<50>> \o Onto, <<50>> \o Behind})
         ELSE Ordinary(call.lines[Max(Definitions(name))]) => Argv = Stands(name) \o Tail(words)

\* echo puts out words that can be told apart again.
EchoSeparates ==
  pc = "line" /\ out # <<>> /\ Last(out).did = "echo" =>
    LET words == Tail(Last(out).cmd.argv)
    IN (\A k \in 1..Len(words) : words[k] # <<>> /\ words[k][1] # Dash /\ Blank \notin Range(words[k])) /\ words # <<>> =>
         Last(out).text = Append(Blanks(words), Nl)

=============================================================================
