------------------------------- MODULE AwkParse -------------------------------
(***************************************************************************)
(* awk's parser (src/awk.c): from the tokens of a program to its rules and   *)
(* functions.  A token is a string; the lexer is left out, and the end of a  *)
(* line is a semicolon.                                                      *)
(***************************************************************************)
EXTENDS Integers, Sequences

CONSTANTS Literals     \* of each token that is a number, a string or a regular expression: [k, n, s]

Keywords ==
  {"BEGIN", "END", "if", "else", "while", "for", "do", "break", "continue", "return", "exit", "print", "printf",
   "getline", "delete", "in", "next", "nextfile", "function"}
Symbols ==
  {"+", "-", "*", "/", "%", "^", "!", "&&", "||", "==", "!=", "<", ">", "<=", ">=", "=", "+=", "-=", "*=", "/=", "%=", "^=",
   "++", "--", "~", "!~", "?", ":", "(", ")", "{", "}", "[", "]", ";", ",", "$", ">>", "|"}
Eof == "end of program"
IsLiteral(t) == t \in DOMAIN Literals
IsIdent(t) == ~IsLiteral(t) /\ t \notin Keywords \cup Symbols \cup {Eof}

\* peek_tok.  Where a token is missed, awk ends: the position is behind all others.
Tok(ts, p) == IF p \in 1..Len(ts) THEN ts[p] ELSE Eof
Died == 100000
Expect(ts, p, t) == IF Tok(ts, p) = t THEN p + 1 ELSE Died
RECURSIVE SkipNewlines(_, _)
SkipNewlines(ts, p) == IF Tok(ts, p) = ";" THEN SkipNewlines(ts, p + 1) ELSE p

\* A node: t is its type, s a name, an operator or a literal.  What is parsed has
\* a node n and the position p behind it.
Tree(t, s, kids) == [t |-> t, s |-> s, kids |-> kids]
Nothing == Tree("empty", "", <<>>)
NoTree == Tree("none", "", <<>>)      \* a pointer that is NULL
At(n, p) == [n |-> n, p |-> p]

-----------------------------------------------------------------------------
(* Expressions.  The levels from || to ^; each takes its operands from the next. *)

Ops ==
  <<{"||"}, {"&&"}, {"in"}, {"~", "!~"}, {"==", "!="}, {"<", ">", "<=", ">="}, {}, {"+", "-"}, {"*", "/", "%"}, {"^"}>>
Or == 1
In == 3
Matching == 4
Concat == 7
Primary == Len(Ops) + 1

\* Mutant: an operator takes all that follows of its own level.
FromTheRight(k) == k

\* The level of the operand behind an operator.
RightOf(k) == k + 1

\* parse_concat: what may begin another operand.
Begins(t) == IsLiteral(t) \/ IsIdent(t) \/ t \in {"(", "$"}

AssignOps == {"=", "+=", "-=", "*=", "/=", "%=", "^="}

RECURSIVE ParseExpr(_, _), Climb(_, _, _), More(_, _, _), ParsePrimary(_, _), ParseArgs(_, _, _, _), MoreArgs(_, _, _, _)

\* What is missed behind e.
Closed(ts, e, t) == At(e.n, Expect(ts, e.p, t))
Node(t, s, r) == At(Tree(t, s, r.n), r.p)
Unary1(t, s, r) == At(Tree(t, s, <<r.n>>), r.p)
Binary2(t, s, left, r) == At(Tree(t, s, <<left, r.n>>), r.p)

\* parse_args
MoreArgs(ts, e, end, args) ==
  IF Tok(ts, e.p) = "," THEN ParseArgs(ts, e.p + 1, end, Append(args, e.n)) ELSE At(Append(args, e.n), e.p)
ParseArgs(ts, p, end, args) ==
  IF Tok(ts, p) = ";" THEN ParseArgs(ts, p + 1, end, args)
  ELSE IF Tok(ts, p) \in {end, Eof} THEN At(args, p) ELSE MoreArgs(ts, ParseExpr(ts, p), end, args)
Listed(ts, p, end) == Closed(ts, ParseArgs(ts, p, end, <<>>), end)

\* An operator behind a name or an element, or none.
Postfix(ts, r) == IF Tok(ts, r.p) \in {"++", "--"} THEN At(Tree("post", Tok(ts, r.p), <<r.n>>), r.p + 1) ELSE r

ParsePrimary(ts, p) ==
  LET t == Tok(ts, p) IN
    CASE IsLiteral(t)          -> At(Tree(Literals[t].k, t, <<>>), p + 1)
      [] t = "$"               -> Unary1("field", "", ParsePrimary(ts, p + 1))
      [] t = "("               -> Closed(ts, ParseExpr(ts, p + 1), ")")
      [] t \in {"!", "-", "+"} -> Unary1("unop", t, ParsePrimary(ts, p + 1))
      [] t \in {"++", "--"}    -> Unary1("pre", t, ParsePrimary(ts, p + 1))
      [] t = "getline"         -> At(Tree("getline", "", <<>>), p + 1)
      [] IsIdent(t)            -> CASE Tok(ts, p + 1) = "(" -> Node("call", t, Listed(ts, p + 2, ")"))
                                    [] Tok(ts, p + 1) = "[" -> Postfix(ts, Node("elem", t, Listed(ts, p + 2, "]")))
                                    [] OTHER -> Postfix(ts, At(Tree("id", t, <<>>), p + 1))
      [] OTHER                 -> At(Nothing, p)

\* parse_power to parse_or: operators of one level associate to the left; in, at
\* most one, takes a name.
More(ts, r, k) ==
  LET t == Tok(ts, r.p)
      kind == IF k = Matching THEN "match" ELSE "binop"
  IN CASE k = Concat /\ Begins(t)    -> More(ts, Binary2("concat", "", r.n, Climb(ts, r.p, k + 1)), k)
       [] t \notin Ops[k]            -> r
       [] k = In                     -> At(Tree("in", Tok(ts, r.p + 1), <<r.n>>), r.p + 2)
       [] t \in Ops[k] /\ k # In     -> More(ts, Binary2(kind, t, r.n, Climb(ts, r.p + 1, RightOf(k))), k)
Climb(ts, p, k) == IF k = Primary THEN ParsePrimary(ts, p) ELSE More(ts, Climb(ts, p, k + 1), k)

\* parse_ternary, parse_assign
Otherwise(cond, yes, no) == At(Tree("ternary", "", <<cond.n, yes.n, no.n>>), no.p)
Then(ts, cond, yes) == Otherwise(cond, yes, ParseExpr(ts, Expect(ts, yes.p, ":")))
Chosen(ts, cond) == IF Tok(ts, cond.p) = "?" THEN Then(ts, cond, ParseExpr(ts, cond.p + 1)) ELSE cond
Assigned(ts, left) ==
  IF Tok(ts, left.p) \in AssignOps THEN Binary2("assign", Tok(ts, left.p), left.n, ParseExpr(ts, left.p + 1)) ELSE left
ParseExpr(ts, p) == Assigned(ts, Chosen(ts, Climb(ts, p, Or)))

-----------------------------------------------------------------------------
(* Statements *)

EndsStmt == {";", "}", Eof}
Optional(ts, p, absent) == IF Tok(ts, p) \in absent THEN At(NoTree, p) ELSE ParseExpr(ts, p)
Parenthesized(ts, p) == Closed(ts, ParseExpr(ts, Expect(ts, p, "(")), ")")

\* The arguments of print: in parentheses, or up to the end or a redirection;
\* then a > has become a comparison of the last argument.
Redirections == {">", ">>", "|"}
RECURSIVE PrintArgs(_, _, _), MorePrintArgs(_, _, _)
MorePrintArgs(ts, e, args) ==
  IF Tok(ts, e.p) = "," THEN PrintArgs(ts, e.p + 1, Append(args, e.n)) ELSE At(Append(args, e.n), e.p)
PrintArgs(ts, p, args) ==
  IF Tok(ts, p) \in EndsStmt \cup Redirections THEN At(args, p) ELSE MorePrintArgs(ts, ParseExpr(ts, p), args)

\* parse_print_redir: a redirection turns printf into print.
Redirected(args, op, to) == At(Tree("redirect", op, <<to.n>> \o args), to.p)
PrintTo(ts, kind, args) ==
  IF Tok(ts, args.p) \in Redirections THEN Redirected(args.n, Tok(ts, args.p), ParseExpr(ts, args.p + 1)) ELSE Node(kind, "", args)
ParsePrint(ts, p) ==
  PrintTo(ts, Tok(ts, p), IF Tok(ts, p + 1) = "(" THEN Listed(ts, p + 2, ")") ELSE PrintArgs(ts, p + 1, <<>>))

\* The parts of a statement are parsed in turn: each takes those before it.
RECURSIVE ParseStmt(_, _), ParseBlock(_, _, _), MoreStmts(_, _, _, _)

Made(t, s, before, last) == At(Tree(t, s, Append(before, last.n)), last.p)
Else(ts, cond, yes, p) ==
  Made("if", "", <<cond, yes>>, IF Tok(ts, p) = "else" THEN ParseStmt(ts, p + 1) ELSE At(NoTree, p))
IfBody(ts, cond, yes) == Else(ts, cond, yes.n, SkipNewlines(ts, yes.p))
ParseIf(ts, cond) == IfBody(ts, cond.n, ParseStmt(ts, cond.p))
ParseWhile(ts, cond) == Made("while", "", <<cond.n>>, ParseStmt(ts, cond.p))
DoWhile(body, cond) == At(Tree("do", "", <<cond.n, body>>), cond.p)
ParseDo(ts, body) == DoWhile(body.n, Parenthesized(ts, Expect(ts, SkipNewlines(ts, body.p), "while")))

ParseForIn(ts, p) ==
  Made("forin", Tok(ts, p), <<Tree("id", Tok(ts, p + 2), <<>>)>>, ParseStmt(ts, Expect(ts, p + 3, ")")))
ForBody(ts, init, cond, incr) == Made("for", "", <<init, cond, incr.n>>, ParseStmt(ts, Expect(ts, incr.p, ")")))
ForIncr(ts, init, cond) == ForBody(ts, init, cond.n, Optional(ts, Expect(ts, cond.p, ";"), {")"}))
ForCond(ts, init) == ForIncr(ts, init.n, Optional(ts, Expect(ts, init.p, ";"), {";"}))
ParseFor(ts, p) ==
  IF IsIdent(Tok(ts, p)) /\ Tok(ts, p + 1) = "in" THEN ParseForIn(ts, p) ELSE ForCond(ts, Optional(ts, p, {";"}))

ParseStmt(ts, p) ==
  LET t == Tok(ts, p) IN
    CASE t = ";"                   -> ParseStmt(ts, p + 1)
      [] t = "{"                   -> ParseBlock(ts, SkipNewlines(ts, p + 1), <<>>)
      [] t = "if"                  -> ParseIf(ts, Parenthesized(ts, p + 1))
      [] t = "while"               -> ParseWhile(ts, Parenthesized(ts, p + 1))
      [] t = "do"                  -> ParseDo(ts, ParseStmt(ts, p + 1))
      [] t = "for"                 -> ParseFor(ts, Expect(ts, p + 1, "("))
      [] t \in {"print", "printf"} -> ParsePrint(ts, p)
      [] t \in {"return", "exit"}  -> Unary1(t, "", Optional(ts, p + 1, EndsStmt))
      [] t \in {"break", "continue", "next", "nextfile", "getline"} -> At(Tree(t, "", <<>>), p + 1)
      [] t = "delete"              -> Unary1("delete", "", ParseExpr(ts, p + 1))
      [] OTHER                     -> ParseExpr(ts, p)

\* A token no statement can begin with would be tried for ever, until the memory
\* is used up.
MoreStmts(ts, p, stmts, s) ==
  IF SkipNewlines(ts, s.p) = p THEN At(Nothing, Died) ELSE ParseBlock(ts, SkipNewlines(ts, s.p), Append(stmts, s.n))
ParseBlock(ts, p, stmts) ==
  IF Tok(ts, p) \in {"}", Eof} THEN At(Tree("block", "", stmts), Expect(ts, p, "}"))
  ELSE MoreStmts(ts, p, stmts, ParseStmt(ts, p))

-----------------------------------------------------------------------------
(* parse_function, parse_program *)

RECURSIVE Params(_, _, _)
Params(ts, p, names) ==
  IF Tok(ts, p) \in {")", Eof} THEN At(names, p)
  ELSE IF ~IsIdent(Tok(ts, p)) THEN At(names, Died)
  ELSE IF Tok(ts, p + 1) = "," THEN Params(ts, p + 2, Append(names, Tok(ts, p)))
  ELSE At(Append(names, Tok(ts, p)), p + 1)
Named(ts, p, params, body) == At([name |-> Tok(ts, p), params |-> params, body |-> body.n], IF IsIdent(Tok(ts, p)) THEN body.p ELSE Died)
BodyAt(ts, p) == IF Tok(ts, p) = "{" THEN ParseStmt(ts, p) ELSE At(Nothing, Died)
WithBody(ts, p, params) == Named(ts, p, params.n, BodyAt(ts, SkipNewlines(ts, params.p)))
ParseFunction(ts, p) == WithBody(ts, p, Closed(ts, Params(ts, Expect(ts, p + 1, "("), <<>>), ")"))

\* A pattern, or two, and the action behind it, on the next line too.
RuleOf(kind, from, to, act) == At([kind |-> kind, from |-> from, to |-> to, act |-> act.n], act.p)
Action(ts, p) == IF Tok(ts, p) = "{" THEN ParseStmt(ts, p) ELSE At(NoTree, p)
UpTo(ts, from, to) == RuleOf("", from, to.n, Action(ts, SkipNewlines(ts, to.p)))
Pattern(ts, from) ==
  UpTo(ts, from.n, IF Tok(ts, from.p) = "," THEN ParseExpr(ts, SkipNewlines(ts, from.p + 1)) ELSE At(NoTree, from.p))
ParseRule(ts, p) ==
  CASE Tok(ts, p) \in {"BEGIN", "END"} -> RuleOf(Tok(ts, p), NoTree, NoTree, Action(ts, SkipNewlines(ts, p + 1)))
    [] Tok(ts, p) = "{"               -> RuleOf("", NoTree, NoTree, Action(ts, p))
    [] OTHER                          -> Pattern(ts, ParseExpr(ts, p))

\* g = [rules, funcs, p].  A token no rule can begin with makes rules until there
\* are too many.
RECURSIVE ParseFrom(_, _, _)
AddFunction(g, f) == [g EXCEPT !.funcs = Append(@, f.n), !.p = f.p]
AddRule(g, r) == [g EXCEPT !.rules = Append(@, r.n), !.p = IF r.p = g.p THEN Died ELSE r.p]
ParseOne(ts, g) == IF Tok(ts, g.p) = "function" THEN AddFunction(g, ParseFunction(ts, g.p + 1)) ELSE AddRule(g, ParseRule(ts, g.p))
ParseFrom(ts, p, g) ==
  CASE p >= Died        -> [g EXCEPT !.p = Died]
    [] Tok(ts, p) = Eof -> g
    [] OTHER            -> LET next == ParseOne(ts, [g EXCEPT !.p = p]) IN ParseFrom(ts, SkipNewlines(ts, next.p), next)
ParseProgram(ts) == ParseFrom(ts, SkipNewlines(ts, 1), [rules |-> <<>>, funcs |-> <<>>, p |-> 1])
=============================================================================
