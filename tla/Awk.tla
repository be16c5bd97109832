---------------------------------- MODULE Awk ----------------------------------
(***************************************************************************)
(* awk (src/awk.c): the rules run for each record, on fields that are split  *)
(* from the line and joined to it again; next, exit, break and return are    *)
(* flags that every block and loop looks at.                                 *)
(***************************************************************************)
EXTENDS TextTool, AwkParse

\* call = [name, text, fs, vars, files, stdin]: text is the program's tokens, fs and
\* vars what -F and -v give.  What a freed field or key is read as is Freed.
\* Numbers are integers.
CONSTANTS LineMax,      \* the size of a line's buffer: 65536
          MaxPipes,     \* 16
          HashSize,     \* 2048
          Freed

Stdin == <<-2>>       \* the operand -

-----------------------------------------------------------------------------
(* Values *)

Value(k, n, s) == [k |-> k, n |-> n, s |-> s]
Num(n) == Value("num", n, <<>>)
Str(s) == Value("str", 0, s)
Undef == Value("undef", 0, <<>>)
Bool(b) == Num(IF b THEN 1 ELSE 0)

\* atof, external: the digits in front.
Minus == 45
RECURSIVE DigitsToNum(_, _)
DigitsToNum(s, n) == IF s = <<>> \/ ~IsDigit(s[1]) THEN n ELSE DigitsToNum(Tail(s), n * 10 + s[1] - 48)
RECURSIVE AToF(_)
AToF(s) ==
  IF s # <<>> /\ IsSpace(s[1]) THEN AToF(Tail(s))
  ELSE IF s # <<>> /\ s[1] = Minus THEN 0 - DigitsToNum(Tail(s), 0) ELSE DigitsToNum(s, 0)

RECURSIVE NumToDigits(_)
NumToDigits(n) ==
  IF n < 0 THEN <<Minus>> \o NumToDigits(0 - n)
  ELSE IF n < 10 THEN <<48 + n>> ELSE Append(NumToDigits(n \div 10), 48 + (n % 10))

ToNum(v) == IF v.k = "str" THEN AToF(v.s) ELSE v.n
ToStr(v) == IF v.k = "num" THEN NumToDigits(v.n) ELSE v.s
IsTrue(v) == v.n # 0 \/ v.s # <<>>

-----------------------------------------------------------------------------
(* Arrays: their entries, in the order of their buckets, the last that came to a *)
(* bucket first.                                                              *)

Hash(key) == FoldLeft(LAMBDA h, x : (h * 33 + x) % HashSize, 5381 % HashSize, key)
Places(arr, key) == {k \in 1..Len(arr) : arr[k].key = key}
WithKey(arr, key) ==
  LET before == {k \in 1..Len(arr) : Hash(arr[k].key) < Hash(key)}
  IN IF Places(arr, key) # {} THEN arr ELSE InsertAt(arr, Cardinality(before) + 1, [key |-> key, v |-> Undef])
SetEntry(arr, key, v) == [k \in 1..Len(WithKey(arr, key)) |->
  IF WithKey(arr, key)[k].key = key THEN [key |-> key, v |-> v] ELSE WithKey(arr, key)[k]]
Entry(arr, key) == arr[Min(Places(arr, key))].v
WithoutKey(arr, key) == SelectSeq(arr, LAMBDA e : e.key # key)

\* m.arrs and m.vars have the names that are used.
ArrayOf(m, name) == IF name \in DOMAIN m.arrs THEN m.arrs[name] ELSE <<>>
WithArray(m, name, arr) == [m EXCEPT !.arrs = [x \in DOMAIN @ \cup {name} |-> IF x = name THEN arr ELSE m.arrs[x]]]
VarSet(m, name, v) == [m EXCEPT !.vars = [x \in DOMAIN @ \cup {name} |-> IF x = name THEN v ELSE m.vars[x]]]
VarGet(m, name) == IF name \in DOMAIN m.vars THEN m.vars[name] ELSE Undef

-----------------------------------------------------------------------------
(* regexec, external: a byte, any byte, a run of one and the begin of the      *)
(* string, which is that of what is left of it when a match is looked for      *)
(* again.  A match is <<from, to>>.                                            *)

Caret == 94
Match(re, text) ==
  LET fits(k) == k <= Len(text) /\ (re[1] = 46 \/ text[k] = re[1])
      first == {k \in 1..Len(text) : fits(k)}
      runTo(k) == Min({j \in k..Len(text) : ~fits(j + 1)})
  IN CASE re = <<>>                         -> <<0, 0>>
       [] re[1] = Caret                     -> IF text # <<>> /\ text[1] = re[2] THEN <<0, 1>> ELSE <<>>
       [] Len(re) = 2 /\ re[2] = 42         -> IF fits(1) THEN <<0, runTo(1)>> ELSE <<0, 0>>
       [] first = {}                        -> <<>>
       [] Len(re) = 2 /\ re[2] = 43         -> <<Min(first) - 1, runTo(Min(first))>>
       [] OTHER                             -> <<Min(first) - 1, Min(first)>>

\* split_fields: at runs of blanks, at one byte, or at what a regular expression
\* matches; an empty match makes a field of its own of the byte behind it.
RECURSIVE SplitAtRe(_, _)
SplitAtRe(text, re) ==
  LET at == Match(re, text) IN
    CASE text = <<>>     -> <<>>
      [] at = <<>>       -> <<text>>
      [] at[1] = at[2]   -> <<Take(text, at[1]), <<text[at[2] + 1]>>>> \o SplitAtRe(From(text, at[2] + 2), re)
      [] OTHER           -> <<Take(text, at[1])>> \o SplitAtRe(From(text, at[2] + 1), re)
Words(text) ==
  LET in(k) == k \in 1..Len(text) /\ ~IsSpace(text[k])
      begins == SetToSortSeq({k \in 1..Len(text) : in(k) /\ ~in(k - 1)}, <)
      ends == SetToSortSeq({k \in 1..Len(text) : in(k) /\ ~in(k + 1)}, <)
  IN [k \in 1..Len(begins) |-> SubSeq(text, begins[k], ends[k])]
SplitFields(text, fs) ==
  CASE fs = <<Blank>> -> Words(text)
    [] Len(fs) = 1    -> IF text # <<>> /\ Last(text) = fs[1] THEN Append(LinesOf(text, fs[1]), <<>>)
                         ELSE IF text = <<>> THEN <<<<>>>> ELSE LinesOf(text, fs[1])
    [] OTHER          -> SplitAtRe(text, fs)

Joined(parts, sep) == FlattenSeq([k \in 1..Len(parts) |-> IF k = 1 THEN parts[k] ELSE sep \o parts[k]])

\* Fields are freed when others take their places; those that split() has freed
\* are freed once more.
Freeing(m) == IF m.gone = 1 THEN [m EXCEPT !.twice = 1] ELSE m
SetLine(m, line) == [Freeing(m) EXCEPT !.line = line, !.fields = SplitFields(line, m.fs), !.gone = 0]
FieldsMade(m, n) == [k \in 1..Max({n, Len(m.fields)}) |-> IF k <= Len(m.fields) THEN m.fields[k] ELSE <<>>]

\* Mutant: the line keeps what it was.
LineLeft(m) == m

\* rebuild_line
Rebuilt(m) == [m EXCEPT !.line = Joined(m.fields, m.ofs)]
SetField(m, i, s) ==
  IF i = 0 THEN SetLine(m, s)
  ELSE Rebuilt([(IF i <= Len(m.fields) THEN Freeing(m) ELSE m) EXCEPT !.fields = [FieldsMade(m, i) EXCEPT ![i] = s]])

-----------------------------------------------------------------------------
(* Variables *)

BuiltIn(m) ==
  [NR |-> Num(m.nr), NF |-> Num(Len(m.fields)), FNR |-> Num(m.fnr), FS |-> Str(m.fs), OFS |-> Str(m.ofs),
   ORS |-> Str(m.ors), RS |-> Str(m.rs), SUBSEP |-> Str(m.subsep)]
Local(m, name) == {k \in 1..Len(m.locals) : m.locals[k].name = name}
GetVar(m, name) ==
  IF Local(m, name) # {} THEN m.locals[Min(Local(m, name))].v
  ELSE IF name \in DOMAIN BuiltIn(m) THEN BuiltIn(m)[name] ELSE VarGet(m, name)

SetLocal(m, name, v) == [m EXCEPT !.locals[Min(Local(m, name))].v = v]

\* Only = sets a variable that awk has; others set one that is never read.
SetVar(m, name, v, op) ==
  CASE Local(m, name) # {}          -> SetLocal(m, name, v)
    [] name = "FS" /\ op = "="      -> [m EXCEPT !.fs = ToStr(v)]
    [] name = "OFS" /\ op = "="     -> [m EXCEPT !.ofs = ToStr(v)]
    [] name = "ORS" /\ op = "="     -> [m EXCEPT !.ors = ToStr(v)]
    [] name = "RS" /\ op = "="      -> [m EXCEPT !.rs = ToStr(v)]
    [] name = "NF" /\ op = "="      -> Rebuilt([(IF ToNum(v) < Len(m.fields) THEN Freeing(m) ELSE m) EXCEPT
                                               !.fields = Take(FieldsMade(m, ToNum(v)), ToNum(v))])
    [] OTHER                        -> VarSet(m, name, v)

-----------------------------------------------------------------------------
(* Operators *)

Abs(n) == IF n < 0 THEN 0 - n ELSE n
CutOff(a, b) == IF b = 0 THEN 0 ELSE Sign(a) * Sign(b) * (Abs(a) \div Abs(b))
Rem(a, b) == IF b = 0 THEN 0 ELSE a - b * CutOff(a, b)
RECURSIVE Power(_, _)
Power(a, b) == IF b <= 0 THEN 1 ELSE a * Power(a, b - 1)
Arith(op, a, b) ==
  CASE op = "+" -> a + b [] op = "-" -> a - b [] op = "*" -> a * b [] op = "/" -> CutOff(a, b)
    [] op = "%" -> Rem(a, b) [] op = "^" -> Power(a, b)
Ordered(op, c) ==
  CASE op = "==" -> c = 0 [] op = "!=" -> c # 0 [] op = "<" -> c < 0 [] op = ">" -> c > 0 [] op = "<=" -> c <= 0 [] op = ">=" -> c >= 0

\* Two strings are compared as strings, two fields too.
Compare(v, w) == IF v.k = "str" /\ w.k = "str" THEN Lex(v.s, w.s) ELSE Sign(ToNum(v) - ToNum(w))
Binary(op, v, w) ==
  IF op \in {"+", "-", "*", "/", "%", "^"} THEN Num(Arith(op, ToNum(v), ToNum(w))) ELSE Bool(Ordered(op, Compare(v, w)))
Unary(op, v) == CASE op = "-" -> Num(0 - ToNum(v)) [] op = "+" -> Num(ToNum(v)) [] op = "!" -> Bool(~IsTrue(v))

\* "+=" and its like, without the equals sign.
Plain(op) ==
  [x \in AssignOps \ {"="} |-> CASE x = "+=" -> "+" [] x = "-=" -> "-" [] x = "*=" -> "*" [] x = "/=" -> "/" [] x = "%=" -> "%" [] x = "^=" -> "^"][op]

-----------------------------------------------------------------------------
(* sub, gsub and gensub: what is made of a text, and how often.  An empty text   *)
(* matches nothing.                                                          *)

Ampersand == 38
Backslash == 92
RECURSIVE Replacement(_, _, _)
Replacement(rep, matched, escapes) ==
  CASE rep = <<>>          -> <<>>
    [] rep[1] = Ampersand  -> matched \o Replacement(Tail(rep), matched, escapes)
    [] escapes /\ rep[1] = Backslash /\ Len(rep) > 1 -> <<rep[2]>> \o Replacement(From(rep, 3), matched, escapes)
    [] OTHER               -> <<rep[1]>> \o Replacement(Tail(rep), matched, escapes)

RECURSIVE Substituted(_, _, _, _, _), Replaced(_, _, _, _, _, _)
Counted(put, more) == [text |-> put \o more.text, count |-> more.count + 1]
Replaced(re, rep, text, all, escapes, at) ==
  LET put == Take(text, at[1]) \o Replacement(rep, SubSeq(text, at[1] + 1, at[2]), escapes)
      kept == IF at[1] = at[2] THEN SubSeq(text, at[2] + 1, at[2] + 1) ELSE <<>>
  IN IF ~all THEN [text |-> put \o From(text, at[2] + 1), count |-> 1]
     ELSE Counted(put \o kept, Substituted(re, rep, From(text, at[2] + 1 + Len(kept)), all, escapes))
Substituted(re, rep, text, all, escapes) ==
  IF text = <<>> \/ Match(re, text) = <<>> THEN [text |-> text, count |-> 0]
  ELSE Replaced(re, rep, text, all, escapes, Match(re, text))

\* sprintf, without flags, widths and the conversions of other numbers than d and c;
\* a byte that is none of a conversion or an escape is put out as it is.
Percent == 37
Escape(x) ==
  CASE x = 110 -> <<Nl>> [] x = 114 -> <<13>> [] x = 116 -> <<Tab>> [] x = Backslash -> <<x>> [] OTHER -> <<Backslash, x>>
RECURSIVE Formatted(_, _)
Formatted(fmt, args) ==
  LET conv == IF Len(fmt) > 1 THEN fmt[2] ELSE Nul
      arg == IF args = <<>> THEN Undef ELSE args[1]
      rest == IF args = <<>> THEN args ELSE Tail(args)
  IN CASE fmt = <<>>          -> <<>>
       [] fmt[1] = Backslash /\ Len(fmt) > 1 -> Escape(conv) \o Formatted(From(fmt, 3), args)
       [] fmt[1] # Percent    -> <<fmt[1]>> \o Formatted(Tail(fmt), args)
       [] Len(fmt) = 1        -> <<>>
       [] conv = 100          -> NumToDigits(ToNum(arg)) \o Formatted(From(fmt, 3), rest)
       [] conv = 115          -> ToStr(arg) \o Formatted(From(fmt, 3), rest)
       [] conv = 99           -> BeforeNul(<<ToNum(arg)>>) \o Formatted(From(fmt, 3), rest)
       [] OTHER               -> <<Percent, conv>> \o Formatted(From(fmt, 3), args)

-----------------------------------------------------------------------------
(* call_builtin: vs are the values of the arguments, evaluated in turn, each once: *)
(* that differs only for an argument that changes something and that awk does not  *)
(* look at, or looks at twice.                                                *)

BuiltIns == {"length", "substr", "index", "split", "sub", "gsub", "match", "sprintf", "tolower", "toupper", "int", "gensub"}
Arg(vs, k) == IF k <= Len(vs) THEN vs[k] ELSE Undef
Result(v, m) == [v |-> v, m |-> m]

Length(n, vs, m) ==
  Result(Num(CASE vs = <<>>         -> Len(m.line)
               [] vs[1].k # "undef" -> Len(ToStr(vs[1]))
               [] OTHER             -> IF n.kids[1].t = "id" THEN Len(ArrayOf(m, n.kids[1].s)) ELSE 0), m)

Substring(vs, m) ==
  LET s == ToStr(vs[1])
      start == Max({ToNum(vs[2]) - 1, 0})
      most == Len(s) - start
      n == IF Len(vs) > 2 THEN Min({ToNum(vs[3]), most}) ELSE most
  IN Result(Str(IF Len(vs) < 2 \/ most < 0 THEN <<>> ELSE SubSeq(s, start + 1, start + n)), m)

Index(vs, m) ==
  LET s == ToStr(vs[1]) sought == ToStr(vs[2])
      at == {k \in 1..Len(s) + 1 : IsPrefix(sought, From(s, k))}
  IN Result(Num(IF Len(vs) < 2 \/ at = {} THEN 0 ELSE Min(at)), m)

\* split() splits in the place of the record, whose fields it frees: what is put
\* back are the pointers to them.
Numbered(parts) == FoldLeft(LAMBDA r, k : SetEntry(r, NumToDigits(k), Str(parts[k])), <<>>, [k \in 1..Len(parts) |-> k])
FieldsGone(m) == [Freeing(m) EXCEPT !.fields = [k \in 1..Len(@) |-> Freed], !.gone = IF m.fields = <<>> THEN @ ELSE 1]
SplitInto(name, parts, m) == Result(Num(Len(parts)), WithArray(FieldsGone(m), name, Numbered(parts)))
Split(n, vs, m) ==
  IF Len(vs) < 2 THEN Result(Num(0), m)
  ELSE SplitInto(IF n.kids[2].t = "id" THEN n.kids[2].s ELSE "SPLIT_TMP",
                 SplitFields(ToStr(vs[1]), IF Len(vs) > 2 THEN ToStr(vs[3]) ELSE m.fs), m)

\* The pattern of an argument that is a regular expression is that itself, not
\* whether it matches.
PatternOf(kid, v) == IF kid.t \in {"re", "str"} THEN Literals[kid.s].s ELSE ToStr(v)

\* A field is set by the number its text stands for, and an element not at all:
\* the record is.  A name is that of a global variable.
SubField(i, text, m) == IF i \in 0..Len(m.fields) THEN SetField(m, i, text) ELSE m
SubInto(kid, v, r, m) ==
  Result(Num(r.count), CASE kid.t = "id"    -> VarSet(m, kid.s, Str(r.text))
                         [] kid.t = "field" -> SubField(ToNum(v), r.text, m)
                         [] OTHER           -> SetLine(m, r.text))
Sub(n, vs, m) ==
  LET made(text) == Substituted(PatternOf(n.kids[1], vs[1]), ToStr(vs[2]), text, n.s = "gsub", TRUE) IN
    CASE Len(vs) < 2 -> Result(Num(0), m)
      [] Len(vs) = 2 -> SubInto(NoTree, Undef, made(m.line), m)
      [] OTHER       -> SubInto(n.kids[3], vs[3], made(ToStr(vs[3])), m)

Matched(at, m) ==
  IF at = <<>> THEN Result(Num(0), VarSet(VarSet(m, "RSTART", Num(0)), "RLENGTH", Num(-1)))
  ELSE Result(Num(at[1] + 1), VarSet(VarSet(m, "RSTART", Num(at[1] + 1)), "RLENGTH", Num(at[2] - at[1])))
MatchCall(n, vs, m) == IF Len(vs) < 2 THEN Result(Num(0), m) ELSE Matched(Match(PatternOf(n.kids[2], vs[2]), ToStr(vs[1])), m)

Gensub(n, vs, m) ==
  LET all == ToStr(vs[3]) # <<>> /\ ToStr(vs[3])[1] \in {71, 103}
      r == Substituted(PatternOf(n.kids[1], vs[1]), ToStr(vs[2]), IF Len(vs) > 3 THEN ToStr(vs[4]) ELSE m.line, all, FALSE)
  IN Result(Str(IF Len(vs) < 3 THEN <<>> ELSE r.text), m)

CallBuiltin(n, vs, m) ==
  CASE n.s = "length"           -> Length(n, vs, m)
    [] n.s = "substr"           -> Substring(vs, m)
    [] n.s = "index"            -> Index(vs, m)
    [] n.s = "split"            -> Split(n, vs, m)
    [] n.s \in {"sub", "gsub"}  -> Sub(n, vs, m)
    [] n.s = "match"            -> MatchCall(n, vs, m)
    [] n.s = "sprintf"          -> Result(Str(IF vs = <<>> THEN <<>> ELSE Formatted(ToStr(vs[1]), Tail(vs))), m)
    [] n.s = "tolower"          -> Result(Str(MapSeq(ToLower, ToStr(Arg(vs, 1)))), m)
    [] n.s = "toupper"          -> Result(Str(MapSeq(ToUpper, ToStr(Arg(vs, 1)))), m)
    [] n.s = "int"              -> Result(Num(ToNum(Arg(vs, 1))), m)
    [] n.s = "gensub"           -> Gensub(n, vs, m)

-----------------------------------------------------------------------------
(* eval_node.  A result has a value v and the memory m. *)

Set(m, flag) == [m EXCEPT !.flags = @ \cup {flag}]
Clear(m, flag) == [m EXCEPT !.flags = @ \ {flag}]

\* Any flag ends a block.
EndsBlock(m) == m.flags # {}
EndsLoop(m) == m.flags \cap {"exit", "next", "nextfile", "return"} # {}

RECURSIVE Eval(_, _), Evals(_, _, _), Block(_, _, _), WhileLoop(_, _), DoLoop(_, _), ForLoop(_, _), ForIn(_, _, _)

\* The values of several, from the left.
Evals(kids, vs, m) ==
  LET r == Eval(kids[Len(vs) + 1], m) IN
    IF Len(vs) = Len(kids) THEN [vs |-> vs, m |-> m] ELSE Evals(kids, Append(vs, r.v), r.m)

\* The key of an element: the subscripts, with SUBSEP between.
Key(kids, subsep, m) ==
  LET r == Evals(kids, <<>>, m) IN [s |-> Joined([k \in 1..Len(r.vs) |-> ToStr(r.vs[k])], subsep), m |-> r.m]

\* What =, op=, ++ and -- assign to.
Store(lhs, v, op, m) ==
  LET index == Eval(lhs.kids[1], m)
      key == Key(lhs.kids, m.subsep, m)
  IN CASE lhs.t = "id"    -> SetVar(m, lhs.s, v, op)
       [] lhs.t = "field" -> SetField(index.m, ToNum(index.v), ToStr(v))
       [] lhs.t = "elem"  -> WithArray(key.m, lhs.s, SetEntry(ArrayOf(key.m, lhs.s), key.s, v))
       [] OTHER           -> m

Field(m, i) == IF i = 0 THEN Str(m.line) ELSE IF i \in 1..Len(m.fields) THEN Str(m.fields[i]) ELSE Str(<<>>)

\* An element that is looked at is there from then on.
Element(n, m) ==
  LET key == Key(n.kids, m.subsep, m) arr == WithKey(ArrayOf(key.m, n.s), key.s)
  IN Result(Entry(arr, key.s), WithArray(key.m, n.s, arr))

IsIn(n, m) ==
  LET key == Key(IF n.kids[1].t = "elem" THEN n.kids[1].kids ELSE n.kids, m.subsep, m)
  IN Result(Bool(Places(ArrayOf(key.m, n.s), key.s) # {}), key.m)

\* && and || look at their second operand only where it matters.
Logical(n, m) ==
  LET l == Eval(n.kids[1], m) r == Eval(n.kids[2], l.m) IN
    IF IsTrue(l.v) = (n.s = "||") THEN Result(Bool(n.s = "||"), l.m) ELSE Result(Bool(IsTrue(r.v)), r.m)

Infix(n, m) == LET r == Evals(n.kids, <<>>, m) IN Result(Binary(n.s, r.vs[1], r.vs[2]), r.m)

\* A regular expression to the right of ~ is evaluated as any other: its value,
\* 1 or 0, is the pattern.
Tilde(n, m) ==
  LET r == Evals(n.kids, <<>>, m) IN Result(Bool((Match(ToStr(r.vs[2]), ToStr(r.vs[1])) # <<>>) = (n.s = "~")), r.m)

Assign(n, m) ==
  LET r == Eval(n.kids[2], m)
      both == Evals(n.kids, <<>>, m)
      v == Num(Arith(Plain(n.s), ToNum(both.vs[1]), ToNum(both.vs[2])))
  IN IF n.s = "=" THEN Result(r.v, Store(n.kids[1], r.v, "=", r.m)) ELSE Result(v, Store(n.kids[1], v, n.s, both.m))

Increment(n, m) ==
  LET r == Eval(n.kids[1], m)
      v == Num(ToNum(r.v) + IF n.s = "++" THEN 1 ELSE -1)
  IN Result(IF n.t = "post" THEN Num(ToNum(r.v)) ELSE v, Store(n.kids[1], v, n.s, r.m))

\* A function has its own flag and value of return; next and exit stay set, and
\* so do break and continue.
Entered(f, args) ==
  [Clear(args.m, "return") EXCEPT !.rval = Undef,
     !.locals = [k \in 1..Len(f.params) |-> [name |-> f.params[k], v |-> Arg(args.vs, k)]]]
Returned(args, m) ==
  Result(m.rval, [m EXCEPT !.flags = (@ \ {"return"}) \cup (args.m.flags \cap {"return"}), !.rval = args.m.rval, !.locals = args.m.locals])
RunFunction(f, args) == Returned(args, Eval(f.body, Entered(f, args)).m)
CallFunction(f, n, m) == RunFunction(f, Evals(Take(n.kids, Len(f.params)), <<>>, m))

\* A name may be that of a function of awk and of the program: both are called.
Called(n, b) ==
  LET f == {k \in 1..Len(b.m.funcs) : b.m.funcs[k].name = n.s} IN IF f = {} THEN b ELSE CallFunction(b.m.funcs[Min(f)], n, b.m)
BuiltinResult(n, args) == CallBuiltin(n, args.vs, args.m)
Call(n, m) == Called(n, IF n.s \in BuiltIns THEN BuiltinResult(n, Evals(n.kids, <<>>, m)) ELSE Result(Undef, m))

Say(m, s) == [m EXCEPT !.said = @ \o s]

\* print puts each value out before it looks at the next; r = [s, m] has what is
\* for a file or a command.
RECURSIVE PutValues(_, _, _, _)
PutValues(kids, k, direct, r) ==
  LET put(x, t) == IF direct THEN [x EXCEPT !.m = Say(@, t)] ELSE [x EXCEPT !.s = @ \o t]
      parted == IF k > 1 THEN put(r, r.m.ofs) ELSE r
      e == Eval(kids[k], parted.m)
  IN IF k > Len(kids) THEN put(r, r.m.ors) ELSE PutValues(kids, k + 1, direct, put([parted EXCEPT !.m = e.m], ToStr(e.v)))
Put(kids, direct, m) ==
  IF kids # <<>> THEN PutValues(kids, 1, direct, [s |-> <<>>, m |-> m])
  ELSE IF direct THEN [s |-> <<>>, m |-> Say(m, m.line \o m.ors)] ELSE [s |-> m.line \o m.ors, m |-> m]

PrintF(kids, m) ==
  LET r == Evals(kids, <<>>, m) IN IF kids = <<>> THEN m ELSE Say(r.m, Formatted(ToStr(r.vs[1]), Tail(r.vs)))

\* A file is opened each time and, with >, emptied: the one without a name cannot
\* be, and nothing is put out.  A command is started once, and there are only so
\* many.  Behind the last, what was for a command goes to the output.
Redirect(n, m) ==
  LET to == Eval(n.kids[1], m)
      name == ToStr(to.v)
      piped == n.s = "|"
      there == {k \in 1..Len(to.m.sinks) : to.m.sinks[k].name = name /\ to.m.sinks[k].piped = piped}
      full == piped /\ there = {} /\ Cardinality({k \in 1..Len(to.m.sinks) : to.m.sinks[k].piped}) = MaxPipes
      k == IF there = {} THEN Len(to.m.sinks) + 1 ELSE Min(there)
      new == [name |-> name, piped |-> piped, text |-> <<>>]
      opened == CASE there = {} -> [to.m EXCEPT !.sinks = Append(@, new)]
                  [] n.s = ">"  -> [to.m EXCEPT !.sinks[k] = new]
                  [] OTHER      -> to.m
      r == Put(Tail(n.kids), FALSE, opened)
  IN CASE ~piped /\ name = <<>> -> to.m
       [] full                  -> Put(Tail(n.kids), TRUE, to.m).m
       [] OTHER                 -> [r.m EXCEPT !.sinks[k].text = @ \o r.s]

-----------------------------------------------------------------------------
(* Statements *)

Block(kids, k, m) ==
  LET r == Eval(kids[k], m) IN IF k > Len(kids) THEN m ELSE IF EndsBlock(r.m) THEN r.m ELSE Block(kids, k + 1, r.m)

WhileLoop(n, m) ==
  LET cond == Eval(n.kids[1], m) body == Eval(n.kids[2], cond.m).m IN
    CASE ~IsTrue(cond.v)             -> cond.m
      [] "break" \in body.flags      -> Clear(body, "break")
      [] "continue" \in body.flags   -> WhileLoop(n, Clear(body, "continue"))
      [] EndsLoop(body)              -> body
      [] OTHER                       -> WhileLoop(n, body)

DoLoop(n, m) ==
  LET body == Eval(n.kids[2], m).m
      going == Clear(body, "continue")
      cond == Eval(n.kids[1], going)
  IN CASE "break" \in body.flags -> Clear(body, "break")
       [] EndsLoop(going)        -> going
       [] IsTrue(cond.v)         -> DoLoop(n, cond.m)
       [] OTHER                  -> cond.m

\* n.kids: the first statement, the condition, the last of a turn, and the body.
ForLoop(n, m) ==
  LET cond == IF n.kids[2].t = "none" THEN Result(Num(1), m) ELSE Eval(n.kids[2], m)
      body == Eval(n.kids[4], cond.m).m
      going == Clear(body, "continue")
  IN CASE ~IsTrue(cond.v)        -> cond.m
       [] "break" \in body.flags -> Clear(body, "break")
       [] EndsLoop(going)        -> going
       [] OTHER                  -> ForLoop(n, Eval(n.kids[3], going).m)

\* The keys are those the array has at the start, where they are: one that the
\* loop has deleted is read after it was freed.
ForIn(n, keys, m) ==
  LET key == IF Places(ArrayOf(m, n.kids[1].s), keys[1]) = {} THEN Freed ELSE keys[1]
      named == IF Local(m, n.s) # {} THEN SetLocal(m, n.s, Str(key)) ELSE VarSet(m, n.s, Str(key))
      body == Eval(n.kids[2], named).m
      going == Clear(body, "continue")
  IN CASE keys = <<>>            -> m
       [] "break" \in body.flags -> Clear(body, "break")
       [] EndsLoop(going)        -> going
       [] OTHER                  -> ForIn(n, Tail(keys), going)

Choice(n, m) ==
  LET cond == Eval(n.kids[1], m) IN IF IsTrue(cond.v) THEN Eval(n.kids[2], cond.m) ELSE Eval(n.kids[3], cond.m)

Return(n, m) ==
  LET r == Eval(n.kids[1], Set(m, "return")) IN Result(r.v, [r.m EXCEPT !.rval = r.v])
ExitStmt(n, m) ==
  LET r == Eval(n.kids[1], Set(m, "exit")) IN IF n.kids[1].t = "none" THEN r.m ELSE [r.m EXCEPT !.code = ToNum(r.v)]

Delete(n, m) ==
  LET target == n.kids[1] key == Key(target.kids, m.subsep, m) IN
    CASE target.t = "id"   -> IF target.s \in DOMAIN m.arrs THEN WithArray(m, target.s, <<>>) ELSE m
      [] target.t = "elem" -> IF target.s \in DOMAIN m.arrs
                              THEN WithArray(key.m, target.s, WithoutKey(ArrayOf(key.m, target.s), key.s)) ELSE m
      [] OTHER             -> m

\* getline reads from the standard input, whatever file is being read.
LineOf(text) == Piece(text, Nl, LineMax - 1)
GetLine(m) ==
  IF m.stdin = <<>> THEN Result(Num(0), m)
  ELSE Result(Num(1), SetLine([m EXCEPT !.stdin = From(@, Len(LineOf(@)) + 1), !.nr = @ + 1, !.fnr = @ + 1],
                              Unended(LineOf(m.stdin), Nl)))

Eval(n, m) ==
  CASE n.t = "num"       -> Result(Num(Literals[n.s].n), m)
    [] n.t = "str"       -> Result(Str(Literals[n.s].s), m)
    [] n.t = "re"        -> Result(Bool(Match(Literals[n.s].s, m.line) # <<>>), m)
    [] n.t = "id"        -> Result(GetVar(m, n.s), m)
    [] n.t = "field"     -> LET i == Eval(n.kids[1], m) IN Result(Field(i.m, ToNum(i.v)), i.m)
    [] n.t = "elem"      -> Element(n, m)
    [] n.t = "in"        -> IsIn(n, m)
    [] n.t = "assign"    -> Assign(n, m)
    [] n.t \in {"pre", "post"} -> Increment(n, m)
    [] n.t = "binop"     -> IF n.s \in {"&&", "||"} THEN Logical(n, m) ELSE Infix(n, m)
    [] n.t = "unop"      -> LET r == Eval(n.kids[1], m) IN Result(Unary(n.s, r.v), r.m)
    [] n.t = "ternary"   -> Choice(n, m)
    [] n.t = "concat"    -> LET r == Evals(n.kids, <<>>, m) IN Result(Str(ToStr(r.vs[1]) \o ToStr(r.vs[2])), r.m)
    [] n.t = "match"     -> Tilde(n, m)
    [] n.t = "call"      -> Call(n, m)
    [] n.t = "print"     -> Result(Undef, Put(n.kids, TRUE, m).m)
    [] n.t = "printf"    -> Result(Undef, PrintF(n.kids, m))
    [] n.t = "redirect"  -> Result(Undef, Redirect(n, m))
    [] n.t = "block"     -> Result(Undef, Block(n.kids, 1, m))
    [] n.t = "if"        -> Choice(n, m)
    [] n.t = "while"     -> Result(Undef, WhileLoop(n, m))
    [] n.t = "do"        -> Result(Undef, DoLoop(n, m))
    [] n.t = "for"       -> Result(Undef, ForLoop(n, Eval(n.kids[1], m).m))
    [] n.t = "forin"     -> LET arr == ArrayOf(m, n.kids[1].s) IN Result(Undef, ForIn(n, [k \in 1..Len(arr) |-> arr[k].key], m))
    [] n.t \in {"break", "continue", "next", "nextfile"} -> Result(Undef, Set(m, n.t))
    [] n.t = "return"    -> Return(n, m)
    [] n.t = "exit"      -> Result(Undef, ExitStmt(n, m))
    [] n.t = "delete"    -> Result(Undef, Delete(n, m))
    [] n.t = "getline"   -> GetLine(m)
    [] OTHER             -> Result(Undef, m)

-----------------------------------------------------------------------------
(* The state: m.rules and m.funcs are the program, i is the rule that is next,    *)
(* said what a step puts out, sinks what files and commands have got.          *)

Start ==
  [line |-> <<>>, fields |-> <<>>, fs |-> call.fs, ofs |-> <<Blank>>, ors |-> <<Nl>>, rs |-> <<Nl>>, subsep |-> <<28>>,
   nr |-> 0, fnr |-> 0, vars |-> call.vars, arrs |-> <<>>, locals |-> <<>>, flags |-> {}, rval |-> Undef, code |-> 0,
   ranges |-> {}, gone |-> 0, twice |-> 0, stdin |-> call.stdin, sinks |-> <<>>, said |-> <<>>, i |-> 1, rules |-> <<>>, funcs |-> <<>>]

Init ==
  /\ call \in Calls /\ inp = call.files /\ out = <<>> /\ mem = Start
  /\ pc = "main" /\ status = 0 /\ faults = Faults

Rules == Len(mem.rules)
Rule == mem.rules[mem.i]
Onward(m) == [m EXCEPT !.i = @ + 1]
Become(m) == out' = out \o m.said /\ mem' = [m EXCEPT !.said = <<>>]
GoTo(label, m) == pc' = label /\ Become([m EXCEPT !.i = 1])
Sound == mem.twice = 0

Main ==
  /\ pc = "main"
  /\ LET g == ParseProgram(call.text) IN
       IF g.p = Died THEN Exit(1) /\ UNCHANGED <<out, mem>>
       ELSE GoTo("begin", [mem EXCEPT !.rules = g.rules, !.funcs = g.funcs]) /\ status' = status
  /\ UNCHANGED <<call, inp, faults>>

\* run_begin, run_end: a rule without an action does nothing.
Act(m) == IF Rule.act.t = "none" THEN m ELSE Eval(Rule.act, m).m
BeginDone(m) == IF "exit" \in m.flags THEN GoTo("end", Clear(m, "exit")) ELSE Become(Onward(m)) /\ pc' = pc
Begin ==
  /\ pc = "begin" /\ Sound /\ mem.i <= Rules
  /\ IF Rule.kind # "BEGIN" THEN Become(Onward(mem)) /\ pc' = pc
     ELSE BeginDone(Act(mem))
  /\ UNCHANGED <<call, inp, status, faults>>

\* Without a rule for records nothing is read; without operands, the standard input.
Begun ==
  /\ pc = "begin" /\ Sound /\ mem.i > Rules
  /\ GoTo(IF \E k \in 1..Rules : mem.rules[k].kind = "" THEN "open" ELSE "end", mem)
  /\ inp' = (IF inp = <<>> THEN <<Stdin>> ELSE inp)
  /\ UNCHANGED <<call, status, faults>>

Open ==
  /\ pc = "open"
  /\ \/ inp = <<>> /\ Works /\ GoTo("end", mem) /\ inp' = inp
     \/ Opens /\ GoTo("record", [mem EXCEPT !.fnr = 0]) /\ inp' = inp
     \/ inp # <<>> /\ Head(inp) # Stdin /\ CannotOpen /\ NextFile /\ UNCHANGED <<out, mem, pc>>
  /\ UNCHANGED <<call, status>>

Reading == IF Head(inp) = Stdin THEN mem.stdin ELSE Head(inp)
Unread(m, n) == IF Head(inp) = Stdin THEN [m EXCEPT !.stdin = From(@, n + 1)] ELSE m

\* process_file: a line has its end taken off, and then RS.  nextfile loses the
\* line that has been read, or at the end of a file the first of the next.
Strip(m, line) == LET l == Unended(line, Nl) IN IF Len(m.rs) = 1 THEN Unended(l, m.rs[1]) ELSE l
Record ==
  /\ pc = "record" /\ Sound
  /\ LET line == LineOf(Reading)
         m == Unread(mem, Len(line))
     IN IF line = <<>> THEN NextFile /\ GoTo("open", mem)
        ELSE IF "nextfile" \in mem.flags THEN NextFile /\ GoTo("open", Clear(m, "nextfile"))
        ELSE /\ IF Head(inp) = Stdin THEN inp' = inp ELSE Consumed(Len(line))
             /\ GoTo("rule", SetLine([m EXCEPT !.nr = @ + 1, !.fnr = @ + 1], Strip(m, line)))
  /\ UNCHANGED <<call, status, faults>>

\* match_pattern
Tested(pat, m) == IF pat.t = "none" THEN Result(Num(1), m) ELSE Eval(pat, m)

\* Mutant: the record that ends a range is not in it.
EndsBefore(on, hit) == on # hit

\* The record a range begins with is not looked at for its end.
FiresIn(on, hit) == on \/ hit

\* process_line, one rule of it.
InRange == mem.i \in mem.ranges
Left(m) == Become(IF m.flags \cap {"exit", "next", "nextfile"} # {} THEN [m EXCEPT !.i = Rules + 1] ELSE Onward(m))
Fire(m) == Left(IF Rule.act.t = "none" THEN Say(m, m.line \o m.ors) ELSE Act(m))
Found(m, hit) ==
  IF Rule.to.t = "none" THEN IF hit THEN Fire(m) ELSE Become(Onward(m))
  ELSE LET n == [m EXCEPT !.ranges = IF hit THEN SymDiff(@, {mem.i}) ELSE @] IN
         IF FiresIn(InRange, hit) THEN Fire(n) ELSE Become(Onward(n))
Matches(r) == Found(r.m, IsTrue(r.v))
Apply ==
  /\ pc = "rule" /\ Sound /\ mem.i <= Rules /\ Rule.kind = ""
  /\ Matches(Tested(IF Rule.to.t # "none" /\ InRange THEN Rule.to ELSE Rule.from, mem))
  /\ UNCHANGED <<call, inp, pc, status, faults>>
SkipRule ==
  /\ pc = "rule" /\ mem.i <= Rules /\ Rule.kind # ""
  /\ Become(Onward(mem)) /\ UNCHANGED <<call, inp, pc, status, faults>>

\* exit goes to the END rules, and there only ends the rule it is in.
RecordDone ==
  /\ pc = "rule" /\ Sound /\ mem.i > Rules
  /\ IF "exit" \in mem.flags THEN GoTo("end", Clear(Clear(mem, "next"), "exit"))
     ELSE GoTo("record", Clear(mem, "next"))
  /\ UNCHANGED <<call, inp, status, faults>>

End ==
  /\ pc = "end" /\ Sound
  /\ IF mem.i <= Rules THEN Become(Onward(IF Rule.kind = "END" THEN Act(mem) ELSE mem)) /\ UNCHANGED <<pc, status>>
     ELSE Exit(mem.code) /\ UNCHANGED <<out, mem>>
  /\ UNCHANGED <<call, inp, faults>>

\* What split() has freed is freed again: awk may be aborted, or go on.
FreedTwice ==
  /\ mem.twice = 1 /\ pc # "exited"
  /\ \/ Exit(134) /\ mem' = mem
     \/ mem' = [mem EXCEPT !.twice = 0] /\ UNCHANGED <<pc, status>>
  /\ UNCHANGED <<call, inp, out, faults>>

Next == \/ Main \/ Begin \/ Begun \/ Open \/ Record \/ Apply \/ SkipRule \/ RecordDone \/ End \/ FreedTwice

Spec == Init /\ [][Next]_vars

-----------------------------------------------------------------------------
(* Properties *)

TypeOK ==
  /\ call \in Calls /\ pc \in {"main", "begin", "open", "record", "rule", "end", "exited"} /\ faults \in 0..Faults
  /\ mem.ranges \subseteq 1..Rules /\ mem.i \in 1..Rules + 1 /\ mem.gone \in {0, 1} /\ mem.said = <<>>
  /\ mem.flags \subseteq {"break", "continue", "next", "nextfile", "exit", "return"}

\* What an expression is worth: a number, by its operators.
RECURSIVE Worth(_)
Worth(tree) ==
  LET k == Len(tree.kids)
      w(j) == Worth(tree.kids[j])
      bool(b) == IF b THEN 1 ELSE 0
  IN CASE k = 0          -> Literals[tree.op].n
       [] k = 3          -> IF w(1) # 0 THEN w(2) ELSE w(3)
       [] tree.op = "!"  -> bool(w(1) = 0)
       [] tree.op = "+"  -> w(1) + w(2)
       [] tree.op = "-"  -> w(1) - w(2)
       [] tree.op = "*"  -> w(1) * w(2)
       [] tree.op = "%"  -> IF w(2) = 0 THEN 0 ELSE Sign(w(1)) * (Abs(w(1)) % Abs(w(2)))
       [] tree.op = "<"  -> bool(w(1) < w(2))
       [] tree.op = "==" -> bool(w(1) = w(2))
       [] tree.op = "&&" -> bool(w(1) # 0 /\ w(2) # 0)
       [] tree.op = "||" -> bool(w(1) # 0 \/ w(2) # 0)
       [] tree.op = " "  -> AToF(NumToDigits(w(1)) \o NumToDigits(w(2)))

\* What the idioms are for, said of the lines of all files: the lines that are new,
\* turned round, every other, two joined; those from one with an a to one with a
\* b; the lines of the second file that are in the first; sums and counts; fields
\* turned round, exchanged, all but the second; a replacement; a factorial.
Lined(texts) == FlattenSeq([k \in 1..Len(texts) |-> Append(texts[k], Nl)])
LinesIn(file) == CASE file = Missing -> <<>> [] file = Stdin -> LinesOf(call.stdin, Nl) [] OTHER -> LinesOf(file, Nl)
Lines == IF call.files = <<>> THEN LinesIn(Stdin) ELSE FlattenSeq([k \in 1..Len(call.files) |-> LinesIn(call.files[k])])
Filtered(Test(_)) == LET at == SetToSortSeq({k \in 1..Len(Lines) : Test(k)}, <) IN Lined([k \in 1..Len(at) |-> Lines[at[k]]])
Has(k, byte) == byte \in Range(Lines[k])

\* A range ends with the next b behind the line it begins with; the line that ends
\* one begins none.
OpenAt(k, j) == j < k /\ Has(j, 97) /\ \A e \in j + 1..k - 1 : ~Has(e, 98)
Ranged(k) == \E j \in 1..k : Has(j, 97) /\ (j = k \/ OpenAt(k, j)) /\ (Has(j, 98) => \A h \in 1..j - 1 : ~OpenAt(j, h))

Doubled(text) == FlattenSeq([k \in 1..Len(text) |-> IF text[k] = 97 THEN <<98, 98>> ELSE <<text[k]>>])
Words1 == {w[1] : w \in UNION {Range(Words(line)) : line \in Range(Lines)}}
Times(b) == Cardinality({kj \in (1..Len(Lines)) \X (1..4) : kj[2] <= Len(Words(Lines[kj[1]])) /\ Words(Lines[kj[1]])[kj[2]] = <<b>>})
Factorial[n \in Nat] == IF n < 2 THEN 1 ELSE n * Factorial[n - 1]
Number(n) == NumToDigits(n)
WordsOf(Of(_)) == Lined([k \in 1..Len(Lines) |-> Of(Words(Lines[k]))])

Meaning ==
  CASE call.name = "uniq"      -> Filtered(LAMBDA k : \A j \in 1..k - 1 : Lines[j] # Lines[k])
    [] call.name = "tac"       -> Lined(Reverse(Lines))
    [] call.name = "odd"       -> Filtered(LAMBDA k : k % 2 = 1)
    [] call.name = "first two" -> Lined(Append(Take(Lines, 2), <<99>>))
    [] call.name = "pairs"     -> Lined([k \in 1..(Len(Lines) + 1) \div 2 |-> IF 2 * k > Len(Lines) THEN Lines[2 * k - 1] \o Lines[2 * k - 1]
                                                                        ELSE Lines[2 * k - 1] \o Lines[2 * k]])
    [] call.name = "range"     -> Filtered(Ranged)
    [] call.name = "both"      -> LET one == LinesIn(call.files[1]) IN
                                    Filtered(LAMBDA k : k > Len(one) /\ Lines[k] \in Range(one))
    [] call.name = "sum"       -> Lined(<<IF Lines = <<>> THEN <<>> ELSE Number(FoldLeft(LAMBDA n, line : n + AToF(line), 0, Lines))>>)
    [] call.name = "count"     -> LET w == SetToSortSeq(Words1, <) IN Lined([k \in 1..Len(w) |-> <<w[k], Blank>> \o Number(Times(w[k]))])
    [] call.name = "reverse"   -> WordsOf(LAMBDA w : FlattenSeq(Reverse(w)))
    [] call.name = "exchange"  -> WordsOf(LAMBDA w : Joined([k \in 1..Max({2, Len(w)}) |-> IF k > 2 THEN w[k] ELSE IF 3 - k <= Len(w) THEN w[3 - k] ELSE <<>>], <<44>>))
    [] call.name = "no second" -> Lined(<<FlattenSeq(FlattenSeq([k \in 1..Len(Lines) |-> Take(Words(Lines[k]), 1) \o From(Words(Lines[k]), 3)]))>>)
    [] call.name = "replace"   -> Lined([k \in 1..Len(Lines) |-> Doubled(Lines[k]) \o <<Blank>> \o Number(Len(Words(Lines[k])))])
    [] call.name = "factorial" -> WordsOf(LAMBDA w : Number(Factorial[Len(w)]))
    [] call.name = "worth"     -> Lined(<<Number(Worth(call.tree[1]))>>)
IdiomsRight == pc = "exited" /\ status = 0 /\ faults = Faults /\ call.name # "" => out = Meaning

\* What is left of a rule is never taken for what is to be done in the next: but
\* for nextfile, no flag is left at the end of a record.
FlagsSettled == pc = "record" /\ call.name # "" => mem.flags \subseteq {"nextfile"}

\* Where neither FS nor OFS changes, the line and its fields say the same, one way
\* or the other, whichever of them was assigned to.
LineIsFields ==
  pc \in {"rule", "record"} /\ mem.gone = 0 => mem.line = Joined(mem.fields, mem.ofs) \/ mem.fields = SplitFields(mem.line, mem.fs)

AwkRight == IdiomsRight /\ FlagsSettled /\ LineIsFields
=============================================================================
