------------------------------- MODULE MCTools -------------------------------
(* The tools, one at a time: those that work on a tree of files and those that *)
(* work on texts, which are bytes: a is 97, b 98, c 99, a comma 44 and the end *)
(* of a line 10.  The tools share their variables; what a tool does not have   *)
(* stays as it is at its start.                                                *)
EXTENDS Integers, Sequences, TLC

None == <<-1>>      \* a file that is not there
Singly(texts) == {<<t>> : t \in texts}
Pairs(texts) == Singly(texts) \cup texts \X texts

-----------------------------------------------------------------------------
(* dd, tee, cat *)

DdConvs == {{}, {"sync"}, {"lcase", "swab"}, {"ucase"}, {"block"}, {"unblock", "sync"}, {"noerror"},
            {"noerror", "sync"}, {"notrunc"}, {"sparse"}, {"excl"}, {"lcase", "ucase"}}
DdOld == {<<>>, <<2, 2, 2, 2, 2, 2>>}
DdCalls ==
  [conv : DdConvs, flags : {{}}, ibs : {2}, obs : {3}, cbs : {2}, count : {1000}, skip : {0}, seek : {0},
   in : {<<0, 0, 1>>, <<97, 65, 32, 10, 97>>}, pipe : {0, 1}, old : DdOld]
  \cup [conv : {{}, {"unblock"}, {"sparse"}}, flags : {{}, {"fullblock"}}, ibs : {3}, obs : {2}, cbs : {2}, count : {1000, 1},
        skip : {0}, seek : {0}, in : {<<>>, <<97, 10, 0, 65>>}, pipe : {0, 1}, old : {<<>>}]
  \cup [conv : {{}, {"notrunc"}}, flags : {{"append"}, {"count_bytes"}, {"skip_bytes", "seek_bytes"}}, ibs : {2}, obs : {0, 2},
        cbs : {0}, count : {1000, 3}, skip : {0, 1}, seek : {0, 1}, in : {<<97, 10, 0, 65>>}, pipe : {1}, old : DdOld]

TeeCalls ==
  [append : {0, 1}, ignore : {0, 1}, old : {<<>>, << <<9>> >>, << <<9>>, <<>> >>, << <<>>, <<>>, <<7>> >> },
   in : {<<>>, <<1>>, <<1, 2, 3>>}]

CatTexts == {<<>>, <<97>>, <<10>>, <<97, 10, 10>>, <<10, 10, 98, 9>>, <<3, 200, 10>>, None}
CatCalls ==
  [given : {<<>>, <<"n">>, <<"b", "n">>, <<"s", "E">>, <<"A", "s">>, <<"n", "s">>}, files : Pairs(CatTexts)]

-----------------------------------------------------------------------------
(* sort, uniq, cut, tac, head, wc, tr *)

Flag(x) == [o |-> x, key |-> <<>>]
Key(f, c, m, t, e) == [o |-> "k", key |-> <<f, c, m, t, e>>]
Flags(s) == [k \in 1..Len(s) |-> Flag(s[k])]
SortOptions ==
  {Flags(s) : s \in {<<>>, <<"u">>, <<"f", "u">>, <<"r", "n">>, <<"s", "f">>, <<"h">>, <<"V">>, <<"M", "r">>, <<"C">>, <<"c", "u">>,
                     <<"R">>, <<"m">>, <<"m", "u">>, <<"m", "s", "f">>, <<"z">>, <<"?">>, <<"d", "i", "b">>}}
  \cup {<<Flag("r"), Key(2, 0, {"n"}, 0, 0)>>, <<Key(2, 1, {}, 2, 1), Key(1, 0, {"r"}, 1, 0)>>,
        <<Flag("n"), Key(1, 2, {}, 0, 0), Key(1, 1, {}, 0, 0), Key(1, 1, {}, 0, 0)>>}
\* b A a A; " b 10", "a 2"; 1K 9 -1; a.10 a1; "A,b" "a,a"; jan nan
Cased == <<98, 10, 65, 10, 97, 10, 65>>
Columns == <<32, 98, 32, 49, 48, 10, 97, 32, 50, 10>>
Numbers == <<49, 75, 10, 57, 10, 45, 49, 10>>
Versions == <<97, 46, 49, 48, 10, 97, 49, 10>>
Fields == <<65, 44, 98, 10, 97, 44, 97, 10>>
Months == <<106, 97, 110, 10, 110, 97, 110>>
SortCalls ==
  [given : SortOptions, sep : {0}, onto : {0},
   files : {<<>>, <<Cased>>, <<Columns, None>>, <<Numbers>>, <<Versions, Fields>>, <<Columns, Months>>}]
  \cup [given : SortOptions, sep : {44}, onto : {0}, files : {<<Fields>>}]
  \cup [given : {<<>>, <<Flag("m")>>}, sep : {0}, onto : {1}, files : {<<Columns>>}]

UniqCalls ==
  [given : {{}, {"c"}, {"d"}, {"u"}, {"D"}, {"i"}, {"c", "d"}, {"z"}, {"i", "D"}}, fields : {0, 1}, chars : {0, 1},
   most : {0, 1}, onto : {0, 1},
   in : {<<>>, <<97, 10, 97, 10, 98>>, <<97, 10, 65, 10, 97>>, <<98, 32, 97, 10, 99, 32, 97, 10, 99, 32, 98, 10>>,
         <<97, 97, 97, 97, 97, 97, 97, 97>>, <<97, 0, 98, 10, 97, 10>>, <<97, 98, 10, 97, 10, 10, 10>>, None}]

CutTexts == {<<>>, <<97, 44, 98, 44, 99, 10, 100, 10>>, <<44, 44, 97, 10>>, <<97, 98, 99, 44, 97, 98, 99, 97, 98, 99>>,
             <<97, 59, 98, 44, 100>>}
CutCalls ==
  [mode : {"f", "c", "?"}, list : {<< <<1, 1>> >>, << <<2, -1>> >>, << <<3, 3>>, <<1, 2>> >>, << <<0, 1>> >>, << <<3, 2>> >>},
   sep : {44}, outSep : {0, 59}, only : {0, 1},
   files : Singly(CutTexts) \cup {<< <<97, 98, 44, 99>>, None, <<98, 44, 97, 10>> >>}]

TacCalls ==
  [before : {0, 1}, separator : {<<10>>, <<>>, <<44, 44>>},
   files : Pairs({<<>>, <<97, 10, 98, 10, 99>>, <<97, 10, 10, 98, 10>>, <<97, 0, 98, 10>>, None})]

Option(x, n) == [o |-> x, n |-> n]
HeadCalls ==
  [given : {<<>>, <<Option("c", 2)>>, <<Option("n", 2)>>, <<Option("n", 0)>>, <<Option("n", 1), Option("v", 0)>>,
            <<Option("c", 5), Option("q", 0)>>, <<Option("n", 16)>>, <<Option("n", 33)>>, <<Option("?", 0)>>,
            <<Option("c", 3), Option("n", 1)>>, <<Option("c", -1)>>},
   files : Pairs({<<>>, <<97, 10, 98, 10, 99>>, <<97, 98, 99, 100, 101, 102, 10, 97, 10, 97>>, None})]

WcCalls ==
  [show : {{}, {"l"}, {"m", "c"}, {"?"}},
   files : Pairs({<<>>, <<97, 98, 10, 32, 99>>, <<97, 98, 99, 100, 10, 9, 97>>, None})]

TrAlphabet == {0, 9, 10, 45, 92, 97, 98, 99, 100}
TrCalls ==
  [given : {{}, {"s"}, {"d"}, {"c"}, {"c", "s"}, {"d", "s"}, {"d", "c"}, {"?"}},
   set1 : {<<97>>, <<97, 45, 99>>, <<99, 97, 45>>, <<92, 110, 98>>}, set2 : {None, <<>>, <<98>>, <<100, 45, 98>>},
   in : {<<>>, <<97, 97, 98, 99, 99>>, <<98, 98, 0, 98, 97, 100>>, <<45, 97, 10, 97>>}]

-----------------------------------------------------------------------------
(* sed: scripts that mean something for a whole text, and some of everything *)

Re(k) == [kind |-> k, c |-> 97]
Byte(x) == [kind |-> "byte", c |-> x]
Address(type, n, step, re) == [type |-> type, n |-> n, step |-> step, re |-> re]
Line(n) == Address("line", n, 0, Re("byte"))
Dollar == Address("last", 0, 0, Re("byte"))
Step(n, s) == Address("step", n, s, Re("byte"))
With(re) == Address("re", 0, 0, re)
Command(addrs, neg, cmd, text) ==
  [cmd |-> cmd, addrs |-> addrs, neg |-> neg, text |-> text, re |-> Re("byte"), flags |-> {}, n |-> 0]
Do(cmd) == Command(<<>>, 0, cmd, <<>>)
DoAt(addrs, cmd) == Command(addrs, 0, cmd, <<>>)
Not(addrs, cmd) == Command(addrs, 1, cmd, <<>>)
Label(n) == Command(<<>>, 0, ":", <<n>>)
Goto(cmd, n) == Command(<<>>, 0, cmd, <<n>>)
Substitute(re, text, flags, n) == [Do("s") EXCEPT !.re = re, !.text = text, !.flags = flags, !.n = n]

SedTexts == {<<>>, <<97, 10, 98, 10, 99, 10>>, <<98, 97, 10, 97, 10, 98, 97>>, <<10, 97, 97, 10, 10, 98>>}
SedFiles == {<< <<97, 10, 98, 10, 99, 10>>, <<98, 97, 10, 97, 10, 98, 97>> >>, << <<>>, <<10, 97, 97, 10, 10, 98>> >>,
             << <<97, 10>>, None >>}
Edit(name, script, opts, files) == [name : {name}, script : {script}, opts : opts, files : files, other : {<<43, 10, 45>>}]
Anyhow(name, script) ==
  Edit(name, script, {{}}, Singly(SedTexts)) \cup Edit(name, script, {{"i"}, {"i", "suffix"}}, SedFiles)
SedIdioms ==
  Anyhow("double", <<Do("G")>>)
  \cup Anyhow("tac", <<Not(<<Line(1)>>, "G"), Do("h"), Not(<<Dollar>>, "d")>>)
  \cup Anyhow("odd", <<Do("n"), Do("d")>>)
  \cup Anyhow("join", <<Label(1), Do("N"), [Goto("b", 1) EXCEPT !.addrs = <<Dollar>>, !.neg = 1], Substitute(Byte(10), <<44>>, {"g"}, 0)>>)
  \cup Anyhow("remove", <<Label(1), Substitute(Byte(97), <<>>, {}, 0), Goto("t", 1)>>)
  \cup Anyhow("middle", <<Not(<<Line(2), Line(3)>>, "d")>>)
  \cup Anyhow("after", <<Command(<<>>, 0, "a", <<43>>), DoAt(<<With(Byte(97))>>, "d")>>)
  \cup Edit("count", <<DoAt(<<Dollar>>, "=")>>, {{"n"}}, Singly(SedTexts))
  \cup Edit("", <<Not(<<Dollar>>, "N"), Do("P"), Do("D")>>, {{}}, Singly(SedTexts))
SedScripts ==
  {<<Do("H"), Do("x"), Substitute(Re("run"), <<38, 38>>, {"g", "p"}, 0), Do("l"), Command(<<>>, 0, "y", <<97, 98, 98, 97>>), Do("w")>>,
   <<DoAt(<<Line(2), With(Byte(97))>>, "{"), Do("r"), Do("R"), [DoAt(<<Line(3)>>, "q") EXCEPT !.n = 2], Do("}"),
     Command(<<>>, 0, "i", <<43>>)>>,
   <<Do("#"), Substitute(Re("end"), <<45>>, {}, 2), Do("T"), Command(<<Step(0, 2)>>, 0, "c", <<45>>),
     [DoAt(<<Dollar>>, "Q") EXCEPT !.n = 1], Do("g")>>,
   <<Substitute(Re("begin"), <<62>>, {"g"}, 0), Goto("t", 9)>>, <<Command(<<>>, 0, "y", <<97>>)>>,
   <<DoAt(<<Step(2, 0)>>, "{"), Do("p"), Do("x")>>, <<DoAt(<<With(Re("end")), Line(1)>>, "P"), Do("l")>>}
SedCalls ==
  SedIdioms
  \cup [name : {""}, script : SedScripts, opts : {{}, {"n"}, {"i"}}, files : SedFiles, other : {<<43, 10, 45>>, None}]

-----------------------------------------------------------------------------
(* awk: idioms, expressions, and some of everything.  Tokens are strings; those *)
(* in quotes and slashes are named for what they hold.                         *)

Literal(k, n, s) == [k |-> k, n |-> n, s |-> s]
AwkLiterals ==
  [x \in {"0", "1", "2", "3"} |-> Literal("num", CASE x = "0" -> 0 [] x = "1" -> 1 [] x = "2" -> 2 [] x = "3" -> 3, <<>>)]
  @@ "'" :> Literal("str", 0, <<>>) @@ "','" :> Literal("str", 0, <<44>>) @@ "'a,b,'" :> Literal("str", 0, <<97, 44, 98, 44>>)
  @@ "'bb'" :> Literal("str", 0, <<98, 98>>) @@ "'c'" :> Literal("str", 0, <<99>>) @@ "'<&>'" :> Literal("str", 0, <<60, 38, 92, 38, 62>>)
  @@ "'%d.%s%c%%'" :> Literal("str", 0, <<37, 100, 46, 37, 115, 92, 110, 37, 99, 37, 37, 37>>) @@ "'b+'" :> Literal("str", 0, <<98, 43>>)
  @@ "/a/" :> Literal("re", 0, <<97>>) @@ "/b/" :> Literal("re", 0, <<98>>) @@ "/^a/" :> Literal("re", 0, <<94, 97>>) @@ "/a*/" :> Literal("re", 0, <<97, 42>>)
  @@ "/./" :> Literal("re", 0, <<46>>)

AwkTexts == {<<>>, <<97, 32, 98, 10, 97, 32, 98, 10, 99, 10>>, <<51, 32, 97, 10, 10, 50, 32, 98, 32, 99, 10, 98>>}
AwkInput == <<98, 32, 97, 10, 99, 10, 97, 10>>
Awk(name, text, files) ==
  [name : {name}, text : {text}, fs : {<<32>>}, vars : {<<>>}, files : files, stdin : {AwkInput}, tree : {<<>>}]
Idiom(name, text) == Awk(name, text, {<<>>, << <<-2>>, None >>} \cup Singly(AwkTexts))
AwkIdioms ==
  Idiom("uniq", <<"!", "seen", "[", "$", "0", "]", "++">>)
  \cup Idiom("tac", <<"{", "a", "[", "NR", "]", "=", "$", "0", "}", "END", "{", "for", "(", "i", "=", "NR", ";", "i", ">", "0", ";", "i", "--", ")",
                      "print", "a", "[", "i", "]", "}">>)
  \cup Idiom("odd", <<"NR", "%", "2">>)
  \cup Idiom("first two", <<"NR", ">", "2", "{", "exit", "}", "{", "print", "}", "END", "{", "print", "'c'", "}">>)
  \cup Awk("pairs", <<"{", "l", "=", "$", "0", ";", "getline", ";", "print", "l", "$", "0", "}">>, {<<>>})
  \cup Idiom("range", <<"/a/", ",", "/b/">>)
  \cup Awk("both", <<"NR", "==", "FNR", "{", "seen", "[", "$", "0", "]", ";", "next", "}", "$", "0", "in", "seen">>, {<<t, u>> : t \in AwkTexts \ {<<>>}, u \in AwkTexts})
  \cup Idiom("sum", <<"{", "n", "+=", "$", "1", "}", "END", "{", "print", "n", "}">>)
  \cup Idiom("count", <<"{", "for", "(", "i", "=", "1", ";", "i", "<=", "NF", ";", "++", "i", ")", "c", "[", "$", "i", "]", "++", "}",
                        "END", "{", "for", "(", "k", "in", "c", ")", "{", "print", "k", ",", "c", "[", "k", "]", ";", "delete", "c", "[", "k", "]", "}", "}">>)
  \cup Idiom("reverse", <<"{", "r", "=", "'", ";", "i", "=", "NF", ";", "while", "(", "i", ")", "{", "r", "=", "r", "$", "i", ";",
                          "i", "--", "}", ";", "print", "r", "}">>)
  \cup Idiom("exchange", <<"BEGIN", "{", "OFS", "=", "','", "}", "{", "t", "=", "$", "1", ";", "$", "1", "=", "$", "2", ";", "$", "2", "=", "t", ";", "print", "}">>)
  \cup Idiom("no second", <<"{", "i", "=", "0", ";", "while", "(", "1", ")", "{", "i", "+=", "1", ";", "if", "(", "i", "==", "2", ")", "continue", ";",
                            "if", "(", "i", ">", "NF", ")", "break", ";", "printf", "(", "$", "i", ")", "}", "}", "END", "{", "print", "'", "}">>)
  \cup Idiom("replace", <<"{", "n", "=", "NF", ";", "gsub", "(", "/a/", ",", "'bb'", ")", ";", "print", "$", "0", ",", "n", "}">>)
  \cup Idiom("factorial", <<"function", "f", "(", "n", ",", "m", ")", "{", "if", "(", "n", "<", "2", ")", "return", "1", ";", "m", "=", "n", ";",
                            "return", "m", "*", "f", "(", "n", "-", "1", ")", "}", "{", "print", "f", "(", "NF", ")", "}">>)

\* An expression with no more parentheses than its operators need.
Op(op, kids) == [op |-> op, kids |-> kids]
Atom(x) == Op(x, <<>>)
Binding(tree) ==
  IF tree.kids = <<>> THEN 9
  ELSE CASE tree.op = "?" -> 1 [] tree.op = "||" -> 2 [] tree.op = "&&" -> 3 [] tree.op \in {"<", "=="} -> 4 [] tree.op = " " -> 5
         [] tree.op \in {"+", "-"} -> 6 [] tree.op \in {"*", "%"} -> 7 [] tree.op = "!" -> 8
RECURSIVE Written(_, _)
Written(tree, least) ==
  LET k == tree.kids
      own == Binding(tree)
      left == Written(k[1], IF own = 4 THEN 5 ELSE own)
      plain == CASE k = <<>>        -> <<tree.op>>
                 [] tree.op = "?"   -> Written(k[1], 2) \o <<"?">> \o Written(k[2], 1) \o <<":">> \o Written(k[3], 1)
                 [] tree.op = "!"   -> <<"!">> \o Written(k[1], 8)
                 [] tree.op = " "   -> left \o Written(k[2], own + 1)
                 [] OTHER           -> left \o <<tree.op>> \o Written(k[2], own + 1)
  IN IF own < least THEN <<"(">> \o plain \o <<")">> ELSE plain
InfixOps == {"+", "-", "*", "%", "<", "==", "&&", "||", " "}
Expressions ==
  {Op(o, <<Op(p, <<Atom("3"), Atom("1")>>), Atom("2")>>) : o \in InfixOps, p \in InfixOps}
  \cup {Op(o, <<Atom("3"), Op(p, <<Atom("1"), Atom("2")>>)>>) : o \in InfixOps, p \in InfixOps}
  \cup {Op("?", <<Op("<", <<Atom("1"), x>>), Op("!", <<x>>), Op("?", <<x, Atom("1"), Op("+", <<x, Atom("1")>>)>>)>>) : x \in {Atom("0"), Atom("2")}}
  \cup {Op("!", <<Op(o, <<Atom("0"), Atom("1")>>)>>) : o \in {"+", "&&"}}
AwkExpressions ==
  {[name |-> "worth", text |-> <<"BEGIN", "{", "x", "=">> \o Written(e, 1) \o <<";", "print", "x", "+", "0", "}">>,
    fs |-> <<32>>, vars |-> <<>>, files |-> <<>>, stdin |-> <<>>, tree |-> <<e>>] : e \in Expressions}
\* Values of every kind, redirections, flags at odd places, and programs that do not parse.
AwkScripts ==
  {<<"{", "n", "=", "split", "(", "$", "1", ",", "p", ",", "','", ")", ";", "print", "n", ",", "p", "[", "1", "]", ",", "$", "1", ";", "$", "1", "=", "n", "}", "END", "{", "NF", "=", "0", "}">>,
   <<"{", "print", ">", "'c'", ";", "print", "(", "$", "1", ")", ">>", "'bb'", ";", "printf", "(", "$", "1", ")", "|", "'c'", ";", "print", "|", "','", "}",
     "END", "{", "print", "1", ">", "'c'", ";", "print", "2", ">", "'", ";", "print", "3", ">>", "'c'", "}">>,
   <<"BEGIN", "{", "next", "}", "{", "break", ";", "x", "++", "}", "FNR", "==", "2", "{", "nextfile", "}", "{", "print", "x", "}">>,
   <<"$", "1", "~", "/a/", "{", "print", "1", "}", "$", "1", "!~", "'b+'", ",", "/b/", "{", "sub", "(", "/a/", ",", "'<&>'", ",", "$", "1", ")", ";", "y", "=", "sub", "(", "/a*/", ",", "'bb'", ",", "x", ")", ";", "sub", "(", "/^a/", ",", "'c'", ",", "z", "[", "1", "]", ")", ";", "print", "y", "x", "gensub", "(", "/./", ",", "'c'", ",", "'bb'", ")", "}">>,
   <<"{", "c", "[", "$", "1", ",", "NF", "]", "=", "1", ";", "if", "(", "1", "in", "c", "||", "$", "1", "in", "c", ")", "print", "length", "(", "c", ")", ",", "length", "(", ")", ",", "length", "(", "NF", ")", "}",
     "END", "{", "for", "(", "k", "in", "c", ")", "{", "print", "k", ";", "delete", "c", "}", ";", "print", "length", "(", "c", ")", "}">>,
   <<"BEGIN", "{", "FS", "=", "','", ";", "RS", "=", "','", ";", "ORS", "=", "'c'", ";", "OFS", "=", "'bb'", "}", "{", "do", "{", "x", "^=", "2", ";", "y", "-=", "1", "}", "while", "(", "++", "x", "<", "3", "&&", "!", "y", ")", ";", "for", "(", ";", ";", ")", "{", "if", "(", "x", "--", "<", "1", ")", "break", ";", "else", "continue", "}", ";", "NF", "=", "1", ";", "$", "3", "=", "x", "?", "y", ":", "-", "y", ";", "print", "}", ";", "{", "$", "0", "=", "'a,b,'", "}", "$", "2", "==", "'bb'", "||", "NF", "%", "2">>,
   <<"BEGIN", "{", "exit", "3", "}", "END", "{", "exit", "2", ";", "print", "}", "END", "{", "printf", "'%d.%s%c%%'", ",", "1", ",", "'c'", ",", "3", "}">>,
   <<"function", "f", "(", "a", ")", "{", "a", "=", "a", "+", "1", ";", "if", "(", "a", ">", "2", ")", "next", ";", "return", "a", "/", "1", "}", "function", "int", "(", "b", ")", "{", "break", "}", "{", "while", "(", "1", ")", "{", "print", "f", "(", "NF", ")", ";", "int", "(", "1", ")", "}", "}", "END", "{", "for", "(", "k", "in", "SUBSEP", ")", "k", "=", "0", ";", "print", "match", "(", "'bb'", ",", "/b/", ")", "RSTART", ",", "RLENGTH", ",", "match", "(", "'c'", ",", "/a/", ")", "}">>,
   <<"{", "print", "toupper", "(", "$", "1", ")", "tolower", "(", "'c'", ")", ",", "substr", "(", "$", "0", ",", "2", ",", "2", ")", "substr", "(", "$", "0", ",", "3", ")", ",", "index", "(", "$", "0", ",", "'c'", ")", ",", "int", "(", "-", "3", ")", ",", "3", "-", "-", "1", "^", "2", ";", "print", "(", "NR", "<", "2", ")", "*", "3", ";", "getline", ";", "print", "3", "!=", "2", ",", "x", "}">>,
   <<"{", ")", "}">>,
   <<")">>,
   <<"{", "print">>,
   <<"function", "(", "a", ")", "{", "}">>,
   <<"{", "if", "1", "}">>,
   <<"BEGIN", "{", "}">>,
   <<"{", "return", "1", ";", "}", "{", "print", "}">>}
AwkFiles == {<< <<97, 44, 98, 10, 98, 44, 44, 10>>, <<97, 32, 97, 98, 10, 97, 10, 99, 10>> >>, << <<97, 97, 97, 97, 97, 97, 32, 97, 97, 97, 97, 97, 98, 10>> >>}
AwkCalls ==
  AwkIdioms \cup AwkExpressions
  \cup [name : {""}, text : AwkScripts, fs : {<<32>>, <<44>>, <<98, 43>>, <<>>}, vars : {[x |-> [k |-> "str", n |-> 0, s |-> <<50>>]]},
         files : AwkFiles, stdin : {AwkInput}, tree : {<<>>}]

-----------------------------------------------------------------------------
(* Trees of files *)

Node(i, kind, of, mode, time) == [ino |-> i, kind |-> kind, of |-> of, mode |-> mode, time |-> time]
File(i, of) == Node(i, "file", <<of>>, 2, 1)
Dir(i) == Node(i, "dir", <<>>, 1, 1)
LinkTo(i, p) == Node(i, "link", p, 1, 1)
Fifo(i) == Node(i, "fifo", <<>>, 1, 1)
Top == <<>> :> Dir(1)

a == <<"a">>
b == <<"b">>
c == <<"c">>
ax == <<"a", "x">>
ay == <<"a", "y">>
ba == <<"b", "a">>
bax == <<"b", "a", "x">>

\* One file a, and b as anything it may be; a directory a with a file and a link.
OneFile == Top @@ a :> File(2, "A")
Branch == Top @@ a :> Dir(2) @@ ax :> File(3, "X") @@ ay :> LinkTo(4, c) @@ c :> File(5, "C")
WithB(tree, node) == b :> node @@ tree
NewerB == [File(6, "B") EXCEPT !.time = 2]
SmallTrees ==
  {OneFile} \cup {WithB(OneFile, n) : n \in {NewerB, LinkTo(6, a), LinkTo(6, c), OneFile[a], Fifo(6), Dir(6)}}
  \cup {ba :> n @@ WithB(OneFile, Dir(6)) : n \in {Dir(7), OneFile[a]}}
LargeTrees ==
  {Branch, WithB(Branch, File(6, "B")), WithB(Branch, LinkTo(6, a)), WithB(Branch, Dir(6)), ax :> Fifo(3) @@ Branch,
   bax :> Node(8, "file", <<"O">>, 1, 0) @@ (ba :> Dir(7) @@ WithB(Branch, Dir(6)))}
AllDevice(p) == IF p = ax THEN 2 ELSE 1

CpCalls ==
  {[given |-> g, srcs |-> s, dest |-> b] :
     g \in {<<>>, <<"f">>, <<"r">>, <<"a">>, <<"r", "L">>, <<"r", "b">>, <<"d", "r", "b">>, <<"r", "u">>, <<"n", "i">>,
            <<"--interactive", "--no-clobber">>, <<"l">>, <<"l", "n">>, <<"s">>, <<"T", "r">>, <<"r", "x">>},
     s \in {<<a>>, <<a, c>>}}
  \cup {[given |-> <<"r">>, srcs |-> <<a>>, dest |-> ax]}

RmTrees ==
  {<<"a", "x", "z">> :> Node(6, "file", <<"F">>, 0, 1) @@ (<<"c", "x">> :> File(7, "C") @@ (c :> Dir(5) @@ (ax :> Dir(3) @@ Branch))),
   <<"c", "x">> :> File(7, "C") @@ Top @@ a :> LinkTo(2, c) @@ b :> Dir(4) @@ c :> Dir(5)}
RmCalls ==
  {[given |-> g, srcs |-> s, tty |-> t] :
     g \in {<<>>, <<"f">>, <<"r">>, <<"r", "f">>, <<"r", "i">>, <<"r", "I">>, <<"d">>, <<"r", "x">>, <<"f", "--interactive", "r">>},
     s \in {<<>>, <<a>>, <<a, b>>, <<<<"a", "y", "x">>>>}, t \in {0, 1}}
  \cup {[given |-> <<"r", "f">>, srcs |-> <<<<>>, b>>, tty |-> 0], [given |-> <<"r", "--no-preserve-root">>, srcs |-> <<<<>>>>, tty |-> 0]}

DirsTrees == {Branch, Top @@ a :> Dir(2) @@ <<"a", "b">> :> Dir(3) @@ <<"a", "b", "c">> :> Dir(4), Top @@ a :> LinkTo(2, b), Top}
DirsCalls ==
  {[given |-> g, paths |-> p] :
     g \in {<<>>, <<"--parents">>, <<"p", "m">>, <<"rmdir">>, <<"rmdir", "p">>},
     p \in {<<>>, <<a>>, <<<<"a", "b", "c">>>>, <<ax, b>>, <<<<>>>>}}

LnTrees == {WithB(Branch, Dir(6)), WithB(Branch, LinkTo(6, a)), Branch, WithB(Branch, File(6, "B")),
            <<"b.~1~">> :> File(9, "O") @@ WithB(Branch, File(6, "B")), <<"b.~1~">> :> File(9, "O") @@ Branch,
            ba :> Dir(7) @@ WithB(Branch, Dir(6))}
LnCalls ==
  {[given |-> g, args |-> s, tdir |-> <<>>, env |-> e] :
     g \in {<<>>, <<"f">>, <<"i">>, <<"s", "r", "f">>, <<"b">>, <<"b", "numbered">>, <<"s">>, <<"L", "f">>, <<"n", "f">>, <<"T", "s", "r">>},
     s \in {<<c, b>>, <<ay, b>>, <<ax, c, b>>}, e \in {"existing"}}
  \cup {[given |-> g, args |-> s, tdir |-> d, env |-> "none"] :
          g \in {<<"s", "r">>, <<"b", "S">>, <<"T">>}, s \in {<<ax>>, <<a, <<"gone">>>>, <<>>}, d \in {b, <<>>}}

InstallTrees == {OneFile, WithB(OneFile, Dir(6)), WithB(OneFile, File(6, "B")), WithB(OneFile, LinkTo(6, a)),
                 WithB(OneFile, Node(6, "file", <<"A">>, 4, 1)), <<"b.~1~">> :> File(9, "O") @@ WithB(OneFile, File(6, "B")),
                 WithB(Branch, Dir(6))}
InstallCalls ==
  {[given |-> g, args |-> s, tdir |-> d, env |-> {}, mode |-> 1] :
     g \in {<<>>, <<"b">>, <<"numbered">>, <<"D">>, <<"C">>, <<"s", "m", "p">>, <<"o", "--debug">>, <<"T", "D">>},
     s \in {<<a, b>>, <<a>>, <<a, c, b>>}, d \in {<<>>, b}}
  \cup {[given |-> g, args |-> s, tdir |-> <<>>, env |-> {"simple"}, mode |-> 2] :
          g \in {<<>>, <<"d">>, <<"d", "m", "o">>, <<"D">>}, s \in {<<a, ba>>, <<>>, <<<<"b", "c", "d">>>>}}

\* A pattern is the set of names it matches.
FindTrees == {<<"a", "b">> :> Dir(7) @@ WithB(Branch, Node(6, "file", <<>>, 1, 2)),
              <<"a", "b", "x">> :> LinkTo(8, a) @@ <<"a", "b">> :> Dir(7) @@ Branch}
Leaf(t, arg) == [t |-> t, arg |-> arg]
Named == Leaf("name", {"a", "b"})
Typed == Leaf("type", "dir")
Sized(cmp) == Leaf("size", [n |-> 0, cmp |-> cmp])
Empty == Leaf("empty", <<>>)
Of(t, x, y) == [t |-> t, l |-> x, r |-> y]
Neither(x) == [t |-> "not", l |-> x]
Meanings == {Leaf("empty", <<>>), Of("or", Named, Of("and", Typed, Neither(Empty))), Of("and", Of("or", Named, Empty), Neither(Typed)),
             Of("or", Of("and", Typed, Named), Sized("+")), Neither(Of("or", Leaf("mtime", [n |-> 1, cmp |-> "-"]), Sized("="))), Of("and", Named, Named)}
FindCalls ==
  {[paths |-> p, depths |-> d, mean |-> m, act |-> x, raw |-> <<>>] :
     p \in {<<<<>>>>}, d \in {<<Leaf("maxdepth", 1)>>, <<Leaf("mindepth", 1), Leaf("maxdepth", 2)>>}, m \in Meanings, x \in {"", "delete"}}
  \cup {[paths |-> <<a, c>>, depths |-> <<>>, mean |-> m, act |-> x, raw |-> <<>>] : m \in Meanings, x \in {"print", "exec", "delete"}}
  \cup {[paths |-> <<a, b>>, depths |-> <<>>, mean |-> Named, act |-> "", raw |-> r] :
          r \in {<<Leaf("(", 0), Leaf(")", 0)>>, <<Leaf("!", 0)>>, <<Named, Leaf("-o", 0), Leaf("print", 0), Leaf("delete", 0)>>, <<Leaf("noarg", 0)>>,
                 <<Named, Leaf(")", 0)>>, <<Leaf("exec", 0), Leaf("maxdepth", 1), Leaf("print", 0)>>, <<Typed, Leaf("-a", 0), Leaf("what", 0)>>}}

\* Modes as sets of bits: 644, 755 with set-id bits.
Bits(us, gs, os) == ({"u"} \X us) \cup ({"g"} \X gs) \cup ({"o"} \X os)
Rw == Bits({"r", "w"}, {"r"}, {"r"})
Rwxs == Bits({"r", "w", "x", "s"}, {"r", "x", "s"}, {"r", "x", "t"})
Moded(n, m) == [n EXCEPT !.mode = m]
ChmodTrees ==
  {<<>> :> Moded(Dir(1), Rwxs) @@ a :> Moded(Dir(2), Rwxs) @@ ax :> Moded(File(3, "X"), Rw) @@ ay :> Moded(LinkTo(4, b), {})
   @@ b :> Moded(Dir(5), Rwxs) @@ ba :> Moded(File(6, "B"), m) @@ c :> Moded(File(3, "X"), Rw) : m \in {Rw, {}}}
Part(who, op, perm) == [who |-> who, op |-> op, perm |-> perm]
ChmodCalls ==
  {[given |-> g, bits |-> {}, mode |-> m, files |-> f] :
     g \in {{}, {"R"}},
     m \in {<<Part(<<"u">>, "+", <<"x">>)>>, <<Part(<<>>, "=", <<"r", "X", "s">>), Part(<<"g">>, "-", <<"x">>)>>, <<Part(<<"g", "u">>, "=", <<>>)>>,
            <<Part(<<"a">>, "-", <<"t", "w">>), Part(<<"u">>, "+", <<"w", "s">>)>>, <<Part(<<"g">>, "=", <<"u">>), Part(<<"o">>, "+", <<"t", "g">>)>>,
            <<Part(<<"u", "g", "o", "a">>, "+", <<"r", "w", "x", "s">>)>>, <<Part(<<"u">>, "", <<>>)>>},
     f \in {<<>>, <<c>>, <<a, b>>, <<<<"gone">>, ba>>}}
  \cup {[given |-> g, bits |-> Rwxs, mode |-> <<>>, files |-> f] :
          g \in {{"octal"}, {"reference", "R"}, {"octal", "preserve", "R"}, {"octal", "preserve", "nopreserve"}, {"?", "octal"}}, f \in {<<a>>, <<<<>>>>, <<c, ay>>}}

CONSTANTS Faults, Meddlings,
          Started      \* the tools that are run

VARIABLES tool, call, pc, status, faults,
          fs, start, opts, into, i, cur, stack, jobs, todo, others, hurt,      \* of the tools for files
          inp, out, mem                                                        \* of the tools for texts

C == INSTANCE Cp WITH Trees <- SmallTrees \cup LargeTrees, Calls <- CpCalls, Depth <- 4, Device <- AllDevice
R == INSTANCE Rm WITH Trees <- RmTrees, Calls <- RmCalls, Depth <- 4, Device <- AllDevice
D == INSTANCE Dirs WITH Trees <- DirsTrees, Calls <- DirsCalls, Depth <- 4
L == INSTANCE Ln WITH Trees <- LnTrees, Calls <- LnCalls, Depth <- 4, MaxBackups <- 3
I == INSTANCE Install WITH Trees <- InstallTrees, Calls <- InstallCalls, Depth <- 4, MaxBackups <- 3
Ch == INSTANCE Chmod WITH Trees <- ChmodTrees, Calls <- ChmodCalls, Depth <- 4, Umask <- Bits({}, {"w"}, {"w"}), mode <- opts
F == INSTANCE Find WITH Trees <- FindTrees, Calls <- FindCalls, Depth <- 4, ran <- mem

Dd == INSTANCE Dd WITH Calls <- DdCalls
Tee == INSTANCE Tee WITH Calls <- TeeCalls, BufferSize <- 2, MaxFiles <- 2
Cat == INSTANCE Cat WITH Calls <- CatCalls, BufferSize <- 2
Sort == INSTANCE Sort WITH Calls <- SortCalls, MaxKeys <- 2, PoolCap <- 8
Uniq == INSTANCE Uniq WITH Calls <- UniqCalls, LineSize <- 6
Cut == INSTANCE Cut WITH Calls <- CutCalls, LineSize <- 8, MaxFields <- 2
Tac == INSTANCE Tac WITH Calls <- TacCalls
Hd == INSTANCE Head WITH Calls <- HeadCalls, BufferSize <- 4, IntMax <- 15
Wc == INSTANCE Wc WITH Calls <- WcCalls, BufferSize <- 2
Tr == INSTANCE Tr WITH Calls <- TrCalls, Alphabet <- TrAlphabet, BufferSize <- 2
Sed == INSTANCE Sed WITH Calls <- SedCalls, Width <- 6

Aw == INSTANCE Awk WITH Calls <- AwkCalls, Literals <- AwkLiterals, LineMax <- 12, MaxPipes <- 1, HashSize <- 2048, Freed <- <<63>>

\* What the theorems assume of tee, rm, mkdir and rmdir is so.
ASSUME TreesAndCalls == Tee!Assumptions /\ R!Assumptions /\ D!Assumptions

treeVars == <<fs, start, opts, into, i, cur, stack, jobs, todo, others, hurt>>
textVars == <<inp, out, mem>>
vars == <<tool, call, pc, status, faults, treeVars, textVars>>

NoText == inp = <<>> /\ out = <<>> /\ mem = <<>>
Unused == into = 0 /\ i = 1 /\ cur = <<>> /\ stack = <<>> /\ jobs = <<>> /\ todo = <<>> /\ others = 0 /\ hurt = {}
NoTree == Unused /\ fs = <<>> /\ start = <<>> /\ opts = {}
Starts ==
  \/ /\ NoText
     /\ \/ tool = "cp" /\ C!Init /\ jobs = <<>> /\ todo = <<>> /\ others = 0 /\ hurt = {}
        \/ tool = "rm" /\ R!Init /\ into = 0 /\ jobs = <<>> /\ todo = <<>>
        \/ tool = "dirs" /\ D!Init /\ Unused
        \/ tool = "ln" /\ L!Init /\ Unused
        \/ tool = "install" /\ I!Init /\ Unused
  \/ /\ tool = "find" /\ F!Init /\ inp = <<>> /\ opts = {}
     /\ into = 0 /\ jobs = <<>> /\ todo = <<>> /\ others = 0 /\ hurt = {}
  \/ /\ tool = "chmod" /\ Ch!Init /\ NoText
     /\ into = 0 /\ jobs = <<>> /\ todo = <<>> /\ others = 0 /\ hurt = {}
  \/ /\ NoTree
     /\ \/ tool = "dd" /\ Dd!Init
        \/ tool = "tee" /\ Tee!Init
        \/ tool = "cat" /\ Cat!Init
        \/ tool = "sort" /\ Sort!Init
        \/ tool = "uniq" /\ Uniq!Init
        \/ tool = "cut" /\ Cut!Init
        \/ tool = "tac" /\ Tac!Init
        \/ tool = "head" /\ Hd!Init
        \/ tool = "wc" /\ Wc!Init
        \/ tool = "tr" /\ Tr!Init
        \/ tool = "sed" /\ Sed!Init
        \/ tool = "awk" /\ Aw!Init
Init == tool \in Started /\ Starts

CpRuns == tool = "cp" /\ C!Next /\ UNCHANGED <<tool, textVars, jobs, todo, others, hurt>>
RmRuns == tool = "rm" /\ R!Next /\ UNCHANGED <<tool, textVars, into, jobs, todo>>
DirsRun == tool = "dirs" /\ D!Next /\ UNCHANGED <<tool, textVars, into, cur, stack, jobs, others, hurt>>
LnRuns == tool = "ln" /\ L!Next /\ UNCHANGED <<tool, textVars, into, cur, stack, todo, others, hurt>>
InstallRuns == tool = "install" /\ I!Next /\ UNCHANGED <<tool, textVars, into, i, cur, stack, others, hurt>>
ChmodRuns == tool = "chmod" /\ Ch!Next /\ UNCHANGED <<tool, textVars, into, jobs, todo, others, hurt>>
FindRuns == tool = "find" /\ F!Next /\ UNCHANGED <<tool, inp, opts, into, jobs, todo, others, hurt>>

DdRuns == tool = "dd" /\ Dd!Next /\ UNCHANGED <<tool, treeVars>>
TeeRuns == tool = "tee" /\ Tee!Next /\ UNCHANGED <<tool, treeVars>>
CatRuns == tool = "cat" /\ Cat!Next /\ UNCHANGED <<tool, treeVars>>
SortRuns == tool = "sort" /\ Sort!Next /\ UNCHANGED <<tool, treeVars>>
UniqRuns == tool = "uniq" /\ Uniq!Next /\ UNCHANGED <<tool, treeVars>>
CutRuns == tool = "cut" /\ Cut!Next /\ UNCHANGED <<tool, treeVars>>
TacRuns == tool = "tac" /\ Tac!Next /\ UNCHANGED <<tool, treeVars>>
HeadRuns == tool = "head" /\ Hd!Next /\ UNCHANGED <<tool, treeVars>>
WcRuns == tool = "wc" /\ Wc!Next /\ UNCHANGED <<tool, treeVars>>
TrRuns == tool = "tr" /\ Tr!Next /\ UNCHANGED <<tool, treeVars>>
SedRuns == tool = "sed" /\ Sed!Next /\ UNCHANGED <<tool, treeVars>>
AwkRuns == tool = "awk" /\ Aw!Next /\ UNCHANGED <<tool, treeVars>>

Next == \/ CpRuns \/ RmRuns \/ DirsRun \/ LnRuns \/ InstallRuns \/ ChmodRuns \/ FindRuns
        \/ DdRuns \/ TeeRuns \/ CatRuns \/ SortRuns \/ UniqRuns \/ CutRuns
        \/ TacRuns \/ HeadRuns \/ WcRuns \/ TrRuns \/ SedRuns \/ AwkRuns

Spec == Init /\ [][Next]_vars

(* Properties *)

\* The variables of each tool have their types.
TypeOK ==
  CASE tool = "cp" -> C!TypeOK [] tool = "rm" -> R!TypeOK [] tool = "dirs" -> D!TypeOK
    [] tool = "ln" -> L!TypeOK [] tool = "install" -> I!TypeOK [] tool = "find" -> F!TypeOK [] tool = "chmod" -> Ch!TypeOK
    [] tool = "dd" -> Dd!TypeOK [] tool = "tee" -> Tee!TypeOK [] tool = "cat" -> Cat!TypeOK
    [] tool = "sort" -> Sort!TypeOK [] tool = "uniq" -> Uniq!TypeOK [] tool = "cut" -> Cut!TypeOK
    [] tool = "tac" -> Tac!TypeOK [] tool = "head" -> Hd!TypeOK [] tool = "wc" -> Wc!TypeOK
    [] tool = "tr" -> Tr!TypeOK [] tool = "sed" -> Sed!TypeOK [] tool = "awk" -> Aw!TypeOK

\* Exit status 0 means that what was asked for is done, whatever was there; find
\* prints, removes and runs commands for the entries it was asked for.
ZeroMeansDone ==
  CASE tool = "cp" -> C!ZeroMeansDone [] tool = "rm" -> R!StatusTells [] tool = "dirs" -> D!ZeroMeansDone
    [] tool = "ln" -> L!ZeroMeansDone [] tool = "install" -> I!ZeroMeansDone [] tool = "find" -> F!FoundRight
    [] tool = "chmod" -> Ch!ZeroMeansDone [] OTHER -> TRUE

\* cp, rm, mkdir, rmdir, ln, chmod and find change nothing but what they were given,
\* and cp and ln -b lose nothing of that either, whatever fails.
OthersKept ==
  CASE tool = "cp" -> C!OthersKept /\ C!SourcesKept [] tool = "rm" -> R!OthersKept [] tool = "dirs" -> D!OthersKept
    [] tool = "ln" -> L!OthersKept /\ L!SourcesKept [] tool = "find" -> F!OthersKept [] tool = "chmod" -> Ch!OthersKept [] OTHER -> TRUE

\* install replaces a file at once and leaves nothing behind.
NeverHalf == tool = "install" => I!NeverHalf /\ I!NoTempLeft

\* dd, tee and cat bring over what they read, converted as asked, and dd says so
\* in its counts, however reads and writes are split and whichever output fails.
CopiesRight ==
  CASE tool = "dd" -> Dd!CopyRight /\ Dd!RecordsAdd /\ Dd!BlocksUnblock
    [] tool = "tee" -> Tee!CopiesSame [] tool = "cat" -> Cat!LinesWhole [] OTHER -> TRUE

\* sort, uniq, cut, tac, head, wc and tr put out what their definition over the
\* whole text says, though they read it block by block or line by line.
FiltersRight ==
  CASE tool = "sort" -> Sort!OrderTotal /\ Sort!SortRight [] tool = "uniq" -> Uniq!UniqRight [] tool = "cut" -> Cut!CutRight
    [] tool = "tac" -> Tac!TacRight [] tool = "head" -> Hd!HeadRight [] tool = "wc" -> Wc!WcRight
    [] tool = "tr" -> Tr!TrRight [] OTHER -> TRUE

\* sed and awk do what their scripts mean; sed -i keeps what the files held, and
\* awk its line and its fields together.
EditsRight == CASE tool = "sed" -> Sed!EditsRight [] tool = "awk" -> Aw!AwkRight [] OTHER -> TRUE

\* What cat, tr, sort, rmdir, chmod and cp say of themselves where they do
\* something else; the lines are quoted at the properties.
HelpHolds ==
  CASE tool = "cp" -> C!AttributesKept [] tool = "cat" -> Cat!AllNumbered [] tool = "tr" -> Tr!RunsSqueezed [] tool = "sort" -> Sort!FirstOfEqual
    [] tool = "dirs" -> D!AncestorsGone [] tool = "chmod" -> Ch!EachFileItsMode [] OTHER -> TRUE

\* sort.c:98, help: "Write sorted concatenation of all FILE(s) to standard output."
SortedComesOut == tool = "sort" => Sort!Right
=============================================================================
