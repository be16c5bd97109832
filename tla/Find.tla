-------------------------------- MODULE Find --------------------------------
(***************************************************************************)
(* find (src/find.c): the arguments are parsed into an expression, which   *)
(* is evaluated for every entry before what is below it.                   *)
(***************************************************************************)
EXTENDS FileTree

CONSTANTS Trees, Calls, Depth,
          Faults       \* how many calls and commands may fail

\* call = [paths, depths, mean, act, raw]: what is looked for, from which the
\* arguments are made (see Init), or arguments as they are.
VARIABLES fs, start, call, i, pc,
          cur,         \* path of traverse
          stack,       \* locals of the traverses: [path, seen, due]
          out,         \* the paths that were printed
          ran,         \* the paths that -exec was run for
          status, faults

vars == <<fs, start, call, i, pc, cur, stack, out, ran, status, faults>>

Fails == faults > 0 /\ faults' = faults - 1
Works == faults' = faults

-----------------------------------------------------------------------------
(* The parser.  A token has a type and, for the tests, an argument; an        *)
(* expression is a test, an action, or a "not", "and" or "or" of expressions. *)

Token(t, arg) == [t |-> t, arg |-> arg]
Null == Token("null", <<>>)
True == Token("true", <<>>)
Tests == {"name", "type", "size", "mtime", "empty"}
Actions == {"print", "delete", "exec"}
Depths == {"maxdepth", "mindepth"}
Not(e) == [t |-> "not", l |-> e]
Both(t, e, f) == [t |-> t, l |-> e, r |-> f]

Parsed(e, rest) == [e |-> e, rest |-> rest]
Sees(s, ts) == s # <<>> /\ s[1].t \in ts
Behind(s, t) == IF Sees(s, {t}) THEN Tail(s) ELSE s

RECURSIVE ParsePrimary(_), ParseAnd(_), ParseExpr(_), MoreAnds(_, _), MoreOrs(_, _)
ParsePrimary(s) ==
  CASE Sees(s, {"("})           -> LET r == ParseExpr(Tail(s)) IN Parsed(r.e, Behind(r.rest, ")"))
    [] Sees(s, {"!"})           -> LET r == ParsePrimary(Tail(s)) IN Parsed(Not(r.e), r.rest)
    [] Sees(s, Tests \cup Actions) -> Parsed(s[1], Tail(s))
    [] Sees(s, Depths)          -> Parsed(True, Tail(s))
    [] OTHER                    -> Parsed(Null, s)

AndEnds(s) == s = <<>> \/ Sees(s, {"-o", ")"})
MoreAnds(left, s) ==
  LET rest == Behind(s, "-a")
      r == ParsePrimary(rest)
  IN IF AndEnds(rest) \/ r.e.t = "null" THEN Parsed(left, rest) ELSE MoreAnds(Both("and", left, r.e), r.rest)
ParseAnd(s) == LET r == ParsePrimary(s) IN IF r.e.t = "null" THEN r ELSE MoreAnds(r.e, r.rest)

\* Mutant: -o binds like -a.
OnlyPrimary(s) == ParsePrimary(s)

RightOfOr(s) == ParseAnd(s)

MoreOrs(left, s) ==
  IF ~Sees(s, {"-o"}) THEN Parsed(left, s)
  ELSE LET r == RightOfOr(Tail(s)) IN MoreOrs(Both("or", left, r.e), r.rest)
ParseExpr(s) == LET r == ParseAnd(s) IN MoreOrs(r.e, r.rest)

-----------------------------------------------------------------------------

\* How a meaning is written down: parentheses where they are needed.
RECURSIVE Arguments(_)
Enclosed(m, ts) == IF m.t \in ts THEN <<Token("(", <<>>)>> \o Arguments(m) \o <<Token(")", <<>>)>> ELSE Arguments(m)
Arguments(m) ==
  CASE m.t = "or"  -> Arguments(m.l) \o <<Token("-o", <<>>)>> \o Arguments(m.r)
    [] m.t = "and" -> Enclosed(m.l, {"or"}) \o (IF m.r.t = "not" THEN <<Token("-a", <<>>)>> ELSE <<>>) \o Enclosed(m.r, {"or"})
    [] m.t = "not" -> <<Token("!", <<>>)>> \o Enclosed(m.l, {"or", "and"})
    [] OTHER       -> <<m>>
Argv ==
  IF call.raw # <<>> THEN call.raw
  ELSE call.depths \o Enclosed(call.mean, {"or"}) \o (IF call.act = "" THEN <<>> ELSE <<Token(call.act, <<>>)>>)

Init ==
  /\ fs \in Trees /\ start = fs
  /\ call \in Calls
  /\ i = 1 /\ pc = "main" /\ cur = <<>> /\ stack = <<>> /\ out = <<>> /\ ran = <<>>
  /\ status = 0 /\ faults = Faults

\* main: what is not an expression, or has no argument, ends find at once.
Expr == ParseExpr(Argv)
Bad == Expr.rest # <<>> \/ \E k \in 1..Len(Argv) : Argv[k].t = "noarg"
Main ==
  /\ pc = "main"
  /\ IF Bad THEN pc' = "exited" /\ status' = 1 ELSE pc' = "path" /\ status' = 0
  /\ UNCHANGED <<fs, start, call, i, cur, stack, out, ran, faults>>

NextPath ==
  /\ pc = "path"
  /\ IF i > Len(call.paths) THEN pc' = "exited" /\ UNCHANGED <<i, cur>> ELSE pc' = "visit" /\ cur' = call.paths[i] /\ i' = i + 1
  /\ UNCHANGED <<fs, start, call, stack, out, ran, status, faults>>

\* g_maxdepth, g_mindepth and g_had_action: wherever the token is.
Given(t) == {k \in 1..Len(Argv) : Argv[k].t = t}
DepthOf(t, default) == IF Given(t) = {} THEN default ELSE Argv[Max(Given(t))].arg
MinDepth == DepthOf("mindepth", 0)
HadAction == \E t \in Actions : Given(t) # {}

-----------------------------------------------------------------------------
(* The evaluator *)

NameOf(p) == IF p = <<>> THEN "." ELSE Last(p)
\* The size of a directory is that of a block.
SizeOf(n) == IF n.kind = "dir" THEN 4096 ELSE Len(n.of)
Now == 3
Compared(x, arg) == CASE arg.cmp = "+" -> x > arg.n [] arg.cmp = "-" -> x < arg.n [] OTHER -> x = arg.n
Test(e, tree, p, st) ==
  CASE e.t = "name"  -> NameOf(p) \in e.arg
    [] e.t = "type"  -> st.kind = e.arg
    [] e.t = "size"  -> Compared(SizeOf(st), e.arg)
    [] e.t = "mtime" -> Compared(Now - st.time, e.arg)
    [] e.t = "empty" -> (st.kind = "file" /\ st.of = <<>>) \/ (st.kind = "dir" /\ IsDir(tree, p) /\ Entries(tree, Real(tree, p)) = {})

\* Mutant: the right side of an "and" is evaluated whatever the left says.
GoesOnAnyway(val) == TRUE

GoesOn(val) == val

\* r = [val, fs, out, ran]; works: the call that removes, or the command, succeeds.
RECURSIVE Eval(_, _, _, _, _)
Eval(e, r, p, st, works) ==
  CASE e.t \in {"null", "true"} -> [r EXCEPT !.val = TRUE]
    [] e.t \in Tests  -> [r EXCEPT !.val = Test(e, r.fs, p, st)]
    [] e.t = "print"  -> [r EXCEPT !.val = TRUE, !.out = Append(@, p)]
    [] e.t = "exec"   -> [r EXCEPT !.val = works, !.ran = Append(@, p)]
    [] e.t = "delete" ->
         IF works /\ (IF st.kind = "dir" THEN CanRmdir(r.fs, p) ELSE CanUnlink(r.fs, p))
           THEN [r EXCEPT !.val = TRUE, !.fs = Unlink(@, p)] ELSE [r EXCEPT !.val = FALSE]
    [] e.t = "not"    -> LET a == Eval(e.l, r, p, st, works) IN [a EXCEPT !.val = ~@]
    [] e.t = "and"    -> LET a == Eval(e.l, r, p, st, works)
                         IN IF GoesOn(a.val) THEN LET b == Eval(e.r, a, p, st, works) IN [b EXCEPT !.val = a.val /\ @] ELSE a
    [] e.t = "or"     -> LET a == Eval(e.l, r, p, st, works) IN IF a.val THEN a ELSE Eval(e.r, a, p, st, works)

-----------------------------------------------------------------------------
(* traverse *)

Level == Len(stack)
Back == pc' = IF stack = <<>> THEN "path" ELSE "readdir"

\* Mutant: the directories at the greatest depth are gone into.
OneDeeper(n) == n <= DepthOf("maxdepth", Depth + 1)

WithinDepth(n) == n < DepthOf("maxdepth", Depth + 1)

Descends(st) == st.kind = "dir" /\ WithinDepth(Level)

CannotLook ==
  /\ pc = "visit"
  /\ IF Lstat(fs, cur).ino = 0 THEN Works ELSE Fails
  /\ Back
  /\ UNCHANGED <<fs, start, call, i, cur, stack, out, ran, status>>

\* lstat and eval_expr; opendir comes afterwards, when the directory may be gone.
Visit ==
  /\ pc = "visit" /\ Lstat(fs, cur).ino # 0
  /\ LET st == Lstat(fs, cur) IN
     /\ IF Level < MinDepth THEN Works /\ UNCHANGED <<fs, out, ran>>
        ELSE \E works \in BOOLEAN :
               /\ works \/ "delete" \in {Argv[k].t : k \in 1..Len(Argv)} \/ "exec" \in {Argv[k].t : k \in 1..Len(Argv)}
               /\ IF works THEN Works ELSE Fails
               /\ LET r == Eval(Expr.e, [val |-> TRUE, fs |-> fs, out |-> out, ran |-> ran], cur, st, works)
                  IN fs' = r.fs /\ ran' = r.ran /\ out' = IF ~HadAction /\ r.val THEN Append(r.out, cur) ELSE r.out
     /\ IF Descends(st) THEN pc' = "opendir" ELSE Back
  /\ UNCHANGED <<start, call, i, cur, stack, status>>

OpenDir ==
  /\ pc = "opendir"
  /\ \/ IsDir(fs, cur) /\ Works /\ pc' = "readdir"
        /\ stack' = Append(stack, [path |-> cur, seen |-> {}, due |-> Entries(fs, Real(fs, cur))])
     \/ (IF IsDir(fs, cur) THEN Fails ELSE Works) /\ Back /\ UNCHANGED stack
  /\ UNCHANGED <<fs, start, call, i, cur, out, ran, status>>

ReadDir ==
  /\ pc = "readdir"
  /\ LET f == Last(stack)
         entries == Entries(fs, Real(fs, f.path))
     IN \/ \E n \in entries \ f.seen :
             /\ cur' = Append(f.path, n) /\ pc' = "visit"
             /\ stack' = Append(Front(stack), [f EXCEPT !.seen = @ \cup {n}])
        \/ /\ f.due \cap entries \subseteq f.seen
           /\ stack' = Front(stack) /\ pc' = (IF Len(stack) = 1 THEN "path" ELSE "readdir") /\ UNCHANGED cur
  /\ UNCHANGED <<fs, start, call, i, out, ran, status, faults>>

Next == Main \/ NextPath \/ CannotLook \/ Visit \/ OpenDir \/ ReadDir

Spec == Init /\ [][Next]_vars

-----------------------------------------------------------------------------
(* Properties *)

TypeOK ==
  /\ IsTree(fs) /\ call \in Calls /\ status \in {0, 1} /\ faults \in 0..Faults /\ i \in 1..Len(call.paths) + 1
  /\ pc \in {"main", "path", "visit", "opendir", "readdir", "exited"} /\ Len(stack) <= Depth + 1

\* What a meaning says of an entry of the tree as it was.
RECURSIVE Holds(_, _)
Holds(m, p) ==
  CASE m.t = "or"  -> Holds(m.l, p) \/ Holds(m.r, p)
    [] m.t = "and" -> Holds(m.l, p) /\ Holds(m.r, p)
    [] m.t = "not" -> ~Holds(m.l, p)
    [] OTHER       -> Test(m, start, p, start[p])

DepthGiven(t, default) ==
  LET ks == {k \in 1..Len(call.depths) : call.depths[k].t = t} IN IF ks = {} THEN default ELSE call.depths[Max(ks)].arg
Meant ==
  {p \in DOMAIN start :
     \E k \in 1..Len(call.paths) :
       LET top == call.paths[k] IN
         /\ Below(p, top)
         /\ Len(p) - Len(top) \in DepthGiven("mindepth", 0)..DepthGiven("maxdepth", Depth)
         /\ Holds(call.mean, p)}

\* find prints, runs the command for and deletes the entries the expression was
\* meant for, each once and before what is below it, however the arguments nest:
\* all of them unless something fails, and never another.  A directory that
\* has entries when its turn comes is not deleted: what is in it comes later.
FoundRight ==
  call.raw = <<>> =>
    LET found == IF call.act = "exec" THEN ran ELSE out IN
    /\ call.act # "delete" =>
         /\ Range(found) \subseteq Meant
         /\ \A j, k \in 1..Len(found) : j < k => ~Below(found[j], found[k])
    /\ pc = "exited" /\ faults = Faults /\ call.act # "delete" => Range(found) = Meant
    /\ pc = "exited" /\ faults = Faults /\ call.act = "delete" =>
         \A p \in Meant : start[p].kind # "dir" \/ Entries(start, p) = {} => p \notin DOMAIN fs

\* Nothing is deleted but entries that -delete was meant for.
OthersKept ==
  call.raw = <<>> =>
    /\ \A p \in DOMAIN start : p \in DOMAIN fs \/ (call.act = "delete" /\ p \in Meant)
    /\ \A p \in DOMAIN fs : fs[p] = start[p]
=============================================================================
