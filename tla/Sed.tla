---------------------------------- MODULE Sed ----------------------------------
(***************************************************************************)
(* sed (src/sed.c): the script runs once for each line, on a pattern space   *)
(* and a hold space; with -i the output goes to a temporary file that takes  *)
(* the place of the input.  Scripts are given as commands, already parsed.   *)
(***************************************************************************)
EXTENDS TextTool

\* call = [script, opts, files, other]: other is the text of the file that r and
\* R name.  A command is [cmd, addrs, neg, text, re, flags, n]; an address is
\* [type, n, step, re]; a regular expression is [kind, c].
CONSTANTS Width     \* where l folds a line: 70

Steps == Len(call.script)
Code(k) == call.script[k]

-----------------------------------------------------------------------------
(* regexec, external: one byte, a run of it, the end and the begin of a line. *)
(* A match is <<from, to>>, the offsets in front of and behind it.            *)

Match(re, text, notBol) ==
  LET at(Test(_)) == {k \in 0..Len(text) : Test(k)}
      lits == {k \in 1..Len(text) : text[k] = re.c}
      run == {n \in 0..Len(text) : \A k \in 1..n : text[k] = re.c}
      ends == at(LAMBDA k : k = Len(text) \/ text[k + 1] = Nl)
      begins == at(LAMBDA k : (k = 0 /\ ~notBol) \/ (k > 0 /\ text[k] = Nl))
  IN CASE re.kind = "byte"  -> IF lits = {} THEN <<>> ELSE <<Min(lits) - 1, Min(lits)>>
       [] re.kind = "run"   -> <<0, Max(run)>>
       [] re.kind = "end"   -> <<Min(ends), Min(ends)>>
       [] re.kind = "begin" -> IF begins = {} THEN <<>> ELSE <<Min(begins), Min(begins)>>

-----------------------------------------------------------------------------
(* addr_matches, cmd_matches *)

AddrMatches(a, m) ==
  CASE a.type = "line" -> m.lineno = a.n
    [] a.type = "last" -> m.last = 1
    [] a.type = "step" -> IF a.step = 0 THEN m.lineno = a.n ELSE m.lineno >= a.n /\ (m.lineno - a.n) % a.step = 0
    [] a.type = "re"   -> Match(a.re, m.pat, FALSE) # <<>>

InRange(k, m) == k \in m.ranges

\* On its first line a range only ends when its second address is a line number
\* that has been reached.
StaysAtFirst(c, m) == ~(c.addrs[2].type = "line" /\ c.addrs[2].n <= m.lineno)

Hits(k, m) ==
  LET c == Code(k) IN
    CASE c.addrs = <<>>      -> TRUE
      [] Len(c.addrs) = 1    -> AddrMatches(c.addrs[1], m)
      [] OTHER               -> InRange(k, m) \/ AddrMatches(c.addrs[1], m)
Ranged(k, m) ==
  LET c == Code(k)
      stays == IF InRange(k, m) THEN ~AddrMatches(c.addrs[2], m) ELSE Hits(k, m) /\ StaysAtFirst(c, m)
  IN IF Len(c.addrs) < 2 THEN m ELSE [m EXCEPT !.ranges = IF stays THEN @ \cup {k} ELSE @ \ {k}]
Matches(k, m) == IF Code(k).neg = 1 THEN ~Hits(k, m) ELSE Hits(k, m)

\* parse_script: the end of a block; the first command, for a block without end.
Depth(k) == Cardinality({j \in 1..k : Code(j).cmd = "{"}) - Cardinality({j \in 1..k : Code(j).cmd = "}"})
BlockEnd(k) ==
  LET ends == {j \in k + 1..Steps : Code(j).cmd = "}" /\ Depth(j) < Depth(k)} IN IF ends = {} THEN 1 ELSE Min(ends)

-----------------------------------------------------------------------------
(* do_subst, do_translit, do_print_unambig *)

Ampersand == 38
Expanded(rep, matched) == FlattenSeq([k \in 1..Len(rep) |-> IF rep[k] = Ampersand THEN matched ELSE <<rep[k]>>])

\* One turn of the loop: r = [pos, text, seen, made, over].
RECURSIVE SubstFrom(_, _, _)
SubstFrom(c, src, r) ==
  LET rest == From(src, r.pos + 1)
      at == Match(c.re, rest, r.pos > 0)
      seen == r.seen + 1
      global == "g" \in c.flags
      replaces == IF c.n > 0 THEN seen = c.n ELSE global \/ seen = 1
      matched == SubSeq(rest, at[1] + 1, at[2])
      put == r.text \o SubSeq(rest, 1, at[1]) \o (IF replaces THEN Expanded(c.text, matched) ELSE matched)
      empty == at[2] = 0
      text == IF empty /\ r.pos < Len(src) THEN Append(put, rest[1]) ELSE put
      pos == IF empty THEN r.pos + 1 ELSE r.pos + at[2]
      made == IF replaces THEN 1 ELSE r.made
      last == IF c.n > 0 THEN seen >= c.n ELSE ~global
  IN CASE r.pos > Len(src) -> r
       [] at = <<>> -> [r EXCEPT !.text = @ \o rest]
       [] last      -> [r EXCEPT !.text = text \o From(src, pos + 1), !.made = made]
       [] OTHER     -> SubstFrom(c, src, [pos |-> pos, text |-> text, seen |-> seen, made |-> made])
Subst(c, src) == SubstFrom(c, src, [pos |-> 0, text |-> <<>>, seen |-> 0, made |-> 0])

\* y: text is the bytes to replace and then as many to replace them with.
Translit(c, s) ==
  LET half == Len(c.text) \div 2 place(b) == {k \in 1..half : c.text[k] = b}
  IN [k \in 1..Len(s) |-> IF place(s[k]) = {} THEN s[k] ELSE c.text[half + Min(place(s[k]))]]

Escape == 92
Visible(c) ==
  CASE c = Escape              -> <<Escape, Escape>>
    [] c \in 7..13             -> <<Escape, <<97, 98, 116, 110, 118, 102, 114>>[c - 6]>>
    [] c < 32 \/ c = 127       -> <<Escape, 48 + c \div 64, 48 + ((c \div 8) % 8), 48 + (c % 8)>>
    [] OTHER                   -> <<c>>
Unambiguous(s) ==
  FoldLeft(LAMBDA r, c :
             LET v == Visible(c) folds == r.col + Len(v) >= Width
             IN [text |-> r.text \o (IF folds THEN <<Escape, Nl>> ELSE <<>>) \o v, col |-> (IF folds THEN 0 ELSE r.col) + Len(v)],
           [text |-> <<>>, col |-> 0], s).text \o <<36, Nl>>

-----------------------------------------------------------------------------
(* The state *)

Fresh == [pat |-> <<>>, hold |-> <<>>, lineno |-> 0, last |-> 0, flag |-> 0, quit |-> 0, code |-> 0, later |-> <<>>,
          ranges |-> {}, i |-> 1, closed |-> 0]
InPlace == "i" \in call.opts

\* wfile is what w has written; file and backup are what the names hold with -i,
\* and at is the file that is edited.
Init ==
  /\ call \in Calls
  /\ inp = (IF InPlace THEN <<>> ELSE call.files) /\ out = <<>>
  /\ mem = Fresh @@ [wfile |-> <<>>, file |-> call.files, backup |-> [k \in 1..Len(call.files) |-> Missing], at |-> 0]
  /\ pc = "main" /\ status = 0 /\ faults = Faults

Valid == \A k \in 1..Steps : Code(k).cmd = "y" => Len(Code(k).text) % 2 = 0

\* All files are opened, and sed ends if one cannot be, before any is read.
Main ==
  /\ pc = "main" /\ Works
  /\ IF ~Valid \/ Missing \in Range(call.files) THEN Exit(1)
     ELSE pc' = (IF InPlace THEN "open" ELSE "cycle") /\ status' = status
  /\ UNCHANGED <<call, inp, out, mem>>

\* input_getline and peek_is_last, which only looks at the file that is read.
HasLine == \E k \in 1..Len(inp) : inp[k] # <<>>
Current == From(inp, Min({k \in 1..Len(inp) : inp[k] # <<>>}))
NextText == Piece(Head(Current), Nl, Len(Head(Current)))
GetLine == inp' = <<From(Head(Current), Len(NextText) + 1)>> \o Tail(Current)
LineRead(m) ==
  [m EXCEPT !.lineno = @ + 1, !.last = IF Len(NextText) = Len(Head(Current)) THEN 1 ELSE 0]

\* process: one line, and the end.
Cycle ==
  /\ pc = "cycle" /\ mem.quit = 0 /\ HasLine
  /\ GetLine
  /\ mem' = [LineRead(mem) EXCEPT !.pat = Unended(NextText, Nl), !.flag = 0, !.i = 1]
  /\ pc' = "run" /\ UNCHANGED <<call, out, status, faults>>

\* g_quit_code is the status; with -i that of the last file.
Done ==
  /\ pc = "cycle" /\ (mem.quit = 1 \/ ~HasLine)
  /\ IF InPlace THEN pc' = "backup" /\ status' = status ELSE Exit(mem.code)
  /\ mem' = IF mem.quit = 1 THEN mem ELSE [mem EXCEPT !.closed = 1]
  /\ UNCHANGED <<call, inp, out, faults>>

Ended(s) == Append(s, Nl)
AutoPrint(m) == IF "n" \in call.opts THEN <<>> ELSE Ended(m.pat)

\* flush_deferred
Flushed(m) == [m EXCEPT !.later = <<>>]

\* auto_print at the end of the script.
EndScript ==
  /\ pc = "run" /\ mem.i > Steps
  /\ out' = out \o AutoPrint(mem) \o mem.later /\ mem' = Flushed(mem)
  /\ pc' = "cycle" /\ UNCHANGED <<call, inp, status, faults>>

-----------------------------------------------------------------------------
(* execute *)

Running == pc = "run" /\ mem.i <= Steps
Now == Code(mem.i)
NoAddress == Now.cmd \in {":", "}", "#"}
Runs(cmds) == Running /\ Now.cmd \in cmds /\ Matches(mem.i, mem)
After == Ranged(mem.i, mem)
Onward(m) == [m EXCEPT !.i = @ + 1]

Skip ==
  /\ Running
  /\ IF NoAddress \/ (Now.cmd = "{" /\ Matches(mem.i, mem)) THEN mem' = Onward(IF NoAddress THEN mem ELSE After)
     ELSE /\ ~Matches(mem.i, mem)
          /\ mem' = IF Now.cmd = "{" THEN [After EXCEPT !.i = BlockEnd(mem.i) + 1] ELSE Onward(After)
  /\ UNCHANGED <<call, inp, out, pc, status, faults>>

FirstPart(s) == Unended(Piece(s, Nl, Len(s)), Nl)
Printed ==
  CASE Now.cmd = "p" -> Ended(mem.pat)
    [] Now.cmd = "P" -> Ended(FirstPart(mem.pat))
    [] Now.cmd = "l" -> Unambiguous(mem.pat)
    [] Now.cmd = "i" -> Ended(Now.text)
    [] Now.cmd = "=" -> <<0 - mem.lineno, Nl>>
PrintCommand ==
  /\ Runs({"p", "P", "l", "i", "="})
  /\ out' = out \o Printed /\ mem' = Onward(After)
  /\ UNCHANGED <<call, inp, pc, status, faults>>

\* R opens the file each time: it is always the first line.
OfFile(s) == IF s = <<>> \/ Last(s) = Nl THEN s ELSE Ended(s)
PutOff ==
  CASE Now.cmd = "a" -> Ended(Now.text)
    [] Now.cmd = "r" -> OfFile(call.other)
    [] Now.cmd = "R" -> OfFile(Piece(call.other, Nl, Len(call.other)))
DeferCommand ==
  /\ Runs({"a", "r", "R"})
  /\ mem' = Onward([After EXCEPT !.later = @ \o (IF Now.cmd # "a" /\ call.other = Missing THEN <<>> ELSE PutOff)])
  /\ UNCHANGED <<call, inp, out, pc, status, faults>>

SpaceCommand ==
  /\ Runs({"h", "H", "g", "G", "x", "y", "w"})
  /\ LET m == After IN
       mem' = Onward(CASE Now.cmd = "h" -> [m EXCEPT !.hold = m.pat]
                       [] Now.cmd = "H" -> [m EXCEPT !.hold = Ended(@) \o m.pat]
                       [] Now.cmd = "g" -> [m EXCEPT !.pat = m.hold]
                       [] Now.cmd = "G" -> [m EXCEPT !.pat = Ended(@) \o m.hold]
                       [] Now.cmd = "x" -> [m EXCEPT !.pat = m.hold, !.hold = m.pat]
                       [] Now.cmd = "y" -> [m EXCEPT !.pat = Translit(Now, @)]
                       [] Now.cmd = "w" -> [m EXCEPT !.wfile = @ \o Ended(m.pat)])
  /\ UNCHANGED <<call, inp, out, pc, status, faults>>

SubstCommand ==
  /\ Runs({"s"})
  /\ LET r == Subst(Now, mem.pat) IN
       /\ mem' = Onward(IF r.made = 1 THEN [After EXCEPT !.pat = r.text, !.flag = 1] ELSE After)
       /\ out' = IF r.made = 1 /\ "p" \in Now.flags THEN out \o Ended(r.text) ELSE out
  /\ UNCHANGED <<call, inp, pc, status, faults>>

\* d, D and c end the cycle.  D leaves the rest of the pattern space, which the
\* next line that is read replaces.
DeleteCommand ==
  /\ Runs({"d", "D", "c"})
  /\ out' = out \o (IF Now.cmd = "c" THEN Ended(Now.text) ELSE <<>>) \o mem.later
  /\ mem' = [Flushed(After) EXCEPT !.pat = CASE Now.cmd = "d" -> <<>>
                                             [] Now.cmd = "D" -> From(@, Len(FirstPart(@)) + 2)
                                             [] Now.cmd = "c" -> @]
  /\ pc' = "cycle" /\ UNCHANGED <<call, inp, status, faults>>

QuitCommand ==
  /\ Runs({"q", "Q"})
  /\ out' = IF Now.cmd = "q" THEN out \o AutoPrint(mem) \o mem.later ELSE out
  /\ mem' = [(IF Now.cmd = "q" THEN Flushed(After) ELSE After) EXCEPT !.quit = 1, !.code = Now.n]
  /\ pc' = "cycle" /\ UNCHANGED <<call, inp, status, faults>>

\* n prints and reads the next line, N appends it; the last line ends sed.
NextCommand ==
  /\ Runs({"n", "N"})
  /\ IF Now.cmd = "n" \/ ~HasLine THEN out' = out \o AutoPrint(mem) \o mem.later ELSE out' = out
  /\ LET m == IF Now.cmd = "n" \/ ~HasLine THEN Flushed(After) ELSE After IN
       IF ~HasLine THEN mem' = [m EXCEPT !.quit = 1, !.closed = 1] /\ pc' = "cycle" /\ inp' = inp
       ELSE /\ GetLine /\ pc' = pc
            /\ mem' = Onward(IF Now.cmd = "n" THEN [LineRead(m) EXCEPT !.pat = Unended(NextText, Nl), !.flag = 0]
                             ELSE [LineRead(m) EXCEPT !.pat = Ended(@) \o Unended(NextText, Nl)])
  /\ UNCHANGED <<call, status, faults>>

\* b, t and T go to a label or, without one, to the end of the script.
Labels(name) == {k \in 1..Steps : Code(k).cmd = ":" /\ Code(k).text = name}
BranchCommand ==
  /\ Runs({"b", "t", "T"})
  /\ LET goes == CASE Now.cmd = "b" -> TRUE [] Now.cmd = "t" -> mem.flag = 1 [] Now.cmd = "T" -> mem.flag = 0
         m == IF Now.cmd = "b" THEN After ELSE [After EXCEPT !.flag = 0]
     IN IF goes /\ Now.text # <<>> /\ Labels(Now.text) = {} THEN Exit(1) /\ mem' = m
        ELSE /\ UNCHANGED <<pc, status>>
             /\ mem' = IF ~goes THEN Onward(m)
                       ELSE [m EXCEPT !.i = IF Now.text = <<>> THEN Steps + 1 ELSE Min(Labels(Now.text))]
  /\ UNCHANGED <<call, inp, out, faults>>

-----------------------------------------------------------------------------
(* process_inplace *)

\* Mutant: what was read of the last file is not forgotten.
KeepsLines(m) == [Fresh EXCEPT !.lineno = m.lineno]

\* Everything starts anew for each file but what w has written.
StartAnew(m) == Fresh

Open ==
  /\ pc = "open"
  /\ \/ mem.at = Len(call.files) /\ Works /\ Exit(mem.code) /\ UNCHANGED <<inp, out, mem>>
     \/ /\ mem.at < Len(call.files)
        /\ mem' = StartAnew(mem) @@ [mem EXCEPT !.at = @ + 1]
        /\ \/ Works /\ inp' = <<mem.file[mem.at + 1]>> /\ out' = <<>> /\ pc' = "cycle" /\ status' = status
           \/ Fails /\ UNCHANGED <<inp, out, pc, status>>
     \/ mem.at < Len(call.files) /\ Fails /\ Exit(1) /\ UNCHANGED <<inp, out, mem>>
  /\ UNCHANGED call

\* The backup: whether this works is not looked at.
Backup ==
  /\ pc = "backup"
  /\ \/ /\ "suffix" \in call.opts /\ Works
        /\ mem' = [mem EXCEPT !.backup[mem.at] = mem.file[mem.at], !.file[mem.at] = Missing]
     \/ (IF "suffix" \in call.opts THEN Fails ELSE Works) /\ mem' = mem
  /\ pc' = "rename" /\ UNCHANGED <<call, inp, out, status>>

\* The temporary file, which may have lost what could not be written, takes the
\* place of the input.  The input is closed once more, which is undefined when
\* its end had been reached: sed may be aborted.
Rename ==
  /\ pc = "rename"
  /\ \/ /\ \/ Works /\ mem' = [mem EXCEPT !.file[mem.at] = out]
           \/ Fails /\ \E n \in 0..Len(out) - 1 : mem' = [mem EXCEPT !.file[mem.at] = Take(out, n)]
        /\ \/ pc' = "open" /\ status' = status
           \/ mem.closed = 1 /\ Exit(134)
     \/ Fails /\ Exit(1) /\ mem' = mem
  /\ UNCHANGED <<call, inp, out>>

Next == \/ Main \/ Cycle \/ Done \/ EndScript \/ Skip \/ PrintCommand \/ DeferCommand \/ SpaceCommand \/ SubstCommand
        \/ DeleteCommand \/ QuitCommand \/ NextCommand \/ BranchCommand \/ Open \/ Backup \/ Rename

Spec == Init /\ [][Next]_vars

-----------------------------------------------------------------------------
(* Properties *)

TypeOK ==
  /\ call \in Calls /\ pc \in {"main", "cycle", "run", "open", "backup", "rename", "exited"} /\ faults \in 0..Faults
  /\ mem.i \in 1..Steps + 1 /\ mem.ranges \subseteq 1..Steps /\ mem.at \in 0..Len(call.files)

LinesIn(files) == FlattenSeq([k \in 1..Len(files) |-> LinesOf(files[k], Nl)])
Text(lines) == FlattenSeq([k \in 1..Len(lines) |-> Ended(lines[k])])

\* What well-known scripts are for, said of the whole text: G double-spaces it,
\* 1!G;h;$!d turns it round, n;d leaves every other line, a loop with N and b
\* joins the lines, one with s and t removes a byte, a range selects lines, and
\* a puts a line behind those that are not printed by a command before it.
Meaning(lines) ==
  CASE call.name = "double" -> Text(FlattenSeq([k \in 1..Len(lines) |-> <<lines[k], <<>>>>]))
    [] call.name = "tac"    -> Text(Reverse(lines))
    [] call.name = "odd"    -> Text([k \in 1..(Len(lines) + 1) \div 2 |-> lines[2 * k - 1]])
    [] call.name = "join"   -> IF lines = <<>> THEN <<>>
                               ELSE Ended(FlattenSeq([k \in 1..Len(lines) |-> IF k = 1 THEN lines[k] ELSE <<44>> \o lines[k]]))
    [] call.name = "remove" -> SelectSeq(Text(lines), LAMBDA c : c # 97)
    [] call.name = "middle" -> Text(SubSeq(lines, 2, Min({3, Len(lines)})))
    [] call.name = "after"  -> Text(FlattenSeq([k \in 1..Len(lines) |-> IF 97 \in Range(lines[k]) THEN <<<<43>>>> ELSE <<lines[k], <<43>>>>]))
    [] call.name = "count"  -> IF lines = <<>> THEN <<>> ELSE <<0 - Len(lines), Nl>>
Succeeded == pc = "exited" /\ status = 0 /\ faults = Faults /\ call.name # ""

\* An idiom does what it is for, with -i to each of the files by itself.
IdiomsRight ==
  Succeeded => IF InPlace THEN \A k \in 1..Len(call.files) : mem.file[k] = Meaning(LinesIn(<<call.files[k]>>))
               ELSE out = Meaning(LinesIn(call.files))

\* With a suffix, what a file held is under its name or the backup's all the
\* time, however sed ends; only when the backup failed is it lost.
OriginalKept ==
  InPlace /\ "suffix" \in call.opts =>
    \A k \in 1..Len(call.files) :
      call.files[k] \in {mem.file[k], mem.backup[k]} \/ (faults < Faults /\ mem.file[k] # Missing)

EditsRight == IdiomsRight /\ OriginalKept
=============================================================================
