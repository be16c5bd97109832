--------------------------------- MODULE Sort ---------------------------------
(***************************************************************************)
(* sort (src/sort.c): all lines are read, sorted with one comparison made   *)
(* of keys and a last resort, and written; or sorted files are merged, or   *)
(* checked.  Texts have no NUL; of the numbers strtod knows, there are      *)
(* integers and NaN.                                                        *)
(***************************************************************************)
EXTENDS TextTool

CONSTANTS MaxKeys,    \* MAX_KEYS
          PoolCap     \* how many bytes the pool first holds

-----------------------------------------------------------------------------
(* main, parse_key: the options.  call = [given, sep, onto, files]; an option *)
(* is [o, key]; onto is the input that -o names too, or 0.                    *)
(* mem = [opts, keys, bad, lines, stale, last, n].                            *)

Nothing == [o |-> "", key |-> <<>>]
Modifiers == {"b", "d", "f", "g", "h", "i", "M", "n", "R", "r", "V"}
ParsedKey(opts, key) ==
  [from |-> key[1], chars |-> key[2], mods |-> (opts \cap (Modifiers \ {"r"})) \cup key[3], to |-> key[4], most |-> key[5]]

\* A key gets the options that stand in front of it, but not -r.
SetOption(s, given) ==
  CASE s.bad = 1        -> s
    [] given.o = "k"    -> IF Len(s.keys) = MaxKeys \/ given.key[1] < 1 THEN [s EXCEPT !.bad = 1]
                           ELSE [s EXCEPT !.keys = Append(@, ParsedKey(s.opts, given.key))]
    [] given.o = "C"    -> [s EXCEPT !.opts = @ \cup {"c", "C"}]
    [] given.o = "?"    -> [s EXCEPT !.bad = 1]
    [] OTHER            -> [s EXCEPT !.opts = @ \cup {given.o}]
Given == FoldLeft(SetOption, [opts |-> {}, keys |-> <<>>, bad |-> 0], call.given)
Opts == mem.opts
End == IF "z" \in Opts THEN Nul ELSE Nl

-----------------------------------------------------------------------------
(* get_field, extract_key *)

Starts(line) ==
  IF call.sep # 0 THEN {1} \cup {k + 1 : k \in {j \in 1..Len(line) : line[j] = call.sep}}
  ELSE {k \in 1..Len(line) : ~IsBlank(line[k]) /\ (k = 1 \/ IsBlank(line[k - 1]))}
Ends(c) == IF call.sep # 0 THEN c = call.sep ELSE IsBlank(c)

\* Where field n begins and how long it is; at the end of the line if there is none.
Field(line, n) ==
  LET starts == SetToSortSeq(Starts(line), <)
      at == IF n <= Len(starts) THEN starts[n] ELSE Len(line) + 1
      stops == {k \in at..Len(line) : Ends(line[k])} \cup {Len(line) + 1}
  IN [at |-> at, len |-> Min(stops) - at]

KeyText(k, line) ==
  LET start == Field(line, k.from)
      first == start.at + Min({start.len, Max({k.chars - 1, 0})})
      stop == Field(line, k.to)
      last == IF k.to = 0 THEN Len(line)
              ELSE stop.at - 1 + (IF k.most = 0 THEN stop.len ELSE Min({stop.len, k.most}))
  IN SubSeq(line, first, Min({last, Len(line)}))

-----------------------------------------------------------------------------
(* What the comparisons go by: a sequence of numbers for each key, which they *)
(* compare lexicographically.                                                 *)

SkipBlanks(s) == LET ink == {k \in 1..Len(s) : ~IsBlank(s[k])} IN IF ink = {} THEN <<>> ELSE From(s, Min(ink))
Starting(s, Test(_)) == SubSeq(s, 1, Min({k \in 0..Len(s) : k = Len(s) \/ ~Test(s[k + 1])}))

\* strtod; nothing for NaN, which is the same as every number.
Decimal(digits) == FoldLeft(LAMBDA n, c : 10 * n + c - 48, 0, digits)
Signed(sign, digits) == <<sign * Decimal(digits)>>
Minus == 45
Number(s) ==
  CASE MapSeq(ToLower, Take(s, 3)) = <<110, 97, 110>> -> <<>>
    [] s # <<>> /\ s[1] = Minus -> Signed(-1, Starting(From(s, 2), IsDigit))
    [] OTHER                    -> Signed(1, Starting(s, IsDigit))

\* parse_human: K and M, in powers of 1000.
Scale(s) ==
  LET behind == {k \in 2..Len(s) : IsDigit(s[k - 1]) /\ ~IsDigit(s[k])}
  IN CASE behind = {}                   -> 1
       [] ToUpper(s[Min(behind)]) = 75 -> 1000
       [] ToUpper(s[Min(behind)]) = 77 -> 1000000
       [] OTHER                         -> 1
HumanNumber(s) == MapSeq(LAMBDA n : n * Scale(s), Number(s))

Months == <<<<74, 65, 78>>, <<70, 69, 66>>, <<77, 65, 82>>, <<65, 80, 82>>, <<77, 65, 89>>, <<74, 85, 78>>,
            <<74, 85, 76>>, <<65, 85, 71>>, <<83, 69, 80>>, <<79, 67, 84>>, <<78, 79, 86>>, <<68, 69, 67>>>>
MonthIndex(name) == IF \E m \in 1..12 : Months[m] = name THEN CHOOSE m \in 1..12 : Months[m] = name ELSE 0

\* cmp_version: runs of digits and of letters, one after the other; digits come first.
Runs(s) ==
  FoldLeft(LAMBDA r, c :
             LET kind == IF IsDigit(c) THEN 1 ELSE IF IsAlpha(c) THEN 2 ELSE 0 IN
               CASE kind = 0      -> [r EXCEPT !.kind = 0]
                 [] kind = r.kind -> [r EXCEPT !.runs[Len(r.runs)].text = Append(@, ToUpper(c))]
                 [] OTHER         -> [kind |-> kind, runs |-> Append(r.runs, [kind |-> kind, text |-> <<ToUpper(c)>>])],
           [kind |-> 0, runs |-> <<>>], s).runs
Version(s) == FlattenSeq(MapSeq(LAMBDA r : <<r.kind>> \o IF r.kind = 1 THEN <<Decimal(r.text)>> ELSE Append(r.text, -1), Runs(s)))

\* cmp_string_key: what of a key counts.
Counting(mods, s) ==
  LET seen == CASE "d" \in mods -> SelectSeq(s, LAMBDA c : IsBlank(c) \/ IsDigit(c) \/ IsAlpha(c))
                [] "i" \in mods -> SelectSeq(s, LAMBDA c : c \in 32..126)
                [] OTHER        -> s
  IN IF "f" \in mods THEN MapSeq(ToLower, seen) ELSE seen

Kind(mods) == CASE "n" \in mods \/ "g" \in mods -> "n" [] "h" \in mods -> "h" [] "M" \in mods -> "M"
                [] "V" \in mods -> "V" [] "R" \in mods -> "R" [] OTHER -> "text"
Worth(kind, mods, s) ==
  CASE kind = "n" -> Number(s)
    [] kind = "h" -> HumanNumber(s)
    [] kind = "M" -> <<MonthIndex(MapSeq(ToUpper, Take(s, 3)))>>
    [] kind = "V" -> Version(s)
    [] kind = "R" -> s
    [] OTHER      -> Counting(mods, s)

WholeLine == [from |-> 1, chars |-> 0, mods |-> Opts \cap Modifiers, to |-> 0, most |-> 0]
Keys == IF mem.keys = <<>> THEN <<WholeLine>> ELSE mem.keys

\* A line, and what each of its keys is worth.
Blankless(key) == "b" \in key.mods \/ Kind(key.mods) \in {"n", "h", "M"}
KeyOf(key, text) == IF Blankless(key) THEN SkipBlanks(KeyText(key, text)) ELSE KeyText(key, text)
Line(text, orig) ==
  [text |-> text, orig |-> orig,
   worth |-> [k \in 1..Len(Keys) |-> Worth(Kind(Keys[k].mods), Keys[k].mods, KeyOf(Keys[k], text))]]

\* One key.  -R groups what is the same and else goes by odd and even line numbers.
ByKey(k, la, lb) ==
  LET a == la.worth[k] b == lb.worth[k] mods == Keys[k].mods
      order == CASE Kind(mods) \in {"n", "h"} /\ (a = <<>> \/ b = <<>>) -> 0
                 [] Kind(mods) = "R" -> IF a = b THEN 0 ELSE (la.orig % 2) - (lb.orig % 2)
                 [] OTHER -> Lex(a, b)
  IN IF "r" \in mods THEN 0 - order ELSE order

\* compare_lines.  -r reverses the last resort only if there are keys.
LastResort(la, lb) ==
  CASE "s" \in Opts -> Sign(la.orig - lb.orig)
    [] "r" \in Opts /\ mem.keys # <<>> -> 0 - Lex(la.text, lb.text)
    [] OTHER -> Lex(la.text, lb.text)
Compare(la, lb) ==
  LET decides == {k \in 1..Len(Keys) : ByKey(k, la, lb) # 0}
  IN IF decides = {} THEN LastResort(la, lb) ELSE ByKey(Min(decides), la, lb)

-----------------------------------------------------------------------------
(* main *)

Init ==
  /\ call \in Calls
  /\ inp = call.files /\ out = <<>>
  /\ mem = Given @@ [lines |-> <<>>, stale |-> 0, last |-> <<>>, n |-> 1]
  /\ pc = "main" /\ status = 0 /\ faults = Faults

First(text, k) == Line(Unended(Piece(text, End, Len(text)), End), k)

\* The output is opened, and emptied, in front of the input.  Merging opens all
\* files at once and ends when one is missing.
Main ==
  /\ pc = "main"
  /\ \/ (IF mem.bad = 1 THEN Works ELSE call.onto > 0 /\ Fails) /\ Exit(1) /\ UNCHANGED <<inp, mem>>
     \/ /\ mem.bad = 0 /\ Works
        /\ inp' = [k \in 1..Len(inp) |-> IF k = call.onto THEN <<>> ELSE inp[k]]
        /\ IF "m" \notin Opts \/ inp = <<>> THEN pc' = "read" /\ status' = status
           ELSE IF Missing \in Range(inp) THEN Exit(1)
           ELSE pc' = "merge" /\ status' = status
        /\ mem' = IF "m" \in Opts THEN [mem EXCEPT !.lines = [k \in 1..Len(inp) |-> First(inp'[k], k)]] ELSE mem
  /\ UNCHANGED <<call, out>>

\* Mutant: a last line without an end is not kept.
EndedLines(text) == LinesOf(SubSeq(text, 1, Max({0} \cup {k \in 1..Len(text) : text[k] = End})), End)

TextLines(text) == LinesOf(text, End)

\* pool_grow, add_line: the pool doubles when a line does not fit.  realloc may
\* move it; the lines that are there point to where they were.
Used(lines, n) == FoldLeft(LAMBDA sum, line : sum + Len(line.text) + 1, 0, Take(lines, n))
Doublings == 0..2    \* more than the texts of a run need
Grows(lines, n) == \E i \in Doublings : PoolCap * 2 ^ i \in Used(lines, n - 1)..Used(lines, n) - 1
Stale(old, lines) == {mem.stale} \cup {n - 1 : n \in {k \in Len(old) + 1..Len(lines) : Grows(lines, k)}}

\* read_lines; a file that cannot be opened is passed over.
Read ==
  /\ pc = "read" /\ inp # <<>>
  /\ \/ /\ Opens
        /\ LET texts == TextLines(Head(inp))
               lines == mem.lines \o [k \in 1..Len(texts) |-> Line(texts[k], Len(mem.lines) + k - 1)]
           IN \E n \in Stale(mem.lines, lines) : mem' = [mem EXCEPT !.lines = lines, !.stale = n]
     \/ CannotOpen /\ mem' = mem
  /\ NextFile /\ UNCHANGED <<call, out, pc, status>>

\* What the lines are found to hold: the freed pool is as it was, or filled by
\* free, or no longer mapped.
Poison == 205
Held ==
  {mem.lines,
   [k \in 1..Len(mem.lines) |->
      IF k <= mem.stale THEN Line([j \in 1..Len(mem.lines[k].text) |-> Poison], mem.lines[k].orig) ELSE mem.lines[k]]}
Crash ==
  /\ pc = "read" /\ inp = <<>> /\ mem.stale > 0
  /\ Exit(139) /\ UNCHANGED <<call, inp, out, mem, faults>>

\* qsort: some order of the lines that the comparison agrees with; any order,
\* if there is none.
Orders(s) == {[k \in 1..Len(s) |-> s[p[k]]] : p \in {q \in [1..Len(s) -> 1..Len(s)] : IsInjective(q)}}
Agreeing(s) == {t \in Orders(s) : \A j, k \in 1..Len(t) : j < k => Compare(t[j], t[k]) <= 0}
Sort ==
  /\ pc = "read" /\ inp = <<>> /\ "c" \notin Opts
  /\ \E lines \in Held : \E t \in (IF Agreeing(lines) = {} THEN Orders(lines) ELSE Agreeing(lines)) :
       mem' = [mem EXCEPT !.lines = t]
  /\ pc' = "write" /\ UNCHANGED <<call, inp, out, status, faults>>

\* check_sorted
Check ==
  /\ pc = "read" /\ inp = <<>> /\ "c" \in Opts
  /\ \E lines \in Held :
       Exit(IF \E k \in 2..Len(lines) :
                 LET order == Compare(lines[k - 1], lines[k]) IN order > 0 \/ ("u" \in Opts /\ order = 0)
            THEN 1 ELSE 0)
  /\ UNCHANGED <<call, inp, out, mem, faults>>

\* write_lines
Write ==
  /\ pc = "write"
  /\ IF mem.n > Len(mem.lines) THEN Exit(0) /\ UNCHANGED <<out, mem>>
     ELSE /\ out' = IF "u" \in Opts /\ mem.n > 1 /\ Compare(mem.lines[mem.n - 1], mem.lines[mem.n]) = 0
                      THEN out ELSE Append(out, mem.lines[mem.n].text)
          /\ mem' = [mem EXCEPT !.n = @ + 1] /\ UNCHANGED <<pc, status>>
  /\ UNCHANGED <<call, inp, faults>>

\* merge_files: the first of the least lines.  -u goes by the text here.
Least ==
  LET active == {k \in 1..Len(inp) : inp[k] # <<>>}
      beats(j, k) == LET c == Compare(mem.lines[j], mem.lines[k]) IN c < 0 \/ (c = 0 /\ j <= k)
  IN {k \in active : \A j \in active : beats(k, j)}
Merge ==
  /\ pc = "merge"
  /\ \/ /\ \A k \in 1..Len(inp) : inp[k] = <<>>
        /\ Exit(0) /\ UNCHANGED <<inp, out, mem>>
     \/ \E k \in 1..Len(inp) :
          /\ inp[k] # <<>> /\ (Least # {} => k \in Least)
          /\ inp' = [inp EXCEPT ![k] = From(@, Len(Piece(@, End, Len(@))) + 1)]
          /\ LET text == mem.lines[k].text repeated == "u" \in Opts /\ mem.last = <<text>> IN
               /\ out' = IF repeated THEN out ELSE Append(out, text)
               /\ mem' = [mem EXCEPT !.lines[k] = First(inp'[k], k), !.last = IF "u" \in Opts THEN <<text>> ELSE @]
          /\ UNCHANGED <<pc, status>>
  /\ UNCHANGED <<call, faults>>

Next == Main \/ Read \/ Crash \/ Sort \/ Check \/ Write \/ Merge

Spec == Init /\ [][Next]_vars

-----------------------------------------------------------------------------
(* Properties *)

TypeOK == TypesOK({"main", "read", "write", "merge", "exited"}) /\ mem.n \in 1..Len(mem.lines) + 1

Everything == FlattenSeq([k \in 1..Len(Readable(call.files)) |-> LinesOf(Readable(call.files)[k], End)])
Numbered == [k \in 1..Len(Everything) |-> Line(Everything[k], k)]
Consistent ==
  /\ "R" \notin Opts /\ \A k \in 1..Len(mem.keys) : "R" \notin mem.keys[k].mods
  /\ \A k \in 1..Len(Everything) : Number(SkipBlanks(Everything[k])) # <<>>

\* The comparison is a total order of the lines, whatever keys it is made of:
\* qsort and merging rely on it.
OrderTotal ==
  pc = "main" /\ mem.bad = 0 /\ Consistent =>
    LET lines == Range(Numbered)
    IN \A x, y \in lines :
         /\ Compare(x, y) = 0 - Compare(y, x)
         /\ \A z \in lines : Compare(x, y) <= 0 /\ Compare(y, z) <= 0 => Compare(x, z) <= 0

\* What sorting is: the lines in order, with -u without those repeated.
Sorted ==
  LET before(x, y) == LET c == Compare(x, y) IN c < 0 \/ (c = 0 /\ x.orig < y.orig)
      take(r, x) == IF "u" \in Opts /\ r # <<>> /\ Last(r) = x.text THEN r ELSE Append(r, x.text)
  IN FoldLeft(take, <<>>, SetToSortSeq(Range(Numbered), before))
InOrderAlready(text) ==
  LET lines == LinesOf(text, End)
  IN \A x, y \in {Line(lines[k], k) : k \in 1..Len(lines)} : y.orig = x.orig + 1 => Compare(x, y) <= 0
FilesInOrder == \A k \in 1..Len(call.files) : InOrderAlready(call.files[k])

\* Lines that all keys hold for equal.  With -u the code goes on to the last
\* resort, which parts those with different texts, and with -s all of them.
Equal(x, y) == \A k \in 1..Len(Keys) : ByKey(k, x, y) = 0
PartedEquals ==
  "u" \in Opts /\ \E x, y \in Range(Numbered) : x.orig < y.orig /\ Equal(x, y) /\ ("s" \in Opts \/ x.text # y.text)

\* sort writes every line, in order, and merging sorted files writes what sorting
\* them does; with -u equal lines once.  -c says whether sorting would change
\* anything.  With -u the inputs with equal lines that are parted are left to
\* FirstOfEqual.
Right ==
  pc = "exited" /\ mem.bad = 0 /\ faults = Faults /\ Consistent /\ call.onto = 0 /\ ~PartedEquals =>
    CASE "c" \in Opts /\ ("m" \notin Opts \/ call.files = <<>>) -> (status = 0) = (Everything = Sorted)
      [] "m" \in Opts /\ Missing \in Range(call.files) -> status = 1
      [] OTHER -> "m" \notin Opts \/ FilesInOrder => status = 0 /\ out = Sorted
SortRight == mem.stale = 0 => Right

\* sort.c:123-124, help: "-u, --unique [...] without -c: output only the first of
\* an equal run".  Violated: of lines that compare equal by -f or by a key, and
\* with -s of all, each comes out.  Files to be merged are in order.
FirstOfEqual ==
  pc = "exited" /\ mem.bad = 0 /\ mem.stale = 0 /\ faults = Faults /\ Consistent /\ "u" \in Opts /\ ("m" \in Opts => FilesInOrder) =>
    \A j, k \in 1..Len(out) : j < k => ~Equal(Line(out[j], j), Line(out[k], k))
=============================================================================
