-------------------------------- MODULE Chmod --------------------------------
(***************************************************************************)
(* chmod (src/chmod.c): a mode is made of the MODE argument and, if it has *)
(* letters, of the first file's mode; every file gets it.  The mode of a   *)
(* file is a set of bits here.                                             *)
(***************************************************************************)
EXTENDS FileTree

\* call = [given, bits, mode, files]: options; the bits of a number or of the
\* reference file, or the letters: a sequence of components [who, op, perm] with
\* an op that is "" when it is wrong.
CONSTANTS Trees, Calls, Depth, Faults,
          Umask

VARIABLES fs, start, call, i, pc,
          mode,      \* opts.mode
          cur,       \* path of change_mode_recursive
          stack,     \* locals of the change_mode_recursives: [path, left]
          status, faults

vars == <<fs, start, call, i, pc, mode, cur, stack, status, faults>>

Fails == faults > 0 /\ faults' = faults - 1
Works == faults' = faults

-----------------------------------------------------------------------------
(* The bits: read, write and execute of user, group and others, set-id and sticky *)

Rwx == {"r", "w", "x"}
Of(class) == {class} \X Rwx
SetId(class) == <<class, "s">>
Sticky == <<"o", "t">>
AllBits == Of("u") \cup Of("g") \cup Of("o") \cup {SetId("u"), SetId("g"), Sticky}
Executable(m) == \E b \in m : b[2] = "x"

\* who_mask: "o" alone is without the sticky bit.
WhoBits(who) ==
  UNION {CASE c = "a" -> AllBits [] c = "o" -> Of("o") [] OTHER -> Of(c) \cup {SetId(c)} : c \in Range(SubSeq(who, 1, Min({3, Len(who)})))}
When(condition, set) == IF condition THEN set ELSE {}
\* u, g and o do not copy the bits of that class: they only look if there are any.
PermBits(letter, who, m) ==
  CASE letter \in Rwx -> {b \in who : b[2] = letter}
    [] letter = "X"   -> When(Executable(m), {b \in who : b[2] = "x"})
    [] letter = "s"   -> {SetId(c) : c \in {d \in {"u", "g"} : who \cap Of(d) # {}}}
    [] letter = "t"   -> When(who \cap Of("o") # {}, {Sticky})
    [] OTHER -> When(m \cap Of(letter) # {}, who \cap Of(letter)) \cup When(SetId(letter) \in m, who \cap {SetId(letter)})

\* Mutant: = only adds.
ClearsNothing(who) == {}

Cleared(who) == who

\* parse_symbolic_component keeps three letters of each kind; then
\* apply_symbolic_operation.
Applied(m, s) ==
  LET who == WhoBits(IF s.who = <<>> THEN <<"a">> ELSE s.who)
      perm == UNION {PermBits(l, who, m) : l \in Range(SubSeq(s.perm, 1, Min({3, Len(s.perm)})))}
  IN CASE s.op = "+" -> m \cup perm
       [] s.op = "-" -> m \ perm
       [] s.op = "=" -> (m \ Cleared(who)) \cup perm

-----------------------------------------------------------------------------

Init ==
  /\ fs \in Trees /\ start = fs
  /\ call \in Calls
  /\ i = 1 /\ pc = "main" /\ mode = {} /\ cur = <<>> /\ stack = <<>>
  /\ status = 0 /\ faults = Faults

Symbolic == "reference" \notin call.given /\ "octal" \notin call.given
Recursive == "R" \in call.given
Exit(st) == pc' = "exited" /\ status' = st
Wrong == call.files = <<>> \/ "?" \in call.given \/ (Symbolic /\ \E k \in 1..Len(call.mode) : call.mode[k].op = "")
Protects == "preserve" \in call.given /\ "nopreserve" \notin call.given /\ \E f \in Range(call.files) : Real(fs, f) = <<>> 

\* The mode the letters start from: that of the first file, for all of them.
ModeBefore(f) == IF Stat(fs, f).ino = 0 THEN AllBits \ ({SetId("u"), SetId("g"), Sticky} \cup Umask) ELSE Stat(fs, f).mode

\* Mutant: each component starts from the mode of the file.
LastOnly(m, cs) == IF cs = <<>> THEN m ELSE Applied(m, Last(cs))

AllApplied(m, cs) == FoldLeft(Applied, m, cs)

Main ==
  /\ pc = "main"
  /\ \/ (Wrong \/ Protects) /\ Exit(1) /\ UNCHANGED mode
     \/ /\ ~Wrong /\ ~Protects
        /\ mode' = IF Symbolic THEN AllApplied(ModeBefore(call.files[1]), call.mode) ELSE call.bits
        /\ pc' = "file" /\ UNCHANGED status
  /\ UNCHANGED <<fs, start, call, i, cur, stack, faults>>

TakeFile ==
  /\ pc = "file"
  /\ IF i > Len(call.files) THEN pc' = "exited" /\ UNCHANGED <<i, cur>>
     ELSE pc' = "change" /\ cur' = call.files[i] /\ i' = i + 1
  /\ UNCHANGED <<fs, start, call, mode, stack, status, faults>>

\* What comes after change_mode.
After == pc' = IF Recursive /\ IsDir(fs, cur) THEN "opendir" ELSE IF stack = <<>> THEN "file" ELSE "readdir"

\* change_mode: links are followed, on the command line and below it.
Change ==
  /\ pc = "change" /\ Stat(fs, cur).ino # 0 /\ Works
  /\ fs' = Chmod(fs, cur, mode)
  /\ After
  /\ UNCHANGED <<start, call, i, mode, cur, stack, status>>

CannotChange ==
  /\ pc = "change"
  /\ IF Stat(fs, cur).ino = 0 THEN Works ELSE Fails
  /\ status' = 1 /\ After
  /\ UNCHANGED <<fs, start, call, i, mode, cur, stack>>

OpenDir ==
  /\ pc = "opendir"
  /\ \/ /\ Works /\ pc' = "readdir" /\ UNCHANGED status
        /\ stack' = Append(stack, [path |-> cur, left |-> Entries(fs, Real(fs, cur))])
     \/ Fails /\ status' = 1 /\ pc' = (IF stack = <<>> THEN "file" ELSE "readdir") /\ UNCHANGED stack
  /\ UNCHANGED <<fs, start, call, i, mode, cur>>

ReadDir ==
  /\ pc = "readdir"
  /\ LET f == Last(stack) IN
       \/ \E n \in f.left :
            /\ cur' = Append(f.path, n) /\ pc' = "change"
            /\ stack' = Append(Front(stack), [f EXCEPT !.left = @ \ {n}])
       \/ f.left = {} /\ stack' = Front(stack) /\ pc' = (IF Len(stack) = 1 THEN "file" ELSE "readdir") /\ UNCHANGED cur
  /\ UNCHANGED <<fs, start, call, i, mode, status, faults>>

Next == Main \/ TakeFile \/ Change \/ CannotChange \/ OpenDir \/ ReadDir

Spec == Init /\ [][Next]_vars

-----------------------------------------------------------------------------
(* Properties *)

TypeOK ==
  /\ IsTree(fs) /\ DOMAIN fs = DOMAIN start /\ mode \subseteq AllBits /\ status \in {0, 1} /\ faults \in 0..Faults
  /\ pc \in {"main", "file", "change", "opendir", "readdir", "exited"} /\ i \in 1..Len(call.files) + 1 /\ Len(stack) <= Depth
  /\ \A p \in DOMAIN fs : fs[p].mode \subseteq AllBits

\* What a component of MODE says of one bit of a file.
Addressed(b, s) == s.who = <<>> \/ \E k \in 1..Len(s.who) : s.who[k] \in {b[1], "a"}
NamedBit(b, s, m) == \E k \in 1..Len(s.perm) : s.perm[k] = b[2] \/ (s.perm[k] = "X" /\ b[2] = "x" /\ Executable(m))
Says(b, s, m) ==
  IF ~Addressed(b, s) THEN b \in m
  ELSE CASE s.op = "+" -> b \in m \/ NamedBit(b, s, m)
         [] s.op = "-" -> b \in m /\ ~NamedBit(b, s, m)
         [] s.op = "=" -> NamedBit(b, s, m)
\* Up to three letters of each kind, none that copies, and no sticky bit for o.
Usual(s) == Len(s.who) <= 3 /\ Len(s.perm) <= 3 /\ Range(s.perm) \cap {"u", "g", "o"} = {} /\ "o" \notin Range(s.who)
Meaning(m) ==
  IF ~Symbolic THEN call.bits
  ELSE FoldLeft(LAMBDA x, s : {b \in AllBits : Says(b, s, x)}, m, call.mode)

\* What chmod reaches from its arguments.
RECURSIVE Reached(_, _)
Reached(p, n) ==
  {Stat(start, p).ino} \cup
    (IF Recursive /\ n > 0 /\ IsDir(start, p)
       THEN UNION {Reached(Append(p, e), n - 1) : e \in Entries(start, Real(start, p))} ELSE {})
AllReached == UNION {Reached(f, Depth) : f \in Range(call.files)} \ {0}

Done == pc = "exited" /\ status = 0 /\ (Symbolic => \A k \in 1..Len(call.mode) : Usual(call.mode[k]))
LikeFirst(p) == start[p].mode = Stat(start, call.files[1]).mode

\* Exit status 0 means that all files that were named, and with -R those below
\* them, have the mode MODE says of them: as a number, or letter by letter of the
\* mode they had, each component after the one before.  For letters this is so of
\* the files that began with the mode of the first one; see EachFileItsMode.
ZeroMeansDone ==
  Done => \A p \in DOMAIN fs :
            fs[p].ino \in AllReached /\ (Symbolic => LikeFirst(p)) => fs[p].mode = Meaning(start[p].mode)

\* chmod.c:59, help: "Change the mode of each FILE to MODE"; chmod.c:541-542: "For
\* symbolic mode, we need a dummy file to get current mode.  We'll process each
\* file individually".  Violated: the letters are applied once, to the first
\* file's mode, and all files get the result.
EachFileItsMode ==
  Done => \A p \in DOMAIN fs : fs[p].ino \in AllReached => fs[p].mode = Meaning(start[p].mode)

\* No other file is changed, and nothing but the mode.
OthersKept ==
  \A p \in DOMAIN start :
    fs[p] = start[p] \/ (start[p].ino \in AllReached /\ fs[p] = [start[p] EXCEPT !.mode = mode])
=============================================================================
