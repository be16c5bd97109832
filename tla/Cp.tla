--------------------------------- MODULE Cp ---------------------------------
(***************************************************************************)
(* cp (src/cp.c): sources are copied to a destination or into a directory. *)
(* copy_entry and copy_dir call each other; a frame of the stack is a      *)
(* copy_dir that is reading its directory.  Any call may fail, as long as  *)
(* faults are left.                                                        *)
(***************************************************************************)
EXTENDS FileTree

CONSTANTS Trees,       \* what there may be at the start
          Calls,       \* arguments: [given, srcs, dest], given are the options in their order
          Depth,       \* longest path
          Faults,      \* how many calls fail without a reason in the tree
          Device(_)    \* path -> file system

VARIABLES fs,      \* the tree
          start,   \* the tree at the start (not in the code)
          call, opts,
          into,    \* dst_is_dir
          i,       \* the source that is copied
          pc,
          cur,     \* locals of copy_entry: [src, dst, st, was]; was is dst_st
          stack,   \* locals of the copy_dirs: [src, dst, st, dir, seen, due, ret]
          status,
          faults   \* calls that may still fail

vars == <<fs, start, call, opts, into, i, pc, cur, stack, status, faults>>
fixed == <<start, call, opts>>

-----------------------------------------------------------------------------
(* parse_args: the later of two options that exclude each other wins, but *)
(* --interactive and --no-clobber do not look at each other.              *)

SetOption(o, given) ==
  CASE given \in {"a", "--archive"} -> o \cup {"p", "r", "P"}
    [] given = "d"                -> o \cup {"P", "p"}
    [] given = "i"                -> (o \cup {"i"}) \ {"n"}
    [] given = "n"                -> (o \cup {"n"}) \ {"i"}
    [] given \in {"L", "--dereference"} -> (o \cup {"L"}) \ {"P"}
    [] given \in {"P", "--no-dereference"} -> (o \cup {"P"}) \ {"L"}
    [] given = "--interactive"    -> o \cup {"i"}
    [] given = "--no-clobber"     -> o \cup {"n"}
    [] OTHER                      -> o \cup {given}
ParseArgs(given) == FoldLeft(SetOption, {}, given)

Idle == [src |-> <<>>, dst |-> <<>>, st |-> Missing, was |-> Missing]

Init ==
  /\ fs \in Trees /\ start = fs
  /\ call \in Calls /\ opts = {}
  /\ into = 0 /\ i = 1 /\ pc = "parse" /\ cur = Idle /\ stack = <<>> /\ status = 0
  /\ faults = Faults

\* A call fails for a reason outside the tree: permissions, a full disk, ...
Fails == faults > 0 /\ faults' = faults - 1
Works == faults' = faults

-----------------------------------------------------------------------------
(* main *)

Source == call.srcs[i]
Target == IF into = 1 /\ "T" \notin opts THEN Append(call.dest, Last(Source)) ELSE call.dest

Parse ==
  /\ pc = "parse"
  /\ opts' = ParseArgs(call.given)
  /\ pc' = "main"
  /\ UNCHANGED <<fs, start, call, into, i, cur, stack, status, faults>>

Main ==
  /\ pc = "main"
  /\ into' = IF IsDir(fs, call.dest) THEN 1 ELSE 0
  /\ IF Len(call.srcs) > 1 /\ into' = 0
       THEN pc' = "exited" /\ status' = 1
       ELSE pc' = "source" /\ status' = status
  /\ UNCHANGED <<fs, fixed, i, cur, stack, faults>>

\* copy_entry returns: to main, which takes the next source or exits, or to the
\* copy_dir that called it.
ReturnTo(frames, ret) ==
  IF frames = <<>>
    THEN /\ stack' = <<>>
         /\ status' = IF ret = 0 THEN status ELSE 1
         /\ IF i < Len(call.srcs) THEN i' = i + 1 /\ pc' = "source" ELSE i' = i /\ pc' = "exited"
    ELSE /\ stack' = Append(Front(frames), [Last(frames) EXCEPT !.ret = IF ret = 0 THEN @ ELSE -1])
         /\ pc' = "readdir"
         /\ UNCHANGED <<i, status>>
Return(ret) == ReturnTo(stack, ret)

Goes(to) == pc' = to /\ UNCHANGED <<i, stack, status>>

TakeSource ==
  /\ pc = "source"
  /\ cur' = [Idle EXCEPT !.src = Source, !.dst = Target]
  /\ Goes(CASE "l" \in opts -> "hardlink" [] "s" \in opts -> "symlink" [] OTHER -> "entry")
  /\ UNCHANGED <<fs, fixed, into, faults>>

\* Mutant: a file is never found to be copied to itself.
NeverSame(a, b) == a.ino = 0 /\ b.ino = 1

SameFile(a, b) == a.ino = b.ino /\ a.ino # 0

\* -l and -s: what is in the way is removed, unless -n; then the link is made.
ClearTheWay ==
  /\ pc \in {"hardlink", "symlink"}
  /\ LET was == Lstat(fs, cur.dst) IN
       IF was.kind = "none" \/ (pc = "hardlink" /\ SameFile(Stat(fs, cur.src), was))
         THEN Works /\ fs' = fs /\ Goes(IF pc = "hardlink" THEN "ln" ELSE "lns")
       ELSE IF "n" \in opts THEN Works /\ fs' = fs /\ Return(0)
       ELSE /\ Goes(IF pc = "hardlink" THEN "ln" ELSE "lns")
            /\ \/ CanUnlink(fs, cur.dst) /\ Works /\ fs' = Unlink(fs, cur.dst)
               \/ ~CanUnlink(fs, cur.dst) /\ Works /\ fs' = fs
               \/ Fails /\ fs' = fs
  /\ UNCHANGED <<fixed, into, cur>>

MakeLink ==
  /\ pc \in {"ln", "lns"}
  /\ LET can == IF pc = "ln" THEN CanLink(fs, cur.src, cur.dst, Depth) ELSE CanCreate(fs, cur.dst, Depth)
         to == IF Stat(fs, cur.src).kind = "none" THEN cur.src ELSE Real(fs, cur.src)
     IN \/ /\ can /\ Works
           /\ fs' = IF pc = "ln" THEN HardLink(fs, cur.src, cur.dst)
                    ELSE Create(fs, cur.dst, "link", to, 1)
           /\ Return(0)
        \/ (IF can THEN Fails ELSE Works) /\ fs' = fs /\ Return(1)
  /\ UNCHANGED <<fixed, into, cur>>

-----------------------------------------------------------------------------
(* copy_entry *)

\* Mutant: a link is always followed.
FollowAlways(p) == Stat(fs, p)

SourceStat(p) == IF "P" \in opts /\ "L" \notin opts THEN Lstat(fs, p) ELSE Stat(fs, p)

\* -u: the destination is as new as the source.
UpToDate(st, was) == "u" \in opts /\ st.time <= was.time

\* stat, lstat, and what the options say of a destination that exists.
Look ==
  /\ pc = "entry"
  /\ LET st == SourceStat(cur.src)
         was == Lstat(fs, cur.dst)
     IN /\ cur' = [cur EXCEPT !.st = st, !.was = was]
        /\ CASE st.kind = "none" -> Return(-1)
             [] st.kind # "none" /\ "x" \in opts /\ Device(Real(fs, cur.src)) # Device(call.srcs[1]) -> Return(0)
             [] OTHER ->
                  IF was.kind = "none" THEN Goes(st.kind)
                  ELSE IF SameFile(st, was) THEN Return(-1)
                  ELSE IF "n" \in opts \/ UpToDate(st, was) THEN Return(0)
                  ELSE \/ "i" \in opts /\ "f" \notin opts /\ Return(0)
                       \/ Goes(IF "b" \in opts THEN "backup" ELSE st.kind)
  /\ UNCHANGED <<fs, fixed, into, faults>>

BackupName(p) == Append(Front(p), Last(p) \o "~")

\* A backup that fails is only warned about.
MakeBackup ==
  /\ pc = "backup"
  /\ LET bak == BackupName(cur.dst) IN
       \/ CanRename(fs, cur.dst, bak) /\ Works /\ fs' = Rename(fs, cur.dst, bak)
       \/ ~CanRename(fs, cur.dst, bak) /\ Works /\ fs' = fs
       \/ Fails /\ fs' = fs
  /\ Goes(cur.st.kind)
  /\ UNCHANGED <<fixed, into, cur>>

\* A link or a special file: what was there must be unlinked first.  With -b
\* nothing is there any more, and that is an error.
ReplaceSpecial ==
  /\ pc \in {"link", "fifo"} /\ cur.st.kind = pc
  /\ LET can == CanUnlink(fs, cur.dst)
         needed == cur.st.kind = "fifo" \/ cur.was.kind # "dir"
     IN IF cur.was.kind = "none" THEN Works /\ fs' = fs /\ Goes("special")
        ELSE \/ can /\ Works /\ fs' = Unlink(fs, cur.dst) /\ Goes("special")
             \/ /\ (IF can THEN Fails ELSE Works) /\ fs' = fs
                /\ IF needed THEN Return(-1) ELSE Goes("special")
  /\ UNCHANGED <<fixed, into, cur>>

MakeSpecial ==
  /\ pc = "special"
  /\ LET can == CanCreate(fs, cur.dst, Depth) IN
       \/ /\ can /\ Works
          /\ fs' = Create(fs, cur.dst, cur.st.kind, cur.st.of, Masked(cur.st.mode))
          /\ Goes("preserve")
       \/ (IF can THEN Fails ELSE Works) /\ fs' = fs /\ Return(-1)
  /\ UNCHANGED <<fixed, into, cur>>

\* A regular file: the destination is opened through links and truncated; with
\* -f it is removed when that fails, and opened again.
Open ==
  /\ pc = "file"
  /\ LET source == Stat(fs, cur.src).kind # "none"
         can == CanTruncate(fs, cur.dst, Depth)
     IN \/ source /\ can /\ Works /\ fs' = Truncate(fs, cur.dst, cur.st.mode) /\ Goes("data")
        \/ /\ source /\ (IF can THEN Fails ELSE Works) /\ fs' = fs
           /\ IF cur.was.kind # "none" /\ "f" \in opts THEN Goes("force") ELSE Return(-1)
        \/ (IF source THEN Fails ELSE Works) /\ fs' = fs /\ Return(-1)
  /\ UNCHANGED <<fixed, into, cur>>

Force ==
  /\ pc = "force"
  /\ LET gone == IF CanUnlink(fs, cur.dst) THEN Unlink(fs, cur.dst) ELSE fs IN
       \/ /\ CanTruncate(gone, cur.dst, Depth) /\ Works
          /\ fs' = Truncate(gone, cur.dst, cur.st.mode) /\ Goes("data")
       \/ /\ IF CanTruncate(gone, cur.dst, Depth) THEN Fails ELSE Works
          /\ fs' = gone /\ Return(-1)
  /\ UNCHANGED <<fixed, into, cur>>

DropPart(tree, p) == IF CanUnlink(tree, p) THEN Unlink(tree, p) ELSE tree

\* copy_data reads what the source holds now.  A copy that fails is removed.
CopyData ==
  /\ pc = "data"
  /\ \/ Works /\ fs' = Written(fs, cur.dst, Stat(fs, cur.src).of) /\ Goes("preserve")
     \/ Fails /\ fs' = DropPart(fs, cur.dst) /\ Return(-1)
  /\ UNCHANGED <<fixed, into, cur>>

\* preserve_mode and preserve_timestamps, after everything that tells: what chmod
\* and lutimes return is not looked at.
Preserved(tree, st, dst, done) ==
  LET moded == IF "mode" \in done /\ st.kind # "link" THEN Chmod(tree, dst, st.mode) ELSE tree
  IN IF "time" \in done THEN Utime(moded, dst, st.time) ELSE moded
PreserveAll(st, dst) ==
  \E failed \in SUBSET {"mode", "time"} :
    /\ Cardinality(failed) <= faults /\ faults' = faults - Cardinality(failed)
    /\ fs' = Preserved(fs, st, dst, {"mode", "time"} \ failed)

Preserve ==
  /\ pc = "preserve"
  /\ IF "p" \in opts THEN PreserveAll(cur.st, cur.dst) ELSE Works /\ fs' = fs
  /\ Return(0)
  /\ UNCHANGED <<fixed, into, cur>>

-----------------------------------------------------------------------------
(* copy_dir *)

Frame == [src |-> cur.src, dst |-> cur.dst, st |-> cur.st, dir |-> Real(fs, cur.src),
          seen |-> {}, due |-> Entries(fs, Real(fs, cur.src)), ret |-> 0]

\* lstat, mkdir.  A link to a directory is not a directory here.
EnterDir ==
  /\ pc = "dir"
  /\ LET there == Lstat(fs, cur.dst).kind
         can == CanCreate(fs, cur.dst, Depth)
     IN IF "r" \notin opts \/ there \notin {"none", "dir"} THEN Works /\ fs' = fs /\ Return(-1)
        ELSE IF there = "dir" THEN Works /\ fs' = fs /\ Goes("opendir")
        ELSE \/ can /\ Works /\ fs' = Create(fs, cur.dst, "dir", <<>>, Masked(cur.st.mode)) /\ Goes("opendir")
             \/ (IF can THEN Fails ELSE Works) /\ fs' = fs /\ Return(-1)
  /\ UNCHANGED <<fixed, into, cur>>

OpenDir ==
  /\ pc = "opendir"
  /\ \/ IsDir(fs, cur.src) /\ Works /\ stack' = Append(stack, Frame) /\ pc' = "readdir" /\ UNCHANGED <<i, status>>
     \/ (IF IsDir(fs, cur.src) THEN Fails ELSE Works) /\ Return(-1)
  /\ UNCHANGED <<fs, fixed, into, cur>>

\* readdir returns in any order every name that has been there all the time,
\* and may return one that was made meanwhile.
ReadDir ==
  /\ pc = "readdir"
  /\ LET f == Last(stack) IN
       \E n \in Entries(fs, f.dir) \ f.seen :
         /\ stack' = Append(Front(stack), [f EXCEPT !.seen = @ \cup {n}])
         /\ cur' = [Idle EXCEPT !.src = Append(f.src, n), !.dst = Append(f.dst, n)]
  /\ pc' = "entry"
  /\ UNCHANGED <<fs, fixed, into, i, status, faults>>

\* The directory gets its mode at the end, if that works, and copy_dir returns.
LeaveDir ==
  /\ pc = "readdir"
  /\ LET f == Last(stack) IN
       /\ f.due \cap Entries(fs, f.dir) \subseteq f.seen
       /\ IF "p" \in opts THEN PreserveAll(f.st, f.dst)
          ELSE (Works /\ fs' = Chmod(fs, f.dst, f.st.mode)) \/ (Fails /\ fs' = fs)
       /\ ReturnTo(Front(stack), f.ret)
  /\ UNCHANGED <<fixed, into, cur>>

Next ==
  \/ Parse \/ Main \/ TakeSource \/ ClearTheWay \/ MakeLink \/ Look \/ MakeBackup
  \/ ReplaceSpecial \/ MakeSpecial \/ Open \/ Force \/ CopyData \/ Preserve
  \/ EnterDir \/ OpenDir \/ ReadDir \/ LeaveDir

Spec == Init /\ [][Next]_vars

-----------------------------------------------------------------------------
(* Properties *)

TargetOf(k) == RealName(start, IF into = 1 /\ "T" \notin opts THEN Append(call.dest, Last(call.srcs[k])) ELSE call.dest)
Ours(p) == \E k \in 1..Len(call.srcs) : Below(p, TargetOf(k)) \/ Below(p, BackupName(TargetOf(k)))
\* The names that are to be copied, and the name each is copied to.
Copies ==
  UNION {LET s == RealName(start, call.srcs[k])
         IN {<<p, TargetOf(k) \o SubSeq(p, Len(s) + 1, Len(p))>> : p \in {x \in DOMAIN start : Below(x, s)}} :
           k \in 1..Len(call.srcs)}
\* No link leads out of the destination, and a source is in it as itself at most.
NoLinkOut == \A p \in DOMAIN start : Ours(p) => start[p].kind # "link"
Aligned == \A c \in Copies, q \in DOMAIN start : Ours(q) /\ start[q].ino = start[c[1]].ino => q = c[2]

TypeOK ==
  /\ IsTree(fs) /\ call \in Calls /\ into \in {0, 1} /\ i \in 1..Len(call.srcs)
  /\ status \in {0, 1} /\ faults \in 0..Faults /\ Len(stack) < Depth
  /\ cur.st.kind \in Kinds \cup {"none"} /\ \A k \in 1..Len(stack) : stack[k].seen \subseteq STRING

\* What a source should have become.
Wanted(p) == IF "P" \in opts /\ "L" \notin opts THEN start[p] ELSE Stat(start, p)
Same(new, old) == new.kind = old.kind /\ new.of = old.of
AttributesOf(new, old) == (new.mode = old.mode \/ new.kind = "link") /\ (new.kind = "dir" \/ new.time = old.time)
Whole == opts \cap {"n", "u", "i", "x", "l", "s"} = {} /\ \A j, k \in 1..Len(call.srcs) : TargetOf(j) = TargetOf(k) => j = k

Done == pc = "exited" /\ status = 0 /\ Whole /\ Aligned /\ NoLinkOut

\* Exit status 0 means that every name below every source is there again, with
\* its content, and with -p its mode and time if no call has failed.
ZeroMeansDone ==
  Done => \A c \in Copies :
            /\ Same(NamedAt(fs, c[2]), Wanted(c[1]))
            /\ "p" \in opts /\ faults = Faults => AttributesOf(NamedAt(fs, c[2]), Wanted(c[1]))

\* cp.c:433, help: "-p  same as --preserve=mode,ownership,timestamps"; cp.c:434:
\* "preserve the specified attributes".  Violated: a chmod or lutimes that fails
\* is passed over in silence, and the status is 0.
AttributesKept == Done /\ "p" \in opts => \A c \in Copies : AttributesOf(NamedAt(fs, c[2]), Wanted(c[1]))

\* No content that cp is given is lost, whatever fails, and not either when the
\* destination is another name of the source.
SourcesKept ==
  Aligned /\ NoLinkOut =>
    \A c \in Copies : start[c[1]].kind = "file" =>
      \E q \in DOMAIN fs : fs[q].ino = start[c[1]].ino /\ fs[q].of = start[c[1]].of

\* cp changes nothing but its destinations, their hard links and their backups.
OthersKept ==
  NoLinkOut => \A p \in DOMAIN start :
    \/ NamedAt(fs, p) = start[p]
    \/ \E q \in DOMAIN start : Ours(q) /\ start[q].ino = start[p].ino
=============================================================================
