--------------------------------- MODULE Ln ---------------------------------
(***************************************************************************)
(* ln (src/ln.c): for each target a link is made after what is in its way  *)
(* has been renamed (-b), removed (-f, -i) or found to be an error.        *)
(***************************************************************************)
EXTENDS FileTree

CONSTANTS Trees, Calls,   \* call: [given, args, tdir, env]; tdir of -t, <<>> without it
          Depth, Faults,
          MaxBackups      \* numbers of backups there are names for

VARIABLES fs, start, call, opts, jobs, i, pc, status, faults

vars == <<fs, start, call, opts, jobs, i, pc, status, faults>>
fixed == <<start, call, opts, jobs>>

Fails == faults > 0 /\ faults' = faults - 1
Works == faults' = faults

-----------------------------------------------------------------------------
(* main: options, and the list of links to make *)

BackupTypes == {"none", "numbered", "existing", "simple"}
SetOption(o, given) ==
  CASE given = "f" -> (o \cup {"f"}) \ {"i"}
    [] given = "i" -> (o \cup {"i"}) \ {"f"}
    [] given = "L" -> (o \cup {"L"}) \ {"P"}
    [] given = "P" -> (o \cup {"P"}) \ {"L"}
    [] given \in BackupTypes -> (o \ BackupTypes) \cup {"b", given}   \* --backup=CONTROL
    [] given = "S" -> o \cup {"S", "b"}
    [] OTHER       -> o \cup {given}
\* VERSION_CONTROL names the kind of backup, but does not ask for one.
Options(c) == FoldLeft(SetOption, {c.env}, c.given)

IsDirectory(o, p) == IF "n" \in o THEN Lstat(fs, p).kind = "dir" ELSE IsDir(fs, p)
Into(d, args) == [k \in 1..Len(args) |-> <<args[k], Append(d, Last(args[k]))>>]
Alone == << <<call.args[1], call.args[2]>> >>

\* The links to make as <<target, link_name>>, or <<>> for an error.
Links(o, c) ==
  LET n == Len(c.args) last == c.args[n] IN
    CASE n = 0 \/ (c.tdir # <<>> /\ "T" \in o) -> <<>>
      [] c.tdir # <<>> -> IF IsDirectory(o, c.tdir) THEN Into(c.tdir, c.args) ELSE <<>>
      [] "T" \in o     -> IF n = 2 THEN Alone ELSE <<>>
      [] n = 1         -> Into(<<>>, c.args)
      [] IsDirectory(o, last) -> Into(last, Front(c.args))
      [] OTHER         -> IF n = 2 THEN Alone ELSE <<>>

Init ==
  /\ fs \in Trees /\ start = fs
  /\ call \in Calls /\ opts = {} /\ jobs = <<>>
  /\ i = 1 /\ pc = "main" /\ status = 0 /\ faults = Faults

Main ==
  /\ pc = "main"
  /\ opts' = Options(call)
  /\ jobs' = Links(opts', call)
  /\ IF jobs' = <<>> THEN pc' = "exited" /\ status' = 1 ELSE pc' = "look" /\ status' = 0
  /\ UNCHANGED <<fs, start, call, i, faults>>

-----------------------------------------------------------------------------
(* do_link *)

Goal == jobs[i][1]
Name == jobs[i][2]

Return(ok) ==
  /\ status' = IF ok THEN status ELSE 1
  /\ IF i < Len(jobs) THEN i' = i + 1 /\ pc' = "look" ELSE i' = i /\ pc' = "exited"
Goes(to) == pc' = to /\ UNCHANGED <<i, status>>

Look ==
  /\ pc = "look"
  /\ CASE Lstat(fs, Name).kind = "none" -> Goes("link")
       [] Lstat(fs, Name).kind # "none" /\ "b" \in opts -> Goes("backup")
       [] Lstat(fs, Name).kind # "none" /\ "b" \notin opts ->
            IF opts \cap {"f", "i"} # {} THEN Goes("remove") ELSE Return(FALSE)
  /\ UNCHANGED <<fs, fixed, faults>>

\* backup_name: numbered when asked for, or when "existing" finds number 1.
\* "none" is a simple backup here.
Numbered(p, n) == Append(Front(p), Last(p) \o (<<".~1~", ".~2~", ".~3~">>)[n])

\* Mutant: the first number is taken even when it is in use.
FirstNumber(p) == 1

FreeNumber(p) == Min({n \in 1..MaxBackups : Lstat(fs, Numbered(p, n)).kind = "none"})
BackupName(p) ==
  IF "numbered" \in opts \/ ("existing" \in opts /\ Lstat(fs, Numbered(p, 1)).kind # "none")
    THEN Numbered(p, FreeNumber(p))
    ELSE Append(Front(p), Last(p) \o "~")

MakeBackup ==
  /\ pc = "backup"
  /\ LET bak == BackupName(Name) IN
       \/ CanRename(fs, Name, bak) /\ Works /\ fs' = Rename(fs, Name, bak) /\ Goes("link")
       \/ (IF CanRename(fs, Name, bak) THEN Fails ELSE Works) /\ fs' = fs /\ Return(FALSE)
  /\ UNCHANGED fixed

\* remove_existing, with remove(3): the answer to -i, unlink or rmdir.
RemoveExisting ==
  /\ pc = "remove"
  /\ LET can == CanUnlink(fs, Name) \/ CanRmdir(fs, Name) IN
       \/ "i" \in opts /\ Works /\ fs' = fs /\ Return(FALSE)
       \/ can /\ Works /\ fs' = Unlink(fs, Name) /\ Goes("link")
       \/ (IF can THEN Fails ELSE Works) /\ fs' = fs /\ Return(FALSE)
  /\ UNCHANGED fixed

\* A text with ".." read in a directory, as far as it leads.
Leads(dir, text) ==
  FoldLeft(LAMBDA p, n : IF n = ".." /\ p # <<>> /\ Last(p) # ".." THEN Front(p) ELSE Append(p, n), dir, text)

\* make_relative: up from the link's directory to what both have in common, and
\* down.  Real paths are below Cwd; a target that does not exist is not.
Cwd == <<"cwd">>
CommonLength(p, q) == Len(LongestCommonPrefix({p, q}))
Ups(n) == [k \in 1..n |-> ".."]
MakeRelative(target, name) ==
  LET t == IF Stat(fs, target).kind = "none" THEN target ELSE Cwd \o Real(fs, target)
      l == Cwd \o Real(fs, Front(name))
      common == CommonLength(t, l)
  IN Ups(Len(l) - common) \o SubSeq(t, common + 1, Len(t))

\* Where a symbolic link with this text leads to, from the working directory.
LinkText == IF "r" \in opts THEN MakeRelative(Goal, Name) ELSE Goal
SymlinkTo ==
  LET p == Leads(Cwd \o Real(fs, Front(Name)), LinkText)
  IN IF IsPrefix(Cwd, p) THEN SubSeq(p, 2, Len(p)) ELSE <<"..">> \o p
HardTarget == IF "L" \in opts /\ Stat(fs, Goal).kind # "none" THEN Real(fs, Goal) ELSE Goal

Link ==
  /\ pc = "link"
  /\ LET can == IF "s" \in opts THEN CanCreate(fs, Name, Depth) ELSE CanLink(fs, HardTarget, Name, Depth) IN
       \/ /\ can /\ Works /\ Return(TRUE)
          /\ fs' = IF "s" \in opts THEN Create(fs, Name, "link", SymlinkTo, 1) ELSE HardLink(fs, HardTarget, Name)
       \/ (IF can THEN Fails ELSE Works) /\ fs' = fs /\ Return(FALSE)
  /\ UNCHANGED fixed

Next == Main \/ Look \/ MakeBackup \/ RemoveExisting \/ Link

Spec == Init /\ [][Next]_vars

-----------------------------------------------------------------------------
(* Properties *)

TypeOK ==
  /\ IsTree(fs) /\ call \in Calls /\ i \in 1..Len(jobs) + 1 /\ status \in {0, 1} /\ faults \in 0..Faults
  /\ pc \in {"main", "look", "backup", "remove", "link", "exited"}

\* The links have different names, and none is the target of another.
Separate ==
  /\ \A j, k \in 1..Len(jobs) : j # k => RealName(start, jobs[j][2]) # RealName(start, jobs[k][2])
  /\ \A j, k \in 1..Len(jobs) :
       ~Below(Real(start, jobs[j][1]), RealName(start, jobs[k][2])) /\ ~Below(RealName(start, jobs[j][1]), RealName(start, jobs[k][2]))

\* Exit status 0 means that every link is there: a hard link is the target, and
\* with -r the symbolic link leads to the target from wherever it is.
ZeroMeansDone ==
  pc = "exited" /\ status = 0 /\ Separate =>
    \A k \in 1..Len(jobs) :
      LET t == jobs[k][1] new == Lstat(fs, jobs[k][2]) IN
        IF "s" \notin opts THEN new.ino = (IF "L" \in opts THEN Stat(start, t) ELSE Lstat(start, t)).ino
        ELSE /\ new.kind = "link"
             /\ "r" \in opts /\ Stat(start, t).kind # "none" => Stat(fs, jobs[k][2]).ino = Stat(start, t).ino

\* With -b nothing is lost: whatever had a name of ours has some name still.
SourcesKept ==
  {"b", "numbered"} \subseteq opts =>
    \A p \in DOMAIN start : \E q \in DOMAIN fs : fs[q].ino = start[p].ino

\* ln changes nothing but the names of its links, and their backups.
OthersKept ==
  \A p \in DOMAIN start :
    \/ NamedAt(fs, p) = start[p]
    \/ \E k \in 1..Len(jobs) : Below(p, RealName(start, jobs[k][2]))
    \/ "b" \in opts
=============================================================================
