------------------------------- MODULE Install -------------------------------
(***************************************************************************)
(* install (src/install.c): a source is copied to a temporary file next to *)
(* its destination, which is then renamed over it, and gets its mode, its  *)
(* owner and its times after that.                                         *)
(***************************************************************************)
EXTENDS FileTree

CONSTANTS Trees, Calls,   \* call: [given, args, tdir, env, mode]
          Depth, Faults, MaxBackups

VARIABLES fs, start, call, opts,
          jobs,    \* the files still to install, <<source, destination>>
          todo,    \* directories still to make, -d's and -D's
          pc, status, faults

vars == <<fs, start, call, opts, jobs, todo, pc, status, faults>>
fixed == <<start, call, opts>>

Fails == faults > 0 /\ faults' = faults - 1
Works == faults' = faults

-----------------------------------------------------------------------------
(* main *)

\* -b is --backup=existing; VERSION_CONTROL asks for backups by itself.
BackupTypes == {"none", "numbered", "existing", "simple"}
SetOption(o, given) ==
  CASE given = "b"             -> (o \ BackupTypes) \cup {"existing"}
    [] given \in BackupTypes   -> (o \ BackupTypes) \cup {given}
    [] given = "--debug"       -> o \cup {"v"}
    [] OTHER                   -> o \cup {given}
Options(c) == FoldLeft(SetOption, c.env, c.given)

\* A file that mkstemp makes is private; directories and files have 0755.
Private == 3
Default == 4
Mode(o) == IF "m" \in o THEN call.mode ELSE Default

Into(d, args) == [k \in 1..Len(args) |-> <<args[k], Append(d, Last(args[k]))>>]
PathsTo(p) == [k \in 1..Len(p) |-> SubSeq(p, 1, k)]

\* The three forms that install files: what to make with -D, and the files.  No
\* files is an error that is found before anything is done.
Plan(o, c) ==
  LET n == Len(c.args)
      last == c.args[n]
      dirs(p) == IF "D" \in o THEN PathsTo(p) ELSE <<>>
  IN CASE n = 0 -> [dirs |-> <<>>, files |-> <<>>]
       [] c.tdir # <<>> ->
            [dirs |-> dirs(c.tdir), files |-> IF IsDir(fs, c.tdir) \/ "D" \in o THEN Into(c.tdir, c.args) ELSE <<>>]
       [] c.tdir = <<>> /\ (n < 2 \/ ("T" \in o /\ n # 2)) -> [dirs |-> <<>>, files |-> <<>>]
       [] "T" \in o \/ (n = 2 /\ ~IsDir(fs, last)) -> [dirs |-> dirs(Front(last)), files |-> <<c.args>>]
       [] OTHER -> [dirs |-> IF IsDir(fs, last) THEN <<>> ELSE dirs(last),
                    files |-> IF IsDir(fs, last) \/ "D" \in o THEN Into(last, Front(c.args)) ELSE <<>>]

Init ==
  /\ fs \in Trees /\ start = fs
  /\ call \in Calls /\ opts = {} /\ jobs = <<>> /\ todo = <<>>
  /\ pc = "main" /\ status = 0 /\ faults = Faults

Exit(s) == pc' = "exited" /\ status' = s
Goes(to) == pc' = to /\ UNCHANGED <<jobs, status>>

Main ==
  /\ pc = "main"
  /\ opts' = Options(call)
  /\ IF "d" \in opts'
       THEN /\ jobs' = [k \in 1..Len(call.args) |-> <<<<>>, call.args[k]>>]
            /\ todo' = IF call.args = <<>> THEN <<>> ELSE PathsTo(call.args[1])
            /\ IF call.args = <<>> THEN Exit(1) ELSE pc' = "mkdir" /\ status' = 0
       ELSE LET plan == Plan(opts', call) IN
            /\ jobs' = plan.files /\ todo' = plan.dirs
            /\ IF plan.files = <<>> THEN Exit(1) ELSE pc' = "mkdir" /\ status' = 0
  /\ UNCHANGED <<fs, start, call, faults>>

\* One file or, with -d, one directory is done.
Return(ret) ==
  /\ jobs' = Tail(jobs)
  /\ IF Len(jobs) = 1 THEN Exit(IF ret = 0 THEN status ELSE 1)
     ELSE /\ pc' = IF "d" \in opts THEN "mkdir" ELSE "file"
          /\ status' = IF ret = 0 THEN status ELSE 1

-----------------------------------------------------------------------------
(* make_dir_parents, and what -d does to the last directory *)

\* EEXIST is fine, whatever it is that exists.
Mkdir ==
  /\ pc = "mkdir" /\ todo # <<>>
  /\ LET p == Head(todo)
         can == CanCreate(fs, p, Depth)
         mode == IF "m" \in opts THEN Masked(call.mode) ELSE Default
     IN \/ can /\ Works /\ fs' = Create(fs, p, "dir", <<>>, mode) /\ todo' = Tail(todo) /\ status' = status
        \/ /\ (IF can THEN Fails ELSE Works) /\ fs' = fs
           /\ IF ~can /\ RealName(fs, p) \in DOMAIN fs
                THEN todo' = Tail(todo) /\ status' = status
                ELSE todo' = <<>> /\ status' = IF "d" \in opts THEN 1 ELSE status
  /\ UNCHANGED <<fixed, jobs, pc>>

\* All directories are made; with -d the leaf is given away and gets its mode: if
\* chmod fails, nobody is told.  With -t, what -D made must be a directory now.
DirsMade ==
  /\ pc = "mkdir" /\ todo = <<>>
  /\ IF "d" \in opts
       THEN LET p == jobs[1][2] IN
            /\ LET moded == Chmod(fs, p, IF "m" \in opts THEN call.mode ELSE Default)
                   chown == "o" \notin opts \/ Stat(fs, p).kind # "none"
               IN \/ chown /\ Works /\ Return(0) /\ fs' = moded
                  \/ "o" \in opts /\ (IF chown THEN Fails ELSE Works) /\ Return(-1) /\ fs' = moded
                  \/ chown /\ Fails /\ Return(0) /\ fs' = fs
            /\ todo' = IF Len(jobs) = 1 THEN <<>> ELSE PathsTo(jobs[2][2])
       ELSE /\ IF call.tdir # <<>> /\ ~IsDir(fs, call.tdir) THEN Exit(1) /\ jobs' = jobs ELSE Goes("file")
            /\ Works /\ UNCHANGED <<fs, todo>>
  /\ UNCHANGED fixed

-----------------------------------------------------------------------------
(* install_file *)

Source == jobs[1][1]
Dest == jobs[1][2]
Temp == Append(Front(Dest), "install.tmp")

\* files_identical: mode and content (all files have one owner here).
Identical ==
  /\ Stat(fs, Source).kind = "file" /\ Stat(fs, Dest).kind = "file"
  /\ Stat(fs, Dest).mode = Mode(opts) /\ Stat(fs, Source).of = Stat(fs, Dest).of /\ "o" \notin opts

LookAtFile ==
  /\ pc = "file"
  /\ CASE Stat(fs, Source).kind \in {"none", "dir"} -> Return(-1)
       [] Stat(fs, Source).kind \notin {"none", "dir"} ->
            IF "C" \in opts /\ Identical THEN Return(0)
            ELSE IF opts \cap (BackupTypes \ {"none"}) # {} /\ Stat(fs, Dest).kind # "none" THEN Goes("backup")
            ELSE Goes("temp")
  /\ UNCHANGED <<fs, fixed, todo, faults>>

\* backup_path: the first free number, or the plain suffix.
Numbered(p, n) == Append(Front(p), Last(p) \o (<<".~1~", ".~2~", ".~3~">>)[n])
FreeNumber(p) == Min({n \in 1..MaxBackups : Stat(fs, Numbered(p, n)).kind = "none"})
BackupPath(p) ==
  IF "numbered" \in opts \/ ("existing" \in opts /\ Stat(fs, Numbered(p, 1)).kind # "none")
    THEN Numbered(p, FreeNumber(p))
    ELSE Append(Front(p), Last(p) \o "~")

MakeBackup ==
  /\ pc = "backup"
  /\ LET bak == BackupPath(Dest) IN
       \/ CanRename(fs, Dest, bak) /\ Works /\ fs' = Rename(fs, Dest, bak) /\ Goes("temp")
       \/ (IF CanRename(fs, Dest, bak) THEN Fails ELSE Works) /\ fs' = fs /\ Return(-1)
  /\ UNCHANGED <<fixed, todo>>

\* copy_file opens the source and makes a temporary file ...
MakeTemp ==
  /\ pc = "temp"
  /\ LET can == CanCreate(fs, Temp, Depth) /\ Stat(fs, Source).kind # "none" IN
       \/ can /\ Works /\ fs' = Create(fs, Temp, "file", <<>>, Private) /\ Goes("copy")
       \/ (IF can THEN Fails ELSE Works) /\ fs' = fs /\ Return(-1)
  /\ UNCHANGED <<fixed, todo>>

\* Mutant: the temporary file is left when the copy fails.
LeaveTemp == fs

DropTemp == Unlink(fs, Temp)

\* ... fills it, in several steps ...
CopyData ==
  /\ pc = "copy"
  /\ \/ Works /\ fs' = Written(fs, Temp, Stat(fs, Source).of) /\ Goes("rename")
     \/ Fails /\ fs' = DropTemp /\ Return(-1)
  /\ UNCHANGED <<fixed, todo>>

\* Mutant: the temporary file is copied over the destination, which is emptied first.
CopyOver(p, q) == IF CanTruncate(fs, q, Depth) THEN Truncate(fs, q, Private) ELSE fs

MoveOver(p, q) == Rename(fs, p, q)

\* ... and gives it the destination's name.
RenameTemp ==
  /\ pc = "rename"
  /\ LET can == CanRename(fs, Temp, Dest) IN
       \/ can /\ Works /\ fs' = MoveOver(Temp, Dest) /\ Goes("strip")
       \/ (IF can THEN Fails ELSE Works) /\ fs' = DropTemp /\ Return(-1)
  /\ UNCHANGED <<fixed, todo>>

\* strip is a program of its own; it may fail.
Strip ==
  /\ pc = "strip"
  /\ \/ Works /\ fs' = (IF "s" \in opts THEN Written(fs, Dest, <<"stripped">> \o Stat(fs, Dest).of) ELSE fs) /\ Goes("chmod")
     \/ "s" \in opts /\ Fails /\ fs' = fs /\ Return(-1)
  /\ UNCHANGED <<fixed, todo>>

\* chmod, chown and utime; each can fail, and then the file stays as it is.
SetAttributes ==
  /\ pc = "chmod"
  /\ LET moded == Chmod(fs, Dest, Mode(opts))
         timed == IF "p" \in opts THEN Utime(moded, Dest, Stat(fs, Source).time) ELSE moded
     IN \/ Works /\ fs' = timed /\ Return(0)
        \/ Fails /\ fs' \in {fs} \cup (IF opts \cap {"o", "p"} = {} THEN {} ELSE {moded}) /\ Return(-1)
  /\ UNCHANGED <<fixed, todo>>

Next ==
  \/ Main \/ Mkdir \/ DirsMade \/ LookAtFile \/ MakeBackup \/ MakeTemp \/ CopyData \/ RenameTemp
  \/ Strip \/ SetAttributes

Spec == Init /\ [][Next]_vars

-----------------------------------------------------------------------------
(* Properties *)

TypeOK ==
  /\ IsTree(fs) /\ call \in Calls /\ status \in {0, 1} /\ faults \in 0..Faults
  /\ pc \in {"main", "mkdir", "file", "backup", "temp", "copy", "rename", "strip", "chmod", "exited"}

Files == IF "d" \in opts THEN <<>> ELSE Plan(opts, [call EXCEPT !.given = <<>>]).files
Wanted(t, j) ==
  /\ t.kind = "file" /\ t.mode = Mode(opts)
  /\ t.of = (IF "s" \in opts THEN <<"stripped">> ELSE <<>>) \o Stat(start, j[1]).of
  /\ "p" \in opts => t.time = Stat(start, j[1]).time

\* Exit status 0 means that every file, or every directory, is there as asked.
ZeroMeansDone ==
  pc = "exited" /\ status = 0 =>
    IF "d" \in opts THEN \A k \in 1..Len(call.args) : Lstat(start, call.args[k]).kind = "none" => IsDir(fs, call.args[k])
    ELSE \A k \in 1..Len(Files) :
      \/ \E j \in 1..Len(Files) : j # k /\ Files[j][2] = Files[k][2]
      \/ \E j \in 1..Len(Files) : Real(start, Files[j][1]) = RealName(start, Files[k][2])
      \/ Wanted(Stat(fs, Files[k][2]), Files[k])

\* Whoever looks at a destination that was a file, at any time, finds a file with
\* all of the old or all of the new content; only -b leaves it without a name for
\* a while, and what it had is under another then.
NeverHalf ==
  \A p \in DOMAIN start :
    start[p].kind = "file" =>
      \/ NamedAt(fs, p).of = start[p].of
      \/ \E q \in DOMAIN start : start[q].kind = "file" /\ NamedAt(fs, p).of \in {start[q].of, <<"stripped">> \o start[q].of}
      \/ opts \cap (BackupTypes \ {"none"}) # {} /\ \E q \in DOMAIN fs : fs[q].of = start[p].of

\* The temporary file is there only while install works on it.
NoTempLeft ==
  (\E p \in DOMAIN fs : p # <<>> /\ Last(p) = "install.tmp") => pc \in {"copy", "rename"}
=============================================================================
