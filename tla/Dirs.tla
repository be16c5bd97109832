-------------------------------- MODULE Dirs --------------------------------
(***************************************************************************)
(* mkdir (src/mkdir.c) and rmdir (src/rmdir.c), with -p or without: both   *)
(* take one path after the other, and with -p one prefix after the other.  *)
(***************************************************************************)
EXTENDS FileTree

CONSTANTS Trees, Calls,   \* call: [given, paths]; "rmdir" is given when rmdir runs
          Depth, Faults

\* What is known of the constants: paths are sequences of names.
Assumptions ==
  /\ \A t \in Trees : IsTree(t)
  /\ \A c \in Calls : c.paths \in Seq(Seq(STRING))

VARIABLES fs, start, call, opts, i, pc,
          todo,    \* prefixes of the path that are still to be made or removed
          status, faults

vars == <<fs, start, call, opts, i, pc, todo, status, faults>>
fixed == <<start, call>>

Fails == faults > 0 /\ faults' = faults - 1
Works == faults' = faults
Rmdirs == "rmdir" \in opts

SetOption(o, given) ==
  CASE given = "--parents" -> o \cup {"p"}
    [] given = "--mode"    -> o \cup {"m"}
    [] OTHER               -> o \cup {given}

Init ==
  /\ fs \in Trees /\ start = fs
  /\ call \in Calls /\ opts = {}
  /\ i = 1 /\ pc = "parse" /\ todo = <<>> /\ status = 0 /\ faults = Faults

-----------------------------------------------------------------------------

\* "." is its only beginning.
PathsTo(p) == IF p = <<>> THEN <<p>> ELSE [k \in 1..Len(p) |-> SubSeq(p, 1, k)]

\* remove_with_parents.  dirname cuts current_path itself, so a path with a
\* slash looks as if it were at its root at once; and the list is removed from
\* its end, where "." is for a path without one.
RemovalOrder(p) == IF Len(p) = 1 THEN << <<>>, p >> ELSE <<p>>

Steps(p) ==
  CASE "p" \notin opts -> <<p>>
    [] Rmdirs          -> RemovalOrder(p)
    [] OTHER           -> PathsTo(p)

Main ==
  /\ pc = "parse"
  /\ opts' = FoldLeft(SetOption, {}, call.given)
  /\ IF call.paths = <<>> THEN pc' = "exited" /\ status' = 1 ELSE pc' = "path" /\ status' = 0
  /\ UNCHANGED <<fs, fixed, i, todo, faults>>

TakePath ==
  /\ pc = "path"
  /\ todo' = Steps(call.paths[i])
  /\ pc' = IF Rmdirs THEN "rmdir" ELSE "mkdir"
  /\ UNCHANGED <<fs, fixed, opts, i, status, faults>>

\* Mutant: the result of the last path that failed is the status.
DoneWith(ret) ==
  /\ todo' = <<>>
  /\ status' = IF ret = 0 THEN status ELSE ret
  /\ IF i < Len(call.paths) THEN i' = i + 1 /\ pc' = "path" ELSE i' = i /\ pc' = "exited"

\* The path is done: with ret 0, or at its first failure.
Done(ret) ==
  /\ todo' = <<>>
  /\ status' = IF ret = 0 THEN status ELSE 1
  /\ IF i < Len(call.paths) THEN i' = i + 1 /\ pc' = "path" ELSE i' = i /\ pc' = "exited"
GoesOn == IF Len(todo) = 1 THEN Done(0) ELSE todo' = Tail(todo) /\ UNCHANGED <<i, pc, status>>

\* Without -m the umask applies, with -m it is 0.
NewMode == IF "m" \in opts THEN 2 ELSE Masked(2)

\* Mutant: whatever exists is good enough.
AnythingThere(p) == RealName(fs, p) \in DOMAIN fs

\* EEXIST is no failure with -p, but for something that is not a directory.
\* What a dangling link leads to is not asked.
MayBeThere(p) ==
  /\ RealName(fs, p) \in DOMAIN fs
  /\ Stat(fs, p).kind \in {"dir", "none"}

Mkdir ==
  /\ pc = "mkdir"
  /\ LET p == Head(todo) IN
       \/ CanCreate(fs, p, Depth) /\ Works /\ fs' = Create(fs, p, "dir", <<>>, NewMode) /\ GoesOn
       \/ /\ (IF CanCreate(fs, p, Depth) THEN Fails ELSE Works) /\ fs' = fs
          /\ IF "p" \in opts /\ MayBeThere(p) THEN GoesOn ELSE Done(-1)
  /\ UNCHANGED <<fixed, opts>>

\* "." cannot be removed.  --ignore-fail-on-non-empty spares the message only.
RemoveOne ==
  /\ pc = "rmdir"
  /\ LET p == Head(todo) can == p # <<>> /\ CanRmdir(fs, p) IN
       \/ can /\ Works /\ fs' = Rmdir(fs, p) /\ GoesOn
       \/ (IF can THEN Fails ELSE Works) /\ fs' = fs /\ Done(-1)
  /\ UNCHANGED <<fixed, opts>>

Next == Main \/ TakePath \/ Mkdir \/ RemoveOne

Spec == Init /\ [][Next]_vars

-----------------------------------------------------------------------------
(* Properties *)

TypeOK ==
  /\ IsTree(fs) /\ call \in Calls /\ i \in 1..Len(call.paths) + 1
  /\ pc \in {"parse", "path", "mkdir", "rmdir", "exited"} /\ status \in {0, 1} /\ faults \in 0..Faults

Dangling(p) == Lstat(start, p).kind = "link" /\ Stat(start, p).kind = "none"
Paths == {call.paths[k] : k \in 1..Len(call.paths)}

\* Exit status 0 means that the directories are there, or that they are gone,
\* unless a path names a link that leads nowhere.  For the ancestors that rmdir -p
\* is to remove as well, see AncestorsGone.
ZeroMeansDone ==
  pc = "exited" /\ status = 0 =>
    \A p \in Paths :
      IF Rmdirs THEN Lstat(fs, p).kind = "none"
      ELSE IsDir(fs, p) \/ ("p" \in opts /\ \E q \in 1..Len(p) : Dangling(SubSeq(p, 1, q)))

\* rmdir.c:23-24, help: "-p, --parents  remove DIRECTORY and its ancestors; e.g.,
\* 'rmdir -p a/b' is similar to 'rmdir a/b a'".  Violated: dirname cuts the path
\* in place, so that only DIRECTORY is removed and the status is 0.
AncestorsGone ==
  pc = "exited" /\ status = 0 /\ Rmdirs /\ "p" \in opts =>
    \A p \in Paths : \A q \in Range(PathsTo(p)) : Lstat(fs, q).kind = "none"

\* mkdir removes and alters nothing; rmdir removes empty directories it was
\* given, and makes nothing.
OthersKept ==
  \A p \in DOMAIN start \cup DOMAIN fs :
    \/ NamedAt(fs, p) = NamedAt(start, p)
    \/ ~Rmdirs /\ p \notin DOMAIN start /\ fs[p].kind = "dir"
    \/ Rmdirs /\ p \notin DOMAIN fs /\ start[p].kind = "dir" /\ \E q \in Paths : RealName(start, q) = p
=============================================================================
