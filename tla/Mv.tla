--------------------------------- MODULE Mv ---------------------------------
(***************************************************************************)
(* mv (src/mv.c): every source is renamed, or copied to another file       *)
(* system and then removed, after the checks that its options ask for.     *)
(* The checks look at the destination first and the rename comes later;    *)
(* another process may create files in between.                            *)
(***************************************************************************)
EXTENDS Integers, Sequences

CONSTANTS Paths,       \* the names that are used
          Mounts,      \* functions path -> the file system it is on
          Base,        \* path -> its last component
          Join(_, _),  \* a directory and a last component -> a path
          Backup,      \* path -> the name of its backup (create_backup_name)
          Trees,       \* what there may be at the start
          Calls,       \* arguments: [srcs, dest], dest is DEST or DIRECTORY
          Options,     \* sets of options
          Others       \* files that other processes create meanwhile

\* No file; a file or directory is [kind, of, whole, time]: whose content it
\* has, and whether all of it is there.  "full" is a directory with entries.
None == [kind |-> "none", of |-> "", whole |-> 0, time |-> 0]
Content == Paths \cup {"", "other"}
Node == [kind : {"none", "file", "dir", "full"}, of : Content, whole : {0, 1}, time : {0, 1, 2}]

Assumptions ==
  /\ Paths \cap {"", "other"} = {}
  /\ Backup \in [Paths -> Paths]
  /\ \A c \in Calls : c.srcs \in Seq(Paths) /\ c.srcs # <<>> /\ c.dest \in Paths
  /\ \A c \in Calls : \A n \in 1..Len(c.srcs) :
       LET p == Join(c.dest, Base[c.srcs[n]]) IN p \in Paths /\ Base[p] = Base[c.srcs[n]]
  /\ \A t \in Trees : /\ t \in [Paths -> Node]
                      /\ \A p \in Paths : t[p] = None \/ (t[p].kind # "none" /\ t[p].of = p /\ t[p].whole = 1)
  /\ Options \subseteq SUBSET {"f", "i", "n", "b", "u", "T"}
  /\ \A o \in Options : /\ ~({"f", "i"} \subseteq o)
                        /\ "n" \in o => o \cap {"f", "i", "b"} = {}
  /\ Others \in Nat

\* No backup has the name of a source or of a destination: mv does not look.
Destinations(c) == {c.dest} \cup {Join(c.dest, Base[c.srcs[n]]) : n \in 1..Len(c.srcs)}
BackupsApart ==
  \A c \in Calls : \A p \in Destinations(c) :
    Backup[p] \notin Destinations(c) \cup {c.srcs[n] : n \in 1..Len(c.srcs)}

VARIABLES
  tree,    \* path -> what is there
  device,  \* path -> the file system it is on
  call,    \* the arguments
  opts,    \* the options
  into,    \* 1: the destination was a directory at the start
  i,       \* the source that is moved
  moved,   \* success: how many calls of move_item have returned 0
  pc,      \* where move_item is
  there,   \* dest_exists
  errno,   \* what the last failed call has left in errno
  status,  \* exit status, once pc = "exited"
  others,  \* files that others have still to create
  hurt     \* what went wrong so far: "read", "write", "remove", "made" (not in the code)

vars == <<tree, device, call, opts, into, i, moved, pc, there, errno, status, others, hurt>>
callVars == <<device, call, opts, into, others>>

Is(p, kinds) == tree[p].kind \in kinds
Dirs == {"dir", "full"}

Init ==
  /\ tree \in Trees /\ device \in Mounts
  /\ call \in Calls /\ opts \in Options
  /\ into = 0
  /\ i = 1 /\ moved = 0
  /\ pc = "start"
  /\ there = 0 /\ errno = "none" /\ status = 0
  /\ others = Others
  /\ hurt = {}

Source == call.srcs[i]

\* Where the n-th source goes.
Target(n) == IF into = 1 THEN Join(call.dest, Base[call.srcs[n]]) ELSE call.dest
Dest == Target(i)

Exit(s) == pc' = "exited" /\ status' = s

-----------------------------------------------------------------------------
(* main and move_multiple *)

\* The last argument is a directory to move into, and must be when there are
\* several sources.
Start ==
  /\ pc = "start"
  /\ into' = IF Is(call.dest, Dirs) /\ "T" \notin opts THEN 1 ELSE 0
  /\ IF Len(call.srcs) > 1 /\ into' = 0
       THEN Exit(1)
       ELSE pc' = "look" /\ status' = status
  /\ UNCHANGED <<tree, device, call, opts, others, i, moved, there, errno, hurt>>

\* Mutant: one source that could be moved is enough.
SomeMoved(n) == n > 0

AllMoved(n) == n = Len(call.srcs)

ExitStatus(n) == IF AllMoved(n) THEN 0 ELSE 255

\* move_item returns: the next source, or the end.
Returns(r) ==
  /\ moved' = IF r = 0 THEN moved + 1 ELSE moved
  /\ IF i < Len(call.srcs)
       THEN i' = i + 1 /\ pc' = "look" /\ status' = status
       ELSE i' = i /\ Exit(ExitStatus(moved'))

Goes(to) == pc' = to /\ UNCHANGED <<i, moved, status>>

-----------------------------------------------------------------------------
(* move_item *)

\* Skipping is a success: an older source with -u.
TooOld == "u" \in opts /\ tree[Source].time <= tree[Dest].time

\* stat of both, and -u.
Look ==
  /\ pc = "look"
  /\ there' = IF Is(Dest, {"none"}) THEN 0 ELSE 1
  /\ errno' = IF Is(Dest, {"none"}) \/ Is(Source, {"none"}) THEN "ENOENT" ELSE errno
  /\ IF Is(Source, {"none"}) THEN Returns(-1)
     ELSE IF there' = 1 /\ (Dest = Source \/ TooOld) THEN Returns(0)
     ELSE Goes(IF there' = 0 THEN "rename" ELSE IF "b" \in opts THEN "backup" ELSE "ask")
  /\ UNCHANGED <<tree, callVars, hurt>>

\* Whether rename would replace what is there.
Replaceable(from, to) ==
  \/ Is(to, {"none"})
  \/ Is(from, {"file"}) /\ Is(to, {"file"})
  \/ Is(from, Dirs) /\ Is(to, {"dir"})

Renamed(from, to) == [tree EXCEPT ![to] = tree[from], ![from] = None]

\* The backup takes the name it is given, whatever has it.
MakeBackup ==
  /\ pc = "backup"
  /\ \/ /\ Replaceable(Dest, Backup[Dest]) /\ ~Is(Dest, {"none"})
        /\ tree' = Renamed(Dest, Backup[Dest])
        /\ Goes("rename")
     \/ Exit(1) /\ UNCHANGED <<tree, i, moved>>
  /\ UNCHANGED <<callVars, there, errno, hurt>>

\* Mutant: the destination is removed with or without -f.
ClearedFirst == "clear"

AfterAsk == IF "f" \in opts THEN "clear" ELSE "rename"

\* -n, the answer to -i, and -f.
Ask ==
  /\ pc = "ask"
  /\ IF "n" \in opts THEN Returns(0)
     ELSE \/ "i" \in opts /\ Returns(0)
          \/ Goes(AfterAsk)
  /\ UNCHANGED <<tree, callVars, there, errno, hurt>>

\* remove_source(dest): rmdir or unlink; a failure ends mv.
Clear ==
  /\ pc = "clear"
  /\ \/ /\ Is(Dest, {"file", "dir"})
        /\ tree' = [tree EXCEPT ![Dest] = None]
        /\ Goes("rename")
     \/ Exit(1) /\ UNCHANGED <<tree, i, moved>>
  /\ UNCHANGED <<callVars, there, errno, hurt>>

\* With -b, rename is not called, and errno is what it was.
Rename ==
  /\ pc = "rename"
  /\ IF "b" \in opts
       THEN Goes("failed") /\ UNCHANGED <<tree, errno>>
       ELSE \/ /\ device[Source] = device[Dest] /\ Replaceable(Source, Dest)
               /\ tree' = Renamed(Source, Dest)
               /\ Returns(0) /\ errno' = errno
            \/ /\ Goes("failed") /\ tree' = tree
               /\ errno' = IF device[Source] # device[Dest] THEN "EXDEV" ELSE "other"
  /\ UNCHANGED <<callVars, there, hurt>>

Failed ==
  /\ pc = "failed"
  /\ IF errno = "EXDEV" /\ Is(Source, {"file"}) THEN Goes("open") ELSE Returns(-1)
  /\ UNCHANGED <<tree, callVars, there, errno, hurt>>

Begun(node) == [node EXCEPT !.whole = 0]

\* open(dest, O_CREAT | O_TRUNC): what was there is gone.
Open ==
  /\ pc = "open"
  /\ \/ /\ Is(Source, {"file"}) /\ Is(Dest, {"none", "file"})
        /\ tree' = [tree EXCEPT ![Dest] = Begun(tree[Source])]
        /\ Goes("copy")
     \/ Returns(-1) /\ tree' = tree
  /\ UNCHANGED <<callVars, there, errno, hurt>>

\* Mutant: a copy that fails is taken for one that is complete.
AnyCopy == "remove"

WriteFailed == "nocopy"

\* The loop ends at the end of the source, or when read fails: both are taken
\* for success.  A failing write ends it too.
Copy ==
  /\ pc = "copy"
  /\ \/ tree' = [tree EXCEPT ![Dest] = tree[Source]] /\ hurt' = hurt /\ Goes("remove")
     \/ tree' = tree /\ hurt' = hurt \cup {"read"} /\ Goes("remove")
     \/ tree' = tree /\ hurt' = hurt \cup {"write"} /\ Goes(WriteFailed)
  /\ UNCHANGED <<callVars, there, errno>>

CopyFailed ==
  /\ pc = "nocopy"
  /\ Returns(-1)
  /\ UNCHANGED <<tree, callVars, there, errno, hurt>>

Remove ==
  /\ pc = "remove"
  /\ \/ /\ ~Is(Source, {"none"})
        /\ tree' = [tree EXCEPT ![Source] = None]
        /\ Returns(0) /\ hurt' = hurt
     \/ tree' = tree /\ hurt' = hurt \cup {"remove"} /\ Returns(-1)
  /\ UNCHANGED <<callVars, there, errno>>

-----------------------------------------------------------------------------

Foreign == [kind |-> "file", of |-> "other", whole |-> 1, time |-> 2]

\* Another process creates a file where there is none.
SomeoneCreates ==
  /\ pc # "exited" /\ others > 0
  /\ \E p \in Paths :
       /\ Is(p, {"none"})
       /\ tree' = [tree EXCEPT ![p] = Foreign]
  /\ others' = others - 1
  /\ hurt' = hurt \cup {"made"}
  /\ UNCHANGED <<device, call, opts, into, i, moved, pc, there, errno, status>>

Mover ==
  \/ Start \/ Look \/ MakeBackup \/ Ask \/ Clear \/ Rename \/ Failed
  \/ Open \/ Copy \/ CopyFailed \/ Remove

Next == Mover \/ SomeoneCreates

Spec == Init /\ [][Next]_vars

-----------------------------------------------------------------------------
(* Properties *)

TypeOK ==
  /\ tree \in [Paths -> Node] /\ device \in Mounts
  /\ call \in Calls /\ opts \in Options /\ into \in {0, 1}
  /\ i \in 1..Len(call.srcs) /\ moved \in 0..i
  /\ pc \in {"start", "look", "backup", "ask", "clear", "rename", "failed", "open",
             "copy", "nocopy", "remove", "exited"}
  /\ there \in {0, 1} /\ errno \in {"none", "ENOENT", "EXDEV", "other"}
  /\ status \in {0, 1, 255} /\ others \in 0..Others
  /\ hurt \subseteq {"read", "write", "remove", "made"}

Holds(p, s) == tree[p].of = s /\ tree[p].whole = 1
OneEach == \A j, k \in 1..Len(call.srcs) : Base[call.srcs[j]] = Base[call.srcs[k]] => j = k

\* Whatever fails and wherever mv stops, the content of every source it was
\* given is whole under some name: a copy is finished before its source goes.
NothingLost ==
  [][OneEach /\ "read" \notin hurt' =>
       \A j \in 1..Len(call.srcs) :
         (\E p \in Paths : Holds(p, call.srcs[j])) => \E p \in Paths : Holds(p, call.srcs[j])']_vars

\* On one file system and without -f, what is replaced is replaced in one step:
\* no other process ever finds the destination missing or half written.
ReplacedAtOnce ==
  [][\A p \in Paths :
       tree[p].whole = 1 /\ tree'[p].whole = 0 =>
         \/ p \in {call.srcs[j] : j \in 1..Len(call.srcs)}
         \/ opts \cap {"f", "b"} # {}
         \/ \E q \in Paths : device[q] # device[p]]_vars

Arrived(j) == Holds(Target(j), call.srcs[j])
Quietly == opts \cap {"n", "i", "u"} = {}

\* mv exits with 0 only when every source is where it should be, unless an
\* option let it skip one.
ZeroMeansMoved ==
  pc = "exited" /\ status = 0 /\ OneEach /\ Quietly /\ hurt = {} =>
    \A j \in 1..Len(call.srcs) : Arrived(j)

\* mv.c: "Copy successful, remove source".  A failing read looks like success.
RemovedAfterCopy == [][pc = "remove" /\ tree'[Source] # tree[Source] => Holds(Dest, Source)]_vars
=============================================================================
