------------------------------ MODULE FileTree ------------------------------
(***************************************************************************)
(* What the kernel promises the tools about files: a tree is a function    *)
(* from the paths that exist to what is there.  A path is a sequence of    *)
(* names, read from the directory the tool runs in, which is <<>>.         *)
(* Everything here stands for system calls and none of it is in src/.      *)
(***************************************************************************)
EXTENDS Integers, SequencesExt

\* What a path names: [ino, kind, of, mode, time].  "of" is the content of a
\* file or, as a path, the target of a link.  Names with the same ino are hard
\* links.  A mode of 2 has bits that the umask takes away.
Missing == [ino |-> 0, kind |-> "none", of |-> <<>>, mode |-> 0, time |-> 0]
Kinds == {"file", "dir", "link", "fifo"}
IsTree(fs) ==
  /\ <<>> \in DOMAIN fs /\ fs[<<>>].kind = "dir" /\ DOMAIN fs \subseteq Seq(STRING)
  /\ \A p \in DOMAIN fs :
       /\ DOMAIN fs[p] = DOMAIN Missing /\ fs[p].kind \in Kinds /\ fs[p].ino > 0
       /\ p # <<>> => Front(p) \in DOMAIN fs /\ fs[Front(p)].kind = "dir"
       /\ fs[p].kind = "link" => fs[p].of \in Seq(STRING)

NamedAt(fs, p) == IF p \in DOMAIN fs THEN fs[p] ELSE Missing

-----------------------------------------------------------------------------
(* Looking *)

\* The places of p that are links, the first of them replaced by its target,
\* and where p leads when all of them are followed.
LinksIn(fs, p) == {k \in 1..Len(p) : NamedAt(fs, SubSeq(p, 1, k)).kind = "link"}
OneLink(fs, p) ==
  IF LinksIn(fs, p) = {} THEN p
  ELSE LET k == Min(LinksIn(fs, p)) IN fs[SubSeq(p, 1, k)].of \o SubSeq(p, k + 1, Len(p))
Real(fs, p) == OneLink(fs, OneLink(fs, OneLink(fs, p)))
\* The same, but the last name may be a link.
RealName(fs, p) == IF p = <<>> THEN p ELSE Append(Real(fs, Front(p)), Last(p))

Lstat(fs, p) == NamedAt(fs, RealName(fs, p))
Stat(fs, p) == IF NamedAt(fs, Real(fs, p)).kind = "link" THEN Missing ELSE NamedAt(fs, Real(fs, p))
IsDir(fs, p) == Stat(fs, p).kind = "dir"

Below(p, top) == IsPrefix(top, p)
Entries(fs, d) == {Last(p) : p \in {q \in DOMAIN fs : q # <<>> /\ Front(q) = d}}

-----------------------------------------------------------------------------
(* Changing.  Each is the tree after a call that succeeds. *)

Fresh(fs) == 1 + Max({fs[p].ino : p \in DOMAIN fs})
Put(fs, p, node) == [q \in DOMAIN fs \cup {p} |-> IF q = p THEN node ELSE fs[q]]
Without(fs, ps) == [p \in DOMAIN fs \ ps |-> fs[p]]
Alter(fs, ino, node) == [p \in DOMAIN fs |-> IF fs[p].ino = ino THEN node ELSE fs[p]]

\* Paths longer than depth are too long.
CanCreate(fs, p, depth) ==
  /\ RealName(fs, p) \notin DOMAIN fs /\ p # <<>> /\ Len(RealName(fs, p)) <= depth
  /\ NamedAt(fs, Front(RealName(fs, p))).kind = "dir"
Create(fs, p, kind, of, mode) ==
  Put(fs, RealName(fs, p), [ino |-> Fresh(fs), kind |-> kind, of |-> of, mode |-> mode, time |-> 9])

CanUnlink(fs, p) == Lstat(fs, p).kind \in Kinds \ {"dir"}
Unlink(fs, p) == Without(fs, {RealName(fs, p)})

CanRmdir(fs, p) ==
  p # <<>> /\ Lstat(fs, p).kind = "dir" /\ Entries(fs, RealName(fs, p)) = {}
Rmdir(fs, p) == Unlink(fs, p)

\* rename moves everything below, and replaces a file by a file or an empty
\* directory by a directory.
CanRename(fs, p, q) ==
  LET from == RealName(fs, p) to == RealName(fs, q) IN
    /\ from \in DOMAIN fs \ {<<>>} /\ to # <<>> /\ NamedAt(fs, Front(to)).kind = "dir"
    /\ from # to => ~Below(to, from)
    /\ IF fs[from].kind = "dir" THEN to \notin DOMAIN fs \/ CanRmdir(fs, q) ELSE NamedAt(fs, to).kind # "dir"
Rename(fs, p, q) ==
  LET from == RealName(fs, p)
      to == RealName(fs, q)
      moved == {x \in DOMAIN fs : Below(x, from)}
      Arrives(x) == to \o SubSeq(x, Len(from) + 1, Len(x))
      Leaves(y) == from \o SubSeq(y, Len(to) + 1, Len(y))
  IN IF NamedAt(fs, to).ino = fs[from].ino THEN fs
     ELSE LET rest == Without(fs, moved \cup {to})
          IN [y \in {Arrives(x) : x \in moved} |-> fs[Leaves(y)]] @@ rest

CanLink(fs, p, q, depth) == Lstat(fs, p).kind \in Kinds \ {"dir"} /\ CanCreate(fs, q, depth)
HardLink(fs, p, q) == Put(fs, RealName(fs, q), Lstat(fs, p))

\* open(p, O_WRONLY | O_CREAT | O_TRUNC): links are followed; what was there is
\* gone, or a new file has the mode less what the umask takes away.
Masked(mode) == IF mode = 2 THEN 1 ELSE mode
CanTruncate(fs, p, depth) ==
  LET q == Real(fs, p) IN NamedAt(fs, q).kind = "file" \/ CanCreate(fs, q, depth)
Truncate(fs, p, mode) ==
  LET q == Real(fs, p) old == NamedAt(fs, q)
  IN IF old.kind = "file" THEN Alter(fs, old.ino, [old EXCEPT !.of = <<>>, !.time = 9])
     ELSE Create(fs, q, "file", <<>>, Masked(mode))
Written(fs, p, of) == LET n == Stat(fs, p) IN Alter(fs, n.ino, [n EXCEPT !.of = of])

\* chmod and utime of what p leads to; nothing happens when there is nothing.
Chmod(fs, p, mode) == LET n == Stat(fs, p) IN IF n.ino = 0 THEN fs ELSE Alter(fs, n.ino, [n EXCEPT !.mode = mode])
\* lutimes: the link itself.
Utime(fs, p, time) == LET n == Lstat(fs, p) IN IF n.ino = 0 THEN fs ELSE Alter(fs, n.ino, [n EXCEPT !.time = time])
=============================================================================
