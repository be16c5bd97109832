----------------------------- MODULE FilesProofs -----------------------------
(***************************************************************************)
(* Theorems about the tools that work on files others change meanwhile.    *)
(*                                                                         *)
(* mv: no source is ever lost, a destination is replaced in one step, and  *)
(* exit status 0 means that everything has moved, for any names, trees,    *)
(* file systems and numbers of sources, and whatever others create.        *)
(*                                                                         *)
(* tail: the ring holds the last lines of what has been read, for any      *)
(* number of lines, any files, and whatever is appended meanwhile.         *)
(*                                                                         *)
(* tee: every output that has not failed holds all that was read, for any  *)
(* input, files, size of the buffer, failures and signals.                 *)
(*                                                                         *)
(* mkdir and rmdir: nothing else is changed, and exit status 0 means that  *)
(* all is done, for any trees, links and paths.                            *)
(*                                                                         *)
(* rm: nothing is removed but what is at or below a name that was given,   *)
(* for any trees and links, while others remove names and create files     *)
(* between its steps.                                                      *)
(***************************************************************************)
EXTENDS Mv, TailFollow, SequenceTheorems, WellFoundedInduction, TLAPS

-----------------------------------------------------------------------------
(* mv: names *)

\* A count of operands is one or it is several.
LEMMA OneOrMore ==
  ASSUME NEW n \in Nat, n >= 1
  PROVE  n = 1 \/ n > 1
OBVIOUS

\* What a path can be given is a node.
LEMMA Nodes ==
  /\ None \in Node /\ Foreign \in Node
  /\ \A n \in Node : Begun(n) \in Node /\ Begun(n).whole = 0 /\ Begun(n).kind = n.kind
<1>1. "" \in Content /\ "other" \in Content
  BY DEF Content
<1>2. None \in Node /\ Foreign \in Node
  BY <1>1 DEF None, Foreign, Node
<1>3. ASSUME NEW n \in Node
      PROVE  Begun(n) \in Node /\ Begun(n).whole = 0 /\ Begun(n).kind = n.kind
  BY <1>3 DEF Begun, Node
<1> QED
  BY <1>2, <1>3

\* The paths mv works on are paths, and what goes into a directory keeps its
\* last component.
LEMMA PathsKnown ==
  ASSUME Assumptions, TypeOK
  PROVE  /\ Len(call.srcs) \in Nat /\ i \in 1..Len(call.srcs)
         /\ \A n \in 1..Len(call.srcs) :
              /\ call.srcs[n] \in Paths /\ Target(n) \in Paths
              /\ Target(n) \in Destinations(call)
              /\ into = 1 => Base[Target(n)] = Base[call.srcs[n]]
         /\ Source \in Paths /\ Dest \in Paths /\ Dest \in Destinations(call)
         /\ Backup[Dest] \in Paths
         /\ None \in Node
<1>1. call.srcs \in Seq(Paths) /\ call.dest \in Paths /\ i \in 1..Len(call.srcs)
  BY DEF Assumptions, TypeOK
<1>2. ASSUME NEW n \in 1..Len(call.srcs)
      PROVE  /\ call.srcs[n] \in Paths /\ Target(n) \in Paths
             /\ Target(n) \in Destinations(call)
             /\ into = 1 => Base[Target(n)] = Base[call.srcs[n]]
  <2>1. \A c \in Calls : \A m \in 1..Len(c.srcs) :
          LET p == Join(c.dest, Base[c.srcs[m]]) IN p \in Paths /\ Base[p] = Base[c.srcs[m]]
    BY Zenon DEF Assumptions
  <2>2. /\ Join(call.dest, Base[call.srcs[n]]) \in Paths
        /\ Base[Join(call.dest, Base[call.srcs[n]])] = Base[call.srcs[n]]
    <3>1. call \in Calls
      BY DEF TypeOK
    <3> QED
      BY <2>1, <3>1, Zenon
  <2>3. Target(n) \in {call.dest, Join(call.dest, Base[call.srcs[n]])}
        /\ (into = 1 => Target(n) = Join(call.dest, Base[call.srcs[n]]))
    BY DEF Target
  <2>4. Target(n) \in Destinations(call)
    BY <2>3, Zenon DEF Destinations
  <2> QED
    BY <1>1, <2>2, <2>3, <2>4
<1>3. Source \in Paths /\ Dest \in Paths /\ Dest \in Destinations(call)
  BY <1>1, <1>2 DEF Source, Dest
<1>4. Backup[Dest] \in Paths
  BY <1>3 DEF Assumptions
<1>5. None \in Node
  BY Nodes
<1> QED
  BY <1>1, <1>2, <1>3, <1>4, <1>5

\* From look on, several sources go into a directory.
Several == pc \notin {"start", "exited"} => into = 1 \/ Len(call.srcs) = 1

\* No source has the name of another one's destination.
LEMMA NamesApart ==
  ASSUME Assumptions, TypeOK, OneEach, into = 1 \/ Len(call.srcs) = 1,
         NEW j \in 1..Len(call.srcs), NEW k \in 1..Len(call.srcs), j # k
  PROVE  /\ call.srcs[j] # call.srcs[k]
         /\ Target(j) # Target(k)
         /\ Target(j) # call.srcs[k]
<1>1. into = 1
  BY PathsKnown
<1> QED
  BY <1>1, PathsKnown DEF OneEach

-----------------------------------------------------------------------------
(* mv: types, and how many sources are done *)

\* move_item has returned 0 for fewer sources than it was called for.
MovesCounted ==
  /\ pc # "exited" => moved < i
  /\ pc = "start" => i = 1 /\ into = 0 /\ hurt \subseteq {"made"}

\* What move_item may do to i, moved, pc and status.
LEMMA StepsOn ==
  ASSUME TypeOK, MovesCounted, pc # "exited", NEW r, Returns(r)
  PROVE  /\ i' \in 1..Len(call.srcs) /\ moved' \in 0..i'
         /\ pc' \in {"look", "exited"} /\ status' \in {0, 1, 255}
         /\ pc' # "exited" => moved' < i'
  BY DEF TypeOK, MovesCounted, Returns, Exit, ExitStatus, AllMoved

\* Every variable keeps its type, and no source is counted twice.
THEOREM Typing ==
  ASSUME Assumptions
  PROVE  Spec => [](TypeOK /\ MovesCounted /\ Several)
<1>1. Init => TypeOK /\ MovesCounted /\ Several
  <2> SUFFICES ASSUME Init PROVE TypeOK /\ MovesCounted /\ Several
    OBVIOUS
  <2>1. call.srcs \in Seq(Paths) /\ call.srcs # <<>>
    BY DEF Assumptions, Init
  <2>2. 1 \in 1..Len(call.srcs)
    BY <2>1
  <2>3. tree \in [Paths -> Node] /\ Others \in Nat
    BY DEF Assumptions, Init
  <2> QED
    BY <2>2, <2>3 DEF Init, TypeOK, MovesCounted, Several
<1>2. TypeOK /\ MovesCounted /\ Several /\ [Next]_vars => (TypeOK /\ MovesCounted /\ Several)'
  <2> SUFFICES ASSUME TypeOK, MovesCounted, Several, [Next]_vars
               PROVE  (TypeOK /\ MovesCounted /\ Several)'
    OBVIOUS
  <2>0. /\ Len(call.srcs) \in Nat
        /\ Source \in Paths /\ Dest \in Paths /\ Backup[Dest] \in Paths /\ None \in Node
    BY PathsKnown
  <2>t. \A from, to \in Paths : Renamed(from, to) \in [Paths -> Node]
    BY <2>0 DEF TypeOK, Renamed
  <2>r. ASSUME NEW r, pc \notin {"start", "exited"}, Returns(r), UNCHANGED callVars,
               tree' \in [Paths -> Node], there' \in {0, 1},
               errno' \in {"none", "ENOENT", "EXDEV", "other"},
               hurt' \subseteq {"read", "write", "remove", "made"}
        PROVE  (TypeOK /\ MovesCounted /\ Several)'
    BY <2>r, StepsOn DEF TypeOK, MovesCounted, Several, callVars
  <2>g. ASSUME NEW to \in {"look", "backup", "ask", "clear", "rename", "failed", "open",
                           "copy", "nocopy", "remove"},
               pc \notin {"start", "exited"}, Goes(to), UNCHANGED callVars,
               tree' \in [Paths -> Node], there' \in {0, 1},
               errno' \in {"none", "ENOENT", "EXDEV", "other"},
               hurt' \subseteq {"read", "write", "remove", "made"}
        PROVE  (TypeOK /\ MovesCounted /\ Several)'
    BY <2>g DEF Goes, TypeOK, MovesCounted, Several, callVars
  <2>x. ASSUME pc # "exited", Exit(1), UNCHANGED <<callVars, tree, i, moved, there, errno, hurt>>
        PROVE  (TypeOK /\ MovesCounted /\ Several)'
    BY <2>x DEF Exit, TypeOK, MovesCounted, Several, callVars
  <2>1. CASE UNCHANGED vars
    BY <2>1 DEF vars, TypeOK, MovesCounted, Several
  <2>2. CASE Start
    <3>1. CASE Len(call.srcs) > 1 /\ into' = 0
      BY <2>2, <3>1 DEF Start, Exit, TypeOK, MovesCounted, Several
    <3>2. CASE ~(Len(call.srcs) > 1 /\ into' = 0)
      <4>1. into' \in {0, 1} /\ pc' = "look" /\ Len(call.srcs) >= 1
        BY <2>0, <2>2, <3>2 DEF Start, TypeOK
      <4>2. into' = 1 \/ Len(call.srcs) = 1
        <5>1. CASE into' = 0
          BY <2>0, <3>2, <4>1, <5>1, OneOrMore
        <5> QED
          BY <4>1, <5>1
      <4> QED
        BY <2>2, <3>2, <4>1, <4>2 DEF Start, TypeOK, MovesCounted, Several
    <3> QED
      BY <3>1, <3>2
  <2>3. CASE Look
    <3>1. pc = "look" /\ UNCHANGED <<tree, callVars, hurt>>
          /\ there' \in {0, 1} /\ errno' \in {"none", "ENOENT", "EXDEV", "other"}
      BY <2>3 DEF Look, TypeOK
    <3>2. Returns(-1) \/ Returns(0) \/ Goes("rename") \/ Goes("backup") \/ Goes("ask")
      BY <2>3 DEF Look
    <3>3. tree' \in [Paths -> Node] /\ hurt' \subseteq {"read", "write", "remove", "made"}
      BY <3>1 DEF TypeOK
    <3> QED
      BY <2>r, <2>g, <3>1, <3>2, <3>3
  <2>4. CASE MakeBackup
    <3>1. CASE tree' = Renamed(Dest, Backup[Dest]) /\ Goes("rename")
      <4>1. tree' \in [Paths -> Node]
        BY <2>0, <2>t, <3>1
      <4> QED
        BY <2>4, <2>g, <3>1, <4>1 DEF MakeBackup, TypeOK
    <3>2. CASE Exit(1) /\ UNCHANGED <<tree, i, moved>>
      BY <2>4, <2>x, <3>2 DEF MakeBackup
    <3> QED
      BY <2>4, <3>1, <3>2 DEF MakeBackup
  <2>5. CASE Ask
    <3>1. pc = "ask" /\ UNCHANGED <<tree, callVars, there, errno, hurt>>
          /\ (Returns(0) \/ Goes("clear") \/ Goes("rename"))
      BY <2>5 DEF Ask, AfterAsk
    <3> QED
      BY <2>r, <2>g, <3>1 DEF TypeOK
  <2>6. CASE Clear
    <3>1. [tree EXCEPT ![Dest] = None] \in [Paths -> Node]
      BY <2>0 DEF TypeOK
    <3> QED
      BY <2>6, <2>g, <2>x, <3>1 DEF Clear, TypeOK
  <2>7. CASE Rename
    <3>1. pc = "rename" /\ UNCHANGED <<callVars, there, hurt>>
          /\ tree' \in [Paths -> Node] /\ errno' \in {"none", "ENOENT", "EXDEV", "other"}
          /\ (Returns(0) \/ Goes("failed"))
      BY <2>0, <2>7, <2>t DEF Rename, TypeOK
    <3> QED
      BY <2>r, <2>g, <3>1 DEF TypeOK
  <2>8. CASE Failed
    <3>1. pc = "failed" /\ UNCHANGED <<tree, callVars, there, errno, hurt>>
          /\ (Returns(-1) \/ Goes("open"))
      BY <2>8 DEF Failed
    <3> QED
      BY <2>r, <2>g, <3>1 DEF TypeOK
  <2>9. CASE Open
    <3>2. [tree EXCEPT ![Dest] = Begun(tree[Source])] \in [Paths -> Node]
      BY <2>0, Nodes DEF TypeOK
    <3> QED
      BY <2>9, <2>r, <2>g, <3>2 DEF Open, TypeOK
  <2>10. CASE Copy
    <3>1. [tree EXCEPT ![Dest] = tree[Source]] \in [Paths -> Node]
      BY <2>0 DEF TypeOK
    <3> QED
      BY <2>10, <2>g, <3>1 DEF Copy, WriteFailed, TypeOK
  <2>11. CASE CopyFailed
    BY <2>11, <2>r DEF CopyFailed, TypeOK
  <2>12. CASE Remove
    <3>1. [tree EXCEPT ![Source] = None] \in [Paths -> Node]
      BY <2>0 DEF TypeOK
    <3> QED
      BY <2>12, <2>r, <3>1 DEF Remove, TypeOK
  <2>13. CASE SomeoneCreates
    <3>1. PICK p \in Paths : tree' = [tree EXCEPT ![p] = Foreign]
      BY <2>13 DEF SomeoneCreates
    <3>2. tree' \in [Paths -> Node]
      BY <3>1, Nodes DEF TypeOK
    <3>3. Others \in Nat
      BY DEF Assumptions
    <3>4. others' \in 0..Others
      BY <2>13, <3>3 DEF SomeoneCreates, TypeOK
    <3> QED
      BY <2>13, <3>2, <3>4 DEF SomeoneCreates, TypeOK, MovesCounted, Several
  <2> QED
    BY <2>1, <2>2, <2>3, <2>4, <2>5, <2>6, <2>7, <2>8, <2>9, <2>10, <2>11, <2>12, <2>13
       DEF Next, Mover
<1> QED
  BY <1>1, <1>2, PTL DEF Spec

-----------------------------------------------------------------------------
(* mv: how the tree changes *)

\* An assignment to one path, path by path.
LEMMA AssignedAt ==
  ASSUME TypeOK, NEW to \in Paths, NEW n, NEW p \in Paths
  PROVE  [tree EXCEPT ![to] = n][p] = IF p = to THEN n ELSE tree[p]
BY DEF TypeOK

\* A rename, path by path.
LEMMA RenamedAt ==
  ASSUME TypeOK, NEW from \in Paths, NEW to \in Paths, NEW p \in Paths
  PROVE  Renamed(from, to)[p] = IF p = from THEN None ELSE IF p = to THEN tree[from] ELSE tree[p]
BY DEF TypeOK, Renamed

NodeFacts ==
  /\ None.kind = "none" /\ None.whole = 0
  /\ Foreign.kind = "file" /\ Foreign.whole = 1 /\ Foreign.of = "other"

\* The fields of the nodes that steps compare.
LEMMA NodesRead == NodeFacts
BY DEF NodeFacts, None, Foreign

-----------------------------------------------------------------------------
(* mv: what is written in parts *)

Mixed == \E p, q \in Paths : device[p] # device[q]
Copying == {"open", "copy", "nocopy", "remove"}
Busy == {"backup", "ask", "clear", "rename", "failed"} \cup Copying

\* Only -b and -f take the destination away, only a move to another file system
\* leaves a file that is not whole, and a name without a file holds nothing.
OnlyAbroad ==
  /\ pc = "backup" => "b" \in opts
  /\ pc = "clear" => "f" \in opts
  /\ errno = "EXDEV" \/ pc \in Copying => Mixed
  /\ \A p \in Paths : tree[p].whole = 0 => tree[p].kind = "none" \/ Mixed
  /\ \A p \in Paths : tree[p].kind = "none" => tree[p].whole = 0

\* While move_item works on a source it is there, under another name than its
\* destination.
SourceThere == pc \in Busy => Dest # Source /\ ~Is(Source, {"none"})

\* At first nothing is half written and no move has begun.
LEMMA InitAbroad == ASSUME Assumptions, Init PROVE OnlyAbroad /\ SourceThere
<1>1. \A p \in Paths : tree[p] = None \/ (tree[p].kind # "none" /\ tree[p].whole = 1)
  <2>1. \A t \in Trees : /\ t \in [Paths -> Node]
                        /\ \A p \in Paths : t[p] = None \/ (t[p].kind # "none" /\ t[p].of = p /\ t[p].whole = 1)
    BY Zenon DEF Assumptions
  <2>2. tree \in Trees
    BY DEF Init
  <2> QED
    BY <2>1, <2>2, Zenon
<1> QED
  BY <1>1, NodesRead DEF Init, OnlyAbroad, SourceThere, NodeFacts, Copying, Busy

\* Only a copy under way is incomplete, and the source of a move under way is
\* there and is not its own destination.
LEMMA AbroadKept ==
  ASSUME Assumptions, TypeOK, MovesCounted, Several, OnlyAbroad, SourceThere, [Next]_vars
  PROVE  OnlyAbroad' /\ SourceThere'
<1>0. Source \in Paths /\ Dest \in Paths /\ Backup[Dest] \in Paths
  BY PathsKnown
<1> USE NodesRead DEF NodeFacts, Busy, Copying
<1>c. ASSUME UNCHANGED callVars PROVE Mixed' = Mixed
  BY <1>c DEF callVars, Mixed
<1>d. ASSUME UNCHANGED <<callVars, i>> PROVE Source' = Source /\ Dest' = Dest
  BY <1>d DEF callVars, Source, Dest, Target
\* After a return nothing is said of the source.
<1>r. ASSUME NEW r, Returns(r), UNCHANGED callVars, errno' = "EXDEV" => Mixed,
             \A p \in Paths : tree'[p].whole = 0 => tree'[p].kind = "none" \/ Mixed,
             \A p \in Paths : tree'[p].kind = "none" => tree'[p].whole = 0
      PROVE  OnlyAbroad' /\ SourceThere'
  <2>1. pc' \in {"look", "exited"}
    BY <1>r DEF Returns, Exit
  <2> QED
    BY <1>r, <1>c, <2>1 DEF OnlyAbroad, SourceThere
<1>g. ASSUME NEW to \in Busy, Goes(to), UNCHANGED callVars, errno' = "EXDEV" => Mixed,
             to = "backup" => "b" \in opts, to = "clear" => "f" \in opts,
             to \in Copying => Mixed,
             \A p \in Paths : tree'[p].whole = 0 => tree'[p].kind = "none" \/ Mixed,
             \A p \in Paths : tree'[p].kind = "none" => tree'[p].whole = 0,
             Dest # Source, tree'[Source].kind # "none"
      PROVE  OnlyAbroad' /\ SourceThere'
  <2>1. pc' = to /\ opts' = opts /\ i' = i
    BY <1>g DEF Goes, callVars
  <2>2. Source' = Source /\ Dest' = Dest /\ Mixed' = Mixed
    BY <1>c, <1>d, <1>g, <2>1
  <2> QED
    BY <1>g, <2>1, <2>2 DEF OnlyAbroad, SourceThere, Is
<1>x. ASSUME Exit(1), UNCHANGED <<callVars, tree, errno>>
      PROVE  OnlyAbroad' /\ SourceThere'
  BY <1>x, <1>c DEF Exit, OnlyAbroad, SourceThere
<1>1. CASE UNCHANGED vars
  <2>1. UNCHANGED <<callVars, i, tree, pc, errno>>
    BY <1>1 DEF vars, callVars
  <2>2. Source' = Source /\ Dest' = Dest /\ Mixed' = Mixed
    BY <1>c, <1>d, <2>1
  <2> QED
    BY <2>1, <2>2 DEF callVars, OnlyAbroad, SourceThere, Is
<1>2. CASE Start
  <2>1. pc' \in {"look", "exited"} /\ UNCHANGED <<tree, device, errno>>
    BY <1>2 DEF Start, Exit
  <2>2. Mixed' = Mixed
    BY <2>1 DEF Mixed
  <2> QED
    BY <2>1, <2>2 DEF OnlyAbroad, SourceThere
<1>3. CASE Look
  <2>1. pc = "look" /\ UNCHANGED <<tree, callVars, hurt>> /\ (errno' = "EXDEV" => errno = "EXDEV")
    BY <1>3 DEF Look
  <2>2. CASE Returns(-1) \/ Returns(0)
    BY <1>r, <2>1, <2>2 DEF OnlyAbroad
  <2>3. CASE ~(Returns(-1) \/ Returns(0))
    <3>1. ~Is(Source, {"none"}) /\ ~(there' = 1 /\ Dest = Source)
      BY <1>3, <2>3 DEF Look
    <3>2. Dest # Source
      BY <1>3, <3>1 DEF Look
    <3>3. \/ Goes("rename") \/ Goes("ask")
          \/ Goes("backup") /\ "b" \in opts
      BY <1>3, <2>3 DEF Look
    <3>4. tree'[Source].kind # "none"
      BY <2>1, <3>1 DEF Is
    <3> QED
      BY <1>g, <2>1, <3>2, <3>3, <3>4 DEF OnlyAbroad
  <2> QED
    BY <2>2, <2>3
<1>4. CASE MakeBackup
  <2>1. CASE tree' = Renamed(Dest, Backup[Dest]) /\ Goes("rename")
    <3>1. \A p \in Paths :
            tree'[p] = IF p = Dest THEN None ELSE IF p = Backup[Dest] THEN tree[Dest] ELSE tree[p]
      BY <1>0, <2>1, RenamedAt
    <3>2. tree[Dest].kind # "none" /\ UNCHANGED <<callVars, errno>> /\ Dest # Source /\ tree[Source].kind # "none"
      BY <1>4, <2>1 DEF MakeBackup, Is, Goes, Exit, SourceThere
    <3>3. tree'[Source].kind # "none"
      BY <1>0, <3>1, <3>2
    <3>4. \A p \in Paths : /\ tree'[p].whole = 0 => tree'[p].kind = "none" \/ Mixed
                           /\ tree'[p].kind = "none" => tree'[p].whole = 0
      BY <1>0, <3>1 DEF OnlyAbroad
    <3> QED
      BY <1>g, <2>1, <3>2, <3>3, <3>4 DEF OnlyAbroad
  <2>2. CASE Exit(1) /\ UNCHANGED <<tree, i, moved>>
    BY <1>4, <1>x, <2>2 DEF MakeBackup
  <2> QED
    BY <1>4, <2>1, <2>2 DEF MakeBackup
<1>5. CASE Ask
  <2>1. pc = "ask" /\ UNCHANGED <<tree, callVars, errno>>
        /\ (Returns(0) \/ (Goes("clear") /\ "f" \in opts) \/ Goes("rename"))
    BY <1>5 DEF Ask, AfterAsk
  <2> QED
    BY <1>r, <1>g, <2>1 DEF OnlyAbroad, SourceThere, Is
<1>6. CASE Clear
  <2>1. CASE tree' = [tree EXCEPT ![Dest] = None] /\ Goes("rename")
    <3>1. \A p \in Paths : tree'[p] = IF p = Dest THEN None ELSE tree[p]
      BY <1>0, <2>1, AssignedAt
    <3>2. UNCHANGED <<callVars, errno>> /\ Dest # Source /\ tree[Source].kind # "none"
      BY <1>6 DEF Clear, Is, SourceThere
    <3>3. \A p \in Paths : /\ tree'[p].whole = 0 => tree'[p].kind = "none" \/ Mixed
                           /\ tree'[p].kind = "none" => tree'[p].whole = 0
      BY <3>1 DEF OnlyAbroad
    <3>4. tree'[Source].kind # "none"
      BY <1>0, <3>1, <3>2
    <3> QED
      BY <1>g, <2>1, <3>2, <3>3, <3>4 DEF OnlyAbroad
  <2>2. CASE Exit(1) /\ UNCHANGED <<tree, i, moved>>
    BY <1>6, <1>x, <2>2 DEF Clear
  <2> QED
    BY <1>6, <2>1, <2>2 DEF Clear
<1>7. CASE Rename
  <2>1. pc = "rename" /\ UNCHANGED <<callVars>> /\ Dest # Source /\ tree[Source].kind # "none"
    BY <1>7 DEF Rename, SourceThere, Is
  <2>2. CASE tree' = Renamed(Source, Dest) /\ Returns(0) /\ errno' = errno
    <3>1. \A p \in Paths :
            tree'[p] = IF p = Source THEN None ELSE IF p = Dest THEN tree[Source] ELSE tree[p]
      BY <1>0, <2>2, RenamedAt
    <3>2. \A p \in Paths : /\ tree'[p].whole = 0 => tree'[p].kind = "none" \/ Mixed
                           /\ tree'[p].kind = "none" => tree'[p].whole = 0
      BY <1>0, <3>1 DEF OnlyAbroad
    <3> QED
      BY <1>r, <2>1, <2>2, <3>2 DEF OnlyAbroad
  <2>3. CASE Goes("failed") /\ tree' = tree /\ (errno' = errno \/ (errno' = "EXDEV" /\ device[Source] # device[Dest]) \/ errno' = "other")
    <3>1. errno' = "EXDEV" => Mixed
      BY <1>0, <2>3 DEF OnlyAbroad, Mixed
    <3> QED
      BY <1>g, <2>1, <2>3, <3>1 DEF OnlyAbroad
  <2> QED
    BY <1>7, <2>2, <2>3 DEF Rename
<1>8. CASE Failed
  <2>1. pc = "failed" /\ UNCHANGED <<tree, callVars, errno>>
        /\ (Returns(-1) \/ (Goes("open") /\ errno = "EXDEV"))
    BY <1>8 DEF Failed
  <2> QED
    BY <1>r, <1>g, <2>1 DEF OnlyAbroad, SourceThere, Is
<1>9. CASE Open
  <2>1. pc = "open" /\ UNCHANGED <<callVars, errno>> /\ Dest # Source /\ tree[Source].kind # "none" /\ Mixed
    BY <1>9 DEF Open, SourceThere, Is, OnlyAbroad
  <2>2. CASE tree' = [tree EXCEPT ![Dest] = Begun(tree[Source])] /\ Goes("copy")
    <3>1. \A p \in Paths : tree'[p] = IF p = Dest THEN Begun(tree[Source]) ELSE tree[p]
      BY <1>0, <2>2, AssignedAt
    <3>2. Begun(tree[Source]).whole = 0 /\ Begun(tree[Source]).kind # "none"
      BY <1>0, <2>1, Nodes DEF TypeOK
    <3>3. \A p \in Paths : /\ tree'[p].whole = 0 => tree'[p].kind = "none" \/ Mixed
                           /\ tree'[p].kind = "none" => tree'[p].whole = 0
      BY <2>1, <3>1, <3>2 DEF OnlyAbroad
    <3>4. tree'[Source].kind # "none"
      BY <1>0, <2>1, <3>1
    <3> QED
      BY <1>g, <2>1, <2>2, <3>3, <3>4
  <2>3. CASE Returns(-1) /\ tree' = tree
    BY <1>r, <2>1, <2>3 DEF OnlyAbroad
  <2> QED
    BY <1>9, <2>2, <2>3 DEF Open
<1>10. CASE Copy
  <2>1. UNCHANGED <<callVars, errno>> /\ Dest # Source /\ tree[Source].kind # "none" /\ Mixed
        /\ (Goes("remove") \/ Goes("nocopy"))
    BY <1>10 DEF Copy, SourceThere, Is, OnlyAbroad, WriteFailed
  <2>2. \A p \in Paths : tree'[p] = tree[p] \/ (p = Dest /\ tree'[p] = tree[Source])
    <3>1. tree' = tree \/ tree' = [tree EXCEPT ![Dest] = tree[Source]]
      BY <1>10 DEF Copy
    <3> QED
      BY <1>0, <3>1, AssignedAt
  <2>3. \A p \in Paths : /\ tree'[p].whole = 0 => tree'[p].kind = "none" \/ Mixed
                         /\ tree'[p].kind = "none" => tree'[p].whole = 0
    BY <1>0, <2>2 DEF OnlyAbroad
  <2>4. tree'[Source].kind # "none"
    BY <1>0, <2>1, <2>2
  <2> QED
    BY <1>g, <2>1, <2>3, <2>4
<1>11. CASE CopyFailed
  BY <1>r, <1>11 DEF CopyFailed, OnlyAbroad
<1>12. CASE Remove
  <2>1. UNCHANGED <<callVars, errno>> /\ (Returns(0) \/ Returns(-1))
    BY <1>12 DEF Remove
  <2>2. \A p \in Paths : tree'[p] = tree[p] \/ tree'[p] = None
    <3>1. tree' = tree \/ tree' = [tree EXCEPT ![Source] = None]
      BY <1>12 DEF Remove
    <3> QED
      BY <1>0, <3>1, AssignedAt
  <2> QED
    BY <1>r, <2>1, <2>2 DEF OnlyAbroad
<1>13. CASE SomeoneCreates
  <2>1. PICK q \in Paths : Is(q, {"none"}) /\ tree' = [tree EXCEPT ![q] = Foreign]
    BY <1>13 DEF SomeoneCreates
  <2>2. UNCHANGED <<call, device, opts, into, i, pc, errno>>
    BY <1>13 DEF SomeoneCreates
  <2>3. Source' = Source /\ Dest' = Dest /\ Mixed' = Mixed
    BY <2>2 DEF Source, Dest, Target, Mixed
  <2>4. \A p \in Paths : tree'[p] = IF p = q THEN Foreign ELSE tree[p]
    BY <2>1, AssignedAt
  <2>5. SourceThere'
    BY <1>0, <2>1, <2>2, <2>3, <2>4 DEF SourceThere, Is
  <2> QED
    BY <2>2, <2>3, <2>4, <2>5 DEF OnlyAbroad
<1> QED
  BY <1>1, <1>2, <1>3, <1>4, <1>5, <1>6, <1>7, <1>8, <1>9, <1>10, <1>11, <1>12, <1>13
     DEF Next, Mover

\* On one file system and without -f or -b, what mv replaces is never missing
\* nor half written in between.
THEOREM ReplacedAtOnceHolds ==
  ASSUME Assumptions
  PROVE  Spec => ReplacedAtOnce
<1> DEFINE AllOfIt == TypeOK /\ MovesCounted /\ Several /\ OnlyAbroad /\ SourceThere
           Step == \A p \in Paths :
                     tree[p].whole = 1 /\ tree'[p].whole = 0 =>
                       \/ p \in {call.srcs[j] : j \in 1..Len(call.srcs)}
                       \/ opts \cap {"f", "b"} # {}
                       \/ \E q \in Paths : device[q] # device[p]
<1>1. Init => OnlyAbroad /\ SourceThere
  BY InitAbroad
<1>2. AllOfIt /\ [Next]_vars => OnlyAbroad' /\ SourceThere'
  BY AbroadKept
<1>3. AllOfIt /\ [Next]_vars => [Step]_vars
  <2> SUFFICES ASSUME AllOfIt, Next, NEW p \in Paths, tree[p].whole = 1, tree'[p].whole = 0,
                      p \notin {call.srcs[j] : j \in 1..Len(call.srcs)},
                      "f" \notin opts, "b" \notin opts
               PROVE  Mixed
    BY DEF Mixed
  <2>0. Source \in Paths /\ Dest \in Paths /\ i \in 1..Len(call.srcs)
    BY PathsKnown
  <2>1. p # Source
    BY <2>0 DEF Source
  <2> USE NodesRead DEF NodeFacts, Copying, Busy
  <2>2. CASE tree' = tree
    BY <2>2
  <2>3. CASE MakeBackup \/ Clear
    BY <2>3 DEF MakeBackup, Clear, OnlyAbroad
  <2>4. CASE Rename
    <3>1. CASE tree' = Renamed(Source, Dest)
      <4>1. tree'[p] = IF p = Dest THEN tree[Source] ELSE tree[p]
        <5>1. Renamed(Source, Dest)[p] =
                IF p = Source THEN None ELSE IF p = Dest THEN tree[Source] ELSE tree[p]
          BY <2>0, RenamedAt
        <5> QED
          BY <2>1, <3>1, <5>1
      <4>2. tree[Source].kind # "none"
        BY <2>4 DEF Rename, SourceThere, Is
      <4> QED
        BY <2>0, <4>1, <4>2 DEF OnlyAbroad
    <3> QED
      BY <2>2, <2>4, <3>1 DEF Rename
  <2>5. CASE Open \/ Copy
    BY <2>5 DEF Open, Copy, OnlyAbroad
  <2>6. CASE Remove
    <3>1. CASE tree' = [tree EXCEPT ![Source] = None]
      BY <2>0, <2>1, <3>1, AssignedAt
    <3> QED
      BY <2>2, <2>6, <3>1 DEF Remove
  <2>7. CASE SomeoneCreates
    <3>1. PICK q \in Paths : tree' = [tree EXCEPT ![q] = Foreign]
      BY <2>7 DEF SomeoneCreates
    <3> QED
      BY <3>1, AssignedAt
  <2> QED
    BY <2>2, <2>3, <2>4, <2>5, <2>6, <2>7
       DEF Next, Mover, Start, Look, Ask, Failed, CopyFailed
<1> QED
  BY <1>1, <1>2, <1>3, Typing, PTL DEF Spec, ReplacedAtOnce

-----------------------------------------------------------------------------
(* mv: where the contents are *)

\* The steps that change the tree, path by path.
TreeChange ==
  \/ MakeBackup /\ \A p \in Paths :
       tree'[p] = IF p = Dest THEN None ELSE IF p = Backup[Dest] THEN tree[Dest] ELSE tree[p]
  \/ Clear /\ \A p \in Paths : tree'[p] = IF p = Dest THEN None ELSE tree[p]
  \/ Rename /\ Returns(0) /\ \A p \in Paths :
       tree'[p] = IF p = Source THEN None ELSE IF p = Dest THEN tree[Source] ELSE tree[p]
  \/ Open /\ \A p \in Paths : tree'[p] = IF p = Dest THEN Begun(tree[Source]) ELSE tree[p]
  \/ Copy /\ Goes("remove") /\ \A p \in Paths : tree'[p] = IF p = Dest THEN tree[Source] ELSE tree[p]
  \/ Remove /\ Returns(0) /\ \A p \in Paths : tree'[p] = IF p = Source THEN None ELSE tree[p]
  \/ SomeoneCreates /\ \E q \in Paths :
       Is(q, {"none"}) /\ \A p \in Paths : tree'[p] = IF p = q THEN Foreign ELSE tree[p]

\* They are the only ones.
LEMMA TreeChanges ==
  ASSUME Assumptions, TypeOK, [Next]_vars
  PROVE  tree' = tree \/ TreeChange
<1>0. Source \in Paths /\ Dest \in Paths /\ Backup[Dest] \in Paths
  BY PathsKnown
<1> SUFFICES ASSUME tree' # tree PROVE TreeChange
  OBVIOUS
<1>1. CASE MakeBackup
  <2>1. tree' = Renamed(Dest, Backup[Dest])
    BY <1>1 DEF MakeBackup
  <2> QED
    BY <1>0, <1>1, <2>1, RenamedAt DEF TreeChange
<1>2. CASE Clear
  <2>1. tree' = [tree EXCEPT ![Dest] = None]
    BY <1>2 DEF Clear
  <2> QED
    BY <1>0, <1>2, <2>1, AssignedAt DEF TreeChange
<1>3. CASE Rename
  <2>1. tree' = Renamed(Source, Dest) /\ Returns(0)
    BY <1>3 DEF Rename
  <2> QED
    BY <1>0, <1>3, <2>1, RenamedAt DEF TreeChange
<1>4. CASE Open
  <2>1. tree' = [tree EXCEPT ![Dest] = Begun(tree[Source])]
    BY <1>4 DEF Open
  <2> QED
    BY <1>0, <1>4, <2>1, AssignedAt DEF TreeChange
<1>5. CASE Copy
  <2>1. tree' = [tree EXCEPT ![Dest] = tree[Source]] /\ Goes("remove")
    BY <1>5 DEF Copy
  <2> QED
    BY <1>0, <1>5, <2>1, AssignedAt DEF TreeChange
<1>6. CASE Remove
  <2>1. tree' = [tree EXCEPT ![Source] = None] /\ Returns(0)
    BY <1>6 DEF Remove
  <2> QED
    BY <1>0, <1>6, <2>1, AssignedAt DEF TreeChange
<1>7. CASE SomeoneCreates
  <2>1. PICK q \in Paths : Is(q, {"none"}) /\ tree' = [tree EXCEPT ![q] = Foreign]
    BY <1>7 DEF SomeoneCreates
  <2>2. \A p \in Paths : tree'[p] = IF p = q THEN Foreign ELSE tree[p]
    BY <2>1, AssignedAt
  <2> QED
    BY <1>7, <2>1, <2>2 DEF TreeChange
<1> QED
  BY <1>1, <1>2, <1>3, <1>4, <1>5, <1>6, <1>7
     DEF Next, Mover, Start, Look, Ask, Failed, CopyFailed, vars

\* move_item is done with a source, or has only to remove it.
Reached(j) == j < i \/ (j = i /\ pc \in {"remove", "exited"})

\* The content of a source is under its own name or, once it is copied, under
\* that of its destination, and nowhere else.
KeptWhere ==
  OneEach => \A j \in 1..Len(call.srcs) : \A p \in Paths :
    Holds(p, call.srcs[j]) => p = call.srcs[j] \/ (p = Target(j) /\ Reached(j))

\* A source is removed when its destination holds the same.
CopyThere == pc = "remove" /\ "read" \notin hurt => tree[Dest] = tree[Source]

\* An operand once reached stays reached, and its destination does not change.
LEMMA ReachedStays ==
  ASSUME TypeOK, MovesCounted, [Next]_vars
  PROVE  /\ call' = call /\ device' = device /\ opts' = opts
         /\ \A j \in 1..Len(call.srcs) : Reached(j) => Reached(j)' /\ Target(j)' = Target(j)
         /\ pc # "start" => \A j \in 1..Len(call.srcs) : Target(j)' = Target(j)
<1>1. CASE pc = "start" /\ ~(UNCHANGED vars)
  <2>1. i = 1 /\ ~(\E j \in 1..Len(call.srcs) : Reached(j))
    BY <1>1 DEF MovesCounted, Reached, TypeOK
  <2>2. call' = call /\ device' = device /\ opts' = opts
    BY <1>1 DEF Next, Mover, Start, Look, MakeBackup, Ask, Clear, Rename, Failed, Open, Copy,
                CopyFailed, Remove, SomeoneCreates
  <2> QED
    BY <1>1, <2>1, <2>2
<1>2. CASE pc # "start" \/ UNCHANGED vars
  <2>1. UNCHANGED callVars \/ (UNCHANGED <<device, call, opts, into>>)
    BY <1>2 DEF Next, Mover, Start, Look, MakeBackup, Ask, Clear, Rename, Failed, Open, Copy,
                CopyFailed, Remove, SomeoneCreates, vars
  <2>2. UNCHANGED <<device, call, opts, into>>
    BY <2>1 DEF callVars
  <2>3. \A j : Target(j)' = Target(j)
    BY <2>2 DEF Target
  <2>4. ASSUME NEW j \in 1..Len(call.srcs), Reached(j) PROVE Reached(j)'
    <3>1. i \in Int /\ j \in Int
      BY DEF TypeOK
    <3>2. \/ UNCHANGED <<i, pc>>
          \/ \E r : Returns(r)
          \/ pc' = "exited" /\ i' = i
          \/ i' = i /\ pc \notin {"remove", "exited"}
      BY <1>2 DEF Next, Mover, Start, Look, MakeBackup, Ask, Clear, Rename, Failed, Open, Copy,
                  CopyFailed, Remove, SomeoneCreates, vars, Goes, Exit
    <3>3. UNCHANGED <<i, pc>> \/ i' = i + 1 \/ (i' = i /\ pc' = "exited")
          \/ (i' = i /\ pc \notin {"remove", "exited"})
      BY <3>2 DEF Returns, Exit
    <3> QED
      BY <2>4, <3>1, <3>3 DEF Reached
  <2> QED
    BY <2>2, <2>3, <2>4
<1> QED
  BY <1>1, <1>2

\* The paths move_item touches belong to no other source, and while it works the
\* destination holds no source's content.
LEMMA DestFree ==
  ASSUME Assumptions, TypeOK, Several, SourceThere, OneEach, pc \in Busy,
         NEW j \in 1..Len(call.srcs)
  PROVE  /\ call.srcs[j] # Dest
         /\ j # i => call.srcs[j] # Source /\ Target(j) # Dest /\ Target(j) # Source
         /\ KeptWhere /\ Holds(Source, call.srcs[j]) => j = i
         /\ KeptWhere /\ pc # "remove" => ~Holds(Dest, call.srcs[j])
<1>0. Source \in Paths /\ Dest \in Paths /\ i \in 1..Len(call.srcs) /\ i \in Int
      /\ Source = call.srcs[i] /\ Dest = Target(i) /\ Dest # Source
  BY PathsKnown DEF Source, Dest, SourceThere
<1>1. into = 1 \/ Len(call.srcs) = 1
  BY DEF Several, Busy, Copying
<1>2. /\ call.srcs[j] # Dest
      /\ j # i => call.srcs[j] # Source /\ Target(j) # Dest /\ Target(j) # Source
  <2>1. CASE j = i
    BY <1>0, <2>1
  <2>2. CASE j # i
    BY <1>0, <1>1, <2>2, NamesApart
  <2> QED
    BY <2>1, <2>2
<1>3. ASSUME KeptWhere, Holds(Source, call.srcs[j]) PROVE j = i
  BY <1>0, <1>2, <1>3 DEF KeptWhere
<1>4. ASSUME KeptWhere, pc # "remove" PROVE ~Holds(Dest, call.srcs[j])
  <2>1. ~Reached(i)
    BY <1>0, <1>4 DEF Reached, Busy, Copying
  <2>2. ASSUME Holds(Dest, call.srcs[j]) PROVE Dest = Target(j) /\ Reached(j)
    BY <1>0, <1>2, <1>4, <2>2 DEF KeptWhere
  <2> QED
    BY <1>2, <2>1, <2>2
<1> QED
  BY <1>2, <1>3, <1>4

\* Nor do backups, as long as they have names of their own.
LEMMA BackupFree ==
  ASSUME Assumptions, TypeOK, BackupsApart, NEW j \in 1..Len(call.srcs)
  PROVE  Backup[Dest] # call.srcs[j] /\ Backup[Dest] # Target(j)
<1>1. Dest \in Destinations(call) /\ Target(j) \in Destinations(call) /\ call \in Calls
  BY PathsKnown DEF TypeOK
<1>2. Backup[Dest] \notin Destinations(call) \cup {call.srcs[n] : n \in 1..Len(call.srcs)}
  BY <1>1, Zenon DEF BackupsApart
<1> QED
  BY <1>1, <1>2

\* Every step leaves the content of each source where the invariant says, and a
\* copy is what it was made from until its source is removed.
LEMMA KeptWhereStays ==
  ASSUME Assumptions, TypeOK, TypeOK', MovesCounted, Several, SourceThere, KeptWhere, CopyThere, [Next]_vars
  PROVE  KeptWhere' /\ CopyThere'
<1>0. Source \in Paths /\ Dest \in Paths /\ i \in 1..Len(call.srcs)
      /\ Source = call.srcs[i] /\ Dest = Target(i)
      /\ \A j \in 1..Len(call.srcs) : call.srcs[j] \in Paths
  BY PathsKnown DEF Source, Dest
<1>1. call' = call /\ OneEach' = OneEach
      /\ \A j \in 1..Len(call.srcs) : Reached(j) => Reached(j)' /\ Target(j)' = Target(j)
  BY ReachedStays DEF OneEach
<1>2. KeptWhere'
  <2> SUFFICES ASSUME OneEach, NEW j \in 1..Len(call.srcs), NEW p \in Paths, Holds(p, call.srcs[j])'
               PROVE  p = call.srcs[j] \/ (p = Target(j)' /\ Reached(j)')
    BY <1>1 DEF KeptWhere
  <2>1. tree'[p].of = call.srcs[j] /\ tree'[p].whole = 1
    BY <1>1 DEF Holds
  <2>2. CASE tree'[p] = tree[p]
    <3>1. Holds(p, call.srcs[j])
      BY <2>1, <2>2 DEF Holds
    <3> QED
      BY <1>1, <3>1 DEF KeptWhere
  <2>3. tree'[p] # None /\ tree'[p] # Foreign
    <3>1. call.srcs[j] # "other"
      BY <1>0 DEF Assumptions
    <3> QED
      BY <2>1, <3>1, NodesRead DEF NodeFacts
  <2>4. ASSUME pc \in Busy, tree'[p] = tree[Source] PROVE j = i
    <3>1. Holds(Source, call.srcs[j])
      BY <2>1, <2>4 DEF Holds
    <3> QED
      BY <2>4, <3>1, DestFree
  <2>5. CASE MakeBackup /\ p = Backup[Dest] /\ tree'[p] = tree[Dest]
    <3>1. Holds(Dest, call.srcs[j])
      BY <2>1, <2>5 DEF Holds
    <3>2. pc = "backup"
      BY <2>5 DEF MakeBackup
    <3> QED
      BY <3>1, <3>2, DestFree DEF Busy
  <2>6. CASE Rename /\ Returns(0) /\ p = Dest /\ tree'[p] = tree[Source]
    <3>1. pc = "rename" /\ UNCHANGED callVars
      BY <2>6 DEF Rename
    <3>2. j = i
      BY <2>4, <2>6, <3>1 DEF Busy
    <3>3. Target(j)' = Target(j)
      BY <3>1, ReachedStays
    <3>4. i' = i + 1 \/ (i' = i /\ pc' = "exited")
      BY <2>6 DEF Returns, Exit
    <3>5. Reached(j)'
      BY <3>2, <3>4 DEF Reached, TypeOK
    <3> QED
      BY <1>0, <2>6, <3>2, <3>3, <3>5
  <2>7. CASE Copy /\ Goes("remove") /\ p = Dest /\ tree'[p] = tree[Source]
    <3>1. pc = "copy" /\ pc' = "remove" /\ i' = i
      BY <2>7 DEF Copy, Goes
    <3>2. j = i
      BY <2>4, <2>7, <3>1 DEF Busy, Copying
    <3>3. Reached(j)' /\ Target(j)' = Target(j)
      BY <3>1, <3>2, ReachedStays DEF Reached
    <3> QED
      BY <1>0, <2>7, <3>2, <3>3
  <2>8. CASE Open /\ p = Dest /\ tree'[p] = Begun(tree[Source])
    BY <1>0, <2>1, <2>8, Nodes DEF TypeOK
  <2> QED
    BY <2>2, <2>3, <2>5, <2>6, <2>7, <2>8, TreeChanges DEF TreeChange
<1>3. CopyThere'
  <2> SUFFICES ASSUME pc' = "remove", "read" \notin hurt' PROVE tree'[Dest'] = tree'[Source']
    BY DEF CopyThere
  <2>1. CASE Copy
    <3>1. tree' = [tree EXCEPT ![Dest] = tree[Source]] /\ UNCHANGED callVars /\ i' = i
      BY <2>1 DEF Copy, Goes, WriteFailed
    <3>2. Source' = Source /\ Dest' = Dest
      BY <3>1 DEF Source, Dest, Target, callVars
    <3>4. Dest # Source
      BY <2>1 DEF Copy, SourceThere, Busy, Copying
    <3>3. tree'[Dest] = tree[Source] /\ tree'[Source] = tree[Source]
      BY <1>0, <3>1, <3>4 DEF TypeOK
    <3> QED
      BY <3>2, <3>3
  <2>2. CASE SomeoneCreates
    <3>1. UNCHANGED <<call, into, i, pc>> /\ "read" \notin hurt
      BY <2>2 DEF SomeoneCreates
    <3>2. Source' = Source /\ Dest' = Dest
      BY <3>1 DEF Source, Dest, Target
    <3>3. tree[Dest] = tree[Source] /\ tree[Source].kind # "none"
      BY <3>1 DEF CopyThere, SourceThere, Busy, Copying, Is
    <3>4. PICK q \in Paths : Is(q, {"none"}) /\ tree' = [tree EXCEPT ![q] = Foreign]
      BY <2>2 DEF SomeoneCreates
    <3>5. q # Dest /\ q # Source
      BY <3>3, <3>4 DEF Is
    <3> QED
      BY <1>0, <3>2, <3>3, <3>4, <3>5, AssignedAt
  <2>3. CASE UNCHANGED vars
    BY <2>3 DEF vars, CopyThere, Source, Dest, Target
  <2>4. pc' # "remove" \/ Copy \/ SomeoneCreates \/ UNCHANGED vars
    BY DEF Next, Mover, Start, Look, MakeBackup, Ask, AfterAsk, Clear, Rename, Failed, Open,
           CopyFailed, Remove, Goes, Returns, Exit
  <2> QED
    BY <2>1, <2>2, <2>3, <2>4
<1> QED
  BY <1>2, <1>3

\* All of it together.
MvInv == TypeOK /\ MovesCounted /\ Several /\ OnlyAbroad /\ SourceThere /\ KeptWhere /\ CopyThere

\* The place in the list of operands, the nodes not whole, the source of the move
\* under way and the paths that hold each source are as the invariant says.
THEOREM MvInvariant ==
  ASSUME Assumptions
  PROVE  Spec => []MvInv
<1>1. Init => OnlyAbroad /\ SourceThere
  BY InitAbroad
<1>2. Init => KeptWhere /\ CopyThere
  <2> SUFFICES ASSUME Init PROVE KeptWhere /\ CopyThere
    OBVIOUS
  <2>1. \A t \in Trees : /\ t \in [Paths -> Node]
                        /\ \A p \in Paths : t[p] = None \/ (t[p].kind # "none" /\ t[p].of = p /\ t[p].whole = 1)
    BY Zenon DEF Assumptions
  <2>2. \A p \in Paths : tree[p].whole = 1 => tree[p].of = p
    BY <2>1, NodesRead DEF Init, NodeFacts
  <2> QED
    BY <2>2 DEF KeptWhere, Holds, CopyThere, Init
<1>3. TypeOK /\ TypeOK' /\ MovesCounted /\ Several /\ OnlyAbroad /\ SourceThere /\ [Next]_vars
        => OnlyAbroad' /\ SourceThere'
  BY AbroadKept
<1>4. TypeOK /\ TypeOK' /\ MovesCounted /\ Several /\ SourceThere /\ KeptWhere /\ CopyThere /\ [Next]_vars
        => KeptWhere' /\ CopyThere'
  BY KeptWhereStays
<1> QED
  BY <1>1, <1>2, <1>3, <1>4, Typing, PTL DEF Spec, MvInv

\* Whatever fails and wherever mv stops, the content of every source stays whole
\* under some name, as long as no backup has the name of a source.
THEOREM NothingLostHolds ==
  ASSUME Assumptions, BackupsApart
  PROVE  Spec => NothingLost
<1> DEFINE Step ==
      OneEach /\ "read" \notin hurt' =>
        \A j \in 1..Len(call.srcs) :
          (\E p \in Paths : Holds(p, call.srcs[j])) => \E p \in Paths : Holds(p, call.srcs[j])'
<1>1. MvInv /\ [Next]_vars => [Step]_vars
  <2> SUFFICES ASSUME MvInv, [Next]_vars, OneEach, "read" \notin hurt',
                      NEW j \in 1..Len(call.srcs), NEW p \in Paths, Holds(p, call.srcs[j])
               PROVE  \E q \in Paths : tree'[q].of = call.srcs[j] /\ tree'[q].whole = 1
    <3>1. MvInv /\ [Next]_vars => call' = call
      BY ReachedStays DEF MvInv
    <3> QED
      BY <3>1 DEF Holds
  <2> USE DEF MvInv
  <2>0. Source \in Paths /\ Dest \in Paths
    BY PathsKnown
  <2>1. CASE tree'[p] = tree[p]
    BY <2>1 DEF Holds
  <2>2. ASSUME pc \in Busy, pc # "remove" PROVE p # Dest
    BY <2>2, DestFree
  <2>3. CASE MakeBackup
    <3>1. p # Dest /\ pc = "backup"
      BY <2>2, <2>3 DEF MakeBackup, Busy
    <3>2. p = call.srcs[j] \/ p = Target(j)
      BY DEF KeptWhere
    <3>3. p # Backup[Dest]
      BY <3>2, BackupFree
    <3>4. tree' = tree \/ tree' = Renamed(Dest, Backup[Dest])
      BY <2>3 DEF MakeBackup
    <3>5. Backup[Dest] \in Paths
      BY PathsKnown
    <3> QED
      BY <2>0, <2>1, <3>1, <3>3, <3>4, <3>5, RenamedAt
  <2>4. CASE (Clear \/ Open \/ Copy) /\ p # Dest
    <3>1. tree' = tree \/ \E n : tree' = [tree EXCEPT ![Dest] = n]
      BY <2>4 DEF Clear, Open, Copy
    <3>2. tree'[p] = tree[p]
      <4>1. ASSUME NEW n, tree' = [tree EXCEPT ![Dest] = n] PROVE tree'[p] = tree[p]
        BY <2>0, <2>4, <4>1, AssignedAt
      <4> QED
        BY <3>1, <4>1
    <3> QED
      BY <2>1, <3>2
  <2>5. CASE Rename /\ Returns(0) /\ \A r \in Paths :
               tree'[r] = IF r = Source THEN None ELSE IF r = Dest THEN tree[Source] ELSE tree[r]
    <3>1. p # Dest /\ Dest # Source
      BY <2>2, <2>5 DEF Rename, Busy, SourceThere
    <3>2. CASE p = Source
      <4>1. tree'[Dest] = tree[p]
        BY <2>0, <2>5, <3>1, <3>2
      <4> QED
        BY <2>0, <4>1 DEF Holds
    <3> QED
      BY <2>1, <2>5, <3>1, <3>2
  <2>6. CASE Remove /\ \A r \in Paths : tree'[r] = IF r = Source THEN None ELSE tree[r]
    <3>1. pc = "remove" /\ "read" \notin hurt
      BY <2>6 DEF Remove
    <3>2. tree[Dest] = tree[Source] /\ Dest # Source
      BY <3>1 DEF CopyThere, SourceThere, Busy, Copying
    <3>3. CASE p = Source
      <4>1. tree'[Dest] = tree[p]
        BY <2>0, <2>6, <3>2, <3>3
      <4> QED
        BY <2>0, <4>1 DEF Holds
    <3> QED
      BY <2>1, <2>6, <3>3
  <2>7. CASE SomeoneCreates
    <3>1. PICK q \in Paths : Is(q, {"none"}) /\ tree' = [tree EXCEPT ![q] = Foreign]
      BY <2>7 DEF SomeoneCreates
    <3>2. q # p
      BY <3>1 DEF Is, OnlyAbroad, Holds
    <3> QED
      BY <2>1, <3>1, <3>2, AssignedAt
  <2>8. Clear \/ Open \/ Copy => p # Dest
    BY <2>2 DEF Clear, Open, Copy, Busy, Copying
  <2>9. tree' = tree => tree'[p] = tree[p]
    OBVIOUS
  <2> QED
    BY <2>1, <2>3, <2>4, <2>5, <2>6, <2>7, <2>8, <2>9, TreeChanges DEF TreeChange
<1> QED
  BY <1>1, MvInvariant, PTL DEF Spec, NothingLost

-----------------------------------------------------------------------------
(* mv: what has arrived *)

\* The sources that are still to be moved.
Ahead(j) == j > i \/ (j = i /\ pc # "exited")
Behind == IF pc = "exited" THEN i ELSE i - 1

\* Nothing has happened to the sources that are still to be moved.
InPlace ==
  OneEach /\ hurt = {} =>
    \A j \in 1..Len(call.srcs) : Ahead(j) => Is(call.srcs[j], {"none"}) \/ Holds(call.srcs[j], call.srcs[j])

\* If every call of move_item was a success so far, every source has arrived.
DoneArrived ==
  OneEach /\ Quietly /\ hurt = {} /\ moved = Behind =>
    \A j \in 1..Len(call.srcs) : j <= moved => Arrived(j)

\* mv ends with 0 when every source has been moved.
Verdict == pc = "exited" /\ status = 0 => moved = Len(call.srcs)

\* When nothing else happens, a step of mv leaves the other sources, and what
\* has arrived, alone.
LEMMA OthersStay ==
  ASSUME Assumptions, BackupsApart, MvInv, [Next]_vars, OneEach, hurt' = {},
         NEW j \in 1..Len(call.srcs)
  PROVE  /\ hurt = {}
         /\ Ahead(j)' => tree'[call.srcs[j]] = tree[call.srcs[j]] /\ Ahead(j)
         /\ j < i /\ pc # "start" => tree'[Target(j)] = tree[Target(j)] /\ Target(j)' = Target(j)
<1> USE DEF MvInv
<1>0. /\ Source \in Paths /\ Dest \in Paths /\ call.srcs[j] \in Paths /\ Target(j) \in Paths
      /\ i \in Int /\ i \in 1..Len(call.srcs)
  BY PathsKnown
<1>1. hurt = {} /\ ~SomeoneCreates
  BY DEF Next, Mover, Start, Look, MakeBackup, Ask, Clear, Rename, Failed, Open, Copy,
         CopyFailed, Remove, SomeoneCreates, vars, callVars
<1>2. Ahead(j)' => Ahead(j)
  <2>1. UNCHANGED <<i, pc>> \/ i' = i + 1 \/ (i' = i /\ (pc # "exited" \/ pc' = "exited"))
    BY DEF Next, Mover, Start, Look, MakeBackup, Ask, Clear, Rename, Failed, Open, Copy,
           CopyFailed, Remove, SomeoneCreates, vars, Goes, Exit, Returns
  <2> QED
    BY <1>0, <2>1 DEF Ahead
<1>3. j < i /\ pc # "start" => Target(j)' = Target(j)
  BY ReachedStays
<1>4. /\ pc \in Busy => Dest # call.srcs[j]
      /\ pc \in Busy /\ j # i => Source # call.srcs[j] /\ Target(j) # Dest /\ Target(j) # Source
      /\ Backup[Dest] # call.srcs[j] /\ Backup[Dest] # Target(j)
  BY DestFree, BackupFree
<1>5. Returns(0) /\ Ahead(j)' => j # i
  BY <1>0 DEF Returns, Exit, Ahead
<1>6. j < i => j # i
  BY <1>0
<1>7. CASE tree' = tree
  BY <1>1, <1>2, <1>3, <1>7
<1>8. CASE TreeChange
  <2>1. pc \in Busy
    BY <1>1, <1>8 DEF TreeChange, MakeBackup, Clear, Rename, Open, Copy, Remove, Busy, Copying
  <2>2. Ahead(j)' => tree'[call.srcs[j]] = tree[call.srcs[j]]
    BY <1>0, <1>1, <1>4, <1>5, <1>8, <2>1 DEF TreeChange
  <2>3. j < i => tree'[Target(j)] = tree[Target(j)]
    BY <1>0, <1>1, <1>4, <1>6, <1>8, <2>1 DEF TreeChange
  <2> QED
    BY <1>1, <1>2, <1>3, <2>2, <2>3
<1> QED
  BY <1>7, <1>8, TreeChanges

\* move_item returns 0 for a source that has arrived, unless an option lets it
\* skip one.
LEMMA SuccessArrives ==
  ASSUME Assumptions, MvInv, InPlace, [Next]_vars, OneEach, Quietly, hurt = {}, hurt' = {},
         moved' # moved
  PROVE  /\ Returns(0) /\ pc \notin {"start", "exited"}
         /\ tree'[Dest].of = Source /\ tree'[Dest].whole = 1
<1> USE DEF MvInv
<1>0. /\ Source \in Paths /\ Dest \in Paths /\ Source = call.srcs[i] /\ Dest = Target(i)
      /\ i \in Int /\ i \in 1..Len(call.srcs) /\ moved \in Int
  BY PathsKnown DEF Source, Dest, TypeOK
<1>1. ASSUME pc # "exited", ~Is(Source, {"none"}) PROVE tree[Source].of = Source /\ tree[Source].whole = 1
  BY <1>0, <1>1 DEF InPlace, Ahead, Holds
<1>2. ASSUME Returns(-1) PROVE FALSE
  BY <1>2 DEF Returns
<1>3. CASE Look
  <2>1. Returns(0)
    BY <1>2, <1>3 DEF Look, Goes
  <2>2. pc = "look" /\ tree' = tree
    BY <1>3 DEF Look
  <2>3. ~Is(Source, {"none"}) /\ Dest = Source
    BY <1>3, <2>1, <1>2, <1>0 DEF Look, Returns, Goes, TooOld, Quietly
  <2> QED
    BY <1>1, <2>1, <2>2, <2>3
<1>4. CASE Ask
  BY <1>4 DEF Ask, Goes, Quietly
<1>5. CASE Rename
  <2>1. Returns(0) /\ tree' = Renamed(Source, Dest) /\ pc = "rename"
    BY <1>5 DEF Rename, Goes
  <2>2. ~Is(Source, {"none"}) /\ Dest # Source
    BY <2>1 DEF SourceThere, Busy
  <2>3. tree'[Dest] = tree[Source]
    BY <1>0, <2>1, <2>2, RenamedAt
  <2> QED
    BY <1>1, <2>1, <2>2, <2>3
<1>6. CASE Remove
  <2>1. Returns(0) /\ tree' = [tree EXCEPT ![Source] = None] /\ pc = "remove"
    BY <1>2, <1>6 DEF Remove
  <2>2. ~Is(Source, {"none"}) /\ Dest # Source /\ tree[Dest] = tree[Source]
    BY <2>1 DEF SourceThere, CopyThere, Busy, Copying
  <2>3. tree'[Dest] = tree[Source]
    BY <1>0, <2>1, <2>2, AssignedAt
  <2> QED
    BY <1>1, <2>1, <2>2, <2>3
<1>7. CASE Failed \/ Open \/ CopyFailed \/ Copy \/ Clear \/ MakeBackup
  BY <1>2, <1>7 DEF Failed, Open, CopyFailed, Copy, Clear, MakeBackup, Goes
<1>8. CASE Start \/ SomeoneCreates \/ UNCHANGED vars
  BY <1>8 DEF Start, SomeoneCreates, vars
<1> QED
  BY <1>3, <1>4, <1>5, <1>6, <1>7, <1>8 DEF Next, Mover

\* A source that has arrived stays where it arrived while mv says nothing of an
\* error, and so the exit status tells the truth.
LEMMA ArrivedStays ==
  ASSUME Assumptions, BackupsApart, MvInv, TypeOK', MovesCounted', InPlace, DoneArrived, Verdict, [Next]_vars
  PROVE  InPlace' /\ DoneArrived' /\ Verdict'
<1> USE DEF MvInv
<1>0. /\ Source \in Paths /\ Dest \in Paths /\ Source = call.srcs[i] /\ Dest = Target(i)
      /\ i \in Int /\ i \in 1..Len(call.srcs) /\ moved \in 0..i /\ Len(call.srcs) \in Nat
  BY PathsKnown DEF Source, Dest, TypeOK
<1>1. call' = call /\ opts' = opts /\ OneEach' = OneEach /\ Quietly' = Quietly
  BY ReachedStays DEF OneEach, Quietly
<1>2. InPlace'
  <2> SUFFICES ASSUME OneEach, hurt' = {}, NEW j \in 1..Len(call.srcs), Ahead(j)'
               PROVE  \/ tree'[call.srcs[j]].kind = "none"
                      \/ tree'[call.srcs[j]].of = call.srcs[j] /\ tree'[call.srcs[j]].whole = 1
    BY <1>1 DEF InPlace, Is, Holds
  <2>1. hurt = {} /\ tree'[call.srcs[j]] = tree[call.srcs[j]] /\ Ahead(j)
    BY OthersStay
  <2>2. Is(call.srcs[j], {"none"}) \/ Holds(call.srcs[j], call.srcs[j])
    BY <2>1 DEF InPlace
  <2> QED
    BY <2>1, <2>2 DEF Is, Holds
<1>3. DoneArrived'
  <2> SUFFICES ASSUME OneEach, Quietly, hurt' = {}, moved' = Behind',
                      NEW j \in 1..Len(call.srcs), j <= moved'
               PROVE  tree'[Target(j)'].of = call.srcs[j] /\ tree'[Target(j)'].whole = 1
    BY <1>1 DEF DoneArrived, Arrived, Holds
  <2>1. hurt = {}
    BY <1>0, OthersStay
  <2>2. CASE moved' # moved
    <3>1. /\ Returns(0) /\ pc \notin {"start", "exited"}
          /\ tree'[Dest].of = Source /\ tree'[Dest].whole = 1
      BY <2>1, <2>2, SuccessArrives
    <3>2. moved' = moved + 1 /\ moved' = i /\ moved = Behind
      <4>1. moved' = moved + 1 /\ ((i' = i + 1 /\ pc' = "look") \/ (i' = i /\ pc' = "exited"))
        BY <3>1 DEF Returns, Exit
      <4>2. Behind' = i /\ Behind = i - 1
        <5>1. CASE pc' = "exited"
          BY <3>1, <4>1, <5>1 DEF Behind
        <5>2. CASE pc' = "look" /\ i' = i + 1
          BY <1>0, <3>1, <5>2 DEF Behind
        <5> QED
          BY <4>1, <5>1, <5>2
      <4>3. moved' = Behind' /\ moved \in Int
        BY <1>0
      <4>4. moved + 1 = i
        BY <4>1, <4>2, <4>3
      <4> QED
        BY <1>0, <4>1, <4>2, <4>3, <4>4
    <3>3. Target(j)' = Target(j)
      BY <3>1, ReachedStays
    <3>4. CASE j = i
      BY <1>0, <3>1, <3>3, <3>4
    <3>5. CASE j < i
      <4>1. j <= moved
        BY <1>0, <3>2, <3>5
      <4>2. Arrived(j)
        BY <2>1, <3>2, <4>1 DEF DoneArrived
      <4>3. tree'[Target(j)] = tree[Target(j)]
        BY <3>1, <3>5, OthersStay
      <4> QED
        BY <3>3, <4>2, <4>3 DEF Arrived, Holds
    <3> QED
      BY <1>0, <3>2, <3>4, <3>5
  <2>3. CASE moved' = moved
    <3>1. moved = Behind /\ ((pc = "exited" \/ j < i) /\ (pc = "exited" => UNCHANGED vars))
      <4>1. CASE pc = "exited"
        <5>1. UNCHANGED vars
          BY <4>1 DEF Next, Mover, Start, Look, MakeBackup, Ask, Clear, Rename, Failed, Open, Copy,
                      CopyFailed, Remove, SomeoneCreates
        <5> QED
          BY <4>1, <5>1 DEF vars, Behind
      <4>2. CASE pc # "exited"
        <5>1. moved < i /\ j < i
          BY <1>0, <2>3, <4>2 DEF MovesCounted
        <5>2. i' = i \/ i' = i + 1
          BY DEF Next, Mover, Start, Look, MakeBackup, Ask, Clear, Rename, Failed, Open, Copy,
                 CopyFailed, Remove, SomeoneCreates, vars, Goes, Exit, Returns
        <5>3. i' = i + 1 => pc' = "look"
          BY <1>0, <5>2 DEF Next, Mover, Start, Look, MakeBackup, Ask, Clear, Rename, Failed, Open, Copy,
                 CopyFailed, Remove, SomeoneCreates, vars, Goes, Exit, Returns
        <5>4. moved = i - 1 \/ moved = i
          BY <1>0, <2>3, <5>2, <5>3 DEF Behind
        <5> QED
          BY <1>0, <4>2, <5>1, <5>4 DEF Behind
      <4> QED
        BY <4>1, <4>2
    <3>2. Arrived(j)
      BY <2>1, <2>3, <3>1 DEF DoneArrived
    <3>3. CASE pc = "exited"
      BY <3>1, <3>2, <3>3 DEF vars, Arrived, Holds, Target
    <3>4. CASE pc # "exited"
      <4>1. pc # "start"
        BY <1>0, <2>3, <3>1, <3>4 DEF MovesCounted
      <4> QED
        BY <3>1, <3>2, <3>4, <4>1, OthersStay DEF Arrived, Holds
    <3> QED
      BY <3>3, <3>4
  <2> QED
    BY <2>2, <2>3
<1>4. Verdict'
  <2> SUFFICES ASSUME pc' = "exited", status' = 0 PROVE moved' = Len(call.srcs)
    BY <1>1 DEF Verdict
  <2>1. CASE pc = "exited"
    <3>1. UNCHANGED vars
      BY <2>1 DEF Next, Mover, Start, Look, MakeBackup, Ask, Clear, Rename, Failed, Open, Copy,
                  CopyFailed, Remove, SomeoneCreates
    <3> QED
      BY <2>1, <3>1 DEF Verdict, vars
  <2>2. CASE pc # "exited"
    <3>1. \E r : Returns(r)
      BY <2>2 DEF Next, Mover, Start, Look, MakeBackup, Ask, AfterAsk, Clear, Rename, Failed, Open, Copy,
                  WriteFailed, CopyFailed, Remove, SomeoneCreates, vars, Goes, Exit
    <3> QED
      BY <2>2, <3>1 DEF Returns, Exit, ExitStatus, AllMoved
  <2> QED
    BY <2>1, <2>2
<1> QED
  BY <1>2, <1>3, <1>4

\* When nothing fails and nobody interferes, and without the options that skip,
\* exit status 0 means that every source is where it should be.
THEOREM ZeroMeansMovedHolds ==
  ASSUME Assumptions, BackupsApart
  PROVE  Spec => []ZeroMeansMoved
<1>1. Init => InPlace /\ DoneArrived /\ Verdict
  <2> SUFFICES ASSUME Init PROVE InPlace /\ DoneArrived /\ Verdict
    OBVIOUS
  <2>1. \A t \in Trees : /\ t \in [Paths -> Node]
                        /\ \A p \in Paths : t[p] = None \/ (t[p].kind # "none" /\ t[p].of = p /\ t[p].whole = 1)
    BY Zenon DEF Assumptions
  <2>2. \A p \in Paths : tree[p].kind = "none" \/ (tree[p].of = p /\ tree[p].whole = 1)
    BY <2>1, NodesRead DEF Init, NodeFacts
  <2>3. \A j \in 1..Len(call.srcs) : call.srcs[j] \in Paths
    <3>1. call.srcs \in Seq(Paths)
      BY DEF Init, Assumptions
    <3> QED
      BY <3>1
  <2> QED
    BY <2>2, <2>3 DEF Init, InPlace, DoneArrived, Verdict, Is, Holds
<1>2. MvInv /\ MvInv' /\ InPlace /\ DoneArrived /\ Verdict /\ [Next]_vars
        => InPlace' /\ DoneArrived' /\ Verdict'
  BY ArrivedStays DEF MvInv
<1>3. MvInv /\ DoneArrived /\ Verdict => ZeroMeansMoved
  <2> SUFFICES ASSUME MvInv, DoneArrived, pc = "exited", moved = Len(call.srcs),
                      OneEach, Quietly, hurt = {}, NEW j \in 1..Len(call.srcs)
               PROVE  Arrived(j)
    BY DEF ZeroMeansMoved, Verdict
  <2>1. moved = Behind /\ j <= moved
    BY PathsKnown DEF MvInv, TypeOK, Behind
  <2> QED
    BY <2>1 DEF DoneArrived
<1> QED
  BY <1>1, <1>2, <1>3, MvInvariant, PTL DEF Spec

-----------------------------------------------------------------------------
(* tail: the ring *)

\* A ring of w slots.
Rings(w) == [lines : [1..w -> Int], start : 0..(w - 1), count : 0..w]

\* A number below twice the modulus is reduced by at most one subtraction.
LEMMA ModOnce ==
  ASSUME NEW w \in Nat \ {0}, NEW a \in Nat, a < 2 * w
  PROVE  a % w = IF a < w THEN a ELSE a - w
OBVIOUS

\* A function on 1..n is a sequence of n members.
LEMMA FunctionIsSeq ==
  ASSUME NEW S, NEW n \in Nat, NEW q \in [1..n -> S]
  PROVE  q \in Seq(S) /\ Len(q) = n
OBVIOUS

\* What Append and Tail give, place by place.
LEMMA AppendIs ==
  ASSUME NEW q \in Seq(Int), NEW x \in Int, NEW n \in Nat, n = Len(q)
  PROVE  Append(q, x) = [k \in 1..(n + 1) |-> IF k = n + 1 THEN x ELSE q[k]]
<1> DEFINE f == [k \in 1..(n + 1) |-> IF k = n + 1 THEN x ELSE q[k]]
<1>1. /\ Append(q, x) \in Seq(Int) /\ Len(Append(q, x)) = n + 1
      /\ \A k \in 1..(n + 1) : Append(q, x)[k] = IF k = n + 1 THEN x ELSE q[k]
  BY AppendProperties
<1>2. f \in Seq(Int) /\ Len(f) = n + 1
  <2>1. \A k \in 1..(n + 1) : (IF k = n + 1 THEN x ELSE q[k]) \in Int
    OBVIOUS
  <2>2. f \in [1..(n + 1) -> Int]
    BY <2>1
  <2> QED
    BY <2>2
<1>3. \A k \in 1..Len(f) : Append(q, x)[k] = f[k]
  BY <1>1, <1>2
<1> QED
  BY <1>1, <1>2, <1>3, SeqEqual

\* What Tail leaves of a queue.
LEMMA TailIs ==
  ASSUME NEW q \in Seq(Int), NEW n \in Nat \ {0}, n = Len(q)
  PROVE  Tail(q) = [k \in 1..(n - 1) |-> q[k + 1]] /\ Tail(q) \in Seq(Int) /\ Len(Tail(q)) = n - 1
<1> DEFINE f == [k \in 1..(n - 1) |-> q[k + 1]]
<1>1. q # <<>>
  OBVIOUS
<1>2. /\ Tail(q) \in Seq(Int) /\ Len(Tail(q)) = n - 1
      /\ \A k \in 1..(n - 1) : Tail(q)[k] = q[k + 1]
  BY <1>1, HeadTailProperties
<1>3. f \in Seq(Int) /\ Len(f) = n - 1
  <2>1. \A k \in 1..(n - 1) : q[k + 1] \in Int
    OBVIOUS
  <2>2. f \in [1..(n - 1) -> Int]
    BY <2>1
  <2> QED
    BY <2>2
<1>4. \A k \in 1..Len(f) : Tail(q)[k] = f[k]
  BY <1>2, <1>3
<1>5. Tail(q) = f
  BY <1>2, <1>3, <1>4, SeqEqual
<1> QED
  BY <1>2, <1>5

\* A line that is added comes behind the others; when the ring is full, the
\* oldest one goes.
LEMMA AddedIs ==
  ASSUME Wanted \in Nat \ {0}, NEW r \in Rings(Wanted), NEW x \in Int
  PROVE  /\ Added(r, x) \in Rings(Wanted)
         /\ InOrder(r) \in Seq(Int) /\ Len(InOrder(r)) = r.count
         /\ InOrder(Added(r, x)) = IF r.count < Wanted THEN Append(InOrder(r), x) ELSE Append(Tail(InOrder(r)), x)
<1> DEFINE a == Added(r, x)
           o == InOrder(r)
           old == IF r.count < Wanted THEN o ELSE Tail(o)
<1>1. PICK w \in Nat \ {0} : w = Wanted
  OBVIOUS
<1>2. PICK s \in 0..(w - 1), n \in 0..w : s = r.start /\ n = r.count
  BY <1>1 DEF Rings
<1>3. r.lines \in [1..w -> Int]
  BY <1>1 DEF Rings
<1>4. \A k \in 0..(w - 1) : (s + k) % w = IF s + k < w THEN s + k ELSE s + k - w
  <2> SUFFICES ASSUME NEW k \in 0..(w - 1) PROVE (s + k) % w = IF s + k < w THEN s + k ELSE s + k - w
    OBVIOUS
  <2>1. PICK b \in Nat : b = s + k /\ b < 2 * w
    OBVIOUS
  <2>2. b % w = IF b < w THEN b ELSE b - w
    BY <2>1, ModOnce
  <2> QED
    BY <2>1, <2>2
<1>5. (s + w) % w = s
  <2>1. PICK b \in Nat : b = s + w
    OBVIOUS
  <2> QED
    BY <2>1, ModOnce
<1>6. \A k \in 0..(w - 1) : (s + k) % w \in 0..(w - 1)
  BY <1>4
<1>7. Slot(r) = IF n < w THEN (s + n) % w ELSE s
  BY <1>1, <1>2, <1>5 DEF Slot
<1>8. Slot(r) \in 0..(w - 1)
  BY <1>2, <1>6, <1>7
<1>9. PICK t \in 0..(w - 1) : t = Slot(r)
  BY <1>8
<1>10. PICK s2 \in 0..(w - 1) : s2 = IF n < w THEN s ELSE (s + 1) % w
  <2>1. CASE n < w
    BY <2>1
  <2>2. CASE n = w /\ w = 1
    BY <2>2
  <2>3. CASE n = w /\ w > 1
    BY <2>3, <1>6
  <2> QED
    BY <2>1, <2>2, <2>3
<1>11. PICK n2 \in 0..w : n2 = IF n < w THEN n + 1 ELSE n
  OBVIOUS
<1>12. /\ a.lines = [r.lines EXCEPT ![t + 1] = x] /\ a.start = s2 /\ a.count = n2
       /\ a = [lines |-> [r.lines EXCEPT ![t + 1] = x], count |-> n2, start |-> s2]
  BY <1>1, <1>2, <1>9, <1>10, <1>11 DEF Added, Counted
<1>13. a \in Rings(Wanted)
  BY <1>1, <1>3, <1>12 DEF Rings
<1>14. o = [k \in 1..n |-> r.lines[((s + k - 1) % w) + 1]]
  BY <1>1, <1>2 DEF InOrder
<1>15. \A k \in 1..n : ((s + k - 1) % w) + 1 \in 1..w
  <2> SUFFICES ASSUME NEW k \in 1..n PROVE ((s + k - 1) % w) + 1 \in 1..w
    OBVIOUS
  <2>1. PICK j \in 0..(w - 1) : j = k - 1
    OBVIOUS
  <2> QED
    BY <2>1, <1>6
<1>16. o \in Seq(Int) /\ Len(o) = n
  <2>1. o \in [1..n -> Int]
    BY <1>3, <1>14, <1>15
  <2> QED
    BY <2>1
<1>17. InOrder(a) = [k \in 1..n2 |-> a.lines[((s2 + k - 1) % w) + 1]]
  BY <1>1, <1>12 DEF InOrder
<1>18. \A k \in 1..n2 : ((s2 + k - 1) % w) + 1 \in 1..w
  <2> SUFFICES ASSUME NEW k \in 1..n2 PROVE ((s2 + k - 1) % w) + 1 \in 1..w
    OBVIOUS
  <2>1. PICK b \in Nat : b = s2 + k - 1 /\ b < 2 * w
    OBVIOUS
  <2> QED
    BY <2>1, ModOnce
<1>19. CASE n < w
  <2>1. s2 = s /\ n2 = n + 1 /\ t = (s + n) % w
    BY <1>7, <1>9, <1>10, <1>11, <1>19
  <2>2. Append(o, x) = [k \in 1..(n + 1) |-> IF k = n + 1 THEN x ELSE o[k]]
    BY <1>16, AppendIs
  <2>3. ASSUME NEW k \in 1..(n + 1)
        PROVE  a.lines[((s + k - 1) % w) + 1] = IF k = n + 1 THEN x ELSE o[k]
    <3>1. PICK j \in 0..(w - 1) : j = k - 1 /\ j <= n
      BY <1>19
    <3>2. s + k - 1 = s + j
      BY <3>1
    <3>3. PICK p \in 0..(w - 1) : p = (s + j) % w
      BY <1>6
    <3>4. a.lines[p + 1] = IF p = t THEN x ELSE r.lines[p + 1]
      BY <1>3, <1>12
    <3>5. p = t <=> j = n
      <4>1. p = IF s + j < w THEN s + j ELSE s + j - w
        BY <3>3, <1>4
      <4>2. t = IF s + n < w THEN s + n ELSE s + n - w
        BY <2>1, <1>19, <1>4
      <4> QED
        BY <4>1, <4>2, <3>1, <1>19
    <3>6. j # n => o[k] = r.lines[p + 1]
      BY <1>14, <3>1, <3>2, <3>3
    <3> QED
      BY <3>1, <3>2, <3>3, <3>4, <3>5, <3>6
  <2>4. InOrder(a) = Append(o, x)
    BY <1>17, <2>1, <2>2, <2>3
  <2> QED
    BY <2>4, <1>1, <1>2, <1>13, <1>16, <1>19
<1>20. CASE n = w
  <2>1. s2 = (s + 1) % w /\ n2 = w /\ t = s
    BY <1>7, <1>9, <1>10, <1>11, <1>20
  <2>2. Tail(o) = [k \in 1..(w - 1) |-> o[k + 1]] /\ Tail(o) \in Seq(Int) /\ Len(Tail(o)) = w - 1
    BY <1>16, <1>20, TailIs
  <2>3. Append(Tail(o), x) = [k \in 1..w |-> IF k = w THEN x ELSE Tail(o)[k]]
    <3>1. PICK q \in Seq(Int) : q = Tail(o) /\ Len(q) = w - 1
      BY <2>2
    <3>2. PICK m \in Nat : m = w - 1
      OBVIOUS
    <3>3. Append(q, x) = [k \in 1..(m + 1) |-> IF k = m + 1 THEN x ELSE q[k]]
      BY <3>1, <3>2, AppendIs
    <3>4. m + 1 = w
      BY <3>2
    <3> QED
      BY <3>1, <3>3, <3>4
  <2>4. ASSUME NEW k \in 1..w
        PROVE  a.lines[((s2 + k - 1) % w) + 1] = IF k = w THEN x ELSE Tail(o)[k]
    <3>1. s2 = IF s + 1 < w THEN s + 1 ELSE s + 1 - w
      <4>1. PICK b \in Nat : b = s + 1 /\ b < 2 * w
        OBVIOUS
      <4>2. b % w = IF b < w THEN b ELSE b - w
        BY <4>1, ModOnce
      <4> QED
        BY <2>1, <4>1, <4>2
    <3>2. PICK b \in Nat : b = s2 + k - 1 /\ b < 2 * w
      OBVIOUS
    <3>3. PICK p \in 0..(w - 1) : p = b % w
      BY <1>18, <1>11, <2>1, <3>2
    <3>4. p = IF b < w THEN b ELSE b - w
      BY <3>2, <3>3, ModOnce
    <3>5. a.lines[p + 1] = IF p = t THEN x ELSE r.lines[p + 1]
      BY <1>3, <1>12
    <3>6. p = t <=> k = w
      BY <2>1, <3>1, <3>2, <3>4
    <3>7. k # w => Tail(o)[k] = r.lines[p + 1]
      <4> SUFFICES ASSUME k # w PROVE Tail(o)[k] = r.lines[p + 1]
        OBVIOUS
      <4> k < w
        OBVIOUS
      <4>1. Tail(o)[k] = o[k + 1]
        BY <2>2
      <4>2. o[k + 1] = r.lines[((s + k) % w) + 1]
        <5>1. PICK m \in 1..n : m = k + 1
          BY <1>20
        <5>2. o[m] = r.lines[((s + m - 1) % w) + 1]
          BY <1>14
        <5>3. s + m - 1 = s + k
          BY <5>1
        <5> QED
          BY <5>1, <5>2, <5>3
      <4>3. (s + k) % w = p
        BY <1>4, <3>1, <3>2, <3>4
      <4> QED
        BY <4>1, <4>2, <4>3
    <3> QED
      BY <3>2, <3>3, <3>5, <3>6, <3>7
  <2>5. InOrder(a) = Append(Tail(o), x)
    BY <1>17, <2>1, <2>3, <2>4
  <2> QED
    BY <2>5, <1>1, <1>2, <1>13, <1>16, <1>20
<1> QED
  BY <1>19, <1>20

\* The last w of a sequence, when it grows.
LEMMA LastAppended ==
  ASSUME NEW w \in Nat \ {0}, NEW q \in Seq(Int), NEW x \in Int, NEW n \in Nat, n = Len(q)
  PROVE  /\ LastOf(q, w) \in Seq(Int) /\ Len(LastOf(q, w)) = Smaller(w, n)
         /\ LastOf(Append(q, x), w) =
              IF n < w THEN Append(LastOf(q, w), x) ELSE Append(Tail(LastOf(q, w)), x)
<1> DEFINE a == Append(q, x)
<1>1. /\ a \in Seq(Int) /\ Len(a) = n + 1 /\ a[n + 1] = x
      /\ \A k \in 1..n : a[k] = q[k]
  BY AppendProperties
<1>2. PICK m \in 0..n : m = Smaller(w, n) /\ m <= w /\ (m = n \/ m = w) /\ (n >= w => m = w)
  BY DEF Smaller
<1>3. PICK d \in 0..n : d = n - m
  OBVIOUS
<1>4. LastOf(q, w) = SubSeq(q, d + 1, n)
  BY <1>2, <1>3 DEF LastOf
<1>5. /\ LastOf(q, w) \in Seq(Int) /\ Len(LastOf(q, w)) = m
      /\ \A k \in 1..m : LastOf(q, w)[k] = q[d + k]
  <2>1. PICK b \in Int : b = d + 1
    OBVIOUS
  <2>2. \A k \in b..n : q[k] \in Int
    BY <2>1
  <2>3. /\ SubSeq(q, b, n) \in Seq(Int)
        /\ Len(SubSeq(q, b, n)) = IF b <= n THEN n - b + 1 ELSE 0
        /\ \A k \in 1..(n - b + 1) : SubSeq(q, b, n)[k] = q[b + k - 1]
    BY <2>2, SubSeqProperties
  <2>4. (IF b <= n THEN n - b + 1 ELSE 0) = m /\ n - b + 1 = m /\ \A k \in 1..m : b + k - 1 = d + k
    BY <2>1, <1>3
  <2> QED
    BY <1>4, <2>1, <2>3, <2>4
<1>6. CASE n < w
  <2>1. m = n /\ d = 0
    BY <1>2, <1>3, <1>6
  <2>2. Smaller(w, n + 1) = n + 1
    BY <1>6 DEF Smaller
  <2>3. LastOf(a, w) = SubSeq(a, 1, n + 1)
    <3>1. LastOf(a, w) = SubSeq(a, (n + 1) - Smaller(w, n + 1) + 1, n + 1)
      BY <1>1, Zenon DEF LastOf
    <3>2. (n + 1) - (n + 1) + 1 = 1
      OBVIOUS
    <3> QED
      BY <3>1, <3>2, <2>2
  <2>4. SubSeq(a, 1, n + 1) = a
    BY <1>1, SubSeqFull
  <2>5. SubSeq(q, 1, n) = q
    BY SubSeqFull
  <2> QED
    BY <1>2, <1>4, <1>5, <1>6, <2>1, <2>3, <2>4, <2>5
<1>7. CASE n >= w
  <2>1. m = w
    BY <1>2, <1>7
  <2>2. Smaller(w, n + 1) = w
    BY <1>7 DEF Smaller
  <2>3. LastOf(a, w) = SubSeq(a, d + 2, n + 1)
    <3>1. LastOf(a, w) = SubSeq(a, (n + 1) - Smaller(w, n + 1) + 1, n + 1)
      BY <1>1, Zenon DEF LastOf
    <3>2. (n + 1) - w + 1 = d + 2
      BY <1>3, <2>1
    <3> QED
      BY <3>1, <3>2, <2>2
  <2>4. /\ SubSeq(a, d + 2, n + 1) \in Seq(Int) /\ Len(SubSeq(a, d + 2, n + 1)) = w
        /\ \A k \in 1..w : SubSeq(a, d + 2, n + 1)[k] = a[d + 1 + k]
    <3>1. PICK b \in Int, e \in Int : b = d + 2 /\ e = n + 1
      OBVIOUS
    <3>5. e - b + 1 = w /\ b <= e
      BY <3>1, <1>3, <2>1
    <3>2. \A k \in b..e : a[k] \in Int
      <4> SUFFICES ASSUME NEW k \in b..e PROVE a[k] \in Int
        OBVIOUS
      <4>1. k \in 1..(n + 1)
        BY <3>1
      <4> QED
        BY <4>1, <1>1
    <3>6. PICK c : c = a
      OBVIOUS
    <3>7. \A k \in b..e : c[k] \in Int
      BY <3>2, <3>6
    <3>3. /\ SubSeq(c, b, e) \in Seq(Int)
          /\ Len(SubSeq(c, b, e)) = IF b <= e THEN e - b + 1 ELSE 0
          /\ \A k \in 1..(e - b + 1) : SubSeq(c, b, e)[k] = c[b + k - 1]
      BY <3>7, SubSeqProperties
    <3>4. \A k \in 1..w : b + k - 1 = d + 1 + k
      BY <3>1
    <3> QED
      BY <3>1, <3>3, <3>4, <3>5, <3>6
  <2>5. PICK l \in Seq(Int) : l = LastOf(q, w) /\ Len(l) = w
    BY <1>5, <2>1
  <2>6. /\ Tail(l) = [k \in 1..(w - 1) |-> l[k + 1]] /\ Tail(l) \in Seq(Int) /\ Len(Tail(l)) = w - 1
    BY <2>5, TailIs
  <2>7. PICK t \in Seq(Int) : t = Tail(l) /\ Len(t) = w - 1
    BY <2>6
  <2>8. PICK j \in Nat : j = w - 1
    OBVIOUS
  <2>9. Append(t, x) = [k \in 1..(j + 1) |-> IF k = j + 1 THEN x ELSE t[k]]
    BY <2>7, <2>8, AppendIs
  <2>10. ASSUME NEW k \in 1..w PROVE a[d + 1 + k] = IF k = w THEN x ELSE t[k]
    <3>1. CASE k = w
      <4>1. d + 1 + k = n + 1
        BY <3>1, <1>3, <2>1
      <4> QED
        BY <4>1, <3>1, <1>1
    <3>2. CASE k # w
      <4>1. k \in 1..(w - 1) /\ k + 1 \in 1..m
        BY <3>2, <2>1
      <4>2. t[k] = l[k + 1]
        BY <4>1, <2>6, <2>7
      <4>3. l[k + 1] = q[d + (k + 1)]
        BY <4>1, <1>5, <2>5
      <4>4. PICK z \in Int : z = d + (k + 1) /\ z = d + 1 + k
        OBVIOUS
      <4>5. a[z] = q[z]
        <5>1. z \in 1..n
          BY <4>1, <4>4, <1>3
        <5> QED
          BY <5>1, <1>1
      <4> QED
        BY <3>2, <4>2, <4>3, <4>4, <4>5
    <3> QED
      BY <3>1, <3>2
  <2>11. j + 1 = w
    BY <2>8
  <2>12. LastOf(a, w) = Append(t, x)
    <3>1. PICK u \in Seq(Int) : u = LastOf(a, w) /\ Len(u) = w
      BY <2>3, <2>4
    <3>2. \A k \in 1..w : u[k] = IF k = w THEN x ELSE t[k]
      BY <2>3, <2>4, <2>10, <3>1
    <3>3. Append(t, x) \in Seq(Int) /\ Len(Append(t, x)) = w
      BY <2>7, AppendProperties
    <3>4. \A k \in 1..w : Append(t, x)[k] = IF k = w THEN x ELSE t[k]
      BY <2>9, <2>11
    <3>5. \A k \in 1..Len(u) : u[k] = Append(t, x)[k]
      BY <3>1, <3>2, <3>4
    <3> QED
      BY <3>1, <3>3, <3>5, SeqEqual
  <2> QED
    BY <1>2, <1>5, <1>7, <2>5, <2>7, <2>12
<1> QED
  BY <1>6, <1>7

-----------------------------------------------------------------------------
(* tail: the types *)

\* What the assumptions say of a scenario, and of the files there are.
LEMMA ScenarioIs ==
  ASSUME TailAssumptions, scenario \in Scenarios
  PROVE  /\ Names \in Seq(NameSet) /\ Len(Names) \in Nat
         /\ Initial \in Nat /\ Changes \in Nat
         /\ args \in Seq(Operands) /\ Len(args) \in Nat /\ 1 \in 1..Len(args)
         /\ options.lines \in Int /\ options.bytes \in Int /\ options.mode \in 0..2
         /\ options.retry \in {0, 1} /\ options.pid \in {0, 1} /\ options.max \in Nat
         /\ Wanted \in Nat \ {0}
         /\ scenario.input \in Files \ {0} /\ scenario.seekable \in {0, 1} /\ Stdin \notin NameSet
<1>1. /\ scenario.args \in Seq(Operands) /\ scenario.args # <<>> /\ scenario.opts \in OptionRecords
      /\ Names \in Seq(NameSet) /\ DefaultLines \in Nat \ {0} /\ Initial \in Nat /\ Changes \in Nat
  BY DEF TailAssumptions
<1>2. Len(args) \in Nat /\ 1 \in 1..Len(args)
  BY <1>1 DEF args
<1>3. /\ options.lines \in Int /\ options.bytes \in Int /\ options.mode \in 0..2
      /\ options.retry \in {0, 1} /\ options.pid \in {0, 1} /\ options.max \in Nat
  BY <1>1 DEF options, OptionRecords
<1>4. Wanted \in Nat \ {0}
  BY <1>1, <1>3 DEF Wanted
<1>5. scenario.input \in Files \ {0} /\ scenario.seekable \in {0, 1} /\ Stdin \notin NameSet
  <2>1. scenario.input \in 1..Len(Names) /\ scenario.seekable \in {0, 1} /\ Stdin \notin NameSet
    BY DEF TailAssumptions
  <2> QED
    BY <1>1, <2>1 DEF Files
<1> QED
  BY <1>1, <1>2, <1>3, <1>4, <1>5 DEF args

FilesInv ==
  /\ scenario \in Scenarios /\ alive \in {0, 1}
  /\ written \in Nat /\ left \in 0..Changes
  /\ DOMAIN file = Files
  /\ \A f \in Files : file[f] \in Seq(1..written) /\ Len(file[f]) + left <= Initial + Changes
  /\ at \in [Operands -> Files \cup {0}]

\* stdin has not been read, or it has been read to its end.
StdinInv == stdin \in [pos : Nat, eof : {0, 1}] /\ (stdin.eof = 0 => stdin.pos = 0)

PlaceInv ==
  /\ arg \in 1..Len(args) /\ again \in {0, 1} /\ code \in {0, 1}
  /\ tailPc \in {"open", "fill", "seek", "copy", "pid", "reopen", "end", "size", "look", "compare", "new", "exited"}
  /\ StdinInv

ReadInv ==
  /\ fp \in Files \cup {0} /\ test \in Files \cup {0} /\ pos \in Nat /\ eof \in {0, 1}
  /\ tailPc \in {"fill", "seek", "copy", "end", "size", "look", "compare", "new"} => fp # 0
  /\ tailPc = "compare" => test # 0
  /\ last \in -1..(Initial + Changes) /\ cur \in 0..(Initial + Changes)
  /\ unchanged \in 0..options.max
  /\ tailPc \in {"pid", "size", "look", "compare", "new"} /\ fp # 0 => last >= 0
  /\ tailPc = "reopen" => fp = 0
  /\ tailPc \in {"seek", "copy"} => ~InRing
  /\ out \in Seq(1..written)

RingInv ==
  /\ ring \in Rings(Wanted)
  /\ InOrder(ring) \in Seq(1..written)
  /\ tailPc = "fill" /\ OnlyGrow /\ eof = 0 => pos <= Size(fp)
  /\ RingIsLast

TailInv == FilesInv /\ PlaceInv /\ ReadInv /\ RingInv

\* A sequence stays one of the lines written when one more is written.
LEMMA WrittenGrows ==
  ASSUME NEW n \in Nat, NEW q \in Seq(1..n)
  PROVE  /\ q \in Seq(1..(n + 1)) /\ q \in Seq(Int)
         /\ \A k \in 1..Len(q) : q[k] \in 1..n
<1>1. \A k \in 1..Len(q) : q[k] \in 1..n /\ q[k] \in 1..(n + 1) /\ q[k] \in Int
  OBVIOUS
<1>2. q \in [1..Len(q) -> 1..(n + 1)] /\ q \in [1..Len(q) -> Int]
  BY <1>1
<1> QED
  BY <1>1, <1>2

\* The beginning of a sequence does not change when it grows, and is longer by
\* one line when one line more is read.
LEMMA BeginningGrows ==
  ASSUME NEW q \in Seq(Int), NEW p \in 0..Len(q)
  PROVE  /\ SubSeq(q, 1, p) \in Seq(Int) /\ Len(SubSeq(q, 1, p)) = p
         /\ \A x \in Int : SubSeq(Append(q, x), 1, p) = SubSeq(q, 1, p)
         /\ p < Len(q) => SubSeq(q, 1, p + 1) = Append(SubSeq(q, 1, p), q[p + 1])
<1>1. ASSUME NEW c \in Seq(Int), NEW e \in 0..Len(c)
      PROVE  /\ SubSeq(c, 1, e) \in Seq(Int) /\ Len(SubSeq(c, 1, e)) = e
             /\ \A k \in 1..e : SubSeq(c, 1, e)[k] = c[k]
  <2>1. \A k \in 1..e : c[k] \in Int
    OBVIOUS
  <2>2. /\ SubSeq(c, 1, e) \in Seq(Int)
        /\ Len(SubSeq(c, 1, e)) = IF 1 <= e THEN e - 1 + 1 ELSE 0
        /\ \A k \in 1..(e - 1 + 1) : SubSeq(c, 1, e)[k] = c[1 + k - 1]
    BY <2>1, SubSeqProperties
  <2>3. (IF 1 <= e THEN e - 1 + 1 ELSE 0) = e /\ e - 1 + 1 = e /\ \A k \in 1..e : 1 + k - 1 = k
    OBVIOUS
  <2> QED
    BY <2>2, <2>3
<1>2. ASSUME NEW x \in Int PROVE SubSeq(Append(q, x), 1, p) = SubSeq(q, 1, p)
  <2>6. /\ Append(q, x) \in Seq(Int) /\ Len(Append(q, x)) = Len(q) + 1
        /\ \A k \in 1..Len(q) : Append(q, x)[k] = q[k]
    BY AppendProperties
  <2>1. PICK c \in Seq(Int) : c = Append(q, x) /\ Len(c) = Len(q) + 1 /\ \A k \in 1..Len(q) : c[k] = q[k]
    BY <2>6
  <2>2. p \in 0..Len(c)
    BY <2>1
  <2>3. \A k \in 1..p : SubSeq(c, 1, p)[k] = SubSeq(q, 1, p)[k]
    <3> SUFFICES ASSUME NEW k \in 1..p PROVE SubSeq(c, 1, p)[k] = SubSeq(q, 1, p)[k]
      OBVIOUS
    <3>1. SubSeq(c, 1, p)[k] = c[k] /\ SubSeq(q, 1, p)[k] = q[k]
      BY <1>1, <2>2
    <3> QED
      BY <3>1, <2>1
  <2>4. SubSeq(c, 1, p) \in Seq(Int) /\ SubSeq(q, 1, p) \in Seq(Int) /\ Len(SubSeq(c, 1, p)) = p /\ Len(SubSeq(q, 1, p)) = p
    BY <1>1, <2>2
  <2>5. SubSeq(c, 1, p) = SubSeq(q, 1, p)
    BY <2>3, <2>4, SeqEqual
  <2> QED
    BY <2>1, <2>5
<1>3. ASSUME p < Len(q) PROVE SubSeq(q, 1, p + 1) = Append(SubSeq(q, 1, p), q[p + 1])
  <2>1. PICK e \in 1..Len(q) : e = p + 1
    BY <1>3
  <2>2. PICK b \in Seq(Int) : b = SubSeq(q, 1, p) /\ Len(b) = p /\ \A k \in 1..p : b[k] = q[k]
    BY <1>1
  <2>3. PICK x \in Int : x = q[e]
    OBVIOUS
  <2>4. Append(b, x) \in Seq(Int) /\ Len(Append(b, x)) = e /\ Append(b, x)[e] = x /\ \A k \in 1..p : Append(b, x)[k] = b[k]
    BY <2>1, <2>2, AppendProperties
  <2>5. SubSeq(q, 1, e) \in Seq(Int) /\ Len(SubSeq(q, 1, e)) = e /\ \A k \in 1..e : SubSeq(q, 1, e)[k] = q[k]
    BY <1>1, <2>1
  <2>6. \A k \in 1..e : SubSeq(q, 1, e)[k] = Append(b, x)[k]
    BY <2>1, <2>2, <2>3, <2>4, <2>5
  <2>7. SubSeq(q, 1, e) = Append(b, x)
    BY <2>4, <2>5, <2>6, SeqEqual
  <2> QED
    BY <2>1, <2>2, <2>3, <2>7
<1> QED
  BY <1>1, <1>2, <1>3

-----------------------------------------------------------------------------
(* tail: its steps *)

\* Where a step leaves tail, whether process_file returns or goes on.
LEMMA PlaceReturned ==
  ASSUME TailAssumptions, FilesInv, PlaceInv, scenario' = scenario, stdin' = stdin \/ StdinInv', NEW r \in {0, 1}, FileReturns(r)
  PROVE  PlaceInv' /\ tailPc' \in {"open", "exited"}
<1>1. args' = args /\ Len(args) \in Nat
  BY ScenarioIs DEF args, FilesInv
<1> QED
  BY <1>1 DEF PlaceInv, StdinInv, FileReturns

\* A place that is given up.
LEMMA PlaceGone ==
  ASSUME PlaceInv, scenario' = scenario, stdin' = stdin \/ StdinInv',
         NEW to \in {"open", "fill", "seek", "copy", "pid", "reopen", "end", "size", "look", "compare", "new"}, GoesTo(to)
  PROVE  PlaceInv' /\ tailPc' = to
BY DEF PlaceInv, StdinInv, GoesTo, args

\* The ring is left as it is when no line is being put into it.
LEMMA RingStays ==
  ASSUME RingInv, ring' = ring, scenario' = scenario, written' = written, tailPc' # "fill"
  PROVE  RingInv'
<1>1. Wanted' = Wanted /\ options' = options
  BY DEF Wanted, options
<1>2. InOrder(ring)' = InOrder(ring)
  BY <1>1 DEF InOrder
<1> QED
  BY <1>1, <1>2 DEF RingInv, RingIsLast, Rings

\* Files that nobody changes.
LEMMA FilesStay ==
  ASSUME FilesInv, UNCHANGED world
  PROVE  FilesInv'
BY DEF FilesInv, world

\* The file under the name that is processed.
LEMMA NameIs ==
  ASSUME TailAssumptions, FilesInv, PlaceInv
  PROVE  /\ Name \in Operands /\ at[Name] \in Files \cup {0}
         /\ \A f \in Files : f \in Nat \ {0} /\ Size(f) \in 0..(Initial + Changes)
<1>1. Name \in Operands
  BY ScenarioIs DEF Name, PlaceInv, FilesInv
<1>2. ASSUME NEW f \in Files PROVE f \in Nat \ {0} /\ Size(f) \in 0..(Initial + Changes)
  <2>1. file[f] \in Seq(1..written) /\ Len(file[f]) + left <= Initial + Changes /\ left \in Nat
    BY ScenarioIs DEF FilesInv
  <2>2. PICK n \in Nat : n = Len(file[f])
    BY <2>1
  <2>3. n <= Initial + Changes
    BY <2>1, <2>2, ScenarioIs DEF FilesInv
  <2>4. f \in Nat \ {0}
    BY ScenarioIs DEF Files, FilesInv
  <2>5. Initial + Changes \in Nat
    BY ScenarioIs DEF FilesInv
  <2> QED
    BY <2>2, <2>3, <2>4, <2>5 DEF Size
<1> QED
  BY <1>1, <1>2 DEF FilesInv

\* fopen: the ring is empty, and nothing has been read.
LEMMA OpenKept ==
  ASSUME TailAssumptions, TailInv, OpenFile
  PROVE  TailInv'
<1>1. FilesInv /\ PlaceInv /\ ReadInv /\ RingInv
  BY DEF TailInv
<1>2. /\ UNCHANGED world /\ UNCHANGED follow /\ out' = out /\ scenario' = scenario /\ file' = file /\ written' = written
      /\ stdin' = stdin /\ ring' = EmptyRing
  BY DEF OpenFile, world
<1>3. FilesInv'
  BY <1>1, <1>2, FilesStay
<1>4. PlaceInv' /\ tailPc' \in {"open", "exited", "fill", "seek"} /\ (tailPc' \in {"fill", "seek"} => fp' # 0)
      /\ (tailPc' = "seek" => ~InRing)
  <2>1. CASE fp' = 0
    BY <2>1, <1>1, <1>2, PlaceReturned DEF OpenFile
  <2>2. CASE fp' # 0
    BY <2>2, <1>1, <1>2, PlaceGone DEF OpenFile
  <2> QED
    BY <2>1, <2>2
<1>5. fp' \in Files \cup {0} /\ pos' \in Nat /\ eof' \in {0, 1} /\ (eof' = 0 => pos' = 0)
  <2>1. CASE Name = Stdin
    <3>1. fp' = scenario.input /\ pos' = stdin.pos /\ eof' = stdin.eof
      BY <2>1 DEF OpenFile
    <3>2. scenario.input \in Files
      BY <1>1, ScenarioIs DEF FilesInv
    <3> QED
      BY <1>1, <3>1, <3>2 DEF PlaceInv, StdinInv
  <2>2. CASE Name # Stdin
    BY <1>1, <2>2, NameIs DEF OpenFile
  <2> QED
    BY <2>1, <2>2
<1>6. InRing' = InRing /\ options' = options /\ Wanted' = Wanted
  BY <1>2 DEF InRing, options, Wanted
<1>7. ReadInv'
  BY <1>1, <1>2, <1>4, <1>5, <1>6 DEF ReadInv, follow
<1>8. RingInv'
  <2>1. PICK w \in Nat \ {0} : w = Wanted
    BY <1>1, ScenarioIs DEF FilesInv
  <2>2. EmptyRing \in Rings(w)
    BY <2>1 DEF EmptyRing, Rings
  <2>3. InOrder(ring)' = <<>>
    BY <1>2 DEF InOrder, EmptyRing
  <2>4. (tailPc = "fill" /\ eof = 0)' => pos' <= Size(fp)' /\ LastOf(SubSeq(file[fp], 1, pos), Wanted)' = <<>>
    <3> SUFFICES ASSUME tailPc' = "fill" PROVE 0 <= Size(fp') /\ LastOf(SubSeq(file[fp'], 1, 0), w) = <<>>
      BY <1>2, <1>5, <1>6, <2>1 DEF Size, LastOf, Smaller
    <3>1. fp' \in Files
      BY <1>4, <1>5
    <3>2. SubSeq(file[fp'], 1, 0) = <<>>
      OBVIOUS
    <3>3. LastOf(<<>>, w) = <<>>
      BY DEF LastOf, Smaller
    <3>4. Size(fp') \in 0..(Initial + Changes)
      BY <1>1, <3>1, NameIs
    <3>5. 0 <= Size(fp')
      BY <3>4
    <3> QED
      BY <3>2, <3>3, <3>5
  <2> QED
    BY <1>2, <1>5, <1>6, <2>1, <2>2, <2>3, <2>4 DEF RingInv, RingIsLast, EmptyRing
<1> QED
  BY <1>3, <1>4, <1>7, <1>8 DEF TailInv

\* process_file closes the file and goes on to follow it, or returns.
LEMMA LeaveIs ==
  ASSUME TailAssumptions, FilesInv, PlaceInv, ReadInv, scenario' = scenario, written' = written,
         Leave, pos' \in Nat, eof' \in {0, 1}, out' \in Seq(1..written)
  PROVE  PlaceInv' /\ ReadInv' /\ tailPc' \in {"pid", "open", "exited"}
<1>1. PlaceInv' /\ tailPc' \in {"pid", "open", "exited"}
  <2>3. stdin' = stdin \/ StdinInv'
    BY DEF Leave, StdinInv, ReadInv
  <2>1. CASE Following
    BY <2>1, <2>3, PlaceGone DEF Leave
  <2>2. CASE ~Following
    BY <2>2, <2>3, PlaceReturned DEF Leave
  <2> QED
    BY <2>1, <2>2
<1>2. options' = options /\ options.max \in Nat /\ Initial \in Nat /\ Changes \in Nat
  BY ScenarioIs DEF options, FilesInv
<1>3. ReadInv'
  BY <1>1, <1>2 DEF ReadInv, Leave
<1> QED
  BY <1>1, <1>3

\* tail_lines: a line into the ring, which then holds the last lines of one more;
\* or the ring, in order, to the output.
LEMMA FillKept ==
  ASSUME TailAssumptions, TailInv, Fill
  PROVE  TailInv'
<1>1. FilesInv /\ PlaceInv /\ ReadInv /\ RingInv
  BY DEF TailInv
<1>2. UNCHANGED world /\ scenario' = scenario /\ file' = file /\ written' = written /\ tailPc = "fill" /\ eof' = eof
      /\ eof \in {0, 1}
  BY <1>1 DEF Fill, world, ReadInv
<1>3. FilesInv'
  BY <1>1, <1>2, FilesStay
<1>4. fp \in Files /\ written \in Nat /\ pos \in Nat
  BY <1>1, <1>2 DEF ReadInv, FilesInv
<1>5. PICK q \in Seq(Int) : q = file[fp] /\ \A k \in 1..Len(q) : q[k] \in 1..written
  BY <1>1, <1>4, WrittenGrows DEF FilesInv
<1>6. InOrder(ring) \in Seq(1..written)
  BY <1>1 DEF RingInv
<1>7. CASE MoreToRead
  <2>1. /\ ring' = Added(ring, q[pos + 1]) /\ pos' = pos + 1 /\ GoesTo("fill")
        /\ fp' = fp /\ UNCHANGED follow /\ out' = out /\ stdin' = stdin /\ eof = 0
    BY <1>5, <1>7 DEF Fill, MoreToRead
  <2>2. PlaceInv' /\ tailPc' = "fill"
    BY <1>1, <1>2, <2>1, PlaceGone
  <2>3. options' = options /\ Wanted' = Wanted /\ OnlyGrow' = OnlyGrow /\ InRing' = InRing
    BY <1>2 DEF options, Wanted, OnlyGrow, InRing
  <2>4. ReadInv'
    BY <1>1, <1>2, <2>1, <2>2, <2>3 DEF ReadInv, follow
  <2>5. PICK w \in Nat \ {0} : w = Wanted
    BY <1>1, ScenarioIs DEF FilesInv
  <2>6. pos + 1 \in 1..Len(q) /\ pos \in 0..Len(q) /\ pos < Len(q)
    BY <1>4, <1>5, <1>7 DEF Size, MoreToRead
  <2>7. PICK x \in 1..written : x = q[pos + 1]
    <3>1. PICK j \in 1..Len(q) : j = pos + 1
      BY <2>6
    <3>2. q[j] \in 1..written
      BY <1>5
    <3> QED
      BY <3>1, <3>2
  <2>8. ring \in Rings(w)
    BY <1>1, <2>5 DEF RingInv
  <2>9. PICK o \in Seq(1..written) : o = InOrder(ring) /\ Len(o) = ring.count
    <3>1. ring.count = Len(InOrder(ring))
      <4>1. 0 \in Int
        OBVIOUS
      <4> QED
        BY <2>5, <2>8, <4>1, AddedIs
    <3> QED
      BY <1>6, <3>1
  <2>10. ring' \in Rings(w) /\ InOrder(ring') = IF ring.count < w THEN Append(o, x) ELSE Append(Tail(o), x)
    <3>1. x \in Int
      BY <1>4
    <3>2. /\ Added(ring, x) \in Rings(Wanted)
          /\ InOrder(Added(ring, x)) = IF ring.count < Wanted THEN Append(InOrder(ring), x) ELSE Append(Tail(InOrder(ring)), x)
      BY <2>5, <2>8, <3>1, AddedIs
    <3> QED
      BY <2>1, <2>5, <2>7, <2>9, <3>2
  <2>11. InOrder(ring') \in Seq(1..written)
    <3>1. CASE ring.count < w
      BY <2>10, <3>1, AppendProperties
    <3>2. CASE ring.count >= w
      <4>1. o # <<>>
        BY <2>5, <2>9, <3>2
      <4>2. Tail(o) \in Seq(1..written)
        BY <4>1, HeadTailProperties
      <4>3. ~(ring.count < w)
        BY <2>8, <3>2 DEF Rings
      <4> QED
        BY <2>10, <4>2, <4>3, AppendProperties
    <3>3. ring.count \in Nat
      BY <2>8 DEF Rings
    <3> QED
      BY <3>1, <3>2, <3>3
  <2>12. ASSUME OnlyGrow PROVE InOrder(ring') = LastOf(SubSeq(q, 1, pos + 1), w)
    <3>1. o = LastOf(SubSeq(q, 1, pos), w)
      BY <1>1, <1>2, <1>5, <2>1, <2>5, <2>9, <2>12 DEF RingInv, RingIsLast
    <3>2. PICK b \in Seq(Int) : b = SubSeq(q, 1, pos) /\ Len(b) = pos
      BY <2>6, BeginningGrows
    <3>3. SubSeq(q, 1, pos + 1) = Append(b, x)
      BY <2>6, <2>7, <3>2, BeginningGrows
    <3>4. /\ Len(o) = Smaller(w, pos)
          /\ LastOf(Append(b, x), w) = IF pos < w THEN Append(o, x) ELSE Append(Tail(o), x)
      <4>1. x \in Int
        BY <1>4
      <4> QED
        BY <1>4, <3>1, <3>2, <4>1, LastAppended
    <3>5. ring.count < w <=> pos < w
      BY <1>4, <2>9, <3>4 DEF Smaller
    <3> QED
      BY <2>10, <3>3, <3>4, <3>5
  <2>13. RingInv'
    <3>1. (OnlyGrow => pos <= Size(fp))'
      BY <1>2, <1>5, <2>1, <2>6 DEF Size
    <3>2. InOrder(ring)' = InOrder(ring')
      BY <2>3 DEF InOrder
    <3>3. RingIsLast'
      <4>1. eof' = 0 /\ fp' = fp /\ file'[fp] = q /\ pos' = pos + 1
        BY <1>2, <1>5, <2>1
      <4>2. LastOf(SubSeq(file[fp], 1, pos), Wanted)' = LastOf(SubSeq(q, 1, pos + 1), w)
        BY <2>3, <2>5, <4>1 DEF LastOf, Smaller
      <4> QED
        BY <2>3, <2>12, <3>2, <4>1, <4>2 DEF RingIsLast
    <3>4. (ring \in Rings(Wanted))'
      BY <2>3, <2>5, <2>10 DEF Rings
    <3> QED
      BY <1>2, <2>11, <3>1, <3>2, <3>3, <3>4 DEF RingInv
  <2> QED
    BY <1>3, <2>2, <2>4, <2>13 DEF TailInv
<1>8. CASE ~MoreToRead
  <2>1. out' = out \o InOrder(ring) /\ Leave /\ pos' = pos /\ ring' = ring
    BY <1>8 DEF Fill
  <2>2. out' \in Seq(1..written)
    BY <1>1, <1>6, <2>1, ConcatProperties DEF ReadInv
  <2>3. PlaceInv' /\ ReadInv' /\ tailPc' \in {"pid", "open", "exited"}
    BY <1>1, <1>2, <1>4, <2>1, <2>2, LeaveIs
  <2>4. RingInv'
    BY <1>1, <1>2, <2>1, <2>3, RingStays
  <2> QED
    BY <1>3, <2>3, <2>4 DEF TailInv
<1> QED
  BY <1>7, <1>8

\* Where a seek begins.
LEMMA SeekKept ==
  ASSUME TailAssumptions, TailInv, Seek
  PROVE  TailInv'
<1>1. FilesInv /\ PlaceInv /\ ReadInv /\ RingInv
  BY DEF TailInv
<1>2. /\ UNCHANGED world /\ scenario' = scenario /\ file' = file /\ written' = written
      /\ UNCHANGED follow /\ fp' = fp /\ ring' = ring /\ out' = out /\ tailPc = "seek" /\ pos' = Begin
      /\ stdin' = stdin /\ eof \in {0, 1} /\ eof' \in {0, 1} /\ pos \in Nat
  BY <1>1 DEF Seek, world, ReadInv
<1>3. FilesInv' /\ PlaceInv' /\ tailPc' = "copy"
  BY <1>1, <1>2, FilesStay, PlaceGone DEF Seek
<1>4. options' = options /\ InRing' = InRing
  BY <1>2 DEF options, InRing
<1>5. Begin \in Nat
  <2>1. fp \in Files /\ ~InRing
    BY <1>1, <1>2 DEF ReadInv
  <2>2. Size(fp) \in Nat
    BY <1>1, <2>1, NameIs, ScenarioIs DEF FilesInv
  <2>3. options.lines \in Int /\ options.bytes \in Int
    BY <1>1, ScenarioIs DEF FilesInv
  <2>4. options.bytes = 0 => options.lines < 0
    BY <2>1, <2>3 DEF InRing
  <2> QED
    BY <1>2, <2>2, <2>3, <2>4 DEF Begin, Seeks, Smaller
<1>6. ReadInv'
  BY <1>1, <1>2, <1>3, <1>4, <1>5 DEF ReadInv, follow
<1>7. RingInv'
  BY <1>1, <1>2, <1>3, RingStays
<1> QED
  BY <1>3, <1>6, <1>7 DEF TailInv

\* A line of the file is one that was written.
LEMMA LineIs ==
  ASSUME FilesInv, NEW f \in Files, NEW p \in Nat, p < Size(f)
  PROVE  file[f][p + 1] \in 1..written
<1>1. PICK q : q = file[f] /\ q \in Seq(1..written)
  BY DEF FilesInv
<1>2. \A k \in 1..Len(q) : q[k] \in 1..written
  BY <1>1, WrittenGrows DEF FilesInv
<1>3. p + 1 \in 1..Len(q)
  BY <1>1 DEF Size
<1> QED
  BY <1>1, <1>2, <1>3

\* Everything from there to the end.
LEMMA CopyKept ==
  ASSUME TailAssumptions, TailInv, CopyAll
  PROVE  TailInv'
<1>1. FilesInv /\ PlaceInv /\ ReadInv /\ RingInv
  BY DEF TailInv
<1>2. UNCHANGED world /\ scenario' = scenario /\ file' = file /\ written' = written /\ ring' = ring /\ tailPc = "copy"
      /\ eof' = eof /\ eof \in {0, 1}
  BY <1>1 DEF CopyAll, world, ReadInv
<1>3. FilesInv'
  BY <1>1, <1>2, FilesStay
<1>4. fp \in Files /\ pos \in Nat /\ out \in Seq(1..written)
  BY <1>1, <1>2 DEF ReadInv
<1>5. CASE MoreToRead
  <2>1. /\ out' = Append(out, file[fp][pos + 1]) /\ pos' = pos + 1 /\ GoesTo("copy") /\ fp' = fp /\ UNCHANGED follow
        /\ stdin' = stdin /\ pos < Size(fp)
    BY <1>5 DEF CopyAll, MoreToRead
  <2>2. PlaceInv' /\ tailPc' = "copy"
    BY <1>1, <1>2, <2>1, PlaceGone
  <2>3. options' = options /\ InRing' = InRing
    BY <1>2 DEF options, InRing
  <2>4. out' \in Seq(1..written)
    BY <1>1, <1>4, <2>1, LineIs, AppendProperties
  <2>5. ReadInv'
    BY <1>1, <1>2, <1>4, <2>1, <2>2, <2>3, <2>4 DEF ReadInv, follow
  <2>6. RingInv'
    BY <1>1, <1>2, <2>2, RingStays
  <2> QED
    BY <1>3, <2>2, <2>5, <2>6 DEF TailInv
<1>6. CASE ~MoreToRead
  <2>1. Leave /\ pos' = pos /\ out' = out
    BY <1>6 DEF CopyAll
  <2>2. PlaceInv' /\ ReadInv' /\ tailPc' \in {"pid", "open", "exited"}
    BY <1>1, <1>2, <1>4, <2>1, LeaveIs
  <2>3. RingInv'
    BY <1>1, <1>2, <2>2, RingStays
  <2> QED
    BY <1>3, <2>2, <2>3 DEF TailInv
<1> QED
  BY <1>5, <1>6

\* The loop of follow_file: what each of its steps leaves of file and ring.
LEMMA FollowKept ==
  ASSUME TailAssumptions, TailInv, Follower
  PROVE  TailInv'
<1>1. FilesInv /\ PlaceInv /\ ReadInv /\ RingInv
  BY DEF TailInv
<1>2. UNCHANGED world /\ scenario' = scenario /\ file' = file /\ written' = written /\ ring' = ring
      /\ stdin' = stdin /\ eof' = eof
  BY DEF Follower, CheckPid, Reopen, SeekEnd, CheckSize, LookAtName, Compare, New, world
<1>3. FilesInv'
  BY <1>1, <1>2, FilesStay
<1>4. /\ options' = options /\ InRing' = InRing /\ options.max \in Nat /\ Initial \in Nat /\ Changes \in Nat
      /\ at[Name] \in Files \cup {0}
      /\ \A f \in Files : f \in Nat \ {0} /\ Size(f) \in 0..(Initial + Changes)
  BY <1>1, <1>2, ScenarioIs, NameIs DEF options, InRing, FilesInv
<1>5. SUFFICES PlaceInv' /\ ReadInv' /\ tailPc' # "fill"
  BY <1>1, <1>2, <1>3, RingStays DEF TailInv
<1>6. CASE CheckPid
  <2>1. pos' = pos /\ UNCHANGED follow /\ out' = out /\ tailPc = "pid"
    BY <1>6 DEF CheckPid
  <2>2. CASE options.pid = 1 /\ alive = 0
    <3>1. fp' = 0 /\ PlaceInv' /\ tailPc' \in {"open", "exited"}
      BY <1>1, <1>2, <1>6, <2>2, PlaceReturned DEF CheckPid
    <3> QED
      BY <1>1, <1>2, <1>4, <2>1, <3>1 DEF ReadInv, follow
  <2>3. CASE ~(options.pid = 1 /\ alive = 0)
    <3>1. fp' = fp /\ PlaceInv' /\ tailPc' = IF fp = 0 THEN "reopen" ELSE "size"
      BY <1>1, <1>2, <1>6, <2>3, PlaceGone DEF CheckPid
    <3> QED
      BY <1>1, <1>2, <1>4, <2>1, <3>1 DEF ReadInv, follow
  <2> QED
    BY <2>2, <2>3
<1>7. CASE Reopen
  <2>1. /\ fp' = at[Name] /\ pos' = pos /\ UNCHANGED follow /\ out' = out /\ tailPc = "reopen"
    BY <1>7 DEF Reopen
  <2>2. CASE at[Name] # 0
    <3>1. PlaceInv' /\ tailPc' = "end"
      BY <1>1, <1>2, <1>7, <2>2, PlaceGone DEF Reopen
    <3> QED
      BY <1>1, <1>2, <1>4, <2>1, <2>2, <3>1 DEF ReadInv, follow
  <2>3. CASE at[Name] = 0 /\ options.retry = 1
    <3>1. PlaceInv' /\ tailPc' = "pid"
      BY <1>1, <1>2, <1>7, <2>3, PlaceGone DEF Reopen
    <3> QED
      BY <1>1, <1>2, <1>4, <2>1, <2>3, <3>1 DEF ReadInv, follow
  <2>4. CASE at[Name] = 0 /\ options.retry # 1
    <3>1. PlaceInv' /\ tailPc' \in {"open", "exited"}
      BY <1>1, <1>2, <1>7, <2>4, PlaceReturned DEF Reopen
    <3> QED
      BY <1>1, <1>2, <1>4, <2>1, <2>4, <3>1 DEF ReadInv, follow
  <2> QED
    BY <2>2, <2>3, <2>4
<1>10. CASE SeekEnd
  <2>1. /\ last' = Size(fp) /\ UNCHANGED <<fp, pos, cur, unchanged, test, out>> /\ fp \in Files
        /\ PlaceInv' /\ tailPc' = "size"
    BY <1>1, <1>2, <1>10, PlaceGone DEF SeekEnd, ReadInv
  <2>2. last' \in 0..(Initial + Changes)
    BY <1>4, <2>1
  <2>3. last' \in -1..(Initial + Changes) /\ last' >= 0
    BY <1>4, <2>2
  <2> QED
    BY <1>1, <1>2, <1>4, <2>1, <2>3 DEF ReadInv
<1>11. CASE LookAtName
  <2>1. /\ test' = at[Name] /\ UNCHANGED <<fp, pos, last, cur, unchanged, out>> /\ tailPc = "look"
        /\ PlaceInv' /\ tailPc' = IF at[Name] = 0 THEN "pid" ELSE "compare"
    BY <1>1, <1>2, <1>11, PlaceGone DEF LookAtName
  <2> QED
    BY <1>1, <1>2, <1>4, <2>1 DEF ReadInv
<1>12. CASE Compare
  <2>1. /\ fp' \in {fp, 0} /\ unchanged' \in {unchanged, 0} /\ test' = 0 /\ UNCHANGED <<pos, last, cur, out>>
        /\ tailPc = "compare" /\ PlaceInv' /\ tailPc' = "pid"
    BY <1>1, <1>2, <1>12, PlaceGone DEF Compare
  <2>2. unchanged' \in 0..options.max
    BY <1>1, <1>4, <2>1 DEF ReadInv
  <2> QED
    BY <1>1, <1>2, <1>4, <2>1, <2>2 DEF ReadInv
<1>8. CASE CheckSize
  <2>1. cur' = Size(fp) /\ last' = last /\ test' = test /\ out' = out /\ tailPc = "size" /\ fp \in Files /\ last >= 0 /\ last \in Nat
    BY <1>1, <1>4, <1>8 DEF CheckSize, ReadInv
  <2>2. cur' \in 0..(Initial + Changes)
    BY <1>4, <2>1
  <2>3. CASE cur' > last /\ pos' = FromLast /\ GoesTo("new") /\ UNCHANGED <<fp, unchanged>>
    <3>1. PlaceInv' /\ tailPc' = "new"
      BY <1>1, <1>2, <2>3, PlaceGone
    <3> QED
      BY <1>1, <1>2, <1>4, <2>1, <2>2, <2>3, <3>1 DEF ReadInv, FromLast
  <2>4. CASE fp' \in {fp, 0} /\ GoesTo("pid") /\ pos' = pos /\ unchanged' \in 0..options.max
    <3>1. PlaceInv' /\ tailPc' = "pid"
      BY <1>1, <1>2, <2>4, PlaceGone
    <3> QED
      BY <1>1, <1>2, <1>4, <2>1, <2>2, <2>4, <3>1 DEF ReadInv
  <2>5. unchanged \in 0..options.max
    BY <1>1 DEF ReadInv
  <2>6. 0 \in 0..options.max /\ Smaller(unchanged + 1, options.max) \in 0..options.max
    BY <1>4, <2>5 DEF Smaller
  <2>7. CASE fp' = fp /\ GoesTo("look") /\ pos' = pos /\ unchanged' \in 0..options.max
    <3>1. PlaceInv' /\ tailPc' = "look"
      BY <1>1, <1>2, <2>7, PlaceGone
    <3> QED
      BY <1>1, <1>2, <1>4, <2>1, <2>2, <2>7, <3>1 DEF ReadInv
  <2> QED
    BY <1>8, <2>3, <2>4, <2>5, <2>6, <2>7 DEF CheckSize
<1>9. CASE New
  <2>1. fp' = fp /\ cur' = cur /\ test' = test /\ tailPc = "new" /\ fp \in Files /\ pos \in Nat /\ out \in Seq(1..written)
    BY <1>1, <1>9 DEF New, ReadInv
  <2>2. CASE pos < Size(fp)
    <3>1. out' = Append(out, file[fp][pos + 1]) /\ pos' = pos + 1 /\ GoesTo("new") /\ UNCHANGED <<last, unchanged>>
      BY <1>9, <2>2 DEF New
    <3>2. PlaceInv' /\ tailPc' = "new"
      BY <1>1, <1>2, <3>1, PlaceGone
    <3>3. out' \in Seq(1..written)
      BY <1>1, <2>1, <2>2, <3>1, LineIs, AppendProperties
    <3> QED
      BY <1>1, <1>2, <1>4, <2>1, <3>1, <3>2, <3>3 DEF ReadInv
  <2>3. CASE ~(pos < Size(fp))
    <3>1. last' = cur /\ unchanged' = 0 /\ GoesTo("pid") /\ UNCHANGED <<pos, out>>
      BY <1>9, <2>3 DEF New
    <3>2. PlaceInv' /\ tailPc' = "pid"
      BY <1>1, <1>2, <3>1, PlaceGone
    <3> QED
      BY <1>1, <1>2, <1>4, <2>1, <3>1, <3>2 DEF ReadInv
  <2> QED
    BY <2>2, <2>3
<1> QED
  BY <1>6, <1>7, <1>8, <1>9, <1>10, <1>11, <1>12 DEF Follower

\* Whatever others do leaves tail where it is, with what it has read.
LEMMA WorldKept ==
  ASSUME TailAssumptions, TailInv, World
  PROVE  TailInv'
<1>1. FilesInv /\ PlaceInv /\ ReadInv /\ RingInv
  BY DEF TailInv
<1>2. UNCHANGED <<scenario, stdin, arg, again, tailPc, fp, pos, eof, ring, last, cur, unchanged, test, code, out>>
  BY DEF World, Grow, Truncate, Unlink, Create, PidDies, Change, follow, place
<1>3. /\ options' = options /\ InRing' = InRing /\ Wanted' = Wanted /\ OnlyGrow' = OnlyGrow /\ args' = args
      /\ InOrder(ring)' = InOrder(ring) /\ written \in Nat /\ left \in 0..Changes
      /\ Changes \in Nat /\ Initial \in Nat /\ Len(Names) \in Nat
  BY <1>1, <1>2, ScenarioIs DEF options, InRing, Wanted, OnlyGrow, InOrder, args, FilesInv
<1>4. PlaceInv'
  BY <1>1, <1>2, <1>3 DEF PlaceInv, StdinInv
<1>5. ASSUME written' = written, file' = file, FilesInv'
      PROVE  TailInv'
  <2>1. ReadInv'
    BY <1>1, <1>2, <1>3, <1>5 DEF ReadInv
  <2>2. RingInv'
    BY <1>1, <1>2, <1>3, <1>5 DEF RingInv, RingIsLast, Size, Rings, LastOf, Smaller
  <2> QED
    BY <1>4, <1>5, <2>1, <2>2 DEF TailInv
<1>6. ASSUME NEW f \in Used, Grow(f) PROVE TailInv'
  <2>1. /\ f \in Files /\ left > 0 /\ left' = left - 1 /\ written' = written + 1 /\ at' = at /\ alive' = alive
        /\ file' = [file EXCEPT ![f] = Append(file[f], written + 1)]
    BY <1>6 DEF Used, Grow, Change
  <2>2. /\ DOMAIN file' = Files
        /\ \A g \in Files : file'[g] = IF g = f THEN Append(file[f], written + 1) ELSE file[g]
    BY <1>1, <2>1 DEF FilesInv
  <2>3. ASSUME NEW g \in Files
        PROVE  /\ file'[g] \in Seq(1..(written + 1)) /\ Len(file'[g]) + left' <= Initial + Changes
               /\ Len(file[g]) <= Len(file'[g])
               /\ \A p \in 0..Len(file[g]) : SubSeq(file'[g], 1, p) = SubSeq(file[g], 1, p)
    <3>1. file[g] \in Seq(1..written) /\ Len(file[g]) + left <= Initial + Changes
      BY <1>1 DEF FilesInv
    <3>2. PICK q : q = file[g]
      OBVIOUS
    <3>3. q \in Seq(1..(written + 1)) /\ q \in Seq(Int)
      BY <1>3, <3>1, <3>2, WrittenGrows
    <3>4. PICK x : x = written + 1
      OBVIOUS
    <3>5. x \in 1..(written + 1) /\ x \in Int
      BY <1>3, <3>4
    <3>6. Append(q, x) \in Seq(1..(written + 1)) /\ Len(Append(q, x)) = Len(q) + 1
      BY <3>3, <3>5, AppendProperties
    <3>7. \A p \in 0..Len(q) : SubSeq(Append(q, x), 1, p) = SubSeq(q, 1, p)
      BY <3>3, <3>5, BeginningGrows
    <3>8. file'[g] = IF g = f THEN Append(q, x) ELSE q
      BY <2>2, <3>2, <3>4
    <3>9. PICK n \in Nat : n = Len(q)
      BY <3>3
    <3>10. Len(file'[g]) = IF g = f THEN n + 1 ELSE n
      BY <3>6, <3>8, <3>9
    <3>11. Len(file'[g]) + left' <= Initial + Changes /\ Len(file[g]) <= Len(file'[g])
      BY <1>3, <2>1, <3>1, <3>2, <3>9, <3>10
    <3> QED
      BY <3>2, <3>3, <3>6, <3>7, <3>8, <3>11
  <2>4. left' \in 0..Changes
    BY <1>3, <2>1
  <2>5. FilesInv'
    BY <1>1, <1>2, <1>3, <2>1, <2>2, <2>3, <2>4 DEF FilesInv
  <2>6. out \in Seq(1..(written + 1)) /\ InOrder(ring) \in Seq(1..(written + 1))
    BY <1>1, <1>3, WrittenGrows DEF ReadInv, RingInv
  <2>7. ReadInv'
    BY <1>1, <1>2, <1>3, <2>1, <2>6 DEF ReadInv
  <2>8. ASSUME tailPc = "fill", OnlyGrow, eof = 0
        PROVE  pos <= Len(file'[fp]) /\ SubSeq(file'[fp], 1, pos) = SubSeq(file[fp], 1, pos)
    <3>1. fp \in Files /\ pos \in Nat /\ pos <= Len(file[fp])
      BY <1>1, <2>8 DEF ReadInv, RingInv, Size
    <3>2. Len(file[fp]) \in Nat /\ Len(file'[fp]) \in Nat
      <4>1. file[fp] \in Seq(1..written) /\ file'[fp] \in Seq(1..(written + 1))
        BY <1>1, <2>3, <3>1 DEF FilesInv
      <4> QED
        BY <4>1
    <3>3. pos \in 0..Len(file[fp]) /\ Len(file[fp]) <= Len(file'[fp])
      BY <2>3, <3>1, <3>2
    <3> QED
      BY <2>3, <3>1, <3>2, <3>3
  <2>9. RingInv'
    <3>1. (tailPc = "fill" /\ OnlyGrow /\ eof = 0 => pos <= Size(fp))'
      BY <1>2, <1>3, <2>8 DEF Size
    <3>2. RingIsLast'
      BY <1>1, <1>2, <1>3, <2>8 DEF RingInv, ReadInv, RingIsLast, LastOf, Smaller
    <3>3. (ring \in Rings(Wanted))'
      BY <1>1, <1>2, <1>3 DEF RingInv, Rings
    <3> QED
      BY <1>3, <2>1, <2>6, <3>1, <3>2, <3>3 DEF RingInv
  <2> QED
    BY <1>4, <2>5, <2>7, <2>9 DEF TailInv
<1>7. ASSUME NEW f \in Used, Truncate(f) PROVE TailInv'
  <2>1. /\ f \in Files /\ left > 0 /\ left' = left - 1 /\ written' = written /\ at' = at /\ alive' = alive
        /\ file' = [file EXCEPT ![f] = <<>>] /\ ~OnlyGrow
    BY <1>7 DEF Used, Truncate, Change, OnlyGrow
  <2>2. DOMAIN file' = Files /\ \A g \in Files : file'[g] = IF g = f THEN <<>> ELSE file[g]
    BY <1>1, <2>1 DEF FilesInv
  <2>3. left' \in 0..Changes /\ left' <= left /\ 0 + left' <= Initial + Changes
    BY <1>3, <2>1
  <2>4. ASSUME NEW g \in Files PROVE file'[g] \in Seq(1..written) /\ Len(file'[g]) + left' <= Initial + Changes
    <3>1. file[g] \in Seq(1..written) /\ Len(file[g]) + left <= Initial + Changes
      BY <1>1 DEF FilesInv
    <3>2. Len(file[g]) \in Nat
      BY <3>1
    <3>3. CASE g = f
      <4>1. file'[g] = <<>>
        BY <2>2, <3>3
      <4>2. <<>> \in Seq(1..written) /\ Len(<<>>) = 0
        OBVIOUS
      <4> QED
        BY <2>3, <4>1, <4>2
    <3>4. CASE g # f
      BY <1>3, <2>2, <2>3, <3>1, <3>2, <3>4
    <3> QED
      BY <3>3, <3>4
  <2>5. FilesInv'
    BY <1>1, <1>2, <1>3, <2>1, <2>2, <2>3, <2>4 DEF FilesInv
  <2>6. ReadInv'
    BY <1>1, <1>2, <1>3, <2>1 DEF ReadInv
  <2>7. RingInv'
    BY <1>1, <1>2, <1>3, <2>1 DEF RingInv, RingIsLast, Rings
  <2> QED
    BY <1>4, <2>5, <2>6, <2>7 DEF TailInv
<1>8. ASSUME NEW n \in NameSet, Unlink(n) \/ Create(n) PROVE TailInv'
  <2>1. file' = file /\ written' = written /\ alive' = alive /\ left > 0 /\ left' = left - 1
    BY <1>8 DEF Unlink, Create, Change
  <2>2. left' \in 0..Changes /\ Len(Names) + Changes - left' \in Files
    BY <1>3, <2>1 DEF Files
  <2>3. at' \in [Operands -> Files \cup {0}]
    BY <1>1, <1>8, <2>2 DEF Unlink, Create, FilesInv
  <2>4. \A g \in Files : file[g] \in Seq(1..written) /\ Len(file[g]) + left' <= Initial + Changes
    <3> SUFFICES ASSUME NEW g \in Files PROVE file[g] \in Seq(1..written) /\ Len(file[g]) + left' <= Initial + Changes
      OBVIOUS
    <3>1. file[g] \in Seq(1..written) /\ Len(file[g]) + left <= Initial + Changes
      BY <1>1 DEF FilesInv
    <3>2. Len(file[g]) \in Nat
      BY <3>1
    <3> QED
      BY <1>3, <2>1, <3>1, <3>2
  <2>5. FilesInv'
    BY <1>1, <1>2, <1>3, <2>1, <2>2, <2>3, <2>4 DEF FilesInv
  <2> QED
    BY <1>5, <2>1, <2>5
<1>9. ASSUME PidDies PROVE TailInv'
  <2>1. UNCHANGED <<file, at, written, left, scenario>> /\ alive' = 0
    BY <1>9 DEF PidDies
  <2>2. FilesInv'
    BY <1>1, <2>1 DEF FilesInv
  <2> QED
    BY <1>5, <2>1, <2>2
<1> QED
  BY <1>6, <1>7, <1>8, <1>9 DEF World

\* tail has just been started.
LEMMA TailStarts ==
  ASSUME TailAssumptions, TailInit
  PROVE  TailInv
<1>1. scenario \in Scenarios
  BY DEF TailInit
<1>2. /\ Names \in Seq(NameSet) /\ Len(Names) \in Nat /\ Initial \in Nat /\ Changes \in Nat
      /\ 1 \in 1..Len(args) /\ options.pid \in {0, 1} /\ options.max \in Nat /\ Wanted \in Nat \ {0}
  BY <1>1, ScenarioIs
<1>3. PICK w \in Nat : w = Len(Names) * Initial /\ w = written
  BY <1>2 DEF TailInit
<1>4. ASSUME NEW f \in Files PROVE file[f] \in Seq(1..written) /\ Len(file[f]) + left <= Initial + Changes
  <2>1. f \in Nat \ {0} /\ file[f] = IF f <= Len(Names) THEN [k \in 1..Initial |-> (f - 1) * Initial + k] ELSE <<>>
    BY <1>2 DEF TailInit, Files
  <2>2. left = Changes
    BY DEF TailInit
  <2>3. CASE f <= Len(Names)
    <3>1. PICK g \in Nat : g = f - 1 /\ g <= Len(Names) - 1
      BY <2>1, <2>3, <1>2
    <3>2. PICK b \in Nat : b = g * Initial
      BY <1>2
    <3>3. b + Initial <= w
      <4>1. PICK m \in Nat, h \in Nat : m = Len(Names) /\ h = m - 1 - g
        BY <1>2, <3>1
      <4>2. m * Initial = (h + g + 1) * Initial
        BY <4>1, <3>1
      <4>3. (h + g + 1) * Initial = h * Initial + g * Initial + Initial
        BY <1>2
      <4>4. h * Initial \in Nat
        BY <1>2
      <4> QED
        BY <1>2, <1>3, <3>2, <4>1, <4>2, <4>3, <4>4
    <3>4. \A k \in 1..Initial : b + k \in 1..written
      BY <1>2, <1>3, <3>3
    <3>5. file[f] = [k \in 1..Initial |-> b + k]
      BY <2>1, <2>3, <3>1, <3>2
    <3>6. file[f] \in Seq(1..written) /\ Len(file[f]) = Initial
      <4>1. PICK n \in Nat : n = Initial
        BY <1>2
      <4>2. file[f] \in [1..n -> 1..written]
        BY <3>4, <3>5, <4>1
      <4> QED
        BY <4>1, <4>2, FunctionIsSeq
    <3> QED
      BY <1>2, <2>2, <3>6
  <2>4. CASE ~(f <= Len(Names))
    BY <1>2, <2>1, <2>2, <2>4
  <2> QED
    BY <2>3, <2>4
<1>5. at \in [Operands -> Files \cup {0}]
  <2>1. ASSUME NEW n \in NameSet PROVE (CHOOSE k \in 1..Len(Names) : Names[k] = n) \in 1..Len(Names)
    <3>1. \E k \in 1..Len(Names) : Names[k] = n
      BY DEF NameSet
    <3> QED
      BY <3>1, Zenon
  <2>2. 1..Len(Names) \subseteq Files
    BY <1>2 DEF Files
  <2> QED
    BY <2>1, <2>2 DEF TailInit, Operands
<1>6. FilesInv
  BY <1>1, <1>2, <1>3, <1>4, <1>5 DEF FilesInv, TailInit
<1>7. PlaceInv
  BY <1>2 DEF PlaceInv, StdinInv, TailInit
<1>8. ReadInv
  BY <1>2 DEF ReadInv, TailInit
<1>9. RingInv
  BY <1>2 DEF RingInv, RingIsLast, TailInit, EmptyRing, Rings, InOrder
<1> QED
  BY <1>6, <1>7, <1>8, <1>9 DEF TailInv

-----------------------------------------------------------------------------
(* tail: the theorems *)

\* The inductive invariant: an open file is one there is, last_size is known once
\* it is followed, and the ring holds lines that were written.
THEOREM TailInvariant ==
  ASSUME TailAssumptions
  PROVE  TailSpec => []TailInv
<1>1. TailInit => TailInv
  BY TailStarts
<1>2. TailInv /\ [TailNext]_tailVars => TailInv'
  <2> SUFFICES ASSUME TailInv, [TailNext]_tailVars PROVE TailInv'
    OBVIOUS
  <2>1. CASE Reader
    BY <2>1, OpenKept, FillKept, SeekKept, CopyKept, FollowKept DEF Reader
  <2>2. CASE World
    BY <2>2, WorldKept
  <2>3. CASE UNCHANGED tailVars
    <3>1. UNCHANGED <<world, place, follow, fp, pos, eof, ring, out>>
      BY <2>3 DEF tailVars
    <3>2. UNCHANGED <<scenario, options, args, Wanted, OnlyGrow, InRing, InOrder(ring)>>
      BY <3>1 DEF world, options, args, Wanted, OnlyGrow, InRing, InOrder
    <3>3. FilesInv'
      BY <3>1, FilesStay DEF TailInv
    <3>4. PlaceInv'
      BY <3>1, <3>2 DEF TailInv, PlaceInv, StdinInv, place
    <3>5. ReadInv'
      BY <3>1, <3>2 DEF TailInv, ReadInv, world, place, follow
    <3>6. RingIsLast'
      BY <3>1, <3>2 DEF TailInv, RingInv, RingIsLast, world, place, LastOf, Smaller
    <3>7. RingInv'
      BY <3>1, <3>2, <3>6 DEF TailInv, RingInv, Rings, Size, world, place
    <3> QED
      BY <3>3, <3>4, <3>5, <3>7 DEF TailInv
  <2> QED
    BY <2>1, <2>2, <2>3 DEF TailNext
<1> QED
  BY <1>1, <1>2, PTL DEF TailSpec

\* The variables of tail keep their types.
THEOREM TailTyping ==
  ASSUME TailAssumptions
  PROVE  TailSpec => []TailTypeOK
<1>1. TailInv => TailTypeOK
  <2> SUFFICES ASSUME FilesInv, PlaceInv, ReadInv, RingInv PROVE TailTypeOK
    BY DEF TailInv
  <2>1. Len(ring.lines) = Wanted /\ ring.start \in 0..(Wanted - 1) /\ ring.count \in 0..Wanted
    BY ScenarioIs DEF RingInv, Rings, FilesInv
  <2> QED
    BY <2>1 DEF TailTypeOK, FilesInv, PlaceInv, StdinInv, ReadInv
<1> QED
  BY <1>1, TailInvariant, PTL

\* tail's ring holds exactly the last lines of what has been read, in order, for any
\* number of lines and any file, however often it has wrapped and whatever is appended meanwhile.
THEOREM RingIsLastHolds ==
  ASSUME TailAssumptions
  PROVE  TailSpec => []RingIsLast
<1>1. TailInv => RingIsLast
  BY DEF TailInv, RingInv
<1> QED
  BY <1>1, TailInvariant, PTL

-----------------------------------------------------------------------------
(* tee: texts and blocks *)

CONSTANTS TeeCalls, TeeFaults, TeeBuffer, TeeMaxFiles
VARIABLES teeCall, teeIn, teeOut, teeMem, teePc, teeStatus, teeFaults
Tee == INSTANCE Tee WITH Calls <- TeeCalls, Faults <- TeeFaults, BufferSize <- TeeBuffer, MaxFiles <- TeeMaxFiles,
  call <- teeCall, inp <- teeIn, out <- teeOut, mem <- teeMem, pc <- teePc, status <- teeStatus, faults <- teeFaults

\* The smaller of two numbers.
LEMMA MinOfTwo ==
  ASSUME NEW a \in Int, NEW b \in Int
  PROVE  Tee!Min({a, b}) = IF a <= b THEN a ELSE b
<1>1. \E x \in {a, b} : \A y \in {a, b} : x <= y
  OBVIOUS
<1>2. Tee!Min({a, b}) \in {a, b} /\ \A y \in {a, b} : Tee!Min({a, b}) <= y
  BY <1>1 DEF Tee!Min
<1> QED
  BY <1>2

\* A part of a text.
LEMMA PartFacts ==
  ASSUME NEW S, NEW s \in Seq(S), NEW m \in 1..(Len(s) + 1), NEW n \in (m - 1)..Len(s)
  PROVE  /\ SubSeq(s, m, n) \in Seq(S)
         /\ Len(SubSeq(s, m, n)) = n - m + 1
         /\ \A k \in 1..(n - m + 1) : SubSeq(s, m, n)[k] = s[m + k - 1]
<1>1. m \in Int /\ n \in Int /\ Len(s) \in Nat
  OBVIOUS
<1>2. \A k \in m..n : s[k] \in S
  BY <1>1, ElementOfSeq
<1>3. /\ SubSeq(s, m, n) \in Seq(S)
      /\ Len(SubSeq(s, m, n)) = IF m <= n THEN n - m + 1 ELSE 0
      /\ \A k \in 1..(n - m + 1) : SubSeq(s, m, n)[k] = s[m + k - 1]
  BY <1>1, <1>2, SubSeqProperties
<1>4. (IF m <= n THEN n - m + 1 ELSE 0) = n - m + 1
  BY <1>1
<1> QED
  BY <1>3, <1>4

\* A part of what is left of a text from m on is a part of the text.
LEMMA PartOfRest ==
  ASSUME NEW S, NEW s \in Seq(S), NEW m \in 1..(Len(s) + 1),
         NEW a \in 1..(Len(s) - m + 2), NEW b \in (a - 1)..(Len(s) - m + 1)
  PROVE  SubSeq(SubSeq(s, m, Len(s)), a, b) = SubSeq(s, m + a - 1, m + b - 1)
<1>1. PICK l \in Nat : l = Len(s)
  OBVIOUS
<1>2a. SubSeq(s, m, l) \in Seq(S) /\ Len(SubSeq(s, m, l)) = l - m + 1 /\ \A k \in 1..(l - m + 1) : SubSeq(s, m, l)[k] = s[m + k - 1]
  <2>1. l \in (m - 1)..Len(s)
    BY <1>1
  <2> QED
    BY <2>1, PartFacts
<1>2b. PICK x : x = SubSeq(s, m, l)
  OBVIOUS
<1>2. x = SubSeq(s, m, l) /\ x \in Seq(S) /\ Len(x) = l - m + 1 /\ \A k \in 1..(l - m + 1) : x[k] = s[m + k - 1]
  BY <1>2a, <1>2b
<1>3a. SubSeq(x, a, b) \in Seq(S) /\ Len(SubSeq(x, a, b)) = b - a + 1 /\ \A k \in 1..(b - a + 1) : SubSeq(x, a, b)[k] = x[a + k - 1]
  <2>1. a \in 1..(Len(x) + 1) /\ b \in (a - 1)..Len(x)
    BY <1>1, <1>2
  <2> QED
    BY <2>1, <1>2, PartFacts
<1>3b. PICK y : y = SubSeq(x, a, b)
  OBVIOUS
<1>3. y = SubSeq(x, a, b) /\ y \in Seq(S) /\ Len(y) = b - a + 1 /\ \A k \in 1..(b - a + 1) : y[k] = x[a + k - 1]
  BY <1>3a, <1>3b
<1>4. PICK c \in Nat, d \in Nat : c = m + a - 1 /\ d = m + b - 1
  OBVIOUS
<1>5a. SubSeq(s, c, d) \in Seq(S) /\ Len(SubSeq(s, c, d)) = d - c + 1 /\ \A k \in 1..(d - c + 1) : SubSeq(s, c, d)[k] = s[c + k - 1]
  <2>1. c \in 1..(Len(s) + 1) /\ d \in (c - 1)..Len(s)
    BY <1>4
  <2> QED
    BY <2>1, PartFacts
<1>5b. PICK z : z = SubSeq(s, c, d)
  OBVIOUS
<1>5. z = SubSeq(s, c, d) /\ z \in Seq(S) /\ Len(z) = d - c + 1 /\ \A k \in 1..(d - c + 1) : z[k] = s[c + k - 1]
  BY <1>5a, <1>5b
<1>6. Len(y) = Len(z)
  BY <1>3, <1>4, <1>5
<1>7. ASSUME NEW k \in 1..Len(y) PROVE y[k] = z[k]
  <2>1. PICK j \in 1..(l - m + 1) : j = a + k - 1
    BY <1>1, <1>3
  <2>2. k \in 1..(b - a + 1) /\ k \in 1..(d - c + 1) /\ m + j - 1 = c + k - 1
    BY <1>3, <1>4, <2>1
  <2> QED
    BY <2>1, <2>2, <1>2, <1>3, <1>5
<1>8. y = z
  BY <1>3, <1>5, <1>6, <1>7, SeqEqual
<1> QED
  BY <1>1, <1>2, <1>3, <1>4, <1>5, <1>8

\* n more of a text of which r have been taken.
LEMMA NextBlock ==
  ASSUME NEW q \in Seq(Nat), NEW r \in Nat, NEW n \in Nat, r + n <= Len(q)
  PROVE  LET rest == SubSeq(q, r + 1, Len(q)) IN
           /\ SubSeq(rest, 1, n) = SubSeq(q, r + 1, r + n)
           /\ SubSeq(rest, n + 1, Len(rest)) = SubSeq(q, r + n + 1, Len(q))
           /\ SubSeq(q, r + 1, r + n) \in Seq(Nat) /\ Len(SubSeq(q, r + 1, r + n)) = n
           /\ Len(rest) = Len(q) - r /\ Len(SubSeq(q, r + n + 1, Len(q))) = Len(q) - (r + n)
<1>1. PICK m \in Nat : m = Len(q)
  OBVIOUS
<1>2. /\ r + 1 \in 1..(m + 1) /\ m \in (r + 1 - 1)..m /\ m - (r + 1) + 1 = m - r
      /\ r + n \in (r + 1 - 1)..m /\ r + n - (r + 1) + 1 = n
      /\ r + n + 1 \in 1..(m + 1) /\ m \in (r + n + 1 - 1)..m /\ m - (r + n + 1) + 1 = m - (r + n)
  BY <1>1
<1>3. Len(SubSeq(q, r + 1, m)) = m - (r + 1) + 1
  BY <1>1, <1>2, PartFacts
<1>4. SubSeq(q, r + 1, r + n) \in Seq(Nat) /\ Len(SubSeq(q, r + 1, r + n)) = r + n - (r + 1) + 1
  BY <1>1, <1>2, PartFacts
<1>5. Len(SubSeq(q, r + n + 1, m)) = m - (r + n + 1) + 1
  BY <1>1, <1>2, PartFacts
<1>6. SubSeq(SubSeq(q, r + 1, m), 1, n) = SubSeq(q, r + 1, r + n)
  <2>1. 1 \in 1..(m - (r + 1) + 2) /\ n \in (1 - 1)..(m - (r + 1) + 1) /\ (r + 1) + 1 - 1 = r + 1 /\ (r + 1) + n - 1 = r + n
    BY <1>1
  <2>2. SubSeq(SubSeq(q, r + 1, m), 1, n) = SubSeq(q, (r + 1) + 1 - 1, (r + 1) + n - 1)
    BY <1>1, <1>2, <2>1, PartOfRest
  <2> QED
    BY <2>1, <2>2
<1>7. SubSeq(SubSeq(q, r + 1, m), n + 1, m - r) = SubSeq(q, r + n + 1, m)
  <2>1. /\ n + 1 \in 1..(m - (r + 1) + 2) /\ m - r \in (n + 1 - 1)..(m - (r + 1) + 1)
        /\ (r + 1) + (n + 1) - 1 = r + n + 1 /\ (r + 1) + (m - r) - 1 = m
    BY <1>1
  <2>2. SubSeq(SubSeq(q, r + 1, m), n + 1, m - r) = SubSeq(q, (r + 1) + (n + 1) - 1, (r + 1) + (m - r) - 1)
    BY <1>1, <1>2, <2>1, PartOfRest
  <2> QED
    BY <2>1, <2>2
<1> QED
  BY <1>1, <1>2, <1>3, <1>4, <1>5, <1>6, <1>7

-----------------------------------------------------------------------------
(* tee: the invariant *)

\* What has been read is the first r bytes of the input, and the block that is
\* being written is what is behind the first s of them.
TeeText(r, s) ==
  /\ teeIn = SubSeq(teeCall.in, r + 1, Len(teeCall.in)) /\ Len(teeIn) = Len(teeCall.in) - r
  /\ teeMem.block = SubSeq(teeCall.in, s + 1, r) /\ Len(teeMem.block) = r - s

\* An output that has not failed has the block already, or is still to get it.
TeeOutputs(r, s) ==
  \A k \in 1..Len(teeOut) \ teeMem.bad :
    teeOut[k] = Tee!Base(k) \o SubSeq(teeCall.in, 1, IF k < teeMem.next THEN r ELSE s)

TeeTyping ==
  /\ teeCall \in TeeCalls /\ teePc \in {"main", "read", "write", "exited"}
  /\ teeOut \in Seq(Seq(Nat)) /\ Len(teeOut) = Len(teeCall.old) + 1
  /\ teeMem \in [block : Seq(Nat), next : 1..Len(teeOut), bad : SUBSET Int]
TeePlaces ==
  /\ teePc = "main" =>
       teeMem = [block |-> <<>>, next |-> 1, bad |-> {}] /\ teeOut = << <<>> >> \o teeCall.old /\ teeIn = teeCall.in
  /\ teePc = "read" => teeMem.block = <<>>
  /\ teePc = "exited" /\ teeStatus = 0 => teeIn = <<>> /\ teeMem.block = <<>>
TeeProgress ==
  \E r \in 0..Len(teeCall.in) : \E s \in 0..r : TeeText(r, s) /\ (teePc # "main" => TeeOutputs(r, s))
TeeInv == TeeTyping /\ TeePlaces /\ TeeProgress

\* The operands of tee are texts.
LEMMA TeeOperands ==
  ASSUME Tee!Assumptions, TeeTyping
  PROVE  /\ teeCall.in \in Seq(Nat) /\ teeCall.old \in Seq(Seq(Nat)) /\ Len(teeCall.in) \in Nat /\ Len(teeCall.old) \in Nat
         /\ teeCall.append \in {0, 1}
         /\ Len(teeOut) \in Nat /\ 1 \in 1..Len(teeOut)
         /\ \A k \in 1..Len(teeOut) : Tee!Base(k) \in Seq(Nat)
<1>1. /\ teeCall.in \in Seq(Nat) /\ teeCall.old \in Seq(Seq(Nat)) /\ teeCall.append \in {0, 1}
  BY DEF Tee!Assumptions, TeeTyping
<1>2. Len(teeCall.in) \in Nat /\ Len(teeCall.old) \in Nat /\ Len(teeOut) = Len(teeCall.old) + 1
  BY <1>1 DEF TeeTyping
<1>3. ASSUME NEW k \in 1..Len(teeOut) PROVE Tee!Base(k) \in Seq(Nat)
  <2>1. k # 1 => k - 1 \in 1..Len(teeCall.old)
    BY <1>2
  <2>2. k # 1 => teeCall.old[k - 1] \in Seq(Nat)
    BY <1>1, <2>1
  <2> QED
    BY <2>2 DEF Tee!Base
<1> QED
  BY <1>1, <1>2, <1>3

\* A file that has the first s bytes and gets those behind has the first r.
LEMMA Appended ==
  ASSUME NEW b \in Seq(Nat), NEW q \in Seq(Nat), NEW r \in 0..Len(q), NEW s \in 0..r
  PROVE  (b \o SubSeq(q, 1, s)) \o SubSeq(q, s + 1, r) = b \o SubSeq(q, 1, r)
<1>1. s \in 0..Len(q) /\ s + 1 \in 1..(Len(q) + 1) /\ r \in s..Len(q) /\ r \in (s + 1 - 1)..Len(q) /\ s \in (1 - 1)..Len(q) /\ 1 \in 1..(Len(q) + 1)
  OBVIOUS
<1>2. SubSeq(q, 1, s) \in Seq(Nat) /\ SubSeq(q, s + 1, r) \in Seq(Nat)
  BY <1>1, PartFacts
<1>3. SubSeq(q, 1, s) \o SubSeq(q, s + 1, r) = SubSeq(q, 1, r)
  BY <1>1, ConcatAdjacentSubSeq
<1>4. (b \o SubSeq(q, 1, s)) \o SubSeq(q, s + 1, r) = b \o (SubSeq(q, 1, s) \o SubSeq(q, s + 1, r))
  <2>1. \A x, y \in Seq(Nat) : (b \o x) \o y = b \o (x \o y)
    BY ConcatAssociative
  <2> QED
    BY <1>2, <2>1, Zenon
<1> QED
  BY <1>3, <1>4

\* At the start nothing has been read, and the files are as they were.
LEMMA TeeStarts ==
  ASSUME Tee!Assumptions, Tee!Init
  PROVE  TeeInv
<1>1. teeCall \in TeeCalls /\ teeIn = teeCall.in /\ teeOut = << <<>> >> \o teeCall.old
  BY DEF Tee!Init
<1>2. teeCall.in \in Seq(Nat) /\ teeCall.old \in Seq(Seq(Nat))
  BY <1>1 DEF Tee!Assumptions
<1>3. << <<>> >> \in Seq(Seq(Nat)) /\ Len(<< <<>> >>) = 1
  OBVIOUS
<1>4. teeOut \in Seq(Seq(Nat)) /\ Len(teeOut) = Len(teeCall.old) + 1
  BY <1>1, <1>2, <1>3, ConcatProperties
<1>5. TeeTyping
  <2>1. 1 \in 1..Len(teeOut) /\ <<>> \in Seq(Nat)
    BY <1>2, <1>4
  <2> QED
    BY <1>1, <1>4, <2>1 DEF TeeTyping, Tee!Init
<1>6. TeePlaces
  BY DEF TeePlaces, Tee!Init
<1>7. TeeText(0, 0)
  <2>1. SubSeq(teeCall.in, 0 + 1, Len(teeCall.in)) = teeCall.in
    BY <1>2, SubSeqFull
  <2>2. SubSeq(teeCall.in, 0 + 1, 0) = <<>>
    BY SubSeqEmpty
  <2>3. teeMem.block = <<>> /\ Len(teeMem.block) = 0 - 0
    BY DEF Tee!Init
  <2>4. Len(teeIn) = Len(teeCall.in) - 0
    BY <1>1, <1>2
  <2> QED
    BY <1>1, <2>1, <2>2, <2>3, <2>4 DEF TeeText
<1>8. 0 \in 0..Len(teeCall.in) /\ 0 \in 0..0
  BY <1>2
<1>9. teePc = "main"
  BY DEF Tee!Init
<1> QED
  BY <1>5, <1>6, <1>7, <1>8, <1>9 DEF TeeInv, TeeProgress

\* open: every file that is opened begins with its base.
LEMMA TeeOpens ==
  ASSUME Tee!Assumptions, TeeInv, NEW n \in Nat, n + 1 <= Len(teeOut), teePc = "main", Tee!OpenedOnly(n), teeCall' = teeCall
  PROVE  /\ teeOut' \in Seq(Seq(Nat)) /\ Len(teeOut') = Len(teeOut)
         /\ teeMem' = [block |-> <<>>, next |-> 1, bad |-> (n + 2)..Len(teeOut)]
         /\ \A k \in 1..Len(teeOut) \ ((n + 2)..Len(teeOut)) : teeOut'[k] = Tee!Base(k)
<1>1. teeMem = [block |-> <<>>, next |-> 1, bad |-> {}] /\ teeOut = << <<>> >> \o teeCall.old
  BY DEF TeeInv, TeePlaces
<1>2. /\ teeCall.in \in Seq(Nat) /\ teeCall.old \in Seq(Seq(Nat)) /\ Len(teeCall.old) \in Nat
      /\ teeCall.append \in {0, 1} /\ teeOut \in Seq(Seq(Nat)) /\ Len(teeOut) = Len(teeCall.old) + 1
  BY TeeOperands DEF TeeInv, TeeTyping
<1>3. /\ teeOut[1] = <<>>
      /\ \A k \in 2..Len(teeOut) : teeOut[k] = teeCall.old[k - 1]
  <2>1. << <<>> >> \in Seq(Seq(Nat)) /\ Len(<< <<>> >>) = 1 /\ << <<>> >>[1] = <<>>
    OBVIOUS
  <2>2. \A k \in 1..(1 + Len(teeCall.old)) : teeOut[k] = IF k <= 1 THEN << <<>> >>[k] ELSE teeCall.old[k - 1]
    BY <1>1, <1>2, <2>1, ConcatProperties
  <2>3. 1 \in 1..(1 + Len(teeCall.old)) /\ \A k \in 2..Len(teeOut) : k \in 1..(1 + Len(teeCall.old)) /\ ~(k <= 1)
    BY <1>2
  <2> QED
    BY <2>1, <2>2, <2>3
<1>4. \A k \in 1..Len(teeOut) : Tee!Opened(n)[k] = IF k \in 2..(n + 1) /\ teeCall.append = 0 THEN <<>> ELSE teeOut[k]
  BY DEF Tee!Opened
<1>5. Tee!Opened(n) \in Seq(Seq(Nat)) /\ Len(Tee!Opened(n)) = Len(teeOut)
  <2>1. \A k \in 1..Len(teeOut) : (IF k \in 2..(n + 1) /\ teeCall.append = 0 THEN <<>> ELSE teeOut[k]) \in Seq(Nat)
    BY <1>2
  <2> QED
    BY <1>2, <2>1 DEF Tee!Opened
<1>6. teeOut' = Tee!Opened(n) /\ teeMem' = [teeMem EXCEPT !.bad = (n + 2)..Len(teeOut)]
  BY DEF Tee!OpenedOnly
<1>7. ASSUME NEW k \in 1..Len(teeOut) \ ((n + 2)..Len(teeOut)) PROVE Tee!Opened(n)[k] = Tee!Base(k)
  <2>1. k = 1 \/ k \in 2..(n + 1)
    BY <1>2
  <2>2. k # 1 => k \in 2..Len(teeOut)
    BY <1>2
  <2> QED
    BY <1>3, <1>4, <2>1, <2>2 DEF Tee!Base
<1> QED
  BY <1>1, <1>5, <1>6, <1>7


\* The files are opened: each output that is open has its base.
LEMMA TeeOpenStep ==
  ASSUME Tee!Assumptions, TeeInv, Tee!Open
  PROVE  TeeInv'
<1>1. /\ teeCall.in \in Seq(Nat) /\ Len(teeCall.in) \in Nat /\ Len(teeCall.old) \in Nat /\ Len(teeOut) = Len(teeCall.old) + 1
      /\ \A k \in 1..Len(teeOut) : Tee!Base(k) \in Seq(Nat)
  BY TeeOperands DEF TeeInv, TeeTyping
<1>2. teePc = "main" /\ teeCall' = teeCall /\ teeIn' = teeIn /\ teeIn = teeCall.in
  BY DEF Tee!Open, TeeInv, TeePlaces
<1>3. \E n \in Nat : n + 1 <= Len(teeOut) /\ Tee!OpenedOnly(n) /\ (teePc' = "read" \/ (teePc' = "exited" /\ teeStatus' = 1))
  <2>2. TeeMaxFiles \in Nat
    BY DEF Tee!Assumptions
  <2>3. ASSUME NEW n \in 0..Tee!Min({Len(teeCall.old) - 1, TeeMaxFiles}) PROVE n \in Nat /\ n + 1 <= Len(teeOut)
    <3>1. Len(teeCall.old) - 1 \in Int
      BY <1>1
    <3>2. Tee!Min({Len(teeCall.old) - 1, TeeMaxFiles}) \in Int /\ Tee!Min({Len(teeCall.old) - 1, TeeMaxFiles}) <= Len(teeCall.old) - 1
      BY <2>2, <3>1, MinOfTwo
    <3> QED
      BY <1>1, <3>2
  <2>4. Len(teeCall.old) > TeeMaxFiles => TeeMaxFiles + 1 <= Len(teeOut)
    BY <1>1, <2>2
  <2>5. Len(teeCall.old) + 1 <= Len(teeOut)
    BY <1>1
  <2>6. CASE Len(teeCall.old) <= TeeMaxFiles /\ Tee!OpenedOnly(Len(teeCall.old)) /\ teePc' = "read"
    BY <1>1, <2>5, <2>6
  <2>7. CASE Len(teeCall.old) > TeeMaxFiles /\ Tee!OpenedOnly(TeeMaxFiles) /\ Tee!Exit(1)
    BY <2>2, <2>4, <2>7 DEF Tee!Exit
  <2>8. CASE \E n \in 0..Tee!Min({Len(teeCall.old) - 1, TeeMaxFiles}) : Tee!OpenedOnly(n) /\ Tee!Exit(1)
    BY <2>3, <2>8 DEF Tee!Exit
  <2> QED
    BY <2>6, <2>7, <2>8 DEF Tee!Open
<1>4. PICK n \in Nat : n + 1 <= Len(teeOut) /\ Tee!OpenedOnly(n) /\ (teePc' = "read" \/ (teePc' = "exited" /\ teeStatus' = 1))
  BY <1>3
<1>5. /\ teeOut' \in Seq(Seq(Nat)) /\ Len(teeOut') = Len(teeOut)
      /\ teeMem' = [block |-> <<>>, next |-> 1, bad |-> (n + 2)..Len(teeOut)]
      /\ \A k \in 1..Len(teeOut) \ ((n + 2)..Len(teeOut)) : teeOut'[k] = Tee!Base(k)
  BY <1>2, <1>4, TeeOpens
<1>6. TeeTyping'
  BY <1>1, <1>2, <1>4, <1>5 DEF TeeTyping, TeeInv
<1>7. TeePlaces'
  BY <1>2, <1>4, <1>5 DEF TeePlaces
<1>8. TeeText(0, 0)'
  <2>1. SubSeq(teeCall.in, 0 + 1, Len(teeCall.in)) = teeCall.in
    BY <1>1, SubSeqFull
  <2>2. SubSeq(teeCall.in, 0 + 1, 0) = <<>>
    BY SubSeqEmpty
  <2>3. teeMem'.block = <<>> /\ Len(teeMem'.block) = 0 - 0
    BY <1>5
  <2>4. Len(teeCall.in) = Len(teeCall.in) - 0
    BY <1>1
  <2> QED
    BY <1>2, <2>1, <2>2, <2>3, <2>4 DEF TeeText
<1>9. TeeOutputs(0, 0)'
  <2> SUFFICES ASSUME NEW k \in 1..Len(teeOut') \ teeMem'.bad
               PROVE  teeOut'[k] = Tee!Base(k)' \o SubSeq(teeCall'.in, 1, IF k < teeMem'.next THEN 0 ELSE 0)
    BY DEF TeeOutputs
  <2>1. k \in 1..Len(teeOut) \ ((n + 2)..Len(teeOut)) /\ Tee!Base(k)' = Tee!Base(k)
    BY <1>2, <1>5 DEF Tee!Base
  <2>2. SubSeq(teeCall.in, 1, 0) = <<>>
    BY SubSeqEmpty
  <2>3. Tee!Base(k) \o <<>> = Tee!Base(k)
    BY <1>1, <2>1, ConcatEmptySeq
  <2> QED
    BY <1>2, <1>5, <2>1, <2>2, <2>3
<1>10. 0 \in 0..Len(teeCall'.in) /\ 0 \in 0..0
  BY <1>1, <1>2
<1> QED
  BY <1>6, <1>7, <1>8, <1>9, <1>10 DEF TeeInv, TeeProgress

\* read: what is read next becomes the block, which no output has yet.
LEMMA TeeReadStep ==
  ASSUME Tee!Assumptions, TeeInv, Tee!Read
  PROVE  TeeInv'
<1>1. /\ teeCall.in \in Seq(Nat) /\ Len(teeCall.in) \in Nat /\ Len(teeOut) \in Nat /\ 1 \in 1..Len(teeOut)
  BY TeeOperands DEF TeeInv
<1>2. /\ teePc = "read" /\ teeCall' = teeCall /\ teeOut' = teeOut /\ teeMem.block = <<>>
      /\ teeMem \in [block : Seq(Nat), next : 1..Len(teeOut), bad : SUBSET Int]
  BY DEF Tee!Read, TeeInv, TeePlaces, TeeTyping
<1>3. PICK r \in 0..Len(teeCall.in) : \E s \in 0..r : TeeText(r, s) /\ TeeOutputs(r, s)
  BY <1>2 DEF TeeInv, TeeProgress
<1>4. TeeText(r, r) /\ TeeOutputs(r, r)
  <2>1. PICK s \in 0..r : TeeText(r, s) /\ TeeOutputs(r, s)
    BY <1>3
  <2>2. Len(teeMem.block) = 0 /\ Len(teeMem.block) = r - s
    BY <1>2, <2>1 DEF TeeText
  <2>3. s = r
    BY <2>2
  <2> QED
    BY <2>1, <2>3
<1>5. CASE \E n \in 1..Tee!Min({TeeBuffer, Len(teeIn)}) :
             /\ teeIn' = Tee!From(teeIn, n + 1)
             /\ teeMem' = [teeMem EXCEPT !.block = Tee!Take(teeIn, n), !.next = 1]
             /\ teePc' = "write"
  <2>1. teeIn = SubSeq(teeCall.in, r + 1, Len(teeCall.in)) /\ Len(teeIn) = Len(teeCall.in) - r /\ r \in Nat /\ r <= Len(teeCall.in)
    BY <1>1, <1>4 DEF TeeText
  <2>a. Len(teeIn) \in Int /\ TeeBuffer \in Int
    BY <1>1, <2>1 DEF Tee!Assumptions
  <2>b. Tee!Min({TeeBuffer, Len(teeIn)}) \in Int /\ Tee!Min({TeeBuffer, Len(teeIn)}) <= Len(teeIn)
    BY <2>a, MinOfTwo
  <2>2. PICK n \in Nat : /\ n <= Len(teeIn) /\ teeIn' = Tee!From(teeIn, n + 1)
                         /\ teeMem' = [teeMem EXCEPT !.block = Tee!Take(teeIn, n), !.next = 1]
                         /\ teePc' = "write"
    <3>1. \A n \in 1..Tee!Min({TeeBuffer, Len(teeIn)}) : n \in Nat /\ n <= Len(teeIn)
      BY <2>a, <2>b
    <3> QED
      BY <1>5, <3>1
  <2>3. Tee!Take(teeIn, n) = SubSeq(teeIn, 1, n) /\ Tee!From(teeIn, n + 1) = SubSeq(teeIn, n + 1, Len(teeIn))
    <3>1. Tee!Min({n, Len(teeIn)}) = n
      BY <2>a, <2>2, MinOfTwo
    <3> QED
      BY <3>1 DEF Tee!Take, Tee!From
  <2>4. r + n \in 0..Len(teeCall.in) /\ r \in 0..(r + n) /\ r + n <= Len(teeCall.in)
    BY <1>1, <2>1, <2>2
  <2>c. r + n - r = n
    BY <2>1, <2>2
  <2>5. Tee!Take(teeIn, n) = SubSeq(teeCall.in, r + 1, r + n)
    BY <1>1, <2>1, <2>2, <2>3, <2>4, NextBlock
  <2>6. Tee!From(teeIn, n + 1) = SubSeq(teeCall.in, r + n + 1, Len(teeCall.in))
    BY <1>1, <2>1, <2>2, <2>3, <2>4, NextBlock
  <2>7. /\ SubSeq(teeCall.in, r + 1, r + n) \in Seq(Nat) /\ Len(SubSeq(teeCall.in, r + 1, r + n)) = n
        /\ Len(SubSeq(teeCall.in, r + n + 1, Len(teeCall.in))) = Len(teeCall.in) - (r + n)
    BY <1>1, <2>1, <2>2, <2>4, NextBlock
  <2>8. teeMem' \in [block : Seq(Nat), next : 1..Len(teeOut), bad : SUBSET Int] /\ teeMem'.bad = teeMem.bad /\ teeMem'.next = 1
    BY <1>1, <1>2, <2>2, <2>5, <2>7
  <2>9. TeeTyping'
    BY <1>2, <2>2, <2>8 DEF TeeTyping, TeeInv
  <2>10. TeePlaces'
    BY <2>2 DEF TeePlaces
  <2>11. TeeText(r + n, r)'
    <3>1. teeMem'.block = Tee!Take(teeIn, n)
      BY <1>2, <2>2
    <3>2. teeMem'.block = SubSeq(teeCall.in, r + 1, r + n) /\ Len(teeMem'.block) = r + n - r
      BY <2>5, <2>7, <2>c, <3>1
    <3>3. teeIn' = SubSeq(teeCall.in, r + n + 1, Len(teeCall.in)) /\ Len(teeIn') = Len(teeCall.in) - (r + n)
      BY <2>2, <2>6, <2>7
    <3> QED
      BY <1>2, <3>2, <3>3 DEF TeeText
  <2>12. TeeOutputs(r + n, r)'
    <3> SUFFICES ASSUME NEW k \in 1..Len(teeOut') \ teeMem'.bad
                 PROVE  teeOut'[k] = Tee!Base(k)' \o SubSeq(teeCall'.in, 1, IF k < teeMem'.next THEN r + n ELSE r)
      BY DEF TeeOutputs
    <3>1. k \in 1..Len(teeOut) \ teeMem.bad /\ Tee!Base(k)' = Tee!Base(k) /\ ~(k < teeMem'.next)
      BY <1>1, <1>2, <2>8 DEF Tee!Base
    <3>2. teeOut[k] = Tee!Base(k) \o SubSeq(teeCall.in, 1, r)
      BY <1>4, <3>1 DEF TeeOutputs
    <3> QED
      BY <1>2, <3>1, <3>2
  <2> QED
    BY <1>2, <2>4, <2>9, <2>10, <2>11, <2>12 DEF TeeInv, TeeProgress
<1>6. CASE teeIn' = teeIn /\ teeMem' = teeMem /\ teePc' = "exited" /\ (teeStatus' = 1 \/ teeIn = <<>>)
  <2>1. TeeTyping'
    BY <1>2, <1>6 DEF TeeTyping, TeeInv
  <2>2. TeePlaces'
    BY <1>2, <1>6 DEF TeePlaces
  <2>3. TeeText(r, r)'
    BY <1>2, <1>4, <1>6 DEF TeeText
  <2>4. TeeOutputs(r, r)'
    BY <1>2, <1>4, <1>6 DEF TeeOutputs, Tee!Base
  <2>5. r \in 0..Len(teeCall'.in) /\ r \in 0..r
    BY <1>1, <1>2
  <2> QED
    BY <2>1, <2>2, <2>3, <2>4, <2>5 DEF TeeInv, TeeProgress
<1> QED
  BY <1>5, <1>6 DEF Tee!Read, Tee!Exit


\* What a write adds to the outputs.  One that is written whole goes on to the
\* next output; behind the last one the block is done.
LEMMA TeeNext ==
  ASSUME Tee!Assumptions, TeeTyping, teeCall' = teeCall, teeIn' = teeIn,
         NEW r \in 0..Len(teeCall.in), NEW s \in 0..r, TeeText(r, s), TeeOutputs(r, s),
         NEW m, m \in [block : Seq(Nat), next : 1..Len(teeOut), bad : SUBSET Int],
         m.block = teeMem.block, m.next = teeMem.next, teeMem.bad \subseteq m.bad,
         teeMem' = Tee!OneAfter(m), teePc' = Tee!PcAfter,
         teeOut' \in Seq(Seq(Nat)), Len(teeOut') = Len(teeOut),
         \A k \in 1..Len(teeOut) : k # teeMem.next => teeOut'[k] = teeOut[k],
         teeMem.next \notin m.bad => teeOut'[teeMem.next] = teeOut[teeMem.next] \o teeMem.block
  PROVE  TeeInv'
<1>1. /\ teeCall.in \in Seq(Nat) /\ Len(teeCall.in) \in Nat /\ Len(teeOut) \in Nat /\ 1 \in 1..Len(teeOut)
      /\ \A k \in 1..Len(teeOut) : Tee!Base(k) \in Seq(Nat)
  BY TeeOperands
<1>2. teeMem.next \in 1..Len(teeOut) /\ Len(teeOut) = Len(teeCall.old) + 1 /\ teeCall \in TeeCalls
  BY DEF TeeTyping
<1>3. ASSUME NEW k \in 1..Len(teeOut), k \notin m.bad
      PROVE  teeOut'[k] = Tee!Base(k)' \o SubSeq(teeCall.in, 1, IF k <= teeMem.next THEN r ELSE s)
  <2>1. teeOut[k] = Tee!Base(k) \o SubSeq(teeCall.in, 1, IF k < teeMem.next THEN r ELSE s) /\ Tee!Base(k)' = Tee!Base(k)
    BY <1>3 DEF TeeOutputs, Tee!Base
  <2>2. CASE k # teeMem.next
    <3>1. (k < teeMem.next) <=> (k <= teeMem.next)
      BY <1>2, <2>2
    <3> QED
      BY <2>1, <2>2, <3>1
  <2>3. CASE k = teeMem.next
    <3>1. ~(k < teeMem.next) /\ k <= teeMem.next
      BY <1>2, <2>3
    <3>2. teeOut'[k] = (Tee!Base(k) \o SubSeq(teeCall.in, 1, s)) \o SubSeq(teeCall.in, s + 1, r)
      BY <1>3, <2>1, <2>3, <3>1 DEF TeeText
    <3>3. (Tee!Base(k) \o SubSeq(teeCall.in, 1, s)) \o SubSeq(teeCall.in, s + 1, r) = Tee!Base(k) \o SubSeq(teeCall.in, 1, r)
      BY <1>1, Appended
    <3> QED
      BY <2>1, <3>1, <3>2, <3>3
  <2> QED
    BY <2>2, <2>3
<1>4. CASE teeMem.next < Len(teeOut)
  <2>1. teeMem' = [m EXCEPT !.next = teeMem.next + 1] /\ teePc' = "write"
    BY <1>4 DEF Tee!OneAfter, Tee!PcAfter
  <2>2. teeMem.next + 1 \in 1..Len(teeOut)
    <3>1. \A n \in Nat : \A k \in 1..n : k < n => k + 1 \in 1..n
      OBVIOUS
    <3> QED
      BY <1>1, <1>2, <1>4, <3>1
  <2>3. /\ teeMem' \in [block : Seq(Nat), next : 1..Len(teeOut), bad : SUBSET Int]
        /\ teeMem'.block = teeMem.block /\ teeMem'.next = teeMem.next + 1 /\ teeMem'.bad = m.bad
    BY <2>1, <2>2
  <2>4. TeeTyping'
    BY <1>2, <2>1, <2>3 DEF TeeTyping
  <2>5. TeePlaces'
    BY <2>1 DEF TeePlaces
  <2>6. TeeText(r, s)'
    BY <2>3 DEF TeeText
  <2>7. TeeOutputs(r, s)'
    <3> SUFFICES ASSUME NEW k \in 1..Len(teeOut') \ teeMem'.bad
                 PROVE  teeOut'[k] = Tee!Base(k)' \o SubSeq(teeCall'.in, 1, IF k < teeMem'.next THEN r ELSE s)
      BY DEF TeeOutputs
    <3>1. k \in 1..Len(teeOut) /\ k \notin m.bad
      BY <2>3
    <3>2. (k < teeMem'.next) <=> (k <= teeMem.next)
      BY <1>2, <2>3, <3>1
    <3> QED
      BY <1>3, <3>1, <3>2
  <2> QED
    BY <2>4, <2>5, <2>6, <2>7 DEF TeeInv, TeeProgress
<1>5. CASE ~(teeMem.next < Len(teeOut))
  <2>1. teeMem' = [m EXCEPT !.next = 1, !.block = <<>>] /\ teePc' = "read"
    BY <1>5 DEF Tee!OneAfter, Tee!PcAfter
  <2>2. <<>> \in Seq(Nat) /\ Len(<<>>) = r - r
    OBVIOUS
  <2>3. /\ teeMem' \in [block : Seq(Nat), next : 1..Len(teeOut), bad : SUBSET Int]
        /\ teeMem'.block = <<>> /\ teeMem'.next = 1 /\ teeMem'.bad = m.bad
    BY <1>1, <2>1, <2>2
  <2>4. TeeTyping'
    BY <1>2, <2>1, <2>3 DEF TeeTyping
  <2>5. TeePlaces'
    BY <2>1, <2>3 DEF TeePlaces
  <2>6. TeeText(r, r)'
    <3>1. SubSeq(teeCall.in, r + 1, r) = <<>>
      BY <1>1, SubSeqEmpty
    <3> QED
      BY <2>2, <2>3, <3>1 DEF TeeText
  <2>7. TeeOutputs(r, r)'
    <3> SUFFICES ASSUME NEW k \in 1..Len(teeOut') \ teeMem'.bad
                 PROVE  teeOut'[k] = Tee!Base(k)' \o SubSeq(teeCall'.in, 1, IF k < teeMem'.next THEN r ELSE r)
      BY DEF TeeOutputs
    <3>1. k \in 1..Len(teeOut) /\ k \notin m.bad
      BY <2>3
    <3>2. k <= teeMem.next
      BY <1>1, <1>2, <1>5, <3>1
    <3> QED
      BY <1>3, <3>1, <3>2
  <2>8. r \in 0..r
    BY <1>1
  <2> QED
    BY <2>4, <2>5, <2>6, <2>7, <2>8 DEF TeeInv, TeeProgress
<1> QED
  BY <1>4, <1>5


\* What Take takes of a block is a part of it.
LEMMA TakeIs ==
  ASSUME NEW q \in Seq(Nat), NEW n \in Nat
  PROVE  Tee!Take(q, n) \in Seq(Nat) /\ (q = <<>> => Tee!Take(q, n) = <<>>)
<1>1. Tee!Min({n, Len(q)}) \in 0..Len(q)
  <2>1. Len(q) \in Int /\ n \in Int
    OBVIOUS
  <2>2. Tee!Min({n, Len(q)}) = IF n <= Len(q) THEN n ELSE Len(q)
    BY <2>1, MinOfTwo
  <2> QED
    BY <2>2
<1>2. PICK k \in 0..Len(q) : k = Tee!Min({n, Len(q)})
  BY <1>1
<1>3. 1 \in 1..(Len(q) + 1) /\ k \in (1 - 1)..Len(q)
  OBVIOUS
<1>4. SubSeq(q, 1, k) \in Seq(Nat)
  BY <1>3, PartFacts
<1>5. ASSUME q = <<>> PROVE SubSeq(q, 1, k) = <<>>
  <2>1. Len(q) = 0
    BY <1>5
  <2>2. k \in Int /\ k < 1
    BY <2>1
  <2> QED
    BY <2>2, SubSeqEmpty
<1> QED
  BY <1>2, <1>4, <1>5 DEF Tee!Take

\* One output gets a text at its end.
LEMMA OutputGrows ==
  ASSUME NEW o \in Seq(Seq(Nat)), NEW n \in 1..Len(o), NEW x \in Seq(Nat), NEW p, p = [o EXCEPT ![n] = @ \o x]
  PROVE  /\ p \in Seq(Seq(Nat)) /\ Len(p) = Len(o)
         /\ \A k \in 1..Len(o) : k # n => p[k] = o[k]
         /\ p[n] = o[n] \o x
<1>1. o[n] \in Seq(Nat)
  OBVIOUS
<1>2. PICK y : y = o[n] \o x
  OBVIOUS
<1>3. y \in Seq(Nat)
  BY <1>1, <1>2, ConcatProperties
<1>4. p = [o EXCEPT ![n] = y]
  BY <1>2
<1> QED
  BY <1>2, <1>3, <1>4, ExceptSeq

\* full_write: whole, or in part with an error; an error of a file goes on with
\* the next output, an error of standard output ends tee.
LEMMA TeeWriteStep ==
  ASSUME Tee!Assumptions, TeeInv, Tee!Write
  PROVE  TeeInv'
<1>1. /\ teeCall.in \in Seq(Nat) /\ Len(teeCall.in) \in Nat /\ Len(teeOut) \in Nat /\ 1 \in 1..Len(teeOut)
  BY TeeOperands DEF TeeInv
<1>2. /\ teePc = "write" /\ teeCall' = teeCall /\ teeIn' = teeIn /\ TeeTyping
      /\ teeMem \in [block : Seq(Nat), next : 1..Len(teeOut), bad : SUBSET Int]
      /\ teeOut \in Seq(Seq(Nat)) /\ Len(teeOut) = Len(teeCall.old) + 1
  BY DEF Tee!Write, TeeInv, TeeTyping
<1>3. PICK r \in 0..Len(teeCall.in) : \E s \in 0..r : TeeText(r, s) /\ TeeOutputs(r, s)
  BY <1>2 DEF TeeInv, TeeProgress
<1>4. PICK s \in 0..r : TeeText(r, s) /\ TeeOutputs(r, s)
  BY <1>3
<1>5. CASE teeOut' = [teeOut EXCEPT ![teeMem.next] = @ \o teeMem.block] /\ teeMem' = Tee!OneAfter(teeMem) /\ teePc' = Tee!PcAfter
  <2>1. teeMem.block \in Seq(Nat) /\ teeMem.next \in 1..Len(teeOut) /\ teeMem.bad \subseteq teeMem.bad
    BY <1>2
  <2>2. /\ teeOut' \in Seq(Seq(Nat)) /\ Len(teeOut') = Len(teeOut)
        /\ \A k \in 1..Len(teeOut) : k # teeMem.next => teeOut'[k] = teeOut[k]
        /\ teeOut'[teeMem.next] = teeOut[teeMem.next] \o teeMem.block
    BY <1>2, <1>5, <2>1, OutputGrows
  <2> QED
    BY <1>2, <1>4, <1>5, <2>1, <2>2, TeeNext
<1>6. ASSUME NEW n \in 0..Len(teeMem.block) - 1, teeOut' = [teeOut EXCEPT ![teeMem.next] = @ \o Tee!Take(teeMem.block, n)]
      PROVE  /\ teeOut' \in Seq(Seq(Nat)) /\ Len(teeOut') = Len(teeOut)
             /\ \A k \in 1..Len(teeOut) : k # teeMem.next => teeOut'[k] = teeOut[k]
  <2>1. n \in Nat /\ teeMem.block \in Seq(Nat) /\ teeMem.next \in 1..Len(teeOut)
    BY <1>2
  <2>2. Tee!Take(teeMem.block, n) \in Seq(Nat)
    BY <2>1, TakeIs
  <2> QED
    BY <1>2, <1>6, <2>1, <2>2, OutputGrows
<1>7. ASSUME NEW n \in 0..Len(teeMem.block) - 1, teeOut' = [teeOut EXCEPT ![teeMem.next] = @ \o Tee!Take(teeMem.block, n)],
             teeMem.next = 1, Tee!Exit(1), teeMem' = [teeMem EXCEPT !.bad = @ \cup {1}]
      PROVE  TeeInv'
  <2>1. /\ teeOut' \in Seq(Seq(Nat)) /\ Len(teeOut') = Len(teeOut)
        /\ \A k \in 1..Len(teeOut) : k # 1 => teeOut'[k] = teeOut[k]
    BY <1>6, <1>7
  <2>2. /\ teeMem' \in [block : Seq(Nat), next : 1..Len(teeOut), bad : SUBSET Int]
        /\ teeMem'.block = teeMem.block /\ teeMem'.next = teeMem.next /\ teeMem'.bad = teeMem.bad \cup {1}
    <3>1. teeMem.bad \cup {1} \in SUBSET Int
      BY <1>2
    <3> QED
      BY <1>2, <1>7, <3>1
  <2>3. teePc' = "exited" /\ teeStatus' = 1
    BY <1>7 DEF Tee!Exit
  <2>4. TeeTyping'
    BY <1>2, <2>1, <2>2, <2>3 DEF TeeTyping
  <2>5. TeePlaces'
    BY <2>3 DEF TeePlaces
  <2>6. TeeText(r, s)'
    BY <1>2, <1>4, <2>2 DEF TeeText
  <2>7. TeeOutputs(r, s)'
    BY <1>2, <1>4, <2>1, <2>2 DEF TeeOutputs, Tee!Base
  <2> QED
    BY <1>2, <2>4, <2>5, <2>6, <2>7 DEF TeeInv, TeeProgress
<1>8. ASSUME NEW n \in 0..Len(teeMem.block) - 1, teeOut' = [teeOut EXCEPT ![teeMem.next] = @ \o Tee!Take(teeMem.block, n)], Tee!GoOn
      PROVE  TeeInv'
  <2>1. PICK m : m = [teeMem EXCEPT !.bad = @ \cup {teeMem.next}]
    OBVIOUS
  <2>2. /\ m \in [block : Seq(Nat), next : 1..Len(teeOut), bad : SUBSET Int]
        /\ m.block = teeMem.block /\ m.next = teeMem.next /\ teeMem.bad \subseteq m.bad /\ teeMem.next \in m.bad
    <3>1. teeMem.next \in Int /\ teeMem.bad \in SUBSET Int
      BY <1>2
    <3>2. teeMem.bad \cup {teeMem.next} \in SUBSET Int
      BY <3>1
    <3> QED
      BY <1>2, <2>1, <3>2
  <2>3. teeMem' = Tee!OneAfter(m) /\ teePc' = Tee!PcAfter
    BY <1>8, <2>1 DEF Tee!GoOn
  <2>4. /\ teeOut' \in Seq(Seq(Nat)) /\ Len(teeOut') = Len(teeOut)
        /\ \A k \in 1..Len(teeOut) : k # teeMem.next => teeOut'[k] = teeOut[k]
    BY <1>6, <1>8
  <2> QED
    BY <1>2, <1>4, <2>2, <2>3, <2>4, TeeNext
<1> QED
  BY <1>5, <1>7, <1>8 DEF Tee!Write

\* A signal: standard output or a file is left with a part of the block, and
\* counts as failed, unless there is no block.
LEMMA TeeInterruptStep ==
  ASSUME Tee!Assumptions, TeeInv, Tee!Interrupt
  PROVE  TeeInv'
<1>1. /\ teeCall.in \in Seq(Nat) /\ Len(teeCall.in) \in Nat /\ Len(teeOut) \in Nat /\ 1 \in 1..Len(teeOut)
  BY TeeOperands DEF TeeInv
<1>2. /\ teePc \in {"read", "write"} /\ teeCall' = teeCall /\ teeIn' = teeIn /\ teePc' = "exited" /\ teeStatus' = 130
      /\ teeMem \in [block : Seq(Nat), next : 1..Len(teeOut), bad : SUBSET Int]
      /\ teeOut \in Seq(Seq(Nat)) /\ Len(teeOut) = Len(teeCall.old) + 1 /\ teeCall \in TeeCalls
      /\ teeMem' = [teeMem EXCEPT !.bad = IF teePc = "write" THEN @ \cup {teeMem.next} ELSE @]
      /\ teePc = "read" => teeMem.block = <<>>
  BY DEF Tee!Interrupt, Tee!Exit, TeeInv, TeeTyping, TeePlaces
<1>3. PICK n \in 0..Len(teeMem.block) : teeOut' = [teeOut EXCEPT ![teeMem.next] = @ \o Tee!Take(teeMem.block, n)]
  BY DEF Tee!Interrupt
<1>4. n \in Nat /\ teeMem.block \in Seq(Nat) /\ teeMem.next \in 1..Len(teeOut)
  BY <1>2
<1>5. PICK x \in Seq(Nat) : x = Tee!Take(teeMem.block, n) /\ (teeMem.block = <<>> => x = <<>>)
  BY <1>4, TakeIs
<1>6. /\ teeOut' \in Seq(Seq(Nat)) /\ Len(teeOut') = Len(teeOut)
      /\ \A k \in 1..Len(teeOut) : k # teeMem.next => teeOut'[k] = teeOut[k]
      /\ teeOut'[teeMem.next] = teeOut[teeMem.next] \o x
  <2>1. teeOut' = [teeOut EXCEPT ![teeMem.next] = @ \o x]
    BY <1>3, <1>5
  <2>2. PICK o \in Seq(Seq(Nat)) : o = teeOut
    BY <1>2
  <2>3. PICK m \in 1..Len(o) : m = teeMem.next
    BY <1>4, <2>2
  <2>4. PICK q : q = teeOut'
    OBVIOUS
  <2>5. q = [o EXCEPT ![m] = @ \o x]
    BY <2>1, <2>2, <2>3, <2>4
  <2>6. q \in Seq(Seq(Nat)) /\ Len(q) = Len(o) /\ (\A k \in 1..Len(o) : k # m => q[k] = o[k]) /\ q[m] = o[m] \o x
    BY <2>5, OutputGrows
  <2> QED
    BY <2>2, <2>3, <2>4, <2>6
<1>7. /\ teeMem' \in [block : Seq(Nat), next : 1..Len(teeOut), bad : SUBSET Int]
      /\ teeMem'.block = teeMem.block /\ teeMem'.next = teeMem.next /\ teeMem.bad \subseteq teeMem'.bad
      /\ teePc = "write" => teeMem.next \in teeMem'.bad
  <2>1. teeMem.next \in Int /\ teeMem.bad \in SUBSET Int
    BY <1>2
  <2>2. teeMem.bad \cup {teeMem.next} \in SUBSET Int
    BY <2>1
  <2> QED
    BY <1>2, <2>2
<1>8. \A k \in 1..Len(teeOut) : k \notin teeMem'.bad => k \notin teeMem.bad /\ teeOut'[k] = teeOut[k]
  <2>1. teePc = "read" => teeOut'[teeMem.next] = teeOut[teeMem.next]
    <3>1. teeOut[teeMem.next] \in Seq(Nat)
      BY <1>2, <1>4
    <3>2. teeOut[teeMem.next] \o <<>> = teeOut[teeMem.next]
      BY <3>1, ConcatEmptySeq
    <3> QED
      BY <1>2, <1>5, <1>6, <3>2
  <2> QED
    BY <1>2, <1>6, <1>7, <2>1
<1>9. PICK r \in 0..Len(teeCall.in) : \E s \in 0..r : TeeText(r, s) /\ TeeOutputs(r, s)
  BY <1>2 DEF TeeInv, TeeProgress
<1>10. PICK s \in 0..r : TeeText(r, s) /\ TeeOutputs(r, s)
  BY <1>9
<1>11. TeeTyping'
  BY <1>2, <1>6, <1>7 DEF TeeTyping
<1>12. TeePlaces'
  BY <1>2 DEF TeePlaces
<1>13. TeeText(r, s)'
  BY <1>2, <1>7, <1>10 DEF TeeText
<1>14. TeeOutputs(r, s)'
  BY <1>2, <1>6, <1>7, <1>8, <1>10 DEF TeeOutputs, Tee!Base
<1> QED
  BY <1>2, <1>11, <1>12, <1>13, <1>14 DEF TeeInv, TeeProgress

\* The inductive invariant of tee: what was read is the beginning of the input,
\* and each output that has not failed has all of it, or all but the block.
THEOREM TeeInvariant ==
  ASSUME Tee!Assumptions
  PROVE  Tee!Spec => []TeeInv
<1>1. Tee!Init => TeeInv
  BY TeeStarts
<1>2. TeeInv /\ [Tee!Next]_(Tee!vars) => TeeInv'
  <2> SUFFICES ASSUME TeeInv, [Tee!Next]_(Tee!vars) PROVE TeeInv'
    OBVIOUS
  <2>1. CASE Tee!Open
    BY <2>1, TeeOpenStep
  <2>2. CASE Tee!Read
    BY <2>2, TeeReadStep
  <2>3. CASE Tee!Write
    BY <2>3, TeeWriteStep
  <2>4. CASE Tee!Interrupt
    BY <2>4, TeeInterruptStep
  <2>5. CASE UNCHANGED Tee!vars
    <3>1. TeeTyping' /\ TeePlaces'
      BY <2>5 DEF Tee!vars, TeeInv, TeeTyping, TeePlaces
    <3>2. teeCall' = teeCall /\ teePc' = teePc
      BY <2>5 DEF Tee!vars
    <3>3. \A r, s : TeeText(r, s)' = TeeText(r, s)
      BY <2>5 DEF Tee!vars, TeeText
    <3>4. \A r, s : TeeOutputs(r, s)' = TeeOutputs(r, s)
      BY <2>5 DEF Tee!vars, TeeOutputs, Tee!Base
    <3>5. PICK r \in 0..Len(teeCall.in) : \E s \in 0..r : TeeText(r, s) /\ (teePc # "main" => TeeOutputs(r, s))
      BY DEF TeeInv, TeeProgress
    <3>6. \E s \in 0..r : TeeText(r, s)' /\ (teePc' # "main" => TeeOutputs(r, s)')
      BY <3>2, <3>3, <3>4, <3>5
    <3> QED
      BY <3>1, <3>2, <3>5, <3>6 DEF TeeInv, TeeProgress
  <2> QED
    BY <2>1, <2>2, <2>3, <2>4, <2>5 DEF Tee!Next
<1> QED
  BY <1>1, <1>2, PTL DEF Tee!Spec

\* tee: whatever fails, and whenever it is interrupted, every output that has not
\* failed itself holds, after what it held, all that was read, except for the
\* block that is being written; status 0 means that this is all of the input.
THEOREM TeeCopiesSame ==
  ASSUME Tee!Assumptions
  PROVE  Tee!Spec => []Tee!CopiesSame
<1>1. TeeInv => Tee!CopiesSame
  <2> SUFFICES ASSUME TeeInv, teePc # "main" PROVE Tee!CopiesSame
    BY DEF Tee!CopiesSame
  <2>1. /\ teeCall.in \in Seq(Nat) /\ Len(teeCall.in) \in Nat
    BY TeeOperands DEF TeeInv
  <2>2. PICK r \in 0..Len(teeCall.in) : \E s \in 0..r : TeeText(r, s) /\ TeeOutputs(r, s)
    BY DEF TeeInv, TeeProgress
  <2>3. PICK s \in 0..r : TeeText(r, s) /\ TeeOutputs(r, s)
    BY <2>2
  <2>4. Tee!ReadSoFar = r /\ Tee!ReadSoFar - 0 = r /\ Tee!ReadSoFar - Len(teeMem.block) = s
    <3>1. Len(teeIn) = Len(teeCall.in) - r /\ Len(teeMem.block) = r - s
      BY <2>3 DEF TeeText
    <3>2. r \in Nat /\ s \in Nat
      BY <2>1
    <3> QED
      BY <2>1, <3>1, <3>2 DEF Tee!ReadSoFar
  <2>5. \A k \in 1..Len(teeOut) \ teeMem.bad :
          LET missing == IF k < teeMem.next THEN 0 ELSE Len(teeMem.block)
          IN teeOut[k] = Tee!Base(k) \o SubSeq(teeCall.in, 1, Tee!ReadSoFar - missing)
    BY <2>3, <2>4 DEF TeeOutputs
  <2>6. teePc = "exited" /\ teeStatus = 0 => teeIn = <<>> /\ teeMem.block = <<>>
    BY DEF TeeInv, TeePlaces
  <2> QED
    BY <2>5, <2>6 DEF Tee!CopiesSame
<1> QED
  BY <1>1, TeeInvariant, PTL

-----------------------------------------------------------------------------
(* The tree of names: what a path leads to, and what of it a step keeps     *)

Less == {p \in Nat \X Nat : p[1] < p[2]}

\* A nonempty set of natural numbers has a least element.
LEMMA LeastExists ==
  ASSUME NEW T \in SUBSET Nat, T # {}
  PROVE  \E m \in T : \A k \in T : m <= k
<1>1. IsWellFoundedOn(OpToRel(<, Nat), Nat)
  BY NatLessThanWellFounded, Zenon
<1>2. IsWellFoundedOn(Less, Nat)
  BY <1>1, Zenon DEF OpToRel, Less
<1>3. PICK m \in T : \A k \in T : ~ (<<k, m>> \in Less)
  BY <1>2, WFMin, Zenon
<1>4. \A k \in T : ~(k < m)
  BY <1>3 DEF Less
<1> QED
  BY <1>4

Tree == INSTANCE FileTree

\* Names are strings.  One of them is that of the files others make for rm; the
\* provers do not know of a string that it is in STRING.
FileNames == STRING \cup {"new"}
Pathnames == Seq(FileNames)
IsLink(f, p) == p \in DOMAIN f /\ f[p].kind = "link"
DirAt(f, p) == p \in DOMAIN f /\ f[p].kind = "dir"

\* A tree: above what exists there are directories, and links lead to paths.
Whole(f) ==
  /\ DirAt(f, <<>>)
  /\ \A p \in DOMAIN f : p \in Pathnames /\ f[p].kind # "none"
  /\ \A p \in DOMAIN f : \A k \in 0..(Len(p) - 1) : DirAt(f, SubSeq(p, 1, k))
  /\ \A p \in DOMAIN f : IsLink(f, p) => f[p].of \in Pathnames

\* What the assumptions call a path is one.
LEMMA PathsAreStrings ==
  /\ \A p \in Seq(STRING) : p \in Pathnames
  /\ \A q \in Seq(Seq(STRING)) : q \in Seq(Pathnames)
<1>1. STRING \subseteq FileNames
  BY DEF FileNames
<1>2. Seq(STRING) \subseteq Pathnames
  BY <1>1, SeqMonotonic DEF Pathnames
<1>3. ASSUME NEW q \in Seq(Seq(STRING)) PROVE q \in Seq(Pathnames)
  BY <1>2, SeqMonotonic
<1> QED
  BY <1>2, <1>3

\* Every link and every directory of g is one of f, too.
Narrower(f, g) ==
  /\ \A p : IsLink(g, p) => IsLink(f, p) /\ g[p].of = f[p].of
  /\ \A p : DirAt(g, p) => DirAt(f, p)

\* What lookups tell.
LEMMA Looked ==
  ASSUME NEW f, NEW p
  PROVE  /\ Tree!NamedAt(f, p).kind = "link" <=> IsLink(f, p)
         /\ Tree!NamedAt(f, p).kind = "dir" <=> DirAt(f, p)
         /\ Whole(f) => (Tree!NamedAt(f, p).kind = "none" <=> p \notin DOMAIN f)
BY DEF Tree!NamedAt, Tree!Missing, IsLink, DirAt, Whole

\* A path and its beginnings.
LEMMA PathFacts ==
  ASSUME NEW p \in Pathnames
  PROVE  /\ Len(p) \in Nat
         /\ \A k \in 0..Len(p) : SubSeq(p, 1, k) \in Pathnames /\ Len(SubSeq(p, 1, k)) = k
         /\ \A k \in 0..Len(p) : \A j \in 0..k : SubSeq(SubSeq(p, 1, k), 1, j) = SubSeq(p, 1, j)
         /\ SubSeq(p, 1, Len(p)) = p
         /\ \A k \in 0..Len(p) : SubSeq(p, k + 1, Len(p)) \in Pathnames
<1>1. Len(p) \in Nat /\ p \in Seq(FileNames)
  BY DEF Pathnames
<1>2. ASSUME NEW k \in 0..Len(p)
      PROVE  /\ SubSeq(p, 1, k) \in Seq(FileNames) /\ Len(SubSeq(p, 1, k)) = k
             /\ \A x \in 1..k : SubSeq(p, 1, k)[x] = p[x]
  <2>1. k \in Int /\ 1 \in Int /\ \A x \in 1..k : p[x] \in FileNames
    BY <1>1, ElementOfSeq
  <2>2. \A x \in 1..k : 1 + x - 1 = x
    OBVIOUS
  <2>3. (IF 1 <= k THEN k - 1 + 1 ELSE 0) = k /\ k - 1 + 1 = k
    BY <1>1
  <2>4. /\ SubSeq(p, 1, k) \in Seq(FileNames)
        /\ Len(SubSeq(p, 1, k)) = IF 1 <= k THEN k - 1 + 1 ELSE 0
        /\ \A x \in 1..(k - 1 + 1) : SubSeq(p, 1, k)[x] = p[1 + x - 1]
    BY <2>1, SubSeqProperties
  <2> QED
    BY <2>2, <2>3, <2>4
<1>3. ASSUME NEW k \in 0..Len(p), NEW j \in 0..k
      PROVE  SubSeq(SubSeq(p, 1, k), 1, j) = SubSeq(p, 1, j)
  <2>1. PICK s : s = SubSeq(p, 1, k)
    OBVIOUS
  <2>2. s \in Seq(FileNames) /\ Len(s) = k /\ \A x \in 1..k : s[x] = p[x]
    BY <1>2, <2>1
  <2>3. j \in Int /\ 1 \in Int /\ (\A x \in 1..j : s[x] \in FileNames) /\ j \in 0..Len(p) /\ j \in Nat /\ k \in Nat
    BY <1>1, <2>2, ElementOfSeq
  <2>4. /\ SubSeq(s, 1, j) \in Seq(FileNames)
        /\ Len(SubSeq(s, 1, j)) = IF 1 <= j THEN j - 1 + 1 ELSE 0
        /\ \A x \in 1..(j - 1 + 1) : SubSeq(s, 1, j)[x] = s[1 + x - 1]
    BY <2>2, <2>3, SubSeqProperties
  <2>5. (IF 1 <= j THEN j - 1 + 1 ELSE 0) = j /\ j - 1 + 1 = j /\ (\A x \in 1..j : 1 + x - 1 = x) /\ (\A x \in 1..j : x \in 1..k)
    BY <2>3
  <2>6. PICK u : u = SubSeq(s, 1, j)
    OBVIOUS
  <2>7. u \in Seq(FileNames) /\ Len(u) = j /\ \A x \in 1..j : u[x] = s[x]
    BY <2>4, <2>5, <2>6
  <2>8. PICK v : v = SubSeq(p, 1, j)
    OBVIOUS
  <2>9. v \in Seq(FileNames) /\ Len(v) = j /\ \A x \in 1..j : v[x] = p[x]
    BY <1>2, <2>3, <2>8
  <2>10. \A x \in 1..j : u[x] = v[x]
    BY <2>2, <2>5, <2>7, <2>9
  <2>11. u = v
    BY <2>7, <2>9, <2>10, SeqEqual
  <2> QED
    BY <2>1, <2>6, <2>8, <2>11
<1>4. SubSeq(p, 1, Len(p)) = p
  BY <1>1, SubSeqFull
<1>5. ASSUME NEW k \in 0..Len(p) PROVE SubSeq(p, k + 1, Len(p)) \in Seq(FileNames)
  <2>1. k + 1 \in Int /\ Len(p) \in Int /\ \A x \in (k + 1)..Len(p) : x \in 1..Len(p)
    BY <1>1
  <2>2. \A x \in (k + 1)..Len(p) : p[x] \in FileNames
    BY <1>1, <2>1, ElementOfSeq
  <2> QED
    BY <1>1, <2>1, <2>2, SubSeqProperties
<1> QED
  BY <1>1, <1>2, <1>3, <1>4, <1>5 DEF Pathnames

\* One link is followed: the first one.
LEMMA OneLinkIs ==
  ASSUME NEW f, Whole(f), NEW p \in Pathnames
  PROVE  \/ /\ \A k \in 1..Len(p) : ~IsLink(f, SubSeq(p, 1, k))
            /\ Tree!OneLink(f, p) = p
         \/ \E k \in 1..Len(p) :
              /\ IsLink(f, SubSeq(p, 1, k)) /\ \A j \in 1..Len(p) : j < k => ~IsLink(f, SubSeq(p, 1, j))
              /\ Tree!OneLink(f, p) = f[SubSeq(p, 1, k)].of \o SubSeq(p, k + 1, Len(p))
              /\ Tree!OneLink(f, p) \in Pathnames
<1>1. PICK L : L = Tree!LinksIn(f, p)
  OBVIOUS
<1>2. \A k : k \in L <=> k \in 1..Len(p) /\ IsLink(f, SubSeq(p, 1, k))
  BY <1>1, Looked DEF Tree!LinksIn
<1>3. CASE L = {}
  BY <1>1, <1>2, <1>3 DEF Tree!OneLink
<1>4. CASE L # {}
  <2>1. L \in SUBSET Nat
    BY <1>2, PathFacts
  <2>2. \E m \in L : \A k \in L : m <= k
    BY <1>4, <2>1, LeastExists
  <2>3. Tree!Min(L) \in L /\ \A k \in L : Tree!Min(L) <= k
    BY <2>2 DEF Tree!Min
  <2>4. PICK k \in 1..Len(p) : k = Tree!Min(L)
    BY <1>2, <2>3
  <2>5. IsLink(f, SubSeq(p, 1, k))
    BY <1>2, <2>3, <2>4
  <2>6. \A j \in 1..Len(p) : j < k => ~IsLink(f, SubSeq(p, 1, j))
    <3>1. \A j \in 1..Len(p) : j < k => ~(k <= j)
      BY PathFacts
    <3> QED
      BY <1>2, <2>3, <2>4, <3>1
  <2>7. Tree!OneLink(f, p) = f[SubSeq(p, 1, k)].of \o SubSeq(p, k + 1, Len(p))
    BY <1>1, <1>4, <2>4 DEF Tree!OneLink
  <2>8. f[SubSeq(p, 1, k)].of \in Pathnames /\ SubSeq(p, k + 1, Len(p)) \in Pathnames
    <3>1. k \in 0..Len(p)
      BY PathFacts
    <3> QED
      BY <2>5, <3>1, PathFacts DEF Whole, IsLink
  <2>9. f[SubSeq(p, 1, k)].of \o SubSeq(p, k + 1, Len(p)) \in Pathnames
    BY <2>8, ConcatProperties DEF Pathnames
  <2> QED
    BY <2>5, <2>6, <2>7, <2>9
<1> QED
  BY <1>3, <1>4

\* Where links lead is a path.
LEMMA RealIsPath ==
  ASSUME NEW f, Whole(f), NEW p \in Pathnames
  PROVE  Tree!OneLink(f, p) \in Pathnames /\ Tree!Real(f, p) \in Pathnames
<1>1. \A q \in Pathnames : Tree!OneLink(f, q) \in Pathnames
  BY OneLinkIs
<1> QED
  BY <1>1 DEF Tree!Real

\* Without links a path leads where it says.
LEMMA NoLinks ==
  ASSUME NEW f, Whole(f), NEW p \in Pathnames, \A k \in 1..Len(p) : ~IsLink(f, SubSeq(p, 1, k))
  PROVE  Tree!OneLink(f, p) = p /\ Tree!Real(f, p) = p
<1>1. Tree!OneLink(f, p) = p
  BY OneLinkIs
<1> QED
  BY <1>1 DEF Tree!Real

\* A directory's path has directories all the way.
LEMMA DirsAbove ==
  ASSUME NEW f, Whole(f), NEW p, DirAt(f, p), NEW k \in 0..Len(p)
  PROVE  DirAt(f, SubSeq(p, 1, k)) /\ p \in Pathnames
<1>1. p \in Pathnames /\ p \in DOMAIN f
  BY DEF Whole, DirAt
<1>2. CASE k = Len(p)
  BY <1>1, <1>2, PathFacts
<1>3. CASE k # Len(p)
  <2>1. k \in 0..(Len(p) - 1)
    BY <1>1, <1>3, PathFacts
  <2> QED
    BY <1>1, <2>1 DEF Whole
<1> QED
  BY <1>1, <1>2, <1>3

\* A narrower tree follows the same link, or none and does not get anywhere.
LEMMA OneStays ==
  ASSUME NEW f, NEW g, Whole(f), Whole(g), Narrower(f, g), NEW p \in Pathnames
  PROVE  \/ Tree!OneLink(g, p) = Tree!OneLink(f, p)
         \/ Tree!OneLink(g, p) = p /\ Tree!Real(g, p) = p /\ ~DirAt(g, p)
<1>1. CASE \A k \in 1..Len(p) : ~IsLink(f, SubSeq(p, 1, k))
  BY <1>1, NoLinks DEF Narrower
<1>2. CASE \E k \in 1..Len(p) : IsLink(f, SubSeq(p, 1, k))
  <2>1. PICK k \in 1..Len(p) :
              /\ IsLink(f, SubSeq(p, 1, k)) /\ \A j \in 1..Len(p) : j < k => ~IsLink(f, SubSeq(p, 1, j))
              /\ Tree!OneLink(f, p) = f[SubSeq(p, 1, k)].of \o SubSeq(p, k + 1, Len(p))
    BY <1>2, OneLinkIs
  <2>2. Len(p) \in Nat /\ k \in Nat /\ k \in 0..Len(p)
    BY PathFacts
  <2>3. CASE IsLink(g, SubSeq(p, 1, k))
    <3>1. \A j \in 1..Len(p) : j < k => ~IsLink(g, SubSeq(p, 1, j))
      BY <2>1 DEF Narrower
    <3>2. PICK m \in 1..Len(p) :
              /\ IsLink(g, SubSeq(p, 1, m)) /\ \A j \in 1..Len(p) : j < m => ~IsLink(g, SubSeq(p, 1, j))
              /\ Tree!OneLink(g, p) = g[SubSeq(p, 1, m)].of \o SubSeq(p, m + 1, Len(p))
      BY <2>3, OneLinkIs
    <3>3. ~(m < k) /\ ~(k < m)
      BY <2>3, <3>1, <3>2
    <3>4. m = k
      BY <2>2, <3>3
    <3>5. g[SubSeq(p, 1, k)].of = f[SubSeq(p, 1, k)].of
      BY <2>3 DEF Narrower
    <3> QED
      BY <2>1, <3>2, <3>4, <3>5
  <2>4. CASE ~IsLink(g, SubSeq(p, 1, k))
    <3>1. ~DirAt(g, SubSeq(p, 1, k))
      BY <2>1 DEF Narrower, IsLink, DirAt
    <3>2. ASSUME NEW j \in 1..Len(p) PROVE ~IsLink(g, SubSeq(p, 1, j))
      <4>1. CASE j < k
        BY <2>1, <4>1 DEF Narrower
      <4>2. CASE j = k
        BY <2>4, <4>2
      <4>3. CASE k < j
        <5>1. PICK q : q = SubSeq(p, 1, j)
          OBVIOUS
        <5>2. j \in 0..Len(p) /\ k \in 0..j /\ j \in Nat
          BY <2>2, <4>3
        <5>3. Len(q) = j /\ SubSeq(q, 1, k) = SubSeq(p, 1, k)
          BY <5>1, <5>2, PathFacts
        <5>4. k \in 0..(Len(q) - 1)
          BY <2>2, <4>3, <5>2, <5>3
        <5>5. q \in DOMAIN g => DirAt(g, SubSeq(q, 1, k))
          BY <5>4 DEF Whole
        <5> QED
          BY <3>1, <5>1, <5>3, <5>5 DEF IsLink
      <4> QED
        BY <2>2, <4>1, <4>2, <4>3
    <3>3. ~DirAt(g, p)
      BY <2>2, <3>1, DirsAbove
    <3> QED
      BY <3>2, <3>3, NoLinks
  <2> QED
    BY <2>3, <2>4
<1> QED
  BY <1>1, <1>2

\* A narrower tree leads to the same place, or to no directory.
LEMMA RealStays ==
  ASSUME NEW f, NEW g, Whole(f), Whole(g), Narrower(f, g), NEW p \in Pathnames
  PROVE  Tree!Real(g, p) = Tree!Real(f, p) \/ ~DirAt(g, Tree!Real(g, p))
<1>1. PICK q : q = Tree!OneLink(f, p)
  OBVIOUS
<1>2. PICK r : r = Tree!OneLink(f, q)
  OBVIOUS
<1>3. q \in Pathnames /\ r \in Pathnames
  BY <1>1, <1>2, RealIsPath
<1>4. Tree!Real(f, p) = Tree!OneLink(f, r)
  BY <1>1, <1>2 DEF Tree!Real
<1>5. CASE Tree!OneLink(g, p) # q
  BY <1>1, <1>5, OneStays
<1>6. CASE Tree!OneLink(g, p) = q /\ Tree!OneLink(g, q) # r
  <2>1. Tree!OneLink(g, q) = q /\ ~DirAt(g, q)
    BY <1>2, <1>3, <1>6, OneStays
  <2> QED
    BY <1>6, <2>1 DEF Tree!Real
<1>7. CASE Tree!OneLink(g, p) = q /\ Tree!OneLink(g, q) = r
  <2>1. Tree!Real(g, p) = Tree!OneLink(g, r)
    BY <1>7 DEF Tree!Real
  <2>2. Tree!OneLink(g, r) = Tree!OneLink(f, r) \/ (Tree!OneLink(g, r) = r /\ ~DirAt(g, r))
    BY <1>3, OneStays
  <2> QED
    BY <1>4, <2>1, <2>2
<1> QED
  BY <1>5, <1>6, <1>7

\* The directory that holds the name p is there.
Reaches(f, p) == p = <<>> \/ DirAt(f, Tree!Real(f, Tree!Front(p)))

\* A path is empty, or a path with a name behind it.
LEMMA PathSplits ==
  ASSUME NEW p \in Pathnames, p # <<>>
  PROVE  /\ Tree!Front(p) \in Pathnames /\ Tree!Last(p) \in FileNames
         /\ p = Append(Tree!Front(p), Tree!Last(p)) /\ Len(Tree!Front(p)) = Len(p) - 1
<1>1. p \in Seq(FileNames) /\ Len(p) \in Nat
  BY DEF Pathnames
<1>2. Len(p) # 0
  BY <1>1, EmptySeq
<1>3. Len(p) - 1 \in 0..Len(p) /\ Len(p) \in 1..Len(p)
  BY <1>1, <1>2
<1>4. PICK q : q = Tree!Front(p)
  OBVIOUS
<1>5. PICK l : l = Tree!Last(p)
  OBVIOUS
<1>6. q \in Pathnames /\ Len(q) = Len(p) - 1
  BY <1>3, <1>4, PathFacts DEF Tree!Front
<1>7. l = p[Len(p)] /\ l \in FileNames
  BY <1>1, <1>3, <1>5, ElementOfSeq DEF Tree!Last
<1>8. PICK s : s = Append(q, l)
  OBVIOUS
<1>9. /\ s \in Seq(FileNames) /\ Len(s) = Len(q) + 1
      /\ \A x \in 1..Len(q) : s[x] = q[x]
      /\ s[Len(q) + 1] = l
  BY <1>6, <1>7, <1>8, AppendProperties DEF Pathnames
<1>10. \A x \in 1..Len(q) : q[x] = p[x]
  <2>1. 1 \in Int /\ Len(p) - 1 \in Int /\ \A x \in 1..(Len(p) - 1) : p[x] \in FileNames
    BY <1>1, ElementOfSeq
  <2>2. \A x \in 1..(Len(p) - 1 - 1 + 1) : SubSeq(p, 1, Len(p) - 1)[x] = p[1 + x - 1]
    BY <2>1, SubSeqProperties
  <2>3. Len(p) - 1 - 1 + 1 = Len(p) - 1 /\ \A x \in 1..Len(q) : 1 + x - 1 = x
    BY <1>1
  <2> QED
    BY <1>4, <1>6, <2>2, <2>3 DEF Tree!Front
<1>11. Len(s) = Len(p)
  BY <1>1, <1>6, <1>9
<1>12. \A x \in 1..Len(p) : s[x] = p[x]
  <2>1. \A x \in 1..Len(p) : x \in 1..Len(q) \/ x = Len(q) + 1
    BY <1>1, <1>6
  <2>2. Len(q) + 1 = Len(p)
    BY <1>1, <1>6
  <2> QED
    BY <1>7, <1>9, <1>10, <2>1, <2>2
<1>13. s = p
  BY <1>1, <1>9, <1>11, <1>12, SeqEqual
<1> QED
  BY <1>4, <1>5, <1>6, <1>7, <1>8, <1>13

\* The other way round.
LEMMA PathGrows ==
  ASSUME NEW q \in Pathnames, NEW l \in FileNames
  PROVE  /\ Append(q, l) \in Pathnames /\ Append(q, l) # <<>>
         /\ Tree!Front(Append(q, l)) = q /\ Tree!Last(Append(q, l)) = l
         /\ Len(Append(q, l)) = Len(q) + 1
         /\ \A k \in 0..Len(q) : SubSeq(Append(q, l), 1, k) = SubSeq(q, 1, k)
         /\ SubSeq(Append(q, l), 1, Len(q) + 1) = Append(q, l)
<1>1. PICK s : s = Append(q, l)
  OBVIOUS
<1>2. /\ s \in Seq(FileNames) /\ Len(s) = Len(q) + 1
      /\ \A x \in 1..Len(q) : s[x] = q[x]
      /\ s[Len(q) + 1] = l /\ q \in Seq(FileNames) /\ Len(q) \in Nat
  BY <1>1, AppendProperties DEF Pathnames
<1>3. s # <<>>
  <2>1. Len(s) # 0
    BY <1>2
  <2> QED
    BY <2>1
<1>4. ASSUME NEW k \in 0..Len(q) PROVE SubSeq(s, 1, k) = SubSeq(q, 1, k)
  <2>1. k \in Int /\ 1 \in Int /\ k \in 0..Len(s) /\ k - 1 + 1 = k /\ (\A x \in 1..k : 1 + x - 1 = x) /\ \A x \in 1..k : x \in 1..Len(q) /\ x \in 1..Len(s)
    BY <1>2
  <2>2. (\A x \in 1..k : q[x] \in FileNames) /\ \A x \in 1..k : s[x] \in FileNames
    BY <1>2, <2>1, ElementOfSeq
  <2>3. PICK u : u = SubSeq(s, 1, k)
    OBVIOUS
  <2>4. PICK v : v = SubSeq(q, 1, k)
    OBVIOUS
  <2>5. \A x \in 1..(k - 1 + 1) : u[x] = s[1 + x - 1]
    BY <1>2, <2>1, <2>2, <2>3, SubSeqProperties
  <2>6. \A x \in 1..(k - 1 + 1) : v[x] = q[1 + x - 1]
    BY <1>2, <2>1, <2>2, <2>4, SubSeqProperties
  <2>7. \A x \in 1..k : u[x] = v[x]
    BY <1>2, <2>1, <2>5, <2>6
  <2>8. u \in Seq(FileNames) /\ v \in Seq(FileNames) /\ Len(u) = k /\ Len(v) = k
    BY <1>2, <2>1, <2>3, <2>4, PathFacts DEF Pathnames
  <2>9. u = v
    BY <2>7, <2>8, SeqEqual
  <2> QED
    BY <2>3, <2>4, <2>9
<1>5. Tree!Front(s) = q
  <2>1. Len(s) - 1 = Len(q) /\ Len(q) \in 0..Len(q)
    BY <1>2
  <2>2. Tree!Front(s) = SubSeq(q, 1, Len(q))
    BY <1>4, <2>1 DEF Tree!Front
  <2> QED
    BY <2>2, PathFacts
<1>6. Tree!Last(s) = l
  BY <1>2 DEF Tree!Last
<1>7. SubSeq(s, 1, Len(q) + 1) = s
  BY <1>2, PathFacts DEF Pathnames
<1> QED
  BY <1>1, <1>2, <1>3, <1>4, <1>5, <1>6, <1>7 DEF Pathnames

\* The real name of what has a name.
LEMMA RealNameIs ==
  ASSUME NEW f, Whole(f), NEW p \in Pathnames
  PROVE  /\ Tree!RealName(f, p) \in Pathnames
         /\ p = <<>> => Tree!RealName(f, p) = <<>>
         /\ p # <<>> =>
              /\ Tree!RealName(f, p) = Append(Tree!Real(f, Tree!Front(p)), Tree!Last(p))
              /\ Tree!RealName(f, p) # <<>> /\ Tree!Front(Tree!RealName(f, p)) = Tree!Real(f, Tree!Front(p))
<1>1. ASSUME p # <<>>
      PROVE  /\ Tree!RealName(f, p) = Append(Tree!Real(f, Tree!Front(p)), Tree!Last(p))
             /\ Tree!RealName(f, p) \in Pathnames
             /\ Tree!RealName(f, p) # <<>> /\ Tree!Front(Tree!RealName(f, p)) = Tree!Real(f, Tree!Front(p))
  <2>1. Tree!Front(p) \in Pathnames /\ Tree!Last(p) \in FileNames
    BY <1>1, PathSplits
  <2>2. Tree!Real(f, Tree!Front(p)) \in Pathnames
    BY <2>1, RealIsPath
  <2>3. Tree!RealName(f, p) = Append(Tree!Real(f, Tree!Front(p)), Tree!Last(p))
    BY <1>1 DEF Tree!RealName
  <2> QED
    BY <2>1, <2>2, <2>3, PathGrows
<1>2. ASSUME p = <<>> PROVE Tree!RealName(f, p) = <<>>
  BY <1>2 DEF Tree!RealName
<1> QED
  BY <1>1, <1>2

\* What is not at the root is in a directory.
LEMMA InDirectory ==
  ASSUME NEW f, Whole(f), NEW q, q \in DOMAIN f, q # <<>>
  PROVE  q \in Pathnames /\ DirAt(f, Tree!Front(q))
<1>1. q \in Pathnames
  BY DEF Whole
<1>2. Len(q) - 1 \in 0..(Len(q) - 1)
  <2>1. Len(Tree!Front(q)) = Len(q) - 1 /\ Tree!Front(q) \in Pathnames
    BY <1>1, PathSplits
  <2>2. Len(Tree!Front(q)) \in Nat
    BY <2>1, PathFacts
  <2> QED
    BY <2>1, <2>2
<1> QED
  BY <1>1, <1>2 DEF Whole, Tree!Front

\* What is there is reached.
LEMMA ThereIsReached ==
  ASSUME NEW f, Whole(f), NEW p \in Pathnames, Tree!RealName(f, p) \in DOMAIN f
  PROVE  Reaches(f, p)
BY RealNameIs, InDirectory DEF Reaches

\* In a narrower tree a name that is reached is what it was.
LEMMA NamesStay ==
  ASSUME NEW f, NEW g, Whole(f), Whole(g), Narrower(f, g), NEW p \in Pathnames, Reaches(g, p)
  PROVE  Reaches(f, p) /\ Tree!RealName(g, p) = Tree!RealName(f, p)
<1>1. CASE p = <<>>
  BY <1>1, RealNameIs DEF Reaches
<1>2. CASE p # <<>>
  <2>1. DirAt(g, Tree!Real(g, Tree!Front(p))) /\ Tree!Front(p) \in Pathnames
    BY <1>2, PathSplits DEF Reaches
  <2>2. Tree!Real(g, Tree!Front(p)) = Tree!Real(f, Tree!Front(p))
    BY <2>1, RealStays
  <2>3. DirAt(f, Tree!Real(f, Tree!Front(p)))
    BY <2>1, <2>2 DEF Narrower
  <2> QED
    BY <1>2, <2>2, <2>3, RealNameIs DEF Reaches
<1> QED
  BY <1>1, <1>2

\* What is behind the first k of a text that grows.
LEMMA TailGrows ==
  ASSUME NEW S, NEW q \in Seq(S), NEW l \in S, NEW k \in 0..Len(q)
  PROVE  SubSeq(Append(q, l), k + 1, Len(Append(q, l))) = Append(SubSeq(q, k + 1, Len(q)), l)
<1>1. PICK n \in Nat : n = Len(q)
  OBVIOUS
<1>2. PICK p : p = Append(q, l)
  OBVIOUS
<1>3. p \in Seq(S) /\ Len(p) = n + 1 /\ (\A x \in 1..n : p[x] = q[x]) /\ p[n + 1] = l
  BY <1>1, <1>2, AppendProperties
<1>4. PICK t : t = SubSeq(q, k + 1, n)
  OBVIOUS
<1>5. k \in Nat /\ k <= n
  BY <1>1
<1>6. t \in Seq(S) /\ Len(t) = n - k /\ \A x \in 1..(n - k) : t[x] = q[k + x]
  <2>1. k + 1 \in 1..(Len(q) + 1) /\ n \in (k + 1 - 1)..Len(q) /\ n - (k + 1) + 1 = n - k /\ \A x \in 1..(n - k) : k + 1 + x - 1 = k + x
    BY <1>1, <1>5
  <2> QED
    BY <1>4, <2>1, PartFacts
<1>7. PICK v : v = SubSeq(p, k + 1, n + 1)
  OBVIOUS
<1>8. v \in Seq(S) /\ Len(v) = n + 1 - k /\ \A x \in 1..(n + 1 - k) : v[x] = p[k + x]
  <2>1. k + 1 \in 1..(Len(p) + 1) /\ n + 1 \in (k + 1 - 1)..Len(p) /\ n + 1 - (k + 1) + 1 = n + 1 - k /\ \A x \in 1..(n + 1 - k) : k + 1 + x - 1 = k + x
    BY <1>3, <1>5
  <2> QED
    BY <1>3, <1>7, <2>1, PartFacts
<1>9. PICK u : u = Append(t, l)
  OBVIOUS
<1>10. u \in Seq(S) /\ Len(u) = n - k + 1 /\ (\A x \in 1..(n - k) : u[x] = t[x]) /\ u[n - k + 1] = l
  <2>1. u \in Seq(S) /\ Len(u) = Len(t) + 1 /\ (\A x \in 1..Len(t) : u[x] = t[x]) /\ u[Len(t) + 1] = l
    BY <1>6, <1>9, AppendProperties
  <2> QED
    BY <1>6, <2>1
<1>11. Len(u) = n + 1 - k /\ n - k + 1 = n + 1 - k
  BY <1>5, <1>10
<1>12. ASSUME NEW x \in 1..(n + 1 - k) PROVE u[x] = v[x]
  <2>1. CASE x \in 1..(n - k)
    <3>1. k + x \in 1..n
      BY <1>5, <2>1
    <3> QED
      BY <1>3, <1>6, <1>8, <1>10, <2>1, <3>1
  <2>2. CASE x = n - k + 1
    <3>1. k + x = n + 1
      BY <1>5, <2>2
    <3> QED
      BY <1>3, <1>8, <1>10, <2>2, <3>1
  <2>3. x \in 1..(n - k) \/ x = n - k + 1
    BY <1>5
  <2> QED
    BY <2>1, <2>2, <2>3
<1>13. u = v
  BY <1>8, <1>10, <1>11, <1>12, SeqEqual
<1> QED
  BY <1>1, <1>2, <1>3, <1>4, <1>7, <1>9, <1>13

\* A link on the way to a name is followed with the name behind it.
LEMMA OneLinkAppend ==
  ASSUME NEW f, Whole(f), NEW q \in Pathnames, NEW l \in FileNames
  PROVE  \/ Tree!OneLink(f, Append(q, l)) = Append(Tree!OneLink(f, q), l)
         \/ Tree!OneLink(f, q) = q /\ Tree!Real(f, q) = q /\ IsLink(f, Append(q, l))
<1> DEFINE p == Append(q, l)
<1>1. /\ p \in Pathnames /\ Len(p) = Len(q) + 1 /\ Len(q) \in Nat
      /\ \A k \in 0..Len(q) : SubSeq(p, 1, k) = SubSeq(q, 1, k)
      /\ SubSeq(p, 1, Len(q) + 1) = p
  BY PathGrows, PathFacts
<1> HIDE DEF p
<1>2. \A k \in 1..Len(p) : k \in 1..Len(q) \/ k = Len(q) + 1
  BY <1>1
<1>3. \A k \in 1..Len(q) : k \in 1..Len(p) /\ k \in 0..Len(q)
  BY <1>1
<1>4. CASE \A k \in 1..Len(q) : ~IsLink(f, SubSeq(q, 1, k))
  <2>1. Tree!OneLink(f, q) = q /\ Tree!Real(f, q) = q
    BY <1>4, NoLinks
  <2>2. CASE IsLink(f, p)
    BY <2>1, <2>2 DEF p
  <2>3. CASE ~IsLink(f, p)
    <3>1. \A k \in 1..Len(p) : ~IsLink(f, SubSeq(p, 1, k))
      BY <1>1, <1>2, <1>3, <1>4, <2>3
    <3>2. Tree!OneLink(f, p) = p
      BY <1>1, <3>1, NoLinks
    <3> QED
      BY <2>1, <3>2 DEF p
  <2> QED
    BY <2>2, <2>3
<1>5. CASE \E k \in 1..Len(q) : IsLink(f, SubSeq(q, 1, k))
  <2>1. PICK k \in 1..Len(q) :
              /\ IsLink(f, SubSeq(q, 1, k)) /\ \A j \in 1..Len(q) : j < k => ~IsLink(f, SubSeq(q, 1, j))
              /\ Tree!OneLink(f, q) = f[SubSeq(q, 1, k)].of \o SubSeq(q, k + 1, Len(q))
    BY <1>5, OneLinkIs
  <2>2. PICK m \in 1..Len(p) :
              /\ IsLink(f, SubSeq(p, 1, m)) /\ \A j \in 1..Len(p) : j < m => ~IsLink(f, SubSeq(p, 1, j))
              /\ Tree!OneLink(f, p) = f[SubSeq(p, 1, m)].of \o SubSeq(p, m + 1, Len(p))
    BY <1>1, <1>3, <2>1, OneLinkIs
  <2>3. m = k
    <3>1. k \in 1..Len(p) /\ IsLink(f, SubSeq(p, 1, k))
      BY <1>1, <1>3, <2>1
    <3>2. ~(k < m)
      BY <2>2, <3>1
    <3>3. m \in 1..Len(q)
      BY <1>1, <3>2
    <3>4. ~(m < k)
      BY <1>1, <1>3, <2>1, <2>2, <3>3
    <3> QED
      BY <1>1, <3>2, <3>4
  <2>4. SubSeq(p, k + 1, Len(p)) = Append(SubSeq(q, k + 1, Len(q)), l)
    <3>1. k \in 0..Len(q)
      BY <1>3
    <3> QED
      BY <1>1, <3>1, TailGrows DEF p, Pathnames
  <2>5. SubSeq(p, 1, k) = SubSeq(q, 1, k)
    BY <1>1, <1>3
  <2>6. PICK h : h = f[SubSeq(q, 1, k)].of
    OBVIOUS
  <2>7. PICK t : t = SubSeq(q, k + 1, Len(q))
    OBVIOUS
  <2>8. h \in Seq(FileNames) /\ t \in Seq(FileNames)
    <3>1. k \in 0..Len(q)
      BY <1>3
    <3> QED
      BY <2>1, <2>6, <2>7, <3>1, PathFacts DEF Whole, IsLink, Pathnames
  <2>9. h \o Append(t, l) = Append(h \o t, l)
    <3>1. Append(t, l) = t \o <<l>> /\ Append(h \o t, l) = (h \o t) \o <<l>>
      BY <2>8, AppendIsConcat, ConcatProperties
    <3>2. h \o (t \o <<l>>) = (h \o t) \o <<l>>
      <4>1. <<l>> \in Seq(FileNames)
        OBVIOUS
      <4> QED
        BY <2>8, <4>1, ConcatAssociative
    <3> QED
      BY <3>1, <3>2
  <2>10. Tree!OneLink(f, p) = h \o Append(t, l) /\ Tree!OneLink(f, q) = h \o t
    BY <2>1, <2>2, <2>3, <2>4, <2>5, <2>6, <2>7
  <2> QED
    BY <2>9, <2>10 DEF p
<1> QED
  BY <1>4, <1>5

\* If the last name is not a link itself, a path leads to its real name.
LEMMA RealOfNoLink ==
  ASSUME NEW f, Whole(f), NEW p \in Pathnames, ~IsLink(f, Tree!RealName(f, p))
  PROVE  Tree!Real(f, p) = Tree!RealName(f, p)
<1>1. CASE p = <<>>
  <2>1. \A k \in 1..Len(p) : ~IsLink(f, SubSeq(p, 1, k))
    BY <1>1
  <2> QED
    BY <1>1, <2>1, NoLinks, RealNameIs
<1>2. CASE p # <<>>
  <2>1. PICK q \in Pathnames : q = Tree!Front(p)
    BY <1>2, PathSplits
  <2>2. PICK l \in FileNames : l = Tree!Last(p)
    BY <1>2, PathSplits
  <2>3. p = Append(q, l) /\ Tree!RealName(f, p) = Append(Tree!Real(f, q), l)
    BY <1>2, <2>1, <2>2, PathSplits, RealNameIs
  <2>4. PICK r \in Pathnames : r = Tree!OneLink(f, q)
    BY RealIsPath
  <2>5. PICK s \in Pathnames : s = Tree!OneLink(f, r)
    BY RealIsPath
  <2>6. Tree!Real(f, q) = Tree!OneLink(f, s) /\ ~IsLink(f, Append(Tree!OneLink(f, s), l))
    BY <2>3, <2>4, <2>5 DEF Tree!Real
  <2>7. Tree!OneLink(f, Append(s, l)) = Append(Tree!OneLink(f, s), l)
    BY <2>6, OneLinkAppend
  <2>8. Tree!OneLink(f, Append(r, l)) = Append(s, l)
    <3>1. Tree!OneLink(f, r) = r /\ Tree!Real(f, r) = r => Tree!OneLink(f, s) = r
      BY <2>5
    <3> QED
      BY <2>5, <2>6, <3>1, OneLinkAppend
  <2>9. Tree!OneLink(f, Append(q, l)) = Append(r, l)
    <3>1. Tree!OneLink(f, q) = q => Tree!OneLink(f, s) = q
      BY <2>4, <2>5
    <3> QED
      BY <2>4, <2>6, <3>1, OneLinkAppend
  <2>10. Tree!Real(f, p) = Tree!OneLink(f, Append(s, l))
    BY <2>3, <2>8, <2>9 DEF Tree!Real
  <2> QED
    BY <2>3, <2>6, <2>7, <2>10
<1> QED
  BY <1>1, <1>2

\* A tree by the definition of the model is whole.
LEMMA WholeTree ==
  ASSUME NEW f, Tree!IsTree(f)
  PROVE  Whole(f)
<1>1. DirAt(f, <<>>)
  BY DEF Tree!IsTree, DirAt
<1>2. ASSUME NEW p \in DOMAIN f PROVE p \in Pathnames /\ f[p].kind # "none" /\ (f[p].kind = "link" => f[p].of \in Pathnames)
  BY PathsAreStrings DEF Tree!IsTree, Tree!Kinds
<1>3. ASSUME NEW p \in DOMAIN f, NEW k \in 0..(Len(p) - 1), ~DirAt(f, SubSeq(p, 1, k)) PROVE FALSE
  <2>1. PICK n \in Nat : n = Len(p) /\ p \in Pathnames /\ SubSeq(p, 1, n) = p
    BY <1>2, PathFacts
  <2>2. PICK U : U = {j \in 1..n : ~DirAt(f, SubSeq(p, 1, n - j))}
    OBVIOUS
  <2>3. k \in Nat /\ k < n /\ n - k \in 1..n /\ n - (n - k) = k
    BY <2>1
  <2>4. n - k \in U
    BY <1>3, <2>2, <2>3
  <2>5. U \in SUBSET Nat
    BY <2>2
  <2>6. PICK m \in U : \A j \in U : m <= j
    BY <2>4, <2>5, LeastExists
  <2>7. m \in 1..n /\ m \in Nat /\ m >= 1 /\ m <= n /\ ~DirAt(f, SubSeq(p, 1, n - m))
    BY <2>2, <2>6
  <2>8. n - m + 1 \in 0..n /\ n - m \in 0..n /\ n - m \in 0..(n - m + 1) /\ n - m + 1 - 1 = n - m /\ n - m + 1 # 0
    BY <2>7
  <2>9. PICK q : q = SubSeq(p, 1, n - m + 1)
    OBVIOUS
  <2>10. q \in Pathnames /\ Len(q) = n - m + 1 /\ SubSeq(q, 1, n - m) = SubSeq(p, 1, n - m)
    BY <2>1, <2>8, <2>9, PathFacts
  <2>11. q \in DOMAIN f
    <3>1. CASE m = 1
      <4>1. n - m + 1 = n
        BY <2>7, <3>1
      <4> QED
        BY <2>1, <2>9, <4>1
    <3>2. CASE m # 1
      <4>1. m - 1 \in 1..n /\ n - (m - 1) = n - m + 1 /\ ~(m <= m - 1)
        BY <2>7, <3>2
      <4>2. m - 1 \notin U
        BY <2>6, <4>1
      <4>3. DirAt(f, SubSeq(p, 1, n - (m - 1)))
        BY <2>2, <4>1, <4>2
      <4> QED
        BY <2>9, <4>1, <4>3 DEF DirAt
    <3> QED
      BY <3>1, <3>2
  <2>12. q # <<>>
    BY <2>8, <2>10
  <2>13. Tree!Front(q) = SubSeq(p, 1, n - m)
    BY <2>8, <2>10 DEF Tree!Front
  <2>14. DirAt(f, Tree!Front(q))
    BY <2>11, <2>12 DEF Tree!IsTree, DirAt
  <2> QED
    BY <2>7, <2>13, <2>14
<1> QED
  BY <1>1, <1>2, <1>3 DEF Whole, IsLink

\* One name less, or one name more.
OneLess(f, g, r) == r \in DOMAIN f /\ DOMAIN g = DOMAIN f \ {r} /\ \A x \in DOMAIN g : g[x] = f[x]
OneMore(f, g, r) == r \notin DOMAIN f /\ DOMAIN g = DOMAIN f \cup {r} /\ \A x \in DOMAIN f : g[x] = f[x]

\* Without a name that nothing is below a tree is a narrower tree.
LEMMA RemovedIsWhole ==
  ASSUME NEW f, Whole(f), NEW g, NEW r, r # <<>>, OneLess(f, g, r), \A x \in DOMAIN f : x # <<>> => Tree!Front(x) # r
  PROVE  Whole(g) /\ Narrower(f, g)
<1>1. Narrower(f, g)
  BY DEF Narrower, OneLess, IsLink, DirAt
<1>2. DirAt(g, <<>>)
  BY DEF Whole, OneLess, DirAt
<1>3. \A p \in DOMAIN g : p \in Pathnames /\ g[p].kind # "none" /\ (IsLink(g, p) => g[p].of \in Pathnames)
  BY DEF Whole, OneLess, IsLink
<1>4. ASSUME NEW p \in DOMAIN g, NEW k \in 0..(Len(p) - 1) PROVE DirAt(g, SubSeq(p, 1, k))
  <2>1. p \in DOMAIN f /\ DirAt(f, SubSeq(p, 1, k)) /\ p \in Pathnames
    BY DEF OneLess, Whole
  <2>a. Len(p) \in Nat
    BY <2>1, PathFacts
  <2>2. Len(p) \in Nat /\ k + 1 \in 0..Len(p) /\ k \in 0..(k + 1) /\ k + 1 - 1 = k /\ k + 1 # 0
    BY <2>a
  <2>3. PICK q : q = SubSeq(p, 1, k + 1)
    OBVIOUS
  <2>4. q \in Pathnames /\ Len(q) = k + 1 /\ SubSeq(q, 1, k) = SubSeq(p, 1, k)
    BY <2>1, <2>2, <2>3, PathFacts
  <2>5. q \in DOMAIN f
    <3>1. CASE k + 1 = Len(p)
      BY <2>1, <2>3, <3>1, PathFacts
    <3>2. CASE k + 1 # Len(p)
      <4>1. k + 1 \in 0..(Len(p) - 1)
        BY <2>2, <3>2
      <4> QED
        BY <2>1, <2>3, <4>1 DEF Whole, DirAt
    <3> QED
      BY <3>1, <3>2
  <2>6. q # <<>> /\ Tree!Front(q) = SubSeq(p, 1, k)
    BY <2>2, <2>4 DEF Tree!Front
  <2>7. SubSeq(p, 1, k) # r
    BY <2>5, <2>6
  <2> QED
    BY <2>1, <2>7 DEF OneLess, DirAt
<1> QED
  BY <1>1, <1>2, <1>3, <1>4 DEF Whole

\* unlink
LEMMA Unlinked ==
  ASSUME NEW f, Whole(f), NEW p \in Pathnames, Tree!CanUnlink(f, p), NEW g, g = Tree!Unlink(f, p)
  PROVE  OneLess(f, g, Tree!RealName(f, p)) /\ Whole(g) /\ Narrower(f, g) /\ Reaches(f, p)
<1>1. PICK r : r = Tree!RealName(f, p)
  OBVIOUS
<1>2. r \in DOMAIN f /\ ~DirAt(f, r)
  BY <1>1, Looked DEF Tree!CanUnlink, Tree!Lstat, Tree!Kinds, Tree!NamedAt, Tree!Missing
<1>3. OneLess(f, g, r)
  BY <1>1, <1>2 DEF OneLess, Tree!Unlink, Tree!Without
<1>4. r # <<>>
  BY <1>2 DEF Whole
<1>5. \A x \in DOMAIN f : x # <<>> => Tree!Front(x) # r
  BY <1>2, InDirectory
<1> QED
  BY <1>1, <1>2, <1>3, <1>4, <1>5, RemovedIsWhole, ThereIsReached

\* rmdir
LEMMA Rmdired ==
  ASSUME NEW f, Whole(f), NEW p \in Pathnames, Tree!CanRmdir(f, p), NEW g, g = Tree!Rmdir(f, p)
  PROVE  /\ OneLess(f, g, Tree!RealName(f, p)) /\ Whole(g) /\ Narrower(f, g) /\ Reaches(f, p)
         /\ DirAt(f, Tree!RealName(f, p))
<1>1. PICK r : r = Tree!RealName(f, p)
  OBVIOUS
<1>2. DirAt(f, r) /\ p # <<>> /\ Tree!Entries(f, r) = {}
  BY <1>1, Looked DEF Tree!CanRmdir, Tree!Lstat
<1>3. OneLess(f, g, r)
  BY <1>1, <1>2 DEF OneLess, Tree!Rmdir, Tree!Unlink, Tree!Without, DirAt
<1>4. r # <<>>
  BY <1>1, <1>2, RealNameIs
<1>5. \A x \in DOMAIN f : x # <<>> => Tree!Front(x) # r
  BY <1>2 DEF Tree!Entries
<1>6. r \in DOMAIN f
  BY <1>2 DEF DirAt
<1> QED
  BY <1>1, <1>2, <1>3, <1>4, <1>5, <1>6, RemovedIsWhole, ThereIsReached

\* open with O_CREAT, and mkdir
LEMMA Created ==
  ASSUME NEW f, Whole(f), NEW p \in Pathnames, NEW d, Tree!CanCreate(f, p, d),
         NEW kind \in {"file", "dir"}, NEW m, NEW g, g = Tree!Create(f, p, kind, <<>>, m)
  PROVE  /\ OneMore(f, g, Tree!RealName(f, p)) /\ Whole(g) /\ g[Tree!RealName(f, p)].kind = kind
         /\ kind = "file" => Narrower(f, g)
<1>1. PICK r : r = Tree!RealName(f, p)
  OBVIOUS
<1>2. r \in Pathnames /\ r # <<>> /\ r \notin DOMAIN f /\ DirAt(f, Tree!Front(r))
  BY <1>1, RealNameIs, Looked DEF Tree!CanCreate
<1>3. PICK n : g = Tree!Put(f, r, n) /\ n.kind = kind
  BY <1>1 DEF Tree!Create
<1>4. DOMAIN g = DOMAIN f \cup {r} /\ g[r] = n /\ \A x \in DOMAIN f : g[x] = f[x]
  BY <1>2, <1>3 DEF Tree!Put
<1>5. OneMore(f, g, r)
  BY <1>2, <1>4 DEF OneMore
<1>6. \A x : DirAt(f, x) => DirAt(g, x)
  BY <1>4 DEF DirAt
<1>7. \A x \in DOMAIN g : x \in Pathnames /\ g[x].kind # "none" /\ (IsLink(g, x) => g[x].of \in Pathnames)
  BY <1>2, <1>3, <1>4 DEF Whole, IsLink
<1>8. ASSUME NEW x \in DOMAIN g, NEW k \in 0..(Len(x) - 1) PROVE DirAt(g, SubSeq(x, 1, k))
  <2>1. CASE x \in DOMAIN f
    BY <1>6, <2>1 DEF Whole
  <2>2. CASE x = r
    <3>1. PICK q : q = Tree!Front(r)
      OBVIOUS
    <3>2. q \in Pathnames /\ Len(q) = Len(r) - 1 /\ DirAt(f, q)
      BY <1>2, <3>1, PathSplits
    <3>3. Len(r) \in Nat /\ Len(q) \in Nat
      BY <1>2, <3>2, PathFacts
    <3>4. k \in 0..Len(q) /\ Len(r) - 1 \in 0..Len(r) /\ k \in 0..(Len(r) - 1)
      BY <2>2, <3>2, <3>3
    <3>5. SubSeq(q, 1, k) = SubSeq(r, 1, k)
      BY <1>2, <3>1, <3>4, PathFacts DEF Tree!Front
    <3>6. DirAt(f, SubSeq(q, 1, k))
      BY <3>2, <3>4, DirsAbove
    <3> QED
      BY <1>6, <2>2, <3>5, <3>6
  <2> QED
    BY <1>4, <2>1, <2>2
<1>9. DirAt(g, <<>>)
  BY <1>6 DEF Whole
<1>10. Whole(g)
  BY <1>7, <1>8, <1>9 DEF Whole
<1>11. kind = "file" => Narrower(f, g)
  BY <1>2, <1>3, <1>4 DEF Narrower, IsLink, DirAt
<1> QED
  BY <1>1, <1>3, <1>4, <1>5, <1>10, <1>11

-----------------------------------------------------------------------------
(* mkdir and rmdir                                                         *)

CONSTANTS DirTrees, DirCalls, DirDepth, DirFaults
VARIABLES dirFs, dirStart, dirCall, dirOpts, dirI, dirPc, dirTodo, dirStatus, dirFaults
DirTool == INSTANCE Dirs WITH Trees <- DirTrees, Calls <- DirCalls, Depth <- DirDepth, Faults <- DirFaults,
  fs <- dirFs, start <- dirStart, call <- dirCall, opts <- dirOpts, i <- dirI, pc <- dirPc, todo <- dirTodo,
  status <- dirStatus, faults <- dirFaults

\* The files of mkdir and rmdir are those of the tree.
LEMMA DirsTree ==
  /\ \A f, p : DirTool!NamedAt(f, p) = Tree!NamedAt(f, p)
  /\ \A f, p : DirTool!RealName(f, p) = Tree!RealName(f, p)
  /\ \A f, p : DirTool!Real(f, p) = Tree!Real(f, p)
  /\ \A f, p : DirTool!Lstat(f, p) = Tree!Lstat(f, p)
  /\ \A f, p : DirTool!Stat(f, p) = Tree!Stat(f, p)
  /\ \A f, p : DirTool!CanRmdir(f, p) <=> Tree!CanRmdir(f, p)
  /\ \A f, p : DirTool!Rmdir(f, p) = Tree!Rmdir(f, p)
  /\ \A f, p, d : DirTool!CanCreate(f, p, d) <=> Tree!CanCreate(f, p, d)
  /\ \A f, p, kind, of, mode : DirTool!Create(f, p, kind, of, mode) = Tree!Create(f, p, kind, of, mode)
  /\ \A f : DirTool!IsTree(f) <=> Tree!IsTree(f)
<1>1. \A f, p : DirTool!NamedAt(f, p) = Tree!NamedAt(f, p)
  BY DEF DirTool!NamedAt, Tree!NamedAt, DirTool!Missing, Tree!Missing
<1>2. \A f, p : DirTool!LinksIn(f, p) = Tree!LinksIn(f, p)
  BY <1>1 DEF DirTool!LinksIn, Tree!LinksIn
<1>3. \A S : DirTool!Min(S) = Tree!Min(S)
  BY DEF DirTool!Min, Tree!Min
<1>4. \A f, p : DirTool!OneLink(f, p) = Tree!OneLink(f, p)
  BY <1>2, <1>3 DEF DirTool!OneLink, Tree!OneLink
<1>5. \A f, p : DirTool!Real(f, p) = Tree!Real(f, p)
  BY <1>4 DEF DirTool!Real, Tree!Real
<1>6. (\A p : DirTool!Front(p) = Tree!Front(p)) /\ \A p : DirTool!Last(p) = Tree!Last(p)
  BY DEF DirTool!Front, Tree!Front, DirTool!Last, Tree!Last
<1>7. \A f, p : DirTool!RealName(f, p) = Tree!RealName(f, p)
  BY <1>5, <1>6 DEF DirTool!RealName, Tree!RealName
<1>8. \A f, p : DirTool!Lstat(f, p) = Tree!Lstat(f, p)
  BY <1>1, <1>7 DEF DirTool!Lstat, Tree!Lstat
<1>9. \A f, p : DirTool!Stat(f, p) = Tree!Stat(f, p)
  BY <1>1, <1>5 DEF DirTool!Stat, Tree!Stat, DirTool!Missing, Tree!Missing
<1>10. \A f, d : DirTool!Entries(f, d) = Tree!Entries(f, d)
  BY <1>6 DEF DirTool!Entries, Tree!Entries
<1>11. \A f, p : DirTool!CanRmdir(f, p) <=> Tree!CanRmdir(f, p)
  BY <1>7, <1>8, <1>10 DEF DirTool!CanRmdir, Tree!CanRmdir
<1>12. \A f, p : DirTool!Rmdir(f, p) = Tree!Rmdir(f, p)
  BY <1>7 DEF DirTool!Rmdir, Tree!Rmdir, DirTool!Unlink, Tree!Unlink, DirTool!Without, Tree!Without
<1>13. \A f, p, d : DirTool!CanCreate(f, p, d) <=> Tree!CanCreate(f, p, d)
  BY <1>1, <1>6, <1>7 DEF DirTool!CanCreate, Tree!CanCreate
<1>14. \A f : DirTool!Fresh(f) = Tree!Fresh(f)
  BY DEF DirTool!Fresh, Tree!Fresh, DirTool!Max, Tree!Max
<1>15. \A f, p, kind, of, mode : DirTool!Create(f, p, kind, of, mode) = Tree!Create(f, p, kind, of, mode)
  BY <1>7, <1>14 DEF DirTool!Create, Tree!Create, DirTool!Put, Tree!Put
<1>16. \A f : DirTool!IsTree(f) <=> Tree!IsTree(f)
  BY <1>6 DEF DirTool!IsTree, Tree!IsTree, DirTool!Missing, Tree!Missing, DirTool!Kinds, Tree!Kinds
<1> QED
  BY <1>1, <1>5, <1>7, <1>8, <1>9, <1>11, <1>12, <1>13, <1>15, <1>16

\* Trees with the same links lead to the same places.
LinksSame(f, g) == \A x : (IsLink(f, x) <=> IsLink(g, x)) /\ (IsLink(f, x) => g[x].of = f[x].of)

\* With the same links a path leads where it led.
LEMMA SameLinks ==
  ASSUME NEW f, NEW g, Whole(f), Whole(g), LinksSame(f, g), NEW p \in Pathnames
  PROVE  Tree!Real(g, p) = Tree!Real(f, p) /\ Tree!RealName(g, p) = Tree!RealName(f, p)
<1>1. ASSUME NEW q \in Pathnames PROVE Tree!OneLink(g, q) = Tree!OneLink(f, q) /\ Tree!OneLink(f, q) \in Pathnames
  <2>1. Tree!OneLink(f, q) \in Pathnames
    BY RealIsPath
  <2>2. CASE \A k \in 1..Len(q) : ~IsLink(f, SubSeq(q, 1, k))
    BY <2>1, <2>2, NoLinks DEF LinksSame
  <2>3. CASE \E k \in 1..Len(q) : IsLink(f, SubSeq(q, 1, k))
    <3>1. PICK k \in 1..Len(q) :
              /\ IsLink(f, SubSeq(q, 1, k)) /\ \A j \in 1..Len(q) : j < k => ~IsLink(f, SubSeq(q, 1, j))
              /\ Tree!OneLink(f, q) = f[SubSeq(q, 1, k)].of \o SubSeq(q, k + 1, Len(q))
      BY <2>3, OneLinkIs
    <3>2. IsLink(g, SubSeq(q, 1, k))
      BY <3>1 DEF LinksSame
    <3>3. PICK m \in 1..Len(q) :
              /\ IsLink(g, SubSeq(q, 1, m)) /\ \A j \in 1..Len(q) : j < m => ~IsLink(g, SubSeq(q, 1, j))
              /\ Tree!OneLink(g, q) = g[SubSeq(q, 1, m)].of \o SubSeq(q, m + 1, Len(q))
      BY <3>2, OneLinkIs
    <3>4. ~(m < k) /\ ~(k < m)
      BY <3>1, <3>2, <3>3 DEF LinksSame
    <3>5. m = k
      BY <3>4, PathFacts
    <3>6. g[SubSeq(q, 1, k)].of = f[SubSeq(q, 1, k)].of
      BY <3>1 DEF LinksSame
    <3> QED
      BY <2>1, <3>1, <3>3, <3>5, <3>6
  <2> QED
    BY <2>2, <2>3
<1>2. \A q \in Pathnames : Tree!Real(g, q) = Tree!Real(f, q)
  BY <1>1 DEF Tree!Real
<1>3. CASE p = <<>>
  BY <1>2, <1>3, RealNameIs
<1>4. CASE p # <<>>
  <2>1. Tree!Front(p) \in Pathnames
    BY <1>4, PathSplits
  <2> QED
    BY <1>2, <1>4, <2>1 DEF Tree!RealName
<1> QED
  BY <1>2, <1>3, <1>4

\* What is gone stays away when names are only taken.
LEMMA GoneStays ==
  ASSUME NEW f, NEW g, Whole(f), Whole(g), Narrower(f, g), DOMAIN g \subseteq DOMAIN f,
         NEW p \in Pathnames, Tree!RealName(f, p) \notin DOMAIN f
  PROVE  Tree!RealName(g, p) \notin DOMAIN g
BY ThereIsReached, NamesStay

\* What was removed is gone.
LEMMA RemovedIsGone ==
  ASSUME NEW f, NEW g, Whole(f), Whole(g), Narrower(f, g), NEW p \in Pathnames, OneLess(f, g, Tree!RealName(f, p))
  PROVE  Tree!RealName(g, p) \notin DOMAIN g
<1>1. Tree!RealName(f, p) \notin DOMAIN g
  BY DEF OneLess
<1> QED
  BY <1>1, ThereIsReached, NamesStay

\* What was made is there.
LEMMA MadeIsThere ==
  ASSUME NEW f, Whole(f), NEW p \in Pathnames, NEW d, Tree!CanCreate(f, p, d),
         NEW m, NEW g, g = Tree!Create(f, p, "dir", <<>>, m)
  PROVE  LinksSame(f, g) /\ DirAt(g, Tree!Real(g, p))
<1>1. PICK r : r = Tree!RealName(f, p)
  OBVIOUS
<1>2. OneMore(f, g, r) /\ Whole(g) /\ g[r].kind = "dir"
  BY <1>1, Created
<1>3. LinksSame(f, g)
  BY <1>2 DEF LinksSame, OneMore, IsLink
<1>4. Tree!RealName(g, p) = r
  BY <1>1, <1>2, <1>3, SameLinks
<1>5. ~IsLink(g, r) /\ DirAt(g, r)
  BY <1>2 DEF IsLink, DirAt, OneMore
<1> QED
  BY <1>2, <1>3, <1>4, <1>5, RealOfNoLink

\* A directory stays where it is when directories are made.
LEMMA DirStays ==
  ASSUME NEW f, NEW g, Whole(f), Whole(g), LinksSame(f, g), \A x : DirAt(f, x) => DirAt(g, x),
         NEW p \in Pathnames, DirAt(f, Tree!Real(f, p))
  PROVE  DirAt(g, Tree!Real(g, p))
BY SameLinks

\* What Stat tells.
LEMMA StatIs ==
  ASSUME NEW f, Whole(f), NEW p
  PROVE  /\ Tree!Stat(f, p).kind = "dir" <=> DirAt(f, Tree!Real(f, p))
         /\ Tree!Stat(f, p).kind = "none" <=> IsLink(f, Tree!Real(f, p)) \/ Tree!Real(f, p) \notin DOMAIN f
BY Looked DEF Tree!Stat, Tree!Missing, IsLink

\* A name that exists and leads to nothing is a link.
LEMMA LeadsNowhere ==
  ASSUME NEW f, Whole(f), NEW p \in Pathnames, Tree!RealName(f, p) \in DOMAIN f, Tree!Stat(f, p).kind = "none"
  PROVE  IsLink(f, Tree!RealName(f, p))
BY StatIs, RealOfNoLink

\* The inductive invariant of mkdir and rmdir.
DirFinished(f, p) ==
  IF DirTool!Rmdirs THEN Tree!RealName(f, p) \notin DOMAIN f
  ELSE DirAt(f, Tree!Real(f, p)) \/ ("p" \in dirOpts /\ DirTool!Dangling(p))
DirTyping ==
  /\ dirCall \in DirCalls /\ Whole(dirFs) /\ Whole(dirStart)
  /\ dirPc \in {"parse", "path", "mkdir", "rmdir", "exited"}
  /\ dirPc \in {"path", "mkdir", "rmdir"} => dirI \in 1..Len(dirCall.paths)
  /\ dirPc = "parse" => dirFs = dirStart /\ dirI = 1
DirTodo ==
  /\ dirPc = "mkdir" => ~DirTool!Rmdirs
  /\ dirPc = "rmdir" => DirTool!Rmdirs /\ \A k \in 1..Len(dirTodo) : dirTodo[k] \in {<<>>, dirCall.paths[dirI]}
  /\ dirPc \in {"mkdir", "rmdir"} =>
       dirTodo \in Seq(Pathnames) /\ dirTodo # <<>> /\ dirTodo[Len(dirTodo)] = dirCall.paths[dirI]
DirTaken(f) ==
  /\ Narrower(dirStart, f)
  /\ \A p \in DOMAIN f : p \in DOMAIN dirStart /\ f[p] = dirStart[p]
  /\ \A p \in DOMAIN dirStart \ DOMAIN f :
       DirAt(dirStart, p) /\ \E k \in 1..Len(dirCall.paths) : Tree!RealName(dirStart, dirCall.paths[k]) = p
DirMade(f) ==
  /\ LinksSame(dirStart, f)
  /\ \A p \in DOMAIN dirStart : p \in DOMAIN f /\ f[p] = dirStart[p]
  /\ \A p \in DOMAIN f \ DOMAIN dirStart : DirAt(f, p)
DirChanges(f) == IF DirTool!Rmdirs THEN DirTaken(f) ELSE DirMade(f)
DirDone ==
  dirStatus = 0 => \A k \in 1..Len(dirCall.paths) : k < dirI \/ dirPc = "exited" => DirFinished(dirFs, dirCall.paths[k])
DirInv == DirTyping /\ DirTodo /\ DirChanges(dirFs) /\ DirDone

\* The paths of a call.
LEMMA DirPaths ==
  ASSUME DirTool!Assumptions, dirCall \in DirCalls
  PROVE  /\ dirCall.paths \in Seq(Pathnames) /\ Len(dirCall.paths) \in Nat
         /\ \A k \in 1..Len(dirCall.paths) : dirCall.paths[k] \in Pathnames
<1>1. dirCall.paths \in Seq(Pathnames)
  BY PathsAreStrings DEF DirTool!Assumptions
<1> QED
  BY <1>1, ElementOfSeq

\* mkdir and rmdir start with the invariant.
LEMMA DirStarts ==
  ASSUME DirTool!Assumptions, DirTool!Init
  PROVE  DirInv
<1>1. dirFs \in DirTrees /\ dirStart = dirFs /\ dirCall \in DirCalls /\ dirI = 1 /\ dirPc = "parse"
  BY DEF DirTool!Init
<1>2. Whole(dirFs)
  BY <1>1, DirsTree, WholeTree DEF DirTool!Assumptions
<1>3. DirTyping /\ DirTodo
  BY <1>1, <1>2 DEF DirTyping, DirTodo
<1>4. DirTaken(dirFs) /\ DirMade(dirFs)
  BY <1>1 DEF DirTaken, DirMade, Narrower, LinksSame
<1>5. DirDone
  <2>1. \A k \in 1..Len(dirCall.paths) : ~(k < 1)
    BY <1>1, DirPaths
  <2> QED
    BY <1>1, <2>1 DEF DirDone
<1> QED
  BY <1>3, <1>4, <1>5 DEF DirInv, DirChanges

\* main: the options say which of the two programs runs.
LEMMA DirMainStep ==
  ASSUME DirTool!Assumptions, DirInv, DirTool!Main
  PROVE  DirInv'
<1>1. /\ dirPc = "parse" /\ dirFs' = dirFs /\ dirStart' = dirStart /\ dirCall' = dirCall /\ dirI' = dirI
      /\ \/ dirPc' = "exited" /\ dirCall.paths = <<>>
         \/ dirPc' = "path" /\ dirCall.paths # <<>>
  BY DEF DirTool!Main, DirTool!fixed
<1>2. dirFs = dirStart /\ dirI = 1 /\ dirCall \in DirCalls /\ Whole(dirFs)
  BY <1>1 DEF DirInv, DirTyping
<1>3. dirCall.paths # <<>> => 1 \in 1..Len(dirCall.paths)
  BY <1>2, DirPaths, EmptySeq
<1>4. DirTyping' /\ DirTodo'
  BY <1>1, <1>2, <1>3 DEF DirTyping, DirTodo
<1>5. DirChanges(dirFs)'
  BY <1>1, <1>2 DEF DirChanges, DirTaken, DirMade, Narrower, LinksSame
<1>6. DirDone'
  <2>1. \A k \in 1..Len(dirCall.paths) : ~(k < 1)
    BY <1>2, DirPaths
  <2>2. dirCall.paths = <<>> => 1..Len(dirCall.paths) = {}
    BY EmptySeq
  <2> QED
    BY <1>1, <1>2, <2>1, <2>2 DEF DirDone
<1> QED
  BY <1>4, <1>5, <1>6 DEF DirInv

\* What is to be done for a path ends with the path itself.
LEMMA StepsAre ==
  ASSUME NEW p \in Pathnames
  PROVE  /\ DirTool!Steps(p) \in Seq(Pathnames) /\ DirTool!Steps(p) # <<>>
         /\ DirTool!Steps(p)[Len(DirTool!Steps(p))] = p
         /\ DirTool!Rmdirs => \A k \in 1..Len(DirTool!Steps(p)) : DirTool!Steps(p)[k] \in {<<>>, p}
<1>1. <<>> \in Pathnames
  BY EmptySeq DEF Pathnames
<1>2. <<p>> \in Seq(Pathnames) /\ <<p>> # <<>> /\ <<p>>[Len(<<p>>)] = p /\ \A k \in 1..Len(<<p>>) : <<p>>[k] \in {<<>>, p}
  OBVIOUS
<1>3. <<<<>>, p>> \in Seq(Pathnames) /\ <<<<>>, p>> # <<>> /\ <<<<>>, p>>[Len(<<<<>>, p>>)] = p
      /\ \A k \in 1..Len(<<<<>>, p>>) : <<<<>>, p>>[k] \in {<<>>, p}
  BY <1>1
<1>4. ASSUME p # <<>>
      PROVE  /\ DirTool!PathsTo(p) \in Seq(Pathnames) /\ DirTool!PathsTo(p) # <<>>
             /\ DirTool!PathsTo(p)[Len(DirTool!PathsTo(p))] = p
  <2>1. PICK n \in Nat : n = Len(p) /\ n # 0
    BY <1>4, PathFacts, EmptySeq DEF Pathnames
  <2>2. PICK s : s = [k \in 1..n |-> SubSeq(p, 1, k)]
    OBVIOUS
  <2>3. \A k \in 1..n : SubSeq(p, 1, k) \in Pathnames
    BY <2>1, PathFacts
  <2>4. s \in [1..n -> Pathnames]
    BY <2>2, <2>3
  <2>5. s \in Seq(Pathnames) /\ Len(s) = n
    BY <2>4, FunctionIsSeq
  <2>6. n \in 1..n
    BY <2>1
  <2>7. s[n] = p
    BY <2>1, <2>2, <2>6, PathFacts
  <2>8. s # <<>>
    BY <2>1, <2>5
  <2>9. s = DirTool!PathsTo(p)
    BY <1>4, <2>1, <2>2 DEF DirTool!PathsTo
  <2> QED
    BY <2>5, <2>7, <2>8, <2>9
<1>5. DirTool!PathsTo(<<>>) = << <<>> >>
  BY DEF DirTool!PathsTo
<1>6. DirTool!Steps(p) = <<p>> \/ DirTool!Steps(p) = << <<>>, p >> \/ (~DirTool!Rmdirs /\ DirTool!Steps(p) = DirTool!PathsTo(p))
  BY DEF DirTool!Steps, DirTool!RemovalOrder
<1> QED
  BY <1>2, <1>3, <1>4, <1>5, <1>6

\* The next path.
LEMMA DirTakeStep ==
  ASSUME DirTool!Assumptions, DirInv, DirTool!TakePath
  PROVE  DirInv'
<1>1. /\ dirPc = "path" /\ dirTodo' = DirTool!Steps(dirCall.paths[dirI])
      /\ dirPc' = (IF DirTool!Rmdirs THEN "rmdir" ELSE "mkdir")
      /\ dirFs' = dirFs /\ dirStart' = dirStart /\ dirCall' = dirCall /\ dirI' = dirI /\ dirOpts' = dirOpts /\ dirStatus' = dirStatus
  BY DEF DirTool!TakePath, DirTool!fixed
<1>2. dirI \in 1..Len(dirCall.paths) /\ dirCall.paths[dirI] \in Pathnames
  BY <1>1, DirPaths DEF DirInv, DirTyping
<1>3. DirTool!Rmdirs' <=> DirTool!Rmdirs
  BY <1>1 DEF DirTool!Rmdirs
<1>4. DirTyping'
  BY <1>1, <1>2 DEF DirInv, DirTyping
<1>5. DirTodo'
  BY <1>1, <1>2, <1>3, StepsAre DEF DirTodo
<1>6. DirChanges(dirFs)'
  BY <1>1, <1>3 DEF DirInv, DirChanges, DirTaken, DirMade
<1>7. \A p : DirFinished(dirFs, p)' <=> DirFinished(dirFs, p)
  BY <1>1, <1>3 DEF DirFinished, DirTool!Dangling
<1>8. DirDone'
  BY <1>1, <1>7 DEF DirInv, DirDone
<1> QED
  BY <1>4, <1>5, <1>6, <1>8 DEF DirInv

\* A path is done: well if it is finished, or with status 1.
LEMMA DirDoneStep ==
  ASSUME DirTool!Assumptions, DirInv, dirPc \in {"mkdir", "rmdir"},
         dirStart' = dirStart, dirCall' = dirCall, dirOpts' = dirOpts, Whole(dirFs'), DirChanges(dirFs)',
         dirStatus = 0 => \A k \in 1..Len(dirCall.paths) : k < dirI => DirFinished(dirFs, dirCall.paths[k])',
         NEW p, p = dirCall.paths[dirI], NEW ret, ret = 0 => DirFinished(dirFs, p)', DirTool!Done(ret)
  PROVE  DirInv'
<1>1. /\ dirStatus' = (IF ret = 0 THEN dirStatus ELSE 1)
      /\ IF dirI < Len(dirCall.paths) THEN dirI' = dirI + 1 /\ dirPc' = "path" ELSE dirI' = dirI /\ dirPc' = "exited"
  BY DEF DirTool!Done
<1>2. /\ dirI \in 1..Len(dirCall.paths) /\ dirCall \in DirCalls /\ Whole(dirStart) /\ Len(dirCall.paths) \in Nat
  BY DirPaths DEF DirInv, DirTyping
<1>3. dirI < Len(dirCall.paths) => dirI + 1 \in 1..Len(dirCall.paths)
  BY <1>2
<1>4. DirTyping'
  BY <1>1, <1>2, <1>3 DEF DirTyping
<1>5. DirTodo'
  BY <1>1 DEF DirTodo
<1>6. DirDone'
  <2> SUFFICES ASSUME dirStatus' = 0, NEW k \in 1..Len(dirCall.paths), k < dirI' \/ dirPc' = "exited"
               PROVE  DirFinished(dirFs, dirCall.paths[k])'
    BY DEF DirDone
  <2>1. ret = 0 /\ dirStatus = 0 /\ (k = dirI => dirCall.paths[k] = p) /\ dirCall'.paths[k] = dirCall.paths[k]
    BY <1>1
  <2>2. k < dirI \/ k = dirI
    <3>1. CASE dirI < Len(dirCall.paths)
      <4>1. k < dirI + 1
        BY <1>1, <3>1
      <4> QED
        BY <1>2, <4>1
    <3>2. CASE ~(dirI < Len(dirCall.paths))
      BY <1>2, <3>2
    <3> QED
      BY <3>1, <3>2
  <2> QED
    BY <2>1, <2>2
<1> QED
  BY <1>4, <1>5, <1>6 DEF DirInv

\* On to the next prefix, or the path is done.
LEMMA DirGoesOn ==
  ASSUME DirTool!Assumptions, DirInv, dirPc \in {"mkdir", "rmdir"},
         dirStart' = dirStart, dirCall' = dirCall, dirOpts' = dirOpts, Whole(dirFs'), DirChanges(dirFs)',
         dirStatus = 0 => \A k \in 1..Len(dirCall.paths) : k < dirI => DirFinished(dirFs, dirCall.paths[k])',
         NEW p, p = dirCall.paths[dirI], Head(dirTodo) = p => DirFinished(dirFs, p)', DirTool!GoesOn
  PROVE  DirInv'
<1>1. /\ dirTodo \in Seq(Pathnames) /\ dirTodo # <<>> /\ dirTodo[Len(dirTodo)] = dirCall.paths[dirI]
  BY DEF DirInv, DirTodo
<1>2. CASE Len(dirTodo) = 1
  <2>1. Head(dirTodo) = p
    BY <1>1, <1>2
  <2>2. DirTool!Done(0)
    BY <1>2 DEF DirTool!GoesOn
  <2> QED
    BY <2>1, <2>2, DirDoneStep
<1>3. CASE Len(dirTodo) # 1
  <2>1. dirTodo' = Tail(dirTodo) /\ dirI' = dirI /\ dirPc' = dirPc /\ dirStatus' = dirStatus
    BY <1>3 DEF DirTool!GoesOn
  <2>2. PICK n \in Nat : n = Len(dirTodo) /\ n # 0 /\ n # 1
    BY <1>1, <1>3, EmptySeq
  <2>3. PICK s : s = Tail(dirTodo)
    OBVIOUS
  <2>4. s \in Seq(Pathnames) /\ Len(s) = n - 1 /\ \A k \in 1..(n - 1) : s[k] = dirTodo[k + 1]
    BY <1>1, <2>2, <2>3, HeadTailProperties
  <2>5. n - 1 \in 1..(n - 1) /\ n - 1 + 1 = n /\ n - 1 # 0 /\ \A k \in 1..(n - 1) : k + 1 \in 1..n
    BY <2>2
  <2>6. s # <<>> /\ s[Len(s)] = dirCall.paths[dirI] /\ \A k \in 1..Len(s) : \E m \in 1..Len(dirTodo) : s[k] = dirTodo[m]
    BY <1>1, <2>2, <2>4, <2>5
  <2>7. DirTool!Rmdirs' <=> DirTool!Rmdirs
    BY DEF DirTool!Rmdirs
  <2>8. DirTodo'
    BY <2>1, <2>3, <2>4, <2>6, <2>7 DEF DirInv, DirTodo
  <2>9. DirTyping'
    BY <2>1 DEF DirInv, DirTyping
  <2>10. DirDone'
    BY <2>1 DEF DirDone
  <2> QED
    BY <2>8, <2>9, <2>10 DEF DirInv
<1> QED
  BY <1>2, <1>3

\* mkdir: made, there already, or not.
LEMMA DirMkdirStep ==
  ASSUME DirTool!Assumptions, DirInv, DirTool!Mkdir
  PROVE  DirInv'
<1>1. /\ dirPc = "mkdir" /\ ~DirTool!Rmdirs /\ dirStart' = dirStart /\ dirCall' = dirCall /\ dirOpts' = dirOpts
      /\ Whole(dirFs) /\ Whole(dirStart) /\ DirMade(dirFs) /\ dirCall \in DirCalls
      /\ dirTodo \in Seq(Pathnames) /\ dirTodo # <<>>
  BY DEF DirTool!Mkdir, DirTool!fixed, DirInv, DirTyping, DirTodo, DirChanges
<1>2. PICK p \in Pathnames : p = Head(dirTodo)
  BY <1>1, HeadTailProperties
<1>3. PICK q : q = dirCall.paths[dirI]
  OBVIOUS
<1>4. ~DirTool!Rmdirs'
  BY <1>1 DEF DirTool!Rmdirs
<1>5. \A f, x : DirFinished(f, x) <=> DirAt(f, Tree!Real(f, x)) \/ ("p" \in dirOpts /\ DirTool!Dangling(x))
  BY <1>1 DEF DirFinished
<1>6. \A x : DirFinished(dirFs, x)' <=> DirAt(dirFs', Tree!Real(dirFs', x)) \/ ("p" \in dirOpts /\ DirTool!Dangling(x))
  BY <1>1, <1>4 DEF DirFinished, DirTool!Dangling
<1>7. dirStatus = 0 => \A k \in 1..Len(dirCall.paths) : k < dirI => DirFinished(dirFs, dirCall.paths[k])
  BY DEF DirInv, DirDone
<1>8. \A k \in 1..Len(dirCall.paths) : dirCall.paths[k] \in Pathnames /\ dirCall'.paths[k] = dirCall.paths[k]
  BY <1>1, DirPaths
<1>9. CASE Tree!CanCreate(dirFs, p, DirDepth) /\ dirFs' = Tree!Create(dirFs, p, "dir", <<>>, DirTool!NewMode) /\ DirTool!GoesOn
  <2>1. PICK r : r = Tree!RealName(dirFs, p)
    OBVIOUS
  <2>2. OneMore(dirFs, dirFs', r) /\ Whole(dirFs') /\ dirFs'[r].kind = "dir"
    BY <1>1, <1>9, <2>1, Created
  <2>3. LinksSame(dirFs, dirFs') /\ DirAt(dirFs', Tree!Real(dirFs', p))
    BY <1>1, <1>9, MadeIsThere
  <2>4. LinksSame(dirStart, dirFs')
    BY <1>1, <2>3 DEF LinksSame, DirMade
  <2>5. \A x \in DOMAIN dirStart : x \in DOMAIN dirFs' /\ dirFs'[x] = dirStart[x]
    BY <1>1, <2>2 DEF DirMade, OneMore
  <2>6. \A x \in DOMAIN dirFs' \ DOMAIN dirStart : DirAt(dirFs', x)
    BY <1>1, <2>2 DEF DirMade, OneMore, DirAt
  <2>7. DirChanges(dirFs)'
    BY <1>1, <1>4, <2>4, <2>5, <2>6 DEF DirChanges, DirMade
  <2>8. \A x : DirAt(dirFs, x) => DirAt(dirFs', x)
    BY <2>2 DEF OneMore, DirAt
  <2>9. dirStatus = 0 => \A k \in 1..Len(dirCall.paths) : k < dirI => DirFinished(dirFs, dirCall.paths[k])'
    BY <1>1, <1>5, <1>6, <1>7, <1>8, <2>2, <2>3, <2>8, DirStays
  <2>10. Head(dirTodo) = q => DirFinished(dirFs, q)'
    BY <1>2, <1>6, <2>3
  <2> QED
    BY <1>1, <1>3, <1>9, <2>2, <2>7, <2>9, <2>10, DirGoesOn
<1>10. CASE dirFs' = dirFs
  <2>1. DirChanges(dirFs)'
    BY <1>1, <1>4, <1>10 DEF DirChanges, DirMade
  <2>2. dirStatus = 0 => \A k \in 1..Len(dirCall.paths) : k < dirI => DirFinished(dirFs, dirCall.paths[k])'
    BY <1>5, <1>6, <1>7, <1>8, <1>10
  <2>3. CASE "p" \in dirOpts /\ DirTool!MayBeThere(p) /\ DirTool!GoesOn
    <3>1. Tree!RealName(dirFs, p) \in DOMAIN dirFs /\ Tree!Stat(dirFs, p).kind \in {"dir", "none"}
      BY <2>3, DirsTree DEF DirTool!MayBeThere
    <3>2. CASE Tree!Stat(dirFs, p).kind = "dir"
      <4>1. DirFinished(dirFs, p)'
        BY <1>1, <1>6, <1>10, <3>2, StatIs
      <4> QED
        BY <1>1, <1>2, <1>3, <1>10, <2>1, <2>2, <2>3, <4>1, DirGoesOn
    <3>3. CASE Tree!Stat(dirFs, p).kind = "none"
      <4>1. IsLink(dirFs, Tree!RealName(dirFs, p))
        BY <1>1, <3>1, <3>3, LeadsNowhere
      <4>2. Tree!Real(dirFs, p) = Tree!Real(dirStart, p) /\ Tree!RealName(dirFs, p) = Tree!RealName(dirStart, p)
        BY <1>1, SameLinks DEF DirMade
      <4>3. IsLink(dirStart, Tree!RealName(dirStart, p))
        BY <1>1, <4>1, <4>2 DEF DirMade, LinksSame
      <4>4. Tree!Lstat(dirStart, p).kind = "link"
        BY <4>3, Looked DEF Tree!Lstat
      <4>5. IsLink(dirFs, Tree!Real(dirFs, p)) \/ Tree!Real(dirFs, p) \notin DOMAIN dirFs
        BY <1>1, <3>3, StatIs
      <4>6. IsLink(dirStart, Tree!Real(dirStart, p)) \/ Tree!Real(dirStart, p) \notin DOMAIN dirStart
        BY <1>1, <4>2, <4>5 DEF DirMade, LinksSame
      <4>7. Tree!Stat(dirStart, p).kind = "none"
        BY <1>1, <4>6, StatIs
      <4>8. DirTool!Dangling(p)
        BY <4>4, <4>7, DirsTree DEF DirTool!Dangling
      <4>9. DirFinished(dirFs, p)'
        BY <1>6, <2>3, <4>8
      <4> QED
        BY <1>1, <1>2, <1>3, <1>10, <2>1, <2>2, <2>3, <4>9, DirGoesOn
    <3> QED
      BY <3>1, <3>2, <3>3
  <2>4. CASE DirTool!Done(-1)
    <3>1. -1 # 0
      OBVIOUS
    <3> QED
      BY <1>1, <1>3, <1>10, <2>1, <2>2, <2>4, <3>1, DirDoneStep
  <2> QED
    BY <1>1, <1>2, <1>9, <2>3, <2>4, DirsTree DEF DirTool!Mkdir
<1> QED
  BY <1>1, <1>2, <1>9, <1>10, DirsTree DEF DirTool!Mkdir

\* rmdir: removed, or not.
LEMMA DirRemoveStep ==
  ASSUME DirTool!Assumptions, DirInv, DirTool!RemoveOne
  PROVE  DirInv'
<1>1. /\ dirPc = "rmdir" /\ DirTool!Rmdirs /\ dirStart' = dirStart /\ dirCall' = dirCall /\ dirOpts' = dirOpts
      /\ Whole(dirFs) /\ Whole(dirStart) /\ DirTaken(dirFs) /\ dirCall \in DirCalls
      /\ dirTodo \in Seq(Pathnames) /\ dirTodo # <<>> /\ dirI \in 1..Len(dirCall.paths)
      /\ \A k \in 1..Len(dirTodo) : dirTodo[k] \in {<<>>, dirCall.paths[dirI]}
  BY DEF DirTool!RemoveOne, DirTool!fixed, DirInv, DirTyping, DirTodo, DirChanges
<1>2. PICK p \in Pathnames : p = Head(dirTodo)
  BY <1>1, HeadTailProperties
<1>3. PICK q : q = dirCall.paths[dirI]
  OBVIOUS
<1>4. p = <<>> \/ p = q
  <2>1. 1 \in 1..Len(dirTodo) /\ Head(dirTodo) = dirTodo[1]
    BY <1>1, EmptySeq
  <2> QED
    BY <1>1, <1>2, <1>3, <2>1
<1>5. DirTool!Rmdirs'
  BY <1>1 DEF DirTool!Rmdirs
<1>6. \A x : DirFinished(dirFs, x) <=> Tree!RealName(dirFs, x) \notin DOMAIN dirFs
  BY <1>1 DEF DirFinished
<1>7. \A x : DirFinished(dirFs, x)' <=> Tree!RealName(dirFs', x) \notin DOMAIN dirFs'
  BY <1>5 DEF DirFinished
<1>8. dirStatus = 0 => \A k \in 1..Len(dirCall.paths) : k < dirI => DirFinished(dirFs, dirCall.paths[k])
  BY DEF DirInv, DirDone
<1>9. \A k \in 1..Len(dirCall.paths) : dirCall.paths[k] \in Pathnames /\ dirCall'.paths[k] = dirCall.paths[k]
  BY <1>1, DirPaths
<1>10. CASE p # <<>> /\ Tree!CanRmdir(dirFs, p) /\ dirFs' = Tree!Rmdir(dirFs, p) /\ DirTool!GoesOn
  <2>1. PICK r : r = Tree!RealName(dirFs, p)
    OBVIOUS
  <2>2. OneLess(dirFs, dirFs', r) /\ Whole(dirFs') /\ Narrower(dirFs, dirFs') /\ Reaches(dirFs, p) /\ DirAt(dirFs, r)
    BY <1>1, <1>10, <2>1, Rmdired
  <2>3. Tree!RealName(dirStart, p) = r
    BY <1>1, <2>1, <2>2, NamesStay DEF DirTaken
  <2>4. Narrower(dirStart, dirFs')
    BY <1>1, <2>2 DEF Narrower, DirTaken
  <2>5. \A x \in DOMAIN dirFs' : x \in DOMAIN dirStart /\ dirFs'[x] = dirStart[x]
    BY <1>1, <2>2 DEF DirTaken, OneLess
  <2>6. \A x \in DOMAIN dirStart \ DOMAIN dirFs' :
          DirAt(dirStart, x) /\ \E k \in 1..Len(dirCall.paths) : Tree!RealName(dirStart, dirCall.paths[k]) = x
    <3>1. DirAt(dirStart, r)
      BY <1>1, <2>2 DEF DirTaken, Narrower
    <3>2. \E k \in 1..Len(dirCall.paths) : Tree!RealName(dirStart, dirCall.paths[k]) = r
      BY <1>1, <1>3, <1>4, <1>10, <2>3
    <3> QED
      BY <1>1, <2>2, <3>1, <3>2 DEF DirTaken, OneLess
  <2>7. DirChanges(dirFs)'
    BY <1>1, <1>5, <2>4, <2>5, <2>6 DEF DirChanges, DirTaken
  <2>8. DOMAIN dirFs' \subseteq DOMAIN dirFs
    BY <2>2 DEF OneLess
  <2>9. dirStatus = 0 => \A k \in 1..Len(dirCall.paths) : k < dirI => DirFinished(dirFs, dirCall.paths[k])'
    BY <1>1, <1>6, <1>7, <1>8, <1>9, <2>2, <2>8, GoneStays
  <2>10. Head(dirTodo) = q => DirFinished(dirFs, q)'
    BY <1>1, <1>2, <1>7, <2>1, <2>2, RemovedIsGone
  <2> QED
    BY <1>1, <1>3, <1>10, <2>2, <2>7, <2>9, <2>10, DirGoesOn
<1>11. CASE dirFs' = dirFs /\ DirTool!Done(-1)
  <2>1. DirChanges(dirFs)'
    BY <1>1, <1>5, <1>11 DEF DirChanges, DirTaken
  <2>2. dirStatus = 0 => \A k \in 1..Len(dirCall.paths) : k < dirI => DirFinished(dirFs, dirCall.paths[k])'
    BY <1>6, <1>7, <1>8, <1>9, <1>11
  <2>3. -1 # 0
    OBVIOUS
  <2> QED
    BY <1>1, <1>3, <1>11, <2>1, <2>2, <2>3, DirDoneStep
<1> QED
  BY <1>1, <1>2, <1>10, <1>11, DirsTree DEF DirTool!RemoveOne

\* The inductive invariant of mkdir and rmdir: the tree is that of the start with
\* directories more, or less those that were given, and what is done is done.
THEOREM DirsInvariant ==
  ASSUME DirTool!Assumptions
  PROVE  DirTool!Spec => []DirInv
<1>1. DirTool!Init => DirInv
  BY DirStarts
<1>2. DirInv /\ [DirTool!Next]_(DirTool!vars) => DirInv'
  <2> SUFFICES ASSUME DirInv, [DirTool!Next]_(DirTool!vars) PROVE DirInv'
    OBVIOUS
  <2>1. CASE UNCHANGED DirTool!vars
    <3>1. DirTyping' /\ DirTodo'
      BY <2>1 DEF DirTool!vars, DirInv, DirTyping, DirTodo, DirTool!Rmdirs
    <3>2. DirChanges(dirFs)'
      BY <2>1 DEF DirTool!vars, DirInv, DirChanges, DirTaken, DirMade, DirTool!Rmdirs
    <3>3. DirDone'
      BY <2>1 DEF DirTool!vars, DirInv, DirDone, DirFinished, DirTool!Dangling, DirTool!Rmdirs
    <3> QED
      BY <3>1, <3>2, <3>3 DEF DirInv
  <2> QED
    BY <2>1, DirMainStep, DirTakeStep, DirMkdirStep, DirRemoveStep DEF DirTool!Next
<1> QED
  BY <1>1, <1>2, PTL DEF DirTool!Spec

\* mkdir removes and alters nothing, and what it makes are directories; rmdir
\* takes only directories that it was given, and makes nothing.
THEOREM DirsKeepOthers ==
  ASSUME DirTool!Assumptions
  PROVE  DirTool!Spec => []DirTool!OthersKept
<1>1. DirInv => DirTool!OthersKept
  <2> SUFFICES ASSUME DirInv, NEW p \in DOMAIN dirStart \cup DOMAIN dirFs
               PROVE  \/ Tree!NamedAt(dirFs, p) = Tree!NamedAt(dirStart, p)
                      \/ ~DirTool!Rmdirs /\ p \notin DOMAIN dirStart /\ dirFs[p].kind = "dir"
                      \/ /\ DirTool!Rmdirs /\ p \notin DOMAIN dirFs /\ dirStart[p].kind = "dir"
                         /\ \E q \in DirTool!Paths : Tree!RealName(dirStart, q) = p
    BY DirsTree DEF DirTool!OthersKept
  <2>1. CASE DirTool!Rmdirs
    <3>1. DirTaken(dirFs)
      BY <2>1 DEF DirInv, DirChanges
    <3>2. p \in DOMAIN dirFs => Tree!NamedAt(dirFs, p) = Tree!NamedAt(dirStart, p)
      BY <3>1 DEF DirTaken, Tree!NamedAt
    <3>3. p \notin DOMAIN dirFs => dirStart[p].kind = "dir" /\ \E q \in DirTool!Paths : Tree!RealName(dirStart, q) = p
      BY <3>1 DEF DirTaken, DirAt, DirTool!Paths
    <3> QED
      BY <2>1, <3>2, <3>3
  <2>2. CASE ~DirTool!Rmdirs
    BY <2>2 DEF DirInv, DirChanges, DirMade, DirAt, Tree!NamedAt
  <2> QED
    BY <2>1, <2>2
<1> QED
  BY <1>1, DirsInvariant, PTL

\* Exit status 0 means that every path given is a directory now, or none any
\* more, unless mkdir -p came upon a link that leads nowhere.
THEOREM DirsZeroMeansDone ==
  ASSUME DirTool!Assumptions
  PROVE  DirTool!Spec => []DirTool!ZeroMeansDone
<1>1. DirInv => DirTool!ZeroMeansDone
  <2> SUFFICES ASSUME DirInv, dirPc = "exited", dirStatus = 0, NEW p \in DirTool!Paths
               PROVE  IF DirTool!Rmdirs THEN Tree!Lstat(dirFs, p).kind = "none"
                      ELSE \/ Tree!Stat(dirFs, p).kind = "dir"
                           \/ "p" \in dirOpts /\ \E q \in 1..Len(p) : DirTool!Dangling(SubSeq(p, 1, q))
    BY DirsTree DEF DirTool!ZeroMeansDone, DirTool!IsDir
  <2>1. PICK k \in 1..Len(dirCall.paths) : p = dirCall.paths[k]
    BY DEF DirTool!Paths
  <2>2. DirFinished(dirFs, p) /\ Whole(dirFs) /\ Whole(dirStart) /\ p \in Pathnames
    BY <2>1, DirPaths DEF DirInv, DirDone, DirTyping
  <2>3. CASE DirTool!Rmdirs
    BY <2>2, <2>3, Looked DEF DirFinished, Tree!Lstat
  <2>4. CASE ~DirTool!Rmdirs
    <3>1. DirAt(dirFs, Tree!Real(dirFs, p)) => Tree!Stat(dirFs, p).kind = "dir"
      BY <2>2, StatIs
    <3>2. ASSUME DirTool!Dangling(p) PROVE \E q \in 1..Len(p) : DirTool!Dangling(SubSeq(p, 1, q))
      <4>1. Tree!Lstat(dirStart, p).kind = "link"
        BY <3>2, DirsTree DEF DirTool!Dangling
      <4>2. p # <<>>
        BY <2>2, <4>1, Looked, RealNameIs DEF Tree!Lstat, Whole, DirAt, IsLink
      <4>3. Len(p) \in 1..Len(p) /\ SubSeq(p, 1, Len(p)) = p
        BY <2>2, <4>2, PathFacts, EmptySeq DEF Pathnames
      <4> QED
        BY <3>2, <4>3
    <3> QED
      BY <2>2, <2>4, <3>1, <3>2 DEF DirFinished
  <2> QED
    BY <2>3, <2>4
<1> QED
  BY <1>1, DirsInvariant, PTL

-----------------------------------------------------------------------------
(* rm                                                                      *)

CONSTANTS RmTrees, RmCalls, RmDepth, RmFaults, RmMeddlings, RmDevice(_)
VARIABLES rmFs, rmStart, rmCall, rmOpts, rmI, rmPc, rmCur, rmStack, rmStatus, rmFaults, rmOthers, rmHurt
Rm == INSTANCE Rm WITH Trees <- RmTrees, Calls <- RmCalls, Depth <- RmDepth, Faults <- RmFaults, Meddlings <- RmMeddlings,
  Device <- RmDevice, fs <- rmFs, start <- rmStart, call <- rmCall, opts <- rmOpts, i <- rmI, pc <- rmPc, cur <- rmCur,
  stack <- rmStack, status <- rmStatus, faults <- rmFaults, others <- rmOthers, hurt <- rmHurt

\* The files of rm are those of the tree.
LEMMA RmTree ==
  /\ \A f, p : Rm!NamedAt(f, p) = Tree!NamedAt(f, p)
  /\ \A f, p : Rm!RealName(f, p) = Tree!RealName(f, p)
  /\ \A f, p : Rm!Real(f, p) = Tree!Real(f, p)
  /\ \A f, p : Rm!Lstat(f, p) = Tree!Lstat(f, p)
  /\ \A f, p : Rm!CanUnlink(f, p) <=> Tree!CanUnlink(f, p)
  /\ \A f, p : Rm!Unlink(f, p) = Tree!Unlink(f, p)
  /\ \A f, p : Rm!CanRmdir(f, p) <=> Tree!CanRmdir(f, p)
  /\ \A f, p : Rm!Rmdir(f, p) = Tree!Rmdir(f, p)
  /\ \A f, p, d : Rm!CanCreate(f, p, d) <=> Tree!CanCreate(f, p, d)
  /\ \A f, p, kind, of, mode : Rm!Create(f, p, kind, of, mode) = Tree!Create(f, p, kind, of, mode)
  /\ \A f, d : Rm!Entries(f, d) = Tree!Entries(f, d)
  /\ \A p, q : Rm!Below(p, q) <=> Tree!Below(p, q)
  /\ \A f : Rm!IsTree(f) <=> Tree!IsTree(f)
<1>1. \A f, p : Rm!NamedAt(f, p) = Tree!NamedAt(f, p)
  BY DEF Rm!NamedAt, Tree!NamedAt, Rm!Missing, Tree!Missing
<1>2. \A f, p : Rm!LinksIn(f, p) = Tree!LinksIn(f, p)
  BY <1>1 DEF Rm!LinksIn, Tree!LinksIn
<1>3. \A S : Rm!Min(S) = Tree!Min(S)
  BY DEF Rm!Min, Tree!Min
<1>4. \A f, p : Rm!OneLink(f, p) = Tree!OneLink(f, p)
  BY <1>2, <1>3 DEF Rm!OneLink, Tree!OneLink
<1>5. \A f, p : Rm!Real(f, p) = Tree!Real(f, p)
  BY <1>4 DEF Rm!Real, Tree!Real
<1>6. (\A p : Rm!Front(p) = Tree!Front(p)) /\ \A p : Rm!Last(p) = Tree!Last(p)
  BY DEF Rm!Front, Tree!Front, Rm!Last, Tree!Last
<1>7. \A f, p : Rm!RealName(f, p) = Tree!RealName(f, p)
  BY <1>5, <1>6 DEF Rm!RealName, Tree!RealName
<1>8. \A f, p : Rm!Lstat(f, p) = Tree!Lstat(f, p)
  BY <1>1, <1>7 DEF Rm!Lstat, Tree!Lstat
<1>9. \A f, d : Rm!Entries(f, d) = Tree!Entries(f, d)
  BY <1>6 DEF Rm!Entries, Tree!Entries
<1>10. \A f, p : Rm!CanRmdir(f, p) <=> Tree!CanRmdir(f, p)
  BY <1>7, <1>8, <1>9 DEF Rm!CanRmdir, Tree!CanRmdir
<1>11. \A f, p : Rm!Unlink(f, p) = Tree!Unlink(f, p)
  BY <1>7 DEF Rm!Unlink, Tree!Unlink, Rm!Without, Tree!Without
<1>12. \A f, p : Rm!Rmdir(f, p) = Tree!Rmdir(f, p)
  BY <1>11 DEF Rm!Rmdir, Tree!Rmdir
<1>13. \A f, p : Rm!CanUnlink(f, p) <=> Tree!CanUnlink(f, p)
  BY <1>8 DEF Rm!CanUnlink, Tree!CanUnlink, Rm!Kinds, Tree!Kinds
<1>14. \A f, p, d : Rm!CanCreate(f, p, d) <=> Tree!CanCreate(f, p, d)
  BY <1>1, <1>6, <1>7 DEF Rm!CanCreate, Tree!CanCreate
<1>15. \A f : Rm!Fresh(f) = Tree!Fresh(f)
  BY DEF Rm!Fresh, Tree!Fresh, Rm!Max, Tree!Max
<1>16. \A f, p, kind, of, mode : Rm!Create(f, p, kind, of, mode) = Tree!Create(f, p, kind, of, mode)
  BY <1>7, <1>15 DEF Rm!Create, Tree!Create, Rm!Put, Tree!Put
<1>17. \A p, q : Rm!Below(p, q) <=> Tree!Below(p, q)
  BY DEF Rm!Below, Tree!Below, Rm!IsPrefix, Tree!IsPrefix
<1>18. \A f : Rm!IsTree(f) <=> Tree!IsTree(f)
  BY <1>6 DEF Rm!IsTree, Tree!IsTree, Rm!Missing, Tree!Missing, Rm!Kinds, Tree!Kinds
<1> QED
  BY <1>1, <1>5, <1>7, <1>8, <1>9, <1>10, <1>11, <1>12, <1>13, <1>14, <1>16, <1>17, <1>18

\* A path is below itself, and what is in it is below what it is below.
LEMMA BelowFacts ==
  ASSUME NEW p \in Pathnames
  PROVE  /\ Tree!Below(p, p)
         /\ \A t \in Pathnames, n \in FileNames : Tree!Below(p, t) => Tree!Below(Append(p, n), t)
<1>1. Tree!Below(p, p)
  BY PathFacts DEF Tree!Below, Tree!IsPrefix
<1>2. ASSUME NEW t \in Pathnames, NEW n \in FileNames, Tree!Below(p, t)
      PROVE  Tree!Below(Append(p, n), t)
  <2>1. Len(t) <= Len(p) /\ SubSeq(t, 1, Len(t)) = SubSeq(p, 1, Len(t))
    BY <1>2 DEF Tree!Below, Tree!IsPrefix
  <2>2. Len(t) \in Nat /\ Len(p) \in Nat
    BY PathFacts
  <2>3. Len(t) \in 0..Len(p) /\ Len(t) <= Len(p) + 1
    BY <2>1, <2>2
  <2>4. SubSeq(Append(p, n), 1, Len(t)) = SubSeq(p, 1, Len(t)) /\ Len(Append(p, n)) = Len(p) + 1
    BY <2>3, PathGrows
  <2> QED
    BY <2>1, <2>3, <2>4 DEF Tree!Below, Tree!IsPrefix
<1> QED
  BY <1>1, <1>2

\* The inductive invariant of rm.
RmFrames == [path : Pathnames, dir : Pathnames, seen : SUBSET FileNames, due : SUBSET FileNames, ret : {0, -1}]
RmTop == Tree!RealName(rmStart, rmCall.srcs[rmI])
\* p is at or below top, and if it is a directory's path it leads there without a link.
RmAt(f, p, top) == p \in Pathnames /\ (Reaches(f, p) => Tree!Below(Tree!RealName(f, p), top))
RmDirAt(f, p, top) == RmAt(f, p, top) /\ ~IsLink(f, Tree!RealName(f, p))
RmWorks == {"entry", "unlink", "rmdir", "descend"}
RmTyping ==
  /\ rmCall \in RmCalls /\ Whole(rmFs) /\ Whole(rmStart) /\ Narrower(rmStart, rmFs)
  /\ rmPc \in {"parse", "file", "readdir", "exited"} \cup RmWorks
  /\ rmPc \notin {"parse", "exited"} => rmI \in 1..Len(rmCall.srcs)
  /\ rmPc = "parse" => rmI = 1
  /\ rmStack \in Seq(RmFrames)
RmPlaces ==
  /\ rmPc \in {"parse", "file", "exited"} => rmStack = <<>>
  /\ rmPc = "readdir" => rmStack # <<>>
  /\ rmPc \in RmWorks => RmAt(rmFs, rmCur, RmTop) /\ (rmStack = <<>> => rmCur = rmCall.srcs[rmI])
  /\ rmPc = "descend" => RmDirAt(rmFs, rmCur, RmTop)
  /\ \A k \in 1..Len(rmStack) : RmDirAt(rmFs, rmStack[k].path, RmTop)
  /\ rmStack # <<>> => rmStack[1].path = rmCall.srcs[rmI]
RmGiven(p) == \E k \in 1..Len(rmCall.srcs) : Tree!Below(p, Tree!RealName(rmStart, rmCall.srcs[k]))
RmLost ==
  \A p \in DOMAIN rmStart : RmGiven(p) \/ (p \in DOMAIN rmFs /\ rmFs[p] = rmStart[p]) \/ rmHurt \cap {"gone", "gonedir"} # {}
RmGone ==
  rmStatus = 0 /\ "no" \notin rmHurt /\ "made" \notin rmHurt =>
    \A k \in 1..Len(rmCall.srcs) : k < rmI \/ rmPc = "exited" => Tree!RealName(rmFs, rmCall.srcs[k]) \notin DOMAIN rmFs
RmInv == RmTyping /\ RmPlaces /\ RmLost /\ RmGone

\* The paths of a call.
LEMMA RmPaths ==
  ASSUME Rm!Assumptions, rmCall \in RmCalls
  PROVE  /\ rmCall.srcs \in Seq(Pathnames) /\ Len(rmCall.srcs) \in Nat
         /\ \A k \in 1..Len(rmCall.srcs) : rmCall.srcs[k] \in Pathnames
<1>1. rmCall.srcs \in Seq(Pathnames)
  BY PathsAreStrings DEF Rm!Assumptions
<1> QED
  BY <1>1, ElementOfSeq

\* rm starts with the invariant.
LEMMA RmStarts ==
  ASSUME Rm!Assumptions, Rm!Init
  PROVE  RmInv
<1>1. rmFs \in RmTrees /\ rmStart = rmFs /\ rmCall \in RmCalls /\ rmI = 1 /\ rmPc = "parse" /\ rmStack = <<>>
  BY DEF Rm!Init
<1>2. Whole(rmFs)
  BY <1>1, RmTree, WholeTree DEF Rm!Assumptions
<1>3. RmTyping
  BY <1>1, <1>2, EmptySeq DEF RmTyping, Narrower
<1>4. RmPlaces
  <2>1. 1..Len(rmStack) = {}
    BY <1>1, EmptySeq
  <2> QED
    BY <1>1, <2>1 DEF RmPlaces, RmWorks
<1>5. RmLost
  BY <1>1 DEF RmLost
<1>6. RmGone
  <2>1. \A k \in 1..Len(rmCall.srcs) : ~(k < 1)
    BY <1>1, RmPaths
  <2> QED
    BY <1>1, <2>1 DEF RmGone
<1> QED
  BY <1>3, <1>4, <1>5, <1>6 DEF RmInv

\* What is below the name that is removed stays there in a narrower tree.
LEMMA RmAtStays ==
  ASSUME NEW f, NEW g, Whole(f), Whole(g), Narrower(f, g), NEW p, NEW top
  PROVE  /\ RmAt(f, p, top) => RmAt(g, p, top)
         /\ RmDirAt(f, p, top) => RmDirAt(g, p, top)
<1>1. ASSUME RmAt(f, p, top) PROVE RmAt(g, p, top)
  BY <1>1, NamesStay DEF RmAt
<1>2. ASSUME p \in Pathnames, IsLink(g, Tree!RealName(g, p)) PROVE IsLink(f, Tree!RealName(f, p))
  <2>1. Reaches(g, p)
    BY <1>2, ThereIsReached DEF IsLink
  <2> QED
    BY <1>2, <2>1, NamesStay DEF Narrower
<1> QED
  BY <1>1, <1>2 DEF RmDirAt, RmAt

\* What a step does to the files, whoever takes it.
RmKeeps ==
  /\ rmStart' = rmStart /\ rmCall' = rmCall /\ Whole(rmFs') /\ Narrower(rmFs, rmFs')
  /\ "made" \notin rmHurt' => DOMAIN rmFs' \subseteq DOMAIN rmFs
  /\ rmHurt \subseteq rmHurt'

\* What of the invariant such a step keeps by itself.
LEMMA RmKept ==
  ASSUME Rm!Assumptions, RmInv, RmKeeps
  PROVE  /\ rmCall' \in RmCalls /\ Whole(rmFs') /\ Whole(rmStart') /\ Narrower(rmStart', rmFs')
         /\ \A p, top : (RmAt(rmFs, p, top) => RmAt(rmFs', p, top)) /\ (RmDirAt(rmFs, p, top) => RmDirAt(rmFs', p, top))
         /\ "made" \notin rmHurt' => \A k \in 1..Len(rmCall.srcs) :
              Tree!RealName(rmFs, rmCall.srcs[k]) \notin DOMAIN rmFs => Tree!RealName(rmFs', rmCall.srcs[k]) \notin DOMAIN rmFs'
<1>1. /\ rmCall \in RmCalls /\ Whole(rmFs) /\ Whole(rmStart) /\ Narrower(rmStart, rmFs)
      /\ Whole(rmFs') /\ Narrower(rmFs, rmFs') /\ rmStart' = rmStart /\ rmCall' = rmCall
  BY DEF RmInv, RmTyping, RmKeeps
<1>2. Narrower(rmStart, rmFs')
  BY <1>1 DEF Narrower
<1>3. \A p, top : (RmAt(rmFs, p, top) => RmAt(rmFs', p, top)) /\ (RmDirAt(rmFs, p, top) => RmDirAt(rmFs', p, top))
  BY <1>1, RmAtStays
<1>4. ASSUME "made" \notin rmHurt', NEW k \in 1..Len(rmCall.srcs), Tree!RealName(rmFs, rmCall.srcs[k]) \notin DOMAIN rmFs
      PROVE  Tree!RealName(rmFs', rmCall.srcs[k]) \notin DOMAIN rmFs'
  BY <1>1, <1>4, RmPaths, GoneStays DEF RmKeeps
<1> QED
  BY <1>1, <1>2, <1>3, <1>4

\* A step that leaves the files alone.
LEMMA RmIdle ==
  ASSUME RmInv, rmFs' = rmFs, rmStart' = rmStart, rmCall' = rmCall, rmHurt \subseteq rmHurt'
  PROVE  RmKeeps /\ RmLost'
<1>1. RmKeeps
  BY DEF RmKeeps, RmInv, RmTyping, Narrower
<1>2. RmLost'
  BY DEF RmInv, RmLost, RmGiven
<1> QED
  BY <1>1, <1>2

\* A step that removes what is at or below the name given.
LEMMA RmTakesIt ==
  ASSUME Rm!Assumptions, RmInv, rmI \in 1..Len(rmCall.srcs), NEW p, RmAt(rmFs, p, RmTop),
         \/ Tree!CanUnlink(rmFs, p) /\ rmFs' = Tree!Unlink(rmFs, p)
         \/ Tree!CanRmdir(rmFs, p) /\ rmFs' = Tree!Rmdir(rmFs, p),
         rmStart' = rmStart, rmCall' = rmCall, rmHurt' = rmHurt
  PROVE  /\ RmKeeps /\ RmLost' /\ Tree!RealName(rmFs', p) \notin DOMAIN rmFs'
         /\ \A x \in DOMAIN rmFs : RmGiven(x) \/ (x \in DOMAIN rmFs' /\ rmFs'[x] = rmFs[x])
<1>1. Whole(rmFs) /\ p \in Pathnames
  BY DEF RmInv, RmTyping, RmAt
<1>2. OneLess(rmFs, rmFs', Tree!RealName(rmFs, p)) /\ Whole(rmFs') /\ Narrower(rmFs, rmFs') /\ Reaches(rmFs, p)
  BY <1>1, Unlinked, Rmdired
<1>3. PICK r : r = Tree!RealName(rmFs, p)
  OBVIOUS
<1>4. RmGiven(r)
  BY <1>2, <1>3 DEF RmAt, RmGiven, RmTop
<1>5. \A x \in DOMAIN rmFs : RmGiven(x) \/ (x \in DOMAIN rmFs' /\ rmFs'[x] = rmFs[x])
  BY <1>2, <1>3, <1>4 DEF OneLess
<1>6. RmKeeps
  BY <1>2 DEF RmKeeps, OneLess
<1>7. \A x : RmGiven(x)' <=> RmGiven(x)
  BY DEF RmGiven
<1>8. RmLost'
  BY <1>5, <1>7 DEF RmInv, RmLost
<1> QED
  BY <1>1, <1>2, <1>5, <1>6, <1>8, RemovedIsGone

\* remove_entry returns.  At the top the name is gone, or the status is 1.
LEMMA RmReturns ==
  ASSUME Rm!Assumptions, RmInv, rmPc \notin {"parse", "exited"}, RmKeeps, RmLost',
         NEW frames \in Seq(RmFrames), Len(frames) <= Len(rmStack), \A k \in 1..Len(frames) : frames[k] = rmStack[k],
         NEW p, p = rmCall.srcs[rmI], NEW ret, NEW warned \in BOOLEAN,
         frames = <<>> /\ ret = 0 /\ ~warned /\ "no" \notin rmHurt' /\ "made" \notin rmHurt' =>
           Tree!RealName(rmFs', p) \notin DOMAIN rmFs',
         Rm!ReturnTo(frames, ret, warned)
  PROVE  RmInv'
<1>1. /\ rmStatus' = (IF warned \/ (frames = <<>> /\ ret # 0) THEN 1 ELSE rmStatus)
      /\ IF frames = <<>>
           THEN /\ rmStack' = <<>>
                /\ IF rmI < Len(rmCall.srcs) THEN rmI' = rmI + 1 /\ rmPc' = "file" ELSE rmI' = rmI /\ rmPc' = "exited"
           ELSE /\ rmStack' = Append(Rm!Front(frames), [Rm!Last(frames) EXCEPT !.ret = IF ret = 0 THEN @ ELSE -1])
                /\ rmPc' = "readdir" /\ rmI' = rmI
  BY DEF Rm!ReturnTo
<1>2. /\ rmCall \in RmCalls /\ rmI \in 1..Len(rmCall.srcs) /\ rmStart' = rmStart /\ rmCall' = rmCall
      /\ Len(rmCall.srcs) \in Nat
  BY RmPaths DEF RmInv, RmTyping, RmKeeps
<1>3. CASE frames = <<>>
  <2>1. /\ rmStack' = <<>> /\ rmPc' \in {"file", "exited"}
        /\ IF rmI < Len(rmCall.srcs) THEN rmI' = rmI + 1 /\ rmPc' = "file" ELSE rmI' = rmI /\ rmPc' = "exited"
    BY <1>1, <1>3
  <2>2. rmPc' = "file" => rmI' \in 1..Len(rmCall.srcs)
    <3>1. rmI < Len(rmCall.srcs) => rmI + 1 \in 1..Len(rmCall.srcs)
      BY <1>2
    <3> QED
      BY <2>1, <3>1
  <2>3. RmTyping'
    <3>1. rmStack' \in Seq(RmFrames)
      BY <2>1, EmptySeq
    <3> QED
      BY <1>2, <2>1, <2>2, <3>1, RmKept DEF RmTyping
  <2>4. RmPlaces'
    <3>1. 1..Len(rmStack') = {}
      BY <2>1, EmptySeq
    <3> QED
      BY <2>1, <3>1 DEF RmPlaces, RmWorks
  <2>5. RmGone'
    <3> SUFFICES ASSUME rmStatus' = 0, "no" \notin rmHurt', "made" \notin rmHurt',
                        NEW k \in 1..Len(rmCall.srcs), k < rmI' \/ rmPc' = "exited"
                 PROVE  Tree!RealName(rmFs', rmCall.srcs[k]) \notin DOMAIN rmFs'
      BY <1>2 DEF RmGone
    <3>1. rmStatus = 0 /\ ret = 0 /\ ~warned /\ "no" \notin rmHurt /\ "made" \notin rmHurt
      BY <1>1, <1>3 DEF RmKeeps
    <3>2. k < rmI \/ k = rmI
      <4>1. CASE rmI < Len(rmCall.srcs)
        <5>1. k < rmI + 1
          BY <2>1, <4>1
        <5> QED
          BY <1>2, <5>1
      <4>2. CASE ~(rmI < Len(rmCall.srcs))
        BY <1>2, <4>2
      <4> QED
        BY <4>1, <4>2
    <3>3. CASE k < rmI
      <4>1. Tree!RealName(rmFs, rmCall.srcs[k]) \notin DOMAIN rmFs
        BY <3>1, <3>3 DEF RmInv, RmGone
      <4> QED
        BY <4>1, RmKept
    <3>4. CASE k = rmI
      BY <1>3, <3>1, <3>4
    <3> QED
      BY <3>2, <3>3, <3>4
  <2> QED
    BY <2>3, <2>4, <2>5 DEF RmInv
<1>4. CASE frames # <<>>
  <2>1. /\ rmPc' = "readdir" /\ rmI' = rmI /\ (rmStatus' = 0 => rmStatus = 0)
        /\ rmStack' = Append(Rm!Front(frames), [Rm!Last(frames) EXCEPT !.ret = IF ret = 0 THEN @ ELSE -1])
    BY <1>1, <1>4
  <2>2. PICK n \in Nat : n = Len(frames) /\ n # 0
    BY <1>4, EmptySeq
  <2>3. PICK x : x = Rm!Last(frames)
    OBVIOUS
  <2>4. x = frames[n] /\ x \in RmFrames
    BY <2>2, <2>3, ElementOfSeq DEF Rm!Last
  <2>5. PICK y : y = [x EXCEPT !.ret = IF ret = 0 THEN @ ELSE -1]
    OBVIOUS
  <2>6. y \in RmFrames /\ y.path = x.path
    BY <2>4, <2>5 DEF RmFrames
  <2>7. PICK s : s = Rm!Front(frames)
    OBVIOUS
  <2>8. s \in Seq(RmFrames) /\ Len(s) = n - 1 /\ \A k \in 1..(n - 1) : s[k] = frames[k]
    <3>1. 1 \in 1..(Len(frames) + 1) /\ n - 1 \in (1 - 1)..Len(frames) /\ n - 1 - 1 + 1 = n - 1 /\ \A k \in 1..(n - 1) : 1 + k - 1 = k
      BY <2>2
    <3> QED
      BY <2>2, <2>7, <3>1, PartFacts DEF Rm!Front
  <2>9. rmStack' = Append(s, y)
    BY <2>1, <2>3, <2>5, <2>7
  <2>10. /\ rmStack' \in Seq(RmFrames) /\ Len(rmStack') = n
         /\ \A k \in 1..(n - 1) : rmStack'[k] = s[k]
         /\ rmStack'[n] = y
    <3>1. /\ Append(s, y) \in Seq(RmFrames) /\ Len(Append(s, y)) = Len(s) + 1
          /\ \A k \in 1..Len(s) : Append(s, y)[k] = s[k]
          /\ Append(s, y)[Len(s) + 1] = y
      BY <2>6, <2>8, AppendProperties
    <3>2. Len(s) + 1 = n
      BY <2>2, <2>8
    <3> QED
      BY <2>8, <2>9, <3>1, <3>2
  <2>11. \A k \in 1..n : rmStack'[k].path = rmStack[k].path /\ k \in 1..Len(rmStack)
    <3>1. \A k \in 1..n : k \in 1..(n - 1) \/ k = n
      BY <2>2
    <3>2. Len(rmStack) \in Nat
      BY DEF RmInv, RmTyping
    <3>3. \A k \in 1..n : k \in 1..Len(rmStack)
      BY <2>2, <3>2
    <3> QED
      BY <2>2, <2>4, <2>6, <2>8, <2>10, <3>1, <3>3
  <2>12. rmStack # <<>> /\ rmStack' # <<>> /\ rmStack'[1].path = rmStack[1].path
    <3>1. 1 \in 1..n
      BY <2>2
    <3>2. 1 \in 1..Len(rmStack)
      BY <2>11, <3>1
    <3> QED
      BY <2>2, <2>10, <2>11, <3>1, <3>2, EmptySeq
  <2>13. RmTyping'
    BY <1>2, <2>1, <2>10, RmKept DEF RmTyping
  <2>14. RmPlaces'
    <3>1. \A k \in 1..Len(rmStack') : RmDirAt(rmFs', rmStack'[k].path, RmTop')
      <4>1. RmTop' = RmTop
        BY <1>2, <2>1 DEF RmTop
      <4> QED
        BY <2>10, <2>11, <4>1, RmKept DEF RmInv, RmPlaces
    <3>2. rmStack'[1].path = rmCall'.srcs[rmI']
      BY <1>2, <2>1, <2>12 DEF RmInv, RmPlaces
    <3> QED
      BY <2>1, <2>12, <3>1, <3>2 DEF RmPlaces, RmWorks
  <2>15. RmGone'
    <3> SUFFICES ASSUME rmStatus' = 0, "no" \notin rmHurt', "made" \notin rmHurt', NEW k \in 1..Len(rmCall.srcs), k < rmI
                 PROVE  Tree!RealName(rmFs', rmCall.srcs[k]) \notin DOMAIN rmFs'
      BY <1>2, <2>1 DEF RmGone
    <3>1. rmStatus = 0 /\ "no" \notin rmHurt /\ "made" \notin rmHurt
      BY <2>1 DEF RmKeeps
    <3>2. Tree!RealName(rmFs, rmCall.srcs[k]) \notin DOMAIN rmFs
      BY <3>1 DEF RmInv, RmGone
    <3> QED
      BY <3>2, RmKept
  <2> QED
    BY <2>13, <2>14, <2>15 DEF RmInv
<1> QED
  BY <1>3, <1>4

\* A step within remove_entry.
LEMMA RmGoes ==
  ASSUME Rm!Assumptions, RmInv, rmPc \in {"file"} \cup RmWorks, RmKeeps, RmLost', NEW to \in RmWorks, Rm!Goes(to),
         RmAt(rmFs', rmCur', RmTop), to = "descend" => RmDirAt(rmFs', rmCur', RmTop),
         rmStack = <<>> => rmCur' = rmCall.srcs[rmI]
  PROVE  RmInv'
<1>1. /\ rmPc' = to /\ rmI' = rmI /\ rmStack' = rmStack /\ rmStatus' = rmStatus /\ rmCall' = rmCall /\ rmStart' = rmStart
      /\ rmI \in 1..Len(rmCall.srcs) /\ rmStack \in Seq(RmFrames)
  BY DEF Rm!Goes, RmInv, RmTyping, RmKeeps, RmWorks
<1>2. RmTop' = RmTop
  BY <1>1 DEF RmTop
<1>3. RmTyping'
  BY <1>1, RmKept DEF RmTyping, RmWorks
<1>4. RmPlaces'
  BY <1>1, <1>2, RmKept DEF RmInv, RmPlaces, RmWorks
<1>5. RmGone'
  <2> SUFFICES ASSUME rmStatus = 0, "no" \notin rmHurt', "made" \notin rmHurt', NEW k \in 1..Len(rmCall.srcs), k < rmI
               PROVE  Tree!RealName(rmFs', rmCall.srcs[k]) \notin DOMAIN rmFs'
    BY <1>1 DEF RmGone, RmWorks
  <2>1. "no" \notin rmHurt /\ "made" \notin rmHurt
    BY DEF RmKeeps
  <2>2. Tree!RealName(rmFs, rmCall.srcs[k]) \notin DOMAIN rmFs
    BY <2>1 DEF RmInv, RmGone
  <2> QED
    BY <2>2, RmKept
<1> QED
  BY <1>3, <1>4, <1>5 DEF RmInv

\* All of the stack may be returned to.
LEMMA RmWholeStack ==
  ASSUME RmInv
  PROVE  /\ rmStack \in Seq(RmFrames) /\ Len(rmStack) <= Len(rmStack) /\ Len(rmStack) \in Nat
         /\ \A k \in 1..Len(rmStack) : rmStack[k] = rmStack[k] /\ rmStack[k] \in RmFrames
<1>1. rmStack \in Seq(RmFrames)
  BY DEF RmInv, RmTyping
<1> QED
  BY <1>1, ElementOfSeq

\* The options are read.
LEMMA RmMainStep ==
  ASSUME Rm!Assumptions, RmInv, Rm!Main
  PROVE  RmInv' /\ rmFs' = rmFs
<1>1. /\ rmPc = "parse" /\ rmFs' = rmFs /\ rmStart' = rmStart /\ rmCall' = rmCall /\ rmI' = rmI /\ rmStack' = rmStack
      /\ \/ rmPc' = "exited" /\ rmCall.srcs = <<>> /\ rmHurt' = rmHurt
         \/ rmPc' = "file" /\ rmCall.srcs # <<>> /\ rmHurt' = rmHurt
         \/ rmPc' = "exited" /\ rmHurt' = rmHurt \cup {"no"}
  BY DEF Rm!Main, Rm!Works, Rm!SaysNo
<1>2. rmI = 1 /\ rmStack = <<>> /\ rmCall \in RmCalls /\ Len(rmCall.srcs) \in Nat /\ rmCall.srcs \in Seq(Pathnames)
  BY <1>1, RmPaths DEF RmInv, RmTyping, RmPlaces
<1>3. RmKeeps /\ RmLost'
  BY <1>1, RmIdle
<1>4. rmCall.srcs # <<>> => 1 \in 1..Len(rmCall.srcs)
  BY <1>2, EmptySeq
<1>5. RmTyping'
  BY <1>1, <1>2, <1>3, <1>4, RmKept, EmptySeq DEF RmTyping
<1>6. RmPlaces'
  <2>1. 1..Len(rmStack') = {}
    BY <1>1, <1>2, EmptySeq
  <2> QED
    BY <1>1, <1>2, <2>1 DEF RmPlaces, RmWorks
<1>7. RmGone'
  <2>1. \A k \in 1..Len(rmCall.srcs) : ~(k < 1)
    BY <1>2
  <2>2. rmCall.srcs = <<>> => 1..Len(rmCall.srcs) = {}
    BY EmptySeq
  <2> QED
    BY <1>1, <1>2, <2>1, <2>2 DEF RmGone
<1> QED
  BY <1>1, <1>3, <1>5, <1>6, <1>7 DEF RmInv

\* The next name; the root is not removed.
LEMMA RmTakeStep ==
  ASSUME Rm!Assumptions, RmInv, Rm!TakeFile
  PROVE  RmInv' /\ rmFs' = rmFs
<1>1. /\ rmPc = "file" /\ rmCur' = rmCall.srcs[rmI] /\ rmFs' = rmFs /\ rmStart' = rmStart /\ rmCall' = rmCall /\ rmHurt' = rmHurt
      /\ Rm!Return(0, TRUE) \/ Rm!Goes("entry")
  BY DEF Rm!TakeFile, Rm!Works, Rm!fixed
<1>2. /\ rmI \in 1..Len(rmCall.srcs) /\ rmStack = <<>> /\ rmCall.srcs[rmI] \in Pathnames
      /\ Whole(rmFs) /\ Whole(rmStart) /\ Narrower(rmStart, rmFs)
  BY <1>1, RmPaths DEF RmInv, RmTyping, RmPlaces
<1>3. RmKeeps /\ RmLost'
  BY <1>1, RmIdle
<1>4. CASE Rm!Return(0, TRUE)
  <2>1. Rm!ReturnTo(rmStack, 0, TRUE)
    BY <1>4 DEF Rm!Return
  <2>2. PICK p : p = rmCall.srcs[rmI]
    OBVIOUS
  <2> QED
    BY <1>1, <1>3, <2>1, <2>2, RmWholeStack, RmReturns
<1>5. CASE Rm!Goes("entry")
  <2>1. PICK p \in Pathnames : p = rmCall.srcs[rmI]
    BY <1>2
  <2>2. RmTop \in Pathnames /\ RmTop = Tree!RealName(rmStart, p)
    BY <1>2, <2>1, RealNameIs DEF RmTop
  <2>3. Reaches(rmFs, p) => Tree!RealName(rmFs, p) = RmTop
    BY <1>2, <2>2, NamesStay
  <2>4. RmAt(rmFs', rmCur', RmTop)
    BY <1>1, <2>1, <2>2, <2>3, BelowFacts DEF RmAt
  <2>5. "entry" \in RmWorks /\ "entry" # "descend"
    BY DEF RmWorks
  <2> QED
    BY <1>1, <1>3, <1>5, <2>4, <2>5, RmGoes
<1> QED
  BY <1>1, <1>4, <1>5

\* What the name is that is worked on.
LEMMA RmWorked ==
  ASSUME Rm!Assumptions, RmInv, rmPc \in RmWorks
  PROVE  /\ RmAt(rmFs, rmCur, RmTop) /\ rmCur \in Pathnames /\ Whole(rmFs)
         /\ rmStack = <<>> => rmCur = rmCall.srcs[rmI]
         /\ rmI \in 1..Len(rmCall.srcs) /\ rmPc \notin {"parse", "exited"}
BY DEF RmInv, RmTyping, RmPlaces, RmWorks, RmAt

\* lstat, and what follows from it.
LEMMA RmLookStep ==
  ASSUME Rm!Assumptions, RmInv, Rm!Look
  PROVE  RmInv' /\ rmFs' = rmFs
<1>1. /\ rmPc = "entry" /\ rmCur' = rmCur /\ rmFs' = rmFs /\ rmStart' = rmStart /\ rmCall' = rmCall /\ rmHurt' = rmHurt
      /\ rmPc \in RmWorks
  BY DEF Rm!Look, Rm!Works, Rm!fixed, RmWorks
<1>2. /\ RmAt(rmFs, rmCur, RmTop) /\ rmCur \in Pathnames /\ Whole(rmFs)
      /\ rmStack = <<>> => rmCur = rmCall.srcs[rmI]
      /\ rmI \in 1..Len(rmCall.srcs) /\ rmPc \notin {"parse", "exited"}
  BY <1>1, RmWorked
<1>3. RmKeeps /\ RmLost'
  BY <1>1, RmIdle
<1>4. PICK p : p = rmCall.srcs[rmI]
  OBVIOUS
<1>5. PICK kind : kind = Tree!NamedAt(rmFs, Tree!RealName(rmFs, rmCur)).kind
  OBVIOUS
<1>6. Rm!LookAt(rmCur).kind = kind
  BY <1>5, RmTree DEF Rm!LookAt, Tree!Lstat
<1>7. \/ kind = "none" /\ Rm!Return(0, FALSE)
      \/ \E ret \in {0, -1} : Rm!Return(ret, TRUE)
      \/ kind = "dir" /\ Rm!Goes("descend")
      \/ Rm!Goes("rmdir")
      \/ Rm!Goes("unlink")
  BY <1>6 DEF Rm!Look
<1>8. CASE kind = "none" /\ Rm!Return(0, FALSE)
  <2>1. Tree!RealName(rmFs, rmCur) \notin DOMAIN rmFs
    BY <1>2, <1>5, <1>8, Looked
  <2>2. rmStack = <<>> => Tree!RealName(rmFs', p) \notin DOMAIN rmFs'
    BY <1>1, <1>2, <1>4, <2>1
  <2>3. Rm!ReturnTo(rmStack, 0, FALSE)
    BY <1>8 DEF Rm!Return
  <2> QED
    BY <1>1, <1>2, <1>3, <1>4, <2>2, <2>3, RmWholeStack, RmReturns
<1>9. ASSUME NEW ret \in {0, -1}, Rm!Return(ret, TRUE) PROVE RmInv'
  <2>1. Rm!ReturnTo(rmStack, ret, TRUE)
    BY <1>9 DEF Rm!Return
  <2> QED
    BY <1>2, <1>3, <1>4, <2>1, RmWholeStack, RmReturns
<1>10. CASE kind = "dir" /\ Rm!Goes("descend")
  <2>1. ~IsLink(rmFs, Tree!RealName(rmFs, rmCur))
    <3>1. kind # "link"
      BY <1>10
    <3> QED
      BY <1>5, <3>1, Looked
  <2>2. RmDirAt(rmFs', rmCur', RmTop) /\ RmAt(rmFs', rmCur', RmTop)
    BY <1>1, <1>2, <2>1 DEF RmDirAt
  <2>3. "descend" \in RmWorks
    BY DEF RmWorks
  <2> QED
    BY <1>1, <1>2, <1>3, <1>10, <2>2, <2>3, RmGoes
<1>11. CASE Rm!Goes("rmdir")
  <2>1. "rmdir" \in RmWorks /\ "rmdir" # "descend"
    BY DEF RmWorks
  <2> QED
    BY <1>1, <1>2, <1>3, <1>11, <2>1, RmGoes
<1>12. CASE Rm!Goes("unlink")
  <2>1. "unlink" \in RmWorks /\ "unlink" # "descend"
    BY DEF RmWorks
  <2> QED
    BY <1>1, <1>2, <1>3, <1>12, <2>1, RmGoes
<1> QED
  BY <1>1, <1>7, <1>8, <1>9, <1>10, <1>11, <1>12

\* What a step of rm takes from the tree is what it was given, and it makes nothing.
RmTakesOwn ==
  /\ DOMAIN rmFs' \subseteq DOMAIN rmFs
  /\ \A p \in DOMAIN rmFs : RmGiven(p) \/ (p \in DOMAIN rmFs' /\ rmFs'[p] = rmFs[p])

\* remove_file
LEMMA RmFileStep ==
  ASSUME Rm!Assumptions, RmInv, Rm!RemoveFile
  PROVE  RmInv' /\ RmTakesOwn
<1>1. /\ rmPc = "unlink" /\ rmCur' = rmCur /\ rmStart' = rmStart /\ rmCall' = rmCall /\ rmPc \in RmWorks
  BY DEF Rm!RemoveFile, Rm!fixed, RmWorks
<1>2. /\ RmAt(rmFs, rmCur, RmTop) /\ rmCur \in Pathnames /\ Whole(rmFs)
      /\ rmStack = <<>> => rmCur = rmCall.srcs[rmI]
      /\ rmI \in 1..Len(rmCall.srcs) /\ rmPc \notin {"parse", "exited"}
  BY <1>1, RmWorked
<1>3. PICK p : p = rmCall.srcs[rmI]
  OBVIOUS
<1>4. \/ rmHurt' = rmHurt \cup {"no"} /\ rmFs' = rmFs /\ Rm!ReturnTo(rmStack, 0, FALSE)
      \/ Tree!CanUnlink(rmFs, rmCur) /\ rmHurt' = rmHurt /\ rmFs' = Tree!Unlink(rmFs, rmCur) /\ Rm!ReturnTo(rmStack, 0, FALSE)
      \/ /\ rmHurt \subseteq rmHurt' /\ rmFs' = rmFs
         /\ \/ Tree!NamedAt(rmFs, Tree!RealName(rmFs, rmCur)).kind = "none" /\ Rm!ReturnTo(rmStack, 0, FALSE)
            \/ Rm!ReturnTo(rmStack, -1, TRUE)
  BY RmTree DEF Rm!RemoveFile, Rm!SaysNo, Rm!Works, Rm!Fails, Rm!Return, Rm!NoSuch, Rm!LookAt, Tree!Lstat
<1>5. CASE rmHurt' = rmHurt \cup {"no"} /\ rmFs' = rmFs /\ Rm!ReturnTo(rmStack, 0, FALSE)
  <2>1. RmKeeps /\ RmLost'
    BY <1>1, <1>5, RmIdle
  <2>2. RmInv'
    BY <1>2, <1>3, <1>5, <2>1, RmWholeStack, RmReturns
  <2> QED
    BY <1>5, <2>2 DEF RmTakesOwn
<1>6. CASE Tree!CanUnlink(rmFs, rmCur) /\ rmHurt' = rmHurt /\ rmFs' = Tree!Unlink(rmFs, rmCur) /\ Rm!ReturnTo(rmStack, 0, FALSE)
  <2>1. /\ RmKeeps /\ RmLost' /\ Tree!RealName(rmFs', rmCur) \notin DOMAIN rmFs'
        /\ \A x \in DOMAIN rmFs : RmGiven(x) \/ (x \in DOMAIN rmFs' /\ rmFs'[x] = rmFs[x])
    BY <1>1, <1>2, <1>6, RmTakesIt
  <2>2. OneLess(rmFs, rmFs', Tree!RealName(rmFs, rmCur))
    BY <1>2, <1>6, Unlinked
  <2>3. RmInv'
    BY <1>2, <1>3, <1>6, <2>1, RmWholeStack, RmReturns
  <2> QED
    BY <2>1, <2>2, <2>3 DEF RmTakesOwn, OneLess
<1>7. CASE /\ rmHurt \subseteq rmHurt' /\ rmFs' = rmFs
           /\ Tree!NamedAt(rmFs, Tree!RealName(rmFs, rmCur)).kind = "none" /\ Rm!ReturnTo(rmStack, 0, FALSE)
  <2>1. RmKeeps /\ RmLost'
    BY <1>1, <1>7, RmIdle
  <2>2. Tree!RealName(rmFs', rmCur) \notin DOMAIN rmFs'
    BY <1>2, <1>7, Looked
  <2>3. RmInv'
    BY <1>2, <1>3, <1>7, <2>1, <2>2, RmWholeStack, RmReturns
  <2> QED
    BY <1>7, <2>3 DEF RmTakesOwn
<1>8. CASE rmHurt \subseteq rmHurt' /\ rmFs' = rmFs /\ Rm!ReturnTo(rmStack, -1, TRUE)
  <2>1. RmKeeps /\ RmLost'
    BY <1>1, <1>8, RmIdle
  <2>2. RmInv'
    BY <1>2, <1>3, <1>8, <2>1, RmWholeStack, RmReturns
  <2> QED
    BY <1>8, <2>2 DEF RmTakesOwn
<1> QED
  BY <1>4, <1>5, <1>6, <1>7, <1>8

\* rmdir, at the end of a directory or for -d.
LEMMA RmDirStep ==
  ASSUME Rm!Assumptions, RmInv, rmPc \notin {"parse", "exited"}, rmStart' = rmStart, rmCall' = rmCall,
         NEW p, p = rmCur', RmAt(rmFs, p, RmTop),
         NEW frames \in Seq(RmFrames), Len(frames) <= Len(rmStack), \A k \in 1..Len(frames) : frames[k] = rmStack[k],
         frames = <<>> => p = rmCall.srcs[rmI], NEW ret, Rm!RemoveDir(frames, ret)
  PROVE  RmInv' /\ RmTakesOwn
<1>1. rmI \in 1..Len(rmCall.srcs) /\ p \in Pathnames /\ Whole(rmFs)
  BY DEF RmInv, RmTyping, RmAt
<1>2. PICK q : q = rmCall.srcs[rmI]
  OBVIOUS
<1>3. \/ rmHurt' = rmHurt \cup {"no"} /\ rmFs' = rmFs /\ Rm!ReturnTo(frames, ret, FALSE)
      \/ Tree!CanRmdir(rmFs, p) /\ rmHurt' = rmHurt /\ rmFs' = Tree!Rmdir(rmFs, p) /\ Rm!ReturnTo(frames, ret, FALSE)
      \/ rmHurt \subseteq rmHurt' /\ rmFs' = rmFs /\ Rm!ReturnTo(frames, -1, TRUE)
  BY RmTree DEF Rm!RemoveDir, Rm!SaysNo, Rm!Works, Rm!Fails
<1>4. CASE rmHurt' = rmHurt \cup {"no"} /\ rmFs' = rmFs /\ Rm!ReturnTo(frames, ret, FALSE)
  <2>1. RmKeeps /\ RmLost'
    BY <1>4, RmIdle
  <2>2. RmInv'
    BY <1>2, <1>4, <2>1, RmReturns
  <2> QED
    BY <1>4, <2>2 DEF RmTakesOwn
<1>5. CASE Tree!CanRmdir(rmFs, p) /\ rmHurt' = rmHurt /\ rmFs' = Tree!Rmdir(rmFs, p) /\ Rm!ReturnTo(frames, ret, FALSE)
  <2>1. /\ RmKeeps /\ RmLost' /\ Tree!RealName(rmFs', p) \notin DOMAIN rmFs'
        /\ \A x \in DOMAIN rmFs : RmGiven(x) \/ (x \in DOMAIN rmFs' /\ rmFs'[x] = rmFs[x])
    BY <1>1, <1>5, RmTakesIt
  <2>2. OneLess(rmFs, rmFs', Tree!RealName(rmFs, p))
    BY <1>1, <1>5, Rmdired
  <2>3. RmInv'
    BY <1>2, <1>5, <2>1, RmReturns
  <2> QED
    BY <2>1, <2>2, <2>3 DEF RmTakesOwn, OneLess
<1>6. CASE rmHurt \subseteq rmHurt' /\ rmFs' = rmFs /\ Rm!ReturnTo(frames, -1, TRUE)
  <2>1. RmKeeps /\ RmLost'
    BY <1>6, RmIdle
  <2>2. RmInv'
    BY <1>2, <1>6, <2>1, RmReturns
  <2> QED
    BY <1>6, <2>2 DEF RmTakesOwn
<1> QED
  BY <1>3, <1>4, <1>5, <1>6

\* rmdir for -d.
LEMMA RmEmptyStep ==
  ASSUME Rm!Assumptions, RmInv, Rm!RemoveEmpty
  PROVE  RmInv' /\ RmTakesOwn
<1>1. rmPc = "rmdir" /\ rmCur' = rmCur /\ Rm!RemoveDir(rmStack, 0) /\ rmStart' = rmStart /\ rmCall' = rmCall /\ rmPc \in RmWorks
  BY DEF Rm!RemoveEmpty, Rm!fixed, RmWorks
<1>2. PICK p : p = rmCur'
  OBVIOUS
<1> QED
  BY <1>1, <1>2, RmWorked, RmWholeStack, RmDirStep

\* A directory is opened.
LEMMA RmDescendStep ==
  ASSUME Rm!Assumptions, RmInv, Rm!Descend
  PROVE  RmInv' /\ rmFs' = rmFs
<1>1. /\ rmPc = "descend" /\ rmCur' = rmCur /\ rmFs' = rmFs /\ rmStart' = rmStart /\ rmCall' = rmCall /\ rmPc \in RmWorks
  BY DEF Rm!Descend, Rm!fixed, RmWorks
<1>2. /\ RmAt(rmFs, rmCur, RmTop) /\ rmCur \in Pathnames /\ Whole(rmFs) /\ RmDirAt(rmFs, rmCur, RmTop)
      /\ rmStack = <<>> => rmCur = rmCall.srcs[rmI]
      /\ rmI \in 1..Len(rmCall.srcs) /\ rmPc \notin {"parse", "exited"}
  BY <1>1, RmWorked DEF RmInv, RmPlaces
<1>3. PICK p : p = rmCall.srcs[rmI]
  OBVIOUS
<1>4. \/ rmHurt' = rmHurt \cup {"no"} /\ Rm!ReturnTo(rmStack, 0, FALSE)
      \/ /\ rmHurt' = rmHurt
         /\ rmStack' = Append(rmStack, [path |-> rmCur, dir |-> Tree!Real(rmFs, rmCur), seen |-> {},
                                        due |-> Tree!Entries(rmFs, Tree!Real(rmFs, rmCur)), ret |-> 0])
         /\ rmPc' = "readdir" /\ rmI' = rmI /\ rmStatus' = rmStatus
      \/ rmHurt \subseteq rmHurt' /\ Rm!ReturnTo(rmStack, -1, TRUE)
  BY RmTree DEF Rm!Descend, Rm!SaysNo, Rm!Works, Rm!Fails, Rm!Return
<1>5. CASE rmHurt' = rmHurt \cup {"no"} /\ Rm!ReturnTo(rmStack, 0, FALSE)
  <2>1. RmKeeps /\ RmLost'
    BY <1>1, <1>5, RmIdle
  <2> QED
    BY <1>1, <1>2, <1>3, <1>5, <2>1, RmWholeStack, RmReturns
<1>6. CASE rmHurt \subseteq rmHurt' /\ Rm!ReturnTo(rmStack, -1, TRUE)
  <2>1. RmKeeps /\ RmLost'
    BY <1>1, <1>6, RmIdle
  <2> QED
    BY <1>1, <1>2, <1>3, <1>6, <2>1, RmWholeStack, RmReturns
<1>7. CASE /\ rmHurt' = rmHurt
           /\ rmStack' = Append(rmStack, [path |-> rmCur, dir |-> Tree!Real(rmFs, rmCur), seen |-> {},
                                          due |-> Tree!Entries(rmFs, Tree!Real(rmFs, rmCur)), ret |-> 0])
           /\ rmPc' = "readdir" /\ rmI' = rmI /\ rmStatus' = rmStatus
  <2>1. RmKeeps /\ RmLost'
    BY <1>1, <1>7, RmIdle
  <2>2. PICK x : x = [path |-> rmCur, dir |-> Tree!Real(rmFs, rmCur), seen |-> {},
                      due |-> Tree!Entries(rmFs, Tree!Real(rmFs, rmCur)), ret |-> 0]
    OBVIOUS
  <2>3. Tree!Entries(rmFs, Tree!Real(rmFs, rmCur)) \subseteq FileNames
    BY <1>2, InDirectory, PathSplits DEF Tree!Entries
  <2>4. x \in RmFrames /\ x.path = rmCur
    BY <1>2, <2>2, <2>3, RealIsPath DEF RmFrames
  <2>5. PICK s \in Seq(RmFrames) : s = rmStack
    BY RmWholeStack
  <2>6. /\ rmStack' \in Seq(RmFrames) /\ Len(rmStack') = Len(s) + 1 /\ Len(s) \in Nat
        /\ \A k \in 1..Len(s) : rmStack'[k] = s[k]
        /\ rmStack'[Len(s) + 1] = x
    BY <1>7, <2>2, <2>4, <2>5, AppendProperties
  <2>7. RmTop' = RmTop
    BY <1>1, <1>7 DEF RmTop
  <2>8. \A k \in 1..Len(rmStack') : RmDirAt(rmFs', rmStack'[k].path, RmTop')
    <3>1. \A k \in 1..Len(rmStack') : k \in 1..Len(s) \/ k = Len(s) + 1
      BY <2>6
    <3> QED
      BY <1>1, <1>2, <2>4, <2>5, <2>6, <2>7, <3>1 DEF RmInv, RmPlaces
  <2>9. rmStack' # <<>> /\ rmStack'[1].path = p
    <3>1. Len(rmStack') # 0
      BY <2>6
    <3>2. CASE s = <<>>
      <4>1. Len(s) + 1 = 1
        BY <3>2, EmptySeq
      <4>2. rmStack'[1] = x /\ x.path = p
        BY <1>2, <1>3, <2>4, <2>5, <2>6, <3>2, <4>1
      <4>3. rmStack' # <<>>
        BY <3>1, EmptySeq
      <4> QED
        BY <4>2, <4>3
    <3>3. CASE s # <<>>
      <4>1. 1 \in 1..Len(s)
        BY <3>3, EmptySeq
      <4> QED
        BY <1>3, <2>5, <2>6, <3>1, <3>3, <4>1 DEF RmInv, RmPlaces
    <3> QED
      BY <3>2, <3>3
  <2>10. RmTyping'
    BY <1>1, <1>2, <1>7, <2>1, <2>6, RmKept DEF RmTyping
  <2>11. RmPlaces'
    BY <1>1, <1>3, <1>7, <2>8, <2>9 DEF RmPlaces, RmWorks
  <2>12. RmGone'
    BY <1>1, <1>2, <1>7 DEF RmInv, RmGone
  <2> QED
    BY <1>1, <2>1, <2>10, <2>11, <2>12 DEF RmInv
<1> QED
  BY <1>1, <1>4, <1>5, <1>6, <1>7

\* The last of the directories being read.
LEMMA RmLastFrame ==
  ASSUME RmInv, rmStack # <<>>
  PROVE  /\ Len(rmStack) \in 1..Len(rmStack) /\ Rm!Last(rmStack) = rmStack[Len(rmStack)]
         /\ Rm!Last(rmStack) \in RmFrames /\ RmDirAt(rmFs, Rm!Last(rmStack).path, RmTop)
         /\ Rm!Front(rmStack) \in Seq(RmFrames) /\ Len(Rm!Front(rmStack)) = Len(rmStack) - 1
         /\ \A k \in 1..(Len(rmStack) - 1) : Rm!Front(rmStack)[k] = rmStack[k]
<1>1. PICK s \in Seq(RmFrames) : s = rmStack
  BY RmWholeStack
<1>2. PICK n \in Nat : n = Len(s) /\ n # 0
  BY <1>1, EmptySeq
<1>3. n \in 1..n
  BY <1>2
<1>4. s[n] \in RmFrames
  BY <1>2, <1>3, ElementOfSeq
<1>5. /\ SubSeq(s, 1, n - 1) \in Seq(RmFrames) /\ Len(SubSeq(s, 1, n - 1)) = n - 1
      /\ \A k \in 1..(n - 1) : SubSeq(s, 1, n - 1)[k] = s[k]
  <2>1. 1 \in 1..(Len(s) + 1) /\ n - 1 \in (1 - 1)..Len(s) /\ n - 1 - 1 + 1 = n - 1 /\ \A k \in 1..(n - 1) : 1 + k - 1 = k
    BY <1>2
  <2> QED
    BY <2>1, PartFacts
<1>6. RmDirAt(rmFs, s[n].path, RmTop)
  BY <1>1, <1>2, <1>3 DEF RmInv, RmPlaces
<1> QED
  BY <1>1, <1>2, <1>3, <1>4, <1>5, <1>6 DEF Rm!Last, Rm!Front

\* The next entry of a directory.
LEMMA RmReadStep ==
  ASSUME Rm!Assumptions, RmInv, Rm!ReadDir
  PROVE  RmInv' /\ rmFs' = rmFs
<1>1. /\ rmPc = "readdir" /\ rmPc' = "entry" /\ rmFs' = rmFs /\ rmStart' = rmStart /\ rmCall' = rmCall /\ rmHurt' = rmHurt
      /\ rmI' = rmI /\ rmStatus' = rmStatus
  BY DEF Rm!ReadDir, Rm!Works, Rm!fixed
<1>2. rmStack # <<>> /\ rmI \in 1..Len(rmCall.srcs) /\ Whole(rmFs) /\ Whole(rmStart) /\ RmTop \in Pathnames
  <2>1. rmStack # <<>> /\ rmI \in 1..Len(rmCall.srcs) /\ Whole(rmFs) /\ Whole(rmStart) /\ rmCall \in RmCalls
    BY <1>1 DEF RmInv, RmTyping, RmPlaces
  <2> QED
    BY <2>1, RmPaths, RealNameIs DEF RmTop
<1>3. PICK f \in RmFrames : f = Rm!Last(rmStack)
  BY <1>2, RmLastFrame
<1>4. PICK n \in Tree!Entries(rmFs, f.dir) :
        /\ rmStack' = Append(Rm!Front(rmStack), [f EXCEPT !.seen = @ \cup {n}])
        /\ rmCur' = Append(f.path, n)
  BY <1>3, RmTree DEF Rm!ReadDir
<1>5. n \in FileNames /\ f.path \in Pathnames
  BY <1>2, <1>3, InDirectory, PathSplits DEF Tree!Entries, RmFrames
<1>6. PICK y : y = [f EXCEPT !.seen = @ \cup {n}]
  OBVIOUS
<1>7. y \in RmFrames /\ y.path = f.path
  BY <1>3, <1>5, <1>6 DEF RmFrames
<1>8. PICK m \in Nat : m = Len(rmStack) /\ m # 0
  BY <1>2, EmptySeq, RmWholeStack
<1>9. PICK s \in Seq(RmFrames) : s = Rm!Front(rmStack) /\ Len(s) = m - 1 /\ \A k \in 1..(m - 1) : s[k] = rmStack[k]
  BY <1>2, <1>8, RmLastFrame
<1>10. /\ rmStack' \in Seq(RmFrames) /\ Len(rmStack') = m
       /\ \A k \in 1..(m - 1) : rmStack'[k] = rmStack[k]
       /\ rmStack'[m] = y
  <2>1. rmStack' = Append(s, y)
    BY <1>4, <1>6, <1>9
  <2>2. Len(s) + 1 = m
    BY <1>8, <1>9
  <2> QED
    BY <1>7, <1>9, <2>1, <2>2, AppendProperties
<1>11. \A k \in 1..m : rmStack'[k].path = rmStack[k].path
  <2>1. \A k \in 1..m : k \in 1..(m - 1) \/ k = m
    BY <1>8
  <2>2. rmStack[m] = f
    BY <1>2, <1>3, <1>8, RmLastFrame
  <2> QED
    BY <1>7, <1>10, <2>1, <2>2
<1>12. RmAt(rmFs, rmCur', RmTop)
  <2>1. PICK p \in Pathnames : p = f.path
    BY <1>5
  <2>2. RmDirAt(rmFs, p, RmTop) /\ rmCur' = Append(p, n)
    BY <1>2, <1>3, <1>4, <2>1, RmLastFrame
  <2>3. Append(p, n) \in Pathnames /\ Append(p, n) # <<>> /\ Tree!Front(Append(p, n)) = p /\ Tree!Last(Append(p, n)) = n
    BY <1>5, PathGrows
  <2>4. Tree!Real(rmFs, p) = Tree!RealName(rmFs, p)
    BY <1>2, <2>2, RealOfNoLink DEF RmDirAt
  <2>5. ASSUME Reaches(rmFs, Append(p, n)) PROVE Tree!Below(Tree!RealName(rmFs, Append(p, n)), RmTop)
    <3>1. DirAt(rmFs, Tree!RealName(rmFs, p))
      BY <2>3, <2>4, <2>5 DEF Reaches
    <3>2. Reaches(rmFs, p)
      BY <1>2, <3>1, ThereIsReached DEF DirAt
    <3>3. Tree!Below(Tree!RealName(rmFs, p), RmTop)
      BY <2>2, <3>2 DEF RmDirAt, RmAt
    <3>4. PICK q \in Pathnames : q = Append(p, n)
      BY <2>3
    <3>5. Tree!RealName(rmFs, q) = Append(Tree!Real(rmFs, Tree!Front(q)), Tree!Last(q))
      BY <1>2, <2>3, <3>4, RealNameIs
    <3>6. Tree!RealName(rmFs, Append(p, n)) = Append(Tree!RealName(rmFs, p), n)
      BY <2>3, <2>4, <3>4, <3>5
    <3>7. Tree!RealName(rmFs, p) \in Pathnames
      BY <1>2, <2>1, RealNameIs
    <3> QED
      BY <1>2, <1>5, <3>3, <3>6, <3>7, BelowFacts
  <2> QED
    BY <2>2, <2>3, <2>5 DEF RmAt
<1>13. rmStack' # <<>> /\ rmStack'[1].path = rmStack[1].path
  <2>1. 1 \in 1..m
    BY <1>8
  <2> QED
    BY <1>8, <1>10, <1>11, <2>1, EmptySeq
<1>14. RmKeeps /\ RmLost'
  BY <1>1, RmIdle
<1>15. RmTop' = RmTop
  BY <1>1 DEF RmTop
<1>16. RmTyping'
  BY <1>1, <1>2, <1>10, <1>14, RmKept DEF RmTyping, RmWorks
<1>17. RmPlaces'
  <2>1. \A k \in 1..Len(rmStack') : RmDirAt(rmFs', rmStack'[k].path, RmTop')
    BY <1>1, <1>8, <1>10, <1>11, <1>15 DEF RmInv, RmPlaces
  <2>2. rmStack'[1].path = rmCall'.srcs[rmI']
    BY <1>1, <1>2, <1>13 DEF RmInv, RmPlaces
  <2> QED
    BY <1>1, <1>12, <1>13, <1>15, <2>1, <2>2 DEF RmPlaces, RmWorks
<1>18. RmGone'
  BY <1>1 DEF RmInv, RmGone
<1> QED
  BY <1>1, <1>14, <1>16, <1>17, <1>18 DEF RmInv

\* The end of a directory.
LEMMA RmLeaveStep ==
  ASSUME Rm!Assumptions, RmInv, Rm!LeaveDir
  PROVE  RmInv' /\ RmTakesOwn
<1>1. /\ rmPc = "readdir" /\ rmStart' = rmStart /\ rmCall' = rmCall /\ rmCur' = Rm!Last(rmStack).path
      /\ Rm!RemoveDir(Rm!Front(rmStack), Rm!Last(rmStack).ret)
  BY DEF Rm!LeaveDir, Rm!fixed
<1>2. rmStack # <<>>
  BY <1>1 DEF RmInv, RmPlaces
<1>3. PICK p : p = rmCur'
  OBVIOUS
<1>4. RmAt(rmFs, p, RmTop)
  BY <1>1, <1>2, <1>3, RmLastFrame DEF RmDirAt
<1>5. PICK frames \in Seq(RmFrames) : frames = Rm!Front(rmStack)
  BY <1>2, RmLastFrame
<1>6. Len(frames) = Len(rmStack) - 1 /\ Len(rmStack) \in Nat /\ \A k \in 1..Len(frames) : frames[k] = rmStack[k]
  BY <1>2, <1>5, RmLastFrame, RmWholeStack
<1>7. Len(frames) <= Len(rmStack)
  BY <1>6
<1>8. frames = <<>> => p = rmCall.srcs[rmI]
  <2>1. frames = <<>> => Len(rmStack) = 1
    BY <1>6, EmptySeq
  <2> QED
    BY <1>1, <1>2, <1>3, <2>1, RmLastFrame DEF RmInv, RmPlaces
<1>9. PICK ret : ret = Rm!Last(rmStack).ret
  OBVIOUS
<1>10. Rm!RemoveDir(frames, ret)
  BY <1>1, <1>5, <1>9
<1>11. rmPc \notin {"parse", "exited"}
  BY <1>1
<1> QED
  BY <1>1, <1>3, <1>4, <1>6, <1>7, <1>8, <1>10, <1>11, RmDirStep

\* Other processes remove files and empty directories and create files.
LEMMA RmMeddled ==
  ASSUME Rm!Assumptions, RmInv, Rm!SomeoneMeddles
  PROVE  RmInv'
<1>1. /\ rmPc \notin {"parse", "exited"} /\ rmStart' = rmStart /\ rmCall' = rmCall /\ rmPc' = rmPc /\ rmI' = rmI
      /\ rmStack' = rmStack /\ rmCur' = rmCur /\ rmStatus' = rmStatus
  BY DEF Rm!SomeoneMeddles
<1>2. Whole(rmFs) /\ Whole(rmStart)
  BY DEF RmInv, RmTyping
<1>3. PICK p \in DOMAIN rmFs :
        \/ Tree!CanUnlink(rmFs, p) /\ rmFs' = Tree!Unlink(rmFs, p) /\ rmHurt' = rmHurt \cup {"gone"}
        \/ Tree!CanRmdir(rmFs, p) /\ rmFs' = Tree!Rmdir(rmFs, p) /\ rmHurt' = rmHurt \cup {"gonedir"}
        \/ /\ Tree!CanCreate(rmFs, Append(p, "new"), RmDepth)
           /\ rmFs' = Tree!Create(rmFs, Append(p, "new"), "file", <<>>, 1) /\ rmHurt' = rmHurt \cup {"made"}
  BY RmTree DEF Rm!SomeoneMeddles
<1>4. p \in Pathnames
  BY <1>2 DEF Whole
<1>5. RmKeeps /\ RmLost'
  <2>1. CASE Tree!CanUnlink(rmFs, p) /\ rmFs' = Tree!Unlink(rmFs, p) /\ rmHurt' = rmHurt \cup {"gone"}
    <3>1. OneLess(rmFs, rmFs', Tree!RealName(rmFs, p)) /\ Whole(rmFs') /\ Narrower(rmFs, rmFs')
      BY <1>2, <1>4, <2>1, Unlinked
    <3> QED
      BY <1>1, <2>1, <3>1 DEF RmKeeps, RmLost, OneLess
  <2>2. CASE Tree!CanRmdir(rmFs, p) /\ rmFs' = Tree!Rmdir(rmFs, p) /\ rmHurt' = rmHurt \cup {"gonedir"}
    <3>1. OneLess(rmFs, rmFs', Tree!RealName(rmFs, p)) /\ Whole(rmFs') /\ Narrower(rmFs, rmFs')
      BY <1>2, <1>4, <2>2, Rmdired
    <3> QED
      BY <1>1, <2>2, <3>1 DEF RmKeeps, RmLost, OneLess
  <2>3. CASE /\ Tree!CanCreate(rmFs, Append(p, "new"), RmDepth)
             /\ rmFs' = Tree!Create(rmFs, Append(p, "new"), "file", <<>>, 1) /\ rmHurt' = rmHurt \cup {"made"}
    <3>1. PICK q \in Pathnames : q = Append(p, "new")
      <4>1. "new" \in FileNames
        BY DEF FileNames
      <4>2. Append(p, "new") \in Pathnames
        BY <1>4, <4>1, PathGrows
      <4> QED
        BY <4>2
    <3>2. OneMore(rmFs, rmFs', Tree!RealName(rmFs, q)) /\ Whole(rmFs') /\ Narrower(rmFs, rmFs')
      BY <1>2, <2>3, <3>1, Created
    <3>3. RmKeeps
      BY <1>1, <2>3, <3>2 DEF RmKeeps
    <3>4. \A x \in DOMAIN rmFs : x \in DOMAIN rmFs' /\ rmFs'[x] = rmFs[x]
      BY <3>2 DEF OneMore
    <3>5. RmLost'
      BY <1>1, <2>3, <3>4 DEF RmInv, RmLost, RmGiven
    <3> QED
      BY <3>3, <3>5
  <2> QED
    BY <1>3, <2>1, <2>2, <2>3
<1>6. RmTyping'
  BY <1>1, <1>5, RmKept DEF RmInv, RmTyping
<1>7. RmPlaces'
  <2>1. RmTop' = RmTop
    BY <1>1 DEF RmTop
  <2>2. \A q, top : (RmAt(rmFs, q, top) => RmAt(rmFs', q, top)) /\ (RmDirAt(rmFs, q, top) => RmDirAt(rmFs', q, top))
    BY <1>5, RmKept
  <2> QED
    BY <1>1, <2>1, <2>2 DEF RmInv, RmPlaces
<1>8. RmGone'
  <2>1. \A k \in 1..Len(rmCall.srcs) :
          "made" \notin rmHurt' /\ Tree!RealName(rmFs, rmCall.srcs[k]) \notin DOMAIN rmFs
            => Tree!RealName(rmFs', rmCall.srcs[k]) \notin DOMAIN rmFs'
    BY <1>5, RmKept
  <2>2. rmHurt \subseteq rmHurt'
    BY <1>5 DEF RmKeeps
  <2> QED
    BY <1>1, <2>1, <2>2 DEF RmInv, RmGone
<1> QED
  BY <1>5, <1>6, <1>7, <1>8 DEF RmInv

\* The inductive invariant of rm: what it works on is at or below a name it was
\* given, the directories it reads are no links, what is lost was given, and what
\* is done is gone.
THEOREM RmInvariant ==
  ASSUME Rm!Assumptions
  PROVE  Rm!Spec => []RmInv
<1>1. Rm!Init => RmInv
  BY RmStarts
<1>2. RmInv /\ [Rm!Next]_(Rm!vars) => RmInv'
  <2> SUFFICES ASSUME RmInv, [Rm!Next]_(Rm!vars) PROVE RmInv'
    OBVIOUS
  <2>1. CASE UNCHANGED Rm!vars
    <3>1. RmTyping'
      BY <2>1 DEF Rm!vars, RmInv, RmTyping
    <3>2. RmPlaces'
      BY <2>1 DEF Rm!vars, RmInv, RmPlaces, RmTop
    <3>3. RmLost'
      BY <2>1 DEF Rm!vars, RmInv, RmLost, RmGiven
    <3>4. RmGone'
      BY <2>1 DEF Rm!vars, RmInv, RmGone
    <3> QED
      BY <3>1, <3>2, <3>3, <3>4 DEF RmInv
  <2>2. CASE Rm!Remover
    BY <2>2, RmMainStep, RmTakeStep, RmLookStep, RmFileStep, RmEmptyStep, RmDescendStep, RmReadStep, RmLeaveStep DEF Rm!Remover
  <2> QED
    BY <2>1, <2>2, RmMeddled DEF Rm!Next
<1> QED
  BY <1>1, <1>2, PTL DEF Rm!Spec

\* rm removes nothing but what is at or below a name it was given, never through
\* a link, while others remove names and create files between its steps.
THEOREM RmTakesOnlyItsOwn ==
  ASSUME Rm!Assumptions
  PROVE  Rm!Spec => [][Rm!Remover => RmTakesOwn]_(Rm!vars)
<1>1. RmInv /\ Rm!Remover => RmTakesOwn
  <2> SUFFICES ASSUME RmInv, Rm!Remover PROVE RmTakesOwn
    OBVIOUS
  <2>1. rmFs' = rmFs => RmTakesOwn
    BY DEF RmTakesOwn
  <2> QED
    BY <2>1, RmMainStep, RmTakeStep, RmLookStep, RmFileStep, RmEmptyStep, RmDescendStep, RmReadStep, RmLeaveStep DEF Rm!Remover
<1>2. RmInv /\ [Rm!Next]_(Rm!vars) => [Rm!Remover => RmTakesOwn]_(Rm!vars)
  BY <1>1
<1> QED
  BY <1>2, RmInvariant, PTL DEF Rm!Spec

\* What was there at the start is there as it was, unless it was given to rm or
\* others removed something.
THEOREM RmKeepsOthers ==
  ASSUME Rm!Assumptions
  PROVE  Rm!Spec => []Rm!OthersKept
<1>1. RmInv => Rm!OthersKept
  <2> SUFFICES ASSUME RmInv, NEW p \in DOMAIN rmStart
               PROVE  \/ \E a \in Rm!Args : Tree!Below(p, Tree!RealName(rmStart, a))
                      \/ Tree!NamedAt(rmFs, p) = rmStart[p]
                      \/ rmHurt \cap {"gone", "gonedir"} # {}
    BY RmTree DEF Rm!OthersKept
  <2>1. RmGiven(p) => \E a \in Rm!Args : Tree!Below(p, Tree!RealName(rmStart, a))
    BY DEF RmGiven, Rm!Args
  <2>2. p \in DOMAIN rmFs => Tree!NamedAt(rmFs, p) = rmFs[p]
    BY DEF Tree!NamedAt
  <2> QED
    BY <2>1, <2>2 DEF RmInv, RmLost
<1> QED
  BY <1>1, RmInvariant, PTL

\* Exit status 0 means that nothing rm was given is there any more, unless it was
\* told no or others made files.
THEOREM RmZeroMeansGone ==
  ASSUME Rm!Assumptions
  PROVE  Rm!Spec => []Rm!ZeroMeansGone
<1>1. RmInv => Rm!ZeroMeansGone
  <2> SUFFICES ASSUME RmInv, rmPc = "exited", rmStatus = 0, "no" \notin rmHurt, "made" \notin rmHurt, NEW p \in Rm!Args
               PROVE  Tree!Lstat(rmFs, p).kind = "none"
    BY RmTree DEF Rm!ZeroMeansGone
  <2>1. PICK k \in 1..Len(rmCall.srcs) : p = rmCall.srcs[k]
    BY DEF Rm!Args
  <2>2. Tree!RealName(rmFs, p) \notin DOMAIN rmFs /\ Whole(rmFs)
    BY <2>1 DEF RmInv, RmGone, RmTyping
  <2> QED
    BY <2>2, Looked DEF Tree!Lstat
<1> QED
  BY <1>1, RmInvariant, PTL

=============================================================================
