-------------------------- MODULE ToolshLineProofs --------------------------
(***************************************************************************)
(* Theorems about how toolsh runs a line: a piece of it is run at most     *)
(* once and in order, what toolsh exits with is the status of the last     *)
(* command it waited for, and in a line whose pieces each use one operator *)
(* exactly the commands that its grammar says are run, for every line and  *)
(* every sourced file.                                                     *)
(*                                                                         *)
(* All rest on what waits in the callers of run_pipeline: the pieces on    *)
(* the stack, from the top down, are to the right of the current one and   *)
(* in order (Agenda), and as long as no caller throws the result away,     *)
(* result and last_exit agree (ExitInv).  For the third, a command waits   *)
(* or has been decided as the grammar says, and the result that a caller   *)
(* of && or || gets is the status of the last command that ran before what *)
(* it waits with (Grammar).                                                *)
(***************************************************************************)
EXTENDS ToolshLine, SequenceTheorems, WellFoundedInduction, TLAPS

TokenSet == [t : Tokens, at : Nat]
TokensOf(l) == {l[i] : i \in 1..Len(l)}
RanSet == [at : Nat, status : Statuses, bg : {0, 1}]

FrameSet == [kind : Separators \cup {"second", "source"}, rest : Seq(TokenSet), lines : Seq(Seq(TokenSet))]

(* The types *)

\* A caller: what it has still to run, as the code leaves it.
FrameOK(fr) ==
  /\ fr \in FrameSet
  /\ fr.kind \in {"second", "source"} => fr.rest = <<>>
  /\ fr.kind # "source" => fr.lines = <<>>
  /\ fr.kind = "source" =>
       \E m \in 1..(Len(Sourced) + 1) : fr.lines = SubSeq(Sourced, m, Len(Sourced))

TypeInv ==
  /\ mode \in {"-c", "script"}
  /\ given \in Lines
  /\ Line(current)
  /\ stack \in Seq(FrameSet)
  /\ \A k \in 1..Len(stack) : FrameOK(stack[k])
  /\ linePc \in {"call", "return", "exited"}
  /\ ret \in Statuses /\ lastExit \in Statuses
  /\ executed \in Seq(RanSet)
  /\ failed \in {0, 1}

(* What waits, and in which order.  P is a set of places: those of one line. *)

Ordered(l) == \A i, j \in 1..Len(l) : i < j => l[i].at < l[j].at

\* Every token of A in P is to the left of every one of B.
Below(A, B, P) == \A a \in A, b \in B : a.at \in P /\ b.at \in P => a.at < b.at

\* The tokens that wait: 0 is the current line, unless it has been run, and k
\* the k-th caller on the stack.
Now == IF linePc = "call" THEN TokensOf(current) ELSE {}
Waiting(fr) == TokensOf(fr.rest) \cup UNION {TokensOf(fr.lines[j]) : j \in 1..Len(fr.lines)}
Items == [k \in 0..Len(stack) |-> IF k = 0 THEN Now ELSE Waiting(stack[k])]

PiecesOrdered ==
  /\ linePc = "call" => Ordered(current)
  /\ \A k \in 1..Len(stack) : Ordered(stack[k].rest)

\* What was run, e, and what waits, A[0] to A[n], is in the order of the line.
Agenda(e, A, n, P) ==
  /\ \A i, j \in 1..Len(e) : i < j /\ e[i].at \in P /\ e[j].at \in P => e[i].at < e[j].at
  /\ \A k \in 0..n : Below(TokensOf(e), A[k], P)
  /\ \A j, k \in 0..n : j < k => Below(A[j], A[k], P)

\* Each token that waits is one of g, the line that was given, or of the file.
KnownItems(A, n, g) ==
  \A k \in 0..n : \A tk \in A[k] :
    tk \in TokensOf(g) \/ \E i \in 1..Len(Sourced) : tk \in TokensOf(Sourced[i])

\* While a "source" waits, nothing of a line l of the file has been run or waits.
SourceWaits(A, n) == \E k \in 0..n : \E tk \in A[k] : tk.t = "source"
Untouched(e, A, n, l) ==
  /\ \A j \in 1..Len(e) : e[j].at \notin Places(l)
  /\ \A k \in 0..n : \A tk \in A[k] : tk.at \notin Places(l)

FileOrder(e, A, n, l) ==
  /\ Agenda(e, A, n, Places(l))
  /\ SourceWaits(A, n) => Untouched(e, A, n, l)

OrderInv ==
  /\ PiecesOrdered
  /\ KnownItems(Items, Len(stack), given)
  /\ Agenda(executed, Items, Len(stack), Places(given))
  /\ SourcedOnce => \A i \in 1..Len(Sourced) : FileOrder(executed, Items, Len(stack), Sourced[i])

(* The result and last_exit *)

NoSource(l) == \A i \in 1..Len(l) : l[i].t # "source"
Starts(l) == Len(l) > 0 /\ l[1].t \in Starters

\* A caller that returns last_exit, whatever the result.
Discards == \E k \in 1..Len(stack) : stack[k].kind \in {";", "second"}

LastStatus(st) ==
  \/ Waited = {} /\ st = 0
  \/ \E n \in Waited : (\A m \in Waited : m <= n) /\ executed[n].status = st

CallExit ==
  linePc = "call" =>
    /\ Complete(current) /\ NoSource(current)
    /\ Starts(current) \/ lastExit = 0 \/ Discards

FrameExit(fr) ==
  /\ fr.kind # "source"
  /\ Complete(fr.rest) /\ NoSource(fr.rest)
  /\ fr.kind \in {"&&", "||"} => Starts(fr.rest)
StackExit == \A k \in 1..Len(stack) : FrameExit(stack[k])

ReturnExit ==
  /\ linePc = "return" => ret = lastExit \/ Discards
  /\ linePc = "exited" => ret = lastExit

ExitInv ==
  failed = 0 /\ Complete(given) /\ NoSource(given) =>
    CallExit /\ StackExit /\ ReturnExit /\ LastStatus(lastExit)

LineInv == TypeInv /\ OrderInv /\ ExitInv

-----------------------------------------------------------------------------
(* Sequences *)

\* A caller is pushed: it comes first, the others one place later.
LEMMA PushIs ==
  ASSUME NEW X, NEW x \in X, NEW s \in Seq(X)
  PROVE  /\ <<x>> \o s \in Seq(X)
         /\ Len(<<x>> \o s) = Len(s) + 1
         /\ (<<x>> \o s)[1] = x
         /\ \A k \in 1..Len(s) : (<<x>> \o s)[k + 1] = s[k]
         /\ \A k \in 2..(Len(s) + 1) : (<<x>> \o s)[k] = s[k - 1]
  OBVIOUS

\* A caller is popped: the others move up one place.
LEMMA PopIs ==
  ASSUME NEW X, NEW s \in Seq(X), s # <<>>
  PROVE  /\ Len(s) >= 1 /\ s[1] \in X
         /\ SubSeq(s, 2, Len(s)) \in Seq(X)
         /\ Len(SubSeq(s, 2, Len(s))) = Len(s) - 1
         /\ \A k \in 1..(Len(s) - 1) : SubSeq(s, 2, Len(s))[k] = s[k + 1]
<1>1. Len(s) \in Nat /\ Len(s) >= 1 /\ \A k \in 1..Len(s) : s[k] \in X
  OBVIOUS
<1>2. /\ SubSeq(s, 2, Len(s)) \in Seq(X)
      /\ Len(SubSeq(s, 2, Len(s))) = IF 2 <= Len(s) THEN Len(s) - 2 + 1 ELSE 0
      /\ \A k \in 1..(Len(s) - 2 + 1) : SubSeq(s, 2, Len(s))[k] = s[2 + k - 1]
  BY <1>1, SubSeqProperties
<1>a. PICK n : n = Len(SubSeq(s, 2, Len(s)))
  OBVIOUS
<1>b. PICK c : c = Len(s)
  OBVIOUS
<1>c. c \in Nat /\ c >= 1 /\ n = IF 2 <= c THEN c - 2 + 1 ELSE 0
  BY <1>1, <1>2, <1>a, <1>b
<1>d. n = c - 1
  BY <1>c
<1>3. \A k \in 1..(Len(s) - 1) : 2 + k - 1 = k + 1 /\ k \in 1..(Len(s) - 2 + 1)
  BY <1>1
<1>4. Len(SubSeq(s, 2, Len(s))) = Len(s) - 1
  BY <1>a, <1>b, <1>d
<1>5. \A k \in 1..(Len(s) - 1) : SubSeq(s, 2, Len(s))[k] = s[k + 1]
  BY <1>2, <1>3
<1> QED
  BY <1>1, <1>2, <1>4, <1>5

\* What is left and right of a place in a line.
LEMMA CutIs ==
  ASSUME NEW l \in Seq(TokenSet), NEW i \in 1..Len(l)
  PROVE  /\ l[i] \in TokenSet
         /\ Before(l, i) \in Seq(TokenSet) /\ Len(Before(l, i)) = i - 1
         /\ \A k \in 1..(i - 1) : Before(l, i)[k] = l[k]
         /\ After(l, i) \in Seq(TokenSet) /\ Len(After(l, i)) = Len(l) - i
         /\ \A k \in 1..(Len(l) - i) : After(l, i)[k] = l[i + k]
BY DEF Before, After

\* The lines of the file from m on.
LEMMA LeftOfFile ==
  ASSUME NEW X, NEW s \in Seq(X), NEW m \in 1..(Len(s) + 1)
  PROVE  /\ SubSeq(s, m, Len(s)) \in Seq(X)
         /\ Len(SubSeq(s, m, Len(s))) = Len(s) - m + 1
         /\ \A k \in 1..(Len(s) - m + 1) : SubSeq(s, m, Len(s))[k] = s[m + k - 1]
<1>1. Len(s) \in Nat /\ m \in Int /\ \A k \in m..Len(s) : s[k] \in X
  OBVIOUS
<1>2. /\ SubSeq(s, m, Len(s)) \in Seq(X)
      /\ Len(SubSeq(s, m, Len(s))) = IF m <= Len(s) THEN Len(s) - m + 1 ELSE 0
      /\ \A k \in 1..(Len(s) - m + 1) : SubSeq(s, m, Len(s))[k] = s[m + k - 1]
  BY <1>1, SubSeqProperties
<1> QED
  BY <1>1, <1>2

\* Taking the head off what is left of the file leaves what is left of it.
LEMMA TailOfFile ==
  ASSUME NEW X, NEW s \in Seq(X), NEW m \in 1..(Len(s) + 1),
         SubSeq(s, m, Len(s)) # <<>>
  PROVE  /\ m <= Len(s)
         /\ Head(SubSeq(s, m, Len(s))) = s[m]
         /\ Tail(SubSeq(s, m, Len(s))) = SubSeq(s, m + 1, Len(s))
<1>1. Len(s) \in Nat /\ \A k \in 1..Len(s) : s[k] \in X
  OBVIOUS
<1>2. m <= Len(s)
  BY <1>1, SubSeqEmpty
<1>3. /\ SubSeq(s, m, Len(s)) \in Seq(X)
      /\ Len(SubSeq(s, m, Len(s))) = Len(s) - m + 1
      /\ \A k \in 1..(Len(s) - m + 1) : SubSeq(s, m, Len(s))[k] = s[m + k - 1]
  BY LeftOfFile
<1>4. SubSeq(s, m + 1, Len(s)) \in Seq(X) /\ Len(SubSeq(s, m + 1, Len(s))) = Len(s) - m
  BY <1>1, <1>2, LeftOfFile
<1>5. \A k \in 1..(Len(s) - m) : SubSeq(s, m + 1, Len(s))[k] = s[m + k]
  BY <1>1, <1>2, LeftOfFile
<1>6. PICK left : left = SubSeq(s, m, Len(s))
  OBVIOUS
<1>7. Tail(left) \in Seq(X) /\ Len(Tail(left)) = Len(s) - m /\ \A k \in 1..(Len(s) - m) : Tail(left)[k] = s[m + k]
  <2>1. left \in Seq(X) /\ left # <<>> /\ Len(left) = Len(s) - m + 1
    BY <1>3, <1>6
  <2>2. Tail(left) \in Seq(X) /\ Len(Tail(left)) = Len(left) - 1 /\ \A k \in 1..Len(Tail(left)) : Tail(left)[k] = left[k + 1]
    BY <2>1, HeadTailProperties
  <2>3. \A k \in 1..(Len(s) - m) : left[k + 1] = s[m + k]
    BY <1>1, <1>2, <1>3, <1>6
  <2> QED
    BY <2>1, <2>2, <2>3, <1>1
<1>8. Tail(left) = SubSeq(s, m + 1, Len(s))
  <2>1. PICK rest : rest = SubSeq(s, m + 1, Len(s))
    OBVIOUS
  <2>2. rest \in Seq(X) /\ Len(rest) = Len(Tail(left)) /\ \A k \in 1..Len(Tail(left)) : Tail(left)[k] = rest[k]
    BY <2>1, <1>4, <1>5, <1>7
  <2> QED
    BY <2>1, <2>2, <1>7, SeqEqual
<1>9. Head(left) = s[m]
  BY <1>1, <1>2, <1>3, <1>6
<1> QED
  BY <1>2, <1>6, <1>8, <1>9

Less == {p \in Nat \X Nat : p[1] < p[2]}

\* The order of the natural numbers is well-founded.
LEMMA LessIsWellFounded == IsWellFoundedOn(Less, Nat)
<1>1. IsWellFoundedOn(OpToRel(<, Nat), Nat)
  BY NatLessThanWellFounded, Zenon
<1> QED
  BY <1>1, Zenon DEF OpToRel, Less

\* The first operator of a line is one of its operators, and no other is before it.
LEMMA FirstIs ==
  ASSUME NEW l, Line(l), NEW ops, Positions(l, ops) # {}
  PROVE  /\ FirstOf(Positions(l, ops)) \in 1..Len(l)
         /\ l[FirstOf(Positions(l, ops))].t \in ops
         /\ \A j \in Positions(l, ops) : FirstOf(Positions(l, ops)) <= j
<1>1. PICK at : at = Positions(l, ops)
  OBVIOUS
<1>2. at \in SUBSET Nat /\ at # {} /\ \A i \in at : i \in 1..Len(l) /\ l[i].t \in ops
  BY <1>1 DEF Positions, Line
<1>3. PICK m \in at : \A k \in at : ~ (<<k, m>> \in Less)
  BY <1>2, LessIsWellFounded, WFMin, Zenon
<1>a. \A k \in at : ~(k < m)
  BY <1>2, <1>3 DEF Less
<1>4. \A k \in at : m <= k
  BY <1>2, <1>a
<1>5. FirstOf(at) \in at /\ \A j \in at : FirstOf(at) <= j
  BY <1>4 DEF FirstOf
<1> QED
  BY <1>1, <1>2, <1>5

-----------------------------------------------------------------------------
(* The types *)

\* What the assumptions say of the lines and of the file.
LEMMA Constants ==
  ASSUME LineAssumptions
  PROVE  /\ \A l \in Lines : l \in Seq(TokenSet)
         /\ Sourced \in Seq(Seq(TokenSet))
         /\ \A n \in 1..Len(Sourced) : Sourced[n] \in Seq(TokenSet)
         /\ 0 \in Statuses /\ 1 \in Statuses /\ Statuses \subseteq Nat
<1>1. \A l \in Lines : l \in Seq(TokenSet)
  BY Zenon DEF LineAssumptions, Line, TokenSet
<1>2. Sourced \in Seq(Seq(TokenSet))
  BY Zenon DEF LineAssumptions, TokenSet
<1>3. {0, 1} \subseteq Statuses /\ Statuses \subseteq Nat
  BY Zenon DEF LineAssumptions
<1> QED
  BY <1>1, <1>2, <1>3

\* A caller that has a line to take up, or none.
LEMMA FrameIs ==
  ASSUME NEW kind \in Separators \cup {"second"}, NEW rest \in Seq(TokenSet),
         kind = "second" => rest = <<>>
  PROVE  FrameOK(Frame(kind, rest, <<>>))
<1>1. <<>> \in Seq(Seq(TokenSet))
  OBVIOUS
<1>2. Frame(kind, rest, <<>>) \in FrameSet
  BY <1>1 DEF Frame, FrameSet
<1> QED
  BY <1>2 DEF FrameOK, Frame, Separators

\* A caller that reads the file, with all lines still to be read.
LEMMA SourceFrameIs ==
  ASSUME LineAssumptions
  PROVE  FrameOK(Frame("source", <<>>, Sourced))
<1>1. <<>> \in Seq(TokenSet)
  OBVIOUS
<1>2. Frame("source", <<>>, Sourced) \in FrameSet
  BY <1>1, Constants DEF Frame, FrameSet
<1>3. Sourced = SubSeq(Sourced, 1, Len(Sourced))
  BY Constants, SubSeqFull
<1>4. 1 \in 1..(Len(Sourced) + 1)
  BY Constants
<1> QED
  BY <1>2, <1>3, <1>4, Zenon DEF FrameOK, Frame

\* The types hold of a stack with a new caller, if they hold of the caller.
LEMMA StackPushed ==
  ASSUME TypeInv, NEW fr, FrameOK(fr)
  PROVE  /\ <<fr>> \o stack \in Seq(FrameSet)
         /\ \A k \in 1..Len(<<fr>> \o stack) : FrameOK((<<fr>> \o stack)[k])
<1>1. stack \in Seq(FrameSet) /\ fr \in FrameSet
  BY DEF TypeInv, FrameOK
<1>2. PICK st : st = <<fr>> \o stack
  OBVIOUS
<1>3. st \in Seq(FrameSet) /\ Len(st) = Len(stack) + 1 /\ st[1] = fr /\ \A k \in 2..(Len(stack) + 1) : st[k] = stack[k - 1]
  BY <1>1, <1>2, PushIs
<1>4. \A k \in 1..Len(stack) : FrameOK(stack[k])
  BY DEF TypeInv
<1>5. ASSUME NEW k \in 1..Len(st) PROVE FrameOK(st[k])
  <2>1. CASE k = 1
    BY <2>1, <1>3
  <2>2. CASE k # 1
    <3>1. k \in 2..(Len(stack) + 1) /\ k - 1 \in 1..Len(stack)
      BY <2>2, <1>1, <1>3
    <3> QED
      BY <3>1, <1>3, <1>4
  <2> QED
    BY <2>1, <2>2
<1> QED
  BY <1>2, <1>3, <1>5

\* The types hold of a stack without its first caller.
LEMMA StackPopped ==
  ASSUME TypeInv, stack # <<>>
  PROVE  /\ Len(stack) >= 1 /\ FrameOK(stack[1]) /\ stack[1] \in FrameSet
         /\ Pop \in Seq(FrameSet)
         /\ Len(Pop) = Len(stack) - 1
         /\ \A k \in 1..Len(Pop) : Pop[k] = stack[k + 1] /\ k + 1 \in 1..Len(stack) /\ FrameOK(Pop[k])
<1>1. stack \in Seq(FrameSet) /\ \A k \in 1..Len(stack) : FrameOK(stack[k])
  BY DEF TypeInv
<1>2. PICK st : st = Pop
  OBVIOUS
<1>3. /\ Len(stack) >= 1 /\ stack[1] \in FrameSet /\ st \in Seq(FrameSet) /\ Len(st) = Len(stack) - 1
      /\ \A k \in 1..(Len(stack) - 1) : st[k] = stack[k + 1]
  BY <1>1, <1>2, PopIs DEF Pop
<1>4. \A k \in 1..Len(st) : k + 1 \in 1..Len(stack)
  BY <1>1, <1>3
<1> QED
  BY <1>1, <1>2, <1>3, <1>4

\* What is recorded when a line is run: the place where it begins.
LEMMA RanIs ==
  ASSUME TypeInv, ~Skipped(current), NEW st \in Statuses, NEW bg \in {0, 1}, Ran(st, bg)
  PROVE  /\ current # <<>> /\ 1 \in 1..Len(current) /\ current[1] \in TokenSet
         /\ executed' \in Seq(RanSet)
         /\ Len(executed') = Len(executed) + 1
         /\ \A n \in 1..Len(executed) : executed'[n] = executed[n]
         /\ executed'[Len(executed) + 1] = [at |-> current[1].at, status |-> st, bg |-> bg]
<1>1. current \in Seq(TokenSet) /\ executed \in Seq(RanSet)
  BY DEF TypeInv, Line, TokenSet
<1>2. Len(current) > 0
  BY DEF Skipped
<1>3. current # <<>> /\ 1 \in 1..Len(current) /\ current[1] \in TokenSet
  BY <1>1, <1>2
<1>4. PICK e : e = [at |-> current[1].at, status |-> st, bg |-> bg]
  OBVIOUS
<1>5. e \in RanSet /\ executed' = Append(executed, e)
  BY <1>3, <1>4 DEF RanSet, TokenSet, Ran
<1> QED
  BY <1>1, <1>3, <1>4, <1>5, AppendProperties

\* The type invariant after a step that leaves the stack and the line.
LEMMA TypesSame ==
  ASSUME TypeInv, UNCHANGED <<mode, given, current, stack>>,
         linePc' \in {"call", "return", "exited"}, ret' \in Statuses, lastExit' \in Statuses,
         executed' \in Seq(RanSet), failed' \in {0, 1}
  PROVE  TypeInv'
BY DEF TypeInv, FrameOK, Line

\* The type invariant after a step that changes the stack, the line or both.
LEMMA TypesMoved ==
  ASSUME TypeInv, UNCHANGED <<mode, given, executed, failed>>,
         current' \in Seq(TokenSet), stack' \in Seq(FrameSet), \A k \in 1..Len(stack') : FrameOK(stack'[k]),
         linePc' \in {"call", "return", "exited"}, ret' \in Statuses, lastExit' \in Statuses
  PROVE  TypeInv'
BY DEF TypeInv, Line, FrameOK, TokenSet

\* Each side of an operator is a line.
LEMMA SplitIs ==
  ASSUME TypeInv, Split
  PROVE  \E i \in 1..Len(current), kind \in Separators :
           /\ current[i].t = kind
           /\ current' = Before(current, i)
           /\ stack' = <<Frame(kind, After(current, i), <<>>)>> \o stack
<1>1. Line(current)
  BY DEF TypeInv
<1>2. CASE Semicolons # {}
  <2>1. PICK i : i = FirstOf(Semicolons)
    OBVIOUS
  <2>2. i \in 1..Len(current) /\ current[i].t \in {";"}
    BY <1>1, <1>2, <2>1, FirstIs DEF Semicolons
  <2>3. current' = Before(current, i) /\ stack' = <<Frame(";", After(current, i), <<>>)>> \o stack
    BY <1>2, <2>1, Zenon DEF Split, Push
  <2> QED
    BY <2>2, <2>3 DEF Separators
<1>3. CASE Semicolons = {}
  <2>1. PICK i : i = FirstOf(AndOrs)
    OBVIOUS
  <2>2. AndOrs # {}
    BY <1>3, Zenon DEF Split
  <2>3. i \in 1..Len(current) /\ current[i].t \in {"&&", "||"}
    BY <1>1, <2>1, <2>2, FirstIs DEF AndOrs
  <2>4. current' = Before(current, i) /\ stack' = <<Frame(current[i].t, After(current, i), <<>>)>> \o stack
    BY <1>3, <2>1, Zenon DEF Split, Push
  <2> QED
    BY <2>3, <2>4 DEF Separators
<1> QED
  BY <1>2, <1>3

\* What NextSourced takes is the first of the file's lines that are left.
LEMMA NextSourcedIs ==
  ASSUME LineAssumptions, TypeInv, NextSourced
  PROVE  \E m \in 1..Len(Sourced) :
           /\ stack # <<>> /\ stack[1].kind = "source" /\ stack[1].rest = <<>>
           /\ stack[1].lines = SubSeq(Sourced, m, Len(Sourced))
           /\ Sourced[m] \in Seq(TokenSet)
           /\ stack' = [stack EXCEPT ![1].lines = SubSeq(Sourced, m + 1, Len(Sourced))]
           /\ \/ Skipped(Sourced[m]) /\ UNCHANGED <<current, linePc, ret>>
              \/ linePc' = "call" /\ current' = Sourced[m] /\ UNCHANGED ret
<1>1. stack # <<>> /\ stack[1].kind = "source" /\ stack[1].lines # <<>>
  BY DEF NextSourced, Returns, Top
<1>2. FrameOK(stack[1])
  BY <1>1, StackPopped
<1>3. PICK m \in 1..(Len(Sourced) + 1) : stack[1].lines = SubSeq(Sourced, m, Len(Sourced))
  BY <1>1, <1>2 DEF FrameOK
<1>4. /\ m <= Len(Sourced) /\ Head(stack[1].lines) = Sourced[m]
      /\ Tail(stack[1].lines) = SubSeq(Sourced, m + 1, Len(Sourced))
  BY <1>1, <1>3, Constants, TailOfFile
<1>5. m \in 1..Len(Sourced) /\ Sourced[m] \in Seq(TokenSet)
  BY <1>3, <1>4, Constants
<1>6. stack' = [stack EXCEPT ![1].lines = Tail(@)]
  BY Zenon DEF NextSourced, Call
<1>7. \/ Skipped(Head(stack[1].lines)) /\ UNCHANGED <<current, linePc, ret>>
      \/ linePc' = "call" /\ current' = Head(stack[1].lines) /\ UNCHANGED ret
  BY DEF NextSourced, Call, Top
<1> QED
  BY <1>1, <1>2, <1>3, <1>4, <1>5, <1>6, <1>7 DEF FrameOK

\* The stack in which the first caller has fewer lines of the file left.
LEMMA StackOfSource ==
  ASSUME TypeInv, stack # <<>>, stack[1].kind = "source", NEW m \in 1..Len(Sourced), NEW st,
         LineAssumptions, st = [stack EXCEPT ![1].lines = SubSeq(Sourced, m + 1, Len(Sourced))]
  PROVE  /\ st \in Seq(FrameSet) /\ Len(st) = Len(stack)
         /\ st[1] = Frame("source", <<>>, SubSeq(Sourced, m + 1, Len(Sourced)))
         /\ \A k \in 2..Len(stack) : st[k] = stack[k]
         /\ \A k \in 1..Len(st) : FrameOK(st[k])
<1>1. stack \in Seq(FrameSet) /\ Len(stack) >= 1 /\ \A k \in 1..Len(stack) : FrameOK(stack[k])
  BY StackPopped DEF TypeInv
<1>2. PICK left : left = SubSeq(Sourced, m + 1, Len(Sourced))
  OBVIOUS
<1>3. left \in Seq(Seq(TokenSet)) /\ m + 1 \in 1..(Len(Sourced) + 1)
  BY <1>2, Constants, LeftOfFile
<1>4. stack[1] \in FrameSet /\ stack[1].rest = <<>>
  BY <1>1 DEF FrameOK
<1>5. PICK fr : fr = [stack[1] EXCEPT !.lines = left]
  OBVIOUS
<1>6. fr = Frame("source", <<>>, left) /\ fr \in FrameSet
  BY <1>3, <1>4, <1>5 DEF Frame, FrameSet
<1>7. st = [stack EXCEPT ![1] = fr]
  BY <1>2, <1>5
<1>8. st \in Seq(FrameSet) /\ Len(st) = Len(stack) /\ st[1] = fr /\ \A k \in 2..Len(stack) : st[k] = stack[k]
  <2>1. 1 \in 1..Len(stack)
    BY <1>1
  <2>a. stack \in Seq(FrameSet) /\ fr \in FrameSet
    BY <1>1, <1>6
  <2>b. /\ [stack EXCEPT ![1] = fr] \in Seq(FrameSet)
        /\ Len([stack EXCEPT ![1] = fr]) = Len(stack)
        /\ \A j \in 1..Len(stack) : [stack EXCEPT ![1] = fr][j] = IF j = 1 THEN fr ELSE stack[j]
    BY <2>a, <2>1, ExceptSeq
  <2>2. /\ st \in Seq(FrameSet) /\ Len(st) = Len(stack)
        /\ \A j \in 1..Len(stack) : st[j] = IF j = 1 THEN fr ELSE stack[j]
    BY <2>b, <1>7, Zenon
  <2> QED
    BY <2>1, <2>2, <1>1
<1>9. FrameOK(fr)
  BY <1>2, <1>3, <1>6, Zenon DEF FrameOK, Frame
<1>10. ASSUME NEW k \in 1..Len(st) PROVE FrameOK(st[k])
  <2>1. CASE k = 1
    BY <2>1, <1>8, <1>9
  <2>2. CASE k # 1
    BY <2>2, <1>1, <1>8
  <2> QED
    BY <2>1, <2>2
<1> QED
  BY <1>2, <1>6, <1>8, <1>10

\* Every step keeps the types.
LEMMA TypesKept ==
  ASSUME LineAssumptions, TypeInv, LineNext
  PROVE  TypeInv'
<1>1. /\ 0 \in Statuses /\ 1 \in Statuses /\ ret \in Statuses /\ lastExit \in Statuses
      /\ failed \in {0, 1} /\ executed \in Seq(RanSet) /\ linePc \in {"call", "return", "exited"}
      /\ current \in Seq(TokenSet) /\ stack \in Seq(FrameSet)
  BY Constants DEF TypeInv, Line, TokenSet
<1>2. \A st \in Statuses, bg \in {0, 1} : ~Skipped(current) /\ Ran(st, bg) => executed' \in Seq(RanSet)
  BY RanIs
<1>3. CASE Nothing
  BY <1>1, <1>3, TypesSame DEF Nothing, Result
<1>4. CASE Split
  <2>1. PICK i \in 1..Len(current), kind \in Separators :
           /\ current' = Before(current, i)
           /\ stack' = <<Frame(kind, After(current, i), <<>>)>> \o stack
    BY <1>4, SplitIs
  <2>2. Before(current, i) \in Seq(TokenSet) /\ After(current, i) \in Seq(TokenSet)
    BY <1>1, CutIs
  <2>3. kind # "second"
    BY DEF Separators
  <2>4. FrameOK(Frame(kind, After(current, i), <<>>))
    BY <2>2, <2>3, FrameIs
  <2>5. stack' \in Seq(FrameSet) /\ \A k \in 1..Len(stack') : FrameOK(stack'[k])
    BY <2>1, <2>4, StackPushed, Zenon
  <2> QED
    BY <1>1, <1>4, <2>1, <2>2, <2>5, TypesMoved DEF Split
<1>5. CASE NoCommand
  BY <1>1, <1>5, TypesSame DEF NoCommand, Result
<1>6. CASE Builtin
  BY <1>1, <1>2, <1>6, TypesSame DEF Builtin, Result, SetExit, BuiltinResults, IsPipeline
<1>7. CASE ExitBuiltin
  BY <1>1, <1>2, <1>7, TypesSame DEF ExitBuiltin, IsPipeline
<1>8. CASE Source
  <2>1. executed' \in Seq(RanSet)
    BY <1>1, <1>2, <1>8 DEF Source, IsPipeline
  <2>2. stack' = <<Frame("source", <<>>, Sourced)>> \o stack
    BY <1>8 DEF Source, Push
  <2>3. stack' \in Seq(FrameSet) /\ \A k \in 1..Len(stack') : FrameOK(stack'[k])
    BY <2>2, SourceFrameIs, StackPushed, Zenon
  <2>4. UNCHANGED <<mode, given, current, ret, lastExit, failed>> /\ linePc' = "return"
    BY <1>8 DEF Source
  <2> QED
    BY <2>1, <2>3, <2>4 DEF TypeInv, Line, FrameOK
<1>9. CASE SourceFails
  BY <1>1, <1>2, <1>9, TypesSame DEF SourceFails, Result, IsPipeline
<1>10. CASE Execute
  <2>1. CASE Pipes = {} /\ Background /\ Result(lastExit) /\ Ran(lastExit, 1) /\ UNCHANGED lastExit
    BY <1>1, <1>2, <1>10, <2>1, TypesSame DEF Execute, Result, IsPipeline
  <2>2. CASE \E st \in Statuses : Result(st) /\ lastExit' = st /\ Ran(st, 0)
    BY <1>1, <1>2, <1>10, <2>2, TypesSame DEF Execute, Result, IsPipeline
  <2> QED
    BY <1>10, <2>1, <2>2 DEF Execute
<1>11. CASE ForkFails
  BY <1>1, <1>11, TypesSame DEF ForkFails, Result
<1>12. CASE RunSecond
  <2>1. stack # <<>> /\ stack[1].kind = ";"
    BY <1>12 DEF RunSecond, Returns, Top
  <2>2. PICK st : st = Pop
    OBVIOUS
  <2>3. stack[1].rest \in Seq(TokenSet) /\ st \in Seq(FrameSet)
    BY <2>1, <2>2, StackPopped DEF FrameSet
  <2>4. <<>> \in Seq(TokenSet)
    OBVIOUS
  <2>5. FrameOK(Frame("second", <<>>, <<>>)) /\ Frame("second", <<>>, <<>>) \in FrameSet
    BY <2>4, FrameIs DEF FrameOK
  <2>6. PICK fr : fr = Frame("second", <<>>, <<>>)
    OBVIOUS
  <2>7. stack' = <<fr>> \o st /\ current' = stack[1].rest /\ linePc' = "call" /\ ret' = ret
    BY <1>12, <2>2, <2>6 DEF RunSecond, Call, Top
  <2>8. /\ stack' \in Seq(FrameSet) /\ Len(stack') = Len(st) + 1 /\ stack'[1] = fr
        /\ \A k \in 2..(Len(st) + 1) : stack'[k] = st[k - 1]
    BY <2>3, <2>5, <2>6, <2>7, PushIs
  <2>9. ASSUME NEW k \in 1..Len(stack') PROVE FrameOK(stack'[k])
    <3>1. CASE k = 1
      BY <3>1, <2>5, <2>6, <2>8
    <3>2. CASE k # 1
      <4>1. k \in 2..(Len(st) + 1) /\ k - 1 \in 1..Len(st)
        BY <3>2, <2>3, <2>8
      <4>2. FrameOK(st[k - 1])
        BY <4>1, <2>1, <2>2, StackPopped
      <4> QED
        BY <4>1, <4>2, <2>8
    <3> QED
      BY <3>1, <3>2
  <2> QED
    BY <1>1, <1>12, <2>3, <2>7, <2>8, <2>9, TypesMoved DEF RunSecond
<1>13. CASE BothRun
  <2>1. stack # <<>> /\ stack' = Pop
    BY <1>13 DEF BothRun, Returns
  <2>2. stack' \in Seq(FrameSet) /\ \A k \in 1..Len(stack') : FrameOK(stack'[k])
    BY <2>1, StackPopped, Zenon
  <2> QED
    BY <1>1, <1>13, <2>2, TypesMoved DEF BothRun
<1>14. CASE AndOr
  <2>1. stack # <<>> /\ stack' = Pop
    BY <1>14 DEF AndOr, Returns, Call
  <2>2. stack' \in Seq(FrameSet) /\ \A k \in 1..Len(stack') : FrameOK(stack'[k])
    BY <2>1, StackPopped, Zenon
  <2>3. stack[1].rest \in Seq(TokenSet)
    BY <2>1, StackPopped DEF FrameSet
  <2>4. current' \in Seq(TokenSet) /\ linePc' \in {"call", "return", "exited"} /\ ret' = ret
    BY <1>1, <1>14, <2>3 DEF AndOr, Call, Top
  <2> QED
    BY <1>1, <1>14, <2>2, <2>4, TypesMoved DEF AndOr
<1>15. CASE NextSourced
  <2>1. PICK m \in 1..Len(Sourced) :
           /\ stack # <<>> /\ stack[1].kind = "source"
           /\ Sourced[m] \in Seq(TokenSet)
           /\ stack' = [stack EXCEPT ![1].lines = SubSeq(Sourced, m + 1, Len(Sourced))]
           /\ \/ UNCHANGED <<current, linePc, ret>>
              \/ linePc' = "call" /\ current' = Sourced[m] /\ UNCHANGED ret
    BY <1>15, NextSourcedIs
  <2>2. stack' \in Seq(FrameSet) /\ \A k \in 1..Len(stack') : FrameOK(stack'[k])
    BY <2>1, StackOfSource
  <2> QED
    BY <1>1, <1>15, <2>1, <2>2, TypesMoved DEF NextSourced
<1>16. CASE SourceDone
  <2>1. stack # <<>> /\ stack' = Pop
    BY <1>16 DEF SourceDone, Returns
  <2>2. stack' \in Seq(FrameSet) /\ \A k \in 1..Len(stack') : FrameOK(stack'[k])
    BY <2>1, StackPopped, Zenon
  <2> QED
    BY <1>1, <1>16, <2>2, TypesMoved DEF SourceDone
<1>17. CASE MainReturns
  BY <1>1, <1>17, TypesSame DEF MainReturns
<1> QED
  BY <1>3, <1>4, <1>5, <1>6, <1>7, <1>8, <1>9, <1>10, <1>11, <1>12, <1>13, <1>14, <1>15, <1>16, <1>17 DEF LineNext

-----------------------------------------------------------------------------
(* The result and last_exit *)

\* A line in which every && and || has a command to its right is cut into two of them.
LEMMA CompleteCut ==
  ASSUME NEW l \in Seq(TokenSet), Complete(l), NoSource(l), NEW i \in 1..Len(l), l[i].t \in Separators
  PROVE  /\ Complete(Before(l, i)) /\ NoSource(Before(l, i))
         /\ Complete(After(l, i)) /\ NoSource(After(l, i))
         /\ l[i].t \in {"&&", "||"} => Starts(After(l, i))
         /\ Starts(l) => Starts(Before(l, i))
<1>1. PICK left : left = Before(l, i)
  OBVIOUS
<1>2. PICK right : right = After(l, i)
  OBVIOUS
<1>3. /\ Len(l) \in Nat
      /\ Len(left) = i - 1 /\ \A k \in 1..(i - 1) : left[k] = l[k]
      /\ Len(right) = Len(l) - i /\ \A k \in 1..(Len(l) - i) : right[k] = l[i + k]
  <2>1. /\ Len(Before(l, i)) = i - 1 /\ \A k \in 1..(i - 1) : Before(l, i)[k] = l[k]
        /\ Len(After(l, i)) = Len(l) - i /\ \A k \in 1..(Len(l) - i) : After(l, i)[k] = l[i + k]
    BY CutIs
  <2>2. Len(l) \in Nat
    OBVIOUS
  <2> QED
    BY <2>1, <2>2, <1>1, <1>2, Zenon

<1>4. \A k \in 1..Len(l) : l[k].t \in {"&&", "||"} => k < Len(l) /\ k + 1 \in 1..Len(l) /\ l[k + 1].t \in Starters
  BY <1>3 DEF Complete, Positions
<1>5. Starters \cap Separators = {}
  BY DEF Starters, Separators, CommandNames
<1>6. ASSUME NEW k \in 1..Len(left), left[k].t \in {"&&", "||"}
      PROVE  k < Len(left) /\ left[k + 1].t \in Starters
  <2>1. l[k].t \in {"&&", "||"} /\ k \in 1..Len(l)
    BY <1>3, <1>6
  <2>2. k + 1 \in 1..Len(l) /\ l[k + 1].t \in Starters
    BY <1>4, <2>1
  <2>3. k + 1 # i
    BY <1>5, <2>2
  <2>4. k + 1 \in 1..(i - 1)
    BY <1>3, <2>2, <2>3
  <2> QED
    BY <1>3, <2>2, <2>4
<1>7. ASSUME NEW k \in 1..Len(right), right[k].t \in {"&&", "||"}
      PROVE  k < Len(right) /\ right[k + 1].t \in Starters
  <2>1. l[i + k].t \in {"&&", "||"} /\ i + k \in 1..Len(l)
    BY <1>3, <1>7
  <2>2. i + k < Len(l) /\ l[(i + k) + 1].t \in Starters
    BY <1>4, <2>1
  <2>a. k \in Nat /\ k >= 1 /\ Len(l) \in Nat /\ Len(right) = Len(l) - i
    BY <1>3
  <2>3. k + 1 \in 1..(Len(l) - i) /\ (i + k) + 1 = i + (k + 1) /\ k < Len(right)
    BY <2>a, <2>2
  <2>4. right[k + 1] = l[i + (k + 1)]
    BY <1>3, <2>3
  <2> QED
    BY <2>2, <2>3, <2>4
<1>8. Complete(left) /\ Complete(right)
  <2>1. Complete(left)
    BY <1>6 DEF Complete, Positions
  <2>2. Complete(right)
    <3> SUFFICES ASSUME NEW k \in Positions(right, {"&&", "||"})
                 PROVE  k < Len(right) /\ right[k + 1].t \in Starters
      BY DEF Complete
    <3>1. k \in 1..Len(right) /\ right[k].t \in {"&&", "||"}
      BY DEF Positions
    <3> QED
      BY <3>1, <1>7
  <2> QED
    BY <2>1, <2>2
<1>9. NoSource(left) /\ NoSource(right)
  BY <1>3 DEF NoSource
<1>10. ASSUME l[i].t \in {"&&", "||"} PROVE Starts(right)
  <2>1. i < Len(l) /\ l[i + 1].t \in Starters
    BY <1>4, <1>10
  <2> QED
    BY <1>3, <2>1 DEF Starts
<1>11. ASSUME Starts(l) PROVE Starts(left)
  <2>1. l[1].t \in Starters
    BY <1>11 DEF Starts
  <2>2. i # 1
    BY <1>5, <2>1
  <2> QED
    BY <1>3, <2>1, <2>2 DEF Starts
<1> QED
  BY <1>1, <1>2, <1>8, <1>9, <1>10, <1>11

\* A command that was waited for is the last one.
LEMMA LastIsWaited ==
  ASSUME TypeInv, ~Skipped(current), NEW st \in Statuses, Ran(st, 0), lastExit' = st
  PROVE  LastStatus(lastExit)'
<1>1. /\ Len(executed') = Len(executed) + 1 /\ Len(executed) \in Nat
      /\ executed'[Len(executed) + 1].bg = 0 /\ executed'[Len(executed) + 1].status = st
  <2>1. /\ Len(executed') = Len(executed) + 1
        /\ executed'[Len(executed) + 1] = [at |-> current[1].at, status |-> st, bg |-> 0]
    BY RanIs
  <2>2. Len(executed) \in Nat
    BY DEF TypeInv
  <2> QED
    BY <2>1, <2>2
<1>2. Len(executed) + 1 \in Waited'
  BY <1>1 DEF Waited
<1>3. \A m \in Waited' : m <= Len(executed) + 1
  BY <1>1 DEF Waited
<1> QED
  BY <1>1, <1>2, <1>3 DEF LastStatus

\* A command in the background is not waited for.
LEMMA LastStays ==
  ASSUME TypeInv, ~Skipped(current), Ran(lastExit, 1), lastExit' = lastExit, LastStatus(lastExit)
  PROVE  LastStatus(lastExit)'
<1>1. lastExit \in Statuses /\ Len(executed) \in Nat
  BY DEF TypeInv
<1>2. /\ Len(executed') = Len(executed) + 1
      /\ \A n \in 1..Len(executed) : executed'[n] = executed[n]
      /\ executed'[Len(executed) + 1].bg = 1
  <2>1. /\ Len(executed') = Len(executed) + 1
        /\ \A n \in 1..Len(executed) : executed'[n] = executed[n]
        /\ executed'[Len(executed) + 1] = [at |-> current[1].at, status |-> lastExit, bg |-> 1]
    BY <1>1, RanIs
  <2> QED
    BY <2>1
<1>3. Waited' = Waited
  BY <1>1, <1>2 DEF Waited
<1>4. \A n \in Waited : executed'[n] = executed[n]
  BY <1>2 DEF Waited
<1> QED
  BY <1>3, <1>4 DEF LastStatus

\* A line that is skipped, or has no word, does not start with a command.
LEMMA NothingStarts ==
  ASSUME NEW l \in Seq(TokenSet)
  PROVE  /\ Skipped(l) => ~Starts(l)
         /\ Positions(l, Starters) = {} => ~Starts(l)
<1>1. Skipped(l) => ~Starts(l)
  BY DEF Skipped, Starts, Starters, CommandNames
<1>2. Positions(l, Starters) = {} => ~Starts(l)
  BY DEF Starts, Positions
<1> QED
  BY <1>1, <1>2

\* A caller popped from the stack: what was true of the others still is.
LEMMA ExitPopped ==
  ASSUME TypeInv, stack # <<>>, stack' = Pop, StackExit
  PROVE  /\ StackExit'
         /\ Discards => stack[1].kind \in {";", "second"} \/ Discards'
<1>1. /\ stack \in Seq(FrameSet) /\ Len(stack) \in Nat /\ Len(stack) >= 1
      /\ Len(stack') = Len(stack) - 1
      /\ \A k \in 1..Len(stack') : stack'[k] = stack[k + 1] /\ k + 1 \in 1..Len(stack)
  BY StackPopped DEF TypeInv
<1>2. StackExit'
  <2>1. \A k \in 1..Len(stack') : FrameExit(stack'[k])
    BY <1>1, Zenon DEF StackExit
  <2> QED
    BY <2>1, Zenon DEF StackExit, FrameExit, Complete, NoSource, Starts, Positions
<1>3. ASSUME NEW k \in 1..Len(stack), stack[k].kind \in {";", "second"}, k # 1
      PROVE  Discards'
  <2>a. PICK n : n = Len(stack')
    OBVIOUS
  <2>b. n = Len(stack) - 1 /\ \A j \in 1..n : stack'[j] = stack[j + 1]
    BY <1>1, <2>a
  <2>d. k # 1
    BY <1>3
  <2>e. Len(stack) \in Nat
    BY <1>1
  <2>f. n = Len(stack) - 1
    BY <2>b
  <2>c. k - 1 \in 1..n /\ (k - 1) + 1 = k
    BY <2>d, <2>e, <2>f
  <2>1. k - 1 \in 1..Len(stack') /\ stack'[k - 1] = stack[k]
    BY <2>a, <2>b, <2>c
  <2> QED
    BY <2>1, <1>3 DEF Discards
<1> QED
  BY <1>2, <1>3 DEF Discards

\* A line that ran, and whose status is the result and last_exit.
LEMMA ExitRan ==
  ASSUME TypeInv, StackExit, UNCHANGED stack, linePc' = "return", ret' = lastExit', LastStatus(lastExit)'
  PROVE  CallExit' /\ StackExit' /\ ReturnExit' /\ LastStatus(lastExit)'
<1>1. StackExit'
  BY DEF StackExit, FrameExit, Complete, NoSource, Starts, Positions
<1> QED
  BY <1>1 DEF CallExit, ReturnExit

\* A line in which nothing is run: the result is 0.
LEMMA ExitNone ==
  ASSUME TypeInv, CallExit, StackExit, LastStatus(lastExit), linePc = "call", ~Starts(current),
         UNCHANGED <<stack, lastExit, executed>>, linePc' = "return", ret' = 0
  PROVE  CallExit' /\ StackExit' /\ ReturnExit' /\ LastStatus(lastExit)'
<1>1. StackExit'
  BY DEF StackExit, FrameExit, Complete, NoSource, Starts, Positions
<1>2. LastStatus(lastExit)'
  BY DEF LastStatus, Waited
<1>3. lastExit = 0 \/ Discards
  BY DEF CallExit
<1>4. ret' = lastExit' \/ Discards'
  BY <1>3 DEF Discards
<1> QED
  BY <1>1, <1>2, <1>4 DEF CallExit, ReturnExit

\* Every step keeps what relates the result to last_exit.
LEMMA ExitKept ==
  ASSUME LineAssumptions, TypeInv, ExitInv, LineNext
  PROVE  ExitInv'
<1>0. UNCHANGED given
  BY DEF LineNext, Nothing, Split, NoCommand, Builtin, ExitBuiltin, Source, SourceFails, Execute, ForkFails,
         RunSecond, BothRun, AndOr, NextSourced, SourceDone, MainReturns
<1> SUFFICES ASSUME failed' = 0, Complete(given), NoSource(given)
             PROVE  CallExit' /\ StackExit' /\ ReturnExit' /\ LastStatus(lastExit)'
  BY <1>0, Zenon DEF ExitInv, Complete, NoSource, Positions
<1>1. failed = 0
  <2>1. UNCHANGED failed \/ failed' = 1
    BY DEF LineNext, Nothing, Split, NoCommand, Builtin, ExitBuiltin, Source, SourceFails, Execute, ForkFails,
           RunSecond, BothRun, AndOr, NextSourced, SourceDone, MainReturns
  <2> QED
    BY <2>1
<1>2. CallExit /\ StackExit /\ ReturnExit /\ LastStatus(lastExit)
  BY <1>1, Zenon DEF ExitInv
<1>3. /\ current \in Seq(TokenSet) /\ stack \in Seq(FrameSet)
      /\ lastExit \in Statuses /\ 0 \in Statuses /\ 1 \in Statuses
  BY Constants DEF TypeInv, Line, TokenSet
<1>4. ASSUME linePc = "call", Words # {}, Name = "source" PROVE FALSE
  <2>1. FirstOf(Words) \in 1..Len(current)
    BY <1>4, <1>3, FirstIs DEF Words, Line, TokenSet
  <2> QED
    BY <2>1, <1>2, <1>4 DEF Name, CallExit, NoSource
<1>5. ASSUME stack # <<>> PROVE stack[1].kind # "source" /\ FrameExit(stack[1]) /\ 1 \in 1..Len(stack)
  <2>1. 1 \in 1..Len(stack)
    BY <1>5, <1>3
  <2> QED
    BY <2>1, <1>2 DEF StackExit, FrameExit
<1>6. CASE Nothing
  BY <1>2, <1>3, <1>6, NothingStarts, ExitNone DEF Nothing, Result
<1>7. CASE Split
  <2>1. PICK i \in 1..Len(current), kind \in Separators :
           /\ current[i].t = kind
           /\ current' = Before(current, i)
           /\ stack' = <<Frame(kind, After(current, i), <<>>)>> \o stack
    BY <1>7, SplitIs
  <2>2. linePc = "call" /\ UNCHANGED <<linePc, ret, lastExit, executed>>
    BY <1>7 DEF Split
  <2>3. /\ Complete(current') /\ NoSource(current')
        /\ Complete(After(current, i)) /\ NoSource(After(current, i))
        /\ kind \in {"&&", "||"} => Starts(After(current, i))
        /\ Starts(current) => Starts(current')
    BY <1>2, <1>3, <2>1, <2>2, CompleteCut DEF CallExit
  <2>4. PICK fr : fr = Frame(kind, After(current, i), <<>>)
    OBVIOUS
  <2>5. fr.kind = kind /\ FrameExit(fr)
    BY <2>3, <2>4 DEF Frame, FrameExit, Separators
  <2>6. fr \in FrameSet
    <3>1. After(current, i) \in Seq(TokenSet) /\ kind # "second"
      BY <1>3, CutIs DEF Separators
    <3> QED
      BY <3>1, <2>4, FrameIs DEF FrameOK
  <2>7. /\ Len(stack') = Len(stack) + 1 /\ Len(stack) \in Nat /\ stack'[1] = fr
        /\ \A k \in 1..Len(stack) : stack'[k + 1] = stack[k]
        /\ \A k \in 2..(Len(stack) + 1) : stack'[k] = stack[k - 1]
    BY <1>3, <2>1, <2>4, <2>6, PushIs
  <2>8. ASSUME NEW k \in 1..Len(stack') PROVE FrameExit(stack'[k])
    <3>1. CASE k = 1
      BY <3>1, <2>5, <2>7
    <3>2. CASE k # 1
      <4>1. k - 1 \in 1..Len(stack) /\ k \in 2..(Len(stack) + 1)
        BY <3>2, <2>7
      <4> QED
        BY <4>1, <2>7, <1>2 DEF StackExit
    <3> QED
      BY <3>1, <3>2
  <2>9. StackExit'
    BY <2>8, Zenon DEF StackExit, FrameExit, Complete, NoSource, Starts, Positions
  <2>10. Discards => Discards'
    <3>1. \A k \in 1..Len(stack) : k + 1 \in 1..Len(stack')
      BY <2>7
    <3> QED
      BY <2>7, <3>1 DEF Discards
  <2>11. CallExit'
    <3>1. Starts(current) \/ lastExit = 0 \/ Discards
      BY <1>2, <2>2 DEF CallExit
    <3> QED
      BY <2>2, <2>3, <2>10, <3>1 DEF CallExit, Complete, NoSource, Starts, Positions
  <2> QED
    BY <1>2, <2>2, <2>9, <2>11 DEF ReturnExit, LastStatus, Waited
<1>8. CASE NoCommand
  BY <1>2, <1>3, <1>8, NothingStarts, ExitNone DEF NoCommand, Result, IsPipeline, Words
<1>9. CASE Builtin
  <2>1. PICK st \in Statuses : Result(st) /\ lastExit' = st /\ Ran(st, 0) /\ ~Skipped(current)
    BY <1>9 DEF Builtin, SetExit, BuiltinResults, IsPipeline
  <2> QED
    BY <1>2, <2>1, LastIsWaited, ExitRan DEF Result
<1>10. CASE ExitBuiltin
  <2>1. /\ lastExit' = lastExit /\ Ran(lastExit, 0) /\ ~Skipped(current)
        /\ linePc' = "exited" /\ ret' = lastExit /\ UNCHANGED stack
    BY <1>10 DEF ExitBuiltin, IsPipeline
  <2>2. LastStatus(lastExit)'
    BY <1>3, <2>1, LastIsWaited
  <2>3. StackExit'
    BY <1>2, <2>1 DEF StackExit, FrameExit, Complete, NoSource, Starts, Positions
  <2> QED
    BY <2>1, <2>2, <2>3 DEF CallExit, ReturnExit
<1>11. CASE Source
  BY <1>4, <1>11 DEF Source, IsPipeline
<1>12. CASE SourceFails
  BY <1>4, <1>12 DEF SourceFails, IsPipeline
<1>13. CASE Execute
  <2>1. CASE Result(lastExit) /\ Ran(lastExit, 1) /\ UNCHANGED lastExit
    <3>1. ~Skipped(current)
      BY <1>13 DEF Execute, IsPipeline
    <3> QED
      BY <1>2, <2>1, <3>1, LastStays, ExitRan DEF Result
  <2>2. CASE \E st \in Statuses : Result(st) /\ lastExit' = st /\ Ran(st, 0)
    <3>1. PICK st \in Statuses : Result(st) /\ lastExit' = st /\ Ran(st, 0) /\ ~Skipped(current)
      BY <1>13, <2>2 DEF Execute, IsPipeline
    <3> QED
      BY <1>2, <3>1, LastIsWaited, ExitRan DEF Result
  <2> QED
    BY <1>13, <2>1, <2>2 DEF Execute
<1>14. CASE ForkFails
  <2>1. failed' = 1
    BY <1>14 DEF ForkFails
  <2> QED
    BY <2>1
<1>15. CASE RunSecond
  <2>1. stack # <<>> /\ stack[1].kind = ";"
    BY <1>15 DEF RunSecond, Returns, Top
  <2>2. PICK st : st = Pop
    OBVIOUS
  <2>3. PICK fr : fr = Frame("second", <<>>, <<>>)
    OBVIOUS
  <2>4. /\ stack' = <<fr>> \o st /\ current' = stack[1].rest /\ linePc' = "call"
        /\ UNCHANGED <<ret, lastExit, executed>>
    BY <1>15, <2>2, <2>3 DEF RunSecond, Call, Top
  <2>5. /\ st \in Seq(FrameSet) /\ \A k \in 1..Len(st) : st[k] = stack[k + 1] /\ k + 1 \in 1..Len(stack)
    BY <2>1, <2>2, StackPopped
  <2>6. fr \in FrameSet /\ fr.kind = "second" /\ fr.rest = <<>>
    <3>1. <<>> \in Seq(TokenSet)
      OBVIOUS
    <3> QED
      BY <2>3, <3>1, FrameIs DEF FrameOK, Frame
  <2>7. /\ Len(stack') = Len(st) + 1 /\ Len(st) \in Nat /\ stack'[1] = fr
        /\ \A k \in 2..(Len(st) + 1) : stack'[k] = st[k - 1]
    BY <2>4, <2>5, <2>6, PushIs
  <2>8. FrameExit(fr)
    BY <2>6 DEF FrameExit, Complete, NoSource, Positions
  <2>9. ASSUME NEW k \in 1..Len(stack') PROVE FrameExit(stack'[k])
    <3>1. CASE k = 1
      BY <3>1, <2>7, <2>8
    <3>2. CASE k # 1
      <4>1. k - 1 \in 1..Len(st) /\ k \in 2..(Len(st) + 1)
        BY <3>2, <2>7
      <4>2. stack'[k] = stack[(k - 1) + 1] /\ (k - 1) + 1 \in 1..Len(stack)
        BY <4>1, <2>5, <2>7
      <4> QED
        BY <4>2, <1>2 DEF StackExit
    <3> QED
      BY <3>1, <3>2
  <2>10. StackExit'
    BY <2>9, Zenon DEF StackExit, FrameExit, Complete, NoSource, Starts, Positions
  <2>11. Discards'
    <3>1. 1 \in 1..Len(stack')
      BY <2>7
    <3> QED
      BY <3>1, <2>6, <2>7 DEF Discards
  <2>12. CallExit'
    <3>1. Complete(stack[1].rest) /\ NoSource(stack[1].rest)
      BY <2>1, <1>5 DEF FrameExit
    <3> QED
      BY <3>1, <2>4, <2>11 DEF CallExit, Complete, NoSource, Positions
  <2> QED
    BY <1>2, <2>4, <2>10, <2>12 DEF ReturnExit, LastStatus, Waited
<1>16. CASE BothRun
  <2>1. stack # <<>> /\ stack' = Pop /\ ret' = lastExit /\ linePc = "return" /\ UNCHANGED <<linePc, lastExit, executed>>
    BY <1>16 DEF BothRun, Returns
  <2>2. StackExit'
    BY <1>2, <2>1, ExitPopped
  <2> QED
    BY <1>2, <2>1, <2>2 DEF CallExit, ReturnExit, LastStatus, Waited
<1>17. CASE AndOr
  <2>1. /\ stack # <<>> /\ stack[1].kind \in {"&&", "||"} /\ stack' = Pop
        /\ linePc = "return" /\ UNCHANGED <<lastExit, executed>>
    BY <1>17 DEF AndOr, Returns, Call, Top
  <2>2. StackExit' /\ (Discards => Discards')
    BY <1>2, <2>1, ExitPopped
  <2>3. CASE linePc' = "call" /\ current' = stack[1].rest
    <3>1. Complete(stack[1].rest) /\ NoSource(stack[1].rest) /\ Starts(stack[1].rest)
      BY <2>1, <1>5 DEF FrameExit
    <3>2. CallExit'
      BY <3>1, <2>3 DEF CallExit, Complete, NoSource, Starts, Positions
    <3> QED
      BY <1>2, <2>1, <2>2, <2>3, <3>2 DEF ReturnExit, LastStatus, Waited
  <2>4. CASE UNCHANGED <<current, linePc, ret>>
    BY <1>2, <2>1, <2>2, <2>4 DEF CallExit, ReturnExit, LastStatus, Waited
  <2> QED
    BY <1>17, <2>3, <2>4 DEF AndOr, Call, Top
<1>18. CASE NextSourced
  BY <1>5, <1>18 DEF NextSourced, Returns, Top
<1>19. CASE SourceDone
  BY <1>5, <1>19 DEF SourceDone, Returns, Top
<1>20. CASE MainReturns
  <2>1. /\ stack = <<>> /\ linePc = "return" /\ linePc' = "exited" /\ UNCHANGED <<stack, lastExit, executed>>
        /\ ret' = IF mode = "-c" THEN ret ELSE lastExit
    BY <1>20 DEF MainReturns
  <2>2. ~Discards
    BY <2>1 DEF Discards
  <2>3. ret' = lastExit
    BY <1>2, <2>1, <2>2 DEF ReturnExit
  <2>4. StackExit'
    BY <2>1 DEF StackExit
  <2> QED
    BY <1>2, <2>1, <2>3, <2>4 DEF CallExit, ReturnExit, LastStatus, Waited
<1> QED
  BY <1>6, <1>7, <1>8, <1>9, <1>10, <1>11, <1>12, <1>13, <1>14, <1>15, <1>16, <1>17, <1>18, <1>19, <1>20 DEF LineNext

-----------------------------------------------------------------------------
(* The order of what waits *)

\* B is what waits after a step that runs nothing: each B[k] is part of A[h[k]],
\* h keeps the order, and what comes from the same A[k] is in order.
Moved(A, n, B, m, h, P) ==
  /\ h \in [0..m -> 0..n]
  /\ \A k \in 0..m : B[k] \subseteq A[h[k]]
  /\ \A j, k \in 0..m : j < k => h[j] <= h[k]
  /\ \A j, k \in 0..m : j < k /\ h[j] = h[k] => Below(B[j], B[k], P)

\* A step that runs nothing keeps the agenda in order.
LEMMA AgendaMoved ==
  ASSUME NEW e, NEW A, NEW n \in Nat, NEW B, NEW m \in Nat, NEW h, NEW P,
         Moved(A, n, B, m, h, P), Agenda(e, A, n, P)
  PROVE  Agenda(e, B, m, P)
<1>1. \A k \in 0..m : h[k] \in 0..n /\ B[k] \subseteq A[h[k]]
  BY DEF Moved
<1>2. ASSUME NEW k \in 0..m PROVE Below(TokensOf(e), B[k], P)
  <2>1. Below(TokensOf(e), A[h[k]], P)
    BY <1>1 DEF Agenda
  <2> QED
    BY <1>1, <2>1 DEF Below
<1>3. ASSUME NEW j \in 0..m, NEW k \in 0..m, j < k PROVE Below(B[j], B[k], P)
  <2>1. CASE h[j] = h[k]
    BY <1>3, <2>1 DEF Moved
  <2>2. CASE h[j] # h[k]
    <3>1. h[j] < h[k]
      <4>1. h[j] <= h[k]
        BY <1>3 DEF Moved
      <4> QED
        BY <4>1, <2>2, <1>1
    <3>2. Below(A[h[j]], A[h[k]], P)
      BY <1>1, <3>1 DEF Agenda
    <3> QED
      BY <1>1, <3>2 DEF Below
  <2> QED
    BY <2>1, <2>2
<1> QED
  BY <1>2, <1>3 DEF Agenda

\* It keeps what waits known, and the file untouched while a "source" waits.
LEMMA KnownMoved ==
  ASSUME NEW A, NEW n \in Nat, NEW B, NEW m \in Nat, NEW h, NEW g,
         h \in [0..m -> 0..n], \A k \in 0..m : B[k] \subseteq A[h[k]]
  PROVE  /\ KnownItems(A, n, g) => KnownItems(B, m, g)
         /\ SourceWaits(B, m) => SourceWaits(A, n)
         /\ \A e, l : Untouched(e, A, n, l) => Untouched(e, B, m, l)
<1>1. \A k \in 0..m : h[k] \in 0..n /\ \A tk \in B[k] : tk \in A[h[k]]
  OBVIOUS
<1>2. KnownItems(A, n, g) => KnownItems(B, m, g)
  BY <1>1, Zenon DEF KnownItems
<1>3. SourceWaits(B, m) => SourceWaits(A, n)
  BY <1>1, Zenon DEF SourceWaits
<1>4. \A e, l : Untouched(e, A, n, l) => Untouched(e, B, m, l)
  BY <1>1, Zenon DEF Untouched
<1> QED
  BY <1>2, <1>3, <1>4

\* The places of a line.
LinePlaces == {Places(given)} \cup {Places(Sourced[i]) : i \in 1..Len(Sourced)}

\* A step that runs nothing keeps the order.
LEMMA OrderMoved ==
  ASSUME TypeInv, TypeInv', OrderInv, PiecesOrdered', UNCHANGED <<given, executed>>, NEW h,
         \A P \in LinePlaces : Moved(Items, Len(stack), Items', Len(stack'), h, P)
  PROVE  OrderInv'
<1>1. PICK A : A = Items
  OBVIOUS
<1>2. PICK B : B = Items'
  OBVIOUS
<1>3. PICK n \in Nat, m \in Nat : n = Len(stack) /\ m = Len(stack')
  BY DEF TypeInv
<1>4. \A P \in LinePlaces : Moved(A, n, B, m, h, P)
  BY <1>1, <1>2, <1>3
<1>5. Places(given) \in LinePlaces /\ \A i \in 1..Len(Sourced) : Places(Sourced[i]) \in LinePlaces
  BY DEF LinePlaces
<1>6. h \in [0..m -> 0..n] /\ \A k \in 0..m : B[k] \subseteq A[h[k]]
  BY <1>4, <1>5 DEF Moved
<1>7. KnownItems(A, n, given) /\ Agenda(executed, A, n, Places(given))
  BY <1>1, <1>3 DEF OrderInv
<1>8. KnownItems(B, m, given)
  BY <1>6, <1>7, KnownMoved
<1>9. Agenda(executed, B, m, Places(given))
  BY <1>4, <1>5, <1>7, AgendaMoved
<1>10. ASSUME SourcedOnce, NEW i \in 1..Len(Sourced) PROVE FileOrder(executed, B, m, Sourced[i])
  <2>1. FileOrder(executed, A, n, Sourced[i])
    BY <1>1, <1>3, <1>10 DEF OrderInv
  <2>2. Agenda(executed, B, m, Places(Sourced[i]))
    BY <2>1, <1>4, <1>5, AgendaMoved DEF FileOrder
  <2>3. SourceWaits(B, m) => SourceWaits(A, n)
    BY <1>6, KnownMoved
  <2>4. Untouched(executed, A, n, Sourced[i]) => Untouched(executed, B, m, Sourced[i])
    BY <1>6, KnownMoved
  <2> QED
    BY <2>1, <2>2, <2>3, <2>4 DEF FileOrder
<1>11. SourcedOnce' = SourcedOnce
  BY DEF SourcedOnce, Positions
<1> QED
  BY <1>2, <1>3, <1>8, <1>9, <1>10, <1>11 DEF OrderInv

\* What waits, before and after a step.
LEMMA ItemsAre ==
  /\ Items[0] = Now /\ \A k \in 1..Len(stack) : Items[k] = Waiting(stack[k])
  /\ Items'[0] = Now' /\ \A k \in 1..Len(stack') : Items'[k] = Waiting(stack'[k])
<1>1. Items[0] = Now /\ \A k \in 1..Len(stack) : Items[k] = Waiting(stack[k])
  BY DEF Items
<1>2. Items'[0] = Now' /\ \A k \in 1..Len(stack') : Items'[k] = Waiting(stack'[k])
  BY DEF Items, Waiting, TokensOf
<1> QED
  BY <1>1, <1>2

\* A caller with no lines of a file waits with the rest of its line.
LEMMA WaitingRest ==
  ASSUME NEW fr, fr.lines = <<>>
  PROVE  Waiting(fr) = TokensOf(fr.rest)
BY DEF Waiting

\* The stack stays as it is and there is no current line.
LEMMA StayMoved ==
  ASSUME TypeInv, UNCHANGED stack, Now' = {}, NEW P
  PROVE  Moved(Items, Len(stack), Items', Len(stack'), [k \in 0..Len(stack') |-> k], P)
<1>1. PICK A, B : A = Items /\ B = Items'
  OBVIOUS
<1>2. PICK n \in Nat : n = Len(stack)
  BY DEF TypeInv
<1>3. B[0] = {} /\ \A k \in 1..n : B[k] = A[k]
  <2>1. /\ Items'[0] = {}
        /\ \A k \in 1..Len(stack) : Items[k] = Waiting(stack[k]) /\ Items'[k] = Waiting(stack[k])
    BY ItemsAre, Zenon
  <2> QED
    BY <2>1, <1>1, <1>2, Zenon
<1>4. PICK h : h = [k \in 0..n |-> k]
  OBVIOUS
<1>5. Moved(A, n, B, n, h, P)
  BY <1>3, <1>4 DEF Moved
<1> QED
  BY <1>1, <1>2, <1>4, <1>5

\* The first caller is gone, and what it waited with may be the current line.
LEMMA PopMoved ==
  ASSUME TypeInv, stack # <<>>, stack' = Pop, Now' \subseteq Waiting(stack[1]), NEW P
  PROVE  Moved(Items, Len(stack), Items', Len(stack'), [k \in 0..Len(stack') |-> k + 1], P)
<1>1. PICK A, B : A = Items /\ B = Items'
  OBVIOUS
<1>2. PICK n \in Nat, m \in Nat : n = Len(stack) /\ m = Len(stack') /\ n = m + 1
  BY StackPopped DEF TypeInv
<1>3. B[0] \subseteq A[1]
  BY <1>1, <1>2, ItemsAre
<1>4. ASSUME NEW k \in 1..m PROVE B[k] = A[k + 1]
  <2>1. Pop[k] = stack[k + 1] /\ k + 1 \in 1..Len(stack)
    BY <1>2, StackPopped
  <2>2. Items[k + 1] = Waiting(stack[k + 1]) /\ Items'[k] = Waiting(stack'[k])
    BY <2>1, <1>2, ItemsAre
  <2> QED
    BY <2>1, <2>2, <1>1
<1>5. PICK h : h = [k \in 0..m |-> k + 1]
  OBVIOUS
<1>6. \A k \in 0..m : h[k] = k + 1 /\ h[k] \in 0..n /\ B[k] \subseteq A[h[k]]
  BY <1>2, <1>3, <1>4, <1>5
<1>7. Moved(A, n, B, m, h, P)
  BY <1>5, <1>6 DEF Moved
<1> QED
  BY <1>1, <1>2, <1>5, <1>7

\* The first caller stays, and part of what it waited with may be the current line.
LEMMA TakenMoved ==
  ASSUME TypeInv, stack # <<>>, Len(stack') = Len(stack),
         \A k \in 2..Len(stack) : stack'[k] = stack[k],
         Now' \subseteq Waiting(stack[1]), Waiting(stack'[1]) \subseteq Waiting(stack[1]),
         NEW P, Below(Now', Waiting(stack'[1]), P)
  PROVE  Moved(Items, Len(stack), Items', Len(stack'), [k \in 0..Len(stack') |-> IF k = 0 THEN 1 ELSE k], P)
<1>1. PICK A, B : A = Items /\ B = Items'
  OBVIOUS
<1>2. PICK n \in Nat : n = Len(stack) /\ n = Len(stack') /\ n >= 1
  BY DEF TypeInv
<1>3. B[0] \subseteq A[1] /\ B[1] \subseteq A[1] /\ Below(B[0], B[1], P)
  BY <1>1, <1>2, ItemsAre
<1>4. \A k \in 2..n : B[k] = A[k]
  BY <1>1, <1>2, ItemsAre
<1>5. PICK h : h = [k \in 0..n |-> IF k = 0 THEN 1 ELSE k]
  OBVIOUS
<1>6. \A k \in 0..n : h[k] = (IF k = 0 THEN 1 ELSE k) /\ h[k] \in 0..n /\ B[k] \subseteq A[h[k]]
  BY <1>2, <1>3, <1>4, <1>5
<1>7. \A j, k \in 0..n : j < k => h[j] <= h[k] /\ (h[j] = h[k] => j = 0 /\ k = 1)
  BY <1>6
<1>8. Moved(A, n, B, n, h, P)
  BY <1>3, <1>5, <1>6, <1>7 DEF Moved
<1> QED
  BY <1>1, <1>2, <1>5, <1>8

\* A new caller takes part of the current line, to the right of what is left of it.
LEMMA PushMoved ==
  ASSUME TypeInv, NEW fr \in FrameSet, stack' = <<fr>> \o stack,
         Now' \subseteq Now, Waiting(fr) \subseteq Now, NEW P, Below(Now', Waiting(fr), P)
  PROVE  Moved(Items, Len(stack), Items', Len(stack'), [k \in 0..Len(stack') |-> IF k = 0 THEN 0 ELSE k - 1], P)
<1>1. PICK A, B : A = Items /\ B = Items'
  OBVIOUS
<1>2. PICK n \in Nat, m \in Nat : n = Len(stack) /\ m = Len(stack') /\ m = n + 1
  BY PushIs DEF TypeInv
<1>a. stack'[1] = fr /\ \A k \in 2..m : stack'[k] = stack[k - 1]
  BY <1>2, PushIs DEF TypeInv
<1>3. B[0] \subseteq A[0] /\ B[1] \subseteq A[0] /\ Below(B[0], B[1], P)
  BY <1>1, <1>2, <1>a, ItemsAre
<1>4. ASSUME NEW k \in 2..m PROVE B[k] = A[k - 1]
  <2>1. k - 1 \in 1..Len(stack) /\ k \in 1..Len(stack')
    BY <1>2
  <2>2. Items'[k] = Waiting(stack'[k]) /\ Items[k - 1] = Waiting(stack[k - 1])
    BY <2>1, ItemsAre
  <2> QED
    BY <2>2, <1>1, <1>a
<1>5. PICK h : h = [k \in 0..m |-> IF k = 0 THEN 0 ELSE k - 1]
  OBVIOUS
<1>6. \A k \in 0..m : h[k] = (IF k = 0 THEN 0 ELSE k - 1) /\ h[k] \in 0..n /\ B[k] \subseteq A[h[k]]
  BY <1>2, <1>3, <1>4, <1>5
<1>7. \A j, k \in 0..m : j < k => h[j] <= h[k] /\ (h[j] = h[k] => j = 0 /\ k = 1)
  BY <1>6
<1>8. Moved(A, n, B, m, h, P)
  BY <1>3, <1>5, <1>6, <1>7 DEF Moved
<1> QED
  BY <1>1, <1>2, <1>5, <1>8

\* What was run, e, and what is run next, to the right of it: a command at tk,
\* which is in the current line.
LEMMA AgendaRan ==
  ASSUME NEW X, NEW e \in Seq(X), NEW d, Len(d) = Len(e) + 1, \A j \in 1..Len(e) : d[j] = e[j],
         NEW A, NEW n \in Nat, NEW tk \in A[0], d[Len(e) + 1].at = tk.at,
         NEW B, B[0] = {}, \A k \in 1..n : B[k] = A[k]
  PROVE  /\ \A P : Agenda(e, A, n, P) => Agenda(d, B, n, P)
         /\ \A l : Untouched(e, A, n, l) => Untouched(d, B, n, l)
<1>0. PICK c \in Nat : c = Len(e) /\ Len(d) = c + 1 /\ d[c + 1].at = tk.at /\ \A j \in 1..c : d[j] = e[j]
  OBVIOUS
<1>1. ASSUME NEW P, Agenda(e, A, n, P) PROVE Agenda(d, B, n, P)
  <2>1. \A a \in TokensOf(e) : a.at \in P /\ tk.at \in P => a.at < tk.at
    BY <1>1 DEF Agenda, Below
  <2>2. ASSUME NEW i \in 1..Len(d), NEW j \in 1..Len(d), i < j, d[i].at \in P, d[j].at \in P
        PROVE  d[i].at < d[j].at
    <3>0. i \in 1..c /\ d[i] = e[i] /\ e[i] \in TokensOf(e)
      BY <2>2, <1>0 DEF TokensOf
    <3>1. CASE j = c + 1
      BY <3>0, <3>1, <2>1, <2>2, <1>0
    <3>2. CASE j # c + 1
      <4>1. j \in 1..c /\ d[j] = e[j]
        BY <3>2, <2>2, <1>0
      <4> QED
        BY <4>1, <3>0, <2>2, <1>0, <1>1 DEF Agenda
    <3> QED
      BY <3>1, <3>2
  <2>3. ASSUME NEW k \in 0..n PROVE Below(TokensOf(d), B[k], P)
    <3>1. CASE k = 0
      BY <3>1 DEF Below
    <3>2. CASE k # 0
      <4>1. k \in 1..n /\ 0 \in 0..n /\ 0 < k
        BY <3>2
      <4>2. Below(TokensOf(e), A[k], P) /\ Below(A[0], A[k], P) /\ B[k] = A[k]
        BY <4>1, <1>1 DEF Agenda
      <4>3. \A a \in TokensOf(d) : a \in TokensOf(e) \/ a.at = tk.at
        <5> SUFFICES ASSUME NEW j \in 1..Len(d) PROVE d[j] \in TokensOf(e) \/ d[j].at = tk.at
          BY DEF TokensOf
        <5>1. CASE j = c + 1
          BY <5>1, <1>0
        <5>2. CASE j # c + 1
          BY <5>2, <1>0 DEF TokensOf
        <5> QED
          BY <5>1, <5>2
      <4> QED
        BY <4>2, <4>3 DEF Below
    <3> QED
      BY <3>1, <3>2
  <2>4. ASSUME NEW j \in 0..n, NEW k \in 0..n, j < k PROVE Below(B[j], B[k], P)
    <3>1. CASE j = 0
      BY <3>1 DEF Below
    <3>2. CASE j # 0
      <4>1. j \in 1..n /\ k \in 1..n
        BY <3>2, <2>4
      <4>2. Below(A[j], A[k], P)
        BY <2>4, <1>1 DEF Agenda
      <4> QED
        BY <4>1, <4>2
    <3> QED
      BY <3>1, <3>2
  <2> QED
    BY <2>2, <2>3, <2>4 DEF Agenda
<1>2. ASSUME NEW l, Untouched(e, A, n, l) PROVE Untouched(d, B, n, l)
  <2>1. tk.at \notin Places(l)
    BY <1>2 DEF Untouched
  <2>2. ASSUME NEW j \in 1..Len(d) PROVE d[j].at \notin Places(l)
    <3>1. CASE j = c + 1
      BY <3>1, <2>1, <1>0
    <3>2. CASE j # c + 1
      <4>1. j \in 1..c
        BY <3>2, <1>0
      <4> QED
        BY <4>1, <1>0, <1>2 DEF Untouched
    <3> QED
      BY <3>1, <3>2
  <2>3. ASSUME NEW k \in 0..n, NEW t \in B[k] PROVE t.at \notin Places(l)
    <3>1. k \in 1..n /\ B[k] = A[k]
      BY <2>3
    <3> QED
      BY <3>1, <2>3, <1>2 DEF Untouched
  <2> QED
    BY <2>2, <2>3 DEF Untouched
<1> QED
  BY <1>1, <1>2

\* A caller is put in at the top that has no token of P, or is the only one that has.
LEMMA AgendaPushed ==
  ASSUME NEW e, NEW A, NEW n \in Nat, NEW B, NEW P, Agenda(e, A, n, P), A[0] = {}, B[0] = {},
         \A k \in 2..(n + 1) : B[k] = A[k - 1],
         \/ \A tk \in B[1] : tk.at \notin P
         \/ /\ \A j \in 1..Len(e) : e[j].at \notin P
            /\ \A k \in 0..n : \A tk \in A[k] : tk.at \notin P
  PROVE  Agenda(e, B, n + 1, P)
<1>1. ASSUME NEW k \in 0..(n + 1) PROVE Below(TokensOf(e), B[k], P)
  <2>1. CASE k = 0
    BY <2>1 DEF Below
  <2>2. CASE k = 1
    BY <2>2 DEF Below, TokensOf
  <2>3. CASE k # 0 /\ k # 1
    <3>1. k \in 2..(n + 1) /\ k - 1 \in 0..n
      BY <2>3
    <3> QED
      BY <3>1 DEF Agenda
  <2> QED
    BY <2>1, <2>2, <2>3
<1>2. ASSUME NEW j \in 0..(n + 1), NEW k \in 0..(n + 1), j < k PROVE Below(B[j], B[k], P)
  <2>1. CASE j = 0
    BY <2>1 DEF Below
  <2>2. CASE j # 0
    <3>1. k \in 2..(n + 1) /\ k - 1 \in 0..n /\ B[k] = A[k - 1]
      BY <2>2, <1>2
    <3>2. CASE j = 1
      BY <3>1, <3>2 DEF Below
    <3>3. CASE j # 1
      <4>1. j \in 2..(n + 1) /\ j - 1 \in 0..n /\ B[j] = A[j - 1] /\ j - 1 < k - 1
        BY <2>2, <3>3, <1>2, <3>1
      <4> QED
        BY <3>1, <4>1 DEF Agenda
    <3> QED
      BY <3>2, <3>3
  <2> QED
    BY <2>1, <2>2
<1> QED
  BY <1>1, <1>2 DEF Agenda

\* A line is run and nothing of it waits any more.
LEMMA OrderRan ==
  ASSUME TypeInv, TypeInv', OrderInv, linePc = "call", linePc' # "call", ~Skipped(current),
         NEW st \in Statuses, NEW bg \in {0, 1}, Ran(st, bg), UNCHANGED <<given, stack>>
  PROVE  OrderInv'
<1>1. PICK A, B : A = Items /\ B = Items'
  OBVIOUS
<1>2. PICK n \in Nat : n = Len(stack) /\ n = Len(stack')
  BY DEF TypeInv
<1>3. B[0] = {} /\ \A k \in 1..n : B[k] = A[k]
  <2>1. /\ Items'[0] = Now' /\ Now' = {}
        /\ \A k \in 1..Len(stack) : Items[k] = Waiting(stack[k]) /\ Items'[k] = Waiting(stack[k])
    BY ItemsAre DEF Now
  <2> QED
    BY <2>1, <1>1, <1>2, Zenon
<1>4. executed \in Seq(RanSet)
  BY DEF TypeInv
<1>5. /\ 1 \in 1..Len(current)
      /\ Len(executed') = Len(executed) + 1
      /\ \A j \in 1..Len(executed) : executed'[j] = executed[j]
      /\ executed'[Len(executed) + 1] = [at |-> current[1].at, status |-> st, bg |-> bg]
  BY RanIs
<1>6. PICK tk : tk = current[1]
  OBVIOUS
<1>7. tk \in A[0]
  BY <1>1, <1>5, <1>6, ItemsAre DEF Now, TokensOf
<1>8. executed'[Len(executed) + 1].at = tk.at
  BY <1>5, <1>6
<1>9. /\ \A P : Agenda(executed, A, n, P) => Agenda(executed', B, n, P)
      /\ \A l : Untouched(executed, A, n, l) => Untouched(executed', B, n, l)
  BY <1>3, <1>4, <1>5, <1>7, <1>8, AgendaRan
<1>10. /\ KnownItems(A, n, given) => KnownItems(B, n, given)
       /\ SourceWaits(B, n) => SourceWaits(A, n)
  <2>1. \A k \in 0..n : B[k] \subseteq A[k]
    BY <1>3
  <2> QED
    BY <2>1 DEF KnownItems, SourceWaits
<1>11. SourcedOnce' = SourcedOnce
  BY DEF SourcedOnce, Positions
<1>12. PiecesOrdered'
  BY DEF OrderInv, PiecesOrdered, Ordered
<1>13. /\ KnownItems(A, n, given) /\ Agenda(executed, A, n, Places(given))
       /\ SourcedOnce => \A i \in 1..Len(Sourced) : FileOrder(executed, A, n, Sourced[i])
  BY <1>1, <1>2 DEF OrderInv
<1>14. SourcedOnce => \A i \in 1..Len(Sourced) : FileOrder(executed', B, n, Sourced[i])
  BY <1>9, <1>10, <1>13, Zenon DEF FileOrder
<1> QED
  BY <1>1, <1>2, <1>9, <1>10, <1>11, <1>12, <1>13, <1>14 DEF OrderInv

\* What the assumptions say of places: they grow, and no two lines share one.
LEMMA PlacesApart ==
  ASSUME LineAssumptions
  PROVE  /\ \A l \in Lines : Ordered(l)
         /\ \A n \in 1..Len(Sourced) : Ordered(Sourced[n])
         /\ \A n \in 1..Len(Sourced) : \A tk \in TokensOf(Sourced[n]) :
              /\ \A l \in Lines : tk.at \notin Places(l)
              /\ \A m \in 1..Len(Sourced) : m # n => tk.at \notin Places(Sourced[m])
<1>1. \A l \in Lines \cup {Sourced[n] : n \in 1..Len(Sourced)} : \A i, j \in 1..Len(l) : i < j => l[i].at < l[j].at
  BY Zenon DEF LineAssumptions
<1>2. \A n \in 1..Len(Sourced) :
        /\ \A l \in Lines : Places(Sourced[n]) \cap Places(l) = {}
        /\ \A m \in 1..Len(Sourced) : m # n => Places(Sourced[n]) \cap Places(Sourced[m]) = {}
  BY Zenon DEF LineAssumptions
<1>3. \A n \in 1..Len(Sourced) : \A tk \in TokensOf(Sourced[n]) : tk.at \in Places(Sourced[n])
  BY Zenon DEF TokensOf, Places
<1> QED
  BY <1>1, <1>2, <1>3 DEF Ordered

\* A line of the file is to the left of all later ones, whatever the line.
LEMMA FileBelow ==
  ASSUME LineAssumptions, given \in Lines, NEW P \in LinePlaces, NEW m \in 1..Len(Sourced), NEW A, NEW B,
         A \subseteq TokensOf(Sourced[m]),
         \A tk \in B : \E i \in 1..Len(Sourced) : i # m /\ tk \in TokensOf(Sourced[i])
  PROVE  Below(A, B, P)
<1>1. CASE P = Places(given)
  <2>1. \A tk \in A : tk.at \notin P
    BY <1>1, PlacesApart
  <2> QED
    BY <2>1 DEF Below
<1>2. CASE \E i \in 1..Len(Sourced) : P = Places(Sourced[i])
  <2>1. PICK i \in 1..Len(Sourced) : P = Places(Sourced[i])
    BY <1>2
  <2>2. CASE i = m
    <3>1. \A tk \in B : tk.at \notin P
      BY <2>1, <2>2, PlacesApart
    <3> QED
      BY <3>1 DEF Below
  <2>3. CASE i # m
    <3>1. \A tk \in A : tk.at \notin P
      BY <2>1, <2>3, PlacesApart
    <3> QED
      BY <3>1 DEF Below
  <2> QED
    BY <2>2, <2>3
<1> QED
  BY <1>1, <1>2 DEF LinePlaces

\* A caller that reads the file waits with the tokens of the lines that are left.
LEMMA WaitingFile ==
  ASSUME LineAssumptions, NEW m \in 1..(Len(Sourced) + 1), NEW fr,
         fr.rest = <<>>, fr.lines = SubSeq(Sourced, m, Len(Sourced))
  PROVE  \A tk : tk \in Waiting(fr) <=> \E i \in m..Len(Sourced) : tk \in TokensOf(Sourced[i])
<1>1. PICK left : left = fr.lines
  OBVIOUS
<1>2. PICK c \in Nat : c = Len(Sourced)
  BY Constants
<1>3. Len(left) = c - m + 1 /\ \A k \in 1..(c - m + 1) : left[k] = Sourced[m + k - 1]
  BY <1>1, <1>2, Constants, LeftOfFile
<1>4. Waiting(fr) = UNION {TokensOf(left[j]) : j \in 1..Len(left)}
  BY <1>1 DEF Waiting, TokensOf
<1>5. ASSUME NEW tk, NEW j \in 1..Len(left), tk \in TokensOf(left[j])
      PROVE  \E i \in m..c : tk \in TokensOf(Sourced[i])
  <2>1. m + j - 1 \in m..c /\ left[j] = Sourced[m + j - 1]
    BY <1>2, <1>3, <1>5
  <2> QED
    BY <2>1, <1>5
<1>6. ASSUME NEW tk, NEW i \in m..c, tk \in TokensOf(Sourced[i])
      PROVE  \E j \in 1..Len(left) : tk \in TokensOf(left[j])
  <2>1. i - m + 1 \in 1..(c - m + 1) /\ m + (i - m + 1) - 1 = i
    BY <1>2
  <2>2. left[i - m + 1] = Sourced[i] /\ i - m + 1 \in 1..Len(left)
    BY <2>1, <1>3
  <2> QED
    BY <2>2, <1>6
<1> QED
  BY <1>2, <1>4, <1>5, <1>6

\* "source" is run: the lines of the file are all that waits of it, and no other
\* "source" waits.
LEMMA OrderSourced ==
  ASSUME LineAssumptions, TypeInv, TypeInv', OrderInv, Source
  PROVE  OrderInv'
<1>0. /\ linePc = "call" /\ linePc' = "return" /\ ~Skipped(current) /\ Ran(0, 0) /\ UNCHANGED given
      /\ stack' = <<Frame("source", <<>>, Sourced)>> \o stack /\ Words # {} /\ Name = "source" /\ given \in Lines
  BY DEF Source, IsPipeline, Push, TypeInv
<1>1. PICK A, B : A = Items /\ B = Items'
  OBVIOUS
<1>2. PICK n \in Nat : n = Len(stack)
  BY DEF TypeInv
<1>3. PICK fr : fr = Frame("source", <<>>, Sourced)
  OBVIOUS
<1>4. fr \in FrameSet /\ fr.rest = <<>> /\ fr.lines = Sourced
  BY <1>3, SourceFrameIs DEF FrameOK, Frame
<1>5. Len(stack') = n + 1 /\ stack'[1] = fr /\ \A k \in 2..(n + 1) : stack'[k] = stack[k - 1]
  <2>1. stack \in Seq(FrameSet) /\ stack' = <<fr>> \o stack
    BY <1>0, <1>3 DEF TypeInv
  <2> QED
    BY <2>1, <1>2, <1>4, PushIs
<1>6. A[0] = TokensOf(current) /\ \A k \in 1..n : A[k] = Waiting(stack[k])
  BY <1>0, <1>1, <1>2, ItemsAre DEF Now
<1>7. B[0] = {} /\ B[1] = Waiting(fr) /\ \A k \in 2..(n + 1) : B[k] = A[k - 1]
  <2>1. B[0] = {}
    BY <1>0, <1>1, ItemsAre DEF Now
  <2>2. \A k \in 1..(n + 1) : B[k] = Waiting(stack'[k])
    BY <1>1, <1>5, ItemsAre
  <2>3. \A k \in 2..(n + 1) : k - 1 \in 1..n
    BY <1>2
  <2> QED
    BY <1>2, <1>5, <1>6, <2>1, <2>2, <2>3
<1>8. \A tk : tk \in B[1] <=> \E i \in 1..Len(Sourced) : tk \in TokensOf(Sourced[i])
  <2>1. Sourced = SubSeq(Sourced, 1, Len(Sourced)) /\ 1 \in 1..(Len(Sourced) + 1)
    BY Constants, SubSeqFull
  <2>2. fr.lines = SubSeq(Sourced, 1, Len(Sourced))
    BY <2>1, <1>4
  <2> QED
    BY <1>4, <1>7, <2>1, <2>2, WaitingFile
<1>9. PICK Z : Z = [k \in 0..n |-> IF k = 0 THEN {} ELSE A[k]]
  OBVIOUS
<1>10. Z[0] = {} /\ (\A k \in 1..n : Z[k] = A[k]) /\ \A k \in 2..(n + 1) : B[k] = Z[k - 1]
  <2>1. \A k \in 2..(n + 1) : k - 1 \in 1..n
    BY <1>2
  <2> QED
    BY <1>7, <1>9, <2>1
<1>11. executed \in Seq(RanSet)
  BY DEF TypeInv
<1>12. /\ 1 \in 1..Len(current)
       /\ Len(executed') = Len(executed) + 1
       /\ \A j \in 1..Len(executed) : executed'[j] = executed[j]
       /\ executed'[Len(executed) + 1] = [at |-> current[1].at, status |-> 0, bg |-> 0]
  BY <1>0, Constants, RanIs
<1>13. PICK tk : tk = current[1]
  OBVIOUS
<1>14. tk \in A[0] /\ executed'[Len(executed) + 1].at = tk.at
  BY <1>6, <1>12, <1>13 DEF TokensOf
<1>15. /\ \A P : Agenda(executed, A, n, P) => Agenda(executed', Z, n, P)
       /\ \A l : Untouched(executed, A, n, l) => Untouched(executed', Z, n, l)
  BY <1>10, <1>11, <1>12, <1>14, AgendaRan
<1>16. /\ KnownItems(A, n, given) /\ Agenda(executed, A, n, Places(given))
       /\ SourcedOnce => \A i \in 1..Len(Sourced) : FileOrder(executed, A, n, Sourced[i])
  BY <1>1, <1>2 DEF OrderInv
<1>17. Agenda(executed', B, n + 1, Places(given))
  <2>1. \A t \in B[1] : t.at \notin Places(given)
    BY <1>0, <1>8, PlacesApart
  <2>2. Agenda(executed', Z, n, Places(given))
    BY <1>15, <1>16
  <2> QED
    BY <1>7, <1>10, <2>1, <2>2, AgendaPushed
<1>18. KnownItems(B, n + 1, given)
  <2> SUFFICES ASSUME NEW k \in 0..(n + 1), NEW t \in B[k]
               PROVE  t \in TokensOf(given) \/ \E i \in 1..Len(Sourced) : t \in TokensOf(Sourced[i])
    BY DEF KnownItems
  <2>1. CASE k = 0
    BY <2>1, <1>7
  <2>2. CASE k = 1
    BY <2>2, <1>8
  <2>3. CASE k # 0 /\ k # 1
    <3>1. k \in 2..(n + 1) /\ k - 1 \in 0..n
      BY <2>3
    <3> QED
      BY <3>1, <1>7, <1>16 DEF KnownItems
  <2> QED
    BY <2>1, <2>2, <2>3
<1>19. ASSUME SourcedOnce PROVE \A i \in 1..Len(Sourced) : FileOrder(executed', B, n + 1, Sourced[i])
  <2>1. PICK p \in 1..Len(current) : current[p].t = "source"
    <3>1. FirstOf(Words) \in 1..Len(current)
      BY <1>0, FirstIs DEF Words, TypeInv
    <3> QED
      BY <3>1, <1>0 DEF Name
  <2>2. PICK src : src = current[p]
    OBVIOUS
  <2>3. src \in A[0] /\ src.t = "source"
    BY <2>1, <2>2, <1>6 DEF TokensOf
  <2>4. \A i \in 1..Len(Sourced) : \A t \in TokensOf(Sourced[i]) : t.t # "source"
    BY <1>19 DEF SourcedOnce, Positions, TokensOf
  <2>5. \A t, u \in TokensOf(given) : t.t = "source" /\ u.t = "source" => t = u
    BY <1>19 DEF SourcedOnce, Positions, TokensOf
  <2>6. src \in TokensOf(given)
    BY <2>3, <2>4, <1>16 DEF KnownItems
  <2>7. ~SourceWaits(B, n + 1)
    <3> SUFFICES ASSUME NEW k \in 0..(n + 1), NEW t \in B[k], t.t = "source" PROVE FALSE
      BY DEF SourceWaits
    <3>1. CASE k = 0
      BY <3>1, <1>7
    <3>2. CASE k = 1
      BY <3>2, <1>8, <2>4
    <3>3. CASE k # 0 /\ k # 1
      <4>1. PICK j \in 1..n : j = k - 1 /\ j \in 0..n /\ 0 \in 0..n /\ 0 < j
        BY <3>3
      <4>2. t \in A[j]
        BY <4>1, <3>3, <1>7
      <4>3. t \in TokensOf(given)
        BY <4>1, <4>2, <2>4, <1>16 DEF KnownItems
      <4>4. t = src
        BY <4>3, <2>3, <2>5, <2>6
      <4>5. Below(A[0], A[j], Places(given))
        BY <4>1, <1>16 DEF Agenda
      <4>6. src.at \in Places(given)
        BY <2>6 DEF TokensOf, Places
      <4>7. src.at < src.at
        BY <2>3, <4>2, <4>4, <4>5, <4>6 DEF Below
      <4>8. src.at \in Nat
        <5>1. current \in Seq(TokenSet)
          BY DEF TypeInv, Line, TokenSet
        <5>2. current[p] \in TokenSet
          BY <5>1
        <5> QED
          BY <5>2, <2>2 DEF TokenSet
      <4> QED
        BY <4>7, <4>8
    <3> QED
      BY <3>1, <3>2, <3>3
  <2>8. ASSUME NEW i \in 1..Len(Sourced) PROVE Agenda(executed', B, n + 1, Places(Sourced[i]))
    <3>1. SourceWaits(A, n)
      BY <2>3 DEF SourceWaits
    <3>2. Untouched(executed, A, n, Sourced[i]) /\ Agenda(executed, A, n, Places(Sourced[i]))
      BY <3>1, <1>16, <1>19 DEF FileOrder
    <3>3. Untouched(executed', Z, n, Sourced[i]) /\ Agenda(executed', Z, n, Places(Sourced[i]))
      BY <3>2, <1>15
    <3>4. /\ \A j \in 1..Len(executed') : executed'[j].at \notin Places(Sourced[i])
          /\ \A k \in 0..n : \A t \in Z[k] : t.at \notin Places(Sourced[i])
      BY <3>3, Zenon DEF Untouched
    <3> QED
      BY <3>3, <3>4, <1>7, <1>10, AgendaPushed
  <2> QED
    BY <2>7, <2>8 DEF FileOrder
<1>20. PiecesOrdered'
  <2>1. ASSUME NEW k \in 1..Len(stack') PROVE Ordered(stack'[k].rest)
    <3>1. CASE k = 1
      BY <3>1, <1>4, <1>5 DEF Ordered
    <3>2. CASE k # 1
      <4>1. k \in 2..(n + 1) /\ k - 1 \in 1..Len(stack)
        BY <3>2, <1>2, <1>5
      <4> QED
        BY <4>1, <1>5 DEF OrderInv, PiecesOrdered
    <3> QED
      BY <3>1, <3>2
  <2> QED
    BY <1>0, <2>1, Zenon DEF PiecesOrdered, Ordered
<1>21. SourcedOnce' = SourcedOnce
  BY <1>0 DEF SourcedOnce, Positions
<1> QED
  BY <1>0, <1>1, <1>5, <1>17, <1>18, <1>19, <1>20, <1>21 DEF OrderInv

\* The pieces are in order after a caller is gone.
LEMMA OrderedPopped ==
  ASSUME TypeInv, PiecesOrdered, stack # <<>>, stack' = Pop
  PROVE  Ordered(stack[1].rest) /\ \A k \in 1..Len(stack') : Ordered(stack'[k].rest)
<1>1. 1 \in 1..Len(stack) /\ \A k \in 1..Len(stack') : stack'[k] = stack[k + 1] /\ k + 1 \in 1..Len(stack)
  BY StackPopped DEF TypeInv
<1> QED
  BY <1>1 DEF PiecesOrdered

\* Every step keeps the order.
LEMMA OrderKept ==
  ASSUME LineAssumptions, TypeInv, TypeInv', OrderInv, LineNext
  PROVE  OrderInv'
<1>1. /\ 0 \in Statuses /\ 1 \in Statuses /\ lastExit \in Statuses /\ given \in Lines
      /\ current \in Seq(TokenSet) /\ stack \in Seq(FrameSet) /\ Len(stack) \in Nat
  BY Constants DEF TypeInv, Line, TokenSet
<1>2. PiecesOrdered
  BY DEF OrderInv
<1>3. ASSUME UNCHANGED <<given, executed, stack>>, linePc' # "call" PROVE OrderInv'
  <2>1. Now' = {}
    BY <1>3 DEF Now
  <2>2. PiecesOrdered'
    BY <1>2, <1>3 DEF PiecesOrdered, Ordered
  <2> QED
    BY <1>3, <2>1, <2>2, StayMoved, OrderMoved
<1>4. ASSUME stack # <<>>, stack' = Pop, UNCHANGED <<given, executed>>,
             \/ linePc' # "call"
             \/ current' = stack[1].rest
      PROVE  OrderInv'
  <2>1. Now' \subseteq Waiting(stack[1])
    BY <1>4 DEF Now, Waiting, TokensOf
  <2>2. PiecesOrdered'
    <3>1. Ordered(stack[1].rest) /\ \A k \in 1..Len(stack') : Ordered(stack'[k].rest)
      BY <1>2, <1>4, OrderedPopped
    <3> QED
      BY <1>4, <3>1 DEF PiecesOrdered, Ordered
  <2> QED
    BY <1>4, <2>1, <2>2, PopMoved, OrderMoved
<1>5. CASE Nothing
  BY <1>3, <1>5 DEF Nothing, Result
<1>6. CASE Split
  <2>1. PICK i \in 1..Len(current), kind \in Separators :
           /\ current' = Before(current, i)
           /\ stack' = <<Frame(kind, After(current, i), <<>>)>> \o stack
    BY <1>6, SplitIs
  <2>2. linePc = "call" /\ linePc' = "call" /\ UNCHANGED <<given, executed>>
    BY <1>6 DEF Split
  <2>3. PICK fr : fr = Frame(kind, After(current, i), <<>>)
    OBVIOUS
  <2>4. PICK right : right = After(current, i)
    OBVIOUS
  <2>5. /\ current' \in Seq(TokenSet) /\ Len(current') = i - 1 /\ \A k \in 1..(i - 1) : current'[k] = current[k]
        /\ right \in Seq(TokenSet) /\ Len(right) = Len(current) - i
        /\ \A k \in 1..(Len(current) - i) : right[k] = current[i + k]
    <3>1. /\ Before(current, i) \in Seq(TokenSet) /\ Len(Before(current, i)) = i - 1
          /\ \A k \in 1..(i - 1) : Before(current, i)[k] = current[k]
          /\ After(current, i) \in Seq(TokenSet) /\ Len(After(current, i)) = Len(current) - i
          /\ \A k \in 1..(Len(current) - i) : After(current, i)[k] = current[i + k]
      BY <1>1, CutIs
    <3> QED
      BY <3>1, <2>1, <2>4, Zenon
  <2>6. fr \in FrameSet /\ fr.rest = right /\ fr.lines = <<>>
    <3>1. kind # "second"
      BY DEF Separators
    <3> QED
      BY <2>3, <2>4, <2>5, <3>1, FrameIs DEF FrameOK, Frame
  <2>7. Waiting(fr) = TokensOf(right)
    BY <2>6, WaitingRest
  <2>8. PICK c \in Nat : c = Len(current)
    BY <1>1
  <2>9. Ordered(current)
    BY <1>2, <2>2 DEF PiecesOrdered
  <2>10. Now = TokensOf(current) /\ Now' = TokensOf(current')
    BY <2>2 DEF Now, TokensOf
  <2>11. Now' \subseteq Now
    <3>1. \A k \in 1..(i - 1) : k \in 1..c
      BY <2>8
    <3> QED
      BY <2>5, <2>8, <2>10, <3>1 DEF TokensOf
  <2>12. Waiting(fr) \subseteq Now
    <3>1. \A k \in 1..(c - i) : i + k \in 1..c
      BY <2>8
    <3> QED
      BY <2>5, <2>7, <2>8, <2>10, <3>1 DEF TokensOf
  <2>13. ASSUME NEW P PROVE Below(Now', Waiting(fr), P)
    <3> SUFFICES ASSUME NEW j \in 1..Len(current'), NEW k \in 1..Len(right)
                 PROVE  current'[j].at < right[k].at
      BY <2>7, <2>10, Zenon DEF Below, TokensOf
    <3>1. j \in 1..c /\ i + k \in 1..c /\ j < i + k
      BY <2>5, <2>8
    <3>2. current'[j] = current[j] /\ right[k] = current[i + k]
      BY <2>5
    <3> QED
      BY <2>8, <2>9, <3>1, <3>2 DEF Ordered
  <2>14. PiecesOrdered'
    <3>1. Ordered(current')
      <4>1. \A k \in 1..(i - 1) : k \in 1..c
        BY <2>8
      <4> QED
        BY <2>5, <2>8, <2>9, <4>1 DEF Ordered
    <3>2. Ordered(right)
      <4> SUFFICES ASSUME NEW j \in 1..Len(right), NEW k \in 1..Len(right), j < k
                   PROVE  right[j].at < right[k].at
        BY DEF Ordered
      <4>1. i + j \in 1..c /\ i + k \in 1..c /\ i + j < i + k
        BY <2>5, <2>8
      <4> QED
        BY <2>5, <2>8, <2>9, <4>1 DEF Ordered
    <3>3. Len(stack') = Len(stack) + 1 /\ stack'[1] = fr /\ \A k \in 2..(Len(stack) + 1) : stack'[k] = stack[k - 1]
      BY <1>1, <2>1, <2>3, <2>6, PushIs
    <3>4. ASSUME NEW k \in 1..Len(stack') PROVE Ordered(stack'[k].rest)
      <4>1. CASE k = 1
        BY <4>1, <2>6, <3>2, <3>3
      <4>2. CASE k # 1
        <5>1. k - 1 \in 1..Len(stack) /\ k \in 2..(Len(stack) + 1)
          BY <4>2, <1>1, <3>3
        <5> QED
          BY <5>1, <3>3, <1>2 DEF PiecesOrdered
      <4> QED
        BY <4>1, <4>2
    <3> QED
      BY <3>1, <3>4, Zenon DEF PiecesOrdered, Ordered
  <2>15. stack' = <<fr>> \o stack
    BY <2>1, <2>3
  <2> QED
    BY <2>2, <2>6, <2>11, <2>12, <2>13, <2>14, <2>15, PushMoved, OrderMoved
<1>7. CASE NoCommand
  BY <1>3, <1>7 DEF NoCommand, Result
<1>8. CASE Builtin
  BY <1>1, <1>8, OrderRan DEF Builtin, IsPipeline, BuiltinResults, Result
<1>9. CASE ExitBuiltin
  BY <1>1, <1>9, OrderRan DEF ExitBuiltin, IsPipeline
<1>10. CASE Source
  BY <1>10, OrderSourced
<1>11. CASE SourceFails
  BY <1>1, <1>11, OrderRan DEF SourceFails, IsPipeline, Result
<1>12. CASE Execute
  <2>1. CASE Result(lastExit) /\ Ran(lastExit, 1)
    BY <1>1, <1>12, <2>1, OrderRan DEF Execute, IsPipeline, Result
  <2>2. CASE \E st \in Statuses : Result(st) /\ lastExit' = st /\ Ran(st, 0)
    BY <1>1, <1>12, <2>2, OrderRan DEF Execute, IsPipeline, Result
  <2> QED
    BY <1>12, <2>1, <2>2 DEF Execute
<1>13. CASE ForkFails
  BY <1>3, <1>13 DEF ForkFails, Result
<1>14. CASE RunSecond
  <2>1. stack # <<>> /\ stack[1].kind = ";" /\ linePc' = "call" /\ current' = stack[1].rest /\ UNCHANGED <<given, executed>>
    BY <1>14 DEF RunSecond, Returns, Call, Top
  <2>2. PICK st : st = Pop
    OBVIOUS
  <2>3. PICK fr : fr = Frame("second", <<>>, <<>>)
    OBVIOUS
  <2>4. fr \in FrameSet /\ fr.rest = <<>> /\ fr.lines = <<>>
    <3>1. <<>> \in Seq(TokenSet)
      OBVIOUS
    <3> QED
      BY <2>3, <3>1, FrameIs DEF FrameOK, Frame
  <2>5. stack' = <<fr>> \o st
    BY <1>14, <2>2, <2>3 DEF RunSecond, Call
  <2>6. /\ st \in Seq(FrameSet) /\ Len(st) = Len(stack) - 1 /\ Len(stack) >= 1
        /\ \A k \in 1..Len(st) : st[k] = stack[k + 1] /\ k + 1 \in 1..Len(stack)
    BY <2>1, <2>2, StackPopped
  <2>7. /\ Len(stack') = Len(st) + 1 /\ stack'[1] = fr
        /\ \A k \in 2..(Len(st) + 1) : stack'[k] = st[k - 1]
    BY <2>4, <2>5, <2>6, PushIs
  <2>8. Len(stack') = Len(stack) /\ \A k \in 2..Len(stack) : stack'[k] = stack[k]
    <3>1. Len(stack') = Len(stack)
      BY <1>1, <2>6, <2>7
    <3>2. ASSUME NEW k \in 2..Len(stack) PROVE stack'[k] = stack[k]
      <4>1. k - 1 \in 1..Len(st) /\ (k - 1) + 1 = k /\ k \in 2..(Len(st) + 1)
        BY <1>1, <2>6
      <4> QED
        BY <4>1, <2>6, <2>7
    <3> QED
      BY <3>1, <3>2
  <2>9. Now' \subseteq Waiting(stack[1])
    BY <2>1 DEF Now, Waiting, TokensOf
  <2>10. Waiting(stack'[1]) = {}
    BY <2>4, <2>7, WaitingRest DEF TokensOf
  <2>11. \A P : Below(Now', Waiting(stack'[1]), P)
    BY <2>10 DEF Below
  <2>12. PiecesOrdered'
    <3>1. ASSUME NEW k \in 1..Len(stack') PROVE Ordered(stack'[k].rest)
      <4>1. CASE k = 1
        BY <4>1, <2>4, <2>7 DEF Ordered
      <4>2. CASE k # 1
        BY <4>2, <1>1, <1>2, <2>8 DEF PiecesOrdered
      <4> QED
        BY <4>1, <4>2
    <3>2. Ordered(current')
      <4>1. 1 \in 1..Len(stack)
        BY <1>1, <2>6
      <4> QED
        BY <4>1, <1>2, <2>1 DEF PiecesOrdered
    <3> QED
      BY <3>1, <3>2, Zenon DEF PiecesOrdered, Ordered
  <2> QED
    BY <2>1, <2>8, <2>9, <2>10, <2>11, <2>12, TakenMoved, OrderMoved
<1>15. CASE BothRun
  BY <1>4, <1>15 DEF BothRun, Returns
<1>16. CASE AndOr
  BY <1>4, <1>16 DEF AndOr, Returns, Call, Top
<1>17. CASE NextSourced
  <2>0. UNCHANGED <<given, executed>> /\ linePc = "return"
    BY <1>17 DEF NextSourced, Returns
  <2>1. PICK m \in 1..Len(Sourced) :
           /\ stack # <<>> /\ stack[1].kind = "source" /\ stack[1].rest = <<>>
           /\ stack[1].lines = SubSeq(Sourced, m, Len(Sourced))
           /\ stack' = [stack EXCEPT ![1].lines = SubSeq(Sourced, m + 1, Len(Sourced))]
           /\ \/ UNCHANGED <<current, linePc, ret>>
              \/ linePc' = "call" /\ current' = Sourced[m] /\ UNCHANGED ret
    BY <1>17, NextSourcedIs
  <2>2. /\ Len(stack') = Len(stack)
        /\ stack'[1] = Frame("source", <<>>, SubSeq(Sourced, m + 1, Len(Sourced)))
        /\ \A k \in 2..Len(stack) : stack'[k] = stack[k]
    BY <2>1, StackOfSource
  <2>3. stack'[1].rest = <<>> /\ stack'[1].lines = SubSeq(Sourced, m + 1, Len(Sourced))
    BY <2>2 DEF Frame
  <2>4. PICK c \in Nat : c = Len(Sourced)
    BY Constants
  <2>5. m \in 1..(c + 1) /\ m + 1 \in 1..(c + 1)
    BY <2>4
  <2>6. \A tk : tk \in Waiting(stack[1]) <=> \E i \in m..c : tk \in TokensOf(Sourced[i])
    BY <2>1, <2>4, <2>5, WaitingFile
  <2>7. \A tk : tk \in Waiting(stack'[1]) <=> \E i \in (m + 1)..c : tk \in TokensOf(Sourced[i])
    BY <2>3, <2>4, <2>5, WaitingFile
  <2>8. Now' \subseteq TokensOf(Sourced[m])
    BY <2>0, <2>1 DEF Now, TokensOf
  <2>9. Now' \subseteq Waiting(stack[1])
    <3>1. m \in m..c
      BY <2>4
    <3> QED
      BY <3>1, <2>6, <2>8
  <2>10. Waiting(stack'[1]) \subseteq Waiting(stack[1])
    <3>1. \A i \in (m + 1)..c : i \in m..c
      BY <2>4
    <3> QED
      BY <3>1, <2>6, <2>7
  <2>11. \A P \in LinePlaces : Below(Now', Waiting(stack'[1]), P)
    <3>1. \A i \in (m + 1)..c : i \in 1..Len(Sourced) /\ i # m
      BY <2>4
    <3>2. \A tk \in Waiting(stack'[1]) : \E i \in 1..Len(Sourced) : i # m /\ tk \in TokensOf(Sourced[i])
      BY <3>1, <2>7
    <3> QED
      BY <1>1, <3>2, <2>8, FileBelow
  <2>12. PiecesOrdered'
    <3>1. ASSUME NEW k \in 1..Len(stack') PROVE Ordered(stack'[k].rest)
      <4>1. CASE k = 1
        BY <4>1, <2>3 DEF Ordered
      <4>2. CASE k # 1
        BY <4>2, <1>1, <1>2, <2>2 DEF PiecesOrdered
      <4> QED
        BY <4>1, <4>2
    <3>2. linePc' = "call" => Ordered(current')
      BY <2>0, <2>1, PlacesApart DEF Ordered
    <3> QED
      BY <3>1, <3>2, Zenon DEF PiecesOrdered, Ordered
  <2> QED
    BY <2>0, <2>1, <2>2, <2>9, <2>10, <2>11, <2>12, TakenMoved, OrderMoved
<1>18. CASE SourceDone
  BY <1>4, <1>18 DEF SourceDone, Returns
<1>19. CASE MainReturns
  BY <1>3, <1>19 DEF MainReturns
<1> QED
  BY <1>5, <1>6, <1>7, <1>8, <1>9, <1>10, <1>11, <1>12, <1>13, <1>14, <1>15, <1>16, <1>17, <1>18, <1>19 DEF LineNext

-----------------------------------------------------------------------------
(* The theorems *)

\* At the start the whole line waits, and nothing has been run.
LEMMA LineStarts ==
  ASSUME LineAssumptions, LineInit
  PROVE  LineInv
<1>1. /\ mode \in {"-c", "script"} /\ given \in Lines /\ current = given /\ stack = <<>> /\ linePc = "call"
      /\ ret = 0 /\ lastExit = 0 /\ executed = <<>> /\ failed = 0 /\ given \in Seq(TokenSet)
  BY Constants DEF LineInit
<1>2. TypeInv
  BY <1>1, Constants DEF TypeInv, Line, TokenSet
<1>3. Len(stack) = 0 /\ Items[0] = TokensOf(given) /\ Len(executed) = 0
  BY <1>1, ItemsAre DEF Now
<1>4. PiecesOrdered
  BY <1>1, PlacesApart DEF PiecesOrdered
<1>5. KnownItems(Items, Len(stack), given)
  BY <1>3 DEF KnownItems
<1>6. \A P : Agenda(executed, Items, Len(stack), P)
  BY <1>3 DEF Agenda, Below, TokensOf
<1>7. \A n \in 1..Len(Sourced) : Untouched(executed, Items, Len(stack), Sourced[n])
  <2> SUFFICES ASSUME NEW n \in 1..Len(Sourced), NEW tk \in TokensOf(given) PROVE tk.at \notin Places(Sourced[n])
    BY <1>3 DEF Untouched
  <2>1. tk.at \in Places(given)
    BY DEF TokensOf, Places
  <2>2. Places(Sourced[n]) \cap Places(given) = {}
    BY <1>1, Zenon DEF LineAssumptions
  <2> QED
    BY <2>1, <2>2
<1>8. OrderInv
  BY <1>4, <1>5, <1>6, <1>7 DEF OrderInv, FileOrder
<1>9. ExitInv
  BY <1>1, <1>3 DEF ExitInv, CallExit, StackExit, ReturnExit, LastStatus, Waited
<1> QED
  BY <1>2, <1>8, <1>9 DEF LineInv

\* The inductive invariant: every line that toolsh is given is run from left to
\* right, and the result and last_exit part only where a caller returns last_exit.
THEOREM LineInvariant ==
  ASSUME LineAssumptions
  PROVE  LineSpec => []LineInv
<1>1. LineInit => LineInv
  BY LineStarts
<1>2. LineInv /\ [LineNext]_lineVars => LineInv'
  <2> SUFFICES ASSUME LineInv, [LineNext]_lineVars PROVE LineInv'
    OBVIOUS
  <2>1. TypeInv /\ OrderInv /\ ExitInv
    BY DEF LineInv
  <2>2. CASE LineNext
    <3>1. TypeInv'
      BY <2>1, <2>2, TypesKept
    <3> QED
      BY <2>1, <2>2, <3>1, OrderKept, ExitKept DEF LineInv
  <2>3. CASE UNCHANGED lineVars
    <3>1. UNCHANGED <<mode, given, current, stack, linePc, ret, lastExit, executed, failed>>
      BY <2>3 DEF lineVars
    <3>2. TypeInv'
      BY <2>1, <3>1, TypesSame DEF TypeInv
    <3>3. Items' = Items
      BY <3>1 DEF Items, Now, Waiting, TokensOf
    <3>4. OrderInv'
      BY <2>1, <3>1, <3>3 DEF OrderInv, PiecesOrdered, Ordered, SourcedOnce, Positions
    <3>5. CallExit' = CallExit /\ StackExit' = StackExit /\ ReturnExit' = ReturnExit /\ LastStatus(lastExit)' = LastStatus(lastExit)
      BY <3>1 DEF CallExit, StackExit, FrameExit, ReturnExit, LastStatus, Waited, Discards, Complete, NoSource, Starts, Positions
    <3>6. ExitInv'
      BY <2>1, <3>1, <3>5 DEF ExitInv, Complete, NoSource, Positions
    <3> QED
      BY <3>2, <3>4, <3>6 DEF LineInv
  <2> QED
    BY <2>2, <2>3
<1> QED
  BY <1>1, <1>2, PTL DEF LineSpec

\* The variables of run_pipeline keep their types: a line is a sequence of
\* tokens, every caller has a kind and what it has still to run, every status is one.
THEOREM LineTyping ==
  ASSUME LineAssumptions
  PROVE  LineSpec => []LineTypeOK
<1>1. LineInv => LineTypeOK
  <2> SUFFICES ASSUME TypeInv PROVE LineTypeOK
    BY DEF LineInv
  <2>1. Line(given)
    BY Constants DEF TypeInv, Line, TokenSet
  <2>2. ASSUME NEW k \in 1..Len(stack)
        PROVE  /\ stack[k].kind \in Separators \cup {"second", "source"}
               /\ Line(stack[k].rest)
               /\ \A j \in 1..Len(stack[k].lines) : Line(stack[k].lines[j])
    <3>1. stack[k] \in FrameSet
      BY DEF TypeInv
    <3>2. /\ stack[k].kind \in Separators \cup {"second", "source"}
          /\ stack[k].rest \in Seq(TokenSet) /\ stack[k].lines \in Seq(Seq(TokenSet))
      BY <3>1 DEF FrameSet
    <3>3. \A j \in 1..Len(stack[k].lines) : stack[k].lines[j] \in Seq(TokenSet)
      BY <3>2
    <3> QED
      BY <3>2, <3>3 DEF Line, TokenSet
  <2> QED
    BY <2>1, <2>2 DEF TypeInv, LineTypeOK, RanSet
<1> QED
  BY <1>1, LineInvariant, PTL

\* Nothing in a line is run twice or before what is to its left, though the line is
\* split, run in part and taken up again by recursive calls, and may read a file between.
THEOREM OnceAndInOrderHolds ==
  ASSUME LineAssumptions
  PROVE  LineSpec => []OnceAndInOrder
<1>1. LineInv => OnceAndInOrder
  <2> SUFFICES ASSUME OrderInv PROVE OnceAndInOrder
    BY DEF LineInv
  <2>1. InOrder(given)
    BY DEF OrderInv, Agenda, InOrder
  <2>2. SourcedOnce => \A n \in 1..Len(Sourced) : InOrder(Sourced[n])
    BY DEF OrderInv, FileOrder, Agenda, InOrder
  <2> QED
    BY <2>1, <2>2 DEF OnceAndInOrder
<1> QED
  BY <1>1, LineInvariant, PTL

\* What toolsh exits with is the status of the last command it waited for.
THEOREM ExitIsLastStatusHolds ==
  ASSUME LineAssumptions
  PROVE  LineSpec => []ExitIsLastStatus
<1>1. LineInv => ExitIsLastStatus
  <2> SUFFICES ASSUME TypeInv, ExitInv, Finished, Complete(given), Positions(given, {"source"}) = {}
               PROVE  ret = IF Waited = {} THEN 0 ELSE executed[LastOf(Waited)].status
    BY DEF LineInv, ExitIsLastStatus
  <2>1. NoSource(given)
    BY DEF NoSource, Positions
  <2>2. ret = lastExit /\ LastStatus(lastExit)
    BY <2>1 DEF ExitInv, ReturnExit, Finished
  <2>3. CASE Waited = {}
    BY <2>2, <2>3 DEF LastStatus
  <2>4. CASE Waited # {}
    <3>1. PICK n \in Waited : (\A m \in Waited : m <= n) /\ executed[n].status = lastExit
      BY <2>2, <2>4 DEF LastStatus
    <3>2. Waited \subseteq Nat
      BY DEF Waited
    <3>3. LastOf(Waited) \in Waited /\ \A j \in Waited : j <= LastOf(Waited)
      BY <3>1, Zenon DEF LastOf
    <3>4. LastOf(Waited) = n
      <4>1. PICK z : z = LastOf(Waited)
        OBVIOUS
      <4>2. z \in Nat /\ n \in Nat /\ z <= n /\ n <= z
        BY <4>1, <3>1, <3>2, <3>3
      <4> QED
        BY <4>1, <4>2
    <3> QED
      BY <2>2, <2>4, <3>1, <3>4
  <2> QED
    BY <2>3, <2>4
<1> QED
  BY <1>1, LineInvariant, PTL

-----------------------------------------------------------------------------
(* The commands that run *)

(* What runs of a line.  g is the line that was given, e what was run. *)

\* l is the part of g that begins at p, or has nothing of g.
Sits(g, l, p) ==
  p \in 1..Len(g) /\ \A j \in 1..Len(l) : p + j - 1 \in 1..Len(g) /\ l[j] = g[p + j - 1]
Foreign(g, l) == \A j \in 1..Len(l) : l[j].at \notin Places(g)
Begins(g, p) == p = 1 \/ g[p - 1].t \in Separators
Piece(g, l) == Foreign(g, l) \/ \E p \in 1..Len(g) : Sits(g, l, p) /\ Begins(g, p)

Pieces ==
  /\ linePc = "call" => Piece(given, current)
  /\ \A k \in 1..Len(stack) : Piece(given, stack[k].rest)

\* A caller waits behind its operator; one of && or || has no semicolon to its
\* right, and only a "source" is called while it waits for a command.
AndOrKinds == {"&&", "||"}
Without(l, ops) == \A j \in 1..Len(l) : l[j].t \notin ops
NoSemicolon(l) == Without(l, {";"})
OnePiece(g, b, c) == \A m \in b..c : g[m].t # ";"
Behind(g, fr) ==
  \A p \in 1..Len(g) : Len(fr.rest) > 0 /\ Sits(g, fr.rest, p) => p > 1 /\ g[p - 1].t = fr.kind
Callers ==
  \A k \in 1..Len(stack) :
    /\ Behind(given, stack[k])
    /\ stack[k].kind \in AndOrKinds =>
         /\ NoSemicolon(stack[k].rest)
         /\ k > 1 => stack[k - 1].kind = "source"

\* b is the command whose result the operator in front of p asks for, and st
\* what it was.
Asked(g, b, p) == b \in CommandsOf(g) /\ b < p - 1 /\ \A m \in b..(p - 2) : g[m].t \notin Separators
Answered(g, e, p, st) ==
  \E b \in CommandsOf(g), n \in 1..Len(e) : Asked(g, b, p) /\ e[n].at = g[b].at /\ e[n].status = st
AnswerFor(g, e, fr, st) ==
  fr.kind \in AndOrKinds =>
    \A p \in 1..Len(g) : Len(fr.rest) > 0 /\ Sits(g, fr.rest, p) => Answered(g, e, p, st)

\* Where the caller gets its answer from: the current line, the result, or the
\* 0 that "source" returns.
AnswerAsked ==
  linePc = "call" /\ stack # <<>> /\ stack[1].kind \in AndOrKinds =>
    /\ Without(current, Separators)
    /\ \A p \in 1..Len(given) : Len(stack[1].rest) > 0 /\ Sits(given, stack[1].rest, p) =>
         Len(current) > 0 /\ \E b \in CommandsOf(given) : Asked(given, b, p) /\ Sits(given, current, b)
AnswerComes == linePc = "return" /\ stack # <<>> => AnswerFor(given, executed, stack[1], ret)
AnswerLater == \A k \in 2..Len(stack) : stack[k - 1].kind = "source" => AnswerFor(given, executed, stack[k], 0)
Answers == AnswerAsked /\ AnswerComes /\ AnswerLater

\* Command c is due, or left out, as the last command of its piece that ran
\* before it has decided.
RanAt(e, at) == \E n \in 1..Len(e) : e[n].at = at
Decides(g, e, b, n, c) ==
  /\ b \in CommandsOf(g) /\ b < c /\ e[n].at = g[b].at
  /\ OnePiece(g, b, c)
  /\ \A m \in CommandsOf(g) : b < m /\ m < c => ~RanAt(e, g[m].at)
Fits(g, e, n, c) == (g[c - 1].t = "&&") <=> (e[n].status = 0)
Due(g, e, c) ==
  c = 1 \/ g[c - 1].t = ";" \/ \E b \in 1..Len(g), n \in 1..Len(e) : Decides(g, e, b, n, c) /\ Fits(g, e, n, c)
LeftOut(g, e, c) ==
  c # 1 /\ g[c - 1].t # ";" /\ \E b \in 1..Len(g), n \in 1..Len(e) : Decides(g, e, b, n, c) /\ ~Fits(g, e, n, c)
Settled(g, e, c) == (RanAt(e, g[c].at) /\ Due(g, e, c)) \/ (~RanAt(e, g[c].at) /\ LeftOut(g, e, c))

\* Command c waits in the current line or with a caller.
In(g, l, c) == \E j \in 1..Len(l) : l[j] = g[c]
Held(g, st, c) == \E k \in 1..Len(st) : In(g, st[k].rest, c)
Waits(g, pc, l, st, c) == (pc = "call" /\ In(g, l, c)) \/ Held(g, st, c)

\* None of the commands in l has been run.
NotRun(g, e, l) == \A c \in CommandsOf(g) : In(g, l, c) => ~RanAt(e, g[c].at)

\* Every command waits or is settled; those that wait are to the right of the
\* others, and the one the current line begins with is due.
Decisions ==
  /\ \A c \in CommandsOf(given) :
       Waits(given, linePc, current, stack, c) \/ Settled(given, executed, c)
  /\ \A c, d \in CommandsOf(given) :
       c < d /\ Waits(given, linePc, current, stack, c) => Waits(given, linePc, current, stack, d)
  /\ linePc = "call" =>
       \A p \in CommandsOf(given) : Len(current) > 0 /\ Sits(given, current, p) => Due(given, executed, p)
  /\ \A n \in 1..Len(executed) :
       executed[n].at \in Places(given) => \E c \in CommandsOf(given) : given[c].at = executed[n].at

Ended == linePc = "exited" => stack = <<>>
Grammar == Pieces /\ Callers /\ Answers /\ Decisions /\ Ended
ChainInv == failed = 0 /\ WellWritten /\ Unmixed /\ NoExit => Grammar

-----------------------------------------------------------------------------
(* Places in a line *)

\* In a line whose places grow, a token is known by its place.
LEMMA OneToken ==
  ASSUME NEW g \in Seq(TokenSet), Ordered(g), NEW c \in 1..Len(g), NEW d \in 1..Len(g)
  PROVE  /\ g[c].at = g[d].at => c = d
         /\ g[c].at < g[d].at => c < d
<1>a. g[c] \in TokenSet /\ g[d] \in TokenSet
  OBVIOUS
<1>1. g[c].at \in Nat /\ g[d].at \in Nat
  BY <1>a DEF TokenSet
<1>2. /\ c < d => g[c].at < g[d].at
      /\ d < c => g[d].at < g[c].at
  BY DEF Ordered
<1> QED
  BY <1>1, <1>2

\* The tokens of a part of the line are where it begins, and behind.
LEMMA SitsIn ==
  ASSUME NEW g \in Seq(TokenSet), Ordered(g), NEW l \in Seq(TokenSet), NEW p \in 1..Len(g), Sits(g, l, p),
         NEW c \in 1..Len(g)
  PROVE  In(g, l, c) <=> c \in p..(p + Len(l) - 1)
<1>1. ASSUME NEW j \in 1..Len(l), l[j] = g[c]
      PROVE  c = p + j - 1
  <2>1. p + j - 1 \in 1..Len(g) /\ l[j] = g[p + j - 1]
    BY DEF Sits
  <2> QED
    BY <1>1, <2>1, OneToken
<1>2. ASSUME c \in p..(p + Len(l) - 1)
      PROVE  In(g, l, c)
  <2>1. c - p + 1 \in 1..Len(l) /\ p + (c - p + 1) - 1 = c
    BY <1>2
  <2>2. l[c - p + 1] = g[c]
    BY <2>1 DEF Sits
  <2> QED
    BY <2>1, <2>2 DEF In
<1>3. ASSUME In(g, l, c)
      PROVE  c \in p..(p + Len(l) - 1)
  <2>1. PICK j \in 1..Len(l) : l[j] = g[c]
    BY <1>3 DEF In
  <2> QED
    BY <2>1, <1>1
<1> QED
  BY <1>2, <1>3

\* A part of the line begins at one place only.
LEMMA SitsOnce ==
  ASSUME NEW g \in Seq(TokenSet), Ordered(g), NEW l \in Seq(TokenSet), Len(l) > 0,
         NEW p \in 1..Len(g), NEW q \in 1..Len(g), Sits(g, l, p), Sits(g, l, q)
  PROVE  p = q /\ l[1] = g[p]
<1>1. 1 \in 1..Len(l) /\ p + 1 - 1 = p /\ q + 1 - 1 = q
  OBVIOUS
<1>2. l[1] = g[p] /\ l[1] = g[q]
  BY <1>1 DEF Sits
<1> QED
  BY <1>2, OneToken

\* A line with nothing of g holds no command of g, and is no part of it.
LEMMA ForeignHolds ==
  ASSUME NEW g \in Seq(TokenSet), NEW l \in Seq(TokenSet), Foreign(g, l)
  PROVE  /\ \A c \in 1..Len(g) : ~In(g, l, c)
         /\ Len(l) > 0 => \A p \in 1..Len(g) : ~Sits(g, l, p)
<1>1. \A c \in 1..Len(g) : g[c].at \in Places(g)
  BY DEF Places
<1>2. \A c \in 1..Len(g) : ~In(g, l, c)
  BY <1>1 DEF Foreign, In
<1>3. ASSUME Len(l) > 0, NEW p \in 1..Len(g), Sits(g, l, p)
      PROVE  FALSE
  <2>1. 1 \in 1..Len(l) /\ p + 1 - 1 = p
    BY <1>3
  <2>2. l[1] = g[p]
    BY <1>3, <2>1 DEF Sits
  <2> QED
    BY <1>1, <2>1, <2>2 DEF Foreign
<1> QED
  BY <1>2, <1>3

\* What has a command of g, or begins like a part of it, is one.
LEMMA HoldsPart ==
  ASSUME NEW g \in Seq(TokenSet), NEW l \in Seq(TokenSet), Piece(g, l), Len(l) > 0,
         (\E c \in 1..Len(g) : In(g, l, c)) \/ l[1].at \in Places(g)
  PROVE  \E p \in 1..Len(g) : Sits(g, l, p) /\ Begins(g, p)
<1>1. ~Foreign(g, l)
  <2>1. CASE \E c \in 1..Len(g) : In(g, l, c)
    BY <2>1, ForeignHolds
  <2>2. CASE l[1].at \in Places(g)
    <3>1. 1 \in 1..Len(l)
      OBVIOUS
    <3> QED
      BY <2>2, <3>1 DEF Foreign
  <2> QED
    BY <2>1, <2>2
<1> QED
  BY <1>1 DEF Piece

\* Of a part without operators only the first token can be a command.
LEMMA OnlyFirst ==
  ASSUME NEW g \in Seq(TokenSet), Ordered(g), NEW l \in Seq(TokenSet), NEW p \in 1..Len(g), Sits(g, l, p),
         Without(l, Separators),
         NEW c \in CommandsOf(g), In(g, l, c)
  PROVE  c = p
<1>1. c \in 1..Len(g) /\ (c = 1 \/ g[c - 1].t \in Separators)
  BY DEF CommandsOf
<1>2. c \in p..(p + Len(l) - 1)
  BY <1>1, SitsIn
<1>3. ASSUME c # p
      PROVE  FALSE
  <2>1. c - p \in 1..Len(l) /\ p + (c - p) - 1 = c - 1 /\ c # 1
    BY <1>1, <1>2, <1>3
  <2>2. l[c - p] = g[c - 1]
    BY <2>1 DEF Sits
  <2> QED
    BY <1>1, <2>1, <2>2 DEF Without
<1> QED
  BY <1>3

\* Both sides of an operator are parts of the line, if the whole is.
LEMMA CutSits ==
  ASSUME NEW g \in Seq(TokenSet), NEW l \in Seq(TokenSet), Piece(g, l), NEW i \in 1..Len(l),
         l[i].t \in Separators
  PROVE  /\ Piece(g, Before(l, i)) /\ Piece(g, After(l, i))
         /\ \A p \in 1..Len(g) : Sits(g, l, p) =>
              /\ Sits(g, Before(l, i), p)
              /\ i < Len(l) => Sits(g, After(l, i), p + i) /\ p + i \in 1..Len(g) /\ g[p + i - 1] = l[i]
<1>1. /\ Before(l, i) \in Seq(TokenSet) /\ Len(Before(l, i)) = i - 1
      /\ \A k \in 1..(i - 1) : Before(l, i)[k] = l[k]
      /\ After(l, i) \in Seq(TokenSet) /\ Len(After(l, i)) = Len(l) - i
      /\ \A k \in 1..(Len(l) - i) : After(l, i)[k] = l[i + k]
  BY CutIs
<1>2. PICK left, right : left = Before(l, i) /\ right = After(l, i)
  OBVIOUS
<1>3. /\ Len(left) = i - 1 /\ \A k \in 1..(i - 1) : left[k] = l[k] /\ k \in 1..Len(l)
      /\ Len(right) = Len(l) - i /\ \A k \in 1..(Len(l) - i) : right[k] = l[i + k] /\ i + k \in 1..Len(l)
  BY <1>1, <1>2
<1>4. ASSUME NEW p \in 1..Len(g), Sits(g, l, p)
      PROVE  /\ Sits(g, left, p)
             /\ i < Len(l) => Sits(g, right, p + i) /\ p + i \in 1..Len(g) /\ g[p + i - 1] = l[i]
  <2>1. Sits(g, left, p)
    BY <1>3, <1>4 DEF Sits
  <2>2. ASSUME i < Len(l)
        PROVE  Sits(g, right, p + i) /\ p + i \in 1..Len(g) /\ g[p + i - 1] = l[i]
    <3>1. p + i \in 1..Len(g) /\ g[p + i - 1] = l[i]
      <4>1. i + 1 \in 1..Len(l) /\ p + (i + 1) - 1 = p + i
        BY <2>2
      <4> QED
        BY <1>4, <4>1 DEF Sits
    <3>2. ASSUME NEW j \in 1..Len(right)
          PROVE  (p + i) + j - 1 \in 1..Len(g) /\ right[j] = g[(p + i) + j - 1]
      <4>1. i + j \in 1..Len(l) /\ right[j] = l[i + j] /\ p + (i + j) - 1 = (p + i) + j - 1
        BY <1>3
      <4> QED
        BY <1>4, <4>1 DEF Sits
    <3> QED
      BY <3>1, <3>2 DEF Sits
  <2> QED
    BY <2>1, <2>2
<1>5. Piece(g, left) /\ Piece(g, right)
  <2>1. CASE Foreign(g, l)
    BY <2>1, <1>3 DEF Foreign, Piece
  <2>2. CASE \E p \in 1..Len(g) : Sits(g, l, p) /\ Begins(g, p)
    <3>1. PICK p \in 1..Len(g) : Sits(g, l, p) /\ Begins(g, p)
      BY <2>2
    <3>2. Piece(g, left)
      BY <3>1, <1>4 DEF Piece
    <3>3. CASE i < Len(l)
      <4>1. Begins(g, p + i)
        BY <3>1, <3>3, <1>4 DEF Begins
      <4> QED
        BY <3>1, <3>2, <3>3, <4>1, <1>4 DEF Piece
    <3>4. CASE ~(i < Len(l))
      <4>1. Len(right) = 0
        BY <3>4, <1>3
      <4>2. Foreign(g, right)
        BY <4>1 DEF Foreign
      <4> QED
        BY <3>2, <4>2 DEF Piece
    <3> QED
      BY <3>3, <3>4
  <2> QED
    BY <2>1, <2>2 DEF Piece
<1> QED
  BY <1>2, <1>4, <1>5

-----------------------------------------------------------------------------
(* What is due *)

\* What is run later, to the right of a command, leaves what was decided of it.
LEMMA StaysSettled ==
  ASSUME NEW g \in Seq(TokenSet), NEW X, NEW e \in Seq(X), NEW d \in Seq(X),
         Len(d) = Len(e) + 1, \A n \in 1..Len(e) : d[n] = e[n],
         NEW c \in CommandsOf(g), Settled(g, e, c),
         \A m \in CommandsOf(g) : g[m].at = d[Len(e) + 1].at => c < m
  PROVE  Settled(g, d, c)
<1>1. c \in 1..Len(g) /\ \A m \in CommandsOf(g) : m \in 1..Len(g)
  BY DEF CommandsOf
<1>2. Len(e) \in Nat /\ \A n \in 1..Len(d) : n \in 1..Len(e) \/ n = Len(e) + 1
  OBVIOUS
<1>3. \A n \in 1..Len(e) : n \in 1..Len(d) /\ d[n] = e[n]
  BY <1>2
<1>4. \A m \in CommandsOf(g) : m <= c => (RanAt(d, g[m].at) <=> RanAt(e, g[m].at))
  <2> SUFFICES ASSUME NEW m \in CommandsOf(g), m <= c
               PROVE  RanAt(d, g[m].at) <=> RanAt(e, g[m].at)
    OBVIOUS
  <2>1. d[Len(e) + 1].at # g[m].at
    BY <1>1
  <2> QED
    BY <2>1, <1>2, <1>3 DEF RanAt
<1>5. ASSUME NEW b \in 1..Len(g), NEW n \in 1..Len(e), Decides(g, e, b, n, c)
      PROVE  /\ n \in 1..Len(d) /\ Decides(g, d, b, n, c)
             /\ Fits(g, d, n, c) <=> Fits(g, e, n, c)
  <2>1. \A m \in CommandsOf(g) : b < m /\ m < c => ~RanAt(d, g[m].at)
    BY <1>1, <1>4, <1>5 DEF Decides
  <2>2. Decides(g, d, b, n, c)
    BY <2>1, <1>3, <1>5 DEF Decides
  <2> QED
    BY <2>2, <1>3 DEF Fits
<1>6. Due(g, e, c) => Due(g, d, c)
  BY <1>5 DEF Due
<1>7. LeftOut(g, e, c) => LeftOut(g, d, c)
  BY <1>5 DEF LeftOut
<1>8. RanAt(d, g[c].at) <=> RanAt(e, g[c].at)
  BY <1>1, <1>4
<1> QED
  BY <1>6, <1>7, <1>8 DEF Settled

\* The command that is run next is due then, and after it was run.
LEMMA DueWhenRun ==
  ASSUME NEW g \in Seq(TokenSet), Ordered(g), NEW X, NEW e \in Seq(X), NEW d \in Seq(X),
         Len(d) = Len(e) + 1, \A n \in 1..Len(e) : d[n] = e[n],
         NEW c \in CommandsOf(g), Due(g, e, c), d[Len(e) + 1].at = g[c].at
  PROVE  Settled(g, d, c)
<1>1. c \in 1..Len(g) /\ \A m \in CommandsOf(g) : m \in 1..Len(g)
  BY DEF CommandsOf
<1>2. Len(e) \in Nat /\ \A n \in 1..Len(d) : n \in 1..Len(e) \/ n = Len(e) + 1
  OBVIOUS
<1>3. \A n \in 1..Len(e) : n \in 1..Len(d) /\ d[n] = e[n]
  BY <1>2
<1>4. \A m \in CommandsOf(g) : m < c => (RanAt(d, g[m].at) <=> RanAt(e, g[m].at))
  <2> SUFFICES ASSUME NEW m \in CommandsOf(g), m < c
               PROVE  RanAt(d, g[m].at) <=> RanAt(e, g[m].at)
    OBVIOUS
  <2>1. d[Len(e) + 1].at # g[m].at
    <3>1. m \in 1..Len(g) /\ m # c
      BY <1>1
    <3> QED
      BY <3>1, <1>1, OneToken
  <2> QED
    BY <2>1, <1>2, <1>3 DEF RanAt
<1>5. ASSUME NEW b \in 1..Len(g), NEW n \in 1..Len(e), Decides(g, e, b, n, c), Fits(g, e, n, c)
      PROVE  n \in 1..Len(d) /\ Decides(g, d, b, n, c) /\ Fits(g, d, n, c)
  <2>1. \A m \in CommandsOf(g) : b < m /\ m < c => ~RanAt(d, g[m].at)
    BY <1>1, <1>4, <1>5 DEF Decides
  <2>2. Decides(g, d, b, n, c)
    BY <2>1, <1>3, <1>5 DEF Decides
  <2> QED
    BY <2>2, <1>3, <1>5 DEF Fits
<1>6. Due(g, d, c)
  BY <1>5 DEF Due
<1>7. RanAt(d, g[c].at)
  <2>1. Len(e) + 1 \in 1..Len(d)
    BY <1>2
  <2> QED
    BY <2>1 DEF RanAt
<1> QED
  BY <1>6, <1>7 DEF Settled

\* An answer stays the answer.
LEMMA StaysAnswered ==
  ASSUME NEW g, NEW X, NEW e \in Seq(X), NEW d \in Seq(X), Len(d) = Len(e) + 1, \A n \in 1..Len(e) : d[n] = e[n],
         NEW fr, NEW st, AnswerFor(g, e, fr, st)
  PROVE  AnswerFor(g, d, fr, st)
<1>1. \A n \in 1..Len(e) : n \in 1..Len(d) /\ d[n] = e[n]
  OBVIOUS
<1>2. ASSUME NEW p \in 1..Len(g), Answered(g, e, p, st)
      PROVE  Answered(g, d, p, st)
  <2>1. PICK b \in CommandsOf(g), n \in 1..Len(e) : Asked(g, b, p) /\ e[n].at = g[b].at /\ e[n].status = st
    BY <1>2 DEF Answered
  <2> QED
    BY <2>1, <1>1 DEF Answered
<1> QED
  BY <1>2 DEF AnswerFor

\* A chain of one operator: all the operators in what a caller waits with, and the one
\* in front of it, are the same.
OneOperator(g) ==
  \A i, j \in Positions(g, AndOrKinds) : OnePiece(g, i, j) /\ i < j => g[i].t = g[j].t

\* What is known when a caller of && or ||, with l behind its operator at place p - 1,
\* is answered st.
AnswerStands(g, e, l, p, st) ==
  /\ g \in Seq(TokenSet) /\ Ordered(g) /\ OneOperator(g) /\ e \in Seq(RanSet)
  /\ l \in Seq(TokenSet) /\ p \in 1..Len(g) /\ Sits(g, l, p) /\ p > 1 /\ g[p - 1].t \in AndOrKinds
  /\ NoSemicolon(l) /\ Answered(g, e, p, st) /\ NotRun(g, e, l)

\* The answer that a caller waits for decides each command it waits with.
LEMMA AnswerDecides ==
  ASSUME NEW g, NEW e, NEW l, NEW p, NEW st, AnswerStands(g, e, l, p, st), NEW c \in CommandsOf(g), In(g, l, c)
  PROVE  /\ c # 1 /\ g[c - 1].t = g[p - 1].t
         /\ \E b \in 1..Len(g), n \in 1..Len(e) : Decides(g, e, b, n, c) /\ e[n].status = st
<1> SUFFICES ASSUME g \in Seq(TokenSet), Ordered(g), OneOperator(g), e \in Seq(RanSet),
                    l \in Seq(TokenSet), p \in 1..Len(g), Sits(g, l, p), p > 1, g[p - 1].t \in AndOrKinds,
                    NoSemicolon(l), Answered(g, e, p, st), NotRun(g, e, l)
             PROVE  /\ c # 1 /\ g[c - 1].t = g[p - 1].t
                    /\ \E b \in 1..Len(g), n \in 1..Len(e) : Decides(g, e, b, n, c) /\ e[n].status = st
  BY DEF AnswerStands
<1>a. PICK z \in Nat, y \in Nat : z = Len(g) /\ y = Len(l)
  OBVIOUS
<1>b. p \in 1..z /\ p > 1
  BY <1>a
<1>1. c \in 1..z /\ (c = 1 \/ g[c - 1].t \in Separators) /\ c \in p..(p + y - 1)
  BY <1>a, SitsIn DEF CommandsOf
<1>2. c # 1 /\ c - 1 \in 1..z /\ p - 1 \in 1..z /\ g[c - 1].t \in Separators
  <2>1. c # 1
    BY <1>b, <1>1
  <2>2. c - 1 \in 1..z /\ p - 1 \in 1..z
    BY <1>b, <1>1, <2>1
  <2> QED
    BY <1>1, <2>1, <2>2
<1>3. OnePiece(g, p, c)
  <2> SUFFICES ASSUME NEW m \in p..c PROVE g[m].t # ";"
    BY DEF OnePiece
  <2>1. m - p + 1 \in 1..y /\ p + (m - p + 1) - 1 = m
    BY <1>b, <1>1
  <2>2. l[m - p + 1] = g[m]
    BY <2>1, <1>a DEF Sits
  <2> QED
    BY <2>1, <2>2, <1>a DEF NoSemicolon, Without
<1>4. g[p - 1].t # ";" /\ g[p - 1].t \in {"&&", "||"}
  BY DEF AndOrKinds
<1>5. OnePiece(g, p - 1, c)
  <2> SUFFICES ASSUME NEW m \in (p - 1)..c PROVE g[m].t # ";"
    BY DEF OnePiece
  <2>1. m = p - 1 \/ m \in p..c
    BY <1>b, <1>1
  <2> QED
    BY <2>1, <1>3, <1>4 DEF OnePiece
<1>6. g[c - 1].t = g[p - 1].t
  <2>1. CASE c = p
    BY <2>1
  <2>2. CASE c # p
    <3>1. p - 1 < c - 1 /\ \A m \in (p - 1)..(c - 1) : m \in (p - 1)..c
      BY <2>2, <1>b, <1>1
    <3>2. c - 1 \in (p - 1)..c
      BY <1>b, <1>1
    <3>3. g[c - 1].t \in AndOrKinds
      BY <3>2, <1>2, <1>5 DEF Separators, AndOrKinds, OnePiece
    <3>4. p - 1 \in Positions(g, AndOrKinds) /\ c - 1 \in Positions(g, AndOrKinds)
      BY <3>3, <1>2, <1>a DEF Positions
    <3>5. OnePiece(g, p - 1, c - 1)
      BY <3>1, <1>5 DEF OnePiece
    <3> QED
      BY <3>1, <3>4, <3>5 DEF OneOperator
  <2> QED
    BY <2>1, <2>2
<1>7. PICK b \in CommandsOf(g), n \in 1..Len(e) : Asked(g, b, p) /\ e[n].at = g[b].at /\ e[n].status = st
  BY DEF Answered
<1>8. b \in 1..z /\ b < p - 1 /\ \A m \in b..(p - 2) : g[m].t \notin Separators
  BY <1>7, <1>a DEF Asked, CommandsOf
<1>9. OnePiece(g, b, c)
  <2> SUFFICES ASSUME NEW m \in b..c PROVE g[m].t # ";"
    BY DEF OnePiece
  <2>1. m \in b..(p - 2) \/ m \in (p - 1)..c
    BY <1>8, <1>1, <1>b
  <2> QED
    BY <2>1, <1>5, <1>8 DEF Separators, OnePiece
<1>10. ASSUME NEW m \in CommandsOf(g), b < m, m < c
       PROVE  ~RanAt(e, g[m].at)
  <2>1. m \in 1..z /\ g[m].t \in CommandNames /\ (m = 1 \/ g[m - 1].t \in Separators)
    BY <1>a DEF CommandsOf
  <2>2. CASE m < p - 1
    <3>1. m - 1 \in b..(p - 2) /\ m # 1
      BY <2>1, <2>2, <1>8, <1>10, <1>b
    <3> QED
      BY <2>1, <3>1, <1>8
  <2>3. CASE m = p - 1
    BY <2>1, <2>3, <1>4 DEF CommandNames
  <2>4. CASE m >= p
    <3>1. m \in p..(p + y - 1)
      BY <2>1, <2>4, <1>1, <1>10, <1>b
    <3>2. In(g, l, m)
      BY <2>1, <3>1, <1>a, SitsIn
    <3> QED
      BY <3>2 DEF NotRun
  <2> QED
    BY <2>1, <2>2, <2>3, <2>4, <1>b
<1>11. Decides(g, e, b, n, c)
  <2>1. b < c
    BY <1>b, <1>1, <1>8
  <2> QED
    BY <2>1, <1>7, <1>9, <1>10 DEF Decides
<1> QED
  BY <1>2, <1>6, <1>7, <1>8, <1>11, <1>a

-----------------------------------------------------------------------------
(* The state *)

\* The types of what is looked at here.
LEMMA LineIs ==
  ASSUME LineAssumptions, TypeInv
  PROVE  /\ given \in Lines /\ given \in Seq(TokenSet) /\ Ordered(given) /\ current \in Seq(TokenSet)
         /\ executed \in Seq(RanSet)
         /\ \A k \in 1..Len(stack) : stack[k] \in FrameSet /\ stack[k].rest \in Seq(TokenSet)
<1>1. given \in Lines /\ given \in Seq(TokenSet) /\ Ordered(given)
  BY Constants, PlacesApart DEF TypeInv
<1>2. current \in Seq(TokenSet) /\ executed \in Seq(RanSet)
  BY DEF TypeInv, Line, TokenSet
<1>3. ASSUME NEW k \in 1..Len(stack)
      PROVE  stack[k] \in FrameSet /\ stack[k].rest \in Seq(TokenSet)
  <2>1. stack[k] \in FrameSet
    BY DEF TypeInv
  <2> QED
    BY <2>1 DEF FrameSet
<1> QED
  BY <1>1, <1>2, <1>3

\* A command that waits has not been run, and those of the current line, and of a
\* caller, are to the left of those of the callers below.
LEMMA WaitingApart ==
  ASSUME LineAssumptions, TypeInv, OrderInv
  PROVE  /\ \A c \in 1..Len(given) :
              Waits(given, linePc, current, stack, c) => ~RanAt(executed, given[c].at)
         /\ linePc = "call" =>
              \A c, d \in 1..Len(given), k \in 1..Len(stack) :
                In(given, current, c) /\ In(given, stack[k].rest, d) => c < d
         /\ \A j, k \in 1..Len(stack), c, d \in 1..Len(given) :
              j < k /\ In(given, stack[j].rest, c) /\ In(given, stack[k].rest, d) => c < d
<1>1. given \in Seq(TokenSet) /\ Ordered(given)
  BY LineIs
<1>2. Agenda(executed, Items, Len(stack), Places(given)) /\ Len(stack) \in Nat
  BY DEF OrderInv, TypeInv
<1>3. \A l : \A c \in 1..Len(given) : In(given, l, c) => given[c] \in TokensOf(l) /\ given[c].at \in Places(given)
  BY DEF In, TokensOf, Places
<1>4. ASSUME NEW c \in 1..Len(given), linePc = "call", In(given, current, c)
      PROVE  given[c] \in Items[0]
  BY <1>3, <1>4, ItemsAre DEF Now
<1>5. ASSUME NEW c \in 1..Len(given), NEW k \in 1..Len(stack), In(given, stack[k].rest, c)
      PROVE  given[c] \in Items[k]
  BY <1>3, <1>5, ItemsAre DEF Waiting
<1>6. ASSUME NEW c \in 1..Len(given), NEW d \in 1..Len(given), NEW j \in 0..Len(stack), NEW k \in 0..Len(stack),
             j < k, given[c] \in Items[j], given[d] \in Items[k]
      PROVE  c < d
  <2>1. Below(Items[j], Items[k], Places(given))
    BY <1>2, <1>6 DEF Agenda
  <2>2. given[c].at \in Places(given) /\ given[d].at \in Places(given)
    BY DEF Places
  <2>3. given[c].at < given[d].at
    BY <2>1, <2>2, <1>6 DEF Below
  <2> QED
    BY <2>3, <1>1, OneToken
<1>7. ASSUME NEW c \in 1..Len(given), NEW k \in 0..Len(stack), given[c] \in Items[k]
      PROVE  ~RanAt(executed, given[c].at)
  <2> SUFFICES ASSUME NEW n \in 1..Len(executed), executed[n].at = given[c].at
               PROVE  FALSE
    BY DEF RanAt
  <2>1. Below(TokensOf(executed), Items[k], Places(given))
    BY <1>2 DEF Agenda
  <2>2. executed[n] \in TokensOf(executed) /\ given[c].at \in Places(given)
    BY DEF TokensOf, Places
  <2>3. executed[n].at < given[c].at
    BY <2>1, <2>2, <1>7 DEF Below
  <2>a. given[c] \in TokenSet
    BY <1>1
  <2>4. given[c].at \in Nat
    BY <2>a DEF TokenSet
  <2> QED
    BY <2>3, <2>4
<1>8. \A c \in 1..Len(given) : Waits(given, linePc, current, stack, c) => \E k \in 0..Len(stack) : given[c] \in Items[k]
  BY <1>2, <1>4, <1>5 DEF Waits, Held
<1>9. 0 \in 0..Len(stack) /\ \A k \in 1..Len(stack) : k \in 0..Len(stack) /\ 0 < k
  BY <1>2
<1>10. \A c \in 1..Len(given) : Waits(given, linePc, current, stack, c) => ~RanAt(executed, given[c].at)
  BY <1>7, <1>8
<1>11. ASSUME linePc = "call", NEW c \in 1..Len(given), NEW d \in 1..Len(given), NEW k \in 1..Len(stack),
              In(given, current, c), In(given, stack[k].rest, d)
       PROVE  c < d
  BY <1>4, <1>5, <1>6, <1>9, <1>11
<1>12. ASSUME NEW j \in 1..Len(stack), NEW k \in 1..Len(stack), NEW c \in 1..Len(given), NEW d \in 1..Len(given),
              j < k, In(given, stack[j].rest, c), In(given, stack[k].rest, d)
       PROVE  c < d
  BY <1>5, <1>6, <1>9, <1>12
<1> QED
  BY <1>10, <1>11, <1>12

\* A step after which the same commands wait, and that runs nothing.
LEMMA DecisionsSame ==
  ASSUME Decisions, UNCHANGED <<given, executed>>,
         \A c \in CommandsOf(given) :
           Waits(given, linePc', current', stack', c) <=> Waits(given, linePc, current, stack, c),
         linePc' = "call" =>
           \A p \in CommandsOf(given) : Len(current') > 0 /\ Sits(given, current', p) => Due(given, executed, p)
  PROVE  Decisions'
BY DEF Decisions

\* A step after which fewer commands wait, the leftmost having been settled.
LEMMA DecisionsFewer ==
  ASSUME Decisions, UNCHANGED given, linePc' # "call",
         \A c \in CommandsOf(given) :
           /\ Waits(given, linePc', current', stack', c) => Waits(given, linePc, current, stack, c)
           /\ Settled(given, executed, c) /\ ~Waits(given, linePc, current, stack, c) => Settled(given, executed', c)
           /\ Waits(given, linePc, current, stack, c) /\ ~Waits(given, linePc', current', stack', c) =>
                /\ Settled(given, executed', c)
                /\ \A d \in CommandsOf(given) : Waits(given, linePc', current', stack', d) => c < d,
         \A n \in 1..Len(executed') :
           executed'[n].at \in Places(given) => \E c \in CommandsOf(given) : given[c].at = executed'[n].at
  PROVE  Decisions'
<1>1. \A c \in CommandsOf(given) : c \in Int
  BY DEF CommandsOf
<1>2. \A c \in CommandsOf(given) :
        Waits(given, linePc', current', stack', c) \/ Settled(given, executed', c)
  BY DEF Decisions
<1>3. ASSUME NEW c \in CommandsOf(given), NEW d \in CommandsOf(given), c < d,
             Waits(given, linePc', current', stack', c)
      PROVE  Waits(given, linePc', current', stack', d)
  <2>1. Waits(given, linePc, current, stack, d)
    BY <1>3 DEF Decisions
  <2>2. ASSUME ~Waits(given, linePc', current', stack', d)
        PROVE  FALSE
    <3>1. d < c
      BY <1>3, <2>1, <2>2
    <3> QED
      BY <3>1, <1>1, <1>3
  <2> QED
    BY <2>2
<1> QED
  BY <1>2, <1>3 DEF Decisions

-----------------------------------------------------------------------------
(* A line that is run, and one that is split *)

\* What a line without operators is, if it is a part of the line that was given:
\* its only command is the one it begins with.
LEMMA LeafIs ==
  ASSUME LineAssumptions, TypeInv, WellWritten, NEW l \in Seq(TokenSet), Piece(given, l)
  PROVE  /\ Skipped(l) => \A c \in CommandsOf(given) : ~In(given, l, c)
         /\ Without(l, Separators) =>
              /\ \A c \in CommandsOf(given) : In(given, l, c) => Len(l) > 0 /\ Sits(given, l, c) /\ l[1] = given[c]
              /\ Positions(l, Starters) = {} => \A c \in CommandsOf(given) : ~In(given, l, c)
              /\ Len(l) > 0 /\ l[1].at \in Places(given)
                   /\ (Positions(l, {"|"}) # {} \/ Positions(l, Starters) # {}) =>
                   \E c \in CommandsOf(given) : Sits(given, l, c) /\ l[1] = given[c]
<1>1. given \in Seq(TokenSet) /\ Ordered(given) /\ CommandsOf(given) \subseteq 1..Len(given)
  BY LineIs DEF CommandsOf
<1>2. PICK y \in Nat : y = Len(l)
  OBVIOUS
<1>3. ASSUME Len(l) > 0, NEW p \in 1..Len(given), Sits(given, l, p)
      PROVE  1 \in 1..Len(l) /\ l[1] = given[p]
  BY <1>1, <1>3, SitsOnce
<1>4. ASSUME Skipped(l), NEW c \in CommandsOf(given), In(given, l, c)
      PROVE  FALSE
  <2>1. Len(l) > 0
    BY <1>4, <1>2 DEF In
  <2>2. PICK p \in 1..Len(given) : Sits(given, l, p) /\ Begins(given, p)
    BY <1>1, <1>4, <2>1, HoldsPart
  <2>3. given[p].t = "#"
    BY <1>3, <1>4, <2>1, <2>2 DEF Skipped
  <2> QED
    BY <2>2, <2>3 DEF WellWritten, Begins, CommandNames, Separators
<1>5. ASSUME Without(l, Separators)
      PROVE  /\ \A c \in CommandsOf(given) : In(given, l, c) => Len(l) > 0 /\ Sits(given, l, c) /\ l[1] = given[c]
             /\ Positions(l, Starters) = {} => \A c \in CommandsOf(given) : ~In(given, l, c)
             /\ Len(l) > 0 /\ l[1].at \in Places(given)
                  /\ (Positions(l, {"|"}) # {} \/ Positions(l, Starters) # {}) =>
                  \E c \in CommandsOf(given) : Sits(given, l, c) /\ l[1] = given[c]
  <2>1. ASSUME NEW c \in CommandsOf(given), In(given, l, c)
        PROVE  Len(l) > 0 /\ Sits(given, l, c) /\ l[1] = given[c]
    <3>1. Len(l) > 0
      BY <2>1, <1>2 DEF In
    <3>2. PICK p \in 1..Len(given) : Sits(given, l, p) /\ Begins(given, p)
      BY <1>1, <2>1, <3>1, HoldsPart
    <3>3. c = p
      BY <1>1, <1>5, <2>1, <3>2, OnlyFirst
    <3> QED
      BY <1>3, <3>1, <3>2, <3>3
  <2>2. ASSUME Positions(l, Starters) = {}, NEW c \in CommandsOf(given), In(given, l, c)
        PROVE  FALSE
    <3>1. l[1] = given[c] /\ 1 \in 1..Len(l)
      BY <1>2, <2>1, <2>2
    <3>2. l[1].t \in Starters
      BY <3>1 DEF CommandsOf, Starters
    <3> QED
      BY <2>2, <3>1, <3>2 DEF Positions
  <2>3. ASSUME Len(l) > 0, l[1].at \in Places(given),
               Positions(l, {"|"}) # {} \/ Positions(l, Starters) # {}
        PROVE  \E c \in CommandsOf(given) : Sits(given, l, c) /\ l[1] = given[c]
    <3>1. PICK p \in 1..Len(given) : Sits(given, l, p) /\ Begins(given, p)
      BY <1>1, <2>3, HoldsPart
    <3>2. 1 \in 1..Len(l) /\ l[1] = given[p]
      BY <1>3, <2>3, <3>1
    <3>3. given[p].t \notin Separators
      BY <3>2, <1>5 DEF Without
    <3>4. CASE given[p].t \in CommandNames
      <4>1. p \in CommandsOf(given)
        BY <3>1, <3>4 DEF CommandsOf, Begins
      <4> QED
        BY <3>1, <3>2, <4>1
    <3>5. CASE given[p].t \notin CommandNames
      <4>1. given[p].t = "&" /\ (p = Len(given) \/ given[p + 1].t \in Separators)
        BY <3>1, <3>3, <3>5 DEF WellWritten, Begins
      <4>2. ASSUME 2 \in 1..Len(l)
            PROVE  FALSE
        <5>1. p + 2 - 1 \in 1..Len(given) /\ l[2] = given[p + 2 - 1]
          BY <3>1, <4>2 DEF Sits
        <5>2. p + 2 - 1 = p + 1 /\ p # Len(given)
          BY <5>1
        <5>3. l[2].t \in Separators
          BY <4>1, <5>1, <5>2
        <5> QED
          BY <4>2, <5>3, <1>5 DEF Without
      <4>3. \A j \in 1..Len(l) : j = 1
        BY <4>2, <1>2
      <4>4. \A j \in 1..Len(l) : l[j].t = "&"
        BY <4>1, <4>3, <3>2
      <4> QED
        BY <2>3, <4>4 DEF Positions, Starters, CommandNames
    <3> QED
      BY <3>4, <3>5
  <2> QED
    BY <2>1, <2>2, <2>3
<1> QED
  BY <1>4, <1>5

\* The operator at which a line is split is the first of its kind, and the line
\* has no semicolon unless it is one.
LEMMA SplitFirst ==
  ASSUME TypeInv, Split
  PROVE  \E i \in 1..Len(current), kind \in Separators :
            /\ current[i].t = kind
            /\ current' = Before(current, i)
            /\ stack' = <<Frame(kind, After(current, i), <<>>)>> \o stack
            /\ kind # ";" => NoSemicolon(current) /\ Without(Before(current, i), Separators)
<1>1. Line(current) /\ current \in Seq(TokenSet)
  BY DEF TypeInv, Line, TokenSet
<1>2. PICK ops : ops = (IF Semicolons # {} THEN Semicolons ELSE AndOrs) /\ ops # {}
  BY DEF Split
<1>3. PICK i : i = FirstOf(ops)
  OBVIOUS
<1>4. /\ stack' = <<Frame(IF Semicolons # {} THEN ";" ELSE current[i].t, After(current, i), <<>>)>> \o stack
      /\ current' = Before(current, i)
  BY <1>2, <1>3 DEF Split, Push
<1>5. CASE Semicolons # {}
  <2>1. i \in 1..Len(current) /\ current[i].t = ";"
    BY <1>1, <1>2, <1>3, <1>5, FirstIs DEF Semicolons
  <2> QED
    BY <1>4, <1>5, <2>1 DEF Separators
<1>6. CASE Semicolons = {}
  <2>1. i \in 1..Len(current) /\ current[i].t \in {"&&", "||"} /\ \A j \in AndOrs : i <= j
    BY <1>1, <1>2, <1>3, <1>6, FirstIs DEF AndOrs
  <2>2. NoSemicolon(current)
    BY <1>6 DEF Semicolons, Positions, NoSemicolon, Without
  <2>3. PICK left : left = Before(current, i)
    OBVIOUS
  <2>4. Len(left) = i - 1 /\ \A k \in 1..(i - 1) : left[k] = current[k]
    BY <1>1, <2>1, <2>3, CutIs
  <2>5. \A k \in 1..(i - 1) : k \in 1..Len(current) /\ ~(i <= k)
    BY <2>1
  <2>6. \A k \in 1..(i - 1) : current[k].t \notin {"&&", "||"}
    BY <2>1, <2>5 DEF AndOrs, Positions
  <2>7. \A k \in 1..(i - 1) : current[k].t \notin Separators
    BY <2>2, <2>5, <2>6 DEF NoSemicolon, Without, Separators
  <2>8. Without(left, Separators)
    BY <2>4, <2>7 DEF Without
  <2> QED
    BY <1>4, <1>6, <2>1, <2>2, <2>3, <2>8 DEF Separators
<1> QED
  BY <1>5, <1>6

-----------------------------------------------------------------------------
(* The callers *)

\* A caller is popped: what the others wait for stays so, and one that waits for
\* the answer of a "source" has it.
LEMMA CallersPopped ==
  ASSUME TypeInv, Pieces, Callers, AnswerLater, stack # <<>>, stack' = Pop, UNCHANGED <<given, executed>>
  PROVE  /\ Callers' /\ AnswerLater'
         /\ \A k \in 1..Len(stack') : Piece(given, stack'[k].rest)
         /\ stack' # <<>> /\ stack'[1].kind \in AndOrKinds => stack[1].kind = "source"
         /\ stack' # <<>> /\ stack[1].kind = "source" => AnswerFor(given, executed, stack'[1], 0)
         /\ \A c \in 1..Len(given) :
              Held(given, stack, c) <=> In(given, stack[1].rest, c) \/ Held(given, stack', c)
<1>1. /\ Len(stack) >= 1 /\ Len(Pop) = Len(stack) - 1 /\ Pop \in Seq(FrameSet)
      /\ \A k \in 1..Len(Pop) : Pop[k] = stack[k + 1] /\ k + 1 \in 1..Len(stack)
  BY StackPopped
<1>2. PICK n \in Nat, m \in Nat : n = Len(stack) /\ m = Len(stack') /\ n = m + 1
  BY <1>1
<1>3. \A k \in 1..m : stack'[k] = stack[k + 1] /\ k + 1 \in 1..n
  BY <1>1, <1>2
<1>4. \A k \in 1..m : k > 1 => k - 1 \in 1..m /\ stack'[k - 1] = stack[k] /\ k + 1 \in 2..n /\ (k + 1) - 1 = k
  BY <1>3
<1>5. ASSUME NEW k \in 1..m
      PROVE  /\ Behind(given, stack'[k])
             /\ stack'[k].kind \in AndOrKinds =>
                  /\ NoSemicolon(stack'[k].rest)
                  /\ k > 1 => stack'[k - 1].kind = "source"
  <2>1. /\ Behind(given, stack[k + 1])
        /\ stack[k + 1].kind \in AndOrKinds =>
             /\ NoSemicolon(stack[k + 1].rest)
             /\ k + 1 > 1 => stack[(k + 1) - 1].kind = "source"
    BY <1>2, <1>3 DEF Callers
  <2> QED
    BY <2>1, <1>3, <1>4
<1>6. Callers'
  BY <1>2, <1>5 DEF Callers
<1>7. AnswerLater'
  <2> SUFFICES ASSUME NEW k \in 2..m, stack'[k - 1].kind = "source"
               PROVE  AnswerFor(given, executed, stack'[k], 0)
    BY <1>2 DEF AnswerLater
  <2>1. k \in 1..m /\ k > 1
    OBVIOUS
  <2>2. stack[(k + 1) - 1].kind = "source" /\ k + 1 \in 2..n
    BY <2>1, <1>4
  <2>3. AnswerFor(given, executed, stack[k + 1], 0)
    BY <2>2, <1>2 DEF AnswerLater
  <2> QED
    BY <2>1, <2>3, <1>3
<1>8. \A k \in 1..m : Piece(given, stack'[k].rest)
  BY <1>2, <1>3 DEF Pieces
<1>9. ASSUME stack' # <<>>
      PROVE  /\ stack'[1].kind \in AndOrKinds => stack[1].kind = "source"
             /\ stack[1].kind = "source" => AnswerFor(given, executed, stack'[1], 0)
  <2>1. 1 \in 1..m /\ 2 \in 1..n /\ 2 \in 2..n /\ 2 - 1 = 1 /\ 1 + 1 = 2 /\ 2 > 1
    BY <1>1, <1>2, <1>9
  <2>2. stack'[1] = stack[2]
    BY <2>1, <1>3
  <2>3. stack[2].kind \in AndOrKinds => stack[1].kind = "source"
    BY <2>1, <1>2 DEF Callers
  <2>4. stack[1].kind = "source" => AnswerFor(given, executed, stack[2], 0)
    BY <2>1, <1>2 DEF AnswerLater
  <2> QED
    BY <2>2, <2>3, <2>4
<1>10. ASSUME NEW c \in 1..Len(given)
       PROVE  Held(given, stack, c) <=> In(given, stack[1].rest, c) \/ Held(given, stack', c)
  <2>1. \A k \in 1..n : k = 1 \/ (k - 1 \in 1..m /\ stack[k] = stack'[k - 1])
    BY <1>2, <1>3
  <2>2. 1 \in 1..n
    BY <1>1, <1>2
  <2> QED
    BY <2>1, <2>2, <1>2, <1>3 DEF Held
<1> QED
  BY <1>2, <1>6, <1>7, <1>8, <1>9, <1>10

\* A caller is pushed on one that waits for no answer, or is a "source" itself.
LEMMA CallersPushed ==
  ASSUME TypeInv, Callers, NEW fr \in FrameSet, stack' = <<fr>> \o stack, UNCHANGED given,
         Behind(given, fr), fr.kind \in AndOrKinds => NoSemicolon(fr.rest),
         stack # <<>> /\ stack[1].kind \in AndOrKinds => fr.kind = "source"
  PROVE  /\ Callers'
         /\ stack' # <<>> /\ stack'[1] = fr
         /\ \A k \in 2..Len(stack') : k - 1 \in 1..Len(stack) /\ stack'[k] = stack[k - 1]
         /\ \A k \in 1..Len(stack) : k + 1 \in 2..Len(stack') /\ stack'[k + 1] = stack[k]
         /\ \A c \in 1..Len(given) :
              Held(given, stack', c) <=> In(given, fr.rest, c) \/ Held(given, stack, c)
<1>1. stack \in Seq(FrameSet)
  BY DEF TypeInv
<1>2. PICK n \in Nat, m \in Nat : n = Len(stack) /\ m = Len(stack') /\ m = n + 1
  BY <1>1, PushIs
<1>3. stack'[1] = fr /\ \A k \in 2..m : stack'[k] = stack[k - 1]
  BY <1>1, <1>2, PushIs
<1>4. \A k \in 2..m : k - 1 \in 1..n /\ stack'[k] = stack[k - 1]
  BY <1>2, <1>3
<1>5. \A k \in 1..n : k + 1 \in 2..m /\ stack'[k + 1] = stack[k]
  <2>1. \A k \in 1..n : k + 1 \in 2..m /\ (k + 1) - 1 = k
    BY <1>2
  <2> QED
    BY <2>1, <1>3
<1>6. ASSUME NEW k \in 1..m
      PROVE  /\ Behind(given, stack'[k])
             /\ stack'[k].kind \in AndOrKinds =>
                  /\ NoSemicolon(stack'[k].rest)
                  /\ k > 1 => stack'[k - 1].kind = "source"
  <2>1. CASE k = 1
    BY <2>1, <1>3
  <2>2. CASE k # 1
    <3>1. k \in 2..m
      BY <2>2
    <3>2. /\ Behind(given, stack[k - 1])
          /\ stack[k - 1].kind \in AndOrKinds =>
               /\ NoSemicolon(stack[k - 1].rest)
               /\ k - 1 > 1 => stack[(k - 1) - 1].kind = "source"
      BY <3>1, <1>2, <1>4 DEF Callers
    <3>3. CASE k = 2
      <4>1. stack # <<>> /\ k - 1 = 1
        BY <3>1, <3>3, <1>2, <1>4
      <4> QED
        BY <3>1, <3>2, <3>3, <4>1, <1>3
    <3>4. CASE k # 2
      <4>1. k - 1 > 1 /\ k - 1 \in 2..m
        BY <3>1, <3>4
      <4> QED
        BY <3>1, <3>2, <4>1, <1>3
    <3> QED
      BY <3>3, <3>4
  <2> QED
    BY <2>1, <2>2
<1>7. Callers'
  BY <1>2, <1>6 DEF Callers
<1>8. ASSUME NEW c \in 1..Len(given)
      PROVE  Held(given, stack', c) <=> In(given, fr.rest, c) \/ Held(given, stack, c)
  <2>1. \A k \in 1..m : k = 1 \/ k \in 2..m
    BY <1>2
  <2>2. 1 \in 1..m /\ \A k \in 2..m : k \in 1..m
    BY <1>2
  <2> QED
    BY <2>1, <2>2, <1>2, <1>3, <1>4, <1>5 DEF Held
<1>9. stack' # <<>>
  BY <1>1, <1>2, PushIs
<1> QED
  BY <1>2, <1>3, <1>4, <1>5, <1>7, <1>8, <1>9

-----------------------------------------------------------------------------
(* The steps *)

\* A line is split: what is right of the operator waits with a caller, which for &&
\* and || gets its answer from what is left of it, a command.
LEMMA GrammarSplit ==
  ASSUME LineAssumptions, TypeInv, WellWritten, Grammar, Split
  PROVE  Grammar'
<1>1. /\ given \in Seq(TokenSet) /\ Ordered(given) /\ current \in Seq(TokenSet)
      /\ CommandsOf(given) \subseteq 1..Len(given)
  BY LineIs DEF CommandsOf
<1>2. linePc = "call" /\ linePc' = "call" /\ UNCHANGED <<given, executed>>
  BY DEF Split
<1>3. PICK i \in 1..Len(current), kind \in Separators :
         /\ current[i].t = kind
         /\ current' = Before(current, i)
         /\ stack' = <<Frame(kind, After(current, i), <<>>)>> \o stack
         /\ kind # ";" => NoSemicolon(current) /\ Without(Before(current, i), Separators)
  BY SplitFirst
<1>4. PICK left, right : left = Before(current, i) /\ right = After(current, i)
  OBVIOUS
<1>5. /\ left \in Seq(TokenSet) /\ Len(left) = i - 1 /\ \A k \in 1..(i - 1) : left[k] = current[k]
      /\ right \in Seq(TokenSet) /\ Len(right) = Len(current) - i
      /\ \A k \in 1..(Len(current) - i) : right[k] = current[i + k]
  <2>1. /\ Before(current, i) \in Seq(TokenSet) /\ Len(Before(current, i)) = i - 1
        /\ \A k \in 1..(i - 1) : Before(current, i)[k] = current[k]
        /\ After(current, i) \in Seq(TokenSet) /\ Len(After(current, i)) = Len(current) - i
        /\ \A k \in 1..(Len(current) - i) : After(current, i)[k] = current[i + k]
    BY <1>1, CutIs
  <2> QED
    BY <1>4, <2>1
<1>6. PICK y \in Nat, z \in Nat : y = Len(current) /\ z = Len(given)
  BY <1>1
<1>7. Piece(given, current)
  BY <1>2 DEF Grammar, Pieces
<1>8. /\ Piece(given, left) /\ Piece(given, right)
      /\ \A p \in 1..Len(given) : Sits(given, current, p) =>
           /\ Sits(given, left, p)
           /\ i < Len(current) => Sits(given, right, p + i) /\ p + i \in 1..Len(given) /\ given[p + i - 1] = current[i]
  BY <1>1, <1>3, <1>4, <1>7, CutSits
<1>9. PICK fr : fr = Frame(kind, right, <<>>)
  OBVIOUS
<1>10. fr \in FrameSet /\ fr.rest = right /\ fr.kind = kind
  <2>1. kind # "second"
    BY DEF Separators
  <2> QED
    BY <1>5, <1>9, <2>1, FrameIs DEF FrameOK, Frame
<1>11. stack' = <<fr>> \o stack /\ current' = left
  BY <1>3, <1>4, <1>9
\* Where the line to the right of the operator is.
<1>12. ASSUME NEW p \in 1..Len(given), Len(right) > 0, Sits(given, right, p)
       PROVE  \E q \in 1..Len(given) :
                /\ Sits(given, current, q) /\ Begins(given, q) /\ Sits(given, left, q)
                /\ p = q + i /\ given[p - 1] = current[i]
  <2>1. 1 \in 1..Len(right) /\ i + 1 \in 1..Len(current) /\ i < Len(current)
    BY <1>5, <1>6, <1>12
  <2>2. right[1] = given[p]
    BY <1>1, <1>5, <1>12, SitsOnce
  <2>3. current[i + 1] = given[p]
    BY <1>5, <2>1, <2>2
  <2>4. In(given, current, p)
    BY <2>1, <2>3 DEF In
  <2>5. PICK q \in 1..Len(given) : Sits(given, current, q) /\ Begins(given, q)
    BY <1>1, <1>6, <1>7, <2>1, <2>4, HoldsPart
  <2>6. /\ Sits(given, left, q) /\ Sits(given, right, q + i)
        /\ q + i \in 1..Len(given) /\ given[q + i - 1] = current[i]
    BY <1>8, <2>1, <2>5
  <2>7. p = q + i
    BY <1>1, <1>5, <1>12, <2>6, SitsOnce
  <2> QED
    BY <2>5, <2>6, <2>7
<1>13. Behind(given, fr)
  <2> SUFFICES ASSUME NEW p \in 1..Len(given), Len(right) > 0, Sits(given, right, p)
               PROVE  p > 1 /\ given[p - 1].t = kind
    BY <1>10 DEF Behind
  <2>1. PICK q \in 1..Len(given) : p = q + i /\ given[p - 1] = current[i]
    BY <1>12
  <2>2. q >= 1 /\ i >= 1
    BY <1>6
  <2>3. p > 1
    BY <2>1, <2>2
  <2> QED
    BY <1>3, <2>1, <2>3
<1>14. kind \in AndOrKinds => NoSemicolon(right)
  <2> SUFFICES ASSUME NoSemicolon(current) PROVE NoSemicolon(right)
    BY <1>3 DEF AndOrKinds
  <2>1. \A k \in 1..(y - i) : i + k \in 1..y
    BY <1>6
  <2>2. Without(right, {";"})
    BY <1>5, <1>6, <2>1 DEF NoSemicolon, Without
  <2> QED
    BY <2>2 DEF NoSemicolon
<1>15. ~(stack # <<>> /\ stack[1].kind \in AndOrKinds)
  <2> SUFFICES ASSUME Without(current, Separators) PROVE FALSE
    BY <1>2 DEF Grammar, Answers, AnswerAsked
  <2> QED
    BY <1>3 DEF Without
<1>16. /\ Callers' /\ stack' # <<>> /\ stack'[1] = fr
       /\ \A k \in 2..Len(stack') : k - 1 \in 1..Len(stack) /\ stack'[k] = stack[k - 1]
       /\ \A c \in 1..Len(given) :
            Held(given, stack', c) <=> In(given, fr.rest, c) \/ Held(given, stack, c)
  BY <1>2, <1>10, <1>11, <1>13, <1>14, <1>15, CallersPushed DEF Grammar
<1>17. Pieces'
  <2>1. ASSUME NEW k \in 1..Len(stack') PROVE Piece(given, stack'[k].rest)
    <3>1. CASE k = 1
      BY <3>1, <1>8, <1>10, <1>16
    <3>2. CASE k # 1
      BY <3>2, <1>16 DEF Grammar, Pieces
    <3> QED
      BY <3>1, <3>2
  <2> QED
    BY <2>1, <1>2, <1>8, <1>11 DEF Pieces
<1>18. AnswerAsked'
  <2> SUFFICES ASSUME kind \in AndOrKinds
               PROVE  /\ Without(left, Separators)
                      /\ \A p \in 1..Len(given) : Len(right) > 0 /\ Sits(given, right, p) =>
                           Len(left) > 0 /\ \E b \in CommandsOf(given) : Asked(given, b, p) /\ Sits(given, left, b)
    BY <1>2, <1>10, <1>11, <1>16 DEF AnswerAsked
  <2>1. Without(left, Separators) /\ kind \in {"&&", "||"}
    BY <1>3, <1>4 DEF AndOrKinds
  <2>2. ASSUME NEW p \in 1..Len(given), Len(right) > 0, Sits(given, right, p)
        PROVE  Len(left) > 0 /\ \E b \in CommandsOf(given) : Asked(given, b, p) /\ Sits(given, left, b)
    <3>1. PICK q \in 1..Len(given) :
            /\ Sits(given, current, q) /\ Begins(given, q) /\ Sits(given, left, q)
            /\ p = q + i /\ given[p - 1] = current[i]
      BY <1>12, <2>2
    <3>a. p - 1 \in 1..Len(given) /\ p - 1 - 1 = p - 2
      <4>1. p \in 1..z /\ q \in 1..z /\ i >= 1 /\ p = q + i
        BY <1>6, <3>1
      <4> QED
        BY <4>1, <1>6
    <3>2. p - 1 \in 1..Len(given) /\ given[p - 1].t \in {"&&", "||"} /\ p - 1 - 1 = p - 2
      BY <1>3, <2>1, <3>1, <3>a
    <3>3. PICK b \in CommandsOf(given) : b < p - 1 /\ \A m \in b..(p - 1 - 1) : given[m].t \notin Separators
      BY <3>2 DEF WellWritten
    <3>4. Asked(given, b, p)
      BY <3>2, <3>3 DEF Asked
    <3>5. b \in 1..z /\ q \in 1..z /\ p = q + i /\ b < p - 1
      BY <1>1, <1>6, <3>1, <3>3
    <3>6. \A m \in q..(q + i - 2) : given[m].t \notin Separators
      <4> SUFFICES ASSUME NEW m \in q..(q + i - 2) PROVE given[m].t \notin Separators
        OBVIOUS
      <4>1. m - q + 1 \in 1..(i - 1) /\ q + (m - q + 1) - 1 = m
        BY <3>5
      <4>2. left[m - q + 1] = given[m] /\ m - q + 1 \in 1..Len(left)
        BY <4>1, <3>1, <1>5 DEF Sits
      <4> QED
        BY <4>2, <2>1 DEF Without
    <3>7. ~(b < q)
      <4> SUFFICES ASSUME b < q PROVE FALSE
        OBVIOUS
      <4>1. q - 1 \in b..(p - 1 - 1) /\ q # 1
        BY <3>5
      <4>2. given[q - 1].t \in Separators
        BY <3>1, <4>1 DEF Begins
      <4> QED
        BY <3>3, <4>1, <4>2
    <3>8. ~(q < b)
      <4> SUFFICES ASSUME q < b PROVE FALSE
        OBVIOUS
      <4>1. b - 1 \in q..(q + i - 2) /\ b # 1
        BY <3>5
      <4>2. given[b - 1].t \in Separators
        BY <3>3, <4>1 DEF CommandsOf
      <4> QED
        BY <3>6, <4>1, <4>2
    <3>9. b = q /\ Len(left) > 0
      BY <3>5, <3>7, <3>8, <1>5
    <3> QED
      BY <3>1, <3>4, <3>9
  <2> QED
    BY <2>1, <2>2
<1>19. AnswerComes'
  BY <1>2 DEF AnswerComes
<1>20. AnswerLater'
  <2> SUFFICES ASSUME NEW k \in 2..Len(stack'), stack'[k - 1].kind = "source"
               PROVE  AnswerFor(given, executed, stack'[k], 0)
    BY <1>2 DEF AnswerLater
  <2>1. k - 1 \in 1..Len(stack) /\ stack'[k] = stack[k - 1]
    BY <1>16
  <2>a. stack'[1].kind # "source"
    BY <1>10, <1>16 DEF Separators
  <2>2. k # 2
    <3>1. k = 2 => k - 1 = 1
      OBVIOUS
    <3> QED
      BY <3>1, <2>a
  <2>3. k - 1 \in 2..Len(stack') /\ k - 1 \in 2..Len(stack)
    BY <2>1, <2>2
  <2>4. stack'[k - 1] = stack[(k - 1) - 1]
    BY <2>3, <1>16
  <2> QED
    BY <2>1, <2>3, <2>4 DEF Grammar, Answers, AnswerLater
<1>21. Decisions'
  <2>1. ASSUME NEW c \in CommandsOf(given)
        PROVE  Waits(given, linePc', current', stack', c) <=> Waits(given, linePc, current, stack, c)
    <3>1. c \in 1..Len(given) /\ given[c].t \in CommandNames
      BY <1>1 DEF CommandsOf
    <3>2. In(given, current, c) <=> In(given, left, c) \/ In(given, right, c)
      <4>1. ASSUME NEW j \in 1..Len(current), current[j] = given[c]
            PROVE  In(given, left, c) \/ In(given, right, c)
        <5>1. j # i
          BY <4>1, <3>1, <1>3 DEF CommandNames, Separators
        <5>2. CASE j < i
          <6>1. j \in 1..(i - 1)
            BY <5>2
          <6> QED
            BY <6>1, <4>1, <1>5 DEF In
        <5>3. CASE j > i
          <6>1. j - i \in 1..(y - i) /\ i + (j - i) = j
            BY <5>3, <1>6
          <6> QED
            BY <6>1, <4>1, <1>5, <1>6 DEF In
        <5> QED
          BY <5>1, <5>2, <5>3, <1>6
      <4>2. \A j \in 1..(i - 1) : j \in 1..y
        BY <1>6
      <4>3. \A j \in 1..(y - i) : i + j \in 1..y
        BY <1>6
      <4> QED
        BY <4>1, <4>2, <4>3, <1>5, <1>6 DEF In
    <3>3. Held(given, stack', c) <=> In(given, right, c) \/ Held(given, stack, c)
      BY <3>1, <1>10, <1>16
    <3> QED
      BY <3>2, <3>3, <1>2, <1>11 DEF Waits
  <2>2. ASSUME NEW p \in CommandsOf(given), Len(left) > 0, Sits(given, left, p)
        PROVE  Due(given, executed, p)
    <3>1. 1 \in 1..Len(left) /\ 1 \in 1..(i - 1) /\ 1 \in 1..Len(current) /\ Len(current) > 0 /\ p \in 1..Len(given)
      BY <1>1, <1>5, <1>6, <2>2
    <3>2. current[1] = given[p]
      BY <1>1, <1>5, <2>2, <3>1, SitsOnce
    <3>3. In(given, current, p)
      BY <3>1, <3>2 DEF In
    <3>4. PICK q \in 1..Len(given) : Sits(given, current, q)
      BY <1>1, <1>7, <3>1, <3>3, HoldsPart
    <3>5. p = q
      BY <1>1, <1>5, <1>8, <2>2, <3>1, <3>4, SitsOnce
    <3> QED
      BY <1>2, <3>1, <3>4, <3>5 DEF Grammar, Decisions
  <2> QED
    BY <1>2, <1>11, <2>1, <2>2, DecisionsSame DEF Grammar
<1>22. Ended'
  BY <1>2 DEF Ended
<1> QED
  BY <1>16, <1>17, <1>18, <1>19, <1>20, <1>21, <1>22 DEF Grammar, Answers

\* A call that finds no command leaves everything as it is: no caller of && or ||
\* waits for its answer.
LEMMA GrammarNone ==
  ASSUME LineAssumptions, TypeInv, Grammar, linePc = "call", \A c \in CommandsOf(given) : ~In(given, current, c),
         linePc' = "return", UNCHANGED <<given, current, stack, executed>>
  PROVE  Grammar'
<1>1. /\ given \in Seq(TokenSet) /\ Ordered(given) /\ current \in Seq(TokenSet)
      /\ CommandsOf(given) \subseteq 1..Len(given)
  BY LineIs DEF CommandsOf
<1>2. Pieces' /\ Callers' /\ AnswerAsked' /\ AnswerLater' /\ Ended'
  BY DEF Grammar, Pieces, Callers, Answers, AnswerAsked, AnswerLater, Ended
<1>3. AnswerComes'
  <2> SUFFICES ASSUME stack # <<>>, stack[1].kind \in AndOrKinds,
                      NEW p \in 1..Len(given), Len(stack[1].rest) > 0, Sits(given, stack[1].rest, p)
               PROVE  FALSE
    BY DEF AnswerComes, AnswerFor
  <2>1. PICK b \in CommandsOf(given) : Len(current) > 0 /\ Sits(given, current, b)
    BY DEF Grammar, Answers, AnswerAsked
  <2>2. 1 \in 1..Len(current) /\ b \in 1..Len(given)
    BY <1>1, <2>1
  <2>3. current[1] = given[b]
    BY <1>1, <2>1, <2>2, SitsOnce
  <2> QED
    BY <2>2, <2>3 DEF In
<1>4. Decisions'
  <2>1. ASSUME NEW c \in CommandsOf(given)
        PROVE  Waits(given, linePc', current', stack', c) <=> Waits(given, linePc, current, stack, c)
    BY DEF Waits
  <2> QED
    BY <2>1, DecisionsSame DEF Grammar
<1> QED
  BY <1>2, <1>3, <1>4 DEF Grammar, Answers

\* A line without operators is run: the command it begins with was due, and those
\* decided before are to its left.
LEMMA DecisionsRan ==
  ASSUME LineAssumptions, TypeInv, OrderInv, WellWritten, Grammar,
         linePc = "call", linePc' = "return", ~Skipped(current), Without(current, Separators),
         Pipes # {} \/ Words # {},
         NEW st \in Statuses, NEW bg \in {0, 1}, Ran(st, bg), UNCHANGED given,
         \A c \in 1..Len(given) : Held(given, stack', c) <=> Held(given, stack, c)
  PROVE  Decisions'
<1>1. /\ given \in Seq(TokenSet) /\ Ordered(given) /\ current \in Seq(TokenSet) /\ executed \in Seq(RanSet)
      /\ CommandsOf(given) \subseteq 1..Len(given)
  BY LineIs DEF CommandsOf
<1>2. /\ Len(current) > 0
      /\ executed' \in Seq(RanSet)
      /\ Len(executed') = Len(executed) + 1
      /\ \A n \in 1..Len(executed) : executed'[n] = executed[n]
      /\ executed'[Len(executed) + 1] = [at |-> current[1].at, status |-> st, bg |-> bg]
  BY RanIs DEF Skipped
<1>3. executed'[Len(executed) + 1].at = current[1].at
  BY <1>2
<1>4. /\ \A c \in CommandsOf(given) : In(given, current, c) => Sits(given, current, c) /\ current[1] = given[c]
      /\ current[1].at \in Places(given) =>
           \E c \in CommandsOf(given) : Sits(given, current, c) /\ current[1] = given[c]
  <2>1. Piece(given, current)
    BY DEF Grammar, Pieces
  <2> QED
    BY <1>1, <1>2, <2>1, LeafIs DEF Pipes, Words
<1>5. ASSUME NEW c \in CommandsOf(given), current[1] = given[c]
      PROVE  In(given, current, c) /\ Waits(given, linePc, current, stack, c)
  <2>1. 1 \in 1..Len(current)
    BY <1>1, <1>2
  <2> QED
    BY <2>1, <1>5 DEF In, Waits
<1>6. ASSUME NEW m \in CommandsOf(given), given[m].at = current[1].at
      PROVE  current[1] = given[m] /\ Waits(given, linePc, current, stack, m)
  <2>1. m \in 1..Len(given) /\ given[m].at \in Places(given)
    BY <1>1 DEF Places
  <2>2. PICK c \in CommandsOf(given) : current[1] = given[c]
    BY <1>4, <1>6, <2>1
  <2>3. c = m
    BY <1>1, <1>6, <2>2, OneToken
  <2> QED
    BY <1>5, <2>2, <2>3
<1>7. ASSUME NEW c \in CommandsOf(given), Settled(given, executed, c), ~Waits(given, linePc, current, stack, c)
      PROVE  Settled(given, executed', c)
  <2>1. ASSUME NEW m \in CommandsOf(given), given[m].at = executed'[Len(executed) + 1].at
        PROVE  c < m
    <3>1. Waits(given, linePc, current, stack, m)
      BY <1>3, <1>6, <2>1
    <3>2. ~(m < c)
      BY <3>1, <1>7 DEF Grammar, Decisions
    <3>3. m # c
      BY <3>1, <1>7
    <3> QED
      BY <3>2, <3>3, <1>1
  <2> QED
    BY <1>1, <1>2, <1>7, <2>1, StaysSettled
<1>8. ASSUME NEW c \in CommandsOf(given), Waits(given, linePc, current, stack, c),
             ~Waits(given, linePc', current', stack', c)
      PROVE  /\ Settled(given, executed', c)
             /\ \A d \in CommandsOf(given) : Waits(given, linePc', current', stack', d) => c < d
  <2>1. In(given, current, c)
    BY <1>1, <1>8 DEF Waits
  <2>2. Sits(given, current, c) /\ current[1] = given[c]
    BY <1>4, <2>1
  <2>3. Due(given, executed, c)
    BY <1>2, <2>2 DEF Grammar, Decisions
  <2>4. executed'[Len(executed) + 1].at = given[c].at
    BY <1>3, <2>2
  <2>5. Settled(given, executed', c)
    BY <1>1, <1>2, <2>3, <2>4, DueWhenRun
  <2>6. ASSUME NEW d \in CommandsOf(given), Waits(given, linePc', current', stack', d)
        PROVE  c < d
    <3>1. Held(given, stack, d)
      BY <1>1, <2>6 DEF Waits
    <3>2. PICK k \in 1..Len(stack) : In(given, stack[k].rest, d)
      BY <3>1 DEF Held
    <3> QED
      BY <1>1, <2>1, <3>2, WaitingApart
  <2> QED
    BY <2>5, <2>6
<1>9. ASSUME NEW n \in 1..Len(executed'), executed'[n].at \in Places(given)
      PROVE  \E c \in CommandsOf(given) : given[c].at = executed'[n].at
  <2>1. n \in 1..Len(executed) \/ n = Len(executed) + 1
    BY <1>1, <1>2
  <2>2. CASE n \in 1..Len(executed)
    BY <1>2, <1>9, <2>2 DEF Grammar, Decisions
  <2>3. CASE n = Len(executed) + 1
    BY <1>3, <1>4, <1>9, <2>3
  <2> QED
    BY <2>1, <2>2, <2>3
<1>10. \A c \in CommandsOf(given) :
         Waits(given, linePc', current', stack', c) => Waits(given, linePc, current, stack, c)
  BY <1>1 DEF Waits
<1> QED
  BY <1>7, <1>8, <1>9, <1>10, DecisionsFewer DEF Grammar

\* The answer that the caller waits for is the status of what was just run.
LEMMA AnswerRan ==
  ASSUME LineAssumptions, TypeInv, Grammar,
         linePc = "call", ~Skipped(current), NEW st \in Statuses, NEW bg \in {0, 1}, Ran(st, bg), stack # <<>>
  PROVE  AnswerFor(given, executed', stack[1], st)
<1>1. /\ given \in Seq(TokenSet) /\ Ordered(given) /\ current \in Seq(TokenSet) /\ executed \in Seq(RanSet)
      /\ CommandsOf(given) \subseteq 1..Len(given)
  BY LineIs DEF CommandsOf
<1>2. /\ executed' \in Seq(RanSet)
      /\ Len(executed') = Len(executed) + 1
      /\ executed'[Len(executed) + 1] = [at |-> current[1].at, status |-> st, bg |-> bg]
  BY RanIs
<1>3. Len(executed) + 1 \in 1..Len(executed')
  BY <1>1, <1>2
<1>4. executed'[Len(executed) + 1].at = current[1].at /\ executed'[Len(executed) + 1].status = st
  BY <1>2
<1> SUFFICES ASSUME stack[1].kind \in AndOrKinds,
                    NEW p \in 1..Len(given), Len(stack[1].rest) > 0, Sits(given, stack[1].rest, p)
             PROVE  Answered(given, executed', p, st)
  BY DEF AnswerFor
<1>5. PICK b \in CommandsOf(given) : Len(current) > 0 /\ Asked(given, b, p) /\ Sits(given, current, b)
  BY DEF Grammar, Answers, AnswerAsked
<1>6. current[1] = given[b]
  BY <1>1, <1>5, SitsOnce
<1> QED
  BY <1>3, <1>4, <1>5, <1>6 DEF Answered

\* What the other callers wait for was answered before.
LEMMA LaterRan ==
  ASSUME TypeInv, Grammar, ~Skipped(current), NEW st \in Statuses, NEW bg \in {0, 1}, Ran(st, bg),
         NEW k \in 2..Len(stack), stack[k - 1].kind = "source"
  PROVE  AnswerFor(given, executed', stack[k], 0)
<1>1. /\ executed \in Seq(RanSet) /\ executed' \in Seq(RanSet)
      /\ Len(executed') = Len(executed) + 1
      /\ \A n \in 1..Len(executed) : executed'[n] = executed[n]
  BY RanIs DEF TypeInv
<1>2. AnswerFor(given, executed, stack[k], 0)
  BY DEF Grammar, Answers, AnswerLater
<1> QED
  BY <1>1, <1>2, StaysAnswered

\* A line without operators is run, and returns what it exited with.
LEMMA GrammarRan ==
  ASSUME LineAssumptions, TypeInv, OrderInv, WellWritten, Grammar,
         linePc = "call", ~Skipped(current), Without(current, Separators), Pipes # {} \/ Words # {},
         NEW st \in Statuses, NEW bg \in {0, 1}, Ran(st, bg), Result(st), UNCHANGED given
  PROVE  Grammar'
<1>1. linePc' = "return" /\ ret' = st /\ UNCHANGED <<given, current, stack>>
  BY DEF Result
<1>2. Pieces' /\ Callers' /\ AnswerAsked' /\ Ended'
  BY <1>1 DEF Grammar, Pieces, Callers, AnswerAsked, Ended
<1>3. AnswerComes'
  BY <1>1, AnswerRan DEF AnswerComes
<1>4. AnswerLater'
  BY <1>1, LaterRan DEF AnswerLater
<1>5. Decisions'
  BY <1>1, DecisionsRan
<1> QED
  BY <1>2, <1>3, <1>4, <1>5 DEF Grammar, Answers

\* "source" is run: it will answer 0, whatever it runs.
LEMMA GrammarSourced ==
  ASSUME LineAssumptions, TypeInv, OrderInv, WellWritten, Grammar, Without(current, Separators), Source
  PROVE  Grammar'
<1>1. /\ linePc = "call" /\ ~Skipped(current) /\ (Pipes # {} \/ Words # {})
      /\ linePc' = "return" /\ Ran(0, 0) /\ UNCHANGED <<given, current>>
      /\ stack' = <<Frame("source", <<>>, Sourced)>> \o stack
  BY DEF Source, IsPipeline, Push
<1>2. PICK fr : fr = Frame("source", <<>>, Sourced)
  OBVIOUS
<1>3. fr \in FrameSet /\ fr.kind = "source" /\ fr.rest = <<>>
  BY <1>2, SourceFrameIs DEF Frame, FrameOK
<1>4. fr.kind \notin AndOrKinds
  BY <1>3 DEF AndOrKinds
<1>5. Len(fr.rest) = 0 /\ \A l : Foreign(l, fr.rest) /\ \A c : ~In(l, fr.rest, c)
  BY <1>3 DEF Foreign, In
<1>6. Behind(given, fr)
  BY <1>5 DEF Behind
<1>7. stack' = <<fr>> \o stack
  BY <1>1, <1>2
<1>8. /\ Callers' /\ stack' # <<>> /\ stack'[1] = fr
      /\ \A k \in 2..Len(stack') : k - 1 \in 1..Len(stack) /\ stack'[k] = stack[k - 1]
      /\ \A c \in 1..Len(given) : Held(given, stack', c) <=> In(given, fr.rest, c) \/ Held(given, stack, c)
  BY <1>1, <1>3, <1>4, <1>6, <1>7, CallersPushed DEF Grammar
<1>9. Pieces'
  <2>1. ASSUME NEW k \in 1..Len(stack') PROVE Piece(given, stack'[k].rest)
    <3>1. CASE k = 1
      BY <3>1, <1>5, <1>8 DEF Piece
    <3>2. CASE k # 1
      BY <3>2, <1>8 DEF Grammar, Pieces
    <3> QED
      BY <3>1, <3>2
  <2> QED
    BY <2>1, <1>1 DEF Pieces
<1>10. AnswerAsked' /\ Ended'
  BY <1>1 DEF AnswerAsked, Ended
<1>11. AnswerComes'
  BY <1>1, <1>4, <1>8 DEF AnswerComes, AnswerFor
<1>12. 0 \in Statuses /\ 0 \in {0, 1}
  BY Constants
<1>13. AnswerLater'
  <2> SUFFICES ASSUME NEW k \in 2..Len(stack'), stack'[k - 1].kind = "source"
               PROVE  AnswerFor(given, executed', stack'[k], 0)
    BY <1>1 DEF AnswerLater
  <2>1. k - 1 \in 1..Len(stack) /\ stack'[k] = stack[k - 1]
    BY <1>8
  <2>2. CASE k = 2
    <3>1. k - 1 = 1 /\ stack # <<>>
      BY <2>1, <2>2
    <3> QED
      BY <2>1, <3>1, <1>1, <1>12, AnswerRan
  <2>3. CASE k # 2
    <3>1. k - 1 \in 2..Len(stack') /\ k - 1 \in 2..Len(stack)
      BY <2>1, <2>3
    <3>2. stack'[k - 1] = stack[(k - 1) - 1]
      BY <3>1, <1>8
    <3>3. stack[(k - 1) - 1].kind = "source"
      BY <3>2
    <3> QED
      BY <2>1, <3>1, <3>3, <1>1, <1>12, LaterRan
  <2> QED
    BY <2>2, <2>3
<1>14. Decisions'
  BY <1>1, <1>5, <1>8, <1>12, DecisionsRan
<1> QED
  BY <1>8, <1>9, <1>10, <1>11, <1>13, <1>14 DEF Grammar, Answers

-----------------------------------------------------------------------------
(* Back in the caller *)

\* What the result decides of the commands that wait with the caller of && or ||.
LEMMA AnswerIs ==
  ASSUME LineAssumptions, TypeInv, OrderInv, Unmixed, Grammar,
         linePc = "return", stack # <<>>, stack[1].kind \in AndOrKinds,
         NEW c \in CommandsOf(given), In(given, stack[1].rest, c)
  PROVE  /\ c # 1 /\ given[c - 1].t = stack[1].kind
         /\ \E b \in 1..Len(given), n \in 1..Len(executed) :
              Decides(given, executed, b, n, c) /\ executed[n].status = ret
<1>1. stack \in Seq(FrameSet)
  BY DEF TypeInv
<1>2. 1 \in 1..Len(stack)
  BY <1>1
<1>3. /\ given \in Seq(TokenSet) /\ Ordered(given) /\ executed \in Seq(RanSet)
      /\ CommandsOf(given) \subseteq 1..Len(given) /\ stack[1].rest \in Seq(TokenSet)
  BY <1>2, LineIs DEF CommandsOf
<1>4. PICK l : l = stack[1].rest
  OBVIOUS
<1>5. l \in Seq(TokenSet) /\ Piece(given, l) /\ NoSemicolon(l) /\ Behind(given, stack[1]) /\ In(given, l, c)
  BY <1>2, <1>3, <1>4 DEF Grammar, Pieces, Callers
<1>6. Len(l) > 0
  <2>1. Len(l) \in Nat
    BY <1>5
  <2> QED
    BY <1>5, <2>1 DEF In
<1>7. PICK p \in 1..Len(given) : Sits(given, l, p)
  BY <1>3, <1>5, <1>6, HoldsPart
<1>8. p > 1 /\ given[p - 1].t = stack[1].kind
  BY <1>4, <1>5, <1>6, <1>7 DEF Behind
<1>9. Answered(given, executed, p, ret)
  BY <1>4, <1>6, <1>7 DEF Grammar, Answers, AnswerComes, AnswerFor
<1>10. NotRun(given, executed, l)
  <2> SUFFICES ASSUME NEW d \in CommandsOf(given), In(given, l, d) PROVE ~RanAt(executed, given[d].at)
    BY DEF NotRun
  <2>1. Waits(given, linePc, current, stack, d)
    BY <1>2, <1>4 DEF Waits, Held
  <2> QED
    BY <1>3, <2>1, WaitingApart
<1>11. OneOperator(given)
  BY DEF Unmixed, OneOperator, OnePiece, AndOrKinds
<1>12. given[p - 1].t \in AndOrKinds
  BY <1>8
<1>13. AnswerStands(given, executed, l, p, ret)
  BY <1>3, <1>5, <1>7, <1>8, <1>9, <1>10, <1>11, <1>12 DEF AnswerStands
<1>14. /\ c # 1 /\ given[c - 1].t = given[p - 1].t
       /\ \E b \in 1..Len(given), n \in 1..Len(executed) :
            Decides(given, executed, b, n, c) /\ executed[n].status = ret
  BY <1>5, <1>13, AnswerDecides
<1> QED
  BY <1>8, <1>14

\* The last command that ran says no: what waits behind the operator is left out.
LEMMA GrammarLeft ==
  ASSUME LineAssumptions, TypeInv, OrderInv, Unmixed, Grammar,
         linePc = "return", stack # <<>>, stack[1].kind \in AndOrKinds, ~GoesOn(stack[1].kind),
         stack' = Pop, UNCHANGED <<given, current, linePc, ret, executed>>
  PROVE  Grammar'
<1>1. CommandsOf(given) \subseteq 1..Len(given) /\ stack[1].kind \in {"&&", "||"}
  BY DEF CommandsOf, AndOrKinds
<1>2. /\ Callers' /\ AnswerLater'
      /\ \A k \in 1..Len(stack') : Piece(given, stack'[k].rest)
      /\ stack' # <<>> /\ stack'[1].kind \in AndOrKinds => stack[1].kind = "source"
      /\ \A c \in 1..Len(given) : Held(given, stack, c) <=> In(given, stack[1].rest, c) \/ Held(given, stack', c)
  BY CallersPopped DEF Grammar, Answers
<1>3. Pieces' /\ AnswerAsked' /\ Ended'
  BY <1>2 DEF Pieces, AnswerAsked, Ended
<1>4. AnswerComes'
  <2>1. stack[1].kind # "source"
    BY <1>1
  <2> QED
    BY <2>1, <1>2 DEF AnswerComes, AnswerFor
<1>5. ASSUME NEW c \in CommandsOf(given), Waits(given, linePc, current, stack, c),
             ~Waits(given, linePc', current', stack', c)
      PROVE  /\ Settled(given, executed', c)
             /\ \A d \in CommandsOf(given) : Waits(given, linePc', current', stack', d) => c < d
  <2>1. In(given, stack[1].rest, c)
    BY <1>1, <1>2, <1>5 DEF Waits
  <2>2. c # 1 /\ given[c - 1].t = stack[1].kind
    BY <2>1, AnswerIs
  <2>3. PICK b \in 1..Len(given), n \in 1..Len(executed) :
          Decides(given, executed, b, n, c) /\ executed[n].status = ret
    BY <2>1, AnswerIs
  <2>4. ~Fits(given, executed, n, c)
    BY <1>1, <2>2, <2>3 DEF Fits, GoesOn
  <2>5. LeftOut(given, executed, c)
    BY <1>1, <2>2, <2>3, <2>4 DEF LeftOut
  <2>6. ~RanAt(executed, given[c].at)
    BY <1>1, <1>5, WaitingApart
  <2>7. ASSUME NEW d \in CommandsOf(given), Waits(given, linePc', current', stack', d)
        PROVE  c < d
    <3>1. PICK k \in 1..Len(stack') : In(given, stack'[k].rest, d)
      BY <2>7 DEF Waits, Held
    <3>2. k + 1 \in 1..Len(stack) /\ stack'[k] = stack[k + 1] /\ 1 \in 1..Len(stack) /\ 1 < k + 1
      <4>1. /\ Len(stack) >= 1 /\ Len(Pop) = Len(stack) - 1
            /\ \A j \in 1..Len(Pop) : Pop[j] = stack[j + 1] /\ j + 1 \in 1..Len(stack)
        BY StackPopped
      <4>2. Len(stack) \in Nat
        BY DEF TypeInv
      <4> QED
        BY <4>1, <4>2
    <3> QED
      BY <1>1, <2>1, <3>1, <3>2, WaitingApart
  <2> QED
    BY <2>5, <2>6, <2>7 DEF Settled
<1>6. \A c \in CommandsOf(given) :
        Waits(given, linePc', current', stack', c) => Waits(given, linePc, current, stack, c)
  BY <1>1, <1>2 DEF Waits
<1>7. Decisions'
  <2>1. linePc' # "call"
    OBVIOUS
  <2>2. \A n \in 1..Len(executed') :
          executed'[n].at \in Places(given) => \E c \in CommandsOf(given) : given[c].at = executed'[n].at
    BY DEF Grammar, Decisions
  <2> QED
    BY <1>5, <1>6, <2>1, <2>2, DecisionsFewer DEF Grammar
<1> QED
  BY <1>2, <1>3, <1>4, <1>7 DEF Grammar, Answers

\* The caller takes up what waited: its first command is due, and no other caller
\* waits for an answer.
LEMMA GrammarTaken ==
  ASSUME LineAssumptions, TypeInv, Grammar, linePc = "return", stack # <<>>, stack[1].kind # "source",
         \A c \in CommandsOf(given) : Sits(given, stack[1].rest, c) /\ In(given, stack[1].rest, c) => Due(given, executed, c),
         linePc' = "call", current' = stack[1].rest, UNCHANGED <<given, executed>>,
         Callers', AnswerLater',
         \A k \in 1..Len(stack') : Piece(given, stack'[k].rest),
         stack' # <<>> => stack'[1].kind \notin AndOrKinds,
         \A c \in 1..Len(given) : Held(given, stack, c) <=> In(given, stack[1].rest, c) \/ Held(given, stack', c)
  PROVE  Grammar'
<1>1. stack \in Seq(FrameSet)
  BY DEF TypeInv
<1>2. 1 \in 1..Len(stack)
  BY <1>1
<1>3. /\ given \in Seq(TokenSet) /\ Ordered(given)
      /\ CommandsOf(given) \subseteq 1..Len(given) /\ stack[1].rest \in Seq(TokenSet)
  BY <1>2, LineIs DEF CommandsOf
<1>4. Pieces'
  BY <1>2 DEF Grammar, Pieces
<1>5. AnswerAsked' /\ AnswerComes' /\ Ended'
  BY DEF AnswerAsked, AnswerComes, Ended
<1>6. Decisions'
  <2>1. \A c \in CommandsOf(given) :
          Waits(given, linePc', current', stack', c) <=> Waits(given, linePc, current, stack, c)
    BY <1>3 DEF Waits
  <2>2. ASSUME NEW p \in CommandsOf(given), Len(current') > 0, Sits(given, current', p)
        PROVE  Due(given, executed, p)
    <3>1. 1 \in 1..Len(stack[1].rest)
      BY <1>3, <2>2
    <3>2. stack[1].rest[1] = given[p]
      BY <1>3, <2>2, SitsOnce
    <3> QED
      BY <2>2, <3>1, <3>2 DEF In
  <2> QED
    BY <2>1, <2>2, DecisionsSame DEF Grammar
<1> QED
  BY <1>4, <1>5, <1>6 DEF Grammar, Answers

\* The last command that ran says yes.
LEMMA GrammarGoesOn ==
  ASSUME LineAssumptions, TypeInv, OrderInv, Unmixed, Grammar,
         linePc = "return", stack # <<>>, stack[1].kind \in AndOrKinds, GoesOn(stack[1].kind),
         linePc' = "call", current' = stack[1].rest, stack' = Pop, UNCHANGED <<given, executed>>
  PROVE  Grammar'
<1>1. CommandsOf(given) \subseteq 1..Len(given) /\ stack[1].kind \in {"&&", "||"}
  BY DEF CommandsOf, AndOrKinds
<1>2. /\ Callers' /\ AnswerLater'
      /\ \A k \in 1..Len(stack') : Piece(given, stack'[k].rest)
      /\ stack' # <<>> /\ stack'[1].kind \in AndOrKinds => stack[1].kind = "source"
      /\ \A c \in 1..Len(given) : Held(given, stack, c) <=> In(given, stack[1].rest, c) \/ Held(given, stack', c)
  BY CallersPopped DEF Grammar, Answers
<1>3. stack[1].kind # "source"
  BY <1>1
<1>4. ASSUME NEW c \in CommandsOf(given), In(given, stack[1].rest, c)
      PROVE  Due(given, executed, c)
  <2>1. c # 1 /\ given[c - 1].t = stack[1].kind
    BY <1>4, AnswerIs
  <2>2. PICK b \in 1..Len(given), n \in 1..Len(executed) :
          Decides(given, executed, b, n, c) /\ executed[n].status = ret
    BY <1>4, AnswerIs
  <2>3. Fits(given, executed, n, c)
    BY <1>1, <2>1, <2>2 DEF Fits, GoesOn
  <2> QED
    BY <2>2, <2>3 DEF Due
<1> QED
  BY <1>2, <1>3, <1>4, GrammarTaken

\* The line right of a semicolon: its first command is due in any case.
LEMMA GrammarSecond ==
  ASSUME LineAssumptions, TypeInv, Grammar, RunSecond
  PROVE  Grammar'
<1>1. /\ linePc = "return" /\ stack # <<>> /\ stack[1].kind = ";"
      /\ linePc' = "call" /\ current' = stack[1].rest
      /\ stack' = <<Frame("second", <<>>, <<>>)>> \o Pop /\ UNCHANGED <<given, executed>>
  BY DEF RunSecond, Returns, Call, Top
<1>2. PICK fr : fr = Frame("second", <<>>, <<>>)
  OBVIOUS
<1>3. fr \in FrameSet /\ fr.kind = "second" /\ fr.rest = <<>>
  <2>1. <<>> \in Seq(TokenSet)
    OBVIOUS
  <2> QED
    BY <1>2, <2>1, FrameIs DEF FrameOK, Frame
<1>4. fr.kind \notin AndOrKinds /\ fr.kind # "source"
  BY <1>3 DEF AndOrKinds
<1>5. Len(fr.rest) = 0 /\ \A l : Foreign(l, fr.rest) /\ \A c : ~In(l, fr.rest, c)
  BY <1>3 DEF Foreign, In
<1>a. Len(stack) \in Nat /\ Len(stack) >= 1
  <2>1. Len(stack) >= 1
    BY StackPopped, <1>1
  <2> QED
    BY <2>1 DEF TypeInv
<1>6. PICK n \in Nat : n = Len(stack) /\ n >= 1
  BY <1>a
<1>7. Len(stack') = n /\ stack'[1] = fr /\ \A k \in 2..n : stack'[k] = stack[k]
  <2>1. PICK st : st = Pop
    OBVIOUS
  <2>2. st \in Seq(FrameSet) /\ Len(st) = n - 1 /\ \A k \in 1..Len(st) : st[k] = stack[k + 1]
    BY <1>1, <1>6, <2>1, StackPopped
  <2>3. stack' = <<fr>> \o st
    BY <1>1, <1>2, <2>1
  <2>4. Len(stack') = Len(st) + 1 /\ stack'[1] = fr /\ \A k \in 2..(Len(st) + 1) : stack'[k] = st[k - 1]
    BY <1>3, <2>2, <2>3, PushIs
  <2>5. Len(stack') = n
    BY <1>6, <2>2, <2>4
  <2>6. ASSUME NEW k \in 2..n PROVE stack'[k] = stack[k]
    <3>1. k \in 2..(Len(st) + 1) /\ k - 1 \in 1..Len(st) /\ (k - 1) + 1 = k
      BY <1>6, <2>2
    <3> QED
      BY <2>2, <2>4, <3>1
  <2> QED
    BY <2>4, <2>5, <2>6
<1>8. \A k \in 1..n : k = 1 \/ k \in 2..n
  OBVIOUS
<1>9. \A k \in 1..Len(stack') : Piece(given, stack'[k].rest)
  <2>1. \A k \in 2..n : Piece(given, stack[k].rest)
    BY <1>6 DEF Grammar, Pieces
  <2> QED
    BY <1>5, <1>7, <1>8, <2>1 DEF Piece
<1>10. ASSUME NEW k \in 2..n, k = 2 \/ k - 1 \in 2..n
       PROVE  /\ Behind(given, stack[k])
              /\ stack[k].kind \in AndOrKinds =>
                   /\ NoSemicolon(stack[k].rest)
                   /\ k # 2 /\ stack'[k - 1].kind = "source"
  <2>1. /\ Behind(given, stack[k])
        /\ stack[k].kind \in AndOrKinds => NoSemicolon(stack[k].rest) /\ stack[k - 1].kind = "source"
    BY <1>6 DEF Grammar, Callers
  <2>2. k = 2 => k - 1 = 1
    OBVIOUS
  <2> QED
    BY <2>1, <2>2, <1>1, <1>7, <1>10
<1>11. \A k \in 2..n : k = 2 \/ k - 1 \in 2..n
  OBVIOUS
<1>12. Callers'
  <2>1. Behind(given, fr)
    BY <1>5 DEF Behind
  <2>2. ASSUME NEW k \in 1..n
        PROVE  /\ Behind(given, stack'[k])
               /\ stack'[k].kind \in AndOrKinds =>
                    /\ NoSemicolon(stack'[k].rest)
                    /\ k > 1 => stack'[k - 1].kind = "source"
    BY <1>4, <1>7, <1>8, <1>10, <1>11, <2>1
  <2> QED
    BY <1>1, <1>7, <2>2 DEF Callers
<1>13. AnswerLater'
  <2> SUFFICES ASSUME NEW k \in 2..n, stack'[k - 1].kind = "source"
               PROVE  AnswerFor(given, executed, stack'[k], 0)
    BY <1>1, <1>7 DEF AnswerLater
  <2>1. k = 2 => k - 1 = 1
    OBVIOUS
  <2>2. k - 1 \in 2..n
    BY <2>1, <1>4, <1>7, <1>11
  <2>3. stack[k - 1].kind = "source"
    BY <2>2, <1>7
  <2> QED
    BY <2>3, <1>6, <1>7 DEF Grammar, Answers, AnswerLater
<1>14. \A c \in 1..Len(given) : Held(given, stack, c) <=> In(given, stack[1].rest, c) \/ Held(given, stack', c)
  <2>1. 1 \in 1..n /\ \A k \in 2..n : k \in 1..n
    BY <1>6
  <2> QED
    BY <2>1, <1>5, <1>6, <1>7, <1>8 DEF Held
<1>15. ASSUME NEW c \in CommandsOf(given), Sits(given, stack[1].rest, c), In(given, stack[1].rest, c)
       PROVE  Due(given, executed, c)
  <2>1. 1 \in 1..Len(stack)
    BY <1>6
  <2>2. Behind(given, stack[1]) /\ stack[1].rest \in Seq(TokenSet) /\ c \in 1..Len(given)
    BY <2>1, LineIs DEF Grammar, Callers, CommandsOf
  <2>3. Len(stack[1].rest) > 0
    <3>1. Len(stack[1].rest) \in Nat
      BY <2>2
    <3> QED
      BY <1>15, <3>1 DEF In
  <2>4. given[c - 1].t = ";"
    BY <2>2, <2>3, <1>1, <1>15 DEF Behind
  <2> QED
    BY <2>4 DEF Due
<1> QED
  BY <1>1, <1>4, <1>7, <1>9, <1>12, <1>13, <1>14, <1>15, GrammarTaken

\* A caller with nothing left to run returns; a "source" returns 0.
LEMMA GrammarBack ==
  ASSUME LineAssumptions, TypeInv, Grammar, linePc = "return", stack # <<>>, stack[1].rest = <<>>,
         stack[1].kind # "source" \/ ret' = 0,
         stack' = Pop, UNCHANGED <<given, current, linePc, executed>>
  PROVE  Grammar'
<1>1. CommandsOf(given) \subseteq 1..Len(given)
  BY DEF CommandsOf
<1>2. /\ Callers' /\ AnswerLater'
      /\ \A k \in 1..Len(stack') : Piece(given, stack'[k].rest)
      /\ stack' # <<>> /\ stack'[1].kind \in AndOrKinds => stack[1].kind = "source"
      /\ stack' # <<>> /\ stack[1].kind = "source" => AnswerFor(given, executed, stack'[1], 0)
      /\ \A c \in 1..Len(given) : Held(given, stack, c) <=> In(given, stack[1].rest, c) \/ Held(given, stack', c)
  BY CallersPopped DEF Grammar, Answers
<1>3. Pieces' /\ AnswerAsked' /\ Ended'
  BY <1>2 DEF Pieces, AnswerAsked, Ended
<1>4. AnswerComes'
  <2>1. CASE stack[1].kind = "source"
    BY <2>1, <1>2 DEF AnswerComes
  <2>2. CASE stack[1].kind # "source"
    BY <2>2, <1>2 DEF AnswerComes, AnswerFor
  <2> QED
    BY <2>1, <2>2
<1>5. \A c \in CommandsOf(given) :
        Waits(given, linePc', current', stack', c) <=> Waits(given, linePc, current, stack, c)
  <2>1. \A c : ~In(given, stack[1].rest, c)
    BY DEF In
  <2> QED
    BY <1>1, <1>2, <2>1 DEF Waits
<1>6. Decisions'
  BY <1>5, DecisionsSame DEF Grammar
<1> QED
  BY <1>2, <1>3, <1>4, <1>6 DEF Grammar, Answers

-----------------------------------------------------------------------------
(* Every step *)

\* "source" takes its next line: nothing of the line that was given is in it.
LEMMA GrammarFile ==
  ASSUME LineAssumptions, TypeInv, Grammar, NextSourced
  PROVE  Grammar'
<1>1. PICK m \in 1..Len(Sourced) :
         /\ stack # <<>> /\ stack[1].kind = "source" /\ stack[1].rest = <<>>
         /\ Sourced[m] \in Seq(TokenSet)
         /\ stack' = [stack EXCEPT ![1].lines = SubSeq(Sourced, m + 1, Len(Sourced))]
         /\ \/ UNCHANGED <<current, linePc, ret>>
            \/ linePc' = "call" /\ current' = Sourced[m] /\ UNCHANGED ret
  BY NextSourcedIs
<1>2. linePc = "return" /\ UNCHANGED <<given, executed>>
  BY DEF NextSourced, Returns
<1>3. /\ Len(stack') = Len(stack)
      /\ stack'[1] = Frame("source", <<>>, SubSeq(Sourced, m + 1, Len(Sourced)))
      /\ \A k \in 2..Len(stack) : stack'[k] = stack[k]
  BY <1>1, StackOfSource
<1>4. stack'[1].kind = "source" /\ stack'[1].rest = <<>>
  BY <1>3 DEF Frame
<1>5. \A k \in 1..Len(stack) : k = 1 \/ k \in 2..Len(stack)
  BY DEF TypeInv
<1>6. \A k \in 1..Len(stack) : stack'[k].kind = stack[k].kind /\ stack'[k].rest = stack[k].rest
  BY <1>1, <1>3, <1>4, <1>5
<1>7. /\ given \in Seq(TokenSet) /\ CommandsOf(given) \subseteq 1..Len(given)
      /\ stack'[1].kind \notin AndOrKinds
  BY <1>4, LineIs DEF CommandsOf, AndOrKinds
<1>8. Foreign(given, Sourced[m])
  <2>1. given \in Lines
    BY LineIs
  <2>2. Places(Sourced[m]) \cap Places(given) = {}
    BY <2>1, Zenon DEF LineAssumptions
  <2> QED
    BY <2>2 DEF Foreign, Places
<1>9. Pieces'
  <2>1. \A k \in 1..Len(stack') : Piece(given, stack'[k].rest)
    BY <1>3, <1>6 DEF Grammar, Pieces
  <2>2. linePc' = "call" => Piece(given, current')
    BY <1>1, <1>2, <1>8 DEF Piece
  <2> QED
    BY <2>1, <2>2, <1>2 DEF Pieces
<1>10. Callers'
  <2>1. \A k \in 1..Len(stack) : k > 1 => k - 1 \in 1..Len(stack)
    BY DEF TypeInv
  <2>2. ASSUME NEW k \in 1..Len(stack)
        PROVE  /\ Behind(given, stack'[k])
               /\ stack'[k].kind \in AndOrKinds =>
                    /\ NoSemicolon(stack'[k].rest)
                    /\ k > 1 => stack'[k - 1].kind = "source"
    BY <2>1, <1>6 DEF Grammar, Callers, Behind
  <2> QED
    BY <2>2, <1>2, <1>3 DEF Callers
<1>11. AnswerAsked' /\ AnswerComes' /\ Ended'
  BY <1>1, <1>2, <1>7 DEF AnswerAsked, AnswerComes, AnswerFor, Ended
<1>12. AnswerLater'
  <2>1. \A k \in 2..Len(stack) : k \in 1..Len(stack) /\ k - 1 \in 1..Len(stack)
    BY DEF TypeInv
  <2>2. ASSUME NEW k \in 2..Len(stack), stack'[k - 1].kind = "source"
        PROVE  AnswerFor(given, executed, stack'[k], 0)
    BY <2>1, <2>2, <1>6 DEF Grammar, Answers, AnswerLater, AnswerFor
  <2> QED
    BY <2>2, <1>2, <1>3 DEF AnswerLater
<1>13. Decisions'
  <2>1. ASSUME NEW c \in CommandsOf(given)
        PROVE  Waits(given, linePc', current', stack', c) <=> Waits(given, linePc, current, stack, c)
    <3>1. Held(given, stack', c) <=> Held(given, stack, c)
      BY <1>3, <1>6 DEF Held
    <3>2. ~In(given, Sourced[m], c)
      BY <1>1, <1>7, <1>8, ForeignHolds
    <3> QED
      BY <3>1, <3>2, <1>1, <1>2 DEF Waits
  <2>2. linePc' = "call" =>
          \A p \in CommandsOf(given) : Len(current') > 0 /\ Sits(given, current', p) => Due(given, executed, p)
    BY <1>1, <1>2, <1>7, <1>8, ForeignHolds
  <2> QED
    BY <1>2, <2>1, <2>2, DecisionsSame DEF Grammar
<1> QED
  BY <1>9, <1>10, <1>11, <1>12, <1>13 DEF Grammar, Answers

\* A line that is run has no operators; the shell is not ended by it.
LEMMA LeafLine ==
  ASSUME LineAssumptions, TypeInv, OrderInv, NoExit, IsPipeline
  PROVE  /\ linePc = "call" /\ ~Skipped(current) /\ Without(current, Separators)
         /\ Words # {} => Name # "exit"
<1>1. linePc = "call" /\ ~Skipped(current) /\ Without(current, Separators)
  BY DEF IsPipeline, Semicolons, AndOrs, Positions, Without, Separators
<1>2. \A tk \in TokensOf(current) :
        tk \in TokensOf(given) \/ \E i \in 1..Len(Sourced) : tk \in TokensOf(Sourced[i])
  <2>1. Items[0] = TokensOf(current)
    BY <1>1, ItemsAre DEF Now
  <2>2. 0 \in 0..Len(stack)
    BY DEF TypeInv
  <2> QED
    BY <2>1, <2>2 DEF OrderInv, KnownItems
<1>3. \A tk \in TokensOf(current) : tk.t # "exit"
  <2>1. \A tk \in TokensOf(given) : tk.t # "exit"
    BY DEF NoExit, Positions, TokensOf
  <2>2. \A i \in 1..Len(Sourced) : \A tk \in TokensOf(Sourced[i]) : tk.t # "exit"
    BY DEF NoExit, Positions, TokensOf
  <2> QED
    BY <1>2, <2>1, <2>2
<1>4. ASSUME Words # {}
      PROVE  Name # "exit"
  <2>1. FirstOf(Words) \in 1..Len(current)
    BY <1>4, FirstIs DEF Words, TypeInv
  <2>2. current[FirstOf(Words)] \in TokensOf(current)
    BY <2>1 DEF TokensOf
  <2> QED
    BY <1>3, <2>2 DEF Name
<1> QED
  BY <1>1, <1>4

\* Every step keeps it.
LEMMA GrammarKept ==
  ASSUME LineAssumptions, TypeInv, OrderInv, WellWritten, Unmixed, NoExit, Grammar, LineNext, failed' = 0
  PROVE  Grammar'
<1>1. current \in Seq(TokenSet) /\ lastExit \in Statuses /\ 1 \in Statuses /\ 0 \in {0, 1} /\ 1 \in {0, 1}
  BY LineIs, Constants DEF TypeInv
<1>2. linePc = "call" => Piece(given, current)
  BY DEF Grammar, Pieces
<1>3. stack # <<>> => FrameOK(stack[1])
  <2>1. stack # <<>> => 1 \in 1..Len(stack)
    BY DEF TypeInv
  <2> QED
    BY <2>1 DEF TypeInv
<1>4. CASE Nothing
  <2>1. \A c \in CommandsOf(given) : ~In(given, current, c)
    BY <1>1, <1>2, <1>4, LeafIs DEF Nothing
  <2> QED
    BY <2>1, <1>4, GrammarNone DEF Nothing, Result
<1>5. CASE Split
  BY <1>5, GrammarSplit
<1>6. CASE NoCommand
  <2>1. linePc = "call" /\ Without(current, Separators) /\ Words = {}
    BY <1>6, LeafLine DEF NoCommand
  <2>2. \A c \in CommandsOf(given) : ~In(given, current, c)
    BY <2>1, <1>1, <1>2, LeafIs DEF Words
  <2> QED
    BY <2>1, <2>2, <1>6, GrammarNone DEF NoCommand, Result
<1>7. CASE Builtin
  <2>1. IsPipeline /\ Words # {} /\ UNCHANGED given
    BY <1>7 DEF Builtin
  <2>2. PICK st \in Statuses : Result(st) /\ Ran(st, 0)
    BY <1>7 DEF Builtin, BuiltinResults
  <2>3. linePc = "call" /\ ~Skipped(current) /\ Without(current, Separators)
    BY <2>1, LeafLine
  <2> QED
    BY <2>1, <2>2, <2>3, <1>1, GrammarRan
<1>8. CASE ExitBuiltin
  BY <1>8, LeafLine DEF ExitBuiltin
<1>9. CASE Source
  <2>1. Without(current, Separators)
    BY <1>9, LeafLine DEF Source
  <2> QED
    BY <2>1, <1>9, GrammarSourced
<1>10. CASE SourceFails
  <2>1. IsPipeline /\ Words # {} /\ UNCHANGED given /\ Result(1) /\ Ran(1, 0)
    BY <1>10 DEF SourceFails
  <2> QED
    BY <2>1, <1>1, LeafLine, GrammarRan
<1>11. CASE Execute
  <2>1. IsPipeline /\ (Pipes # {} \/ Words # {}) /\ UNCHANGED given
    BY <1>11 DEF Execute
  <2>2. \E st \in Statuses, bg \in {0, 1} : Result(st) /\ Ran(st, bg)
    BY <1>1, <1>11 DEF Execute
  <2>3. PICK st \in Statuses, bg \in {0, 1} : Result(st) /\ Ran(st, bg)
    BY <2>2
  <2>4. linePc = "call" /\ ~Skipped(current) /\ Without(current, Separators)
    BY <2>1, LeafLine
  <2> QED
    BY <2>1, <2>3, <2>4, GrammarRan
<1>12. CASE ForkFails
  <2>1. failed' = 1
    BY <1>12 DEF ForkFails
  <2> QED
    BY <2>1
<1>13. CASE RunSecond
  BY <1>13, GrammarSecond
<1>14. CASE BothRun
  <2>1. linePc = "return" /\ stack # <<>> /\ stack[1].kind = "second" /\ stack' = Pop
        /\ UNCHANGED <<given, current, linePc, executed>>
    BY <1>14 DEF BothRun, Returns, Top
  <2>2. stack[1].rest = <<>>
    BY <2>1, <1>3 DEF FrameOK
  <2> QED
    BY <2>1, <2>2, GrammarBack
<1>15. CASE AndOr
  <2>1. PICK op \in {"&&", "||"} :
          /\ Returns(op)
          /\ \/ GoesOn(op) /\ Call(Top.rest, Pop)
             \/ ~GoesOn(op) /\ stack' = Pop /\ UNCHANGED <<current, linePc, ret>>
    BY <1>15 DEF AndOr
  <2>2. linePc = "return" /\ stack # <<>> /\ stack[1].kind = op /\ op \in AndOrKinds /\ UNCHANGED <<given, executed>>
    BY <2>1, <1>15 DEF Returns, Top, AndOr, AndOrKinds
  <2>3. CASE GoesOn(op) /\ Call(Top.rest, Pop)
    BY <2>2, <2>3, GrammarGoesOn DEF Call, Top
  <2>4. CASE ~GoesOn(op) /\ stack' = Pop /\ UNCHANGED <<current, linePc, ret>>
    BY <2>2, <2>4, GrammarLeft
  <2> QED
    BY <2>1, <2>3, <2>4
<1>16. CASE NextSourced
  BY <1>16, GrammarFile
<1>17. CASE SourceDone
  <2>1. linePc = "return" /\ stack # <<>> /\ stack[1].kind = "source" /\ stack' = Pop /\ ret' = 0
        /\ UNCHANGED <<given, current, linePc, executed>>
    BY <1>17 DEF SourceDone, Returns, Top
  <2>2. stack[1].rest = <<>>
    BY <2>1, <1>3 DEF FrameOK
  <2> QED
    BY <2>1, <2>2, GrammarBack
<1>18. CASE MainReturns
  <2>1. linePc = "return" /\ linePc' = "exited" /\ stack = <<>> /\ UNCHANGED <<given, current, stack, executed>>
    BY <1>18 DEF MainReturns
  <2>2. Pieces' /\ Callers' /\ Answers' /\ Ended'
    BY <2>1 DEF Grammar, Pieces, Callers, Answers, AnswerAsked, AnswerComes, AnswerLater, Ended
  <2>3. Decisions'
    BY <2>1, DecisionsSame DEF Grammar, Waits
  <2> QED
    BY <2>2, <2>3 DEF Grammar
<1> QED
  BY <1>4, <1>5, <1>6, <1>7, <1>8, <1>9, <1>10, <1>11, <1>12, <1>13, <1>14, <1>15, <1>16, <1>17, <1>18 DEF LineNext

-----------------------------------------------------------------------------
(* What toolsh has run when it is done *)

\* At the start the whole line waits, and its first command is due.
LEMMA GrammarStarts ==
  ASSUME LineAssumptions, LineInit
  PROVE  Grammar
<1>1. /\ given \in Lines /\ current = given /\ stack = <<>> /\ linePc = "call" /\ executed = <<>>
      /\ given \in Seq(TokenSet) /\ Ordered(given)
  BY Constants, PlacesApart DEF LineInit
<1>2. PICK z \in Nat : z = Len(given)
  BY <1>1
<1>3. ASSUME z > 0
      PROVE  1 \in 1..Len(given) /\ Sits(given, given, 1) /\ Begins(given, 1)
  <2>1. 1 \in 1..z /\ \A j \in 1..z : 1 + j - 1 = j
    BY <1>3
  <2> QED
    BY <2>1, <1>2 DEF Sits, Begins
<1>4. Piece(given, current)
  <2>1. CASE z = 0
    BY <1>1, <1>2, <2>1 DEF Piece, Foreign
  <2>2. CASE z > 0
    BY <1>1, <1>3, <2>2 DEF Piece
  <2> QED
    BY <2>1, <2>2, <1>2
<1>5. Pieces /\ Callers /\ Answers /\ Ended
  BY <1>1, <1>4 DEF Pieces, Callers, Answers, AnswerAsked, AnswerComes, AnswerLater, Ended
<1>6. Decisions
  <2>1. \A c \in CommandsOf(given) : Waits(given, linePc, current, stack, c)
    BY <1>1 DEF CommandsOf, Waits, In
  <2>2. ASSUME NEW p \in CommandsOf(given), Len(current) > 0, Sits(given, current, p)
        PROVE  Due(given, executed, p)
    <3>1. p \in 1..Len(given) /\ 1 \in 1..Len(given)
      BY <1>1, <1>2, <2>2 DEF CommandsOf
    <3>2. given[1] = given[p]
      BY <1>1, <2>2, <3>1, SitsOnce
    <3>3. p = 1
      BY <1>1, <3>1, <3>2, OneToken
    <3> QED
      BY <3>3 DEF Due
  <2> QED
    BY <1>1, <2>1, <2>2 DEF Decisions
<1> QED
  BY <1>5, <1>6 DEF Grammar

\* The status of a command that ran, and the last one that ran before another.
LEMMA LastIs ==
  ASSUME LineAssumptions, TypeInv, OrderInv, NEW c \in CommandsOf(given),
         NEW b \in 1..Len(given), NEW n \in 1..Len(executed), Decides(given, executed, b, n, c)
  PROVE  LastOf(LeftOf(c)) = b /\ StatusOf(Place(b)) = executed[n].status
<1>1. /\ given \in Seq(TokenSet) /\ Ordered(given) /\ executed \in Seq(RanSet)
      /\ CommandsOf(given) \subseteq 1..Len(given)
  BY LineIs DEF CommandsOf
<1>2. /\ b \in CommandsOf(given) /\ b < c /\ executed[n].at = given[b].at
      /\ OnePiece(given, b, c)
      /\ \A m \in CommandsOf(given) : b < m /\ m < c => ~RanAt(executed, given[m].at)
  BY DEF Decides
<1>3. \A at : HasRun(at) <=> RanAt(executed, at)
  BY DEF HasRun, RanAt
<1>4. b \in LeftOf(c)
  BY <1>2, <1>3 DEF LeftOf, Place, OnePiece, RanAt
<1>a. LeftOf(c) \subseteq 1..Len(given)
  BY <1>1 DEF LeftOf
<1>5. \A m \in LeftOf(c) : m <= b
  <2> SUFFICES ASSUME NEW m \in LeftOf(c), b < m PROVE FALSE
    BY <1>a
  <2>1. m \in CommandsOf(given) /\ m < c /\ RanAt(executed, given[m].at)
    BY <1>3 DEF LeftOf, Place
  <2> QED
    BY <2>1, <1>2
<1>6. LastOf(LeftOf(c)) = b
  <2>1. PICK z : z = LastOf(LeftOf(c))
    OBVIOUS
  <2>2. z \in LeftOf(c) /\ \A m \in LeftOf(c) : m <= z
    BY <1>4, <1>5, <2>1, Zenon DEF LastOf
  <2>3. z \in 1..Len(given) /\ z <= b /\ b <= z
    BY <1>1, <1>4, <1>5, <2>2 DEF LeftOf
  <2> QED
    BY <2>1, <2>3
<1>7. \A m \in 1..Len(executed) : executed[m].at = given[b].at => m = n
  <2> SUFFICES ASSUME NEW m \in 1..Len(executed), executed[m].at = given[b].at, m # n PROVE FALSE
    OBVIOUS
  <2>1. given[b].at \in Places(given)
    BY DEF Places
  <2>2. \A i, j \in 1..Len(executed) :
          i < j /\ executed[i].at \in Places(given) /\ executed[j].at \in Places(given) => executed[i].at < executed[j].at
    BY DEF OrderInv, Agenda
  <2>a. given[b] \in TokenSet
    BY <1>1
  <2>3. given[b].at \in Nat
    BY <2>a DEF TokenSet
  <2>4. m < n \/ n < m
    BY <2>1
  <2>5. given[b].at < given[b].at
    BY <2>1, <2>2, <2>4, <1>2
  <2> QED
    BY <2>3, <2>5
<1>8. StatusOf(Place(b)) = executed[n].status
  BY <1>2, <1>7, Zenon DEF StatusOf, Place
<1> QED
  BY <1>6, <1>8

\* When toolsh is done every command has been decided, as the grammar says.
LEMMA GrammarRunsAsWritten ==
  ASSUME LineAssumptions, TypeInv, OrderInv, Grammar, linePc = "exited"
  PROVE  RunAsWritten
<1>1. CommandsOf(given) \subseteq 1..Len(given)
  BY DEF CommandsOf
<1>2. stack = <<>> /\ Len(stack) = 0
  BY DEF Grammar, Ended
<1>3. \A at : HasRun(at) <=> RanAt(executed, at)
  BY DEF HasRun, RanAt
<1>4. ASSUME NEW c \in CommandsOf(given)
      PROVE  HasRun(Place(c)) <=> ShouldRun(c)
  <2>1. Settled(given, executed, c)
    <3>1. ~Waits(given, linePc, current, stack, c)
      BY <1>2 DEF Waits, Held
    <3> QED
      BY <3>1 DEF Grammar, Decisions
  <2>2. CASE RanAt(executed, given[c].at) /\ Due(given, executed, c)
    <3>1. HasRun(Place(c))
      BY <1>3, <2>2 DEF Place
    <3>2. ASSUME NEW b \in 1..Len(given), NEW n \in 1..Len(executed),
                 Decides(given, executed, b, n, c), Fits(given, executed, n, c)
          PROVE  ShouldRun(c)
      <4>1. LastOf(LeftOf(c)) = b /\ StatusOf(Place(b)) = executed[n].status
        BY <3>2, LastIs
      <4> QED
        BY <3>2, <4>1 DEF ShouldRun, Fits
    <3>3. ShouldRun(c)
      BY <2>2, <3>2 DEF Due, ShouldRun
    <3> QED
      BY <3>1, <3>3
  <2>3. CASE ~RanAt(executed, given[c].at) /\ LeftOut(given, executed, c)
    <3>1. ~HasRun(Place(c))
      BY <1>3, <2>3 DEF Place
    <3>2. PICK b \in 1..Len(given), n \in 1..Len(executed) :
            Decides(given, executed, b, n, c) /\ ~Fits(given, executed, n, c)
      BY <2>3 DEF LeftOut
    <3>3. LastOf(LeftOf(c)) = b /\ StatusOf(Place(b)) = executed[n].status
      BY <3>2, LastIs
    <3>4. ~ShouldRun(c)
      BY <2>3, <3>2, <3>3 DEF ShouldRun, Fits, LeftOut
    <3> QED
      BY <3>1, <3>4
  <2> QED
    BY <2>1, <2>2, <2>3 DEF Settled
<1>5. ASSUME NEW at \in Places(given), HasRun(at)
      PROVE  \E c \in CommandsOf(given) : Place(c) = at
  BY <1>5 DEF HasRun, Place, Grammar, Decisions
<1> QED
  BY <1>4, <1>5 DEF RunAsWritten

\* What is said of the line alone stays true.
LEMMA SameLine ==
  ASSUME UNCHANGED given
  PROVE  (WellWritten <=> WellWritten') /\ (Unmixed <=> Unmixed') /\ (NoExit <=> NoExit')
<1>1. WellWritten <=> WellWritten'
  BY DEF WellWritten, CommandsOf
<1>2. Unmixed <=> Unmixed'
  BY DEF Unmixed, Positions
<1>3. NoExit <=> NoExit'
  BY DEF NoExit, Positions
<1> QED
  BY <1>1, <1>2, <1>3

\* The inductive invariant: as long as no fork fails, what has been run of a line is what
\* its grammar says, and what waits is decided by the result that its caller gets.
THEOREM ChainInvariant ==
  ASSUME LineAssumptions
  PROVE  LineSpec => []ChainInv
<1>1. LineInit => ChainInv
  BY GrammarStarts DEF ChainInv
<1>2. LineInv /\ ChainInv /\ [LineNext]_lineVars => ChainInv'
  <2> SUFFICES ASSUME LineInv, ChainInv, [LineNext]_lineVars, failed' = 0, WellWritten', Unmixed', NoExit'
               PROVE  Grammar'
    BY DEF ChainInv
  <2>1. TypeInv /\ OrderInv
    BY DEF LineInv
  <2>2. CASE LineNext
    <3>1. UNCHANGED given /\ failed = 0
      <4>1. failed \in {0, 1}
        BY <2>1 DEF TypeInv
      <4> QED
        BY <2>2, <4>1 DEF LineNext, Nothing, Split, NoCommand, Builtin, ExitBuiltin, Source, SourceFails, Execute,
             ForkFails, RunSecond, BothRun, AndOr, NextSourced, SourceDone, MainReturns
    <3>2. WellWritten /\ Unmixed /\ NoExit
      BY <3>1, SameLine
    <3>3. Grammar
      BY <3>1, <3>2 DEF ChainInv
    <3> QED
      BY <2>1, <2>2, <3>2, <3>3, GrammarKept
  <2>3. CASE UNCHANGED lineVars
    <3>1. UNCHANGED <<mode, given, current, stack, linePc, ret, lastExit, executed, failed>>
      BY <2>3 DEF lineVars
    <3>2. Grammar
      BY <3>1, SameLine DEF ChainInv
    <3> QED
      BY <3>1, <3>2 DEF Grammar, Pieces, Callers, Answers, AnswerAsked, AnswerComes, AnswerLater, Decisions, Ended
  <2> QED
    BY <2>2, <2>3
<1> QED
  BY <1>1, <1>2, LineInvariant, PTL DEF LineSpec

\* A line whose pieces each use one operator runs the commands its grammar says, each
\* decided by the last one that ran before it, and nothing else, however run_pipeline splits
\* the line and whatever the commands, or the lines of a file, return.
THEOREM ChainsAreRun ==
  ASSUME LineAssumptions
  PROVE  LineSpec => []ChainsRun
<1>1. LineInv /\ ChainInv => ChainsRun
  BY GrammarRunsAsWritten DEF LineInv, ChainInv, ChainsRun, Finished
<1> QED
  BY <1>1, LineInvariant, ChainInvariant, PTL
=============================================================================
