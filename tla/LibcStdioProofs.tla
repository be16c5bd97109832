--------------------------- MODULE LibcStdioProofs ---------------------------
(***************************************************************************)
(* TLAPS proofs about LibcStdio: exit leaves nothing in a buffer, a line   *)
(* for stderr never waits, and the buffered streams implement the plain    *)
(* files of StreamView, for any number of streams, buffer size, content    *)
(* and order of calls, with short and failing writes and short reads.      *)
(***************************************************************************)
EXTENDS LibcStdio, SequenceTheorems, TLAPS

-----------------------------------------------------------------------------
(* Sequences *)

\* A function on 1..n is a sequence of length n.
LEMMA FunctionIsSeq ==
  ASSUME NEW S, NEW n \in Nat, NEW w, w = [j \in 1..n |-> w[j]],
         \A j \in 1..n : w[j] \in S
  PROVE  w \in Seq(S) /\ Len(w) = n
<1>1. w \in [1..n -> S]
  OBVIOUS
<1>2. w \in Seq(S) /\ DOMAIN w = 1..n
  BY <1>1
<1> QED
  BY <1>2

\* Writing data at a position that is not past the end.
LEMMA OverwriteFacts ==
  ASSUME NEW S, NEW d \in Seq(S), NEW data \in Seq(S), NEW at \in 0..Len(d)
  PROVE  /\ Overwrite(d, at, data) \in Seq(S)
         /\ Len(Overwrite(d, at, data)) = IF at + Len(data) > Len(d) THEN at + Len(data) ELSE Len(d)
         /\ \A i \in 1..Len(Overwrite(d, at, data)) :
              Overwrite(d, at, data)[i] = IF at < i /\ i <= at + Len(data) THEN data[i - at] ELSE d[i]
<1> DEFINE n == IF at + Len(data) > Len(d) THEN at + Len(data) ELSE Len(d)
           w == Overwrite(d, at, data)
<1>1. n \in Nat /\ at \in Nat /\ Len(d) \in Nat /\ Len(data) \in Nat /\ n >= Len(d) /\ n >= at + Len(data)
  OBVIOUS
<1>2. w = [i \in 1..n |-> IF at < i /\ i <= at + Len(data) THEN data[i - at] ELSE d[i]]
  BY DEF Overwrite
<1>3. \A i \in 1..n : w[i] = IF at < i /\ i <= at + Len(data) THEN data[i - at] ELSE d[i]
  BY <1>2
<1>4. \A i \in 1..n : w[i] \in S
  <2> TAKE i \in 1..n
  <2>1. CASE at < i /\ i <= at + Len(data)
    <3>1. i - at \in 1..Len(data)
      BY <1>1, <2>1
    <3> QED
      BY <1>3, <2>1, <3>1, ElementOfSeq
  <2>2. CASE ~(at < i /\ i <= at + Len(data))
    <3>1. i \in 1..Len(d)
      BY <1>1, <2>2
    <3> QED
      BY <1>3, <2>2, <3>1, ElementOfSeq
  <2> QED
    BY <2>1, <2>2
<1>5. w = [i \in 1..n |-> w[i]]
  BY <1>2
<1> HIDE DEF n, w
<1>6. w \in Seq(S) /\ Len(w) = n
  BY <1>1, <1>4, <1>5, FunctionIsSeq
<1>7. \A i \in 1..Len(w) : w[i] = IF at < i /\ i <= at + Len(data) THEN data[i - at] ELSE d[i]
  BY <1>3, <1>6
<1> QED
  BY <1>6, <1>7 DEF n, w

\* A part of a sequence.
LEMMA PartFacts ==
  ASSUME NEW S, NEW s \in Seq(S), NEW m \in 1..(Len(s) + 1), NEW n \in (m - 1)..Len(s)
  PROVE  /\ SubSeq(s, m, n) \in Seq(S)
         /\ Len(SubSeq(s, m, n)) = n - m + 1
         /\ \A i \in 1..(n - m + 1) : SubSeq(s, m, n)[i] = s[m + i - 1]
<1>1. m \in Int /\ n \in Int /\ Len(s) \in Nat
  OBVIOUS
<1>2. \A i \in m..n : s[i] \in S
  BY <1>1, ElementOfSeq
<1>3. /\ SubSeq(s, m, n) \in Seq(S)
      /\ Len(SubSeq(s, m, n)) = IF m <= n THEN n - m + 1 ELSE 0
      /\ \A i \in 1..(n - m + 1) : SubSeq(s, m, n)[i] = s[m + i - 1]
  BY <1>1, <1>2, SubSeqProperties
<1>4. (IF m <= n THEN n - m + 1 ELSE 0) = n - m + 1
  BY <1>1
<1> QED
  BY <1>3, <1>4

\* The larger of three numbers, two ways.
LEMMA Larger ==
  ASSUME NEW k \in Nat, NEW x \in Nat, NEW y \in Nat, NEW z \in Nat,
         NEW m, m = IF k + x > z THEN k + x ELSE z
  PROVE  (IF k + x + y > m THEN k + x + y ELSE m) = IF k + (x + y) > z THEN k + (x + y) ELSE z
  OBVIOUS

\* Where a part of length n begins and ends.
LEMMA Within ==
  ASSUME NEW k \in Nat, NEW n \in Nat, NEW m \in Nat, k + n <= m
  PROVE  k + 1 \in 1..(m + 1) /\ k + n \in (k + 1 - 1)..m
  OBVIOUS

\* Two writes one after the other are one write of both.
LEMMA OverwriteTwice ==
  ASSUME NEW S, NEW d \in Seq(S), NEW at \in 0..Len(d), NEW a \in Seq(S), NEW b \in Seq(S)
  PROVE  /\ at + Len(a) \in 0..Len(Overwrite(d, at, a))
         /\ Overwrite(Overwrite(d, at, a), at + Len(a), b) = Overwrite(d, at, a \o b)
<1> DEFINE w == Overwrite(d, at, a)
           l == Overwrite(w, at + Len(a), b)
           r == Overwrite(d, at, a \o b)
<1>1. /\ w \in Seq(S) /\ Len(w) = IF at + Len(a) > Len(d) THEN at + Len(a) ELSE Len(d)
      /\ \A i \in 1..Len(w) : w[i] = IF at < i /\ i <= at + Len(a) THEN a[i - at] ELSE d[i]
  BY OverwriteFacts
<1>2. /\ at \in Nat /\ Len(a) \in Nat /\ Len(b) \in Nat /\ Len(d) \in Nat /\ Len(w) \in Nat
  BY <1>1
<1>3. at + Len(a) \in 0..Len(w)
  BY <1>1, <1>2
<1>4. /\ l \in Seq(S) /\ Len(l) = IF at + Len(a) + Len(b) > Len(w) THEN at + Len(a) + Len(b) ELSE Len(w)
      /\ \A i \in 1..Len(l) :
           l[i] = IF at + Len(a) < i /\ i <= at + Len(a) + Len(b) THEN b[i - (at + Len(a))] ELSE w[i]
  BY <1>1, <1>3, OverwriteFacts
<1>5. /\ a \o b \in Seq(S) /\ Len(a \o b) = Len(a) + Len(b)
      /\ \A i \in 1..(Len(a) + Len(b)) : (a \o b)[i] = IF i <= Len(a) THEN a[i] ELSE b[i - Len(a)]
  BY ConcatProperties
<1>6. /\ r \in Seq(S) /\ Len(r) = IF at + Len(a \o b) > Len(d) THEN at + Len(a \o b) ELSE Len(d)
      /\ \A i \in 1..Len(r) : r[i] = IF at < i /\ i <= at + Len(a \o b) THEN (a \o b)[i - at] ELSE d[i]
  BY <1>5, OverwriteFacts
<1> HIDE DEF w, l, r
<1>7. Len(l) = Len(r)
  <2>1. Len(l) = IF at + Len(a) + Len(b) > Len(w) THEN at + Len(a) + Len(b) ELSE Len(w)
    BY <1>4
  <2>2. Len(r) = IF at + (Len(a) + Len(b)) > Len(d) THEN at + (Len(a) + Len(b)) ELSE Len(d)
    BY <1>5, <1>6
  <2>3. Len(w) = IF at + Len(a) > Len(d) THEN at + Len(a) ELSE Len(d)
    BY <1>1
  <2> QED
    BY <1>2, <2>1, <2>2, <2>3, Larger
<1>8. \A i \in 1..Len(l) : l[i] = r[i]
  <2> TAKE i \in 1..Len(l)
  <2>0. i \in 1..Len(r) /\ i \in Nat
    BY <1>4, <1>7
  <2>1. CASE i <= at
    <3>1. i \in 1..Len(w)
      BY <1>2, <1>3, <2>0, <2>1
    <3> QED
      BY <1>1, <1>2, <1>4, <1>6, <2>0, <2>1, <3>1
  <2>2. CASE at < i /\ i <= at + Len(a)
    <3>1. i \in 1..Len(w) /\ i - at \in 1..(Len(a) + Len(b)) /\ i - at <= Len(a)
          /\ i <= at + Len(a \o b)
      BY <1>2, <1>3, <1>5, <2>0, <2>2
    <3>2. l[i] = a[i - at]
      BY <1>1, <1>2, <1>4, <2>0, <2>2, <3>1
    <3> QED
      BY <1>5, <1>6, <2>0, <2>2, <3>1, <3>2
  <2>3. CASE at + Len(a) < i /\ i <= at + Len(a) + Len(b)
    <3>1. i - at \in 1..(Len(a) + Len(b)) /\ ~(i - at <= Len(a)) /\ i <= at + Len(a \o b) /\ at < i
          /\ (i - at) - Len(a) = i - (at + Len(a))
      BY <1>2, <1>5, <2>0, <2>3
    <3>2. l[i] = b[i - (at + Len(a))]
      BY <1>4, <2>3
    <3>3. r[i] = (a \o b)[i - at]
      BY <1>6, <2>0, <3>1
    <3> QED
      BY <1>5, <3>1, <3>2, <3>3
  <2>4. CASE at + Len(a) + Len(b) < i
    <3>1. i \in 1..Len(w) /\ ~(i <= at + Len(a)) /\ ~(i <= at + Len(a) + Len(b)) /\ ~(i <= at + Len(a \o b))
      BY <1>2, <1>4, <1>5, <2>0, <2>4
    <3> QED
      BY <1>1, <1>4, <1>6, <2>0, <3>1
  <2> QED
    BY <1>2, <2>0, <2>1, <2>2, <2>3, <2>4
<1>9. l = r
  BY <1>4, <1>6, <1>7, <1>8, SeqEqual
<1> QED
  BY <1>3, <1>9 DEF w, l, r

\* Writing nothing changes nothing, and writing at the end appends.
LEMMA OverwriteSimple ==
  ASSUME NEW S, NEW d \in Seq(S)
  PROVE  /\ \A at \in 0..Len(d) : Overwrite(d, at, <<>>) = d
         /\ \A a \in Seq(S) : Overwrite(d, Len(d), a) = d \o a
<1>1. ASSUME NEW at \in 0..Len(d) PROVE Overwrite(d, at, <<>>) = d
  <2> DEFINE w == Overwrite(d, at, <<>>)
  <2>1. <<>> \in Seq(S) /\ Len(<<>>) = 0 /\ at \in Nat /\ Len(d) \in Nat
    OBVIOUS
  <2>2. /\ w \in Seq(S) /\ Len(w) = IF at + Len(<<>>) > Len(d) THEN at + Len(<<>>) ELSE Len(d)
        /\ \A i \in 1..Len(w) :
             w[i] = IF at < i /\ i <= at + Len(<<>>) THEN <<>>[i - at] ELSE d[i]
    BY <2>1, OverwriteFacts
  <2> HIDE DEF w
  <2>3. Len(w) = Len(d)
    BY <2>1, <2>2
  <2>4. \A i \in 1..Len(w) : w[i] = d[i]
    <3> TAKE i \in 1..Len(w)
    <3>1. ~(at < i /\ i <= at + Len(<<>>))
      BY <2>1, <2>3
    <3> QED
      BY <2>2, <3>1
  <2>5. w = d
    BY <2>2, <2>3, <2>4, SeqEqual
  <2> QED
    BY <2>5 DEF w
<1>2. ASSUME NEW a \in Seq(S) PROVE Overwrite(d, Len(d), a) = d \o a
  <2> DEFINE w == Overwrite(d, Len(d), a)
  <2>1. Len(a) \in Nat /\ Len(d) \in Nat /\ Len(d) \in 0..Len(d)
    OBVIOUS
  <2>0. /\ w \in Seq(S) /\ Len(w) = IF Len(d) + Len(a) > Len(d) THEN Len(d) + Len(a) ELSE Len(d)
        /\ \A i \in 1..Len(w) : w[i] = IF Len(d) < i /\ i <= Len(d) + Len(a) THEN a[i - Len(d)] ELSE d[i]
    BY <2>1, OverwriteFacts
  <2>3. /\ d \o a \in Seq(S) /\ Len(d \o a) = Len(d) + Len(a)
        /\ \A i \in 1..(Len(d) + Len(a)) : (d \o a)[i] = IF i <= Len(d) THEN d[i] ELSE a[i - Len(d)]
    BY ConcatProperties
  <2> HIDE DEF w
  <2>2. Len(w) = Len(d) + Len(a)
    BY <2>0, <2>1
  <2>4. \A i \in 1..Len(w) : w[i] = (d \o a)[i]
    <3> TAKE i \in 1..Len(w)
    <3>1. w[i] = IF Len(d) < i /\ i <= Len(d) + Len(a) THEN a[i - Len(d)] ELSE d[i]
      BY <2>0
    <3>2. (d \o a)[i] = IF i <= Len(d) THEN d[i] ELSE a[i - Len(d)]
      BY <2>2, <2>3
    <3> QED
      BY <2>1, <2>2, <3>1, <3>2
  <2>5. w = d \o a
    BY <2>0, <2>2, <2>3, <2>4, SeqEqual
  <2> QED
    BY <2>5 DEF w
<1> QED
  BY <1>1, <1>2

-----------------------------------------------------------------------------
(* The inductive invariant *)

\* A stream and its file: the buffer holds what is to be flushed or what was
\* read ahead, which is the part of the file that ends where the kernel stands.
Shape(g, d) ==
  /\ g.pos <= Len(g.buf) /\ g.len <= Len(g.buf) /\ Len(g.buf) <= BufSz /\ g.off <= Len(d)
  /\ g.mode = "r" => /\ g.pos <= g.len /\ g.len <= g.off
                     /\ g.buf = SubSeq(d, g.off - g.len + 1, g.off)
  /\ g.mode \in {"w", "a"} => g.len = 0 /\ g.pos = Len(g.buf)
  /\ g.open = 0 => g = Shut
Shapes == \A s \in Streams : Shape(f[s], disk[s])

\* Where the current call is, and what that says of its stream.
CallInv ==
  /\ pc \in {"idle", "handler", "exit", "exited"} => call = NoCall
  /\ call.walk >= 1
  /\ IF pc = "flush" THEN call.done <= F.pos ELSE call.done = 0
  /\ call.done > 0 => Writes(user)
  /\ pc = "write" \/ call.after \in {"write", "full"} => Writes(user) /\ F.open = 1
  /\ pc = "read" => Reads(user) /\ F.open = 1 /\ call.after = "return"
  /\ pc = "close" => call.after = "close"
  /\ pc = "seek" => call.after = "seek" /\ (Writes(user) => F.pos = 0 \/ F.err = 1)
  /\ call.after = "seek" => /\ F.open = 1
                            /\ \/ call.offset <= 0
                               \/ call.whence = "SET" /\ call.offset <= Len(disk[user])
  /\ pc = "flushall" \/ call.after = "flushall" => call.got = <<>> /\ call.todo = <<>>

\* exit has flushed the first streams of the table, up to n.
FlushedTo(n) ==
  \A i \in 1..Len(tracked) :
    i < n /\ Dirty(tracked[i]) => f[tracked[i]].err = 1 \/ (pc = "flush" /\ tracked[i] = user)
ExitInv ==
  /\ ExitFlushes
  /\ call.home = "exited" =>
       /\ pc \in {"flushall", "flush", "return"}
       /\ pc = "flush" => call.after = "flushall"
       /\ FlushedTo(IF pc = "return" THEN Len(tracked) + 1 ELSE call.walk)

\* A newline in the buffer of stderr is on its way out.
NoLine(g) == \A i \in 1..g.pos : g.buf[i] # NL
LineInv ==
  /\ f[StdErr].mode = "w"
  /\ f[StdErr].err = 0 => NoLine(f[StdErr]) \/ (user = StdErr /\ pc = "flush")

IInv == TypeOK /\ Shapes /\ CallInv /\ ExitInv /\ LineInv

-----------------------------------------------------------------------------
(* Records *)

\* What a step makes of a FILE structure is one again.
LEMMA FileUpdates ==
  ASSUME NEW g \in FileRec, NEW b \in Seq(Bytes), NEW p \in 0..BufSz, NEW l \in 0..BufSz, NEW o \in Nat
  PROVE  /\ [g EXCEPT !.buf = b, !.pos = p] \in FileRec
         /\ [g EXCEPT !.off = o] \in FileRec
         /\ [g EXCEPT !.err = 1] \in FileRec
         /\ [g EXCEPT !.eof = 1] \in FileRec
         /\ [g EXCEPT !.pos = p] \in FileRec
         /\ [g EXCEPT !.pos = p, !.buf = b] \in FileRec
         /\ [g EXCEPT !.pos = p, !.len = l, !.off = o, !.buf = b] \in FileRec
         /\ [g EXCEPT !.buf = b, !.pos = p, !.len = l, !.eof = 0, !.off = o] \in FileRec
<1>1. [g EXCEPT !.buf = b, !.pos = p] \in FileRec
  BY DEF FileRec
<1>2. [g EXCEPT !.off = o] \in FileRec
  BY DEF FileRec
<1>3. [g EXCEPT !.err = 1] \in FileRec /\ [g EXCEPT !.eof = 1] \in FileRec
  BY DEF FileRec
<1>4. [g EXCEPT !.pos = p] \in FileRec
  BY DEF FileRec
<1>5. [g EXCEPT !.pos = p, !.buf = b] \in FileRec
  BY DEF FileRec
<1>6. [g EXCEPT !.pos = p, !.len = l, !.off = o, !.buf = b] \in FileRec
  BY DEF FileRec
<1>7. [g EXCEPT !.buf = b, !.pos = p, !.len = l, !.eof = 0, !.off = o] \in FileRec
  BY DEF FileRec
<1> QED
  BY <1>1, <1>2, <1>3, <1>4, <1>5, <1>6, <1>7

\* A stream just opened, and one that is closed.
LEMMA Opens ==
  ASSUME Assumptions, NEW m \in {"r", "w", "a", "r+"}
  PROVE  /\ Fresh(m) \in FileRec /\ Shut \in FileRec
         /\ \A d \in Seq(Bytes) : Shape(Fresh(m), d) /\ Shape(Shut, d)
<1>1. 0 \in 0..BufSz /\ BufSz \in Nat
  BY DEF Assumptions
<1>2. Fresh(m) \in FileRec
  BY <1>1 DEF Fresh, FileRec
<1>3. Shut \in FileRec
  <2>1. Fresh("w") \in FileRec
    BY <1>1 DEF Fresh, FileRec
  <2>2. \A g \in FileRec : [g EXCEPT !.open = 0] \in FileRec
    BY DEF FileRec
  <2> QED
    BY <2>1, <2>2 DEF Shut
<1>4. ASSUME NEW d \in Seq(Bytes) PROVE Shape(Fresh(m), d)
  <2>1. SubSeq(d, 0 - 0 + 1, 0) = <<>>
    OBVIOUS
  <2> QED
    BY <1>1, <2>1 DEF Shape, Fresh
<1>5. ASSUME NEW d \in Seq(Bytes) PROVE Shape(Shut, d)
  BY <1>1 DEF Shape, Shut, Fresh
<1> QED
  BY <1>2, <1>3, <1>4, <1>5

\* There is a call before the first one.
LEMMA NoCallTyped ==
  ASSUME Assumptions
  PROVE  NoCall \in CallRec
<1>1. (CHOOSE s \in Streams : TRUE) \in Streams
  BY DEF Assumptions
<1>2. 0 \in 0..BufSz
  BY DEF Assumptions
<1> QED
  BY <1>1, <1>2 DEF NoCall, CallRec

\* The stream of the current call.
LEMMA Current ==
  ASSUME TypeOK, Shapes
  PROVE  /\ user \in Streams /\ F \in FileRec /\ F = f[user] /\ Shape(F, disk[user])
         /\ disk[user] \in Seq(Bytes) /\ Len(disk[user]) \in Nat
         /\ F.buf \in Seq(Bytes) /\ Len(F.buf) \in Nat /\ F.pos \in 0..BufSz /\ F.len \in 0..BufSz /\ F.off \in Nat
         /\ F.mode \in {"r", "w", "a", "r+"}
<1>1. user \in Streams
  BY DEF TypeOK, CallRec, user
<1>2. F \in FileRec /\ F = f[user] /\ disk[user] \in Seq(Bytes) /\ Shape(F, disk[user])
  BY <1>1 DEF TypeOK, F, Shapes
<1> QED
  BY <1>1, <1>2 DEF FileRec

\* The variables of the current call.
LEMMA Locals ==
  ASSUME TypeOK
  PROVE  /\ call.home \in {"idle", "handler", "exited"} /\ call.todo \in Seq(Bytes) /\ Len(call.todo) \in Nat
         /\ call.char \in {0, 1} /\ call.want \in Nat /\ call.got \in Seq(Bytes)
         /\ call.whence \in {"SET", "CUR", "END"} /\ call.offset \in Int /\ call.done \in 0..BufSz
         /\ call.after \in {"return", "write", "full", "seek", "close", "flushall"} /\ call.walk \in Nat
  BY DEF TypeOK, CallRec

\* A step about one stream leaves the others alone.
LEMMA OneStream ==
  ASSUME TypeOK, NEW s \in Streams, NEW g \in FileRec, f' = [f EXCEPT ![s] = g]
  PROVE  /\ f' \in [Streams -> FileRec] /\ f'[s] = g
         /\ \A t \in Streams : t # s => f'[t] = f[t]
  BY DEF TypeOK

-----------------------------------------------------------------------------
(* What each step makes of its stream *)

\* What a step that changes one stream must leave.
Leaves(g) == g \in FileRec /\ f' = [f EXCEPT ![user] = g] /\ Shape(g, disk'[user])

\* fwrite copies as much as there is room for behind what waits to be flushed.
LEMMA WriteCopyFacts ==
  ASSUME Assumptions, TypeOK, Shapes, CallInv, WriteCopy
  PROVE  \E k \in 1..Len(call.todo), b \in Seq(Bytes) :
           /\ k <= BufSz - F.pos /\ F.pos + k \in 0..BufSz
           /\ SubSeq(call.todo, 1, k) \in Seq(Bytes) /\ Len(SubSeq(call.todo, 1, k)) = k
           /\ b = Filled(SubSeq(call.todo, 1, k))
           /\ F.pos + k <= Len(b)
           /\ \A i \in 1..(F.pos + k) : b[i] = IF F.pos < i THEN call.todo[i - F.pos] ELSE F.buf[i]
           /\ Leaves([F EXCEPT !.buf = b, !.pos = F.pos + k])
           /\ pc' = IF user = StdErr /\ HasNewline(k) THEN "flush" ELSE "write"
           /\ call' = [call EXCEPT !.todo = SubSeq(call.todo, k + 1, Len(call.todo)),
                         !.after = IF user = StdErr /\ HasNewline(k) THEN "write" ELSE call.after]
           /\ SubSeq(call.todo, k + 1, Len(call.todo)) \in Seq(Bytes)
<1>a. PICK k : k = Least(Len(call.todo), BufSz - F.pos)
  OBVIOUS
<1>b. PICK data : data = SubSeq(call.todo, 1, k)
  OBVIOUS
<1>c. PICK b : b = Filled(data)
  OBVIOUS
<1>d. PICK g : g = [F EXCEPT !.buf = b, !.pos = F.pos + k]
  OBVIOUS
<1>1. /\ pc = "write" /\ Len(call.todo) > 0 /\ F.pos < BufSz
      /\ f' = [f EXCEPT ![user] = g] /\ disk' = disk
      /\ pc' = IF user = StdErr /\ HasNewline(k) THEN "flush" ELSE "write"
      /\ call' = [call EXCEPT !.todo = SubSeq(call.todo, k + 1, Len(call.todo)),
                    !.after = IF user = StdErr /\ HasNewline(k) THEN "write" ELSE call.after]
  BY <1>a, <1>b, <1>c, <1>d DEF WriteCopy, Becomes
<1>2. /\ user \in Streams /\ F \in FileRec /\ Shape(F, disk[user])
      /\ F.buf \in Seq(Bytes) /\ Len(F.buf) \in Nat /\ F.pos \in 0..BufSz /\ F.len \in 0..BufSz /\ F.off \in Nat
      /\ F.mode \in {"r", "w", "a", "r+"}
  BY Current
<1>3. /\ F.pos \in 0..Len(F.buf) /\ Len(F.buf) <= BufSz /\ F.len <= Len(F.buf) /\ F.off <= Len(disk[user])
      /\ F.mode \in {"w", "a"} => F.len = 0 /\ F.pos = Len(F.buf)
      /\ F.mode # "r" /\ F.open # 0 /\ F.mode = f[user].mode
  <2>1. Writes(user) /\ F.open = 1
    BY <1>1 DEF CallInv
  <2>2. F.mode \in {"w", "a", "r+"}
    BY <2>1 DEF Writes, F
  <2> QED
    BY <1>2, <2>1, <2>2 DEF Shape, F
<1>4. call.todo \in Seq(Bytes) /\ Len(call.todo) \in Nat /\ BufSz \in Nat
  BY Locals DEF Assumptions
<1>5. k \in 1..Len(call.todo) /\ k <= BufSz - F.pos /\ F.pos + k \in 0..BufSz /\ k \in Nat
  BY <1>1, <1>2, <1>4, <1>a DEF Least
<1>6. /\ data \in Seq(Bytes) /\ Len(data) = k /\ \A i \in 1..k : data[i] = call.todo[i]
  <2>1. k \in (1 - 1)..Len(call.todo) /\ 1 \in 1..(Len(call.todo) + 1)
    BY <1>4, <1>5
  <2>2. /\ data \in Seq(Bytes) /\ Len(data) = k - 1 + 1
        /\ \A i \in 1..(k - 1 + 1) : data[i] = call.todo[1 + i - 1]
    BY <1>4, <1>b, <2>1, PartFacts
  <2> QED
    BY <1>5, <2>2
<1>7. SubSeq(call.todo, k + 1, Len(call.todo)) \in Seq(Bytes)
  <2>1. k + 1 \in 1..(Len(call.todo) + 1) /\ Len(call.todo) \in (k + 1 - 1)..Len(call.todo)
    BY <1>4, <1>5
  <2> QED
    BY <1>4, <2>1, PartFacts
<1>8. /\ b \in Seq(Bytes)
      /\ Len(b) = IF F.pos + k > Len(F.buf) THEN F.pos + k ELSE Len(F.buf)
      /\ \A i \in 1..Len(b) : b[i] = IF F.pos < i /\ i <= F.pos + k THEN data[i - F.pos] ELSE F.buf[i]
  <2>1. /\ b \in Seq(Bytes)
        /\ Len(b) = IF F.pos + Len(data) > Len(F.buf) THEN F.pos + Len(data) ELSE Len(F.buf)
        /\ \A i \in 1..Len(b) : b[i] = IF F.pos < i /\ i <= F.pos + Len(data) THEN data[i - F.pos] ELSE F.buf[i]
    <3>1. PICK old, at : old = F.buf /\ at = F.pos
      OBVIOUS
    <3>2. b = Overwrite(old, at, data)
      BY <1>c, <3>1 DEF Filled
    <3>3. old \in Seq(Bytes) /\ at \in 0..Len(old)
      BY <1>2, <1>3, <3>1
    <3>4. /\ b \in Seq(Bytes)
          /\ Len(b) = IF at + Len(data) > Len(old) THEN at + Len(data) ELSE Len(old)
          /\ \A i \in 1..Len(b) : b[i] = IF at < i /\ i <= at + Len(data) THEN data[i - at] ELSE old[i]
      BY <1>6, <3>2, <3>3, OverwriteFacts
    <3> QED
      BY <3>1, <3>4
  <2> QED
    BY <1>6, <2>1
<1>9. /\ F.pos + k <= Len(b) /\ F.len <= Len(b) /\ Len(b) <= BufSz /\ Len(b) \in Nat
      /\ F.mode \in {"w", "a"} => F.pos + k = Len(b)
  BY <1>2, <1>3, <1>4, <1>5, <1>8
<1>10. \A i \in 1..(F.pos + k) : b[i] = IF F.pos < i THEN call.todo[i - F.pos] ELSE F.buf[i]
  <2> TAKE i \in 1..(F.pos + k)
  <2>1. i \in 1..Len(b) /\ i <= F.pos + k
    BY <1>2, <1>4, <1>5, <1>9
  <2>2. CASE F.pos < i
    <3>1. i - F.pos \in 1..k
      BY <1>2, <1>5, <2>1, <2>2
    <3>2. b[i] = data[i - F.pos]
      BY <1>8, <2>1, <2>2
    <3> QED
      BY <1>6, <2>2, <3>1, <3>2
  <2>3. CASE ~(F.pos < i)
    BY <1>8, <2>1, <2>3
  <2> QED
    BY <2>2, <2>3
<1>11. g \in FileRec
  BY <1>2, <1>5, <1>8, <1>d, FileUpdates
<1>12. g.pos = F.pos + k /\ g.buf = b /\ g.len = F.len /\ g.off = F.off /\ g.mode = F.mode /\ g.open = F.open
  BY <1>2, <1>d DEF FileRec
<1>13. Shape(g, disk[user])
  BY <1>3, <1>9, <1>12 DEF Shape
<1>14. Leaves(g)
  BY <1>1, <1>11, <1>13 DEF Leaves
<1>16. /\ k <= BufSz - F.pos /\ F.pos + k \in 0..BufSz
       /\ SubSeq(call.todo, 1, k) \in Seq(Bytes) /\ Len(SubSeq(call.todo, 1, k)) = k
       /\ b = Filled(SubSeq(call.todo, 1, k))
       /\ F.pos + k <= Len(b)
       /\ \A i \in 1..(F.pos + k) : b[i] = IF F.pos < i THEN call.todo[i - F.pos] ELSE F.buf[i]
       /\ Leaves([F EXCEPT !.buf = b, !.pos = F.pos + k])
       /\ pc' = IF user = StdErr /\ HasNewline(k) THEN "flush" ELSE "write"
       /\ call' = [call EXCEPT !.todo = SubSeq(call.todo, k + 1, Len(call.todo)),
                     !.after = IF user = StdErr /\ HasNewline(k) THEN "write" ELSE call.after]
       /\ SubSeq(call.todo, k + 1, Len(call.todo)) \in Seq(Bytes)
  BY <1>1, <1>5, <1>6, <1>7, <1>9, <1>10, <1>14, <1>b, <1>c, <1>d
<1>17. k \in 1..Len(call.todo) /\ b \in Seq(Bytes)
  BY <1>5, <1>8
<1> QED
  BY <1>16, <1>17, Zenon

\* The stream a dirty flush is about: it is open and only written, or for update.
LEMMA DirtyFacts ==
  ASSUME TypeOK, Shapes, Dirty(user)
  PROVE  /\ F.mode \in {"w", "a", "r+"} /\ F.pos > 0 /\ F.open # 0
<1>1. F.mode \in {"w", "a", "r+"} /\ F.pos > 0
  BY DEF Dirty, Writes, F
<1>2. F.open = 0 => F = Shut
  BY Current DEF Shape
<1>3. Shut.pos = 0
  BY DEF Shut, Fresh
<1> QED
  BY <1>1, <1>2, <1>3

\* A write takes the next bytes of the buffer to the file.
LEMMA FlushWriteFacts ==
  ASSUME Assumptions, TypeOK, Shapes, FlushWrite
  PROVE  \E n \in Nat \ {0}, d \in Seq(Bytes) :
           /\ call.done + n <= F.pos
           /\ SubSeq(F.buf, call.done + 1, call.done + n) \in Seq(Bytes)
           /\ d = Written(SubSeq(F.buf, call.done + 1, call.done + n))
           /\ disk' = [disk EXCEPT ![user] = d] /\ disk'[user] = d
           /\ Len(disk[user]) <= Len(d) /\ OffsetAfter(n) \in Nat
           /\ Leaves([F EXCEPT !.off = OffsetAfter(n)])
           /\ call' = [call EXCEPT !.done = call.done + n] /\ pc' = pc
           /\ disk' \in [Streams -> Seq(Bytes)]
<1>0. PICK n \in 1..Least(F.pos - call.done, MaxLen - OffsetAfter(0)) :
        /\ disk' = [disk EXCEPT ![user] = Written(SubSeq(F.buf, call.done + 1, call.done + n))]
        /\ f' = [f EXCEPT ![user] = [F EXCEPT !.off = OffsetAfter(n)]]
        /\ call' = [call EXCEPT !.done = call.done + n]
        /\ pc' = pc
  BY DEF FlushWrite, Becomes, Progress
<1>1. /\ user \in Streams /\ F \in FileRec /\ Shape(F, disk[user])
      /\ F.buf \in Seq(Bytes) /\ Len(F.buf) \in Nat /\ F.pos \in 0..BufSz /\ F.len \in 0..BufSz /\ F.off \in Nat
      /\ disk[user] \in Seq(Bytes) /\ Len(disk[user]) \in Nat
  BY Current
<1>2. F.mode \in {"w", "a", "r+"} /\ F.pos > 0 /\ F.open # 0
  BY DirtyFacts DEF FlushWrite
<1>3. /\ F.pos <= Len(F.buf) /\ F.len <= Len(F.buf) /\ Len(F.buf) <= BufSz /\ F.off <= Len(disk[user])
      /\ F.mode \in {"w", "a"} => F.len = 0 /\ F.pos = Len(F.buf)
  BY <1>1 DEF Shape
<1>4. call.done \in Nat /\ call.done < F.pos /\ BufSz \in Nat /\ MaxLen \in Nat
  BY Locals DEF FlushWrite, Assumptions
<1>5. n \in Nat \ {0} /\ call.done + n <= F.pos
  <2>1. OffsetAfter(0) \in Nat
    BY <1>1 DEF OffsetAfter
  <2> QED
    BY <1>1, <1>4, <2>1 DEF Least
<1>b. PICK data : data = SubSeq(F.buf, call.done + 1, call.done + n)
  OBVIOUS
<1>c. PICK d : d = Written(data)
  OBVIOUS
<1>d. PICK g : g = [F EXCEPT !.off = OffsetAfter(n)]
  OBVIOUS
<1>6. data \in Seq(Bytes) /\ Len(data) = n
  <2>1. call.done + 1 \in 1..(Len(F.buf) + 1) /\ call.done + n \in (call.done + 1 - 1)..Len(F.buf)
    <3>1. call.done + n <= Len(F.buf) /\ n \in Nat
      BY <1>1, <1>3, <1>4, <1>5
    <3> QED
      BY <1>1, <1>4, <3>1, Within
  <2>2. PICK old, m, l : old = F.buf /\ m = call.done + 1 /\ l = call.done + n
    OBVIOUS
  <2>3. old \in Seq(Bytes) /\ m \in 1..(Len(old) + 1) /\ l \in (m - 1)..Len(old)
    <3>1. old \in Seq(Bytes) /\ Len(old) = Len(F.buf) /\ Len(F.buf) \in Nat
      BY <1>1, <2>2
    <3>2. m \in 1..(Len(F.buf) + 1) /\ l \in (m - 1)..Len(F.buf)
      BY <1>4, <1>5, <2>1, <2>2
    <3> QED
      BY <3>1, <3>2
  <2>4. data = SubSeq(old, m, l)
    BY <1>b, <2>2
  <2>5. data \in Seq(Bytes) /\ Len(data) = l - m + 1
    BY <2>3, <2>4, PartFacts
  <2> QED
    BY <1>4, <1>5, <2>2, <2>5
<1>7. /\ d \in Seq(Bytes) /\ Len(disk[user]) <= Len(d)
      /\ OffsetAfter(n) \in Nat /\ OffsetAfter(n) <= Len(d)
  <2>1. CASE F.mode = "a"
    <3>1. d = disk[user] \o data /\ OffsetAfter(n) = Len(disk[user]) + n
      BY <1>c, <2>1 DEF Written, OffsetAfter
    <3>2. d \in Seq(Bytes) /\ Len(d) = Len(disk[user]) + n
      BY <1>1, <1>6, <3>1, ConcatProperties
    <3> QED
      BY <1>1, <1>5, <3>1, <3>2
  <2>2. CASE F.mode # "a"
    <3>1. PICK old, at : old = disk[user] /\ at = F.off
      OBVIOUS
    <3>2. d = Overwrite(old, at, data) /\ OffsetAfter(n) = at + n
      BY <1>c, <2>2, <3>1 DEF Written, OffsetAfter
    <3>3. old \in Seq(Bytes) /\ at \in 0..Len(old)
      BY <1>1, <1>3, <3>1
    <3>4. d \in Seq(Bytes) /\ Len(d) = IF at + Len(data) > Len(old) THEN at + Len(data) ELSE Len(old)
      BY <1>6, <3>2, <3>3, OverwriteFacts
    <3> QED
      BY <1>1, <1>5, <1>6, <3>1, <3>2, <3>4
  <2> QED
    BY <2>1, <2>2
<1>8. g \in FileRec
  BY <1>1, <1>7, <1>d, FileUpdates
<1>9. /\ g.pos = F.pos /\ g.buf = F.buf /\ g.len = F.len /\ g.off = OffsetAfter(n) /\ g.mode = F.mode
      /\ g.open = F.open
  BY <1>1, <1>d DEF FileRec
<1>10. Shape(g, d)
  BY <1>2, <1>3, <1>7, <1>9 DEF Shape
<1>11. disk' = [disk EXCEPT ![user] = d] /\ disk'[user] = d /\ disk' \in [Streams -> Seq(Bytes)]
  <2>1. disk \in [Streams -> Seq(Bytes)]
    BY DEF TypeOK
  <2> QED
    BY <1>0, <1>1, <1>7, <1>b, <1>c, <2>1
<1>12. Leaves(g)
  BY <1>0, <1>8, <1>10, <1>11, <1>d DEF Leaves
<1>13. /\ call.done + n <= F.pos
       /\ SubSeq(F.buf, call.done + 1, call.done + n) \in Seq(Bytes)
       /\ d = Written(SubSeq(F.buf, call.done + 1, call.done + n))
       /\ disk' = [disk EXCEPT ![user] = d] /\ disk'[user] = d
       /\ Len(disk[user]) <= Len(d) /\ OffsetAfter(n) \in Nat
       /\ Leaves([F EXCEPT !.off = OffsetAfter(n)])
       /\ call' = [call EXCEPT !.done = call.done + n] /\ pc' = pc
       /\ disk' \in [Streams -> Seq(Bytes)]
  BY <1>0, <1>5, <1>6, <1>7, <1>11, <1>12, <1>b, <1>c, <1>d
<1> QED
  BY <1>5, <1>7, <1>13, Zenon

\* A write that fails leaves the buffer as it is.
LEMMA FlushFailsFacts ==
  ASSUME Assumptions, TypeOK, Shapes, FlushFails
  PROVE  Leaves([F EXCEPT !.err = 1])
<1>1. /\ user \in Streams /\ F \in FileRec /\ Shape(F, disk[user])
  BY Current
<1>2. F.mode \in {"w", "a", "r+"} /\ F.open # 0
  BY DirtyFacts DEF FlushFails
<1>3. PICK g : g = [F EXCEPT !.err = 1]
  OBVIOUS
<1>4. g \in FileRec
  <2>1. 0 \in 0..BufSz /\ 0 \in Nat /\ <<>> \in Seq(Bytes)
    BY DEF Assumptions
  <2> QED
    BY <1>1, <1>3, <2>1, FileUpdates
<1>5. /\ g.pos = F.pos /\ g.buf = F.buf /\ g.len = F.len /\ g.off = F.off /\ g.mode = F.mode
      /\ g.open = F.open
  BY <1>1, <1>3 DEF FileRec
<1>6. Shape(g, disk[user])
  BY <1>1, <1>2, <1>5 DEF Shape
<1>7. f' = [f EXCEPT ![user] = g] /\ disk' = disk
  BY <1>3 DEF FlushFails, Becomes
<1>8. Leaves(g)
  BY <1>4, <1>6, <1>7 DEF Leaves
<1> QED
  BY <1>3, <1>8

\* A flush that is through leaves what was read ahead, if anything.
LEMMA FlushDoneFacts ==
  ASSUME Assumptions, TypeOK, Shapes, FlushDone, Dirty(user)
  PROVE  /\ SubSeq(F.buf, 1, F.len) \in Seq(Bytes)
         /\ Leaves([F EXCEPT !.pos = 0, !.buf = SubSeq(F.buf, 1, F.len)])
<1>1. /\ user \in Streams /\ F \in FileRec /\ Shape(F, disk[user])
      /\ F.buf \in Seq(Bytes) /\ Len(F.buf) \in Nat /\ F.len \in 0..BufSz /\ F.off \in Nat
  BY Current
<1>2. F.mode \in {"w", "a", "r+"} /\ F.open # 0
  BY DirtyFacts
<1>3. /\ F.len <= Len(F.buf) /\ Len(F.buf) <= BufSz /\ F.off <= Len(disk[user]) /\ BufSz \in Nat
      /\ F.mode \in {"w", "a"} => F.len = 0
  BY <1>1 DEF Shape, Assumptions
<1>b. PICK b : b = SubSeq(F.buf, 1, F.len)
  OBVIOUS
<1>c. PICK g : g = [F EXCEPT !.pos = 0, !.buf = b]
  OBVIOUS
<1>4. b \in Seq(Bytes) /\ Len(b) = F.len
  <2>1. 1 \in 1..(Len(F.buf) + 1) /\ F.len \in (1 - 1)..Len(F.buf)
    BY <1>1, <1>3
  <2>2. b \in Seq(Bytes) /\ Len(b) = F.len - 1 + 1
    BY <1>1, <1>b, <2>1, PartFacts
  <2> QED
    BY <1>1, <1>3, <2>2
<1>5. g \in FileRec
  <2>1. 0 \in 0..BufSz /\ 0 \in Nat
    BY <1>3
  <2> QED
    BY <1>1, <1>4, <1>c, <2>1, FileUpdates
<1>6. /\ g.pos = 0 /\ g.buf = b /\ g.len = F.len /\ g.off = F.off /\ g.mode = F.mode
      /\ g.open = F.open
  BY <1>1, <1>c DEF FileRec
<1>7. Shape(g, disk[user])
  BY <1>1, <1>2, <1>3, <1>4, <1>6 DEF Shape
<1>8. f' = [f EXCEPT ![user] = g] /\ disk' = disk
  BY <1>b, <1>c DEF FlushDone, Emptied, Becomes
<1>9. Leaves(g)
  BY <1>5, <1>7, <1>8 DEF Leaves
<1> QED
  BY <1>4, <1>9, <1>b, <1>c

\* fread hands out what was read ahead.
LEMMA ReadCopyFacts ==
  ASSUME Assumptions, TypeOK, Shapes, CallInv, ReadCopy
  PROVE  \E k \in 1..call.want :
           /\ F.pos + k <= F.len
           /\ Leaves([F EXCEPT !.pos = F.pos + k])
           /\ SubSeq(F.buf, F.pos + 1, F.pos + k) \in Seq(Bytes)
           /\ call' = [call EXCEPT !.want = call.want - k,
                         !.got = call.got \o SubSeq(F.buf, F.pos + 1, F.pos + k)]
<1>1. /\ user \in Streams /\ F \in FileRec /\ Shape(F, disk[user])
      /\ F.buf \in Seq(Bytes) /\ Len(F.buf) \in Nat /\ F.pos \in 0..BufSz /\ F.len \in 0..BufSz
      /\ F.mode \in {"r", "w", "a", "r+"} /\ F.off \in Nat
  BY Current
<1>2. F.mode \in {"r", "r+"} /\ F.open = 1
  BY DEF CallInv, ReadCopy, Reads, F
<1>3. /\ F.pos <= F.len /\ F.len <= Len(F.buf) /\ Len(F.buf) <= BufSz /\ BufSz \in Nat /\ call.want \in Nat /\ call.want > 0
      /\ F.pos < F.len
  BY <1>1, Locals DEF Shape, ReadCopy, Assumptions
<1>a. PICK k : k = Least(call.want, F.len - F.pos)
  OBVIOUS
<1>b. PICK data : data = SubSeq(F.buf, F.pos + 1, F.pos + k)
  OBVIOUS
<1>c. PICK g : g = [F EXCEPT !.pos = F.pos + k]
  OBVIOUS
<1>4. k \in 1..call.want /\ F.pos + k <= F.len /\ F.pos + k \in 0..BufSz
  BY <1>1, <1>3, <1>a DEF Least
<1>5. data \in Seq(Bytes)
  <2>1. F.pos + 1 \in 1..(Len(F.buf) + 1) /\ F.pos + k \in (F.pos + 1 - 1)..Len(F.buf)
    <3>1. F.pos + k <= Len(F.buf) /\ k \in Nat /\ F.pos \in Nat
      BY <1>1, <1>3, <1>4
    <3> QED
      BY <1>1, <3>1, Within
  <2>2. PICK old, m, l : old = F.buf /\ m = F.pos + 1 /\ l = F.pos + k
    OBVIOUS
  <2> QED
    BY <1>1, <1>b, <2>1, <2>2, PartFacts
<1>6. g \in FileRec
  <2>1. 0 \in Nat /\ <<>> \in Seq(Bytes)
    OBVIOUS
  <2> QED
    BY <1>1, <1>4, <1>c, <2>1, FileUpdates
<1>7. /\ g.pos = F.pos + k /\ g.buf = F.buf /\ g.len = F.len /\ g.off = F.off /\ g.mode = F.mode
      /\ g.open = F.open
  BY <1>1, <1>c DEF FileRec
<1>8. Shape(g, disk[user])
  BY <1>1, <1>2, <1>3, <1>4, <1>7 DEF Shape
<1>9. /\ f' = [f EXCEPT ![user] = g] /\ disk' = disk
      /\ call' = [call EXCEPT !.want = call.want - k, !.got = call.got \o data]
  BY <1>a, <1>b, <1>c DEF ReadCopy, Becomes
<1>10. Leaves(g)
  BY <1>6, <1>8, <1>9 DEF Leaves
<1>11. /\ F.pos + k <= F.len
       /\ Leaves([F EXCEPT !.pos = F.pos + k])
       /\ SubSeq(F.buf, F.pos + 1, F.pos + k) \in Seq(Bytes)
       /\ call' = [call EXCEPT !.want = call.want - k,
                     !.got = call.got \o SubSeq(F.buf, F.pos + 1, F.pos + k)]
  BY <1>4, <1>5, <1>9, <1>10, <1>b, <1>c
<1> QED
  BY <1>4, <1>11, Zenon

\* A read brings the next part of the file into the buffer.
LEMMA ReadRefillFacts ==
  ASSUME Assumptions, TypeOK, Shapes, CallInv, ReadRefill
  PROVE  \E n \in 1..BufSz :
           /\ n <= Len(disk[user]) - F.off
           /\ SubSeq(disk[user], F.off + 1, F.off + n) \in Seq(Bytes)
           /\ Leaves([F EXCEPT !.pos = 0, !.len = n, !.off = F.off + n,
                        !.buf = SubSeq(disk[user], F.off + 1, F.off + n)])
<1>1. /\ user \in Streams /\ F \in FileRec /\ Shape(F, disk[user])
      /\ F.mode \in {"r", "w", "a", "r+"} /\ F.off \in Nat
      /\ disk[user] \in Seq(Bytes) /\ Len(disk[user]) \in Nat
  BY Current
<1>2. F.mode \in {"r", "r+"} /\ F.open = 1
  BY DEF CallInv, ReadRefill, Reads, F
<1>0. PICK n \in 1..Least(BufSz, Len(disk[user]) - F.off) :
        f' = [f EXCEPT ![user] = [F EXCEPT !.pos = 0, !.len = n, !.off = F.off + n,
                                    !.buf = SubSeq(disk[user], F.off + 1, F.off + n)]]
  BY DEF ReadRefill, Becomes
<1>3. /\ BufSz \in Nat /\ F.off <= Len(disk[user])
      /\ n \in 1..BufSz /\ n <= Len(disk[user]) - F.off
  BY <1>1 DEF Shape, Least, Assumptions
<1>b. PICK data : data = SubSeq(disk[user], F.off + 1, F.off + n)
  OBVIOUS
<1>c. PICK g : g = [F EXCEPT !.pos = 0, !.len = n, !.off = F.off + n, !.buf = data]
  OBVIOUS
<1>4. data \in Seq(Bytes) /\ Len(data) = n
  <2>1. F.off + 1 \in 1..(Len(disk[user]) + 1) /\ F.off + n \in (F.off + 1 - 1)..Len(disk[user])
    BY <1>1, <1>3
  <2>2. PICK old, m, l : old = disk[user] /\ m = F.off + 1 /\ l = F.off + n
    OBVIOUS
  <2>3. old \in Seq(Bytes) /\ m \in 1..(Len(old) + 1) /\ l \in (m - 1)..Len(old)
    BY <1>1, <2>1, <2>2
  <2>4. data = SubSeq(old, m, l)
    BY <1>b, <2>2
  <2>5. data \in Seq(Bytes) /\ Len(data) = l - m + 1
    BY <2>3, <2>4, PartFacts
  <2> QED
    BY <1>1, <1>3, <2>2, <2>5
<1>5. g \in FileRec
  <2>1. 0 \in 0..BufSz /\ n \in 0..BufSz /\ F.off + n \in Nat
    BY <1>1, <1>3
  <2> QED
    BY <1>1, <1>4, <1>c, <2>1, FileUpdates
<1>6. /\ g.pos = 0 /\ g.buf = data /\ g.len = n /\ g.off = F.off + n /\ g.mode = F.mode
      /\ g.open = F.open
  BY <1>1, <1>c DEF FileRec
<1>7. Shape(g, disk[user])
  <2>1. g.off - g.len + 1 = F.off + 1
    BY <1>1, <1>3, <1>6
  <2>2. g.buf = SubSeq(disk[user], g.off - g.len + 1, g.off)
    BY <1>6, <1>b, <2>1
  <2>3. /\ g.pos <= Len(g.buf) /\ g.len <= Len(g.buf) /\ Len(g.buf) <= BufSz /\ g.off <= Len(disk[user])
        /\ g.pos <= g.len /\ g.len <= g.off
    BY <1>1, <1>3, <1>4, <1>6
  <2>4. g.mode \notin {"w", "a"} /\ g.open # 0
    BY <1>2, <1>6
  <2> QED
    BY <2>2, <2>3, <2>4 DEF Shape
<1>8. f' = [f EXCEPT ![user] = g] /\ disk' = disk
  BY <1>0, <1>b, <1>c DEF ReadRefill
<1>9. Leaves(g)
  BY <1>5, <1>7, <1>8 DEF Leaves
<1>10. /\ n <= Len(disk[user]) - F.off
       /\ SubSeq(disk[user], F.off + 1, F.off + n) \in Seq(Bytes)
       /\ Leaves([F EXCEPT !.pos = 0, !.len = n, !.off = F.off + n,
                    !.buf = SubSeq(disk[user], F.off + 1, F.off + n)])
  BY <1>3, <1>4, <1>9, <1>b, <1>c
<1> QED
  BY <1>3, <1>10, Zenon

\* The end of the file and an error are flags.
LEMMA ReadEndsFacts ==
  ASSUME Assumptions, TypeOK, Shapes, CallInv, ReadEnds
  PROVE  Leaves([F EXCEPT !.eof = 1]) \/ Leaves([F EXCEPT !.err = 1])
<1>1. /\ user \in Streams /\ F \in FileRec /\ Shape(F, disk[user])
  BY Current
<1>2. F.open = 1
  BY DEF CallInv, ReadEnds
<1>3. /\ [F EXCEPT !.eof = 1] \in FileRec /\ [F EXCEPT !.err = 1] \in FileRec
  <2>1. 0 \in 0..BufSz /\ 0 \in Nat /\ <<>> \in Seq(Bytes)
    BY DEF Assumptions
  <2> QED
    BY <1>1, <2>1, FileUpdates
<1>4. ASSUME NEW g \in FileRec, g = [F EXCEPT !.eof = 1] \/ g = [F EXCEPT !.err = 1]
      PROVE  Shape(g, disk[user])
  <2>1. /\ g.pos = F.pos /\ g.buf = F.buf /\ g.len = F.len /\ g.off = F.off /\ g.mode = F.mode
        /\ g.open = F.open
    BY <1>1, <1>4 DEF FileRec
  <2> QED
    BY <1>1, <1>2, <2>1 DEF Shape
<1>5. disk' = disk
  BY DEF ReadEnds
<1>6. ASSUME NEW g \in FileRec, g = [F EXCEPT !.eof = 1] \/ g = [F EXCEPT !.err = 1], Becomes(g)
      PROVE  Leaves(g)
  BY <1>4, <1>5, <1>6 DEF Leaves, Becomes
<1>7. Becomes([F EXCEPT !.eof = 1]) \/ Becomes([F EXCEPT !.err = 1])
  BY DEF ReadEnds
<1> QED
  BY <1>3, <1>6, <1>7

\* A seek goes to a place in the file, and what was read ahead is dropped.
LEMMA SeekDoFacts ==
  ASSUME Assumptions, TypeOK, Shapes, CallInv, SeekDo
  PROVE  \E to \in 0..Len(disk[user]) : Leaves(Sought(to))
<1>1. /\ user \in Streams /\ F \in FileRec /\ Shape(F, disk[user])
      /\ F.mode \in {"r", "w", "a", "r+"} /\ F.off \in Nat
      /\ disk[user] \in Seq(Bytes) /\ Len(disk[user]) \in Nat
  BY Current
<1>2. /\ F.open = 1
      /\ call.offset <= 0 \/ (call.whence = "SET" /\ call.offset <= Len(disk[user]))
  BY DEF CallInv, SeekDo
<1>a. PICK to : to = IF SeekTo < 0 THEN F.off ELSE SeekTo
  OBVIOUS
<1>b. PICK g : g = Sought(to)
  OBVIOUS
<1>3. to \in 0..Len(disk[user])
  <2>1. F.off <= Len(disk[user])
    BY <1>1 DEF Shape
  <2>2. call.whence \in {"SET", "CUR", "END"} /\ call.offset \in Int
    BY Locals
  <2>3. CASE call.whence = "SET"
    BY <1>1, <1>2, <1>a, <2>1, <2>2, <2>3 DEF SeekTo
  <2>4. CASE call.whence = "CUR"
    BY <1>1, <1>2, <1>a, <2>1, <2>2, <2>4 DEF SeekTo
  <2>5. CASE call.whence = "END"
    BY <1>1, <1>2, <1>a, <2>1, <2>2, <2>5 DEF SeekTo
  <2> QED
    BY <2>2, <2>3, <2>4, <2>5
<1>4. g = [F EXCEPT !.buf = <<>>, !.pos = 0, !.len = 0, !.eof = 0, !.off = to]
  BY <1>b DEF Sought
<1>5. g \in FileRec
  <2>1. 0 \in 0..BufSz /\ to \in Nat /\ <<>> \in Seq(Bytes)
    BY <1>1, <1>3 DEF Assumptions
  <2> QED
    BY <1>1, <1>4, <2>1, FileUpdates
<1>6. /\ g.pos = 0 /\ g.buf = <<>> /\ g.len = 0 /\ g.off = to /\ g.mode = F.mode
      /\ g.open = F.open
  BY <1>1, <1>4 DEF FileRec
<1>7. Shape(g, disk[user])
  <2>1. SubSeq(disk[user], g.off - g.len + 1, g.off) = <<>>
    BY <1>1, <1>3, <1>6
  <2> QED
    BY <1>1, <1>2, <1>3, <1>6, <2>1 DEF Shape, Assumptions
<1>8. f' = [f EXCEPT ![user] = g] /\ disk' = disk
  BY <1>a, <1>b DEF SeekDo, Becomes
<1>9. Leaves(g)
  BY <1>5, <1>7, <1>8 DEF Leaves
<1> QED
  BY <1>3, <1>9, <1>b

\* fclose leaves a closed stream.
LEMMA CloseDoFacts ==
  ASSUME Assumptions, TypeOK, Shapes, CloseDo
  PROVE  Leaves(Shut)
<1>1. /\ user \in Streams /\ disk[user] \in Seq(Bytes)
  BY Current
<1>2. Shut \in FileRec /\ Shape(Shut, disk[user])
  BY <1>1, Opens
<1> QED
  BY <1>2 DEF Leaves, CloseDo, Becomes

-----------------------------------------------------------------------------
(* Types and shapes *)

\* The streams, their files, their types and shapes.
Sound == f \in [Streams -> FileRec] /\ disk \in [Streams -> Seq(Bytes)] /\ Shapes

\* A step about the current stream, and perhaps its file.
LEMMA LeavesKept ==
  ASSUME TypeOK, Shapes, NEW g, Leaves(g), disk' \in [Streams -> Seq(Bytes)],
         \A t \in Streams : t # user => disk'[t] = disk[t]
  PROVE  /\ Sound' /\ f'[user] = g
         /\ \A t \in Streams : t # user => f'[t] = f[t]
<1>1. user \in Streams
  BY Current
<1>2. g \in FileRec /\ f' = [f EXCEPT ![user] = g] /\ Shape(g, disk'[user])
  BY DEF Leaves
<1>3. /\ f' \in [Streams -> FileRec] /\ f'[user] = g
      /\ \A t \in Streams : t # user => f'[t] = f[t]
  BY <1>1, <1>2, OneStream
<1>4. ASSUME NEW t \in Streams PROVE Shape(f'[t], disk'[t])
  <2>1. CASE t = user
    BY <1>2, <1>3, <2>1
  <2>2. CASE t # user
    <3>1. f'[t] = f[t] /\ disk'[t] = disk[t]
      BY <1>3, <2>2
    <3>2. Shape(f[t], disk[t])
      BY DEF Shapes
    <3> QED
      BY <3>1, <3>2
  <2> QED
    BY <2>1, <2>2
<1> QED
  BY <1>3, <1>4 DEF Sound, Shapes

\* A step about no file.
LEMMA LeavesKeptHere ==
  ASSUME TypeOK, Shapes, NEW g, Leaves(g), disk' = disk
  PROVE  /\ Sound' /\ f'[user] = g
         /\ \A t \in Streams : t # user => f'[t] = f[t]
<1>1. disk' \in [Streams -> Seq(Bytes)] /\ \A t \in Streams : t # user => disk'[t] = disk[t]
  BY DEF TypeOK
<1> QED
  BY <1>1, LeavesKept

\* A step about no stream.
LEMMA Quiet ==
  ASSUME TypeOK, Shapes, UNCHANGED <<f, disk>>
  PROVE  Sound'
BY DEF TypeOK, Shapes, Sound

\* The rest of the types.
Table ==
  /\ tracked \in Seq(Streams) /\ Len(tracked) <= MaxFiles
  /\ fns \in 0..AtExitMax /\ left \in 0..AtExitMax
Place ==
  /\ pc \in {"idle", "write", "flush", "read", "seek", "close", "return",
             "exit", "handler", "flushall", "exited"}
  /\ call \in CallRec

\* TypeOK, part by part.
LEMMA Parts ==
  ASSUME Shapes
  PROVE  TypeOK <=> Sound /\ Table /\ Place
BY DEF TypeOK, Sound, Table, Place

\* What clients begin.
LEMMA BeginTyped ==
  ASSUME TypeOK, Shapes, NEW c \in CallRec, NEW p \in {"write", "read", "flush", "flushall"}, Begin(c, p)
  PROVE  Sound' /\ Table' /\ Place'
<1>1. Sound'
  BY Quiet DEF Begin
<1>2. Table'
  BY DEF TypeOK, Table, Begin
<1>3. Place'
  <2>1. pc \in {"idle", "handler", "exited"}
    BY DEF Begin, ClientRuns
  <2>2. [c EXCEPT !.home = pc] \in CallRec
    BY <2>1 DEF CallRec
  <2> QED
    BY <2>2 DEF Place, Begin
<1> QED
  BY <1>1, <1>2, <1>3

\* Types and shapes outlast what a client begins.
LEMMA ClientTyped ==
  ASSUME Assumptions, TypeOK, Shapes, ClientCall
  PROVE  Sound' /\ Table' /\ Place'
<1>1. NoCall \in CallRec
  BY NoCallTyped
<1>2. ASSUME NEW s \in Streams, NEW m \in Modes, Fopen(s, m)
      PROVE  Sound' /\ Table' /\ Place'
  <2>1. m \in {"r", "w", "a", "r+"}
    BY DEF Assumptions
  <2>2. /\ f' = [f EXCEPT ![s] = Fresh(m)] /\ disk' \in [Streams -> Seq(Bytes)]
        /\ \A t \in Streams : t # s => disk'[t] = disk[t]
    <3>1. disk' = disk \/ disk' = [disk EXCEPT ![s] = <<>>]
      BY <1>2 DEF Fopen
    <3> QED
      BY <1>2, <3>1 DEF Fopen, TypeOK
  <2>3. Fresh(m) \in FileRec /\ Shape(Fresh(m), disk'[s])
    BY <2>1, <2>2, Opens
  <2>4. /\ f' \in [Streams -> FileRec] /\ f'[s] = Fresh(m)
        /\ \A t \in Streams : t # s => f'[t] = f[t]
    BY <2>2, <2>3, OneStream
  <2>5. ASSUME NEW t \in Streams PROVE Shape(f'[t], disk'[t])
    <3>1. CASE t = s
      BY <2>3, <2>4, <3>1
    <3>2. CASE t # s
      <4>1. f'[t] = f[t] /\ disk'[t] = disk[t]
        BY <2>2, <2>4, <3>2
      <4>2. Shape(f[t], disk[t])
        BY DEF Shapes
      <4> QED
        BY <4>1, <4>2
    <3> QED
      BY <3>1, <3>2
  <2>6. Table'
    <3>1. tracked' = tracked \/ (Len(tracked) < MaxFiles /\ tracked' = Append(tracked, s))
      BY <1>2 DEF Fopen, Track
    <3>2. Append(tracked, s) \in Seq(Streams) /\ Len(Append(tracked, s)) = Len(tracked) + 1
      BY DEF TypeOK
    <3>3. tracked' \in Seq(Streams) /\ Len(tracked') <= MaxFiles
      <4>1. MaxFiles \in Nat /\ Len(tracked) \in Nat /\ Len(tracked) <= MaxFiles /\ tracked \in Seq(Streams)
        BY DEF TypeOK, Assumptions
      <4>2. CASE tracked' = tracked
        BY <4>1, <4>2
      <4>3. CASE Len(tracked) < MaxFiles /\ tracked' = Append(tracked, s)
        <5>1. Len(tracked') = Len(tracked) + 1 /\ tracked' \in Seq(Streams)
          BY <3>2, <4>3
        <5> QED
          BY <4>1, <4>3, <5>1
      <4> QED
        BY <3>1, <4>2, <4>3
    <3> QED
      BY <1>2, <3>3 DEF Fopen, TypeOK, Table
  <2>7. Place'
    BY <1>2 DEF Fopen, TypeOK, Place
  <2> QED
    BY <2>2, <2>4, <2>5, <2>6, <2>7 DEF Sound, Shapes
<1>3. ASSUME NEW s \in Streams, NEW data \in Inputs, NEW single \in BOOLEAN, Fwrite(s, data, single)
      PROVE  Sound' /\ Table' /\ Place'
  <2>1. PICK b : b = IF single /\ (s = StdErr \/ data[1] = NL) THEN 1 ELSE 0
    OBVIOUS
  <2>2. data \in Seq(Bytes) /\ b \in {0, 1}
    BY <2>1 DEF Assumptions
  <2>3. [NoCall EXCEPT !.user = s, !.todo = data, !.char = b] \in CallRec
    BY <1>1, <2>2 DEF CallRec
  <2>4. Begin([NoCall EXCEPT !.user = s, !.todo = data, !.char = b], "write")
    BY <1>3, <2>1 DEF Fwrite
  <2> QED
    BY <2>3, <2>4, BeginTyped
<1>4. ASSUME NEW s \in Streams, NEW n \in 1..(BufSz + 1), Fread(s, n)
      PROVE  Sound' /\ Table' /\ Place'
  <2>1. n \in Nat
    BY DEF Assumptions
  <2>2. [NoCall EXCEPT !.user = s, !.want = n] \in CallRec
    BY <1>1, <2>1 DEF CallRec
  <2> QED
    BY <1>4, <2>2, BeginTyped DEF Fread
<1>5. ASSUME NEW s \in Streams, NEW w \in {"SET", "CUR", "END"}, NEW k \in {-1, 0, 1}, Fseek(s, w, k)
      PROVE  Sound' /\ Table' /\ Place'
  <2>1. k \in Int
    OBVIOUS
  <2>2. [NoCall EXCEPT !.user = s, !.after = "seek", !.whence = w, !.offset = k] \in CallRec
    BY <1>1, <2>1 DEF CallRec
  <2> QED
    BY <1>5, <2>2, BeginTyped DEF Fseek
<1>6. ASSUME NEW s \in Streams, Fflush(s) \/ Fclose(s)
      PROVE  Sound' /\ Table' /\ Place'
  <2>1. [NoCall EXCEPT !.user = s] \in CallRec
    BY <1>1 DEF CallRec
  <2>2. [NoCall EXCEPT !.user = s, !.after = "close"] \in CallRec
    BY <1>1 DEF CallRec
  <2> QED
    BY <1>6, <2>1, <2>2, BeginTyped DEF Fflush, Fclose
<1>7. CASE FflushAll
  BY <1>1, <1>7, BeginTyped DEF FflushAll
<1>8. CASE Atexit
  <2>1. Sound'
    BY <1>8, Quiet DEF Atexit
  <2>2. Table' /\ Place'
    BY <1>8 DEF Atexit, HandlerRoom, TypeOK, Table, Place, Assumptions
  <2> QED
    BY <2>1, <2>2
<1>9. CASE Exit
  <2>1. Sound'
    BY <1>9, Quiet DEF Exit
  <2>2. Table' /\ Place'
    BY <1>9 DEF Exit, Goto, TypeOK, Table, Place
  <2> QED
    BY <2>1, <2>2
<1>10. CASE HandlerReturns
  <2>1. Sound'
    BY <1>10, Quiet DEF HandlerReturns
  <2>2. Table' /\ Place'
    BY <1>10 DEF HandlerReturns, Goto, TypeOK, Table, Place
  <2> QED
    BY <2>1, <2>2
<1> QED
  BY <1>2, <1>3, <1>4, <1>5, <1>6, <1>7, <1>8, <1>9, <1>10 DEF ClientCall

\* Types and shapes outlast the steps of the calls.
LEMMA StepTyped ==
  ASSUME Assumptions, TypeOK, Shapes, CallInv, Step
  PROVE  Sound' /\ Table' /\ Place'
<1>0. /\ call \in CallRec /\ pc \in {"idle", "write", "flush", "read", "seek", "close", "return",
                                     "exit", "handler", "flushall", "exited"}
      /\ Table /\ 0 \in 0..BufSz
  BY DEF TypeOK, Table, Assumptions
<1>1. CASE WriteCopy
  <2>1. PICK k \in 1..Len(call.todo), b \in Seq(Bytes) :
           /\ Leaves([F EXCEPT !.buf = b, !.pos = F.pos + k])
           /\ pc' = IF user = StdErr /\ HasNewline(k) THEN "flush" ELSE "write"
           /\ call' = [call EXCEPT !.todo = SubSeq(call.todo, k + 1, Len(call.todo)),
                         !.after = IF user = StdErr /\ HasNewline(k) THEN "write" ELSE call.after]
           /\ SubSeq(call.todo, k + 1, Len(call.todo)) \in Seq(Bytes)
    BY <1>1, WriteCopyFacts
  <2>2. Sound'
    BY <1>1, <2>1, LeavesKeptHere DEF WriteCopy
  <2>3. PICK d, a : /\ d = SubSeq(call.todo, k + 1, Len(call.todo))
                    /\ a = IF user = StdErr /\ HasNewline(k) THEN "write" ELSE call.after
    OBVIOUS
  <2>4. d \in Seq(Bytes) /\ a \in {"return", "write", "full", "seek", "close", "flushall"}
    BY <2>1, <2>3, Locals
  <2>5. [call EXCEPT !.todo = d, !.after = a] \in CallRec
    BY <1>0, <2>4 DEF CallRec
  <2>6. Place'
    BY <2>1, <2>3, <2>5 DEF Place
  <2>7. Table'
    BY <1>0, <1>1 DEF WriteCopy, Table
  <2> QED
    BY <2>2, <2>6, <2>7
<1>2. CASE WriteFull \/ WriteDone \/ ReadDone \/ Return \/ RunHandler \/ LastFlush \/ FlushNext \/ FlushAllDone
  <2>1. Sound'
    BY <1>2, Quiet DEF WriteFull, WriteDone, ReadDone, Return, RunHandler, LastFlush, FlushNext, FlushAllDone
  <2>2. Table'
    <3>1. UNCHANGED <<tracked, fns>> /\ (left' = left \/ (left > 0 /\ left' = left - 1))
      BY <1>2 DEF WriteFull, WriteDone, ReadDone, Return, RunHandler, LastFlush, FlushNext, FlushAllDone
    <3> QED
      BY <1>0, <3>1 DEF Table, Assumptions
  <2>3. CASE WriteFull \/ WriteDone
    <3>1. PICK a \in {"full", "return"} : call' = [call EXCEPT !.after = a]
      BY <2>3 DEF WriteFull, WriteDone
    <3>2. call' \in CallRec
      BY <1>0, <3>1 DEF CallRec
    <3> QED
      BY <2>1, <2>2, <2>3, <3>2 DEF WriteFull, WriteDone, Place
  <2>4. CASE ReadDone \/ RunHandler \/ FlushAllDone
    BY <1>0, <2>1, <2>2, <2>4 DEF ReadDone, RunHandler, FlushAllDone, Goto, Place
  <2>5. CASE Return
    <3>1. call.home \in {"idle", "handler", "exited"}
      BY Locals
    <3> QED
      BY <2>1, <2>2, <2>5, <3>1, NoCallTyped DEF Return, Place
  <2>6. CASE LastFlush
    <3>1. [NoCall EXCEPT !.home = "exited"] \in CallRec
      BY NoCallTyped DEF CallRec
    <3> QED
      BY <2>1, <2>2, <2>6, <3>1 DEF LastFlush, FlushThenExit, Place
  <2>7. CASE FlushNext
    <3>1. PICK s, n : s = tracked[call.walk] /\ n = call.walk + 1
      OBVIOUS
    <3>2. s \in Streams /\ n \in Nat
      BY <1>0, <2>7, <3>1, Locals DEF FlushNext, Table, CallInv
    <3>3. [call EXCEPT !.user = s, !.walk = n, !.after = "flushall"] \in CallRec
      BY <1>0, <3>2 DEF CallRec
    <3> QED
      BY <2>1, <2>2, <2>7, <3>1, <3>3 DEF FlushNext, Place
  <2> QED
    BY <1>2, <2>1, <2>2, <2>3, <2>4, <2>5, <2>6, <2>7
<1>3. CASE FlushWrite
  <2>1. PICK n \in Nat \ {0}, d \in Seq(Bytes) :
           /\ call.done + n <= F.pos
           /\ disk' = [disk EXCEPT ![user] = d] /\ disk' \in [Streams -> Seq(Bytes)]
           /\ Leaves([F EXCEPT !.off = OffsetAfter(n)])
           /\ call' = [call EXCEPT !.done = call.done + n] /\ pc' = pc
    BY <1>3, FlushWriteFacts
  <2>2. Sound'
    <3>1. \A t \in Streams : t # user => disk'[t] = disk[t]
      BY <2>1 DEF TypeOK
    <3> QED
      BY <2>1, <3>1, LeavesKept
  <2>3. PICK p : p = call.done + n
    OBVIOUS
  <2>4. p \in 0..BufSz
    <3>1. call.done \in 0..BufSz /\ F.pos \in 0..BufSz /\ BufSz \in Nat
      BY Locals, Current DEF Assumptions
    <3> QED
      BY <2>1, <2>3, <3>1
  <2>5. [call EXCEPT !.done = p] \in CallRec
    BY <1>0, <2>4 DEF CallRec
  <2>6. Place' /\ Table'
    BY <1>0, <1>3, <2>1, <2>3, <2>5 DEF Place, Table, FlushWrite
  <2> QED
    BY <2>2, <2>6
<1>4. CASE FlushFails \/ FlushDone
  <2>1. Sound'
    <3>1. CASE FlushFails
      BY <3>1, FlushFailsFacts, LeavesKeptHere DEF FlushFails
    <3>2. CASE FlushDone /\ Dirty(user)
      BY <3>2, FlushDoneFacts, LeavesKeptHere DEF FlushDone
    <3>3. CASE FlushDone /\ ~Dirty(user)
      BY <3>3, Quiet DEF FlushDone
    <3> QED
      BY <1>4, <3>1, <3>2, <3>3
  <2>2. [call EXCEPT !.done = 0] \in CallRec
    BY <1>0 DEF CallRec
  <2>3. call.after \in {"return", "write", "full", "seek", "close", "flushall"}
    BY Locals
  <2>4. Place' /\ Table'
    BY <1>0, <1>4, <2>2, <2>3 DEF Place, Table, FlushFails, FlushDone, AfterFailure
  <2> QED
    BY <2>1, <2>4
<1>5. CASE ReadCopy
  <2>1. PICK k \in 1..call.want :
           /\ Leaves([F EXCEPT !.pos = F.pos + k])
           /\ SubSeq(F.buf, F.pos + 1, F.pos + k) \in Seq(Bytes)
           /\ call' = [call EXCEPT !.want = call.want - k,
                         !.got = call.got \o SubSeq(F.buf, F.pos + 1, F.pos + k)]
    BY <1>5, ReadCopyFacts
  <2>2. Sound'
    BY <1>5, <2>1, LeavesKeptHere DEF ReadCopy
  <2>3. PICK n, d : n = call.want - k /\ d = call.got \o SubSeq(F.buf, F.pos + 1, F.pos + k)
    OBVIOUS
  <2>4. n \in Nat /\ d \in Seq(Bytes)
    BY <2>1, <2>3, Locals, ConcatProperties
  <2>5. [call EXCEPT !.want = n, !.got = d] \in CallRec
    BY <1>0, <2>4 DEF CallRec
  <2>6. Place' /\ Table'
    BY <1>0, <1>5, <2>1, <2>3, <2>5 DEF Place, Table, ReadCopy
  <2> QED
    BY <2>2, <2>6
<1>6. CASE ReadRefill
  <2>1. Sound'
    BY <1>6, ReadRefillFacts, LeavesKeptHere DEF ReadRefill
  <2>2. Place' /\ Table'
    BY <1>0, <1>6 DEF Place, Table, ReadRefill
  <2> QED
    BY <2>1, <2>2
<1>7. CASE ReadEnds
  <2>1. Sound'
    BY <1>7, ReadEndsFacts, LeavesKeptHere DEF ReadEnds
  <2>2. Place' /\ Table'
    BY <1>0, <1>7 DEF Place, Table, ReadEnds, Goto
  <2> QED
    BY <2>1, <2>2
<1>8. CASE SeekDo
  <2>1. Sound'
    BY <1>8, SeekDoFacts, LeavesKeptHere DEF SeekDo
  <2>2. Place' /\ Table'
    BY <1>0, <1>8 DEF Place, Table, SeekDo, Goto
  <2> QED
    BY <2>1, <2>2
<1>9. CASE CloseDo
  <2>1. Sound'
    BY <1>9, CloseDoFacts, LeavesKeptHere DEF CloseDo
  <2>2. Place'
    BY <1>0, <1>9 DEF Place, CloseDo, Goto
  <2>3. Table'
    <3>1. CASE tracked' = tracked
      BY <1>0, <1>9, <3>1 DEF Table, CloseDo
    <3>2. ASSUME NEW i \in 1..Len(tracked), Untrack(i)
          PROVE  tracked' \in Seq(Streams) /\ Len(tracked') <= MaxFiles
      <4>1. tracked \in Seq(Streams) /\ Len(tracked) \in Nat /\ Len(tracked) <= MaxFiles /\ MaxFiles \in Nat
        BY <1>0 DEF Table, Assumptions
      <4>2. PICK n, w : n = Len(tracked) - 1 /\ w = tracked'
        OBVIOUS
      <4>3. n \in Nat /\ n <= MaxFiles
        BY <4>1, <4>2
      <4>4. w = [j \in 1..n |-> IF j = i THEN tracked[Len(tracked)] ELSE tracked[j]]
        BY <3>2, <4>2 DEF Untrack
      <4>5. \A j \in 1..n : w[j] \in Streams
        BY <4>1, <4>2, <4>3, <4>4, ElementOfSeq
      <4>6. w = [j \in 1..n |-> w[j]]
        BY <4>4
      <4>7. w \in Seq(Streams) /\ Len(w) = n
        BY <4>3, <4>5, <4>6, FunctionIsSeq
      <4> QED
        BY <4>2, <4>3, <4>7
    <3> QED
      BY <1>0, <1>9, <3>1, <3>2 DEF Table, CloseDo
  <2> QED
    BY <2>1, <2>2, <2>3
<1> QED
  BY <1>1, <1>2, <1>3, <1>4, <1>5, <1>6, <1>7, <1>8, <1>9 DEF Step

-----------------------------------------------------------------------------
(* The current call *)

\* The variables of no call.
LEMMA NoCallFields ==
  /\ NoCall.home = "idle" /\ NoCall.todo = <<>> /\ NoCall.char = 0 /\ NoCall.want = 0 /\ NoCall.got = <<>>
  /\ NoCall.whence = "SET" /\ NoCall.offset = 0 /\ NoCall.done = 0 /\ NoCall.after = "return" /\ NoCall.walk = 1
BY DEF NoCall

\* Between calls nothing is under way.
LEMMA IdleInv ==
  ASSUME call' = NoCall, pc' \in {"idle", "handler", "exit", "exited"}
  PROVE  CallInv'
BY NoCallFields DEF CallInv

\* Where the current call is outlasts what a client begins.
LEMMA ClientCallInv ==
  ASSUME Assumptions, TypeOK, Shapes, CallInv, ClientCall
  PROVE  CallInv'
<1>1. NoCall \in CallRec
  BY NoCallTyped
<1>2. \A s \in Streams : f[s].pos >= 0
  BY DEF TypeOK, FileRec, Assumptions
<1>3. ASSUME NEW s \in Streams, NEW m \in Modes, Fopen(s, m)
      PROVE  CallInv'
  BY <1>3, IdleInv DEF Fopen, ClientRuns, CallInv
<1>4. ASSUME NEW s \in Streams, NEW data \in Inputs, NEW single \in BOOLEAN, Fwrite(s, data, single)
      PROVE  CallInv'
  <2>1. /\ call'.user = s /\ call'.got = <<>> /\ call'.done = 0 /\ call'.after = "return" /\ call'.walk = 1
        /\ pc' = "write" /\ f' = f /\ Writes(s) /\ f[s].open = 1
    BY <1>4 DEF Fwrite, Begin, NoCall
  <2> QED
    BY <2>1 DEF CallInv, Writes, user, F
<1>5. ASSUME NEW s \in Streams, NEW n \in 1..(BufSz + 1), Fread(s, n)
      PROVE  CallInv'
  <2>1. /\ call'.user = s /\ call'.done = 0 /\ call'.after = "return" /\ call'.walk = 1
        /\ pc' = "read" /\ f' = f /\ Reads(s) /\ f[s].open = 1
    BY <1>5 DEF Fread, Begin, NoCall
  <2> QED
    BY <2>1 DEF CallInv, Reads, user, F
<1>6. ASSUME NEW s \in Streams, NEW w \in {"SET", "CUR", "END"}, NEW k \in {-1, 0, 1}, Fseek(s, w, k)
      PROVE  CallInv'
  <2>1. /\ call'.user = s /\ call'.done = 0 /\ call'.after = "seek" /\ call'.walk = 1
        /\ call'.whence = w /\ call'.offset = k
        /\ pc' = "flush" /\ f' = f /\ disk' = disk /\ f[s].open = 1
        /\ k > 0 => w = "SET" /\ k <= Len(disk[s])
    BY <1>6 DEF Fseek, Begin, NoCall
  <2> QED
    BY <1>2, <2>1 DEF CallInv, user, F
<1>7. ASSUME NEW s \in Streams, Fflush(s) \/ Fclose(s)
      PROVE  CallInv'
  <2>1. /\ call'.user = s /\ call'.done = 0 /\ call'.after \in {"return", "close"} /\ call'.walk = 1
        /\ pc' = "flush" /\ f' = f
    BY <1>7 DEF Fflush, Fclose, Begin, NoCall
  <2> QED
    BY <1>2, <2>1 DEF CallInv, user, F
<1>8. CASE FflushAll
  <2>1. /\ call'.done = 0 /\ call'.after = "return" /\ call'.walk = 1 /\ call'.todo = <<>> /\ call'.got = <<>>
        /\ pc' = "flushall"
    BY <1>8 DEF FflushAll, Begin, NoCall
  <2> QED
    BY <2>1 DEF CallInv
<1>9. CASE Atexit \/ Exit \/ HandlerReturns
  BY <1>9, IdleInv DEF Atexit, Exit, HandlerReturns, Goto, ClientRuns, CallInv
<1> QED
  BY <1>3, <1>4, <1>5, <1>6, <1>7, <1>8, <1>9 DEF ClientCall

\* Where the current call is outlasts its steps.
LEMMA StepCallInv ==
  ASSUME Assumptions, TypeOK, Shapes, CallInv, Step
  PROVE  CallInv'
<1>0. /\ call \in CallRec /\ user \in Streams /\ user = call.user /\ F = f[user] /\ F \in FileRec
      /\ F.pos \in Nat /\ call.done \in Nat /\ call.walk \in Nat /\ call.offset \in Int
      /\ Len(call.todo) \in Nat /\ call.todo \in Seq(Bytes)
      /\ \A s \in Streams : f[s].pos >= 0
  <2>1. /\ call \in CallRec /\ \A s \in Streams : f[s].pos >= 0
    BY DEF TypeOK, FileRec, Assumptions
  <2>2. /\ user \in Streams /\ F = f[user] /\ F \in FileRec /\ F.pos \in Nat
    BY Current DEF Assumptions
  <2>3. /\ call.done \in Nat /\ call.walk \in Nat /\ call.offset \in Int
        /\ Len(call.todo) \in Nat /\ call.todo \in Seq(Bytes)
    BY Locals DEF Assumptions
  <2> QED
    BY <2>1, <2>2, <2>3 DEF user
<1>1. CASE WriteCopy
  <2>1. PICK k \in 1..Len(call.todo), b \in Seq(Bytes) :
           /\ F.pos + k \in 0..BufSz
           /\ Leaves([F EXCEPT !.buf = b, !.pos = F.pos + k])
           /\ pc' = IF user = StdErr /\ HasNewline(k) THEN "flush" ELSE "write"
           /\ call' = [call EXCEPT !.todo = SubSeq(call.todo, k + 1, Len(call.todo)),
                         !.after = IF user = StdErr /\ HasNewline(k) THEN "write" ELSE call.after]
    BY <1>1, WriteCopyFacts
  <2>2. f'[user] = [F EXCEPT !.buf = b, !.pos = F.pos + k]
    BY <1>1, <2>1, LeavesKeptHere DEF WriteCopy
  <2>3. f'[user].mode = F.mode /\ f'[user].open = F.open /\ f'[user].pos >= 0
    BY <1>0, <2>1, <2>2 DEF FileRec, Assumptions
  <2>4. /\ call'.user = user /\ call'.got = call.got /\ call'.done = call.done /\ call'.walk = call.walk
        /\ call'.offset = call.offset /\ call'.whence = call.whence
        /\ call'.after \in {"write", call.after}
    BY <1>0, <2>1 DEF CallRec
  <2>5. /\ pc = "write" /\ Len(call.todo) > 0 /\ disk' = disk
    BY <1>1 DEF WriteCopy
  <2>6. call.after # "flushall" /\ call.done = 0 /\ Writes(user) /\ F.open = 1
    BY <1>0, <2>5 DEF CallInv
  <2> QED
    BY <1>0, <2>1, <2>3, <2>4, <2>5, <2>6 DEF CallInv, Writes, user, F
<1>2. CASE WriteFull \/ WriteDone
  <2>1. PICK a \in {"full", "return"} : call' = [call EXCEPT !.after = a]
    BY <1>2 DEF WriteFull, WriteDone
  <2>2. /\ call'.user = user /\ call'.done = call.done /\ call'.walk = call.walk /\ call'.after = a
    BY <1>0, <2>1 DEF CallRec
  <2>3. pc = "write" /\ f' = f /\ pc' \in {"flush", "return"}
    BY <1>2 DEF WriteFull, WriteDone
  <2> QED
    BY <1>0, <2>2, <2>3 DEF CallInv, Writes, user, F
<1>3. CASE FlushWrite
  <2>1. PICK n \in Nat \ {0}, d \in Seq(Bytes) :
           /\ call.done + n <= F.pos
           /\ disk' = [disk EXCEPT ![user] = d] /\ disk'[user] = d /\ disk' \in [Streams -> Seq(Bytes)]
           /\ Len(disk[user]) <= Len(d) /\ OffsetAfter(n) \in Nat
           /\ Leaves([F EXCEPT !.off = OffsetAfter(n)])
           /\ call' = [call EXCEPT !.done = call.done + n] /\ pc' = pc
    BY <1>3, FlushWriteFacts
  <2>2. f'[user] = [F EXCEPT !.off = OffsetAfter(n)]
    <3>1. \A t \in Streams : t # user => disk'[t] = disk[t]
      BY <2>1 DEF TypeOK
    <3> QED
      BY <2>1, <3>1, LeavesKept
  <2>3. f'[user].mode = F.mode /\ f'[user].open = F.open /\ f'[user].pos = F.pos
    BY <1>0, <2>2 DEF FileRec
  <2>4. /\ call'.user = user /\ call'.got = call.got /\ call'.done = call.done + n /\ call'.walk = call.walk
        /\ call'.offset = call.offset /\ call'.whence = call.whence /\ call'.after = call.after
        /\ call'.todo = call.todo
    BY <1>0, <2>1 DEF CallRec
  <2>5. pc = "flush" /\ Writes(user)
    BY <1>3 DEF FlushWrite, Dirty
  <2>6. Len(disk[user]) \in Nat /\ Len(d) \in Nat
    BY Current
  <2> QED
    BY <1>0, <2>1, <2>3, <2>4, <2>5, <2>6 DEF CallInv, Writes, user, F
<1>4. CASE FlushFails \/ FlushDone
  <2>1. /\ f'[user].mode = F.mode /\ f'[user].open = F.open /\ f'[user].pos >= 0
        /\ Writes(user) => f'[user].pos = 0 \/ f'[user].err = 1
    <3>1. CASE FlushFails
      <4>1. f'[user] = [F EXCEPT !.err = 1]
        BY <3>1, FlushFailsFacts, LeavesKeptHere DEF FlushFails
      <4> QED
        BY <1>0, <4>1 DEF FileRec
    <3>2. CASE FlushDone /\ Dirty(user)
      <4>1. f'[user] = [F EXCEPT !.pos = 0, !.buf = SubSeq(F.buf, 1, F.len)]
        BY <3>2, FlushDoneFacts, LeavesKeptHere DEF FlushDone
      <4> QED
        BY <1>0, <4>1 DEF FileRec
    <3>3. CASE FlushDone /\ ~Dirty(user)
      BY <1>0, <3>3 DEF FlushDone, Dirty
    <3> QED
      BY <1>4, <3>1, <3>2, <3>3
  <2>2. /\ call'.user = user /\ call'.got = call.got /\ call'.done = 0 /\ call'.walk = call.walk
        /\ call'.offset = call.offset /\ call'.whence = call.whence /\ call'.after = call.after
        /\ call'.todo = call.todo
    BY <1>0, <1>4 DEF CallRec, FlushFails, FlushDone
  <2>3. /\ pc = "flush" /\ disk' = disk
        /\ pc' \in {"return", "write", call.after}
        /\ pc' = "write" => call.after \in {"write", "full"}
        /\ pc' # "full"
    BY <1>4 DEF FlushFails, FlushDone, AfterFailure
  <2>4. call.after \in {"return", "write", "full", "seek", "close", "flushall"}
    BY Locals
  <2> QED
    BY <1>0, <2>1, <2>2, <2>3, <2>4 DEF CallInv, Writes, user, F
<1>5. CASE ReadCopy
  <2>1. PICK k \in 1..call.want :
           /\ F.pos + k <= F.len
           /\ Leaves([F EXCEPT !.pos = F.pos + k])
           /\ call' = [call EXCEPT !.want = call.want - k,
                         !.got = call.got \o SubSeq(F.buf, F.pos + 1, F.pos + k)]
    BY <1>5, ReadCopyFacts
  <2>2. f'[user] = [F EXCEPT !.pos = F.pos + k]
    BY <1>5, <2>1, LeavesKeptHere DEF ReadCopy
  <2>3. f'[user].mode = F.mode /\ f'[user].open = F.open
    BY <1>0, <2>2 DEF FileRec
  <2>4. call'.user = user /\ call'.done = call.done /\ call'.walk = call.walk /\ call'.after = call.after
    BY <1>0, <2>1 DEF CallRec
  <2>5. pc = "read" /\ pc' = "read"
    BY <1>5 DEF ReadCopy
  <2> QED
    BY <1>0, <2>3, <2>4, <2>5 DEF CallInv, Reads, user, F
<1>6. CASE ReadRefill \/ ReadEnds \/ SeekDo
  <2>1. f'[user].mode = F.mode /\ f'[user].open = F.open
    <3>1. CASE ReadRefill
      <4>1. PICK n, d : f'[user] = [F EXCEPT !.pos = 0, !.len = n, !.off = F.off + n, !.buf = d]
        BY <3>1, ReadRefillFacts, LeavesKeptHere DEF ReadRefill
      <4> QED
        BY <1>0, <4>1 DEF FileRec
    <3>2. CASE ReadEnds
      <4>1. f'[user] = [F EXCEPT !.eof = 1] \/ f'[user] = [F EXCEPT !.err = 1]
        BY <3>2, ReadEndsFacts, LeavesKeptHere DEF ReadEnds
      <4> QED
        BY <1>0, <4>1 DEF FileRec
    <3>3. CASE SeekDo
      <4>1. PICK to : f'[user] = [F EXCEPT !.buf = <<>>, !.pos = 0, !.len = 0, !.eof = 0, !.off = to]
        BY <3>3, SeekDoFacts, LeavesKeptHere DEF SeekDo, Sought
      <4> QED
        BY <1>0, <4>1 DEF FileRec
    <3> QED
      BY <1>6, <3>1, <3>2, <3>3
  <2>2. /\ call' = call /\ disk' = disk
        /\ pc = "read" \/ (pc = "seek" /\ pc' = "return")
        /\ pc = "read" => pc' \in {"read", "return"}
    BY <1>6 DEF ReadRefill, ReadEnds, SeekDo, Goto
  <2> QED
    BY <1>0, <2>1, <2>2 DEF CallInv, Reads, Writes, user, F
<1>7. CASE ReadDone \/ FlushAllDone
  <2>1. f' = f /\ call' = call /\ disk' = disk /\ pc' = "return" /\ pc # "flush"
    BY <1>7 DEF ReadDone, FlushAllDone, Goto
  <2> QED
    BY <1>0, <2>1 DEF CallInv, Writes, user, F
<1>8. CASE CloseDo
  <2>1. call' = call /\ pc' = "return" /\ pc = "close"
    BY <1>8 DEF CloseDo, Goto
  <2> QED
    BY <1>0, <2>1 DEF CallInv
<1>9. CASE Return
  <2>1. call' = NoCall /\ pc' \in {"idle", "handler", "exited"}
    BY <1>9, Locals DEF Return
  <2> QED
    BY <2>1, IdleInv
<1>10. CASE RunHandler
  BY <1>10, IdleInv DEF RunHandler, Goto, CallInv
<1>11. CASE LastFlush
  <2>1. /\ call'.done = 0 /\ call'.after = "return" /\ call'.walk = 1 /\ call'.todo = <<>> /\ call'.got = <<>>
        /\ pc' = "flushall"
    BY <1>11 DEF LastFlush, FlushThenExit, NoCall
  <2> QED
    BY <2>1 DEF CallInv
<1>12. CASE FlushNext
  <2>1. pc = "flushall" /\ pc' = "flush" /\ f' = f
    BY <1>12 DEF FlushNext
  <2>2. PICK s, n : s = tracked[call.walk] /\ n = call.walk + 1
    OBVIOUS
  <2>3. s \in Streams /\ n \in Nat /\ n >= 1
    BY <1>0, <1>12, <2>2 DEF FlushNext, TypeOK, CallInv
  <2>4. call' = [call EXCEPT !.user = s, !.walk = n, !.after = "flushall"]
    BY <1>12, <2>2 DEF FlushNext
  <2>5. /\ call'.user = s /\ call'.walk = n /\ call'.after = "flushall" /\ call'.done = call.done
        /\ call'.todo = call.todo /\ call'.got = call.got
    BY <1>0, <2>4 DEF CallRec
  <2> QED
    BY <1>0, <2>1, <2>3, <2>5 DEF CallInv, user, F
<1> QED
  BY <1>1, <1>2, <1>3, <1>4, <1>5, <1>6, <1>7, <1>8, <1>9, <1>10, <1>11, <1>12 DEF Step

-----------------------------------------------------------------------------
(* The exit sequence, and stderr *)

\* A write leaves the buffer as it is.
LEMMA FlushWriteStep ==
  ASSUME Assumptions, TypeOK, Shapes, FlushWrite
  PROVE  /\ pc = "flush" /\ pc' = "flush" /\ user' = user /\ tracked' = tracked
         /\ call'.home = call.home /\ call'.after = call.after /\ call'.walk = call.walk
         /\ \A t \in Streams : f'[t].mode = f[t].mode /\ f'[t].err = f[t].err
                               /\ f'[t].pos = f[t].pos /\ f'[t].buf = f[t].buf
<1>0. /\ call \in CallRec /\ user \in Streams /\ user = call.user /\ F = f[user] /\ F \in FileRec
  BY Current DEF user, TypeOK
<1>1. PICK n \in Nat \ {0}, d \in Seq(Bytes) :
         /\ disk' = [disk EXCEPT ![user] = d] /\ disk' \in [Streams -> Seq(Bytes)]
         /\ Leaves([F EXCEPT !.off = OffsetAfter(n)])
         /\ call' = [call EXCEPT !.done = call.done + n] /\ pc' = pc
  BY FlushWriteFacts
<1>2. /\ f'[user] = [F EXCEPT !.off = OffsetAfter(n)]
      /\ \A t \in Streams : t # user => f'[t] = f[t]
  <2>1. \A t \in Streams : t # user => disk'[t] = disk[t]
    BY <1>1 DEF TypeOK
  <2> QED
    BY <1>1, <2>1, LeavesKept
<1>3. f'[user].mode = F.mode /\ f'[user].err = F.err /\ f'[user].pos = F.pos /\ f'[user].buf = F.buf
  BY <1>0, <1>2 DEF FileRec
<1>4. /\ call'.user = user /\ call'.walk = call.walk /\ call'.home = call.home /\ call'.after = call.after
  BY <1>0, <1>1 DEF CallRec
<1>5. pc = "flush" /\ tracked' = tracked
  BY DEF FlushWrite
<1> QED
  BY <1>0, <1>1, <1>2, <1>3, <1>4, <1>5 DEF user

\* A write that fails marks the stream.
LEMMA FlushFailsStep ==
  ASSUME Assumptions, TypeOK, Shapes, FlushFails
  PROVE  /\ pc = "flush" /\ pc' = AfterFailure /\ user' = user /\ tracked' = tracked
         /\ call'.home = call.home /\ call'.after = call.after /\ call'.walk = call.walk
         /\ f'[user].err = 1 /\ f'[user].mode = F.mode
         /\ \A t \in Streams : t # user => f'[t] = f[t]
<1>0. /\ call \in CallRec /\ user \in Streams /\ user = call.user /\ F = f[user] /\ F \in FileRec
  BY Current DEF user, TypeOK
<1>1. /\ f'[user] = [F EXCEPT !.err = 1]
      /\ \A t \in Streams : t # user => f'[t] = f[t]
  BY FlushFailsFacts, LeavesKeptHere DEF FlushFails
<1>2. f'[user].mode = F.mode /\ f'[user].err = 1
  BY <1>0, <1>1 DEF FileRec
<1>3. /\ call'.user = user /\ call'.walk = call.walk /\ call'.home = call.home /\ call'.after = call.after
  BY <1>0 DEF CallRec, FlushFails
<1> QED
  BY <1>1, <1>2, <1>3 DEF user, FlushFails

\* A flush that is through leaves nothing to flush.
LEMMA FlushDoneStep ==
  ASSUME Assumptions, TypeOK, Shapes, FlushDone
  PROVE  /\ pc = "flush" /\ user' = user /\ tracked' = tracked
         /\ pc' = IF call.after = "full" THEN "write" ELSE call.after
         /\ call'.home = call.home /\ call'.after = call.after /\ call'.walk = call.walk
         /\ Writes(user) => f'[user].pos = 0
         /\ f'[user].mode = F.mode
         /\ \A t \in Streams : t # user => f'[t] = f[t]
<1>0. /\ call \in CallRec /\ user \in Streams /\ user = call.user /\ F = f[user] /\ F \in FileRec /\ F.pos \in 0..BufSz
  BY Current DEF user, TypeOK
<1>1. /\ Writes(user) => f'[user].pos = 0
      /\ f'[user].mode = F.mode
      /\ \A t \in Streams : t # user => f'[t] = f[t]
  <2>1. CASE Dirty(user)
    <3>1. /\ f'[user] = [F EXCEPT !.pos = 0, !.buf = SubSeq(F.buf, 1, F.len)]
          /\ \A t \in Streams : t # user => f'[t] = f[t]
      BY <2>1, FlushDoneFacts, LeavesKeptHere DEF FlushDone
    <3> QED
      BY <1>0, <3>1 DEF FileRec
  <2>2. CASE ~Dirty(user)
    <3>1. f' = f
      BY <2>2 DEF FlushDone
    <3>2. Writes(user) => F.pos = 0
      BY <1>0, <2>2 DEF Dirty, Assumptions
    <3> QED
      BY <1>0, <3>1, <3>2
  <2> QED
    BY <2>1, <2>2
<1>2. /\ call'.user = user /\ call'.walk = call.walk /\ call'.home = call.home /\ call'.after = call.after
  BY <1>0 DEF CallRec, FlushDone
<1> QED
  BY <1>1, <1>2 DEF user, FlushDone

\* What exit has flushed outlasts what clients begin, and there is no client then.
LEMMA ClientExitInv ==
  ASSUME CallInv, ExitInv, ClientCall
  PROVE  ExitInv'
<1>1. pc \in {"idle", "handler"} /\ call = NoCall /\ call.home = "idle"
  BY NoCallFields DEF ClientCall, Fopen, Fwrite, Fread, Fseek, Fflush, Fclose, FflushAll, Atexit, Exit,
     HandlerReturns, Begin, ClientRuns, CallInv
<1>2. pc' # "exited" /\ call'.home \in {"idle", "handler"}
  <2>1. ASSUME NEW s \in Streams, NEW m \in Modes, Fopen(s, m)
        PROVE  pc' # "exited" /\ call'.home \in {"idle", "handler"}
    BY <1>1, <2>1 DEF Fopen
  <2>2. ASSUME NEW s \in Streams, NEW data \in Inputs, NEW single \in BOOLEAN, Fwrite(s, data, single)
        PROVE  pc' # "exited" /\ call'.home \in {"idle", "handler"}
    BY <1>1, <2>2 DEF Fwrite, Begin, NoCall
  <2>3. ASSUME NEW s \in Streams, NEW n \in 1..(BufSz + 1), Fread(s, n)
        PROVE  pc' # "exited" /\ call'.home \in {"idle", "handler"}
    BY <1>1, <2>3 DEF Fread, Begin, NoCall
  <2>4. ASSUME NEW s \in Streams, NEW w \in {"SET", "CUR", "END"}, NEW k \in {-1, 0, 1}, Fseek(s, w, k)
        PROVE  pc' # "exited" /\ call'.home \in {"idle", "handler"}
    BY <1>1, <2>4 DEF Fseek, Begin, NoCall
  <2>5. ASSUME NEW s \in Streams, Fflush(s) \/ Fclose(s)
        PROVE  pc' # "exited" /\ call'.home \in {"idle", "handler"}
    BY <1>1, <2>5 DEF Fflush, Fclose, Begin, NoCall
  <2>6. CASE FflushAll
    BY <1>1, <2>6 DEF FflushAll, Begin, NoCall
  <2>7. CASE Atexit \/ Exit \/ HandlerReturns
    BY <1>1, <2>7 DEF Atexit, Exit, HandlerReturns, Goto
  <2> QED
    BY <2>1, <2>2, <2>3, <2>4, <2>5, <2>6, <2>7 DEF ClientCall
<1> QED
  BY <1>2 DEF ExitInv, ExitFlushes

\* What exit has flushed outlasts its steps.
LEMMA StepExitInv ==
  ASSUME Assumptions, TypeOK, Shapes, CallInv, ExitInv, Step
  PROVE  ExitInv'
<1>0. /\ call \in CallRec /\ user \in Streams /\ user = call.user /\ F = f[user] /\ F \in FileRec
      /\ Len(tracked) \in Nat /\ call.walk \in Nat /\ call.home \in {"idle", "handler", "exited"}
      /\ \A i \in 1..Len(tracked) : tracked[i] \in Streams
  <2>1. tracked \in Seq(Streams)
    BY DEF TypeOK
  <2> QED
    BY <2>1, Current, Locals, ElementOfSeq DEF user, TypeOK
<1>1. CASE WriteCopy \/ WriteFull \/ WriteDone \/ ReadCopy \/ ReadRefill \/ ReadEnds \/ ReadDone \/ SeekDo \/ CloseDo
  <2>1. pc \in {"write", "read", "seek", "close"}
    BY <1>1 DEF WriteCopy, WriteFull, WriteDone, ReadCopy, ReadRefill, ReadEnds, ReadDone, SeekDo, CloseDo
  <2>2. pc' # "exited"
    BY <1>1 DEF WriteCopy, WriteFull, WriteDone, ReadCopy, ReadRefill, ReadEnds, ReadDone, SeekDo, CloseDo, Goto
  <2>3. call'.home = call.home
    BY <1>0, <1>1 DEF WriteCopy, WriteFull, WriteDone, ReadCopy, ReadRefill, ReadEnds, ReadDone, SeekDo, CloseDo,
       Goto, CallRec
  <2>4. call.home # "exited"
    BY <2>1 DEF ExitInv
  <2> QED
    BY <2>2, <2>3, <2>4 DEF ExitInv, ExitFlushes
<1>2. CASE RunHandler
  <2>1. pc' = "handler" /\ call' = call /\ call = NoCall
    BY <1>2 DEF RunHandler, Goto, CallInv
  <2> QED
    BY <2>1, NoCallFields DEF ExitInv, ExitFlushes
<1>3. CASE LastFlush
  <2>1. pc' = "flushall" /\ call'.walk = 1
    BY <1>3 DEF LastFlush, FlushThenExit, NoCall
  <2> QED
    BY <2>1 DEF ExitInv, ExitFlushes, FlushedTo
<1>4. CASE FlushWrite
  <2>1. /\ pc = "flush" /\ pc' = "flush" /\ user' = user /\ tracked' = tracked
        /\ call'.home = call.home /\ call'.after = call.after /\ call'.walk = call.walk
        /\ \A t \in Streams : f'[t].mode = f[t].mode /\ f'[t].err = f[t].err
                              /\ f'[t].pos = f[t].pos
    BY <1>4, FlushWriteStep
  <2> QED
    BY <1>0, <2>1 DEF ExitInv, ExitFlushes, FlushedTo, Dirty, Writes
<1>5. CASE FlushFails \/ FlushDone
  <2>1. /\ pc = "flush" /\ pc' \in {"return", "write", call.after} /\ user' = user /\ tracked' = tracked
        /\ call.after = "flushall" => pc' = "flushall"
        /\ call'.home = call.home /\ call'.after = call.after /\ call'.walk = call.walk
        /\ f'[user].err = 1 \/ (Writes(user) => f'[user].pos = 0)
        /\ f'[user].mode = F.mode
        /\ \A t \in Streams : t # user => f'[t] = f[t]
    BY <1>5, FlushFailsStep, FlushDoneStep DEF AfterFailure
  <2>2. call.after \in {"return", "write", "full", "seek", "close", "flushall"}
    BY Locals
  <2>3. pc' # "exited"
    BY <2>1, <2>2
  <2>4. CASE call.home = "exited"
    <3>1. pc' = "flushall" /\ FlushedTo(call.walk)
      BY <2>1, <2>4 DEF ExitInv
    <3>2. ASSUME NEW i \in 1..Len(tracked), i < call.walk, Dirty(tracked[i])'
          PROVE  f'[tracked[i]].err = 1
      <4>1. CASE tracked[i] = user
        BY <1>0, <2>1, <3>2, <4>1 DEF Dirty, Writes
      <4>2. CASE tracked[i] # user
        <5>1. f'[tracked[i]] = f[tracked[i]]
          BY <1>0, <2>1, <4>2
        <5>2. Dirty(tracked[i])
          BY <2>1, <3>2, <5>1 DEF Dirty, Writes
        <5> QED
          BY <3>1, <3>2, <4>2, <5>1, <5>2 DEF FlushedTo
      <4> QED
        BY <4>1, <4>2
    <3> QED
      BY <2>1, <2>3, <3>1, <3>2 DEF ExitInv, ExitFlushes, FlushedTo
  <2> QED
    BY <2>1, <2>3, <2>4 DEF ExitInv, ExitFlushes
<1>6. CASE Return
  <2>1. /\ pc = "return" /\ pc' = call.home /\ call'.home = "idle" /\ f' = f /\ tracked' = tracked
    BY <1>6, NoCallFields DEF Return
  <2>2. call.home = "exited" => FlushedTo(Len(tracked) + 1)
    BY <2>1 DEF ExitInv
  <2> QED
    BY <1>0, <2>1, <2>2 DEF ExitInv, ExitFlushes, FlushedTo, Dirty, Writes
<1>7. CASE FlushNext
  <2>1. /\ pc = "flushall" /\ pc' = "flush" /\ f' = f /\ tracked' = tracked
        /\ call' = [call EXCEPT !.user = tracked[call.walk], !.walk = call.walk + 1, !.after = "flushall"]
    BY <1>7 DEF FlushNext
  <2>2. PICK s, n : s = tracked[call.walk] /\ n = call.walk + 1
    OBVIOUS
  <2>3. call'.user = s /\ call'.walk = n /\ call'.after = "flushall" /\ call'.home = call.home
    BY <1>0, <2>1, <2>2 DEF CallRec
  <2>4. CASE call.home = "exited"
    <3>1. FlushedTo(call.walk)
      BY <2>1, <2>4 DEF ExitInv
    <3>2. FlushedTo(n)'
      <4> SUFFICES ASSUME NEW i \in 1..Len(tracked), i < n, Dirty(tracked[i])
                   PROVE  f[tracked[i]].err = 1 \/ tracked[i] = s
        BY <2>1, <2>3 DEF FlushedTo, Dirty, Writes, user
      <4>1. CASE i = call.walk
        BY <2>2, <4>1
      <4>2. CASE i < call.walk
        BY <2>1, <3>1, <4>2 DEF FlushedTo
      <4> QED
        BY <1>0, <2>2, <4>1, <4>2
    <3> QED
      BY <2>1, <2>3, <3>2 DEF ExitInv, ExitFlushes
  <2> QED
    BY <2>1, <2>3, <2>4 DEF ExitInv, ExitFlushes
<1>8. CASE FlushAllDone
  <2>1. /\ pc = "flushall" /\ pc' = "return" /\ f' = f /\ tracked' = tracked /\ call' = call
        /\ call.walk > Len(tracked)
    BY <1>8 DEF FlushAllDone, Goto
  <2>2. CASE call.home = "exited"
    <3>1. FlushedTo(call.walk)
      BY <2>1, <2>2 DEF ExitInv
    <3> QED
      BY <1>0, <2>1, <3>1 DEF ExitInv, ExitFlushes, FlushedTo, Dirty, Writes
  <2> QED
    BY <2>1, <2>2 DEF ExitInv, ExitFlushes
<1> QED
  BY <1>1, <1>2, <1>3, <1>4, <1>5, <1>6, <1>7, <1>8 DEF Step

\* What a client begins adds nothing to the buffer of stderr.
LEMMA ClientLineInv ==
  ASSUME Assumptions, TypeOK, CallInv, LineInv, ClientCall
  PROVE  LineInv'
<1>1. pc \in {"idle", "handler"}
  BY DEF ClientCall, Fopen, Fwrite, Fread, Fseek, Fflush, Fclose, FflushAll, Atexit, Exit,
     HandlerReturns, Begin, ClientRuns
<1>2. f'[StdErr] = f[StdErr]
  <2>1. ASSUME NEW s \in Streams, NEW m \in Modes, Fopen(s, m)
        PROVE  f'[StdErr] = f[StdErr]
    <3>1. s # StdErr /\ StdErr \in Streams
      BY <2>1 DEF Fopen, IsStd, Assumptions
    <3> QED
      BY <2>1, <3>1 DEF Fopen, TypeOK
  <2>2. \/ \E s \in Streams, m \in Modes : Fopen(s, m)
        \/ f' = f
    BY DEF ClientCall, Fwrite, Fread, Fseek, Fflush, Fclose, FflushAll, Atexit, Exit, HandlerReturns, Begin
  <2> QED
    BY <2>1, <2>2
<1>3. f[StdErr].err = 0 => NoLine(f[StdErr])
  BY <1>1 DEF LineInv
<1> QED
  BY <1>2, <1>3 DEF LineInv, NoLine

\* A newline copied into the buffer of stderr is flushed, whatever follows it.
LEMMA StepLineInv ==
  ASSUME Assumptions, TypeOK, Shapes, CallInv, LineInv, Step
  PROVE  LineInv'
<1>0. /\ call \in CallRec /\ user \in Streams /\ user = call.user /\ F = f[user] /\ F \in FileRec
      /\ StdErr \in Streams /\ f[StdErr].mode = "w"
      /\ F.pos \in Nat
  BY Current DEF user, TypeOK, Assumptions, LineInv
<1>1. CASE WriteCopy
  <2>1. PICK k \in 1..Len(call.todo), b \in Seq(Bytes) :
           /\ \A i \in 1..(F.pos + k) : b[i] = IF F.pos < i THEN call.todo[i - F.pos] ELSE F.buf[i]
           /\ F.pos + k \in 0..BufSz
           /\ Leaves([F EXCEPT !.buf = b, !.pos = F.pos + k])
           /\ pc' = IF user = StdErr /\ HasNewline(k) THEN "flush" ELSE "write"
           /\ call' = [call EXCEPT !.todo = SubSeq(call.todo, k + 1, Len(call.todo)),
                         !.after = IF user = StdErr /\ HasNewline(k) THEN "write" ELSE call.after]
    BY <1>1, WriteCopyFacts
  <2>2. /\ f'[user] = [F EXCEPT !.buf = b, !.pos = F.pos + k]
        /\ \A t \in Streams : t # user => f'[t] = f[t]
    BY <1>1, <2>1, LeavesKeptHere DEF WriteCopy
  <2>3. f'[user].mode = F.mode /\ f'[user].err = F.err /\ f'[user].pos = F.pos + k /\ f'[user].buf = b
    BY <1>0, <2>2 DEF FileRec
  <2>4. pc = "write"
    BY <1>1 DEF WriteCopy
  <2>5. user' = user
    BY <1>0, <2>1 DEF CallRec, user
  <2>6. CASE user # StdErr
    BY <1>0, <2>2, <2>4, <2>6 DEF LineInv, NoLine
  <2>7. CASE user = StdErr /\ HasNewline(k)
    BY <1>0, <2>1, <2>3, <2>5, <2>7 DEF LineInv
  <2>8. CASE user = StdErr /\ ~HasNewline(k)
    <3>1. F.err = 0 => NoLine(F)
      BY <1>0, <2>4, <2>8 DEF LineInv
    <3>2. \A i \in 1..k : call.todo[i] # NL
      BY <2>8 DEF HasNewline
    <3>3. F.err = 0 => \A i \in 1..(F.pos + k) : b[i] # NL
      <4> SUFFICES ASSUME F.err = 0, NEW i \in 1..(F.pos + k)
                   PROVE  b[i] # NL
        OBVIOUS
      <4>1. CASE F.pos < i
        <5>1. i - F.pos \in 1..k
          BY <1>0, <2>1, <4>1
        <5> QED
          BY <2>1, <3>2, <4>1, <5>1
      <4>2. CASE ~(F.pos < i)
        <5>1. i \in 1..F.pos
          BY <1>0, <2>1, <4>2
        <5> QED
          BY <2>1, <3>1, <4>2, <5>1 DEF NoLine
      <4> QED
        BY <4>1, <4>2
    <3> QED
      BY <1>0, <2>3, <2>8, <3>3 DEF LineInv, NoLine
  <2> QED
    BY <2>6, <2>7, <2>8
<1>2. CASE WriteFull \/ WriteDone \/ ReadDone \/ Return \/ RunHandler \/ LastFlush \/ FlushNext \/ FlushAllDone
  <2>1. f' = f /\ pc # "flush"
    BY <1>2 DEF WriteFull, WriteDone, ReadDone, Return, RunHandler, LastFlush, FlushNext, FlushAllDone
  <2> QED
    BY <2>1 DEF LineInv, NoLine
<1>3. CASE FlushWrite
  <2>1. f'[StdErr].mode = f[StdErr].mode /\ f'[StdErr].err = f[StdErr].err /\ f'[StdErr].pos = f[StdErr].pos
        /\ f'[StdErr].buf = f[StdErr].buf /\ pc' = "flush" /\ pc = "flush" /\ user' = user
    BY <1>0, <1>3, FlushWriteStep
  <2> QED
    BY <2>1 DEF LineInv, NoLine
<1>4. CASE FlushFails \/ FlushDone
  <2>1. /\ pc = "flush"
        /\ f'[user].err = 1 \/ (Writes(user) => f'[user].pos = 0)
        /\ f'[user].mode = F.mode
        /\ \A t \in Streams : t # user => f'[t] = f[t]
    BY <1>4, FlushFailsStep, FlushDoneStep
  <2>2. CASE user = StdErr
    <3>1. f'[StdErr].err = 1 \/ f'[StdErr].pos = 0
      BY <1>0, <2>1, <2>2 DEF Writes
    <3> QED
      BY <1>0, <2>1, <2>2, <3>1 DEF LineInv, NoLine
  <2>3. CASE user # StdErr
    BY <1>0, <2>1, <2>3 DEF LineInv, NoLine
  <2> QED
    BY <2>2, <2>3
<1>5. CASE ReadCopy \/ ReadRefill \/ ReadEnds
  <2>1. pc = "read"
    BY <1>5 DEF ReadCopy, ReadRefill, ReadEnds
  <2>2. user # StdErr
    BY <1>0, <2>1 DEF CallInv, Reads
  <2>3. f'[StdErr] = f[StdErr]
    <3>1. CASE ReadCopy
      BY <1>0, <2>2, <3>1, ReadCopyFacts, LeavesKeptHere DEF ReadCopy
    <3>2. CASE ReadRefill
      <4>1. PICK g : Leaves(g)
        BY <3>2, ReadRefillFacts
      <4> QED
        BY <1>0, <2>2, <3>2, <4>1, LeavesKeptHere DEF ReadRefill
    <3>3. CASE ReadEnds
      BY <1>0, <2>2, <3>3, ReadEndsFacts, LeavesKeptHere DEF ReadEnds
    <3> QED
      BY <1>5, <3>1, <3>2, <3>3
  <2> QED
    BY <2>1, <2>3 DEF LineInv, NoLine
<1>6. CASE SeekDo \/ CloseDo
  <2>1. pc # "flush"
    BY <1>6 DEF SeekDo, CloseDo
  <2>2. CASE user = StdErr
    <3>1. f'[StdErr].pos = 0 /\ f'[StdErr].mode = "w"
      <4>1. CASE SeekDo
        <5>1. PICK to : f'[user] = [F EXCEPT !.buf = <<>>, !.pos = 0, !.len = 0, !.eof = 0, !.off = to]
          BY <4>1, SeekDoFacts, LeavesKeptHere DEF SeekDo, Sought
        <5> QED
          BY <1>0, <2>2, <5>1 DEF FileRec
      <4>2. CASE CloseDo
        <5>1. f'[user] = Shut
          BY <4>2, CloseDoFacts, LeavesKeptHere DEF CloseDo
        <5> QED
          BY <2>2, <5>1 DEF Shut, Fresh
      <4> QED
        BY <1>6, <4>1, <4>2
    <3> QED
      BY <3>1 DEF LineInv, NoLine
  <2>3. CASE user # StdErr
    <3>1. f'[StdErr] = f[StdErr]
      <4>1. CASE SeekDo
        <5>1. PICK to : Leaves(Sought(to))
          BY <4>1, SeekDoFacts
        <5> QED
          BY <1>0, <2>3, <4>1, <5>1, LeavesKeptHere DEF SeekDo
      <4>2. CASE CloseDo
        BY <1>0, <2>3, <4>2, CloseDoFacts, LeavesKeptHere DEF CloseDo
      <4> QED
        BY <1>6, <4>1, <4>2
    <3> QED
      BY <2>1, <2>3, <3>1 DEF LineInv, NoLine
  <2> QED
    BY <2>2, <2>3
<1> QED
  BY <1>1, <1>2, <1>3, <1>4, <1>5, <1>6 DEF Step

-----------------------------------------------------------------------------
(* Theorems *)

\* The invariant holds at the start.
LEMMA InitInv ==
  ASSUME Assumptions, Init
  PROVE  IInv
<1>1. NoCall \in CallRec /\ Fresh("w") \in FileRec /\ Shut \in FileRec
  BY NoCallTyped, Opens
<1>2. Sound
  <2>1. f \in [Streams -> FileRec]
    BY <1>1 DEF Init
  <2>2. disk \in [Streams -> Seq(Bytes)]
    BY DEF Init, Assumptions
  <2>3. ASSUME NEW s \in Streams PROVE Shape(f[s], disk[s])
    <3>1. f[s] = Fresh("w") \/ f[s] = Shut
      BY DEF Init
    <3>2. disk[s] \in Seq(Bytes)
      BY <2>2
    <3> QED
      BY <3>1, <3>2, Opens
  <2> QED
    BY <2>1, <2>2, <2>3 DEF Sound, Shapes
<1>3. Table /\ Place
  BY <1>1 DEF Init, Table, Place, Assumptions
<1>4. CallInv
  BY NoCallFields DEF Init, CallInv
<1>5. ExitInv
  BY NoCallFields DEF Init, ExitInv, ExitFlushes
<1>6. LineInv
  <2>1. StdErr \in Streams /\ IsStd(StdErr)
    BY DEF Assumptions, IsStd
  <2>2. f[StdErr] = Fresh("w")
    BY <2>1 DEF Init
  <2> QED
    BY <2>2 DEF LineInv, NoLine, Fresh
<1> QED
  BY <1>2, <1>3, <1>4, <1>5, <1>6, Parts DEF IInv, Sound

\* Every step keeps the invariant.
LEMMA NextInv ==
  ASSUME Assumptions, IInv, [Next]_vars
  PROVE  IInv'
<1>1. TypeOK /\ Shapes /\ CallInv /\ ExitInv /\ LineInv
  BY DEF IInv
<1>2. CASE Next
  <2>1. Sound' /\ Table' /\ Place'
    BY <1>1, <1>2, ClientTyped, StepTyped DEF Next
  <2>2. TypeOK' /\ Shapes'
    BY <2>1 DEF TypeOK, Sound, Table, Place
  <2>3. CallInv' /\ ExitInv' /\ LineInv'
    BY <1>1, <1>2, ClientCallInv, StepCallInv, ClientExitInv, StepExitInv, ClientLineInv, StepLineInv DEF Next
  <2> QED
    BY <2>2, <2>3 DEF IInv
<1>3. CASE UNCHANGED vars
  BY <1>1, <1>3 DEF IInv, vars, TypeOK, Shapes, CallInv, ExitInv, ExitFlushes, FlushedTo, LineInv, NoLine,
     user, F, Writes, Reads, Dirty
<1> QED
  BY <1>2, <1>3

\* The structures, their buffers and files, the call under way, the exit sequence
\* and stderr are as the invariant says, at every moment.
THEOREM StdioInvariant ==
  ASSUME Assumptions
  PROVE  Spec => []IInv
<1>1. Init => IInv
  BY InitInv
<1>2. IInv /\ [Next]_vars => IInv'
  BY NextInv
<1> QED
  BY <1>1, <1>2, PTL DEF Spec

\* The structures, the files and a call's variables keep their types, and the
\* table of streams is never overrun.
THEOREM Typing ==
  ASSUME Assumptions
  PROVE  Spec => []TypeOK
<1>1. IInv => TypeOK
  BY DEF IInv
<1> QED
  BY <1>1, StdioInvariant, PTL

\* A process that has exited has left nothing in its buffers: not what main
\* wrote, nor what the handlers wrote, unless a write failed.
THEOREM ExitFlushesHolds ==
  ASSUME Assumptions
  PROVE  Spec => []ExitFlushes
<1>1. IInv => ExitFlushes
  BY DEF IInv, ExitInv
<1> QED
  BY <1>1, StdioInvariant, PTL

\* No complete line waits in the buffer of stderr once a call has returned.
THEOREM StderrPromptHolds ==
  ASSUME Assumptions
  PROVE  Spec => []StderrPrompt
<1>1. IInv => StderrPrompt
  BY DEF IInv, LineInv, StderrPrompt, NoLine
<1> QED
  BY <1>1, StdioInvariant, PTL

-----------------------------------------------------------------------------
(* The buffered streams implement plain files *)

\* What a client sees of a stream: nothing of one that is closed or that failed,
\* the file and what was handed out of it, or the file and what waits.
LEMMA SeenCases ==
  ASSUME NEW s \in Streams
  PROVE  /\ f[s].open = 0 => Seen(s) = View!Closed
         /\ f[s].open # 0 /\ (f[s].mode = "r+" \/ (f[s].mode \in {"w", "a"} /\ f[s].err = 1)) => Seen(s) = View!Lost
         /\ f[s].open # 0 /\ f[s].mode = "r" =>
              Seen(s) = View!Opened(disk[s], f[s].off - (f[s].len - f[s].pos))
         /\ f[s].open # 0 /\ f[s].mode \in {"w", "a"} /\ f[s].err # 1 =>
              Seen(s) = View!Opened(Overwrite(disk[s], From(s), Pending(s)), From(s) + Len(Pending(s)))
BY DEF Seen, View!Closed, View!Lost, View!Opened, Writes, From, Pending

\* The same of the next state, of a stream that is not being written,
LEMMA SeenNext ==
  ASSUME NEW s \in Streams
  PROVE  /\ f'[s].open = 0 => Seen(s)' = View!Closed
         /\ f'[s].open # 0 /\ (f'[s].mode = "r+" \/ (f'[s].mode \in {"w", "a"} /\ f'[s].err = 1)) => Seen(s)' = View!Lost
         /\ f'[s].open # 0 /\ f'[s].mode = "r" =>
              Seen(s)' = View!Opened(disk'[s], f'[s].off - (f'[s].len - f'[s].pos))
BY DEF Seen, View!Closed, View!Lost, View!Opened, Writes, From, Pending

\* and of one that is.
LEMMA WriterNext ==
  ASSUME NEW s \in Streams, f'[s].open # 0, f'[s].mode \in {"w", "a"}, f'[s].err # 1,
         NEW from, from = IF f'[s].mode = "a" THEN Len(disk'[s]) ELSE f'[s].off,
         NEW p, p = SubSeq(f'[s].buf, 1 + (IF pc' = "flush" /\ user' = s THEN call'.done ELSE 0), f'[s].pos)
  PROVE  Seen(s)' = View!Opened(Overwrite(disk'[s], from, p), from + Len(p))
BY DEF Seen, View!Opened, Writes, From, Pending

\* A stream the step is not about.
LEMMA OtherSeen ==
  ASSUME NEW s \in Streams, user' = user, s # user, f'[s] = f[s], disk'[s] = disk[s]
  PROVE  Seen(s)' = Seen(s)
BY DEF Seen, Pending, Writes, From

\* A step about no stream.
LEMMA StillSeen ==
  ASSUME NEW s \in Streams, f' = f, disk' = disk,
         pc # "flush" \/ call.done = 0, pc' # "flush" \/ call'.done = 0
  PROVE  Seen(s)' = Seen(s)
<1>1. (pc' = "flush" /\ user' = s => call'.done = 0) /\ (pc = "flush" /\ user = s => call.done = 0)
  OBVIOUS
<1>2. f'[s] = f[s] /\ disk'[s] = disk[s]
  OBVIOUS
<1> QED
  BY <1>1, <1>2 DEF Seen, Pending, From, Writes

\* The step of one stream, and a step of none, as the client sees it.
LEMMA ViewOf ==
  ASSUME user \in Streams
  PROVE  /\ \A v : Seen(user) = v => View!Mine = v
         /\ (\A s \in Streams : Seen(s)' = Seen(s)) =>
              [s \in Streams |-> Seen(s)]' = [s \in Streams |-> Seen(s)]
         /\ \A u, v : u = user /\ Seen(u)' = v /\ (\A s \in Streams : s # u => Seen(s)' = Seen(s)) =>
              View!Becomes(v)
<1>1. \A v : Seen(user) = v => View!Mine = v
  BY DEF View!Mine
<1>2. (\A s \in Streams : Seen(s)' = Seen(s)) =>
        [s \in Streams |-> Seen(s)]' = [s \in Streams |-> Seen(s)]
  OBVIOUS
<1>3. ASSUME NEW u, NEW v, u = user, Seen(u)' = v, \A s \in Streams : s # u => Seen(s)' = Seen(s)
      PROVE  View!Becomes(v)
  BY <1>3 DEF View!Becomes
<1> QED
  BY <1>1, <1>2, <1>3

\* The promise and the model mean the same by writing at a position.
LEMMA SameOverwrite ==
  ASSUME NEW d, NEW at, NEW data
  PROVE  View!Overwrite(d, at, data) = Overwrite(d, at, data)
BY DEF View!Overwrite, Overwrite

\* The whole of a sequence, and nothing of it.
LEMMA WholePart ==
  ASSUME NEW S, NEW s \in Seq(S)
  PROVE  /\ SubSeq(s, 1, Len(s)) = s
         /\ \A n \in Nat : SubSeq(s, n + 1, n) = <<>>
<1>1. SubSeq(s, 1, Len(s)) = s
  <2>1. 1 \in 1..(Len(s) + 1) /\ Len(s) \in (1 - 1)..Len(s) /\ Len(s) \in Nat
    OBVIOUS
  <2>2. PICK w : w = SubSeq(s, 1, Len(s))
    OBVIOUS
  <2>3. /\ w \in Seq(S) /\ Len(w) = Len(s) - 1 + 1
        /\ \A i \in 1..(Len(s) - 1 + 1) : w[i] = s[1 + i - 1]
    BY <2>1, <2>2, PartFacts
  <2>4. Len(w) = Len(s) /\ \A i \in 1..Len(w) : w[i] = s[i]
    BY <2>1, <2>3
  <2> QED
    BY <2>2, <2>3, <2>4, SeqEqual
<1>2. ASSUME NEW n \in Nat PROVE SubSeq(s, n + 1, n) = <<>>
  OBVIOUS
<1> QED
  BY <1>1, <1>2

\* fwrite moves bytes behind the client's position, wherever they really are.
LEMMA WriteCopyView ==
  ASSUME Assumptions, TypeOK, Shapes, CallInv, WriteCopy
  PROVE  View!Next
<1>1. PICK k \in 1..Len(call.todo), b \in Seq(Bytes) :
         /\ k <= BufSz - F.pos /\ F.pos + k \in 0..BufSz
         /\ SubSeq(call.todo, 1, k) \in Seq(Bytes) /\ Len(SubSeq(call.todo, 1, k)) = k
         /\ b = Filled(SubSeq(call.todo, 1, k))
         /\ Leaves([F EXCEPT !.buf = b, !.pos = F.pos + k])
         /\ call' = [call EXCEPT !.todo = SubSeq(call.todo, k + 1, Len(call.todo)),
                       !.after = IF user = StdErr /\ HasNewline(k) THEN "write" ELSE call.after]
  BY WriteCopyFacts
<1>2. /\ f'[user] = [F EXCEPT !.buf = b, !.pos = F.pos + k]
      /\ \A t \in Streams : t # user => f'[t] = f[t]
  BY <1>1, LeavesKeptHere DEF WriteCopy
<1>3. /\ user \in Streams /\ user = call.user /\ F \in FileRec /\ F = f[user] /\ F.open = 1
      /\ F.mode \in {"w", "a", "r+"} /\ call \in CallRec
      /\ F.buf \in Seq(Bytes) /\ F.pos \in Nat /\ F.off \in Nat
      /\ F.mode \in {"w", "a"} => F.pos = Len(F.buf)
      /\ disk[user] \in Seq(Bytes) /\ F.off <= Len(disk[user]) /\ disk' = disk /\ pc = "write" /\ call.done = 0
  <2>1. Writes(user) /\ F.open = 1 /\ pc = "write" /\ call.done = 0 /\ disk' = disk
    BY DEF CallInv, WriteCopy
  <2>2. F.mode \in {"w", "a", "r+"}
    BY <2>1 DEF Writes, F
  <2>3. Shape(F, disk[user]) /\ F.pos \in 0..BufSz /\ BufSz \in Nat
    BY Current DEF Assumptions
  <2>4. (F.mode \in {"w", "a"} => F.pos = Len(F.buf)) /\ F.off <= Len(disk[user])
    BY <2>3 DEF Shape
  <2> QED
    BY <2>1, <2>2, <2>3, <2>4, Current DEF TypeOK, user
<1>4. f'[user].mode = F.mode /\ f'[user].err = F.err /\ f'[user].open = 1 /\ f'[user].pos = F.pos + k
      /\ f'[user].buf = b /\ f'[user].off = F.off
  BY <1>2, <1>3 DEF FileRec
<1>5. /\ call'.user = user /\ call'.got = call.got /\ call'.done = 0
      /\ call'.todo = SubSeq(call.todo, k + 1, Len(call.todo))
  BY <1>1, <1>3 DEF CallRec
<1>6. user' = user
  BY <1>5 DEF user
<1>7. \A t \in Streams : t # user => Seen(t)' = Seen(t)
  BY <1>2, <1>3, <1>6, OtherSeen
<1>8. CASE F.mode = "r+" \/ F.err = 1
  <2>1. Seen(user) = View!Lost
    BY <1>3, <1>8, SeenCases
  <2>2. PICK u : u = user
    OBVIOUS
  <2>3. Seen(u)' = View!Lost
    <3>1. u \in Streams /\ f'[u].open # 0 /\ (f'[u].mode = "r+" \/ (f'[u].mode \in {"w", "a"} /\ f'[u].err = 1))
      BY <1>3, <1>4, <1>8, <2>2
    <3> QED
      BY <3>1, SeenNext
  <2>4. \A t \in Streams : Seen(t)' = Seen(t)
    BY <1>7, <2>1, <2>2, <2>3
  <2>5. View!Mine = View!Lost /\ [s \in Streams |-> Seen(s)]' = [s \in Streams |-> Seen(s)]
    BY <1>3, <2>1, <2>4, ViewOf
  <2> QED
    BY <1>6, <2>5 DEF View!Next, View!Unpromised, View!Lost
<1>9. CASE F.mode \in {"w", "a"} /\ F.err # 1
  <2>1. PICK u, d, from, buf, data :
          u = user /\ d = disk[user] /\ from = From(user) /\ buf = F.buf /\ data = SubSeq(call.todo, 1, k)
    OBVIOUS
  <2>2. /\ d \in Seq(Bytes) /\ buf \in Seq(Bytes) /\ data \in Seq(Bytes) /\ Len(data) = k
        /\ from \in 0..Len(d) /\ Len(buf) = F.pos
    BY <1>1, <1>3, <1>9, <2>1 DEF From
  <2>3. b = buf \o data
    <3>1. b = Overwrite(buf, Len(buf), data)
      BY <1>1, <2>1, <2>2 DEF Filled
    <3> QED
      BY <2>2, <3>1, OverwriteSimple
  <2>4. b \in Seq(Bytes) /\ Len(b) = F.pos + k
    BY <2>2, <2>3, ConcatProperties
  <2>5. Pending(user) = buf
    BY <1>3, <2>1, <2>2, WholePart DEF Pending
  <2>6. Seen(user) = View!Opened(Overwrite(d, from, buf), from + Len(buf))
    BY <1>3, <1>9, <2>1, <2>5, SeenCases
  <2>7. SubSeq(b, 1, F.pos + k) = b
    BY <2>4, WholePart
  <2>8. Seen(u)' = View!Opened(Overwrite(d, from, b), from + Len(b))
    <3>1. from = IF f'[u].mode = "a" THEN Len(disk'[u]) ELSE f'[u].off
      BY <1>3, <1>4, <2>1 DEF From
    <3>2. b = SubSeq(f'[u].buf, 1 + (IF pc' = "flush" /\ user' = u THEN call'.done ELSE 0), f'[u].pos)
      <4>1. 1 + (IF pc' = "flush" /\ user' = u THEN call'.done ELSE 0) = 1
        BY <1>5
      <4>2. f'[u].buf = b /\ f'[u].pos = F.pos + k
        BY <1>4, <2>1
      <4> QED
        BY <2>7, <4>1, <4>2
    <3>3. u \in Streams /\ f'[u].open # 0 /\ f'[u].mode \in {"w", "a"} /\ f'[u].err # 1 /\ disk'[u] = d
      BY <1>3, <1>4, <1>9, <2>1
    <3>4. Seen(u)' = View!Opened(Overwrite(disk'[u], from, b), from + Len(b))
      BY <3>1, <3>2, <3>3, WriterNext
    <3> QED
      BY <3>3, <3>4
  <2>9. Overwrite(d, from, b) = Overwrite(Overwrite(d, from, buf), from + Len(buf), data)
    <3>1. Overwrite(Overwrite(d, from, buf), from + Len(buf), data) = Overwrite(d, from, buf \o data)
      <4>1. d \in Seq(Bytes) /\ from \in 0..Len(d) /\ buf \in Seq(Bytes) /\ data \in Seq(Bytes)
        BY <2>2
      <4> QED
        BY <4>1, OverwriteTwice
    <3> QED
      BY <2>3, <3>1
  <2>10. from + Len(b) = (from + Len(buf)) + k
    BY <1>3, <2>2, <2>4
  <2>11. /\ View!Mine.state = "open" /\ View!Mine.content = Overwrite(d, from, buf)
         /\ View!Mine.at = from + Len(buf)
    BY <1>3, <2>6, ViewOf DEF View!Opened
  <2>12. View!Becomes(View!Opened(Overwrite(d, from, b), from + Len(b)))
    BY <1>3, <1>7, <2>1, <2>8, ViewOf
  <2>13. View!Becomes(View!Opened(View!Overwrite(View!Mine.content, View!Mine.at, SubSeq(call.todo, 1, k)),
                                  View!Mine.at + k))
    BY <2>1, <2>9, <2>10, <2>11, <2>12, SameOverwrite
  <2>14. View!Write
    BY <1>5, <1>6, <2>11, <2>13 DEF View!Write
  <2> QED
    BY <2>14 DEF View!Next
<1> QED
  BY <1>3, <1>8, <1>9

\* The view stays as it is when each stream's does.
LEMMA Stutters ==
  ASSUME user \in Streams, user' = user, call'.todo = call.todo, call'.got = call.got,
         \A s \in Streams : Seen(s)' = Seen(s)
  PROVE  UNCHANGED View!vars
<1>1. [s \in Streams |-> Seen(s)]' = [s \in Streams |-> Seen(s)]
  BY ViewOf
<1> QED
  BY <1>1 DEF View!vars

\* The current stream, when a write is under way.
LEMMA Writing ==
  ASSUME Assumptions, TypeOK, Shapes, Dirty(user)
  PROVE  /\ user \in Streams /\ user = call.user /\ F \in FileRec /\ F = f[user] /\ F.open # 0
         /\ F.mode \in {"w", "a", "r+"} /\ call \in CallRec /\ BufSz \in Nat
         /\ F.buf \in Seq(Bytes) /\ F.pos \in Nat /\ F.pos <= Len(F.buf) /\ F.off \in Nat /\ F.off <= Len(disk[user])
         /\ F.mode \in {"w", "a"} => F.len = 0 /\ F.pos = Len(F.buf)
         /\ disk[user] \in Seq(Bytes) /\ call.done \in Nat
<1>1. Shape(F, disk[user]) /\ F.pos \in 0..BufSz /\ BufSz \in Nat /\ call.done \in 0..BufSz
  BY Current, Locals DEF Assumptions
<1>2. /\ F.pos <= Len(F.buf) /\ F.off <= Len(disk[user])
      /\ F.mode \in {"w", "a"} => F.len = 0 /\ F.pos = Len(F.buf)
  BY <1>1 DEF Shape
<1> QED
  BY <1>1, <1>2, Current, DirtyFacts DEF TypeOK, user

\* A part in two parts.
LEMMA PartInTwo ==
  ASSUME NEW S, NEW s \in Seq(S), NEW k \in Nat, NEW n \in Nat, k + n <= Len(s)
  PROVE  /\ SubSeq(s, k + 1, k + n) \in Seq(S) /\ Len(SubSeq(s, k + 1, k + n)) = n
         /\ SubSeq(s, k + n + 1, Len(s)) \in Seq(S)
         /\ SubSeq(s, k + 1, k + n) \o SubSeq(s, k + n + 1, Len(s)) = SubSeq(s, k + 1, Len(s))
<1>0. PICK m : m = Len(s)
  OBVIOUS
<1>1. m \in Nat
  BY <1>0
<1>2. PICK x, y, z : x = SubSeq(s, k + 1, k + n) /\ y = SubSeq(s, k + n + 1, m) /\ z = SubSeq(s, k + 1, m)
  OBVIOUS
<1>3. x \in Seq(S) /\ Len(x) = n /\ \A i \in 1..n : x[i] = s[k + i]
  <2>1. PICK p, q : p = k + 1 /\ q = k + n
    OBVIOUS
  <2>2. p \in 1..(Len(s) + 1) /\ q \in (p - 1)..Len(s)
    BY <1>0, <1>1, <2>1
  <2>3. x \in Seq(S) /\ Len(x) = q - p + 1 /\ \A i \in 1..(q - p + 1) : x[i] = s[p + i - 1]
    BY <1>2, <2>1, <2>2, PartFacts
  <2>4. q - p + 1 = n
    BY <2>1
  <2>5. \A i \in 1..n : p + i - 1 = k + i
    BY <2>1
  <2> QED
    BY <2>3, <2>4, <2>5
<1>4. y \in Seq(S) /\ Len(y) = m - (k + n) /\ \A i \in 1..(m - (k + n)) : y[i] = s[k + n + i]
  <2>1. PICK p : p = k + n + 1
    OBVIOUS
  <2>2. p \in 1..(Len(s) + 1) /\ m \in (p - 1)..Len(s)
    BY <1>0, <1>1, <2>1
  <2>3. y \in Seq(S) /\ Len(y) = m - p + 1 /\ \A i \in 1..(m - p + 1) : y[i] = s[p + i - 1]
    BY <1>2, <2>1, <2>2, PartFacts
  <2>4. m - p + 1 = m - (k + n)
    BY <1>1, <2>1
  <2>5. \A i \in 1..(m - (k + n)) : p + i - 1 = k + n + i
    BY <1>1, <2>1
  <2> QED
    BY <2>3, <2>4, <2>5
<1>5. z \in Seq(S) /\ Len(z) = m - k /\ \A i \in 1..(m - k) : z[i] = s[k + i]
  <2>1. PICK p : p = k + 1
    OBVIOUS
  <2>2. p \in 1..(Len(s) + 1) /\ m \in (p - 1)..Len(s)
    BY <1>0, <1>1, <2>1
  <2>3. z \in Seq(S) /\ Len(z) = m - p + 1 /\ \A i \in 1..(m - p + 1) : z[i] = s[p + i - 1]
    BY <1>2, <2>1, <2>2, PartFacts
  <2>4. m - p + 1 = m - k
    BY <1>1, <2>1
  <2>5. \A i \in 1..(m - k) : p + i - 1 = k + i
    BY <1>1, <2>1
  <2> QED
    BY <2>3, <2>4, <2>5
<1>6. /\ x \o y \in Seq(S) /\ Len(x \o y) = n + (m - (k + n))
      /\ \A i \in 1..(n + (m - (k + n))) : (x \o y)[i] = IF i <= n THEN x[i] ELSE y[i - n]
  BY <1>3, <1>4, ConcatProperties
<1>7. Len(x \o y) = m - k
  BY <1>1, <1>6
<1>8. \A i \in 1..(m - k) : (x \o y)[i] = z[i]
  <2> TAKE i \in 1..(m - k)
  <2>1. i \in 1..(n + (m - (k + n)))
    BY <1>0, <1>1
  <2>2. CASE i <= n
    <3>1. i \in 1..n
      BY <2>1, <2>2
    <3> QED
      BY <1>3, <1>5, <1>6, <2>1, <2>2, <3>1
  <2>3. CASE ~(i <= n)
    <3>1. i - n \in 1..(m - (k + n)) /\ k + n + (i - n) = k + i
      BY <1>0, <1>1, <2>1, <2>3
    <3> QED
      BY <1>4, <1>5, <1>6, <2>1, <2>3, <3>1
  <2> QED
    BY <2>2, <2>3
<1>9. x \o y = z
  BY <1>5, <1>6, <1>7, <1>8, SeqEqual
<1> QED
  BY <1>0, <1>2, <1>3, <1>4, <1>9

\* What the client sees does not change when its bytes reach the file.
LEMMA FlushWriteView ==
  ASSUME Assumptions, TypeOK, Shapes, CallInv, FlushWrite
  PROVE  UNCHANGED View!vars
<1>1. PICK n \in Nat \ {0}, d \in Seq(Bytes) :
         /\ call.done + n <= F.pos
         /\ d = Written(SubSeq(F.buf, call.done + 1, call.done + n))
         /\ disk' = [disk EXCEPT ![user] = d] /\ disk'[user] = d /\ disk' \in [Streams -> Seq(Bytes)]
         /\ Leaves([F EXCEPT !.off = OffsetAfter(n)])
         /\ call' = [call EXCEPT !.done = call.done + n] /\ pc' = pc
  BY FlushWriteFacts
<1>2. Dirty(user) /\ pc = "flush"
  BY DEF FlushWrite
<1>3. /\ user \in Streams /\ user = call.user /\ F \in FileRec /\ F = f[user] /\ F.open # 0
      /\ F.mode \in {"w", "a", "r+"} /\ call \in CallRec
      /\ F.buf \in Seq(Bytes) /\ F.pos \in Nat /\ F.pos <= Len(F.buf) /\ F.off \in Nat /\ F.off <= Len(disk[user])
      /\ F.mode \in {"w", "a"} => F.pos = Len(F.buf)
      /\ disk[user] \in Seq(Bytes) /\ call.done \in Nat
  BY <1>2, Writing
<1>4. /\ f'[user] = [F EXCEPT !.off = OffsetAfter(n)]
      /\ \A t \in Streams : t # user => f'[t] = f[t] /\ disk'[t] = disk[t]
  <2>1. \A t \in Streams : t # user => disk'[t] = disk[t]
    BY <1>1 DEF TypeOK
  <2> QED
    BY <1>1, <2>1, LeavesKept
<1>5. /\ f'[user].mode = F.mode /\ f'[user].err = F.err /\ f'[user].pos = F.pos /\ f'[user].buf = F.buf
      /\ f'[user].open = F.open /\ f'[user].off = OffsetAfter(n)
  BY <1>3, <1>4 DEF FileRec
<1>6. /\ call'.user = user /\ call'.todo = call.todo /\ call'.got = call.got /\ call'.done = call.done + n
  BY <1>1, <1>3 DEF CallRec
<1>7. user' = user
  BY <1>6 DEF user
<1>8. \A t \in Streams : t # user => Seen(t)' = Seen(t)
  BY <1>4, <1>7, OtherSeen
<1>9. PICK u : u = user
  OBVIOUS
<1>10. Seen(u)' = Seen(u)
  <2>1. CASE F.mode = "r+" \/ F.err = 1
    <3>1. Seen(u) = View!Lost
      BY <1>3, <1>9, <2>1, SeenCases
    <3>2. u \in Streams /\ f'[u].open # 0 /\ (f'[u].mode = "r+" \/ (f'[u].mode \in {"w", "a"} /\ f'[u].err = 1))
      BY <1>3, <1>5, <1>9, <2>1
    <3> QED
      BY <3>1, <3>2, SeenNext
  <2>2. CASE F.mode \in {"w", "a"} /\ F.err # 1
    <3>1. PICK old, from, next, buf, k, data, rest :
            /\ old = disk[user] /\ buf = F.buf /\ k = call.done
            /\ from = IF F.mode = "a" THEN Len(old) ELSE F.off
            /\ next = IF F.mode = "a" THEN Len(d) ELSE OffsetAfter(n)
            /\ data = SubSeq(buf, k + 1, k + n) /\ rest = SubSeq(buf, k + n + 1, Len(buf))
      OBVIOUS
    <3>2. /\ old \in Seq(Bytes) /\ buf \in Seq(Bytes) /\ k \in Nat /\ k + n <= Len(buf) /\ n \in Nat
          /\ from \in 0..Len(old) /\ Len(buf) = F.pos
      BY <1>1, <1>3, <2>2, <3>1
    <3>3. /\ data \in Seq(Bytes) /\ Len(data) = n /\ rest \in Seq(Bytes)
          /\ data \o rest = SubSeq(buf, k + 1, Len(buf))
      <4>1. buf \in Seq(Bytes) /\ k \in Nat /\ n \in Nat /\ k + n <= Len(buf)
        BY <3>2
      <4>2. /\ SubSeq(buf, k + 1, k + n) \in Seq(Bytes) /\ Len(SubSeq(buf, k + 1, k + n)) = n
            /\ SubSeq(buf, k + n + 1, Len(buf)) \in Seq(Bytes)
            /\ SubSeq(buf, k + 1, k + n) \o SubSeq(buf, k + n + 1, Len(buf)) = SubSeq(buf, k + 1, Len(buf))
        BY <4>1, PartInTwo
      <4> QED
        BY <3>1, <4>2
    <3>4. d = Overwrite(old, from, data) /\ next = from + n
      <4>1. CASE F.mode = "a"
        <5>1. d = old \o data
          BY <1>1, <3>1, <4>1 DEF Written
        <5>2. Overwrite(old, Len(old), data) = old \o data
          BY <3>2, <3>3, OverwriteSimple
        <5>3. Len(d) = Len(old) + n
          BY <3>2, <3>3, <5>1, ConcatProperties
        <5> QED
          BY <3>1, <4>1, <5>1, <5>2, <5>3
      <4>2. CASE F.mode # "a"
        BY <1>1, <3>1, <4>2 DEF Written, OffsetAfter
      <4> QED
        BY <4>1, <4>2
    <3>5. Overwrite(d, next, rest) = Overwrite(old, from, data \o rest)
      <4>1. Overwrite(Overwrite(old, from, data), from + Len(data), rest) = Overwrite(old, from, data \o rest)
        <5>1. old \in Seq(Bytes) /\ from \in 0..Len(old) /\ data \in Seq(Bytes) /\ rest \in Seq(Bytes)
          BY <3>2, <3>3
        <5> QED
          BY <5>1, OverwriteTwice
      <4> QED
        BY <3>3, <3>4, <4>1
    <3>6. next + Len(rest) = from + Len(data \o rest)
      <4>1. Len(data \o rest) = n + Len(rest)
        BY <3>3, ConcatProperties
      <4> QED
        BY <3>2, <3>3, <3>4, <4>1
    <3>7. Seen(u) = View!Opened(Overwrite(old, from, data \o rest), from + Len(data \o rest))
      <4>1. From(u) = from
        BY <1>3, <1>9, <3>1 DEF From
      <4>2. Pending(u) = data \o rest
        <5>1. Pending(u) = SubSeq(buf, 1 + k, Len(buf))
          BY <1>2, <1>3, <1>9, <3>1, <3>2 DEF Pending
        <5>2. 1 + k = k + 1
          BY <3>2
        <5> QED
          BY <3>3, <5>1, <5>2
      <4> QED
        BY <1>3, <1>9, <2>2, <3>1, <4>1, <4>2, SeenCases
    <3>8. Seen(u)' = View!Opened(Overwrite(d, next, rest), next + Len(rest))
      <4>1. u \in Streams /\ f'[u].open # 0 /\ f'[u].mode \in {"w", "a"} /\ f'[u].err # 1 /\ disk'[u] = d
        BY <1>1, <1>3, <1>5, <1>9, <2>2
      <4>2. next = IF f'[u].mode = "a" THEN Len(disk'[u]) ELSE f'[u].off
        BY <1>5, <1>9, <3>1, <4>1
      <4>3. rest = SubSeq(f'[u].buf, 1 + (IF pc' = "flush" /\ user' = u THEN call'.done ELSE 0), f'[u].pos)
        <5>1. 1 + (IF pc' = "flush" /\ user' = u THEN call'.done ELSE 0) = k + n + 1
          BY <1>1, <1>2, <1>6, <1>7, <1>9, <3>1, <3>2
        <5>2. f'[u].buf = buf /\ f'[u].pos = Len(buf)
          BY <1>5, <1>9, <3>1, <3>2
        <5> QED
          BY <3>1, <5>1, <5>2
      <4>4. Seen(u)' = View!Opened(Overwrite(disk'[u], next, rest), next + Len(rest))
        BY <4>1, <4>2, <4>3, WriterNext
      <4> QED
        BY <4>1, <4>4
    <3> QED
      BY <3>5, <3>6, <3>7, <3>8
  <2> QED
    BY <1>3, <2>1, <2>2
<1>11. \A t \in Streams : Seen(t)' = Seen(t)
  BY <1>8, <1>9, <1>10
<1> QED
  BY <1>3, <1>6, <1>7, <1>11, Stutters

\* After a failed write nothing is promised.
LEMMA FlushFailsView ==
  ASSUME Assumptions, TypeOK, Shapes, CallInv, FlushFails
  PROVE  View!Next
<1>1. Dirty(user)
  BY DEF FlushFails
<1>2. /\ user \in Streams /\ user = call.user /\ F \in FileRec /\ F = f[user] /\ F.open # 0
      /\ F.mode \in {"w", "a", "r+"} /\ call \in CallRec
  BY <1>1, Writing
<1>3. /\ f'[user] = [F EXCEPT !.err = 1] /\ disk' = disk
      /\ \A t \in Streams : t # user => f'[t] = f[t]
  BY FlushFailsFacts, LeavesKeptHere DEF FlushFails
<1>4. f'[user].mode = F.mode /\ f'[user].err = 1 /\ f'[user].open = F.open
  BY <1>2, <1>3 DEF FileRec
<1>5. call'.user = user /\ call'.got = call.got
  BY <1>2 DEF CallRec, FlushFails
<1>6. user' = user
  BY <1>5 DEF user
<1>7. \A t \in Streams : t # user => Seen(t)' = Seen(t)
  BY <1>3, <1>6, OtherSeen
<1>8. PICK u : u = user
  OBVIOUS
<1>9. Seen(u)' = View!Lost
  <2>1. u \in Streams /\ f'[u].open # 0 /\ (f'[u].mode = "r+" \/ (f'[u].mode \in {"w", "a"} /\ f'[u].err = 1))
    BY <1>2, <1>4, <1>8
  <2> QED
    BY <2>1, SeenNext
<1>10. View!Becomes(View!Lost)
  BY <1>2, <1>7, <1>8, <1>9, ViewOf
<1> QED
  BY <1>5, <1>6, <1>10 DEF View!Next, View!Fail

\* When everything has been written the client sees what it saw.
LEMMA FlushDoneView ==
  ASSUME Assumptions, TypeOK, Shapes, CallInv, FlushDone
  PROVE  UNCHANGED View!vars
<1>1. /\ pc = "flush" /\ user' = user /\ call \in CallRec /\ user \in Streams /\ disk' = disk
      /\ call'.done = 0 /\ call'.todo = call.todo /\ call'.got = call.got
      /\ user = call.user /\ f \in [Streams -> FileRec]
  <2>1. call \in CallRec /\ user \in Streams
    BY Current DEF TypeOK
  <2> QED
    BY <2>1 DEF FlushDone, CallRec, user, TypeOK
<1>2. CASE Dirty(user)
  <2>1. /\ F \in FileRec /\ F = f[user] /\ F.open # 0
        /\ F.mode \in {"w", "a", "r+"} /\ F.buf \in Seq(Bytes) /\ F.pos \in Nat
        /\ F.mode \in {"w", "a"} => F.len = 0
    BY <1>2, Writing
  <2>2. /\ f'[user] = [F EXCEPT !.pos = 0, !.buf = SubSeq(F.buf, 1, F.len)]
        /\ \A t \in Streams : t # user => f'[t] = f[t]
    BY <1>2, <1>1, FlushDoneFacts, LeavesKeptHere
  <2>3. /\ f'[user].mode = F.mode /\ f'[user].err = F.err /\ f'[user].open = F.open /\ f'[user].off = F.off
        /\ f'[user].pos = 0 /\ f'[user].buf = SubSeq(F.buf, 1, F.len)
    BY <2>1, <2>2 DEF FileRec
  <2>4. \A t \in Streams : t # user => Seen(t)' = Seen(t)
    BY <1>1, <2>2, OtherSeen
  <2>5. PICK u : u = user
    OBVIOUS
  <2>6. Seen(u)' = Seen(u)
    <3>1. CASE F.mode = "r+" \/ F.err = 1
      <4>1. Seen(u) = View!Lost
        BY <1>1, <2>1, <2>5, <3>1, SeenCases
      <4>2. u \in Streams /\ f'[u].open # 0 /\ (f'[u].mode = "r+" \/ (f'[u].mode \in {"w", "a"} /\ f'[u].err = 1))
        BY <1>1, <2>1, <2>3, <2>5, <3>1
      <4> QED
        BY <4>1, <4>2, SeenNext
    <3>2. CASE F.mode \in {"w", "a"} /\ F.err # 1
      <4>1. PICK from : from = From(u)
        OBVIOUS
      <4>2. Pending(u) = <<>>
        <5>1. call.done = F.pos
          BY <1>2 DEF FlushDone
        <5>2. Pending(u) = SubSeq(F.buf, 1 + F.pos, F.pos)
          BY <1>1, <2>1, <2>5, <5>1 DEF Pending
        <5> QED
          BY <2>1, <5>2
      <4>3. Seen(u) = View!Opened(Overwrite(disk[u], from, <<>>), from + Len(<<>>))
        BY <1>1, <2>1, <2>5, <3>2, <4>1, <4>2, SeenCases
      <4>4. u \in Streams /\ f'[u].open # 0 /\ f'[u].mode \in {"w", "a"} /\ f'[u].err # 1 /\ disk'[u] = disk[u]
        BY <1>1, <2>1, <2>3, <2>5, <3>2
      <4>5. from = IF f'[u].mode = "a" THEN Len(disk'[u]) ELSE f'[u].off
        BY <2>1, <2>3, <2>5, <4>1, <4>4 DEF From
      <4>6. <<>> = SubSeq(f'[u].buf, 1 + (IF pc' = "flush" /\ user' = u THEN call'.done ELSE 0), f'[u].pos)
        <5>1. 1 + (IF pc' = "flush" /\ user' = u THEN call'.done ELSE 0) = 1
          BY <1>1
        <5> QED
          BY <2>3, <2>5, <5>1
      <4> QED
        BY <4>3, <4>4, <4>5, <4>6, WriterNext
    <3> QED
      BY <2>1, <3>1, <3>2
  <2>7. \A t \in Streams : Seen(t)' = Seen(t)
    BY <2>4, <2>5, <2>6
  <2> QED
    BY <1>1, <2>7, Stutters
<1>3. CASE ~Dirty(user)
  <2>1. f' = f
    BY <1>3 DEF FlushDone
  <2>2. call.done = 0
    <3>1. call.done \in 0..BufSz /\ F.pos \in 0..BufSz /\ BufSz \in Nat
      BY Current, Locals DEF Assumptions
    <3>2. call.done <= F.pos /\ (call.done > 0 => Writes(user)) /\ (Writes(user) => ~(F.pos > 0))
      BY <1>1, <1>3 DEF CallInv, Dirty, F
    <3> QED
      BY <3>1, <3>2
  <2>3. \A t \in Streams : Seen(t)' = Seen(t)
    BY <1>1, <2>1, <2>2, StillSeen
  <2> QED
    BY <1>1, <2>3, Stutters
<1> QED
  BY <1>2, <1>3

\* A part of a part.
LEMMA PartOfPart ==
  ASSUME NEW S, NEW d \in Seq(S), NEW off \in Nat, NEW len \in Nat, NEW p \in Nat, NEW k \in Nat,
         off <= Len(d), len <= off, p + k <= len,
         NEW buf, buf = SubSeq(d, off - len + 1, off)
  PROVE  SubSeq(buf, p + 1, p + k) = SubSeq(d, off - (len - p) + 1, off - (len - p) + k)
<1>1. PICK m, q : m = off - len + 1 /\ q = off - (len - p)
  OBVIOUS
<1>2. m \in 1..(Len(d) + 1) /\ off \in (m - 1)..Len(d) /\ q \in Nat /\ q + k <= off /\ off - m + 1 = len
  BY <1>1
<1>3. buf \in Seq(S) /\ Len(buf) = len /\ \A i \in 1..len : buf[i] = d[m + i - 1]
  BY <1>1, <1>2, PartFacts
<1>4. PICK x, a, b : x = SubSeq(buf, p + 1, p + k) /\ a = p + 1 /\ b = p + k
  OBVIOUS
<1>5. PICK y, c, e : y = SubSeq(d, q + 1, q + k) /\ c = q + 1 /\ e = q + k
  OBVIOUS
<1>6. x \in Seq(S) /\ Len(x) = k /\ \A i \in 1..k : x[i] = buf[p + i]
  <2>1. a \in 1..(Len(buf) + 1) /\ b \in (a - 1)..Len(buf)
    BY <1>3, <1>4
  <2>2. x \in Seq(S) /\ Len(x) = b - a + 1 /\ \A i \in 1..(b - a + 1) : x[i] = buf[a + i - 1]
    BY <1>3, <1>4, <2>1, PartFacts
  <2>3. b - a + 1 = k /\ \A i \in 1..k : a + i - 1 = p + i
    BY <1>4
  <2> QED
    BY <2>2, <2>3
<1>7. y \in Seq(S) /\ Len(y) = k /\ \A i \in 1..k : y[i] = d[q + i]
  <2>1. c \in 1..(Len(d) + 1) /\ e \in (c - 1)..Len(d)
    BY <1>2, <1>5
  <2>2. y \in Seq(S) /\ Len(y) = e - c + 1 /\ \A i \in 1..(e - c + 1) : y[i] = d[c + i - 1]
    BY <1>5, <2>1, PartFacts
  <2>3. e - c + 1 = k /\ \A i \in 1..k : c + i - 1 = q + i
    BY <1>2, <1>5
  <2> QED
    BY <2>2, <2>3
<1>8. \A i \in 1..k : x[i] = y[i]
  <2> TAKE i \in 1..k
  <2>1. p + i \in 1..len /\ m + (p + i) - 1 = q + i
    BY <1>1
  <2>2. buf[p + i] = d[m + (p + i) - 1]
    BY <1>3, <2>1
  <2> QED
    BY <1>6, <1>7, <2>1, <2>2
<1>9. x = y
  BY <1>6, <1>7, <1>8, SeqEqual
<1> QED
  BY <1>1, <1>4, <1>5, <1>9

\* Nothing is promised of a lost stream, whatever the call makes of its buffer.
LEMMA LostStays ==
  ASSUME TypeOK, NEW u, u = user, user' = user, disk' = disk, f[u].open # 0, f'[u].open # 0,
         f[u].mode = "r+" \/ (f[u].mode \in {"w", "a"} /\ f[u].err = 1),
         f'[u].mode = "r+" \/ (f'[u].mode \in {"w", "a"} /\ f'[u].err = 1),
         \A t \in Streams : t # user => f'[t] = f[t]
  PROVE  View!Next
<1>1. u \in Streams
  BY DEF TypeOK, CallRec, user
<1>2. Seen(u) = View!Lost
  BY <1>1, SeenCases
<1>3. Seen(u)' = View!Lost
  BY <1>1, SeenNext
<1>4. \A t \in Streams : t # u => Seen(t)' = Seen(t)
  BY OtherSeen
<1>5. \A t \in Streams : Seen(t)' = Seen(t)
  BY <1>2, <1>3, <1>4
<1>6. View!Mine = View!Lost /\ [s \in Streams |-> Seen(s)]' = [s \in Streams |-> Seen(s)]
  BY <1>1, <1>2, <1>5, ViewOf
<1> QED
  BY <1>6 DEF View!Next, View!Unpromised, View!Lost

\* A stream that is being read.
LEMMA Reading ==
  ASSUME Assumptions, TypeOK, Shapes, CallInv, pc = "read"
  PROVE  /\ user \in Streams /\ user = call.user /\ F \in FileRec /\ F = f[user] /\ F.open = 1
         /\ F.mode \in {"r", "r+"} /\ call \in CallRec /\ disk[user] \in Seq(Bytes) /\ Len(disk[user]) \in Nat
         /\ F.pos \in Nat /\ F.len \in Nat /\ F.off \in Nat /\ F.off <= Len(disk[user])
         /\ F.mode = "r" => /\ F.pos <= F.len /\ F.len <= F.off
                            /\ F.buf = SubSeq(disk[user], F.off - F.len + 1, F.off)
<1>1. F.mode \in {"r", "r+"} /\ F.open = 1
  BY DEF CallInv, Reads, F
<1>2. Shape(F, disk[user]) /\ F.pos \in 0..BufSz /\ F.len \in 0..BufSz /\ BufSz \in Nat
  BY Current DEF Assumptions
<1>3. /\ F.off <= Len(disk[user])
      /\ F.mode = "r" => /\ F.pos <= F.len /\ F.len <= F.off
                         /\ F.buf = SubSeq(disk[user], F.off - F.len + 1, F.off)
  BY <1>2 DEF Shape
<1> QED
  BY <1>1, <1>2, <1>3, Current DEF TypeOK, user

\* What fread hands out are the bytes at the client's position.
LEMMA ReadCopyView ==
  ASSUME Assumptions, TypeOK, Shapes, CallInv, ReadCopy
  PROVE  View!Next
<1>1. PICK k \in 1..call.want :
        /\ F.pos + k <= F.len
        /\ Leaves([F EXCEPT !.pos = F.pos + k])
        /\ SubSeq(F.buf, F.pos + 1, F.pos + k) \in Seq(Bytes)
        /\ call' = [call EXCEPT !.want = call.want - k,
                      !.got = call.got \o SubSeq(F.buf, F.pos + 1, F.pos + k)]
  BY ReadCopyFacts
<1>2. pc = "read" /\ disk' = disk
  BY DEF ReadCopy
<1>3. /\ f'[user] = [F EXCEPT !.pos = F.pos + k]
      /\ \A t \in Streams : t # user => f'[t] = f[t]
  BY <1>1, <1>2, LeavesKeptHere
<1>4. /\ user \in Streams /\ user = call.user /\ F \in FileRec /\ F = f[user] /\ F.open = 1
      /\ F.mode \in {"r", "r+"} /\ call \in CallRec /\ disk[user] \in Seq(Bytes)
      /\ F.pos \in Nat /\ F.len \in Nat /\ F.off \in Nat /\ F.off <= Len(disk[user])
      /\ F.mode = "r" => /\ F.pos <= F.len /\ F.len <= F.off
                         /\ F.buf = SubSeq(disk[user], F.off - F.len + 1, F.off)
  BY <1>2, Reading
<1>5. /\ f'[user].mode = F.mode /\ f'[user].open = 1 /\ f'[user].pos = F.pos + k
      /\ f'[user].len = F.len /\ f'[user].off = F.off
  BY <1>3, <1>4 DEF FileRec
<1>6. /\ call'.user = user /\ call'.todo = call.todo
      /\ call'.got = call.got \o SubSeq(F.buf, F.pos + 1, F.pos + k)
  BY <1>1, <1>4 DEF CallRec
<1>7. user' = user
  BY <1>6 DEF user
<1>u. PICK u : u = user
  OBVIOUS
<1>8. CASE F.mode = "r+"
  <2>1. f[u].open # 0 /\ f'[u].open # 0 /\ f[u].mode = "r+" /\ f'[u].mode = "r+"
    BY <1>4, <1>5, <1>8, <1>u
  <2> QED
    BY <1>2, <1>3, <1>7, <1>u, <2>1, LostStays
<1>9. CASE F.mode = "r"
  <2>1. PICK d, off, len, p, buf :
          d = disk[user] /\ off = F.off /\ len = F.len /\ p = F.pos /\ buf = F.buf
    OBVIOUS
  <2>2. /\ d \in Seq(Bytes) /\ off \in Nat /\ len \in Nat /\ p \in Nat /\ k \in Nat /\ k >= 1
        /\ off <= Len(d) /\ len <= off /\ p + k <= len /\ buf = SubSeq(d, off - len + 1, off)
    BY <1>1, <1>4, <1>9, <2>1, Locals
  <2>3. PICK at : at = off - (len - p)
    OBVIOUS
  <2>4. SubSeq(buf, p + 1, p + k) = SubSeq(d, at + 1, at + k)
    <3>1. SubSeq(buf, p + 1, p + k) = SubSeq(d, off - (len - p) + 1, off - (len - p) + k)
      BY <2>2, PartOfPart
    <3> QED
      BY <2>3, <3>1
  <2>5. Seen(user) = View!Opened(d, at)
    <3>1. f[user].off = off /\ f[user].len = len /\ f[user].pos = p
      BY <1>4, <2>1
    <3>2. user \in Streams /\ f[user].open # 0 /\ f[user].mode = "r" /\ disk[user] = d
      BY <1>4, <1>9, <2>1
    <3>3. Seen(user) = View!Opened(disk[user], f[user].off - (f[user].len - f[user].pos))
      BY <3>2, SeenCases
    <3> QED
      BY <2>3, <3>1, <3>2, <3>3
  <2>6. Seen(u)' = View!Opened(d, at + k)
    <3>1. u \in Streams /\ f'[u].open # 0 /\ f'[u].mode = "r" /\ disk'[u] = d
      BY <1>2, <1>4, <1>5, <1>9, <1>u, <2>1
    <3>2. f'[u].off - (f'[u].len - f'[u].pos) = at + k
      <4>1. f'[u].off = off /\ f'[u].len = len /\ f'[u].pos = p + k
        BY <1>5, <1>u, <2>1
      <4>2. off - (len - (p + k)) = at + k
        BY <2>2, <2>3
      <4> QED
        BY <4>1, <4>2
    <3>3. Seen(u)' = View!Opened(disk'[u], f'[u].off - (f'[u].len - f'[u].pos))
      BY <3>1, SeenNext
    <3> QED
      BY <3>1, <3>2, <3>3
  <2>7. \A t \in Streams : t # u => Seen(t)' = Seen(t)
    BY <1>2, <1>3, <1>7, <1>u, OtherSeen
  <2>8. View!Becomes(View!Opened(d, at + k))
    BY <1>4, <1>u, <2>6, <2>7, ViewOf
  <2>9. View!Mine = View!Opened(d, at)
    BY <1>4, <2>5, ViewOf
  <2>10. /\ View!Mine.state = "open" /\ View!Mine.content = d /\ View!Mine.at = at
         /\ [View!Mine EXCEPT !.at = View!Mine.at + k] = View!Opened(d, at + k)
    BY <2>9 DEF View!Opened
  <2>11. k \in 1..(Len(View!Mine.content) - View!Mine.at)
    BY <2>2, <2>3, <2>10
  <2>12. call'.got = call.got \o SubSeq(View!Mine.content, View!Mine.at + 1, View!Mine.at + k)
    BY <1>6, <2>1, <2>4, <2>10
  <2>13. View!Becomes([View!Mine EXCEPT !.at = View!Mine.at + k])
    BY <2>8, <2>10
  <2>14. View!Read
    BY <1>6, <1>7, <2>10, <2>11, <2>12, <2>13 DEF View!Read
  <2> QED
    BY <2>14 DEF View!Next
<1> QED
  BY <1>4, <1>8, <1>9

\* Reading ahead does not move the client.
LEMMA ReadRefillView ==
  ASSUME Assumptions, TypeOK, Shapes, CallInv, ReadRefill
  PROVE  UNCHANGED View!vars
<1>0. PICK n \in 1..BufSz :
        Leaves([F EXCEPT !.pos = 0, !.len = n, !.off = F.off + n,
                  !.buf = SubSeq(disk[user], F.off + 1, F.off + n)])
  BY ReadRefillFacts, Zenon
<1>a. PICK data : data = SubSeq(disk[user], F.off + 1, F.off + n)
  OBVIOUS
<1>1. Leaves([F EXCEPT !.pos = 0, !.len = n, !.off = F.off + n, !.buf = data])
  BY <1>0, <1>a
<1>2. pc = "read" /\ disk' = disk /\ call' = call /\ F.pos >= F.len
  BY DEF ReadRefill
<1>3. /\ f'[user] = [F EXCEPT !.pos = 0, !.len = n, !.off = F.off + n, !.buf = data]
      /\ \A t \in Streams : t # user => f'[t] = f[t]
  BY <1>1, <1>2, LeavesKeptHere
<1>4. /\ user \in Streams /\ F \in FileRec /\ F = f[user] /\ F.open = 1
      /\ F.mode \in {"r", "r+"}
      /\ F.pos \in Nat /\ F.len \in Nat /\ F.off \in Nat
      /\ F.mode = "r" => F.pos <= F.len
  BY <1>2, Reading
<1>5. /\ f'[user].mode = F.mode /\ f'[user].open = 1 /\ f'[user].pos = 0
      /\ f'[user].len = n /\ f'[user].off = F.off + n
  BY <1>3, <1>4 DEF FileRec
<1>6. user' = user
  BY <1>2 DEF user
<1>u. PICK u : u = user
  OBVIOUS
<1>7. Seen(u)' = Seen(u)
  <2>1. CASE F.mode = "r+"
    <3>1. u \in Streams /\ f[u].open # 0 /\ f'[u].open # 0 /\ f[u].mode = "r+" /\ f'[u].mode = "r+"
      BY <1>4, <1>5, <1>u, <2>1
    <3> QED
      BY <3>1, SeenCases, SeenNext
  <2>2. CASE F.mode = "r"
    <3>1. /\ u \in Streams /\ f[u].open # 0 /\ f'[u].open # 0 /\ f[u].mode = "r" /\ f'[u].mode = "r"
          /\ disk'[u] = disk[u]
      BY <1>2, <1>4, <1>5, <1>u, <2>2
    <3>2. f'[u].off - (f'[u].len - f'[u].pos) = f[u].off - (f[u].len - f[u].pos)
      BY <1>2, <1>4, <1>5, <1>u, <2>2
    <3>3. /\ Seen(u) = View!Opened(disk[u], f[u].off - (f[u].len - f[u].pos))
          /\ Seen(u)' = View!Opened(disk'[u], f'[u].off - (f'[u].len - f'[u].pos))
      BY <3>1, SeenCases, SeenNext
    <3> QED
      BY <3>1, <3>2, <3>3
  <2> QED
    BY <1>4, <2>1, <2>2
<1>8. \A t \in Streams : t # user => Seen(t)' = Seen(t)
  BY <1>2, <1>3, <1>6, OtherSeen
<1>9. \A t \in Streams : Seen(t)' = Seen(t)
  BY <1>7, <1>8, <1>u
<1> QED
  BY <1>2, <1>4, <1>6, <1>9, Stutters

\* The end of the file, or an error, is no news of the file.
LEMMA ReadEndsView ==
  ASSUME Assumptions, TypeOK, Shapes, CallInv, ReadEnds
  PROVE  UNCHANGED View!vars
<1>1. pc = "read" /\ disk' = disk /\ call' = call
  BY DEF ReadEnds, Goto
<1>2. /\ user \in Streams /\ F \in FileRec /\ F = f[user] /\ F.open = 1 /\ F.mode \in {"r", "r+"}
  BY <1>1, Reading
<1>3. PICK g : (g = [F EXCEPT !.eof = 1] \/ g = [F EXCEPT !.err = 1]) /\ Leaves(g)
  BY ReadEndsFacts
<1>4. f'[user] = g /\ \A t \in Streams : t # user => f'[t] = f[t]
  BY <1>1, <1>3, LeavesKeptHere
<1>5. /\ f'[user].mode = F.mode /\ f'[user].open = 1 /\ f'[user].pos = F.pos
      /\ f'[user].len = F.len /\ f'[user].off = F.off
  BY <1>2, <1>3, <1>4 DEF FileRec
<1>6. user' = user
  BY <1>1 DEF user
<1>u. PICK u : u = user
  OBVIOUS
<1>7. Seen(u)' = Seen(u)
  <2>1. /\ u \in Streams /\ f[u].open # 0 /\ f'[u].open # 0 /\ f[u].mode \in {"r", "r+"} /\ f'[u].mode = f[u].mode
        /\ disk'[u] = disk[u]
        /\ f'[u].off - (f'[u].len - f'[u].pos) = f[u].off - (f[u].len - f[u].pos)
    BY <1>1, <1>2, <1>5, <1>u
  <2> QED
    BY <2>1, SeenCases, SeenNext
<1>8. \A t \in Streams : t # user => Seen(t)' = Seen(t)
  BY <1>1, <1>4, <1>6, OtherSeen
<1>9. \A t \in Streams : Seen(t)' = Seen(t)
  BY <1>7, <1>8, <1>u
<1> QED
  BY <1>1, <1>2, <1>6, <1>9, Stutters

\* A seek moves the client, and changes nothing of what it sees there.
LEMMA SeekDoView ==
  ASSUME Assumptions, TypeOK, Shapes, CallInv, SeekDo
  PROVE  View!Next
<1>1. /\ pc = "seek" /\ disk' = disk /\ call' = call /\ pc' = "return"
      /\ F.open = 1 /\ (Writes(user) => F.pos = 0 \/ F.err = 1) /\ call.done = 0
  BY DEF SeekDo, Goto, CallInv
<1>2. PICK to \in 0..Len(disk[user]) : Leaves(Sought(to))
  BY SeekDoFacts
<1>3. f'[user] = Sought(to) /\ \A t \in Streams : t # user => f'[t] = f[t]
  BY <1>1, <1>2, LeavesKeptHere
<1>4. /\ user \in Streams /\ F \in FileRec /\ F = f[user] /\ F.mode \in {"r", "w", "a", "r+"}
      /\ disk[user] \in Seq(Bytes) /\ Len(disk[user]) \in Nat /\ F.off \in Nat /\ F.buf \in Seq(Bytes)
      /\ Shape(F, disk[user])
  BY Current
<1>5. /\ f'[user].mode = F.mode /\ f'[user].open = 1 /\ f'[user].err = F.err /\ f'[user].pos = 0
      /\ f'[user].len = 0 /\ f'[user].off = to /\ f'[user].buf = <<>>
  BY <1>1, <1>3, <1>4 DEF Sought, FileRec
<1>6. user' = user
  BY <1>1 DEF user
<1>u. PICK u, d : u = user /\ d = disk[user]
  OBVIOUS
<1>7. \A t \in Streams : t # u => Seen(t)' = Seen(t)
  BY <1>1, <1>3, <1>6, <1>u, OtherSeen
<1>8. ASSUME NEW from \in 0..Len(d), NEW at \in 0..Len(d),
             Seen(u) = View!Opened(d, from), Seen(u)' = View!Opened(d, at)
      PROVE  View!Next
  <2>1. View!Becomes(View!Opened(d, at)) /\ View!Mine = View!Opened(d, from)
    BY <1>4, <1>7, <1>8, <1>u, ViewOf
  <2>2. /\ View!Mine.state = "open" /\ View!Mine.content = d
        /\ [View!Mine EXCEPT !.at = at] = View!Opened(d, at)
    BY <2>1 DEF View!Opened
  <2>3. ([s \in Streams |-> Seen(s)]')[u].at = at
    BY <1>4, <1>8, <1>u DEF View!Opened
  <2>4. View!Seek
    BY <1>1, <1>6, <1>u, <2>1, <2>2, <2>3 DEF View!Seek
  <2> QED
    BY <2>4 DEF View!Next
<1>9. CASE F.mode = "r+" \/ (F.mode \in {"w", "a"} /\ F.err = 1)
  <2>1. /\ f[u].open # 0 /\ f'[u].open # 0
        /\ f[u].mode = "r+" \/ (f[u].mode \in {"w", "a"} /\ f[u].err = 1)
        /\ f'[u].mode = "r+" \/ (f'[u].mode \in {"w", "a"} /\ f'[u].err = 1)
    BY <1>1, <1>4, <1>5, <1>9, <1>u
  <2> QED
    BY <1>1, <1>3, <1>6, <1>u, <2>1, LostStays
<1>10. CASE F.mode = "r"
  <2>1. /\ u \in Streams /\ f[u].open # 0 /\ f'[u].open # 0 /\ f[u].mode = "r" /\ f'[u].mode = "r"
        /\ disk[u] = d /\ disk'[u] = d
    BY <1>1, <1>4, <1>5, <1>10, <1>u
  <2>2. f'[u].off - (f'[u].len - f'[u].pos) = to /\ to \in 0..Len(d)
    BY <1>5, <1>u
  <2>3. f[u].off - (f[u].len - f[u].pos) \in 0..Len(d)
    <3>1. F.pos \in 0..BufSz /\ F.len \in 0..BufSz /\ BufSz \in Nat
      BY Current DEF Assumptions
    <3>2. F.pos <= F.len /\ F.len <= F.off /\ F.off <= Len(disk[user])
      BY <1>4, <1>10 DEF Shape
    <3>3. F.off - (F.len - F.pos) \in 0..Len(disk[user])
      BY <1>4, <3>1, <3>2
    <3> QED
      BY <1>4, <1>u, <3>3
  <2>4. Seen(u) = View!Opened(d, f[u].off - (f[u].len - f[u].pos)) /\ Seen(u)' = View!Opened(d, to)
    BY <2>1, <2>2, SeenCases, SeenNext
  <2> QED
    BY <1>8, <2>2, <2>3, <2>4
<1>11. CASE F.mode \in {"w", "a"} /\ F.err # 1
  <2>1. F.pos = 0
    BY <1>1, <1>11 DEF Writes, F
  <2>2. PICK from, at : from = From(u) /\ at = IF F.mode = "a" THEN Len(d) ELSE to
    OBVIOUS
  <2>3. from \in 0..Len(d) /\ at \in 0..Len(d)
    <3>1. F.off <= Len(disk[user])
      BY <1>4 DEF Shape
    <3> QED
      BY <1>4, <1>u, <2>2, <3>1 DEF From
  <2>4. d \in Seq(Bytes) /\ Len(<<>>) = 0
    BY <1>4, <1>u
  <2>5. \A n \in 0..Len(d) : Overwrite(d, n, <<>>) = d /\ n + Len(<<>>) = n
    BY <2>4, OverwriteSimple
  <2>6. Pending(u) = <<>>
    BY <1>1, <1>4, <1>u, <2>1 DEF Pending
  <2>7. Seen(u) = View!Opened(d, from)
    <3>1. Seen(u) = View!Opened(Overwrite(d, from, <<>>), from + Len(<<>>))
      BY <1>1, <1>4, <1>11, <1>u, <2>2, <2>6, SeenCases
    <3> QED
      BY <2>3, <2>5, <3>1
  <2>8. Seen(u)' = View!Opened(d, at)
    <3>1. /\ u \in Streams /\ f'[u].open # 0 /\ f'[u].mode \in {"w", "a"} /\ f'[u].err # 1 /\ disk'[u] = d
          /\ at = IF f'[u].mode = "a" THEN Len(disk'[u]) ELSE f'[u].off
      BY <1>1, <1>4, <1>5, <1>11, <1>u, <2>2
    <3>2. <<>> = SubSeq(f'[u].buf, 1 + (IF pc' = "flush" /\ user' = u THEN call'.done ELSE 0), f'[u].pos)
      BY <1>1, <1>5, <1>u
    <3>3. Seen(u)' = View!Opened(Overwrite(disk'[u], at, <<>>), at + Len(<<>>))
      BY <3>1, <3>2, WriterNext
    <3> QED
      BY <2>3, <2>5, <3>1, <3>3
  <2> QED
    BY <1>8, <2>3, <2>7, <2>8
<1> QED
  BY <1>4, <1>9, <1>10, <1>11

\* fclose closes.
LEMMA CloseDoView ==
  ASSUME Assumptions, TypeOK, Shapes, CallInv, CloseDo
  PROVE  View!Next
<1>1. disk' = disk /\ call' = call /\ user' = user
  BY DEF CloseDo, Goto, user
<1>2. f'[user] = Shut /\ \A t \in Streams : t # user => f'[t] = f[t]
  BY <1>1, CloseDoFacts, LeavesKeptHere
<1>3. PICK u : u = user
  OBVIOUS
<1>4. u \in Streams /\ f'[u].open = 0
  BY <1>2, <1>3, Current DEF Shut, Fresh
<1>5. Seen(u)' = View!Closed
  BY <1>4, SeenNext
<1>6. \A t \in Streams : t # u => Seen(t)' = Seen(t)
  BY <1>1, <1>2, <1>3, OtherSeen
<1>7. View!Becomes(View!Closed)
  BY <1>3, <1>4, <1>5, <1>6, ViewOf
<1> QED
  BY <1>1, <1>7 DEF View!Next, View!Close

\* fopen opens a closed stream, at one end of its file.
LEMMA FopenView ==
  ASSUME Assumptions, TypeOK, Shapes, CallInv, NEW s \in Streams, NEW m \in Modes, Fopen(s, m)
  PROVE  View!Next
<1>1. /\ f[s].open = 0 /\ f' = [f EXCEPT ![s] = Fresh(m)] /\ call' = call /\ pc' = pc /\ pc # "flush"
      /\ disk' = IF m = "w" THEN [disk EXCEPT ![s] = <<>>] ELSE disk
      /\ m \in {"r", "w", "a", "r+"}
  BY DEF Fopen, ClientRuns, Assumptions
<1>2. user' = user
  BY <1>1 DEF user
<1>3. /\ f'[s] = Fresh(m) /\ disk'[s] = IF m = "w" THEN <<>> ELSE disk[s]
      /\ \A t \in Streams : t # s => f'[t] = f[t] /\ disk'[t] = disk[t]
  BY <1>1 DEF TypeOK
<1>4. /\ f'[s].open = 1 /\ f'[s].mode = m /\ f'[s].err = 0 /\ f'[s].pos = 0 /\ f'[s].len = 0
      /\ f'[s].off = 0 /\ f'[s].buf = <<>>
  BY <1>3 DEF Fresh
<1>5. ASSUME NEW t \in Streams, t # s
      PROVE  Seen(t)' = Seen(t)
  BY <1>1, <1>2, <1>3, <1>5 DEF Seen, Pending, Writes, From
<1>6. Seen(s) = View!Closed
  BY <1>1, SeenCases
<1>7. PICK d : d = disk'[s]
  OBVIOUS
<1>8. d \in Seq(Bytes) /\ Len(d) \in Nat
  <2>1. disk[s] \in Seq(Bytes) /\ <<>> \in Seq(Bytes)
    BY DEF TypeOK
  <2> QED
    BY <1>3, <1>7, <2>1
<1>9. Seen(s)' = View!Lost \/ \E at \in {0, Len(d)} : Seen(s)' = View!Opened(d, at)
  <2>1. CASE m = "r+"
    BY <1>4, <2>1, SeenNext
  <2>2. CASE m = "r"
    <3>1. Seen(s)' = View!Opened(disk'[s], f'[s].off - (f'[s].len - f'[s].pos))
      BY <1>4, <2>2, SeenNext
    <3>2. f'[s].off - (f'[s].len - f'[s].pos) = 0
      BY <1>4
    <3> QED
      BY <1>7, <3>1, <3>2
  <2>3. CASE m \in {"w", "a"}
    <3>1. PICK at : at = IF f'[s].mode = "a" THEN Len(disk'[s]) ELSE f'[s].off
      OBVIOUS
    <3>2. at \in {0, Len(d)} /\ at \in 0..Len(d)
      BY <1>4, <1>7, <1>8, <3>1
    <3>3. <<>> = SubSeq(f'[s].buf, 1 + (IF pc' = "flush" /\ user' = s THEN call'.done ELSE 0), f'[s].pos)
      BY <1>1, <1>4
    <3>4. Seen(s)' = View!Opened(Overwrite(disk'[s], at, <<>>), at + Len(<<>>))
      <4>1. f'[s].open # 0 /\ f'[s].mode \in {"w", "a"} /\ f'[s].err # 1
        BY <1>4, <2>3
      <4>2. PICK p : p = <<>>
        OBVIOUS
      <4>3. p = SubSeq(f'[s].buf, 1 + (IF pc' = "flush" /\ user' = s THEN call'.done ELSE 0), f'[s].pos)
        BY <3>3, <4>2
      <4>4. Seen(s)' = View!Opened(Overwrite(disk'[s], at, p), at + Len(p))
        BY <3>1, <4>1, <4>3, WriterNext
      <4> QED
        BY <4>2, <4>4
    <3>5. Overwrite(d, at, <<>>) = d
      BY <1>8, <3>2, OverwriteSimple
    <3>6. at + Len(<<>>) = at
      BY <1>8, <3>2
    <3>7. Seen(s)' = View!Opened(d, at)
      BY <1>7, <3>4, <3>5, <3>6
    <3> QED
      BY <3>2, <3>7
  <2> QED
    BY <1>1, <2>1, <2>2, <2>3
<1>10. PICK v : v = Seen(s)'
  OBVIOUS
<1>11. v = View!Lost \/ (v.state = "open" /\ v.at \in {0, Len(v.content)})
  BY <1>9, <1>10 DEF View!Opened
<1>12. /\ [t \in Streams |-> Seen(t)]' = [[t \in Streams |-> Seen(t)] EXCEPT ![s] = v]
       /\ ([t \in Streams |-> Seen(t)]')[s] = v
       /\ [t \in Streams |-> Seen(t)][s] = View!Closed
  BY <1>5, <1>6, <1>10
<1>13. View!Open
  BY <1>1, <1>2, <1>11, <1>12 DEF View!Open
<1> QED
  BY <1>13 DEF View!Next

\* A call begins, or ends, without touching a stream.
LEMMA BeginView ==
  ASSUME TypeOK, TypeOK', f' = f, disk' = disk, call'.got = <<>>,
         pc # "flush" \/ call.done = 0, pc' # "flush" \/ call'.done = 0
  PROVE  View!Next
<1>1. user' \in Streams /\ user \in Streams /\ call'.todo \in Seq(Bytes)
  BY DEF TypeOK, CallRec, user
<1>2. \A s \in Streams : Seen(s)' = Seen(s)
  BY StillSeen
<1>3. [s \in Streams |-> Seen(s)]' = [s \in Streams |-> Seen(s)]
  BY <1>1, <1>2, ViewOf
<1>4. View!Begin
  BY <1>1, <1>3 DEF View!Begin
<1> QED
  BY <1>4 DEF View!Next

\* A step of a call that touches no stream.
LEMMA StepAside ==
  ASSUME TypeOK, f' = f, disk' = disk, user' = user, call'.todo = call.todo, call'.got = call.got,
         pc # "flush" \/ call.done = 0, pc' # "flush" \/ call'.done = 0
  PROVE  UNCHANGED View!vars
<1>1. user \in Streams
  BY DEF TypeOK, CallRec, user
<1>2. \A s \in Streams : Seen(s)' = Seen(s)
  BY StillSeen
<1> QED
  BY <1>1, <1>2, Stutters

\* What clients do, as they see it.
LEMMA ClientView ==
  ASSUME Assumptions, TypeOK, TypeOK', Shapes, CallInv, ClientCall
  PROVE  [View!Next]_View!vars
<1>1. ASSUME NEW s \in Streams, NEW m \in Modes, Fopen(s, m) PROVE View!Next
  BY <1>1, FopenView
<1>3. ASSUME NEW s \in Streams, NEW data \in Inputs, NEW single \in BOOLEAN, Fwrite(s, data, single)
      PROVE  View!Next
  <2>1. call'.got = <<>> /\ call'.done = 0 /\ f' = f /\ disk' = disk /\ pc # "flush"
    BY <1>3 DEF Fwrite, Begin, NoCall, ClientRuns
  <2> QED
    BY <2>1, BeginView
<1>4. ASSUME NEW s \in Streams, NEW n \in 1..(BufSz + 1), Fread(s, n)
      PROVE  View!Next
  <2>1. call'.got = <<>> /\ call'.done = 0 /\ f' = f /\ disk' = disk /\ pc # "flush"
    BY <1>4 DEF Fread, Begin, NoCall, ClientRuns
  <2> QED
    BY <2>1, BeginView
<1>5. ASSUME NEW s \in Streams, NEW w \in {"SET", "CUR", "END"}, NEW k \in {-1, 0, 1}, Fseek(s, w, k)
      PROVE  View!Next
  <2>1. call'.got = <<>> /\ call'.done = 0 /\ f' = f /\ disk' = disk /\ pc # "flush"
    BY <1>5 DEF Fseek, Begin, NoCall, ClientRuns
  <2> QED
    BY <2>1, BeginView
<1>6. ASSUME NEW s \in Streams, Fflush(s) \/ Fclose(s)
      PROVE  View!Next
  <2>1. call'.got = <<>> /\ call'.done = 0 /\ f' = f /\ disk' = disk /\ pc # "flush"
    <3>1. CASE Fflush(s)
      BY <3>1 DEF Fflush, Begin, NoCall, ClientRuns
    <3>2. CASE Fclose(s)
      BY <3>2 DEF Fclose, Begin, NoCall, ClientRuns
    <3> QED
      BY <1>6, <3>1, <3>2
  <2> QED
    BY <2>1, BeginView
<1>7. CASE FflushAll
  <2>1. call'.got = <<>> /\ call'.done = 0 /\ f' = f /\ disk' = disk /\ pc # "flush"
    BY <1>7 DEF FflushAll, Begin, NoCall, ClientRuns
  <2> QED
    BY <2>1, BeginView
<1>8. CASE Atexit \/ Exit \/ HandlerReturns
  <2>1. f' = f /\ disk' = disk /\ call' = call /\ pc # "flush" /\ pc' # "flush"
    BY <1>8 DEF Atexit, Exit, HandlerReturns, Goto, ClientRuns
  <2>2. user' = user
    BY <2>1 DEF user
  <2> QED
    BY <2>1, <2>2, StepAside
<1> QED
  BY <1>1, <1>3, <1>4, <1>5, <1>6, <1>7, <1>8 DEF ClientCall

\* What the library does, as the client sees it.
LEMMA StepView ==
  ASSUME Assumptions, TypeOK, TypeOK', Shapes, CallInv, Step
  PROVE  [View!Next]_View!vars
<1>0. call \in CallRec
  BY DEF TypeOK
<1>1. CASE WriteCopy \/ FlushWrite \/ FlushFails \/ ReadCopy \/ SeekDo \/ CloseDo
  BY <1>1, WriteCopyView, FlushWriteView, FlushFailsView, ReadCopyView, SeekDoView, CloseDoView
<1>2. CASE FlushDone \/ ReadRefill \/ ReadEnds
  BY <1>2, FlushDoneView, ReadRefillView, ReadEndsView
<1>3. CASE WriteFull \/ WriteDone
  <2>1. /\ f' = f /\ disk' = disk /\ call'.todo = call.todo /\ call'.got = call.got /\ pc = "write"
        /\ call'.user = call.user /\ call'.done = call.done
    BY <1>0, <1>3 DEF WriteFull, WriteDone, CallRec
  <2>2. call.done = 0 /\ user' = user
    BY <2>1 DEF CallInv, user
  <2> QED
    BY <2>1, <2>2, StepAside
<1>4. CASE ReadDone \/ RunHandler \/ FlushAllDone
  <2>1. f' = f /\ disk' = disk /\ call' = call /\ pc # "flush" /\ pc' # "flush"
    BY <1>4 DEF ReadDone, RunHandler, FlushAllDone, Goto
  <2>2. user' = user
    BY <2>1 DEF user
  <2> QED
    BY <2>1, <2>2, StepAside
<1>5. CASE Return \/ LastFlush
  <2>1. call'.got = <<>> /\ call'.done = 0 /\ f' = f /\ disk' = disk /\ pc # "flush"
    <3>1. CASE Return
      BY <3>1 DEF Return, NoCall
    <3>2. CASE LastFlush
      BY <3>2 DEF LastFlush, FlushThenExit, NoCall
    <3> QED
      BY <1>5, <3>1, <3>2
  <2> QED
    BY <2>1, BeginView
<1>6. CASE FlushNext
  <2>1. /\ call'.got = call.got /\ call'.done = call.done /\ f' = f /\ disk' = disk /\ pc = "flushall"
    BY <1>0, <1>6 DEF FlushNext, CallRec
  <2>2. call.done = 0 /\ call.got = <<>>
    BY <2>1 DEF CallInv
  <2> QED
    BY <2>1, <2>2, BeginView
<1> QED
  BY <1>1, <1>2, <1>3, <1>4, <1>5, <1>6 DEF Step

\* What a process starts with.
LEMMA InitView ==
  ASSUME Assumptions, Init
  PROVE  View!Init
<1>1. NoCall \in CallRec
  BY NoCallTyped
<1>2. user \in Streams /\ call.todo = <<>> /\ call.got = <<>>
  BY <1>1, NoCallFields DEF Init, user, CallRec
<1>3. ASSUME NEW s \in Streams PROVE Seen(s) \in {View!Closed, View!Opened(<<>>, 0)}
  <2>1. CASE IsStd(s)
    <3>1. f[s] = Fresh("w") /\ disk[s] = <<>>
      BY <2>1 DEF Init
    <3>2. f[s].open = 1 /\ f[s].mode = "w" /\ f[s].err = 0 /\ f[s].buf = <<>> /\ f[s].pos = 0 /\ f[s].off = 0
      BY <3>1 DEF Fresh
    <3>3. From(s) = 0 /\ Pending(s) = <<>> /\ Len(<<>>) = 0
      BY <3>2 DEF From, Pending, Init
    <3>4. <<>> \in Seq(Bytes) /\ 0 \in 0..Len(<<>>)
      OBVIOUS
    <3>5. Overwrite(<<>>, 0, <<>>) = <<>>
      BY <3>4, OverwriteSimple
    <3>6. Seen(s) = View!Opened(Overwrite(disk[s], From(s), Pending(s)), From(s) + Len(Pending(s)))
      BY <3>2, SeenCases
    <3>7. Seen(s) = View!Opened(<<>>, 0)
      <4>1. From(s) + Len(Pending(s)) = 0
        BY <3>3
      <4> QED
        BY <3>1, <3>3, <3>5, <3>6, <4>1
    <3> QED
      BY <3>7
  <2>2. CASE ~IsStd(s)
    <3>1. f[s].open = 0
      BY <2>2 DEF Init, Shut, Fresh
    <3> QED
      BY <3>1, SeenCases
  <2> QED
    BY <2>1, <2>2
<1>4. [s \in Streams |-> Seen(s)] \in [Streams -> {View!Closed, View!Opened(<<>>, 0)}]
  BY <1>3
<1> QED
  BY <1>2, <1>4 DEF View!Init

\* A process whose streams are buffered does nothing that one with plain files
\* could not do: what waits in a buffer, what was read ahead and the order in which
\* it reaches the disk are invisible to the client, for streams that only read or
\* only write.
THEOREM StdioImplementsViewHolds ==
  ASSUME Assumptions
  PROVE  Spec => StdioImplementsView
<1>1. Init => View!Init
  BY InitView
<1>2. IInv /\ IInv' /\ [Next]_vars => [View!Next]_View!vars
  <2> SUFFICES ASSUME IInv, IInv', [Next]_vars
               PROVE  [View!Next]_View!vars
    OBVIOUS
  <2>1. TypeOK /\ TypeOK' /\ Shapes /\ CallInv
    BY DEF IInv
  <2>2. CASE Next
    BY <2>1, <2>2, ClientView, StepView DEF Next
  <2>3. CASE UNCHANGED vars
    <3>1. f' = f /\ disk' = disk /\ call' = call /\ pc' = pc
      BY <2>3 DEF vars
    <3>2. user' = user /\ user \in Streams
      BY <2>1, <3>1, Current DEF user
    <3>3. \A s \in Streams : Seen(s)' = Seen(s)
      BY <3>1 DEF Seen, Pending, From, Writes, user
    <3> QED
      BY <3>1, <3>2, <3>3, Stutters
  <2> QED
    BY <2>2, <2>3
<1> QED
  BY <1>1, <1>2, StdioInvariant, PTL DEF Spec, StdioImplementsView, View!Spec
=============================================================================
