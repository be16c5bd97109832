-------------------------- MODULE ToolshPromptProofs --------------------------
(***************************************************************************)
(* Theorems about ToolshPrompt for any characters, any size of the buffer  *)
(* and any number of remembered commands: after any mix of keys the        *)
(* buffer holds a string of the length that len says, what is left with    *)
(* Up comes back with Down, and the buffer and the ring implement the text *)
(* and the list of commands of PromptView.                                 *)
(***************************************************************************)
EXTENDS ToolshPrompt, SequenceTheorems, WellFoundedInduction, TLAPS

-----------------------------------------------------------------------------
(* Numbers: a nonempty set has a least one, and a bounded one a greatest. *)

Less == {p \in Nat \X Nat : p[1] < p[2]}

\* The order of the natural numbers is well-founded.
LEMMA LessIsWellFounded == IsWellFoundedOn(Less, Nat)
<1>1. IsWellFoundedOn(OpToRel(<, Nat), Nat)
  BY NatLessThanWellFounded, Zenon
<1> QED
  BY <1>1, Zenon DEF OpToRel, Less

\* A nonempty set of natural numbers has a least element.
LEMMA LeastExists ==
  ASSUME NEW T \in SUBSET Nat, T # {}
  PROVE  \E m \in T : \A k \in T : m <= k
<1>1. PICK m \in T : \A k \in T : ~ (<<k, m>> \in Less)
  BY LessIsWellFounded, WFMin, Zenon
<1>2. \A k \in T : ~(k < m)
  BY <1>1 DEF Less
<1> QED
  BY <1>2

\* A nonempty set of numbers up to n has a greatest element.
LEMMA GreatestExists ==
  ASSUME NEW n \in Nat, NEW T \in SUBSET (0..n), T # {}
  PROVE  \E m \in T : \A k \in T : k <= m
<1>1. PICK U : U = {n - k : k \in T}
  OBVIOUS
<1>2. \A u \in U : u \in Nat
  <2> SUFFICES ASSUME NEW u \in U PROVE u \in Nat
    OBVIOUS
  <2>1. PICK k \in T : u = n - k
    BY <1>1
  <2>2. k \in 0..n
    OBVIOUS
  <2> QED
    BY <2>1, <2>2
<1>3. PICK t \in T : TRUE
  OBVIOUS
<1>4. n - t \in U
  BY <1>1
<1>5. PICK u \in U : \A v \in U : u <= v
  BY <1>2, <1>4, LeastExists
<1>6. PICK m \in T : u = n - m
  BY <1>1
<1>7. \A k \in T : n - k \in U
  BY <1>1
<1>8. \A k \in T : n - m <= n - k
  BY <1>5, <1>6, <1>7
<1> QED
  BY <1>8

\* A number below twice the modulus is reduced by at most one subtraction.
LEMMA ModTwice ==
  ASSUME NEW h \in Nat \ {0}, NEW a \in Nat, a < 2 * h
  PROVE  a % h = IF a < h THEN a ELSE a - h
OBVIOUS

-----------------------------------------------------------------------------
(* Strings, and the buffers that hold them *)

\* A text is a sequence of characters that leaves two cells of the buffer.
LEMMA TextsAre ==
  ASSUME PromptAssumptions
  PROVE  \A s : s \in Texts <=> s \in Seq(Chars) /\ Len(s) <= Size - 2
<1>1. Size \in Nat /\ Size > 2
  BY DEF PromptAssumptions
<1>2. ASSUME NEW s \in Texts PROVE s \in Seq(Chars) /\ Len(s) <= Size - 2
  <2>1. PICK n \in 0..(Size - 2) : s \in [1..n -> Chars]
    BY DEF Texts
  <2> QED
    BY <1>1, <2>1
<1>3. ASSUME NEW s \in Seq(Chars), Len(s) <= Size - 2 PROVE s \in Texts
  <2>1. s \in [1..Len(s) -> Chars] /\ Len(s) \in 0..(Size - 2)
    BY <1>1, <1>3
  <2> QED
    BY <2>1 DEF Texts
<1> QED
  BY <1>2, <1>3

\* A buffer holds the characters before its first NUL.
LEMMA StringIs ==
  ASSUME NEW b, NEW n \in Cells, b[n] = NUL, \A j \in 0..(n - 1) : b[j] # NUL, Size \in Nat
  PROVE  String(b) = [i \in 1..n |-> b[i - 1]]
<1>1. \A m \in Cells : b[m] = NUL /\ (\A j \in 0..(m - 1) : b[j] # NUL) => m = n
  BY DEF Cells
<1>2. n = CHOOSE i \in Cells : b[i] = NUL /\ \A j \in 0..(i - 1) : b[j] # NUL
  BY <1>1
<1> QED
  BY <1>2 DEF String

\* The string in a buffer whose first n cells are characters, and the next NUL.
LEMMA StringOf ==
  ASSUME PromptAssumptions, NEW b, NEW n \in 0..(Size - 2), b[n] = NUL, \A i \in 0..(n - 1) : b[i] \in Chars
  PROVE  /\ String(b) \in Texts /\ String(b) \in Seq(Chars)
         /\ Len(String(b)) = n
         /\ \A i \in 1..n : String(b)[i] = b[i - 1]
<1>1. Size \in Nat /\ Size > 2 /\ NUL \notin Chars
  BY DEF PromptAssumptions
<1>2. n \in Cells /\ \A j \in 0..(n - 1) : b[j] # NUL
  BY <1>1 DEF Cells
<1>3. String(b) = [i \in 1..n |-> b[i - 1]]
  BY <1>1, <1>2, StringIs
<1>4. \A i \in 1..n : b[i - 1] \in Chars
  BY <1>1
<1>5. String(b) \in [1..n -> Chars]
  BY <1>3, <1>4
<1>6. String(b) \in Texts
  BY <1>5 DEF Texts
<1> QED
  BY <1>1, <1>3, <1>5, <1>6, TextsAre

\* A buffer that is filled with a text holds it.
LEMMA BufferHolds ==
  ASSUME PromptAssumptions, NEW s \in Texts
  PROVE  /\ Buffer(s) \in [Cells -> Chars \cup {NUL}]
         /\ Buffer(s)[Len(s)] = NUL
         /\ \A i \in 0..(Len(s) - 1) : Buffer(s)[i] \in Chars
         /\ String(Buffer(s)) = s
<1>0. Size \in Nat /\ Size > 2
  BY DEF PromptAssumptions
<1>1. /\ Size \in Nat /\ Size > 2
      /\ s \in Seq(Chars) /\ Len(s) \in 0..(Size - 2)
  BY <1>0, TextsAre
<1>2. PICK b : b = Buffer(s)
  OBVIOUS
<1>3. b = [i \in Cells |-> IF i < Len(s) THEN s[i + 1] ELSE NUL]
  BY <1>2 DEF Buffer
<1>4. \A i \in Cells : i < Len(s) => s[i + 1] \in Chars
  BY <1>1 DEF Cells
<1>5. b \in [Cells -> Chars \cup {NUL}]
  BY <1>3, <1>4
<1>6. Len(s) \in Cells /\ \A i \in 0..(Len(s) - 1) : i \in Cells /\ i < Len(s)
  BY <1>1 DEF Cells
<1>7. b[Len(s)] = NUL /\ \A i \in 0..(Len(s) - 1) : b[i] = s[i + 1]
  BY <1>1, <1>3, <1>6
<1>8. \A i \in 0..(Len(s) - 1) : b[i] \in Chars
  BY <1>4, <1>6, <1>7
<1>9. /\ String(b) \in Seq(Chars) /\ Len(String(b)) = Len(s)
      /\ \A i \in 1..Len(s) : String(b)[i] = b[i - 1]
  BY <1>1, <1>7, <1>8, StringOf
<1>10. \A i \in 1..Len(s) : String(b)[i] = s[i]
  <2> SUFFICES ASSUME NEW i \in 1..Len(s) PROVE String(b)[i] = s[i]
    OBVIOUS
  <2>1. i - 1 \in 0..(Len(s) - 1) /\ (i - 1) + 1 = i
    BY <1>1
  <2> QED
    BY <1>7, <1>9, <2>1
<1>11. String(b) = s
  BY <1>1, <1>9, <1>10, SeqEqual
<1> QED
  BY <1>2, <1>5, <1>7, <1>8, <1>11

\* What trim leaves of a text is a text.
LEMMA TrimTyped ==
  ASSUME PromptAssumptions, NEW s \in Texts
  PROVE  Prompt!Trim(s) \in Texts
<1>0. Size \in Nat /\ Size > 2
  BY DEF PromptAssumptions
<1>1. s \in Seq(Chars) /\ Len(s) <= Size - 2 /\ Len(s) \in Nat
  BY TextsAre
<1>a. <<>> \in Seq(Chars) /\ Len(<<>>) = 0
  OBVIOUS
<1>b. Len(<<>>) <= Size - 2
  BY <1>0, <1>a
<1>2. <<>> \in Texts
  BY <1>a, <1>b, TextsAre, Zenon
<1>3. PICK ink : ink = {i \in 1..Len(s) : s[i] # " "}
  OBVIOUS
<1>4. CASE ink = {}
  BY <1>2, <1>3, <1>4 DEF Prompt!Trim
<1>5. CASE ink # {}
  <2>a. \A i \in ink : i \in 1..Len(s)
    BY <1>3
  <2>b. \A i \in ink : i \in Nat /\ i \in 0..Len(s)
    BY <1>1, <2>a
  <2>1. ink \in SUBSET (1..Len(s)) /\ ink \in SUBSET Nat /\ ink \in SUBSET (0..Len(s))
    BY <2>a, <2>b
  <2>2. \E i \in ink : \A j \in ink : i <= j
    BY <1>5, <2>1, LeastExists
  <2>3. \E i \in ink : \A j \in ink : j <= i
    BY <1>1, <1>5, <2>1, GreatestExists
  <2>4. PICK first : first = CHOOSE i \in ink : \A j \in ink : i <= j
    OBVIOUS
  <2>5. PICK last : last = CHOOSE i \in ink : \A j \in ink : j <= i
    OBVIOUS
  <2>6. first \in ink /\ last \in ink
    BY <2>2, <2>3, <2>4, <2>5
  <2>7. Prompt!Trim(s) = SubSeq(s, first, last)
    BY <1>3, <1>5, <2>4, <2>5 DEF Prompt!Trim
  <2>8. first \in 1..Len(s) /\ last \in 1..Len(s)
    BY <2>1, <2>6
  <2>9. SubSeq(s, first, last) \in Seq(Chars) /\ Len(SubSeq(s, first, last)) <= Len(s)
    BY <1>1, <2>8, SubSeqProperties
  <2>10. Len(SubSeq(s, first, last)) <= Size - 2
    BY <1>0, <1>1, <2>9, LenProperties
  <2> QED
    BY <2>7, <2>9, <2>10, TextsAre
<1> QED
  BY <1>4, <1>5

-----------------------------------------------------------------------------
(* The inductive invariant *)

\* The first len cells are characters, and the next one ends the string.
Exact == line[len] = NUL /\ \A i \in 0..(len - 1) : line[i] \in Chars

\* Browsing stays within the ring, and what Down brings back is what Up left.
PromptInv == PromptTypeOK /\ Exact /\ idx <= histCount /\ saved = kept

\* The commands in the ring, oldest first, as PromptView sees them.
Past == [i \in 1..histCount |-> history[Index(i - 1)]]

\* The cursor and the length are numbers within the buffer.
LEMMA Sizes ==
  ASSUME PromptAssumptions, PromptInv
  PROVE  /\ Size \in Nat /\ Size > 2
         /\ len \in Nat /\ len <= Size - 2 /\ pos \in 0..len
<1>1. Size \in Nat /\ Size > 2
  BY DEF PromptAssumptions
<1>2. len \in 0..(Size - 2) /\ pos \in 0..len
  BY DEF PromptInv, PromptTypeOK
<1> QED
  BY <1>1, <1>2

\* What the buffer holds is as long as len says.
LEMMA LineHolds ==
  ASSUME PromptAssumptions, PromptInv
  PROVE  /\ String(line) \in Texts /\ String(line) \in Seq(Chars)
         /\ Len(String(line)) = len
         /\ \A i \in 1..len : String(line)[i] = line[i - 1]
<1>1. /\ len \in 0..(Size - 2) /\ line[len] = NUL
      /\ \A i \in 0..(len - 1) : line[i] \in Chars
  BY DEF PromptInv, PromptTypeOK, Exact
<1> QED
  BY <1>1, StringOf

\* Where the commands of the ring are: behind histPos - histCount, and around.
LEMMA IndexIs ==
  ASSUME PromptAssumptions, PromptTypeOK, NEW i \in 0..histCount, i < HistMax
  PROVE  /\ Index(i) \in Slots
         /\ Index(i) = IF histPos - histCount + i < 0 THEN histPos - histCount + i + HistMax
                       ELSE histPos - histCount + i
<1>1. HistMax \in Nat \ {0} /\ histPos \in 0..(HistMax - 1) /\ histCount \in 0..HistMax
  BY DEF PromptAssumptions, PromptTypeOK, Slots
<1>2. PICK a : a = histPos - histCount + i + HistMax
  OBVIOUS
<1>3. a \in Nat /\ a < 2 * HistMax
  BY <1>1, <1>2
<1>4. a % HistMax = IF a < HistMax THEN a ELSE a - HistMax
  BY <1>1, <1>3, ModTwice
<1>5. Index(i) = a % HistMax
  BY <1>2 DEF Index
<1> QED
  BY <1>1, <1>2, <1>4, <1>5 DEF Slots

\* The list has one text for each command that is counted.
LEMMA PastTyped ==
  ASSUME PromptAssumptions, PromptTypeOK
  PROVE  /\ Past \in Seq(Texts) /\ Len(Past) = histCount
         /\ \A i \in 1..histCount : Past[i] = history[Index(i - 1)] /\ Past[i] \in Texts
<1>1. HistMax \in Nat \ {0} /\ histCount \in 0..HistMax /\ history \in [Slots -> Texts]
  BY DEF PromptAssumptions, PromptTypeOK
<1>2. \A i \in 1..histCount : history[Index(i - 1)] \in Texts
  <2> SUFFICES ASSUME NEW i \in 1..histCount PROVE history[Index(i - 1)] \in Texts
    OBVIOUS
  <2>1. i - 1 \in 0..histCount /\ i - 1 < HistMax
    BY <1>1
  <2>2. Index(i - 1) \in Slots
    BY <2>1, IndexIs
  <2> QED
    BY <1>1, <2>2
<1>3. Past \in [1..histCount -> Texts]
  BY <1>2 DEF Past
<1>4. \A i \in 1..histCount : Past[i] = history[Index(i - 1)]
  BY DEF Past
<1> QED
  BY <1>1, <1>2, <1>3, <1>4

\* The latest command is the last one of the list.
LEMMA LatestIsLast ==
  ASSUME PromptAssumptions, PromptTypeOK, histCount > 0
  PROVE  Latest = Past[Len(Past)] /\ Latest \in Texts
<1>1. HistMax \in Nat \ {0} /\ histCount \in 0..HistMax /\ histPos \in 0..(HistMax - 1)
  BY DEF PromptAssumptions, PromptTypeOK, Slots
<1>2. histPos - histCount + (histCount - 1) + HistMax = histPos - 1 + HistMax
  BY <1>1
<1>3. Latest = history[Index(histCount - 1)]
  BY <1>2 DEF Latest, Index
<1>4. histCount \in 1..histCount
  BY <1>1
<1> QED
  BY <1>3, <1>4, PastTyped

\* add_history does to the ring what Remember does to the list.
LEMMA AddRemembers ==
  ASSUME PromptAssumptions, PromptTypeOK, NEW c \in Texts, Add(c)
  PROVE  /\ Past' = Prompt!Remember(Past, c)
         /\ history' \in [Slots -> Texts] /\ histPos' \in Slots
         /\ histCount' \in 0..HistMax /\ histCount <= histCount'
<1>1. /\ HistMax \in Nat \ {0} /\ histCount \in 0..HistMax /\ histPos \in 0..(HistMax - 1)
      /\ history \in [Slots -> Texts] /\ Slots = 0..(HistMax - 1)
  BY DEF PromptAssumptions, PromptTypeOK, Slots
<1>2. /\ Past \in Seq(Texts) /\ Len(Past) = histCount
      /\ \A i \in 1..histCount : Past[i] = history[Index(i - 1)]
  BY PastTyped
<1>3. Again(c) <=> Len(Past) > 0 /\ Past[Len(Past)] = c
  BY <1>1, <1>2, LatestIsLast DEF Again
<1>4. CASE Again(c)
  <2>1. UNCHANGED <<history, histPos, histCount>>
    BY <1>4 DEF Add
  <2>2. Past' = Past
    BY <2>1 DEF Past, Index
  <2>3. Prompt!Remember(Past, c) = Past
    BY <1>3, <1>4 DEF Prompt!Remember
  <2> QED
    BY <1>1, <2>1, <2>2, <2>3
<1>5. CASE ~Again(c)
  <2>1. /\ history' = [history EXCEPT ![histPos] = c]
        /\ histPos' = (histPos + 1) % HistMax
        /\ histCount' = IF histCount < HistMax THEN histCount + 1 ELSE histCount
    BY <1>5 DEF Add
  <2>2. histPos' = IF histPos + 1 < HistMax THEN histPos + 1 ELSE histPos + 1 - HistMax
    <3>1. PICK a : a = histPos + 1
      OBVIOUS
    <3>2. a \in Nat /\ a < 2 * HistMax
      BY <1>1, <3>1
    <3>3. a % HistMax = IF a < HistMax THEN a ELSE a - HistMax
      BY <1>1, <3>2, ModTwice
    <3>4. histPos' = a % HistMax
      BY <2>1, <3>1, Zenon
    <3> QED
      BY <1>1, <3>1, <3>2, <3>3, <3>4
  <2>3. /\ history' \in [Slots -> Texts] /\ histPos' \in Slots
        /\ histCount' \in 0..HistMax /\ histCount <= histCount'
    BY <1>1, <2>1, <2>2
  <2>4. PICK all : all = Append(Past, c)
    OBVIOUS
  <2>5. /\ all \in Seq(Texts) /\ Len(all) = histCount + 1
        /\ \A i \in 1..histCount : all[i] = Past[i]
        /\ all[histCount + 1] = c
    BY <1>1, <1>2, <2>4, AppendProperties
  <2>6. Prompt!Remember(Past, c) = IF Len(all) > HistMax THEN SubSeq(all, 2, Len(all)) ELSE all
    BY <1>3, <1>5, <2>4 DEF Prompt!Remember
  <2>7. PICK new : new = Past'
    OBVIOUS
  <2>8. new = [i \in 1..histCount' |-> history'[(histPos' - histCount' + (i - 1) + HistMax) % HistMax]]
    BY <2>7 DEF Past, Index
  <2>9. \A i \in 1..histCount' :
          LET x == histPos' - histCount' + (i - 1)
          IN (x + HistMax) % HistMax = IF x < 0 THEN x + HistMax ELSE x
    <3> SUFFICES ASSUME NEW i \in 1..histCount', NEW x, x = histPos' - histCount' + (i - 1)
                 PROVE  (x + HistMax) % HistMax = IF x < 0 THEN x + HistMax ELSE x
      BY Zenon
    <3>1. PICK a : a = x + HistMax
      OBVIOUS
    <3>a. PICK p, n : p = histPos' /\ n = histCount'
      OBVIOUS
    <3>b. HistMax \in Nat \ {0} /\ p \in 0..(HistMax - 1) /\ n \in 0..HistMax /\ i \in 1..n
      BY <1>1, <2>3, <3>a
    <3>c. x = p - n + (i - 1)
      BY <3>a
    <3>2. x \in Int /\ a \in Nat /\ a < 2 * HistMax
      BY <3>1, <3>b, <3>c
    <3>3. a % HistMax = IF a < HistMax THEN a ELSE a - HistMax
      BY <3>b, <3>2, ModTwice
    <3> QED
      BY <3>1, <3>2, <3>3, <3>b
  <2>10. \A i \in 1..histCount' :
           new[i] = history'[IF histPos' - histCount' + (i - 1) < 0
                               THEN histPos' - histCount' + (i - 1) + HistMax
                               ELSE histPos' - histCount' + (i - 1)]
    BY <2>8, <2>9
  <2>11. \A i \in 1..histCount :
           Past[i] = history[IF histPos - histCount + (i - 1) < 0
                               THEN histPos - histCount + (i - 1) + HistMax
                               ELSE histPos - histCount + (i - 1)]
    <3> SUFFICES ASSUME NEW i \in 1..histCount
                 PROVE  Past[i] = history[IF histPos - histCount + (i - 1) < 0
                                            THEN histPos - histCount + (i - 1) + HistMax
                                            ELSE histPos - histCount + (i - 1)]
      OBVIOUS
    <3>1. i - 1 \in 0..histCount /\ i - 1 < HistMax
      BY <1>1
    <3>2. Index(i - 1) = IF histPos - histCount + (i - 1) < 0
                           THEN histPos - histCount + (i - 1) + HistMax
                           ELSE histPos - histCount + (i - 1)
      BY <3>1, IndexIs
    <3> QED
      BY <1>2, <3>2
  <2>12. CASE histCount < HistMax
    <3>1. histCount' = histCount + 1
      BY <2>1, <2>12
    <3>2. \A i \in 1..histCount : new[i] = Past[i]
      <4> SUFFICES ASSUME NEW i \in 1..histCount PROVE new[i] = Past[i]
        OBVIOUS
      <4>1. PICK w : w = IF histPos - histCount + (i - 1) < 0
                           THEN histPos - histCount + (i - 1) + HistMax
                           ELSE histPos - histCount + (i - 1)
        OBVIOUS
      <4>2. w \in Slots /\ w # histPos
        BY <1>1, <2>12, <4>1
      <4>3. Past[i] = history[w]
        BY <2>11, <4>1
      <4>4. i \in 1..histCount'
        BY <1>1, <3>1
      <4>5. w = IF histPos' - histCount' + (i - 1) < 0
                  THEN histPos' - histCount' + (i - 1) + HistMax
                  ELSE histPos' - histCount' + (i - 1)
        BY <1>1, <2>2, <2>12, <3>1, <4>1
      <4>6. new[i] = history'[w]
        BY <2>10, <4>4, <4>5
      <4> QED
        BY <1>1, <2>1, <4>2, <4>3, <4>6
    <3>3. new[histCount + 1] = c
      <4>1. histPos = IF histPos' - histCount' + ((histCount + 1) - 1) < 0
                        THEN histPos' - histCount' + ((histCount + 1) - 1) + HistMax
                        ELSE histPos' - histCount' + ((histCount + 1) - 1)
        BY <1>1, <2>2, <2>12, <3>1
      <4>2. histCount + 1 \in 1..histCount'
        BY <1>1, <3>1
      <4>3. new[histCount + 1] = history'[histPos]
        BY <2>10, <4>1, <4>2
      <4> QED
        BY <1>1, <2>1, <4>3
    <3>4. Prompt!Remember(Past, c) = all
      BY <1>1, <2>5, <2>6, <2>12
    <3>5. new = [i \in 1..(histCount + 1) |-> all[i]]
      <4>1. \A i \in 1..(histCount + 1) : new[i] = all[i]
        BY <1>1, <2>5, <3>2, <3>3
      <4> QED
        BY <2>8, <3>1, <4>1
    <3>6. all = [i \in 1..(histCount + 1) |-> all[i]]
      BY <2>5
    <3> QED
      BY <2>3, <2>7, <3>4, <3>5, <3>6
  <2>13. CASE histCount = HistMax
    <3>1. histCount' = HistMax
      BY <1>1, <2>1, <2>13
    <3>2. \A i \in 1..(HistMax - 1) : new[i] = Past[i + 1]
      <4> SUFFICES ASSUME NEW i \in 1..(HistMax - 1) PROVE new[i] = Past[i + 1]
        OBVIOUS
      <4>1. PICK w : w = IF histPos - histCount + ((i + 1) - 1) < 0
                           THEN histPos - histCount + ((i + 1) - 1) + HistMax
                           ELSE histPos - histCount + ((i + 1) - 1)
        OBVIOUS
      <4>2. w \in Slots /\ w # histPos
        BY <1>1, <2>13, <4>1
      <4>3. i + 1 \in 1..histCount
        BY <1>1, <2>13
      <4>4. Past[i + 1] = history[w]
        BY <2>11, <4>1, <4>3
      <4>5. i \in 1..histCount'
        BY <1>1, <3>1
      <4>6. w = IF histPos' - histCount' + (i - 1) < 0
                  THEN histPos' - histCount' + (i - 1) + HistMax
                  ELSE histPos' - histCount' + (i - 1)
        BY <1>1, <2>2, <2>13, <3>1, <4>1
      <4>7. new[i] = history'[w]
        BY <2>10, <4>5, <4>6
      <4> QED
        BY <1>1, <2>1, <4>2, <4>4, <4>7
    <3>3. new[HistMax] = c
      <4>1. histPos = IF histPos' - histCount' + (HistMax - 1) < 0
                        THEN histPos' - histCount' + (HistMax - 1) + HistMax
                        ELSE histPos' - histCount' + (HistMax - 1)
        BY <1>1, <2>2, <3>1
      <4>2. HistMax \in 1..histCount'
        BY <1>1, <3>1
      <4>3. new[HistMax] = history'[histPos]
        BY <2>10, <4>1, <4>2
      <4> QED
        BY <1>1, <2>1, <4>3
    <3>4. Prompt!Remember(Past, c) = SubSeq(all, 2, HistMax + 1)
      BY <1>1, <2>5, <2>6, <2>13
    <3>5. SubSeq(all, 2, HistMax + 1) = [i \in 1..HistMax |-> all[i + 1]]
      BY <1>1, <2>5, <2>13
    <3>6. \A i \in 1..HistMax : new[i] = all[i + 1]
      BY <1>1, <2>5, <2>13, <3>2, <3>3
    <3>7. new = [i \in 1..HistMax |-> all[i + 1]]
      BY <2>8, <3>1, <3>6
    <3> QED
      BY <2>3, <2>7, <3>4, <3>5, <3>7
  <2> QED
    BY <1>1, <2>3, <2>7, <2>12, <2>13
<1> QED
  BY <1>4, <1>5

-----------------------------------------------------------------------------
(* Sequences with an element more, or less *)

\* A sequence with c behind its first k elements.
LEMMA InsertedIs ==
  ASSUME NEW S, NEW t \in Seq(S), NEW c \in S, NEW k \in 0..Len(t), NEW u \in Seq(S),
         Len(u) = Len(t) + 1,
         \A i \in 1..(Len(t) + 1) : u[i] = IF i <= k THEN t[i] ELSE IF i = k + 1 THEN c ELSE t[i - 1]
  PROVE  u = SubSeq(t, 1, k) \o <<c>> \o SubSeq(t, k + 1, Len(t))
<1>1. PICK a, b : a = SubSeq(t, 1, k) /\ b = SubSeq(t, k + 1, Len(t))
  OBVIOUS
<1>2. /\ a \in Seq(S) /\ Len(a) = k /\ \A i \in 1..k : a[i] = t[i]
      /\ b \in Seq(S) /\ Len(b) = Len(t) - k /\ \A i \in 1..(Len(t) - k) : b[i] = t[k + i]
  BY <1>1
<1>a. PICK one : one = <<c>>
  OBVIOUS
<1>b. one \in Seq(S) /\ Len(one) = 1 /\ one[1] = c
  BY <1>a
<1>3. PICK d : d = a \o one
  OBVIOUS
<1>c. /\ d \in Seq(S) /\ Len(d) = Len(a) + Len(one)
      /\ \A i \in 1..(Len(a) + Len(one)) : d[i] = IF i <= Len(a) THEN a[i] ELSE one[i - Len(a)]
  BY <1>2, <1>3, <1>b, ConcatProperties
<1>4. /\ d \in Seq(S) /\ Len(d) = k + 1 /\ \A i \in 1..k : d[i] = t[i]
      /\ d[k + 1] = c
  BY <1>2, <1>b, <1>c
<1>5. PICK e : e = d \o b
  OBVIOUS
<1>6. /\ e \in Seq(S) /\ Len(e) = Len(t) + 1
      /\ \A i \in 1..(k + 1) : e[i] = d[i]
      /\ \A i \in (k + 2)..(Len(t) + 1) : e[i] = b[i - (k + 1)]
  BY <1>2, <1>4, <1>5
<1>7. \A i \in 1..(Len(t) + 1) : e[i] = u[i]
  <2> SUFFICES ASSUME NEW i \in 1..(Len(t) + 1) PROVE e[i] = u[i]
    OBVIOUS
  <2>1. CASE i <= k
    BY <1>4, <1>6, <2>1
  <2>2. CASE i = k + 1
    BY <1>4, <1>6, <2>2
  <2>3. CASE i > k + 1
    <3>1. i \in (k + 2)..(Len(t) + 1) /\ i - (k + 1) \in 1..(Len(t) - k) /\ k + (i - (k + 1)) = i - 1
      BY <2>3
    <3>2. e[i] = t[i - 1]
      BY <1>2, <1>6, <3>1
    <3> QED
      BY <2>3, <3>2
  <2> QED
    BY <2>1, <2>2, <2>3
<1>8. e = u
  BY <1>6, <1>7, SeqEqual
<1> QED
  BY <1>1, <1>3, <1>5, <1>8, <1>a

\* A sequence without its k-th element.
LEMMA DroppedIs ==
  ASSUME NEW S, NEW t \in Seq(S), NEW k \in 1..Len(t), NEW u \in Seq(S),
         Len(u) = Len(t) - 1,
         \A i \in 1..(Len(t) - 1) : u[i] = IF i < k THEN t[i] ELSE t[i + 1]
  PROVE  u = SubSeq(t, 1, k - 1) \o SubSeq(t, k + 1, Len(t))
<1>1. PICK a, b : a = SubSeq(t, 1, k - 1) /\ b = SubSeq(t, k + 1, Len(t))
  OBVIOUS
<1>2. /\ a \in Seq(S) /\ Len(a) = k - 1 /\ \A i \in 1..(k - 1) : a[i] = t[i]
      /\ b \in Seq(S) /\ Len(b) = Len(t) - k /\ \A i \in 1..(Len(t) - k) : b[i] = t[k + i]
  BY <1>1
<1>3. PICK e : e = a \o b
  OBVIOUS
<1>a. /\ e \in Seq(S) /\ Len(e) = Len(a) + Len(b)
      /\ \A i \in 1..(Len(a) + Len(b)) : e[i] = IF i <= Len(a) THEN a[i] ELSE b[i - Len(a)]
  BY <1>2, <1>3, ConcatProperties
<1>4. /\ e \in Seq(S) /\ Len(e) = Len(t) - 1
      /\ \A i \in 1..(k - 1) : e[i] = a[i]
      /\ \A i \in k..(Len(t) - 1) : e[i] = b[i - (k - 1)]
  <2>1. Len(t) \in Nat /\ Len(a) = k - 1 /\ Len(a) + Len(b) = Len(t) - 1
    BY <1>2
  <2>2. \A i \in 1..(Len(t) - 1) : e[i] = IF i <= k - 1 THEN a[i] ELSE b[i - (k - 1)]
    BY <1>a, <2>1
  <2>3. \A i \in 1..(k - 1) : e[i] = a[i]
    <3> SUFFICES ASSUME NEW i \in 1..(k - 1) PROVE e[i] = a[i]
      OBVIOUS
    <3>1. i \in 1..(Len(t) - 1) /\ i <= k - 1
      BY <2>1
    <3> QED
      BY <2>2, <3>1
  <2>4. \A i \in k..(Len(t) - 1) : e[i] = b[i - (k - 1)]
    BY <2>1, <2>2
  <2> QED
    BY <1>a, <2>1, <2>3, <2>4
<1>5. \A i \in 1..(Len(t) - 1) : e[i] = u[i]
  <2> SUFFICES ASSUME NEW i \in 1..(Len(t) - 1) PROVE e[i] = u[i]
    OBVIOUS
  <2>1. CASE i < k
    BY <1>2, <1>4, <2>1
  <2>2. CASE i >= k
    <3>1. i \in k..(Len(t) - 1) /\ i - (k - 1) \in 1..(Len(t) - k) /\ k + (i - (k - 1)) = i + 1
      BY <2>2
    <3>2. e[i] = t[i + 1]
      BY <1>2, <1>4, <3>1
    <3> QED
      BY <2>2, <3>2
  <2> QED
    BY <2>1, <2>2
<1>6. e = u
  BY <1>4, <1>5, SeqEqual
<1> QED
  BY <1>1, <1>3, <1>6

-----------------------------------------------------------------------------
(* Every step keeps the invariant and is one of the view, or nothing to it. *)

\* The buffer and its numbers after a step.
LineIs(b, n, p) ==
  /\ b \in [Cells -> Chars \cup {NUL}]
  /\ n \in 0..(Size - 2) /\ p \in 0..n
  /\ b[n] = NUL /\ \A i \in 0..(n - 1) : b[i] \in Chars

\* The ring is seen as it was when it was not touched.
LEMMA RingKept ==
  ASSUME UNCHANGED ringVars
  PROVE  Past' = Past /\ ran' = ran
BY DEF ringVars, Past, Index

\* A key that edits leaves the ring and what is browsed alone.
LEMMA EditingKeeps ==
  ASSUME PromptAssumptions, PromptInv, Editing, LineIs(line', len', pos')
  PROVE  PromptInv'
<1>1. UNCHANGED <<saved, nav, idx, history, histPos, histCount, ran, state, kept>>
  BY DEF Editing, ringVars
<1>2. PromptTypeOK'
  BY <1>1 DEF PromptInv, PromptTypeOK, LineIs
<1>3. Exact'
  BY DEF Exact, LineIs
<1> QED
  BY <1>1, <1>2, <1>3 DEF PromptInv

\* A typed character stands where the cursor was.
LEMMA TypeStep ==
  ASSUME PromptAssumptions, PromptInv, NEW c \in Chars, Type(c)
  PROVE  PromptInv' /\ Prompt!Insert
<1>1. /\ Size \in Nat /\ Size > 2 /\ Cells = 0..(Size - 1)
      /\ line \in [Cells -> Chars \cup {NUL}]
      /\ len \in 0..(Size - 2) /\ pos \in 0..len /\ len < Size - 2
      /\ line[len] = NUL /\ \A i \in 0..(len - 1) : line[i] \in Chars
  BY DEF PromptAssumptions, PromptInv, PromptTypeOK, Exact, Cells, Type, Room
<1>2. /\ Editing /\ pos' = pos + 1 /\ len' = len + 1
      /\ line' = Ended([Moved(line, pos + 1, pos, len - pos) EXCEPT ![pos] = c], len + 1)
  BY DEF Type
<1>3. PICK m : m = Moved(line, pos + 1, pos, len - pos)
  OBVIOUS
<1>4. m = [i \in Cells |-> IF pos + 1 <= i /\ i < (pos + 1) + (len - pos) THEN line[pos + (i - (pos + 1))] ELSE line[i]]
  BY <1>3 DEF Moved
<1>5. /\ m \in [Cells -> Chars \cup {NUL}]
      /\ \A i \in 0..(pos - 1) : m[i] = line[i]
      /\ \A i \in (pos + 1)..len : m[i] = line[i - 1]
  BY <1>1, <1>4
<1>6. line' = [[m EXCEPT ![pos] = c] EXCEPT ![len + 1] = NUL]
  BY <1>2, <1>3 DEF Ended
<1>7. /\ line' \in [Cells -> Chars \cup {NUL}] /\ line'[len + 1] = NUL
      /\ \A i \in 0..len : line'[i] = IF i < pos THEN line[i] ELSE IF i = pos THEN c ELSE line[i - 1]
  BY <1>1, <1>5, <1>6
<1>8. \A i \in 0..len : line'[i] \in Chars
  BY <1>1, <1>7
<1>9. LineIs(line', len', pos')
  <2>1. len' \in 0..(Size - 2) /\ pos' \in 0..len' /\ len' - 1 = len
    BY <1>1, <1>2
  <2> QED
    BY <1>2, <1>7, <1>8, <2>1 DEF LineIs
<1>10. PICK t, u : t = String(line) /\ u = String(line')
  OBVIOUS
<1>11. t \in Seq(Chars) /\ Len(t) = len /\ \A i \in 1..len : t[i] = line[i - 1]
  BY <1>10, LineHolds
<1>12. u \in Seq(Chars) /\ Len(u) = len + 1 /\ \A i \in 1..(len + 1) : u[i] = line'[i - 1]
  <2>1. PICK b, n : b = line' /\ n = len + 1
    OBVIOUS
  <2>2. n \in 0..(Size - 2) /\ b[n] = NUL /\ \A i \in 0..(n - 1) : b[i] \in Chars
    BY <1>1, <1>7, <1>8, <2>1
  <2>3. String(b) \in Seq(Chars) /\ Len(String(b)) = n /\ \A i \in 1..n : String(b)[i] = b[i - 1]
    BY <2>2, StringOf
  <2> QED
    BY <1>10, <2>1, <2>3
<1>13. \A i \in 1..(Len(t) + 1) : u[i] = IF i <= pos THEN t[i] ELSE IF i = pos + 1 THEN c ELSE t[i - 1]
  <2> SUFFICES ASSUME NEW i \in 1..(len + 1)
               PROVE  u[i] = IF i <= pos THEN t[i] ELSE IF i = pos + 1 THEN c ELSE t[i - 1]
    BY <1>11
  <2>1. u[i] = IF i - 1 < pos THEN line[i - 1] ELSE IF i - 1 = pos THEN c ELSE line[(i - 1) - 1]
    BY <1>1, <1>7, <1>12
  <2> QED
    BY <1>1, <1>11, <2>1
<1>14. pos \in 0..Len(t) /\ Len(u) = Len(t) + 1
  BY <1>1, <1>11, <1>12
<1>15. u = SubSeq(t, 1, pos) \o <<c>> \o SubSeq(t, pos + 1, Len(t))
  BY <1>11, <1>12, <1>13, <1>14, InsertedIs
<1>16. UNCHANGED ringVars
  BY <1>2 DEF Editing
<1> QED
  BY <1>2, <1>9, <1>10, <1>15, <1>16, EditingKeeps DEF Prompt!Insert, ringVars, Index

\* A deleted cell is no longer in the string: the one before the cursor, or under it.
LEMMA DropStep ==
  ASSUME PromptAssumptions, PromptInv, Editing, NEW k \in 1..len, NEW n \in {len - k, len - (k - 1)},
         line' = Ended(Moved(line, k - 1, k, n), len - 1),
         len' = len - 1, pos' = k - 1, k \in {pos, pos + 1}
  PROVE  PromptInv' /\ Prompt!Remove
<1>1. /\ Size \in Nat /\ Size > 2 /\ Cells = 0..(Size - 1)
      /\ line \in [Cells -> Chars \cup {NUL}]
      /\ len \in 0..(Size - 2) /\ pos \in 0..len
      /\ line[len] = NUL /\ \A i \in 0..(len - 1) : line[i] \in Chars
  BY DEF PromptAssumptions, PromptInv, PromptTypeOK, Exact, Cells
<1>2. PICK m : m = Moved(line, k - 1, k, n)
  OBVIOUS
<1>3. m = [i \in Cells |-> IF k - 1 <= i /\ i < (k - 1) + n THEN line[k + (i - (k - 1))] ELSE line[i]]
  BY <1>2 DEF Moved
<1>4. /\ m \in [Cells -> Chars \cup {NUL}]
      /\ \A i \in 0..(len - 2) : m[i] = IF i < k - 1 THEN line[i] ELSE line[i + 1]
  BY <1>1, <1>3
<1>5. line' = [m EXCEPT ![len - 1] = NUL]
  BY <1>2 DEF Ended
<1>6. /\ line' \in [Cells -> Chars \cup {NUL}] /\ line'[len - 1] = NUL
      /\ \A i \in 0..(len - 2) : line'[i] = IF i < k - 1 THEN line[i] ELSE line[i + 1]
  BY <1>1, <1>4, <1>5
<1>7. \A i \in 0..(len - 2) : line'[i] \in Chars
  BY <1>1, <1>6
<1>8. LineIs(line', len', pos')
  <2>1. len' \in 0..(Size - 2) /\ pos' \in 0..len' /\ len' - 1 = len - 2
    BY <1>1
  <2> QED
    BY <1>6, <1>7, <2>1 DEF LineIs
<1>9. PICK t, u : t = String(line) /\ u = String(line')
  OBVIOUS
<1>10. t \in Seq(Chars) /\ Len(t) = len /\ \A i \in 1..len : t[i] = line[i - 1]
  BY <1>9, LineHolds
<1>11. u \in Seq(Chars) /\ Len(u) = len - 1 /\ \A i \in 1..(len - 1) : u[i] = line'[i - 1]
  <2>1. PICK b, l : b = line' /\ l = len - 1
    OBVIOUS
  <2>2. l \in 0..(Size - 2) /\ b[l] = NUL /\ \A i \in 0..(l - 1) : b[i] \in Chars
    BY <1>1, <1>6, <1>7, <2>1
  <2>3. String(b) \in Seq(Chars) /\ Len(String(b)) = l /\ \A i \in 1..l : String(b)[i] = b[i - 1]
    BY <2>2, StringOf
  <2> QED
    BY <1>9, <2>1, <2>3
<1>12. \A i \in 1..(Len(t) - 1) : u[i] = IF i < k THEN t[i] ELSE t[i + 1]
  <2> SUFFICES ASSUME NEW i \in 1..(len - 1) PROVE u[i] = IF i < k THEN t[i] ELSE t[i + 1]
    BY <1>10
  <2>1. u[i] = IF i - 1 < k - 1 THEN line[i - 1] ELSE line[(i - 1) + 1]
    BY <1>1, <1>6, <1>11
  <2> QED
    BY <1>1, <1>10, <2>1
<1>13. k \in 1..Len(t) /\ Len(u) = Len(t) - 1
  BY <1>10, <1>11
<1>14. u = SubSeq(t, 1, k - 1) \o SubSeq(t, k + 1, Len(t))
  BY <1>10, <1>11, <1>12, <1>13, DroppedIs
<1>15. UNCHANGED ringVars
  BY DEF Editing
<1>16. k \in {pos, pos + 1} \cap 1..Len(t)
  BY <1>13
<1>17. Prompt!Remove
  BY <1>9, <1>14, <1>15, <1>16 DEF Prompt!Remove, ringVars, Index
<1> QED
  BY <1>8, <1>17, EditingKeeps

\* Backspace takes the character before the cursor.
LEMMA BackspaceStep ==
  ASSUME PromptAssumptions, PromptInv, Backspace
  PROVE  PromptInv' /\ Prompt!Remove
<1>1. Editing /\ pos > 0 /\ pos' = pos - 1 /\ len' = len - 1
  BY DEF Backspace
<1>2. line' = Ended(Moved(line, pos - 1, pos, len - pos), len - 1)
  BY DEF Backspace
<1>3. len \in Nat /\ pos \in 0..len
  BY Sizes
<1>4. PICK n : n = len - pos
  OBVIOUS
<1>5. pos \in 1..len /\ n \in {len - pos, len - (pos - 1)} /\ pos \in {pos, pos + 1}
  BY <1>1, <1>3, <1>4
<1>6. line' = Ended(Moved(line, pos - 1, pos, n), len - 1)
  BY <1>2, <1>4
<1> QED
  BY <1>1, <1>5, <1>6, DropStep

\* Delete takes the character under the cursor.
LEMMA DeleteStep ==
  ASSUME PromptAssumptions, PromptInv, Delete
  PROVE  PromptInv' /\ Prompt!Remove
<1>1. Editing /\ pos < len /\ pos' = pos /\ len' = len - 1
  BY DEF Delete
<1>2. line' = Ended(Moved(line, pos, pos + 1, len - pos), len - 1)
  BY DEF Delete
<1>3. len \in Nat /\ pos \in 0..len
  BY Sizes
<1>4. PICK k, n : k = pos + 1 /\ n = len - pos
  OBVIOUS
<1>5. k \in 1..len /\ n \in {len - k, len - (k - 1)} /\ k \in {pos, pos + 1} /\ k - 1 = pos
  BY <1>1, <1>3, <1>4
<1>6. line' = Ended(Moved(line, k - 1, k, n), len - 1) /\ pos' = k - 1
  BY <1>1, <1>2, <1>4, <1>5
<1> QED
  BY <1>1, <1>5, <1>6, DropStep

\* The cursor stays within the text.
LEMMA MoveStep ==
  ASSUME PromptAssumptions, PromptInv, MoveCursor
  PROVE  PromptInv' /\ Prompt!Move
<1>1. /\ Editing /\ UNCHANGED <<line, len, ringVars>>
      /\ \/ pos > 0 /\ pos' \in {pos - 1, 0}
         \/ pos < len /\ pos' \in {pos + 1, len}
  BY DEF MoveCursor, Editing
<1>2. /\ line \in [Cells -> Chars \cup {NUL}] /\ len \in 0..(Size - 2) /\ pos \in 0..len
      /\ line[len] = NUL /\ \A i \in 0..(len - 1) : line[i] \in Chars
  BY DEF PromptInv, PromptTypeOK, Exact
<1>3. len \in Nat
  BY Sizes
<1>4. pos' \in 0..len
  BY <1>1, <1>2, <1>3
<1>5. LineIs(line', len', pos')
  BY <1>1, <1>2, <1>4 DEF LineIs
<1>6. Len(String(line)) = len
  BY LineHolds
<1>7. Prompt!Move
  BY <1>1, <1>4, <1>6 DEF Prompt!Move, ringVars, Index
<1> QED
  BY <1>1, <1>5, <1>7, EditingKeeps

\* A text that is shown is in the buffer, with the cursor behind it.
LEMMA ShowHolds ==
  ASSUME PromptAssumptions, NEW s \in Texts, Show(s)
  PROVE  LineIs(line', len', pos') /\ String(line') = s /\ s \in Seq(Chars) /\ pos' = Len(s)
<1>1. s \in Seq(Chars) /\ Len(s) \in Nat /\ Len(s) <= Size - 2
  BY TextsAre
<1>2. line' = Buffer(s) /\ len' = Len(s) /\ pos' = Len(s)
  BY DEF Show
<1>3. /\ Buffer(s) \in [Cells -> Chars \cup {NUL}] /\ Buffer(s)[Len(s)] = NUL
      /\ \A i \in 0..(Len(s) - 1) : Buffer(s)[i] \in Chars
      /\ String(Buffer(s)) = s
  BY BufferHolds
<1>4. Size \in Nat
  BY DEF PromptAssumptions
<1>5. Len(s) \in 0..(Size - 2) /\ Len(s) \in 0..Len(s)
  BY <1>1, <1>4
<1> QED
  BY <1>1, <1>2, <1>3, <1>5 DEF LineIs

\* The empty string is a text.
LEMMA EmptyText ==
  ASSUME PromptAssumptions
  PROVE  <<>> \in Texts /\ Len(<<>>) = 0
<1>0. Size \in Nat /\ Size > 2
  BY DEF PromptAssumptions
<1>1. <<>> \in Seq(Chars) /\ Len(<<>>) = 0
  OBVIOUS
<1>2. Len(<<>>) <= Size - 2
  BY <1>0, <1>1
<1> QED
  BY <1>1, <1>2, TextsAre, Zenon

\* Ctrl-U empties the text.
LEMMA KillStep ==
  ASSUME PromptAssumptions, PromptInv, Kill
  PROVE  PromptInv' /\ Prompt!Replace
<1>1. Editing /\ Show(<<>>) /\ UNCHANGED ringVars
  BY DEF Kill, Show, Editing
<1>2. <<>> \in Texts
  BY EmptyText
<1>3. /\ LineIs(line', len', pos') /\ String(line') = <<>>
      /\ <<>> \in Seq(Chars) /\ pos' = Len(<<>>)
  BY <1>1, <1>2, ShowHolds, Zenon
<1>4. Prompt!Replace
  BY <1>1, <1>3 DEF Prompt!Replace, ringVars, Index
<1> QED
  BY <1>1, <1>3, <1>4, EditingKeeps

\* What browsing, Enter and main do to the other variables keeps the invariant.
LEMMA OthersKeep ==
  ASSUME PromptAssumptions, PromptInv, LineIs(line', len', pos'),
         saved' \in Texts, kept' = saved', nav' \in {0, 1}, idx' \in 0..histCount',
         history' \in [Slots -> Texts], histPos' \in Slots, histCount' \in 0..HistMax,
         ran' \in Texts, state' \in {"edit", "got", "ended"}
  PROVE  PromptInv'
<1>1. HistMax \in Nat
  BY DEF PromptAssumptions
<1>2. idx' \in 0..HistMax /\ idx' <= histCount'
  BY <1>1
<1>3. PromptTypeOK'
  BY <1>2 DEF PromptTypeOK, LineIs
<1>4. Exact'
  BY DEF Exact, LineIs
<1> QED
  BY <1>2, <1>3, <1>4 DEF PromptInv

\* What the invariant says of the variables one by one.
LEMMA Now ==
  ASSUME PromptInv
  PROVE  /\ LineIs(line, len, pos) /\ saved \in Texts /\ kept = saved /\ nav \in {0, 1}
         /\ idx \in 0..HistMax /\ idx <= histCount
         /\ history \in [Slots -> Texts] /\ histPos \in Slots /\ histCount \in 0..HistMax
         /\ ran \in Texts /\ state \in {"edit", "got", "ended"}
BY DEF PromptInv, PromptTypeOK, Exact, LineIs

\* Up shows the command before, or nothing else; the text is saved at the first Up.
LEMMA UpStep ==
  ASSUME PromptAssumptions, PromptInv, Up
  PROVE  PromptInv' /\ (Prompt!Replace \/ UNCHANGED Prompt!vars)
<1>1. /\ UNCHANGED <<history, histPos, histCount, ran, state>> /\ nav' = 1
      /\ saved' = IF nav = 0 THEN String(line) ELSE saved
      /\ kept' = IF nav = 0 THEN String(line) ELSE kept
  BY DEF Up, Browsing, FirstUp, ringVars
<1>2. /\ LineIs(line, len, pos) /\ saved \in Texts /\ kept = saved /\ nav \in {0, 1}
      /\ idx \in 0..HistMax /\ idx <= histCount
      /\ history \in [Slots -> Texts] /\ histPos \in Slots /\ histCount \in 0..HistMax
      /\ ran \in Texts /\ state \in {"edit", "got", "ended"}
  BY Now
<1>3. String(line) \in Texts
  BY LineHolds
<1>4. saved' \in Texts /\ kept' = saved' /\ nav' \in {0, 1}
  BY <1>1, <1>2, <1>3
<1>5. HistMax \in Nat /\ PromptTypeOK
  BY DEF PromptAssumptions, PromptInv
<1>6. CASE idx > 0 /\ histCount > 0 /\ idx' = idx - 1 /\ Show(history[Index(idx')])
  <2>1. PICK s : s = history[Index(idx')]
    OBVIOUS
  <2>2. idx' \in 0..histCount /\ idx' < HistMax
    BY <1>2, <1>5, <1>6
  <2>3. Index(idx') \in Slots
    BY <1>5, <2>2, IndexIs
  <2>4. s \in Texts /\ Show(s)
    BY <1>2, <1>6, <2>1, <2>3
  <2>5. /\ LineIs(line', len', pos') /\ String(line') = s
        /\ s \in Seq(Chars) /\ pos' = Len(s)
    BY <2>4, ShowHolds
  <2>6. Prompt!Replace
    BY <1>1, <2>5 DEF Prompt!Replace, Index
  <2>7. PromptInv'
    BY <1>1, <1>2, <1>4, <2>2, <2>5, OthersKeep
  <2> QED
    BY <2>6, <2>7
<1>7. CASE ~(idx > 0 /\ histCount > 0) /\ UNCHANGED <<idx, line, len, pos>>
  <2>1. LineIs(line', len', pos')
    BY <1>2, <1>7
  <2>2. idx' \in 0..histCount'
    BY <1>1, <1>2, <1>5, <1>7
  <2>3. PromptInv'
    BY <1>1, <1>2, <1>4, <2>1, <2>2, OthersKeep
  <2>4. UNCHANGED Prompt!vars
    BY <1>1, <1>7 DEF Prompt!vars, Index
  <2> QED
    BY <2>3, <2>4
<1> QED
  BY <1>6, <1>7 DEF Up

\* Down shows the command behind, or at the end what was left with Up.
LEMMA DownStep ==
  ASSUME PromptAssumptions, PromptInv, Down
  PROVE  PromptInv' /\ Prompt!Replace /\ (idx' = histCount => String(line') = kept)
<1>1. /\ UNCHANGED <<history, histPos, histCount, ran, state, saved, nav, kept>>
      /\ idx < histCount /\ idx' = idx + 1
      /\ Show(IF idx' = histCount THEN saved ELSE history[Index(idx')])
  BY DEF Down, Browsing, ringVars
<1>2. /\ LineIs(line, len, pos) /\ saved \in Texts /\ kept = saved /\ nav \in {0, 1}
      /\ idx \in 0..HistMax /\ idx <= histCount
      /\ history \in [Slots -> Texts] /\ histPos \in Slots /\ histCount \in 0..HistMax
      /\ ran \in Texts /\ state \in {"edit", "got", "ended"}
  BY Now
<1>3. HistMax \in Nat /\ PromptTypeOK
  BY DEF PromptAssumptions, PromptInv
<1>4. PICK s : s = IF idx' = histCount THEN saved ELSE history[Index(idx')]
  OBVIOUS
<1>5. idx' \in 0..histCount /\ (idx' # histCount => idx' < HistMax)
  BY <1>1, <1>2, <1>3
<1>6. idx' # histCount => Index(idx') \in Slots
  BY <1>3, <1>5, IndexIs
<1>7. s \in Texts /\ Show(s)
  BY <1>1, <1>2, <1>4, <1>6
<1>8. /\ LineIs(line', len', pos') /\ String(line') = s
      /\ s \in Seq(Chars) /\ pos' = Len(s)
  BY <1>7, ShowHolds
<1>9. Prompt!Replace
  BY <1>1, <1>8 DEF Prompt!Replace, Index
<1>10. PromptInv'
  BY <1>1, <1>2, <1>5, <1>8, OthersKeep
<1> QED
  BY <1>2, <1>4, <1>8, <1>9, <1>10

\* Enter and Ctrl-D change nothing that is seen.
LEMMA EndOfLine ==
  ASSUME PromptAssumptions, PromptInv, Enter \/ CtrlD
  PROVE  PromptInv' /\ UNCHANGED Prompt!vars
<1>1. /\ UNCHANGED <<line, len, pos, saved, nav, idx, history, histPos, histCount, ran, kept>>
      /\ state' \in {"edit", "got", "ended"}
  BY DEF Enter, CtrlD, ringVars
<1>2. PromptInv'
  BY <1>1 DEF PromptInv, PromptTypeOK, Exact
<1>3. UNCHANGED Prompt!vars
  BY <1>1 DEF Prompt!vars, Index
<1> QED
  BY <1>2, <1>3

\* A new line is empty and is browsed from the end of the ring.
LEMMA NextLineKeeps ==
  ASSUME PromptAssumptions, PromptInv, NextLine,
         history' \in [Slots -> Texts], histPos' \in Slots, histCount' \in 0..HistMax, ran' \in Texts
  PROVE  PromptInv' /\ String(line') = <<>> /\ pos' = 0
<1>1. Show(<<>>) /\ nav' = 0 /\ idx' = histCount' /\ UNCHANGED <<saved, kept>> /\ state' = "edit"
  BY DEF NextLine
<1>2. <<>> \in Texts /\ Len(<<>>) = 0
  BY EmptyText
<1>3. LineIs(line', len', pos') /\ String(line') = <<>> /\ pos' = Len(<<>>)
  BY <1>1, <1>2, ShowHolds, Zenon
<1>4. saved \in Texts /\ kept = saved
  BY Now
<1>5. HistMax \in Nat
  BY DEF PromptAssumptions
<1>6. idx' \in 0..histCount' /\ nav' \in {0, 1} /\ saved' \in Texts /\ kept' = saved'
  BY <1>1, <1>4, <1>5
<1>7. PromptInv'
  BY <1>1, <1>3, <1>6, OthersKeep
<1> QED
  BY <1>2, <1>3, <1>7

\* A line that stands for the command c runs c and remembers it.
LEMMA RunsOne ==
  ASSUME PromptAssumptions, PromptInv, NextLine, NEW c \in Texts, Run(c), Prompt!Meant(Trimmed, Past) = {c}
  PROVE  PromptInv' /\ Prompt!Enter
<1>1. Add(c) /\ ran' = c
  BY DEF Run
<1>2. PromptTypeOK
  BY DEF PromptInv
<1>3. /\ Past' = Prompt!Remember(Past, c)
      /\ history' \in [Slots -> Texts] /\ histPos' \in Slots /\ histCount' \in 0..HistMax
  BY <1>1, <1>2, AddRemembers
<1>4. PromptInv' /\ String(line') = <<>> /\ pos' = 0
  BY <1>1, <1>3, NextLineKeeps
<1>5. c \in Prompt!Meant(Trimmed, Past)
  OBVIOUS
<1>6. Prompt!Enter
  BY <1>1, <1>3, <1>4, <1>5 DEF Prompt!Enter, Trimmed, Past, Index
<1> QED
  BY <1>4, <1>6

\* A line that stands for no command runs nothing.
LEMMA RunsNone ==
  ASSUME PromptAssumptions, PromptInv, NextLine, UNCHANGED ringVars, Prompt!Meant(Trimmed, Past) = {}
  PROVE  PromptInv' /\ Prompt!EnterNothing
<1>1. UNCHANGED <<history, histPos, histCount, ran>>
  BY DEF ringVars
<1>2. /\ history' \in [Slots -> Texts] /\ histPos' \in Slots /\ histCount' \in 0..HistMax
      /\ ran' \in Texts
  BY <1>1, Now
<1>3. PromptInv' /\ String(line') = <<>> /\ pos' = 0
  BY <1>2, NextLineKeeps
<1>4. Prompt!EnterNothing
  BY <1>1, <1>3 DEF Prompt!EnterNothing, Trimmed, Past, Index
<1> QED
  BY <1>3, <1>4

\* What main runs for a line is what the list of commands says.
LEMMA RunStep ==
  ASSUME PromptAssumptions, PromptInv, RunBlank \/ RunBangBang \/ RunBangNumber \/ RunLine
  PROVE  PromptInv' /\ (Prompt!Enter \/ Prompt!EnterNothing)
<1>1. PromptTypeOK
  BY DEF PromptInv
<1>2. /\ Past \in Seq(Texts) /\ Len(Past) = histCount
      /\ \A i \in 1..histCount : Past[i] = history[Index(i - 1)] /\ Past[i] \in Texts
  BY <1>1, PastTyped
<1>3. Trimmed \in Texts
  <2>1. PICK t : t = String(line)
    OBVIOUS
  <2>2. t \in Texts
    BY <2>1, LineHolds
  <2>3. Prompt!Trim(t) \in Texts
    BY <2>2, TrimTyped
  <2> QED
    BY <2>1, <2>3 DEF Trimmed
<1>5. CASE RunBlank
  <2>1. Prompt!Meant(Trimmed, Past) = {}
    BY <1>5 DEF RunBlank, Blank, Prompt!Meant
  <2>2. NextLine /\ UNCHANGED ringVars
    BY <1>5 DEF RunBlank
  <2> QED
    BY <2>1, <2>2, RunsNone
<1>6. CASE RunBangBang
  <2>1. Trimmed # <<>> /\ Prompt!IsBangBang(Trimmed) /\ histCount > 0 /\ Run(Latest) /\ NextLine
    BY <1>6 DEF RunBangBang, Blank, BangBang
  <2>2. Latest = Past[Len(Past)] /\ Latest \in Texts
    BY <1>1, <2>1, LatestIsLast
  <2>3. Prompt!Meant(Trimmed, Past) = {Latest}
    BY <1>2, <2>1, <2>2 DEF Prompt!Meant
  <2> QED
    BY <2>1, <2>2, <2>3, RunsOne
<1>7. CASE RunBangNumber
  <2>1. /\ Trimmed # <<>> /\ ~(Prompt!IsBangBang(Trimmed) /\ histCount > 0)
        /\ Prompt!IsBangNumber(Trimmed) /\ NextLine
    BY <1>7 DEF RunBangNumber, Blank, BangBang, BangNumber
  <2>2. Prompt!Meant(Trimmed, Past) = IF Asked \in 1..histCount THEN {Past[Asked]} ELSE {}
    BY <1>2, <2>1 DEF Prompt!Meant, Asked
  <2>3. CASE Asked \in 1..histCount /\ Run(history[Index(Asked - 1)])
    <3>1. PICK c : c = history[Index(Asked - 1)]
      OBVIOUS
    <3>2. c = Past[Asked] /\ c \in Texts
      BY <1>2, <2>3, <3>1
    <3>3. Run(c) /\ Prompt!Meant(Trimmed, Past) = {c}
      BY <2>2, <2>3, <3>1, <3>2
    <3> QED
      BY <2>1, <3>2, <3>3, RunsOne
  <2>4. CASE Asked \notin 1..histCount /\ UNCHANGED ringVars
    <3>1. Prompt!Meant(Trimmed, Past) = {}
      BY <2>2, <2>4
    <3> QED
      BY <2>1, <2>4, <3>1, RunsNone
  <2> QED
    BY <1>7, <2>3, <2>4 DEF RunBangNumber
<1>8. CASE RunLine
  <2>1. /\ Trimmed # <<>> /\ ~(Prompt!IsBangBang(Trimmed) /\ histCount > 0)
        /\ ~Prompt!IsBangNumber(Trimmed) /\ Run(Trimmed) /\ NextLine
    BY <1>8 DEF RunLine, Blank, BangBang, BangNumber
  <2>2. Prompt!Meant(Trimmed, Past) = {Trimmed}
    BY <1>2, <2>1 DEF Prompt!Meant
  <2> QED
    BY <1>3, <2>1, <2>2, RunsOne
<1> QED
  BY <1>5, <1>6, <1>7, <1>8

\* Every step of the prompt keeps the invariant, and is a step of the view or
\* changes nothing that it shows.
LEMMA StepImplements ==
  ASSUME PromptAssumptions, PromptInv, [PromptNext]_promptVars
  PROVE  PromptInv' /\ [Prompt!Next]_(Prompt!vars)
<1>1. ASSUME NEW c \in Chars, Type(c) PROVE PromptInv' /\ Prompt!Next
  BY <1>1, TypeStep DEF Prompt!Next
<1>2. CASE Backspace
  BY <1>2, BackspaceStep DEF Prompt!Next
<1>3. CASE Delete
  BY <1>3, DeleteStep DEF Prompt!Next
<1>4. CASE MoveCursor
  BY <1>4, MoveStep DEF Prompt!Next
<1>5. CASE Kill
  BY <1>5, KillStep DEF Prompt!Next
<1>6. CASE Up
  BY <1>6, UpStep DEF Prompt!Next
<1>7. CASE Down
  BY <1>7, DownStep DEF Prompt!Next
<1>8. CASE Enter \/ CtrlD
  BY <1>8, EndOfLine
<1>9. CASE RunBlank \/ RunBangBang \/ RunBangNumber \/ RunLine
  BY <1>9, RunStep DEF Prompt!Next
<1>10. CASE UNCHANGED promptVars
  <2>1. UNCHANGED <<line, len, pos, saved, nav, idx, history, histPos, histCount, ran, state, kept>>
    BY <1>10 DEF promptVars, ringVars
  <2>2. PromptInv'
    BY <2>1 DEF PromptInv, PromptTypeOK, Exact
  <2>3. UNCHANGED Prompt!vars
    BY <2>1 DEF Prompt!vars, Index
  <2> QED
    BY <2>2, <2>3
<1> QED
  BY <1>1, <1>2, <1>3, <1>4, <1>5, <1>6, <1>7, <1>8, <1>9, <1>10 DEF PromptNext

\* An empty buffer and an empty ring: the text and the list are empty.
LEMMA InitImplements ==
  ASSUME PromptAssumptions, PromptInit
  PROVE  PromptInv /\ Prompt!Init
<1>1. /\ line = Buffer(<<>>) /\ len = 0 /\ pos = 0 /\ saved = <<>> /\ nav = 0 /\ idx = 0
      /\ history = [i \in Slots |-> <<>>] /\ histPos = 0 /\ histCount = 0
      /\ state = "edit" /\ ran = <<>> /\ kept = <<>>
  BY DEF PromptInit
<1>2. <<>> \in Texts /\ Len(<<>>) = 0
  BY EmptyText
<1>3. /\ Buffer(<<>>) \in [Cells -> Chars \cup {NUL}] /\ Buffer(<<>>)[Len(<<>>)] = NUL
      /\ String(Buffer(<<>>)) = <<>>
  BY <1>2, BufferHolds, Zenon
<1>4. Size \in Nat /\ Size > 2 /\ HistMax \in Nat \ {0}
  BY DEF PromptAssumptions
<1>5. PromptTypeOK
  BY <1>1, <1>2, <1>3, <1>4 DEF PromptTypeOK, Slots
<1>6. Exact
  BY <1>1, <1>2, <1>3 DEF Exact
<1>7. Prompt!Init
  BY <1>1, <1>3 DEF Prompt!Init
<1> QED
  BY <1>1, <1>5, <1>6, <1>7 DEF PromptInv

-----------------------------------------------------------------------------
(* Theorems *)

\* The inductive invariant of the prompt: the buffer, the browsing and the ring.
THEOREM PromptInvariant ==
  ASSUME PromptAssumptions
  PROVE  PromptSpec => []PromptInv
<1>1. PromptInit => PromptInv
  BY InitImplements
<1>2. PromptInv /\ [PromptNext]_promptVars => PromptInv'
  BY StepImplements
<1> QED
  BY <1>1, <1>2, PTL DEF PromptSpec

\* The string in the buffer is as long as len says, whatever was typed, deleted
\* and recalled.
THEOREM LengthIsExact ==
  ASSUME PromptAssumptions
  PROVE  PromptSpec => []LenExact
<1>1. PromptInv => LenExact
  BY LineHolds DEF LenExact, PromptInv
<1> QED
  BY <1>1, PromptInvariant, PTL

\* Back at the bottom of the history the line is what it was.
THEOREM TextComesBack ==
  ASSUME PromptAssumptions
  PROVE  PromptSpec => TextKept
<1>1. PromptInv /\ [PromptNext]_promptVars => [Down /\ idx' = histCount => String(line') = kept]_promptVars
  BY DownStep
<1> QED
  BY <1>1, PromptInvariant, PTL DEF PromptSpec, TextKept

\* The buffer and the ring implement the text and the list of PromptView.
THEOREM ImplementsPromptView ==
  ASSUME PromptAssumptions
  PROVE  PromptSpec => PromptImplementsView
<1>1. PromptInit => Prompt!Init
  BY InitImplements
<1>2. PromptInv /\ [PromptNext]_promptVars => [Prompt!Next]_(Prompt!vars)
  BY StepImplements
<1> QED
  BY <1>1, <1>2, PromptInvariant, PTL DEF PromptSpec, PromptImplementsView, Prompt!Spec
=============================================================================
