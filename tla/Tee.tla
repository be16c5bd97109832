--------------------------------- MODULE Tee ---------------------------------
(***************************************************************************)
(* tee (src/tee.c): each block that is read is written to standard output  *)
(* and then to one file after the other.                                   *)
(***************************************************************************)
EXTENDS TextTool

\* call = [append, ignore, old, in]: old are the contents of the files.  out is
\* standard output and the files; mem = [block, next, bad]: the block that is
\* written, the output that is next, and which outputs failed.
CONSTANTS BufferSize, MaxFiles

\* What is known of the constants: texts are sequences of bytes.
Assumptions ==
  /\ BufferSize \in Nat /\ MaxFiles \in Nat
  /\ \A c \in Calls : c.append \in {0, 1} /\ c.ignore \in {0, 1} /\ c.old \in Seq(Seq(Nat)) /\ c.in \in Seq(Nat)

Init ==
  /\ call \in Calls
  /\ inp = call.in /\ out = << <<>> >> \o call.old
  /\ mem = [block |-> <<>>, next |-> 1, bad |-> {}]
  /\ pc = "main" /\ status = 0 /\ faults = Faults

\* The first n files are opened: without -a they are emptied.
Opened(n) == [k \in 1..Len(out) |-> IF k \in 2..n + 1 /\ call.append = 0 THEN <<>> ELSE out[k]]

OpenedOnly(n) == out' = Opened(n) /\ mem' = [mem EXCEPT !.bad = n + 2..Len(out)]

Open ==
  /\ pc = "main"
  /\ \/ Len(call.old) <= MaxFiles /\ Works /\ OpenedOnly(Len(call.old)) /\ pc' = "read" /\ status' = status
     \/ Len(call.old) > MaxFiles /\ Works /\ OpenedOnly(MaxFiles) /\ Exit(1)
     \/ \E n \in 0..Min({Len(call.old) - 1, MaxFiles}) : Fails /\ OpenedOnly(n) /\ Exit(1)
  /\ UNCHANGED <<call, inp>>

Read ==
  /\ pc = "read"
  /\ \/ \E n \in 1..Min({BufferSize, Len(inp)}) :
          /\ inp' = From(inp, n + 1)
          /\ mem' = [mem EXCEPT !.block = Take(inp, n), !.next = 1]
          /\ pc' = "write" /\ Works /\ status' = status
     \/ inp = <<>> /\ Exit(0) /\ Works /\ UNCHANGED <<inp, mem>>
     \/ Fails /\ Exit(1) /\ UNCHANGED <<inp, mem>>
  /\ UNCHANGED <<call, out>>

OneAfter(m) == IF m.next < Len(out) THEN [m EXCEPT !.next = @ + 1] ELSE [m EXCEPT !.next = 1, !.block = <<>>]
PcAfter == IF mem.next < Len(out) THEN "write" ELSE "read"

\* Mutant: the files behind one that fails do not get the block.
GiveUp == mem' = [mem EXCEPT !.next = 1, !.block = <<>>, !.bad = @ \cup {mem.next}] /\ pc' = "read"

\* A file that fails is passed over, for this block.
GoOn == mem' = OneAfter([mem EXCEPT !.bad = @ \cup {mem.next}]) /\ pc' = PcAfter

\* full_write: the block, or a part of it and an error.  An error of standard
\* output ends tee.
Write ==
  /\ pc = "write"
  /\ \/ /\ out' = [out EXCEPT ![mem.next] = @ \o mem.block]
        /\ mem' = OneAfter(mem) /\ pc' = PcAfter /\ Works /\ status' = status
     \/ /\ Fails
        /\ \E n \in 0..Len(mem.block) - 1 : out' = [out EXCEPT ![mem.next] = @ \o Take(mem.block, n)]
        /\ IF mem.next = 1 THEN Exit(1) /\ mem' = [mem EXCEPT !.bad = @ \cup {1}] ELSE GoOn /\ status' = status
  /\ UNCHANGED <<call, inp>>

\* signal_handler: exit(130), in the middle of a write too.
Interrupt ==
  /\ pc \in {"read", "write"} /\ call.ignore = 0
  /\ Exit(130) /\ Works
  /\ \E n \in 0..Len(mem.block) : out' = [out EXCEPT ![mem.next] = @ \o Take(mem.block, n)]
  /\ mem' = [mem EXCEPT !.bad = IF pc = "write" THEN @ \cup {mem.next} ELSE @]
  /\ UNCHANGED <<call, inp>>

Next == Open \/ Read \/ Write \/ Interrupt

Spec == Init /\ [][Next]_vars

-----------------------------------------------------------------------------
(* Properties *)

TypeOK ==
  /\ TypesOK({"main", "read", "write", "exited"})
  /\ mem.next \in 1..Len(out) /\ Len(mem.block) <= BufferSize

Base(k) == IF k = 1 \/ call.append = 0 THEN <<>> ELSE call.old[k - 1]
ReadSoFar == Len(call.in) - Len(inp)

\* Whatever fails, every output that has not failed itself holds what was read
\* so far, except the block that is being written, which the outputs in front
\* have; exit status 0 means that this is all of the input.
CopiesSame ==
  pc # "main" =>
    /\ \A k \in 1..Len(out) \ mem.bad :
         LET missing == IF k < mem.next THEN 0 ELSE Len(mem.block)
         IN out[k] = Base(k) \o SubSeq(call.in, 1, ReadSoFar - missing)
    /\ pc = "exited" /\ status = 0 => inp = <<>> /\ mem.block = <<>>
=============================================================================
