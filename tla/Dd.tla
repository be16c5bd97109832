--------------------------------- MODULE Dd ---------------------------------
(***************************************************************************)
(* dd (src/dd.c): blocks of ibs bytes are read, converted and written in   *)
(* blocks of obs bytes.  A read of a pipe may return less than was asked   *)
(* for, calls may fail, and SIGINT may arrive at any time.                 *)
(***************************************************************************)
EXTENDS TextTool

-----------------------------------------------------------------------------
(* apply_conv *)

\* An odd last byte stays.
Swab(data) ==
  [k \in 1..Len(data) |->
     IF k % 2 = 1 THEN (IF k < Len(data) THEN data[k + 1] ELSE data[k]) ELSE data[k - 1]]

Spaces(n) == [k \in 1..n |-> Blank]

\* Each line becomes a record of cbs bytes: padded, or cut.
Records(data, cbs) ==
  FoldLeft(LAMBDA r, b :
             IF b = Nl THEN [r EXCEPT !.out = @ \o Spaces(cbs - r.col), !.col = 0]
             ELSE IF r.col < cbs THEN [r EXCEPT !.out = Append(@, b), !.col = @ + 1]
             ELSE r,
           [out |-> <<>>, col |-> 0], data)
Block(data, cbs) ==
  LET r == Records(data, cbs) IN r.out \o (IF r.col > 0 THEN Spaces(cbs - r.col) ELSE <<>>)

Chunks(data, size) ==
  [k \in 1..(Len(data) + size - 1) \div size |-> SubSeq(data, (k - 1) * size + 1, Min({k * size, Len(data)}))]
Stripped(record) ==
  LET kept == {k \in 1..Len(record) : record[k] # Blank} IN SubSeq(record, 1, IF kept = {} THEN 0 ELSE Max(kept))
Unblock(data, cbs) == FlattenSeq([k \in 1..Len(Chunks(data, cbs)) |-> Append(Stripped(Chunks(data, cbs)[k]), Nl)])

ApplyConv(c, data) ==
  LET cased == CASE "lcase" \in c.conv -> MapSeq(ToLower, data) [] "ucase" \in c.conv -> MapSeq(ToUpper, data) [] OTHER -> data
      swabbed == IF "swab" \in c.conv THEN Swab(cased) ELSE cased
  IN CASE "block" \in c.conv   -> Block(swabbed, c.cbs)
       [] "unblock" \in c.conv -> Unblock(swabbed, c.cbs)
       [] OTHER                -> swabbed

\* conv=sync: a short block is padded.
Padded(c, data) ==
  IF "sync" \notin c.conv THEN data
  ELSE data \o [k \in 1..c.ibs - Len(data) |-> IF c.conv \cap {"block", "unblock"} # {} THEN Blank ELSE Nul]

-----------------------------------------------------------------------------
(* parse_args, open_input, open_output, skip_input, seek_output *)

Unlimited == 1000
Limit(c) == IF c.count = Unlimited THEN Unlimited ELSE IF "count_bytes" \in c.flags THEN c.count ELSE c.count * c.ibs
SkipBytes(c) == IF "skip_bytes" \in c.flags THEN c.skip ELSE c.skip * c.ibs
SeekBytes(c) == IF "seek_bytes" \in c.flags THEN c.seek ELSE c.seek * c.obs

Compatible(conv) == \A pair \in {{"lcase", "ucase"}, {"block", "unblock"}, {"excl", "notrunc"}} : ~(pair \subseteq conv)
Valid(c) ==
  /\ Compatible(c.conv)
  /\ c.ibs > 0 /\ c.obs > 0 /\ (c.conv \cap {"block", "unblock"} # {} => c.cbs > 0)

Nobody == [pos |-> 0, buf |-> <<>>, total |-> 0, got |-> <<>>, rest |-> <<>>, stop |-> 0, err |-> 0,
           fullIn |-> 0, partIn |-> 0, fullOut |-> 0, partOut |-> 0, bytesOut |-> 0]

Init ==
  /\ call \in Calls
  /\ inp = call.in /\ out = call.old
  /\ mem = Nobody /\ pc = "main" /\ status = 0 /\ faults = Faults

\* The output is opened after the input, and loses what it held, unless notrunc.
Main ==
  /\ pc = "main"
  /\ \/ (IF Valid(call) /\ ("excl" \in call.conv => call.old = <<>>) THEN Fails ELSE Works)
        /\ Exit(1) /\ UNCHANGED <<inp, out, mem>>
     \/ /\ Valid(call) /\ ("excl" \in call.conv => call.old = <<>>) /\ Works
        /\ out' = IF "notrunc" \in call.conv THEN out ELSE <<>>
        /\ inp' = From(inp, SkipBytes(call) + 1)
        /\ mem' = [mem EXCEPT !.pos = SeekBytes(call)]
        /\ pc' = "read" /\ status' = status
  /\ UNCHANGED call

-----------------------------------------------------------------------------
(* do_copy *)

Remaining == Limit(call) - mem.total
Want == Min({call.ibs, Remaining})

\* What one read may return: a regular file gives all there is.
ReadSizes(want) ==
  LET most == Min({want, Len(inp)}) IN IF call.pipe = 1 /\ most > 0 THEN 1..most ELSE {most}

\* A block of len bytes is there: it is counted, padded, converted.

CountIn(c, m, len) ==
  IF len = c.ibs THEN [m EXCEPT !.fullIn = @ + 1] ELSE [m EXCEPT !.partIn = @ + 1]
Taken(m, data) ==
  [CountIn(call, m, Len(data)) EXCEPT !.total = @ + Len(data), !.got = <<>>, !.rest = ApplyConv(call, Padded(call, data))]

\* read_full: one read after the other until the block is full (fullblock), or
\* one read.  A signal does not end a read that waits: EINTR is retried.
Read ==
  /\ pc = "read"
  /\ ((mem.stop = 0 /\ Remaining > 0) \/ mem.got # <<>>)
  /\ \E n \in ReadSizes(Want - Len(mem.got)) :
       LET got == mem.got \o SubSeq(inp, 1, n) IN
         /\ inp' = From(inp, n + 1)
         /\ IF n > 0 /\ "fullblock" \in call.flags /\ Len(got) < Want
              THEN mem' = [mem EXCEPT !.got = got] /\ pc' = "read"
            ELSE IF got = <<>> THEN mem' = mem /\ pc' = "finish"
            ELSE mem' = Taken(mem, got) /\ pc' = "write"
  /\ Works /\ UNCHANGED <<call, out, status>>

\* A read fails: what read_full had is lost.  noerror goes on; with sync a block
\* of NULs takes its place, which is counted twice.
ReadFails ==
  /\ pc = "read" /\ ((mem.stop = 0 /\ Remaining > 0) \/ mem.got # <<>>)
  /\ Fails
  /\ LET counted == [mem EXCEPT !.partIn = @ + 1, !.got = <<>>, !.err = 1] IN
       IF "noerror" \notin call.conv THEN Exit(1) /\ mem' = mem
       ELSE IF "sync" \notin call.conv THEN mem' = counted /\ UNCHANGED <<pc, status>>
       ELSE mem' = Taken(counted, [k \in 1..Want |-> Nul]) /\ pc' = "write" /\ status' = status
  /\ UNCHANGED <<call, inp, out>>

Stops ==
  /\ pc = "read" /\ mem.got = <<>> /\ (mem.stop = 1 \/ Remaining <= 0)
  /\ pc' = "finish" /\ UNCHANGED <<call, inp, out, mem, status, faults>>

\* write at an offset; with append, at the end.
WrittenAt(held, pos, data) ==
  LET at == IF "append" \in call.flags THEN Len(held) ELSE pos
  IN [k \in 1..Max({Len(held), at + Len(data)}) |->
        IF k \in at + 1..at + Len(data) THEN data[k - at] ELSE IF k <= Len(held) THEN held[k] ELSE Nul]

\* outbuf_flush_block.  With sparse a block of zeros is not written but passed
\* over; at the end one zero byte is written behind it.
Zeros(data) == \A k \in 1..Len(data) : data[k] = Nul
Flushed(data, atEnd) ==
  LET skips == "sparse" \in call.conv /\ Zeros(data) IN
    [out |-> CASE ~skips -> WrittenAt(out, mem.pos, data)
               [] skips /\ atEnd -> WrittenAt(out, mem.pos + Len(data), <<Nul>>)
               [] skips /\ ~atEnd -> out,
     mem |-> [mem EXCEPT !.pos = @ + Len(data), !.buf = <<>>, !.bytesOut = @ + Len(data),
                         !.fullOut = IF Len(data) = call.obs THEN @ + 1 ELSE @,
                         !.partOut = IF Len(data) = call.obs THEN @ ELSE @ + 1]]

\* A write that fails may come after others that took a part of the block.
PartlyWritten(data, atEnd) ==
  CASE ~("sparse" \in call.conv /\ Zeros(data)) -> {out} \cup {WrittenAt(out, mem.pos, Take(data, n)) : n \in 1..Len(data) - 1}
    [] atEnd -> {out}
    [] OTHER -> {}

\* outbuf_write: the buffer is filled, and flushed when it holds obs bytes.
Write ==
  /\ pc = "write"
  /\ LET n == Min({call.obs - Len(mem.buf), Len(mem.rest)})
         buf == mem.buf \o SubSeq(mem.rest, 1, n)
         rest == From(mem.rest, n + 1)
         block == Flushed(buf, FALSE)
     IN \/ /\ Len(buf) < call.obs /\ Works
           /\ mem' = [mem EXCEPT !.buf = buf, !.rest = <<>>] /\ out' = out /\ pc' = "read" /\ status' = status
        \/ /\ Len(buf) = call.obs /\ Works
           /\ mem' = [block.mem EXCEPT !.rest = rest] /\ out' = block.out
           /\ pc' = (IF rest = <<>> THEN "read" ELSE "write") /\ status' = status
        \/ Len(buf) = call.obs /\ Fails /\ Exit(1) /\ out' \in PartlyWritten(buf, FALSE) /\ mem' = mem
  /\ UNCHANGED <<call, inp>>

\* Mutant: what is left in the buffer is forgotten when dd was interrupted.
LeftUnlessStopped == IF mem.stop = 1 THEN <<>> ELSE mem.buf

Left == mem.buf

Finish ==
  /\ pc = "finish"
  /\ \/ /\ Works /\ Exit(mem.stop)
        /\ IF Left = <<>> THEN UNCHANGED <<mem, out>>
           ELSE mem' = Flushed(Left, TRUE).mem /\ out' = Flushed(Left, TRUE).out
     \/ Left # <<>> /\ Fails /\ Exit(1) /\ out' \in PartlyWritten(Left, TRUE) /\ mem' = mem
  /\ UNCHANGED <<call, inp>>

Interrupt ==
  /\ pc \in {"read", "write"} /\ mem.stop = 0
  /\ mem' = [mem EXCEPT !.stop = 1]
  /\ UNCHANGED <<call, inp, out, pc, status, faults>>

Next == Main \/ Read \/ ReadFails \/ Stops \/ Write \/ Finish \/ Interrupt

Spec == Init /\ [][Next]_vars

-----------------------------------------------------------------------------
(* Properties *)

TypeOK ==
  /\ TypesOK({"main", "read", "write", "finish", "exited"})
  /\ Valid(call) => Len(mem.buf) < call.obs /\ Len(mem.got) <= call.ibs /\ mem.total <= Limit(call)

\* The bytes to copy, and what the conversions make of them, block by block.
Source == From(call.in, SkipBytes(call) + 1)
Due == Take(Source, IF status = 1 THEN mem.total ELSE Limit(call))
Base == IF "notrunc" \in call.conv THEN call.old ELSE <<>>
Converted(data) == FlattenSeq([k \in 1..Len(Chunks(data, call.ibs)) |-> ApplyConv(call, Padded(call, Chunks(data, call.ibs)[k]))])
\* The result does not depend on the sizes of the reads.
Regular == call.pipe = 0 \/ "fullblock" \in call.flags \/ call.conv \cap {"swab", "block", "unblock", "sync"} = {}

\* dd that ends by itself, or is interrupted and ends, has written exactly what
\* it has read, converted, at its place, however the reads were cut: nothing is
\* left in a buffer, and nothing else is changed.
CopyRight ==
  pc = "exited" /\ (status = 0 \/ (mem.stop = 1 /\ faults = Faults)) /\ Regular /\ mem.err = 0 /\ "sparse" \notin call.conv =>
    out = (IF Converted(Due) = <<>> THEN Base ELSE WrittenAt(Base, SeekBytes(call), Converted(Due)))

\* The records add up: at most one written record is not full, and with no read
\* error the records read hold the bytes read.
RecordsAdd ==
  pc = "exited" /\ Valid(call) =>
    /\ mem.partOut <= 1 /\ mem.fullOut * call.obs <= mem.bytesOut /\ mem.bytesOut <= (mem.fullOut + mem.partOut) * call.obs
    /\ mem.err = 0 => mem.fullIn * call.ibs + mem.partIn <= mem.total /\ mem.total <= mem.fullIn * call.ibs + mem.partIn * (call.ibs - 1)

\* conv=unblock gives back the lines that conv=block was given, when they fit
\* and do not end in spaces.
Fits(data, cbs) ==
  /\ data = <<>> \/ Last(data) = Nl
  /\ \A j, k \in 1..Len(data) : j < k /\ k - j >= cbs => \E x \in j..k : data[x] = Nl
  /\ \A k \in 2..Len(data) : data[k] = Nl => data[k - 1] # Blank
BlocksUnblock ==
  call.cbs > 0 /\ Fits(call.in, call.cbs) => Unblock(Block(call.in, call.cbs), call.cbs) = call.in
=============================================================================
