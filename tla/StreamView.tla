----------------------------- MODULE StreamView -----------------------------
(***************************************************************************)
(* What a FILE promises its client: each open stream is a file and a       *)
(* position in it.  There is no buffer here, so nothing is written late,   *)
(* read ahead, written twice or in another order.  LibcStdio implements    *)
(* this for streams that only read or only write.                          *)
(***************************************************************************)
EXTENDS Integers, Sequences

CONSTANTS Streams,  \* FILE objects
          Bytes     \* what files are made of

VARIABLES
  view,  \* stream -> what its client sees: [state, content, at]
  user,  \* the stream the current call is about
  todo,  \* bytes fwrite has been given and not accepted yet
  got    \* bytes fread has handed out so far

vars == <<view, user, todo, got>>

Closed == [state |-> "closed", content |-> <<>>, at |-> 0]
\* After a failed write, and for a stream opened for update, nothing is promised.
Lost == [state |-> "lost", content |-> <<>>, at |-> 0]
Opened(content, at) == [state |-> "open", content |-> content, at |-> at]

Overwrite(content, at, data) ==
  LET end == at + Len(data)
  IN [i \in 1..(IF end > Len(content) THEN end ELSE Len(content)) |->
        IF at < i /\ i <= end THEN data[i - at] ELSE content[i]]

Mine == view[user]
Becomes(v) == view' = [view EXCEPT ![user] = v]

\* Nothing is open but what the process is started with.
Init ==
  /\ view \in [Streams -> {Closed, Opened(<<>>, 0)}]
  /\ user \in Streams
  /\ todo = <<>>
  /\ got = <<>>

\* A call begins: bytes to write, or room to read into.
Begin ==
  /\ UNCHANGED view
  /\ user' \in Streams
  /\ todo' \in Seq(Bytes)
  /\ got' = <<>>

Open ==
  /\ \E s \in Streams :
       /\ view[s] = Closed
       /\ view'[s] = Lost \/ /\ view'[s].state = "open"
                             /\ view'[s].at \in {0, Len(view'[s].content)}
       /\ view' = [view EXCEPT ![s] = view'[s]]
  /\ UNCHANGED <<user, todo, got>>

Close == Becomes(Closed) /\ UNCHANGED <<user, todo, got>>

\* Some of the bytes go to the client's position, and it moves behind them.
Write ==
  /\ Mine.state = "open"
  /\ \E k \in 1..Len(todo) :
       /\ Becomes(Opened(Overwrite(Mine.content, Mine.at, SubSeq(todo, 1, k)), Mine.at + k))
       /\ todo' = SubSeq(todo, k + 1, Len(todo))
  /\ UNCHANGED <<user, got>>

\* Some of the bytes at the client's position are handed out.
Read ==
  /\ Mine.state = "open"
  /\ \E k \in 1..(Len(Mine.content) - Mine.at) :
       /\ got' = got \o SubSeq(Mine.content, Mine.at + 1, Mine.at + k)
       /\ Becomes([Mine EXCEPT !.at = @ + k])
  /\ UNCHANGED <<user, todo>>

\* A seek moves the position and never the content.
Seek ==
  /\ Mine.state = "open"
  /\ view'[user].at \in 0..Len(Mine.content)
  /\ Becomes([Mine EXCEPT !.at = view'[user].at])
  /\ UNCHANGED <<user, todo, got>>

Fail == Becomes(Lost) /\ UNCHANGED <<user, got>>

\* Whatever a call does to a lost stream, the other streams do not see it.
Unpromised == Mine.state = "lost" /\ UNCHANGED <<view, user>>

Next == Begin \/ Open \/ Close \/ Write \/ Read \/ Seek \/ Fail \/ Unpromised

Spec == Init /\ [][Next]_vars
=============================================================================
