----------------------- MODULE ToolshPipelineProofs -----------------------
(***************************************************************************)
(* ToolshPipeline for every number of stages, every pipe capacity and      *)
(* every pipeline.  PipelineInv is inductive; the safety properties follow *)
(* from it.                                                                *)
(***************************************************************************)
EXTENDS ToolshPipeline, TLAPS

\* What each end is: the pipe it belongs to, and its direction.
LEMMA EndFacts ==
  /\ \A e \in Ends : e[1] \in 1..(N - 1)
  /\ \A i \in Stages : InEnd(i) \subseteq Ends /\ OutEnd(i) \subseteq Ends
BY DEF Ends, Pipes, InEnd, OutEnd

\* Whatever its redirections, a stage that is wired keeps only its own ends.
LEMMA WiredIsOwn ==
  ASSUME NEW i \in Stages
  PROVE  Wired(i) \subseteq InEnd(i) \cup OutEnd(i)
BY DEF Wired

\* The invariant holds when run_pipeline begins to make the pipes.
LEMMA InitInv == PipelineInit => PipelineInv
<1> SUFFICES ASSUME PipelineInit PROVE PipelineInv
  OBVIOUS
<1> USE DEF PipelineInit
<1>1. PipelineTypeOK
  BY PipelineAssumption DEF PipelineTypeOK, Stages, Pipes, Ends
<1>2. EndsBelowClosed /\ RunningOwn
  BY DEF EndsBelowClosed, RunningOwn, Shell, Stages
<1>3. ReapedBelow /\ ReapedByWhom /\ LastKnown
  BY DEF ReapedBelow, ReapedByWhom, LastKnown
<1> QED BY <1>1, <1>2, <1>3 DEF PipelineInv

\* A failing pipe() or fork() ends run_pipeline and touches nothing else.
LEMMA FailKeeps ==
  ASSUME PipelineInv, Fail
  PROVE  PipelineInv'
<1> USE DEF PipelineInv, Fail
<1>1. PipelineTypeOK'
  BY DEF PipelineTypeOK
<1>2. EndsBelowClosed' /\ RunningOwn'
  BY DEF EndsBelowClosed, RunningOwn, InEnd, OutEnd
<1>3. ReapedBelow' /\ LastKnown'
  BY DEF ReapedBelow, LastKnown
<1>4. ReapedByWhom'
  BY DEF ReapedByWhom
<1> QED BY <1>1, <1>2, <1>3, <1>4

\* The shell's loop that makes the pipes.
LEMMA MakePipeKeeps ==
  ASSUME PipelineInv, MakePipe
  PROVE  PipelineInv'
<1> USE PipelineAssumption
<1>1. CASE Fail
  BY <1>1, FailKeeps
<1>2. CASE ~Fail
  <2> USE DEF PipelineInv
  <2>1. PipelineTypeOK'
    <3>1. CASE k < N
      <4>1. /\ ends' = [ends EXCEPT ![Shell] = @ \cup {<<k, "r">>, <<k, "w">>}]
            /\ k' = k + 1
            /\ UNCHANGED <<cmds, full, child, status, at, result, last_exit, failed, taken>>
        BY <1>2, <3>1 DEF MakePipe, PipelineTypeOK
      <4>2. {<<k, "r">>, <<k, "w">>} \subseteq Ends
        BY <3>1 DEF PipelineTypeOK, Ends, Pipes
      <4>3. ends' \in [{Shell} \cup Stages -> SUBSET Ends]
        BY <4>1, <4>2 DEF PipelineTypeOK
      <4>4. k' \in 1..(N + 1)
        BY <4>1, <3>1 DEF PipelineTypeOK
      <4> QED BY <4>1, <4>3, <4>4 DEF PipelineTypeOK
    <3>2. CASE k = N
      BY <1>2, <3>2 DEF MakePipe, PipelineTypeOK
    <3> QED BY <1>2, <3>1, <3>2 DEF MakePipe
  <2>2. RunningOwn'
    <3>1. \A i \in Stages : ends'[i] = ends[i]
      <4>1. \/ ends' = ends
            \/ ends' = [ends EXCEPT ![Shell] = @ \cup {<<k, "r">>, <<k, "w">>}]
        BY <1>2 DEF MakePipe
      <4>2. \A i \in Stages : i # Shell
        BY DEF Stages, Shell
      <4> QED BY <4>1, <4>2 DEF PipelineTypeOK
    <3>2. child' = child
      BY <1>2 DEF MakePipe
    <3> QED BY <3>1, <3>2 DEF RunningOwn, InEnd, OutEnd
  <2>3. at = "pipe" /\ at' \in {"pipe", "fork"} /\ UNCHANGED <<child, status, failed, taken>>
    BY <1>2 DEF MakePipe
  <2>4. EndsBelowClosed' /\ ReapedBelow' /\ LastKnown'
    BY <2>3 DEF EndsBelowClosed, ReapedBelow, LastKnown
  <2>5. ReapedByWhom'
    BY <2>3 DEF ReapedByWhom
  <2> QED BY <2>1, <2>2, <2>4, <2>5
<1> QED BY <1>1, <1>2

\* The shell's loop that forks the stages.
LEMMA ForkKeeps ==
  ASSUME PipelineInv, ForkStage
  PROVE  PipelineInv'
<1> USE PipelineAssumption
<1>1. CASE Fail
  BY <1>1, FailKeeps
<1>2. CASE ~Fail /\ k <= N
  <2> USE DEF PipelineInv
  <2>1. /\ at = "fork" /\ at' = at /\ k' = k + 1 /\ k \in Stages
        /\ child' = [child EXCEPT ![k] = "forked"]
        /\ ends' = [ends EXCEPT ![k] = ends[Shell]]
        /\ UNCHANGED <<cmds, full, status, result, last_exit, failed, taken>>
    BY <1>2 DEF ForkStage, MoreStages, PipelineTypeOK, Stages
  <2>2. PipelineTypeOK'
    <3>1. ends' \in [{Shell} \cup Stages -> SUBSET Ends]
      BY <2>1 DEF PipelineTypeOK
    <3>2. child' \in [Stages -> {"none", "forked", "reading", "writing", "zombie", "reaped"}]
      BY <2>1 DEF PipelineTypeOK
    <3>3. k' \in 1..(N + 1)
      BY <2>1 DEF PipelineTypeOK, Stages
    <3> QED BY <2>1, <3>1, <3>2, <3>3 DEF PipelineTypeOK
  <2>3. RunningOwn'
    <3>1. \A i \in Stages \ {k} : ends'[i] = ends[i] /\ child'[i] = child[i]
      BY <2>1 DEF PipelineTypeOK
    <3>2. child'[k] = "forked"
      BY <2>1 DEF PipelineTypeOK
    <3> QED BY <3>1, <3>2 DEF RunningOwn, InEnd, OutEnd
  <2>4. EndsBelowClosed' /\ ReapedBelow' /\ LastKnown'
    BY <2>1 DEF EndsBelowClosed, ReapedBelow, LastKnown
  <2>5. ReapedByWhom'
    <3>1. \A i \in Stages : child'[i] = "reaped" => child[i] = "reaped"
      BY <2>1 DEF PipelineTypeOK
    <3> QED BY <2>1, <3>1 DEF ReapedByWhom
  <2> QED BY <2>2, <2>3, <2>4, <2>5
<1>3. CASE ~Fail /\ k > N
  <2> USE DEF PipelineInv
  <2>1. /\ at = "fork" /\ at' = "close" /\ k' = 1
        /\ UNCHANGED <<cmds, ends, full, child, status, result, last_exit, failed, taken>>
    BY <1>3 DEF ForkStage, MoreStages, PipelineTypeOK
  <2>2. PipelineTypeOK'
    BY <2>1 DEF PipelineTypeOK
  <2>3. EndsBelowClosed'
    BY <2>1, EndFacts DEF EndsBelowClosed, PipelineTypeOK, Shell
  <2>4. RunningOwn' /\ ReapedBelow' /\ LastKnown'
    BY <2>1 DEF RunningOwn, ReapedBelow, LastKnown, InEnd, OutEnd
  <2>5. ReapedByWhom'
    BY <2>1 DEF ReapedByWhom
  <2> QED BY <2>2, <2>3, <2>4, <2>5
<1> QED BY <1>1, <1>2, <1>3 DEF PipelineInv, PipelineTypeOK

\* The shell's loop that closes its ends: below k they are closed.
LEMMA CloseEndsKeeps ==
  ASSUME PipelineInv, CloseEnds
  PROVE  PipelineInv'
<1> USE PipelineAssumption DEF PipelineInv
<1>1. CASE k < N
  <2>1. /\ at = "close" /\ at' = "close" /\ k' = k + 1
        /\ ends' = [ends EXCEPT ![Shell] = @ \ CloseBothEnds(k)]
        /\ UNCHANGED <<cmds, full, child, status, result, last_exit, failed, taken>>
    BY <1>1 DEF CloseEnds
  <2>2. PipelineTypeOK'
    <3>1. ends' \in [{Shell} \cup Stages -> SUBSET Ends]
      BY <2>1 DEF PipelineTypeOK
    <3>2. k' \in 1..(N + 1)
      BY <2>1, <1>1 DEF PipelineTypeOK
    <3> QED BY <2>1, <3>1, <3>2 DEF PipelineTypeOK
  <2>3. EndsBelowClosed'
    <3>1. ends'[Shell] = ends[Shell] \ {<<k, "r">>, <<k, "w">>}
      BY <2>1 DEF PipelineTypeOK, CloseBothEnds
    <3>2. ASSUME NEW e \in ends'[Shell]
          PROVE  e[1] >= k + 1
      <4>1. e \in Ends /\ e \in ends[Shell]
        BY <3>1, <3>2 DEF PipelineTypeOK
      <4>2. e[1] >= k /\ e[1] \in Nat /\ k \in Nat
        BY <4>1, <2>1, EndFacts DEF EndsBelowClosed, PipelineTypeOK
      <4>3. e[1] # k
        BY <4>1, <3>1, <3>2 DEF Ends
      <4> QED BY <4>2, <4>3
    <3> QED BY <2>1, <3>2 DEF EndsBelowClosed
  <2>4. RunningOwn'
    <3>1. \A i \in Stages : ends'[i] = ends[i]
      BY <2>1 DEF PipelineTypeOK, Stages, Shell
    <3> QED BY <2>1, <3>1 DEF RunningOwn, InEnd, OutEnd
  <2>5. ReapedBelow' /\ LastKnown'
    BY <2>1 DEF ReapedBelow, LastKnown
  <2>6. ReapedByWhom'
    BY <2>1 DEF ReapedByWhom
  <2> QED BY <2>2, <2>3, <2>4, <2>5, <2>6
<1>2. CASE ~(k < N)
  <2>1. /\ at = "close" /\ at' = "wait" /\ k' = 1 /\ ends' = ends
        /\ UNCHANGED <<cmds, full, child, status, result, last_exit, failed, taken>>
    BY <1>2 DEF CloseEnds
  <2>2. PipelineTypeOK'
    BY <2>1 DEF PipelineTypeOK
  <2>3. ends[Shell] = {}
    <3> SUFFICES ASSUME NEW e \in ends[Shell] PROVE FALSE
      OBVIOUS
    <3>1. e \in Ends
      BY DEF PipelineTypeOK
    <3>2. e[1] >= k /\ e[1] \in 1..(N - 1) /\ k >= N /\ k \in Nat
      BY <1>2, <2>1, <3>1, EndFacts DEF EndsBelowClosed, PipelineTypeOK
    <3> QED BY <3>2
  <2>4. EndsBelowClosed'
    BY <2>1, <2>3 DEF EndsBelowClosed
  <2>5. RunningOwn'
    BY <2>1 DEF RunningOwn, InEnd, OutEnd
  <2>6. ReapedBelow' /\ LastKnown'
    BY <2>1 DEF ReapedBelow, LastKnown, Stages
  <2>7. ReapedByWhom'
    BY <2>1 DEF ReapedByWhom
  <2> QED BY <2>2, <2>4, <2>5, <2>6, <2>7
<1> QED BY <1>1, <1>2

\* waitpid, for a stage that has ended or that the handler has reaped: in both
\* cases the stage is reaped, and the last one decides the result.
LEMMA WaitKeeps ==
  ASSUME PipelineInv, Wait
  PROVE  PipelineInv'
<1> USE PipelineAssumption DEF PipelineInv
<1>1. /\ at = "wait" /\ at' = at /\ k \in Stages /\ k' = k + 1
      /\ UNCHANGED <<cmds, ends, full, status, last_exit, failed, taken>>
  BY DEF Wait, PipelineTypeOK, Stages
<1>2. child' = [child EXCEPT ![k] = "reaped"]
  BY DEF Wait, PipelineTypeOK
<1>3. /\ child'[k] = "reaped"
      /\ \A i \in Stages \ {k} : child'[i] = child[i]
  BY <1>1, <1>2 DEF PipelineTypeOK
<1>4. result' \in Statuses
  BY <1>1 DEF Wait, PipelineTypeOK, KeepLast
<1>5. PipelineTypeOK'
  <2>1. child' \in [Stages -> {"none", "forked", "reading", "writing", "zombie", "reaped"}]
    BY <1>2 DEF PipelineTypeOK
  <2>2. k' \in 1..(N + 1)
    BY <1>1 DEF Stages
  <2> QED BY <1>1, <1>4, <2>1, <2>2 DEF PipelineTypeOK
<1>6. EndsBelowClosed'
  BY <1>1 DEF EndsBelowClosed
<1>7. RunningOwn'
  <2>1. child[k] # "forked"
    BY DEF Wait
  <2> QED BY <1>1, <1>3, <2>1 DEF RunningOwn, InEnd, OutEnd
<1>8. ReapedBelow'
  <2>1. \A i \in Stages : i < k + 1 => i = k \/ i < k
    BY <1>1 DEF Stages
  <2> QED BY <1>1, <1>3, <2>1 DEF ReapedBelow
<1>9. ReapedByWhom'
  <2>1. \A i \in Stages : i < k => i < k + 1
    BY <1>1 DEF Stages
  <2>2. k < k + 1
    BY <1>1 DEF Stages
  <2> QED BY <1>1, <1>3, <2>1, <2>2 DEF ReapedByWhom
<1>10. LastKnown'
  <2> SUFFICES ASSUME k + 1 > N, N \notin taken PROVE result' = status[N]
    BY <1>1 DEF LastKnown
  <2>1. k = N
    BY <1>1 DEF Stages
  <2>2. child[N] # "reaped"
    BY <1>1, <2>1 DEF ReapedByWhom, Stages
  <2> QED BY <2>1, <2>2 DEF Wait, KeepLast
<1> QED BY <1>5, <1>6, <1>7, <1>8, <1>9, <1>10

\* The end of run_pipeline.
LEMMA DoneKeeps ==
  ASSUME PipelineInv, Done
  PROVE  PipelineInv'
<1> USE PipelineAssumption DEF PipelineInv
<1>1. /\ at = "wait" /\ k > N /\ at' = "done" /\ last_exit' = result
      /\ UNCHANGED <<cmds, ends, full, child, status, k, result, failed, taken>>
  BY DEF Done, AllWaitedFor
<1>2. PipelineTypeOK'
  BY <1>1 DEF PipelineTypeOK
<1>3. EndsBelowClosed' /\ RunningOwn'
  BY <1>1 DEF EndsBelowClosed, RunningOwn, InEnd, OutEnd
<1>4. ReapedBelow'
  <2>1. \A i \in Stages : i < k
    BY <1>1 DEF PipelineTypeOK, Stages
  <2> QED BY <1>1, <2>1 DEF ReapedBelow
<1>5. ReapedByWhom'
  BY <1>1 DEF ReapedByWhom
<1>6. LastKnown'
  BY <1>1 DEF LastKnown
<1> QED BY <1>2, <1>3, <1>4, <1>5, <1>6

\* The handler takes a status; the shell does not notice.
LEMMA SigchldKeeps ==
  ASSUME PipelineInv, Sigchld
  PROVE  PipelineInv'
<1> USE PipelineAssumption DEF PipelineInv
<1>1. PICK j \in Stages :
        /\ child[j] = "zombie"
        /\ child' = [child EXCEPT ![j] = "reaped"]
        /\ taken' = taken \cup {j}
        /\ UNCHANGED <<cmds, ends, full, status, at, k, result, last_exit, failed>>
  BY DEF Sigchld
<1>2. /\ child'[j] = "reaped"
      /\ \A i \in Stages \ {j} : child'[i] = child[i]
  BY <1>1 DEF PipelineTypeOK
<1>3. PipelineTypeOK'
  <2>1. child' \in [Stages -> {"none", "forked", "reading", "writing", "zombie", "reaped"}]
    BY <1>1 DEF PipelineTypeOK
  <2> QED BY <1>1, <2>1 DEF PipelineTypeOK
<1>4. EndsBelowClosed'
  BY <1>1 DEF EndsBelowClosed
<1>5. RunningOwn'
  BY <1>1, <1>2 DEF RunningOwn, InEnd, OutEnd
<1>6. ReapedBelow'
  BY <1>1, <1>2 DEF ReapedBelow
<1>7. ReapedByWhom'
  BY <1>1, <1>2 DEF ReapedByWhom
<1>8. LastKnown'
  BY <1>1 DEF LastKnown
<1> QED BY <1>3, <1>4, <1>5, <1>6, <1>7, <1>8

\* What every step of a stage does to the state the shell relies on: a stage
\* that has not ended goes on or ends, and has no more than its own ends.
Moves(i) ==
  /\ child[i] \in {"forked", "reading", "writing"}
  /\ \E c \in {"reading", "writing", "zombie"} : child' = [child EXCEPT ![i] = c]
  /\ \E own \in SUBSET (InEnd(i) \cup OutEnd(i)) : ends' = [ends EXCEPT ![i] = own]
  /\ \E st \in Statuses : status' = [status EXCEPT ![i] = st]
  /\ full' \in [Pipes -> 0..Cap]
  /\ UNCHANGED <<cmds, at, k, result, last_exit, failed, taken>>

\* A stage that moves keeps the invariant.
LEMMA MovesKeep ==
  ASSUME PipelineInv, NEW i \in Stages, Moves(i)
  PROVE  PipelineInv'
<1> USE PipelineAssumption DEF PipelineInv
<1>1. PICK c \in {"reading", "writing", "zombie"} : child' = [child EXCEPT ![i] = c]
  BY DEF Moves
<1>2. PICK own \in SUBSET (InEnd(i) \cup OutEnd(i)) : ends' = [ends EXCEPT ![i] = own]
  BY DEF Moves
<1>3. PICK st \in Statuses : status' = [status EXCEPT ![i] = st]
  BY DEF Moves
<1>4. /\ child[i] \in {"forked", "reading", "writing"}
      /\ full' \in [Pipes -> 0..Cap]
      /\ UNCHANGED <<cmds, at, k, result, last_exit, failed, taken>>
  BY DEF Moves
<1>5. /\ child'[i] = c /\ ends'[i] = own
      /\ \A j \in Stages \ {i} : child'[j] = child[j] /\ ends'[j] = ends[j] /\ status'[j] = status[j]
      /\ \A j \in Stages : child[j] = "reaped" => child'[j] = "reaped" /\ status'[j] = status[j]
      /\ \A j \in Stages : child'[j] = "reaped" => child[j] = "reaped"
  BY <1>1, <1>2, <1>3, <1>4 DEF PipelineTypeOK
<1>6. ends'[Shell] = ends[Shell]
  BY <1>2 DEF PipelineTypeOK, Stages, Shell
<1>7. PipelineTypeOK'
  <2>1. own \subseteq Ends
    BY <1>2, EndFacts
  <2>2. ends' \in [{Shell} \cup Stages -> SUBSET Ends]
    BY <1>2, <2>1 DEF PipelineTypeOK
  <2>3. child' \in [Stages -> {"none", "forked", "reading", "writing", "zombie", "reaped"}]
    BY <1>1 DEF PipelineTypeOK
  <2>4. status' \in [Stages -> Statuses]
    BY <1>3 DEF PipelineTypeOK
  <2> QED BY <1>4, <2>2, <2>3, <2>4 DEF PipelineTypeOK
<1>8. EndsBelowClosed'
  BY <1>4, <1>6 DEF EndsBelowClosed
<1>9. RunningOwn'
  BY <1>5 DEF RunningOwn, InEnd, OutEnd
<1>10. ReapedBelow'
  BY <1>4, <1>5 DEF ReapedBelow
<1>11. ReapedByWhom'
  BY <1>4, <1>5 DEF ReapedByWhom
<1>12. LastKnown'
  <2>1. N \in Stages
    BY DEF Stages
  <2>2. CASE at = "wait" /\ k > N
    <3>1. child[N] = "reaped"
      BY <2>1, <2>2 DEF ReapedBelow, PipelineTypeOK, Stages
    <3> QED BY <1>4, <1>5, <2>1, <2>2, <3>1 DEF LastKnown
  <2>3. CASE at = "done" /\ failed = 0
    <3>1. child[N] = "reaped"
      BY <2>1, <2>3 DEF ReapedBelow
    <3> QED BY <1>4, <1>5, <2>1, <2>3, <3>1 DEF LastKnown
  <2> QED BY <1>4, <2>2, <2>3 DEF LastKnown
<1> QED BY <1>7, <1>8, <1>9, <1>10, <1>11, <1>12

\* A stage that goes: a process that ends holds nothing.
LEMMA GoneMoves ==
  ASSUME PipelineTypeOK, NEW i \in Stages, NEW st \in Statuses, Gone(i, st),
         child[i] \in {"forked", "reading", "writing"},
         full' \in [Pipes -> 0..Cap],
         UNCHANGED <<cmds, at, k, result, last_exit, failed, taken>>
  PROVE  Moves(i)
BY DEF Moves, Gone

\* A stage that goes on: its ends and its status stay what they are.
LEMMA GoesOnMoves ==
  ASSUME PipelineTypeOK, RunningOwn, NEW i \in Stages, NEW c \in {"reading", "writing"},
         child[i] \in {"reading", "writing"},
         child' = [child EXCEPT ![i] = c],
         full' \in [Pipes -> 0..Cap],
         UNCHANGED <<cmds, ends, status, at, k, result, last_exit, failed, taken>>
  PROVE  Moves(i)
<1>1. ends' = [ends EXCEPT ![i] = ends[i]] /\ ends[i] \subseteq InEnd(i) \cup OutEnd(i)
  BY DEF PipelineTypeOK, RunningOwn
<1>2. status' = [status EXCEPT ![i] = status[i]] /\ status[i] \in Statuses
  BY DEF PipelineTypeOK
<1> QED BY <1>1, <1>2 DEF Moves

\* Setting up, reading, writing and quitting are such moves.
LEMMA StageMoves ==
  ASSUME PipelineInv, NEW i \in Stages, StageStep(i) \/ Quit(i)
  PROVE  Moves(i)
<1> USE PipelineAssumption DEF PipelineInv
<1>1. CASE SetUp(i)
  <2>1. CASE \E st \in Statuses \ {0} : Gone(i, st)
    BY <1>1, <2>1, GoneMoves DEF SetUp, PipelineTypeOK
  <2>2. CASE ends' = [ends EXCEPT ![i] = Wired(i)]
    <3>1. status' = status \/ \E st \in Statuses \ {0} : Gone(i, st)
      BY <1>1 DEF SetUp
    <3>2. CASE status' = status
      <4>1. status' = [status EXCEPT ![i] = status[i]] /\ status[i] \in Statuses
        BY <3>2 DEF PipelineTypeOK
      <4>2. CASE \E st \in Statuses \ {0} : Gone(i, st)
        BY <1>1, <4>2, GoneMoves DEF SetUp, PipelineTypeOK
      <4>3. CASE child' = [child EXCEPT ![i] = IF cmds[i].kind \in {"yes", "once"}
                                                 THEN "writing" ELSE "reading"]
        BY <1>1, <2>2, <4>1, <4>3, WiredIsOwn DEF SetUp, Moves, PipelineTypeOK
      <4> QED BY <1>1, <4>2, <4>3 DEF SetUp
    <3> QED BY <1>1, <2>1, <3>1, <3>2
  <2> QED BY <1>1, <2>1, <2>2 DEF SetUp
<1>2. CASE Read(i)
  <2>1. full' \in [Pipes -> 0..Cap]
    <3>1. CASE full' = full
      BY <3>1 DEF PipelineTypeOK
    <3>2. CASE full[i - 1] > 0 /\ full' = [full EXCEPT ![i - 1] = @ - 1]
      <4>1. ASSUME NEW j \in Pipes
            PROVE  full'[j] \in 0..Cap
        <5>1. full[j] \in 0..Cap
          BY DEF PipelineTypeOK
        <5>2. CASE j = i - 1
          <6>1. full'[j] = full[j] - 1
            BY <3>2, <5>2 DEF PipelineTypeOK
          <6> QED BY <3>2, <5>1, <5>2, <6>1
        <5>3. CASE j # i - 1
          <6>1. full'[j] = full[j]
            BY <3>2, <5>3 DEF PipelineTypeOK
          <6> QED BY <5>1, <6>1
        <5> QED BY <5>2, <5>3
      <4>2. full' = [j \in Pipes |-> full'[j]]
        BY <3>2 DEF PipelineTypeOK
      <4> QED BY <4>1, <4>2
    <3> QED BY <1>2, <3>1, <3>2 DEF Read
  <2>2. CASE Gone(i, 0)
    BY <1>2, <2>1, <2>2, GoneMoves DEF Read
  <2>3. CASE child' = [child EXCEPT ![i] = "writing"] /\ UNCHANGED <<status, ends>>
    BY <1>2, <2>1, <2>3, GoesOnMoves DEF Read
  <2> QED BY <1>2, <2>2, <2>3 DEF Read
<1>3. CASE Write(i)
  <2>1. full' \in [Pipes -> 0..Cap]
    <3>1. CASE full' = full
      BY <3>1 DEF PipelineTypeOK
    <3>2. CASE full[i] < Cap /\ full' = [full EXCEPT ![i] = @ + 1]
      <4>1. ASSUME NEW j \in Pipes
            PROVE  full'[j] \in 0..Cap
        <5>1. full[j] \in 0..Cap
          BY DEF PipelineTypeOK
        <5>2. CASE j = i
          <6>1. full'[j] = full[j] + 1
            BY <3>2, <5>2 DEF PipelineTypeOK
          <6> QED BY <3>2, <5>1, <5>2, <6>1
        <5>3. CASE j # i
          <6>1. full'[j] = full[j]
            BY <3>2, <5>3 DEF PipelineTypeOK
          <6> QED BY <5>1, <6>1
        <5> QED BY <5>2, <5>3
      <4>2. full' = [j \in Pipes |-> full'[j]]
        BY <3>2 DEF PipelineTypeOK
      <4> QED BY <4>1, <4>2
    <3> QED BY <1>3, <3>1, <3>2 DEF Write
  <2>2. CASE \E st \in {0, 1} : Gone(i, st)
    BY <1>3, <2>1, <2>2, GoneMoves DEF Write
  <2>3. CASE UNCHANGED <<status, ends>> /\ \E c \in {"reading", "writing"} : child' = [child EXCEPT ![i] = c]
    BY <1>3, <2>1, <2>3, GoesOnMoves DEF Write
  <2> QED BY <1>3, <2>2, <2>3 DEF Write, AfterWrite
<1>4. CASE Quit(i)
  BY <1>4, GoneMoves DEF Quit, PipelineTypeOK
<1> QED BY <1>1, <1>2, <1>3, <1>4 DEF StageStep

\* PipelineInv holds in every reachable state.
THEOREM PipelineInvariant == PipelineSpec => []PipelineInv
<1>1. PipelineInv /\ [PipelineNext]_pipelineVars => PipelineInv'
  <2> SUFFICES ASSUME PipelineInv, [PipelineNext]_pipelineVars PROVE PipelineInv'
    OBVIOUS
  <2>1. CASE ShellStep
    BY <2>1, MakePipeKeeps, ForkKeeps, CloseEndsKeeps, WaitKeeps, DoneKeeps DEF ShellStep
  <2>2. CASE Sigchld
    BY <2>2, SigchldKeeps
  <2>3. CASE \E i \in Stages : StageStep(i) \/ Quit(i)
    BY <2>3, StageMoves, MovesKeep
  <2>4. CASE UNCHANGED pipelineVars
    <3> USE <2>4 DEF pipelineVars, PipelineInv
    <3>1. PipelineTypeOK'
      BY DEF PipelineTypeOK
    <3>2. EndsBelowClosed' /\ RunningOwn'
      BY DEF EndsBelowClosed, RunningOwn, InEnd, OutEnd
    <3>3. ReapedBelow' /\ ReapedByWhom' /\ LastKnown'
      BY DEF ReapedBelow, ReapedByWhom, LastKnown
    <3> QED BY <3>1, <3>2, <3>3
  <2> QED BY <2>1, <2>2, <2>3, <2>4 DEF PipelineNext
<1> QED BY InitInv, <1>1, PTL DEF PipelineSpec

\* The variables keep their types: k never leaves 1..N+1, a pipe its capacity.
THEOREM Typing == PipelineSpec => []PipelineTypeOK
<1>1. PipelineInv => PipelineTypeOK
  BY DEF PipelineInv
<1> QED BY <1>1, PipelineInvariant, PTL

\* No process that waits or runs has a pipe end in another one's way.
THEOREM EndsPrivate == PipelineSpec => []EndsArePrivate
<1>1. PipelineInv => EndsArePrivate
  BY DEF PipelineInv, EndsBelowClosed, RunningOwn, EndsArePrivate
<1> QED BY <1>1, PipelineInvariant, PTL

\* A pipeline that was run leaves no process behind.
THEOREM NobodyLeft == PipelineSpec => []NoStageLeft
<1>1. PipelineInv => NoStageLeft
  BY DEF PipelineInv, ReapedBelow, NoStageLeft
<1> QED BY <1>1, PipelineInvariant, PTL

\* The status of a pipeline is the last stage's, unless the handler has it.
THEOREM StatusOfLast == PipelineSpec => []LastStageCounts
<1>1. PipelineInv => LastStageCounts
  BY DEF PipelineInv, LastKnown, LastStageCounts
<1> QED BY <1>1, PipelineInvariant, PTL
=============================================================================
