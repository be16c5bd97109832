--------------------------- MODULE ToolshPipeline ---------------------------
(***************************************************************************)
(* A pipeline of toolsh (src/toolsh.c, the second half of run_pipeline):   *)
(* the shell makes the pipes, forks the stages, closes its ends and waits; *)
(* each stage keeps the two ends it needs and runs.  A pipe gives its      *)
(* reader the end of file when nobody holds its write end, and kills its   *)
(* writer when nobody holds its read end: who still holds what decides     *)
(* whether the pipeline ends.                                              *)
(***************************************************************************)
EXTENDS Naturals

CONSTANTS N,         \* stages: nseg
          Cap,       \* what a pipe holds
          Statuses,  \* exit statuses, 0 and 1 among them
          Lines      \* the pipelines that are run, stage by stage

Stages == 1..N
Pipes == 1..(N - 1)     \* pipe i leads from stage i to stage i + 1
Shell == 0
Ends == Pipes \X {"r", "w"}

(* What a stage does with its input and output, external to toolsh:           *)
(*   "yes" writes for ever, "once" writes once and exits, "cat" copies its    *)
(*   input, "head" reads once and exits.                                      *)
Kinds == {"yes", "once", "cat", "head"}

\* A stage: what it runs, and which of its standard streams go to a file.
Commands == [kind : Kinds, redirs : SUBSET {"in", "out"}]

ASSUME PipelineAssumption ==
  /\ N \in Nat /\ N >= 2
  /\ Cap \in Nat \ {0}
  /\ {0, 1} \subseteq Statuses /\ Statuses \subseteq Nat
  /\ Lines \subseteq [Stages -> Commands]

VARIABLES
  cmds,     \* stage -> its command
  ends,     \* process -> the pipe ends it has open
  full,     \* pipe -> how much it holds
  child,    \* stage -> "none", "forked", "reading", "writing", "zombie", "reaped"
  status,   \* stage -> its exit status, once it has one
  at,       \* shell: "pipe", "fork", "close", "wait", "done"
  k,        \* shell: its loop variable
  result,   \* shell: the variable status of run_pipeline
  last_exit, \* last_exit
  failed,   \* a pipe or a fork failed: run_pipeline returned 1
  taken    \* stages whose status the SIGCHLD handler took

pipelineVars == <<cmds, ends, full, child, status, at, k, result, last_exit, failed, taken>>

PipelineInit ==
  /\ cmds \in Lines
  /\ ends = [p \in {Shell} \cup Stages |-> {}]
  /\ full = [i \in Pipes |-> 0]
  /\ child = [i \in Stages |-> "none"]
  /\ status = [i \in Stages |-> 0]
  /\ at = "pipe" /\ k = 1
  /\ result = 0
  /\ last_exit \in Statuses
  /\ failed = 0
  /\ taken = {}

-----------------------------------------------------------------------------
(* The shell *)

\* pipe() or fork() fails: what was opened stays open, who was forked runs on.
Fail ==
  /\ at' = "done"
  /\ failed' = 1
  /\ UNCHANGED <<cmds, ends, full, child, status, k, result, last_exit, taken>>

MakePipe ==
  /\ at = "pipe"
  /\ \/ /\ k < N
        /\ \/ /\ ends' = [ends EXCEPT ![Shell] = @ \cup {<<k, "r">>, <<k, "w">>}]
              /\ k' = k + 1
              /\ UNCHANGED <<cmds, full, child, status, at, result, last_exit, failed, taken>>
           \/ Fail
     \/ /\ k = N
        /\ at' = "fork" /\ k' = 1
        /\ UNCHANGED <<cmds, ends, full, child, status, result, last_exit, failed, taken>>

MoreStages == k <= N

ForkStage ==
  /\ at = "fork"
  /\ \/ /\ MoreStages
        /\ \/ /\ child' = [child EXCEPT ![k] = "forked"]
              /\ ends' = [ends EXCEPT ![k] = ends[Shell]]
              /\ k' = k + 1
              /\ UNCHANGED <<cmds, full, status, at, result, last_exit, failed, taken>>
           \/ Fail
     \/ /\ ~MoreStages
        /\ at' = "close" /\ k' = 1
        /\ UNCHANGED <<cmds, ends, full, child, status, result, last_exit, failed, taken>>

\* Mutant: the shell closes the read ends only.
CloseReadEnd(i) == {<<i, "r">>}

CloseBothEnds(i) == {<<i, "r">>, <<i, "w">>}

CloseEnds ==
  /\ at = "close"
  /\ IF k < N
       THEN /\ ends' = [ends EXCEPT ![Shell] = @ \ CloseBothEnds(k)]
            /\ k' = k + 1 /\ at' = at
       ELSE /\ ends' = ends
            /\ k' = 1 /\ at' = "wait"
  /\ UNCHANGED <<cmds, full, child, status, result, last_exit, failed, taken>>

\* Mutant: the status of the first stage is kept.
KeepFirst(s) == IF k = 1 THEN s ELSE result

KeepLast(s) == IF k = N THEN s ELSE result

\* waitpid for stage k.  If the handler has been there first it fails, and s
\* has whatever value was left on the stack.
Wait ==
  /\ at = "wait" /\ k <= N
  /\ \/ /\ child[k] = "zombie"
        /\ child' = [child EXCEPT ![k] = "reaped"]
        /\ result' = KeepLast(status[k])
     \/ /\ child[k] = "reaped"
        /\ \E s \in Statuses : result' = KeepLast(s)
        /\ child' = child
  /\ k' = k + 1
  /\ UNCHANGED <<cmds, ends, full, status, at, last_exit, failed, taken>>

\* Mutant: the shell only waits for the last stage.
LastIsGone == child[N] = "reaped"

AllWaitedFor == k > N

Done ==
  /\ at = "wait" /\ AllWaitedFor
  /\ last_exit' = result
  /\ at' = "done"
  /\ UNCHANGED <<cmds, ends, full, child, status, k, result, failed, taken>>

\* handle_sigchld: waitpid(-1, WNOHANG) takes whatever has ended.
Sigchld ==
  \E i \in Stages :
    /\ child[i] = "zombie"
    /\ child' = [child EXCEPT ![i] = "reaped"]
    /\ taken' = taken \cup {i}
    /\ UNCHANGED <<cmds, ends, full, status, at, k, result, last_exit, failed>>

-----------------------------------------------------------------------------
(* A stage *)

\* The process is gone and with it the ends it had.
Gone(i, st) ==
  /\ child' = [child EXCEPT ![i] = "zombie"]
  /\ status' = [status EXCEPT ![i] = st]
  /\ ends' = [ends EXCEPT ![i] = {}]

InEnd(i) == {<<i - 1, "r">>} \cap Ends
OutEnd(i) == {<<i, "w">>} \cap Ends

\* Mutant: a stage leaves the ends of the other stages open.
KeepAll(i) == ends[i]

\* dup2 to 0 and 1, every other pipe end closed, then the redirections: the file
\* takes the place of the pipe.
Wired(i) ==
  (IF "in" \in cmds[i].redirs THEN {} ELSE InEnd(i))
    \cup (IF "out" \in cmds[i].redirs THEN {} ELSE OutEnd(i))

\* exec_with_fallback, or exit: 1 after a redirection that cannot be opened, 127
\* for what is not a tool.
SetUp(i) ==
  /\ child[i] = "forked"
  /\ \/ /\ ends' = [ends EXCEPT ![i] = Wired(i)]
        /\ child' = [child EXCEPT ![i] = IF cmds[i].kind \in {"yes", "once"} THEN "writing" ELSE "reading"]
        /\ status' = status
     \/ \E st \in Statuses \ {0} : Gone(i, st)
  /\ UNCHANGED <<cmds, full, at, k, result, last_exit, failed, taken>>

Held(e) == \E p \in {Shell} \cup Stages : e \in ends[p]

\* read(): a byte, or the end of the file once no process can write any more.
\* A redirected input ends by itself.
Read(i) ==
  /\ child[i] = "reading"
  /\ \/ /\ <<i - 1, "r">> \in ends[i] /\ full[i - 1] > 0
        /\ full' = [full EXCEPT ![i - 1] = @ - 1]
        /\ IF cmds[i].kind = "head"
             THEN Gone(i, 0)
             ELSE child' = [child EXCEPT ![i] = "writing"] /\ UNCHANGED <<status, ends>>
     \/ /\ <<i - 1, "r">> \in ends[i] => full[i - 1] = 0 /\ ~Held(<<i - 1, "w">>)
        /\ Gone(i, 0) /\ full' = full
  /\ UNCHANGED <<cmds, at, k, result, last_exit, failed, taken>>

AfterWrite(i) ==
  IF cmds[i].kind = "once" THEN Gone(i, 0)
  ELSE /\ child' = [child EXCEPT ![i] = IF cmds[i].kind = "yes" THEN "writing" ELSE "reading"]
       /\ UNCHANGED <<status, ends>>

\* write(): waits for room, is killed by SIGPIPE when no process can read any
\* more; to a file or the terminal it never waits.
Write(i) ==
  /\ child[i] = "writing"
  /\ \/ /\ <<i, "w">> \in ends[i] /\ Held(<<i, "r">>) /\ full[i] < Cap
        /\ full' = [full EXCEPT ![i] = @ + 1]
        /\ AfterWrite(i)
     \/ /\ <<i, "w">> \in ends[i] /\ ~Held(<<i, "r">>)
        /\ Gone(i, 1) /\ full' = full
     \/ /\ <<i, "w">> \notin ends[i]
        /\ AfterWrite(i) /\ full' = full
  /\ UNCHANGED <<cmds, at, k, result, last_exit, failed, taken>>

\* Any command may end on its own.
Quit(i) ==
  /\ child[i] \in {"reading", "writing"}
  /\ \E st \in Statuses : Gone(i, st)
  /\ UNCHANGED <<cmds, full, at, k, result, last_exit, failed, taken>>

-----------------------------------------------------------------------------

ShellStep == MakePipe \/ ForkStage \/ CloseEnds \/ Wait \/ Done
StageStep(i) == SetUp(i) \/ Read(i) \/ Write(i)

PipelineNext == ShellStep \/ Sigchld \/ \E i \in Stages : StageStep(i) \/ Quit(i)

PipelineSpec == PipelineInit /\ [][PipelineNext]_pipelineVars
\* The kernel runs every process that can run; commands need not end by themselves.
PipelineFairSpec == PipelineSpec /\ WF_pipelineVars(ShellStep) /\ \A i \in Stages : WF_pipelineVars(StageStep(i))

-----------------------------------------------------------------------------
(* Properties *)

PipelineTypeOK ==
  /\ cmds \in [Stages -> Commands]
  /\ ends \in [{Shell} \cup Stages -> SUBSET Ends]
  /\ full \in [Pipes -> 0..Cap]
  /\ child \in [Stages -> {"none", "forked", "reading", "writing", "zombie", "reaped"}]
  /\ status \in [Stages -> Statuses]
  /\ at \in {"pipe", "fork", "close", "wait", "done"}
  /\ k \in 1..(N + 1)
  /\ result \in Statuses /\ last_exit \in Statuses
  /\ failed \in {0, 1}
  /\ taken \subseteq Stages

\* Once the shell waits, nobody has a pipe end in its way: the shell has none, a
\* stage that runs has no end but its own, so that only stage i can keep pipe i
\* from reaching its end of file, and only stage i + 1 its writer from SIGPIPE.
EndsArePrivate ==
  /\ at = "wait" => ends[Shell] = {}
  /\ \A i \in Stages : child[i] # "forked" => ends[i] \subseteq InEnd(i) \cup OutEnd(i)

\* When a pipeline has been run, every stage has been waited for (or reaped by
\* the handler): no zombie and no running process is left behind.
NoStageLeft ==
  at = "done" /\ failed = 0 => \A i \in Stages : child[i] = "reaped"

\* last_exit is the status of the last stage, unless the handler took it first.
LastStageCounts ==
  at = "done" /\ failed = 0 /\ N \notin taken => last_exit = status[N]

(* Why they hold: the loops of the shell have done their work below k.         *)
EndsBelowClosed ==
  /\ at = "close" => \A e \in ends[Shell] : e[1] >= k
  /\ at = "wait" => ends[Shell] = {}
RunningOwn == \A i \in Stages : child[i] # "forked" => ends[i] \subseteq InEnd(i) \cup OutEnd(i)
ReapedBelow ==
  /\ at = "wait" => \A i \in Stages : i < k => child[i] = "reaped"
  /\ at = "done" /\ failed = 0 => \A i \in Stages : child[i] = "reaped"
\* A stage that is reaped was waited for by the shell, or reaped by the handler.
ReapedByWhom ==
  \A i \in Stages : child[i] = "reaped" => i \in taken \/ (at \in {"wait", "done"} /\ i < k)
LastKnown ==
  /\ at = "wait" /\ k > N /\ N \notin taken => result = status[N]
  /\ at = "done" /\ failed = 0 /\ N \notin taken => last_exit = status[N]

\* The inductive invariant of the pipeline; its parts are the loop invariants of
\* run_pipeline and what holds between the shell and a stage at every step.
PipelineInv == PipelineTypeOK /\ EndsBelowClosed /\ RunningOwn /\ ReapedBelow /\ ReapedByWhom /\ LastKnown

\* A stage that only the end of another can stop is followed by one that ends.
Bounded ==
  /\ \A i \in Stages : cmds[i].redirs = {}
  /\ \A i \in Stages : cmds[i].kind = "yes" => \E j \in Stages : j > i /\ cmds[j].kind \in {"once", "head"}

\* The prompt comes back: when the first stage ends, the end of file runs down
\* the pipeline; when a later one ends, SIGPIPE runs up it ("yes | head").
PipelineEnds == Bounded ~> at = "done"

-----------------------------------------------------------------------------
(* The pipelines of the run: every combination of commands, and those of      *)
(* copying stages with any one redirection.                                   *)
Piped == [Stages -> [kind : Kinds, redirs : {{}}]]
Copiers == [i \in Stages |-> [kind |-> "cat", redirs |-> {}]]
Redirected ==
  {[Copiers EXCEPT ![i].redirs = {r}] : i \in Stages, r \in {"in", "out"}}
EveryLine == Piped \cup Redirected
=============================================================================
