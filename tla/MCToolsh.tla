------------------------------ MODULE MCToolsh ------------------------------
(* The processes of the shell: its jobs, or one of its pipelines; the variables *)
(* of the other stay as they are at their start.                               *)
(*                                                                             *)
(* Jobs: two pids that are used again, two slots, commands of up to two stages. *)
(* Pipelines: three stages, every mix of commands.                             *)
EXTENDS ToolshJobs, ToolshPipeline

VARIABLE part   \* "jobs" or "pipeline"

shellVars == <<part, vars, pipelineVars>>

\* What is not started could be started in some way.
PipelineIdle == (\A i \in Stages : cmds[i] = [kind |-> "yes", redirs |-> {}]) /\ last_exit = 0

ShellInit ==
  /\ Init /\ PipelineInit
  /\ \/ part = "jobs" /\ PipelineIdle
     \/ part = "pipeline"

\* A step of one part.
OfJobs(A) == part = "jobs" /\ A /\ UNCHANGED <<part, pipelineVars>>
OfPipeline(A) == part = "pipeline" /\ A /\ UNCHANGED <<part, vars>>

\* Bound of the model: after one pipeline there is nothing more to do.
AllIsOver ==
  /\ part = "pipeline" /\ at = "done" /\ \A i \in Stages : child[i] \in {"none", "zombie", "reaped"}
  /\ UNCHANGED shellVars

ShellNext == OfJobs(Next) \/ OfPipeline(PipelineNext) \/ AllIsOver

\* That of ToolshJobs and that of ToolshPipeline.
ShellFairness ==
  /\ WF_shellVars(OfJobs(WaitReaps \/ WaitFindsNothing))
  /\ WF_shellVars(OfJobs(Fork \/ ForkFails))
  /\ WF_shellVars(OfJobs(AddJobSlot \/ AddJobFull \/ AddJobRunning \/ AddJobCount))
  /\ WF_shellVars(OfJobs(HandlerEnter))
  /\ WF_shellVars(OfJobs(HandlerReap))
  /\ WF_shellVars(OfJobs(HandlerReturn))
  /\ WF_shellVars(OfPipeline(ShellStep))
  /\ \A i \in Stages : WF_shellVars(OfPipeline(StageStep(i)))

ShellSpec == ShellInit /\ [][ShellNext]_shellVars
ShellFairSpec == ShellSpec /\ ShellFairness
=============================================================================
