----------------------------- MODULE ToolshJobs -----------------------------
(***************************************************************************)
(* Process control of the shell (src/toolsh.c): forking the stages of a    *)
(* command, waiting for them in the foreground, the SIGCHLD handler that   *)
(* reaps with waitpid(-1, WNOHANG), and the table of background jobs.      *)
(*                                                                         *)
(* The handler runs on the shell's own thread and may interrupt it between *)
(* any two steps, so while it is "on" the main program stands still.       *)
(* SIGCHLD is one pending bit: exits that happen before the handler runs   *)
(* are coalesced.  Pids are reused once reaped, as the kernel may do.      *)
(***************************************************************************)
EXTENDS Integers, Sequences

CONSTANTS Pids,       \* process identifiers the kernel hands out
          NoPid,      \* the zero a job slot holds before its first use
          ExitCodes,  \* values of WIFEXITED(s) ? WEXITSTATUS(s) : 1
          MaxJobs,    \* MAX_JOBS
          MaxStages   \* stages of a pipeline (at most MAX_PIPES)

ASSUME JobsAssumption ==
  /\ NoPid \notin Pids
  /\ {0, 1} \subseteq ExitCodes
  /\ MaxJobs \in Nat \ {0}
  /\ MaxStages \in Nat \ {0}

VARIABLES
  proc,       \* kernel: "free" (no such child), "running" or "zombie"
  code,       \* kernel: how the latest process with this pid ended
  sigchld,    \* kernel: SIGCHLD pending for the shell
  handler,    \* "on" while handle_sigchld runs
  pc,         \* where the main program is
  stages,     \* nseg of the command being run
  background, \* the line ended in &
  pids,       \* children forked for it and not waited for yet
  slot,       \* index add_job is filling
  jobs,       \* jobs[]
  jobCount,   \* job_count
  lastExit,   \* last_exit, what $? expands to
  (* Observation variables: no action's guard reads them. *)
  trueExit,   \* how the last stage of the latest foreground command ended
  stolen,     \* the handler reaped that stage before waitpid(pid) did
  owner       \* what the living process with this pid is to the shell

kernelVars == <<proc, code>>
commandVars == <<stages, background, pids>>
tableVars == <<slot, jobs, jobCount>>
statusVars == <<lastExit, trueExit, stolen>>
vars == <<proc, code, sigchld, handler, pc, commandVars, tableVars,
          statusVars, owner>>

Slots == 1..MaxJobs

Init ==
  /\ proc = [p \in Pids |-> "free"]
  /\ code = [p \in Pids |-> 0]
  /\ sigchld = FALSE
  /\ handler = "off"
  /\ pc = "prompt"
  /\ stages = 1
  /\ background = FALSE
  /\ pids = <<>>
  /\ slot = 1
  /\ jobs = [i \in Slots |-> [pid |-> NoPid, running |-> 0]]
  /\ jobCount = 0
  /\ lastExit = 0
  /\ trueExit = 0
  /\ stolen = FALSE
  /\ owner = [p \in Pids |-> "none"]

(* The main program runs only when no handler frame is on top of it. *)
Main(at) == pc = at /\ handler = "off"

-----------------------------------------------------------------------------
(* run_pipeline *)

\* A builtin runs in the shell itself: last_exit = r.
RunBuiltin ==
  /\ Main("prompt")
  /\ \E r \in ExitCodes : lastExit' = r /\ trueExit' = r
  /\ stolen' = FALSE
  /\ UNCHANGED <<kernelVars, sigchld, handler, pc, commandVars, tableVars, owner>>

\* A line with n stages is parsed.  Only a single command looks at the
\* background flag; a pipeline is always waited for.
StartCommand ==
  /\ Main("prompt")
  /\ \E n \in 1..MaxStages, bg \in BOOLEAN :
       /\ stages' = n
       /\ background' = (bg /\ n = 1)
  /\ pids' = <<>>
  /\ pc' = "fork"
  /\ UNCHANGED <<kernelVars, sigchld, handler, tableVars, statusVars, owner>>

\* One successful fork; the parent goes on to the next stage, to add_job or
\* to waitpid.
Fork ==
  /\ Main("fork")
  /\ \E p \in Pids :
       /\ proc[p] = "free"
       /\ proc' = [proc EXCEPT ![p] = "running"]
       /\ pids' = Append(pids, p)
       /\ owner' = [owner EXCEPT ![p] = IF background THEN "adding" ELSE "fg"]
  /\ pc' = IF Len(pids) + 1 < stages THEN "fork"
           ELSE IF background THEN "addjob" ELSE "wait"
  /\ UNCHANGED <<code, sigchld, handler, stages, background, tableVars, statusVars>>

\* fork() < 0: return 1 at once.  Stages already forked are not waited for and
\* last_exit keeps its old value.
ForkFails ==
  /\ Main("fork")
  /\ pids' = <<>>
  /\ pc' = "prompt"
  /\ UNCHANGED <<kernelVars, sigchld, handler, stages, background, tableVars,
                 statusVars, owner>>

\* Mutant: the status of the first stage is kept, not the last one's.
StoreFirstStatus(s) ==
  lastExit' = IF Len(pids) = stages THEN s ELSE lastExit

\* The status that is stored once the last stage has been waited for.
StoreStatus(s) ==
  lastExit' = IF Len(pids) = 1 THEN s ELSE lastExit

\* The part common to every return of waitpid(pids[i], &s, 0).
AfterWait ==
  /\ pids' = Tail(pids)
  /\ pc' = IF Len(pids) = 1 THEN "prompt" ELSE "wait"
  /\ trueExit' = IF Len(pids) = 1 THEN code[Head(pids)] ELSE trueExit
  /\ UNCHANGED <<code, sigchld, handler, stages, background, tableVars>>

\* waitpid finds its child dead and reaps it.
WaitReaps ==
  /\ Main("wait")
  /\ proc[Head(pids)] = "zombie"
  /\ proc' = [proc EXCEPT ![Head(pids)] = "free"]
  /\ owner' = [owner EXCEPT ![Head(pids)] = "none"]
  /\ StoreStatus(code[Head(pids)])
  /\ stolen' = IF Len(pids) = 1 THEN FALSE ELSE stolen
  /\ AfterWait

\* Mutant: the shell retries waitpid instead of going on.
WaitRetries == Main("wait") /\ proc[Head(pids)] = "free" /\ UNCHANGED vars

\* waitpid fails with ECHILD, because the handler was faster: s is never
\* written and the shell decodes an uninitialised int.
WaitFindsNothing ==
  /\ Main("wait")
  /\ proc[Head(pids)] = "free"
  /\ \E garbage \in ExitCodes : StoreStatus(garbage)
  /\ stolen' = IF Len(pids) = 1 THEN TRUE ELSE stolen
  /\ AfterWait
  /\ UNCHANGED <<proc, owner>>

-----------------------------------------------------------------------------
(* add_job.  The child is running meanwhile and the handler may cut in. *)

\* Mutant: slots are taken round-robin whether or not their job has ended.
PickAnySlot(i) == i \in Slots

\* The first slot whose job is not running.
PickSlot(i) ==
  /\ jobs[i].running = 0
  /\ \A k \in 1..(i - 1) : jobs[k].running = 1

AddJobSlot ==
  /\ Main("addjob")
  /\ \E i \in Slots :
       /\ PickSlot(i)
       /\ slot' = i
       /\ jobs' = [jobs EXCEPT ![i].pid = Head(pids)]
  /\ pc' = "addrun"
  /\ UNCHANGED <<kernelVars, sigchld, handler, commandVars, jobCount, statusVars, owner>>

\* Every slot is taken: add_job returns -1 and the child is never listed.
AddJobFull ==
  /\ Main("addjob")
  /\ \A i \in Slots : jobs[i].running = 1
  /\ pc' = "prompt"
  /\ pids' = <<>>
  /\ owner' = [p \in Pids |-> IF owner[p] = "adding" THEN "unlisted" ELSE owner[p]]
  /\ UNCHANGED <<kernelVars, sigchld, handler, stages, background, tableVars, statusVars>>

AddJobRunning ==
  /\ Main("addrun")
  /\ jobs' = [jobs EXCEPT ![slot].running = 1]
  /\ pc' = "addcount"
  /\ UNCHANGED <<kernelVars, sigchld, handler, commandVars, slot, jobCount,
                 statusVars, owner>>

\* Mutant: job_count is not raised to cover the new slot.
KeepCount == jobCount' = jobCount

RaiseCount == jobCount' = IF slot > jobCount THEN slot ELSE jobCount

AddJobCount ==
  /\ Main("addcount")
  /\ RaiseCount
  /\ pc' = "prompt"
  /\ pids' = <<>>
  /\ owner' = [p \in Pids |-> IF owner[p] = "adding" THEN "job" ELSE owner[p]]
  /\ UNCHANGED <<kernelVars, sigchld, handler, stages, background, slot, jobs, statusVars>>

-----------------------------------------------------------------------------
(* handle_sigchld *)

HandlerEnter ==
  /\ sigchld
  /\ handler = "off"
  /\ sigchld' = FALSE
  /\ handler' = "on"
  /\ UNCHANGED <<kernelVars, pc, commandVars, tableVars, statusVars, owner>>

\* The first slot below job_count that holds p is marked done, if there is one.
MarkDone(p) ==
  \/ /\ \A i \in 1..jobCount : jobs[i].pid # p
     /\ jobs' = jobs
  \/ \E i \in 1..jobCount :
       /\ jobs[i].pid = p
       /\ \A k \in 1..(i - 1) : jobs[k].pid # p
       /\ jobs' = [jobs EXCEPT ![i].running = 0]

\* One round of the loop: waitpid(-1, WNOHANG) returns some dead child.
HandlerReap ==
  /\ handler = "on"
  /\ \E p \in Pids :
       /\ proc[p] = "zombie"
       /\ proc' = [proc EXCEPT ![p] = "free"]
       /\ owner' = [owner EXCEPT ![p] = "none"]
       /\ MarkDone(p)
  /\ UNCHANGED <<code, sigchld, handler, pc, commandVars, slot, jobCount, statusVars>>

\* Mutant: one waitpid per signal, so coalesced exits are never collected.
LeaveAnyTime == handler = "on"

\* waitpid returns 0 or -1: no child is dead.
NothingToReap == handler = "on" /\ \A p \in Pids : proc[p] # "zombie"

HandlerReturn ==
  /\ NothingToReap
  /\ handler' = "off"
  /\ UNCHANGED <<kernelVars, sigchld, pc, commandVars, tableVars, statusVars, owner>>

-----------------------------------------------------------------------------
(* The children, and the kernel's signal. *)

ProcExit(p) ==
  /\ proc[p] = "running"
  /\ proc' = [proc EXCEPT ![p] = "zombie"]
  /\ \E c \in ExitCodes : code' = [code EXCEPT ![p] = c]
  /\ sigchld' = TRUE
  /\ UNCHANGED <<handler, pc, commandVars, tableVars, statusVars, owner>>

MainStep ==
  \/ RunBuiltin \/ StartCommand \/ Fork \/ ForkFails
  \/ WaitReaps \/ WaitFindsNothing
  \/ AddJobSlot \/ AddJobFull \/ AddJobRunning \/ AddJobCount

HandlerStep == HandlerEnter \/ HandlerReap \/ HandlerReturn

Next == MainStep \/ HandlerStep \/ \E p \in Pids : ProcExit(p)

\* The kernel schedules the shell and delivers its signals.  Nothing is
\* assumed of the user (the prompt) or of the children (they may run forever).
Fairness ==
  /\ WF_vars(WaitReaps \/ WaitFindsNothing)
  /\ WF_vars(Fork \/ ForkFails)
  /\ WF_vars(AddJobSlot \/ AddJobFull \/ AddJobRunning \/ AddJobCount)
  /\ WF_vars(HandlerEnter)
  /\ WF_vars(HandlerReap)
  /\ WF_vars(HandlerReturn)

Spec == Init /\ [][Next]_vars
FairSpec == Spec /\ Fairness

-----------------------------------------------------------------------------
(* Properties *)

JobRecord == [pid : Pids \union {NoPid}, running : {0, 1}]
PCs == {"prompt", "fork", "wait", "addjob", "addrun", "addcount"}
Owners == {"none", "fg", "adding", "job", "unlisted"}

\* Every variable keeps its type, and the child list is never empty where the
\* shell takes its head.
TypeOK ==
  /\ proc \in [Pids -> {"free", "running", "zombie"}]
  /\ code \in [Pids -> ExitCodes]
  /\ sigchld \in BOOLEAN
  /\ handler \in {"off", "on"}
  /\ pc \in PCs
  /\ stages \in 1..MaxStages
  /\ background \in BOOLEAN
  /\ pids \in Seq(Pids)
  /\ pc \in {"wait", "addjob", "addrun", "addcount"} => Len(pids) > 0
  /\ slot \in Slots
  /\ jobs \in [Slots -> JobRecord]
  /\ jobCount \in 0..MaxJobs
  /\ lastExit \in ExitCodes
  /\ trueExit \in ExitCodes
  /\ stolen \in BOOLEAN
  /\ owner \in [Pids -> Owners]

\* Coalesced signals lose no child: whenever a child is dead and unreaped, the
\* handler is pending or running.  The while loop of handle_sigchld is what
\* makes one signal stand for many exits.
NoLostWakeup ==
  (\E p \in Pids : proc[p] = "zombie") => sigchld \/ handler = "on"

\* A background child that add_job accepted is shown as running by list_jobs
\* for as long as it has not been reaped, whatever the handler interrupted and
\* whatever pids have been reused since.
LiveJobListed ==
  \A p \in Pids : owner[p] = "job" =>
    \E i \in 1..jobCount : jobs[i].pid = p /\ jobs[i].running = 1

\* $? is the status of the last stage of the latest command whenever waitpid
\* got there before the handler did.
ExitStatusUnlessStolen == ~stolen => lastExit = trueExit

\* A job leaves the table only in the step that reaps its process, and its
\* slot is not given to another process before that.
JobKeptUntilReaped ==
  [][\A i \in Slots : jobs[i].running = 1 =>
       /\ jobs'[i].pid = jobs[i].pid
       /\ jobs'[i].running = 1 \/ (/\ proc[jobs[i].pid] = "zombie"
                               /\ proc'[jobs[i].pid] = "free")]_vars

\* Once every awaited child is dead the shell gets back to its prompt, whether
\* waitpid or the handler collects them.
WaitReturns ==
  (pc = "wait" /\ \A i \in 1..Len(pids) : proc[pids[i]] # "running")
    ~> (pc = "prompt")

\* toolsh.md: $? is the last exit status.  Not so when the handler reaps first.
LastExitIsReal == lastExit = trueExit

(* The strengthening that makes LiveJobListed inductive: what holds while      *)
(* add_job is half way through and the handler may cut in.                     *)
AddJobInv ==
  /\ background => stages = 1
  /\ pc = "fork" /\ background => pids = <<>>
  /\ \A p \in Pids : owner[p] = "adding" =>
       pc \in {"addjob", "addrun", "addcount"} /\ p = Head(pids)
  /\ pc \in {"addrun", "addcount"} => jobs[slot].pid = Head(pids)
  /\ pc = "addrun" => jobs[slot].running = 0
  /\ pc = "addcount" =>
       \A p \in Pids : owner[p] = "adding" => jobs[slot].running = 1
=============================================================================
