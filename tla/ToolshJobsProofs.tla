-------------------------- MODULE ToolshJobsProofs --------------------------
(***************************************************************************)
(* TLAPS proofs about ToolshJobs, for any number of pids, job slots and    *)
(* pipeline stages.                                                        *)
(***************************************************************************)
EXTENDS ToolshJobs, TLAPS

\* handle_sigchld changes the table in one way only: the slot of the child it
\* reaped may stop running.
LEMMA MarkDoneTyped ==
  ASSUME jobs \in [Slots -> JobRecord], jobCount \in 0..MaxJobs,
         NEW q \in Pids, MarkDone(q)
  PROVE  jobs' \in [Slots -> JobRecord]
BY JobsAssumption DEF Slots, JobRecord, MarkDone

\* Marking a process done changes no pid and stops only that process.
LEMMA MarkDoneEffect ==
  ASSUME jobs \in [Slots -> JobRecord], jobCount \in 0..MaxJobs,
         NEW q \in Pids, MarkDone(q), NEW i \in Slots
  PROVE  /\ jobs'[i].pid = jobs[i].pid
         /\ jobs'[i].running = 1 => jobs[i].running = 1
         /\ jobs[i].running = 1 => jobs'[i].running = 1 \/ jobs[i].pid = q
<1>1. CASE jobs' = jobs
  BY <1>1
<1>2. ASSUME NEW k \in 1..jobCount, jobs[k].pid = q,
             jobs' = [jobs EXCEPT ![k].running = 0]
      PROVE  /\ jobs'[i].pid = jobs[i].pid
             /\ jobs'[i].running = 1 => jobs[i].running = 1
             /\ jobs[i].running = 1 => jobs'[i].running = 1 \/ jobs[i].pid = q
  <2>1. k \in Slots
    BY JobsAssumption DEF Slots
  <2> QED
    BY <1>2, <2>1 DEF JobRecord
<1> QED
  BY <1>1, <1>2 DEF MarkDone

\* Type correctness of the shell's process control (run_pipeline, add_job and
\* handle_sigchld): every variable keeps its type, and waitpid and add_job
\* always have a child to work on.
THEOREM Typing == Spec => []TypeOK
<1>1. Init => TypeOK
  <2> SUFFICES ASSUME Init PROVE TypeOK
    OBVIOUS
  <2>1. jobs \in [Slots -> JobRecord]
    BY DEF Init, JobRecord
  <2>2. slot \in Slots /\ jobCount \in 0..MaxJobs /\ stages \in 1..MaxStages
    BY JobsAssumption DEF Init, Slots
  <2>3. code \in [Pids -> ExitCodes] /\ lastExit \in ExitCodes /\ trueExit \in ExitCodes
    BY JobsAssumption DEF Init
  <2>4. proc \in [Pids -> {"free", "running", "zombie"}] /\ owner \in [Pids -> Owners]
    BY DEF Init, Owners
  <2>5. sigchld \in BOOLEAN /\ background \in BOOLEAN /\ stolen \in BOOLEAN
    BY Zenon DEF Init
  <2>6. pc = "prompt" /\ handler \in {"off", "on"} /\ pids \in Seq(Pids)
    BY DEF Init
  <2> QED
    BY <2>1, <2>2, <2>3, <2>4, <2>5, <2>6 DEF TypeOK, PCs
<1>2. TypeOK /\ [Next]_vars => TypeOK'
  <2> SUFFICES ASSUME TypeOK, [Next]_vars PROVE TypeOK'
    OBVIOUS
  <2> USE JobsAssumption DEF TypeOK, Slots, JobRecord, PCs, Owners
  <2>1. CASE RunBuiltin
    BY <2>1 DEF RunBuiltin, Main, kernelVars, commandVars, tableVars
  <2>2. CASE StartCommand
    BY <2>2 DEF StartCommand, Main, kernelVars, tableVars, statusVars
  <2>3. CASE Fork
    <3> PICK p \in Pids : /\ proc' = [proc EXCEPT ![p] = "running"]
                          /\ pids' = Append(pids, p)
                          /\ owner' = [owner EXCEPT ![p] =
                               IF background THEN "adding" ELSE "fg"]
      BY <2>3 DEF Fork
    <3>1. pids' \in Seq(Pids) /\ Len(pids') > 0
      OBVIOUS
    <3> QED
      BY <2>3, <3>1 DEF Fork, Main, tableVars, statusVars
  <2>4. CASE ForkFails
    BY <2>4 DEF ForkFails, Main, kernelVars, tableVars, statusVars
  <2>5. CASE WaitReaps \/ WaitFindsNothing
    <3>0. Len(pids) > 0
      BY <2>5 DEF WaitReaps, WaitFindsNothing, Main
    <3>1. pids # <<>> /\ Head(pids) \in Pids /\ Tail(pids) \in Seq(Pids)
      BY <3>0
    <3>2. Len(Tail(pids)) = Len(pids) - 1
      BY <3>1
    <3>3. AfterWait
      BY <2>5 DEF WaitReaps, WaitFindsNothing
    <3>4. pids' \in Seq(Pids) /\ (pc' = "wait" => Len(pids') > 0)
          /\ pc' \in {"prompt", "wait"} /\ trueExit' \in ExitCodes
      BY <3>0, <3>1, <3>2, <3>3 DEF AfterWait
    <3>5. /\ proc' \in [Pids -> {"free", "running", "zombie"}]
          /\ owner' \in [Pids -> Owners]
      <4>1. CASE WaitReaps
        BY <4>1, <3>1 DEF WaitReaps
      <4>2. CASE WaitFindsNothing
        BY <4>2 DEF WaitFindsNothing
      <4> QED
        BY <2>5, <4>1, <4>2
    <3>6. lastExit' \in ExitCodes
      <4>1. code[Head(pids)] \in ExitCodes
        BY <3>1
      <4>2. CASE WaitReaps
        BY <4>1, <4>2 DEF WaitReaps, StoreStatus
      <4>3. CASE WaitFindsNothing
        BY <4>3 DEF WaitFindsNothing, StoreStatus
      <4> QED
        BY <2>5, <4>2, <4>3
    <3>7. stolen' \in BOOLEAN
      <4>1. stolen' = TRUE \/ stolen' = FALSE \/ stolen' = stolen
        BY <2>5 DEF WaitReaps, WaitFindsNothing
      <4> QED
        BY <4>1
    <3> QED
      BY <3>3, <3>4, <3>5, <3>6, <3>7 DEF AfterWait, tableVars
  <2>6. CASE AddJobSlot
    <3>1. Len(pids) > 0 /\ Head(pids) \in Pids
      BY <2>6 DEF AddJobSlot, Main
    <3>2. PICK i \in Slots : /\ slot' = i
                             /\ jobs' = [jobs EXCEPT ![i].pid = Head(pids)]
      BY <2>6 DEF AddJobSlot
    <3>3. jobs' \in [Slots -> JobRecord]
      BY <3>1, <3>2
    <3> QED
      BY <2>6, <3>1, <3>2, <3>3
         DEF AddJobSlot, Main, kernelVars, commandVars, statusVars
  <2>7. CASE AddJobFull
    BY <2>7 DEF AddJobFull, Main, kernelVars, tableVars, statusVars
  <2>8. CASE AddJobRunning
    BY <2>8 DEF AddJobRunning, Main, kernelVars, commandVars, statusVars
  <2>9. CASE AddJobCount
    BY <2>9 DEF AddJobCount, RaiseCount, Main, kernelVars, statusVars
  <2>10. CASE HandlerEnter
    BY <2>10 DEF HandlerEnter, kernelVars, commandVars, tableVars, statusVars
  <2>11. CASE HandlerReap
    <3>1. PICK q \in Pids : /\ proc' = [proc EXCEPT ![q] = "free"]
                            /\ owner' = [owner EXCEPT ![q] = "none"]
                            /\ MarkDone(q)
      BY <2>11 DEF HandlerReap
    <3>2. jobs' \in [Slots -> JobRecord]
      BY <3>1, MarkDoneTyped
    <3> QED
      BY <2>11, <3>1, <3>2 DEF HandlerReap, commandVars, statusVars
  <2>12. CASE HandlerReturn
    BY <2>12 DEF HandlerReturn, kernelVars, commandVars, tableVars, statusVars
  <2>13. CASE \E p \in Pids : ProcExit(p)
    BY <2>13 DEF ProcExit, commandVars, tableVars, statusVars
  <2>14. CASE UNCHANGED vars
    BY <2>14 DEF vars, kernelVars, commandVars, tableVars, statusVars
  <2> QED
    BY <2>1, <2>2, <2>3, <2>4, <2>5, <2>6, <2>7, <2>8, <2>9, <2>10, <2>11,
       <2>12, <2>13, <2>14 DEF Next, MainStep, HandlerStep
<1> QED
  BY <1>1, <1>2, PTL DEF Spec

\* Coalesced SIGCHLDs lose no child: a dead, unreaped child means the signal is
\* still pending or handle_sigchld is still in its loop.
THEOREM NoLostWakeupHolds == Spec => []NoLostWakeup
<1>1. Init => NoLostWakeup
  BY DEF Init, NoLostWakeup
<1>2. TypeOK /\ NoLostWakeup /\ [Next]_vars => NoLostWakeup'
  <2> SUFFICES ASSUME TypeOK, NoLostWakeup, [Next]_vars PROVE NoLostWakeup'
    OBVIOUS
  <2> USE DEF TypeOK, NoLostWakeup
  <2>1. CASE RunBuiltin \/ StartCommand \/ ForkFails \/ WaitFindsNothing
             \/ AddJobSlot \/ AddJobFull \/ AddJobRunning \/ AddJobCount
    BY <2>1 DEF RunBuiltin, StartCommand, ForkFails, WaitFindsNothing, AfterWait,
                AddJobSlot, AddJobFull, AddJobRunning, AddJobCount, kernelVars
  <2>2. CASE Fork
    BY <2>2 DEF Fork
  <2>3. CASE WaitReaps
    BY <2>3 DEF WaitReaps, AfterWait
  <2>4. CASE HandlerStep
    BY <2>4 DEF HandlerStep, HandlerEnter, HandlerReap, HandlerReturn,
                NothingToReap, kernelVars
  <2>5. CASE \E p \in Pids : ProcExit(p)
    BY <2>5 DEF ProcExit
  <2>6. CASE UNCHANGED vars
    BY <2>6 DEF vars, kernelVars
  <2> QED
    BY <2>1, <2>2, <2>3, <2>4, <2>5, <2>6 DEF Next, MainStep
<1> QED
  BY <1>1, <1>2, Typing, PTL DEF Spec

\* What is true while add_job is half way through and handle_sigchld may cut in.
LEMMA AddJobInvStep ==
  TypeOK /\ AddJobInv /\ [Next]_vars => AddJobInv'
<1> SUFFICES ASSUME TypeOK, AddJobInv, [Next]_vars PROVE AddJobInv'
  OBVIOUS
<1> USE JobsAssumption DEF TypeOK, AddJobInv, Slots, JobRecord
<1>1. CASE RunBuiltin
  BY <1>1 DEF RunBuiltin, Main, commandVars, tableVars
<1>2. CASE StartCommand
  BY <1>2 DEF StartCommand, Main, tableVars
<1>3. CASE Fork
  <2>1. PICK p \in Pids : /\ pids' = Append(pids, p)
                          /\ owner' = [owner EXCEPT ![p] =
                               IF background THEN "adding" ELSE "fg"]
    BY <1>3 DEF Fork
  <2>2. pc = "fork" /\ \A q \in Pids : owner[q] # "adding"
    BY <1>3 DEF Fork, Main
  <2>3. CASE background
    <3>1. pids = <<>> /\ stages = 1
      BY <2>2, <2>3
    <3>2. Len(pids) = 0 /\ Head(pids') = p
      BY <2>1, <3>1
    <3>3. pc' = "addjob" /\ UNCHANGED <<background, stages>>
      BY <1>3, <2>3, <3>1, <3>2 DEF Fork
    <3>4. \A q \in Pids : owner'[q] = "adding" => q = p
      BY <2>1, <2>2
    <3> QED
      BY <3>1, <3>2, <3>3, <3>4
  <2>4. CASE ~background
    <3>1. \A q \in Pids : owner'[q] # "adding"
      BY <2>1, <2>2, <2>4
    <3>2. pc' \in {"fork", "wait"} /\ UNCHANGED <<background, stages>>
      BY <1>3, <2>4 DEF Fork
    <3> QED
      BY <2>4, <3>1, <3>2
  <2> QED
    BY <2>3, <2>4
<1>4. CASE ForkFails
  BY <1>4 DEF ForkFails, Main, tableVars
<1>5. CASE WaitReaps \/ WaitFindsNothing
  <2>1. pc = "wait" /\ AfterWait
    BY <1>5 DEF WaitReaps, WaitFindsNothing, Main
  <2>2. \A q \in Pids : owner'[q] # "adding"
    BY <1>5, <2>1 DEF WaitReaps, WaitFindsNothing
  <2>3. pc' \in {"prompt", "wait"} /\ UNCHANGED <<background, stages>>
    BY <2>1 DEF AfterWait
  <2> QED
    BY <2>2, <2>3
<1>6. CASE AddJobSlot
  BY <1>6 DEF AddJobSlot, PickSlot, Main, commandVars
<1>7. CASE AddJobFull
  BY <1>7 DEF AddJobFull, Main, tableVars
<1>8. CASE AddJobRunning
  BY <1>8 DEF AddJobRunning, Main, commandVars
<1>9. CASE AddJobCount
  BY <1>9 DEF AddJobCount, Main
<1>10. CASE HandlerEnter \/ HandlerReturn
  BY <1>10 DEF HandlerEnter, HandlerReturn, commandVars, tableVars
<1>11. CASE HandlerReap
  <2>1. PICK q \in Pids : MarkDone(q) /\ owner' = [owner EXCEPT ![q] = "none"]
    BY <1>11 DEF HandlerReap
  <2>2. UNCHANGED <<pc, stages, background, pids, slot>>
    BY <1>11 DEF HandlerReap, commandVars
  <2>3. /\ jobs'[slot].pid = jobs[slot].pid
        /\ jobs'[slot].running = 1 => jobs[slot].running = 1
        /\ jobs[slot].running = 1 => jobs'[slot].running = 1 \/ jobs[slot].pid = q
    BY <2>1, MarkDoneEffect
  <2>4. \A p \in Pids : owner'[p] = "adding" => p # q /\ owner[p] = "adding"
    BY <2>1
  <2>5. pc' = "addcount" => \A p \in Pids : owner'[p] = "adding" => jobs'[slot].running = 1
    BY <2>2, <2>3, <2>4
  <2>6. /\ pc' \in {"addrun", "addcount"} => jobs'[slot].pid = Head(pids)
        /\ pc' = "addrun" => jobs'[slot].running = 0
    <3>1. jobs'[slot].running \in {0, 1}
      BY <2>1, MarkDoneTyped
    <3> QED
      BY <2>2, <2>3, <3>1
  <2> QED
    BY <2>2, <2>4, <2>5, <2>6
<1>12. CASE \E p \in Pids : ProcExit(p)
  BY <1>12 DEF ProcExit, commandVars, tableVars
<1>13. CASE UNCHANGED vars
  BY <1>13 DEF vars, commandVars, tableVars
<1> QED
  BY <1>1, <1>2, <1>3, <1>4, <1>5, <1>6, <1>7, <1>8, <1>9, <1>10, <1>11,
     <1>12, <1>13 DEF Next, MainStep, HandlerStep

\* A background child add_job accepted is listed as running until it is reaped,
\* whatever handle_sigchld interrupted and whatever pids were reused.
THEOREM LiveJobListedHolds == Spec => []LiveJobListed
<1>1. Init => AddJobInv /\ LiveJobListed
  BY DEF Init, AddJobInv, LiveJobListed
<1>2. TypeOK /\ AddJobInv /\ LiveJobListed /\ [Next]_vars => LiveJobListed'
  <2> SUFFICES ASSUME TypeOK, AddJobInv, LiveJobListed, [Next]_vars,
                      NEW p \in Pids, owner'[p] = "job"
               PROVE  \E i \in 1..jobCount' : jobs'[i].pid = p /\ jobs'[i].running = 1
    BY DEF LiveJobListed
  <2> USE JobsAssumption DEF TypeOK, Slots, JobRecord, LiveJobListed
  <2>1. CASE UNCHANGED <<jobs, jobCount, owner>>
    BY <2>1
  <2>2. CASE Fork
    BY <2>2 DEF Fork, tableVars
  <2>3. CASE WaitReaps
    BY <2>3 DEF WaitReaps, AfterWait, Main, tableVars
  <2>4. CASE AddJobSlot
    BY <2>4 DEF AddJobSlot, PickSlot
  <2>5. CASE AddJobFull
    BY <2>5 DEF AddJobFull, tableVars
  <2>6. CASE AddJobRunning
    BY <2>6 DEF AddJobRunning
  <2>7. CASE AddJobCount
    <3>1. jobCount' \in Nat /\ slot <= jobCount' /\ jobCount <= jobCount' /\ jobs' = jobs
      BY <2>7 DEF AddJobCount, RaiseCount
    <3>2. CASE owner[p] = "job"
      BY <3>1, <3>2
    <3>3. CASE owner[p] = "adding"
      BY <2>7, <3>1, <3>3 DEF AddJobInv, AddJobCount, Main
    <3> QED
      BY <2>7, <3>2, <3>3 DEF AddJobCount
  <2>8. CASE HandlerReap
    <3>1. PICK q \in Pids : MarkDone(q) /\ owner' = [owner EXCEPT ![q] = "none"]
      BY <2>8 DEF HandlerReap
    <3>2. p # q /\ owner[p] = "job" /\ jobCount' = jobCount
      BY <2>8, <3>1 DEF HandlerReap
    <3>3. PICK i \in 1..jobCount : jobs[i].pid = p /\ jobs[i].running = 1
      BY <3>2
    <3>4. i \in Slots
      BY <3>3
    <3> QED
      BY <3>1, <3>2, <3>3, <3>4, MarkDoneEffect
  <2>9. CASE RunBuiltin \/ StartCommand \/ ForkFails \/ WaitFindsNothing
             \/ HandlerEnter \/ HandlerReturn \/ \E q \in Pids : ProcExit(q)
    BY <2>1, <2>9 DEF RunBuiltin, StartCommand, ForkFails, WaitFindsNothing,
       AfterWait, HandlerEnter, HandlerReturn, ProcExit, tableVars
  <2> QED
    BY <2>1, <2>2, <2>3, <2>4, <2>5, <2>6, <2>7, <2>8, <2>9
       DEF Next, MainStep, HandlerStep, vars, tableVars
<1> QED
  BY <1>1, <1>2, Typing, AddJobInvStep, PTL DEF Spec

\* A job leaves the table only in the step that reaps its process, and its slot
\* is given to no other process before.
THEOREM JobKeptUntilReapedHolds == Spec => JobKeptUntilReaped
<1>1. ASSUME TypeOK, [Next]_vars, NEW i \in Slots, jobs[i].running = 1
      PROVE  /\ jobs'[i].pid = jobs[i].pid
             /\ jobs'[i].running = 1 \/ (/\ proc[jobs[i].pid] = "zombie"
                                     /\ proc'[jobs[i].pid] = "free")
  <2> USE <1>1, JobsAssumption DEF TypeOK, Slots, JobRecord
  <2>1. CASE UNCHANGED jobs
    BY <2>1
  <2>2. CASE AddJobSlot
    BY <2>2 DEF AddJobSlot, PickSlot
  <2>3. CASE AddJobRunning
    BY <2>3 DEF AddJobRunning
  <2>4. CASE HandlerReap
    <3>1. PICK q \in Pids : /\ proc[q] = "zombie"
                            /\ proc' = [proc EXCEPT ![q] = "free"]
                            /\ MarkDone(q)
      BY <2>4 DEF HandlerReap
    <3> QED
      BY <3>1, MarkDoneEffect
  <2> QED
    BY <2>1, <2>2, <2>3, <2>4 DEF Next, MainStep, HandlerStep, RunBuiltin,
       StartCommand, Fork, ForkFails, WaitReaps, WaitFindsNothing, AfterWait,
       AddJobFull, AddJobCount, HandlerEnter, HandlerReturn, ProcExit,
       tableVars, vars
<1>2. TypeOK /\ [Next]_vars =>
        [\A i \in Slots : jobs[i].running = 1 =>
           /\ jobs'[i].pid = jobs[i].pid
           /\ jobs'[i].running = 1 \/ (/\ proc[jobs[i].pid] = "zombie"
                                   /\ proc'[jobs[i].pid] = "free")]_vars
  BY <1>1
<1> QED
  BY <1>2, Typing, PTL DEF Spec, JobKeptUntilReaped

\* $? is the status of the last stage unless handle_sigchld reaped it first.
THEOREM ExitStatusHolds == Spec => []ExitStatusUnlessStolen
<1>1. Init => ExitStatusUnlessStolen
  BY DEF Init, ExitStatusUnlessStolen
<1>2. TypeOK /\ ExitStatusUnlessStolen /\ [Next]_vars => ExitStatusUnlessStolen'
  <2> SUFFICES ASSUME TypeOK, ExitStatusUnlessStolen, [Next]_vars
               PROVE  ExitStatusUnlessStolen'
    OBVIOUS
  <2> USE DEF TypeOK, ExitStatusUnlessStolen
  <2>1. CASE RunBuiltin
    BY <2>1 DEF RunBuiltin
  <2>2. CASE WaitReaps \/ WaitFindsNothing
    <3>1. CASE Len(pids) # 1
      BY <2>2, <3>1 DEF WaitReaps, WaitFindsNothing, AfterWait, StoreStatus
    <3>2. CASE WaitReaps /\ Len(pids) = 1
      BY <3>2 DEF WaitReaps, AfterWait, StoreStatus
    <3>3. CASE WaitFindsNothing /\ Len(pids) = 1
      BY <3>3 DEF WaitFindsNothing
    <3> QED
      BY <2>2, <3>1, <3>2, <3>3
  <2>3. CASE UNCHANGED statusVars
    BY <2>3 DEF statusVars
  <2> QED
    BY <2>1, <2>2, <2>3 DEF Next, MainStep, HandlerStep, StartCommand, Fork,
       ForkFails, AddJobSlot, AddJobFull, AddJobRunning, AddJobCount,
       HandlerEnter, HandlerReap, HandlerReturn, ProcExit, vars
<1> QED
  BY <1>1, <1>2, Typing, PTL DEF Spec
=============================================================================
