------------------------- MODULE EvaluatorRunProofs -------------------------
(***************************************************************************)
(* The processes of an evaluator run agree with what its files say of      *)
(* them, and no step takes back a stop, a failure or a spent retry, for    *)
(* any number of stages and operators and any retry limits.                *)
(*                                                                         *)
(* The invariant follows the writer lease.  Whoever holds it outside the   *)
(* supervisor is alone, a launcher past its checks has an empty stage      *)
(* group under it, and a supervisor knows at each of its steps whether     *)
(* the stage group is empty, which stages are complete and what state.json *)
(* says; so every write of state.json is made by somebody who knows what   *)
(* the write replaces.                                                     *)
(*                                                                         *)
(* RunRevisions, the same run seen over its revisions, has its theorem at  *)
(* the end.  By the time a revision may change what some work rests on,    *)
(* that work has its receipt, and receipts stay; resumes are of rising     *)
(* launches, so that no two of them are from one failure.                  *)
(***************************************************************************)
EXTENDS EvaluatorRun, RunRevisions, SequenceTheorems, FiniteSetTheorems, TLAPS

Quiet == {"stopped", "ready_for_luna", "awaiting_astra_review"}
Launching == {"record", "pending", "clear", "spawn"}
Working == {"next", "wait", "launch", "monitor", "cleanup", "settle",
            "result", "save"}
OnStage == {"launch", "monitor", "cleanup", "settle"}
Empty == stg.pc = "none" /\ ~child

\* The lease has one holder among the operators, and a command between its
\* begin and its launch shares it with no supervisor and no stage.
LeaseIsExclusive ==
    /\ \A o, p \in Operators : HoldsLease(o) /\ HoldsLease(p) => o = p
    /\ \A o \in Operators :
          /\ op[o].pc \in Launching \union {"held"} => ~SupAlive /\ ~StageAlive
          /\ op[o].pc \in Launching => ~child

\* What state.json says to a resume that was admitted, and to a launch.
Resumable ==
    \/ state.status \in {"ready_for_luna", "stopped", "running"}
    \/ state.status = "needs_astra" /\ StartupRecoverable

Admitted(o) ==
    /\ op[o].pc = "record" => attempts < MaxAttempt
    /\ op[o].pc \in {"record", "pending"} => Resumable
    /\ op[o].pc \in {"clear", "spawn"} => state.status \notin Sticky

LaunchIsAdmitted == \A o \in Operators : Admitted(o)

\* A member of the stage group is registered, and only a supervisor has a
\* leader to reap.
GroupIsKnown ==
    /\ child \/ stg.pc \in {"run", "check", "publish"} => receipt = "active"
    /\ stg.pc = "zombie" => SupAlive

\* What each step of the supervisor knows of the stage group.
SupervisorKnowsGroup ==
    /\ sup.pc \in {"boot", "next", "wait", "launch"} => Empty
    /\ sup.pc \in {"monitor", "cleanup"} => stg.pc # "none"
    /\ sup.pc = "settle" => stg.pc = "zombie" /\ ~child
    /\ sup.pc \in {"result", "save"} /\ sup.status \in Quiet => Empty

\* What it knows of the files: the stages behind it are complete, the task
\* it runs has a retry left, and the record is its own.
SupervisorKnowsFiles ==
    /\ SupAlive => Finished(sup.at)
    /\ sup.pc \in {"wait"} \union OnStage => sup.at \in Stages
    /\ sup.pc \in OnStage => alloc[sup.at] <= AllocationRetries
    /\ sup.pc \in {"result", "save"} /\ sup.status = "awaiting_astra_review"
          => complete = Stages
    /\ sup.pc \in Working =>
          /\ state.status = "running"
          /\ \A s \in Stages : sup.retries[s] >= state.retries[s]

StageIsDue == stg.pc \in {"run", "check", "publish"} => Finished(stg.stage)

\* No attempt after the one that the state names has a result.
LaterAttemptsAreOpen ==
    /\ state.attempt <= attempts
    /\ \A a \in (state.attempt + 1)..MaxAttempt : results[a] = NoResult

IInv == /\ TypeOK /\ LeaseIsExclusive /\ LaunchIsAdmitted /\ GroupIsKnown
        /\ SupervisorKnowsGroup /\ SupervisorKnowsFiles /\ StageIsDue
        /\ IdleIsQuiet /\ CompletedInOrder /\ AllocationIsFinite
        /\ LaterAttemptsAreOpen
-----------------------------------------------------------------------------
(* What an edit of a record leaves                                         *)

(* The first records of a command, a supervisor and a stage are records    *)
(* of their kinds.                                                         *)
LEMMA FirstRecords ==
    /\ NoOp \in Commands /\ NoOp.pc = "idle"
    /\ NoSup \in Supervisors /\ NoSup.pc = "none" /\ NoSup.at = 1
    /\ NoStage \in StageProcesses /\ NoStage.pc = "none"
<1>1. [s \in Stages |-> 0] \in StageRetries /\ 1 \in Stages
      /\ 1 \in 1..LastStage + 1
    BY RunAssumption DEF Stages, StageRetries
<1>2. NoProbe \in Probes /\ 0 \in 0..Sustained
    BY RunAssumption DEF Probes
<1>3. NoOp \in Commands
    BY <1>1, <1>2 DEF NoOp, Commands, OpPcs
<1>4. NoSup \in Supervisors
    BY <1>1, <1>2 DEF NoSup, Supervisors, SupPcs, Reasons, Statuses
<1>5. NoStage \in StageProcesses
    BY <1>1, <1>2 DEF NoStage, StageProcesses, StagePcs, Codes
<1> QED
    BY <1>3, <1>4, <1>5 DEF NoOp, NoSup, NoStage

(* A command that moves on keeps what it was given, and the others keep    *)
(* theirs.                                                                 *)
LEMMA CommandMoves ==
    ASSUME TypeOK, NEW o \in Operators, NEW pc, Goto(o, pc)
    PROVE  /\ pc \in OpPcs => op' \in [Operators -> Commands]
           /\ op'[o].pc = pc /\ op'[o].retries = op[o].retries
           /\ \A p \in Operators : p # o => op'[p] = op[p]
<1>1. op' = [op EXCEPT ![o] = [op[o] EXCEPT !.pc = pc]]
    BY DEF Goto
<1>2. op \in [Operators -> Commands] /\ op[o] \in Commands
    BY DEF TypeOK
<1>3. pc \in OpPcs => [op[o] EXCEPT !.pc = pc] \in Commands
    BY <1>2 DEF Commands
<1>4. op'[o].pc = pc /\ op'[o].retries = op[o].retries
    BY <1>1, <1>2 DEF Commands
<1> QED
    BY <1>1, <1>2, <1>3, <1>4

(* A command that ends leaves the others as they are.                      *)
LEMMA CommandEnds ==
    ASSUME TypeOK, NEW o \in Operators, Leave(o)
    PROVE  /\ op' \in [Operators -> Commands] /\ op'[o].pc = "idle"
           /\ \A p \in Operators : p # o => op'[p] = op[p]
BY FirstRecords DEF TypeOK, Leave, NoOp

(* A supervisor that moves on changes nothing but its place.               *)
LEMMA SupervisorMoves ==
    ASSUME TypeOK, NEW pc, SupGo(pc)
    PROVE  /\ pc \in SupPcs => sup' \in Supervisors
           /\ sup'.pc = pc
           /\ sup'.at = sup.at /\ sup'.probe = sup.probe
           /\ sup'.fail = sup.fail /\ sup'.status = sup.status
           /\ sup'.retries = sup.retries
BY DEF TypeOK, SupGo, Supervisors

(* A supervisor that concludes has a verdict, and is at the same stage.    *)
LEMMA SupervisorConcludes ==
    ASSUME TypeOK, NEW s, NEW r, Conclude(s, r)
    PROVE  /\ s \in Statuses /\ r \in Reasons => sup' \in Supervisors
           /\ sup'.pc = "result" /\ sup'.status = s /\ sup'.fail = r
           /\ sup'.at = sup.at /\ sup'.retries = sup.retries
BY DEF TypeOK, Conclude, Supervisors, SupPcs

(* A stage that exits is a zombie of its supervisor, or gone.              *)
LEMMA StageEnds ==
    ASSUME TypeOK, NEW c, StageExits(c)
    PROVE  /\ c \in Codes => stg' \in StageProcesses
           /\ SupAlive => stg'.pc = "zombie"
           /\ ~SupAlive => stg'.pc = "none"
BY FirstRecords DEF TypeOK, StageExits, StageProcesses, StagePcs, NoStage

(* A stage that goes on is the same stage.                                 *)
LEMMA StageGoes ==
    ASSUME TypeOK, NEW pc
    PROVE  /\ [stg EXCEPT !.pc = pc].pc = pc
           /\ [stg EXCEPT !.pc = pc].stage = stg.stage
BY DEF TypeOK, StageProcesses

(* A save of the state keeps what it is not given.                         *)
LEMMA SaveKeeps ==
    ASSUME TypeOK, NEW s, NEW r
    PROVE  /\ s \in Statuses /\ r \in Reasons => Saved(s, r) \in RunRecords
           /\ Saved(s, r).status = s /\ Saved(s, r).reason = r
           /\ Saved(s, r).attempt = state.attempt
           /\ Saved(s, r).retries = state.retries
BY DEF TypeOK, Saved, RunRecords

(* What a running supervisor writes.                                       *)
LEMMA RunningIsOwn ==
    ASSUME TypeOK, NEW r
    PROVE  /\ sup.at \in Stages /\ r \in Reasons => Running(r) \in RunRecords
           /\ Running(r).status = "running" /\ Running(r).reason = r
           /\ Running(r).attempt = state.attempt
           /\ Running(r).retries = sup.retries
BY DEF TypeOK, Running, RunRecords, Supervisors, Statuses

-----------------------------------------------------------------------------
(* What a step of the supervisor leaves                                    *)

(* A supervisor that starts to work has seen an empty group, a record that *)
(* needs nobody, and takes over its retries.                               *)
LEMMA BootEffect ==
    ASSUME TypeOK, SupBoot
    PROVE  /\ state'.attempt = state.attempt /\ state'.retries = state.retries
           /\ \/ sup'.pc = "none" /\ state' = state
              \/ sup'.pc = "none" /\ Residual /\ state'.status = "needs_astra"
              \/ /\ sup'.pc = "next" /\ sup'.at = sup.at
                 /\ sup'.retries = state.retries
                 /\ ~Residual /\ state.status \notin Sticky
                 /\ state'.status = "running"
<1>1. ASSUME sup' = [sup EXCEPT !.pc = "next", !.retries = state.retries]
      PROVE  /\ sup'.pc = "next" /\ sup'.at = sup.at
             /\ sup'.retries = state.retries
    BY <1>1 DEF TypeOK, Supervisors
<1>2. ASSUME state' = [state EXCEPT !.status = "running", !.reason = "none",
                                    !.acked = TRUE, !.stage = 1,
                                    !.signalled = FALSE]
      PROVE  /\ state'.status = "running" /\ state'.attempt = state.attempt
             /\ state'.retries = state.retries
    BY <1>2 DEF TypeOK, RunRecords
<1> QED
    BY <1>1, <1>2, FirstRecords, SaveKeeps DEF SupBoot

(* The head of the loop: the end, the next stage, or the stage at hand.    *)
LEMMA NextEffect ==
    ASSUME TypeOK, SupNext
    PROVE  /\ sup'.retries = sup.retries
           /\ \/ /\ sup'.pc = "result" /\ sup'.at = sup.at
                 /\ sup'.status = "awaiting_astra_review" => sup.at > LastStage
              \/ /\ sup'.pc = "next" /\ sup'.at = sup.at + 1
                 /\ sup.at \in complete
              \/ sup'.pc = "wait" /\ sup'.at = sup.at /\ sup.at <= LastStage
<1>1. sup \in Supervisors
    BY DEF TypeOK
<1>2. ASSUME sup' = [sup EXCEPT !.at = @ + 1]
      PROVE  /\ sup'.pc = sup.pc /\ sup'.at = sup.at + 1
             /\ sup'.retries = sup.retries
    BY <1>1, <1>2 DEF Supervisors
<1> QED
    BY <1>2, SupervisorMoves, SupervisorConcludes DEF SupNext

(* A launch starts one stage process for the stage at hand, or none.       *)
LEMMA LaunchEffect ==
    ASSUME TypeOK, SupLaunch
    PROVE  /\ sup'.at = sup.at /\ sup'.retries = sup.retries
           /\ \/ /\ sup'.pc = "monitor"
                 /\ stg'.pc = "boot" /\ stg'.stage = sup.at
                 /\ state' = Running("none")
              \/ /\ sup'.pc = "result"
                 /\ sup'.status \in {"needs_astra", "stopped"}
                 /\ UNCHANGED <<state, stg>>
<1>1. ASSUME NEW r,
             Conclude(IF r = "wall_limit" THEN "needs_astra" ELSE "stopped", r)
      PROVE  /\ sup'.at = sup.at /\ sup'.retries = sup.retries
             /\ sup'.pc = "result"
             /\ sup'.status \in {"needs_astra", "stopped"}
    BY <1>1, SupervisorConcludes
<1>2. ASSUME sup' = [sup EXCEPT !.pc = "monitor", !.fail = "none",
                                !.strikes = 0, !.signalled = FALSE]
      PROVE  /\ sup'.pc = "monitor" /\ sup'.at = sup.at
             /\ sup'.retries = sup.retries
    BY <1>2 DEF TypeOK, Supervisors
<1>3. ASSUME stg' = [NoStage EXCEPT !.pc = "boot", !.stage = sup.at,
                                    !.probe = sup.probe]
      PROVE  stg'.pc = "boot" /\ stg'.stage = sup.at
    BY <1>3 DEF NoStage
<1> QED
    BY <1>1, <1>2, <1>3, SupervisorConcludes DEF SupLaunch

(* The monitor only ever moves on to the cleanup.                          *)
LEMMA MonitorEffect ==
    ASSUME TypeOK, SupMonitor
    PROVE  /\ sup'.pc \in {"monitor", "cleanup"} /\ sup'.at = sup.at
           /\ sup'.status = sup.status /\ sup'.retries = sup.retries
           /\ stop => stop'
<1>1. sup \in Supervisors /\ sup.pc = "monitor"
    BY DEF TypeOK, SupMonitor
<1>2. ASSUME NEW r, Fails(r)
      PROVE  /\ sup'.pc \in {"monitor", "cleanup"} /\ sup'.at = sup.at
             /\ sup'.status = sup.status /\ sup'.retries = sup.retries /\ stop'
    BY <1>1, <1>2 DEF Fails, Supervisors
<1>3. ASSUME NEW n, sup' = [sup EXCEPT !.strikes = n]
      PROVE  /\ sup'.pc \in {"monitor", "cleanup"} /\ sup'.at = sup.at
             /\ sup'.status = sup.status /\ sup'.retries = sup.retries
    BY <1>1, <1>3 DEF Supervisors
<1> QED
    BY <1>2, <1>3, SupervisorMoves DEF SupMonitor

(* The cleanup leaves a leader to reap and nothing else of its group.      *)
LEMMA CleanupEffect ==
    ASSUME IInv, SupCleanup
    PROVE  /\ sup'.pc = "settle" /\ sup'.at = sup.at
           /\ sup'.status = sup.status /\ sup'.retries = sup.retries
           /\ stg'.pc = "zombie" /\ ~child'
<1> TypeOK /\ stg.pc # "none"
    BY DEF IInv, SupervisorKnowsGroup, SupCleanup
<1>1. ASSUME sup' = [sup EXCEPT !.pc = "settle", !.signalled = StageAlive]
      PROVE  /\ sup'.pc = "settle" /\ sup'.at = sup.at
             /\ sup'.status = sup.status /\ sup'.retries = sup.retries
    BY <1>1 DEF TypeOK, Supervisors
<1>2. ASSUME sup' = [sup EXCEPT !.pc = "settle"]
      PROVE  /\ sup'.pc = "settle" /\ sup'.at = sup.at
             /\ sup'.status = sup.status /\ sup'.retries = sup.retries
    BY <1>2 DEF TypeOK, Supervisors
<1>3. [stg EXCEPT !.pc = "zombie", !.code = "signal"].pc = "zombie"
    BY DEF TypeOK, StageProcesses
<1>4. StageAlive \/ stg.pc = "zombie"
    BY DEF StageAlive
<1>5. CASE /\ stg.pc = "zombie" /\ ~child /\ UNCHANGED <<stg, child>>
           /\ sup' = [sup EXCEPT !.pc = "settle"]
    BY <1>2, <1>5
<1>6. CASE /\ stg' = IF StageAlive
                      THEN [stg EXCEPT !.pc = "zombie", !.code = "signal"]
                      ELSE stg
           /\ child' = FALSE
           /\ sup' = [sup EXCEPT !.pc = "settle", !.signalled = StageAlive]
  <2>1. stg'.pc = "zombie"
      BY <1>3, <1>4, <1>6
  <2> QED
      BY <1>1, <1>6, <2>1
<1> QED
    BY <1>5, <1>6 DEF SupCleanup

(* A stage that was reaped is tried again, followed by the next one, or    *)
(* ends the supervision; a retry is only ever spent.                       *)
LEMMA SettleEffect ==
    ASSUME IInv, SupSettle
    PROVE  /\ sup.pc = "settle" /\ sup.at \in Stages
           /\ UNCHANGED <<state, stop, complete, receipt, attempts, results,
                          approved, op, child>>
           /\ \A s \in Stages : s # sup.at => alloc'[s] = alloc[s]
           /\ stg'.pc = "none"
           /\ \A s \in Stages : sup'.retries[s] >= sup.retries[s]
           /\ \/ sup'.pc = "wait" /\ sup'.at = sup.at
              \/ /\ sup'.pc = "next" /\ sup'.at = sup.at + 1
                 /\ sup.at \in complete
              \/ /\ sup'.pc = "result" /\ sup'.at = sup.at
                 /\ sup'.status \in
                       {"stopped", "needs_astra", "ready_for_luna"}
<1> DEFINE again == [sup EXCEPT !.pc = "wait", !.fail = "none"]
<1> TypeOK /\ sup.pc = "settle" /\ sup.at \in Stages
    BY DEF IInv, SupSettle, SupervisorKnowsFiles, OnStage
<1>1. sup \in Supervisors /\ sup.retries \in [Stages -> 0..MaxRetries]
    BY DEF TypeOK, Supervisors, StageRetries
<1>2. again.pc = "wait" /\ again.at = sup.at /\ again.retries = sup.retries
    BY <1>1 DEF Supervisors
<1>3. ASSUME sup' = [again EXCEPT !.retries[sup.at] = @ + 1]
      PROVE  /\ sup'.pc = "wait" /\ sup'.at = sup.at
             /\ sup'.retries = [sup.retries EXCEPT ![sup.at] = @ + 1]
    BY <1>1, <1>3 DEF Supervisors
<1>4. ASSUME sup' = [sup EXCEPT !.pc = "next", !.at = @ + 1]
      PROVE  /\ sup'.pc = "next" /\ sup'.at = sup.at + 1
             /\ sup'.retries = sup.retries
    BY <1>1, <1>4 DEF Supervisors
<1>5. stg'.pc = "none"
    BY FirstRecords DEF SupSettle
<1>6. PICK f \in Settled : SupSettle!3!(f)
    BY DEF SupSettle
<1>7. \A s, r : Conclude(s, r) =>
         /\ sup'.pc = "result" /\ sup'.status = s
         /\ sup'.at = sup.at /\ sup'.retries = sup.retries
    BY SupervisorConcludes
<1>8. \/ sup' = again
      \/ sup' = [again EXCEPT !.retries[sup.at] = @ + 1]
      \/ sup' = [sup EXCEPT !.pc = "next", !.at = @ + 1] /\ sup.at \in complete
      \/ \E s \in {"stopped", "needs_astra", "ready_for_luna"},
            r \in {f, "stage_exit", "probe_complete", "unverified"} :
            Conclude(s, r)
    BY <1>6
<1>9. \A s \in Stages : sup.retries[s] \in Nat
    BY <1>1
<1>10. \A s \in Stages : s # sup.at => alloc'[s] = alloc[s]
  <2>1. alloc' = alloc \/ alloc' = [alloc EXCEPT ![sup.at] = @ + 1]
      BY <1>6
  <2> QED
      BY <2>1 DEF TypeOK
<1>11. UNCHANGED <<state, stop, complete, receipt, attempts, results,
                   approved, op, child>>
    BY DEF SupSettle
<1>12. CASE sup' = again
    BY <1>2, <1>5, <1>9, <1>10, <1>11, <1>12
<1>13. CASE sup' = [again EXCEPT !.retries[sup.at] = @ + 1]
  <2>1. \A s \in Stages :
           [sup.retries EXCEPT ![sup.at] = @ + 1][s] >= sup.retries[s]
      BY <1>1, <1>9
  <2> QED
      BY <1>3, <1>5, <1>10, <1>11, <1>13, <2>1
<1>14. CASE /\ sup' = [sup EXCEPT !.pc = "next", !.at = @ + 1]
            /\ sup.at \in complete
    BY <1>4, <1>5, <1>9, <1>10, <1>11, <1>14
<1>15. CASE \E s \in {"stopped", "needs_astra", "ready_for_luna"},
               r \in {f, "stage_exit", "probe_complete", "unverified"} :
               Conclude(s, r)
    BY <1>5, <1>7, <1>9, <1>10, <1>11, <1>15
<1> QED
    BY <1>8, <1>12, <1>13, <1>14, <1>15

(* The last save is the supervisor's verdict; a leader left is reaped.     *)
LEMMA SaveEffect ==
    ASSUME TypeOK, SupSave
    PROVE  /\ sup'.pc = "none" /\ stg'.pc # "zombie"
           /\ \/ stg' = stg
              \/ stg.pc = "zombie" /\ stg'.pc = "none"
           /\ state'.status = sup.status /\ state'.attempt = state.attempt
           /\ state'.retries = sup.retries
<1>1. \A n : LET s == [state EXCEPT !.status = sup.status, !.reason = sup.fail,
                              !.acked = TRUE, !.retries = sup.retries,
                              !.stage = n, !.signalled = sup.signalled]
            IN  /\ s.status = sup.status /\ s.attempt = state.attempt
                /\ s.retries = sup.retries
    BY DEF TypeOK, RunRecords
<1> QED
    BY <1>1, FirstRecords DEF SupSave

-----------------------------------------------------------------------------
(* What holds for a command under the lease                                *)

(* A launch that nobody touches stays admitted, also when STOP is set.     *)
LEMMA AdmissionIsKept ==
    ASSUME NEW p \in Operators, Admitted(p), op'[p].pc = op[p].pc,
           UNCHANGED <<state, attempts, results>>, stop => stop'
    PROVE  Admitted(p)'
BY DEF Admitted, Resumable, StartupRecoverable

(* A command past its checks is alone: no supervisor, no stage, no child,  *)
(* and nobody else with the lease.                                         *)
LEMMA LauncherIsAlone ==
    ASSUME IInv, NEW p \in Operators, op[p].pc \in Launching
    PROVE  /\ ~SupAlive /\ ~StageAlive /\ stg.pc = "none" /\ ~child
           /\ ~LeaseFree
           /\ \A q \in Operators \ {p} : ~HoldsLease(q)
<1>1. HoldsLease(p)
    BY DEF HoldsLease, Launching
<1>2. ~SupAlive /\ ~StageAlive /\ ~child
      /\ \A q \in Operators \ {p} : ~HoldsLease(q)
    BY <1>1 DEF IInv, LeaseIsExclusive
<1>3. stg.pc = "none"
    BY <1>2 DEF IInv, GroupIsKnown, StageAlive
<1> QED
    BY <1>1, <1>2, <1>3 DEF LeaseFree

-----------------------------------------------------------------------------
(* Who writes what                                                         *)

(* Who writes state.json.                                                  *)
LEMMA StateWriters ==
    ASSUME [Next]_vars
    PROVE  \/ state' = state
           \/ \E o \in Operators : CheckStart(o) \/ CheckResume(o)
                 \/ SavePending(o) \/ Spawn(o) \/ SpawnFails(o)
                 \/ PollSupervisor(o) \/ FinishPause(o)
           \/ SupBoot \/ SupWait \/ SupLaunch \/ SupSave
<1>1. ASSUME NEW o \in Operators, Command(o)
      PROVE  state' = state \/ CheckStart(o) \/ CheckResume(o)
         \/ SavePending(o) \/ Spawn(o) \/ SpawnFails(o) \/ PollSupervisor(o)
         \/ FinishPause(o)
    BY <1>1 DEF Command, Begin, Refused, Pause, RecordAttempt, ClearStop,
       AwaitAck, AwaitTimeout, files
<1>2. CASE Supervise
    BY <1>2 DEF Supervise, SupNext, SupMonitor, SupCleanup, SupCleanupFails,
       SupSettle, SupResult, files
<1>3. CASE RunStage
    BY <1>3 DEF RunStage, StageBoot, StageWork, StageCheck, StagePublish,
       files
<1>4. CASE Environment
    BY <1>4 DEF Environment, StageKilled, ChildEnds, SupKilled, HostCrash,
       OperatorKilled, files
<1>5. CASE Stop \/ Approve \/ UNCHANGED vars
    BY <1>5 DEF Stop, Approve, vars, files
<1> QED
    BY <1>1, <1>2, <1>3, <1>4, <1>5 DEF Next

(* Who writes what a command does.                                         *)
LEMMA CommandWriters ==
    ASSUME [Next]_vars
    PROVE  \/ op' = op
           \/ \E o \in Operators : Command(o) \/ OperatorKilled(o)
           \/ HostCrash
<1>2. CASE Supervise
    BY <1>2 DEF Supervise, SupBoot, SupNext, SupWait, SupLaunch, SupMonitor,
       SupCleanup, SupCleanupFails, SupSettle, SupResult, SupSave, files
<1>3. CASE RunStage
    BY <1>3 DEF RunStage, StageBoot, StageWork, StageCheck, StagePublish,
       files
<1>4. CASE Environment
    BY <1>4 DEF Environment, StageKilled, ChildEnds, SupKilled, files
<1>5. CASE Stop \/ Approve \/ UNCHANGED vars
    BY <1>5 DEF Stop, Approve, vars, files
<1> QED
    BY <1>2, <1>3, <1>4, <1>5 DEF Next

(* Who writes the supervisor.                                              *)
LEMMA SupervisorWriters ==
    ASSUME [Next]_vars
    PROVE  \/ sup' = sup
           \/ \E o \in Operators : Spawn(o)
           \/ SupBoot \/ SupNext \/ SupWait \/ SupLaunch \/ SupMonitor
              \/ SupCleanup \/ SupCleanupFails \/ SupSettle \/ SupResult
              \/ SupSave \/ SupKilled \/ HostCrash
<1>1. ASSUME NEW o \in Operators, Command(o)
      PROVE  sup' = sup \/ Spawn(o)
    BY <1>1 DEF Command, Begin, Refused, Pause, CheckStart, CheckResume,
       RecordAttempt, SavePending, ClearStop, SpawnFails, AwaitAck,
       PollSupervisor, AwaitTimeout, FinishPause, files
<1>2. CASE Supervise
    BY <1>2 DEF Supervise, files
<1>3. CASE RunStage
    BY <1>3 DEF RunStage, StageBoot, StageWork, StageCheck, StagePublish,
       files
<1>4. CASE Environment
    BY <1>4 DEF Environment, StageKilled, ChildEnds, OperatorKilled, files
<1>5. CASE Stop \/ Approve \/ UNCHANGED vars
    BY <1>5 DEF Stop, Approve, vars, files
<1> QED
    BY <1>1, <1>2, <1>3, <1>4, <1>5 DEF Next

(* Who writes the stage process.                                           *)
LEMMA StageWriters ==
    ASSUME [Next]_vars
    PROVE  \/ stg' = stg
           \/ SupLaunch \/ SupCleanup \/ SupSettle \/ SupSave \/ StageBoot
              \/ StageWork \/ StageCheck \/ StagePublish \/ StageKilled
              \/ SupKilled \/ HostCrash
<1>1. ASSUME NEW o \in Operators, Command(o)
      PROVE  stg' = stg
    BY <1>1 DEF Command, Begin, Refused, Pause, CheckStart, CheckResume,
       RecordAttempt, SavePending, ClearStop, Spawn, SpawnFails, AwaitAck,
       PollSupervisor, AwaitTimeout, FinishPause, files
<1>2. CASE Supervise
    BY <1>2 DEF Supervise, SupBoot, SupNext, SupWait, SupMonitor,
       SupCleanupFails, SupResult, files
<1>3. CASE RunStage
    BY <1>3 DEF RunStage, files
<1>4. CASE Environment
    BY <1>4 DEF Environment, ChildEnds, OperatorKilled, files
<1>5. CASE Stop \/ Approve \/ UNCHANGED vars
    BY <1>5 DEF Stop, Approve, vars, files
<1> QED
    BY <1>1, <1>2, <1>3, <1>4, <1>5 DEF Next

(* Who writes the children of a stage.                                     *)
LEMMA ChildWriters ==
    ASSUME [Next]_vars
    PROVE  \/ child' = child
           \/ SupCleanup \/ StageWork \/ ChildEnds \/ HostCrash
<1>1. ASSUME NEW o \in Operators, Command(o)
      PROVE  child' = child
    BY <1>1 DEF Command, Begin, Refused, Pause, CheckStart, CheckResume,
       RecordAttempt, SavePending, ClearStop, Spawn, SpawnFails, AwaitAck,
       PollSupervisor, AwaitTimeout, FinishPause, files
<1>2. CASE Supervise
    BY <1>2 DEF Supervise, SupBoot, SupNext, SupWait, SupLaunch, SupMonitor,
       SupCleanupFails, SupSettle, SupResult, SupSave, files
<1>3. CASE RunStage
    BY <1>3 DEF RunStage, StageBoot, StageCheck, StagePublish, files
<1>4. CASE Environment
    BY <1>4 DEF Environment, StageKilled, SupKilled, OperatorKilled, files
<1>5. CASE Stop \/ Approve \/ UNCHANGED vars
    BY <1>5 DEF Stop, Approve, vars, files
<1> QED
    BY <1>1, <1>2, <1>3, <1>4, <1>5 DEF Next

(* Who writes the stage-process receipt.                                   *)
LEMMA ReceiptWriters ==
    ASSUME [Next]_vars
    PROVE  \/ receipt' = receipt
           \/ SupCleanup \/ StageBoot
<1>1. ASSUME NEW o \in Operators, Command(o)
      PROVE  receipt' = receipt
    BY <1>1 DEF Command, Begin, Refused, Pause, CheckStart, CheckResume,
       RecordAttempt, SavePending, ClearStop, Spawn, SpawnFails, AwaitAck,
       PollSupervisor, AwaitTimeout, FinishPause, files
<1>2. CASE Supervise
    BY <1>2 DEF Supervise, SupBoot, SupNext, SupWait, SupLaunch, SupMonitor,
       SupCleanupFails, SupSettle, SupResult, SupSave, files
<1>3. CASE RunStage
    BY <1>3 DEF RunStage, StageWork, StageCheck, StagePublish, files
<1>4. CASE Environment
    BY <1>4 DEF Environment, StageKilled, ChildEnds, SupKilled, HostCrash,
       OperatorKilled, files
<1>5. CASE Stop \/ Approve \/ UNCHANGED vars
    BY <1>5 DEF Stop, Approve, vars, files
<1> QED
    BY <1>1, <1>2, <1>3, <1>4, <1>5 DEF Next

(* Who writes the completion receipts.                                     *)
LEMMA CompleteWriters ==
    ASSUME [Next]_vars
    PROVE  \/ complete' = complete
           \/ StagePublish
<1>1. ASSUME NEW o \in Operators, Command(o)
      PROVE  complete' = complete
    BY <1>1 DEF Command, Begin, Refused, Pause, CheckStart, CheckResume,
       RecordAttempt, SavePending, ClearStop, Spawn, SpawnFails, AwaitAck,
       PollSupervisor, AwaitTimeout, FinishPause, files
<1>2. CASE Supervise
    BY <1>2 DEF Supervise, SupBoot, SupNext, SupWait, SupLaunch, SupMonitor,
       SupCleanup, SupCleanupFails, SupSettle, SupResult, SupSave, files
<1>3. CASE RunStage
    BY <1>3 DEF RunStage, StageBoot, StageWork, StageCheck, files
<1>4. CASE Environment
    BY <1>4 DEF Environment, StageKilled, ChildEnds, SupKilled, HostCrash,
       OperatorKilled, files
<1>5. CASE Stop \/ Approve \/ UNCHANGED vars
    BY <1>5 DEF Stop, Approve, vars, files
<1> QED
    BY <1>1, <1>2, <1>3, <1>4, <1>5 DEF Next

(* Who writes the failed allocations.                                      *)
LEMMA AllocationWriters ==
    ASSUME [Next]_vars
    PROVE  \/ alloc' = alloc
           \/ SupSettle
<1>1. ASSUME NEW o \in Operators, Command(o)
      PROVE  alloc' = alloc
    BY <1>1 DEF Command, Begin, Refused, Pause, CheckStart, CheckResume,
       RecordAttempt, SavePending, ClearStop, Spawn, SpawnFails, AwaitAck,
       PollSupervisor, AwaitTimeout, FinishPause, files
<1>2. CASE Supervise
    BY <1>2 DEF Supervise, SupBoot, SupNext, SupWait, SupLaunch, SupMonitor,
       SupCleanup, SupCleanupFails, SupResult, SupSave, files
<1>3. CASE RunStage
    BY <1>3 DEF RunStage, StageBoot, StageWork, StageCheck, StagePublish,
       files
<1>4. CASE Environment
    BY <1>4 DEF Environment, StageKilled, ChildEnds, SupKilled, HostCrash,
       OperatorKilled, files
<1>5. CASE Stop \/ Approve \/ UNCHANGED vars
    BY <1>5 DEF Stop, Approve, vars, files
<1> QED
    BY <1>1, <1>2, <1>3, <1>4, <1>5 DEF Next

(* Who writes the number of attempts.                                      *)
LEMMA AttemptWriters ==
    ASSUME [Next]_vars
    PROVE  \/ attempts' = attempts
           \/ \E o \in Operators : RecordAttempt(o)
<1>1. ASSUME NEW o \in Operators, Command(o)
      PROVE  attempts' = attempts \/ RecordAttempt(o)
    BY <1>1 DEF Command, Begin, Refused, Pause, CheckStart, CheckResume,
       SavePending, ClearStop, Spawn, SpawnFails, AwaitAck, PollSupervisor,
       AwaitTimeout, FinishPause, files
<1>2. CASE Supervise
    BY <1>2 DEF Supervise, SupBoot, SupNext, SupWait, SupLaunch, SupMonitor,
       SupCleanup, SupCleanupFails, SupSettle, SupResult, SupSave, files
<1>3. CASE RunStage
    BY <1>3 DEF RunStage, StageBoot, StageWork, StageCheck, StagePublish,
       files
<1>4. CASE Environment
    BY <1>4 DEF Environment, StageKilled, ChildEnds, SupKilled, HostCrash,
       OperatorKilled, files
<1>5. CASE Stop \/ Approve \/ UNCHANGED vars
    BY <1>5 DEF Stop, Approve, vars, files
<1> QED
    BY <1>1, <1>2, <1>3, <1>4, <1>5 DEF Next

(* Who writes the attempts' results.                                       *)
LEMMA ResultWriters ==
    ASSUME [Next]_vars
    PROVE  \/ results' = results
           \/ SupResult
<1>1. ASSUME NEW o \in Operators, Command(o)
      PROVE  results' = results
    BY <1>1 DEF Command, Begin, Refused, Pause, CheckStart, CheckResume,
       RecordAttempt, SavePending, ClearStop, Spawn, SpawnFails, AwaitAck,
       PollSupervisor, AwaitTimeout, FinishPause, files
<1>2. CASE Supervise
    BY <1>2 DEF Supervise, SupBoot, SupNext, SupWait, SupLaunch, SupMonitor,
       SupCleanup, SupCleanupFails, SupSettle, SupSave, files
<1>3. CASE RunStage
    BY <1>3 DEF RunStage, StageBoot, StageWork, StageCheck, StagePublish,
       files
<1>4. CASE Environment
    BY <1>4 DEF Environment, StageKilled, ChildEnds, SupKilled, HostCrash,
       OperatorKilled, files
<1>5. CASE Stop \/ Approve \/ UNCHANGED vars
    BY <1>5 DEF Stop, Approve, vars, files
<1> QED
    BY <1>1, <1>2, <1>3, <1>4, <1>5 DEF Next

-----------------------------------------------------------------------------
(* One part of the invariant after the other                               *)

(* Every step keeps the types; a counter stays in its range by what the   *)
(* invariant says of its owner.                                            *)
LEMMA TypeIsKept == IInv /\ [Next]_vars => TypeOK'
<1> SUFFICES ASSUME IInv, [Next]_vars PROVE TypeOK'
    OBVIOUS
<1> USE RunAssumption DEF TypeOK, files
<1> TypeOK
    BY DEF IInv
<1>1. CASE Stop \/ Approve \/ ChildEnds
    BY <1>1 DEF Stop, Approve, ChildEnds
<1>2. ASSUME NEW o \in Operators, NEW cmd \in {"start", "resume"},
             NEW probe \in Probes, Begin(o, cmd, probe)
      PROVE  TypeOK'
    BY <1>2, FirstRecords DEF Begin, Commands, OpPcs
<1>3. ASSUME NEW o \in Operators, Refused(o) PROVE TypeOK'
    BY <1>3 DEF Refused
<1>4. ASSUME NEW o \in Operators, Pause(o) PROVE TypeOK'
    BY <1>4 DEF Pause, Commands, OpPcs
<1>5. ASSUME NEW o \in Operators, CheckStart(o) PROVE TypeOK'
    BY <1>5, CommandMoves, CommandEnds, SaveKeeps DEF CheckStart, OpPcs,
       Statuses, Sticky, Reasons
<1>6. ASSUME NEW o \in Operators, CheckResume(o) PROVE TypeOK'
    BY <1>6, CommandMoves, CommandEnds, SaveKeeps DEF CheckResume,
       AdmissionRefusals, OpPcs, Statuses, Sticky, Reasons
<1>7. ASSUME NEW o \in Operators, RecordAttempt(o) PROVE TypeOK'
    BY <1>7, CommandMoves DEF RecordAttempt, OpPcs, IInv, LaunchIsAdmitted,
       Admitted
<1>8. ASSUME NEW o \in Operators, SavePending(o) PROVE TypeOK'
  <2>1. op[o] \in Commands /\ state.retries \in StageRetries
      BY DEF RunRecords
  <2>2. [op[o] EXCEPT !.pc = "clear", !.retries = state.retries] \in Commands
      BY <2>1 DEF Commands, OpPcs
  <2>3. op' = [op EXCEPT ![o] = [op[o] EXCEPT !.pc = "clear",
                                              !.retries = state.retries]]
      BY <1>8 DEF SavePending
  <2>4. op' \in [Operators -> Commands]
      BY <2>2, <2>3
  <2>5. state' \in RunRecords
      BY <1>8, <2>1 DEF SavePending, RunRecords, Statuses, Reasons, Stages
  <2> QED
      BY <1>8, <2>4, <2>5 DEF SavePending
<1>9. ASSUME NEW o \in Operators, ClearStop(o) PROVE TypeOK'
    BY <1>9, CommandMoves DEF ClearStop, OpPcs
<1>10. ASSUME NEW o \in Operators, Spawn(o) PROVE TypeOK'
    BY <1>10, CommandMoves, CommandEnds, FirstRecords DEF Spawn, OpPcs,
       Commands, Supervisors, SupPcs, RunRecords
<1>11. ASSUME NEW o \in Operators, SpawnFails(o) PROVE TypeOK'
    BY <1>11, CommandEnds, SaveKeeps DEF SpawnFails, Statuses, Sticky,
       Reasons
<1>12. ASSUME NEW o \in Operators, AwaitAck(o) PROVE TypeOK'
    BY <1>12, CommandMoves, CommandEnds DEF AwaitAck, OpPcs
<1>13. ASSUME NEW o \in Operators, PollSupervisor(o) PROVE TypeOK'
  <2>1. op[o].retries \in StageRetries /\ 1 \in Stages
      BY DEF Commands, Stages
  <2>2. state' \in RunRecords
    <3>1. "needs_astra" \in Statuses /\ "bootstrap" \in Reasons
        BY DEF Statuses, Sticky, Reasons
    <3> QED
      <4>1. [status |-> "needs_astra", reason |-> "bootstrap",
             attempt |-> attempts, acked |-> FALSE, stage |-> 1,
             signalled |-> FALSE, retries |-> op[o].retries] \in RunRecords
          BY <2>1, <3>1 DEF RunRecords
      <4> QED
          BY <1>13, <4>1 DEF PollSupervisor
  <2>3. op' \in [Operators -> Commands]
      BY <1>13, CommandMoves, CommandEnds DEF PollSupervisor, OpPcs
  <2> QED
      BY <1>13, <2>2, <2>3 DEF PollSupervisor
<1>14. ASSUME NEW o \in Operators, AwaitTimeout(o) PROVE TypeOK'
    BY <1>14, CommandEnds DEF AwaitTimeout
<1>15. ASSUME NEW o \in Operators, FinishPause(o) PROVE TypeOK'
    BY <1>15, CommandEnds, SaveKeeps DEF FinishPause, Statuses, Sticky,
       Reasons
<1>16. ASSUME NEW o \in Operators, OperatorKilled(o) PROVE TypeOK'
    BY <1>16, CommandEnds DEF OperatorKilled
<1>17. CASE SupBoot
  <2>1. sup' \in Supervisors
      BY ZenonT(60), <1>17, FirstRecords DEF SupBoot, Supervisors, SupPcs, RunRecords
  <2>2. state' \in RunRecords
    <3>1. 1 \in Stages
        BY DEF Stages
    <3>2. Saved("needs_astra", "residual_group") \in RunRecords
        BY SaveKeeps DEF Statuses, Sticky, Reasons
    <3>3. [state EXCEPT !.status = "running", !.reason = "none",
                        !.acked = TRUE, !.stage = 1, !.signalled = FALSE]
             \in RunRecords
        BY <3>1 DEF RunRecords, Statuses, Reasons
    <3> QED
        BY <1>17, <3>2, <3>3 DEF SupBoot
  <2> QED
      BY <1>17, <2>1, <2>2 DEF SupBoot
<1>18. CASE SupNext
  <2>1. sup.at <= LastStage => [sup EXCEPT !.at = @ + 1] \in Supervisors
      BY SMTT(30) DEF Supervisors
  <2>2. SupGo("wait") => sup' \in Supervisors
      BY SupervisorMoves DEF SupPcs
  <2>3. \A s \in Statuses, r \in Reasons :
           Conclude(s, r) => sup' \in Supervisors
      BY SupervisorConcludes
  <2>4. {"awaiting_astra_review", "ready_for_luna", "needs_astra", "stopped"}
           \subseteq Statuses
        /\ {"none", "probe_complete", "unverified", "requested_stop"}
           \subseteq Reasons
      BY DEF Statuses, Sticky, Reasons
  <2>5. sup' \in Supervisors
      BY <1>18, <2>1, <2>2, <2>3, <2>4 DEF SupNext
  <2> QED
      BY <1>18, <2>5 DEF SupNext
<1>19. CASE SupWait
    BY <1>19, RunningIsOwn, SupervisorConcludes, SupervisorMoves DEF SupWait,
       SupPcs, IInv, SupervisorKnowsFiles, OnStage, Statuses, Sticky, Reasons
<1>20. CASE SupLaunch
  <2>1. sup.at \in Stages
      BY <1>20 DEF SupLaunch, IInv, SupervisorKnowsFiles, OnStage
  <2>2. CASE /\ Conclude("needs_astra", "before_spawn")
             /\ UNCHANGED <<state, stg>>
      BY <1>20, <2>2, SupervisorConcludes DEF SupLaunch, Statuses, Sticky,
         Reasons
  <2>3. ASSUME NEW r \in AdmissionRefusals \union {"wall_limit"},
               Conclude(IF r = "wall_limit" THEN "needs_astra"
                                            ELSE "stopped", r),
               UNCHANGED <<state, stg>>
        PROVE  TypeOK'
    <3>1. r \in Reasons
          /\ (IF r = "wall_limit" THEN "needs_astra" ELSE "stopped")
                \in Statuses
        BY <2>3 DEF AdmissionRefusals, Reasons, Statuses, Sticky
    <3> QED
        BY <1>20, <2>3, <3>1, SupervisorConcludes DEF SupLaunch
  <2>4. CASE /\ sup' = [sup EXCEPT !.pc = "monitor", !.fail = "none",
                                   !.strikes = 0, !.signalled = FALSE]
             /\ stg' = [NoStage EXCEPT !.pc = "boot", !.stage = sup.at,
                                       !.probe = sup.probe]
             /\ state' = Running("none")
    <3>1. sup' \in Supervisors
      <4>1. 0 \in 0..Sustained /\ "none" \in Reasons /\ "monitor" \in SupPcs
          BY DEF Reasons, SupPcs
      <4> QED
          BY <2>4, <4>1 DEF Supervisors
    <3>2. stg' \in StageProcesses
        BY <2>1, <2>4, FirstRecords DEF StageProcesses, StagePcs, Supervisors
    <3>3. state' \in RunRecords
        BY <2>1, <2>4, RunningIsOwn DEF Reasons
    <3> QED
        BY <1>20, <3>1, <3>2, <3>3 DEF SupLaunch
  <2> QED
      BY <1>20, <2>2, <2>3, <2>4 DEF SupLaunch
<1>21. CASE SupMonitor
  <2>1. ASSUME NEW r \in Reasons, Fails(r)
        PROVE  sup' \in Supervisors /\ stop' = TRUE
    <3>1. (sup.errors \/ r = "supervision_error") \in BOOLEAN
        OBVIOUS
    <3> QED
        BY <2>1, <3>1 DEF Fails, Supervisors, SupPcs
  <2>2. SupGo("cleanup") => sup' \in Supervisors
      BY SupervisorMoves DEF SupPcs
  <2>3. ASSUME NEW c \in Conditions,
               ~ \/ c = "critical"
                 \/ c = "pressure" /\ sup.strikes + 1 >= Sustained,
               sup' = [sup EXCEPT !.strikes = IF c = "safe" THEN 0 ELSE @ + 1]
        PROVE  sup' \in Supervisors
    <3>1. (IF c = "safe" THEN 0 ELSE sup.strikes + 1) \in 0..Sustained
        BY <2>3 DEF Conditions, Supervisors
    <3> QED
        BY <2>3, <3>1 DEF Supervisors
  <2>4. {"requested_stop", "resource_wait", "supervision_error"} \union Limits
           \subseteq Reasons
      BY DEF Limits, Reasons
  <2>5. sup' \in Supervisors /\ stop' \in BOOLEAN
    <3>1. CASE SupGo("cleanup") /\ stop' = stop
        BY <2>2, <3>1
    <3>2. CASE \E r \in Reasons : Fails(r)
        BY <2>1, <3>2
    <3>3. CASE \E c \in Conditions :
                 /\ ~ \/ c = "critical"
                      \/ c = "pressure" /\ sup.strikes + 1 >= Sustained
                 /\ sup' = [sup EXCEPT !.strikes =
                              IF c = "safe" THEN 0 ELSE @ + 1]
                 /\ stop' = stop
        BY <2>3, <3>3
    <3> QED
        BY <1>21, <2>4, <3>1, <3>2, <3>3 DEF SupMonitor
  <2> QED
      BY <1>21, <2>5 DEF SupMonitor
<1>22. CASE SupCleanup
  <2>1. sup' \in Supervisors
    <3>1. StageAlive \in BOOLEAN
        BY DEF StageAlive
    <3> QED
        BY ZenonT(60), <1>22, <3>1 DEF SupCleanup, Supervisors, SupPcs
  <2>2. stg' \in StageProcesses
      BY ZenonT(60), <1>22 DEF SupCleanup, StageProcesses, StagePcs, Codes
  <2> QED
      BY <1>22, <2>1, <2>2 DEF SupCleanup
<1>23. CASE SupCleanupFails
    BY <1>23, SupervisorConcludes DEF SupCleanupFails, Statuses, Sticky,
       Reasons
<1>24. CASE SupSettle
  <2>1. /\ sup.at \in Stages /\ alloc[sup.at] <= AllocationRetries
        /\ sup.retries \in StageRetries
      BY <1>24 DEF SupSettle, IInv, SupervisorKnowsFiles, OnStage, Supervisors
  <2>2. stg' \in StageProcesses
      BY <1>24, FirstRecords DEF SupSettle
  <2>3. alloc' \in [Stages -> 0..AllocationRetries + 1]
    <3>1. alloc' = alloc \/ alloc' = [alloc EXCEPT ![sup.at] = @ + 1]
        BY <1>24 DEF SupSettle
    <3> QED
        BY <2>1, <3>1
  <2>4. sup' \in Supervisors
    <3>1. Settled \subseteq Reasons
        BY DEF Settled, Supervisors, Reasons
    <3>2. [sup EXCEPT !.pc = "wait", !.fail = "none"] \in Supervisors
        BY DEF Supervisors, SupPcs, Reasons
    <3>3. sup.retries[sup.at] < MaxRetries =>
             [[sup EXCEPT !.pc = "wait", !.fail = "none"]
                EXCEPT !.retries[sup.at] = @ + 1] \in Supervisors
      <4>1. sup.retries[sup.at] < MaxRetries =>
               [sup.retries EXCEPT ![sup.at] = @ + 1] \in StageRetries
          BY <2>1 DEF StageRetries
      <4> QED
          BY <3>2, <4>1 DEF Supervisors
    <3>4. [sup EXCEPT !.pc = "next", !.at = @ + 1] \in Supervisors
      <4>1. sup.at + 1 \in 1..LastStage + 1 /\ "next" \in SupPcs
          BY <2>1 DEF Stages, SupPcs
      <4> QED
          BY <4>1 DEF Supervisors
    <3>5. \A s \in Statuses, r \in Reasons :
           Conclude(s, r) => sup' \in Supervisors
        BY SupervisorConcludes
    <3>6. {"stopped", "needs_astra", "ready_for_luna"} \subseteq Statuses
          /\ {"stage_exit", "probe_complete", "unverified"} \subseteq Reasons
        BY DEF Statuses, Sticky, Reasons
    <3>7. PICK f \in Settled : SupSettle!3!(f)
        BY <1>24 DEF SupSettle
    <3> QED
        BY <3>1, <3>2, <3>3, <3>4, <3>5, <3>6, <3>7
  <2> QED
      BY <1>24, <2>2, <2>3, <2>4 DEF SupSettle
<1>25. CASE SupResult
    BY <1>25, SupervisorMoves DEF SupResult, SupPcs, ResultRecords,
       Supervisors, RunRecords
<1>26. CASE SupSave
    BY <1>26, FirstRecords DEF SupSave, RunRecords, Supervisors
<1>27. CASE StageBoot
    BY <1>27, StageEnds DEF StageBoot, Codes, StageProcesses, StagePcs
<1>28. CASE StageWork
    BY <1>28, StageEnds DEF StageWork, Codes, StageProcesses, StagePcs
<1>29. CASE StageCheck
    BY <1>29, StageEnds DEF StageCheck, Codes, StageProcesses, StagePcs
<1>30. CASE StagePublish
    BY <1>30, StageEnds DEF StagePublish, Codes, StageProcesses
<1>31. CASE StageKilled
    BY <1>31, StageEnds DEF StageKilled, Codes
<1>32. CASE SupKilled
    BY <1>32, FirstRecords DEF SupKilled
<1>33. CASE HostCrash
    BY <1>33, FirstRecords DEF HostCrash
<1>34. CASE UNCHANGED vars
    BY <1>34 DEF vars
<1> QED
    BY <1>1, <1>2, <1>3, <1>4, <1>5, <1>6, <1>7, <1>8, <1>9, <1>10, <1>11,
       <1>12, <1>13, <1>14, <1>15, <1>16, <1>17, <1>18, <1>19, <1>20, <1>21,
       <1>22, <1>23, <1>24, <1>25, <1>26, <1>27, <1>28, <1>29, <1>30, <1>31,
       <1>32, <1>33, <1>34 DEF Next, Command, Supervise, RunStage,
       Environment

(* The lease passes from one holder to the next, and a launch begins in an *)
(* empty group.                                                            *)
LEMMA LeaseIsKept == IInv /\ [Next]_vars => LeaseIsExclusive'
<1> SUFFICES ASSUME IInv, [Next]_vars PROVE LeaseIsExclusive'
    OBVIOUS
<1> USE RunAssumption DEF files
<1> TypeOK /\ LeaseIsExclusive /\ GroupIsKnown
    BY DEF IInv
<1> /\ op \in [Operators -> Commands] /\ sup \in Supervisors
    /\ stg \in StageProcesses /\ state \in RunRecords
    BY DEF TypeOK
<1>1. CASE Stop
    BY <1>1 DEF Stop, LeaseIsExclusive, HoldsLease, Launching, SupAlive,
       StageAlive
<1>2. CASE Approve
    BY <1>2 DEF Approve, LeaseIsExclusive, HoldsLease, Launching, SupAlive,
       StageAlive
<1>3. ASSUME NEW o \in Operators, NEW cmd \in {"start", "resume"},
             NEW probe \in Probes, Begin(o, cmd, probe)
      PROVE  LeaseIsExclusive'
    BY <1>3, FirstRecords DEF Begin, LeaseFree, LeaseIsExclusive, HoldsLease,
       Launching, SupAlive, StageAlive
<1>4. ASSUME NEW o \in Operators, Refused(o) PROVE LeaseIsExclusive'
    BY <1>4 DEF Refused, LeaseIsExclusive, HoldsLease, Launching, SupAlive,
       StageAlive
<1>5. ASSUME NEW o \in Operators, Pause(o) PROVE LeaseIsExclusive'
    BY <1>5 DEF Pause, LeaseIsExclusive, HoldsLease, Launching, SupAlive,
       StageAlive
<1>6. ASSUME NEW o \in Operators, CheckStart(o) PROVE LeaseIsExclusive'
    BY <1>6, CommandMoves, CommandEnds, SaveKeeps DEF CheckStart,
       GroupIsKnown, Residual, LeaseIsExclusive, HoldsLease, Launching,
       SupAlive, StageAlive
<1>7. ASSUME NEW o \in Operators, CheckResume(o) PROVE LeaseIsExclusive'
    BY <1>7, CommandMoves, CommandEnds, SaveKeeps DEF CheckResume,
       AdmissionRefusals, ResumeIdle, GroupIsKnown, Residual,
       LeaseIsExclusive, HoldsLease, Launching, SupAlive, StageAlive
<1>8. ASSUME NEW o \in Operators, RecordAttempt(o) PROVE LeaseIsExclusive'
    BY <1>8, CommandMoves DEF RecordAttempt, LeaseIsExclusive, HoldsLease,
       Launching, SupAlive, StageAlive
<1>9. ASSUME NEW o \in Operators, SavePending(o) PROVE LeaseIsExclusive'
    BY <1>9 DEF SavePending, LeaseIsExclusive, HoldsLease, Launching,
       SupAlive, StageAlive
<1>10. ASSUME NEW o \in Operators, ClearStop(o) PROVE LeaseIsExclusive'
    BY <1>10, CommandMoves DEF ClearStop, LeaseIsExclusive, HoldsLease,
       Launching, SupAlive, StageAlive
<1>11. ASSUME NEW o \in Operators, Spawn(o) PROVE LeaseIsExclusive'
    BY <1>11, CommandMoves, CommandEnds, FirstRecords DEF Spawn,
       LeaseIsExclusive, HoldsLease, Launching, SupAlive, StageAlive
<1>12. ASSUME NEW o \in Operators, SpawnFails(o) PROVE LeaseIsExclusive'
    BY <1>12, CommandEnds, SaveKeeps DEF SpawnFails, LeaseIsExclusive,
       HoldsLease, Launching, SupAlive, StageAlive
<1>13. ASSUME NEW o \in Operators, AwaitAck(o) PROVE LeaseIsExclusive'
    BY <1>13, CommandMoves, CommandEnds DEF AwaitAck, LeaseIsExclusive,
       HoldsLease, Launching, SupAlive, StageAlive
<1>14. ASSUME NEW o \in Operators, PollSupervisor(o) PROVE LeaseIsExclusive'
    BY <1>14, CommandMoves, CommandEnds DEF PollSupervisor, LeaseIsExclusive,
       HoldsLease, Launching, SupAlive, StageAlive
<1>15. ASSUME NEW o \in Operators, AwaitTimeout(o) PROVE LeaseIsExclusive'
    BY <1>15, CommandEnds DEF AwaitTimeout, LeaseIsExclusive, HoldsLease,
       Launching, SupAlive, StageAlive
<1>16. ASSUME NEW o \in Operators, FinishPause(o) PROVE LeaseIsExclusive'
    BY <1>16, CommandEnds, SaveKeeps DEF FinishPause, LeaseIsExclusive,
       HoldsLease, Launching, SupAlive, StageAlive
<1>17. ASSUME NEW o \in Operators, OperatorKilled(o) PROVE LeaseIsExclusive'
    BY <1>17, CommandEnds DEF OperatorKilled, LeaseIsExclusive, HoldsLease,
       Launching, SupAlive, StageAlive
<1>18. CASE SupBoot
    BY <1>18, BootEffect DEF SupBoot, LeaseIsExclusive, HoldsLease,
       Launching, SupAlive, StageAlive
<1>19. CASE SupNext
    BY <1>19, NextEffect DEF SupNext, LeaseIsExclusive, HoldsLease,
       Launching, SupAlive, StageAlive
<1>20. CASE SupWait
    BY <1>20, RunningIsOwn, SupervisorConcludes, SupervisorMoves DEF SupWait,
       LeaseIsExclusive, HoldsLease, Launching, SupAlive, StageAlive
<1>21. CASE SupLaunch
    BY <1>21, LaunchEffect, RunningIsOwn DEF SupLaunch, LeaseIsExclusive,
       HoldsLease, Launching, SupAlive, StageAlive
<1>22. CASE SupMonitor
    BY <1>22, MonitorEffect DEF SupMonitor, LeaseIsExclusive, HoldsLease,
       Launching, SupAlive, StageAlive
<1>23. CASE SupCleanup
    BY <1>23, CleanupEffect DEF SupCleanup, LeaseIsExclusive, HoldsLease,
       Launching, SupAlive, StageAlive
<1>24. CASE SupCleanupFails
    BY <1>24, SupervisorConcludes DEF SupCleanupFails, LeaseIsExclusive,
       HoldsLease, Launching, SupAlive, StageAlive
<1>25. CASE SupSettle
    BY <1>25, SettleEffect DEF LeaseIsExclusive, HoldsLease, Launching,
       SupAlive, StageAlive
<1>26. CASE SupResult
    BY <1>26, SupervisorMoves DEF SupResult, LeaseIsExclusive, HoldsLease,
       Launching, SupAlive, StageAlive
<1>27. CASE SupSave
    BY <1>27, SaveEffect DEF SupSave, LeaseIsExclusive, HoldsLease,
       Launching, SupAlive, StageAlive
<1>28. CASE StageBoot
    BY <1>28, StageEnds, StageGoes DEF StageBoot, LeaseIsExclusive,
       HoldsLease, Launching, SupAlive, StageAlive
<1>29. CASE StageWork
    BY <1>29, StageEnds, StageGoes DEF StageWork, LeaseIsExclusive,
       HoldsLease, Launching, SupAlive, StageAlive
<1>30. CASE StageCheck
    BY <1>30, StageEnds, StageGoes DEF StageCheck, LeaseIsExclusive,
       HoldsLease, Launching, SupAlive, StageAlive
<1>31. CASE StagePublish
    BY <1>31, StageEnds DEF StagePublish, LeaseIsExclusive, HoldsLease,
       Launching, SupAlive, StageAlive
<1>32. CASE StageKilled
    BY <1>32, StageEnds DEF StageKilled, LeaseIsExclusive, HoldsLease,
       Launching, SupAlive, StageAlive
<1>33. CASE ChildEnds
    BY <1>33 DEF ChildEnds, LeaseIsExclusive, HoldsLease, Launching,
       SupAlive, StageAlive
<1>34. CASE SupKilled
    BY <1>34, FirstRecords DEF SupKilled, LeaseIsExclusive, HoldsLease,
       Launching, SupAlive, StageAlive
<1>35. CASE HostCrash
    BY <1>35, FirstRecords DEF HostCrash, LeaseIsExclusive, HoldsLease,
       Launching, SupAlive, StageAlive
<1>36. CASE UNCHANGED vars
    BY <1>36 DEF LeaseIsExclusive, HoldsLease, Launching, SupAlive,
       StageAlive, vars
<1> QED
    BY <1>1, <1>2, <1>3, <1>4, <1>5, <1>6, <1>7, <1>8, <1>9, <1>10, <1>11,
       <1>12, <1>13, <1>14, <1>15, <1>16, <1>17, <1>18, <1>19, <1>20, <1>21,
       <1>22, <1>23, <1>24, <1>25, <1>26, <1>27, <1>28, <1>29, <1>30, <1>31,
       <1>32, <1>33, <1>34, <1>35, <1>36 DEF Next, Command, Supervise,
       RunStage, Environment

(* Children and working stages stay registered; a leader is reaped by its  *)
(* supervisor or by init.                                                  *)
LEMMA GroupIsKept == IInv /\ [Next]_vars => GroupIsKnown'
<1> SUFFICES ASSUME IInv, [Next]_vars PROVE GroupIsKnown'
    OBVIOUS
<1> USE RunAssumption DEF files
<1> TypeOK /\ GroupIsKnown /\ SupervisorKnowsGroup
    BY DEF IInv
<1> /\ op \in [Operators -> Commands] /\ sup \in Supervisors
    /\ stg \in StageProcesses /\ state \in RunRecords
    BY DEF TypeOK
<1>1. ASSUME NEW o \in Operators, Spawn(o) PROVE GroupIsKnown'
    BY <1>1, CommandMoves, CommandEnds, FirstRecords DEF Spawn, GroupIsKnown,
       SupervisorKnowsGroup, Empty, SupAlive, StageAlive
<1>2. CASE SupBoot
    BY <1>2, BootEffect DEF SupBoot, GroupIsKnown, SupervisorKnowsGroup,
       Empty, SupAlive, StageAlive
<1>3. CASE SupNext
    BY <1>3, NextEffect DEF SupNext, GroupIsKnown, SupervisorKnowsGroup,
       Empty, SupAlive, StageAlive
<1>4. CASE SupWait
    BY <1>4, RunningIsOwn, SupervisorConcludes, SupervisorMoves DEF SupWait,
       GroupIsKnown, SupervisorKnowsGroup, Empty, SupAlive, StageAlive
<1>5. CASE SupLaunch
    BY <1>5, LaunchEffect, RunningIsOwn DEF SupLaunch, GroupIsKnown,
       SupervisorKnowsGroup, Empty, SupAlive, StageAlive
<1>6. CASE SupMonitor
    BY <1>6, MonitorEffect DEF SupMonitor, GroupIsKnown,
       SupervisorKnowsGroup, Empty, SupAlive, StageAlive
<1>7. CASE SupCleanup
    BY <1>7, CleanupEffect DEF SupCleanup, GroupIsKnown,
       SupervisorKnowsGroup, Empty, SupAlive, StageAlive
<1>8. CASE SupCleanupFails
    BY <1>8, SupervisorConcludes DEF SupCleanupFails, GroupIsKnown,
       SupervisorKnowsGroup, Empty, SupAlive, StageAlive
<1>9. CASE SupSettle
    BY <1>9, SettleEffect DEF GroupIsKnown, SupervisorKnowsGroup, Empty,
       SupAlive, StageAlive
<1>10. CASE SupResult
    BY <1>10, SupervisorMoves DEF SupResult, GroupIsKnown,
       SupervisorKnowsGroup, Empty, SupAlive, StageAlive
<1>11. CASE SupSave
    BY <1>11, SaveEffect DEF SupSave, GroupIsKnown, SupervisorKnowsGroup,
       Empty, SupAlive, StageAlive
<1>12. CASE StageBoot
    BY <1>12, StageEnds, StageGoes DEF StageBoot, GroupIsKnown,
       SupervisorKnowsGroup, Empty, SupAlive, StageAlive
<1>13. CASE StageWork
    BY <1>13, StageEnds, StageGoes DEF StageWork, GroupIsKnown,
       SupervisorKnowsGroup, Empty, SupAlive, StageAlive
<1>14. CASE StageCheck
    BY <1>14, StageEnds, StageGoes DEF StageCheck, GroupIsKnown,
       SupervisorKnowsGroup, Empty, SupAlive, StageAlive
<1>15. CASE StagePublish
    BY <1>15, StageEnds DEF StagePublish, GroupIsKnown, SupervisorKnowsGroup,
       Empty, SupAlive, StageAlive
<1>16. CASE StageKilled
    BY <1>16, StageEnds DEF StageKilled, GroupIsKnown, SupervisorKnowsGroup,
       Empty, SupAlive, StageAlive
<1>17. CASE ChildEnds
    BY <1>17 DEF ChildEnds, GroupIsKnown, SupervisorKnowsGroup, Empty,
       SupAlive, StageAlive
<1>18. CASE SupKilled
    BY <1>18, FirstRecords DEF SupKilled, GroupIsKnown, SupervisorKnowsGroup,
       Empty, SupAlive, StageAlive
<1>19. CASE HostCrash
    BY <1>19, FirstRecords DEF HostCrash, GroupIsKnown, SupervisorKnowsGroup,
       Empty, SupAlive, StageAlive
<1>20. CASE UNCHANGED <<child, stg, receipt, sup>>
    BY <1>20 DEF GroupIsKnown, SupervisorKnowsGroup, Empty, SupAlive,
       StageAlive
<1> QED
    BY <1>1, <1>2, <1>3, <1>4, <1>5, <1>6, <1>7, <1>8, <1>9, <1>10, <1>11,
       <1>12, <1>13, <1>14, <1>15, <1>16, <1>17, <1>18, <1>19, <1>20,
       ChildWriters, StageWriters, ReceiptWriters, SupervisorWriters

(* The supervisor's view of the stage group stays true at each of its      *)
(* steps.                                                                  *)
LEMMA SupervisorGroupIsKept == IInv /\ [Next]_vars => SupervisorKnowsGroup'
<1> SUFFICES ASSUME IInv, [Next]_vars PROVE SupervisorKnowsGroup'
    OBVIOUS
<1> USE RunAssumption DEF files
<1> TypeOK /\ SupervisorKnowsGroup /\ LeaseIsExclusive /\ GroupIsKnown
    BY DEF IInv
<1> /\ op \in [Operators -> Commands] /\ sup \in Supervisors
    /\ stg \in StageProcesses /\ state \in RunRecords
    BY DEF TypeOK
<1>1. ASSUME NEW o \in Operators, Spawn(o) PROVE SupervisorKnowsGroup'
    BY <1>1, CommandMoves, CommandEnds, FirstRecords DEF Spawn,
       LeaseIsExclusive, Launching, GroupIsKnown, SupervisorKnowsGroup,
       Empty, SupAlive, StageAlive
<1>2. CASE SupBoot
    BY <1>2, BootEffect DEF SupBoot, SupervisorKnowsGroup, Empty, SupAlive,
       StageAlive
<1>3. CASE SupNext
    BY <1>3, NextEffect DEF SupNext, Quiet, SupervisorKnowsGroup, Empty,
       SupAlive, StageAlive
<1>4. CASE SupWait
    BY <1>4, RunningIsOwn, SupervisorConcludes, SupervisorMoves DEF SupWait,
       SupervisorKnowsGroup, Empty, SupAlive, StageAlive
<1>5. CASE SupLaunch
    BY <1>5, LaunchEffect, RunningIsOwn DEF SupLaunch, Quiet,
       SupervisorKnowsGroup, Empty, SupAlive, StageAlive
<1>6. CASE SupMonitor
    BY <1>6, MonitorEffect DEF SupMonitor, SupervisorKnowsGroup, Empty,
       SupAlive, StageAlive
<1>7. CASE SupCleanup
    BY <1>7, CleanupEffect DEF SupCleanup, SupervisorKnowsGroup, Empty,
       SupAlive, StageAlive
<1>8. CASE SupCleanupFails
    BY <1>8, SupervisorConcludes DEF SupCleanupFails, Quiet,
       SupervisorKnowsGroup, Empty, SupAlive, StageAlive
<1>9. CASE SupSettle
    BY <1>9, SettleEffect DEF Quiet, SupervisorKnowsGroup, Empty, SupAlive,
       StageAlive
<1>10. CASE SupResult
    BY <1>10, SupervisorMoves DEF SupResult, SupervisorKnowsGroup, Empty,
       SupAlive, StageAlive
<1>11. CASE SupSave
    BY <1>11, SaveEffect DEF SupSave, SupervisorKnowsGroup, Empty, SupAlive,
       StageAlive
<1>12. CASE StageBoot
    BY <1>12, StageEnds, StageGoes DEF StageBoot, SupervisorKnowsGroup,
       Empty, SupAlive, StageAlive
<1>13. CASE StageWork
    BY <1>13, StageEnds, StageGoes DEF StageWork, SupervisorKnowsGroup,
       Empty, SupAlive, StageAlive
<1>14. CASE StageCheck
    BY <1>14, StageEnds, StageGoes DEF StageCheck, SupervisorKnowsGroup,
       Empty, SupAlive, StageAlive
<1>15. CASE StagePublish
    BY <1>15, StageEnds DEF StagePublish, SupervisorKnowsGroup, Empty,
       SupAlive, StageAlive
<1>16. CASE StageKilled
    BY <1>16, StageEnds DEF StageKilled, SupervisorKnowsGroup, Empty,
       SupAlive, StageAlive
<1>17. CASE ChildEnds
    BY <1>17 DEF ChildEnds, SupervisorKnowsGroup, Empty, SupAlive, StageAlive
<1>18. CASE SupKilled
    BY <1>18, FirstRecords DEF SupKilled, SupervisorKnowsGroup, Empty,
       SupAlive, StageAlive
<1>19. CASE HostCrash
    BY <1>19, FirstRecords DEF HostCrash, SupervisorKnowsGroup, Empty,
       SupAlive, StageAlive
<1>20. CASE UNCHANGED <<sup, stg, child>>
    BY <1>20 DEF SupervisorKnowsGroup, Empty, SupAlive, StageAlive
<1> QED
    BY <1>1, <1>2, <1>3, <1>4, <1>5, <1>6, <1>7, <1>8, <1>9, <1>10, <1>11,
       <1>12, <1>13, <1>14, <1>15, <1>16, <1>17, <1>18, <1>19, <1>20,
       SupervisorWriters, StageWriters, ChildWriters

(* A stage works only behind the receipts of the stages before it.         *)
LEMMA DueStageIsKept == IInv /\ [Next]_vars => StageIsDue'
<1> SUFFICES ASSUME IInv, [Next]_vars PROVE StageIsDue'
    OBVIOUS
<1> USE RunAssumption DEF files
<1> TypeOK /\ StageIsDue /\ CompletedInOrder
    BY DEF IInv
<1> /\ op \in [Operators -> Commands] /\ sup \in Supervisors
    /\ stg \in StageProcesses /\ state \in RunRecords
    BY DEF TypeOK
<1>1. CASE SupLaunch
    BY <1>1, LaunchEffect, RunningIsOwn DEF SupLaunch, StageIsDue, Finished
<1>2. CASE SupCleanup
    BY <1>2, CleanupEffect DEF SupCleanup, StageIsDue, Finished
<1>3. CASE SupSettle
    BY <1>3, SettleEffect DEF StageIsDue, Finished
<1>4. CASE SupSave
    BY <1>4, SaveEffect DEF SupSave, StageIsDue, Finished
<1>5. CASE StageBoot
    BY <1>5, StageEnds, StageGoes DEF StageBoot, StageIsDue, Finished
<1>6. CASE StageWork
    BY <1>6, StageEnds, StageGoes DEF StageWork, StageIsDue, Finished
<1>7. CASE StageCheck
    BY <1>7, StageEnds, StageGoes DEF StageCheck, StageIsDue, Finished
<1>8. CASE StagePublish
    BY <1>8, StageEnds DEF StagePublish, StageIsDue, Finished
<1>9. CASE StageKilled
    BY <1>9, StageEnds DEF StageKilled, StageIsDue, Finished
<1>10. CASE SupKilled
    BY <1>10, FirstRecords DEF SupKilled, StageIsDue, Finished
<1>11. CASE HostCrash
    BY <1>11, FirstRecords DEF HostCrash, StageIsDue, Finished
<1>12. CASE UNCHANGED <<stg, complete>>
    BY <1>12 DEF StageIsDue, Finished
<1> QED
    BY <1>1, <1>2, <1>3, <1>4, <1>5, <1>6, <1>7, <1>8, <1>9, <1>10, <1>11,
       <1>12, StageWriters, CompleteWriters

(* A run is only recorded as idle when nothing of its stage group is left. *)
LEMMA IdleIsKept == IInv /\ [Next]_vars => IdleIsQuiet'
<1> SUFFICES ASSUME IInv, [Next]_vars PROVE IdleIsQuiet'
    OBVIOUS
<1> USE RunAssumption DEF files
<1> /\ TypeOK /\ IdleIsQuiet /\ SupervisorKnowsGroup
    /\ SupervisorKnowsFiles /\ LeaseIsExclusive /\ GroupIsKnown
    BY DEF IInv
<1> /\ op \in [Operators -> Commands] /\ sup \in Supervisors
    /\ stg \in StageProcesses /\ state \in RunRecords
    BY DEF TypeOK
<1>1. ASSUME NEW o \in Operators, CheckStart(o) PROVE IdleIsQuiet'
    BY <1>1, CommandMoves, CommandEnds, SaveKeeps DEF CheckStart,
       IdleIsQuiet, Empty, SupAlive, StageAlive
<1>2. ASSUME NEW o \in Operators, CheckResume(o) PROVE IdleIsQuiet'
    BY <1>2, CommandMoves, CommandEnds, SaveKeeps DEF CheckResume,
       AdmissionRefusals, ResumeIdle, Residual, GroupIsKnown,
       LeaseIsExclusive, Launching, IdleIsQuiet, Empty, SupAlive, StageAlive
<1>3. ASSUME NEW o \in Operators, SavePending(o) PROVE IdleIsQuiet'
    BY <1>3 DEF SavePending, IdleIsQuiet, Empty, SupAlive, StageAlive
<1>4. ASSUME NEW o \in Operators, Spawn(o) PROVE IdleIsQuiet'
    BY <1>4, CommandMoves, CommandEnds, FirstRecords DEF Spawn, IdleIsQuiet,
       Empty, SupAlive, StageAlive
<1>5. ASSUME NEW o \in Operators, SpawnFails(o) PROVE IdleIsQuiet'
    BY <1>5, CommandEnds, SaveKeeps DEF SpawnFails, IdleIsQuiet, Empty,
       SupAlive, StageAlive
<1>6. ASSUME NEW o \in Operators, PollSupervisor(o) PROVE IdleIsQuiet'
    BY <1>6, CommandMoves, CommandEnds DEF PollSupervisor, IdleIsQuiet,
       Empty, SupAlive, StageAlive
<1>7. ASSUME NEW o \in Operators, FinishPause(o) PROVE IdleIsQuiet'
    BY <1>7, CommandEnds, SaveKeeps DEF FinishPause, IdleIsQuiet, Empty,
       SupAlive, StageAlive
<1>8. CASE SupBoot
    BY <1>8, BootEffect DEF SupBoot, IdleIsQuiet, Empty, SupAlive, StageAlive
<1>9. CASE SupWait
    BY <1>9, RunningIsOwn, SupervisorConcludes, SupervisorMoves DEF SupWait,
       IdleIsQuiet, Empty, SupAlive, StageAlive
<1>10. CASE SupLaunch
    BY <1>10, LaunchEffect, RunningIsOwn DEF SupLaunch, IdleIsQuiet, Empty,
       SupAlive, StageAlive
<1>11. CASE SupCleanup
    BY <1>11, CleanupEffect DEF SupCleanup, IdleIsQuiet, Empty, SupAlive,
       StageAlive
<1>12. CASE SupSettle
    BY <1>12, SettleEffect DEF SupervisorKnowsFiles, Working, IdleIsQuiet,
       Empty, SupAlive, StageAlive
<1>13. CASE SupSave
    BY <1>13, SaveEffect DEF SupSave, SupervisorKnowsGroup, Quiet,
       IdleIsQuiet, Empty, SupAlive, StageAlive
<1>14. CASE StageBoot
    BY <1>14, StageEnds, StageGoes DEF StageBoot, IdleIsQuiet, Empty,
       SupAlive, StageAlive
<1>15. CASE StageWork
    BY <1>15, StageEnds, StageGoes DEF StageWork, IdleIsQuiet, Empty,
       SupAlive, StageAlive
<1>16. CASE StageCheck
    BY <1>16, StageEnds, StageGoes DEF StageCheck, IdleIsQuiet, Empty,
       SupAlive, StageAlive
<1>17. CASE StagePublish
    BY <1>17, StageEnds DEF StagePublish, IdleIsQuiet, Empty, SupAlive,
       StageAlive
<1>18. CASE StageKilled
    BY <1>18, StageEnds DEF StageKilled, IdleIsQuiet, Empty, SupAlive,
       StageAlive
<1>19. CASE ChildEnds
    BY <1>19 DEF ChildEnds, IdleIsQuiet, Empty, SupAlive, StageAlive
<1>20. CASE SupKilled
    BY <1>20, FirstRecords DEF SupKilled, IdleIsQuiet, Empty, SupAlive,
       StageAlive
<1>21. CASE HostCrash
    BY <1>21, FirstRecords DEF HostCrash, IdleIsQuiet, Empty, SupAlive,
       StageAlive
<1>22. CASE UNCHANGED <<state, stg, child>>
    BY <1>22 DEF IdleIsQuiet, Empty, SupAlive, StageAlive
<1> QED
    BY <1>1, <1>2, <1>3, <1>4, <1>5, <1>6, <1>7, <1>8, <1>9, <1>10, <1>11,
       <1>12, <1>13, <1>14, <1>15, <1>16, <1>17, <1>18, <1>19, <1>20, <1>21,
       <1>22, StateWriters, StageWriters, ChildWriters

(* Receipts are published in order, and a run waits for its review with    *)
(* all.                                                                    *)
LEMMA OrderIsKept == IInv /\ [Next]_vars => CompletedInOrder'
<1> SUFFICES ASSUME IInv, [Next]_vars PROVE CompletedInOrder'
    OBVIOUS
<1> USE RunAssumption DEF files
<1> TypeOK /\ CompletedInOrder /\ SupervisorKnowsFiles /\ StageIsDue
    BY DEF IInv
<1> /\ op \in [Operators -> Commands] /\ sup \in Supervisors
    /\ stg \in StageProcesses /\ state \in RunRecords
    BY DEF TypeOK
<1>1. ASSUME NEW o \in Operators, CheckStart(o) PROVE CompletedInOrder'
    BY <1>1, CommandMoves, CommandEnds, SaveKeeps DEF CheckStart,
       CompletedInOrder, Finished
<1>2. ASSUME NEW o \in Operators, CheckResume(o) PROVE CompletedInOrder'
    BY <1>2, CommandMoves, CommandEnds, SaveKeeps DEF CheckResume,
       AdmissionRefusals, CompletedInOrder, Finished
<1>3. ASSUME NEW o \in Operators, SavePending(o) PROVE CompletedInOrder'
    BY <1>3 DEF SavePending, CompletedInOrder, Finished
<1>4. ASSUME NEW o \in Operators, Spawn(o) PROVE CompletedInOrder'
    BY <1>4, CommandMoves, CommandEnds, FirstRecords DEF Spawn,
       CompletedInOrder, Finished
<1>5. ASSUME NEW o \in Operators, SpawnFails(o) PROVE CompletedInOrder'
    BY <1>5, CommandEnds, SaveKeeps DEF SpawnFails, CompletedInOrder,
       Finished
<1>6. ASSUME NEW o \in Operators, PollSupervisor(o) PROVE CompletedInOrder'
    BY <1>6, CommandMoves, CommandEnds DEF PollSupervisor, CompletedInOrder,
       Finished
<1>7. ASSUME NEW o \in Operators, FinishPause(o) PROVE CompletedInOrder'
    BY <1>7, CommandEnds, SaveKeeps DEF FinishPause, CompletedInOrder,
       Finished
<1>8. CASE SupBoot
    BY <1>8, BootEffect DEF SupBoot, CompletedInOrder, Finished
<1>9. CASE SupWait
    BY <1>9, RunningIsOwn, SupervisorConcludes, SupervisorMoves DEF SupWait,
       CompletedInOrder, Finished
<1>10. CASE SupLaunch
    BY <1>10, LaunchEffect, RunningIsOwn DEF SupLaunch, CompletedInOrder,
       Finished
<1>11. CASE SupSave
    BY <1>11, SaveEffect DEF SupSave, SupervisorKnowsFiles, CompletedInOrder,
       Finished
<1>12. CASE StagePublish
    BY <1>12, StageEnds DEF StagePublish, StageIsDue, StageProcesses, TypeOK,
       CompletedInOrder, Finished
<1>13. CASE UNCHANGED <<complete, state>>
    BY <1>13 DEF CompletedInOrder, Finished
<1> QED
    BY <1>1, <1>2, <1>3, <1>4, <1>5, <1>6, <1>7, <1>8, <1>9, <1>10, <1>11,
       <1>12, <1>13, CompleteWriters, StateWriters

(* A stage is only started while a retry of its allocation is left.        *)
LEMMA AllocationIsKept == IInv /\ [Next]_vars => AllocationIsFinite'
<1> SUFFICES ASSUME IInv, [Next]_vars PROVE AllocationIsFinite'
    OBVIOUS
<1> USE RunAssumption DEF files
<1> TypeOK /\ AllocationIsFinite /\ SupervisorKnowsFiles
    BY DEF IInv
<1> /\ op \in [Operators -> Commands] /\ sup \in Supervisors
    /\ stg \in StageProcesses /\ state \in RunRecords
    BY DEF TypeOK
<1>1. CASE SupLaunch
    BY <1>1, LaunchEffect, RunningIsOwn DEF SupLaunch, SupervisorKnowsFiles,
       OnStage, AllocationIsFinite, StageAlive
<1>2. CASE SupCleanup
    BY <1>2, CleanupEffect DEF SupCleanup, AllocationIsFinite, StageAlive
<1>3. CASE SupSettle
    BY <1>3, SettleEffect DEF AllocationIsFinite, StageAlive
<1>4. CASE SupSave
    BY <1>4, SaveEffect DEF SupSave, AllocationIsFinite, StageAlive
<1>5. CASE StageBoot
  <2>1. alloc' = alloc
      BY <1>5 DEF StageBoot
  <2>2. CASE stg' = [stg EXCEPT !.pc = "run"]
      BY <1>5, <2>1, <2>2, StageGoes DEF StageBoot, AllocationIsFinite,
         StageAlive
  <2>3. CASE \E c \in {"ok", "error", "paused"} : StageExits(c)
      BY <2>1, <2>3, StageEnds DEF AllocationIsFinite, StageAlive
  <2> QED
      BY <1>5, <2>2, <2>3 DEF StageBoot
<1>6. CASE StageWork
    BY ZenonT(60), <1>6, StageEnds, StageGoes DEF StageWork, AllocationIsFinite,
       StageAlive
<1>7. CASE StageCheck
    BY ZenonT(60), <1>7, StageEnds, StageGoes DEF StageCheck, AllocationIsFinite,
       StageAlive
<1>8. CASE StagePublish
    BY <1>8, StageEnds DEF StagePublish, AllocationIsFinite, StageAlive
<1>9. CASE StageKilled
    BY <1>9, StageEnds DEF StageKilled, AllocationIsFinite, StageAlive
<1>10. CASE SupKilled
    BY <1>10, FirstRecords DEF SupKilled, AllocationIsFinite, StageAlive
<1>11. CASE HostCrash
    BY <1>11, FirstRecords DEF HostCrash, AllocationIsFinite, StageAlive
<1>12. CASE UNCHANGED <<stg, alloc>>
    BY <1>12 DEF AllocationIsFinite, StageAlive
<1> QED
    BY <1>1, <1>2, <1>3, <1>4, <1>5, <1>6, <1>7, <1>8, <1>9, <1>10, <1>11,
       <1>12, StageWriters, AllocationWriters

(* An attempt is recorded before the state names it, and has no result     *)
(* before.                                                                 *)
LEMMA AttemptsAreKept == IInv /\ [Next]_vars => LaterAttemptsAreOpen'
<1> SUFFICES ASSUME IInv, [Next]_vars PROVE LaterAttemptsAreOpen'
    OBVIOUS
<1> USE RunAssumption DEF files
<1> TypeOK /\ LaterAttemptsAreOpen
    BY DEF IInv
<1> /\ op \in [Operators -> Commands] /\ sup \in Supervisors
    /\ stg \in StageProcesses /\ state \in RunRecords
    BY DEF TypeOK
<1>1. ASSUME NEW o \in Operators, CheckStart(o) PROVE LaterAttemptsAreOpen'
    BY <1>1, CommandMoves, CommandEnds, SaveKeeps DEF CheckStart,
       LaterAttemptsAreOpen
<1>2. ASSUME NEW o \in Operators, CheckResume(o) PROVE LaterAttemptsAreOpen'
    BY <1>2, CommandMoves, CommandEnds, SaveKeeps DEF CheckResume,
       AdmissionRefusals, LaterAttemptsAreOpen
<1>3. ASSUME NEW o \in Operators, RecordAttempt(o) PROVE LaterAttemptsAreOpen'
    BY <1>3, CommandMoves DEF RecordAttempt, TypeOK, RunRecords,
       LaterAttemptsAreOpen
<1>4. ASSUME NEW o \in Operators, SavePending(o) PROVE LaterAttemptsAreOpen'
    BY <1>4 DEF SavePending, TypeOK, RunRecords, LaterAttemptsAreOpen
<1>5. ASSUME NEW o \in Operators, Spawn(o) PROVE LaterAttemptsAreOpen'
    BY <1>5, CommandMoves, CommandEnds, FirstRecords DEF Spawn,
       LaterAttemptsAreOpen
<1>6. ASSUME NEW o \in Operators, SpawnFails(o) PROVE LaterAttemptsAreOpen'
    BY <1>6, CommandEnds, SaveKeeps DEF SpawnFails, LaterAttemptsAreOpen
<1>7. ASSUME NEW o \in Operators, PollSupervisor(o) PROVE LaterAttemptsAreOpen'
    BY <1>7, CommandMoves, CommandEnds DEF PollSupervisor, TypeOK,
       RunRecords, LaterAttemptsAreOpen
<1>8. ASSUME NEW o \in Operators, FinishPause(o) PROVE LaterAttemptsAreOpen'
    BY <1>8, CommandEnds, SaveKeeps DEF FinishPause, LaterAttemptsAreOpen
<1>9. CASE SupBoot
    BY <1>9, BootEffect DEF SupBoot, LaterAttemptsAreOpen
<1>10. CASE SupWait
    BY <1>10, RunningIsOwn, SupervisorConcludes, SupervisorMoves DEF SupWait,
       LaterAttemptsAreOpen
<1>11. CASE SupLaunch
    BY <1>11, LaunchEffect, RunningIsOwn DEF SupLaunch, LaterAttemptsAreOpen
<1>12. CASE SupResult
    BY <1>12, SupervisorMoves DEF SupResult, LaterAttemptsAreOpen
<1>13. CASE SupSave
    BY <1>13, SaveEffect DEF SupSave, LaterAttemptsAreOpen
<1>14. CASE UNCHANGED <<state, attempts, results>>
    BY <1>14 DEF LaterAttemptsAreOpen
<1> QED
    BY <1>1, <1>2, <1>3, <1>4, <1>5, <1>6, <1>7, <1>8, <1>9, <1>10, <1>11,
       <1>12, <1>13, <1>14, StateWriters, AttemptWriters, ResultWriters

(* The supervisor's view of the files stays true at each of its steps.     *)
LEMMA SupervisorFilesAreKept == IInv /\ [Next]_vars => SupervisorKnowsFiles'
<1> SUFFICES ASSUME IInv, [Next]_vars PROVE SupervisorKnowsFiles'
    OBVIOUS
<1> USE RunAssumption DEF files
<1> TypeOK /\ SupervisorKnowsFiles /\ LeaseIsExclusive /\ SupervisorKnowsGroup
    BY DEF IInv
<1> /\ op \in [Operators -> Commands] /\ sup \in Supervisors
    /\ stg \in StageProcesses /\ state \in RunRecords
    BY DEF TypeOK
<1>1. ASSUME NEW o \in Operators, CheckStart(o) PROVE SupervisorKnowsFiles'
    BY <1>1, CommandMoves, CommandEnds, SaveKeeps DEF CheckStart,
       SupervisorKnowsFiles, OnStage, Working, Finished, SupAlive,
       LeaseIsExclusive, HoldsLease, Launching
<1>2. ASSUME NEW o \in Operators, CheckResume(o) PROVE SupervisorKnowsFiles'
    BY <1>2, CommandMoves, CommandEnds, SaveKeeps DEF CheckResume,
       AdmissionRefusals, SupervisorKnowsFiles, OnStage, Working, Finished,
       SupAlive, LeaseIsExclusive, HoldsLease, Launching
<1>3. ASSUME NEW o \in Operators, SavePending(o) PROVE SupervisorKnowsFiles'
    BY <1>3 DEF SavePending, SupervisorKnowsFiles, OnStage, Working,
       Finished, SupAlive, LeaseIsExclusive, HoldsLease, Launching
<1>4. ASSUME NEW o \in Operators, Spawn(o) PROVE SupervisorKnowsFiles'
    BY <1>4, CommandMoves, CommandEnds, FirstRecords DEF Spawn,
       SupervisorKnowsFiles, OnStage, Working, Finished, SupAlive,
       LeaseIsExclusive, HoldsLease, Launching
<1>5. ASSUME NEW o \in Operators, SpawnFails(o) PROVE SupervisorKnowsFiles'
    BY <1>5, CommandEnds, SaveKeeps DEF SpawnFails, SupervisorKnowsFiles,
       OnStage, Working, Finished, SupAlive, LeaseIsExclusive, HoldsLease,
       Launching
<1>6. ASSUME NEW o \in Operators, PollSupervisor(o) PROVE SupervisorKnowsFiles'
    BY <1>6, CommandMoves, CommandEnds DEF PollSupervisor,
       SupervisorKnowsFiles, OnStage, Working, Finished, SupAlive,
       LeaseIsExclusive, HoldsLease, Launching
<1>7. ASSUME NEW o \in Operators, FinishPause(o) PROVE SupervisorKnowsFiles'
    BY <1>7, CommandEnds, SaveKeeps DEF FinishPause, SupervisorKnowsFiles,
       OnStage, Working, Finished, SupAlive, LeaseIsExclusive, HoldsLease,
       Launching
<1>8. CASE SupBoot
    BY <1>8, BootEffect DEF SupBoot, StageRetries, RunRecords,
       SupervisorKnowsFiles, OnStage, Working, Finished, SupAlive,
       LeaseIsExclusive, HoldsLease, Launching
<1>9. CASE SupNext
  <2>1. /\ sup.pc = "next" /\ sup.at \in 1..LastStage + 1
        /\ complete \subseteq Stages
        /\ UNCHANGED <<state, complete>>
      BY <1>9 DEF SupNext, TypeOK, Supervisors
  <2>2. sup.at > LastStage => complete = Stages
    <3>1. ASSUME sup.at > LastStage PROVE Stages \subseteq complete
        BY <2>1, <3>1 DEF SupervisorKnowsFiles, SupAlive, Finished, Stages
    <3> QED
        BY <2>1, <3>1
  <2>3. sup.at \in complete => \A t \in 1..sup.at : t \in complete
      BY <2>1 DEF SupervisorKnowsFiles, SupAlive, Finished
  <2> QED
      BY <1>9, <2>1, <2>2, <2>3, NextEffect DEF SupervisorKnowsFiles, OnStage,
         Working, Finished, SupAlive, Stages
<1>10. CASE SupWait
    BY <1>10, RunningIsOwn, SupervisorConcludes, SupervisorMoves DEF SupWait,
       Supervisors, StageRetries, SupervisorKnowsFiles, OnStage, Working,
       Finished, SupAlive, LeaseIsExclusive, HoldsLease, Launching
<1>11. CASE SupLaunch
    BY <1>11, LaunchEffect, RunningIsOwn DEF SupLaunch, Supervisors,
       StageRetries, SupervisorKnowsFiles, OnStage, Working, Finished,
       SupAlive, LeaseIsExclusive, HoldsLease, Launching
<1>12. CASE SupMonitor
    BY <1>12, MonitorEffect DEF SupMonitor, SupervisorKnowsFiles, OnStage,
       Working, Finished, SupAlive, LeaseIsExclusive, HoldsLease, Launching
<1>13. CASE SupCleanup
    BY <1>13, CleanupEffect DEF SupCleanup, SupervisorKnowsFiles, OnStage,
       Working, Finished, SupAlive, LeaseIsExclusive, HoldsLease, Launching
<1>14. CASE SupCleanupFails
    BY <1>14, SupervisorConcludes DEF SupCleanupFails, SupervisorKnowsFiles,
       OnStage, Working, Finished, SupAlive, LeaseIsExclusive, HoldsLease,
       Launching
<1>15. CASE SupSettle
  <2>1. \A s \in Stages : /\ sup.retries[s] \in Nat /\ state.retries[s] \in Nat
                          /\ sup'.retries[s] \in Nat
    <3>1. sup' \in Supervisors
        BY TypeIsKept DEF TypeOK
    <3> QED
        BY <3>1 DEF Supervisors, RunRecords, StageRetries
  <2>2. sup.at \in complete => \A t \in 1..sup.at : t \in complete
      BY <1>15, SettleEffect DEF SupervisorKnowsFiles, SupAlive, Finished,
         Stages
  <2>3. \A s \in Stages : sup'.retries[s] >= state.retries[s]
      BY <1>15, <2>1, SettleEffect DEF SupervisorKnowsFiles, Working
  <2> QED
      BY <1>15, <2>2, <2>3, SettleEffect DEF SupervisorKnowsFiles, OnStage,
         Working, Finished, SupAlive, Stages
<1>16. CASE SupResult
    BY <1>16, SupervisorMoves DEF SupResult, SupervisorKnowsFiles, OnStage,
       Working, Finished, SupAlive, LeaseIsExclusive, HoldsLease, Launching
<1>17. CASE SupSave
    BY <1>17, SaveEffect DEF SupSave, SupervisorKnowsFiles, OnStage, Working,
       Finished, SupAlive, LeaseIsExclusive, HoldsLease, Launching
<1>18. CASE StagePublish
    BY <1>18, StageEnds DEF StagePublish, TypeOK, StageProcesses,
       SupervisorKnowsFiles, OnStage, Working, Finished, SupAlive,
       LeaseIsExclusive, HoldsLease, Launching
<1>19. CASE SupKilled
    BY <1>19, FirstRecords DEF SupKilled, SupervisorKnowsFiles, OnStage,
       Working, Finished, SupAlive, LeaseIsExclusive, HoldsLease, Launching
<1>20. CASE HostCrash
    BY <1>20, FirstRecords DEF HostCrash, SupervisorKnowsFiles, OnStage,
       Working, Finished, SupAlive, LeaseIsExclusive, HoldsLease, Launching
<1>21. CASE UNCHANGED <<sup, complete, alloc, state>>
    BY <1>21 DEF SupervisorKnowsFiles, OnStage, Working, Finished, SupAlive,
       LeaseIsExclusive, HoldsLease, Launching
<1> QED
    BY <1>1, <1>2, <1>3, <1>4, <1>5, <1>6, <1>7, <1>8, <1>9, <1>10, <1>11,
       <1>12, <1>13, <1>14, <1>15, <1>16, <1>17, <1>18, <1>19, <1>20, <1>21,
       SupervisorWriters, CompleteWriters, AllocationWriters, StateWriters

(* What a resume or a start was admitted on stays true until its launch.   *)
LEMMA LaunchIsKept == IInv /\ [Next]_vars => LaunchIsAdmitted'
<1> SUFFICES ASSUME IInv, [Next]_vars PROVE LaunchIsAdmitted'
    OBVIOUS
<1> USE RunAssumption DEF files
<1> TypeOK /\ LaunchIsAdmitted
    BY DEF IInv
<1> SUFFICES ASSUME NEW p \in Operators, op'[p].pc \in Launching
             PROVE  Admitted(p)'
    BY DEF LaunchIsAdmitted, Admitted, Launching
<1> Admitted(p)
    BY DEF LaunchIsAdmitted
<1>1. CASE Stop
    BY <1>1, AdmissionIsKept, LauncherIsAlone DEF Stop, SupAlive, StageAlive
<1>2. CASE Approve
    BY <1>2, AdmissionIsKept, LauncherIsAlone DEF Approve, SupAlive,
       StageAlive
<1>3. ASSUME NEW o \in Operators, NEW cmd \in {"start", "resume"},
             NEW probe \in Probes, Begin(o, cmd, probe)
      PROVE  Admitted(p)'
  <2>1. CASE p = o
      BY <1>3, <2>1, FirstRecords DEF Begin, Launching
  <2>2. CASE p # o
    <3>1. op'[p] = op[p]
        BY <1>3, <2>2, FirstRecords DEF Begin, TypeOK
    <3>2. ~HoldsLease(o) /\ ~SupAlive /\ ~LeaseFree
        BY <2>2, <3>1, LauncherIsAlone
    <3> QED
        BY <1>3, <3>1, <3>2, AdmissionIsKept DEF Begin, HoldsLease
  <2> QED
      BY <2>1, <2>2
<1>4. ASSUME NEW o \in Operators, Refused(o) PROVE Admitted(p)'
    BY <1>4, AdmissionIsKept, LauncherIsAlone DEF Refused, SupAlive,
       StageAlive
<1>5. ASSUME NEW o \in Operators, Pause(o) PROVE Admitted(p)'
  <2>1. CASE p = o
      BY <1>5, <2>1 DEF Pause, Launching, TypeOK, Commands
  <2>2. CASE p # o
    <3>1. op'[p] = op[p]
        BY <1>5, <2>2 DEF Pause, TypeOK
    <3>2. ~HoldsLease(o) /\ ~SupAlive /\ ~LeaseFree
        BY <2>2, <3>1, LauncherIsAlone
    <3> QED
        BY <1>5, <3>1, <3>2, AdmissionIsKept DEF Pause, HoldsLease
  <2> QED
      BY <2>1, <2>2
<1>6. ASSUME NEW o \in Operators, CheckStart(o) PROVE Admitted(p)'
  <2>1. CASE p = o
      BY <1>6, <2>1, CommandMoves, CommandEnds DEF CheckStart, Admitted,
         Launching
  <2>2. CASE p # o
    <3>1. op'[p] = op[p]
        BY <1>6, <2>2, CommandMoves, CommandEnds DEF CheckStart
    <3>2. ~HoldsLease(o) /\ ~SupAlive /\ ~LeaseFree
        BY <2>2, <3>1, LauncherIsAlone
    <3> QED
        BY <1>6, <3>1, <3>2, AdmissionIsKept DEF CheckStart, HoldsLease
  <2> QED
      BY <2>1, <2>2
<1>7. ASSUME NEW o \in Operators, CheckResume(o) PROVE Admitted(p)'
  <2>1. CASE p = o
    <3>1. UNCHANGED <<stop, attempts, results>>
        BY <1>7 DEF CheckResume
    <3>2. ResumeIdle => Resumable
        BY DEF ResumeIdle, Resumable
    <3>3. state' = state /\ Resumable => Resumable'
        BY <3>1 DEF Resumable, StartupRecoverable
    <3> QED
        BY <1>7, <2>1, <3>1, <3>2, <3>3, CommandMoves, CommandEnds
        DEF CheckResume, Admitted, Launching
  <2>2. CASE p # o
    <3>1. op'[p] = op[p]
        BY <1>7, <2>2, CommandMoves, CommandEnds DEF CheckResume
    <3>2. ~HoldsLease(o) /\ ~SupAlive /\ ~LeaseFree
        BY <2>2, <3>1, LauncherIsAlone
    <3> QED
        BY <1>7, <3>1, <3>2, AdmissionIsKept DEF CheckResume, HoldsLease
  <2> QED
      BY <2>1, <2>2
<1>8. ASSUME NEW o \in Operators, RecordAttempt(o) PROVE Admitted(p)'
  <2>1. CASE p = o
      BY <1>8, <2>1, CommandMoves DEF RecordAttempt, Admitted, Resumable,
         StartupRecoverable
  <2>2. CASE p # o
    <3>1. op'[p] = op[p]
        BY <1>8, <2>2, CommandMoves DEF RecordAttempt
    <3>2. ~HoldsLease(o) /\ ~SupAlive /\ ~LeaseFree
        BY <2>2, <3>1, LauncherIsAlone
    <3> QED
        BY <1>8, <3>1, <3>2, AdmissionIsKept DEF RecordAttempt, HoldsLease
  <2> QED
      BY <2>1, <2>2
<1>9. ASSUME NEW o \in Operators, SavePending(o) PROVE Admitted(p)'
  <2>1. CASE p = o
      BY <1>9, <2>1 DEF SavePending, Admitted, Sticky, TypeOK, Commands
  <2>2. CASE p # o
    <3>1. op'[p] = op[p]
        BY <1>9, <2>2 DEF SavePending, TypeOK
    <3>2. ~HoldsLease(o) /\ ~SupAlive /\ ~LeaseFree
        BY <2>2, <3>1, LauncherIsAlone
    <3> QED
        BY <1>9, <3>1, <3>2, AdmissionIsKept DEF SavePending, HoldsLease
  <2> QED
      BY <2>1, <2>2
<1>10. ASSUME NEW o \in Operators, ClearStop(o) PROVE Admitted(p)'
  <2>1. CASE p = o
      BY <1>10, <2>1, CommandMoves DEF ClearStop, Admitted
  <2>2. CASE p # o
    <3>1. op'[p] = op[p]
        BY <1>10, <2>2, CommandMoves DEF ClearStop
    <3>2. ~HoldsLease(o) /\ ~SupAlive /\ ~LeaseFree
        BY <2>2, <3>1, LauncherIsAlone
    <3> QED
        BY <1>10, <3>1, <3>2, AdmissionIsKept DEF ClearStop, HoldsLease
  <2> QED
      BY <2>1, <2>2
<1>11. ASSUME NEW o \in Operators, Spawn(o) PROVE Admitted(p)'
  <2>1. CASE p = o
      BY <1>11, <2>1, CommandMoves, CommandEnds, FirstRecords DEF Spawn,
         Launching
  <2>2. CASE p # o
    <3>1. op'[p] = op[p]
        BY <1>11, <2>2, CommandMoves, CommandEnds, FirstRecords DEF Spawn
    <3>2. ~HoldsLease(o) /\ ~SupAlive /\ ~LeaseFree
        BY <2>2, <3>1, LauncherIsAlone
    <3> QED
        BY <1>11, <3>1, <3>2, AdmissionIsKept DEF Spawn, HoldsLease
  <2> QED
      BY <2>1, <2>2
<1>12. ASSUME NEW o \in Operators, SpawnFails(o) PROVE Admitted(p)'
  <2>1. CASE p = o
      BY <1>12, <2>1, CommandEnds DEF SpawnFails, Launching
  <2>2. CASE p # o
    <3>1. op'[p] = op[p]
        BY <1>12, <2>2, CommandEnds DEF SpawnFails
    <3>2. ~HoldsLease(o) /\ ~SupAlive /\ ~LeaseFree
        BY <2>2, <3>1, LauncherIsAlone
    <3> QED
        BY <1>12, <3>1, <3>2, AdmissionIsKept DEF SpawnFails, HoldsLease
  <2> QED
      BY <2>1, <2>2
<1>13. ASSUME NEW o \in Operators, AwaitAck(o) PROVE Admitted(p)'
  <2>1. CASE p = o
      BY <1>13, <2>1, CommandMoves, CommandEnds DEF AwaitAck, Launching
  <2>2. CASE p # o
    <3>1. op'[p] = op[p]
        BY <1>13, <2>2, CommandMoves, CommandEnds DEF AwaitAck
    <3>2. ~HoldsLease(o) /\ ~SupAlive /\ ~LeaseFree
        BY <2>2, <3>1, LauncherIsAlone
    <3> QED
        BY <1>13, <3>1, <3>2, AdmissionIsKept DEF AwaitAck, HoldsLease
  <2> QED
      BY <2>1, <2>2
<1>14. ASSUME NEW o \in Operators, PollSupervisor(o) PROVE Admitted(p)'
  <2>1. CASE p = o
      BY <1>14, <2>1, CommandMoves, CommandEnds DEF PollSupervisor, Launching
  <2>2. CASE p # o
    <3>1. op'[p] = op[p]
        BY <1>14, <2>2, CommandMoves, CommandEnds DEF PollSupervisor
    <3>2. ~HoldsLease(o) /\ ~SupAlive /\ ~LeaseFree
        BY <2>2, <3>1, LauncherIsAlone
    <3> QED
        BY <1>14, <3>1, <3>2, AdmissionIsKept DEF PollSupervisor, HoldsLease
  <2> QED
      BY <2>1, <2>2
<1>15. ASSUME NEW o \in Operators, AwaitTimeout(o) PROVE Admitted(p)'
  <2>1. CASE p = o
      BY <1>15, <2>1, CommandEnds DEF AwaitTimeout, Launching
  <2>2. CASE p # o
    <3>1. op'[p] = op[p]
        BY <1>15, <2>2, CommandEnds DEF AwaitTimeout
    <3>2. ~HoldsLease(o) /\ ~SupAlive /\ ~LeaseFree
        BY <2>2, <3>1, LauncherIsAlone
    <3> QED
        BY <1>15, <3>1, <3>2, AdmissionIsKept DEF AwaitTimeout, HoldsLease
  <2> QED
      BY <2>1, <2>2
<1>16. ASSUME NEW o \in Operators, FinishPause(o) PROVE Admitted(p)'
  <2>1. CASE p = o
      BY <1>16, <2>1, CommandEnds DEF FinishPause, Launching
  <2>2. CASE p # o
    <3>1. op'[p] = op[p]
        BY <1>16, <2>2, CommandEnds DEF FinishPause
    <3>2. ~HoldsLease(o) /\ ~SupAlive /\ ~LeaseFree
        BY <2>2, <3>1, LauncherIsAlone
    <3> QED
        BY <1>16, <3>1, <3>2, AdmissionIsKept DEF FinishPause, HoldsLease
  <2> QED
      BY <2>1, <2>2
<1>17. ASSUME NEW o \in Operators, OperatorKilled(o) PROVE Admitted(p)'
  <2>1. CASE p = o
      BY <1>17, <2>1, CommandEnds DEF OperatorKilled, Launching
  <2>2. CASE p # o
    <3>1. op'[p] = op[p]
        BY <1>17, <2>2, CommandEnds DEF OperatorKilled
    <3>2. ~HoldsLease(o) /\ ~SupAlive /\ ~LeaseFree
        BY <2>2, <3>1, LauncherIsAlone
    <3> QED
        BY <1>17, <3>1, <3>2, AdmissionIsKept DEF OperatorKilled, HoldsLease
  <2> QED
      BY <2>1, <2>2
<1>18. CASE SupBoot
    BY <1>18, BootEffect, AdmissionIsKept, LauncherIsAlone DEF SupBoot,
       SupAlive, StageAlive
<1>19. CASE SupNext
    BY <1>19, NextEffect, AdmissionIsKept, LauncherIsAlone DEF SupNext,
       SupAlive, StageAlive
<1>20. CASE SupWait
    BY <1>20, RunningIsOwn, SupervisorConcludes, SupervisorMoves,
       AdmissionIsKept, LauncherIsAlone DEF SupWait, SupAlive, StageAlive
<1>21. CASE SupLaunch
    BY <1>21, LaunchEffect, RunningIsOwn, AdmissionIsKept, LauncherIsAlone
       DEF SupLaunch, SupAlive, StageAlive
<1>22. CASE SupMonitor
    BY <1>22, MonitorEffect, AdmissionIsKept, LauncherIsAlone DEF SupMonitor,
       SupAlive, StageAlive
<1>23. CASE SupCleanup
    BY <1>23, CleanupEffect, AdmissionIsKept, LauncherIsAlone DEF SupCleanup,
       SupAlive, StageAlive
<1>24. CASE SupCleanupFails
    BY <1>24, SupervisorConcludes, AdmissionIsKept, LauncherIsAlone DEF
       SupCleanupFails, SupAlive, StageAlive
<1>25. CASE SupSettle
    BY <1>25, SettleEffect, AdmissionIsKept, LauncherIsAlone DEF SupAlive,
       StageAlive
<1>26. CASE SupResult
    BY <1>26, SupervisorMoves, AdmissionIsKept, LauncherIsAlone DEF
       SupResult, SupAlive, StageAlive
<1>27. CASE SupSave
    BY <1>27, SaveEffect, AdmissionIsKept, LauncherIsAlone DEF SupSave,
       SupAlive, StageAlive
<1>28. CASE StageBoot
    BY <1>28, StageEnds, StageGoes, AdmissionIsKept, LauncherIsAlone DEF
       StageBoot, SupAlive, StageAlive
<1>29. CASE StageWork
    BY <1>29, StageEnds, StageGoes, AdmissionIsKept, LauncherIsAlone DEF
       StageWork, SupAlive, StageAlive
<1>30. CASE StageCheck
    BY <1>30, StageEnds, StageGoes, AdmissionIsKept, LauncherIsAlone DEF
       StageCheck, SupAlive, StageAlive
<1>31. CASE StagePublish
    BY <1>31, StageEnds, AdmissionIsKept, LauncherIsAlone DEF StagePublish,
       SupAlive, StageAlive
<1>32. CASE StageKilled
    BY <1>32, StageEnds, AdmissionIsKept, LauncherIsAlone DEF StageKilled,
       SupAlive, StageAlive
<1>33. CASE ChildEnds
    BY <1>33, AdmissionIsKept, LauncherIsAlone DEF ChildEnds, SupAlive,
       StageAlive
<1>34. CASE SupKilled
    BY <1>34, FirstRecords, AdmissionIsKept, LauncherIsAlone DEF SupKilled,
       SupAlive, StageAlive
<1>35. CASE HostCrash
    BY <1>35, FirstRecords, AdmissionIsKept, LauncherIsAlone DEF HostCrash,
       Launching, SupAlive, StageAlive
<1>36. CASE UNCHANGED vars
    BY <1>36, AdmissionIsKept DEF SupAlive, StageAlive, vars
<1> QED
    BY <1>1, <1>2, <1>3, <1>4, <1>5, <1>6, <1>7, <1>8, <1>9, <1>10, <1>11,
       <1>12, <1>13, <1>14, <1>15, <1>16, <1>17, <1>18, <1>19, <1>20, <1>21,
       <1>22, <1>23, <1>24, <1>25, <1>26, <1>27, <1>28, <1>29, <1>30, <1>31,
       <1>32, <1>33, <1>34, <1>35, <1>36 DEF Next, Command, Supervise,
       RunStage, Environment
-----------------------------------------------------------------------------
(* The invariant holds, and the files and processes agree                  *)

(* A run starts with nothing alive, nothing recorded and no retry spent.   *)
LEMMA StartIsSound == Init => IInv
<1> SUFFICES ASSUME Init PROVE IInv
    OBVIOUS
<1> USE RunAssumption, FirstRecords
<1>1. [s \in Stages |-> 0] \in StageRetries /\ 1 \in Stages
    BY DEF StageRetries, Stages
<1>2. TypeOK
  <2>1. state \in RunRecords
      BY <1>1 DEF Init, RunRecords, Statuses, Reasons
  <2>2. results \in [0..MaxAttempt -> ResultRecords]
    <3>1. NoResult \in ResultRecords
        BY DEF NoResult, ResultRecords, Reasons
    <3> QED
        BY <3>1 DEF Init
  <2>3. alloc \in [Stages -> 0..AllocationRetries + 1]
      BY DEF Init
  <2>4. op \in [Operators -> Commands]
      BY DEF Init
  <2>5. sup \in Supervisors /\ stg \in StageProcesses
      BY DEF Init
  <2>6. stop \in BOOLEAN /\ approved \in BOOLEAN /\ child \in BOOLEAN
      BY DEF Init
  <2>7. /\ complete \in SUBSET Stages
        /\ receipt \in {"none", "active", "cleaned"}
        /\ attempts \in 0..MaxAttempt
      BY DEF Init
  <2> QED
      BY <2>1, <2>2, <2>3, <2>4, <2>5, <2>6, <2>7 DEF TypeOK
<1>3. \A o \in Operators : op[o].pc = "idle"
    BY DEF Init
<1>4. sup.pc = "none" /\ sup.at = 1 /\ stg.pc = "none" /\ ~child
    BY DEF Init
<1>5. LeaseIsExclusive /\ LaunchIsAdmitted
    BY <1>3 DEF LeaseIsExclusive, LaunchIsAdmitted, Admitted, HoldsLease,
                Launching
<1>6. GroupIsKnown /\ SupervisorKnowsGroup /\ StageIsDue /\ AllocationIsFinite
    BY <1>4 DEF GroupIsKnown, SupervisorKnowsGroup, StageIsDue,
                AllocationIsFinite, StageAlive
<1>7. SupervisorKnowsFiles
    BY <1>4 DEF SupervisorKnowsFiles, OnStage, Working, SupAlive
<1>8. IdleIsQuiet /\ CompletedInOrder
    BY <1>4 DEF IdleIsQuiet, CompletedInOrder, Init
<1>9. LaterAttemptsAreOpen
    BY DEF LaterAttemptsAreOpen, Init
<1> QED
    BY <1>2, <1>5, <1>6, <1>7, <1>8, <1>9 DEF IInv

(* Every step of operators, supervisor, stage and host keeps it.           *)
LEMMA SoundnessIsKept == IInv /\ [Next]_vars => IInv'
<1> SUFFICES ASSUME IInv, [Next]_vars PROVE IInv'
    OBVIOUS
<1> QED
    BY TypeIsKept, LeaseIsKept, LaunchIsKept, GroupIsKept,
       SupervisorGroupIsKept, SupervisorFilesAreKept, DueStageIsKept,
       IdleIsKept, OrderIsKept, AllocationIsKept, AttemptsAreKept DEF IInv

(* In every reachable state the processes of a run are where its files and *)
(* its lease allow them to be.                                             *)
THEOREM InvariantHolds == Spec => []IInv
BY StartIsSound, SoundnessIsKept, PTL DEF Spec

(* One writer tree at a time, idle records of quiet runs only, receipts in *)
(* stage order, finite allocation retries, and a record for each attempt.  *)
THEOREM Writers == Spec => []WritersAreSound
<1>1. IInv => WritersAreSound
  <2> SUFFICES ASSUME IInv PROVE WritersAreSound
      OBVIOUS
  <2>1. OneWriter
      BY LauncherIsAlone DEF OneWriter, Launching
  <2>2. AttemptIsRecorded
    <3>1. state.attempt \in Nat /\ attempts \in 0..MaxAttempt
        BY RunAssumption DEF IInv, TypeOK, RunRecords
    <3> QED
        BY <3>1, RunAssumption DEF IInv, LaterAttemptsAreOpen,
           AttemptIsRecorded
  <2> QED
      BY <2>1, <2>2 DEF IInv, WritersAreSound
<1> QED
    BY <1>1, InvariantHolds, PTL
-----------------------------------------------------------------------------
(* No stop, failure or spent retry is taken back                           *)

(* Only a launcher clears STOP, and it has neither a supervisor nor a      *)
(* stage beside it.                                                        *)
LEMMA StopIsKept ==
    ASSUME IInv, [Next]_vars
    PROVE  stop /\ (SupAlive \/ StageAlive) => stop'
<1>1. ASSUME NEW o \in Operators, Command(o), ~ClearStop(o)
      PROVE  stop => stop'
    BY <1>1 DEF Command, Begin, Refused, Pause, RecordAttempt, CheckStart,
       CheckResume, SavePending, Spawn, SpawnFails, AwaitAck, PollSupervisor,
       AwaitTimeout, FinishPause, files
<1>2. ASSUME NEW o \in Operators, ClearStop(o)
      PROVE  ~(SupAlive \/ StageAlive)
    BY <1>2, LauncherIsAlone DEF ClearStop, Launching
<1>3. CASE Supervise
  <2>1. TypeOK
      BY DEF IInv
  <2> QED
      BY <1>3, <2>1, MonitorEffect DEF Supervise, SupBoot, SupNext, SupWait,
         SupLaunch, SupCleanup, SupCleanupFails, SupSettle, SupResult,
         SupSave, files
<1>4. CASE RunStage
    BY <1>4 DEF RunStage, StageBoot, StageWork, StageCheck, StagePublish, files
<1>5. CASE Environment
    BY <1>5 DEF Environment, StageKilled, ChildEnds, SupKilled, HostCrash,
                OperatorKilled, files
<1>6. CASE Stop \/ Approve \/ UNCHANGED vars
    BY <1>6 DEF Stop, Approve, vars, files
<1> QED
    BY <1>1, <1>2, <1>3, <1>4, <1>5, <1>6 DEF Next

\* What a step may do to a recorded failure, a finished run and the retries.
FailureStays ==
    ~LauncherOverwrites =>
       /\ state.status = "needs_astra" /\ state'.status # "needs_astra"
            => StartupRecoverable /\ state'.reason = "startup_pending"
       /\ state.status = "awaiting_astra_review"
            => state'.status = "awaiting_astra_review"
RetriesStay ==
    ~LauncherOverwrites =>
       \A s \in Stages : state'.retries[s] >= state.retries[s]

(* Each writer of state.json knows the record that it replaces.            *)
LEMMA RecordIsKept == IInv /\ [Next]_vars => FailureStays /\ RetriesStay
<1> SUFFICES ASSUME IInv, [Next]_vars PROVE FailureStays /\ RetriesStay
    OBVIOUS
<1> TypeOK /\ state \in RunRecords /\ op \in [Operators -> Commands]
    BY DEF IInv, TypeOK
<1>1. \A s \in Stages : state.retries[s] \in Nat
    BY DEF RunRecords, StageRetries
<1>2. ASSUME state'.status = state.status, state'.retries = state.retries
      PROVE  FailureStays /\ RetriesStay
    BY <1>1, <1>2 DEF FailureStays, RetriesStay
<1>3. ASSUME state.status \notin Sticky, state'.retries = state.retries
      PROVE  FailureStays /\ RetriesStay
    BY <1>1, <1>3 DEF FailureStays, RetriesStay, Sticky
<1>4. ASSUME sup.pc \in Working, state'.retries = sup.retries
      PROVE  FailureStays /\ RetriesStay
    BY <1>4 DEF IInv, SupervisorKnowsFiles, FailureStays, RetriesStay
<1>5. ASSUME NEW o \in Operators, CheckStart(o)
      PROVE  FailureStays /\ RetriesStay
  <2>1. Residual => state.status # "awaiting_astra_review"
      BY DEF IInv, IdleIsQuiet, Residual
  <2> QED
      BY <1>1, <1>2, <1>5, <2>1, SaveKeeps DEF CheckStart, FailureStays,
         RetriesStay
<1>6. ASSUME NEW o \in Operators, CheckResume(o)
      PROVE  FailureStays /\ RetriesStay
  <2>1. ResumeIdle => state.status # "awaiting_astra_review"
      BY DEF ResumeIdle
  <2> QED
      BY <1>1, <1>2, <1>6, <2>1, SaveKeeps DEF CheckResume, FailureStays,
         RetriesStay
<1>7. ASSUME NEW o \in Operators, SavePending(o)
      PROVE  FailureStays /\ RetriesStay
  <2>1. Resumable
      BY <1>7 DEF IInv, LaunchIsAdmitted, Admitted, SavePending
  <2>2. state'.retries = state.retries /\ state'.reason = "startup_pending"
      BY <1>7 DEF SavePending
  <2> QED
      BY <1>1, <2>1, <2>2 DEF Resumable, FailureStays, RetriesStay
<1>8. ASSUME NEW o \in Operators, Spawn(o)
      PROVE  FailureStays /\ RetriesStay
    BY <1>2, <1>8 DEF Spawn, RunRecords
<1>9. ASSUME NEW o \in Operators, SpawnFails(o)
      PROVE  FailureStays /\ RetriesStay
  <2>1. state.status \notin Sticky
      BY <1>9 DEF IInv, LaunchIsAdmitted, Admitted, SpawnFails
  <2> QED
      BY <1>3, <1>9, <2>1, SaveKeeps DEF SpawnFails
<1>10. ASSUME NEW o \in Operators, PollSupervisor(o)
       PROVE  FailureStays /\ RetriesStay
  <2>1. CASE SupAlive
      BY <1>2, <1>10, <2>1 DEF PollSupervisor
  <2>2. CASE ~SupAlive
    <3>1. LauncherOverwrites
        BY <1>10, <2>2, CommandEnds DEF PollSupervisor, LauncherOverwrites
    <3> QED
        BY <3>1 DEF FailureStays, RetriesStay
  <2> QED
      BY <2>1, <2>2
<1>11. ASSUME NEW o \in Operators, FinishPause(o)
       PROVE  FailureStays /\ RetriesStay
    BY <1>2, <1>3, <1>11, SaveKeeps DEF FinishPause, Sticky
<1>12. CASE SupBoot
  <2>1. Residual => state.status # "awaiting_astra_review"
      BY DEF IInv, IdleIsQuiet, Residual
  <2> QED
      BY <1>1, <1>2, <1>3, <1>12, <2>1, BootEffect DEF FailureStays,
         RetriesStay
<1>13. CASE SupWait
    BY <1>4, <1>13, RunningIsOwn DEF SupWait, Working
<1>14. CASE SupLaunch
  <2>1. sup.pc \in Working
      BY <1>14 DEF SupLaunch, Working
  <2> QED
      BY <1>2, <1>4, <1>14, <2>1, LaunchEffect, RunningIsOwn
<1>15. CASE SupSave
  <2>1. sup.pc \in Working
      BY <1>15 DEF SupSave, Working
  <2> QED
      BY <1>4, <1>15, <2>1, SaveEffect
<1> QED
    BY <1>2, <1>5, <1>6, <1>7, <1>8, <1>9, <1>10, <1>11, <1>12, <1>13, <1>14,
       <1>15, StateWriters

(* A stop is obeyed before it is cleared, a failure is only cleared by the *)
(* resume that may clear it, and no retry of a stage is ever given back.   *)
THEOREM NothingBack == Spec => NothingIsTakenBack
<1>1. IInv /\ [Next]_vars => [stop /\ (SupAlive \/ StageAlive) => stop']_vars
    BY StopIsKept
<1>2. IInv /\ [Next]_vars => [FailureStays]_vars /\ [RetriesStay]_vars
    BY RecordIsKept
<1>3. Spec => StopStays
    BY <1>1, InvariantHolds, PTL DEF Spec, StopStays
<1>4. Spec => [][FailureStays]_vars /\ [][RetriesStay]_vars
    BY <1>2, InvariantHolds, PTL DEF Spec
<1>5. [][FailureStays]_vars => FailuresAreSticky
    BY DEF FailureStays, FailuresAreSticky
<1>6. [][RetriesStay]_vars => RetriesAreSpent
    BY DEF RetriesStay, RetriesAreSpent
<1> QED
    BY <1>3, <1>4, <1>5, <1>6 DEF NothingIsTakenBack

-----------------------------------------------------------------------------
(* RunRevisions                                                            *)

RunStatuses == {"ready", "running", "stopped", "needs_astra", "awaiting"}
RunReasons ==
    {"none", "swap", "failed", "coverage", "depth", "protocol", "requested_stop"}
RunStages == StageNames \union {"none", "complete"}
RunNames ==
    [launch : Nat, status : RunStatuses \union {"none"}, stage : RunStages,
     reason : RunReasons]
Revisions ==
    [named : BOOLEAN, tree : [CodeFiles -> 0..2], admitted : BOOLEAN, review : RunNames]
Snaps == [games : SUBSET RunGames, spent : Nat, accepted : Nat]
RunStates ==
    [status : RunStatuses, reason : RunReasons, stage : RunStages, launch : Nat,
     attempt : Nat, rev : Revisions]
Resumed == [prev : RunNames, snap : Snaps]

RevisionTypes ==
    /\ RevisionsTypeOK /\ BudgetsHold(config)
    /\ st \in RunStates /\ approval \in Revisions
    /\ failure \in RunNames /\ admission \in [name : RunNames, snap : Snaps]
    /\ resumes \in Seq(Resumed)
    /\ DOMAIN completions = StageNames /\ DOMAIN proof = {"audit", "arena"}

\* A recovery's revision that goes by a review has its games and its model.
IsEarned(rev) ==
    rev.review # NoName /\ config.kind = "recovery" =>
        completions["generate"] # {} /\ completions["train"] # {}

\* What a revision allows to change no longer enters the work that is left: the games
\* of an admission are there when it is first run under.
RevisionsAreEarned ==
    /\ IsEarned(approval) /\ IsEarned(st.rev)
    /\ st.rev.admitted => completions["generate"] # {}
    /\ config.kind = "c4" /\ failure # NoName => failure.reason = "protocol"

\* Only a supervisor in its last stage has a run await its review.
AwaitingIsOver ==
    st.status = "awaiting" =>
        /\ ~supervised
        /\ config.kind = "recovery" =>
              proof["audit"] = review.candidate /\ proof["arena"] = review.candidate

\* The last resume is the attempt that is recorded, and each was of an earlier launch.
ResumesAreInOrder ==
    /\ st.attempt = Len(resumes)
    /\ \A i \in 1..Len(resumes) : resumes[i].prev.launch < st.launch

\* From resume to resume nothing is taken back.
ResumesOnlyGrow ==
    \A i, j \in 1..Len(resumes) : i < j =>
        /\ resumes[i].snap.games \subseteq resumes[j].snap.games
        /\ resumes[i].snap.spent <= resumes[j].snap.spent
        /\ resumes[i].snap.accepted <= resumes[j].snap.accepted

\* Each resume from a failure was cleared by what was said of that failure.
ResumesAreCleared ==
    \A i \in 1..Len(resumes) :
        resumes[i].prev.status = "needs_astra" =>
            \/ resumes[i].prev.reason = "swap"
            \/ resumes[i].prev = admission.name
            \/ resumes[i].prev = failure

ResumesAreDistinct ==
    \A i, j \in 1..Len(resumes) : resumes[i].prev = resumes[j].prev => i = j

ResumesAreSound ==
    ResumesAreInOrder /\ ResumesOnlyGrow /\ ResumesAreCleared /\ ResumesAreDistinct

RevisionInvariant ==
    /\ RevisionTypes /\ spent <= Budget
    /\ RevisionsAreEarned /\ WorkIsDoneAsSealed /\ AwaitingIsOver /\ ResumesAreSound

LEMMA NamesOfStates ==
  \A s \in RunStates :
    /\ Name(s) \in RunNames /\ Name(s).launch = s.launch
    /\ Name(s).status = s.status /\ Name(s).reason = s.reason
  BY DEF RunStates, RunNames, RunStages, Name

LEMMA NoNameIsNone ==
  ASSUME NEW s \in RunStates
  PROVE  NoName \in RunNames /\ Name(s) # NoName
  BY DEF NoName, RunNames, Name, RunStates, RunStatuses, RunReasons, RunStages

LEMMA RevisionsStart == RevisionsInit => RevisionInvariant
<1> SUFFICES ASSUME RevisionsInit PROVE RevisionInvariant OBVIOUS
<1>1. Sealed \in [CodeFiles -> 0..2] /\ NoName \in RunNames /\ NoRevision \in Revisions
  BY DEF Sealed, CodeFiles, NoRevision, NoName, Revisions, RunNames, RunReasons,
      RunStages
<1>2. RevisionTypes
  <2>1. config \in Contracts /\ BudgetsHold(config) BY DEF RevisionsInit
  <2>2. RevisionsTypeOK
    <3>1. wt \in [CodeFiles -> 0..2] /\ committed \in [CodeFiles -> 0..2]
      BY <1>1 DEF RevisionsInit
    <3>2. edits \in 0..MaxEdits /\ faults \in 0..MaxFaults
      BY RevisionAssumption DEF RevisionsInit
    <3>3. st.status = "ready" BY DEF RevisionsInit
    <3>4. QED BY <2>1, <3>1, <3>2, <3>3 DEF RevisionsInit, RevisionsTypeOK
  <2>3. st \in RunStates BY <1>1 DEF RevisionsInit, RunStates, RunStatuses, RunReasons,
      RunStages
  <2>4. admission \in [name : RunNames, snap : Snaps]
    BY <1>1 DEF RevisionsInit, NoAdmission, Snaps
  <2>5. resumes \in Seq(Resumed) BY DEF RevisionsInit
  <2>6. QED BY <1>1, <2>1, <2>2, <2>3, <2>4, <2>5 DEF RevisionTypes, RevisionsInit
<1>3. resumes = <<>> /\ Len(resumes) = 0 BY DEF RevisionsInit
<1>4. RevisionsAreEarned
  BY DEF RevisionsAreEarned, IsEarned, RevisionsInit, NoRevision
<1>5. WorkIsDoneAsSealed BY DEF WorkIsDoneAsSealed, RevisionsInit
<1>6. AwaitingIsOver BY DEF AwaitingIsOver, RevisionsInit
<1>7. ResumesAreSound
  BY <1>3 DEF ResumesAreSound, ResumesAreInOrder, ResumesOnlyGrow, ResumesAreCleared,
              ResumesAreDistinct, RevisionsInit
<1>8. spent <= Budget BY RevisionAssumption DEF RevisionsInit
<1>9. QED BY <1>2, <1>4, <1>5, <1>6, <1>7, <1>8 DEF RevisionInvariant

LEMMA GamesAreCounted ==
  \A G : G \subseteq RunGames => Cardinality(G) \in Nat
  BY RevisionAssumption, FS_Subset, FS_CardinalityType

\* A launch and a snapshot are of their types.
LEMMA LaunchesAreStates ==
  ASSUME RevisionTypes, NEW rev \in Revisions, NEW n \in Nat
  PROVE  /\ Launched(rev, n) \in RunStates
         /\ [Launched(rev, n) EXCEPT !.status = "needs_astra", !.reason = "failed"]
                \in RunStates
         /\ Launched(rev, n).launch = st.launch + 1
         /\ [prev |-> Name(st), snap |-> Snap] \in Resumed
<1>1. st \in RunStates BY DEF RevisionTypes
<1>2. st.launch \in Nat BY <1>1 DEF RunStates
<1>3. Snap \in Snaps BY DEF RevisionTypes, RevisionsTypeOK, Snap, Snaps
<1>4. Name(st) \in RunNames BY <1>1, NamesOfStates
<1>5. Launched(rev, n) \in RunStates /\ Launched(rev, n).launch = st.launch + 1
  BY <1>2 DEF Launched, RunStates, RunStatuses, RunReasons, RunStages
<1>6. [Launched(rev, n) EXCEPT !.status = "needs_astra", !.reason = "failed"]
                \in RunStates
  BY <1>5 DEF RunStates, RunStatuses, RunReasons
<1>7. QED BY <1>3, <1>4, <1>5, <1>6 DEF Resumed

\* The part of the types that the counters, the files and the trees have.
LEMMA RevisionTypesHold ==
  ASSUME RevisionTypes, RevisionsNext, spent <= Budget,
         st.attempt = Len(resumes)
  PROVE  RevisionTypes'
<1> USE DEF RevisionTypes, RevisionsTypeOK
<1>0. /\ st \in RunStates /\ st.launch \in Nat /\ st.attempt \in Nat /\ st.rev \in Revisions
      /\ Len(resumes) \in Nat
  BY LenProperties DEF RunStates
<1>n. /\ [st EXCEPT !.status = "ready"] \in RunStates
      /\ [st EXCEPT !.status = "needs_astra", !.reason = "failed"] \in RunStates
      /\ [st EXCEPT !.status = "stopped", !.reason = "requested_stop"] \in RunStates
  BY <1>0 DEF RunStates, RunStatuses, RunReasons
<1>e. ASSUME NEW s \in RunStages, NEW b, NEW r, Ends(s, b, r),
             b \in RunStatuses, r \in RunReasons
      PROVE  st' \in RunStates /\ supervised' = FALSE
  <2>2. [st EXCEPT !.status = b, !.reason = r, !.stage = s] \in RunStates
    BY <1>0, <1>e DEF RunStates
  <2>3. QED BY <1>e, <2>2 DEF Ends
<1>s. st' \in RunStates =>
         st'.status \in {"ready", "running", "stopped", "needs_astra", "awaiting"}
  BY DEF RunStates, RunStatuses
<1>1. CASE Migrate
  BY <1>1, GamesAreCounted, RevisionAssumption
  DEF Migrate, trees, permits, outcomes, BudgetsHold
<1>2. CASE StartRun
  <2>1. /\ Launched(st.rev, 0) \in RunStates /\ Launched(st.rev, st.attempt) \in RunStates
        /\ [Launched(st.rev, 0) EXCEPT !.status = "needs_astra", !.reason = "failed"]
              \in RunStates
    BY <1>0, LaunchesAreStates
  <2>2. st' \in RunStates /\ supervised' \in BOOLEAN BY <1>2, <2>1 DEF StartRun
  <2>3. QED
    BY <1>2, <1>s, <2>2 DEF StartRun, trees, permits, outcomes, consumption, BudgetsHold
<1>3. CASE Admit
  <2>1. Name(st) \in RunNames /\ Snap \in Snaps
    BY <1>0, NamesOfStates DEF Snap, Snaps
  <2>2. QED BY <1>3, <2>1 DEF Admit, trees, outcomes, consumption, BudgetsHold
<1>4. CASE Reviews
  BY <1>4, <1>0, NamesOfStates DEF Reviews, trees, outcomes, consumption, BudgetsHold
<1>5. CASE ResumeRun
  <2>1. st' \in RunStates
    <3>1. Len(resumes) + 1 \in Nat BY <1>0
    <3>2. Launched(approval, Len(resumes) + 1) \in RunStates BY <3>1, LaunchesAreStates
    <3>3. QED BY <1>5, <3>2 DEF ResumeRun
  <2>r. resumes' \in Seq(Resumed)
    BY <1>5, <1>0, LaunchesAreStates, AppendProperties DEF ResumeRun
  <2>2. DOMAIN completions' = StageNames BY <1>5 DEF ResumeRun
  <2>3. QED
    BY <1>5, <1>s, <2>1, <2>r, <2>2 DEF ResumeRun, trees, permits, consumption,
        BudgetsHold
<1>6. CASE PauseRun
  <2>1. st' \in RunStates BY <1>6, <1>n DEF PauseRun
  <2>2. resumes' \in Seq(Resumed)
    <3>1. ASSUME st.attempt # 0
          PROVE  [resumes EXCEPT ![st.attempt].snap = Snap] \in Seq(Resumed)
      <4>1. st.attempt \in 1..Len(resumes) BY <1>0, <3>1
      <4>2. resumes[st.attempt] \in Resumed BY <4>1, ElementOfSeq
      <4>3. Snap \in Snaps BY DEF Snap, Snaps
      <4>4. [resumes[st.attempt] EXCEPT !.snap = Snap] \in Resumed
        BY <4>2, <4>3 DEF Resumed
      <4>5. QED BY <4>1, <4>4, ExceptSeq
    <3>2. QED BY <1>6, <3>1 DEF PauseRun
  <2>3. progress' \in Nat BY <1>6, GamesAreCounted DEF PauseRun
  <2>4. QED BY <1>6, <1>s, <2>1, <2>2, <2>3
    DEF PauseRun, trees, permits, outcomes, BudgetsHold
<1>7. CASE \E admit, reviewed \in BOOLEAN : ApproveRevision(admit, reviewed)
  <2> PICK admit \in BOOLEAN, reviewed \in BOOLEAN : ApproveRevision(admit, reviewed) BY <1>7
  <2>1. Revision(admit, reviewed) \in Revisions BY DEF Revision, Revisions
  <2>2. QED BY <2>1 DEF ApproveRevision, trees, outcomes, consumption, BudgetsHold
<1>8. CASE \E s \in StageNames : StageFails(s)
  <2> PICK s \in StageNames : StageFails(s) BY <1>8
  <2>1. \E r \in RunReasons : Ends(s, "needs_astra", r)
    BY DEF StageFails, RunReasons
  <2>0. s \in RunStages BY DEF RunStages
  <2>s. st' \in RunStates /\ supervised' = FALSE BY <1>e, <2>0, <2>1 DEF RunStatuses
  <2>2. DOMAIN proof' = DOMAIN proof BY DEF StageFails
  <2>4. QED BY <1>s, <2>s, <2>2 DEF StageFails, trees, permits, consumption, BudgetsHold
<1>9. CASE \E s \in StageNames, g \in RunGames : Game(s, g)
  <2> PICK s \in StageNames, g \in RunGames : Game(s, g) BY <1>9
  <2>1. games' \subseteq RunGames /\ accepted' \in Nat /\ spent' \in Nat BY DEF Game
  <2>2. progress' \in Nat BY <2>1, GamesAreCounted DEF Game
  <2>3. QED BY <2>1, <2>2 DEF Game, trees, permits, outcomes, BudgetsHold
<1>10. CASE GenerateRun
  BY <1>10 DEF GenerateRun, PublishReceipt, trees, permits, consumption, BudgetsHold
<1>11. CASE Train
  BY <1>11 DEF Train, PublishReceipt, trees, permits, consumption, BudgetsHold
<1>12. CASE AuditRun
  BY <1>12 DEF AuditRun, PublishReceipt, trees, permits, consumption, BudgetsHold
<1>13. CASE Arena
  <2>1. Ends("complete", "awaiting", "none") /\ "complete" \in RunStages
    BY <1>13 DEF Arena, RunStages
  <2>2. st' \in RunStates /\ supervised' = FALSE
    BY <1>e, <2>1 DEF RunStatuses, RunReasons
  <2>3. QED
    BY <1>13, <1>s, <2>2
    DEF Arena, PublishReceipt, trees, permits, consumption, BudgetsHold
<1>14. CASE Iterate
  <2>1. Ends("complete", "awaiting", "none") /\ "complete" \in RunStages
    BY <1>14 DEF Iterate, RunStages
  <2>2. st' \in RunStates /\ supervised' = FALSE
    BY <1>e, <2>1 DEF RunStatuses, RunReasons
  <2>3. QED
    BY <1>14, <1>s, <2>2
    DEF Iterate, PublishReceipt, trees, permits, consumption, BudgetsHold
<1>15. CASE Stops
  BY <1>15, <1>n, <1>s, <1>0 DEF Stops, trees, permits, outcomes, consumption,
      BudgetsHold
<1>16. CASE Commit
  BY <1>16 DEF Commit, permits, outcomes, consumption, BudgetsHold
<1>17. CASE Fault
  <2>1. games' \subseteq RunGames /\ spent' \in Nat /\ accepted' \in Nat BY <1>17
    DEF Fault
  <2>2. faults' \in 0..MaxFaults BY <1>17, RevisionAssumption DEF Fault
  <2>3. QED BY <1>17, <2>1, <2>2 DEF Fault, trees, permits, BudgetsHold
<1>18. CASE \E f \in Edited : Edit(f)
  <2> PICK f \in Edited : Edit(f) BY <1>18
  <2>1. edits' \in 0..MaxEdits BY RevisionAssumption DEF Edit
  <2>2. wt' \in [CodeFiles -> 0..2]
    <3>1. \A v \in Versions(f) : v \in 0..2 BY DEF Versions
    <3>2. QED BY <3>1 DEF Edit
  <2>3. QED BY <2>1, <2>2 DEF Edit, permits, outcomes, consumption, BudgetsHold
<1>19. QED
  BY <1>1, <1>2, <1>3, <1>4, <1>5, <1>6, <1>7, <1>8, <1>9, <1>10, <1>11, <1>12, <1>13,
     <1>14, <1>15, <1>16, <1>17, <1>18
  DEF RevisionsNext, RunCommand, Supervisor, ReviewPostTraining, ReviewTeacher

\* What is worked under: only allowed files differ from the sealed ones.
LEMMA WorkIsUnderItsRevision ==
  ASSUME RevisionTypes, RevisionsAreEarned, NEW s \in StageNames, WorkingOn(s)
  PROVE  /\ wt["engine"] = 0 /\ wt["config"] # 2
         /\ config.kind = "recovery" /\ Generates(s) => wt["data"] = 0
         /\ config.kind = "recovery" /\ s \in {"train", "iterate"} => wt["arena"] = 0
         /\ wt["teacher"] = 1 => failure.reason = "protocol"
<1>1. RevisionHolds(st.rev) /\ wt = st.rev.tree /\ StageIsNext(s)
  BY DEF WorkingOn, CodeHolds
<1>2. \A f \in CodeFiles : wt[f] # 0 => f \in AllowedFiles(st.rev)
  BY <1>1 DEF RevisionHolds, Changed
<1>3. "engine" \in CodeFiles /\ "data" \in CodeFiles /\ "arena" \in CodeFiles
      /\ "teacher" \in CodeFiles
  BY DEF CodeFiles
<1>4. wt["engine"] = 0 BY <1>2, <1>3 DEF AllowedFiles
<1>5. wt["config"] # 2 BY <1>1 DEF RevisionHolds
<1>6. completions[s] = {} BY <1>1 DEF StageIsNext
<1>7. config.kind = "recovery" => s # "iterate"
  BY <1>1 DEF StageIsNext, StageOrder
<1>8. ASSUME config.kind = "recovery", Generates(s) PROVE wt["data"] = 0
  <2>1. completions["generate"] = {} BY <1>6, <1>7, <1>8 DEF Generates
  <2>2. ~st.rev.admitted /\ st.rev.review = NoName
    BY <2>1, <1>8 DEF RevisionsAreEarned, IsEarned
  <2>3. QED BY <2>2, <1>2, <1>3 DEF AllowedFiles
<1>9. ASSUME config.kind = "recovery", s \in {"train", "iterate"} PROVE wt["arena"] = 0
  <2>1. completions["train"] = {} BY <1>6, <1>7, <1>9
  <2>2. st.rev.review = NoName
    BY <2>1, <1>9 DEF RevisionsAreEarned, IsEarned
  <2>3. QED BY <2>2, <1>2, <1>3 DEF AllowedFiles
<1>10. ASSUME wt["teacher"] = 1 PROVE failure.reason = "protocol"
  <2>1. st.rev.review # NoName /\ config.kind = "c4"
    BY <1>10, <1>2, <1>3 DEF AllowedFiles
  <2>2. QED BY <2>1, <1>1 DEF RevisionHolds, RevisionsAreEarned
<1>11. QED BY <1>4, <1>5, <1>8, <1>9, <1>10

\* A receipt that is published stays.
LEMMA ReceiptsStay ==
  ASSUME RevisionTypes, RevisionsNext, NEW s \in StageNames, completions[s] # {}
  PROVE  completions'[s] # {}
<1> USE DEF RevisionTypes
<1>1. ASSUME NEW t \in StageNames, PublishReceipt(t) PROVE completions'[s] # {}
  <2>1. CASE t = s
    <3>1. completions'[s] = Artifacts(t)' BY <1>1, <2>1 DEF PublishReceipt
    <3>2. Artifacts(t)' # {}
      BY DEF Artifacts, IterationArtifacts, StageNames
    <3>3. QED BY <3>1, <3>2
  <2>2. CASE t # s BY <1>1, <2>2 DEF PublishReceipt
  <2>3. QED BY <2>1, <2>2
<1>2. \A t \in {"generate", "train", "audit", "arena", "iterate"} :
         PublishReceipt(t) => completions'[s] # {}
  BY <1>1 DEF StageNames
<1>3. CASE ResumeRun
  BY <1>3 DEF ResumeRun
<1>4. QED
  BY <1>2, <1>3
  DEF RevisionsNext, RunCommand, Supervisor, Migrate, StartRun, Admit,
      ReviewPostTraining, ReviewTeacher, Reviews, PauseRun, ApproveRevision, StageFails,
      Game, GenerateRun, Train, AuditRun, Arena, Iterate, Stops, Commit, Fault, Edit,
      outcomes

\* What a step can do to what was said of failures, to the kind and to the state's
\* attempt, launch and revision.
LEMMA RevisionSteps ==
  ASSUME RevisionTypes, RevisionsNext
  PROVE  /\ config' = config
         /\ failure = NoName \/ failure' = failure
         /\ admission.name = NoName \/ admission' = admission
         /\ \/ ResumeRun
            \/ st'.attempt = st.attempt /\ st'.rev = st.rev /\ st.launch <= st'.launch
               /\ (PauseRun \/ resumes' = resumes)
<1> USE DEF RevisionTypes
<1>0. st \in RunStates /\ st.launch \in Nat BY DEF RunStates
<1>1. config' = config
  BY DEF RevisionsNext, RunCommand, Supervisor, Migrate, StartRun, Admit,
      ReviewPostTraining, ReviewTeacher, Reviews, PauseRun, ApproveRevision, StageFails,
      Game, GenerateRun, Train, AuditRun, Arena, Iterate, Stops, Commit, Fault, Edit,
      ResumeRun
<1>2. failure = NoName \/ failure' = failure
  BY DEF RevisionsNext, RunCommand, Supervisor, Migrate, StartRun, Admit,
      ReviewPostTraining, ReviewTeacher, Reviews, PauseRun, ApproveRevision, StageFails,
      Game, GenerateRun, Train, AuditRun, Arena, Iterate, Stops, Commit, Fault, Edit,
      ResumeRun, permits
<1>3. admission.name = NoName \/ admission' = admission
  BY DEF RevisionsNext, RunCommand, Supervisor, Migrate, StartRun, Admit,
      ReviewPostTraining, ReviewTeacher, Reviews, PauseRun, ApproveRevision, StageFails,
      Game, GenerateRun, Train, AuditRun, Arena, Iterate, Stops, Commit, Fault, Edit,
      ResumeRun, permits
<1>4. ASSUME NEW t, NEW b, NEW q, Ends(t, b, q)
      PROVE  st'.attempt = st.attempt /\ st'.rev = st.rev /\ st'.launch = st.launch
  BY <1>0, <1>4 DEF Ends, RunStates
<1>5. CASE StartRun
  <2>1. CASE config.kind = "c4" /\ st.attempt = 0
    <3>1. st' = [Launched(st.rev, 0) EXCEPT !.status = "needs_astra", !.reason = "failed"]
      BY <1>5, <2>1 DEF StartRun
    <3>2. st'.attempt = 0 /\ st'.rev = st.rev /\ st'.launch = st.launch + 1
      BY <3>1 DEF Launched
    <3>3. QED BY <1>1, <1>2, <1>3, <1>0, <1>5, <2>1, <3>2 DEF StartRun
  <2>2. CASE ~(config.kind = "c4" /\ st.attempt = 0)
    <3>1. st' = Launched(st.rev, st.attempt) BY <1>5, <2>2 DEF StartRun
    <3>2. QED BY <1>1, <1>2, <1>3, <1>0, <1>5, <3>1 DEF StartRun, Launched
  <2>3. QED BY <2>1, <2>2
<1>6. CASE PauseRun
  <2>1. \/ st' = [st EXCEPT !.status = "ready"]
        \/ st' = [st EXCEPT !.status = "needs_astra", !.reason = "failed"]
    BY <1>6 DEF PauseRun
  <2>2. st'.attempt = st.attempt /\ st'.rev = st.rev /\ st'.launch = st.launch
    BY <1>0, <2>1 DEF RunStates
  <2>3. QED BY <1>0, <1>1, <1>2, <1>3, <1>6, <2>2
<1>7. CASE Stops
  <2>1. \/ st' = st
        \/ st' = [st EXCEPT !.status = "stopped", !.reason = "requested_stop"]
    BY <1>7 DEF Stops
  <2>2. resumes' = resumes BY <1>7 DEF Stops
  <2>3. st'.attempt = st.attempt /\ st'.rev = st.rev /\ st'.launch = st.launch
    BY <1>0, <2>1 DEF RunStates
  <2>4. QED BY <1>0, <1>1, <1>2, <1>3, <2>2, <2>3
<1>8. QED
  BY <1>0, <1>1, <1>2, <1>3, <1>4, <1>5, <1>6, <1>7
  DEF RevisionsNext, RunCommand, Supervisor, Migrate, Admit, ReviewPostTraining,
      ReviewTeacher, Reviews, ApproveRevision, StageFails, Game, GenerateRun, Train,
      AuditRun, Arena, Iterate, Commit, Fault, Edit

LEMMA RevisionsStayEarned ==
  ASSUME RevisionTypes, RevisionsAreEarned, RevisionsNext
  PROVE  RevisionsAreEarned'
<1>0. config' = config BY RevisionSteps
<1>1. /\ completions["generate"] # {} => completions'["generate"] # {}
      /\ completions["train"] # {} => completions'["train"] # {}
  BY ReceiptsStay DEF StageNames
<1>2. \A rev : IsEarned(rev) => IsEarned(rev)'
  BY <1>0, <1>1 DEF IsEarned
<1>3. approval' = approval \/ \E admit, reviewed \in BOOLEAN : ApproveRevision(admit, reviewed)
  BY DEF RevisionsNext, RunCommand, Supervisor, Migrate, StartRun, Admit,
      ReviewPostTraining, ReviewTeacher, Reviews, PauseRun, StageFails, Game,
      GenerateRun, Train, AuditRun, Arena, Iterate, Stops, Commit, Fault, Edit,
      ResumeRun, permits
<1>4. IsEarned(approval)'
  <2>1. CASE approval' = approval BY <1>2, <2>1 DEF RevisionsAreEarned, IsEarned
  <2>2. ASSUME NEW admit \in BOOLEAN, NEW reviewed \in BOOLEAN, ApproveRevision(admit, reviewed)
        PROVE  IsEarned(approval)'
    <3>1. IsEarned(approval') BY <2>2 DEF ApproveRevision, IsEarned
    <3>2. QED BY <1>0, <1>1, <3>1 DEF IsEarned
  <2>3. QED BY <1>3, <2>1, <2>2
<1>5. st'.rev = st.rev \/ ResumeRun BY RevisionSteps
<1>7. IsEarned(st.rev)' /\ (st'.rev.admitted => completions'["generate"] # {})
  <2>1. CASE ResumeRun
    <3>1. st'.rev = approval BY <2>1 DEF ResumeRun, Launched
    <3>2. approval' = approval BY <2>1 DEF ResumeRun, permits
    <3>3. IsEarned(st.rev)' BY <1>4, <3>1, <3>2 DEF IsEarned
    <3>4. "generate" \in DOMAIN completions BY DEF RevisionTypes, StageNames
    <3>5. QED BY <2>1, <3>1, <3>3, <3>4 DEF ResumeRun
  <2>2. CASE st'.rev = st.rev
    BY <1>0, <1>1, <2>2 DEF RevisionsAreEarned, IsEarned
  <2>3. QED BY <1>5, <2>1, <2>2
<1>8. failure' = failure \/ ReviewTeacher \/ ReviewPostTraining
  BY DEF RevisionsNext, RunCommand, Supervisor, Migrate, StartRun, Admit,
      ApproveRevision, PauseRun, StageFails, Game, GenerateRun, Train, AuditRun, Arena,
      Iterate, Stops, Commit, Fault, Edit, ResumeRun, permits
<1>9. config'.kind = "c4" /\ failure' # NoName => failure'.reason = "protocol"
  <2>1. CASE failure' = failure BY <1>0, <2>1 DEF RevisionsAreEarned
  <2>2. CASE ReviewTeacher BY <2>2 DEF ReviewTeacher, Reviews, Name
  <2>3. CASE ReviewPostTraining BY <1>0, <2>3 DEF ReviewPostTraining
  <2>4. QED BY <1>8, <2>1, <2>2, <2>3
<1>10. QED BY <1>4, <1>7, <1>9 DEF RevisionsAreEarned

LEMMA WorkStaysSealed ==
  ASSUME RevisionTypes, RevisionsAreEarned, WorkIsDoneAsSealed, RevisionsNext
  PROVE  WorkIsDoneAsSealed'
<1>0. config' = config /\ (failure = NoName \/ failure' = failure) BY RevisionSteps
<1>1. ASSUME NEW u, u \in used
      PROVE  /\ u[2]["engine"] = 0 /\ u[2]["config"] # 2
             /\ config'.kind = "recovery" /\ u[1] = "game" => u[2]["data"] = 0
             /\ config'.kind = "recovery" /\ u[1] = "fit" => u[2]["arena"] = 0
             /\ u[2]["teacher"] = 1 => failure'.reason = "protocol"
  <2>1. CASE failure' = failure BY <1>0, <1>1, <2>1 DEF WorkIsDoneAsSealed
  <2>2. CASE failure = NoName
    <3>1. u[2]["teacher"] # 1 BY <1>1, <2>2 DEF WorkIsDoneAsSealed, NoName
    <3>2. QED BY <1>0, <1>1, <3>1 DEF WorkIsDoneAsSealed
  <2>3. QED BY <1>0, <2>1, <2>2
<1>2. \/ used' = used
      \/ /\ failure' = failure
         /\ \E s \in StageNames : WorkingOn(s) /\
               \E w : /\ used' = used \union {<<w, wt>>}
                      /\ w = "game" => Generates(s)
                      /\ w = "fit" => s \in {"train", "iterate"}
  <2>1. ASSUME NEW s \in StageNames, NEW g \in RunGames, Game(s, g)
        PROVE  /\ failure' = failure /\ WorkingOn(s) /\ Generates(s)
               /\ used' = used \union {<<"game", wt>>}
    BY <2>1 DEF Game, Uses, permits
  <2>2. Train => failure' = failure /\ WorkingOn("train") /\ used' = used \union {<<"fit", wt>>}
    BY DEF Train, Uses, permits
  <2>3. AuditRun => failure' = failure /\ WorkingOn("audit") /\ used' = used \union {<<"audit", wt>>}
    BY DEF AuditRun, Uses, permits
  <2>4. Arena => failure' = failure /\ WorkingOn("arena") /\ used' = used \union {<<"arena", wt>>}
    BY DEF Arena, Uses, permits
  <2>5. Iterate => failure' = failure /\ WorkingOn("iterate") /\ used' = used \union {<<"fit", wt>>}
    BY DEF Iterate, Uses, permits
  <2>6. \/ used' = used \/ Train \/ AuditRun \/ Arena \/ Iterate
        \/ \E s \in StageNames, g \in RunGames : Game(s, g)
    BY DEF RevisionsNext, RunCommand, Supervisor, Migrate, StartRun, Admit,
        ReviewPostTraining, ReviewTeacher, Reviews, PauseRun, ApproveRevision,
        StageFails, GenerateRun, Stops, Commit, Fault, Edit, ResumeRun
  <2>7. CASE \E s \in StageNames, g \in RunGames : Game(s, g) BY <2>1, <2>7
  <2>8. CASE Train BY <2>2, <2>8 DEF StageNames
  <2>9. CASE AuditRun BY <2>3, <2>9 DEF StageNames
  <2>10. CASE Arena BY <2>4, <2>10 DEF StageNames
  <2>11. CASE Iterate BY <2>5, <2>11 DEF StageNames
  <2>12. QED BY <2>6, <2>7, <2>8, <2>9, <2>10, <2>11
<1>3. CASE used' = used BY <1>1, <1>3 DEF WorkIsDoneAsSealed
<1>4. ASSUME NEW s \in StageNames, WorkingOn(s), NEW w, used' = used \union {<<w, wt>>},
             w = "game" => Generates(s), w = "fit" => s \in {"train", "iterate"},
             failure' = failure
      PROVE  WorkIsDoneAsSealed'
  <2>1. ASSUME NEW u, u = <<w, wt>>
        PROVE  /\ u[2]["engine"] = 0 /\ u[2]["config"] # 2
               /\ config'.kind = "recovery" /\ u[1] = "game" => u[2]["data"] = 0
               /\ config'.kind = "recovery" /\ u[1] = "fit" => u[2]["arena"] = 0
               /\ u[2]["teacher"] = 1 => failure'.reason = "protocol"
    <3>1. u[1] = w /\ u[2] = wt BY <2>1
    <3>2. QED BY <1>0, <1>4, <3>1, WorkIsUnderItsRevision
  <2>2. QED BY <1>1, <1>4, <2>1 DEF WorkIsDoneAsSealed
<1>5. QED BY <1>2, <1>3, <1>4

LEMMA AwaitingStaysOver ==
  ASSUME RevisionTypes, AwaitingIsOver, RevisionsNext
  PROVE  AwaitingIsOver'
<1>0. config' = config BY RevisionSteps
<1>1. st \in RunStates BY DEF RevisionTypes
<1>2. ASSUME UNCHANGED <<st, supervised, proof, review>> PROVE AwaitingIsOver'
  BY <1>0, <1>2 DEF AwaitingIsOver
<1>3. ASSUME st'.status # "awaiting" PROVE AwaitingIsOver'
  BY <1>3 DEF AwaitingIsOver
<1>4. CASE Arena
  <2>1. CompletionsHold(st.rev) /\ StageIsNext("arena") BY <1>4 DEF Arena, WorkingOn
  <2>2. config.kind = "recovery" => completions["audit"] # {}
    <3>1. SUFFICES ASSUME config.kind = "recovery" PROVE completions["audit"] # {} OBVIOUS
    <3>2. StageOrder = <<"generate", "train", "audit", "arena">> BY <3>1 DEF StageOrder
    <3>3. PICK i \in DOMAIN StageOrder :
            /\ StageOrder[i] = "arena"
            /\ \A j \in 1..(i - 1) : completions[StageOrder[j]] # {}
      BY <2>1 DEF StageIsNext
    <3>4. i = 4 BY <3>2, <3>3
    <3>5. QED BY <3>2, <3>3, <3>4
  <2>3. config.kind = "recovery" => proof["audit"] = fit.model
    BY <2>1, <2>2 DEF CompletionsHold, CompletionHolds, AuditHolds, StageNames
  <2>4. /\ proof' = [proof EXCEPT !["arena"] = fit.model]
        /\ review' = [candidate |-> fit.model, made |-> TRUE] /\ supervised' = FALSE
    BY <1>4 DEF Arena, Ends
  <2>5. /\ config.kind = "recovery" => proof'["audit"] = fit.model
        /\ proof'["arena"] = fit.model /\ review'.candidate = fit.model
    BY <2>3, <2>4 DEF RevisionTypes
  <2>6. QED BY <1>0, <2>4, <2>5 DEF AwaitingIsOver
<1>5. CASE Iterate
  <2>1. StageIsNext("iterate") /\ supervised' = FALSE BY <1>5
    DEF Iterate, Ends, WorkingOn
  <2>2. config.kind # "recovery" BY <2>1 DEF StageIsNext, StageOrder
  <2>3. QED BY <1>0, <2>1, <2>2 DEF AwaitingIsOver
<1>6. CASE StartRun
  <2>1. CASE config.kind = "c4" /\ st.attempt = 0
    <3>1. st' = [Launched(st.rev, 0) EXCEPT !.status = "needs_astra", !.reason = "failed"]
      BY <1>6, <2>1 DEF StartRun
    <3>2. st'.status = "needs_astra" BY <3>1 DEF Launched
    <3>3. QED BY <1>3, <3>2
  <2>2. CASE ~(config.kind = "c4" /\ st.attempt = 0)
    <3>1. st'.status = "running" BY <1>6, <2>2 DEF StartRun, Launched
    <3>2. QED BY <1>3, <3>1
  <2>3. QED BY <2>1, <2>2
<1>7. CASE ResumeRun
  BY <1>7, <1>3 DEF ResumeRun, Launched
<1>8. CASE PauseRun
  BY <1>8, <1>1, <1>3 DEF PauseRun, RunStates
<1>9. CASE \E s \in StageNames : StageFails(s)
  <2>1. PICK s, q : Ends(s, "needs_astra", q) BY <1>9 DEF StageFails
  <2>2. st'.status = "needs_astra" BY <1>1, <2>1 DEF Ends, RunStates
  <2>3. QED BY <1>3, <2>2
<1>10. CASE Stops
  <2>1. st.status # "awaiting" BY <1>10 DEF Stops, AwaitingIsOver
  <2>2. st' = st \/ st' = [st EXCEPT !.status = "stopped", !.reason = "requested_stop"]
    BY <1>10 DEF Stops
  <2>3. st'.status # "awaiting" BY <1>1, <2>1, <2>2 DEF RunStates
  <2>4. QED BY <1>3, <2>3
<1>11. CASE AuditRun
  <2>1. st.status # "awaiting" /\ st' = st
    BY <1>11 DEF AuditRun, WorkingOn, AwaitingIsOver
  <2>2. QED BY <1>3, <2>1
<1>12. CASE Migrate \/ Admit \/ Reviews \/ \E admit, reviewed \in BOOLEAN : ApproveRevision(admit, reviewed)
  BY <1>12, <1>2 DEF Migrate, Admit, Reviews, ApproveRevision, outcomes
<1>13. CASE \/ \E s \in StageNames, g \in RunGames : Game(s, g)
            \/ GenerateRun \/ Train \/ Commit \/ Fault \/ \E f \in Edited : Edit(f)
  BY <1>13, <1>2 DEF Game, GenerateRun, Train, Commit, Fault, Edit, outcomes
<1>14. QED
  BY <1>4, <1>5, <1>6, <1>7, <1>8, <1>9, <1>10, <1>11, <1>12, <1>13
  DEF RevisionsNext, RunCommand, Supervisor, ReviewPostTraining, ReviewTeacher

\* The budget that was reviewed is never exceeded.
LEMMA BudgetIsKept ==
  ASSUME RevisionTypes, spent <= Budget, RevisionsNext
  PROVE  spent' <= Budget
<1>1. config.budget = Budget /\ spent \in Nat /\ Budget \in Nat
  BY RevisionAssumption DEF RevisionTypes, BudgetsHold, RevisionsTypeOK
<1>2. ASSUME NEW s \in StageNames, NEW g \in RunGames, Game(s, g)
      PROVE  spent' <= Budget
  BY <1>1, <1>2 DEF Game
<1>3. CASE Fault BY <1>1, <1>3 DEF Fault
<1>4. CASE Migrate BY <1>1, <1>4 DEF Migrate
<1>5. QED
  BY <1>2, <1>3, <1>4
  DEF RevisionsNext, RunCommand, Supervisor, StartRun, Admit, ReviewPostTraining,
      ReviewTeacher, Reviews, PauseRun, ApproveRevision, StageFails, GenerateRun, Train,
      AuditRun, Arena, Iterate, Stops, Commit, Edit, ResumeRun, consumption

\* What a resume retains is at least what any earlier one did.
LEMMA SnapshotIsTheLargest ==
  ASSUME RevisionTypes, ResumesAreInOrder, ResumesOnlyGrow, SnapshotHolds,
         NEW i \in 1..Len(resumes)
  PROVE  /\ resumes[i].snap.games \subseteq Snap.games
         /\ resumes[i].snap.spent <= Snap.spent
         /\ resumes[i].snap.accepted <= Snap.accepted
<1> DEFINE n == Len(resumes)
<1>0. n \in Nat /\ \A k \in 1..n : resumes[k] \in Resumed
  BY LenProperties, ElementOfSeq DEF RevisionTypes
<1>1. n > 0 /\ st.attempt = n /\ n \in 1..n BY <1>0 DEF ResumesAreInOrder
<1>2. Retained(resumes[n].snap) BY <1>1 DEF SnapshotHolds
<1>3. /\ resumes[n].snap.games \subseteq games
      /\ resumes[n].snap.spent <= spent /\ resumes[n].snap.accepted <= accepted
  BY <1>2 DEF Retained
<1>4. /\ Snap.games = games /\ Snap.spent = spent /\ Snap.accepted = accepted
  BY DEF Snap
<1>5. CASE i = n BY <1>3, <1>4, <1>5
<1>6. CASE i < n
  <2>1. /\ resumes[i].snap.games \subseteq resumes[n].snap.games
        /\ resumes[i].snap.spent <= resumes[n].snap.spent
        /\ resumes[i].snap.accepted <= resumes[n].snap.accepted
    BY <1>1, <1>6 DEF ResumesOnlyGrow
  <2>2. /\ resumes[i].snap.spent \in Nat /\ resumes[n].snap.spent \in Nat
        /\ resumes[i].snap.accepted \in Nat /\ resumes[n].snap.accepted \in Nat
        /\ spent \in Nat /\ accepted \in Nat
    BY <1>0, <1>1 DEF Resumed, Snaps, RevisionTypes, RevisionsTypeOK
  <2>3. QED BY <1>3, <1>4, <2>1, <2>2
<1>7. QED BY <1>0, <1>5, <1>6

LEMMA ResumesStaySound ==
  ASSUME RevisionTypes, RevisionTypes', ResumesAreSound, RevisionsNext
  PROVE  ResumesAreSound'
<1> USE DEF ResumesAreSound
<1> DEFINE n == Len(resumes)
           new == [prev |-> Name(st), snap |-> Snap]
<1>0. /\ n \in Nat /\ st \in RunStates /\ st.launch \in Nat /\ resumes \in Seq(Resumed)
      /\ \A i \in 1..n : resumes[i] \in Resumed /\ resumes[i].prev.launch \in Nat
  <2>1. resumes \in Seq(Resumed) /\ st \in RunStates BY DEF RevisionTypes
  <2>2. n \in Nat BY <2>1, LenProperties
  <2>3. st.launch \in Nat BY <2>1 DEF RunStates
  <2>4. \A i \in 1..n : resumes[i] \in Resumed BY <2>1, ElementOfSeq
  <2>5. \A x \in Resumed : x.prev.launch \in Nat BY DEF Resumed, RunNames
  <2>6. QED BY <2>1, <2>2, <2>3, <2>4, <2>5
<1>1. new \in Resumed
  BY NamesOfStates DEF RevisionTypes, RevisionsTypeOK, Snap, Snaps, Resumed
<1>2. CASE ResumeRun
  <2>1. /\ resumes' = Append(resumes, new) /\ st' = Launched(approval, n + 1)
        /\ ResumePasses /\ UNCHANGED <<admission, failure>>
    BY <1>2 DEF ResumeRun, permits
  <2>2. /\ Len(resumes') = n + 1 /\ resumes'[n + 1] = new
        /\ \A i \in 1..n : resumes'[i] = resumes[i]
    BY <1>0, <1>1, <2>1, AppendProperties
  <2>3. new.prev.launch = st.launch /\ st'.launch = st.launch + 1 /\ st'.attempt = n + 1
    BY <1>0, <2>1 DEF Launched, Name
  <2>4. \A i \in 1..(n + 1) : i \in 1..n \/ i = n + 1 BY <1>0
  <2>5. ResumesAreInOrder'
    BY <1>0, <2>2, <2>3, <2>4 DEF ResumesAreInOrder
  <2>6. ResumesOnlyGrow'
    <3>1. SnapshotHolds BY <2>1 DEF ResumePasses
    <3>2. \A i \in 1..n : /\ resumes[i].snap.games \subseteq new.snap.games
                          /\ resumes[i].snap.spent <= new.snap.spent
                          /\ resumes[i].snap.accepted <= new.snap.accepted
      BY <3>1, SnapshotIsTheLargest
    <3>3. SUFFICES ASSUME NEW i \in 1..(n + 1), NEW j \in 1..(n + 1), i < j
                   PROVE  /\ resumes'[i].snap.games \subseteq resumes'[j].snap.games
                          /\ resumes'[i].snap.spent <= resumes'[j].snap.spent
                          /\ resumes'[i].snap.accepted <= resumes'[j].snap.accepted
      BY <2>2 DEF ResumesOnlyGrow
    <3>4. i \in 1..n BY <1>0, <3>3
    <3>5. CASE j \in 1..n BY <2>2, <3>3, <3>4, <3>5 DEF ResumesOnlyGrow
    <3>6. CASE j = n + 1 BY <2>2, <3>2, <3>4, <3>6
    <3>7. QED BY <2>4, <3>5, <3>6
  <2>7. ResumesAreCleared'
    <3>1. ASSUME new.prev.status = "needs_astra"
          PROVE  new.prev.reason = "swap" \/ new.prev = admission.name \/ new.prev = failure
      <4>1. /\ new.prev = Name(st) /\ st.status = "needs_astra" /\ new.prev.reason = st.reason
        BY <3>1 DEF Name
      <4>2. \/ SwapRecoverable \/ GenerationReviewed
            \/ PostTrainingReviewed(approval) \/ TeacherReviewed(approval)
        BY <2>1, <4>1 DEF ResumePasses, IdleUnder
      <4>3. approval.review = Name(st) => failure = Name(st)
        BY <1>0, <2>1, NoNameIsNone DEF ResumePasses, CodeHolds, RevisionHolds
      <4>4. QED
        BY <4>1, <4>2, <4>3
        DEF SwapRecoverable, GenerationReviewed, PostTrainingReviewed, TeacherReviewed
    <3>2. QED BY <2>1, <2>2, <2>4, <3>1 DEF ResumesAreCleared
  <2>8. ResumesAreDistinct'
    <3>1. \A i \in 1..n : resumes[i].prev # new.prev
      BY <1>0, <2>3 DEF ResumesAreInOrder
    <3>2. QED BY <2>2, <2>4, <3>1 DEF ResumesAreDistinct
  <2>9. QED BY <2>5, <2>6, <2>7, <2>8
<1>3. CASE ~ResumeRun
  <2>1. /\ failure = NoName \/ failure' = failure
        /\ admission.name = NoName \/ admission' = admission
        /\ st'.attempt = st.attempt /\ st.launch <= st'.launch /\ st'.launch \in Nat
    <3>1. st' \in RunStates BY DEF RevisionTypes
    <3>2. QED BY <1>3, <3>1, RevisionSteps DEF RunStates
  <2>2. ASSUME Len(resumes') = n, \A i \in 1..n : resumes'[i].prev = resumes[i].prev
        PROVE  ResumesAreInOrder' /\ ResumesAreCleared' /\ ResumesAreDistinct'
    <3>1. ResumesAreInOrder'
      <4>1. SUFFICES ASSUME NEW i \in 1..n PROVE resumes[i].prev.launch < st'.launch
        BY <2>1, <2>2 DEF ResumesAreInOrder
      <4>2. resumes[i].prev.launch < st.launch BY DEF ResumesAreInOrder
      <4>3. QED BY <1>0, <2>1, <4>2
    <3>2. ResumesAreCleared'
      BY <2>1, <2>2 DEF ResumesAreCleared, NoName
    <3>3. ResumesAreDistinct' BY <2>2 DEF ResumesAreDistinct
    <3>4. QED BY <3>1, <3>2, <3>3
  <2>3. CASE resumes' = resumes
    BY <2>2, <2>3 DEF ResumesOnlyGrow
  <2>4. CASE resumes' # resumes
    <3>1. PauseRun /\ SnapshotHolds /\ st.attempt # 0
          /\ resumes' = [resumes EXCEPT ![st.attempt].snap = Snap]
      BY <1>3, <2>4, RevisionSteps DEF PauseRun
    <3>2. st.attempt = n /\ n \in 1..n BY <1>0, <3>1 DEF ResumesAreInOrder
    <3>3. /\ Len(resumes') = n /\ resumes'[n] = [resumes[n] EXCEPT !.snap = Snap]
          /\ \A i \in 1..n : i # n => resumes'[i] = resumes[i]
      <4>1. [resumes[n] EXCEPT !.snap = Snap] \in Resumed
        BY <1>0, <1>1, <3>2 DEF Resumed
      <4>2. QED BY <1>0, <3>1, <3>2, <4>1, ExceptSeq
    <3>4. resumes'[n].prev = resumes[n].prev /\ resumes'[n].snap = Snap
      BY <1>0, <3>2, <3>3 DEF Resumed
    <3>5. ResumesOnlyGrow'
      <4>1. SUFFICES ASSUME NEW i \in 1..n, NEW j \in 1..n, i < j
                     PROVE  /\ resumes'[i].snap.games \subseteq resumes'[j].snap.games
                            /\ resumes'[i].snap.spent <= resumes'[j].snap.spent
                            /\ resumes'[i].snap.accepted <= resumes'[j].snap.accepted
        BY <3>3 DEF ResumesOnlyGrow
      <4>2. resumes'[i] = resumes[i] BY <3>3, <4>1
      <4>3. CASE j = n BY <3>1, <3>4, <4>2, <4>3, SnapshotIsTheLargest
      <4>4. CASE j # n BY <3>3, <4>1, <4>2, <4>4 DEF ResumesOnlyGrow
      <4>5. QED BY <4>3, <4>4
    <3>6. QED BY <2>2, <3>3, <3>4, <3>5
  <2>5. QED BY <2>3, <2>4
<1>4. QED BY <1>2, <1>3

\* Whatever is edited, committed, approved, reviewed, lost or put back, and however often
\* a run is stopped and resumed: its work is done under what was sealed or reviewed for
\* it, nothing consumed comes back, and a failure is left through its own review only.
THEOREM RevisionsAreSealed == RevisionsSpec => []RevisionsAreSound
<1>1. RevisionInvariant /\ [RevisionsNext]_revisionVars => RevisionInvariant'
  <2>1. CASE RevisionInvariant /\ RevisionsNext
    BY <2>1, RevisionTypesHold, RevisionsStayEarned, WorkStaysSealed, AwaitingStaysOver,
       BudgetIsKept, ResumesStaySound
    DEF RevisionInvariant, ResumesAreSound, ResumesAreInOrder
  <2>2. CASE RevisionInvariant /\ UNCHANGED revisionVars
    BY <2>2
    DEF RevisionInvariant, RevisionTypes, RevisionsTypeOK, BudgetsHold, revisionVars,
        trees, consumption, permits, outcomes, RevisionsAreEarned, IsEarned,
        WorkIsDoneAsSealed, AwaitingIsOver, ResumesAreSound, ResumesAreInOrder,
        ResumesOnlyGrow, ResumesAreCleared, ResumesAreDistinct
  <2>3. QED BY <2>1, <2>2
<1>2. RevisionInvariant => RevisionsAreSound
  <2>1. SUFFICES ASSUME RevisionInvariant PROVE RevisionsAreSound OBVIOUS
  <2>2. resumes \in Seq(Resumed) /\ DOMAIN resumes = 1..Len(resumes)
    <3>1. resumes \in Seq(Resumed) BY <2>1 DEF RevisionInvariant, RevisionTypes
    <3>2. QED BY <3>1, LenProperties
  <2>3. ReviewIsOfOneModel
    <3>1. SUFFICES ASSUME Reported, config.kind = "recovery", NEW s \in {"audit", "arena"}
                   PROVE  proof[s] = fit.model
      BY DEF ReviewIsOfOneModel
    <3>2. QED BY <2>1, <3>1 DEF Reported, RevisionInvariant, AwaitingIsOver
  <2>4. ConsumptionOnlyGrows
    BY <2>1, <2>2 DEF ConsumptionOnlyGrows, RevisionInvariant, ResumesAreSound,
        ResumesOnlyGrow
  <2>5. DiagnosisIsHonest BY DEF DiagnosisIsHonest, Eligible, ResumePasses, Approved
  <2>6. FailuresNeedTheirReview
    BY <2>1, <2>2
    DEF FailuresNeedTheirReview, RevisionInvariant, ResumesAreSound, ResumesAreCleared,
        ResumesAreDistinct
  <2>7. QED
    BY <2>1, <2>3, <2>4, <2>5, <2>6
    DEF RevisionsAreSound, RunIsSound, RevisionInvariant, RevisionTypes
<1>3. QED BY <1>1, <1>2, RevisionsStart, PTL DEF RevisionsSpec
=============================================================================
