---------------------------- MODULE EvaluatorRun ----------------------------
(***************************************************************************)
(* A sealed evaluator run (evaluator_run.py): operator commands (start,    *)
(* resume, pause, stop, approve-operations), the supervisor they launch    *)
(* (work) and the stage process the supervisor launches in turn            *)
(* (stage_run), over the run's files: state.json, STOP, the completion     *)
(* receipts, the stage-process receipt, the allocation counters and the    *)
(* attempt records.  The writer lease is an flock on one open file         *)
(* description that the supervisor and the stage inherit; the children a   *)
(* stage creates (teachers, native probes) do not.                         *)
(*                                                                         *)
(* The run is a defence campaign under the reviewed resource policy and an *)
(* admitted dataset, the configuration in which every path below exists.   *)
(* Stage 1 is generate and stage 2 is prepare.                             *)
(***************************************************************************)
EXTENDS Naturals, FiniteSets

CONSTANTS
    LastStage,          \* number of stages of the configuration
    Operators,          \* terminals from which commands are given
    MaxRetries,         \* resources.maximum_retries
    AllocationRetries,  \* automatic retries after a failed allocation (3)
    Sustained,          \* RESOURCE_POLICY.sustained_samples
    MaxAttempt          \* bound: execution attempts of one behaviour

ASSUME RunAssumption ==
    /\ LastStage \in Nat \ {0, 1}
    /\ MaxRetries \in Nat /\ AllocationRetries \in Nat
    /\ Sustained \in Nat \ {0} /\ MaxAttempt \in Nat

Stages == 1..LastStage
Generate == 1
Prepare == 2
\* A probe stops the run in generate, or in the last stage (arena).
NoProbe == 0
Probes == {NoProbe, Generate, LastStage}

Sticky == {"needs_astra", "awaiting_astra_review"}
Statuses == {"ready_for_luna", "running", "stopped"} \union Sticky
Reasons == {"none", "startup_pending", "requested_stop", "resource_wait",
            "probe_complete", "requested_pause", "residual_group",
            "before_spawn", "bootstrap", "unverified", "wall_limit",
            "no_progress", "supervision_error", "cleanup_error", "stage_exit",
            "stage_exit_during_stop"}
Codes == {"ok", "paused", "resource", "signal", "error"}

VARIABLES
    state,      \* state.json
    stop,       \* whether STOP exists
    complete,   \* the stages with a completion receipt
    receipt,    \* stage-process.json: the stage group may have members
    alloc,      \* allocation-retries.json: failures of the stage's current task
    attempts,   \* the number of the last file under attempts/
    results,    \* attempts/NNNNNN-result.json, for every attempt
    approved,   \* whether approved-operation.json names a revision
    op,         \* what each operator's command is doing
    sup,        \* the supervisor process
    stg,        \* the stage process
    child       \* whether the stage group has other live members

files == <<state, stop, complete, receipt, alloc, attempts, results, approved>>
vars == <<files, op, sup, stg, child>>

NoResult == [status |-> "none", reason |-> "none"]
NoOp == [pc |-> "idle", cmd |-> "start", probe |-> NoProbe,
         retries |-> [s \in Stages |-> 0]]
NoSup == [pc |-> "none", at |-> 1, probe |-> NoProbe, fail |-> "none",
          signalled |-> FALSE, strikes |-> 0, errors |-> FALSE,
          status |-> "running", retries |-> [s \in Stages |-> 0]]
NoStage == [pc |-> "none", stage |-> 1, probe |-> NoProbe, code |-> "ok"]

Init ==
    /\ state = [status |-> "ready_for_luna", reason |-> "none", attempt |-> 0,
                acked |-> FALSE, stage |-> 1, signalled |-> FALSE,
                retries |-> [s \in Stages |-> 0]]
    /\ stop = FALSE /\ complete = {} /\ receipt = "none"
    /\ alloc = [s \in Stages |-> 0]
    /\ attempts = 0 /\ results = [a \in 0..MaxAttempt |-> NoResult]
    /\ approved = FALSE
    /\ op = [o \in Operators |-> NoOp]
    /\ sup = NoSup /\ stg = NoStage /\ child = FALSE
-----------------------------------------------------------------------------
(* Leases, process groups and what the files say                           *)

SupAlive == sup.pc # "none"
StageAlive == stg.pc \notin {"none", "zombie"}
HoldsLease(o) == op[o].pc \notin {"idle", "pausing"}

\* Bug: the stage closes the inherited descriptor.
LeaseFree_SupervisorOnly == ~SupAlive /\ \A o \in Operators : ~HoldsLease(o)

\* _lease: an exclusive, non-blocking flock on the inherited description.
LeaseFree == ~SupAlive /\ ~StageAlive /\ \A o \in Operators : ~HoldsLease(o)

\* _residual_stage_group: an active receipt whose group still has members.
Residual == receipt = "active" /\ (stg.pc # "none" \/ child)

\* _verify_completion of the stages before s.
Finished(s) == \A t \in 1..(s - 1) : t \in complete

\* What a save of state.json leaves: status and reason, the rest as given.
Saved(s, r) == [state EXCEPT !.status = s, !.reason = r]

\* _swap_recoverable, _startup_recoverable: the failures a resume may clear.
StartupRecoverable ==
    \/ state.reason = "before_spawn"
    \/ /\ state.stage = Prepare /\ state.reason = "stage_exit_during_stop"
       /\ state.signalled /\ stop
       /\ state.attempt > 0
       /\ results[state.attempt] = [status |-> state.status,
                                    reason |-> state.reason]

\* _resume_idle_state: the state a resume or an approval may start from.
ResumeIdle ==
    /\ \/ state.status \in {"ready_for_luna", "stopped", "running"}
       \/ state.status = "needs_astra" /\ StartupRecoverable
    /\ ~Residual
-----------------------------------------------------------------------------
(* Operator commands                                                       *)

\* stop: touch STOP in the run, the data and the arena folder.
Stop == /\ stop' = TRUE
        /\ UNCHANGED <<state, complete, receipt, alloc, attempts, results,
                       approved, op, sup, stg, child>>

\* _approve_operations: under the lease, from an idle state.
Approve ==
    /\ LeaseFree /\ ResumeIdle
    /\ approved' = TRUE
    /\ UNCHANGED <<state, stop, complete, receipt, alloc, attempts, results,
                   op, sup, stg, child>>

\* start, resume and probe take the lease before they look at any file.
Begin(o, cmd, probe) ==
    /\ op[o].pc = "idle" /\ LeaseFree
    /\ op' = [op EXCEPT ![o] = [NoOp EXCEPT !.pc = "held", !.cmd = cmd,
                                            !.probe = probe]]
    /\ UNCHANGED <<files, sup, stg, child>>

\* start without the lease: a stage without its supervisor is asked to stop.
Refused(o) ==
    /\ op[o].pc = "idle" /\ ~LeaseFree
    /\ ~SupAlive /\ (StageAlive \/ child) /\ stop' = TRUE
    /\ UNCHANGED <<state, complete, receipt, alloc, attempts, results,
                   approved, op, sup, stg, child>>

Leave(o) == op' = [op EXCEPT ![o] = NoOp]
Goto(o, pc) == op' = [op EXCEPT ![o].pc = pc]

\* start: a residual group needs a review, a sticky status is only reported.
CheckStart(o) ==
    /\ op[o].pc = "held" /\ op[o].cmd = "start"
    /\ IF Residual
       THEN state' = Saved("needs_astra", "residual_group") /\ Leave(o)
       ELSE /\ state' = state
            /\ IF state.status \in Sticky THEN Leave(o) ELSE Goto(o, "clear")
    /\ UNCHANGED <<stop, complete, receipt, alloc, attempts, results,
                   approved, sup, stg, child>>

\* _resource_admission: the reasons for which a launch has to wait.
AdmissionRefusals ==
    {"resource_wait"} \union IF stop THEN {"requested_stop"} ELSE {}

\* _prepare_resume up to its verdict: refuse, block on the resources, admit.
\* A blocked resume keeps a fatal record and stops any other run.
CheckResume(o) ==
    /\ op[o].pc = "held" /\ op[o].cmd = "resume"
    /\ \/ /\ Leave(o) /\ state' = state
       \/ /\ ResumeIdle /\ approved
          /\ Leave(o)
          /\ \E r \in AdmissionRefusals :
                state' = IF state.status = "needs_astra" THEN state
                         ELSE Saved("stopped", r)
       \/ /\ ResumeIdle /\ approved /\ attempts < MaxAttempt
          /\ Goto(o, "record") /\ state' = state
    /\ UNCHANGED <<stop, complete, receipt, alloc, attempts, results,
                   approved, sup, stg, child>>

\* _prepare_resume: the attempt record, numbered after every existing one.
RecordAttempt(o) ==
    /\ op[o].pc = "record"
    /\ attempts' = attempts + 1
    /\ Goto(o, "pending")
    /\ UNCHANGED <<state, stop, complete, receipt, alloc, results, approved,
                   sup, stg, child>>

\* Bug: the pending state starts with a fresh retry budget.
SavePending_Forgets(o) ==
    /\ op[o].pc = "pending"
    /\ state' = [status |-> "running", reason |-> "startup_pending",
                 attempt |-> attempts, acked |-> FALSE, stage |-> 1,
                 signalled |-> FALSE, retries |-> NoSup.retries]
    /\ op' = [op EXCEPT ![o].pc = "clear", ![o].retries = state.retries]
    /\ UNCHANGED <<stop, complete, receipt, alloc, attempts, results,
                   approved, sup, stg, child>>

\* _prepare_resume: the pending state keeps the retries and drops the rest.
SavePending(o) ==
    /\ op[o].pc = "pending"
    /\ state' = [status |-> "running", reason |-> "startup_pending",
                 attempt |-> attempts, acked |-> FALSE, stage |-> 1,
                 signalled |-> FALSE, retries |-> state.retries]
    /\ op' = [op EXCEPT ![o].pc = "clear", ![o].retries = state.retries]
    /\ UNCHANGED <<stop, complete, receipt, alloc, attempts, results,
                   approved, sup, stg, child>>

\* _clear_stop
ClearStop(o) ==
    /\ op[o].pc = "clear"
    /\ stop' = FALSE /\ Goto(o, "spawn")
    /\ UNCHANGED <<state, complete, receipt, alloc, attempts, results,
                   approved, sup, stg, child>>

\* start: launch the supervisor with the lease; a resume waits for its answer.
Spawn(o) ==
    /\ op[o].pc = "spawn"
    /\ sup' = [NoSup EXCEPT !.pc = "boot", !.probe = op[o].probe]
    /\ state' = [state EXCEPT !.acked = FALSE]
    /\ IF op[o].cmd = "resume" THEN Goto(o, "await") ELSE Leave(o)
    /\ UNCHANGED <<stop, complete, receipt, alloc, attempts, results,
                   approved, stg, child>>

SpawnFails(o) ==
    /\ op[o].pc = "spawn"
    /\ state' = Saved("needs_astra", "before_spawn")
    /\ Leave(o)
    /\ UNCHANGED <<stop, complete, receipt, alloc, attempts, results,
                   approved, sup, stg, child>>

\* start: read the state for the new pid, then poll the child.
AwaitAck(o) ==
    /\ op[o].pc = "await"
    /\ IF state.acked THEN Leave(o) ELSE Goto(o, "poll")
    /\ UNCHANGED <<files, sup, stg, child>>

\* start: a supervisor that ended before it was seen is a failed bootstrap;
\* the state written is the launcher's own copy, from before the launch.
PollSupervisor(o) ==
    /\ op[o].pc = "poll"
    /\ IF SupAlive
       THEN state' = state /\ Goto(o, "await")
       ELSE /\ state' = [status |-> "needs_astra", reason |-> "bootstrap",
                         attempt |-> attempts, acked |-> FALSE, stage |-> 1,
                         signalled |-> FALSE, retries |-> op[o].retries]
            /\ Leave(o)
    /\ UNCHANGED <<stop, complete, receipt, alloc, attempts, results,
                   approved, sup, stg, child>>

\* start: after 30 s the live child keeps the lease and the pending attempt.
AwaitTimeout(o) == /\ op[o].pc = "await" /\ Leave(o)
                   /\ UNCHANGED <<files, sup, stg, child>>

\* pause: stop, then wait for the lease.
Pause(o) ==
    /\ op[o].pc = "idle"
    /\ stop' = TRUE
    /\ op' = [op EXCEPT ![o].pc = "pausing"]
    /\ UNCHANGED <<state, complete, receipt, alloc, attempts, results,
                   approved, sup, stg, child>>

\* pause with the lease: only a stopped run becomes ready.
FinishPause(o) ==
    /\ op[o].pc = "pausing" /\ Leave(o)
    /\ \/ state' = state    \* its deadline passed, or a file was refused
       \/ /\ LeaseFree /\ ~Residual
          /\ state.status \in {"stopped", "ready_for_luna"}
          /\ \/ state' = Saved("ready_for_luna", "requested_pause")
             \/ state' = Saved("needs_astra", "unverified")
    /\ UNCHANGED <<stop, complete, receipt, alloc, attempts, results,
                   approved, sup, stg, child>>
-----------------------------------------------------------------------------
(* The supervisor: work and _run_stage                                     *)

SupGo(pc) == sup' = [sup EXCEPT !.pc = pc]
\* The end of the stage loop: the status that the finally clause will save.
Conclude(s, r) == sup' = [sup EXCEPT !.pc = "result", !.status = s, !.fail = r]
\* What the supervisor writes while it runs.
Running(r) == [state EXCEPT !.status = "running", !.reason = r,
                            !.acked = TRUE, !.stage = sup.at,
                            !.signalled = FALSE, !.retries = sup.retries]

\* work: verify the run, refuse a residual group or a sticky status, and
\* write the first state with the supervisor's identity.
SupBoot ==
    /\ sup.pc = "boot"
    /\ \/ Residual /\ state' = Saved("needs_astra", "residual_group")
                   /\ sup' = NoSup
       \/ ~Residual /\ state.status \in Sticky
                    /\ state' = state /\ sup' = NoSup
       \/ state' = state /\ sup' = NoSup    \* the run no longer verifies
       \/ /\ ~Residual /\ state.status \notin Sticky
          /\ sup' = [sup EXCEPT !.pc = "next", !.retries = state.retries]
          /\ state' = [state EXCEPT !.status = "running", !.reason = "none",
                                    !.acked = TRUE, !.stage = 1,
                                    !.signalled = FALSE]
    /\ UNCHANGED <<stop, complete, receipt, alloc, attempts, results,
                   approved, op, stg, child>>

\* work: the head of the stage loop, and its end.
SupNext ==
    /\ sup.pc = "next"
    /\ \/ sup.at > LastStage /\ Conclude("awaiting_astra_review", "none")
       \/ sup.at <= LastStage /\ sup.probe = Generate /\ sup.at # Generate
             /\ Conclude("ready_for_luna", "probe_complete")
       \/ Conclude("needs_astra", "unverified")
       \/ /\ sup.at <= LastStage /\ (sup.probe = Generate => sup.at = Generate)
          /\ IF stop THEN Conclude("stopped", "requested_stop")
             ELSE IF sup.at \in complete
             THEN sup' = [sup EXCEPT !.at = @ + 1]
             ELSE SupGo("wait")
    /\ UNCHANGED <<files, op, stg, child>>

\* work and _wait_allocation: a task whose allocation failed waits for
\* memory, at most AllocationRetries times; after that only STOP ends it.
SupWait ==
    /\ sup.pc = "wait"
    /\ state' = Running(IF alloc[sup.at] = 0 THEN "none" ELSE "resource_wait")
    /\ \/ alloc[sup.at] = 0 /\ SupGo("launch")
       \/ alloc[sup.at] > 0 /\ ~stop /\ sup' = sup    \* it waits on
       \/ alloc[sup.at] > 0 /\ stop /\ Conclude("stopped", "requested_stop")
       \/ alloc[sup.at] \in 1..AllocationRetries /\ ~stop /\ SupGo("launch")
    /\ UNCHANGED <<stop, complete, receipt, alloc, attempts, results,
                   approved, op, stg, child>>

\* _run_stage up to the launch: a fresh sample, then the stage process.
SupLaunch ==
    /\ sup.pc = "launch"
    /\ \/ /\ sup' = [sup EXCEPT !.pc = "monitor", !.fail = "none",
                                !.strikes = 0, !.signalled = FALSE]
          /\ stg' = [NoStage EXCEPT !.pc = "boot", !.stage = sup.at,
                                    !.probe = sup.probe]
          /\ state' = Running("none")
       \/ /\ \E r \in AdmissionRefusals \union {"wall_limit"} :
                Conclude(IF r = "wall_limit" THEN "needs_astra" ELSE "stopped", r)
          /\ UNCHANGED <<state, stg>>
       \/ /\ Conclude("needs_astra", "before_spawn")
          /\ UNCHANGED <<state, stg>>
    /\ UNCHANGED <<stop, complete, receipt, alloc, attempts, results,
                   approved, op, child>>

\* _resource_condition of one sample against the one before.
Conditions == {"safe", "pressure", "critical"}

\* _progress_signature, _calendar_expired: what else ends a stage.
Limits == {"wall_limit", "no_progress"}

\* _run_stage: one turn of the monitor.  A failure asks the stage to stop.
Fails(r) == /\ sup' = [sup EXCEPT !.pc = "cleanup", !.fail = r,
                                  !.errors = @ \/ r = "supervision_error"]
            /\ stop' = TRUE

SupMonitor ==
    /\ sup.pc = "monitor"
    /\ IF stg.pc = "zombie" THEN SupGo("cleanup") /\ stop' = stop
       ELSE IF stop THEN Fails("requested_stop")
       ELSE \/ \E c \in Conditions :
                  IF c = "critical"
                     \/ (c = "pressure" /\ sup.strikes + 1 >= Sustained)
                  THEN Fails("resource_wait")
                  ELSE /\ sup' = [sup EXCEPT !.strikes =
                                    IF c = "safe" THEN 0 ELSE @ + 1]
                       /\ stop' = stop
            \/ \E r \in Limits : Fails(r)
            \/ Fails("supervision_error")
    /\ UNCHANGED <<state, complete, receipt, alloc, attempts, results,
                   approved, op, stg, child>>

\* _cleanup and _mark_group_cleaned: the group is empty before the leader is
\* reaped, by itself within the grace period or by a signal to the group.
SupCleanup ==
    /\ sup.pc = "cleanup"
    /\ \/ stg.pc = "zombie" /\ ~child /\ UNCHANGED <<stg, child>>
             /\ sup' = [sup EXCEPT !.pc = "settle"]
       \/ /\ StageAlive \/ child
          /\ stg' = IF StageAlive
                    THEN [stg EXCEPT !.pc = "zombie", !.code = "signal"]
                    ELSE stg
          /\ child' = FALSE
          /\ sup' = [sup EXCEPT !.pc = "settle", !.signalled = StageAlive]
    /\ receipt' = IF receipt = "active" THEN "cleaned" ELSE receipt
    /\ UNCHANGED <<state, stop, complete, alloc, attempts, results, approved,
                   op>>

\* _cleanup: a group that survives SIGKILL for three seconds is left as it is.
SupCleanupFails ==
    /\ sup.pc = "cleanup" /\ (StageAlive \/ child)
    /\ Conclude("needs_astra", "cleanup_error")
    /\ UNCHANGED <<files, op, stg, child>>

\* _run_stage after the reaping: the failures the exit code may turn it into.
\* A generate stage the supervisor itself signalled counts as interrupted,
\* when the snapshot of what it left verifies.
Settled ==
    LET interrupted == /\ stg.stage = Generate /\ stg.code = "signal"
                       /\ sup.signalled /\ ~sup.errors
    IN IF interrupted THEN {sup.fail, "unverified"}
       ELSE IF /\ sup.fail \in {"requested_stop", "resource_wait"}
               /\ stg.code \notin {"ok", "paused"}
       THEN {"stage_exit_during_stop"}
       ELSE IF sup.fail = "none" /\ stg.code = "paused" /\ stop
       THEN {"requested_stop"}
       ELSE {sup.fail}

\* work after _run_stage: retry a failed allocation or an outside signal,
\* stop, give up, pause for a probe, or go on to the next stage.
SupSettle ==
    /\ sup.pc = "settle"
    /\ stg' = NoStage
    /\ \E f \in Settled : LET again == [sup EXCEPT !.pc = "wait", !.fail = "none"] IN
       IF f = "none" /\ stg.code = "resource"
       THEN /\ alloc' = [alloc EXCEPT ![sup.at] = @ + 1] /\ sup' = again
       ELSE /\ alloc' = alloc
            /\ IF f = "none" /\ stg.code = "signal"
                     /\ sup.retries[sup.at] < MaxRetries
               THEN sup' = [again EXCEPT !.retries[sup.at] = @ + 1]
               ELSE IF f # "none" \/ stg.code # "ok"
               THEN Conclude(IF f \in {"requested_stop", "resource_wait"}
                             THEN "stopped" ELSE "needs_astra",
                             IF f = "none" THEN "stage_exit" ELSE f)
               ELSE IF sup.probe = sup.at /\ (sup.at = Generate
                                              \/ sup.at \notin complete)
               THEN Conclude("ready_for_luna", "probe_complete")
               ELSE IF sup.at \in complete
               THEN sup' = [sup EXCEPT !.pc = "next", !.at = @ + 1]
               ELSE Conclude("needs_astra", "unverified")
    /\ UNCHANGED <<state, stop, complete, receipt, attempts, results, approved,
                   op, child>>

\* work, finally: the attempt's result, then the state, then the lease.
SupResult ==
    /\ sup.pc = "result"
    /\ results' = IF state.attempt = 0 THEN results
                  ELSE [results EXCEPT ![state.attempt] =
                          [status |-> sup.status, reason |-> sup.fail]]
    /\ SupGo("save")
    /\ UNCHANGED <<state, stop, complete, receipt, alloc, attempts, approved,
                   op, stg, child>>

SupSave ==
    /\ sup.pc = "save"
    /\ state' = [state EXCEPT !.status = sup.status, !.reason = sup.fail,
                              !.acked = TRUE, !.retries = sup.retries,
                              !.stage = IF sup.at \in Stages THEN sup.at ELSE @,
                              !.signalled = sup.signalled]
    /\ sup' = NoSup
    /\ stg' = IF stg.pc = "zombie" THEN NoStage ELSE stg
    /\ UNCHANGED <<stop, complete, receipt, alloc, attempts, results,
                   approved, op, child>>
-----------------------------------------------------------------------------
(* The stage process: stage_run                                            *)

StageExits(code) ==
    stg' = IF SupAlive THEN [stg EXCEPT !.pc = "zombie", !.code = code]
           ELSE NoStage

\* stage_run up to the registration of its process group.
StageBoot ==
    /\ stg.pc = "boot"
    /\ \/ state.status \in Sticky /\ StageExits("error") /\ receipt' = receipt
       \/ /\ state.status \notin Sticky
          /\ IF stop THEN StageExits("paused") /\ receipt' = receipt
             ELSE IF stg.stage \in complete
             THEN StageExits("ok") /\ receipt' = receipt
             ELSE IF ~Finished(stg.stage)
             THEN StageExits("error") /\ receipt' = receipt
             ELSE /\ stg' = [stg EXCEPT !.pc = "run"] /\ receipt' = "active"
       \/ StageExits("error") /\ receipt' = receipt    \* it does not verify
    /\ UNCHANGED <<state, stop, complete, alloc, attempts, results, approved,
                   op, sup, child>>

\* The stage's own work, which may create children; it ends with a result, a
\* partial result of a probe, a pause, a failed allocation or an error.
StageWork ==
    /\ stg.pc = "run"
    /\ \/ ~child /\ child' = TRUE /\ stg' = stg
       \/ /\ ~(stg.stage = Generate /\ stg.probe = Generate)
          /\ child' = FALSE /\ stg' = [stg EXCEPT !.pc = "check"]
       \/ child' = FALSE /\ stg.probe = stg.stage /\ StageExits("ok")
       \/ child' = FALSE /\ stop /\ StageExits("paused")
       \/ child' = FALSE /\ StageExits("resource")
       \/ child' = child /\ StageExits("error")
    /\ UNCHANGED <<files, op, sup>>

\* stage_run: STOP is looked at once more before the publication.
StageCheck ==
    /\ stg.pc = "check"
    /\ IF stop THEN StageExits("paused")
       ELSE stg' = [stg EXCEPT !.pc = "publish"]
    /\ UNCHANGED <<files, op, sup, child>>

StagePublish ==
    /\ stg.pc = "publish"
    /\ complete' = complete \union {stg.stage}
    /\ StageExits("ok")
    /\ UNCHANGED <<state, stop, receipt, alloc, attempts, results, approved,
                   op, sup, child>>
-----------------------------------------------------------------------------
(* The environment                                                         *)

\* A signal from outside ends the stage; its children stay.
StageKilled == /\ StageAlive /\ StageExits("signal")
               /\ UNCHANGED <<files, op, sup, child>>

\* Orphans of a dead stage end by themselves.
ChildEnds == /\ child /\ child' = FALSE
             /\ UNCHANGED <<files, op, sup, stg>>

\* The supervisor is killed: nothing of its memory is left; init reaps.
SupKilled == /\ SupAlive /\ sup' = NoSup
             /\ stg' = IF stg.pc = "zombie" THEN NoStage ELSE stg
             /\ UNCHANGED <<files, op, child>>

\* An operator's command is interrupted, at any point, without its finally.
OperatorKilled(o) == /\ op[o].pc # "idle" /\ Leave(o)
                     /\ UNCHANGED <<files, sup, stg, child>>

\* The host fails: only files are left.
HostCrash == /\ sup' = NoSup /\ stg' = NoStage /\ child' = FALSE
             /\ op' = [o \in Operators |-> NoOp]
             /\ UNCHANGED files

Command(o) ==
    \/ \E probe \in Probes, cmd \in {"start", "resume"} :
          Begin(o, cmd, probe)
    \/ Refused(o) \/ Pause(o)
    \/ CheckStart(o) \/ CheckResume(o) \/ RecordAttempt(o) \/ SavePending(o)
    \/ ClearStop(o) \/ Spawn(o) \/ SpawnFails(o)
    \/ AwaitAck(o) \/ PollSupervisor(o) \/ AwaitTimeout(o) \/ FinishPause(o)

Supervise == SupBoot \/ SupNext \/ SupWait \/ SupLaunch \/ SupMonitor
             \/ SupCleanup \/ SupCleanupFails \/ SupSettle
             \/ SupResult \/ SupSave

RunStage == StageBoot \/ StageWork \/ StageCheck \/ StagePublish

Environment == StageKilled \/ ChildEnds \/ SupKilled \/ HostCrash
               \/ \E o \in Operators : OperatorKilled(o)

Next == Stop \/ Approve \/ (\E o \in Operators : Command(o))
        \/ Supervise \/ RunStage \/ Environment

Spec == Init /\ [][Next]_vars
-----------------------------------------------------------------------------
(* Properties                                                              *)

StageRetries == [Stages -> 0..MaxRetries]
OpPcs == {"idle", "pausing", "held", "record", "pending", "clear", "spawn",
          "await", "poll"}
SupPcs == {"none", "boot", "next", "wait", "launch", "monitor", "cleanup",
           "settle", "result", "save"}
StagePcs == {"none", "boot", "run", "check", "publish", "zombie"}

RunRecords ==
    [status : Statuses, reason : Reasons, attempt : 0..MaxAttempt,
     acked : BOOLEAN, stage : Stages, signalled : BOOLEAN,
     retries : StageRetries]
ResultRecords == [status : Statuses \union {"none"}, reason : Reasons]
Commands ==
    [pc : OpPcs, cmd : {"start", "resume"}, probe : Probes,
     retries : StageRetries]
Supervisors ==
    [pc : SupPcs, at : 1..LastStage + 1, probe : Probes, fail : Reasons,
     signalled : BOOLEAN, strikes : 0..Sustained, errors : BOOLEAN,
     status : Statuses, retries : StageRetries]
StageProcesses ==
    [pc : StagePcs, stage : Stages, probe : Probes, code : Codes]

TypeOK ==
    /\ state \in RunRecords
    /\ stop \in BOOLEAN /\ complete \in SUBSET Stages
    /\ receipt \in {"none", "active", "cleaned"}
    /\ alloc \in [Stages -> 0..AllocationRetries + 1]
    /\ attempts \in 0..MaxAttempt /\ approved \in BOOLEAN
    /\ results \in [0..MaxAttempt -> ResultRecords]
    /\ op \in [Operators -> Commands]
    /\ sup \in Supervisors /\ stg \in StageProcesses
    /\ child \in BOOLEAN

(* One writer tree: when a launcher is past its checks, no supervisor and  *)
(* no stage of an earlier launch lives, and nothing is left in a stage     *)
(* group; two launchers never get there together.                          *)
OneWriter ==
    \A o \in Operators : op[o].pc \in {"record", "pending", "clear", "spawn"} =>
        /\ ~SupAlive /\ stg.pc = "none" /\ ~child
        /\ \A p \in Operators \ {o} : ~HoldsLease(p)

(* A run recorded as idle is quiet: no stage process and no child of one   *)
(* survives the stop, pause, probe or completion the record speaks of.     *)
IdleIsQuiet ==
    state.status \in {"stopped", "ready_for_luna", "awaiting_astra_review"}
        => stg.pc = "none" /\ ~child

(* Receipts are published in stage order, whatever dies in between, and    *)
(* the run only awaits its review with all of them.                        *)
CompletedInOrder ==
    /\ \A s \in complete : Finished(s)
    /\ state.status = "awaiting_astra_review" => complete = Stages

(* Automatic retries of a failed allocation are finite across supervisors, *)
(* operators and crashes: a task whose retries are used up is not started. *)
AllocationIsFinite ==
    StageAlive => alloc[stg.stage] <= AllocationRetries

(* An attempt named by the state has its record, and only the running      *)
(* attempt can still change its result.                                    *)
AttemptIsRecorded ==
    /\ state.attempt <= attempts
    /\ \A a \in (state.attempt + 1)..attempts : results[a] = NoResult

(* The processes of a run and what it records of them agree at every        *)
(* instant (evaluator_run.py).                                             *)
WritersAreSound ==
    TypeOK /\ OneWriter /\ IdleIsQuiet /\ CompletedInOrder /\ AllocationIsFinite /\ AttemptIsRecorded

(* STOP stays until every writer that has to see it has ended.             *)
StopStays == [][stop /\ (SupAlive \/ StageAlive) => stop']_vars

(* The launcher's read of the state and its poll of the child are two      *)
(* steps: a supervisor that starts and ends between them is overwritten.   *)
LauncherOverwrites ==
    \E o \in Operators : op[o].pc = "poll" /\ op'[o].pc = "idle"

(* A recorded failure is only cleared by a resume that may clear it, and   *)
(* a finished run keeps waiting for its review.                            *)
FailuresAreSticky ==
    [][~LauncherOverwrites =>
        /\ state.status = "needs_astra" /\ state'.status # "needs_astra"
             => StartupRecoverable /\ state'.reason = "startup_pending"
        /\ state.status = "awaiting_astra_review"
             => state'.status = "awaiting_astra_review"]_vars

(* The retry budget of a stage is never given back, by no crash and by no  *)
(* later supervisor.                                                       *)
RetriesAreSpent ==
    [][~LauncherOverwrites =>
        \A s \in Stages : state'.retries[s] >= state.retries[s]]_vars

(* No step takes back a stop that is not yet obeyed, a failure that needs   *)
(* its review, or a retry that was spent (evaluator_run.py).               *)
NothingIsTakenBack == StopStays /\ FailuresAreSticky /\ RetriesAreSpent
=============================================================================
