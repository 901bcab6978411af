--------------------------- MODULE PairedExecution --------------------------
(***************************************************************************)
(* execute_paired_plan (selfplay/execution.py): the jobs of a self-play or *)
(* arena plan run in batches of worker threads.  Each attempt is journaled *)
(* in the state file, runs one engine, and leaves a command receipt, a     *)
(* quarantine record if it failed, and its evidence; the state file then   *)
(* takes the outcome, and a manifest is published when every job is done.  *)
(* The coordinator may be killed at any step, with or without its engines, *)
(* and is invoked again.  The directory lock of the state file admits one  *)
(* coordinator at a time, so that the revision check never fails and is    *)
(* left out, as are the logs, for which each process finds a fresh name.   *)
(***************************************************************************)
EXTENDS Naturals, Sequences, FiniteSets

CONSTANTS
    JobCount,       \* jobs of the plan
    Workers,        \* maxWorkers
    MaxAttempts,    \* retry limit of a job (100)
    MaxFaults       \* bound: deaths of the coordinator and changes of an input

ASSUME ExecutionAssumption ==
    /\ {JobCount, Workers, MaxAttempts} \subseteq Nat \ {0}
    /\ MaxFaults \in Nat

Jobs == 1..JobCount
Attempts == Jobs \X (1..MaxAttempts)
\* What a command may end in; the three limits (time, memory, output) take
\* precedence over the exit code, and share one value here.
Results == {"ok", "limit", "nonzero_exit"}
Failures == {"limit", "nonzero_exit", "missing_or_invalid_artifact"}
Settled == Failures \union {"completed"}
Terminal == {"completed", "completed_with_quarantine"}
None == [resume |-> FALSE, result |-> "none"]

VARIABLES
    state,       \* the job state file: status and the attempts of each job
    receipt,     \* attempt-NNN.receipt.json by attempt
    quarantine,  \* attempts with a quarantine record
    evidence,    \* attempt-NNN.evidence.json by attempt
    output,      \* by job: the arena directory, and whether its report is valid
    orphan,      \* by job: the engine a dead coordinator left behind
    manifest,    \* attempts of the published manifest
    approved,    \* the inputs are the ones the plan names
    main,        \* the coordinator's main thread
    thread,      \* by job: the worker thread and its engine
    faults       \* how many there were

files == <<state, receipt, quarantine, evidence, manifest>>
world == <<output, orphan, approved, faults>>
vars == <<files, world, main, thread>>

Off == [pc |-> "off", n |-> 1, resume |-> FALSE, result |-> "none"]
Idle == [pc |-> "idle", attempts |-> [j \in Jobs |-> <<>>], pending |-> {},
         batch |-> {}, loaded |-> "absent", worked |-> FALSE, failed |-> FALSE]
NoAttempts == [j \in Jobs |-> <<>>]

Init ==
    /\ state = [status |-> "absent", attempts |-> NoAttempts]
    /\ receipt = [a \in Attempts |-> None]
    /\ quarantine = {}
    /\ evidence = [a \in Attempts |-> "none"]
    /\ output = [j \in Jobs |-> [dir |-> "none", report |-> FALSE]]
    /\ orphan = [j \in Jobs |-> "none"]
    /\ manifest = NoAttempts
    /\ approved = TRUE
    /\ main = Idle
    /\ thread = [j \in Jobs |-> Off]
    /\ faults = 0
-----------------------------------------------------------------------------
(* The journal                                                             *)

Latest(attempts, j) == attempts[j][Len(attempts[j])]
Fresh(attempts, j) == attempts[j] = <<>>

\* _validate_attempt_records: attempts are contiguous, only quarantined ones
\* precede the last, and each settled one repeats its evidence, which stands
\* on a receipt and on a report or a quarantine record.  A quarantine record
\* that no evidence refers to is not looked at.
ReportIsValid(j) == output[j].report
EvidenceStands(j, n) ==
    /\ receipt[<<j, n>>] # None
    /\ IF evidence[<<j, n>>] = "completed" THEN ReportIsValid(j)
                                      ELSE <<j, n>> \in quarantine
RecordIsValid(attempts, j, n) ==
    LET status == attempts[j][n] IN
    /\ n < Len(attempts[j]) => status \in Failures
    /\ status # "running" => evidence[<<j, n>>] = status /\ EvidenceStands(j, n)
RecordsAreValid(attempts) ==
    \A j \in Jobs : \A n \in DOMAIN attempts[j] : RecordIsValid(attempts, j, n)

Save(status, attempts) ==
    state' = [status |-> status, attempts |-> attempts]

\* An unfinished attempt is taken up again under its own number; a failed one
\* is only retried on request, as a new attempt.
Pending(attempts, retry) ==
    {j \in Jobs : \/ Fresh(attempts, j)
                  \/ Latest(attempts, j) = "running"
                  \/ retry /\ Latest(attempts, j) \in Failures}
IsExhausted(attempts, retry) ==
    \E j \in Pending(attempts, retry) :
        /\ Len(attempts[j]) = MaxAttempts
        /\ Latest(attempts, j) # "running"

\* What a plan names by its digest is what is on disk: the champion, the starts and
\* the configuration when it is invoked, the runtime of the engine when a job runs.
PlanHolds == approved
RuntimeHolds == approved

\* The plan and its inputs are validated, the journal is read and validated.
Invoke ==
    /\ main.pc = "idle" /\ PlanHolds /\ RecordsAreValid(state.attempts)
    /\ \E retry \in BOOLEAN :
          LET todo == Pending(state.attempts, retry) IN
          /\ ~IsExhausted(state.attempts, retry)
          /\ main' = [Idle EXCEPT !.pc = "batch", !.attempts = state.attempts,
                         !.pending = todo, !.loaded = state.status,
                         !.worked = todo # {}]
          /\ IF todo # {} \/ state.status \notin Terminal
             THEN Save("running", state.attempts) ELSE state' = state
    /\ UNCHANGED <<receipt, quarantine, evidence, manifest, world, thread>>

\* Jobs are taken in the order of the plan.
FirstOf(S, k) == {j \in S : Cardinality({i \in S : i < j}) < k}
Journaled(attempts, batch) ==
    [j \in Jobs |->
        IF j \in batch /\ (Fresh(attempts, j) \/ Latest(attempts, j) # "running")
        THEN Append(attempts[j], "running") ELSE attempts[j]]

\* A batch is journaled before its threads are started.
NextBatch ==
    /\ main.pc = "batch" /\ main.pending # {}
    /\ LET batch == FirstOf(main.pending, Workers)
           attempts == Journaled(main.attempts, batch) IN
       /\ Save("running", attempts)
       /\ main' = [main EXCEPT !.pc = "gather", !.attempts = attempts,
                               !.batch = batch, !.pending = @ \ batch]
       /\ thread' = [j \in Jobs |->
             IF j \in batch THEN [Off EXCEPT !.pc = "start", !.n = Len(attempts[j])]
             ELSE thread[j]]
    /\ UNCHANGED <<receipt, quarantine, evidence, manifest, world>>

\* as_completed: an outcome is saved as it arrives, in any order.
Gather(j) ==
    /\ main.pc = "gather" /\ j \in main.batch /\ thread[j].pc = "done"
    /\ LET attempts == [main.attempts EXCEPT ![j][thread[j].n] = thread[j].result]
       IN /\ Save("running", attempts)
          /\ main' = [main EXCEPT !.attempts = attempts, !.batch = @ \ {j}]
    /\ thread' = [thread EXCEPT ![j] = Off]
    /\ UNCHANGED <<receipt, quarantine, evidence, manifest, world>>

GatherError(j) ==
    /\ main.pc = "gather" /\ j \in main.batch /\ thread[j].pc = "error"
    /\ main' = [main EXCEPT !.batch = @ \ {j}, !.failed = TRUE]
    /\ thread' = [thread EXCEPT ![j] = Off]
    /\ UNCHANGED <<files, world>>

\* Bug: a failed batch is taken up again by the same invocation.
EndBatch_Repeats ==
    /\ main.pc = "gather" /\ main.batch = {}
    /\ main' = [main EXCEPT !.pc = "batch", !.failed = FALSE,
          !.pending = IF main.failed THEN Pending(main.attempts, FALSE) ELSE @]
    /\ UNCHANGED <<files, world, thread>>
\* One error ends the invocation once its batch is in.
EndBatch ==
    /\ main.pc = "gather" /\ main.batch = {}
    /\ IF main.failed THEN Save("interrupted", main.attempts) /\ main' = Idle
       ELSE state' = state /\ main' = [main EXCEPT !.pc = "batch"]
    /\ UNCHANGED <<receipt, quarantine, evidence, manifest, world, thread>>

FinalStatus(attempts) ==
    IF \A j \in Jobs : Latest(attempts, j) = "completed"
    THEN "completed" ELSE "completed_with_quarantine"

Finish ==
    /\ main.pc = "batch" /\ main.pending = {}
    /\ LET final == FinalStatus(main.attempts) IN
       /\ IF main.worked \/ main.loaded # final
          THEN Save(final, main.attempts) ELSE state' = state
       /\ main' = IF final = "completed" THEN [main EXCEPT !.pc = "publish"]
                  ELSE Idle
    /\ UNCHANGED <<receipt, quarantine, evidence, manifest, world, thread>>

\* The manifest is written once; a resumed invocation must agree with it.
Publish ==
    /\ main.pc = "publish"
    /\ manifest' = IF manifest = NoAttempts THEN main.attempts ELSE manifest
    /\ main' = Idle
    /\ UNCHANGED <<state, receipt, quarantine, evidence, world, thread>>
-----------------------------------------------------------------------------
(* _execute_job in a worker thread, and CommandRunner.run with its engine  *)

Set(j, pc) == thread' = [thread EXCEPT ![j].pc = pc]
Ends(j, result) ==
    thread' = [thread EXCEPT ![j].pc = "exit", ![j].result = result]

SameInvocation(j, n, resume) == receipt[<<j, n>>].resume = resume

\* Evidence of the attempt is its outcome.  Otherwise the planned engine must be
\* there, and a receipt is used in place of a run when it records the same
\* invocation, whether to resume included.
Start(j) ==
    /\ thread[j].pc = "start"
    /\ LET n == thread[j].n
           resume == output[j].dir = "state" IN
       thread' = [thread EXCEPT ![j] =
          IF evidence[<<j, n>>] # "none"
          THEN [@ EXCEPT !.pc = "done", !.result = evidence[<<j, n>>]]
          ELSE IF ~RuntimeHolds \/ (receipt[<<j, n>>] # None /\ ~SameInvocation(j, n, resume))
          THEN [@ EXCEPT !.pc = "error"]
          ELSE IF receipt[<<j, n>>] # None
          THEN [@ EXCEPT !.pc = "classify", !.result = receipt[<<j, n>>].result]
          ELSE [@ EXCEPT !.pc = "boot", !.resume = resume]]
    /\ UNCHANGED <<files, world, main>>

Locked == {"mkdir", "play"}     \* an engine that holds its output directory

\* prepare_output_directory: the lock, then an empty directory or --resume.
Boot(j) ==
    /\ thread[j].pc = "boot"
    /\ IF orphan[j] \in Locked \/ (~thread[j].resume /\ output[j].dir # "none")
       THEN Ends(j, "nonzero_exit") /\ UNCHANGED output
       ELSE IF thread[j].resume THEN Set(j, "play") /\ UNCHANGED output
       ELSE Set(j, "mkdir") /\ output' = [output EXCEPT ![j].dir = "games"]
    /\ UNCHANGED <<files, orphan, approved, faults, main>>

WriteArenaState(j) ==
    /\ thread[j].pc = "mkdir"
    /\ output' = [output EXCEPT ![j].dir = "state"] /\ Set(j, "play")
    /\ UNCHANGED <<files, orphan, approved, faults, main>>

\* The engine ends; a complete report is left as it is.
Play(j) ==
    /\ thread[j].pc = "play"
    /\ \/ /\ \E valid \in BOOLEAN :
                output' = [output EXCEPT ![j].report = @ \/ valid]
          /\ Ends(j, "ok")
       \/ Ends(j, "nonzero_exit") /\ UNCHANGED output
    /\ UNCHANGED <<files, orphan, approved, faults, main>>

\* _run_bounded_process: a limit is passed and the process tree is stopped.
Limit(j) ==
    /\ thread[j].pc \in {"boot", "mkdir", "play"}
    /\ Ends(j, "limit")
    /\ UNCHANGED <<files, world, main>>

\* The inputs are checked once more before the receipt is written.
WriteReceipt(j) ==
    /\ thread[j].pc = "exit"
    /\ IF ~RuntimeHolds THEN Set(j, "error") /\ UNCHANGED receipt
       ELSE /\ receipt' = [receipt EXCEPT ![<<j, thread[j].n>>] =
                  [resume |-> thread[j].resume, result |-> thread[j].result]]
            /\ Set(j, "classify")
    /\ UNCHANGED <<state, quarantine, evidence, manifest, world, main>>

\* Bug: an exit code of zero is taken for a completed job.
Outcome_TrustsExit(j) ==
    IF thread[j].result # "ok" THEN thread[j].result ELSE "completed"
\* A command that ended well must also have left a valid report.
Outcome(j) ==
    IF thread[j].result # "ok" THEN thread[j].result
    ELSE IF ReportIsValid(j) THEN "completed" ELSE "missing_or_invalid_artifact"

Classify(j) ==
    /\ thread[j].pc = "classify"
    /\ thread' = [thread EXCEPT ![j].pc = "evidence", ![j].result = Outcome(j)]
    /\ quarantine' = IF Outcome(j) = "completed" THEN quarantine
                     ELSE quarantine \union {<<j, thread[j].n>>}
    /\ UNCHANGED <<state, receipt, evidence, manifest, world, main>>

WriteEvidence(j) ==
    /\ thread[j].pc = "evidence"
    /\ evidence' = [evidence EXCEPT ![<<j, thread[j].n>>] = thread[j].result]
    /\ Set(j, "done")
    /\ UNCHANGED <<state, receipt, quarantine, manifest, world, main>>
-----------------------------------------------------------------------------
(* The environment                                                         *)

\* An engine that was not given --resume boots, one that was resumes.
Engines == {"boot", "resume", "mkdir", "play"}
LeftBehind(j) ==
    IF thread[j].pc \in Locked THEN thread[j].pc
    ELSE IF orphan[j] # "none" \/ thread[j].pc # "boot" THEN orphan[j]
    ELSE IF thread[j].resume THEN "resume" ELSE "boot"

\* The coordinator is killed; its engines go on, or die with the machine.
Crash ==
    /\ main.pc # "idle" /\ faults < MaxFaults
    /\ faults' = faults + 1
    /\ main' = Idle /\ thread' = [j \in Jobs |-> Off]
    /\ \/ orphan' = [j \in Jobs |-> LeftBehind(j)]
       \/ orphan' = [j \in Jobs |-> "none"]
    /\ UNCHANGED <<files, output, approved>>

\* The engine left behind goes on: like Boot, WriteArenaState and Play.
OrphanRuns(j) ==
    /\ \/ /\ orphan[j] = "boot"
          /\ IF thread[j].pc \in Locked \/ output[j].dir # "none"
             THEN orphan' = [orphan EXCEPT ![j] = "none"] /\ UNCHANGED output
             ELSE /\ orphan' = [orphan EXCEPT ![j] = "mkdir"]
                  /\ output' = [output EXCEPT ![j].dir = "games"]
       \/ /\ orphan[j] = "resume" /\ UNCHANGED output
          /\ orphan' = [orphan EXCEPT ![j] =
                           IF thread[j].pc \in Locked THEN "none" ELSE "play"]
       \/ /\ orphan[j] = "mkdir"
          /\ orphan' = [orphan EXCEPT ![j] = "play"]
          /\ output' = [output EXCEPT ![j].dir = "state"]
       \/ /\ orphan[j] = "play"
          /\ orphan' = [orphan EXCEPT ![j] = "none"]
          /\ \E valid \in BOOLEAN :
                output' = [output EXCEPT ![j].report = @ \/ valid]
    /\ UNCHANGED <<files, approved, faults, main, thread>>

\* A planned input is replaced, and put back.
Drift ==
    /\ approved /\ faults < MaxFaults
    /\ approved' = FALSE /\ faults' = faults + 1
    /\ UNCHANGED <<files, output, orphan, main, thread>>
Restore ==
    /\ ~approved /\ approved' = TRUE
    /\ UNCHANGED <<files, output, orphan, faults, main, thread>>

Worker(j) == Start(j) \/ Boot(j) \/ WriteArenaState(j) \/ Play(j) \/ Limit(j)
             \/ WriteReceipt(j) \/ Classify(j) \/ WriteEvidence(j)
Main == NextBatch \/ EndBatch \/ Finish \/ Publish
        \/ \E j \in Jobs : Gather(j) \/ GatherError(j)
Coordinator == Main \/ \E j \in Jobs : Worker(j)

Next == Invoke \/ Coordinator \/ Crash \/ Drift \/ Restore \/ \E j \in Jobs : OrphanRuns(j)
Spec == Init /\ [][Next]_vars /\ WF_vars(Coordinator)
-----------------------------------------------------------------------------
(* Properties                                                              *)

Records == {"running"} \union Settled
TypeOK ==
    /\ state \in [status : {"absent", "running", "interrupted"} \union Terminal,
                  attempts : [Jobs -> Seq(Records)]]
    /\ receipt \in [Attempts -> [resume : BOOLEAN, result : Results \union {"none"}]]
    /\ quarantine \subseteq Attempts
    /\ evidence \in [Attempts -> Settled \union {"none"}]
    /\ output \in [Jobs -> [dir : {"none", "games", "state"}, report : BOOLEAN]]
    /\ orphan \in [Jobs -> Engines \union {"none"}]
    /\ manifest \in [Jobs -> Seq(Records)]
    /\ approved \in BOOLEAN
    /\ main.pc \in {"idle", "batch", "gather", "publish"}
    /\ main.attempts \in [Jobs -> Seq(Records)]
    /\ main.pending \subseteq Jobs /\ main.batch \subseteq Jobs
    /\ \A j \in Jobs : thread[j].n \in 1..MaxAttempts

(* The state file can be read again after a crash at any step: what it     *)
(* records is always backed by the evidence, receipts and quarantine       *)
(* records on disk (_validate_attempt_records).                            *)
StateLoads == RecordsAreValid(state.attempts)

(* No engine runs, and nothing is written about an attempt, unless the     *)
(* state file records that attempt.                                        *)
AttemptsAreJournaled ==
    \A j \in Jobs :
        /\ thread[j].pc # "off" => /\ thread[j].n = Len(state.attempts[j])
                                   /\ Latest(state.attempts, j) = "running"
        /\ orphan[j] # "none" => ~Fresh(state.attempts, j)
        /\ \A n \in 1..MaxAttempts :
              receipt[<<j, n>>] # None => n \in DOMAIN state.attempts[j]

(* A published manifest agrees with the state file for good: every job has *)
(* ended well, and no later invocation adds an attempt.                    *)
ManifestIsFinal ==
    manifest # NoAttempts =>
        /\ manifest = state.attempts
        /\ \A j \in Jobs : Latest(manifest, j) = "completed"

(* A settled attempt is never changed or dropped by a later batch, an      *)
(* interrupted one or another invocation.                                  *)
SettledStays ==
    \A j \in Jobs : \A n \in DOMAIN state.attempts[j] :
        state.attempts[j][n] \in Settled =>
            /\ n \in DOMAIN state'.attempts[j]
            /\ state'.attempts[j][n] = state.attempts[j][n]
(* What has been run is not run again: no engine starts for an attempt     *)
(* whose receipt or evidence is on disk, and neither is ever replaced.     *)
NeverRunTwice ==
    /\ \A j \in Jobs : LET n == thread[j].n IN
          thread[j].pc # "boot" /\ thread'[j].pc = "boot" =>
              receipt[<<j, n>>] = None /\ evidence[<<j, n>>] = "none"
    /\ \A a \in Attempts :
          /\ receipt[a] # None => receipt'[a] = receipt[a]
          /\ evidence[a] # "none" => evidence'[a] = evidence[a]
(* Both, at every step: crashes, retries and reruns only ever add to the   *)
(* history of the attempts (validate_execution_manifest relies on it).     *)
HistoryIsKept == [][SettledStays /\ NeverRunTwice]_vars

(* The state file, the evidence on disk, the running engines and the        *)
(* manifest agree over crashes, and their history only grows               *)
(* (selfplay/execution.py).                                                *)
ExecutionIsSound ==
    [](TypeOK /\ StateLoads /\ AttemptsAreJournaled /\ ManifestIsFinal) /\ HistoryIsKept

(* Every invocation ends, with errors, limits and retries.                 *)
InvocationEnds == main.pc # "idle" ~> main.pc = "idle"
=============================================================================
