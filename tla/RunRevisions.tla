---------------------------- MODULE RunRevisions ----------------------------
(***************************************************************************)
(* What the results of a sealed evaluator run rest on (evaluator_run.py):  *)
(* the code a run may execute under after its seal (approve-operations,    *)
(* verify), the data and budgets a resume takes over from the attempt      *)
(* before it, the failures a person reviewed, and the artifacts from which *)
(* the final review is drawn.  Commands and stages are single steps here;  *)
(* EvaluatorRun has their interleavings, leases and signals.               *)
(*                                                                         *)
(* A "recovery" run generates games, trains, audits and plays an arena; it *)
(* inherits the games of its parent.  A "c4" run has one stage, iterate.   *)
(***************************************************************************)
EXTENDS Naturals, FiniteSets, Sequences

CONSTANTS
    RunGames,     \* the games of the generation plan
    Inherited,    \* the games imported from the parent run
    RunKinds,     \* the kinds of run considered
    Edited,       \* the classes of files somebody may edit
    Budget,       \* the reviewed number of hard searches
    MaxEdits,     \* bound: edits of the working tree
    MaxLaunches,  \* bound: supervisors launched
    MaxFaults     \* bound: files changed or lost behind the run's back

ASSUME RevisionAssumption ==
    /\ IsFiniteSet(RunGames) /\ Inherited \subseteq RunGames
    /\ Budget \in Nat /\ MaxEdits \in Nat /\ MaxFaults \in Nat

\* One file of each class: the runner, the data pipeline, the arena, the
\* teacher client, the engine, and the source configuration, whose version 1
\* differs in its operations only and version 2 in the experiment.
CodeFiles == {"runner", "data", "arena", "teacher", "engine", "config"}
Versions(f) == IF f = "config" THEN 0..2 ELSE 0..1
Sealed == [f \in CodeFiles |-> 0]

VARIABLES
    config,     \* run.json: the kind of run and its hard-search budget
    wt,         \* the working tree, a version of every file
    committed,  \* the committed tree
    st,         \* state.json
    supervised, \* whether a supervisor runs
    games,      \* games with a shard and a receipt
    progress,   \* generation-progress.json: the number of games
    spent,      \* the ledger's counters
    accepted,   \* the ledger's accepted tasks
    migrated,   \* migration.json
    admission,  \* data/admission.json and the snapshot it binds
    failure,    \* the failure copied to post-training-evidence/teacher-recovery
    approval,   \* the revision approved-operation.json points to
    resumes,    \* attempts/NNNNNN.json with their pause records
    completions,   \* <stage>-complete.json: what the receipt binds
    fit,        \* fit/: the model and the identity it was trained under
    proof,      \* the models the audit, the metrics and the arena are about
    review,     \* candidate-review.json
    used,       \* the trees each kind of work was done under
    edits, faults

trees == <<wt, committed, edits>>
consumption == <<games, progress, spent, accepted>>
permits == <<admission, failure, approval>>
outcomes == <<completions, fit, proof, review>>
revisionVars == <<config, trees, st, supervised, consumption, migrated, permits,
                  resumes, outcomes, used, faults>>

StageOrder == IF config.kind = "c4" THEN <<"iterate">>
          ELSE <<"generate", "train", "audit", "arena">>
StageNames == {"generate", "train", "audit", "arena", "iterate"}

\* The hash of a state names it; "launch" stands for its process identities.
Name(s) == [launch |-> s.launch, status |-> s.status, stage |-> s.stage,
            reason |-> s.reason]
NoName == [launch |-> 0, status |-> "none", stage |-> "none", reason |-> "none"]
NoRevision == [named |-> FALSE, tree |-> Sealed, admitted |-> FALSE, review |-> NoName]
NoModel == [games |-> {}, altered |-> FALSE, step |-> 0]
NoReview == [candidate |-> NoModel, made |-> FALSE]
Snap == [games |-> games, spent |-> spent, accepted |-> accepted]
NoAdmission == [name |-> NoName, snap |-> [games |-> {}, spent |-> 0, accepted |-> 0]]

\* The contracts an operator may try to seal; a budget above the reviewed one,
\* or a C4 run without its iteration policy, is refused.
Contracts == [kind : RunKinds, budget : {Budget, Budget + 1}, iteration : BOOLEAN]

\* The identity, the round, the generation and the reviewed budgets.
BudgetsHold(c) == c.budget = Budget

\* The training, resource and evaluation plans and the C4 iteration.
PlansHold(c) == c.iteration <=> c.kind = "c4"

RevisionsInit ==
    /\ config \in {c \in Contracts : BudgetsHold(c) /\ PlansHold(c)}
    /\ wt = Sealed /\ committed = Sealed /\ edits = 0 /\ faults = 0
    /\ st = [status |-> "ready", reason |-> "none", stage |-> "none",
             launch |-> 0, attempt |-> 0, rev |-> NoRevision]
    /\ supervised = FALSE
    /\ games = {} /\ progress = 0 /\ spent = 0 /\ accepted = 0
    /\ migrated = FALSE
    /\ admission = NoAdmission /\ failure = NoName /\ approval = NoRevision
    /\ resumes = <<>>
    /\ completions = [s \in StageNames |-> {}]
    /\ fit = [model |-> NoModel, rev |-> NoRevision]
    /\ proof = [s \in {"audit", "arena"} |-> NoModel]
    /\ review = NoReview
    /\ used = {}

-----------------------------------------------------------------------------
(* The code a run may execute under.                                       *)

\* The files a revision may change, by what it was approved for.
AllowedFiles(rev) ==
    {"runner", "config"}
        \union (IF rev.review # NoName /\ config.kind = "c4" THEN {"teacher"} ELSE {})
        \union (IF rev.review # NoName /\ config.kind = "recovery"
                THEN {"data", "arena"} ELSE {})
        \union (IF rev.admitted THEN {"data"} ELSE {})

Changed(tree) == {f \in CodeFiles : tree[f] # 0}

\* _operation_code: the revision names allowed files, the experiment's
\* conditions are the sealed ones, and the admission it cites is still there.
RevisionHolds(rev) ==
    /\ Changed(rev.tree) \subseteq AllowedFiles(rev)
    /\ rev.tree["config"] # 2
    /\ rev.admitted => admission.name # NoName
    /\ rev.review # NoName => failure = rev.review

\* verify: every file of the working tree is the sealed or the revised one.
CodeHolds(rev) == RevisionHolds(rev) /\ wt = rev.tree

\* _code_identity: nothing uncommitted.
Clean == wt = committed

Edit(f) ==
    /\ edits < MaxEdits /\ edits' = edits + 1
    /\ \E v \in Versions(f) \ {wt[f]} : wt' = [wt EXCEPT ![f] = v]
    /\ UNCHANGED <<config, committed, st, supervised, consumption, migrated,
                   permits, resumes, outcomes, used, faults>>

Commit ==
    /\ ~Clean /\ committed' = wt
    /\ UNCHANGED <<config, wt, edits, st, supervised, consumption, migrated,
                   permits, resumes, outcomes, used, faults>>

-----------------------------------------------------------------------------
(* What a resume checks.                                                   *)

MigrationHolds == config.kind = "recovery" => migrated

\* snapshot (r4_c4.py): what an attempt before listed is there, and no counter
\* of its ledgers went back.
Retained(before) ==
    before.games \subseteq games /\ before.spent <= spent /\ before.accepted <= accepted

\* _resume_snapshot: nothing an earlier attempt retained is
\* missing, and no counter went back.
SnapshotHolds ==
    /\ config.kind = "recovery" => Inherited \subseteq games
    /\ Cardinality(games) >= progress
    /\ st.attempt > 0 => Retained(resumes[st.attempt].snap)

\* _swap_recoverable and _startup_recoverable.
SwapRecoverable == st.reason = "swap"

\* _reviewed_generation_failure: the admission names exactly this state.
GenerationReviewed == admission.name = Name(st)

\* _reviewed_post_training_failure: the review names exactly this state.
PostTrainingReviewed(rev) == config.kind = "recovery" /\ rev.review = Name(st)

\* Bug: a review in force clears every later failure.
TeacherReviewed_ByPolicy(rev) == config.kind = "c4" /\ rev.review # NoName

\* _reviewed_c4_teacher_failure, likewise.
TeacherReviewed(rev) == config.kind = "c4" /\ rev.review = Name(st)

\* _resume_idle_state.
IdleUnder(rev) ==
    /\ ~supervised
    /\ \/ st.status \in {"ready", "stopped", "running"}
       \/ /\ st.status = "needs_astra"
          /\ \/ SwapRecoverable \/ GenerationReviewed
             \/ PostTrainingReviewed(rev) \/ TeacherReviewed(rev)

\* _dataset: the dataset is derived again from the games, and must be the one
\* the model was fitted on.
DatasetHolds == fit.model.games = games

\* _training_summary: the model is the one training named, under the identity
\* it was trained with (_training_identity).
TrainingHolds(rev) ==
    /\ fit.model.step > 0 /\ ~fit.model.altered
    /\ DatasetHolds
    /\ rev.admitted /\ rev.review = NoName => fit.rev = st.rev

\* _audit_report: the audit is about the model on disk.
AuditHolds == proof["audit"] = fit.model

\* verify_results: the selected model is the one reported.
IterationArtifacts == {fit.model}

\* _completion_artifacts: what a stage's receipt binds.
Artifacts(s) ==
    CASE s = "generate" -> {games}
      [] s = "train" -> {fit.model}
      [] s = "audit" -> {proof["audit"]}
      [] s = "arena" -> {proof["arena"]}
      [] s = "iterate" -> IterationArtifacts

\* _verify_completion, with the earlier stages' checks it repeats.
CompletionHolds(s, rev) ==
    /\ completions[s] = Artifacts(s)
    /\ s \in {"train", "audit", "arena"} => TrainingHolds(rev)
    /\ s \in {"audit", "arena"} => AuditHolds

CompletionsHold(rev) ==
    \A s \in StageNames : completions[s] # {} => CompletionHolds(s, rev)

\* The revision a resume goes by; a c4 run needs none.
Approved == approval.named \/ config.kind = "c4"

\* _finalize_existing_generation refuses data that changed since the admission.
FinalizeHolds(rev) ==
    rev.admitted /\ completions["generate"] = {} => Snap = admission.snap

\* _prepare_resume up to the resource admission.
ResumePasses ==
    /\ IdleUnder(approval) /\ Approved
    /\ CodeHolds(approval) /\ Clean
    /\ MigrationHolds /\ SnapshotHolds
    /\ FinalizeHolds(approval) /\ CompletionsHold(approval)

\* diagnose: the checks that all pass in an "eligible" report.
Eligible ==
    /\ IdleUnder(approval) /\ approval.named
    /\ CodeHolds(approval) /\ Clean
    /\ MigrationHolds /\ SnapshotHolds /\ CompletionsHold(approval)

-----------------------------------------------------------------------------
(* Commands.                                                               *)

\* migrate: import the parent's games and its consumed attempts once.
Migrate ==
    /\ config.kind = "recovery" /\ ~migrated /\ ~supervised
    /\ st.status = "ready" /\ CodeHolds(st.rev)
    /\ migrated' = TRUE /\ games' = Inherited
    /\ spent' = IF Budget > 0 THEN 1 ELSE 0
    /\ accepted' = Cardinality(Inherited)
    /\ UNCHANGED <<config, trees, st, supervised, progress, permits, resumes,
                   outcomes, used, faults>>

\* The state a supervisor starts from.
Launched(rev, attempt) ==
    [status |-> "running", reason |-> "none", stage |-> "none",
     launch |-> st.launch + 1, attempt |-> attempt, rev |-> rev]

\* start: no approval and no snapshot, only the seal and the code.  A round has
\* a resource policy, so its supervisor fails without an attempt record.
StartRun ==
    /\ ~supervised /\ st.launch < MaxLaunches
    /\ st.status \in {"ready", "stopped"}
    /\ CodeHolds(st.rev) /\ MigrationHolds
    /\ IF config.kind = "c4" /\ st.attempt = 0
       THEN /\ st' = [Launched(st.rev, 0) EXCEPT !.status = "needs_astra",
                                                 !.reason = "failed"]
            /\ UNCHANGED supervised
       ELSE st' = Launched(st.rev, st.attempt) /\ supervised' = TRUE
    /\ UNCHANGED <<config, trees, consumption, migrated, permits, resumes,
                   outcomes, used, faults>>

\* _admit_existing_data: the coverage failure of generation, with the data it left.
Admit ==
    /\ config.kind = "recovery" /\ ~supervised /\ admission.name = NoName
    /\ st.status = "needs_astra" /\ st.stage = "generate" /\ st.reason = "coverage"
    /\ SnapshotHolds
    /\ admission' = [name |-> Name(st), snap |-> Snap]
    /\ UNCHANGED <<config, trees, st, supervised, consumption, migrated, failure,
                   approval, resumes, outcomes, used, faults>>

\* A review copies the failure it is about; evidence once written stays.
Reviews ==
    /\ ~supervised /\ st.status = "needs_astra" /\ failure = NoName
    /\ failure' = Name(st)
    /\ UNCHANGED <<config, trees, st, supervised, consumption, migrated,
                   admission, approval, resumes, outcomes, used, faults>>

\* _review_post_training: the optional screen failed after an admitted training,
\* whose identity the review reads.
ReviewPostTraining ==
    /\ config.kind = "recovery" /\ st.stage = "audit" /\ st.reason = "depth"
    /\ fit.rev.admitted
    /\ Reviews

\* _review_c4_teacher: the teacher answered with something that is no move.
ReviewTeacher ==
    /\ config.kind = "c4" /\ st.stage = "iterate" /\ st.reason = "protocol"
    /\ SnapshotHolds
    /\ Reviews

\* The revision approve-operations composes: the admission and the review of
\* the one before it stay in force.
Revision(admit, reviewed) ==
    [named |-> TRUE, tree |-> committed,
     admitted |-> admit \/ approval.admitted,
     review |-> IF reviewed THEN failure ELSE approval.review]

\* _approve_operations.
ApproveRevision(admit, reviewed) ==
    LET rev == Revision(admit, reviewed)
    IN /\ admit => admission.name # NoName
       /\ reviewed => failure = Name(st)
       /\ IdleUnder(rev) /\ Clean
       /\ RevisionHolds(rev) /\ MigrationHolds /\ SnapshotHolds
       /\ rev.review # NoName /\ config.kind = "recovery" =>
             /\ \A s \in {"generate", "train"} : completions[s] # {} /\ CompletionHolds(s, rev)
             /\ AuditHolds
       /\ approval # rev /\ approval' = rev
       /\ UNCHANGED <<config, trees, st, supervised, consumption, migrated,
                      admission, failure, resumes, outcomes, used, faults>>

\* resume: _prepare_resume, then the launch.
ResumeRun ==
    /\ ResumePasses /\ st.launch < MaxLaunches
    /\ completions' = IF approval.admitted /\ completions["generate"] = {}
                   THEN [completions EXCEPT !["generate"] = {games}] ELSE completions
    /\ resumes' = Append(resumes, [prev |-> Name(st), snap |-> Snap])
    /\ st' = Launched(approval, Len(resumes) + 1)
    /\ supervised' = TRUE
    /\ UNCHANGED <<config, trees, consumption, migrated, permits, fit, proof,
                   review, used, faults>>

\* pause of a stopped run records what it retained; a run whose check fails is
\* left to a person.
PauseRun ==
    /\ ~supervised /\ st.status = "stopped"
    /\ IF CodeHolds(st.rev) /\ SnapshotHolds
       THEN /\ st' = [st EXCEPT !.status = "ready"]
            /\ progress' = Cardinality(games)
            /\ resumes' = IF st.attempt = 0 THEN resumes
                           ELSE [resumes EXCEPT ![st.attempt].snap = Snap]
       ELSE /\ st' = [st EXCEPT !.status = "needs_astra", !.reason = "failed"]
            /\ UNCHANGED <<progress, resumes>>
    /\ UNCHANGED <<config, trees, supervised, games, spent, accepted, migrated,
                   permits, outcomes, used, faults>>

-----------------------------------------------------------------------------
(* The supervisor's stages.                                                *)

\* The stage at work: the first one without a receipt.
StageIsNext(s) ==
    \E i \in DOMAIN StageOrder :
        /\ StageOrder[i] = s /\ completions[s] = {}
        /\ \A j \in 1..(i - 1) : completions[StageOrder[j]] # {}

\* stage_run begins: the code and every earlier completion are checked.
WorkingOn(s) ==
    /\ supervised /\ StageIsNext(s) /\ CodeHolds(st.rev) /\ CompletionsHold(st.rev)

Ends(s, status, reason) ==
    /\ supervised' = FALSE
    /\ st' = [st EXCEPT !.status = status, !.reason = reason, !.stage = s]

Uses(work) == used' = used \union {<<work, wt>>}

Generates(s) == s \in {"generate", "iterate"}

Game(s, g) ==
    /\ WorkingOn(s) /\ Generates(s) /\ g \notin games
    /\ \E d \in 0..1 : spent + d <= config.budget /\ spent' = spent + d
    /\ games' = games \union {g} /\ accepted' = accepted + 1
    /\ progress' = Cardinality(games')
    /\ Uses("game")
    /\ UNCHANGED <<config, trees, st, supervised, migrated, permits, resumes,
                   outcomes, faults>>

\* A finished stage publishes its receipt.
PublishReceipt(s) == completions' = [completions EXCEPT ![s] = Artifacts(s)']

GenerateRun ==
    /\ WorkingOn("generate") /\ games = RunGames
    /\ UNCHANGED <<config, trees, st, supervised, consumption, migrated,
                   permits, resumes, fit, proof, review, used, faults>>
    /\ PublishReceipt("generate")

Train ==
    /\ WorkingOn("train")
    /\ fit' = [model |-> [games |-> games, altered |-> FALSE, step |-> 1], rev |-> st.rev]
    /\ Uses("fit")
    /\ UNCHANGED <<config, trees, st, supervised, consumption, migrated,
                   permits, resumes, proof, review, faults>>
    /\ PublishReceipt("train")

AuditRun ==
    /\ WorkingOn("audit")
    /\ proof' = [proof EXCEPT !["audit"] = fit.model]
    /\ Uses("audit")
    /\ UNCHANGED <<config, trees, st, supervised, consumption, migrated,
                   permits, resumes, fit, review, faults>>
    /\ PublishReceipt("audit")

\* The arena closes the run: _candidate_review binds model, metrics and arena.
Arena ==
    /\ WorkingOn("arena")
    /\ proof' = [proof EXCEPT !["arena"] = fit.model]
    /\ review' = [candidate |-> fit.model, made |-> TRUE]
    /\ Uses("arena") /\ Ends("complete", "awaiting", "none")
    /\ UNCHANGED <<config, trees, consumption, migrated, permits, resumes, fit,
                   faults>>
    /\ PublishReceipt("arena")

Iterate ==
    /\ WorkingOn("iterate") /\ games = RunGames
    /\ fit' = [model |-> [games |-> games, altered |-> FALSE, step |-> 1], rev |-> st.rev]
    /\ review' = [candidate |-> fit.model', made |-> TRUE]
    /\ Uses("fit") /\ Ends("complete", "awaiting", "none")
    /\ UNCHANGED <<config, trees, consumption, migrated, permits, resumes,
                   proof, faults>>
    /\ PublishReceipt("iterate")

\* The failures a person may review, and those nobody may clear.
StageFails(s) ==
    /\ supervised /\ StageIsNext(s)
    /\ \/ /\ s = "generate" /\ WorkingOn(s) /\ games # RunGames /\ spent = config.budget
          /\ Ends(s, "needs_astra", "coverage") /\ UNCHANGED proof
       \/ /\ s = "generate" /\ Ends(s, "needs_astra", "swap") /\ UNCHANGED proof
       \/ /\ s = "audit" /\ WorkingOn(s) /\ st.rev.review = NoName
          /\ proof' = [proof EXCEPT !["audit"] = fit.model]
          /\ Ends(s, "needs_astra", "depth")
       \/ /\ s = "iterate" /\ WorkingOn(s)
          /\ Ends(s, "needs_astra", "protocol") /\ UNCHANGED proof
       \/ Ends(s, "needs_astra", "failed") /\ UNCHANGED proof
    /\ UNCHANGED <<config, trees, consumption, migrated, permits, resumes,
                   completions, fit, review, used, faults>>

\* A requested stop, and a supervisor that is gone without a word.
Stops ==
    /\ supervised /\ supervised' = FALSE
    /\ st' \in {st, [st EXCEPT !.status = "stopped", !.reason = "requested_stop"]}
    /\ UNCHANGED <<config, trees, consumption, migrated, permits, resumes,
                   outcomes, used, faults>>

\* A shard lost, an older ledger put back, a model overwritten, between two runs.
Fault ==
    /\ ~supervised /\ faults < MaxFaults /\ faults' = faults + 1
    /\ \/ /\ \E g \in games : games' = games \ {g}
          /\ UNCHANGED <<spent, accepted, fit>>
       \/ /\ spent + accepted > 0
          /\ spent' = (IF spent > 0 THEN spent - 1 ELSE 0)
          /\ accepted' = (IF accepted > 0 THEN accepted - 1 ELSE 0)
          /\ UNCHANGED <<games, fit>>
       \/ /\ fit.model.step > 0 /\ ~fit.model.altered
          /\ fit' = [fit EXCEPT !.model.altered = TRUE]
          /\ UNCHANGED <<games, spent, accepted>>
    /\ UNCHANGED <<config, trees, st, supervised, progress, migrated, permits,
                   resumes, completions, proof, review, used>>

RunCommand ==
    \/ Migrate \/ StartRun \/ Admit \/ ReviewPostTraining \/ ReviewTeacher
    \/ ResumeRun \/ PauseRun
    \/ \E admit, reviewed \in BOOLEAN : ApproveRevision(admit, reviewed)

Supervisor ==
    \/ \E s \in StageNames : StageFails(s) \/ \E g \in RunGames : Game(s, g)
    \/ GenerateRun \/ Train \/ AuditRun \/ Arena \/ Iterate \/ Stops

RevisionsNext == RunCommand \/ Supervisor \/ Commit \/ Fault \/ \E f \in Edited : Edit(f)

RevisionsSpec == RevisionsInit /\ [][RevisionsNext]_revisionVars

-----------------------------------------------------------------------------
(* Whatever was approved meanwhile, no game was played and no model fitted *)
(* under another engine or other experiment conditions than the sealed     *)
(* ones; a recovery's games come from the sealed data pipeline, its model  *)
(* is fitted before the arena's files may change, and C4's teacher client  *)
(* changes only after its review.                                          *)
WorkIsDoneAsSealed ==
    \A u \in used :
        /\ u[2]["engine"] = 0 /\ u[2]["config"] # 2
        /\ config.kind = "recovery" /\ u[1] = "game" => u[2]["data"] = 0
        /\ config.kind = "recovery" /\ u[1] = "fit" => u[2]["arena"] = 0
        /\ u[2]["teacher"] = 1 => failure.reason = "protocol"

(* What _state reports as awaiting review is one model, audited and played *)
(* as it is on disk, fitted on the games that are there.                   *)
Reported == st.status = "awaiting" /\ review.candidate = fit.model

ReviewIsOfOneModel ==
    Reported /\ config.kind = "recovery" =>
        \A s \in {"audit", "arena"} : proof[s] = fit.model

(* From attempt to attempt nothing retained disappears and no budget is    *)
(* refilled, whatever is lost or put back in between; the reviewed budget  *)
(* is never exceeded.                                                      *)
ConsumptionOnlyGrows ==
    /\ spent <= Budget
    /\ \A i, j \in DOMAIN resumes : i < j =>
          /\ resumes[i].snap.games \subseteq resumes[j].snap.games
          /\ resumes[i].snap.spent <= resumes[j].snap.spent
          /\ resumes[i].snap.accepted <= resumes[j].snap.accepted

(* An attempt follows a failure only if a startup may be retried or if a   *)
(* person reviewed exactly that failure, and each review clears one.       *)
FailuresNeedTheirReview ==
    /\ \A i \in DOMAIN resumes :
          resumes[i].prev.status = "needs_astra" =>
             \/ resumes[i].prev.reason = "swap"
             \/ resumes[i].prev = admission.name
             \/ resumes[i].prev = failure
    /\ \A i, j \in DOMAIN resumes :
          i # j /\ resumes[i].prev = resumes[j].prev =>
             resumes[i].prev.status # "needs_astra"

(* A run diagnosed as eligible resumes, unless its admitted data changed.  *)
DiagnosisIsHonest == Eligible => ResumePasses \/ ~FinalizeHolds(approval)

\* The variables keep their types and bounds.
RevisionsTypeOK ==
    /\ config \in Contracts
    /\ wt \in [CodeFiles -> 0..2] /\ committed \in [CodeFiles -> 0..2]
    /\ edits \in 0..MaxEdits
    /\ st.status \in {"ready", "running", "stopped", "needs_astra", "awaiting"}
    /\ supervised \in BOOLEAN /\ migrated \in BOOLEAN
    /\ games \subseteq RunGames /\ progress \in Nat /\ spent \in Nat /\ accepted \in Nat
    /\ faults \in 0..MaxFaults

\* What a run rests on, over approvals, admissions, resumes and edits of its files.
RunIsSound ==
    /\ RevisionsTypeOK /\ WorkIsDoneAsSealed /\ ReviewIsOfOneModel
    /\ ConsumptionOnlyGrows /\ DiagnosisIsHonest

(* Work is done under what was sealed or reviewed for it, nothing consumed *)
(* comes back, and a failure is left only through the review of that       *)
(* failure (evaluator_run.py).                                             *)
RevisionsAreSound == RunIsSound /\ FailuresNeedTheirReview
=============================================================================
