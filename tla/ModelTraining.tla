---------------------------- MODULE ModelTraining ---------------------------
(***************************************************************************)
(* The output directory of a training (models/train.py): numbered          *)
(* checkpoints, last.pt, best.pt, training-log.jsonl and experiment.json,  *)
(* kept in step by the journal epoch-transaction.json.  A training holds   *)
(* the directory alone, may be killed at any step, and is resumed from     *)
(* last.pt.  A checkpoint is told apart by what it was trained under and   *)
(* by the validation loss of each of its epochs, which training draws.     *)
(***************************************************************************)
EXTENDS Naturals, Sequences

CONSTANTS
    Configs,      \* feature, model and training configuration, by digest
    Datasets,     \* identities of the loaded examples
    Runtimes,     \* runtime records: device, code, commit, threads
    Epochs,       \* configured epochs
    Losses,       \* validation losses: numbers in their order
    RetainEvery,  \* training.checkpoint_every_epochs
    MaxTrainingKills  \* bound: trainings killed

ASSUME TrainingAssumption == /\ Epochs \in Nat /\ Losses \subseteq Nat
                             /\ RetainEvery \in Nat \ {0} /\ MaxTrainingKills \in Nat

NotThere == [kind |-> "none"]
NoTraining == [pc |-> "idle"]

VARIABLES
    generations,  \* checkpoint-epoch-N.pt, or None
    last, best,   \* last.pt and best.pt, or None
    log,          \* rows of training-log.jsonl
    partial,      \* the log ends in a part of the journaled row
    epochJournal,      \* epoch-transaction.json, or None
    experiment,   \* experiment.json, or None
    training,     \* the process that holds the directory
    trainingKills         \* how many there were

directory == <<generations, last, best, log, partial, epochJournal, experiment>>
trainingVars == <<directory, training, trainingKills>>

Setups == [config : Configs, data : Datasets, runtime : Runtimes]
Checkpoint(setup, losses) == [kind |-> "checkpoint", setup |-> setup, losses |-> losses]
Epoch(checkpoint) == Len(checkpoint.losses)
\* load_checkpoint: a file is a whole checkpoint, or it is an error.
Loads(file) == file # NotThere

TrainingInit ==
    /\ generations = [e \in 1..Epochs |-> NotThere]
    /\ last = NotThere /\ best = NotThere
    /\ experiment = NotThere /\ epochJournal = NotThere
    /\ log = <<>>
    /\ partial = FALSE
    /\ training = NoTraining
    /\ trainingKills = 0

TrainingAt(pc) == training.pc = pc
TrainingGoes(pc) == training' = [training EXCEPT !.pc = pc]
-----------------------------------------------------------------------------
(* train_model: the lock, the datasets, and what the last training left    *)

\* stop is stop_after_epoch; none stands for the configured epochs.
StartTraining(setup, resume, stop) ==
    /\ training = NoTraining
    /\ training' = [pc |-> IF epochJournal = NotThere THEN "opened" ELSE "recover best",
                    then |-> "opened",
                    setup |-> setup, resume |-> resume, stop |-> stop,
                    losses |-> <<>>, start |-> 0, prior |-> <<>>, recovered |-> FALSE,
                    closed |-> NotThere]
    /\ UNCHANGED <<directory, trainingKills>>

\* An error of the training: the process ends, the directory stays.
EndTraining == training' = NoTraining /\ UNCHANGED <<directory, trainingKills>>

\* _require_new_training_outputs.
IsNew == last = NotThere /\ best = NotThere /\ log = <<>> /\ ~partial
         /\ experiment = NotThere /\ epochJournal = NotThere
StartsAnew ==
    /\ TrainingAt("opened") /\ ~training.resume
    /\ IsNew
    /\ TrainingGoes("ready")
    /\ UNCHANGED <<directory, trainingKills>>

SameIdentity(checkpoint) == /\ checkpoint.setup.config = training.setup.config
                            /\ checkpoint.setup.data = training.setup.data
SameRuntime(checkpoint) == checkpoint.setup.runtime = training.setup.runtime
IsOurs == Loads(last) /\ SameIdentity(last) /\ SameRuntime(last)
Outputs == [best |-> best, last |-> last, log |-> log]
OutputsBefore(j) == [best |-> j.bestBefore, last |-> j.lastBefore, log |-> j.logBefore]
\* The log ends at the checkpoint, and the experiment is the one of this
\* epoch, or the one the pending journal found.
OutputsStand ==
    /\ Loads(best)
    /\ log # <<>> /\ ~partial /\ Len(log) = Epoch(last)
    /\ experiment # NotThere =>
          IF experiment.completed = Epoch(last)
          THEN experiment.artifacts = Outputs
          ELSE /\ epochJournal # NotThere
               /\ epochJournal.experimentBefore = experiment
               /\ Epoch(epochJournal.checkpoint) = Epoch(last)
               /\ experiment.completed = Epoch(last) - 1
               /\ experiment.artifacts = OutputsBefore(epochJournal)
PriorExecutions == IF experiment = NotThere THEN <<>> ELSE experiment.executions
Resumes ==
    /\ TrainingAt("opened") /\ training.resume
    /\ IsOurs /\ OutputsStand
    /\ training' = [training EXCEPT !.pc = "ready", !.losses = last.losses,
                       !.start = Epoch(last), !.prior = PriorExecutions]
    /\ UNCHANGED <<directory, trainingKills>>
\* The directory is refused: its own last.pt cannot be taken up.
Refuse ==
    /\ TrainingAt("opened") /\ training.resume
    /\ IsOurs /\ ~OutputsStand
    /\ TrainingGoes("refused")
    /\ UNCHANGED <<directory, trainingKills>>
Decline ==
    /\ \/ TrainingAt("opened") /\ ~(IF training.resume THEN IsOurs ELSE IsNew)
       \/ TrainingAt("refused")
    /\ EndTraining

NothingIsLeft == /\ training.recovered /\ training.resume
              /\ training.start = Epochs /\ training.stop = Epochs
\* A recovered experiment may be all that was missing.
ReturnRecovered == TrainingAt("ready") /\ NothingIsLeft /\ EndTraining
StopIsLegal ==
    \/ training.start < training.stop
    \/ epochJournal # NotThere /\ training.start = training.stop
BeginEpochs ==
    /\ TrainingAt("ready") /\ ~NothingIsLeft
    /\ IF StopIsLegal THEN TrainingGoes("epochs") ELSE training' = NoTraining
    /\ UNCHANGED <<directory, trainingKills>>
-----------------------------------------------------------------------------
(* One epoch: _run_epoch, then _commit_epoch_transaction                   *)

Train(loss) ==
    /\ TrainingAt("epochs") /\ Len(training.losses) < training.stop
    /\ training' = [training EXCEPT
          !.losses = Append(@, loss), !.then = "close",
          !.pc = IF epochJournal = NotThere THEN "save" ELSE "recover best"]
    /\ UNCHANGED <<directory, trainingKills>>
Trained == Checkpoint(training.setup, training.losses)
\* The loss of the epoch that ended is below every earlier one.
Improves(losses) ==
    \A i \in 1..Len(losses) - 1 : losses[Len(losses)] < losses[i]

IsRetained(j) == Epoch(j.checkpoint) % RetainEvery = 0
DropGeneration(j) ==
    generations' = IF IsRetained(j) THEN generations
                   ELSE [generations EXCEPT ![Epoch(j.checkpoint)] = NotThere]
\* Bug: the generation goes before the journal that names it.
CloseFirst_Generation == DropGeneration(epochJournal) /\ UNCHANGED epochJournal
\* The prior journal goes before its generation.
CloseFirst == epochJournal' = NotThere /\ UNCHANGED generations
ClosePrior ==
    /\ TrainingAt("close")
    /\ epochJournal.status = "published"
    /\ last = epochJournal.checkpoint
    /\ CloseFirst
    /\ training' = [training EXCEPT !.pc = "closed", !.closed = epochJournal]
    /\ UNCHANGED <<last, best, log, partial, experiment, trainingKills>>
\* What is left of a closed journal, here and after the experiment.
DropClosed(pc, next) ==
    /\ TrainingAt(pc)
    /\ DropGeneration(training.closed)
    /\ epochJournal' = NotThere
    /\ training' = [training EXCEPT !.pc = next, !.closed = NotThere]
    /\ UNCHANGED <<last, best, log, partial, experiment, trainingKills>>

SaveGeneration ==
    /\ TrainingAt("save")
    /\ LET saved == generations[Len(training.losses)] IN
       IF saved \notin {NotThere, Trained}
       THEN training' = NoTraining /\ UNCHANGED generations
       ELSE /\ generations' = [generations EXCEPT ![Len(training.losses)] = Trained]
            /\ TrainingGoes("journal")
    /\ UNCHANGED <<last, best, log, partial, epochJournal, experiment, trainingKills>>
CreatesLog == ~training.resume /\ Len(training.losses) = 1
WriteEpochJournal ==
    /\ TrainingAt("journal")
    /\ CreatesLog <=> (log = <<>>)
    /\ epochJournal' = [kind |-> "journal", status |-> "prepared",
                   checkpoint |-> Trained,
                   publishBest |-> Improves(training.losses),
                   bestBefore |-> best, lastBefore |-> last, logBefore |-> log,
                   experimentBefore |-> experiment, experimentAfter |-> NotThere]
    /\ training' = [training EXCEPT !.pc = "recover best", !.then = "epochs"]
    /\ UNCHANGED <<generations, last, best, log, partial, experiment, trainingKills>>
-----------------------------------------------------------------------------
(* _recover_epoch_transaction: what the journal says, step by step; any    *)
(* other content of the directory is an error (JournalIsRecoverable).      *)

BestAfter(j) == IF j.publishBest THEN j.checkpoint ELSE j.bestBefore
LogAfter(j) == Append(j.logBefore, j.checkpoint.losses[Epoch(j.checkpoint)])
GenerationStands == generations[Epoch(epochJournal.checkpoint)] = epochJournal.checkpoint

\* A reference is moved only from the value the journal found.
CanMove(observed, before, after) == observed \in {before, after}
RecoverBest ==
    /\ TrainingAt("recover best")
    /\ GenerationStands /\ CanMove(best, epochJournal.bestBefore, BestAfter(epochJournal))
    /\ best' = BestAfter(epochJournal)
    /\ TrainingGoes("recover last")
    /\ UNCHANGED <<generations, last, log, partial, epochJournal, experiment, trainingKills>>
RecoverLast ==
    /\ TrainingAt("recover last")
    /\ CanMove(last, epochJournal.lastBefore, epochJournal.checkpoint)
    /\ last' = epochJournal.checkpoint
    /\ TrainingGoes("recover log")
    /\ UNCHANGED <<generations, best, log, partial, epochJournal, experiment, trainingKills>>
\* What is missing of the row is appended.
RecoveredLog == LogAfter(epochJournal)
RecoverLog ==
    /\ TrainingAt("recover log")
    /\ CanMove(log, epochJournal.logBefore, LogAfter(epochJournal))
    /\ log' = RecoveredLog
    /\ partial' = FALSE
    /\ TrainingGoes("publish")
    /\ UNCHANGED <<generations, last, best, epochJournal, experiment, trainingKills>>
MarkPublished ==
    /\ TrainingAt("publish")
    /\ epochJournal' = [epochJournal EXCEPT !.status = "published"]
    /\ TrainingGoes(IF epochJournal.experimentAfter = NotThere THEN training.then
                    ELSE "recover experiment")
    /\ UNCHANGED <<generations, last, best, log, partial, experiment, trainingKills>>
RecoverExperiment ==
    /\ TrainingAt("recover experiment")
    /\ CanMove(experiment, epochJournal.experimentBefore, epochJournal.experimentAfter)
    /\ experiment' = epochJournal.experimentAfter
    /\ training' = [training EXCEPT !.pc = "finish", !.recovered = TRUE]
    /\ UNCHANGED <<generations, last, best, log, partial, epochJournal, trainingKills>>
-----------------------------------------------------------------------------
(* The record of the experiment, and the end of the last journal           *)

ThisExecution == [from |-> training.start, to |-> training.stop]
ExperimentRecord == [kind |-> "experiment", completed |-> training.stop,
           artifacts |-> Outputs, executions |-> Append(training.prior, ThisExecution)]
PrepareExperiment ==
    /\ TrainingAt("epochs") /\ Len(training.losses) = training.stop
    /\ epochJournal # NotThere /\ epochJournal.status = "published"
    /\ Epoch(epochJournal.checkpoint) = training.stop
    /\ epochJournal.experimentAfter = NotThere
    /\ epochJournal.experimentBefore = experiment
    /\ epochJournal' = [epochJournal EXCEPT !.experimentAfter = ExperimentRecord]
    /\ TrainingGoes("experiment")
    /\ UNCHANGED <<generations, last, best, log, partial, experiment, trainingKills>>
WriteExperiment ==
    /\ TrainingAt("experiment")
    /\ experiment' = epochJournal.experimentAfter
    /\ TrainingGoes("finish")
    /\ UNCHANGED <<generations, last, best, log, partial, epochJournal, trainingKills>>
\* _finish_epoch_transaction: the record says what the journal published.
IsCommitted ==
    /\ experiment = epochJournal.experimentAfter
    /\ experiment.completed = Epoch(epochJournal.checkpoint)
    /\ experiment.artifacts = [best |-> BestAfter(epochJournal),
                               last |-> epochJournal.checkpoint,
                               log |-> LogAfter(epochJournal)]
FinishEpochJournal ==
    /\ TrainingAt("finish")
    /\ IsCommitted
    /\ epochJournal' = NotThere
    /\ training' = [training EXCEPT !.pc = "finished", !.closed = epochJournal]
    /\ UNCHANGED <<generations, last, best, log, partial, experiment, trainingKills>>
ReturnSummary == TrainingAt("returned") /\ EndTraining
-----------------------------------------------------------------------------
(* Faults                                                                  *)

KillTraining ==
    /\ training # NoTraining
    /\ trainingKills < MaxTrainingKills
    /\ trainingKills' = trainingKills + 1
    /\ training' = NoTraining
    /\ UNCHANGED directory
\* Part of the journaled row is written: a kill, or a full disk.
TearLog ==
    /\ TrainingAt("recover log") /\ log = epochJournal.logBefore
    /\ trainingKills < MaxTrainingKills
    /\ trainingKills' = trainingKills + 1
    /\ partial' = TRUE
    /\ training' = NoTraining
    /\ UNCHANGED <<generations, last, best, log, epochJournal, experiment>>

TrainingNext ==
    \/ \E s \in Setups, r \in BOOLEAN, e \in 1..Epochs : StartTraining(s, r, e)
    \/ StartsAnew \/ Resumes \/ Refuse \/ Decline \/ ReturnRecovered \/ BeginEpochs
    \/ \E l \in Losses : Train(l)
    \/ ClosePrior \/ DropClosed("closed", "save") \/ SaveGeneration \/ WriteEpochJournal
    \/ RecoverBest \/ RecoverLast \/ RecoverLog \/ MarkPublished
    \/ RecoverExperiment
    \/ PrepareExperiment \/ WriteExperiment \/ FinishEpochJournal
    \/ DropClosed("finished", IF training.recovered /\ training.losses = <<>>
                              THEN "opened" ELSE "returned")
    \/ ReturnSummary
    \/ KillTraining \/ TearLog
TrainingSpec == TrainingInit /\ [][TrainingNext]_trainingVars
-----------------------------------------------------------------------------
(* Wherever a training is killed, the journal can be carried through: its  *)
(* checkpoint is there, and each file is what the journal found or what it *)
(* leaves, in the order best, last, log.                                   *)
EpochIsRecoverable ==
    epochJournal # NotThere =>
        /\ GenerationStands
        /\ CanMove(best, epochJournal.bestBefore, BestAfter(epochJournal))
        /\ CanMove(last, epochJournal.lastBefore, epochJournal.checkpoint)
        /\ CanMove(log, epochJournal.logBefore, LogAfter(epochJournal))
        /\ experiment \in {epochJournal.experimentBefore, epochJournal.experimentAfter}
        /\ log = LogAfter(epochJournal) => last = epochJournal.checkpoint
        /\ last = epochJournal.checkpoint => best = BestAfter(epochJournal)
        /\ partial => log = epochJournal.logBefore

(* Without a journal the files tell one history: the log is that of        *)
(* last.pt, best.pt is the first of its lowest losses, a generation left   *)
(* over is one of its epochs or the next, and an experiment of this epoch  *)
(* names the files that are there.                                         *)
IsStartOf(s, t) == Len(s) <= Len(t) /\ \A i \in DOMAIN s : s[i] = t[i]
IsFirstLowest(n, losses) ==
    /\ n \in DOMAIN losses
    /\ \A i \in DOMAIN losses : losses[n] <= losses[i]
    /\ \A i \in 1..n-1 : losses[n] < losses[i]
TellOneHistory(bestFile, lastFile, rows, record) ==
    /\ IF rows = <<>> THEN lastFile = NotThere /\ bestFile = NotThere /\ record = NotThere
       ELSE /\ lastFile = Checkpoint(lastFile.setup, rows)
            /\ \E n \in DOMAIN rows :
                 /\ IsFirstLowest(n, rows)
                 /\ bestFile = Checkpoint(lastFile.setup, SubSeq(rows, 1, n))
    /\ record # NotThere =>
         /\ record.completed <= Len(rows)
         /\ record.completed = Len(rows) =>
              record.artifacts = [best |-> bestFile, last |-> lastFile, log |-> rows]
LeftOver(e) ==
    \/ generations[e] = NotThere
    \/ e <= Len(log) /\ generations[e] = Checkpoint(last.setup, SubSeq(log, 1, e))
    \/ e = Len(log) + 1 /\ IsStartOf(log, generations[e].losses)
FilesAgree ==
    epochJournal = NotThere =>
        /\ ~partial
        /\ TellOneHistory(best, last, log, experiment)
        /\ \A e \in 1..Epochs : LeftOver(e)

(* What a training published stays: epochs are only added, under the same  *)
(* setup, and a later record of the experiment keeps every execution of    *)
(* the earlier ones.                                                       *)
HistoryGrows ==
    /\ IsStartOf(log, log')
    /\ last # NotThere => /\ last' # NotThere
                          /\ last'.setup = last.setup
                          /\ IsStartOf(last.losses, last'.losses)
    /\ experiment # NotThere =>
          /\ experiment' # NotThere
          /\ IsStartOf(experiment.executions, experiment'.executions)

(* A kill loses nothing that was published, and leaves files that the      *)
(* journal explains: the three above, always and by every step             *)
(* (models/train.py).  That a resume then accepts these files is another   *)
(* claim, the next one.                                                    *)
TrainingLosesNothing ==
    [](EpochIsRecoverable /\ FilesAgree) /\ [][HistoryGrows]_trainingVars

(* What test_train.py says of the windows of an epoch's commit: whichever  *)
(* of them a training is killed in, a resume under the same setup is not   *)
(* refused.  It is, once the record of the experiment is two epochs older  *)
(* than last.pt, or older with no journal left to say why (train.py,       *)
(* _validate_resume_outputs).                                              *)
EveryWindowIsResumable ==
    TrainingAt("opened") /\ training.resume /\ IsOurs => OutputsStand
=============================================================================
