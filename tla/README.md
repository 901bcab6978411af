# Verification of OpenShogiAI

TLA+ models of OpenShogiAI (a shogi engine in Rust with a USI front end, and the
Python tooling that collects games, labels them with a teacher, trains evaluators and
decides which one is champion), their TLC configurations, and TLAPS proofs. Every
definition is translated from the sources; `PROJECT.json` names the lines each one
stands for, the hazards the properties aim at, and for each property a mutated
definition, the kind of bug that breaks it.

## 1. Inventory

The engine (`src/engine`):

| part | state it keeps | operations | how it interacts | what makes it correct |
|---|---|---|---|---|
| pure USI session (`usi/src/pure.rs`, `lifecycle.rs`, `parser.rs`) | position, options, held ponder, worker handle, output generation, gates, tokens | one handler per command, `finish`, `start_search`, the reader | reader thread -> channel -> owner -> workers | one completion per `go`, none for a superseded one, every wait ends |
| parallel root search (`core/src/parallel.rs`, `search.rs`) | iteration, claim cursor, shared alpha, flags, live helpers | claim, prime, raise, publish, collect, merge, retry, stop, join | atomics and a mutex between controller and helpers | no slot lost or searched twice, alpha backed, fails closed |
| shared node budget (`parallel.rs`, `SearchContext`) | granted counter, latch, credit and counts | reserve, latch, spend, return, flush | the same threads | credit conserved, exact count |
| time control (`time_control.rs`, `clocks.rs`) | cooldown between moves | plan, observe | the sessions, the search | ordered limits, no forfeit |
| legacy session, worker policy, game record, transposition table, analysis, rules, evaluators, book, secure files, CLI, browser | | | | not modelled, see section 7 |

The tooling (`src/training/open_shogi_training`), where nearly everything is a
command that reads files, works for hours, may be killed, and is run again:

| part | state it keeps | operations | how it interacts | what makes it correct |
|---|---|---|---|---|
| evaluator run (`evaluator_run.py`) | `state.json`, `STOP`, attempts, completion receipts, stage receipt, writer lease | start, resume, stop, pause, approve, admit, finalize, work, stage | terminals, a detached supervisor, a stage process and its children over files and flocks | one writer tree; a stop, a failure and a spent retry are not taken back; work only under what was sealed or reviewed |
| teacher ledger (`evaluator_ledger.py`, `evaluator_data.py`) | SQLite tasks, counters, cursors, shards, receipts, archive journal | reserve, answer, defer, drain, commit, archive, supplement | one worker and an unreliable teacher | nothing paid for is lost or paid twice; it ends |
| evaluator arena (`evaluator_arena.py`) | receipts of attempts, game checkpoints, sealed result | play, stop, retry, seal | engines as subprocesses | retries bounded over reruns, adoption earned |
| paired execution (`selfplay/execution.py`) | journaled state file, receipts, quarantine, evidence, manifest | execute, attempt, gather, finish | coordinator threads, an engine process per attempt | history only grows, the state file always loads |
| bounded commands (`execution.py`, `runtime_receipt.py`, `labeling/process_identity.py`) | process tree, pinned files, receipt | spawn, sample, signal, reap, guard | the kernel's process table, other programs that install files | a stranger is signalled only where it cannot be told apart, the receipt is what ran |
| model generations (`selfplay/registry.py`, `pipeline.py`) | registry, snapshots, journal, manifests | register, record, decide, promote, reconcile | operators over one directory lock | a chain without forks, an earned champion |
| arena report (`selfplay/arena.py`, `config.py`) | results, analysis, decision | normalize, analyze, decide | engine reports | evidence is what was played |
| atomic files, engine build (`selfplay/common.py`, `labeling/artifacts.py`, `engine_receipt.py`) | files, quarantine, pointer, receipts | write, exchange, dispose, build, publish | everything that persists; foreign writers | compare and swap; true receipts |
| teacher labelling (`labeling/pipeline.py`, `usi.py`) | label and quarantine rows, manifest; teacher process | label, checkpoint, migrate; search, restart | a pipe, a reader thread, a memory monitor | one label per position, answers of the asked search |
| training, export (`models/train.py`, `export.py`) | checkpoints, log, epoch journal; artifacts, marker | epoch, resume; publish, verify | files | a kill loses nothing published; exports are of one model |
| training data (`data/normalize.py`, `labeling/selection.py`, `models/dataset.py`, `selfplay/evidence.py`) | normalized games, labels, evidence, replay buffer | normalize, select, derive, join | files of one stage read by the next | no position labelled as held out is learned |
| downloads (`data/downloader.py`, `manifest.py`, `phase10r_acquisition.py`) | partials, validators, store, manifest | fetch, resume, verify, install | servers that cut, ignore ranges, replace files | listed objects are of one entity, as far as the code can know |
| populations (`data/phase10r_*`, `phase10r_execution.py`) | replays, identity database, proofs, populations | replay, scan, prepare, finalize | files | a game in one split; passed means clean |
| official evaluation (`evaluation/pipeline.py`) | plan, attempts, analysis rows, report, reviews | prepare, export, analyze, report, review | a human's games, the exporter, a teacher | one registry, plan and teacher |
| C4 runs (`r4_c4.py`, `r4_c4_data.py`) | folders of generations, ledger, index | iterate, play, label, build, confirm, finish | all of the above | restarts agree with an undisturbed run |
| evaluator training, gates, closed campaigns, formats, command lines, scripts | | | | not modelled, see section 7 |

Hard behaviours: the interleavings of the session's and the search's threads; kills
between any two durable writes and the reruns after them; stale reads (a look at a
file, a pid, a registry, and its use later); processes that outlive their parents and
pids that are used again; retries and budgets that must survive restarts.
`PROJECT.json` lists forty of them with their lines, and every part with its status.

## 2. Modules

| module | what it is | source |
|---|---|---|
| `UsiContract` | abstract: at most one open request, at most one answer each | what `pure.rs` promises the peer |
| `UsiPure` | reader, owner, workers; refines `UsiContract` | `pure.rs`, `lifecycle.rs`, `parser.rs` |
| `NodeBudget` | the credit pool of one search | `parallel.rs`, `search.rs` |
| `IterativeDeepening` | abstract: each completed depth settles on a best move; fails closed | `search_internal` from outside |
| `ParallelSearch` | controller and helpers; refines `IterativeDeepening` | `parallel.rs`, `search.rs` |
| `TimeControl`, `TimedMatch` | plans and cooldown; a session and the GUI's clock over games | `time_control.rs`, `clocks.rs`, `pure.rs` |
| `EvaluatorRun` | terminals, supervisor, stage, children over the run's files | `evaluator_run.py` |
| `StageGroup` | the process group of a stage; extends `ProcessTable` | `evaluator_run.py` |
| `RunRevisions` | what the results of a run rest on: seals, approvals, admissions | `evaluator_run.py` |
| `TeacherLedger` | the generate stage: ledger, trajectories, drain, archive | `evaluator_ledger.py`, `evaluator_data.py`, `evaluator_run.py` |
| `EvaluatorArena` | attempts and receipts of a candidate's arena | `evaluator_arena.py` |
| `PairedExecution` | coordinator, workers, engines and the journaled state | `selfplay/execution.py`, `cli/src/arena.rs` |
| `ProcessTable` | pids, groups, sessions, start identities | the kernel (external), `process_identity.py` |
| `CommandProcess` | one bounded command; extends `ProcessTable` | `selfplay/execution.py` |
| `CommandRuntime` | what a command's interpreter, engine and dependencies were | `runtime_receipt.py`, `execution.py` |
| `EngineBuild` | builds, receipts, pointer and alias | `engine_receipt.py`, `labeling/execution.py` |
| `AtomicArtifacts` | write, exchange, quarantine | `labeling/artifacts.py`, `selfplay/common.py` |
| `ModelGenerations` | registry transaction, pipeline and decisions | `registry.py`, `pipeline.py`, `arena.py` |
| `ArenaReport` | report to decision, in integers | `arena.py`, `config.py` |
| `LabelRun` | a label directory over runs, audits and migration | `labeling/pipeline.py` |
| `TeacherEngine` | the teacher process and its client | `labeling/usi.py` |
| `ModelTraining`, `ModelExport` | epoch journal; export transaction | `models/train.py`, `checkpoint.py`; `export.py` |
| `TrainingData` | splits, selection, evidence, replay buffer, join | `normalize.py`, `selection.py`, `evidence.py`, `dataset.py` |
| `CatalogDownload`, `ArtifactDownload` | resumable downloads | `downloader.py`, `manifest.py`; `phase10r_acquisition.py` |
| `PopulationScan`, `LeakageScan` | replay to population; the first scanner | `phase10r_replay.py`, `phase10r_scan_v2.py`, `phase10r_execution.py`; `phase10r_scan.py` |
| `OfficialEvaluation` | plan to report and review | `evaluation/pipeline.py` |
| `C4Iteration`, `C4Games`, `C4Dataset` | generations; games and labels; split index | `r4_c4.py`, `r4_c4_data.py` |
| `MCDataTools`, `MCRunTools` | small instances of the tool modules, side by side | |
| `MCLimitsAndRegistry` | the limits of a search and the registry, side by side | |
| `MCParallelSearch` | values and symmetry for TLC | |
| `*Proofs` | inductive invariants and theorems | |

A step of a tool's model is what a process does between two durable effects or two
looks at something shared; what it only computes in between belongs to the step. A
kill is an action of its own wherever a process may be, and the files stay. Hashes,
texts and formats are model values; a digest of a file is the file. Counters that
only bound the exploration (`MaxKills`, `MaxChanges`, `MaxFaults`, ...) are named as
bounds in the constants.

The tool modules have no state in common, so `MCDataTools` and `MCRunTools` check
each on its own instance in one run, and so does `MCLimitsAndRegistry` for the limits of
a search and the registry: `part` says what a behaviour is of, and `Parts` of the first
two selects some. The modules with proofs (`TeacherEngine`, `AtomicArtifacts`,
`ModelTraining`, `ModelExport` and the two scans in the first, all but `ArenaReport` and
`EvaluatorArena` in the second) are extended with their variables and their properties as
they are (the process table is that of `CommandProcess` or of `StageGroup`, as `part`
says); the variables of any other tool are `v1`, `v2`, ... in the order of its
`INSTANCE`, and the properties say of which part they speak.

### UsiPure

One step is what a thread does between two accesses to shared state. `Receive` takes
an event and decides whether its handler calls `finish`; `Advance`, `Release`,
`Cancel` and `Join` are the four effects of `finish` in their order; `Resume` is the
rest of the handler. A worker goes through `SearchEnds`, `Observe` (the spending
reported to the time manager), `PassGate` (the completion gate of `go infinite`),
`Emit` (generation check and write, one step because both happen under one lock) and
`Report` for a failure. Of the text only `bestmove` is kept, as a counter per request.

Abstractions: `info` lines; the plan is computed before `finish` joins the superseded
worker, whose `observe_spend` may still change the cooldown the plan read (the
durations are in `TimedMatch`); the construction of an engine inside `start_search`
cannot fail. A rejected `ponderhit` drops the held request with only a diagnostic, as
the code does.

### NodeBudget

A context is the controller's search, its mate prepass, or a helper's current claim.
`EndContext`, `PayFromCredit` and `Ask` are `enter_node`; `Grant`, `GiveBack` and
`Latch` are `grant_nodes` step by step, because between its `fetch_add` and its
`fetch_sub` the counter is too high; `Flush`/`Unwind` and `ReturnCredit` are the
`Drop` of a context. `visited` and `paid` are history variables. The loads of the
flags are folded into the step that uses them: the flags are only ever set, so an
earlier load is a step in which the flag was not yet set. The code's unit is
`clamp(budget / 64, 1, 64)`; `Ratio` and `MaxChunk` stand for the two 64s.

A node is counted before its reservation is refused, so the published total can
exceed the budget by one node for each refused context, although the comment on
`NODE_RESERVATION_CHUNK` says that it "cannot exceed the budget at all".

### ParallelSearch

A slot of an iteration is named by its move. Each thread claims (`Take`), tries for
the whole window (`TakeWindow`), waits for the primer, samples alpha (`Sample`),
searches, raises, primes and publishes; helpers prime before they raise and the
controller after, as in the code. The controller then collects (`CollectCheck`,
`Adopt`, `Fallback`), merges (`Beats`), and retries with a wider window, goes deeper,
or stops and joins. Helpers may fail to prepare, fail an inference, or panic inside
or outside the guarded search; the latter drops the liveness guard before it sets
`stop`, which is the only way the controller ever searches a slot left behind.

The tree below a root move is its score `value` and `Returns`, what a fail-soft
alpha-beta search may return for a score and a window: the score inside, any bound on
the right side outside. `aborted` is the deadline or the latch of the node budget.
`begin_iteration` is one step although it writes four atomics outside the iteration's
value: no claim is alive then, which is what `ClaimsAreCurrent` says. Not modelled:
the contents of the shared transposition table (one lock per shard, matched on the
whole position), and the reasons a completed depth is the last one (any may be).

Seen while modelling: `run_helper` sets `primed` before it raises alpha, against the
comment on `primed`, so that a scout may run against an alpha that is not yet raised;
that costs work only. Without PVS (`enable_pvs` off, as in some tests and `replay_probe`)
`search_root_move` marks every answer exact because "none of those results is a mere
bound at the shared alpha" (search.rs:1654-1656), but a claim other than the first is
searched from the raised alpha: its fail-low bound can tie with the best exact score
and win the tie. With two moves of different scores, one helper and one depth TLC then
finds `ImplementsDeepening` violated: the worse move is the answer. `SharingIsSound`,
`ClaimsAreCurrent` and `AlphaOnlyRises` do not depend on PVS; the refinement has it as
its hypothesis.

### TimeControl and TimedMatch

`TimeControl` holds the arithmetic. A request is a record of the fields of a `go`,
each possibly absent; `Validate` are the checks of `TimeControl::validate`, `PlanFor`
is `TimeManager::plan` with one operator for each of its branches, and
`CooldownAfter` is `observe_spend`. The factors of the code are constants, scaled
down for TLC. Depth and node limits only count as present or absent.

`TimedMatch` plays games on it. `Go`, `GoPonder`, `PonderHit`, `StopPonder`,
`NewGame`, `GameOver` and `SetPosition` are the handlers up to the join of the
running search (`Cancel`), `Launch` or `Finish` the rest, with the reset of the
history. `SearchEnds` is the search thread: it may have taken any time up to its hard
deadline, reports it (`Observe`) and, if it is not revoked, is charged (`Charge`). A
`go` is planned before the join, as in the code. Rejected requests change nothing and
are not steps. The GUI is external: one clock for the engine, `Usable` is what it
grants. `Lag` is the time by which a charge exceeds the deadline. `recent` and
`leftover` are history variables. Assumed (`MatchAssumption`): an increment or a
byoyomi, not both; `Lag` at most the margin and `MarginCap`; the emergency fraction at
most a quarter. Not modelled: `AdaptiveTimeBudget`, which stops a search between its
limits (any time below the hard limit is possible instead).

Seen: a search whose answer is revoked reports its time like a completed move and so
engages or uses up the cooldown, against the comment on `observe_spend`; `go` without
clocks is searched on the casual budget, against the comment in `clocks.rs` that makes
it an adapter-level error.

### EvaluatorRun, StageGroup, RunRevisions

`EvaluatorRun` has three kinds of processes. A terminal's command goes through
`op[o].pc`: the checks of `start` and `resume`, the clearing of `STOP`, the launch,
the wait for the supervisor's acknowledgement and the poll that may record that it
never came. The supervisor (`work`) takes the lease, boots, picks the next stage,
admits it to memory, launches it, monitors it, cleans up and saves; the stage
publishes its completion. The lease is one open file description that supervisor and
stage share, so it is free when both are gone; their children do not hold it. Kills
hit launcher, supervisor, stage and child anywhere, `HostFails` takes all. The run is
a defence campaign under the reviewed resource policy: stage 1 generates, stage 2 is
the rest.

`StageGroup` opens one of its steps: the supervisor keeps the leader unreaped until
the group is empty, so `killpg` needs no identity; a lost supervisor leaves
`stage-process.json`, and no stage starts while the group it names has members.

`RunRevisions` has commands and stages as single steps and asks what they rest on:
which files a run may execute under after its seal, what a resume takes over, which
failure a person reviewed. A "recovery" run generates, trains, audits and plays; a
"c4" run iterates. Git provenance and lazy imports are abstracted to what a process
loaded.

Seen: the launcher reads the state and polls the child in two steps, so that a
supervisor that starts and ends in between is overwritten with the stale copy
(`LauncherOverwrites`; the action properties say so); `start`, unlike `resume`, takes
the number of the last attempt again. After `_admit_existing_data` wrote its admission,
an approve that aborts and a plain `resume` generate games again, although
`ADMISSION_POLICY` (evaluator_run.py:86) says closed; `start` on a freshly sealed
round raises `KeyError` inside `work`, which leaves `needs_astra`; an ordinary
approval after an admitted training wedges the run unless a post-training review is in
force; a second C4 protocol failure cannot be reviewed; the sealed state machine says
that nothing leaves `needs_astra`, though reviewed resumes do.

### TeacherLedger

One worker plays trajectories, taking the games of its pass in any order (a drain
interleaves the families, so that the order is not that of the numbers; `queue` is the
set still to be taken). Where the moves end a game is fixed from the start and unknown
to the worker (`length`): a rerun replays the same moves to the same end. At each
sampled ply it asks through the ledger, which reserves an attempt and its time before
the request leaves (`Ask`), and settles it with the answer, a miss or a rejection. Hard
tasks are charged from a budget of their own and drained at the end in rounds. Shard and
receipt end a game. `PrepareGenerated` to `CloseJournal` are the freezing of the dataset
and, when it covers too little, its archive under a journal and one supplement. `Die` is
between any two writes; a rerun recovers from tables, files and journal. A ledger
transaction is one action.

### EvaluatorArena

The games in order, each in attempts: a stopped attempt is continued at its move and
clocks, a failed process is retried once, an attempt without a receipt was killed and
counts as failed. A rerun walks through all games and knows nothing but receipts.
Seen: `confirmed-state.json` is never read again, so a crash after a stop starts the
game over with full clocks; overrunning a move is "invalid", not a forfeit; once the
campaign's wall time is spent every rerun is "stopped". Not modelled:
`pause_after_games` and the selection of starts; the bootstrap is the constant `Mixed`.

### PairedExecution

`Main` is the coordinator (`NextBatch`, `Gather`, `EndBatch`, `Finish`, `Publish`),
`Worker(j)` a thread: journal the attempt, boot the engine, create `games` and the
engine's state file, play or hit a limit, write receipt, quarantine and evidence. A
crash leaves engines that may go on (`OrphanRuns`), with the `--resume` they were
started with or without it. When the state file is read (`EvidenceStands`), evidence of
a completed attempt rests on receipt and report, other evidence on receipt and
quarantine record; a quarantine record no evidence refers to is not looked at. Edits of
an input between invocations are `Drift` and `Restore`. The directory lock admits one
coordinator, so the revision check of the state file never fails and is left out. Seen:
an engine that is killed between creating `games` and its state file makes every later
attempt of the job end in `nonzero_exit` (execution.py:1608).

### ProcessTable, CommandProcess, CommandRuntime

`ProcessTable` is external: pids with a start identity, parents, groups and
sessions; a pid is given away again once it is free and no group has its number.
`CommandProcess` samples the tree of a command, binds it to identities and signals it
when time, memory or output runs out, while a reader waits for the end of the pipe.
A signal is two steps, the reading of the identity (`CheckGroup`, `CheckNext`) and the
call (`Strike`). Other programs are given any free pid at any time, the leader's too once
it is reaped, and start further ones in their group (`StrangerForks`). There are three
ways in which a signal then reaches one of them, and the history variables `mistaken` and
`heirs` name them: its pid was given to it between `ps` and the reading of the identity
(execution.py:3155-3175); or between the check of the identity and the signal; or it was
started by the holder of the reaped leader's number, whose group and children
`_process_tree_rss_bytes` (execution.py:3143-3152) selects without asking for the leader's
identity. `OnlyTheMistakenAreSignalled` says that there is no fourth. That is less than
the comment in execution.py:3171-3174 has in mind, by which "a defunct or reused numeric
PID must not be retained for later signalling": the code drops a pid whose identity cannot
be read, but keeps one that was reused and is read as its new holder's, in the first and
the third way.
`CommandRuntime` is what the command runs on: a private copy of interpreter or engine,
tracked sources of HEAD, dependency trees held open and compared before the launch,
after it and at the end, against a package manager that upgrades, shadows and puts
back.

Seen: `_run_bounded_process` closes the pipes while a reader may block, so a descendant
that no sample showed can hold the runner beyond its limits; a descendant that ignores
SIGTERM and has no pipe survives a cut; a `setsid` between sample and signal changes
the identity; a file that is added to a tree between the listing of its directory
(`os.walk`) and the opening of the directory (`_open_node`) is held by no guard, so that
the child may load it unnoticed (`Unlucky`); `uv.lock` is bound but not guarded; a kill
between logs and receipt makes the attempt's paths unusable. Assumed: no two changes of a
file have one change time, as two within a clock tick may.

### AtomicArtifacts, EngineBuild

`AtomicArtifacts` is the write to a temporary entry, the rename to a free path or the
exchange with the file found there, the comparison of what came out, and its disposal
through a quarantine or its return. Foreign programs rename over the path or write in
place. Seen: without the directory lock a write that reports failure can end at the
path with its predecessor disposed of; `_write_new` and `replace_json_state` keep the
`fstat` of the empty file, so that their failure cleanup raises and leaves the
temporary entry (`Forgetters`); a failing no-replace write leaves one quarantine
entry, and after 64 the directory refuses. Disposal's check and unlink are one step.

`EngineBuild` has the builds from the blobs of a commit with tools that are hashed,
copied and run from the copy, while HEAD, toolchain, crate cache and copies change.
Seen: each rebuild to the same bytes retires a copy, after 64 (or 1 GiB) publication
is refused; a killed builder leaves `.engine-build.*`; the alias is published before
HEAD is looked at again.

### ModelGenerations, ArenaReport

Operators load the registry, compute without the lock and update under it: snapshot,
journal, registry, end of the journal; whoever opens it next completes it. The
pipeline records sixteen artifacts of one lineage each bound to earlier ones. Seen: a
second generation's decision cannot be recorded (registry.py:788-795, against the
docstring at 787); a crash between snapshot and journal burns that revision for any
other candidate; teacher labels are bound to no earlier stage. The git and runtime
rechecks between stages are abstracted.

`ArenaReport` is the arithmetic from pair reports to the decision. Rates are
hundredths, and the Wilson bound is compared without its square root; the rates of
inference and of search nodes are one number. Seen: the Rust
engine writes keys into the runtime profile that arena.py:112-184 refuses, so honest
pairs fail when proofs are reported (`ReportsProofs`; the run has them off); an illegal
move of the champion's side rejects the challenger too.

### LabelRun, TeacherEngine

`LabelRun` appends rows and replaces the manifest now and then; a rerun revalidates
the prefix. Seen: an uninterrupted run with a quarantined position can leave a
directory the next run refuses (pipeline.py:940); a `KeyboardInterrupt` between the
append and the progress update makes `finally` write a manifest that is refused for
ever; a torn last line is never repaired; after the migration a run with another
target breaks the exact semantic origin. Audits change nothing.

`TeacherEngine` pins the files, starts the copy, asks one search at a time and retries;
a thread queues lines and another kills for memory. Seen: a memory kill noticed
between two searches is silently restarted.

### ModelTraining, ModelExport

The epoch transaction writes generation, journal, `best.pt`, `last.pt`, log and
experiment, and what finds it pending carries it through in that order
(`RecoverBest` to `RecoverExperiment`). The optimizer is a drawn validation loss.
`TrainingLosesNothing` is about the files: what was published stays, and the journal
explains what is there. That a resume then accepts them is false, see finding 3.
`ModelExport` has no
lock: a second exporter with old checks can leave its transaction beside a finished
marker; the files never mix.

### TrainingData

Each stage is a function of earlier files; hash orders and engines are free choices.
`NothingLeaks` relates four stages: what a training learns is in no held-out split of
its load, of the test's larger replay window, or of the labelled test states. That is a
protection of *labelled* states only; for the others see finding 2.

### Downloads

Both name a chunk by the version of the entity it came from, so a splice is visible, and
record whether a length was known, since only then it is compared.

`CatalogDownload` is checked to complete nothing that was spliced from two entities, that
is short of a known length (`sized`), or whose run had not read terms that allow it
(`under`: of the run that completes, as an earlier one may have begun the transfer). Seen:
a stale saved partial makes resume refuse (test_downloader.py:756
expects otherwise); a torn manifest line is refused for ever; two acquisitions at a
time can append conflicting records; a truncated body without a length is installed as
complete.

`ArtifactDownload` compares the length when the registry or the answer has one
(phase10r_acquisition.py:176-179), the hash when one is pinned, and never the validator of
a 206 with that of the part. So what is checked is the pinned entity when there is one,
the whole length when one was known (`measured`), and one entity unless a range was
answered with another's (`spliced`). Seen: without pin and length a truncated body is
published, without pin a splice of equal length is; some kills are not resumable
(phase10r_acquisition.py:100), and a kill between rename and manifest leaves the object
off the manifest.

### Populations

`PopulationScan` has replay, second scan, preparation and finalisation over plays that
were recorded several times. Seen: a replay run again after the scan makes outcomes
that are not those scanned (phase10r_execution.py:630); the replay's split and the
scan's quota disagree when a held-out game is also a protected one; the scan reads
`local/phase10r-data` whatever `data_root` is; a preparation killed between base files
and manifest is refused for ever. Quotas and cycling of games are free choices, one
command at a time. `LeakageScan`: see finding 1; also, registry streams never supply
transposition keys, so the v1 scan always blocks on them; an input missing at the
first scan makes the directory refuse later ones; two scanners at a time are not
modelled (they could enter an artifact twice).

### OfficialEvaluation

One invocation at a time (`Overlaps = FALSE`): `prepare-games` takes no lock, and with
overlaps `KillsAreRecoverable` fails (`ReportIsOneTeacher` does not, see section 5). The
exporter is started in a session of its own (execution.py:2933-2943), so a kill of the
command (`KillEvaluator`) leaves it running as an orphan of its attempt, which commits
its file later or dies without it (`OrphanEnds`). `TimeOutExporter` is the other end: it
is killed at the deadline, before or after its commit. Until an orphan has committed its
attempt looks untouched, and the next command picks it again
(evaluation/pipeline.py:728-737): `crowded` records that an exporter was started where
another still runs.

Seen: then the orphan's file is there first, the second exporter fails, its attempt gets
a failed receipt, and every later call refuses on it (evaluation/pipeline.py:748-754);
`KillsAreRecoverable` therefore speaks of the runs that are not `crowded`. In the same way
a timed-out attempt is never retried, and a game played again after an export is never
accepted. Engine and receipt stay what they were, teacher revisions only rise.

### C4

`C4Iteration` walks through all folders again after every stop; `C4Games` asks the
teacher through a ledger of two attempts per task and saves the cursor after each ply. A
ply is asked about if it is sampled or the teacher's to play; it makes a row if it is
sampled and its label has a centipawn score, a claim's included (`Row`), and none for a
mate, a bare claim or a ply that was only played. The labels of the positions after a
strong root are asked for and entered as the root's is, and left out. `C4Dataset` keeps
the owner of every position (a symmetry class) in an index that outlives generations.
Seen: exits of the teacher are counted in a transaction of their own, so a kill loses
one. Abstracted: the labels of children and replies are one strong task;
`iteration-progress.json` is only informative; files are not altered from outside during
a run; sampling of past games is unbounded; `C4Dataset` has the writing of the staged
manifest and the rename of its directory in one step (`Publish`).

## 3. Runs

Times are of two cores.

| run | instance | time | shows |
|---|---|---|---|
| `usi_pure` | three lines, one unread, two positions, one option value | 2:05 | safety, the refinement of `UsiContract`, and that nobody waits for ever, in all interleavings |
| `parallel_search` | controller and two helpers, three moves, two scores, one depth | 1:50 | slots exclusive and none lost, alpha backed and monotone, refinement of `IterativeDeepening` |
| `parallel_deepening` | controller and a helper, two moves, three scores, two depths, window 1 | 1:45 | claims over replaced and repeated iterations; the search always returns |
| `evaluator_run` | two terminals, two stages, one retry, two strikes, one further attempt | 2:15 | one writer tree, idle means quiet, completion in order, finite allocation; nothing is taken back |
| `teacher_ledger` | one game and one supplement of up to two plies, one death; a coverage of one or two receipts, a manifest of two | 1:45 | budgets, permanence of answers and commits, and that the stage ends |
| `paired_execution` | two jobs, two workers, two attempts, one fault | 1:15 | the state file loads, attempts are journaled, history grows, invocations end |
| `limits_and_registry` | `MCLimitsAndRegistry`: two helpers, controller and prepass, budget 7, chunk 2; four time rules, five moves a game, all requests; two operators, two lineages, two arenas, two generations, one crash | 2:50 | credit conserved, bounded and reported exactly; no forfeit, ordered plans, the cooldown is the game's history; the registry's story |
| `data_tools` | `MCDataTools`, twelve parts | 2:50 | labels, teacher, training data, downloads, populations, files, checkpoints, exports, C4 games and datasets |
| `run_tools` | `MCRunTools`, nine parts | 2:00 | processes, stage groups, command and build receipts, evaluation, arena reports, arenas, approvals, C4 iterations |
| `leakage_scan_late` | `MCDataTools` with only the leakage scan and commits that may fail | 0:05 | violation: finding 1 |
| `training_data_holdout` | `MCDataTools` with only the training data | 0:05 | violation: finding 2 |
| `training_windows` | `MCDataTools` with only the training | 0:05 | violation: finding 3 |

Bounds. Three lines are a search, the line that supersedes it and one in flight; more
repeat these phases, since `finish` leaves no worker behind (a second option value is
covered by the proof). Budget 7 with chunk 2 gives a context several
reservations, a partial grant and a refusal. Three workers and three moves let one
thread prime while two wait, and any of them fail; two scores give ties between exact
values and bounds, three with a window of one give fails low, fails high and both in
turn. Five moves are more than the cooldown lasts; the clocks are small so that
margin, floor and cap compete. Two terminals give every race of two commands, and one
attempt after the first every resume; two strikes are a warning and a cut. One game and
its supplement give a drain in either phase; one death at each place and, because a
rerun is the same process again, every place after a rerun. Two jobs and two workers
give a batch in which one fails; two operators a stale base; two generations the first
replaced champion. The parts of the tool runs have one or two kills each: a kill in the
work, and another in its recovery where the recovery writes. Three moves of a command's
processes let a signal reach another program in either of the ways it can (`mistaken`,
`heirs`); one registry, teacher or game is replaced under an evaluation. Items,
entities, writers, exporters and models are two, the least at which something can be
mixed up; three positions or games where a third is needed as a witness (a shared
prefix, a game in two archives).

Larger instances were explored while the models were written and agree: usi_pure with
two unread lines and two option values, evaluator_run with `Sustained = 3` for one
terminal (where a stop was also seen to end the run under fairness), the tool parts
with one more kill, commands with four moves, evaluations with two replacements. A clock of sudden death over 68 moves never reached the emergency
regime in the code's own scaling.

Symmetry is used for the helpers of `parallel_search` and for the operators, lineages and
arenas of `limits_and_registry`, in runs without liveness only. Deadlock checking is off
in the runs of `ParallelSearch`, in `limits_and_registry` and in those of the tools, which
stop when a search has returned or a bound is reached; the liveness properties play its
part where the code promises an end.

Fairness is weak, for what the system keeps running: in `UsiPure` the owner and each
worker, where a search is only assumed to return when it has limits or is cancelled;
in `ParallelSearch` the controller and each helper, since the search of one root move
is of finite depth; in `TeacherLedger` the worker and its relaunches (`Work`), in
`PairedExecution` the coordinator with its threads and their engines, which have
timeouts. Peers, deadlines, cancellations, kills, edits and operators have none.

## 4. Findings

1. `scan_records` (phase10r_scan.py:979) adds an artifact to the completed set before
   it commits. When the commit or the write of the set fails, the rows are rolled back
   but the set in memory keeps the artifact; the next artifact's transaction saves
   that set, a later scan skips the artifact and publishes "passed" without any of its
   positions. `leakage_scan_late` shows it; `data_tools` checks the same property with
   failures that come earlier, where it holds.
2. `build_position_evidence` (derivation.py:471) leaves a position of a self-play game out
   of train only if the teacher labelled it in another split. A game that starts from a
   training position may meet one of a validation or test game that no selection has
   labelled, and the replay buffer then carries it into the training as train.
   docs/data/handling.md:30-33 says that "canonical-position, transposition and history
   collisions must not move holdout data into train". `training_data_holdout` shows it
   (`HoldoutStaysOut`); `data_tools` checks what the code does protect (`NothingLeaks`).
3. `_validate_resume_outputs` (train.py:1676) accepts an experiment record that is older
   than `last.pt` only if it is exactly one epoch older and a journal of this epoch is
   pending. The record is written once for each execution, not for each epoch. In a
   training that was resumed after it was recorded, a kill in the commit of its second or
   a later epoch, or between two commits, leaves files that recovery completes and every
   resume refuses, against
   `test_every_epoch_transaction_window_is_resumable_with_sparse_retention`
   (test_train.py:319), which tries the first epochs only. `training_windows` shows it
   (`EveryWindowIsResumable`); no data is lost (`TrainingLosesNothing`).

What section 2 notes under "Seen" are observations made while modelling that no run
asserts: mostly states that are refused for ever, which lose no data.

## 5. Proofs

`UsiPureProofs` proves, for any number of lines, queue bound, positions and options:
`TypeCorrect`, `WorkersAreJoined`, `HoldIsExclusive`, `CooldownStaysInMatch`,
`RejectedGoHarmless`, `AnswersFitSession`, `InfiniteWaitsForStop`, together
`SessionSound`, and `SessionImplementsContract`, from `PureAssumption`. Its `IInv` adds
to the properties what the queue may hold, the state of each worker relative to the
owner's place in `finish`, and which handler can be at which place; none of the
properties is inductive without knowing where the owner stands.

`SearchLimitsProofs` proves the bounds of a search, in nodes and in time: two
independent modules, put side by side. For the credit pool it proves, for any finite set
of helpers and any budget, ratio and chunk: `BudgetTypeCorrect`, `BudgetHolds`,
`OvershootBounded`, `UndershootBounded`, `ReportExact`, together `BudgetSound`, from
`BudgetAssumption`. The sums over contexts are cardinalities of sets of tokens
(`Tokens`), so that the finite-set theorems move one token per step. `BudgetInv` adds
where each context may be in each phase, that until the latch every node is paid except
those being reserved, that a refusal means the rest of the budget is in other threads'
hands, and that every node is in the flushed total or in one unflushed context.

For the timed match it proves, for any time rules, clocks, margins and factors that satisfy
`TimeAssumption` and `MatchAssumption`: `TypeCorrect`, `NeverForfeits` and
`PlansAreOrdered`, together `MatchSound`, and `CooldownIsHistory`. A plan made from a
request that carries the mover's clock `Fits` what the GUI grants (`MatchGoFits`, by
cases on the branch of the plan); the clock does not change between the plan and the
charge; a charge exceeds the deadline by `Lag` at most. `IInv` adds that the plan of a
waiting `go` fits too, that a held ponder has the shape to be overridden, and that
`leftover` marks the searches whose report the pending reset will erase.

`ParallelSearchProofs` proves, for any finite set of helpers, any number of moves,
scores and depths and any window: `Sharing` (`SharingIsSound`), `Currency`
(`ClaimsAreCurrent`) and `AlphaRises` (`AlphaOnlyRises`) from `SearchAssumption`, and
`Deepening` (`ImplementsDeepening`) from PVS. `IInv` has ten parts. None of the
properties is inductive by itself: a result is known to be of the right slot only while
its claim is of the current epoch (`Claims`); a claim is of the current epoch because
the controller begins an iteration only where no helper holds one (`Phases`, `Held`);
alpha is backed because what raised it is exact or about to be published (`Backed`);
and the best entry is the best move because a published bound is never above what an
exact entry or the alpha of its window holds (`Searching`, `Listed`). `Failing` carries
every failure and panic to the outcome, which is what makes the answer complete. The
refinement has one lemma for a completed depth and one for an abandoned search; every
other step stutters.

`EvaluatorRunProofs` proves, for any number of stages and terminals, any retry limits
and any kills: `Writers` (`WritersAreSound`) and `NothingBack` (`NothingIsTakenBack`),
from `RunAssumption`. Its `IInv` follows the lease: one holder among the commands
(`LeaseIsExclusive`), what a command past its checks may rely on (`LaunchIsAdmitted`),
what each step of the supervisor knows of the stage's group and of the files
(`SupervisorKnowsGroup`, `SupervisorKnowsFiles`, `GroupIsKnown`, `StageIsDue`). The
properties compare files with processes; they are not inductive because a file is
written from what its writer read some steps before, and it is the lease that keeps
that reading true. The one writer without the lease, the launcher of "Seen" above, is
excepted in the action property and nowhere else.

The same module proves `RevisionsAreSealed` (`RevisionsAreSound`) of `RunRevisions`, for
any games, budgets and kinds of run and any number of edits, approvals, launches and
losses, from `RevisionAssumption`. A review or an admission names the launch it is
about and launches only rise, so the invariant is about time. Before a revision may
change what some work rests on, that work has its receipt, and receipts stay
(`RevisionsAreEarned`); a run that awaits its review has no supervisor, and the audit and
the arena of a recovery are of the model to be reviewed (`AwaitingIsOver`). Each resume is
of an earlier launch than the present one and takes over no less than the resume before
(`ResumesAreInOrder`, `ResumesOnlyGrow`); it leaves a swap, or the failure that the review
or the admission names (`ResumesAreCleared`), and no two leave the same failure
(`ResumesAreDistinct`). `RevisionSteps` says what any step may do to receipts, approvals
and resumes; the proofs of the parts use it instead of the actions.

`TeacherLedgerProofs` proves, for any number of games, plies, supplements and deaths,
any budgets and quotas: `Ledger` (`LedgerIsSound`) and `Permanence`
(`LedgerIsPermanent`), from `LedgerAssumption`. Its `IInv` has eleven parts and follows
one game: the cursor separates accepted positions from unasked ones (`GamesArePlaced`),
so that only the row at the cursor can be hard; whatever the worker has left behind in
a pass is settled or hard (`PassIsThorough`); in round `n` of a drain a hard row stands
at ply `n` or later (`DrainAdvances`), which is why one round for each ply is enough; and
while a dataset stands every game a pass would look at is settled (`DatasetIsFrozen`),
so that a rerun moves nothing under the journal (`DirectoriesAgree`,
`JournalIsFollowed`). The lemma `Turn` gives the five outcomes a request can have for
its game, and the proofs of the parts use those instead of the actions.

The same module proves the properties of the two scans. `LeakageScans` (`ScanIsSound`), for
any artifacts, inputs and splits and any number of scans, kills and inputs replayed in
between, from `ScanAssumption` and `LateCommits \subseteq {FALSE}`: a commit that fails is
finding 1, where the property is false. The completed set is the set of artifacts whose
rows are there (`RowsAreCommitted`), a scan's copy of it is current (`ScanKnows`), and what
is said of a full database is final because nothing is left to be entered (`FullIsFinal`);
`DisjointRowsAreDisjointGames` takes the report's counts over rows back to the games.
`PopulationScans` (`PopulationIsSound`), for any records, plays, streams and hashes and any
number of replays, scans and kills, from `PopulationAssumption`. A preparation works on one
scan from its first file to its manifest (`PreparationIsOfOneScan`). The rest is about the
choice of the effective occurrence: a row that trains owns its position, so that no
occurrence of it is better protected (`TrainingRowsAreOwned`), and of two records of one
play in one stream only the lesser has rows at all (`ProofsAlwaysJoin`).

`PairedExecutionProofs` proves, for any number of jobs, workers, attempts and faults:
`Execution` (`ExecutionIsSound`), from `ExecutionAssumption`. An attempt leaves its
files one by one, and the journal takes its outcome later, from another thread; so no
part of the property is inductive. `IInv` says what each place of a thread knows of the
files of its attempt (`ThreadKnows`: none until its engine has ended, a receipt before
the classification, then what its evidence will stand on), that while a thread lives
its attempt is the last of its log and running (`ThreadIsJournaled`), that evidence
stands for good (`EvidenceIsBacked`; a valid report never gets lost, whatever an
orphaned engine does), and that the jobs still to be taken are those that may get an
attempt (`PlanIsFollowed`). With several faults an attempt
that has its quarantine record but not its evidence can still complete, on a report its
orphan has left since; this is why `EvidenceStands` follows the evidence and not the
quarantine record, as the code does.

`ModelGenerationsProofs` proves, for any operators, lineages, generations and arenas,
and any number of killed commands: `Registry` (`RegistryIsSound`: `ChampionIsEarned`,
`JournalIsRecoverable`, `ManifestAgrees`, `RevisionsAreFinal`), from
`GenerationsAssumption` and `NothingAssumption` (the value that stands for a missing
document is none of the documents). No part is inductive. A command works on a registry
it loaded without the lock; `IInv` says of each command, by its place, what it may
still rely on once it has the lock (`CommandIsSound`: what it read is a revision, what
it computed is a valid successor of that). The snapshots reach without a gap from the
first revision to the registry's or the next (`SnapshotsAreChained`), each leaves alone
what earlier ones finished (`SnapshotsExtend`), and a journal names the snapshot it
wants published and a registry before or after it (`JournalFollows`): that is why every
place a transaction can be cut off at has a way forward. A finished pipeline tells one
story: one lineage up to the registration, one arena from there to the decision, and
the two revisions that came of them (`Story`).

The same module proves, for any configurations, datasets, runtimes, losses and numbers
of epochs, and any number of killed trainings: `TrainingHistory`
(`TrainingLosesNothing`: `EpochIsRecoverable`, `FilesAgree`, and by every step
`HistoryGrows`), from `TrainingAssumption`. That a resume accepts the files is not part
of it (finding 3). The properties speak of the files; what they
rest on is what the journal was written from (`JournalIsTrue`): the files before the
epoch were one history, its checkpoint adds one row to it under the same setup, and
`best.pt` is replaced just if that row is below all others. `JournalTells` concludes
that the files after it are one history again, and `LowestOfAppended` that `best.pt`
stays the first of the lowest losses. `TrainingKnows` says by its place what a process
may rely on since it opened the directory: that the losses it holds are those of the
log or one more, that the executions it read are those of the record, and which of the
files it has already moved. A generation beside the journal's is of an earlier epoch
(`Beside`): one that a killed training left for the next epoch is the journal's own.

`ToolProofs` proves the properties of nine tools, which share at most `ProcessTable`.

- `ExportWhole` (`ExportIsWhole`), for any exporters, models, numbered files and shared
  files, and any number of deaths, from `ExportAssumption`. Until the marker is there the
  transaction file is the lock; it is set only over none, nothing but a marked export
  retires it, and whoever writes has read it with its own model (`Placed`). An export
  whose checks are older than another's commit can set the transaction again, but finds
  no file missing.
- `StageGroups` (`StageGroupsAreExclusive`), for any pids and any reuse of them, any stages
  and any number of supervisors lost, from `StageAssumption`. `StageInv` says of each
  process what it may be (`ProcessIsSound`: a zombie has a parent, a parent lives in the
  group of its child, the runner's only child is the stage) and of each process of a
  stage whose it is (`StageIsKnown`): it is of the last stage and in its group, and unless
  it is the leader the active receipt names that group. A group is signalled only while
  its leader is the runner's child, so no other program has its number; and what a lost
  supervisor leaves is either the leader, for which `Restart` waits, or under the receipt
  that holds `LaunchStage` back.
- `Iteration` (`IterationIsSound`), for any numbers of generations, baselines, stops and
  kills, from `IterationAssumption`. The property relates files only; the invariant needs
  what `execute` knows. What a folder begins with is a function of the decisions before it
  (`SpecFits`), decisions are final and follow their evidence (`DecisionFits`), the locals
  of a run are those of the last decision it has passed (`RunKnows`), however often it
  began again, and a run selects only where no further generation was to come (`Ended`),
  which is why a second run makes the same choice. `ActorIsLatest` turns the maximum of
  `Selected` into the actor of the last decision.
- `Exchanges` (`FilesAreExchanged`), for any writers, with the directory lock or without,
  any number of files, of writes into them, of programs that rename theirs over the path
  and of killed writers, from `ArtifactAssumption`. The property speaks of reports and of
  what was at the path in order (`line`); the invariant says that a file has one name
  (`OnePlace`) and what a write knows at its place (`WriterKnows`): its own file is new
  until it is shown, what it compares is what stood before its own file in the line
  (`Came`), what it disposes of is what it had found. Without the lock the theorem says
  nothing of failures; under it `LockedKnows` follows a failed write until its own file
  is out of everyone's reach or the old one is kept where no writer disposes of it. A
  reader's bytes lie between the stamp at which it opened and the present one, which
  `IsStable` finds equal.
- `Processes` (`ProcessesAreOwned`), for any pids and births, any processes and other
  programs, whatever becomes of a freed pid and whenever, from `CommandAssumption`: the
  strangers that a signal reaches are those that `mistaken` and `heirs` record.
  `CommandInv` follows the identities rather than the processes (`IdIsOurs`): one that was
  sampled is of a process of the command, or of an earlier birth, which no process has
  again, or of a stranger on record; a process that leads its group stays there, so that
  an identity lost by `setsid` does not come back. The selection of a sample contains the
  leader's number, processes of the command and heirs of that number, and nothing else
  (`TreeIsOurs`: these are closed under children, and under the leader's group, since
  other programs' parents are other programs, `IsApart`). Who comes in between two reads
  is recorded by the same step (`RowsStayTaken`, `AimStaysTaken`).
  `ProcessesMoved` says what any step may do to the table - a pid begins a new birth, a
  process dies, or it runs on as what it was - and from it alone follows what is still
  known of the sample (`TableKnown`); `LoopKnows` carries through SIGTERM, grace and
  kill what of the sample can be left.
- `CommandReceipts` (`ReceiptIsWhatRan`), for any number of changes other programs make to
  the files, the tree and HEAD, under the hypothesis `~Unlucky`: none of them falls
  between the listing of a directory and its descriptor, where the property is false. A
  change time is of a change and later than what was seen before it (`FilesAreDated`), so
  a node that has moved shows it for good (`IsMoved`: by its own time if it was listed, by
  its directory's if it was not there), and what has not moved has the bytes that were
  hashed (`NodesAreKnown`). What the child has loaded is bound or has moved since
  (`LoadedIsKnown`); the check after its end finds that nothing has, and so speaks for
  everything loaded before, also for what was put back meanwhile.
- `TeacherAnswering` (`TeacherAnswersAreOwn`), for any number of requests, of retries, of
  deaths, wrong lines and excesses of the teacher and of files replaced under it. An
  answer carries no name of its request, so it is the client's order that has to make it
  its own: between a question and its answer the teacher either has the one or gives the
  other, once, among lines nobody asked for, and otherwise has nothing to answer
  (`OneQuestion`); a late search leaves an answer behind, but the client closes the
  process before it asks again. The process held is the last one started, from files that
  were approved when they were copied, and no other runs (`OneTeacher`). A search the
  memory thread has ended is on its way to be reported, in the search with the recorded
  excess or in the closing with that error (`KillIsReported`), which is not among those
  retried.
- `EngineBuilds` (`ReceiptsAreTrue`), for any commits, trees and outcomes of a build and any
  number of changes, upgrades, touched copies and kills. The tools may change between
  their hash, their copy and the build, and a copy while it runs; so the receipt's digests
  are worth what `BuilderHolds` can say: a copy that nobody has touched is what was
  recorded, because each is held against the record as it is made, and the copies are
  looked at once more after the build, so that what is published was made by the recorded
  tools. HEAD and the work tree do not enter: the sources are those of the commit.
- `OfficialEvaluations` (`EvaluationIsSound`), for any games, plies, severities, attempts and
  any number of kills, time-outs and replacements, from `EvaluationAssumption` and with one
  command at a time (`~Overlaps`); its first half, `ReportIsOneTeacher`, is proved for
  overlapping commands too (`EvaluationReports`). Revisions of the teacher only rise and a
  row is searched by no older one than it names (`RowsAreDated`): when the report is
  written every row names the present teacher, and so was searched by it, whatever an
  earlier run had begun with. A manifest, once there, is of games played as planned
  (`AnalysisIsPlanned`). The second half is conditional on no deadline met and no exporter
  started beside an orphan, but not on when orphans commit. `AttemptsAreKnown` counts: an
  attempt that is neither usable nor in a command's hands (`CutShort`), or has an orphan
  that may yet make it so, was left there by a kill of its own.

## 6. What is only model-checked

Liveness (`NobodyWaitsForEver`, `SearchReturns`, `GenerationEnds` and the endings of the
tools): reasoning under fairness is beyond the provers. `ImplementsDeepening` without
PVS is false and not checked by a run. The arithmetic of `TimeControl` for requests that
break `MatchAssumption`. The tool modules without proofs (`TrainingData`, the downloads,
`LabelRun`, `C4Games`, `C4Dataset`, `ArenaReport`, `EvaluatorArena`): their properties
are checked on the instances of section 3 only. Some of them fold over sequences (the
index of owners of `C4Dataset`, the pairs of `ArenaReport`), which is induction over
data.

## 7. Not modelled

- Engine: the legacy session (kept for the old engine; the same `lifecycle.rs`), the
  worker policy, the game record (needs the rules of the game), the transposition
  table, analysis and learned time targets, move generation and notation (a model
  would be a second generator; tested by perft), evaluators and model formats
  (arithmetic over large arrays), opening book, secure files, CLI arena and play host
  except what `PairedExecution` uses of them, the browser runtime.
- Tooling: `evaluator_training.py`, the champion gate, checkpoint safety, sampling and
  development reports (one-shot computations over frozen inputs); the closed campaigns
  of phases 10 to 10v, whose commands refuse to start and whose code validates frozen
  evidence; parsers, static registries, audits and command lines; scripts and bindings.
- In the modelled parts: floating-point statistics, texts and formats, redirect and
  certificate rules of the downloads, the reading of `ps` and `/proc`, git itself.

One remark on the closed campaigns: `phase10s_run.py:1172-1178` aggregates a rung with
its `resource` field, so that running a summarised rung again raises "Arena aggregate
changed on resume".
