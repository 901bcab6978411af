------------------------------ MODULE LabelRun ------------------------------
(***************************************************************************)
(* The output directory of the teacher labels (labeling/pipeline.py):      *)
(* run_labeling appends one row per selected position to labels.jsonl or   *)
(* quarantine.jsonl and replaces manifest.json, a checkpoint of both, now  *)
(* and then; audit_labeling_output checks all three, and                   *)
(* migrate_label_manifest_v2 replaces a finished v1 manifest.  A command   *)
(* may be killed, interrupted or short of disk at any step, and is invoked *)
(* again.  A position is its place in the selection, and a row of a file   *)
(* is never changed, so that the digest of a prefix is the prefix.         *)
(***************************************************************************)
EXTENDS Naturals, SequencesExt

CONSTANTS
    Commands,          \* processes of `python -m ...labeling`
    Selected,          \* positions of the selection (10000)
    Inputs,            \* selection, teacher, configuration and benchmark, by digest
    MaxQuarantined,    \* labeling.max_quarantined
    ManifestInterval,  \* labeling.manifest_interval
    MaxFaults          \* bound: commands killed, interrupted or short of disk

Positions == 1..Selected
None == [schema |-> "none"]
Idle == [pc |-> "idle"]

\* What analyze_with_retry raises (usi.py), and what a resume accepts of it.
Categories == {"timeout", "process", "protocol",
               "integrity", "memory_limit", "normal_move_unavailable"}
Recoverable == {"process", "protocol", "timeout"}

VARIABLES
    labels,      \* rows of labels.jsonl
    quarantine,  \* rows of quarantine.jsonl
    torn,        \* a file ends in an incomplete line
    manifest,    \* manifest.json
    evidence,    \* the v1 manifest kept by a migration
    command,     \* what each command is at
    benchmarks,  \* inputs with a benchmark report, and the nodes it selects
    mishaps      \* how many there were

files == <<labels, quarantine, torn, manifest, evidence>>
labelVars == <<files, command, benchmarks, mishaps>>

Labelled(rows) == {rows[i].pos : i \in DOMAIN rows}
Legacy(target, i) ==
    LET rows == [p \in Positions |-> [pos |-> p, inputs |-> i]] IN
    [schema |-> "v1", inputs |-> i, labels |-> rows, quarantine |-> <<>>,
     completed |-> Positions, quarantined |-> {}, target |-> target, migrated |-> FALSE]

\* A new directory, or one that an earlier release finished under a v1 manifest.
LabelInit ==
    /\ manifest \in {None} \union {Legacy(t, i) : t \in Positions, i \in Inputs}
    /\ labels = IF manifest = None THEN <<>> ELSE manifest.labels
    /\ quarantine = <<>>
    /\ torn = FALSE
    /\ evidence = None
    /\ command = [c \in Commands |-> Idle]
    /\ benchmarks = [i \in Inputs |-> "none"]
    /\ mishaps = 0
-----------------------------------------------------------------------------
(* What a command checks before it trusts the directory                    *)

\* Selection, dataset, configuration, teacher and benchmark are compared in full.
SameInputs(x, inputs) == x.inputs = inputs

\* The recorded prefix of each file still stands; what follows it is a tail
\* no manifest took in yet.  A migrated manifest repeats its origin.
IsOrigin(m, origin) == origin = [m EXCEPT !.schema = "v1", !.migrated = FALSE]
ManifestStands(inputs) ==
    /\ SameInputs(manifest, inputs)
    /\ IsPrefix(manifest.labels, labels)
    /\ IsPrefix(manifest.quarantine, quarantine)
    /\ manifest.migrated => IsOrigin(manifest, evidence)

RowsStand(inputs) ==
    /\ ~torn
    /\ \A i \in DOMAIN labels : SameInputs(labels[i], inputs)
    /\ \A i \in DOMAIN quarantine :
          /\ SameInputs(quarantine[i], inputs)
          /\ quarantine[i].category \in Recoverable
    /\ Len(labels) + Len(quarantine)
          = Cardinality(Labelled(labels) \union Labelled(quarantine))

\* The first n positions of a set, in the order of the selection.
FirstOf(set, n) == {p \in set : Cardinality({q \in set : q < p}) < n}
ProgressStands(m) ==
    /\ m.completed = FirstOf(Labelled(labels), Cardinality(m.completed))
    /\ m.quarantined = FirstOf(Labelled(quarantine), Cardinality(m.quarantined))
    /\ Len(m.labels) = Cardinality(m.completed)
    /\ Len(m.quarantine) = Cardinality(m.quarantined)
IsExact(m) ==
    /\ ~torn
    /\ m.labels = labels
    /\ m.quarantine = quarantine

Resumes(inputs) ==
    IF manifest = None THEN labels = <<>> /\ quarantine = <<>> /\ ~torn
    ELSE /\ manifest.schema = "v2"
         /\ ManifestStands(inputs)
         /\ RowsStand(inputs)
         /\ ProgressStands(manifest)

\* _write_manifest: the digests are those of the files, the identities those of
\* the command's progress; a migration is kept.
Manifest(c) ==
    [schema |-> "v2", inputs |-> command[c].inputs,
     labels |-> labels, quarantine |-> quarantine,
     completed |-> command[c].completed, quarantined |-> command[c].quarantined,
     target |-> command[c].target,
     migrated |-> command[c].migrates \/ (manifest # None /\ manifest.migrated)]
WriteManifest(c) == manifest' = IF torn THEN manifest ELSE Manifest(c)

Done(c) == command[c].completed \union command[c].quarantined
Step(c, pc) == command' = [command EXCEPT ![c].pc = pc]
-----------------------------------------------------------------------------
(* run_benchmark, whose report is written once and authorizes the inputs   *)

Benchmark(i, nodes) ==
    /\ benchmarks[i] = "none"
    /\ benchmarks' = [benchmarks EXCEPT ![i] = nodes]
    /\ UNCHANGED <<files, command, mishaps>>
\* verify_benchmark_report, recomputed from the rows of the report.
IsAuthorized(inputs) == benchmarks[inputs] = "configured"
-----------------------------------------------------------------------------
(* run_labeling                                                            *)

\* Bug: the lock is not taken.
LockIsFree_Ignored == TRUE
\* _OutputLock and _ExistingOutputLock: flock, without waiting.
LockIsFree == \A c \in Commands : command[c] = Idle

Open(c, inputs, target) ==
    /\ command[c] = Idle
    /\ IsAuthorized(inputs)
    /\ LockIsFree
    /\ command' = [command EXCEPT ![c] =
          [pc |-> "opened", inputs |-> inputs, target |-> target, changed |-> 0,
           completed |-> {}, quarantined |-> {}, writes |-> FALSE, migrates |-> FALSE]]
    /\ UNCHANGED <<files, benchmarks, mishaps>>

\* The first manifest precedes every row.
FirstManifest(c) ==
    /\ command[c].pc = "opened"
    /\ manifest = None
    /\ Resumes(command[c].inputs)
    /\ WriteManifest(c)
    /\ UNCHANGED <<labels, quarantine, torn, evidence, command, benchmarks, mishaps>>

\* _load_progress: the rows of the files, the tail included.
Progress(rows, recorded) == Labelled(rows)

Limited(c) ==
    /\ Len(quarantine) >= MaxQuarantined
    /\ Labelled(labels) \union Labelled(quarantine) # Positions
Resume(c) ==
    /\ command[c].pc = "opened"
    /\ manifest # None
    /\ Resumes(command[c].inputs)
    /\ command' = [command EXCEPT
          ![c].pc = IF Limited(c) THEN "ending" ELSE "labelling",
          ![c].completed = Progress(labels, manifest.completed),
          ![c].quarantined = Progress(quarantine, manifest.quarantined),
          ![c].writes = TRUE]
    /\ UNCHANGED <<files, benchmarks, mishaps>>
Refuse(c) ==
    /\ command[c].pc = "opened"
    /\ ~Resumes(command[c].inputs)
    /\ Step(c, "ending")
    /\ UNCHANGED <<files, benchmarks, mishaps>>

NextPosition(c) == CHOOSE p \in Positions \ Done(c) :
                      \A q \in Positions \ Done(c) : p <= q
Wants(c) ==
    /\ command[c].pc = "labelling"
    /\ command[c].changed < ManifestInterval
    /\ Cardinality(command[c].completed) < command[c].target
    /\ Done(c) # Positions

\* The row is on disk before the command counts it.
AppendLabel(c) ==
    /\ Wants(c)
    /\ ~torn
    /\ labels' = Append(labels, [pos |-> NextPosition(c), inputs |-> command[c].inputs])
    /\ Step(c, "labelled")
    /\ UNCHANGED <<quarantine, torn, manifest, evidence, benchmarks, mishaps>>
CountLabel(c) ==
    /\ command[c].pc = "labelled"
    /\ command' = [command EXCEPT ![c].pc = "labelling", ![c].changed = @ + 1,
                                  ![c].completed = @ \union {NextPosition(c)}]
    /\ UNCHANGED <<files, benchmarks, mishaps>>

\* The legality validator cannot be started, or refuses the teacher's moves.
Reject(c) ==
    /\ command[c].pc = "opened" \/ Wants(c)
    /\ Step(c, "ending")
    /\ UNCHANGED <<files, benchmarks, mishaps>>

AppendQuarantine(c, category) ==
    /\ Wants(c)
    /\ ~torn
    /\ quarantine' = Append(quarantine,
          [pos |-> NextPosition(c), inputs |-> command[c].inputs, category |-> category])
    /\ Step(c, "quarantined")
    /\ UNCHANGED <<labels, torn, manifest, evidence, benchmarks, mishaps>>
AtLimit(n) == n >= MaxQuarantined
CountQuarantine(c) ==
    /\ command[c].pc = "quarantined"
    /\ LET quarantined == command[c].quarantined \union {NextPosition(c)} IN
       command' = [command EXCEPT
          ![c].pc = IF AtLimit(Cardinality(quarantined)) THEN "ending" ELSE "labelling",
          ![c].quarantined = quarantined, ![c].changed = @ + 1]
    /\ UNCHANGED <<files, benchmarks, mishaps>>

Save(c) ==
    /\ command[c].pc = "labelling"
    /\ command[c].changed >= ManifestInterval
    /\ WriteManifest(c)
    /\ command' = [command EXCEPT ![c].changed = 0]
    /\ UNCHANGED <<labels, quarantine, torn, evidence, benchmarks, mishaps>>
Finish(c) ==
    /\ command[c].pc = "labelling"
    /\ command[c].changed < ManifestInterval
    /\ ~Wants(c)
    /\ Step(c, "ending")
    /\ UNCHANGED <<files, benchmarks, mishaps>>
\* The finally clauses, however the command ends.
End(c) ==
    /\ command[c].pc = "ending"
    /\ IF command[c].writes THEN WriteManifest(c) ELSE UNCHANGED manifest
    /\ command' = [command EXCEPT ![c] = Idle]
    /\ UNCHANGED <<labels, quarantine, torn, evidence, benchmarks, mishaps>>
-----------------------------------------------------------------------------
(* audit_labeling_output changes nothing; migrate_label_manifest_v2 makes   *)
(* the same checks before it keeps the v1 manifest and replaces it.        *)

Accepts(inputs) ==
    /\ manifest # None
    /\ ManifestStands(inputs)
    /\ IsExact(manifest)
    /\ RowsStand(inputs)
    /\ ProgressStands(manifest)

IsFinished(m) == m.completed = Positions /\ m.quarantined = {}
Migrate(c, inputs) ==
    /\ command[c] = Idle
    /\ IsAuthorized(inputs)
    /\ LockIsFree
    /\ manifest # None
    /\ manifest.schema = "v1"
    /\ Accepts(inputs)
    /\ IsFinished(manifest)
    /\ evidence \in {None, manifest}
    /\ evidence' = manifest
    /\ command' = [command EXCEPT ![c] =
          [pc |-> "migrating", inputs |-> inputs, target |-> Selected, changed |-> 0,
           completed |-> manifest.completed, quarantined |-> {},
           writes |-> FALSE, migrates |-> TRUE]]
    /\ UNCHANGED <<labels, quarantine, torn, manifest, benchmarks, mishaps>>
PublishV2(c) ==
    /\ command[c].pc = "migrating"
    /\ WriteManifest(c)
    /\ Step(c, "ending")
    /\ UNCHANGED <<labels, quarantine, torn, evidence, benchmarks, mishaps>>
-----------------------------------------------------------------------------
(* Faults                                                                  *)

IsRunning(c) == command[c].pc \in {"labelling", "labelled", "quarantined"}
\* An exception of the interpreter (KeyboardInterrupt), or a check after the row.
Interrupt(c) ==
    /\ IsRunning(c)
    /\ mishaps < MaxFaults
    /\ mishaps' = mishaps + 1
    /\ Step(c, "ending")
    /\ UNCHANGED <<files, benchmarks>>
Kill(c) ==
    /\ command[c] # Idle
    /\ mishaps < MaxFaults
    /\ mishaps' = mishaps + 1
    /\ command' = [command EXCEPT ![c] = Idle]
    /\ UNCHANGED <<files, benchmarks>>
\* Part of a row is written: the disk is full, or the command is killed.
Tear(c) ==
    /\ Wants(c)
    /\ mishaps < MaxFaults
    /\ mishaps' = mishaps + 1
    /\ torn' = TRUE
    /\ command' \in {[command EXCEPT ![c].pc = "ending"], [command EXCEPT ![c] = Idle]}
    /\ UNCHANGED <<labels, quarantine, manifest, evidence, benchmarks>>

LabelNext ==
    \/ \E i \in Inputs, n \in {"configured", "other"} : Benchmark(i, n)
    \/ \E c \in Commands :
            \/ \E i \in Inputs, t \in Positions : Open(c, i, t)
            \/ FirstManifest(c) \/ Resume(c) \/ Refuse(c)
            \/ AppendLabel(c) \/ CountLabel(c) \/ Reject(c)
            \/ \E k \in Categories : AppendQuarantine(c, k)
            \/ CountQuarantine(c)
            \/ Save(c) \/ Finish(c) \/ End(c)
            \/ \E i \in Inputs : Migrate(c, i)
            \/ PublishV2(c)
            \/ Interrupt(c) \/ Kill(c) \/ Tear(c)
LabelSpec == LabelInit /\ [][LabelNext]_labelVars
-----------------------------------------------------------------------------
(* Whatever was killed or resumed, each position has one row, rows follow  *)
(* the selection, all come from the same authorized inputs, and the        *)
(* teacher's failures stay within the limit.                               *)
Ascending(rows) == \A i, j \in DOMAIN rows : i < j => rows[i].pos < rows[j].pos
RowsAreUnique ==
    /\ Ascending(labels)
    /\ Ascending(quarantine)
    /\ Labelled(labels) \intersect Labelled(quarantine) = {}
RowsShareInputs ==
    \A i, j \in DOMAIN (labels \o quarantine) :
        (labels \o quarantine)[i].inputs = (labels \o quarantine)[j].inputs
LabelsAreSound ==
    /\ RowsAreUnique
    /\ RowsShareInputs
    /\ \A i \in DOMAIN labels : manifest.schema = "v2" => IsAuthorized(labels[i].inputs)
    /\ Len(quarantine) <= MaxQuarantined

(* A checkpoint is never taken back: every manifest extends the one before *)
(* it, and evidence is written once.                                       *)
CheckpointsGrow ==
    /\ manifest # None =>
          /\ manifest' # None
          /\ IsPrefix(manifest.labels, manifest'.labels)
          /\ manifest.completed \subseteq manifest'.completed
          /\ manifest.quarantined \subseteq manifest'.quarantined
          /\ manifest.migrated => manifest'.migrated
    /\ evidence # None => evidence' = evidence
=============================================================================
