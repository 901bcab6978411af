----------------------------- MODULE LeakageScan -----------------------------
(***************************************************************************)
(* The first population scanner (data/phase10r_scan.py): it streams the    *)
(* replayed games of the approved artifacts into a database, one           *)
(* transaction per artifact, each game in one frozen split, and publishes  *)
(* what it found: a manifest of the positions, the overlaps of the splits  *)
(* and a completion proof.  A scan may be killed at any step and is run    *)
(* again over the same output directory.                                   *)
(***************************************************************************)
EXTENDS Integers, Sequences, FiniteSets

CONSTANTS
    Unpublished,    \* for a file that is not there
    SourceArtifacts, \* 1..n, in the order of their names
    Source,         \* artifact -> its source; "aobazero" keeps its own splits
    Versions,       \* artifact -> the inputs it may have, each a sequence of games
                    \* in the order of their digests; <<>> while there is none
    LateCommits,    \* whether a failure may come as late as the commit: of BOOLEAN
    MaxRuns, MaxFaults, MaxChanges      \* bounds

Inputs ==
    {v \in [SourceArtifacts -> UNION {Versions[a] : a \in SourceArtifacts} \union {<<>>}] :
             \A a \in SourceArtifacts : v[a] \in Versions[a] \union {<<>>}}

\* A game is read from its positions, and has one.
ASSUME ScanAssumption ==
    /\ Unpublished \notin Inputs
    /\ \A a \in SourceArtifacts : \A games \in Versions[a] : \A i \in DOMAIN games :
          games[i].positions # {}

VARIABLES
    input,          \* what is there to be read of each artifact
    bound,          \* the input manifest of the output directory
    database,       \* the artifacts whose rows it has, and the completed set
    run,            \* the scan that is running, if any
    manifest,       \* the full and the partial leakage manifest
    overlaps,       \* phase10r-prohibited-overlaps.json
    proof,          \* phase10r-completion-proof.json
    runs, faults, changes

scanFiles == <<bound, manifest, overlaps, proof>>
scanVars == <<input, scanFiles, database, run, runs, faults, changes>>

Splits == {"train", "validation", "source_held_out", "final_holdout"}
ElementsOf(s) == {s[i] : i \in DOMAIN s}
-----------------------------------------------------------------------------
(* The rows of an artifact                                                 *)

\* _export_game_splits: the first tenth of the games of a CSA export is held out, the
\* next tenth validates, each rounded up.
TenthOf(n) == (n + 9) \div 10
ExportSplit(i, n) ==
    IF i <= TenthOf(n) THEN "source_held_out"
    ELSE IF i <= 2 * TenthOf(n) THEN "validation" ELSE "train"

\* iter_aobazero_positions keeps the split of the earlier dataset, its test the holdout.
LegacySplit(game) == IF game.legacy = "test" THEN "final_holdout" ELSE game.legacy

\* _normalise_position
Row(a, games, i, p) ==
    LET game == games[i]
        own == Source[a] = "aobazero"
    IN [source |-> Source[a], record |-> game.record, game |-> <<Source[a], game.record>>,
        position |-> p, history |-> <<Source[a], game.record>>, key |-> game.keyed,
        version |-> IF own THEN "phase3_position" ELSE "phase3_csa_export",
        split |-> IF own THEN LegacySplit(game) ELSE ExportSplit(i, Len(games))]
RowsOf(a, games) ==
    UNION {{Row(a, games, i, p) : p \in games[i].positions} : i \in DOMAIN games}
ScannedRows(scanned) == UNION {RowsOf(a, bound[a]) : a \in ElementsOf(scanned)}
-----------------------------------------------------------------------------
(* _leakage_report                                                         *)

\* Bug: positions are compared within each source only.
Crosses_WithinSource(rows, id) ==
    \E r, s \in rows : r[id] = s[id] /\ r.split # s.split /\ r.source = s.source

\* _cross_split_count: one identity in two splits.
Crosses(rows, id) == \E r, s \in rows : r[id] = s[id] /\ r.split # s.split

\* A protected split's position in one that trains or selects.
Enters(rows, split, others) ==
    \E r, s \in rows : r.position = s.position /\ r.split = split /\ s.split \in others
\* One game is both held out and trained on.
IsTrainedOn(rows) ==
    \E r, s \in rows : r.source = s.source /\ r.game = s.game
                       /\ r.split = "source_held_out" /\ s.split = "train"
\* One position comes from two parsers.
Collides(rows) == \E r, s \in rows : r.position = s.position /\ r.version # s.version

\* Without any transposition key the absence of transpositions is not proved.
Transposes(rows) ==
    (\A r \in rows : ~r.key) \/ Crosses({r \in rows : r.key}, "position")

Overlaps(rows) ==
    {id \in {"record", "game", "position", "history"} : Crosses(rows, id)}
    \union (IF Transposes(rows) THEN {"transposition"} ELSE {})
    \union (IF Enters(rows, "final_holdout", {"train", "validation", "source_held_out"})
            THEN {"final_holdout"} ELSE {})
    \union (IF IsTrainedOn(rows) THEN {"source_held_out"} ELSE {})
    \union (IF Collides(rows) THEN {"version"} ELSE {})

\* _source_group_counts: each other source holds out a tenth of its games.
GamesIn(rows, origin, splits) ==
    {r.game : r \in {q \in rows : q.source = origin /\ q.split \in splits}}
HoldsOut(rows, origin) ==
    LET held == Cardinality(GamesIn(rows, origin, {"source_held_out"}))
    IN held > 0 /\ 10 * held >= Cardinality(GamesIn(rows, origin, Splits))
LacksHoldout(rows) ==
    {s \in {r.source : r \in rows} \ {"aobazero"} : ~HoldsOut(rows, s)}
-----------------------------------------------------------------------------
NoRun == [pc |-> "idle", left |-> {}, completed |-> {}, failed |-> {}, written |-> <<>>]
Empty == [exists |-> FALSE, bound |-> <<>>, rows |-> <<>>, completed |-> {}]

ScanInit ==
    /\ input \in Inputs
    /\ bound = Unpublished /\ database = Empty /\ run = NoRun
    /\ manifest = [full |-> Unpublished, partial |-> Unpublished]
    /\ overlaps = Unpublished /\ proof = Unpublished
    /\ runs = 0 /\ faults = 0 /\ changes = 0

\* An input arrives, or is replayed again, while no scan runs.
ChangeInput(a) ==
    /\ run = NoRun /\ changes < MaxChanges
    /\ \E v \in Versions[a] \ {input[a]} : input' = [input EXCEPT ![a] = v]
    /\ changes' = changes + 1
    /\ UNCHANGED <<scanFiles, database, run, runs, faults>>

\* scan_records: the directory is for one set of inputs, missing ones included.
StartScan ==
    /\ run = NoRun /\ runs < MaxRuns
    /\ bound \in {Unpublished, input}
    /\ bound' = input
    /\ run' = [NoRun EXCEPT !.pc = "open"]
    /\ runs' = runs + 1
    /\ UNCHANGED <<input, database, manifest, overlaps, proof, faults, changes>>

\* _create_database, _completed_artifacts
OpenDatabase ==
    /\ run.pc = "open"
    /\ database.exists => database.bound = bound
    /\ database' = [database EXCEPT !.exists = TRUE, !.bound = bound]
    /\ run' = [run EXCEPT !.pc = "scan", !.left = SourceArtifacts \ database.completed,
                   !.completed = database.completed]
    /\ UNCHANGED <<input, scanFiles, runs, faults, changes>>

Fails(a) == run' = [run EXCEPT !.left = @ \ {a}, !.failed = @ \union {a}]
IsNextArtifact(a) ==
    run.pc = "scan" /\ a \in run.left /\ \A b \in run.left : a <= b

\* An artifact without an input is a failure of the scan.
SkipArtifact(a) ==
    /\ IsNextArtifact(a) /\ input[a] = <<>>
    /\ Fails(a)
    /\ UNCHANGED <<input, scanFiles, database, runs, faults, changes>>

\* The rows of an artifact are committed together with the completed set.
ScanArtifact(a) ==
    /\ IsNextArtifact(a) /\ input[a] # <<>>
    /\ database' = [database EXCEPT !.rows = Append(@, a),
                                    !.completed = run.completed \union {a}]
    /\ run' = [run EXCEPT !.left = @ \ {a}, !.completed = @ \union {a}]
    /\ UNCHANGED <<input, scanFiles, runs, faults, changes>>

\* Whatever is raised in the middle of a stream rolls its rows back; when it is the
\* commit that fails, the set in memory already has the artifact.
FailArtifact(a) ==
    /\ IsNextArtifact(a) /\ input[a] # <<>> /\ faults < MaxFaults
    /\ \E late \in LateCommits :
          run' = [run EXCEPT !.left = @ \ {a}, !.failed = @ \union {a},
                      !.completed = IF late THEN @ \union {a} ELSE @]
    /\ faults' = faults + 1
    /\ UNCHANGED <<input, scanFiles, database, runs, changes>>

\* _write_manifest: a manifest that is already there is kept as it is.
Missing == SourceArtifacts \ run.completed
Kept(file) == IF file # Unpublished THEN file ELSE database.rows
WriteLeakage ==
    /\ run.pc = "scan" /\ run.left = {}
    /\ manifest' = IF Missing = {} THEN [manifest EXCEPT !.full = Kept(@)]
                   ELSE [manifest EXCEPT !.partial = Kept(@)]
    /\ run' = [run EXCEPT !.pc = "overlaps",
                   !.written = Kept(IF Missing = {} THEN manifest.full ELSE manifest.partial)]
    /\ UNCHANGED <<input, bound, overlaps, proof, database, runs, faults, changes>>

PublishOverlaps ==
    /\ run.pc = "overlaps"
    /\ overlaps' = Overlaps(ScannedRows(database.rows))
    /\ run' = [run EXCEPT !.pc = "proof"]
    /\ UNCHANGED <<input, bound, manifest, proof, database, runs, faults, changes>>

IsPassed ==
    /\ run.failed = {} /\ Missing = {}
    /\ Overlaps(ScannedRows(database.rows)) = {}
    /\ LacksHoldout(ScannedRows(database.rows)) = {}
PublishProof ==
    /\ run.pc = "proof"
    /\ proof' = [passed |-> IsPassed, missing |-> Missing, rows |-> database.rows,
                 manifest |-> run.written]
    /\ run' = NoRun
    /\ UNCHANGED <<input, bound, manifest, overlaps, database, runs, faults, changes>>

KillScan ==
    /\ run # NoRun /\ faults < MaxFaults
    /\ run' = NoRun /\ faults' = faults + 1
    /\ UNCHANGED <<input, scanFiles, database, runs, changes>>

ScanNext ==
    \/ \E a \in SourceArtifacts :
          ChangeInput(a) \/ SkipArtifact(a) \/ ScanArtifact(a) \/ FailArtifact(a)
    \/ StartScan \/ OpenDatabase \/ WriteLeakage \/ PublishOverlaps \/ PublishProof
    \/ KillScan
ScanSpec == ScanInit /\ [][ScanNext]_scanVars
-----------------------------------------------------------------------------
(* Properties                                                              *)

SplitOfGame(a, i) ==
    IF Source[a] = "aobazero" THEN LegacySplit(bound[a][i])
    ELSE ExportSplit(i, Len(bound[a]))

\* What scan_phase10r_v2's "passed" (phase10r_scan.py:979) says of the games themselves:
\* each approved artifact was scanned exactly once, and two games in different splits share
\* neither a record nor a position.  Not so when a failure comes as late as the commit.
PassedIsClean ==
    proof # Unpublished /\ proof.passed =>
        /\ Len(proof.rows) = Cardinality(SourceArtifacts)
        /\ ElementsOf(proof.rows) = SourceArtifacts
        /\ \A a, b \in SourceArtifacts : \A i \in DOMAIN bound[a], j \in DOMAIN bound[b] :
              SplitOfGame(a, i) # SplitOfGame(b, j) =>
                  /\ bound[a][i].record # bound[b][j].record
                  /\ bound[a][i].positions \intersect bound[b][j].positions = {}

\* The full manifest lists the database the proof is about, and a kill never made the
\* scan enter an artifact twice.
ManifestIsTheDatabase ==
    /\ Cardinality(ElementsOf(database.rows)) = Len(database.rows)
    /\ proof # Unpublished /\ proof.missing = {} =>
          proof.manifest = database.rows /\ manifest.full = database.rows

\* Both, over all kills and over inputs replayed between two scans.
ScanIsSound == PassedIsClean /\ ManifestIsTheDatabase

=============================================================================
