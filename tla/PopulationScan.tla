--------------------------- MODULE PopulationScan ---------------------------
(***************************************************************************)
(* The Phase 10R population: the replay of every approved stream           *)
(* (data/phase10r_replay.py), the scan that decides which occurrence of a  *)
(* position is effective (data/phase10r_scan_v2.py, phase10r_identity.py)  *)
(* and the training rows prepared from it (phase10r_execution.py).  Each   *)
(* is one command that leaves files for the next; one command runs at a    *)
(* time, any of them may be killed, and the replay may be run again over   *)
(* other inputs.  A play is the sequence of its positions.                 *)
(***************************************************************************)
EXTENDS Naturals, Sequences, FiniteSets

CONSTANTS
    Records,     \* archive members: numbers, in the order of their identities
    GuardedRecords, \* the records whose split an earlier dataset fixed (AobaZero)
    StreamOf,    \* [Records -> stream]: the approved artifact of each record
    Plays,       \* games that can be played
    Populations, \* the play of each record: of [Records -> Plays]
    Hashes,      \* the order of plays by split hash: of [Plays -> Nat], injective
    Revisions,   \* 1..n, bound: replays run over other inputs
    MaxPerGame,  \* MAX_POSITIONS_PER_GAME_PER_EPOCH
    MaxLosses     \* bound: commands killed

\* Sets of records are finite.
ASSUME PopulationAssumption ==
    /\ Records \subseteq Nat /\ GuardedRecords \subseteq Records
    /\ Revisions \subseteq Nat \ {0}
    /\ \A S \in SUBSET Records \ {{}} : \E r \in S : \A s \in S : s <= r

Streams == {StreamOf[r] : r \in Records}
LastOf(records) == CHOOSE r \in records : \A s \in records : s <= r
Absent == 0
NoRows == {}

VARIABLES
    plays,       \* what is recorded in each record
    hash,        \* the order of plays by their split hash
    fixed,       \* the split of each protected record
    accepted,    \* the records each revision of the replay accepts
    replay,      \* revision of each stream's replays, proofs and positions file
    completion,  \* revision of replay-completion.json
    scan,        \* revision of each file of the scan
    prepared,    \* the preparation: base files, training file, manifest
    running,     \* the command that runs, and what it is at
    losses

inputs == <<plays, hash, fixed, accepted>>
populationVars == <<inputs, replay, completion, scan, prepared, running, losses>>
-----------------------------------------------------------------------------
(* _source_games_and_splits                                                *)

PlaysOf(records) == {plays[r] : r \in records}
PlaceOf(game, games) == Cardinality({g \in games : hash[g] < hash[game]})
\* max(1, ceil(10 %)) of the games of a source.
Tenth(games) == LET tenth == (Cardinality(games) + 9) \div 10 IN
    IF tenth > 1 THEN tenth ELSE 1
\* A protected game keeps its split wherever it is recorded again; a game of
\* a play that several protected records have takes the last one's.
SplitOf(rev, game) ==
    LET guarded == {r \in accepted[rev] \cap GuardedRecords : plays[r] = game}
        games == PlaysOf(accepted[rev] \ GuardedRecords)
        place == PlaceOf(game, games)
    IN  IF guarded # {} THEN fixed[LastOf(guarded)]
        ELSE IF place < Tenth(games) THEN "source_held_out"
        ELSE IF place < 2 * Tenth(games) THEN "validation"
        ELSE "train"
-----------------------------------------------------------------------------
(* resolve_canonical_collision, _populate_effective                        *)

Rank == [final_holdout |-> 2, source_held_out |-> 3, validation |-> 4, train |-> 5]
Occurrences(rev) ==
    UNION {{[record |-> r, index |-> i, position |-> plays[r][i],
             split |-> SplitOf(rev, plays[r])] : i \in 1..Len(plays[r])} : r \in accepted[rev]}
\* Bug: the owner is taken before the splits are compared.
Wins_AnySplit(a, b) == <<a.record, a.index>> = <<b.record, b.index>> \/ a.record < b.record
\* The most protected split, then the least identity, then the least index.
Wins(a, b) ==
    \/ Rank[a.split] < Rank[b.split]
    \/ /\ a.split = b.split
       /\ \/ a.record < b.record
          \/ a.record = b.record /\ a.index <= b.index
Effective(rev) ==
    {row \in Occurrences(rev) :
        \A other \in Occurrences(rev) : other.position = row.position => Wins(row, other)}
\* Held-out games make a tenth of each source that is not the protected one,
\* and no effective row of a game crosses splits.
HeldOut(rev) ==
    {g \in PlaysOf(accepted[rev] \ GuardedRecords) : SplitOf(rev, g) = "source_held_out"}
ScanPasses(rev) ==
    Cardinality(HeldOut(rev)) >= Tenth(PlaysOf(accepted[rev] \ GuardedRecords))
-----------------------------------------------------------------------------
(* _write_base_files, _proofs_and_payloads                                 *)

PreparationSplits == {"train", "validation", "source_held_out"}
Within(rows, row) ==
    Cardinality({other \in rows : other.record = row.record /\ other.index < row.index})
        < MaxPerGame
PreparedRows(rev) ==
    LET rows == {row \in Effective(rev) : row.split \in PreparationSplits}
    IN  {row \in rows : row.split = "train" => Within(rows, row)}
Trainable(rev) ==
    \A side \in {GuardedRecords, Records \ GuardedRecords} :
        \E row \in Effective(rev) : row.split = "train" /\ row.record \in side
\* Every game with an effective row has a proof and a replay of its own: two
\* records of one play in one stream would be refused.
RelevantGames(rev, stream) ==
    {row.record : row \in {r \in Effective(rev) :
                              r.split \in PreparationSplits /\ StreamOf[r.record] = stream}}
ProofsJoin(rev) ==
    \A stream \in Streams : \A a, b \in RelevantGames(rev, stream) :
        plays[a] = plays[b] => a = b
NoOutcomes == [s \in Streams |-> Absent]
Unprepared == [base |-> NoRows, outcomes |-> NoOutcomes, train |-> NoRows, manifest |-> Absent]
-----------------------------------------------------------------------------
NoScan == [input |-> Absent, database |-> Absent, loaded |-> FALSE, decisions |-> Absent,
           effective |-> FALSE, manifest |-> Absent, proof |-> Absent]
NoProcess == [pc |-> "idle", rev |-> Absent]

\* A second revision rejects a record, or replays what the first one did.
PopulationInit ==
    /\ plays \in Populations
    /\ hash \in Hashes
    /\ fixed \in [GuardedRecords -> {"train", "validation", "final_holdout"}]
    /\ accepted \in [Revisions -> {Records, Records \ {LastOf(Records)}}]
    /\ accepted[1] = Records
    /\ replay = [s \in Streams |-> [proofs |-> Absent, replays |-> Absent, positions |-> Absent,
                                    assigned |-> FALSE]]
    /\ completion = Absent
    /\ scan = NoScan
    /\ prepared = Unprepared
    /\ running = NoProcess
    /\ losses = 0

IsAt(pc) == running.pc = pc
GoesTo(pc) == running' = [running EXCEPT !.pc = pc]
EndCommand == running' = NoProcess
-----------------------------------------------------------------------------
(* run_replay: the files of each stream, the splits, the completion        *)

RunReplay(rev) ==
    /\ IsAt("idle")
    /\ \A s \in Streams : replay[s].replays < rev
    /\ running' = [pc |-> "replay", rev |-> rev]
    /\ UNCHANGED <<inputs, replay, completion, scan, prepared, losses>>
StreamsBefore(s) == {t \in Streams : t < s}
IsNextFile(s, file) ==
    /\ file # running.rev
    /\ \A t \in StreamsBefore(s) : replay[t].positions = running.rev
WriteReplay(s) ==
    /\ IsAt("replay")
    /\ IsNextFile(s, replay[s].replays)
    /\ replay' = [replay EXCEPT ![s].replays = running.rev]
    /\ UNCHANGED <<inputs, completion, scan, prepared, running, losses>>
WriteProofs(s) ==
    /\ IsAt("replay")
    /\ replay[s].replays = running.rev
    /\ IsNextFile(s, replay[s].proofs)
    /\ replay' = [replay EXCEPT ![s].proofs = running.rev]
    /\ UNCHANGED <<inputs, completion, scan, prepared, running, losses>>
WritePositions(s) ==
    /\ IsAt("replay")
    /\ replay[s].proofs = running.rev
    /\ IsNextFile(s, replay[s].positions)
    /\ replay' = [replay EXCEPT ![s].positions = running.rev, ![s].assigned = FALSE]
    /\ UNCHANGED <<inputs, completion, scan, prepared, running, losses>>
AssignSplits(s) ==
    /\ IsAt("replay")
    /\ \A t \in Streams : replay[t].positions = running.rev
    /\ ~replay[s].assigned
    /\ \A t \in StreamsBefore(s) : replay[t].assigned
    /\ replay' = [replay EXCEPT ![s].assigned = TRUE]
    /\ UNCHANGED <<inputs, completion, scan, prepared, running, losses>>
CompleteReplay ==
    /\ IsAt("replay")
    /\ \A s \in Streams : replay[s].positions = running.rev /\ replay[s].assigned
    /\ completion' = running.rev
    /\ EndCommand
    /\ UNCHANGED <<inputs, replay, scan, prepared, losses>>
-----------------------------------------------------------------------------
(* scan_phase10r_v2: every file is written over, the proof last            *)

RunScan ==
    /\ IsAt("idle")
    /\ completion # Absent
    /\ running' = [pc |-> "scan input", rev |-> completion]
    /\ UNCHANGED <<inputs, replay, completion, scan, prepared, losses>>
Scan(pc, next, files) ==
    /\ IsAt(pc)
    /\ scan' = files
    /\ GoesTo(next)
    /\ UNCHANGED <<inputs, replay, completion, prepared, losses>>
WriteInput == Scan("scan input", "database", [scan EXCEPT !.input = running.rev])
CreateDatabase ==
    Scan("database", "load",
         [scan EXCEPT !.database = running.rev, !.loaded = FALSE, !.effective = FALSE])
\* The hash of each stream's files is the one the completion gives.
IsComplete(s) ==
    /\ replay[s].proofs = running.rev
    /\ replay[s].positions = running.rev
    /\ replay[s].assigned
LoadPositions ==
    /\ \A s \in Streams : IsComplete(s)
    /\ Scan("load", "decide", [scan EXCEPT !.loaded = TRUE])
RefusePositions ==
    /\ IsAt("load")
    /\ \E s \in Streams : ~IsComplete(s)
    /\ EndCommand
    /\ UNCHANGED <<inputs, replay, completion, scan, prepared, losses>>
CollisionDecisions == Scan("decide", "populate", [scan EXCEPT !.decisions = running.rev])
PopulateEffective == Scan("populate", "manifest", [scan EXCEPT !.effective = TRUE])
WriteManifest == Scan("manifest", "proof", [scan EXCEPT !.manifest = running.rev])
WriteProof ==
    /\ IsAt("proof")
    /\ scan' = [scan EXCEPT !.proof = running.rev]
    /\ EndCommand
    /\ UNCHANGED <<inputs, replay, completion, prepared, losses>>
-----------------------------------------------------------------------------
(* _scan_identity, prepare_scale, validate_preparation                     *)

HasScan(rev) ==
    /\ rev # Absent
    /\ completion = rev
    /\ scan = [input |-> rev, database |-> rev, loaded |-> TRUE, decisions |-> rev,
               effective |-> TRUE, manifest |-> rev, proof |-> rev]
    /\ ScanPasses(rev)
PrepareScale ==
    /\ IsAt("idle")
    /\ HasScan(scan.proof)
    /\ Trainable(scan.proof)
    /\ prepared = Unprepared
    /\ running' = [pc |-> "base", rev |-> scan.proof]
    /\ UNCHANGED <<inputs, replay, completion, scan, prepared, losses>>
Prepare(pc, next, files) ==
    /\ IsAt(pc)
    /\ prepared' = files
    /\ running' = IF next = "idle" THEN NoProcess ELSE [running EXCEPT !.pc = next]
    /\ UNCHANGED <<inputs, replay, completion, scan, losses>>
\* The rows are the database's; what became of a game is the replay file's.
WriteBaseFiles ==
    Prepare("base", "train",
            [prepared EXCEPT !.base = PreparedRows(scan.database),
                             !.outcomes = [s \in Streams |-> replay[s].replays]])
\* The sources are cycled until each has given its quota.
WriteTrain ==
    Prepare("train", "prepared",
            [prepared EXCEPT !.train = {row \in prepared.base : row.split = "train"}])
PublishManifest == Prepare("prepared", "idle", [prepared EXCEPT !.manifest = running.rev])
-----------------------------------------------------------------------------
KillCommand ==
    /\ ~IsAt("idle")
    /\ losses < MaxLosses
    /\ losses' = losses + 1
    /\ EndCommand
    /\ UNCHANGED <<inputs, replay, completion, scan, prepared>>

PopulationNext ==
    \/ \E rev \in Revisions : RunReplay(rev)
    \/ \E s \in Streams :
        WriteReplay(s) \/ WriteProofs(s) \/ WritePositions(s) \/ AssignSplits(s)
    \/ CompleteReplay
    \/ RunScan \/ WriteInput \/ CreateDatabase \/ LoadPositions \/ RefusePositions
    \/ CollisionDecisions \/ PopulateEffective \/ WriteManifest \/ WriteProof
    \/ PrepareScale \/ WriteBaseFiles \/ WriteTrain \/ PublishManifest
    \/ KillCommand
PopulationSpec == PopulationInit /\ [][PopulationNext]_populationVars
-----------------------------------------------------------------------------
\* The preparation the campaign accepts: it names the scan that is there.
Validates == prepared.manifest # Absent /\ HasScan(prepared.manifest)

(* A preparation that validates trains on no position that any record of   *)
(* the scanned population holds out, through all kills, replays and scans  *)
(* in between.                                                             *)
HoldoutsStayOut ==
    Validates => \A row \in prepared.train, other \in Occurrences(completion) :
        other.split # "train" => other.position # row.position

(* A population that passes the scan can be prepared: every game that owns *)
(* a row has a proof of its own, although one play may be recorded twice.  *)
ScannedIsPreparable ==
    scan.proof # Absent /\ HasScan(scan.proof) => ProofsJoin(scan.proof)

(* Both: the prepared population has every game in one split, and names    *)
(* the revision of the files it was made from (phase10r_execution.py).     *)
PopulationIsSound == HoldoutsStayOut /\ ScannedIsPreparable
=============================================================================
