SPECIFICATION Spec
CONSTANTS
    Parts = {"process", "stage", "command", "build", "official", "report",
             "arena", "revisions", "iteration"}
    BuildCommits = {1, 2, 3}
    SourceOf <- CommitTrees
    Takes = {1}
    MaxCopies = 1
    MaxWorkMoves = 1
    MaxUpgrades = 1
    MaxBuilderKills = 1
    Games = {1, 2}
    Plies = {1, 2}
    Severity <- Severities
    HardCp = 2
    MaxHard = 2
    MaxAttempts = 3
    Overlaps = FALSE
    MaxEvaluatorKills = 2
    MaxTimeouts = 1
    MaxReplacements = 1
    RunGames = {1, 2}
    Inherited = {1}
    RunKinds = {"recovery", "c4"}
    Edited = {"data", "teacher", "config"}
    Budget = 1
    MaxEdits = 1
    MaxLaunches = 3
    MaxFaults = 1
    Pids = {1, 2, 3}
    MaxBirths = 2
    Reusable = {1, 2, 3}
    Leader = 1
    MaxMoved = 3
    MaxMoves = 5
    MaxChanges = 2
    Unlucky = FALSE
    Programs <- StagePrograms
    MinGenerations = 2
    MaxGenerations = 3
    Baselines = {"initial", "default"}
    MaxStops = 1
INVARIANTS
    ProcessesAreOwned
    ReceiptIsWhatRan
    ReceiptsAreTrue
    EvaluationIsSound
    RevisionsAreSound
    EvidenceIsSound
    PromotionIsOneSided
    StageGroupsAreExclusive
    IterationIsSound
PROPERTIES
    ArenaIsSound
CHECK_DEADLOCK FALSE
