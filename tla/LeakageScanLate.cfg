\* The leakage scan with failures as late as its commit.
SPECIFICATION Spec
CONSTANTS
    Parts = {"leakage"}
    LateCommits = {FALSE, TRUE}
    SourceArtifacts = {1, 2, 3}
    Source <- ArtifactSources
    Versions <- Exports
    Unpublished = Unpublished
    MaxRuns = 3
    MaxFaults = 2
    MaxChanges = 1
    Records = {1, 2, 3, 4, 5}
    GuardedRecords = {1}
    StreamOf <- RecordStreams
    Plays <- Played
    Populations <- Populated
    Hashes <- Hashed
    Revisions = {1, 2}
    MaxPerGame = 2
    MaxLosses = 1
    Configs = {"c1", "c2"}
    Datasets = {"d1"}
    Runtimes = {"r1", "r2"}
    Epochs = 3
    Losses = {1, 2}
    RetainEvery = 2
    MaxTrainingKills = 2
    Exporters = {"x1", "x2"}
    Models = {"m1", "m2"}
    ExportFiles = {1, 2, 3}
    Shared = {1}
    MaxDeaths = 2
    Writers = {"json", "state"}
    Replacers = {"state"}
    Forgetters = {"json"}
    Locked = TRUE
    MaxRetired = 1
    MaxFiles = 4
    MaxWrites = 1
    MaxKills = 1
    LastRequest = 2
    MaxRetries = 1
    MaxSurprises = 3
INVARIANT PassedIsClean
CHECK_DEADLOCK FALSE
