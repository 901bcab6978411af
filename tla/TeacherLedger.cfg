CONSTANTS
    Games = 1
    Supplement = 1
    Plies = 2
    FocusPly = 1
    AttemptSeconds = 2
    TaskSeconds = 4
    HardAttempts = 2
    HardSeconds = 3
    WorkerRestarts = 1
    ReceiptQuotas = {1, 2}
    ManifestQuotas = {2}
    MaxDeaths = 1
SPECIFICATION Spec
INVARIANT LedgerIsSound
PROPERTIES LedgerIsPermanent GenerationEnds
