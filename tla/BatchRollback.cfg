SPECIFICATION Spec
CONSTANTS
    Executor = {x1, x2}
    Fingerprint = {f1}
    MaxEpoch = 3
    None = None
    Request = {r1, r2}
INVARIANTS TargetRolledBackOnce OneOutcome TombstoneTellsTruth CommitsNewestExecution OneCanCommit
