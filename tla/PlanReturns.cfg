SPECIFICATION FairSpec
CONSTANTS
    extract = extract
    apply = apply
    audit = audit
    Nodes <- Roots
    Rank <- RootsRank
    Deps <- RootsDeps
    Starts = {s1, s2}
    Posts = {p1}
    Answers = {"success", "failure", "raise", "progress"}
    Finite = TRUE
    MaxExecs = 1
    MaxAttempts = 4
    MaxInvocations = 4
    MaxCommands = 2
INVARIANTS
    RestsOnlyWaiting
PROPERTIES
    AdvanceReturns
CHECK_DEADLOCK FALSE
