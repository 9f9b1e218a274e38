SPECIFICATION FairSpec
CONSTANTS
    extract = extract
    apply = apply
    audit = audit
    Nodes <- Chain
    Rank <- ChainRank
    Deps <- ChainDeps
    Starts = {s1}
    Posts = {}
    Answers = {"success", "failure", "malformed", "raise", "progress"}
    Finite = TRUE
    MaxExecs = 1
    MaxAttempts = 3
    MaxInvocations = 3
    MaxCommands = 0
PROPERTIES
    SuccessorsActivated
CHECK_DEADLOCK FALSE
