SPECIFICATION Spec
CONSTANTS
    extract = extract
    apply = apply
    audit = audit
    Nodes <- Forked
    Rank <- ForkedRank
    Deps <- ForkedDeps
    Starts = {s1, s2}
    Posts = {p1}
    Answers = {"success", "failure", "malformed", "raise", "progress"}
    Finite = FALSE
    MaxExecs = 2
    MaxAttempts = 5
    MaxInvocations = 4
    MaxCommands = 3
SYMMETRY Threadwise
INVARIANTS
    PlanSuccessIsReal
    InvokedInOrder
    CancelledPlanIsQuiet
    CompletionFindsItsRow
PROPERTIES
    SucceededIsKept
CHECK_DEADLOCK FALSE
