SPECIFICATION Spec
CONSTANTS
    m1 = m1
    m2 = m2
    r1 = r1
    r1run = r1run
    r2 = r2
    NUMERIC = NUMERIC
    TIMESTAMP = TIMESTAMP
    p1 = p1
    p2 = p2
    NoRow = NoRow
    Unbound = Unbound
    Migration = {m1, m2}
    Resource = {r1, r1run, r2}
    MigrationOf <- MCMigrationOf
    MaxEpoch = 2
    Job = {j1}
    Status = {prepared}
    Table = {t1}
    Position <- MCPosition
    Fingerprint = {p1, p2, Unbound}
    WatermarkType = {NUMERIC, TIMESTAMP}
SYMMETRY MCSymmetry
INVARIANTS CheckpointReadable LiveHolderCanSave
PROPERTIES EpochNeverRegresses WatermarkNeverRegresses PlanNeverRebound
