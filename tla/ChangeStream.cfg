SPECIFICATION FairSpec
CONSTANTS
    Key = {1, 2}
    Value = {"v", "v ", "w"}
    Absent = "absent"
    Normal <- MCNormal
    Torn = Torn
    Loaded <- MCLoaded
    Calls = {"sync"}
    StreamMax = 2
    DrainMax = 3
    MaxPerFetch = 2
    MaxPasses = 1
    MaxWrites = 2
    MaxFaults = 1
    MaxCrashes = 1
INVARIANTS
    TypeOK
    NoChangeForgotten
PROPERTIES
    StreamConverges
