SPECIFICATION FairSpec
CONSTANTS
    Key = {1, 2}
    Value = {"v", "v ", "w"}
    Absent = "absent"
    Normal <- MCNormal
    Torn = Torn
    Loaded <- MCLoaded
    Calls = {"sync", "complete"}
    StreamMax = 2
    DrainMax = 3
    MaxPerFetch = 2
    MaxPasses = 1
    MaxWrites = 2
    MaxFaults = 0
    MaxCrashes = 0
PROPERTIES
    CutoverCarriesAll
