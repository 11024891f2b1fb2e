\* Liveness: what is queued, batched or held is brought to an end.
CONSTANTS
    Watchers <- MCWatchers
    Changes <- MCChanges
    Children = {1, 2}
    Requests = {r1}
    Packages = {p1}
    None = None
    MaxEdits = 1
    MaxFaults = 1
SPECIFICATION FairSpec
PROPERTIES
    BatchesSettle
    UseGetsAServer
