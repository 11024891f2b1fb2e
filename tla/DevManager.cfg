\* Safety: two edits of any kind, one failure.
CONSTANTS
    Watchers <- MCWatchers
    Changes <- MCChanges
    Children = {1, 2, 3}
    Requests = {r1}
    Packages = {p1}
    None = None
    MaxEdits = 2
    MaxFaults = 1
SPECIFICATION Spec
INVARIANTS
    BatchesAreHandled
    NoOrphanChild
    IdleServesTheLastEdit
    StoppedIsUnused
PROPERTIES
    StartsAlone
