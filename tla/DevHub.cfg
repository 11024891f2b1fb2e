SPECIFICATION Spec
CONSTANTS
    a1 = a1
    a2 = a2
    v1 = v1
    v2 = v2
    None = None
    Free = Free
    Taken = Taken
    App = {a1, a2}
    Server = {v1, v2}
    Slots = 1
    Removable = {a1}
    Hanging = {a1, a2}
    MaxTasks = 2
SYMMETRY Symmetry
INVARIANTS OneServerPerApp TracksItsServers TakenIsPending ReapsWhatItJudged
