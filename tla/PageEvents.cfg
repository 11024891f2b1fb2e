\* Three calls of events of each debounce, over one request.
CONSTANTS
    plain = plain
    leading = leading
    trailing = trailing
    q = q
    None = None
    Events <- MCEvents
    Requests = {q}
    Debounce <- MCDebounce
    Actions <- MCActions
    MaxCalls = 3
    MaxFetches = 3
SPECIFICATION FairSpec
INVARIANTS
    SettledAsItRan
    LoadingIsBusy
PROPERTIES
    ShownByTheNewest
    CallsSettle
CHECK_DEADLOCK FALSE
