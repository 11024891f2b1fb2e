SPECIFICATION Spec
CONSTANTS
    ticker = ticker
    p1 = p1
    p2 = p2
    x1 = x1
    x2 = x2
    screen1 = screen1
    screen2 = screen2
    o1 = o1
    o2 = o2
    r1 = r1
    r2 = r2
    r3 = r3
    r4 = r4
    NoPayload = NoPayload
    NoSub = NoSub
    NoRequest = NoRequest
    Feed = {ticker}
    Payload = {p1, p2}
    Context = {x1, x2}
    Screen = {screen1}
    FeedShown <- SameFeed
    Stacked = FALSE
    SubId = {o1, o2}
    SubRequest = {r1, r2}
    MaxTimers = 1
    MaxUp = 2
    MaxDown = 1
SYMMETRY Symmetry
INVARIANTS ReplacingIsEmpty ActiveIsSubscribed
PROPERTIES ConnectedHearsItsOwn
VIEW View
