SPECIFICATION Spec
CONSTANTS
    ticker = ticker
    chat = chat
    p1 = p1
    p2 = p2
    a = a
    b = b
    o1 = o1
    o2 = o2
    o3 = o3
    r1 = r1
    r2 = r2
    r3 = r3
    r4 = r4
    m1 = m1
    m2 = m2
    NoPayload = NoPayload
    NoSub = NoSub
    NoRequest = NoRequest
    Feed = {ticker}
    Payload = {p1, p2}
    Handlers = {a}
    SubId = {o1, o2}
    PubId = {}
    SubRequest = {r1, r2, r3}
    Ages = {"stable", "old"}
    MaxAttempt = 2
    MaxTimers = 2
    MaxUp = 3
    MaxDown = 1
SYMMETRY Symmetry
INVARIANTS QuietAgreement NoReconnectLoop
