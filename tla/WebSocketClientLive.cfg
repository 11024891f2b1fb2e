SPECIFICATION Spec
CONSTANTS
    ticker = ticker
    chat = chat
    p1 = p1
    p2 = p2
    a = a
    b = b
    o1 = o1
    o2 = o2
    o3 = o3
    r1 = r1
    r2 = r2
    r3 = r3
    r4 = r4
    m1 = m1
    m2 = m2
    NoPayload = NoPayload
    NoSub = NoSub
    NoRequest = NoRequest
    Feed = {ticker}
    Payload = {p1}
    Handlers = {a}
    SubId = {o1, o2}
    PubId = {m1}
    SubRequest = {r1, r2, r3}
    Ages = {}
    MaxAttempt = 0
    MaxTimers = 1
    MaxUp = 2
    MaxDown = 1
PROPERTIES PromisesSettle Reconnects IdleSocketCloses
