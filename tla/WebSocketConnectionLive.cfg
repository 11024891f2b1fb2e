SPECIFICATION Spec
CONSTANTS
    s1 = s1
    ticker = ticker
    p1 = p1
    p2 = p2
    h1 = h1
    h2 = h2
    c1 = c1
    c2 = c2
    alice = alice
    bob = bob
    NoKey = NoKey
    NoChannel = NoChannel
    NoPayload = NoPayload
    Subscriber = {s1}
    Connection = s1
    Feed = {ticker}
    Caller = {alice, bob}
    Payload = {p1}
    Hash = {h1}
    HashOf <- PublicHash
    ChannelId = {c1, c2}
    MaxRetries = 1
    MaxQueue = 2
    MaxDown = 1
PROPERTIES ClosingFinishes CallerChangeCloses
