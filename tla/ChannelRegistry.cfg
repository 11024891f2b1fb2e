SPECIFICATION RegistrySpec
CONSTANTS
    s1 = s1
    s2 = s2
    ticker = ticker
    h1 = h1
    h2 = h2
    c1 = c1
    c2 = c2
    NoKey = NoKey
    NoChannel = NoChannel
    Subscriber <- MCSubscriber
    Feed <- MCFeed
    Hash <- MCHash
    ChannelId <- MCChannelId
    MaxRetries = 1
INVARIANTS RegistryTypeOK MembersHoldTheKey NoOrphanSource
PROPERTIES SentToHolders FailedSourceRestarts
