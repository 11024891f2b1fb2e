--------------------------- MODULE ChannelRegistry ---------------------------
(***************************************************************************)
(* The server's registry of live channels                                  *)
(* (packages/api/src/routes/websocket/createChannelRegistry.js).           *)
(*                                                                         *)
(* A subscriber is one websocket connection.  What it subscribes to is a   *)
(* key: a websocketId (a feed) with the hash of the connection properties, *)
(* properties and tenant that were evaluated for it.  Subscribers with the *)
(* same key share one channel object and its one running source.           *)
(*                                                                         *)
(* Registry calls that await (subscribe and publish prepare the channel,   *)
(* publish may also await the type's onPublish hook) are split at the      *)
(* await: `call` holds what the suspended call will continue with.  Steps  *)
(* between two awaits are atomic, as on a JavaScript event loop.  The      *)
(* caller, a connection, runs at most one call per feed at a time;         *)
(* WebSocketConnection models the frame queues that keep that contract.    *)
(***************************************************************************)
EXTENDS Naturals, FiniteSets

CONSTANTS
    Subscriber,   \* websocket connections
    Feed,         \* websocketIds
    Hash,         \* the hashes of evaluated properties and tenant
    ChannelId,    \* identities of channel objects, reused when garbage
    MaxRetries,   \* MAX_RETRIES
    NoKey,        \* a feed the subscriber holds no subscription for
    NoChannel     \* a key the channels map has no entry for

Key == Feed \X Hash
FeedOf(key) == key[1]

ASSUME RetriesAssumption == MaxRetries \in Nat
ASSUME AbsentAssumption == NoKey \notin Key /\ NoChannel \notin ChannelId

VARIABLES
    channels,       \* the channels map: key -> channel object
    channel,        \* the channel objects
    subscriptions,  \* subscriber.subscriptions: feed -> key
    call,           \* the registry call suspended for a subscriber's feed
    sent            \* the frame the last step broadcast: its type, the key of
                    \* its channel and the subscribers it was sent to

registryVars == <<channels, channel, subscriptions, call, sent>>

-----------------------------------------------------------------------------
(* A channel object.  `source` is its resolver run: "running" until the     *)
(* resolver's promise settles; `aborted` is the current AbortController's   *)
(* signal; `timer` says that restartTimer is set.                           *)

SourceState == {"none", "running", "failed", "ended"}

Channel == [key : Key \cup {NoKey}, subscribers : SUBSET Subscriber,
            source : SourceState, aborted : BOOLEAN, timer : BOOLEAN,
            retryCount : 0 .. MaxRetries]

Garbage == [key |-> NoKey, subscribers |-> {}, source |-> "none",
            aborted |-> TRUE, timer |-> FALSE, retryCount |-> 0]

NewChannel(key, s) ==
    [key |-> key, subscribers |-> {s}, source |-> "running",
     aborted |-> FALSE, timer |-> FALSE, retryCount |-> 0]

(* A suspended call.  An onPublish hook holds the publish closure of the    *)
(* run that was current when it was called: `superseded` once the channel   *)
(* has started another run, whose AbortController is a new one.             *)
Call == [op : {"none", "subscribe", "publish", "onPublish"},
         key : Key \cup {NoKey}, channel : ChannelId \cup {NoChannel},
         superseded : BOOLEAN]

NoCall == [op |-> "none", key |-> NoKey, channel |-> NoChannel,
           superseded |-> FALSE]
Suspended(op, key) == [NoCall EXCEPT !.op = op, !.key = key]

Silence == [type |-> "none", key |-> NoKey, to |-> {}]
Broadcast(type, id) ==
    [type |-> type, key |-> channel[id].key, to |-> channel[id].subscribers]

\* mutant: the signal is not looked at
PublishRegardless(id, superseded) == Broadcast("message", id)

(* The publish closure of a run: silent once the run's signal is aborted.    *)
(* Nobody aborts the signal of a run that a restart replaced.                *)
Publish(id, superseded) ==
    IF channel[id].aborted /\ ~superseded THEN Silence ELSE Broadcast("message", id)

(* An object the map does not hold, no run of a source and no hook refers to *)
Unused(id) ==
    /\ \A k \in Key : channels[k] # id
    /\ channel[id].source # "running"
    /\ \A s \in Subscriber, f \in Feed : call[s][f].channel # id

-----------------------------------------------------------------------------
(* removeChannel: the timer is cleared, the current run's signal aborted.   *)
Removed(ch) == [ch EXCEPT !.timer = FALSE, !.aborted = TRUE]

(* unsubscribe for every feed in `feeds` of subscriber s: the subscription   *)
(* is forgotten, s leaves the channel the map has for its key, and a channel *)
(* without subscribers is removed.                                           *)
KeysHeld(s, feeds) == {subscriptions[s][f] : f \in feeds} \ {NoKey}

Emptied(s, keys) ==
    {k \in keys : /\ channels[k] # NoChannel
                  /\ channel[channels[k]].subscribers \subseteq {s}}

\* mutant: only the last one to leave is removed
LeftBehind(ch, s) ==
    IF ch.subscribers \subseteq {s} THEN Removed([ch EXCEPT !.subscribers = {}])
                                    ELSE ch
\* mutant: an empty channel is not stopped
LeftRunning(ch, s) == [ch EXCEPT !.subscribers = @ \ {s}]

Left(ch, s) ==
    LET left == [ch EXCEPT !.subscribers = @ \ {s}] IN
    IF left.subscribers = {} THEN Removed(left) ELSE left

channelAfterLeaving(s, keys) ==
    [id \in ChannelId |->
        IF \E k \in keys : channels[k] = id THEN Left(channel[id], s)
                                            ELSE channel[id]]

channelsAfterLeaving(s, keys) ==
    [k \in Key |-> IF k \in Emptied(s, keys) THEN NoChannel ELSE channels[k]]

Leave(s, feeds) ==
    /\ channel' = channelAfterLeaving(s, KeysHeld(s, feeds))
    /\ channels' = channelsAfterLeaving(s, KeysHeld(s, feeds))
    /\ subscriptions' =
         [subscriptions EXCEPT ![s] =
            [f \in Feed |-> IF f \in feeds THEN NoKey ELSE @[f]]]

-----------------------------------------------------------------------------
RegistryInit ==
    /\ channels = [k \in Key |-> NoChannel]
    /\ channel = [id \in ChannelId |-> Garbage]
    /\ subscriptions = [s \in Subscriber |-> [f \in Feed |-> NoKey]]
    /\ call = [s \in Subscriber |-> [f \in Feed |-> NoCall]]
    /\ sent = Silence

\* mutant: the previous subscription is left for the new one to replace
SubscribeCallKeeping(s, f, key) ==
    /\ call[s][f] = NoCall
    /\ FeedOf(key) = f
    /\ call' = [call EXCEPT ![s][f] = Suspended("subscribe", key)]
    /\ sent' = Silence
    /\ UNCHANGED <<channels, channel, subscriptions>>

(* subscribe, up to its await: a re-subscribe first removes the previous    *)
(* subscription, then the new channel is prepared.                          *)
SubscribeCall(s, f, key) ==
    /\ call[s][f] = NoCall
    /\ FeedOf(key) = f
    /\ Leave(s, {f})
    /\ call' = [call EXCEPT ![s][f] = Suspended("subscribe", key)]
    /\ sent' = Silence

(* subscribe, after its await: join the channel the map has for the key, or *)
(* create it and start its source.                                          *)
Join(s, f) ==
    LET key == call[s][f].key
        id == channels[key]
    IN  /\ call[s][f].op = "subscribe"
        /\ id # NoChannel
        /\ channel' = [channel EXCEPT ![id].subscribers = @ \cup {s}]
        /\ subscriptions' = [subscriptions EXCEPT ![s][f] = key]
        /\ call' = [call EXCEPT ![s][f] = NoCall]
        /\ sent' = Silence
        /\ UNCHANGED channels

Create(s, f, id) ==
    LET key == call[s][f].key
    IN  /\ call[s][f].op = "subscribe"
        /\ channels[key] = NoChannel
        /\ Unused(id)
        /\ channels' = [channels EXCEPT ![key] = id]
        /\ channel' = [channel EXCEPT ![id] = NewChannel(key, s)]
        /\ subscriptions' = [subscriptions EXCEPT ![s][f] = key]
        /\ call' = [call EXCEPT ![s][f] = NoCall]
        /\ sent' = Silence

(* prepareChannel throws (no such websocket, not authorised, a connection   *)
(* that refuses reads, an operator error), or a publish is refused.         *)
CallFails(s, f) ==
    /\ call[s][f].op # "none"
    /\ call' = [call EXCEPT ![s][f] = NoCall]
    /\ sent' = Silence
    /\ UNCHANGED <<channels, channel, subscriptions>>

Unsubscribe(s, f) ==
    /\ call[s][f] = NoCall
    /\ Leave(s, {f})
    /\ sent' = Silence
    /\ UNCHANGED call

(* A closing connection: its suspended calls go on.                         *)
UnsubscribeAll(s) ==
    /\ Leave(s, Feed)
    /\ sent' = Silence
    /\ UNCHANGED call

-----------------------------------------------------------------------------
(* publish, up to the await of prepareChannel, evaluated without a          *)
(* subscription payload                                                     *)
PublishCall(s, f, key) ==
    /\ call[s][f] = NoCall
    /\ FeedOf(key) = f
    /\ call' = [call EXCEPT ![s][f] = Suspended("publish", key)]
    /\ sent' = Silence
    /\ UNCHANGED <<channels, channel, subscriptions>>

(* The type has no onPublish hook, or nobody subscribed on this instance.   *)
PublishNow(s, f) ==
    LET id == channels[call[s][f].key]
    IN  /\ call[s][f].op = "publish"
        /\ sent' = IF id = NoChannel THEN Silence ELSE Publish(id, FALSE)
        /\ call' = [call EXCEPT ![s][f] = NoCall]
        /\ UNCHANGED <<channels, channel, subscriptions>>

PublishToHook(s, f) ==
    LET id == channels[call[s][f].key]
    IN  /\ call[s][f].op = "publish"
        /\ id # NoChannel
        /\ call' = [call EXCEPT ![s][f].op = "onPublish", ![s][f].channel = id]
        /\ sent' = Silence
        /\ UNCHANGED <<channels, channel, subscriptions>>

(* The hook calls the publish closure it was given and returns.              *)
HookPublishes(s, f) ==
    LET c == call[s][f]
    IN  /\ c.op = "onPublish"
        /\ sent' = Publish(c.channel, c.superseded)
        /\ call' = [call EXCEPT ![s][f] = NoCall]
        /\ UNCHANGED <<channels, channel, subscriptions>>

-----------------------------------------------------------------------------
(* The source of a channel object, a run of its resolver                    *)

SourcePublishes(id) ==
    /\ channel[id].source = "running"
    /\ sent' = Publish(id, FALSE)
    /\ UNCHANGED <<channels, channel, subscriptions, call>>

(* The resolver's promise resolves; nothing starts it again.                *)
SourceEnds(id) ==
    /\ channel[id].source = "running"
    /\ channel' = [channel EXCEPT ![id].source = "ended"]
    /\ sent' = Silence
    /\ UNCHANGED <<channels, subscriptions, call>>

(* handleResolverError.  An error while winding down is ignored; otherwise  *)
(* the restart is scheduled, or the channel given up after MAX_RETRIES.  A  *)
(* run that stayed healthy first resets the retry count.                    *)
ErrorIgnored(id) ==
    /\ channel[id].source = "running"
    /\ channel[id].aborted
    /\ channel' = [channel EXCEPT ![id].source = "failed"]
    /\ sent' = Silence
    /\ UNCHANGED <<channels, subscriptions, call>>

\* mutant: off by one
MayRetryOnceMore(n) == n <= MaxRetries

MayRetry(n) == n < MaxRetries

RetryCount(id, healthy) == IF healthy THEN 0 ELSE channel[id].retryCount

ScheduleRestart(id, healthy) ==
    /\ channel[id].source = "running"
    /\ ~channel[id].aborted
    /\ MayRetry(RetryCount(id, healthy))
    /\ channel' = [channel EXCEPT ![id].source = "failed", ![id].timer = TRUE,
                       ![id].retryCount = RetryCount(id, healthy) + 1]
    /\ sent' = Broadcast("error", id)
    /\ UNCHANGED <<channels, subscriptions, call>>

GiveUp(id, healthy) ==
    /\ channel[id].source = "running"
    /\ ~channel[id].aborted
    /\ ~MayRetry(RetryCount(id, healthy))
    /\ channel' = [channel EXCEPT ![id] =
                       Removed([@ EXCEPT !.source = "failed",
                                         !.retryCount = RetryCount(id, healthy)])]
    /\ channels' = [channels EXCEPT ![channel[id].key] = NoChannel]
    /\ sent' = Broadcast("error", id)
    /\ UNCHANGED <<subscriptions, call>>

\* mutant: the source is not started
RunForgotten(ch) == [ch EXCEPT !.timer = FALSE]

(* startResolver, for a run that failed                                     *)
RunAgain(ch) == [ch EXCEPT !.timer = FALSE, !.source = "running", !.aborted = FALSE]

Supersede(c, id) == IF c.channel = id THEN [c EXCEPT !.superseded = TRUE] ELSE c

(* The restart timer fires: nobody left to serve, or startResolver.         *)
Restart(id) ==
    /\ channel[id].timer
    /\ IF channel[id].subscribers = {}
         THEN /\ channel' = [channel EXCEPT ![id] = Removed(@)]
              /\ channels' = [channels EXCEPT ![channel[id].key] = NoChannel]
              /\ UNCHANGED call
         ELSE /\ channel' = [channel EXCEPT ![id] = RunAgain(@)]
              /\ call' = [s \in Subscriber |->
                            [f \in Feed |-> Supersede(call[s][f], id)]]
              /\ UNCHANGED channels
    /\ sent' = Silence
    /\ UNCHANGED subscriptions

-----------------------------------------------------------------------------
CallSucceeds(s, f) ==
    \/ Join(s, f)
    \/ \E id \in ChannelId : Create(s, f, id)
    \/ PublishNow(s, f)
    \/ PublishToHook(s, f)
    \/ HookPublishes(s, f)

SubscriberStep(s, f) ==
    \/ \E key \in Key : SubscribeCall(s, f, key) \/ PublishCall(s, f, key)
    \/ Unsubscribe(s, f)

SourceStep(id) ==
    \/ SourcePublishes(id)
    \/ SourceEnds(id)
    \/ ErrorIgnored(id)
    \/ \E healthy \in BOOLEAN : ScheduleRestart(id, healthy) \/ GiveUp(id, healthy)

RegistryNext ==
    \/ \E s \in Subscriber, f \in Feed : SubscriberStep(s, f) \/ CallFails(s, f) \/ CallSucceeds(s, f)
    \/ \E s \in Subscriber : UnsubscribeAll(s)
    \/ \E id \in ChannelId : SourceStep(id) \/ Restart(id)

(* Only the restart timer is the registry's own doing: whether clients call, *)
(* preparation finishes or a source fails is up to others.                   *)
RegistrySpec ==
    /\ RegistryInit /\ [][RegistryNext]_registryVars
    /\ \A id \in ChannelId : WF_registryVars(Restart(id))

-----------------------------------------------------------------------------
RegistryTypeOK ==
    /\ channels \in [Key -> ChannelId \cup {NoChannel}]
    /\ channel \in [ChannelId -> Channel]
    /\ subscriptions \in [Subscriber -> [Feed -> Key \cup {NoKey}]]
    /\ call \in [Subscriber -> [Feed -> Call]]
    /\ sent \in [type : {"none", "message", "error"}, key : Key \cup {NoKey}, to : SUBSET Subscriber]

Registered(id) == \E k \in Key : channels[k] = id

(* A subscriber is in the channels of its own subscriptions only.  A stray  *)
(* membership would keep a source running, and its messages arriving, for a *)
(* feed the client has left (unsubscribe, subscribe).                       *)
MembersHoldTheKey ==
    \A k \in Key : channels[k] # NoChannel =>
        \A s \in channel[channels[k]].subscribers : subscriptions[s][FeedOf(k)] = k

(* A source nobody has aborted, and a pending restart, belong to a channel   *)
(* in the map that somebody subscribes to: the last one to leave stops it    *)
(* (removeChannel, handleResolverError).                                     *)
NoOrphanSource ==
    \A id \in ChannelId :
        (channel[id].source = "running" /\ ~channel[id].aborted) \/ channel[id].timer
          => Registered(id) /\ channel[id].subscribers # {}

(* Who joins or publishes to a channel of the map finds one that was not     *)
(* stopped, and whose failed source is going to be restarted.                *)
JoinsLiveChannel ==
    \A k \in Key : channels[k] # NoChannel =>
        LET ch == channel[channels[k]] IN
        /\ ch.key = k
        /\ ~ch.aborted
        /\ ch.source = "failed" => ch.timer

(* The publish of a hook that outlived the run it was called for: nobody     *)
(* ever aborts that run's signal, so it reaches whoever its channel object   *)
(* still lists, also after the channel was given up.                         *)
SupersededPublish ==
    \E s \in Subscriber, f \in Feed :
        call[s][f].superseded /\ call'[s][f] = NoCall

(* A frame a channel broadcasts reaches only subscribers that hold the       *)
(* channel's key at that moment (broadcast, broadcastError, the aborted      *)
(* check of publish).                                                        *)
SentToHolders ==
    [][~SupersededPublish =>
         \A s \in sent'.to : subscriptions[s][FeedOf(sent'.key)] = sent'.key]_registryVars

(* A source that failed is run again, or its channel leaves the map, so that *)
(* the next subscriber starts it afresh.                                     *)
FailedSourceRestarts ==
    \A id \in ChannelId :
        (channel[id].source = "failed" /\ Registered(id)) ~>
            (channel[id].source = "running" \/ ~Registered(id))

=============================================================================
