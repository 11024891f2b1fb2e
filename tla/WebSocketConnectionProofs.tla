---------------------- MODULE WebSocketConnectionProofs ----------------------
(* The connections keep the registry's contract, and close with nothing held, for *)
(* any number of them, of feeds, callers and payloads, and queues of any length.   *)
EXTENDS ConnectionService, SequenceTheorems, TLAPS

-----------------------------------------------------------------------------
(* The registry by itself, whose steps the connections take: for any number   *)
(* of subscribers, feeds, keys, channel objects and retries.                  *)

(* An object nobody aborted is held by the map.                               *)
LiveIsRegistered == \A id \in ChannelId : ~channel[id].aborted => Registered(id)

(* A suspended call is for a key of its feed, and a subscribe that is being   *)
(* prepared has left what the subscriber was subscribed to before; a hook has *)
(* the publish of a channel object.                                           *)
CallsOK ==
    \A s \in Subscriber, f \in Feed : call[s][f].op # "none" =>
        /\ call[s][f].key \in Key
        /\ FeedOf(call[s][f].key) = f
        /\ call[s][f].op = "subscribe" => subscriptions[s][f] = NoKey
        /\ call[s][f].op = "onPublish" => call[s][f].channel # NoChannel

(* What the broadcasts and the sources rely on: the invariants of the map and *)
(* of the channel objects, which support each other.                          *)
ChannelsOK ==
    /\ LiveIsRegistered
    /\ MembersHoldTheKey
    /\ NoOrphanSource
    /\ JoinsLiveChannel

RegistryInv == RegistryTypeOK /\ CallsOK /\ ChannelsOK

-----------------------------------------------------------------------------
(* Keys and their feeds                                                       *)
LEMMA KeyFacts ==
    /\ \A key \in Key : FeedOf(key) \in Feed
    /\ NoKey \notin Key
    /\ NoChannel \notin ChannelId
BY AbsentAssumption DEF Key, FeedOf

(* Two keys never share a channel object.                                     *)
LEMMA OneKeyPerChannel ==
    ASSUME JoinsLiveChannel, NEW k \in Key, NEW l \in Key,
           channels[k] # NoChannel, channels[k] = channels[l]
    PROVE  k = l
BY DEF JoinsLiveChannel

-----------------------------------------------------------------------------
(* Leaving: unsubscribe, unsubscribeAll and the start of a re-subscribe       *)

LEMMA LeftIsChannel ==
    ASSUME NEW ch \in Channel, NEW s
    PROVE  /\ Left(ch, s) \in Channel
           /\ Left(ch, s).key = ch.key
           /\ Left(ch, s).subscribers = ch.subscribers \ {s}
           /\ Left(ch, s).source = ch.source
           /\ ch.subscribers \subseteq {s} => Left(ch, s).aborted /\ ~Left(ch, s).timer
           /\ ~(ch.subscribers \subseteq {s}) =>
                 Left(ch, s).aborted = ch.aborted /\ Left(ch, s).timer = ch.timer
BY DEF Left, Removed, Channel, SourceState

LEMMA LeaveType ==
    ASSUME RegistryTypeOK, NEW s \in Subscriber, NEW feeds \in SUBSET Feed, Leave(s, feeds)
    PROVE  /\ channels' \in [Key -> ChannelId \cup {NoChannel}]
           /\ channel' \in [ChannelId -> Channel]
           /\ subscriptions' \in [Subscriber -> [Feed -> Key \cup {NoKey}]]
<1>1. channels' \in [Key -> ChannelId \cup {NoChannel}]
  BY DEF RegistryTypeOK, Leave, channelsAfterLeaving
<1>2. channel' \in [ChannelId -> Channel]
  BY LeftIsChannel DEF RegistryTypeOK, Leave, channelAfterLeaving
<1>3. subscriptions' \in [Subscriber -> [Feed -> Key \cup {NoKey}]]
  BY DEF RegistryTypeOK, Leave
<1> QED BY <1>1, <1>2, <1>3

(* What leaving does to a channel object: those of the keys held are left,    *)
(* and only they; an entry of the map is kept or dropped, and an entry kept   *)
(* is one somebody else subscribes to, or one of a key not held.              *)
LEMMA LeaveFacts ==
    ASSUME RegistryTypeOK, JoinsLiveChannel,
           NEW s \in Subscriber, NEW feeds \in SUBSET Feed, Leave(s, feeds),
           NEW k \in Key, channels[k] # NoChannel
    PROVE  LET id == channels[k]
               held == k \in KeysHeld(s, feeds)
           IN  /\ channel'[id] = IF held THEN Left(channel[id], s) ELSE channel[id]
               /\ channels'[k] = IF held /\ channel[id].subscribers \subseteq {s}
                                   THEN NoChannel ELSE id
<1> DEFINE id == channels[k]
<1>1. id \in ChannelId
  BY DEF RegistryTypeOK
<1>2. \A l \in KeysHeld(s, feeds) : l \in Key
  BY DEF RegistryTypeOK, KeysHeld
<1>3. (\E l \in KeysHeld(s, feeds) : channels[l] = id) <=> k \in KeysHeld(s, feeds)
  BY <1>2, OneKeyPerChannel
<1>4. channel'[id] = IF k \in KeysHeld(s, feeds) THEN Left(channel[id], s) ELSE channel[id]
  BY <1>1, <1>3 DEF Leave, channelAfterLeaving
<1>5. channels'[k] = IF k \in KeysHeld(s, feeds) /\ channel[id].subscribers \subseteq {s}
                       THEN NoChannel ELSE id
  BY DEF Leave, channelsAfterLeaving, Emptied
<1> QED BY <1>4, <1>5

LEMMA LeaveElsewhere ==
    ASSUME RegistryTypeOK,
           NEW s \in Subscriber, NEW feeds \in SUBSET Feed, Leave(s, feeds),
           NEW id \in ChannelId, ~Registered(id)
    PROVE  channel'[id] = channel[id]
BY DEF RegistryTypeOK, Leave, channelAfterLeaving, KeysHeld, Registered

LEMMA LeavePreserves ==
    ASSUME RegistryTypeOK, ChannelsOK,
           NEW s \in Subscriber, NEW feeds \in SUBSET Feed, Leave(s, feeds)
    PROVE  ChannelsOK'
<1> USE DEF ChannelsOK
<1>1. ASSUME NEW k \in Key, channels'[k] # NoChannel
      PROVE  /\ channels[k] # NoChannel /\ channels'[k] = channels[k]
             /\ channels[k] \in ChannelId /\ channel[channels[k]] \in Channel
             /\ \/ k \notin KeysHeld(s, feeds) /\ channel'[channels[k]] = channel[channels[k]]
                \/ /\ ~(channel[channels[k]].subscribers \subseteq {s})
                   /\ channel'[channels[k]] = Left(channel[channels[k]], s)
  <2>1. channels[k] # NoChannel
    BY <1>1 DEF Leave, channelsAfterLeaving
  <2>2. channels[k] \in ChannelId /\ channel[channels[k]] \in Channel
    BY <2>1 DEF RegistryTypeOK
  <2> QED BY <1>1, <2>1, <2>2, LeaveFacts
<1>2. MembersHoldTheKey'
  <2> SUFFICES ASSUME NEW k \in Key, channels'[k] # NoChannel,
                      NEW t \in channel'[channels'[k]].subscribers
               PROVE  subscriptions'[t][FeedOf(k)] = k
    BY DEF MembersHoldTheKey
  <2>1. t \in channel[channels[k]].subscribers
    BY <1>1, LeftIsChannel
  <2>2. subscriptions[t][FeedOf(k)] = k /\ t \in Subscriber
    BY <1>1, <2>1 DEF MembersHoldTheKey, Channel
  <2>3. CASE t # s
    BY <2>2, <2>3 DEF Leave, RegistryTypeOK
  <2>4. CASE t = s
    <3>1. k \notin KeysHeld(s, feeds)
      BY <1>1, <2>4, LeftIsChannel
    <3>2. FeedOf(k) \notin feeds
      BY <2>2, <2>4, <3>1, KeyFacts DEF KeysHeld
    <3> QED BY <2>2, <2>4, <3>2, KeyFacts DEF Leave, RegistryTypeOK
  <2> QED BY <2>3, <2>4
<1>3. JoinsLiveChannel'
  <2> SUFFICES ASSUME NEW k \in Key, channels'[k] # NoChannel
               PROVE  LET ch == channel'[channels'[k]] IN
                      ch.key = k /\ ~ch.aborted /\ (ch.source = "failed" => ch.timer)
    BY DEF JoinsLiveChannel
  <2> QED BY <1>1, LeftIsChannel DEF JoinsLiveChannel
<1>4. ASSUME NEW id \in ChannelId, ~channel'[id].aborted \/ channel'[id].timer
      PROVE  /\ Registered(id)' /\ (channel[id].subscribers # {} => channel'[id].subscribers # {})
             /\ channel'[id].source = channel[id].source
             /\ channel'[id].aborted = channel[id].aborted
             /\ channel'[id].timer = channel[id].timer
  <2>1. Registered(id)
    BY <1>4, LeaveElsewhere DEF LiveIsRegistered, NoOrphanSource
  <2>2. PICK k \in Key : channels[k] = id
    BY <2>1 DEF Registered
  <2>3. channels[k] # NoChannel /\ channel[id] \in Channel
    BY <2>2, KeyFacts DEF RegistryTypeOK
  <2>4. CASE channels'[k] = NoChannel
    <3>1. channel'[id] = Left(channel[id], s) /\ channel[id].subscribers \subseteq {s}
      BY <2>2, <2>3, <2>4, LeaveFacts
    <3> QED BY <1>4, <2>3, <3>1, LeftIsChannel
  <2>5. CASE channels'[k] # NoChannel
    BY <1>1, <2>2, <2>3, <2>5, LeftIsChannel DEF Registered
  <2> QED BY <2>4, <2>5
<1>5. LiveIsRegistered'
  BY <1>4 DEF LiveIsRegistered
<1>6. NoOrphanSource'
  BY <1>4 DEF NoOrphanSource
<1> QED BY <1>2, <1>3, <1>5, <1>6

-----------------------------------------------------------------------------
(* Type correctness, action by action                                         *)

LEMMA SilenceType == Silence \in [type : {"none", "message", "error"},
                                  key : Key \cup {NoKey}, to : SUBSET Subscriber]
BY DEF Silence

LEMMA BroadcastType ==
    ASSUME RegistryTypeOK, NEW id \in ChannelId, NEW type \in {"message", "error"}
    PROVE  Broadcast(type, id) \in [type : {"none", "message", "error"},
                                    key : Key \cup {NoKey}, to : SUBSET Subscriber]
<1>1. channel[id] \in Channel
  BY DEF RegistryTypeOK
<1> QED BY <1>1 DEF Broadcast, Channel

LEMMA PublishType ==
    ASSUME RegistryTypeOK, NEW id \in ChannelId, NEW superseded \in BOOLEAN
    PROVE  Publish(id, superseded) \in [type : {"none", "message", "error"},
                                        key : Key \cup {NoKey}, to : SUBSET Subscriber]
BY SilenceType, BroadcastType DEF Publish

LEMMA CallTypes ==
    /\ NoCall \in Call
    /\ \A op \in {"subscribe", "publish"}, key \in Key : Suspended(op, key) \in Call
BY DEF NoCall, Suspended, Call

LEMMA RetryCountType ==
    ASSUME RegistryTypeOK, NEW id \in ChannelId, NEW healthy \in BOOLEAN
    PROVE  RetryCount(id, healthy) \in 0 .. MaxRetries
<1>1. channel[id] \in Channel
  BY DEF RegistryTypeOK
<1> QED BY <1>1, RetriesAssumption DEF RetryCount, Channel

LEMMA InitTypeOK == RegistryInit => RegistryTypeOK
<1>1. Garbage \in Channel
  BY RetriesAssumption DEF Garbage, Channel, SourceState
<1> QED BY <1>1, SilenceType, CallTypes DEF RegistryInit, RegistryTypeOK

LEMMA SubscriberStepType ==
    ASSUME RegistryTypeOK, NEW s \in Subscriber, NEW f \in Feed, SubscriberStep(s, f)
    PROVE  RegistryTypeOK'
<1>1. ASSUME NEW key \in Key, SubscribeCall(s, f, key)
      PROVE  RegistryTypeOK'
  <2>1. call' \in [Subscriber -> [Feed -> Call]]
    BY <1>1, CallTypes DEF RegistryTypeOK, SubscribeCall
  <2> QED BY <1>1, <2>1, LeaveType, SilenceType DEF RegistryTypeOK, SubscribeCall
<1>2. ASSUME NEW key \in Key, PublishCall(s, f, key)
      PROVE  RegistryTypeOK'
  <2>1. call' \in [Subscriber -> [Feed -> Call]]
    BY <1>2, CallTypes DEF RegistryTypeOK, PublishCall
  <2> QED BY <1>2, <2>1, SilenceType DEF RegistryTypeOK, PublishCall
<1>3. ASSUME Unsubscribe(s, f)
      PROVE  RegistryTypeOK'
  BY <1>3, LeaveType, SilenceType DEF RegistryTypeOK, Unsubscribe
<1> QED BY <1>1, <1>2, <1>3 DEF SubscriberStep

LEMMA UnsubscribeAllType ==
    ASSUME RegistryTypeOK, NEW s \in Subscriber, UnsubscribeAll(s)
    PROVE  RegistryTypeOK'
BY LeaveType, SilenceType DEF RegistryTypeOK, UnsubscribeAll

LEMMA CallStepType ==
    ASSUME RegistryTypeOK, CallsOK, NEW s \in Subscriber, NEW f \in Feed,
           CallFails(s, f) \/ CallSucceeds(s, f)
    PROVE  RegistryTypeOK'
<1> DEFINE c == call[s][f]
<1>1. c \in Call
  BY DEF RegistryTypeOK
<1>2. c.op # "none" => c.key \in Key
  BY DEF CallsOK
<1>3. [call EXCEPT ![s][f] = NoCall] \in [Subscriber -> [Feed -> Call]]
  BY CallTypes DEF RegistryTypeOK
<1>4. CASE CallFails(s, f)
  BY <1>3, <1>4, SilenceType DEF RegistryTypeOK, CallFails
<1>5. CASE Join(s, f)
  <2>1. channels[c.key] \in ChannelId
    BY <1>2, <1>5 DEF RegistryTypeOK, Join
  <2>2. channel' \in [ChannelId -> Channel]
    <3>1. channel' = [channel EXCEPT ![channels[c.key]].subscribers = @ \cup {s}]
      BY <1>5 DEF Join
    <3>2. channel \in [ChannelId -> Channel]
      BY DEF RegistryTypeOK
    <3>3. [channel[channels[c.key]] EXCEPT !.subscribers = @ \cup {s}] \in Channel
      BY <2>1, <3>2 DEF Channel
    <3> QED BY <2>1, <3>1, <3>2, <3>3
  <2>3. subscriptions' \in [Subscriber -> [Feed -> Key \cup {NoKey}]]
    BY <1>2, <1>5 DEF RegistryTypeOK, Join
  <2> QED BY <1>3, <1>5, <2>2, <2>3, SilenceType DEF RegistryTypeOK, Join
<1>6. ASSUME NEW id \in ChannelId, Create(s, f, id)
      PROVE  RegistryTypeOK'
  <2>1. c.key \in Key
    BY <1>2, <1>6 DEF Create
  <2>2. NewChannel(c.key, s) \in Channel
    BY <2>1, RetriesAssumption DEF NewChannel, Channel, SourceState
  <2>3. channel' \in [ChannelId -> Channel] /\ channels' \in [Key -> ChannelId \cup {NoChannel}]
    BY <1>6, <2>2 DEF RegistryTypeOK, Create
  <2>4. subscriptions' \in [Subscriber -> [Feed -> Key \cup {NoKey}]]
    BY <1>6, <2>1 DEF RegistryTypeOK, Create
  <2> QED BY <1>3, <1>6, <2>3, <2>4, SilenceType DEF RegistryTypeOK, Create
<1>7. CASE PublishNow(s, f)
  <2>1. channels[c.key] \in ChannelId \cup {NoChannel}
    BY <1>2, <1>7 DEF RegistryTypeOK, PublishNow
  <2> QED BY <1>3, <1>7, <2>1, SilenceType, PublishType DEF RegistryTypeOK, PublishNow
<1>8. CASE PublishToHook(s, f)
  <2>1. channels[c.key] \in ChannelId
    BY <1>2, <1>8 DEF RegistryTypeOK, PublishToHook
  <2>2. call' \in [Subscriber -> [Feed -> Call]]
    BY <1>1, <1>8, <2>1 DEF RegistryTypeOK, PublishToHook, Call
  <2> QED BY <1>8, <2>2, SilenceType DEF RegistryTypeOK, PublishToHook
<1>9. CASE HookPublishes(s, f)
  <2>1. c.channel \in ChannelId /\ c.superseded \in BOOLEAN
    BY <1>1, <1>9 DEF HookPublishes, CallsOK, Call
  <2> QED BY <1>3, <1>9, <2>1, PublishType DEF RegistryTypeOK, HookPublishes
<1> QED BY <1>4, <1>5, <1>6, <1>7, <1>8, <1>9 DEF CallSucceeds

(* The restart timer never finds an empty channel: it is cleared with the     *)
(* channel when the last subscriber leaves.                                   *)
LEMMA RestartRuns ==
    ASSUME NoOrphanSource, NEW id \in ChannelId, Restart(id)
    PROVE  /\ channel[id].timer
           /\ channel' = [channel EXCEPT ![id] = RunAgain(@)]
           /\ call' = [s \in Subscriber |-> [f \in Feed |-> Supersede(call[s][f], id)]]
           /\ sent' = Silence
           /\ UNCHANGED <<channels, subscriptions>>
<1>1. channel[id].subscribers # {}
  BY DEF Restart, NoOrphanSource
<1> QED BY <1>1 DEF Restart

LEMMA SourceStepType ==
    ASSUME RegistryTypeOK, ChannelsOK, NEW id \in ChannelId, SourceStep(id) \/ Restart(id)
    PROVE  RegistryTypeOK'
<1>1. channel[id] \in Channel
  BY DEF RegistryTypeOK
<1>2. CASE SourcePublishes(id)
  BY <1>2, PublishType DEF RegistryTypeOK, SourcePublishes
<1>3. CASE SourceEnds(id)
  <2>1. channel' \in [ChannelId -> Channel]
    BY <1>1, <1>3 DEF RegistryTypeOK, SourceEnds, Channel, SourceState
  <2> QED BY <1>3, <2>1, SilenceType DEF RegistryTypeOK, SourceEnds
<1>4. CASE ErrorIgnored(id)
  <2>1. channel' \in [ChannelId -> Channel]
    BY <1>1, <1>4 DEF RegistryTypeOK, ErrorIgnored, Channel, SourceState
  <2> QED BY <1>4, <2>1, SilenceType DEF RegistryTypeOK, ErrorIgnored
<1>5. ASSUME NEW healthy \in BOOLEAN, ScheduleRestart(id, healthy)
      PROVE  RegistryTypeOK'
  <2>1. RetryCount(id, healthy) + 1 \in 0 .. MaxRetries
    BY <1>5, RetryCountType, RetriesAssumption DEF ScheduleRestart, MayRetry
  <2>2. channel' \in [ChannelId -> Channel]
    BY <1>1, <1>5, <2>1 DEF RegistryTypeOK, ScheduleRestart, Channel, SourceState
  <2> QED BY <1>5, <2>2, BroadcastType DEF RegistryTypeOK, ScheduleRestart
<1>6. ASSUME NEW healthy \in BOOLEAN, GiveUp(id, healthy)
      PROVE  RegistryTypeOK'
  <2>1. channel' \in [ChannelId -> Channel]
    BY <1>1, <1>6, RetryCountType DEF RegistryTypeOK, GiveUp, Removed, Channel, SourceState
  <2>2. channels' \in [Key -> ChannelId \cup {NoChannel}]
    BY <1>6 DEF RegistryTypeOK, GiveUp
  <2> QED BY <1>6, <2>1, <2>2, BroadcastType DEF RegistryTypeOK, GiveUp
<1>7. CASE Restart(id)
  <2>1. NoOrphanSource
    BY DEF ChannelsOK
  <2>2. RunAgain(channel[id]) \in Channel
    BY <1>1 DEF RunAgain, Channel, SourceState
  <2>3. \A c \in Call : Supersede(c, id) \in Call
    BY DEF Supersede, Call
  <2> QED BY <1>7, <2>1, <2>2, <2>3, SilenceType, RestartRuns DEF RegistryTypeOK
<1> QED BY <1>2, <1>3, <1>4, <1>5, <1>6, <1>7 DEF SourceStep

LEMMA NextType == RegistryTypeOK /\ CallsOK /\ ChannelsOK /\ [RegistryNext]_registryVars => RegistryTypeOK'
<1> SUFFICES ASSUME RegistryTypeOK, CallsOK, ChannelsOK, [RegistryNext]_registryVars
             PROVE  RegistryTypeOK'
  OBVIOUS
<1>1. CASE UNCHANGED registryVars
  BY <1>1 DEF RegistryTypeOK, registryVars
<1>2. CASE RegistryNext
  BY <1>2, SubscriberStepType, UnsubscribeAllType, CallStepType, SourceStepType DEF RegistryNext
<1> QED BY <1>1, <1>2

-----------------------------------------------------------------------------
(* Suspended calls.  Only a call's own steps change it, apart from a restart, *)
(* which marks it superseded; and only a step of the feed's own call gives    *)
(* the subscriber a subscription to the feed.                                 *)
LEMMA CallsPreserved == RegistryTypeOK /\ CallsOK /\ ChannelsOK /\ [RegistryNext]_registryVars => CallsOK'
<1> SUFFICES ASSUME RegistryTypeOK, CallsOK, ChannelsOK, [RegistryNext]_registryVars,
                    NEW s \in Subscriber, NEW f \in Feed, call'[s][f].op # "none"
             PROVE  /\ call'[s][f].key \in Key
                    /\ FeedOf(call'[s][f].key) = f
                    /\ call'[s][f].op = "subscribe" => subscriptions'[s][f] = NoKey
                    /\ call'[s][f].op = "onPublish" => call'[s][f].channel # NoChannel
  BY DEF CallsOK
<1> DEFINE Goal == /\ call'[s][f].key \in Key
                   /\ FeedOf(call'[s][f].key) = f
                   /\ call'[s][f].op = "subscribe" => subscriptions'[s][f] = NoKey
                   /\ call'[s][f].op = "onPublish" => call'[s][f].channel # NoChannel
<1>1. CASE call'[s][f] = call[s][f] /\ (subscriptions'[s][f] \in {subscriptions[s][f], NoKey})
  BY <1>1 DEF CallsOK
<1>2. CASE UNCHANGED registryVars
  BY <1>1, <1>2 DEF registryVars
<1>3. ASSUME NEW t \in Subscriber, NEW g \in Feed, NEW key \in Key, SubscribeCall(t, g, key)
      PROVE  Goal
  <2>1. CASE <<s, f>> = <<t, g>>
    BY <1>3, <2>1 DEF SubscribeCall, Leave, RegistryTypeOK, Suspended, NoCall
  <2>2. CASE <<s, f>> # <<t, g>>
    <3>1. call'[s][f] = call[s][f]
      BY <1>3, <2>2 DEF SubscribeCall, RegistryTypeOK
    <3>2. subscriptions'[s][f] = subscriptions[s][f]
      BY <1>3, <2>2 DEF SubscribeCall, Leave, RegistryTypeOK
    <3> QED BY <1>1, <3>1, <3>2
  <2> QED BY <2>1, <2>2
<1>4. ASSUME NEW t \in Subscriber, NEW g \in Feed, NEW key \in Key, PublishCall(t, g, key)
      PROVE  Goal
  <2>1. CASE <<s, f>> = <<t, g>>
    BY <1>4, <2>1 DEF PublishCall, RegistryTypeOK, Suspended, NoCall
  <2>2. CASE <<s, f>> # <<t, g>>
    <3>1. call'[s][f] = call[s][f] /\ subscriptions' = subscriptions
      BY <1>4, <2>2 DEF PublishCall, RegistryTypeOK
    <3> QED BY <1>1, <3>1
  <2> QED BY <2>1, <2>2
<1>5. ASSUME NEW t \in Subscriber, NEW feeds \in SUBSET Feed, Leave(t, feeds), UNCHANGED call
      PROVE  Goal
  <2>1. subscriptions'[s][f] \in {subscriptions[s][f], NoKey}
    BY <1>5 DEF Leave, RegistryTypeOK
  <2> QED BY <1>1, <1>5, <2>1
<1>6. ASSUME NEW t \in Subscriber, NEW g \in Feed, call' = [call EXCEPT ![t][g] = NoCall],
             subscriptions' = subscriptions \/
               \E key : subscriptions' = [subscriptions EXCEPT ![t][g] = key]
      PROVE  Goal
  <2>1. <<s, f>> # <<t, g>>
    BY <1>6 DEF RegistryTypeOK, NoCall
  <2>2. call'[s][f] = call[s][f]
    BY <1>6, <2>1 DEF RegistryTypeOK
  <2>3. subscriptions'[s][f] = subscriptions[s][f]
    BY <1>6, <2>1 DEF RegistryTypeOK
  <2> QED BY <1>1, <2>2, <2>3
<1>7. ASSUME NEW t \in Subscriber, NEW g \in Feed, PublishToHook(t, g)
      PROVE  Goal
  <2>1. CASE <<s, f>> = <<t, g>>
    <3>1. call'[s][f] = [call[s][f] EXCEPT !.op = "onPublish",
                                           !.channel = channels[call[s][f].key]]
      BY <1>7, <2>1 DEF PublishToHook, RegistryTypeOK
    <3>2. call[s][f] \in Call
      BY DEF RegistryTypeOK
    <3>3. call'[s][f].op = "onPublish" /\ call'[s][f].key = call[s][f].key
          /\ call'[s][f].channel = channels[call[s][f].key]
      BY <3>1, <3>2 DEF Call
    <3> QED BY <1>7, <2>1, <3>3 DEF PublishToHook, CallsOK
  <2>2. CASE <<s, f>> # <<t, g>>
    <3>1. call'[s][f] = call[s][f] /\ subscriptions' = subscriptions
      BY <1>7, <2>2 DEF PublishToHook, RegistryTypeOK
    <3> QED BY <1>1, <3>1
  <2> QED BY <2>1, <2>2
<1>8. ASSUME NEW id \in ChannelId, SourceStep(id)
      PROVE  Goal
  BY <1>1, <1>8 DEF SourceStep, SourcePublishes, SourceEnds, ErrorIgnored,
                    ScheduleRestart, GiveUp
<1>9. ASSUME NEW id \in ChannelId, Restart(id)
      PROVE  Goal
  <2>1. call'[s][f] = Supersede(call[s][f], id) /\ subscriptions' = subscriptions
    BY <1>9, RestartRuns DEF ChannelsOK
  <2>2. call[s][f] \in Call
    BY DEF RegistryTypeOK
  <2>3. call'[s][f].op = call[s][f].op /\ call'[s][f].key = call[s][f].key
        /\ call'[s][f].channel = call[s][f].channel
    BY <2>1, <2>2 DEF Supersede, Call
  <2> QED BY <2>1, <2>3 DEF CallsOK
<1>10. ASSUME NEW t \in Subscriber, NEW g \in Feed, CallFails(t, g) \/ CallSucceeds(t, g)
       PROVE  Goal
  BY <1>6, <1>7, <1>10 DEF CallFails, CallSucceeds, Join, Create, PublishNow, HookPublishes
<1>11. ASSUME NEW t \in Subscriber, NEW g \in Feed, SubscriberStep(t, g)
       PROVE  Goal
  BY <1>3, <1>4, <1>5, <1>11 DEF SubscriberStep, Unsubscribe
<1>12. ASSUME NEW t \in Subscriber, UnsubscribeAll(t)
       PROVE  Goal
  BY <1>5, <1>12 DEF UnsubscribeAll
<1> QED BY <1>2, <1>8, <1>9, <1>10, <1>11, <1>12 DEF RegistryNext

-----------------------------------------------------------------------------
(* The channels.  Joining and creating a channel; the life of its source.     *)

(* A subscriber about to register is in no channel of the feed.               *)
LEMMA NotYetAMember ==
    ASSUME CallsOK, MembersHoldTheKey,
           NEW s \in Subscriber, NEW f \in Feed, call[s][f].op = "subscribe",
           NEW k \in Key, channels[k] # NoChannel, FeedOf(k) = f
    PROVE  s \notin channel[channels[k]].subscribers
BY KeyFacts DEF CallsOK, MembersHoldTheKey

LEMMA JoinPreserves ==
    ASSUME RegistryTypeOK, CallsOK, ChannelsOK, NEW s \in Subscriber, NEW f \in Feed, Join(s, f)
    PROVE  ChannelsOK'
<1> USE DEF ChannelsOK
<1> DEFINE key == call[s][f].key
           id == channels[key]
<1>1. key \in Key /\ FeedOf(key) = f /\ id \in ChannelId /\ id # NoChannel
      /\ subscriptions[s][f] = NoKey
  BY DEF Join, CallsOK, RegistryTypeOK
<1>2. \A i \in ChannelId : channel[i] \in Channel
  BY DEF RegistryTypeOK
<1>3. \A i \in ChannelId :
         /\ channel'[i].subscribers =
              IF i = id THEN channel[i].subscribers \cup {s} ELSE channel[i].subscribers
         /\ channel'[i].key = channel[i].key
         /\ channel'[i].source = channel[i].source
         /\ channel'[i].aborted = channel[i].aborted
         /\ channel'[i].timer = channel[i].timer
  BY <1>1, <1>2 DEF Join, RegistryTypeOK, Channel
<1>4. channels' = channels
  BY DEF Join
<1>5. MembersHoldTheKey'
  <2> SUFFICES ASSUME NEW k \in Key, channels[k] # NoChannel,
                      NEW t \in channel'[channels[k]].subscribers
               PROVE  subscriptions'[t][FeedOf(k)] = k
    BY <1>4 DEF MembersHoldTheKey
  <2>1. channels[k] \in ChannelId
    BY DEF RegistryTypeOK
  <2>2. CASE t \in channel[channels[k]].subscribers
    <3>1. subscriptions[t][FeedOf(k)] = k /\ t \in Subscriber
      BY <1>2, <2>1, <2>2 DEF MembersHoldTheKey, Channel
    <3>2. ~(t = s /\ FeedOf(k) = f)
      BY <2>2, NotYetAMember DEF Join
    <3>3. subscriptions' = [subscriptions EXCEPT ![s][f] = key]
      BY DEF Join
    <3>4. subscriptions'[t][FeedOf(k)] = subscriptions[t][FeedOf(k)]
      <4>1. subscriptions \in [Subscriber -> [Feed -> Key \cup {NoKey}]]
        BY DEF RegistryTypeOK
      <4>2. FeedOf(k) \in Feed
        BY KeyFacts
      <4> HIDE DEF key
      <4> QED BY <3>1, <3>2, <3>3, <4>1, <4>2
    <3> QED BY <3>1, <3>4
  <2>3. CASE t \notin channel[channels[k]].subscribers
    <3>0. channel'[channels[k]].subscribers =
            IF channels[k] = id THEN channel[channels[k]].subscribers \cup {s}
                                ELSE channel[channels[k]].subscribers
      BY <1>3, <2>1
    <3>1. t = s /\ channels[k] = id
      <4> HIDE DEF id, ChannelsOK
      <4> QED BY <3>0, <2>3
    <3>2. k = key
      BY <1>1, <3>1, OneKeyPerChannel
    <3> QED BY <1>1, <3>1, <3>2 DEF Join, RegistryTypeOK
  <2> QED BY <2>2, <2>3
<1>6. NoOrphanSource'
  BY <1>3, <1>4 DEF NoOrphanSource, Registered
<1>7. LiveIsRegistered'
  BY <1>3, <1>4 DEF LiveIsRegistered, Registered
<1>8. JoinsLiveChannel'
  <2> SUFFICES ASSUME NEW k \in Key, channels[k] # NoChannel
               PROVE  LET ch == channel'[channels[k]] IN
                      ch.key = k /\ ~ch.aborted /\ (ch.source = "failed" => ch.timer)
    BY <1>4 DEF JoinsLiveChannel
  <2>1. channels[k] \in ChannelId
    BY DEF RegistryTypeOK
  <2> QED BY <1>3, <2>1 DEF JoinsLiveChannel
<1> QED BY <1>5, <1>6, <1>7, <1>8

LEMMA CreatePreserves ==
    ASSUME RegistryTypeOK, CallsOK, ChannelsOK, NEW s \in Subscriber, NEW f \in Feed,
           NEW id \in ChannelId, Create(s, f, id)
    PROVE  ChannelsOK'
<1> USE DEF ChannelsOK
<1> DEFINE key == call[s][f].key
<1>1. key \in Key /\ FeedOf(key) = f /\ channels[key] = NoChannel
  BY DEF Create, CallsOK
<1>2. \A i \in ChannelId : channel[i] \in Channel
  BY DEF RegistryTypeOK
<1>3. channel'[id] = NewChannel(key, s) /\ \A i \in ChannelId \ {id} : channel'[i] = channel[i]
  BY DEF Create, RegistryTypeOK
<1>4. channels'[key] = id /\ \A k \in Key \ {key} : channels'[k] = channels[k] /\ channels[k] # id
  BY <1>1 DEF Create, RegistryTypeOK, Unused
<1>5. MembersHoldTheKey'
  <2> SUFFICES ASSUME NEW k \in Key, channels'[k] # NoChannel,
                      NEW t \in channel'[channels'[k]].subscribers
               PROVE  subscriptions'[t][FeedOf(k)] = k
    BY DEF MembersHoldTheKey
  <2>1. CASE k = key
    BY <1>1, <1>3, <1>4, <2>1 DEF Create, RegistryTypeOK, NewChannel
  <2>2. CASE k # key
    <3>1. channels[k] # NoChannel /\ channels[k] \in ChannelId
          /\ t \in channel[channels[k]].subscribers
      BY <1>3, <1>4, <2>2 DEF RegistryTypeOK
    <3>2. subscriptions[t][FeedOf(k)] = k /\ t \in Subscriber
      BY <1>2, <3>1 DEF MembersHoldTheKey, Channel
    <3>3. ~(t = s /\ FeedOf(k) = f)
      BY <3>1, NotYetAMember DEF Create
    <3> QED BY <1>1, <3>2, <3>3, KeyFacts DEF Create, RegistryTypeOK
  <2> QED BY <2>1, <2>2
<1>6. ASSUME NEW i \in ChannelId \ {id}, Registered(i)
      PROVE  Registered(i)'
  <2>1. PICK k \in Key : channels[k] = i
    BY <1>6 DEF Registered
  <2>2. k # key
    BY <1>1, <2>1, KeyFacts
  <2> QED BY <1>4, <2>1, <2>2 DEF Registered
<1>7. Registered(id)'
  BY <1>1, <1>4 DEF Registered
<1>8. NoOrphanSource'
  BY <1>3, <1>6, <1>7 DEF NoOrphanSource, NewChannel
<1>9. LiveIsRegistered'
  BY <1>3, <1>6, <1>7 DEF LiveIsRegistered
<1>10. JoinsLiveChannel'
  BY <1>3, <1>4 DEF JoinsLiveChannel, NewChannel, RegistryTypeOK
<1> QED BY <1>5, <1>8, <1>9, <1>10

(* A step of channel object id that changes nothing but its source, its timer *)
(* and its retry count, or starts it again                                    *)
LEMMA SourceChangePreserves ==
    ASSUME RegistryTypeOK, ChannelsOK, NEW id \in ChannelId, UNCHANGED <<channels, subscriptions>>,
           NEW ch \in Channel, channel' = [channel EXCEPT ![id] = ch],
           ch.key = channel[id].key, ch.subscribers = channel[id].subscribers,
           ~ch.aborted \/ ch.timer => Registered(id) /\ ch.subscribers # {},
           Registered(id) => ~ch.aborted /\ (ch.source = "failed" => ch.timer)
    PROVE  ChannelsOK'
<1> USE DEF ChannelsOK
<1>1. channel'[id] = ch /\ \A i \in ChannelId \ {id} : channel'[i] = channel[i]
  BY DEF RegistryTypeOK
<1>2. \A i \in ChannelId : Registered(i)' = Registered(i)
  BY DEF Registered
<1>3. MembersHoldTheKey'
  BY <1>1 DEF MembersHoldTheKey, RegistryTypeOK
<1>4. NoOrphanSource'
  BY <1>1, <1>2 DEF NoOrphanSource
<1>5. LiveIsRegistered'
  BY <1>1, <1>2 DEF LiveIsRegistered
<1>6. JoinsLiveChannel'
  BY <1>1 DEF JoinsLiveChannel, Registered, RegistryTypeOK
<1> QED BY <1>3, <1>4, <1>5, <1>6

LEMMA GiveUpPreserves ==
    ASSUME RegistryTypeOK, ChannelsOK, NEW id \in ChannelId, NEW healthy \in BOOLEAN,
           GiveUp(id, healthy)
    PROVE  ChannelsOK'
<1> USE DEF ChannelsOK
<1>1. channel[id] \in Channel /\ Registered(id)
  BY DEF GiveUp, RegistryTypeOK, LiveIsRegistered
<1>2. PICK k \in Key : channels[k] = id
  BY <1>1 DEF Registered
<1>3. channel[id].key = k
  BY <1>2, KeyFacts DEF JoinsLiveChannel
<1>4. /\ channel'[id].aborted /\ ~channel'[id].timer
      /\ \A i \in ChannelId \ {id} : channel'[i] = channel[i]
  BY <1>1 DEF GiveUp, Removed, RegistryTypeOK, Channel
<1>5. /\ channels'[k] = NoChannel
      /\ \A l \in Key \ {k} : channels'[l] = channels[l] /\ channels[l] # id
  <2>1. \A l \in Key \ {k} : channels[l] # id
    BY <1>2, OneKeyPerChannel, KeyFacts
  <2> QED BY <1>3, <2>1 DEF GiveUp, RegistryTypeOK
<1>6. subscriptions' = subscriptions
  BY DEF GiveUp
<1>7. \A i \in ChannelId \ {id} : Registered(i) => Registered(i)'
  BY <1>2, <1>5 DEF Registered
<1>8. MembersHoldTheKey'
  BY <1>4, <1>5, <1>6 DEF MembersHoldTheKey, RegistryTypeOK
<1>9. NoOrphanSource'
  BY <1>4, <1>7 DEF NoOrphanSource
<1>10. LiveIsRegistered'
  BY <1>4, <1>7 DEF LiveIsRegistered
<1>11. JoinsLiveChannel'
  BY <1>4, <1>5 DEF JoinsLiveChannel, RegistryTypeOK
<1> QED BY <1>8, <1>9, <1>10, <1>11

LEMMA SourcePreserves ==
    ASSUME RegistryTypeOK, ChannelsOK, NEW id \in ChannelId, SourceStep(id) \/ Restart(id)
    PROVE  ChannelsOK'
<1>1. channel[id] \in Channel
  BY DEF RegistryTypeOK
<1>2. Registered(id) => ~channel[id].aborted
  BY KeyFacts DEF ChannelsOK, JoinsLiveChannel, Registered
<1>3. CASE SourcePublishes(id)
  BY <1>3 DEF SourcePublishes, ChannelsOK, LiveIsRegistered, MembersHoldTheKey,
              NoOrphanSource, JoinsLiveChannel, Registered
<1>4. CASE SourceEnds(id)
  <2> DEFINE ch == [channel[id] EXCEPT !.source = "ended"]
  <2>1. channel' = [channel EXCEPT ![id] = ch] /\ UNCHANGED <<channels, subscriptions>>
    BY <1>4 DEF SourceEnds
  <2>2. ch \in Channel /\ ch.source = "ended" /\ ch.key = channel[id].key
        /\ ch.subscribers = channel[id].subscribers /\ ch.aborted = channel[id].aborted
        /\ ch.timer = channel[id].timer
    BY <1>1 DEF Channel, SourceState
  <2>3. ~ch.aborted \/ ch.timer => Registered(id) /\ ch.subscribers # {}
    BY <1>4, <2>2 DEF SourceEnds, ChannelsOK, NoOrphanSource
  <2> HIDE DEF ch
  <2> QED BY <1>2, <2>1, <2>2, <2>3, SourceChangePreserves
<1>5. CASE ErrorIgnored(id)
  <2> DEFINE ch == [channel[id] EXCEPT !.source = "failed"]
  <2>1. channel' = [channel EXCEPT ![id] = ch] /\ UNCHANGED <<channels, subscriptions>>
    BY <1>5 DEF ErrorIgnored
  <2>2. ch \in Channel /\ ch.key = channel[id].key /\ ch.aborted
        /\ ch.subscribers = channel[id].subscribers /\ ch.timer = channel[id].timer
    BY <1>1, <1>5 DEF ErrorIgnored, Channel, SourceState
  <2>3. ~Registered(id)
    BY <1>2, <1>5 DEF ErrorIgnored
  <2>4. ~ch.timer
    BY <2>2, <2>3 DEF ChannelsOK, NoOrphanSource
  <2> HIDE DEF ch
  <2> QED BY <2>1, <2>2, <2>3, <2>4, SourceChangePreserves
<1>6. ASSUME NEW healthy \in BOOLEAN, ScheduleRestart(id, healthy)
      PROVE  ChannelsOK'
  <2> DEFINE ch == [channel[id] EXCEPT !.source = "failed", !.timer = TRUE,
                                       !.retryCount = RetryCount(id, healthy) + 1]
  <2>1. channel' = [channel EXCEPT ![id] = ch] /\ UNCHANGED <<channels, subscriptions>>
    BY <1>6 DEF ScheduleRestart
  <2>2. RetryCount(id, healthy) + 1 \in 0 .. MaxRetries
    BY <1>6, RetryCountType, RetriesAssumption DEF ScheduleRestart, MayRetry
  <2>3. ch \in Channel /\ ch.key = channel[id].key /\ ch.timer
        /\ ch.subscribers = channel[id].subscribers /\ ch.aborted = channel[id].aborted
    BY <1>1, <2>2 DEF Channel, SourceState
  <2>4. Registered(id) /\ ch.subscribers # {} /\ ~ch.aborted
    BY <1>6, <2>3 DEF ScheduleRestart, ChannelsOK, NoOrphanSource
  <2> HIDE DEF ch
  <2> QED BY <2>1, <2>3, <2>4, SourceChangePreserves
<1>7. ASSUME NEW healthy \in BOOLEAN, GiveUp(id, healthy)
      PROVE  ChannelsOK'
  BY <1>7, GiveUpPreserves
<1>8. CASE Restart(id)
  <2> DEFINE ch == RunAgain(channel[id])
  <2>1. channel' = [channel EXCEPT ![id] = ch] /\ UNCHANGED <<channels, subscriptions>>
        /\ channel[id].timer
    BY <1>8, RestartRuns DEF ChannelsOK
  <2>2. ch \in Channel /\ ch.key = channel[id].key /\ ~ch.aborted /\ ch.source = "running"
        /\ ch.subscribers = channel[id].subscribers
    BY <1>1 DEF RunAgain, Channel, SourceState
  <2>3. Registered(id) /\ ch.subscribers # {}
    BY <2>1, <2>2 DEF ChannelsOK, NoOrphanSource
  <2> HIDE DEF ch
  <2> QED BY <2>1, <2>2, <2>3, SourceChangePreserves
<1> QED BY <1>3, <1>4, <1>5, <1>6, <1>7, <1>8 DEF SourceStep

LEMMA ChannelsPreserved == RegistryTypeOK /\ CallsOK /\ ChannelsOK /\ [RegistryNext]_registryVars => ChannelsOK'
<1> SUFFICES ASSUME RegistryTypeOK, CallsOK, ChannelsOK, [RegistryNext]_registryVars
             PROVE  ChannelsOK'
  OBVIOUS
<1>1. CASE UNCHANGED <<channels, channel, subscriptions>>
  BY <1>1 DEF ChannelsOK, LiveIsRegistered, MembersHoldTheKey, NoOrphanSource,
              JoinsLiveChannel, Registered
<1>2. CASE UNCHANGED registryVars
  BY <1>1, <1>2 DEF registryVars
<1>3. ASSUME NEW s \in Subscriber, NEW f \in Feed, SubscriberStep(s, f)
      PROVE  ChannelsOK'
  BY <1>1, <1>3, LeavePreserves DEF SubscriberStep, SubscribeCall, PublishCall, Unsubscribe
<1>4. ASSUME NEW s \in Subscriber, NEW f \in Feed, CallFails(s, f) \/ CallSucceeds(s, f)
      PROVE  ChannelsOK'
  BY <1>1, <1>4, JoinPreserves, CreatePreserves
     DEF CallFails, CallSucceeds, PublishNow, PublishToHook, HookPublishes
<1>5. ASSUME NEW s \in Subscriber, UnsubscribeAll(s)
      PROVE  ChannelsOK'
  BY <1>5, LeavePreserves DEF UnsubscribeAll
<1> QED BY <1>2, <1>3, <1>4, <1>5, SourcePreserves DEF RegistryNext

-----------------------------------------------------------------------------
LEMMA RegistryInitInv == RegistryInit => RegistryInv
<1> SUFFICES ASSUME RegistryInit
             PROVE  RegistryInv
  OBVIOUS
<1>1. RegistryTypeOK
  BY InitTypeOK
<1>2. CallsOK
  BY DEF RegistryInit, CallsOK, NoCall
<1>3. ChannelsOK
  BY DEF RegistryInit, ChannelsOK, LiveIsRegistered, MembersHoldTheKey, NoOrphanSource,
         JoinsLiveChannel, Garbage
<1> QED BY <1>1, <1>2, <1>3 DEF RegistryInv

LEMMA RegistryNextInv == RegistryInv /\ [RegistryNext]_registryVars => RegistryInv'
BY NextType, CallsPreserved, ChannelsPreserved DEF RegistryInv

(* The invariant holds throughout.                                            *)
THEOREM RegistryInvariance == RegistrySpec => []RegistryInv
BY RegistryInitInv, RegistryNextInv, PTL DEF RegistrySpec

(* Type correctness; the retry count never exceeds MAX_RETRIES.               *)
THEOREM RegistryTypeCorrectness == RegistrySpec => []RegistryTypeOK
<1>1. RegistryInv => RegistryTypeOK
  BY DEF RegistryInv
<1> QED BY <1>1, RegistryInvariance, PTL

(* A subscriber is in the channels of its own subscriptions only.             *)
THEOREM Membership == RegistrySpec => []MembersHoldTheKey
<1>1. RegistryInv => MembersHoldTheKey
  BY DEF RegistryInv, ChannelsOK
<1> QED BY <1>1, RegistryInvariance, PTL

(* A running source nobody aborted has a channel in the map and a subscriber. *)
THEOREM SourcesAreWanted == RegistrySpec => []NoOrphanSource
<1>1. RegistryInv => NoOrphanSource
  BY DEF RegistryInv, ChannelsOK
<1> QED BY <1>1, RegistryInvariance, PTL

(* Whoever joins a channel of the map joins one that is not stopped.          *)
THEOREM JoinedChannelsLive == RegistrySpec => []JoinsLiveChannel
<1>1. RegistryInv => JoinsLiveChannel
  BY DEF RegistryInv, ChannelsOK
<1> QED BY <1>1, RegistryInvariance, PTL

-----------------------------------------------------------------------------
(* What a channel nobody aborted lists are holders of its key.                *)
LEMMA BroadcastToHolders ==
    ASSUME ChannelsOK, NEW id \in ChannelId, ~channel[id].aborted,
           NEW type, NEW s \in Broadcast(type, id).to
    PROVE  subscriptions[s][FeedOf(Broadcast(type, id).key)] = Broadcast(type, id).key
<1>1. PICK k \in Key : channels[k] = id
  BY DEF ChannelsOK, LiveIsRegistered, Registered
<1>2. channel[id].key = k /\ channels[k] # NoChannel
  BY <1>1, KeyFacts DEF ChannelsOK, JoinsLiveChannel
<1> QED BY <1>1, <1>2 DEF Broadcast, ChannelsOK, MembersHoldTheKey

LEMMA NextSentToHolders ==
    ASSUME RegistryInv, RegistryNext, ~SupersededPublish, NEW t \in sent'.to
    PROVE  subscriptions[t][FeedOf(sent'.key)] = sent'.key
<1> USE DEF RegistryInv
<1>1. sent' # Silence
  BY DEF Silence
<1>2. \A s \in Subscriber, f \in Feed : ~SubscriberStep(s, f)
  BY <1>1 DEF SubscriberStep, SubscribeCall, PublishCall, Unsubscribe
<1>3. \A s \in Subscriber : ~UnsubscribeAll(s)
  BY <1>1 DEF UnsubscribeAll
<1>4. ASSUME NEW s \in Subscriber, NEW f \in Feed, CallFails(s, f) \/ CallSucceeds(s, f)
      PROVE  \E id \in ChannelId : ~channel[id].aborted /\ sent' = Broadcast("message", id)
  <2>1. CASE PublishNow(s, f)
    <3>1. call[s][f].key \in Key
      BY <2>1 DEF PublishNow, CallsOK
    <3> QED BY <1>1, <2>1, <3>1 DEF PublishNow, Publish, RegistryTypeOK
  <2>2. CASE HookPublishes(s, f)
    <3>1. call[s][f].channel \in ChannelId /\ call[s][f].channel # NoChannel
      BY <2>2 DEF HookPublishes, CallsOK, RegistryTypeOK, Call
    <3>2. ~call[s][f].superseded
      BY <2>2 DEF HookPublishes, SupersededPublish, RegistryTypeOK
    <3> QED BY <1>1, <2>2, <3>1, <3>2 DEF HookPublishes, Publish
  <2> QED BY <1>1, <1>4, <2>1, <2>2 DEF CallFails, CallSucceeds, Join, Create, PublishToHook
<1>5. ASSUME NEW i \in ChannelId, SourceStep(i) \/ Restart(i)
      PROVE  \E id \in ChannelId, type \in {"message", "error"} :
                 ~channel[id].aborted /\ sent' = Broadcast(type, id)
  BY <1>1, <1>5 DEF SourceStep, SourcePublishes, SourceEnds, ErrorIgnored,
                    ScheduleRestart, GiveUp, Restart, Publish
<1> QED BY <1>2, <1>3, <1>4, <1>5, BroadcastToHolders DEF RegistryNext

(* A frame reaches only subscribers that hold its channel's key, except for a *)
(* publish by a hook whose source has been run again since.                   *)
THEOREM Delivery == RegistrySpec => SentToHolders
<1> DEFINE A == ~SupersededPublish =>
                  \A s \in sent'.to : subscriptions[s][FeedOf(sent'.key)] = sent'.key
<1>1. RegistryInv /\ [RegistryNext]_registryVars => [A]_registryVars
  BY NextSentToHolders
<1> QED BY <1>1, RegistryInvariance, PTL DEF RegistrySpec, SentToHolders

-----------------------------------------------------------------------------
(* Who is served, as the connections tell their clients                       *)

\* The subscriber is in the channel of what it subscribed to.
Served(s, f) ==
    LET key == subscriptions[s][f] IN
    key # NoKey /\ channels[key] # NoChannel /\ s \in channel[channels[key]].subscribers

\* A subscription's key is one of its feed.
KeysFit == \A s \in Subscriber, f \in Feed :
    subscriptions[s][f] # NoKey => FeedOf(subscriptions[s][f]) = f

\* Leaving ends what is left, and nothing else: not what somebody else is served, and
\* not what the subscriber is served on another feed.
LEMMA ServedAfterLeaving ==
    ASSUME RegistryInv, KeysFit, NEW s \in Subscriber, NEW feeds \in SUBSET Feed, Leave(s, feeds),
           NEW t \in Subscriber, NEW g \in Feed
    PROVE  Served(t, g)' <=> Served(t, g) /\ ~(t = s /\ g \in feeds)
<1> DEFINE key == subscriptions[t][g]
           id == channels[key]
<1>1. RegistryTypeOK /\ JoinsLiveChannel /\ key \in Key \cup {NoKey}
  BY DEF RegistryInv, ChannelsOK, RegistryTypeOK
<1>2. subscriptions'[t][g] = IF t = s /\ g \in feeds THEN NoKey ELSE key
  BY <1>1 DEF Leave, RegistryTypeOK
<1>3. CASE (t = s /\ g \in feeds) \/ key = NoKey
  BY <1>2, <1>3 DEF Served
<1>4. CASE ~(t = s /\ g \in feeds) /\ key \in Key /\ id = NoChannel
  <2>1. channels'[key] = NoChannel
    BY <1>4 DEF Leave, channelsAfterLeaving
  <2> QED BY <1>2, <1>4, <2>1 DEF Served
<1>5. CASE ~(t = s /\ g \in feeds) /\ key \in Key /\ key # NoKey /\ id # NoChannel
  <2> DEFINE held == key \in KeysHeld(s, feeds)
  <2>1. /\ channel'[id] = IF held THEN Left(channel[id], s) ELSE channel[id]
        /\ channels'[key] = IF held /\ channel[id].subscribers \subseteq {s} THEN NoChannel ELSE id
    BY <1>1, <1>5, LeaveFacts
  <2>2. held => t # s
    BY <1>5 DEF KeysHeld, KeysFit
  <2>3. id \in ChannelId /\ channel[id] \in Channel
    BY <1>1, <1>5 DEF RegistryTypeOK
  <2>4. Left(channel[id], s).subscribers = channel[id].subscribers \ {s}
    BY <2>3, LeftIsChannel
  <2>5. (t \in channel[id].subscribers) <=> channels'[key] # NoChannel /\ t \in channel'[channels'[key]].subscribers
    <3> HIDE DEF held, id
    <3>1. CASE held
      BY <1>5, <2>1, <2>2, <2>4, <3>1
    <3>2. CASE ~held
      BY <1>5, <2>1, <3>2
    <3> QED BY <3>1, <3>2
  <2> QED BY <1>2, <1>5, <2>5 DEF Served
<1> QED BY <1>1, <1>3, <1>4, <1>5

\* A subscriber that registers for a feed is served it, and nobody is served otherwise than
\* before: a channel object in use is not taken for a new channel.
LEMMA ServedAfterJoining ==
    ASSUME RegistryInv, KeysFit, NEW s \in Subscriber, NEW f \in Feed,
           Join(s, f) \/ \E id \in ChannelId : Create(s, f, id),
           NEW t \in Subscriber, NEW g \in Feed
    PROVE  /\ Served(t, g)' <=> Served(t, g) \/ (t = s /\ g = f)
           /\ subscriptions'[t][g] = IF t = s /\ g = f THEN call[s][f].key ELSE subscriptions[t][g]
<1> DEFINE new == call[s][f].key
           key == subscriptions[t][g]
<1>1. /\ RegistryTypeOK /\ JoinsLiveChannel /\ key \in Key \cup {NoKey}
      /\ new \in Key /\ new # NoKey /\ FeedOf(new) = f /\ NoChannel \notin ChannelId
  BY KeyFacts DEF RegistryInv, ChannelsOK, RegistryTypeOK, CallsOK, Join, Create
<1>2. subscriptions'[t][g] = IF t = s /\ g = f THEN new ELSE key
  BY <1>1 DEF Join, Create, RegistryTypeOK
<1>3. key # NoKey => FeedOf(key) = g
  BY DEF KeysFit
<1> HIDE DEF new, key
<1>4. CASE Join(s, f)
  <2>1. /\ channels' = channels /\ channels[new] \in ChannelId /\ channels[new] # NoChannel
    BY <1>1, <1>4 DEF Join, RegistryTypeOK, new
  <2>2. \A id \in ChannelId : channel'[id].subscribers =
            IF id = channels[new] THEN channel[id].subscribers \cup {s} ELSE channel[id].subscribers
    BY <1>1, <1>4, <2>1 DEF Join, RegistryTypeOK, Channel, new
  <2>3. CASE t = s /\ g = f
    BY <1>1, <1>2, <2>1, <2>2, <2>3 DEF Served, new, key
  <2>4. CASE ~(t = s /\ g = f) /\ key # NoKey /\ channels[key] # NoChannel
    <3>1. channels[key] \in ChannelId
      BY <1>1, <2>4 DEF RegistryTypeOK
    <3>2. ~(channels[key] = channels[new] /\ t = s)
      BY <1>1, <1>3, <2>4, OneKeyPerChannel
    <3> QED BY <1>2, <2>1, <2>2, <2>4, <3>1, <3>2 DEF Served, key
  <2>5. CASE ~(t = s /\ g = f) /\ (key = NoKey \/ channels[key] = NoChannel)
    BY <1>2, <2>1, <2>5 DEF Served, key
  <2> QED BY <1>2, <2>3, <2>4, <2>5 DEF new, key
<1>5. ASSUME NEW id \in ChannelId, Create(s, f, id)
      PROVE  Served(t, g)' <=> Served(t, g) \/ (t = s /\ g = f)
  <2>1. /\ channels[new] = NoChannel /\ channels'[new] = id /\ channel'[id].subscribers = {s}
        /\ \A k \in Key \ {new} : channels'[k] = channels[k] /\ channels[k] # id
        /\ \A i \in ChannelId \ {id} : channel'[i] = channel[i]
    BY <1>1, <1>5 DEF Create, RegistryTypeOK, Unused, NewChannel, new
  <2>2. CASE t = s /\ g = f
    BY <1>1, <1>2, <1>5, <2>1, <2>2 DEF Served
  <2>3. CASE ~(t = s /\ g = f) /\ key = NoKey
    BY <1>2, <2>3 DEF Served, key
  <2>4. CASE ~(t = s /\ g = f) /\ key = new
    BY <1>1, <1>2, <1>3, <1>5, <2>1, <2>4 DEF Served, key
  <2>5. CASE ~(t = s /\ g = f) /\ key \in Key \ {new, NoKey}
    <3>1. channels'[key] = channels[key] /\ channels[key] \in (ChannelId \ {id}) \cup {NoChannel}
      BY <1>1, <2>1, <2>5 DEF RegistryTypeOK
    <3> QED BY <1>2, <2>1, <2>5, <3>1 DEF Served, key
  <2> QED BY <1>1, <2>2, <2>3, <2>4, <2>5
<1> QED BY <1>2, <1>4, <1>5 DEF new, key

\* Who is served is who the channel of its subscription lists.
LEMMA ServedIsListed ==
    ASSUME RegistryInv, KeysFit, NEW id \in ChannelId, ~channel[id].aborted, NEW t \in Subscriber, NEW g \in Feed
    PROVE  /\ channel[id].key \in Key /\ channels[channel[id].key] = id
           /\ t \in channel[id].subscribers =>
                  subscriptions[t][FeedOf(channel[id].key)] = channel[id].key
           /\ t \in channel[id].subscribers /\ g = FeedOf(channel[id].key)
                  <=> Served(t, g) /\ subscriptions[t][g] = channel[id].key
<1>1. PICK k \in Key : channels[k] = id
  BY DEF RegistryInv, ChannelsOK, LiveIsRegistered, Registered
<1>2. channel[id].key = k /\ channels[k] # NoChannel /\ k # NoKey
  BY <1>1, KeyFacts DEF RegistryInv, ChannelsOK, JoinsLiveChannel
<1>3. t \in channel[id].subscribers => subscriptions[t][FeedOf(k)] = k
  BY <1>1, <1>2 DEF RegistryInv, ChannelsOK, MembersHoldTheKey
<1>4. t \in channel[id].subscribers /\ g = FeedOf(k) => Served(t, g) /\ subscriptions[t][g] = k
  BY <1>1, <1>2, <1>3 DEF Served
<1>5. Served(t, g) /\ subscriptions[t][g] = k => t \in channel[id].subscribers /\ g = FeedOf(k)
  BY <1>1, <1>2 DEF Served, KeysFit
<1> QED BY <1>1, <1>2, <1>3, <1>4, <1>5

\* The last step broadcast a frame of feed g to subscriber t.
Heard(t, g) == sent.type # "none" /\ t \in sent.to /\ FeedOf(sent.key) = g

\* A broadcast is heard by whom the channel serves; it ends their service only when the
\* channel is given up, with an error.
HeardBy(t, g) ==
    /\ subscriptions' = subscriptions
    /\ sent'.type # "none" => FeedOf(sent'.key) \in Feed
    /\ Heard(t, g)' => Served(t, g) /\ sent'.key = subscriptions[t][g]
    /\ \/ Served(t, g)' <=> Served(t, g)
       \/ Heard(t, g)' /\ sent'.type = "error" /\ ~Served(t, g)'

LEMMA ServedAlike ==
    ASSUME RegistryTypeOK, NEW t \in Subscriber, NEW g \in Feed, UNCHANGED <<channels, subscriptions>>,
           \A id \in ChannelId : channel'[id].subscribers = channel[id].subscribers
    PROVE  Served(t, g)' <=> Served(t, g)
BY KeyFacts DEF Served, RegistryTypeOK

LEMMA CallsHeard ==
    ASSUME RegistryInv, KeysFit, NEW s \in Subscriber, NEW f \in Feed, ~SupersededPublish,
           CallFails(s, f) \/ PublishNow(s, f) \/ PublishToHook(s, f) \/ HookPublishes(s, f),
           NEW t \in Subscriber, NEW g \in Feed
    PROVE  HeardBy(t, g)
<1>1. UNCHANGED <<channels, channel, subscriptions>>
  BY DEF CallFails, PublishNow, PublishToHook, HookPublishes
<1>2. Served(t, g)' <=> Served(t, g)
  BY <1>1 DEF Served
<1>3. sent' = Silence \/ \E id \in ChannelId : ~channel[id].aborted /\ sent' = Broadcast("message", id)
  <2>1. CASE PublishNow(s, f)
    <3>1. call[s][f].key \in Key
      BY <2>1 DEF PublishNow, RegistryInv, CallsOK
    <3> QED BY <2>1, <3>1 DEF PublishNow, Publish, RegistryTypeOK, RegistryInv
  <2>2. CASE HookPublishes(s, f)
    <3>1. call[s][f].channel \in ChannelId /\ call[s][f].channel # NoChannel
      BY <2>2 DEF HookPublishes, CallsOK, RegistryTypeOK, Call, RegistryInv
    <3>2. ~call[s][f].superseded
      BY <2>2 DEF HookPublishes, SupersededPublish, RegistryTypeOK, RegistryInv
    <3> QED BY <2>2, <3>1, <3>2 DEF HookPublishes, Publish
  <2> QED BY <2>1, <2>2 DEF CallFails, PublishToHook
<1>4. /\ Heard(t, g)' => Served(t, g) /\ sent'.key = subscriptions[t][g]
      /\ sent'.type # "none" => FeedOf(sent'.key) \in Feed
  BY <1>3, ServedIsListed, KeyFacts DEF Heard, Silence, Broadcast
<1> QED BY <1>1, <1>2, <1>4 DEF HeardBy

LEMMA SourcesHeard ==
    ASSUME RegistryInv, KeysFit, NEW id \in ChannelId, SourceStep(id) \/ Restart(id),
           NEW t \in Subscriber, NEW g \in Feed
    PROVE  HeardBy(t, g)
<1>1. RegistryTypeOK /\ NoOrphanSource /\ \A i \in ChannelId : channel[i] \in Channel
  BY DEF RegistryInv, ChannelsOK, RegistryTypeOK
<1>2. CASE SourcePublishes(id)
  <2>1. sent' = Silence \/ (~channel[id].aborted /\ sent' = Broadcast("message", id))
    BY <1>2 DEF SourcePublishes, Publish
  <2>2. /\ Heard(t, g)' => Served(t, g) /\ sent'.key = subscriptions[t][g]
        /\ sent'.type # "none" => FeedOf(sent'.key) \in Feed
    BY <2>1, ServedIsListed, KeyFacts DEF Heard, Silence, Broadcast
  <2> QED BY <1>2, <2>2 DEF HeardBy, SourcePublishes, Served
<1>3. CASE SourceEnds(id) \/ ErrorIgnored(id) \/ Restart(id)
  <2>1. /\ sent' = Silence /\ UNCHANGED <<channels, subscriptions>>
        /\ \A i \in ChannelId : channel'[i].subscribers = channel[i].subscribers
    <3>1. CASE SourceEnds(id)
      BY <1>1, <3>1 DEF SourceEnds, RegistryTypeOK, Channel
    <3>3. CASE ErrorIgnored(id)
      BY <1>1, <3>3 DEF ErrorIgnored, RegistryTypeOK, Channel
    <3>2. CASE Restart(id)
      <4>1. RunAgain(channel[id]).subscribers = channel[id].subscribers
        BY <1>1 DEF RunAgain, Channel
      <4> QED BY <1>1, <3>2, <4>1, RestartRuns DEF RegistryTypeOK
    <3> QED BY <1>3, <3>1, <3>2, <3>3
  <2> QED BY <1>1, <2>1, ServedAlike DEF HeardBy, Heard, Silence
<1>4. ASSUME NEW healthy \in BOOLEAN, ScheduleRestart(id, healthy)
      PROVE  HeardBy(t, g)
  <2>1. /\ sent' = Broadcast("error", id) /\ ~channel[id].aborted /\ UNCHANGED <<channels, subscriptions>>
        /\ \A i \in ChannelId : channel'[i].subscribers = channel[i].subscribers
    BY <1>1, <1>4 DEF ScheduleRestart, RegistryTypeOK, Channel
  <2>2. /\ Heard(t, g)' => Served(t, g) /\ sent'.key = subscriptions[t][g]
        /\ sent'.type # "none" => FeedOf(sent'.key) \in Feed
    BY <2>1, ServedIsListed, KeyFacts DEF Heard, Broadcast
  <2> QED BY <1>1, <2>1, <2>2, ServedAlike DEF HeardBy
<1>5. ASSUME NEW healthy \in BOOLEAN, GiveUp(id, healthy)
      PROVE  HeardBy(t, g)
  <2> DEFINE k == channel[id].key
  <2>1. /\ sent' = Broadcast("error", id) /\ ~channel[id].aborted /\ subscriptions' = subscriptions
        /\ \A i \in ChannelId : channel'[i].subscribers = channel[i].subscribers
    BY <1>1, <1>5 DEF GiveUp, RegistryTypeOK, Channel, Removed
  <2>2. k \in Key /\ channels'[k] = NoChannel /\ \A l \in Key \ {k} : channels'[l] = channels[l]
    BY <1>1, <1>5, <2>1, ServedIsListed DEF GiveUp, RegistryTypeOK
  <2>3. (Heard(t, g)' <=> Served(t, g) /\ subscriptions[t][g] = k) /\ FeedOf(sent'.key) \in Feed
    BY <2>1, <2>2, ServedIsListed, KeyFacts DEF Heard, Broadcast
  <2>4. CASE subscriptions[t][g] = k
    <3>1. ~Served(t, g)'
      BY <2>1, <2>2, <2>4 DEF Served
    <3> QED BY <2>1, <2>3, <2>4, <3>1 DEF HeardBy, Broadcast
  <2>5. CASE subscriptions[t][g] # k
    <3>1. Served(t, g)' <=> Served(t, g)
      BY <1>1, <2>1, <2>2, <2>5, KeyFacts DEF Served, RegistryTypeOK
    <3> QED BY <2>1, <2>3, <2>5, <3>1 DEF HeardBy
  <2> QED BY <2>4, <2>5
<1> QED BY <1>2, <1>3, <1>4, <1>5 DEF SourceStep

-----------------------------------------------------------------------------
(* The connections                                                            *)

ConnectionsTyped ==
    /\ session \in [Subscriber -> Caller] /\ caller \in [Subscriber -> Caller]
    /\ status \in [Subscriber -> {"new", "open", "closing", "closed"}]
    /\ queue \in [Subscriber -> [Feed -> Seq(Frame)]]
    /\ stage \in [Subscriber -> [Feed -> {"idle", "checking", "registry", "granted", "refused"}]]
    /\ wanted \in [Subscriber -> [Feed -> Payload \cup {NoPayload}]]
    /\ closeCode \in [Subscriber -> {"none", "transport", "caller-changed", "caller-check-failed"}]
    /\ outbox \in [Subscriber -> [Feed -> Seq(OutFrame)]]

\* The feed is subscribed to what payload p evaluates to, or to nothing.
Holds(c, f, p) ==
    subscriptions[c][f] = NoKey \/ (p # NoPayload /\ subscriptions[c][f] = KeyOf(c, f, p))

\* A call of the registry is the head frame's, and its subscription the head's.
StageInv(c, f) ==
    /\ stage[c][f] # "idle" => queue[c][f] # <<>> /\ Head(queue[c][f]).type # "unsubscribe"
    /\ stage[c][f] = "checking" => Head(queue[c][f]).type = "subscribe"
    /\ call[c][f].op # "none" => stage[c][f] = "registry"
    /\ stage[c][f] = "registry" /\ call[c][f].op = "subscribe" =>
           /\ Head(queue[c][f]).type = "subscribe"
           /\ call[c][f].key = KeyOf(c, f, Head(queue[c][f]).payload)
    /\ stage[c][f] \in {"registry", "granted", "refused"} /\ Head(queue[c][f]).type = "subscribe"
           => Holds(c, f, Head(queue[c][f]).payload)

\* The last frame but publishes is at place i of queue q and asks for p.
LastAsks(q, i, p) ==
    q[i].type # "publish" /\ q[i].payload = p /\ \A j \in i + 1..Len(q) : q[j].type = "publish"
WantedInv(c, f) == status[c] = "open" =>
    \/ \E i \in DOMAIN queue[c][f] : LastAsks(queue[c][f], i, wanted[c][f])
    \/ /\ \A i \in DOMAIN queue[c][f] : queue[c][f][i].type = "publish"
       /\ Holds(c, f, wanted[c][f])

GoneInv(c, f) == status[c] \in {"new", "closed"} =>
    queue[c][f] = <<>> /\ subscriptions[c][f] = NoKey

FeedInv(c, f) == StageInv(c, f) /\ WantedInv(c, f) /\ GoneInv(c, f)

IInv == RegistryInv /\ ConnectionsTyped /\ \A c \in Subscriber, f \in Feed : FeedInv(c, f)

-----------------------------------------------------------------------------
(* The registry *)

\* What lies after i in a sequence of n + 1 lay there before, or is the last.
LEMMA RangeExtends ==
    ASSUME NEW n \in Nat, NEW i \in 1..n
    PROVE  \A j \in i + 1..n + 1 : (j \in i + 1..n /\ j \in 1..n) \/ j = n + 1
OBVIOUS

LEMMA RegistryKeepsItsInvariant ==
    ASSUME RegistryInv, RegistryNext \/ UNCHANGED registryVars
    PROVE  RegistryInv'
<1>1. [RegistryNext]_registryVars
    BY DEF registryVars
<1> QED
    BY <1>1, RegistryNextInv

\* What the invariant of the registry says of subscriptions and calls.
LEMMA RegistryTypes ==
    ASSUME RegistryInv
    PROVE  /\ RegistryTypeOK
           /\ subscriptions \in [Subscriber -> [Feed -> Key \cup {NoKey}]]
           /\ call \in [Subscriber -> [Feed -> Call]]
           /\ \A s \in Subscriber, f \in Feed : call[s][f].op = "subscribe" =>
                  subscriptions[s][f] = NoKey /\ call[s][f].key \in Key
           /\ \A k \in Key : channels[k] # NoChannel =>
                  \A s \in channel[channels[k]].subscribers : subscriptions[s][k[1]] = k
<1>1. RegistryTypeOK /\ CallsOK /\ MembersHoldTheKey
    BY DEF RegistryInv, ChannelsOK
<1>2. /\ \A s \in Subscriber, f \in Feed : call[s][f].op = "subscribe" =>
             subscriptions[s][f] = NoKey /\ call[s][f].key \in Key
      /\ \A k \in Key : channels[k] # NoChannel =>
             \A s \in channel[channels[k]].subscribers : subscriptions[s][k[1]] = k
    BY <1>1 DEF CallsOK, MembersHoldTheKey, FeedOf, Key
<1> QED
    BY <1>1, <1>2 DEF RegistryTypeOK

LEMMA LeaveEffect ==
    ASSUME RegistryInv, NEW s \in Subscriber, NEW feeds \in SUBSET Feed, Leave(s, feeds)
    PROVE  \A c \in Subscriber, f \in Feed :
               subscriptions'[c][f] = IF c = s /\ f \in feeds THEN NoKey ELSE subscriptions[c][f]
    BY RegistryTypes DEF Leave

LEMMA QueueFacts ==
    ASSUME NEW q \in Seq(Frame), q # <<>>
    PROVE  /\ Head(q) = q[1] /\ Head(q) \in Frame /\ Len(q) \in Nat \ {0} /\ DOMAIN q = 1..Len(q)
           /\ Tail(q) \in Seq(Frame) /\ DOMAIN Tail(q) = 1..Len(q) - 1
           /\ \A i \in 1..Len(q) - 1 : Tail(q)[i] = q[i + 1]
           /\ Len(Tail(q)) = Len(q) - 1
    OBVIOUS

LEMMA AppendFacts ==
    ASSUME NEW q \in Seq(Frame), NEW frame \in Frame
    PROVE  /\ DOMAIN q = 1..Len(q) /\ Len(q) \in Nat
           /\ DOMAIN Append(q, frame) = 1..Len(q) + 1 /\ Len(Append(q, frame)) = Len(q) + 1
           /\ \A i \in 1..Len(q) : Append(q, frame)[i] = q[i]
           /\ Append(q, frame)[Len(q) + 1] = frame /\ Append(q, frame) # <<>>
           /\ q # <<>> => Head(Append(q, frame)) = Head(q)
    OBVIOUS

LEMMA KeyIsKey ==
    ASSUME ConnectionsTyped, NEW c \in Subscriber, NEW f \in Feed, NEW p \in Payload \cup {NoPayload}
    PROVE  KeyOf(c, f, p) \in Key /\ FeedOf(KeyOf(c, f, p)) = f
<1>1. caller[c] \in Caller
    BY DEF ConnectionsTyped
<1>2. HashOf[<<caller[c], p>>] \in Hash
    BY <1>1, EvaluationAssumption
<1> QED
    BY <1>2 DEF KeyOf, Key, FeedOf

-----------------------------------------------------------------------------
(* The frames of one feed *)

\* A feed whose frame stays where it is: its subscription may be left, its connection
\* begin to close, or close for good once nothing waits.
LEMMA FeedKept ==
    ASSUME NEW c \in Subscriber, NEW f \in Feed, FeedInv(c, f),
           queue'[c][f] = queue[c][f], stage'[c][f] = stage[c][f], wanted'[c][f] = wanted[c][f],
           caller'[c] = caller[c],
           call'[c][f].op = call[c][f].op, call'[c][f].key = call[c][f].key,
           subscriptions'[c][f] \in {subscriptions[c][f], NoKey},
           \/ status'[c] = status[c] \/ status'[c] = "closing"
           \/ status'[c] = "closed" /\ queue[c][f] = <<>> /\ subscriptions'[c][f] = NoKey
    PROVE  FeedInv(c, f)'
<1>1. KeyOf(c, f, wanted[c][f])' = KeyOf(c, f, wanted[c][f])
    BY DEF KeyOf
<1>2. KeyOf(c, f, Head(queue[c][f]).payload)' = KeyOf(c, f, Head(queue[c][f]).payload)
    BY DEF KeyOf
<1>3. StageInv(c, f)'
    BY <1>2 DEF FeedInv, StageInv, Holds
<1>4. WantedInv(c, f)'
    BY <1>1 DEF FeedInv, WantedInv, Holds, LastAsks
<1>5. GoneInv(c, f)'
    BY DEF FeedInv, GoneInv
<1> QED
    BY <1>3, <1>4, <1>5 DEF FeedInv

\* The head frame is done with; what it asked for, if it was not a publish, is held.
LEMMA FeedPopped ==
    ASSUME ConnectionsTyped, NEW c \in Subscriber, NEW f \in Feed, FeedInv(c, f), queue[c][f] # <<>>,
           queue'[c][f] = Tail(queue[c][f]), stage'[c][f] = "idle", wanted'[c][f] = wanted[c][f],
           caller'[c] = caller[c], call'[c][f].op = "none",
           status'[c] = status[c] \/ status'[c] = "closing",
           subscriptions'[c][f] \in {subscriptions[c][f], NoKey},
           status'[c] = "open" /\ Head(queue[c][f]).type # "publish"
               => subscriptions'[c][f] = NoKey \/ Holds(c, f, Head(queue[c][f]).payload)
    PROVE  FeedInv(c, f)'
<1> DEFINE q == queue[c][f]
           w == wanted[c][f]
<1>1. /\ q \in Seq(Frame) /\ q # <<>>
      /\ \A p : KeyOf(c, f, p)' = KeyOf(c, f, p')
    BY DEF ConnectionsTyped, KeyOf
<1>2. Head(q) = q[1] /\ Len(q) \in Nat \ {0} /\ DOMAIN q = 1..Len(q)
      /\ DOMAIN Tail(q) = 1..Len(q) - 1 /\ \A i \in 1..Len(q) - 1 : Tail(q)[i] = q[i + 1]
      /\ Len(Tail(q)) = Len(q) - 1
    BY <1>1, QueueFacts
<1>3. StageInv(c, f)'
    BY DEF StageInv
<1>4. GoneInv(c, f)'
    BY DEF FeedInv, GoneInv
<1>5. WantedInv(c, f)'
    <2> SUFFICES ASSUME status'[c] = "open"
                 PROVE  \/ \E i \in DOMAIN Tail(q) : LastAsks(Tail(q), i, w)
                        \/ /\ \A i \in DOMAIN Tail(q) : Tail(q)[i].type = "publish"
                           /\ Holds(c, f, w)'
        BY DEF WantedInv, Holds, KeyOf, LastAsks
    <2>1. status[c] = "open" /\ (Holds(c, f, w) => Holds(c, f, w)')
        BY <1>1 DEF Holds, KeyOf
    <2>2. CASE \E i \in DOMAIN q : LastAsks(q, i, w)
        <3>1. PICK i \in DOMAIN q : LastAsks(q, i, w)
            BY <2>2
        <3>2. CASE i = 1
            <4>1. Holds(c, f, w)'
                BY <1>2, <2>1, <3>1, <3>2 DEF LastAsks, Holds
            <4>2. \A j \in 1..Len(q) - 1 : q[j + 1].type = "publish"
                BY <1>2, <3>1, <3>2 DEF LastAsks
            <4> QED
                BY <1>2, <4>1, <4>2
        <3>3. CASE i # 1
            <4>1. i - 1 \in 1..Len(q) - 1 /\ Tail(q)[i - 1] = q[i]
                BY <1>2, <3>3
            <4>2. \A j \in (i - 1) + 1..Len(Tail(q)) : Tail(q)[j].type = "publish"
                BY <1>2, <3>1, <3>3 DEF LastAsks
            <4>3. LastAsks(Tail(q), i - 1, w)
                BY <3>1, <4>1, <4>2 DEF LastAsks
            <4> QED
                BY <1>2, <4>1, <4>3
        <3> QED
            BY <3>2, <3>3
    <2>3. CASE ~\E i \in DOMAIN q : LastAsks(q, i, w)
        <3>1. \A i \in DOMAIN q : q[i].type = "publish"
            BY <2>1, <2>3 DEF FeedInv, WantedInv
        <3>2. Holds(c, f, w)
            BY <2>1, <2>3 DEF FeedInv, WantedInv
        <3>3. \A i \in 1..Len(q) - 1 : q[i + 1].type = "publish"
            BY <1>2, <3>1
        <3> QED
            BY <1>2, <2>1, <3>2, <3>3
    <2> QED
        BY <2>2, <2>3
<1> QED
    BY <1>3, <1>4, <1>5 DEF FeedInv

-----------------------------------------------------------------------------
(* What a step does to each feed.  In the lemmas, d and g are any connection and feed. *)

LEMMA SteadyFeeds ==
    ASSUME IInv, NEW d \in Subscriber, NEW g \in Feed,
           \/ UNCHANGED vars
           \/ \E c \in Subscriber : (\E user \in Caller : SessionChanges(c, user))
                                     \/ (\E f \in Feed : Deliver(c, f))
           \/ \E id \in ChannelId : ChannelStep(id) \/ ChannelRestarts(id)
    PROVE  FeedInv(d, g)'
<1>1. FeedInv(d, g) /\ call \in [Subscriber -> [Feed -> Call]]
    BY RegistryTypes DEF IInv
<1> DEFINE Steady == /\ UNCHANGED <<queue, stage, wanted, caller, status, subscriptions>>
                     /\ call'[d][g].op = call[d][g].op /\ call'[d][g].key = call[d][g].key
<1>2. Steady
    <2>1. CASE UNCHANGED vars
        BY <2>1 DEF vars, registryVars, connectionVars
    <2>2. ASSUME NEW c \in Subscriber,
                 (\E user \in Caller : SessionChanges(c, user)) \/ \E f \in Feed : Deliver(c, f)
          PROVE  Steady
        BY <2>2 DEF SessionChanges, Deliver, registryVars
    <2>3. ASSUME NEW id \in ChannelId, ChannelStep(id)
          PROVE  Steady
        BY <2>3 DEF ChannelStep, SourceStep, SourcePublishes, SourceEnds,
                    ErrorIgnored, ScheduleRestart, GiveUp
    <2>4. ASSUME NEW id \in ChannelId, ChannelRestarts(id)
          PROVE  Steady
        <3>1. call' = call \/ call'[d][g] = Supersede(call[d][g], id)
            BY <2>4 DEF ChannelRestarts, Restart
        <3>2. call[d][g] \in Call
            BY <1>1
        <3> QED
            BY <2>4, <3>1, <3>2 DEF ChannelRestarts, Restart, Supersede, Call,
                                    connectionVars
    <2> QED
        BY <2>1, <2>2, <2>3, <2>4
<1> QED
    BY <1>1, <1>2, FeedKept

LEMMA ClosingFeeds ==
    ASSUME IInv, NEW c \in Subscriber, NEW d \in Subscriber, NEW g \in Feed,
           CloseFinishes(c) \/ SocketCloses(c) \/ CallerCheck(c)
    PROVE  FeedInv(d, g)'
<1>1. FeedInv(d, g) /\ status \in [Subscriber -> {"new", "open", "closing", "closed"}]
    BY DEF IInv, ConnectionsTyped
<1>2. Leave(c, Feed) /\ call' = call /\ UNCHANGED <<queue, stage, wanted, caller>>
    BY DEF CloseFinishes, SocketCloses, CallerCheck, CheckFails, CloseWith, UnsubscribeAll
<1>3. subscriptions'[d][g] = IF d = c THEN NoKey ELSE subscriptions[d][g]
    BY <1>2, LeaveEffect DEF IInv
<1>4. \/ status'[d] = status[d] \/ status'[d] = "closing"
      \/ d = c /\ status'[d] = "closed" /\ queue[d][g] = <<>>
    BY <1>1 DEF CloseFinishes, SocketCloses, CallerCheck, CheckFails, CloseWith
<1> QED
    BY <1>1, <1>2, <1>3, <1>4, FeedKept

LEMMA OpenedFeeds ==
    ASSUME IInv, NEW c \in Subscriber, NEW d \in Subscriber, NEW g \in Feed, Opens(c)
    PROVE  FeedInv(d, g)'
<1>1. FeedInv(d, g) /\ ConnectionsTyped
    BY DEF IInv
<1>2. UNCHANGED <<subscriptions, call, queue, stage>>
    BY DEF Opens, registryVars
<1>3. CASE d # c
    <2>1. status'[d] = status[d] /\ caller'[d] = caller[d] /\ wanted'[d][g] = wanted[d][g]
        BY <1>1, <1>3 DEF Opens, ConnectionsTyped
    <2> QED
        BY <1>1, <1>2, <2>1, FeedKept
<1>4. CASE d = c
    <2>1. /\ queue[d][g] = <<>> /\ subscriptions[d][g] = NoKey
          /\ status'[d] = "open" /\ stage[d][g] = "idle" /\ call[d][g].op = "none"
        BY <1>1, <1>4 DEF Opens, FeedInv, GoneInv, StageInv, ConnectionsTyped
    <2>2. StageInv(d, g)' /\ GoneInv(d, g)'
        BY <1>2, <2>1 DEF StageInv, GoneInv
    <2>3. WantedInv(d, g)'
        BY <1>2, <2>1 DEF WantedInv, Holds
    <2> QED
        BY <2>2, <2>3 DEF FeedInv
<1> QED
    BY <1>3, <1>4

LEMMA ReceivedFrame ==
    ASSUME IInv, NEW c \in Subscriber, NEW f \in Feed, NEW frame \in Frame, Receive(c, f, frame),
           NEW d \in Subscriber, NEW g \in Feed
    PROVE  FeedInv(d, g)'
<1>1. FeedInv(d, g) /\ ConnectionsTyped
    BY DEF IInv
<1>2. UNCHANGED <<subscriptions, call, caller, status, stage>> /\ status[c] = "open"
    BY DEF Receive, registryVars
<1>3. CASE ~(d = c /\ g = f)
    <2>1. queue'[d][g] = queue[d][g] /\ wanted'[d][g] = wanted[d][g]
        BY <1>1, <1>3 DEF Receive, ConnectionsTyped
    <2> QED
        BY <1>1, <1>2, <2>1, FeedKept
<1>4. CASE d = c /\ g = f
    <2> DEFINE q == queue[c][f]
               r == Append(q, frame)
               w == wanted[c][f]
               v == IF frame.type = "publish" THEN w ELSE frame.payload
    <2>1. q \in Seq(Frame) /\ queue'[c][f] = r /\ wanted'[c][f] = v
        BY <1>1 DEF Receive, enqueue, ConnectionsTyped
    <2>2. /\ DOMAIN q = 1..Len(q) /\ DOMAIN r = 1..Len(q) + 1 /\ Len(r) = Len(q) + 1
          /\ Len(q) \in Nat /\ \A i \in 1..Len(q) : r[i] = q[i]
          /\ r[Len(q) + 1] = frame /\ (q # <<>> => Head(r) = Head(q)) /\ r # <<>>
        BY <2>1, AppendFacts
    <2>3. StageInv(c, f)'
        <3>1. stage[c][f] # "idle" => q # <<>>
            BY <1>1, <1>4 DEF FeedInv, StageInv
        <3>2. \A p : KeyOf(c, f, p)' = KeyOf(c, f, p')
            BY <1>2 DEF KeyOf
        <3> QED
            BY <1>1, <1>2, <1>4, <2>1, <2>2, <3>1, <3>2 DEF FeedInv, StageInv, Holds, KeyOf
    <2>4. GoneInv(c, f)'
        BY <1>2 DEF GoneInv
    <2>5. \/ \E i \in DOMAIN r : LastAsks(r, i, v)
          \/ (\A i \in DOMAIN r : r[i].type = "publish") /\ Holds(c, f, v)
        <3>1. CASE frame.type # "publish"
            <4>1. LastAsks(r, Len(q) + 1, v)
                BY <2>2, <3>1 DEF LastAsks
            <4> QED
                BY <2>2, <4>1
        <3>2. CASE frame.type = "publish"
            <4>1. CASE \E i \in DOMAIN q : LastAsks(q, i, w)
                <5>1. PICK i \in DOMAIN q : LastAsks(q, i, w)
                    BY <4>1
                <5>2. i \in 1..Len(q) /\ \A j \in i + 1..Len(q) : q[j].type = "publish"
                    BY <2>2, <5>1 DEF LastAsks
                <5>3. \A j \in i + 1..Len(q) + 1 : (j \in i + 1..Len(q) /\ j \in 1..Len(q)) \/ j = Len(q) + 1
                    <6>1. Len(q) \in Nat /\ i \in 1..Len(q)
                        BY <2>2, <5>2
                    <6> QED
                        BY ONLY <6>1, RangeExtends
                <5>4. \A j \in i + 1..Len(r) : r[j].type = "publish"
                    BY <2>2, <3>2, <5>2, <5>3
                <5>5. LastAsks(r, i, v)
                    BY <2>2, <3>2, <5>1, <5>2, <5>4 DEF LastAsks
                <5> QED
                    BY <2>2, <5>2, <5>5
            <4>2. CASE ~\E i \in DOMAIN q : LastAsks(q, i, w)
                BY <1>1, <1>2, <1>4, <2>2, <3>2, <4>2 DEF FeedInv, WantedInv
            <4> QED
                BY <4>1, <4>2
        <3> QED
            BY <3>1, <3>2
    <2>6. WantedInv(c, f)'
        BY <1>2, <2>1, <2>5 DEF WantedInv, Holds, KeyOf, LastAsks
    <2> QED
        BY <1>4, <2>3, <2>4, <2>6 DEF FeedInv
<1> QED
    BY <1>3, <1>4

LEMMA FinishedFrame ==
    ASSUME IInv, NEW c \in Subscriber, NEW f \in Feed, NEW d \in Subscriber, NEW g \in Feed,
           \/ DropFrame(c, f) \/ CheckCloses(c, f) \/ CheckAfterClose(c, f)
           \/ HandleUnsubscribe(c, f) \/ AnswerFrame(c, f)
    PROVE  FeedInv(d, g)'
<1>1. FeedInv(c, f) /\ FeedInv(d, g) /\ ConnectionsTyped
    BY DEF IInv
<1>2. /\ queue[c][f] # <<>> /\ call[c][f].op = "none"
      /\ status[c] = "open" /\ stage[c][f] # "checking" =>
             \/ Head(queue[c][f]).type = "unsubscribe" /\ subscriptions'[c][f] = NoKey
             \/ stage[c][f] \in {"granted", "refused"}
    <2>1. CASE DropFrame(c, f) \/ CheckCloses(c, f) \/ CheckAfterClose(c, f) \/ AnswerFrame(c, f)
        BY <1>1, <2>1 DEF DropFrame, CheckCloses, CheckAfterClose, AnswerFrame, FeedInv, StageInv
    <2>2. CASE HandleUnsubscribe(c, f)
        <3>1. subscriptions'[c][f] = NoKey
            BY <2>2, LeaveEffect DEF HandleUnsubscribe, Unsubscribe, IInv
        <3> QED
            BY <1>1, <2>2, <3>1 DEF HandleUnsubscribe, Handling, FeedInv, StageInv
    <2> QED
        BY <2>1, <2>2
<1>3. UNCHANGED <<call, wanted, caller>> /\ FrameDone(c, f)
    BY DEF DropFrame, CheckCloses, CheckFails, CloseWith, CheckAfterClose, HandleUnsubscribe,
           AnswerFrame, registryVars, UnsubscribeAll, Unsubscribe
<1>4. subscriptions'[d][g] \in {subscriptions[d][g], NoKey}
    <2>1. CASE DropFrame(c, f) \/ CheckAfterClose(c, f) \/ AnswerFrame(c, f)
        BY <2>1 DEF DropFrame, CheckAfterClose, AnswerFrame, registryVars
    <2>2. CASE CheckCloses(c, f) \/ HandleUnsubscribe(c, f)
        <3>1. Leave(c, Feed) \/ Leave(c, {f})
            BY <2>2 DEF CheckCloses, CheckFails, CloseWith, HandleUnsubscribe,
                        UnsubscribeAll, Unsubscribe
        <3> QED
            BY <3>1, LeaveEffect DEF IInv
    <2> QED
        BY <2>1, <2>2
<1>5. status'[d] = status[d] \/ status'[d] = "closing"
    BY <1>1 DEF DropFrame, CheckCloses, CheckFails, CloseWith, CheckAfterClose, HandleUnsubscribe,
           AnswerFrame, ConnectionsTyped
<1>6. CASE ~(d = c /\ g = f)
    <2>1. queue'[d][g] = queue[d][g] /\ stage'[d][g] = stage[d][g]
        BY <1>1, <1>3, <1>6 DEF FrameDone, ToStage, ConnectionsTyped
    <2> QED
        BY <1>1, <1>3, <1>4, <1>5, <2>1, FeedKept
<1>7. CASE d = c /\ g = f
    <2>1. queue'[c][f] = Tail(queue[c][f]) /\ stage'[c][f] = "idle"
        BY <1>1, <1>3 DEF FrameDone, ToStage, ConnectionsTyped
    <2>2. ASSUME status'[c] = "open", Head(queue[c][f]).type # "publish"
          PROVE  subscriptions'[c][f] = NoKey \/ Holds(c, f, Head(queue[c][f]).payload)
        <3>1. status[c] = "open" /\ stage[c][f] # "checking"
            BY <1>1, <2>2 DEF DropFrame, CheckCloses, CheckFails, CloseWith, CheckAfterClose,
                       HandleUnsubscribe, AnswerFrame, ConnectionsTyped
        <3>2. CASE stage[c][f] \in {"granted", "refused"}
            <4>1. Head(queue[c][f]) \in Frame
                BY <1>1, <1>2, QueueFacts DEF ConnectionsTyped
            <4>2. Head(queue[c][f]).type = "subscribe"
                BY <1>1, <2>2, <3>2, <4>1 DEF FeedInv, StageInv, Frame
            <4> QED
                BY <1>1, <3>2, <4>2 DEF FeedInv, StageInv
        <3> QED
            BY <1>2, <3>1, <3>2
    <2> QED
        BY <1>1, <1>2, <1>3, <1>4, <1>5, <1>7, <2>1, <2>2, FeedPopped
<1> QED
    BY <1>6, <1>7

LEMMA StartedFrame ==
    ASSUME IInv, NEW c \in Subscriber, NEW f \in Feed, NEW d \in Subscriber, NEW g \in Feed,
           StartSubscribe(c, f) \/ CheckPasses(c, f) \/ StartPublish(c, f)
    PROVE  FeedInv(d, g)'
<1> DEFINE head == Head(queue[c][f])
<1>1. /\ FeedInv(c, f) /\ FeedInv(d, g) /\ ConnectionsTyped
      /\ call \in [Subscriber -> [Feed -> Call]]
    BY RegistryTypes DEF IInv
<1>2. UNCHANGED <<queue, wanted, caller, status>> /\ status[c] = "open"
    BY DEF StartSubscribe, CheckPasses, StartPublish
<1>3. queue[c][f] # <<>> /\ (CheckPasses(c, f) \/ StartSubscribe(c, f) => head.type = "subscribe")
      /\ (StartPublish(c, f) => head.type = "publish")
    BY <1>1 DEF FeedInv, StageInv, StartSubscribe, CheckPasses, StartPublish, Handling
<1>4. subscriptions'[d][g] \in {subscriptions[d][g], NoKey}
    <2>1. CASE CheckPasses(c, f)
        BY <2>1, LeaveEffect DEF CheckPasses, SubscribeCall, IInv
    <2> QED
        BY <2>1 DEF StartSubscribe, StartPublish, PublishCall, registryVars
<1>5. CASE ~(d = c /\ g = f)
    <2>1. stage'[d][g] = stage[d][g] /\ call'[d][g] = call[d][g]
        BY <1>1, <1>5 DEF StartSubscribe, CheckPasses, StartPublish, ToStage, registryVars,
                          SubscribeCall, PublishCall, ConnectionsTyped
    <2> QED
        BY <1>1, <1>2, <1>4, <2>1, FeedKept
<1>6. CASE d = c /\ g = f
    <2>1. StageInv(c, f)'
        <3>1. CASE StartSubscribe(c, f)
            <4>1. stage'[c][f] = "checking" /\ call'[c][f].op = "none"
                BY <1>1, <3>1 DEF StartSubscribe, ToStage, registryVars, FeedInv, StageInv,
                                  ConnectionsTyped
            <4> QED
                BY <1>2, <1>3, <3>1, <4>1 DEF StageInv
        <3>2. CASE CheckPasses(c, f)
            <4>1. /\ stage'[c][f] = "registry" /\ call'[c][f].op = "subscribe"
                  /\ call'[c][f].key = KeyOf(c, f, head.payload)
                BY <1>1, <3>2 DEF CheckPasses, ToStage, SubscribeCall, Suspended,
                                  NoCall, ConnectionsTyped
            <4>2. subscriptions'[c][f] = NoKey
                BY <3>2, LeaveEffect DEF CheckPasses, SubscribeCall, IInv
            <4> QED
                BY <1>2, <1>3, <3>2, <4>1, <4>2 DEF StageInv, Holds, KeyOf
        <3>3. CASE StartPublish(c, f)
            <4>1. stage'[c][f] = "registry" /\ call'[c][f].op = "publish"
                BY <1>1, <3>3 DEF StartPublish, ToStage, PublishCall, Suspended,
                                  NoCall, ConnectionsTyped
            <4> QED
                BY <1>2, <1>3, <3>3, <4>1 DEF StageInv
        <3> QED
            BY <3>1, <3>2, <3>3
    <2>2. WantedInv(c, f)'
        BY <1>1, <1>2, <1>4, <1>6 DEF FeedInv, WantedInv, Holds, KeyOf, LastAsks
    <2>3. GoneInv(c, f)'
        BY <1>2 DEF GoneInv
    <2> QED
        BY <1>6, <2>1, <2>2, <2>3 DEF FeedInv
<1> QED
    BY <1>5, <1>6

\* What a step of a suspended call does to the subscription and to the call.
LEMMA CallEffect ==
    ASSUME IInv, NEW c \in Subscriber, NEW f \in Feed, NEW d \in Subscriber, NEW g \in Feed,
           CallFails(c, f) \/ CallSucceeds(c, f)
    PROVE  /\ call'[c][f].op \in {"none", "onPublish"}
           /\ ~(d = c /\ g = f) => call'[d][g] = call[d][g] /\ subscriptions'[d][g] = subscriptions[d][g]
           /\ \/ subscriptions'[c][f] = subscriptions[c][f]
              \/ call[c][f].op = "subscribe" /\ subscriptions'[c][f] = call[c][f].key
<1>1. /\ subscriptions \in [Subscriber -> [Feed -> Key \cup {NoKey}]]
      /\ call \in [Subscriber -> [Feed -> Call]]
    BY RegistryTypes DEF IInv
<1>2. CASE CallFails(c, f) \/ PublishNow(c, f) \/ HookPublishes(c, f)
    <2>1. call' = [call EXCEPT ![c][f] = NoCall] /\ subscriptions' = subscriptions
        BY <1>2 DEF CallFails, PublishNow, HookPublishes
    <2> QED
        BY <1>1, <2>1 DEF NoCall
<1>3. CASE PublishToHook(c, f)
    BY <1>1, <1>3 DEF PublishToHook, Call
<1>4. CASE Join(c, f)
    BY <1>1, <1>4 DEF Join, NoCall
<1>5. ASSUME NEW id \in ChannelId, Create(c, f, id)
      PROVE  /\ call'[c][f].op = "none" /\ call[c][f].op = "subscribe"
             /\ subscriptions'[c][f] = call[c][f].key
             /\ ~(d = c /\ g = f) => call'[d][g] = call[d][g] /\ subscriptions'[d][g] = subscriptions[d][g]
    BY <1>1, <1>5 DEF Create, NoCall
<1> QED
    BY <1>2, <1>3, <1>4, <1>5 DEF CallSucceeds

LEMMA CalledFrame ==
    ASSUME IInv, NEW c \in Subscriber, NEW f \in Feed, NEW d \in Subscriber, NEW g \in Feed,
           RegistryCall(c, f)
    PROVE  FeedInv(d, g)'
<1> DEFINE head == Head(queue[c][f])
<1>1. FeedInv(c, f) /\ FeedInv(d, g) /\ ConnectionsTyped
    BY DEF IInv
<1>2. /\ UNCHANGED <<queue, wanted, caller, status>>
      /\ CallFails(c, f) \/ CallSucceeds(c, f)
    BY DEF RegistryCall
<1>3. CASE ~(d = c /\ g = f)
    <2>1. call'[d][g] = call[d][g] /\ subscriptions'[d][g] = subscriptions[d][g]
        BY <1>2, <1>3, CallEffect
    <2>2. stage'[d][g] = stage[d][g]
        BY <1>1, <1>3 DEF RegistryCall, ToStage, ConnectionsTyped
    <2> QED
        BY <1>1, <1>2, <2>1, <2>2, FeedKept
<1>4. CASE d = c /\ g = f
    <2>1. queue[c][f] # <<>> /\ head \in Frame /\ head.type # "unsubscribe"
        BY <1>1, QueueFacts DEF RegistryCall, FeedInv, StageInv, ConnectionsTyped
    <2>2. /\ call'[c][f].op \in {"none", "onPublish"}
          /\ \/ subscriptions'[c][f] = subscriptions[c][f]
             \/ /\ head.type = "subscribe" /\ head.payload # NoPayload
                /\ subscriptions'[c][f] = KeyOf(c, f, head.payload)
        <3>1. head.type = "subscribe" => head.payload # NoPayload
            BY <2>1, EvaluationAssumption DEF Frame
        <3> QED
            BY <1>1, <1>2, <3>1, CallEffect DEF RegistryCall, FeedInv, StageInv
    <2>3. stage'[c][f] \in {"registry", "granted", "refused"}
          /\ (call'[c][f].op # "none" => stage'[c][f] = "registry")
        <3>1. CASE CallFails(c, f) /\ ToStage(c, f, "refused")
            <4>1. call'[c][f].op = "none"
                BY <3>1, RegistryTypes DEF CallFails, NoCall, IInv
            <4> QED
                BY <1>1, <3>1, <4>1 DEF ToStage, ConnectionsTyped
        <3>2. CASE ToStage(c, f, IF call'[c][f] = NoCall THEN "granted" ELSE "registry")
            <4>1. call'[c][f].op # "none" => call'[c][f] # NoCall
                BY DEF NoCall
            <4> QED
                BY <1>1, <3>2, <4>1 DEF ToStage, ConnectionsTyped
        <3> QED
            BY <3>1, <3>2 DEF RegistryCall
    <2>4. StageInv(c, f)'
        <3>1. head.type = "subscribe" => Holds(c, f, head.payload)'
            BY <1>1, <1>2, <2>2 DEF RegistryCall, FeedInv, StageInv, Holds, KeyOf
        <3> QED
            BY <1>2, <2>1, <2>2, <2>3, <3>1 DEF StageInv, Holds
    <2>5. WantedInv(c, f)'
        <3>1. /\ subscriptions'[c][f] = subscriptions[c][f]
                 \/ ~\A i \in DOMAIN queue[c][f] : queue[c][f][i].type = "publish"
            BY <1>1, <2>1, <2>2, QueueFacts DEF ConnectionsTyped
        <3> QED
            BY <1>1, <1>2, <1>4, <3>1 DEF FeedInv, WantedInv, Holds, KeyOf, LastAsks
    <2>6. GoneInv(c, f)'
        BY <1>1, <1>2, <2>1 DEF FeedInv, GoneInv
    <2> QED
        BY <1>4, <2>4, <2>5, <2>6 DEF FeedInv
<1> QED
    BY <1>3, <1>4

LEMMA FeedsPreserved ==
    ASSUME IInv, [Next]_vars, NEW d \in Subscriber, NEW g \in Feed
    PROVE  FeedInv(d, g)'
<1>1. CASE UNCHANGED vars
    BY <1>1, SteadyFeeds
<1>2. ASSUME NEW id \in ChannelId, ChannelStep(id) \/ ChannelRestarts(id)
      PROVE  FeedInv(d, g)'
    BY <1>2, SteadyFeeds
<1>3. ASSUME NEW c \in Subscriber, NEW user \in Caller, SessionChanges(c, user)
      PROVE  FeedInv(d, g)'
    BY <1>3, SteadyFeeds
<1>4. ASSUME NEW c \in Subscriber, Opens(c)
      PROVE  FeedInv(d, g)'
    BY <1>4, OpenedFeeds
<1>5. ASSUME NEW c \in Subscriber, SocketCloses(c) \/ CloseFinishes(c) \/ CallerCheck(c)
      PROVE  FeedInv(d, g)'
    BY <1>5, ClosingFeeds
<1>6. ASSUME NEW c \in Subscriber, NEW f \in Feed, NEW frame \in Frame, Receive(c, f, frame)
      PROVE  FeedInv(d, g)'
    BY <1>6, ReceivedFrame
<1>7. ASSUME NEW c \in Subscriber, NEW f \in Feed, Deliver(c, f)
      PROVE  FeedInv(d, g)'
    BY <1>7, SteadyFeeds
<1>8. ASSUME NEW c \in Subscriber, NEW f \in Feed, FrameStep(c, f)
      PROVE  FeedInv(d, g)'
    BY <1>8, FinishedFrame, StartedFrame, CalledFrame DEF FrameStep
<1> QED
    BY <1>1, <1>2, <1>3, <1>4, <1>5, <1>6, <1>7, <1>8 DEF Next

-----------------------------------------------------------------------------
(* The invariant *)

LEMMA StepOfTheRegistry ==
    ASSUME IInv, [Next]_vars
    PROVE  RegistryNext \/ UNCHANGED registryVars
<1>1. ASSUME NEW c \in Subscriber, NEW f \in Feed, NEW p \in Payload \cup {NoPayload},
             \/ SubscribeCall(c, f, KeyOf(c, f, p))
             \/ PublishCall(c, f, KeyOf(c, f, p))
      PROVE  RegistryNext
    BY <1>1, KeyIsKey DEF IInv, RegistryNext, SubscriberStep
<1>2. ASSUME NEW c \in Subscriber, NEW f \in Feed, FrameStep(c, f)
      PROVE  RegistryNext \/ UNCHANGED registryVars
    <2>1. CASE CheckPasses(c, f)
        <3>1. queue[c][f] \in Seq(Frame) /\ queue[c][f] # <<>>
            BY <2>1 DEF CheckPasses, IInv, ConnectionsTyped, FeedInv, StageInv
        <3>2. Head(queue[c][f]).payload \in Payload \cup {NoPayload}
            BY <3>1, QueueFacts DEF Frame
        <3> QED
            BY <1>1, <2>1, <3>2 DEF CheckPasses
    <2>2. CASE StartPublish(c, f)
        BY <1>1, <2>2 DEF StartPublish
    <2>3. CASE CheckCloses(c, f)
        BY <2>3 DEF CheckCloses, CheckFails, CloseWith, RegistryNext
    <2>4. CASE HandleUnsubscribe(c, f)
        BY <2>4 DEF HandleUnsubscribe, RegistryNext, SubscriberStep
    <2>5. CASE RegistryCall(c, f)
        BY <2>5 DEF RegistryCall, RegistryNext
    <2> QED
        BY <1>2, <2>1, <2>2, <2>3, <2>4, <2>5
        DEF FrameStep, DropFrame, StartSubscribe, CheckAfterClose, AnswerFrame
<1>3. ASSUME NEW c \in Subscriber, SocketCloses(c) \/ CloseFinishes(c) \/ CallerCheck(c)
      PROVE  RegistryNext
    BY <1>3 DEF SocketCloses, CloseFinishes, CallerCheck, CheckFails, CloseWith, RegistryNext
<1>4. ASSUME NEW id \in ChannelId, ChannelStep(id) \/ ChannelRestarts(id)
      PROVE  RegistryNext
    BY <1>4 DEF ChannelStep, ChannelRestarts, RegistryNext
<1>5. CASE UNCHANGED vars
    BY <1>5 DEF vars
<1>6. CASE \E c \in Subscriber : \/ \E user \in Caller : SessionChanges(c, user)
                                 \/ Opens(c)
                                 \/ \E f \in Feed : \/ Deliver(c, f)
                                                   \/ \E frame \in Frame : Receive(c, f, frame)
    BY <1>6 DEF SessionChanges, Opens, Deliver, Receive
<1> QED
    BY <1>2, <1>3, <1>4, <1>5, <1>6 DEF Next

\* What a channel broadcasts is a frame a connection can send.
LEMMA BroadcastTyped ==
    ASSUME ConnectionsTyped, RegistryTypeOK', BroadcastReaches
    PROVE  outbox' \in [Subscriber -> [Feed -> Seq(OutFrame)]]
<1> DEFINE feed == FeedOf(sent'.key)
           frame == [type |-> sent'.type, key |-> sent'.key]
           to == IF sent'.type = "none" THEN {} ELSE {c \in sent'.to : status[c] = "open"}
<1>1. /\ outbox \in [Subscriber -> [Feed -> Seq(OutFrame)]]
      /\ sent' \in [type : {"none", "message", "error"}, key : Key \cup {NoKey}, to : SUBSET Subscriber]
    BY DEF ConnectionsTyped, RegistryTypeOK, Key
<1>2. outbox' = [c \in Subscriber |->
                   IF c \in to THEN [outbox[c] EXCEPT ![feed] = Append(@, frame)] ELSE outbox[c]]
    BY DEF BroadcastReaches
<1>3. ASSUME NEW c \in Subscriber
      PROVE  outbox'[c] \in [Feed -> Seq(OutFrame)]
    <2>1. CASE c \in to
        <3>1. frame \in OutFrame
            BY <1>1, <2>1 DEF OutFrame
        <3>2. outbox'[c] = [outbox[c] EXCEPT ![feed] = Append(@, frame)]
            BY <1>2, <2>1
        <3>3. \A g \in Feed : outbox[c][g] \in Seq(OutFrame) /\ Append(outbox[c][g], frame) \in Seq(OutFrame)
            BY <1>1, <3>1
        <3> HIDE DEF frame, feed
        <3> QED
            BY <1>1, <3>2, <3>3
    <2>2. CASE c \notin to
        BY <1>1, <1>2, <2>2
    <2> QED
        BY <2>1, <2>2
<1> QED
    BY <1>2, <1>3

\* A frame that is done with, as far as types go.
LEMMA DoneTyped ==
    ASSUME ConnectionsTyped, NEW c \in Subscriber, NEW f \in Feed, FrameDone(c, f), queue[c][f] # <<>>
    PROVE  /\ queue' \in [Subscriber -> [Feed -> Seq(Frame)]]
           /\ stage' \in [Subscriber -> [Feed -> {"idle", "checking", "registry", "granted", "refused"}]]
<1>1. Tail(queue[c][f]) \in Seq(Frame)
    BY QueueFacts DEF ConnectionsTyped
<1>2. queue' = [queue EXCEPT ![c][f] = Tail(queue[c][f])]
    BY DEF FrameDone, ConnectionsTyped
<1> QED
    BY <1>1, <1>2 DEF FrameDone, ToStage, ConnectionsTyped

LEMMA CloseTyped ==
    ASSUME ConnectionsTyped, NEW c \in Subscriber,
           CloseWith(c, "transport") \/ CheckFails(c) \/ CloseFinishes(c)
    PROVE  /\ status' \in [Subscriber -> {"new", "open", "closing", "closed"}]
           /\ closeCode' \in [Subscriber -> {"none", "transport", "caller-changed", "caller-check-failed"}]
           /\ outbox' \in [Subscriber -> [Feed -> Seq(OutFrame)]]
<1>1. CASE CloseFinishes(c)
    BY <1>1 DEF CloseFinishes, ConnectionsTyped
<1>2. ASSUME NEW code \in {"transport", "caller-changed", "caller-check-failed"}, CloseWith(c, code)
      PROVE  /\ status' \in [Subscriber -> {"new", "open", "closing", "closed"}]
             /\ closeCode' \in [Subscriber -> {"none", "transport", "caller-changed", "caller-check-failed"}]
             /\ outbox' \in [Subscriber -> [Feed -> Seq(OutFrame)]]
    <2>1. status' \in [Subscriber -> {"new", "open", "closing", "closed"}]
        BY <1>2 DEF CloseWith, ConnectionsTyped
    <2>2. closeCode' \in [Subscriber -> {"none", "transport", "caller-changed", "caller-check-failed"}]
        BY <1>2 DEF CloseWith, ConnectionsTyped
    <2>3. [f \in Feed |-> <<>>] \in [Feed -> Seq(OutFrame)]
        OBVIOUS
    <2>4. outbox' = [outbox EXCEPT ![c] = [f \in Feed |-> <<>>]]
        BY <1>2 DEF CloseWith
    <2>5. outbox' \in [Subscriber -> [Feed -> Seq(OutFrame)]]
        BY <2>3, <2>4 DEF ConnectionsTyped
    <2> QED
        BY <2>1, <2>2, <2>5
<1> QED
    BY <1>1, <1>2 DEF CheckFails

LEMMA FrameStepTyped ==
    ASSUME IInv, RegistryTypeOK', NEW c \in Subscriber, NEW f \in Feed, FrameStep(c, f)
    PROVE  ConnectionsTyped'
<1>1. ConnectionsTyped /\ FeedInv(c, f)
    BY DEF IInv
<1>2. CASE StartSubscribe(c, f)
    BY <1>1, <1>2 DEF StartSubscribe, ToStage, ConnectionsTyped
<1>3. CASE CheckPasses(c, f)
    BY <1>1, <1>3 DEF CheckPasses, ToStage, ConnectionsTyped
<1>4. CASE StartPublish(c, f)
    BY <1>1, <1>4 DEF StartPublish, ToStage, ConnectionsTyped
<1>5. CASE RegistryCall(c, f)
    <2>1. outbox' \in [Subscriber -> [Feed -> Seq(OutFrame)]]
        BY <1>1, <1>5, BroadcastTyped DEF RegistryCall
    <2>2. \E next \in {"refused", "granted", "registry"} : stage' = [stage EXCEPT ![c][f] = next]
        BY <1>5 DEF RegistryCall, ToStage
    <2>3. stage' \in [Subscriber -> [Feed -> {"idle", "checking", "registry", "granted", "refused"}]]
        BY <1>1, <2>2 DEF ConnectionsTyped
    <2> QED
        BY <1>1, <1>5, <2>1, <2>3 DEF RegistryCall, ConnectionsTyped
<1>6. CASE DropFrame(c, f) \/ CheckAfterClose(c, f) \/ HandleUnsubscribe(c, f)
    <2>1. queue[c][f] # <<>> /\ FrameDone(c, f)
        BY <1>1, <1>6 DEF DropFrame, CheckAfterClose, HandleUnsubscribe, Handling, FeedInv, StageInv
    <2> QED
        BY <1>1, <1>6, <2>1, DoneTyped DEF DropFrame, CheckAfterClose, HandleUnsubscribe,
                                           ConnectionsTyped
<1>7. CASE CheckCloses(c, f)
    <2>1. queue[c][f] # <<>> /\ FrameDone(c, f)
        BY <1>1, <1>7 DEF CheckCloses, FeedInv, StageInv
    <2> QED
        BY <1>1, <1>7, <2>1, DoneTyped, CloseTyped DEF CheckCloses, ConnectionsTyped
<1>8. CASE AnswerFrame(c, f)
    <2>1. queue[c][f] # <<>> /\ FrameDone(c, f)
        BY <1>1, <1>8 DEF AnswerFrame, FeedInv, StageInv
    <2>2. Reply(Answer(c, f)) \in OutFrame
        BY DEF Reply, Answer, OutFrame
    <2>3. Append(outbox[c][f], Reply(Answer(c, f))) \in Seq(OutFrame)
        BY <1>1, <2>2 DEF ConnectionsTyped
    <2>4. outbox' = outbox \/ outbox' = [outbox EXCEPT ![c][f] = Append(@, Reply(Answer(c, f)))]
        BY <1>8 DEF AnswerFrame
    <2>5. outbox' \in [Subscriber -> [Feed -> Seq(OutFrame)]]
        <3> DEFINE reply == Reply(Answer(c, f))
        <3>1. Append(outbox[c][f], reply) \in Seq(OutFrame) /\ outbox \in [Subscriber -> [Feed -> Seq(OutFrame)]]
            BY <1>1, <2>3 DEF ConnectionsTyped
        <3> HIDE DEF reply
        <3>2. [outbox[c] EXCEPT ![f] = Append(@, reply)] \in [Feed -> Seq(OutFrame)]
            BY <3>1
        <3>3. outbox' = outbox \/ outbox' = [outbox EXCEPT ![c] = [outbox[c] EXCEPT ![f] = Append(@, reply)]]
            BY <2>4 DEF reply
        <3> QED
            BY <3>1, <3>2, <3>3
    <2> QED
        BY <1>1, <1>8, <2>1, <2>5, DoneTyped DEF AnswerFrame, ConnectionsTyped
<1> QED
    BY <1>2, <1>3, <1>4, <1>5, <1>6, <1>7, <1>8 DEF FrameStep

LEMMA TypesPreserved ==
    ASSUME IInv, RegistryTypeOK', [Next]_vars
    PROVE  ConnectionsTyped'
<1>1. ConnectionsTyped
    BY DEF IInv
<1>2. ASSUME NEW id \in ChannelId, ChannelStep(id)
      PROVE  ConnectionsTyped'
    <2>1. outbox' \in [Subscriber -> [Feed -> Seq(OutFrame)]]
        BY <1>1, <1>2, BroadcastTyped DEF ChannelStep
    <2> QED
        BY <1>1, <1>2, <2>1 DEF ChannelStep, ConnectionsTyped
<1>3. ASSUME NEW id \in ChannelId, ChannelRestarts(id)
      PROVE  ConnectionsTyped'
    BY <1>1, <1>3 DEF ChannelRestarts, connectionVars, ConnectionsTyped
<1>4. ASSUME NEW c \in Subscriber, NEW user \in Caller, SessionChanges(c, user)
      PROVE  ConnectionsTyped'
    BY <1>1, <1>4 DEF SessionChanges, ConnectionsTyped
<1>5. ASSUME NEW c \in Subscriber, Opens(c)
      PROVE  ConnectionsTyped'
    BY <1>1, <1>5 DEF Opens, ConnectionsTyped
<1>6. ASSUME NEW c \in Subscriber, SocketCloses(c) \/ CloseFinishes(c) \/ CallerCheck(c)
      PROVE  ConnectionsTyped'
    <2>1. CloseWith(c, "transport") \/ CheckFails(c) \/ CloseFinishes(c)
        BY <1>6 DEF SocketCloses, CallerCheck
    <2>2. UNCHANGED <<session, caller, queue, stage, wanted>>
        BY <1>6 DEF SocketCloses, CallerCheck, CloseFinishes
    <2> QED
        BY <1>1, <2>1, <2>2, CloseTyped DEF ConnectionsTyped
<1>7. ASSUME NEW c \in Subscriber, NEW f \in Feed, NEW frame \in Frame, Receive(c, f, frame)
      PROVE  ConnectionsTyped'
    <2>1. Append(queue[c][f], frame) \in Seq(Frame)
        BY <1>1 DEF ConnectionsTyped
    <2>2. (IF frame.type = "publish" THEN wanted[c][f] ELSE frame.payload) \in Payload \cup {NoPayload}
        BY <1>1 DEF Frame, ConnectionsTyped
    <2>3. queue' \in [Subscriber -> [Feed -> Seq(Frame)]]
        BY <1>1, <1>7, <2>1 DEF Receive, enqueue, ConnectionsTyped
    <2>4. wanted' \in [Subscriber -> [Feed -> Payload \cup {NoPayload}]]
        BY <1>1, <1>7, <2>2 DEF Receive, ConnectionsTyped
    <2> QED
        BY <1>1, <1>7, <2>3, <2>4 DEF Receive, ConnectionsTyped
<1>8. ASSUME NEW c \in Subscriber, NEW f \in Feed, Deliver(c, f)
      PROVE  ConnectionsTyped'
    <2>1. Tail(outbox[c][f]) \in Seq(OutFrame)
        BY <1>1, <1>8 DEF Deliver, ConnectionsTyped
    <2>2. outbox' = [outbox EXCEPT ![c][f] = Tail(outbox[c][f])]
        BY <1>1, <1>8 DEF Deliver, ConnectionsTyped
    <2>3. outbox' \in [Subscriber -> [Feed -> Seq(OutFrame)]]
        BY <1>1, <2>1, <2>2 DEF ConnectionsTyped
    <2> QED
        BY <1>1, <1>8, <2>3 DEF Deliver, ConnectionsTyped
<1>9. CASE UNCHANGED vars
    BY <1>1, <1>9 DEF vars, connectionVars, ConnectionsTyped
<1> QED
    BY <1>2, <1>3, <1>4, <1>5, <1>6, <1>7, <1>8, <1>9, FrameStepTyped DEF Next

LEMMA InitInv == Init => IInv
<1> SUFFICES ASSUME Init PROVE IInv
    OBVIOUS
<1>1. RegistryInv
    BY RegistryInitInv DEF Init
<1>2. ConnectionsTyped
    BY DEF Init, ConnectionsTyped
<1>3. ASSUME NEW c \in Subscriber, NEW f \in Feed
      PROVE  FeedInv(c, f)
    <2>1. queue[c][f] = <<>> /\ stage[c][f] = "idle" /\ status[c] = "new"
        BY DEF Init
    <2>2. subscriptions[c][f] = NoKey /\ call[c][f].op = "none"
        BY DEF Init, RegistryInit, NoCall
    <2> QED
        BY <2>1, <2>2 DEF FeedInv, StageInv, WantedInv, GoneInv
<1> QED
    BY <1>1, <1>2, <1>3 DEF IInv

LEMMA NextInv == IInv /\ [Next]_vars => IInv'
<1> SUFFICES ASSUME IInv, [Next]_vars PROVE IInv'
    OBVIOUS
<1>1. RegistryInv'
    BY StepOfTheRegistry, RegistryKeepsItsInvariant DEF IInv
<1>2. RegistryTypeOK'
    BY <1>1, RegistryTypes, PTL
<1>3. ConnectionsTyped'
    BY <1>2, TypesPreserved
<1> QED
    BY <1>1, <1>3, FeedsPreserved DEF IInv

-----------------------------------------------------------------------------
(* The invariant holds always: each connection's frames, stages and calls agree with *)
(* the registry it shares (createWebSocketConnection, createChannelRegistry).         *)
THEOREM ConnectionInvariant == Spec => []IInv
    BY InitInv, NextInv, PTL DEF Spec

(* Every variable keeps its type, the registry's included.                            *)
THEOREM ConnectionTypes == Spec => []TypeOK
<1>1. IInv => TypeOK
    BY RegistryTypes DEF IInv, ConnectionsTyped, TypeOK
<1> QED
    BY <1>1, ConnectionInvariant, PTL

(* Connections use the registry only as its own specification allows: every step is a *)
(* step of ChannelRegistry or leaves it alone (handleFrame, close, checkCaller).       *)
THEOREM ConnectionsKeepTheContract ==
    Spec => RegistryInit /\ [][RegistryNext]_registryVars
<1>1. IInv /\ [Next]_vars => [RegistryNext]_registryVars
    BY StepOfTheRegistry DEF registryVars
<1>2. Init => RegistryInit
    BY DEF Init
<1> QED
    BY <1>1, <1>2, ConnectionInvariant, PTL DEF Spec

(* When a feed's frames have been handled, the last of them decides what it is         *)
(* subscribed to (feedQueues).                                                         *)
THEOREM ConnectionObeysItsLastFrame == Spec => []LastFrameWins
<1>1. IInv => LastFrameWins
    <2> SUFFICES ASSUME IInv, NEW c \in Subscriber, NEW f \in Feed,
                        status[c] = "open", queue[c][f] = <<>>
                 PROVE  Holds(c, f, wanted[c][f])
        BY DEF LastFrameWins, Holds
    <2>1. ~\E i \in DOMAIN queue[c][f] : LastAsks(queue[c][f], i, wanted[c][f])
        OBVIOUS
    <2> QED
        BY <2>1 DEF IInv, FeedInv, WantedInv
<1> QED
    BY <1>1, ConnectionInvariant, PTL

(* A connection that has finished closing is in no channel (unsubscribeAll of close).  *)
THEOREM ClosedConnectionsLeave == Spec => []ClosedHoldsNothing
<1>1. IInv => ClosedHoldsNothing
    <2> SUFFICES ASSUME IInv, NEW c \in Subscriber, status[c] \in {"new", "closed"}
                 PROVE  /\ \A f \in Feed : subscriptions[c][f] = NoKey
                        /\ \A k \in Key : channels[k] # NoChannel =>
                               c \notin channel[channels[k]].subscribers
        BY DEF ClosedHoldsNothing
    <2>1. \A f \in Feed : subscriptions[c][f] = NoKey
        BY DEF IInv, FeedInv, GoneInv
    <2>2. \A k \in Key : k[1] \in Feed /\ k # NoKey
        BY AbsentAssumption DEF Key
    <2> QED
        BY <2>1, <2>2, RegistryTypes DEF IInv
<1> QED
    BY <1>1, ConnectionInvariant, PTL

-----------------------------------------------------------------------------
\* A sequence, each element replaced by what function m gives for it.
Each(m, q) == [i \in DOMAIN q |-> m[q[i]]]

LEMMA EachIsSeq ==
    ASSUME NEW S, NEW m, NEW q \in Seq(S)
    PROVE  Len(Each(m, q)) = Len(q) /\ \E T : Each(m, q) \in Seq(T)
<1>1. DOMAIN Each(m, q) = 1..Len(q) /\ Len(q) \in Nat
    BY LenProperties DEF Each
<1>2. Each(m, q) \in Seq({m[q[i]] : i \in 1..Len(q)})
    BY LenProperties DEF Each
<1> QED
    BY <1>1, <1>2, LenProperties

LEMMA EachAppend ==
    ASSUME NEW S, NEW m, NEW q \in Seq(S), NEW e \in S
    PROVE  /\ Each(m, Append(q, e)) = Append(Each(m, q), m[e])
           /\ Each(m, Append(q, e)) = Each(m, q) \o <<m[e]>>
           /\ Len(Each(m, q)) = Len(q)
<1> DEFINE T == {m[x] : x \in S}
           r == Append(q, e)
           s == Each(m, q)
           t == Append(s, m[e])
<1>1. Len(q) \in Nat /\ DOMAIN q = 1..Len(q) /\ \A i \in 1..Len(q) : q[i] \in S
    OBVIOUS
<1>2. (\A x \in S : m[x] \in T) /\ m[e] \in T
    OBVIOUS
<1>3. /\ r \in Seq(S) /\ Len(r) = Len(q) + 1 /\ DOMAIN r = 1..Len(r) /\ r[Len(q) + 1] = e
      /\ \A i \in 1..Len(q) : r[i] = q[i]
    OBVIOUS
<1> HIDE DEF T, r
<1>4. s \in Seq(T) /\ Len(s) = Len(q) /\ \A i \in 1..Len(q) : s[i] = m[q[i]]
    BY <1>1, <1>2 DEF Each
<1>5. Each(m, r) \in Seq(T) /\ Len(Each(m, r)) = Len(r) /\ \A i \in 1..Len(r) : Each(m, r)[i] = m[r[i]]
    <2>1. Len(r) \in Nat /\ \A i \in 1..Len(r) : r[i] \in S
        BY <1>3
    <2> QED
        BY <1>2, <1>3, <2>1 DEF Each
<1> HIDE DEF s
<1>6. /\ t \in Seq(T) /\ Len(t) = Len(q) + 1 /\ t[Len(q) + 1] = m[e]
      /\ (\A i \in 1..Len(q) : t[i] = m[q[i]]) /\ t = s \o <<m[e]>>
    BY <1>2, <1>4
<1> HIDE DEF t
<1>7. \A i \in 1..Len(q) + 1 : Each(m, r)[i] = t[i]
    BY <1>1, <1>3, <1>5, <1>6
<1>8. Each(m, r) = t
    BY <1>3, <1>5, <1>6, <1>7, SeqEqual
<1> QED
    BY <1>4, <1>6, <1>8 DEF r, s, t

LEMMA EachTail ==
    ASSUME NEW S, NEW m, NEW q \in Seq(S), q # <<>>
    PROVE  /\ Each(m, Tail(q)) = Tail(Each(m, q))
           /\ Each(m, q) # <<>> /\ Head(Each(m, q)) = m[Head(q)]
<1> DEFINE T == {m[x] : x \in S}
           r == Tail(q)
           s == Each(m, q)
<1>1. /\ Len(q) \in Nat \ {0} /\ DOMAIN q = 1..Len(q) /\ (\A i \in 1..Len(q) : q[i] \in S)
      /\ Head(q) = q[1]
    OBVIOUS
<1>2. \A x \in S : m[x] \in T
    OBVIOUS
<1> HIDE DEF T
<1>3. r \in Seq(S) /\ Len(r) = Len(q) - 1 /\ \A i \in 1..Len(r) : r[i] = q[i + 1]
    BY HeadTailProperties
<1>4. s \in Seq(T) /\ Len(s) = Len(q) /\ \A i \in 1..Len(q) : s[i] = m[q[i]]
    BY <1>1, <1>2 DEF Each
<1> HIDE DEF r
<1>5. Each(m, r) \in Seq(T) /\ Len(Each(m, r)) = Len(r) /\ \A i \in 1..Len(r) : Each(m, r)[i] = m[r[i]]
    <2>1. Len(r) \in Nat /\ DOMAIN r = 1..Len(r) /\ \A i \in 1..Len(r) : r[i] \in S
        BY <1>3
    <2> QED
        BY <1>2, <2>1 DEF Each
<1> HIDE DEF s
<1>6. s # <<>> /\ Head(s) = s[1]
    BY <1>1, <1>4
<1>7. Tail(s) \in Seq(T) /\ Len(Tail(s)) = Len(s) - 1 /\ \A i \in 1..Len(Tail(s)) : Tail(s)[i] = s[i + 1]
    BY <1>4, <1>6, HeadTailProperties
<1>8. \A i \in 1..Len(r) : Each(m, r)[i] = Tail(s)[i]
    <2>1. Len(Tail(s)) = Len(r)
        BY <1>1, <1>3, <1>4, <1>7
    <2> DEFINE t == Tail(s)
    <2>2. \A i \in 1..Len(r) : t[i] = s[i + 1]
        BY <1>7, <2>1
    <2> HIDE DEF t
    <2>3. TAKE i \in 1..Len(r)
    <2>4. i + 1 \in 1..Len(q)
        BY <1>1, <1>3
    <2>5. s[i + 1] = m[q[i + 1]]
        BY <1>4, <2>4
    <2>6. Each(m, r)[i] = t[i]
        BY <1>3, <1>5, <2>2, <2>5
    <2> QED
        BY <2>6 DEF t
<1>9. Each(m, r) = Tail(s)
    BY <1>3, <1>4, <1>5, <1>7, <1>8, SeqEqual
<1> QED
    BY <1>1, <1>4, <1>6, <1>9 DEF r, s
-----------------------------------------------------------------------------
(* What a connection is to its client *)

\* What the connection is subscribed to is what one of its client's payloads evaluates to.
HeldInv(c, f) ==
    subscriptions[c][f] # NoKey => \E p \in Payload : subscriptions[c][f] = KeyOf(c, f, p)

\* A publish of the registry is a publish frame's.
PublishInv(c, f) ==
    stage[c][f] = "registry" /\ call[c][f].op \in {"publish", "onPublish"}
        => Head(queue[c][f]).type = "publish"

\* Nothing is on its way to the client of a connection that is not open.
QuietInv(c, f) == status[c] # "open" => outbox[c][f] = <<>>

ServiceInv ==
    IInv /\ \A c \in Subscriber, f \in Feed : HeldInv(c, f) /\ PublishInv(c, f) /\ QuietInv(c, f)

LEMMA HeldPreserved ==
    ASSUME ServiceInv, [Next]_vars, NEW d \in Subscriber, NEW g \in Feed
    PROVE  HeldInv(d, g)'
<1>1. IInv /\ ConnectionsTyped /\ HeldInv(d, g) /\ FeedInv(d, g) /\ \A c \in Subscriber, f \in Feed : FeedInv(c, f)
    BY DEF ServiceInv, IInv
<1>2. ASSUME caller'[d] = caller[d], subscriptions'[d][g] \in {subscriptions[d][g], NoKey}
      PROVE  HeldInv(d, g)'
    BY <1>1, <1>2 DEF HeldInv, KeyOf
<1>3. ASSUME NEW c \in Subscriber, Opens(c)
      PROVE  HeldInv(d, g)'
    <2>1. CASE c = d
        <3>1. subscriptions'[d][g] = NoKey
            BY <1>1, <1>3, <2>1 DEF Opens, registryVars, FeedInv, GoneInv
        <3> QED
            BY <3>1 DEF HeldInv
    <2>2. CASE c # d
        BY <1>1, <1>2, <1>3, <2>2 DEF Opens, registryVars, ConnectionsTyped
    <2> QED
        BY <2>1, <2>2
<1>4. ASSUME NEW c \in Subscriber, NEW feeds \in SUBSET Feed, Leave(c, feeds), caller' = caller
      PROVE  HeldInv(d, g)'
    BY <1>1, <1>2, <1>4, LeaveEffect DEF IInv
<1>5. ASSUME NEW c \in Subscriber, NEW f \in Feed, RegistryCall(c, f)
      PROVE  HeldInv(d, g)'
    <2>1. caller' = caller /\ (CallFails(c, f) \/ CallSucceeds(c, f))
        BY <1>5 DEF RegistryCall
    <2>2. CASE subscriptions'[d][g] = subscriptions[d][g]
        BY <1>2, <2>1, <2>2
    <2>3. CASE d = c /\ g = f /\ call[c][f].op = "subscribe" /\ subscriptions'[c][f] = call[c][f].key
        <3>1. /\ Head(queue[c][f]).type = "subscribe" /\ queue[c][f] # <<>>
              /\ call[c][f].key = KeyOf(c, f, Head(queue[c][f]).payload)
            BY <1>1, <1>5, <2>3 DEF FeedInv, StageInv, RegistryCall
        <3>2. Head(queue[c][f]) \in Frame
            BY <1>1, <3>1, QueueFacts DEF ConnectionsTyped
        <3>3. Head(queue[c][f]).payload \in Payload
            BY <3>1, <3>2 DEF Frame
        <3> QED
            BY <2>1, <2>3, <3>1, <3>3 DEF HeldInv, KeyOf
    <2> QED
        BY <1>1, <2>1, <2>2, <2>3, CallEffect
<1>6. ASSUME NEW c \in Subscriber,
             \/ SocketCloses(c) \/ CloseFinishes(c) \/ CallerCheck(c)
             \/ \E f \in Feed : CheckPasses(c, f) \/ CheckCloses(c, f) \/ HandleUnsubscribe(c, f)
      PROVE  HeldInv(d, g)'
    BY <1>4, <1>6 DEF SocketCloses, CloseFinishes, CallerCheck, CheckFails, CloseWith, CheckCloses,
           CheckPasses, HandleUnsubscribe, UnsubscribeAll, SubscribeCall, Unsubscribe
<1>7. ASSUME UNCHANGED <<subscriptions, caller>>
      PROVE  HeldInv(d, g)'
    BY <1>2, <1>7
<1>8. ASSUME NEW c \in Subscriber,
             \/ \E user \in Caller : SessionChanges(c, user)
             \/ \E f \in Feed : \/ \E frame \in Frame : Receive(c, f, frame)
                                \/ Deliver(c, f) \/ DropFrame(c, f) \/ StartSubscribe(c, f)
                                \/ CheckAfterClose(c, f) \/ StartPublish(c, f) \/ AnswerFrame(c, f)
      PROVE  HeldInv(d, g)'
    BY <1>7, <1>8 DEF SessionChanges, Receive, Deliver, DropFrame, StartSubscribe, CheckAfterClose,
           StartPublish, AnswerFrame, registryVars, PublishCall
<1>9. ASSUME NEW id \in ChannelId, ChannelStep(id) \/ ChannelRestarts(id)
      PROVE  HeldInv(d, g)'
    BY <1>7, <1>9 DEF ChannelStep, ChannelRestarts, connectionVars, SourceStep,
                      SourcePublishes,
           SourceEnds, ErrorIgnored, ScheduleRestart, GiveUp, Restart
<1>10. CASE UNCHANGED vars
    BY <1>7, <1>10 DEF vars, registryVars, connectionVars
<1> QED
    BY <1>3, <1>5, <1>6, <1>8, <1>9, <1>10 DEF Next, FrameStep

\* A feed whose frame and stage are as they were, and whose call is about the same.
LEMMA PublishKept ==
    ASSUME NEW d \in Subscriber, NEW g \in Feed, PublishInv(d, g), StageInv(d, g), ConnectionsTyped,
           stage'[d][g] = stage[d][g], call'[d][g].op = call[d][g].op,
           queue'[d][g] = queue[d][g] \/ \E frame \in Frame : queue'[d][g] = Append(queue[d][g], frame)
    PROVE  PublishInv(d, g)'
<1>1. queue[d][g] \in Seq(Frame)
    BY DEF ConnectionsTyped
<1>2. stage[d][g] = "registry" => Head(queue'[d][g]) = Head(queue[d][g])
    BY <1>1, AppendFacts DEF StageInv
<1> QED
    BY <1>2 DEF PublishInv

LEMMA PublishPreserved ==
    ASSUME ServiceInv, [Next]_vars, NEW d \in Subscriber, NEW g \in Feed
    PROVE  PublishInv(d, g)'
<1>1. /\ IInv /\ ConnectionsTyped /\ PublishInv(d, g) /\ FeedInv(d, g) /\ StageInv(d, g)
      /\ call \in [Subscriber -> [Feed -> Call]]
      /\ \A c \in Subscriber, f \in Feed : FeedInv(c, f)
    BY RegistryTypes DEF ServiceInv, IInv, FeedInv
<1>2. ASSUME NEW c \in Subscriber, NEW f \in Feed, FrameStep(c, f)
      PROVE  PublishInv(d, g)'
    <2>1. CASE ~(d = c /\ g = f)
        <3>1. call'[d][g] = call[d][g]
            <4>1. CASE RegistryCall(c, f)
                BY <1>1, <2>1, <4>1, CallEffect DEF RegistryCall
            <4> QED
                BY <1>1, <1>2, <2>1, <4>1 DEF FrameStep, DropFrame, StartSubscribe, CheckPasses,
                                              CheckCloses,
                   CheckFails, CloseWith, CheckAfterClose, HandleUnsubscribe, StartPublish, AnswerFrame,
                   registryVars, SubscribeCall, PublishCall, Unsubscribe,
                   UnsubscribeAll
        <3>2. stage'[d][g] = stage[d][g] /\ queue'[d][g] = queue[d][g]
            BY <1>1, <1>2, <2>1 DEF FrameStep, DropFrame, StartSubscribe, CheckPasses, CheckCloses,
               CheckAfterClose, HandleUnsubscribe, StartPublish, RegistryCall, AnswerFrame,
               FrameDone, ToStage, ConnectionsTyped
        <3> QED
            BY <1>1, <3>1, <3>2, PublishKept
    <2>2. CASE d = c /\ g = f /\ (StartSubscribe(c, f) \/ FrameDone(c, f))
        <3>1. stage'[d][g] # "registry"
            BY <1>1, <2>2 DEF StartSubscribe, FrameDone, ToStage, ConnectionsTyped
        <3> QED
            BY <3>1 DEF PublishInv
    <2>3. CASE d = c /\ g = f /\ CheckPasses(c, f)
        <3>1. call'[d][g].op = "subscribe"
            BY <1>1, <2>3 DEF CheckPasses, SubscribeCall, Suspended,
                              NoCall
        <3> QED
            BY <3>1 DEF PublishInv
    <2>4. CASE d = c /\ g = f /\ StartPublish(c, f)
        BY <2>4 DEF StartPublish, PublishInv, Handling
    <2>5. CASE d = c /\ g = f /\ RegistryCall(c, f)
        <3>1. queue' = queue /\ stage[c][f] = "registry"
            BY <2>5 DEF RegistryCall
        <3>2. call'[c][f].op \in {"publish", "onPublish"} => call[c][f].op = "publish"
            <4>1. CASE PublishToHook(c, f)
                BY <4>1 DEF PublishToHook
            <4>2. CASE ~PublishToHook(c, f)
                <5>1. call'[c][f] = NoCall
                    BY <1>1, <2>5, <4>2 DEF RegistryCall, CallFails,
                                            CallSucceeds, Join,
                       Create, PublishNow, HookPublishes
                <5> QED
                    BY <5>1 DEF NoCall
            <4> QED
                BY <4>1, <4>2
        <3> QED
            BY <1>1, <2>5, <3>1, <3>2 DEF PublishInv
    <2> QED
        BY <1>2, <2>1, <2>2, <2>3, <2>4, <2>5 DEF FrameStep, DropFrame, CheckCloses,
                                                  CheckAfterClose,
           HandleUnsubscribe, AnswerFrame
<1>3. ASSUME NEW id \in ChannelId, ChannelRestarts(id)
      PROVE  PublishInv(d, g)'
    <2>1. call' = call \/ call'[d][g] = Supersede(call[d][g], id)
        BY <1>3 DEF ChannelRestarts, Restart
    <2>2. call'[d][g].op = call[d][g].op
        BY <1>1, <2>1 DEF Supersede, Call
    <2> QED
        BY <1>1, <1>3, <2>2, PublishKept DEF ChannelRestarts, connectionVars
<1>4. ASSUME NEW id \in ChannelId, ChannelStep(id)
      PROVE  PublishInv(d, g)'
    <2>1. call' = call
        BY <1>4 DEF ChannelStep, SourceStep, SourcePublishes,
           SourceEnds, ErrorIgnored, ScheduleRestart, GiveUp
    <2> QED
        BY <1>1, <1>4, <2>1, PublishKept DEF ChannelStep
<1>5. ASSUME NEW c \in Subscriber, NEW f \in Feed, NEW frame \in Frame, Receive(c, f, frame)
      PROVE  PublishInv(d, g)'
    <2>1. queue'[d][g] = queue[d][g] \/ queue'[d][g] = Append(queue[d][g], frame)
        BY <1>1, <1>5 DEF Receive, enqueue, ConnectionsTyped
    <2> QED
        BY <1>1, <1>5, <2>1, PublishKept DEF Receive, registryVars
<1>6. ASSUME NEW c \in Subscriber,
             \/ \E user \in Caller : SessionChanges(c, user)
             \/ Opens(c) \/ SocketCloses(c) \/ CloseFinishes(c) \/ CallerCheck(c)
             \/ \E f \in Feed : Deliver(c, f)
      PROVE  PublishInv(d, g)'
    <2>1. UNCHANGED <<call, stage, queue>>
        BY <1>6 DEF SessionChanges, Opens, SocketCloses, CloseFinishes, CallerCheck, CheckFails,
                    CloseWith,
           Deliver, registryVars, UnsubscribeAll
    <2> QED
        BY <1>1, <2>1, PublishKept
<1>7. CASE UNCHANGED vars
    BY <1>1, <1>7, PublishKept DEF vars, registryVars, connectionVars
<1> QED
    BY <1>2, <1>3, <1>4, <1>5, <1>6, <1>7 DEF Next

\* What a broadcast adds, it adds for connections that are open.
LEMMA BroadcastEffect ==
    ASSUME BroadcastReaches, NEW c \in Subscriber
    PROVE  outbox'[c] = outbox[c] \/ status[c] = "open"
BY DEF BroadcastReaches

LEMMA QuietPreserved ==
    ASSUME ServiceInv, [Next]_vars, NEW d \in Subscriber, NEW g \in Feed
    PROVE  QuietInv(d, g)'
<1>1. ConnectionsTyped /\ QuietInv(d, g)
    BY DEF ServiceInv, IInv
<1>2. ASSUME status'[d] = "open" \/ (status[d] # "open" /\ outbox'[d][g] = outbox[d][g]) \/ outbox'[d][g] = <<>>
      PROVE  QuietInv(d, g)'
    BY <1>1, <1>2 DEF QuietInv
<1>3. ASSUME NEW c \in Subscriber, NEW code, CloseWith(c, code)
      PROVE  QuietInv(d, g)'
    <2>1. CASE d = c
        BY <1>1, <1>2, <1>3, <2>1 DEF CloseWith, ConnectionsTyped
    <2>2. CASE d # c
        BY <1>1, <1>2, <1>3, <2>2 DEF CloseWith, ConnectionsTyped
    <2> QED
        BY <2>1, <2>2
<1>4. ASSUME NEW c \in Subscriber, SocketCloses(c) \/ CallerCheck(c) \/ \E f \in Feed : CheckCloses(c, f)
      PROVE  QuietInv(d, g)'
    BY <1>3, <1>4 DEF SocketCloses, CallerCheck, CheckCloses, CheckFails
<1>5. ASSUME status' = status, outbox'[d] = outbox[d] \/ status[d] = "open"
      PROVE  QuietInv(d, g)'
    BY <1>1, <1>5 DEF QuietInv
<1>6. ASSUME NEW c \in Subscriber, NEW f \in Feed, RegistryCall(c, f)
      PROVE  QuietInv(d, g)'
    BY <1>5, <1>6, BroadcastEffect DEF RegistryCall
<1>7. ASSUME NEW id \in ChannelId, ChannelStep(id) \/ ChannelRestarts(id)
      PROVE  QuietInv(d, g)'
    BY <1>5, <1>7, BroadcastEffect DEF ChannelStep, ChannelRestarts, connectionVars
<1>8. ASSUME NEW c \in Subscriber, Opens(c) \/ CloseFinishes(c)
      PROVE  QuietInv(d, g)'
    BY <1>1, <1>2, <1>8 DEF Opens, CloseFinishes, ConnectionsTyped
<1>9. ASSUME NEW c \in Subscriber, NEW f \in Feed, AnswerFrame(c, f)
      PROVE  QuietInv(d, g)'
    BY <1>1, <1>5, <1>9 DEF AnswerFrame, ConnectionsTyped
<1>10. ASSUME NEW c \in Subscriber, NEW f \in Feed, Deliver(c, f)
      PROVE  QuietInv(d, g)'
    <2>1. CASE d = c /\ g = f
        BY <1>1, <1>10, <2>1 DEF Deliver, QuietInv
    <2>2. CASE ~(d = c /\ g = f)
        <3>1. outbox'[d][g] = outbox[d][g] /\ status' = status
            BY <1>1, <1>10, <2>2 DEF Deliver, ConnectionsTyped
        <3> QED
            BY <1>1, <3>1 DEF QuietInv
    <2> QED
        BY <2>1, <2>2
<1>11. ASSUME NEW c \in Subscriber,
             \/ \E user \in Caller : SessionChanges(c, user)
             \/ \E f \in Feed : \/ \E frame \in Frame : Receive(c, f, frame)
                                \/ DropFrame(c, f) \/ StartSubscribe(c, f) \/ CheckPasses(c, f)
                                \/ CheckAfterClose(c, f) \/ StartPublish(c, f) \/ HandleUnsubscribe(c, f)
      PROVE  QuietInv(d, g)'
    BY <1>5, <1>11 DEF SessionChanges, Receive, DropFrame, StartSubscribe, CheckPasses,
                       CheckAfterClose,
           StartPublish, HandleUnsubscribe
<1>12. CASE UNCHANGED vars
    BY <1>5, <1>12 DEF vars, connectionVars
<1> QED
    BY <1>4, <1>6, <1>7, <1>8, <1>9, <1>10, <1>11, <1>12 DEF Next, FrameStep

LEMMA InitService == Init => ServiceInv
    BY InitInv DEF Init, ServiceInv, HeldInv, PublishInv, QuietInv, RegistryInit

LEMMA NextService == ServiceInv /\ [Next]_vars => ServiceInv'
    BY NextInv, HeldPreserved, PublishPreserved, QuietPreserved DEF ServiceInv
-----------------------------------------------------------------------------
(* The view of the connection, feed by feed *)

\* Two payloads of one caller never share a channel: what is served has one name.
TellsApart ==
    \A user \in Caller : \A p, q \in Payload : HashOf[<<user, p>>] = HashOf[<<user, q>>] => p = q

FeedView(c, f) == <<upOf(c)[f], downOf(c)[f], handlingOf(c)[f], servingOf(c)[f]>>

ClientMap == [frame \in Frame |-> clientFrame(frame)]
ServerMap(c) == [frame \in OutFrame |-> serverFrame(c, frame)]

LEMMA OpenView ==
    ASSUME ConnectionsTyped, NEW c \in Subscriber, NEW f \in Feed, IsOpen(c)
    PROVE  /\ upOf(c)[f] = Each(ClientMap, queue[c][f])
           /\ downOf(c)[f] = Each(ServerMap(c), outbox[c][f])
           /\ queue[c][f] \in Seq(Frame) /\ outbox[c][f] \in Seq(OutFrame)
<1>1. queue[c][f] \in Seq(Frame) /\ outbox[c][f] \in Seq(OutFrame)
    BY DEF ConnectionsTyped
<1>2. /\ \A i \in DOMAIN queue[c][f] : queue[c][f][i] \in Frame
      /\ \A i \in DOMAIN outbox[c][f] : outbox[c][f][i] \in OutFrame
    BY <1>1, ElementOfSeq, LenProperties
<1>3. upOf(c)[f] = Each(ClientMap, queue[c][f])
    BY <1>2 DEF upOf, Each, ClientMap
<1>4. downOf(c)[f] = Each(ServerMap(c), outbox[c][f])
    BY <1>2 DEF downOf, Each, ServerMap
<1> QED
    BY <1>1, <1>3, <1>4

LEMMA SamePayload ==
    ASSUME NEW c \in Subscriber, caller'[c] = caller[c]
    PROVE  /\ \A key : PayloadOf(c, key)' = PayloadOf(c, key')
           /\ ServerMap(c)' = ServerMap(c)
<1>1. ASSUME NEW key
      PROVE  PayloadOf(c, key)' = PayloadOf(c, key)
    BY <1>1 DEF PayloadOf, KeyOf
<1>2. \A frame : serverFrame(c, frame)' = serverFrame(c, frame)
    BY <1>1 DEF serverFrame
<1> QED
    BY <1>1, <1>2 DEF ServerMap

LEMMA ViewIsOpen == \A c \in Subscriber, f \in Feed : ConnectionsTyped /\ IsOpen(c) =>
    /\ upOf(c)[f] = Each(ClientMap, queue[c][f])
    /\ downOf(c)[f] = Each(ServerMap(c), outbox[c][f])
    /\ queue[c][f] \in Seq(Frame) /\ outbox[c][f] \in Seq(OutFrame)
    BY OpenView

\* The same of the next state
LEMMA OpenViewNext ==
    ASSUME ConnectionsTyped', NEW c \in Subscriber, NEW f \in Feed, IsOpen(c)', caller'[c] = caller[c]
    PROVE  /\ upOf(c)'[f] = Each(ClientMap, queue'[c][f])
           /\ downOf(c)'[f] = Each(ServerMap(c), outbox'[c][f])
<1>1. ViewIsOpen!:'
    BY ViewIsOpen, PTL
<1> QED
    BY <1>1, SamePayload

\* The frames of a feed are taken off and added one by one.
LEMMA ServerAppends ==
    ASSUME NEW c, NEW q \in Seq(OutFrame), NEW frame \in OutFrame
    PROVE  /\ Each(ServerMap(c), Append(q, frame)) = Append(Each(ServerMap(c), q), serverFrame(c, frame))
           /\ Each(ServerMap(c), Append(q, frame)) = Each(ServerMap(c), q) \o <<serverFrame(c, frame)>>
           /\ Len(Each(ServerMap(c), q)) = Len(q)
<1>1. ServerMap(c)[frame] = serverFrame(c, frame)
    BY DEF ServerMap
<1> QED
    BY <1>1, EachAppend

LEMMA ServerTail ==
    ASSUME NEW c, NEW q \in Seq(OutFrame), q # <<>>
    PROVE  Each(ServerMap(c), Tail(q)) = Tail(Each(ServerMap(c), q)) /\ Each(ServerMap(c), q) # <<>>
    BY EachTail

LEMMA ClientAppends ==
    ASSUME NEW q \in Seq(Frame), NEW frame \in Frame
    PROVE  Each(ClientMap, Append(q, frame)) = Append(Each(ClientMap, q), clientFrame(frame))
<1> DEFINE m == ClientMap
<1>1. m[frame] = clientFrame(frame)
    BY DEF ClientMap
<1> HIDE DEF m
<1>2. Each(m, Append(q, frame)) = Append(Each(m, q), m[frame])
    BY EachAppend
<1> QED
    BY <1>1, <1>2 DEF m

LEMMA ClientTail ==
    ASSUME NEW q \in Seq(Frame), q # <<>>
    PROVE  /\ Each(ClientMap, Tail(q)) = Tail(Each(ClientMap, q))
           /\ Each(ClientMap, q) # <<>> /\ Head(Each(ClientMap, q)) = clientFrame(Head(q))
<1>1. ClientMap[Head(q)] = clientFrame(Head(q))
    BY QueueFacts DEF ClientMap
<1> QED
    BY <1>1, EachTail

\* A feed of which nothing is queued, on its way, or held, or whose connection is closed.
LEMMA BlankView ==
    ASSUME NEW c \in Subscriber, NEW f \in Feed, outbox[c][f] = <<>>,
           ~IsOpen(c) \/ (queue[c][f] = <<>> /\ subscriptions[c][f] = NoKey)
    PROVE  FeedView(c, f) = <<<<>>, <<>>, "idle", NoPayload>>
<1>1. upOf(c)[f] = <<>> /\ downOf(c)[f] = <<>>
    BY DEF upOf, downOf
<1>2. handlingOf(c)[f] = "idle" /\ servingOf(c)[f] = NoPayload
    BY DEF handlingOf, servingOf, Asked, Handling, IsServed
<1> QED
    BY <1>1, <1>2 DEF FeedView

LEMMA BlankViews == \A c \in Subscriber, f \in Feed :
    outbox[c][f] = <<>> /\ (~IsOpen(c) \/ (queue[c][f] = <<>> /\ subscriptions[c][f] = NoKey))
        => FeedView(c, f) = <<<<>>, <<>>, "idle", NoPayload>>
    BY BlankView

LEMMA ServedIsServed ==
    ASSUME NEW c \in Subscriber, NEW f \in Feed
    PROVE  IsServed(c, f) <=> IsOpen(c) /\ Served(c, f)
    BY DEF IsServed, Served

LEMMA HandlingKept ==
    ASSUME NEW c \in Subscriber, NEW g \in Feed, IsOpen(c)' <=> IsOpen(c),
           queue'[c][g] = queue[c][g], stage'[c][g] = stage[c][g]
    PROVE  handlingOf(c)'[g] = handlingOf(c)[g]
    BY DEF handlingOf, Asked, Handling

\* A feed of an open connection that a step leaves alone.
LEMMA ViewKept ==
    ASSUME ConnectionsTyped, ConnectionsTyped',
           NEW c \in Subscriber, NEW g \in Feed, IsOpen(c), IsOpen(c)', caller'[c] = caller[c],
           queue'[c][g] = queue[c][g], outbox'[c][g] = outbox[c][g],
           handlingOf(c)'[g] = handlingOf(c)[g],
           Served(c, g)' <=> Served(c, g),
           Served(c, g) => subscriptions'[c][g] = subscriptions[c][g]
    PROVE  FeedView(c, g)' = FeedView(c, g)
<1>1. upOf(c)'[g] = upOf(c)[g]
    BY DEF upOf, clientFrame
<1>2. downOf(c)'[g] = downOf(c)[g]
    BY OpenView, OpenViewNext
<1>4. servingOf(c)'[g] = servingOf(c)[g]
    <2>1. IsServed(c, g)' <=> IsServed(c, g)
        BY DEF IsServed, Served
    <2>2. IsServed(c, g) => PayloadOf(c, subscriptions[c][g])' = PayloadOf(c, subscriptions[c][g])
        BY SamePayload DEF IsServed, Served
    <2> QED
        BY <2>1, <2>2 DEF servingOf
<1> QED
    BY <1>1, <1>2, <1>4 DEF FeedView

LEMMA NoFeedMoves ==
    ASSUME NEW c \in Subscriber, \A g \in Feed : FeedView(c, g)' = FeedView(c, g)
    PROVE  UNCHANGED connectionView(c)
<1>1. /\ \A g \in Feed : upOf(c)'[g] = upOf(c)[g] /\ downOf(c)'[g] = downOf(c)[g]
      /\ \A g \in Feed : handlingOf(c)'[g] = handlingOf(c)[g] /\ servingOf(c)'[g] = servingOf(c)[g]
    BY DEF FeedView
<1>2. upOf(c)' = upOf(c)
    BY <1>1 DEF upOf
<1>3. downOf(c)' = downOf(c)
    BY <1>1 DEF downOf
<1>4. handlingOf(c)' = handlingOf(c)
    BY <1>1 DEF handlingOf
<1>5. servingOf(c)' = servingOf(c)
    BY <1>1 DEF servingOf
<1> QED
    BY <1>2, <1>3, <1>4, <1>5 DEF connectionView

\* One feed moves.
LEMMA OneFeedMoves ==
    ASSUME NEW c \in Subscriber, NEW f \in Feed, NEW u, NEW d, NEW h, NEW s,
           FeedView(c, f)' = <<u, d, h, s>>,
           \A g \in Feed \ {f} : FeedView(c, g)' = FeedView(c, g)
    PROVE  /\ upOf(c)' = [upOf(c) EXCEPT ![f] = u]
           /\ downOf(c)' = [downOf(c) EXCEPT ![f] = d]
           /\ handlingOf(c)' = [handlingOf(c) EXCEPT ![f] = h]
           /\ servingOf(c)' = [servingOf(c) EXCEPT ![f] = s]
<1>1. /\ \A g \in Feed \ {f} : upOf(c)'[g] = upOf(c)[g] /\ downOf(c)'[g] = downOf(c)[g]
      /\ \A g \in Feed \ {f} : handlingOf(c)'[g] = handlingOf(c)[g] /\ servingOf(c)'[g] = servingOf(c)[g]
      /\ upOf(c)'[f] = u /\ downOf(c)'[f] = d /\ handlingOf(c)'[f] = h /\ servingOf(c)'[f] = s
    BY DEF FeedView
<1>2. upOf(c)' = [upOf(c) EXCEPT ![f] = u]
    BY <1>1 DEF upOf
<1>3. downOf(c)' = [downOf(c) EXCEPT ![f] = d]
    BY <1>1 DEF downOf
<1>4. handlingOf(c)' = [handlingOf(c) EXCEPT ![f] = h]
    BY <1>1 DEF handlingOf
<1>5. servingOf(c)' = [servingOf(c) EXCEPT ![f] = s]
    BY <1>1 DEF servingOf
<1> QED
    BY <1>2, <1>3, <1>4, <1>5

\* The frames of an open connection's feed, as they come and go
LEMMA UpMoves ==
    ASSUME ConnectionsTyped, ConnectionsTyped', NEW c \in Subscriber, NEW f \in Feed,
           IsOpen(c), IsOpen(c)', caller'[c] = caller[c]
    PROVE  /\ queue'[c][f] = queue[c][f] => upOf(c)'[f] = upOf(c)[f]
           /\ \A frame \in Frame : queue'[c][f] = Append(queue[c][f], frame)
                  => upOf(c)'[f] = Append(upOf(c)[f], clientFrame(frame))
           /\ queue[c][f] # <<>> =>
                /\ upOf(c)[f] # <<>> /\ Head(upOf(c)[f]) = clientFrame(Head(queue[c][f]))
                /\ queue'[c][f] = Tail(queue[c][f]) => upOf(c)'[f] = Tail(upOf(c)[f])
<1> DEFINE q == queue[c][f]
           u == upOf(c)[f]
           r == upOf(c)'[f]
           s == queue'[c][f]
<1>1. u = Each(ClientMap, q) /\ q \in Seq(Frame)
    BY OpenView
<1>2. r = Each(ClientMap, s)
    BY OpenViewNext
<1> HIDE DEF q, u, r, s
<1>3. ASSUME NEW frame \in Frame, s = Append(q, frame)
      PROVE  r = Append(u, clientFrame(frame))
    BY <1>1, <1>2, <1>3, ClientAppends
<1>4. ASSUME q # <<>>
      PROVE  /\ u # <<>> /\ Head(u) = clientFrame(Head(q))
             /\ s = Tail(q) => r = Tail(u)
    BY <1>1, <1>2, <1>4, ClientTail
<1>5. s = q => r = u
    BY <1>1, <1>2
<1> QED
    BY <1>3, <1>4, <1>5 DEF q, u, r, s

LEMMA DownMoves ==
    ASSUME ConnectionsTyped, ConnectionsTyped', NEW c \in Subscriber, NEW f \in Feed,
           IsOpen(c), IsOpen(c)', caller'[c] = caller[c]
    PROVE  /\ outbox'[c][f] = outbox[c][f] => downOf(c)'[f] = downOf(c)[f]
           /\ \A frame \in OutFrame : outbox'[c][f] = Append(outbox[c][f], frame)
                  => /\ downOf(c)'[f] = Append(downOf(c)[f], serverFrame(c, frame))
                     /\ downOf(c)'[f] = downOf(c)[f] \o <<serverFrame(c, frame)>>
           /\ outbox[c][f] # <<>> =>
                /\ downOf(c)[f] # <<>>
                /\ outbox'[c][f] = Tail(outbox[c][f]) => downOf(c)'[f] = Tail(downOf(c)[f])
           /\ Len(downOf(c)[f]) = Len(outbox[c][f])
<1> DEFINE q == outbox[c][f]
           u == downOf(c)[f]
           r == downOf(c)'[f]
           s == outbox'[c][f]
<1>1. u = Each(ServerMap(c), q) /\ q \in Seq(OutFrame)
    BY OpenView
<1>2. r = Each(ServerMap(c), s)
    BY OpenViewNext
<1> HIDE DEF q, u, r, s
<1>3. ASSUME NEW frame \in OutFrame, s = Append(q, frame)
      PROVE  r = Append(u, serverFrame(c, frame)) /\ r = u \o <<serverFrame(c, frame)>>
    BY <1>1, <1>2, <1>3, ServerAppends
<1>4. ASSUME q # <<>>
      PROVE  u # <<>> /\ (s = Tail(q) => r = Tail(u))
    BY <1>1, <1>2, <1>4, ServerTail
<1>5. (s = q => r = u) /\ Len(u) = Len(q)
    BY <1>1, <1>2, EachIsSeq
<1> QED
    BY <1>3, <1>4, <1>5 DEF q, u, r, s
-----------------------------------------------------------------------------
(* The steps, as the client sees them *)

LEMMA KeysFitFeeds ==
    ASSUME ServiceInv
    PROVE  KeysFit
<1>1. \A c, f, p : KeyOf(c, f, p)[1] = f
    BY DEF KeyOf
<1> QED
    BY <1>1 DEF ServiceInv, HeldInv, KeysFit, FeedOf

LEMMA ServedWhenLeft ==
    ASSUME ServiceInv, NEW s \in Subscriber, NEW feeds \in SUBSET Feed, Leave(s, feeds),
           NEW c \in Subscriber, NEW g \in Feed
    PROVE  /\ Served(c, g)' <=> Served(c, g) /\ ~(c = s /\ g \in feeds)
           /\ subscriptions'[c][g] = IF c = s /\ g \in feeds THEN NoKey ELSE subscriptions[c][g]
<1>1. RegistryInv /\ KeysFit /\ Leave(s, feeds)
    BY KeysFitFeeds DEF ServiceInv, IInv
<1> QED
    BY <1>1, ServedAfterLeaving, LeaveEffect

LEMMA ServedWhenJoined ==
    ASSUME ServiceInv, NEW s \in Subscriber, NEW f \in Feed,
           Join(s, f) \/ \E id \in ChannelId : Create(s, f, id),
           NEW c \in Subscriber, NEW g \in Feed
    PROVE  /\ Served(c, g)' <=> Served(c, g) \/ (c = s /\ g = f)
           /\ subscriptions'[c][g] = IF c = s /\ g = f THEN call[s][f].key ELSE subscriptions[c][g]
<1>1. /\ RegistryInv /\ KeysFit
      /\ Join(s, f) \/ \E id \in ChannelId : Create(s, f, id)
    BY KeysFitFeeds DEF ServiceInv, IInv
<1> QED
    BY <1>1, ServedAfterJoining

LEMMA StepsHeard ==
    ASSUME ServiceInv, ~SupersededPublish,
           \/ \E s \in Subscriber, f \in Feed :
                \/ CallFails(s, f) \/ PublishNow(s, f)
                \/ PublishToHook(s, f) \/ HookPublishes(s, f)
           \/ \E id \in ChannelId : SourceStep(id) \/ Restart(id),
           NEW c \in Subscriber, NEW g \in Feed
    PROVE  HeardBy(c, g)
<1>1. RegistryInv /\ KeysFit /\ ~SupersededPublish
    BY KeysFitFeeds DEF ServiceInv, IInv
<1>2. ASSUME NEW s \in Subscriber, NEW f \in Feed,
             \/ CallFails(s, f) \/ PublishNow(s, f)
             \/ PublishToHook(s, f) \/ HookPublishes(s, f)
      PROVE  HeardBy(c, g)
    BY <1>1, <1>2, CallsHeard
<1>3. ASSUME NEW id \in ChannelId, SourceStep(id) \/ Restart(id)
      PROVE  HeardBy(c, g)
    BY <1>1, <1>3, SourcesHeard
<1> QED
    BY <1>2, <1>3

\* What a step says of an open connection's key.
LEMMA PayloadServed ==
    ASSUME ServiceInv, NEW c \in Subscriber, NEW f \in Feed, IsServed(c, f)
    PROVE  servingOf(c)[f] = PayloadOf(c, subscriptions[c][f]) /\ servingOf(c)[f] \in Payload
<1>1. \A p : KeyOf(c, f, p)[1] = f
    BY DEF KeyOf
<1>2. \E p \in Payload : subscriptions[c][f] = KeyOf(c, subscriptions[c][f][1], p)
    BY <1>1 DEF ServiceInv, HeldInv, IsServed
<1> QED
    BY <1>2 DEF servingOf, PayloadOf

\* The payload a key was made of is the one it names.
LEMMA PayloadNamed ==
    ASSUME TellsApart, ConnectionsTyped, NEW c \in Subscriber, NEW f \in Feed, NEW p \in Payload
    PROVE  PayloadOf(c, KeyOf(c, f, p)) = p
<1>1. caller[c] \in Caller
    BY DEF ConnectionsTyped
<1>2. \A q \in Payload : KeyOf(c, f, p) = KeyOf(c, KeyOf(c, f, p)[1], q) => q = p
    BY <1>1 DEF KeyOf, TellsApart
<1>3. KeyOf(c, f, p) = KeyOf(c, KeyOf(c, f, p)[1], p)
    BY DEF KeyOf
<1> QED
    BY <1>2, <1>3 DEF PayloadOf

\* The connection is closed, or closes: everything its client knew is gone.
LEMMA ClosedIsBlank ==
    ASSUME ServiceInv', ~IsOpen(Connection)'
    PROVE  \A f \in Feed : FeedView(Connection, f)' = <<<<>>, <<>>, "idle", NoPayload>>
<1>1. BlankViews!:'
    BY BlankViews, PTL
<1>2. \A f \in Feed : outbox'[Connection][f] = <<>>
    BY ConnectionAssumption DEF ServiceInv, QuietInv, IsOpen
<1> QED
    BY <1>1, <1>2, ConnectionAssumption

LEMMA ClosesForItsClient ==
    ASSUME ServiceInv', ~IsOpen(Connection)'
    PROVE  Server!Disconnect
<1>1. /\ \A f \in Feed : upOf(Connection)'[f] = <<>> /\ downOf(Connection)'[f] = <<>>
      /\ \A f \in Feed : handlingOf(Connection)'[f] = "idle" /\ servingOf(Connection)'[f] = NoPayload
    BY ClosedIsBlank DEF FeedView
<1>2. upOf(Connection)' = [f \in Feed |-> <<>>]
    BY <1>1 DEF upOf
<1>3. downOf(Connection)' = [f \in Feed |-> <<>>]
    BY <1>1 DEF downOf
<1>4. handlingOf(Connection)' = [f \in Feed |-> "idle"]
    BY <1>1 DEF handlingOf
<1>5. servingOf(Connection)' = [f \in Feed |-> NoPayload]
    BY <1>1 DEF servingOf
<1> QED
    BY <1>2, <1>3, <1>4, <1>5 DEF Server!Disconnect

LEMMA OpensForItsClient ==
    ASSUME ServiceInv, ServiceInv', Opens(Connection)
    PROVE  UNCHANGED connectionView(Connection)
<1>1. /\ UNCHANGED <<queue, outbox, subscriptions>>
      /\ ~IsOpen(Connection)
      /\ \A f \in Feed : /\ queue[Connection][f] = <<>> /\ outbox[Connection][f] = <<>>
                         /\ subscriptions[Connection][f] = NoKey
    BY ConnectionAssumption DEF Opens, registryVars, IsOpen, ServiceInv, QuietInv, IInv, FeedInv,
                                GoneInv
<1>2. BlankViews!:'
    BY BlankViews, PTL
<1>3. \A f \in Feed : FeedView(Connection, f)' = FeedView(Connection, f)
    BY <1>1, <1>2, BlankViews, ConnectionAssumption
<1> QED
    BY <1>3, NoFeedMoves, ConnectionAssumption

\* A step of an open connection that is none of its client's business.
LEMMA NothingSeen ==
    ASSUME ServiceInv, ServiceInv', IsOpen(Connection), IsOpen(Connection)',
           caller'[Connection] = caller[Connection],
           queue'[Connection] = queue[Connection], outbox'[Connection] = outbox[Connection],
           \A g \in Feed : handlingOf(Connection)'[g] = handlingOf(Connection)[g],
           \A g \in Feed : /\ Served(Connection, g)' <=> Served(Connection, g)
                           /\ Served(Connection, g) =>
                                  subscriptions'[Connection][g] = subscriptions[Connection][g]
    PROVE  UNCHANGED connectionView(Connection)
<1>1. ConnectionsTyped /\ ConnectionsTyped'
    BY DEF ServiceInv, IInv
<1>2. \A g \in Feed : FeedView(Connection, g)' = FeedView(Connection, g)
    BY <1>1, ViewKept, ConnectionAssumption
<1> QED
    BY <1>2, NoFeedMoves, ConnectionAssumption

\* A frame of a channel reaches the client of an open connection, on the feed it is served:
\* a message of the payload, an error, or the last error of a channel that is given up.
LEMMA FrameSeen ==
    ASSUME ServiceInv, ServiceInv', IsOpen(Connection), IsOpen(Connection)',
           caller' = caller, queue' = queue, subscriptions' = subscriptions,
           \A g \in Feed : handlingOf(Connection)'[g] = handlingOf(Connection)[g],
           NEW f \in Feed, NEW frame \in OutFrame, frame.type \in {"message", "error"},
           Len(outbox[Connection][f]) < MaxDown,
           outbox'[Connection] = [outbox[Connection] EXCEPT ![f] = Append(@, frame)],
           Served(Connection, f), frame.key = subscriptions[Connection][f],
           frame.type = "message" => Served(Connection, f)',
           \A g \in Feed \ {f} : Served(Connection, g)' <=> Served(Connection, g)
    PROVE  Server!ServerStep
<1> DEFINE C == Connection
<1>1. ConnectionsTyped /\ ConnectionsTyped' /\ C \in Subscriber
    BY ConnectionAssumption DEF ServiceInv, IInv
<1>2. /\ outbox'[C][f] = Append(outbox[C][f], frame) /\ outbox[C][f] \in Seq(OutFrame)
      /\ \A g \in Feed \ {f} : outbox'[C][g] = outbox[C][g]
    <2>1. outbox[C] \in [Feed -> Seq(OutFrame)]
        BY <1>1 DEF ConnectionsTyped
    <2> QED
        BY <2>1
<1>3. \A g \in Feed \ {f} : FeedView(C, g)' = FeedView(C, g)
    BY <1>1, <1>2, ViewKept
<1>4. downOf(C)'[f] = Append(downOf(C)[f], serverFrame(C, frame)) /\ Len(downOf(C)[f]) < MaxDown
    BY <1>1, <1>2, DownMoves
<1>5. upOf(C)'[f] = upOf(C)[f] /\ handlingOf(C)'[f] = handlingOf(C)[f]
    BY <1>1, UpMoves
<1>6. servingOf(C)[f] = PayloadOf(C, frame.key) /\ servingOf(C)[f] # NoPayload
    BY <1>1, ServedIsServed, PayloadServed, EvaluationAssumption
<1> DEFINE s == IF Served(C, f)' THEN servingOf(C)[f] ELSE NoPayload
<1>7. servingOf(C)'[f] = s
    <2>1. PayloadOf(C, subscriptions[C][f])' = servingOf(C)[f]
        BY <1>1, <1>6, SamePayload
    <2>2. IsServed(C, f)' <=> Served(C, f)'
        BY DEF IsServed, Served
    <2> QED
        BY <2>1, <2>2 DEF servingOf
<1>8. /\ upOf(C)' = [upOf(C) EXCEPT ![f] = upOf(C)[f]]
      /\ downOf(C)' = [downOf(C) EXCEPT ![f] = Append(downOf(C)[f], serverFrame(C, frame))]
      /\ handlingOf(C)' = [handlingOf(C) EXCEPT ![f] = handlingOf(C)[f]]
      /\ servingOf(C)' = [servingOf(C) EXCEPT ![f] = s]
    <2>1. FeedView(C, f)' = <<upOf(C)[f], Append(downOf(C)[f], serverFrame(C, frame)), handlingOf(C)[f], s>>
        BY <1>4, <1>5, <1>7 DEF FeedView
    <2> QED
        BY <1>1, <1>3, <2>1, OneFeedMoves
<1>9. /\ [upOf(C) EXCEPT ![f] = upOf(C)[f]] = upOf(C)
      /\ [handlingOf(C) EXCEPT ![f] = handlingOf(C)[f]] = handlingOf(C)
      /\ [servingOf(C) EXCEPT ![f] = servingOf(C)[f]] = servingOf(C)
    BY DEF upOf, handlingOf, servingOf
<1>10. CASE frame.type = "message"
    <2>1. serverFrame(C, frame) = Server!Message(servingOf(C)[f])
        BY <1>6, <1>10 DEF serverFrame, Server!Message
    <2>2. Server!SourceMessage(f)
        BY <1>4, <1>6, <1>8, <1>9, <1>10, <2>1 DEF Server!SourceMessage
    <2> QED
        BY <2>2 DEF Server!ServerStep
<1>11. CASE frame.type = "error"
    <2>1. serverFrame(C, frame) = Server!Reply("error", NoKey)
        BY <1>11 DEF serverFrame, Server!Reply
    <2>2. CASE Served(C, f)'
        <3>1. Server!SourceError(f)
            BY <1>4, <1>6, <1>8, <1>9, <2>1, <2>2 DEF Server!SourceError
        <3> QED
            BY <3>1 DEF Server!ServerStep
    <2>3. CASE ~Served(C, f)'
        <3>1. Server!SourceGivesUp(f)
            BY <1>4, <1>6, <1>8, <1>9, <2>1, <2>3 DEF Server!SourceGivesUp
        <3> QED
            BY <3>1 DEF Server!ServerStep
    <2> QED
        BY <2>2, <2>3
<1> QED
    BY <1>10, <1>11

\* A step of the registry that broadcasts, or does not.
LEMMA BroadcastSeen ==
    ASSUME ServiceInv, ServiceInv', IsOpen(Connection), IsOpen(Connection)',
           BroadcastReaches, \A g \in Feed : HeardBy(Connection, g),
           UNCHANGED <<caller, queue>>,
           \A g \in Feed : handlingOf(Connection)'[g] = handlingOf(Connection)[g]
    PROVE  [Server!ServerNext]_(connectionView(Connection))
<1>1. /\ Connection \in Subscriber
      /\ sent'.type \in {"none", "message", "error"} /\ sent'.key \in Key \cup {NoKey}
    <2>1. RegistryTypeOK'
        BY RegistryTypes, PTL DEF ServiceInv, IInv
    <2> QED
        BY <2>1, ConnectionAssumption DEF ServiceInv, IInv, RegistryTypeOK
<1>2. CASE Feed = {}
    BY <1>1, <1>2, NoFeedMoves
<1>3. \A g \in Feed :
         /\ subscriptions' = subscriptions
         /\ sent'.type # "none" => FeedOf(sent'.key) \in Feed
         /\ sent'.type # "none" /\ Connection \in sent'.to /\ g = FeedOf(sent'.key)
                => Served(Connection, g) /\ sent'.key = subscriptions[Connection][g]
         /\ \/ Served(Connection, g)' <=> Served(Connection, g)
            \/ /\ sent'.type = "error" /\ Connection \in sent'.to /\ g = FeedOf(sent'.key)
               /\ ~Served(Connection, g)'
    BY DEF HeardBy, Heard, FeedOf
<1>4. CASE Feed # {} /\ (sent'.type = "none" \/ Connection \notin sent'.to)
    <2>1. outbox'[Connection] = outbox[Connection]
        BY <1>1, <1>4 DEF BroadcastReaches
    <2>2. \A g \in Feed : Served(Connection, g)' <=> Served(Connection, g)
        BY <1>3, <1>4
    <2>3. subscriptions' = subscriptions
        BY <1>3, <1>4
    <2> QED
        BY <2>1, <2>2, <2>3, NothingSeen
<1>5. CASE Feed # {} /\ sent'.type # "none" /\ Connection \in sent'.to
    <2>1. PICK f \in Feed : f = FeedOf(sent'.key)
        BY <1>3, <1>5
    <2>2. PICK frame \in OutFrame : frame = [type |-> sent'.type, key |-> sent'.key]
        BY <1>1, <1>5 DEF OutFrame
    <2>3. /\ outbox'[Connection] = [outbox[Connection] EXCEPT ![f] = Append(@, frame)]
          /\ Len(outbox[Connection][f]) < MaxDown
        BY <1>1, <1>5, <2>1, <2>2 DEF BroadcastReaches, IsOpen
    <2>4. frame.type \in {"message", "error"} /\ frame.type = sent'.type /\ frame.key = sent'.key
        BY <1>1, <1>5, <2>2
    <2>5. /\ subscriptions' = subscriptions
          /\ Served(Connection, f) /\ frame.key = subscriptions[Connection][f]
        BY <1>3, <1>5, <2>1, <2>4
    <2>6. frame.type = "message" => Served(Connection, f)'
        BY <1>3, <2>1, <2>4, <2>5
    <2>7. \A g \in Feed \ {f} : Served(Connection, g)' <=> Served(Connection, g)
        BY <1>3, <2>1
    <2>8. Server!ServerStep
        BY <2>3, <2>4, <2>5, <2>6, <2>7, FrameSeen
    <2> QED
        BY <2>8 DEF Server!ServerNext
<1> QED
    BY <1>2, <1>4, <1>5

\* A step that leaves the connection's frames alone, and of the registry's state nothing or
\* what another connection holds of it.
LEMMA Unnoticed ==
    ASSUME ServiceInv, ServiceInv', IsOpen(Connection), IsOpen(Connection)',
           caller'[Connection] = caller[Connection], queue'[Connection] = queue[Connection],
           outbox'[Connection] = outbox[Connection], stage'[Connection] = stage[Connection],
           \/ UNCHANGED <<channels, channel, subscriptions>>
           \/ \E d \in Subscriber \ {Connection} :
                \/ \E feeds \in SUBSET Feed : Leave(d, feeds)
                \/ \E f \in Feed :
                     Join(d, f) \/ \E id \in ChannelId : Create(d, f, id)
    PROVE  UNCHANGED connectionView(Connection)
<1> DEFINE Kept(g) == /\ Served(Connection, g)' <=> Served(Connection, g)
                      /\ subscriptions'[Connection][g] = subscriptions[Connection][g]
<1>1. \A g \in Feed : handlingOf(Connection)'[g] = handlingOf(Connection)[g]
    BY HandlingKept, ConnectionAssumption
<1>2. CASE UNCHANGED <<channels, channel, subscriptions>>
    <2>1. \A g \in Feed : Kept(g)
        BY <1>2 DEF Served
    <2> QED
        BY <1>1, <2>1, NothingSeen
<1>3. ASSUME NEW d \in Subscriber \ {Connection}, NEW feeds \in SUBSET Feed, Leave(d, feeds)
      PROVE  UNCHANGED connectionView(Connection)
    <2>1. \A g \in Feed : Kept(g)
        BY <1>3, ServedWhenLeft, ConnectionAssumption
    <2> QED
        BY <1>1, <2>1, NothingSeen
<1>4. ASSUME NEW d \in Subscriber \ {Connection}, NEW f \in Feed,
             Join(d, f) \/ \E id \in ChannelId : Create(d, f, id)
      PROVE  UNCHANGED connectionView(Connection)
    <2>1. \A g \in Feed : Kept(g)
        BY <1>4, ServedWhenJoined, ConnectionAssumption
    <2> QED
        BY <1>1, <2>1, NothingSeen
<1> QED
    BY <1>2, <1>3, <1>4

\* The other feeds of a connection that handles a frame of feed f
LEMMA OthersKept ==
    ASSUME ServiceInv, ServiceInv', IsOpen(Connection), IsOpen(Connection)',
           caller'[Connection] = caller[Connection], NEW f \in Feed,
           \A g \in Feed \ {f} : /\ queue'[Connection][g] = queue[Connection][g]
                                 /\ outbox'[Connection][g] = outbox[Connection][g]
                                 /\ stage'[Connection][g] = stage[Connection][g],
           \A g \in Feed \ {f} : /\ Served(Connection, g)' <=> Served(Connection, g)
                                 /\ subscriptions'[Connection][g] = subscriptions[Connection][g]
    PROVE  \A g \in Feed \ {f} : FeedView(Connection, g)' = FeedView(Connection, g)
<1>1. \A g \in Feed \ {f} : handlingOf(Connection)'[g] = handlingOf(Connection)[g]
    BY HandlingKept, ConnectionAssumption
<1> QED
    BY <1>1, ViewKept, ConnectionAssumption DEF ServiceInv, IInv

\* Steps that leave the registry's channels and subscriptions alone
LEMMA ServedKept ==
    ASSUME UNCHANGED <<channels, channel, subscriptions>>, NEW c \in Subscriber, NEW g \in Feed,
           IsOpen(c)' <=> IsOpen(c), caller'[c] = caller[c]
    PROVE  /\ Served(c, g)' <=> Served(c, g)
           /\ subscriptions'[c][g] = subscriptions[c][g]
           /\ servingOf(c)'[g] = servingOf(c)[g]
<1>1. Served(c, g)' <=> Served(c, g)
    BY DEF Served
<1>2. IsServed(c, g)' <=> IsServed(c, g)
    BY <1>1 DEF IsServed, Served
<1>3. PayloadOf(c, subscriptions[c][g])' = PayloadOf(c, subscriptions[c][g])
    BY SamePayload
<1>4. servingOf(c)'[g] = servingOf(c)[g]
    BY <1>2, <1>3 DEF servingOf
<1> QED
    BY <1>1, <1>4

\* What is handled of an open connection's feed
LEMMA HandlingOpen ==
    ASSUME NEW c \in Subscriber, NEW f \in Feed, IsOpen(c)
    PROVE  /\ stage[c][f] \in {"idle", "checking"} => handlingOf(c)[f] = "idle"
           /\ queue[c][f] = <<>> \/ Head(queue[c][f]).type # "subscribe" => handlingOf(c)[f] = "idle"
           /\ queue[c][f] # <<>> /\ Head(queue[c][f]).type = "subscribe" =>
                /\ stage[c][f] \in {"registry", "refused"} => handlingOf(c)[f] = "preparing"
                /\ stage[c][f] = "granted" => handlingOf(c)[f] = "registered"
BY DEF handlingOf, Asked, Handling

LEMMA HandlingsOpen == \A c \in Subscriber, f \in Feed : IsOpen(c) =>
    /\ stage[c][f] \in {"idle", "checking"} => handlingOf(c)[f] = "idle"
    /\ queue[c][f] = <<>> \/ Head(queue[c][f]).type # "subscribe" => handlingOf(c)[f] = "idle"
    /\ queue[c][f] # <<>> /\ Head(queue[c][f]).type = "subscribe" =>
         /\ stage[c][f] \in {"registry", "refused"} => handlingOf(c)[f] = "preparing"
         /\ stage[c][f] = "granted" => handlingOf(c)[f] = "registered"
    BY HandlingOpen

\* The client sends a frame.
LEMMA ReceiveSeen ==
    ASSUME ServiceInv, ServiceInv', IsOpen(Connection), IsOpen(Connection)',
           NEW f \in Feed, NEW frame \in Frame, Receive(Connection, f, frame)
    PROVE  Server!ClientStep
<1> DEFINE C == Connection
<1>1. /\ C \in Subscriber /\ ConnectionsTyped /\ ConnectionsTyped' /\ StageInv(C, f)
      /\ caller'[C] = caller[C] /\ UNCHANGED <<channels, channel, subscriptions>>
    BY ConnectionAssumption DEF ServiceInv, IInv, FeedInv, Receive, registryVars
<1>2. /\ queue'[C][f] = Append(queue[C][f], frame) /\ queue[C][f] \in Seq(Frame)
      /\ \A g \in Feed \ {f} : queue'[C][g] = queue[C][g]
      /\ UNCHANGED <<outbox, stage>>
    BY <1>1 DEF Receive, enqueue, ConnectionsTyped
<1>3. \A g \in Feed \ {f} : FeedView(C, g)' = FeedView(C, g)
    BY <1>1, <1>2, ServedKept, OthersKept
<1>4. /\ upOf(C)'[f] = Append(upOf(C)[f], clientFrame(frame))
      /\ downOf(C)'[f] = downOf(C)[f]
    BY <1>1, <1>2, UpMoves, DownMoves
<1>5. handlingOf(C)'[f] = handlingOf(C)[f]
    <2>1. CASE queue[C][f] = <<>>
        <3>1. stage[C][f] = "idle" /\ stage'[C][f] = "idle"
            BY <1>1, <1>2, <2>1 DEF StageInv, ConnectionsTyped
        <3> QED
            BY <3>1 DEF handlingOf, Asked
    <2>2. CASE queue[C][f] # <<>>
        <3>1. queue'[C][f] # <<>> /\ Head(queue'[C][f]) = Head(queue[C][f])
            BY <1>2, <2>2, AppendFacts
        <3> QED
            BY <1>2, <2>2, <3>1 DEF handlingOf, Asked, Handling
    <2> QED
        BY <2>1, <2>2
<1>6. servingOf(C)'[f] = servingOf(C)[f]
    BY <1>1, ServedKept
<1>7. FeedView(C, f)' = <<Append(upOf(C)[f], clientFrame(frame)), downOf(C)[f], handlingOf(C)[f], servingOf(C)[f]>>
    BY <1>4, <1>5, <1>6 DEF FeedView
<1>8. /\ upOf(C)' = [upOf(C) EXCEPT ![f] = Append(upOf(C)[f], clientFrame(frame))]
      /\ downOf(C)' = [downOf(C) EXCEPT ![f] = downOf(C)[f]]
      /\ handlingOf(C)' = [handlingOf(C) EXCEPT ![f] = handlingOf(C)[f]]
      /\ servingOf(C)' = [servingOf(C) EXCEPT ![f] = servingOf(C)[f]]
    BY <1>1, <1>3, <1>7, OneFeedMoves
<1>9. /\ [downOf(C) EXCEPT ![f] = downOf(C)[f]] = downOf(C)
      /\ [handlingOf(C) EXCEPT ![f] = handlingOf(C)[f]] = handlingOf(C)
      /\ [servingOf(C) EXCEPT ![f] = servingOf(C)[f]] = servingOf(C)
    BY DEF downOf, handlingOf, servingOf
<1>10. clientFrame(frame) \in Server!ClientFrame
    BY DEF Frame, clientFrame, Server!ClientFrame
<1>11. Server!SendOn(f, clientFrame(frame))
    BY <1>8 DEF Server!SendOn
<1> QED
    BY <1>8, <1>9, <1>10, <1>11 DEF Server!ClientStep

\* The client takes a frame.
LEMMA DeliverSeen ==
    ASSUME ServiceInv, ServiceInv', IsOpen(Connection), IsOpen(Connection)',
           NEW f \in Feed, Deliver(Connection, f)
    PROVE  Server!ClientStep
<1> DEFINE C == Connection
<1>1. /\ C \in Subscriber /\ ConnectionsTyped /\ ConnectionsTyped'
      /\ caller'[C] = caller[C] /\ UNCHANGED <<channels, channel, subscriptions>>
    BY ConnectionAssumption DEF ServiceInv, IInv, Deliver, registryVars
<1>2. /\ outbox'[C][f] = Tail(outbox[C][f]) /\ outbox[C][f] \in Seq(OutFrame) /\ outbox[C][f] # <<>>
      /\ \A g \in Feed \ {f} : outbox'[C][g] = outbox[C][g]
      /\ UNCHANGED <<queue, stage>>
    BY <1>1 DEF Deliver, ConnectionsTyped
<1>3. \A g \in Feed \ {f} : FeedView(C, g)' = FeedView(C, g)
    BY <1>1, <1>2, ServedKept, OthersKept
<1>4. /\ upOf(C)'[f] = upOf(C)[f]
      /\ downOf(C)'[f] = Tail(downOf(C)[f]) /\ downOf(C)[f] # <<>>
    BY <1>1, <1>2, UpMoves, DownMoves
<1>5. handlingOf(C)'[f] = handlingOf(C)[f]
    BY <1>1, <1>2, HandlingKept
<1>6. servingOf(C)'[f] = servingOf(C)[f]
    BY <1>1, ServedKept
<1>7. FeedView(C, f)' = <<upOf(C)[f], Tail(downOf(C)[f]), handlingOf(C)[f], servingOf(C)[f]>>
    BY <1>4, <1>5, <1>6 DEF FeedView
<1>8. /\ upOf(C)' = [upOf(C) EXCEPT ![f] = upOf(C)[f]]
      /\ downOf(C)' = [downOf(C) EXCEPT ![f] = Tail(downOf(C)[f])]
      /\ handlingOf(C)' = [handlingOf(C) EXCEPT ![f] = handlingOf(C)[f]]
      /\ servingOf(C)' = [servingOf(C) EXCEPT ![f] = servingOf(C)[f]]
    BY <1>1, <1>3, <1>7, OneFeedMoves
<1>9. /\ [upOf(C) EXCEPT ![f] = upOf(C)[f]] = upOf(C)
      /\ [handlingOf(C) EXCEPT ![f] = handlingOf(C)[f]] = handlingOf(C)
      /\ [servingOf(C) EXCEPT ![f] = servingOf(C)[f]] = servingOf(C)
    BY DEF upOf, handlingOf, servingOf
<1> QED
    BY <1>4, <1>8, <1>9 DEF Server!ClientStep

\* The caller check passes: the feed's previous channel is left, its next is prepared.
LEMMA CheckPassesSeen ==
    ASSUME ServiceInv, ServiceInv', IsOpen(Connection), IsOpen(Connection)',
           NEW f \in Feed, CheckPasses(Connection, f)
    PROVE  Server!BeginSubscribe(f)
<1> DEFINE C == Connection
<1>1. /\ C \in Subscriber /\ ConnectionsTyped /\ ConnectionsTyped' /\ StageInv(C, f)
      /\ caller'[C] = caller[C] /\ UNCHANGED <<queue, outbox>>
      /\ Leave(C, {f}) /\ {f} \in SUBSET Feed
    BY ConnectionAssumption DEF ServiceInv, IInv, FeedInv, CheckPasses, SubscribeCall
<1>2. /\ queue[C][f] # <<>> /\ Head(queue[C][f]).type = "subscribe"
      /\ stage[C][f] = "checking" /\ stage'[C][f] = "registry"
      /\ \A g \in Feed \ {f} : stage'[C][g] = stage[C][g]
    BY <1>1 DEF CheckPasses, StageInv, ToStage, ConnectionsTyped
<1>3. /\ \A g \in Feed \ {f} : /\ Served(C, g)' <=> Served(C, g)
                               /\ subscriptions'[C][g] = subscriptions[C][g]
      /\ ~Served(C, f)'
    BY <1>1, ServedWhenLeft
<1>4. \A g \in Feed \ {f} : FeedView(C, g)' = FeedView(C, g)
    BY <1>1, <1>2, <1>3, OthersKept
<1>5. /\ upOf(C)'[f] = upOf(C)[f] /\ downOf(C)'[f] = downOf(C)[f]
      /\ upOf(C)[f] # <<>> /\ Head(upOf(C)[f]) = clientFrame(Head(queue[C][f]))
    BY <1>1, <1>2, UpMoves, DownMoves
<1>6. handlingOf(C)[f] = "idle"
    BY <1>1, <1>2, HandlingOpen
<1>7. handlingOf(C)'[f] = "preparing"
    BY <1>1, <1>2 DEF handlingOf, Asked, Handling
<1>8. servingOf(C)'[f] = NoPayload
    <2>1. ~IsServed(C, f)'
        BY <1>3 DEF IsServed, Served
    <2> QED
        BY <2>1 DEF servingOf
<1>9. FeedView(C, f)' = <<upOf(C)[f], downOf(C)[f], "preparing", NoPayload>>
    BY <1>5, <1>7, <1>8 DEF FeedView
<1>10. /\ upOf(C)' = [upOf(C) EXCEPT ![f] = upOf(C)[f]]
       /\ downOf(C)' = [downOf(C) EXCEPT ![f] = downOf(C)[f]]
       /\ handlingOf(C)' = [handlingOf(C) EXCEPT ![f] = "preparing"]
       /\ servingOf(C)' = [servingOf(C) EXCEPT ![f] = NoPayload]
    BY <1>1, <1>4, <1>9, OneFeedMoves
<1>11. /\ [upOf(C) EXCEPT ![f] = upOf(C)[f]] = upOf(C)
       /\ [downOf(C) EXCEPT ![f] = downOf(C)[f]] = downOf(C)
    BY DEF upOf, downOf
<1>12. Server!FirstIs(f, "subscribe")
    BY <1>2, <1>5 DEF Server!FirstIs, clientFrame
<1> QED
    BY <1>6, <1>10, <1>11, <1>12 DEF Server!BeginSubscribe

\* A subscribe call that succeeds registers the feed with the payload its frame asks for.
LEMMA RegisterSeen ==
    ASSUME TellsApart, ServiceInv, ServiceInv', IsOpen(Connection), IsOpen(Connection)',
           NEW f \in Feed, stage[Connection][f] = "registry",
           \/ Join(Connection, f)
           \/ \E id \in ChannelId : Create(Connection, f, id),
           ToStage(Connection, f, IF call'[Connection][f] = NoCall THEN "granted" ELSE "registry"),
           BroadcastReaches, UNCHANGED <<caller, queue>>
    PROVE  Server!Register(f)
<1> DEFINE C == Connection
           key == call[C][f].key
<1>1. /\ C \in Subscriber /\ ConnectionsTyped /\ ConnectionsTyped' /\ StageInv(C, f)
      /\ call \in [Subscriber -> [Feed -> Call]]
      /\ caller' = caller /\ queue' = queue
    BY ConnectionAssumption, RegistryTypes DEF ServiceInv, IInv, FeedInv
<1>2. call[C][f].op = "subscribe" /\ sent' = Silence /\ call'[C][f] = NoCall
    BY <1>1 DEF Join, Create
<1>3. /\ queue[C][f] # <<>> /\ Head(queue[C][f]).type = "subscribe"
      /\ key = KeyOf(C, f, Head(queue[C][f]).payload)
    BY <1>1, <1>2 DEF StageInv
<1>4. /\ stage'[C][f] = "granted"
      /\ \A g \in Feed \ {f} : stage'[C][g] = stage[C][g]
    <2>1. stage' = [stage EXCEPT ![C][f] = "granted"]
        BY <1>2 DEF ToStage
    <2> QED
        BY <1>1, <2>1 DEF ConnectionsTyped
<1>5. outbox'[C] = outbox[C]
    BY <1>1, <1>2 DEF BroadcastReaches, Silence
<1>6. /\ \A g \in Feed \ {f} : /\ Served(C, g)' <=> Served(C, g)
                               /\ subscriptions'[C][g] = subscriptions[C][g]
      /\ Served(C, f)' /\ subscriptions'[C][f] = key
    BY <1>1, ServedWhenJoined
<1>7. \A g \in Feed \ {f} : FeedView(C, g)' = FeedView(C, g)
    BY <1>1, <1>4, <1>5, <1>6, OthersKept
<1>8. /\ upOf(C)'[f] = upOf(C)[f] /\ downOf(C)'[f] = downOf(C)[f]
      /\ upOf(C)[f] # <<>> /\ Head(upOf(C)[f]) = clientFrame(Head(queue[C][f]))
    BY <1>1, <1>3, <1>5, UpMoves, DownMoves
<1>9. handlingOf(C)[f] = "preparing"
    BY <1>1, <1>3, HandlingOpen
<1>10. handlingOf(C)'[f] = "registered"
    BY <1>1, <1>3, <1>4 DEF handlingOf, Asked, Handling
<1>11. servingOf(C)'[f] = Head(upOf(C)[f]).payload
    <2>1. Head(queue[C][f]).payload \in Payload
        <3>1. Head(queue[C][f]) \in Frame
            BY <1>1, <1>3, QueueFacts DEF ConnectionsTyped
        <3> QED
            BY <1>3, <3>1 DEF Frame
    <2>2. PayloadOf(C, key) = Head(queue[C][f]).payload
        BY <1>1, <1>3, <2>1, PayloadNamed
    <2>3. PayloadOf(C, subscriptions[C][f])' = Head(queue[C][f]).payload
        BY <1>1, <1>6, <2>2, SamePayload
    <2>4. IsServed(C, f)'
        BY <1>6 DEF IsServed, Served
    <2> QED
        BY <1>8, <2>3, <2>4 DEF servingOf, clientFrame
<1> DEFINE s == Head(upOf(C)[f]).payload
<1>12. FeedView(C, f)' = <<upOf(C)[f], downOf(C)[f], "registered", s>>
    BY <1>8, <1>10, <1>11 DEF FeedView
<1>13. /\ upOf(C)' = [upOf(C) EXCEPT ![f] = upOf(C)[f]]
       /\ downOf(C)' = [downOf(C) EXCEPT ![f] = downOf(C)[f]]
       /\ handlingOf(C)' = [handlingOf(C) EXCEPT ![f] = "registered"]
       /\ servingOf(C)' = [servingOf(C) EXCEPT ![f] = s]
    BY <1>1, <1>7, <1>12, OneFeedMoves
<1>14. /\ [upOf(C) EXCEPT ![f] = upOf(C)[f]] = upOf(C)
       /\ [downOf(C) EXCEPT ![f] = downOf(C)[f]] = downOf(C)
    BY DEF upOf, downOf
<1> QED
    BY <1>9, <1>13, <1>14 DEF Server!Register

\* An unsubscribe frame is handled.
LEMMA UnsubscribeSeen ==
    ASSUME ServiceInv, ServiceInv', IsOpen(Connection), IsOpen(Connection)',
           NEW f \in Feed, HandleUnsubscribe(Connection, f)
    PROVE  Server!HandleUnsubscribe(f)
<1> DEFINE C == Connection
<1>1. /\ C \in Subscriber /\ ConnectionsTyped /\ ConnectionsTyped'
      /\ caller'[C] = caller[C] /\ outbox' = outbox
      /\ Leave(C, {f}) /\ {f} \in SUBSET Feed
    BY ConnectionAssumption DEF ServiceInv, IInv, HandleUnsubscribe, Unsubscribe
<1>2. /\ queue[C][f] # <<>> /\ Head(queue[C][f]).type = "unsubscribe"
      /\ queue'[C][f] = Tail(queue[C][f]) /\ stage'[C][f] = "idle"
      /\ \A g \in Feed \ {f} : queue'[C][g] = queue[C][g] /\ stage'[C][g] = stage[C][g]
    BY <1>1 DEF HandleUnsubscribe, Handling, FrameDone, ToStage, ConnectionsTyped
<1>3. /\ \A g \in Feed \ {f} : /\ Served(C, g)' <=> Served(C, g)
                               /\ subscriptions'[C][g] = subscriptions[C][g]
      /\ ~Served(C, f)'
    BY <1>1, ServedWhenLeft
<1>4. \A g \in Feed \ {f} : FeedView(C, g)' = FeedView(C, g)
    BY <1>1, <1>2, <1>3, OthersKept
<1>5. /\ upOf(C)'[f] = Tail(upOf(C)[f]) /\ downOf(C)'[f] = downOf(C)[f]
      /\ upOf(C)[f] # <<>> /\ Head(upOf(C)[f]) = clientFrame(Head(queue[C][f]))
    BY <1>1, <1>2, UpMoves, DownMoves
<1>6. handlingOf(C)'[f] = "idle"
    BY <1>1, <1>2, HandlingsOpen DEF handlingOf, Asked
<1>7. servingOf(C)'[f] = NoPayload
    <2>1. ~IsServed(C, f)'
        BY <1>3 DEF IsServed, Served
    <2> QED
        BY <2>1 DEF servingOf
<1>8. FeedView(C, f)' = <<Tail(upOf(C)[f]), downOf(C)[f], "idle", NoPayload>>
    BY <1>5, <1>6, <1>7 DEF FeedView
<1>9. /\ upOf(C)' = [upOf(C) EXCEPT ![f] = Tail(upOf(C)[f])]
      /\ downOf(C)' = [downOf(C) EXCEPT ![f] = downOf(C)[f]]
      /\ handlingOf(C)' = [handlingOf(C) EXCEPT ![f] = "idle"]
      /\ servingOf(C)' = [servingOf(C) EXCEPT ![f] = NoPayload]
    BY <1>1, <1>4, <1>8, OneFeedMoves
<1>10. downOf(C)[f] \o <<>> = downOf(C)[f]
    <2>1. \E S : downOf(C)[f] \in Seq(S)
        <3> DEFINE q == outbox[C][f]
        <3>1. downOf(C)[f] = Each(ServerMap(C), q) /\ q \in Seq(OutFrame)
            BY <1>1, OpenView
        <3> HIDE DEF q
        <3> QED
            BY <3>1, EachIsSeq
    <2> QED
        BY <2>1, ConcatEmptySeq
<1>11. Server!FirstIs(f, "unsubscribe")
    BY <1>2, <1>5 DEF Server!FirstIs, clientFrame
<1>12. Server!Finish(f, <<>>)
    BY <1>9, <1>10 DEF Server!Finish
<1> QED
    BY <1>9, <1>11, <1>12 DEF Server!HandleUnsubscribe

\* A subscribe or publish frame is answered.
LEMMA AnswerSeen ==
    ASSUME ServiceInv, ServiceInv', IsOpen(Connection), IsOpen(Connection)',
           NEW f \in Feed, AnswerFrame(Connection, f)
    PROVE  Server!AckSubscribe(f) \/ Server!RefuseSubscribe(f) \/ Server!HandlePublish(f)
<1> DEFINE C == Connection
           answer == Answer(C, f)
           reply == Reply(answer)
<1>1. /\ C \in Subscriber /\ ConnectionsTyped /\ ConnectionsTyped' /\ StageInv(C, f)
      /\ caller'[C] = caller[C] /\ UNCHANGED <<channels, channel, subscriptions>>
    BY ConnectionAssumption DEF ServiceInv, IInv, FeedInv, AnswerFrame, registryVars
<1>2. /\ stage[C][f] \in {"granted", "refused"} /\ stage'[C][f] = "idle"
      /\ queue[C][f] # <<>> /\ Head(queue[C][f]).type \in {"subscribe", "publish"}
      /\ queue'[C][f] = Tail(queue[C][f]) /\ outbox'[C][f] = Append(outbox[C][f], reply)
      /\ \A g \in Feed \ {f} : /\ queue'[C][g] = queue[C][g] /\ stage'[C][g] = stage[C][g]
                               /\ outbox'[C][g] = outbox[C][g]
    <2>1. stage[C][f] \in {"granted", "refused"} /\ queue[C][f] # <<>>
        BY <1>1 DEF AnswerFrame, StageInv
    <2>2. Head(queue[C][f]) \in Frame
        BY <1>1, <2>1, QueueFacts DEF ConnectionsTyped
    <2>3. Head(queue[C][f]).type \in {"subscribe", "publish"}
        BY <1>1, <2>1, <2>2 DEF StageInv, Frame
    <2>4. /\ stage'[C][f] = "idle" /\ queue'[C][f] = Tail(queue[C][f])
          /\ \A g \in Feed \ {f} : queue'[C][g] = queue[C][g] /\ stage'[C][g] = stage[C][g]
        BY <1>1 DEF AnswerFrame, FrameDone, ToStage, ConnectionsTyped
    <2>5. outbox' = [outbox EXCEPT ![C][f] = Append(@, reply)]
        BY DEF AnswerFrame, IsOpen
    <2> HIDE DEF reply
    <2>6. /\ outbox'[C][f] = Append(outbox[C][f], reply)
          /\ \A g \in Feed \ {f} : outbox'[C][g] = outbox[C][g]
        BY <1>1, <2>5 DEF ConnectionsTyped
    <2> QED
        BY <2>1, <2>3, <2>4, <2>6
<1>3. \A g \in Feed \ {f} : FeedView(C, g)' = FeedView(C, g)
    BY <1>1, <1>2, ServedKept, OthersKept
<1>4. /\ answer = IF stage[C][f] = "refused" THEN "refused"
                  ELSE IF Head(queue[C][f]).type = "subscribe" THEN "subscribed" ELSE "published"
      /\ reply \in OutFrame
      /\ serverFrame(C, reply) = Server!Reply(IF answer = "refused" THEN "error" ELSE answer, "request")
    <2>1. answer = IF stage[C][f] = "refused" THEN "refused"
                   ELSE IF Head(queue[C][f]).type = "subscribe" THEN "subscribed" ELSE "published"
        BY <1>2 DEF Answer, Handling
    <2> HIDE DEF answer
    <2>2. reply.type = answer /\ reply \in OutFrame
        BY <2>1 DEF Reply, OutFrame
    <2>3. serverFrame(C, reply) = Server!Reply(IF answer = "refused" THEN "error" ELSE answer, "request")
        BY <2>1, <2>2 DEF serverFrame, Server!Reply
    <2> QED
        BY <2>1, <2>2, <2>3
<1> DEFINE told == serverFrame(C, reply)
<1> HIDE DEF answer, reply
<1>5. /\ upOf(C)'[f] = Tail(upOf(C)[f]) /\ downOf(C)'[f] = downOf(C)[f] \o <<told>>
      /\ upOf(C)[f] # <<>> /\ Head(upOf(C)[f]) = clientFrame(Head(queue[C][f]))
    BY <1>1, <1>2, <1>4, UpMoves, DownMoves
<1>6. handlingOf(C)'[f] = "idle"
    BY <1>1, <1>2 DEF handlingOf, Asked
<1>7. servingOf(C)'[f] = servingOf(C)[f]
    BY <1>1, ServedKept
<1>8. FeedView(C, f)' = <<Tail(upOf(C)[f]), downOf(C)[f] \o <<told>>, "idle", servingOf(C)[f]>>
    BY <1>5, <1>6, <1>7 DEF FeedView
<1>9. /\ upOf(C)' = [upOf(C) EXCEPT ![f] = Tail(upOf(C)[f])]
      /\ downOf(C)' = [downOf(C) EXCEPT ![f] = downOf(C)[f] \o <<told>>]
      /\ handlingOf(C)' = [handlingOf(C) EXCEPT ![f] = "idle"]
      /\ servingOf(C)' = [servingOf(C) EXCEPT ![f] = servingOf(C)[f]]
    BY <1>1, <1>3, <1>8, OneFeedMoves
<1>10. [servingOf(C) EXCEPT ![f] = servingOf(C)[f]] = servingOf(C)
    BY DEF servingOf
<1>11. Server!Finish(f, <<told>>)
    BY <1>9 DEF Server!Finish
<1>12. /\ Head(upOf(C)[f]).request = "request"
       /\ Head(upOf(C)[f]).type = Head(queue[C][f]).type
    BY <1>2, <1>5 DEF clientFrame
<1>13. CASE Head(queue[C][f]).type = "publish"
    <2>1. told = Server!Reply("published", "request") \/ told = Server!Reply("error", "request")
        BY <1>2, <1>4, <1>13
    <2>2. Server!FirstIs(f, "publish")
        BY <1>5, <1>12, <1>13 DEF Server!FirstIs
    <2> QED
        BY <1>9, <1>10, <1>11, <1>12, <2>1, <2>2 DEF Server!HandlePublish
<1>14. CASE Head(queue[C][f]).type = "subscribe" /\ stage[C][f] = "granted"
    <2>1. handlingOf(C)[f] = "registered"
        BY <1>1, <1>2, <1>14, HandlingOpen
    <2>2. told = Server!Reply("subscribed", "request")
        BY <1>4, <1>14
    <2> QED
        BY <1>9, <1>10, <1>11, <1>12, <2>1, <2>2 DEF Server!AckSubscribe
<1>15. CASE Head(queue[C][f]).type = "subscribe" /\ stage[C][f] = "refused"
    <2>1. handlingOf(C)[f] = "preparing"
        BY <1>1, <1>2, <1>15, HandlingOpen
    <2>2. told = Server!Reply("error", "request")
        BY <1>4, <1>15
    <2> QED
        BY <1>9, <1>10, <1>11, <1>12, <2>1, <2>2 DEF Server!RefuseSubscribe
<1> QED
    BY <1>2, <1>13, <1>14, <1>15

\* A registry call ends or goes on, and what it broadcasts reaches the client.
LEMMA CallSeen ==
    ASSUME TellsApart, ServiceInv, ServiceInv', IsOpen(Connection), IsOpen(Connection)',
           ~SupersededPublish, NEW d \in Subscriber, NEW f \in Feed, RegistryCall(d, f)
    PROVE  [Server!ServerNext]_(connectionView(Connection))
<1> DEFINE C == Connection
           joins == Join(d, f) \/ \E id \in ChannelId : Create(d, f, id)
           publishes == PublishNow(d, f) \/ PublishToHook(d, f) \/ HookPublishes(d, f)
           next == IF call'[d][f] = NoCall THEN "granted" ELSE "registry"
<1>1. /\ C \in Subscriber /\ ConnectionsTyped /\ StageInv(d, f) /\ PublishInv(d, f)
      /\ stage[d][f] = "registry" /\ BroadcastReaches /\ UNCHANGED <<caller, status, queue>>
      /\ \/ CallFails(d, f) /\ ToStage(d, f, "refused")
         \/ (joins \/ publishes) /\ ToStage(d, f, next)
    BY ConnectionAssumption DEF ServiceInv, IInv, FeedInv, RegistryCall, CallSucceeds
<1>2. \A e \in Subscriber, g \in Feed : ~(e = d /\ g = f) => stage'[e][g] = stage[e][g]
    BY <1>1 DEF ToStage, ConnectionsTyped
<1>3. queue[d][f] # <<>> /\ queue'[C] = queue[C] /\ caller'[C] = caller[C]
    BY <1>1 DEF StageInv
<1>4. CASE joins /\ ToStage(d, f, next) /\ d = C
    <2>1. Server!Register(f)
        BY <1>1, <1>4, RegisterSeen
    <2> QED
        BY <2>1 DEF Server!ServerNext, Server!ServerStep, Server!HandleFrame
<1>5. CASE joins /\ ToStage(d, f, next) /\ d # C
    <2>1. sent' = Silence
        BY <1>5 DEF Join, Create
    <2>2. outbox'[C] = outbox[C]
        BY <1>1, <2>1 DEF BroadcastReaches, Silence
    <2>3. stage'[C] = stage[C]
        BY <1>1, <1>5 DEF ToStage, ConnectionsTyped
    <2> QED
        BY <1>1, <1>3, <1>5, <2>2, <2>3, Unnoticed
<1>6. CASE \/ CallFails(d, f) /\ ToStage(d, f, "refused")
           \/ publishes /\ ToStage(d, f, next)
    <2>1. ASSUME NEW g \in Feed
          PROVE  handlingOf(C)'[g] = handlingOf(C)[g]
        <3>1. CASE ~(C = d /\ g = f)
            BY <1>1, <1>2, <1>3, <3>1, HandlingKept
        <3>2. CASE C = d /\ g = f /\ Head(queue[d][f]).type # "subscribe"
            BY <1>3, <3>2 DEF handlingOf, Asked, Handling
        <3>3. CASE C = d /\ g = f /\ Head(queue[d][f]).type = "subscribe"
            <4>1. call[d][f].op \notin {"publish", "onPublish"}
                BY <1>1, <3>3 DEF PublishInv
            <4>2. ~publishes
                BY <4>1 DEF PublishNow, PublishToHook, HookPublishes
            <4>3. stage'[d][f] = "refused"
                BY <1>1, <1>6, <4>2 DEF ToStage, ConnectionsTyped
            <4> QED
                BY <1>1, <1>3, <3>3, <4>3 DEF handlingOf, Asked, Handling
        <3> QED
            BY <3>1, <3>2, <3>3
    <2>2. \A g \in Feed : HeardBy(C, g)
        BY <1>1, <1>6, StepsHeard
    <2> QED
        BY <1>1, <2>1, <2>2, BroadcastSeen
<1> HIDE DEF joins, publishes, next
<1> QED
    BY <1>1, <1>4, <1>5, <1>6

LEMMA SourceSeen ==
    ASSUME ServiceInv, ServiceInv', IsOpen(Connection), IsOpen(Connection)',
           ~SupersededPublish, NEW id \in ChannelId, ChannelStep(id) \/ ChannelRestarts(id)
    PROVE  [Server!ServerNext]_(connectionView(Connection))
<1>1. /\ Connection \in Subscriber
      /\ SourceStep(id) \/ Restart(id)
      /\ UNCHANGED <<caller, status, queue, stage>>
    BY ConnectionAssumption DEF ChannelStep, ChannelRestarts, connectionVars
<1>2. \A g \in Feed : HeardBy(Connection, g)
    BY <1>1, StepsHeard
<1>3. \A g \in Feed : handlingOf(Connection)'[g] = handlingOf(Connection)[g]
    BY <1>1, HandlingKept
<1>4. BroadcastReaches
    <2>1. CASE ChannelStep(id)
        BY <2>1 DEF ChannelStep
    <2>2. CASE ChannelRestarts(id)
        <3>1. sent' = Silence /\ outbox' = outbox
            BY <2>2 DEF ChannelRestarts, Restart, connectionVars
        <3>2. outbox = [c \in Subscriber |-> outbox[c]]
            BY DEF ServiceInv, IInv, ConnectionsTyped
        <3> QED
            BY <3>1, <3>2 DEF BroadcastReaches, Silence
    <2> QED
        BY <2>1, <2>2
<1> QED
    BY <1>1, <1>2, <1>3, <1>4, BroadcastSeen

\* A connection closes, or has closed.
LEMMA CloseSeen ==
    ASSUME ServiceInv, ServiceInv', IsOpen(Connection), IsOpen(Connection)',
           NEW d \in Subscriber,
           \/ SocketCloses(d) \/ CloseFinishes(d) \/ CallerCheck(d)
           \/ \E f \in Feed : CheckCloses(d, f)
    PROVE  UNCHANGED connectionView(Connection)
<1>1. Connection \in Subscriber /\ ConnectionsTyped
    BY ConnectionAssumption DEF ServiceInv, IInv
<1>2. ASSUME NEW code, CloseWith(d, code)
      PROVE  d # Connection /\ outbox'[Connection] = outbox[Connection] /\ Leave(d, Feed)
    <2>1. d # Connection
        BY <1>1, <1>2 DEF CloseWith, IsOpen, ConnectionsTyped
    <2> QED
        BY <1>1, <1>2, <2>1 DEF CloseWith, ConnectionsTyped, UnsubscribeAll
<1>3. d # Connection /\ outbox'[Connection] = outbox[Connection] /\ Leave(d, Feed)
    <2>1. CASE CloseFinishes(d)
        BY <2>1 DEF CloseFinishes, IsOpen, UnsubscribeAll
    <2> QED
        BY <1>2, <2>1 DEF SocketCloses, CallerCheck, CheckCloses, CheckFails
<1>4. caller'[Connection] = caller[Connection]
    BY DEF SocketCloses, CloseFinishes, CallerCheck, CheckCloses
<1>5. queue'[Connection] = queue[Connection] /\ stage'[Connection] = stage[Connection]
    BY <1>1, <1>3 DEF SocketCloses, CloseFinishes, CallerCheck, CheckCloses, FrameDone, ToStage,
                      ConnectionsTyped
<1> QED
    BY <1>3, <1>4, <1>5, Unnoticed

\* Steps of the other connections, and of sessions
LEMMA OthersSeen ==
    ASSUME ServiceInv, ServiceInv', IsOpen(Connection), IsOpen(Connection)',
           NEW d \in Subscriber,
           \/ \E user \in Caller : SessionChanges(d, user)
           \/ Opens(d)
           \/ \E f \in Feed : StartSubscribe(d, f) \/ StartPublish(d, f) \/ DropFrame(d, f) \/ CheckAfterClose(d, f)
           \/ /\ d # Connection
              /\ \E f \in Feed : \/ \E frame \in Frame : Receive(d, f, frame)
                                 \/ Deliver(d, f) \/ CheckPasses(d, f)
                                 \/ HandleUnsubscribe(d, f) \/ AnswerFrame(d, f)
    PROVE  UNCHANGED connectionView(Connection)
<1> DEFINE C == Connection
<1>1. C \in Subscriber /\ ConnectionsTyped /\ ConnectionsTyped' /\ \A f \in Feed : StageInv(C, f)
    BY ConnectionAssumption DEF ServiceInv, IInv, FeedInv
<1>2. ASSUME NEW user \in Caller, SessionChanges(d, user)
      PROVE  UNCHANGED connectionView(C)
    BY <1>2, Unnoticed DEF SessionChanges, registryVars
<1>3. CASE Opens(d)
    <2>1. d # C
        BY <1>3 DEF Opens, IsOpen
    <2>2. caller'[C] = caller[C]
        BY <1>1, <1>3, <2>1 DEF Opens, ConnectionsTyped
    <2> QED
        BY <1>3, <2>2, Unnoticed DEF Opens, registryVars
<1>4. ASSUME NEW f \in Feed, StartSubscribe(d, f) \/ StartPublish(d, f)
      PROVE  UNCHANGED connectionView(C)
    <2>1. UNCHANGED <<channels, channel, subscriptions, caller, queue, outbox>>
        BY <1>4 DEF StartSubscribe, StartPublish, registryVars, PublishCall
    <2>2. ASSUME NEW g \in Feed
          PROVE  handlingOf(C)'[g] = handlingOf(C)[g]
        <3>1. CASE stage'[C][g] = stage[C][g]
            BY <1>1, <2>1, <3>1, HandlingKept
        <3>2. CASE stage'[C][g] # stage[C][g]
            <4>1. d = C /\ f = g
                BY <1>1, <1>4, <3>2 DEF StartSubscribe, StartPublish, ToStage, ConnectionsTyped
            <4>2. /\ stage[C][g] = "idle"
                  /\ stage'[C][g] = "checking" \/ Head(queue[C][g]).type = "publish"
                BY <1>1, <1>4, <4>1 DEF StartSubscribe, StartPublish, ToStage, Handling,
                                        ConnectionsTyped
            <4> QED
                BY <2>1, <4>2 DEF handlingOf, Asked, Handling
        <3> QED
            BY <3>1, <3>2
    <2>3. \A g \in Feed : /\ Served(C, g)' <=> Served(C, g)
                          /\ subscriptions'[C][g] = subscriptions[C][g]
        BY <2>1 DEF Served
    <2> QED
        BY <2>1, <2>2, <2>3, NothingSeen
<1>5. ASSUME NEW f \in Feed, DropFrame(d, f) \/ CheckAfterClose(d, f)
      PROVE  UNCHANGED connectionView(C)
    <2>1. d # C
        BY <1>5 DEF DropFrame, CheckAfterClose, IsOpen
    <2>2. queue'[C] = queue[C] /\ stage'[C] = stage[C]
        BY <1>1, <1>5, <2>1 DEF DropFrame, CheckAfterClose, FrameDone, ToStage, ConnectionsTyped
    <2>3. UNCHANGED <<channels, channel, subscriptions, caller, outbox>>
        BY <1>5 DEF DropFrame, CheckAfterClose, registryVars
    <2> QED
        BY <2>2, <2>3, Unnoticed
<1>6. ASSUME d # C, NEW f \in Feed,
             \/ \E frame \in Frame : Receive(d, f, frame)
             \/ Deliver(d, f) \/ AnswerFrame(d, f)
      PROVE  UNCHANGED connectionView(C)
    <2>1. queue'[C] = queue[C] /\ stage'[C] = stage[C] /\ outbox'[C] = outbox[C]
        <3>1. CASE \E frame \in Frame : Receive(d, f, frame)
            <4>1. UNCHANGED <<stage, outbox>> /\ queue'[C] = queue[C]
                BY <1>1, <1>6, <3>1 DEF Receive, ConnectionsTyped
            <4> QED
                BY <4>1
        <3>2. CASE Deliver(d, f)
            BY <1>1, <1>6, <3>2 DEF Deliver, ConnectionsTyped
        <3>3. CASE AnswerFrame(d, f)
            <4>1. queue'[C] = queue[C] /\ stage'[C] = stage[C]
                BY <1>1, <1>6, <3>3 DEF AnswerFrame, FrameDone, ToStage, ConnectionsTyped
            <4> DEFINE reply == Reply(Answer(d, f))
            <4>2. outbox' = outbox \/ outbox' = [outbox EXCEPT ![d][f] = Append(@, reply)]
                BY <3>3 DEF AnswerFrame
            <4> HIDE DEF reply
            <4>3. outbox'[C] = outbox[C]
                BY <1>1, <1>6, <4>2 DEF ConnectionsTyped
            <4> QED
                BY <4>1, <4>3
        <3> QED
            BY <1>6, <3>1, <3>2, <3>3
    <2>2. UNCHANGED <<channels, channel, subscriptions, caller>>
        BY <1>6 DEF Receive, Deliver, AnswerFrame, registryVars
    <2> QED
        BY <2>1, <2>2, Unnoticed
<1>7. ASSUME d # C, NEW f \in Feed, CheckPasses(d, f) \/ HandleUnsubscribe(d, f)
      PROVE  UNCHANGED connectionView(C)
    <2>1. queue'[C] = queue[C] /\ stage'[C] = stage[C]
        BY <1>1, <1>7 DEF CheckPasses, HandleUnsubscribe, FrameDone, ToStage, ConnectionsTyped
    <2>2. UNCHANGED <<caller, outbox>> /\ Leave(d, {f}) /\ {f} \in SUBSET Feed
        BY <1>7 DEF CheckPasses, HandleUnsubscribe, SubscribeCall, Unsubscribe
    <2> QED
        BY <1>7, <2>1, <2>2, Unnoticed
<1> QED
    BY <1>2, <1>3, <1>4, <1>5, <1>6, <1>7

\* Every step of the connections and the registry is a step of the FeedServer, or none.
LEMMA StepServes ==
    ASSUME TellsApart, ServiceInv, ServiceInv', [Next]_vars, ~SupersededPublish
    PROVE  [Server!ServerNext]_(connectionView(Connection))
<1>1. CASE ~IsOpen(Connection)'
    BY <1>1, ClosesForItsClient DEF Server!ServerNext
<1>2. CASE ~IsOpen(Connection) /\ IsOpen(Connection)'
    <2>1. ConnectionsTyped /\ Connection \in Subscriber /\ status[Connection] # "open" /\ status'[Connection] = "open"
        BY <1>2, ConnectionAssumption DEF ServiceInv, IInv, IsOpen
    <2>2. status' # status
        BY <2>1
    <2>3. ASSUME NEW d \in Subscriber, NEW f \in Feed,
                 \/ \E user \in Caller : SessionChanges(d, user)
                 \/ \E frame \in Frame : Receive(d, f, frame)
                 \/ Deliver(d, f) \/ DropFrame(d, f) \/ StartSubscribe(d, f) \/ CheckPasses(d, f)
                 \/ CheckAfterClose(d, f) \/ HandleUnsubscribe(d, f) \/ StartPublish(d, f)
                 \/ RegistryCall(d, f) \/ AnswerFrame(d, f)
          PROVE  FALSE
        BY <2>2, <2>3 DEF SessionChanges, Receive, Deliver, DropFrame, StartSubscribe, CheckPasses,
           CheckAfterClose, HandleUnsubscribe, StartPublish, RegistryCall, AnswerFrame
    <2>4. ASSUME NEW d \in Subscriber, NEW user \in Caller, SessionChanges(d, user)
          PROVE  FALSE
        BY <2>2, <2>4 DEF SessionChanges
    <2>5. ASSUME NEW id \in ChannelId, ChannelStep(id) \/ ChannelRestarts(id)
          PROVE  FALSE
        BY <2>2, <2>5 DEF ChannelStep, ChannelRestarts, connectionVars
    <2>6. ASSUME NEW d \in Subscriber, NEW code, CloseWith(d, code)
          PROVE  FALSE
        BY <2>1, <2>6 DEF CloseWith, ConnectionsTyped
    <2>8. ASSUME NEW d \in Subscriber, CheckFails(d) \/ SocketCloses(d) \/ CallerCheck(d) \/ CloseFinishes(d)
          PROVE  FALSE
        <3>1. ~SocketCloses(d) /\ ~CheckFails(d)
            BY <2>6 DEF SocketCloses, CheckFails
        <3>2. ~CloseFinishes(d)
            BY <2>1 DEF CloseFinishes, ConnectionsTyped
        <3> QED
            BY <2>8, <3>1, <3>2 DEF CallerCheck
    <2>9. ~UNCHANGED vars
        BY <2>2 DEF vars, connectionVars
    <2>10. PICK d \in Subscriber : Opens(d)
        BY <2>3, <2>4, <2>5, <2>8, <2>9 DEF Next, FrameStep, CheckCloses
    <2>7. Opens(Connection)
        BY <2>1, <2>10 DEF Opens, ConnectionsTyped
    <2> QED
        BY <2>7, OpensForItsClient
<1>3. CASE IsOpen(Connection) /\ IsOpen(Connection)'
    <2>1. CASE UNCHANGED vars
        BY <1>3, <2>1, Unnoticed DEF vars, registryVars, connectionVars
    <2>2. ASSUME NEW id \in ChannelId, ChannelStep(id) \/ ChannelRestarts(id)
          PROVE  [Server!ServerNext]_(connectionView(Connection))
        BY <1>3, <2>2, SourceSeen
    <2>3. ASSUME NEW d \in Subscriber, NEW f \in Feed, RegistryCall(d, f)
          PROVE  [Server!ServerNext]_(connectionView(Connection))
        BY <1>3, <2>3, CallSeen
    <2>4. ASSUME NEW f \in Feed,
                 \/ \E frame \in Frame : Receive(Connection, f, frame)
                 \/ Deliver(Connection, f)
          PROVE  Server!ServerNext
        BY <1>3, <2>4, ReceiveSeen, DeliverSeen DEF Server!ServerNext
    <2>5. ASSUME NEW f \in Feed,
                 \/ CheckPasses(Connection, f) \/ HandleUnsubscribe(Connection, f)
                 \/ AnswerFrame(Connection, f)
          PROVE  Server!ServerNext
        <3>1. Server!HandleFrame(f)
            BY <1>3, <2>5, CheckPassesSeen, UnsubscribeSeen, AnswerSeen DEF Server!HandleFrame
        <3> QED
            BY <3>1 DEF Server!ServerNext, Server!ServerStep
    <2>6. ASSUME NEW d \in Subscriber,
                 \/ SocketCloses(d) \/ CloseFinishes(d) \/ CallerCheck(d)
                 \/ \E f \in Feed : CheckCloses(d, f)
          PROVE  UNCHANGED connectionView(Connection)
        BY <1>3, <2>6, CloseSeen
    <2>7. ASSUME NEW d \in Subscriber,
                 \/ \E user \in Caller : SessionChanges(d, user)
                 \/ Opens(d)
                 \/ \E f \in Feed : StartSubscribe(d, f) \/ StartPublish(d, f) \/ DropFrame(d, f) \/ CheckAfterClose(d, f)
                 \/ /\ d # Connection
                    /\ \E f \in Feed : \/ \E frame \in Frame : Receive(d, f, frame)
                                       \/ Deliver(d, f) \/ CheckPasses(d, f)
                                       \/ HandleUnsubscribe(d, f) \/ AnswerFrame(d, f)
          PROVE  UNCHANGED connectionView(Connection)
        BY <1>3, <2>7, OthersSeen
    <2> QED
        BY <2>1, <2>2, <2>3, <2>4, <2>5, <2>6, <2>7 DEF Next, FrameStep
<1> QED
    BY <1>1, <1>2, <1>3

LEMMA InitServes == Init => Server!ServerInit
<1> SUFFICES ASSUME Init PROVE Server!ServerInit
    OBVIOUS
<1>1. \A f \in Feed : FeedView(Connection, f) = <<<<>>, <<>>, "idle", NoPayload>>
    BY BlankView, ConnectionAssumption DEF Init, IsOpen
<1>2. /\ \A f \in Feed : upOf(Connection)[f] = <<>> /\ downOf(Connection)[f] = <<>>
      /\ \A f \in Feed : handlingOf(Connection)[f] = "idle" /\ servingOf(Connection)[f] = NoPayload
    BY <1>1 DEF FeedView
<1>3. upOf(Connection) = [f \in Feed |-> <<>>]
    BY <1>2 DEF upOf
<1>4. downOf(Connection) = [f \in Feed |-> <<>>]
    BY <1>2 DEF downOf
<1>5. handlingOf(Connection) = [f \in Feed |-> "idle"]
    BY <1>2 DEF handlingOf
<1>6. servingOf(Connection) = [f \in Feed |-> NoPayload]
    BY <1>2 DEF servingOf
<1> QED
    BY <1>3, <1>4, <1>5, <1>6 DEF Server!ServerInit

\* Every connection is to its client the FeedServer that the tab's model is composed with,
\* but for the publish of a hook whose source's run is over: evaluations that tell a caller's
\* payloads apart, so that a key names what it serves.
THEOREM ConnectionServesAsPromised ==
    ASSUME TellsApart
    PROVE  Spec => ServesAsPromised
<1> DEFINE Serves == ~SupersededPublish => [Server!ServerNext]_(connectionView(Connection))
<1>1. ServiceInv /\ ServiceInv' /\ [Next]_vars => [Serves]_vars
    BY StepServes
<1>2. Init => Server!ServerInit /\ ServiceInv
    BY InitServes, InitService
<1> HIDE DEF Serves
<1>3. Spec => Server!ServerInit /\ [][Serves]_vars
    BY <1>1, <1>2, NextService, PTL DEF Spec
<1> QED
    BY <1>3 DEF ServesAsPromised, Serves

=============================================================================
