---------------------------- MODULE PageFeedsProofs ----------------------------
(* The feeds of pages: who the client tells about a feed holds it for open, who holds  *)
(* one for open is told or was overtaken by another page, and a connected page hears   *)
(* only what its current payload's channel sent, for any contexts, screens, feeds and  *)
(* payloads and any number of frames in flight.                                        *)
EXTENDS PageFeeds, TLAPS

\* The client is proved by itself; its theorems are taken over as they stand.
Proved == INSTANCE WebSocketClientProofs
            WITH Handlers <- Context, PubId <- {}, Ages <- {}, MaxAttempt <- 0, quickReconnects <- 0

-----------------------------------------------------------------------------
(* The client's steps are those of the client that is proved.                          *)

LEMMA ClientsAssumption == Proved!ClientAssumption
<1>1. Proved!IsFiniteSet({})
    BY Proved!FS_EmptySet
<1> QED
    BY <1>1, PageFeedsAssumption DEF Proved!ClientAssumption

LEMMA ClientInit == Client!Init => Proved!Init
    BY DEF Client!Init, Proved!Init, Client!Server!ServerInit, Proved!Server!ServerInit,
           Client!Forgotten, Proved!Forgotten, Client!NoPublish, Proved!NoPublish

LEMMA SubscribeIsProved ==
    ASSUME NEW h \in Context, NEW f \in Feed, NEW p \in Payload, Client!Subscribe(h, f, p)
    PROVE  Proved!Next
<1>1. Proved!Subscribe(h, f, p)
    BY DEF Client!Subscribe, Proved!Subscribe, Client!FreeSub, Proved!FreeSub, Client!Forgotten,
           Proved!Forgotten, Client!CanSend, Proved!CanSend, Client!UsedRequests,
           Proved!UsedRequests, Client!Range, Proved!Range, Client!Mapped, Proved!Mapped,
           Client!Released, Proved!Released, Client!releaseSubscription,
           Proved!releaseSubscription, Client!New, Proved!New, Client!Fresh, Proved!Fresh,
           Client!Server!SendOn, Proved!Server!SendOn, Client!Server!SubscribeFrame,
           Proved!Server!SubscribeFrame, Client!backoffVars, Proved!backoffVars
<1> QED
    BY <1>1 DEF Proved!Next, Proved!CallerStep

LEMMA UnsubscribeIsProved ==
    ASSUME NEW f \in Feed, Client!Unsubscribe(f)
    PROVE  Proved!Next
<1>1. Proved!Unsubscribe(f)
    BY DEF Client!Unsubscribe, Proved!Unsubscribe, Client!releaseSubscription,
           Proved!releaseSubscription, Client!Forgotten, Proved!Forgotten, Client!SendIfOpen,
           Proved!SendIfOpen, Client!Server!SendOn, Proved!Server!SendOn,
           Client!Server!UnsubscribeFrame, Proved!Server!UnsubscribeFrame,
           Client!scheduleIdleClose, Proved!scheduleIdleClose, Client!isIdle, Proved!isIdle,
           Client!backoffVars, Proved!backoffVars
<1> QED
    BY <1>1 DEF Proved!Next, Proved!CallerStep

LEMMA TimerStepIsProved ==
    ASSUME Client!TimerStep
    PROVE  Proved!Next
<1>1. ASSUME NEW id \in SubId, NEW armed \in {1, 2}, Client!AckTimeout(id, armed)
      PROVE  Proved!AckTimeout(id, armed)
    BY <1>1 DEF Client!AckTimeout, Proved!AckTimeout, Client!Forgotten, Proved!Forgotten,
           Client!giveUp, Proved!giveUp, Client!SendIfOpen, Proved!SendIfOpen,
           Client!Server!SendOn, Proved!Server!SendOn, Client!Server!UnsubscribeFrame,
           Proved!Server!UnsubscribeFrame, Client!scheduleIdleClose, Proved!scheduleIdleClose,
           Client!isIdle, Proved!isIdle, Client!Tell, Proved!Tell, Client!backoffVars,
           Proved!backoffVars
<1>2. Client!IdleTimeout => Proved!IdleTimeout
    BY DEF Client!IdleTimeout, Proved!IdleTimeout, Client!isIdle, Proved!isIdle,
           Client!Server!Disconnect, Proved!Server!Disconnect, Client!serverVars,
           Proved!serverVars
<1>3. Client!Reconnect => Proved!Reconnect
    BY DEF Client!Reconnect, Proved!Reconnect, Client!connect, Proved!connect, Client!serverVars,
           Proved!serverVars
<1>4. ~Client!Ageing
    BY DEF Client!Ageing
<1> QED
    BY <1>1, <1>2, <1>3, <1>4 DEF Client!TimerStep, Proved!TimerStep, Proved!Next

LEMMA NetworkStepIsProved ==
    ASSUME Client!NetworkStep
    PROVE  Proved!Next
<1>1. Client!Opens => Proved!Opens
    BY DEF Client!Opens, Proved!Opens, Client!resubscribeAll, Proved!resubscribeAll,
           Client!Mapped, Proved!Mapped, Client!Fresh, Proved!Fresh, Client!UsedRequests,
           Proved!UsedRequests, Client!Range, Proved!Range, Client!Armed, Proved!Armed,
           Client!Server!Send, Proved!Server!Send, Client!OpeningFrames, Proved!OpeningFrames,
           Client!Server!SubscribeFrame, Proved!Server!SubscribeFrame, Client!Unsent,
           Proved!Unsent, Client!Server!PublishFrame, Proved!Server!PublishFrame, Client!SetToSeq,
           Proved!SetToSeq, Client!IsInjective, Proved!IsInjective, Client!Cardinality, Proved!Cardinality, Client!scheduleIdleClose,
           Proved!scheduleIdleClose, Client!isIdle, Proved!isIdle
<1>2. ASSUME NEW code, Client!handleClose(code)
      PROVE  Proved!handleClose(code)
    BY <1>2 DEF Client!handleClose, Proved!handleClose, Client!resubscribeTimersCleared,
           Proved!resubscribeTimersCleared, Client!Mapped, Proved!Mapped, Client!Tell,
           Proved!Tell, Client!Server!Disconnect, Proved!Server!Disconnect,
           Client!NeedsConnection, Proved!NeedsConnection, Client!HasUnsentPublishes,
           Proved!HasUnsentPublishes, Client!Backoff, Proved!Backoff, Client!repeated,
           Proved!repeated
<1>3. Client!ConnectFails => Proved!ConnectFails
    BY <1>2 DEF Client!ConnectFails, Proved!ConnectFails
<1>4. Client!Closing => Proved!Closing
    BY DEF Client!Closing, Proved!Closing, Client!Server!Disconnect, Proved!Server!Disconnect,
           Client!backoffVars, Proved!backoffVars
<1>5. ASSUME NEW code, Client!Closed(code)
      PROVE  Proved!Closed(code)
    BY <1>2, <1>5 DEF Client!Closed, Proved!Closed
<1>6. ASSUME NEW f \in Feed, Client!Receive(f)
      PROVE  Proved!Receive(f)
    BY <1>6 DEF Client!Receive, Proved!Receive, Client!ReceiveMessage, Proved!ReceiveMessage,
           Client!ReceiveSubscribed, Proved!ReceiveSubscribed, Client!ReceivePublished,
           Proved!ReceivePublished, Client!ReceiveBroadcastError, Proved!ReceiveBroadcastError,
           Client!ReceiveRefusal, Proved!ReceiveRefusal, Client!Arrives, Proved!Arrives,
           Client!Consume, Proved!Consume, Client!answersSubscription, Proved!answersSubscription,
           Client!settlePublish, Proved!settlePublish, Client!NoPublish, Proved!NoPublish,
           Client!Forgotten, Proved!Forgotten, Client!scheduleIdleClose, Proved!scheduleIdleClose,
           Client!isIdle, Proved!isIdle, Client!Tell, Proved!Tell, Client!backoffVars,
           Proved!backoffVars
<1> QED
    BY <1>1, <1>3, <1>4, <1>5, <1>6 DEF Client!NetworkStep, Proved!NetworkStep, Proved!Next

LEMMA ServerStepIsProved ==
    ASSUME Client!ServerStep
    PROVE  Proved!Next
<1>1. ASSUME NEW f \in Feed, Client!Server!HandleFrame(f)
      PROVE  Proved!Server!HandleFrame(f)
    BY <1>1 DEF Client!Server!HandleFrame, Proved!Server!HandleFrame, Client!Server!BeginSubscribe,
           Proved!Server!BeginSubscribe, Client!Server!RefuseSubscribe,
           Proved!Server!RefuseSubscribe, Client!Server!Register, Proved!Server!Register,
           Client!Server!AckSubscribe, Proved!Server!AckSubscribe,
           Client!Server!HandleUnsubscribe, Proved!Server!HandleUnsubscribe,
           Client!Server!HandlePublish, Proved!Server!HandlePublish, Client!Server!FirstIs,
           Proved!Server!FirstIs, Client!Server!Finish, Proved!Server!Finish, Client!Server!Reply,
           Proved!Server!Reply
<1>2. ASSUME NEW f \in Feed,
             Client!Server!SourceMessage(f) \/ Client!Server!SourceError(f) \/ Client!Server!SourceGivesUp(f)
      PROVE  Proved!Server!SourceMessage(f) \/ Proved!Server!SourceError(f) \/ Proved!Server!SourceGivesUp(f)
    BY <1>2 DEF Client!Server!SourceMessage, Proved!Server!SourceMessage, Client!Server!SourceError,
           Proved!Server!SourceError, Client!Server!SourceGivesUp, Proved!Server!SourceGivesUp,
           Client!Server!Message, Proved!Server!Message, Client!Server!Reply, Proved!Server!Reply
<1>3. Proved!Server!ServerStep
    BY <1>1, <1>2 DEF Client!ServerStep, Client!Server!ServerStep, Proved!Server!ServerStep
<1>4. Proved!ServerStep
    BY <1>3 DEF Client!ServerStep, Proved!ServerStep, Client!backoffVars, Proved!backoffVars
<1> QED
    BY <1>4 DEF Proved!Next

-----------------------------------------------------------------------------
(* One feed of an open connection, as the page that holds it sees it: u and d are its  *)
(* frames on their way up and down, r and p the request and payload of its             *)
(* subscription.                                                                       *)

\* Nothing is asked any more, and every message on its way is of the payload.
OnlyOwn(u, d, p) ==
    Proved!NoAsks(u) /\ \A j \in DOMAIN d : d[j].type = "message" => d[j].payload = p

\* A subscribe is answered once.
RepliesDiffer(d) ==
    \A i, j \in DOMAIN d : d[i].request \in SubRequest /\ d[i].request = d[j].request => i = j

\* The answer to what was asked last is behind every message of a payload before.
Answered(u, d, r, p) == Proved!NoAsks(u) =>
    \A j \in DOMAIN d : d[j].type = "message" /\ d[j].payload # p =>
        \E i \in DOMAIN d : j < i /\ d[i].request = r

AskedFor(r, p) == [request |-> r, payload |-> p]
FeedIs(u, d, h, s, r, p) ==
    /\ u \in Seq(Proved!UpFrame) /\ d \in Seq(Proved!DownFrame)
    /\ r \in SubRequest /\ p \in Payload
    /\ Proved!FeedOK(u, d, h, s, AskedFor(r, p))

\* The server has handled the first frame, a subscribe, and replies to it.
LEMMA ReplyDiffers ==
    ASSUME NEW u \in Seq(Proved!UpFrame), NEW d \in Seq(Proved!DownFrame), NEW reply \in Proved!DownFrame,
           Proved!RequestsDiffer(u, d), u # <<>>, Head(u).type = "subscribe",
           reply.request = Head(u).request, RepliesDiffer(d)
    PROVE  RepliesDiffer(Append(d, reply))
<1> DEFINE e == Append(d, reply)
           n == Len(d)
<1>1. /\ DOMAIN d = 1..n /\ n \in Nat /\ DOMAIN e = 1..n + 1
      /\ e[n + 1] = reply /\ \A i \in 1..n : e[i] = d[i]
    BY ClientsAssumption, Proved!AppendedFacts
<1>2. 1 \in DOMAIN u /\ u[1] = Head(u)
    BY ClientsAssumption, Proved!PoppedFacts
<1>3. \A j \in DOMAIN d : d[j].request # reply.request
    BY <1>2 DEF Proved!RequestsDiffer
<1> HIDE DEF e, n
<1>4. \A i \in 1..n + 1 : i \in 1..n \/ i = n + 1
    BY <1>1
<1>5. RepliesDiffer(e)
    BY <1>1, <1>3, <1>4 DEF RepliesDiffer
<1> QED
    BY <1>5 DEF e

LEMMA ReplyAnswers ==
    ASSUME NEW u, NEW d, NEW h, NEW s, NEW r, NEW p, NEW reply \in Proved!DownFrame,
           FeedIs(u, d, h, s, r, p), u # <<>>, Head(u).type = "subscribe",
           reply.request = Head(u).request
    PROVE  Answered(Tail(u), Append(d, reply), r, p)
<1> DEFINE e == Append(d, reply)
           n == Len(d)
<1>1. u \in Seq(Proved!UpFrame) /\ d \in Seq(Proved!DownFrame) /\ Proved!AsksAgree(u, AskedFor(r, p))
    BY DEF FeedIs, Proved!FeedOK
<1>2. DOMAIN e = 1..n + 1 /\ n \in Nat /\ e[n + 1] = reply
    BY <1>1, ClientsAssumption, Proved!AppendedFacts
<1> HIDE DEF e, n
<1>3. \A j \in 1..n + 1 : j # n + 1 => j < n + 1 /\ n + 1 \in 1..n + 1
    BY <1>2
<1> SUFFICES ASSUME Proved!NoAsks(Tail(u)), NEW j \in DOMAIN e, e[j].type = "message", e[j].payload # p
             PROVE  \E i \in DOMAIN e : j < i /\ e[i].request = r
    BY DEF Answered, e
<1>4. Head(u).request = r
    BY <1>1, ClientsAssumption, Proved!TailAsks DEF AskedFor, Proved!IsAsk
<1>5. reply.type # "message"
    <2>1. reply.request \in SubRequest
        BY <1>4 DEF FeedIs
    <2> QED
        BY <2>1, PageFeedsAssumption DEF Proved!DownFrame
<1> QED
    BY <1>2, <1>3, <1>4, <1>5

\* The server has handled an unsubscribe, which the client did not send last.
LEMMA UnsubscribeHandled ==
    ASSUME NEW u, NEW d, NEW h, NEW s, NEW r, NEW p,
           FeedIs(u, d, h, s, r, p), u # <<>>, Head(u).type = "unsubscribe"
    PROVE  Answered(Tail(u), d, r, p)
<1>1. u \in Seq(Proved!UpFrame) /\ Proved!AsksAgree(u, AskedFor(r, p)) /\ Head(u) \in Proved!UpFrame /\ r \in SubRequest
    BY ClientsAssumption, Proved!PoppedFacts DEF FeedIs, Proved!FeedOK
<1>2. Head(u).request = NoRequest
    BY <1>1 DEF Proved!UpFrame
<1>3. Proved!NoAsks(Tail(u)) => Head(u).request = r
    BY <1>1, ClientsAssumption, Proved!TailAsks DEF AskedFor, Proved!IsAsk
<1> QED
    BY <1>1, <1>2, <1>3, PageFeedsAssumption DEF Answered

\* The channel's source is heard, or an error of it.
LEMMA SourceSent ==
    ASSUME NEW u, NEW d \in Seq(Proved!DownFrame), NEW r, NEW p, NEW frame \in Proved!DownFrame,
           frame.request = NoRequest,
           Proved!NoAsks(u) /\ frame.type = "message" => frame.payload = p
    PROVE  /\ RepliesDiffer(d) => RepliesDiffer(Append(d, frame))
           /\ Answered(u, d, r, p) => Answered(u, Append(d, frame), r, p)
           /\ OnlyOwn(u, d, p) => OnlyOwn(u, Append(d, frame), p)
<1> DEFINE e == Append(d, frame)
           n == Len(d)
<1>1. /\ DOMAIN d = 1..n /\ n \in Nat /\ DOMAIN e = 1..n + 1
      /\ e[n + 1] = frame /\ \A i \in 1..n : e[i] = d[i]
    BY ClientsAssumption, Proved!AppendedFacts
<1> HIDE DEF e, n
<1>2. \A i \in 1..n + 1 : (i \in 1..n /\ e[i] = d[i]) \/ (i = n + 1 /\ e[i] = frame)
    BY <1>1
<1>3. \A i \in 1..n : i \in 1..n + 1
    BY <1>1
<1>4. RepliesDiffer(d) => RepliesDiffer(e)
    <2>1. frame.request \notin SubRequest
        BY PageFeedsAssumption
    <2> QED
        BY <1>1, <1>2, <2>1 DEF RepliesDiffer
<1>5. Answered(u, d, r, p) => Answered(u, e, r, p)
    BY <1>1, <1>2, <1>3 DEF Answered
<1>6. OnlyOwn(u, d, p) => OnlyOwn(u, e, p)
    BY <1>1, <1>2 DEF OnlyOwn
<1> QED
    BY <1>4, <1>5, <1>6 DEF e

\* The client has taken the first frame on its way down.
LEMMA TakenDiffers ==
    ASSUME NEW d \in Seq(Proved!DownFrame), d # <<>>, RepliesDiffer(d)
    PROVE  RepliesDiffer(Tail(d))
<1> DEFINE e == Tail(d)
           n == Len(d)
<1>1. /\ n \in Nat \ {0} /\ DOMAIN d = 1..n /\ DOMAIN e = 1..n - 1
      /\ \A i \in 1..n - 1 : i + 1 \in 1..n /\ e[i] = d[i + 1]
    BY ClientsAssumption, Proved!PoppedFacts
<1> HIDE DEF e, n
<1>2. \A i, j \in 1..n - 1 : i + 1 = j + 1 => i = j
    BY <1>1
<1> SUFFICES ASSUME NEW i \in 1..n - 1, NEW j \in 1..n - 1,
                    e[i].request \in SubRequest, e[i].request = e[j].request
             PROVE  i = j
    BY <1>1 DEF RepliesDiffer, e
<1>3. i + 1 \in DOMAIN d /\ j + 1 \in DOMAIN d /\ e[i] = d[i + 1] /\ e[j] = d[j + 1]
    BY <1>1
<1>4. i + 1 = j + 1
    BY <1>3 DEF RepliesDiffer
<1> QED
    BY <1>2, <1>4

LEMMA FrameTaken ==
    ASSUME NEW u, NEW d, NEW h, NEW s, NEW r, NEW p,
           FeedIs(u, d, h, s, r, p), d # <<>>, RepliesDiffer(d), Answered(u, d, r, p)
    PROVE  /\ Answered(u, Tail(d), r, p)
           /\ Head(d).request = r => OnlyOwn(u, Tail(d), p)
           /\ OnlyOwn(u, d, p) => OnlyOwn(u, Tail(d), p)
<1> DEFINE e == Tail(d)
           n == Len(d)
<1>1. /\ u \in Seq(Proved!UpFrame) /\ d \in Seq(Proved!DownFrame) /\ r \in SubRequest
      /\ Proved!RequestsDiffer(u, d) /\ Proved!AsksAgree(u, AskedFor(r, p))
    BY DEF FeedIs, Proved!FeedOK
<1>2. /\ Head(d) = d[1] /\ n \in Nat \ {0} /\ DOMAIN d = 1..n /\ DOMAIN e = 1..n - 1
      /\ \A i \in 1..n - 1 : i + 1 \in 1..n /\ e[i] = d[i + 1]
    BY <1>1, ClientsAssumption, Proved!PoppedFacts
<1> HIDE DEF e, n
<1>3. /\ \A i \in 1..n - 1 : i + 1 # 1
      /\ \A i \in 1..n, j \in 1..n - 1 : j + 1 < i => i - 1 \in 1..n - 1 /\ j < i - 1 /\ (i - 1) + 1 = i
      /\ 1 \in 1..n
    BY <1>2
<1>5. ASSUME Proved!NoAsks(u), NEW j \in 1..n - 1, e[j].type = "message", e[j].payload # p
      PROVE  \E i \in 1..n - 1 : j < i /\ e[i].request = r
    <2>1. PICK i \in 1..n : j + 1 < i /\ d[i].request = r
        BY <1>2, <1>5 DEF Answered
    <2>2. i - 1 \in 1..n - 1 /\ j < i - 1 /\ e[i - 1] = d[i]
        BY <1>2, <1>3, <2>1
    <2> QED
        BY <2>1, <2>2
<1>6. Answered(u, e, r, p)
    BY <1>2, <1>5 DEF Answered
<1>7. OnlyOwn(u, d, p) => OnlyOwn(u, e, p)
    BY <1>2 DEF OnlyOwn
<1>8. ASSUME Head(d).request = r PROVE OnlyOwn(u, e, p)
    <2>1. Proved!NoAsks(u)
        <3> SUFFICES ASSUME NEW k \in DOMAIN u, Proved!LastAsk(u, k), u[k].request = r PROVE FALSE
            BY <1>1 DEF Proved!AsksAgree, AskedFor
        <3>1. u[k] \in Proved!UpFrame /\ Proved!IsAsk(u[k])
            BY <1>1 DEF Proved!LastAsk
        <3>2. u[k].type = "subscribe"
            BY <1>1, <3>1, PageFeedsAssumption DEF Proved!UpFrame, Proved!IsAsk
        <3> QED
            BY <1>1, <1>2, <1>3, <1>8, <3>2 DEF Proved!RequestsDiffer
    <2>2. ASSUME NEW j \in 1..n - 1, e[j].type = "message", e[j].payload # p PROVE FALSE
        <3>1. PICK i \in 1..n - 1 : j < i /\ e[i].request = r
            BY <1>5, <2>1, <2>2
        <3>2. i + 1 \in DOMAIN d /\ 1 \in DOMAIN d /\ d[i + 1].request = d[1].request
            BY <1>2, <1>3, <1>8, <3>1
        <3>3. i + 1 = 1
            BY <1>1, <1>2, <1>8, <3>2 DEF RepliesDiffer
        <3> QED
            BY <1>3, <3>3
    <2> QED
        BY <1>2, <2>1, <2>2 DEF OnlyOwn
<1> QED
    BY <1>6, <1>7, <1>8 DEF e

\* A subscribe or unsubscribe on its way will be answered behind all messages.
LEMMA AskSent ==
    ASSUME NEW u \in Seq(Proved!UpFrame), NEW d, NEW r, NEW p, NEW frame \in Proved!UpFrame, frame.type # "publish"
    PROVE  Answered(Append(u, frame), d, r, p)
    BY ClientsAssumption, Proved!AppendAsks DEF Answered, Proved!IsAsk

-----------------------------------------------------------------------------
(* The invariant of the pages                                                          *)

PagesTyped ==
    /\ shown \in [Screen -> Context \cup {NoSub}]
    /\ active \subseteq Context /\ replacing \subseteq Context
    /\ payload \in [Context -> Payload \cup {NoPayload}]
    /\ state \in [Context -> ChannelState]
    /\ buffer \in [Context -> SUBSET Payload]
    /\ flushTimer \in [Context -> BOOLEAN]

\* A feed's subscription is of a page that shows it, with the payload it evaluated last.
Holds(f) == subscriptions[f] # NoSub =>
    /\ subscription[subscriptions[f]].handlers \in active
    /\ FeedShown[subscription[subscriptions[f]].handlers] = f
    /\ subscription[subscriptions[f]].payload = payload[subscription[subscriptions[f]].handlers]

\* Nothing of an earlier payload can come after the answer to the last subscribe.
Answers(f) == conn = "open" =>
    /\ RepliesDiffer(down[f])
    /\ subscriptions[f] # NoSub =>
          Answered(up[f], down[f], subscription[subscriptions[f]].request,
                                   subscription[subscriptions[f]].payload)

\* A connected page has a feed that was answered, and only its own messages to come;
\* a page whose feed another took over stays connected, but hears nothing.
HearsItsOwn(x) == state[x].connected =>
    /\ x \in active
    /\ HasClient(x) =>
          /\ conn \in {"open", "closing"}
          /\ ~subscription[EntryOf(x)].pending
          /\ conn = "open" => OnlyOwn(up[FeedShown[x]], down[FeedShown[x]], payload[x])

Held(x) == x \in active => HasClient(x)

FeedInv(f) ==
    Holds(f) /\ Answers(f) /\ \A x \in Context : FeedShown[x] = f => HearsItsOwn(x)

FeedsInv == PagesTyped /\ \A f \in Feed : FeedInv(f)

LEMMA ContextFacts ==
    \A x \in Context : FeedShown[x] \in Feed
    BY PageFeedsAssumption

\* What the client's invariant says of a feed that is subscribed to.
LEMMA EntryFacts ==
    ASSUME Proved!IInv, NEW f \in Feed, subscriptions[f] # NoSub
    PROVE  /\ subscriptions[f] \in SubId
           /\ subscription[subscriptions[f]].feed = f
           /\ subscription[subscriptions[f]].payload \in Payload
           /\ subscription[subscriptions[f]].handlers \in Context
           /\ \A g \in Feed : subscriptions[g] = subscriptions[f] => g = f
<1>1. Proved!ClientTyped /\ \A g \in Feed : Proved!EntryInv(g)
    BY DEF Proved!IInv, Proved!SubsInv
<1>2. subscriptions[f] \in SubId
    BY <1>1 DEF Proved!ClientTyped
<1>3. /\ subscription[subscriptions[f]].feed = f
      /\ subscription[subscriptions[f]].payload \in Payload
      /\ subscription[subscriptions[f]].handlers \in Context
    BY <1>1 DEF Proved!EntryInv
<1>4. \A g \in Feed : subscriptions[g] = subscriptions[f] => g = f
    BY <1>1, <1>3 DEF Proved!EntryInv
<1> QED
    BY <1>2, <1>3, <1>4

LEMMA FrameFacts ==
    ASSUME Proved!IInv, NEW f \in Feed
    PROVE  /\ up[f] \in Seq(Proved!UpFrame) /\ down[f] \in Seq(Proved!DownFrame)
           /\ conn # "open" => up[f] = <<>> /\ down[f] = <<>>
           /\ conn = "open" => /\ Proved!RequestsDiffer(up[f], down[f])
                               /\ handling[f] # "idle" => up[f] # <<>> /\ Head(up[f]).type = "subscribe"
           /\ conn = "open" /\ subscriptions[f] # NoSub =>
                 FeedIs(up[f], down[f], handling[f], serving[f],
                        subscription[subscriptions[f]].request,
                        subscription[subscriptions[f]].payload)
<1>1. up[f] \in Seq(Proved!UpFrame) /\ down[f] \in Seq(Proved!DownFrame)
    BY DEF Proved!IInv, Proved!FeedsTyped
<1>2. conn # "open" => up[f] = <<>> /\ down[f] = <<>>
    BY DEF Proved!IInv, Proved!ConnInv
<1>3. conn = "open" => Proved!FeedOK(up[f], down[f], handling[f], serving[f], Proved!Asked(f))
    BY DEF Proved!IInv, Proved!FeedInv
<1>4. conn = "open" => /\ Proved!RequestsDiffer(up[f], down[f])
                       /\ handling[f] # "idle" => up[f] # <<>> /\ Head(up[f]).type = "subscribe"
    BY <1>3 DEF Proved!FeedOK, Proved!HandlesTheFirst
<1>5. conn = "open" /\ subscriptions[f] # NoSub =>
          /\ Proved!Asked(f) = AskedFor(subscription[subscriptions[f]].request,
                                        subscription[subscriptions[f]].payload)
          /\ subscription[subscriptions[f]].request \in SubRequest
          /\ subscription[subscriptions[f]].payload \in Payload
    BY DEF Proved!IInv, Proved!SubsInv, Proved!EntryInv, Proved!Asked, AskedFor
<1> QED
    BY <1>1, <1>2, <1>3, <1>4, <1>5 DEF FeedIs

-----------------------------------------------------------------------------
(* What a step leaves alone                                                            *)

ConnSame == conn' = conn \/ (conn = "none" /\ conn' = "connecting")

EntrySame(f) ==
    /\ subscriptions'[f] = subscriptions[f]
    /\ subscriptions[f] # NoSub =>
          /\ subscription'[subscriptions[f]].handlers = subscription[subscriptions[f]].handlers
          /\ subscription'[subscriptions[f]].payload = subscription[subscriptions[f]].payload
          /\ subscription'[subscriptions[f]].request = subscription[subscriptions[f]].request
          /\ subscription'[subscriptions[f]].pending = subscription[subscriptions[f]].pending

FeedSame(f) == EntrySame(f) /\ up'[f] = up[f] /\ down'[f] = down[f]

PageSame(x) ==
    /\ x \in active' <=> x \in active
    /\ payload'[x] = payload[x]
    /\ state'[x].connected = state[x].connected

LEMMA HolderSame ==
    ASSUME Proved!IInv, NEW f \in Feed, EntrySame(f), NEW x \in Context, FeedShown[x] = f
    PROVE  /\ HasClient(x)' <=> HasClient(x)
           /\ HasClient(x) => subscription'[EntryOf(x)'].pending = subscription[EntryOf(x)].pending
           /\ PageSame(x) /\ Held(x) => Held(x)'
<1>1. EntryOf(x) = subscriptions[f] /\ EntryOf(x)' = subscriptions'[f]
    BY DEF EntryOf
<1>2. HasClient(x)' <=> HasClient(x)
    BY <1>1 DEF HasClient, EntrySame
<1> QED
    BY <1>1, <1>2 DEF HasClient, EntrySame, PageSame, Held

LEMMA HoldsSame ==
    ASSUME Proved!IInv, NEW f \in Feed, EntrySame(f), Holds(f),
           \A x \in Context : FeedShown[x] = f => PageSame(x)
    PROVE  Holds(f)'
<1> SUFFICES ASSUME subscriptions[f] # NoSub PROVE Holds(f)'
    BY DEF Holds, EntrySame
<1>1. subscription[subscriptions[f]].handlers \in Context
    BY EntryFacts
<1>2. PageSame(subscription[subscriptions[f]].handlers)
    BY <1>1 DEF Holds
<1> QED
    BY <1>2 DEF Holds, EntrySame, PageSame

LEMMA UntouchedFeed ==
    ASSUME Proved!IInv, ConnSame, NEW f \in Feed, FeedInv(f), FeedSame(f),
           \A x \in Context : FeedShown[x] = f => PageSame(x)
    PROVE  /\ FeedInv(f)'
           /\ \A x \in Context : FeedShown[x] = f => (Held(x) => Held(x)')
<1>1. Holds(f)'
    BY HoldsSame DEF FeedInv, FeedSame
<1>2. Answers(f)'
    BY DEF FeedInv, Answers, FeedSame, EntrySame, ConnSame
<1>3. ASSUME NEW x \in Context, FeedShown[x] = f
      PROVE  HearsItsOwn(x)' /\ (Held(x) => Held(x)')
    <2>1. /\ HasClient(x)' <=> HasClient(x)
          /\ HasClient(x) => subscription'[EntryOf(x)'].pending = subscription[EntryOf(x)].pending
          /\ Held(x) => Held(x)'
        BY <1>3, HolderSame DEF FeedSame
    <2>2. HearsItsOwn(x)
        BY <1>3 DEF FeedInv
    <2>3. HearsItsOwn(x)'
        BY <1>3, <2>1, <2>2 DEF HearsItsOwn, PageSame, FeedSame, ConnSame
    <2> QED
        BY <2>1, <2>3
<1> QED
    BY <1>1, <1>2, <1>3 DEF FeedInv

\* A step that concerns one feed only.
LEMMA OneFeedTouched ==
    ASSUME Proved!IInv, FeedsInv, ConnSame, NEW f \in Feed,
           \A g \in Feed \ {f} : FeedSame(g),
           \A x \in Context : FeedShown[x] # f => PageSame(x),
           FeedInv(f)'
    PROVE  /\ \A g \in Feed : FeedInv(g)'
           /\ \A x \in Context : FeedShown[x] # f => (Held(x) => Held(x)')
<1>1. ASSUME NEW g \in Feed \ {f}
      PROVE  FeedInv(g)' /\ \A x \in Context : FeedShown[x] = g => (Held(x) => Held(x)')
    BY <1>1, UntouchedFeed DEF FeedsInv
<1> QED
    BY <1>1, ContextFacts

\* A step that concerns no feed.
LEMMA NoFeedTouched ==
    ASSUME Proved!IInv, FeedsInv, ConnSame,
           \A g \in Feed : FeedSame(g), \A x \in Context : PageSame(x)
    PROVE  /\ \A g \in Feed : FeedInv(g)'
           /\ \A x \in Context : Held(x) => Held(x)'
<1>1. ASSUME NEW g \in Feed
      PROVE  FeedInv(g)' /\ \A x \in Context : FeedShown[x] = g => (Held(x) => Held(x)')
    BY <1>1, UntouchedFeed DEF FeedsInv
<1> QED
    BY <1>1, ContextFacts

-----------------------------------------------------------------------------
(* The steps of the pages                                                              *)

\* A page subscribes: its feed is its own now, and it is not connected.
LEMMA SubscribeKeeps ==
    ASSUME Proved!IInv, FeedsInv, NEW x \in Context, NEW p \in Payload, subscribe(x, p)
    PROVE  /\ \A g \in Feed : FeedInv(g)'
           /\ \A y \in Context : FeedShown[y] # FeedShown[x] => (Held(y) => Held(y)')
           /\ Held(x)'
<1> DEFINE f == FeedShown[x]
<1>1. f \in Feed /\ NoSub \notin Feed /\ NoSub \notin SubId
    BY PageFeedsAssumption
<1>2. /\ Client!Subscribe(x, f, p) /\ active' = active \cup {x}
      /\ payload' = [payload EXCEPT ![x] = p]
      /\ IF x \in active THEN clearChannel(x) ELSE state' = state
    BY DEF subscribe
<1> HIDE DEF f
<1>3. PICK id \in SubId, request \in SubRequest \cup {NoRequest} :
          /\ Client!FreeSub(id)
          /\ subscriptions' = [subscriptions EXCEPT ![f] = id]
          /\ subscription' = [Client!Released(f) EXCEPT ![id] = Client!New(x, f, p, request)]
          /\ ConnSame /\ down' = down
          /\ \/ /\ conn = "open" /\ request \in SubRequest
                /\ up' = [up EXCEPT ![f] = Append(@, Client!Server!SubscribeFrame(request, p))]
             \/ conn # "open" /\ conn' # "open" /\ up' = up
    <2> DEFINE id == CHOOSE id \in SubId : Client!FreeSub(id)
    <2>1. id \in SubId /\ Client!FreeSub(id)
        BY <1>2 DEF Client!Subscribe
    <2>2. CASE conn = "open"
        <3>1. Client!CanSend(f) => Client!Fresh(f) \in SubRequest
            BY DEF Client!CanSend, Client!Fresh
        <3> QED
            BY <1>2, <2>1, <2>2, <3>1 DEF Client!Subscribe, ConnSame, Client!Server!SendOn
    <2>3. CASE conn # "open"
        BY <1>2, <2>1, <2>3 DEF Client!Subscribe, ConnSame
    <2> QED
        BY <2>2, <2>3
<1>4. /\ subscriptions'[f] = id /\ \A g \in Feed \ {f} : subscriptions'[g] = subscriptions[g]
      /\ subscription'[id] = Client!New(x, f, p, request)
      /\ \A o \in SubId : o # id /\ o # subscriptions[f] => subscription'[o] = subscription[o]
    <2>1. subscriptions \in [Feed -> SubId \cup {NoSub}] /\ DOMAIN subscription = SubId
        BY DEF Proved!IInv, Proved!ClientTyped
    <2>2. /\ DOMAIN Client!Released(f) = SubId
          /\ \A o \in SubId : o # subscriptions[f] => Client!Released(f)[o] = subscription[o]
        BY <2>1 DEF Client!Released, Client!releaseSubscription
    <2> QED
        BY <1>1, <1>3, <2>1, <2>2
<1>5. ASSUME NEW g \in Feed \ {f} PROVE FeedSame(g)
    <2>1. up'[g] = up[g] /\ down'[g] = down[g]
        <3>1. DOMAIN up = Feed
            BY DEF Proved!IInv, Proved!FeedsTyped
        <3> QED
            BY <1>3, <3>1
    <2>2. ASSUME subscriptions[g] # NoSub
          PROVE  subscription'[subscriptions[g]] = subscription[subscriptions[g]]
        <3>1. subscriptions[g] \in SubId /\ subscriptions[g] # subscriptions[f]
            BY <1>1, <2>2, EntryFacts
        <3>2. subscriptions[g] # id
            BY <1>1, <1>3, <2>2, EntryFacts DEF Client!FreeSub, Client!Forgotten
        <3> QED
            BY <1>4, <3>1, <3>2
    <2> QED
        BY <1>4, <2>1, <2>2 DEF FeedSame, EntrySame
<1>6. /\ \A y \in Context \ {x} : PageSame(y)
      /\ x \in active' /\ payload'[x] = p /\ ~state'[x].connected
    <2>1. state \in [Context -> ChannelState] /\ payload \in [Context -> Payload \cup {NoPayload}]
        BY DEF FeedsInv, PagesTyped
    <2>2. CASE x \in active
        BY <1>2, <2>1, <2>2 DEF clearChannel, EmptyState, PageSame
    <2>3. CASE x \notin active
        <3>1. ~state[x].connected
            BY <1>1, <2>3 DEF FeedsInv, FeedInv, HearsItsOwn, f
        <3> QED
            BY <1>2, <2>1, <2>3, <3>1 DEF PageSame
    <2> QED
        BY <2>2, <2>3
<1>7. Holds(f)'
    BY <1>1, <1>4, <1>6 DEF Holds, Client!New, f
<1>8. Answers(f)'
    <2>1. CASE conn = "open"
        <3> DEFINE frame == Client!Server!SubscribeFrame(request, p)
        <3>1. up[f] \in Seq(Proved!UpFrame) /\ DOMAIN up = Feed
            BY <1>1, FrameFacts DEF Proved!IInv, Proved!FeedsTyped
        <3>2. frame \in Proved!UpFrame /\ frame.type # "publish"
            BY <1>3, <2>1 DEF Client!Server!SubscribeFrame, Proved!UpFrame
        <3>3. up'[f] = Append(up[f], frame) /\ down'[f] = down[f]
            BY <1>1, <1>3, <2>1, <3>1
        <3> HIDE DEF frame
        <3>4. Answered(up'[f], down'[f], request, p)
            BY <3>1, <3>2, <3>3, AskSent
        <3>5. RepliesDiffer(down'[f])
            BY <1>1, <2>1, <3>3 DEF FeedsInv, FeedInv, Answers
        <3> QED
            BY <1>4, <3>4, <3>5 DEF Answers, Client!New
    <2>2. CASE conn # "open"
        BY <1>3, <2>2 DEF Answers
    <2> QED
        BY <2>1, <2>2
<1>9. ASSUME NEW y \in Context, FeedShown[y] = f PROVE HearsItsOwn(y)'
    <2>1. CASE y = x
        BY <1>6, <2>1 DEF HearsItsOwn
    <2>2. CASE y # x
        <3>1. ~HasClient(y)'
            BY <1>4, <1>9, <2>2 DEF HasClient, EntryOf, Client!New
        <3>2. PageSame(y) /\ HearsItsOwn(y)
            BY <1>1, <1>6, <1>9, <2>2 DEF FeedsInv, FeedInv
        <3> QED
            BY <3>1, <3>2 DEF HearsItsOwn, PageSame
    <2> QED
        BY <2>1, <2>2
<1>10. Held(x)'
    BY <1>1, <1>4 DEF Held, HasClient, EntryOf, Client!New, f
<1>11. FeedInv(f)'
    BY <1>7, <1>8, <1>9 DEF FeedInv
<1>12. \A y \in Context : FeedShown[y] # f => PageSame(y)
    BY <1>6 DEF f
<1>13. /\ \A g \in Feed : FeedInv(g)'
       /\ \A y \in Context : FeedShown[y] # f => (Held(y) => Held(y)')
    BY <1>1, <1>3, <1>5, <1>11, <1>12, OneFeedTouched
<1> QED
    BY <1>10, <1>13 DEF f

\* A feed's subscription is gone, and what held it is not active any more.
LEMMA ReleasedFeed ==
    ASSUME Proved!IInv, FeedsInv, NEW f \in Feed, conn' = conn, subscriptions[f] # NoSub,
           subscription' = [subscription EXCEPT ![subscriptions[f]] = Client!Forgotten],
           subscriptions' = [subscriptions EXCEPT ![f] = NoSub],
           \A g \in Feed \ {f} : up'[g] = up[g] /\ down'[g] = down[g],
           conn = "open" => RepliesDiffer(down'[f]),
           NEW x \in Context, FeedShown[x] = f, x \notin active', ~state'[x].connected,
           \A y \in Context \ {x} : PageSame(y)
    PROVE  /\ \A g \in Feed : FeedInv(g)'
           /\ \A y \in Context : FeedShown[y] # f => (Held(y) => Held(y)')
<1>1. /\ subscriptions'[f] = NoSub /\ \A g \in Feed \ {f} : subscriptions'[g] = subscriptions[g]
      /\ \A o \in SubId : o # subscriptions[f] => subscription'[o] = subscription[o]
    BY DEF Proved!IInv, Proved!ClientTyped
<1>2. ASSUME NEW g \in Feed \ {f} PROVE FeedSame(g)
    <2>1. subscriptions[g] # NoSub => subscriptions[g] \in SubId /\ subscriptions[g] # subscriptions[f]
        BY EntryFacts
    <2> QED
        BY <1>1, <2>1 DEF FeedSame, EntrySame
<1>3. ASSUME NEW y \in Context, FeedShown[y] = f PROVE HearsItsOwn(y)'
    <2>1. ~HasClient(y)'
        BY <1>1, <1>3 DEF HasClient, EntryOf
    <2>2. CASE y = x
        BY <2>2 DEF HearsItsOwn
    <2>3. CASE y # x
        BY <1>3, <2>1, <2>3 DEF FeedsInv, FeedInv, HearsItsOwn, PageSame
    <2> QED
        BY <2>2, <2>3
<1>4. FeedInv(f)'
    BY <1>1, <1>3 DEF FeedInv, Holds, Answers
<1> QED
    BY <1>2, <1>4, OneFeedTouched DEF ConnSame

LEMMA UnsubscribeKeeps ==
    ASSUME Proved!IInv, FeedsInv, NEW x \in Context, unsubscribe(x)
    PROVE  /\ \A g \in Feed : FeedInv(g)'
           /\ \A y \in Context : FeedShown[y] # FeedShown[x] => (Held(y) => Held(y)')
           /\ Held(x) => Held(x)'
<1> DEFINE f == FeedShown[x]
<1>1. f \in Feed
    BY PageFeedsAssumption
<1>2. CASE x \notin active
    <2>1. UNCHANGED <<clientVars, channelVars>>
        BY <1>2 DEF unsubscribe
    <2>2. ConnSame /\ (\A g \in Feed : FeedSame(g)) /\ \A y \in Context : PageSame(y)
        BY <2>1 DEF clientVars, channelVars, ConnSame, FeedSame, EntrySame, PageSame
    <2> QED
        BY <2>2, NoFeedTouched
<1>3. CASE x \in active
    <2>1. /\ active' = active \ {x} /\ payload' = [payload EXCEPT ![x] = NoPayload]
          /\ clearChannel(x) /\ clientUnsubscribe(f)
        BY <1>3 DEF unsubscribe
    <2>2. /\ x \notin active' /\ ~state'[x].connected
          /\ \A y \in Context \ {x} : PageSame(y)
        BY <2>1 DEF clearChannel, EmptyState, PageSame, FeedsInv, PagesTyped
    <2> HIDE DEF f
    <2>3. CASE subscriptions[f] = NoSub
        <3>1. UNCHANGED clientVars
            BY <2>1, <2>3 DEF clientUnsubscribe
        <3>2. ConnSame /\ \A g \in Feed : FeedSame(g)
            BY <3>1 DEF clientVars, ConnSame, FeedSame, EntrySame
        <3>3. ASSUME NEW y \in Context, FeedShown[y] = f PROVE HearsItsOwn(y)'
            <4>1. ~HasClient(y)'
                BY <2>3, <3>1, <3>3 DEF clientVars, HasClient, EntryOf
            <4>2. CASE y = x
                BY <2>2, <4>2 DEF HearsItsOwn
            <4>3. CASE y # x
                BY <1>1, <2>2, <3>3, <4>1, <4>3 DEF FeedsInv, FeedInv, HearsItsOwn, PageSame
            <4> QED
                BY <4>2, <4>3
        <3>4. FeedInv(f)'
            BY <1>1, <2>3, <3>1, <3>3 DEF clientVars, FeedsInv, FeedInv, Holds, Answers
        <3>5. \A y \in Context : FeedShown[y] # f => PageSame(y)
            BY <2>2 DEF f
        <3>6. /\ \A g \in Feed : FeedInv(g)'
              /\ \A y \in Context : FeedShown[y] # f => (Held(y) => Held(y)')
            BY <1>1, <3>2, <3>4, <3>5, OneFeedTouched
        <3> QED
            BY <2>2, <3>6 DEF f, Held
    <2>4. CASE subscriptions[f] # NoSub
        <3>1. Client!Unsubscribe(f)
            BY <2>1, <2>4 DEF clientUnsubscribe
        <3>2. /\ conn' = conn /\ down' = down
              /\ subscription' = [subscription EXCEPT ![subscriptions[f]] = Client!Forgotten]
              /\ subscriptions' = [subscriptions EXCEPT ![f] = NoSub]
            BY <3>1 DEF Client!Unsubscribe, Client!releaseSubscription
        <3>3. \A g \in Feed \ {f} : up'[g] = up[g] /\ down'[g] = down[g]
            <4>1. DOMAIN up = Feed
                BY DEF Proved!IInv, Proved!FeedsTyped
            <4> QED
                BY <3>1, <3>2, <4>1 DEF Client!Unsubscribe, Client!SendIfOpen, Client!Server!SendOn
        <3>4. conn = "open" => RepliesDiffer(down'[f])
            BY <1>1, <3>2 DEF FeedsInv, FeedInv, Answers
        <3>5. FeedShown[x] = f
            BY DEF f
        <3>6. /\ \A g \in Feed : FeedInv(g)'
              /\ \A y \in Context : FeedShown[y] # f => (Held(y) => Held(y)')
            BY <1>1, <2>2, <2>4, <3>2, <3>3, <3>4, <3>5, ReleasedFeed
        <3> QED
            BY <2>2, <3>6 DEF f, Held
    <2> QED
        BY <2>3, <2>4
<1> QED
    BY <1>2, <1>3

LEMMA FlushKeeps ==
    ASSUME Proved!IInv, FeedsInv, NEW x \in Context, Flush(x)
    PROVE  /\ \A g \in Feed : FeedInv(g)'
           /\ \A y \in Context : Held(y) => Held(y)'
<1>1. ConnSame /\ \A g \in Feed : FeedSame(g)
    BY DEF Flush, clientVars, ConnSame, FeedSame, EntrySame
<1>2. ASSUME NEW y \in Context PROVE PageSame(y)
    <2>1. state'[y].connected = state[y].connected
        <3>1. state' = [state EXCEPT ![x] = [state[x] EXCEPT !.messages = @ \cup buffer[x]]]
            BY DEF Flush
        <3>2. state \in [Context -> ChannelState]
            BY DEF FeedsInv, PagesTyped
        <3>3. [state[x] EXCEPT !.messages = @ \cup buffer[x]].connected = state[x].connected
            BY <3>2 DEF ChannelState
        <3> QED
            BY <3>1, <3>2, <3>3
    <2> QED
        BY <2>1 DEF Flush, PageSame
<1> QED
    BY <1>1, <1>2, NoFeedTouched

-----------------------------------------------------------------------------
(* The steps of the client, and what the pages make of what they are told              *)

LEMMA ReactFacts ==
    ASSUME PagesTyped, React, NEW x \in Context
    PROVE  /\ x \in active' <=> x \in active /\ ~Told(x, "rejected")
           /\ payload'[x] = IF Told(x, "rejected") THEN NoPayload ELSE payload[x]
           /\ state'[x].connected =
                 ((state[x].connected /\ ~Told(x, "disconnected")) \/ Told(x, "connected"))
<1>1. x \in active' <=> x \in active /\ ~Told(x, "rejected")
    BY DEF React
<1>2. payload'[x] = IF Told(x, "rejected") THEN NoPayload ELSE payload[x]
    BY DEF React
<1>3. state'[x].connected =
          ((state[x].connected /\ ~Told(x, "disconnected")) \/ Told(x, "connected"))
    BY DEF React
<1> QED
    BY <1>1, <1>2, <1>3

LEMMA NotTold ==
    ASSUME PagesTyped, React, NEW x \in Context,
           ~Told(x, "rejected"), ~Told(x, "connected"), ~Told(x, "disconnected")
    PROVE  PageSame(x)
<1>1. state[x].connected \in BOOLEAN
    BY DEF PagesTyped, ChannelState
<1> QED
    BY <1>1, ReactFacts DEF PageSame

LEMMA ToldNothing ==
    ASSUME PagesTyped, React,
           told' = {} \/ \E e : told' = {e} /\ e.what \in {"message", "error"}
    PROVE  \A x \in Context : PageSame(x)
<1>1. ASSUME NEW x \in Context
      PROVE  ~Told(x, "rejected") /\ ~Told(x, "connected") /\ ~Told(x, "disconnected")
    BY DEF Told
<1> QED
    BY <1>1, NotTold

\* Frames of one feed move, and the subscriptions stay as they are.
LEMMA FramesMoved ==
    ASSUME Proved!IInv, FeedsInv, NEW f \in Feed, conn = "open", conn' = conn,
           \A g \in Feed : EntrySame(g),
           \A g \in Feed \ {f} : up'[g] = up[g] /\ down'[g] = down[g],
           \A x \in Context : PageSame(x),
           RepliesDiffer(down'[f]),
           NEW r, NEW p, subscriptions[f] # NoSub =>
               /\ r = subscription[subscriptions[f]].request
               /\ p = subscription[subscriptions[f]].payload
               /\ Answered(up'[f], down'[f], r, p)
               /\ OnlyOwn(up[f], down[f], p) => OnlyOwn(up'[f], down'[f], p)
    PROVE  /\ \A g \in Feed : FeedInv(g)'
           /\ \A x \in Context : Held(x) => Held(x)'
<1>1. Holds(f)'
    BY HoldsSame DEF FeedsInv, FeedInv
<1>2. Answers(f)'
    BY DEF Answers, EntrySame
<1>3. ASSUME NEW x \in Context, FeedShown[x] = f PROVE HearsItsOwn(x)' /\ (Held(x) => Held(x)')
    <2>1. /\ HasClient(x)' <=> HasClient(x)
          /\ HasClient(x) => subscription'[EntryOf(x)'].pending = subscription[EntryOf(x)].pending
          /\ Held(x) => Held(x)'
        BY <1>3, HolderSame
    <2>2. HearsItsOwn(x) /\ Holds(f)
        BY <1>3 DEF FeedsInv, FeedInv
    <2>3. HasClient(x) => subscriptions[f] # NoSub /\ payload[x] = p
        BY <1>3, <2>2 DEF HasClient, EntryOf, Holds
    <2>4. HearsItsOwn(x)'
        BY <1>3, <2>1, <2>2, <2>3 DEF HearsItsOwn, PageSame
    <2> QED
        BY <2>1, <2>4
<1>4. FeedInv(f)'
    BY <1>1, <1>2, <1>3 DEF FeedInv
<1> QED
    BY <1>3, <1>4, OneFeedTouched DEF FeedSame, ConnSame

\* A subscribe that somebody waits for is given up, or refused.
LEMMA RejectedFeed ==
    ASSUME Proved!IInv, FeedsInv, React, NEW f \in Feed, conn' = conn, subscriptions[f] # NoSub,
           subscription[subscriptions[f]].pending,
           subscription' = [subscription EXCEPT ![subscriptions[f]] = Client!Forgotten],
           subscriptions' = [subscriptions EXCEPT ![f] = NoSub],
           \A g \in Feed \ {f} : up'[g] = up[g] /\ down'[g] = down[g],
           conn = "open" => RepliesDiffer(down'[f]),
           told' = {Client!Tell("rejected", subscriptions[f], NoPayload)}
    PROVE  /\ \A g \in Feed : FeedInv(g)'
           /\ \A y \in Context : Held(y) => Held(y)'
<1> DEFINE x == subscription[subscriptions[f]].handlers
<1>1. x \in Context
    BY EntryFacts
<1>2. FeedShown[x] = f /\ HasClient(x) /\ HearsItsOwn(x) /\ PagesTyped
    BY <1>1 DEF FeedsInv, FeedInv, Holds, HasClient, EntryOf
<1>3. ~state[x].connected
    BY <1>2 DEF HearsItsOwn, EntryOf
<1>4. \A y, what : Told(y, what) <=> y = x /\ what = "rejected"
    BY DEF Told, Client!Tell
<1> HIDE DEF x
<1>5. x \notin active' /\ ~state'[x].connected
    BY <1>1, <1>2, <1>3, <1>4, ReactFacts
<1>6. \A y \in Context \ {x} : PageSame(y)
    BY <1>2, <1>4, NotTold
<1>7. /\ \A g \in Feed : FeedInv(g)'
      /\ \A y \in Context : FeedShown[y] # f => (Held(y) => Held(y)')
    BY <1>1, <1>2, <1>5, <1>6, ReleasedFeed
<1>8. ASSUME NEW y \in Context, FeedShown[y] = f, Held(y) PROVE Held(y)'
    <2>1. CASE y = x
        BY <1>5, <2>1 DEF Held
    <2>2. CASE y # x
        BY <1>6, <1>8, <2>2 DEF Held, HasClient, EntryOf, PageSame, x
    <2> QED
        BY <2>1, <2>2
<1> QED
    BY <1>7, <1>8

LEMMA AckTimeoutKeeps ==
    ASSUME Proved!IInv, FeedsInv, React, NEW id \in SubId, NEW armed \in {1, 2},
           Client!AckTimeout(id, armed)
    PROVE  /\ \A g \in Feed : FeedInv(g)'
           /\ \A y \in Context : Held(y) => Held(y)'
<1> DEFINE f == subscription[id].feed
<1>1. f \in Feed /\ subscriptions[f] = id /\ id # NoSub
    BY PageFeedsAssumption
    DEF Client!AckTimeout, Proved!IInv, Proved!SubsInv, Proved!Forgotten
<1>2. conn' = conn /\ down' = down
    BY DEF Client!AckTimeout
<1>3. CASE subscription[id].pending
    <2>1. /\ subscription' = [subscription EXCEPT ![id] = Client!Forgotten]
          /\ subscriptions' = [subscriptions EXCEPT ![f] = NoSub]
          /\ Client!giveUp(f)
          /\ told' = {Client!Tell("rejected", id, NoPayload)}
        BY <1>3 DEF Client!AckTimeout
    <2> HIDE DEF f
    <2>2. \A g \in Feed \ {f} : up'[g] = up[g]
        <3>1. DOMAIN up = Feed
            BY DEF Proved!IInv, Proved!FeedsTyped
        <3> QED
            BY <2>1, <3>1 DEF Client!giveUp, Client!SendIfOpen, Client!Server!SendOn
    <2>3. conn = "open" => RepliesDiffer(down'[f])
        BY <1>1, <1>2 DEF FeedsInv, FeedInv, Answers
    <2> QED
        BY <1>1, <1>2, <1>3, <2>1, <2>2, <2>3, RejectedFeed
<1>4. CASE ~subscription[id].pending
    <2>1. /\ subscription' = [subscription EXCEPT ![id].ackTimer = 0]
          /\ told' = {Client!Tell("error", id, NoPayload)}
          /\ UNCHANGED <<subscriptions, up>>
        BY <1>4 DEF Client!AckTimeout
    <2>2. \A g \in Feed : EntrySame(g)
        BY <2>1, EntryFacts DEF EntrySame, Proved!IInv, Proved!ClientTyped, Proved!Subscription
    <2>3. \A x \in Context : PageSame(x)
        BY <2>1, ToldNothing DEF FeedsInv, Client!Tell
    <2> QED
        BY <1>2, <2>1, <2>2, <2>3, NoFeedTouched DEF FeedSame, ConnSame
<1> QED
    BY <1>3, <1>4

\* The connection opens, or is lost: nothing is on its way down, and who stays connected
\* though the client tells about it waits for the close event.
LEMMA ConnectionTurned ==
    ASSUME Proved!IInv, FeedsInv,
           \A f \in Feed :
              /\ subscriptions'[f] = subscriptions[f] /\ down'[f] = <<>>
              /\ subscriptions[f] # NoSub =>
                    /\ subscription'[subscriptions[f]].handlers = subscription[subscriptions[f]].handlers
                    /\ subscription'[subscriptions[f]].payload = subscription[subscriptions[f]].payload,
           \A x \in Context :
              /\ x \in active' <=> x \in active
              /\ payload'[x] = payload[x]
              /\ state'[x].connected => state[x].connected
              /\ HasClient(x) /\ state'[x].connected =>
                    conn' = "closing" /\ ~subscription'[EntryOf(x)].pending
    PROVE  /\ \A f \in Feed : FeedInv(f)'
           /\ \A x \in Context : Held(x) => Held(x)'
<1>1. ASSUME NEW f \in Feed PROVE Holds(f)'
    <2> SUFFICES ASSUME subscriptions[f] # NoSub PROVE Holds(f)'
        BY DEF Holds
    <2>1. subscription[subscriptions[f]].handlers \in Context
        BY EntryFacts
    <2> QED
        BY <2>1 DEF FeedsInv, FeedInv, Holds
<1>2. ASSUME NEW f \in Feed PROVE Answers(f)'
    BY DEF Answers, RepliesDiffer, Answered
<1>3. ASSUME NEW x \in Context
      PROVE  HearsItsOwn(x)' /\ (Held(x) => Held(x)')
    <2>1. FeedShown[x] \in Feed
        BY ContextFacts
    <2>2. EntryOf(x)' = EntryOf(x) /\ (HasClient(x)' <=> HasClient(x))
        BY <2>1 DEF EntryOf, HasClient
    <2>3. HearsItsOwn(x)
        BY <2>1 DEF FeedsInv, FeedInv
    <2> QED
        BY <2>2, <2>3 DEF HearsItsOwn, Held
<1> QED
    BY <1>1, <1>2, <1>3 DEF FeedInv

LEMMA IdleTimeoutKeeps ==
    ASSUME Proved!IInv, FeedsInv, React, Client!IdleTimeout
    PROVE  /\ \A g \in Feed : FeedInv(g)'
           /\ \A y \in Context : Held(y) => Held(y)'
<1>1. /\ told' = {} /\ UNCHANGED <<subscriptions, subscription>>
      /\ \A x \in Context : PageSame(x)
    BY ToldNothing DEF Client!IdleTimeout, FeedsInv
<1>2. CASE Client!isIdle(subscriptions, publishes) /\ conn \in {"open", "closing"}
    <2>1. Client!Server!Disconnect
        BY <1>2 DEF Client!IdleTimeout
    <2>2. \A f \in Feed : subscriptions[f] = NoSub /\ down'[f] = <<>>
        BY <1>2, <2>1 DEF Client!isIdle, Client!Server!Disconnect
    <2>3. \A x \in Context : ~HasClient(x)
        BY <2>2, ContextFacts DEF HasClient, EntryOf
    <2> QED
        BY <1>1, <2>2, <2>3, ConnectionTurned DEF PageSame
<1>3. CASE ~(Client!isIdle(subscriptions, publishes) /\ conn \in {"open", "closing"})
    <2>1. UNCHANGED <<up, down, conn>>
        BY <1>3 DEF Client!IdleTimeout, Client!serverVars
    <2> QED
        BY <1>1, <2>1, NoFeedTouched DEF FeedSame, EntrySame, ConnSame
<1> QED
    BY <1>2, <1>3

LEMMA ReconnectKeeps ==
    ASSUME Proved!IInv, FeedsInv, React, Client!Reconnect
    PROVE  /\ \A g \in Feed : FeedInv(g)'
           /\ \A y \in Context : Held(y) => Held(y)'
<1>1. /\ \A x \in Context : PageSame(x)
      /\ UNCHANGED <<up, down, subscriptions, subscription>> /\ ConnSame
    BY ToldNothing DEF Client!Reconnect, FeedsInv, Client!connect, ConnSame, Client!serverVars
<1> QED
    BY <1>1, NoFeedTouched DEF FeedSame, EntrySame

LEMMA ClosingKeeps ==
    ASSUME Proved!IInv, FeedsInv, React, Client!Closing
    PROVE  /\ \A g \in Feed : FeedInv(g)'
           /\ \A y \in Context : Held(y) => Held(y)'
<1>1. /\ \A x \in Context : PageSame(x)
      /\ UNCHANGED <<subscriptions, subscription>> /\ conn' = "closing"
      /\ \A f \in Feed : down'[f] = <<>>
    BY ToldNothing DEF Client!Closing, FeedsInv, Client!Server!Disconnect
<1>2. \A x \in Context : HearsItsOwn(x)
    BY ContextFacts DEF FeedsInv, FeedInv
<1> QED
    BY <1>1, <1>2, ConnectionTurned DEF PageSame, HearsItsOwn, EntryOf

LEMMA OpensKeeps ==
    ASSUME Proved!IInv, FeedsInv, React, Client!Opens
    PROVE  /\ \A g \in Feed : FeedInv(g)'
           /\ \A y \in Context : Held(y) => Held(y)'
<1>1. /\ \A x \in Context : PageSame(x)
      /\ UNCHANGED <<subscriptions, down>> /\ conn = "connecting" /\ Client!resubscribeAll
    BY ToldNothing DEF Client!Opens, FeedsInv
<1>2. \A f \in Feed : down[f] = <<>>
    BY <1>1, FrameFacts
<1>3. ASSUME NEW f \in Feed, subscriptions[f] # NoSub
      PROVE  /\ subscription'[subscriptions[f]].handlers = subscription[subscriptions[f]].handlers
             /\ subscription'[subscriptions[f]].payload = subscription[subscriptions[f]].payload
    <2> DEFINE id == subscriptions[f]
    <2>1. id \in SubId /\ id \in Client!Mapped
        BY <1>3, EntryFacts DEF Client!Mapped
    <2>2. subscription[id] \in Proved!Subscription
        BY <2>1 DEF Proved!IInv, Proved!ClientTyped
    <2> HIDE DEF id
    <2>3. subscription'[id] = [subscription[id] EXCEPT
              !.request = Client!Fresh(subscription[id].feed), !.ackTimer = Client!Armed(@)]
        BY <1>1, <2>1 DEF Client!resubscribeAll
    <2>4. /\ subscription'[id].handlers = subscription[id].handlers
          /\ subscription'[id].payload = subscription[id].payload
        BY <2>2, <2>3 DEF Proved!Subscription
    <2> QED
        BY <2>4 DEF id
<1>4. \A x \in Context : HasClient(x) => ~state[x].connected
    BY <1>1, ContextFacts DEF FeedsInv, FeedInv, HearsItsOwn
<1> QED
    BY <1>1, <1>2, <1>3, <1>4, ConnectionTurned DEF PageSame

LEMMA CloseKeeps ==
    ASSUME Proved!IInv, FeedsInv, React, NEW code, Client!handleClose(code)
    PROVE  /\ \A g \in Feed : FeedInv(g)'
           /\ \A y \in Context : Held(y) => Held(y)'
<1>1. /\ subscription' = Client!resubscribeTimersCleared /\ UNCHANGED subscriptions
      /\ told' = {Client!Tell("disconnected", id, NoPayload) : id \in Client!Mapped}
      /\ \A f \in Feed : down'[f] = <<>>
    BY DEF Client!handleClose, Client!Server!Disconnect
<1>2. ASSUME NEW f \in Feed, subscriptions[f] # NoSub
      PROVE  /\ subscription'[subscriptions[f]].handlers = subscription[subscriptions[f]].handlers
             /\ subscription'[subscriptions[f]].payload = subscription[subscriptions[f]].payload
    <2> DEFINE id == subscriptions[f]
    <2>1. id \in SubId
        BY <1>2, EntryFacts
    <2>2. subscription[id] \in Proved!Subscription
        BY <2>1 DEF Proved!IInv, Proved!ClientTyped
    <2> HIDE DEF id
    <2>3. subscription'[id] \in {subscription[id], [subscription[id] EXCEPT !.ackTimer = 0]}
        BY <1>1, <2>1 DEF Client!resubscribeTimersCleared
    <2>4. /\ subscription'[id].handlers = subscription[id].handlers
          /\ subscription'[id].payload = subscription[id].payload
        BY <2>2, <2>3 DEF Proved!Subscription
    <2> QED
        BY <2>4 DEF id
<1>3. \A x \in Context : ~Told(x, "rejected") /\ ~Told(x, "connected")
    BY <1>1 DEF Told, Client!Tell
<1>4. ASSUME NEW x \in Context, HasClient(x) PROVE Told(x, "disconnected")
    <2>1. EntryOf(x) \in Client!Mapped /\ subscription[EntryOf(x)].handlers = x
        BY <1>4, ContextFacts DEF HasClient, EntryOf, Client!Mapped
    <2>2. Client!Tell("disconnected", EntryOf(x), NoPayload) \in told'
        BY <1>1, <2>1
    <2> QED
        BY <2>1, <2>2 DEF Told, Client!Tell
<1>5. ASSUME NEW x \in Context
      PROVE  /\ x \in active' <=> x \in active
             /\ payload'[x] = payload[x]
             /\ state'[x].connected => state[x].connected
             /\ HasClient(x) => ~state'[x].connected
    <2>1. PagesTyped
        BY DEF FeedsInv
    <2> QED
        BY <1>3, <1>4, <2>1, ReactFacts
<1> QED
    BY <1>1, <1>2, <1>5, ConnectionTurned

\* The next frame of a feed is taken, and the subscriptions stay as they are.
LEMMA TakenQuietly ==
    ASSUME Proved!IInv, FeedsInv, NEW f \in Feed, conn = "open", down[f] # <<>>, Client!Consume(f),
           \A g \in Feed : EntrySame(g), \A x \in Context : PageSame(x)
    PROVE  /\ \A g \in Feed : FeedInv(g)'
           /\ \A x \in Context : Held(x) => Held(x)'
<1> DEFINE r == subscription[subscriptions[f]].request
           p == subscription[subscriptions[f]].payload
<1>1. DOMAIN down = Feed
    BY DEF Proved!IInv, Proved!FeedsTyped
<1>2. /\ down'[f] = Tail(down[f]) /\ up' = up /\ conn' = conn
      /\ \A g \in Feed \ {f} : down'[g] = down[g]
    BY <1>1 DEF Client!Consume
<1>3. /\ down[f] \in Seq(Proved!DownFrame) /\ RepliesDiffer(down[f])
      /\ subscriptions[f] # NoSub =>
            /\ FeedIs(up[f], down[f], handling[f], serving[f], r, p)
            /\ Answered(up[f], down[f], r, p)
    BY FrameFacts DEF FeedsInv, FeedInv, Answers
<1> HIDE DEF r, p
<1>4. RepliesDiffer(down'[f])
    BY <1>2, <1>3, TakenDiffers
<1>5. subscriptions[f] # NoSub =>
          /\ Answered(up'[f], down'[f], r, p)
          /\ OnlyOwn(up[f], down[f], p) => OnlyOwn(up'[f], down'[f], p)
    BY <1>2, <1>3, FrameTaken
<1>6. subscriptions[f] # NoSub =>
          r = subscription[subscriptions[f]].request /\ p = subscription[subscriptions[f]].payload
    BY DEF r, p
<1> QED
    BY <1>2, <1>4, <1>5, <1>6, FramesMoved

\* The subscription of a feed is acknowledged: what is still to come is of its payload.
LEMMA AcknowledgedKeeps ==
    ASSUME Proved!IInv, FeedsInv, React, NEW f \in Feed, Client!ReceiveSubscribed(f),
           Client!answersSubscription(f, Head(down[f]).request)
    PROVE  /\ \A g \in Feed : FeedInv(g)'
           /\ \A x \in Context : Held(x) => Held(x)'
<1> DEFINE id == subscriptions[f]
           x == subscription[id].handlers
           r == subscription[id].request
           p == subscription[id].payload
           m == [subscription EXCEPT ![id].ackTimer = 0]
<1>1. /\ id # NoSub /\ Head(down[f]).request = r /\ UNCHANGED <<subscriptions, up, conn>>
      /\ conn = "open" /\ down[f] # <<>> /\ down' = [down EXCEPT ![f] = Tail(@)]
      /\ subscription' = [m EXCEPT ![id].pending = FALSE]
      /\ told' = {Client!Tell("connected", id, NoPayload)}
    BY DEF Client!ReceiveSubscribed, Client!answersSubscription, Client!Arrives, Client!Consume
<1>2. /\ id \in SubId /\ x \in Context
      /\ \A g \in Feed : subscriptions[g] = id => g = f
    BY <1>1, EntryFacts
<1>3. subscription \in [SubId -> Proved!Subscription] /\ DOMAIN down = Feed /\ PagesTyped
    BY DEF Proved!IInv, Proved!ClientTyped, Proved!FeedsTyped, FeedsInv
<1>4. /\ m \in [SubId -> Proved!Subscription]
      /\ m[id].handlers = x /\ m[id].request = r /\ m[id].payload = p
      /\ \A o \in SubId \ {id} : m[o] = subscription[o]
    BY <1>2, <1>3 DEF Proved!Subscription
<1>5. FeedIs(up[f], down[f], handling[f], serving[f], r, p)
    BY <1>1, FrameFacts
<1>6. /\ Holds(f) /\ RepliesDiffer(down[f]) /\ Answered(up[f], down[f], r, p)
    BY <1>1 DEF FeedsInv, FeedInv, Answers
<1>7. FeedShown[x] = f /\ x \in active /\ payload[x] = p
    BY <1>1, <1>6 DEF Holds
<1>8. \A y, what : Told(y, what) <=> y = x /\ what = "connected"
    BY <1>1 DEF Told, Client!Tell
<1> HIDE DEF id, m
<1>9. /\ subscription'[id].handlers = x /\ subscription'[id].request = r
      /\ subscription'[id].payload = p /\ ~subscription'[id].pending
      /\ \A o \in SubId \ {id} : subscription'[o] = subscription[o]
    BY <1>1, <1>2, <1>4 DEF Proved!Subscription
<1>10. id = subscriptions[f]
    BY DEF id
<1> HIDE DEF x, r, p
<1>11. /\ down'[f] = Tail(down[f]) /\ \A g \in Feed \ {f} : down'[g] = down[g]
    BY <1>1, <1>3
<1>12. /\ Answered(up'[f], down'[f], r, p) /\ OnlyOwn(up'[f], down'[f], p)
       /\ RepliesDiffer(down'[f])
    <2>1. down[f] \in Seq(Proved!DownFrame)
        BY FrameFacts
    <2> QED
        BY <1>1, <1>5, <1>6, <1>11, <2>1, FrameTaken, TakenDiffers
<1>13. /\ x \in active' /\ payload'[x] = p /\ state'[x].connected
    BY <1>2, <1>3, <1>7, <1>8, ReactFacts
<1>14. \A y \in Context \ {x} : PageSame(y)
    BY <1>3, <1>8, NotTold
<1>15. ASSUME NEW y \in Context, FeedShown[y] = f
       PROVE  HasClient(y) <=> y = x
    BY <1>1, <1>10, <1>15 DEF HasClient, EntryOf, x
<1>16. ASSUME NEW y \in Context, FeedShown[y] = f
       PROVE  EntryOf(y)' = id /\ (HasClient(y)' <=> y = x)
    BY <1>1, <1>9, <1>10, <1>16 DEF HasClient, EntryOf
<1>17. Holds(f)'
    BY <1>1, <1>7, <1>9, <1>10, <1>13 DEF Holds
<1>18. Answers(f)'
    BY <1>1, <1>9, <1>10, <1>12 DEF Answers
<1>19. ASSUME NEW y \in Context, FeedShown[y] = f
       PROVE  HearsItsOwn(y)' /\ (Held(y) => Held(y)')
    <2>1. CASE y = x
        BY <1>1, <1>7, <1>9, <1>12, <1>13, <1>16, <2>1 DEF HearsItsOwn, Held
    <2>2. CASE y # x
        <3>1. PageSame(y) /\ HearsItsOwn(y) /\ ~HasClient(y) /\ ~HasClient(y)'
            BY <1>14, <1>15, <1>16, <1>19, <2>2 DEF FeedsInv, FeedInv
        <3> QED
            BY <3>1 DEF PageSame, HearsItsOwn, Held
    <2> QED
        BY <2>1, <2>2
<1>20. ASSUME NEW g \in Feed \ {f} PROVE FeedSame(g)
    <2>1. subscriptions[g] # NoSub => subscriptions[g] \in SubId \ {id}
        BY <1>2, EntryFacts
    <2> QED
        BY <1>1, <1>9, <1>11, <2>1 DEF FeedSame, EntrySame
<1>21. FeedInv(f)'
    BY <1>17, <1>18, <1>19 DEF FeedInv
<1>22. \A y \in Context : FeedShown[y] # f => PageSame(y)
    BY <1>7, <1>14
<1>23. ConnSame
    BY <1>1 DEF ConnSame
<1>24. /\ \A g \in Feed : FeedInv(g)'
       /\ \A y \in Context : FeedShown[y] # f => (Held(y) => Held(y)')
    BY <1>20, <1>21, <1>22, <1>23, OneFeedTouched
<1> QED
    BY <1>19, <1>24

LEMMA ReceiveKeeps ==
    ASSUME Proved!IInv, FeedsInv, React, NEW f \in Feed, Client!Receive(f)
    PROVE  /\ \A g \in Feed : FeedInv(g)'
           /\ \A x \in Context : Held(x) => Held(x)'
<1> DEFINE id == subscriptions[f]
<1>1. conn = "open" /\ down[f] # <<>> /\ Client!Consume(f)
    BY DEF Client!Receive, Client!ReceiveMessage, Client!ReceiveSubscribed, Client!ReceivePublished,
           Client!ReceiveBroadcastError, Client!ReceiveRefusal, Client!Arrives
<1>2. PagesTyped /\ down[f] \in Seq(Proved!DownFrame) /\ Head(down[f]) \in Proved!DownFrame
    <2>1. down[f] \in Seq(Proved!DownFrame)
        BY FrameFacts
    <2> QED
        BY <1>1, <2>1, ClientsAssumption, Proved!PoppedFacts DEF FeedsInv
<1>3. ASSUME UNCHANGED <<subscriptions, subscription>>,
             told' = {} \/ \E e : told' = {e} /\ e.what \in {"message", "error"}
      PROVE  /\ \A g \in Feed : FeedInv(g)'
             /\ \A x \in Context : Held(x) => Held(x)'
    <2>1. \A x \in Context : PageSame(x)
        BY <1>2, <1>3, ToldNothing
    <2>2. \A g \in Feed : EntrySame(g)
        BY <1>3 DEF EntrySame
    <2> QED
        BY <1>1, <2>1, <2>2, TakenQuietly
<1>4. CASE Client!ReceiveMessage(f)
    BY <1>3, <1>4 DEF Client!ReceiveMessage, Client!Tell
<1>5. CASE Client!ReceiveBroadcastError(f)
    BY <1>3, <1>5 DEF Client!ReceiveBroadcastError, Client!Tell
<1>6. CASE Client!ReceivePublished(f)
    BY <1>2, <1>6 DEF Client!ReceivePublished, Client!Arrives, Proved!DownFrame
<1>7. CASE Client!ReceiveSubscribed(f)
    <2>1. CASE Client!answersSubscription(f, Head(down[f]).request)
        BY <1>7, <2>1, AcknowledgedKeeps
    <2>2. CASE ~Client!answersSubscription(f, Head(down[f]).request)
        BY <1>3, <1>7, <2>2 DEF Client!ReceiveSubscribed
    <2> QED
        BY <2>1, <2>2
<1>8. CASE Client!ReceiveRefusal(f)
    <2>1. CASE ~Client!answersSubscription(f, Head(down[f]).request)
        BY <1>3, <1>8, <2>1 DEF Client!ReceiveRefusal
    <2>2. CASE Client!answersSubscription(f, Head(down[f]).request) /\ subscription[id].pending
        <3>1. /\ id # NoSub /\ subscription' = [subscription EXCEPT ![id] = Client!Forgotten]
              /\ subscriptions' = [subscriptions EXCEPT ![f] = NoSub]
              /\ told' = {Client!Tell("rejected", id, NoPayload)}
            BY <1>8, <2>2 DEF Client!ReceiveRefusal, Client!answersSubscription
        <3>2. DOMAIN down = Feed
            BY DEF Proved!IInv, Proved!FeedsTyped
        <3>3. /\ conn' = conn /\ down'[f] = Tail(down[f])
              /\ \A g \in Feed \ {f} : up'[g] = up[g] /\ down'[g] = down[g]
            BY <1>1, <3>2 DEF Client!Consume
        <3>4. RepliesDiffer(down[f])
            BY <1>1 DEF FeedsInv, FeedInv, Answers
        <3>5. RepliesDiffer(down'[f])
            BY <1>1, <1>2, <3>3, <3>4, TakenDiffers
        <3> QED
            BY <2>2, <3>1, <3>3, <3>5, RejectedFeed
    <2>3. CASE Client!answersSubscription(f, Head(down[f]).request) /\ ~subscription[id].pending
        <3>1. /\ subscription' = [subscription EXCEPT ![id].ackTimer = 0]
              /\ UNCHANGED subscriptions
              /\ told' = {Client!Tell("error", id, NoPayload)}
            BY <1>8, <2>3 DEF Client!ReceiveRefusal
        <3>2. \A g \in Feed : EntrySame(g)
            BY <3>1, EntryFacts DEF EntrySame, Proved!IInv, Proved!ClientTyped, Proved!Subscription
        <3>3. \A x \in Context : PageSame(x)
            BY <1>2, <3>1, ToldNothing DEF Client!Tell
        <3> QED
            BY <1>1, <3>2, <3>3, TakenQuietly
    <2> QED
        BY <2>1, <2>2, <2>3
<1> QED
    BY <1>4, <1>5, <1>6, <1>7, <1>8 DEF Client!Receive

\* What the source sends is no reply.
LEMMA SourceDiffers ==
    ASSUME NEW d \in Seq(Proved!DownFrame), NEW frame \in Proved!DownFrame,
           frame.request = NoRequest, RepliesDiffer(d)
    PROVE  RepliesDiffer(Append(d, frame))
<1>1. Proved!NoAsks(<<>>) /\ frame.type = "message" => frame.payload = frame.payload
    OBVIOUS
<1> QED
    BY <1>1, SourceSent

\* The server answers the first frame of a feed, or its source is heard.
LEMMA SourceKeeps ==
    ASSUME Proved!IInv, FeedsInv, NEW f \in Feed, conn = "open", conn' = conn,
           \A g \in Feed : EntrySame(g), \A x \in Context : PageSame(x),
           up' = up, NEW frame \in Proved!DownFrame, frame.request = NoRequest,
           frame.type = "message" => serving[f] # NoPayload /\ frame.payload = serving[f],
           down' = [down EXCEPT ![f] = Append(@, frame)]
    PROVE  /\ \A g \in Feed : FeedInv(g)'
           /\ \A x \in Context : Held(x) => Held(x)'
<1> DEFINE r == subscription[subscriptions[f]].request
           p == subscription[subscriptions[f]].payload
<1>1. DOMAIN down = Feed
    BY DEF Proved!IInv, Proved!FeedsTyped
<1>2. down'[f] = Append(down[f], frame) /\ \A g \in Feed \ {f} : down'[g] = down[g]
    BY <1>1
<1>3. /\ down[f] \in Seq(Proved!DownFrame) /\ RepliesDiffer(down[f])
      /\ subscriptions[f] # NoSub =>
            /\ FeedIs(up[f], down[f], handling[f], serving[f], r, p)
            /\ Answered(up[f], down[f], r, p)
    BY FrameFacts DEF FeedsInv, FeedInv, Answers
<1>4. RepliesDiffer(down'[f])
    BY <1>2, <1>3, SourceDiffers
<1>5. subscriptions[f] # NoSub =>
          (Proved!NoAsks(up[f]) /\ frame.type = "message" => frame.payload = p)
    BY <1>3 DEF FeedIs, Proved!FeedOK, Proved!ServesTheAsk, AskedFor
<1> HIDE DEF r, p
<1>6. subscriptions[f] # NoSub =>
          /\ Answered(up'[f], down'[f], r, p)
          /\ OnlyOwn(up[f], down[f], p) => OnlyOwn(up'[f], down'[f], p)
    <2> DEFINE u == up[f]
               d == down[f]
    <2>1. up'[f] = u /\ down'[f] = Append(d, frame) /\ d \in Seq(Proved!DownFrame)
        BY <1>2, <1>3
    <2>2. subscriptions[f] # NoSub =>
              Answered(u, d, r, p) /\ (Proved!NoAsks(u) /\ frame.type = "message" => frame.payload = p)
        BY <1>3, <1>5
    <2> HIDE DEF u, d
    <2>3. subscriptions[f] # NoSub =>
              /\ Answered(u, Append(d, frame), r, p)
              /\ OnlyOwn(u, d, p) => OnlyOwn(u, Append(d, frame), p)
        BY <2>1, <2>2, SourceSent
    <2> QED
        BY <2>1, <2>3 DEF u, d
<1>7. subscriptions[f] # NoSub =>
          r = subscription[subscriptions[f]].request /\ p = subscription[subscriptions[f]].payload
    BY DEF r, p
<1> QED
    BY <1>2, <1>4, <1>6, <1>7, FramesMoved

\* The server is done with the first frame of a feed, and may reply to it.
LEMMA HandledKeeps ==
    ASSUME Proved!IInv, FeedsInv, NEW f \in Feed, conn = "open", conn' = conn,
           \A g \in Feed : EntrySame(g), \A x \in Context : PageSame(x),
           up[f] # <<>>, up' = [up EXCEPT ![f] = Tail(@)],
           \/ Head(up[f]).type = "unsubscribe" /\ down' = down
           \/ /\ Head(up[f]).type = "subscribe"
              /\ \E type \in {"subscribed", "error"} :
                    down' = [down EXCEPT ![f] = Append(@, Client!Server!Reply(type, Head(up[f]).request))]
    PROVE  /\ \A g \in Feed : FeedInv(g)'
           /\ \A x \in Context : Held(x) => Held(x)'
<1> DEFINE r == subscription[subscriptions[f]].request
           p == subscription[subscriptions[f]].payload
<1>1. DOMAIN down = Feed /\ DOMAIN up = Feed
    BY DEF Proved!IInv, Proved!FeedsTyped
<1>2. up'[f] = Tail(up[f]) /\ \A g \in Feed \ {f} : up'[g] = up[g] /\ down'[g] = down[g]
    BY <1>1
<1>3. /\ up[f] \in Seq(Proved!UpFrame) /\ down[f] \in Seq(Proved!DownFrame)
      /\ RepliesDiffer(down[f]) /\ Proved!RequestsDiffer(up[f], down[f])
      /\ subscriptions[f] # NoSub =>
            /\ FeedIs(up[f], down[f], handling[f], serving[f], r, p)
            /\ Answered(up[f], down[f], r, p)
    BY FrameFacts DEF FeedsInv, FeedInv, Answers
<1>4. Head(up[f]) \in Proved!UpFrame /\ 1 \in DOMAIN up[f] /\ Head(up[f]) = up[f][1]
    BY <1>3, ClientsAssumption, Proved!PoppedFacts
<1>5. subscriptions[f] # NoSub =>
          r = subscription[subscriptions[f]].request /\ p = subscription[subscriptions[f]].payload
    OBVIOUS
<1>6. ~OnlyOwn(up[f], down[f], p)
    BY <1>4 DEF OnlyOwn, Proved!NoAsks, Proved!IsAsk
<1> HIDE DEF r, p
<1>7. CASE Head(up[f]).type = "unsubscribe" /\ down' = down
    <2>1. subscriptions[f] # NoSub => Answered(up'[f], down'[f], r, p)
        BY <1>2, <1>3, <1>7, UnsubscribeHandled
    <2>2. RepliesDiffer(down'[f])
        BY <1>3, <1>7
    <2> QED
        BY <1>2, <1>5, <1>6, <2>1, <2>2, FramesMoved
<1>8. ASSUME Head(up[f]).type = "subscribe", NEW type \in {"subscribed", "error"},
             down' = [down EXCEPT ![f] = Append(@, Client!Server!Reply(type, Head(up[f]).request))]
      PROVE  /\ \A g \in Feed : FeedInv(g)'
             /\ \A x \in Context : Held(x) => Held(x)'
    <2> DEFINE reply == Client!Server!Reply(type, Head(up[f]).request)
    <2>1. reply \in Proved!DownFrame /\ reply.request = Head(up[f]).request
        BY <1>4, <1>8 DEF Client!Server!Reply, Proved!UpFrame, Proved!DownFrame
    <2>2. down'[f] = Append(down[f], reply)
        BY <1>1, <1>8
    <2> HIDE DEF reply
    <2>3. RepliesDiffer(down'[f])
        BY <1>3, <1>8, <2>1, <2>2, ReplyDiffers
    <2>4. subscriptions[f] # NoSub => Answered(up'[f], down'[f], r, p)
        <3> DEFINE u == up[f]
                   d == down[f]
                   h == handling[f]
                   v == serving[f]
        <3>1. subscriptions[f] # NoSub => FeedIs(u, d, h, v, r, p)
            BY <1>3
        <3>2. /\ u # <<>> /\ Head(u).type = "subscribe" /\ reply.request = Head(u).request
              /\ up'[f] = Tail(u) /\ down'[f] = Append(d, reply)
            BY <1>2, <1>8, <2>1, <2>2
        <3> HIDE DEF u, d, h, v
        <3>3. subscriptions[f] # NoSub => Answered(Tail(u), Append(d, reply), r, p)
            BY <2>1, <3>1, <3>2, ReplyAnswers
        <3> QED
            BY <3>2, <3>3
    <2> QED
        BY <1>2, <1>5, <1>6, <2>3, <2>4, FramesMoved
<1> QED
    BY <1>7, <1>8

LEMMA ServerKeeps ==
    ASSUME Proved!IInv, FeedsInv, React, Client!ServerStep
    PROVE  /\ \A g \in Feed : FeedInv(g)'
           /\ \A x \in Context : Held(x) => Held(x)'
<1>1. /\ conn = "open" /\ conn' = conn /\ UNCHANGED <<subscriptions, subscription>>
      /\ \A x \in Context : PageSame(x)
    BY ToldNothing DEF Client!ServerStep, FeedsInv
<1>2. \A g \in Feed : EntrySame(g)
    BY <1>1 DEF EntrySame
<1>3. PICK f \in Feed : \/ Client!Server!HandleFrame(f) \/ Client!Server!SourceMessage(f)
                        \/ Client!Server!SourceError(f) \/ Client!Server!SourceGivesUp(f)
    BY DEF Client!ServerStep, Client!Server!ServerStep
<1>4. /\ up[f] \in Seq(Proved!UpFrame) /\ down[f] \in Seq(Proved!DownFrame)
      /\ serving[f] \in Payload \cup {NoPayload} /\ DOMAIN down = Feed
      /\ handling[f] # "idle" => up[f] # <<>> /\ Head(up[f]).type = "subscribe"
    BY <1>1, FrameFacts DEF Proved!IInv, Proved!FeedsTyped
<1>5. up[f] # <<>> => Head(up[f]) \in Proved!UpFrame
    BY <1>4, ClientsAssumption, Proved!PoppedFacts
<1>6. CASE Client!Server!BeginSubscribe(f) \/ Client!Server!Register(f)
    <2>1. UNCHANGED <<up, down>>
        BY <1>6 DEF Client!Server!BeginSubscribe, Client!Server!Register
    <2> QED
        BY <1>1, <1>2, <2>1, NoFeedTouched DEF FeedSame, ConnSame
<1>7. CASE Client!Server!RefuseSubscribe(f) \/ Client!Server!AckSubscribe(f)
    <2>1. PICK type \in {"subscribed", "error"} :
              Client!Server!Finish(f, <<Client!Server!Reply(type, Head(up[f]).request)>>)
        BY <1>7 DEF Client!Server!RefuseSubscribe, Client!Server!AckSubscribe
    <2>2. up[f] # <<>> /\ Head(up[f]).type = "subscribe"
        BY <1>4, <1>7 DEF Client!Server!RefuseSubscribe, Client!Server!AckSubscribe
    <2> DEFINE reply == Client!Server!Reply(type, Head(up[f]).request)
    <2>3. reply \in Proved!DownFrame
        BY <1>5, <2>2 DEF Client!Server!Reply, Proved!UpFrame, Proved!DownFrame
    <2>4. Client!Server!Finish(f, <<reply>>)
        BY <2>1
    <2> HIDE DEF reply
    <2>5. down[f] \o <<reply>> = Append(down[f], reply)
        BY <1>4, <2>3, ClientsAssumption, Proved!JoinedFacts
    <2>6. /\ up' = [up EXCEPT ![f] = Tail(@)] /\ down' = [down EXCEPT ![f] = Append(@, reply)]
        BY <1>4, <2>4, <2>5 DEF Client!Server!Finish
    <2>7. down' = [down EXCEPT ![f] = Append(@, Client!Server!Reply(type, Head(up[f]).request))]
        BY <2>6 DEF reply
    <2> QED
        BY <1>1, <1>2, <2>2, <2>6, <2>7, HandledKeeps
<1>8. CASE Client!Server!HandleUnsubscribe(f)
    <2>1. /\ up[f] # <<>> /\ Head(up[f]).type = "unsubscribe" /\ Client!Server!Finish(f, <<>>)
        BY <1>8 DEF Client!Server!HandleUnsubscribe, Client!Server!FirstIs
    <2>2. down[f] \o <<>> = down[f]
        BY <1>4
    <2>3. up' = [up EXCEPT ![f] = Tail(@)] /\ down' = down
        BY <1>4, <2>1, <2>2 DEF Client!Server!Finish, Proved!IInv, Proved!FeedsTyped
    <2> QED
        BY <1>1, <1>2, <2>1, <2>3, HandledKeeps
<1>9. ~Client!Server!HandlePublish(f)
    BY <1>5 DEF Client!Server!HandlePublish, Client!Server!FirstIs, Proved!UpFrame
<1>10. CASE Client!Server!SourceMessage(f)
    <2> DEFINE frame == Client!Server!Message(serving[f])
    <2>1. /\ serving[f] # NoPayload /\ up' = up /\ down' = [down EXCEPT ![f] = Append(@, frame)]
        BY <1>10 DEF Client!Server!SourceMessage
    <2>2. /\ frame \in Proved!DownFrame /\ frame.request = NoRequest /\ frame.payload = serving[f]
        BY <1>4, <2>1 DEF Client!Server!Message, Proved!DownFrame
    <2> HIDE DEF frame
    <2> QED
        BY <1>1, <1>2, <2>1, <2>2, SourceKeeps
<1>11. CASE Client!Server!SourceError(f) \/ Client!Server!SourceGivesUp(f)
    <2> DEFINE frame == Client!Server!Reply("error", NoRequest)
    <2>1. up' = up /\ down' = [down EXCEPT ![f] = Append(@, frame)]
        BY <1>11 DEF Client!Server!SourceError, Client!Server!SourceGivesUp
    <2>2. frame \in Proved!DownFrame /\ frame.request = NoRequest /\ frame.type # "message"
        BY DEF Client!Server!Reply, Proved!DownFrame
    <2> HIDE DEF frame
    <2> QED
        BY <1>1, <1>2, <2>1, <2>2, SourceKeeps
<1> QED
    BY <1>3, <1>6, <1>7, <1>8, <1>9, <1>10, <1>11 DEF Client!Server!HandleFrame

LEMMA ClientStepKeeps ==
    ASSUME Proved!IInv, FeedsInv, ClientStep
    PROVE  /\ \A g \in Feed : FeedInv(g)'
           /\ \A x \in Context : Held(x) => Held(x)'
<1>1. React /\ (Client!TimerStep \/ Client!NetworkStep \/ Client!ServerStep)
    BY DEF ClientStep
<1>2. CASE Client!TimerStep
    <2>1. ~Client!Ageing
        BY DEF Client!Ageing
    <2> QED
        BY <1>1, <1>2, <2>1, AckTimeoutKeeps, IdleTimeoutKeeps, ReconnectKeeps
        DEF Client!TimerStep
<1>3. CASE Client!NetworkStep
    <2>1. CASE Client!Opens
        BY <1>1, <2>1, OpensKeeps
    <2>2. CASE Client!ConnectFails \/ \E code \in {"other", "caller-changed"} : Client!Closed(code)
        <3>1. PICK code : Client!handleClose(code)
            BY <2>2 DEF Client!ConnectFails, Client!Closed
        <3> QED
            BY <1>1, <3>1, CloseKeeps
    <2>3. CASE Client!Closing
        BY <1>1, <2>3, ClosingKeeps
    <2>4. CASE \E f \in Feed : Client!Receive(f)
        BY <1>1, <2>4, ReceiveKeeps
    <2> QED
        BY <1>3, <2>1, <2>2, <2>3, <2>4 DEF Client!NetworkStep
<1>4. CASE Client!ServerStep
    BY <1>1, <1>4, ServerKeeps
<1> QED
    BY <1>1, <1>2, <1>3, <1>4

-----------------------------------------------------------------------------
(* The pages and the client together                                                   *)

Moves ==
    \/ \E x \in Context, p \in Payload : subscribe(x, p)
    \/ \E x \in Context : unsubscribe(x) \/ Flush(x)
    \/ ClientStep
    \/ UNCHANGED <<clientVars, channelVars>>

LEMMA StepsMove ==
    ASSUME PagesTyped, [Next]_vars
    PROVE  Moves
<1>1. ASSUME NEW s \in Screen, Unmount(s) PROVE \E x \in Context : unsubscribe(x)
    <2>1. shown[s] \in Context
        BY <1>1 DEF Unmount, PagesTyped
    <2> QED
        BY <1>1, <2>1 DEF Unmount
<1>2. CASE UNCHANGED vars
    BY <1>2 DEF vars, Moves
<1>3. CASE Next
    BY <1>1, <1>3 DEF Next, Mount, UnsubscribeAction, SubscribeAction, Moves
<1> QED
    BY <1>2, <1>3

LEMMA ClientKept ==
    ASSUME Proved!IInv, Moves
    PROVE  Proved!IInv'
<1>1. CASE \E x \in Context, p \in Payload : subscribe(x, p)
    <2>1. PICK x \in Context, p \in Payload : subscribe(x, p)
        BY <1>1
    <2>2. FeedShown[x] \in Feed
        BY ContextFacts
    <2>3. Proved!Next
        BY <2>1, <2>2, SubscribeIsProved DEF subscribe
    <2> QED
        BY <2>3, ClientsAssumption, Proved!NextKeeps
<1>2. ASSUME UNCHANGED clientVars PROVE Proved!IInv'
    <2>1. UNCHANGED Proved!vars
        BY <1>2 DEF clientVars, Proved!vars, Proved!serverVars, Proved!clientVars, Proved!backoffVars
    <2> QED
        BY <2>1, ClientsAssumption, Proved!NextKeeps
<1>3. ASSUME NEW x \in Context, unsubscribe(x) PROVE Proved!IInv'
    <2>1. FeedShown[x] \in Feed
        BY ContextFacts
    <2>2. UNCHANGED clientVars \/ Client!Unsubscribe(FeedShown[x])
        BY <1>3 DEF unsubscribe, clientUnsubscribe
    <2>3. CASE Client!Unsubscribe(FeedShown[x])
        <3>1. Proved!Next
            BY <2>1, <2>3, UnsubscribeIsProved
        <3> QED
            BY <3>1, ClientsAssumption, Proved!NextKeeps
    <2> QED
        BY <1>2, <2>2, <2>3
<1>4. CASE \E x \in Context : Flush(x)
    BY <1>2, <1>4 DEF Flush
<1>5. CASE ClientStep
    <2>1. Proved!Next
        BY <1>5, TimerStepIsProved, NetworkStepIsProved, ServerStepIsProved DEF ClientStep
    <2> QED
        BY <2>1, ClientsAssumption, Proved!NextKeeps
<1> QED
    BY <1>1, <1>2, <1>3, <1>4, <1>5 DEF Moves

LEMMA FeedsKept ==
    ASSUME Proved!IInv, FeedsInv, Moves
    PROVE  \A g \in Feed : FeedInv(g)'
<1>1. CASE UNCHANGED <<clientVars, channelVars>>
    <2>1. ConnSame /\ (\A g \in Feed : FeedSame(g)) /\ \A y \in Context : PageSame(y)
        BY <1>1 DEF clientVars, channelVars, ConnSame, FeedSame, EntrySame, PageSame
    <2> QED
        BY <2>1, NoFeedTouched
<1> QED
    BY <1>1, SubscribeKeeps, UnsubscribeKeeps, FlushKeeps, ClientStepKeeps DEF Moves

\* A message the client tells comes from the feed of the page it tells.
LEMMA MessagesTold ==
    ASSUME Proved!IInv, FeedsInv, ClientStep, NEW e \in told', e.what = "message"
    PROVE  /\ e.handlers \in Context /\ e.payload \in Payload
           /\ state[e.handlers].connected => e.payload = payload[e.handlers]
           /\ PageSame(e.handlers)
<1>1. PICK f \in Feed : Client!ReceiveMessage(f)
    <2>1. \A what, id, p : Client!Tell(what, id, p).what = what
        BY DEF Client!Tell
    <2>2. ASSUME NEW id \in SubId, NEW armed, Client!AckTimeout(id, armed) PROVE FALSE
        BY <2>1, <2>2 DEF Client!AckTimeout
    <2>3. ASSUME NEW code, Client!handleClose(code) PROVE FALSE
        BY <2>1, <2>3 DEF Client!handleClose
    <2>4. ASSUME NEW f \in Feed, Client!Receive(f) PROVE Client!ReceiveMessage(f)
        BY <2>1, <2>4 DEF Client!Receive, Client!ReceiveSubscribed, Client!ReceivePublished,
                          Client!ReceiveBroadcastError, Client!ReceiveRefusal
    <2>5. ~Client!IdleTimeout /\ ~Client!Reconnect /\ ~Client!Ageing
        BY DEF Client!IdleTimeout, Client!Reconnect, Client!Ageing
    <2>6. ~Client!Opens /\ ~Client!Closing /\ ~Client!ServerStep
        BY DEF Client!Opens, Client!Closing, Client!ServerStep
    <2>7. ~Client!TimerStep
        BY <2>2, <2>5 DEF Client!TimerStep
    <2>8. Client!NetworkStep => \E f \in Feed : Client!ReceiveMessage(f)
        BY <2>3, <2>4, <2>6 DEF Client!NetworkStep, Client!ConnectFails, Client!Closed
    <2> QED
        BY <2>6, <2>7, <2>8 DEF ClientStep
<1> DEFINE x == subscription[subscriptions[f]].handlers
           d == down[f]
<1>2. /\ conn = "open" /\ d # <<>> /\ Head(d).type = "message" /\ subscriptions[f] # NoSub
      /\ e.handlers = x /\ e.payload = Head(d).payload
      /\ told' = {Client!Tell("message", subscriptions[f], Head(d).payload)}
    BY <1>1 DEF Client!ReceiveMessage, Client!Arrives, Client!Tell
<1>3. d \in Seq(Proved!DownFrame) /\ x \in Context
    BY <1>2, FrameFacts, EntryFacts
<1>4. FeedShown[x] = f /\ HearsItsOwn(x) /\ HasClient(x)
    BY <1>2, <1>3 DEF FeedsInv, FeedInv, Holds, HasClient, EntryOf
<1>5. PageSame(x)
    <2>1. PagesTyped /\ React /\ \E m : told' = {m} /\ m.what \in {"message", "error"}
        BY <1>2 DEF ClientStep, FeedsInv, Client!Tell
    <2> QED
        BY <1>3, <2>1, ToldNothing
<1> HIDE DEF x, d
<1>6. 1 \in DOMAIN d /\ Head(d) = d[1] /\ Head(d) \in Proved!DownFrame
    BY <1>2, <1>3, ClientsAssumption, Proved!PoppedFacts
<1>7. Head(d).payload \in Payload
    BY <1>2, <1>6 DEF Proved!DownFrame
<1>8. state[x].connected => Head(d).payload = payload[x]
    <2>1. state[x].connected => OnlyOwn(up[f], d, payload[x])
        BY <1>2, <1>4 DEF HearsItsOwn, d
    <2> QED
        BY <1>2, <1>6, <2>1 DEF OnlyOwn
<1> QED
    BY <1>2, <1>3, <1>5, <1>7, <1>8

ChannelsTyped ==
    /\ active \subseteq Context /\ replacing \subseteq Context
    /\ payload \in [Context -> Payload \cup {NoPayload}]
    /\ state \in [Context -> ChannelState]
    /\ buffer \in [Context -> SUBSET Payload]
    /\ flushTimer \in [Context -> BOOLEAN]

LEMMA ChannelsKept ==
    ASSUME Proved!IInv, FeedsInv, ReplacingIsEmpty, Moves
    PROVE  ChannelsTyped' /\ ReplacingIsEmpty'
<1> USE DEF ReplacingIsEmpty
<1>1. ChannelsTyped
    BY DEF FeedsInv, PagesTyped, ChannelsTyped
<1>2. EmptyState \in ChannelState
    BY DEF EmptyState, ChannelState
<1>3. CASE \E x \in Context, p \in Payload : subscribe(x, p)
    <2>1. PICK x \in Context, p \in Payload : subscribe(x, p)
        BY <1>3
    <2>2. CASE x \in active
        <3>1. /\ flushTimer' = [flushTimer EXCEPT ![x] = FALSE] /\ buffer' = [buffer EXCEPT ![x] = {}]
              /\ state' = [state EXCEPT ![x] = EmptyState] /\ active' = active
              /\ payload' = [payload EXCEPT ![x] = p] /\ replacing' = replacing \cup {x}
            BY <2>1, <2>2 DEF subscribe, clearChannel
        <3>2. ChannelsTyped'
            BY <1>1, <1>2, <3>1 DEF ChannelsTyped
        <3>3. ReplacingIsEmpty'
            BY <1>1, <2>2, <3>1 DEF ChannelsTyped, EmptyState
        <3> QED
            BY <3>2, <3>3
    <2>3. CASE x \notin active
        BY <1>1, <2>1, <2>3 DEF subscribe, ChannelsTyped
    <2> QED
        BY <2>2, <2>3
<1>4. CASE \E x \in Context : unsubscribe(x)
    <2>1. PICK x \in Context : unsubscribe(x)
        BY <1>4
    <2>2. CASE x \in active
        BY <1>1, <1>2, <2>1, <2>2 DEF unsubscribe, clearChannel, ChannelsTyped
    <2>3. CASE x \notin active
        BY <1>1, <2>1, <2>3 DEF unsubscribe, channelVars, ChannelsTyped
    <2> QED
        BY <2>2, <2>3
<1>5. CASE \E x \in Context : Flush(x)
    <2>1. PICK x \in Context : Flush(x)
        BY <1>5
    <2> DEFINE new == [state[x] EXCEPT !.messages = @ \cup buffer[x]]
    <2>2. state' = [state EXCEPT ![x] = new]
        BY <2>1 DEF Flush
    <2>3. /\ state[x] \in ChannelState /\ buffer[x] \in SUBSET Payload
          /\ UNCHANGED <<active, payload, replacing>>
          /\ buffer' = [buffer EXCEPT ![x] = {}]
          /\ flushTimer' = [flushTimer EXCEPT ![x] = buffer[x] # {}]
        BY <1>1, <2>1 DEF Flush, ChannelsTyped
    <2>4. new \in ChannelState /\ new.messages = state[x].messages \cup buffer[x]
          /\ new.connected = state[x].connected
        BY <2>3 DEF ChannelState
    <2> HIDE DEF new
    <2>5. ChannelsTyped'
        BY <1>1, <2>2, <2>3, <2>4 DEF ChannelsTyped
    <2>6. ReplacingIsEmpty'
        BY <1>1, <2>2, <2>3, <2>4 DEF ChannelsTyped
    <2> QED
        BY <2>5, <2>6
<1>6. CASE ClientStep
    <2>1. React
        BY <1>6 DEF ClientStep
    <2>2. ASSUME NEW x \in Context PROVE Accepted(x) \subseteq Payload /\ RenderedNow(x) \subseteq Payload
        BY <1>6, MessagesTold DEF Accepted, RenderedNow
    <2>3. ASSUME NEW x \in Context
          PROVE  /\ payload'[x] \in Payload \cup {NoPayload} /\ state'[x] \in ChannelState
                 /\ buffer'[x] \in SUBSET Payload /\ flushTimer'[x] \in BOOLEAN
        <3>1. payload'[x] \in Payload \cup {NoPayload}
            BY <1>1, <2>1 DEF React, ChannelsTyped
        <3>2. state[x] \in ChannelState
            BY <1>1 DEF ChannelsTyped
        <3>3. /\ state[x].connected \in BOOLEAN /\ state[x].error \in BOOLEAN
              /\ state[x].messages \cup RenderedNow(x) \in SUBSET Payload
            BY <2>2, <3>2 DEF ChannelState
        <3>4. /\ ((state[x].connected /\ ~Told(x, "disconnected")) \/ Told(x, "connected")) \in BOOLEAN
              /\ ((state[x].error /\ ~Told(x, "connected")) \/ Told(x, "error") \/ Told(x, "rejected")) \in BOOLEAN
            OBVIOUS
        <3>5. state'[x] \in ChannelState
            BY <2>1, <3>3, <3>4, Zenon DEF React, ChannelState
        <3>6. buffer'[x] \in SUBSET Payload
            BY <1>1, <2>1, <2>2 DEF React, ChannelsTyped
        <3>7. flushTimer'[x] \in BOOLEAN
            BY <2>1 DEF React
        <3> QED
            BY <3>1, <3>5, <3>6, <3>7
    <2>4. /\ payload' = [x \in Context |-> payload'[x]] /\ state' = [x \in Context |-> state'[x]]
          /\ buffer' = [x \in Context |-> buffer'[x]] /\ flushTimer' = [x \in Context |-> flushTimer'[x]]
        BY <2>1 DEF React
    <2>5. active' \subseteq Context /\ replacing' \subseteq Context
        BY <1>1, <2>1 DEF React, ChannelsTyped
    <2>6. ChannelsTyped'
        BY <2>3, <2>4, <2>5 DEF ChannelsTyped
    <2>7. ASSUME NEW x \in replacing'
          PROVE  x \in active' /\ state'[x].messages = {} /\ buffer'[x] = {} /\ ~state'[x].connected
        <3>1. /\ x \in Context /\ x \in replacing /\ ~Told(x, "rejected") /\ ~Told(x, "connected")
              /\ Accepted(x) = {} /\ RenderedNow(x) = {}
            BY <1>1, <2>1, <2>7 DEF React, Accepted, RenderedNow, ChannelsTyped
        <3>2. x \in active' /\ buffer'[x] = {} /\ state'[x].messages = {}
            BY <2>1, <3>1 DEF React
        <3>3. ~state'[x].connected
            BY <2>1, <3>1, ReactFacts DEF FeedsInv
        <3> QED
            BY <3>2, <3>3
    <2> QED
        BY <2>6, <2>7
<1>7. CASE UNCHANGED <<clientVars, channelVars>>
    BY <1>1, <1>7 DEF channelVars, ChannelsTyped
<1> QED
    BY <1>3, <1>4, <1>5, <1>6, <1>7 DEF Moves

-----------------------------------------------------------------------------
(* Who is told                                                                         *)

\* Who holds a feed for open is told about it, or was overtaken.
ToldOrOvertaken ==
    overtaken \subseteq active /\ \A x \in Context : Held(x) \/ x \in overtaken

\* A message the client told a connected page was of its payload.
ToldOwn == \A e \in told :
    e.what = "message" /\ state[e.handlers].connected => e.payload = payload[e.handlers]

PagesInv ==
    /\ Proved!IInv /\ FeedsInv /\ ReplacingIsEmpty /\ ToldOrOvertaken /\ ToldOwn
    /\ \A e \in told : e.handlers \in Context

LEMMA ShownKept ==
    ASSUME PagesTyped, [Next]_vars
    PROVE  shown' \in [Screen -> Context \cup {NoSub}]
<1>1. shown \in [Screen -> Context \cup {NoSub}]
    BY DEF PagesTyped
<1> QED
    BY <1>1 DEF Next, vars, Mount, Unmount, SubscribeAction, UnsubscribeAction, Flush, ClientStep, React

\* Only another page's subscribe or unsubscribe leaves a page untold, and it is overtaken.
LEMMA UntoldIsOvertaken ==
    ASSUME Proved!IInv, FeedsInv, ToldOrOvertaken, Moves
    PROVE  ToldOrOvertaken'
<1> USE DEF ToldOrOvertaken
<1>1. active \subseteq Context
    BY DEF FeedsInv, PagesTyped
<1>2. ASSUME NEW x \in Context, NEW p \in Payload, subscribe(x, p) PROVE ToldOrOvertaken'
    <2>1. /\ active' = active \cup {x}
          /\ overtaken' = (overtaken \cup {y \in active : FeedShown[y] = FeedShown[x]}) \ {x}
        BY <1>2 DEF subscribe, Overtakes
    <2>2. Held(x)' /\ \A y \in Context : FeedShown[y] # FeedShown[x] => (Held(y) => Held(y)')
        BY <1>2, SubscribeKeeps
    <2>3. ASSUME NEW y \in Context, y # x, FeedShown[y] = FeedShown[x]
          PROVE  Held(y)' \/ y \in overtaken'
        <3>1. CASE y \in active
            BY <2>1, <2>3, <3>1
        <3>2. CASE y \notin active
            BY <2>1, <2>3, <3>2 DEF Held
        <3> QED
            BY <3>1, <3>2
    <2>4. ASSUME NEW y \in Context, FeedShown[y] # FeedShown[x] PROVE Held(y)' \/ y \in overtaken'
        BY <2>1, <2>2, <2>4
    <2>5. overtaken' \subseteq active'
        BY <2>1
    <2> QED
        BY <2>2, <2>3, <2>4, <2>5
<1>3. ASSUME UNCHANGED <<clientVars, channelVars>> PROVE ToldOrOvertaken'
    BY <1>3 DEF clientVars, channelVars, Held, HasClient, EntryOf
<1>4. ASSUME NEW x \in Context, unsubscribe(x), x \in active PROVE ToldOrOvertaken'
    <2>1. /\ active' = active \ {x}
          /\ overtaken' = (overtaken \cup {y \in active : FeedShown[y] = FeedShown[x]}) \ {x}
        BY <1>4 DEF unsubscribe, Overtakes
    <2>2. \A y \in Context : FeedShown[y] # FeedShown[x] => (Held(y) => Held(y)')
        BY <1>4, UnsubscribeKeeps
    <2>3. ASSUME NEW y \in Context, FeedShown[y] = FeedShown[x] PROVE Held(y)' \/ y \in overtaken'
        BY <2>1, <2>3 DEF Held
    <2>4. ASSUME NEW y \in Context, FeedShown[y] # FeedShown[x] PROVE Held(y)' \/ y \in overtaken'
        BY <2>1, <2>2, <2>4
    <2>5. overtaken' \subseteq active'
        BY <2>1
    <2> QED
        BY <2>3, <2>4, <2>5
<1>5. CASE \E x \in Context : unsubscribe(x)
    BY <1>3, <1>4, <1>5 DEF unsubscribe
<1>6. CASE \E x \in Context : Flush(x)
    <2>1. active' = active /\ overtaken' = overtaken /\ \A x \in Context : Held(x) => Held(x)'
        BY <1>6, FlushKeeps DEF Flush
    <2> QED
        BY <2>1
<1>7. CASE ClientStep
    <2>1. \A x \in Context : Held(x) => Held(x)'
        BY <1>7, ClientStepKeeps
    <2>2. /\ active' = {x \in active : ~Told(x, "rejected")}
          /\ overtaken' = {x \in overtaken : ~Told(x, "rejected")}
        BY <1>7 DEF ClientStep, React
    <2>3. ASSUME NEW x \in Context, x \in overtaken PROVE Held(x)' \/ x \in overtaken'
        BY <1>1, <2>2, <2>3 DEF Held
    <2> QED
        BY <2>1, <2>2, <2>3
<1> QED
    BY <1>2, <1>3, <1>5, <1>6, <1>7 DEF Moves

\* What is told stays true of the page until the client tells something else.
LEMMA ToldKept ==
    ASSUME PagesInv, Moves
    PROVE  /\ ToldOwn' /\ \A e \in told' : e.handlers \in Context
           /\ \A e \in told' : e.what = "message" /\ state[e.handlers].connected =>
                                   e.payload = payload[e.handlers]
<1>1. /\ Proved!IInv /\ FeedsInv /\ PagesTyped /\ ToldOwn /\ \A e \in told : e.handlers \in Context
    BY DEF PagesInv, FeedsInv
<1>2. \A e \in told' : e.handlers \in Context
    <2>1. Proved!IInv'
        BY <1>1, ClientKept
    <2> QED
        BY <2>1 DEF Proved!IInv, Proved!ClientTyped, Proved!Event
<1>3. ASSUME told' = {} PROVE ToldOwn'
    BY <1>3 DEF ToldOwn
<1>4. ASSUME told' = told,
             \A y \in Context : state'[y].connected =>
                 state[y].connected /\ payload'[y] = payload[y]
      PROVE  ToldOwn'
    BY <1>1, <1>4 DEF ToldOwn
<1>5. CASE \E x \in Context, p \in Payload : subscribe(x, p)
    BY <1>2, <1>3, <1>5 DEF subscribe, Client!Subscribe
<1>6. CASE \E x \in Context : unsubscribe(x)
    <2>1. PICK x \in Context : unsubscribe(x)
        BY <1>6
    <2>2. told' = {} \/ told' = told
        BY <2>1 DEF unsubscribe, clientUnsubscribe, clientVars, Client!Unsubscribe
    <2>3. ASSUME NEW y \in Context, state'[y].connected
          PROVE  state[y].connected /\ payload'[y] = payload[y]
        <3>1. CASE x \notin active
            BY <2>1, <2>3, <3>1 DEF unsubscribe, channelVars
        <3>2. CASE x \in active
            BY <1>1, <2>1, <2>3, <3>2 DEF unsubscribe, clearChannel, EmptyState, PagesTyped
        <3> QED
            BY <3>1, <3>2
    <2>4. told' = told => ToldOwn'
        BY <1>4, <2>3
    <2> QED
        BY <1>1, <1>2, <1>3, <2>2, <2>4 DEF ToldOwn
<1>7. CASE \E x \in Context : Flush(x)
    <2>1. told' = told /\ payload' = payload /\ \A y \in Context : state'[y].connected = state[y].connected
        <3>1. PICK x \in Context : Flush(x)
            BY <1>7
        <3>2. /\ state' = [state EXCEPT ![x] = [state[x] EXCEPT !.messages = @ \cup buffer[x]]]
              /\ told' = told /\ payload' = payload
            BY <3>1 DEF Flush, clientVars
        <3>3. state \in [Context -> ChannelState]
            BY <1>1 DEF PagesTyped
        <3>4. [state[x] EXCEPT !.messages = @ \cup buffer[x]].connected = state[x].connected
            BY <3>3 DEF ChannelState
        <3> QED
            BY <3>2, <3>3, <3>4
    <2> QED
        BY <1>1, <1>2, <1>4, <2>1 DEF ToldOwn
<1>8. CASE ClientStep
    BY <1>1, <1>2, <1>8, MessagesTold DEF ToldOwn, PageSame
<1>9. CASE UNCHANGED <<clientVars, channelVars>>
    BY <1>1, <1>2, <1>9 DEF clientVars, channelVars, ToldOwn
<1> QED
    BY <1>5, <1>6, <1>7, <1>8, <1>9 DEF Moves

-----------------------------------------------------------------------------
(* The theorems                                                                        *)

LEMMA InitHolds == Init => PagesInv
<1> SUFFICES ASSUME Init PROVE PagesInv
    OBVIOUS
<1>1. Proved!IInv
    BY ClientInit, ClientsAssumption, Proved!InitHolds DEF Init
<1>2. PagesTyped
    BY DEF Init, PagesTyped, EmptyState, ChannelState
<1>3. told = {} /\ conn = "none" /\ \A f \in Feed : subscriptions[f] = NoSub
    BY DEF Init, Client!Init
<1>4. \A f \in Feed : FeedInv(f)
    BY <1>3 DEF Init, FeedInv, Holds, Answers, HearsItsOwn, EmptyState
<1>5. ReplacingIsEmpty /\ ToldOrOvertaken
    BY DEF Init, ReplacingIsEmpty, ToldOrOvertaken, Held
<1> QED
    BY <1>1, <1>2, <1>3, <1>4, <1>5 DEF PagesInv, FeedsInv, ToldOwn

LEMMA NextKeeps == PagesInv /\ [Next]_vars => PagesInv'
<1> SUFFICES ASSUME PagesInv, [Next]_vars PROVE PagesInv'
    OBVIOUS
<1>1. Proved!IInv /\ FeedsInv /\ PagesTyped /\ ReplacingIsEmpty /\ ToldOrOvertaken
    BY DEF PagesInv, FeedsInv
<1>2. Moves
    BY <1>1, StepsMove
<1>3. Proved!IInv' /\ (\A g \in Feed : FeedInv(g)') /\ ChannelsTyped' /\ ReplacingIsEmpty'
    BY <1>1, <1>2, ClientKept, FeedsKept, ChannelsKept
<1>4. shown' \in [Screen -> Context \cup {NoSub}]
    BY <1>1, ShownKept
<1>5. FeedsInv'
    BY <1>3, <1>4 DEF FeedsInv, PagesTyped, ChannelsTyped
<1>6. ToldOwn' /\ \A e \in told' : e.handlers \in Context
    BY <1>2, ToldKept
<1>7. ToldOrOvertaken'
    BY <1>1, <1>2, UntoldIsOvertaken
<1> QED
    BY <1>3, <1>4, <1>5, <1>6, <1>7 DEF PagesInv

\* The invariant of the pages, their client and its connection holds in every
\* reachable state.
THEOREM PagesInvariant == Spec => []PagesInv
<1> QED
    BY InitHolds, NextKeeps, PTL DEF Spec

\* The variables of the pages and of the client under them keep their types.
THEOREM PagesTypes == Spec => []TypeOK
<1>1. Proved!UpFrame \subseteq Client!Server!ClientFrame /\ Proved!DownFrame \subseteq Client!Server!ServerFrame
    BY DEF Proved!UpFrame, Proved!DownFrame, Client!Server!ClientFrame, Client!Server!ServerFrame
<1>2. PagesInv => TypeOK
    <2> SUFFICES ASSUME PagesInv PROVE TypeOK
        OBVIOUS
    <2>1. Proved!FeedsTyped /\ Proved!ClientTyped /\ PagesTyped /\ overtaken \subseteq active
        BY DEF PagesInv, Proved!IInv, FeedsInv, ToldOrOvertaken
    <2>2. Seq(Proved!UpFrame) \subseteq Seq(Client!Server!ClientFrame)
          /\ Seq(Proved!DownFrame) \subseteq Seq(Client!Server!ServerFrame)
        BY <1>1
    <2>3. Client!Server!ServerTypeOK
        BY <2>1, <2>2 DEF Proved!FeedsTyped, Client!Server!ServerTypeOK
    <2>4. Client!TypeOK
        BY <2>1, <2>3 DEF Proved!ClientTyped, Client!TypeOK, Proved!Subscription, Client!Subscription,
                          Proved!Publish, Client!Publish, Proved!Event, Client!Event
    <2> QED
        BY <2>1, <2>4 DEF PagesTyped, TypeOK
<1> QED
    BY <1>2, PagesInvariant, PTL

\* From a changed Subscribe until its ack the page shows nothing of the channel, and
\* is not connected.
THEOREM PagesReplaceEmpty == Spec => []ReplacingIsEmpty
<1>1. PagesInv => ReplacingIsEmpty
    BY DEF PagesInv
<1> QED
    BY <1>1, PagesInvariant, PTL

\* The page the client tells about a feed holds it for open with the payload it
\* evaluated last, and a page that holds its feed for open is that one unless another
\* page has subscribed to the feed or unsubscribed from it since.
THEOREM PagesAreSubscribed == Spec => []ActiveIsSubscribed
<1>1. PagesInv => ActiveIsSubscribed
    <2> SUFFICES ASSUME PagesInv, NEW x \in Context
                 PROVE  /\ HasClient(x) => x \in active /\ subscription[EntryOf(x)].payload = payload[x]
                        /\ x \in active => HasClient(x) \/ x \in overtaken
        BY DEF ActiveIsSubscribed
    <2>1. Holds(FeedShown[x]) /\ (Held(x) \/ x \in overtaken)
        BY ContextFacts DEF PagesInv, FeedsInv, FeedInv, ToldOrOvertaken
    <2> QED
        BY <2>1 DEF Held, Holds, HasClient, EntryOf
<1> QED
    BY <1>1, PagesInvariant, PTL

\* No page is overtaken that has its feed for itself: it holds it for open exactly
\* while the client tells it about it.
THEOREM OwnFeedsAreTold ==
    ASSUME \A x, y \in Context : FeedShown[x] = FeedShown[y] => x = y
    PROVE  Spec => [](\A x \in Context : x \in active <=> HasClient(x))
<1> DEFINE Own == PagesInv /\ overtaken = {}
<1>1. Init => Own
    BY InitHolds DEF Init
<1>2. Own /\ [Next]_vars => Own'
    <2> SUFFICES ASSUME PagesInv, overtaken = {}, [Next]_vars PROVE overtaken' = {}
        BY NextKeeps
    <2>1. Moves /\ active \subseteq Context
        BY StepsMove DEF PagesInv, FeedsInv, PagesTyped
    <2> QED
        BY <2>1 DEF Moves, subscribe, unsubscribe, Overtakes, Flush, ClientStep, React, channelVars
<1>3. Own => \A x \in Context : x \in active <=> HasClient(x)
    <2> SUFFICES ASSUME Own, NEW x \in Context PROVE x \in active <=> HasClient(x)
        OBVIOUS
    <2>1. Holds(FeedShown[x]) /\ Held(x)
        BY ContextFacts DEF PagesInv, FeedsInv, FeedInv, ToldOrOvertaken
    <2> QED
        BY <2>1 DEF Held, Holds, HasClient, EntryOf
<1> QED
    BY <1>1, <1>2, <1>3, PTL DEF Spec

\* Whatever a connected page receives was sent for its current payload, also where two
\* mounted pages show one feed.
THEOREM PagesHearTheirOwn == Spec => ConnectedHearsItsOwn
<1>1. PagesInv /\ [Next]_vars =>
          [\A e \in told' : e.what = "message" /\ state[e.handlers].connected =>
                                e.payload = payload[e.handlers]]_vars
    <2> SUFFICES ASSUME PagesInv, [Next]_vars
                 PROVE  \A e \in told' : e.what = "message" /\ state[e.handlers].connected =>
                                e.payload = payload[e.handlers]
        OBVIOUS
    <2>1. Moves
        BY StepsMove DEF PagesInv, FeedsInv
    <2> QED
        BY <2>1, ToldKept
<1> QED
    BY <1>1, PagesInvariant, PTL DEF Spec, ConnectedHearsItsOwn
=============================================================================
