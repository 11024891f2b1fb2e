--------------------------- MODULE WebSocketClientProofs ---------------------------
(* The client of a tab: whoever waits has a timer or a connection coming, and client  *)
(* and server agree once nothing is on its way, for any feeds, callers and payloads   *)
(* and any number of frames in flight.                                                 *)
EXTENDS WebSocketClient, FiniteSetTheorems, TLAPS

-----------------------------------------------------------------------------
(* One feed of an open connection: its frames u and d on their way up and down,        *)
(* where the server is (h, s), and what the client asks for now (a).                   *)

UpFrame ==
    [type : {"subscribe"}, request : SubRequest, payload : Payload]
      \cup [type : {"unsubscribe"}, request : {NoRequest}, payload : {NoPayload}]
      \cup [type : {"publish"}, request : PubId, payload : {NoPayload}]

DownFrame ==
    [type : {"message"}, request : {NoRequest}, payload : Payload]
      \cup [type : {"subscribed"}, request : SubRequest, payload : {NoPayload}]
      \cup [type : {"published"}, request : PubId, payload : {NoPayload}]
      \cup [type : {"error"}, request : SubRequest \cup PubId \cup {NoRequest}, payload : {NoPayload}]

Ask == [request : SubRequest \cup {NoRequest}, payload : Payload \cup {NoPayload}]
Nothing == [request |-> NoRequest, payload |-> NoPayload]

IsAsk(frame) == frame.type # "publish"
NoAsks(u) == \A i \in DOMAIN u : ~IsAsk(u[i])
LastAsk(u, i) == IsAsk(u[i]) /\ \A j \in i + 1..Len(u) : ~IsAsk(u[j])

\* The last ask on its way is the client's; without one, what is served is.
AsksAgree(u, a) ==
    \/ NoAsks(u)
    \/ \E i \in DOMAIN u : LastAsk(u, i) /\ u[i].request = a.request /\ u[i].payload = a.payload
ServesTheAsk(u, s, a) == NoAsks(u) /\ s # NoPayload => s = a.payload

HandlesTheFirst(u, h, s) ==
    /\ h \in {"idle", "preparing", "registered"}
    /\ h # "idle" => u # <<>> /\ Head(u).type = "subscribe"
    /\ h = "preparing" => s = NoPayload
    /\ h = "registered" => s \in {NoPayload, Head(u).payload}

\* No two subscribes on their way, and no subscribe and reply, share a request.
RequestsDiffer(u, d) ==
    /\ \A i, j \in DOMAIN u : u[i].request = u[j].request /\ u[i].type = "subscribe" /\ u[j].type = "subscribe"
                                 => i = j
    /\ \A i \in DOMAIN u, j \in DOMAIN d : u[i].type = "subscribe" => u[i].request # d[j].request

\* A refusal of what the client asks for is the server's last word.
RefusedIsLast(u, d, s, a) ==
    \A j \in DOMAIN d : d[j].type = "error" /\ d[j].request \in SubRequest /\ d[j].request = a.request
        => NoAsks(u) /\ s = NoPayload

FeedOK(u, d, h, s, a) ==
    /\ AsksAgree(u, a) /\ ServesTheAsk(u, s, a) /\ HandlesTheFirst(u, h, s)
    /\ RequestsDiffer(u, d) /\ RefusedIsLast(u, d, s, a)

LEMMA PoppedFacts ==
    ASSUME NEW S, NEW q \in Seq(S), q # <<>>
    PROVE  /\ Head(q) = q[1] /\ q[1] \in S /\ Len(q) \in Nat \ {0} /\ DOMAIN q = 1..Len(q)
           /\ Tail(q) \in Seq(S) /\ DOMAIN Tail(q) = 1..Len(q) - 1 /\ Len(Tail(q)) = Len(q) - 1
           /\ \A i \in 1..Len(q) - 1 : i + 1 \in 1..Len(q) /\ Tail(q)[i] = q[i + 1]
    OBVIOUS

LEMMA AppendedFacts ==
    ASSUME NEW S, NEW q \in Seq(S), NEW x \in S
    PROVE  /\ Append(q, x) \in Seq(S) /\ DOMAIN q = 1..Len(q) /\ Len(q) \in Nat
           /\ DOMAIN Append(q, x) = 1..Len(q) + 1 /\ Len(Append(q, x)) = Len(q) + 1
           /\ \A i \in 1..Len(q) : Append(q, x)[i] = q[i]
           /\ Append(q, x)[Len(q) + 1] = x /\ Append(q, x) # <<>>
           /\ q # <<>> => Head(Append(q, x)) = Head(q)
<1>1. Append(q, x) \in Seq(S)
    OBVIOUS
<1>2. /\ DOMAIN q = 1..Len(q) /\ Len(q) \in Nat
      /\ Len(Append(q, x)) = Len(q) + 1
      /\ \A i \in 1..Len(q) : Append(q, x)[i] = q[i]
      /\ Append(q, x)[Len(q) + 1] = x
    OBVIOUS
<1>3. DOMAIN Append(q, x) = 1..Len(q) + 1
    BY <1>1, <1>2
<1>4. Append(q, x) # <<>>
    BY <1>2
<1>5. q # <<>> => Head(Append(q, x)) = Head(q)
    <2> SUFFICES ASSUME q # <<>> PROVE Head(Append(q, x)) = Head(q)
        OBVIOUS
    <2>1. 1 \in 1..Len(q) /\ Head(q) = q[1]
        BY <1>2
    <2>2. Head(Append(q, x)) = Append(q, x)[1]
        BY <1>1, <1>4
    <2> QED
        BY <1>2, <2>1, <2>2
<1> QED
    BY <1>1, <1>2, <1>3, <1>4, <1>5

LEMMA JoinedFacts ==
    ASSUME NEW S, NEW q \in Seq(S), NEW x \in S
    PROVE  q \o <<x>> = Append(q, x) /\ q \o <<>> = q
<1>1. q \o <<>> = q
    OBVIOUS
<1>2. /\ q \o <<x>> \in Seq(S) /\ Append(q, x) \in Seq(S)
      /\ Len(q \o <<x>>) = Len(Append(q, x))
      /\ \A i \in 1..Len(q) + 1 : (q \o <<x>>)[i] = Append(q, x)[i]
    OBVIOUS
<1>3. q \o <<x>> = Append(q, x)
    BY <1>2, AppendedFacts
<1> QED
    BY <1>1, <1>3

\* Taking the first frame u away leaves the asks behind it.
LEMMA TailAsks ==
    ASSUME NEW u \in Seq(UpFrame), u # <<>>, NEW a, AsksAgree(u, a)
    PROVE  /\ AsksAgree(Tail(u), a)
           /\ NoAsks(Tail(u)) /\ IsAsk(Head(u)) => Head(u).request = a.request /\ Head(u).payload = a.payload
           /\ NoAsks(u) => NoAsks(Tail(u))
           /\ NoAsks(Tail(u)) /\ ~IsAsk(Head(u)) => NoAsks(u)
<1> DEFINE t == Tail(u)
<1>1. /\ Head(u) = u[1] /\ Len(u) \in Nat \ {0} /\ DOMAIN u = 1..Len(u)
      /\ DOMAIN t = 1..Len(u) - 1 /\ Len(t) = Len(u) - 1
      /\ \A i \in 1..Len(u) - 1 : i + 1 \in 1..Len(u) /\ t[i] = u[i + 1]
    BY PoppedFacts
<1> HIDE DEF t
<1>2. ASSUME NEW j \in 1..Len(u), j # 1
      PROVE  j - 1 \in DOMAIN t /\ t[j - 1] = u[j]
    <2>1. j - 1 \in 1..Len(u) - 1 /\ (j - 1) + 1 = j
        BY <1>1, <1>2
    <2> QED
        BY <1>1, <2>1
<1>3. NoAsks(u) => NoAsks(t)
    BY <1>1 DEF NoAsks
<1>4. ASSUME NoAsks(t), ~IsAsk(Head(u)) PROVE NoAsks(u)
    BY <1>1, <1>2, <1>4 DEF NoAsks
<1>5. CASE NoAsks(u)
    BY <1>1, <1>3, <1>4, <1>5 DEF AsksAgree, NoAsks, t
<1>6. ASSUME NEW i \in DOMAIN u, LastAsk(u, i), u[i].request = a.request, u[i].payload = a.payload
      PROVE  /\ AsksAgree(t, a)
             /\ NoAsks(t) => Head(u).request = a.request /\ Head(u).payload = a.payload
    <2>1. CASE i = 1
        <3>1. \A j \in 1..Len(u) - 1 : j + 1 \in i + 1..Len(u)
            BY <1>1, <2>1
        <3>2. NoAsks(t)
            BY <1>1, <1>6, <3>1 DEF NoAsks, LastAsk
        <3> QED
            BY <1>1, <1>6, <2>1, <3>2 DEF AsksAgree
    <2>2. CASE i # 1
        <3>1. i - 1 \in DOMAIN t /\ t[i - 1] = u[i]
            BY <1>1, <1>2, <2>2
        <3>2. \A j \in (i - 1) + 1..Len(u) - 1 : j \in 1..Len(u) - 1 /\ j + 1 \in i + 1..Len(u)
            BY <1>1, <2>2
        <3>3. LastAsk(t, i - 1)
            BY <1>1, <1>6, <3>1, <3>2 DEF LastAsk
        <3> QED
            BY <1>6, <3>1, <3>3 DEF AsksAgree, NoAsks, LastAsk
    <2> QED
        BY <2>1, <2>2
<1>7. CASE ~NoAsks(u)
    BY <1>3, <1>4, <1>6, <1>7 DEF AsksAgree, t
<1> QED
    BY <1>5, <1>7

LEMMA TailRequests ==
    ASSUME NEW u \in Seq(UpFrame), u # <<>>, NEW d, RequestsDiffer(u, d)
    PROVE  /\ RequestsDiffer(Tail(u), d)
           /\ Head(u).type = "subscribe" => \A i \in DOMAIN Tail(u) :
                  Tail(u)[i].type = "subscribe" => Tail(u)[i].request # Head(u).request
<1> DEFINE t == Tail(u)
<1>1. /\ Head(u) = u[1] /\ Len(u) \in Nat \ {0} /\ DOMAIN u = 1..Len(u) /\ DOMAIN t = 1..Len(u) - 1
      /\ \A i \in 1..Len(u) - 1 : i + 1 \in 1..Len(u) /\ t[i] = u[i + 1]
    BY PoppedFacts
<1> HIDE DEF t
<1>2. \A i, j \in 1..Len(u) - 1 : (i + 1 = j + 1 => i = j) /\ i + 1 # 1
    OBVIOUS
<1>3. RequestsDiffer(t, d)
    <2>1. ASSUME NEW i \in DOMAIN t, NEW j \in DOMAIN t, t[i].request = t[j].request,
                 t[i].type = "subscribe", t[j].type = "subscribe"
          PROVE  i = j
        BY <1>1, <1>2, <2>1 DEF RequestsDiffer
    <2>2. ASSUME NEW i \in DOMAIN t, NEW j \in DOMAIN d, t[i].type = "subscribe"
          PROVE  t[i].request # d[j].request
        BY <1>1, <2>2 DEF RequestsDiffer
    <2> QED
        BY <2>1, <2>2 DEF RequestsDiffer
<1>4. ASSUME Head(u).type = "subscribe", NEW i \in DOMAIN t, t[i].type = "subscribe"
      PROVE  t[i].request # Head(u).request
    BY <1>1, <1>2, <1>4 DEF RequestsDiffer
<1> QED
    BY <1>3, <1>4 DEF t

LEMMA AppendAsks ==
    ASSUME NEW u \in Seq(UpFrame), NEW frame \in UpFrame, NEW a
    PROVE  /\ IsAsk(frame) => /\ ~NoAsks(Append(u, frame))
                              /\ frame.request = a.request /\ frame.payload = a.payload
                                     => AsksAgree(Append(u, frame), a)
           /\ ~IsAsk(frame) => /\ AsksAgree(u, a) => AsksAgree(Append(u, frame), a)
                               /\ NoAsks(Append(u, frame)) <=> NoAsks(u)
<1> DEFINE t == Append(u, frame)
           n == Len(u)
<1>1. /\ DOMAIN u = 1..n /\ n \in Nat /\ DOMAIN t = 1..n + 1 /\ Len(t) = n + 1
      /\ t[n + 1] = frame /\ \A i \in 1..n : t[i] = u[i]
    BY AppendedFacts
<1> HIDE DEF t, n
<1>2. /\ n + 1 \in 1..n + 1 /\ \A j \in (n + 1) + 1..n + 1 : FALSE
      /\ \A i \in 1..n + 1 : i \in 1..n \/ i = n + 1
      /\ \A i \in 1..n : i \in 1..n + 1
    BY <1>1
<1>3. CASE IsAsk(frame)
    <2>1. ~NoAsks(t) /\ LastAsk(t, n + 1)
        BY <1>1, <1>2, <1>3 DEF NoAsks, LastAsk
    <2> QED
        BY <1>1, <1>2, <1>3, <2>1 DEF AsksAgree, t
<1>4. CASE ~IsAsk(frame)
    <2>1. NoAsks(t) <=> NoAsks(u)
        BY <1>1, <1>2, <1>4 DEF NoAsks
    <2>2. ASSUME NEW i \in 1..n, LastAsk(u, i) PROVE LastAsk(t, i)
        <3>1. \A j \in i + 1..n + 1 : (j \in i + 1..n /\ j \in 1..n) \/ j = n + 1
            BY <1>1
        <3> QED
            BY <1>1, <1>4, <2>2, <3>1 DEF LastAsk, n
    <2>3. AsksAgree(u, a) => AsksAgree(t, a)
        BY <1>1, <1>2, <2>1, <2>2 DEF AsksAgree
    <2> QED
        BY <1>4, <2>1, <2>3 DEF t
<1> QED
    BY <1>3, <1>4

-----------------------------------------------------------------------------
(* What each end does to a feed                                                        *)

LEMMA ServerBegins ==
    ASSUME NEW u \in Seq(UpFrame), NEW d \in Seq(DownFrame), NEW s, NEW a \in Ask,
           FeedOK(u, d, "idle", s, a), u # <<>>, Head(u).type = "subscribe"
    PROVE  FeedOK(u, d, "preparing", NoPayload, a)
<1>1. ~NoAsks(u)
    BY PoppedFacts DEF NoAsks, IsAsk
<1> QED
    BY <1>1 DEF FeedOK, ServesTheAsk, HandlesTheFirst, RefusedIsLast

LEMMA ServerRegisters ==
    ASSUME NEW u \in Seq(UpFrame), NEW d \in Seq(DownFrame), NEW s, NEW a \in Ask,
           FeedOK(u, d, "preparing", s, a)
    PROVE  FeedOK(u, d, "registered", Head(u).payload, a)
<1>1. u # <<>> /\ Head(u).type = "subscribe" /\ ~NoAsks(u)
    BY PoppedFacts DEF FeedOK, HandlesTheFirst, NoAsks, IsAsk
<1> QED
    BY <1>1 DEF FeedOK, ServesTheAsk, HandlesTheFirst, RefusedIsLast

\* The first frame is done with: reply is what the client is sent, if anything.
LEMMA ServerFinishes ==
    ASSUME NEW u \in Seq(UpFrame), NEW d \in Seq(DownFrame), NEW h, NEW s, NEW s1, NEW a \in Ask,
           NEW e \in Seq(DownFrame), FeedOK(u, d, h, s, a), u # <<>>,
           e = d \/ \E reply \in DownFrame :
                        /\ e = Append(d, reply) /\ reply.request = Head(u).request
                        /\ reply.type = "error" /\ reply.request \in SubRequest => s = NoPayload,
           s1 \in {s, NoPayload}, ServesTheAsk(Tail(u), s1, a)
    PROVE  FeedOK(Tail(u), e, "idle", s1, a)
<1> DEFINE t == Tail(u)
<1>1. /\ AsksAgree(t, a) /\ HandlesTheFirst(t, "idle", s1) /\ RequestsDiffer(t, d)
      /\ NoAsks(u) => NoAsks(t)
    BY TailAsks, TailRequests DEF FeedOK, HandlesTheFirst
<1>2. Head(u) = u[1] /\ u[1] \in UpFrame /\ 1 \in DOMAIN u /\ t \in Seq(UpFrame)
    BY PoppedFacts
<1>3. CASE e = d
    BY <1>1, <1>3 DEF FeedOK, RefusedIsLast
<1>4. ASSUME NEW reply \in DownFrame, e = Append(d, reply), reply.request = Head(u).request,
             reply.type = "error" /\ reply.request \in SubRequest => s = NoPayload
      PROVE  FeedOK(t, e, "idle", s1, a)
    <2>1. /\ DOMAIN e = 1..Len(d) + 1 /\ DOMAIN d = 1..Len(d) /\ Len(d) \in Nat
          /\ e[Len(d) + 1] = reply /\ \A j \in 1..Len(d) : e[j] = d[j]
        BY <1>4, AppendedFacts
    <2>2. \A j \in 1..Len(d) + 1 : j \in 1..Len(d) \/ j = Len(d) + 1
        BY <2>1
    <2>3. ASSUME NEW i \in DOMAIN t, t[i].type = "subscribe"
          PROVE  t[i].request # reply.request
        <3>1. CASE Head(u).type = "subscribe"
            BY <1>4, <2>3, <3>1, TailRequests DEF FeedOK
        <3>2. CASE Head(u).type # "subscribe"
            <4>1. reply.request \notin SubRequest
                BY <1>2, <1>4, <3>2, ClientAssumption DEF UpFrame
            <4>2. t[i] \in UpFrame
                BY <1>2, <2>3
            <4> QED
                BY <2>3, <4>1, <4>2 DEF UpFrame
        <3> QED
            BY <3>1, <3>2
    <2>4. RequestsDiffer(t, e)
        <3>1. ASSUME NEW i \in DOMAIN t, NEW j \in DOMAIN e, t[i].type = "subscribe"
              PROVE  t[i].request # e[j].request
            BY <1>1, <2>1, <2>2, <2>3, <3>1 DEF RequestsDiffer
        <3> QED
            BY <1>1, <3>1 DEF RequestsDiffer
    <2>5. ASSUME reply.type = "error", reply.request \in SubRequest, reply.request = a.request
          PROVE  NoAsks(t) /\ s1 = NoPayload
        <3>1. Head(u).type = "subscribe"
            BY <1>2, <1>4, <2>5, ClientAssumption DEF UpFrame
        <3>2. ASSUME NEW k \in DOMAIN t, LastAsk(t, k), t[k].request = a.request PROVE FALSE
            <4>1. t[k] \in UpFrame /\ IsAsk(t[k])
                BY <1>2, <3>2 DEF LastAsk
            <4>2. t[k].type = "subscribe"
                BY <2>5, <3>2, <4>1, ClientAssumption DEF UpFrame, IsAsk
            <4> QED
                BY <2>3, <2>5, <3>2, <4>2
        <3> QED
            BY <1>1, <1>4, <2>5, <3>2 DEF AsksAgree
    <2>6. RefusedIsLast(t, e, s1, a)
        BY <1>1, <2>1, <2>2, <2>5 DEF FeedOK, RefusedIsLast
    <2> QED
        BY <1>1, <2>4, <2>6 DEF FeedOK
<1> QED
    BY <1>3, <1>4

LEMMA SubscribeRefused ==
    ASSUME NEW u \in Seq(UpFrame), NEW d \in Seq(DownFrame), NEW s, NEW a \in Ask, NEW reply \in DownFrame,
           FeedOK(u, d, "preparing", s, a), reply = Server!Reply("error", Head(u).request)
    PROVE  FeedOK(Tail(u), Append(d, reply), "idle", s, a)
<1>1. u # <<>> /\ s = NoPayload /\ reply.request = Head(u).request
    BY DEF FeedOK, HandlesTheFirst, Server!Reply
<1>2. ServesTheAsk(Tail(u), s, a)
    BY <1>1 DEF ServesTheAsk
<1> QED
    BY <1>1, <1>2, ServerFinishes, AppendedFacts

LEMMA SubscribeGranted ==
    ASSUME NEW u \in Seq(UpFrame), NEW d \in Seq(DownFrame), NEW s, NEW a \in Ask, NEW reply \in DownFrame,
           FeedOK(u, d, "registered", s, a), reply = Server!Reply("subscribed", Head(u).request)
    PROVE  FeedOK(Tail(u), Append(d, reply), "idle", s, a)
<1>1. /\ u # <<>> /\ Head(u).type = "subscribe" /\ s \in {NoPayload, Head(u).payload}
      /\ reply.request = Head(u).request /\ reply.type # "error"
    BY DEF FeedOK, HandlesTheFirst, Server!Reply
<1>2. ServesTheAsk(Tail(u), s, a)
    BY <1>1, TailAsks DEF ServesTheAsk, FeedOK, IsAsk
<1> QED
    BY <1>1, <1>2, ServerFinishes, AppendedFacts

LEMMA UnsubscribeHandled ==
    ASSUME NEW u \in Seq(UpFrame), NEW d \in Seq(DownFrame), NEW h, NEW s, NEW a \in Ask,
           FeedOK(u, d, h, s, a), u # <<>>
    PROVE  FeedOK(Tail(u), d, "idle", NoPayload, a)
<1>1. ServesTheAsk(Tail(u), NoPayload, a)
    BY DEF ServesTheAsk
<1> QED
    BY <1>1, ServerFinishes

LEMMA PublishHandled ==
    ASSUME NEW u \in Seq(UpFrame), NEW d \in Seq(DownFrame), NEW h, NEW s, NEW a \in Ask, NEW reply \in DownFrame,
           FeedOK(u, d, h, s, a), u # <<>>, Head(u).type = "publish",
           reply.request = Head(u).request
    PROVE  FeedOK(Tail(u), Append(d, reply), "idle", s, a)
<1>1. ServesTheAsk(Tail(u), s, a)
    BY TailAsks DEF ServesTheAsk, FeedOK, IsAsk
<1>2. reply.request \notin SubRequest
    BY PoppedFacts, ClientAssumption DEF UpFrame
<1> QED
    BY <1>1, <1>2, ServerFinishes, AppendedFacts

\* The source's frames name no request; when it gives up nothing is served.
LEMMA SourceSends ==
    ASSUME NEW u \in Seq(UpFrame), NEW d \in Seq(DownFrame), NEW h, NEW s, NEW a \in Ask, NEW frame \in DownFrame,
           FeedOK(u, d, h, s, a), frame.request = NoRequest, NEW s1 \in {s, NoPayload}
    PROVE  FeedOK(u, Append(d, frame), h, s1, a)
<1> DEFINE e == Append(d, frame)
<1>1. /\ DOMAIN e = 1..Len(d) + 1 /\ DOMAIN d = 1..Len(d) /\ Len(d) \in Nat
      /\ e[Len(d) + 1] = frame /\ \A j \in 1..Len(d) : e[j] = d[j]
    BY AppendedFacts
<1>2. \A j \in 1..Len(d) + 1 : j \in 1..Len(d) \/ j = Len(d) + 1
    BY <1>1
<1>3. \A i \in DOMAIN u : u[i].type = "subscribe" => u[i].request # NoRequest
    <2> TAKE i \in DOMAIN u
    <2>1. u[i] \in UpFrame
        OBVIOUS
    <2> QED
        BY <2>1, ClientAssumption DEF UpFrame
<1> HIDE DEF e
<1>4. RequestsDiffer(u, e)
    BY <1>1, <1>2, <1>3 DEF FeedOK, RequestsDiffer
<1>5. RefusedIsLast(u, e, s1, a)
    BY <1>1, <1>2, ClientAssumption DEF FeedOK, RefusedIsLast
<1> QED
    BY <1>4, <1>5 DEF FeedOK, ServesTheAsk, HandlesTheFirst, e

LEMMA ClientTakes ==
    ASSUME NEW u \in Seq(UpFrame), NEW d \in Seq(DownFrame), NEW h, NEW s, NEW a \in Ask,
           FeedOK(u, d, h, s, a), d # <<>>
    PROVE  /\ FeedOK(u, Tail(d), h, s, a) /\ Tail(d) \in Seq(DownFrame)
           /\ Head(d).type = "error" /\ Head(d).request \in SubRequest /\ Head(d).request = a.request
                  => FeedOK(u, Tail(d), h, s, Nothing)
<1> DEFINE e == Tail(d)
<1>1. /\ Head(d) = d[1] /\ 1 \in DOMAIN d /\ e \in Seq(DownFrame)
      /\ \A i \in DOMAIN e : i + 1 \in DOMAIN d /\ e[i] = d[i + 1]
    BY PoppedFacts
<1> HIDE DEF e
<1>2. RequestsDiffer(u, e) /\ RefusedIsLast(u, e, s, a)
    <2>1. RequestsDiffer(u, e)
        BY <1>1 DEF FeedOK, RequestsDiffer
    <2>2. RefusedIsLast(u, e, s, a)
        BY <1>1 DEF FeedOK, RefusedIsLast
    <2> QED
        BY <2>1, <2>2
<1>3. ASSUME Head(d).type = "error", Head(d).request \in SubRequest, Head(d).request = a.request
      PROVE  AsksAgree(u, Nothing) /\ ServesTheAsk(u, s, Nothing) /\ RefusedIsLast(u, e, s, Nothing)
    <2>1. NoAsks(u) /\ s = NoPayload
        BY <1>1, <1>3 DEF FeedOK, RefusedIsLast
    <2> QED
        BY <2>1 DEF AsksAgree, ServesTheAsk, RefusedIsLast
<1> QED
    BY <1>1, <1>2, <1>3 DEF FeedOK, HandlesTheFirst, e

\* The client sends what it asks for from now on.
LEMMA AskSent ==
    ASSUME NEW u \in Seq(UpFrame), NEW d \in Seq(DownFrame), NEW h, NEW s, NEW a, NEW b \in Ask,
           NEW frame \in UpFrame, FeedOK(u, d, h, s, a), IsAsk(frame),
           frame.request = b.request, frame.payload = b.payload,
           frame.type = "subscribe" => /\ \A i \in DOMAIN u : u[i].request # frame.request
                                       /\ \A j \in DOMAIN d : d[j].request # frame.request
    PROVE  FeedOK(Append(u, frame), d, h, s, b)
<1> DEFINE t == Append(u, frame)
<1>1. /\ DOMAIN u = 1..Len(u) /\ Len(u) \in Nat /\ DOMAIN t = 1..Len(u) + 1
      /\ t[Len(u) + 1] = frame /\ \A i \in 1..Len(u) : t[i] = u[i]
      /\ t # <<>> /\ (u # <<>> => Head(t) = Head(u))
    BY AppendedFacts
<1>2. \A i \in 1..Len(u) + 1 : i \in 1..Len(u) \/ i = Len(u) + 1
    BY <1>1
<1>3. AsksAgree(t, b) /\ ~NoAsks(t)
    BY AppendAsks
<1>4. frame.type # "subscribe" => frame.request \notin SubRequest
    BY ClientAssumption DEF UpFrame, IsAsk
<1> HIDE DEF t
<1>5. RequestsDiffer(t, d)
    BY <1>1, <1>2 DEF FeedOK, RequestsDiffer
<1>6. RefusedIsLast(t, d, s, b)
    BY <1>4 DEF RefusedIsLast
<1>7. HandlesTheFirst(t, h, s)
    BY <1>1 DEF FeedOK, HandlesTheFirst
<1> QED
    BY <1>3, <1>5, <1>6, <1>7 DEF FeedOK, ServesTheAsk, t

LEMMA PublishSent ==
    ASSUME NEW u \in Seq(UpFrame), NEW d \in Seq(DownFrame), NEW h, NEW s, NEW a,
           NEW frame \in UpFrame, FeedOK(u, d, h, s, a), ~IsAsk(frame)
    PROVE  FeedOK(Append(u, frame), d, h, s, a)
<1> DEFINE t == Append(u, frame)
<1>1. /\ DOMAIN u = 1..Len(u) /\ Len(u) \in Nat /\ DOMAIN t = 1..Len(u) + 1
      /\ t[Len(u) + 1] = frame /\ \A i \in 1..Len(u) : t[i] = u[i]
      /\ t # <<>> /\ (u # <<>> => Head(t) = Head(u))
    BY AppendedFacts
<1>2. \A i \in 1..Len(u) + 1 : i \in 1..Len(u) \/ i = Len(u) + 1
    BY <1>1
<1>3. AsksAgree(t, a) /\ (NoAsks(t) <=> NoAsks(u))
    BY AppendAsks DEF FeedOK
<1> HIDE DEF t
<1>4. RequestsDiffer(t, d)
    BY <1>1, <1>2 DEF FeedOK, RequestsDiffer, IsAsk
<1>5. HandlesTheFirst(t, h, s)
    BY <1>1 DEF FeedOK, HandlesTheFirst
<1>6. RefusedIsLast(t, d, s, a)
    BY <1>3 DEF FeedOK, RefusedIsLast
<1> QED
    BY <1>3, <1>4, <1>5, <1>6 DEF FeedOK, ServesTheAsk, t

\* A new connection carries a subscribe, if there is one to make, and publishes ps.
LEMMA OpenedFeed ==
    ASSUME NEW ps \in Seq(UpFrame), NoAsks(ps), NEW a \in Ask,
           NEW frame \in UpFrame, frame.type = "subscribe",
           frame.request = a.request, frame.payload = a.payload
    PROVE  /\ ps \in Seq(UpFrame) /\ FeedOK(ps, <<>>, "idle", NoPayload, Nothing)
           /\ <<frame>> \o ps \in Seq(UpFrame) /\ FeedOK(<<frame>> \o ps, <<>>, "idle", NoPayload, a)
<1> DEFINE u == <<frame>> \o ps
<1>1. /\ u \in Seq(UpFrame) /\ Len(ps) \in Nat /\ Len(u) = Len(ps) + 1 /\ u[1] = frame
      /\ \A i \in 1..Len(ps) : u[i + 1] = ps[i]
    OBVIOUS
<1>2. DOMAIN u = 1..Len(ps) + 1 /\ DOMAIN ps = 1..Len(ps) /\ Len(u) = Len(ps) + 1
    BY <1>1
<1> HIDE DEF u
<1>3. ASSUME NEW j \in 1..Len(ps) + 1, j # 1 PROVE ~IsAsk(u[j])
    <2>1. j - 1 \in 1..Len(ps) /\ (j - 1) + 1 = j
        BY <1>1, <1>3
    <2> QED
        BY <1>1, <1>2, <2>1 DEF NoAsks
<1>4. \A j \in 1 + 1..Len(ps) + 1 : j \in 1..Len(ps) + 1 /\ j # 1
    BY <1>1
<1>5. LastAsk(u, 1) /\ 1 \in DOMAIN u
    BY <1>1, <1>2, <1>3, <1>4 DEF LastAsk, IsAsk
<1>6. RequestsDiffer(u, <<>>)
    BY <1>2, <1>3 DEF RequestsDiffer, IsAsk
<1>7. FeedOK(u, <<>>, "idle", NoPayload, a)
    BY <1>1, <1>5, <1>6 DEF FeedOK, AsksAgree, ServesTheAsk, HandlesTheFirst, RefusedIsLast
<1>8. FeedOK(ps, <<>>, "idle", NoPayload, Nothing)
    BY DEF FeedOK, AsksAgree, ServesTheAsk, HandlesTheFirst, RefusedIsLast, RequestsDiffer, NoAsks, IsAsk
<1> QED
    BY <1>1, <1>7, <1>8 DEF u

-----------------------------------------------------------------------------
(* The invariant                                                                       *)

Asked(f) == IF subscriptions[f] = NoSub THEN Nothing
              ELSE [request |-> subscription[subscriptions[f]].request,
                    payload |-> subscription[subscriptions[f]].payload]

FeedInv(f) == conn = "open" => FeedOK(up[f], down[f], handling[f], serving[f], Asked(f))

FeedsTyped ==
    /\ up \in [Feed -> Seq(UpFrame)] /\ down \in [Feed -> Seq(DownFrame)]
    /\ handling \in [Feed -> {"idle", "preparing", "registered"}]
    /\ serving \in [Feed -> Payload \cup {NoPayload}]

ClientTyped ==
    /\ conn \in {"none", "connecting", "open", "closing"}
    /\ subscriptions \in [Feed -> SubId \cup {NoSub}]
    /\ subscription \in [SubId -> Subscription]
    /\ publishes \in [PubId -> Publish]
    /\ idleTimer \in BOOLEAN
    /\ reconnectTimers \in 0 .. MaxTimers
    /\ reconnectAttempt \in 0 .. MaxAttempt
    /\ reconnectingAfterCallerChange \in BOOLEAN
    /\ age \in {"fresh", "stable", "old"}
    /\ quickReconnects \in 0 .. 3
    /\ told \subseteq Event

\* Nothing is on its way, nor served, but on an open connection.
ConnInv == conn # "open" =>
    \A f \in Feed : up[f] = <<>> /\ down[f] = <<>> /\ handling[f] = "idle" /\ serving[f] = NoPayload

\* A feed's subscription is its own, and an object the map does not hold is forgotten.
EntryInv(f) == subscriptions[f] # NoSub =>
    /\ subscription[subscriptions[f]].feed = f
    /\ subscription[subscriptions[f]].payload \in Payload
    /\ subscription[subscriptions[f]].handlers \in Handlers
    /\ conn = "open" => subscription[subscriptions[f]].request \in SubRequest

SubsInv ==
    /\ \A f \in Feed : EntryInv(f)
    /\ \A id \in SubId :
          /\ subscription[id] # Forgotten =>
                subscription[id].feed \in Feed /\ subscriptions[subscription[id].feed] = id
          /\ subscription[id].pending => subscription[id].ackTimer # 0

IInv ==
    /\ FeedsTyped /\ ClientTyped /\ ConnInv /\ SubsInv /\ \A f \in Feed : FeedInv(f)
    /\ WantsConnection /\ IdleSocketIsTimed

LEMMA AskedIsAsk ==
    ASSUME ClientTyped, NEW f \in Feed
    PROVE  Asked(f) \in Ask
    BY DEF ClientTyped, Asked, Ask, Nothing, Subscription

-----------------------------------------------------------------------------
(* What steps do to the subscriptions                                                  *)

\* A feed's subscription is dropped: given up, refused or unsubscribed.
LEMMA ReleaseEffect ==
    ASSUME ClientTyped, SubsInv, NEW f \in Feed, subscriptions[f] # NoSub, conn' = conn,
           subscription' = [subscription EXCEPT ![subscriptions[f]] = Forgotten],
           subscriptions' = [subscriptions EXCEPT ![f] = NoSub]
    PROVE  /\ SubsInv' /\ Asked(f)' = Nothing
           /\ \A g \in Feed \ {f} : Asked(g)' = Asked(g)
<1>1. /\ subscriptions[f] \in SubId /\ NoSub \notin SubId
      /\ subscriptions'[f] = NoSub /\ \A g \in Feed \ {f} : subscriptions'[g] = subscriptions[g]
      /\ subscription'[subscriptions[f]] = Forgotten
      /\ \A id \in SubId \ {subscriptions[f]} : subscription'[id] = subscription[id]
    BY ClientAssumption DEF ClientTyped
<1>2. \A g \in Feed \ {f} : subscriptions[g] # NoSub =>
          subscriptions[g] \in SubId /\ subscriptions[g] # subscriptions[f]
    BY DEF SubsInv, EntryInv, ClientTyped
<1>3. \A g \in Feed : EntryInv(g)'
    BY <1>1, <1>2 DEF SubsInv, EntryInv
<1>4. ASSUME NEW id \in SubId
      PROVE  /\ subscription'[id] # Forgotten =>
                    subscription'[id].feed \in Feed /\ subscriptions'[subscription'[id].feed] = id
             /\ subscription'[id].pending => subscription'[id].ackTimer # 0
    <2>1. CASE id = subscriptions[f]
        BY <1>1, <2>1 DEF Forgotten
    <2>2. CASE id # subscriptions[f]
        <3>1. subscription'[id] = subscription[id]
            BY <1>1, <2>2
        <3>2. subscription[id] # Forgotten =>
                  subscription[id].feed \in Feed \ {f} /\ subscriptions[subscription[id].feed] = id
            BY <2>2 DEF SubsInv
        <3> QED
            BY <1>1, <3>1, <3>2 DEF SubsInv
    <2> QED
        BY <2>1, <2>2
<1>5. Asked(f)' = Nothing
    BY <1>1 DEF Asked
<1>6. \A g \in Feed \ {f} : Asked(g)' = Asked(g)
    BY <1>1, <1>2 DEF Asked
<1> QED
    BY <1>3, <1>4, <1>5, <1>6 DEF SubsInv

\* Only timers and promises of subscriptions change.
LEMMA TimerEffect ==
    ASSUME ClientTyped, SubsInv, conn' = conn \/ conn' # "open", subscriptions' = subscriptions,
           \A id \in SubId :
               /\ subscription'[id].feed = subscription[id].feed
               /\ subscription'[id].payload = subscription[id].payload
               /\ subscription'[id].handlers = subscription[id].handlers
               /\ subscription'[id].request = subscription[id].request
               /\ subscription[id] = Forgotten => subscription'[id] = Forgotten
               /\ subscription'[id].pending => subscription'[id].ackTimer # 0
    PROVE  SubsInv' /\ \A g \in Feed : Asked(g)' = Asked(g)
<1>1. \A g \in Feed : subscriptions[g] # NoSub => subscriptions[g] \in SubId
    BY DEF ClientTyped
<1>2. \A g \in Feed : EntryInv(g)'
    BY <1>1 DEF SubsInv, EntryInv
<1>3. \A g \in Feed : Asked(g)' = Asked(g)
    BY <1>1 DEF Asked
<1> QED
    BY <1>2, <1>3 DEF SubsInv

LEMMA SameSubscriptions ==
    ASSUME ClientTyped, SubsInv, conn' = conn \/ conn' # "open",
           subscriptions' = subscriptions, subscription' = subscription
    PROVE  SubsInv' /\ \A g \in Feed : Asked(g)' = Asked(g)
    BY TimerEffect DEF SubsInv

\* A feed has a new subscription, and asks as it does.
LEMMA SubscribeEffect ==
    ASSUME ClientTyped, SubsInv, NEW f \in Feed, NEW h \in Handlers, NEW payload \in Payload,
           NEW request \in SubRequest \cup {NoRequest}, NEW id \in SubId, FreeSub(id),
           subscriptions' = [subscriptions EXCEPT ![f] = id],
           subscription' = [Released(f) EXCEPT ![id] = New(h, f, payload, request)],
           conn' = "open" => request \in SubRequest /\ conn = "open"
    PROVE  /\ SubsInv' /\ Asked(f)' = [request |-> request, payload |-> payload]
           /\ \A g \in Feed \ {f} : Asked(g)' = Asked(g)
           /\ subscription' \in [SubId -> Subscription]
<1>1. /\ subscriptions'[f] = id /\ \A g \in Feed \ {f} : subscriptions'[g] = subscriptions[g]
      /\ subscriptions[f] # NoSub => subscriptions[f] \in SubId
      /\ id # NoSub
    BY ClientAssumption DEF ClientTyped
<1>2. \A g \in Feed : subscriptions[g] # NoSub => subscriptions[g] \in SubId /\ subscriptions[g] # id
    BY ClientAssumption DEF SubsInv, EntryInv, ClientTyped, FreeSub, Forgotten
<1>3. /\ Released(f) \in [SubId -> Subscription]
      /\ \A o \in SubId : Released(f)[o] = IF o = subscriptions[f] THEN Forgotten ELSE subscription[o]
    <2>1. Forgotten \in Subscription
        BY DEF Forgotten, Subscription
    <2>2. CASE subscriptions[f] = NoSub
        BY <2>2, ClientAssumption DEF Released, ClientTyped
    <2>3. CASE subscriptions[f] # NoSub
        BY <1>1, <2>1, <2>3 DEF Released, releaseSubscription, ClientTyped
    <2> QED
        BY <2>2, <2>3
<1>4. New(h, f, payload, request) \in Subscription
    BY DEF New, Subscription
<1>5. /\ subscription' \in [SubId -> Subscription]
      /\ subscription'[id] = New(h, f, payload, request)
      /\ \A o \in SubId \ {id} :
            subscription'[o] = IF o = subscriptions[f] THEN Forgotten ELSE subscription[o]
    BY <1>3, <1>4
<1>6. \A g \in Feed \ {f} : subscriptions[g] # NoSub => subscriptions[g] # subscriptions[f]
    BY DEF SubsInv, EntryInv
<1>7. \A g \in Feed : EntryInv(g)'
    <2> TAKE g \in Feed
    <2>1. CASE g = f
        BY <1>1, <1>5, <2>1 DEF EntryInv, New
    <2>2. CASE g # f
        <3>1. subscriptions[g] # NoSub => subscription'[subscriptions[g]] = subscription[subscriptions[g]]
            BY <1>2, <1>5, <1>6, <2>2
        <3>2. subscriptions'[g] = subscriptions[g] /\ EntryInv(g)
            BY <1>1, <2>2 DEF SubsInv
        <3> QED
            BY <3>1, <3>2 DEF EntryInv
    <2> QED
        BY <2>1, <2>2
<1>8. ASSUME NEW o \in SubId
      PROVE  /\ subscription'[o] # Forgotten =>
                    subscription'[o].feed \in Feed /\ subscriptions'[subscription'[o].feed] = o
             /\ subscription'[o].pending => subscription'[o].ackTimer # 0
    <2>1. CASE o = id
        BY <1>1, <1>5, <2>1 DEF New
    <2>2. CASE o # id
        BY <1>1, <1>5, <2>2 DEF SubsInv, Forgotten
    <2> QED
        BY <2>1, <2>2
<1>9. Asked(f)' = [request |-> request, payload |-> payload]
    BY <1>1, <1>5 DEF Asked, New
<1>10. \A g \in Feed \ {f} : Asked(g)' = Asked(g)
    BY <1>1, <1>2, <1>5, <1>6 DEF Asked
<1> QED
    BY <1>5, <1>7, <1>8, <1>9, <1>10 DEF SubsInv

\* requestIds are not used up.
LEMMA FreshIsNew ==
    ASSUME FeedsTyped, NEW f \in Feed, CanSend(f)
    PROVE  /\ Fresh(f) \in SubRequest
           /\ \A i \in DOMAIN up[f] : up[f][i].request # Fresh(f)
           /\ \A j \in DOMAIN down[f] : down[f][j].request # Fresh(f)
<1>1. Fresh(f) \in SubRequest /\ Fresh(f) \notin UsedRequests(f)
    <2>1. \E r \in SubRequest : r \notin UsedRequests(f)
        BY DEF CanSend
    <2> QED
        BY <2>1 DEF Fresh
<1>2. \A fr \in Range(up[f]) \cup Range(down[f]) : fr.request \in UsedRequests(f)
    BY DEF UsedRequests
<1> QED
    BY <1>1, <1>2 DEF Range

LEMMA FreshWhenOpening ==
    ASSUME ClientTyped, NEW f \in Feed, up[f] = <<>>, down[f] = <<>>
    PROVE  Fresh(f) \in SubRequest
<1> DEFINE used == [g \in Feed |-> Asked(g).request]
<1>1. used \in [Feed -> SubRequest \cup {NoRequest}]
    BY AskedIsAsk DEF Ask
<1>2. PICK r \in SubRequest : \A g \in Feed : used[g] # r
    BY <1>1, ClientAssumption
<1>3. \A id \in Mapped : \E g \in Feed : subscriptions[g] = id /\ id # NoSub
    BY DEF Mapped
<1>4. \A id \in Mapped : subscription[id].request # r
    BY <1>2, <1>3 DEF Asked
<1>5. Range(up[f]) = {} /\ Range(down[f]) = {}
    BY DEF Range
<1>6. r \notin UsedRequests(f)
    BY <1>4, <1>5 DEF UsedRequests
<1> QED
    BY <1>2, <1>6 DEF Fresh

LEMMA ResubscribeEffect ==
    ASSUME ClientTyped, SubsInv, \A g \in Feed : Fresh(g) \in SubRequest,
           resubscribeAll, subscriptions' = subscriptions
    PROVE  /\ subscription' \in [SubId -> Subscription] /\ SubsInv'
           /\ \A f \in Feed : Asked(f)' =
                 IF subscriptions[f] = NoSub THEN Nothing
                   ELSE [request |-> Fresh(f), payload |-> subscription[subscriptions[f]].payload]
<1>1. /\ \A g \in Feed : subscriptions[g] # NoSub => subscriptions[g] \in SubId /\ subscriptions[g] \in Mapped
      /\ \A id \in Mapped : id \in SubId /\ \E g \in Feed : subscriptions[g] = id /\ id # NoSub
    BY DEF ClientTyped, Mapped
<1>2. \A id \in Mapped : subscription[id].feed \in Feed /\ subscription[id].payload \in Payload
    BY <1>1 DEF SubsInv, EntryInv
<1>3. \A timer \in 0 .. 2 : Armed(timer) \in 1 .. 2
    BY DEF Armed
<1>4. ASSUME NEW id \in SubId
      PROVE  /\ subscription'[id] \in Subscription
             /\ id \notin Mapped => subscription'[id] = subscription[id]
             /\ id \in Mapped => /\ subscription'[id].feed = subscription[id].feed
                                 /\ subscription'[id].payload = subscription[id].payload
                                 /\ subscription'[id].handlers = subscription[id].handlers
                                 /\ subscription'[id].request = Fresh(subscription[id].feed)
                                 /\ subscription'[id].ackTimer # 0
    <2>1. subscription[id] \in Subscription /\ subscription[id].ackTimer \in 0 .. 2
        BY DEF ClientTyped, Subscription
    <2>2. CASE id \in Mapped
        <3>1. subscription'[id] = [subscription[id] EXCEPT !.request = Fresh(subscription[id].feed),
                                                           !.ackTimer = Armed(@)]
            BY <2>2 DEF resubscribeAll
        <3>2. Fresh(subscription[id].feed) \in SubRequest /\ Armed(subscription[id].ackTimer) \in 1 .. 2
            BY <1>2, <1>3, <2>1, <2>2
        <3> DEFINE o == subscription[id]
                   request == Fresh(o.feed)
                   timer == Armed(o.ackTimer)
                   m == [o EXCEPT !.request = request]
        <3>3. subscription'[id] = [m EXCEPT !.ackTimer = timer]
            BY <3>1
        <3>4. o \in Subscription /\ request \in SubRequest /\ timer \in 1 .. 2
            BY <2>1, <3>2
        <3> HIDE DEF o, request, timer
        <3>5. /\ m \in Subscription /\ m.feed = o.feed /\ m.payload = o.payload
              /\ m.handlers = o.handlers /\ m.request = request
            BY <3>4 DEF Subscription
        <3> HIDE DEF m
        <3>6. /\ subscription'[id] \in Subscription
              /\ subscription'[id].feed = m.feed /\ subscription'[id].payload = m.payload
              /\ subscription'[id].handlers = m.handlers /\ subscription'[id].request = m.request
              /\ subscription'[id].ackTimer = timer
            BY <3>3, <3>4, <3>5 DEF Subscription
        <3>7. subscription'[id].ackTimer # 0
            BY <3>4, <3>6
        <3> QED
            BY <2>2, <3>5, <3>6, <3>7 DEF o, request
    <2>3. CASE id \notin Mapped
        BY <2>1, <2>3 DEF resubscribeAll
    <2> QED
        BY <2>2, <2>3
<1>5. subscription' \in [SubId -> Subscription]
    <2>1. subscription' = [id \in SubId |-> subscription'[id]]
        BY DEF resubscribeAll
    <2> QED
        BY <1>4, <2>1
<1>6. ASSUME NEW f \in Feed, subscriptions[f] # NoSub
      PROVE  /\ subscription'[subscriptions[f]].feed = f
             /\ subscription'[subscriptions[f]].payload = subscription[subscriptions[f]].payload
             /\ subscription'[subscriptions[f]].handlers = subscription[subscriptions[f]].handlers
             /\ subscription'[subscriptions[f]].request = Fresh(f)
    BY <1>1, <1>4, <1>6 DEF SubsInv, EntryInv
<1>7. \A f \in Feed : EntryInv(f)'
    BY <1>6 DEF SubsInv, EntryInv
<1>8. ASSUME NEW id \in SubId
      PROVE  /\ subscription'[id] # Forgotten =>
                    subscription'[id].feed \in Feed /\ subscriptions'[subscription'[id].feed] = id
             /\ subscription'[id].pending => subscription'[id].ackTimer # 0
    <2>1. CASE id \in Mapped
        <3>1. PICK g \in Feed : subscriptions[g] = id /\ id # NoSub
            BY <1>1, <2>1
        <3> QED
            BY <1>4, <1>6, <2>1, <3>1
    <2>2. CASE id \notin Mapped
        BY <1>4, <2>2 DEF SubsInv
    <2> QED
        BY <2>1, <2>2
<1>9. \A f \in Feed : Asked(f)' =
          IF subscriptions[f] = NoSub THEN Nothing
            ELSE [request |-> Fresh(f), payload |-> subscription[subscriptions[f]].payload]
    BY <1>6 DEF Asked
<1> QED
    BY <1>5, <1>7, <1>8, <1>9 DEF SubsInv

LEMMA PublishesToSend ==
    ASSUME NEW f \in Feed
    PROVE  LET ps == [i \in DOMAIN SetToSeq(Unsent(f)) |-> Server!PublishFrame(SetToSeq(Unsent(f))[i])]
           IN  ps \in Seq(UpFrame) /\ NoAsks(ps)
<1> DEFINE S == Unsent(f)
           n == Cardinality(S)
           ps == [i \in DOMAIN SetToSeq(S) |-> Server!PublishFrame(SetToSeq(S)[i])]
<1>1. S \in SUBSET PubId
    BY DEF Unsent
<1>2. IsFiniteSet(S)
    BY <1>1, FS_Subset, ClientAssumption
<1>3. n \in Nat /\ ExistsBijection(1..n, S)
    BY <1>2, FS_CardinalityType
<1>4. \E b \in [1..n -> S] : IsInjective(b)
    BY <1>3 DEF ExistsBijection, Bijection, Injection
<1>5. SetToSeq(S) \in [1..n -> S]
    BY <1>4 DEF SetToSeq
<1> HIDE DEF S, n
<1>6. ps \in [1..n -> UpFrame] /\ \A i \in 1..n : ps[i].type = "publish"
    BY <1>1, <1>5 DEF Server!PublishFrame, UpFrame
<1>7. ps \in Seq(UpFrame) /\ DOMAIN ps = 1..n
    BY <1>3, <1>6
<1> QED
    BY <1>6, <1>7 DEF NoAsks, IsAsk, S

LEMMA AnsweredEffect ==
    ASSUME ClientTyped, SubsInv, conn' = conn, NEW id \in SubId, subscriptions' = subscriptions,
           subscription[id] # Forgotten,
           subscription' = [subscription EXCEPT ![id].ackTimer = 0, ![id].pending = FALSE]
    PROVE  SubsInv' /\ \A g \in Feed : Asked(g)' = Asked(g)
<1> DEFINE m == [subscription EXCEPT ![id].ackTimer = 0]
<1>1. /\ m \in [SubId -> Subscription] /\ \A o \in SubId \ {id} : m[o] = subscription[o]
      /\ m[id].feed = subscription[id].feed /\ m[id].payload = subscription[id].payload
      /\ m[id].handlers = subscription[id].handlers /\ m[id].request = subscription[id].request
    BY DEF ClientTyped, Subscription
<1>2. subscription' = [m EXCEPT ![id].pending = FALSE]
    OBVIOUS
<1> HIDE DEF m
<1>3. /\ \A o \in SubId \ {id} : subscription'[o] = subscription[o]
      /\ subscription'[id].feed = subscription[id].feed /\ subscription'[id].payload = subscription[id].payload
      /\ subscription'[id].handlers = subscription[id].handlers
      /\ subscription'[id].request = subscription[id].request /\ ~subscription'[id].pending
    BY <1>1, <1>2 DEF Subscription
<1> QED
    BY <1>3, TimerEffect DEF SubsInv

LEMMA TimerCleared ==
    ASSUME ClientTyped, SubsInv, conn' = conn, NEW id \in SubId, subscriptions' = subscriptions,
           subscription[id] # Forgotten, ~subscription[id].pending,
           subscription' = [subscription EXCEPT ![id].ackTimer = 0]
    PROVE  SubsInv' /\ \A g \in Feed : Asked(g)' = Asked(g)
<1>1. /\ \A o \in SubId \ {id} : subscription'[o] = subscription[o]
      /\ subscription'[id].feed = subscription[id].feed /\ subscription'[id].payload = subscription[id].payload
      /\ subscription'[id].handlers = subscription[id].handlers
      /\ subscription'[id].request = subscription[id].request /\ ~subscription'[id].pending
    BY DEF ClientTyped, Subscription
<1> QED
    BY <1>1, TimerEffect DEF SubsInv

-----------------------------------------------------------------------------
(* What steps do to the feeds                                                          *)

Core == FeedsTyped /\ ConnInv /\ SubsInv /\ \A f \in Feed : FeedInv(f)

OthersKept(f) == \A g \in Feed \ {f} :
    /\ up'[g] = up[g] /\ down'[g] = down[g]
    /\ handling'[g] = handling[g] /\ serving'[g] = serving[g]

\* A step on an open connection that concerns one feed.
LEMMA OneFeed ==
    ASSUME Core, conn = "open", conn' = conn, NEW f \in Feed, OthersKept(f), FeedsTyped', SubsInv',
           \A g \in Feed \ {f} : Asked(g)' = Asked(g),
           FeedOK(up'[f], down'[f], handling'[f], serving'[f], Asked(f)')
    PROVE  Core'
<1>1. \A g \in Feed : FeedInv(g)'
    <2> TAKE g \in Feed
    <2>1. CASE g = f
        BY <2>1 DEF FeedInv
    <2>2. CASE g # f
        <3>1. FeedOK(up[g], down[g], handling[g], serving[g], Asked(g))
            BY DEF Core, FeedInv
        <3> QED
            BY <2>2, <3>1 DEF FeedInv, OthersKept
    <2> QED
        BY <2>1, <2>2
<1> QED
    BY <1>1 DEF Core, ConnInv

\* A step that leaves the connection and what is asked for alone.
LEMMA QuietStep ==
    ASSUME Core, UNCHANGED serverVars, conn = "open" <=> conn' = "open", SubsInv',
           \A g \in Feed : Asked(g)' = Asked(g)
    PROVE  Core'
<1>1. FeedsTyped' /\ ConnInv'
    BY DEF Core, FeedsTyped, ConnInv, serverVars
<1>2. \A g \in Feed : FeedInv(g)'
    BY DEF Core, FeedInv, serverVars
<1> QED
    BY <1>1, <1>2 DEF Core

LEMMA DisconnectStep ==
    ASSUME Server!Disconnect, conn' # "open", SubsInv'
    PROVE  Core'
<1>1. FeedsTyped' /\ ConnInv'
    BY DEF FeedsTyped, ConnInv, Server!Disconnect
<1>2. \A g \in Feed : FeedInv(g)'
    BY DEF FeedInv
<1> QED
    BY <1>1, <1>2 DEF Core

LEMMA FramesAreTyped ==
    /\ Server!UnsubscribeFrame \in UpFrame /\ IsAsk(Server!UnsubscribeFrame)
    /\ Server!UnsubscribeFrame.type = "unsubscribe"
    /\ Server!UnsubscribeFrame.request = NoRequest /\ Server!UnsubscribeFrame.payload = NoPayload
    /\ \A r \in SubRequest, payload \in Payload :
          /\ Server!SubscribeFrame(r, payload) \in UpFrame /\ IsAsk(Server!SubscribeFrame(r, payload))
          /\ Server!SubscribeFrame(r, payload).type = "subscribe"
          /\ Server!SubscribeFrame(r, payload).request = r
          /\ Server!SubscribeFrame(r, payload).payload = payload
    /\ \A p \in PubId : Server!PublishFrame(p) \in UpFrame /\ ~IsAsk(Server!PublishFrame(p))
    BY DEF Server!UnsubscribeFrame, Server!SubscribeFrame, Server!PublishFrame, UpFrame, IsAsk

LEMMA SendEffect ==
    ASSUME FeedsTyped, NEW f \in Feed, NEW frame \in UpFrame, Server!SendOn(f, frame),
           UNCHANGED <<down, handling, serving>>
    PROVE  /\ FeedsTyped' /\ OthersKept(f) /\ up'[f] = Append(up[f], frame)
           /\ down'[f] = down[f] /\ handling'[f] = handling[f] /\ serving'[f] = serving[f]
           /\ up[f] \in Seq(UpFrame) /\ down[f] \in Seq(DownFrame)
<1>1. up[f] \in Seq(UpFrame) /\ down[f] \in Seq(DownFrame) /\ Append(up[f], frame) \in Seq(UpFrame)
    BY DEF FeedsTyped
<1>2. up' = [up EXCEPT ![f] = Append(up[f], frame)]
    BY DEF Server!SendOn
<1> QED
    BY <1>1, <1>2 DEF FeedsTyped, OthersKept

\* A feed's subscription is dropped, and the server told if there is a connection.
LEMMA GiveUpStep ==
    ASSUME Core, ClientTyped, NEW f \in Feed, subscriptions[f] # NoSub, conn' = conn,
           subscription' = [subscription EXCEPT ![subscriptions[f]] = Forgotten],
           subscriptions' = [subscriptions EXCEPT ![f] = NoSub],
           SendIfOpen(f, Server!UnsubscribeFrame), UNCHANGED <<down, handling, serving>>
    PROVE  Core'
<1>1. /\ SubsInv' /\ Asked(f)' = Nothing /\ \A g \in Feed \ {f} : Asked(g)' = Asked(g)
    BY ReleaseEffect DEF Core
<1>2. CASE conn # "open"
    <2>1. UNCHANGED serverVars
        BY <1>2 DEF SendIfOpen, serverVars
    <2>2. FeedsTyped' /\ ConnInv'
        BY <2>1 DEF Core, FeedsTyped, ConnInv, serverVars
    <2> QED
        BY <1>1, <1>2, <2>2 DEF Core, FeedInv
<1>3. CASE conn = "open"
    <2>1. Server!SendOn(f, Server!UnsubscribeFrame)
        BY <1>3 DEF SendIfOpen
    <2>2. /\ FeedsTyped' /\ OthersKept(f) /\ up'[f] = Append(up[f], Server!UnsubscribeFrame)
          /\ down'[f] = down[f] /\ handling'[f] = handling[f] /\ serving'[f] = serving[f]
          /\ up[f] \in Seq(UpFrame) /\ down[f] \in Seq(DownFrame)
        BY <2>1, SendEffect, FramesAreTyped DEF Core
    <2>3. FeedOK(up[f], down[f], handling[f], serving[f], Asked(f))
        BY <1>3 DEF Core, FeedInv
    <2>4. /\ Nothing \in Ask /\ Nothing.request = NoRequest /\ Nothing.payload = NoPayload
        BY DEF Nothing, Ask
    <2>5. FeedOK(Append(up[f], Server!UnsubscribeFrame), down[f], handling[f], serving[f], Nothing)
        BY <2>2, <2>3, <2>4, AskSent, FramesAreTyped
    <2> QED
        BY <1>1, <1>3, <2>2, <2>5, OneFeed
<1> QED
    BY <1>2, <1>3

LEMMA SubscribeStep ==
    ASSUME Core, ClientTyped, NEW f \in Feed, NEW h \in Handlers, NEW payload \in Payload,
           Subscribe(h, f, payload)
    PROVE  Core' /\ subscription' \in [SubId -> Subscription]
<1> DEFINE id == CHOOSE id \in SubId : FreeSub(id)
<1>1. id \in SubId /\ FreeSub(id)
    BY DEF Subscribe
<1>2. subscriptions' = [subscriptions EXCEPT ![f] = id] /\ UNCHANGED <<down, handling, serving>>
    BY DEF Subscribe
<1>3. CASE conn = "open"
    <2>1. /\ CanSend(f) /\ subscription' = [Released(f) EXCEPT ![id] = New(h, f, payload, Fresh(f))]
          /\ Server!SendOn(f, Server!SubscribeFrame(Fresh(f), payload)) /\ conn' = conn
        BY <1>3 DEF Subscribe
    <2>2. /\ Fresh(f) \in SubRequest
          /\ \A i \in DOMAIN up[f] : up[f][i].request # Fresh(f)
          /\ \A j \in DOMAIN down[f] : down[f][j].request # Fresh(f)
        BY <2>1, FreshIsNew DEF Core
    <2> DEFINE r == Fresh(f)
               frame == Server!SubscribeFrame(r, payload)
               b == [request |-> r, payload |-> payload]
    <2>3. /\ SubsInv' /\ Asked(f)' = b /\ \A g \in Feed \ {f} : Asked(g)' = Asked(g)
          /\ subscription' \in [SubId -> Subscription]
        <3> HIDE DEF id
        <3> QED
            BY <1>1, <1>2, <1>3, <2>1, <2>2, SubscribeEffect DEF Core
    <2>4. /\ frame \in UpFrame /\ IsAsk(frame) /\ frame.type = "subscribe"
          /\ frame.request = r /\ frame.payload = payload
        BY <2>2, FramesAreTyped
    <2>5. b \in Ask /\ b.request = r /\ b.payload = payload
        BY <2>2 DEF Ask
    <2> HIDE DEF frame, b, r
    <2>6. /\ FeedsTyped' /\ OthersKept(f) /\ up'[f] = Append(up[f], frame)
          /\ down'[f] = down[f] /\ handling'[f] = handling[f] /\ serving'[f] = serving[f]
          /\ up[f] \in Seq(UpFrame) /\ down[f] \in Seq(DownFrame)
        BY <1>2, <2>1, <2>4, SendEffect DEF Core, frame, r
    <2>7. FeedOK(up[f], down[f], handling[f], serving[f], Asked(f))
        BY <1>3 DEF Core, FeedInv
    <2>8. FeedOK(Append(up[f], frame), down[f], handling[f], serving[f], b)
        <3>1. /\ \A i \in DOMAIN up[f] : up[f][i].request # frame.request
              /\ \A j \in DOMAIN down[f] : down[f][j].request # frame.request
            BY <2>2, <2>4 DEF r
        <3> QED
            BY <2>4, <2>5, <2>6, <2>7, <3>1, AskSent
    <2> QED
        BY <1>3, <2>1, <2>3, <2>6, <2>8, OneFeed
<1>4. CASE conn # "open"
    <2>1. /\ subscription' = [Released(f) EXCEPT ![id] = New(h, f, payload, NoRequest)]
          /\ conn' # "open" /\ UNCHANGED serverVars
        BY <1>4 DEF Subscribe, serverVars
    <2>2. SubsInv' /\ subscription' \in [SubId -> Subscription]
        <3> HIDE DEF id
        <3> QED
            BY <1>1, <1>2, <2>1, SubscribeEffect DEF Core
    <2>3. FeedsTyped' /\ ConnInv'
        BY <1>4, <2>1 DEF Core, FeedsTyped, ConnInv, serverVars
    <2> QED
        BY <2>1, <2>2, <2>3 DEF Core, FeedInv
<1> QED
    BY <1>3, <1>4

LEMMA PublishStep ==
    ASSUME Core, ClientTyped, NEW f \in Feed, NEW p \in PubId, PublishTo(f, p)
    PROVE  Core'
<1>1. /\ subscriptions' = subscriptions /\ subscription' = subscription
      /\ UNCHANGED <<down, handling, serving>> /\ SendIfOpen(f, Server!PublishFrame(p))
      /\ conn = "open" <=> conn' = "open"
    BY DEF PublishTo
<1>2. conn' = conn \/ conn' # "open"
    BY <1>1
<1>3. SubsInv' /\ \A g \in Feed : Asked(g)' = Asked(g)
    BY <1>1, <1>2, SameSubscriptions DEF Core
<1>4. CASE conn # "open"
    <2>1. UNCHANGED serverVars
        BY <1>1, <1>4 DEF SendIfOpen, serverVars
    <2> QED
        BY <1>1, <1>3, <2>1, QuietStep
<1>5. CASE conn = "open"
    <2>1. Server!SendOn(f, Server!PublishFrame(p)) /\ conn' = conn
        BY <1>1, <1>5 DEF SendIfOpen
    <2>2. /\ FeedsTyped' /\ OthersKept(f) /\ up'[f] = Append(up[f], Server!PublishFrame(p))
          /\ down'[f] = down[f] /\ handling'[f] = handling[f] /\ serving'[f] = serving[f]
          /\ up[f] \in Seq(UpFrame) /\ down[f] \in Seq(DownFrame)
        BY <1>1, <2>1, SendEffect, FramesAreTyped DEF Core
    <2>3. FeedOK(up[f], down[f], handling[f], serving[f], Asked(f))
        BY <1>5 DEF Core, FeedInv
    <2>4. FeedOK(Append(up[f], Server!PublishFrame(p)), down[f], handling[f], serving[f], Asked(f))
        BY <2>2, <2>3, PublishSent, FramesAreTyped
    <2> QED
        BY <1>3, <1>5, <2>1, <2>2, <2>4, OneFeed
<1> QED
    BY <1>4, <1>5

\* What was asked for on the lost connection is asked for again.
LEMMA OpensStep ==
    ASSUME Core, ClientTyped, Opens
    PROVE  Core' /\ subscription' \in [SubId -> Subscription]
<1>1. /\ conn = "connecting" /\ conn' = "open" /\ resubscribeAll /\ subscriptions' = subscriptions
      /\ up' = [f \in Feed |-> up[f] \o OpeningFrames(f)]
      /\ UNCHANGED <<down, handling, serving>>
    BY DEF Opens, Server!Send
<1>2. \A f \in Feed : up[f] = <<>> /\ down[f] = <<>> /\ handling[f] = "idle" /\ serving[f] = NoPayload
    BY <1>1 DEF Core, ConnInv
<1>3. \A f \in Feed : Fresh(f) \in SubRequest
    BY <1>2, FreshWhenOpening
<1>4. /\ subscription' \in [SubId -> Subscription] /\ SubsInv'
      /\ \A f \in Feed : Asked(f)' =
            IF subscriptions[f] = NoSub THEN Nothing
              ELSE [request |-> Fresh(f), payload |-> subscription[subscriptions[f]].payload]
    BY <1>1, <1>3, ResubscribeEffect DEF Core
<1>5. ASSUME NEW f \in Feed
      PROVE  /\ up'[f] \in Seq(UpFrame)
             /\ FeedOK(up'[f], down'[f], handling'[f], serving'[f], Asked(f)')
    <2> DEFINE ps == [i \in DOMAIN SetToSeq(Unsent(f)) |-> Server!PublishFrame(SetToSeq(Unsent(f))[i])]
               payload == subscription[subscriptions[f]].payload
               frame == Server!SubscribeFrame(Fresh(f), payload)
               a == [request |-> Fresh(f), payload |-> payload]
    <2>1. ps \in Seq(UpFrame) /\ NoAsks(ps)
        BY PublishesToSend
    <2>2. OpeningFrames(f) = (IF subscriptions[f] = NoSub THEN <<>> ELSE <<frame>>) \o ps
        BY DEF OpeningFrames
    <2> HIDE DEF ps
    <2>3. CASE subscriptions[f] = NoSub
        <3>1. <<>> \o (<<>> \o ps) = ps
            BY <2>1
        <3>2. up'[f] = ps
            BY <1>1, <1>2, <2>2, <2>3, <3>1
        <3>3. FeedOK(ps, <<>>, "idle", NoPayload, Nothing)
            BY <2>1 DEF FeedOK, AsksAgree, ServesTheAsk, HandlesTheFirst, RefusedIsLast,
                        RequestsDiffer, NoAsks, IsAsk
        <3> QED
            BY <1>1, <1>2, <1>4, <2>1, <2>3, <3>2, <3>3
    <2>4. CASE subscriptions[f] # NoSub
        <3>1. payload \in Payload
            BY <2>4 DEF Core, SubsInv, EntryInv
        <3>2. /\ frame \in UpFrame /\ frame.type = "subscribe"
              /\ frame.request = a.request /\ frame.payload = a.payload
            BY <1>3, <3>1, FramesAreTyped
        <3>3. a \in Ask
            BY <1>3, <3>1 DEF Ask
        <3>4. Asked(f)' = a
            BY <1>4, <2>4
        <3> HIDE DEF frame, a
        <3>5. /\ <<frame>> \o ps \in Seq(UpFrame)
              /\ FeedOK(<<frame>> \o ps, <<>>, "idle", NoPayload, a)
            BY <2>1, <3>2, <3>3, OpenedFeed
        <3>6. <<>> \o (<<frame>> \o ps) = <<frame>> \o ps
            BY <3>5
        <3>7. up'[f] = <<frame>> \o ps
            BY <1>1, <1>2, <2>2, <2>4, <3>6
        <3> QED
            BY <1>1, <1>2, <3>4, <3>5, <3>7
    <2> QED
        BY <2>3, <2>4
<1>6. FeedsTyped'
    BY <1>1, <1>5 DEF Core, FeedsTyped
<1> QED
    BY <1>1, <1>4, <1>5, <1>6 DEF Core, FeedInv, ConnInv

LEMMA ConsumeEffect ==
    ASSUME Core, ClientTyped, NEW f \in Feed, conn = "open", down[f] # <<>>, Consume(f)
    PROVE  /\ FeedsTyped' /\ OthersKept(f) /\ conn' = conn
           /\ FeedOK(up'[f], down'[f], handling'[f], serving'[f], Asked(f))
           /\ Head(down[f]) \in DownFrame
           /\ /\ Head(down[f]).type = "error" /\ Head(down[f]).request \in SubRequest
              /\ Head(down[f]).request = Asked(f).request
              => FeedOK(up'[f], down'[f], handling'[f], serving'[f], Nothing)
<1>1. /\ up[f] \in Seq(UpFrame) /\ down[f] \in Seq(DownFrame)
      /\ FeedOK(up[f], down[f], handling[f], serving[f], Asked(f)) /\ Asked(f) \in Ask
    BY AskedIsAsk DEF Core, FeedInv, FeedsTyped
<1>2. Head(down[f]) \in DownFrame
    BY <1>1, PoppedFacts
<1>3. Tail(down[f]) \in Seq(DownFrame)
    BY <1>1, ClientTakes
<1>4. /\ down' = [down EXCEPT ![f] = Tail(down[f])] /\ UNCHANGED <<up, handling, serving, conn>>
    BY DEF Consume
<1>5. /\ FeedsTyped' /\ OthersKept(f) /\ conn' = conn /\ down'[f] = Tail(down[f])
    BY <1>3, <1>4 DEF Core, FeedsTyped, OthersKept
<1> QED
    BY <1>1, <1>2, <1>4, <1>5, ClientTakes

\* A frame is received that leaves what the feed asks for alone.
LEMMA ReceivedStep ==
    ASSUME Core, ClientTyped, NEW f \in Feed, conn = "open", down[f] # <<>>, Consume(f),
           SubsInv', \A g \in Feed : Asked(g)' = Asked(g)
    PROVE  Core'
    BY ConsumeEffect, OneFeed

LEMMA ReceiveStep ==
    ASSUME Core, ClientTyped, NEW f \in Feed, Receive(f)
    PROVE  Core'
<1>1. conn = "open" /\ down[f] # <<>> /\ Consume(f) /\ conn' = conn
    BY DEF Receive, ReceiveMessage, ReceiveSubscribed, ReceivePublished, ReceiveBroadcastError,
           ReceiveRefusal, Arrives, Consume
<1> DEFINE id == subscriptions[f]
<1>2. ASSUME subscriptions' = subscriptions, subscription' = subscription
      PROVE  Core'
    BY <1>1, <1>2, SameSubscriptions, ReceivedStep DEF Core
<1>3. CASE ReceiveMessage(f) \/ ReceiveBroadcastError(f)
    BY <1>2, <1>3 DEF ReceiveMessage, ReceiveBroadcastError
<1>4. CASE ReceivePublished(f)
    BY <1>2, <1>4 DEF ReceivePublished, settlePublish
<1>5. CASE ReceiveSubscribed(f)
    <2>1. subscriptions' = subscriptions
        BY <1>5 DEF ReceiveSubscribed
    <2>2. CASE ~answersSubscription(f, Head(down[f]).request)
        BY <1>2, <1>5, <2>1, <2>2 DEF ReceiveSubscribed
    <2>3. CASE answersSubscription(f, Head(down[f]).request)
        <3>1. /\ id # NoSub /\ id \in SubId
              /\ subscription' = [subscription EXCEPT ![id].ackTimer = 0, ![id].pending = FALSE]
              /\ subscription[id] # Forgotten
            BY <1>5, <2>3, ClientAssumption
            DEF ReceiveSubscribed, answersSubscription, ClientTyped, Core, SubsInv, EntryInv, Forgotten
        <3>2. SubsInv' /\ \A g \in Feed : Asked(g)' = Asked(g)
            BY <1>1, <2>1, <3>1, AnsweredEffect DEF Core
        <3> QED
            BY <1>1, <3>2, ReceivedStep
    <2> QED
        BY <2>2, <2>3
<1>6. CASE ReceiveRefusal(f)
    <2>1. CASE ~answersSubscription(f, Head(down[f]).request)
        BY <1>2, <1>6, <2>1 DEF ReceiveRefusal
    <2>2. CASE answersSubscription(f, Head(down[f]).request) /\ subscription[id].pending
        <3>1. /\ id # NoSub /\ subscription' = [subscription EXCEPT ![id] = Forgotten]
              /\ subscriptions' = [subscriptions EXCEPT ![f] = NoSub]
            BY <1>6, <2>2 DEF ReceiveRefusal, answersSubscription
        <3>2. SubsInv' /\ Asked(f)' = Nothing /\ \A g \in Feed \ {f} : Asked(g)' = Asked(g)
            BY <1>1, <3>1, ReleaseEffect DEF Core
        <3>3. /\ Head(down[f]).type = "error" /\ Head(down[f]).request \in SubRequest
              /\ Head(down[f]).request = Asked(f).request
            BY <1>6, <2>2 DEF ReceiveRefusal, Arrives, answersSubscription, Asked
        <3> QED
            BY <1>1, <3>2, <3>3, ConsumeEffect, OneFeed
    <2>3. CASE answersSubscription(f, Head(down[f]).request) /\ ~subscription[id].pending
        <3>1. /\ id # NoSub /\ id \in SubId /\ subscriptions' = subscriptions
              /\ subscription' = [subscription EXCEPT ![id].ackTimer = 0]
              /\ subscription[id] # Forgotten
            BY <1>6, <2>3, ClientAssumption
            DEF ReceiveRefusal, answersSubscription, ClientTyped, Core, SubsInv, EntryInv, Forgotten
        <3>2. SubsInv' /\ \A g \in Feed : Asked(g)' = Asked(g)
            BY <1>1, <2>3, <3>1, TimerCleared DEF Core
        <3> QED
            BY <1>1, <3>2, ReceivedStep
    <2> QED
        BY <2>1, <2>2, <2>3
<1> QED
    BY <1>3, <1>4, <1>5, <1>6 DEF Receive

\* The server is done with the first frame of a feed.
LEMMA FinishEffect ==
    ASSUME FeedsTyped, NEW f \in Feed, up[f] # <<>>, NEW reply \in DownFrame, NEW s1 \in Payload \cup {NoPayload},
           Server!Finish(f, <<reply>>) /\ serving' = [serving EXCEPT ![f] = s1]
    PROVE  /\ FeedsTyped' /\ OthersKept(f) /\ up'[f] = Tail(up[f]) /\ down'[f] = Append(down[f], reply)
           /\ handling'[f] = "idle" /\ serving'[f] = s1
<1>1. up[f] \in Seq(UpFrame) /\ down[f] \in Seq(DownFrame)
    BY DEF FeedsTyped
<1>2. Tail(up[f]) \in Seq(UpFrame) /\ Append(down[f], reply) \in Seq(DownFrame)
      /\ down[f] \o <<reply>> = Append(down[f], reply)
    BY <1>1, PoppedFacts, AppendedFacts, JoinedFacts
<1>3. /\ up' = [up EXCEPT ![f] = Tail(up[f])] /\ down' = [down EXCEPT ![f] = Append(down[f], reply)]
      /\ handling' = [handling EXCEPT ![f] = "idle"] /\ serving' = [serving EXCEPT ![f] = s1]
    BY <1>2 DEF Server!Finish
<1> QED
    BY <1>2, <1>3 DEF FeedsTyped, OthersKept

LEMMA SourceEffect ==
    ASSUME FeedsTyped, NEW f \in Feed, NEW frame \in DownFrame, NEW s1 \in Payload \cup {NoPayload},
           down' = [down EXCEPT ![f] = Append(down[f], frame)], serving' = [serving EXCEPT ![f] = s1],
           UNCHANGED <<up, handling>>
    PROVE  /\ FeedsTyped' /\ OthersKept(f) /\ up'[f] = up[f] /\ down'[f] = Append(down[f], frame)
           /\ handling'[f] = handling[f] /\ serving'[f] = s1
<1>1. down[f] \in Seq(DownFrame) /\ Append(down[f], frame) \in Seq(DownFrame)
    BY DEF FeedsTyped
<1> QED
    BY <1>1 DEF FeedsTyped, OthersKept

LEMMA HandleStep ==
    ASSUME Core, ClientTyped, NEW f \in Feed, conn = "open", Server!HandleFrame(f)
    PROVE  /\ FeedsTyped' /\ OthersKept(f)
           /\ FeedOK(up'[f], down'[f], handling'[f], serving'[f], Asked(f))
<1>1. /\ up[f] \in Seq(UpFrame) /\ down[f] \in Seq(DownFrame) /\ FeedsTyped
      /\ FeedOK(up[f], down[f], handling[f], serving[f], Asked(f)) /\ Asked(f) \in Ask
      /\ serving[f] \in Payload \cup {NoPayload} /\ serving = [serving EXCEPT ![f] = serving[f]]
    BY AskedIsAsk DEF Core, FeedInv, FeedsTyped
<1>2. up[f] # <<>> => Head(up[f]) \in UpFrame
    BY <1>1, PoppedFacts
<1>3. CASE Server!BeginSubscribe(f)
    <2>1. /\ up[f] # <<>> /\ Head(up[f]).type = "subscribe" /\ handling[f] = "idle"
          /\ handling' = [handling EXCEPT ![f] = "preparing"]
          /\ serving' = [serving EXCEPT ![f] = NoPayload] /\ UNCHANGED <<up, down>>
        BY <1>3 DEF Server!BeginSubscribe, Server!FirstIs
    <2>2. FeedOK(up[f], down[f], "preparing", NoPayload, Asked(f))
        BY <1>1, <2>1, ServerBegins
    <2>3. /\ FeedsTyped' /\ OthersKept(f) /\ up'[f] = up[f] /\ down'[f] = down[f]
          /\ handling'[f] = "preparing" /\ serving'[f] = NoPayload
        BY <1>1, <2>1 DEF FeedsTyped, OthersKept
    <2> QED
        BY <2>2, <2>3
<1>4. CASE Server!Register(f)
    <2>1. /\ handling[f] = "preparing" /\ handling' = [handling EXCEPT ![f] = "registered"]
          /\ serving' = [serving EXCEPT ![f] = Head(up[f]).payload] /\ UNCHANGED <<up, down>>
        BY <1>4 DEF Server!Register
    <2>2. FeedOK(up[f], down[f], "registered", Head(up[f]).payload, Asked(f))
        BY <1>1, <2>1, ServerRegisters
    <2>3. Head(up[f]).payload \in Payload
        BY <1>1, <1>2, <2>1 DEF FeedOK, HandlesTheFirst, UpFrame
    <2>4. /\ FeedsTyped' /\ OthersKept(f) /\ up'[f] = up[f] /\ down'[f] = down[f]
          /\ handling'[f] = "registered" /\ serving'[f] = Head(up[f]).payload
        BY <1>1, <2>1, <2>3 DEF FeedsTyped, OthersKept
    <2> QED
        BY <2>2, <2>4
<1>5. CASE Server!RefuseSubscribe(f)
    <2> DEFINE reply == Server!Reply("error", Head(up[f]).request)
    <2>1. /\ handling[f] = "preparing" /\ Server!Finish(f, <<reply>>) /\ serving' = serving
        BY <1>5 DEF Server!RefuseSubscribe
    <2>2. up[f] # <<>> /\ Head(up[f]) \in UpFrame
        BY <1>1, <1>2, <2>1 DEF FeedOK, HandlesTheFirst
    <2>3. reply \in DownFrame
        BY <2>2 DEF Server!Reply, UpFrame, DownFrame
    <2>4. FeedOK(Tail(up[f]), Append(down[f], reply), "idle", serving[f], Asked(f))
        BY <1>1, <2>1, <2>3, SubscribeRefused
    <2> HIDE DEF reply
    <2> QED
        BY <1>1, <2>1, <2>2, <2>3, <2>4, FinishEffect
<1>6. CASE Server!AckSubscribe(f)
    <2> DEFINE reply == Server!Reply("subscribed", Head(up[f]).request)
    <2>1. /\ handling[f] = "registered" /\ Server!Finish(f, <<reply>>) /\ serving' = serving
        BY <1>6 DEF Server!AckSubscribe
    <2>2. up[f] # <<>> /\ Head(up[f]) \in UpFrame /\ Head(up[f]).type = "subscribe"
        BY <1>1, <1>2, <2>1 DEF FeedOK, HandlesTheFirst
    <2>3. reply \in DownFrame
        BY <2>2 DEF Server!Reply, UpFrame, DownFrame
    <2>4. FeedOK(Tail(up[f]), Append(down[f], reply), "idle", serving[f], Asked(f))
        BY <1>1, <2>1, <2>3, SubscribeGranted
    <2> HIDE DEF reply
    <2> QED
        BY <1>1, <2>1, <2>2, <2>3, <2>4, FinishEffect
<1>7. CASE Server!HandleUnsubscribe(f)
    <2>1. /\ up[f] # <<>> /\ Server!Finish(f, <<>>) /\ serving' = [serving EXCEPT ![f] = NoPayload]
        BY <1>7 DEF Server!HandleUnsubscribe, Server!FirstIs
    <2>2. down[f] \o <<>> = down[f] /\ Tail(up[f]) \in Seq(UpFrame)
        BY <1>1, <2>1, PoppedFacts
    <2>3. /\ up' = [up EXCEPT ![f] = Tail(up[f])] /\ down' = [down EXCEPT ![f] = down[f]]
          /\ handling' = [handling EXCEPT ![f] = "idle"]
        BY <2>1, <2>2 DEF Server!Finish
    <2>4. /\ FeedsTyped' /\ OthersKept(f) /\ up'[f] = Tail(up[f]) /\ down'[f] = down[f]
          /\ handling'[f] = "idle" /\ serving'[f] = NoPayload
        BY <1>1, <2>1, <2>2, <2>3 DEF FeedsTyped, OthersKept
    <2>5. FeedOK(Tail(up[f]), down[f], "idle", NoPayload, Asked(f))
        BY <1>1, <2>1, UnsubscribeHandled
    <2> QED
        BY <2>4, <2>5
<1>8. CASE Server!HandlePublish(f)
    <2>1. /\ up[f] # <<>> /\ Head(up[f]).type = "publish" /\ serving' = serving
        BY <1>8 DEF Server!HandlePublish, Server!FirstIs
    <2>2. PICK type \in {"published", "error"} : Server!Finish(f, <<Server!Reply(type, Head(up[f]).request)>>)
        BY <1>8 DEF Server!HandlePublish
    <2> DEFINE reply == Server!Reply(type, Head(up[f]).request)
    <2>3. reply \in DownFrame /\ reply.request = Head(up[f]).request
        BY <1>2, <2>1 DEF Server!Reply, UpFrame, DownFrame
    <2>4. FeedOK(Tail(up[f]), Append(down[f], reply), "idle", serving[f], Asked(f))
        BY <1>1, <2>1, <2>3, PublishHandled
    <2> HIDE DEF reply
    <2>5. Server!Finish(f, <<reply>>)
        BY <2>2 DEF reply
    <2> QED
        BY <1>1, <2>1, <2>3, <2>4, <2>5, FinishEffect
<1> QED
    BY <1>3, <1>4, <1>5, <1>6, <1>7, <1>8 DEF Server!HandleFrame

LEMMA SourceStep ==
    ASSUME Core, ClientTyped, NEW f \in Feed, conn = "open",
           Server!SourceMessage(f) \/ Server!SourceError(f) \/ Server!SourceGivesUp(f)
    PROVE  /\ FeedsTyped' /\ OthersKept(f)
           /\ FeedOK(up'[f], down'[f], handling'[f], serving'[f], Asked(f))
<1>1. /\ up[f] \in Seq(UpFrame) /\ down[f] \in Seq(DownFrame) /\ FeedsTyped
      /\ FeedOK(up[f], down[f], handling[f], serving[f], Asked(f)) /\ Asked(f) \in Ask
      /\ serving[f] \in Payload \cup {NoPayload} /\ serving = [serving EXCEPT ![f] = serving[f]]
    BY AskedIsAsk DEF Core, FeedInv, FeedsTyped
<1>2. \E frame \in DownFrame, s1 \in {serving[f], NoPayload} :
          /\ frame.request = NoRequest
          /\ down' = [down EXCEPT ![f] = Append(down[f], frame)]
          /\ serving' = [serving EXCEPT ![f] = s1] /\ UNCHANGED <<up, handling>>
    <2>1. Server!Reply("error", NoRequest) \in DownFrame /\ Server!Reply("error", NoRequest).request = NoRequest
        BY DEF Server!Reply, DownFrame
    <2>2. serving[f] # NoPayload => /\ Server!Message(serving[f]) \in DownFrame
                                    /\ Server!Message(serving[f]).request = NoRequest
        BY <1>1 DEF Server!Message, DownFrame
    <2>3. CASE Server!SourceMessage(f)
        BY <1>1, <2>2, <2>3 DEF Server!SourceMessage
    <2>4. CASE Server!SourceError(f)
        BY <1>1, <2>1, <2>4 DEF Server!SourceError
    <2>5. CASE Server!SourceGivesUp(f)
        BY <1>1, <2>1, <2>5 DEF Server!SourceGivesUp
    <2> QED
        BY <2>3, <2>4, <2>5
<1>3. PICK frame \in DownFrame, s1 \in {serving[f], NoPayload} :
          /\ frame.request = NoRequest
          /\ down' = [down EXCEPT ![f] = Append(down[f], frame)]
          /\ serving' = [serving EXCEPT ![f] = s1] /\ UNCHANGED <<up, handling>>
    BY <1>2
<1>4. FeedOK(up[f], Append(down[f], frame), handling[f], s1, Asked(f))
    BY <1>1, <1>3, SourceSends
<1> QED
    BY <1>1, <1>3, <1>4, SourceEffect

LEMMA ServersStep ==
    ASSUME Core, ClientTyped, ServerStep
    PROVE  Core'
<1>1. /\ conn = "open" /\ conn' = conn /\ subscriptions' = subscriptions /\ subscription' = subscription
    BY DEF ServerStep
<1>2. SubsInv' /\ \A g \in Feed : Asked(g)' = Asked(g)
    BY <1>1, SameSubscriptions DEF Core
<1>3. PICK f \in Feed : \/ Server!HandleFrame(f) \/ Server!SourceMessage(f)
                        \/ Server!SourceError(f) \/ Server!SourceGivesUp(f)
    BY DEF ServerStep, Server!ServerStep
<1>4. /\ FeedsTyped' /\ OthersKept(f)
      /\ FeedOK(up'[f], down'[f], handling'[f], serving'[f], Asked(f))
    BY <1>1, <1>3, HandleStep, SourceStep
<1> QED
    BY <1>1, <1>2, <1>4, OneFeed

LEMMA ClosedEffect ==
    ASSUME ClientTyped, SubsInv, conn' # "open", subscriptions' = subscriptions,
           subscription' = resubscribeTimersCleared
    PROVE  subscription' \in [SubId -> Subscription] /\ SubsInv'
<1>1. ASSUME NEW id \in SubId
      PROVE  /\ subscription'[id] \in Subscription
             /\ subscription'[id].feed = subscription[id].feed
             /\ subscription'[id].payload = subscription[id].payload
             /\ subscription'[id].handlers = subscription[id].handlers
             /\ subscription'[id].request = subscription[id].request
             /\ subscription[id] = Forgotten => subscription'[id] = Forgotten
             /\ subscription'[id].pending => subscription'[id].ackTimer # 0
    <2>1. subscription[id] \in Subscription /\ (subscription[id].pending => subscription[id].ackTimer # 0)
        BY DEF ClientTyped, SubsInv
    <2>2. CASE id \in Mapped /\ ~subscription[id].pending
        <3>1. subscription'[id] = [subscription[id] EXCEPT !.ackTimer = 0]
            BY <2>2 DEF resubscribeTimersCleared
        <3>2. subscription[id] # Forgotten
            BY <2>2, ClientAssumption DEF Mapped, SubsInv, EntryInv, Forgotten
        <3> QED
            BY <2>1, <2>2, <3>1, <3>2 DEF Subscription
    <2>3. CASE ~(id \in Mapped /\ ~subscription[id].pending)
        <3>1. subscription'[id] = subscription[id]
            BY <2>3 DEF resubscribeTimersCleared
        <3> QED
            BY <2>1, <3>1
    <2> QED
        BY <2>2, <2>3
<1>2. subscription' = [id \in SubId |-> subscription'[id]]
    BY DEF resubscribeTimersCleared
<1>3. subscription' \in [SubId -> Subscription]
    BY <1>1, <1>2
<1> QED
    BY <1>1, <1>3, TimerEffect

LEMMA AckTimeoutStep ==
    ASSUME Core, ClientTyped, NEW id \in SubId, NEW armed \in {1, 2}, AckTimeout(id, armed)
    PROVE  Core' /\ subscription[id].feed \in Feed /\ subscriptions[subscription[id].feed] = id
<1> DEFINE f == subscription[id].feed
<1>1. subscription[id] # Forgotten
    BY DEF AckTimeout, Forgotten
<1>2. f \in Feed /\ subscriptions[f] = id /\ id # NoSub
    BY <1>1, ClientAssumption DEF Core, SubsInv
<1>3. conn' = conn /\ UNCHANGED <<down, handling, serving>>
    BY DEF AckTimeout
<1>4. CASE subscription[id].pending
    <2>1. /\ subscription' = [subscription EXCEPT ![subscriptions[f]] = Forgotten]
          /\ subscriptions' = [subscriptions EXCEPT ![f] = NoSub]
          /\ SendIfOpen(f, Server!UnsubscribeFrame)
        BY <1>2, <1>4 DEF AckTimeout, giveUp
    <2> QED
        BY <1>2, <1>3, <2>1, GiveUpStep
<1>5. CASE ~subscription[id].pending
    <2>1. /\ subscription' = [subscription EXCEPT ![id].ackTimer = 0]
          /\ subscriptions' = subscriptions /\ UNCHANGED serverVars
        BY <1>5 DEF AckTimeout, serverVars
    <2>2. SubsInv' /\ \A g \in Feed : Asked(g)' = Asked(g)
        BY <1>1, <1>3, <1>5, <2>1, TimerCleared DEF Core
    <2> QED
        BY <1>2, <1>3, <2>1, <2>2, QuietStep
<1> QED
    BY <1>4, <1>5

LEMMA CloseStep ==
    ASSUME Core, ClientTyped, NEW code, handleClose(code)
    PROVE  Core' /\ subscription' \in [SubId -> Subscription]
<1>1. /\ conn' # "open" /\ subscriptions' = subscriptions /\ Server!Disconnect
      /\ subscription' = resubscribeTimersCleared
    BY DEF handleClose
<1> QED
    BY <1>1, ClosedEffect, DisconnectStep DEF Core

LEMMA CoreKept ==
    ASSUME Core, ClientTyped, Next
    PROVE  Core'
<1>1. ASSUME NEW f \in Feed, NEW h \in Handlers, NEW payload \in Payload, Subscribe(h, f, payload)
      PROVE  Core'
    BY <1>1, SubscribeStep
<1>2. ASSUME NEW f \in Feed, Unsubscribe(f) PROVE Core'
    BY <1>2, GiveUpStep DEF Unsubscribe, releaseSubscription
<1>3. ASSUME NEW f \in Feed, NEW p \in PubId, PublishTo(f, p) PROVE Core'
    BY <1>3, PublishStep
<1>4. ASSUME NEW id \in SubId, NEW armed \in {1, 2}, AckTimeout(id, armed) PROVE Core'
    BY <1>4, AckTimeoutStep
<1>5. ASSUME UNCHANGED <<serverVars, subscriptions, subscription>>,
             conn' = conn \/ conn' # "open", conn = "open" <=> conn' = "open"
      PROVE  Core'
    <2>1. SubsInv' /\ \A g \in Feed : Asked(g)' = Asked(g)
        BY <1>5, SameSubscriptions DEF Core
    <2> QED
        BY <1>5, <2>1, QuietStep
<1>6. ASSUME Server!Disconnect, conn' # "open", UNCHANGED <<subscriptions, subscription>>
      PROVE  Core'
    <2>1. SubsInv'
        BY <1>6, SameSubscriptions DEF Core
    <2> QED
        BY <1>6, <2>1, DisconnectStep
<1>7. ASSUME NEW p \in PubId, PublishTimeout(p) PROVE Core'
    BY <1>5, <1>7 DEF PublishTimeout, settlePublish
<1>8. CASE IdleTimeout
    BY <1>5, <1>6, <1>8 DEF IdleTimeout
<1>9. CASE Reconnect
    BY <1>5, <1>9 DEF Reconnect, connect
<1>10. CASE Ageing
    BY <1>5, <1>10 DEF Ageing
<1>11. CASE Opens
    BY <1>11, OpensStep
<1>12. CASE Closing
    BY <1>6, <1>12 DEF Closing
<1>13. CASE ConnectFails \/ \E code \in {"other", "caller-changed"} : Closed(code)
    BY <1>13, CloseStep DEF ConnectFails, Closed
<1>14. ASSUME NEW f \in Feed, Receive(f) PROVE Core'
    BY <1>14, ReceiveStep
<1>15. CASE ServerStep
    BY <1>15, ServersStep
<1> QED
    BY <1>1, <1>2, <1>3, <1>4, <1>7, <1>8, <1>9, <1>10, <1>11, <1>12, <1>13, <1>14, <1>15
    DEF Next, CallerStep, TimerStep, NetworkStep

-----------------------------------------------------------------------------
(* Who waits                                                                           *)

LEMMA WantsKept ==
    ASSUME Core, ClientTyped, WantsConnection, Next
    PROVE  WantsConnection'
<1>1. conn # "none" \/ reconnectTimers > 0 \/ ~Outstanding
    BY DEF WantsConnection
<1>2. ASSUME Outstanding' => Outstanding, UNCHANGED <<conn, reconnectTimers>>
      PROVE  WantsConnection'
    BY <1>2 DEF WantsConnection
<1>3. ASSUME conn' # "none" PROVE WantsConnection'
    BY <1>3 DEF WantsConnection
<1>4. /\ Outstanding <=> \/ \E g \in Feed : subscriptions[g] # NoSub
                         \/ \E p \in PubId : publishes[p].state = "unsent"
      /\ Outstanding' <=> \/ \E g \in Feed : subscriptions'[g] # NoSub
                          \/ \E p \in PubId : publishes'[p].state = "unsent"
    BY DEF Outstanding, Mapped
<1>5. ASSUME NEW f \in Feed, subscriptions' = [subscriptions EXCEPT ![f] = NoSub], publishes' = publishes
      PROVE  Outstanding' => Outstanding
    BY <1>4, <1>5 DEF ClientTyped
<1>6. ASSUME NEW p \in PubId, publishes' = [publishes EXCEPT ![p] = NoPublish], subscriptions' = subscriptions
      PROVE  Outstanding' => Outstanding
    BY <1>4, <1>6 DEF ClientTyped, NoPublish
<1>7. ASSUME UNCHANGED <<subscriptions, publishes>>
      PROVE  Outstanding' <=> Outstanding
    BY <1>4, <1>7
<1>8. ASSUME NEW f \in Feed, \/ \E h \in Handlers, payload \in Payload : Subscribe(h, f, payload)
                             \/ \E p \in PubId : PublishTo(f, p)
      PROVE  WantsConnection'
    BY <1>3, <1>8 DEF Subscribe, PublishTo
<1>9. ASSUME NEW f \in Feed, Unsubscribe(f) PROVE WantsConnection'
    BY <1>2, <1>5, <1>9 DEF Unsubscribe, backoffVars
<1>10. ASSUME NEW id \in SubId, NEW armed \in {1, 2}, AckTimeout(id, armed)
       PROVE  WantsConnection'
    <2>1. UNCHANGED <<conn, reconnectTimers>>
        BY <1>10 DEF AckTimeout, backoffVars
    <2>2. CASE subscription[id].pending
        BY <1>2, <1>5, <1>10, <2>1, <2>2, AckTimeoutStep DEF AckTimeout
    <2>3. CASE ~subscription[id].pending
        BY <1>2, <1>7, <1>10, <2>1, <2>3 DEF AckTimeout
    <2> QED
        BY <2>2, <2>3
<1>11. ASSUME NEW p \in PubId, PublishTimeout(p) PROVE WantsConnection'
    BY <1>2, <1>6, <1>11 DEF PublishTimeout, settlePublish, backoffVars
<1>12. CASE IdleTimeout
    <2>1. UNCHANGED <<subscriptions, publishes, reconnectTimers>>
        BY <1>12 DEF IdleTimeout
    <2>2. CASE isIdle(subscriptions, publishes)
        <3>1. ~Outstanding
            BY <1>4, <2>2 DEF isIdle
        <3> QED
            BY <1>7, <2>1, <3>1 DEF WantsConnection
    <2>3. CASE ~isIdle(subscriptions, publishes)
        BY <1>2, <1>7, <1>12, <2>1, <2>3 DEF IdleTimeout
    <2> QED
        BY <2>2, <2>3
<1>13. CASE Reconnect
    BY <1>3, <1>13 DEF Reconnect, connect
<1>14. CASE Ageing
    BY <1>3, <1>14 DEF Ageing
<1>15. CASE Opens \/ Closing
    BY <1>3, <1>15 DEF Opens, Closing
<1>16. CASE ConnectFails \/ \E code \in {"other", "caller-changed"} : Closed(code)
    <2>1. PICK code \in {"other", "caller-changed"} : handleClose(code)
        BY <1>16 DEF ConnectFails, Closed
    <2>2. UNCHANGED <<subscriptions, publishes>> /\ (Outstanding => NeedsConnection)
        BY <2>1 DEF handleClose, Outstanding, NeedsConnection, HasUnsentPublishes
    <2>3. NeedsConnection => reconnectTimers' = reconnectTimers + 1
        BY <2>1 DEF handleClose, Backoff
    <2>4. reconnectTimers \in Nat
        BY ClientAssumption DEF ClientTyped
    <2> QED
        BY <1>7, <2>2, <2>3, <2>4 DEF WantsConnection
<1>17. ASSUME NEW f \in Feed, Receive(f) PROVE WantsConnection'
    BY <1>3, <1>17 DEF Receive, ReceiveMessage, ReceiveSubscribed, ReceivePublished,
                       ReceiveBroadcastError, ReceiveRefusal, Arrives, Consume
<1>18. CASE ServerStep
    BY <1>3, <1>18 DEF ServerStep
<1> QED
    BY <1>8, <1>9, <1>10, <1>11, <1>12, <1>13, <1>14, <1>15, <1>16, <1>17, <1>18
    DEF Next, CallerStep, TimerStep, NetworkStep

LEMMA IdleKept ==
    ASSUME Core, ClientTyped, IdleSocketIsTimed, Next
    PROVE  IdleSocketIsTimed'
<1> USE DEF IdleSocketIsTimed
<1>1. ASSUME UNCHANGED <<conn, subscriptions, publishes, idleTimer>> PROVE IdleSocketIsTimed'
    BY <1>1 DEF isIdle
<1>2. ASSUME conn' # "open" PROVE IdleSocketIsTimed'
    BY <1>2
<1>3. ASSUME scheduleIdleClose PROVE IdleSocketIsTimed'
    BY <1>3 DEF scheduleIdleClose, isIdle
<1>4. ASSUME NEW f \in Feed, NEW h \in Handlers, NEW payload \in Payload, Subscribe(h, f, payload)
      PROVE  IdleSocketIsTimed'
    <2> DEFINE id == CHOOSE id \in SubId : FreeSub(id)
    <2>1. id \in SubId /\ subscriptions' = [subscriptions EXCEPT ![f] = id]
        BY <1>4 DEF Subscribe
    <2> HIDE DEF id
    <2>2. subscriptions'[f] # NoSub
        BY <2>1, ClientAssumption DEF ClientTyped
    <2> QED
        BY <2>2 DEF isIdle
<1>5. ASSUME NEW f \in Feed, NEW p \in PubId, PublishTo(f, p) PROVE IdleSocketIsTimed'
    <2>1. publishes'[p].state # "none"
        BY <1>5 DEF PublishTo, ClientTyped
    <2> QED
        BY <2>1 DEF isIdle
<1>6. ASSUME NEW f \in Feed, Unsubscribe(f) PROVE IdleSocketIsTimed'
    BY <1>3, <1>6 DEF Unsubscribe
<1>7. ASSUME NEW id \in SubId, NEW armed \in {1, 2}, AckTimeout(id, armed) PROVE IdleSocketIsTimed'
    <2>1. CASE subscription[id].pending
        BY <1>3, <1>7, <2>1 DEF AckTimeout
    <2>2. CASE ~subscription[id].pending
        BY <1>1, <1>7, <2>2 DEF AckTimeout
    <2> QED
        BY <2>1, <2>2
<1>8. ASSUME NEW p \in PubId, PublishTimeout(p) PROVE IdleSocketIsTimed'
    BY <1>3, <1>8 DEF PublishTimeout, settlePublish
<1>9. CASE IdleTimeout
    <2>1. CASE isIdle(subscriptions, publishes) /\ conn \in {"open", "closing"}
        BY <1>2, <1>9, <2>1 DEF IdleTimeout
    <2>2. CASE ~(isIdle(subscriptions, publishes) /\ conn \in {"open", "closing"})
        <3>1. UNCHANGED <<conn, subscriptions, publishes>>
            BY <1>9, <2>2 DEF IdleTimeout
        <3> QED
            BY <2>2, <3>1 DEF isIdle
    <2> QED
        BY <2>1, <2>2
<1>10. CASE Reconnect
    BY <1>1, <1>2, <1>10 DEF Reconnect, connect
<1>11. CASE Ageing
    BY <1>1, <1>11 DEF Ageing
<1>12. CASE Opens
    BY <1>3, <1>12 DEF Opens
<1>13. CASE Closing
    BY <1>2, <1>13 DEF Closing
<1>14. CASE ConnectFails \/ \E code \in {"other", "caller-changed"} : Closed(code)
    BY <1>2, <1>14 DEF ConnectFails, Closed, handleClose
<1>15. ASSUME NEW f \in Feed, Receive(f) PROVE IdleSocketIsTimed'
    <2>1. conn' = conn
        BY <1>15 DEF Receive, ReceiveMessage, ReceiveSubscribed, ReceivePublished,
                     ReceiveBroadcastError, ReceiveRefusal, Consume
    <2>2. \/ scheduleIdleClose
          \/ UNCHANGED <<subscriptions, publishes, idleTimer>>
        BY <1>15 DEF Receive, ReceiveMessage, ReceiveSubscribed, ReceivePublished,
                     ReceiveBroadcastError, ReceiveRefusal, settlePublish
    <2> QED
        BY <1>1, <1>3, <2>1, <2>2
<1>16. CASE ServerStep
    BY <1>1, <1>16 DEF ServerStep
<1> QED
    BY <1>4, <1>5, <1>6, <1>7, <1>8, <1>9, <1>10, <1>11, <1>12, <1>13, <1>14, <1>15, <1>16
    DEF Next, CallerStep, TimerStep, NetworkStep

-----------------------------------------------------------------------------
(* Types                                                                               *)

\* What is told concerns a subscription, and the feed that has it.
LEMMA ToldIsEvent ==
    ASSUME Core, ClientTyped, NEW id \in SubId, \E f \in Feed : subscriptions[f] = id,
           NEW payload \in Payload \cup {NoPayload},
           NEW what \in {"connected", "disconnected", "message", "error", "rejected"}
    PROVE  Tell(what, id, payload) \in Event
<1>1. PICK f \in Feed : subscriptions[f] = id
    OBVIOUS
<1>2. id # NoSub /\ EntryInv(f)
    BY ClientAssumption DEF Core, SubsInv
<1>3. subscription[id].feed \in Feed /\ subscription[id].handlers \in Handlers
    BY <1>1, <1>2 DEF EntryInv
<1> QED
    BY <1>3 DEF Tell, Event

BackoffTyped ==
    /\ reconnectTimers \in 0 .. MaxTimers /\ reconnectAttempt \in 0 .. MaxAttempt
    /\ reconnectingAfterCallerChange \in BOOLEAN /\ age \in {"fresh", "stable", "old"}
    /\ quickReconnects \in 0 .. 3

LEMMA BackoffKept ==
    ASSUME ClientTyped, Next
    PROVE  BackoffTyped'
<1> USE DEF BackoffTyped, ClientTyped
<1>1. ASSUME UNCHANGED backoffVars PROVE BackoffTyped'
    BY <1>1 DEF backoffVars
<1>2. CASE CallerStep
    BY <1>1, <1>2 DEF CallerStep, Subscribe, Unsubscribe, PublishTo
<1>3. ASSUME NEW id \in SubId, NEW armed \in {1, 2}, AckTimeout(id, armed) PROVE BackoffTyped'
    BY <1>1, <1>3 DEF AckTimeout
<1>4. ASSUME NEW p \in PubId, PublishTimeout(p) PROVE BackoffTyped'
    BY <1>1, <1>4 DEF PublishTimeout
<1>5. CASE IdleTimeout
    <2>1. /\ reconnectTimers' = reconnectTimers /\ reconnectAttempt' = reconnectAttempt /\ age' = age
          /\ reconnectingAfterCallerChange' \in {FALSE, reconnectingAfterCallerChange}
          /\ quickReconnects' \in {0, quickReconnects}
        BY <1>5 DEF IdleTimeout
    <2>2. quickReconnects' \in 0 .. 3
        <3>1. 0 \in 0 .. 3 /\ quickReconnects \in 0 .. 3
            OBVIOUS
        <3> QED
            BY <2>1, <3>1
    <2> QED
        BY <2>1, <2>2
<1>6. CASE Reconnect
    BY <1>6, ClientAssumption DEF Reconnect
<1>7. CASE Ageing
    BY <1>7, ClientAssumption DEF Ageing
<1>8. CASE Opens
    BY <1>8 DEF Opens
<1>9. CASE Closing
    BY <1>1, <1>9 DEF Closing
<1>10. ASSUME NEW code, handleClose(code) PROVE BackoffTyped'
    <2>1. age' = "fresh"
        BY <1>10 DEF handleClose
    <2>2. CASE NeedsConnection
        <3>1. Backoff(code)
            BY <1>10, <2>2 DEF handleClose
        <3> QED
            BY <2>1, <3>1, ClientAssumption DEF Backoff
    <2>3. CASE ~NeedsConnection
        BY <1>10, <2>1, <2>3 DEF handleClose
    <2> QED
        BY <2>2, <2>3
<1>11. CASE ConnectFails \/ \E code \in {"other", "caller-changed"} : Closed(code)
    BY <1>10, <1>11 DEF ConnectFails, Closed
<1>12. ASSUME NEW f \in Feed, Receive(f) PROVE BackoffTyped'
    BY <1>1, <1>12 DEF Receive, ReceiveMessage, ReceiveSubscribed, ReceivePublished,
                       ReceiveBroadcastError, ReceiveRefusal, Consume
<1>13. CASE ServerStep
    BY <1>1, <1>13 DEF ServerStep
<1> QED
    BY <1>2, <1>3, <1>4, <1>5, <1>6, <1>7, <1>8, <1>9, <1>11, <1>12, <1>13
    DEF Next, TimerStep, NetworkStep

CallsTyped ==
    /\ conn \in {"none", "connecting", "open", "closing"}
    /\ subscriptions \in [Feed -> SubId \cup {NoSub}]
    /\ subscription \in [SubId -> Subscription]
    /\ publishes \in [PubId -> Publish]
    /\ idleTimer \in BOOLEAN
    /\ told \subseteq Event

LEMMA ObjectsTyped ==
    /\ Forgotten \in Subscription /\ NoPublish \in Publish
    /\ \A o \in Subscription : [o EXCEPT !.ackTimer = 0] \in Subscription
    /\ \A o \in Subscription : [o EXCEPT !.pending = FALSE] \in Subscription
<1>1. Forgotten \in Subscription
    BY DEF Forgotten, Subscription
<1>2. NoPublish \in Publish
    BY DEF NoPublish, Publish
<1>3. \A o \in Subscription : [o EXCEPT !.ackTimer = 0] \in Subscription
    BY DEF Subscription
<1>4. \A o \in Subscription : [o EXCEPT !.pending = FALSE] \in Subscription
    BY DEF Subscription
<1> QED
    BY <1>1, <1>2, <1>3, <1>4

LEMMA SchedulingTyped ==
    ASSUME scheduleIdleClose PROVE idleTimer' \in BOOLEAN
    BY DEF scheduleIdleClose, isIdle

LEMMA SettledTyped ==
    ASSUME ClientTyped, NEW p \in PubId, settlePublish(p)
    PROVE  publishes' \in [PubId -> Publish] /\ idleTimer' \in BOOLEAN /\ subscriptions' = subscriptions
    BY SchedulingTyped, ObjectsTyped DEF settlePublish, ClientTyped

LEMMA ReceiveTyped ==
    ASSUME Core, ClientTyped, NEW f \in Feed, Receive(f)
    PROVE  CallsTyped'
<1> DEFINE id == subscriptions[f]
<1>1. /\ conn = "open" /\ down[f] # <<>> /\ Consume(f) /\ conn' = conn
    BY DEF Receive, ReceiveMessage, ReceiveSubscribed, ReceivePublished, ReceiveBroadcastError,
           ReceiveRefusal, Arrives, Consume
<1>2. Head(down[f]) \in DownFrame
    BY <1>1, ConsumeEffect
<1>3. /\ id # NoSub => id \in SubId
      /\ id # NoSub => \A what \in {"connected", "disconnected", "message", "error", "rejected"},
                          payload \in Payload \cup {NoPayload} : Tell(what, id, payload) \in Event
    BY ToldIsEvent DEF ClientTyped
<1>4. CASE ReceiveMessage(f)
    <2>1. Head(down[f]).payload \in Payload
        BY <1>2, <1>4 DEF ReceiveMessage, Arrives, DownFrame
    <2>2. UNCHANGED <<subscriptions, subscription, publishes, idleTimer>>
        BY <1>4 DEF ReceiveMessage
    <2>3. told' \subseteq Event
        BY <1>3, <1>4, <2>1 DEF ReceiveMessage
    <2> QED
        BY <1>1, <2>2, <2>3 DEF CallsTyped, ClientTyped
<1>5. CASE ReceiveBroadcastError(f)
    <2>1. UNCHANGED <<subscriptions, subscription, publishes, idleTimer>>
        BY <1>5 DEF ReceiveBroadcastError
    <2>2. told' \subseteq Event
        BY <1>3, <1>5 DEF ReceiveBroadcastError
    <2> QED
        BY <1>1, <2>1, <2>2 DEF CallsTyped, ClientTyped
<1>6. CASE ReceivePublished(f)
    <2> DEFINE p == Head(down[f]).request
    <2>1. p \in PubId
        BY <1>2, <1>6 DEF ReceivePublished, Arrives, DownFrame
    <2>2. subscription' = subscription /\ told' = {}
        BY <1>6 DEF ReceivePublished
    <2>3. settlePublish(p) \/ UNCHANGED <<subscriptions, publishes, idleTimer>>
        BY <1>6 DEF ReceivePublished
    <2> HIDE DEF p
    <2> QED
        BY <1>1, <2>1, <2>2, <2>3, SettledTyped DEF CallsTyped, ClientTyped
<1>7. CASE ReceiveSubscribed(f)
    <2>1. UNCHANGED <<subscriptions, publishes, idleTimer>>
        BY <1>7 DEF ReceiveSubscribed
    <2>2. CASE answersSubscription(f, Head(down[f]).request)
        <3>1. /\ id \in SubId /\ told' = {Tell("connected", id, NoPayload)}
              /\ subscription' = [subscription EXCEPT ![id].ackTimer = 0, ![id].pending = FALSE]
            BY <1>3, <1>7, <2>2 DEF ReceiveSubscribed, answersSubscription
        <3> DEFINE m == [subscription EXCEPT ![id].ackTimer = 0]
        <3>2. m \in [SubId -> Subscription]
            BY <3>1, ObjectsTyped DEF ClientTyped
        <3>3. subscription' = [m EXCEPT ![id].pending = FALSE]
            BY <3>1
        <3> HIDE DEF m
        <3>4. subscription' \in [SubId -> Subscription]
            BY <3>1, <3>2, <3>3, ObjectsTyped
        <3>5. told' \subseteq Event
            BY <1>3, <3>1, ClientAssumption DEF ClientTyped
        <3> QED
            BY <1>1, <2>1, <3>4, <3>5 DEF CallsTyped, ClientTyped
    <2>3. CASE ~answersSubscription(f, Head(down[f]).request)
        BY <1>1, <1>7, <2>1, <2>3 DEF ReceiveSubscribed, CallsTyped, ClientTyped
    <2> QED
        BY <2>2, <2>3
<1>8. CASE ReceiveRefusal(f)
    <2>1. publishes' = publishes
        BY <1>8 DEF ReceiveRefusal
    <2>2. CASE ~answersSubscription(f, Head(down[f]).request)
        BY <1>1, <1>8, <2>1, <2>2 DEF ReceiveRefusal, CallsTyped, ClientTyped
    <2>3. CASE answersSubscription(f, Head(down[f]).request) /\ subscription[id].pending
        <3>1. /\ id \in SubId /\ id # NoSub /\ told' = {Tell("rejected", id, NoPayload)} /\ scheduleIdleClose
              /\ subscription' = [subscription EXCEPT ![id] = Forgotten]
              /\ subscriptions' = [subscriptions EXCEPT ![f] = NoSub]
            BY <1>3, <1>8, <2>3 DEF ReceiveRefusal, answersSubscription
        <3>2. told' \subseteq Event
            BY <1>3, <3>1
        <3> QED
            BY <1>1, <2>1, <3>1, <3>2, SchedulingTyped, ObjectsTyped DEF CallsTyped, ClientTyped
    <2>4. CASE answersSubscription(f, Head(down[f]).request) /\ ~subscription[id].pending
        <3>1. /\ id \in SubId /\ id # NoSub /\ told' = {Tell("error", id, NoPayload)}
              /\ subscription' = [subscription EXCEPT ![id].ackTimer = 0]
              /\ UNCHANGED <<subscriptions, idleTimer>>
            BY <1>3, <1>8, <2>4 DEF ReceiveRefusal, answersSubscription
        <3>2. told' \subseteq Event
            BY <1>3, <3>1
        <3>3. subscription' \in [SubId -> Subscription]
            BY <3>1, ObjectsTyped DEF ClientTyped
        <3> QED
            BY <1>1, <2>1, <3>1, <3>2, <3>3 DEF CallsTyped, ClientTyped
    <2> QED
        BY <2>2, <2>3, <2>4
<1> QED
    BY <1>4, <1>5, <1>6, <1>7, <1>8 DEF Receive

LEMMA CallsKept ==
    ASSUME Core, ClientTyped, Next
    PROVE  CallsTyped'
<1>1. ASSUME UNCHANGED <<subscriptions, subscription, publishes>>, idleTimer' \in BOOLEAN, told' = {},
             conn' \in {"none", "connecting", "open", "closing"}
      PROVE  CallsTyped'
    BY <1>1 DEF CallsTyped, ClientTyped
<1>2. ASSUME NEW f \in Feed, NEW h \in Handlers, NEW payload \in Payload, Subscribe(h, f, payload)
      PROVE  CallsTyped'
    <2> DEFINE id == CHOOSE id \in SubId : FreeSub(id)
    <2>1. id \in SubId /\ subscriptions' = [subscriptions EXCEPT ![f] = id]
        BY <1>2 DEF Subscribe
    <2>2. /\ publishes' = publishes /\ idleTimer' = FALSE /\ told' = {}
          /\ conn' \in {"none", "connecting", "open", "closing"}
        BY <1>2 DEF Subscribe, ClientTyped
    <2>3. subscription' \in [SubId -> Subscription]
        BY <1>2, SubscribeStep
    <2> HIDE DEF id
    <2> QED
        BY <2>1, <2>2, <2>3 DEF CallsTyped, ClientTyped
<1>3. ASSUME NEW f \in Feed, Unsubscribe(f) PROVE CallsTyped'
    <2>1. /\ subscriptions[f] \in SubId
          /\ subscription' = [subscription EXCEPT ![subscriptions[f]] = Forgotten]
          /\ subscriptions' = [subscriptions EXCEPT ![f] = NoSub]
          /\ publishes' = publishes /\ scheduleIdleClose /\ told' = {} /\ conn' = conn
        BY <1>3 DEF Unsubscribe, releaseSubscription, ClientTyped
    <2> QED
        BY <2>1, SchedulingTyped, ObjectsTyped DEF CallsTyped, ClientTyped
<1>4. ASSUME NEW f \in Feed, NEW p \in PubId, PublishTo(f, p) PROVE CallsTyped'
    <2>1. publishes' \in [PubId -> Publish]
        BY <1>4 DEF PublishTo, ClientTyped, Publish
    <2> QED
        BY <1>4, <2>1 DEF PublishTo, CallsTyped, ClientTyped
<1>5. ASSUME NEW id \in SubId, NEW armed \in {1, 2}, AckTimeout(id, armed) PROVE CallsTyped'
    <2>1. conn' = conn /\ publishes' = publishes
        BY <1>5 DEF AckTimeout
    <2>2. /\ subscription[id].feed \in Feed /\ subscriptions[subscription[id].feed] = id
        BY <1>5, AckTimeoutStep
    <2>3. \A what \in {"rejected", "error"} : Tell(what, id, NoPayload) \in Event
        BY <2>2, ToldIsEvent
    <2>4. CASE subscription[id].pending
        <3>1. /\ subscription' = [subscription EXCEPT ![id] = Forgotten]
              /\ subscriptions' = [subscriptions EXCEPT ![subscription[id].feed] = NoSub]
              /\ scheduleIdleClose /\ told' = {Tell("rejected", id, NoPayload)}
            BY <1>5, <2>4 DEF AckTimeout
        <3>2. told' \subseteq Event
            BY <2>3, <3>1
        <3> QED
            BY <2>1, <3>1, <3>2, SchedulingTyped, ObjectsTyped DEF CallsTyped, ClientTyped
    <2>5. CASE ~subscription[id].pending
        <3>1. /\ subscription' = [subscription EXCEPT ![id].ackTimer = 0]
              /\ told' = {Tell("error", id, NoPayload)} /\ UNCHANGED <<subscriptions, idleTimer>>
            BY <1>5, <2>5 DEF AckTimeout
        <3>2. told' \subseteq Event
            BY <2>3, <3>1
        <3>3. subscription' \in [SubId -> Subscription]
            BY <3>1, ObjectsTyped DEF ClientTyped
        <3> QED
            BY <2>1, <3>1, <3>2, <3>3 DEF CallsTyped, ClientTyped
    <2> QED
        BY <2>4, <2>5
<1>6. ASSUME NEW p \in PubId, PublishTimeout(p) PROVE CallsTyped'
    <2>1. settlePublish(p) /\ told' = {} /\ UNCHANGED <<conn, subscription>>
        BY <1>6 DEF PublishTimeout
    <2> QED
        BY <2>1, SettledTyped DEF CallsTyped, ClientTyped
<1>7. CASE IdleTimeout
    BY <1>1, <1>7 DEF IdleTimeout, ClientTyped
<1>8. CASE Reconnect
    BY <1>1, <1>8 DEF Reconnect, connect, ClientTyped
<1>9. CASE Ageing
    BY <1>1, <1>9 DEF Ageing, ClientTyped
<1>10. CASE Opens
    <2>1. /\ subscriptions' = subscriptions /\ scheduleIdleClose /\ told' = {} /\ conn' = "open"
          /\ publishes' = [p \in PubId |-> [publishes[p] EXCEPT !.state =
                                              IF @ = "unsent" THEN "sent" ELSE @]]
        BY <1>10 DEF Opens
    <2>2. publishes' \in [PubId -> Publish]
        <3>1. \A o \in Publish : [o EXCEPT !.state = IF @ = "unsent" THEN "sent" ELSE @] \in Publish
            BY DEF Publish
        <3> QED
            BY <2>1, <3>1 DEF ClientTyped
    <2>3. subscription' \in [SubId -> Subscription]
        BY <1>10, OpensStep
    <2> QED
        BY <2>1, <2>2, <2>3, SchedulingTyped DEF CallsTyped, ClientTyped
<1>11. CASE Closing
    BY <1>1, <1>11 DEF Closing, ClientTyped
<1>12. ASSUME NEW code, handleClose(code) PROVE CallsTyped'
    <2>1. /\ conn' = "none" /\ UNCHANGED <<subscriptions, publishes, idleTimer>>
          /\ told' = {Tell("disconnected", id, NoPayload) : id \in Mapped}
        BY <1>12 DEF handleClose
    <2>2. subscription' \in [SubId -> Subscription]
        BY <1>12, CloseStep
    <2>3. \A id \in Mapped : id \in SubId /\ \E f \in Feed : subscriptions[f] = id
        BY DEF Mapped, ClientTyped
    <2>4. told' \subseteq Event
        BY <2>1, <2>3, ToldIsEvent
    <2> QED
        BY <2>1, <2>2, <2>4 DEF CallsTyped, ClientTyped
<1>13. CASE ConnectFails \/ \E code \in {"other", "caller-changed"} : Closed(code)
    BY <1>12, <1>13 DEF ConnectFails, Closed
<1>14. ASSUME NEW f \in Feed, Receive(f) PROVE CallsTyped'
    BY <1>14, ReceiveTyped
<1>15. CASE ServerStep
    BY <1>1, <1>15 DEF ServerStep, ClientTyped
<1> QED
    BY <1>2, <1>3, <1>4, <1>5, <1>6, <1>7, <1>8, <1>9, <1>10, <1>11, <1>13, <1>14, <1>15
    DEF Next, CallerStep, TimerStep, NetworkStep

-----------------------------------------------------------------------------
(* The theorems                                                                        *)

LEMMA InitHolds == Init => IInv
<1> SUFFICES ASSUME Init PROVE IInv
    OBVIOUS
<1>1. /\ FeedsTyped /\ ConnInv
    BY DEF Init, Server!ServerInit, FeedsTyped, ConnInv
<1>2. ClientTyped
    <2>1. 0 \in 0 .. MaxTimers /\ 0 \in 0 .. MaxAttempt /\ 0 \in 0 .. 3
        BY ClientAssumption
    <2>2. /\ subscriptions \in [Feed -> SubId \cup {NoSub}] /\ subscription \in [SubId -> Subscription]
          /\ publishes \in [PubId -> Publish] /\ told \subseteq Event
        BY ObjectsTyped DEF Init
    <2> QED
        BY <2>1, <2>2 DEF Init, ClientTyped
<1>3. SubsInv
    BY DEF Init, SubsInv, EntryInv, Forgotten
<1>4. \A f \in Feed : FeedInv(f)
    BY DEF Init, FeedInv
<1>5. WantsConnection /\ IdleSocketIsTimed
    BY DEF Init, WantsConnection, IdleSocketIsTimed, Outstanding, Mapped, NoPublish
<1> QED
    BY <1>1, <1>2, <1>3, <1>4, <1>5 DEF IInv

LEMMA NextKeeps == IInv /\ [Next]_vars => IInv'
<1> SUFFICES ASSUME IInv, [Next]_vars PROVE IInv'
    OBVIOUS
<1>1. Core /\ ClientTyped /\ WantsConnection /\ IdleSocketIsTimed
    BY DEF IInv, Core
<1>2. CASE Next
    <2>1. Core' /\ WantsConnection' /\ IdleSocketIsTimed'
        BY <1>1, <1>2, CoreKept, WantsKept, IdleKept
    <2>2. ClientTyped'
        BY <1>1, <1>2, BackoffKept, CallsKept DEF BackoffTyped, CallsTyped, ClientTyped
    <2> QED
        BY <2>1, <2>2 DEF IInv, Core
<1>3. CASE UNCHANGED vars
    <2>1. Core' /\ ClientTyped'
        BY <1>1, <1>3 DEF vars, serverVars, clientVars, backoffVars, Core, ClientTyped, FeedsTyped,
                          ConnInv, SubsInv, EntryInv, FeedInv, Asked
    <2>2. WantsConnection' /\ IdleSocketIsTimed'
        BY <1>1, <1>3 DEF vars, serverVars, clientVars, backoffVars, WantsConnection,
                          IdleSocketIsTimed, Outstanding, Mapped, isIdle
    <2> QED
        BY <2>1, <2>2 DEF IInv, Core
<1> QED
    BY <1>2, <1>3

\* The invariant of the client and its connection holds in every reachable state.
THEOREM ClientInvariant == Spec => []IInv
<1> QED
    BY InitHolds, NextKeeps, PTL DEF Spec

\* The variables of the client and of its connection keep their types.
THEOREM ClientTypes == Spec => []TypeOK
<1>1. UpFrame \subseteq Server!ClientFrame /\ DownFrame \subseteq Server!ServerFrame
    BY DEF UpFrame, DownFrame, Server!ClientFrame, Server!ServerFrame
<1>2. IInv => TypeOK
    <2> SUFFICES ASSUME IInv PROVE TypeOK
        OBVIOUS
    <2>1. Seq(UpFrame) \subseteq Seq(Server!ClientFrame) /\ Seq(DownFrame) \subseteq Seq(Server!ServerFrame)
        BY <1>1
    <2>2. Server!ServerTypeOK
        BY <2>1 DEF IInv, FeedsTyped, Server!ServerTypeOK
    <2> QED
        BY <2>2 DEF IInv, ClientTyped, TypeOK
<1> QED
    BY <1>2, ClientInvariant, PTL

\* Who waits for a reply has a timer running, on the subscription its feed has.
THEOREM ClientWaitsWithATimer == Spec => []WaitingIsTimed
<1>1. IInv => WaitingIsTimed
    BY DEF IInv, SubsInv, WaitingIsTimed
<1> QED
    BY <1>1, ClientInvariant, PTL

\* Feeds to subscribe and publishes to send have a connection, or one coming.
THEOREM ClientWantsConnection == Spec => []WantsConnection
<1>1. IInv => WantsConnection
    BY DEF IInv
<1> QED
    BY <1>1, ClientInvariant, PTL

\* An idle open socket is going to be closed.
THEOREM ClientClosesIdleSocket == Spec => []IdleSocketIsTimed
<1>1. IInv => IdleSocketIsTimed
    BY DEF IInv
<1> QED
    BY <1>1, ClientInvariant, PTL

\* With nothing on its way, the server serves a feed what the client last asked
\* for it, or nothing.
THEOREM ClientAgreesWithServer == Spec => []QuietAgreement
<1>1. IInv => QuietAgreement
    <2> SUFFICES ASSUME IInv, NEW f \in Feed, conn = "open", up[f] = <<>>, serving[f] # NoPayload
                 PROVE  /\ subscriptions[f] # NoSub
                        /\ subscription[subscriptions[f]].payload = serving[f]
        BY DEF QuietAgreement
    <2>1. NoAsks(up[f])
        BY DEF NoAsks
    <2>2. serving[f] = Asked(f).payload
        BY <2>1 DEF IInv, FeedInv, FeedOK, ServesTheAsk
    <2> QED
        BY <2>2 DEF Asked, Nothing
<1> QED
    BY <1>1, ClientInvariant, PTL

-----------------------------------------------------------------------------
(* Reconnecting in a row                                                               *)

\* Once a reconnect was scheduled with the shortest delay, the backoff has begun and
\* the connections since are fresh; the second was for a change of caller.
BackoffInv ==
    /\ quickReconnects \in 0 .. 2
    /\ quickReconnects # 0 => reconnectAttempt # 0 /\ age = "fresh"
    /\ quickReconnects = 2 => reconnectingAfterCallerChange

LEMMA BackoffBegun ==
    ASSUME ClientTyped, BackoffInv, NEW code, Backoff(code), age' = "fresh"
    PROVE  BackoffInv'
<1> USE DEF BackoffInv
<1>1. MaxAttempt \in Nat /\ reconnectAttempt \in 0 .. MaxAttempt
    BY ClientAssumption DEF ClientTyped
<1>2. reconnectingAfterCallerChange' = (code = "caller-changed")
    BY DEF Backoff
<1>3. CASE code = "caller-changed" /\ ~repeated
    <2>1. reconnectingAfterCallerChange'
        BY <1>2, <1>3
    <2>2. /\ reconnectAttempt' = IF 0 < MaxAttempt THEN 1 ELSE 0
          /\ quickReconnects' = IF MaxAttempt = 0 THEN 0
                                ELSE IF quickReconnects < 3 THEN quickReconnects + 1 ELSE 3
        BY <1>3 DEF Backoff
    <2>3. quickReconnects # 2
        BY <1>3 DEF repeated
    <2> QED
        BY <1>1, <2>1, <2>2, <2>3
<1>4. CASE ~(code = "caller-changed" /\ ~repeated)
    <2>1. /\ reconnectAttempt' = IF reconnectAttempt < MaxAttempt THEN reconnectAttempt + 1 ELSE reconnectAttempt
          /\ quickReconnects' = IF reconnectAttempt # 0 \/ MaxAttempt = 0 THEN 0
                                ELSE IF quickReconnects < 3 THEN quickReconnects + 1 ELSE 3
        BY <1>4 DEF Backoff
    <2> QED
        BY <1>1, <2>1
<1> QED
    BY <1>3, <1>4

LEMMA BackoffInvKept ==
    ASSUME ClientTyped, BackoffInv, Next
    PROVE  BackoffInv'
<1> USE DEF BackoffInv
<1>1. ASSUME UNCHANGED backoffVars PROVE BackoffInv'
    BY <1>1 DEF backoffVars
<1>2. CASE CallerStep
    BY <1>1, <1>2 DEF CallerStep, Subscribe, Unsubscribe, PublishTo
<1>3. ASSUME NEW id \in SubId, NEW armed \in {1, 2}, AckTimeout(id, armed) PROVE BackoffInv'
    BY <1>1, <1>3 DEF AckTimeout
<1>4. ASSUME NEW p \in PubId, PublishTimeout(p) PROVE BackoffInv'
    BY <1>1, <1>4 DEF PublishTimeout
<1>5. CASE IdleTimeout
    BY <1>5 DEF IdleTimeout
<1>6. CASE Reconnect
    BY <1>6 DEF Reconnect
<1>7. CASE Ageing
    BY <1>7 DEF Ageing
<1>8. CASE Opens
    BY <1>8 DEF Opens
<1>9. CASE Closing
    BY <1>1, <1>9 DEF Closing
<1>10. ASSUME NEW code, handleClose(code) PROVE BackoffInv'
    <2>1. age' = "fresh"
        BY <1>10 DEF handleClose
    <2>2. CASE NeedsConnection
        BY <1>10, <2>1, <2>2, BackoffBegun DEF handleClose
    <2>3. CASE ~NeedsConnection
        BY <1>10, <2>1, <2>3 DEF handleClose
    <2> QED
        BY <2>2, <2>3
<1>11. CASE ConnectFails \/ \E code \in {"other", "caller-changed"} : Closed(code)
    BY <1>10, <1>11 DEF ConnectFails, Closed
<1>12. ASSUME NEW f \in Feed, Receive(f) PROVE BackoffInv'
    BY <1>1, <1>12 DEF Receive, ReceiveMessage, ReceiveSubscribed, ReceivePublished,
                       ReceiveBroadcastError, ReceiveRefusal, Consume
<1>13. CASE ServerStep
    BY <1>1, <1>13 DEF ServerStep
<1> QED
    BY <1>2, <1>3, <1>4, <1>5, <1>6, <1>7, <1>8, <1>9, <1>11, <1>12, <1>13
    DEF Next, TimerStep, NetworkStep

\* A server that drops connections before they are stable is not reconnected to in
\* a tight loop: two reconnects in a row at most have the shortest delay.
THEOREM ClientDoesNotLoop == Spec => []NoReconnectLoop
<1>1. Init => BackoffInv
    BY DEF Init, BackoffInv
<1>2. IInv /\ BackoffInv /\ [Next]_vars => BackoffInv'
    <2> SUFFICES ASSUME IInv, BackoffInv, [Next]_vars PROVE BackoffInv'
        OBVIOUS
    <2>1. CASE Next
        BY <2>1, BackoffInvKept DEF IInv
    <2>2. CASE UNCHANGED vars
        BY <2>2 DEF BackoffInv, vars, clientVars, backoffVars
    <2> QED
        BY <2>1, <2>2
<1>3. BackoffInv => NoReconnectLoop
    BY DEF BackoffInv, NoReconnectLoop
<1> QED
    BY <1>1, <1>2, <1>3, ClientInvariant, PTL DEF Spec

=============================================================================
