----------------------------- MODULE FeedServer -----------------------------
(***************************************************************************)
(* What one open websocket connection promises its client: the server end  *)
(* of WebSocketConnection and ChannelRegistry, reduced to what the client  *)
(* can tell.  A feed's frames are handled one at a time in the order they  *)
(* arrive; a subscribe first drops the feed it replaces, then is prepared, *)
(* then registers, then is acknowledged; messages of the registered        *)
(* channel and replies reach the client in the order they were sent.       *)
(*                                                                         *)
(* Feeds are independent at both ends, so each has its own pair of FIFO    *)
(* channels.                                                               *)
(***************************************************************************)
EXTENDS Sequences, Naturals, SequencesExt

CONSTANTS
    Feed, Payload,
    NoPayload,   \* no channel is registered for the feed
    Request,     \* requestIds
    NoRequest,   \* a frame without a requestId
    MaxDown      \* bound: source frames of one feed on their way to the client

VARIABLES
    up,        \* client frames the server has not finished handling
    down,      \* server frames the client has not received
    handling,  \* where the server is with the first of them
    serving    \* the payload whose channel the feed is registered with

serverVars == <<up, down, handling, serving>>

ClientFrame ==
    [type : {"subscribe"}, request : Request, payload : Payload]
      \cup [type : {"unsubscribe"}, request : {NoRequest}, payload : {NoPayload}]
      \cup [type : {"publish"}, request : Request, payload : {NoPayload}]

ServerFrame ==
    [type : {"message"}, request : {NoRequest}, payload : Payload]
      \cup [type : {"subscribed", "published"}, request : Request, payload : {NoPayload}]
      \cup [type : {"error"}, request : Request \cup {NoRequest}, payload : {NoPayload}]

SubscribeFrame(request, payload) ==
    [type |-> "subscribe", request |-> request, payload |-> payload]
UnsubscribeFrame ==
    [type |-> "unsubscribe", request |-> NoRequest, payload |-> NoPayload]
PublishFrame(request) ==
    [type |-> "publish", request |-> request, payload |-> NoPayload]
Message(payload) ==
    [type |-> "message", request |-> NoRequest, payload |-> payload]
Reply(type, request) ==
    [type |-> type, request |-> request, payload |-> NoPayload]

(* Requests named by a frame on its way                                     *)
RequestsInFlight ==
    {fr.request : fr \in UNION {Range(up[f]) \cup Range(down[f]) : f \in Feed}}

ServerInit ==
    /\ up = [f \in Feed |-> <<>>]
    /\ down = [f \in Feed |-> <<>>]
    /\ handling = [f \in Feed |-> "idle"]
    /\ serving = [f \in Feed |-> NoPayload]

(* The connection is gone, with all it carried and served.                  *)
Disconnect ==
    /\ up' = [f \in Feed |-> <<>>]
    /\ down' = [f \in Feed |-> <<>>]
    /\ handling' = [f \in Feed |-> "idle"]
    /\ serving' = [f \in Feed |-> NoPayload]

(* What the client sends, in one step, on each feed                         *)
Send(frames) == up' = [f \in Feed |-> up[f] \o frames[f]]
SendOn(f, frame) == up' = [up EXCEPT ![f] = Append(@, frame)]

FirstIs(f, type) == up[f] # <<>> /\ Head(up[f]).type = type
Finish(f, reply) ==
    /\ up' = [up EXCEPT ![f] = Tail(@)]
    /\ down' = [down EXCEPT ![f] = @ \o reply]
    /\ handling' = [handling EXCEPT ![f] = "idle"]

(* registry.subscribe up to its await, once the caller check has passed     *)
BeginSubscribe(f) ==
    /\ FirstIs(f, "subscribe")
    /\ handling[f] = "idle"
    /\ handling' = [handling EXCEPT ![f] = "preparing"]
    /\ serving' = [serving EXCEPT ![f] = NoPayload]
    /\ UNCHANGED <<up, down>>

RefuseSubscribe(f) ==
    /\ handling[f] = "preparing"
    /\ Finish(f, <<Reply("error", Head(up[f]).request)>>)
    /\ UNCHANGED serving

(* The subscriber joins the channel, or creates it and starts its source;   *)
(* the ack is sent in a later microtask.                                    *)
Register(f) ==
    /\ handling[f] = "preparing"
    /\ handling' = [handling EXCEPT ![f] = "registered"]
    /\ serving' = [serving EXCEPT ![f] = Head(up[f]).payload]
    /\ UNCHANGED <<up, down>>

AckSubscribe(f) ==
    /\ handling[f] = "registered"
    /\ Finish(f, <<Reply("subscribed", Head(up[f]).request)>>)
    /\ UNCHANGED serving

(* The client has no use for the unsubscribed reply.                        *)
HandleUnsubscribe(f) ==
    /\ FirstIs(f, "unsubscribe")
    /\ serving' = [serving EXCEPT ![f] = NoPayload]
    /\ Finish(f, <<>>)

HandlePublish(f) ==
    /\ FirstIs(f, "publish")
    /\ \E type \in {"published", "error"} : Finish(f, <<Reply(type, Head(up[f]).request)>>)
    /\ UNCHANGED serving

(* The channel's source, or another client's publish                        *)
SourceMessage(f) ==
    /\ serving[f] # NoPayload
    /\ Len(down[f]) < MaxDown
    /\ down' = [down EXCEPT ![f] = Append(@, Message(serving[f]))]
    /\ UNCHANGED <<up, handling, serving>>

SourceError(f) ==
    /\ serving[f] # NoPayload
    /\ Len(down[f]) < MaxDown
    /\ down' = [down EXCEPT ![f] = Append(@, Reply("error", NoRequest))]
    /\ UNCHANGED <<up, handling, serving>>

(* The source failed MAX_RETRIES times: the channel is removed.             *)
SourceGivesUp(f) ==
    /\ serving[f] # NoPayload
    /\ Len(down[f]) < MaxDown
    /\ down' = [down EXCEPT ![f] = Append(@, Reply("error", NoRequest))]
    /\ serving' = [serving EXCEPT ![f] = NoPayload]
    /\ UNCHANGED <<up, handling>>

HandleFrame(f) ==
    \/ BeginSubscribe(f) \/ RefuseSubscribe(f) \/ Register(f) \/ AckSubscribe(f)
    \/ HandleUnsubscribe(f) \/ HandlePublish(f)

ServerStep ==
    \E f \in Feed :
        HandleFrame(f) \/ SourceMessage(f) \/ SourceError(f) \/ SourceGivesUp(f)

(* As a component by itself: the client sends frames and takes its own, and  *)
(* the connection may be lost.                                               *)
ClientStep ==
    \E f \in Feed :
        \/ \E frame \in ClientFrame :
              SendOn(f, frame) /\ UNCHANGED <<down, handling, serving>>
        \/ /\ down[f] # <<>>
           /\ down' = [down EXCEPT ![f] = Tail(@)]
           /\ UNCHANGED <<up, handling, serving>>

ServerNext == ServerStep \/ ClientStep \/ Disconnect

ServerTypeOK ==
    /\ up \in [Feed -> Seq(ClientFrame)]
    /\ down \in [Feed -> Seq(ServerFrame)]
    /\ handling \in [Feed -> {"idle", "preparing", "registered"}]
    /\ serving \in [Feed -> Payload \cup {NoPayload}]

=============================================================================
