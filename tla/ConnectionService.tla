-------------------------- MODULE ConnectionService --------------------------
(***************************************************************************)
(* WebSocketConnection, with the registry behind it, as what the client's  *)
(* model is composed with: each connection implements FeedServer.          *)
(***************************************************************************)
EXTENDS WebSocketConnection

CONSTANT Connection   \* any one of them, among the others

ASSUME ConnectionAssumption == Connection \in Subscriber

(* What connection c is to its client.  Evaluations that tell the payloads of *)
(* one caller apart let a channel's key name the payload it serves.           *)
PayloadOf(c, key) == CHOOSE p \in Payload : key = KeyOf(c, key[1], p)

IsOpen(c) == status[c] = "open"

clientFrame(frame) ==
    [type |-> frame.type, payload |-> frame.payload,
     request |-> IF frame.type = "unsubscribe" THEN NoKey ELSE "request"]

serverFrame(c, frame) ==
    CASE frame.type = "message" ->
           [type |-> "message", request |-> NoKey, payload |-> PayloadOf(c, frame.key)]
      [] frame.type = "error" ->
           [type |-> "error", request |-> NoKey, payload |-> NoPayload]
      [] OTHER ->
           [type |-> IF frame.type = "refused" THEN "error" ELSE frame.type,
            request |-> "request", payload |-> NoPayload]

upOf(c) ==
    [f \in Feed |-> IF IsOpen(c)
        THEN [i \in DOMAIN queue[c][f] |-> clientFrame(queue[c][f][i])] ELSE <<>>]
downOf(c) ==
    [f \in Feed |-> [i \in DOMAIN outbox[c][f] |-> serverFrame(c, outbox[c][f][i])]]

Asked(c, f, stages) ==
    IsOpen(c) /\ stage[c][f] \in stages /\ Handling(c, f, "subscribe")
handlingOf(c) ==
    [f \in Feed |-> IF Asked(c, f, {"registry", "refused"}) THEN "preparing"
                    ELSE IF Asked(c, f, {"granted"}) THEN "registered" ELSE "idle"]

IsServed(c, f) ==
    LET key == subscriptions[c][f] IN
    /\ IsOpen(c) /\ key # NoKey
    /\ channels[key] # NoChannel /\ c \in channel[channels[key]].subscribers
servingOf(c) ==
    [f \in Feed |-> IF IsServed(c, f) THEN PayloadOf(c, subscriptions[c][f]) ELSE NoPayload]

connectionView(c) == <<upOf(c), downOf(c), handlingOf(c), servingOf(c)>>

Server == INSTANCE FeedServer WITH
    Request <- {"request"}, NoRequest <- NoKey,
    up <- upOf(Connection), down <- downOf(Connection),
    handling <- handlingOf(Connection), serving <- servingOf(Connection)

(* Each connection is to its client what the client's model takes it for:     *)
(* frames of a feed are handled in order, the previous feed is dropped before *)
(* the next is prepared, messages come from the registered channel only.  The *)
(* publish of a hook that outlived its source's run is the exception.         *)
ServesAsPromised ==
    /\ Server!ServerInit
    /\ [][~SupersededPublish =>
            [Server!ServerNext]_(connectionView(Connection))]_vars

=============================================================================
