------------------------- MODULE WebSocketConnection -------------------------
(***************************************************************************)
(* The server ends of the websocket connections, composed with the channel *)
(* registry they share                                                     *)
(* (packages/api/src/routes/websocket/createWebSocketConnection.js).       *)
(*                                                                         *)
(* Each connection keeps one queue of frames per feed and handles a feed's *)
(* frames one at a time.  Before every subscribe, and on a timer, it       *)
(* resolves its caller again and closes when the caller is no longer the   *)
(* one it was opened with.  A closing connection leaves the registry at    *)
(* once, and again when the frames it was handling have finished.          *)
(*                                                                         *)
(* The registry's actions are those of ChannelRegistry; this module says   *)
(* when a connection takes them.  A subscriber whose socket is gone and    *)
(* whose frames have finished may stand for a new connection.  To its      *)
(* client, each connection is a FeedServer.                                *)
(***************************************************************************)
EXTENDS ChannelRegistry, Sequences

CONSTANTS
    Caller,      \* what getCallerFingerprint tells apart
    Payload,     \* subscription payloads
    NoPayload,   \* the {} payload a publish is evaluated with
    HashOf,      \* [caller, payload] -> hash of what is evaluated for them
    MaxQueue,    \* bound: frames of one feed received but not handled, and
                 \* frames on their way to the client when another is received
    MaxDown      \* bound: frames on their way when a channel broadcasts another

ASSUME EvaluationAssumption ==
    /\ NoPayload \notin Payload
    /\ HashOf \in [Caller \X (Payload \cup {NoPayload}) -> Hash]

VARIABLES
    session,    \* who the connection's upgrade headers authenticate now
    caller,     \* who they authenticated at the upgrade
    status,     \* the connection: "new", "open", "closing" or "closed"
    closeCode,  \* how it was closed
    queue,      \* received frames of a feed, the one being handled first
    stage,      \* what the frame being handled is waiting for
    wanted,     \* the payload of the feed's last subscribe frame, NoPayload
                \* when an unsubscribe came after it
    outbox      \* frames sent on a feed that the client has not received

connectionVars == <<session, caller, status, closeCode, queue, stage, wanted,
                    outbox>>
vars == <<registryVars, connectionVars>>

KeyOf(c, f, payload) == <<f, HashOf[<<caller[c], payload>>]>>

Frame == [type : {"subscribe"}, payload : Payload]
           \cup [type : {"unsubscribe", "publish"}, payload : {NoPayload}]

(* A frame to the client: a reply to its first unanswered frame, or what the *)
(* channel of a key broadcast.                                               *)
Reply(type) == [type |-> type, key |-> NoKey]
OutFrame == [type : {"message", "error", "subscribed", "published", "refused"},
             key : Key \cup {NoKey}]

-----------------------------------------------------------------------------
Init ==
    /\ RegistryInit
    /\ session \in [Subscriber -> Caller]
    /\ caller = session
    /\ status = [c \in Subscriber |-> "new"]
    /\ closeCode = [c \in Subscriber |-> "none"]
    /\ queue = [c \in Subscriber |-> [f \in Feed |-> <<>>]]
    /\ stage = [c \in Subscriber |-> [f \in Feed |-> "idle"]]
    /\ wanted = [c \in Subscriber |-> [f \in Feed |-> NoPayload]]
    /\ outbox = [c \in Subscriber |-> [f \in Feed |-> <<>>]]

(* A sign-in, a sign-out, another organization or other roles.              *)
SessionChanges(c, user) ==
    /\ user # session[c]
    /\ session' = [session EXCEPT ![c] = user]
    /\ UNCHANGED <<registryVars, caller, status, closeCode, queue, stage, wanted, outbox>>

(* The upgrade: the connection context's caller is the one of its headers.  *)
Opens(c) ==
    /\ status[c] \in {"new", "closed"}
    /\ status' = [status EXCEPT ![c] = "open"]
    /\ caller' = [caller EXCEPT ![c] = session[c]]
    /\ closeCode' = [closeCode EXCEPT ![c] = "none"]
    /\ wanted' = [wanted EXCEPT ![c] = [f \in Feed |-> NoPayload]]
    /\ UNCHANGED <<registryVars, session, queue, stage, outbox>>

\* mutant: a frame that finds the feed busy is lost
enqueueWhenIdle(q, frame) == IF q = <<>> THEN <<frame>> ELSE q

(* handleMessage: a well-formed frame joins its feed's queue.                *)
enqueue(q, frame) == Append(q, frame)

Receive(c, f, frame) ==
    /\ status[c] = "open"
    /\ Len(queue[c][f]) + Len(outbox[c][f]) < MaxQueue
    /\ queue' = [queue EXCEPT ![c][f] = enqueue(@, frame)]
    /\ wanted' = [wanted EXCEPT ![c][f] =
                    IF frame.type = "publish" THEN @ ELSE frame.payload]
    /\ UNCHANGED <<registryVars, session, caller, status, closeCode, stage, outbox>>

(* The client takes the next frame of a feed.                                *)
Deliver(c, f) ==
    /\ outbox[c][f] # <<>>
    /\ outbox' = [outbox EXCEPT ![c][f] = Tail(@)]
    /\ UNCHANGED <<registryVars, session, caller, status, closeCode, queue, stage, wanted>>

(* send, to the subscribers of a channel that broadcasts: a closed socket     *)
(* takes nothing.                                                             *)
BroadcastReaches ==
    LET f == FeedOf(sent'.key)
        to == IF sent'.type = "none" THEN {} ELSE {c \in sent'.to : status[c] = "open"}
    IN  /\ \A c \in to : Len(outbox[c][f]) < MaxDown
        /\ outbox' = [c \in Subscriber |->
             IF c \in to
               THEN [outbox[c] EXCEPT ![f] =
                       Append(@, [type |-> sent'.type, key |-> sent'.key])]
               ELSE outbox[c]]

-----------------------------------------------------------------------------
(* close: the connection stops taking frames and leaves all its channels.   *)
(* What it sent and the client has not received is lost.                    *)
CloseWith(c, code) ==
    /\ status[c] = "open"
    /\ status' = [status EXCEPT ![c] = "closing"]
    /\ closeCode' = [closeCode EXCEPT ![c] = code]
    /\ outbox' = [outbox EXCEPT ![c] = [f \in Feed |-> <<>>]]
    /\ UnsubscribeAll(c)

(* The client, the network or the platform closes the socket.               *)
SocketCloses(c) ==
    /\ CloseWith(c, "transport")
    /\ UNCHANGED <<session, caller, queue, stage, wanted>>

\* mutant: no second unsubscribeAll
ForgetsLateSubscribe(c) ==
    /\ status[c] = "closing"
    /\ \A f \in Feed : queue[c][f] = <<>>
    /\ status' = [status EXCEPT ![c] = "closed"]
    /\ UNCHANGED <<registryVars, session, caller, closeCode, queue, stage, wanted, outbox>>

(* The second unsubscribeAll of close, once every queue it saw has drained:  *)
(* a subscribe that was being prepared registered after the first.           *)
CloseFinishes(c) ==
    /\ status[c] = "closing"
    /\ \A f \in Feed : queue[c][f] = <<>>
    /\ status' = [status EXCEPT ![c] = "closed"]
    /\ UnsubscribeAll(c)
    /\ UNCHANGED <<session, caller, closeCode, queue, stage, wanted, outbox>>

(* checkCaller closes the connection: the caller changed, or could not be    *)
(* resolved.                                                                 *)
CheckFails(c) ==
    \/ session[c] # caller[c] /\ CloseWith(c, "caller-changed")
    \/ CloseWith(c, "caller-check-failed")

\* mutant: a quiet connection is not checked
BusyCallerCheck(c) ==
    /\ \E f \in Feed : queue[c][f] # <<>>
    /\ CheckFails(c)
    /\ UNCHANGED <<session, caller, queue, stage, wanted>>

(* checkCaller from the interval timer, which close clears                    *)
CallerCheck(c) ==
    /\ CheckFails(c)
    /\ UNCHANGED <<session, caller, queue, stage, wanted>>

-----------------------------------------------------------------------------
(* handleFrame for the first frame of a feed's queue                        *)

Handling(c, f, type) == queue[c][f] # <<>> /\ Head(queue[c][f]).type = type

ToStage(c, f, next) == stage' = [stage EXCEPT ![c][f] = next]
FrameDone(c, f) ==
    /\ queue' = [queue EXCEPT ![c][f] = Tail(@)]
    /\ ToStage(c, f, "idle")

(* processFrame: frames still queued when the connection closed are dropped. *)
DropFrame(c, f) ==
    /\ stage[c][f] = "idle"
    /\ queue[c][f] # <<>>
    /\ status[c] # "open"
    /\ FrameDone(c, f)
    /\ UNCHANGED <<registryVars, session, caller, status, closeCode, wanted, outbox>>

StartSubscribe(c, f) ==
    /\ stage[c][f] = "idle"
    /\ status[c] = "open"
    /\ Handling(c, f, "subscribe")
    /\ ToStage(c, f, "checking")
    /\ UNCHANGED <<registryVars, session, caller, status, closeCode, queue, wanted, outbox>>

(* The check before a subscribe: the caller is still the same, and           *)
(* registry.subscribe runs up to its own await; or the connection closes,    *)
(* or closed meanwhile, and the frame is left to the client's next socket.   *)
CheckPasses(c, f) ==
    /\ stage[c][f] = "checking"
    /\ status[c] = "open"
    /\ session[c] = caller[c]
    /\ SubscribeCall(c, f, KeyOf(c, f, Head(queue[c][f]).payload))
    /\ ToStage(c, f, "registry")
    /\ UNCHANGED <<session, caller, status, closeCode, queue, wanted, outbox>>

CheckCloses(c, f) ==
    /\ stage[c][f] = "checking"
    /\ CheckFails(c)
    /\ FrameDone(c, f)
    /\ UNCHANGED <<session, caller, wanted>>

CheckAfterClose(c, f) ==
    /\ stage[c][f] = "checking"
    /\ status[c] # "open"
    /\ FrameDone(c, f)
    /\ UNCHANGED <<registryVars, session, caller, status, closeCode, wanted, outbox>>

(* The unsubscribed reply tells the client nothing.                           *)
HandleUnsubscribe(c, f) ==
    /\ stage[c][f] = "idle"
    /\ status[c] = "open"
    /\ Handling(c, f, "unsubscribe")
    /\ Unsubscribe(c, f)
    /\ FrameDone(c, f)
    /\ UNCHANGED <<session, caller, status, closeCode, wanted, outbox>>

StartPublish(c, f) ==
    /\ stage[c][f] = "idle"
    /\ status[c] = "open"
    /\ Handling(c, f, "publish")
    /\ PublishCall(c, f, KeyOf(c, f, NoPayload))
    /\ ToStage(c, f, "registry")
    /\ UNCHANGED <<session, caller, status, closeCode, queue, wanted, outbox>>

(* A registry call goes on after an await; when it ends, its promise settles. *)
RegistryCall(c, f) ==
    /\ stage[c][f] = "registry"
    /\ \/ CallFails(c, f) /\ ToStage(c, f, "refused")
       \/ /\ CallSucceeds(c, f)
          /\ ToStage(c, f, IF call'[c][f] = NoCall THEN "granted" ELSE "registry")
    /\ BroadcastReaches
    /\ UNCHANGED <<session, caller, status, closeCode, queue, wanted>>

(* The ack or error answers the frame, in a later microtask, and the feed's   *)
(* next frame may start.                                                      *)
Answer(c, f) ==
    IF stage[c][f] = "refused" THEN "refused"
    ELSE IF Handling(c, f, "subscribe") THEN "subscribed" ELSE "published"

\* mutant: a frame is only finished on an open connection
AnswerWhileOpen(c, f) ==
    /\ stage[c][f] \in {"granted", "refused"}
    /\ status[c] = "open"
    /\ outbox' = [outbox EXCEPT ![c][f] = Append(@, Reply(Answer(c, f)))]
    /\ FrameDone(c, f)
    /\ UNCHANGED <<registryVars, session, caller, status, closeCode, wanted>>

AnswerFrame(c, f) ==
    /\ stage[c][f] \in {"granted", "refused"}
    /\ outbox' = IF status[c] = "open"
                   THEN [outbox EXCEPT ![c][f] = Append(@, Reply(Answer(c, f)))]
                   ELSE outbox
    /\ FrameDone(c, f)
    /\ UNCHANGED <<registryVars, session, caller, status, closeCode, wanted>>

ChannelStep(id) ==
    /\ SourceStep(id)
    /\ BroadcastReaches
    /\ UNCHANGED <<session, caller, status, closeCode, queue, stage, wanted>>

ChannelRestarts(id) == Restart(id) /\ UNCHANGED connectionVars

-----------------------------------------------------------------------------
FrameStep(c, f) ==
    \/ DropFrame(c, f)
    \/ StartSubscribe(c, f)
    \/ CheckPasses(c, f)
    \/ CheckCloses(c, f)
    \/ CheckAfterClose(c, f)
    \/ HandleUnsubscribe(c, f)
    \/ StartPublish(c, f)
    \/ RegistryCall(c, f)
    \/ AnswerFrame(c, f)

Next ==
    \/ \E c \in Subscriber :
         \/ \E user \in Caller : SessionChanges(c, user)
         \/ Opens(c) \/ SocketCloses(c) \/ CloseFinishes(c) \/ CallerCheck(c)
         \/ \E f \in Feed :
              \/ \E frame \in Frame : Receive(c, f, frame)
              \/ Deliver(c, f)
              \/ FrameStep(c, f)
    \/ \E id \in ChannelId : ChannelStep(id) \/ ChannelRestarts(id)

(* Frames are handled, checks and preparations finish, timers fire: all of   *)
(* it work the server has started.  Clients, sessions and sources owe        *)
(* nothing.                                                                  *)
Fairness ==
    /\ \A c \in Subscriber :
         /\ WF_vars(CloseFinishes(c))
         /\ WF_vars(CallerCheck(c) /\ session[c] # caller[c])
         /\ \A f \in Feed : WF_vars(FrameStep(c, f))
    /\ \A id \in ChannelId : WF_vars(ChannelRestarts(id))

Spec == Init /\ [][Next]_vars /\ Fairness

-----------------------------------------------------------------------------
TypeOK ==
    /\ RegistryTypeOK
    /\ session \in [Subscriber -> Caller]
    /\ caller \in [Subscriber -> Caller]
    /\ status \in [Subscriber -> {"new", "open", "closing", "closed"}]
    /\ closeCode \in [Subscriber -> {"none", "transport", "caller-changed",
                                     "caller-check-failed"}]
    /\ queue \in [Subscriber -> [Feed -> Seq(Frame)]]
    /\ stage \in [Subscriber -> [Feed -> {"idle", "checking", "registry",
                                          "granted", "refused"}]]
    /\ wanted \in [Subscriber -> [Feed -> Payload \cup {NoPayload}]]
    /\ outbox \in [Subscriber -> [Feed -> Seq(OutFrame)]]

(* When a feed's frames have been handled, the connection is subscribed to   *)
(* what the last of them asked for, or (unsubscribed, or refused) to         *)
(* nothing: no earlier subscribe overtakes a later frame (feedQueues).       *)
LastFrameWins ==
    \A c \in Subscriber, f \in Feed :
        status[c] = "open" /\ queue[c][f] = <<>> =>
            \/ subscriptions[c][f] = NoKey
            \/ /\ wanted[c][f] # NoPayload
               /\ subscriptions[c][f] = KeyOf(c, f, wanted[c][f])

(* A connection that has finished closing is subscribed to nothing and is in *)
(* no running channel (the second unsubscribeAll of close).                  *)
ClosedHoldsNothing ==
    \A c \in Subscriber : status[c] \in {"new", "closed"} =>
        /\ \A f \in Feed : subscriptions[c][f] = NoKey
        /\ \A k \in Key : channels[k] # NoChannel =>
               c \notin channel[channels[k]].subscribers

(* Every closing connection lets go of the registry, whatever it was doing.  *)
ClosingFinishes ==
    \A c \in Subscriber : (status[c] = "closing") ~> (status[c] = "closed")

(* A connection whose caller changed does not stay open as the old caller.   *)
CallerChangeCloses ==
    \A c \in Subscriber :
        (status[c] = "open" /\ session[c] # caller[c])
          ~> (status[c] # "open" \/ session[c] = caller[c])

=============================================================================
