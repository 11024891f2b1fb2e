------------------------ MODULE MCWebSocketConnection ------------------------
(* WebSocketConnection with small sets of channels and payloads.   *)
(* The bounds are in the configurations.                                     *)
EXTENDS ConnectionService, TLC

CONSTANTS s1, ticker, p1, p2, h1, h2, c1, c2, alice, bob

(* Payloads evaluate to the same channel for every caller, or differ.        *)
PublicHash == [x \in Caller \X (Payload \cup {NoPayload}) |->
                 IF x[2] = p2 THEN h2 ELSE h1]

(* Channel identities are alike.                                             *)
SomeChannels == {c1, c2}
Symmetry == Permutations(SomeChannels)

(* `sent` is what the last step did: no step reads it, nor does a property.  *)
View == <<channels, channel, subscriptions, call, connectionVars>>

=============================================================================
