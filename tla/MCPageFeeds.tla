----------------------------- MODULE MCPageFeeds -----------------------------
(* PageFeeds with pages that subscribe to one websocketId.                   *)
EXTENDS PageFeeds, TLC

CONSTANTS ticker, p1, p2, x1, x2, screen1, screen2, o1, o2, r1, r2, r3, r4

SameFeed == [x \in Context |-> ticker]

Symmetry == Permutations(Payload) \cup Permutations(Context)

(* `told` is what the last step did: no step reads it, and the properties    *)
(* that name it are of steps.  No step and no property reads whether a feed  *)
(* shows an error, nor which messages it has, only whether it has some.      *)
Has(x) == <<state[x].connected, state[x].messages = {}, buffer[x] = {}, flushTimer[x]>>

View == <<up, down, handling, serving, conn, subscriptions, subscription, publishes,
          idleTimer, reconnectTimers, reconnectAttempt, reconnectingAfterCallerChange,
          age, shown, active, payload, replacing, overtaken, [x \in Context |-> Has(x)]>>

=============================================================================
