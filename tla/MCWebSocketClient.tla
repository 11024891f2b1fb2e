-------------------------- MODULE MCWebSocketClient --------------------------
(* WebSocketClient with one or two feeds; the bounds are in the              *)
(* configurations.                                                           *)
EXTENDS WebSocketClient, TLC

CONSTANTS ticker, chat, p1, p2, a, b, o1, o2, o3, r1, r2, r3, r4, m1, m2

Symmetry == Permutations(Payload)

=============================================================================
