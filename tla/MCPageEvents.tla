---------------------------- MODULE MCPageEvents ----------------------------
(* Events that share one request: one per debounce, with one or two actions   *)
(* and a catch action.                                                        *)
EXTENDS PageEvents, TLC

CONSTANTS plain, leading, trailing, q

MCEvents == {plain, leading, trailing}
MCDebounce == (plain :> "none") @@ (leading :> "leading") @@ (trailing :> "trailing")

Other == [requests |-> {}, hold |-> FALSE, async |-> FALSE]
Request == [requests |-> {q}, hold |-> TRUE, async |-> FALSE]
Detached == [requests |-> {q}, hold |-> FALSE, async |-> TRUE]

MCActions == (plain :> [try |-> <<Request, Other>>, catch |-> <<Other>>])
          @@ (leading :> [try |-> <<Detached>>, catch |-> <<>>])
          @@ (trailing :> [try |-> <<Other, Request>>, catch |-> <<Other>>])
=============================================================================
