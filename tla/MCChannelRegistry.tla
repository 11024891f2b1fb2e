-------------------------- MODULE MCChannelRegistry --------------------------
(* ChannelRegistry with two connections and one feed that can be evaluated  *)
(* to two keys.                                                             *)
EXTENDS ChannelRegistry, TLC

CONSTANTS s1, s2, ticker, h1, h2, c1, c2

MCSubscriber == {s1, s2}
MCFeed == {ticker}
MCHash == {h1, h2}
MCChannelId == {c1, c2}

Symmetry == Permutations(MCSubscriber) \cup Permutations(MCHash)
              \cup Permutations(MCChannelId)

=============================================================================
