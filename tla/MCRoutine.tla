----------------------------- MODULE MCRoutine -----------------------------
(* RoutineMeaning with small routines of every control. *)
EXTENDS RoutineMeaning, SequencesExt

S(id) == [op |-> "step", id |-> id]
Return == [op |-> "return"]
Reject == [op |-> "reject"]
Throw == [op |-> "throw"]
Seq2(a, b) == [op |-> "seq", of |-> <<a, b>>]
Par2(a, b) == [op |-> "parallel", of |-> <<a, b>>]
If2(a, b) == [op |-> "if", of |-> <<a, b>>]
ForN(n, a) == [op |-> "for", items |-> n, do |-> a]
ParN(n, lanes, a) == [op |-> "parallel_for", items |-> n, limit |-> lanes, do |-> a]
WhileDo(a) == [op |-> "while", do |-> a]
TryOf(a, c, f) == [op |-> "try", try |-> a, catch |-> c, finally |-> f]
Call(e) == [op |-> "call", endpoint |-> e]
CallApi(e) == [op |-> "callApi", endpoint |-> e]

\* "plain" runs a step and returns; "deep" calls itself beside a step.
MCEndpoints == [plain |-> Seq2(S("x"), Return), deep |-> Par2(S("y"), Call("deep"))]

Bodies == {S("a"), Reject, Throw, Call("plain"), CallApi("plain"), If2(Return, Throw)}

Handlers == {<<>>, <<S("c")>>, <<Throw>>} \X {<<>>, <<S("f")>>, <<Return>>}

\* These run with fewer handlers: their parts end in many ways.
LargeBodies == {Par2(S("a"), Seq2(S("b"), Reject)), ParN(3, 2, Throw), WhileDo(S("a")), ForN(2, S("a"))}

FewHandlers == {<<<<>>, <<S("f")>>>>, <<<<S("c")>>, <<>>>>, <<<<Throw>>, <<Return>>>>}

MCPrograms ==
    {TryOf(b, h[1], h[2]) : b \in Bodies, h \in Handlers}
    \cup {TryOf(b, h[1], h[2]) : b \in LargeBodies, h \in FewHandlers}
    \cup {Par2(TryOf(S("a"), <<S("c")>>, <<S("f")>>), S("b")),
          ParN(2, 1, TryOf(Call("plain"), <<S("c")>>, <<>>)),
          ParN(2, 2, Par2(Return, S("a"))),
          Par2(Call("plain"), CallApi("plain")),
          TryOf(TryOf(S("a"), <<Throw>>, <<S("f")>>), <<S("c")>>, <<>>),
          TryOf(ForN(2, ParN(2, 2, S("a"))), <<CallApi("plain")>>, <<>>),
          Seq2(Call("deep"), S("a"))}

\* A control's own parts.
PartsOf(r) ==
    CASE r.op \in {"seq", "if", "parallel"}          -> Range(r.of)
      [] r.op \in {"for", "while", "parallel_for"}   -> {r.do}
      [] r.op = "try" -> {r.try} \cup Range(r.catch) \cup Range(r.finally)
      [] OTHER        -> {}

RECURSIVE WithParts(_)
WithParts(rs) == LET parts == UNION {PartsOf(r) : r \in rs}
                 IN  IF parts = {} THEN rs ELSE rs \cup WithParts(parts)

MCRoutines == WithParts(MCPrograms \cup Range(MCEndpoints))
=============================================================================
