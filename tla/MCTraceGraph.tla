---------------------------- MODULE MCTraceGraph ----------------------------
(***************************************************************************)
(* TraceGraph for TLC: every order of up to Length events of a small set.  *)
(***************************************************************************)
EXTENDS TraceGraph

CONSTANT Length

Span(g, P) == [kind |-> "span", ts |-> g, dur |-> g, guid |-> g, parents |-> P,
               implicit |-> FALSE, main |-> FALSE]

\* The program, task 1; tasks with one parent or two, earlier or later ones,
\* themselves, or one that never shows; a task again, with another parent.
Program == [Span(1, {0}) EXCEPT !.main = TRUE, !.implicit = TRUE]
Spans == {Span(2, {1}), Span(2, {4}), Span(3, {1, 2}), Span(3, {2, 5}),
          Span(4, {3, 4}), Span(4, {-1}),
          [Span(3, {0}) EXCEPT !.implicit = TRUE]}
Others == {[kind |-> "create", ts |-> 7], [kind |-> "destroy", ts |-> 8],
           [kind |-> "other", ts |-> 9]}

AllTraces ==
    UNION {{s \in [1 .. n -> Spans \cup Others \cup {Program}] :
               Cardinality({i \in 1 .. n : s[i] = Program}) <= 1} :
           n \in 0 .. Length}
=============================================================================
