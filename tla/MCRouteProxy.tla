---------------------------- MODULE MCRouteProxy ----------------------------
(* Model values for the runs of RouteProxy. *)
EXTENDS RouteProxy, TLC

CONSTANTS r1, r2, r3, s1, s2, m

\* A session whose route has a fallback, one whose route has none, a request
\* that names the model outside any session, and the catalogue.
MCTraffic ==
    {[NoAsk EXCEPT !.catalogue = TRUE], [NoAsk EXCEPT !.model = m],
     [catalogue |-> FALSE, session |-> s1, model |-> m,
      routed |-> TRUE, fallback |-> TRUE],
     [catalogue |-> FALSE, session |-> s2, model |-> m,
      routed |-> TRUE, fallback |-> FALSE]}

Symmetry == Permutations(Requests)
=============================================================================
