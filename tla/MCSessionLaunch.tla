--------------------------- MODULE MCSessionLaunch --------------------------
(***************************************************************************)
(* Three accounts in two pools, two models, an agent, and two versions of  *)
(* the stacks: the controller of the second is locked to an account.       *)
(***************************************************************************)
EXTENDS SessionLaunch, TLC

CONSTANTS p1, p2, m1, m2

MCAccounts == 1..3
MCRoles == <<"agent">>
MCPools == <<"P", "Q">>
MCPoolOf == <<"P", "P", "Q">>
MCProviderOf == <<"B", "A", "A">>
MCRank == [A |-> 0, B |-> 1]
MCServes == (m1 :> {"A", "B"}) @@ (m2 :> {"A"})

c1 == [id |-> 1, model |-> m1, providers |-> {"A", "B"}]
c2 == [id |-> 2, model |-> m2, providers |-> {"A"}]
c3 == [id |-> 3, model |-> m1, providers |-> {"A", "B"}]
c4 == [id |-> 4, model |-> m1, providers |-> {"A", "B"}]

MCVersions ==
    <<[stacks |-> [controller |-> <<c1, c2>>, agents |-> <<<<c3>>>>],
       locks |-> [id \in 1..4 |-> Anyone]],
      [stacks |-> [controller |-> <<c4>>, agents |-> <<<<c3>>>>],
       locks |-> [id \in 1..4 |-> IF id = 4 THEN 1 ELSE Anyone]]>>

Symmetry == Permutations(Procs)
=============================================================================
