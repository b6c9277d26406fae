------------------------ MODULE MCAccountLifecycle --------------------------
(***************************************************************************)
(* Two accounts, which may use two credentials at once or share one after  *)
(* the other.  A user had given the first credential a prefix and a        *)
(* priority of its own.                                                    *)
(***************************************************************************)
EXTENDS AccountLifecycle, TLC

CONSTANTS p, a1, a2, k1, k2, c, own

MCPriorities == {0, 1}
MCFound == {[k \in Credentials |->
               IF k = k1 THEN [prefix |-> own, priority |-> 1]
                         ELSE [prefix |-> Unset, priority |-> Unset]]}

Symmetry == Permutations(Accounts)
=============================================================================
