------------------------- MODULE MCLogicalSessions --------------------------
(***************************************************************************)
(* Two processes, a session and its fork, a port for each process.         *)
(***************************************************************************)
EXTENDS LogicalSessions, TLC

CONSTANTS p1, p2, s1, s2, n1, n2, c1, c2

Symmetry == Permutations(Procs) \cup Permutations(Ids)
            \cup Permutations(Controllers) \cup Permutations(Ports)
=============================================================================
