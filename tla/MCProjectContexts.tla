------------------------- MODULE MCProjectContexts --------------------------
(***************************************************************************)
(* Two processes; two roots, one inside the other, and the normal scope;   *)
(* two stacks.                                                             *)
(***************************************************************************)
EXTENDS ProjectContexts, TLC

CONSTANTS p1, p2, outer, inner, s1, s2

MCOverlapping == {<<outer, inner>>, <<inner, outer>>}

Symmetry == Permutations(Procs) \cup Permutations(Stacks) \cup Permutations(Roots)
=============================================================================
