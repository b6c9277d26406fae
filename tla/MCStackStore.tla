---------------------------- MODULE MCStackStore ----------------------------
(***************************************************************************)
(* Two stack documents and one set of bindings that fits only the first:   *)
(* <<m2, b>> is the torn pair.                                             *)
(***************************************************************************)
EXTENDS StackStore, TLC

CONSTANTS p, q, m1, m2, none, b

MCProcs == {p, q}
MCStacks == {m1, m2}
MCBindings == {none, b}
MCCompatible == {<<m1, none>>, <<m2, none>>, <<m1, b>>}
MCRollbacks ==
    {<< <<m2, none>>, <<m1, b>> >>, << <<m2, none>>, <<m1, Absent>> >>,
     << <<m1, none>>, NoFiles >>}

Symmetry == Permutations(MCProcs)
=============================================================================
