--------------------------- MODULE MCInstallation ---------------------------
(***************************************************************************)
(* Two releases, documents as they are shipped or in an old schema, an edit.*)
(***************************************************************************)
EXTENDS Installation, TLC

CONSTANTS v1, v2, default, old, edit

MCContents == {v1, v2, default, old, edit}
MCNormal(c) == IF c = old THEN default ELSE c

Symmetry == Permutations(Releases)
=============================================================================
