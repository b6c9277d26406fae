---------------------------- MODULE RuntimeBundle ---------------------------
(***************************************************************************)
(* The releases of the runtime and the link that selects one               *)
(* (integrations/common/runtime_bundle.py).                                *)
(*                                                                         *)
(* A release is a directory named by the digest of its contents, so a      *)
(* release is told by its name, and is whole or, while a removal of it is  *)
(* under way or was interrupted, only a part.                              *)
(***************************************************************************)
EXTENDS Naturals, FiniteSets

CONSTANTS
    Releases,
    NoRelease

ASSUME ReleasesAssumption == NoRelease \notin Releases

VARIABLES
    release,   \* what there is of each release
    current,   \* the release runtime/current leads to
    wanted,    \* the release of this installation
    previous,  \* the release it found selected
    rpc        \* where the installer is

runtimeVars == <<release, current, wanted, previous, rpc>>

RuntimeResults == {"idle", "inspected", "active", "undone", "pruned", "failed", "refused"}

RuntimeTypeOK ==
    /\ release \in [Releases -> {"none", "part", "whole"}]
    /\ current \in Releases \cup {NoRelease}
    /\ wanted \in Releases \cup {NoRelease}
    /\ previous \in Releases \cup {NoRelease}
    /\ rpc \in RuntimeResults \cup
         {"inspect", "install", "switch", "undo", "remove", "removing", "prune"}

\* validate: the files are those that the manifest and the name promise.
Valid(v) == v = NoRelease \/ release[v] = "whole"

RuntimeInit ==
    /\ current \in Releases \cup {NoRelease}
    /\ release = [v \in Releases |-> IF v = current THEN "whole" ELSE "none"]
    /\ wanted = NoRelease /\ previous = NoRelease
    /\ rpc = "idle"

-----------------------------------------------------------------------------
RGoto(location) == rpc' = location

\* build has staged this release; its digest is its name.
RCallInspect(v) ==
    /\ rpc = "idle"
    /\ wanted' = v
    /\ RGoto("inspect")
    /\ UNCHANGED <<release, current, previous>>

\* current_release
RInspect ==
    /\ rpc = "inspect"
    /\ IF Valid(current)
       THEN previous' = current /\ RGoto("inspected")
       ELSE RGoto("refused") /\ UNCHANGED previous
    /\ UNCHANGED <<release, current, wanted>>

RCallActivate == rpc = "inspected" /\ RGoto("install") /\ UNCHANGED <<release, current, wanted, previous>>

\* The copy is made beside the releases and renamed: it is there or not.
RInstall ==
    /\ rpc = "install"
    /\ IF release[wanted] = "part"
       THEN RGoto("refused") /\ UNCHANGED release
       ELSE release' = [release EXCEPT ![wanted] = "whole"] /\ RGoto("switch")
    /\ UNCHANGED <<current, wanted, previous>>

RSwitch ==
    /\ rpc = "switch"
    /\ IF Valid(current)
       THEN current' = wanted /\ RGoto("active")
       ELSE RGoto("refused") /\ UNCHANGED current
    /\ UNCHANGED <<release, wanted, previous>>

\* A rollback begins wherever the activation has got to.
RCallUndo ==
    /\ rpc \in {"inspected", "active", "failed", "refused"}
    /\ wanted # NoRelease
    /\ RGoto("undo")
    /\ UNCHANGED <<release, current, wanted, previous>>

\* Faulty variant: the pointer is left to the next installation.
RUndoRelease ==
    /\ rpc = "undo"
    /\ RGoto(IF Valid(current) THEN "remove" ELSE "refused")
    /\ UNCHANGED <<release, current, wanted, previous>>

\* rollback_attempt: the pointer goes back first.
RUndo ==
    /\ rpc = "undo"
    /\ IF ~Valid(current) \/ ~Valid(previous) \/ current \notin {wanted, previous}
       THEN RGoto("refused") /\ UNCHANGED current
       ELSE RGoto("remove") /\ current' = previous
    /\ UNCHANGED <<release, wanted, previous>>

RRemove ==
    /\ rpc = "remove"
    /\ IF release[wanted] = "none" \/ wanted = previous
       THEN RGoto("undone") /\ UNCHANGED release
       ELSE IF release[wanted] = "part"
       THEN RGoto("refused") /\ UNCHANGED release
       ELSE release' = [release EXCEPT ![wanted] = "part"] /\ RGoto("removing")
    /\ UNCHANGED <<current, wanted, previous>>

RRemoved ==
    /\ rpc = "removing"
    /\ release' = [release EXCEPT ![wanted] = "none"]
    /\ RGoto("undone")
    /\ UNCHANGED <<current, wanted, previous>>

RCallPrune == rpc = "active" /\ RGoto("prune") /\ UNCHANGED <<release, current, wanted, previous>>

\* Every release but the one of this installation, one after the other.
RPrune ==
    /\ rpc = "prune"
    /\ LET others == {v \in Releases \ {wanted} : release[v] # "none"} IN
        IF others = {}
        THEN RGoto("pruned") /\ UNCHANGED release
        ELSE /\ \E v \in others :
                 release' = [release EXCEPT ![v] = IF @ = "whole" THEN "part" ELSE "none"]
             /\ UNCHANGED rpc
    /\ UNCHANGED <<current, wanted, previous>>

\* A system call fails.
RuntimeFails ==
    /\ rpc \in {"inspect", "install", "switch", "undo", "remove", "removing", "prune"}
    /\ RGoto("failed")
    /\ UNCHANGED <<release, current, wanted, previous>>

RuntimeEnds ==
    /\ RGoto("idle")
    /\ wanted' = NoRelease /\ previous' = NoRelease
    /\ UNCHANGED <<release, current>>

RuntimeStep == RInspect \/ RInstall \/ RSwitch \/ RUndo \/ RRemove \/ RRemoved \/ RPrune

-----------------------------------------------------------------------------
(* Properties.                                                             *)

\* What is selected can be run: no rollback, pruning or interruption of one
\* removes a part of the release that runtime/current leads to.
CurrentWhole == Valid(current)
=============================================================================
