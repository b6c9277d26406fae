----------------------------- MODULE HomeLayout -----------------------------
(***************************************************************************)
(* The migration of the old XDG directories into ORICHUM_HOME              *)
(* (integrations/common/home_layout.py).                                   *)
(*                                                                         *)
(* The data directory becomes the home itself, config and cache become     *)
(* directories in it; each leaves a link behind until the installation is  *)
(* complete.  A journal says how far the move is.  One installer at a time *)
(* runs prepare, rollback and commit; programs of an older version create  *)
(* their directory anew when they do not find it.                          *)
(***************************************************************************)
EXTENDS Naturals, FiniteSets

CONSTANTS Dirs, NoJournal, MaxStrays

ASSUME DirsAssumption == {"data", "config"} \subseteq Dirs /\ Dirs \subseteq {"data", "config", "cache"}

Journals == [phase : {"prepared", "committing"}, moves : SUBSET Dirs,
             moved : SUBSET Dirs, created : BOOLEAN]

ASSUME NoJournalAssumption == NoJournal \notin Journals

Rank == [data |-> 1, config |-> 2, cache |-> 3]

VARIABLES
    at,        \* where the contents of each directory are
    linked,    \* the old paths that are links into the home
    stray,     \* the old paths that were created anew
    homeDir,   \* ORICHUM_HOME exists
    hosted,    \* it holds the runtime too
    hjournal,  \* home-migration.json
    hpc,       \* where the installer is
    hafter,    \* where it goes when a rollback or a commit is done
    hleft      \* the moves which that has still to look at

homeVars == <<at, linked, stray, homeDir, hosted, hjournal, hpc, hafter, hleft>>

HomeResults == {"idle", "migrated", "nothing", "undone", "committed", "failed", "refused"}

HomeTypeOK ==
    /\ at \in [Dirs -> {"none", "legacy", "home", "buried"}]
    /\ linked \subseteq Dirs /\ stray \subseteq Dirs
    /\ homeDir \in BOOLEAN /\ hosted \in BOOLEAN
    /\ hjournal \in {NoJournal} \cup Journals
    /\ hpc \in HomeResults \cup
         {"prepare", "plan", "move", "note", "link", "undo", "undoMove", "undoNote",
          "undoLast", "commit", "unlink", "drop"}
    /\ hafter \in {"plan", "failed", "undone", "committed"}
    /\ hleft \subseteq Dirs

First(S) == CHOOSE r \in S : \A q \in S : Rank[r] <= Rank[q]
Last(S) == CHOOSE r \in S : \A q \in S : Rank[r] >= Rank[q]

AtSource(r) == at[r] = "legacy" \/ r \in stray
AtTarget(r) == IF r = "data" THEN homeDir ELSE at[r] = "home"

\* Before the migration, after it, and without anything to migrate.
HomeInit ==
    /\ \/ /\ at \in [Dirs -> {"none", "legacy"}]
          /\ homeDir = FALSE
       \/ /\ at \in [Dirs -> {"none", "home"}]
          /\ homeDir = TRUE
    /\ linked = {} /\ stray = {}
    /\ hosted = FALSE
    /\ hjournal = NoJournal
    /\ hpc = "idle" /\ hafter = "plan" /\ hleft = {}

-----------------------------------------------------------------------------
HGoto(location) == hpc' = location
HHold == UNCHANGED <<at, linked, stray, homeDir, hosted>>

\* rollback, which finishes a commit that has begun.
HUndoFrom(after) ==
    /\ HGoto(IF hjournal.phase = "committing" THEN "commit" ELSE "undo")
    /\ hleft' = hjournal.moves
    /\ hafter' = after

HCallPrepare == hpc = "idle" /\ HGoto("prepare") /\ HHold /\ UNCHANGED <<hjournal, hafter, hleft>>

\* Faulty variant: the journal of an earlier installer is not looked for.
HRecoverNothing ==
    /\ hpc = "prepare"
    /\ HGoto("plan")
    /\ HHold
    /\ UNCHANGED <<hjournal, hafter, hleft>>

\* An unfinished migration comes first.
HRecover ==
    /\ hpc = "prepare"
    /\ IF hjournal = NoJournal
       THEN HGoto("plan") /\ UNCHANGED <<hafter, hleft>>
       ELSE HUndoFrom("plan")
    /\ HHold
    /\ UNCHANGED hjournal

HPlan ==
    /\ hpc = "plan"
    /\ LET moves == {r \in Dirs : AtSource(r)} IN
        IF \E r \in Dirs : r \in linked \/ (AtSource(r) /\ AtTarget(r))
        THEN HGoto("refused") /\ UNCHANGED <<homeDir, hjournal>>
        ELSE IF moves = {}
        THEN HGoto("nothing") /\ homeDir' = TRUE /\ UNCHANGED hjournal
        ELSE /\ HGoto("move")
             /\ hjournal' = [phase |-> "prepared", moves |-> moves, moved |-> {},
                             created |-> ~homeDir /\ "data" \notin moves]
             /\ UNCHANGED homeDir
    /\ UNCHANGED <<at, linked, stray, hosted, hafter, hleft>>

HMoving == First(hjournal.moves \ hjournal.moved)

HMove ==
    /\ hpc = "move"
    /\ at' = [at EXCEPT ![HMoving] = "home"]
    /\ homeDir' = TRUE
    /\ HGoto("note")
    /\ UNCHANGED <<linked, stray, hosted, hjournal, hafter, hleft>>

HNote ==
    /\ hpc = "note"
    /\ hjournal' = [hjournal EXCEPT !.moved = @ \cup {HMoving}]
    /\ HGoto("link")
    /\ HHold
    /\ UNCHANGED <<hafter, hleft>>

\* _compatibility_link refuses a directory that is back.
HLink ==
    /\ hpc = "link"
    /\ LET r == Last(hjournal.moved) IN
        IF r \in stray
        THEN HUndoFrom("failed") /\ UNCHANGED linked
        ELSE /\ linked' = linked \cup {r}
             /\ HGoto(IF hjournal.moved = hjournal.moves THEN "migrated" ELSE "move")
             /\ UNCHANGED <<hafter, hleft>>
    /\ UNCHANGED <<at, stray, homeDir, hosted, hjournal>>

\* A system call of prepare fails.
HPrepareFails ==
    /\ hpc \in {"move", "note", "link"}
    /\ HUndoFrom("failed")
    /\ HHold
    /\ UNCHANGED hjournal

-----------------------------------------------------------------------------
HCallUndo == hpc = "migrated" /\ HUndoFrom("undone") /\ HHold /\ UNCHANGED hjournal

\* Faulty variant: the directories go back in the order in which they came.
HUndoingForward == First(hleft)

\* The last move is undone first.
HUndoing == Last(hleft)

\* Its link goes; a source that is there is kept.
HUndo ==
    /\ hpc = "undo" /\ hleft # {}
    /\ LET r == HUndoing IN
        IF r \in linked
        THEN linked' = linked \ {r} /\ HGoto("undoMove") /\ UNCHANGED <<hjournal, hleft>>
        ELSE IF AtSource(r) /\ AtTarget(r)
        THEN HGoto("refused") /\ UNCHANGED <<linked, hjournal, hleft>>
        ELSE IF AtSource(r)
        THEN /\ hjournal' = [hjournal EXCEPT !.moved = @ \ {r}]
             /\ hleft' = hleft \ {r}
             /\ UNCHANGED <<linked, hpc>>
        ELSE HGoto("undoMove") /\ UNCHANGED <<linked, hjournal, hleft>>
    /\ UNCHANGED <<at, stray, homeDir, hosted, hafter>>

\* The home goes back with all that is in it.
HUndoMove ==
    /\ hpc = "undoMove"
    /\ LET r == HUndoing IN
        IF AtTarget(r) /\ r \notin stray
        THEN /\ at' = [q \in Dirs |-> IF q = r THEN "legacy"
                                     ELSE IF r = "data" /\ at[q] = "home" THEN "buried"
                                     ELSE at[q]]
             /\ homeDir' = (homeDir /\ r # "data")
             /\ HGoto("undoNote")
             /\ UNCHANGED hleft
        ELSE /\ IF AtTarget(r) \/ r \in hjournal.moved
                THEN HGoto("refused") /\ UNCHANGED hleft
                ELSE HGoto("undo") /\ hleft' = hleft \ {r}
             /\ UNCHANGED <<at, homeDir>>
    /\ UNCHANGED <<linked, stray, hosted, hjournal, hafter>>

HUndoNote ==
    /\ hpc = "undoNote"
    /\ hjournal' = [hjournal EXCEPT !.moved = @ \ {HUndoing}]
    /\ hleft' = hleft \ {HUndoing}
    /\ HGoto("undo")
    /\ HHold
    /\ UNCHANGED hafter

\* A home that the migration has made and nothing is in goes too.
HUndoHome ==
    /\ hpc = "undo" /\ hleft = {}
    /\ homeDir' = (homeDir /\ ~(/\ hjournal.created /\ ~hosted
                               /\ \A r \in Dirs : at[r] # "home"))
    /\ HGoto("undoLast")
    /\ UNCHANGED <<at, linked, stray, hosted, hjournal, hafter, hleft>>

HDone ==
    /\ hpc \in {"undoLast", "drop"}
    /\ hjournal' = NoJournal
    /\ HGoto(hafter)
    /\ HHold
    /\ UNCHANGED <<hafter, hleft>>

-----------------------------------------------------------------------------
HCallCommit ==
    /\ hpc = "migrated"
    /\ HGoto("commit")
    /\ hleft' = hjournal.moves
    /\ hafter' = "committed"
    /\ HHold
    /\ UNCHANGED hjournal

\* Every directory is in the home and every old path still leads there.
HCommit ==
    /\ hpc = "commit"
    /\ IF \/ \E r \in hjournal.moves : ~AtTarget(r) \/ r \in stray
          \/ hjournal.phase = "prepared" /\ ~(hjournal.moves \subseteq linked)
       THEN HGoto("refused") /\ UNCHANGED hjournal
       ELSE HGoto("unlink") /\ hjournal' = [hjournal EXCEPT !.phase = "committing"]
    /\ HHold
    /\ UNCHANGED <<hafter, hleft>>

\* Faulty variant: it stops at the first directory that has no link.
HUnlinkWhile ==
    /\ hpc = "unlink"
    /\ LET r == First(hleft) IN
        IF hleft = {} \/ r \notin linked
        THEN HGoto("drop") /\ UNCHANGED <<linked, hleft>>
        ELSE linked' = linked \ {r} /\ hleft' = hleft \ {r} /\ UNCHANGED hpc
    /\ UNCHANGED <<at, stray, homeDir, hosted, hjournal, hafter>>

HUnlink ==
    /\ hpc = "unlink"
    /\ IF hleft \cap linked = {}
       THEN HGoto("drop") /\ UNCHANGED <<linked, hleft>>
       ELSE LET r == First(hleft \cap linked) IN
            linked' = linked \ {r} /\ hleft' = hleft \ {r} /\ UNCHANGED hpc
    /\ UNCHANGED <<at, stray, homeDir, hosted, hjournal, hafter>>

\* A system call of a rollback or a commit fails: the journal remains.
HomeFails ==
    /\ hpc \in {"undo", "undoMove", "undoNote", "undoLast", "commit", "unlink", "drop"}
    /\ HGoto("failed")
    /\ HHold
    /\ UNCHANGED <<hjournal, hafter, hleft>>

HomeEnds == HGoto("idle") /\ HHold /\ UNCHANGED <<hjournal, hafter, hleft>>

\* A program of the old version finds no directory, and makes one.
OldProgram ==
    /\ Cardinality(stray) < MaxStrays
    /\ \E r \in Dirs :
        /\ at[r] = "home" /\ r \notin linked \cup stray
        /\ stray' = stray \cup {r}
    /\ UNCHANGED <<at, linked, homeDir, hosted, hjournal, hpc, hafter, hleft>>

\* The user decides between two directories and moves one aside.
UserDecides ==
    /\ hpc = "idle"
    /\ stray # {} /\ stray' = {}
    /\ UNCHANGED <<at, linked, homeDir, hosted, hjournal, hpc, hafter, hleft>>

HomeStep ==
    \/ HRecover \/ HPlan \/ HMove \/ HNote \/ HLink
    \/ HUndo \/ HUndoMove \/ HUndoNote \/ HUndoHome \/ HDone
    \/ HCommit \/ HUnlink

-----------------------------------------------------------------------------
(* Properties.                                                             *)

\* Nothing that is migrated ends up inside another directory, wherever the
\* move, its rollback or its recovery is interrupted.
NothingBuried == \A r \in Dirs : at[r] # "buried"

\* The installer refuses to go on only because of a directory that an old
\* program has made anew: no interruption of its own leaves such a state.
RefusalJustified == hpc = "refused" => stray # {}

\* Once the journal is gone, no link is left, and all is in one place.
MigrationWhole ==
    hjournal = NoJournal /\ hpc # "note" =>
        /\ linked = {}
        /\ \A q, r \in Dirs : ~(at[q] = "home" /\ at[r] = "legacy")
=============================================================================
