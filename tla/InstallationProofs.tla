------------------------- MODULE InstallationProofs -------------------------
(***************************************************************************)
(* What the transaction of install.sh keeps of each of its components,     *)
(* whatever the others do: a step of the installation is a step of the     *)
(* component, or leaves its variables alone; and the component keeps its   *)
(* invariant by itself.                                                    *)
(***************************************************************************)
EXTENDS Installation, TLAPS

-----------------------------------------------------------------------------
(* The runtime bundle                                                      *)

RuntimeNext ==
    \/ \E v \in Releases : RCallInspect(v)
    \/ RCallActivate \/ RCallUndo \/ RCallPrune
    \/ RuntimeStep \/ RuntimeFails \/ RuntimeEnds

\* The installation does nothing else to the releases (install.sh).
LEMMA RuntimeFrame == [Next]_vars => [RuntimeNext]_runtimeVars
  <1> SUFFICES ASSUME [Next]_vars PROVE [RuntimeNext]_runtimeVars
    OBVIOUS
  <1>. USE DEF RuntimeNext
  <1>1. CASE Start \/ RecordState \/ RecordFails \/ StageDocuments \/ ActivateDocuments
              \/ DieActivated \/ Prepared \/ Activated \/ Users
    BY <1>1 DEF Start, RecordState, RecordFails, StageDocuments, ActivateDocuments, DieActivated,
                Prepared, Activated, Users
  <1>2. CASE Recovered \/ Inspected \/ PruneReleases \/ Die \/ UndoneConfig
    BY <1>2 DEF Recovered, Inspected, PruneReleases, Die, UndoneConfig
  <1>3. CASE Reuse \/ Finalized
    BY <1>3 DEF Reuse, Finalized, CommitHome
  <1>4. CASE End \/ Killed \/ UndoneHome
    BY <1>4 DEF End, Killed, UndoneHome, Leave
  <1>5. CASE DieEarly \/ UndoneRuntime
    BY <1>5 DEF DieEarly, UndoneRuntime, UndoHome, Leave
  <1>6. CASE Work
    BY <1>6 DEF Work
  <1>7. CASE CallFails
    BY <1>7 DEF CallFails
  <1>8. CASE UNCHANGED vars
    BY <1>8 DEF vars
  <1>. QED
    BY <1>1, <1>2, <1>3, <1>4, <1>5, <1>6, <1>7, <1>8 DEF Next

\* Where the installer is says which release is selected and which is being
\* removed.
RuntimeInv ==
    /\ RuntimeTypeOK
    /\ Valid(current)
    /\ rpc \in {"inspect", "inspected", "install", "switch", "active", "undo", "remove",
                "removing", "prune"} => wanted \in Releases
    /\ rpc = "switch" => release[wanted] = "whole"
    /\ rpc \in {"remove", "removing"} => current = previous
    /\ rpc = "removing" => wanted # previous
    /\ rpc \in {"active", "prune"} => current = wanted

LEMMA RuntimeStarts == Init => RuntimeInv
  BY ReleasesAssumption DEF Init, RuntimeInit, RuntimeInv, RuntimeTypeOK, RuntimeResults, Valid

LEMMA RuntimeKept ==
    ASSUME RuntimeInv, [RuntimeNext]_runtimeVars
    PROVE  RuntimeInv'
  <1>. USE ReleasesAssumption DEF RuntimeInv, RuntimeTypeOK, RuntimeResults, Valid, RGoto
  <1>1. ASSUME NEW v \in Releases, RCallInspect(v) PROVE RuntimeInv'
    BY <1>1 DEF RCallInspect
  <1>2. CASE RCallActivate \/ RCallUndo \/ RCallPrune
    BY <1>2 DEF RCallActivate, RCallUndo, RCallPrune
  <1>3. CASE RInspect
    BY <1>3 DEF RInspect
  <1>4. CASE RInstall
    BY <1>4 DEF RInstall
  <1>5. CASE RSwitch
    BY <1>5 DEF RSwitch
  <1>6. CASE RUndo
    BY <1>6 DEF RUndo
  <1>7. CASE RRemove
    BY <1>7 DEF RRemove
  <1>8. CASE RRemoved
    BY <1>8 DEF RRemoved
  <1>9. CASE RPrune
    BY <1>9 DEF RPrune
  <1>10. CASE RuntimeFails
    BY <1>10 DEF RuntimeFails
  <1>11. CASE RuntimeEnds
    BY <1>11 DEF RuntimeEnds
  <1>12. CASE UNCHANGED runtimeVars
    BY <1>12 DEF runtimeVars
  <1>. QED
    BY <1>1, <1>2, <1>3, <1>4, <1>5, <1>6, <1>7, <1>8, <1>9, <1>10, <1>11, <1>12
    DEF RuntimeNext, RuntimeStep

\* For any releases and any number of installers, failures and kills: what
\* runtime/current leads to is whole (activate, rollback_attempt, prune).
THEOREM CurrentAlwaysWhole == Spec => []CurrentWhole
  <1>1. RuntimeInv /\ [Next]_vars => RuntimeInv'
    BY RuntimeFrame, RuntimeKept
  <1>2. RuntimeInv => CurrentWhole
    BY DEF RuntimeInv, CurrentWhole
  <1>. QED
    BY RuntimeStarts, <1>1, <1>2, PTL DEF Spec

-----------------------------------------------------------------------------
(* The home                                                                *)

HomeNext ==
    \/ HCallPrepare \/ HCallUndo \/ HCallCommit
    \/ HomeStep \/ HPrepareFails \/ HomeFails \/ HomeEnds
    \/ OldProgram \/ UserDecides
    \/ /\ hpc \in {"migrated", "nothing"} /\ hosted' = TRUE
       /\ UNCHANGED <<at, linked, stray, homeDir, hjournal, hpc, hafter, hleft>>

\* The installation does nothing else to the home but to make the data
\* directory in it (install.sh).
LEMMA HomeFrame == [Next]_vars => [HomeNext]_homeVars
  <1> SUFFICES ASSUME [Next]_vars PROVE [HomeNext]_homeVars
    OBVIOUS
  <1>. USE DEF HomeNext
  <1>1. CASE Start \/ Prepared
    BY <1>1 DEF Start, Prepared
  <1>2. CASE \/ Recovered \/ Inspected \/ Activated \/ StageDocuments \/ ActivateDocuments
             \/ RecordState \/ RecordFails \/ PruneReleases \/ Die \/ DieActivated \/ UndoneConfig
    BY <1>2 DEF Recovered, Inspected, Activated, StageDocuments, ActivateDocuments,
                RecordState, RecordFails, PruneReleases, Die, DieActivated, UndoneConfig
  <1>3. CASE Reuse \/ Finalized
    BY <1>3 DEF Reuse, Finalized, CommitHome
  <1>4. CASE End \/ Killed \/ UndoneHome
    BY <1>4 DEF End, Killed, UndoneHome, Leave
  <1>5. CASE DieEarly \/ UndoneRuntime
    BY <1>5 DEF DieEarly, UndoneRuntime, UndoHome, Leave
  <1>6. CASE Work
    BY <1>6 DEF Work
  <1>7. CASE CallFails
    BY <1>7 DEF CallFails
  <1>8. CASE Users
    BY <1>8 DEF Users
  <1>9. CASE UNCHANGED vars
    BY <1>9 DEF vars
  <1>. QED
    BY <1>1, <1>2, <1>3, <1>4, <1>5, <1>6, <1>7, <1>8, <1>9 DEF Next

\* A home that goes back takes along all that is in it; so the moves are
\* undone in an order in which nothing is, when its turn comes.
HomeInv ==
    /\ HomeTypeOK
    /\ NothingBuried
    /\ \A r \in Dirs : at[r] = "home" => homeDir
    /\ hpc \in {"move", "note", "link", "migrated", "undo", "undoMove", "undoNote",
                "undoLast", "commit", "unlink", "drop"} => hjournal # NoJournal
    /\ hjournal # NoJournal => hjournal.moved \subseteq hjournal.moves
    /\ hpc \in {"move", "note"} => hjournal.moved # hjournal.moves
    /\ hpc = "link" => hjournal.moved # {}
    /\ (hjournal # NoJournal /\ "data" \in hjournal.moves)
         => \A r \in Dirs : at[r] = "home" => r \in hjournal.moves
    /\ hpc \in {"undo", "undoMove", "undoNote"}
         => /\ hleft \subseteq hjournal.moves
            /\ \A r \in hjournal.moves \ hleft : at[r] # "home"
    /\ hpc \in {"undoMove", "undoNote"} => hleft # {}
    /\ hpc = "undoNote" => at[HUndoing] # "home"

LEMMA Ranks == Rank["data"] = 1 /\ Rank["config"] = 2 /\ Rank["cache"] = 3
  BY DEF Rank

LEMMA FirstIsOne ==
    ASSUME NEW S \in SUBSET Dirs, S # {}
    PROVE  First(S) \in S /\ \A q \in S : Rank[First(S)] <= Rank[q]
  <1>1. \A q \in S : q \in {"data", "config", "cache"}
    BY DirsAssumption
  <1>2. \E r \in S : \A q \in S : Rank[r] <= Rank[q]
    <2>1. CASE "data" \in S
      BY <1>1, <2>1, Ranks
    <2>2. CASE "data" \notin S /\ "config" \in S
      BY <1>1, <2>2, Ranks
    <2>3. CASE "data" \notin S /\ "config" \notin S
      BY <1>1, <2>3, Ranks
    <2>. QED
      BY <2>1, <2>2, <2>3
  <1>. QED
    BY <1>2 DEF First

\* The data directory is the last to be undone.
LEMMA LastIsOne ==
    ASSUME NEW S \in SUBSET Dirs, S # {}
    PROVE  /\ Last(S) \in S /\ \A q \in S : Rank[Last(S)] >= Rank[q]
           /\ Last(S) = "data" => S = {"data"}
  <1>1. \A q \in S : q \in {"data", "config", "cache"}
    BY DirsAssumption
  <1>2. \E r \in S : \A q \in S : Rank[r] >= Rank[q]
    <2>1. CASE "cache" \in S
      BY <1>1, <2>1, Ranks
    <2>2. CASE "cache" \notin S /\ "config" \in S
      BY <1>1, <2>2, Ranks
    <2>3. CASE "cache" \notin S /\ "config" \notin S
      BY <1>1, <2>3, Ranks
    <2>. QED
      BY <2>1, <2>2, <2>3
  <1>3. Last(S) \in S /\ \A q \in S : Rank[Last(S)] >= Rank[q]
    BY <1>2 DEF Last
  <1>4. ASSUME Last(S) = "data", NEW q \in S PROVE q = "data"
    BY <1>1, <1>3, <1>4, Ranks
  <1>. QED
    BY <1>3, <1>4

LEMMA RanksDiffer ==
    ASSUME NEW q \in Dirs, NEW r \in Dirs
    PROVE  /\ Rank[q] \in 1..3
           /\ Rank[q] = Rank[r] => q = r
           /\ Rank[q] <= Rank["data"] => q = "data"
  BY DirsAssumption, Ranks

LEMMA HomeStarts == Init => HomeInv
  BY DEF Init, HomeInit, HomeInv, HomeTypeOK, HomeResults, NothingBuried

\* rollback and prepare are called, end and fail at any time.
LEMMA HomeCalls ==
    ASSUME HomeInv,
           \/ HCallPrepare \/ HCallUndo \/ HCallCommit \/ HRecover
           \/ HPrepareFails \/ HomeFails \/ HomeEnds
           \/ OldProgram \/ UserDecides \/ UNCHANGED homeVars
           \/ /\ hpc \in {"migrated", "nothing"} /\ hosted' = TRUE
              /\ UNCHANGED <<at, linked, stray, homeDir, hjournal, hpc, hafter, hleft>>
    PROVE  HomeInv'
  <1>. USE DEF HomeInv, HomeTypeOK, HomeResults, NothingBuried, HGoto, HHold
  <1>1. CASE HCallPrepare
    BY <1>1 DEF HCallPrepare
  <1>2. CASE HCallUndo
    BY <1>2 DEF HCallUndo, HUndoFrom, Journals
  <1>3. CASE HCallCommit
    BY <1>3 DEF HCallCommit, Journals
  <1>4. CASE HRecover
    BY <1>4 DEF HRecover, HUndoFrom, Journals
  <1>5. CASE HPrepareFails
    BY <1>5 DEF HPrepareFails, HUndoFrom, Journals
  <1>6. CASE HomeFails \/ HomeEnds
    BY <1>6 DEF HomeFails, HomeEnds
  <1>7. CASE UserDecides
    BY <1>7 DEF UserDecides, HUndoing
  <1>8. CASE OldProgram
    BY <1>8 DEF OldProgram, HUndoing
  <1>9. CASE UNCHANGED homeVars
    BY <1>9 DEF homeVars, HUndoing
  <1>10. CASE /\ hpc \in {"migrated", "nothing"} /\ hosted' = TRUE
              /\ UNCHANGED <<at, linked, stray, homeDir, hjournal, hpc, hafter, hleft>>
    BY <1>10
  <1>. QED
    BY <1>1, <1>2, <1>3, <1>4, <1>5, <1>6, <1>7, <1>8, <1>9, <1>10

\* prepare moves only what the journal names.
LEMMA HomeMoves ==
    ASSUME HomeInv, HPlan \/ HMove \/ HNote \/ HLink
    PROVE  HomeInv'
  <1>. USE NoJournalAssumption
       DEF HomeInv, HomeTypeOK, HomeResults, NothingBuried, HGoto, HHold
  <1>1. CASE HPlan
    <2>1. CASE hpc' # "move"
      BY <1>1, <2>1 DEF HPlan
    <2>2. CASE hpc' = "move"
      <3>1. PICK moves \in SUBSET Dirs :
              /\ moves = {r \in Dirs : AtSource(r)} /\ moves # {}
              /\ hjournal' = [phase |-> "prepared", moves |-> moves, moved |-> {},
                              created |-> ~homeDir /\ "data" \notin moves]
              /\ hpc' = "move" /\ homeDir' = homeDir
              /\ \A r \in Dirs : ~(AtSource(r) /\ AtTarget(r))
        BY <1>1, <2>2 DEF HPlan
      <3>2. hjournal' \in Journals /\ hjournal' # NoJournal
        <4>1. (~homeDir /\ "data" \notin moves) \in BOOLEAN
          OBVIOUS
        <4>2. [phase |-> "prepared", moves |-> moves, moved |-> {},
               created |-> ~homeDir /\ "data" \notin moves] \in Journals
          BY <4>1, Zenon DEF Journals
        <4>. QED
          BY <3>1, <4>2
      <3>3. hjournal'.moves = moves /\ hjournal'.moved = {}
        BY <3>1
      <3>4. "data" \in moves => ~homeDir
        BY <3>1, DirsAssumption DEF AtTarget
      <3>. QED
        BY <1>1, <3>1, <3>2, <3>3, <3>4 DEF HPlan
    <2>. QED
      BY <2>1, <2>2
  <1>2. hpc \in {"move", "note"} => HMoving \in hjournal.moves \ hjournal.moved
    BY FirstIsOne DEF HMoving, Journals
  <1>3. CASE HMove
    BY <1>2, <1>3 DEF HMove, Journals
  <1>4. CASE HNote
    BY <1>2, <1>4 DEF HNote, Journals
  <1>5. CASE HLink
    <2>1. Last(hjournal.moved) \in Dirs
      BY <1>5, LastIsOne DEF HLink, Journals
    <2>. QED
      BY <1>5, <2>1 DEF HLink, HUndoFrom, Journals
  <1>. QED
    BY <1>1, <1>3, <1>4, <1>5

\* rollback goes through the moves from the last to the first.
LEMMA HomeUndoes ==
    ASSUME HomeInv, HUndo \/ HUndoMove \/ HUndoNote \/ HUndoHome
    PROVE  HomeInv'
  <1>. USE NoJournalAssumption
       DEF HomeInv, HomeTypeOK, HomeResults, NothingBuried, HGoto, HHold
  <1>1. ASSUME hleft # {}
        PROVE  /\ HUndoing \in hleft /\ HUndoing \in Dirs
               /\ HUndoing = "data" => hleft = {"data"}
    BY <1>1, LastIsOne DEF HUndoing
  <1>2. CASE HUndo
    BY <1>1, <1>2 DEF HUndo, AtSource, AtTarget, Journals
  <1>3. CASE HUndoMove
    <2>1. /\ HUndoing \in hleft /\ HUndoing \in Dirs
          /\ HUndoing = "data" => hleft = {"data"}
          /\ UNCHANGED <<linked, stray, hosted, hjournal, hafter>>
      BY <1>1, <1>3 DEF HUndoMove
    <2>2. CASE hpc' = "refused"
      BY <1>3, <2>1, <2>2 DEF HUndoMove
    <2>3. CASE hpc' = "undo"
      BY <1>3, <2>1, <2>3 DEF HUndoMove, AtTarget
    <2>4. CASE hpc' = "undoNote"
      <3>1. /\ at' = [q \in Dirs |-> IF q = HUndoing THEN "legacy"
                                     ELSE IF HUndoing = "data" /\ at[q] = "home" THEN "buried"
                                     ELSE at[q]]
            /\ homeDir' = (homeDir /\ HUndoing # "data")
            /\ hleft' = hleft
        BY <1>3, <2>4 DEF HUndoMove
      <3>2. HUndoing = "data" => \A q \in Dirs \ {"data"} : at[q] # "home"
        BY <1>3, <2>1 DEF HUndoMove, Journals
      <3>3. at' \in [Dirs -> {"none", "legacy", "home"}]
        BY <3>1, <3>2
      <3>4. \A q \in Dirs : at'[q] = "home" => at[q] = "home" /\ q # HUndoing /\ HUndoing # "data"
        BY <3>1, <3>2
      <3>5. HUndoing' = HUndoing
        BY <3>1 DEF HUndoing
      <3>6. HomeTypeOK' /\ NothingBuried'
        BY <1>3, <2>1, <2>4, <3>1, <3>3 DEF HUndoMove
      <3>7. \A r \in Dirs : at'[r] = "home" => homeDir'
        BY <3>1, <3>4
      <3>8. hjournal # NoJournal /\ hpc = "undoMove"
        BY <1>3 DEF HUndoMove
      <3>9. \A r \in hjournal.moves \ hleft : at'[r] # "home"
        BY <3>4, <3>8 DEF Journals
      <3>10. at'[HUndoing] # "home"
        BY <2>1, <3>1
      <3>. QED
        BY <2>1, <2>4, <3>1, <3>4, <3>5, <3>6, <3>7, <3>8, <3>9, <3>10
    <2>. QED
      BY <1>3, <2>2, <2>3, <2>4 DEF HUndoMove
  <1>4. CASE HUndoNote
    BY <1>1, <1>4 DEF HUndoNote, Journals
  <1>5. CASE HUndoHome
    BY <1>5 DEF HUndoHome
  <1>. QED
    BY <1>2, <1>3, <1>4, <1>5

LEMMA HomeKept ==
    ASSUME HomeInv, [HomeNext]_homeVars
    PROVE  HomeInv'
  <1>. USE DEF HomeInv, HomeTypeOK, HomeResults, NothingBuried, HGoto, HHold
  <1>1. CASE HDone
    BY <1>1 DEF HDone
  <1>2. CASE HCommit
    BY <1>2, NoJournalAssumption DEF HCommit, Journals
  <1>3. CASE HUnlink
    BY <1>3 DEF HUnlink
  <1>. QED
    BY <1>1, <1>2, <1>3, HomeCalls, HomeMoves, HomeUndoes DEF HomeNext, HomeStep

\* For any set of the three directories and any number of installers, failures
\* and kills: no migrated directory is carried away inside the data directory
\* (prepare, rollback).
THEOREM NothingEverBuried == Spec => []NothingBuried
  <1>1. HomeInv /\ [Next]_vars => HomeInv'
    BY HomeFrame, HomeKept
  <1>2. HomeInv => NothingBuried
    BY DEF HomeInv
  <1>. QED
    BY HomeStarts, <1>1, <1>2, PTL DEF Spec

\* What is linked, and what old programs have made anew, is in the home. With a
\* journal, that says what there is to move; without one, nothing is half moved.
Moved(r) == at[r] = "home"

Whole ==
    /\ \A r \in linked \cup stray : Moved(r)
    /\ linked \cap stray = {}
    /\ at["data"] = "legacy" => ~homeDir
    /\ hjournal = NoJournal =>
          linked = {} /\ \A q, r \in Dirs : ~(Moved(q) /\ at[r] = "legacy")
    /\ RefusalJustified
    /\ hpc = "plan" => hjournal = NoJournal

Journaled ==
    hjournal # NoJournal =>
        /\ \A r \in Dirs : IF r \in hjournal.moves THEN at[r] \in {"legacy", "home"}
                           ELSE at[r] = "none"
        /\ hjournal.phase = "committing" => \A r \in hjournal.moves : Moved(r)

\* The data directory first, and each directory is linked before the next.
InOrder ==
    hpc \in {"move", "note", "link", "migrated"} =>
        /\ hjournal.phase = "prepared"
        /\ \A r \in hjournal.moved : Moved(r)
        /\ \A q \in hjournal.moved : \A r \in hjournal.moves \ hjournal.moved : Rank[q] < Rank[r]
        /\ \A r \in hjournal.moved :
              r \in linked \/ (hpc = "link" /\ r = Last(hjournal.moved))
        /\ hpc = "note" => Moved(HMoving)
        /\ hpc = "migrated" => hjournal.moved = hjournal.moves

WayBack ==
    /\ hpc \in {"undo", "undoMove", "undoNote", "undoLast"} => hjournal.phase = "prepared"
    /\ hpc = "undoMove" => Moved(HUndoing) /\ HUndoing \notin linked
    /\ hpc = "undoLast" => \A r \in Dirs : ~Moved(r)
    /\ hpc = "commit" /\ hjournal.phase = "prepared" => hjournal.moves \subseteq linked
    /\ hpc \in {"unlink", "drop"} => hjournal.phase = "committing"
    /\ hpc \in {"commit", "unlink"} => linked \subseteq hleft
    /\ hpc = "drop" => linked = {}

WholeInv == Whole /\ Journaled /\ InOrder /\ WayBack

LEMMA HomeIsTarget == ASSUME HomeInv, NEW r \in Dirs, Moved(r) PROVE AtTarget(r)
  BY DEF HomeInv, Moved, AtTarget

\* A directory that is not moved is found in both places only when an old
\* program has made it anew.
LEMMA BothPlaces ==
    ASSUME HomeInv, Whole, NEW r \in Dirs, AtSource(r), AtTarget(r)
    PROVE  r \in stray
  BY DEF Whole, AtSource, AtTarget

LEMMA JournalOf ==
    ASSUME HomeInv, Journaled, Whole, hjournal # NoJournal
    PROVE  /\ hjournal \in Journals /\ hjournal.moves \subseteq Dirs
           /\ hjournal.moved \subseteq hjournal.moves
           /\ hjournal.phase \in {"prepared", "committing"}
           /\ linked \subseteq hjournal.moves
  BY DEF HomeInv, HomeTypeOK, Journaled, Whole, Moved, Journals

LEMMA WholeStarts == Init => WholeInv
  <1> SUFFICES ASSUME Init PROVE WholeInv
    OBVIOUS
  <1>1. /\ linked = {} /\ stray = {} /\ hjournal = NoJournal /\ hpc = "idle"
        /\ \/ at \in [Dirs -> {"none", "legacy"}] /\ homeDir = FALSE
           \/ at \in [Dirs -> {"none", "home"}] /\ homeDir = TRUE
    BY DEF Init, HomeInit
  <1>2. at["data"] = "legacy" => ~homeDir
    BY <1>1, DirsAssumption
  <1>3. \A q, r \in Dirs : ~(at[q] = "home" /\ at[r] = "legacy")
    BY <1>1
  <1>. QED
    BY <1>1, <1>2, <1>3
    DEF WholeInv, Whole, Journaled, InOrder, WayBack, Moved, RefusalJustified

\* Nothing is moved by a call, by its failure, or by others.
LEMMA WholeCalls ==
    ASSUME HomeInv, HomeInv', WholeInv,
           \/ HCallPrepare \/ HCallUndo \/ HCallCommit \/ HRecover
           \/ HPrepareFails \/ HomeFails \/ HomeEnds
           \/ OldProgram \/ UserDecides \/ UNCHANGED homeVars
           \/ /\ hpc \in {"migrated", "nothing"} /\ hosted' = TRUE
              /\ UNCHANGED <<at, linked, stray, homeDir, hjournal, hpc, hafter, hleft>>
    PROVE  WholeInv'
  <1>. USE DEF WholeInv, Whole, Journaled, InOrder, WayBack, Moved,
               RefusalJustified, HGoto, HHold
  <1>1. hjournal # NoJournal => /\ hjournal \in Journals /\ linked \subseteq hjournal.moves
                                /\ hjournal.phase \in {"prepared", "committing"}
    BY JournalOf
  <1>2. CASE HCallPrepare \/ HomeFails \/ HomeEnds
    BY <1>2 DEF HCallPrepare, HomeFails, HomeEnds
  <1>3. CASE HCallUndo
    BY <1>1, <1>3 DEF HCallUndo, HUndoFrom, HomeInv
  <1>4. CASE HCallCommit
    BY <1>1, <1>4 DEF HCallCommit, HomeInv
  <1>5. CASE HRecover
    BY <1>1, <1>5 DEF HRecover, HUndoFrom
  <1>6. CASE HPrepareFails
    BY <1>1, <1>6 DEF HPrepareFails, HUndoFrom, HomeInv
  <1>7. CASE OldProgram
    BY <1>7 DEF OldProgram, HMoving, HUndoing
  <1>8. CASE UserDecides
    BY <1>8 DEF UserDecides
  <1>9. CASE \/ UNCHANGED homeVars
             \/ UNCHANGED <<at, linked, stray, homeDir, hjournal, hpc, hafter, hleft>>
    BY <1>9 DEF homeVars, HMoving, HUndoing
  <1>. QED
    BY <1>2, <1>3, <1>4, <1>5, <1>6, <1>7, <1>8, <1>9

\* Whatever is planned is at its old place, and nothing is in the home yet.
LEMMA WholePlan ==
    ASSUME HomeInv, HomeInv', WholeInv, HPlan
    PROVE  WholeInv'
  <1>. USE DEF WholeInv, HGoto
  <1>1. /\ hpc = "plan" /\ hjournal = NoJournal /\ linked = {}
        /\ UNCHANGED <<at, linked, stray>>
    BY DEF HPlan, Whole
  <1>2. CASE hpc' = "refused"
    <2>1. PICK r \in Dirs : AtSource(r) /\ AtTarget(r)
      BY <1>1, <1>2 DEF HPlan
    <2>2. stray # {} /\ UNCHANGED <<homeDir, hjournal>>
      BY <1>2, <2>1, BothPlaces DEF HPlan
    <2>. QED
      BY <1>1, <1>2, <2>2
      DEF Whole, Journaled, InOrder, WayBack, Moved, RefusalJustified
  <1>3. CASE hpc' = "nothing"
    <2>1. hjournal' = hjournal /\ at["data"] # "legacy"
      BY <1>3, DirsAssumption DEF HPlan, AtSource
    <2>. QED
      BY <1>1, <1>3, <2>1
      DEF Whole, Journaled, InOrder, WayBack, Moved, RefusalJustified
  <1>4. CASE hpc' = "move"
    <2>1. PICK moves \in SUBSET Dirs :
            /\ moves = {r \in Dirs : AtSource(r)} /\ moves # {}
            /\ hjournal' = [phase |-> "prepared", moves |-> moves, moved |-> {},
                            created |-> ~homeDir /\ "data" \notin moves]
            /\ homeDir' = homeDir
            /\ \A r \in Dirs : ~(AtSource(r) /\ AtTarget(r))
      BY <1>4 DEF HPlan
    <2>2. \A r \in moves : at[r] = "legacy"
      <3> SUFFICES ASSUME NEW r \in moves, at[r] # "legacy" PROVE FALSE
        OBVIOUS
      <3>1. Moved(r)
        BY <2>1 DEF AtSource, Whole
      <3>. QED
        BY <2>1, <3>1, HomeIsTarget
    <2>3. \A r \in Dirs \ moves : at[r] = "none"
      BY <1>1, <2>1, <2>2 DEF HomeInv, HomeTypeOK, NothingBuried, AtSource, Whole, Moved
    <2>4. /\ hjournal'.phase = "prepared" /\ hjournal'.moves = moves /\ hjournal'.moved = {}
          /\ hjournal' # NoJournal
      BY <1>4, <2>1 DEF HomeInv
    <2>. QED
      BY <1>1, <1>4, <2>1, <2>2, <2>3, <2>4
      DEF Whole, Journaled, InOrder, WayBack, Moved, RefusalJustified
  <1>. QED
    BY <1>2, <1>3, <1>4 DEF HPlan

\* The moves in their order, each with its note and its link.
LEMMA WholeMoves ==
    ASSUME HomeInv, HomeInv', WholeInv, HMove \/ HNote \/ HLink
    PROVE  WholeInv'
  <1>. USE DEF WholeInv, HGoto, HHold
  <1>1. /\ hjournal # NoJournal /\ hjournal \in Journals /\ hjournal.phase = "prepared"
        /\ hjournal.moves \subseteq Dirs /\ hjournal.moved \subseteq hjournal.moves
        /\ hjournal' # NoJournal
    BY JournalOf DEF HomeInv, InOrder, HMove, HNote, HLink, HUndoFrom
  <1>2. hpc \in {"move", "note"} =>
          /\ HMoving \in hjournal.moves \ hjournal.moved
          /\ \A q \in hjournal.moves \ hjournal.moved : Rank[HMoving] <= Rank[q]
    BY <1>1, FirstIsOne DEF HMoving, HomeInv
  <1>3. CASE HMove
    <2>1. at["data"] = "legacy" => HMoving = "data"
      <3> SUFFICES ASSUME at["data"] = "legacy" PROVE HMoving = "data"
        OBVIOUS
      <3>1. "data" \in hjournal.moves \ hjournal.moved
        BY <1>1, <1>3, DirsAssumption DEF HMove, Journaled, InOrder, Moved
      <3>. QED
        BY <1>1, <1>2, <1>3, <3>1, RanksDiffer, DirsAssumption DEF HMove
    <2>2. /\ at \in [Dirs -> {"none", "legacy", "home"}]
          /\ at' = [at EXCEPT ![HMoving] = "home"] /\ HMoving \in Dirs
      BY <1>1, <1>2, <1>3 DEF HMove, HomeInv, HomeTypeOK, NothingBuried
    <2>3. /\ at'[HMoving] = "home" /\ \A r \in Dirs \ {HMoving} : at'[r] = at[r]
          /\ HMoving' = HMoving
      BY <1>3, <2>2 DEF HMove, HMoving
    <2>4. Whole'
      BY <1>1, <1>3, <2>1, <2>3, DirsAssumption
      DEF HMove, Whole, Moved, RefusalJustified, HomeInv, HomeTypeOK
    <2>5. Journaled'
      BY <1>1, <1>2, <1>3, <2>3 DEF HMove, Journaled, Moved
    <2>6. InOrder'
      BY <1>1, <1>3, <2>3 DEF HMove, InOrder, Moved
    <2>. QED
      BY <1>3, <2>4, <2>5, <2>6 DEF HMove, WayBack
  <1>4. CASE HNote
    <2>1. /\ hjournal'.moved = hjournal.moved \cup {HMoving} /\ hjournal'.phase = "prepared"
          /\ hjournal'.moves = hjournal.moves
      BY <1>1, <1>4 DEF HNote, Journals
    <2>2. \A q \in hjournal.moved : Rank[q] < Rank[HMoving]
      BY <1>2, <1>4 DEF HNote, InOrder
    <2>3. Last(hjournal'.moved) = HMoving
      <3>1. Last(hjournal'.moved) \in hjournal'.moved /\ Rank[Last(hjournal'.moved)] >= Rank[HMoving]
        BY <1>1, <1>2, <1>4, <2>1, LastIsOne DEF HNote
      <3>2. Last(hjournal'.moved) \in Dirs /\ HMoving \in Dirs
        BY <1>1, <1>2, <1>4, <2>1, <3>1 DEF HNote
      <3>. QED
        BY <2>1, <2>2, <3>1, <3>2, RanksDiffer
    <2>4. \A r \in hjournal'.moves \ hjournal'.moved : Rank[HMoving] < Rank[r]
      <3> SUFFICES ASSUME NEW r \in hjournal'.moves \ hjournal'.moved
                   PROVE  Rank[HMoving] < Rank[r]
        OBVIOUS
      <3>1. r \in Dirs /\ HMoving \in Dirs /\ r # HMoving /\ Rank[HMoving] <= Rank[r]
        BY <1>1, <1>2, <1>4, <2>1 DEF HNote
      <3>. QED
        BY <3>1, RanksDiffer
    <2>5. InOrder'
      BY <1>4, <2>1, <2>3, <2>4 DEF HNote, InOrder, Moved
    <2>. QED
      BY <1>1, <1>4, <2>1, <2>5
      DEF HNote, Whole, Journaled, WayBack, Moved, RefusalJustified
  <1>5. CASE HLink
    <2>1. Last(hjournal.moved) \in hjournal.moved
      BY <1>1, <1>5, LastIsOne DEF HLink, HomeInv
    <2>. QED
      BY <1>1, <1>5, <2>1
      DEF HLink, HUndoFrom, Whole, Journaled, InOrder, WayBack, Moved, RefusalJustified
  <1>. QED
    BY <1>3, <1>4, <1>5

\* A directory that goes back has lost its link, and goes back to an empty place.
LEMMA WholeUndoes ==
    ASSUME HomeInv, HomeInv', WholeInv, HUndo \/ HUndoMove \/ HUndoNote \/ HUndoHome
    PROVE  WholeInv'
  <1>. USE DEF WholeInv, HGoto, HHold
  <1>1. /\ hjournal # NoJournal /\ hjournal \in Journals /\ hjournal.phase = "prepared"
        /\ hjournal.moves \subseteq Dirs /\ hleft \subseteq Dirs
    BY JournalOf DEF HomeInv, HomeTypeOK, WayBack, HUndo, HUndoMove, HUndoNote, HUndoHome
  <1>2. hleft # {} => HUndoing \in hleft
    BY <1>1, LastIsOne DEF HUndoing
  <1>3. CASE HUndo
    <2>1. HUndoing \in hleft /\ HUndoing \in Dirs /\ HUndoing \in hjournal.moves
      BY <1>1, <1>2, <1>3 DEF HUndo, HomeInv
    <2>2. /\ hjournal'.phase = "prepared" /\ hjournal'.moves = hjournal.moves
          /\ hjournal' # NoJournal
      BY <1>1, <1>3, NoJournalAssumption DEF HUndo, Journals
    <2>3. hpc' = "refused" => stray # {}
      BY <1>3, <2>1, BothPlaces DEF HUndo
    <2>4. hpc' = "undoMove" => Moved(HUndoing) /\ HUndoing \notin linked' /\ hleft' = hleft
      BY <1>1, <1>3, <2>1 DEF HUndo, Journaled, Whole, AtSource, Moved
    <2>. QED
      BY <1>1, <1>3, <2>2, <2>3, <2>4
      DEF HUndo, Whole, Journaled, InOrder, WayBack, Moved, RefusalJustified, HUndoing
  <1>4. CASE HUndoMove
    <2>1. /\ HUndoing \in hleft /\ HUndoing \in Dirs /\ HUndoing \in hjournal.moves
          /\ Moved(HUndoing) /\ HUndoing \notin linked /\ AtTarget(HUndoing)
          /\ UNCHANGED <<linked, stray, hjournal>>
      BY <1>1, <1>2, <1>4, HomeIsTarget DEF HUndoMove, HomeInv, WayBack
    <2>2. CASE HUndoing \in stray
      BY <1>1, <1>4, <2>1, <2>2
      DEF HUndoMove, Whole, Journaled, InOrder, WayBack, Moved, RefusalJustified
    <2>3. CASE HUndoing \notin stray
      <3>1. /\ at'[HUndoing] = "legacy" /\ hpc' = "undoNote"
            /\ \A q \in Dirs \ {HUndoing} : at'[q] = at[q]
            /\ homeDir' = (homeDir /\ HUndoing # "data")
        BY <1>4, <2>1, <2>3 DEF HUndoMove, HomeInv, NothingBuried
      <3>2. Whole'
        <4>1. \A r \in linked' \cup stray' : Moved(r)'
          BY <2>1, <2>3, <3>1 DEF Whole, Moved, HomeInv, HomeTypeOK
        <4>2. at'["data"] = "legacy" => ~homeDir'
          BY <3>1, DirsAssumption DEF Whole
        <4>3. hjournal' # NoJournal /\ hpc' = "undoNote" /\ linked' \cap stray' = {}
          BY <1>1, <2>1, <3>1 DEF Whole
        <4>. QED
          BY <4>1, <4>2, <4>3 DEF Whole, RefusalJustified
      <3>3. Journaled'
        BY <1>1, <2>1, <3>1 DEF Journaled
      <3>. QED
        BY <1>1, <2>1, <3>1, <3>2, <3>3 DEF InOrder, WayBack
    <2>. QED
      BY <2>2, <2>3
  <1>5. CASE HUndoNote
    <2>1. /\ hjournal'.phase = "prepared" /\ hjournal'.moves = hjournal.moves
          /\ hjournal' # NoJournal
      BY <1>1, <1>5, NoJournalAssumption DEF HUndoNote, Journals
    <2>. QED
      BY <1>1, <1>5, <2>1
      DEF HUndoNote, Whole, Journaled, InOrder, WayBack, Moved, RefusalJustified
  <1>6. CASE HUndoHome
    <2>1. \A r \in Dirs : ~Moved(r)
      BY <1>1, <1>6 DEF HUndoHome, HomeInv, Journaled, Moved
    <2>. QED
      BY <1>1, <1>6, <2>1
      DEF HUndoHome, Whole, Journaled, InOrder, WayBack, Moved, RefusalJustified
  <1>. QED
    BY <1>3, <1>4, <1>5, <1>6

\* A commit that has begun finds everything in the home.
LEMMA WholeEnds ==
    ASSUME HomeInv, HomeInv', WholeInv, HDone \/ HCommit \/ HUnlink
    PROVE  WholeInv'
  <1>. USE DEF WholeInv, HGoto, HHold
  <1>1. /\ hjournal # NoJournal /\ hjournal \in Journals /\ hjournal.moves \subseteq Dirs
        /\ hjournal.phase \in {"prepared", "committing"}
    BY JournalOf DEF HomeInv, HDone, HCommit, HUnlink
  <1>2. CASE HDone
    <2>1. linked = {} /\ \A q, r \in Dirs : ~(Moved(q) /\ at[r] = "legacy")
      BY <1>1, <1>2 DEF HDone, Whole, Journaled, WayBack, Moved, HomeInv, HomeTypeOK
    <2>2. hpc' \in {"plan", "failed", "undone", "committed"}
      BY <1>2 DEF HDone, HomeInv, HomeTypeOK
    <2>. QED
      BY <1>2, <2>1, <2>2
      DEF HDone, Whole, Journaled, InOrder, WayBack, Moved, RefusalJustified
  <1>3. CASE HCommit
    <2>1. \A r \in hjournal.moves : Moved(r) /\ AtTarget(r)
      BY <1>1, <1>3, HomeIsTarget DEF HCommit, Whole, Journaled, WayBack
    <2>2. CASE hpc' = "refused"
      <3>1. stray # {}
        BY <1>3, <2>1, <2>2 DEF HCommit, WayBack
      <3>. QED
        BY <1>1, <1>3, <2>2, <3>1
        DEF HCommit, Whole, Journaled, InOrder, WayBack, Moved, RefusalJustified
    <2>3. CASE hpc' = "unlink"
      <3>1. /\ hjournal'.phase = "committing" /\ hjournal'.moves = hjournal.moves
            /\ hjournal' # NoJournal
        BY <1>1, <1>3, <2>3, NoJournalAssumption DEF HCommit, Journals
      <3>. QED
        BY <1>1, <1>3, <2>1, <2>3, <3>1
        DEF HCommit, Whole, Journaled, InOrder, WayBack, Moved, RefusalJustified
    <2>. QED
      BY <1>3, <2>2, <2>3 DEF HCommit
  <1>4. CASE HUnlink
    BY <1>1, <1>4
    DEF HUnlink, Whole, Journaled, InOrder, WayBack, Moved, RefusalJustified
  <1>. QED
    BY <1>2, <1>3, <1>4

LEMMA WholeKept ==
    ASSUME HomeInv, WholeInv, [HomeNext]_homeVars
    PROVE  WholeInv'
  BY HomeKept, WholeCalls, WholePlan, WholeMoves, WholeUndoes, WholeEnds
  DEF HomeNext, HomeStep

LEMMA HomeAlways == Spec => [](HomeInv /\ WholeInv)
  <1>1. HomeInv /\ WholeInv /\ [Next]_vars => (HomeInv /\ WholeInv)'
    BY HomeFrame, HomeKept, WholeKept
  <1>. QED
    BY HomeStarts, WholeStarts, <1>1, PTL DEF Spec

\* However the move, its rollback or its commit is interrupted: without a
\* journal no link is left, and all directories are in one place (prepare,
\* rollback, commit).
THEOREM MigrationsAreWhole == Spec => []MigrationWhole
  <1>1. WholeInv => MigrationWhole
    BY DEF WholeInv, Whole, MigrationWhole, Moved
  <1>. QED
    BY HomeAlways, <1>1, PTL

\* The installer refuses to move, to undo or to commit only because an old
\* program has made a directory anew (AtSource and AtTarget in prepare).
THEOREM RefusalsAreJustified == Spec => []RefusalJustified
  <1>1. WholeInv => RefusalJustified
    BY DEF WholeInv, Whole
  <1>. QED
    BY HomeAlways, <1>1, PTL

-----------------------------------------------------------------------------
(* The documents                                                           *)

\* An activation that neither has been rolled back nor is complete.
Live == manifest # NoManifest /\ manifest.phase \notin {"rolledBack", "finalized"}

Typed ==
    /\ doc \in [Documents -> Some] /\ entitled \in [Documents -> Some]
    /\ edited \in [Documents -> {"no", "early", "late"}]
    /\ manifest \in {NoManifest} \cup Manifests
    /\ conflicts \subseteq Documents

\* What users have written since the activation began is what they are
\* entitled to.
History ==
    /\ edited["policy"] = "no"
    /\ \A d \in Documents :
          /\ entitled[d] # Torn
          /\ edited[d] = "late" => doc[d] = Edit /\ entitled[d] = Edit

Settled == ~Live => \A d \in Documents : doc[d] = entitled[d]

\* A document that does not say what it is to say is known to the manifest.
Owed(d) ==
    /\ entitled[d] \in {manifest.prior[d], Edit}
    /\ d = "policy" => entitled[d] = manifest.prior[d]
    /\ doc[d] = entitled[d] \/ /\ entitled[d] = manifest.prior[d]
                               /\ doc[d] \in manifest.mine[d] \cup {Torn}
                               /\ manifest.mine[d] # {}
    /\ Absent \notin manifest.mine[d] /\ manifest.prior[d] # Torn
    /\ d # "policy" /\ Edit \in manifest.mine[d] => manifest.prior[d] = Edit

Staged ==
    /\ cpc \in {"staged", "prepare"} =>
          /\ staged \in [Documents -> Contents]
          /\ \A d \in Documents :
                /\ doc[d] # Torn
                /\ d # "policy" /\ staged[d] = Edit => doc[d] = Edit
    /\ cpc = "staged" => \A d \in Documents : edited[d] # "late"
    /\ cpc = "prepare" =>
          /\ manifest = NoManifest /\ locked
          /\ edited["projects"] # "late" /\ edited["stacks"] # "late"

Writes == {"accounts", "accountsEnd", "policy", "projects", "stacks", "stacksEnd", "saving", "save",
           "commit"}

\* Under the lock, only the accounts can change meanwhile.
Writing ==
    cpc \in Writes =>
        /\ locked /\ Live
        /\ staged \in [Documents -> Contents]
        /\ \A d \in {"policy", "projects"} : manifest.mine[d] = {staged[d]}
        /\ \A d \in {"projects", "stacks"} :
              entitled[d] = manifest.prior[d] /\ edited[d] # "late"

WritingAccounts ==
    /\ cpc \in {"accounts", "accountsEnd"} => manifest.mine["accounts"] = {staged["accounts"]}
    /\ cpc = "accountsEnd" =>
          doc["accounts"] = Torn /\ entitled["accounts"] = manifest.prior["accounts"]

WritingStacks ==
    LET before == manifest.prior["stacks"]
        ours == manifest.mine["stacks"] IN
    /\ cpc \in {"accounts", "accountsEnd", "policy", "projects"} =>
          doc["stacks"] = before /\ ours = (IF before = Absent THEN {staged["stacks"]} ELSE {})
    /\ cpc = "stacks" => doc["stacks"] = Absent /\ ours = {staged["stacks"]}
    /\ cpc = "stacksEnd" => doc["stacks"] = Torn /\ ours = {staged["stacks"]}
    /\ cpc \in {"saving", "save"} => doc["stacks"] \in Contents
    /\ cpc = "saving" => doc["stacks"] \in {before} \cup ours
    /\ cpc = "save" => Normal(doc["stacks"]) \in ours

Done(d) == doc[d] = entitled[d] \/ d \in conflicts

\* A rollback settles one document after the other.
Undoing ==
    /\ cpc \in {"undoStacks", "undoPolicy", "undoProjects", "undoAccounts", "mark"} => Live
    /\ cpc \in {"undoPolicy", "undoProjects", "undoAccounts", "mark"} => Done("stacks")
    /\ cpc \in {"undoProjects", "undoAccounts", "mark"} => Done("policy")
    /\ cpc \in {"undoAccounts", "mark"} => Done("projects")
    /\ cpc = "mark" => Done("accounts")

Ending ==
    /\ cpc \in {"remove", "removeFinal"} => ~Live
    /\ cpc \in {"committed", "finalize"} => \A d \in Documents : doc[d] # Torn

ConfigInv ==
    /\ Typed /\ History /\ Settled
    /\ Live => \A d \in Documents : Owed(d)
    /\ Staged /\ Writing /\ WritingAccounts /\ WritingStacks
    /\ Undoing /\ Ending

-----------------------------------------------------------------------------
(* The configuration documents: what is done to them                       *)

ConfigOther ==
    \/ CSnapshot \/ CCall("rollback") \/ (cpc = "committed" /\ CCall("finalize"))
    \/ ConfigStep \/ ConfigFails \/ ConfigEnds \/ UserEdits

ConfigNext == (\E policy \in Contents : CStage(policy)) \/ ConfigOther

\* The documents are staged for the release that was activated.
Selects == stage = "components" => rpc = "active"

LEMMA SelectsKept == Selects /\ [Next]_vars => Selects'
  <1> SUFFICES ASSUME Selects, [Next]_vars PROVE Selects'
    OBVIOUS
  <1>. USE DEF Selects, Goto
  <1>1. CASE Start \/ Prepared \/ Recovered \/ Inspected \/ StageDocuments
    BY <1>1 DEF Start, Prepared, Recovered, Inspected, StageDocuments
  <1>2. CASE Activated \/ ActivateDocuments \/ RecordState
    BY <1>2 DEF Activated, ActivateDocuments, RecordState, runtimeVars
  <1>3. CASE PruneReleases \/ Die \/ DieActivated \/ RecordFails \/ UndoneConfig
    BY <1>3 DEF PruneReleases, Die, DieActivated, RecordFails, UndoneConfig
  <1>4. CASE Reuse \/ Finalized
    BY <1>4 DEF Reuse, Finalized, CommitHome
  <1>5. CASE End \/ Killed \/ UndoneHome
    BY <1>5 DEF End, Killed, UndoneHome, Leave
  <1>6. CASE DieEarly \/ UndoneRuntime
    BY <1>6 DEF DieEarly, UndoneRuntime, UndoHome, Leave
  <1>7. CASE Work
    BY <1>7 DEF Work, runtimeVars, shellVars, RuntimeStep, RInspect, RInstall, RSwitch, RUndo,
                RRemove, RRemoved, RPrune
  <1>8. CASE CallFails
    BY <1>8 DEF CallFails, runtimeVars, RuntimeFails
  <1>9. CASE Users
    BY <1>9 DEF Users, runtimeVars, shellVars
  <1>10. CASE UNCHANGED vars
    BY <1>10 DEF vars, runtimeVars, shellVars
  <1>. QED
    BY <1>1, <1>2, <1>3, <1>4, <1>5, <1>6, <1>7, <1>8, <1>9, <1>10 DEF Next

\* The installation does nothing else to the documents (install.sh).
LEMMA OtherFrame == [Next]_vars => StageDocuments \/ [ConfigOther]_configVars
  <1> SUFFICES ASSUME [Next]_vars, ~StageDocuments PROVE [ConfigOther]_configVars
    OBVIOUS
  <1>. USE DEF ConfigOther
  <1>1. CASE \/ Start \/ Recovered \/ Inspected \/ Activated \/ PruneReleases
             \/ Die \/ UndoneConfig
    BY <1>1 DEF Start, Recovered, Inspected, Activated, PruneReleases, Die, UndoneConfig
  <1>2. CASE Prepared \/ ActivateDocuments \/ RecordState \/ DieActivated \/ RecordFails
    BY <1>2 DEF Prepared, ActivateDocuments, RecordState, DieActivated, RecordFails
  <1>3. CASE Reuse \/ Finalized
    BY <1>3 DEF Reuse, Finalized
  <1>4. CASE End \/ Killed \/ UndoneHome
    BY <1>4 DEF End, Killed, UndoneHome, Leave
  <1>5. CASE DieEarly \/ UndoneRuntime
    BY <1>5 DEF DieEarly, UndoneRuntime, UndoHome, Leave
  <1>6. CASE Work
    BY <1>6 DEF Work
  <1>7. CASE CallFails
    BY <1>7 DEF CallFails
  <1>8. CASE Users
    BY <1>8 DEF Users
  <1>9. CASE UNCHANGED vars
    BY <1>9 DEF vars
  <1>. QED
    BY <1>1, <1>2, <1>3, <1>4, <1>5, <1>6, <1>7, <1>8, <1>9 DEF Next

LEMMA ConfigFrame == RuntimeInv /\ Selects /\ [Next]_vars => [ConfigNext]_configVars
  <1> SUFFICES ASSUME RuntimeInv, Selects, StageDocuments PROVE ConfigNext
    BY OtherFrame DEF ConfigNext
  <1>1. wanted \in Contents
    BY ReleasesHavePolicies DEF StageDocuments, RuntimeInv, Selects
  <1>. QED
    BY <1>1 DEF StageDocuments, ConfigNext

LEMMA ConfigStarts == Init => ConfigInv
  <1> SUFFICES ASSUME Init PROVE ConfigInv
    OBVIOUS
  <1>1. PICK old \in Contents \ (Releases \cup {Edit}) :
            ConfigInit([d \in Documents |->
                IF at["config"] = "none" THEN Absent
                ELSE IF d = "policy" THEN (IF current = NoRelease THEN Absent ELSE current)
                ELSE old])
    BY DEF Init
  <1>2. /\ doc \in [Documents -> Some] /\ \A d \in Documents : doc[d] # Torn
        /\ entitled = doc /\ edited = Unedited /\ manifest = NoManifest
        /\ conflicts = {} /\ cpc = "idle"
    BY <1>1, ContentsAssumption, ReleasesHavePolicies
    DEF ConfigInit, Init, RuntimeInit, Some
  <1>3. Typed /\ History /\ Settled /\ ~Live
    BY <1>2 DEF Typed, History, Settled, Live, Unedited, Documents
  <1>. QED
    BY <1>2, <1>3 DEF ConfigInv, Staged, Writing, Writes, WritingAccounts, WritingStacks,
                      Undoing, Ending

-----------------------------------------------------------------------------
(* The configuration documents: what is kept                               *)

\* The facts about the documents themselves, and those about the place the
\* installer is at.
Kept == Typed /\ History /\ Settled /\ (Live => \A d \in Documents : Owed(d))
Placed == Staged /\ Writing /\ WritingAccounts /\ WritingStacks /\ Undoing /\ Ending

Nowhere == {"idle", "restored", "finalized", "failed", "rollback", "load"}

LEMMA NothingToKeep == cpc \in Nowhere => Placed
  BY DEF Nowhere, Placed, Staged, Writing, Writes, WritingAccounts, WritingStacks, Undoing,
         Ending

LEMMA Same ==
    ASSUME Kept, UNCHANGED <<doc, entitled, edited, manifest>>, conflicts' \subseteq Documents
    PROVE  Kept'
  BY DEF Kept, Typed, History, Settled, Live, Owed

\* Steps that end a call, or begin one, and leave the documents alone.
LEMMA ConfigCalls ==
    ASSUME ConfigInv,
           \/ CCall("rollback") \/ (cpc = "committed" /\ CCall("finalize"))
           \/ CLoad \/ CRollback \/ ConfigFails \/ ConfigEnds \/ UNCHANGED configVars
    PROVE  ConfigInv'
  <1>. USE DEF CGoto, CHistory, CJournal
  <1>1. Kept /\ Placed /\ conflicts \subseteq Documents
    BY DEF ConfigInv, Kept, Placed, Typed
  <1>2. Kept'
    BY <1>1, Same DEF CCall, CLoad, CRollback, ConfigFails, ConfigEnds, configVars
  <1>3. Placed'
    <2>1. CASE cpc' \in Nowhere
      <3>1. (cpc \in Nowhere => Placed)'
        BY NothingToKeep, PTL
      <3>. QED
        BY <2>1, <3>1
    <2>2. CASE cpc = "committed" /\ CCall("finalize")
      BY <1>1, <2>2 DEF CCall, Placed, Staged, Writing, Writes, WritingAccounts, WritingStacks,
                        Undoing, Ending
    <2>3. CASE CLoad /\ cpc' = "committed"
      BY <2>3 DEF CLoad, Placed, Staged, Writing, Writes, WritingAccounts, WritingStacks,
                  Undoing, Ending
    <2>4. CASE CRollback /\ cpc' \in {"remove", "undoStacks"}
      BY <2>4 DEF CRollback, Placed, Staged, Writing, Writes, WritingAccounts, WritingStacks,
                  Undoing, Ending, Live
    <2>5. CASE UNCHANGED configVars
      BY <1>1, <2>5 DEF configVars, Placed, Staged, Writing, Writes, WritingAccounts,
                        WritingStacks, Undoing, Ending, Live, Done
    <2>. QED
      BY <2>1, <2>2, <2>3, <2>4, <2>5 DEF CCall, CLoad, CRollback, ConfigFails, ConfigEnds,
                                          Nowhere
  <1>. QED
    BY <1>2, <1>3 DEF ConfigInv, Kept, Placed

LEMMA StageKeeps ==
    ASSUME ConfigInv, NEW policy \in Contents, CStage(policy)
    PROVE  ConfigInv'
  <1>. USE DEF CGoto
  <1>1. Kept'
    BY DEF CStage, CJournal, ConfigInv, Kept, Typed, History, Settled, Live, Owed, Unedited,
           Documents
  <1>2. Placed'
    <2>1. CASE cpc' = "staged"
      <3>1. \A d \in Documents : doc[d] # Torn /\ doc[d] \in Contents \cup {Absent}
        BY <2>1 DEF CStage, ConfigInv, Typed, Some
      <3>2. staged' \in [Documents -> Contents]
        BY <3>1, ContentsAssumption DEF CStage, Candidate
      <3>3. \A d \in Documents : d # "policy" /\ staged'[d] = Edit => doc[d] = Edit
        BY <3>1, ContentsAssumption DEF CStage, Candidate
      <3>. QED
        BY <2>1, <3>1, <3>2, <3>3
        DEF CStage, Placed, Staged, Writing, Writes, WritingAccounts, WritingStacks, Undoing,
            Ending, Unedited
    <2>2. (cpc \in Nowhere => Placed)'
      BY NothingToKeep, PTL
    <2>. QED
      BY <2>1, <2>2 DEF CStage, Nowhere
  <1>. QED
    BY <1>1, <1>2 DEF ConfigInv, Kept, Placed

LEMMA SnapshotKeeps ==
    ASSUME ConfigInv, CSnapshot
    PROVE  ConfigInv'
  <1>. USE DEF CGoto
  <1>1. CASE cpc' = "failed"
    <2>1. Kept'
      BY <1>1, Same DEF CSnapshot, ConfigInv, Kept, Typed
    <2>2. (cpc \in Nowhere => Placed)'
      BY NothingToKeep, PTL
    <2>. QED
      BY <1>1, <2>1, <2>2 DEF ConfigInv, Kept, Placed, Nowhere
  <1>2. CASE manifest = NoManifest
    BY <1>2 DEF CSnapshot, ConfigInv, Typed, History, Settled, Live, Owed, Staged, Writing,
                Writes, WritingAccounts, WritingStacks, Undoing, Ending, Documents
  <1>. QED
    BY <1>1, <1>2 DEF CSnapshot

LEMMA MineIs ==
    \A d \in Documents :
        Mine[d] = IF d \in {"policy", "projects"} \/ doc[d] = Absent THEN {staged[d]} ELSE {}
  BY DEF Mine

LEMMA PrepareKeeps ==
    ASSUME ConfigInv, CPrepare
    PROVE  ConfigInv'
  <1>. USE DEF CGoto, CHistory
  <1>1. /\ Typed /\ History /\ Staged /\ manifest = NoManifest /\ locked
        /\ \A d \in Documents : doc[d] = entitled[d]
        /\ \A d \in Documents : doc[d] # Torn /\ staged[d] \in Contents
        /\ staged \in [Documents -> Contents]
        /\ edited["projects"] # "late" /\ edited["stacks"] # "late"
    BY DEF CPrepare, ConfigInv, Staged, Settled, Live
  <1>2. manifest' = [phase |-> "prepared", prior |-> entitled, mine |-> Mine]
    BY DEF CPrepare
  <1>3. Mine \in [Documents -> SUBSET Some]
    BY <1>1 DEF Mine, Some
  <1>4. manifest' \in Manifests /\ manifest'.prior = entitled /\ manifest'.mine = Mine
          /\ manifest'.phase = "prepared"
    BY <1>1, <1>2, <1>3 DEF Manifests, Typed
  <1>5. Typed' /\ History'
    BY <1>1, <1>4 DEF CPrepare, Typed, History
  <1>6. ASSUME NEW d \in Documents PROVE Owed(d)'
    <2>1. /\ entitled' = entitled /\ doc' = doc /\ manifest'.prior[d] = doc[d]
          /\ manifest'.mine[d] = IF d \in {"policy", "projects"} \/ doc[d] = Absent
                                 THEN {staged[d]} ELSE {}
      BY <1>1, <1>4, MineIs DEF CPrepare
    <2>2. doc[d] = entitled[d] /\ staged[d] # Absent /\ doc[d] # Torn
          /\ (d # "policy" /\ staged[d] = Edit => doc[d] = Edit)
      BY <1>1, ContentsAssumption DEF Staged, CPrepare
    <2>. QED
      BY <2>1, <2>2 DEF Owed
  <1>7. Live'
    BY <1>4, NoManifestAssumption DEF Live
  <1>8. Placed'
    BY <1>1, <1>4, <1>7, MineIs
    DEF CPrepare, Placed, Staged, Writing, Writes, WritingAccounts, WritingStacks, Undoing,
        Ending, Documents
  <1>. QED
    BY <1>5, <1>6, <1>7, <1>8 DEF ConfigInv, Placed, Settled

\* A document may be written when its manifest names what is written.
LEMMA Written ==
    ASSUME Kept, Live, NEW d \in Documents, NEW c \in Some,
           doc' = [doc EXCEPT ![d] = c],
           UNCHANGED <<entitled, edited, manifest>>, conflicts' \subseteq Documents,
           edited[d] = "late" => c = Edit,
           c = entitled[d] \/ /\ entitled[d] = manifest.prior[d]
                              /\ c \in manifest.mine[d] \cup {Torn}
                              /\ manifest.mine[d] # {}
    PROVE  Kept' /\ Live'
  <1>1. doc' \in [Documents -> Some] /\ doc'[d] = c
          /\ \A e \in Documents : e # d => doc'[e] = doc[e]
    BY DEF Kept, Typed
  <1>2. Typed' /\ History' /\ Settled' /\ Live'
    BY <1>1 DEF Kept, Typed, History, Settled, Live
  <1>3. ASSUME NEW e \in Documents PROVE Owed(e)'
    <2>1. Owed(e)
      BY DEF Kept
    <2>. QED
      BY <1>1, <2>1 DEF Owed
  <1>. QED
    BY <1>2, <1>3 DEF Kept

LEMMA DocumentNames ==
    /\ \A d \in Documents : d = "policy" \/ d = "projects" \/ d = "accounts" \/ d = "stacks"
    /\ {"policy", "projects", "accounts", "stacks"} \subseteq Documents
  BY DEF Documents

\* The documents are written one after the other.
LEMMA WriteKeeps ==
    ASSUME ConfigInv, CAccounts \/ CStacks \/ CWrite \/ CSave
    PROVE  ConfigInv'
  <1>. USE DEF CGoto, CHistory, CJournal
  <1>1. Kept /\ Live /\ Typed /\ Writing /\ WritingAccounts /\ WritingStacks
          /\ conflicts \subseteq Documents
          /\ \A d \in Documents : Owed(d)
    BY DEF ConfigInv, Kept, Writing, Writes, CAccounts, CStacks, CWrite, CSave, Typed
  <1>2. Torn \in Some /\ Contents \subseteq Some /\ Torn # Absent /\ Torn # Edit
          /\ Absent # Edit
    BY ContentsAssumption DEF Some
  <1>. USE DEF History, Kept
  <1>3. CASE CAccounts /\ cpc' = "accountsEnd"
    <2>1. Kept' /\ Live'
      BY <1>1, <1>2, <1>3, Written, DocumentNames DEF CAccounts, Create, WritingAccounts, Owed
    <2>2. doc["accounts"] = Absent /\ entitled["accounts"] = manifest.prior["accounts"]
      BY <1>1, <1>2, <1>3, DocumentNames DEF CAccounts, Create, Owed
    <2>3. doc'["accounts"] = Torn /\ doc'["stacks"] = doc["stacks"]
      BY <1>1, <1>3, DocumentNames DEF CAccounts, Create, Typed
    <2>. QED
      BY <1>1, <1>3, <2>1, <2>2, <2>3
      DEF ConfigInv, CAccounts, Create, Staged, Writing, Writes, WritingAccounts,
          WritingStacks, Undoing, Ending, Owed, Typed
  <1>4. CASE CStacks /\ cpc' = "stacksEnd"
    <2>1. /\ "stacks" \in Documents /\ doc' = [doc EXCEPT !["stacks"] = Torn]
          /\ UNCHANGED <<entitled, edited, manifest, conflicts>>
      BY <1>4, DocumentNames DEF CStacks, Create
    <2>2. /\ edited["stacks"] # "late" /\ entitled["stacks"] = manifest.prior["stacks"]
          /\ manifest.mine["stacks"] # {}
      BY <1>1, <1>4 DEF CStacks, Writing, Writes, WritingStacks
    <2>3. Kept' /\ Live'
      BY <1>1, <1>2, <2>1, <2>2, Written
    <2>. QED
      BY <1>1, <1>2, <1>4, <2>3, DocumentNames
      DEF ConfigInv, CStacks, Create, Staged, Writing, Writes, WritingAccounts,
          WritingStacks, Undoing, Ending, Owed, Typed
  <1>5. CASE (CAccounts \/ CStacks) /\ cpc' = "failed"
    <2>1. Kept'
      BY <1>1, <1>5, Same DEF CAccounts, CStacks, Create
    <2>2. (cpc \in Nowhere => Placed)'
      BY NothingToKeep, PTL
    <2>. QED
      BY <1>5, <2>1, <2>2 DEF ConfigInv, Placed, Nowhere
  <1>6. CASE CWrite /\ cpc = "accountsEnd"
    <2>1. Kept' /\ Live'
      BY <1>1, <1>2, <1>6, Written, DocumentNames
      DEF CWrite, Complete, Writing, Writes, WritingAccounts
    <2>. QED
      BY <1>1, <1>2, <1>6, <2>1, DocumentNames
      DEF ConfigInv, CWrite, Complete, Staged, Writing, Writes, WritingAccounts,
          WritingStacks, Undoing, Ending, Typed
  <1>7. CASE CWrite /\ cpc = "policy"
    <2>1. Kept' /\ Live'
      BY <1>1, <1>2, <1>7, Written, DocumentNames DEF CWrite, Complete, Writing, Writes, Owed
    <2>. QED
      BY <1>1, <1>2, <1>7, <2>1, DocumentNames
      DEF ConfigInv, CWrite, Complete, Staged, Writing, Writes, WritingAccounts,
          WritingStacks, Undoing, Ending, Typed
  <1>8. CASE CWrite /\ cpc = "projects"
    <2>1. Kept' /\ Live'
      BY <1>1, <1>2, <1>8, Written, DocumentNames DEF CWrite, Complete, Writing, Writes
    <2>2. doc'["stacks"] = doc["stacks"] /\ doc["stacks"] \in Some
      BY <1>1, <1>8, DocumentNames DEF CWrite, Complete, Typed
    <2>3. doc["stacks"] # Torn
      BY <1>1, <1>8, DocumentNames DEF WritingStacks, Owed
    <2>4. doc["stacks"] = manifest.prior["stacks"]
            /\ manifest.mine["stacks"] = (IF manifest.prior["stacks"] = Absent
                                          THEN {staged["stacks"]} ELSE {})
      BY <1>1, <1>8 DEF WritingStacks
    <2>. QED
      BY <1>1, <1>2, <1>8, <2>1, <2>2, <2>3, <2>4, DocumentNames
      DEF ConfigInv, CWrite, Complete, Staged, Writing, Writes, WritingAccounts,
          WritingStacks, Undoing, Ending, Typed, Some
  <1>9. CASE CWrite /\ cpc = "stacksEnd"
    <2>1. Kept' /\ Live'
      BY <1>1, <1>2, <1>9, Written, DocumentNames
      DEF CWrite, Complete, Writing, Writes, WritingStacks
    <2>. QED
      BY <1>1, <1>2, <1>9, <2>1, DocumentNames
      DEF ConfigInv, CWrite, Complete, Staged, Writing, Writes, WritingAccounts,
          WritingStacks, Undoing, Ending, Typed
  <1>10. CASE CSave
    <2>1. Kept' /\ Live'
      BY <1>1, <1>2, <1>10, Written, ContentsAssumption, DocumentNames
      DEF CSave, Writing, Writes, WritingStacks, Typed
    <2>. QED
      BY <1>1, <1>2, <1>10, <2>1, DocumentNames
      DEF ConfigInv, CSave, Staged, Writing, Writes, WritingAccounts,
          WritingStacks, Undoing, Ending, Typed
  <1>. QED
    BY <1>3, <1>4, <1>5, <1>6, <1>7, <1>8, <1>9, <1>10 DEF CAccounts, CStacks, CWrite, Create

\* What the manifest says of the save that follows.
LEMMA SavingNames ==
    ASSUME manifest \in Manifests, Normal(doc["stacks"]) \in Contents, CSaving
    PROVE  /\ manifest' \in Manifests /\ manifest'.phase = "saving"
           /\ manifest'.prior = manifest.prior
           /\ manifest'.mine = [manifest.mine EXCEPT
                                  !["stacks"] = @ \cup {Normal(doc["stacks"])}]
  <1>1. /\ manifest.prior \in [Documents -> Some]
        /\ manifest.mine \in [Documents -> SUBSET Some]
    BY DEF Manifests
  <1>2. [manifest.mine EXCEPT !["stacks"] = @ \cup {Normal(doc["stacks"])}]
          \in [Documents -> SUBSET Some]
    BY <1>1 DEF Some
  <1>3. manifest' = [phase |-> "saving", prior |-> manifest.prior,
                     mine |-> [manifest.mine EXCEPT
                                 !["stacks"] = @ \cup {Normal(doc["stacks"])}]]
    BY DEF CSaving, Manifests
  <1>. QED
    BY <1>1, <1>2, <1>3 DEF Manifests

\* Before the save, the manifest names what it will write; after it, the
\* activation is committed.
LEMMA RecordKeeps ==
    ASSUME ConfigInv, CSaving \/ CCommit
    PROVE  ConfigInv'
  <1>. USE DEF CGoto, CHistory, CJournal
  <1>1. /\ Kept /\ Live /\ Writing /\ WritingStacks /\ manifest \in Manifests
        /\ \A d \in Documents : Owed(d)
    BY DEF ConfigInv, Kept, Writing, Writes, CSaving, CCommit, Typed, Live
  <1>2. CASE CCommit
    <2>1. manifest' \in Manifests /\ Live' /\ manifest'.prior = manifest.prior
            /\ manifest'.mine = manifest.mine
      BY <1>1, <1>2, NoManifestAssumption DEF CCommit, Manifests, Live
    <2>. QED
      BY <1>1, <1>2, <2>1
      DEF CCommit, ConfigInv, Kept, Typed, History, Settled, Owed, Staged, Writing, Writes,
          WritingAccounts, WritingStacks, Undoing, Ending
  <1>3. CASE CSaving
    <2>1. doc["stacks"] \in Contents /\ Normal(doc["stacks"]) \in Contents
            /\ doc["stacks"] \in {manifest.prior["stacks"]} \cup manifest.mine["stacks"]
      BY <1>1, <1>3, ContentsAssumption DEF CSaving, WritingStacks
    <2>2. manifest' \in Manifests /\ Live' /\ manifest'.prior = manifest.prior
            /\ manifest'.mine = [manifest.mine EXCEPT
                                   !["stacks"] = @ \cup {Normal(doc["stacks"])}]
      BY <1>1, <1>3, <2>1, SavingNames, NoManifestAssumption DEF Live
    <2>3. /\ manifest'.mine["stacks"] = manifest.mine["stacks"] \cup {Normal(doc["stacks"])}
          /\ \A d \in Documents : d # "stacks" => manifest'.mine[d] = manifest.mine[d]
      BY <1>1, <2>2, DocumentNames DEF Manifests
    <2>4. Edit = Normal(doc["stacks"]) => manifest.prior["stacks"] = Edit
      BY <1>1, <2>1, ContentsAssumption, DocumentNames DEF Owed
    <2>5. ASSUME NEW d \in Documents PROVE Owed(d)'
      <3>1. Owed(d) /\ Normal(doc["stacks"]) # Absent
        BY <1>1, <2>1, ContentsAssumption
      <3>. QED
        BY <1>3, <2>2, <2>3, <2>4, <3>1 DEF CSaving, Owed
    <2>6. Typed' /\ History' /\ Settled'
      BY <1>1, <1>3, <2>2 DEF CSaving, Kept, Typed, History, Settled
    <2>7. Placed'
      BY <1>1, <1>3, <2>1, <2>2, <2>3, DocumentNames
      DEF CSaving, Placed, Staged, Writing, Writes, WritingAccounts, WritingStacks, Undoing,
          Ending
    <2>. QED
      BY <2>2, <2>5, <2>6, <2>7 DEF ConfigInv, Placed
  <1>. QED
    BY <1>2, <1>3

\* What a rollback puts back is what the document is to say: had a user made a
\* change, the document would not say what the activation has written, unless
\* the same was said before.
LEMMA UndoSettles ==
    ASSUME ConfigInv, Live, NEW d \in Documents, Undo(d),
           UNCHANGED <<entitled, edited, manifest>>
    PROVE  /\ Kept' /\ Live' /\ Done(d)'
           /\ conflicts \subseteq conflicts' /\ conflicts' \subseteq Documents
           /\ \A e \in Documents : e # d => doc'[e] = doc[e]
  <1>1. Kept /\ Owed(d) /\ Typed /\ manifest \in Manifests
    BY DEF ConfigInv, Kept, Typed, Live
  <1>2. Absent # Torn /\ Absent # Edit
    BY ContentsAssumption
  <1>3. CASE doc[d] # manifest.prior[d] /\ doc[d] \in manifest.mine[d]
    <2>1. entitled[d] = manifest.prior[d] /\ edited[d] # "late"
      BY <1>1, <1>3 DEF Owed, Kept, History
    <2>2. doc' = [doc EXCEPT ![d] = manifest.prior[d]] /\ conflicts' = conflicts
            /\ manifest.prior[d] \in Some
      BY <1>1, <1>3 DEF Undo, Manifests
    <2>3. Kept' /\ Live'
      BY <1>1, <2>1, <2>2, Written DEF Typed
    <2>. QED
      BY <1>1, <2>1, <2>2, <2>3 DEF Done, Typed
  <1>4. CASE ~(doc[d] # manifest.prior[d] /\ doc[d] \in manifest.mine[d])
    <2>1. doc' = doc /\ conflicts \subseteq conflicts' /\ conflicts' \subseteq Documents
      BY <1>1, <1>4 DEF Undo, Typed
    <2>2. doc[d] = manifest.prior[d] => doc[d] = entitled[d]
      BY <1>1 DEF Owed
    <2>3. manifest.mine[d] = {} \/ doc[d] = Absent => doc[d] = entitled[d]
      BY <1>1, <1>2 DEF Owed
    <2>4. Done(d)'
      BY <1>4, <2>1, <2>2, <2>3 DEF Undo, Done
    <2>. QED
      BY <1>1, <2>1, <2>4, Same DEF Live
  <1>. QED
    BY <1>3, <1>4

LEMMA UndoKeeps ==
    ASSUME ConfigInv, CUndo
    PROVE  ConfigInv'
  <1>. USE DEF CGoto, CHistory
  <1>1. Live /\ UNCHANGED <<entitled, edited, manifest>>
    BY DEF CUndo, ConfigInv, Undoing
  <1>2. PICK d \in Documents :
          /\ Undo(d)
          /\ \/ d = "stacks" /\ cpc = "undoStacks" /\ cpc' = "undoPolicy"
             \/ d = "policy" /\ cpc = "undoPolicy" /\ cpc' = "undoProjects"
             \/ d = "projects" /\ cpc = "undoProjects" /\ cpc' = "undoAccounts"
             \/ d = "accounts" /\ cpc = "undoAccounts" /\ cpc' = "mark"
    BY DocumentNames DEF CUndo
  <1>3. /\ Kept' /\ Live' /\ Done(d)' /\ conflicts \subseteq conflicts'
        /\ \A e \in Documents : e # d => doc'[e] = doc[e]
    BY <1>1, <1>2, UndoSettles
  <1>4. ASSUME NEW e \in Documents, Done(e) PROVE Done(e)'
    BY <1>1, <1>3, <1>4 DEF Done
  <1>5. Undoing'
    BY <1>2, <1>3, <1>4, DocumentNames DEF Undoing, ConfigInv
  <1>6. Staged' /\ Writing' /\ WritingAccounts' /\ WritingStacks' /\ Ending'
    BY <1>2 DEF Staged, Writing, Writes, WritingAccounts, WritingStacks, Ending
  <1>. QED
    BY <1>3, <1>5, <1>6 DEF ConfigInv, Kept

\* A rollback without a conflict is complete.
LEMMA MarkKeeps ==
    ASSUME ConfigInv, CMark
    PROVE  ConfigInv'
  <1>. USE DEF CGoto, CHistory
  <1>1. /\ Kept /\ Live /\ manifest \in Manifests
        /\ Done("stacks") /\ Done("policy") /\ Done("projects") /\ Done("accounts")
        /\ \A d \in Documents : Owed(d)
    BY DEF CMark, ConfigInv, Kept, Undoing, Typed, Live
  <1>2. UNCHANGED <<doc, entitled, edited, conflicts>>
          /\ manifest' = [manifest EXCEPT !.phase =
                            IF conflicts = {} THEN "rolledBack" ELSE "rollbackConflict"]
    BY DEF CMark
  <1>3. manifest' \in Manifests /\ manifest'.prior = manifest.prior
          /\ manifest'.mine = manifest.mine
          /\ manifest'.phase = IF conflicts = {} THEN "rolledBack" ELSE "rollbackConflict"
    BY <1>1, <1>2 DEF Manifests
  <1>4. Typed' /\ History'
    BY <1>1, <1>2, <1>3 DEF Kept, Typed, History
  <1>5. CASE conflicts = {}
    <2>1. \A d \in Documents : doc[d] = entitled[d]
      BY <1>1, <1>5, DocumentNames DEF Done
    <2>2. ~Live' /\ Settled'
      BY <1>2, <1>3, <1>5, <2>1 DEF Live, Settled
    <2>3. cpc' = "remove"
      BY <1>5 DEF CMark
    <2>. QED
      BY <1>4, <2>2, <2>3
      DEF ConfigInv, Staged, Writing, Writes, WritingAccounts, WritingStacks, Undoing, Ending
  <1>6. CASE conflicts # {}
    <2>1. Live' /\ Settled'
      BY <1>3, <1>6, NoManifestAssumption DEF Live, Settled
    <2>2. \A d \in Documents : Owed(d)'
      BY <1>1, <1>2, <1>3 DEF Owed
    <2>3. cpc' = "failed"
      BY <1>6 DEF CMark
    <2>. QED
      BY <1>4, <2>1, <2>2, <2>3
      DEF ConfigInv, Staged, Writing, Writes, WritingAccounts, WritingStacks, Undoing, Ending
  <1>. QED
    BY <1>5, <1>6

\* A finalized activation is no longer to be undone; its journal, and that of
\* a rollback that is complete, are removed.
LEMMA FinalKeeps ==
    ASSUME ConfigInv, CFinalize \/ CRemove
    PROVE  ConfigInv'
  <1>. USE DEF CGoto, CHistory
  <1>1. CASE CFinalize /\ cpc' = "removeFinal"
    <2>1. manifest \in Manifests /\ \A d \in Documents : doc[d] # Torn
      BY <1>1 DEF CFinalize, ConfigInv, Typed, Ending
    <2>2. manifest' \in Manifests /\ manifest'.phase = "finalized"
      BY <1>1, <2>1 DEF CFinalize, Manifests
    <2>3. Typed' /\ History' /\ ~Live' /\ Settled'
      BY <1>1, <2>1, <2>2 DEF CFinalize, ConfigInv, Typed, History, Live, Settled
    <2>. QED
      BY <1>1, <2>3
      DEF ConfigInv, Staged, Writing, Writes, WritingAccounts, WritingStacks, Undoing, Ending
  <1>2. CASE CFinalize /\ cpc' = "failed"
    <2>1. Kept'
      BY <1>2, Same DEF CFinalize, ConfigInv, Kept, Typed
    <2>2. (cpc \in Nowhere => Placed)'
      BY NothingToKeep, PTL
    <2>. QED
      BY <1>2, <2>1, <2>2 DEF ConfigInv, Kept, Placed, Nowhere
  <1>3. CASE CRemove
    <2>1. ~Live /\ Kept
      BY <1>3 DEF CRemove, ConfigInv, Kept, Ending
    <2>2. Kept'
      BY <1>3, <2>1 DEF CRemove, Kept, Typed, History, Settled, Live
    <2>3. (cpc \in Nowhere => Placed)'
      BY NothingToKeep, PTL
    <2>. QED
      BY <1>3, <2>2, <2>3 DEF CRemove, ConfigInv, Kept, Placed, Nowhere
  <1>. QED
    BY <1>1, <1>2, <1>3 DEF CFinalize

\* While the installer writes, users can only change the accounts.
LEMMA EditKeeps ==
    ASSUME ConfigInv, UserEdits
    PROVE  ConfigInv'
  <1>. USE DEF CJournal
  <1>1. PICK d \in {"projects", "stacks", "accounts"} :
          /\ d = "accounts" \/ ~locked
          /\ doc[d] \notin {Torn, Edit}
          /\ doc' = [doc EXCEPT ![d] = Edit]
          /\ entitled' = [entitled EXCEPT ![d] = Edit]
          /\ edited' = [edited EXCEPT ![d] = IF cpc = "staged" THEN "early" ELSE "late"]
    BY DEF UserEdits
  <1>2. UNCHANGED <<staged, journal, manifest, conflicts, locked, cpc>> /\ (Live' <=> Live)
    BY DEF UserEdits, Live
  <1>3. /\ Typed /\ History /\ Settled /\ d \in Documents /\ d # "policy"
        /\ Edit \in Some /\ Edit # Torn /\ Edit # Absent
    BY DocumentNames, ContentsAssumption DEF ConfigInv, Some
  <1>4. /\ doc' \in [Documents -> Some] /\ entitled' \in [Documents -> Some]
        /\ edited' \in [Documents -> {"no", "early", "late"}]
        /\ doc'[d] = Edit /\ entitled'[d] = Edit
        /\ edited'[d] = (IF cpc = "staged" THEN "early" ELSE "late")
        /\ \A e \in Documents : e # d => /\ doc'[e] = doc[e] /\ entitled'[e] = entitled[e]
                                         /\ edited'[e] = edited[e]
    BY <1>1, <1>3 DEF Typed
  <1>5. Typed' /\ History' /\ Settled'
    BY <1>2, <1>3, <1>4, DocumentNames DEF Typed, History, Settled
  <1>6. ASSUME Live, NEW e \in Documents PROVE Owed(e)'
    <2>1. Owed(e)
      BY <1>6 DEF ConfigInv
    <2>. QED
      BY <1>2, <1>3, <1>4, <2>1 DEF Owed
  <1>7. Staged'
    BY <1>1, <1>2, <1>3, <1>4, DocumentNames DEF ConfigInv, Staged
  <1>8. Writing' /\ WritingStacks'
    <2>1. cpc \in Writes => d = "accounts"
      BY <1>1 DEF ConfigInv, Writing
    <2>. QED
      BY <1>2, <1>4, <2>1, DocumentNames DEF ConfigInv, Writing, Writes, WritingStacks
  <1>9. WritingAccounts'
    BY <1>1, <1>2, <1>4, DocumentNames DEF ConfigInv, WritingAccounts
  <1>10. Undoing' /\ Ending'
    <2>1. ASSUME NEW e \in Documents, Done(e) PROVE Done(e)'
      BY <1>2, <1>4, <2>1 DEF Done
    <2>. QED
      BY <1>2, <1>3, <1>4, <2>1, DocumentNames DEF ConfigInv, Undoing, Ending
  <1>. QED
    BY <1>2, <1>5, <1>6, <1>7, <1>8, <1>9, <1>10 DEF ConfigInv

LEMMA ConfigKept ==
    ASSUME ConfigInv, [ConfigNext]_configVars
    PROVE  ConfigInv'
  BY ConfigCalls, StageKeeps, SnapshotKeeps, PrepareKeeps, WriteKeeps, RecordKeeps, UndoKeeps,
     MarkKeeps, FinalKeeps, EditKeeps DEF ConfigNext, ConfigOther, ConfigStep

LEMMA ConfigAlways == Spec => []ConfigInv
  <1>1. Init => RuntimeInv /\ Selects /\ ConfigInv
    BY RuntimeStarts, ConfigStarts DEF Init, Selects
  <1>2. RuntimeInv /\ Selects /\ ConfigInv /\ [Next]_vars
          => RuntimeInv' /\ Selects' /\ ConfigInv'
    BY RuntimeFrame, RuntimeKept, SelectsKept, ConfigFrame, ConfigKept
  <1>. QED
    BY <1>1, <1>2, PTL DEF Spec

\* For any contents and any number of installers, changes, failures and kills:
\* what a user changes once the activation has begun stays as it was left
\* (activate, rollback, recover).
THEOREM EditsAlwaysKept == Spec => []EditsKept
  <1>1. ConfigInv => EditsKept
    BY DEF ConfigInv, History, EditsKept
  <1>. QED
    BY <1>1, ConfigAlways, PTL

\* For any contents and any number of installers, changes, failures and kills:
\* without a journal, or with one that says that all is rolled back, every
\* document says what it is to say (activate, rollback, finalize).
THEOREM AllOrNothingAlways == Spec => []AllOrNothing
  <1>1. ConfigInv => AllOrNothing
    BY DEF ConfigInv, Typed, Settled, Live, AllOrNothing
  <1>. QED
    BY <1>1, ConfigAlways, PTL

-----------------------------------------------------------------------------
(* The runtime and the documents together                                  *)

Rolling == {"rollback", "undoStacks", "undoPolicy", "undoProjects", "undoAccounts", "mark",
            "remove", "restored", "failed"}

\* Before and after the policy is written.
Before == {"staged", "prepare", "accounts", "accountsEnd", "policy"}
After == {"projects", "stacks", "stacksEnd", "saving", "save", "commit", "load", "committed",
          "finalize", "removeFinal", "finalized"}

\* Where the components are, at each stage of the script.
ConfigAt ==
    /\ stage \in {"idle", "home"} => cpc = "idle"
    /\ stage \in {"recover", "undoConfig"} => cpc \in Rolling
    /\ stage \in {"inspect", "activate", "components"} => cpc = "restored"
    /\ stage = "config" => cpc \in {"staged", "failed"}
    /\ stage = "finish" => cpc \in Before \cup After \cup {"failed"}
    /\ stage \in {"commit", "prune"} => cpc \in {"restored", "finalized"}
    /\ stage \in {"undoRuntime", "undoHome"} => cpc \in {"idle", "restored", "staged", "failed"}

RuntimeAt ==
    /\ stage \in {"idle", "home", "recover"} => rpc = "idle"
    /\ stage = "inspect" => rpc \in {"inspect", "inspected", "failed", "refused"}
    /\ stage = "activate" => rpc \in {"install", "switch", "active", "failed", "refused"}
    /\ stage \in {"components", "config", "finish", "undoConfig", "commit"}
          => rpc = "active"
    /\ stage = "prune" => rpc \in {"prune", "pruned", "failed"}
    /\ stage = "undoRuntime"
          => rpc \in {"undo", "remove", "removing", "undone", "failed", "refused"}
    /\ stage = "undoHome" => rpc \in {"idle", "undone", "failed", "refused"}
    /\ rpc = "inspected" => previous = current
    /\ rpc = "undone" => current = previous

Stages == {"idle", "home", "recover", "inspect", "activate", "components", "config", "finish",
           "commit", "prune", "undoConfig", "undoRuntime", "undoHome"}

Together == stage \in Stages /\ ConfigAt /\ RuntimeAt

\* A journal that nobody has to roll back.
Clear ==
    /\ manifest # NoManifest \/ cpc = "prepare" => journal
    /\ cpc \in {"restored", "staged", "removeFinal", "finalized"} \/ stage = "config" => ~Live

\* The policy that is activated, and recorded, is that of the release.
Policies ==
    /\ stage \in {"config", "finish"} /\ cpc \in Before => staged["policy"] = wanted
    /\ stage = "finish" /\ cpc \in After => doc["policy"] = wanted
    /\ stage = "finish" /\ cpc \in {"removeFinal", "finalized"} => entitled["policy"] = wanted
    /\ \A v \in {verified, prior} : v \in Verified => v.documents["policy"] = v.release

\* The policy to go back to is that of the release to go back to.
Returns ==
    sound /\ ~late =>
        /\ stage \notin {"finish", "undoConfig"} => ~Live
        /\ stage \in {"idle", "home", "recover", "inspect", "commit", "prune", "undoHome"} =>
              (current # NoRelease => entitled["policy"] = current)
        /\ \/ stage \in {"activate", "components", "config", "undoConfig",
                         "undoRuntime"}
           \/ stage = "finish" /\ cpc \notin {"removeFinal", "finalized"}
           => (previous # NoRelease => entitled["policy"] = previous)

ShellInv == Together /\ Clear /\ Policies /\ Returns

\* How far a step of a component takes it.
LEMMA ConfigPlaces ==
    ASSUME ConfigStep \/ ConfigFails
    PROVE  /\ cpc \notin {"idle", "staged", "restored", "committed", "finalized", "failed"}
           /\ cpc \in Rolling => cpc' \in Rolling
           /\ cpc \in Before \cup After => cpc' \in Before \cup After \cup {"failed"}
           /\ cpc \in After => cpc' \in After \cup {"failed"}
           /\ cpc # "policy" /\ cpc \in Before => cpc' \in Before \cup {"failed"}
           /\ cpc' # "staged" /\ (cpc' = "restored" => cpc \in {"rollback", "remove"})
  <1>. USE DEF CGoto, Rolling, Before, After
  <1>1. CASE CPrepare \/ CAccounts \/ CStacks \/ CSaving \/ CSave
    BY <1>1 DEF CPrepare, CAccounts, CStacks, Create, CSaving, CSave
  <1>2. CASE CWrite \/ CCommit \/ CLoad \/ CRollback
    BY <1>2 DEF CWrite, CCommit, CLoad, CRollback
  <1>3. CASE CUndo
    BY <1>3 DEF CUndo
  <1>4. CASE CMark \/ CFinalize \/ CRemove
    BY <1>4 DEF CMark, CFinalize, CRemove
  <1>5. CASE ConfigFails
    BY <1>5 DEF ConfigFails, ConfigResults
  <1>. QED
    BY <1>1, <1>2, <1>3, <1>4, <1>5 DEF ConfigStep

LEMMA RuntimePlaces ==
    ASSUME RuntimeInv, RuntimeStep \/ RuntimeFails
    PROVE  /\ rpc \notin {"idle", "inspected", "active", "undone", "pruned", "failed", "refused"}
           /\ rpc = "inspect" => rpc' \in {"inspected", "failed", "refused"}
           /\ rpc \in {"install", "switch"} => rpc' \in {"switch", "active", "failed", "refused"}
           /\ rpc = "prune" => rpc' \in {"prune", "pruned", "failed"}
           /\ rpc \in {"undo", "remove", "removing"}
                => rpc' \in {"remove", "removing", "undone", "failed", "refused"}
           /\ rpc' = "inspected" => previous' = current'
           /\ rpc' = "undone" => current' = previous'
  <1>. USE DEF RGoto, RuntimeInv, RuntimeTypeOK, RuntimeResults
  <1>1. CASE RInspect
    BY <1>1 DEF RInspect
  <1>2. CASE RInstall
    BY <1>2 DEF RInstall
  <1>3. CASE RSwitch
    BY <1>3 DEF RSwitch
  <1>4. CASE RUndo
    BY <1>4 DEF RUndo
  <1>5. CASE RRemove
    BY <1>5 DEF RRemove
  <1>6. CASE RRemoved
    BY <1>6 DEF RRemoved
  <1>7. CASE RPrune
    BY <1>7 DEF RPrune
  <1>8. CASE RuntimeFails
    BY <1>8 DEF RuntimeFails
  <1>. QED
    BY <1>1, <1>2, <1>3, <1>4, <1>5, <1>6, <1>7, <1>8 DEF RuntimeStep

LEMMA TogetherKept ==
    ASSUME RuntimeInv, Together, [Next]_vars
    PROVE  Together'
  <1>. USE DEF Together, Stages, Goto
  <1>1. CASE Start
    BY <1>1 DEF Start, ConfigAt, RuntimeAt, runtimeVars, configVars
  <1>2. CASE Prepared
    BY <1>2 DEF Prepared, CCall, CGoto, Rolling, ConfigAt, RuntimeAt, runtimeVars
  <1>3. CASE Recovered
    BY <1>3 DEF Recovered, RCallInspect, RGoto, ConfigAt, RuntimeAt, configVars
  <1>4. CASE Inspected
    BY <1>4 DEF Inspected, RCallActivate, RGoto, ConfigAt, RuntimeAt, configVars
  <1>5. CASE Activated
    BY <1>5 DEF Activated, ConfigAt, RuntimeAt, configVars, runtimeVars
  <1>6. CASE Reuse
    BY <1>6 DEF Reuse, CommitHome, RCallPrune, RGoto, ConfigAt, RuntimeAt, configVars,
                runtimeVars
  <1>7. CASE StageDocuments
    BY <1>7 DEF StageDocuments, CStage, CGoto, ConfigAt, RuntimeAt, runtimeVars
  <1>8. CASE ActivateDocuments
    BY <1>8 DEF ActivateDocuments, CSnapshot, CGoto, ConfigAt, RuntimeAt, runtimeVars, Before
  <1>9. CASE RecordState
    BY <1>9 DEF RecordState, CCall, CGoto, ConfigAt, RuntimeAt, runtimeVars, After
  <1>10. CASE Finalized
    BY <1>10 DEF Finalized, CommitHome, RCallPrune, RGoto, ConfigAt, RuntimeAt, configVars,
                 runtimeVars
  <1>11. CASE PruneReleases
    BY <1>11 DEF PruneReleases, RCallPrune, RGoto, ConfigAt, RuntimeAt, configVars
  <1>12. CASE End \/ Killed \/ UndoneHome
    BY <1>12 DEF End, Killed, UndoneHome, Leave, ConfigEnds, RuntimeEnds, CGoto, RGoto,
                 ConfigAt, RuntimeAt
  <1>13. CASE DieEarly
    <2>1. CASE hpc = "migrated"
      BY <1>13, <2>1 DEF DieEarly, UndoHome, ConfigAt, RuntimeAt, configVars, runtimeVars
    <2>2. CASE hpc # "migrated"
      BY <1>13, <2>2 DEF DieEarly, UndoHome, Leave, ConfigEnds, RuntimeEnds, CGoto, RGoto,
                         ConfigAt, RuntimeAt
    <2>. QED
      BY <2>1, <2>2
  <1>14. CASE Die
    BY <1>14 DEF Die, RCallUndo, RGoto, ConfigAt, RuntimeAt, configVars
  <1>15. CASE DieActivated \/ RecordFails
    BY <1>15 DEF DieActivated, RecordFails, CCall, CGoto, ConfigAt, RuntimeAt, runtimeVars, Rolling
  <1>16. CASE UndoneConfig
    BY <1>16 DEF UndoneConfig, RCallUndo, RGoto, ConfigAt, RuntimeAt, configVars
  <1>17. CASE UndoneRuntime
    <2>1. CASE hpc = "migrated"
      BY <1>17, <2>1 DEF UndoneRuntime, UndoHome, ConfigAt, RuntimeAt, configVars, runtimeVars
    <2>2. CASE hpc # "migrated"
      BY <1>17, <2>2 DEF UndoneRuntime, UndoHome, Leave, ConfigEnds, RuntimeEnds, CGoto, RGoto,
                         ConfigAt, RuntimeAt
    <2>. QED
      BY <2>1, <2>2
  <1>18. CASE Work \/ CallFails
    <2>0. stage' = stage
      BY <1>18 DEF Work, CallFails, shellVars
    <2>1. CASE UNCHANGED runtimeVars /\ UNCHANGED configVars
      BY <2>0, <2>1 DEF ConfigAt, RuntimeAt, runtimeVars, configVars
    <2>2. CASE UNCHANGED configVars /\ (RuntimeStep \/ RuntimeFails)
      <3>1. RuntimeAt'
        BY <2>0, <2>2, RuntimePlaces DEF RuntimeAt
      <3>. QED
        BY <2>0, <2>2, <3>1 DEF ConfigAt, configVars
    <2>3. CASE UNCHANGED runtimeVars /\ (ConfigStep \/ ConfigFails)
      <3>1. ConfigAt'
        BY <2>0, <2>3, ConfigPlaces DEF ConfigAt, Rolling
      <3>. QED
        BY <2>0, <2>3, <3>1 DEF RuntimeAt, runtimeVars
    <2>. QED
      BY <1>18, <2>1, <2>2, <2>3 DEF Work, CallFails
  <1>19. CASE Users \/ UNCHANGED vars
    BY <1>19 DEF Users, UserEdits, vars, shellVars, runtimeVars, configVars, ConfigAt, RuntimeAt
  <1>. QED
    BY <1>1, <1>2, <1>3, <1>4, <1>5, <1>6, <1>7, <1>8, <1>9, <1>10, <1>11, <1>12, <1>13, <1>14,
       <1>15, <1>16, <1>17, <1>18, <1>19 DEF Next

LEMMA ClearKept ==
    ASSUME ConfigInv, Together, Clear, [Next]_vars
    PROVE  Clear'
  <1>. USE DEF Clear, Live, Goto
  <1>1. CASE \/ Start \/ Recovered \/ Inspected \/ Activated \/ PruneReleases
             \/ Die \/ UndoneConfig
    BY <1>1 DEF Start, Recovered, Inspected, Activated, PruneReleases, Die, UndoneConfig,
                configVars
  <1>2. CASE Reuse \/ Finalized
    BY <1>2 DEF Reuse, Finalized, CommitHome, configVars
  <1>3. CASE Prepared \/ RecordState \/ DieActivated \/ RecordFails
    BY <1>3 DEF Prepared, RecordState, DieActivated, RecordFails, CCall, CGoto, CJournal
  <1>4. CASE StageDocuments
    BY <1>4 DEF StageDocuments, CStage, CGoto, CJournal, Together, ConfigAt
  <1>5. CASE ActivateDocuments
    BY <1>5 DEF ActivateDocuments, CSnapshot, CGoto
  <1>6. CASE End \/ Killed \/ UndoneHome
    BY <1>6 DEF End, Killed, UndoneHome, Leave, ConfigEnds, CGoto
  <1>7. CASE DieEarly \/ UndoneRuntime
    BY <1>7 DEF DieEarly, UndoneRuntime, UndoHome, Leave, ConfigEnds, CGoto, configVars
  <1>8. CASE (Work \/ CallFails) /\ (ConfigStep \/ ConfigFails)
    <2>1. stage' = stage /\ stage # "config"
      BY <1>8, ConfigPlaces DEF Work, CallFails, shellVars, Together, ConfigAt
    <2>2. (manifest # NoManifest \/ cpc = "prepare" => journal)'
      BY <1>8 DEF ConfigStep, ConfigFails, CPrepare, CAccounts, CWrite, CStacks, Create, CSaving,
                  CSave, CCommit, CLoad, CRollback, CUndo, CMark, CFinalize, CRemove, CGoto,
                  CJournal, ConfigInv, Writing, Writes, Undoing, Ending
    <2>3. ASSUME cpc' \in {"restored", "staged", "removeFinal", "finalized"} PROVE ~Live'
      <3>1. CASE CFinalize
        BY <2>3, <3>1 DEF CFinalize, CGoto, ConfigInv, Typed, Manifests
      <3>2. CASE CRollback
        BY <2>3, <3>2 DEF CRollback, CGoto
      <3>3. CASE CRemove
        BY <2>3, <3>3 DEF CRemove, CGoto
      <3>. QED
        BY <1>8, <2>3, <3>1, <3>2, <3>3
        DEF ConfigStep, ConfigFails, CPrepare, CAccounts, CWrite, CStacks, Create, CSaving,
            CSave, CCommit, CLoad, CUndo, CMark, CGoto
    <2>. QED
      BY <2>1, <2>2, <2>3
  <1>9. CASE Users \/ ((Work \/ CallFails) /\ UNCHANGED configVars) \/ UNCHANGED vars
    BY <1>9 DEF Users, UserEdits, CJournal, Work, CallFails, vars, shellVars, configVars
  <1>. QED
    BY <1>1, <1>2, <1>3, <1>4, <1>5, <1>6, <1>7, <1>8, <1>9 DEF Next, Work, CallFails

\* What a step does to the policy.
LEMMA PolicySteps ==
    ASSUME ConfigInv, ConfigStep \/ ConfigFails
    PROVE  /\ staged' = staged
           /\ cpc \in After => doc'["policy"] = doc["policy"]
           /\ cpc = "policy" /\ cpc' \in After => doc'["policy"] = staged["policy"]
           /\ cpc' = "removeFinal" => cpc = "finalize" /\ entitled' = doc
           /\ cpc' # "removeFinal" => entitled' = entitled
           /\ cpc' = "finalized" => cpc = "removeFinal"
  <1>. USE DocumentNames DEF CGoto, After, CHistory, CJournal
  <1>1. doc \in [Documents -> Some]
    BY DEF ConfigInv, Typed
  <1>2. CASE CWrite
    BY <1>1, <1>2 DEF CWrite, Complete
  <1>3. CASE CAccounts \/ CStacks \/ CSave
    BY <1>1, <1>3 DEF CAccounts, CStacks, CSave, Create
  <1>4. CASE CPrepare \/ CSaving \/ CCommit \/ CLoad
    BY <1>4 DEF CPrepare, CSaving, CCommit, CLoad
  <1>5. CASE CRollback \/ CMark \/ CFinalize \/ CRemove
    BY <1>5 DEF CRollback, CMark, CFinalize, CRemove
  <1>6. CASE CUndo
    BY <1>6 DEF CUndo
  <1>7. CASE ConfigFails
    BY <1>7 DEF ConfigFails
  <1>. QED
    BY <1>2, <1>3, <1>4, <1>5, <1>6, <1>7 DEF ConfigStep

LEMMA PoliciesKept ==
    ASSUME RuntimeInv, ConfigInv, Together, Policies, [Next]_vars
    PROVE  Policies'
  <1>. USE DEF Policies, Goto
  <1>1. CASE Start \/ Recovered \/ Inspected \/ Activated \/ PruneReleases \/ Die
    BY <1>1 DEF Start, Recovered, Inspected, Activated, PruneReleases, Die, ShellHolds
  <1>2. CASE Reuse \/ Finalized
    BY <1>2 DEF Reuse, Finalized, CommitHome, ShellHolds
  <1>3. CASE Prepared
    BY <1>3 DEF Prepared, SnapshotState
  <1>4. CASE StageDocuments
    <2>1. cpc' \in Before => staged'["policy"] = wanted
      BY <1>4, DocumentNames DEF StageDocuments, CStage, Candidate
    <2>. QED
      BY <1>4, <2>1 DEF StageDocuments, ShellHolds, runtimeVars
  <1>5. CASE ActivateDocuments
    BY <1>5 DEF ActivateDocuments, CSnapshot, CGoto, ShellHolds, runtimeVars, Before, After
  <1>6. CASE RecordState
    <2>1. wanted' = wanted /\ doc' = doc /\ doc["policy"] = wanted
      BY <1>6 DEF RecordState, CCall, runtimeVars, After
    <2>2. verified' = Fingerprints(wanted, doc) /\ prior' = prior
          /\ verified'.documents["policy"] = verified'.release
      BY <1>6, <2>1 DEF RecordState, Record, Fingerprints
    <2>. QED
      BY <1>6, <2>1, <2>2 DEF RecordState, CCall, CGoto, Before
  <1>7. CASE End \/ Killed \/ UndoneHome
    BY <1>7, NotVerified DEF End, Killed, HalfRestored, UndoneHome, Leave
  <1>8. CASE DieEarly \/ UndoneRuntime
    BY <1>8, NotVerified DEF DieEarly, UndoneRuntime, UndoHome, HCallUndo, Leave
  <1>9. CASE DieActivated
    BY <1>9 DEF DieActivated, ShellHolds
  <1>10. CASE UndoneConfig
    BY <1>10, NotVerified DEF UndoneConfig, RecordAfter, HalfRestored, RCallUndo, runtimeVars
  <1>11. CASE (Work \/ CallFails) /\ (ConfigStep \/ ConfigFails) /\ UNCHANGED runtimeVars
    <2>1. stage' = stage /\ verified' = verified /\ prior' = prior
      BY <1>11 DEF Work, CallFails, shellVars
    <2>2. wanted' = wanted
      BY <1>11 DEF runtimeVars
    <2>3. (stage \in {"config", "finish"} /\ cpc \in Before => staged["policy"] = wanted)'
      BY <1>11, <2>1, <2>2, PolicySteps, ConfigPlaces DEF Together, ConfigAt, Before, After
    <2>4. (stage = "finish" /\ cpc \in After => doc["policy"] = wanted)'
      BY <1>11, <2>1, <2>2, PolicySteps, ConfigPlaces DEF Together, ConfigAt, Before, After
    <2>5. (stage = "finish" /\ cpc \in {"removeFinal", "finalized"} => entitled["policy"] = wanted)'
      BY <1>11, <2>1, <2>2, PolicySteps, ConfigPlaces DEF Together, ConfigAt, Before, After
    <2>. QED
      BY <2>1, <2>3, <2>4, <2>5
  <1>12. CASE (Work \/ CallFails) /\ UNCHANGED configVars
    <2>1. stage' = stage /\ verified' = verified /\ prior' = prior
      BY <1>12 DEF Work, CallFails, shellVars
    <2>2. wanted' = wanted
      BY <1>12 DEF Work, CallFails, ConfigStep, RuntimeStep, RInspect, RInstall, RSwitch, RUndo,
                   RRemove, RRemoved, RPrune, RuntimeFails, runtimeVars
    <2>. QED
      BY <1>12, <2>1, <2>2 DEF configVars
  <1>13. CASE Users
    <2>1. doc'["policy"] = doc["policy"] /\ entitled'["policy"] = entitled["policy"]
      BY <1>13, DocumentNames DEF Users, UserEdits, configVars, ConfigInv, Typed
    <2>. QED
      BY <1>13, <2>1 DEF Users, UserEdits, configVars, runtimeVars, shellVars
  <1>14. CASE UNCHANGED vars
    BY <1>14 DEF vars, configVars, runtimeVars, shellVars
  <1>15. CASE RecordFails
    <2>1. wanted' = wanted /\ doc["policy"] = wanted /\ prior' = prior /\ stage' = "undoConfig"
      BY <1>15 DEF RecordFails, runtimeVars, After
    <2>2. verified' # verified => verified'.documents["policy"] = verified'.release
      BY <1>15, <2>1 DEF RecordFails, Record, Fingerprints
    <2>. QED
      BY <2>1, <2>2
  <1>. QED
    BY <1>1, <1>2, <1>3, <1>4, <1>5, <1>6, <1>7, <1>8, <1>9, <1>10, <1>11, <1>12, <1>13, <1>14,
       <1>15 DEF Next, Work, CallFails

\* No rollback makes an activation live that has been rolled back.
LEMMA StaysSettled ==
    ASSUME ConfigInv, ~Live, cpc \in Rolling, ConfigStep \/ ConfigFails
    PROVE  ~Live'
  <1>. USE DEF CGoto, Rolling, CHistory, CJournal, Live
  <1>1. CASE CRollback \/ CUndo \/ ConfigFails
    BY <1>1 DEF CRollback, CUndo, ConfigFails
  <1>2. CASE CMark
    BY <1>2 DEF CMark, ConfigInv, Undoing
  <1>3. CASE CRemove
    BY <1>3 DEF CRemove
  <1>. QED
    BY <1>1, <1>2, <1>3 DEF ConfigStep, CPrepare, CAccounts, CWrite, CStacks, CSaving, CSave,
                            CCommit, CLoad, CFinalize

LEMMA ReturnsKept ==
    ASSUME RuntimeInv, ConfigInv, ShellInv, [Next]_vars
    PROVE  Returns'
  <1>. USE DEF Returns, ShellInv, Goto
  <1>1. CASE Start \/ Prepared \/ Recovered \/ Activated \/ PruneReleases
    BY <1>1 DEF Start, Prepared, Recovered, Activated, PruneReleases, ShellHolds, CCall, CJournal,
                CHistory, RCallInspect, RCallPrune, configVars, runtimeVars, Live
  <1>2. CASE Inspected
    BY <1>2 DEF Inspected, RCallActivate, ShellHolds, configVars, Live, Together, RuntimeAt
  <1>3. CASE Reuse
    <2>1. /\ sound' = sound /\ late' = late /\ entitled' = entitled /\ Live' = Live
          /\ stage' \in {"commit", "prune"} /\ current' = current
      BY <1>3 DEF Reuse, CommitHome, ShellHolds, RCallPrune, configVars, runtimeVars, Live
    <2>2. rpc = "active"
      BY <1>3 DEF Reuse, Together, RuntimeAt
    <2>3. doc["policy"] = wanted /\ current = wanted
      <3>1. Fingerprints(wanted, doc) \in Verified
        BY <2>2 DEF Fingerprints, Verified, RuntimeInv, ConfigInv, Typed, Some
      <3>2. verified = Fingerprints(wanted, doc) /\ verified \in Verified
        BY <1>3, <3>1, NotVerified DEF Reuse, Unchanged, Loaded
      <3>. QED
        BY <2>2, <3>2 DEF Fingerprints, Policies, RuntimeInv
    <2>4. ~Live => entitled["policy"] = doc["policy"]
      BY DocumentNames DEF ConfigInv, Settled
    <2>. QED
      BY <1>3, <2>1, <2>3, <2>4 DEF Reuse
  <1>4. CASE StageDocuments
    BY <1>4 DEF StageDocuments, CStage, CJournal, ShellHolds, runtimeVars, Live
  <1>5. CASE ActivateDocuments
    <2>1. ~Live => entitled["policy"] = doc["policy"]
      BY DocumentNames DEF ConfigInv, Settled
    <2>2. stage = "config" /\ stage' = "finish" /\ ~Live /\ previous' = previous
          /\ sound' = sound /\ late' = late
      BY <1>5 DEF ActivateDocuments, ShellHolds, runtimeVars, Clear
    <2>3. entitled' = doc \/ entitled' = entitled
      BY <1>5 DEF ActivateDocuments, CSnapshot
    <2>. QED
      BY <2>1, <2>2, <2>3
  <1>6. CASE RecordState
    BY <1>6 DEF RecordState, CCall, CHistory, runtimeVars
  <1>7. CASE Finalized
    <2>1. stage' \in {"commit", "prune"} /\ current' = current /\ UNCHANGED configVars
      BY <1>7 DEF Finalized, CommitHome, RCallPrune, runtimeVars
    <2>2. ~Live /\ entitled["policy"] = wanted /\ current = wanted
      BY <1>7 DEF Finalized, Clear, Policies, Together, RuntimeAt, RuntimeInv
    <2>. QED
      BY <2>1, <2>2 DEF configVars, Live
  <1>8. CASE End \/ UndoneHome
    BY <1>8 DEF End, UndoneHome, Leave, ConfigEnds, RuntimeEnds, CHistory, Live
  <1>9. CASE Killed
    BY <1>9 DEF Killed
  <1>10. CASE DieEarly
    <2>1. stage \in {"home", "recover", "inspect"} /\ sound' = sound /\ late' = late
          /\ stage' \in {"undoHome", "idle"}
      BY <1>10 DEF DieEarly, UndoHome, Leave
    <2>2. current' = current /\ entitled' = entitled /\ Live' = Live
      BY <1>10 DEF DieEarly, UndoHome, Leave, ConfigEnds, RuntimeEnds, CHistory, Live,
                   configVars, runtimeVars
    <2>. QED
      BY <2>1, <2>2
  <1>11. CASE Die \/ DieActivated \/ RecordFails
    BY <1>11 DEF Die, DieActivated, RecordFails, ShellHolds, RCallUndo, CCall, CHistory, configVars,
                 runtimeVars, Live, After
  <1>12. CASE UndoneConfig
    <2>1. /\ stage = "undoConfig" /\ stage' = "undoRuntime"
          /\ previous' = previous /\ UNCHANGED configVars /\ late' = late
          /\ sound' => sound /\ cpc = "restored"
      BY <1>12 DEF UndoneConfig, RCallUndo
    <2>. QED
      BY <2>1 DEF configVars, Clear, Live
  <1>13. CASE UndoneRuntime
    <2>1. /\ stage = "undoRuntime" /\ stage' \in {"undoHome", "idle"} /\ late' = late
          /\ sound' => sound /\ current = previous
      BY <1>13 DEF UndoneRuntime, UndoHome, Leave, Together, RuntimeAt
    <2>2. current' = current /\ entitled' = entitled /\ Live' = Live
      BY <1>13 DEF UndoneRuntime, UndoHome, Leave, ConfigEnds, RuntimeEnds, CHistory, Live,
                   configVars, runtimeVars
    <2>. QED
      BY <2>1, <2>2
  <1>14. CASE \/ Work /\ ConfigStep /\ UNCHANGED runtimeVars
              \/ CallFails /\ ConfigFails /\ UNCHANGED runtimeVars
    <2>1. stage' = stage /\ sound' = sound /\ current' = current /\ previous' = previous
      BY <1>14 DEF Work, CallFails, shellVars, runtimeVars
    <2>2. ~late' => ~late /\ ~(cpc = "removeFinal" /\ cpc' = "failed")
      <3>1. CASE Work /\ ConfigStep
        <4>1. ~(cpc = "removeFinal" /\ cpc' = "failed")
          BY <3>1 DEF ConfigStep, CPrepare, CAccounts, CWrite, CStacks, Create, CSaving, CSave,
                      CCommit, CLoad, CRollback, CUndo, CMark, CFinalize, CRemove, CGoto
        <4>. QED
          BY <3>1, <4>1 DEF Work, shellVars
      <3>2. CASE CallFails
        BY <3>2, Zenon DEF CallFails
      <3>. QED
        BY <1>14, <3>1, <3>2
    <2>3. CASE stage = "finish"
      <3>1. cpc' \notin {"removeFinal", "finalized"} /\ ~late' =>
                entitled' = entitled /\ cpc \notin {"removeFinal", "finalized"}
        BY <1>14, <2>2, <2>3, PolicySteps, ConfigPlaces
        DEF ConfigStep, ConfigFails, CPrepare, CAccounts, CWrite, CStacks, Create, CSaving,
            CSave, CCommit, CLoad, CRollback, CUndo, CMark, CFinalize, CRemove, CGoto
      <3>. QED
        BY <2>1, <2>2, <2>3, <3>1
    <2>4. CASE stage # "finish"
      <3>1. stage \in {"recover", "undoConfig"} /\ cpc \in Rolling
        BY <1>14, <2>4, ConfigPlaces DEF Together, Stages, ConfigAt
      <3>2. entitled' = entitled
        BY <1>14, <3>1, PolicySteps, ConfigPlaces DEF Rolling
      <3>3. ~Live => ~Live'
        BY <1>14, <3>1, StaysSettled
      <3>. QED
        BY <2>1, <2>2, <3>1, <3>2, <3>3
    <2>. QED
      BY <2>3, <2>4
  <1>15. CASE (Work \/ CallFails) /\ UNCHANGED configVars
    <2>0. late => late'
      <3>1. CASE Work
        BY <3>1 DEF Work, shellVars
      <3>2. CASE CallFails
        BY <3>2, Zenon DEF CallFails
      <3>. QED
        BY <1>15, <3>1, <3>2
    <2>1. /\ stage' = stage /\ sound' = sound
          /\ entitled' = entitled /\ Live' = Live /\ cpc' = cpc
      BY <1>15 DEF Work, CallFails, shellVars, configVars, Live
    <2>2. CASE current' = current /\ previous' = previous
      BY <2>0, <2>1, <2>2
    <2>3. CASE RInspect
      BY <2>0, <2>1, <2>3 DEF RInspect, Together, Stages, RuntimeAt
    <2>4. CASE RSwitch
      BY <2>0, <2>1, <2>4 DEF RSwitch, Together, Stages, RuntimeAt
    <2>5. CASE RUndo
      BY <2>0, <2>1, <2>5 DEF RUndo, Together, Stages, RuntimeAt
    <2>. QED
      BY <1>15, <2>2, <2>3, <2>4, <2>5
      DEF Work, CallFails, ConfigStep, RuntimeStep, RInstall, RRemove, RRemoved, RPrune,
          RuntimeFails, runtimeVars
  <1>16. CASE Users
    <2>1. entitled'["policy"] = entitled["policy"] /\ Live' = Live /\ cpc' = cpc
      BY <1>16, DocumentNames DEF Users, UserEdits, configVars, ConfigInv, Typed, CJournal, Live
    <2>. QED
      BY <1>16, <2>1 DEF Users, runtimeVars, shellVars
  <1>17. CASE UNCHANGED vars
    BY <1>17 DEF vars, configVars, runtimeVars, shellVars, Live
  <1>. QED
    BY <1>1, <1>2, <1>3, <1>4, <1>5, <1>6, <1>7, <1>8, <1>9, <1>10, <1>11, <1>12, <1>13, <1>14,
       <1>15, <1>16, <1>17 DEF Next, Work, CallFails

LEMMA ShellStarts == Init => ShellInv
  <1> SUFFICES ASSUME Init PROVE ShellInv
    OBVIOUS
  <1>1. PICK old \in Contents \ (Releases \cup {Edit}) :
            ConfigInit([d \in Documents |->
                IF at["config"] = "none" THEN Absent
                ELSE IF d = "policy" THEN (IF current = NoRelease THEN Absent ELSE current)
                ELSE old])
    BY DEF Init
  <1>2. /\ stage = "idle" /\ cpc = "idle" /\ rpc = "idle" /\ manifest = NoManifest
        /\ entitled = doc /\ prior = NoState
        /\ current # NoRelease => doc["policy"] = current
        /\ verified \in IF current = NoRelease THEN {NoState}
                        ELSE {Damaged, [release |-> current, documents |-> doc]}
    BY <1>1, DocumentNames DEF Init, Fingerprints, ConfigInit, RuntimeInit
  <1>3. Together
    BY <1>2 DEF Together, Stages, ConfigAt, RuntimeAt
  <1>4. Clear /\ Policies /\ Returns
    BY <1>2, NotVerified DEF Clear, Policies, Returns, Live
  <1>. QED
    BY <1>3, <1>4 DEF ShellInv

-----------------------------------------------------------------------------
(* Conflicts                                                               *)

\* Why a document cannot go back.
Changed(d) == edited[d] = "late" \/ doc[d] = Torn

Undoes == {"undoStacks", "undoPolicy", "undoProjects", "undoAccounts", "mark"}

Blamed ==
    /\ Live => \A d \in Documents :
                  /\ entitled[d] # manifest.prior[d] => edited[d] = "late"
                  /\ Torn \notin manifest.mine[d]
    /\ cpc \in Writes => manifest.phase # "rollbackConflict"
    /\ cpc \in Undoes => \A d \in conflicts : Changed(d)
    /\ ConflictJustified

\* Steps that touch neither the documents nor the manifest.
LEMMA BlamedCalls ==
    ASSUME ConfigInv, Blamed,
           \/ CSnapshot \/ CCall("rollback") \/ (cpc = "committed" /\ CCall("finalize"))
           \/ CLoad \/ CRollback \/ ConfigFails \/ ConfigEnds \/ UNCHANGED configVars
    PROVE  Blamed'
  <1>. USE DEF Blamed, CGoto, CHistory, CJournal
  <1>1. /\ UNCHANGED <<doc, edited, manifest>> /\ (Live => entitled' = entitled)
        /\ cpc' = cpc \/ cpc' \notin Writes
        /\ cpc' \in Undoes => conflicts' = {} \/ (cpc' = cpc /\ conflicts' = conflicts)
    <2>. USE DEF Writes, Undoes
    <2>1. CASE CSnapshot
      BY <2>1 DEF CSnapshot, Live
    <2>2. CASE CCall("rollback") \/ CCall("finalize") \/ CLoad \/ CRollback
      BY <2>2 DEF CCall, CLoad, CRollback
    <2>3. CASE ConfigFails \/ ConfigEnds \/ UNCHANGED configVars
      BY <2>3 DEF ConfigFails, ConfigEnds, configVars
    <2>. QED
      BY <2>1, <2>2, <2>3
  <1>2. ConflictJustified' /\ Live' = Live
    BY <1>1 DEF ConflictJustified, Live
  <1>3. (Live => \A d \in Documents : /\ entitled[d] # manifest.prior[d] => edited[d] = "late"
                                      /\ Torn \notin manifest.mine[d])'
    BY <1>1, <1>2
  <1>4. (cpc \in Undoes => \A d \in conflicts : Changed(d))'
    BY <1>1 DEF Changed
  <1>. QED
    BY <1>1, <1>2, <1>3, <1>4

\* The activation tears only documents that no manifest with a conflict is of.
LEMMA BlamedWrites ==
    ASSUME ConfigInv, Blamed,
           CAccounts \/ CWrite \/ CStacks \/ CSaving \/ CSave \/ CCommit
    PROVE  Blamed'
  <1>. USE DEF Blamed, CGoto, CHistory, CJournal
  <1>1. cpc \in Writes /\ Live /\ manifest \in Manifests /\ UNCHANGED <<entitled, edited>>
    BY DEF CAccounts, CWrite, CStacks, CSaving, CSave, CCommit, Create, ConfigInv, Writing, Writes,
           Live, Typed
  <1>2. /\ manifest' \in Manifests /\ manifest'.prior = manifest.prior
        /\ manifest'.phase # "rollbackConflict"
        /\ \A d \in Documents : Torn \notin manifest'.mine[d]
    <2>1. CASE CSaving
      <3>1. Normal(doc["stacks"]) \in Contents
        BY <2>1, ContentsAssumption DEF CSaving, ConfigInv, WritingStacks
      <3>. QED
        BY <1>1, <2>1, <3>1, SavingNames, ContentsAssumption, DocumentNames DEF Manifests
    <2>2. CASE CCommit
      BY <1>1, <2>2 DEF CCommit, Manifests
    <2>3. CASE CAccounts \/ CWrite \/ CStacks \/ CSave
      BY <1>1, <2>3 DEF CAccounts, CWrite, CStacks, CSave
    <2>. QED
      BY <2>1, <2>2, <2>3
  <1>3. ConflictJustified'
    BY <1>2 DEF ConflictJustified
  <1>4. cpc' \notin Undoes
    BY DEF Undoes, CAccounts, CWrite, CStacks, CSaving, CSave, CCommit, Create
  <1>. QED
    BY <1>1, <1>2, <1>3, <1>4

LEMMA BlamedUndoes ==
    ASSUME ConfigInv, Blamed, CUndo
    PROVE  Blamed'
  <1>. USE DEF Blamed, CGoto, CHistory
  <1>1. Live /\ manifest \in Manifests /\ UNCHANGED <<entitled, edited, manifest>>
    BY DEF CUndo, ConfigInv, Undoing, Typed, Live
  <1>2. PICK d \in Documents :
          /\ Undo(d)
          /\ \/ d = "stacks" /\ cpc = "undoStacks" /\ cpc' = "undoPolicy"
             \/ d = "policy" /\ cpc = "undoPolicy" /\ cpc' = "undoProjects"
             \/ d = "projects" /\ cpc = "undoProjects" /\ cpc' = "undoAccounts"
             \/ d = "accounts" /\ cpc = "undoAccounts" /\ cpc' = "mark"
    BY DocumentNames DEF CUndo
  <1>3. Owed(d) /\ Torn \notin manifest.mine[d]
        /\ (entitled[d] # manifest.prior[d] => edited[d] = "late")
        /\ doc \in [Documents -> Some] /\ conflicts \subseteq Documents
    BY <1>1 DEF ConfigInv, Typed
  <1>4. ASSUME NEW e \in Documents, Changed(e) PROVE Changed(e)'
    BY <1>1, <1>2, <1>3, <1>4 DEF Undo, Changed
  <1>5. cpc \in Undoes /\ cpc' \notin Writes
    BY <1>2 DEF Undoes, Writes
  <1>6. \A e \in conflicts' : Changed(e)'
    <2>1. ASSUME d \in conflicts' \ conflicts PROVE Changed(d)
      BY <1>2, <1>3, <2>1 DEF Undo, Owed, Changed
    <2>2. conflicts' \subseteq conflicts \cup {d}
      BY <1>2 DEF Undo
    <2>. QED
      BY <1>2, <1>3, <1>4, <1>5, <2>1, <2>2
  <1>7. ConflictJustified'
    <2>1. ASSUME NEW e \in Documents, doc[e] = Torn PROVE doc'[e] = Torn
      BY <1>2, <1>3, <2>1 DEF Undo
    <2>. QED
      BY <1>1, <2>1 DEF ConflictJustified
  <1>. QED
    BY <1>1, <1>5, <1>6, <1>7 DEF Live

\* A new manifest is without a conflict, and so is one that is finalized.
LEMMA BlamedManifests ==
    ASSUME ConfigInv, Blamed, CPrepare \/ CFinalize \/ CRemove
    PROVE  Blamed'
  <1>. USE DEF Blamed, CGoto, CHistory
  <1>1. cpc' \notin Undoes
    BY DEF Undoes, CPrepare, CFinalize, CRemove
  <1>2. CASE CPrepare
    <2>1. manifest' = [phase |-> "prepared", prior |-> entitled, mine |-> Mine]
          /\ entitled' = entitled
      BY <1>2 DEF CPrepare
    <2>2. \A d \in Documents : Torn \notin Mine[d]
      <3>1. staged \in [Documents -> Contents]
        BY <1>2 DEF CPrepare, ConfigInv, Staged
      <3>2. Torn \notin Contents
        BY ContentsAssumption
      <3>3. ASSUME NEW d \in Documents PROVE Torn # staged[d]
        BY <3>1, <3>2
      <3>. QED
        BY <3>3, MineIs
    <2>. QED
      BY <1>1, <2>1, <2>2 DEF ConflictJustified
  <1>3. CASE CFinalize /\ cpc' = "removeFinal"
    <2>1. manifest'.phase = "finalized"
      BY <1>3 DEF CFinalize, ConfigInv, Typed, Manifests
    <2>. QED
      BY <1>1, <1>3, <2>1 DEF Live, ConflictJustified, Writes
  <1>4. CASE CFinalize /\ cpc' # "removeFinal"
    <2>1. cpc' = "failed" /\ UNCHANGED <<doc, manifest, entitled, edited>>
      BY <1>4 DEF CFinalize
    <2>. QED
      BY <1>1, <2>1 DEF Live, ConflictJustified, Writes
  <1>5. CASE CRemove
    <2>1. manifest' = NoManifest /\ cpc' \notin Writes
      BY <1>5 DEF CRemove, Writes
    <2>. QED
      BY <1>1, <2>1 DEF Live, ConflictJustified
  <1>. QED
    BY <1>2, <1>3, <1>4, <1>5

LEMMA BlamedMarks ==
    ASSUME ConfigInv, Blamed, CMark
    PROVE  Blamed'
  <1>. USE DEF Blamed, CGoto, CHistory
  <1>1. /\ Live /\ manifest \in Manifests /\ conflicts \subseteq Documents
        /\ UNCHANGED <<doc, entitled, edited, conflicts>>
        /\ cpc' \in {"remove", "failed"}
    BY DEF CMark, ConfigInv, Undoing, Typed, Live
  <1>2. /\ manifest'.prior = manifest.prior /\ manifest'.mine = manifest.mine
        /\ manifest'.phase = IF conflicts = {} THEN "rolledBack" ELSE "rollbackConflict"
    BY <1>1 DEF CMark, Manifests
  <1>3. \A d \in conflicts : Changed(d)
    BY DEF CMark, Undoes
  <1>4. ConflictJustified'
    BY <1>1, <1>2, <1>3 DEF ConflictJustified, Changed
  <1>. QED
    BY <1>1, <1>2, <1>4 DEF Writes, Undoes

\* Users change no document that is torn, and nothing that they have changed
\* since the activation began is taken for an early change.
LEMMA BlamedEdits ==
    ASSUME ConfigInv, Clear, Blamed, UserEdits
    PROVE  Blamed'
  <1>. USE DEF Blamed
  <1>1. PICK d \in Documents :
          /\ doc[d] # Torn
          /\ doc' = [doc EXCEPT ![d] = Edit]
          /\ entitled' = [entitled EXCEPT ![d] = Edit]
          /\ edited' = [edited EXCEPT ![d] = IF cpc = "staged" THEN "early" ELSE "late"]
    BY DocumentNames DEF UserEdits
  <1>2. UNCHANGED <<manifest, conflicts, cpc>>
    BY DEF UserEdits, CJournal
  <1>3. /\ doc \in [Documents -> Some] /\ entitled \in [Documents -> Some]
        /\ edited \in [Documents -> {"no", "early", "late"}]
    BY DEF ConfigInv, Typed
  <1>4. Live' = Live
    BY <1>2 DEF Live
  <1>5. CASE cpc = "staged"
    <2>1. ~Live
      BY <1>5 DEF Clear
    <2>. QED
      BY <1>2, <1>4, <1>5, <2>1 DEF Live, ConflictJustified, Writes, Undoes
  <1>6. CASE cpc # "staged"
    <2>1. \A e \in Documents : /\ edited[e] = "late" => edited'[e] = "late"
                               /\ doc[e] = Torn => doc'[e] = Torn
                               /\ e # d => entitled'[e] = entitled[e]
      BY <1>1, <1>3, <1>6
    <2>2. edited'[d] = "late"
      BY <1>1, <1>3, <1>6
    <2>3. conflicts \subseteq Documents
      BY DEF ConfigInv, Typed
    <2>. QED
      BY <1>2, <1>4, <2>1, <2>2, <2>3 DEF ConflictJustified, Changed
  <1>. QED
    BY <1>5, <1>6

LEMMA BlamedKept ==
    ASSUME ConfigInv, ShellInv, Blamed, [Next]_vars
    PROVE  Blamed'
  <1>1. CASE StageDocuments
    <2>1. ~Live /\ manifest' = manifest /\ cpc' \notin Writes /\ cpc' \notin Undoes
      BY <1>1 DEF StageDocuments, CStage, CGoto, CJournal, ShellInv, Together, ConfigAt, Clear,
                  Writes, Undoes
    <2>. QED
      BY <2>1 DEF Blamed, ConflictJustified, Live
  <1>. QED
    BY <1>1, OtherFrame, BlamedCalls, BlamedWrites, BlamedUndoes, BlamedManifests, BlamedMarks,
       BlamedEdits DEF ConfigOther, ConfigStep, ShellInv

-----------------------------------------------------------------------------
(* The composition                                                         *)

Inv == RuntimeInv /\ Selects /\ ConfigInv /\ ShellInv /\ Blamed

LEMMA AllKept == Spec => []Inv
  <1>1. Init => Inv
    <2> SUFFICES ASSUME Init PROVE Blamed
      BY RuntimeStarts, ConfigStarts, ShellStarts DEF Init, Selects, Inv
    <2>. QED
      BY DEF Init, ConfigInit, Blamed, Live, ConflictJustified, Writes, Undoes
  <1>2. Inv /\ [Next]_vars => Inv'
    <2> SUFFICES ASSUME Inv, [Next]_vars PROVE Inv'
      OBVIOUS
    <2>1. RuntimeInv' /\ Selects' /\ ConfigInv' /\ Blamed'
      BY RuntimeFrame, RuntimeKept, SelectsKept, ConfigFrame, ConfigKept, BlamedKept DEF Inv
    <2>2. Together' /\ Clear' /\ Policies' /\ Returns'
      BY TogetherKept, ClearKept, PoliciesKept, ReturnsKept DEF Inv, ShellInv
    <2>. QED
      BY <2>1, <2>2 DEF Inv, ShellInv
  <1>. QED
    BY <1>1, <1>2, PTL DEF Spec

\* For any releases and any number of installers, edits, failures and kills: a
\* transaction that rolls back, or goes through, leaves documents that are of
\* the release that is selected (install.sh).
THEOREM VersionsAlwaysAgree == Spec => []VersionsAgree
  <1>1. Inv => VersionsAgree
    BY DocumentNames DEF Inv, ShellInv, Returns, ConfigInv, Settled, VersionsAgree
  <1>. QED
    BY <1>1, AllKept, PTL

\* For any contents and any number of installers, edits, failures and kills: a
\* rollback leaves a conflict to the user only when the user has changed a
\* document since the activation began, or a document is half written
\* (_rollback_bound).
THEOREM ConflictsAreJustified == Spec => []ConflictJustified
  <1>1. Inv => ConflictJustified
    BY DEF Inv, Blamed
  <1>. QED
    BY <1>1, AllKept, PTL

=============================================================================
