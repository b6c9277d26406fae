---------------------------- MODULE Installation ---------------------------
(***************************************************************************)
(* The transaction of install.sh over the home, the runtime, the           *)
(* configuration documents and the record of the verified installation     *)
(* (integrations/common/install_state.py).                                 *)
(*                                                                         *)
(* The shell calls the three components one after the other; what fails    *)
(* ends in workflow_die, whose handler rolls back what is active then, in  *)
(* the opposite order.  A kill runs no handler.  Users, their commands and *)
(* programs of the old version go on meanwhile.                            *)
(***************************************************************************)
EXTENDS HomeLayout, RuntimeBundle, ControlPlaneActivation

CONSTANTS
    NoState,    \* there is no record
    Damaged,    \* a record that load_manifest does not accept
    MaxInstalls, MaxFailures, MaxKills, MaxEdits

ASSUME ReleasesHavePolicies == Releases \subseteq Contents

VARIABLES
    stage,      \* where install.sh is
    verified,   \* install-state.json: the release and the documents it was for
    prior,      \* its snapshot
    recording,  \* install_state_transaction_active: it is about to be replaced
    recovering, \* an activation of an earlier installer was found
    sound,      \* history: every installer since the last complete
                \* installation has ended, and has rolled all back
    late,       \* history: one has failed after it had finalized the documents
    installs, failures, kills, edits

shellVars == <<stage, verified, prior, recording, recovering, sound, late>>
bounds == <<installs, failures, kills, edits>>
vars == <<homeVars, runtimeVars, configVars, shellVars, bounds>>

Verified == [release : Releases, documents : [Documents -> Contents \cup {Absent, Torn}]]
Records == {NoState, Damaged} \cup Verified

ASSUME NotVerified == NoState \notin Verified /\ Damaged \notin Verified

\* fingerprint_paths, over the files of a release and the documents: the same
\* only for the same files.
Fingerprints(files, documents) == [release |-> files, documents |-> documents]

\* load_manifest
Loaded(record) == IF record \in Verified THEN record ELSE NoState

\* snapshot_unvalidated_state, of any record.
SnapshotState == prior' = verified

TypeOK ==
    /\ HomeTypeOK /\ RuntimeTypeOK /\ ConfigTypeOK
    /\ stage \in {"idle", "home", "recover", "inspect", "activate", "components", "config",
                  "finish", "commit", "prune", "undoConfig", "undoRuntime", "undoHome"}
    /\ verified \in Records /\ prior \in Records
    /\ recording \in BOOLEAN /\ recovering \in BOOLEAN /\ sound \in BOOLEAN /\ late \in BOOLEAN

\* Nothing is installed; or an old version, in the old directories; or one of
\* the releases, with a record of this schema or another.
Init ==
    /\ HomeInit /\ RuntimeInit
    /\ current # NoRelease => homeDir /\ at["config"] # "none"
    /\ homeDir => current # NoRelease
    /\ \E old \in Contents \ (Releases \cup {Edit}) :
        ConfigInit([d \in Documents |->
            IF at["config"] = "none" THEN Absent
            ELSE IF d = "policy" THEN (IF current = NoRelease THEN Absent ELSE current)
            ELSE old])
    /\ verified \in IF current = NoRelease THEN {NoState}
                    ELSE {Damaged, Fingerprints(current, doc)}
    /\ prior = NoState /\ stage = "idle" /\ recording = FALSE /\ recovering = FALSE
    /\ sound = TRUE /\ late = FALSE
    /\ installs = 0 /\ failures = 0 /\ kills = 0 /\ edits = 0

-----------------------------------------------------------------------------
Goto(location) == stage' = location
ShellHolds == UNCHANGED <<verified, prior, recording, recovering, sound, late>>

\* The shell is gone, and with it its locks and what it held in memory.
Leave ==
    /\ Goto("idle") /\ prior' = NoState /\ recording' = FALSE /\ recovering' = FALSE
    /\ HomeEnds /\ RuntimeEnds /\ ConfigEnds

-----------------------------------------------------------------------------
(* The way forward.                                                        *)

Start ==
    /\ stage = "idle" /\ installs < MaxInstalls
    /\ installs' = installs + 1
    /\ HCallPrepare /\ Goto("home")
    /\ ShellHolds
    /\ UNCHANGED <<runtimeVars, configVars, failures, kills, edits>>

\* The data directory is made in the home, and what is left of the activation
\* of an earlier installer is looked for.
Prepared ==
    /\ stage = "home" /\ hpc \in {"migrated", "nothing"}
    /\ hosted' = TRUE
    /\ SnapshotState /\ recovering' = journal
    /\ CCall("rollback") /\ Goto("recover")
    /\ UNCHANGED <<at, linked, stray, homeDir, hjournal, hpc, hafter, hleft, runtimeVars,
                   verified, recording, sound, late, bounds>>

Recovered ==
    /\ stage = "recover" /\ cpc = "restored"
    /\ \E v \in Releases : RCallInspect(v)
    /\ Goto("inspect") /\ ShellHolds
    /\ UNCHANGED <<homeVars, configVars, bounds>>

Inspected ==
    /\ stage = "inspect" /\ RCallActivate
    /\ Goto("activate") /\ ShellHolds
    /\ UNCHANGED <<homeVars, configVars, bounds>>

Activated ==
    /\ stage = "activate" /\ rpc = "active"
    /\ Goto("components") /\ ShellHolds
    /\ UNCHANGED <<homeVars, runtimeVars, configVars, bounds>>

\* attempt_verified_fast_install: all is as the last installer has left it.
Unchanged ==
    /\ ~recovering
    /\ Loaded(verified) = Fingerprints(wanted, doc)

\* After the last rollback handler is gone, the migration is committed.
CommitHome ==
    \/ hpc = "migrated" /\ HCallCommit /\ Goto("commit") /\ UNCHANGED runtimeVars
    \/ hpc # "migrated" /\ RCallPrune /\ Goto("prune") /\ UNCHANGED homeVars

Reuse ==
    /\ stage = "components" /\ Unchanged
    /\ CommitHome
    /\ ShellHolds
    /\ UNCHANGED <<configVars, bounds>>

StageDocuments ==
    /\ stage = "components"
    /\ CStage(wanted)
    /\ Goto("config") /\ ShellHolds
    /\ UNCHANGED <<homeVars, runtimeVars, bounds>>

ActivateDocuments ==
    /\ stage = "config" /\ CSnapshot
    /\ Goto("finish") /\ ShellHolds
    /\ UNCHANGED <<homeVars, runtimeVars, bounds>>

\* What install_state.write_manifest records, once the services answer and
\* doctor is content.
Record == Fingerprints(wanted, doc)

RecordState ==
    /\ stage = "finish" /\ cpc = "committed"
    /\ recording' = TRUE
    /\ verified' = Record
    /\ CCall("finalize")
    /\ UNCHANGED <<homeVars, runtimeVars, stage, prior, recovering, sound, late, bounds>>

Finalized ==
    /\ stage = "finish" /\ cpc = "finalized"
    /\ CommitHome
    /\ recording' = FALSE
    /\ sound' = TRUE /\ late' = FALSE
    /\ UNCHANGED <<configVars, verified, prior, recovering, bounds>>

PruneReleases ==
    /\ stage = "commit" /\ hpc = "committed"
    /\ RCallPrune /\ Goto("prune") /\ ShellHolds
    /\ UNCHANGED <<homeVars, configVars, bounds>>

\* Neither a commit nor a pruning that fails undoes the installation.
End ==
    /\ \/ stage = "commit" /\ hpc \in {"failed", "refused"}
       \/ stage = "prune" /\ rpc \in {"pruned", "failed"}
    /\ Leave
    /\ UNCHANGED <<verified, sound, late, bounds>>

-----------------------------------------------------------------------------
(* The way back.                                                           *)

\* Another command of the script fails, where workflow_die would find nothing
\* of the three components to blame.
Fails == failures < MaxFailures /\ failures' = failures + 1 /\ UNCHANGED <<installs, kills, edits>>

UndoHome ==
    IF hpc = "migrated"
    THEN /\ HCallUndo /\ Goto("undoHome")
         /\ UNCHANGED <<runtimeVars, configVars, prior, recording, recovering>>
    ELSE Leave

\* Before anything but the home has been touched.
DieEarly ==
    /\ \/ stage = "home" /\ hpc \in {"failed", "refused"}
       \/ stage = "recover" /\ cpc = "failed"
       \/ stage = "inspect" /\ rpc \in {"failed", "refused"}
    /\ UndoHome
    /\ UNCHANGED <<verified, sound, late, bounds>>

\* rollback_consolidated_runtime_and_home, while the documents are untouched.
Die ==
    /\ \/ stage = "activate" /\ rpc \in {"failed", "refused"} /\ UNCHANGED bounds
       \/ stage \in {"components", "config"} /\ Fails
    /\ RCallUndo /\ Goto("undoRuntime") /\ ShellHolds
    /\ UNCHANGED <<homeVars, configVars>>

\* Faulty variant: the documents are left to the next installer.
DieRuntimeOnly ==
    /\ stage = "finish"
    /\ \/ cpc = "failed" /\ UNCHANGED bounds
       \/ cpc = "committed" /\ Fails
    /\ RCallUndo /\ Goto("undoRuntime") /\ ShellHolds
    /\ UNCHANGED <<homeVars, configVars>>

\* rollback_install_transaction, from the activation of the documents on.
DieActivated ==
    /\ stage = "finish"
    /\ \/ cpc = "failed" /\ UNCHANGED bounds
       \/ cpc = "committed" /\ Fails
    /\ CCall("rollback") /\ Goto("undoConfig") /\ ShellHolds
    /\ UNCHANGED <<homeVars, runtimeVars>>

\* The record cannot be written, or not be made durable.
RecordFails ==
    /\ stage = "finish" /\ cpc = "committed" /\ Fails
    /\ recording' = TRUE
    /\ verified' \in {verified, Record}
    /\ CCall("rollback") /\ Goto("undoConfig")
    /\ UNCHANGED <<homeVars, runtimeVars, prior, recovering, sound, late>>

\* From its write on, the record is restored by a removal and a copy, and one
\* that may not be true is removed.
RecordAfter(ready) == verified' = IF ~recording THEN verified
                                  ELSE IF ready THEN prior ELSE NoState
HalfRestored == IF recording THEN {verified, NoState, Damaged} ELSE {verified}

\* The services and binaries, which are put back too, may fail to be, and so
\* may the record.
UndoneConfig ==
    /\ stage = "undoConfig"
    /\ \/ \E ready \in BOOLEAN :
            /\ \/ cpc = "restored" /\ ready /\ UNCHANGED bounds
               \/ cpc = "restored" /\ ~ready /\ Fails
               \/ cpc = "failed" /\ ~ready /\ UNCHANGED bounds
            /\ RecordAfter(ready)
            /\ sound' = (sound /\ ready)
       \/ /\ cpc \in {"restored", "failed"} /\ recording /\ Fails
          /\ verified' \in HalfRestored
          /\ sound' = FALSE
    /\ RCallUndo /\ Goto("undoRuntime")
    /\ UNCHANGED <<homeVars, configVars, prior, recording, recovering, late>>

UndoneRuntime ==
    /\ stage = "undoRuntime" /\ rpc \in {"undone", "failed", "refused"}
    /\ sound' = (sound /\ rpc = "undone")
    /\ UndoHome
    /\ UNCHANGED <<verified, late, bounds>>

UndoneHome ==
    /\ stage = "undoHome" /\ hpc \in {"undone", "failed", "refused"}
    /\ Leave
    /\ UNCHANGED <<verified, sound, late, bounds>>

-----------------------------------------------------------------------------
(* What happens at any time.                                               *)

Work ==
    /\ \/ HomeStep /\ UNCHANGED <<runtimeVars, configVars>>
       \/ RuntimeStep /\ UNCHANGED <<homeVars, configVars>>
       \/ ConfigStep /\ UNCHANGED <<homeVars, runtimeVars>>
    /\ UNCHANGED <<shellVars, bounds>>

\* A system call of one of the components fails.
CallFails ==
    /\ \/ (HPrepareFails \/ HomeFails) /\ UNCHANGED <<runtimeVars, configVars>>
       \/ RuntimeFails /\ UNCHANGED <<homeVars, configVars>>
       \/ ConfigFails /\ UNCHANGED <<homeVars, runtimeVars>>
    /\ Fails
    /\ late' = (late \/ cpc = "removeFinal")
    /\ UNCHANGED <<stage, verified, prior, recording, recovering, sound>>

Killed ==
    /\ stage # "idle" /\ kills < MaxKills
    /\ Leave
    /\ kills' = kills + 1
    /\ sound' = FALSE
    /\ verified' \in IF stage = "undoConfig" THEN HalfRestored ELSE {verified}
    /\ UNCHANGED <<late, installs, failures, edits>>

Users ==
    /\ \/ /\ UserEdits /\ edits < MaxEdits /\ edits' = edits + 1
          /\ UNCHANGED homeVars
       \/ (OldProgram \/ UserDecides) /\ UNCHANGED <<configVars, edits>>
    /\ UNCHANGED <<runtimeVars, shellVars, installs, failures, kills>>

Next ==
    \/ Start \/ Prepared \/ Recovered \/ Inspected \/ Activated \/ Reuse
    \/ StageDocuments \/ ActivateDocuments \/ RecordState \/ Finalized \/ PruneReleases \/ End
    \/ DieEarly \/ Die \/ DieActivated \/ RecordFails \/ UndoneConfig \/ UndoneRuntime \/ UndoneHome
    \/ Work \/ CallFails \/ Killed \/ Users

Spec == Init /\ [][Next]_vars

-----------------------------------------------------------------------------
(* Properties of the composition; those of the components hold in it too.  *)

\* The runtime and the documents are of one release whenever no installer
\* runs, unless one was killed, could not roll back or had already finalized
\* its documents when it failed.
VersionsAgree ==
    stage = "idle" /\ sound /\ ~late /\ current # NoRelease => doc["policy"] = current
=============================================================================
