----------------------- MODULE ControlPlaneActivation -----------------------
(***************************************************************************)
(* The activation of the configuration documents by the installer          *)
(* (integrations/common/install_control_plane.py): stage, activate,        *)
(* rollback (which is recover) and finalize.                               *)
(*                                                                         *)
(* Four documents stand for all: the controller policy, which each release *)
(* brings along; projects.json, which is normalized; one of those that are *)
(* made only when they are missing, under a lock of its own                *)
(* (accounts.json); and the stack store, a register here (the refinement   *)
(* StackStoreProofs shows that it is one).                                 *)
(***************************************************************************)
EXTENDS Naturals, FiniteSets

CONSTANTS
    Contents,    \* what a document may say
    Absent,      \* no document
    Torn,        \* a document that is half written
    Default,     \* what the repository ships, but for the policy
    Edit,        \* what users write, and nobody else
    Normal(_),   \* contents in the schema of today
    NoManifest

Documents == {"policy", "projects", "accounts", "stacks"}

ASSUME ContentsAssumption ==
    /\ Absent \notin Contents /\ Torn \notin Contents /\ Absent # Torn
    /\ {Default, Edit} \subseteq Contents /\ Default # Edit
    /\ \A c \in Contents :
          /\ Normal(c) \in Contents /\ Normal(Normal(c)) = Normal(c)
          /\ Normal(c) = Edit => c = Edit

Some == Contents \cup {Absent, Torn}

Manifests ==
    [phase : {"prepared", "saving", "committed", "rollbackConflict", "rolledBack", "finalized"},
     prior : [Documents -> Some], mine : [Documents -> SUBSET Some]]

ASSUME NoManifestAssumption == NoManifest \notin Manifests

VARIABLES
    doc,        \* the documents
    staged,     \* what stage has made of them
    journal,    \* the journal's directory exists
    manifest,   \* installed-control-plane.json in it, with the snapshots
    conflicts,  \* documents that a rollback has left alone
    locked,     \* the installer holds the control-plane lock
    cpc,        \* where the installer is
    entitled,   \* history: what the documents are to say when the activation
                \* does not go through
    edited      \* history: documents that users have changed since they were
                \* staged, before the activation began ("early") or after

configVars ==
    <<doc, staged, journal, manifest, conflicts, locked, cpc, entitled, edited>>

ConfigResults == {"idle", "staged", "committed", "restored", "finalized", "failed"}

ConfigTypeOK ==
    /\ doc \in [Documents -> Some]
    /\ staged \in [Documents -> Some]
    /\ journal \in BOOLEAN /\ locked \in BOOLEAN
    /\ manifest \in {NoManifest} \cup Manifests
    /\ conflicts \subseteq Documents
    /\ cpc \in ConfigResults \cup
         {"stage", "snapshot", "prepare", "accounts", "accountsEnd", "policy", "projects",
          "stacks", "stacksEnd", "saving", "save", "commit", "load", "rollback", "undoStacks",
          "undoPolicy", "undoProjects", "undoAccounts", "mark", "remove", "finalize",
          "removeFinal"}
    /\ entitled \in [Documents -> Some]
    /\ edited \in [Documents -> {"no", "early", "late"}]

Unedited == [d \in Documents |-> "no"]

ConfigInit(initial) ==
    /\ doc = initial
    /\ staged = [d \in Documents |-> Absent]
    /\ journal = FALSE /\ manifest = NoManifest /\ conflicts = {}
    /\ locked = FALSE
    /\ cpc = "idle"
    /\ entitled = initial /\ edited = Unedited

-----------------------------------------------------------------------------
CGoto(location) == cpc' = location
CHistory == <<entitled, edited>>
CJournal == <<journal, manifest, conflicts>>

\* stage reads all documents under the lock, and gives it back.
Candidate(d, policy) ==
    IF d = "policy" THEN policy
    ELSE IF doc[d] = Absent THEN Default
    ELSE IF d = "accounts" THEN doc[d] ELSE Normal(doc[d])

CStage(policy) ==
    /\ cpc \in {"idle", "restored"}
    /\ staged' = [d \in Documents |-> Candidate(d, policy)]
    /\ CGoto(IF Torn \in {doc[d] : d \in Documents} THEN "failed" ELSE "staged")
    /\ edited' = Unedited
    /\ UNCHANGED <<doc, CJournal, locked, entitled>>

-----------------------------------------------------------------------------
(* activate, under the lock.                                               *)

CSnapshot ==
    /\ cpc = "staged"
    /\ journal' = TRUE
    /\ IF manifest = NoManifest
       THEN /\ CGoto("prepare") /\ locked' = TRUE
            /\ entitled' = doc
       ELSE CGoto("failed") /\ UNCHANGED <<locked, entitled>>
    /\ UNCHANGED <<doc, staged, manifest, conflicts, edited>>

\* Before anything is changed, the manifest names what will be.
Mine ==
    [d \in Documents |->
       IF d \in {"policy", "projects"} \/ doc[d] = Absent THEN {staged[d]} ELSE {}]

CPrepare ==
    /\ cpc = "prepare"
    /\ manifest' = [phase |-> "prepared", prior |-> entitled, mine |-> Mine]
    /\ CGoto(IF Mine["accounts"] = {} THEN "policy" ELSE "accounts")
    /\ UNCHANGED <<doc, staged, journal, conflicts, locked, CHistory>>

\* A missing document is created under its own name, then written.
Create(d, then) ==
    IF doc[d] = Absent
    THEN doc' = [doc EXCEPT ![d] = Torn] /\ CGoto(then) /\ UNCHANGED locked
    ELSE CGoto("failed") /\ locked' = FALSE /\ UNCHANGED doc

CAccounts ==
    /\ cpc = "accounts"
    /\ Create("accounts", "accountsEnd")
    /\ UNCHANGED <<staged, CJournal, CHistory>>

Complete(d) == doc' = [doc EXCEPT ![d] = staged[d]]

CWrite ==
    /\ \/ cpc = "accountsEnd" /\ Complete("accounts") /\ CGoto("policy")
       \/ cpc = "policy" /\ Complete("policy") /\ CGoto("projects")
       \/ /\ cpc = "projects" /\ Complete("projects")
          /\ CGoto(IF doc["stacks"] = Absent THEN "stacks" ELSE "saving")
       \/ cpc = "stacksEnd" /\ Complete("stacks") /\ CGoto("saving")
    /\ UNCHANGED <<staged, CJournal, locked, CHistory>>

CStacks ==
    /\ cpc = "stacks"
    /\ Create("stacks", "stacksEnd")
    /\ UNCHANGED <<staged, CJournal, CHistory>>

\* Faulty variant: what the save is going to write is not recorded.
CSavingUnnamed ==
    /\ cpc = "saving"
    /\ manifest' = [manifest EXCEPT !.phase = "saving"]
    /\ CGoto("save")
    /\ UNCHANGED <<doc, staged, journal, conflicts, locked, CHistory>>

CSaving ==
    /\ cpc = "saving"
    /\ manifest' = [manifest EXCEPT !.phase = "saving",
                                    !.mine["stacks"] = @ \cup {Normal(doc["stacks"])}]
    /\ CGoto("save")
    /\ UNCHANGED <<doc, staged, journal, conflicts, locked, CHistory>>

CSave ==
    /\ cpc = "save"
    /\ doc' = [doc EXCEPT !["stacks"] = Normal(@)]
    /\ CGoto("commit")
    /\ UNCHANGED <<staged, CJournal, locked, CHistory>>

CCommit ==
    /\ cpc = "commit"
    /\ manifest' = [manifest EXCEPT !.phase = "committed"]
    /\ CGoto("load")
    /\ UNCHANGED <<doc, staged, journal, conflicts, locked, CHistory>>

\* load_control_plane, and the lock goes.
CLoad ==
    /\ cpc = "load"
    /\ CGoto(IF Torn \in {doc[d] : d \in Documents} THEN "failed" ELSE "committed")
    /\ locked' = FALSE
    /\ UNCHANGED <<doc, staged, CJournal, CHistory>>

-----------------------------------------------------------------------------
(* rollback, by the installer that fails or by the next one.               *)

\* Faulty variant: only what has come to the save is rolled back.
CRollbackSaved ==
    /\ cpc = "rollback"
    /\ conflicts' = {}
    /\ CGoto(IF ~journal THEN "restored"
             ELSE IF manifest = NoManifest \/ manifest.phase \notin {"saving", "committed"}
             THEN "remove" ELSE "undoStacks")
    /\ locked' = (journal /\ manifest # NoManifest)
    /\ UNCHANGED <<doc, staged, journal, manifest, CHistory>>

CRollback ==
    /\ cpc = "rollback"
    /\ conflicts' = {}
    /\ CGoto(IF ~journal THEN "restored"
             ELSE IF manifest = NoManifest \/ manifest.phase \in {"rolledBack", "finalized"}
             THEN "remove" ELSE "undoStacks")
    /\ locked' = (journal /\ manifest # NoManifest)
    /\ UNCHANGED <<doc, staged, journal, manifest, CHistory>>

\* Faulty variant: what is not as it was is put back.
UndoAlways(d) ==
    /\ doc' = [doc EXCEPT ![d] = manifest.prior[d]]
    /\ UNCHANGED conflicts

\* A document goes back only when it says what the activation has written.
Undo(d) ==
    IF doc[d] # manifest.prior[d] /\ doc[d] \in manifest.mine[d]
    THEN doc' = [doc EXCEPT ![d] = manifest.prior[d]] /\ UNCHANGED conflicts
    ELSE /\ conflicts' = IF \/ doc[d] = manifest.prior[d]
                            \/ d = "accounts" /\ (manifest.mine[d] = {} \/ doc[d] = Absent)
                         THEN conflicts ELSE conflicts \cup {d}
         /\ UNCHANGED doc

CUndo ==
    /\ \/ cpc = "undoStacks" /\ Undo("stacks") /\ CGoto("undoPolicy")
       \/ cpc = "undoPolicy" /\ Undo("policy") /\ CGoto("undoProjects")
       \/ cpc = "undoProjects" /\ Undo("projects") /\ CGoto("undoAccounts")
       \/ cpc = "undoAccounts" /\ Undo("accounts") /\ CGoto("mark")
    /\ UNCHANGED <<staged, journal, manifest, locked, CHistory>>

CMark ==
    /\ cpc = "mark"
    /\ manifest' = [manifest EXCEPT !.phase =
                      IF conflicts = {} THEN "rolledBack" ELSE "rollbackConflict"]
    /\ CGoto(IF conflicts = {} THEN "remove" ELSE "failed")
    /\ locked' = (conflicts = {})
    /\ UNCHANGED <<doc, staged, journal, conflicts, CHistory>>

CFinalize ==
    /\ cpc = "finalize"
    /\ IF manifest # NoManifest /\ manifest.phase = "committed"
       THEN /\ manifest' = [manifest EXCEPT !.phase = "finalized"]
            /\ entitled' = doc
            /\ CGoto("removeFinal")
       ELSE CGoto("failed") /\ UNCHANGED <<manifest, entitled>>
    /\ UNCHANGED <<doc, staged, journal, conflicts, locked, edited>>

CRemove ==
    /\ cpc \in {"remove", "removeFinal"}
    /\ journal' = FALSE /\ manifest' = NoManifest
    /\ CGoto(IF cpc = "remove" THEN "restored" ELSE "finalized")
    /\ locked' = FALSE
    /\ UNCHANGED <<doc, staged, conflicts, CHistory>>

CCall(location) == CGoto(location) /\ UNCHANGED <<doc, staged, CJournal, locked, CHistory>>

\* A system call fails; what has been written stays.
ConfigFails ==
    /\ cpc \notin ConfigResults
    /\ CGoto("failed")
    /\ locked' = FALSE
    /\ UNCHANGED <<doc, staged, CJournal, CHistory>>

ConfigEnds ==
    /\ CGoto("idle")
    /\ staged' = [d \in Documents |-> Absent] /\ conflicts' = {}
    /\ locked' = FALSE
    /\ UNCHANGED <<doc, journal, manifest, CHistory>>

\* Commands change the documents meanwhile, each under its own lock.
UserEdits ==
    /\ \E d \in {"projects", "stacks", "accounts"} :
        /\ d = "accounts" \/ ~locked
        /\ doc[d] \notin {Torn, Edit}
        /\ doc' = [doc EXCEPT ![d] = Edit]
        /\ entitled' = [entitled EXCEPT ![d] = Edit]
        /\ edited' = [edited EXCEPT ![d] = IF cpc = "staged" THEN "early" ELSE "late"]
    /\ UNCHANGED <<staged, CJournal, locked, cpc>>

ConfigStep ==
    \/ CPrepare \/ CAccounts \/ CWrite \/ CStacks \/ CSaving \/ CSave \/ CCommit \/ CLoad
    \/ CRollback \/ CUndo \/ CMark \/ CFinalize \/ CRemove

-----------------------------------------------------------------------------
(* Properties.                                                             *)

\* What a user changes after the activation has begun stays as the user left
\* it: neither the activation nor its rollback, by this installer or by the
\* next one, touches it.
EditsKept == \A d \in Documents : edited[d] = "late" => doc[d] = entitled[d]

\* The installer preserves what users write while it runs (as the documentation
\* says; the program stages projects.json long before it activates it).
PreservesEdits ==
    cpc = "finalize" => \A d \in Documents : edited[d] # "no" => doc[d] = entitled[d]

\* An activation that does not go through leaves nothing behind: without a
\* journal every document says what it said before, or what users have made
\* of it since, however often the activation and its rollback were killed.
AllOrNothing ==
    manifest = NoManifest \/ manifest.phase = "rolledBack" => doc = entitled

\* A conflict, which only the user can resolve, has a user's change as its
\* reason, or a document that the activation was creating.
ConflictJustified ==
    manifest # NoManifest /\ manifest.phase = "rollbackConflict"
        => (\E d \in Documents : edited[d] = "late") \/ Torn \in {doc[d] : d \in Documents}
=============================================================================
