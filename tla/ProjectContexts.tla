-------------------------- MODULE ProjectContexts ---------------------------
(***************************************************************************)
(* The project contexts (integrations/common/project_context.py) and the   *)
(* commands that change them together with the model stacks                *)
(* (stack_wizard.py, orichum_cli.py).                                      *)
(*                                                                         *)
(* projects.json is replaced under a journal of its own: a copy of the     *)
(* document and a marker, in the same directory.  The stack store is the   *)
(* register it implements, with an interrupted save spelt out, because     *)
(* the commands read both documents without recovering the other one.      *)
(* One flock on the directory serializes all of this.                      *)
(*                                                                         *)
(* A process can be killed and the power can fail between any two steps,   *)
(* and any step of a write can fail.  The file system persists changes of  *)
(* a directory in order; survivors are the states of the directory that a  *)
(* power failure may leave.                                                *)
(***************************************************************************)
EXTENDS Naturals, FiniteSets

CONSTANTS
    Procs,
    Roots,        \* project roots
    Normal,       \* the scope outside all projects
    Overlapping,  \* pairs of roots of which one contains the other
    Stacks,       \* names of model stacks
    Inherit,      \* a scope without a stack of its own
    Unmapped,     \* no such context, or no normal scope
    NoCopy, NoOwner, NoTask,
    Settled,      \* no save of the stack store is interrupted
    MaxErrors,    \* bound on failing system calls
    MaxCrashes    \* bound on kills and power failures

Scopes == Roots \cup {Normal}

ASSUME ContextsAssumption ==
    /\ Normal \notin Roots
    /\ Overlapping \subseteq Roots \X Roots
    /\ Inherit \notin Stacks /\ Unmapped \notin Stacks \cup {Inherit}
    /\ NoOwner \notin Procs
    /\ MaxErrors \in Nat /\ MaxCrashes \in Nat

Documents == [Scopes -> Stacks \cup {Inherit, Unmapped}]

ASSUME NoCopyAssumption == NoCopy \notin Documents

VARIABLES
    dir,         \* projects.json with its journal
    survivors,   \* what a power failure may leave of it
    stacks,      \* the names in model-stacks.json
    stacksOld,   \* those that the recovery of an interrupted save restores
    owner,       \* who holds the directory's flock
    pc, task,    \* each process, and the change of the contexts it makes
    seen, proposed,  \* the stacks a command has loaded, and will save
    candidate,   \* the document it will write
    after,       \* where it goes when the journal is cleaned up
    agreed,      \* history: documents that a reader may find
    errors, crashes

journal == <<dir, survivors, agreed>>
stores == <<stacks, stacksOld>>
locals == <<task, seen, proposed, candidate, after>>
counters == <<errors, crashes>>
vars == <<journal, stores, owner, pc, locals, counters>>

-----------------------------------------------------------------------------
Directories == [doc : Documents, copy : {NoCopy} \cup Documents,
                marker : {"none", "pending", "committed"}]
Tasks == [kind : {"add", "update", "remove", "normal", "assign"},
          scope : Scopes, stack : Stacks \cup {Inherit}]

\* A write before it can be undone, and after; its way back.
Preparing == {"copy", "syncCopy", "mark"}
Writing == {"syncMark", "replace", "syncDoc", "commit", "syncCommit"}
Restoring == {"markAgain", "restore", "syncRestore", "finish", "syncFinish"}
Cleaning == {"dropCopy", "dropMarker", "syncClean"}
Locations == {"idle", "lockSave", "save", "recover", "read"}
             \cup Preparing \cup Writing \cup Restoring \cup Cleaning

TypeOK ==
    /\ dir \in Directories
    /\ survivors \subseteq Directories /\ dir \in survivors
    /\ stacks \subseteq Stacks
    /\ stacksOld \in {Settled} \cup SUBSET Stacks
    /\ owner \in Procs \cup {NoOwner}
    /\ pc \in [Procs -> Locations]
    /\ task \in [Procs -> {NoTask} \cup Tasks]
    /\ seen \in [Procs -> SUBSET Stacks]
    /\ proposed \in [Procs -> SUBSET Stacks]
    /\ candidate \in [Procs -> {NoCopy} \cup Documents]
    /\ after \in [Procs -> {"read", "end"}]
    /\ agreed \subseteq Documents
    /\ errors \in Nat /\ crashes \in Nat

Mapped(doc) == {s \in Scopes : doc[s] # Unmapped}

\* validate_config_document: known stacks only.
Known(doc, names) == \A s \in Mapped(doc) : doc[s] \in names \cup {Inherit}

\* Roots of contexts do not contain each other.
Disjoint(doc) == \A a, b \in Mapped(doc) : <<a, b>> \notin Overlapping

\* The document that recovery makes of a directory.
Recovered(d) == IF d.marker = "pending" THEN d.copy ELSE d.doc

Init ==
    /\ dir \in {[doc |-> doc, copy |-> NoCopy, marker |-> "none"] :
                  doc \in {e \in Documents : Disjoint(e) /\ Mapped(e) \cap Roots = {}}}
    /\ survivors = {dir}
    /\ stacks \in SUBSET Stacks \ {{}}
    /\ Known(dir.doc, stacks)
    /\ stacksOld = Settled
    /\ owner = NoOwner
    /\ pc = [p \in Procs |-> "idle"]
    /\ task = [p \in Procs |-> NoTask]
    /\ seen = [p \in Procs |-> {}]
    /\ proposed = [p \in Procs |-> {}]
    /\ candidate = [p \in Procs |-> NoCopy]
    /\ after = [p \in Procs |-> "read"]
    /\ agreed = {dir.doc}
    /\ errors = 0 /\ crashes = 0

-----------------------------------------------------------------------------
Goto(p, location) == pc' = [pc EXCEPT ![p] = location]

\* The command is over; the flock goes with its descriptor.
End(p) ==
    /\ Goto(p, "idle")
    /\ owner' = IF owner = p THEN NoOwner ELSE owner
    /\ task' = [task EXCEPT ![p] = NoTask]
    /\ seen' = [seen EXCEPT ![p] = {}]
    /\ proposed' = [proposed EXCEPT ![p] = {}]
    /\ candidate' = [candidate EXCEPT ![p] = NoCopy]
    /\ after' = [after EXCEPT ![p] = "read"]

Take(p) == owner = NoOwner /\ owner' = p

\* load_stack_snapshot and save_stack recover the stack store first.
RecoveredStacks == IF stacksOld = Settled THEN stacks ELSE stacksOld

Proposals(names) == {names \cup {s} : s \in Stacks} \cup {names \ {s} : s \in names}

-----------------------------------------------------------------------------
(* Commands.                                                               *)

\* context add, update and remove, and configure_normal_scope: each takes the
\* flock before it reads anything.
Lock(p) ==
    /\ pc[p] = "idle"
    /\ Take(p)
    /\ \E t \in Tasks :
        /\ t.kind # "assign"
        /\ t.kind = "normal" <=> t.scope = Normal
        /\ t.kind \in {"remove", "normal"} => t.stack = Inherit
        /\ task' = [task EXCEPT ![p] = t]
    /\ Goto(p, "recover")
    /\ UNCHANGED <<journal, stores, seen, proposed, candidate, after, counters>>

\* run_stack_wizard and _apply_configuration_draft: the stacks are loaded long
\* before they are saved.
Wizard(p) ==
    /\ pc[p] = "idle"
    /\ owner = NoOwner
    /\ stacks' = RecoveredStacks /\ stacksOld' = Settled
    /\ seen' = [seen EXCEPT ![p] = stacks']
    /\ Goto(p, "lockSave")
    /\ UNCHANGED <<journal, owner, task, proposed, candidate, after, counters>>

\* create_recommended_stack: everything under the lock.
Recommend(p) ==
    /\ pc[p] = "idle"
    /\ Take(p)
    /\ stacks' = RecoveredStacks /\ stacksOld' = Settled
    /\ seen' = [seen EXCEPT ![p] = stacks']
    /\ \E name \in Stacks, scope \in Mapped(dir.doc) :
        /\ Known(dir.doc, stacks' \cup {name})
        /\ proposed' = [proposed EXCEPT ![p] = stacks' \cup {name}]
        /\ task' = [task EXCEPT ![p] =
                      [kind |-> IF scope = Normal THEN "normal" ELSE "assign",
                       scope |-> scope, stack |-> name]]
    /\ Goto(p, "save")
    /\ UNCHANGED <<journal, candidate, after, counters>>

\* Faulty variant: what is to be saved is validated before the lock is taken.
LockSaveUnchecked(p) ==
    /\ pc[p] = "lockSave"
    /\ Take(p)
    /\ \E names \in Proposals(seen[p]) \ {{}} : proposed' = [proposed EXCEPT ![p] = names]
    /\ Goto(p, "save")
    /\ UNCHANGED <<journal, stores, task, seen, candidate, after, counters>>

\* run_stack_wizard, when the user is done: validate_control_plane of what is
\* to be saved, with projects.json as it is.
LockSave(p) ==
    /\ pc[p] = "lockSave"
    /\ owner = NoOwner
    /\ \E names \in Proposals(seen[p]) \ {{}} :
       \E t \in {NoTask} \cup [kind : {"assign"}, scope : Roots, stack : names] :
        IF /\ Known(dir.doc, names)
           /\ t # NoTask => t.scope \in Mapped(dir.doc)
        THEN /\ owner' = p
             /\ task' = [task EXCEPT ![p] = t]
             /\ proposed' = [proposed EXCEPT ![p] = names]
             /\ Goto(p, "save")
             /\ UNCHANGED <<seen, candidate, after>>
        ELSE End(p)
    /\ UNCHANGED <<journal, stores, counters>>

\* _apply_configuration_draft: the managed stack of the project, or one of the
\* stacks seen, for the project; or bindings only.  Nothing is compared with
\* projects.json.
LockDraft(p) ==
    /\ pc[p] = "lockSave"
    /\ Take(p)
    /\ \/ /\ task' = [task EXCEPT ![p] = NoTask]
          /\ proposed' = [proposed EXCEPT ![p] = seen[p]]
       \/ \E t \in [kind : {"assign"}, scope : Roots, stack : Stacks] :
            /\ task' = [task EXCEPT ![p] = t]
            /\ proposed' = [proposed EXCEPT ![p] = seen[p] \cup {t.stack}]
    /\ Goto(p, "save")
    /\ UNCHANGED <<journal, stores, seen, candidate, after, counters>>

\* The user declines, or the stack that the draft names is of no use.
GiveUp(p) ==
    /\ pc[p] = "lockSave"
    /\ End(p)
    /\ UNCHANGED <<journal, stores, counters>>

\* save_stack over the stacks seen.
Save(p) ==
    /\ pc[p] = "save"
    /\ stacksOld' = Settled
    /\ stacks' = IF RecoveredStacks = seen[p] THEN proposed[p] ELSE RecoveredStacks
    /\ IF RecoveredStacks = seen[p] /\ task[p] # NoTask
       THEN /\ Goto(p, "recover")
            /\ seen' = [seen EXCEPT ![p] = {}]
            /\ proposed' = [proposed EXCEPT ![p] = {}]
            /\ UNCHANGED <<owner, task, candidate, after>>
       ELSE End(p)
    /\ UNCHANGED <<journal, counters>>

\* A kill in the middle of save_stack.
InterruptSave(p) ==
    /\ pc[p] = "save" /\ RecoveredStacks = seen[p]
    /\ crashes < MaxCrashes /\ crashes' = crashes + 1
    /\ stacksOld' = seen[p]
    /\ stacks' \in {seen[p], proposed[p]}
    /\ End(p)
    /\ UNCHANGED <<journal, errors>>

-----------------------------------------------------------------------------
(* The journal of projects.json.                                           *)

\* Faulty variant: any marker asks for the copy.
RecoverMarked(p) ==
    /\ pc[p] = "recover"
    /\ Goto(p, IF dir.marker # "none" THEN "restore"
               ELSE IF dir.copy # NoCopy THEN "dropCopy" ELSE "read")
    /\ UNCHANGED <<journal, stores, owner, locals, counters>>

\* _recover_context_transaction
Recover(p) ==
    /\ pc[p] = "recover"
    /\ IF dir.marker = "pending" /\ dir.copy = NoCopy
       THEN End(p)
       ELSE /\ Goto(p, IF dir.marker = "pending" THEN "restore"
                       ELSE IF dir.marker = "committed" \/ dir.copy # NoCopy THEN "dropCopy"
                       ELSE "read")
            /\ UNCHANGED <<owner, locals>>
    /\ UNCHANGED <<journal, stores, counters>>

\* The document a command makes of the one it has read.
Changed(doc, t) ==
    [doc EXCEPT ![t.scope] = IF t.kind = "remove" THEN Unmapped ELSE t.stack]

\* Stacks are looked up in model-stacks.json as it is;
\* assign_stack_to_context is given the name that has been saved.
Accepted(doc, t) ==
    CASE t.kind = "assign" -> t.scope \in Mapped(doc)
      [] t.kind = "normal" -> Known(Changed(doc, t), stacks)
      [] t.kind = "add" -> /\ t.scope \notin Mapped(doc)
                           /\ Disjoint(Changed(doc, t)) /\ Known(Changed(doc, t), stacks)
      [] OTHER -> t.scope \in Mapped(doc) /\ Known(Changed(doc, t), stacks)

\* The command changes the document, and validates the change with what it
\* has read.
Revise(p, read) ==
    /\ IF Accepted(read, task[p])
       THEN /\ candidate' = [candidate EXCEPT ![p] = Changed(dir.doc, task[p])]
            /\ task' = [task EXCEPT ![p] = NoTask]
            /\ Goto(p, "copy")
            /\ UNCHANGED <<owner, seen, proposed, after>>
       ELSE End(p)
    /\ agreed' = IF {Recovered(d) : d \in survivors} = {dir.doc} THEN {dir.doc} ELSE agreed
    /\ UNCHANGED <<dir, survivors, stores, counters>>

\* Faulty variant: the change was validated before the lock was taken, when
\* there were no contexts.
ReadEarly(p) ==
    /\ pc[p] = "read"
    /\ \E doc \in {dir.doc, [s \in Scopes |-> Unmapped]} : Revise(p, doc)

\* The document is read under the lock.
Read(p) == pc[p] = "read" /\ Revise(p, dir.doc)

\* What each step does to the directory, each by one replace or unlink, and
\* where it leads.
Change(p) ==
    CASE pc[p] = "copy" -> [dir EXCEPT !.copy = dir.doc]
      [] pc[p] \in {"mark", "markAgain"} -> [dir EXCEPT !.marker = "pending"]
      [] pc[p] = "replace" -> [dir EXCEPT !.doc = candidate[p]]
      [] pc[p] \in {"commit", "finish"} -> [dir EXCEPT !.marker = "committed"]
      [] pc[p] = "restore" -> [dir EXCEPT !.doc = dir.copy]
      [] pc[p] = "dropCopy" -> [dir EXCEPT !.copy = NoCopy]
      [] pc[p] = "dropMarker" -> [dir EXCEPT !.marker = "none"]

Then ==
    [copy |-> "syncCopy", mark |-> "syncMark", replace |-> "syncDoc",
     commit |-> "syncCommit", markAgain |-> "restore", restore |-> "syncRestore",
     finish |-> "syncFinish", dropCopy |-> "dropMarker", dropMarker |-> "syncClean"]

\* _write_context_document and its recovery, change by change.
Step(p) ==
    /\ pc[p] \in DOMAIN Then
    /\ dir' = Change(p)
    /\ survivors' = survivors \cup {dir'}
    /\ Goto(p, Then[pc[p]])
    /\ UNCHANGED <<agreed, stores, owner, locals, counters>>

ThenSynced ==
    [syncCopy |-> "mark", syncMark |-> "replace", syncDoc |-> "commit",
     syncCommit |-> "dropCopy", syncRestore |-> "finish", syncFinish |-> "dropCopy"]

\* Faulty variant: the directory is not synced behind the committed marker.
SyncLate(p) ==
    /\ pc[p] \in DOMAIN ThenSynced
    /\ survivors' = IF pc[p] = "syncCommit" THEN survivors ELSE {dir}
    /\ Goto(p, ThenSynced[pc[p]])
    /\ IF pc[p] = "syncCommit"
       THEN /\ after' = [after EXCEPT ![p] = "end"]
            /\ candidate' = [candidate EXCEPT ![p] = NoCopy]
       ELSE UNCHANGED <<after, candidate>>
    /\ agreed' = IF pc[p] \in {"syncCommit", "syncFinish"} THEN {dir.doc} ELSE agreed
    /\ UNCHANGED <<dir, stores, owner, task, seen, proposed, counters>>

\* _fsync_context_directory.  A write counts from its committed marker on.
Sync(p) ==
    /\ pc[p] \in DOMAIN ThenSynced
    /\ survivors' = {dir}
    /\ Goto(p, ThenSynced[pc[p]])
    /\ IF pc[p] = "syncCommit"
       THEN /\ after' = [after EXCEPT ![p] = "end"]
            /\ candidate' = [candidate EXCEPT ![p] = NoCopy]
       ELSE UNCHANGED <<after, candidate>>
    /\ agreed' = IF pc[p] \in {"syncCommit", "syncFinish"} THEN {dir.doc} ELSE agreed
    /\ UNCHANGED <<dir, stores, owner, task, seen, proposed, counters>>

\* Where the command goes when the journal is cleaned up.
CleanedUp(p) ==
    IF after[p] = "end" THEN End(p) ELSE Goto(p, after[p]) /\ UNCHANGED <<owner, locals>>

SyncClean(p) ==
    /\ pc[p] = "syncClean"
    /\ survivors' = {dir}
    /\ CleanedUp(p)
    /\ UNCHANGED <<dir, agreed, stores, counters>>

Fails == errors < MaxErrors /\ errors' = errors + 1 /\ UNCHANGED crashes

\* Before the marker is written, a failed write is swept away; then it is
\* rolled back.
WriteFails(p) ==
    /\ pc[p] \in Preparing \cup Writing
    /\ Fails
    /\ Goto(p, IF pc[p] \in Preparing THEN "dropCopy" ELSE "markAgain")
    /\ after' = [after EXCEPT ![p] = "end"]
    /\ UNCHANGED <<journal, stores, owner, task, seen, proposed, candidate>>

\* A clean-up that fails changes nothing for its command.
CleanUpFails(p) ==
    /\ pc[p] \in Cleaning
    /\ Fails
    /\ CleanedUp(p)
    /\ UNCHANGED <<journal, stores>>

\* A rollback or a recovery that fails is left to the next command.
RestoreFails(p) ==
    /\ pc[p] \in Restoring
    /\ Fails
    /\ agreed' = IF candidate[p] = NoCopy THEN agreed ELSE agreed \cup {candidate[p]}
    /\ End(p)
    /\ UNCHANGED <<dir, survivors, stores>>

-----------------------------------------------------------------------------
Kill(p) ==
    /\ pc[p] # "idle"
    /\ crashes < MaxCrashes /\ crashes' = crashes + 1
    /\ agreed' = IF pc[p] \in Writing \cup Restoring /\ candidate[p] # NoCopy
                 THEN agreed \cup {candidate[p]} ELSE agreed
    /\ End(p)
    /\ UNCHANGED <<dir, survivors, stores, errors>>

\* Commands that have not begun are not told apart from idle ones.
PowerLoss ==
    /\ crashes < MaxCrashes /\ crashes' = crashes + 1
    /\ dir' \in survivors
    /\ survivors' = {dir'}
    /\ agreed' = {Recovered(dir')}
    /\ owner' = NoOwner
    /\ pc' = [p \in Procs |-> "idle"]
    /\ task' = [p \in Procs |-> NoTask]
    /\ seen' = [p \in Procs |-> {}]
    /\ proposed' = [p \in Procs |-> {}]
    /\ candidate' = [p \in Procs |-> NoCopy]
    /\ after' = [p \in Procs |-> "read"]
    /\ UNCHANGED <<stores, errors>>

Next ==
    \/ \E p \in Procs :
        \/ Lock(p) \/ Wizard(p) \/ Recommend(p)
        \/ LockSave(p) \/ LockDraft(p) \/ GiveUp(p) \/ Save(p) \/ InterruptSave(p)
        \/ Recover(p) \/ Read(p) \/ Step(p) \/ Sync(p) \/ SyncClean(p)
        \/ WriteFails(p) \/ CleanUpFails(p) \/ RestoreFails(p) \/ Kill(p)
    \/ PowerLoss

Spec == Init /\ [][Next]_vars

-----------------------------------------------------------------------------
(* Properties.                                                             *)

\* Whatever a power failure leaves can be recovered, and recovery gives the
\* document before or after a write: after, once the write has been committed;
\* before, once it has been rolled back.
WritesAtomic ==
    \A d \in survivors :
        /\ d.marker = "pending" => d.copy # NoCopy
        /\ Recovered(d) \in agreed \cup
             {candidate[p] : p \in {q \in Procs : pc[q] \in Writing \cup Restoring}}

\* Whichever commands ran side by side, no project lies inside another one.
RootsDisjoint == \A d \in survivors : Disjoint(Recovered(d))

\* A crash or a recovery brings an earlier document back, or the recovery of
\* the stack store earlier names, which lack one that a scope has come to name.
DocumentBack == dir'.doc # dir.doc /\ \E d \in survivors : dir'.doc \in {d.doc, d.copy}
StacksBack == stacksOld # Settled /\ stacks' # stacks /\ ~Known(dir.doc, stacksOld)

\* A scope comes to name a stack that is not there only by going back to an
\* earlier document, or earlier stacks: no deletion of a stack, assignment or
\* context command does it, nor any of them side by side.
ReferencesKept ==
    [][Known(dir.doc, stacks) /\ ~DocumentBack /\ ~StacksBack
         => Known(dir.doc, stacks)']_vars
=============================================================================
