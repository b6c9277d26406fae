----------------------------- MODULE StackStore -----------------------------
(***************************************************************************)
(* integrations/common/stack_store.py: the two-file transaction that keeps *)
(* model-stacks.json and stack-bindings.json together.                     *)
(*                                                                         *)
(* The shared parent directory has five entries that matter:               *)
(*   model, binding          the two documents;                            *)
(*   modelOrig, bindingOrig  the recovery copies of the originals;         *)
(*   marker                  .model-stacks.transaction.json.               *)
(* Every file is written and fsynced under a temporary name, so an action  *)
(* that changes the disk is one os.replace or one unlink.  `disk' is the   *)
(* directory as processes see it; `survivors' is the set of directories a  *)
(* power loss may leave behind, cut down to one by an fsync of the         *)
(* directory.  When OrderedMetadata holds the file system persists the     *)
(* changes of the directory in the order they were made (a journalling     *)
(* file system); when it does not, each change persists or not by itself.  *)
(*                                                                         *)
(* The binding flock and the model flock are always taken in that order    *)
(* and the second only inside the first: one `owner' stands for both.      *)
(* The owner's program counter and locals are therefore global.            *)
(***************************************************************************)
EXTENDS StackPairs, Naturals

CONSTANTS
    Rollbacks,        \* what the installer asks restore_stack_files for:
                      \* the pair it activated, the pair it had found
    OrderedMetadata,  \* directory changes persist in order
    MaxFailures       \* bound on I/O errors and interrupts (FaultSpec)

ASSUME ModeAssumption == OrderedMetadata \in BOOLEAN /\ MaxFailures \in Nat

ASSUME RollbackAssumption ==
    \A rollback \in Rollbacks :
        /\ rollback \in Pairs \X Pairs
        /\ Consistent(rollback[1]) /\ Consistent(rollback[2])
        /\ rollback[1] # NoFiles

VARIABLES
    disk,        \* the directory entries, as processes see them
    survivors,   \* the directories a power loss may leave behind
    snapshot,    \* the StackSnapshot each process holds (its two digests)
    owner,       \* the process that holds the locks
    pc,          \* where the owner is
    ret,         \* where the owner goes once recovery or cleanup is over
    call,        \* the owner's call and its arguments
    outcome,     \* what the call will report
    failures     \* I/O errors and interrupts so far

vars == <<disk, survivors, snapshot, owner, pc, ret, call, outcome, failures>>
locals == <<ret, call, outcome>>

-----------------------------------------------------------------------------
NoMarker == [state |-> "none", existed |-> FALSE]
Marker(state, existed) == [state |-> state, existed |-> existed]

Directories ==
    [model : Stacks \cup {Absent}, binding : Bindings \cup {Absent},
     modelOrig : Stacks \cup {Absent}, bindingOrig : Bindings \cup {Absent},
     marker : [state : {"none", "pending", "committed"}, existed : BOOLEAN]]

\* The pair a loader of directory d is given: recovery puts the originals
\* back when the marker is pending.
Logical(d) ==
    IF d.marker.state = "pending"
    THEN <<d.modelOrig, IF d.marker.existed THEN d.bindingOrig ELSE Absent>>
    ELSE <<d.model, d.binding>>

\* Directories _restore_originals refuses: every later call raises.
Wedged(d) ==
    /\ d.marker.state = "pending"
    /\ d.modelOrig = Absent \/ (d.marker.existed /\ d.bindingOrig = Absent)

Locations ==
    {"idle", "recover", "restoreModel", "restoreBinding", "restoreSync",
     "finishMark", "finishSync", "cleanModel", "cleanBinding", "cleanMarker",
     "cleanSync", "read", "compare", "origModel", "origBinding", "origSync",
     "pendingMark", "pendingSync", "pubBinding", "pubModel", "pubSync",
     "commitMark", "commitSync", "rollbackMark", "check", "dropBinding",
     "dropModel", "dropSync", "instModel", "instBinding", "instMark",
     "instSync", "release"}

-----------------------------------------------------------------------------
Put(entry, value) ==
    /\ disk' = [disk EXCEPT ![entry] = value]
    /\ survivors' = IF OrderedMetadata
                    THEN survivors \cup {disk'}
                    ELSE survivors \cup
                            {[d EXCEPT ![entry] = value] : d \in survivors}

\* _fsync_directory
Sync == disk' = disk /\ survivors' = {disk}

Untouched == UNCHANGED <<disk, survivors>>
At(location) == pc = location /\ UNCHANGED <<owner, snapshot, failures>>
Goto(location) == pc' = location /\ UNCHANGED locals
Raise == pc' = "release" /\ outcome' = "error" /\ UNCHANGED <<ret, call>>

TypeOK ==
    /\ disk \in Directories
    /\ survivors \subseteq Directories
    /\ snapshot \in [Procs -> Pairs \cup {NoSnapshot}]
    /\ owner \in Procs \cup {NoOwner}
    /\ pc \in Locations
    /\ ret \in {"idle", "read", "compare", "check", "release"}
    /\ call \in Calls
    /\ outcome \in {"ok", "error"}
    /\ failures \in Nat

Init ==
    /\ disk \in {d \in Directories :
                    /\ d.modelOrig = Absent /\ d.bindingOrig = Absent
                    /\ d.marker = NoMarker
                    /\ d.model # Absent
                    /\ Consistent(<<d.model, d.binding>>)}
    /\ survivors = {disk}
    /\ snapshot = [p \in Procs |-> NoSnapshot]
    /\ owner = NoOwner
    /\ pc = "idle"
    /\ ret = "idle"
    /\ call = NoCall
    /\ outcome = "ok"
    /\ failures = 0

NewBinding == Published(call)[2]

-----------------------------------------------------------------------------
(* Faulty variants of single actions below.  Each is what the code would   *)
(* do with one plausible mistake in it, and breaks one of the properties   *)
(* at the end; no specification uses them.                                 *)

\* The recovery files go before the marker says that they may.
RestoreSyncUnmarked == At("restoreSync") /\ Sync /\ Goto("cleanModel")

\* The documents are replaced with no marker on the disk.
PendingMarkSkipped == At("pendingMark") /\ Untouched /\ Goto("pendingSync")

\* Success is reported before the directory is synced.
CommitSyncDeferred == At("commitSync") /\ Untouched /\ Goto("release")

\* The digests are not compared with the snapshot's.
CompareBlind ==
    /\ At("compare")
    /\ Untouched
    /\ IF call.target \notin Compatible
       THEN Raise
       ELSE pc' = "origModel" /\ ret' = "release" /\ UNCHANGED <<call, outcome>>

\* A failed save is marked committed instead of being restored.
RollbackMarkOnly ==
    /\ At("rollbackMark")
    /\ Put("marker", Marker("pending", disk.marker.existed))
    /\ Goto("finishMark")

-----------------------------------------------------------------------------
(* The entry points: take both locks, then recover.                        *)

Begin(p, kind, expected, target, continue) ==
    /\ owner = NoOwner
    /\ owner' = p
    /\ pc' = "recover"
    /\ ret' = continue
    /\ call' = [kind |-> kind, expected |-> expected, target |-> target]
    /\ outcome' = "ok"
    /\ UNCHANGED <<disk, survivors, snapshot, failures>>

BeginLoad(p) == Begin(p, "load", NoFiles, NoFiles, "read")

\* The caller may ask for bindings that do not fit: validation refuses them.
BeginSave(p) ==
    \E updated \in Stacks \X Bindings :
        /\ snapshot[p] # NoSnapshot
        /\ Begin(p, "save", snapshot[p], updated, "compare")

\* The installer's rollback; its target is NoFiles when the installation had
\* created both files.
BeginRestore(p) ==
    \E rollback \in Rollbacks :
        Begin(p, "restore", rollback[1], rollback[2], "check")

-----------------------------------------------------------------------------
(* _recover_transaction, _restore_originals, _finish_recovery,             *)
(* _cleanup_after_commit.                                                  *)

Recover ==
    /\ At("recover")
    /\ Untouched
    /\ LET leftovers == disk.modelOrig # Absent \/ disk.bindingOrig # Absent
       IN CASE disk.marker.state = "pending" -> Goto("restoreModel")
            [] disk.marker.state = "committed" -> Goto("cleanModel")
            [] disk.marker.state = "none" /\ leftovers -> Goto("cleanModel")
            [] OTHER -> Goto(ret)

RestoreModel ==
    /\ At("restoreModel")
    /\ IF \/ disk.modelOrig = Absent
          \/ disk.marker.existed /\ disk.bindingOrig = Absent
       THEN Untouched /\ Raise
       ELSE Put("model", disk.modelOrig) /\ Goto("restoreBinding")

RestoreBinding ==
    /\ At("restoreBinding")
    /\ Put("binding", IF disk.marker.existed THEN disk.bindingOrig ELSE Absent)
    /\ Goto("restoreSync")

RestoreSync == At("restoreSync") /\ Sync /\ Goto("finishMark")

FinishMark ==
    /\ At("finishMark")
    /\ Put("marker", Marker("committed", disk.marker.existed))
    /\ Goto("finishSync")

FinishSync == At("finishSync") /\ Sync /\ Goto("cleanModel")

CleanModel ==
    /\ At("cleanModel")
    /\ Put("modelOrig", Absent)
    /\ Goto("cleanBinding")

CleanBinding ==
    /\ At("cleanBinding")
    /\ Put("bindingOrig", Absent)
    /\ Goto("cleanMarker")

CleanMarker == At("cleanMarker") /\ Put("marker", NoMarker) /\ Goto("cleanSync")

CleanSync == At("cleanSync") /\ Sync /\ Goto(ret)

-----------------------------------------------------------------------------
(* load_stack_snapshot                                                     *)

Read ==
    /\ pc = "read"
    /\ IF disk.model = Absent
       THEN Raise /\ UNCHANGED snapshot
       ELSE /\ snapshot' = [snapshot EXCEPT
                                ![owner] = <<disk.model, disk.binding>>]
            /\ Goto("release")
    /\ UNCHANGED <<disk, survivors, owner, failures>>

-----------------------------------------------------------------------------
(* _save_stack_at                                                          *)


Compare ==
    /\ At("compare")
    /\ Untouched
    /\ IF \/ <<disk.model, disk.binding>> # call.expected
          \/ call.target \notin Compatible
       THEN Raise
       ELSE pc' = "origModel" /\ ret' = "release" /\ UNCHANGED <<call, outcome>>

OrigModel ==
    At("origModel") /\ Put("modelOrig", disk.model) /\ Goto("origBinding")

OrigBinding ==
    At("origBinding") /\ Put("bindingOrig", disk.binding) /\ Goto("origSync")

OrigSync == At("origSync") /\ Sync /\ Goto("pendingMark")

PendingMark ==
    /\ At("pendingMark")
    /\ Put("marker", Marker("pending", disk.binding # Absent))
    /\ Goto("pendingSync")

PendingSync == At("pendingSync") /\ Sync /\ Goto("pubBinding")

PubBinding ==
    /\ At("pubBinding")
    /\ IF NewBinding = Absent THEN Untouched ELSE Put("binding", NewBinding)
    /\ Goto("pubModel")

PubModel == At("pubModel") /\ Put("model", call.target[1]) /\ Goto("pubSync")

PubSync == At("pubSync") /\ Sync /\ Goto("commitMark")

CommitMark ==
    /\ At("commitMark")
    /\ Put("marker", Marker("committed", disk.marker.existed))
    /\ Goto("commitSync")

CommitSync == At("commitSync") /\ Sync /\ Goto("cleanModel")

-----------------------------------------------------------------------------
(* restore_stack_files                                                     *)

Check ==
    /\ At("check")
    /\ Untouched
    /\ IF <<disk.model, disk.binding>> # call.expected
       THEN Raise
       ELSE /\ pc' = IF call.target[1] = Absent
                     THEN "dropBinding" ELSE "instModel"
            /\ ret' = "release"
            /\ UNCHANGED <<call, outcome>>

DropBinding == At("dropBinding") /\ Put("binding", Absent) /\ Goto("dropModel")
DropModel == At("dropModel") /\ Put("model", Absent) /\ Goto("dropSync")
DropSync == At("dropSync") /\ Sync /\ Goto("release")

InstModel ==
    /\ At("instModel")
    /\ Put("modelOrig", call.target[1])
    /\ Goto("instBinding")

InstBinding ==
    /\ At("instBinding")
    /\ Put("bindingOrig", call.target[2])
    /\ Goto("instMark")

InstMark ==
    /\ At("instMark")
    /\ Put("marker", Marker("pending", call.target[2] # Absent))
    /\ Goto("instSync")

\* The journal now holds the target as if it were the original: recovery
\* installs it.
InstSync == At("instSync") /\ Sync /\ Goto("recover")

-----------------------------------------------------------------------------
Release ==
    /\ pc = "release"
    /\ owner' = NoOwner
    /\ pc' = "idle"
    /\ ret' = "idle"
    /\ call' = NoCall
    /\ outcome' = "ok"
    /\ UNCHANGED <<disk, survivors, snapshot, failures>>

Recovery ==
    \/ Recover \/ RestoreModel \/ RestoreBinding \/ RestoreSync
    \/ FinishMark \/ FinishSync
    \/ CleanModel \/ CleanBinding \/ CleanMarker \/ CleanSync

SaveStep ==
    \/ Compare \/ OrigModel \/ OrigBinding \/ OrigSync
    \/ PendingMark \/ PendingSync \/ PubBinding \/ PubModel \/ PubSync
    \/ CommitMark \/ CommitSync

RestoreStep ==
    \/ Check \/ DropBinding \/ DropModel \/ DropSync
    \/ InstModel \/ InstBinding \/ InstMark \/ InstSync

Step ==
    \/ \E p \in Procs : BeginLoad(p) \/ BeginSave(p) \/ BeginRestore(p)
    \/ Recovery \/ Read \/ SaveStep \/ RestoreStep \/ Release

-----------------------------------------------------------------------------
(* Crashes.  A killed process loses its memory and the kernel drops its    *)
(* locks; a power loss kills them all and leaves one of the survivors.     *)

DropLocks ==
    /\ owner' = NoOwner
    /\ pc' = "idle"
    /\ ret' = "idle"
    /\ call' = NoCall
    /\ outcome' = "ok"

Crash(p) ==
    /\ snapshot' = [snapshot EXCEPT ![p] = NoSnapshot]
    /\ IF owner = p THEN DropLocks ELSE UNCHANGED <<owner, pc, locals>>
    /\ UNCHANGED <<disk, survivors, failures>>

PowerLoss ==
    /\ disk' \in survivors
    /\ survivors' = {disk'}
    /\ snapshot' = [p \in Procs |-> NoSnapshot]
    /\ DropLocks
    /\ UNCHANGED failures

-----------------------------------------------------------------------------
(* I/O errors and interrupts.  A step fails before it changes anything;    *)
(* an error raised just after a change is the next step failing.           *)

FailAt(locations) ==
    /\ failures < MaxFailures
    /\ pc \in locations
    /\ failures' = failures + 1
    /\ UNCHANGED <<disk, survivors, snapshot, owner>>

\* The error leaves the call: nothing was begun, or the journal is in place
\* and the next call recovers.
FailOutright ==
    /\ FailAt({"recover", "restoreModel", "restoreBinding", "restoreSync",
               "finishMark", "finishSync", "read", "compare", "check",
               "dropBinding", "dropModel", "dropSync", "instModel",
               "instBinding", "instMark", "instSync"})
    /\ Raise

\* _cleanup_after_commit swallows whatever goes wrong.
FailCleanup ==
    /\ FailAt({"cleanModel", "cleanBinding", "cleanMarker", "cleanSync"})
    /\ Goto(ret)

\* recovery_ready is still false: the handler removes the recovery files.
FailUnready ==
    /\ FailAt({"origModel", "origBinding", "origSync",
               "pendingMark", "pendingSync"})
    /\ pc' = "cleanModel"
    /\ outcome' = "error"
    /\ UNCHANGED <<ret, call>>

\* Faulty variant: recovery_ready is never set.
FailReadyForgotten ==
    /\ FailAt({"pubBinding", "pubModel", "pubSync", "commitMark", "commitSync"})
    /\ pc' = "cleanModel"
    /\ outcome' = "error"
    /\ UNCHANGED <<ret, call>>

\* recovery_ready is true: the handler rolls the transaction back.
FailReady ==
    /\ FailAt({"pubBinding", "pubModel", "pubSync", "commitMark", "commitSync"})
    /\ pc' = "rollbackMark"
    /\ outcome' = "error"
    /\ UNCHANGED <<ret, call>>

\* _rollback_transaction writes the pending marker again; when that fails it
\* remembers the error and restores the originals all the same.
RollbackMark ==
    /\ At("rollbackMark")
    /\ Put("marker", Marker("pending", disk.marker.existed))
    /\ Goto("restoreModel")

FailRollbackMark == FailAt({"rollbackMark"}) /\ Goto("restoreModel")

Fault ==
    \/ FailOutright \/ FailCleanup \/ FailUnready \/ FailReady
    \/ RollbackMark \/ FailRollbackMark

-----------------------------------------------------------------------------
Next == Step \/ (\E p \in Procs : Crash(p)) \/ PowerLoss
Spec == Init /\ [][Next]_vars

\* Failing calls instead of crashes, and both together.
FaultSpec == Init /\ [][Step \/ Fault]_vars
CrashFaultSpec == Init /\ [][Next \/ Fault]_vars

-----------------------------------------------------------------------------
(* What the store guarantees.                                              *)

\* Whatever moment the power fails at, recovery finds the copies it needs:
\* the journal never loses a recovery file before its marker.
NoWedge == \A d \in survivors \cup {disk} : ~Wedged(d)

\* Whatever moment the power fails at, the two documents a loader gets after
\* it fit together: never the stacks of one save with the bindings of another.
NoTornPair == \A d \in survivors \cup {disk} : Consistent(Logical(d))

\* save_stack returns only when the pair it published survives a power loss,
\* and raises only when the pair it found is still the one there.
SaveIsTruthful ==
    pc = "release" /\ call.kind = "save" =>
        \A d \in survivors :
            /\ outcome = "ok" => Logical(d) = Published(call)
            /\ outcome = "error" /\ ret = "release" => Logical(d) = call.expected

\* The same promise towards the other processes, which I/O errors and
\* interrupts in the middle of the save and of its rollback do not break:
\* at worst the store shows nothing at all (Wedged), never the new pair.  It
\* takes three of them to break it: of the sync after the committed marker, of
\* the rollback's own marker, and of the rollback.
FailedSaveIsUndone ==
    pc = "release" /\ call.kind = "save" /\ ~Wedged(disk) =>
        /\ outcome = "ok" => Logical(disk) = Published(call)
        /\ outcome = "error" /\ ret = "release" =>
              \/ Logical(disk) = call.expected
              \/ failures >= 3 /\ disk.marker.state = "committed"

\* One failing call, wherever it strikes, leaves a store the next caller can
\* recover, with documents that fit together.
OneFailureRecovers ==
    failures <= 1 /\ owner = NoOwner =>
        ~Wedged(disk) /\ Consistent(Logical(disk))

\* The store implements the compare-and-swap register.
Abstract == INSTANCE AbstractStackStore WITH
    current <- Logical(disk),
    survivors <- {Logical(d) : d \in survivors}

ImplementsRegister == Abstract!Spec
=============================================================================
