-------------------------- MODULE StackStoreProofs --------------------------
(***************************************************************************)
(* Proofs about StackStore.                                                *)
(*                                                                         *)
(* Under Spec (processes may be killed and the power may fail at any step, *)
(* no system call fails) and with directory changes persisted in order:    *)
(*   - the variables keep their types;                                     *)
(*   - no power loss leaves a pending marker without its recovery files,   *)
(*     nor documents that do not fit together;                             *)
(*   - every step implements a step of the compare-and-swap register;      *)
(*   - a save that returns has published for good.                         *)
(* None of them is inductive.  What makes them so is Journal: at each      *)
(* location of the owner, which entries of the directory agree with which, *)
(* so that a write either leaves what a loader would be given alone or is  *)
(* the one write that publishes a pair.                                    *)
(*                                                                         *)
(* Under FaultSpec (any call may fail, nothing crashes), whatever order    *)
(* the changes persist in:                                                 *)
(*   - a save that reports an error is undone, unless three calls fail;    *)
(*   - one failing call leaves a store that the next caller can recover.   *)
(* FaultJournal is Journal with what failures may have made of the marker, *)
(* and Undo says what a save that failed is on its way to report.          *)
(***************************************************************************)
EXTENDS StackStore, TLAPS

SafeDirectory(d) == ~Wedged(d) /\ Consistent(Logical(d))

Survivable ==
    /\ disk \in survivors
    /\ \A d \in survivors : SafeDirectory(d)

OwnerInv == owner = NoOwner <=> pc = "idle"

RecoveryLocations ==
    {"recover", "restoreModel", "restoreBinding", "restoreSync", "finishMark",
     "finishSync", "cleanModel", "cleanBinding", "cleanMarker", "cleanSync"}
SaveLocations ==
    {"origModel", "origBinding", "origSync", "pendingMark", "pendingSync",
     "pubBinding", "pubModel", "pubSync", "commitMark", "commitSync"}
DropLocations == {"dropBinding", "dropModel", "dropSync"}
InstallLocations == {"instModel", "instBinding", "instMark", "instSync"}

\* Which call the owner is in, where recovery returns to, what was compared.
CallInv ==
    /\ \A p \in Procs : snapshot[p] = NoSnapshot \/ snapshot[p][1] # Absent
    /\ call.kind = "save" => call.expected[1] # Absent
    /\ call.kind = "restore" => Consistent(call.target)
    /\ pc = "read" => call.kind = "load"
    /\ pc = "compare" => call.kind = "save"
    /\ pc = "check" => call.kind = "restore"
    /\ pc \in SaveLocations =>
        /\ call.kind = "save"
        /\ call.target \in Compatible
        /\ ret = "release"
    /\ pc \in DropLocations => call.kind = "restore" /\ call.target = NoFiles
    /\ pc \in InstallLocations =>
        /\ call.kind = "restore"
        /\ call.target # NoFiles
        /\ ret = "release"
    /\ pc \in RecoveryLocations =>
        \/ ret = "read" /\ call.kind = "load"
        \/ ret = "compare" /\ call.kind = "save"
        \/ ret = "check" /\ call.kind = "restore"
        \/ ret = "release"

\* No pending marker: a loader is given the documents themselves.
Direct == disk.marker.state # "pending"
Found == <<disk.model, disk.binding>> = call.expected
Journalled ==
    /\ disk.marker.state = "pending"
    /\ disk.modelOrig = call.expected[1]
    /\ disk.marker.existed = (call.expected[2] # Absent)
    /\ disk.marker.existed => disk.bindingOrig = call.expected[2]

Journal ==
    /\ pc \in {"restoreModel", "restoreBinding", "restoreSync", "finishMark"} =>
        disk.marker.state = "pending"
    /\ pc \in {"restoreBinding", "restoreSync", "finishMark"} =>
        disk.model = disk.modelOrig
    /\ pc \in {"restoreSync", "finishMark"} =>
        disk.binding =
            IF disk.marker.existed THEN disk.bindingOrig ELSE Absent
    /\ pc \in {"finishSync", "cleanModel", "cleanBinding", "cleanMarker",
               "cleanSync", "read", "compare", "check", "commitSync"}
            \cup DropLocations => Direct
    /\ pc \in {"origModel", "origBinding", "origSync", "pendingMark",
               "instModel", "instBinding", "instMark", "dropBinding"} =>
        Direct /\ Found
    /\ pc \in {"origBinding", "origSync", "pendingMark"} =>
        disk.modelOrig = disk.model
    /\ pc \in {"origSync", "pendingMark"} => disk.bindingOrig = disk.binding
    /\ pc \in {"pendingSync", "pubBinding", "pubModel", "pubSync",
               "commitMark"} => Journalled
    /\ pc \in {"pendingSync", "pubBinding"} => disk.binding = call.expected[2]
    /\ pc \in {"pubModel", "pubSync", "commitMark"} =>
        disk.binding = Published(call)[2]
    /\ pc \in {"pubSync", "commitMark"} => disk.model = call.target[1]
    /\ pc \in {"instBinding", "instMark"} => disk.modelOrig = call.target[1]
    /\ pc = "instMark" => disk.bindingOrig = call.target[2]
    /\ pc = "dropModel" =>
        <<disk.model, disk.binding>> = <<call.expected[1], Absent>>

IInv == TypeOK /\ Survivable /\ OwnerInv /\ CallInv /\ Journal

-----------------------------------------------------------------------------
(* What a write changes and what it leaves alone.                          *)

\* Replacing or removing model changes that entry only.
LEMMA PutModel ==
    ASSUME TypeOK, NEW v \in Stacks \cup {Absent},
           Put("model", v)
    PROVE  /\ disk' \in Directories /\ survivors' \subseteq Directories
           /\ disk'.model = v
           /\ disk'.binding = disk.binding
           /\ disk'.modelOrig = disk.modelOrig
           /\ disk'.bindingOrig = disk.bindingOrig
           /\ disk'.marker = disk.marker
  BY DEF TypeOK, Put, Directories

\* Replacing or removing binding changes that entry only.
LEMMA PutBinding ==
    ASSUME TypeOK, NEW v \in Bindings \cup {Absent},
           Put("binding", v)
    PROVE  /\ disk' \in Directories /\ survivors' \subseteq Directories
           /\ disk'.binding = v
           /\ disk'.model = disk.model
           /\ disk'.modelOrig = disk.modelOrig
           /\ disk'.bindingOrig = disk.bindingOrig
           /\ disk'.marker = disk.marker
  BY DEF TypeOK, Put, Directories

\* Replacing or removing modelOrig changes that entry only.
LEMMA PutModelOrig ==
    ASSUME TypeOK, NEW v \in Stacks \cup {Absent},
           Put("modelOrig", v)
    PROVE  /\ disk' \in Directories /\ survivors' \subseteq Directories
           /\ disk'.modelOrig = v
           /\ disk'.model = disk.model
           /\ disk'.binding = disk.binding
           /\ disk'.bindingOrig = disk.bindingOrig
           /\ disk'.marker = disk.marker
  BY DEF TypeOK, Put, Directories

\* Replacing or removing bindingOrig changes that entry only.
LEMMA PutBindingOrig ==
    ASSUME TypeOK, NEW v \in Bindings \cup {Absent},
           Put("bindingOrig", v)
    PROVE  /\ disk' \in Directories /\ survivors' \subseteq Directories
           /\ disk'.bindingOrig = v
           /\ disk'.model = disk.model
           /\ disk'.binding = disk.binding
           /\ disk'.modelOrig = disk.modelOrig
           /\ disk'.marker = disk.marker
  BY DEF TypeOK, Put, Directories

\* Replacing or removing marker changes that entry only.
LEMMA PutMarker ==
    ASSUME TypeOK,
           NEW v \in [state : {"none", "pending", "committed"},
                      existed : BOOLEAN],
           Put("marker", v)
    PROVE  /\ disk' \in Directories /\ survivors' \subseteq Directories
           /\ disk'.marker = v
           /\ disk'.model = disk.model
           /\ disk'.binding = disk.binding
           /\ disk'.modelOrig = disk.modelOrig
           /\ disk'.bindingOrig = disk.bindingOrig
  BY DEF TypeOK, Put, Directories

\* When changes persist in order, a write adds one directory to those a
\* power loss may leave.
LEMMA PutSurvivors ==
    ASSUME TypeOK, Survivable, OrderedMetadata, NEW e, NEW v, Put(e, v),
           disk' \in Directories, SafeDirectory(disk)'
    PROVE  /\ survivors' = survivors \cup {disk'}
           /\ survivors' \subseteq Directories
           /\ Survivable'
  BY DEF TypeOK, Put, Survivable, SafeDirectory, Wedged, Logical

LEMMA SyncSurvivors ==
    ASSUME TypeOK, Survivable, Sync
    PROVE  /\ disk' = disk
           /\ survivors' = {disk}
           /\ survivors' \subseteq Directories
           /\ Survivable'
  BY DEF TypeOK, Sync, Survivable, SafeDirectory, Wedged, Logical

-----------------------------------------------------------------------------
(* Recovery and cleanup.                                                   *)

LEMMA TypeConsequences ==
    ASSUME TypeOK
    PROVE  /\ disk.model \in Stacks \cup {Absent}
           /\ disk.binding \in Bindings \cup {Absent}
           /\ disk.modelOrig \in Stacks \cup {Absent}
           /\ disk.bindingOrig \in Bindings \cup {Absent}
           /\ disk.marker.state \in {"none", "pending", "committed"}
           /\ disk.marker.existed \in BOOLEAN
           /\ call.target[1] \in Stacks \cup {Absent}
           /\ call.target[2] \in Bindings \cup {Absent}
  BY DEF TypeOK, Directories, Calls, Pairs

\* A pending marker always finds its recovery files.
LEMMA SafeDisk ==
    ASSUME Survivable
    PROVE  /\ SafeDirectory(disk)
           /\ disk.marker.state = "pending" =>
                /\ disk.modelOrig # Absent
                /\ disk.marker.existed => disk.bindingOrig # Absent
  BY DEF Survivable, SafeDirectory, Wedged

\* The stacks and the bindings a call asks for, taken apart.
LEMMA CallPairs ==
    ASSUME TypeOK
    PROVE  /\ call.target = <<call.target[1], call.target[2]>>
           /\ call.expected = <<call.expected[1], call.expected[2]>>
           /\ call.target \in Compatible =>
                call.target[1] \in Stacks /\ call.target[2] \in Bindings
           /\ Absent \notin Stacks /\ Absent \notin Bindings
  BY ContentAssumption, BindingAssumption DEF TypeOK, Calls, Pairs

LEMMA MarkerFields ==
    ASSUME NEW state, NEW existed \in BOOLEAN
    PROVE  /\ Marker(state, existed).state = state
           /\ Marker(state, existed).existed <=> existed
  BY DEF Marker

LEMMA RestoreModelStep == ASSUME OrderedMetadata, IInv, RestoreModel PROVE IInv'
  <1>. USE DEF IInv
  <1>1. /\ Put("model", disk.modelOrig)
        /\ pc = "restoreModel" /\ disk.marker.state = "pending"
        /\ pc' = "restoreBinding"
        /\ UNCHANGED <<owner, snapshot, failures, ret, call, outcome>>
    BY SafeDisk, TypeConsequences DEF RestoreModel, At, Goto, locals, Journal,
       Marker
  <1>2. /\ disk' \in Directories
        /\ disk'.model = disk.modelOrig
        /\ disk'.binding = disk.binding
        /\ disk'.modelOrig = disk.modelOrig
        /\ disk'.bindingOrig = disk.bindingOrig
        /\ disk'.marker = disk.marker
    BY <1>1, PutModel, TypeConsequences DEF Marker, NoMarker
  <1>3. SafeDirectory(disk)'
    BY <1>1, <1>2, SafeDisk, TypeConsequences
    DEF SafeDirectory, Wedged, Logical, Consistent, Journal, Direct, Found,
        Journalled, Marker, NoMarker, CallInv, NoFiles
  <1>4. survivors' \subseteq Directories /\ Survivable'
    BY <1>1, <1>2, <1>3, PutSurvivors
  <1>5. TypeOK'
    BY <1>1, <1>2, <1>4 DEF TypeOK, Locations
  <1>6. OwnerInv' /\ CallInv' /\ Journal'
    BY <1>1, <1>2, SafeDisk, TypeConsequences
    DEF OwnerInv, CallInv, Journal, RecoveryLocations, SaveLocations,
        DropLocations, InstallLocations, Direct, Found, Journalled, Marker,
        NoMarker
  <1>. QED BY <1>4, <1>5, <1>6

LEMMA RestoreBindingStep ==
    ASSUME OrderedMetadata, IInv, RestoreBinding PROVE IInv'
  <1>. USE DEF IInv
  <1>1. /\ Put("binding",
               IF disk.marker.existed THEN disk.bindingOrig ELSE Absent)
        /\ pc = "restoreBinding" /\ disk.marker.state = "pending"
        /\ pc' = "restoreSync"
        /\ UNCHANGED <<owner, snapshot, failures, ret, call, outcome>>
    BY SafeDisk, TypeConsequences DEF RestoreBinding, At, Goto, locals, Journal,
       Marker
  <1>2. /\ disk' \in Directories
        /\ disk'.binding =
               (IF disk.marker.existed THEN disk.bindingOrig ELSE Absent)
        /\ disk'.model = disk.model
        /\ disk'.modelOrig = disk.modelOrig
        /\ disk'.bindingOrig = disk.bindingOrig
        /\ disk'.marker = disk.marker
    BY <1>1, PutBinding, TypeConsequences DEF Marker, NoMarker
  <1>3. SafeDirectory(disk)'
    BY <1>1, <1>2, SafeDisk, TypeConsequences
    DEF SafeDirectory, Wedged, Logical, Consistent, Journal, Direct, Found,
        Journalled, Marker, NoMarker, CallInv, NoFiles
  <1>4. survivors' \subseteq Directories /\ Survivable'
    BY <1>1, <1>2, <1>3, PutSurvivors
  <1>5. TypeOK'
    BY <1>1, <1>2, <1>4 DEF TypeOK, Locations
  <1>6. OwnerInv' /\ CallInv' /\ Journal'
    BY <1>1, <1>2, SafeDisk, TypeConsequences
    DEF OwnerInv, CallInv, Journal, RecoveryLocations, SaveLocations,
        DropLocations, InstallLocations, Direct, Found, Journalled, Marker,
        NoMarker
  <1>. QED BY <1>4, <1>5, <1>6

LEMMA RestoreSyncStep == ASSUME IInv, RestoreSync PROVE IInv'
  <1>. USE DEF IInv
  <1>1. /\ Sync
        /\ pc = "restoreSync"
        /\ pc' = "finishMark"
        /\ UNCHANGED <<owner, snapshot, failures, ret, call, outcome>>
    BY DEF RestoreSync, At, Goto, locals
  <1>2. /\ disk' = disk
        /\ survivors' \subseteq Directories
        /\ Survivable'
    BY <1>1, SyncSurvivors
  <1>3. TypeOK'
    BY <1>1, <1>2 DEF TypeOK, Locations, CallInv, RecoveryLocations
  <1>4. OwnerInv' /\ CallInv' /\ Journal'
    BY <1>1, <1>2
    DEF OwnerInv, CallInv, Journal, RecoveryLocations, SaveLocations,
        DropLocations, InstallLocations, Direct, Found, Journalled
  <1>. QED BY <1>2, <1>3, <1>4

LEMMA FinishMarkStep == ASSUME OrderedMetadata, IInv, FinishMark PROVE IInv'
  <1>. USE DEF IInv
  <1>1. /\ Put("marker", Marker("committed", disk.marker.existed))
        /\ pc = "finishMark" /\ disk.marker.state = "pending"
        /\ pc' = "finishSync"
        /\ UNCHANGED <<owner, snapshot, failures, ret, call, outcome>>
    BY SafeDisk, TypeConsequences
    DEF FinishMark, At, Goto, locals, Journal, Marker
  <1>2. /\ disk' \in Directories
        /\ disk'.marker = Marker("committed", disk.marker.existed)
        /\ disk'.model = disk.model
        /\ disk'.binding = disk.binding
        /\ disk'.modelOrig = disk.modelOrig
        /\ disk'.bindingOrig = disk.bindingOrig
    BY <1>1, PutMarker, TypeConsequences DEF Marker, NoMarker
  <1>3. SafeDirectory(disk)'
    BY <1>1, <1>2, SafeDisk, TypeConsequences
    DEF SafeDirectory, Wedged, Logical, Consistent, Journal, Direct, Found,
        Journalled, Marker, NoMarker, CallInv, NoFiles
  <1>4. survivors' \subseteq Directories /\ Survivable'
    BY <1>1, <1>2, <1>3, PutSurvivors
  <1>5. TypeOK'
    BY <1>1, <1>2, <1>4 DEF TypeOK, Locations
  <1>6. OwnerInv' /\ CallInv' /\ Journal'
    BY <1>1, <1>2, SafeDisk, TypeConsequences
    DEF OwnerInv, CallInv, Journal, RecoveryLocations, SaveLocations,
        DropLocations, InstallLocations, Direct, Found, Journalled, Marker,
        NoMarker
  <1>. QED BY <1>4, <1>5, <1>6

LEMMA FinishSyncStep == ASSUME IInv, FinishSync PROVE IInv'
  <1>. USE DEF IInv
  <1>1. /\ Sync
        /\ pc = "finishSync"
        /\ pc' = "cleanModel"
        /\ UNCHANGED <<owner, snapshot, failures, ret, call, outcome>>
    BY DEF FinishSync, At, Goto, locals
  <1>2. /\ disk' = disk
        /\ survivors' \subseteq Directories
        /\ Survivable'
    BY <1>1, SyncSurvivors
  <1>3. TypeOK'
    BY <1>1, <1>2 DEF TypeOK, Locations, CallInv, RecoveryLocations
  <1>4. OwnerInv' /\ CallInv' /\ Journal'
    BY <1>1, <1>2
    DEF OwnerInv, CallInv, Journal, RecoveryLocations, SaveLocations,
        DropLocations, InstallLocations, Direct, Found, Journalled
  <1>. QED BY <1>2, <1>3, <1>4

LEMMA CleanModelStep == ASSUME OrderedMetadata, IInv, CleanModel PROVE IInv'
  <1>. USE DEF IInv
  <1>1. /\ Put("modelOrig", Absent)
        /\ pc = "cleanModel"
        /\ pc' = "cleanBinding"
        /\ UNCHANGED <<owner, snapshot, failures, ret, call, outcome>>
    BY SafeDisk, TypeConsequences
    DEF CleanModel, At, Goto, locals, Journal, Marker
  <1>2. /\ disk' \in Directories
        /\ disk'.modelOrig = Absent
        /\ disk'.model = disk.model
        /\ disk'.binding = disk.binding
        /\ disk'.bindingOrig = disk.bindingOrig
        /\ disk'.marker = disk.marker
    BY <1>1, PutModelOrig, TypeConsequences DEF Marker, NoMarker
  <1>3. SafeDirectory(disk)'
    BY <1>1, <1>2, SafeDisk, TypeConsequences
    DEF SafeDirectory, Wedged, Logical, Consistent, Journal, Direct, Found,
        Journalled, Marker, NoMarker, CallInv, NoFiles
  <1>4. survivors' \subseteq Directories /\ Survivable'
    BY <1>1, <1>2, <1>3, PutSurvivors
  <1>5. TypeOK'
    BY <1>1, <1>2, <1>4 DEF TypeOK, Locations
  <1>6. OwnerInv' /\ CallInv' /\ Journal'
    BY <1>1, <1>2, SafeDisk, TypeConsequences
    DEF OwnerInv, CallInv, Journal, RecoveryLocations, SaveLocations,
        DropLocations, InstallLocations, Direct, Found, Journalled, Marker,
        NoMarker
  <1>. QED BY <1>4, <1>5, <1>6

LEMMA CleanBindingStep == ASSUME OrderedMetadata, IInv, CleanBinding PROVE IInv'
  <1>. USE DEF IInv
  <1>1. /\ Put("bindingOrig", Absent)
        /\ pc = "cleanBinding"
        /\ pc' = "cleanMarker"
        /\ UNCHANGED <<owner, snapshot, failures, ret, call, outcome>>
    BY SafeDisk, TypeConsequences DEF CleanBinding, At, Goto, locals, Journal,
       Marker
  <1>2. /\ disk' \in Directories
        /\ disk'.bindingOrig = Absent
        /\ disk'.model = disk.model
        /\ disk'.binding = disk.binding
        /\ disk'.modelOrig = disk.modelOrig
        /\ disk'.marker = disk.marker
    BY <1>1, PutBindingOrig, TypeConsequences DEF Marker, NoMarker
  <1>3. SafeDirectory(disk)'
    BY <1>1, <1>2, SafeDisk, TypeConsequences
    DEF SafeDirectory, Wedged, Logical, Consistent, Journal, Direct, Found,
        Journalled, Marker, NoMarker, CallInv, NoFiles
  <1>4. survivors' \subseteq Directories /\ Survivable'
    BY <1>1, <1>2, <1>3, PutSurvivors
  <1>5. TypeOK'
    BY <1>1, <1>2, <1>4 DEF TypeOK, Locations
  <1>6. OwnerInv' /\ CallInv' /\ Journal'
    BY <1>1, <1>2, SafeDisk, TypeConsequences
    DEF OwnerInv, CallInv, Journal, RecoveryLocations, SaveLocations,
        DropLocations, InstallLocations, Direct, Found, Journalled, Marker,
        NoMarker
  <1>. QED BY <1>4, <1>5, <1>6

LEMMA CleanMarkerStep == ASSUME OrderedMetadata, IInv, CleanMarker PROVE IInv'
  <1>. USE DEF IInv
  <1>1. /\ Put("marker", NoMarker)
        /\ pc = "cleanMarker"
        /\ pc' = "cleanSync"
        /\ UNCHANGED <<owner, snapshot, failures, ret, call, outcome>>
    BY SafeDisk, TypeConsequences
    DEF CleanMarker, At, Goto, locals, Journal, Marker
  <1>2. /\ disk' \in Directories
        /\ disk'.marker = NoMarker
        /\ disk'.model = disk.model
        /\ disk'.binding = disk.binding
        /\ disk'.modelOrig = disk.modelOrig
        /\ disk'.bindingOrig = disk.bindingOrig
    BY <1>1, PutMarker, TypeConsequences DEF Marker, NoMarker
  <1>3. SafeDirectory(disk)'
    BY <1>1, <1>2, SafeDisk, TypeConsequences
    DEF SafeDirectory, Wedged, Logical, Consistent, Journal, Direct, Found,
        Journalled, Marker, NoMarker, CallInv, NoFiles
  <1>4. survivors' \subseteq Directories /\ Survivable'
    BY <1>1, <1>2, <1>3, PutSurvivors
  <1>5. TypeOK'
    BY <1>1, <1>2, <1>4 DEF TypeOK, Locations
  <1>6. OwnerInv' /\ CallInv' /\ Journal'
    BY <1>1, <1>2, SafeDisk, TypeConsequences
    DEF OwnerInv, CallInv, Journal, RecoveryLocations, SaveLocations,
        DropLocations, InstallLocations, Direct, Found, Journalled, Marker,
        NoMarker
  <1>. QED BY <1>4, <1>5, <1>6

LEMMA CleanSyncStep == ASSUME IInv, CleanSync PROVE IInv'
  <1>. USE DEF IInv
  <1>1. /\ Sync
        /\ pc = "cleanSync"
        /\ pc' = ret
        /\ UNCHANGED <<owner, snapshot, failures, ret, call, outcome>>
    BY DEF CleanSync, At, Goto, locals
  <1>2. /\ disk' = disk
        /\ survivors' \subseteq Directories
        /\ Survivable'
    BY <1>1, SyncSurvivors
  <1>3. TypeOK'
    BY <1>1, <1>2 DEF TypeOK, Locations, CallInv, RecoveryLocations
  <1>4. OwnerInv' /\ CallInv' /\ Journal'
    BY <1>1, <1>2
    DEF OwnerInv, CallInv, Journal, RecoveryLocations, SaveLocations,
        DropLocations, InstallLocations, Direct, Found, Journalled
  <1>. QED BY <1>2, <1>3, <1>4

-----------------------------------------------------------------------------
(* save_stack.                                                             *)

LEMMA OrigModelStep == ASSUME OrderedMetadata, IInv, OrigModel PROVE IInv'
  <1>. USE DEF IInv
  <1>1. /\ Put("modelOrig", disk.model)
        /\ pc = "origModel"
        /\ pc' = "origBinding"
        /\ UNCHANGED <<owner, snapshot, failures, ret, call, outcome>>
    BY SafeDisk, TypeConsequences
    DEF OrigModel, At, Goto, locals, Journal, Marker
  <1>2. /\ disk' \in Directories
        /\ disk'.modelOrig = disk.model
        /\ disk'.model = disk.model
        /\ disk'.binding = disk.binding
        /\ disk'.bindingOrig = disk.bindingOrig
        /\ disk'.marker = disk.marker
    BY <1>1, PutModelOrig, TypeConsequences DEF Marker, NoMarker
  <1>3. SafeDirectory(disk)'
    BY <1>1, <1>2, SafeDisk, TypeConsequences
    DEF SafeDirectory, Wedged, Logical, Consistent, Journal, Direct, Found,
        Journalled, Marker, NoMarker, CallInv, NoFiles
  <1>4. survivors' \subseteq Directories /\ Survivable'
    BY <1>1, <1>2, <1>3, PutSurvivors
  <1>5. TypeOK'
    BY <1>1, <1>2, <1>4 DEF TypeOK, Locations
  <1>6. OwnerInv' /\ CallInv' /\ Journal'
    BY <1>1, <1>2, SafeDisk, TypeConsequences
    DEF OwnerInv, CallInv, Journal, RecoveryLocations, SaveLocations,
        DropLocations, InstallLocations, Direct, Found, Journalled, Marker,
        NoMarker
  <1>. QED BY <1>4, <1>5, <1>6

LEMMA OrigBindingStep == ASSUME OrderedMetadata, IInv, OrigBinding PROVE IInv'
  <1>. USE DEF IInv
  <1>1. /\ Put("bindingOrig", disk.binding)
        /\ pc = "origBinding"
        /\ pc' = "origSync"
        /\ UNCHANGED <<owner, snapshot, failures, ret, call, outcome>>
    BY SafeDisk, TypeConsequences
    DEF OrigBinding, At, Goto, locals, Journal, Marker
  <1>2. /\ disk' \in Directories
        /\ disk'.bindingOrig = disk.binding
        /\ disk'.model = disk.model
        /\ disk'.binding = disk.binding
        /\ disk'.modelOrig = disk.modelOrig
        /\ disk'.marker = disk.marker
    BY <1>1, PutBindingOrig, TypeConsequences DEF Marker, NoMarker
  <1>3. SafeDirectory(disk)'
    BY <1>1, <1>2, SafeDisk, TypeConsequences
    DEF SafeDirectory, Wedged, Logical, Consistent, Journal, Direct, Found,
        Journalled, Marker, NoMarker, CallInv, NoFiles
  <1>4. survivors' \subseteq Directories /\ Survivable'
    BY <1>1, <1>2, <1>3, PutSurvivors
  <1>5. TypeOK'
    BY <1>1, <1>2, <1>4 DEF TypeOK, Locations
  <1>6. OwnerInv' /\ CallInv' /\ Journal'
    BY <1>1, <1>2, SafeDisk, TypeConsequences
    DEF OwnerInv, CallInv, Journal, RecoveryLocations, SaveLocations,
        DropLocations, InstallLocations, Direct, Found, Journalled, Marker,
        NoMarker
  <1>. QED BY <1>4, <1>5, <1>6

LEMMA OrigSyncStep == ASSUME IInv, OrigSync PROVE IInv'
  <1>. USE DEF IInv
  <1>1. /\ Sync
        /\ pc = "origSync"
        /\ pc' = "pendingMark"
        /\ UNCHANGED <<owner, snapshot, failures, ret, call, outcome>>
    BY DEF OrigSync, At, Goto, locals
  <1>2. /\ disk' = disk
        /\ survivors' \subseteq Directories
        /\ Survivable'
    BY <1>1, SyncSurvivors
  <1>3. TypeOK'
    BY <1>1, <1>2 DEF TypeOK, Locations, CallInv, RecoveryLocations
  <1>4. OwnerInv' /\ CallInv' /\ Journal'
    BY <1>1, <1>2
    DEF OwnerInv, CallInv, Journal, RecoveryLocations, SaveLocations,
        DropLocations, InstallLocations, Direct, Found, Journalled
  <1>. QED BY <1>2, <1>3, <1>4

LEMMA PendingMarkStep == ASSUME OrderedMetadata, IInv, PendingMark PROVE IInv'
  <1>. USE DEF IInv
  <1>1. /\ Put("marker", Marker("pending", disk.binding # Absent))
        /\ pc = "pendingMark"
        /\ pc' = "pendingSync"
        /\ UNCHANGED <<owner, snapshot, failures, ret, call, outcome>>
    BY SafeDisk, TypeConsequences
    DEF PendingMark, At, Goto, locals, Journal, Marker
  <1>2. /\ disk' \in Directories
        /\ disk'.marker = Marker("pending", disk.binding # Absent)
        /\ disk'.model = disk.model
        /\ disk'.binding = disk.binding
        /\ disk'.modelOrig = disk.modelOrig
        /\ disk'.bindingOrig = disk.bindingOrig
    BY <1>1, PutMarker, TypeConsequences DEF Marker, NoMarker
  <1>3. SafeDirectory(disk)'
    <2>1. /\ disk.modelOrig = disk.model /\ disk.bindingOrig = disk.binding
          /\ disk.marker.state # "pending"
          /\ disk.model # Absent
      BY <1>1, CallPairs, TypeConsequences
      DEF Journal, Direct, Found, CallInv, SaveLocations
    <2>2. /\ disk'.marker.state = "pending"
          /\ disk'.marker.existed <=> disk.binding # Absent
      BY <1>2, MarkerFields
    <2>3. Logical(disk)' = Logical(disk)
      BY <1>2, <2>1, <2>2 DEF Logical
    <2>4. ~Wedged(disk)'
      BY <1>2, <2>1, <2>2 DEF Wedged
    <2>. QED BY <2>3, <2>4, SafeDisk DEF SafeDirectory, Consistent
  <1>4. survivors' \subseteq Directories /\ Survivable'
    BY <1>1, <1>2, <1>3, PutSurvivors
  <1>5. TypeOK'
    BY <1>1, <1>2, <1>4 DEF TypeOK, Locations
  <1>6. OwnerInv' /\ CallInv' /\ Journal'
    BY <1>1, <1>2, SafeDisk, TypeConsequences, CallPairs
    DEF OwnerInv, CallInv, Journal, RecoveryLocations, SaveLocations,
        DropLocations, InstallLocations, Direct, Found, Journalled, Marker,
        NoMarker
  <1>. QED BY <1>4, <1>5, <1>6

LEMMA PendingSyncStep == ASSUME IInv, PendingSync PROVE IInv'
  <1>. USE DEF IInv
  <1>1. /\ Sync
        /\ pc = "pendingSync"
        /\ pc' = "pubBinding"
        /\ UNCHANGED <<owner, snapshot, failures, ret, call, outcome>>
    BY DEF PendingSync, At, Goto, locals
  <1>2. /\ disk' = disk
        /\ survivors' \subseteq Directories
        /\ Survivable'
    BY <1>1, SyncSurvivors
  <1>3. TypeOK'
    BY <1>1, <1>2 DEF TypeOK, Locations, CallInv, RecoveryLocations
  <1>4. OwnerInv' /\ CallInv' /\ Journal'
    BY <1>1, <1>2
    DEF OwnerInv, CallInv, Journal, RecoveryLocations, SaveLocations,
        DropLocations, InstallLocations, Direct, Found, Journalled
  <1>. QED BY <1>2, <1>3, <1>4

LEMMA PubModelStep == ASSUME OrderedMetadata, IInv, PubModel PROVE IInv'
  <1>. USE DEF IInv
  <1>1. /\ Put("model", call.target[1])
        /\ pc = "pubModel"
        /\ pc' = "pubSync"
        /\ UNCHANGED <<owner, snapshot, failures, ret, call, outcome>>
    BY SafeDisk, TypeConsequences
    DEF PubModel, At, Goto, locals, Journal, Marker
  <1>2. /\ disk' \in Directories
        /\ disk'.model = call.target[1]
        /\ disk'.binding = disk.binding
        /\ disk'.modelOrig = disk.modelOrig
        /\ disk'.bindingOrig = disk.bindingOrig
        /\ disk'.marker = disk.marker
    BY <1>1, PutModel, TypeConsequences DEF Marker, NoMarker
  <1>3. SafeDirectory(disk)'
    BY <1>1, <1>2, SafeDisk, TypeConsequences
    DEF SafeDirectory, Wedged, Logical, Consistent, Journal, Direct, Found,
        Journalled, Marker, NoMarker, CallInv, NoFiles
  <1>4. survivors' \subseteq Directories /\ Survivable'
    BY <1>1, <1>2, <1>3, PutSurvivors
  <1>5. TypeOK'
    BY <1>1, <1>2, <1>4 DEF TypeOK, Locations
  <1>6. OwnerInv' /\ CallInv' /\ Journal'
    BY <1>1, <1>2, SafeDisk, TypeConsequences
    DEF OwnerInv, CallInv, Journal, RecoveryLocations, SaveLocations,
        DropLocations, InstallLocations, Direct, Found, Journalled, Marker,
        NoMarker
  <1>. QED BY <1>4, <1>5, <1>6

LEMMA PubSyncStep == ASSUME IInv, PubSync PROVE IInv'
  <1>. USE DEF IInv
  <1>1. /\ Sync
        /\ pc = "pubSync"
        /\ pc' = "commitMark"
        /\ UNCHANGED <<owner, snapshot, failures, ret, call, outcome>>
    BY DEF PubSync, At, Goto, locals
  <1>2. /\ disk' = disk
        /\ survivors' \subseteq Directories
        /\ Survivable'
    BY <1>1, SyncSurvivors
  <1>3. TypeOK'
    BY <1>1, <1>2 DEF TypeOK, Locations, CallInv, RecoveryLocations
  <1>4. OwnerInv' /\ CallInv' /\ Journal'
    BY <1>1, <1>2
    DEF OwnerInv, CallInv, Journal, RecoveryLocations, SaveLocations,
        DropLocations, InstallLocations, Direct, Found, Journalled
  <1>. QED BY <1>2, <1>3, <1>4

LEMMA CommitMarkStep == ASSUME OrderedMetadata, IInv, CommitMark PROVE IInv'
  <1>. USE DEF IInv
  <1>1. /\ Put("marker", Marker("committed", disk.marker.existed))
        /\ pc = "commitMark"
        /\ pc' = "commitSync"
        /\ UNCHANGED <<owner, snapshot, failures, ret, call, outcome>>
    BY SafeDisk, TypeConsequences DEF CommitMark, At, Goto, locals, Journal,
       Marker, Published, Payload
  <1>2. /\ disk' \in Directories
        /\ disk'.marker = Marker("committed", disk.marker.existed)
        /\ disk'.model = disk.model
        /\ disk'.binding = disk.binding
        /\ disk'.modelOrig = disk.modelOrig
        /\ disk'.bindingOrig = disk.bindingOrig
    BY <1>1, PutMarker, TypeConsequences
    DEF Marker, NoMarker, Published, Payload
  <1>3. SafeDirectory(disk)'
    <2>1. call.target \in Compatible /\ call.expected[1] # Absent
      BY <1>1 DEF CallInv, SaveLocations
    <2>2. disk.model = call.target[1] /\ disk.binding = Published(call)[2]
      BY <1>1 DEF Journal
    <2>3. Logical(disk)' = Published(call)
      BY <1>2, <2>2 DEF Logical, Marker, Published
    <2>4. Consistent(Published(call))
      BY <2>1, CallPairs DEF Consistent, Published, Payload
    <2>5. ~Wedged(disk)'
      BY <1>2 DEF Wedged, Marker
    <2>. QED BY <2>3, <2>4, <2>5 DEF SafeDirectory, Consistent
  <1>4. survivors' \subseteq Directories /\ Survivable'
    BY <1>1, <1>2, <1>3, PutSurvivors
  <1>5. TypeOK'
    BY <1>1, <1>2, <1>4 DEF TypeOK, Locations
  <1>6. OwnerInv' /\ CallInv' /\ Journal'
    BY <1>1, <1>2, SafeDisk, TypeConsequences, CallPairs DEF OwnerInv, CallInv,
       Journal, RecoveryLocations, SaveLocations,
       DropLocations, InstallLocations, Direct, Found, Journalled, Marker,
       NoMarker, Published, Payload
  <1>. QED BY <1>4, <1>5, <1>6

LEMMA CommitSyncStep == ASSUME IInv, CommitSync PROVE IInv'
  <1>. USE DEF IInv
  <1>1. /\ Sync
        /\ pc = "commitSync"
        /\ pc' = "cleanModel"
        /\ UNCHANGED <<owner, snapshot, failures, ret, call, outcome>>
    BY DEF CommitSync, At, Goto, locals
  <1>2. /\ disk' = disk
        /\ survivors' \subseteq Directories
        /\ Survivable'
    BY <1>1, SyncSurvivors
  <1>3. TypeOK'
    BY <1>1, <1>2 DEF TypeOK, Locations, CallInv, RecoveryLocations
  <1>4. OwnerInv' /\ CallInv' /\ Journal'
    BY <1>1, <1>2
    DEF OwnerInv, CallInv, Journal, RecoveryLocations, SaveLocations,
        DropLocations, InstallLocations, Direct, Found, Journalled
  <1>. QED BY <1>2, <1>3, <1>4

-----------------------------------------------------------------------------
(* restore_stack_files.                                                    *)

LEMMA DropBindingStep == ASSUME OrderedMetadata, IInv, DropBinding PROVE IInv'
  <1>. USE DEF IInv
  <1>1. /\ Put("binding", Absent)
        /\ pc = "dropBinding"
        /\ pc' = "dropModel"
        /\ UNCHANGED <<owner, snapshot, failures, ret, call, outcome>>
    BY SafeDisk, TypeConsequences
    DEF DropBinding, At, Goto, locals, Journal, Marker
  <1>2. /\ disk' \in Directories
        /\ disk'.binding = Absent
        /\ disk'.model = disk.model
        /\ disk'.modelOrig = disk.modelOrig
        /\ disk'.bindingOrig = disk.bindingOrig
        /\ disk'.marker = disk.marker
    BY <1>1, PutBinding, TypeConsequences DEF Marker, NoMarker
  <1>3. SafeDirectory(disk)'
    BY <1>1, <1>2, SafeDisk, TypeConsequences
    DEF SafeDirectory, Wedged, Logical, Consistent, Journal, Direct, Found,
        Journalled, Marker, NoMarker, CallInv, NoFiles
  <1>4. survivors' \subseteq Directories /\ Survivable'
    BY <1>1, <1>2, <1>3, PutSurvivors
  <1>5. TypeOK'
    BY <1>1, <1>2, <1>4 DEF TypeOK, Locations
  <1>6. OwnerInv' /\ CallInv' /\ Journal'
    BY <1>1, <1>2, SafeDisk, TypeConsequences
    DEF OwnerInv, CallInv, Journal, RecoveryLocations, SaveLocations,
        DropLocations, InstallLocations, Direct, Found, Journalled, Marker,
        NoMarker
  <1>. QED BY <1>4, <1>5, <1>6

LEMMA DropModelStep == ASSUME OrderedMetadata, IInv, DropModel PROVE IInv'
  <1>. USE DEF IInv
  <1>1. /\ Put("model", Absent)
        /\ pc = "dropModel"
        /\ pc' = "dropSync"
        /\ UNCHANGED <<owner, snapshot, failures, ret, call, outcome>>
    BY SafeDisk, TypeConsequences
    DEF DropModel, At, Goto, locals, Journal, Marker
  <1>2. /\ disk' \in Directories
        /\ disk'.model = Absent
        /\ disk'.binding = disk.binding
        /\ disk'.modelOrig = disk.modelOrig
        /\ disk'.bindingOrig = disk.bindingOrig
        /\ disk'.marker = disk.marker
    BY <1>1, PutModel, TypeConsequences DEF Marker, NoMarker
  <1>3. SafeDirectory(disk)'
    BY <1>1, <1>2, SafeDisk, TypeConsequences
    DEF SafeDirectory, Wedged, Logical, Consistent, Journal, Direct, Found,
        Journalled, Marker, NoMarker, CallInv, NoFiles
  <1>4. survivors' \subseteq Directories /\ Survivable'
    BY <1>1, <1>2, <1>3, PutSurvivors
  <1>5. TypeOK'
    BY <1>1, <1>2, <1>4 DEF TypeOK, Locations
  <1>6. OwnerInv' /\ CallInv' /\ Journal'
    BY <1>1, <1>2, SafeDisk, TypeConsequences
    DEF OwnerInv, CallInv, Journal, RecoveryLocations, SaveLocations,
        DropLocations, InstallLocations, Direct, Found, Journalled, Marker,
        NoMarker
  <1>. QED BY <1>4, <1>5, <1>6

LEMMA DropSyncStep == ASSUME IInv, DropSync PROVE IInv'
  <1>. USE DEF IInv
  <1>1. /\ Sync
        /\ pc = "dropSync"
        /\ pc' = "release"
        /\ UNCHANGED <<owner, snapshot, failures, ret, call, outcome>>
    BY DEF DropSync, At, Goto, locals
  <1>2. /\ disk' = disk
        /\ survivors' \subseteq Directories
        /\ Survivable'
    BY <1>1, SyncSurvivors
  <1>3. TypeOK'
    BY <1>1, <1>2 DEF TypeOK, Locations, CallInv, RecoveryLocations
  <1>4. OwnerInv' /\ CallInv' /\ Journal'
    BY <1>1, <1>2
    DEF OwnerInv, CallInv, Journal, RecoveryLocations, SaveLocations,
        DropLocations, InstallLocations, Direct, Found, Journalled
  <1>. QED BY <1>2, <1>3, <1>4

LEMMA InstModelStep == ASSUME OrderedMetadata, IInv, InstModel PROVE IInv'
  <1>. USE DEF IInv
  <1>1. /\ Put("modelOrig", call.target[1])
        /\ pc = "instModel"
        /\ pc' = "instBinding"
        /\ UNCHANGED <<owner, snapshot, failures, ret, call, outcome>>
    BY SafeDisk, TypeConsequences
    DEF InstModel, At, Goto, locals, Journal, Marker
  <1>2. /\ disk' \in Directories
        /\ disk'.modelOrig = call.target[1]
        /\ disk'.model = disk.model
        /\ disk'.binding = disk.binding
        /\ disk'.bindingOrig = disk.bindingOrig
        /\ disk'.marker = disk.marker
    BY <1>1, PutModelOrig, TypeConsequences DEF Marker, NoMarker
  <1>3. SafeDirectory(disk)'
    BY <1>1, <1>2, SafeDisk, TypeConsequences
    DEF SafeDirectory, Wedged, Logical, Consistent, Journal, Direct, Found,
        Journalled, Marker, NoMarker, CallInv, NoFiles
  <1>4. survivors' \subseteq Directories /\ Survivable'
    BY <1>1, <1>2, <1>3, PutSurvivors
  <1>5. TypeOK'
    BY <1>1, <1>2, <1>4 DEF TypeOK, Locations
  <1>6. OwnerInv' /\ CallInv' /\ Journal'
    BY <1>1, <1>2, SafeDisk, TypeConsequences
    DEF OwnerInv, CallInv, Journal, RecoveryLocations, SaveLocations,
        DropLocations, InstallLocations, Direct, Found, Journalled, Marker,
        NoMarker
  <1>. QED BY <1>4, <1>5, <1>6

LEMMA InstBindingStep == ASSUME OrderedMetadata, IInv, InstBinding PROVE IInv'
  <1>. USE DEF IInv
  <1>1. /\ Put("bindingOrig", call.target[2])
        /\ pc = "instBinding"
        /\ pc' = "instMark"
        /\ UNCHANGED <<owner, snapshot, failures, ret, call, outcome>>
    BY SafeDisk, TypeConsequences
    DEF InstBinding, At, Goto, locals, Journal, Marker
  <1>2. /\ disk' \in Directories
        /\ disk'.bindingOrig = call.target[2]
        /\ disk'.model = disk.model
        /\ disk'.binding = disk.binding
        /\ disk'.modelOrig = disk.modelOrig
        /\ disk'.marker = disk.marker
    BY <1>1, PutBindingOrig, TypeConsequences DEF Marker, NoMarker
  <1>3. SafeDirectory(disk)'
    BY <1>1, <1>2, SafeDisk, TypeConsequences
    DEF SafeDirectory, Wedged, Logical, Consistent, Journal, Direct, Found,
        Journalled, Marker, NoMarker, CallInv, NoFiles
  <1>4. survivors' \subseteq Directories /\ Survivable'
    BY <1>1, <1>2, <1>3, PutSurvivors
  <1>5. TypeOK'
    BY <1>1, <1>2, <1>4 DEF TypeOK, Locations
  <1>6. OwnerInv' /\ CallInv' /\ Journal'
    BY <1>1, <1>2, SafeDisk, TypeConsequences
    DEF OwnerInv, CallInv, Journal, RecoveryLocations, SaveLocations,
        DropLocations, InstallLocations, Direct, Found, Journalled, Marker,
        NoMarker
  <1>. QED BY <1>4, <1>5, <1>6

LEMMA InstMarkStep == ASSUME OrderedMetadata, IInv, InstMark PROVE IInv'
  <1>. USE DEF IInv
  <1>1. /\ Put("marker", Marker("pending", call.target[2] # Absent))
        /\ pc = "instMark"
        /\ pc' = "instSync"
        /\ UNCHANGED <<owner, snapshot, failures, ret, call, outcome>>
    BY SafeDisk, TypeConsequences
    DEF InstMark, At, Goto, locals, Journal, Marker
  <1>2. /\ disk' \in Directories
        /\ disk'.marker = Marker("pending", call.target[2] # Absent)
        /\ disk'.model = disk.model
        /\ disk'.binding = disk.binding
        /\ disk'.modelOrig = disk.modelOrig
        /\ disk'.bindingOrig = disk.bindingOrig
    BY <1>1, PutMarker, TypeConsequences DEF Marker, NoMarker
  <1>3. SafeDirectory(disk)'
    <2>1. /\ call.target # NoFiles /\ Consistent(call.target)
          /\ disk.modelOrig = call.target[1]
          /\ disk.bindingOrig = call.target[2]
      BY <1>1 DEF CallInv, InstallLocations, Journal
    <2>2. call.target[1] # Absent
      BY <2>1, CallPairs DEF Consistent, NoFiles
    <2>3. /\ disk'.marker.state = "pending"
          /\ disk'.marker.existed <=> call.target[2] # Absent
      BY <1>2, MarkerFields
    <2>4. Logical(disk)' = call.target
      BY <1>2, <2>1, <2>3, CallPairs DEF Logical
    <2>5. ~Wedged(disk)'
      BY <1>2, <2>1, <2>2, <2>3 DEF Wedged
    <2>. QED BY <2>1, <2>4, <2>5 DEF SafeDirectory, Consistent
  <1>4. survivors' \subseteq Directories /\ Survivable'
    BY <1>1, <1>2, <1>3, PutSurvivors
  <1>5. TypeOK'
    BY <1>1, <1>2, <1>4 DEF TypeOK, Locations
  <1>6. OwnerInv' /\ CallInv' /\ Journal'
    BY <1>1, <1>2, SafeDisk, TypeConsequences, CallPairs
    DEF OwnerInv, CallInv, Journal, RecoveryLocations, SaveLocations,
        DropLocations, InstallLocations, Direct, Found, Journalled, Marker,
        NoMarker
  <1>. QED BY <1>4, <1>5, <1>6

LEMMA InstSyncStep == ASSUME IInv, InstSync PROVE IInv'
  <1>. USE DEF IInv
  <1>1. /\ Sync
        /\ pc = "instSync"
        /\ pc' = "recover"
        /\ UNCHANGED <<owner, snapshot, failures, ret, call, outcome>>
    BY DEF InstSync, At, Goto, locals
  <1>2. /\ disk' = disk
        /\ survivors' \subseteq Directories
        /\ Survivable'
    BY <1>1, SyncSurvivors
  <1>3. TypeOK'
    BY <1>1, <1>2 DEF TypeOK, Locations, CallInv, RecoveryLocations
  <1>4. OwnerInv' /\ CallInv' /\ Journal'
    BY <1>1, <1>2
    DEF OwnerInv, CallInv, Journal, RecoveryLocations, SaveLocations,
        DropLocations, InstallLocations, Direct, Found, Journalled
  <1>. QED BY <1>2, <1>3, <1>4

\* The bindings are published, unless there were none and there are none.
LEMMA PubBindingStep == ASSUME OrderedMetadata, IInv, PubBinding PROVE IInv'
  <1>. USE DEF IInv
  <1>1. /\ pc = "pubBinding" /\ pc' = "pubModel"
        /\ UNCHANGED <<owner, snapshot, failures, ret, call, outcome>>
    BY DEF PubBinding, At, Goto, locals
  <1>2. NewBinding \in Bindings \cup {Absent}
    BY TypeConsequences DEF NewBinding, Published, Payload
  <1>3. CASE NewBinding = Absent
    <2>1. UNCHANGED <<disk, survivors>>
      BY <1>3 DEF PubBinding, Untouched
    <2>2. call.expected[2] = Absent
      BY <1>1, <1>3, CallPairs
      DEF NewBinding, Published, Payload, CallInv, SaveLocations
    <2>3. disk.binding = NewBinding
      BY <1>1, <1>3, <2>2 DEF Journal
    <2>4. TypeOK' /\ Survivable'
      BY <1>1, <2>1 DEF TypeOK, Survivable, Locations
    <2>5. OwnerInv' /\ CallInv' /\ Journal'
      BY <1>1, <2>1, <2>3 DEF NewBinding, OwnerInv, CallInv, Journal,
         RecoveryLocations,
       SaveLocations, DropLocations, InstallLocations, Direct, Found, Journalled
    <2>. QED BY <2>4, <2>5
  <1>4. CASE NewBinding # Absent
    <2>1. Put("binding", NewBinding)
      BY <1>4 DEF PubBinding
    <2>2. /\ disk' \in Directories
          /\ disk'.binding = NewBinding
          /\ disk'.model = disk.model
          /\ disk'.modelOrig = disk.modelOrig
          /\ disk'.bindingOrig = disk.bindingOrig
          /\ disk'.marker = disk.marker
      BY <1>2, <2>1, PutBinding
    <2>3. disk.marker.state = "pending"
      BY <1>1 DEF Journal, Journalled
    <2>4. SafeDirectory(disk)'
      BY <2>2, <2>3, SafeDisk DEF SafeDirectory, Wedged, Logical, Consistent
    <2>5. survivors' \subseteq Directories /\ Survivable'
      BY <2>1, <2>2, <2>4, PutSurvivors
    <2>6. TypeOK'
      BY <1>1, <2>2, <2>5 DEF TypeOK, Locations
    <2>7. OwnerInv' /\ CallInv' /\ Journal'
      BY <1>1, <2>2
      DEF NewBinding, OwnerInv, CallInv, Journal, RecoveryLocations,
          SaveLocations, DropLocations, InstallLocations, Direct, Found,
          Journalled
    <2>. QED BY <2>5, <2>6, <2>7
  <1>. QED BY <1>3, <1>4

-----------------------------------------------------------------------------
(* Steps that read the directory, and steps that do not touch it.          *)

LEMMA UntouchedDirectory ==
    ASSUME TypeOK, Survivable, UNCHANGED <<disk, survivors>>
    PROVE  /\ disk' \in Directories /\ survivors' \subseteq Directories
           /\ Survivable'
  BY DEF TypeOK, Survivable, SafeDirectory, Wedged, Logical

\* A call's arguments: a save's snapshot was taken of stacks that were there,
\* and the installer's pairs fit together.
LEMMA BeginArguments ==
    ASSUME TypeOK, CallInv, NEW p \in Procs,
           BeginLoad(p) \/ BeginSave(p) \/ BeginRestore(p)
    PROVE  /\ call' \in Calls
           /\ \/ ret' = "read" /\ call'.kind = "load"
              \/ /\ ret' = "compare" /\ call'.kind = "save"
                 /\ call'.expected[1] # Absent
              \/ /\ ret' = "check" /\ call'.kind = "restore"
                 /\ Consistent(call'.target)
  <1>1. CASE BeginLoad(p)
    BY <1>1 DEF BeginLoad, Begin, Calls, Pairs, NoFiles
  <1>2. CASE BeginSave(p)
    <2>1. PICK updated \in Stacks \X Bindings :
            /\ snapshot[p] # NoSnapshot
            /\ Begin(p, "save", snapshot[p], updated, "compare")
      BY <1>2 DEF BeginSave
    <2>2. snapshot[p] \in Pairs /\ snapshot[p][1] # Absent
      BY <2>1 DEF TypeOK, CallInv
    <2>3. updated \in Pairs
      BY DEF Pairs
    <2>. QED BY <2>1, <2>2, <2>3 DEF Begin, Calls
  <1>3. CASE BeginRestore(p)
    <2>1. PICK rollback \in Rollbacks :
            Begin(p, "restore", rollback[1], rollback[2], "check")
      BY <1>3 DEF BeginRestore
    <2>2. /\ rollback[1] \in Pairs /\ rollback[2] \in Pairs
          /\ Consistent(rollback[2])
      BY RollbackAssumption
    <2>. QED BY <2>1, <2>2 DEF Begin, Calls
  <1>. QED BY <1>1, <1>2, <1>3

\* A loader's snapshot is a pair whose stacks are there.
LEMMA ReadSnapshot ==
    ASSUME TypeOK, CallInv, Read
    PROVE  /\ snapshot' \in [Procs -> Pairs \cup {NoSnapshot}]
           /\ \A p \in Procs :
               snapshot'[p] = NoSnapshot \/ snapshot'[p][1] # Absent
  <1>1. \/ snapshot' = snapshot
        \/ /\ disk.model # Absent
           /\ snapshot' = [snapshot EXCEPT
                               ![owner] = <<disk.model, disk.binding>>]
    BY DEF Read
  <1>2. <<disk.model, disk.binding>> \in Pairs
    BY TypeConsequences DEF Pairs
  <1>. QED BY <1>1, <1>2 DEF TypeOK, CallInv

LEMMA BeginStep ==
    ASSUME IInv, NEW p \in Procs,
           BeginLoad(p) \/ BeginSave(p) \/ BeginRestore(p)
    PROVE  IInv'
  <1>. USE DEF IInv
  <1>1. /\ UNCHANGED <<disk, survivors, snapshot, failures>>
        /\ owner' = p /\ owner' # NoOwner /\ pc' = "recover" /\ outcome' = "ok"
    BY ContentAssumption DEF BeginLoad, BeginSave, BeginRestore, Begin
  <1>2. /\ call' \in Calls
        /\ \/ ret' = "read" /\ call'.kind = "load"
           \/ /\ ret' = "compare" /\ call'.kind = "save"
              /\ call'.expected[1] # Absent
           \/ /\ ret' = "check" /\ call'.kind = "restore"
              /\ Consistent(call'.target)
    BY BeginArguments
  <1>3. TypeOK' /\ Survivable'
    BY <1>1, <1>2, UntouchedDirectory DEF TypeOK, Locations
  <1>4. OwnerInv' /\ CallInv' /\ Journal'
    BY <1>1, <1>2 DEF Consistent, OwnerInv, CallInv, Journal, RecoveryLocations,
       SaveLocations, DropLocations, InstallLocations, Direct, Found, Journalled
  <1>. QED BY <1>3, <1>4

LEMMA RecoverStep == ASSUME IInv, Recover PROVE IInv'
  <1>. USE DEF IInv
  <1>1. /\ UNCHANGED <<disk, survivors, owner, snapshot, failures>>
        /\ UNCHANGED <<ret, call, outcome>>
        /\ pc = "recover"
        /\ \/ pc' = "restoreModel" /\ disk.marker.state = "pending"
           \/ pc' = "cleanModel" /\ disk.marker.state # "pending"
           \/ pc' = ret /\ disk.marker.state # "pending"
    BY DEF Recover, At, Untouched, Goto, locals
  <1>2. TypeOK' /\ Survivable'
    BY <1>1, UntouchedDirectory
    DEF TypeOK, Locations, CallInv, RecoveryLocations
  <1>3. OwnerInv' /\ CallInv' /\ Journal'
    BY <1>1 DEF OwnerInv, CallInv, Journal, RecoveryLocations,
       SaveLocations, DropLocations, InstallLocations, Direct, Found, Journalled
  <1>. QED BY <1>2, <1>3

LEMMA ReadStep == ASSUME IInv, Read PROVE IInv'
  <1>. USE DEF IInv
  <1>1. /\ UNCHANGED <<disk, survivors, owner, failures, ret, call>>
        /\ pc = "read" /\ pc' = "release" /\ outcome' \in {"ok", "error"}
    BY DEF Read, Goto, Raise, locals, TypeOK
  <1>4. /\ snapshot' \in [Procs -> Pairs \cup {NoSnapshot}]
        /\ \A p \in Procs :
               snapshot'[p] = NoSnapshot \/ snapshot'[p][1] # Absent
    BY ReadSnapshot
  <1>5. TypeOK' /\ Survivable'
    BY <1>1, <1>4, UntouchedDirectory DEF TypeOK, Locations
  <1>6. OwnerInv' /\ CallInv' /\ Journal'
    BY <1>1, <1>4 DEF OwnerInv, CallInv, Journal, RecoveryLocations,
       SaveLocations, DropLocations, InstallLocations, Direct, Found, Journalled
  <1>. QED BY <1>5, <1>6

LEMMA CompareStep == ASSUME IInv, Compare PROVE IInv'
  <1>. USE DEF IInv
  <1>1. /\ UNCHANGED <<disk, survivors, owner, snapshot, failures, call>>
        /\ pc = "compare"
        /\ \/ pc' = "release" /\ outcome' = "error" /\ ret' = ret
           \/ /\ pc' = "origModel" /\ ret' = "release" /\ outcome' = outcome
              /\ <<disk.model, disk.binding>> = call.expected
              /\ call.target \in Compatible
    BY DEF Compare, At, Untouched, Raise
  <1>2. TypeOK' /\ Survivable'
    BY <1>1, UntouchedDirectory DEF TypeOK, Locations
  <1>3. OwnerInv' /\ CallInv' /\ Journal'
    BY <1>1 DEF OwnerInv, CallInv, Journal, RecoveryLocations,
       SaveLocations, DropLocations, InstallLocations, Direct, Found, Journalled
  <1>. QED BY <1>2, <1>3

LEMMA CheckStep == ASSUME IInv, Check PROVE IInv'
  <1>. USE DEF IInv
  <1>1. /\ UNCHANGED <<disk, survivors, owner, snapshot, failures, call>>
        /\ pc = "check"
        /\ \/ pc' = "release" /\ outcome' = "error" /\ ret' = ret
           \/ /\ ret' = "release" /\ outcome' = outcome
              /\ <<disk.model, disk.binding>> = call.expected
              /\ \/ pc' = "dropBinding" /\ call.target[1] = Absent
                 \/ pc' = "instModel" /\ call.target[1] # Absent
    BY DEF Check, At, Untouched, Raise
  <1>2. TypeOK' /\ Survivable'
    BY <1>1, UntouchedDirectory DEF TypeOK, Locations
  <1>3. call.target[1] = Absent => call.target = NoFiles
    BY <1>1, CallPairs, BindingAssumption DEF CallInv, Consistent
  <1>4. OwnerInv' /\ CallInv' /\ Journal'
    BY <1>1, <1>3, CallPairs DEF NoFiles, OwnerInv, CallInv, Journal,
       RecoveryLocations,
       SaveLocations, DropLocations, InstallLocations, Direct, Found, Journalled
  <1>. QED BY <1>2, <1>4

LEMMA ReleaseStep == ASSUME IInv, Release PROVE IInv'
  <1>. USE DEF IInv
  <1>1. TypeOK' /\ Survivable'
    BY UntouchedDirectory
    DEF Release, TypeOK, Locations, NoCall, NoFiles, Calls, Pairs
  <1>2. OwnerInv' /\ CallInv' /\ Journal'
    BY DEF Release, NoCall, OwnerInv, CallInv, Journal, RecoveryLocations,
       SaveLocations, DropLocations, InstallLocations, Direct, Found, Journalled
  <1>. QED BY <1>1, <1>2

LEMMA CrashStep == ASSUME IInv, NEW p \in Procs, Crash(p) PROVE IInv'
  <1>. USE DEF IInv
  <1>1. TypeOK' /\ Survivable'
    BY UntouchedDirectory
    DEF Crash, DropLocks, locals, TypeOK, Locations, NoCall, NoFiles, Calls,
        Pairs
  <1>2. \A r \in Procs : snapshot'[r] = NoSnapshot \/ snapshot'[r][1] # Absent
    BY DEF Crash, TypeOK, CallInv
  <1>3. OwnerInv' /\ CallInv' /\ Journal'
    <2>1. CASE owner = p
      BY <1>2, <2>1 DEF Crash, DropLocks, NoCall, OwnerInv, CallInv, Journal,
         RecoveryLocations,
       SaveLocations, DropLocations, InstallLocations, Direct, Found, Journalled
    <2>2. CASE owner # p
      BY <1>2, <2>2 DEF Crash, locals, OwnerInv, CallInv, Journal,
         RecoveryLocations,
       SaveLocations, DropLocations, InstallLocations, Direct, Found, Journalled
    <2>. QED BY <2>1, <2>2
  <1>. QED BY <1>1, <1>3

LEMMA PowerLossStep == ASSUME IInv, PowerLoss PROVE IInv'
  <1>. USE DEF IInv
  <1>1. disk' \in survivors /\ survivors' = {disk'}
    BY DEF PowerLoss
  <1>2. TypeOK'
    BY <1>1 DEF PowerLoss, DropLocks, TypeOK, Locations, NoCall, NoFiles, Calls,
       Pairs
  <1>3. Survivable'
    BY <1>1 DEF Survivable, SafeDirectory, Wedged, Logical
  <1>4. OwnerInv' /\ CallInv' /\ Journal'
    BY DEF PowerLoss, DropLocks, NoCall, OwnerInv, CallInv, Journal,
       RecoveryLocations,
       SaveLocations, DropLocations, InstallLocations, Direct, Found, Journalled
  <1>. QED BY <1>2, <1>3, <1>4

-----------------------------------------------------------------------------
(* The theorems.                                                           *)

LEMMA InitIInv == Init => IInv
  <1>1. SUFFICES ASSUME Init PROVE IInv
    OBVIOUS
  <1>2. TypeOK
    BY <1>1 DEF Init, TypeOK, Locations, NoCall, NoFiles, Calls, Pairs
  <1>3. Survivable
    BY <1>1 DEF Init, Survivable, SafeDirectory, Wedged, Logical, NoMarker
  <1>4. OwnerInv /\ CallInv /\ Journal
    BY <1>1 DEF Init, NoCall, OwnerInv, CallInv, Journal, RecoveryLocations,
       SaveLocations, DropLocations, InstallLocations, Direct, Found, Journalled
  <1>. QED BY <1>2, <1>3, <1>4 DEF IInv

LEMMA StepIInv == ASSUME OrderedMetadata PROVE IInv /\ [Next]_vars => IInv'
  <1>1. SUFFICES ASSUME IInv, [Next]_vars PROVE IInv'
    OBVIOUS
  <1>2. ASSUME NEW p \in Procs, BeginLoad(p) \/ BeginSave(p) \/ BeginRestore(p)
        PROVE  IInv'
    BY <1>1, <1>2, BeginStep
  <1>3. CASE Recovery
    BY <1>1, <1>3, RecoverStep, RestoreModelStep, RestoreBindingStep,
       RestoreSyncStep, FinishMarkStep, FinishSyncStep, CleanModelStep,
       CleanBindingStep, CleanMarkerStep, CleanSyncStep DEF Recovery
  <1>4. CASE Read
    BY <1>1, <1>4, ReadStep
  <1>5. CASE SaveStep
    BY <1>1, <1>5, CompareStep, OrigModelStep, OrigBindingStep, OrigSyncStep,
       PendingMarkStep, PendingSyncStep, PubBindingStep, PubModelStep,
       PubSyncStep, CommitMarkStep, CommitSyncStep DEF SaveStep
  <1>6. CASE RestoreStep
    BY <1>1, <1>6, CheckStep, DropBindingStep, DropModelStep, DropSyncStep,
       InstModelStep, InstBindingStep, InstMarkStep, InstSyncStep
    DEF RestoreStep
  <1>7. CASE Release
    BY <1>1, <1>7, ReleaseStep
  <1>8. ASSUME NEW p \in Procs, Crash(p) PROVE IInv'
    BY <1>1, <1>8, CrashStep
  <1>9. CASE PowerLoss
    BY <1>1, <1>9, PowerLossStep
  <1>10. CASE UNCHANGED vars
    <2>1. TypeOK' /\ Survivable'
      BY <1>1, <1>10, UntouchedDirectory DEF IInv, TypeOK, vars
    <2>2. OwnerInv' /\ CallInv' /\ Journal'
      BY <1>1, <1>10
      DEF IInv, vars, OwnerInv, CallInv, Journal, RecoveryLocations,
          SaveLocations, DropLocations, InstallLocations, Direct, Found,
          Journalled
    <2>. QED BY <2>1, <2>2 DEF IInv
  <1>. QED BY <1>1, <1>2, <1>3, <1>4, <1>5, <1>6, <1>7, <1>8, <1>9, <1>10
           DEF Next, Step

THEOREM Invariance == ASSUME OrderedMetadata PROVE Spec => []IInv
  <1>1. Init => IInv
    BY InitIInv
  <1>2. IInv /\ [Next]_vars => IInv'
    BY StepIInv
  <1>. QED BY <1>1, <1>2, PTL DEF Spec

\* The variables of the store keep their types.
THEOREM TypeCorrect == ASSUME OrderedMetadata PROVE Spec => []TypeOK
  <1>1. IInv => TypeOK
    BY DEF IInv
  <1>. QED BY <1>1, Invariance, PTL

\* However often processes are killed and the power fails, recovery finds the
\* copies a pending marker promises.
THEOREM RecoveryAlwaysPossible == ASSUME OrderedMetadata PROVE Spec => []NoWedge
  <1>1. IInv => NoWedge
    BY DEF IInv, Survivable, SafeDirectory, NoWedge
  <1>. QED BY <1>1, Invariance, PTL

\* However often processes are killed and the power fails, a loader is given
\* documents that fit together.
THEOREM PairNeverTorn == ASSUME OrderedMetadata PROVE Spec => []NoTornPair
  <1>1. IInv => NoTornPair
    BY DEF IInv, Survivable, SafeDirectory, NoTornPair
  <1>. QED BY <1>1, Invariance, PTL

-----------------------------------------------------------------------------
(* StackStore implements AbstractStackStore: under the refinement mapping  *)
(* that reads the directory as a loader would, every step of the journal   *)
(* is a step of the register or leaves it alone.  Four writes publish: the *)
(* committed marker of a save, the pending marker of a restore, and the    *)
(* two unlinks that remove an installation.                                *)

\* A write that leaves what a loader would get alone leaves the register
\* alone.
LEMMA SilentWrite ==
    ASSUME Survivable, survivors' = survivors \cup {disk'},
           Logical(disk)' = Logical(disk), UNCHANGED <<snapshot, owner, call>>
    PROVE  UNCHANGED Abstract!vars
  BY DEF Survivable, Abstract!vars

LEMMA SettledSync ==
    ASSUME TypeOK, Survivable, Sync, UNCHANGED <<snapshot, owner, call>>
    PROVE  Abstract!Settle
  <1>1. disk' = disk /\ survivors' = {disk}
    BY SyncSurvivors
  <1>. QED BY <1>1 DEF Abstract!Settle

\* While the marker is pending a loader sees the recovery files ...
LEMMA HiddenDocuments ==
    ASSUME TypeOK, disk.marker.state = "pending", NEW v,
           \/ Put("model", v) /\ v \in Stacks \cup {Absent}
           \/ Put("binding", v) /\ v \in Bindings \cup {Absent}
    PROVE  Logical(disk)' = Logical(disk) /\ disk' \in Directories
  <1>1. CASE Put("model", v) /\ v \in Stacks \cup {Absent}
    BY <1>1, PutModel DEF Logical
  <1>2. CASE Put("binding", v) /\ v \in Bindings \cup {Absent}
    BY <1>2, PutBinding DEF Logical
  <1>. QED BY <1>1, <1>2

\* ... and while it is not, the documents.
LEMMA HiddenOriginals ==
    ASSUME TypeOK, Direct, NEW v,
           \/ Put("modelOrig", v) /\ v \in Stacks \cup {Absent}
           \/ Put("bindingOrig", v) /\ v \in Bindings \cup {Absent}
    PROVE  Logical(disk)' = Logical(disk) /\ disk' \in Directories
  <1>1. CASE Put("modelOrig", v) /\ v \in Stacks \cup {Absent}
    BY <1>1, PutModelOrig DEF Logical, Direct
  <1>2. CASE Put("bindingOrig", v) /\ v \in Bindings \cup {Absent}
    BY <1>2, PutBindingOrig DEF Logical, Direct
  <1>. QED BY <1>1, <1>2

\* Writing the marker changes that entry only.
LEMMA MarkerWrite ==
    ASSUME TypeOK, NEW state \in {"none", "pending", "committed"},
           NEW existed \in BOOLEAN, Put("marker", Marker(state, existed))
    PROVE  /\ disk' \in Directories /\ survivors' \subseteq Directories
           /\ disk'.model = disk.model /\ disk'.binding = disk.binding
           /\ disk'.modelOrig = disk.modelOrig
           /\ disk'.bindingOrig = disk.bindingOrig
           /\ disk'.marker.state = state
           /\ disk'.marker.existed <=> existed
  <1>1. Marker(state, existed)
          \in [state : {"none", "pending", "committed"}, existed : BOOLEAN]
    BY DEF Marker
  <1>. QED BY <1>1, PutMarker, MarkerFields

\* In ordered mode every write adds one directory to the survivors.
LEMMA OrderedWrite ==
    ASSUME OrderedMetadata, NEW e, NEW v, Put(e, v)
    PROVE  survivors' = survivors \cup {disk'}
  BY DEF Put

Silent ==
    /\ survivors' = survivors \cup {disk'}
    /\ Logical(disk)' = Logical(disk)
    /\ UNCHANGED <<snapshot, owner, call>>

LEMMA SilentDocuments ==
    ASSUME OrderedMetadata, IInv,
           RestoreModel \/ RestoreBinding \/ PubModel
    PROVE  Silent
  <1>1. /\ disk.marker.state = "pending"
        /\ UNCHANGED <<snapshot, owner, call>>
        /\ \/ Put("model", disk.modelOrig)
           \/ Put("binding",
                  IF disk.marker.existed THEN disk.bindingOrig ELSE Absent)
           \/ Put("model", call.target[1])
    BY SafeDisk DEF IInv, RestoreModel, RestoreBinding, PubModel, At, Goto,
       locals, Journal, Journalled
  <1>. QED BY <1>1, HiddenDocuments, OrderedWrite, TypeConsequences
           DEF IInv, Silent

LEMMA SilentBindings ==
    ASSUME OrderedMetadata, IInv, PubBinding
    PROVE  Silent
  <1>1. /\ disk.marker.state = "pending"
        /\ UNCHANGED <<snapshot, owner, call>>
        /\ UNCHANGED <<disk, survivors>> \/ Put("binding", NewBinding)
    BY DEF IInv, PubBinding, At, Goto, locals, Journal, Journalled, Untouched
  <1>2. NewBinding \in Bindings \cup {Absent}
    BY TypeConsequences DEF IInv, NewBinding, Published, Payload
  <1>3. CASE UNCHANGED <<disk, survivors>>
    BY <1>1, <1>3 DEF Silent, IInv, Survivable, Logical
  <1>4. CASE Put("binding", NewBinding)
    BY <1>1, <1>2, <1>4, HiddenDocuments, OrderedWrite DEF IInv, Silent
  <1>. QED BY <1>1, <1>3, <1>4

LEMMA SilentOriginals ==
    ASSUME OrderedMetadata, IInv,
           \/ CleanModel \/ CleanBinding
           \/ OrigModel \/ OrigBinding \/ InstModel \/ InstBinding
    PROVE  Silent
  <1>1. /\ Direct
        /\ UNCHANGED <<snapshot, owner, call>>
        /\ \/ Put("modelOrig", Absent) \/ Put("bindingOrig", Absent)
           \/ Put("modelOrig", disk.model) \/ Put("bindingOrig", disk.binding)
           \/ Put("modelOrig", call.target[1])
           \/ Put("bindingOrig", call.target[2])
    BY DEF IInv, CleanModel, CleanBinding, OrigModel, OrigBinding, InstModel,
       InstBinding, At, Goto, locals, Journal
  <1>. QED BY <1>1, HiddenOriginals, OrderedWrite, TypeConsequences
           DEF IInv, Silent

LEMMA SilentMarkers ==
    ASSUME OrderedMetadata, IInv, FinishMark \/ CleanMarker \/ PendingMark
    PROVE  Silent
  <1>. USE DEF IInv
  <1>1. UNCHANGED <<snapshot, owner, call>>
    BY DEF FinishMark, CleanMarker, PendingMark, At, Goto, locals
  <1>2. CASE FinishMark
    <2>1. /\ Put("marker", Marker("committed", disk.marker.existed))
          /\ disk.marker.state = "pending" /\ disk.model = disk.modelOrig
          /\ disk.binding = IF disk.marker.existed
                            THEN disk.bindingOrig ELSE Absent
      BY <1>2 DEF FinishMark, At, Journal
    <2>. QED BY <1>1, <2>1, MarkerWrite, TypeConsequences, OrderedWrite
             DEF Logical, Silent
  <1>3. CASE CleanMarker
    <2>1. /\ Put("marker", Marker("none", FALSE))
          /\ disk.marker.state # "pending"
      BY <1>3 DEF CleanMarker, At, Journal, Direct, NoMarker, Marker
    <2>. QED BY <1>1, <2>1, MarkerWrite, OrderedWrite DEF Logical, Silent
  <1>4. CASE PendingMark
    <2>1. /\ Put("marker", Marker("pending", disk.binding # Absent))
          /\ disk.marker.state # "pending"
          /\ disk.modelOrig = disk.model /\ disk.bindingOrig = disk.binding
      BY <1>4 DEF PendingMark, At, Journal, Direct
    <2>. QED BY <1>1, <2>1, MarkerWrite, OrderedWrite DEF Logical, Silent
  <1>. QED BY <1>2, <1>3, <1>4

-----------------------------------------------------------------------------
(* The four writes that publish.                                           *)

\* The committed marker turns the new documents into the pair.
LEMMA CommitPublishes ==
    ASSUME OrderedMetadata, IInv, CommitMark PROVE Abstract!Save
  <1>. USE DEF IInv
  <1>1. /\ Put("marker", Marker("committed", disk.marker.existed))
        /\ UNCHANGED <<snapshot, owner, call>>
        /\ call.kind = "save" /\ call.target \in Compatible
        /\ Journalled
        /\ disk.model = call.target[1] /\ disk.binding = Published(call)[2]
    BY DEF CommitMark, At, Goto, locals, Journal, CallInv, SaveLocations
  <1>2. /\ disk'.model = disk.model /\ disk'.binding = disk.binding
        /\ disk'.marker.state = "committed"
    BY <1>1, MarkerWrite, TypeConsequences
  <1>3. Logical(disk) = call.expected
    BY <1>1, CallPairs DEF Logical, Journalled
  <1>4. Logical(disk)' = Published(call)
    BY <1>1, <1>2 DEF Logical, Published
  <1>5. Consistent(Published(call))
    BY <1>1, CallPairs DEF Consistent, Published, Payload
  <1>6. survivors' = survivors \cup {disk'}
    BY <1>1, OrderedWrite
  <1>7. {Logical(d) : d \in survivors}'
            = {Logical(d) : d \in survivors} \cup {Logical(disk)'}
    BY <1>6
  <1>. QED
    BY <1>1, <1>3, <1>4, <1>5, <1>7
    DEF Abstract!Save, Abstract!Publish, Abstract!Published, Abstract!Payload,
        Abstract!Consistent, Abstract!NoFiles, Consistent, NoFiles, Published,
        Payload

\* The installer's pending marker turns its target into the pair.
LEMMA InstallPublishes ==
    ASSUME OrderedMetadata, IInv, InstMark PROVE Abstract!Restore
  <1>. USE DEF IInv
  <1>1. /\ Put("marker", Marker("pending", call.target[2] # Absent))
        /\ UNCHANGED <<snapshot, owner, call>>
        /\ call.kind = "restore" /\ call.target # NoFiles
        /\ Consistent(call.target)
        /\ Direct /\ Found
        /\ disk.modelOrig = call.target[1]
        /\ disk.bindingOrig = call.target[2]
    BY DEF InstMark, At, Goto, locals, Journal, CallInv, InstallLocations
  <1>2. /\ disk'.modelOrig = disk.modelOrig
        /\ disk'.bindingOrig = disk.bindingOrig
        /\ disk'.marker.state = "pending"
        /\ disk'.marker.existed <=> call.target[2] # Absent
    BY <1>1, MarkerWrite
  <1>3. Logical(disk) = call.expected
    BY <1>1 DEF Logical, Direct, Found
  <1>4. Logical(disk)' = call.target
    BY <1>1, <1>2, CallPairs DEF Logical
  <1>5. survivors' = survivors \cup {disk'}
    BY <1>1, OrderedWrite
  <1>6. {Logical(d) : d \in survivors}'
            = {Logical(d) : d \in survivors} \cup {Logical(disk)'}
    BY <1>5
  <1>. QED
    BY <1>1, <1>3, <1>4, <1>6
    DEF Abstract!Restore, Abstract!Publish, Abstract!Consistent,
        Abstract!NoFiles, Consistent, NoFiles

\* The two unlinks that remove an installation each leave a pair.
LEMMA RemovalPublishes ==
    ASSUME OrderedMetadata, IInv, DropBinding \/ DropModel
    PROVE  Abstract!Remove
  <1>. USE DEF IInv
  <1>1. /\ UNCHANGED <<snapshot, owner, call>>
        /\ call.kind = "restore" /\ call.target = NoFiles
        /\ Direct
    BY DEF DropBinding, DropModel, At, Goto, locals, Journal, CallInv,
       DropLocations
  <1>2. survivors' = survivors \cup {disk'}
    BY OrderedWrite DEF DropBinding, DropModel
  <1>3. {Logical(d) : d \in survivors}'
            = {Logical(d) : d \in survivors} \cup {Logical(disk)'}
    BY <1>2
  <1>4. CASE DropBinding
    <2>1. /\ Put("binding", Absent) /\ Found
      BY <1>4 DEF DropBinding, At, Journal
    <2>2. Logical(disk) = call.expected
      BY <1>1, <2>1 DEF Logical, Direct, Found
    <2>3. Logical(disk)' = <<call.expected[1], Absent>>
      BY <1>1, <2>1, PutBinding, CallPairs DEF Logical, Direct, Found
    <2>4. Consistent(<<call.expected[1], Absent>>)
      BY <2>1, TypeConsequences, CallPairs DEF Consistent, NoFiles, Found
    <2>. QED
      BY <1>1, <1>3, <2>2, <2>3, <2>4
      DEF Abstract!Remove, Abstract!Publish, Abstract!Consistent,
          Abstract!NoFiles, Consistent, NoFiles
  <1>5. CASE DropModel
    <2>1. /\ Put("model", Absent)
          /\ <<disk.model, disk.binding>> = <<call.expected[1], Absent>>
      BY <1>5 DEF DropModel, At, Journal
    <2>2. Logical(disk) = <<call.expected[1], Absent>>
      BY <1>1, <2>1 DEF Logical, Direct
    <2>3. Logical(disk)' = NoFiles
      BY <1>1, <2>1, PutModel DEF Logical, Direct, NoFiles
    <2>. QED
      BY <1>1, <1>3, <2>2, <2>3
      DEF Abstract!Remove, Abstract!Publish, Abstract!Consistent,
          Abstract!NoFiles, Consistent, NoFiles
  <1>. QED BY <1>4, <1>5

-----------------------------------------------------------------------------
(* The steps that write nothing.                                           *)

LEMMA SyncSettles ==
    ASSUME IInv,
           \/ RestoreSync \/ FinishSync \/ CleanSync \/ OrigSync \/ PendingSync
           \/ PubSync \/ CommitSync \/ DropSync \/ InstSync
    PROVE  Abstract!Settle
  <1>1. Sync /\ UNCHANGED <<snapshot, owner, call>>
    BY DEF RestoreSync, FinishSync, CleanSync, OrigSync, PendingSync, PubSync,
       CommitSync, DropSync, InstSync, At, Goto, locals
  <1>. QED BY <1>1, SettledSync DEF IInv

LEMMA DecisionsStutter ==
    ASSUME IInv, Recover \/ Compare \/ Check
    PROVE  UNCHANGED Abstract!vars
  <1>1. UNCHANGED <<disk, survivors, snapshot, owner, call>>
    BY DEF Recover, Compare, Check, At, Untouched, Goto, Raise, locals
  <1>. QED BY <1>1 DEF Abstract!vars, Logical

LEMMA BeginRequests ==
    ASSUME IInv, NEW p \in Procs,
           BeginLoad(p) \/ BeginSave(p) \/ BeginRestore(p)
    PROVE  Abstract!Request(p)
  <1>1. /\ UNCHANGED <<disk, survivors, snapshot>>
        /\ owner = NoOwner /\ owner' = p
    BY DEF BeginLoad, BeginSave, BeginRestore, Begin
  <1>2. call' \in Calls
    BY BeginStep DEF IInv, TypeOK
  <1>3. call'.kind = "save" => snapshot[p] = call'.expected
    BY DEF BeginLoad, BeginSave, BeginRestore, Begin
  <1>4. Abstract!Calls = Calls
    BY DEF Abstract!Calls, Abstract!Pairs, Calls, Pairs
  <1>. QED BY <1>1, <1>2, <1>3, <1>4 DEF Abstract!Request, Logical

LEMMA ReadLoads ==
    ASSUME IInv, Read PROVE Abstract!Load \/ UNCHANGED Abstract!vars
  <1>1. /\ UNCHANGED <<disk, survivors, owner, call>>
        /\ call.kind = "load" /\ Direct
        /\ \/ snapshot' = snapshot
           \/ snapshot' = [snapshot EXCEPT
                              ![owner] = <<disk.model, disk.binding>>]
    BY DEF IInv, Read, Goto, Raise, locals, CallInv, Journal
  <1>2. Logical(disk) = <<disk.model, disk.binding>>
    BY <1>1 DEF Logical, Direct
  <1>. QED BY <1>1, <1>2 DEF Abstract!Load, Abstract!vars, Logical

LEMMA ReleaseReplies == ASSUME Release PROVE Abstract!Reply
  BY DEF Release, Abstract!Reply, Abstract!NoCall, Abstract!NoFiles, NoCall,
     NoFiles, Logical

LEMMA CrashCrashes ==
    ASSUME NEW p \in Procs, Crash(p) PROVE Abstract!Crash(p)
  BY DEF Crash, DropLocks, locals, Abstract!Crash, Abstract!NoCall,
     Abstract!NoFiles, NoCall, NoFiles, Logical

LEMMA PowerLossLoses == ASSUME PowerLoss PROVE Abstract!PowerLoss
  <1>1. disk' \in survivors /\ survivors' = {disk'}
    BY DEF PowerLoss
  <1>2. /\ Logical(disk)' \in {Logical(d) : d \in survivors}
        /\ {Logical(d) : d \in survivors}' = {Logical(disk)'}
    BY <1>1 DEF Logical
  <1>. QED BY <1>2 DEF PowerLoss, DropLocks, Abstract!PowerLoss,
           Abstract!NoCall, Abstract!NoFiles, NoCall, NoFiles

-----------------------------------------------------------------------------
LEMMA InitImplements == Init => Abstract!Init
  <1>1. SUFFICES ASSUME Init PROVE Abstract!Init
    OBVIOUS
  <1>2. /\ disk \in Directories /\ disk.marker = NoMarker
        /\ disk.model # Absent /\ Consistent(<<disk.model, disk.binding>>)
        /\ survivors = {disk}
    BY <1>1 DEF Init
  <1>3. Logical(disk) = <<disk.model, disk.binding>>
    BY <1>2 DEF Logical, NoMarker
  <1>4. <<disk.model, disk.binding>> \in Pairs
    BY <1>2 DEF Directories, Pairs
  <1>5. {Logical(d) : d \in survivors} = {Logical(disk)}
    BY <1>2
  <1>. QED BY <1>1, <1>2, <1>3, <1>4, <1>5
           DEF Init, Abstract!Init, Abstract!Pairs, Abstract!Consistent,
               Abstract!NoFiles, Abstract!NoCall, Pairs, Consistent, NoFiles,
               NoCall

LEMMA StepImplements ==
    ASSUME OrderedMetadata
    PROVE  IInv /\ [Next]_vars => [Abstract!Next]_(Abstract!vars)
  <1>1. SUFFICES ASSUME IInv, [Next]_vars
                 PROVE  Abstract!Next \/ UNCHANGED Abstract!vars
    OBVIOUS
  <1>2. Silent => UNCHANGED Abstract!vars
    BY <1>1, SilentWrite DEF Silent, IInv
  <1>3. ASSUME NEW p \in Procs, BeginLoad(p) \/ BeginSave(p) \/ BeginRestore(p)
        PROVE  Abstract!Next
    BY <1>1, <1>3, BeginRequests DEF Abstract!Next
  <1>4. CASE Recovery
    BY <1>1, <1>2, <1>4, DecisionsStutter, SilentDocuments, SilentOriginals,
       SilentMarkers, SyncSettles DEF Recovery, Abstract!Next
  <1>5. CASE Read
    BY <1>1, <1>5, ReadLoads DEF Abstract!Next
  <1>6. CASE SaveStep
    BY <1>1, <1>2, <1>6, DecisionsStutter, SilentDocuments, SilentBindings,
       SilentOriginals, SilentMarkers, SyncSettles, CommitPublishes
    DEF SaveStep, Abstract!Next
  <1>7. CASE RestoreStep
    BY <1>1, <1>2, <1>7, DecisionsStutter, SilentOriginals, SyncSettles,
       InstallPublishes, RemovalPublishes DEF RestoreStep, Abstract!Next
  <1>8. CASE Release
    BY <1>8, ReleaseReplies DEF Abstract!Next
  <1>9. ASSUME NEW p \in Procs, Crash(p) PROVE Abstract!Next
    BY <1>9, CrashCrashes DEF Abstract!Next
  <1>10. CASE PowerLoss
    BY <1>10, PowerLossLoses DEF Abstract!Next
  <1>11. CASE UNCHANGED vars
    BY <1>11 DEF vars, Abstract!vars, Logical
  <1>. QED BY <1>1, <1>3, <1>4, <1>5, <1>6, <1>7, <1>8, <1>9, <1>10, <1>11
           DEF Next, Step

\* To its callers the journal is a register that is read whole and written by
\* compare-and-swap, across kills and power losses.
THEOREM StoreImplementsRegister ==
    ASSUME OrderedMetadata PROVE Spec => ImplementsRegister
  <1>1. Init => Abstract!Init
    BY InitImplements
  <1>2. IInv /\ [Next]_vars => [Abstract!Next]_(Abstract!vars)
    BY StepImplements
  <1>. QED BY <1>1, <1>2, Invariance, PTL
           DEF Spec, ImplementsRegister, Abstract!Spec

-----------------------------------------------------------------------------
(* What a save reports under Spec.  IInv says what a loader is given; that *)
(* a save which returned is the one that gave it needs to be known from    *)
(* the committed marker to the reply.                                      *)

Restoring == {"restoreModel", "restoreBinding", "restoreSync", "finishMark"}
Cleaning == {"cleanModel", "cleanBinding", "cleanMarker", "cleanSync"}

\* All that a power loss may leave shows the pair the call published.
Durable == \A d \in survivors : Logical(d) = Published(call)

SaveInv ==
    call.kind = "save" =>
        /\ pc \in Restoring \cup {"recover", "finishSync", "compare"} =>
              ret = "compare"
        /\ pc # "release" => outcome = "ok"
        /\ pc = "commitSync" => Logical(disk) = Published(call)
        /\ pc \in Cleaning /\ ret = "release" => Durable
        /\ pc = "release" =>
              \/ outcome = "ok" /\ Durable
              \/ outcome = "error" /\ ret = "compare"

LEMMA RecoveryIsTruthful ==
    ASSUME IInv, SaveInv,
           \/ Recover \/ RestoreModel \/ RestoreBinding \/ RestoreSync
           \/ FinishMark \/ FinishSync
    PROVE  SaveInv'
  <1>1. UNCHANGED <<call, ret>>
    BY DEF Recover, RestoreModel, RestoreBinding, RestoreSync, FinishMark,
       FinishSync, At, Goto, Raise, locals
  <1>2. \/ pc' \in Restoring \cup {"finishSync", "cleanModel", ret}
           /\ UNCHANGED outcome
        \/ pc' = "release" /\ outcome' = "error"
    BY DEF Recover, RestoreModel, RestoreBinding, RestoreSync, FinishMark,
       FinishSync, At, Goto, Raise, locals, Restoring
  <1>3. pc \in Restoring \cup {"recover", "finishSync"}
    BY DEF Recover, RestoreModel, RestoreBinding, RestoreSync, FinishMark,
       FinishSync, At, Restoring
  <1>. QED BY <1>1, <1>2, <1>3 DEF SaveInv, Restoring, Cleaning

LEMMA CleanupIsTruthful ==
    ASSUME OrderedMetadata, IInv, SaveInv,
           CleanModel \/ CleanBinding \/ CleanMarker
    PROVE  SaveInv'
  <1>1. Silent
    BY SilentOriginals, SilentMarkers
  <1>2. /\ pc \in Cleaning /\ pc' \in Cleaning
        /\ UNCHANGED <<call, ret, outcome>>
    BY DEF CleanModel, CleanBinding, CleanMarker, At, Goto, locals, Cleaning
  <1>3. ASSUME Durable PROVE Durable'
    <2>1. Logical(disk) = Published(call)
      BY <1>3 DEF Durable, IInv, Survivable
    <2>. QED BY <1>1, <1>2, <1>3, <2>1 DEF Silent, Durable, Logical
  <1>. QED BY <1>2, <1>3 DEF SaveInv, Restoring, Cleaning

LEMMA CleanSyncIsTruthful == ASSUME IInv, SaveInv, CleanSync PROVE SaveInv'
  <1>1. /\ pc = "cleanSync" /\ pc' = ret /\ disk' = disk /\ survivors' = {disk}
        /\ UNCHANGED <<call, ret, outcome>>
    BY DEF CleanSync, Sync, At, Goto, locals
  <1>2. Durable => Durable'
    BY <1>1 DEF Durable, IInv, Survivable
  <1>. QED BY <1>1, <1>2 DEF SaveInv, IInv, CallInv, RecoveryLocations,
           Restoring, Cleaning

LEMMA CommitIsTruthful ==
    ASSUME OrderedMetadata, IInv, SaveInv, CommitMark \/ CommitSync
    PROVE  SaveInv'
  <1>1. UNCHANGED <<call, ret, outcome>>
    BY DEF CommitMark, CommitSync, At, Goto, locals
  <1>2. CASE CommitMark
    <2>1. Logical(disk)' = Published(call)'
      BY <1>1, <1>2, CommitPublishes
      DEF Abstract!Save, Abstract!Publish, Abstract!Published,
          Abstract!Payload, Published, Payload
    <2>. QED BY <1>1, <1>2, <2>1 DEF CommitMark, At, Goto, SaveInv, Restoring,
             Cleaning
  <1>3. CASE CommitSync
    <2>1. /\ pc = "commitSync" /\ pc' = "cleanModel"
          /\ survivors' = {disk}
      BY <1>3 DEF CommitSync, Sync, At, Goto
    <2>2. call.kind = "save" => Durable'
      BY <1>1, <2>1 DEF SaveInv, Durable
    <2>. QED BY <1>1, <2>1, <2>2 DEF SaveInv, Restoring, Cleaning
  <1>. QED BY <1>2, <1>3

LEMMA CompareIsTruthful == ASSUME IInv, SaveInv, Compare PROVE SaveInv'
  BY DEF SaveInv, Compare, At, Raise, Restoring, Cleaning

LEMMA PublishingIsTruthful ==
    ASSUME SaveInv,
           \/ OrigModel \/ OrigBinding \/ OrigSync \/ PendingMark
           \/ PendingSync \/ PubBinding \/ PubModel \/ PubSync
    PROVE  SaveInv'
  <1>1. /\ pc # "release" /\ UNCHANGED <<call, ret, outcome>>
        /\ pc' \in SaveLocations
    BY DEF OrigModel, OrigBinding, OrigSync, PendingMark, PendingSync,
       PubBinding, PubModel, PubSync, At, Goto, locals, SaveLocations
  <1>2. pc' # "commitSync"
    BY DEF OrigModel, OrigBinding, OrigSync, PendingMark, PendingSync,
       PubBinding, PubModel, PubSync, Goto
  <1>. QED BY <1>1, <1>2 DEF SaveInv, SaveLocations, Restoring, Cleaning

\* The other calls are not saves.
LEMMA OthersAreTruthful ==
    ASSUME IInv, SaveInv, Read \/ RestoreStep
    PROVE  SaveInv'
  <1>1. pc \in {"read", "check"} \cup DropLocations \cup InstallLocations
    BY DEF Read, RestoreStep, Check, DropBinding, DropModel, DropSync,
       InstModel, InstBinding, InstMark, InstSync, At, DropLocations,
       InstallLocations
  <1>2. UNCHANGED call
    BY DEF Read, RestoreStep, Check, DropBinding, DropModel, DropSync,
       InstModel, InstBinding, InstMark, InstSync, At, Goto, Raise, locals
  <1>3. call.kind # "save"
    BY <1>1 DEF IInv, CallInv
  <1>. QED BY <1>2, <1>3 DEF SaveInv

LEMMA StepSaveInv ==
    ASSUME OrderedMetadata
    PROVE  IInv /\ SaveInv /\ [Next]_vars => SaveInv'
  <1>1. SUFFICES ASSUME IInv, SaveInv, [Next]_vars PROVE SaveInv'
    OBVIOUS
  <1>2. ASSUME NEW p \in Procs, BeginLoad(p) \/ BeginSave(p) \/ BeginRestore(p)
        PROVE  SaveInv'
    <2>1. /\ pc' = "recover" /\ outcome' = "ok"
          /\ call'.kind = "save" => ret' = "compare"
      BY <1>2 DEF BeginLoad, BeginSave, BeginRestore, Begin
    <2>. QED BY <2>1 DEF SaveInv, Restoring, Cleaning
  <1>3. CASE Recovery
    BY <1>1, <1>3, RecoveryIsTruthful, CleanupIsTruthful, CleanSyncIsTruthful
    DEF Recovery
  <1>4. CASE Read \/ RestoreStep
    BY <1>1, <1>4, OthersAreTruthful
  <1>5. CASE SaveStep
    BY <1>1, <1>5, CompareIsTruthful, PublishingIsTruthful, CommitIsTruthful
    DEF SaveStep
  <1>6. CASE Release
    BY <1>6 DEF Release, SaveInv, NoCall
  <1>7. ASSUME NEW p \in Procs, Crash(p) PROVE SaveInv'
    <2>1. CASE owner = p
      BY <1>7, <2>1 DEF Crash, DropLocks, SaveInv, NoCall
    <2>2. CASE owner # p
      BY <1>1, <1>7, <2>2 DEF Crash, locals, SaveInv, Durable, Logical
    <2>. QED BY <2>1, <2>2
  <1>8. CASE PowerLoss
    BY <1>8 DEF PowerLoss, DropLocks, SaveInv, NoCall
  <1>9. CASE UNCHANGED vars
    BY <1>1, <1>9 DEF vars, SaveInv, Durable, Logical
  <1>. QED BY <1>1, <1>2, <1>3, <1>4, <1>5, <1>6, <1>7, <1>8, <1>9
           DEF Next, Step

\* A save that returns has published its pair for good, whatever power loss
\* follows; one that is refused for what it compared has changed nothing.
THEOREM SavesAreTruthful ==
    ASSUME OrderedMetadata PROVE Spec => []SaveIsTruthful
  <1>1. Init => SaveInv
    BY DEF Init, SaveInv, NoCall
  <1>2. IInv /\ SaveInv /\ [Next]_vars => SaveInv'
    BY StepSaveInv
  <1>3. SaveInv => SaveIsTruthful
    BY DEF SaveInv, SaveIsTruthful, Durable
  <1>. QED BY <1>1, <1>2, <1>3, Invariance, PTL DEF Spec

-----------------------------------------------------------------------------
(* Failing calls.  Under FaultSpec any call may fail, MaxFailures times in *)
(* all, and nothing crashes; the changes need not persist in order.  What  *)
(* a loader is given is here a matter of the directory alone, and neither  *)
(* IInv nor Journal survives: a failed cleanup forgets the marker, a       *)
(* failed rollback restores without one.                                   *)

\* Past the comparison a save always returns to release: recovery and cleanup
\* then work on its own journal.
InSave == call.kind = "save" /\ ret = "release"

Documents == <<disk.model, disk.binding>>
Safe == SafeDirectory(disk)

\* The recovery copies are those of the pair that the save found.
Copied ==
    /\ disk.modelOrig = call.expected[1]
    /\ disk.marker.existed = (call.expected[2] # Absent)
    /\ disk.marker.existed => disk.bindingOrig = call.expected[2]

\* What a save is about to report, and the documents that bear it out.
Undo ==
    /\ pc = "compare" => ret = "compare"
    /\ call.kind = "save" =>
        /\ pc = "recover" => ret = "compare"
        /\ ret # "release" /\ pc # "release" => outcome = "ok"
        /\ ret # "release" /\ pc = "release" => outcome = "error"
        /\ ret = "release" /\ outcome = "error" => failures >= 1
    /\ pc \in SaveLocations => outcome = "ok"
    /\ pc = "commitSync" =>
        /\ Copied /\ disk.marker.state = "committed"
        /\ Documents = Published(call)
    /\ pc = "rollbackMark" =>
        /\ InSave /\ Copied /\ outcome = "error"
        /\ \/ disk.marker.state = "pending"
           \/ disk.marker.state = "committed" /\ Documents = Published(call)
        /\ call.target \in Compatible
    /\ InSave /\ pc \in Restoring => Copied /\ outcome = "error"
    /\ InSave /\ pc = "finishSync" => Found /\ outcome = "error"
    /\ InSave /\ pc \in Cleaning =>
        \/ outcome = "ok" /\ Documents = Published(call) /\ Direct
        \/ /\ outcome = "error" /\ Found
           /\ \/ Direct
              \/ pc = "cleanModel" /\ Journalled
              \/ /\ pc \in {"cleanBinding", "cleanMarker"}
                 /\ disk.modelOrig = Absent

\* Journal, with what two failures may have made of the marker: a rollback
\* restores under the committed marker when it could not write its own, and
\* the cleanup of a save that failed before its marker was synced goes on
\* with the marker pending.
FaultJournal ==
    /\ pc \in Restoring =>
        \/ disk.marker.state = "pending"
        \/ InSave /\ failures >= 2 /\ disk.marker.state = "committed"
    /\ pc \in {"restoreBinding", "restoreSync", "finishMark"} =>
        disk.model = disk.modelOrig
    /\ pc \in {"restoreSync", "finishMark"} =>
        disk.binding =
            IF disk.marker.existed THEN disk.bindingOrig ELSE Absent
    /\ pc \in Cleaning \ {"cleanSync"} =>
        Direct \/ (InSave /\ outcome = "error")
    /\ pc \in {"finishSync", "cleanSync", "read", "compare", "check",
               "commitSync"} \cup DropLocations => Direct
    /\ pc \in {"origModel", "origBinding", "origSync", "pendingMark",
               "instModel", "instBinding", "instMark", "dropBinding"} =>
        Direct /\ Found
    /\ pc \in {"origBinding", "origSync", "pendingMark"} =>
        disk.modelOrig = disk.model
    /\ pc \in {"origSync", "pendingMark"} => disk.bindingOrig = disk.binding
    /\ pc \in {"pendingSync", "pubBinding", "pubModel", "pubSync",
               "commitMark"} => Journalled
    /\ pc \in {"pendingSync", "pubBinding"} => Documents = call.expected
    /\ pc \in {"pubModel", "pubSync", "commitMark"} =>
        disk.binding = Published(call)[2]
    /\ pc \in {"pubSync", "commitMark"} => disk.model = call.target[1]
    /\ pc \in {"instBinding", "instMark"} => disk.modelOrig = call.target[1]
    /\ pc = "instMark" => disk.bindingOrig = call.target[2]
    /\ pc = "dropModel" => Documents = <<call.expected[1], Absent>>

\* After one failure the directory is safe, but for the moment in which the
\* cleanup of a save that failed early has removed the copies and not yet the
\* marker; a second failure there wedges the store.
OneFailure ==
    failures <= 1 =>
        /\ \/ Safe
           \/ /\ pc \in {"cleanBinding", "cleanMarker"}
              /\ InSave /\ outcome = "error"
        /\ pc \in Cleaning => Consistent(Documents)
        /\ InSave /\ pc # "release" => Consistent(call.expected)

FaultIInv ==
    /\ TypeOK /\ OwnerInv /\ CallInv
    /\ Undo /\ FaultJournal /\ OneFailure
    /\ FailedSaveIsUndone

LEMMA RestoreBindingUnderFault ==
    ASSUME FaultIInv, RestoreBinding PROVE FaultIInv'
  <1>. USE DEF FaultIInv
  <1>1. /\ Put("binding",
               IF disk.marker.existed THEN disk.bindingOrig ELSE Absent)
        /\ pc = "restoreBinding" /\ pc' = "restoreSync"
        /\ UNCHANGED <<owner, snapshot, failures, ret, call, outcome>>
    BY DEF RestoreBinding, At, Goto, locals
  <1>2. /\ disk' \in Directories /\ survivors' \subseteq Directories
        /\ disk'.model = disk.model
        /\ disk'.binding =
               (IF disk.marker.existed THEN disk.bindingOrig ELSE Absent)
        /\ disk'.modelOrig = disk.modelOrig
        /\ disk'.bindingOrig = disk.bindingOrig
        /\ disk'.marker = disk.marker
    BY <1>1, PutBinding, TypeConsequences
  <1>3. TypeOK'
    BY <1>1, <1>2 DEF TypeOK, Locations
  <1>4. OwnerInv' /\ CallInv' /\ Undo' /\ FaultJournal'
    BY <1>1, <1>2, TypeConsequences, CallPairs
    DEF OwnerInv, CallInv, Undo, FaultJournal, RecoveryLocations, SaveLocations,
        DropLocations, InstallLocations, Restoring, Cleaning, InSave, Copied,
        Documents, Direct, Found, Journalled, NoFiles
  <1>5. OneFailure'
    BY <1>1, <1>2, TypeConsequences, CallPairs
    DEF OwnerInv, CallInv, Undo, FaultJournal, RecoveryLocations, SaveLocations,
        DropLocations, InstallLocations, Restoring, Cleaning, InSave, Copied,
        Documents, Direct, Found, Journalled, OneFailure, Safe, SafeDirectory,
        Wedged, Logical, NoFiles
  <1>6. FailedSaveIsUndone'
    BY <1>1, <1>2 DEF FailedSaveIsUndone
  <1>. QED BY <1>3, <1>4, <1>5, <1>6

LEMMA FinishMarkUnderFault ==
    ASSUME FaultIInv, FinishMark PROVE FaultIInv'
  <1>. USE DEF FaultIInv
  <1>1. /\ Put("marker", Marker("committed", disk.marker.existed))
        /\ pc = "finishMark" /\ pc' = "finishSync"
        /\ UNCHANGED <<owner, snapshot, failures, ret, call, outcome>>
    BY DEF FinishMark, At, Goto, locals
  <1>2. /\ disk' \in Directories /\ survivors' \subseteq Directories
        /\ disk'.model = disk.model
        /\ disk'.binding = disk.binding
        /\ disk'.modelOrig = disk.modelOrig
        /\ disk'.bindingOrig = disk.bindingOrig
        /\ disk'.marker.state = "committed"
        /\ disk'.marker.existed <=> (disk.marker.existed)
    BY <1>1, MarkerWrite, TypeConsequences
  <1>3. TypeOK'
    BY <1>1, <1>2 DEF TypeOK, Locations
  <1>4. OwnerInv' /\ CallInv' /\ Undo' /\ FaultJournal'
    BY <1>1, <1>2, TypeConsequences, CallPairs
    DEF OwnerInv, CallInv, Undo, FaultJournal, RecoveryLocations, SaveLocations,
        DropLocations, InstallLocations, Restoring, Cleaning, InSave, Copied,
        Documents, Direct, Found, Journalled, NoFiles
  <1>5. OneFailure'
    BY <1>1, <1>2, TypeConsequences, CallPairs
    DEF OwnerInv, CallInv, Undo, FaultJournal, RecoveryLocations, SaveLocations,
        DropLocations, InstallLocations, Restoring, Cleaning, InSave, Copied,
        Documents, Direct, Found, Journalled, OneFailure, Safe, SafeDirectory,
        Wedged, Logical, NoFiles
  <1>6. FailedSaveIsUndone'
    BY <1>1, <1>2 DEF FailedSaveIsUndone
  <1>. QED BY <1>3, <1>4, <1>5, <1>6

LEMMA CleanModelUnderFault ==
    ASSUME FaultIInv, CleanModel PROVE FaultIInv'
  <1>. USE DEF FaultIInv
  <1>1. /\ Put("modelOrig", Absent)
        /\ pc = "cleanModel" /\ pc' = "cleanBinding"
        /\ UNCHANGED <<owner, snapshot, failures, ret, call, outcome>>
    BY DEF CleanModel, At, Goto, locals
  <1>2. /\ disk' \in Directories /\ survivors' \subseteq Directories
        /\ disk'.model = disk.model
        /\ disk'.binding = disk.binding
        /\ disk'.modelOrig = Absent
        /\ disk'.bindingOrig = disk.bindingOrig
        /\ disk'.marker = disk.marker
    BY <1>1, PutModelOrig, TypeConsequences
  <1>3. TypeOK'
    BY <1>1, <1>2 DEF TypeOK, Locations
  <1>4. OwnerInv' /\ CallInv' /\ Undo' /\ FaultJournal'
    BY <1>1, <1>2, TypeConsequences, CallPairs
    DEF OwnerInv, CallInv, Undo, FaultJournal, RecoveryLocations, SaveLocations,
        DropLocations, InstallLocations, Restoring, Cleaning, InSave, Copied,
        Documents, Direct, Found, Journalled, NoFiles
  <1>5. OneFailure'
    BY <1>1, <1>2, TypeConsequences, CallPairs
    DEF OwnerInv, CallInv, Undo, FaultJournal, RecoveryLocations, SaveLocations,
        DropLocations, InstallLocations, Restoring, Cleaning, InSave, Copied,
        Documents, Direct, Found, Journalled, OneFailure, Safe, SafeDirectory,
        Wedged, Logical, NoFiles
  <1>6. FailedSaveIsUndone'
    BY <1>1, <1>2 DEF FailedSaveIsUndone
  <1>. QED BY <1>3, <1>4, <1>5, <1>6

LEMMA CleanBindingUnderFault ==
    ASSUME FaultIInv, CleanBinding PROVE FaultIInv'
  <1>. USE DEF FaultIInv
  <1>1. /\ Put("bindingOrig", Absent)
        /\ pc = "cleanBinding" /\ pc' = "cleanMarker"
        /\ UNCHANGED <<owner, snapshot, failures, ret, call, outcome>>
    BY DEF CleanBinding, At, Goto, locals
  <1>2. /\ disk' \in Directories /\ survivors' \subseteq Directories
        /\ disk'.model = disk.model
        /\ disk'.binding = disk.binding
        /\ disk'.modelOrig = disk.modelOrig
        /\ disk'.bindingOrig = Absent
        /\ disk'.marker = disk.marker
    BY <1>1, PutBindingOrig, TypeConsequences
  <1>3. TypeOK'
    BY <1>1, <1>2 DEF TypeOK, Locations
  <1>4. OwnerInv' /\ CallInv' /\ Undo' /\ FaultJournal'
    BY <1>1, <1>2, TypeConsequences, CallPairs
    DEF OwnerInv, CallInv, Undo, FaultJournal, RecoveryLocations, SaveLocations,
        DropLocations, InstallLocations, Restoring, Cleaning, InSave, Copied,
        Documents, Direct, Found, Journalled, NoFiles
  <1>5. OneFailure'
    BY <1>1, <1>2, TypeConsequences, CallPairs
    DEF OwnerInv, CallInv, Undo, FaultJournal, RecoveryLocations, SaveLocations,
        DropLocations, InstallLocations, Restoring, Cleaning, InSave, Copied,
        Documents, Direct, Found, Journalled, OneFailure, Safe, SafeDirectory,
        Wedged, Logical, NoFiles
  <1>6. FailedSaveIsUndone'
    BY <1>1, <1>2 DEF FailedSaveIsUndone
  <1>. QED BY <1>3, <1>4, <1>5, <1>6

LEMMA CleanMarkerUnderFault ==
    ASSUME FaultIInv, CleanMarker PROVE FaultIInv'
  <1>. USE DEF FaultIInv
  <1>1. /\ Put("marker", Marker("none", FALSE))
        /\ pc = "cleanMarker" /\ pc' = "cleanSync"
        /\ UNCHANGED <<owner, snapshot, failures, ret, call, outcome>>
    BY DEF CleanMarker, At, Goto, locals, NoMarker, Marker
  <1>2. /\ disk' \in Directories /\ survivors' \subseteq Directories
        /\ disk'.model = disk.model
        /\ disk'.binding = disk.binding
        /\ disk'.modelOrig = disk.modelOrig
        /\ disk'.bindingOrig = disk.bindingOrig
        /\ disk'.marker.state = "none"
        /\ disk'.marker.existed <=> (FALSE)
    BY <1>1, MarkerWrite, TypeConsequences
  <1>3. TypeOK'
    BY <1>1, <1>2 DEF TypeOK, Locations
  <1>4. OwnerInv' /\ CallInv' /\ Undo' /\ FaultJournal'
    BY <1>1, <1>2, TypeConsequences, CallPairs
    DEF OwnerInv, CallInv, Undo, FaultJournal, RecoveryLocations, SaveLocations,
        DropLocations, InstallLocations, Restoring, Cleaning, InSave, Copied,
        Documents, Direct, Found, Journalled, NoFiles
  <1>5. OneFailure'
    BY <1>1, <1>2, TypeConsequences, CallPairs
    DEF OwnerInv, CallInv, Undo, FaultJournal, RecoveryLocations, SaveLocations,
        DropLocations, InstallLocations, Restoring, Cleaning, InSave, Copied,
        Documents, Direct, Found, Journalled, OneFailure, Safe, SafeDirectory,
        Wedged, Logical, NoFiles
  <1>6. FailedSaveIsUndone'
    BY <1>1, <1>2 DEF FailedSaveIsUndone
  <1>. QED BY <1>3, <1>4, <1>5, <1>6

LEMMA OrigModelUnderFault ==
    ASSUME FaultIInv, OrigModel PROVE FaultIInv'
  <1>. USE DEF FaultIInv
  <1>1. /\ Put("modelOrig", disk.model)
        /\ pc = "origModel" /\ pc' = "origBinding"
        /\ UNCHANGED <<owner, snapshot, failures, ret, call, outcome>>
    BY DEF OrigModel, At, Goto, locals
  <1>2. /\ disk' \in Directories /\ survivors' \subseteq Directories
        /\ disk'.model = disk.model
        /\ disk'.binding = disk.binding
        /\ disk'.modelOrig = disk.model
        /\ disk'.bindingOrig = disk.bindingOrig
        /\ disk'.marker = disk.marker
    BY <1>1, PutModelOrig, TypeConsequences
  <1>3. TypeOK'
    BY <1>1, <1>2 DEF TypeOK, Locations
  <1>4. OwnerInv' /\ CallInv' /\ Undo' /\ FaultJournal'
    BY <1>1, <1>2, TypeConsequences, CallPairs
    DEF OwnerInv, CallInv, Undo, FaultJournal, RecoveryLocations, SaveLocations,
        DropLocations, InstallLocations, Restoring, Cleaning, InSave, Copied,
        Documents, Direct, Found, Journalled, NoFiles
  <1>5. OneFailure'
    BY <1>1, <1>2, TypeConsequences, CallPairs
    DEF OwnerInv, CallInv, Undo, FaultJournal, RecoveryLocations, SaveLocations,
        DropLocations, InstallLocations, Restoring, Cleaning, InSave, Copied,
        Documents, Direct, Found, Journalled, OneFailure, Safe, SafeDirectory,
        Wedged, Logical, NoFiles
  <1>6. FailedSaveIsUndone'
    BY <1>1, <1>2 DEF FailedSaveIsUndone
  <1>. QED BY <1>3, <1>4, <1>5, <1>6

LEMMA OrigBindingUnderFault ==
    ASSUME FaultIInv, OrigBinding PROVE FaultIInv'
  <1>. USE DEF FaultIInv
  <1>1. /\ Put("bindingOrig", disk.binding)
        /\ pc = "origBinding" /\ pc' = "origSync"
        /\ UNCHANGED <<owner, snapshot, failures, ret, call, outcome>>
    BY DEF OrigBinding, At, Goto, locals
  <1>2. /\ disk' \in Directories /\ survivors' \subseteq Directories
        /\ disk'.model = disk.model
        /\ disk'.binding = disk.binding
        /\ disk'.modelOrig = disk.modelOrig
        /\ disk'.bindingOrig = disk.binding
        /\ disk'.marker = disk.marker
    BY <1>1, PutBindingOrig, TypeConsequences
  <1>3. TypeOK'
    BY <1>1, <1>2 DEF TypeOK, Locations
  <1>4. OwnerInv' /\ CallInv' /\ Undo' /\ FaultJournal'
    BY <1>1, <1>2, TypeConsequences, CallPairs
    DEF OwnerInv, CallInv, Undo, FaultJournal, RecoveryLocations, SaveLocations,
        DropLocations, InstallLocations, Restoring, Cleaning, InSave, Copied,
        Documents, Direct, Found, Journalled, NoFiles
  <1>5. OneFailure'
    BY <1>1, <1>2, TypeConsequences, CallPairs
    DEF OwnerInv, CallInv, Undo, FaultJournal, RecoveryLocations, SaveLocations,
        DropLocations, InstallLocations, Restoring, Cleaning, InSave, Copied,
        Documents, Direct, Found, Journalled, OneFailure, Safe, SafeDirectory,
        Wedged, Logical, NoFiles
  <1>6. FailedSaveIsUndone'
    BY <1>1, <1>2 DEF FailedSaveIsUndone
  <1>. QED BY <1>3, <1>4, <1>5, <1>6

LEMMA PendingMarkUnderFault ==
    ASSUME FaultIInv, PendingMark PROVE FaultIInv'
  <1>. USE DEF FaultIInv
  <1>1. /\ Put("marker", Marker("pending", disk.binding # Absent))
        /\ pc = "pendingMark" /\ pc' = "pendingSync"
        /\ UNCHANGED <<owner, snapshot, failures, ret, call, outcome>>
    BY DEF PendingMark, At, Goto, locals
  <1>2. /\ disk' \in Directories /\ survivors' \subseteq Directories
        /\ disk'.model = disk.model
        /\ disk'.binding = disk.binding
        /\ disk'.modelOrig = disk.modelOrig
        /\ disk'.bindingOrig = disk.bindingOrig
        /\ disk'.marker = Marker("pending", disk.binding # Absent)
    BY <1>1, PutMarker, TypeConsequences DEF Marker
  <1>3. TypeOK'
    BY <1>1, <1>2 DEF TypeOK, Locations
  <1>4. OwnerInv' /\ CallInv' /\ Undo' /\ FaultJournal'
    BY <1>1, <1>2, TypeConsequences, CallPairs
    DEF OwnerInv, CallInv, Undo, FaultJournal, RecoveryLocations, SaveLocations,
        DropLocations, InstallLocations, Restoring, Cleaning, InSave, Copied,
        Documents, Direct, Found, Journalled, NoFiles, Marker
  <1>5. OneFailure'
    <2>1. /\ Direct
          /\ disk.modelOrig = disk.model /\ disk.bindingOrig = disk.binding
          /\ disk.model # Absent
      BY <1>1, CallPairs DEF FaultJournal, CallInv, SaveLocations, Found
    <2>2. /\ disk'.marker.state = "pending"
          /\ disk'.marker.existed <=> disk.binding # Absent
      BY <1>2, MarkerFields
    <2>5. Logical(disk)' = <<disk.model, disk.binding>> /\ ~Wedged(disk)'
      BY <1>2, <2>1, <2>2 DEF Logical, Wedged
    <2>3. Logical(disk) = <<disk.model, disk.binding>>
      BY <2>1 DEF Logical, Direct
    <2>. QED BY <1>1, <1>2, <2>2, <2>5, <2>3, TypeConsequences, CallPairs
             DEF OwnerInv, CallInv, Undo, FaultJournal, RecoveryLocations,
                 SaveLocations, DropLocations, InstallLocations, Restoring,
                 Cleaning, InSave, Copied, Documents, Direct, Found, Journalled,
                 OneFailure, Safe, SafeDirectory, Wedged, Logical, NoFiles,
                 Marker
  <1>6. FailedSaveIsUndone'
    BY <1>1, <1>2 DEF FailedSaveIsUndone
  <1>. QED BY <1>3, <1>4, <1>5, <1>6

LEMMA PubModelUnderFault ==
    ASSUME FaultIInv, PubModel PROVE FaultIInv'
  <1>. USE DEF FaultIInv
  <1>1. /\ Put("model", call.target[1])
        /\ pc = "pubModel" /\ pc' = "pubSync"
        /\ UNCHANGED <<owner, snapshot, failures, ret, call, outcome>>
    BY DEF PubModel, At, Goto, locals
  <1>2. /\ disk' \in Directories /\ survivors' \subseteq Directories
        /\ disk'.model = call.target[1]
        /\ disk'.binding = disk.binding
        /\ disk'.modelOrig = disk.modelOrig
        /\ disk'.bindingOrig = disk.bindingOrig
        /\ disk'.marker = disk.marker
    BY <1>1, PutModel, TypeConsequences
  <1>3. TypeOK'
    BY <1>1, <1>2 DEF TypeOK, Locations
  <1>4. OwnerInv' /\ CallInv' /\ Undo' /\ FaultJournal'
    BY <1>1, <1>2, TypeConsequences, CallPairs
    DEF OwnerInv, CallInv, Undo, FaultJournal, RecoveryLocations, SaveLocations,
        DropLocations, InstallLocations, Restoring, Cleaning, InSave, Copied,
        Documents, Direct, Found, Journalled, NoFiles
  <1>5. OneFailure'
    BY <1>1, <1>2, TypeConsequences, CallPairs
    DEF OwnerInv, CallInv, Undo, FaultJournal, RecoveryLocations, SaveLocations,
        DropLocations, InstallLocations, Restoring, Cleaning, InSave, Copied,
        Documents, Direct, Found, Journalled, OneFailure, Safe, SafeDirectory,
        Wedged, Logical, NoFiles
  <1>6. FailedSaveIsUndone'
    BY <1>1, <1>2 DEF FailedSaveIsUndone
  <1>. QED BY <1>3, <1>4, <1>5, <1>6

LEMMA CommitMarkUnderFault ==
    ASSUME FaultIInv, CommitMark PROVE FaultIInv'
  <1>. USE DEF FaultIInv
  <1>1. /\ Put("marker", Marker("committed", disk.marker.existed))
        /\ pc = "commitMark" /\ pc' = "commitSync"
        /\ UNCHANGED <<owner, snapshot, failures, ret, call, outcome>>
    BY DEF CommitMark, At, Goto, locals
  <1>2. /\ disk' \in Directories /\ survivors' \subseteq Directories
        /\ disk'.model = disk.model
        /\ disk'.binding = disk.binding
        /\ disk'.modelOrig = disk.modelOrig
        /\ disk'.bindingOrig = disk.bindingOrig
        /\ disk'.marker = Marker("committed", disk.marker.existed)
    BY <1>1, PutMarker, TypeConsequences DEF Marker
  <1>3. TypeOK'
    BY <1>1, <1>2 DEF TypeOK, Locations
  <1>4. OwnerInv' /\ CallInv' /\ Undo' /\ FaultJournal'
    BY <1>1, <1>2, TypeConsequences, CallPairs
    DEF Published, OwnerInv, CallInv, Undo, FaultJournal, RecoveryLocations,
        SaveLocations, DropLocations, InstallLocations, Restoring, Cleaning,
        InSave, Copied, Documents, Direct, Found, Journalled, NoFiles, Marker
  <1>5. OneFailure'
    <2>1. Documents' = Published(call)
      BY <1>1, <1>2 DEF FaultJournal, Documents, Published
    <2>2. Consistent(Published(call))
      BY <1>1, CallPairs
      DEF CallInv, SaveLocations, Consistent, Published, Payload
    <2>. QED BY <1>1, <1>2, <2>1, <2>2, TypeConsequences, CallPairs
             DEF OwnerInv, CallInv, Undo, FaultJournal, RecoveryLocations,
                 SaveLocations, DropLocations, InstallLocations, Restoring,
                 Cleaning, InSave, Copied, Documents, Direct, Found, Journalled,
                 OneFailure, Safe, SafeDirectory, Wedged, Logical, NoFiles,
                 Marker
  <1>6. FailedSaveIsUndone'
    BY <1>1, <1>2 DEF FailedSaveIsUndone
  <1>. QED BY <1>3, <1>4, <1>5, <1>6

LEMMA DropBindingUnderFault ==
    ASSUME FaultIInv, DropBinding PROVE FaultIInv'
  <1>. USE DEF FaultIInv
  <1>1. /\ Put("binding", Absent)
        /\ pc = "dropBinding" /\ pc' = "dropModel"
        /\ UNCHANGED <<owner, snapshot, failures, ret, call, outcome>>
    BY DEF DropBinding, At, Goto, locals
  <1>2. /\ disk' \in Directories /\ survivors' \subseteq Directories
        /\ disk'.model = disk.model
        /\ disk'.binding = Absent
        /\ disk'.modelOrig = disk.modelOrig
        /\ disk'.bindingOrig = disk.bindingOrig
        /\ disk'.marker = disk.marker
    BY <1>1, PutBinding, TypeConsequences
  <1>3. TypeOK'
    BY <1>1, <1>2 DEF TypeOK, Locations
  <1>4. OwnerInv' /\ CallInv' /\ Undo' /\ FaultJournal'
    BY <1>1, <1>2, TypeConsequences, CallPairs
    DEF OwnerInv, CallInv, Undo, FaultJournal, RecoveryLocations, SaveLocations,
        DropLocations, InstallLocations, Restoring, Cleaning, InSave, Copied,
        Documents, Direct, Found, Journalled, NoFiles
  <1>5. OneFailure'
    <2>1. Found
      BY <1>1 DEF FaultJournal
    <2>2. Consistent(<<disk.model, Absent>>)
      BY <2>1, TypeConsequences, CallPairs DEF Consistent, NoFiles, Found
    <2>. QED BY <1>1, <1>2, <2>2, TypeConsequences, CallPairs
             DEF OwnerInv, CallInv, Undo, FaultJournal, RecoveryLocations,
                 SaveLocations, DropLocations, InstallLocations, Restoring,
                 Cleaning, InSave, Copied, Documents, Direct, Found, Journalled,
                 OneFailure, Safe, SafeDirectory, Wedged, Logical, NoFiles
  <1>6. FailedSaveIsUndone'
    BY <1>1, <1>2 DEF FailedSaveIsUndone
  <1>. QED BY <1>3, <1>4, <1>5, <1>6

LEMMA DropModelUnderFault ==
    ASSUME FaultIInv, DropModel PROVE FaultIInv'
  <1>. USE DEF FaultIInv
  <1>1. /\ Put("model", Absent)
        /\ pc = "dropModel" /\ pc' = "dropSync"
        /\ UNCHANGED <<owner, snapshot, failures, ret, call, outcome>>
    BY DEF DropModel, At, Goto, locals
  <1>2. /\ disk' \in Directories /\ survivors' \subseteq Directories
        /\ disk'.model = Absent
        /\ disk'.binding = disk.binding
        /\ disk'.modelOrig = disk.modelOrig
        /\ disk'.bindingOrig = disk.bindingOrig
        /\ disk'.marker = disk.marker
    BY <1>1, PutModel, TypeConsequences
  <1>3. TypeOK'
    BY <1>1, <1>2 DEF TypeOK, Locations
  <1>4. OwnerInv' /\ CallInv' /\ Undo' /\ FaultJournal'
    BY <1>1, <1>2, TypeConsequences, CallPairs
    DEF OwnerInv, CallInv, Undo, FaultJournal, RecoveryLocations, SaveLocations,
        DropLocations, InstallLocations, Restoring, Cleaning, InSave, Copied,
        Documents, Direct, Found, Journalled, NoFiles
  <1>5. OneFailure'
    BY <1>1, <1>2, TypeConsequences, CallPairs
    DEF OwnerInv, CallInv, Undo, FaultJournal, RecoveryLocations, SaveLocations,
        DropLocations, InstallLocations, Restoring, Cleaning, InSave, Copied,
        Documents, Direct, Found, Journalled, OneFailure, Safe, SafeDirectory,
        Wedged, Logical, NoFiles
  <1>6. FailedSaveIsUndone'
    BY <1>1, <1>2 DEF FailedSaveIsUndone
  <1>. QED BY <1>3, <1>4, <1>5, <1>6

LEMMA InstModelUnderFault ==
    ASSUME FaultIInv, InstModel PROVE FaultIInv'
  <1>. USE DEF FaultIInv
  <1>1. /\ Put("modelOrig", call.target[1])
        /\ pc = "instModel" /\ pc' = "instBinding"
        /\ UNCHANGED <<owner, snapshot, failures, ret, call, outcome>>
    BY DEF InstModel, At, Goto, locals
  <1>2. /\ disk' \in Directories /\ survivors' \subseteq Directories
        /\ disk'.model = disk.model
        /\ disk'.binding = disk.binding
        /\ disk'.modelOrig = call.target[1]
        /\ disk'.bindingOrig = disk.bindingOrig
        /\ disk'.marker = disk.marker
    BY <1>1, PutModelOrig, TypeConsequences
  <1>3. TypeOK'
    BY <1>1, <1>2 DEF TypeOK, Locations
  <1>4. OwnerInv' /\ CallInv' /\ Undo' /\ FaultJournal'
    BY <1>1, <1>2, TypeConsequences, CallPairs
    DEF OwnerInv, CallInv, Undo, FaultJournal, RecoveryLocations, SaveLocations,
        DropLocations, InstallLocations, Restoring, Cleaning, InSave, Copied,
        Documents, Direct, Found, Journalled, NoFiles
  <1>5. OneFailure'
    BY <1>1, <1>2, TypeConsequences, CallPairs
    DEF OwnerInv, CallInv, Undo, FaultJournal, RecoveryLocations, SaveLocations,
        DropLocations, InstallLocations, Restoring, Cleaning, InSave, Copied,
        Documents, Direct, Found, Journalled, OneFailure, Safe, SafeDirectory,
        Wedged, Logical, NoFiles
  <1>6. FailedSaveIsUndone'
    BY <1>1, <1>2 DEF FailedSaveIsUndone
  <1>. QED BY <1>3, <1>4, <1>5, <1>6

LEMMA InstBindingUnderFault ==
    ASSUME FaultIInv, InstBinding PROVE FaultIInv'
  <1>. USE DEF FaultIInv
  <1>1. /\ Put("bindingOrig", call.target[2])
        /\ pc = "instBinding" /\ pc' = "instMark"
        /\ UNCHANGED <<owner, snapshot, failures, ret, call, outcome>>
    BY DEF InstBinding, At, Goto, locals
  <1>2. /\ disk' \in Directories /\ survivors' \subseteq Directories
        /\ disk'.model = disk.model
        /\ disk'.binding = disk.binding
        /\ disk'.modelOrig = disk.modelOrig
        /\ disk'.bindingOrig = call.target[2]
        /\ disk'.marker = disk.marker
    BY <1>1, PutBindingOrig, TypeConsequences
  <1>3. TypeOK'
    BY <1>1, <1>2 DEF TypeOK, Locations
  <1>4. OwnerInv' /\ CallInv' /\ Undo' /\ FaultJournal'
    BY <1>1, <1>2, TypeConsequences, CallPairs
    DEF OwnerInv, CallInv, Undo, FaultJournal, RecoveryLocations, SaveLocations,
        DropLocations, InstallLocations, Restoring, Cleaning, InSave, Copied,
        Documents, Direct, Found, Journalled, NoFiles
  <1>5. OneFailure'
    BY <1>1, <1>2, TypeConsequences, CallPairs
    DEF OwnerInv, CallInv, Undo, FaultJournal, RecoveryLocations, SaveLocations,
        DropLocations, InstallLocations, Restoring, Cleaning, InSave, Copied,
        Documents, Direct, Found, Journalled, OneFailure, Safe, SafeDirectory,
        Wedged, Logical, NoFiles
  <1>6. FailedSaveIsUndone'
    BY <1>1, <1>2 DEF FailedSaveIsUndone
  <1>. QED BY <1>3, <1>4, <1>5, <1>6

LEMMA InstMarkUnderFault ==
    ASSUME FaultIInv, InstMark PROVE FaultIInv'
  <1>. USE DEF FaultIInv
  <1>1. /\ Put("marker", Marker("pending", call.target[2] # Absent))
        /\ pc = "instMark" /\ pc' = "instSync"
        /\ UNCHANGED <<owner, snapshot, failures, ret, call, outcome>>
    BY DEF InstMark, At, Goto, locals
  <1>2. /\ disk' \in Directories /\ survivors' \subseteq Directories
        /\ disk'.model = disk.model
        /\ disk'.binding = disk.binding
        /\ disk'.modelOrig = disk.modelOrig
        /\ disk'.bindingOrig = disk.bindingOrig
        /\ disk'.marker.state = "pending"
        /\ disk'.marker.existed <=> (call.target[2] # Absent)
    BY <1>1, MarkerWrite, TypeConsequences
  <1>3. TypeOK'
    BY <1>1, <1>2 DEF TypeOK, Locations
  <1>4. OwnerInv' /\ CallInv' /\ Undo' /\ FaultJournal'
    BY <1>1, <1>2, TypeConsequences, CallPairs
    DEF OwnerInv, CallInv, Undo, FaultJournal, RecoveryLocations, SaveLocations,
        DropLocations, InstallLocations, Restoring, Cleaning, InSave, Copied,
        Documents, Direct, Found, Journalled, NoFiles
  <1>5. OneFailure'
    <2>1. /\ call.target # NoFiles /\ Consistent(call.target)
          /\ disk.modelOrig = call.target[1]
          /\ disk.bindingOrig = call.target[2]
      BY <1>1 DEF CallInv, InstallLocations, FaultJournal
    <2>2. call.target[1] # Absent
      BY <2>1, CallPairs DEF Consistent, NoFiles
    <2>3. Logical(disk)' = call.target /\ ~Wedged(disk)'
      BY <1>2, <2>1, <2>2, CallPairs DEF Logical, Wedged
    <2>4. Consistent(Logical(disk)')
      BY <2>1, <2>3
    <2>. QED BY <1>1, <1>2, <2>3, <2>4, TypeConsequences, CallPairs
             DEF OwnerInv, CallInv, Undo, FaultJournal, RecoveryLocations,
                 SaveLocations, DropLocations, InstallLocations, Restoring,
                 Cleaning, InSave, Copied, Documents, Direct, Found, Journalled,
                 OneFailure, Safe, SafeDirectory, Wedged, Logical, NoFiles
  <1>6. FailedSaveIsUndone'
    BY <1>1, <1>2 DEF FailedSaveIsUndone
  <1>. QED BY <1>3, <1>4, <1>5, <1>6

LEMMA RollbackMarkUnderFault ==
    ASSUME FaultIInv, RollbackMark PROVE FaultIInv'
  <1>. USE DEF FaultIInv
  <1>1. /\ Put("marker", Marker("pending", disk.marker.existed))
        /\ pc = "rollbackMark" /\ pc' = "restoreModel"
        /\ UNCHANGED <<owner, snapshot, failures, ret, call, outcome>>
    BY DEF RollbackMark, At, Goto, locals
  <1>2. /\ disk' \in Directories /\ survivors' \subseteq Directories
        /\ disk'.model = disk.model
        /\ disk'.binding = disk.binding
        /\ disk'.modelOrig = disk.modelOrig
        /\ disk'.bindingOrig = disk.bindingOrig
        /\ disk'.marker = Marker("pending", disk.marker.existed)
    BY <1>1, PutMarker, TypeConsequences DEF Marker
  <1>3. TypeOK'
    BY <1>1, <1>2 DEF TypeOK, Locations
  <1>4. OwnerInv' /\ CallInv' /\ Undo' /\ FaultJournal'
    BY <1>1, <1>2, TypeConsequences, CallPairs
    DEF OwnerInv, CallInv, Undo, FaultJournal, RecoveryLocations, SaveLocations,
        DropLocations, InstallLocations, Restoring, Cleaning, InSave, Copied,
        Documents, Direct, Found, Journalled, NoFiles, Marker
  <1>5. OneFailure'
    BY <1>1, <1>2, TypeConsequences, CallPairs
    DEF OwnerInv, CallInv, Undo, FaultJournal, RecoveryLocations, SaveLocations,
        DropLocations, InstallLocations, Restoring, Cleaning, InSave, Copied,
        Documents, Direct, Found, Journalled, OneFailure, Safe, SafeDirectory,
        Wedged, Logical, NoFiles, Marker
  <1>6. FailedSaveIsUndone'
    BY <1>1, <1>2 DEF FailedSaveIsUndone
  <1>. QED BY <1>3, <1>4, <1>5, <1>6

LEMMA RestoreSyncUnderFault ==
    ASSUME FaultIInv, RestoreSync PROVE FaultIInv'
  <1>. USE DEF FaultIInv
  <1>1. /\ pc = "restoreSync" /\ pc' = "finishMark"
        /\ UNCHANGED <<owner, snapshot, failures, ret, call, outcome>>
    BY DEF RestoreSync, At, Goto, locals
  <1>2. disk' = disk /\ survivors' \subseteq Directories
    BY DEF RestoreSync, Sync, TypeOK
  <1>3. TypeOK'
    BY <1>1, <1>2 DEF TypeOK, Locations, CallInv, RecoveryLocations
  <1>4. OwnerInv' /\ CallInv' /\ Undo' /\ FaultJournal'
    BY <1>1, <1>2, TypeConsequences, CallPairs
    DEF OwnerInv, CallInv, Undo, FaultJournal, RecoveryLocations, SaveLocations,
        DropLocations, InstallLocations, Restoring, Cleaning, InSave, Copied,
        Documents, Direct, Found, Journalled, NoFiles
  <1>5. OneFailure'
    BY <1>1, <1>2, TypeConsequences, CallPairs
    DEF OwnerInv, CallInv, Undo, FaultJournal, RecoveryLocations, SaveLocations,
        DropLocations, InstallLocations, Restoring, Cleaning, InSave, Copied,
        Documents, Direct, Found, Journalled, OneFailure, Safe, SafeDirectory,
        Wedged, Logical, NoFiles
  <1>6. FailedSaveIsUndone'
    BY <1>1, <1>2 DEF FailedSaveIsUndone
  <1>. QED BY <1>3, <1>4, <1>5, <1>6

LEMMA FinishSyncUnderFault ==
    ASSUME FaultIInv, FinishSync PROVE FaultIInv'
  <1>. USE DEF FaultIInv
  <1>1. /\ pc = "finishSync" /\ pc' = "cleanModel"
        /\ UNCHANGED <<owner, snapshot, failures, ret, call, outcome>>
    BY DEF FinishSync, At, Goto, locals
  <1>2. disk' = disk /\ survivors' \subseteq Directories
    BY DEF FinishSync, Sync, TypeOK
  <1>3. TypeOK'
    BY <1>1, <1>2 DEF TypeOK, Locations, CallInv, RecoveryLocations
  <1>4. OwnerInv' /\ CallInv' /\ Undo' /\ FaultJournal'
    BY <1>1, <1>2, TypeConsequences, CallPairs
    DEF OwnerInv, CallInv, Undo, FaultJournal, RecoveryLocations, SaveLocations,
        DropLocations, InstallLocations, Restoring, Cleaning, InSave, Copied,
        Documents, Direct, Found, Journalled, NoFiles
  <1>5. OneFailure'
    BY <1>1, <1>2, TypeConsequences, CallPairs
    DEF OwnerInv, CallInv, Undo, FaultJournal, RecoveryLocations, SaveLocations,
        DropLocations, InstallLocations, Restoring, Cleaning, InSave, Copied,
        Documents, Direct, Found, Journalled, OneFailure, Safe, SafeDirectory,
        Wedged, Logical, NoFiles
  <1>6. FailedSaveIsUndone'
    BY <1>1, <1>2 DEF FailedSaveIsUndone
  <1>. QED BY <1>3, <1>4, <1>5, <1>6

LEMMA CleanSyncUnderFault ==
    ASSUME FaultIInv, CleanSync PROVE FaultIInv'
  <1>. USE DEF FaultIInv
  <1>1. /\ pc = "cleanSync" /\ pc' = ret
        /\ UNCHANGED <<owner, snapshot, failures, ret, call, outcome>>
    BY DEF CleanSync, At, Goto, locals
  <1>2. disk' = disk /\ survivors' \subseteq Directories
    BY DEF CleanSync, Sync, TypeOK
  <1>3. TypeOK'
    BY <1>1, <1>2 DEF TypeOK, Locations, CallInv, RecoveryLocations
  <1>4. OwnerInv' /\ CallInv' /\ Undo' /\ FaultJournal'
    BY <1>1, <1>2, TypeConsequences, CallPairs
    DEF OwnerInv, CallInv, Undo, FaultJournal, RecoveryLocations, SaveLocations,
        DropLocations, InstallLocations, Restoring, Cleaning, InSave, Copied,
        Documents, Direct, Found, Journalled, NoFiles
  <1>5. OneFailure'
    BY <1>1, <1>2, TypeConsequences, CallPairs
    DEF OwnerInv, CallInv, Undo, FaultJournal, RecoveryLocations, SaveLocations,
        DropLocations, InstallLocations, Restoring, Cleaning, InSave, Copied,
        Documents, Direct, Found, Journalled, OneFailure, Safe, SafeDirectory,
        Wedged, Logical, NoFiles
  <1>6. FailedSaveIsUndone'
    BY <1>1, <1>2, TypeConsequences, CallPairs
    DEF FailedSaveIsUndone, OwnerInv, CallInv, Undo, FaultJournal,
        RecoveryLocations, SaveLocations, DropLocations, InstallLocations,
        Restoring, Cleaning, InSave, Copied, Documents, Direct, Found,
        Journalled, Wedged, Logical, NoFiles
  <1>. QED BY <1>3, <1>4, <1>5, <1>6

LEMMA OrigSyncUnderFault ==
    ASSUME FaultIInv, OrigSync PROVE FaultIInv'
  <1>. USE DEF FaultIInv
  <1>1. /\ pc = "origSync" /\ pc' = "pendingMark"
        /\ UNCHANGED <<owner, snapshot, failures, ret, call, outcome>>
    BY DEF OrigSync, At, Goto, locals
  <1>2. disk' = disk /\ survivors' \subseteq Directories
    BY DEF OrigSync, Sync, TypeOK
  <1>3. TypeOK'
    BY <1>1, <1>2 DEF TypeOK, Locations, CallInv, RecoveryLocations
  <1>4. OwnerInv' /\ CallInv' /\ Undo' /\ FaultJournal'
    BY <1>1, <1>2, TypeConsequences, CallPairs
    DEF OwnerInv, CallInv, Undo, FaultJournal, RecoveryLocations, SaveLocations,
        DropLocations, InstallLocations, Restoring, Cleaning, InSave, Copied,
        Documents, Direct, Found, Journalled, NoFiles
  <1>5. OneFailure'
    BY <1>1, <1>2, TypeConsequences, CallPairs
    DEF OwnerInv, CallInv, Undo, FaultJournal, RecoveryLocations, SaveLocations,
        DropLocations, InstallLocations, Restoring, Cleaning, InSave, Copied,
        Documents, Direct, Found, Journalled, OneFailure, Safe, SafeDirectory,
        Wedged, Logical, NoFiles
  <1>6. FailedSaveIsUndone'
    BY <1>1, <1>2 DEF FailedSaveIsUndone
  <1>. QED BY <1>3, <1>4, <1>5, <1>6

LEMMA PendingSyncUnderFault ==
    ASSUME FaultIInv, PendingSync PROVE FaultIInv'
  <1>. USE DEF FaultIInv
  <1>1. /\ pc = "pendingSync" /\ pc' = "pubBinding"
        /\ UNCHANGED <<owner, snapshot, failures, ret, call, outcome>>
    BY DEF PendingSync, At, Goto, locals
  <1>2. disk' = disk /\ survivors' \subseteq Directories
    BY DEF PendingSync, Sync, TypeOK
  <1>3. TypeOK'
    BY <1>1, <1>2 DEF TypeOK, Locations, CallInv, RecoveryLocations
  <1>4. OwnerInv' /\ CallInv' /\ Undo' /\ FaultJournal'
    BY <1>1, <1>2, TypeConsequences, CallPairs
    DEF OwnerInv, CallInv, Undo, FaultJournal, RecoveryLocations, SaveLocations,
        DropLocations, InstallLocations, Restoring, Cleaning, InSave, Copied,
        Documents, Direct, Found, Journalled, NoFiles
  <1>5. OneFailure'
    BY <1>1, <1>2, TypeConsequences, CallPairs
    DEF OwnerInv, CallInv, Undo, FaultJournal, RecoveryLocations, SaveLocations,
        DropLocations, InstallLocations, Restoring, Cleaning, InSave, Copied,
        Documents, Direct, Found, Journalled, OneFailure, Safe, SafeDirectory,
        Wedged, Logical, NoFiles
  <1>6. FailedSaveIsUndone'
    BY <1>1, <1>2 DEF FailedSaveIsUndone
  <1>. QED BY <1>3, <1>4, <1>5, <1>6

LEMMA PubSyncUnderFault ==
    ASSUME FaultIInv, PubSync PROVE FaultIInv'
  <1>. USE DEF FaultIInv
  <1>1. /\ pc = "pubSync" /\ pc' = "commitMark"
        /\ UNCHANGED <<owner, snapshot, failures, ret, call, outcome>>
    BY DEF PubSync, At, Goto, locals
  <1>2. disk' = disk /\ survivors' \subseteq Directories
    BY DEF PubSync, Sync, TypeOK
  <1>3. TypeOK'
    BY <1>1, <1>2 DEF TypeOK, Locations, CallInv, RecoveryLocations
  <1>4. OwnerInv' /\ CallInv' /\ Undo' /\ FaultJournal'
    BY <1>1, <1>2, TypeConsequences, CallPairs
    DEF OwnerInv, CallInv, Undo, FaultJournal, RecoveryLocations, SaveLocations,
        DropLocations, InstallLocations, Restoring, Cleaning, InSave, Copied,
        Documents, Direct, Found, Journalled, NoFiles
  <1>5. OneFailure'
    BY <1>1, <1>2, TypeConsequences, CallPairs
    DEF OwnerInv, CallInv, Undo, FaultJournal, RecoveryLocations, SaveLocations,
        DropLocations, InstallLocations, Restoring, Cleaning, InSave, Copied,
        Documents, Direct, Found, Journalled, OneFailure, Safe, SafeDirectory,
        Wedged, Logical, NoFiles
  <1>6. FailedSaveIsUndone'
    BY <1>1, <1>2 DEF FailedSaveIsUndone
  <1>. QED BY <1>3, <1>4, <1>5, <1>6

LEMMA CommitSyncUnderFault ==
    ASSUME FaultIInv, CommitSync PROVE FaultIInv'
  <1>. USE DEF FaultIInv
  <1>1. /\ pc = "commitSync" /\ pc' = "cleanModel"
        /\ UNCHANGED <<owner, snapshot, failures, ret, call, outcome>>
    BY DEF CommitSync, At, Goto, locals
  <1>2. disk' = disk /\ survivors' \subseteq Directories
    BY DEF CommitSync, Sync, TypeOK
  <1>3. TypeOK'
    BY <1>1, <1>2 DEF TypeOK, Locations, CallInv, RecoveryLocations
  <1>4. OwnerInv' /\ CallInv' /\ Undo' /\ FaultJournal'
    BY <1>1, <1>2, TypeConsequences, CallPairs
    DEF OwnerInv, CallInv, Undo, FaultJournal, RecoveryLocations, SaveLocations,
        DropLocations, InstallLocations, Restoring, Cleaning, InSave, Copied,
        Documents, Direct, Found, Journalled, NoFiles
  <1>5. OneFailure'
    BY <1>1, <1>2, TypeConsequences, CallPairs
    DEF OwnerInv, CallInv, Undo, FaultJournal, RecoveryLocations, SaveLocations,
        DropLocations, InstallLocations, Restoring, Cleaning, InSave, Copied,
        Documents, Direct, Found, Journalled, OneFailure, Safe, SafeDirectory,
        Wedged, Logical, NoFiles
  <1>6. FailedSaveIsUndone'
    BY <1>1, <1>2 DEF FailedSaveIsUndone
  <1>. QED BY <1>3, <1>4, <1>5, <1>6

LEMMA DropSyncUnderFault ==
    ASSUME FaultIInv, DropSync PROVE FaultIInv'
  <1>. USE DEF FaultIInv
  <1>1. /\ pc = "dropSync" /\ pc' = "release"
        /\ UNCHANGED <<owner, snapshot, failures, ret, call, outcome>>
    BY DEF DropSync, At, Goto, locals
  <1>2. disk' = disk /\ survivors' \subseteq Directories
    BY DEF DropSync, Sync, TypeOK
  <1>3. TypeOK'
    BY <1>1, <1>2 DEF TypeOK, Locations, CallInv, RecoveryLocations
  <1>4. OwnerInv' /\ CallInv' /\ Undo' /\ FaultJournal'
    BY <1>1, <1>2, TypeConsequences, CallPairs
    DEF OwnerInv, CallInv, Undo, FaultJournal, RecoveryLocations, SaveLocations,
        DropLocations, InstallLocations, Restoring, Cleaning, InSave, Copied,
        Documents, Direct, Found, Journalled, NoFiles
  <1>5. OneFailure'
    BY <1>1, <1>2, TypeConsequences, CallPairs
    DEF OwnerInv, CallInv, Undo, FaultJournal, RecoveryLocations, SaveLocations,
        DropLocations, InstallLocations, Restoring, Cleaning, InSave, Copied,
        Documents, Direct, Found, Journalled, OneFailure, Safe, SafeDirectory,
        Wedged, Logical, NoFiles
  <1>6. FailedSaveIsUndone'
    BY <1>1, <1>2, TypeConsequences, CallPairs
    DEF FailedSaveIsUndone, OwnerInv, CallInv, Undo, FaultJournal,
        RecoveryLocations, SaveLocations, DropLocations, InstallLocations,
        Restoring, Cleaning, InSave, Copied, Documents, Direct, Found,
        Journalled, Wedged, Logical, NoFiles
  <1>. QED BY <1>3, <1>4, <1>5, <1>6

LEMMA InstSyncUnderFault ==
    ASSUME FaultIInv, InstSync PROVE FaultIInv'
  <1>. USE DEF FaultIInv
  <1>1. /\ pc = "instSync" /\ pc' = "recover"
        /\ UNCHANGED <<owner, snapshot, failures, ret, call, outcome>>
    BY DEF InstSync, At, Goto, locals
  <1>2. disk' = disk /\ survivors' \subseteq Directories
    BY DEF InstSync, Sync, TypeOK
  <1>3. TypeOK'
    BY <1>1, <1>2 DEF TypeOK, Locations, CallInv, RecoveryLocations
  <1>4. OwnerInv' /\ CallInv' /\ Undo' /\ FaultJournal'
    BY <1>1, <1>2, TypeConsequences, CallPairs
    DEF OwnerInv, CallInv, Undo, FaultJournal, RecoveryLocations, SaveLocations,
        DropLocations, InstallLocations, Restoring, Cleaning, InSave, Copied,
        Documents, Direct, Found, Journalled, NoFiles
  <1>5. OneFailure'
    BY <1>1, <1>2, TypeConsequences, CallPairs
    DEF OwnerInv, CallInv, Undo, FaultJournal, RecoveryLocations, SaveLocations,
        DropLocations, InstallLocations, Restoring, Cleaning, InSave, Copied,
        Documents, Direct, Found, Journalled, OneFailure, Safe, SafeDirectory,
        Wedged, Logical, NoFiles
  <1>6. FailedSaveIsUndone'
    BY <1>1, <1>2 DEF FailedSaveIsUndone
  <1>. QED BY <1>3, <1>4, <1>5, <1>6

LEMMA RestoreModelUnderFault == ASSUME FaultIInv, RestoreModel PROVE FaultIInv'
  <1>. USE DEF FaultIInv
  <1>1. /\ pc = "restoreModel"
        /\ UNCHANGED <<owner, snapshot, failures, ret, call>>
    BY DEF RestoreModel, At, Goto, Raise, locals
  <1>2. CASE /\ UNCHANGED <<disk, survivors>>
             /\ pc' = "release" /\ outcome' = "error"
             /\ \/ disk.modelOrig = Absent
                \/ disk.marker.existed /\ disk.bindingOrig = Absent
    <2>1. TypeOK'
      BY <1>1, <1>2 DEF TypeOK, Locations
    <2>2. OwnerInv' /\ CallInv' /\ Undo' /\ FaultJournal'
      BY <1>1, <1>2, TypeConsequences, CallPairs
      DEF OwnerInv, CallInv, Undo, FaultJournal, RecoveryLocations,
          SaveLocations, DropLocations, InstallLocations, Restoring, Cleaning,
          InSave, Copied, Documents, Direct, Found, Journalled, NoFiles
    <2>3. OneFailure'
      BY <1>1, <1>2, TypeConsequences, CallPairs
      DEF OwnerInv, CallInv, Undo, FaultJournal, RecoveryLocations,
          SaveLocations, DropLocations, InstallLocations, Restoring, Cleaning,
          InSave, Copied, Documents, Direct, Found, Journalled, OneFailure,
          Safe, SafeDirectory, Wedged, Logical, NoFiles
    <2>4. FailedSaveIsUndone'
      BY <1>1, <1>2, TypeConsequences, CallPairs
      DEF OwnerInv, CallInv, Undo, FaultJournal, RecoveryLocations,
          SaveLocations, DropLocations, InstallLocations, Restoring, Cleaning,
          InSave, Copied, Documents, Direct, Found, Journalled,
          FailedSaveIsUndone, Wedged, Logical, NoFiles
    <2>. QED BY <2>1, <2>2, <2>3, <2>4
  <1>3. CASE /\ Put("model", disk.modelOrig)
             /\ pc' = "restoreBinding" /\ UNCHANGED outcome
             /\ disk.modelOrig # Absent
             /\ disk.marker.existed => disk.bindingOrig # Absent
    <2>1. /\ disk' \in Directories /\ survivors' \subseteq Directories
          /\ disk'.model = disk.modelOrig
          /\ disk'.binding = disk.binding
          /\ disk'.modelOrig = disk.modelOrig
          /\ disk'.bindingOrig = disk.bindingOrig
          /\ disk'.marker = disk.marker
      BY <1>3, PutModel, TypeConsequences
    <2>2. TypeOK'
      BY <1>1, <1>3, <2>1 DEF TypeOK, Locations
    <2>3. OwnerInv' /\ CallInv' /\ Undo' /\ FaultJournal'
      BY <1>1, <1>3, <2>1, TypeConsequences, CallPairs
      DEF OwnerInv, CallInv, Undo, FaultJournal, RecoveryLocations,
          SaveLocations, DropLocations, InstallLocations, Restoring, Cleaning,
          InSave, Copied, Documents, Direct, Found, Journalled, NoFiles
    <2>4. OneFailure'
      <3>1. CASE disk.marker.state = "pending"
        <4>1. Logical(disk)' = Logical(disk) /\ ~Wedged(disk)'
          BY <1>3, <2>1, <3>1 DEF Logical, Wedged
        <4>. QED BY <1>1, <1>3, <2>1, <4>1
                 DEF OneFailure, Safe, SafeDirectory, InSave, Cleaning
      <3>. QED BY <1>1, <1>3, <2>1, <3>1, TypeConsequences, CallPairs
               DEF TypeOK, OwnerInv, CallInv, Undo, FaultJournal,
                   RecoveryLocations, SaveLocations, DropLocations,
                   InstallLocations, Restoring, Cleaning, InSave, Copied,
                   Documents, Direct, Found, Journalled, OneFailure, Safe,
                   SafeDirectory, Wedged, Logical, NoFiles
    <2>5. FailedSaveIsUndone'
      BY <1>1, <1>3, <2>1 DEF FailedSaveIsUndone
    <2>. QED BY <2>2, <2>3, <2>4, <2>5
  <1>. QED BY <1>2, <1>3 DEF RestoreModel, Untouched, Raise, Goto, locals

LEMMA PubBindingUnderFault == ASSUME FaultIInv, PubBinding PROVE FaultIInv'
  <1>. USE DEF FaultIInv
  <1>1. /\ pc = "pubBinding" /\ pc' = "pubModel"
        /\ UNCHANGED <<owner, snapshot, failures, ret, call, outcome>>
    BY DEF PubBinding, At, Goto, locals
  <1>2. NewBinding \in Bindings \cup {Absent}
    BY TypeConsequences DEF NewBinding, Published, Payload
  <1>3. /\ disk' \in Directories /\ survivors' \subseteq Directories
        /\ disk'.binding = NewBinding
        /\ disk'.model = disk.model
        /\ disk'.modelOrig = disk.modelOrig
        /\ disk'.bindingOrig = disk.bindingOrig
        /\ disk'.marker = disk.marker
    <2>1. CASE NewBinding # Absent
      BY <1>2, <2>1, PutBinding DEF PubBinding
    <2>2. CASE NewBinding = Absent
      <3>1. UNCHANGED <<disk, survivors>>
        BY <2>2 DEF PubBinding, Untouched
      <3>2. call.expected[2] = Absent
        BY <1>1, <2>2, CallPairs
        DEF NewBinding, Published, Payload, CallInv, SaveLocations
      <3>3. disk.binding = Absent
        BY <1>1, <3>2, CallPairs DEF FaultJournal, Documents
      <3>. QED BY <2>2, <3>1, <3>3 DEF TypeOK
    <2>. QED BY <2>1, <2>2
  <1>4. TypeOK'
    BY <1>1, <1>3 DEF TypeOK, Locations
  <1>5. OwnerInv' /\ CallInv' /\ Undo' /\ FaultJournal'
    BY <1>1, <1>3, TypeConsequences, CallPairs
    DEF NewBinding, OwnerInv, CallInv, Undo, FaultJournal, RecoveryLocations,
        SaveLocations, DropLocations, InstallLocations, Restoring, Cleaning,
        InSave, Copied, Documents, Direct, Found, Journalled, NoFiles
  <1>6. OneFailure'
    BY <1>1, <1>3, TypeConsequences, CallPairs
    DEF NewBinding, OwnerInv, CallInv, Undo, FaultJournal, RecoveryLocations,
        SaveLocations, DropLocations, InstallLocations, Restoring, Cleaning,
        InSave, Copied, Documents, Direct, Found, Journalled, OneFailure, Safe,
        SafeDirectory, Wedged, Logical, NoFiles
  <1>7. FailedSaveIsUndone'
    BY <1>1, <1>3 DEF FailedSaveIsUndone
  <1>. QED BY <1>4, <1>5, <1>6, <1>7

LEMMA BeginUnderFault ==
    ASSUME FaultIInv, NEW p \in Procs,
           BeginLoad(p) \/ BeginSave(p) \/ BeginRestore(p)
    PROVE  FaultIInv'
  <1>. USE DEF FaultIInv
  <1>1. /\ UNCHANGED <<disk, survivors, snapshot, failures>>
        /\ owner = NoOwner /\ owner' = p /\ owner' # NoOwner
        /\ pc' = "recover" /\ outcome' = "ok"
    BY ContentAssumption DEF BeginLoad, BeginSave, BeginRestore, Begin
  <1>2. /\ call' \in Calls
        /\ \/ ret' = "read" /\ call'.kind = "load"
           \/ /\ ret' = "compare" /\ call'.kind = "save"
              /\ call'.expected[1] # Absent
           \/ /\ ret' = "check" /\ call'.kind = "restore"
              /\ Consistent(call'.target)
    BY BeginArguments
  <1>3. TypeOK'
    BY <1>1, <1>2 DEF TypeOK, Locations
  <1>4. OwnerInv' /\ CallInv' /\ Undo' /\ FaultJournal'
    BY <1>1, <1>2, TypeConsequences, CallPairs
    DEF OwnerInv, CallInv, Undo, FaultJournal, RecoveryLocations, SaveLocations,
        DropLocations, InstallLocations, Restoring, Cleaning, InSave, Copied,
        Documents, Direct, Found, Journalled, NoFiles
  <1>5. OneFailure'
    BY <1>1, <1>2, TypeConsequences, CallPairs
    DEF OwnerInv, CallInv, Undo, FaultJournal, RecoveryLocations, SaveLocations,
        DropLocations, InstallLocations, Restoring, Cleaning, InSave, Copied,
        Documents, Direct, Found, Journalled, OneFailure, Safe, SafeDirectory,
        Wedged, Logical, NoFiles
  <1>6. FailedSaveIsUndone'
    BY <1>1, <1>2 DEF FailedSaveIsUndone
  <1>. QED BY <1>3, <1>4, <1>5, <1>6

LEMMA RecoverUnderFault ==
    ASSUME FaultIInv, Recover PROVE FaultIInv'
  <1>. USE DEF FaultIInv
  <1>1. /\ UNCHANGED <<disk, survivors, owner, snapshot, failures>>
        /\ UNCHANGED <<ret, call, outcome>>
        /\ pc = "recover"
        /\ \/ pc' = "restoreModel" /\ disk.marker.state = "pending"
           \/ pc' = "cleanModel" /\ disk.marker.state # "pending"
           \/ pc' = ret /\ disk.marker.state # "pending"
    BY DEF Recover, At, Untouched, Goto, locals
  <1>2. disk' = disk /\ survivors' \subseteq Directories
    BY <1>1 DEF TypeOK
  <1>3. TypeOK'
    BY <1>1, <1>2 DEF TypeOK, Locations, CallInv, RecoveryLocations
  <1>4. OwnerInv' /\ CallInv' /\ Undo' /\ FaultJournal'
    BY <1>1, <1>2, TypeConsequences, CallPairs
    DEF OwnerInv, CallInv, Undo, FaultJournal, RecoveryLocations, SaveLocations,
        DropLocations, InstallLocations, Restoring, Cleaning, InSave, Copied,
        Documents, Direct, Found, Journalled, NoFiles
  <1>5. OneFailure'
    BY <1>1, <1>2, TypeConsequences, CallPairs
    DEF OwnerInv, CallInv, Undo, FaultJournal, RecoveryLocations, SaveLocations,
        DropLocations, InstallLocations, Restoring, Cleaning, InSave, Copied,
        Documents, Direct, Found, Journalled, OneFailure, Safe, SafeDirectory,
        Wedged, Logical, NoFiles
  <1>6. FailedSaveIsUndone'
    BY <1>1, <1>2, TypeConsequences, CallPairs
    DEF OwnerInv, CallInv, Undo, FaultJournal, RecoveryLocations, SaveLocations,
        DropLocations, InstallLocations, Restoring, Cleaning, InSave, Copied,
        Documents, Direct, Found, Journalled, FailedSaveIsUndone, Wedged,
        Logical, NoFiles
  <1>. QED BY <1>3, <1>4, <1>5, <1>6

LEMMA ReadUnderFault == ASSUME FaultIInv, Read PROVE FaultIInv'
  <1>. USE DEF FaultIInv
  <1>1. /\ UNCHANGED <<disk, survivors, owner, failures, ret, call>>
        /\ pc = "read" /\ pc' = "release" /\ outcome' \in {"ok", "error"}
    BY DEF Read, Goto, Raise, locals, TypeOK
  <1>2. /\ snapshot' \in [Procs -> Pairs \cup {NoSnapshot}]
        /\ \A p \in Procs :
               snapshot'[p] = NoSnapshot \/ snapshot'[p][1] # Absent
    BY ReadSnapshot
  <1>3. TypeOK'
    BY <1>1, <1>2 DEF TypeOK, Locations
  <1>4. OwnerInv' /\ CallInv' /\ Undo' /\ FaultJournal'
    BY <1>1, <1>2, TypeConsequences, CallPairs
    DEF OwnerInv, CallInv, Undo, FaultJournal, RecoveryLocations, SaveLocations,
        DropLocations, InstallLocations, Restoring, Cleaning, InSave, Copied,
        Documents, Direct, Found, Journalled, NoFiles
  <1>5. OneFailure'
    BY <1>1, <1>2, TypeConsequences, CallPairs
    DEF OwnerInv, CallInv, Undo, FaultJournal, RecoveryLocations, SaveLocations,
        DropLocations, InstallLocations, Restoring, Cleaning, InSave, Copied,
        Documents, Direct, Found, Journalled, OneFailure, Safe, SafeDirectory,
        Wedged, Logical, NoFiles
  <1>6. FailedSaveIsUndone'
    BY <1>1, <1>2, TypeConsequences, CallPairs
    DEF OwnerInv, CallInv, Undo, FaultJournal, RecoveryLocations, SaveLocations,
        DropLocations, InstallLocations, Restoring, Cleaning, InSave, Copied,
        Documents, Direct, Found, Journalled, FailedSaveIsUndone, Wedged,
        Logical, NoFiles
  <1>. QED BY <1>3, <1>4, <1>5, <1>6

LEMMA CompareUnderFault ==
    ASSUME FaultIInv, Compare PROVE FaultIInv'
  <1>. USE DEF FaultIInv
  <1>1. /\ UNCHANGED <<disk, survivors, owner, snapshot, failures, call>>
        /\ pc = "compare"
        /\ \/ pc' = "release" /\ outcome' = "error" /\ ret' = ret
           \/ /\ pc' = "origModel" /\ ret' = "release" /\ outcome' = outcome
              /\ <<disk.model, disk.binding>> = call.expected
              /\ call.target \in Compatible
    BY DEF Compare, At, Untouched, Raise
  <1>2. disk' = disk /\ survivors' \subseteq Directories
    BY <1>1 DEF TypeOK
  <1>3. TypeOK'
    BY <1>1, <1>2 DEF TypeOK, Locations
  <1>4. OwnerInv' /\ CallInv' /\ Undo' /\ FaultJournal'
    BY <1>1, <1>2, TypeConsequences, CallPairs
    DEF OwnerInv, CallInv, Undo, FaultJournal, RecoveryLocations, SaveLocations,
        DropLocations, InstallLocations, Restoring, Cleaning, InSave, Copied,
        Documents, Direct, Found, Journalled, NoFiles
  <1>5. OneFailure'
    BY <1>1, <1>2, TypeConsequences, CallPairs
    DEF OwnerInv, CallInv, Undo, FaultJournal, RecoveryLocations, SaveLocations,
        DropLocations, InstallLocations, Restoring, Cleaning, InSave, Copied,
        Documents, Direct, Found, Journalled, OneFailure, Safe, SafeDirectory,
        Wedged, Logical, NoFiles
  <1>6. FailedSaveIsUndone'
    BY <1>1, <1>2, TypeConsequences, CallPairs
    DEF OwnerInv, CallInv, Undo, FaultJournal, RecoveryLocations, SaveLocations,
        DropLocations, InstallLocations, Restoring, Cleaning, InSave, Copied,
        Documents, Direct, Found, Journalled, FailedSaveIsUndone, Wedged,
        Logical, NoFiles
  <1>. QED BY <1>3, <1>4, <1>5, <1>6

LEMMA CheckUnderFault == ASSUME FaultIInv, Check PROVE FaultIInv'
  <1>. USE DEF FaultIInv
  <1>1. /\ UNCHANGED <<disk, survivors, owner, snapshot, failures, call>>
        /\ pc = "check"
        /\ \/ pc' = "release" /\ outcome' = "error" /\ ret' = ret
           \/ /\ ret' = "release" /\ outcome' = outcome
              /\ <<disk.model, disk.binding>> = call.expected
              /\ \/ pc' = "dropBinding" /\ call.target[1] = Absent
                 \/ pc' = "instModel" /\ call.target[1] # Absent
    BY DEF Check, At, Untouched, Raise
  <1>2. call.target[1] = Absent => call.target = NoFiles
    BY <1>1, CallPairs, BindingAssumption DEF CallInv, Consistent
  <1>3. TypeOK'
    BY <1>1, <1>2 DEF TypeOK, Locations
  <1>4. OwnerInv' /\ CallInv' /\ Undo' /\ FaultJournal'
    BY <1>1, <1>2, TypeConsequences, CallPairs
    DEF OwnerInv, CallInv, Undo, FaultJournal, RecoveryLocations, SaveLocations,
        DropLocations, InstallLocations, Restoring, Cleaning, InSave, Copied,
        Documents, Direct, Found, Journalled, NoFiles
  <1>5. OneFailure'
    BY <1>1, <1>2, TypeConsequences, CallPairs
    DEF OwnerInv, CallInv, Undo, FaultJournal, RecoveryLocations, SaveLocations,
        DropLocations, InstallLocations, Restoring, Cleaning, InSave, Copied,
        Documents, Direct, Found, Journalled, OneFailure, Safe, SafeDirectory,
        Wedged, Logical, NoFiles
  <1>6. FailedSaveIsUndone'
    BY <1>1, <1>2, TypeConsequences, CallPairs
    DEF OwnerInv, CallInv, Undo, FaultJournal, RecoveryLocations, SaveLocations,
        DropLocations, InstallLocations, Restoring, Cleaning, InSave, Copied,
        Documents, Direct, Found, Journalled, FailedSaveIsUndone, Wedged,
        Logical, NoFiles
  <1>. QED BY <1>3, <1>4, <1>5, <1>6

LEMMA ReleaseUnderFault == ASSUME FaultIInv, Release PROVE FaultIInv'
  <1>. USE DEF FaultIInv
  <1>1. /\ UNCHANGED <<disk, survivors, snapshot, failures>> /\ pc = "release"
        /\ owner' = NoOwner /\ pc' = "idle" /\ ret' = "idle" /\ outcome' = "ok"
        /\ call' = NoCall
    BY DEF Release
  <1>2. call' \in Calls /\ call'.kind = "none"
    BY <1>1 DEF NoCall, NoFiles, Calls, Pairs
  <1>3. TypeOK'
    BY <1>1, <1>2 DEF TypeOK, Locations
  <1>4. OwnerInv' /\ CallInv' /\ Undo' /\ FaultJournal'
    BY <1>1, <1>2, TypeConsequences, CallPairs
    DEF OwnerInv, CallInv, Undo, FaultJournal, RecoveryLocations, SaveLocations,
        DropLocations, InstallLocations, Restoring, Cleaning, InSave, Copied,
        Documents, Direct, Found, Journalled, NoFiles
  <1>5. OneFailure'
    BY <1>1, <1>2, TypeConsequences, CallPairs
    DEF OwnerInv, CallInv, Undo, FaultJournal, RecoveryLocations, SaveLocations,
        DropLocations, InstallLocations, Restoring, Cleaning, InSave, Copied,
        Documents, Direct, Found, Journalled, OneFailure, Safe, SafeDirectory,
        Wedged, Logical, NoFiles
  <1>6. FailedSaveIsUndone'
    BY <1>1, <1>2 DEF FailedSaveIsUndone
  <1>. QED BY <1>3, <1>4, <1>5, <1>6

-----------------------------------------------------------------------------
(* The failures.                                                           *)

LEMMA FailOutrightUnderFault ==
    ASSUME FaultIInv, FailOutright PROVE FaultIInv'
  <1>. USE DEF FaultIInv
  <1>1. /\ UNCHANGED <<disk, survivors, snapshot, owner, ret, call>>
        /\ failures' = failures + 1 /\ failures \in Nat
        /\ pc' = "release" /\ outcome' = "error"
        /\ pc \in {"recover", "restoreModel", "restoreBinding", "restoreSync",
                  "finishMark", "finishSync", "read", "compare", "check",
                  "dropBinding", "dropModel", "dropSync", "instModel",
                  "instBinding", "instMark", "instSync"}
    BY DEF FailOutright, FailAt, TypeOK, Raise
  <1>2. disk' = disk /\ survivors' \subseteq Directories
    BY <1>1 DEF TypeOK
  <1>3. TypeOK'
    BY <1>1, <1>2 DEF TypeOK, Locations
  <1>4. OwnerInv' /\ CallInv' /\ Undo' /\ FaultJournal'
    BY <1>1, <1>2, TypeConsequences, CallPairs
    DEF OwnerInv, CallInv, Undo, FaultJournal, RecoveryLocations, SaveLocations,
        DropLocations, InstallLocations, Restoring, Cleaning, InSave, Copied,
        Documents, Direct, Found, Journalled, NoFiles
  <1>5. OneFailure'
    BY <1>1, <1>2, TypeConsequences, CallPairs
    DEF OwnerInv, CallInv, Undo, FaultJournal, RecoveryLocations, SaveLocations,
        DropLocations, InstallLocations, Restoring, Cleaning, InSave, Copied,
        Documents, Direct, Found, Journalled, OneFailure, Safe, SafeDirectory,
        Wedged, Logical, NoFiles
  <1>6. FailedSaveIsUndone'
    BY <1>1, <1>2, TypeConsequences, CallPairs
    DEF OwnerInv, CallInv, Undo, FaultJournal, RecoveryLocations, SaveLocations,
        DropLocations, InstallLocations, Restoring, Cleaning, InSave, Copied,
        Documents, Direct, Found, Journalled, FailedSaveIsUndone, Wedged,
        Logical, NoFiles
  <1>. QED BY <1>3, <1>4, <1>5, <1>6

LEMMA FailCleanupUnderFault ==
    ASSUME FaultIInv, FailCleanup PROVE FaultIInv'
  <1>. USE DEF FaultIInv
  <1>1. /\ UNCHANGED <<disk, survivors, snapshot, owner, ret, call>>
        /\ failures' = failures + 1 /\ failures \in Nat
        /\ pc' = ret /\ UNCHANGED outcome
        /\ pc \in {"cleanModel", "cleanBinding", "cleanMarker", "cleanSync"}
    BY DEF FailCleanup, FailAt, Goto, locals, TypeOK
  <1>2. disk' = disk /\ survivors' \subseteq Directories
    BY <1>1 DEF TypeOK
  <1>3. TypeOK'
    BY <1>1, <1>2 DEF TypeOK, Locations, CallInv, RecoveryLocations
  <1>4. OwnerInv' /\ CallInv' /\ Undo' /\ FaultJournal'
    BY <1>1, <1>2, TypeConsequences, CallPairs
    DEF OwnerInv, CallInv, Undo, FaultJournal, RecoveryLocations, SaveLocations,
        DropLocations, InstallLocations, Restoring, Cleaning, InSave, Copied,
        Documents, Direct, Found, Journalled, NoFiles
  <1>5. OneFailure'
    BY <1>1, <1>2, TypeConsequences, CallPairs
    DEF OwnerInv, CallInv, Undo, FaultJournal, RecoveryLocations, SaveLocations,
        DropLocations, InstallLocations, Restoring, Cleaning, InSave, Copied,
        Documents, Direct, Found, Journalled, OneFailure, Safe, SafeDirectory,
        Wedged, Logical, NoFiles
  <1>6. FailedSaveIsUndone'
    BY <1>1, <1>2, TypeConsequences, CallPairs
    DEF OwnerInv, CallInv, Undo, FaultJournal, RecoveryLocations, SaveLocations,
        DropLocations, InstallLocations, Restoring, Cleaning, InSave, Copied,
        Documents, Direct, Found, Journalled, FailedSaveIsUndone, Wedged,
        Logical, NoFiles
  <1>. QED BY <1>3, <1>4, <1>5, <1>6

LEMMA FailUnreadyUnderFault ==
    ASSUME FaultIInv, FailUnready PROVE FaultIInv'
  <1>. USE DEF FaultIInv
  <1>1. /\ UNCHANGED <<disk, survivors, snapshot, owner, ret, call>>
        /\ failures' = failures + 1 /\ failures \in Nat
        /\ pc' = "cleanModel" /\ outcome' = "error"
        /\ pc \in {"origModel", "origBinding", "origSync", "pendingMark",
                  "pendingSync"}
    BY DEF FailUnready, FailAt, TypeOK
  <1>2. disk' = disk /\ survivors' \subseteq Directories
    BY <1>1 DEF TypeOK
  <1>3. TypeOK'
    BY <1>1, <1>2 DEF TypeOK, Locations
  <1>4. OwnerInv' /\ CallInv' /\ Undo' /\ FaultJournal'
    BY <1>1, <1>2, TypeConsequences, CallPairs
    DEF OwnerInv, CallInv, Undo, FaultJournal, RecoveryLocations, SaveLocations,
        DropLocations, InstallLocations, Restoring, Cleaning, InSave, Copied,
        Documents, Direct, Found, Journalled, NoFiles
  <1>5. OneFailure'
    BY <1>1, <1>2, TypeConsequences, CallPairs
    DEF OwnerInv, CallInv, Undo, FaultJournal, RecoveryLocations, SaveLocations,
        DropLocations, InstallLocations, Restoring, Cleaning, InSave, Copied,
        Documents, Direct, Found, Journalled, OneFailure, Safe, SafeDirectory,
        Wedged, Logical, NoFiles
  <1>6. FailedSaveIsUndone'
    BY <1>1, <1>2 DEF FailedSaveIsUndone
  <1>. QED BY <1>3, <1>4, <1>5, <1>6

LEMMA FailReadyUnderFault ==
    ASSUME FaultIInv, FailReady PROVE FaultIInv'
  <1>. USE DEF FaultIInv
  <1>1. /\ UNCHANGED <<disk, survivors, snapshot, owner, ret, call>>
        /\ failures' = failures + 1 /\ failures \in Nat
        /\ pc' = "rollbackMark" /\ outcome' = "error"
        /\ pc \in {"pubBinding", "pubModel", "pubSync", "commitMark",
                  "commitSync"}
    BY DEF FailReady, FailAt, TypeOK
  <1>2. disk' = disk /\ survivors' \subseteq Directories
    BY <1>1 DEF TypeOK
  <1>3. TypeOK'
    BY <1>1, <1>2 DEF TypeOK, Locations
  <1>4. OwnerInv' /\ CallInv' /\ Undo' /\ FaultJournal'
    BY <1>1, <1>2, TypeConsequences, CallPairs
    DEF OwnerInv, CallInv, Undo, FaultJournal, RecoveryLocations, SaveLocations,
        DropLocations, InstallLocations, Restoring, Cleaning, InSave, Copied,
        Documents, Direct, Found, Journalled, NoFiles
  <1>5. OneFailure'
    BY <1>1, <1>2, TypeConsequences, CallPairs
    DEF OwnerInv, CallInv, Undo, FaultJournal, RecoveryLocations, SaveLocations,
        DropLocations, InstallLocations, Restoring, Cleaning, InSave, Copied,
        Documents, Direct, Found, Journalled, OneFailure, Safe, SafeDirectory,
        Wedged, Logical, NoFiles
  <1>6. FailedSaveIsUndone'
    BY <1>1, <1>2 DEF FailedSaveIsUndone
  <1>. QED BY <1>3, <1>4, <1>5, <1>6

LEMMA FailRollbackMarkUnderFault ==
    ASSUME FaultIInv, FailRollbackMark PROVE FaultIInv'
  <1>. USE DEF FaultIInv
  <1>1. /\ UNCHANGED <<disk, survivors, snapshot, owner, ret, call>>
        /\ failures' = failures + 1 /\ failures \in Nat
        /\ pc' = "restoreModel" /\ UNCHANGED outcome
        /\ pc = "rollbackMark"
    BY DEF FailRollbackMark, FailAt, Goto, locals, TypeOK
  <1>2. disk' = disk /\ survivors' \subseteq Directories
    BY <1>1 DEF TypeOK
  <1>3. TypeOK'
    BY <1>1, <1>2 DEF TypeOK, Locations
  <1>4. OwnerInv' /\ CallInv' /\ Undo' /\ FaultJournal'
    BY <1>1, <1>2, TypeConsequences, CallPairs
    DEF OwnerInv, CallInv, Undo, FaultJournal, RecoveryLocations, SaveLocations,
        DropLocations, InstallLocations, Restoring, Cleaning, InSave, Copied,
        Documents, Direct, Found, Journalled, NoFiles
  <1>5. OneFailure'
    BY <1>1, <1>2, TypeConsequences, CallPairs
    DEF OwnerInv, CallInv, Undo, FaultJournal, RecoveryLocations, SaveLocations,
        DropLocations, InstallLocations, Restoring, Cleaning, InSave, Copied,
        Documents, Direct, Found, Journalled, OneFailure, Safe, SafeDirectory,
        Wedged, Logical, NoFiles
  <1>6. FailedSaveIsUndone'
    BY <1>1, <1>2 DEF FailedSaveIsUndone
  <1>. QED BY <1>3, <1>4, <1>5, <1>6

-----------------------------------------------------------------------------
LEMMA InitFaultIInv == Init => FaultIInv
  <1>1. SUFFICES ASSUME Init PROVE FaultIInv
    OBVIOUS
  <1>2. TypeOK /\ OwnerInv /\ CallInv
    BY <1>1, InitIInv DEF IInv
  <1>3. Undo /\ FaultJournal /\ FailedSaveIsUndone
    BY <1>1 DEF Init, NoCall, Undo, FaultJournal, FailedSaveIsUndone,
       SaveLocations, DropLocations, Restoring, Cleaning, InSave
  <1>4. OneFailure
    BY <1>1 DEF Init, NoCall, OneFailure, Safe, SafeDirectory, Wedged, Logical,
       NoMarker, Cleaning, InSave
  <1>. QED BY <1>2, <1>3, <1>4 DEF FaultIInv

LEMMA StepFaultIInv == FaultIInv /\ [Step \/ Fault]_vars => FaultIInv'
  <1>1. SUFFICES ASSUME FaultIInv, [Step \/ Fault]_vars PROVE FaultIInv'
    OBVIOUS
  <1>2. ASSUME NEW p \in Procs, BeginLoad(p) \/ BeginSave(p) \/ BeginRestore(p)
        PROVE  FaultIInv'
    BY <1>1, <1>2, BeginUnderFault
  <1>3. CASE Recovery
    BY <1>1, <1>3, RecoverUnderFault, RestoreModelUnderFault,
       RestoreBindingUnderFault, RestoreSyncUnderFault, FinishMarkUnderFault,
       FinishSyncUnderFault, CleanModelUnderFault, CleanBindingUnderFault,
       CleanMarkerUnderFault, CleanSyncUnderFault DEF Recovery
  <1>4. CASE Read
    BY <1>1, <1>4, ReadUnderFault
  <1>5. CASE SaveStep
    BY <1>1, <1>5, CompareUnderFault, OrigModelUnderFault,
       OrigBindingUnderFault, OrigSyncUnderFault, PendingMarkUnderFault,
       PendingSyncUnderFault, PubBindingUnderFault, PubModelUnderFault,
       PubSyncUnderFault, CommitMarkUnderFault, CommitSyncUnderFault
    DEF SaveStep
  <1>6. CASE RestoreStep
    BY <1>1, <1>6, CheckUnderFault, DropBindingUnderFault, DropModelUnderFault,
       DropSyncUnderFault, InstModelUnderFault, InstBindingUnderFault,
       InstMarkUnderFault, InstSyncUnderFault DEF RestoreStep
  <1>7. CASE Release
    BY <1>1, <1>7, ReleaseUnderFault
  <1>8. CASE Fault
    BY <1>1, <1>8, FailOutrightUnderFault, FailCleanupUnderFault,
       FailUnreadyUnderFault, FailReadyUnderFault, RollbackMarkUnderFault,
       FailRollbackMarkUnderFault DEF Fault
  <1>9. CASE UNCHANGED vars
    BY <1>1, <1>9
    DEF vars, FaultIInv, TypeOK, OwnerInv, CallInv, Undo, FailedSaveIsUndone,
        FaultJournal, OneFailure, Safe, SafeDirectory, Wedged, Logical, InSave,
        Copied, Documents, Direct, Found, Journalled
  <1>. QED BY <1>1, <1>2, <1>3, <1>4, <1>5, <1>6, <1>7, <1>8, <1>9 DEF Step

THEOREM FaultInvariance == FaultSpec => []FaultIInv
  <1>1. Init => FaultIInv
    BY InitFaultIInv
  <1>2. FaultIInv /\ [Step \/ Fault]_vars => FaultIInv'
    BY StepFaultIInv
  <1>. QED BY <1>1, <1>2, PTL DEF FaultSpec

\* Whatever calls fail in the middle of a save and of its rollback, a save
\* that reports an error leaves the pair it found, or nothing a loader can be
\* given, unless three calls failed and the last of them left the committed
\* marker; one that reports success has published.
THEOREM FailedSavesAreUndone == FaultSpec => []FailedSaveIsUndone
  <1>1. FaultIInv => FailedSaveIsUndone
    BY DEF FaultIInv
  <1>. QED BY <1>1, FaultInvariance, PTL

\* After one failing call, wherever it strikes, the store can be recovered
\* and shows documents that fit together.
THEOREM OneFailureIsRecovered == FaultSpec => []OneFailureRecovers
  <1>1. FaultIInv => OneFailureRecovers
    BY DEF FaultIInv, OneFailureRecovers, OneFailure, OwnerInv, Safe,
       SafeDirectory
  <1>. QED BY <1>1, FaultInvariance, PTL

=============================================================================
