------------------------- MODULE AbstractStackStore -------------------------
(***************************************************************************)
(* What integrations/common/stack_store.py promises its callers: the model *)
(* stack document and the account bindings behave as ONE register, read    *)
(* whole and written by compare-and-swap against the pair the caller       *)
(* expects to find.                                                        *)
(*                                                                         *)
(* `current' is the pair a reader would be given now; `survivors' are the  *)
(* pairs a reader may be given after the machine loses power.  Nothing is  *)
(* said of locks, journals, recovery files or directory syncs: those are   *)
(* how StackStore implements this module.                                  *)
(***************************************************************************)
EXTENDS StackPairs

VARIABLES
    current,
    survivors,
    snapshot,    \* the pair each process loaded
    owner,       \* the process being served
    call         \* what it asked for

vars == <<current, survivors, snapshot, owner, call>>

Init ==
    /\ current \in {pair \in Pairs : pair[1] # Absent /\ Consistent(pair)}
    /\ survivors = {current}
    /\ snapshot = [p \in Procs |-> NoSnapshot]
    /\ owner = NoOwner
    /\ call = NoCall

\* A save expects the pair its process loaded.
Request(p) ==
    /\ owner = NoOwner
    /\ owner' = p
    /\ call' \in Calls
    /\ call'.kind = "save" => snapshot[p] = call'.expected
    /\ UNCHANGED <<current, survivors, snapshot>>

Reply ==
    /\ owner' = NoOwner
    /\ call' = NoCall
    /\ UNCHANGED <<current, survivors, snapshot>>

Publish(pair) ==
    /\ Consistent(pair)
    /\ current' = pair
    /\ survivors' = survivors \cup {pair}
    /\ UNCHANGED <<snapshot, owner, call>>

\* load_stack_snapshot: a reader gets the whole pair of one moment.
Load ==
    /\ call.kind = "load"
    /\ snapshot' = [snapshot EXCEPT ![owner] = current]
    /\ UNCHANGED <<current, survivors, owner, call>>

\* save_stack and restore_stack_files: only over the pair they expect.
Save ==
    /\ call.kind = "save"
    /\ current = call.expected
    /\ Publish(Published(call))

Restore ==
    /\ call.kind = "restore"
    /\ current = call.expected
    /\ call.target # NoFiles
    /\ Publish(call.target)

\* restore_stack_files of an installation that created both files: the
\* bindings go first, so what is left is still a pair.
Remove ==
    /\ call.kind = "restore"
    /\ call.target = NoFiles
    /\ \/ current = call.expected /\ Publish(<<call.expected[1], Absent>>)
       \/ current = <<call.expected[1], Absent>> /\ Publish(NoFiles)

\* What was published has reached the disk for good.
Settle ==
    /\ survivors' = {current}
    /\ UNCHANGED <<current, snapshot, owner, call>>

Crash(p) ==
    /\ snapshot' = [snapshot EXCEPT ![p] = NoSnapshot]
    /\ IF owner = p THEN owner' = NoOwner /\ call' = NoCall
                    ELSE UNCHANGED <<owner, call>>
    /\ UNCHANGED <<current, survivors>>

PowerLoss ==
    /\ current' \in survivors
    /\ survivors' = {current'}
    /\ snapshot' = [p \in Procs |-> NoSnapshot]
    /\ owner' = NoOwner
    /\ call' = NoCall

Next ==
    \/ \E p \in Procs : Request(p) \/ Crash(p)
    \/ Load \/ Save \/ Restore \/ Remove
    \/ Settle \/ Reply \/ PowerLoss

Spec == Init /\ [][Next]_vars
=============================================================================
