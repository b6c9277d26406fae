-------------------------- MODULE AccountLifecycle --------------------------
(***************************************************************************)
(* `orichum provider account ...': _mutate_account of integrations/common/ *)
(* orichum_cli.py, over three stores that no transaction spans:            *)
(*   the account registry (account_registry.py), replaced as a whole;      *)
(*   the routing prefix and priority of each credential, which CLIProxyAPI *)
(*     keeps and changes when asked by PATCH (cliproxy_management.py);     *)
(*   the account bindings of the stack store.                              *)
(* A command holds three flocks, always taken in one order: `owner' stands *)
(* for them.  It can be killed between any two steps, and a PATCH may be   *)
(* refused, lost, applied without an answer, or applied after the command  *)
(* has given up; `sync' then finishes what was begun.                      *)
(*                                                                         *)
(* The stack store is the register of AbstractStackStore, with the         *)
(* interrupted save spelt out, because `account remove' uses the binding   *)
(* file without recovering it.  Names, pools and providers are left out:   *)
(* they are compared when a document is validated and never change here.   *)
(*                                                                         *)
(* `disturbed' and `landed' are history variables: the credentials whose   *)
(* metadata somebody else may have changed since a command verified them,  *)
(* and the accounts whose prefix a late PATCH has set.                     *)
(***************************************************************************)
EXTENDS Naturals

CONSTANTS
    Procs,            \* processes of the command line
    Accounts,         \* account ids; new_account never issues one twice
    Credentials,      \* credential files
    Candidates,       \* stack candidates, which a binding may lock
    Priorities,
    UserPrefixes,     \* prefixes a user has given a credential
    Found,            \* what the credentials may hold to begin with
    Unset,            \* null
    NoOwner,
    NotLoaded,        \* the process has not read the configuration
    NoJournal,        \* no save of the stack store was interrupted
    MaxDisturbances   \* bound on changes by others, late patches and
                      \* interrupted saves of the stack store

ASSUME LifecycleAssumption ==
    /\ 0 \in Priorities
    /\ Unset \notin Priorities \cup Accounts \cup UserPrefixes
    /\ Accounts \cap UserPrefixes = {}
    /\ Found \subseteq [Credentials -> [prefix : UserPrefixes \cup {Unset},
                                       priority : Priorities \cup {Unset}]]
    /\ NoOwner \notin Procs
    /\ \A set \in SUBSET Candidates : set # NotLoaded
    /\ \A pair \in [stacks : SUBSET Candidates,
                   bindings : [Candidates -> Accounts \cup {Unset}]] :
          pair # NoJournal
    /\ MaxDisturbances \in Nat

VARIABLES
    registry,      \* accounts.json
    issued,        \* the account ids given out so far
    credentials,   \* metadata of each credential
    inflight,      \* patches given up on that may still be applied
    store,         \* the two files of the stack store
    journal,       \* the pair that recovery of an interrupted save restores
    known,         \* the candidates in config.documents of each process
    owner,         \* the process that holds the locks
    pc, target, todo, wasDisabled,   \* its command
    disturbances, disturbed, landed

command == <<owner, pc, target, todo, wasDisabled>>
history == <<disturbances, disturbed, landed>>
vars == <<registry, issued, credentials, inflight, store, journal, known,
          command, history>>

-----------------------------------------------------------------------------
Metadata == [prefix : Accounts \cup UserPrefixes \cup {Unset},
             priority : Priorities \cup {Unset}]

Unregistered == [state |-> "unregistered"]

Registrations ==
    [state : {"pending-add", "active", "disabled", "pending-remove"},
     credential : Credentials, priority : Priorities, original : Metadata]

Stores == [stacks : SUBSET Candidates,
           bindings : [Candidates -> Accounts \cup {Unset}]]

Registered(a) == registry[a] # Unregistered

MetadataOf(k) == [prefix |-> credentials[k].prefix,
                  priority |-> credentials[k].priority]

\* What a reader of the stack store is given.
LogicalStore == IF journal = NoJournal THEN store ELSE journal

\* The documents validate_stack_bindings accepts.
Valid(s) ==
    \A c \in Candidates : s.bindings[c] # Unset =>
        /\ c \in s.stacks
        /\ registry[s.bindings[c]] # Unregistered
        /\ registry[s.bindings[c]].state = "active"

Locations == {"idle", "sync", "publish", "verifyPublish", "activate", "prune",
              "mark", "restore", "neutral", "verifyRestore", "delete", "release"}

TypeOK ==
    /\ registry \in [Accounts -> {Unregistered} \cup Registrations]
    /\ issued \subseteq Accounts
    /\ credentials \in [Credentials ->
          [prefix : Accounts \cup UserPrefixes \cup {Unset},
           priority : Priorities \cup {Unset}, disabled : BOOLEAN]]
    /\ inflight \subseteq [credential : Credentials, fields : Metadata]
    /\ store \in Stores
    /\ journal \in {NoJournal} \cup Stores
    /\ known \in [Procs -> {NotLoaded} \cup SUBSET Candidates]
    /\ owner \in Procs \cup {NoOwner}
    /\ pc \in Locations
    /\ target \in Accounts \cup {Unset}
    /\ todo \subseteq Accounts
    /\ wasDisabled \in BOOLEAN
    /\ disturbances \in Nat
    /\ disturbed \subseteq Credentials
    /\ landed \subseteq Accounts

Init ==
    /\ registry = [a \in Accounts |-> Unregistered]
    /\ issued = {}
    /\ \E found \in Found :
          credentials = [k \in Credentials |->
              [prefix |-> found[k].prefix, priority |-> found[k].priority,
               disabled |-> FALSE]]
    /\ inflight = {}
    /\ store = [stacks |-> Candidates, bindings |-> [c \in Candidates |-> Unset]]
    /\ journal = NoJournal
    /\ known = [p \in Procs |-> NotLoaded]
    /\ owner = NoOwner /\ pc = "idle" /\ target = Unset
    /\ todo = {} /\ wasDisabled = FALSE
    /\ disturbances = 0 /\ disturbed = {} /\ landed = {}

-----------------------------------------------------------------------------
(* The command line: read the configuration, take the locks, do the first  *)
(* step.  A command that is refused here changes nothing.                  *)

Load(p) ==
    /\ known[p] = NotLoaded
    /\ known' = [known EXCEPT ![p] = store.stacks]
    /\ UNCHANGED <<registry, issued, credentials, inflight, store, journal,
                   command, history>>

Begin(p, location, a, rest) ==
    /\ owner = NoOwner /\ known[p] # NotLoaded
    /\ owner' = p /\ pc' = location /\ target' = a /\ todo' = rest
    /\ wasDisabled' = FALSE
    /\ UNCHANGED <<credentials, inflight, store, journal, known, history>>

\* update_accounts: one os.replace of the registry.
SetState(a, state) == registry' = [registry EXCEPT ![a].state = state]

Add(p, a, k, priority) ==
    /\ a \notin issued
    /\ ~credentials[k].disabled
    /\ \A b \in Accounts : Registered(b) => registry[b].credential # k
    /\ Begin(p, "publish", a, {})
    /\ issued' = issued \cup {a}
    /\ registry' = [registry EXCEPT ![a] =
          [state |-> "pending-add", credential |-> k, priority |-> priority,
           original |-> MetadataOf(k)]]

Remove(p, a) ==
    /\ Registered(a)
    /\ Begin(p, "prune", a, {})
    /\ UNCHANGED <<registry, issued>>

\* One account, or every one there is when the command starts.
Sync(p) ==
    \E selected \in {{a} : a \in Accounts} \cup {{a \in Accounts : Registered(a)}} :
        /\ selected # {}
        /\ \A a \in selected : Registered(a)
        /\ Begin(p, "sync", Unset, selected)
        /\ UNCHANGED <<registry, issued>>

\* A disabled account keeps its state and stays as it is published; an active
\* one is published again.
SetPriority(p, a, priority) ==
    /\ Registered(a)
    /\ registry[a].state \in {"active", "disabled"}
    /\ IF registry[a].state = "disabled"
       THEN /\ Begin(p, "release", a, {})
            /\ registry' = [registry EXCEPT ![a].priority = priority]
       ELSE /\ Begin(p, "publish", a, {})
            /\ registry' = [registry EXCEPT ![a].priority = priority,
                                            ![a].state = "pending-add"]
    /\ UNCHANGED issued

\* Faulty variant: the account was published before it was disabled, so it is
\* taken to be published still.
EnableDirectly(p, a) ==
    /\ Registered(a)
    /\ registry[a].state = "disabled"
    /\ Begin(p, "release", a, {})
    /\ SetState(a, "active")
    /\ UNCHANGED issued

Enable(p, a) ==
    /\ Registered(a)
    /\ registry[a].state = "disabled"
    /\ Begin(p, "publish", a, {})
    /\ SetState(a, "pending-add")
    /\ UNCHANGED issued

Disable(p, a) ==
    /\ Registered(a)
    /\ registry[a].state = "active"
    /\ Begin(p, "release", a, {})
    /\ SetState(a, "disabled")
    /\ UNCHANGED issued

-----------------------------------------------------------------------------
(* synchronize, publish and unpublish.                                     *)

Goto(location) ==
    pc' = location /\ UNCHANGED <<owner, target, todo, wasDisabled>>

\* The account is done; `sync' may have more of them.
Advance == Goto(IF todo = {} THEN "release" ELSE "sync")

Key == registry[target].credential

SyncNext ==
    /\ pc = "sync"
    /\ \E a \in todo :
        /\ target' = a
        /\ todo' = todo \ {a}
        /\ pc' = CASE registry[a].state = "pending-add" -> "publish"
                   [] registry[a].state = "pending-remove" -> "restore"
                   [] OTHER -> IF todo = {a} THEN "release" ELSE "sync"
    /\ UNCHANGED <<registry, issued, credentials, inflight, store, journal,
                   known, owner, wasDisabled, history>>

Written(k, fields) ==
    credentials' = [credentials EXCEPT ![k].prefix = fields.prefix,
                                       ![k].priority = fields.priority]

\* patch_auth_fields.  Any failure ends the command, which cannot tell
\* whether the fields were set, or will be.
Patch(fields, next) ==
    \/ /\ Written(Key, fields)
       /\ pc' \in {next, "release"}
       /\ UNCHANGED <<inflight, disturbances>>
    \/ /\ pc' = "release"
       /\ UNCHANGED <<credentials, inflight, disturbances>>
    \/ /\ disturbances < MaxDisturbances
       /\ disturbances' = disturbances + 1
       /\ inflight' = inflight \cup {[credential |-> Key, fields |-> fields]}
       /\ pc' = "release"
       /\ UNCHANGED credentials

Publish ==
    /\ pc = "publish"
    /\ IF credentials[Key].disabled
       THEN pc' = "release" /\ UNCHANGED <<credentials, inflight, disturbances>>
       ELSE Patch([prefix |-> target, priority |-> registry[target].priority],
                  "verifyPublish")
    /\ UNCHANGED <<registry, issued, store, journal, known, owner, target, todo,
                   wasDisabled, disturbed, landed>>

VerifyPublish ==
    /\ pc = "verifyPublish"
    /\ IF /\ MetadataOf(Key) = [prefix |-> target,
                                priority |-> registry[target].priority]
          /\ ~credentials[Key].disabled
       THEN Goto("activate") /\ disturbed' = disturbed \ {Key}
       ELSE Goto("release") /\ UNCHANGED disturbed
    /\ UNCHANGED <<registry, issued, credentials, inflight, store, journal,
                   known, disturbances, landed>>

Activate ==
    /\ pc = "activate"
    /\ SetState(target, "active")
    /\ Advance
    /\ UNCHANGED <<issued, credentials, inflight, store, journal, known, history>>

\* The first patch cannot say null: it sets neutral values instead.
Restore ==
    /\ pc = "restore"
    /\ LET original == registry[target].original
           zero == IF original.priority = Unset THEN 0 ELSE original.priority
       IN  Patch([prefix |-> original.prefix, priority |-> zero],
                 IF original.prefix = Unset \/ original.priority = Unset
                 THEN "neutral" ELSE "verifyRestore")
    /\ wasDisabled' = credentials[Key].disabled
    /\ UNCHANGED <<registry, issued, store, journal, known, owner, target, todo,
                   disturbed, landed>>

\* The second patch.
Neutral ==
    /\ pc = "neutral"
    /\ Patch(registry[target].original, "verifyRestore")
    /\ UNCHANGED <<registry, issued, store, journal, known, owner, target, todo,
                   wasDisabled, disturbed, landed>>

\* Faulty variant: the fields are not read back.
VerifyRestoreNothing ==
    /\ pc = "verifyRestore"
    /\ Goto("delete")
    /\ disturbed' = disturbed \ {Key}
    /\ UNCHANGED <<registry, issued, credentials, inflight, store, journal,
                   known, disturbances, landed>>

VerifyRestore ==
    /\ pc = "verifyRestore"
    /\ IF /\ MetadataOf(Key) = registry[target].original
          /\ credentials[Key].disabled = wasDisabled
       THEN Goto("delete") /\ disturbed' = disturbed \ {Key}
       ELSE Goto("release") /\ UNCHANGED disturbed
    /\ UNCHANGED <<registry, issued, credentials, inflight, store, journal,
                   known, disturbances, landed>>

Delete ==
    /\ pc = "delete"
    /\ registry' = [registry EXCEPT ![target] = Unregistered]
    /\ Advance
    /\ UNCHANGED <<issued, credentials, inflight, store, journal, known, history>>

-----------------------------------------------------------------------------
(* account remove, before it unpublishes.                                  *)

Kept == [c \in Candidates |-> IF c \in known[owner] THEN store.bindings[c]
                                                    ELSE Unset]

\* Faulty variant: only the bindings, not the account's use of them, are
\* looked at.
PruneBlindly ==
    /\ pc = "prune"
    /\ store' = [store EXCEPT !.bindings = Kept]
    /\ Goto("mark")
    /\ UNCHANGED <<registry, issued, credentials, inflight, journal, known,
                   history>>

\* Bindings of candidates that no stack uses are dropped, going by the stacks
\* the process has read; StackBindingTransaction.save refuses bindings to
\* accounts that are not registered.
Prune ==
    /\ pc = "prune"
    /\ IF /\ Kept # store.bindings
          /\ \E c \in Candidates : Kept[c] # Unset /\ ~Registered(Kept[c])
       THEN Goto("release") /\ UNCHANGED store
       ELSE /\ store' = [store EXCEPT !.bindings = Kept]
            /\ Goto(IF \E c \in Candidates : Kept[c] = target
                    THEN "release" ELSE "mark")
    /\ UNCHANGED <<registry, issued, credentials, inflight, journal, known,
                   history>>

\* Faulty variant: an account that was never activated is taken never to have
\* been published.
MarkUnpublished ==
    /\ pc = "mark"
    /\ SetState(target, "pending-remove")
    /\ Goto(IF registry[target].state = "pending-add" THEN "delete" ELSE "restore")
    /\ UNCHANGED <<issued, credentials, inflight, store, journal, known, history>>

Mark ==
    /\ pc = "mark"
    /\ SetState(target, "pending-remove")
    /\ Goto("restore")
    /\ UNCHANGED <<issued, credentials, inflight, store, journal, known, history>>

-----------------------------------------------------------------------------
(* The end of a command, on whatever path, and of a process.               *)

Released(p) ==
    /\ known' = [known EXCEPT ![p] = NotLoaded]
    /\ owner' = NoOwner /\ pc' = "idle" /\ target' = Unset
    /\ todo' = {} /\ wasDisabled' = FALSE
    /\ UNCHANGED <<registry, issued, credentials, inflight, store, journal,
                   history>>

Release == pc = "release" /\ Released(owner)
Crash == owner # NoOwner /\ Released(owner)

-----------------------------------------------------------------------------
(* The stack store, which takes the same first lock.                       *)

SaveStack ==
    /\ owner = NoOwner
    /\ store' \in Stores
    /\ Valid(store')
    /\ journal' = NoJournal
    /\ UNCHANGED <<registry, issued, credentials, inflight, known, command,
                   history>>

\* A save is killed after it has written its journal and neither, one or both
\* of its files.
InterruptSave ==
    /\ owner = NoOwner
    /\ disturbances < MaxDisturbances
    /\ disturbances' = disturbances + 1
    /\ \E new \in Stores :
        /\ Valid(new)
        /\ store' \in {LogicalStore, new,
                       [LogicalStore EXCEPT !.bindings = new.bindings]}
    /\ journal' = LogicalStore
    /\ UNCHANGED <<registry, issued, credentials, inflight, known, command,
                   disturbed, landed>>

\* The next load or save recovers first.
RecoverStore ==
    /\ owner = NoOwner
    /\ journal # NoJournal
    /\ store' = journal
    /\ journal' = NoJournal
    /\ UNCHANGED <<registry, issued, credentials, inflight, known, command,
                   history>>

-----------------------------------------------------------------------------
(* What others do to credentials.                                          *)

Disturb(k) ==
    /\ disturbances < MaxDisturbances
    /\ disturbances' = disturbances + 1
    /\ disturbed' = disturbed \cup {k}
    /\ UNCHANGED <<registry, issued, inflight, store, journal, known, command,
                   landed>>

\* A sign-in replaces the credential file.
Relogin(k) ==
    /\ Disturb(k)
    /\ credentials' = [credentials EXCEPT ![k] =
          [prefix |-> Unset, priority |-> Unset, disabled |-> FALSE]]

\* The user disables or enables the credential in CLIProxyAPI.
ToggleDisabled(k) ==
    /\ Disturb(k)
    /\ credentials' = [credentials EXCEPT ![k].disabled = ~@]

\* `provider credential priority' takes only the third lock, which every
\* account command holds as well.
SetProviderPriority(k, priority) ==
    /\ owner = NoOwner
    /\ Disturb(k)
    /\ credentials' = [credentials EXCEPT ![k].priority = priority]

\* A patch that its sender has given up on is applied.
LandLate ==
    \E patch \in inflight :
        /\ inflight' = inflight \ {patch}
        /\ Written(patch.credential, patch.fields)
        /\ disturbed' = disturbed \cup {patch.credential}
        /\ landed' = landed \cup ({patch.fields.prefix} \cap Accounts)
        /\ UNCHANGED <<registry, issued, store, journal, known, command,
                       disturbances>>

-----------------------------------------------------------------------------
Commands(p) ==
    \/ Load(p)
    \/ \E a \in Accounts, k \in Credentials, n \in Priorities : Add(p, a, k, n)
    \/ \E a \in Accounts, n \in Priorities : SetPriority(p, a, n)
    \/ \E a \in Accounts : Remove(p, a) \/ Enable(p, a) \/ Disable(p, a)
    \/ Sync(p)

Steps ==
    \/ SyncNext \/ Publish \/ VerifyPublish \/ Activate
    \/ Restore \/ Neutral \/ VerifyRestore \/ Delete
    \/ Prune \/ Mark \/ Release \/ Crash

Others ==
    \/ SaveStack \/ InterruptSave \/ RecoverStore \/ LandLate
    \/ \E k \in Credentials : Relogin(k) \/ ToggleDisabled(k)
    \/ \E k \in Credentials, n \in Priorities : SetProviderPriority(k, n)

Next == (\E p \in Procs : Commands(p)) \/ Steps \/ Others

Spec == Init /\ [][Next]_vars

-----------------------------------------------------------------------------
(* Properties.                                                             *)

\* Routes are made from active accounts: whatever was interrupted, retried or
\* answered late, the credential of an active account carries its prefix and
\* its priority and is enabled, unless somebody else has changed it since.
ActiveIsPublished ==
    \A a \in Accounts :
        Registered(a) /\ registry[a].state = "active"
        /\ registry[a].credential \notin disturbed =>
            credentials[registry[a].credential] =
                [prefix |-> a, priority |-> registry[a].priority, disabled |-> FALSE]

\* A credential carries the routing prefix of an account only while that
\* account is registered for it: no removal, interrupted or not, leaves a route
\* behind, except where a patch of that account was applied after the command
\* had given up on it.
NoStrayRoute ==
    \A k \in Credentials, a \in Accounts :
        credentials[k].prefix = a =>
            \/ Registered(a) /\ registry[a].credential = k
            \/ a \in landed

\* An account leaves the registry only when its credential has got back what
\* it had before the account was added.
RemovalRestores ==
    [][\A a \in Accounts :
        Registered(a) /\ registry'[a] = Unregistered =>
            LET k == registry[a].credential IN
                k \notin disturbed => MetadataOf(k) = registry[a].original]_vars

\* Every binding a reader of the stack store gets names an account that is
\* registered and not on its way out.
BindingsUsable ==
    \A c \in Candidates :
        LogicalStore.bindings[c] # Unset =>
            /\ Registered(LogicalStore.bindings[c])
            /\ registry[LogicalStore.bindings[c]].state # "pending-remove"

\* Only where an interrupted save awaits its recovery can a binding become
\* unusable: no command, killed or not, and no new save or interruption of one
\* takes the account away from a binding that a reader would be given.
BindingsKept ==
    [][journal = NoJournal /\ BindingsUsable => BindingsUsable']_vars
=============================================================================
