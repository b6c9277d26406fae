----------------------- MODULE AccountLifecycleProofs -----------------------
(***************************************************************************)
(* Proofs about AccountLifecycle for any number of processes, accounts,    *)
(* credentials and candidates, and for any number of disturbances.  What   *)
(* carries them is that one credential has one account at a time: a step   *)
(* of a command touches the credential of its target only, whose state     *)
(* says which command it is (InCommand), and no active account has it.     *)
(***************************************************************************)
EXTENDS AccountLifecycle, TLAPS

Publishing == {"publish", "verifyPublish", "activate"}
Unpublishing == {"restore", "neutral", "verifyRestore", "delete"}

\* A credential as the account publishes it.
Published(k, a) ==
    /\ credentials[k].prefix = a
    /\ credentials[k].priority = registry[a].priority
    /\ ~credentials[k].disabled

\* What a command has established by the time it is where it is.
InCommand ==
    /\ owner = NoOwner <=> pc = "idle"
    /\ \A a \in todo : Registered(a) /\ a # target
    /\ pc \in Publishing \cup Unpublishing \cup {"prune", "mark"} =>
         target \in Accounts /\ Registered(target)
    /\ pc \in Publishing => registry[target].state = "pending-add"
    /\ pc \in Unpublishing => registry[target].state = "pending-remove"

OneAccount ==
    \A a, b \in Accounts :
        Registered(a) /\ Registered(b)
        /\ registry[a].credential = registry[b].credential => a = b

Issued == \A a \in Accounts : Registered(a) => a \in issued

\* What an account found on its credential is not a route of another one,
\* unless a late patch had left it there.
OriginalsClean ==
    \A a \in Accounts :
        Registered(a) /\ registry[a].original.prefix \in Accounts =>
            registry[a].original.prefix \in landed

\* What the verification before the last step found.
Verified ==
    /\ pc = "activate" => Key \in disturbed \/ Published(Key, target)
    /\ pc = "delete" =>
         /\ Key \in disturbed \/ MetadataOf(Key) = registry[target].original
         /\ credentials[Key].prefix = target => target \in landed

\* ActiveIsPublished, field by field.
ActiveFields ==
    \A a \in Accounts :
        Registered(a) /\ registry[a].state = "active"
        /\ registry[a].credential \notin disturbed =>
            Published(registry[a].credential, a)

Inv == /\ TypeOK /\ InCommand /\ OneAccount /\ Issued /\ OriginalsClean
       /\ Verified /\ ActiveFields /\ NoStrayRoute

\* The binding file does not name an account that is about to be marked.
Unbound == pc = "mark" => \A c \in Candidates : store.bindings[c] # target

-----------------------------------------------------------------------------
(* The types of what the steps write.                                      *)

LEMMA RegistrationsRegistered == \A r \in Registrations : r # Unregistered
  BY DEF Registrations, Unregistered

LEMMA AtTarget ==
    ASSUME TypeOK, InCommand,
           pc \in Publishing \cup Unpublishing \cup {"prune", "mark"}
    PROVE  /\ target \in Accounts /\ registry[target] \in Registrations
           /\ Key \in Credentials /\ credentials[Key].disabled \in BOOLEAN
           /\ registry[target].priority \in Priorities
           /\ registry[target].original \in Metadata
  <1>1. target \in Accounts /\ registry[target] \in Registrations
    BY DEF TypeOK, InCommand, Registered
  <1>2. Key \in Credentials
    BY <1>1 DEF Key, Registrations
  <1> QED BY <1>1, <1>2 DEF TypeOK, Registrations

\* An account whose registration has changed in some of its fields.
LEMMA UpdatedType ==
    ASSUME TypeOK, NEW a \in Accounts, NEW r \in {Unregistered} \cup Registrations
    PROVE  [registry EXCEPT ![a] = r] \in [Accounts -> {Unregistered} \cup Registrations]
  BY DEF TypeOK

LEMMA StateType ==
    ASSUME NEW r \in Registrations,
           NEW s \in {"pending-add", "active", "disabled", "pending-remove"}
    PROVE  [r EXCEPT !.state = s] \in Registrations
  BY DEF Registrations

LEMMA PriorityType ==
    ASSUME NEW r \in Registrations, NEW n \in Priorities
    PROVE  [r EXCEPT !.priority = n] \in Registrations
  BY DEF Registrations

LEMMA WrittenType ==
    ASSUME TypeOK, NEW k \in Credentials, NEW fields \in Metadata, Written(k, fields)
    PROVE  credentials' \in [Credentials ->
              [prefix : Accounts \cup UserPrefixes \cup {Unset},
               priority : Priorities \cup {Unset}, disabled : BOOLEAN]]
  <1>1. fields.prefix \in Accounts \cup UserPrefixes \cup {Unset}
        /\ fields.priority \in Priorities \cup {Unset}
    BY DEF Metadata
  <1> QED BY <1>1 DEF TypeOK, Written

-----------------------------------------------------------------------------
LEMMA CommandsType ==
    ASSUME TypeOK, InCommand, NEW p \in Procs, Commands(p)
    PROVE  TypeOK'
  <1>1. CASE Load(p)
    BY <1>1 DEF Load, TypeOK, command, history, Stores
  <1>2. CASE \E a \in Accounts, k \in Credentials, n \in Priorities : Add(p, a, k, n)
    <2>1. PICK a \in Accounts, k \in Credentials, n \in Priorities : Add(p, a, k, n)
      BY <1>2
    <2>2. MetadataOf(k) \in Metadata
      BY DEF MetadataOf, Metadata, TypeOK
    <2>3. [state |-> "pending-add", credential |-> k, priority |-> n,
           original |-> MetadataOf(k)] \in Registrations
      BY <2>2 DEF Registrations
    <2>4. registry' \in [Accounts -> {Unregistered} \cup Registrations]
      BY <2>1, <2>3 DEF Add, TypeOK
    <2> QED BY <2>1, <2>4 DEF Add, Begin, TypeOK, history, Locations
  <1>3. CASE \E a \in Accounts, n \in Priorities : SetPriority(p, a, n)
    <2>1. PICK a \in Accounts, n \in Priorities : SetPriority(p, a, n)
      BY <1>3
    <2>2. registry[a] \in Registrations
      BY <2>1 DEF SetPriority, Registered, TypeOK
    <2>3. [registry[a] EXCEPT !.priority = n] \in Registrations
      BY <2>2, PriorityType
    <2>4. [[registry[a] EXCEPT !.priority = n] EXCEPT !.state = "pending-add"]
             \in Registrations
      BY <2>3, StateType
    <2>5. registry' \in [Accounts -> {Unregistered} \cup Registrations]
      BY <2>1, <2>3, <2>4 DEF SetPriority, TypeOK
    <2> QED BY <2>1, <2>5 DEF SetPriority, Begin, TypeOK, history, Locations
  <1>4. CASE \E a \in Accounts : Remove(p, a) \/ Enable(p, a) \/ Disable(p, a)
    <2>1. PICK a \in Accounts : Remove(p, a) \/ Enable(p, a) \/ Disable(p, a)
      BY <1>4
    <2>2. registry[a] \in Registrations
      BY <2>1 DEF Remove, Enable, Disable, Registered, TypeOK
    <2>3. \A st \in {"pending-add", "disabled"} :
             [registry[a] EXCEPT !.state = st] \in Registrations
      BY <2>2, StateType
    <2>4. registry' \in [Accounts -> {Unregistered} \cup Registrations]
      BY <2>1, <2>3 DEF Remove, Enable, Disable, SetState, TypeOK
    <2> QED BY <2>1, <2>4 DEF Remove, Enable, Disable, Begin, TypeOK, history, Locations
  <1>5. CASE Sync(p)
    <2>1. PICK selected \in {{a} : a \in Accounts} \cup {{a \in Accounts : Registered(a)}} :
               Begin(p, "sync", Unset, selected) /\ UNCHANGED <<registry, issued>>
      BY <1>5 DEF Sync
    <2>2. selected \subseteq Accounts
      OBVIOUS
    <2> QED BY <2>1, <2>2 DEF Begin, TypeOK, history, Locations
  <1> QED BY <1>1, <1>2, <1>3, <1>4, <1>5 DEF Commands

\* A patch writes the fields of one credential, or leaves them in flight.
LEMMA PatchType ==
    ASSUME TypeOK, NEW fields \in Metadata, NEW next, Key \in Credentials,
           Patch(fields, next), next \in Locations
    PROVE  /\ credentials' \in [Credentials ->
                [prefix : Accounts \cup UserPrefixes \cup {Unset},
                 priority : Priorities \cup {Unset}, disabled : BOOLEAN]]
           /\ inflight' \subseteq [credential : Credentials, fields : Metadata]
           /\ disturbances' \in Nat /\ pc' \in Locations
  <1>1. CASE Written(Key, fields) /\ pc' \in {next, "release"}
             /\ UNCHANGED <<inflight, disturbances>>
    <2>1. credentials' \in [Credentials ->
                [prefix : Accounts \cup UserPrefixes \cup {Unset},
                 priority : Priorities \cup {Unset}, disabled : BOOLEAN]]
      BY <1>1, WrittenType
    <2> QED BY <1>1, <2>1 DEF TypeOK, Locations
  <1>2. CASE pc' = "release" /\ UNCHANGED <<credentials, inflight, disturbances>>
    BY <1>2 DEF TypeOK, Locations
  <1>3. CASE /\ disturbances' = disturbances + 1
             /\ inflight' = inflight \cup {[credential |-> Key, fields |-> fields]}
             /\ pc' = "release" /\ UNCHANGED credentials
    BY <1>3 DEF TypeOK, Locations
  <1> QED BY <1>1, <1>2, <1>3 DEF Patch

LEMMA StepsType ==
    ASSUME TypeOK, InCommand, Steps
    PROVE  TypeOK'
  <1>1. CASE SyncNext
    BY <1>1 DEF SyncNext, TypeOK, history, Locations
  <1>2. CASE Publish
    <2>1. Key \in Credentials /\ target \in Accounts
          /\ [prefix |-> target, priority |-> registry[target].priority] \in Metadata
      BY <1>2, AtTarget DEF Publish, Publishing, Metadata
    <2>2. CASE credentials[Key].disabled
      BY <1>2, <2>2 DEF Publish, TypeOK, Locations
    <2>3. CASE ~credentials[Key].disabled
      <3>1. Patch([prefix |-> target, priority |-> registry[target].priority],
                  "verifyPublish")
        BY <1>2, <2>3 DEF Publish
      <3>2. /\ credentials' \in [Credentials ->
                [prefix : Accounts \cup UserPrefixes \cup {Unset},
                 priority : Priorities \cup {Unset}, disabled : BOOLEAN]]
            /\ inflight' \subseteq [credential : Credentials, fields : Metadata]
            /\ disturbances' \in Nat /\ pc' \in Locations
        <4>1. "verifyPublish" \in Locations
          BY DEF Locations
        <4> QED BY <2>1, <3>1, <4>1, PatchType
      <3> QED BY <1>2, <3>2 DEF Publish, TypeOK
    <2> QED BY <2>2, <2>3
  <1>3. CASE VerifyPublish
    BY <1>3 DEF VerifyPublish, Goto, TypeOK, Locations
  <1>4. CASE Activate
    <2>1. target \in Accounts /\ [registry[target] EXCEPT !.state = "active"] \in Registrations
      BY <1>4, AtTarget, StateType DEF Activate, Publishing
    <2> QED BY <1>4, <2>1 DEF Activate, SetState, Advance, Goto, TypeOK, history, Locations
  <1>5. CASE Restore
    <2> DEFINE original == registry[target].original
               zero == IF original.priority = Unset THEN 0 ELSE original.priority
               next == IF original.prefix = Unset \/ original.priority = Unset
                       THEN "neutral" ELSE "verifyRestore"
    <2>1. Key \in Credentials /\ original \in Metadata
          /\ credentials[Key].disabled \in BOOLEAN
      BY <1>5, AtTarget DEF Restore, Unpublishing
    <2>2. [prefix |-> original.prefix, priority |-> zero] \in Metadata
      BY <2>1, LifecycleAssumption DEF Metadata
    <2>3. next \in Locations
      BY DEF Locations
    <2>4. Patch([prefix |-> original.prefix, priority |-> zero], next)
      BY <1>5 DEF Restore
    <2>5. /\ credentials' \in [Credentials ->
              [prefix : Accounts \cup UserPrefixes \cup {Unset},
               priority : Priorities \cup {Unset}, disabled : BOOLEAN]]
          /\ inflight' \subseteq [credential : Credentials, fields : Metadata]
          /\ disturbances' \in Nat /\ pc' \in Locations
      <3> HIDE DEF original, zero, next
      <3> QED BY <2>1, <2>2, <2>3, <2>4, PatchType
    <2>6. wasDisabled' \in BOOLEAN
      BY <1>5, <2>1 DEF Restore
    <2> QED BY <1>5, <2>5, <2>6 DEF Restore, TypeOK
  <1>6. CASE Neutral
    <2>1. Key \in Credentials /\ registry[target].original \in Metadata
          /\ "verifyRestore" \in Locations
      BY <1>6, AtTarget DEF Neutral, Unpublishing, Locations
    <2>2. /\ credentials' \in [Credentials ->
              [prefix : Accounts \cup UserPrefixes \cup {Unset},
               priority : Priorities \cup {Unset}, disabled : BOOLEAN]]
          /\ inflight' \subseteq [credential : Credentials, fields : Metadata]
          /\ disturbances' \in Nat /\ pc' \in Locations
      BY <1>6, <2>1, PatchType DEF Neutral
    <2> QED BY <1>6, <2>2 DEF Neutral, TypeOK
  <1>7. CASE VerifyRestore
    BY <1>7 DEF VerifyRestore, Goto, TypeOK, Locations
  <1>8. CASE Delete
    BY <1>8, AtTarget DEF Delete, Unpublishing, Advance, Goto, TypeOK, history, Locations
  <1>9. CASE Prune
    <2>1. Kept \in [Candidates -> Accounts \cup {Unset}]
      BY DEF Kept, TypeOK, Stores
    <2>2. store' \in Stores
      BY <1>9, <2>1 DEF Prune, TypeOK, Stores
    <2> QED BY <1>9, <2>2 DEF Prune, Goto, TypeOK, history, Locations
  <1>10. CASE Mark
    <2>1. target \in Accounts
          /\ [registry[target] EXCEPT !.state = "pending-remove"] \in Registrations
      BY <1>10, AtTarget, StateType DEF Mark
    <2> QED BY <1>10, <2>1 DEF Mark, SetState, Goto, TypeOK, history, Locations
  <1>11. CASE Release \/ Crash
    BY <1>11 DEF Release, Crash, Released, TypeOK, history, Locations
  <1> QED BY <1>1, <1>2, <1>3, <1>4, <1>5, <1>6, <1>7, <1>8, <1>9, <1>10, <1>11 DEF Steps

LEMMA OthersType ==
    ASSUME TypeOK, Others
    PROVE  TypeOK'
  <1>1. CASE SaveStack
    BY <1>1 DEF SaveStack, TypeOK, command, history
  <1>2. CASE InterruptSave
    <2>1. LogicalStore \in Stores
      BY DEF LogicalStore, TypeOK
    <2>2. \A new \in Stores : [LogicalStore EXCEPT !.bindings = new.bindings] \in Stores
      BY <2>1 DEF Stores
    <2>3. store' \in Stores /\ journal' \in Stores
      BY <1>2, <2>1, <2>2 DEF InterruptSave
    <2> QED BY <1>2, <2>3 DEF InterruptSave, TypeOK, command
  <1>3. CASE RecoverStore
    BY <1>3 DEF RecoverStore, TypeOK, command, history
  <1>4. CASE LandLate
    <2>1. PICK patch \in inflight :
            /\ inflight' = inflight \ {patch}
            /\ Written(patch.credential, patch.fields)
            /\ disturbed' = disturbed \cup {patch.credential}
            /\ landed' = landed \cup ({patch.fields.prefix} \cap Accounts)
            /\ UNCHANGED <<registry, issued, store, journal, known, command,
                           disturbances>>
      BY <1>4 DEF LandLate
    <2>2. patch.credential \in Credentials /\ patch.fields \in Metadata
      BY DEF TypeOK
    <2>3. credentials' \in [Credentials ->
              [prefix : Accounts \cup UserPrefixes \cup {Unset},
               priority : Priorities \cup {Unset}, disabled : BOOLEAN]]
      BY <2>1, <2>2, WrittenType
    <2> QED BY <2>1, <2>2, <2>3 DEF TypeOK, command
  <1>5. CASE \E k \in Credentials : Relogin(k)
    BY <1>5 DEF Relogin, Disturb, TypeOK, command
  <1>6. CASE \E k \in Credentials : ToggleDisabled(k)
    <2>1. PICK k \in Credentials : ToggleDisabled(k)
      BY <1>6
    <2>2. (~credentials[k].disabled) \in BOOLEAN
      OBVIOUS
    <2>3. credentials' \in [Credentials ->
              [prefix : Accounts \cup UserPrefixes \cup {Unset},
               priority : Priorities \cup {Unset}, disabled : BOOLEAN]]
      BY <2>1, <2>2 DEF ToggleDisabled, TypeOK
    <2> QED BY <2>1, <2>3 DEF ToggleDisabled, Disturb, TypeOK, command
  <1>7. CASE \E k \in Credentials, n \in Priorities : SetProviderPriority(k, n)
    BY <1>7 DEF SetProviderPriority, Disturb, TypeOK, command
  <1> QED BY <1>1, <1>2, <1>3, <1>4, <1>5, <1>6, <1>7 DEF Others

-----------------------------------------------------------------------------
(* What the steps do to the registry: an account is added, or changes its  *)
(* state or its priority, or leaves; its credential and what was found on  *)
(* it stay.                                                                *)

States == {"pending-add", "active", "disabled", "pending-remove"}

Updated(a, st) ==
    /\ Registered(a) /\ Registered(a)'
    /\ registry'[a].state = st
    /\ registry'[a].credential = registry[a].credential
    /\ registry'[a].original = registry[a].original
    /\ \A b \in Accounts \ {a} : registry'[b] = registry[b]

Added(a, k) ==
    /\ a \in issued' \ issued
    /\ \A b \in Accounts : Registered(b) => registry[b].credential # k
    /\ Registered(a)'
    /\ registry'[a].state = "pending-add"
    /\ registry'[a].credential = k
    /\ registry'[a].original = MetadataOf(k)
    /\ \A b \in Accounts \ {a} : registry'[b] = registry[b]

Deleted(a) ==
    /\ registry'[a] = Unregistered
    /\ \A b \in Accounts \ {a} : registry'[b] = registry[b]

LEMMA SetStateUpdates ==
    ASSUME TypeOK, NEW a \in Accounts, Registered(a), NEW st \in States, SetState(a, st)
    PROVE  Updated(a, st) /\ registry'[a].priority = registry[a].priority
  <1>1. registry[a] \in Registrations
    BY DEF TypeOK, Registered
  <1>2. registry'[a] = [registry[a] EXCEPT !.state = st]
        /\ \A b \in Accounts \ {a} : registry'[b] = registry[b]
    BY DEF TypeOK, SetState
  <1>3. registry'[a] \in Registrations
    BY <1>1, <1>2, StateType DEF States
  <1>4. registry'[a] # Unregistered
    BY <1>3, RegistrationsRegistered
  <1> QED BY <1>1, <1>2, <1>4 DEF Updated, Registered, Registrations

LEMMA AddAdds ==
    ASSUME TypeOK, NEW p \in Procs, NEW a \in Accounts, NEW k \in Credentials,
           NEW n \in Priorities, Add(p, a, k, n)
    PROVE  Added(a, k)
  BY DEF Add, Added, Registered, Unregistered, TypeOK

LEMMA SetPriorityUpdates ==
    ASSUME TypeOK, NEW p \in Procs, NEW a \in Accounts, NEW n \in Priorities,
           SetPriority(p, a, n)
    PROVE  /\ Updated(a, IF registry[a].state = "disabled" THEN "disabled"
                                                           ELSE "pending-add")
           /\ owner = NoOwner /\ owner' = p /\ target' = a /\ todo' = {}
           /\ pc' = IF registry[a].state = "disabled" THEN "release" ELSE "publish"
           /\ UNCHANGED <<credentials, disturbed, landed>>
  <1>1. registry[a] \in Registrations
    BY DEF SetPriority, Registered, TypeOK
  <1> DEFINE r == [registry[a] EXCEPT !.priority = n]
             q == [r EXCEPT !.state = "pending-add"]
  <1>2. r \in Registrations /\ r.state = registry[a].state
        /\ r.credential = registry[a].credential /\ r.original = registry[a].original
    BY <1>1 DEF Registrations
  <1>3. q \in Registrations /\ q.state = "pending-add"
        /\ q.credential = registry[a].credential /\ q.original = registry[a].original
    BY <1>1 DEF Registrations
  <1>4. /\ registry'[a] = IF registry[a].state = "disabled" THEN r ELSE q
        /\ \A b \in Accounts \ {a} : registry'[b] = registry[b]
    BY DEF SetPriority, TypeOK
  <1>5. registry'[a] # Unregistered
    BY <1>2, <1>3, <1>4, RegistrationsRegistered
  <1>6. Updated(a, IF registry[a].state = "disabled" THEN "disabled"
                                                     ELSE "pending-add")
    <2> HIDE DEF r, q
    <2> QED BY <1>2, <1>3, <1>4, <1>5 DEF Updated, Registered, SetPriority
  <1> QED BY <1>6 DEF SetPriority, Begin, history

LEMMA DeleteDeletes ==
    ASSUME TypeOK, InCommand, Delete
    PROVE  target \in Accounts /\ Deleted(target)
  BY AtTarget DEF Delete, Deleted, Unpublishing, TypeOK

LEMMA RegistryStep ==
    ASSUME TypeOK, InCommand, Next
    PROVE  \/ registry' = registry
           \/ \E a \in Accounts, st \in States :
                 /\ Updated(a, st)
                 /\ st = "active" => Activate /\ a = target
                 /\ st = "pending-remove" => Mark /\ a = target
           \/ \E a \in Accounts, k \in Credentials : Added(a, k)
           \/ Delete
  <1>1. CASE \E p \in Procs : Commands(p)
    <2>1. PICK p \in Procs : Commands(p)
      BY <1>1
    <2>2. CASE Load(p) \/ Sync(p)
      BY <2>2 DEF Load, Sync
    <2>3. CASE \E a \in Accounts, k \in Credentials, n \in Priorities : Add(p, a, k, n)
      BY <2>3, AddAdds
    <2>4. CASE \E a \in Accounts, n \in Priorities : SetPriority(p, a, n)
      BY <2>4, SetPriorityUpdates DEF States
    <2>5. CASE \E a \in Accounts : Remove(p, a) \/ Enable(p, a) \/ Disable(p, a)
      BY <2>5, SetStateUpdates DEF Remove, Enable, Disable, States
    <2> QED BY <2>1, <2>2, <2>3, <2>4, <2>5 DEF Commands
  <1>2. CASE Steps
    <2>1. CASE Activate
      BY <2>1, AtTarget, SetStateUpdates DEF Activate, Publishing, InCommand, States
    <2>2. CASE Mark
      BY <2>2, AtTarget, SetStateUpdates DEF Mark, InCommand, States
    <2>4. CASE \/ SyncNext \/ Publish \/ VerifyPublish \/ Restore \/ Neutral
               \/ VerifyRestore \/ Prune \/ Release \/ Crash
      BY <2>4 DEF SyncNext, Publish, VerifyPublish, Restore, Neutral,
                  VerifyRestore, Prune, Release, Crash, Released
    <2> QED BY <1>2, <2>1, <2>2, <2>4 DEF Steps
  <1>3. CASE Others
    BY <1>3 DEF Others, SaveStack, InterruptSave, RecoverStore, LandLate,
                Relogin, ToggleDisabled, SetProviderPriority, Disturb
  <1> QED BY <1>1, <1>2, <1>3 DEF Next

LEMMA HistoryGrows ==
    ASSUME Next
    PROVE  landed \subseteq landed' /\ issued \subseteq issued'
  <1>1. CASE \E p \in Procs : Commands(p)
    BY <1>1 DEF Commands, Load, Add, SetPriority, Remove, Enable, Disable,
                Sync, Begin, history
  <1>2. CASE Steps
    BY <1>2 DEF Steps, SyncNext, Publish, VerifyPublish, Activate, Restore,
                Neutral, VerifyRestore, Delete, Prune, Mark, Release, Crash,
                Released, history
  <1>3. CASE Others
    BY <1>3 DEF Others, SaveStack, InterruptSave, RecoverStore, LandLate,
                Relogin, ToggleDisabled, SetProviderPriority, Disturb, history
  <1> QED BY <1>1, <1>2, <1>3 DEF Next

LEMMA OneAccountStep ==
    ASSUME TypeOK, InCommand, OneAccount, Next
    PROVE  OneAccount'
  <1>1. CASE registry' = registry
    BY <1>1 DEF OneAccount, Registered
  <1>2. CASE \E a \in Accounts, st \in States : Updated(a, st)
    BY <1>2 DEF Updated, OneAccount, Registered
  <1>3. CASE \E a \in Accounts, k \in Credentials : Added(a, k)
    BY <1>3 DEF Added, OneAccount, Registered
  <1>4. CASE Delete
    BY DeleteDeletes, <1>4 DEF Deleted, OneAccount, Registered
  <1> QED BY <1>1, <1>2, <1>3, <1>4, RegistryStep

LEMMA IssuedStep ==
    ASSUME TypeOK, InCommand, Issued, Next
    PROVE  Issued'
  <1>0. issued \subseteq issued'
    BY HistoryGrows
  <1>1. CASE registry' = registry
    BY <1>0, <1>1 DEF Issued, Registered
  <1>2. CASE \E a \in Accounts, st \in States : Updated(a, st)
    BY <1>0, <1>2 DEF Updated, Issued, Registered
  <1>3. CASE \E a \in Accounts, k \in Credentials : Added(a, k)
    BY <1>0, <1>3 DEF Added, Issued, Registered
  <1>4. CASE Delete
    BY DeleteDeletes, <1>0, <1>4 DEF Deleted, Issued, Registered
  <1> QED BY <1>1, <1>2, <1>3, <1>4, RegistryStep

LEMMA OriginalsCleanStep ==
    ASSUME TypeOK, InCommand, OriginalsClean, NoStrayRoute, Next
    PROVE  OriginalsClean'
  <1>0. landed \subseteq landed'
    BY HistoryGrows
  <1>1. CASE registry' = registry
    BY <1>0, <1>1 DEF OriginalsClean, Registered
  <1>2. CASE \E a \in Accounts, st \in States : Updated(a, st)
    BY <1>0, <1>2 DEF Updated, OriginalsClean, Registered
  <1>3. CASE \E a \in Accounts, k \in Credentials : Added(a, k)
    <2>1. PICK a \in Accounts, k \in Credentials : Added(a, k)
      BY <1>3
    <2>2. registry'[a].original.prefix = credentials[k].prefix
      BY <2>1 DEF Added, MetadataOf
    <2>3. credentials[k].prefix \in Accounts => credentials[k].prefix \in landed
      BY <2>1 DEF Added, NoStrayRoute
    <2> QED BY <1>0, <2>1, <2>2, <2>3 DEF Added, OriginalsClean, Registered
  <1>4. CASE Delete
    BY DeleteDeletes, <1>0, <1>4 DEF Deleted, OriginalsClean, Registered
  <1> QED BY <1>1, <1>2, <1>3, <1>4, RegistryStep

-----------------------------------------------------------------------------
(* Where a command is, and what that says of its target.                   *)

LEMMA InCommandCommands ==
    ASSUME TypeOK, InCommand, NEW p \in Procs, Commands(p)
    PROVE  InCommand'
  <1> USE LifecycleAssumption DEF Publishing, Unpublishing
  <1>1. CASE Load(p)
    BY <1>1 DEF Load, InCommand, command, Registered
  <1>2. CASE \E a \in Accounts, k \in Credentials, n \in Priorities : Add(p, a, k, n)
    <2>1. PICK a \in Accounts, k \in Credentials, n \in Priorities : Add(p, a, k, n)
      BY <1>2
    <2>2. Added(a, k)
      BY <2>1, AddAdds
    <2> QED BY <2>1, <2>2 DEF Add, Begin, Added, InCommand, Registered
  <1>3. CASE \E a \in Accounts, n \in Priorities : SetPriority(p, a, n)
    <2>1. PICK a \in Accounts, n \in Priorities : SetPriority(p, a, n)
      BY <1>3
    <2> QED BY <2>1, SetPriorityUpdates DEF Updated, InCommand, Registered
  <1>4. CASE \E a \in Accounts : Remove(p, a)
    BY <1>4 DEF Remove, Begin, InCommand, Registered
  <1>5. CASE \E a \in Accounts : Enable(p, a) \/ Disable(p, a)
    <2>1. PICK a \in Accounts : Enable(p, a) \/ Disable(p, a)
      BY <1>5
    <2>2. \/ Enable(p, a) /\ Updated(a, "pending-add")
          \/ Disable(p, a) /\ Updated(a, "disabled")
      BY <2>1, SetStateUpdates DEF Enable, Disable, States
    <2> QED BY <2>2 DEF Enable, Disable, Begin, Updated, InCommand, Registered
  <1>6. CASE Sync(p)
    BY <1>6 DEF Sync, Begin, InCommand, Registered
  <1> QED BY <1>1, <1>2, <1>3, <1>4, <1>5, <1>6 DEF Commands

LEMMA InCommandSteps ==
    ASSUME TypeOK, InCommand, Steps
    PROVE  InCommand'
  <1> USE DEF Publishing, Unpublishing
  <1>1. CASE SyncNext
    BY <1>1 DEF SyncNext, InCommand, TypeOK, Registered, Registrations
  <1>2. CASE Publish
    BY <1>2 DEF Publish, Patch, InCommand, Registered
  <1>3. CASE VerifyPublish
    BY <1>3 DEF VerifyPublish, Goto, InCommand, Registered
  <1>4. CASE Activate
    <2>1. Updated(target, "active") /\ target \in Accounts
      BY <1>4, AtTarget, SetStateUpdates DEF Activate, InCommand, States
    <2> QED BY <1>4, <2>1 DEF Activate, Advance, Goto, Updated, InCommand, TypeOK, Registered
  <1>5. CASE Restore
    BY <1>5 DEF Restore, Patch, InCommand, Registered
  <1>6. CASE Neutral
    BY <1>6 DEF Neutral, Patch, InCommand, Registered
  <1>7. CASE VerifyRestore
    BY <1>7 DEF VerifyRestore, Goto, InCommand, Registered
  <1>8. CASE Delete
    <2>1. Deleted(target)
      BY <1>8, DeleteDeletes
    <2> QED BY <1>8, <2>1 DEF Delete, Advance, Goto, Deleted, InCommand, TypeOK, Registered
  <1>9. CASE Prune
    BY <1>9 DEF Prune, Goto, InCommand, Registered
  <1>10. CASE Mark
    <2>1. Updated(target, "pending-remove") /\ target \in Accounts
      BY <1>10, AtTarget, SetStateUpdates DEF Mark, InCommand, States
    <2> QED BY <1>10, <2>1 DEF Mark, Goto, Updated, InCommand, TypeOK, Registered
  <1>11. CASE Release \/ Crash
    BY <1>11 DEF Release, Crash, Released, InCommand
  <1> QED BY <1>1, <1>2, <1>3, <1>4, <1>5, <1>6, <1>7, <1>8, <1>9, <1>10, <1>11 DEF Steps

LEMMA InCommandOthers ==
    ASSUME InCommand, Others
    PROVE  InCommand'
  BY DEF Others, SaveStack, InterruptSave, RecoverStore, LandLate, Relogin,
         ToggleDisabled, SetProviderPriority, Disturb, command, InCommand, Registered

-----------------------------------------------------------------------------
(* The routing prefixes that the steps leave on credentials.               *)

\* A prefix that may be written without leaving a stray route.
MayCarry(k, prefix) ==
    prefix \in Accounts =>
        \/ prefix \in landed'
        \/ Registered(prefix) /\ registry[prefix].credential = k

LEMMA WrittenEffect ==
    ASSUME TypeOK, NEW k \in Credentials, NEW fields \in Metadata, Written(k, fields)
    PROVE  /\ credentials'[k].prefix = fields.prefix
           /\ credentials'[k].priority = fields.priority
           /\ credentials'[k].disabled = credentials[k].disabled
           /\ \A j \in Credentials \ {k} : credentials'[j] = credentials[j]
  BY DEF Written, TypeOK

LEMMA CredentialStep ==
    ASSUME TypeOK, InCommand, OriginalsClean, Next
    PROVE  \/ credentials' = credentials
           \/ /\ registry' = registry
              /\ \E k \in Credentials :
                   /\ MayCarry(k, credentials'[k].prefix)
                      \/ credentials'[k].prefix = credentials[k].prefix
                   /\ \A j \in Credentials \ {k} : credentials'[j] = credentials[j]
  <1>1. CASE \E p \in Procs : Commands(p)
    BY <1>1 DEF Commands, Load, Add, SetPriority, Remove, Enable, Disable, Sync, Begin
  <1>2. CASE Publish
    <2>1. target \in Accounts /\ Key \in Credentials /\ Registered(target)
          /\ [prefix |-> target, priority |-> registry[target].priority] \in Metadata
      BY <1>2, AtTarget DEF Publish, Publishing, InCommand, Metadata
    <2>2. \/ credentials' = credentials
          \/ Written(Key, [prefix |-> target, priority |-> registry[target].priority])
      BY <1>2 DEF Publish, Patch
    <2>3. CASE Written(Key, [prefix |-> target, priority |-> registry[target].priority])
      <3>1. credentials'[Key].prefix = target
            /\ \A j \in Credentials \ {Key} : credentials'[j] = credentials[j]
        BY <2>1, <2>3, WrittenEffect
      <3> QED BY <1>2, <2>1, <3>1 DEF Publish, MayCarry, Key
    <2> QED BY <2>2, <2>3
  <1>3. CASE Restore \/ Neutral
    <2> DEFINE original == registry[target].original
    <2>1. target \in Accounts /\ Key \in Credentials /\ Registered(target)
          /\ original \in Metadata
      BY <1>3, AtTarget DEF Restore, Neutral, Unpublishing, InCommand
    <2>2. \/ credentials' = credentials
          \/ \E n \in Priorities \cup {Unset} :
                Written(Key, [prefix |-> original.prefix, priority |-> n])
      <3>1. CASE Restore
        BY <2>1, <3>1, LifecycleAssumption DEF Restore, Patch, Metadata
      <3>2. CASE Neutral
        <4>1. \/ credentials' = credentials \/ Written(Key, original)
          BY <3>2 DEF Neutral, Patch
        <4>2. original.priority \in Priorities \cup {Unset}
              /\ original = [prefix |-> original.prefix, priority |-> original.priority]
          BY <2>1 DEF Metadata
        <4> HIDE DEF original
        <4> QED BY <4>1, <4>2
      <3> QED BY <1>3, <3>1, <3>2
    <2>3. ASSUME NEW n \in Priorities \cup {Unset},
                 Written(Key, [prefix |-> original.prefix, priority |-> n])
          PROVE  credentials'[Key].prefix = original.prefix
                 /\ \A j \in Credentials \ {Key} : credentials'[j] = credentials[j]
      <3>1. [prefix |-> original.prefix, priority |-> n] \in Metadata
        BY <2>1 DEF Metadata
      <3> HIDE DEF original
      <3> QED BY <2>1, <2>3, <3>1, WrittenEffect
    <2>4. MayCarry(Key, original.prefix)
      <3>1. landed \subseteq landed'
        BY HistoryGrows
      <3> QED BY <2>1, <3>1 DEF OriginalsClean, MayCarry
    <2>5. registry' = registry
      BY <1>3 DEF Restore, Neutral
    <2> HIDE DEF original
    <2> QED BY <2>1, <2>2, <2>3, <2>4, <2>5
  <1>4. CASE \/ SyncNext \/ VerifyPublish \/ Activate \/ VerifyRestore \/ Delete
             \/ Prune \/ Mark \/ Release \/ Crash
    BY <1>4 DEF SyncNext, VerifyPublish, Activate, VerifyRestore, Delete,
                Prune, Mark, Release, Crash, Released
  <1>5. CASE LandLate
    <2>1. PICK patch \in inflight :
            /\ Written(patch.credential, patch.fields)
            /\ landed' = landed \cup ({patch.fields.prefix} \cap Accounts)
            /\ registry' = registry
      BY <1>5 DEF LandLate
    <2>2. patch.credential \in Credentials /\ patch.fields \in Metadata
      BY DEF TypeOK
    <2>3. credentials'[patch.credential].prefix = patch.fields.prefix
          /\ \A j \in Credentials \ {patch.credential} : credentials'[j] = credentials[j]
      BY <2>1, <2>2, WrittenEffect
    <2> QED BY <2>1, <2>2, <2>3 DEF MayCarry
  <1>6. CASE \E k \in Credentials : Relogin(k)
    <2>1. PICK k \in Credentials : Relogin(k)
      BY <1>6
    <2>2. credentials'[k].prefix = Unset
          /\ \A j \in Credentials \ {k} : credentials'[j] = credentials[j]
      BY <2>1 DEF Relogin, TypeOK
    <2> QED BY <2>1, <2>2, LifecycleAssumption DEF Relogin, Disturb, MayCarry
  <1>7. CASE \E k \in Credentials : ToggleDisabled(k)
    <2>1. PICK k \in Credentials : ToggleDisabled(k)
      BY <1>7
    <2>2. credentials'[k].prefix = credentials[k].prefix
          /\ \A j \in Credentials \ {k} : credentials'[j] = credentials[j]
      BY <2>1 DEF ToggleDisabled, TypeOK
    <2> QED BY <2>1, <2>2 DEF ToggleDisabled, Disturb
  <1>8. CASE \E k \in Credentials, n \in Priorities : SetProviderPriority(k, n)
    <2>1. PICK k \in Credentials, n \in Priorities : SetProviderPriority(k, n)
      BY <1>8
    <2>2. credentials'[k].prefix = credentials[k].prefix
          /\ \A j \in Credentials \ {k} : credentials'[j] = credentials[j]
      BY <2>1 DEF SetProviderPriority, TypeOK
    <2> QED BY <2>1, <2>2 DEF SetProviderPriority, Disturb
  <1>9. CASE SaveStack \/ InterruptSave \/ RecoverStore
    BY <1>9 DEF SaveStack, InterruptSave, RecoverStore
  <1> QED BY <1>1, <1>2, <1>3, <1>4, <1>5, <1>6, <1>7, <1>8, <1>9 DEF Next, Steps, Others

LEMMA NoStrayRouteStep ==
    ASSUME TypeOK, InCommand, OneAccount, Issued, OriginalsClean, Verified,
           NoStrayRoute, Next
    PROVE  NoStrayRoute'
  <1>0. landed \subseteq landed'
    BY HistoryGrows
  <1>1. CASE registry' = registry /\ credentials' # credentials
    BY <1>0, <1>1, CredentialStep DEF NoStrayRoute, MayCarry, Registered
  <1>2. CASE credentials' = credentials
    <2>1. CASE registry' = registry
      BY <1>0, <1>2, <2>1 DEF NoStrayRoute, Registered
    <2>2. CASE \E a \in Accounts, st \in States : Updated(a, st)
      BY <1>0, <1>2, <2>2 DEF Updated, NoStrayRoute, Registered
    <2>3. CASE \E a \in Accounts, k \in Credentials : Added(a, k)
      BY <1>0, <1>2, <2>3 DEF Added, NoStrayRoute, Issued, Registered
    <2>4. CASE Delete
      <3>1. Deleted(target)
        BY <2>4, DeleteDeletes
      <3> QED BY <1>0, <1>2, <2>4, <3>1 DEF Delete, Deleted, NoStrayRoute, Verified, Key, Registered
    <2> QED BY <2>1, <2>2, <2>3, <2>4, RegistryStep
  <1> QED BY <1>1, <1>2, CredentialStep

-----------------------------------------------------------------------------
(* The credential of an account is touched by commands on that account,    *)
(* and by others who are on record for it.                                 *)

LEMMA CredentialFrame ==
    ASSUME TypeOK, InCommand, Next, NEW j \in Credentials
    PROVE  /\ \/ credentials'[j] = credentials[j]
              \/ j \in disturbed'
              \/ pc \in {"publish", "restore", "neutral"} /\ j = Key
           /\ \/ j \in disturbed => j \in disturbed'
              \/ pc \in {"verifyPublish", "verifyRestore"} /\ j = Key
  <1>1. CASE \E p \in Procs : Commands(p)
    BY <1>1 DEF Commands, Load, Add, SetPriority, Remove, Enable, Disable, Sync,
                Begin, history
  <1>2. CASE Publish \/ Restore \/ Neutral
    <2>1. Key \in Credentials /\ target \in Accounts /\ registry[target] \in Registrations
          /\ registry[target].original \in Metadata
      BY <1>2, AtTarget DEF Publish, Restore, Neutral, Publishing, Unpublishing
    <2>2. UNCHANGED disturbed /\ pc \in {"publish", "restore", "neutral"}
      BY <1>2 DEF Publish, Restore, Neutral
    <2>3. \/ credentials' = credentials
          \/ \E fields : Written(Key, fields)
      BY <1>2 DEF Publish, Restore, Neutral, Patch
    <2>4. j # Key => credentials'[j] = credentials[j]
      BY <2>1, <2>3 DEF Written, TypeOK
    <2> QED BY <2>2, <2>4
  <1>3. CASE VerifyPublish \/ VerifyRestore
    BY <1>3 DEF VerifyPublish, VerifyRestore
  <1>4. CASE \/ SyncNext \/ Activate \/ Delete \/ Prune \/ Mark \/ Release \/ Crash
    BY <1>4 DEF SyncNext, Activate, Delete, Prune, Mark, Release, Crash,
                Released, history
  <1>5. CASE LandLate
    <2>1. PICK patch \in inflight :
            /\ Written(patch.credential, patch.fields)
            /\ disturbed' = disturbed \cup {patch.credential}
      BY <1>5 DEF LandLate
    <2>2. patch.credential \in Credentials
      BY DEF TypeOK
    <2>3. j # patch.credential => credentials'[j] = credentials[j]
      BY <2>1, <2>2 DEF Written, TypeOK
    <2> QED BY <2>1, <2>3
  <1>6. CASE \E k \in Credentials : Relogin(k)
    BY <1>6 DEF Relogin, Disturb, TypeOK
  <1>7. CASE \E k \in Credentials : ToggleDisabled(k)
    <2>1. PICK k \in Credentials : ToggleDisabled(k)
      BY <1>7
    <2>2. j # k => credentials'[j] = credentials[j]
      BY <2>1 DEF ToggleDisabled, TypeOK
    <2> QED BY <2>1, <2>2 DEF ToggleDisabled, Disturb
  <1>8. CASE \E k \in Credentials, n \in Priorities : SetProviderPriority(k, n)
    BY <1>8 DEF SetProviderPriority, Disturb, TypeOK
  <1>9. CASE SaveStack \/ InterruptSave \/ RecoverStore
    BY <1>9 DEF SaveStack, InterruptSave, RecoverStore, history
  <1> QED BY <1>1, <1>2, <1>3, <1>4, <1>5, <1>6, <1>7, <1>8, <1>9 DEF Next, Steps, Others

\* What a command has verified it uses in its next step.
LEMMA Arrival ==
    ASSUME TypeOK, InCommand, Next, pc' \in {"activate", "delete"}
    PROVE  \/ VerifyPublish /\ pc' = "activate"
           \/ VerifyRestore /\ pc' = "delete"
           \/ pc' = pc /\ UNCHANGED <<target, registry>>
              /\ (Others \/ (credentials' = credentials /\ UNCHANGED history))
  <1>1. CASE \E p \in Procs : Commands(p)
    <2>1. PICK p \in Procs : Commands(p)
      BY <1>1
    <2>2. CASE Load(p)
      BY <2>2 DEF Load, command
    <2>3. CASE ~Load(p)
      BY <2>1, <2>3 DEF Commands, Add, SetPriority, Remove, Enable, Disable, Sync,
                        Begin
    <2> QED BY <2>2, <2>3
  <1>2. CASE Steps
    BY <1>2 DEF Steps, SyncNext, Publish, VerifyPublish, Activate, Restore, Neutral,
                VerifyRestore, Delete, Prune, Mark, Release, Crash, Released,
                Patch, Goto, Advance
  <1>3. CASE Others
    <2>1. UNCHANGED <<pc, target, registry>>
      BY <1>3 DEF Others, SaveStack, InterruptSave, RecoverStore, LandLate, Relogin,
                  ToggleDisabled, SetProviderPriority, Disturb, command
    <2> QED BY <1>3, <2>1
  <1> QED BY <1>1, <1>2, <1>3 DEF Next

LEMMA OthersPrefix ==
    ASSUME TypeOK, Others, NEW j \in Credentials
    PROVE  \/ credentials'[j].prefix = credentials[j].prefix
           \/ credentials'[j].prefix \notin Accounts
           \/ credentials'[j].prefix \in landed'
  <1>1. CASE LandLate
    <2>1. PICK patch \in inflight :
            /\ Written(patch.credential, patch.fields)
            /\ landed' = landed \cup ({patch.fields.prefix} \cap Accounts)
      BY <1>1 DEF LandLate
    <2>2. patch.credential \in Credentials /\ patch.fields \in Metadata
      BY DEF TypeOK
    <2>3. credentials'[patch.credential].prefix = patch.fields.prefix
          /\ \A k \in Credentials \ {patch.credential} : credentials'[k] = credentials[k]
      BY <2>1, <2>2, WrittenEffect
    <2> QED BY <2>1, <2>2, <2>3
  <1>2. CASE \E k \in Credentials : Relogin(k)
    BY <1>2, LifecycleAssumption DEF Relogin, TypeOK
  <1>3. CASE \E k \in Credentials : ToggleDisabled(k)
    <2>1. PICK k \in Credentials : ToggleDisabled(k)
      BY <1>3
    <2> QED BY <2>1 DEF ToggleDisabled, TypeOK
  <1>4. CASE \E k \in Credentials, n \in Priorities : SetProviderPriority(k, n)
    BY <1>4 DEF SetProviderPriority, TypeOK
  <1>5. CASE SaveStack \/ InterruptSave \/ RecoverStore
    BY <1>5 DEF SaveStack, InterruptSave, RecoverStore
  <1> QED BY <1>1, <1>2, <1>3, <1>4, <1>5 DEF Others

LEMMA VerifiedStep ==
    ASSUME TypeOK, InCommand, OriginalsClean, Verified, Next
    PROVE  Verified'
  <1>1. CASE VerifyPublish /\ pc' = "activate"
    BY <1>1 DEF VerifyPublish, Goto, MetadataOf, Verified, Published, Key
  <1>2. CASE VerifyRestore /\ pc' = "delete"
    <2>1. target \in Accounts /\ Registered(target)
      BY <1>2, AtTarget DEF VerifyRestore, InCommand, Unpublishing
    <2>2. MetadataOf(Key) = registry[target].original
          /\ UNCHANGED <<credentials, registry, target, landed>>
      BY <1>2 DEF VerifyRestore, Goto
    <2>3. credentials[Key].prefix = registry[target].original.prefix
      BY <2>2 DEF MetadataOf
    <2> QED BY <1>2, <2>1, <2>2, <2>3 DEF OriginalsClean, MetadataOf, Verified, Key
  <1>3. CASE pc' \in {"activate", "delete"} /\ pc' = pc /\ UNCHANGED <<target, registry>>
             /\ (Others \/ (credentials' = credentials /\ UNCHANGED history))
    <2>1. Key' = Key /\ Key \in Credentials
      BY <1>3, AtTarget DEF Key, Publishing, Unpublishing
    <2>2. credentials'[Key] = credentials[Key] \/ Key \in disturbed'
      BY <1>3, <2>1, CredentialFrame
    <2>3. Key \in disturbed => Key \in disturbed'
      BY <1>3, <2>1, CredentialFrame
    <2>4. landed \subseteq landed'
      BY HistoryGrows
    <2>5. \/ credentials'[Key].prefix = credentials[Key].prefix
          \/ credentials'[Key].prefix \notin Accounts
          \/ credentials'[Key].prefix \in landed'
      BY <1>3, <2>1, OthersPrefix
    <2>6. target \in Accounts
      BY <1>3, AtTarget DEF Publishing, Unpublishing
    <2>7. pc' = "activate" => Key' \in disturbed' \/ Published(Key, target)'
      BY <1>3, <2>1, <2>2, <2>3 DEF Verified, Published
    <2>8. pc' = "delete" => Key' \in disturbed' \/ (MetadataOf(Key) = registry[target].original)'
      BY <1>3, <2>1, <2>2, <2>3 DEF Verified, MetadataOf
    <2>9. pc' = "delete" => (credentials'[Key'].prefix = target' => target' \in landed')
      BY <1>3, <2>1, <2>4, <2>5, <2>6 DEF Verified
    <2> QED BY <2>7, <2>8, <2>9 DEF Verified
  <1>4. CASE pc' \notin {"activate", "delete"}
    BY <1>4 DEF Verified
  <1> QED BY <1>1, <1>2, <1>3, <1>4, Arrival

LEMMA ActiveStep ==
    ASSUME TypeOK, InCommand, OneAccount, Verified, ActiveFields, Next
    PROVE  ActiveFields'
  <1> SUFFICES ASSUME NEW a \in Accounts, Registered(a)', registry'[a].state = "active",
                      registry'[a].credential \notin disturbed'
               PROVE  Published(registry[a].credential, a)'
    BY DEF ActiveFields
  <1>1. CASE Activate /\ a = target
    <2>1. Updated(target, "active") /\ registry'[target].priority = registry[target].priority
      BY <1>1, AtTarget, SetStateUpdates DEF Activate, Publishing, InCommand, States
    <2>2. Published(Key, target) /\ registry'[a].credential = Key
      BY <1>1, <2>1 DEF Activate, Verified, Updated, Key, history
    <2> QED BY <1>1, <2>1, <2>2 DEF Activate, Published
  <1>2. CASE ~(Activate /\ a = target)
    <2>1. registry'[a] = registry[a]
      <3>1. CASE Delete
        BY <3>1, DeleteDeletes DEF Deleted, Registered
      <3> QED BY <1>2, <3>1, RegistryStep DEF Updated, Added
    <2> DEFINE k == registry[a].credential
    <2>2. Registered(a) /\ registry[a].state = "active" /\ k \in Credentials
      BY <2>1 DEF Registered, TypeOK, Registrations
    <2>3. ~(pc \in {"publish", "restore", "neutral", "verifyPublish", "verifyRestore"}
            /\ k = Key)
      BY <2>2 DEF InCommand, OneAccount, Key, Publishing, Unpublishing
    <2>4. k \notin disturbed /\ credentials'[k] = credentials[k]
      <3> HIDE DEF k
      <3>1. k \notin disturbed'
        BY <2>1 DEF k
      <3> QED BY <2>2, <2>3, <3>1, CredentialFrame
    <2>5. Published(k, a)
      BY <2>2, <2>4 DEF ActiveFields
    <2> QED BY <2>1, <2>4, <2>5 DEF Published
  <1> QED BY <1>1, <1>2

-----------------------------------------------------------------------------
(* The invariant and the theorems.                                         *)

LEMMA InitInv == Init => Inv
  <1> SUFFICES ASSUME Init PROVE Inv
    OBVIOUS
  <1>1. PICK found \in Found :
          credentials = [k \in Credentials |->
              [prefix |-> found[k].prefix, priority |-> found[k].priority,
               disabled |-> FALSE]]
    BY DEF Init
  <1>2. \A k \in Credentials : /\ found[k].prefix \in UserPrefixes \cup {Unset}
                               /\ found[k].priority \in Priorities \cup {Unset}
    <2>1. found \in [Credentials -> [prefix : UserPrefixes \cup {Unset},
                                     priority : Priorities \cup {Unset}]]
      BY LifecycleAssumption
    <2> QED BY <2>1
  <1>3. credentials \in [Credentials ->
          [prefix : Accounts \cup UserPrefixes \cup {Unset},
           priority : Priorities \cup {Unset}, disabled : BOOLEAN]]
    BY <1>1, <1>2
  <1>4. store \in Stores
    BY DEF Init, Stores
  <1>5. TypeOK
    BY <1>3, <1>4 DEF Init, TypeOK, Locations
  <1>6. \A k \in Credentials : credentials[k].prefix \notin Accounts
    BY <1>1, <1>2, LifecycleAssumption
  <1>7. InCommand /\ Verified
    BY DEF Init, InCommand, Verified, Publishing, Unpublishing
  <1>8. \A a \in Accounts : ~Registered(a)
    BY DEF Init, Registered
  <1> QED BY <1>5, <1>6, <1>7, <1>8 DEF Inv, OneAccount, Issued, OriginalsClean,
              ActiveFields, NoStrayRoute

LEMMA NextInv == Inv /\ [Next]_vars => Inv'
  <1> SUFFICES ASSUME Inv, [Next]_vars PROVE Inv'
    OBVIOUS
  <1>1. CASE Next
    <2>1. TypeOK' /\ InCommand'
      BY <1>1, CommandsType, StepsType, OthersType, InCommandCommands, InCommandSteps,
         InCommandOthers DEF Next, Inv
    <2>2. OneAccount' /\ Issued' /\ OriginalsClean'
      BY <1>1, OneAccountStep, IssuedStep, OriginalsCleanStep DEF Inv
    <2>3. Verified' /\ ActiveFields' /\ NoStrayRoute'
      BY <1>1, VerifiedStep, ActiveStep, NoStrayRouteStep DEF Inv
    <2> QED BY <2>1, <2>2, <2>3 DEF Inv
  <1>2. CASE UNCHANGED vars
    BY <1>2 DEF vars, command, history, Inv, TypeOK, InCommand, OneAccount, Issued,
                OriginalsClean, Verified, ActiveFields, NoStrayRoute, Registered,
                Published, MetadataOf, Key
  <1> QED BY <1>1, <1>2

LEMMA InvHolds == Spec => []Inv
  BY InitInv, NextInv, PTL DEF Spec

\* Every step keeps the types of registry, credentials, stores and commands.
THEOREM TypeCorrect == Spec => []TypeOK
  BY InvHolds, PTL DEF Inv

\* The routing prefix of an account is on its own credential only, and gone
\* with the account, whatever was interrupted; late patches are on record.
THEOREM NoRouteStrays == Spec => []NoStrayRoute
  BY InvHolds, PTL DEF Inv

LEMMA PublishedRecord ==
    ASSUME NEW r \in [prefix : Accounts \cup UserPrefixes \cup {Unset},
                      priority : Priorities \cup {Unset}, disabled : BOOLEAN],
           NEW a, NEW n, r.prefix = a, r.priority = n, ~r.disabled
    PROVE  r = [prefix |-> a, priority |-> n, disabled |-> FALSE]
  <1>1. r.disabled = FALSE
    OBVIOUS
  <1> QED BY <1>1

\* The credential of an active account is as the account publishes it, unless
\* somebody else has changed it since.
THEOREM ActiveArePublished == Spec => []ActiveIsPublished
  <1>1. Inv => ActiveIsPublished
    <2> SUFFICES ASSUME Inv, NEW a \in Accounts, Registered(a),
                        registry[a].state = "active",
                        registry[a].credential \notin disturbed
                 PROVE  credentials[registry[a].credential] =
                           [prefix |-> a, priority |-> registry[a].priority,
                            disabled |-> FALSE]
      BY DEF ActiveIsPublished
    <2>1. registry[a].credential \in Credentials
      BY DEF Inv, TypeOK, Registered, Registrations
    <2>2. credentials[registry[a].credential] \in
             [prefix : Accounts \cup UserPrefixes \cup {Unset},
              priority : Priorities \cup {Unset}, disabled : BOOLEAN]
      BY <2>1 DEF Inv, TypeOK
    <2>3. Published(registry[a].credential, a)
      BY DEF Inv, ActiveFields
    <2> QED BY <2>2, <2>3, PublishedRecord DEF Published
  <1> QED BY <1>1, InvHolds, PTL

\* No account leaves the registry before its credential has got back what it
\* had, unless somebody else has changed it.
THEOREM RemovalsRestore == Spec => RemovalRestores
  <1>1. Inv /\ [Next]_vars =>
          [\A a \in Accounts :
              Registered(a) /\ registry'[a] = Unregistered =>
                  LET k == registry[a].credential IN
                      k \notin disturbed => MetadataOf(k) = registry[a].original]_vars
    <2> SUFFICES ASSUME Inv, Next, NEW a \in Accounts, Registered(a),
                        registry'[a] = Unregistered,
                        registry[a].credential \notin disturbed
                 PROVE  MetadataOf(registry[a].credential) = registry[a].original
      BY DEF Registered
    <2>1. Delete
      BY RegistryStep DEF Inv, Updated, Added, Registered
    <2>2. a = target
      BY <2>1, DeleteDeletes DEF Deleted, Inv, Registered
    <2> QED BY <2>1, <2>2 DEF Delete, Inv, Verified, Key
  <1> QED BY <1>1, InvHolds, PTL DEF Spec, RemovalRestores

-----------------------------------------------------------------------------
(* Bindings.                                                               *)

LEMMA UnboundStep ==
    ASSUME TypeOK, InCommand, Unbound, Next
    PROVE  Unbound'
  <1>1. CASE \E p \in Procs : Commands(p)
    BY <1>1 DEF Commands, Load, Add, SetPriority, Remove, Enable, Disable, Sync,
                Begin, command, Unbound
  <1>2. CASE Prune
    <2>1. (store'.bindings = Kept /\ target' = target) \/ pc' = "release"
      BY <1>2 DEF Prune, Goto, TypeOK, Stores
    <2>2. pc' = "mark" => \A c \in Candidates : Kept[c] # target
      BY <1>2 DEF Prune, Goto
    <2> QED BY <2>1, <2>2 DEF Unbound
  <1>3. CASE \/ SyncNext \/ Publish \/ VerifyPublish \/ Activate \/ Restore \/ Neutral
             \/ VerifyRestore \/ Delete \/ Mark \/ Release \/ Crash
    BY <1>3 DEF SyncNext, Publish, VerifyPublish, Activate, Restore, Neutral,
                VerifyRestore, Delete, Mark, Release, Crash, Released, Patch,
                Goto, Advance, Unbound
  <1>4. CASE Others
    BY <1>4 DEF Others, SaveStack, InterruptSave, RecoverStore, LandLate, Relogin,
                ToggleDisabled, SetProviderPriority, Disturb, command, Unbound,
                InCommand
  <1> QED BY <1>1, <1>2, <1>3, <1>4 DEF Next, Steps

LEMMA UnboundHolds == Spec => []Unbound
  <1>1. Init => Unbound
    BY DEF Init, Unbound
  <1>2. Inv /\ Unbound /\ [Next]_vars => Unbound'
    <2> SUFFICES ASSUME Inv, Unbound, [Next]_vars PROVE Unbound'
      OBVIOUS
    <2>1. CASE Next
      BY <2>1, UnboundStep DEF Inv
    <2>2. CASE UNCHANGED vars
      BY <2>2 DEF vars, command, Unbound
    <2> QED BY <2>1, <2>2
  <1> QED BY <1>1, <1>2, InvHolds, PTL DEF Spec

LEMMA StoreStep ==
    ASSUME Next
    PROVE  \/ UNCHANGED <<store, journal>>
           \/ Prune \/ SaveStack \/ InterruptSave \/ RecoverStore
  <1>1. CASE \E p \in Procs : Commands(p)
    BY <1>1 DEF Commands, Load, Add, SetPriority, Remove, Enable, Disable, Sync,
                Begin
  <1>2. CASE Steps /\ ~Prune
    BY <1>2 DEF Steps, SyncNext, Publish, VerifyPublish, Activate, Restore, Neutral,
                VerifyRestore, Delete, Mark, Release, Crash, Released
  <1>3. CASE LandLate \/ (\E k \in Credentials : Relogin(k) \/ ToggleDisabled(k))
             \/ (\E k \in Credentials, n \in Priorities : SetProviderPriority(k, n))
    BY <1>3 DEF LandLate, Relogin, ToggleDisabled, SetProviderPriority, Disturb
  <1> QED BY <1>1, <1>2, <1>3 DEF Next, Steps, Others

\* No step but the recovery of an interrupted save takes the account away
\* from a binding.
THEOREM BindingsAreKept == Spec => BindingsKept
  <1>1. ASSUME Inv, Unbound, Next, journal = NoJournal, BindingsUsable
        PROVE  BindingsUsable'
    <2>0. TypeOK /\ InCommand /\ LogicalStore = store
      BY <1>1 DEF Inv, LogicalStore
    <2>1. \A c \in Candidates : store.bindings[c] # Unset =>
             /\ store.bindings[c] \in Accounts
             /\ Registered(store.bindings[c])
             /\ registry[store.bindings[c]].state # "pending-remove"
      BY <1>1, <2>0 DEF BindingsUsable, TypeOK, Stores
    <2>2. CASE UNCHANGED <<store, journal>>
      <3>1. LogicalStore' = store
        BY <1>1, <2>2 DEF LogicalStore
      <3>2. CASE registry' = registry
        BY <2>1, <3>1, <3>2 DEF BindingsUsable, Registered
      <3>3. CASE \E a \in Accounts, st \in States :
                    /\ Updated(a, st)
                    /\ st = "pending-remove" => Mark /\ a = target
        <4>1. PICK a \in Accounts, st \in States :
                    /\ Updated(a, st)
                    /\ st = "pending-remove" => Mark /\ a = target
          BY <3>3
        <4>2. st = "pending-remove" => \A c \in Candidates : store.bindings[c] # a
          BY <1>1, <4>1 DEF Mark, Unbound
        <4> QED BY <2>1, <3>1, <4>1, <4>2 DEF BindingsUsable, Updated, Registered
      <3>4. CASE \E a \in Accounts, k \in Credentials : Added(a, k)
        BY <2>1, <3>1, <3>4 DEF BindingsUsable, Added, Registered
      <3>5. CASE Delete
        <4>1. Deleted(target) /\ registry[target].state = "pending-remove"
          BY <2>0, <3>5, DeleteDeletes DEF Delete, InCommand, Unpublishing
        <4> QED BY <2>1, <3>1, <4>1 DEF BindingsUsable, Deleted, Registered
      <3> QED BY <1>1, <2>0, <3>2, <3>3, <3>4, <3>5, RegistryStep
    <2>3. CASE Prune
      <3>1. \A c \in Candidates : store'.bindings[c] \in {store.bindings[c], Unset}
        BY <2>0, <2>3 DEF Prune, Kept, TypeOK, Stores
      <3>2. LogicalStore' = store' /\ registry' = registry
        BY <1>1, <2>3 DEF Prune, LogicalStore
      <3> QED BY <2>1, <3>1, <3>2 DEF BindingsUsable, Registered
    <2>4. CASE SaveStack
      BY <2>4 DEF SaveStack, Valid, LogicalStore, BindingsUsable, Registered
    <2>5. CASE InterruptSave
      <3>1. journal' = store /\ registry' = registry /\ store # NoJournal
        BY <2>0, <2>5, LifecycleAssumption DEF InterruptSave, TypeOK, Stores
      <3>2. LogicalStore' = store
        BY <3>1 DEF LogicalStore
      <3> QED BY <2>1, <3>1, <3>2 DEF BindingsUsable, Registered
    <2>6. CASE RecoverStore
      BY <1>1, <2>6 DEF RecoverStore
    <2> QED BY <1>1, <2>2, <2>3, <2>4, <2>5, <2>6, StoreStep
  <1>2. Inv /\ Unbound /\ [Next]_vars =>
          [journal = NoJournal /\ BindingsUsable => BindingsUsable']_vars
    BY <1>1
  <1> QED BY <1>2, InvHolds, UnboundHolds, PTL DEF Spec, BindingsKept
=============================================================================
