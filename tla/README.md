# Orichum, verified

TLA+ models of the parts of Orichum whose correctness depends on the order of
events: documents that are written together and survive crashes, threads that
share a cache, and requests that fall back from one account to another. TLC
checks each model on small instances; TLAPS proves the most important
properties for every value of the constants.

`PROJECT.json` lists the components, the runs, the properties with a faulty
variant that each of them catches, the source lines every definition stands
for, the hazards and the theorems.

## The system

Orichum is a harness around Claude Code: a command line (`bin/`,
`integrations/common/orichum_cli.py`), an installer (`install.sh`,
`lib/workflow.sh`), a local route proxy and the documents they share in the
user's configuration and data directories. There is no database and no daemon
that owns the documents. Any number of `orichum` processes read and write them,
coordinated by `flock`, by comparison with what was read before, and by
journals that the next process finds when one has died.

| Component | State | Operations | Hard behaviour | What makes it correct |
|---|---|---|---|---|
| Stack store (`stack_store.py`, `stack_bindings.py`) | `model-stacks.json`, `stack-bindings.json`, two recovery copies, a marker | load, save over a snapshot, installer rollback, recovery | crash or power loss at each step; stale snapshots; failing rollback | the two files are one register; recovery always possible; reports are true |
| Route proxy (`route_proxy.py`, `route_status.py`) | slots, cooldowns, status entries; per request: route, output state | accept, route, ask, fall back, deliver, report | threads in any order; failure before and after output; eviction | one fallback, no replay, justified cooldowns, true status |
| Attestation gate (`route_proxy.py`) | cached service identity, expiry, generation, the refreshing flag | verify, invalidate | verification outside the lock; invalidation by any exception of any thread meanwhile; lost wakeups | one verifier, current cache, no needless repetition, nobody sleeps for ever |
| Accounts (`account_registry.py`, `provider_credentials.py`, `cliproxy_management.py`, `_mutate_account`) | `accounts.json`, credential metadata kept by CLIProxyAPI, bindings | add, enable, disable, priority, remove, sync, relogin | patches that time out and arrive late; crashes between patches; stale usage | an active account is published; a removed one leaves nothing behind |
| Logical sessions (`orichum_sessions.py`) | session directories, leases, controller binding | create, update controller, remove, clear, clean up | check-then-delete; partial deletion; reused process ids | no active session is deleted; a binding names one controller |
| Project contexts (`project_context.py`, commands in `stack_wizard.py`, `orichum_cli.py`) | `projects.json` with a journal (copy, marker) | add, update, remove, normal scope, assign a stack, save the stacks, apply a draft, recover | crash between journal steps; a save of stacks computed long before the lock; two documents, two recoveries | a document is the old or the new one; projects do not overlap; contexts name stacks that exist |
| Stack wizard (`stack_wizard.py`, `stack_catalog.py`, `stack_definition.py`) | a draft, a proposal, the catalogue of live models | choose, configure, review, go back, pick anew, save, delete | no lock while the user decides: routes, accounts and stacks change | what is saved is live, is what was reviewed, and touches nothing else |
| Home layout (`home_layout.py`) | XDG directories, links in their place, `ORICHUM_HOME`, a journal | prepare, roll back, commit, recover | kills between moves of nested directories; old programs that make a directory anew | nothing is buried; refusals have a cause; no half migration without a journal |
| Runtime bundle (`runtime_bundle.py`) | releases, `runtime/current` | inspect, activate, roll back, prune | kill in the middle of a removal; rollback of a switch | the current link leads to a whole release |
| Control-plane installation (`install_control_plane.py`) | the configuration documents, a journal with their snapshots and what the activation wrote | stage, activate, roll back or recover, finalize | kill between documents; users' changes at any time; conflicts | all or nothing; users' changes are kept |
| Installer (`install.sh`, `install_state.py`) | the record of the last verified installation; where the transaction is | the order of the three above, traps, the way back | a failure in a rollback; a second installer after a kill | documents and release are of one version |
| Route selection (`route_selection.py`, plans in `orichum_sessions.py`) | none: a function of what was read | eligible routes, choice, chain, plan | boundary cases of pools, priorities, locks and random numbers | the best accounts, and locks respected |
| Session configuration (`session_config.py`, `orichum_cli.py`) | the directories of physical runs; what a command has read | read, plan, validate, prepare, verify, save, launch, clean up | four files read without a lock while they change; kills | a saved session is the one its run was prepared for; a resume keeps its controller |
| Workflow lock and services (`lib/workflow.sh`) | lock directory, guards, generations of model configuration | acquire, quarantine, release, publish | stale owners; signals inside traps | one holder; complete generations only |

How they interact. A session freezes the routes that route selection derives
from the stacks, the bindings, the accounts and the credentials; the proxy reads
that frozen policy for each request and never the documents behind it. Account
removal reads and prunes the bindings under the locks the stack store uses. The
configuration commands save stacks and then contexts, under one flock. The
installer migrates the home, then switches the release, then activates all
documents, and undoes these in the opposite order; it rolls the stack store back
through `restore_stack_files`. A command that starts a session prepares a
physical run in a directory of its own before it saves the session. The proxy passes the attestation gate before each upstream
connection.

## Modules

### Stack store

`StackPairs` holds the values: what the two documents may contain, which
contents fit together (`Compatible`, standing for `validate_stack_bindings`
against an account registry that does not change), and the calls.

`AbstractStackStore` is what callers rely on: one register, written by
compare-and-swap, with the set of values a power loss may bring back.

`StackStore` is the code. The parent directory is a record of five entries;
every action that changes it is one `os.replace` or one `unlink`, because files
are written and fsynced under temporary names first. `survivors` is the set of
directories a power loss may leave: each change adds one, an fsync of the
directory leaves only the present one. `OrderedMetadata` says whether the file
system persists directory changes in order; the code syncs as if it did not, in
all but one place. Both flocks are taken in one order, so a single `owner`
stands for them, with its program counter and locals.

`MCStackStore` has two processes, two stack documents and one set of bindings
that fits only the first document: a torn pair exists and is one step away in
every save. Two documents are enough for every comparison the code makes (equal
to the expected one or not); a third process would only repeat what one does
while the other holds or lacks the locks. Symmetric in the processes.

### Attestation gate

`AttestationGate` has one action per block under the condition's lock. The
verifier runs between two of them. A thread whose exception is on its way to the
handler of `_upstream` is `"failing"`: after a refused connection, for which
`verify` was never called (`Refused`); after a failed verification, which resets
the gate itself before it raises (`VerifierFails`); after it waited for one in
vain (`Decide`); and after a connection that broke in use (`Breaks`). The handler
then invalidates the gate in a block of its own (`Invalidate`), whatever other
threads have verified, or are verifying, by then. `epoch`, `startedIn` and
`cachedIn` are history variables that number these invalidations.

Three threads: one verifies, one waits, one invalidates. `MaxRequests` bounds the
connections that are asked for; four allow a second verification after an
invalidation by a thread of the first, and a third thread beside them.

A refusal may outdate a verification that is under way, and the code sets no
limit to how often: while connections are refused, a thread may verify again and
again (route_proxy.py:325-328, 520). `CallsEnd` is therefore about the time when
no more connections are asked for. That nothing but an invalidation makes a thread
repeat a verification is `RepeatsHaveCause`, which is proved.

### Route proxy

`RouteProxy` has one action per use of a shared object, and per answer of the
upstream or the client. Requests, models and responses carry only what the
handler branches on. `sent`, `primaryFailed` and `latest` are history variables.
An upstream call stands for everything `_upstream` does: the connection, its
attestation, the retry of an untransformed body. `MCRouteProxy` has three
requests for two slots (a refusal and a release of a slot happen), two sessions
for one status entry (eviction happens), a route with a fallback, one without, a
request outside any session and the catalogue request.

### Account lifecycle

`AccountLifecycle` has the account commands of the command line over three
stores that no transaction spans. `registry` is `accounts.json`, which every
change replaces as a whole. `credentials` is the prefix, the priority and the
disabled flag that CLIProxyAPI keeps for each credential. `store` and `journal`
are the stack store, as the register it implements, with an interrupted save
spelt out, because `account remove` reads the two files without recovering them.
A command takes three flocks in one order; one `owner` stands for them, and each
process has in `known` the stacks it read before it took them. One action per
PATCH, per verification that reads the credential back, and per replacement of
the registry. A PATCH may be refused, lost, applied without an answer, or applied
after the command has given up (`inflight`). The history variables `disturbed`
and `landed` record whose metadata somebody else may have changed, and whose
prefix a late PATCH has set; no code reads them.

`MCAccountLifecycle` has two accounts and two credentials, so that accounts
coexist, and one credential can serve one account after the other; the first one
has a prefix and a priority of the user's own to restore, the second has none
(the second patch, with null, happens). One process: commands exclude each other,
a command that begins with what an earlier process read differs from it only by
`known`, and what others save meanwhile is `SaveStack`. One disturbance per
behaviour; two were checked once (7,310,600 states) and found nothing more.

### Logical sessions

`LogicalSessions` has the commands that make, launch and delete sessions, one
action per system call that others can see: `mkdir`, the write and the rename of
a creation; lock, temporary file and replacement of a controller update; the two
writes of a reservation; rename, unlink and rmdir of a deletion, with the handlers
of their failures. `place` is where a session's directory is, `binding` its one
file, `leases` the files that removals take for the list of active sessions.
A process that has launched is `"running"`; its process id may later run another
command, and the lease it has left then looks held. Listing the sessions and
scanning the leases are one action each: each reads many small files, and the
scan fails on one that is being written. Replacing a stale lease (unlink, create)
is one action under the port lock. `condemned` is a history variable: the sessions
that some removal has found without a lease, or that a failed creation cleans up.
`RunningResumable` says nothing of them, because the code does not either: a
session launched between a removal's scan and its deletion loses its binding
while it runs, although docs/sessions.md:111 says that clear preserves active
sessions.

`MCLogicalSessions` has two processes, a session that may be a fork of another
one, two controllers (a resume that changes it, or finds it changed) and a port
for each process. One failing call and one kill per behaviour. Ids are drawn at
random and never drawn twice, so behaviours end. Three processes, without
failures and with one controller, were checked once (3,337,944 states) and found
nothing more.

### Project contexts

`ProjectContexts` has the commands that change `projects.json`, and those that
change the stacks that it names. A document is a function from scopes (project
roots, and the normal scope) to stacks; whether one root lies inside another is
the relation `Overlapping`. The journal is a record of three directory entries,
as in the stack store, with `survivors` for what a power loss may leave; each
step of `_write_context_document`, of its rollback and of its recovery is an
action or a line of a table (`Change`, `Then`, `ThenSynced`). The stack store is
the register it implements, with an interrupted save in `stacksOld`. The commands
that save stacks load them long before they take the flock. What they do then
differs: the wizard validates what it saves against the contexts of that moment
(`LockSave`), `_apply_configuration_draft` does not (`LockDraft`), it only compares
the stacks with those it has loaded, adds its own to them, and assigns that one. A
draft that is of no use, or is declined, saves nothing (`GiveUp`). `agreed`
is a history variable: the documents that a reader may find.

`MCProjectContexts` has two processes, two roots of which one contains the other
(an overlap is one step away in every add), the normal scope, two stacks (one
can be deleted while the other stays), one failing call, and one kill or power
loss. Commands can always begin again, so deadlock is checked. `context jira` is
an update that keeps the stack.

### Stack wizard

`StackWizard` has the dialogue of `stack configure`, one action per decision of
the user that matters to what is saved: which stack is created, cloned, edited or
deleted; which live models, with which account, the controller and each role get;
whether to go back, confirm, or cancel. A review turns the draft into a proposal,
the whole of both documents (`Materialize`), or fails (`Invalid`). The catalogue is
looked up when the wizard opens, when the user confirms and, under the locks, at
the save; a candidate that is not live any more is picked anew (`Repick`) with the
rest of the draft kept. The save then compares the documents with those that were
loaded at the start, validates the bindings and, if asked to, assigns the stack to
the project at hand. `shown` is a history variable: the last review.

What is live is a set of pairs of an upstream model and an account. Others publish
and withdraw them, enable and disable accounts, save bindings and assign the
project. They do so only where the wizard is about to look (`"review"`,
`"agreed"`): it does not notice before, so this loses no behaviour. One wizard: a
second one would only be another who saves, and a save, with its crashes, is one
step here because it is one step of the register that `StackStore` implements.

`MCStackWizard` has the controller and one role, two accounts of one provider, two
live models, and three installed configurations: a stack alone, one beside a model
of another family that is named like an upstream, and one beside another stack.
`MaxPicks` = 2 candidates may be configured, added or picked anew, `MaxChanges` =
2 things may change: one between the review and the save, and one more while a
model is picked anew. A wizard ends, so deadlock is not checked.

`SavedAsReviewed` excepts a lock to an account that was disabled when the wizard
opened: it is shown as automatic (stack_wizard.py:593), and saved as a lock if the
account is enabled again by the time of the save. A deletion is saved without a
review; of it, `OthersUntouched` speaks.

### Installation

Three modules for components, one that composes them in the order of
`install.sh`:

- `HomeLayout`: each directory is at its old place, in the home, or nowhere;
  `linked` and `stray` say what is at its old path meanwhile. `"buried"` stands
  for a directory that went along with the home when that was moved back, which
  is what the order of the undo avoids. Programs of the old version
  (`OldProgram`) make a directory they do not find.
- `RuntimeBundle`: releases are whole, partial or absent; removal is two steps.
- `ControlPlaneActivation`: four documents, one for each way in which a document
  is written: the policy (replaced by each release), `projects.json`
  (normalized), `accounts.json` (created only when it is missing, under a lock
  that other commands do not share), the stacks (created, then saved). The
  journal's manifest names, before any write, what the activation will write
  (`mine`); a rollback puts a document back only when it says exactly that.
  `entitled` and `edited` are history variables: what the documents are to say
  when the activation does not go through, and which ones users have changed.
- `Installation`: one action per call of `install.sh` and one per exit. `Work` is a
  step of whichever component has been called, `CallFails` a system call of it
  that fails, `Killed` a kill that runs no handler. `verified` is
  `install-state.json`: none, that of a verified installation, or one that no
  reader accepts (`Damaged`: a record of another schema, or one half restored).
  Its write may fail before or after it has happened (`RecordFails`); from then on
  (`recording`) the trap restores the record by a removal and a copy, which may
  stop in between (`HalfRestored`), or removes it when something else could not be
  undone (`RecordAfter`). `sound` and `late` are history variables.

`MCInstallation` has two releases, the directories `data` (which becomes the home)
and `config` (which goes into it, so that the order of moves matters), two
installers one after the other (the second one recovers what the first has left),
one failure, one kill, one edit and one directory made anew. A recovery that is
killed and recovered by a third installer is beyond these bounds; the theorems
have no bounds.

### Session routing and launch

`SessionRouting` has the pure part: the accounts that can serve a candidate, the
choice among them, the fallback, the plan of a session, and what the index of the
route proxy makes of a plan. `SessionLaunch` has the commands: the files a
command reads, one action each, in the order in which new, resume and fork read
them; the plan; the check of the credentials; the steps that prepare a run; the
save; the launch. `BestRoutes` compares the choice with a definition of the best
accounts that uses no order (`Best`), and demands that the random number reaches
each of them.

`MCSessionLaunch` has three accounts in two pools, two of them of one pool and of
equal priority (there is a choice), a model that both providers serve and one
that only one of them serves, a controller with two candidates and one agent; the
second version of the stacks has another controller, locked to an account. Two commands, and one
change, failure or kill: each property is about what one command has read at two
moments, and one change between them is what sets these apart.

## Runs

| Run | Shows |
|---|---|
| `stack_store` | recovery always possible, no torn pair, truthful saves, refinement of the register, with kills and power losses at every step (274,627 states) |
| `stack_store_faults` | up to three I/O errors or interrupts: a save that reports failure has been undone, one failure never wedges the store (434,918 states). The second one strikes the handling of the first; the third shows where the promise ends (see below) |
| `attestation_gate` | safety of the gate, whoever invalidates it, and termination once nobody asks any more (251,848 states) |
| `route_proxy` | slots, fallback, no replay and status of the proxy; a status entry shows an older request only after a retry (1,688,602 states) |
| `account_lifecycle` | the four properties of the account commands, killed between any two steps (907,162 states) |
| `logical_sessions` | the four properties of sessions, with a failing call and a kill at every step (1,798,836 states) |
| `logical_sessions_twice` | violation: two removals of one session leave an empty directory that no listing gets past |
| `project_contexts` | writes of `projects.json` are atomic, projects stay disjoint, contexts keep naming stacks that exist, with two commands side by side, the wizard, the configuration draft or a context command (1,120,325 states) |
| `stack_wizard` | what the wizard saves was reviewed and is live, and nothing else changes, whatever others do while the user decides (610,735 states) |
| `installation` | eight properties of the home, the releases, the documents and their composition, under kills, failures and edits (1,356,525 states) |
| `installation_edits` | violation: a context added between the staging and the activation of `projects.json` is lost |
| `session_launch` | locks, calm sessions and prepared runs, while what the commands read changes (532,995 states) |

Type invariants are proved, as theorems of their own (`TypeCorrect`) or, for the
contexts, the launch and the components of the installation, as parts of their
inductive invariants.

Deadlock is checked in the stack store, the account lifecycle and the project
contexts. The proxy serves each connection once, the gate answers `MaxRequests`
requests, a wizard ends, session ids run out, and so do installers (`MaxInstalls`) and commands
that start sessions (`MaxLaunches`): these models stop.

Fairness is assumed only in `AttestationGate`, and only of a thread that can run,
which includes the handler that invalidates, and of the verifier, a child process
that is killed after three seconds. Nothing is assumed of callers, of the upstream
or of expiry. The commands and the
installer promise nothing about when they end: each waits for a flock whose
holder may be waiting for a user.

## Proofs

All theorems hold for every set of processes, documents, threads, requests,
sessions and for every bound.

*Stack store* (`StackStoreProofs`). `NoWedge` and
`NoTornPair` speak of the directories a power loss may leave, so neither is
inductive. The invariant says, for each program location, what the directory
looks like, and that the survivors are a suffix of the history of the directory
since the last sync: at each location the survivors are among the few
directories the steps since that sync produced. It is proved under
`OrderedMetadata` and for `Spec`; without that assumption it does not hold
(the installer's rollback writes copies and marker in one sync epoch; setting
`OrderedMetadata` to FALSE in `StackStore.cfg` shows the trace), nor with errors and
kills together (`SPECIFICATION CrashFaultSpec` in `StackStore.cfg` shows that one).
`StoreImplementsRegister` uses the same invariant: the committed marker and the
pending marker are the two points where the register changes. `SavesAreTruthful`
adds what a save knows between its committed marker and its reply: every
directory that a power loss may leave shows the new pair (`Durable` in `SaveInv`).

Under failing calls (`FaultSpec`: no crashes, any number of failures, and no
assumption on the order of directory changes) that invariant is lost: a failed
clean-up forgets a marker, a failed rollback restores without one. The one that
is proved instead (`FaultIInv`) speaks of the present directory only: what a save
is about to report and the documents that bear it out (`Undo`), the journal with
what two failures may have made of its marker (`FaultJournal`), and a safe
directory as long as one call has failed (`OneFailure`). The run and the proof
agree on where the promise of `FailedSaveIsUndone` ends: if the sync behind the
committed marker fails, then the rollback's own marker, and then the rollback
itself, the error is reported and the new pair stays.

*Attestation gate* (`AttestationGateProofs`). The invariant ties `generation` to
the thread that verifies: if it still equals `refreshGeneration`, no invalidation
has happened since the verification began, and if it does not, one has. The first
half gives `CacheCurrent`, for threads that invalidate without ever having been
connected as for all others; the second gives `RepeatsAreCaused`, because while one
thread verifies no other verification ends.

*Route proxy* (`RouteProxyProofs`). The slot count uses finite cardinalities.
The others rest on one invariant about a request's location, what it has sent,
whether its response has started, whether the primary failed it and what its
entry says. `OlderOnlyByRetry` distinguishes the steps that select (and show their own
request) from those that note progress (and touch no other request's entry).
`TypeCorrect` needs that the order of the status store names each session once
(`StoreInv`): only then does an eviction remove the one entry it takes from the
order, and the store stays within its bound. The order is kept by cutting a
sequence, not by `SelectSeq`, about which the provers have no usable facts.

*Account lifecycle* (`AccountLifecycleProofs`). No property is inductive: a
verification and the registry change that relies on it are separate steps, with
patches of dead commands and sign-ins in between. The invariant adds that a
credential has one registered account, that the location of a command fixes the
state of its target (`InCommand`), that what the last verification found still
holds unless the credential is on record as changed (`Verified`), and that an
account's originals carry no other account's prefix (`OriginalsClean`).
`BindingsAreKept` says that the recovery of an interrupted save is the only step
that can make a binding unusable; that this step does is said below.

*Logical sessions* (`LogicalSessionsProofs`). `LeasesHeld` needs the port lock and
the incomplete lease that goes before the lease (`Leased`). `UpdatesSerialized`
needs that a binding under its lock is changed by deletions only, so that a
session being created is nobody else's (`Fresh`, from ids that are drawn once).
`RunningResumable` needs that whatever is in a removal's queue or being deleted is
in `condemned` (`Recorded`), which is where the lease scan enters, and that a
session is complete from the moment its command reserves a port (`Complete`).
`Retained` is defined by closed sets instead of the code's loop so that the
provers can use it. `ParentsGoLast` needs that what is listed and gone stays gone
(`Listed`), that the queue of a removal is closed downwards but for what is gone
(`BottomUp`), and that the deepest session of it has no child in it. The depth is a recursive function
over `parent`, and induction over it is out of the provers' reach; that it has
exactly one value for each session is instead part of the invariant
(`Ancestry`): a parent is drawn before its child, so the depths of all others
stay what they are when a session is drawn.

*Project contexts* (`ProjectContextsProofs`). One process at a time is inside the
flock (`Owned`), and where it is fixes what the directory looks like: before the
marker the document is what it was; from then on the copy is the document before
the write, and it is agreed upon (`Prepares`, `Writes`). Every directory that a
power loss may leave can be recovered (`Survive`). `ReferencesAreKept` needs in
addition that a candidate names only stacks that are saved (`Tasked`). For the
wizard the re-validation under the lock is essential (`LockSaveKeeps`). The draft
needs none: it deletes no stack, and the comparison inside the save makes sure
that what it has loaded is what there is (`LockDraftKeeps`).

*Installation* (`InstallationProofs`). For each component a frame lemma says that
a step of the installation is a step of the component or leaves it alone
(`RuntimeFrame`, `HomeFrame`, `ConfigFrame`), so the component's invariant is
kept whatever the others do. The home: the data directory moves first and moves
back last, so that nothing is in the home when it moves (`HomeInv`); a journal
names all that is not where it was, every directory is linked before the next one
moves, and a commit that has begun finds everything in the home (`WholeInv`), from
which it follows that only a directory that was made anew can stop an installer
(`RefusalsAreJustified`). The documents: users
write only `Edit`, and no document the activation has named as its own is an
edit unless it was one before, so that a rollback, which puts back what is named,
never touches an edit (`EditsAlwaysKept`); and a document goes back exactly when
it says what it is not entitled to, unless a conflict is recorded
(`AllOrNothingAlways`). A conflict is recorded only where a document says neither
what was there before nor what the activation named (`Blamed`). The composition:
`VersionsAlwaysAgree` needs where each component is at every stage of the shell,
that the policy staged and recorded is that of the release to be activated, and
that the release and the policy to which a rollback leads agree (`ShellInv`).

*Session routing and launch* (`SessionLaunchProofs`). Plans choose the n-th
element of an order. That there is one needs no induction over the set: `Precedes`
is a strict order that is total on routes of different accounts, so the number of
a route's predecessors maps the routes one-to-one into `0..n-1`, and onto it,
because the two sets are finite and of one size (`NthIsTheNth`). On top of that are lemmas about the operators of
`SessionRouting`: what `ChooseRoute`, `Alternate`, `BindCandidate` and
`ResolvePlan` return, and that what they return respects the locks (`Kept`). The
invariant of the commands says what each has read and whether it is still so
(`HasRead`, `UpToDate`), what its plan was made from (`HasResolved`, `HasPlan`) and how
far its run has come (`HasRun`). A session for which nothing has changed has a
binding that a new plan would come to as well (`Settled`), from which
`CalmSessionsAreKept` follows. The proof showed that the property as first stated was false:
`update_session_controller` compares the session, not the stacks, so a resume
that began before a change may bring back, after another resume has followed the
change, what it had read. The property now names that exception, which takes three
commands; the run has two. The assumptions about constants are those of
the files: accounts in one pool each, candidates with a model and providers, and
the values for "nothing" are not routes, bindings or plans.

The values that stand for no record and for a damaged one are not records of a
verified installation (`NotVerified`).

Assumptions of all theorems are the named `ASSUME`s of the modules, which TLC
evaluates in every run, and `OrderedMetadata` where it is stated.

Only model-checked: `CallsEnd`, the liveness of the gate (the provers do not reach
`ENABLED`, which fairness is made of), the two properties of `StackWizard`, and the
violations, which are counterexamples. Every other invariant and action property
of the passing runs is a theorem. Three properties are plainer than the others:
`RepeatsHaveCause`, `CooldownJustified` and `BestRoutes`. They were checked with TLC and
are proved, and are in no run.

## What the models leave out

- The contents of documents, beyond equality and fit. Parsing and validation of
  one document by one process are ordinary functions with unit tests.
- Damage to files by other programs: the code refuses such files, and the
  models start from and stay within what the code writes (or, for the record of
  an installation, what an installer of another schema wrote).
- In the stack store, the account registry, which `save_stack` consults, is
  fixed; `AccountLifecycle` has the changes of it, and the store as a register.
- In the proxy, `GET /health` and `GET /status`, which hold a slot and read; and
  the bytes of bodies, server-sent events and headers.
- Prompts, rendering, completion, plugins and read-only monitors.
- In the account commands, names (so `account rename`), providers and pools,
  which are compared when a document is validated and never change there.
- In route selection, the health of accounts, which no caller passes. In the
  session commands, a project's own model file (`project_models.py`), and the
  older command that creates a session without a plan.
- In the installation, services, downloads, the generations of the model
  gateway, the uninstaller, and the workflow lock, which is taken as held: one
  installer at a time.
- The workflow lock itself and the publication of model configuration: shell
  code whose steps are processes of their own. They are the next to be modelled.

## What the code does, and no run reproduces

While the models were written, they showed behaviour that is not wrong by any
promise of the repository, or that a run would state in no more than the words
below. It is in the models: none of their properties excludes it.

- A failing fsync of a rollback followed by a kill in its handler leaves a
  marker without its copy (stack_store.py:834): the store refuses to load.
- A status line may show an older request after a newer one's fallback
  (route_proxy.py:819); `StaleOnlyByRetry` says that there is no other way.
- A catalogue request that fails after output is reported as if before
  (route_proxy.py:994), unlike docs/troubleshooting.md:68.
- `account remove` decides with the stacks it read before, without recovering
  them (orichum_cli.py:1738, 1750): a recovery brings back a binding to an
  account that is gone, and a candidate saved meanwhile loses its binding.
- `finalize` closes the documents' journal before the last steps of `install.sh`
  (install_control_plane.py:1406): an installer that fails after it undoes the
  release, not the documents. `late` marks these behaviours in `VersionsAgree`.
- A resume keeps its controller only if its whole route is among the eligible ones
  (orichum_sessions.py:490), and a route holds the account's priority
  (route_selection.py:28): after `account priority` the controller may go to another
  account although its own still serves the model. docs/multi-account-usage.md:101-102
  says "Editing priorities, deleting or reassigning a stack, or resuming later does
  not rewrite that binding."; docs/controller-continuity-plan.md:34 "eligible
  controller primaries are retained". `CalmSessionsKept` is about sessions around
  which nothing has changed.
- The wizard offers a live model whose upstream name is that of another logical
  model, and then refuses it at the review, or routes it as the other one is
  (`setdefault`, stack_wizard.py:942); configure_state.py:493 refuses the like.
- When two new models of a draft are withdrawn at once, the review that follows the
  first replacement of the wizard fails, instead of asking for the second.
- A late success clears the cooldown that a newer failure has started, and a request
  goes by the cooldowns it has read (route_proxy.py:891, 939).
- A kill between creation and content of `accounts.json` leaves a torn document,
  which a rollback cannot tell from a user's, and records as a conflict.
- A kill in the removal of a release leaves a part of it, which the next
  activation of the same release refuses (`RInstall`); and a pruning removes releases
  that running sessions were started from.
- A command killed while it prepares a run leaves a directory without a
  manifest, which the clean-up passes over (orichum_sessions.py:1090).

## Plan

Modules in the order they were planned.

1. `StackStore` with its abstract register (done).
2. `AttestationGate` (done).
3. `RouteProxy` (done).
4. `AccountLifecycle` (done; renaming is left out).
5. `LogicalSessions` (done).
6. `ProjectContexts`, with the commands that save stacks and contexts (done), and
   `StackWizard`, the dialogue before such a save (done, not proved).
7. `ControlPlaneActivation`, `RuntimeBundle`, `HomeLayout`, composed by
   `Installation` (done).
8. `SessionRouting` and `SessionLaunch` (done).
9. `WorkflowLock`: acquisition with quarantine of stale owners; refines a mutex.
10. `ModelPublication`: generations of model configuration with signals.

Theorems to add: an abstract specification of the launch (a session's controller
as a register with the plan as its only writer), `OthersUntouched` of the wizard,
and a refinement of a mutex for 9.
