---------------------------- MODULE SessionLaunch ---------------------------
(***************************************************************************)
(* How a session comes to its accounts, and its client to its run: orichum *)
(* (new), resume and fork, from the first file that they read to the exec  *)
(* of the client (orichum_cli.py, session_config.py), while accounts,      *)
(* stacks and the catalogue of live models change.                         *)
(*                                                                         *)
(* A command reads the stacks, the locks, the registry and the catalogue   *)
(* one after the other and without a lock; plans; checks the credentials;  *)
(* prepares the directory of a physical run; and saves the session, or its *)
(* new controller.  The steps of saving are those of LogicalSessions, one  *)
(* action here; contexts are those of ProjectContexts and do not change.   *)
(***************************************************************************)
EXTENDS SessionRouting

CONSTANTS
    Procs, Ids,
    Priorities,
    Ordinals,      \* the random number of a new session
    NoSession, NoRun, NoView, None,
    Unpublished,   \* a credential that is disabled, or not the account's
    Suspended,     \* sets of accounts that may be suspended at the start
    MaxLaunches,   \* bound on commands
    MaxTrouble     \* bound on changes (of accounts, catalogue and stacks),
                   \* failures and kills

\* The random numbers are as many as the accounts of any pool.
ASSUME LaunchAssumption ==
    /\ 1 \in DOMAIN Versions /\ DOMAIN Versions \subseteq Nat
    /\ Priorities \subseteq Nat /\ Ordinals \subseteq Nat
    /\ \A pool \in Range(Pools) : 0..Cardinality({a \in Accounts : PoolOf[a] = pool}) - 1 \subseteq Ordinals
    /\ NoSession \notin Plans

VARIABLES
    stacks, locks,         \* the versions in model-stacks.json, stack-bindings.json
    registry, credential,  \* accounts.json, and each account's credential
    live,                  \* the catalogue of CLIProxyAPI
    sessions,              \* the logical sessions
    runs,                  \* of each command, the directory of its physical run
    leftover,              \* kinds of run that no command uses any more
    pc, task, reads, view, plan, \* of each command
    session,               \* the session that it resumes, forks or has saved
    expected,              \* that session as it was read
    seen, since,           \* history: the changes before the bindings of a
                           \* command, of a session, were looked for
    changes, launches, faults

files == <<stacks, locks, registry, credential, live>>
locals == <<pc, task, reads, view, plan, session, expected, seen>>
counters == <<changes, launches, faults>>
disk == <<runs, leftover>>
vars == <<files, sessions, since, disk, locals, counters>>

Tasks == {"new", "resume", "fork", "fork --stack"}
Preparing == {"made", "written", "copied", "isolated", "connected"}
Locations == {"idle", "reading", "planned", "validated", "complete", "saved", "running"}
             \cup Preparing

\* One session has been created before, from what the files still hold.
Init ==
    /\ stacks = 1 /\ locks = 1
    /\ \E suspended \in Suspended :
          /\ registry = [a \in Accounts |-> [active |-> a \notin suspended, priority |-> 1]]
          /\ credential = [a \in Accounts |-> IF a \in suspended THEN Unpublished ELSE 1]
    /\ live = {x \in Accounts \X Models : ProviderOf[x[1]] \in Serves[x[2]]}
    /\ \E ordinal \in Ordinals :
          LET first == ResolvePlan([stacks |-> 1, locks |-> 1, registry |-> registry,
                                    live |-> live], ordinal, NoPlan)
          IN first # NoPlan /\ sessions = [s \in Ids |-> IF s = 1 THEN first ELSE NoSession]
    /\ since = [s \in Ids |-> 0]
    /\ runs = [p \in Procs |-> NoRun] /\ leftover = {}
    /\ pc = [p \in Procs |-> "idle"] /\ task = [p \in Procs |-> "new"]
    /\ reads = [p \in Procs |-> <<>>] /\ view = [p \in Procs |-> NoView]
    /\ plan = [p \in Procs |-> NoPlan]
    /\ session = [p \in Procs |-> None] /\ expected = [p \in Procs |-> NoPlan]
    /\ seen = [p \in Procs |-> 0]
    /\ changes = 0 /\ launches = 0 /\ faults = 0

Step(p, from, to) == pc[p] = from /\ pc' = [pc EXCEPT ![p] = to]

\* Names are drawn at random; the model takes the least one.
Unused(n, names, nothing) ==
    names[n] = nothing /\ \A m \in DOMAIN names : m < n => names[m] # nothing

\* What a command reads after the stacks, in this order.
ReadsOf(t) ==
    CASE t = "new" -> <<"locks", "registry", "live">>
      [] t = "resume" -> <<"session", "registry", "locks", "live">>
      [] t = "fork" -> <<"session", "registry">>
      [] t = "fork --stack" -> <<"session", "registry", "live", "locks">>

\* The run of a command that has ended stays.
Abandon(p) ==
    /\ runs' = [runs EXCEPT ![p] = NoRun]
    /\ leftover' = IF runs[p] = NoRun THEN leftover
                   ELSE leftover \cup {IF runs[p].complete THEN "complete" ELSE "incomplete"}

\* A command has ended; nothing of it is left but files.
Ended(p) ==
    /\ pc' = [pc EXCEPT ![p] = "idle"] /\ task' = [task EXCEPT ![p] = "new"]
    /\ reads' = [reads EXCEPT ![p] = <<>>] /\ view' = [view EXCEPT ![p] = NoView]
    /\ plan' = [plan EXCEPT ![p] = NoPlan]
    /\ session' = [session EXCEPT ![p] = None]
    /\ expected' = [expected EXCEPT ![p] = NoPlan]
    /\ seen' = [seen EXCEPT ![p] = 0]

-----------------------------------------------------------------------------
(* Reading and planning                                                    *)

\* _load; after it, _verify_runtime may take half a minute.
Load(p, t) ==
    /\ Step(p, "idle", "reading") /\ launches < MaxLaunches
    /\ launches' = launches + 1
    /\ task' = [task EXCEPT ![p] = t] /\ reads' = [reads EXCEPT ![p] = ReadsOf(t)]
    /\ \/ t = "new" /\ UNCHANGED session
       \/ /\ t # "new"
          /\ \E s \in Ids : sessions[s] # NoSession /\ session' = [session EXCEPT ![p] = s]
    /\ view' = [view EXCEPT ![p] =
                  [stacks |-> stacks, locks |-> 0, registry |-> <<>>, live |-> {}]]
    /\ seen' = [seen EXCEPT ![p] = changes]
    /\ UNCHANGED <<files, sessions, since, disk, plan, expected, changes, faults>>

ReadFile(p) ==
    LET file == Head(reads[p]) IN
    /\ pc[p] = "reading" /\ reads[p] # <<>>
    /\ reads' = [reads EXCEPT ![p] = Tail(@)]
    /\ \/ /\ file = "session"
          /\ expected' = [expected EXCEPT ![p] = sessions[session[p]]]
          /\ seen' = IF task[p] = "fork" THEN [seen EXCEPT ![p] = since[session[p]]] ELSE seen
          /\ UNCHANGED view
       \/ /\ file = "registry" /\ view' = [view EXCEPT ![p].registry = registry]
          /\ UNCHANGED <<expected, seen>>
       \/ /\ file = "locks" /\ view' = [view EXCEPT ![p].locks = locks]
          /\ UNCHANGED <<expected, seen>>
       \/ /\ file = "live" /\ view' = [view EXCEPT ![p].live = live]
          /\ UNCHANGED <<expected, seen>>
    /\ UNCHANGED <<files, sessions, since, disk, pc, task, plan, session, counters>>

\* A fork without --stack takes its parent's plan.
Planned(p, ordinal) ==
    CASE task[p] = "fork" -> expected[p]
      [] task[p] = "resume" -> ResolvePlan(view[p], 0, expected[p])
      [] OTHER -> ResolvePlan(view[p], ordinal, NoPlan)

Plan(p) ==
    /\ pc[p] = "reading" /\ reads[p] = <<>>
    /\ \E made \in {Planned(p, ordinal) : ordinal \in Ordinals} :
          \/ /\ made # NoPlan
             /\ plan' = [plan EXCEPT ![p] = made] /\ pc' = [pc EXCEPT ![p] = "planned"]
             /\ UNCHANGED <<task, reads, view, session, expected, seen>>
          \/ made = NoPlan /\ Ended(p)
    /\ UNCHANGED <<files, sessions, since, disk, counters>>

\* The account as it was read, its credential as it is; a fork reads the
\* catalogue anew.
Valid(p) ==
    \A route \in RoutesOf(plan[p]) :
        /\ view[p].registry[route.account].active
        /\ credential[route.account] = view[p].registry[route.account].priority
        /\ <<route.account, route.model>> \in
               IF task[p] \in {"fork", "fork --stack"} THEN live ELSE view[p].live

Validate(p) ==
    /\ pc[p] = "planned"
    /\ \/ /\ Valid(p)
          /\ pc' = [pc EXCEPT ![p] = "validated"] /\ view' = [view EXCEPT ![p] = NoView]
          /\ UNCHANGED <<task, reads, plan, session, expected, seen>>
       \/ ~Valid(p) /\ Ended(p)
    /\ UNCHANGED <<files, sessions, since, disk, counters>>

-----------------------------------------------------------------------------
(* create_resolved_session: one run, from its directory to its manifest    *)

Prepare(p, from, to) ==
    /\ Step(p, from, to)
    /\ UNCHANGED <<files, sessions, since, leftover, task, reads, view, plan, session,
                   expected, seen, counters>>

MakeRun(p) ==
    /\ Prepare(p, "validated", "made")
    /\ runs' = [runs EXCEPT ![p] = [models |-> NoPlan, plugin |-> NoPlan,
                                    leanctx |-> FALSE, mcp |-> FALSE,
                                    complete |-> FALSE]]

\* Faulty variant: a resumed session's models are those it was saved with.
WriteDocumentsSaved(p) ==
    /\ Prepare(p, "made", "written")
    /\ runs' = [runs EXCEPT ![p].models =
                  ModelsOf(IF task[p] = "resume" THEN expected[p] ELSE plan[p])]

\* context.json and effective-models.json
WriteDocuments(p) ==
    /\ Prepare(p, "made", "written")
    /\ runs' = [runs EXCEPT ![p].models = ModelsOf(plan[p])]

\* What the definitions of the agents name as their models.
Contracts(models) == models.agents

CopyPlugin(p) ==
    /\ Prepare(p, "written", "copied")
    /\ runs' = [runs EXCEPT ![p].plugin = Contracts(ModelsOf(plan[p]))]

\* A home of its own for leanctx, which is installed; then mcp.json names it.
Isolate(p) ==
    /\ Prepare(p, "copied", "isolated")
    /\ runs' = [runs EXCEPT ![p].leanctx = TRUE]

Connect(p) ==
    /\ Prepare(p, "isolated", "connected")
    /\ runs' = [runs EXCEPT ![p].mcp = TRUE]

\* verify_session reads all of it again; then .complete is written.
DocumentsMatch(r) == r.models # NoPlan
PluginMatches(r) == r.plugin = Contracts(r.models)
ServersMatch(r) == r.leanctx /\ r.mcp
Verified(r) == DocumentsMatch(r) /\ PluginMatches(r) /\ ServersMatch(r)

Complete(p) ==
    /\ Prepare(p, "connected", "complete")
    /\ Verified(runs[p])
    /\ runs' = [runs EXCEPT ![p].complete = TRUE]

-----------------------------------------------------------------------------
(* The session, and its client                                             *)

Create(p) ==
    /\ Step(p, "complete", "saved") /\ task[p] # "resume"
    /\ \E s \in Ids :
          /\ Unused(s, sessions, NoSession)
          /\ sessions' = [sessions EXCEPT ![s] = plan[p]]
          /\ since' = [since EXCEPT ![s] = seen[p]]
          /\ session' = [session EXCEPT ![p] = s]
    /\ UNCHANGED <<files, disk, task, reads, view, plan, expected, seen, counters>>

Updated(p) == [expected[p] EXCEPT !.controller = plan[p].controller]

\* What binding.json holds of two sessions is the same: of what a resume can
\* change, all but the history.
SameBindings(s, q) ==
    /\ s.controller.primary = q.controller.primary
    /\ s.controller.fallback = q.controller.fallback

Matches(p, q) == SameBindings(sessions[session[p]], q)

\* update_session_controller: nothing to do, or done, or refused because the
\* session has changed.
Update(p) ==
    /\ pc[p] = "complete" /\ task[p] = "resume"
    /\ \/ /\ Matches(p, Updated(p))
          /\ pc' = [pc EXCEPT ![p] = "saved"]
          /\ UNCHANGED <<sessions, since, disk, task, reads, view, plan, session, expected, seen>>
       \/ /\ ~Matches(p, Updated(p)) /\ Matches(p, expected[p])
          /\ sessions' = [sessions EXCEPT ![session[p]] = Updated(p)]
          /\ since' = [since EXCEPT ![session[p]] = seen[p]]
          /\ pc' = [pc EXCEPT ![p] = "saved"]
          /\ UNCHANGED <<disk, task, reads, view, plan, session, expected, seen>>
       \/ /\ ~Matches(p, Updated(p)) /\ ~Matches(p, expected[p])
          /\ Abandon(p) /\ Ended(p)
          /\ UNCHANGED <<sessions, since>>
    /\ UNCHANGED <<files, counters>>

\* _launch_session: the port, the client's own files, exec.
Launch(p) ==
    /\ Step(p, "saved", "running")
    /\ plan' = [plan EXCEPT ![p] = NoPlan] /\ expected' = [expected EXCEPT ![p] = NoPlan]
    /\ UNCHANGED <<files, sessions, since, disk, task, reads, view, session, seen, counters>>

Exit(p) ==
    /\ pc[p] = "running" /\ Abandon(p) /\ Ended(p)
    /\ UNCHANGED <<files, sessions, since, counters>>

\* A step fails: a run that is not complete is discarded.
Fails(p) ==
    /\ pc[p] \notin {"idle", "running"} /\ changes + faults < MaxTrouble /\ faults' = faults + 1
    /\ IF pc[p] \in Preparing
       THEN runs' = [runs EXCEPT ![p] = NoRun] /\ UNCHANGED leftover
       ELSE Abandon(p)
    /\ Ended(p)
    /\ UNCHANGED <<files, sessions, since, changes, launches>>

Killed(p) ==
    /\ pc[p] \in Preparing /\ changes + faults < MaxTrouble /\ faults' = faults + 1
    /\ Abandon(p) /\ Ended(p)
    /\ UNCHANGED <<files, sessions, since, changes, launches>>

\* cleanup_physical_runs: runs that are complete, older than a day, and whose
\* port nobody listens to.  One without a manifest stays.
Cleanup ==
    /\ "complete" \in leftover /\ leftover' = leftover \ {"complete"}
    /\ UNCHANGED <<files, sessions, since, runs, locals, counters>>

-----------------------------------------------------------------------------
(* What changes meanwhile                                                  *)

Change ==
    /\ changes + faults < MaxTrouble /\ changes' = changes + 1
    /\ UNCHANGED <<sessions, since, disk, locals, launches, faults>>

Reprioritize(a) ==
    /\ Change /\ registry[a].active
    /\ \E n \in Priorities \ {registry[a].priority} :
          /\ registry' = [registry EXCEPT ![a].priority = n]
          /\ credential' = [credential EXCEPT ![a] = n]
    /\ UNCHANGED <<stacks, locks, live>>

Suspend(a) ==
    /\ Change /\ registry[a].active
    /\ registry' = [registry EXCEPT ![a].active = FALSE]
    /\ credential' = [credential EXCEPT ![a] = Unpublished]
    /\ UNCHANGED <<stacks, locks, live>>

Activate(a) ==
    /\ Change
    /\ ~registry[a].active \/ credential[a] = Unpublished
    /\ registry' = [registry EXCEPT ![a].active = TRUE]
    /\ credential' = [credential EXCEPT ![a] = registry[a].priority]
    /\ UNCHANGED <<stacks, locks, live>>

Disturb(a) ==
    /\ Change /\ credential[a] # Unpublished
    /\ credential' = [credential EXCEPT ![a] = Unpublished]
    /\ UNCHANGED <<stacks, locks, registry, live>>

Catalogue(a, m) ==
    /\ Change /\ ProviderOf[a] \in Serves[m]
    /\ live' = IF <<a, m>> \in live THEN live \ {<<a, m>>} ELSE live \cup {<<a, m>>}
    /\ UNCHANGED <<stacks, locks, registry, credential>>

\* A save of the stacks, which replaces the locks first.
SaveLocks ==
    /\ Change /\ locks = stacks
    /\ locks' \in DOMAIN Versions \ {locks}
    /\ UNCHANGED <<stacks, registry, credential, live>>

SaveStacks ==
    /\ stacks # locks /\ stacks' = locks /\ changes' = changes + 1
    /\ UNCHANGED <<locks, registry, credential, live, sessions, since, disk, locals,
                   launches, faults>>

-----------------------------------------------------------------------------
Command(p) ==
    \/ \E t \in Tasks : Load(p, t)
    \/ ReadFile(p) \/ Plan(p) \/ Validate(p)
    \/ MakeRun(p) \/ WriteDocuments(p) \/ CopyPlugin(p) \/ Isolate(p) \/ Connect(p) \/ Complete(p)
    \/ Create(p) \/ Update(p) \/ Launch(p) \/ Exit(p)
    \/ Fails(p) \/ Killed(p)

World ==
    \/ Cleanup
    \/ \E a \in Accounts :
          \/ Reprioritize(a) \/ Suspend(a) \/ Activate(a) \/ Disturb(a)
          \/ \E m \in Models : Catalogue(a, m)
    \/ SaveLocks \/ SaveStacks

Next == World \/ \E p \in Procs : Command(p)

Spec == Init /\ [][Next]_vars

-----------------------------------------------------------------------------
\* The accounts that a new session may use, told without order: of the first
\* candidate that any account can serve, in the first such pool, those that no
\* other outranks.
First(i, S) == i \in S /\ \A j \in S : i <= j
PoolsFor(v, candidate) == {k \in DOMAIN Pools : Usable(v, candidate, Pools[k]) # {}}
CandidatesFor(v, candidates) == {i \in DOMAIN candidates : PoolsFor(v, candidates[i]) # {}}
Best(v, candidates) ==
    {x \in Accounts \X Models :
        \E i \in DOMAIN candidates : \E k \in DOMAIN Pools :
            /\ First(i, CandidatesFor(v, candidates)) /\ First(k, PoolsFor(v, candidates[i]))
            /\ x[1] \in Usable(v, candidates[i], Pools[k]) /\ x[2] = candidates[i].model
            /\ \A b \in Usable(v, candidates[i], Pools[k]) :
                  v.registry[b].priority <= v.registry[x[1]].priority}

Account(b) == <<b.primary.account, b.primary.model>>

\* A new session's controller and agents are on the best accounts there are,
\* and its random number reaches each of those (resolve_session_plan,
\* choose_new_session_route).
BestRoutes ==
    \A p \in Procs :
        (pc[p] = "planned" /\ task[p] \in {"new", "fork --stack"}) =>
            LET v == view[p] IN
            /\ \A i \in Indices : Account(plan[p].agents[i]) \in Best(v, StacksOf(v).agents[i])
            /\ Best(v, StacksOf(v).controller) =
                  {Account(ResolvePlan(v, n, NoPlan).controller) : n \in Ordinals}
            /\ Account(plan[p].controller) \in Best(v, StacksOf(v).controller)

\* What was bound while a candidate was locked to an account stays on that
\* account: the proxy finds no other for it, whatever the other bindings of
\* the session, old and new, say of the same model (RouteIndex).
LocksRespected ==
    \A s \in Ids : sessions[s] # NoSession =>
        \A b \in Bindings(sessions[s]) : b.lock # Anyone =>
            /\ b.primary.account = b.lock
            /\ FallbackFor(sessions[s], Upstream(b.primary)) = NoRoute

\* As long as nothing has changed since a session got its controller, a resume
\* leaves it as it is, although it chooses with another number; unless it began
\* before the last change, and brings back what it had read then
\* (update_session_controller compares the session, not the stacks).
CalmSessionsKept ==
    [][\A s \in Ids :
          sessions[s] # NoSession /\ since[s] = changes /\ sessions'[s] # sessions[s] =>
              \E p \in Procs : session[p] = s /\ pc[p] = "complete" /\ seen[p] < changes]_vars

\* A session is saved or changed only when its command has prepared a run,
\* complete and with exactly the models of the session, for its client.
SavedIsPrepared ==
    [][\A s \in Ids : sessions'[s] # sessions[s] =>
            \E p \in Procs :
                /\ session'[p] = s /\ pc'[p] = "saved"
                /\ runs[p].complete
                /\ runs[p].models = ModelsOf(sessions'[s])
                /\ Verified(runs[p])]_vars
=============================================================================
