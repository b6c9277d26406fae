----------------------------- MODULE StackWizard ----------------------------
(***************************************************************************)
(* `orichum stack configure` (integrations/common/stack_wizard.py): the    *)
(* user drafts a stack from the live catalogue, reviews and confirms it,   *)
(* and it is saved under the locks, if all it names is still live there.   *)
(*                                                                         *)
(* The wizard holds no lock while the user decides: routes come and go,    *)
(* accounts are enabled and disabled, and other commands save stacks.      *)
(* A save is one step here; StackStore has its steps.                      *)
(***************************************************************************)
EXTENDS Naturals, Sequences, FiniteSets

CONSTANTS
    Order,        \* the controller and the roles, in the order of a review
    Names,        \* names of stacks
    Default,      \* the default stack
    Accounts,
    Provider,     \* the provider of each account
    Choices,      \* LiveModelChoice: [provider, family, upstream]
    Offered,      \* pairs of a choice and an account that may list it
    Installed,    \* [models, stacks, bindings] that a wizard may find
    Automatic,    \* any account of the provider
    NoSource,     \* of a candidate that is not one of the stack edited
    NoDraft, NoProposal,
    MaxPicks,     \* bound on candidates picked
    MaxChanges    \* bound on what others change

Scopes == {Order[i] : i \in DOMAIN Order}
Actions == {"create", "clone", "edit"}

ASSUME WizardAssumption ==
    /\ Default \in Names
    /\ Automatic \notin Accounts
    /\ Offered \subseteq {x \in Choices \X Accounts : x[1].provider = Provider[x[2]]}
    /\ \A d \in Installed : Default \in DOMAIN d.stacks /\ DOMAIN d.stacks \subseteq Names
    /\ MaxPicks \in Nat /\ MaxChanges \in Nat

VARIABLES
    disk,       \* model-stacks.json and stack-bindings.json
    project,    \* the stack of the project at hand, in projects.json
    published,  \* what the proxy lists: pairs of a choice and an account
    active,     \* the active accounts
    changes,
    pc,         \* where the wizard is
    snap,       \* the stacks and bindings it has loaded,
    known,      \* the accounts that were active then,
    seen,       \* and the stack that the project had
    catalog,    \* the accounts of each choice; one without any is not live
    draft, proposal,
    scope,      \* the controller or role being configured
    missing,    \* the candidate that is not live any more
    fresh,      \* refresh_before_return
    assign,     \* assign_current_project
    shown,      \* history: the last review
    picks

world == <<disk, project, published, active, changes>>
opened == <<snap, known, seen>>
proposed == <<proposal, shown>>
vars == <<world, pc, opened, catalog, draft, proposed, scope, missing, fresh, assign, picks>>

-----------------------------------------------------------------------------
(* Stacks and the catalogue.                                               *)

Positions(scopes) == UNION {{<<s, i>> : i \in DOMAIN scopes[s]} : s \in Scopes}
Candidates(scopes) == {scopes[x[1]][x[2]] : x \in Positions(scopes)}
Ids(stacks) == UNION {{c.id : c \in Candidates(stacks[n])} : n \in DOMAIN stacks}

\* candidate_id is a hash of these.
CandidateId(name, s, i, model) == <<name, s, i, model>>

\* project_live_catalog
Projected(accounts) == [c \in Choices |-> {a \in accounts : <<c, a>> \in published}]

\* The model of a live choice is one with this route, or a new one that has the
\* name of the upstream.
LogicalModel(c) ==
    LET routed == {m \in DOMAIN snap.models :
                      /\ snap.models[m].family = c.family
                      /\ c.provider \in DOMAIN snap.models[m].routes
                      /\ snap.models[m].routes[c.provider] = c.upstream}
    IN  IF routed = {} THEN c.upstream ELSE CHOOSE m \in routed : TRUE

Nowhere == [c \in Choices |-> {}]
LiveChoices(cat) == {c \in Choices : cat[c] # {}}
CatalogChoices(families, excluded) ==
    {c \in LiveChoices(catalog) : c.family \in families /\ LogicalModel(c) \notin excluded}

Policy(document, candidate) ==
    IF candidate.id \in DOMAIN document.bindings THEN document.bindings[candidate.id] ELSE Automatic

\* The live choices through one of the providers of a candidate: one or none.
Served(document, candidate, p, cat) ==
    {c \in LiveChoices(cat) :
        /\ c.family = document.models[candidate.model].family
        /\ c.provider = p /\ c.upstream = document.models[candidate.model].routes[p]}

\* Whether a candidate is live through all of its providers.
Live(document, candidate, cat) ==
    \A p \in candidate.providers : \E c \in Served(document, candidate, p, cat) :
        Policy(document, candidate) \in cat[c] \cup {Automatic}

\* missing_live_choice, _first_missing
Missing(cat) ==
    IF proposal.target \notin DOMAIN proposal.stacks THEN {}
    ELSE {x \in Positions(proposal.stacks[proposal.target]) :
            ~Live(proposal, proposal.stacks[proposal.target][x[1]][x[2]], cat)}
Place(s) == CHOOSE i \in DOMAIN Order : Order[i] = s
FirstMissing(cat) ==
    CHOOSE x \in Missing(cat) :
        \A y \in Missing(cat) : \/ Place(x[1]) < Place(y[1])
                                \/ x[1] = y[1] /\ x[2] <= y[2]

-----------------------------------------------------------------------------
(* The draft, and what is proposed from it.                                *)

\* _draft_candidate: an account that was not active has no name to show.
DraftCandidate(action, candidate) ==
    LET account == Policy(snap, candidate)
    IN  [source |-> IF action = "edit" THEN candidate.id ELSE NoSource,
         model |-> candidate.model, family |-> snap.models[candidate.model].family,
         providers |-> candidate.providers,
         account |-> account, named |-> IF account \in known THEN account ELSE Automatic]

DraftFromStack(action, source, name) ==
    [action |-> action, source |-> source, name |-> name,
     scopes |-> [s \in Scopes |->
                    [i \in DOMAIN snap.stacks[source][s] |->
                        DraftCandidate(action, snap.stacks[source][s][i])]]]

\* _pick_candidate: a provider, a family, a model and an account policy, all of
\* them live.
Picks(source, families, excluded) ==
    UNION {{[source |-> source, model |-> LogicalModel(c), family |-> c.family,
             providers |-> {c.provider}, account |-> a, named |-> a] :
                a \in catalog[c] \cup {Automatic}} :
           c \in CatalogChoices(families, excluded)}

\* What may replace the missing candidate: of its family, and no other of the role.
Replacements ==
    LET role == draft.scopes[missing[1]]
    IN  Picks(role[missing[2]].source, {role[missing[2]].family},
              {role[i].model : i \in DOMAIN role \ {missing[2]}})

Families == {c.family : c \in Choices}
ModelsOf(candidates) == {candidates[i].model : i \in DOMAIN candidates}

\* _upstream: the routes of the snapshot, then those that are live.
Upstreams(model, p) ==
    IF model \in DOMAIN snap.models /\ p \in DOMAIN snap.models[model].routes
    THEN {snap.models[model].routes[p]}
    ELSE {c.upstream : c \in {c \in LiveChoices(catalog) :
                                 c.provider = p /\ LogicalModel(c) = model}}

Identifier(d, s, i) ==
    IF d.action = "edit" /\ d.scopes[s][i].source # NoSource
    THEN d.scopes[s][i].source
    ELSE CandidateId(d.name, s, i, d.scopes[s][i].model)

\* The errors of _materialize and of normalize_model_stacks.
Invalid(d) ==
    \/ \E c \in Candidates(d.scopes) :
          \/ \E p \in c.providers : Upstreams(c.model, p) = {}
          \/ c.model \in DOMAIN snap.models /\ snap.models[c.model].family # c.family
          \/ \E e \in Candidates(d.scopes) : e.model = c.model /\ e.family # c.family
    \/ \E x, y \in Positions(d.scopes) :
          x # y /\ Identifier(d, x[1], x[2]) = Identifier(d, y[1], y[2])
    \/ \E x \in Positions(d.scopes) :
          Identifier(d, x[1], x[2]) \in Ids([n \in DOMAIN snap.stacks \ {d.name} |-> snap.stacks[n]])
    \/ \E s \in Scopes : \E i, j \in DOMAIN d.scopes[s] :
          LET one == d.scopes[s][i]
              other == d.scopes[s][j]
          IN  /\ i < j
              /\ \/ one.model = other.model \/ one.family # other.family
                 \/ \E p \in one.providers \cap other.providers :
                       Upstreams(one.model, p) = Upstreams(other.model, p)

Models(d) ==
    [m \in DOMAIN snap.models \cup {c.model : c \in Candidates(d.scopes)} |->
        LET of == {c \in Candidates(d.scopes) : c.model = m}
            old == IF m \in DOMAIN snap.models THEN DOMAIN snap.models[m].routes ELSE {}
        IN  [family |-> IF m \in DOMAIN snap.models THEN snap.models[m].family
                        ELSE (CHOOSE c \in of : TRUE).family,
             routes |-> [p \in old \cup UNION {c.providers : c \in of} |->
                            CHOOSE u \in Upstreams(m, p) : TRUE]]]

Stack(d) ==
    [s \in Scopes |->
        [i \in DOMAIN d.scopes[s] |->
            [id |-> Identifier(d, s, i), model |-> d.scopes[s][i].model,
             providers |-> d.scopes[s][i].providers]]]

\* The locks of the stack that is replaced go, and those of the draft come.
Rebound(d, left) ==
    LET bound == {x \in Positions(d.scopes) : d.scopes[x[1]][x[2]].account # Automatic}
    IN  [id \in left \cup {Identifier(d, x[1], x[2]) : x \in bound} |->
            IF \E x \in bound : Identifier(d, x[1], x[2]) = id
            THEN LET x == CHOOSE x \in bound : Identifier(d, x[1], x[2]) = id
                 IN  d.scopes[x[1]][x[2]].account
            ELSE snap.bindings[id]]

\* Faulty variant: a candidate that keeps its identity keeps its lock.
BindingsLeft(d) == Rebound(d, DOMAIN snap.bindings)

Bindings(d) ==
    Rebound(d, DOMAIN snap.bindings \
               (IF d.name \in DOMAIN snap.stacks
                THEN {c.id : c \in Candidates(snap.stacks[d.name])} ELSE {}))

Materialize(d) ==
    [models |-> Models(d),
     stacks |-> [n \in DOMAIN snap.stacks \cup {d.name} |->
                    IF n = d.name THEN Stack(d) ELSE snap.stacks[n]],
     bindings |-> Bindings(d), target |-> d.name]

\* _review
Review(d, document) ==
    [s \in Scopes |->
        [i \in DOMAIN d.scopes[s] |->
            LET c == d.scopes[s][i]
            IN  [model |-> c.model, account |-> c.named,
                 routes |-> [p \in c.providers |-> document.models[c.model].routes[p]]]]]

-----------------------------------------------------------------------------
(* The dialogue.                                                           *)

Goto(location) == pc' = location
Picking == picks < MaxPicks /\ picks' = picks + 1
\* The process ends.
Ends(outcome) ==
    /\ Goto(outcome)
    /\ snap' = NoProposal /\ known' = {} /\ seen' = Default /\ catalog' = Nowhere
    /\ draft' = NoDraft /\ proposal' = NoProposal /\ shown' = NoProposal
    /\ scope' = Order[1] /\ missing' = NoDraft /\ fresh' = TRUE /\ assign' = FALSE

Init ==
    /\ disk \in Installed
    /\ project \in DOMAIN disk.stacks
    /\ published = Offered
    /\ active \in SUBSET Accounts
    /\ changes = 0
    /\ pc = "closed"
    /\ snap = NoProposal /\ known = {} /\ seen = Default /\ catalog = Nowhere
    /\ draft = NoDraft /\ proposal = NoProposal /\ shown = NoProposal
    /\ scope = Order[1] /\ missing = NoDraft /\ fresh = TRUE /\ assign = FALSE
    /\ picks = 0

Open ==
    /\ pc = "closed"
    /\ snap' = disk /\ known' = active /\ seen' = project
    /\ catalog' = Projected(active)
    /\ Goto("stack")
    /\ UNCHANGED <<world, draft, proposed, scope, missing, fresh, assign, picks>>

\* Back on this step, what has been drafted of the same stack is kept.
ChooseStack(action, source, name) ==
    LET again == draft # NoDraft /\ draft.action = action /\ draft.source = source
    IN  /\ pc = "stack"
        /\ source \in DOMAIN snap.stacks /\ (action = "create" => source = Default)
        /\ IF action = "edit" THEN name = source ELSE name \notin DOMAIN snap.stacks
        /\ draft' = IF again THEN [draft EXCEPT !.name = name]
                    ELSE DraftFromStack(action, source, name)
        /\ Goto("controller")
        /\ UNCHANGED <<world, opened, catalog, proposed, scope, missing, fresh, assign, picks>>

\* delete_stack
DeleteStack(name) ==
    /\ pc = "stack" /\ name \in DOMAIN snap.stacks
    /\ IF name = Default \/ name = seen
       THEN Ends("refused")
       ELSE LET left == [n \in DOMAIN snap.stacks \ {name} |-> snap.stacks[n]]
            IN  /\ proposal' = [models |-> snap.models, stacks |-> left,
                                bindings |-> [id \in DOMAIN snap.bindings \cap Ids(left) |->
                                                 snap.bindings[id]],
                                target |-> name]
                /\ assign' = FALSE /\ Goto("agreed")
                /\ UNCHANGED <<opened, catalog, draft, shown, scope, missing, fresh>>
    /\ UNCHANGED <<world, picks>>

Keep ==
    /\ pc = "controller" /\ Goto("agents")
    /\ UNCHANGED <<world, opened, catalog, draft, proposed, scope, missing, fresh, assign, picks>>

\* _configure_scope: the first candidate has the identity of the first one.
Configure(s) ==
    /\ IF s = Order[1] THEN pc = "controller" ELSE pc = "agents"
    /\ Picking
    /\ \E pick \in Picks(draft.scopes[s][1].source, Families, {}) :
          draft' = [draft EXCEPT !.scopes[s] = <<pick>>]
    /\ scope' = s
    /\ Goto("startup")
    /\ UNCHANGED <<world, opened, catalog, proposed, missing, fresh, assign>>

AddCandidate ==
    /\ pc = "startup" /\ Picking
    /\ \E pick \in Picks(NoSource, {draft.scopes[scope][1].family}, ModelsOf(draft.scopes[scope])) :
          draft' = [draft EXCEPT !.scopes[scope] = Append(@, pick)]
    /\ UNCHANGED <<world, pc, opened, catalog, proposed, scope, missing, fresh, assign>>

FinishRole ==
    /\ pc = "startup" /\ Goto("agents")
    /\ scope' = Order[1]
    /\ UNCHANGED <<world, opened, catalog, draft, proposed, missing, fresh, assign, picks>>

\* What has been proposed is forgotten, what has been drafted is not.
Forget == proposal' = NoProposal /\ shown' = NoProposal

Back ==
    /\ \/ pc = "controller" /\ Goto("stack") /\ UNCHANGED proposed
       \/ pc = "agents" /\ Goto("controller") /\ UNCHANGED proposed
       \/ pc = "review" /\ Goto("agents") /\ Forget
    /\ UNCHANGED <<world, opened, catalog, draft, scope, missing, fresh, assign, picks>>

\* No model is live at all, or none to replace the missing one.
NothingLive ==
    /\ \/ pc \in {"controller", "agents"} /\ LiveChoices(catalog) = {}
       \/ pc = "repick" /\ Replacements = {}
    /\ Ends("failed")
    /\ UNCHANGED <<world, picks>>

\* What is drafted is made a proposal, and shown.
Propose(d) ==
    IF Invalid(d) THEN Ends("failed")
    ELSE /\ draft' = d
         /\ proposal' = Materialize(d) /\ shown' = Review(d, Materialize(d))
         /\ Goto("review") /\ missing' = NoDraft
         /\ UNCHANGED <<opened, catalog, scope, fresh, assign>>

Continue ==
    /\ pc = "agents"
    /\ Propose(draft)
    /\ UNCHANGED <<world, picks>>

\* The user confirms: all is looked up again, unless that is left to the save,
\* and may be assigned to the project.
Confirm ==
    /\ pc = "review"
    /\ catalog' = IF fresh THEN Projected(known) ELSE catalog
    /\ IF fresh /\ Missing(catalog') # {}
       THEN /\ missing' = FirstMissing(catalog')
            /\ Goto("repick") /\ Forget
            /\ UNCHANGED assign
       ELSE /\ assign' \in BOOLEAN
            /\ Goto("agreed")
            /\ UNCHANGED <<missing, proposed>>
    /\ UNCHANGED <<world, opened, draft, scope, fresh, picks>>

\* _repick_missing: the rest of the draft is kept.
Repick ==
    /\ pc = "repick" /\ Picking
    /\ \E pick \in Replacements :
          Propose([draft EXCEPT !.scopes[missing[1]][missing[2]] = pick])
    /\ UNCHANGED world

\* WizardCancelled, the terminal is gone or the proxy does not answer.
Cancel ==
    /\ pc \in {"stack", "controller", "startup", "agents", "review", "repick", "agreed"}
    /\ Ends("cancelled")
    /\ UNCHANGED <<world, picks>>

-----------------------------------------------------------------------------
(* The save, under the locks of the control plane and of the bindings.     *)

\* validate_control_plane: the project has a stack.
Consistent == project \in DOMAIN proposal.stacks

\* validate_stack_bindings
ValidBindings ==
    \A n \in DOMAIN proposal.stacks : \A c \in Candidates(proposal.stacks[n]) :
        c.id \in DOMAIN proposal.bindings =>
            /\ proposal.bindings[c.id] \in active
            /\ Provider[proposal.bindings[c.id]] \in c.providers

\* Faulty variant: whatever the files are now.
SavableAnyway == ValidBindings

\* What save_stack compares and validates.
Savable == disk = snap /\ ValidBindings

\* resume_missing: the wizard goes on with the catalogue found at the save.
Unavailable ==
    /\ pc = "agreed" /\ Consistent /\ Missing(Projected(active)) # {}
    /\ catalog' = Projected(active)
    /\ missing' = FirstMissing(Projected(active))
    /\ seen' = project /\ fresh' = FALSE /\ assign' = FALSE
    /\ Goto("repick") /\ Forget
    /\ UNCHANGED <<world, snap, known, draft, scope, picks>>

Saved(document) ==
    disk' = [models |-> document.models, stacks |-> document.stacks, bindings |-> document.bindings]

\* The project is assigned after the save, which may fail.
Save ==
    /\ pc = "agreed" /\ Consistent /\ Missing(Projected(active)) = {} /\ Savable
    /\ Saved(proposal)
    /\ \/ project' = (IF assign THEN proposal.target ELSE project) /\ Ends("saved")
       \/ assign /\ UNCHANGED project /\ Ends("unassigned")
    /\ UNCHANGED <<published, active, changes, picks>>

\* validate_stack_assignment
Refuse ==
    /\ pc = "agreed" /\ assign /\ Consistent /\ Missing(Projected(active)) = {}
    /\ Ends("refused")
    /\ UNCHANGED <<world, picks>>

SaveFails ==
    /\ pc = "agreed"
    /\ ~Consistent \/ (Missing(Projected(active)) = {} /\ ~Savable)
    /\ Ends("failed")
    /\ UNCHANGED <<world, picks>>

-----------------------------------------------------------------------------
(* The others.  The wizard looks at what they change when the user         *)
(* confirms and when it saves; when before a look it is changed makes no   *)
(* difference to it, so it is then.                                        *)

Change ==
    /\ pc \in {"review", "agreed"}
    /\ changes < MaxChanges /\ changes' = changes + 1
Wizard == <<pc, opened, catalog, draft, proposed, scope, missing, fresh, assign, picks>>

\* A route comes or goes.
Publish(c, a) ==
    /\ Change /\ <<c, a>> \in Offered
    /\ published' = IF <<c, a>> \in published THEN published \ {<<c, a>>}
                    ELSE published \cup {<<c, a>>}
    /\ UNCHANGED <<disk, project, active, Wizard>>

\* account enable, account disable
Switch(a) ==
    /\ Change
    /\ active' = IF a \in active THEN active \ {a} ELSE active \cup {a}
    /\ UNCHANGED <<disk, project, published, Wizard>>

\* Another wizard binds a candidate to an account, or to none.
Rebind(c, a) ==
    /\ Change
    /\ disk' = [disk EXCEPT !.bindings =
                   [id \in (DOMAIN @ \cup {c.id}) \ (IF a = Automatic THEN {c.id} ELSE {}) |->
                       IF id = c.id THEN a ELSE @[id]]]
    /\ UNCHANGED <<project, published, active, Wizard>>

Reassign(n) ==
    /\ Change /\ project' = n
    /\ UNCHANGED <<disk, published, active, Wizard>>

Others ==
    \/ \E c \in Choices, a \in Accounts : Publish(c, a)
    \/ \E a \in Accounts : Switch(a)
    \/ \E n \in DOMAIN disk.stacks : Reassign(n)
    \/ \E n \in DOMAIN disk.stacks : \E c \in Candidates(disk.stacks[n]) :
          \/ Rebind(c, Automatic)
          \/ \E a \in active : Provider[a] \in c.providers /\ Rebind(c, a)

Next ==
    \/ Open
    \/ \E action \in Actions, source, name \in Names : ChooseStack(action, source, name)
    \/ \E name \in Names : DeleteStack(name)
    \/ Keep \/ \E s \in Scopes : Configure(s)
    \/ AddCandidate \/ FinishRole \/ Back \/ NothingLive
    \/ Continue \/ Confirm \/ Repick \/ Cancel
    \/ Unavailable \/ Save \/ Refuse \/ SaveFails
    \/ Others

Spec == Init /\ [][Next]_vars

-----------------------------------------------------------------------------
(* Properties.                                                             *)

WizardSaves == pc = "agreed" /\ pc' \in {"saved", "unassigned"}
Kept == proposal.target \in DOMAIN proposal.stacks

\* Some active account lists the upstream of a candidate's route, the one it is
\* locked to if it is locked.
Reachable(candidate, p) ==
    \E x \in published :
        /\ x[2] \in active /\ Policy(disk', candidate) \in {x[2], Automatic}
        /\ x[1].provider = p /\ x[1].upstream = disk'.models[candidate.model].routes[p]

\* The models, routes and account policies that are saved are those of the
\* review the user has confirmed, after any number of ways back and of
\* candidates picked anew; and however routes and accounts have changed while
\* the user decided, they are live when they are saved.  A lock to an account
\* that was disabled when the wizard was opened is reviewed as automatic.
SavedAsReviewed ==
    [][WizardSaves /\ Kept =>
          LET stack == disk'.stacks[proposal.target]
          IN  \A s \in Scopes :
                /\ DOMAIN shown[s] = DOMAIN stack[s]
                /\ \A i \in DOMAIN stack[s] :
                      /\ shown[s][i].model = stack[s][i].model
                      /\ \A p \in stack[s][i].providers :
                            /\ shown[s][i].routes[p] = disk'.models[stack[s][i].model].routes[p]
                            /\ Reachable(stack[s][i], p)
                      /\ \/ shown[s][i].account = Policy(disk', stack[s][i])
                         \/ Policy(disk', stack[s][i]) \notin known \cup {Automatic}]_vars

\* Whatever other commands have saved since the wizard was opened, its save
\* changes nothing but the stack it was about: the other stacks, the locks of
\* their candidates and the routes of the models stay as they were, and no
\* lock of a candidate that is gone is left.
OthersUntouched ==
    [][WizardSaves =>
          LET others == [n \in DOMAIN disk.stacks \ {proposal.target} |-> disk.stacks[n]]
          IN  /\ others = [n \in DOMAIN disk'.stacks \ {proposal.target} |-> disk'.stacks[n]]
              /\ \A n \in DOMAIN others : \A c \in Candidates(others[n]) :
                    Policy(disk', c) = Policy(disk, c)
              /\ \A m \in DOMAIN disk.models :
                    /\ m \in DOMAIN disk'.models /\ disk'.models[m].family = disk.models[m].family
                    /\ \A p \in DOMAIN disk.models[m].routes :
                          disk'.models[m].routes[p] = disk.models[m].routes[p]
              /\ DOMAIN disk'.bindings \subseteq Ids(disk'.stacks)]_vars
=============================================================================
