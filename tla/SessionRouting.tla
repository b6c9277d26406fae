--------------------------- MODULE SessionRouting ---------------------------
(***************************************************************************)
(* Which account a session uses for each of its models:                    *)
(* route_selection.py, resolve_session_plan of orichum_sessions.py and     *)
(* what the route proxy makes of the result (RouteIndex).                  *)
(*                                                                         *)
(* All of this is a function of what a command has read, its view: the     *)
(* stacks and the locks of their candidates, the account registry and the  *)
(* catalogue of models that are live.  Pools and providers of accounts do  *)
(* not change; the accounts' health, which the program never passes, and   *)
(* the family, which the model determines, are left out.                   *)
(***************************************************************************)
EXTENDS Naturals, FiniteSets, Functions, Sequences

CONSTANTS
    Accounts,    \* account ids, in their order
    Models,      \* logical models
    Providers,
    Roles,       \* the agents, a sequence
    Pools,       \* the account pools of the project, a sequence
    PoolOf, ProviderOf,  \* of each account
    Rank,        \* of each provider, in fallbackRoutes
    Serves,      \* the providers that each model has a route for
    Versions,    \* the stacks and locks, as each save has left them
    Anyone,      \* no lock
    NoRoute, NoBinding, NoPlan

ASSUME RoutingAssumption ==
    /\ Accounts \subseteq Nat /\ IsFiniteSet(Accounts)
    /\ DOMAIN Pools \subseteq Nat /\ DOMAIN Roles \subseteq Nat
    /\ PoolOf \in [Accounts -> Range(Pools)] /\ IsInjective(Pools)
    /\ ProviderOf \in [Accounts -> Providers]
    /\ Rank \in [Providers -> Nat] /\ Serves \in [Models -> SUBSET Providers]
    /\ Anyone \notin Accounts

Indices == DOMAIN Roles

Candidates == [id : Nat, model : Models, providers : SUBSET Providers]

ASSUME VersionsAssumption ==
    \A n \in DOMAIN Versions :
        /\ Versions[n].stacks.controller \in Seq(Candidates)
        /\ Versions[n].stacks.agents \in [Indices -> Seq(Candidates)]

\* What is made of them.
Routes == [account : Accounts, model : Models, priority : Nat]
Binds == [primary : Routes, fallback : Routes \cup {NoRoute},
          lock : Accounts \cup {Anyone}]
Plans == [controller : Binds, agents : [Indices -> Binds]]

ASSUME NothingAssumption ==
    NoRoute \notin Routes /\ NoBinding \notin Binds /\ NoPlan \notin Plans

\* A view names the versions of the two files that it was made from.
StacksOf(view) == Versions[view.stacks].stacks
LockOf(view, candidate) == Versions[view.locks].locks[candidate.id]

-----------------------------------------------------------------------------
(* route_selection.py                                                      *)

\* The accounts of a pool that can serve a candidate.
Usable(view, candidate, pool) ==
    {a \in Accounts :
        /\ view.registry[a].active
        /\ PoolOf[a] = pool
        /\ LockOf(view, candidate) \in {Anyone, a}
        /\ ProviderOf[a] \in candidate.providers \cap Serves[candidate.model]
        /\ <<a, candidate.model>> \in view.live}

Route(view, a, model) ==
    [account |-> a, model |-> model, priority |-> view.registry[a].priority]

PoolIndex(route) == CHOOSE k \in DOMAIN Pools : Pools[k] = PoolOf[route.account]
RankOf(route) == Rank[ProviderOf[route.account]]

\* Pool by pool, the highest priority first, then by provider and account.
Precedes(r, q) ==
    \/ PoolIndex(r) < PoolIndex(q)
    \/ PoolIndex(r) = PoolIndex(q) /\ r.priority > q.priority
    \/ /\ PoolIndex(r) = PoolIndex(q) /\ r.priority = q.priority
       /\ \/ RankOf(r) < RankOf(q)
          \/ RankOf(r) = RankOf(q) /\ r.account < q.account

Nth(routes, n) == CHOOSE r \in routes : Cardinality({q \in routes : Precedes(q, r)}) = n

Eligible(view, candidate) ==
    {Route(view, a, candidate.model) : a \in UNION {Usable(view, candidate, pool) : pool \in Range(Pools)}}

\* The first pool that can; of its highest priority, one after the other.
ChooseRoute(view, candidate, ordinal) ==
    LET routes == Eligible(view, candidate)
        first == Nth(routes, 0)
        tier == {r \in routes : /\ PoolIndex(r) = PoolIndex(first)
                                /\ r.priority = first.priority}
    IN Nth(tier, ordinal % Cardinality(tier))

\* Another account for the same model, at most one.
Alternate(view, candidate, primary) ==
    LET others == {r \in Eligible(view, candidate) : r.account # primary.account}
    IN IF others = {} THEN NoRoute ELSE Nth(others, 0)

-----------------------------------------------------------------------------
(* resolve_session_plan.  The lock that a binding was made under is no     *)
(* part of it, but of its history.                                         *)

Binding(view, candidate, primary, fallback) ==
    [primary |-> primary, fallback |-> fallback, lock |-> LockOf(view, candidate)]

\* Faulty variant: a resume chooses as a new session does.
BindAnew(view, candidate, ordinal, preferred) ==
    LET chosen == ChooseRoute(view, candidate, ordinal)
    IN Binding(view, candidate, chosen, Alternate(view, candidate, chosen))

\* A primary that is preferred and still eligible, as the route that it was,
\* remains; the chain that would have been chosen has its fallback.
BindCandidate(view, candidate, ordinal, preferred) ==
    LET chosen == ChooseRoute(view, candidate, ordinal)
        alternate == Alternate(view, candidate, chosen)
    IN IF preferred # NoBinding /\ preferred.primary \in Eligible(view, candidate)
       THEN Binding(view, candidate, preferred.primary,
                    IF chosen # preferred.primary THEN chosen ELSE alternate)
       ELSE Binding(view, candidate, chosen, alternate)

\* The first candidate that an account can be found for.
BindFirst(view, candidates, ordinal, preferred) ==
    LET able == {i \in DOMAIN candidates : Eligible(view, candidates[i]) # {}}
    IN IF able = {} THEN NoBinding
       ELSE BindCandidate(view, candidates[CHOOSE i \in able : \A j \in able : i <= j],
                          ordinal, preferred)

\* A resume gives its session: it keeps the agents, and prefers its controller.
ResolvePlan(view, ordinal, session) ==
    LET controller == BindFirst(view, StacksOf(view).controller, ordinal,
                                IF session = NoPlan THEN NoBinding ELSE session.controller)
        agents == IF session # NoPlan THEN session.agents
                  ELSE [i \in Indices |->
                          BindFirst(view, StacksOf(view).agents[i], ordinal + i, NoBinding)]
    IN IF controller = NoBinding \/ NoBinding \in Range(agents) THEN NoPlan
       ELSE [controller |-> controller, agents |-> agents]

-----------------------------------------------------------------------------
Bindings(plan) == {plan.controller} \cup Range(plan.agents)
RoutesOf(plan) ==
    UNION {{b.primary, b.fallback} : b \in Bindings(plan)} \ {NoRoute}

\* What CLIProxyAPI calls the model of a route: its account's prefix, and the
\* name of the model.
Upstream(route) == <<route.account, route.model>>

\* _effective_for: the models that the session's client will ask for.
ModelsOf(plan) ==
    [controller |-> Upstream(plan.controller.primary),
     agents |-> [i \in Indices |-> Upstream(plan.agents[i].primary)]]

Policies(plan, model) ==
    {<<b.primary, b.fallback>> : b \in {c \in Bindings(plan) : Upstream(c.primary) = model}}

\* Faulty variant: of several policies, one.
FallbackOfAny(plan, model) ==
    IF Policies(plan, model) = {} THEN NoRoute
    ELSE (CHOOSE policy \in Policies(plan, model) :
            \A other \in Policies(plan, model) : policy[2] = NoRoute => other[2] = NoRoute)[2]

\* RouteIndex: bindings that do not agree leave a request without a fallback.
FallbackFor(plan, model) ==
    IF \E policy \in Policies(plan, model) : Policies(plan, model) = {policy}
    THEN (CHOOSE policy \in Policies(plan, model) : TRUE)[2]
    ELSE NoRoute

=============================================================================
