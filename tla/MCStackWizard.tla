---------------------------- MODULE MCStackWizard ---------------------------
(***************************************************************************)
(* The controller and one role, two accounts of one provider that is live  *)
(* and a provider that is not, two live models: one that a logical model   *)
(* has a route to, and one that has a name of its own or of another model. *)
(***************************************************************************)
EXTENDS StackWizard, TLC

CONSTANTS s, t, p, q, f, g, a, b, m, n, u, w

MCOrder == <<"controller", "critic">>
MCProvider == a :> p @@ b :> p
Choice(upstream) == [provider |-> p, family |-> f, upstream |-> upstream]
MCChoices == {Choice(u), Choice(w)}
MCOffered == {<<Choice(u), a>>, <<Choice(u), b>>, <<Choice(w), b>>}

Candidate(name, role, model, providers) ==
    [id |-> CandidateId(name, role, 1, model), model |-> model, providers |-> providers]
Routed(family, routes) == [family |-> family, routes |-> routes]

MainStack == s :> ("controller" :> <<Candidate(s, "controller", m, {p})>>
                   @@ "critic" :> <<Candidate(s, "critic", m, {p})>>)
OtherStack == t :> ("controller" :> <<Candidate(t, "controller", n, {q})>>
                    @@ "critic" :> <<Candidate(t, "critic", n, {p, q})>>)

\* One stack alone; beside a model of another family, whose name an upstream
\* has; and beside another stack, of which a candidate uses both providers.
MCInstalled ==
    {[models |-> m :> Routed(f, p :> u), stacks |-> MainStack,
      bindings |-> CandidateId(s, "controller", 1, m) :> a],
     [models |-> m :> Routed(f, p :> u) @@ w :> Routed(g, q :> w), stacks |-> MainStack,
      bindings |-> <<>>],
     [models |-> m :> Routed(f, p :> u) @@ n :> Routed(f, p :> w @@ q :> u),
      stacks |-> MainStack @@ OtherStack, bindings |-> CandidateId(t, "critic", 1, n) :> b]}
=============================================================================
