----------------------------- MODULE StackPairs -----------------------------
(***************************************************************************)
(* The values of the stack store: what model-stacks.json and               *)
(* stack-bindings.json may contain, which of them fit together, and what   *)
(* the callers of integrations/common/stack_store.py ask for.              *)
(***************************************************************************)
CONSTANTS
    Procs,            \* processes that use the store
    Stacks,           \* contents of model-stacks.json
    Bindings,         \* contents of stack-bindings.json
    EmptyBindings,    \* the content that locks no candidate
    Compatible,       \* the pairs validate_stack_bindings accepts
    Absent,           \* "there is no such file"
    NoSnapshot,       \* the process holds no snapshot
    NoOwner           \* no process is in the store

ASSUME ContentAssumption ==
    /\ Absent \notin Stacks \cup Bindings
    /\ NoSnapshot \notin (Stacks \cup {Absent}) \X (Bindings \cup {Absent})
    /\ NoOwner \notin Procs

ASSUME BindingAssumption ==
    /\ EmptyBindings \in Bindings
    /\ Compatible \subseteq Stacks \X Bindings
    /\ Stacks \X {EmptyBindings} \subseteq Compatible

\* What the two files hold, model first.
Pairs == (Stacks \cup {Absent}) \X (Bindings \cup {Absent})

NoFiles == <<Absent, Absent>>

\* A pair the store may show: bindings that fit the stacks, or no bindings;
\* or nothing at all, once an installer rollback has removed both files.
Consistent(pair) ==
    \/ pair[1] \in Stacks /\ pair[2] = Absent
    \/ pair \in Compatible
    \/ pair = NoFiles

\* The binding file save_stack publishes over `before': an absent file stays
\* absent when the updated bindings are empty.
Payload(before, updated) ==
    IF before = Absent /\ updated = EmptyBindings THEN Absent ELSE updated

Calls == [kind : {"none", "load", "save", "restore"},
          expected : Pairs, target : Pairs]

NoCall == [kind |-> "none", expected |-> NoFiles, target |-> NoFiles]

\* The pair a save publishes.
Published(call) == <<call.target[1], Payload(call.expected[2], call.target[2])>>
=============================================================================
