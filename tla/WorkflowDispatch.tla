--------------------------- MODULE WorkflowDispatch ---------------------------
(***************************************************************************)
(* The projection trusted replay rebuilds from one run's signed tape       *)
(* (bp-replay/src/state.rs) and the records that bring a workflow instance *)
(* into it: graph and manifest declarations, dispatch envelopes V1 to V5,  *)
(* the retry context, the V5 admission receipt and the activity V1         *)
(* brackets.  Replay sees the events in tape order and no clock; an event  *)
(* it rejects, or has already applied, leaves the projection as it was.    *)
(***************************************************************************)
EXTENDS Naturals, FiniteSets

CONSTANTS
    Scenarios, \* what the tapes may carry: a set of records of events
    none       \* an absent record

\* The events are structures of closed enumerations, and an absent record is
\* told from every present one; a graph is part of V4 and V5 envelopes alone.
ASSUME ScenarioAssumption ==
    /\ none \notin {"Succeeded", "Failed", "Denied", "Unknown", "Abandon", "Reject",
                    "v", "w", "sealed_v3"}
    /\ \A s \in Scenarios :
        /\ s.results \subseteq {"Succeeded", "Failed", "Unknown"}
        /\ s.receipts \subseteq {"Succeeded", "Failed", "Denied", "Unknown"}
        /\ \A d \in s.dispatches :
              d.attempt \in Nat /\ (d.graph # none) = (d.version \in {4, 5})
        /\ \A g \in s.graphs : g # none /\ g.max \in Nat
        /\ none \notin s.contexts
        /\ none \notin [kind : s.decisions, refs : SUBSET s.refs, target : s.targets]
        /\ none \notin [outcome : s.promotions,
                        sync : {none, "PendingReconciliation", "RootCheckoutStale", "TargetAdvanced"}]

VARIABLES
    carries,   \* the scenario of this tape, and the prefix it starts after; never changes
    graphs,    \* workflow_graphs and workflow_graphs_v2: declared topologies
    manifests, \* the four *_declarations maps of a V5 dispatch
    contexts,  \* attempt_contexts, keyed by the next envelope
    brackets,  \* activities: the run-scoped activity V1 brackets
    wf         \* workflow_instances, by <<unit, attempt>>

dispatchVars == <<carries, graphs, manifests, contexts, brackets>>

\* A map with one entry added or replaced.
Put(f, a, x) == [b \in DOMAIN f \cup {a} |-> IF b = a THEN x ELSE f[b]]

is_terminal(phase) == phase \in {"Rejected", "Completed", "Failed", "Cancelled"}

-----------------------------------------------------------------------------
(* What a dispatch authorises.  A dispatch is [unit, attempt, version,     *)
(* evidence, tier, role, rev, idem, graph, manifests, maxTokens]; the      *)
(* record stands for its own envelope digest.                              *)

Key(d) == <<d.unit, d.attempt>>
Is(k) == k \in DOMAIN wf

supports_sealed_action_evidence(w) == w.dispatch.version \in {3, 4, 5}
governed(w) == w.dispatch.tier = "governed"
requires_activity_claim_result(w) == w.dispatch.evidence = "sealed_v3"
\* A governed dispatch is atomic: validate_dispatch_envelope_authority_fields.
governed_sealed(w) == supports_sealed_action_evidence(w) /\ governed(w)
governed_atomic_sealed_v3(w) == governed_sealed(w) /\ requires_activity_claim_result(w)

dispatch_envelope_valid(d) ==
    /\ d.attempt > 0
    /\ (d.version < 3) = (d.evidence = none)
    /\ d.version >= 4 => d.tier = "governed" /\ d.evidence = "sealed_v3"
    /\ d.version = 5 => (d.attempt > 1) = ("attempt_context" \in DOMAIN d.manifests)

NewWorkflow(d, context) ==
    [dispatch |-> d, phase |-> "Dispatched", retry |-> context,
     actions |-> <<>>, sealed |-> FALSE, admission |-> FALSE,
     timers |-> <<>>, cancellation |-> none,
     candidate |-> none, completion |-> FALSE, acceptance |-> none,
     reviews |-> {}, approval |-> none, decision |-> none, claim |-> FALSE,
     result |-> none, resolution |-> none, terminal |-> none]

ReplayInit ==
    /\ carries \in Scenarios
    /\ graphs = {carries.starts[k].dispatch.graph : k \in DOMAIN carries.starts} \ {none}
    /\ manifests = {} /\ contexts = {} /\ brackets = <<>>
    /\ wf = carries.starts

-----------------------------------------------------------------------------
(* Declarations *)

\* Topologies of one revision never mix with work already dispatched under
\* it, and two V2 graphs never share a workflow under different revisions.
workflow_graph_open(g) ==
    IF g.version = 1
    THEN \A k \in DOMAIN wf : wf[k].dispatch.rev # g.rev
    ELSE /\ \A k \in DOMAIN wf :
               ~(wf[k].dispatch.version \in {4, 5} /\ wf[k].dispatch.rev = g.rev)
         /\ \A h \in graphs : h.version = 2 => h.rev = g.rev

apply_workflow_graph_declared(g) ==
    /\ workflow_graph_open(g)
    /\ \A h \in graphs : <<h.version, h.rev>> # <<g.version, g.rev>>
    /\ graphs' = graphs \cup {g}
    /\ UNCHANGED <<carries, manifests, contexts, brackets, wf>>

\* A declaration [unit, attempt, rev, kind, digest] for a V5 dispatch.
manifest_declaration_open(m) ==
    \A k \in DOMAIN wf :
        ~(/\ wf[k].dispatch.version = 5 /\ wf[k].dispatch.rev = m.rev
          /\ k = Key(m))

apply_manifest_declared(m) ==
    /\ manifest_declaration_open(m)
    /\ \A n \in manifests :
          <<Key(n), n.rev, n.kind>> # <<Key(m), m.rev, m.kind>>
    /\ manifests' = manifests \cup {m}
    /\ UNCHANGED <<carries, graphs, contexts, brackets, wf>>

-----------------------------------------------------------------------------
(* Dispatch *)

\* Raw and governed work never share a run, and the first governed dispatch
\* precedes every activity bracket of the run.
validate_dispatch_run_scope(d) ==
    /\ \A k \in DOMAIN wf : wf[k].dispatch.tier = d.tier
    /\ d.tier = "governed" /\ DOMAIN wf = {} => DOMAIN brackets = {}

validate_v4_graph_binding(d) ==
    /\ d.graph \in graphs /\ d.graph.version = 2 /\ d.graph.rev = d.rev
    /\ d.unit \in DOMAIN d.graph.nodes
    /\ d.graph.nodes[d.unit].role = d.role

validate_v5_manifest_binding(d) ==
    \A kind \in DOMAIN d.manifests :
        [unit |-> d.unit, attempt |-> d.attempt, rev |-> d.rev, kind |-> kind,
         digest |-> d.manifests[kind]] \in manifests

SameGraph(g) ==
    {k \in DOMAIN wf : wf[k].dispatch.version \in {4, 5} /\ wf[k].dispatch.graph = g}
LatestAttempt(g, unit) ==
    {k \in SameGraph(g) : /\ k[1] = unit
                          /\ \A j \in SameGraph(g) : j[1] = unit => j[2] <= k[2]}

\* Dependencies are satisfied by the Completed phase alone, and the active
\* workflows of the graph stay below max_concurrent.
validate_v4_graph_schedule(d) ==
    /\ \A u \in d.graph.nodes[d.unit].deps :
          \E k \in LatestAttempt(d.graph, u) : wf[k].phase = "Completed"
    /\ Cardinality({k \in SameGraph(d.graph) : ~is_terminal(wf[k].phase)})
         < d.graph.max

\* The context recorded for exactly this envelope.
ContextFor(d) == {c \in contexts : c.next = d}
NeedsContext(d) == d.attempt > 1 /\ d.tier = "governed" /\ d.evidence = "sealed_v3"

\* A V5 retry names feedback its own declared attempt context carries.
validate_retry_dispatch_context_unneeded(d) == TRUE
validate_retry_dispatch_context(d) ==
    NeedsContext(d) =>
        \E c \in ContextFor(d) :
            d.version = 5 => c.feedback = d.manifests["attempt_context"]

\* The last part of every dispatch handler: the key is new (an identical
\* envelope is already applied, another one conflicts) and the run fits.
InstallDispatch(d, context) ==
    /\ dispatch_envelope_valid(d)
    /\ ~Is(Key(d))
    /\ validate_dispatch_run_scope(d)
    /\ wf' = Put(wf, Key(d), NewWorkflow(d, context))
    /\ UNCHANGED dispatchVars

RetainedContext(d) == IF NeedsContext(d) /\ ContextFor(d) # {} THEN ContextFor(d) ELSE {none}

apply_dispatch_envelope_v1(d) == d.version = 1 /\ InstallDispatch(d, none)
apply_dispatch_envelope_v2(d) == d.version = 2 /\ InstallDispatch(d, none)
apply_dispatch_envelope_v3(d) ==
    /\ d.version = 3 /\ validate_retry_dispatch_context(d)
    /\ \E c \in RetainedContext(d) : InstallDispatch(d, c)
apply_dispatch_envelope_v4(d) ==
    /\ d.version = 4 /\ validate_v4_graph_binding(d) /\ validate_v4_graph_schedule(d)
    /\ validate_retry_dispatch_context(d)
    /\ \E c \in RetainedContext(d) : InstallDispatch(d, c)
apply_dispatch_envelope_v5(d) ==
    /\ d.version = 5 /\ validate_v4_graph_binding(d) /\ validate_v5_manifest_binding(d)
    /\ validate_v4_graph_schedule(d) /\ validate_retry_dispatch_context(d)
    /\ \E c \in RetainedContext(d) : InstallDispatch(d, c)

\* Evidence that the protected host admitted a V5 dispatch; no phase follows.
apply_governed_dispatch_v5_admission(k) ==
    /\ Is(k) /\ wf[k].dispatch.version = 5 /\ ~wf[k].admission
    /\ wf' = [wf EXCEPT ![k].admission = TRUE]
    /\ UNCHANGED dispatchVars

-----------------------------------------------------------------------------
(* The retry context [prior, action, next, ns, feedback] *)

prior_attempt_failed(w) == w.phase = "Failed" /\ w.terminal = "Failed"

failed_effect_named(w, a) ==
    /\ a \in DOMAIN w.actions
    /\ w.actions[a].receipt = "Failed" /\ w.actions[a].result = "Failed"

retry_namespace_fresh(c) ==
    LET w == wf[c.prior] IN
    /\ {c.next.idem, c.ns} \cap
           ({w.dispatch.idem} \cup {w.actions[a].idem : a \in DOMAIN w.actions}) = {}
    /\ \A k \in DOMAIN wf : wf[k].dispatch.idem \notin {c.next.idem, c.ns}
    /\ \A b \in contexts : b.next.idem # c.next.idem /\ b.ns # c.ns

prior_attempt_unbound(c) == \A b \in contexts : b.prior # c.prior

apply_attempt_context_recorded(c) ==
    /\ c.next.attempt = c.prior[2] + 1 /\ c.next.unit = c.prior[1]
    /\ ContextFor(c.next) = {}
    /\ prior_attempt_unbound(c)
    /\ Is(c.prior) /\ wf[c.prior].dispatch.rev = c.next.rev
    /\ governed_atomic_sealed_v3(wf[c.prior])
    /\ prior_attempt_failed(wf[c.prior])
    /\ failed_effect_named(wf[c.prior], c.action)
    /\ retry_namespace_fresh(c)
    /\ contexts' = contexts \cup {c}
    /\ UNCHANGED <<carries, graphs, manifests, brackets, wf>>

-----------------------------------------------------------------------------
(* Activity V1 brackets.  The engine scans the tape for an authorised      *)
(* governed dispatch before it applies the first event, and demands the    *)
(* kernel's signature on the brackets of such a run.                       *)

authorized_governed_runs == \E d \in carries.dispatches : d.tier = "governed"

governed_activity_bracketing_is_required ==
    \/ authorized_governed_runs
    \/ \E k \in DOMAIN wf : governed(wf[k])

apply_activity_started(a, input, signer) ==
    /\ governed_activity_bracketing_is_required =>
          signer = "kernel" /\ a \notin DOMAIN brackets
    /\ LET old == IF a \in DOMAIN brackets THEN brackets[a].result ELSE none IN
       brackets' = Put(brackets, a, [input |-> input, result |-> old, by |-> signer])
    /\ UNCHANGED <<carries, graphs, manifests, contexts, wf>>

apply_activity_completed(a, result, signer) ==
    /\ governed_activity_bracketing_is_required =>
          /\ signer = "kernel"
          /\ a \in DOMAIN brackets /\ brackets[a].input # none
          /\ brackets[a].result = none
    /\ LET old == IF a \in DOMAIN brackets THEN brackets[a].input ELSE none IN
       brackets' = Put(brackets, a, [input |-> old, result |-> result, by |-> signer])
    /\ UNCHANGED <<carries, graphs, manifests, contexts, wf>>
=============================================================================
