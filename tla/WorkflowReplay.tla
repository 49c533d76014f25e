---------------------------- MODULE WorkflowReplay ----------------------------
(***************************************************************************)
(* Trusted replay of one run: every order in which the signed events of a  *)
(* scenario can stand on its tape, folded into the projection that         *)
(* WorkflowDispatch, WorkflowActions and WorkflowCandidate describe.       *)
(* The engine hands the reducer only events whose signer role fits the     *)
(* kind (required_signer_role), so no action here carries a signer except  *)
(* the run-scoped activity brackets.                                       *)
(***************************************************************************)
EXTENDS WorkflowCandidate

-----------------------------------------------------------------------------
(* Timers and cancellation *)

workflow_lifecycle_control_is_allowed(w) ==
    /\ ~is_terminal(w.phase) /\ w.cancellation = none
    /\ w.phase \notin {"PromotionApprovalPending", "PromotionPending", "Promoted",
                       "PromotionReconciliationRequired", "PromotionReconciliationResolved"}

Controllable(k) ==
    Is(k) /\ governed_atomic_sealed_v3(wf[k]) /\ workflow_lifecycle_control_is_allowed(wf[k])

apply_workflow_timer_scheduled(k, t) ==
    /\ Controllable(k) /\ t \notin DOMAIN wf[k].timers
    /\ Set(k, [wf[k] EXCEPT !.timers = Put(@, t, "scheduled")])

apply_workflow_timer_fired(k, t) ==
    /\ Controllable(k) /\ t \in DOMAIN wf[k].timers /\ wf[k].timers[t] = "scheduled"
    /\ Set(k, [wf[k] EXCEPT !.timers[t] = "fired"])

\* cause is the operator or the timer that elapsed.
apply_workflow_cancellation_requested(k, cause) ==
    /\ Controllable(k)
    /\ cause # "operator" => cause \in DOMAIN wf[k].timers /\ wf[k].timers[cause] = "fired"
    /\ Set(k, [wf[k] EXCEPT !.cancellation = cause, !.phase = "CancellationRequested"])

-----------------------------------------------------------------------------
(* The terminal record *)

cancellation_effects_are_reconciled_receipt_only(w) ==
    \A a \in DOMAIN w.actions : w.actions[a].claimed => w.actions[a].receipt # none
cancellation_effects_are_reconciled(w) ==
    \A a \in DOMAIN w.actions :
        w.actions[a].claimed =>
            /\ w.actions[a].result \notin {none, "Unknown"}
            /\ w.actions[a].receipt # none

\* A promote decision is write-ahead intent: its effect may be done already.
promotion_effect_settled(w) ==
    /\ w.phase # "Promoted"
    /\ w.decision # none => (w.decision.kind = "Promote" => w.result # none)

workflow_terminal_is_semantically_valid(w, version, outcome) ==
    IF version = 2 /\ outcome = "Cancelled"
    THEN /\ w.phase = "CancellationRequested" /\ w.cancellation # none
         /\ w.result = none /\ cancellation_effects_are_reconciled(w)
    ELSE /\ w.cancellation = none
         /\ IF w.resolution # none
            THEN /\ w.phase = "PromotionReconciliationResolved"
                 /\ <<w.resolution, outcome>> \in
                        {<<"Abandon", "Failed">>, <<"Reject", "Cancelled">>}
            ELSE /\ w.result # none => w.result.outcome # "ReconciliationRequired"
                 /\ \/ outcome = "Completed" /\ w.phase = "Promoted"
                    \/ outcome \in {"Failed", "Cancelled"} /\ promotion_effect_settled(w)

apply_workflow_terminal(k, version, outcome) ==
    /\ Open(k)
    /\ version = 2 => governed_atomic_sealed_v3(wf[k])
    /\ wf[k].terminal = none
    /\ workflow_terminal_is_semantically_valid(wf[k], version, outcome)
    /\ Set(k, [wf[k] EXCEPT !.terminal = outcome, !.phase = outcome])

-----------------------------------------------------------------------------
(* apply_event: the scenario's events in any order *)

Declare ==
    \/ \E g \in carries.graphs : apply_workflow_graph_declared(g)
    \/ \E m \in carries.manifests : apply_manifest_declared(m)
    \/ \E c \in carries.contexts : apply_attempt_context_recorded(c)
    \/ \E d \in carries.dispatches :
        \/ apply_dispatch_envelope_v1(d) \/ apply_dispatch_envelope_v2(d)
        \/ apply_dispatch_envelope_v3(d) \/ apply_dispatch_envelope_v4(d)
        \/ apply_dispatch_envelope_v5(d)

Bracket ==
    \E a \in carries.brackets, signer \in {"kernel", "other"}, v \in {"v", "w"} :
        apply_activity_started(a, v, signer) \/ apply_activity_completed(a, v, signer)

Act(k) ==
    \E a \in DOMAIN wf[k].actions :
        \/ \E target \in carries.digests \cup {"own"} : apply_model_action_intent(k, a, target)
        \/ apply_model_action_authorized_v1(k, a)
        \/ apply_model_action_authorized_v2(k, a)
        \/ apply_activity_claimed(k, a)
        \/ \E o \in carries.results : apply_activity_result_recorded(k, a, o)
        \/ \E o \in carries.receipts, u \in carries.usages :
               apply_action_receipt_recorded(k, a, o, u)
        \/ apply_candidate_completion_recorded(k, a)

Review(k) ==
    \E ref \in carries.refs, decision \in carries.verdicts :
        \/ apply_review_verdict(k, ref, decision)
        \/ \E j \in DOMAIN wf : \E a \in DOMAIN wf[j].actions :
               apply_review_verdict_v2(k, ref, j, a, decision)

Promote(k) ==
    \/ \E refs \in SUBSET carries.refs :
        \/ carries.approves /\ apply_promotion_approval_requested(k, refs)
        \/ \E kind \in carries.decisions, bound \in BOOLEAN, target \in carries.targets :
               apply_promotion_decision(k, kind, refs, bound, target)
    \/ apply_promotion_execution_claimed(k)
    \/ \E outcome \in carries.promotions, sync \in SyncStates, leased \in BOOLEAN :
           apply_promotion_result(k, outcome, sync, leased)
    \/ \E outcome \in {"Abandon", "Reject"} : apply_promotion_reconciliation_resolved(k, outcome)

Control(k) ==
    \/ \E t \in carries.timers :
           apply_workflow_timer_scheduled(k, t) \/ apply_workflow_timer_fired(k, t)
    \/ \E cause \in carries.causes : apply_workflow_cancellation_requested(k, cause)
    \/ \E t \in carries.terminals : apply_workflow_terminal(k, t[1], t[2])

Next ==
    \/ Declare \/ Bracket
    \/ \E r \in carries.requests : apply_action_requested(r)
    \/ \E k \in DOMAIN wf :
        \/ Act(k) \/ Review(k) \/ Promote(k) \/ Control(k)
        \/ carries.admits /\ apply_governed_dispatch_v5_admission(k)
        \/ apply_action_receipt_set_recorded(k)
        \/ \E digest \in carries.digests :
              apply_candidate_created(k, digest) \/ apply_candidate_created_v2(k, digest)
        \/ \E outcome \in carries.acceptances : apply_candidate_acceptance_recorded(k, outcome)

vars == <<dispatchVars, wf>>
Spec == ReplayInit /\ [][Next]_vars

-----------------------------------------------------------------------------
Promoting ==
    {"PromotionPending", "Promoted", "PromotionReconciliationRequired",
     "PromotionReconciliationResolved", "Completed"}

\* No tape order brings a sealed_v3 candidate to promotion without the whole
\* chain: its completed Git effect under a sealed set, a passed acceptance, a
\* canonical target and a Promote decision over approving V2 verdicts alone,
\* and exactly over those an approval request put before the operator.
PromotionIsEarned ==
    \A k \in DOMAIN wf :
        LET w == wf[k] IN
        w.phase \in Promoting /\ governed_atomic_sealed_v3(w) =>
            /\ w.completion /\ w.sealed /\ w.acceptance = "Passed"
            /\ \E a \in DOMAIN w.actions :
                  /\ w.actions[a].cand = w.candidate /\ w.actions[a].kind = "git"
                  /\ w.actions[a].receipt = "Succeeded"
            /\ w.decision.kind = "Promote" /\ w.decision.target
            /\ w.decision.refs # {}
            /\ w.approval # none => w.decision.refs = w.approval
            /\ \A ref \in w.decision.refs : \E r \in w.reviews :
                  r.ref = ref /\ r.version = 2 /\ r.decision = "Approve"

\* A V2 verdict comes from another workflow, in a reviewing role, whose sealed
\* model action succeeded and, under sealed_v3, was authorised for this
\* candidate and no other; what it rests on stays as it was when it was given.
\* One candidate belongs to one workflow, so the digest names one target.
ReviewsAreIndependent ==
    /\ \A k \in DOMAIN wf : \A r \in wf[k].reviews :
        r.version = 2 =>
            /\ r.by # k /\ wf[r.by].dispatch.role \in {"reviewer", "adversary", "judge"}
            /\ wf[r.by].sealed /\ wf[r.by].actions[r.action].kind = "model"
            /\ wf[r.by].actions[r.action].receipt = "Succeeded"
            /\ wf[r.by].dispatch.evidence = "sealed_v3" =>
                  wf[r.by].actions[r.action].intent = wf[k].candidate
    /\ \A j, k \in DOMAIN wf :
        wf[j].candidate # none /\ wf[j].candidate = wf[k].candidate => j = k

ReceiptsAgree ==
    \A k \in DOMAIN wf : \A a \in DOMAIN wf[k].actions :
        LET x == wf[k].actions[a]
            sealed_v3 == wf[k].dispatch.evidence = "sealed_v3"
        IN
        /\ x.receipt = "Succeeded" /\ x.claimed => x.result = "Succeeded"
        /\ x.result = "Unknown" /\ x.receipt # none => x.receipt = "Unknown"
        /\ x.receipt # none /\ sealed_v3 => x.result = x.receipt
        /\ wf[k].sealed /\ sealed_v3 => x.claimed /\ x.receipt = "Succeeded"

TokensFitTheBudget ==
    \A k \in DOMAIN wf :
        LET paid == {a \in DOMAIN wf[k].actions :
                        wf[k].actions[a].kind = "model" /\ wf[k].actions[a].receipt = "Succeeded"} IN
        wf[k].dispatch.evidence = "sealed_v3" =>
            /\ \A a \in paid : wf[k].actions[a].tokens # none
            /\ TokenSum(wf[k], paid) <= wf[k].dispatch.maxTokens

\* A receipt never contradicts the result of the effect it closes, whichever of
\* the two was delayed; and under a sealed_v3 receipt set every effect was
\* claimed and ended well: nothing pending, failed or unknown is sealed in.  The
\* succeeded model calls of a dispatch stay within its token budget, in whatever
\* order their receipts arrive.
EvidenceAddsUp == ReceiptsAgree /\ TokensFitTheBudget

\* Nothing leaves a terminal phase, no record once projected is replaced, and a
\* sealed set is final: a late or conflicting event changes neither the outcome
\* nor a request, claim, result or receipt the outcome rests on.  The brackets
\* of a run that holds a governed dispatch are the kernel's, written ahead and
\* never rewritten, wherever on the tape that dispatch stands.
ClosedStaysClosed ==
    [][/\ \A k \in DOMAIN wf :
          /\ wf[k].phase \in {"Rejected", "Completed", "Failed", "Cancelled"} =>
                wf'[k].phase = wf[k].phase
          /\ \A f \in {"candidate", "acceptance", "approval", "decision", "result",
                       "resolution", "terminal", "cancellation"} :
                wf[k][f] # none => wf'[k][f] = wf[k][f]
          /\ wf[k].reviews \subseteq wf'[k].reviews
          /\ wf[k].sealed => wf'[k].sealed /\ wf'[k].actions = wf[k].actions
       /\ \A a \in DOMAIN brackets' :
          (\E d \in carries.dispatches : d.tier = "governed") =>
              /\ brackets'[a].by = "kernel" /\ brackets'[a].input # none
              /\ a \in DOMAIN brackets =>
                    /\ brackets'[a].input = brackets[a].input
                    /\ brackets[a].result # none => brackets'[a] = brackets[a]]_vars

\* Cancellation and promotion exclude each other, and a workflow closed by its
\* cancellation leaves no claimed effect whose end is not known and receipted,
\* then or later.  A Promote decision may already be done in Git: no terminal
\* record closes the workflow before the result is on the tape, and one that
\* calls for reconciliation is closed only by the operator's resolution.
EndsAreClean ==
    /\ \A k \in DOMAIN wf : wf[k].cancellation # none =>
        /\ wf[k].decision = none /\ wf[k].approval = none /\ ~wf[k].claim
        /\ wf[k].phase = "Cancelled" =>
              \A a \in DOMAIN wf[k].actions : wf[k].actions[a].claimed =>
                  /\ wf[k].actions[a].result \in {"Succeeded", "Failed"}
                  /\ wf[k].actions[a].receipt # none
    /\ \A k \in DOMAIN wf :
        LET w == wf[k] IN
        w.terminal # none /\ w.decision # none =>
            /\ w.decision.kind = "Promote" => w.result # none
            /\ w.result.outcome = "ReconciliationRequired" => w.resolution # none
            /\ (w.terminal = "Completed") = (w.result.outcome = "Promoted")

\* A unit of a graph runs only behind completed dependencies, which no later
\* attempt reopens, and the open workflows never exceed max_concurrent.  A
\* governed sealed_v3 attempt n+1 exists only after attempt n failed with the
\* failed effect its context names, one failed attempt feeds one retry, and no
\* retry issues an effect under an identity of the attempt it repeats.
DispatchIsEarned ==
    /\ \A k \in DOMAIN wf : wf[k].dispatch.graph # none =>
          \A u \in wf[k].dispatch.graph.nodes[k[1]].deps :
              \E j \in DOMAIN wf : j[1] = u /\ wf[j].phase = "Completed"
    /\ \A g \in graphs : g.version = 2 =>
          Cardinality({k \in DOMAIN wf :
              wf[k].dispatch.graph = g /\
              wf[k].phase \notin {"Rejected", "Completed", "Failed", "Cancelled"}}) <= g.max
    /\ \A k \in DOMAIN wf :
          k[2] > 1 /\ wf[k].dispatch.evidence = "sealed_v3" /\ wf[k].dispatch.tier = "governed" =>
              LET prior == <<k[1], k[2] - 1>> IN
              /\ prior \in DOMAIN wf /\ wf[prior].terminal = "Failed"
              /\ \E c \in contexts : /\ c.next = wf[k].dispatch /\ c.prior = prior
                                     /\ wf[prior].actions[c.action].receipt = "Failed"
    /\ \A b, c \in contexts : b.prior = c.prior => b = c
    /\ \A k, j \in DOMAIN wf :
          k[1] = j[1] /\ k[2] = j[2] + 1 /\ wf[k].dispatch.evidence = "sealed_v3" =>
              \A a \in DOMAIN wf[k].actions : \A b \in DOMAIN wf[j].actions :
                  a # b /\ wf[k].actions[a].idem # wf[j].actions[b].idem
=============================================================================
