-------------------------- MODULE WorkflowCandidate --------------------------
(***************************************************************************)
(* From the frozen candidate to the end of a workflow instance, as trusted *)
(* replay rebuilds it (bp-replay/src/transitions.rs): candidate,           *)
(* completion, acceptance, reviews, approval request, operator decision,   *)
(* execution claim, promotion result, reconciliation, timers, cancellation *)
(* and the terminal record.                                                *)
(***************************************************************************)
EXTENDS WorkflowActions

Set(k, w) == wf' = [wf EXCEPT ![k] = w] /\ UNCHANGED dispatchVars
Open_any_phase(k) == Is(k)
Open(k) == Is(k) /\ ~is_terminal(wf[k].phase)

-----------------------------------------------------------------------------
(* The candidate.  Its digest stands for its id, ref, commit and tree.     *)

candidate_is_new(k, digest) ==
    wf[k].candidate = none /\ \A j \in DOMAIN wf : wf[j].candidate # digest

candidate_dispatch_eligible(w) ==
    governed(w) /\ w.dispatch.role \in {"implementer", "candidate"}

CreateCandidate(k, digest) ==
    /\ candidate_is_new(k, digest)
    /\ wf[k].phase = "Dispatched"
    /\ Set(k, [wf[k] EXCEPT !.candidate = digest, !.phase = "CandidateCreated"])

apply_candidate_created(k, digest) ==
    /\ Open(k) /\ candidate_dispatch_eligible(wf[k]) /\ wf[k].dispatch.version < 3
    /\ CreateCandidate(k, digest)

apply_candidate_created_v2(k, digest) ==
    /\ Open(k) /\ supports_sealed_action_evidence(wf[k])
    /\ candidate_dispatch_eligible(wf[k])
    /\ pending_action_ids(wf[k]) = {} /\ unknown_action_ids(wf[k]) = {}
    /\ failed_action_ids(wf[k]) = {}
    /\ wf[k].sealed
    /\ CreateCandidate(k, digest)

requires_candidate_completion(w) ==
    governed_atomic_sealed_v3(w) /\ w.candidate # none

candidate_completed_unchecked(w) == TRUE
candidate_completed(w) == requires_candidate_completion(w) => w.completion

\* The Git effect the candidate ref is named after, with its whole lineage.
candidate_create_action_matches(w, a) ==
    /\ a \in DOMAIN w.actions /\ w.sealed
    /\ LET x == w.actions[a] IN
       /\ x.kind = "git" /\ x.cand = w.candidate
       /\ x.claimed /\ x.result = "Succeeded" /\ x.receipt = "Succeeded"

apply_candidate_completion_recorded(k, a) ==
    /\ Open(k) /\ requires_candidate_completion(wf[k])
    /\ wf[k].phase = "CandidateCreated" /\ ~wf[k].completion
    /\ candidate_create_action_matches(wf[k], a)
    /\ Set(k, [wf[k] EXCEPT !.completion = TRUE])

apply_candidate_acceptance_recorded(k, outcome) ==
    /\ Open(k) /\ wf[k].candidate # none
    /\ candidate_completed(wf[k])
    /\ wf[k].acceptance = none /\ wf[k].phase = "CandidateCreated"
    /\ Set(k, [wf[k] EXCEPT !.acceptance = outcome,
                  !.phase = IF outcome = "Passed" THEN "AcceptancePassed" ELSE "Rejected"])

-----------------------------------------------------------------------------
(* Reviews [ref, version, decision, by, action] *)

ReviewRefs(w) == {r.ref : r \in w.reviews}

RecordReview(k, review) ==
    /\ wf[k].acceptance = "Passed"
    /\ wf[k].phase \in {"AcceptancePassed", "ReviewApproved"}
    /\ review.ref \notin ReviewRefs(wf[k])
    /\ Set(k, [wf[k] EXCEPT !.reviews = @ \cup {review},
                  !.phase = IF review.decision = "Approve" THEN "ReviewApproved"
                                                           ELSE "Rejected"])

apply_review_verdict(k, ref, decision) ==
    /\ Open(k) /\ wf[k].candidate # none /\ wf[k].dispatch.version < 3
    /\ RecordReview(k, [ref |-> ref, version |-> 1, decision |-> decision,
                        by |-> none, action |-> none])

review_action_evidence_is_successful(w) ==
    /\ w.sealed /\ DOMAIN w.actions # {}
    /\ pending_action_ids(w) = {} /\ unknown_action_ids(w) = {}
    /\ failed_action_ids(w) = {}
    /\ \A a \in DOMAIN w.actions : w.actions[a].receipt = "Succeeded"

\* The reviewer's write-ahead intent named this very candidate.
sealed_v3_review_action_binds_verdict_target_any(x, candidate) == x.intent # none
sealed_v3_review_action_binds_verdict_target(x, candidate) ==
    x.intent = candidate /\ x.auth = "v2"

find_v3_reviewer_workflow_for_review(j) ==
    Is(j) /\ governed_sealed(wf[j]) /\ reviewer_like(wf[j].dispatch.role)

\* The verdict's action: a succeeded, authorised model call of the reviewer.
\* Its output digest is bound, its decision is the verdict's own.
review_action_matches(reviewer, x, candidate) ==
    /\ x.kind = "model" /\ x.auth # none
    /\ requires_activity_claim_result(reviewer) =>
          sealed_v3_review_action_binds_verdict_target(x, candidate)

apply_review_verdict_v2(k, ref, j, a, decision) ==
    /\ Open(k) /\ governed_sealed(wf[k]) /\ wf[k].candidate # none
    /\ candidate_completed(wf[k]) /\ wf[k].sealed
    /\ find_v3_reviewer_workflow_for_review(j) /\ j # k
    /\ wf[j].phase = "Dispatched"
    /\ review_action_evidence_is_successful(wf[j])
    /\ a \in DOMAIN wf[j].actions
    /\ review_action_matches(wf[j], wf[j].actions[a], wf[k].candidate)
    /\ RecordReview(k, [ref |-> ref, version |-> 2, decision |-> decision,
                        by |-> j, action |-> a])

-----------------------------------------------------------------------------
(* Approval request and operator decision *)

VerdictVersionOk(w, r) == w.dispatch.version >= 3 => r.version = 2
review_refs_are_approved(w, refs) ==
    refs # {} /\ \A ref \in refs : \E r \in w.reviews :
        r.ref = ref /\ r.decision = "Approve" /\ VerdictVersionOk(w, r)
review_refs_exist(w, refs) ==
    refs # {} /\ \A ref \in refs : \E r \in w.reviews : r.ref = ref /\ VerdictVersionOk(w, r)

apply_promotion_approval_requested(k, refs) ==
    /\ Open(k) /\ wf[k].candidate # none /\ candidate_completed(wf[k])
    /\ wf[k].approval = none
    /\ wf[k].acceptance = "Passed" /\ wf[k].phase = "ReviewApproved"
    /\ review_refs_are_approved(wf[k], refs)
    /\ Set(k, [wf[k] EXCEPT !.approval = refs, !.phase = "PromotionApprovalPending"])

\* bound: the decision names an approval request and repeats its bindings.
promotion_decision_binds_approval_request(w, refs, bound) ==
    IF w.approval = none THEN ~bound
    ELSE bound /\ w.phase = "PromotionApprovalPending" /\ refs = w.approval

promotion_decision_eligible(w, kind, refs) ==
    \/ /\ kind = "Promote" /\ w.acceptance = "Passed"
       /\ w.approval # none \/ w.phase = "ReviewApproved"
       /\ review_refs_are_approved(w, refs)
    \/ kind = "Reject" /\ w.acceptance # none /\ review_refs_exist(w, refs)

apply_promotion_decision(k, kind, refs, bound, target) ==
    /\ Open(k) /\ wf[k].cancellation = none /\ wf[k].candidate # none
    /\ candidate_completed(wf[k])
    /\ requires_candidate_completion(wf[k]) => target
    /\ wf[k].decision = none
    /\ promotion_decision_binds_approval_request(wf[k], refs, bound)
    /\ promotion_decision_eligible(wf[k], kind, refs)
    /\ Set(k, [wf[k] EXCEPT
                 !.decision = [kind |-> kind, refs |-> refs, target |-> target],
                 !.phase = IF kind = "Promote" THEN "PromotionPending" ELSE "Rejected"])

-----------------------------------------------------------------------------
(* Promotion execution *)

apply_promotion_execution_claimed(k) ==
    /\ Is(k) /\ requires_candidate_completion(wf[k])
    /\ wf[k].phase = "PromotionPending" /\ wf[k].cancellation = none
    /\ wf[k].terminal = none
    /\ wf[k].decision # none /\ wf[k].decision.kind = "Promote"
    /\ wf[k].result = none /\ ~wf[k].claim
    /\ Set(k, [wf[k] EXCEPT !.claim = TRUE])

PromotionOutcomes == {"Promoted", "ReconciliationRequired", "Rejected"}
\* sync: what the Git binding says of the checkout; none: target at the merge.
SyncStates == {none, "PendingReconciliation", "RootCheckoutStale", "TargetAdvanced"}

promotion_result_is_semantically_valid(decision, outcome, sync) ==
    \/ outcome = "Rejected" /\ sync = none
    \/ /\ decision.kind = "Promote" /\ outcome = "Promoted" /\ sync = none
    \/ /\ decision.kind = "Promote" /\ outcome = "ReconciliationRequired"
       /\ decision.target => sync \in {"RootCheckoutStale", "TargetAdvanced"}
       /\ ~decision.target => sync = none

\* leased: the result binds the execution claim replay projected.
apply_promotion_result(k, outcome, sync, leased) ==
    /\ Is(k) /\ wf[k].decision # none /\ wf[k].result = none
    /\ wf[k].terminal = none
    /\ leased = wf[k].claim
    /\ promotion_result_is_semantically_valid(wf[k].decision, outcome, sync)
    /\ Set(k, [wf[k] EXCEPT
                 !.result = [outcome |-> outcome, sync |-> sync],
                 !.phase = CASE outcome = "Promoted" -> "Promoted"
                             [] outcome = "Rejected" -> "Rejected"
                             [] OTHER -> "PromotionReconciliationRequired"])

\* Only a result with a Git binding has the receipt the resolution must name.
apply_promotion_reconciliation_resolved(k, outcome) ==
    /\ Is(k) /\ wf[k].decision # none /\ wf[k].decision.target
    /\ wf[k].resolution = none /\ wf[k].terminal = none
    /\ wf[k].result # none /\ wf[k].result.outcome = "ReconciliationRequired"
    /\ wf[k].phase = "PromotionReconciliationRequired"
    /\ Set(k, [wf[k] EXCEPT !.resolution = outcome,
                            !.phase = "PromotionReconciliationResolved"])
=============================================================================
