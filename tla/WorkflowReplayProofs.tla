------------------------ MODULE WorkflowReplayProofs ------------------------
(***************************************************************************)
(* What trusted replay guarantees of every tape, whatever its scenario.    *)
(* Local is the invariant of one workflow: its shape, the effect behind a  *)
(* completion, the station its decision, result, resolution and terminal   *)
(* put it at, and the agreement of results and receipts.  Kept is what no  *)
(* event takes back.  ReviewSound, DispatchSound and BracketInv relate     *)
(* workflows to each other, to the declarations and to the brackets.       *)
(***************************************************************************)
EXTENDS WorkflowRecovery, FiniteSetTheorems, TLAPS

-----------------------------------------------------------------------------
(* One workflow *)

WorkflowFields ==
    {"dispatch", "phase", "retry", "actions", "sealed", "admission", "timers",
     "cancellation", "candidate", "completion", "acceptance", "reviews", "approval",
     "decision", "claim", "result", "resolution", "terminal"}
ActionFields ==
    {"kind", "idem", "cand", "intent", "auth", "claimed", "result", "receipt", "tokens"}

Shaped(w) ==
    /\ DOMAIN w = WorkflowFields
    /\ \A a \in DOMAIN w.actions : DOMAIN w.actions[a] = ActionFields

\* The Git effect a completion is recorded over.
GitDone(w) ==
    \E a \in DOMAIN w.actions :
        /\ w.actions[a].cand = w.candidate /\ w.actions[a].kind = "git"
        /\ w.actions[a].receipt = "Succeeded"

Built(w) == w.completion => w.sealed /\ w.candidate # none /\ GitDone(w)

\* What a decision was taken on.
Decided(w) ==
    /\ w.candidate # none /\ candidate_completed(w)
    /\ requires_candidate_completion(w) => w.decision.target
    /\ w.decision.kind = "Promote" =>
          /\ w.acceptance = "Passed"
          /\ review_refs_are_approved(w, w.decision.refs)
          /\ w.approval # none => w.decision.refs = w.approval

Undecided(w) ==
    /\ w.decision = none /\ w.result = none /\ w.resolution = none /\ ~w.claim
    /\ w.phase \notin Promoting
    /\ w.terminal # none => w.terminal = w.phase /\ w.phase \in {"Failed", "Cancelled"}
    /\ w.approval # none => w.phase \in {"PromotionApprovalPending", "Failed", "Cancelled"}
    /\ w.cancellation # none =>
          w.approval = none /\ w.phase \in {"CancellationRequested", "Cancelled"}

\* The phase is told by the decision, the result, the resolution and the
\* terminal, in this order; no event order leaves these stations.
OnTheWay(w) ==
    \/ /\ w.result = none /\ w.resolution = none
       /\ w.phase = "PromotionPending" /\ w.terminal = none
    \/ /\ w.result # none /\ w.result.outcome = "Rejected" /\ w.resolution = none
       /\ w.phase = "Rejected" /\ w.terminal = none
    \/ /\ w.result # none /\ w.result.outcome = "Promoted" /\ w.resolution = none
       /\ \/ w.phase = "Promoted" /\ w.terminal = none
          \/ w.phase = "Completed" /\ w.terminal = "Completed"
    \/ /\ w.result # none /\ w.result.outcome = "ReconciliationRequired" /\ w.resolution = none
       /\ w.phase = "PromotionReconciliationRequired" /\ w.terminal = none
    \/ /\ w.result # none /\ w.result.outcome = "ReconciliationRequired" /\ w.resolution # none
       /\ \/ w.phase = "PromotionReconciliationResolved" /\ w.terminal = none
          \/ w.phase \in {"Failed", "Cancelled"} /\ w.terminal = w.phase

Standing(w) ==
    \/ Undecided(w)
    \/ /\ w.decision # none /\ w.cancellation = none /\ Decided(w)
       /\ \/ /\ w.decision.kind = "Reject" /\ w.resolution = none
             /\ w.phase = "Rejected" /\ w.terminal = none
             /\ w.result # none => w.result.outcome = "Rejected"
          \/ w.decision.kind = "Promote" /\ OnTheWay(w)

Deed(w, x) ==
    /\ x.result \in {none, "Succeeded", "Failed", "Unknown"}
    /\ x.result # none => x.claimed
    /\ x.receipt = "Succeeded" /\ x.claimed => x.result = "Succeeded"
    /\ x.result = "Unknown" /\ x.receipt # none => x.receipt = "Unknown"
    /\ x.receipt # none /\ requires_activity_claim_result(w) => x.result = x.receipt
    /\ w.sealed => x.receipt # none
    /\ w.sealed /\ requires_activity_claim_result(w) => x.claimed /\ x.receipt = "Succeeded"
    /\ w.phase = "Cancelled" /\ w.cancellation # none /\ x.claimed =>
          x.result \in {"Succeeded", "Failed"} /\ x.receipt # none

Deeds(w) == \A a \in DOMAIN w.actions : Deed(w, w.actions[a])

\* A recorded rejection says nothing of the checkout.
Plain(w) == w.result # none /\ w.result.outcome = "Rejected" => w.result.sync = none

Local(w) == Shaped(w) /\ Built(w) /\ Standing(w) /\ Deeds(w) /\ Plain(w)

Records ==
    {"candidate", "acceptance", "approval", "decision", "result", "resolution",
     "terminal", "cancellation"}

\* What no event takes back, of an action and of its workflow.
KeptAction(x, y) ==
    /\ y.idem = x.idem /\ y.kind = x.kind /\ (x.claimed => y.claimed)
    /\ x.intent # none => y.intent = x.intent
    /\ x.auth # none => y.auth = x.auth
    /\ x.result # none => y.result = x.result
    /\ x.receipt # none => y.receipt = x.receipt

Kept(w, v) ==
    /\ v.dispatch = w.dispatch /\ v.retry = w.retry /\ (w.admission => v.admission)
    /\ is_terminal(w.phase) => v.phase = w.phase /\ DOMAIN v.actions = DOMAIN w.actions
    /\ \A f \in Records : w[f] # none => v[f] = w[f]
    /\ w.reviews \subseteq v.reviews
    /\ w.sealed => v.sealed /\ v.actions = w.actions
    /\ \A a \in DOMAIN w.actions :
          a \in DOMAIN v.actions /\ KeptAction(w.actions[a], v.actions[a])

Good(w, v) == Local(v) /\ Kept(w, v)

Changes(k, v) ==
    /\ DOMAIN wf' = DOMAIN wf /\ wf'[k] = v
    /\ \A j \in DOMAIN wf : j # k => wf'[j] = wf[j]

-----------------------------------------------------------------------------
\* v is w but for the fields F.
Same(w, v, F) == DOMAIN v = DOMAIN w /\ \A f \in WorkflowFields \ F : v[f] = w[f]

\* The actions, the dispatch and the seal are left alone.
Leaves(w, v) ==
    /\ DOMAIN v = WorkflowFields
    /\ v.dispatch = w.dispatch /\ v.retry = w.retry
    /\ v.actions = w.actions /\ v.sealed = w.sealed
    /\ w.admission => v.admission
    /\ v.result = w.result \/ Plain(v)

\* Replacing the entry of one workflow.
LEMMA EditFacts ==
    ASSUME NEW k \in DOMAIN wf, NEW v, wf' = [wf EXCEPT ![k] = v]
    PROVE  Changes(k, v)
  BY DEF Changes

\* An event that records no action: what is left to show of it.
LEMMA FlowGood ==
    ASSUME NEW w, NEW v, Local(w), Leaves(w, v), Built(v), Standing(v),
           v.phase = "Cancelled" /\ v.cancellation # none =>
               w.phase = "Cancelled" /\ w.cancellation # none,
           is_terminal(w.phase) => v.phase = w.phase,
           \A f \in Records : w[f] # none => v[f] = w[f],
           w.reviews \subseteq v.reviews
    PROVE  Good(w, v)
  <1>1. Shaped(v)
    BY Zenon DEF Local, Shaped, Leaves
  <1>2. Deeds(v)
    <2>1. requires_activity_claim_result(v) <=> requires_activity_claim_result(w)
      BY Zenon DEF Leaves, requires_activity_claim_result
    <2>2. v.actions = w.actions /\ v.sealed = w.sealed
      BY Zenon DEF Leaves
    <2>3. ASSUME NEW x, Deed(w, x) PROVE Deed(v, x)
      BY Zenon, <2>1, <2>2, <2>3 DEF Deed
    <2> QED BY Zenon, <2>2, <2>3 DEF Local, Deeds
  <1>3. Kept(w, v)
    BY Zenon DEF Leaves, Kept, KeptAction
  <1>4. Plain(v)
    BY Zenon DEF Local, Leaves, Plain
  <1> QED BY Zenon, <1>1, <1>2, <1>3, <1>4 DEF Good, Local

\* A completion stays founded while its candidate does.
LEMMA LeavesBuilt ==
    ASSUME NEW w, NEW v, Built(w), Leaves(w, v), v.candidate = w.candidate,
           v.completion = w.completion
    PROVE  Built(v)
  BY Zenon DEF Leaves, Built, GitDone

\* What a decision was taken on is told by these fields.
LEMMA SameDecided ==
    ASSUME NEW w, NEW v, v.dispatch = w.dispatch, v.candidate = w.candidate,
           v.completion = w.completion, v.acceptance = w.acceptance,
           v.reviews = w.reviews, v.approval = w.approval, v.decision = w.decision
    PROVE  Decided(v) <=> Decided(w)
  <1>1. requires_candidate_completion(v) <=> requires_candidate_completion(w)
    BY Zenon DEF requires_candidate_completion, governed_atomic_sealed_v3, governed_sealed,
       supports_sealed_action_evidence, governed, requires_activity_claim_result
  <1>2. \A refs : review_refs_are_approved(v, refs) <=> review_refs_are_approved(w, refs)
    <2>1. \A r : VerdictVersionOk(v, r) <=> VerdictVersionOk(w, r)
      BY Zenon DEF VerdictVersionOk
    <2>2. ASSUME NEW refs, review_refs_are_approved(v, refs)
          PROVE  review_refs_are_approved(w, refs)
      BY Zenon, <2>1, <2>2 DEF review_refs_are_approved
    <2>3. ASSUME NEW refs, review_refs_are_approved(w, refs)
          PROVE  review_refs_are_approved(v, refs)
      BY Zenon, <2>1, <2>3 DEF review_refs_are_approved
    <2> QED BY Zenon, <2>2, <2>3
  <1> QED BY Zenon, <1>1, <1>2 DEF Decided, candidate_completed

\* CreateCandidate, of both candidate handlers.
LEMMA CreateGood ==
    ASSUME NEW w, Local(w), NEW digest, w.candidate = none, w.phase = "Dispatched"
    PROVE  Good(w, [w EXCEPT !.candidate = digest, !.phase = "CandidateCreated"])
  <1> DEFINE v == [w EXCEPT !.candidate = digest, !.phase = "CandidateCreated"]
  <1>1. Same(w, v, {"candidate", "phase"}) /\ v.phase = "CandidateCreated"
    BY Zenon DEF Local, Shaped, WorkflowFields, Same
  <1> HIDE DEF v
  <1>2. Leaves(w, v)
    BY <1>1 DEF Same, Leaves, WorkflowFields, Local, Shaped
  <1>3. Built(v)
    BY <1>1, <1>2 DEF Same, WorkflowFields, Local, Built, Leaves
  <1>4. Standing(v)
    BY <1>1 DEF Same, WorkflowFields, Local, Standing, Undecided, OnTheWay, Promoting
  <1> QED BY Zenon, <1>1, <1>2, <1>3, <1>4, FlowGood DEF Same, WorkflowFields, Records, is_terminal, v

\* apply_candidate_completion_recorded
LEMMA CompletionGood ==
    ASSUME NEW w, Local(w), NEW a, w.phase = "CandidateCreated", w.candidate # none,
           candidate_create_action_matches(w, a)
    PROVE  Good(w, [w EXCEPT !.completion = TRUE])
  <1> DEFINE v == [w EXCEPT !.completion = TRUE]
  <1>1. Same(w, v, {"completion"}) /\ v.completion
    BY Zenon DEF Local, Shaped, WorkflowFields, Same
  <1> HIDE DEF v
  <1>2. Leaves(w, v) /\ v.candidate = w.candidate
    BY <1>1 DEF Same, Leaves, WorkflowFields, Local, Shaped
  <1>3. Built(v)
    BY Zenon, <1>1, <1>2 DEF Built, GitDone, Leaves, candidate_create_action_matches
  <1>4. Standing(v)
    BY <1>1 DEF Same, WorkflowFields, Local, Standing, Undecided, OnTheWay, Promoting
  <1> QED BY Zenon, <1>1, <1>2, <1>3, <1>4, FlowGood DEF Same, WorkflowFields, Records, is_terminal, v

\* apply_candidate_acceptance_recorded
LEMMA AcceptanceGood ==
    ASSUME NEW w, Local(w), NEW outcome, NEW phase \in {"AcceptancePassed", "Rejected"},
           w.acceptance = none, w.phase = "CandidateCreated"
    PROVE  Good(w, [w EXCEPT !.acceptance = outcome, !.phase = phase])
  <1> DEFINE v == [w EXCEPT !.acceptance = outcome, !.phase = phase]
  <1>1. Same(w, v, {"acceptance", "phase"}) /\ v.phase = phase
    BY Zenon DEF Local, Shaped, WorkflowFields, Same
  <1> HIDE DEF v
  <1>2. Leaves(w, v)
    BY <1>1 DEF Same, Leaves, WorkflowFields, Local, Shaped
  <1>3. Built(v)
    BY <1>1, <1>2, LeavesBuilt DEF Same, WorkflowFields, Local
  <1>4. Standing(v)
    BY <1>1 DEF Same, WorkflowFields, Local, Standing, Undecided, OnTheWay, Promoting
  <1> QED BY Zenon, <1>1, <1>2, <1>3, <1>4, FlowGood DEF Same, WorkflowFields, Records, is_terminal, v

\* RecordReview, of both verdict handlers.
LEMMA ReviewGood ==
    ASSUME NEW w, Local(w), NEW review, NEW phase \in {"ReviewApproved", "Rejected"},
           w.phase \in {"AcceptancePassed", "ReviewApproved"}
    PROVE  Good(w, [w EXCEPT !.reviews = @ \cup {review}, !.phase = phase])
  <1> DEFINE v == [w EXCEPT !.reviews = @ \cup {review}, !.phase = phase]
  <1>1. Same(w, v, {"reviews", "phase"}) /\ v.phase = phase /\ v.reviews = w.reviews \cup {review}
    BY Zenon DEF Local, Shaped, WorkflowFields, Same
  <1> HIDE DEF v
  <1>2. Leaves(w, v)
    BY <1>1 DEF Same, Leaves, WorkflowFields, Local, Shaped
  <1>3. Built(v)
    BY <1>1, <1>2, LeavesBuilt DEF Same, WorkflowFields, Local
  <1>4. Standing(v)
    BY <1>1 DEF Same, WorkflowFields, Local, Standing, Undecided, OnTheWay, Promoting
  <1> QED BY Zenon, <1>1, <1>2, <1>3, <1>4, FlowGood DEF Same, WorkflowFields, Records, is_terminal, v

\* apply_promotion_approval_requested
LEMMA ApprovalGood ==
    ASSUME NEW w, Local(w), NEW refs, w.approval = none, w.phase = "ReviewApproved"
    PROVE  Good(w, [w EXCEPT !.approval = refs, !.phase = "PromotionApprovalPending"])
  <1> DEFINE v == [w EXCEPT !.approval = refs, !.phase = "PromotionApprovalPending"]
  <1>1. Same(w, v, {"approval", "phase"}) /\ v.phase = "PromotionApprovalPending"
    BY Zenon DEF Local, Shaped, WorkflowFields, Same
  <1> HIDE DEF v
  <1>2. Leaves(w, v)
    BY <1>1 DEF Same, Leaves, WorkflowFields, Local, Shaped
  <1>3. Built(v)
    BY <1>1, <1>2, LeavesBuilt DEF Same, WorkflowFields, Local
  <1>4. Standing(v)
    BY <1>1 DEF Same, WorkflowFields, Local, Standing, Undecided, OnTheWay, Promoting
  <1> QED BY Zenon, <1>1, <1>2, <1>3, <1>4, FlowGood DEF Same, WorkflowFields, Records, is_terminal, v

\* apply_promotion_decision
LEMMA DecisionGood ==
    ASSUME NEW w, Local(w), NEW kind, NEW refs, NEW bound, NEW target,
           NEW phase, phase = IF kind = "Promote" THEN "PromotionPending" ELSE "Rejected",
           [kind |-> kind, refs |-> refs, target |-> target] # none,
           ~is_terminal(w.phase), w.cancellation = none, w.candidate # none,
           candidate_completed(w), requires_candidate_completion(w) => target,
           w.decision = none, promotion_decision_binds_approval_request(w, refs, bound),
           promotion_decision_eligible(w, kind, refs)
    PROVE  Good(w, [w EXCEPT !.decision = [kind |-> kind, refs |-> refs, target |-> target],
                             !.phase = phase])
  <1> DEFINE d == [kind |-> kind, refs |-> refs, target |-> target]
             v == [w EXCEPT !.decision = d, !.phase = phase]
  <1>0. d.kind = kind /\ d.refs = refs /\ d.target = target /\ d # none
    OBVIOUS
  <1> HIDE DEF d
  <1>1. Same(w, v, {"decision", "phase"}) /\ v.decision = d /\ v.phase = phase
    BY Zenon DEF Local, Shaped, WorkflowFields, Same
  <1> HIDE DEF v
  <1>2. Leaves(w, v)
    BY <1>1 DEF Same, Leaves, WorkflowFields, Local, Shaped
  <1>3. Built(v)
    BY <1>1, <1>2, LeavesBuilt DEF Same, WorkflowFields, Local
  <1>4. /\ v.candidate = w.candidate /\ v.completion = w.completion /\ v.dispatch = w.dispatch
        /\ v.acceptance = w.acceptance /\ v.reviews = w.reviews /\ v.approval = w.approval
        /\ v.result = w.result /\ v.resolution = w.resolution /\ v.terminal = w.terminal
        /\ v.cancellation = w.cancellation
    BY <1>1 DEF Same, WorkflowFields
  <1>5. requires_candidate_completion(v) = requires_candidate_completion(w)
    BY Zenon, <1>4 DEF requires_candidate_completion, governed_atomic_sealed_v3, governed_sealed,
       supports_sealed_action_evidence, governed, requires_activity_claim_result
  <1>6. Undecided(w)
    BY Zenon DEF Local, Standing
  <1>7. kind = "Promote" => review_refs_are_approved(v, refs)
    BY Zenon, <1>4 DEF review_refs_are_approved, VerdictVersionOk, promotion_decision_eligible
  <1>8. kind \in {"Promote", "Reject"} /\ (kind = "Promote" => w.acceptance = "Passed")
    BY Zenon DEF promotion_decision_eligible
  <1>9. w.approval # none => refs = w.approval
    BY Zenon DEF promotion_decision_binds_approval_request
  <1>10. Decided(v)
    BY Zenon, <1>0, <1>1, <1>4, <1>5, <1>7, <1>8, <1>9 DEF Decided, candidate_completed
  <1>11. v.result = none /\ v.resolution = none /\ v.terminal = none
    BY <1>4, <1>6 DEF Undecided, is_terminal
  <1>12. Standing(v)
    BY Zenon, <1>0, <1>1, <1>4, <1>8, <1>10, <1>11 DEF Standing, OnTheWay
  <1>13. phase # "Cancelled" /\ \A f \in Records : w[f] # none => v[f] = w[f]
    BY <1>4 DEF Records
  <1> QED BY Zenon, <1>1, <1>2, <1>3, <1>4, <1>12, <1>13, FlowGood DEF v, d

\* apply_promotion_execution_claimed
LEMMA ClaimGood ==
    ASSUME NEW w, Local(w), w.decision # none
    PROVE  Good(w, [w EXCEPT !.claim = TRUE])
  <1> DEFINE v == [w EXCEPT !.claim = TRUE]
  <1>1. Same(w, v, {"claim"})
    BY Zenon DEF Local, Shaped, WorkflowFields, Same
  <1> HIDE DEF v
  <1>2. Leaves(w, v)
    BY <1>1 DEF Same, Leaves, WorkflowFields, Local, Shaped
  <1>3. Built(v)
    BY <1>1, <1>2, LeavesBuilt DEF Same, WorkflowFields, Local
  <1>4. Standing(v)
    <2>1. (Decided(v) <=> Decided(w)) /\ (OnTheWay(v) <=> OnTheWay(w))
      BY <1>1, SameDecided DEF Same, WorkflowFields, OnTheWay
    <2> QED BY <1>1, <2>1 DEF Same, WorkflowFields, Local, Standing, Undecided
  <1> QED BY Zenon, <1>1, <1>2, <1>3, <1>4, FlowGood DEF Same, WorkflowFields, Records, is_terminal, v

\* apply_promotion_result
LEMMA ResultGood ==
    ASSUME NEW w, Local(w), NEW outcome, NEW sync,
           [outcome |-> outcome, sync |-> sync] # none,
           NEW phase, phase = CASE outcome = "Promoted" -> "Promoted"
                                [] outcome = "Rejected" -> "Rejected"
                                [] OTHER -> "PromotionReconciliationRequired",
           w.decision # none, w.result = none, w.terminal = none,
           promotion_result_is_semantically_valid(w.decision, outcome, sync)
    PROVE  Good(w, [w EXCEPT !.result = [outcome |-> outcome, sync |-> sync], !.phase = phase])
  <1> DEFINE r == [outcome |-> outcome, sync |-> sync]
             v == [w EXCEPT !.result = r, !.phase = phase]
  <1>0. r.outcome = outcome /\ r.sync = sync /\ r # none
    OBVIOUS
  <1> HIDE DEF r
  <1>1. Same(w, v, {"result", "phase"}) /\ v.result = r /\ v.phase = phase
    BY Zenon DEF Local, Shaped, WorkflowFields, Same
  <1> HIDE DEF v
  <1>12. Plain(v)
    BY <1>0, <1>1 DEF Plain, promotion_result_is_semantically_valid
  <1>2. Leaves(w, v)
    BY <1>1, <1>12 DEF Same, Leaves, WorkflowFields, Local, Shaped
  <1>3. Built(v)
    BY <1>1, <1>2, LeavesBuilt DEF Same, WorkflowFields, Local
  <1>4. /\ v.decision = w.decision /\ v.resolution = w.resolution /\ v.terminal = w.terminal
        /\ v.cancellation = w.cancellation
    BY <1>1 DEF Same, WorkflowFields
  <1>5. (Decided(v) <=> Decided(w))
    BY <1>1, SameDecided DEF Same, WorkflowFields
  <1>6. /\ outcome \in {"Promoted", "Rejected", "ReconciliationRequired"}
        /\ w.decision.kind # "Promote" => outcome = "Rejected"
    BY Zenon DEF promotion_result_is_semantically_valid
  <1>7. /\ Decided(w) /\ w.cancellation = none /\ w.resolution = none
        /\ \/ w.decision.kind = "Reject" /\ w.phase = "Rejected"
           \/ w.decision.kind = "Promote" /\ w.phase = "PromotionPending"
    BY Zenon DEF Local, Standing, Undecided, OnTheWay
  <1>8. Standing(v)
    BY <1>0, <1>1, <1>4, <1>5, <1>6, <1>7 DEF Standing, OnTheWay
  <1>9. is_terminal(w.phase) => v.phase = w.phase
    BY <1>1, <1>6, <1>7 DEF is_terminal
  <1>10. \A f \in Records : w[f] # none => v[f] = w[f]
    BY <1>1 DEF Same, WorkflowFields, Records
  <1>11. phase # "Cancelled" /\ v.reviews = w.reviews
    BY <1>1, <1>6 DEF Same, WorkflowFields
  <1> QED BY Zenon, <1>1, <1>2, <1>3, <1>8, <1>9, <1>10, <1>11, FlowGood DEF v, r

\* apply_promotion_reconciliation_resolved
LEMMA ResolutionGood ==
    ASSUME NEW w, Local(w), NEW outcome, outcome # none,
           w.decision # none, w.resolution = none, w.terminal = none, w.result # none,
           w.result.outcome = "ReconciliationRequired",
           w.phase = "PromotionReconciliationRequired"
    PROVE  Good(w, [w EXCEPT !.resolution = outcome, !.phase = "PromotionReconciliationResolved"])
  <1> DEFINE v == [w EXCEPT !.resolution = outcome, !.phase = "PromotionReconciliationResolved"]
  <1>1. /\ Same(w, v, {"resolution", "phase"})
        /\ v.resolution = outcome /\ v.phase = "PromotionReconciliationResolved"
    BY Zenon DEF Local, Shaped, WorkflowFields, Same
  <1> HIDE DEF v
  <1>2. Leaves(w, v)
    BY <1>1 DEF Same, Leaves, WorkflowFields, Local, Shaped
  <1>3. Built(v)
    BY <1>1, <1>2, LeavesBuilt DEF Same, WorkflowFields, Local
  <1>4. (Decided(v) <=> Decided(w))
    BY <1>1, SameDecided DEF Same, WorkflowFields
  <1>5. Decided(w) /\ w.cancellation = none /\ w.decision.kind = "Promote"
    BY Zenon DEF Local, Standing, Undecided
  <1>6. Standing(v)
    BY <1>1, <1>4, <1>5 DEF Same, WorkflowFields, Standing, OnTheWay
  <1> QED BY Zenon, <1>1, <1>2, <1>3, <1>6, FlowGood DEF Same, WorkflowFields, Records, is_terminal, v

\* An event that only fills one of these fields moves no workflow.
LEMMA SameStanding ==
    ASSUME NEW w, NEW v, Standing(w),
           Same(w, v, {"actions"}) \/ Same(w, v, {"sealed"})
               \/ Same(w, v, {"admission"}) \/ Same(w, v, {"timers"})
    PROVE  Standing(v)
  <1>1. /\ v.dispatch = w.dispatch /\ v.candidate = w.candidate /\ v.completion = w.completion
        /\ v.acceptance = w.acceptance /\ v.reviews = w.reviews /\ v.approval = w.approval
        /\ v.decision = w.decision /\ v.result = w.result /\ v.resolution = w.resolution
        /\ v.terminal = w.terminal /\ v.cancellation = w.cancellation /\ v.claim = w.claim
        /\ v.phase = w.phase
    BY DEF Same, WorkflowFields
  <1>2. Decided(v) <=> Decided(w)
    BY Zenon, <1>1, SameDecided
  <1> QED BY <1>1, <1>2 DEF Standing, Undecided, OnTheWay

\* apply_governed_dispatch_v5_admission and the two timer handlers.
LEMMA AsideGood ==
    ASSUME NEW w, Local(w), NEW v, Same(w, v, {"admission"}) \/ Same(w, v, {"timers"}),
           w.admission => v.admission
    PROVE  Good(w, v)
  <1>1. Leaves(w, v) /\ v.candidate = w.candidate /\ v.completion = w.completion
    BY DEF Same, Leaves, WorkflowFields, Local, Shaped
  <1>2. Built(v) /\ Standing(v)
    BY Zenon, <1>1, LeavesBuilt, SameStanding DEF Local
  <1>3. v.phase = w.phase /\ v.cancellation = w.cancellation /\ v.reviews = w.reviews
    BY DEF Same, WorkflowFields
  <1>4. \A f \in Records : v[f] = w[f]
    BY DEF Same, WorkflowFields, Records
  <1> QED BY Zenon, <1>1, <1>2, <1>3, <1>4, FlowGood

\* apply_workflow_cancellation_requested
LEMMA CancellationGood ==
    ASSUME NEW w, Local(w), NEW cause, workflow_lifecycle_control_is_allowed(w)
    PROVE  Good(w, [w EXCEPT !.cancellation = cause, !.phase = "CancellationRequested"])
  <1> DEFINE v == [w EXCEPT !.cancellation = cause, !.phase = "CancellationRequested"]
  <1>1. Same(w, v, {"cancellation", "phase"}) /\ v.phase = "CancellationRequested"
    BY Zenon DEF Local, Shaped, WorkflowFields, Same
  <1> HIDE DEF v
  <1>2. Leaves(w, v)
    BY <1>1 DEF Same, Leaves, WorkflowFields, Local, Shaped
  <1>3. Built(v)
    BY <1>1, <1>2, LeavesBuilt DEF Same, WorkflowFields, Local
  <1>4. Standing(v)
    <2>1. Undecided(w) /\ w.approval = none /\ w.terminal = none
      BY DEF Local, Standing, Undecided, OnTheWay, is_terminal,
             workflow_lifecycle_control_is_allowed
    <2> QED BY <1>1, <2>1 DEF Same, WorkflowFields, Standing, Undecided, Promoting
  <1> QED BY Zenon, <1>1, <1>2, <1>3, <1>4, FlowGood
          DEF Same, WorkflowFields, Records, workflow_lifecycle_control_is_allowed, v

\* apply_workflow_terminal: the effects a cancellation closes over are known,
\* and every other terminal belongs to the station the workflow is at.
LEMMA TerminalGood ==
    ASSUME NEW w, Local(w), NEW version, NEW outcome, ~is_terminal(w.phase),
           w.terminal = none, workflow_terminal_is_semantically_valid(w, version, outcome)
    PROVE  Good(w, [w EXCEPT !.terminal = outcome, !.phase = outcome])
  <1> DEFINE v == [w EXCEPT !.terminal = outcome, !.phase = outcome]
  <1>1. Same(w, v, {"terminal", "phase"}) /\ v.phase = outcome /\ v.terminal = outcome
    BY Zenon DEF Local, Shaped, WorkflowFields, Same
  <1> HIDE DEF v
  <1>2. Leaves(w, v)
    BY <1>1 DEF Same, Leaves, WorkflowFields, Local, Shaped
  <1>3. Built(v)
    BY <1>1, <1>2, LeavesBuilt DEF Same, WorkflowFields, Local
  <1>4. /\ v.approval = w.approval /\ v.decision = w.decision /\ v.result = w.result
        /\ v.resolution = w.resolution /\ v.cancellation = w.cancellation /\ v.claim = w.claim
        /\ v.reviews = w.reviews /\ v.dispatch = w.dispatch
    BY <1>1 DEF Same, WorkflowFields
  <1>5. Decided(v) <=> Decided(w)
    BY <1>1, SameDecided DEF Same, WorkflowFields
  <1>6. \A f \in Records : w[f] # none => v[f] = w[f]
    BY <1>1 DEF Same, WorkflowFields, Records
  <1>7. CASE version = 2 /\ outcome = "Cancelled"
    <2>1. /\ w.phase = "CancellationRequested" /\ w.cancellation # none
          /\ cancellation_effects_are_reconciled(w)
      BY Zenon, <1>7 DEF workflow_terminal_is_semantically_valid
    <2>2. Standing(v)
      BY <1>1, <1>4, <1>7, <2>1 DEF Local, Standing, Undecided, OnTheWay, Promoting
    <2>3. Deeds(v)
      <3>1. v.actions = w.actions /\ v.sealed = w.sealed
        BY Zenon, <1>2 DEF Leaves
      <3>2. requires_activity_claim_result(v) <=> requires_activity_claim_result(w)
        BY Zenon, <1>4 DEF requires_activity_claim_result
      <3>3. ASSUME NEW a \in DOMAIN w.actions PROVE Deed(v, w.actions[a])
        <4>1. Deed(w, w.actions[a])
          BY Zenon DEF Local, Deeds
        <4>2. w.actions[a].claimed =>
                  w.actions[a].result \in {"Succeeded", "Failed"} /\ w.actions[a].receipt # none
          BY Zenon, <2>1, <4>1 DEF Deed, cancellation_effects_are_reconciled
        <4> QED BY Zenon, <3>1, <3>2, <4>1, <4>2 DEF Deed
      <3> QED BY Zenon, <3>1, <3>3 DEF Deeds
    <2>4. Shaped(v)
      BY Zenon, <1>2 DEF Local, Shaped, Leaves
    <2>5. Kept(w, v)
      BY Zenon, <1>2, <1>4, <1>6 DEF Leaves, Kept, KeptAction
    <2> QED BY Zenon, <1>3, <1>4, <2>2, <2>3, <2>4, <2>5 DEF Good, Local, Plain, v
  <1>8. CASE ~(version = 2 /\ outcome = "Cancelled")
    <2>1. w.cancellation = none
      BY Zenon, <1>8 DEF workflow_terminal_is_semantically_valid
    <2>2. CASE w.resolution # none
      <3>1. w.phase = "PromotionReconciliationResolved" /\ outcome \in {"Failed", "Cancelled"}
        BY <1>8, <2>2 DEF workflow_terminal_is_semantically_valid
      <3>2. Standing(v)
        BY <1>1, <1>4, <1>5, <2>1, <2>2, <3>1
           DEF Local, Standing, Undecided, OnTheWay, Promoting
      <3> QED BY Zenon, <1>1, <1>2, <1>3, <1>4, <1>6, <2>1, <3>2, FlowGood DEF v
    <2>3. CASE w.resolution = none
      <3>1. /\ w.result # none => w.result.outcome # "ReconciliationRequired"
            /\ \/ outcome = "Completed" /\ w.phase = "Promoted"
               \/ outcome \in {"Failed", "Cancelled"} /\ promotion_effect_settled(w)
        BY Zenon, <1>8, <2>3 DEF workflow_terminal_is_semantically_valid
      <3>2. Standing(v)
        <4>1. CASE Undecided(w)
          BY <1>1, <1>4, <2>1, <3>1, <4>1 DEF Standing, Undecided, Promoting
        <4>2. CASE ~Undecided(w)
          <5>1. /\ w.decision # none /\ Decided(w)
                /\ w.decision.kind = "Promote" /\ OnTheWay(w)
            BY Zenon, <4>2 DEF Local, Standing, is_terminal
          <5> QED BY <1>1, <1>4, <1>5, <2>1, <2>3, <3>1, <5>1
                  DEF Standing, OnTheWay, promotion_effect_settled, is_terminal
        <4> QED BY <4>1, <4>2
      <3> QED BY Zenon, <1>1, <1>2, <1>3, <1>4, <1>6, <2>1, <3>2, FlowGood DEF v
    <2> QED BY <2>2, <2>3
  <1> QED BY <1>7, <1>8

\* apply_action_receipt_set_recorded: what is sealed in ended well.
LEMMA SealGood ==
    ASSUME NEW w, Local(w), evidence_closed(w)
    PROVE  Good(w, [w EXCEPT !.sealed = TRUE])
  <1> DEFINE v == [w EXCEPT !.sealed = TRUE]
  <1>1. Same(w, v, {"sealed"}) /\ v.sealed
    BY Zenon DEF Local, Shaped, WorkflowFields, Same
  <1> HIDE DEF v
  <1>2. /\ DOMAIN v = WorkflowFields /\ v.actions = w.actions /\ v.dispatch = w.dispatch
        /\ v.retry = w.retry /\ v.reviews = w.reviews /\ v.phase = w.phase
        /\ v.candidate = w.candidate /\ v.completion = w.completion
        /\ v.cancellation = w.cancellation /\ v.result = w.result /\ v.admission = w.admission
    BY <1>1 DEF Same, WorkflowFields, Local, Shaped
  <1>3. Shaped(v) /\ Built(v) /\ Standing(v)
    BY Zenon, <1>1, <1>2, SameStanding DEF Local, Shaped, Built, GitDone
  <1>4. Deeds(v)
    <2>1. requires_activity_claim_result(v) <=> requires_activity_claim_result(w)
      BY Zenon, <1>2 DEF requires_activity_claim_result
    <2>2. ASSUME NEW a \in DOMAIN w.actions PROVE Deed(v, w.actions[a])
      <3>1. Deed(w, w.actions[a])
        BY Zenon DEF Local, Deeds
      <3>2. a \notin unknown_action_ids(w) /\ a \notin pending_action_ids(w)
        BY Zenon DEF evidence_closed
      <3>3. w.actions[a].result # "Unknown"
        BY Zenon, <3>2 DEF unknown_action_ids
      <3>4. CASE requires_activity_claim_result(w)
        <4>1. w.actions[a].result # none /\ a \notin failed_action_ids(w)
          BY Zenon, <3>4 DEF evidence_closed
        <4>2. w.actions[a].result # "Failed"
          BY Zenon, <3>2, <3>4, <4>1 DEF failed_action_ids
        <4>3. w.actions[a].receipt # none
          BY Zenon, <3>2, <4>1 DEF pending_action_ids
        <4> QED BY Zenon, <1>2, <2>1, <3>1, <3>3, <3>4, <4>1, <4>2, <4>3 DEF Deed
      <3>5. CASE ~requires_activity_claim_result(w)
        <4>1. a \notin failed_action_ids(w)
          BY Zenon, <3>5 DEF failed_action_ids
        <4>2. w.actions[a].receipt # none
          BY Zenon, <3>2, <4>1 DEF pending_action_ids
        <4> QED BY Zenon, <1>2, <2>1, <3>1, <3>5, <4>2 DEF Deed
      <3> QED BY <3>4, <3>5
    <2> QED BY Zenon, <1>2, <2>2 DEF Deeds
  <1>5. \A f \in Records : v[f] = w[f]
    BY <1>1 DEF Same, WorkflowFields, Records
  <1>6. Kept(w, v)
    BY Zenon, <1>1, <1>2, <1>5 DEF Kept, KeptAction
  <1>7. Plain(v)
    BY Zenon, <1>2 DEF Local, Plain
  <1> QED BY Zenon, <1>3, <1>4, <1>6, <1>7 DEF Good, Local, v

\* An action is replaced by x (SetAction), in a set that is not yet sealed.
LEMMA ActionGood ==
    ASSUME NEW w, Local(w), NEW v, Same(w, v, {"actions"}), ~w.sealed,
           NEW a \in DOMAIN w.actions, NEW x, v.actions = [w.actions EXCEPT ![a] = x],
           DOMAIN x = ActionFields, Deed(w, x), KeptAction(w.actions[a], x)
    PROVE  Good(w, v)
  <1>1. /\ DOMAIN v = WorkflowFields /\ v.sealed = w.sealed /\ v.dispatch = w.dispatch
        /\ v.retry = w.retry /\ v.reviews = w.reviews /\ v.phase = w.phase
        /\ v.completion = w.completion /\ v.cancellation = w.cancellation
        /\ v.result = w.result /\ v.admission = w.admission
    BY DEF Same, WorkflowFields, Local, Shaped
  <1>2. /\ DOMAIN v.actions = DOMAIN w.actions /\ v.actions[a] = x
        /\ \A b \in DOMAIN w.actions : b # a => v.actions[b] = w.actions[b]
    BY Zenon
  <1>3. Shaped(v) /\ Built(v) /\ Standing(v)
    BY Zenon, <1>1, <1>2, SameStanding DEF Local, Shaped, Built
  <1>4. Deeds(v)
    <2>1. requires_activity_claim_result(v) <=> requires_activity_claim_result(w)
      BY Zenon, <1>1 DEF requires_activity_claim_result
    <2>2. ASSUME NEW y, Deed(w, y) PROVE Deed(v, y)
      BY Zenon, <1>1, <2>1, <2>2 DEF Deed
    <2> QED BY Zenon, <1>2, <2>2 DEF Local, Deeds
  <1>5. \A f \in Records : v[f] = w[f]
    BY DEF Same, WorkflowFields, Records
  <1>6. Kept(w, v)
    <2>1. ASSUME NEW b \in DOMAIN w.actions PROVE KeptAction(w.actions[b], v.actions[b])
      BY Zenon, <1>2 DEF KeptAction
    <2> QED BY Zenon, <1>1, <1>2, <1>5, <2>1 DEF Kept
  <1>7. Plain(v)
    BY Zenon, <1>1 DEF Local, Plain
  <1> QED BY Zenon, <1>3, <1>4, <1>6, <1>7 DEF Good, Local

\* apply_action_requested
LEMMA RequestGood ==
    ASSUME NEW w, Local(w), NEW r, EffectsOpen(w), r.id \notin DOMAIN w.actions
    PROVE  Good(w, [w EXCEPT !.actions = Put(@, r.id, NewAction(r))])
  <1> DEFINE v == [w EXCEPT !.actions = Put(@, r.id, NewAction(r))]
             x == NewAction(r)
  <1>1. Same(w, v, {"actions"}) /\ v.actions = Put(w.actions, r.id, x)
    BY Zenon DEF Local, Shaped, WorkflowFields, Same
  <1>2. /\ DOMAIN x = ActionFields /\ x.result = none /\ x.receipt = none /\ x.claimed = FALSE
    BY DEF NewAction, ActionFields
  <1> HIDE DEF v, x
  <1>3. /\ DOMAIN v.actions = DOMAIN w.actions \cup {r.id} /\ v.actions[r.id] = x
        /\ \A b \in DOMAIN w.actions : v.actions[b] = w.actions[b]
    BY Zenon, <1>1 DEF Put
  <1>4. /\ DOMAIN v = WorkflowFields /\ v.sealed = w.sealed /\ v.dispatch = w.dispatch
        /\ v.retry = w.retry /\ v.reviews = w.reviews /\ v.phase = w.phase
        /\ v.completion = w.completion /\ v.cancellation = w.cancellation
        /\ v.result = w.result /\ v.admission = w.admission
    BY <1>1 DEF Same, WorkflowFields, Local, Shaped
  <1>5. ~w.sealed /\ ~is_terminal(w.phase)
    BY DEF EffectsOpen, is_terminal
  <1>6. Shaped(v) /\ Built(v) /\ Standing(v)
    BY Zenon, <1>1, <1>2, <1>3, <1>4, <1>5, SameStanding DEF Local, Shaped, Built
  <1>7. Deeds(v)
    <2>1. requires_activity_claim_result(v) <=> requires_activity_claim_result(w)
      BY Zenon, <1>4 DEF requires_activity_claim_result
    <2>2. ASSUME NEW y, Deed(w, y) PROVE Deed(v, y)
      BY Zenon, <1>4, <2>1, <2>2 DEF Deed
    <2>3. "Succeeded" # none /\ "Unknown" # none
      BY ScenarioAssumption
    <2>4. Deed(w, x)
      BY Zenon, <1>2, <1>5, <2>3 DEF Deed
    <2> QED BY Zenon, <1>3, <2>2, <2>4 DEF Local, Deeds
  <1>8. \A f \in Records : v[f] = w[f]
    BY <1>1 DEF Same, WorkflowFields, Records
  <1>9. Kept(w, v)
    BY Zenon, <1>3, <1>4, <1>5, <1>8 DEF Kept, KeptAction
  <1>10. Plain(v)
    BY Zenon, <1>4 DEF Local, Plain
  <1> QED BY Zenon, <1>6, <1>7, <1>9, <1>10 DEF Good, Local, v

-----------------------------------------------------------------------------
(* One event *)

\* The event changes one workflow, and leaves it sound.
Advances(k) ==
    Changes(k, wf'[k]) /\ Good(wf[k], wf'[k]) /\ UNCHANGED dispatchVars

\* From the record a handler stores to the step it takes.
LEMMA SetAdvances ==
    ASSUME NEW k \in DOMAIN wf, NEW v, Set(k, v), Good(wf[k], v)
    PROVE  Advances(k)
  BY Zenon, EditFacts DEF Set, Advances, Changes

\* SetAction
LEMMA SetActionFacts ==
    ASSUME NEW k \in DOMAIN wf, Local(wf[k]), NEW a \in DOMAIN wf[k].actions, NEW x,
           SetAction(k, a, x)
    PROVE  /\ Changes(k, wf'[k]) /\ Same(wf[k], wf'[k], {"actions"})
           /\ wf'[k].actions = [wf[k].actions EXCEPT ![a] = x]
  <1>1. wf' = [wf EXCEPT ![k].actions[a] = x]
    BY Zenon DEF SetAction
  <1>2. wf'[k] = [wf[k] EXCEPT !.actions[a] = x]
    BY Zenon, <1>1
  <1> QED BY Zenon, <1>1, <1>2 DEF Changes, Same, Local, Shaped, WorkflowFields

\* A replaced action leaves the workflow sound.
LEMMA SetActionAdvances ==
    ASSUME NEW k \in DOMAIN wf, Local(wf[k]), NEW a \in DOMAIN wf[k].actions, NEW x,
           SetAction(k, a, x), UNCHANGED dispatchVars,
           ~wf[k].sealed, DOMAIN x = ActionFields, Deed(wf[k], x),
           KeptAction(wf[k].actions[a], x)
    PROVE  Advances(k)
  <1>1. /\ Changes(k, wf'[k]) /\ Same(wf[k], wf'[k], {"actions"})
        /\ wf'[k].actions = [wf[k].actions EXCEPT ![a] = x]
    BY Zenon, SetActionFacts
  <1>2. Good(wf[k], wf'[k])
    BY <1>1, ActionGood
  <1> QED BY Zenon, <1>1, <1>2 DEF Advances

\* The handlers of model authority fill a field no rule on outcomes reads.
LEMMA AuthorityAdvances ==
    ASSUME NEW k \in DOMAIN wf, Local(wf[k]), NEW a, NEW target,
           \/ apply_model_action_intent(k, a, target)
           \/ apply_model_action_authorized_v1(k, a)
           \/ apply_model_action_authorized_v2(k, a)
    PROVE  Advances(k)
  <1>1. a \in DOMAIN wf[k].actions /\ ~wf[k].sealed /\ UNCHANGED dispatchVars
    BY Zenon DEF apply_model_action_intent, apply_model_action_authorized_v1,
       apply_model_action_authorized_v2, HasAction, EffectsOpen
  <1> DEFINE x == wf[k].actions[a]
  <1>2. DOMAIN x = ActionFields /\ Deed(wf[k], x)
    BY Zenon, <1>1 DEF Local, Shaped, Deeds
  <1> DEFINE Fills(y) == /\ DOMAIN y = ActionFields /\ y.idem = x.idem /\ y.result = x.result
                         /\ y.receipt = x.receipt /\ y.claimed = x.claimed
                         /\ KeptAction(x, y)
  <1>3. PICK y : SetAction(k, a, y) /\ Fills(y)
    <2>1. CASE apply_model_action_intent(k, a, target)
      <3>1. SetAction(k, a, [x EXCEPT !.intent = target])
        BY Zenon, <2>1 DEF apply_model_action_intent
      <3>3. x.intent = none
        BY Zenon, <2>1 DEF apply_model_action_intent
      <3>2. Fills([x EXCEPT !.intent = target])
        BY Zenon, <1>2, <3>3 DEF ActionFields, KeptAction
      <3> QED BY Zenon, <3>1, <3>2
    <2>2. CASE apply_model_action_authorized_v1(k, a)
      <3>1. SetAction(k, a, [x EXCEPT !.auth = "v1"])
        BY Zenon, <2>2 DEF apply_model_action_authorized_v1
      <3>3. x.auth = none
        BY Zenon, <2>2 DEF apply_model_action_authorized_v1
      <3>2. Fills([x EXCEPT !.auth = "v1"])
        BY Zenon, <1>2, <3>3 DEF ActionFields, KeptAction
      <3> QED BY Zenon, <3>1, <3>2
    <2>3. CASE apply_model_action_authorized_v2(k, a)
      <3>1. SetAction(k, a, [x EXCEPT !.auth = "v2"])
        BY Zenon, <2>3 DEF apply_model_action_authorized_v2
      <3>3. x.auth = none
        BY Zenon, <2>3 DEF apply_model_action_authorized_v2
      <3>2. Fills([x EXCEPT !.auth = "v2"])
        BY Zenon, <1>2, <3>3 DEF ActionFields, KeptAction
      <3> QED BY Zenon, <3>1, <3>2
    <2> QED BY Zenon, <2>1, <2>2, <2>3
  <1>4. Deed(wf[k], y)
    BY Zenon, <1>2, <1>3 DEF Deed
  <1> QED BY Zenon, <1>1, <1>3, <1>4, SetActionAdvances

\* apply_activity_claimed: only an effect without a receipt is claimed, and
\* only while the workflow is dispatched.
LEMMA ClaimedAdvances ==
    ASSUME NEW k \in DOMAIN wf, Local(wf[k]), NEW a, apply_activity_claimed(k, a)
    PROVE  Advances(k)
  <1> DEFINE x == wf[k].actions[a]
             y == [x EXCEPT !.claimed = TRUE]
  <1>1. /\ a \in DOMAIN wf[k].actions /\ ~wf[k].sealed /\ wf[k].phase = "Dispatched"
        /\ UNCHANGED dispatchVars /\ x.receipt = none /\ ~x.claimed /\ SetAction(k, a, y)
    BY Zenon DEF apply_activity_claimed, HasAction, EffectsOpen
  <1>2. DOMAIN x = ActionFields /\ Deed(wf[k], x)
    BY Zenon, <1>1 DEF Local, Shaped, Deeds
  <1>3. /\ DOMAIN y = ActionFields /\ y.result = x.result /\ y.receipt = x.receipt
        /\ y.claimed /\ KeptAction(x, y)
    BY Zenon, <1>2 DEF ActionFields, KeptAction
  <1>4. "Succeeded" # none /\ "Dispatched" # "Cancelled"
    BY ScenarioAssumption
  <1>5. Deed(wf[k], y)
    BY Zenon, <1>1, <1>2, <1>3, <1>4 DEF Deed
  <1> QED BY Zenon, <1>1, <1>3, <1>5, SetActionAdvances

\* apply_activity_result_recorded: accepted in any phase, yet a sealed or
\* cancelled workflow has no claimed effect left that could report.
LEMMA ResultAdvances ==
    ASSUME NEW k \in DOMAIN wf, Local(wf[k]), NEW a,
           NEW outcome \in {"Succeeded", "Failed", "Unknown"},
           apply_activity_result_recorded(k, a, outcome)
    PROVE  Advances(k)
  <1> DEFINE x == wf[k].actions[a]
             y == [x EXCEPT !.result = outcome]
  <1>1. /\ a \in DOMAIN wf[k].actions /\ UNCHANGED dispatchVars
        /\ x.receipt = none /\ x.result = none /\ x.claimed /\ SetAction(k, a, y)
    BY Zenon DEF apply_activity_result_recorded, HasAction
  <1>2. DOMAIN x = ActionFields /\ Deed(wf[k], x)
    BY Zenon, <1>1 DEF Local, Shaped, Deeds
  <1>3. /\ DOMAIN y = ActionFields /\ y.result = outcome /\ y.receipt = x.receipt
        /\ y.claimed = x.claimed /\ KeptAction(x, y)
    BY Zenon, <1>1, <1>2 DEF ActionFields, KeptAction
  <1>4. "Succeeded" # none /\ "Unknown" # none
    BY ScenarioAssumption
  <1>5. ~wf[k].sealed /\ ~(wf[k].phase = "Cancelled" /\ wf[k].cancellation # none)
    BY Zenon, <1>1, <1>2 DEF Deed
  <1>6. Deed(wf[k], y)
    BY Zenon, <1>1, <1>2, <1>3, <1>4, <1>5 DEF Deed
  <1> QED BY Zenon, <1>1, <1>3, <1>5, <1>6, SetActionAdvances

\* apply_action_receipt_recorded: the receipt agrees with the result.
LEMMA ReceiptAdvances ==
    ASSUME NEW k \in DOMAIN wf, Local(wf[k]), NEW a, NEW usage,
           NEW outcome \in {"Succeeded", "Failed", "Denied", "Unknown"},
           apply_action_receipt_recorded(k, a, outcome, usage)
    PROVE  Advances(k)
  <1> DEFINE x == wf[k].actions[a]
             y == [x EXCEPT !.receipt = outcome, !.tokens = usage]
  <1>1. /\ a \in DOMAIN wf[k].actions /\ UNCHANGED dispatchVars
        /\ ~wf[k].sealed /\ wf[k].phase \in {"Dispatched", "CancellationRequested"}
        /\ activity_claim_result_matches_receipt(wf[k], x, outcome)
        /\ x.receipt = none /\ SetAction(k, a, y)
    BY Zenon DEF apply_action_receipt_recorded, HasAction, ReceiptsOpen
  <1>2. DOMAIN x = ActionFields /\ Deed(wf[k], x)
    BY Zenon, <1>1 DEF Local, Shaped, Deeds
  <1>3. /\ DOMAIN y = ActionFields /\ y.result = x.result /\ y.receipt = outcome
        /\ y.claimed = x.claimed /\ KeptAction(x, y)
    BY Zenon, <1>1, <1>2 DEF ActionFields, KeptAction
  <1>4. none \notin {"Succeeded", "Failed", "Denied", "Unknown"} /\ wf[k].phase # "Cancelled"
    BY <1>1, ScenarioAssumption
  <1>5. /\ requires_activity_claim_result(wf[k]) => outcome = x.result
        /\ ~requires_activity_claim_result(wf[k]) /\ x.claimed =>
              /\ outcome = "Succeeded" => x.result = "Succeeded"
              /\ x.result = "Unknown" => outcome = "Unknown"
    BY <1>1 DEF activity_claim_result_matches_receipt
  <1>6. Deed(wf[k], y)
    BY Zenon, <1>1, <1>2, <1>3, <1>4, <1>5 DEF Deed
  <1> QED BY Zenon, <1>1, <1>3, <1>6, SetActionAdvances

\* apply_action_requested
LEMMA RequestAdvances ==
    ASSUME NEW r, r.key \in DOMAIN wf => Local(wf[r.key]), apply_action_requested(r)
    PROVE  r.key \in DOMAIN wf /\ Advances(r.key)
  <1> DEFINE k == r.key
             v == [wf[k] EXCEPT !.actions = Put(@, r.id, NewAction(r))]
  <1>1. /\ k \in DOMAIN wf /\ EffectsOpen(wf[k]) /\ r.id \notin DOMAIN wf[k].actions
        /\ wf' = [wf EXCEPT ![k].actions = Put(@, r.id, NewAction(r))]
        /\ UNCHANGED dispatchVars
    BY Zenon DEF apply_action_requested, Is
  <1>2. Good(wf[k], v)
    BY Zenon, <1>1, RequestGood
  <1>3. wf' = [wf EXCEPT ![k] = v]
    BY <1>1
  <1> QED BY Zenon, <1>1, <1>2, <1>3, EditFacts DEF Advances, Changes

\* The handlers between the candidate and the operator's decision.
LEMMA CandidateAdvances ==
    ASSUME NEW k \in DOMAIN wf, Local(wf[k]), NEW digest, NEW outcome, NEW a, NEW ref, NEW j,
           NEW decision, NEW refs,
           \/ apply_candidate_created(k, digest) \/ apply_candidate_created_v2(k, digest)
           \/ apply_candidate_completion_recorded(k, a)
           \/ apply_candidate_acceptance_recorded(k, outcome)
           \/ apply_review_verdict(k, ref, decision)
           \/ apply_review_verdict_v2(k, ref, j, a, decision)
           \/ apply_promotion_approval_requested(k, refs)
    PROVE  Advances(k)
  <1>1. CASE apply_candidate_created(k, digest) \/ apply_candidate_created_v2(k, digest)
    <2>1. CreateCandidate(k, digest)
      BY Zenon, <1>1 DEF apply_candidate_created, apply_candidate_created_v2
    <2>2. /\ wf[k].candidate = none /\ wf[k].phase = "Dispatched"
          /\ Set(k, [wf[k] EXCEPT !.candidate = digest, !.phase = "CandidateCreated"])
      BY Zenon, <2>1 DEF CreateCandidate, candidate_is_new
    <2>3. Good(wf[k], [wf[k] EXCEPT !.candidate = digest, !.phase = "CandidateCreated"])
      BY Zenon, <2>2, CreateGood
    <2> QED BY Zenon, <2>2, <2>3, SetAdvances
  <1>2. CASE apply_candidate_completion_recorded(k, a)
    <2>1. /\ wf[k].candidate # none /\ wf[k].phase = "CandidateCreated"
          /\ candidate_create_action_matches(wf[k], a)
          /\ Set(k, [wf[k] EXCEPT !.completion = TRUE])
      BY Zenon, <1>2 DEF apply_candidate_completion_recorded, requires_candidate_completion
    <2>2. Good(wf[k], [wf[k] EXCEPT !.completion = TRUE])
      BY Zenon, <2>1, CompletionGood
    <2> QED BY Zenon, <2>1, <2>2, SetAdvances
  <1>3. CASE apply_candidate_acceptance_recorded(k, outcome)
    <2> DEFINE phase == IF outcome = "Passed" THEN "AcceptancePassed" ELSE "Rejected"
    <2>1. /\ wf[k].acceptance = none /\ wf[k].phase = "CandidateCreated"
          /\ Set(k, [wf[k] EXCEPT !.acceptance = outcome, !.phase = phase])
      BY Zenon, <1>3 DEF apply_candidate_acceptance_recorded
    <2>2. phase \in {"AcceptancePassed", "Rejected"}
      BY Zenon
    <2> HIDE DEF phase
    <2>3. Good(wf[k], [wf[k] EXCEPT !.acceptance = outcome, !.phase = phase])
      BY Zenon, <2>1, <2>2, AcceptanceGood
    <2> QED BY Zenon, <2>1, <2>3, SetAdvances
  <1>4. ASSUME NEW review, RecordReview(k, review)
        PROVE  Advances(k)
    <2> DEFINE phase == IF review.decision = "Approve" THEN "ReviewApproved" ELSE "Rejected"
    <2>1. /\ wf[k].phase \in {"AcceptancePassed", "ReviewApproved"}
          /\ Set(k, [wf[k] EXCEPT !.reviews = @ \cup {review}, !.phase = phase])
      BY Zenon, <1>4 DEF RecordReview
    <2>2. phase \in {"ReviewApproved", "Rejected"}
      BY Zenon
    <2> HIDE DEF phase
    <2>3. Good(wf[k], [wf[k] EXCEPT !.reviews = @ \cup {review}, !.phase = phase])
      BY Zenon, <2>1, <2>2, ReviewGood
    <2> QED BY Zenon, <2>1, <2>3, SetAdvances
  <1>5. CASE apply_promotion_approval_requested(k, refs)
    <2>1. /\ wf[k].approval = none /\ wf[k].phase = "ReviewApproved"
          /\ Set(k, [wf[k] EXCEPT !.approval = refs, !.phase = "PromotionApprovalPending"])
      BY Zenon, <1>5 DEF apply_promotion_approval_requested
    <2>2. Good(wf[k], [wf[k] EXCEPT !.approval = refs, !.phase = "PromotionApprovalPending"])
      BY Zenon, <2>1, ApprovalGood
    <2> QED BY Zenon, <2>1, <2>2, SetAdvances
  <1>6. CASE apply_review_verdict(k, ref, decision) \/ apply_review_verdict_v2(k, ref, j, a, decision)
    BY Zenon, <1>4, <1>6 DEF apply_review_verdict, apply_review_verdict_v2
  <1> QED BY Zenon, <1>1, <1>2, <1>3, <1>5, <1>6

\* The handlers from the approval request to the reconciliation.
LEMMA PromotionAdvances ==
    ASSUME carries \in Scenarios, NEW k \in DOMAIN wf, Local(wf[k]), Promote(k)
    PROVE  Advances(k)
  <1>1. ASSUME NEW kind \in carries.decisions, NEW refs \in SUBSET carries.refs, NEW bound,
               NEW target \in carries.targets,
               apply_promotion_decision(k, kind, refs, bound, target)
        PROVE  Advances(k)
    <2> DEFINE d == [kind |-> kind, refs |-> refs, target |-> target]
               phase == IF kind = "Promote" THEN "PromotionPending" ELSE "Rejected"
    <2>1. d \in [kind : carries.decisions, refs : SUBSET carries.refs, target : carries.targets]
      OBVIOUS
    <2>2. d # none
      BY Zenon, <2>1, ScenarioAssumption
    <2>3. Set(k, [wf[k] EXCEPT !.decision = d, !.phase = phase])
      BY Zenon, <1>1 DEF apply_promotion_decision
    <2>4. Good(wf[k], [wf[k] EXCEPT !.decision = d, !.phase = phase])
      BY Zenon, <1>1, <2>2, DecisionGood DEF apply_promotion_decision, Open
    <2> QED BY Zenon, <2>3, <2>4, SetAdvances
  <1>2. CASE apply_promotion_execution_claimed(k)
    <2>1. wf[k].decision # none /\ Set(k, [wf[k] EXCEPT !.claim = TRUE])
      BY Zenon, <1>2 DEF apply_promotion_execution_claimed
    <2>2. Good(wf[k], [wf[k] EXCEPT !.claim = TRUE])
      BY Zenon, <2>1, ClaimGood
    <2> QED BY Zenon, <2>1, <2>2, SetAdvances
  <1>3. ASSUME NEW outcome \in carries.promotions, NEW sync \in SyncStates, NEW leased,
               apply_promotion_result(k, outcome, sync, leased)
        PROVE  Advances(k)
    <2> DEFINE r == [outcome |-> outcome, sync |-> sync]
               phase == CASE outcome = "Promoted" -> "Promoted"
                          [] outcome = "Rejected" -> "Rejected"
                          [] OTHER -> "PromotionReconciliationRequired"
    <2>1. r \in [outcome : carries.promotions,
                 sync : {none, "PendingReconciliation", "RootCheckoutStale", "TargetAdvanced"}]
      BY DEF SyncStates
    <2>2. r # none
      BY Zenon, <2>1, ScenarioAssumption
    <2>3. Set(k, [wf[k] EXCEPT !.result = r, !.phase = phase])
      BY Zenon, <1>3 DEF apply_promotion_result
    <2>4. Good(wf[k], [wf[k] EXCEPT !.result = r, !.phase = phase])
      BY Zenon, <1>3, <2>2, ResultGood DEF apply_promotion_result
    <2> QED BY Zenon, <2>3, <2>4, SetAdvances
  <1>4. ASSUME NEW resolution \in {"Abandon", "Reject"},
               apply_promotion_reconciliation_resolved(k, resolution)
        PROVE  Advances(k)
    <2> DEFINE v == [wf[k] EXCEPT !.resolution = resolution,
                                  !.phase = "PromotionReconciliationResolved"]
    <2>1. resolution # none
      BY ScenarioAssumption
    <2>2. Set(k, v)
      BY Zenon, <1>4 DEF apply_promotion_reconciliation_resolved
    <2>3. Good(wf[k], v)
      BY Zenon, <1>4, <2>1, ResolutionGood DEF apply_promotion_reconciliation_resolved
    <2> QED BY Zenon, <2>2, <2>3, SetAdvances
  <1> QED BY Zenon, <1>1, <1>2, <1>3, <1>4, CandidateAdvances DEF Promote

\* Timers, cancellation, terminal, admission receipt and receipt set.
LEMMA ControlAdvances ==
    ASSUME NEW k \in DOMAIN wf, Local(wf[k]), NEW t, NEW cause, NEW version, NEW outcome,
           \/ apply_workflow_timer_scheduled(k, t) \/ apply_workflow_timer_fired(k, t)
           \/ apply_workflow_cancellation_requested(k, cause)
           \/ apply_workflow_terminal(k, version, outcome)
           \/ apply_governed_dispatch_v5_admission(k)
           \/ apply_action_receipt_set_recorded(k)
    PROVE  Advances(k)
  <1>0. DOMAIN wf[k] = WorkflowFields
    BY Zenon DEF Local, Shaped
  <1>1. CASE apply_workflow_timer_scheduled(k, t)
    <2> DEFINE v == [wf[k] EXCEPT !.timers = Put(@, t, "scheduled")]
    <2>1. Set(k, v)
      BY Zenon, <1>1 DEF apply_workflow_timer_scheduled
    <2>2. Same(wf[k], v, {"timers"}) /\ v.admission = wf[k].admission
      BY Zenon, <1>0 DEF Same, WorkflowFields
    <2> HIDE DEF v
    <2> QED BY Zenon, <2>1, <2>2, AsideGood, SetAdvances
  <1>2. CASE apply_workflow_timer_fired(k, t)
    <2> DEFINE v == [wf[k] EXCEPT !.timers[t] = "fired"]
    <2>1. Set(k, v)
      BY Zenon, <1>2 DEF apply_workflow_timer_fired
    <2>2. Same(wf[k], v, {"timers"}) /\ v.admission = wf[k].admission
      BY Zenon, <1>0 DEF Same, WorkflowFields
    <2> HIDE DEF v
    <2> QED BY Zenon, <2>1, <2>2, AsideGood, SetAdvances
  <1>3. CASE apply_workflow_cancellation_requested(k, cause)
    <2> DEFINE v == [wf[k] EXCEPT !.cancellation = cause, !.phase = "CancellationRequested"]
    <2>1. Set(k, v) /\ workflow_lifecycle_control_is_allowed(wf[k])
      BY Zenon, <1>3 DEF apply_workflow_cancellation_requested, Controllable
    <2>2. Good(wf[k], v)
      BY Zenon, <2>1, CancellationGood
    <2> QED BY Zenon, <2>1, <2>2, SetAdvances
  <1>4. CASE apply_workflow_terminal(k, version, outcome)
    <2> DEFINE v == [wf[k] EXCEPT !.terminal = outcome, !.phase = outcome]
    <2>1. Set(k, v)
      BY Zenon, <1>4 DEF apply_workflow_terminal
    <2>2. Good(wf[k], v)
      BY Zenon, <1>4, TerminalGood DEF apply_workflow_terminal, Open
    <2> QED BY Zenon, <2>1, <2>2, SetAdvances
  <1>5. CASE apply_governed_dispatch_v5_admission(k)
    <2> DEFINE v == [wf[k] EXCEPT !.admission = TRUE]
    <2>1. wf' = [wf EXCEPT ![k] = v] /\ UNCHANGED dispatchVars
      BY Zenon, <1>5 DEF apply_governed_dispatch_v5_admission
    <2>2. Same(wf[k], v, {"admission"}) /\ v.admission
      BY Zenon, <1>0 DEF Same, WorkflowFields
    <2> HIDE DEF v
    <2> QED BY Zenon, <2>1, <2>2, AsideGood, SetAdvances DEF Set
  <1>6. CASE apply_action_receipt_set_recorded(k)
    <2> DEFINE v == [wf[k] EXCEPT !.sealed = TRUE]
    <2>1. wf' = [wf EXCEPT ![k] = v] /\ UNCHANGED dispatchVars /\ evidence_closed(wf[k])
      BY Zenon, <1>6 DEF apply_action_receipt_set_recorded
    <2>2. Good(wf[k], v)
      BY Zenon, <2>1, SealGood
    <2> QED BY Zenon, <2>1, <2>2, SetAdvances DEF Set
  <1> QED BY Zenon, <1>1, <1>2, <1>3, <1>4, <1>5, <1>6


\* A dispatched workflow starts sound.
LEMMA NewLocal == \A d, c : Local(NewWorkflow(d, c))
  <1> SUFFICES ASSUME NEW d, NEW c PROVE Local(NewWorkflow(d, c))
    OBVIOUS
  <1> DEFINE w == NewWorkflow(d, c)
  <1>1. /\ DOMAIN w = WorkflowFields /\ w.phase = "Dispatched" /\ w.actions = <<>>
        /\ w.completion = FALSE /\ w.decision = none /\ w.result = none
        /\ w.resolution = none /\ w.claim = FALSE /\ w.terminal = none /\ w.approval = none
        /\ w.cancellation = none
    BY DEF NewWorkflow, WorkflowFields
  <1>2. DOMAIN w.actions = {}
    BY <1>1
  <1> HIDE DEF w
  <1>3. Standing(w)
    BY <1>1 DEF Standing, Undecided, Promoting
  <1> QED BY Zenon, <1>1, <1>2, <1>3 DEF Local, Shaped, Built, Deeds, Plain, w

\* InstallDispatch adds one workflow under a key of its own.
LEMMA Installed ==
    ASSUME NEW d, NEW c, InstallDispatch(d, c)
    PROVE  /\ DOMAIN wf' = DOMAIN wf \cup {Key(d)} /\ Key(d) \notin DOMAIN wf
           /\ wf'[Key(d)] = NewWorkflow(d, c)
           /\ \A k \in DOMAIN wf : wf'[k] = wf[k]
           /\ UNCHANGED dispatchVars /\ dispatch_envelope_valid(d)
  <1>1. /\ wf' = Put(wf, Key(d), NewWorkflow(d, c)) /\ Key(d) \notin DOMAIN wf
        /\ UNCHANGED dispatchVars /\ dispatch_envelope_valid(d)
    BY Zenon DEF InstallDispatch, Is
  <1> QED BY Zenon, <1>1 DEF Put

\* No record, phase or seal is taken back by a step that changes nothing.
LEMMA KeptItself == ASSUME NEW w PROVE Kept(w, w)
  BY Zenon DEF Kept, KeptAction


-----------------------------------------------------------------------------
(* Across workflows *)

\* The records that bind one workflow to another stay as they are.
Quiet(k) ==
    /\ wf'[k].candidate = wf[k].candidate /\ wf'[k].reviews = wf[k].reviews
    /\ DOMAIN wf'[k].actions = DOMAIN wf[k].actions

\* A handler that sets other fields is quiet.
LEMMA SetQuiet ==
    ASSUME NEW k \in DOMAIN wf, NEW v, Set(k, v),
           v.candidate = wf[k].candidate, v.reviews = wf[k].reviews, v.actions = wf[k].actions
    PROVE  Quiet(k)
  BY Zenon, EditFacts DEF Set, Quiet, Changes

\* The handlers of completion, acceptance, promotion, timers, cancellation and
\* terminal record no candidate, verdict or action.
LEMMA QuietFlow ==
    ASSUME NEW k \in DOMAIN wf, Local(wf[k]), NEW a, NEW outcome, NEW refs, NEW kind, NEW bound,
           NEW target, NEW sync, NEW leased, NEW t, NEW version,
           \/ apply_candidate_completion_recorded(k, a)
           \/ apply_candidate_acceptance_recorded(k, outcome)
           \/ apply_promotion_approval_requested(k, refs)
           \/ apply_promotion_decision(k, kind, refs, bound, target)
           \/ apply_promotion_execution_claimed(k)
           \/ apply_promotion_result(k, outcome, sync, leased)
           \/ apply_promotion_reconciliation_resolved(k, outcome)
           \/ apply_workflow_timer_scheduled(k, t) \/ apply_workflow_timer_fired(k, t)
           \/ apply_workflow_cancellation_requested(k, outcome)
           \/ apply_workflow_terminal(k, version, outcome)
    PROVE  Quiet(k)
  <1>0. {"candidate", "reviews", "actions"} \subseteq DOMAIN wf[k]
    BY Zenon DEF Local, Shaped, WorkflowFields
  <1>1. ASSUME NEW f, NEW x, f \notin {"candidate", "reviews", "actions"},
               Set(k, [wf[k] EXCEPT ![f] = x])
        PROVE  Quiet(k)
    <2>1. LET v == [wf[k] EXCEPT ![f] = x] IN
          v.candidate = wf[k].candidate /\ v.reviews = wf[k].reviews /\ v.actions = wf[k].actions
      BY Zenon, <1>0, <1>1
    <2> QED BY Zenon, <1>1, <2>1, SetQuiet
  <1>2. ASSUME NEW f, NEW x, NEW y, f \notin {"candidate", "reviews", "actions"},
               Set(k, [wf[k] EXCEPT ![f] = x, !.phase = y])
        PROVE  Quiet(k)
    <2>1. LET v == [wf[k] EXCEPT ![f] = x, !.phase = y] IN
          v.candidate = wf[k].candidate /\ v.reviews = wf[k].reviews /\ v.actions = wf[k].actions
      BY Zenon, <1>0, <1>2
    <2> QED BY Zenon, <1>2, <2>1, SetQuiet
  <1>3. CASE apply_candidate_completion_recorded(k, a)
    BY Zenon, <1>1, <1>3 DEF apply_candidate_completion_recorded
  <1>4. CASE apply_promotion_decision(k, kind, refs, bound, target)
    <2>1. PICK x, y : Set(k, [wf[k] EXCEPT !.decision = x, !.phase = y])
      BY Zenon, <1>4 DEF apply_promotion_decision
    <2> DEFINE v == [wf[k] EXCEPT !.decision = x, !.phase = y]
    <2>2. v.candidate = wf[k].candidate /\ v.reviews = wf[k].reviews /\ v.actions = wf[k].actions
      BY Zenon, <1>0
    <2> QED BY Zenon, <2>1, <2>2, SetQuiet
  <1>5. CASE apply_workflow_timer_scheduled(k, t)
    <2>1. Set(k, [wf[k] EXCEPT !.timers = Put(@, t, "scheduled")])
      BY Zenon, <1>5 DEF apply_workflow_timer_scheduled
    <2> QED BY Zenon, <1>1, <2>1
  <1>6. CASE apply_workflow_timer_fired(k, t)
    <2>1. Set(k, [wf[k] EXCEPT !.timers[t] = "fired"])
      BY Zenon, <1>6 DEF apply_workflow_timer_fired
    <2> QED BY Zenon, <1>1, <2>1
  <1>7. CASE apply_candidate_acceptance_recorded(k, outcome)
    BY Zenon, <1>2, <1>7 DEF apply_candidate_acceptance_recorded
  <1>8. CASE apply_promotion_approval_requested(k, refs)
    BY Zenon, <1>2, <1>8 DEF apply_promotion_approval_requested
  <1>9. CASE apply_promotion_execution_claimed(k)
    BY Zenon, <1>1, <1>9 DEF apply_promotion_execution_claimed
  <1>10. CASE apply_promotion_result(k, outcome, sync, leased)
    <2>1. PICK x, y : Set(k, [wf[k] EXCEPT !.result = x, !.phase = y])
      BY Zenon, <1>10 DEF apply_promotion_result
    <2> DEFINE v == [wf[k] EXCEPT !.result = x, !.phase = y]
    <2>2. v.candidate = wf[k].candidate /\ v.reviews = wf[k].reviews /\ v.actions = wf[k].actions
      BY Zenon, <1>0
    <2> QED BY Zenon, <2>1, <2>2, SetQuiet
  <1>11. CASE apply_promotion_reconciliation_resolved(k, outcome)
    BY Zenon, <1>2, <1>11 DEF apply_promotion_reconciliation_resolved
  <1>12. CASE apply_workflow_cancellation_requested(k, outcome)
    BY Zenon, <1>2, <1>12 DEF apply_workflow_cancellation_requested
  <1>13. CASE apply_workflow_terminal(k, version, outcome)
    <2>1. PICK x, y : Set(k, [wf[k] EXCEPT !.terminal = x, !.phase = y])
      BY Zenon, <1>13 DEF apply_workflow_terminal
    <2> DEFINE v == [wf[k] EXCEPT !.terminal = x, !.phase = y]
    <2>2. v.candidate = wf[k].candidate /\ v.reviews = wf[k].reviews /\ v.actions = wf[k].actions
      BY Zenon, <1>0
    <2> QED BY Zenon, <2>1, <2>2, SetQuiet
  <1> QED BY Zenon, <1>3, <1>4, <1>5, <1>6, <1>7, <1>8, <1>9, <1>10, <1>11, <1>12, <1>13

\* The handlers that replace one action, and the two single flags.
LEMMA QuietAct ==
    ASSUME NEW k \in DOMAIN wf, Local(wf[k]), NEW a \in DOMAIN wf[k].actions, NEW target,
           NEW outcome, NEW usage,
           \/ apply_model_action_intent(k, a, target)
           \/ apply_model_action_authorized_v1(k, a) \/ apply_model_action_authorized_v2(k, a)
           \/ apply_activity_claimed(k, a) \/ apply_activity_result_recorded(k, a, outcome)
           \/ apply_action_receipt_recorded(k, a, outcome, usage)
    PROVE  Quiet(k)
  <1>1. \E x : SetAction(k, a, x)
    BY Zenon DEF apply_model_action_intent, apply_model_action_authorized_v1,
       apply_model_action_authorized_v2, apply_activity_claimed,
       apply_activity_result_recorded, apply_action_receipt_recorded
  <1>2. PICK x : SetAction(k, a, x)
    BY Zenon, <1>1
  <1>3. Same(wf[k], wf'[k], {"actions"}) /\ wf'[k].actions = [wf[k].actions EXCEPT ![a] = x]
    BY Zenon, <1>2, SetActionFacts
  <1>4. wf'[k].candidate = wf[k].candidate /\ wf'[k].reviews = wf[k].reviews
    BY <1>3 DEF Same, WorkflowFields
  <1>5. DOMAIN wf'[k].actions = DOMAIN wf[k].actions
    BY Zenon, <1>3
  <1> QED BY Zenon, <1>4, <1>5 DEF Quiet

\* Nor do the V5 admission receipt and the seal of the receipt set.
LEMMA QuietFlag ==
    ASSUME NEW k \in DOMAIN wf, Local(wf[k]),
           apply_governed_dispatch_v5_admission(k) \/ apply_action_receipt_set_recorded(k)
    PROVE  Quiet(k)
  <1>0. {"candidate", "reviews", "actions"} \subseteq DOMAIN wf[k]
    BY Zenon DEF Local, Shaped, WorkflowFields
  <1>1. PICK f \in {"admission", "sealed"} :
            wf' = [wf EXCEPT ![k] = [wf[k] EXCEPT ![f] = TRUE]] /\ UNCHANGED dispatchVars
    BY Zenon DEF apply_governed_dispatch_v5_admission, apply_action_receipt_set_recorded
  <1> DEFINE v == [wf[k] EXCEPT ![f] = TRUE]
  <1>2. v.candidate = wf[k].candidate /\ v.reviews = wf[k].reviews /\ v.actions = wf[k].actions
    BY Zenon, <1>0
  <1> QED BY Zenon, <1>1, <1>2, SetQuiet DEF Set

\* What a V2 verdict rests on.
Backed(u, k, r) ==
    /\ u[k].candidate # none
    /\ r.by \in DOMAIN u /\ r.by # k
    /\ u[r.by].dispatch.role \in {"reviewer", "adversary", "judge"}
    /\ u[r.by].sealed /\ r.action \in DOMAIN u[r.by].actions
    /\ u[r.by].actions[r.action].kind = "model"
    /\ u[r.by].actions[r.action].receipt = "Succeeded"
    /\ u[r.by].dispatch.evidence = "sealed_v3" =>
          u[r.by].actions[r.action].intent = u[k].candidate

\* Where a new candidate, verdict or action of a workflow comes from.
Sourced(k) ==
    /\ \/ wf'[k].candidate = wf[k].candidate
       \/ \A j \in DOMAIN wf : wf[j].candidate # wf'[k].candidate
    /\ \A r \in wf'[k].reviews \ wf[k].reviews : r.version = 2 => Backed(wf, k, r)
    /\ \A b \in DOMAIN wf'[k].actions \ DOMAIN wf[k].actions :
          /\ governed(wf[k]) /\ ~is_terminal(wf[k].phase)
          /\ wf[k].retry # none =>
                \A a \in DOMAIN wf[wf[k].retry.prior].actions :
                    /\ b # a
                    /\ wf'[k].actions[b].idem # wf[wf[k].retry.prior].actions[a].idem

\* A quiet handler has nothing to source.
LEMMA QuietSourced == ASSUME NEW k, Quiet(k) PROVE Sourced(k)
  BY Zenon DEF Quiet, Sourced

\* A candidate digest is new to the run: candidate_is_new.
LEMMA CreateSourced ==
    ASSUME NEW k \in DOMAIN wf, Local(wf[k]), NEW digest, CreateCandidate(k, digest)
    PROVE  Sourced(k)
  <1> DEFINE v == [wf[k] EXCEPT !.candidate = digest, !.phase = "CandidateCreated"]
  <1>1. Set(k, v) /\ \A j \in DOMAIN wf : wf[j].candidate # digest
    BY Zenon DEF CreateCandidate, candidate_is_new
  <1>2. v.candidate = digest /\ v.reviews = wf[k].reviews /\ v.actions = wf[k].actions
    BY Zenon DEF Local, Shaped, WorkflowFields
  <1>3. wf'[k] = v
    BY Zenon, <1>1, EditFacts DEF Set, Changes
  <1> HIDE DEF v
  <1> QED BY Zenon, <1>1, <1>2, <1>3 DEF Sourced

\* A recorded verdict is the only new one.
LEMMA ReviewSourced ==
    ASSUME NEW k \in DOMAIN wf, Local(wf[k]), NEW review, RecordReview(k, review),
           review.version = 2 => Backed(wf, k, review)
    PROVE  Sourced(k)
  <1>1. PICK p : Set(k, [wf[k] EXCEPT !.reviews = @ \cup {review}, !.phase = p])
    BY Zenon DEF RecordReview
  <1> DEFINE v == [wf[k] EXCEPT !.reviews = @ \cup {review}, !.phase = p]
  <1>2. /\ v.candidate = wf[k].candidate /\ v.reviews = wf[k].reviews \cup {review}
        /\ v.actions = wf[k].actions
    BY Zenon DEF Local, Shaped, WorkflowFields
  <1>3. wf'[k] = v
    BY Zenon, <1>1, EditFacts DEF Set, Changes
  <1> HIDE DEF v
  <1>4. \A r \in wf'[k].reviews \ wf[k].reviews : r = review
    BY Zenon, <1>2, <1>3
  <1> QED BY Zenon, <1>2, <1>3, <1>4 DEF Sourced

\* apply_review_verdict_v2 looks its reviewer's sealed action up first.
LEMMA VerdictSourced ==
    ASSUME NEW k \in DOMAIN wf, Local(wf[k]), NEW ref, NEW j, NEW a, NEW decision,
           apply_review_verdict(k, ref, decision) \/ apply_review_verdict_v2(k, ref, j, a, decision)
    PROVE  Sourced(k)
  <1>1. CASE apply_review_verdict(k, ref, decision)
    <2> DEFINE r == [ref |-> ref, version |-> 1, decision |-> decision,
                     by |-> none, action |-> none]
    <2>1. RecordReview(k, r)
      BY Zenon, <1>1 DEF apply_review_verdict
    <2>2. r.version # 2
      OBVIOUS
    <2> HIDE DEF r
    <2> QED BY Zenon, <2>1, <2>2, ReviewSourced
  <1>2. CASE apply_review_verdict_v2(k, ref, j, a, decision)
    <2> DEFINE r == [ref |-> ref, version |-> 2, decision |-> decision, by |-> j, action |-> a]
    <2>1. RecordReview(k, r)
      BY Zenon, <1>2 DEF apply_review_verdict_v2
    <2>2. r.by = j /\ r.action = a
      OBVIOUS
    <2> HIDE DEF r
    <2>3. /\ wf[k].candidate # none /\ j \in DOMAIN wf /\ j # k
          /\ wf[j].dispatch.role \in {"reviewer", "adversary", "judge"}
          /\ wf[j].sealed /\ a \in DOMAIN wf[j].actions
          /\ wf[j].actions[a].receipt = "Succeeded" /\ wf[j].actions[a].kind = "model"
          /\ wf[j].dispatch.evidence = "sealed_v3" => wf[j].actions[a].intent = wf[k].candidate
      BY Zenon, <1>2 DEF apply_review_verdict_v2, find_v3_reviewer_workflow_for_review, Is,
         reviewer_like, review_action_evidence_is_successful, review_action_matches,
         requires_activity_claim_result, sealed_v3_review_action_binds_verdict_target
    <2>4. Backed(wf, k, r)
      BY Zenon, <2>2, <2>3 DEF Backed
    <2> QED BY Zenon, <2>1, <2>4, ReviewSourced
  <1> QED BY <1>1, <1>2

\* An action is requested by governed open work, and under a retry it shares no
\* identity with the attempt before: validate_retry_action_namespace.
LEMMA RequestSourced ==
    ASSUME NEW r, r.key \in DOMAIN wf, Local(wf[r.key]), apply_action_requested(r)
    PROVE  Sourced(r.key)
  <1> DEFINE k == r.key
             v == [wf[k] EXCEPT !.actions = Put(@, r.id, NewAction(r))]
  <1>1. /\ wf' = [wf EXCEPT ![k].actions = Put(@, r.id, NewAction(r))]
        /\ governed(wf[k]) /\ EffectsOpen(wf[k])
        /\ validate_retry_action_namespace(wf[k], r)
    BY Zenon DEF apply_action_requested, governed_sealed
  <1>2. wf'[k] = v
    BY Zenon, <1>1
  <1>3. /\ v.candidate = wf[k].candidate /\ v.reviews = wf[k].reviews
        /\ v.actions = Put(wf[k].actions, r.id, NewAction(r))
    BY Zenon DEF Local, Shaped, WorkflowFields
  <1> HIDE DEF v
  <1>4. NewAction(r).idem = r.idem
    BY DEF NewAction
  <1>5. /\ DOMAIN v.actions = DOMAIN wf[k].actions \cup {r.id}
        /\ v.actions[r.id] = NewAction(r)
    BY Zenon, <1>3 DEF Put
  <1>6. ~is_terminal(wf[k].phase)
    BY <1>1 DEF EffectsOpen, is_terminal
  <1>7. ASSUME NEW b \in DOMAIN wf'[k].actions \ DOMAIN wf[k].actions
        PROVE  b = r.id /\ wf'[k].actions[b].idem = r.idem
    BY Zenon, <1>2, <1>4, <1>5
  <1>8. wf[k].retry # none =>
            \A a \in DOMAIN wf[wf[k].retry.prior].actions :
                r.id # a /\ r.idem # wf[wf[k].retry.prior].actions[a].idem
    BY Zenon, <1>1 DEF validate_retry_action_namespace
  <1> HIDE DEF k
  <1>9. wf'[k].candidate = wf[k].candidate /\ wf'[k].reviews = wf[k].reviews
    BY Zenon, <1>2, <1>3
  <1>10. Sourced(k)
    BY Zenon, <1>1, <1>6, <1>7, <1>8, <1>9 DEF Sourced
  <1> QED BY <1>10 DEF k

\* What a dispatch handler demands before it installs the envelope.
Earned(d, c) ==
    /\ d.version \in {4, 5} => validate_v4_graph_binding(d) /\ validate_v4_graph_schedule(d)
    /\ NeedsContext(d) => c \in ContextFor(d)

\* Graphs, contexts and brackets change by their own events alone.
Declared ==
    /\ \/ UNCHANGED <<graphs, contexts>>
       \/ \E g \in carries.graphs : apply_workflow_graph_declared(g)
       \/ \E c \in carries.contexts : apply_attempt_context_recorded(c)
    /\ Bracket \/ UNCHANGED brackets

\* Every workflow of a tape of the scenario is sound.
LInv == carries \in Scenarios /\ \A k \in DOMAIN wf : Local(wf[k])

\* An event declares something, brackets an activity, dispatches one workflow
\* or advances one.
LEMMA SourcedCases ==
    ASSUME LInv, Next
    PROVE  \/ UNCHANGED <<carries, wf>> /\ Declared
           \/ \E d \in carries.dispatches : \E c : InstallDispatch(d, c) /\ Earned(d, c)
           \/ \E k \in DOMAIN wf : Advances(k) /\ Sourced(k)
  <1>0. carries \in Scenarios /\ \A k \in DOMAIN wf : Local(wf[k])
    BY Zenon DEF LInv
  <1>1. CASE Declare
    <2>1. ASSUME NEW d \in carries.dispatches,
                 apply_dispatch_envelope_v1(d) \/ apply_dispatch_envelope_v2(d)
          PROVE  \E c : InstallDispatch(d, c) /\ Earned(d, c)
      <3>1. (d.version = 1 \/ d.version = 2) /\ InstallDispatch(d, none)
        BY Zenon, <2>1 DEF apply_dispatch_envelope_v1, apply_dispatch_envelope_v2
      <3>2. d.version \notin {4, 5} /\ d.version < 3
        BY <3>1
      <3>3. (d.version < 3) = (d.evidence = none)
        BY Zenon, <3>1, Installed DEF dispatch_envelope_valid
      <3>4. d.evidence # "sealed_v3"
        <4>1. d.evidence = none
          BY <3>2, <3>3
        <4>2. "sealed_v3" # none
          BY ScenarioAssumption
        <4> QED BY <4>1, <4>2
      <3> QED BY Zenon, <3>1, <3>2, <3>4 DEF Earned, NeedsContext
    <2>2. ASSUME NEW d \in carries.dispatches,
                 \/ apply_dispatch_envelope_v3(d) \/ apply_dispatch_envelope_v4(d)
                 \/ apply_dispatch_envelope_v5(d)
          PROVE  \E c : InstallDispatch(d, c) /\ Earned(d, c)
      <3>1. PICK c \in RetainedContext(d) : InstallDispatch(d, c)
        BY Zenon, <2>2 DEF apply_dispatch_envelope_v3, apply_dispatch_envelope_v4,
           apply_dispatch_envelope_v5
      <3>2. d.version = 3 \/ (validate_v4_graph_binding(d) /\ validate_v4_graph_schedule(d))
        <4>1. CASE apply_dispatch_envelope_v3(d)
          BY <4>1 DEF apply_dispatch_envelope_v3
        <4>2. CASE apply_dispatch_envelope_v4(d)
          BY Zenon, <4>2 DEF apply_dispatch_envelope_v4
        <4>3. CASE apply_dispatch_envelope_v5(d)
          BY Zenon, <4>3 DEF apply_dispatch_envelope_v5
        <4> QED BY <2>2, <4>1, <4>2, <4>3
      <3>3. validate_retry_dispatch_context(d)
        BY Zenon, <2>2 DEF apply_dispatch_envelope_v3, apply_dispatch_envelope_v4,
           apply_dispatch_envelope_v5
      <3>4. NeedsContext(d) => c \in ContextFor(d)
        BY Zenon, <3>1, <3>3 DEF RetainedContext, validate_retry_dispatch_context
      <3>5. d.version = 3 => d.version \notin {4, 5}
        OBVIOUS
      <3> QED BY Zenon, <3>1, <3>2, <3>4, <3>5 DEF Earned
    <2> QED BY Zenon, <1>1, <2>1, <2>2 DEF Declare, Declared, apply_workflow_graph_declared,
               apply_manifest_declared, apply_attempt_context_recorded
  <1>2. CASE Bracket
    BY Zenon, <1>2 DEF Bracket, apply_activity_started, apply_activity_completed, Declared
  <1>3. CASE \E r \in carries.requests : apply_action_requested(r)
    BY Zenon, <1>0, <1>3, RequestAdvances, RequestSourced
  <1>4. ASSUME NEW k \in DOMAIN wf, Act(k) PROVE Advances(k) /\ Sourced(k)
    <2>1. carries.results \subseteq {"Succeeded", "Failed", "Unknown"}
      BY Zenon, <1>0, ScenarioAssumption
    <2>2. carries.receipts \subseteq {"Succeeded", "Failed", "Denied", "Unknown"}
      BY Zenon, <1>0, ScenarioAssumption
    <2>3. Advances(k)
      BY Zenon, <1>0, <1>4, <2>1, <2>2, AuthorityAdvances, ClaimedAdvances,
         ResultAdvances, ReceiptAdvances, CandidateAdvances DEF Act
    <2>4. Quiet(k)
      BY Zenon, <1>0, <1>4, QuietAct, QuietFlow DEF Act
    <2> QED BY Zenon, <2>3, <2>4, QuietSourced
  <1>5. ASSUME NEW k \in DOMAIN wf, Review(k) PROVE Advances(k) /\ Sourced(k)
    BY Zenon, <1>0, <1>5, CandidateAdvances, VerdictSourced DEF Review
  <1>6. ASSUME NEW k \in DOMAIN wf, Promote(k) PROVE Advances(k) /\ Sourced(k)
    <2>1. Quiet(k)
      BY Zenon, <1>0, <1>6, QuietFlow DEF Promote
    <2> QED BY Zenon, <1>0, <1>6, <2>1, PromotionAdvances, QuietSourced
  <1>7. ASSUME NEW k \in DOMAIN wf,
               \/ Control(k) \/ apply_governed_dispatch_v5_admission(k)
               \/ apply_action_receipt_set_recorded(k)
        PROVE  Advances(k) /\ Sourced(k)
    <2>1. Advances(k)
      BY Zenon, <1>0, <1>7, ControlAdvances DEF Control
    <2>2. Quiet(k)
      BY Zenon, <1>0, <1>7, QuietFlow, QuietFlag DEF Control
    <2> QED BY Zenon, <2>1, <2>2, QuietSourced
  <1>8. ASSUME NEW k \in DOMAIN wf,
               \/ \E digest \in carries.digests :
                     apply_candidate_created(k, digest) \/ apply_candidate_created_v2(k, digest)
               \/ \E outcome \in carries.acceptances :
                     apply_candidate_acceptance_recorded(k, outcome)
        PROVE  Advances(k) /\ Sourced(k)
    <2>1. Advances(k)
      BY Zenon, <1>0, <1>8, CandidateAdvances
    <2>2. Sourced(k)
      BY Zenon, <1>0, <1>8, CreateSourced, QuietFlow, QuietSourced
         DEF apply_candidate_created, apply_candidate_created_v2
    <2> QED BY <2>1, <2>2
  <1> QED BY Zenon, <1>1, <1>2, <1>3, <1>4, <1>5, <1>6, <1>7, <1>8 DEF Next
\* Every step keeps the workflows sound, and keeps what they recorded.
LEMMA LInvStep ==
    ASSUME LInv, [Next]_vars
    PROVE  /\ LInv' /\ carries' = carries
           /\ \A k \in DOMAIN wf : k \in DOMAIN wf' /\ Kept(wf[k], wf'[k])
  <1>0. carries \in Scenarios /\ \A k \in DOMAIN wf : Local(wf[k])
    BY Zenon DEF LInv
  <1>1. CASE UNCHANGED <<carries, wf>>
    BY Zenon, <1>0, <1>1, KeptItself DEF LInv
  <1>2. ASSUME NEW d, NEW c, InstallDispatch(d, c)
        PROVE  /\ LInv' /\ carries' = carries
               /\ \A k \in DOMAIN wf : k \in DOMAIN wf' /\ Kept(wf[k], wf'[k])
    <2>1. /\ DOMAIN wf' = DOMAIN wf \cup {Key(d)} /\ wf'[Key(d)] = NewWorkflow(d, c)
          /\ \A k \in DOMAIN wf : wf'[k] = wf[k]
      BY Zenon, <1>2, Installed
    <2>2. carries' = carries
      BY Zenon, <1>2, Installed DEF dispatchVars
    <2>3. \A k \in DOMAIN wf' : Local(wf'[k])
      BY Zenon, <1>0, <2>1, NewLocal
    <2> QED BY Zenon, <1>0, <2>1, <2>2, <2>3, KeptItself DEF LInv
  <1>3. ASSUME NEW k \in DOMAIN wf, Advances(k)
        PROVE  /\ LInv' /\ carries' = carries
               /\ \A j \in DOMAIN wf : j \in DOMAIN wf' /\ Kept(wf[j], wf'[j])
    <2>1. /\ DOMAIN wf' = DOMAIN wf /\ Local(wf'[k]) /\ Kept(wf[k], wf'[k])
          /\ \A j \in DOMAIN wf : j # k => wf'[j] = wf[j]
      BY Zenon, <1>3 DEF Advances, Changes, Good
    <2>2. carries' = carries
      BY Zenon, <1>3 DEF Advances, dispatchVars
    <2> QED BY Zenon, <1>0, <2>1, <2>2, KeptItself DEF LInv
  <1>4. CASE UNCHANGED vars
    BY Zenon, <1>1, <1>4 DEF vars, dispatchVars
  <1> QED BY Zenon, <1>1, <1>2, <1>3, <1>4, SourcedCases

-----------------------------------------------------------------------------
(* Verdicts and candidates *)

\* Every V2 verdict is backed, and a candidate has one workflow.
ReviewSound(u) ==
    /\ \A k \in DOMAIN u : \A r \in u[k].reviews : r.version = 2 => Backed(u, k, r)
    /\ \A j, k \in DOMAIN u :
          u[j].candidate # none /\ u[j].candidate = u[k].candidate => j = k

\* A sealed set is frozen and a candidate is never replaced, so a verdict keeps
\* what it rests on.
LEMMA BackedKept ==
    ASSUME NEW k \in DOMAIN wf, NEW r, Backed(wf, k, r),
           \A j \in DOMAIN wf : j \in DOMAIN wf' /\ Kept(wf[j], wf'[j])
    PROVE  Backed(wf', k, r)
  <1>1. Kept(wf[k], wf'[k]) /\ Kept(wf[r.by], wf'[r.by]) /\ r.by \in DOMAIN wf'
    BY Zenon DEF Backed
  <1>2. "candidate" \in Records
    BY Zenon DEF Records
  <1>3. wf'[k].candidate = wf[k].candidate
    BY Zenon, <1>1, <1>2 DEF Kept, KeptAction, Backed
  <1>4. /\ wf'[r.by].dispatch = wf[r.by].dispatch /\ wf'[r.by].sealed
        /\ wf'[r.by].actions = wf[r.by].actions
    BY Zenon, <1>1 DEF Kept, KeptAction, Backed
  <1> QED BY Zenon, <1>1, <1>3, <1>4 DEF Backed

\* Every event keeps the verdicts backed and the candidates told apart.
LEMMA ReviewStep ==
    ASSUME LInv, ReviewSound(wf), [Next]_vars
    PROVE  ReviewSound(wf')
  <1>0. \A j \in DOMAIN wf : j \in DOMAIN wf' /\ Kept(wf[j], wf'[j])
    BY Zenon, LInvStep
  <1>1. CASE UNCHANGED <<carries, wf>>
    BY Zenon, <1>1 DEF ReviewSound
  <1>2. ASSUME NEW d, NEW c, InstallDispatch(d, c)
        PROVE  ReviewSound(wf')
    <2>1. /\ DOMAIN wf' = DOMAIN wf \cup {Key(d)} /\ Key(d) \notin DOMAIN wf
          /\ wf'[Key(d)] = NewWorkflow(d, c) /\ \A k \in DOMAIN wf : wf'[k] = wf[k]
      BY Zenon, <1>2, Installed
    <2>2. NewWorkflow(d, c).reviews = {} /\ NewWorkflow(d, c).candidate = none
      BY DEF NewWorkflow
    <2>3. \A k \in DOMAIN wf' : \A r \in wf'[k].reviews : r.version = 2 => Backed(wf', k, r)
      BY Zenon, <1>0, <2>1, <2>2, BackedKept DEF ReviewSound
    <2>4. \A j, k \in DOMAIN wf' :
              wf'[j].candidate # none /\ wf'[j].candidate = wf'[k].candidate => j = k
      BY Zenon, <2>1, <2>2 DEF ReviewSound
    <2> QED BY Zenon, <2>3, <2>4 DEF ReviewSound
  <1>3. ASSUME NEW k \in DOMAIN wf, Advances(k), Sourced(k)
        PROVE  ReviewSound(wf')
    <2>1. DOMAIN wf' = DOMAIN wf /\ \A j \in DOMAIN wf : j # k => wf'[j] = wf[j]
      BY Zenon, <1>3 DEF Advances, Changes
    <2>2. \A j \in DOMAIN wf' : \A r \in wf'[j].reviews : r.version = 2 => Backed(wf', j, r)
      <3>1. ASSUME NEW j \in DOMAIN wf, NEW r \in wf'[j].reviews, r.version = 2
            PROVE  Backed(wf, j, r)
        BY Zenon, <1>3, <2>1, <3>1 DEF ReviewSound, Sourced
      <3> QED BY Zenon, <1>0, <2>1, <3>1, BackedKept
    <2>3. \A i, j \in DOMAIN wf' :
              wf'[i].candidate # none /\ wf'[i].candidate = wf'[j].candidate => i = j
      <3>1. CASE wf'[k].candidate = wf[k].candidate
        BY Zenon, <2>1, <3>1 DEF ReviewSound
      <3>2. CASE \A j \in DOMAIN wf : wf[j].candidate # wf'[k].candidate
        BY Zenon, <2>1, <3>2 DEF ReviewSound
      <3> QED BY Zenon, <1>3, <3>1, <3>2 DEF Sourced
    <2> QED BY Zenon, <2>2, <2>3 DEF ReviewSound
  <1>4. CASE UNCHANGED vars
    BY Zenon, <1>1, <1>4 DEF vars, dispatchVars
  <1> QED BY Zenon, <1>1, <1>2, <1>3, <1>4, SourcedCases

-----------------------------------------------------------------------------
(* Brackets *)

HoldsGoverned == \E d \in carries.dispatches : d.tier = "governed"

\* The brackets of a governed run are the kernel's, and written ahead.
BracketInv ==
    HoldsGoverned => \A a \in DOMAIN brackets : brackets[a].by = "kernel" /\ brackets[a].input # none

BracketsKept ==
    \A a \in DOMAIN brackets' :
        (\E d \in carries.dispatches : d.tier = "governed") =>
            /\ brackets'[a].by = "kernel" /\ brackets'[a].input # none
            /\ a \in DOMAIN brackets =>
                  /\ brackets'[a].input = brackets[a].input
                  /\ brackets[a].result # none => brackets'[a] = brackets[a]

\* Under a governed dispatch a bracket is started once, by the kernel, and
\* completed once.
LEMMA BracketStep ==
    ASSUME LInv, BracketInv, [Next]_vars
    PROVE  BracketsKept
  <1> SUFFICES ASSUME HoldsGoverned, NEW a \in DOMAIN brackets'
               PROVE  /\ brackets'[a].by = "kernel" /\ brackets'[a].input # none
                      /\ a \in DOMAIN brackets =>
                            /\ brackets'[a].input = brackets[a].input
                            /\ brackets[a].result # none => brackets'[a] = brackets[a]
    BY Zenon DEF BracketsKept, HoldsGoverned
  <1>0. governed_activity_bracketing_is_required
    BY Zenon DEF governed_activity_bracketing_is_required, authorized_governed_runs, HoldsGoverned
  <1>1. CASE brackets' = brackets
    BY Zenon, <1>1 DEF BracketInv
  <1>2. ASSUME NEW b, NEW signer, NEW v \in {"v", "w"}, apply_activity_started(b, v, signer)
        PROVE  /\ brackets'[a].by = "kernel" /\ brackets'[a].input # none
               /\ a \in DOMAIN brackets =>
                     /\ brackets'[a].input = brackets[a].input
                     /\ brackets[a].result # none => brackets'[a] = brackets[a]
    <2>1. PICK x : brackets' = Put(brackets, b, [input |-> v, result |-> x, by |-> signer])
      BY Zenon, <1>2 DEF apply_activity_started
    <2>2. signer = "kernel" /\ b \notin DOMAIN brackets
      BY Zenon, <1>0, <1>2 DEF apply_activity_started
    <2> DEFINE n == [input |-> v, result |-> x, by |-> signer]
    <2>3. n.by = "kernel" /\ n.input = v /\ v # none
      BY <2>2, ScenarioAssumption
    <2> HIDE DEF n
    <2>4. DOMAIN brackets' = DOMAIN brackets \cup {b} /\ brackets'[b] = n
          /\ \A e \in DOMAIN brackets : e # b => brackets'[e] = brackets[e]
      BY Zenon, <2>1 DEF Put, n
    <2> QED BY Zenon, <2>2, <2>3, <2>4 DEF BracketInv
  <1>3. ASSUME NEW b, NEW signer, NEW v, apply_activity_completed(b, v, signer)
        PROVE  /\ brackets'[a].by = "kernel" /\ brackets'[a].input # none
               /\ a \in DOMAIN brackets =>
                     /\ brackets'[a].input = brackets[a].input
                     /\ brackets[a].result # none => brackets'[a] = brackets[a]
    <2>1. signer = "kernel" /\ b \in DOMAIN brackets /\ brackets[b].result = none
      BY Zenon, <1>0, <1>3 DEF apply_activity_completed
    <2> DEFINE n == [input |-> brackets[b].input, result |-> v, by |-> signer]
    <2>2. brackets' = Put(brackets, b, n)
      BY Zenon, <1>3, <2>1 DEF apply_activity_completed
    <2>3. n.by = "kernel" /\ n.input = brackets[b].input
      BY <2>1
    <2> HIDE DEF n
    <2>4. DOMAIN brackets' = DOMAIN brackets \cup {b} /\ brackets'[b] = n
          /\ \A e \in DOMAIN brackets : e # b => brackets'[e] = brackets[e]
      BY Zenon, <2>2 DEF Put
    <2> QED BY Zenon, <2>1, <2>3, <2>4 DEF BracketInv
  <1>4. brackets' = brackets \/ Bracket
    <2>1. CASE UNCHANGED vars
      BY Zenon, <2>1 DEF vars, dispatchVars
    <2>2. CASE Next
      <3>1. \A d, c : InstallDispatch(d, c) => brackets' = brackets
        BY Zenon, Installed DEF dispatchVars
      <3>2. \A k : Advances(k) => brackets' = brackets
        BY Zenon DEF Advances, dispatchVars
      <3> QED BY Zenon, <2>2, <3>1, <3>2, SourcedCases DEF Declared
    <2> QED BY Zenon, <2>1, <2>2
  <1> QED BY Zenon, <1>1, <1>2, <1>3, <1>4 DEF Bracket
-----------------------------------------------------------------------------
(* Dispatch *)

\* An instance stands under the key of its envelope, and its graph is declared.
Enveloped(u, gs) ==
    /\ \A g \in gs : g # none /\ g.max \in Nat
    /\ \A k \in DOMAIN u :
          LET d == u[k].dispatch IN
          /\ k = Key(d) /\ d.attempt \in Nat /\ d.attempt > 0
          /\ (d.graph # none) = (d.version \in {4, 5})
          /\ d.graph # none => d.graph \in gs

\* The dependencies of an envelope under key k are completed.
Met(u, k, d) ==
    d.graph # none =>
        \A n \in d.graph.nodes[k[1]].deps :
            \E j \in DOMAIN u : j[1] = n /\ u[j].phase = "Completed"
Behind(u) == \A k \in DOMAIN u : Met(u, k, u[k].dispatch)

OpenIn(u, g) == {k \in DOMAIN u : u[k].dispatch.graph = g /\ ~is_terminal(u[k].phase)}
Bounded(u, gs) ==
    /\ IsFiniteSet(DOMAIN u)
    /\ \A g \in gs : g.version = 2 => Cardinality(OpenIn(u, g)) <= g.max

\* A context names an attempt that failed for good.
Failure(u, c) ==
    /\ c # none /\ c.prior \in DOMAIN u
    /\ c.next.attempt = c.prior[2] + 1 /\ c.next.unit = c.prior[1]
    /\ u[c.prior].phase = "Failed" /\ u[c.prior].terminal = "Failed"
    /\ c.action \in DOMAIN u[c.prior].actions
    /\ u[c.prior].actions[c.action].receipt = "Failed"

Retries(u, cs) ==
    /\ \A c \in cs : Failure(u, c)
    /\ \A b, c \in cs : b.prior = c.prior => b = c
    /\ \A k \in DOMAIN u : NeedsContext(u[k].dispatch) =>
          u[k].retry \in cs /\ u[k].retry.next = u[k].dispatch

\* Only governed work records actions, and a retry records new ones.
NewDeeds(u, w) ==
    \A a \in DOMAIN w.actions :
        /\ governed(w)
        /\ NeedsContext(w.dispatch) =>
              \A b \in DOMAIN u[w.retry.prior].actions :
                  a # b /\ w.actions[a].idem # u[w.retry.prior].actions[b].idem
Fresh(u) == \A k \in DOMAIN u : NewDeeds(u, u[k])

DispatchSound(u, gs, cs) ==
    Enveloped(u, gs) /\ Behind(u) /\ Bounded(u, gs) /\ Retries(u, cs) /\ Fresh(u)

\* The workflows of u are those of t, further on.
Carried(u, t) == \A k \in DOMAIN u : k \in DOMAIN t /\ Kept(u[k], t[k])

\* A failed attempt stays failed, with the effect that failed it.
LEMMA FailureKept ==
    ASSUME NEW u, NEW t, NEW c, Failure(u, c), Carried(u, t)
    PROVE  Failure(t, c)
  <1>1. Kept(u[c.prior], t[c.prior]) /\ c.prior \in DOMAIN t
    BY Zenon DEF Failure, Carried
  <1>2. "terminal" \in Records /\ is_terminal("Failed") /\ "Failed" # none
    BY ScenarioAssumption DEF Records, is_terminal
  <1>3. t[c.prior].phase = "Failed" /\ t[c.prior].terminal = "Failed"
    BY Zenon, <1>1, <1>2 DEF Failure, Kept
  <1>4. /\ c.action \in DOMAIN t[c.prior].actions
        /\ t[c.prior].actions[c.action].receipt = "Failed"
    BY Zenon, <1>1, <1>2 DEF Failure, Kept, KeptAction
  <1> QED BY Zenon, <1>1, <1>3, <1>4 DEF Failure

\* A completed dependency stays completed.
LEMMA MetKept ==
    ASSUME NEW u, NEW t, Carried(u, t), NEW k, NEW d, Met(u, k, d)
    PROVE  Met(t, k, d)
  <1> SUFFICES ASSUME d.graph # none, NEW n \in d.graph.nodes[k[1]].deps
               PROVE  \E j \in DOMAIN t : j[1] = n /\ t[j].phase = "Completed"
    BY Zenon DEF Met
  <1>1. PICK j \in DOMAIN u : j[1] = n /\ u[j].phase = "Completed"
    BY Zenon DEF Met
  <1>2. is_terminal("Completed")
    BY DEF is_terminal
  <1>3. j \in DOMAIN t /\ t[j].phase = "Completed"
    BY Zenon, <1>1, <1>2 DEF Carried, Kept
  <1> QED BY Zenon, <1>1, <1>3

\* A run dispatches finitely many workflows.
LEMMA OpenInFinite ==
    ASSUME NEW u, IsFiniteSet(DOMAIN u), NEW g
    PROVE  IsFiniteSet(OpenIn(u, g)) /\ Cardinality(OpenIn(u, g)) \in Nat
  <1>1. OpenIn(u, g) \subseteq DOMAIN u
    BY Zenon DEF OpenIn
  <1>2. IsFiniteSet(OpenIn(u, g))
    BY <1>1, FS_Subset
  <1> QED BY <1>2, FS_CardinalityType

\* The attempt a retry repeats is over: it records no further action.
LEMMA PriorIsOver ==
    ASSUME NEW u, NEW t, NEW cs, Retries(u, cs), Carried(u, t),
           NEW k \in DOMAIN u, NeedsContext(u[k].dispatch)
    PROVE  LET p == u[k].retry.prior IN
           /\ DOMAIN t[p].actions = DOMAIN u[p].actions
           /\ \A b \in DOMAIN u[p].actions : t[p].actions[b].idem = u[p].actions[b].idem
  <1>1. Failure(u, u[k].retry)
    BY Zenon DEF Retries
  <1>2. is_terminal("Failed")
    BY DEF is_terminal
  <1>3. is_terminal(u[u[k].retry.prior].phase) /\ u[k].retry.prior \in DOMAIN u
    BY Zenon, <1>1, <1>2 DEF Failure
  <1> QED BY Zenon, <1>3 DEF Carried, Kept, KeptAction

\* A step that advances one workflow.
LEMMA DispatchAdvances ==
    ASSUME LInv, DispatchSound(wf, graphs, contexts), NEW k \in DOMAIN wf,
           Advances(k), Sourced(k)
    PROVE  DispatchSound(wf', graphs', contexts')
  <1>1. /\ DOMAIN wf' = DOMAIN wf /\ Kept(wf[k], wf'[k])
        /\ \A j \in DOMAIN wf : j # k => wf'[j] = wf[j]
        /\ graphs' = graphs /\ contexts' = contexts
    BY Zenon DEF Advances, Changes, Good, dispatchVars
  <1>2. Carried(wf, wf')
    BY Zenon, <1>1, KeptItself DEF Carried
  <1>3. \A j \in DOMAIN wf : wf'[j].dispatch = wf[j].dispatch /\ wf'[j].retry = wf[j].retry
    BY Zenon, <1>2 DEF Carried, Kept
  <1>4. \A j \in DOMAIN wf : is_terminal(wf[j].phase) => wf'[j].phase = wf[j].phase
    BY Zenon, <1>2 DEF Carried, Kept
  <1>5. Enveloped(wf', graphs')
    <2>1. Enveloped(wf, graphs)
      BY Zenon DEF DispatchSound
    <2> QED BY <1>1, <1>3, <2>1 DEF Enveloped
  <1>6. Behind(wf')
    <2>1. \A j \in DOMAIN wf : Met(wf', j, wf[j].dispatch)
      BY Zenon, <1>2, MetKept DEF DispatchSound, Behind
    <2> QED BY Zenon, <1>1, <1>3, <2>1 DEF Behind
  <1>7. Bounded(wf', graphs')
    <2>1. ASSUME NEW g \in graphs, g.version = 2
          PROVE  Cardinality(OpenIn(wf', g)) <= g.max
      <3>1. OpenIn(wf', g) \subseteq OpenIn(wf, g)
        BY Zenon, <1>1, <1>3, <1>4 DEF OpenIn
      <3>2. IsFiniteSet(DOMAIN wf) /\ Cardinality(OpenIn(wf, g)) <= g.max /\ g.max \in Nat
        BY Zenon, <2>1 DEF DispatchSound, Bounded, Enveloped
      <3>3. IsFiniteSet(OpenIn(wf, g)) /\ Cardinality(OpenIn(wf, g)) \in Nat
        BY Zenon, <3>2, OpenInFinite
      <3>4. /\ IsFiniteSet(OpenIn(wf', g))
            /\ Cardinality(OpenIn(wf', g)) <= Cardinality(OpenIn(wf, g))
        BY Zenon, <3>1, <3>3, FS_Subset
      <3>5. Cardinality(OpenIn(wf', g)) \in Nat
        BY Zenon, <3>4, FS_CardinalityType
      <3> QED BY <3>2, <3>3, <3>4, <3>5
    <2> QED BY Zenon, <1>1, <2>1 DEF DispatchSound, Bounded
  <1>8. Retries(wf', contexts')
    BY Zenon, <1>1, <1>2, <1>3, FailureKept DEF DispatchSound, Retries
  <1>9. Fresh(wf')
    <2> SUFFICES ASSUME NEW j \in DOMAIN wf, NEW a \in DOMAIN wf'[j].actions
                 PROVE  /\ governed(wf'[j])
                        /\ NeedsContext(wf'[j].dispatch) =>
                              \A b \in DOMAIN wf'[wf'[j].retry.prior].actions :
                                  /\ a # b
                                  /\ wf'[j].actions[a].idem #
                                         wf'[wf'[j].retry.prior].actions[b].idem
      BY Zenon, <1>1 DEF Fresh, NewDeeds
    <2> DEFINE p == wf[j].retry.prior
    <2>0. NeedsContext(wf[j].dispatch) =>
              /\ DOMAIN wf'[p].actions = DOMAIN wf[p].actions
              /\ \A b \in DOMAIN wf[p].actions : wf'[p].actions[b].idem = wf[p].actions[b].idem
      BY Zenon, <1>2, PriorIsOver DEF DispatchSound
    <2>1. /\ governed(wf[j])
          /\ NeedsContext(wf[j].dispatch) =>
                \A b \in DOMAIN wf[p].actions :
                    a # b /\ wf'[j].actions[a].idem # wf[p].actions[b].idem
      <3>1. CASE a \in DOMAIN wf[j].actions
        <4>1. wf'[j].actions[a].idem = wf[j].actions[a].idem
          BY Zenon, <1>2, <3>1 DEF Carried, Kept, KeptAction
        <4> QED BY Zenon, <3>1, <4>1 DEF DispatchSound, Fresh, NewDeeds
      <3>2. CASE a \notin DOMAIN wf[j].actions
        <4>1. j = k
          BY Zenon, <1>1, <3>2
        <4>2. NeedsContext(wf[k].dispatch) => wf[k].retry # none
          BY Zenon DEF DispatchSound, Retries, Failure
        <4> QED BY Zenon, <3>2, <4>1, <4>2 DEF Sourced
      <3> QED BY <3>1, <3>2
    <2>2. governed(wf'[j]) /\ wf'[j].retry.prior = p /\ wf'[j].dispatch = wf[j].dispatch
      BY Zenon, <1>3, <2>1 DEF governed
    <2> HIDE DEF p
    <2> QED BY Zenon, <2>0, <2>1, <2>2
  <1> QED BY Zenon, <1>5, <1>6, <1>7, <1>8, <1>9 DEF DispatchSound

\* A new envelope: the graph it names is declared, its dependencies are
\* completed, and there is room for one more.
LEMMA DispatchInstalls ==
    ASSUME LInv, DispatchSound(wf, graphs, contexts),
           NEW d \in carries.dispatches, NEW c, InstallDispatch(d, c), Earned(d, c)
    PROVE  DispatchSound(wf', graphs', contexts')
  <1> DEFINE key == Key(d)
             new == NewWorkflow(d, c)
  <1>1. /\ DOMAIN wf' = DOMAIN wf \cup {key} /\ key \notin DOMAIN wf
        /\ wf'[key] = new /\ \A j \in DOMAIN wf : wf'[j] = wf[j]
    BY Zenon, Installed
  <1>2. graphs' = graphs /\ contexts' = contexts /\ dispatch_envelope_valid(d)
    BY Zenon, Installed DEF dispatchVars
  <1>3. /\ new.dispatch = d /\ new.retry = c /\ new.phase = "Dispatched"
        /\ DOMAIN new.actions = {}
    BY DEF NewWorkflow
  <1>4. d.attempt \in Nat /\ (d.graph # none) = (d.version \in {4, 5})
    <2>1. carries \in Scenarios
      BY Zenon DEF LInv
    <2> QED BY <2>1, ScenarioAssumption
  <1>5. key[1] = d.unit
    BY DEF Key
  <1>6. d.attempt > 0
    BY Zenon, <1>2 DEF dispatch_envelope_valid
  <1>7. d.graph # none => validate_v4_graph_binding(d) /\ validate_v4_graph_schedule(d)
    <2>1. d.graph # none => d.version \in {4, 5}
      BY <1>4
    <2> QED BY Zenon, <2>1 DEF Earned
  <1>8. Carried(wf, wf')
    BY Zenon, <1>1, KeptItself DEF Carried
  <1>9. key = Key(d)
    OBVIOUS
  <1> HIDE DEF key, new
  <1>10. Enveloped(wf', graphs')
    <2>1. Enveloped(wf, graphs)
      BY Zenon DEF DispatchSound
    <2>2. d.graph # none => d.graph \in graphs
      BY Zenon, <1>7 DEF validate_v4_graph_binding
    <2> QED BY <1>1, <1>2, <1>3, <1>4, <1>6, <1>9, <2>1, <2>2 DEF Enveloped
  <1>11. Behind(wf')
    <2>1. \A j \in DOMAIN wf : Met(wf', j, wf[j].dispatch)
      BY Zenon, <1>8, MetKept DEF DispatchSound, Behind
    <2>2. ASSUME d.graph # none, NEW n \in d.graph.nodes[key[1]].deps
          PROVE  \E i \in DOMAIN wf' : i[1] = n /\ wf'[i].phase = "Completed"
      <3>1. PICK i \in LatestAttempt(d.graph, n) : wf[i].phase = "Completed"
        BY Zenon, <1>5, <1>7, <2>2 DEF validate_v4_graph_schedule
      <3>2. i \in DOMAIN wf /\ i[1] = n
        BY DEF LatestAttempt, SameGraph
      <3> QED BY Zenon, <1>1, <3>1, <3>2
    <2>3. Met(wf', key, d)
      BY Zenon, <2>2 DEF Met
    <2> QED BY Zenon, <1>1, <1>3, <2>1, <2>3 DEF Behind
  <1>12. Bounded(wf', graphs')
    <2>1. IsFiniteSet(DOMAIN wf)
      BY Zenon DEF DispatchSound, Bounded
    <2>2. IsFiniteSet(DOMAIN wf')
      BY Zenon, <1>1, <2>1, FS_AddElement
    <2>3. ASSUME NEW g \in graphs, g.version = 2
          PROVE  Cardinality(OpenIn(wf', g)) <= g.max
      <3>1. Cardinality(OpenIn(wf, g)) <= g.max /\ g.max \in Nat /\ g # none
        BY Zenon, <2>3 DEF DispatchSound, Bounded, Enveloped
      <3>2. IsFiniteSet(OpenIn(wf, g)) /\ Cardinality(OpenIn(wf, g)) \in Nat
        BY Zenon, <2>1, OpenInFinite
      <3>3. CASE d.graph # g
        <4>1. OpenIn(wf', g) = OpenIn(wf, g)
          BY Zenon, <1>1, <1>3, <3>3 DEF OpenIn
        <4> QED BY <3>1, <4>1
      <3>4. CASE d.graph = g
        <4>1. OpenIn(wf', g) = OpenIn(wf, g) \cup {key} /\ key \notin OpenIn(wf, g)
          <5>1. ~is_terminal("Dispatched")
            BY DEF is_terminal
          <5> QED BY Zenon, <1>1, <1>3, <3>4, <5>1 DEF OpenIn
        <4>2. Cardinality(OpenIn(wf', g)) = Cardinality(OpenIn(wf, g)) + 1
          BY Zenon, <3>2, <4>1, FS_AddElement
        <4>3. {k \in SameGraph(g) : ~is_terminal(wf[k].phase)} = OpenIn(wf, g)
          <5>1. \A k \in DOMAIN wf : wf[k].dispatch.graph = g => wf[k].dispatch.version \in {4, 5}
            BY <3>1 DEF DispatchSound, Enveloped
          <5> QED BY Zenon, <5>1 DEF SameGraph, OpenIn
        <4>4. Cardinality(OpenIn(wf, g)) < g.max
          BY Zenon, <1>7, <3>1, <3>4, <4>3 DEF validate_v4_graph_schedule
        <4> QED BY <3>1, <3>2, <4>2, <4>4
      <3> QED BY <3>3, <3>4
    <2> QED BY Zenon, <1>2, <2>2, <2>3 DEF Bounded
  <1>13. Retries(wf', contexts')
    <2>1. \A b \in contexts : Failure(wf', b)
      BY Zenon, <1>8, FailureKept DEF DispatchSound, Retries
    <2>2. NeedsContext(d) => c \in contexts /\ c.next = d
      BY Zenon DEF Earned, ContextFor
    <2> QED BY Zenon, <1>1, <1>2, <1>3, <2>1, <2>2 DEF DispatchSound, Retries
  <1>14. Fresh(wf')
    <2>1. \A j \in DOMAIN wf : NeedsContext(wf[j].dispatch) => wf[j].retry.prior \in DOMAIN wf
      BY Zenon DEF DispatchSound, Retries, Failure
    <2>2. ASSUME NEW j \in DOMAIN wf PROVE NewDeeds(wf', wf[j])
      <3>1. CASE NeedsContext(wf[j].dispatch)
        <4>1. wf'[wf[j].retry.prior] = wf[wf[j].retry.prior]
          BY Zenon, <1>1, <2>1, <3>1
        <4> QED BY Zenon, <3>1, <4>1 DEF DispatchSound, Fresh, NewDeeds
      <3>2. CASE ~NeedsContext(wf[j].dispatch)
        BY Zenon, <3>2 DEF DispatchSound, Fresh, NewDeeds
      <3> QED BY <3>1, <3>2
    <2>3. NewDeeds(wf', new)
      BY Zenon, <1>3 DEF NewDeeds
    <2> QED BY Zenon, <1>1, <2>2, <2>3 DEF Fresh
  <1> QED BY Zenon, <1>10, <1>11, <1>12, <1>13, <1>14 DEF DispatchSound

\* A declaration: a new graph has no work yet, and a context is recorded over
\* an attempt that failed and fed no retry before.
LEMMA DispatchDeclares ==
    ASSUME LInv, DispatchSound(wf, graphs, contexts), UNCHANGED <<carries, wf>>, Declared
    PROVE  DispatchSound(wf', graphs', contexts')
  <1>0. carries \in Scenarios /\ wf' = wf
    BY Zenon DEF LInv
  <1>1. CASE UNCHANGED <<graphs, contexts>>
    BY Zenon, <1>0, <1>1
  <1>2. ASSUME NEW g \in carries.graphs, apply_workflow_graph_declared(g)
        PROVE  DispatchSound(wf', graphs', contexts')
    <2>1. graphs' = graphs \cup {g} /\ contexts' = contexts
      BY Zenon, <1>2 DEF apply_workflow_graph_declared
    <2>2. g # none /\ g.max \in Nat
      BY Zenon, <1>0, <1>2, ScenarioAssumption
    <2>3. Enveloped(wf, graphs')
      BY <2>1, <2>2 DEF DispatchSound, Enveloped
    <2>4. ASSUME g \notin graphs PROVE Cardinality(OpenIn(wf, g)) <= g.max
      <3>1. OpenIn(wf, g) = {}
        BY Zenon, <2>2, <2>4 DEF DispatchSound, Enveloped, OpenIn
      <3> QED BY <2>2, <3>1, FS_EmptySet
    <2>5. Bounded(wf, graphs')
      BY Zenon, <2>1, <2>4 DEF DispatchSound, Bounded
    <2> QED BY Zenon, <1>0, <2>1, <2>3, <2>5 DEF DispatchSound
  <1>3. ASSUME NEW c \in carries.contexts, apply_attempt_context_recorded(c)
        PROVE  DispatchSound(wf', graphs', contexts')
    <2>1. graphs' = graphs /\ contexts' = contexts \cup {c}
      BY Zenon, <1>3 DEF apply_attempt_context_recorded
    <2>2. c # none
      BY Zenon, <1>0, <1>3, ScenarioAssumption
    <2>3. Failure(wf, c) /\ \A b \in contexts : b.prior # c.prior
      BY Zenon, <1>3, <2>2 DEF apply_attempt_context_recorded, Failure, Is,
         prior_attempt_failed, failed_effect_named, prior_attempt_unbound
    <2>4. Retries(wf, contexts')
      BY Zenon, <2>1, <2>3 DEF DispatchSound, Retries
    <2> QED BY Zenon, <1>0, <2>1, <2>4 DEF DispatchSound
  <1> QED BY Zenon, <1>1, <1>2, <1>3 DEF Declared

\* Every event keeps the dispatches sound.
LEMMA DispatchStep ==
    ASSUME LInv, DispatchSound(wf, graphs, contexts), [Next]_vars
    PROVE  DispatchSound(wf', graphs', contexts')
  <1>1. CASE UNCHANGED vars
    BY Zenon, <1>1 DEF vars, dispatchVars
  <1>2. CASE Next
    BY Zenon, <1>2, SourcedCases, DispatchAdvances, DispatchInstalls, DispatchDeclares
  <1> QED BY Zenon, <1>1, <1>2
-----------------------------------------------------------------------------
(* The projection *)

\* A tape is replayed from its first event (starts is empty), or after a
\* prefix whose projection is sound.
ASSUME StartsAreSound ==
    \A s \in Scenarios :
        /\ \A k \in DOMAIN s.starts : Local(s.starts[k])
        /\ ReviewSound(s.starts)
        /\ DispatchSound(s.starts,
               {s.starts[k].dispatch.graph : k \in DOMAIN s.starts} \ {none}, {})

\* The inductive invariant.
RInv ==
    LInv /\ BracketInv /\ ReviewSound(wf) /\ DispatchSound(wf, graphs, contexts)

\* An empty projection, or a sound prefix, satisfies the invariant.
LEMMA RInvStart == ReplayInit => RInv
  <1> SUFFICES ASSUME ReplayInit PROVE RInv
    OBVIOUS
  <1>1. LInv /\ ReviewSound(wf)
    BY Zenon, StartsAreSound DEF ReplayInit, LInv
  <1>2. DispatchSound(wf, graphs, contexts)
    BY Zenon, StartsAreSound DEF ReplayInit
  <1>3. BracketInv
    <2>1. DOMAIN <<>> = {}
      OBVIOUS
    <2> QED BY Zenon, <2>1 DEF ReplayInit, BracketInv
  <1> QED BY <1>1, <1>2, <1>3 DEF RInv

\* Every event preserves the invariant.
LEMMA RInvStep == RInv /\ [Next]_vars => RInv'
  <1> SUFFICES ASSUME RInv, [Next]_vars PROVE RInv'
    OBVIOUS
  <1>0. LInv /\ BracketInv /\ ReviewSound(wf) /\ DispatchSound(wf, graphs, contexts)
    BY Zenon DEF RInv
  <1>1. LInv' /\ carries' = carries
    BY Zenon, <1>0, LInvStep
  <1>2. BracketInv'
    BY Zenon, <1>0, <1>1, BracketStep DEF BracketInv, HoldsGoverned, BracketsKept
  <1>3. ReviewSound(wf')
    BY Zenon, <1>0, ReviewStep
  <1>4. DispatchSound(wf', graphs', contexts')
    BY Zenon, <1>0, DispatchStep
  <1> QED BY Zenon, <1>1, <1>2, <1>3, <1>4 DEF RInv

\* Hence every tape does.
LEMMA RInvAlways == Spec => []RInv
  BY RInvStart, RInvStep, PTL DEF Spec

\* No tape brings a governed sealed_v3 candidate to promotion without its
\* completed Git effect, sealed receipts, passed acceptance and approving V2
\* verdicts (apply_promotion_decision and the handlers before it).
THEOREM PromotionEarned == Spec => []PromotionIsEarned
  <1>1. RInv => PromotionIsEarned
    <2> SUFFICES ASSUME RInv, NEW k \in DOMAIN wf, wf[k].phase \in Promoting,
                        governed_atomic_sealed_v3(wf[k])
                 PROVE  /\ wf[k].completion /\ wf[k].sealed /\ wf[k].acceptance = "Passed"
                        /\ \E a \in DOMAIN wf[k].actions :
                              /\ wf[k].actions[a].cand = wf[k].candidate
                              /\ wf[k].actions[a].kind = "git"
                              /\ wf[k].actions[a].receipt = "Succeeded"
                        /\ wf[k].decision.kind = "Promote" /\ wf[k].decision.target
                        /\ wf[k].decision.refs # {}
                        /\ wf[k].approval # none => wf[k].decision.refs = wf[k].approval
                        /\ \A ref \in wf[k].decision.refs : \E r \in wf[k].reviews :
                              r.ref = ref /\ r.version = 2 /\ r.decision = "Approve"
      BY Zenon DEF PromotionIsEarned
    <2> DEFINE w == wf[k]
    <2>1. Built(w) /\ Standing(w)
      BY Zenon DEF RInv, LInv, Local
    <2>2. Decided(w) /\ w.decision.kind = "Promote"
      <3>1. w.phase # "Rejected"
        BY DEF Promoting
      <3> QED BY Zenon, <2>1, <3>1 DEF Standing, Undecided
    <2>3. w.completion /\ w.decision.target
      BY Zenon, <2>2 DEF Decided, candidate_completed, requires_candidate_completion
    <2>4. w.dispatch.version >= 3
      BY DEF governed_atomic_sealed_v3, governed_sealed, supports_sealed_action_evidence
    <2>5. w.decision.refs # {} /\ \A ref \in w.decision.refs : \E r \in w.reviews :
              r.ref = ref /\ r.version = 2 /\ r.decision = "Approve"
      BY Zenon, <2>2, <2>4 DEF Decided, review_refs_are_approved, VerdictVersionOk
    <2> QED BY Zenon, <2>1, <2>2, <2>3, <2>5 DEF Built, GitDone, Decided
  <1> QED BY <1>1, RInvAlways, PTL

\* Cancellation and promotion exclude each other on every tape, and a terminal
\* record closes no promotion whose result is open (apply_workflow_terminal).
THEOREM CleanEnds == Spec => []EndsAreClean
  <1>1. RInv => EndsAreClean
    <2> SUFFICES ASSUME RInv, NEW k \in DOMAIN wf
                 PROVE  /\ wf[k].cancellation # none =>
                            /\ wf[k].decision = none /\ wf[k].approval = none /\ ~wf[k].claim
                            /\ wf[k].phase = "Cancelled" =>
                                  \A a \in DOMAIN wf[k].actions : wf[k].actions[a].claimed =>
                                      /\ wf[k].actions[a].result \in {"Succeeded", "Failed"}
                                      /\ wf[k].actions[a].receipt # none
                        /\ wf[k].terminal # none /\ wf[k].decision # none =>
                            /\ wf[k].decision.kind = "Promote" => wf[k].result # none
                            /\ wf[k].result.outcome = "ReconciliationRequired" =>
                                   wf[k].resolution # none
                            /\ (wf[k].terminal = "Completed") = (wf[k].result.outcome = "Promoted")
      BY Zenon DEF EndsAreClean
    <2> DEFINE w == wf[k]
    <2>1. Standing(w) /\ Deeds(w)
      BY Zenon DEF RInv, LInv, Local
    <2>2. w.cancellation # none => Undecided(w)
      BY Zenon, <2>1 DEF Standing
    <2>3. ASSUME w.terminal # none, w.decision # none PROVE OnTheWay(w)
      BY Zenon, <2>1, <2>3 DEF Standing, Undecided
    <2>4. ASSUME w.terminal # none, w.decision # none
          PROVE  /\ w.result # none
                 /\ w.result.outcome = "ReconciliationRequired" => w.resolution # none
                 /\ (w.terminal = "Completed") = (w.result.outcome = "Promoted")
      BY <2>3, <2>4 DEF OnTheWay
    <2> QED BY Zenon, <2>1, <2>2, <2>4 DEF Undecided, Deeds, Deed
  <1> QED BY <1>1, RInvAlways, PTL

\* On every tape a V2 verdict rests on another workflow's sealed, succeeded
\* model action for this candidate (apply_review_verdict_v2).
THEOREM IndependentReviews == Spec => []ReviewsAreIndependent
  <1>1. RInv => ReviewsAreIndependent
    BY Zenon DEF RInv, ReviewSound, Backed, ReviewsAreIndependent
  <1> QED BY <1>1, RInvAlways, PTL

\* On every tape a receipt agrees with the result of its effect, whichever came
\* first, and a sealed_v3 set holds succeeded effects alone
\* (apply_action_receipt_recorded, apply_action_receipt_set_recorded).
THEOREM AgreeingReceipts == Spec => []ReceiptsAgree
  <1>1. RInv => ReceiptsAgree
    BY Zenon DEF RInv, LInv, Local, Deeds, Deed, requires_activity_claim_result, ReceiptsAgree
  <1> QED BY <1>1, RInvAlways, PTL

\* No event reopens a terminal phase, replaces a record, touches a sealed set or
\* rewrites a governed run's bracket (every handler of apply_event).
THEOREM NothingReopens == Spec => ClosedStaysClosed
  <1>1. RInv /\ [Next]_vars =>
          [/\ \A k \in DOMAIN wf :
              /\ wf[k].phase \in {"Rejected", "Completed", "Failed", "Cancelled"} =>
                    wf'[k].phase = wf[k].phase
              /\ \A f \in {"candidate", "acceptance", "approval", "decision", "result",
                           "resolution", "terminal", "cancellation"} :
                    wf[k][f] # none => wf'[k][f] = wf[k][f]
              /\ wf[k].reviews \subseteq wf'[k].reviews
              /\ wf[k].sealed => wf'[k].sealed /\ wf'[k].actions = wf[k].actions
           /\ \A a \in DOMAIN brackets' :
              (\E d \in carries.dispatches : d.tier = "governed") =>
                  /\ brackets'[a].by = "kernel" /\ brackets'[a].input # none
                  /\ a \in DOMAIN brackets =>
                        /\ brackets'[a].input = brackets[a].input
                        /\ brackets[a].result # none => brackets'[a] = brackets[a]]_vars
    <2> SUFFICES ASSUME RInv, [Next]_vars
                 PROVE  /\ \A k \in DOMAIN wf :
                            /\ is_terminal(wf[k].phase) => wf'[k].phase = wf[k].phase
                            /\ \A f \in Records : wf[k][f] # none => wf'[k][f] = wf[k][f]
                            /\ wf[k].reviews \subseteq wf'[k].reviews
                            /\ wf[k].sealed => wf'[k].sealed /\ wf'[k].actions = wf[k].actions
                        /\ BracketsKept
      BY Zenon DEF is_terminal, Records, BracketsKept
    <2>1. LInv /\ BracketInv
      BY Zenon DEF RInv
    <2>2. \A k \in DOMAIN wf : Kept(wf[k], wf'[k])
      BY Zenon, <2>1, LInvStep
    <2>3. BracketsKept
      BY Zenon, <2>1, BracketStep
    <2> QED BY Zenon, <2>2, <2>3 DEF Kept
  <1> QED BY <1>1, RInvAlways, PTL DEF Spec, ClosedStaysClosed

\* On every tape a unit runs behind completed dependencies within
\* max_concurrent, and a governed retry repeats one failed attempt under new
\* identities (validate_v4_graph_schedule, apply_attempt_context_recorded,
\* validate_retry_action_namespace).
THEOREM DispatchEarned == Spec => []DispatchIsEarned
  <1>1. RInv => DispatchIsEarned
    <2> SUFFICES ASSUME RInv PROVE DispatchIsEarned
      OBVIOUS
    <2>0. /\ Enveloped(wf, graphs) /\ Behind(wf) /\ Bounded(wf, graphs)
          /\ Retries(wf, contexts) /\ Fresh(wf)
      BY Zenon DEF RInv, DispatchSound
    <2>1. \A k \in DOMAIN wf : wf[k].dispatch.graph # none =>
              \A u \in wf[k].dispatch.graph.nodes[k[1]].deps :
                  \E j \in DOMAIN wf : j[1] = u /\ wf[j].phase = "Completed"
      BY Zenon, <2>0 DEF Behind, Met
    <2>2. \A g \in graphs : g.version = 2 =>
              Cardinality({k \in DOMAIN wf :
                  wf[k].dispatch.graph = g /\
                  wf[k].phase \notin {"Rejected", "Completed", "Failed", "Cancelled"}}) <= g.max
      BY <2>0 DEF Bounded, OpenIn, is_terminal
    <2>3. ASSUME NEW k \in DOMAIN wf
          PROVE  /\ k[1] = wf[k].dispatch.unit /\ k[2] = wf[k].dispatch.attempt
                 /\ k = <<k[1], k[2]>> /\ k[2] \in Nat /\ k[2] > 0
      BY <2>0 DEF Enveloped, Key
    <2>4. ASSUME NEW k \in DOMAIN wf, k[2] > 1, wf[k].dispatch.evidence = "sealed_v3",
                 wf[k].dispatch.tier = "governed"
          PROVE  /\ NeedsContext(wf[k].dispatch) /\ wf[k].retry \in contexts
                 /\ wf[k].retry.next = wf[k].dispatch /\ wf[k].retry.prior = <<k[1], k[2] - 1>>
                 /\ Failure(wf, wf[k].retry)
      <3>1. NeedsContext(wf[k].dispatch)
        BY <2>3, <2>4 DEF NeedsContext
      <3> DEFINE c == wf[k].retry
      <3>2. c \in contexts /\ c.next = wf[k].dispatch /\ Failure(wf, c)
        BY Zenon, <2>0, <3>1 DEF Retries
      <3>3. /\ c.prior \in DOMAIN wf /\ c.next.attempt = c.prior[2] + 1
            /\ c.next.unit = c.prior[1]
        BY Zenon, <3>2 DEF Failure
      <3>4. c.prior = <<c.prior[1], c.prior[2]>> /\ c.prior[2] \in Nat
        BY Zenon, <2>3, <3>3
      <3>5. k[1] = c.prior[1] /\ k[2] = c.prior[2] + 1 /\ k[2] \in Nat
        BY Zenon, <2>3, <3>2, <3>3
      <3> HIDE DEF c
      <3>6. c.prior[2] = k[2] - 1
        BY <3>4, <3>5
      <3>7. c.prior = <<k[1], k[2] - 1>>
        BY Zenon, <3>4, <3>5, <3>6
      <3> QED BY Zenon, <3>1, <3>2, <3>7 DEF c
    <2>5. \A k \in DOMAIN wf :
              k[2] > 1 /\ wf[k].dispatch.evidence = "sealed_v3"
                       /\ wf[k].dispatch.tier = "governed" =>
                  LET prior == <<k[1], k[2] - 1>> IN
                  /\ prior \in DOMAIN wf /\ wf[prior].terminal = "Failed"
                  /\ \E c \in contexts : /\ c.next = wf[k].dispatch /\ c.prior = prior
                                         /\ wf[prior].actions[c.action].receipt = "Failed"
      <3> SUFFICES ASSUME NEW k \in DOMAIN wf, k[2] > 1,
                          wf[k].dispatch.evidence = "sealed_v3", wf[k].dispatch.tier = "governed"
                   PROVE  LET prior == <<k[1], k[2] - 1>> IN
                          /\ prior \in DOMAIN wf /\ wf[prior].terminal = "Failed"
                          /\ \E c \in contexts :
                                /\ c.next = wf[k].dispatch /\ c.prior = prior
                                /\ wf[prior].actions[c.action].receipt = "Failed"
        BY Zenon
      <3>1. /\ wf[k].retry \in contexts /\ wf[k].retry.next = wf[k].dispatch
            /\ wf[k].retry.prior = <<k[1], k[2] - 1>> /\ Failure(wf, wf[k].retry)
        BY Zenon, <2>4
      <3> QED BY Zenon, <3>1 DEF Failure
    <2>6. \A b, c \in contexts : b.prior = c.prior => b = c
      BY Zenon, <2>0 DEF Retries
    <2>7. ASSUME NEW k \in DOMAIN wf, NEW j \in DOMAIN wf, k[1] = j[1], k[2] = j[2] + 1,
                 wf[k].dispatch.evidence = "sealed_v3",
                 NEW a \in DOMAIN wf[k].actions, NEW b \in DOMAIN wf[j].actions
          PROVE  a # b /\ wf[k].actions[a].idem # wf[j].actions[b].idem
      <3>1. wf[k].dispatch.tier = "governed"
        BY Zenon, <2>0 DEF Fresh, NewDeeds, governed
      <3>2. k[2] > 1 /\ k[2] - 1 = j[2]
        BY <2>3, <2>7
      <3>3. NeedsContext(wf[k].dispatch) /\ wf[k].retry.prior = <<k[1], k[2] - 1>>
        BY Zenon, <2>4, <2>7, <3>1, <3>2
      <3>4. j = <<j[1], j[2]>>
        BY Zenon, <2>3
      <3>5. wf[k].retry.prior = j
        BY Zenon, <2>7, <3>2, <3>3, <3>4
      <3> QED BY Zenon, <2>0, <3>3, <3>5 DEF Fresh, NewDeeds
    <2> QED BY Zenon, <2>1, <2>2, <2>5, <2>6, <2>7 DEF DispatchIsEarned
  <1> QED BY <1>1, RInvAlways, PTL

-----------------------------------------------------------------------------
(* Recovery.  Its answers are operators on the projection, so the invariant *)
(* of replay (RInv) and what no event takes back (Kept) settle them.       *)

\* Publishing changes no projection: below, recovery is replay.
LEMMA ReplayUnderneath == recoverySpec => Spec
  <1>1. Init => ReplayInit
    BY Zenon DEF Init
  <1>2. [RecoveryNext]_<<vars, recoveryVars>> => [Next]_vars
    BY Zenon DEF RecoveryNext, Append, Checkpoint, open_with_event_limit,
       persist_workflow_instance_snapshot_cache, EarlierRelease
  <1> QED BY <1>1, <1>2, PTL DEF recoverySpec, Spec

\* A recorded result, once settled, is settled for good: result and receipt
\* are written once and agree (classify_replayed_governed_action).
LEMMA ActionAnswerStands ==
    ASSUME NEW w, NEW v, Local(w), Local(v), Kept(w, v),
           NEW a \in DOMAIN w.actions, NEW expired,
           classify_replayed_governed_action(w, a, expired)
               \in {"ReuseRecordedResult", "TerminalFailure"}
    PROVE  classify_replayed_governed_action(v, a, expired)
               = classify_replayed_governed_action(w, a, expired)
  <1> DEFINE x == w.actions[a]
             y == v.actions[a]
  <1>1. /\ Deed(w, x) /\ a \in DOMAIN v.actions /\ KeptAction(x, y) /\ Deed(v, y)
        /\ v.dispatch = w.dispatch
    BY Zenon DEF Local, Deeds, Kept
  <1>2. /\ action_identity_matches_query(w, a) /\ x.claimed
        /\ model_action_evidence_is_well_formed(x)
    BY DEF classify_replayed_governed_action, claim_is_well_formed
  <1>3. /\ requires_activity_claim_result(w) /\ requires_activity_claim_result(v)
        /\ action_identity_matches_query(v, a)
    BY Zenon, <1>1, <1>2 DEF action_identity_matches_query, governed_atomic_sealed_v3,
       governed_sealed, supports_sealed_action_evidence, governed, requires_activity_claim_result
  <1>4. none \notin {"Succeeded", "Failed", "Denied", "Unknown", "v2"}
    BY ScenarioAssumption, RecoveryAssumption
  <1>5. x.receipt # none => x.result = x.receipt
    BY Zenon, <1>1, <1>3 DEF Deed
  <1>6. y.receipt # none => y.result = y.receipt
    BY Zenon, <1>1, <1>3 DEF Deed
  <1>7. x.result # none
    BY <1>2, <1>4, <1>5 DEF classify_replayed_governed_action, classify_unclosed_action,
       claim_is_well_formed
  <1>8. y.result = x.result /\ y.claimed /\ y.kind = x.kind
    BY Zenon, <1>1, <1>2, <1>7 DEF KeptAction
  <1>9. model_action_evidence_is_well_formed(y)
    BY Zenon, <1>1, <1>2, <1>4, <1>8 DEF KeptAction, model_action_evidence_is_well_formed
  <1>10. successful_model_result_has_bound_receipt(x) => successful_model_result_has_bound_receipt(y)
    BY Zenon, <1>1, <1>4, <1>8 DEF KeptAction, successful_model_result_has_bound_receipt
  <1>11. result_and_receipt_agree(x) /\ result_and_receipt_agree(y)
    BY Zenon, <1>5, <1>6 DEF result_and_receipt_agree
  <1>12. successful_model_result_has_bound_receipt(x)
    BY <1>2, <1>7, <1>11 DEF classify_replayed_governed_action, claim_is_well_formed
  <1> QED BY <1>2, <1>3, <1>7, <1>8, <1>9, <1>10, <1>11, <1>12
          DEF classify_replayed_governed_action, claim_is_well_formed

\* A settled promotion, once reported, is reported for good: a reject decision
\* can only be followed by a plain rejection, and only an open reconciliation
\* by a resolution (classify_replayed_governed_promotion_recovery).
LEMMA PromotionAnswerStands ==
    ASSUME NEW w, NEW v, Local(w), Local(v), Kept(w, v),
           classify_replayed_governed_promotion_recovery(w)
               \in {"ReuseRecordedPromotion", "RecordedRejection"}
    PROVE  classify_replayed_governed_promotion_recovery(v)
               = classify_replayed_governed_promotion_recovery(w)
  <1>1. w.candidate # none /\ w.decision # none
    BY DEF classify_replayed_governed_promotion_recovery,
           promotion_decision_identity_matches_query
  <1>2. {"candidate", "decision", "result", "resolution"} \subseteq Records
    BY DEF Records
  <1>3. /\ v.candidate = w.candidate /\ v.decision = w.decision
        /\ w.result # none => v.result = w.result
        /\ w.resolution # none => v.resolution = w.resolution
    BY Zenon, <1>1, <1>2 DEF Kept
  <1>4. /\ v.decision.kind = "Reject" /\ v.result # none => v.result.outcome = "Rejected"
        /\ v.decision.kind \in {"Promote", "Reject"}
        /\ v.resolution # none => v.result # none /\ v.result.outcome = "ReconciliationRequired"
    BY <1>1, <1>3 DEF Local, Standing, Undecided, OnTheWay
  <1>5. v.result # none /\ v.result.outcome = "Rejected" => v.result.sync = none
    BY Zenon DEF Local, Plain
  <1>6. CASE w.result = none
    <2>1. w.decision.kind # "Promote"
      BY <1>1, <1>6 DEF classify_replayed_governed_promotion_recovery,
         promotion_decision_identity_matches_query, classify_undone_promotion
    <2>2. classify_replayed_governed_promotion_recovery(w) = "RecordedRejection"
      BY <1>1, <1>6, <2>1 DEF classify_replayed_governed_promotion_recovery,
         promotion_decision_identity_matches_query, classify_undone_promotion
    <2>3. CASE v.result = none
      BY <1>1, <1>3, <2>1, <2>2, <2>3 DEF classify_replayed_governed_promotion_recovery,
         promotion_decision_identity_matches_query, classify_undone_promotion
    <2>4. CASE v.result # none
      <3>1. v.result.outcome = "Rejected" /\ v.result.sync = none /\ v.resolution = none
        BY <1>3, <1>4, <1>5, <2>1, <2>4
      <3>2. classify_promotion_result(v, v.result) = "RecordedRejection"
        BY <3>1 DEF classify_promotion_result, promotion_result_evidence_is_well_formed
      <3> QED BY <1>1, <1>3, <2>2, <2>4, <3>2 DEF classify_replayed_governed_promotion_recovery,
                 promotion_decision_identity_matches_query
    <2> QED BY <2>3, <2>4
  <1>7. CASE w.result # none
    <2> DEFINE r == w.result
    <2>1. v.result = r
      BY <1>3, <1>7
    <2>2. /\ classify_replayed_governed_promotion_recovery(w) = classify_promotion_result(w, r)
          /\ classify_replayed_governed_promotion_recovery(v) = classify_promotion_result(v, r)
      BY <1>1, <1>3, <1>7, <2>1 DEF classify_replayed_governed_promotion_recovery,
         promotion_decision_identity_matches_query
    <2>3. CASE r.outcome = "ReconciliationRequired"
      <3>1. w.resolution # none
        BY <2>2, <2>3 DEF classify_promotion_result, classify_recorded_promotion_reconciliation
      <3>2. v.resolution = w.resolution
        BY <1>3, <3>1
      <3> QED BY <1>3, <2>2, <3>2 DEF classify_promotion_result,
                 classify_recorded_promotion_reconciliation
    <2>4. CASE r.outcome # "ReconciliationRequired"
      <3>1. v.resolution = none
        BY <1>4, <2>1, <2>4
      <3>2. w.resolution = none
        BY <1>3, <3>1
      <3> QED BY <1>3, <2>2, <3>1, <3>2 DEF classify_promotion_result,
                 classify_recorded_promotion_reconciliation
    <2> QED BY <2>3, <2>4
  <1> QED BY <1>6, <1>7

\* The dispatch and the admission receipt that put a workflow into the snapshot
\* stay (is_trusted_governed_recovery_workflow).
LEMMA SnapshotKeeps ==
    ASSUME NEW w, NEW v, Kept(w, v), is_trusted_governed_recovery_workflow(w)
    PROVE  is_trusted_governed_recovery_workflow(v)
  BY Zenon DEF Kept, is_trusted_governed_recovery_workflow, governed_atomic_sealed_v3,
     governed_sealed, supports_sealed_action_evidence, governed, requires_activity_claim_result

\* What one event leaves of the answers.
Stand ==
    \A k \in DOMAIN Snapshot :
         /\ k \in DOMAIN Snapshot'
         /\ \A a \in DOMAIN wf[k].actions, expired \in BOOLEAN :
               LET said == classify_replayed_governed_action(wf[k], a, expired) IN
               said \in {"ReuseRecordedResult", "TerminalFailure"} =>
                   classify_replayed_governed_action(wf'[k], a, expired) = said
         /\ LET said == classify_replayed_governed_promotion_recovery(wf[k]) IN
            said \in {"ReuseRecordedPromotion", "RecordedRejection"} =>
                classify_replayed_governed_promotion_recovery(wf'[k]) = said

\* On every tape, no later event turns a reusable result, a failure, a promotion
\* or a rejection that recovery reported into anything else, and no workflow
\* drops out of the snapshot (open_trusted_governed_recovery_snapshot and the
\* two classifiers).
THEOREM AnswersStand == recoverySpec => RecoveryAnswersStand
  <1>1. RInv /\ [Next]_vars => [Stand]_vars
    <2> SUFFICES ASSUME RInv, [Next]_vars PROVE Stand
      OBVIOUS
    <2>1. /\ \A k \in DOMAIN wf : Local(wf[k])
          /\ \A k \in DOMAIN wf' : Local(wf'[k])
          /\ \A k \in DOMAIN wf : k \in DOMAIN wf' /\ Kept(wf[k], wf'[k])
      BY Zenon, LInvStep DEF RInv, LInv
    <2>2. /\ DOMAIN Snapshot = {k \in DOMAIN wf : is_trusted_governed_recovery_workflow(wf[k])}
          /\ DOMAIN Snapshot' = {k \in DOMAIN wf' : is_trusted_governed_recovery_workflow(wf'[k])}
      BY Zenon DEF Snapshot
    <2> SUFFICES ASSUME NEW k \in DOMAIN Snapshot
                 PROVE  /\ k \in DOMAIN Snapshot'
                        /\ \A a \in DOMAIN wf[k].actions, expired \in BOOLEAN :
                              classify_replayed_governed_action(wf[k], a, expired)
                                  \in {"ReuseRecordedResult", "TerminalFailure"} =>
                              classify_replayed_governed_action(wf'[k], a, expired)
                                  = classify_replayed_governed_action(wf[k], a, expired)
                        /\ classify_replayed_governed_promotion_recovery(wf[k])
                               \in {"ReuseRecordedPromotion", "RecordedRejection"} =>
                           classify_replayed_governed_promotion_recovery(wf'[k])
                               = classify_replayed_governed_promotion_recovery(wf[k])
      BY Zenon DEF Stand
    <2>3. /\ is_trusted_governed_recovery_workflow(wf[k]) /\ k \in DOMAIN wf'
          /\ Local(wf[k]) /\ Local(wf'[k]) /\ Kept(wf[k], wf'[k])
      BY Zenon, <2>1, <2>2
    <2>4. k \in DOMAIN Snapshot'
      BY Zenon, <2>2, <2>3, SnapshotKeeps
    <2>5. ASSUME NEW a \in DOMAIN wf[k].actions, NEW expired \in BOOLEAN,
                 classify_replayed_governed_action(wf[k], a, expired)
                     \in {"ReuseRecordedResult", "TerminalFailure"}
          PROVE  classify_replayed_governed_action(wf'[k], a, expired)
                     = classify_replayed_governed_action(wf[k], a, expired)
      BY <2>3, <2>5, ActionAnswerStands
    <2>6. classify_replayed_governed_promotion_recovery(wf[k])
              \in {"ReuseRecordedPromotion", "RecordedRejection"} =>
          classify_replayed_governed_promotion_recovery(wf'[k])
              = classify_replayed_governed_promotion_recovery(wf[k])
      BY Zenon, <2>3, PromotionAnswerStands
    <2> QED BY Zenon, <2>4, <2>5, <2>6
  <1>2. [][Stand]_vars => RecoveryAnswersStand
    BY PTL DEF RecoveryAnswersStand, Stand
  <1> QED BY <1>1, <1>2, ReplayUnderneath, RInvAlways, PTL DEF Spec

-----------------------------------------------------------------------------
(* The snapshot cache has an invariant of its own: a snapshot or a row as  *)
(* old as the tape tells the tape.                                         *)

\* A row is no younger than the tape, and one as old as the tape is the tape,
\* less what an earlier release left out.
RowTells(row, k) ==
    /\ row = [count |-> row.count, proj |-> row.proj, omits |-> row.omits]
    /\ row.count \in Nat /\ row.count <= length
    /\ row.count = length => row.proj = wf[k] /\ row.omits \subseteq Omittable(wf[k])

\* So is a snapshot that waits for its publication.
SnapTells ==
    snap # none =>
        /\ snap.count \in Nat /\ snap.count <= length
        /\ DOMAIN snap.seen # {} /\ IsFiniteSet(DOMAIN snap.seen)
        /\ snap.count = length => snap.seen = Snapshot

CacheInv ==
    /\ length \in Nat /\ IsFiniteSet(DOMAIN wf) /\ IsFiniteSet(DOMAIN cache)
    /\ carries.publishes \/ (snap = none /\ DOMAIN cache = {})
    /\ SnapTells
    /\ DOMAIN cache = {} \/ Cardinality(DOMAIN cache) + carries.others <= MaxRows
    /\ \A k \in DOMAIN cache : RowTells(cache[k], k)
    /\ answer # "Conflict"

\* One publication: what it may change.
CacheStep ==
    /\ \A k \in DOMAIN cache' :
           k \notin DOMAIN cache \/ (k \in DOMAIN cache /\ cache'[k] # cache[k]) =>
               cache'[k].count = length /\ cache'[k].proj = wf[k]
    /\ Cardinality(DOMAIN cache') + carries.others <= MaxRows \/ cache' = cache
    /\ answer' # "Conflict"

\* The capacity check counts the rows that would be new; the legacy rows it has
\* set aside come back as rows of the snapshot (publish, the row limit).
LEMMA RowsFit ==
    ASSUME NEW seen, NEW rows, NEW kept, NEW others \in Nat, NEW max \in Nat,
           IsFiniteSet(seen), IsFiniteSet(rows), seen # {},
           kept \subseteq rows, rows \ kept \subseteq seen,
           rows = {} \/ Cardinality(rows) + others <= max,
           seen \ kept = {} \/ Cardinality(kept) + others + Cardinality(seen \ kept) <= max
    PROVE  IsFiniteSet(seen \cup rows) /\ Cardinality(seen \cup rows) + others <= max
  <1>1. IsFiniteSet(seen \cup rows)
    BY Zenon, FS_Union
  <1>2. CASE seen \ kept = {}
    <2>1. seen \cup rows = rows /\ rows # {}
      BY Zenon, <1>2
    <2> QED BY Zenon, <1>1, <2>1
  <1>3. CASE seen \ kept # {}
    <2>1. IsFiniteSet(kept) /\ IsFiniteSet(seen \ kept)
      BY Zenon, FS_Subset, FS_Difference
    <2>2. /\ Cardinality(kept) \in Nat /\ Cardinality(seen \ kept) \in Nat
          /\ Cardinality({}) = 0
      BY Zenon, <2>1, FS_CardinalityType, FS_EmptySet
    <2>3. seen \cup rows = kept \cup (seen \ kept) /\ kept \cap (seen \ kept) = {}
      BY Zenon
    <2>4. Cardinality(kept \cup (seen \ kept))
              = Cardinality(kept) + Cardinality(seen \ kept) - Cardinality(kept \cap (seen \ kept))
      BY Zenon, <2>1, FS_Union
    <2>5. Cardinality(seen \cup rows) = Cardinality(kept) + Cardinality(seen \ kept) - 0
      BY Zenon, <2>2, <2>3, <2>4
    <2> QED BY <1>1, <1>3, <2>2, <2>5
  <1> QED BY <1>2, <1>3

\* What the constants say of the tape at hand.
LEMMA TapeCounts ==
    ASSUME LInv
    PROVE  /\ carries.prefix \in Nat /\ carries.others \in Nat /\ MaxRows \in Nat
           /\ IsFiniteSet(DOMAIN carries.starts)
  BY Zenon, RecoveryAssumption DEF LInv

\* Nothing is cached before the first publication.
LEMMA CacheStart == ASSUME Init PROVE CacheInv
  <1>1. ReplayInit /\ LInv
    BY Zenon, RInvStart DEF Init, RInv
  <1>2. length \in Nat /\ IsFiniteSet(DOMAIN wf)
    BY Zenon, <1>1, TapeCounts DEF Init, ReplayInit
  <1>3. DOMAIN cache = {} /\ snap = none /\ answer # "Conflict"
    BY RecoveryAssumption DEF Init
  <1> QED BY Zenon, <1>2, <1>3, FS_EmptySet DEF CacheInv, SnapTells

\* One more event leaves every snapshot and every row older than the tape.
LEMMA TapeGrows ==
    ASSUME CacheInv, carries.publishes, carries' = carries, length' = length + 1,
           IsFiniteSet(DOMAIN wf'), snap' = snap, cache' = cache, answer' = answer
    PROVE  CacheInv'
  <1>1. length \in Nat /\ length' \in Nat
    BY DEF CacheInv
  <1>2. SnapTells'
    BY <1>1 DEF CacheInv, SnapTells
  <1>3. ASSUME NEW k \in DOMAIN cache PROVE RowTells(cache[k], k)'
    <2>1. RowTells(cache[k], k)
      BY Zenon DEF CacheInv
    <2> QED BY <1>1, <2>1 DEF RowTells
  <1> QED BY Zenon, <1>1, <1>2, <1>3 DEF CacheInv

\* An event of the tape, a dispatch of a new workflow included.
LEMMA AppendAges ==
    ASSUME LInv, CacheInv, Append
    PROVE  CacheInv' /\ cache' = cache /\ answer' = answer
  <1>1. /\ Next /\ snap' = snap /\ cache' = cache /\ answer' = answer
        /\ length' = IF carries.publishes THEN length + 1 ELSE length
    BY Zenon DEF Append
  <1>2. carries' = carries
    BY Zenon, <1>1, LInvStep
  <1>3. IsFiniteSet(DOMAIN wf')
    <2>1. IsFiniteSet(DOMAIN wf)
      BY Zenon DEF CacheInv
    <2>2. CASE UNCHANGED <<carries, wf>>
      BY Zenon, <2>1, <2>2
    <2>3. ASSUME NEW d, NEW c, InstallDispatch(d, c) PROVE IsFiniteSet(DOMAIN wf')
      <3>1. DOMAIN wf' = DOMAIN wf \cup {Key(d)}
        BY Zenon, <2>3, Installed
      <3> QED BY Zenon, <2>1, <3>1, FS_AddElement
    <2>4. ASSUME NEW k \in DOMAIN wf, Advances(k) PROVE IsFiniteSet(DOMAIN wf')
      <3>1. DOMAIN wf' = DOMAIN wf
        BY Zenon, <2>4 DEF Advances, Changes
      <3> QED BY Zenon, <2>1, <3>1
    <2> QED BY Zenon, <1>1, <2>2, <2>3, <2>4, SourcedCases
  <1>4. CASE carries.publishes
    <2>1. length' = length + 1
      BY Zenon, <1>1, <1>4
    <2> QED BY Zenon, <1>1, <1>2, <1>3, <1>4, <2>1, TapeGrows
  <1>5. CASE ~carries.publishes
    <2>1. snap = none /\ DOMAIN cache = {} /\ length' = length
      BY Zenon, <1>1, <1>5 DEF CacheInv
    <2> QED BY Zenon, <1>1, <1>2, <1>3, <2>1 DEF CacheInv, SnapTells
  <1> QED BY Zenon, <1>1, <1>4, <1>5

\* A signed checkpoint counts as an event.
LEMMA CheckpointAges ==
    ASSUME CacheInv, Checkpoint
    PROVE  CacheInv' /\ cache' = cache /\ answer' = answer
  <1>1. /\ carries.publishes /\ length' = length + 1 /\ snap' = snap /\ cache' = cache
        /\ answer' = answer /\ carries' = carries /\ wf' = wf
    BY Zenon DEF Checkpoint, vars, dispatchVars
  <1>2. IsFiniteSet(DOMAIN wf')
    BY Zenon, <1>1 DEF CacheInv
  <1> QED BY Zenon, <1>1, <1>2, TapeGrows

\* The workflows of a snapshot, and its copies of them.
LEMMA SnapshotFacts ==
    ASSUME CacheInv
    PROVE  /\ IsFiniteSet(DOMAIN Snapshot)
           /\ \A k \in DOMAIN Snapshot : Snapshot[k] = wf[k]
  <1>1. DOMAIN Snapshot \subseteq DOMAIN wf /\ \A k \in DOMAIN Snapshot : Snapshot[k] = wf[k]
    BY Zenon DEF Snapshot
  <1>2. IsFiniteSet(DOMAIN wf)
    BY Zenon DEF CacheInv
  <1> QED BY Zenon, <1>1, <1>2, FS_Subset

\* A fresh snapshot is the tape's.
LEMMA OpenTells ==
    ASSUME CacheInv, open_with_event_limit
    PROVE  CacheInv' /\ cache' = cache /\ answer' = answer
  <1>1. /\ carries.publishes /\ snap' = [count |-> length, seen |-> Snapshot]
        /\ length' = length /\ cache' = cache /\ answer' = answer
        /\ carries' = carries /\ wf' = wf /\ DOMAIN Snapshot # {}
    BY Zenon DEF open_with_event_limit, vars, dispatchVars, snapshot_indexes_are_unique
  <1>2. Snapshot' = Snapshot
    BY Zenon, <1>1 DEF Snapshot
  <1>3. length \in Nat /\ IsFiniteSet(DOMAIN Snapshot)
    BY Zenon, SnapshotFacts DEF CacheInv
  <1>4. snap'.count = length /\ snap'.seen = Snapshot
    BY <1>1
  <1>5. length <= length
    BY <1>3
  <1>6. SnapTells'
    BY Zenon, <1>1, <1>2, <1>3, <1>4, <1>5 DEF SnapTells
  <1>7. \A k \in DOMAIN cache : RowTells(cache[k], k) => RowTells(cache[k], k)'
    BY Zenon, <1>1 DEF RowTells
  <1> QED BY Zenon, <1>1, <1>6, <1>7 DEF CacheInv

\* A row as old as the snapshot is the row it would write, or an exact legacy
\* row that has been set aside: publication never meets another one.
LEMMA NoConflict ==
    ASSUME CacheInv, snap # none, snap.count = length PROVE ~CacheConflict(Migrated)
  <1> SUFFICES ASSUME NEW k \in DOMAIN snap.seen, k \in DOMAIN Migrated,
                      ~(Migrated[k].count < snap.count), Migrated[k] # Entry(k)
               PROVE  FALSE
    BY Zenon DEF CacheConflict
  <1> DEFINE row == cache[k]
             entry == Entry(k)
  <1>1. k \in DOMAIN cache /\ ~is_exact_legacy_cache_projection(row, entry) /\ Migrated[k] = row
    BY Zenon DEF Migrated
  <1>2. RowTells(row, k) /\ snap.seen = Snapshot /\ length \in Nat
    BY Zenon, <1>1 DEF CacheInv, SnapTells
  <1>3. snap.seen[k] = wf[k]
    BY Zenon, <1>2, SnapshotFacts
  <1>4. row.count = length
    BY <1>1, <1>2 DEF RowTells
  <1>5. row.proj = wf[k] /\ row.omits \subseteq Omittable(wf[k])
    BY Zenon, <1>2, <1>4 DEF RowTells
  <1>6. entry.count = length /\ entry.proj = wf[k]
    BY <1>3 DEF Entry
  <1>7. row.omits = {}
    BY Zenon, <1>1, <1>4, <1>5, <1>6 DEF is_exact_legacy_cache_projection
  <1>8. row = [count |-> length, proj |-> wf[k], omits |-> {}]
    BY Zenon, <1>2, <1>4, <1>5, <1>7 DEF RowTells
  <1>9. row = entry
    BY Zenon, <1>3, <1>8 DEF Entry
  <1> QED BY Zenon, <1>1, <1>9

\* Rows written from the tape as it stands, within the capacity.
LEMMA Written ==
    ASSUME CacheInv, NEW rows, cache' = Upserted(rows),
           length' = length, wf' = wf, carries' = carries, carries.publishes,
           snap' = snap \/ snap' = none, answer' # "Conflict",
           \A k \in DOMAIN rows :
               \E omits \in SUBSET Omittable(wf[k]) :
                   rows[k] = [count |-> length, proj |-> wf[k], omits |-> omits],
           IsFiniteSet(DOMAIN rows \cup DOMAIN cache),
           Cardinality(DOMAIN rows \cup DOMAIN cache) + carries.others <= MaxRows
    PROVE  CacheInv' /\ CacheStep
  <1>1. /\ DOMAIN cache' = DOMAIN rows \cup DOMAIN cache
        /\ \A k \in DOMAIN rows : cache'[k] = rows[k]
        /\ \A k \in DOMAIN cache \ DOMAIN rows : cache'[k] = cache[k]
    BY Zenon DEF Upserted
  <1>2. length \in Nat
    BY Zenon DEF CacheInv
  <1>3. ASSUME NEW k \in DOMAIN rows
        PROVE  RowTells(cache'[k], k) /\ cache'[k].count = length /\ cache'[k].proj = wf[k]
    <2>1. PICK omits \in SUBSET Omittable(wf[k]) :
              cache'[k] = [count |-> length, proj |-> wf[k], omits |-> omits]
      BY Zenon, <1>1
    <2> QED BY <1>2, <2>1 DEF RowTells
  <1>4. ASSUME NEW k \in DOMAIN cache \ DOMAIN rows PROVE RowTells(cache'[k], k)
    BY Zenon, <1>1 DEF CacheInv
  <1>5. \A k \in DOMAIN cache' : RowTells(cache'[k], k)
    BY Zenon, <1>1, <1>3, <1>4
  <1>6. \A row, k : RowTells(row, k)' <=> RowTells(row, k)
    BY Zenon DEF RowTells
  <1>7. Snapshot' = Snapshot
    BY Zenon DEF Snapshot
  <1>8. SnapTells'
    BY Zenon, <1>7 DEF CacheInv, SnapTells
  <1>9. CacheInv'
    BY Zenon, <1>1, <1>5, <1>6, <1>8 DEF CacheInv
  <1>10. CacheStep
    BY Zenon, <1>1, <1>3 DEF CacheStep
  <1> QED BY <1>9, <1>10

\* A publication writes the snapshot whole, or nothing at all.
LEMMA PublishTells ==
    ASSUME LInv, CacheInv, persist_workflow_instance_snapshot_cache
    PROVE  CacheInv' /\ CacheStep
  <1>1. /\ snap # none /\ answer' = PublicationAnswer /\ snap' = none
        /\ cache' = IF PublicationAnswer = "Published"
                    THEN Upserted([k \in DOMAIN snap.seen |-> Entry(k)]) ELSE cache
        /\ length' = length /\ wf' = wf /\ carries' = carries
    BY Zenon DEF persist_workflow_instance_snapshot_cache, vars, dispatchVars
  <1>2. /\ carries.publishes /\ length \in Nat
        /\ DOMAIN snap.seen # {} /\ IsFiniteSet(DOMAIN snap.seen)
        /\ snap.count = length => snap.seen = Snapshot
    BY Zenon, <1>1 DEF CacheInv, SnapTells
  <1>3. PublicationAnswer # "Conflict"
    BY <1>1, NoConflict DEF PublicationAnswer, SourceChanged
  <1>4. CASE PublicationAnswer # "Published"
    <2>1. cache' = cache
      BY Zenon, <1>1, <1>4
    <2>2. \A k \in DOMAIN cache : RowTells(cache[k], k) => RowTells(cache[k], k)'
      BY Zenon, <1>1, <2>1 DEF RowTells
    <2>3. CacheInv'
      BY Zenon, <1>1, <1>2, <1>3, <2>1, <2>2 DEF CacheInv, SnapTells
    <2>4. CacheStep
      BY Zenon, <1>1, <1>3, <2>1 DEF CacheStep
    <2> QED BY <2>3, <2>4
  <1>5. CASE PublicationAnswer = "Published"
    <2> DEFINE rows == [k \in DOMAIN snap.seen |-> Entry(k)]
               seen == DOMAIN snap.seen
               kept == DOMAIN Migrated
               new == seen \ kept
    <2>1. snap.count = length /\ ~CacheFull(Migrated)
      BY <1>5 DEF PublicationAnswer, SourceChanged
    <2>2. DOMAIN rows = seen /\ \A k \in seen : rows[k] = Entry(k)
      BY Zenon
    <2>3. ASSUME NEW k \in seen
          PROVE  \E omits \in SUBSET Omittable(wf[k]) :
                     rows[k] = [count |-> length, proj |-> wf[k], omits |-> omits]
      <3>1. snap.seen[k] = wf[k]
        BY Zenon, <1>2, <2>1, SnapshotFacts
      <3>2. rows[k] = [count |-> length, proj |-> wf[k], omits |-> {}]
        BY Zenon, <2>1, <2>2, <3>1 DEF Entry
      <3> QED BY Zenon, <3>2
    <2>4. kept \subseteq DOMAIN cache /\ DOMAIN cache \ kept \subseteq seen
      BY Zenon DEF Migrated
    <2>5. /\ carries.others \in Nat /\ MaxRows \in Nat /\ IsFiniteSet(DOMAIN cache)
          /\ DOMAIN cache = {} \/ Cardinality(DOMAIN cache) + carries.others <= MaxRows
      BY Zenon, TapeCounts DEF CacheInv
    <2>6. IsFiniteSet(kept) /\ IsFiniteSet(new)
      BY Zenon, <1>2, <2>4, <2>5, FS_Subset, FS_Difference
    <2>7. Cardinality(kept) \in Nat /\ Cardinality(new) \in Nat
      BY Zenon, <2>6, FS_CardinalityType
    <2>8. new = {} \/ ~(Cardinality(kept) + carries.others + Cardinality(new) > MaxRows)
      BY Zenon, <2>1 DEF CacheFull
    <2> HIDE DEF kept, new, seen, rows
    <2>9. new = {} \/ Cardinality(kept) + carries.others + Cardinality(new) <= MaxRows
      BY <2>5, <2>7, <2>8
    <2>10. /\ IsFiniteSet(seen \cup DOMAIN cache)
           /\ Cardinality(seen \cup DOMAIN cache) + carries.others <= MaxRows
      <3>1. new = seen \ kept /\ IsFiniteSet(seen) /\ seen # {}
        BY Zenon, <1>2 DEF new, seen
      <3> QED BY Zenon, <2>4, <2>5, <2>9, <3>1, RowsFit
    <2>11. cache' = Upserted(rows)
      BY Zenon, <1>1, <1>5 DEF rows
    <2>12. answer' # "Conflict"
      BY Zenon, <1>1, <1>3
    <2> QED BY Zenon, <1>1, <1>2, <2>2, <2>3, <2>10, <2>11, <2>12, Written
  <1> QED BY <1>4, <1>5

\* So does one by an earlier release, which leaves the additive fields out.
LEMMA EarlierTells ==
    ASSUME CacheInv, NEW fields, EarlierRelease(fields)
    PROVE  CacheInv' /\ CacheStep
  <1> DEFINE rows == [k \in DOMAIN Snapshot |->
                        [count |-> length, proj |-> wf[k], omits |-> fields \cap Omittable(wf[k])]]
  <1>1. /\ carries.publishes /\ cache' = Upserted(rows) /\ length' = length /\ snap' = snap
        /\ Cardinality(DOMAIN Snapshot \cup DOMAIN cache) + carries.others <= MaxRows
        /\ answer' = answer /\ wf' = wf /\ carries' = carries
    BY Zenon DEF EarlierRelease, vars, dispatchVars
  <1>2. /\ DOMAIN rows = DOMAIN Snapshot
        /\ \A k \in DOMAIN rows : \E omits \in SUBSET Omittable(wf[k]) :
               rows[k] = [count |-> length, proj |-> wf[k], omits |-> omits]
    BY Zenon
  <1>3. IsFiniteSet(DOMAIN Snapshot \cup DOMAIN cache)
    <2>1. IsFiniteSet(DOMAIN Snapshot) /\ IsFiniteSet(DOMAIN cache)
      BY Zenon, SnapshotFacts DEF CacheInv
    <2> QED BY Zenon, <2>1, FS_Union
  <1>4. answer' # "Conflict"
    BY Zenon, <1>1 DEF CacheInv
  <1> HIDE DEF rows
  <1> QED BY Zenon, <1>1, <1>2, <1>3, <1>4, Written

\* However the tape and the publisher interleave, a row is written only from
\* the tape as it stands at that moment, the rows stay within the limit, and a
\* row left by an earlier release never blocks publication
\* (persist_workflow_instance_snapshot_cache under its source check).
THEOREM CacheSound == recoverySpec => CacheTellsTheTape
  <1>1. Init => CacheInv
    BY CacheStart
  <1>2. LInv /\ CacheInv /\ [RecoveryNext]_<<vars, recoveryVars>>
            => CacheInv' /\ [CacheStep]_<<vars, recoveryVars>>
    <2> SUFFICES ASSUME LInv, CacheInv, [RecoveryNext]_<<vars, recoveryVars>>
                 PROVE  CacheInv' /\ CacheStep
      BY Zenon
    <2>1. CASE cache' = cache /\ answer' = answer
      <3>1. CacheStep
        BY Zenon, <2>1 DEF CacheInv, CacheStep
      <3>2. CASE UNCHANGED <<vars, recoveryVars>>
        <4>1. /\ length' = length /\ wf' = wf /\ carries' = carries /\ snap' = snap
              /\ cache' = cache /\ answer' = answer
          BY Zenon, <3>2 DEF vars, dispatchVars, recoveryVars
        <4>2. Snapshot' = Snapshot
          BY Zenon, <4>1 DEF Snapshot
        <4>3. \A k \in DOMAIN cache : RowTells(cache[k], k) => RowTells(cache[k], k)'
          BY Zenon, <4>1 DEF RowTells
        <4>4. CacheInv'
          BY Zenon, <4>1, <4>2, <4>3 DEF CacheInv, SnapTells
        <4> QED BY <3>1, <4>4
      <3> QED BY Zenon, <3>1, <3>2, AppendAges, CheckpointAges, OpenTells, PublishTells,
                 EarlierTells DEF RecoveryNext
    <2>2. CASE ~(cache' = cache /\ answer' = answer)
      <3>1. RecoveryNext
        BY Zenon, <2>2 DEF recoveryVars
      <3> QED BY Zenon, <2>2, <3>1, AppendAges, CheckpointAges, OpenTells, PublishTells,
                 EarlierTells DEF RecoveryNext
    <2> QED BY <2>1, <2>2
  <1>3. RInv => LInv
    BY Zenon DEF RInv
  <1>4. [][CacheStep]_<<vars, recoveryVars>> => CacheTellsTheTape
    BY PTL DEF CacheTellsTheTape, CacheStep
  <1> QED BY <1>1, <1>2, <1>3, <1>4, ReplayUnderneath, RInvAlways, PTL DEF recoverySpec
=============================================================================
