--------------------------- MODULE WorkflowActions ---------------------------
(***************************************************************************)
(* The action evidence of a governed sealed dispatch, as trusted replay    *)
(* rebuilds it (bp-replay/src/transitions.rs): a write-ahead request, for  *)
(* a model an intent and an authorization, the activity claim and its      *)
(* result, the terminal receipt, and the receipt set that seals them all.  *)
(* Every timestamp window is a property of one event and the records it    *)
(* names; only timely events reach the actions here, the windows           *)
(* themselves are those of ActivityReplay.                                 *)
(***************************************************************************)
EXTENDS WorkflowDispatch, FiniteSetsExt

ResultOutcomes == {"Succeeded", "Failed", "Unknown"}
ReceiptOutcomes == {"Succeeded", "Failed", "Denied", "Unknown"}

\* A request is [key, id, kind, idem, ns, cand]: cand is the candidate whose
\* ref a Git candidate-create action is named after, ns the retry namespace
\* its identifiers carry.
NewAction(r) ==
    [kind |-> r.kind, idem |-> r.idem, cand |-> r.cand, intent |-> none,
     auth |-> none, claimed |-> FALSE, result |-> none, receipt |-> none, tokens |-> none]

HasAction(k, a) == Is(k) /\ a \in DOMAIN wf[k].actions
SetAction(k, a, x) == wf' = [wf EXCEPT ![k].actions[a] = x]
\* The phase and the receipt set still admit effects.
EffectsOpen(w) == w.phase = "Dispatched" /\ ~w.sealed

-----------------------------------------------------------------------------
(* Write-ahead request *)

\* A retry's actions live in the namespace of the context it consumed and
\* never carry an identity of the attempt before.
validate_retry_action_namespace(w, r) ==
    w.retry # none =>
        /\ r.ns = w.retry.ns
        /\ \A a \in DOMAIN wf[w.retry.prior].actions :
              r.id # a /\ r.idem # wf[w.retry.prior].actions[a].idem

apply_action_requested(r) ==
    /\ Is(r.key) /\ governed_sealed(wf[r.key])
    /\ validate_retry_action_namespace(wf[r.key], r)
    /\ EffectsOpen(wf[r.key])
    /\ \A a \in DOMAIN wf[r.key].actions :
          a # r.id /\ wf[r.key].actions[a].idem # r.idem
    /\ wf' = [wf EXCEPT ![r.key].actions = Put(@, r.id, NewAction(r))]
    /\ UNCHANGED dispatchVars

-----------------------------------------------------------------------------
(* Model authority *)

reviewer_like(role) == role \in {"reviewer", "adversary", "judge"}

\* The candidate a review binds: another workflow's, already accepted.
candidate_binding_matches_replay(k, target) ==
    \E j \in DOMAIN wf \ {k} :
        wf[j].candidate = target /\ wf[j].acceptance = "Passed"

\* target is the candidate binding of the intent, "own" when it has none.
intent_binding_valid(k, target) ==
    /\ wf[k].dispatch.role # "candidate"
    /\ wf[k].dispatch.role = "implementer" => target = "own"
    /\ reviewer_like(wf[k].dispatch.role) => target # "own"
    /\ target # "own" => candidate_binding_matches_replay(k, target)

apply_model_action_intent(k, a, target) ==
    /\ HasAction(k, a) /\ governed_atomic_sealed_v3(wf[k])
    /\ LET x == wf[k].actions[a] IN
       /\ x.kind = "model" /\ intent_binding_valid(k, target)
       /\ ~wf[k].sealed /\ x.receipt = none /\ x.result = none
       /\ x.intent = none
       /\ SetAction(k, a, [x EXCEPT !.intent = target])
    /\ UNCHANGED dispatchVars

apply_model_action_authorized_v1(k, a) ==
    /\ HasAction(k, a) /\ governed_sealed(wf[k])
    /\ ~requires_activity_claim_result(wf[k]) /\ EffectsOpen(wf[k])
    /\ LET x == wf[k].actions[a] IN
       /\ x.kind = "model" /\ x.receipt = none /\ x.auth = none
       /\ SetAction(k, a, [x EXCEPT !.auth = "v1"])
    /\ UNCHANGED dispatchVars

\* The V2 authorization repeats its intent's binding.
apply_model_action_authorized_v2(k, a) ==
    /\ HasAction(k, a) /\ governed_atomic_sealed_v3(wf[k]) /\ EffectsOpen(wf[k])
    /\ LET x == wf[k].actions[a] IN
       /\ x.intent # none /\ x.receipt = none /\ x.result = none /\ x.auth = none
       /\ SetAction(k, a, [x EXCEPT !.auth = "v2"])
    /\ UNCHANGED dispatchVars

model_authority_current(w, x) ==
    requires_activity_claim_result(w) /\ x.kind = "model" =>
        x.intent # none /\ x.auth = "v2"

-----------------------------------------------------------------------------
(* Activity claim and result *)

apply_activity_claimed(k, a) ==
    /\ HasAction(k, a) /\ governed_sealed(wf[k]) /\ EffectsOpen(wf[k])
    /\ LET x == wf[k].actions[a] IN
       /\ model_authority_current(wf[k], x)
       /\ x.receipt = none /\ ~x.claimed
       /\ SetAction(k, a, [x EXCEPT !.claimed = TRUE])
    /\ UNCHANGED dispatchVars

\* Accepted in every phase: a claimed effect may still report after the
\* workflow was cancelled or closed.
apply_activity_result_recorded(k, a, outcome) ==
    /\ HasAction(k, a)
    /\ LET x == wf[k].actions[a] IN
       /\ x.claimed /\ x.result = none /\ x.receipt = none
       /\ model_authority_current(wf[k], x)
       /\ SetAction(k, a, [x EXCEPT !.result = outcome])
    /\ UNCHANGED dispatchVars

-----------------------------------------------------------------------------
(* Terminal receipt *)

\* usage is the sum of both token observations, none when they are absent.
PriorModelReceipts(w, a) ==
    {b \in DOMAIN w.actions \ {a} :
        w.actions[b].kind = "model" /\ w.actions[b].receipt # none}
TokenSum(w, S) == MapThenSumSet(LAMBDA b : w.actions[b].tokens, S)

validate_governed_model_token_budget(w, a, usage) ==
    requires_activity_claim_result(w) =>
        LET prior == PriorModelReceipts(w, a) IN
        /\ usage # none
        /\ \A b \in prior : w.actions[b].tokens # none
        /\ TokenSum(w, prior) + usage <= w.dispatch.maxTokens

model_receipt_authorized(w, x) ==
    x.auth # none /\ (requires_activity_claim_result(w) => x.auth = "v2")

\* sealed_v3 demands the result and the same outcome (a denied effect has
\* none); sealed-v2 only that the two do not contradict each other.
activity_claim_result_matches_receipt(w, x, outcome) ==
    IF requires_activity_claim_result(w)
    THEN x.result # none /\ outcome = x.result
    ELSE x.claimed =>
           \/ x.result = "Failed" /\ outcome # "Succeeded"
           \/ x.result \in {"Succeeded", "Unknown"} /\ outcome = x.result

ReceiptsOpen(w, x) ==
    /\ ~w.sealed
    /\ w.phase = "Dispatched" \/ (w.phase = "CancellationRequested" /\ x.result # none)

apply_action_receipt_recorded(k, a, outcome, usage) ==
    /\ HasAction(k, a) /\ governed_sealed(wf[k])
    /\ LET w == wf[k]
           x == w.actions[a] IN
       /\ ReceiptsOpen(w, x)
       /\ x.kind = "model" /\ outcome = "Succeeded" =>
             /\ validate_governed_model_token_budget(w, a, usage)
             /\ model_receipt_authorized(w, x)
       /\ activity_claim_result_matches_receipt(w, x, outcome)
       /\ x.receipt = none
       /\ SetAction(k, a, [x EXCEPT !.receipt = outcome, !.tokens = usage])
    /\ UNCHANGED dispatchVars

-----------------------------------------------------------------------------
(* Recovery sets and the sealed receipt set *)

unknown_action_ids(w) ==
    {a \in DOMAIN w.actions :
        "Unknown" \in {w.actions[a].result, w.actions[a].receipt}}
failed_action_ids(w) ==
    {a \in DOMAIN w.actions \ unknown_action_ids(w) :
        /\ requires_activity_claim_result(w)
        /\ w.actions[a].result = "Failed" \/ w.actions[a].receipt \in {"Failed", "Denied"}}
pending_action_ids(w) ==
    {a \in DOMAIN w.actions \ (unknown_action_ids(w) \cup failed_action_ids(w)) :
        w.actions[a].receipt = none}

evidence_closed_pending_only(w) == pending_action_ids(w) = {}
evidence_closed(w) ==
    /\ pending_action_ids(w) = {} /\ unknown_action_ids(w) = {}
    /\ requires_activity_claim_result(w) =>
          /\ \A a \in DOMAIN w.actions : w.actions[a].result # none
          /\ failed_action_ids(w) = {}

apply_action_receipt_set_recorded(k) ==
    /\ Is(k) /\ governed_sealed(wf[k]) /\ EffectsOpen(wf[k])
    /\ evidence_closed(wf[k])
    /\ wf' = [wf EXCEPT ![k].sealed = TRUE]
    /\ UNCHANGED dispatchVars
=============================================================================
