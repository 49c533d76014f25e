---------------------------- MODULE ReviewStore ----------------------------
(***************************************************************************)
(* The native controls of the model lane (bp-ledger storage/sqlite.rs):    *)
(* the write-ahead intent of a model action, the token preflight of its    *)
(* provider, the authorization and lease of the one provider call, its     *)
(* result, and the review verdict with its promotion approval request.  An *)
(* implementer's intent is issued by the ledger; a reviewer's is signed by *)
(* the planner, bound to an accepted candidate, and adopted.               *)
(***************************************************************************)
EXTENDS ActionTape

VARIABLES
    role,      \* execution_role of the model action
    lineage,   \* the authority pins a governed reviewer lineage
    intentRow  \* model_action_intents: the adopted or issued intent event

fixed == <<role, lineage>>
reviewVars == <<tapeVars, fixed, intentRow>>

ModelActions == {"model", "preflight"}

\* The planner's part of the tape: a dispatch and its model action, and for a
\* reviewer the candidate with its proofs first and the bound intent last.
AcceptedTape(outcome) ==
    <<Signed("candidate", none, none, none), Signed("completion", none, none, none),
      Signed("acceptance", none, outcome, none)>>
RequestedTape(intents) ==
    <<Signed("dispatch", none, none, none), Signed("action", "model", none, none)>>
        \o [i \in 1 .. intents |-> Signed("intent", "model", none, none)]

\* The acceptance has a checkpoint of its own, or was covered with its tail.
ReviewInit ==
    /\ \/ /\ role = "implementer" /\ tape = RequestedTape(0) /\ lineage = FALSE
          /\ ckpts = <<Len(tape)>>
       \/ /\ role = "reviewer" /\ lineage \in BOOLEAN
          /\ \E outcome \in {"passed", "rejected"}, intents \in 0 .. 2 :
                /\ outcome = "rejected" => intents = 1
                /\ tape = AcceptedTape(outcome) \o RequestedTape(intents)
          /\ ckpts \in {<<2, 3, Len(tape)>>, <<2, Len(tape)>>}
    /\ rows = [a \in ModelActions |-> none]
    /\ intentRow = none /\ now = 0

-----------------------------------------------------------------------------
(* The intent *)

\* ModelActionIntentAuthorityLane::permits
LanePermits(lane) == lane = role

\* verify_reviewer_candidate_binding: one completion and one acceptance, which
\* passed and, under a pinned lineage, has exactly one checkpoint ending at it.
LineageCheckpoint == lineage => EndsAt(The("acceptance", none))
ReviewableCandidate ==
    /\ Exactly("completion", none) /\ Exactly("acceptance", none)
    /\ tape[The("acceptance", none)].out = "passed"
    /\ LineageCheckpoint

\* verify_model_action_intent_issue_evidence: the signed dispatch and the one
\* model action of its attempt.
IntentEvidence == Exactly("dispatch", none) /\ Exactly("action", "model")

\* ensure_single_model_action_intent_for_sealed_dispatch_attempt
FirstIntent == ~Has("intent", "model")

\* ensure_model_action_intent_lifecycle_is_open
LifecycleOpen == ~Has("receipt", "model") /\ ~Has("receipt_set", none)

\* adopt_signed_reviewer_model_action_intent: the evidence is judged as of the
\* time the planner signed the intent.
AdoptAnswer ==
    IF Exactly("intent", "model") /\ IntentEvidence /\ ReviewableCandidate
    THEN "adopted" ELSE "rejected"

IntentAnswer(lane) ==
    IF ~LanePermits(lane) THEN "rejected"
    ELSE IF intentRow # none THEN "existing"
    ELSE IF lane = "reviewer" THEN AdoptAnswer
    ELSE IF IntentEvidence /\ FirstIntent /\ DispatchLive /\ LifecycleOpen
         THEN "issued" ELSE "rejected"

\* The events an intent step adds, and the row it leaves.
IntentEvents(answer) ==
    IF answer = "issued" THEN <<Signed("intent", "model", none, none)>> ELSE <<>>
IntentRow(answer) ==
    CASE answer = "issued"  -> Len(tape) + 1
      [] answer = "adopted" -> The("intent", "model")
      [] OTHER              -> intentRow

\* issue_model_action_intent_v1 serves implementers only.
IssueIntent ==
    LET answer == IntentAnswer("implementer") IN
    /\ tape' = tape \o IntentEvents(answer)
    /\ intentRow' = IntentRow(answer)
    /\ UNCHANGED <<ckpts, rows, now, fixed>>

-----------------------------------------------------------------------------
(* The provider token preflight *)

\* verify_recorded_provider_token_preflight_for_model_action_v1 looks the action
\* up by the name derived from the model action.
PreflightNamed == intentRow # none /\ rows["preflight"] # none

\* issue_provider_token_preflight_action_v1: the projected intent first, then
\* a live dispatch, even for an action that is already signed.
IssuePreflightAnswer ==
    IF intentRow = none \/ ~DispatchLive THEN "rejected" ELSE IssueAnswer("preflight")
IssuePreflight ==
    Issue("preflight", IssuePreflightAnswer) /\ UNCHANGED <<fixed, intentRow>>

ClaimPreflightAnswer ==
    IF Has("action", "preflight") THEN ClaimAnswer("preflight") ELSE "rejected"
ClaimPreflight ==
    Claim("preflight", ClaimPreflightAnswer) /\ UNCHANGED <<fixed, intentRow>>

RecordPreflight(out) ==
    RecordResult("preflight", out, none) /\ UNCHANGED <<fixed, intentRow>>

\* verify_recorded_provider_token_preflight_v1
PreflightRecorded ==
    PreflightNamed /\ SucceededInOrder("preflight")

-----------------------------------------------------------------------------
(* The model action *)

\* The intent, authorization and claim on the tape are the ones the rows name.
AuthorityProjected ==
    intentRow # none /\ Exactly("intent", "model") /\ Exactly("authorization", "model")
ClaimLineage == AuthorityProjected /\ Exactly("claim", "model")

\* resolve_existing_governed_model_authorization: authority that exists is
\* answered whatever the time, and an expired lease is never granted again.
ExistingAuthority ==
    IF ~ClaimLineage THEN "reconcile"
    ELSE IF rows["model"].state = "recorded" THEN "recorded"
    ELSE IF now < rows["model"].expires THEN "pending" ELSE "lease_expired"

AuthorizeAnswer(lane) ==
    IF ~LanePermits(lane) THEN "rejected"
    ELSE IF rows["model"] # none THEN ExistingAuthority
    ELSE IF IntentAnswer(lane) = "rejected" \/ ~DispatchLive \/ ~LifecycleOpen
         THEN "rejected" ELSE "granted"

\* Intent, authorization and lease are one transaction: what is refused later
\* in it takes the adopted intent back.
Authorize(lane) ==
    LET answer == AuthorizeAnswer(lane)
        intent == IF answer = "granted" THEN IntentAnswer(lane) ELSE "existing" IN
    /\ tape' = IF answer = "granted"
               THEN tape \o IntentEvents(intent)
                    \o <<Signed("authorization", "model", none, none),
                         Signed("claim", "model", none, none)>>
               ELSE tape
    /\ intentRow' = IntentRow(intent)
    /\ rows' = IF answer = "granted"
               THEN [rows EXCEPT !["model"] = NewLease]
               ELSE rows
    /\ UNCHANGED <<ckpts, now, fixed>>

RecordModel(out, decision) ==
    RecordResult("model", out, decision) /\ UNCHANGED <<fixed, intentRow>>
=============================================================================
