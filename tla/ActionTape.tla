----------------------------- MODULE ActionTape -----------------------------
(***************************************************************************)
(* What the governed controls of bp-ledger storage/sqlite.rs share: the    *)
(* signed tape of one run as they read it, the window of its dispatch, and *)
(* the leases of activity_claims, one row per action.  Signatures, digests *)
(* and the equality of every copied field are abstracted to the action an  *)
(* event is about and the value it carries (a tree, a verdict); an event   *)
(* is named by its place on the tape.  For each control, XAnswer is the    *)
(* disposition it reports in the current state and X the transaction.      *)
(***************************************************************************)
EXTENDS RunTape, FiniteSets, Functions

CONSTANTS
    DispatchExpires,  \* end of the signed dispatch window
    LeaseDuration,    \* config.model_action_lease_ms
    none

VARIABLES
    tape,   \* the signed ordinary events of the run
    ckpts,  \* its checkpoints (RunTape)
    rows,   \* activity_claims, by action
    now

tapeVars == <<tape, ckpts, rows, now>>

Signed(kind, act, out, val) ==
    [kind |-> kind, act |-> act, out |-> out, val |-> val]

-----------------------------------------------------------------------------
(* Reading the tape *)

EventsOf(kind, act) ==
    {i \in DOMAIN tape : tape[i].kind = kind /\ tape[i].act = act}
Has(kind, act) == EventsOf(kind, act) # {}
The(kind, act) == CHOOSE i \in EventsOf(kind, act) : TRUE
Alone(S) == \E x \in S : S = {x}
Exactly(kind, act) == Alone(EventsOf(kind, act))
\* tape_event_precedes
Before(k1, a1, k2, a2) == The(k1, a1) < The(k2, a2)

ReceiptsOf(act) == EventsOf("receipt", act)
ReceiptSets == EventsOf("receipt_set", none)

\* One transaction: the events of the disposition that writes, or nothing.
Commit(answer, writing, events) ==
    tape' = IF answer = writing THEN tape \o events ELSE tape

\* validate_governed_dispatch: the signed window is half-open.
DispatchLive == now < DispatchExpires

\* verify_governed_v5_completion_checkpoint: exactly one checkpoint ends at
\* the completion; one over a longer prefix does not count.
EndsAt(i) == Alone({c \in DOMAIN ckpts : ckpts[c] = i})

-----------------------------------------------------------------------------
(* Leases *)

\* The lease ends with the dispatch window at the latest.
LeaseEnd ==
    IF now + LeaseDuration < DispatchExpires THEN now + LeaseDuration
    ELSE DispatchExpires

NewLease == [state |-> "granted", expires |-> LeaseEnd, at |-> none,
             out |-> none, val |-> none]

\* claim_activity_v1_at_with_evidence_authority, after the lane has rebuilt
\* the claim from signed evidence under a live dispatch.
ClaimAnswer_regrants(act) ==
    LET row == rows[act] IN
    IF ~DispatchLive THEN "rejected"
    ELSE IF row = none THEN "granted"
    ELSE IF row.state = "recorded" THEN "recorded"
    ELSE IF now < row.expires THEN "pending" ELSE "granted"
ClaimAnswer(act) ==
    LET row == rows[act] IN
    IF ~DispatchLive THEN "rejected"
    ELSE IF row = none THEN "granted"
    ELSE IF row.state = "recorded" THEN "recorded"
    ELSE IF now < row.expires THEN "pending" ELSE "lease_expired"

Claim(act, answer) ==
    /\ Commit(answer, "granted", <<Signed("claim", act, none, none)>>)
    /\ rows' = IF answer = "granted"
               THEN [rows EXCEPT ![act] = NewLease]
               ELSE rows
    /\ UNCHANGED <<ckpts, now>>

\* A late success or failure leaves the lease open; unknown always closes it.
ResultAnswer(act, out) ==
    IF rows[act].state = "recorded"
    THEN IF rows[act].out = out THEN "existing" ELSE "conflict"
    ELSE IF now >= rows[act].expires /\ out # "unknown" THEN "lease_expired"
    ELSE "recorded"

RecordResult(act, out, val) ==
    LET answer == ResultAnswer(act, out) IN
    /\ Commit(answer, "recorded", <<Signed("result", act, out, val)>>)
    /\ rows' = IF answer = "recorded"
               THEN [rows EXCEPT ![act] =
                        [@ EXCEPT !.state = "recorded", !.at = now,
                                  !.out = out, !.val = val]]
               ELSE rows
    /\ UNCHANGED <<ckpts, now>>

\* unique_signed_child_event: one claim of one action, and one result of it.
ClaimedInOrder(act) ==
    /\ Exactly("action", act) /\ Exactly("claim", act)
    /\ Before("action", act, "claim", act)
SucceededInLease(act) ==
    /\ Exactly("result", act) /\ Before("claim", act, "result", act)
    /\ tape[The("result", act)].out = "succeeded"
    /\ rows[act].at < rows[act].expires
SucceededInOrder(act) == ClaimedInOrder(act) /\ SucceededInLease(act)

\* An action request already signed is returned whatever the time; a new one
\* needs a live dispatch.  Two of them cannot be told apart.
IssueAnswer(act) ==
    IF Cardinality(EventsOf("action", act)) > 1 THEN "duplicate"
    ELSE IF Has("action", act) THEN "existing"
    ELSE IF DispatchLive THEN "issued" ELSE "rejected"

Issue(act, answer) ==
    /\ Commit(answer, "issued", <<Signed("action", act, none, none)>>)
    /\ UNCHANGED <<ckpts, rows, now>>
=============================================================================
