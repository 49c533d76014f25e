--------------------------- MODULE ReviewVerdict ---------------------------
(***************************************************************************)
(* finalize_governed_v5_review_verdict_v1: from the recorded result of the *)
(* reviewer's model call to the receipts, the receipt set, the verdict and *)
(* the promotion approval request, sealed in the same transaction.         *)
(***************************************************************************)
EXTENDS ReviewStore, SequencesExt

\* The output is a closed document that names the accepted candidate and its
\* read-only view; anything else decides nothing.
Decisions == {"approve", "reject"}
OutputDecides == tape[The("result", "model")].val \in Decisions

\* One signed, purpose-bound model action of a reviewer under a pinned lineage,
\* with the native lease that authorised its call.
ReviewerAction == role = "reviewer" /\ lineage /\ rows["model"] # none /\ ClaimLineage

\* The one signed result of that lease is a success.
ModelSucceeded == SucceededInOrder("model")

\* derive_provider_preflight_review_receipt: a preflight that was requested
\* must have succeeded, and is then a member of the set.
SupportActions == IF Has("action", "preflight") THEN {"preflight"} ELSE {}
SupportSucceeded == \A a \in SupportActions : SucceededInOrder(a)
Members == SupportActions \cup {"model"}

VerdictEvidence ==
    /\ ReviewerAction /\ ReviewableCandidate
    /\ ModelSucceeded /\ OutputDecides /\ SupportSucceeded

\* ensure_governed_review_finalization_lifecycle_is_open, asked only of a
\* first verdict.
WorkflowOpen_ignored == TRUE
WorkflowOpen == ~Has("cancellation", none) /\ ~Has("terminal", none)

Receipts == {a \in Members : ReceiptsOf(a) # {}}
Verdicts == EventsOf("verdict", none)
Approvals == EventsOf("approval", none)
Terminal == IF Approvals # {} THEN The("approval", none) ELSE The("verdict", none)

\* What an earlier finalization left is there whole, or it is reconciled.
RecordedWhole ==
    /\ Receipts = Members /\ ReceiptSets # {} /\ Verdicts # {}
    /\ Approvals # {} <=> tape[The("result", "model")].val = "approve"
NothingRecorded ==
    Receipts = {} /\ ReceiptSets = {} /\ Verdicts = {}

\* A checkpoint must end at the verdict's last event, on a retry as well: the
\* retry seals whatever was appended since, and then refuses its own seal.
SealsTerminal == CanSeal(ckpts) /\ Covered(Sealed(tape, ckpts)) = Terminal

VerdictAnswer ==
    IF ~VerdictEvidence THEN "rejected"
    ELSE IF RecordedWhole THEN IF SealsTerminal THEN "existing" ELSE "reconcile"
    ELSE IF ~NothingRecorded \/ Approvals # {} THEN "reconcile"
    ELSE IF WorkflowOpen /\ CanSeal(ckpts) THEN "recorded" ELSE "rejected"

ApprovalEvents(decision) ==
    IF decision = "approve" THEN <<Signed("approval", none, none, none)>> ELSE <<>>

VerdictEvents(decision) ==
    SetToSeq({Signed("receipt", a, "succeeded", none) : a \in Members})
        \o <<Signed("receipt_set", none, none, none),
             Signed("verdict", none, decision, none)>>
        \o ApprovalEvents(decision)

FinalizeVerdict ==
    /\ Commit(VerdictAnswer, "recorded", VerdictEvents(tape[The("result", "model")].val))
    /\ ckpts' = IF VerdictAnswer \in {"recorded", "existing"} THEN Sealed(tape', ckpts)
                ELSE ckpts
    /\ UNCHANGED <<rows, now, fixed, intentRow>>
=============================================================================
