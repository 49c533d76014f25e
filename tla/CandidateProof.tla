--------------------------- MODULE CandidateProof ---------------------------
(***************************************************************************)
(* The second half of the candidate lane: the Git finalization, the        *)
(* receipt set that closes both activities, the candidate event, and the   *)
(* completion and acceptance proofs with their checkpoints.                *)
(***************************************************************************)
EXTENDS CandidateStore

-----------------------------------------------------------------------------
(* Git finalization *)

\* A succeeded command receipt; a receipt set that already exists blocks the
\* finalization, whoever sealed it and whatever it contains.
FinalizeEvidence ==
    AdmissionSealed /\ Has("receipt", "command")
    /\ Before("action", "command", "receipt", "command")

IssueFinalizeAnswer ==
    IF ~FinalizeEvidence THEN "rejected"
    ELSE IF Has("receipt_set", none) THEN "reconcile"
    ELSE IF Cardinality(EventsOf("action", "finalize")) > 1 THEN "reconcile"
    ELSE IF ~Has("action", "finalize") THEN IF DispatchLive THEN "issued" ELSE "rejected"
    ELSE IF Before("receipt", "command", "action", "finalize") THEN "existing"
    ELSE "reconcile"

IssueFinalize ==
    Issue("finalize", IssueFinalizeAnswer) /\ UNCHANGED <<admission, projections>>

\* reconstruct_governed_v5_candidate_finalize_claim_v1, then the claim.
ClaimFinalizeAnswer ==
    IF AdmissionSealed /\ Has("action", "finalize") THEN ClaimAnswer("finalize") ELSE "rejected"
ClaimFinalize ==
    Claim("finalize", ClaimFinalizeAnswer) /\ UNCHANGED <<admission, projections>>

RecordFinalizeResult(out, tree) ==
    RecordResult("finalize", out, tree) /\ UNCHANGED <<admission, projections>>

-----------------------------------------------------------------------------
(* The receipt set and the candidate *)

\* The command's part: its receipt, signed before the Git action.
ProcessClosed ==
    /\ AdmissionSealed /\ ReceiptsOf("command") # {}
    /\ Before("action", "command", "receipt", "command")
    /\ Before("receipt", "command", "action", "finalize")

\* The Git part: a success whose result names the artifact it froze.
GitClosed == SucceededInOrder("finalize") /\ tape[The("result", "finalize")].val # none

\* The Git receipt and the set are one transaction: half of it is corruption.
ReceiptSetAnswer ==
    IF ~(Has("action", "finalize") /\ ProcessClosed /\ GitClosed) THEN "rejected"
    ELSE IF ReceiptsOf("finalize") # {} /\ ReceiptSets # {} THEN "existing"
    ELSE IF ReceiptsOf("finalize") # {} \/ ReceiptSets # {} THEN "reconcile"
    ELSE "recorded"

SealReceiptSet ==
    LET tree == tape[The("result", "finalize")].val IN
    /\ Commit(ReceiptSetAnswer, "recorded",
              <<Signed("receipt", "finalize", "succeeded", tree),
                Signed("receipt_set", none, none, tree)>>)
    /\ UNCHANGED <<ckpts, admission, rows, projections, now>>

\* The members of the set, each with its own action, claim, result and receipt.
MemberLineage(act) ==
    /\ SucceededInOrder(act) /\ Exactly("receipt", act)
    /\ Before("result", act, "receipt", act)
    /\ Before("receipt", act, "receipt_set", none)

\* The artifact the Git result froze is the one its receipt names.
ArtifactBinds ==
    tape[The("result", "finalize")].val = tape[The("receipt", "finalize")].val

CandidateEvidence ==
    /\ AdmissionSealed /\ ReceiptSets # {}
    /\ MemberLineage("command") /\ MemberLineage("finalize") /\ ArtifactBinds

CandidateAnswer ==
    IF ~CandidateEvidence THEN "rejected"
    ELSE IF ~Has("candidate", none) THEN "recorded"
    ELSE IF /\ Exactly("candidate", none)
            /\ Before("receipt_set", none, "candidate", none)
            /\ tape[The("candidate", none)].val = tape[The("result", "finalize")].val
         THEN "existing" ELSE "reconcile"

RecordCandidate ==
    /\ Commit(CandidateAnswer, "recorded",
              <<Signed("candidate", none, none, tape[The("result", "finalize")].val)>>)
    /\ UNCHANGED <<ckpts, admission, rows, projections, now>>
-----------------------------------------------------------------------------
(* Completion *)

\* verify_governed_v5_candidate_completion_evidence: the whole lineage again,
\* from the candidate back to the admission.
CandidateClosesSet ==
    /\ Exactly("candidate", none) /\ ReceiptSets # {}
    /\ Before("receipt_set", none, "candidate", none)
CandidateIsArtifact ==
    tape[The("candidate", none)].val = tape[The("receipt", "finalize")].val
CompletionEvidence == CandidateClosesSet /\ CandidateEvidence /\ CandidateIsArtifact

\* The row and the signed event must name each other.
Projected(kind, row) ==
    IF row = none THEN ~Has(kind, none) ELSE EventsOf(kind, none) = {row}
CompletionProjected == Projected("completion", projections.completion)
AcceptanceProjected == Projected("acceptance", projections.acceptance)
ProjectCompletion == [projections EXCEPT !.completion = Len(tape) + 1]
ProjectAcceptance == [projections EXCEPT !.acceptance = Len(tape) + 1]

CompletionAnswer ==
    IF ~CompletionEvidence THEN "rejected"
    ELSE IF ~CompletionProjected THEN "reconcile"
    ELSE IF projections.completion = none THEN "recorded" ELSE "existing"

RecordCompletion ==
    /\ Commit(CompletionAnswer, "recorded",
              <<Signed("completion", none, none, tape[The("candidate", none)].val)>>)
    /\ projections' = IF CompletionAnswer = "recorded" THEN ProjectCompletion
                      ELSE projections
    /\ UNCHANGED <<ckpts, admission, rows, now>>

\* The checkpoint is a second transaction, over the tape it finds: nothing
\* ties its end to the completion that was just committed.
SealPrefix ==
    /\ ckpts' = Sealed(tape, ckpts)
    /\ UNCHANGED <<tape, admission, rows, projections, now>>

CompletionSealAnswer ==
    IF /\ CompletionEvidence /\ projections.completion # none
       /\ CompletionProjected /\ CanSeal(ckpts)
    THEN "sealed" ELSE "rejected"

SealCompletion ==
    IF CompletionSealAnswer = "sealed" THEN SealPrefix ELSE UNCHANGED storeVars

\* verified_governed_v5_completed_candidate_material
CompletedCandidate_anycheckpoint ==
    /\ CompletionEvidence /\ projections.completion # none
    /\ CompletionProjected
CompletedCandidate ==
    /\ CompletionEvidence /\ projections.completion # none
    /\ CompletionProjected
    /\ EndsAt(projections.completion)

-----------------------------------------------------------------------------
(* Acceptance *)

IssueCheckAnswer(check) ==
    IF CompletedCandidate THEN IssueAnswer(check) ELSE "rejected"
IssueCheck(check) ==
    Issue(check, IssueCheckAnswer(check)) /\ UNCHANGED <<admission, projections>>

\* reconstruct_governed_v5_acceptance_check: only an action requested after
\* the completion is a check of this candidate.
ReconstructsCheck(check) ==
    CompletedCandidate /\ Has("action", check)
    /\ projections.completion < The("action", check)

ClaimCheckAnswer(check) ==
    IF ReconstructsCheck(check) THEN ClaimAnswer(check) ELSE "rejected"
ClaimCheck(check) ==
    Claim(check, ClaimCheckAnswer(check)) /\ UNCHANGED <<admission, projections>>

RecordCheckResult(check, out) ==
    RecordResult(check, out, none) /\ UNCHANGED <<admission, projections>>

\* governed_candidate_acceptance_outcome: an unknown check aggregates to
\* nothing and one failure rejects.
AcceptanceOutcome_lastwins(outcomes) == IF outcomes[Len(outcomes)] = "failed" THEN "rejected" ELSE "passed"
AcceptanceOutcome(outcomes) ==
    IF "failed" \in Range(outcomes) THEN "rejected" ELSE "passed"

\* verify_governed_v5_candidate_acceptance_evidence: every check of the
\* contract has one terminal claim, and none of them is unknown.
CheckEnded(check) ==
    /\ ReconstructsCheck(check) /\ rows[check] # none
    /\ rows[check].state = "recorded" /\ rows[check].out # "unknown"
AcceptanceEvidence ==
    CompletedCandidate /\ Contract # <<>> /\ \A c \in Checks : CheckEnded(c)

AcceptanceAnswer ==
    IF ~AcceptanceEvidence THEN "rejected"
    ELSE IF ~AcceptanceProjected THEN "reconcile"
    ELSE IF projections.acceptance = none THEN "recorded" ELSE "existing"

RecordAcceptance ==
    /\ Commit(AcceptanceAnswer, "recorded",
              <<Signed("acceptance", none,
                       AcceptanceOutcome([i \in DOMAIN Contract |-> rows[Contract[i]].out]),
                       tape[projections.completion].val)>>)
    /\ projections' = IF AcceptanceAnswer = "recorded" THEN ProjectAcceptance
                      ELSE projections
    /\ UNCHANGED <<ckpts, admission, rows, now>>

AcceptanceSealAnswer ==
    IF AcceptanceEvidence /\ projections.acceptance # none /\ CanSeal(ckpts)
    THEN "sealed" ELSE "rejected"

SealAcceptance ==
    IF AcceptanceSealAnswer = "sealed" THEN SealPrefix ELSE UNCHANGED storeVars

\* resolve_governed_v5_candidate_receipt_v1 reads and appends nothing.
ReceiptAnswer == IF CompletedCandidate THEN "resolved" ELSE "rejected"
=============================================================================
