--------------------------- MODULE CandidateStore ---------------------------
(***************************************************************************)
(* The native controls of the V5 candidate lane (bp-ledger                 *)
(* storage/sqlite.rs): issue and claim the command, record its result and  *)
(* receipt.  CandidateProof continues with the Git candidate, the receipt  *)
(* set, the completion and the acceptance.  Every control is one IMMEDIATE *)
(* transaction, except that a completion and an acceptance commit before   *)
(* the transaction that seals them.                                        *)
(***************************************************************************)
EXTENDS ActionTape

CONSTANT Contract     \* the signed acceptance checks, in order

VARIABLES
    admission,   \* governed_dispatch_v5_admissions.state
    projections  \* the completion and acceptance rows, naming their events

storeVars == <<tapeVars, admission, projections>>

Checks == Range(Contract)
Actions == {"command", "finalize"} \cup Checks

\* An activity_claims row; `none' is no row, and no tree.
Lease == [state : {"granted", "recorded"}, expires : Nat, at : Nat \cup {none},
          out : {"succeeded", "failed", "unknown", none}, val : Nat \cup {none}]

ASSUME NoneAssumption == none \notin Nat /\ none \notin Lease
ASSUME WindowAssumption == DispatchExpires \in Nat /\ LeaseDuration \in Nat
\* A check's activity is none of the lane's own two.
ASSUME ContractAssumption ==
    Contract \in Seq(Checks) /\ "command" \notin Checks /\ "finalize" \notin Checks

\* The source dispatch and its admission are on the tape; the admission host
\* may not have sealed them yet.
StoreInit ==
    /\ tape = <<Signed("dispatch", none, none, none),
                Signed("admission", none, none, none)>>
    /\ admission \in {"recorded", "sealed"}
    /\ ckpts = IF admission = "sealed" THEN <<2>> ELSE <<>>
    /\ rows = [a \in Actions |-> none]
    /\ projections = [completion |-> none, acceptance |-> none]
    /\ now = 0

-----------------------------------------------------------------------------
\* verified_sealed_v5_dispatch_action_material: the admission row is sealed
\* and a checkpoint covers the admission event.
AdmissionSealed ==
    /\ admission = "sealed"
    /\ \E i \in DOMAIN ckpts : ckpts[i] >= The("admission", none)

-----------------------------------------------------------------------------
(* The command: issue, claim, result, receipt *)

\* verified_governed_command_packet_for_dispatch: the packet is the one whose
\* digest the dispatch signed.
PacketBinds(packet) == packet = "signed"

\* resolve_governed_v5_candidate_authority_v1: one sealed admission binds the
\* packet and its dispatch is live.
ResolvesAuthority(packet) == AdmissionSealed /\ PacketBinds(packet) /\ DispatchLive

\* resolve_governed_v5_candidate_execution_authority_v1: the admission and the
\* one signed command action; the dispatch need not be live.
ResolvesExecution == AdmissionSealed /\ Exactly("action", "command")

IssueCommandAnswer(packet) ==
    IF AdmissionSealed /\ PacketBinds(packet) THEN IssueAnswer("command") ELSE "rejected"
IssueCommand(packet) ==
    Issue("command", IssueCommandAnswer(packet)) /\ UNCHANGED <<admission, projections>>

\* reconstruct_governed_v5_command_action: the one signed action under the
\* sealed admission, its packet and input recomputed.
ReconstructsCommand == AdmissionSealed /\ Has("action", "command")

ClaimCommandAnswer ==
    IF ReconstructsCommand THEN ClaimAnswer("command") ELSE "rejected"
ClaimCommand == Claim("command", ClaimCommandAnswer) /\ UNCHANGED <<admission, projections>>

RecordCommandResult(out, tree) ==
    RecordResult("command", out, tree) /\ UNCHANGED <<admission, projections>>

\* record_succeeded_governed_v5_command_action_receipt_v1
ReceiptEvidence == ReconstructsCommand /\ SucceededInOrder("command")

CommandReceiptAnswer ==
    IF ~ReceiptEvidence THEN "rejected"
    ELSE IF ReceiptsOf("command") = {} THEN "recorded"
    ELSE IF Before("result", "command", "receipt", "command") THEN "existing"
    ELSE "reconcile"

RecordCommandReceipt ==
    /\ Commit(CommandReceiptAnswer, "recorded",
              <<Signed("receipt", "command", "succeeded", none)>>)
    /\ UNCHANGED <<ckpts, admission, rows, projections, now>>
=============================================================================
