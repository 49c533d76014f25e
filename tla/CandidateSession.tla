-------------------------- MODULE CandidateSession --------------------------
(***************************************************************************)
(* The protected governed-session host serving the candidate operations    *)
(* (bp-authority-broker governed_session_protected_host.rs): requests are  *)
(* served one at a time, each a chain of ledger controls and Git steps.  A *)
(* client may give up while the host works; the host may crash between any *)
(* two steps, and the container it started then runs on without it.  The   *)
(* admission host and the target's owner act at any time.                  *)
(***************************************************************************)
EXTENDS CandidateWorkspace

\* Each behaviour has one budget of [requests, crashes, appends,
\* seals, moves, ticks].
CONSTANT Budgets

VARIABLES
    host,      \* the request being served
    tokens,    \* the opaque handles clients hold
    orphan,    \* a container outlived the host that started it
    entered,   \* containers started, by action
    left,      \* the tree each execution of the command left
    answered,  \* the statuses the host answered runs with
    budget     \* what the environment may still do

sessionVars == <<storeVars, workspaceVars, host, tokens, orphan, entered,
                 left, answered, budget>>

idle == [pc |-> "idle", op |-> none, packet |-> none, check |-> 0,
         out |-> none, tree |-> none]

SessionInit ==
    /\ StoreInit /\ WorkspaceInit
    /\ host = idle /\ tokens = {} /\ orphan = FALSE
    /\ entered = [a \in {"command"} \cup Checks |-> 0]
    /\ left = <<>> /\ answered = {}
    /\ budget \in Budgets

-----------------------------------------------------------------------------
(* Frames *)

At(pc) == host.pc = pc
Goto(pc) == host' = [host EXCEPT !.pc = pc]

\* The host maps every failure of a control to one closed error.
Answer(status) == host' = [host EXCEPT !.pc = "answer", !.out = status]
Fail == Answer("error")
Continue(answer, ok, pc) == IF answer \in ok THEN Goto(pc) ELSE Fail

Spend(what) == budget' = [budget EXCEPT ![what] = @ - 1]
Ghosts == <<tokens, entered, left, answered, budget>>
LedgerStep == UNCHANGED <<workspaceVars, Ghosts, orphan>>
GitStep == UNCHANGED <<storeVars, Ghosts, orphan>>
ReadStep == UNCHANGED <<storeVars, workspaceVars, Ghosts, orphan>>

-----------------------------------------------------------------------------
(* open_candidate_session and open_recovery_session *)

Request(op, packet, pc) ==
    /\ At("idle") /\ budget.requests > 0
    /\ host' = [idle EXCEPT !.pc = pc, !.op = op, !.packet = packet]
    /\ Spend("requests")
    /\ UNCHANGED <<storeVars, workspaceVars, orphan, tokens, entered, left, answered>>

\* Every later request shows the handles the host signed when it opened.
Holds(token) == token \in tokens

RequestOpen == \E p \in {"signed", "other"} : Request("open", p, "o_resolve")
RequestRun == Holds("session") /\ Request("run", none, "r_authority")
RequestRecovery == Holds("recovery") /\ Request("recover", none, "v_reopen")

OpenResolve ==
    /\ At("o_resolve")
    /\ IF ResolvesAuthority(host.packet) THEN Goto("o_workspace") ELSE Fail
    /\ ReadStep

OpenTheWorkspace ==
    /\ At("o_workspace")
    /\ OpenWorkspace /\ Continue(WorkspaceAnswer, {"opened"}, "o_manifest")
    /\ GitStep

OpenFile(at, file, write, next) ==
    /\ At(at) /\ CreateFile(file)
    /\ CASE FileAnswer(file) = "created"  -> Goto(write)
         [] FileAnswer(file) = "existing" -> Goto(next)
         [] OTHER                         -> Fail
    /\ GitStep
OpenWrite(at, file, next) == At(at) /\ WriteFile(file) /\ Goto(next) /\ GitStep

OpenManifest == \/ OpenFile("o_manifest", "manifest", "o_manifest_write", "o_packet")
                \/ OpenWrite("o_manifest_write", "manifest", "o_packet")
OpenPacket == \/ OpenFile("o_packet", "packet", "o_packet_write", "o_issue")
              \/ OpenWrite("o_packet_write", "packet", "o_issue")

OpenIssue ==
    /\ At("o_issue")
    /\ IssueCommand(host.packet)
    /\ IF IssueCommandAnswer(host.packet) \in {"issued", "existing"}
       THEN Answer("opened") ELSE Fail
    /\ LedgerStep

RecoverReopen ==
    /\ At("v_reopen")
    /\ IF ResolvesExecution /\ Reopens /\ RecoversPacket THEN Answer("opened") ELSE Fail
    /\ ReadStep
-----------------------------------------------------------------------------
(* run_candidate_command: the command *)

RunAuthority ==
    /\ At("r_authority")
    /\ IF ResolvesExecution /\ Reopens /\ RecoversPacket THEN Goto("r_claim") ELSE Fail
    /\ ReadStep

\* authorize_and_execute: only a granted claim reaches the gateway; a recorded
\* one is answered with its outcome.
AfterClaim_awaits(act, answer, enter, recorded) ==
    CASE answer = "granted"  -> Goto(enter)
      [] answer = "recorded" -> recorded
      [] OTHER               -> UNCHANGED host
AfterClaim(act, answer, enter, recorded) ==
    CASE answer = "granted"  -> Goto(enter)
      [] answer = "recorded" -> recorded
      [] answer = "rejected" -> Fail
      [] OTHER               -> IF act = "command" THEN Answer(answer) ELSE Fail

RunClaim ==
    /\ At("r_claim") /\ ClaimCommand
    /\ AfterClaim("command", ClaimCommandAnswer, "r_enter",
                  IF rows["command"].out = "succeeded" THEN Goto("r_receipt")
                  ELSE Answer(rows["command"].out))
    /\ LedgerStep

\* How the gateway comes back: with an outcome whose evidence is stored, or with
\* nothing that can be recorded.
Ends(act, result, out, tree) ==
    \/ host' = [host EXCEPT !.pc = result, !.out = out, !.tree = tree]
    \/ IF act = "command" THEN Answer("reconciliation") ELSE Fail

\* RootlessOciCommandGateway::invoke: a command outside its sandbox fails (exit
\* 126) without a container, and none is started under a lease that is over.
NotStarted(act) == IF now < rows[act].expires THEN {"failed"} ELSE {"failed", "unknown"}

Enter(at, act, run, result) ==
    /\ At(at)
    /\ \/ /\ now < rows[act].expires
          /\ Goto(run) /\ entered' = [entered EXCEPT ![act] = @ + 1]
       \/ /\ \E out \in NotStarted(act) : Ends(act, result, out, none)
          /\ UNCHANGED entered
    /\ UNCHANGED <<storeVars, workspaceVars, orphan, tokens, left, answered, budget>>
RunEnter == Enter("r_enter", "command", "r_run", "r_result")

\* The container is stopped when the lease ends; its outcome is then unknown.
Outcomes(act) == IF now < rows[act].expires THEN {"succeeded", "failed", "unknown"}
                 ELSE {"unknown"}

\* What the command did to the worktree: nothing, or a tree of its own.
Writes(tree) ==
    /\ ws' = [ws EXCEPT !.tree = tree] /\ left' = Append(left, tree)
    /\ UNCHANGED target

RunContainer ==
    /\ At("r_run")
    /\ \E out \in Outcomes("command"), tree \in {ws.tree, entered["command"]} :
          Writes(tree) /\ Ends("command", "r_result", out, tree)
    /\ UNCHANGED <<storeVars, orphan, tokens, entered, answered, budget>>

\* A result the ledger does not record is reconciliation, never a success.
RunResult ==
    /\ At("r_result")
    /\ RecordCommandResult(host.out, host.tree)
    /\ CASE ResultAnswer("command", host.out) \in {"recorded", "existing"} ->
               IF host.out = "succeeded" THEN Goto("r_receipt") ELSE Answer(host.out)
         [] ResultAnswer("command", host.out) = "lease_expired" -> Answer("lease_expired")
         [] OTHER -> Answer("reconciliation")
    /\ LedgerStep

RunReceipt ==
    /\ At("r_receipt") /\ RecordCommandReceipt
    /\ Continue(CommandReceiptAnswer, {"recorded", "existing"}, "r_fin_issue")
    /\ LedgerStep

-----------------------------------------------------------------------------
(* run_candidate_command: the candidate *)

FinalizeIssue ==
    /\ At("r_fin_issue") /\ IssueFinalize
    /\ Continue(IssueFinalizeAnswer, {"issued", "existing"}, "r_fin_claim")
    /\ LedgerStep

FinalizeClaim ==
    /\ At("r_fin_claim") /\ ClaimFinalize
    /\ AfterClaim("finalize", ClaimFinalizeAnswer, "r_fin_git",
                  IF rows["finalize"].out = "succeeded" THEN Goto("r_set") ELSE Fail)
    /\ LedgerStep

FinalizeEffect ==
    /\ At("r_fin_git") /\ FinalizeGit
    /\ host' = IF Finalizes
               THEN [host EXCEPT !.pc = "r_fin_recheck", !.tree = FinalizedTree]
               ELSE [host EXCEPT !.pc = "r_fin_result", !.out = "unknown", !.tree = none]
    /\ GitStep

FinalizeRecheck ==
    /\ At("r_fin_recheck")
    /\ host' = IF StillAtBase(host.tree)
               THEN [host EXCEPT !.pc = "r_fin_result", !.out = "succeeded"]
               ELSE [host EXCEPT !.pc = "r_fin_result", !.out = "unknown", !.tree = none]
    /\ ReadStep

FinalizeResult ==
    /\ At("r_fin_result") /\ RecordFinalizeResult(host.out, host.tree)
    /\ IF host.out = "succeeded"
       THEN Continue(ResultAnswer("finalize", host.out), {"recorded", "existing"}, "r_set")
       ELSE Fail
    /\ LedgerStep

ReceiptSet ==
    /\ At("r_set") /\ SealReceiptSet
    /\ Continue(ReceiptSetAnswer, {"recorded", "existing"}, "r_candidate")
    /\ LedgerStep

CandidateCreated ==
    /\ At("r_candidate") /\ RecordCandidate
    /\ Continue(CandidateAnswer, {"recorded", "existing"}, "r_complete")
    /\ LedgerStep

Completion ==
    /\ At("r_complete") /\ RecordCompletion
    /\ Continue(CompletionAnswer, {"recorded", "existing"}, "r_complete_seal")
    /\ LedgerStep

CompletionSeal ==
    /\ At("r_complete_seal") /\ SealCompletion
    /\ Continue(CompletionSealAnswer, {"sealed"}, "r_verify")
    /\ LedgerStep
-----------------------------------------------------------------------------
(* run_candidate_command: the acceptance *)

NextCheck(i) == IF i < Len(Contract) THEN [host EXCEPT !.pc = "c_issue", !.check = i + 1]
                ELSE [host EXCEPT !.pc = "r_accept"]
Check == Contract[host.check]

Verification ==
    /\ At("r_verify") /\ OpenVerification
    /\ IF OpensVerification THEN host' = NextCheck(0) ELSE Fail
    /\ GitStep

CheckIssue ==
    /\ At("c_issue") /\ IssueCheck(Check)
    /\ Continue(IssueCheckAnswer(Check), {"issued", "existing"}, "c_claim")
    /\ LedgerStep

CheckClaim ==
    /\ At("c_claim") /\ ClaimCheck(Check)
    /\ AfterClaim(Check, ClaimCheckAnswer(Check), "c_enter",
                  IF rows[Check].out = "unknown" THEN Fail ELSE host' = NextCheck(host.check))
    /\ LedgerStep

CheckEnter == At("c_enter") /\ Enter("c_enter", Check, "c_run", "c_result")

\* The verification worktree is mounted read-only.
CheckContainer ==
    /\ At("c_run")
    /\ \E out \in Outcomes(Check) : Ends(Check, "c_result", out, host.tree)
    /\ ReadStep

CheckResult ==
    /\ At("c_result") /\ RecordCheckResult(Check, host.out)
    /\ IF /\ ResultAnswer(Check, host.out) \in {"recorded", "existing"}
          /\ host.out # "unknown"
       THEN host' = NextCheck(host.check) ELSE Fail
    /\ LedgerStep

Acceptance ==
    /\ At("r_accept") /\ RecordAcceptance
    /\ Continue(AcceptanceAnswer, {"recorded", "existing"}, "r_accept_seal")
    /\ LedgerStep

AcceptanceSeal ==
    /\ At("r_accept_seal") /\ SealAcceptance
    /\ Continue(AcceptanceSealAnswer, {"sealed"}, "r_receipt_resolve")
    /\ LedgerStep

\* The outcome answered is the one the ledger holds; a pass also needs the
\* target branch and the sealed completion.
ResolveReceipt ==
    /\ At("r_receipt_resolve")
    /\ IF tape[projections.acceptance].out = "rejected" THEN Answer("failed")
       ELSE IF ResolvesTarget /\ ReceiptAnswer = "resolved" THEN Answer("succeeded") ELSE Fail
    /\ ReadStep

-----------------------------------------------------------------------------
(* The end of a request, and the environment *)

\* An open session hands out its signed handles, if the client still listens:
\* its own deadline is shorter than a command.
TokensAfter == IF host.out = "opened" THEN {tokens, {"recovery", "session"}} ELSE {tokens}

\* An error closes the connection without a body.
Deliver ==
    /\ At("answer")
    /\ answered' = IF host.op = "run" THEN answered \cup {host.out} ELSE answered
    /\ tokens' \in TokensAfter
    /\ host' = idle
    /\ UNCHANGED <<storeVars, workspaceVars, orphan, entered, left, budget>>

Crash ==
    /\ ~At("idle") /\ budget.crashes > 0
    /\ host' = idle /\ orphan' = (orphan \/ At("r_run"))
    /\ Spend("crashes")
    /\ UNCHANGED <<storeVars, workspaceVars, tokens, entered, left, answered>>

OrphanEnds ==
    /\ orphan /\ orphan' = FALSE
    /\ \E tree \in {ws.tree, entered["command"]} : Writes(tree)
    /\ UNCHANGED <<storeVars, host, tokens, entered, answered, budget>>

\* The V5 admission host: it seals the admission, and may record and seal the
\* admission of another dispatch on the same run.
AdmissionSeals ==
    /\ admission = "recorded" /\ admission' = "sealed"
    /\ ckpts' = Sealed(tape, ckpts)
    /\ UNCHANGED <<tape, rows, projections, now, workspaceVars, host, orphan, Ghosts>>

OtherAppends ==
    /\ budget.appends > 0
    /\ tape' = Append(tape, Signed("other", none, none, none))
    /\ Spend("appends")
    /\ UNCHANGED <<ckpts, admission, rows, projections, now, workspaceVars,
                   host, tokens, orphan, entered, left, answered>>

OtherSeals ==
    /\ Has("other", none) /\ budget.seals > 0 /\ Spend("seals")
    /\ SealPrefix
    /\ UNCHANGED <<workspaceVars, host, tokens, orphan, entered, left, answered>>

MoveTarget ==
    /\ target' \in {"base", "advanced", "switched"} \ {target}
    /\ budget.moves > 0 /\ Spend("moves")
    /\ UNCHANGED <<storeVars, ws, host, tokens, orphan, entered, left, answered>>

Tick ==
    /\ budget.ticks > 0 /\ now' = now + 1 /\ Spend("ticks")
    /\ UNCHANGED <<tape, ckpts, admission, rows, projections, workspaceVars,
                   host, tokens, orphan, entered, left, answered>>

Serve ==
    \/ OpenResolve \/ OpenTheWorkspace \/ OpenManifest \/ OpenPacket \/ OpenIssue
    \/ RecoverReopen \/ RunAuthority \/ RunClaim \/ RunEnter \/ RunContainer
    \/ RunResult \/ RunReceipt \/ FinalizeIssue \/ FinalizeClaim \/ FinalizeEffect
    \/ FinalizeRecheck \/ FinalizeResult \/ ReceiptSet \/ CandidateCreated \/ Completion
    \/ CompletionSeal \/ Verification \/ CheckIssue \/ CheckClaim \/ CheckEnter
    \/ CheckContainer \/ CheckResult \/ Acceptance \/ AcceptanceSeal
    \/ ResolveReceipt \/ Deliver

SessionNext ==
    \/ RequestOpen \/ RequestRun \/ RequestRecovery \/ Serve
    \/ Crash \/ OrphanEnds \/ AdmissionSeals
    \/ OtherAppends \/ OtherSeals \/ MoveTarget \/ Tick

SessionSpec == SessionInit /\ [][SessionNext]_sessionVars /\ WF_sessionVars(Serve)

-----------------------------------------------------------------------------
(* Properties *)

\* No container is started twice for one action, whatever is retried after a
\* crash, a lost answer or an expired lease; and no result is recorded for an
\* action whose container was never claimed.
EffectEnteredOnce ==
    /\ \A a \in DOMAIN entered : entered[a] <= 1
    /\ \A a \in DOMAIN entered : entered[a] = 1 => Has("claim", a)

\* What was executed is what is signed: the candidate, its completion and its
\* acceptance name the tree the one succeeded command left, the candidate ref
\* holds it, and the checks ran in a worktree of it.
CandidateIsTheExecutedTree ==
    \A i \in DOMAIN tape : tape[i].kind \in {"candidate", "completion", "acceptance"} =>
        /\ Len(left) = 1 /\ tape[i].val = left[1] /\ ws.ref = left[1]
        /\ tape[i].kind = "acceptance" => ws.verify = left[1]

\* A passed acceptance rests on one success of every check of the contract,
\* requested after the completion it accepts; a rejected one on a failure.
AcceptanceIsGrounded ==
    \A i \in EventsOf("acceptance", none) :
        /\ Has("completion", none) /\ The("completion", none) < i
        /\ \A c \in Checks :
             /\ Exactly("result", c) /\ The("result", c) < i
             /\ The("completion", none) < The("action", c)
        /\ tape[i].out = "passed" <=>
             \A c \in Checks : tape[The("result", c)].out = "succeeded"

\* An answered success is backed by a completion with a checkpoint of its own
\* and by a sealed, passed acceptance.
SuccessIsProved ==
    "succeeded" \in answered =>
        /\ projections.completion # none /\ EndsAt(projections.completion)
        /\ projections.acceptance # none
        /\ tape[projections.acceptance].out = "passed"
        /\ Covered(ckpts) >= projections.acceptance

\* The host never hangs on a request: whatever fails, it comes back for the
\* next client.
EveryRequestEnds == ~At("idle") ~> At("idle")
=============================================================================
