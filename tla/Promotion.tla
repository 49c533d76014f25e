------------------------------ MODULE Promotion ------------------------------
(***************************************************************************)
(* Promotion of frozen candidates to a Git branch: the operator's signed   *)
(* decision, its kernel seal, the one-shot execution claim, the fixed Git  *)
(* gateway, the recorded result, the workflow terminal and the abandonment *)
(* of an unresolved result (bp-ledger storage/sqlite.rs and the protected  *)
(* hosts of bp-authority-broker).                                          *)
(*                                                                         *)
(* Every candidate belongs to a governed run with its own signed tape; all *)
(* candidates are based on one commit of one branch.  A host is a process  *)
(* pinned to one run, working through one request at a time; each of its   *)
(* steps is one ledger transaction, one read of the tape or one Git        *)
(* invocation, and it may die between any two of them.                     *)
(***************************************************************************)
EXTENDS RunTape, FiniteSets

CONSTANTS
    Candidates,       \* frozen candidates; also the merge commit each one makes
    DecisionHosts,    \* promotion_decision_host processes
    ExecutionHosts,   \* promotion_execution_host processes
    ReconcileHosts,   \* governed reconciliation hosts
    RunOf,            \* host -> the candidate whose run it is pinned to
    Base,             \* the commit every candidate was made from
    Foreign,          \* a commit pushed by somebody else
    DispatchExpires,  \* expiry of the signed dispatch of every run
    LeaseDuration,
    MaxTime, MaxPushes, MaxAppends, MaxCrashes   \* bounds

Hosts == DecisionHosts \cup ExecutionHosts \cup ReconcileHosts

ASSUME HostAssumption ==
    /\ RunOf \in [Hosts -> Candidates]
    /\ Base \notin Candidates /\ Foreign \notin Candidates /\ Base # Foreign
    /\ DecisionHosts \cap ExecutionHosts = {}
    /\ (DecisionHosts \cup ExecutionHosts) \cap ReconcileHosts = {}
ASSUME PromotionTimeAssumption ==
    /\ DispatchExpires \in Nat /\ LeaseDuration \in Nat \ {0} /\ MaxTime \in Nat
    /\ MaxPushes \in Nat /\ MaxAppends \in Nat /\ MaxCrashes \in Nat

Commits == Candidates \cup {Base, Foreign}
Kinds == {"promote", "reject"}
Absent == [state |-> "absent"]
\* What a result says of Git: the head it saw and whether a worktree is stale.
NoGit == [head |-> Base, sync |-> "no_git"]

VARIABLES
    now,
    tape, ckpts,      \* per run: kinds of its signed events, its checkpoints
    decision,         \* table governed_promotion_decisions
    claim,            \* table governed_promotion_execution_claims
    result,           \* table governed_promotion_results
    target,           \* head of the target branch
    receipts,         \* candidates whose receipt ref exists
    checkedOut,       \* some worktree has the target branch checked out
    frame,            \* per host: the request it is working on
    entries,          \* grants that reached the Git gateway, in order
    spent             \* pushes, unrelated appends and crashes so far

ledger == <<tape, ckpts, decision, claim, result>>
git == <<target, receipts, checkedOut>>
vars == <<now, ledger, git, frame, entries, spent>>

Idle == [pc |-> "idle", kind |-> "promote", mark |-> 0, claimed |-> FALSE,
         seen |-> NoGit]
At(h, pc) == frame[h].pc = pc
Go(h, pc) == frame' = [frame EXCEPT ![h].pc = pc]
Return(h) == frame' = [frame EXCEPT ![h] = Idle]

OnTape(c, kind) == \E i \in 1 .. Len(tape[c]) : tape[c][i] = kind

Init ==
    /\ now = 0
    /\ tape = [c \in Candidates |-> <<"promotion_approval_requested">>]
    /\ ckpts = [c \in Candidates |-> <<1>>]
    /\ decision = [c \in Candidates |-> Absent]
    /\ claim = [c \in Candidates |-> Absent]
    /\ result = [c \in Candidates |-> Absent]
    /\ target = Base /\ receipts = {} /\ checkedOut \in BOOLEAN
    /\ frame = [h \in Hosts |-> Idle]
    /\ entries = <<>>
    /\ spent = [pushes |-> 0, appends |-> 0, crashes |-> 0]

-----------------------------------------------------------------------------
(* The operator's decision: record_from_approval_decision, record_then_seal *)

\* A trusted snapshot of the run still waiting for this approval.
ReceiveDecision(h, kind) ==
    LET c == RunOf[h] IN
    /\ h \in DecisionHosts /\ At(h, "idle")
    /\ TrustedOpen(tape[c], ckpts[c])
    /\ ~OnTape(c, "promotion_decision_recorded")
    /\ frame' = [frame EXCEPT ![h].pc = "record_decision", ![h].kind = kind]
    /\ UNCHANGED <<now, ledger, git, entries, spent>>

\* verify_governed_promotion_decision_evidence: the accepted and reviewed
\* candidate's approval request, all of which the snapshot stands for.
DecisionEvidence(c) == OnTape(c, "promotion_approval_requested")
DecisionRow(kind) == [state |-> "awaiting", kind |-> kind, mark |-> 0]

\* resolve_existing_governed_promotion_decision: only the same decision again.
DecisionStands(c, kind) == decision[c].kind = kind

RecordDecision(h) ==
    LET c == RunOf[h]
        kind == frame[h].kind
    IN
    /\ At(h, "record_decision")
    /\ \/ /\ decision[c] # Absent
          /\ IF DecisionStands(c, kind) /\ decision[c].state = "awaiting"
             THEN Go(h, "seal_decision") ELSE Return(h)
          /\ UNCHANGED ledger
       \/ /\ decision[c] = Absent
          /\ now >= DispatchExpires \/ ~DecisionEvidence(c)
          /\ Return(h) /\ UNCHANGED ledger
       \/ /\ decision[c] = Absent
          /\ now < DispatchExpires /\ DecisionEvidence(c)
          /\ tape' = [tape EXCEPT ![c] = Append(@, "promotion_decision_recorded")]
          /\ decision' = [decision EXCEPT ![c] = DecisionRow(kind)]
          /\ Go(h, "seal_decision")
          /\ UNCHANGED <<ckpts, claim, result>>
    /\ UNCHANGED <<now, git, entries, spent>>

\* seal_governed_promotion_decision_v1: use the covering checkpoint or emit one.
SealDecision(h) ==
    LET c == RunOf[h] IN
    /\ At(h, "seal_decision")
    /\ IF decision[c].state = "sealed" THEN Return(h)
       ELSE IF FullyCovered(tape[c], ckpts[c])
            THEN frame' = [frame EXCEPT ![h].pc = "mark_sealed",
                                        ![h].mark = Len(ckpts[c])]
       ELSE Go(h, "emit_checkpoint")
    /\ UNCHANGED <<now, ledger, git, entries, spent>>

\* A transaction of its own: the prefix may have been sealed since it was read.
EmitCheckpoint(h) ==
    LET c == RunOf[h] IN
    /\ At(h, "emit_checkpoint")
    /\ ckpts' = [ckpts EXCEPT ![c] = Emitted(tape[c], @)]
    /\ frame' = [frame EXCEPT ![h].pc = "check_covering",
                              ![h].mark = Len(ckpts[c]) + 1]
    /\ UNCHANGED <<now, tape, decision, claim, result, git, entries, spent>>

\* record_sealed_checkpoint_for_promotion_decision
CheckCovering(h) ==
    LET c == RunOf[h] IN
    /\ At(h, "check_covering")
    /\ IF FullyCovered(tape[c], ckpts[c]) /\ frame[h].mark = Len(ckpts[c])
       THEN Go(h, "mark_sealed") ELSE Return(h)
    /\ UNCHANGED <<now, ledger, git, entries, spent>>

\* mark_governed_promotion_decision_sealed
MarkSealed(h) ==
    LET c == RunOf[h] IN
    /\ At(h, "mark_sealed")
    /\ decision' = IF decision[c].state = "sealed" THEN decision
                   ELSE [decision EXCEPT ![c].state = "sealed",
                                         ![c].mark = frame[h].mark]
    /\ Return(h)
    /\ UNCHANGED <<now, tape, ckpts, claim, result, git, entries, spent>>

-----------------------------------------------------------------------------
(* Execution: claim_execute_and_record *)

\* verify_exact_promotion reopens a trusted snapshot for every request and
\* routes on the decision it finds there.
ReceiveExecution(h) ==
    LET c == RunOf[h] IN
    /\ h \in ExecutionHosts /\ At(h, "idle")
    /\ TrustedOpen(tape[c], ckpts[c])
    /\ OnTape(c, "promotion_decision_recorded")
    /\ IF decision[c].kind = "reject"
       THEN Go(h, "record_result")
       ELSE frame' = [frame EXCEPT ![h].pc = "claim",
                              ![h].claimed = OnTape(c, "promotion_execution_claimed")]
    /\ UNCHANGED <<now, ledger, git, entries, spent>>

\* The decision's own seal, verified against its checkpoint.
DecisionSealed(c) == decision[c].state = "sealed"

Lesser(a, b) == IF a <= b THEN a ELSE b

\* What claim_governed_promotion_execution_v1 answers; "granted" writes.
ClaimDisposition_regrants(c) ==
    IF result[c] # Absent THEN "recorded"
    ELSE IF claim[c] # Absent /\ now < claim[c].expires THEN "pending"
    ELSE IF decision[c].state # "sealed" \/ now >= DispatchExpires THEN "refused"
    ELSE "granted"
ClaimDisposition_unsealed(c) ==
    IF result[c] # Absent THEN "recorded"
    ELSE IF claim[c] # Absent
         THEN IF now >= claim[c].expires THEN "lease_expired" ELSE "pending"
    ELSE IF now >= DispatchExpires THEN "refused"
    ELSE "granted"
ClaimDisposition(c) ==
    IF result[c] # Absent THEN "recorded"
    ELSE IF claim[c] # Absent
         THEN IF now >= claim[c].expires THEN "lease_expired" ELSE "pending"
    ELSE IF \/ ~DecisionSealed(c) \/ decision[c].kind # "promote"
            \/ now >= DispatchExpires THEN "refused"
    ELSE "granted"

ClaimRow == [state |-> "claimed",
             expires |-> Lesser(now + LeaseDuration, DispatchExpires)]

ClaimExecution(h) ==
    LET c == RunOf[h]
        answer == ClaimDisposition(c)
    IN
    /\ At(h, "claim")
    /\ \/ /\ answer = "granted"
          /\ tape' = [tape EXCEPT ![c] = Append(@, "promotion_execution_claimed")]
          /\ claim' = [claim EXCEPT ![c] = ClaimRow]
          /\ Go(h, "seal_claim")
          /\ UNCHANGED <<ckpts, decision, result>>
       \/ answer = "recorded" /\ Go(h, "seal_result") /\ UNCHANGED ledger
       \/ answer \notin {"granted", "recorded"} /\ Return(h) /\ UNCHANGED ledger
    /\ UNCHANGED <<now, git, entries, spent>>

\* The grant is released only after its prefix is sealed, and never to a
\* frame whose snapshot already showed a claim.
SealClaim(h) ==
    LET c == RunOf[h] IN
    /\ At(h, "seal_claim")
    /\ IF CanSeal(ckpts[c])
       THEN /\ ckpts' = [ckpts EXCEPT ![c] = Sealed(tape[c], @)]
            /\ IF frame[h].claimed
               THEN Return(h) /\ UNCHANGED entries
               ELSE Go(h, "git_inspect") /\ entries' = Append(entries, c)
       ELSE Return(h) /\ UNCHANGED <<ckpts, entries>>
    /\ UNCHANGED <<now, tape, decision, claim, result, git, spent>>

\* PromotionGitGateway.promote up to the compare-and-swap: an existing receipt
\* is observed, a target that left the base is never touched.
GitInspect(h) ==
    LET c == RunOf[h] IN
    /\ At(h, "git_inspect")
    /\ IF c \in receipts THEN Go(h, "git_observe")
       ELSE IF target # Base THEN Return(h)
       ELSE Go(h, "git_advance")
    /\ UNCHANGED <<now, ledger, git, entries, spent>>

\* One `git update-ref` transaction: target base -> merge and a new receipt.
AtomicAdvance_unconditional(c) == TRUE
AtomicAdvance(c) == target = Base /\ c \notin receipts

GitAdvance(h) ==
    LET c == RunOf[h] IN
    /\ At(h, "git_advance")
    /\ IF AtomicAdvance(c)
       THEN target' = c /\ receipts' = receipts \cup {c}
       ELSE UNCHANGED <<target, receipts>>
    /\ Go(h, "git_observe")
    /\ UNCHANGED <<now, ledger, checkedOut, entries, spent>>

\* observe_receipt: where the target is now, against this candidate's merge.
Observed_checkout_first(c) ==
    [head |-> target,
     sync |-> IF ~checkedOut THEN "none"
              ELSE IF target # c THEN "target_advanced" ELSE "root_checkout_stale"]
Observed(c) ==
    [head |-> target,
     sync |-> IF target # c THEN "target_advanced"
              ELSE IF checkedOut THEN "root_checkout_stale" ELSE "none"]

GitObserve(h) ==
    LET c == RunOf[h] IN
    /\ At(h, "git_observe")
    /\ IF c \in receipts
       THEN frame' = [frame EXCEPT ![h].pc = "record_result", ![h].seen = Observed(c)]
       ELSE Return(h)
    /\ UNCHANGED <<now, ledger, git, entries, spent>>

\* ledger_outcome, and the lease-free rejection of a rejecting decision.
OutcomeOf(seen) ==
    IF seen = NoGit THEN "rejected"
    ELSE IF seen.sync = "none" THEN "promoted"
    ELSE "reconciliation_required"

\* validate_governed_promotion_result_execution_lease: a fresh effect result
\* needs the claim under a checkpoint of the whole prefix.
ResultLease(c) == claim[c] # Absent /\ FullyCovered(tape[c], ckpts[c])

\* validate_governed_promotion_result_against_decision: a rejection answers a
\* rejecting decision that was never claimed.
ResultAdmissible(c, seen) ==
    /\ DecisionSealed(c)
    /\ IF seen = NoGit
       THEN decision[c].kind = "reject" /\ claim[c] = Absent
       ELSE decision[c].kind = "promote" /\ ResultLease(c)

ResultRow(seen) == [state |-> "recorded", outcome |-> OutcomeOf(seen), seen |-> seen]

\* resolve_existing_governed_promotion_result: only the same result again.
ResultStands(c, seen) == DecisionSealed(c) /\ result[c] = ResultRow(seen)

RecordResult(h) ==
    LET c == RunOf[h]
        seen == frame[h].seen
    IN
    /\ At(h, "record_result")
    /\ \/ /\ result[c] # Absent
          /\ IF ResultStands(c, seen)
             THEN Go(h, "seal_result") ELSE Return(h)
          /\ UNCHANGED ledger
       \/ /\ result[c] = Absent /\ ~ResultAdmissible(c, seen)
          /\ Return(h) /\ UNCHANGED ledger
       \/ /\ result[c] = Absent /\ ResultAdmissible(c, seen)
          /\ tape' = [tape EXCEPT ![c] = Append(@, "promotion_result_recorded")]
          /\ result' = [result EXCEPT ![c] = ResultRow(seen)]
          /\ Go(h, "seal_result")
          /\ UNCHANGED <<ckpts, decision, claim>>
    /\ UNCHANGED <<now, git, entries, spent>>

\* Only a final outcome goes on to the workflow terminal.
Final_any(outcome) == TRUE
Final_promoted_only(outcome) == outcome = "promoted"
Final(outcome) == outcome \in {"promoted", "rejected"}

SealResult(h) ==
    LET c == RunOf[h] IN
    /\ At(h, "seal_result")
    /\ IF CanSeal(ckpts[c])
       THEN /\ ckpts' = [ckpts EXCEPT ![c] = Sealed(tape[c], @)]
            /\ IF Final(result[c].outcome) THEN Go(h, "record_terminal") ELSE Return(h)
       ELSE Return(h) /\ UNCHANGED ckpts
    /\ UNCHANGED <<now, tape, decision, claim, result, git, entries, spent>>

TerminalKind(outcome) ==
    IF outcome = "promoted" THEN "workflow_terminal_completed"
    ELSE "workflow_terminal_failed"

\* record_workflow_terminal_v2_for_final_promotion_result
RecordTerminal(h) ==
    LET c == RunOf[h]
        kind == TerminalKind(result[c].outcome)
    IN
    /\ At(h, "record_terminal")
    /\ tape' = IF OnTape(c, kind) THEN tape ELSE [tape EXCEPT ![c] = Append(@, kind)]
    /\ Go(h, "seal_terminal")
    /\ UNCHANGED <<now, ckpts, decision, claim, result, git, entries, spent>>

SealTerminal(h) ==
    LET c == RunOf[h] IN
    /\ At(h, "seal_terminal")
    /\ ckpts' = IF CanSeal(ckpts[c])
                THEN [ckpts EXCEPT ![c] = Sealed(tape[c], @)] ELSE ckpts
    /\ Return(h)
    /\ UNCHANGED <<now, tape, decision, claim, result, git, entries, spent>>

-----------------------------------------------------------------------------
(* Abandoning an unresolved result: record_abandon_from_replayed_promotion *)

ReceiveAbandon(h) ==
    LET c == RunOf[h] IN
    /\ h \in ReconcileHosts /\ At(h, "idle")
    /\ TrustedOpen(tape[c], ckpts[c])
    /\ result[c] # Absent /\ result[c].outcome = "reconciliation_required"
    /\ ~OnTape(c, "promotion_reconciliation_resolved")
    /\ Go(h, "reobserve")
    /\ UNCHANGED <<now, ledger, git, entries, spent>>

\* observe_existing_receipt must repeat the recorded observation exactly.
Reobserve(h) ==
    LET c == RunOf[h] IN
    /\ At(h, "reobserve")
    /\ IF c \in receipts /\ Observed(c) = result[c].seen
       THEN Go(h, "record_abandon") ELSE Return(h)
    /\ UNCHANGED <<now, ledger, git, entries, spent>>

\* record_governed_promotion_reconciliation_abandon_v1: the event and its
\* checkpoint in one transaction.
RecordAbandon(h) ==
    LET c == RunOf[h]
        longer == Append(tape[c], "promotion_reconciliation_resolved")
    IN
    /\ At(h, "record_abandon")
    /\ IF CanSeal(ckpts[c]) /\ ~OnTape(c, "promotion_reconciliation_resolved")
       THEN /\ tape' = [tape EXCEPT ![c] = longer]
            /\ ckpts' = [ckpts EXCEPT ![c] = Sealed(longer, @)]
       ELSE UNCHANGED <<tape, ckpts>>
    /\ Return(h)
    /\ UNCHANGED <<now, decision, claim, result, git, entries, spent>>

-----------------------------------------------------------------------------
(* Everybody else *)

Tick ==
    /\ now < MaxTime /\ now' = now + 1
    /\ UNCHANGED <<ledger, git, frame, entries, spent>>

\* Somebody pushes to, resets or checks out the target branch.
Push(commit) ==
    /\ spent.pushes < MaxPushes /\ commit # target
    /\ target' = commit
    /\ spent' = [spent EXCEPT !.pushes = @ + 1]
    /\ UNCHANGED <<now, ledger, receipts, checkedOut, frame, entries>>

Checkout ==
    /\ spent.pushes < MaxPushes
    /\ checkedOut' = ~checkedOut
    /\ spent' = [spent EXCEPT !.pushes = @ + 1]
    /\ UNCHANGED <<now, ledger, target, receipts, frame, entries>>

\* A serve session of the same run appends a signed event (a late heartbeat
\* or result) and seals the prefix, in two transactions.
ServeAppend(c) ==
    /\ spent.appends < MaxAppends
    /\ tape' = [tape EXCEPT ![c] = Append(@, "activity")]
    /\ spent' = [spent EXCEPT !.appends = @ + 1]
    /\ UNCHANGED <<now, ckpts, decision, claim, result, git, frame, entries>>

ServeSeal(c) ==
    /\ spent.appends < MaxAppends
    /\ CanSeal(ckpts[c]) /\ ~FullyCovered(tape[c], ckpts[c])
    /\ ckpts' = [ckpts EXCEPT ![c] = Sealed(tape[c], @)]
    /\ spent' = [spent EXCEPT !.appends = @ + 1]
    /\ UNCHANGED <<now, tape, decision, claim, result, git, frame, entries>>

\* The process dies, or a Git or SQLite call fails: what was committed stays.
Crash(h) ==
    /\ ~At(h, "idle") /\ spent.crashes < MaxCrashes
    /\ Return(h)
    /\ spent' = [spent EXCEPT !.crashes = @ + 1]
    /\ UNCHANGED <<now, ledger, git, entries>>

HostStep(h) ==
    \/ RecordDecision(h) \/ SealDecision(h) \/ EmitCheckpoint(h)
    \/ CheckCovering(h) \/ MarkSealed(h)
    \/ ClaimExecution(h) \/ SealClaim(h)
    \/ GitInspect(h) \/ GitAdvance(h) \/ GitObserve(h)
    \/ RecordResult(h) \/ SealResult(h) \/ RecordTerminal(h) \/ SealTerminal(h)
    \/ Reobserve(h) \/ RecordAbandon(h)

Next ==
    \/ \E h \in Hosts, kind \in Kinds : ReceiveDecision(h, kind)
    \/ \E h \in Hosts : ReceiveExecution(h) \/ ReceiveAbandon(h)
    \/ \E h \in Hosts : HostStep(h) \/ Crash(h)
    \/ Tick \/ Checkout
    \/ \E commit \in receipts \cup {Base, Foreign} : Push(commit)
    \/ \E c \in Candidates : ServeAppend(c) \/ ServeSeal(c)

Spec == Init /\ [][Next]_vars

\* Hosts finish the request they are on unless they die, the supervisor starts
\* them again, and clients repeat a request that was not answered as done.
FairSpec ==
    /\ Spec /\ WF_vars(Tick)
    /\ \A h \in Hosts :
        /\ WF_vars(HostStep(h)) /\ WF_vars(ReceiveExecution(h))
        /\ WF_vars(\E kind \in Kinds : ReceiveDecision(h, kind))

-----------------------------------------------------------------------------
(* What promotion promises *)

Pcs == {"idle", "record_decision", "seal_decision", "emit_checkpoint",
        "check_covering", "mark_sealed", "claim", "seal_claim", "git_inspect",
        "git_advance", "git_observe", "record_result", "seal_result",
        "record_terminal", "seal_terminal", "reobserve", "record_abandon"}
EventKinds ==
    {"promotion_approval_requested", "promotion_decision_recorded",
     "promotion_execution_claimed", "promotion_result_recorded", "activity",
     "workflow_terminal_completed", "workflow_terminal_failed",
     "promotion_reconciliation_resolved"}
Observations ==
    [head : Commits, sync : {"none", "root_checkout_stale", "target_advanced", "no_git"}]
DecisionRows == [state : {"awaiting", "sealed"}, kind : Kinds, mark : Nat]
ClaimRows == [state : {"claimed"}, expires : Nat]
ResultRows ==
    [state : {"recorded"}, seen : Observations,
     outcome : {"promoted", "rejected", "reconciliation_required"}]

\* Tables, tapes, refs and hosts stay in their ranges.
TypeOK ==
    /\ now \in Nat
    /\ tape \in [Candidates -> Seq(EventKinds)]
    /\ ckpts \in [Candidates -> Seq(Nat)]
    /\ decision \in [Candidates -> DecisionRows \cup {Absent}]
    /\ claim \in [Candidates -> ClaimRows \cup {Absent}]
    /\ result \in [Candidates -> ResultRows \cup {Absent}]
    /\ target \in Commits /\ receipts \subseteq Candidates /\ checkedOut \in BOOLEAN
    /\ frame \in [Hosts -> [pc : Pcs, kind : Kinds, mark : Nat,
                          claimed : BOOLEAN, seen : Observations]]
    /\ entries \in Seq(Candidates)
    /\ spent \in [pushes : Nat, appends : Nat, crashes : Nat]

\* A candidate's lease reaches the Git gateway at most once, whatever hosts
\* retry, crash or overlap: an expired or replayed claim "cannot re-enter the
\* Git gateway" (claim_governed_promotion_execution_v1 grants once, before any effect).
GitEnteredOnce ==
    \A i, j \in 1 .. Len(entries) : entries[i] = entries[j] => i = j

\* The gateway has moved the target for c only under a kernel-sealed promote
\* decision and a claim that a checkpoint already covered.
AdvanceIsAuthorised ==
    \A c \in receipts :
        /\ decision[c].state = "sealed" /\ decision[c].kind = "promote"
        /\ \E i \in 1 .. Covered(ckpts[c]) : tape[c][i] = "promotion_execution_claimed"

\* A recorded result tells the truth about Git: promoted and unresolved
\* results have their receipt, a rejection was never let into the gateway.
ResultIsTruthful ==
    \A c \in Candidates : result[c] # Absent =>
        IF result[c].outcome = "rejected"
        THEN c \notin receipts /\ \A i \in 1 .. Len(entries) : entries[i] # c
        ELSE /\ c \in receipts
             /\ result[c].outcome = "promoted" <=> result[c].seen = [head |-> c, sync |-> "none"]

Positions(c, kinds) == {i \in 1 .. Len(tape[c]) : tape[c][i] \in kinds}
Terminals == {"workflow_terminal_completed", "workflow_terminal_failed"}

\* A workflow terminal is signed only over a final result that a checkpoint
\* already covered, and it says what that result says.
TerminalFollowsSealedResult ==
    \A c \in Candidates : \A j \in Positions(c, Terminals) :
        /\ result[c] # Absent
        /\ tape[c][j] = CASE result[c].outcome = "promoted" -> "workflow_terminal_completed"
                         [] result[c].outcome = "rejected" -> "workflow_terminal_failed"
                         [] OTHER -> "none"
        /\ \E i \in Positions(c, {"promotion_result_recorded"}), k \in 1 .. Len(ckpts[c]) :
               i <= ckpts[c][k] /\ ckpts[c][k] < j

\* Candidates approved side by side for one branch: unless somebody puts the
\* base back, the compare-and-swap lets exactly one of them move it.
OneCandidateMovesTheBase == spent.pushes = 0 => Cardinality(receipts) <= 1

\* Undisturbed, a recorded decision always runs to its end: a sealed terminal,
\* a sealed unresolved result, a dispatch that expired before any claim, or a
\* branch that somebody else's commit moved away from the base first.
DecisionSettles ==
    \A c \in Candidates : decision[c] # Absent ~>
        \/ target # Base /\ c \notin receipts
        \/ claim[c] = Absent /\ result[c] = Absent /\ now >= DispatchExpires
        \/ /\ FullyCovered(tape[c], ckpts[c])
           /\ \/ Positions(c, Terminals) # {}
              \/ /\ result[c] # Absent
                 /\ result[c].outcome = "reconciliation_required"

-----------------------------------------------------------------------------
(* What comments in the code say of crashes and races *)

\* "A crash before the projection update is safe--the checkpoint can be
\* discovered": a decision that was recorded is sealed in the end.
DecisionIsSealed ==
    \A c \in Candidates : decision[c].state = "awaiting" ~> decision[c].state = "sealed"

\* Sealing happens under one writer transaction, so that no two connections
\* append competing checkpoints: every checkpoint covers more than the last.
CheckpointsAdvance == \A c \in Candidates : Advances(ckpts[c])

-----------------------------------------------------------------------------
Stage(c) ==
    IF result[c] # Absent
    THEN IF result[c].outcome # "reconciliation_required" THEN result[c].outcome
         ELSE IF OnTape(c, "promotion_reconciliation_resolved") THEN "resolved"
         ELSE "unresolved"
    ELSE IF c \in receipts THEN "moved"
    ELSE IF claim[c] # Absent THEN "reserved"
    ELSE IF decision[c] = Absent THEN "open"
    ELSE IF decision[c].kind = "promote" THEN "approved" ELSE "refused"

Contract == INSTANCE PromotionContract
                WITH head <- target, stage <- [c \in Candidates |-> Stage(c)]

\* Hosts, seals, retries and crashes implement the contract: decide once,
\* reserve once, move the base once by compare-and-swap, settle once.
ImplementsContract == Contract!Spec
=============================================================================
