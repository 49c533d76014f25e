----------------------------- MODULE ReviewLane -----------------------------
(***************************************************************************)
(* The two ways the model controls are driven: directly, by a caller of    *)
(* the store's API, and by the broker (bp-authority-broker                 *)
(* BrokerModelAuthority, provider_preflight.rs and, for reviewers,         *)
(* run_reviewer_session), which only acts on a run that trusted replay     *)
(* opens.  Either may stop between a grant and its result.  The session    *)
(* host would call finalize_governed_v5_review_verdict_v1 last; it never   *)
(* gets there (README), so the verdict is a direct call here.              *)
(***************************************************************************)
EXTENDS ReviewVerdict

\* Each behaviour has one budget of [requests, appends, seals, ticks].
CONSTANT ReviewBudgets

VARIABLES
    frames,   \* what each caller is in the middle of
    calls,    \* provider calls made, by action
    issuer,   \* who made the provider call of the model action
    answers,  \* [answer, sealed] of the verdict calls
    allowance \* what callers and environment may still do

laneVars == <<reviewVars, frames, calls, issuer, answers, allowance>>

Callers == {"direct", "broker"}
resting == [pc |-> "idle", act |-> none, out |-> none, val |-> none, claimed |-> FALSE]

LaneInit ==
    /\ ReviewInit
    /\ frames = [c \in Callers |-> resting]
    /\ calls = [a \in ModelActions |-> 0]
    /\ issuer = none /\ answers = {}
    /\ allowance \in ReviewBudgets

-----------------------------------------------------------------------------
(* Frames *)

In(c, pc) == frames[c].pc = pc
Move(c, pc) == frames' = [frames EXCEPT ![c].pc = pc]
Rest(c) == frames' = [frames EXCEPT ![c] = resting]
Proceed(answer, ok, pc) == IF answer \in ok THEN Move("broker", pc) ELSE Rest("broker")

Use(what) == allowance[what] > 0 /\ allowance' = [allowance EXCEPT ![what] = @ - 1]
Quiet == UNCHANGED <<calls, issuer, answers, allowance>>

\* A granted lease is followed by the one provider call.
Granted(c, act) == frames' = [frames EXCEPT ![c].pc = "call", ![c].act = act]

-----------------------------------------------------------------------------
(* Direct callers of the store *)

Direct == In("direct", "idle") /\ Use("requests")

DirectIntent ==
    Direct /\ IssueIntent /\ UNCHANGED <<frames, calls, issuer, answers>>

DirectPreflight ==
    Direct /\ IssuePreflight /\ UNCHANGED <<frames, calls, issuer, answers>>

DirectClaim ==
    /\ Direct /\ ClaimPreflight
    /\ IF ClaimPreflightAnswer = "granted" THEN Granted("direct", "preflight")
       ELSE UNCHANGED frames
    /\ UNCHANGED <<calls, issuer, answers>>

DirectAuthorize ==
    /\ Direct
    /\ \E lane \in {"implementer", "reviewer"} :
          /\ Authorize(lane)
          /\ IF AuthorizeAnswer(lane) = "granted" THEN Granted("direct", "model")
             ELSE UNCHANGED frames
    /\ UNCHANGED <<calls, issuer, answers>>

DirectVerdict ==
    /\ Direct /\ FinalizeVerdict
    /\ answers' = answers \cup
          {[answer |-> VerdictAnswer,
            sealed |-> Has("verdict", none) /\ EndsAt(Terminal)]}
    /\ UNCHANGED <<frames, calls, issuer>>

-----------------------------------------------------------------------------
(* The broker *)

\* ReplaySnapshotVerifier: every checkpoint is signed by the pinned claim
\* signer, which under a reviewer lineage is never the checkpoint signer, and
\* no signed event lies behind the last one.
SnapshotOpens == ~lineage /\ TrustedOpen(tape, ckpts)

\* resolve_reviewer_session_from_snapshot: one intent over an accepted
\* candidate, and nothing authorised, claimed or ended yet.
Resolvable ==
    /\ Exactly("intent", "model") /\ Exactly("completion", none)
    /\ Exactly("acceptance", none) /\ tape[The("acceptance", none)].out = "passed"
    /\ ~Has("authorization", "model") /\ ~Has("claim", "model") /\ ~Has("receipt", "model")
    /\ ~Has("cancellation", none) /\ ~Has("terminal", none)

BrokerReads == SnapshotOpens /\ (role = "reviewer" => Resolvable)

BrokerRequest ==
    /\ In("broker", "idle") /\ Use("requests") /\ Move("broker", "open")
    /\ UNCHANGED <<reviewVars, calls, issuer, answers>>

\* issue_and_claim issues the intent for implementers only.
BrokerOpen ==
    /\ In("broker", "open")
    /\ IF ~BrokerReads THEN Rest("broker")
       ELSE Move("broker", IF role = "implementer" THEN "intent" ELSE "preflight")
    /\ UNCHANGED reviewVars /\ Quiet

BrokerIntent ==
    /\ In("broker", "intent") /\ IssueIntent
    /\ Proceed(IntentAnswer("implementer"), {"issued", "existing"}, "preflight")
    /\ Quiet

BrokerPreflight ==
    /\ In("broker", "preflight") /\ IssuePreflight
    /\ Proceed(IssuePreflightAnswer, {"issued", "existing"}, "claim")
    /\ Quiet

\* A recorded success is verified again before it is reused.
BrokerClaim ==
    /\ In("broker", "claim") /\ ClaimPreflight
    /\ CASE ClaimPreflightAnswer = "granted" -> Granted("broker", "preflight")
         [] ClaimPreflightAnswer = "recorded" /\ PreflightRecorded -> Move("broker", "reopen")
         [] OTHER -> Rest("broker")
    /\ Quiet

\* The tape is read again after the preflight was written to it; the claim
\* seen then decides whether a grant may reach the gateway.
BrokerReopen ==
    /\ In("broker", "reopen")
    /\ IF BrokerReads
       THEN frames' = [frames EXCEPT !["broker"].pc = "authorize",
                                     !["broker"].claimed = Has("claim", "model")]
       ELSE Rest("broker")
    /\ UNCHANGED reviewVars /\ Quiet

\* LedgerAuthorityBackend verifies the preflight first; then authorises.
PreflightFirst == PreflightRecorded

BrokerAuthorize ==
    /\ In("broker", "authorize")
    /\ IF PreflightFirst THEN Authorize(role) ELSE UNCHANGED reviewVars
    /\ IF /\ PreflightFirst /\ AuthorizeAnswer(role) = "granted"
          /\ ~frames["broker"].claimed
       THEN Granted("broker", "model") ELSE Rest("broker")
    /\ Quiet

-----------------------------------------------------------------------------
(* The provider call and its result *)

\* The provider counts, decides, answers something else, or is not heard of.
Provider(c) ==
    /\ In(c, "call")
    /\ calls' = [calls EXCEPT ![frames[c].act] = @ + 1]
    /\ issuer' = IF frames[c].act = "model" THEN c ELSE issuer
    /\ \E out \in {"succeeded", "failed", "unknown"}, val \in Decisions \cup {"other"} :
          /\ out # "succeeded" \/ frames[c].act = "preflight" => val = "other"
          /\ frames' = [frames EXCEPT ![c].pc = "result", ![c].out = out, ![c].val = val]
    /\ UNCHANGED <<reviewVars, answers, allowance>>

\* Only a preflight recorded as a success lets the broker go on; anything it
\* cannot record is reconciliation.
Record(c) ==
    LET f == frames[c] IN
    /\ In(c, "result")
    /\ IF f.act = "model" THEN RecordModel(f.out, f.val) ELSE RecordPreflight(f.out)
    /\ IF /\ c = "broker" /\ f.act = "preflight" /\ f.out = "succeeded"
          /\ ResultAnswer("preflight", "succeeded") \in {"recorded", "existing"}
       THEN Move(c, "reopen") ELSE Rest(c)
    /\ Quiet

Stop(c) ==
    /\ ~In(c, "idle") /\ Use("stops") /\ Rest(c)
    /\ UNCHANGED <<reviewVars, calls, issuer, answers>>

-----------------------------------------------------------------------------
(* The rest of the run *)

\* A cancellation, a terminal, or the events of another unit.
Others ==
    /\ Use("appends")
    /\ \E kind \in {"cancellation", "terminal", "other"} :
          tape' = Append(tape, Signed(kind, none, none, none))
    /\ UNCHANGED <<ckpts, rows, now, fixed, intentRow, frames, calls, issuer, answers>>

SealRun ==
    /\ Use("seals") /\ CanSeal(ckpts) /\ ckpts' = Sealed(tape, ckpts)
    /\ UNCHANGED <<tape, rows, now, fixed, intentRow, frames, calls, issuer, answers>>

LaneTick ==
    /\ Use("ticks") /\ now' = now + 1
    /\ UNCHANGED <<tape, ckpts, rows, fixed, intentRow, frames, calls, issuer, answers>>

BrokerStep ==
    \/ BrokerOpen \/ BrokerIntent \/ BrokerPreflight \/ BrokerClaim
    \/ BrokerReopen \/ BrokerAuthorize

LaneStep == BrokerStep \/ \E c \in Callers : Provider(c) \/ Record(c)

LaneNext ==
    \/ DirectIntent \/ DirectPreflight \/ DirectClaim \/ DirectAuthorize \/ DirectVerdict
    \/ BrokerRequest \/ LaneStep
    \/ \E c \in Callers : Stop(c)
    \/ Others \/ SealRun \/ LaneTick

LaneSpec == LaneInit /\ [][LaneNext]_laneVars

-----------------------------------------------------------------------------
(* Properties *)

\* No provider call is made twice for one action, however callers interleave,
\* stop and retry; a decision is recorded only after its call, under the one
\* intent, authorization and lease of its action, and a call of the broker
\* only after a token preflight that succeeded.
ProviderCallIsEarned ==
    /\ \A a \in ModelActions : calls[a] <= 1
    /\ \A a \in ModelActions : Has("result", a) => calls[a] = 1 /\ Exactly("result", a)
    /\ calls["model"] = 1 =>
          /\ Exactly("intent", "model") /\ Exactly("authorization", "model")
          /\ Exactly("claim", "model") /\ intentRow = The("intent", "model")
          /\ Before("intent", "model", "authorization", "model")
          /\ issuer = "broker" => /\ Has("result", "preflight")
                                  /\ Before("result", "preflight", "authorization", "model")

\* A verdict says what the reviewer's recorded result says of a candidate that
\* passed under a checkpoint of its own, is never the first word on a workflow
\* already cancelled or ended, asks for approval exactly when it approves, and
\* is sealed with a checkpoint that ends at its last event.
VerdictIsEarned ==
    \A i \in EventsOf("verdict", none) :
        /\ Exactly("verdict", none) /\ Exactly("acceptance", none)
        /\ tape[The("acceptance", none)].out = "passed"
        /\ EndsAt(The("acceptance", none))
        /\ tape[The("result", "model")].val = tape[i].out
        /\ \A a \in ModelActions : Has("result", a) /\ The("result", a) < i =>
              Has("receipt", a) /\ tape[The("result", a)].out = "succeeded"
        /\ \A k \in {"cancellation", "terminal"} : \A j \in EventsOf(k, none) : j > i
        /\ Has("approval", none) <=> tape[i].out = "approve"
        /\ EndsAt(IF Has("approval", none) THEN The("approval", none) ELSE i)

\* A verdict that was sealed is returned to every later caller.
SealedVerdictIsRecoverable == \A a \in answers : a.sealed => a.answer = "existing"

\* A reviewer request that trusted replay resolved gets its token preflight
\* issued, or reuses the one there is, while its dispatch is live.
ResolvedReviewReachesPreflight ==
    In("broker", "preflight") /\ role = "reviewer" /\ DispatchLive =>
        IssuePreflightAnswer \in {"issued", "existing"}
=============================================================================
