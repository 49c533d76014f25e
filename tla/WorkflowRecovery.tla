--------------------------- MODULE WorkflowRecovery ---------------------------
(***************************************************************************)
(* What a host may learn from trusted replay after a crash                 *)
(* (bp-replay/src/trusted_recovery.rs, activity_decision.rs and the        *)
(* resolver of bp-cli/src/ledger_cli.rs): the verified snapshot, its       *)
(* verdict on every recorded action and promotion, the pending work it     *)
(* emits again, and the bounded cache it publishes.  The verdicts are      *)
(* operators over the projection, so they are asked of every state of      *)
(* every tape; the cache has a publisher that may be overtaken by the tape *)
(* between replay and publication.                                         *)
(***************************************************************************)
EXTENDS WorkflowReplay

CONSTANTS
    MaxEvents, \* TRUSTED_GOVERNED_RECOVERY_MAX_EVENTS_V1
    MaxRows    \* WORKFLOW_INSTANCE_SNAPSHOT_CACHE_MAX_ROWS_V1

\* Events and rows are counted, and a tape starts with finitely many workflows.
ASSUME RecoveryAssumption ==
    /\ MaxRows \in Nat /\ none \notin {"Conflict", "v2"}
    /\ \A s \in Scenarios :
          s.prefix \in Nat /\ s.others \in Nat /\ IsFiniteSet(DOMAIN s.starts)

VARIABLES
    length,  \* events of the run, counted on tapes a publisher reads
    covered, \* the last checkpoint covers every signed event
    snap,    \* the publisher's snapshot [count, seen], or none
    cache,   \* workflow_instance_snapshot_cache_v1, by workflow
    answer   \* what the last publication returned

recoveryVars == <<length, covered, snap, cache, answer>>

-----------------------------------------------------------------------------
(* The snapshot *)

\* A V5 dispatch counts only with the protected host's admission receipt.
is_trusted_governed_recovery_workflow(w) ==
    /\ governed_atomic_sealed_v3(w)
    /\ w.dispatch.version \in {4, 5} => w.dispatch.graph # none
    /\ w.dispatch.version = 5 => w.admission

Snapshot ==
    LET seen == {k \in DOMAIN wf : is_trusted_governed_recovery_workflow(wf[k])} IN
    [k \in seen |-> wf[k]]

\* The open fails when two workflows claim one candidate, and without any.
snapshot_indexes_are_unique(s) ==
    /\ DOMAIN s # {}
    /\ \A j, k \in DOMAIN s : s[j].candidate # none /\ s[j].candidate = s[k].candidate => j = k
    /\ \A k \in DOMAIN s : s[k].decision # none => s[k].candidate # none

-----------------------------------------------------------------------------
(* One recorded action *)

\* The query names an action of a sealed dispatch, request digest included.
action_identity_matches_query(w, a) ==
    governed_atomic_sealed_v3(w) /\ a \in DOMAIN w.actions

claim_is_well_formed(x) == x.claimed

model_action_evidence_is_well_formed(x) ==
    x.kind = "model" => x.intent # none /\ x.auth = "v2"

result_and_receipt_agree(x) == x.receipt # none => x.receipt = x.result

successful_model_result_has_bound_receipt(x) ==
    x.kind = "model" /\ x.result = "Succeeded" => x.receipt = "Succeeded"

\* expired: the observer's clock has passed the effective lease expiry.
classify_unclosed_action_retries(w, x, expired) ==
    IF w.phase # "Dispatched" \/ expired THEN "TerminalFailure" ELSE "WaitForActiveLease"
classify_unclosed_action(w, x, expired) ==
    IF x.receipt = "Unknown" THEN "ReconciliationRequired"
    ELSE IF x.receipt \in {"Failed", "Denied"} THEN "TerminalFailure"
    ELSE IF x.receipt = "Succeeded" \/ w.phase # "Dispatched" THEN "Blocked"
    ELSE IF expired THEN "ReconciliationRequired"
    ELSE "WaitForActiveLease"

classify_replayed_governed_action(w, a, expired) ==
    LET x == w.actions[a] IN
    IF \/ ~action_identity_matches_query(w, a)
       \/ ~claim_is_well_formed(x)
       \/ ~model_action_evidence_is_well_formed(x) THEN "Blocked"
    ELSE IF x.result = none THEN classify_unclosed_action(w, x, expired)
    ELSE IF \/ ~result_and_receipt_agree(x)
            \/ ~successful_model_result_has_bound_receipt(x) THEN "Blocked"
    ELSE IF x.result = "Succeeded" THEN "ReuseRecordedResult"
    ELSE IF x.result = "Failed" THEN "TerminalFailure"
    ELSE "ReconciliationRequired"

-----------------------------------------------------------------------------
(* Pending work of the whole snapshot.  One claim that cannot be placed    *)
(* fails the query for every workflow of the run.                          *)

InFlight(s) ==
    UNION {{<<k, a>> : a \in {b \in DOMAIN s[k].actions :
                                s[k].actions[b].claimed /\ s[k].actions[b].result = none}} :
           k \in DOMAIN s}

\* late: the in-flight claims whose lease the observer sees expired.
pending_activity_recovery_work(s, late) ==
    LET state(c) == classify_replayed_governed_action(s[c[1]], c[2], c \in late) IN
    IF \E c \in InFlight(s) : state(c) = "Blocked"
    THEN [blocked |-> TRUE, work |-> {}]
    ELSE [blocked |-> FALSE,
          work |-> {c \in InFlight(s) :
                      state(c) \in {"WaitForActiveLease", "ReconciliationRequired"}}]

\* Completion, acceptance and every named verdict must still support it.
validate_pending_promotion_approval(w) ==
    /\ w.candidate # none /\ w.completion /\ w.acceptance = "Passed"
    /\ w.approval # {}
    /\ \A ref \in w.approval : \E r \in w.reviews :
          r.ref = ref /\ r.version = 2 /\ r.decision = "Approve"

pending_promotion_approval_recovery_work(s) ==
    LET pending == {k \in DOMAIN s : s[k].phase = "PromotionApprovalPending"}
        sound(w) == /\ w.approval # none /\ w.decision = none /\ w.cancellation = none
                    /\ w.terminal = none /\ validate_pending_promotion_approval(w)
    IN  IF \E k \in pending : ~sound(s[k])
        THEN [blocked |-> TRUE, work |-> {}]
        ELSE [blocked |-> FALSE, work |-> pending]

\* active: the wall clock lies in the dispatch's window, in this repository.
validate_resolved_governed_dispatch(w, active) == w.dispatch.version = 3 /\ active

pending_recovery_work_for_dispatch(activity, approval, k) ==
    [blocked |-> FALSE, activity |-> {c \in activity : c[1] = k}, approval |-> approval \cap {k}]

\* The resolver asks both queries of the whole run before it narrows to one
\* dispatch.
resolve_governed_dispatch(s, k, late, active) ==
    LET activity == pending_activity_recovery_work(s, late)
        approval == pending_promotion_approval_recovery_work(s)
    IN  IF \/ activity.blocked \/ approval.blocked \/ k \notin DOMAIN s
           \/ ~validate_resolved_governed_dispatch(s[k], active)
        THEN [blocked |-> TRUE, activity |-> {}, approval |-> {}]
        ELSE pending_recovery_work_for_dispatch(activity.work, approval.work, k)

-----------------------------------------------------------------------------
(* One recorded promotion *)

\* The query's identity is the decision's, and a result is the decision's own.
promotion_decision_identity_matches_query(w) == w.candidate # none /\ w.decision # none

promotion_result_evidence_is_well_formed(result) ==
    <<result.outcome, result.sync>> \in
        {<<"Promoted", none>>, <<"Rejected", none>>,
         <<"ReconciliationRequired", "RootCheckoutStale">>,
         <<"ReconciliationRequired", "TargetAdvanced">>}

\* The intent may have reached Git before the crash: its effect is unknown.
classify_undone_promotion_as_rejected(decision) == "RecordedRejection"
classify_undone_promotion(decision) ==
    IF decision.kind = "Promote" THEN "ReconciliationRequired" ELSE "RecordedRejection"

classify_recorded_promotion_reconciliation(w) ==
    IF w.resolution = none THEN "ReconciliationRequired" ELSE "RecordedRejection"

classify_promotion_result(w, r) ==
    IF r.outcome = "Promoted" /\ r.sync # none THEN "ReconciliationRequired"
    ELSE IF \/ ~promotion_result_evidence_is_well_formed(r)
            \/ w.decision.kind = "Reject" /\ r.outcome # "Rejected"
            \/ r.outcome # "ReconciliationRequired" /\ w.resolution # none THEN "Blocked"
    ELSE IF r.outcome = "Promoted" THEN "ReuseRecordedPromotion"
    ELSE IF r.outcome = "Rejected" THEN "RecordedRejection"
    ELSE classify_recorded_promotion_reconciliation(w)

classify_replayed_governed_promotion_recovery(w) ==
    IF ~promotion_decision_identity_matches_query(w) THEN "Blocked"
    ELSE IF w.result = none THEN classify_undone_promotion(w.decision)
    ELSE classify_promotion_result(w, w.result)

-----------------------------------------------------------------------------
(* The snapshot cache.  A row is [count, proj, omits]: the projection, and *)
(* the additive fields an earlier release did not serialise.               *)

Init ==
    /\ ReplayInit
    /\ length = carries.prefix /\ covered = FALSE
    /\ snap = none /\ cache = <<>> /\ answer = none

Append ==
    /\ Next
    /\ length' = IF carries.publishes THEN length + 1 ELSE length
    /\ covered' = FALSE
    /\ UNCHANGED <<snap, cache, answer>>

\* A checkpoint is an event of the tape too.
Checkpoint ==
    /\ carries.publishes /\ ~covered
    /\ length' = length + 1 /\ covered' = TRUE
    /\ UNCHANGED <<vars, snap, cache, answer>>

open_with_event_limit ==
    /\ carries.publishes /\ snap = none
    /\ length <= MaxEvents /\ covered /\ snapshot_indexes_are_unique(Snapshot)
    /\ snap' = [count |-> length, seen |-> Snapshot]
    /\ UNCHANGED <<vars, length, covered, cache, answer>>

Entry(k) == [count |-> snap.count, proj |-> snap.seen[k], omits |-> {}]

\* The two fields added since: the graph context of a V4 dispatch and the
\* digest of the approval event.
Omittable(w) ==
    (IF w.dispatch.version = 4 THEN {"graph"} ELSE {}) \cup
    (IF w.approval # none THEN {"approval"} ELSE {})

is_exact_legacy_cache_projection(row, entry) ==
    /\ row.count = entry.count /\ row.proj = entry.proj
    /\ row.omits # {} /\ row.omits \subseteq Omittable(entry.proj)

\* Rows left once the exact legacy rows of this snapshot are deleted.
Migrated ==
    LET kept == {k \in DOMAIN cache :
                   ~(/\ k \in DOMAIN snap.seen
                     /\ is_exact_legacy_cache_projection(cache[k], Entry(k)))}
    IN [k \in kept |-> cache[k]]

SourceChanged_unchecked == FALSE
SourceChanged == length # snap.count

CacheFull(rows) ==
    LET new == DOMAIN snap.seen \ DOMAIN rows IN
    \/ Cardinality(DOMAIN snap.seen) > MaxRows
    \/ /\ new # {}
       /\ Cardinality(DOMAIN rows) + carries.others + Cardinality(new) > MaxRows

CacheConflict(rows) ==
    \E k \in DOMAIN snap.seen \cap DOMAIN rows :
        ~(rows[k].count < snap.count \/ rows[k] = Entry(k))

PublicationAnswer ==
    IF SourceChanged THEN "SourceChanged"
    ELSE IF CacheFull(Migrated) THEN "CapacityExceeded"
    ELSE IF CacheConflict(Migrated) THEN "Conflict"
    ELSE "Published"

\* The cache once these rows are inserted or take the place of older ones.
Upserted(rows) ==
    [k \in DOMAIN rows \cup DOMAIN cache |-> IF k \in DOMAIN rows THEN rows[k] ELSE cache[k]]

\* One IMMEDIATE transaction: any answer but Published rolls it all back.
persist_workflow_instance_snapshot_cache ==
    /\ snap # none
    /\ answer' = PublicationAnswer
    /\ cache' = IF PublicationAnswer = "Published"
                THEN Upserted([k \in DOMAIN snap.seen |-> Entry(k)])
                ELSE cache
    /\ snap' = none
    /\ UNCHANGED <<vars, length, covered>>

\* A publication by an earlier release, at once: it serialises less and
\* replaces only older rows.
EarlierRelease(fields) ==
    /\ carries.publishes /\ covered /\ snapshot_indexes_are_unique(Snapshot)
    /\ \A k \in DOMAIN Snapshot \cap DOMAIN cache : cache[k].count < length
    /\ Cardinality(DOMAIN Snapshot \cup DOMAIN cache) + carries.others <= MaxRows
    /\ \E k \in DOMAIN Snapshot : fields \cap Omittable(wf[k]) # {}
    /\ cache' = Upserted([k \in DOMAIN Snapshot |->
                   [count |-> length, proj |-> wf[k], omits |-> fields \cap Omittable(wf[k])]])
    /\ UNCHANGED <<vars, length, covered, snap, answer>>

RecoveryNext ==
    \/ Append \/ Checkpoint \/ open_with_event_limit
    \/ persist_workflow_instance_snapshot_cache
    \/ \E fields \in SUBSET {"graph", "approval"} \ {{}} : EarlierRelease(fields)

recoverySpec == Init /\ [][RecoveryNext]_<<vars, recoveryVars>>

-----------------------------------------------------------------------------
\* What recovery once reported as settled stays reported: no later event turns
\* a reusable result, a failure, a promotion or a rejection into anything else,
\* and no workflow drops out of the snapshot.  A Promote decision without its
\* result is therefore never called a rejection, since Git may have done it.
RecoveryAnswersStand ==
    [][\A k \in DOMAIN Snapshot :
         /\ k \in DOMAIN Snapshot'
         /\ \A a \in DOMAIN wf[k].actions, expired \in BOOLEAN :
               LET said == classify_replayed_governed_action(wf[k], a, expired) IN
               said \in {"ReuseRecordedResult", "TerminalFailure"} =>
                   classify_replayed_governed_action(wf'[k], a, expired) = said
         /\ LET said == classify_replayed_governed_promotion_recovery(wf[k]) IN
            said \in {"ReuseRecordedPromotion", "RecordedRejection"} =>
                classify_replayed_governed_promotion_recovery(wf'[k]) = said]_vars

\* The pending work of a run is complete or refused, whatever leases the
\* observer sees expired: no in-flight effect is left out, no settled one is
\* emitted again, and the refusal, which then hits every dispatch of the run,
\* comes only from an effect that outlived the Dispatched phase of its workflow.
\* An approval emitted again can still be decided on exactly its terms.
PendingWorkIsComplete ==
    LET s == Snapshot
        open == UNION {{<<k, a>> : a \in {b \in DOMAIN s[k].actions :
                            s[k].actions[b].claimed /\ s[k].actions[b].result = none}} :
                       k \in DOMAIN s}
        stray == \E c \in open : s[c[1]].phase # "Dispatched"
    IN  /\ \A late \in SUBSET open :
            LET told == pending_activity_recovery_work(s, late) IN
            /\ told.blocked = stray
            /\ ~stray => told.work = open
            /\ \A k \in DOMAIN s : s[k].dispatch.version = 3 =>
                  LET one == resolve_governed_dispatch(s, k, late, TRUE) IN
                  /\ one.blocked = stray
                  /\ ~stray => /\ one.activity = {c \in open : c[1] = k}
                               /\ (one.approval # {}) = (s[k].phase = "PromotionApprovalPending")
        /\ \A k \in pending_promotion_approval_recovery_work(s).work :
              ENABLED apply_promotion_decision(k, "Promote", wf[k].approval, TRUE, TRUE)

\* A row is written only from the tape as it stands at that moment, however
\* long before it was replayed; rows never outgrow the cache; and the current
\* release never meets a row it can neither replace nor recognise, so one left
\* by an earlier release does not block the publication for good.
CacheTellsTheTape ==
    [][/\ \A k \in DOMAIN cache' :
           k \notin DOMAIN cache \/ (k \in DOMAIN cache /\ cache'[k] # cache[k]) =>
               cache'[k].count = length /\ cache'[k].proj = wf[k]
       /\ Cardinality(DOMAIN cache') + carries.others <= MaxRows \/ cache' = cache
       /\ answer' # "Conflict"]_<<vars, recoveryVars>>
=============================================================================
