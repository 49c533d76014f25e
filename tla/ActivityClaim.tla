---------------------------- MODULE ActivityClaim ----------------------------
(***************************************************************************)
(* The activity-lease table of the governed ledger                         *)
(* (bp-ledger/src/storage/sqlite.rs).  Before an external effect may start *)
(* its host claims the activity; the ledger answers with one opaque lease, *)
(* extends it by signed heartbeats and closes it with one terminal result. *)
(* Every operation is one BEGIN IMMEDIATE transaction that writes a signed *)
(* event and a projection row together, so each is one atomic action here. *)
(*                                                                         *)
(* Time is counted in ticks, TicksPerMs of them to a millisecond: the      *)
(* clock is finer than the millisecond timestamps the ledger writes down.  *)
(***************************************************************************)
EXTENDS Integers, Sequences

CONSTANTS
    ActionRequests, \* the signed ActionRequestedV2 events already on the tape
    Keys,           \* idempotency keys of one run
    Activities,     \* activity ids of one run
    Durations,      \* lease durations a caller may ask for, in ticks
    HeartbeatIds,   \* caller-chosen heartbeat ids
    Evidence,       \* digests and references a result may carry
    TicksPerMs,
    MaxTime         \* bound: the last tick of the clock

Outcomes == {"succeeded", "failed", "unknown"}
Purposes == {"generic", "governed_verifier_v1"}
ClaimRequests(purposes) ==
    [key : Keys, activity : Activities, action : ActionRequests,
     duration : Durations, purpose : purposes]

\* An action request names one activity and key under one dispatch window;
\* a lease lasts a whole positive number of milliseconds.
ASSUME ActionAssumption ==
    \A a \in ActionRequests :
        /\ a.key \in Keys /\ a.activity \in Activities
        /\ a.issuedAt \in Nat /\ a.deadline \in Nat /\ a.requestedAt \in Nat
        /\ a.issuedAt <= a.requestedAt /\ a.issuedAt < a.deadline
ASSUME TimeAssumption ==
    /\ TicksPerMs \in Nat \ {0} /\ MaxTime \in Nat
    /\ \A d \in Durations : d \in Nat \ {0} /\ d % TicksPerMs = 0

NoClaim == [state |-> "none"]

VARIABLES
    now,    \* Utc::now(), in ticks
    tape,   \* the signed activity events, in id order
    claims, \* table activity_claims, by idempotency key
    beats   \* table activity_heartbeats, by idempotency key, in tape order

vars == <<now, tape, claims, beats>>

Lesser(a, b) == IF a <= b THEN a ELSE b

\* Millisecond RFC 3339 formatting drops the digits below a millisecond.
timestamp(t) == t - (t % TicksPerMs)

-----------------------------------------------------------------------------
(* Reading the projections back *)

\* validate_governed_dispatch: the dispatch window must contain t.
GovernedWindowOpen(a, t) == a.issuedAt <= t /\ t < a.deadline

\* A claim is granted only on a signed action request that names exactly the
\* caller's activity and key and precedes the claim inside the window.
ClaimEvidenceValid(a, key, activity, t) ==
    /\ a.key = key /\ a.activity = activity
    /\ a.requestedAt <= t
    /\ GovernedWindowOpen(a, t)

PriorExpiry(k, i) == IF i = 1 THEN claims[k].leaseExpiresAt
                     ELSE beats[k][i - 1].leaseExpiresAt

\* effective_activity_lease_expiry fails unless every stored heartbeat starts
\* at the expiry before it, while that is live, and moves it forward.
HeartbeatChainReadable(k) ==
    \A i \in 1 .. Len(beats[k]) :
        LET beat == beats[k][i] IN
        /\ beat.priorLeaseExpiresAt = PriorExpiry(k, i)
        /\ beat.heartbeatAt < PriorExpiry(k, i)
        /\ beat.leaseExpiresAt > PriorExpiry(k, i)
        /\ beat.leaseExpiresAt <= claims[k].action.deadline
        /\ GovernedWindowOpen(claims[k].action, beat.heartbeatAt)

EffectiveExpiry(k) == PriorExpiry(k, Len(beats[k]) + 1)

LeaseOver_late(k, t) == t > EffectiveExpiry(k)
LeaseOver(k, t) == t >= EffectiveExpiry(k)

Claimed(k) == claims[k] # NoClaim
Terminal(k) == claims[k].state = "recorded"
ActivityClaimed_unchecked(activity) == FALSE
ActivityClaimed(activity) ==
    \E k \in Keys : Claimed(k) /\ claims[k].activity = activity

-----------------------------------------------------------------------------
Init ==
    /\ now = 0
    /\ tape = <<>>
    /\ claims = [k \in Keys |-> NoClaim]
    /\ beats = [k \in Keys |-> <<>>]

Tick ==
    /\ now < MaxTime
    /\ now' = now + 1
    /\ UNCHANGED <<tape, claims, beats>>

\* What claim_activity_v1 answers.  Only "granted" writes anything.
ClaimDisposition(r) ==
    LET c == claims[r.key] IN
    IF ~Claimed(r.key)
    THEN IF /\ ~ActivityClaimed(r.activity)
            /\ ClaimEvidenceValid(r.action, r.key, r.activity, timestamp(now))
         THEN "granted" ELSE "rejected"
    ELSE IF \/ c.purpose # r.purpose \/ ~HeartbeatChainReadable(r.key)
            \/ c.activity # r.activity \/ c.action # r.action
            \/ c.duration # r.duration THEN "rejected"
    ELSE IF Terminal(r.key) THEN "recorded"
    ELSE IF LeaseOver(r.key, timestamp(now)) THEN "lease_expired"
    ELSE "pending"

ClaimActivity(r) ==
    LET at == timestamp(now)
        lease == Len(tape) + 1   \* fresh, like Uuid::now_v7
        expiry == timestamp(Lesser(at + r.duration, r.action.deadline))
    IN
    /\ ClaimDisposition(r) = "granted"
    /\ tape' = Append(tape, [kind |-> "activity_claimed_v1", key |-> r.key,
                             activity |-> r.activity, lease |-> lease,
                             occurredAt |-> at, stamp |-> at,
                             leaseExpiresAt |-> expiry])
    /\ claims' = [claims EXCEPT ![r.key] =
           [state |-> "granted", activity |-> r.activity, action |-> r.action,
            duration |-> r.duration, purpose |-> r.purpose, lease |-> lease,
            leaseExpiresAt |-> expiry, outcome |-> "none", evidence |-> "none"]]
    /\ UNCHANGED <<now, beats>>

NextExpiry_uncapped(k) == now + claims[k].duration
NextExpiry(k) ==
    Lesser(now + claims[k].duration, claims[k].action.deadline)

HeartbeatAdvances(k) == NextExpiry(k) > EffectiveExpiry(k)

\* What heartbeat_activity_v1 answers.  An exact retry finds its signed
\* heartbeat before the terminal state or the clock is looked at.
HeartbeatDisposition(k, activity, lease, id) ==
    LET Names(q) == \E i \in 1 .. Len(beats[q]) : beats[q][i].id = id IN
    IF \/ ~Claimed(k)
       \/ claims[k].activity # activity \/ claims[k].lease # lease THEN "rejected"
    ELSE IF Names(k) THEN "existing"
    ELSE IF \/ \E q \in Keys : Names(q)
            \/ Terminal(k) \/ ~HeartbeatChainReadable(k) THEN "rejected"
    ELSE IF LeaseOver(k, now) THEN "lease_expired"
    ELSE IF GovernedWindowOpen(claims[k].action, now) /\ HeartbeatAdvances(k)
         THEN "recorded" ELSE "rejected"

HeartbeatActivity(k, activity, lease, id) ==
    /\ HeartbeatDisposition(k, activity, lease, id) = "recorded"
    /\ tape' = Append(tape, [kind |-> "activity_heartbeat_recorded_v1", key |-> k,
                             activity |-> activity, lease |-> lease,
                             occurredAt |-> now, stamp |-> timestamp(now),
                             leaseExpiresAt |-> timestamp(NextExpiry(k))])
    /\ beats' = [beats EXCEPT ![k] = Append(@,
           [id |-> id, priorLeaseExpiresAt |-> EffectiveExpiry(k),
            leaseExpiresAt |-> timestamp(NextExpiry(k)),
            heartbeatAt |-> timestamp(now)])]
    /\ UNCHANGED <<now, claims>>

\* What record_activity_result_v1 answers.  After expiry only "unknown" may
\* close the lease; a recorded result is returned only to its exact repeat.
ResultDisposition(k, activity, lease, outcome, evidence) ==
    IF \/ ~Claimed(k)
       \/ claims[k].activity # activity \/ claims[k].lease # lease THEN "rejected"
    ELSE IF Terminal(k)
         THEN IF claims[k].outcome = outcome /\ claims[k].evidence = evidence
              THEN "existing" ELSE "rejected"
    ELSE IF ~HeartbeatChainReadable(k) THEN "rejected"
    ELSE IF LeaseOver(k, now) /\ outcome # "unknown" THEN "lease_expired"
    ELSE "recorded"

RecordActivityResult(k, activity, lease, outcome, evidence) ==
    /\ ResultDisposition(k, activity, lease, outcome, evidence) = "recorded"
    /\ tape' = Append(tape, [kind |-> "activity_result_recorded_v1", key |-> k,
                             activity |-> activity, lease |-> lease,
                             occurredAt |-> now, stamp |-> timestamp(now),
                             outcome |-> outcome])
    /\ claims' = [claims EXCEPT ![k].state = "recorded", ![k].outcome = outcome,
                                ![k].evidence = evidence]
    /\ UNCHANGED <<now, beats>>

\* Callers may name any lease that was ever minted, for any activity.
Leases == 1 .. Len(tape)

Next ==
    \/ Tick
    \/ \E r \in ClaimRequests(Purposes) : ClaimActivity(r)
    \/ \E k \in Keys, activity \in Activities, lease \in Leases, id \in HeartbeatIds :
           HeartbeatActivity(k, activity, lease, id)
    \/ \E k \in Keys, activity \in Activities, lease \in Leases,
          outcome \in Outcomes, evidence \in Evidence :
           RecordActivityResult(k, activity, lease, outcome, evidence)

Spec == Init /\ [][Next]_vars

-----------------------------------------------------------------------------
(* What the lease table promises *)

IsClaim(e) == e.kind = "activity_claimed_v1"
IsResult(e) == e.kind = "activity_result_recorded_v1"

\* The expiry in force for the key of event i when i was appended.
LeaseEventsBefore(i) ==
    {j \in 1 .. (i - 1) : tape[j].key = tape[i].key /\ ~IsResult(tape[j])}
ExpiryBefore(i) ==
    tape[CHOOSE j \in LeaseEventsBefore(i) :
             \A h \in LeaseEventsBefore(i) : h <= j].leaseExpiresAt

StoredClaim ==
    [state : {"granted", "recorded"}, activity : Activities,
     action : ActionRequests, duration : Durations, purpose : Purposes,
     lease : Nat \ {0}, leaseExpiresAt : Nat,
     outcome : Outcomes \cup {"none"}, evidence : Evidence \cup {"none"}]
StoredHeartbeat ==
    [id : HeartbeatIds, priorLeaseExpiresAt : Nat, leaseExpiresAt : Nat,
     heartbeatAt : Nat]
LeaseEvent ==
    [kind : {"activity_claimed_v1", "activity_heartbeat_recorded_v1"},
     key : Keys, activity : Activities, lease : Nat \ {0}, occurredAt : Nat,
     stamp : Nat, leaseExpiresAt : Nat]
ResultEvent ==
    [kind : {"activity_result_recorded_v1"}, key : Keys, activity : Activities,
     lease : Nat \ {0}, occurredAt : Nat, stamp : Nat, outcome : Outcomes]

\* The tables and the tape have the columns the schema gives them.
TypeOK ==
    /\ now \in Nat
    /\ tape \in Seq(LeaseEvent \cup ResultEvent)
    /\ claims \in [Keys -> StoredClaim \cup {NoClaim}]
    /\ beats \in [Keys -> Seq(StoredHeartbeat)]

\* No retry, second caller or expiry ever makes the ledger sign a second
\* lease for an idempotency key or for an activity id: a duplicate claimant
\* sees pending, recorded or lease_expired (existing_claim_disposition).
OneLeasePerActivity ==
    \A i, j \in 1 .. Len(tape) :
        /\ IsClaim(tape[i]) /\ IsClaim(tape[j])
        /\ tape[i].key = tape[j].key \/ tape[i].activity = tape[j].activity
        => i = j

\* The terminal result closes its key: after it the tape holds no further
\* heartbeat or result for that key (record_activity_result_v1 and
\* heartbeat_activity_v1 write only while the row is still granted).
ResultClosesActivity ==
    \A i, j \in 1 .. Len(tape) :
        IsResult(tape[i]) /\ tape[j].key = tape[i].key => j <= i

\* The rows are an index of the signed tape and nothing more: a row exists
\* exactly for a signed claim with its lease, it is recorded exactly when the
\* result event is there with its outcome, and each heartbeat row has its event.
ProjectionIsTape ==
    \A k \in Keys :
        /\ claims[k] # NoClaim <=> \E i \in 1 .. Len(tape) : IsClaim(tape[i]) /\ tape[i].key = k
        /\ claims[k] # NoClaim => /\ claims[k].lease <= Len(tape)
                         /\ IsClaim(tape[claims[k].lease])
                         /\ tape[claims[k].lease].key = k
        /\ \A i \in 1 .. Len(tape) :
               tape[i].key = k => claims[k] # NoClaim /\ tape[i].lease = claims[k].lease
        /\ claims[k] # NoClaim /\ claims[k].state = "recorded" <=>
               \E i \in 1 .. Len(tape) :
                   /\ IsResult(tape[i]) /\ tape[i].key = k
                   /\ claims[k].outcome = tape[i].outcome

-----------------------------------------------------------------------------
\* The lease of a key as the host may rely on it: the stored expiry with
\* every heartbeat counted, until the result closes it.
LeaseOf(k) ==
    IF claims[k] = NoClaim THEN [state |-> "free"]
    ELSE IF claims[k].state = "recorded"
         THEN [state |-> "closed", outcome |-> claims[k].outcome]
    ELSE [state |-> "held", expires |-> EffectiveExpiry(k)]

Abstract == INSTANCE EffectLease
                WITH clock <- now, lease <- [k \in Keys |-> LeaseOf(k)]

\* The tables and their transactions implement the abstract lease: reserved
\* once, extended only forward and only while live, closed once and never
\* with a success or failure after the expiry.
ImplementsEffectLease == Abstract!Spec
=============================================================================
