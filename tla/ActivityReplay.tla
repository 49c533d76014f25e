---------------------------- MODULE ActivityReplay ----------------------------
(***************************************************************************)
(* How trusted replay (bp-replay/src/transitions.rs) judges the activity   *)
(* events the ledger signed.  Replay reads nothing but the tape: an event  *)
(* it rejects becomes a replay issue, and a recovery snapshot with an      *)
(* issue is refused, so an event the ledger signs and replay rejects stops *)
(* the run for good.                                                       *)
(***************************************************************************)
EXTENDS ActivityClaim

\* The claim event that opened the key of event i.
ClaimBefore(i) ==
    CHOOSE j \in LeaseEventsBefore(i) : IsClaim(tape[j])

Action(i) == claims[tape[i].key].action

\* activity_claim_timestamps_are_valid
ReplayAcceptsClaim(i) ==
    LET e == tape[i] IN
    /\ e.stamp = e.occurredAt
    /\ e.stamp >= Action(i).requestedAt /\ e.stamp >= Action(i).issuedAt
    /\ e.leaseExpiresAt > e.stamp
    /\ e.leaseExpiresAt <= Action(i).deadline

\* activity_heartbeat_timestamps_are_valid, and no heartbeat after a result
ReplayAcceptsHeartbeat(i) ==
    LET e == tape[i] IN
    /\ \A j \in 1 .. (i - 1) : tape[j].key = e.key => ~IsResult(tape[j])
    /\ e.stamp = e.occurredAt
    /\ e.stamp >= tape[ClaimBefore(i)].stamp
    /\ e.stamp < ExpiryBefore(i)
    /\ e.leaseExpiresAt > ExpiryBefore(i)
    /\ e.leaseExpiresAt <= Action(i).deadline
    /\ \A j \in LeaseEventsBefore(i) : IsClaim(tape[j]) \/ tape[j].stamp < e.stamp

\* activity_result_timestamp_is_valid, and one terminal result
ReplayAcceptsResult(i) ==
    LET e == tape[i] IN
    /\ \A j \in 1 .. (i - 1) : tape[j].key = e.key => ~IsResult(tape[j])
    /\ e.stamp = e.occurredAt
    /\ e.stamp >= tape[ClaimBefore(i)].stamp
    /\ e.stamp < ExpiryBefore(i) \/ e.outcome = "unknown"

ReplayAccepts(i) ==
    IF IsClaim(tape[i]) THEN ReplayAcceptsClaim(i)
    ELSE IF IsResult(tape[i]) THEN ReplayAcceptsResult(i)
    ELSE ReplayAcceptsHeartbeat(i)

\* The deadline and the clock of every event of the key of event i so far lie
\* on whole milliseconds: the precision both sides of the wire keep.
OnWholeMs(i) ==
    /\ Action(i).deadline % TicksPerMs = 0
    /\ \A j \in 1 .. i :
          tape[j].key = tape[i].key => tape[j].occurredAt % TicksPerMs = 0

\* The rows say what the tape says, and every activity event the ledger signs
\* is one trusted replay accepts, as long as times lie on whole milliseconds:
\* the two implementations of the lease rules (sqlite.rs and transitions.rs) agree.
TapeIsTheRecord ==
    /\ ProjectionIsTape
    /\ \A i \in 1 .. Len(tape) : OnWholeMs(i) => ReplayAccepts(i)

\* Every result the ledger signs binds recorded_at to its event's occurred_at
\* and lies inside the lease, as sealed_v3 replay demands.
ResultsReplay ==
    \A i \in 1 .. Len(tape) : IsResult(tape[i]) => ReplayAcceptsResult(i)
=============================================================================
