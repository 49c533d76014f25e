---------------------------- MODULE ActivityProofs ----------------------------
(***************************************************************************)
(* The activity-lease table, and what its tape means to its two readers,   *)
(* for every set of keys, requests, durations, sessions and every clock    *)
(* granularity: to trusted replay, which judges the signed events again by *)
(* its own copy of the lease rules, and to the hosts `ledger serve'        *)
(* answers.                                                                *)
(***************************************************************************)
EXTENDS ActivityReplay, GovernedServe, TLAPS

-----------------------------------------------------------------------------
(* The lease table *)

\* Formatting a time in milliseconds yields a time that is not later.
LEMMA TimestampType ==
    ASSUME NEW t \in Nat
    PROVE  timestamp(t) \in Nat /\ timestamp(t) <= t
  BY TimeAssumption DEF timestamp

\* A stored row that is not the empty one has every column.
LEMMA RowType ==
    ASSUME TypeOK, NEW k \in Keys, Claimed(k)
    PROVE  claims[k] \in StoredClaim
  BY DEF TypeOK, Claimed

\* The expiry in force for a claimed key is a time.
LEMMA ExpiryType ==
    ASSUME TypeOK, NEW k \in Keys, Claimed(k)
    PROVE  EffectiveExpiry(k) \in Nat
<1>1. beats[k] \in Seq(StoredHeartbeat)
  BY DEF TypeOK
<1>2. CASE Len(beats[k]) = 0
  BY <1>2, RowType DEF EffectiveExpiry, PriorExpiry, StoredClaim
<1>3. CASE Len(beats[k]) # 0
  <2>1. Len(beats[k]) \in 1 .. Len(beats[k]) /\ Len(beats[k]) + 1 # 1
    BY <1>1, <1>3
  <2>2. beats[k][Len(beats[k])] \in StoredHeartbeat
    BY <1>1, <2>1
  <2> QED
    BY <1>1, <2>1, <2>2 DEF EffectiveExpiry, PriorExpiry, StoredHeartbeat
<1> QED
  BY <1>2, <1>3

\* The expiry a heartbeat asks for is a time.
LEMMA NextExpiryType ==
    ASSUME TypeOK, NEW k \in Keys, Claimed(k)
    PROVE  NextExpiry(k) \in Nat
<1>1. claims[k].duration \in Nat /\ claims[k].action.deadline \in Nat
  BY RowType, TimeAssumption, ActionAssumption DEF StoredClaim
<1> QED
  BY <1>1 DEF NextExpiry, Lesser, TypeOK

\* Claim, heartbeat, result and the passing of time each keep the types.
LEMMA TypeStep == TypeOK /\ [Next]_vars => TypeOK'
<1> SUFFICES ASSUME TypeOK, [Next]_vars PROVE TypeOK'
  OBVIOUS
<1>1. CASE Tick
  BY <1>1 DEF TypeOK, Tick
<1>2. ASSUME NEW r \in ClaimRequests(Purposes), ClaimActivity(r) PROVE TypeOK'
  <2> DEFINE at == timestamp(now)
             expiry == timestamp(Lesser(at + r.duration, r.action.deadline))
  <2>1. r.key \in Keys /\ r.activity \in Activities /\ r.action \in ActionRequests
        /\ r.duration \in Durations /\ r.purpose \in Purposes
    BY DEF ClaimRequests
  <2>2. at \in Nat
    BY TimestampType DEF TypeOK
  <2>3. r.duration \in Nat /\ r.action.deadline \in Nat
    BY <2>1, TimeAssumption, ActionAssumption
  <2>4. Lesser(at + r.duration, r.action.deadline) \in Nat
    BY <2>2, <2>3 DEF Lesser
  <2>5. expiry \in Nat
    BY <2>4, TimestampType
  <2>6. Len(tape) + 1 \in Nat \ {0}
    BY DEF TypeOK
  <2>7. tape' \in Seq(LeaseEvent \cup ResultEvent)
    <3>1. [kind |-> "activity_claimed_v1", key |-> r.key,
           activity |-> r.activity, lease |-> Len(tape) + 1,
           occurredAt |-> at, stamp |-> at, leaseExpiresAt |-> expiry]
              \in LeaseEvent
      BY <2>1, <2>2, <2>5, <2>6 DEF LeaseEvent
    <3> QED
      BY <1>2, <3>1 DEF ClaimActivity, TypeOK
  <2>8. claims' \in [Keys -> StoredClaim \cup {NoClaim}]
    <3>1. [state |-> "granted", activity |-> r.activity, action |-> r.action,
           duration |-> r.duration, purpose |-> r.purpose,
           lease |-> Len(tape) + 1, leaseExpiresAt |-> expiry,
           outcome |-> "none", evidence |-> "none"] \in StoredClaim
      BY <2>1, <2>5, <2>6 DEF StoredClaim
    <3> QED
      BY <1>2, <2>1, <3>1 DEF ClaimActivity, TypeOK
  <2> QED
    BY <1>2, <2>7, <2>8 DEF ClaimActivity, TypeOK
<1>3. ASSUME NEW k \in Keys, NEW activity \in Activities, NEW lease \in Leases,
             NEW id \in HeartbeatIds, HeartbeatActivity(k, activity, lease, id)
      PROVE  TypeOK'
  <2>1. Claimed(k)
    BY <1>3 DEF HeartbeatActivity, HeartbeatDisposition
  <2>2. EffectiveExpiry(k) \in Nat /\ timestamp(NextExpiry(k)) \in Nat
        /\ timestamp(now) \in Nat /\ now \in Nat
    BY <2>1, ExpiryType, NextExpiryType, TimestampType DEF TypeOK
  <2>3. lease \in Nat \ {0}
    BY DEF Leases, TypeOK
  <2>4. tape' \in Seq(LeaseEvent \cup ResultEvent)
    <3>1. [kind |-> "activity_heartbeat_recorded_v1", key |-> k,
           activity |-> activity, lease |-> lease, occurredAt |-> now,
           stamp |-> timestamp(now),
           leaseExpiresAt |-> timestamp(NextExpiry(k))] \in LeaseEvent
      BY <2>2, <2>3 DEF LeaseEvent
    <3> QED
      BY <1>3, <3>1 DEF HeartbeatActivity, TypeOK
  <2>5. beats' \in [Keys -> Seq(StoredHeartbeat)]
    <3>1. [id |-> id, priorLeaseExpiresAt |-> EffectiveExpiry(k),
           leaseExpiresAt |-> timestamp(NextExpiry(k)),
           heartbeatAt |-> timestamp(now)] \in StoredHeartbeat
      BY <2>2 DEF StoredHeartbeat
    <3> QED
      BY <1>3, <3>1 DEF HeartbeatActivity, TypeOK
  <2> QED
    BY <1>3, <2>4, <2>5 DEF HeartbeatActivity, TypeOK
<1>4. ASSUME NEW k \in Keys, NEW activity \in Activities, NEW lease \in Leases,
             NEW outcome \in Outcomes, NEW evidence \in Evidence,
             RecordActivityResult(k, activity, lease, outcome, evidence)
      PROVE  TypeOK'
  <2>1. Claimed(k)
    BY <1>4 DEF RecordActivityResult, ResultDisposition
  <2>2. claims[k] \in StoredClaim
    BY <2>1, RowType
  <2>3. lease \in Nat \ {0} /\ now \in Nat /\ timestamp(now) \in Nat
    <3>1. lease \in Nat \ {0}
      BY DEF Leases
    <3>2. now \in Nat
      BY Zenon DEF TypeOK
    <3> QED BY Zenon, <3>1, <3>2, TimestampType
  <2>4. tape' \in Seq(LeaseEvent \cup ResultEvent)
    <3>1. [kind |-> "activity_result_recorded_v1", key |-> k,
           activity |-> activity, lease |-> lease, occurredAt |-> now,
           stamp |-> timestamp(now), outcome |-> outcome] \in ResultEvent
      BY <2>3 DEF ResultEvent
    <3> QED
      BY <1>4, <3>1 DEF RecordActivityResult, TypeOK
  <2>5. claims' \in [Keys -> StoredClaim \cup {NoClaim}]
    <3>1. claims' = [claims EXCEPT ![k] = [claims[k] EXCEPT
              !.state = "recorded", !.outcome = outcome, !.evidence = evidence]]
      BY Zenon, <1>4 DEF RecordActivityResult, TypeOK
    <3>2. [claims[k] EXCEPT !.state = "recorded", !.outcome = outcome,
                            !.evidence = evidence] \in StoredClaim
      BY Zenon, <2>2 DEF StoredClaim
    <3> QED
      BY <3>1, <3>2 DEF TypeOK
  <2> QED
    BY <1>4, <2>4, <2>5 DEF RecordActivityResult, TypeOK
<1>5. CASE UNCHANGED vars
  BY <1>5 DEF TypeOK, vars
<1> QED
  BY <1>1, <1>2, <1>3, <1>4, <1>5 DEF Next

\* The tables and the tape keep their types through every operation of the
\* ledger: claim, heartbeat, result and the passing of time.
THEOREM TypeCorrect == Spec => []TypeOK
<1>1. Init => TypeOK
  BY DEF Init, TypeOK
<1> QED
  BY <1>1, TypeStep, PTL DEF Spec

-----------------------------------------------------------------------------
(* At most one lease, closed once *)

\* What ties the tape to the rows: the row of every signed event exists, a
\* claim event's row carries its activity and a result event's row is closed.
RowPerEvent ==
    \A i \in 1 .. Len(tape) :
        /\ Claimed(tape[i].key)
        /\ IsClaim(tape[i]) => claims[tape[i].key].activity = tape[i].activity
        /\ IsResult(tape[i]) => Terminal(tape[i].key)

LeaseInv == TypeOK /\ RowPerEvent /\ OneLeasePerActivity /\ ResultClosesActivity

\* The event a step appends is a typed event.
LEMMA ElementAppended ==
    ASSUME TypeOK, TypeOK', NEW e, tape' = Append(tape, e)
    PROVE  e \in LeaseEvent \cup ResultEvent
<1>1. Len(tape') = Len(tape) + 1 /\ tape'[Len(tape) + 1] = e /\ Len(tape) \in Nat
  BY DEF TypeOK
<1> QED
  BY <1>1 DEF TypeOK

\* Rows are never removed, reassigned to another activity or reopened.
LEMMA RowsPersist ==
    ASSUME TypeOK, [Next]_vars, NEW k \in Keys, Claimed(k)
    PROVE  /\ claims'[k] # NoClaim
           /\ claims'[k].activity = claims[k].activity
           /\ claims[k].state = "recorded" => claims'[k].state = "recorded"
<1>1. CASE Tick
  BY <1>1 DEF Tick, Claimed
<1>2. ASSUME NEW r \in ClaimRequests(Purposes), ClaimActivity(r)
      PROVE  claims'[k] = claims[k]
  <2>1. ~Claimed(r.key)
    BY <1>2 DEF ClaimActivity, ClaimDisposition, Terminal
  <2> QED
    BY <1>2, <2>1 DEF ClaimActivity, TypeOK
<1>3. ASSUME NEW q \in Keys, NEW activity \in Activities, NEW lease \in Leases,
             NEW id \in HeartbeatIds, HeartbeatActivity(q, activity, lease, id)
      PROVE  claims'[k] = claims[k]
  BY <1>3 DEF HeartbeatActivity
<1>4. ASSUME NEW q \in Keys, NEW activity \in Activities, NEW lease \in Leases,
             NEW outcome \in Outcomes, NEW evidence \in Evidence,
             RecordActivityResult(q, activity, lease, outcome, evidence)
      PROVE  /\ claims'[k] # NoClaim
             /\ claims'[k].activity = claims[k].activity
             /\ claims[k].state = "recorded" => claims'[k].state = "recorded"
  <2>1. CASE q # k
    BY <1>4, <2>1 DEF RecordActivityResult, TypeOK, Claimed
  <2>2. CASE q = k
    <3>1. claims'[k] = [claims[k] EXCEPT !.state = "recorded",
                            !.outcome = outcome, !.evidence = evidence]
      BY <1>4, <2>2 DEF RecordActivityResult, TypeOK
    <3>2. claims[k] \in StoredClaim
      BY RowType
    <3>3. claims'[k].state = "recorded" /\ claims'[k].activity = claims[k].activity
      BY <3>1, <3>2 DEF StoredClaim
    <3> QED
      BY <3>3 DEF NoClaim
  <2> QED
    BY <2>1, <2>2
<1>5. CASE UNCHANGED vars
  BY <1>5 DEF vars, Claimed
<1> QED
  BY <1>1, <1>2, <1>3, <1>4, <1>5 DEF Next, Claimed

\* An operation that appends an event e appends it for a row that is new (a
\* claim, for an activity no row has) or still open (everything else).
LEMMA AppendLemma ==
    ASSUME LeaseInv, TypeOK', [Next]_vars, NEW e \in LeaseEvent \cup ResultEvent,
           tape' = Append(tape, e),
           IsClaim(e) => ~Claimed(e.key) /\ ~ActivityClaimed(e.activity),
           ~IsClaim(e) => Claimed(e.key) /\ ~Terminal(e.key),
           claims'[e.key] # NoClaim,
           IsClaim(e) => claims'[e.key].activity = e.activity,
           IsResult(e) => claims'[e.key].state = "recorded"
    PROVE  LeaseInv'
<1> DEFINE n == Len(tape)
<1>0. n \in Nat /\ Len(tape') = n + 1 /\ tape'[n + 1] = e
      /\ (\A i \in 1 .. n : tape'[i] = tape[i] /\ tape[i] \in LeaseEvent \cup ResultEvent)
  BY DEF LeaseInv, TypeOK
<1>k. e.key \in Keys /\ \A i \in 1 .. n : tape[i].key \in Keys
  BY <1>0 DEF LeaseEvent, ResultEvent
<1>1. RowPerEvent'
  <2> SUFFICES ASSUME NEW i \in 1 .. (n + 1)
               PROVE  /\ claims'[tape'[i].key] # NoClaim
                      /\ IsClaim(tape'[i]) => claims'[tape'[i].key].activity = tape'[i].activity
                      /\ IsResult(tape'[i]) => claims'[tape'[i].key].state = "recorded"
    BY <1>0 DEF RowPerEvent, Claimed, Terminal, IsClaim, IsResult
  <2>1. CASE i = n + 1
    BY <1>0, <2>1
  <2>2. CASE i # n + 1
    <3>1. i \in 1 .. n
      BY <1>0, <2>2
    <3>2. /\ Claimed(tape[i].key)
          /\ IsClaim(tape[i]) => claims[tape[i].key].activity = tape[i].activity
          /\ IsResult(tape[i]) => claims[tape[i].key].state = "recorded"
      BY <3>1 DEF LeaseInv, RowPerEvent, Terminal
    <3> QED
      BY <1>0, <1>k, <3>1, <3>2, RowsPersist DEF LeaseInv
  <2> QED
    BY <2>1, <2>2
<1>2. OneLeasePerActivity'
  <2>1. ASSUME NEW i \in 1 .. n, IsClaim(tape[i]), IsClaim(e)
        PROVE  tape[i].key # e.key /\ tape[i].activity # e.activity
    BY <2>1, <1>k DEF LeaseInv, RowPerEvent, ActivityClaimed
  <2> SUFFICES ASSUME NEW i \in 1 .. (n + 1), NEW j \in 1 .. (n + 1),
                      IsClaim(tape'[i]), IsClaim(tape'[j]),
                      tape'[i].key = tape'[j].key \/ tape'[i].activity = tape'[j].activity
               PROVE  i = j
    BY <1>0 DEF OneLeasePerActivity, IsClaim
  <2>2. CASE i \in 1 .. n /\ j \in 1 .. n
    BY <1>0, <2>2 DEF LeaseInv, OneLeasePerActivity
  <2>3. CASE i = n + 1 /\ j = n + 1
    BY <2>3
  <2>4. CASE i \in 1 .. n /\ j = n + 1
    BY <1>0, <2>1, <2>4
  <2>5. CASE i = n + 1 /\ j \in 1 .. n
    BY <1>0, <2>1, <2>5
  <2> QED
    BY <1>0, <2>2, <2>3, <2>4, <2>5
<1>3. ResultClosesActivity'
  <2>1. ASSUME NEW i \in 1 .. n, IsResult(tape[i]) PROVE tape[i].key # e.key
    BY <2>1 DEF LeaseInv, RowPerEvent
  <2> SUFFICES ASSUME NEW i \in 1 .. (n + 1), NEW j \in 1 .. (n + 1),
                      IsResult(tape'[i]), tape'[j].key = tape'[i].key
               PROVE  j <= i
    BY <1>0 DEF ResultClosesActivity, IsResult
  <2>2. CASE i = n + 1
    BY <1>0, <2>2
  <2>3. CASE i \in 1 .. n /\ j \in 1 .. n
    BY <1>0, <2>3 DEF LeaseInv, ResultClosesActivity
  <2>4. CASE i \in 1 .. n /\ j = n + 1
    BY <1>0, <2>1, <2>4
  <2> QED
    BY <1>0, <2>2, <2>3, <2>4
<1> QED
  BY <1>1, <1>2, <1>3 DEF LeaseInv

\* Every operation of the ledger keeps LeaseInv.
LEMMA LeaseInvStep == LeaseInv /\ TypeOK' /\ [Next]_vars => LeaseInv'
<1> SUFFICES ASSUME LeaseInv, TypeOK', [Next]_vars PROVE LeaseInv'
  OBVIOUS
<1>t. TypeOK
  BY DEF LeaseInv
<1>1. CASE UNCHANGED <<tape, claims>>
  BY <1>1 DEF LeaseInv, RowPerEvent, OneLeasePerActivity, ResultClosesActivity,
              Claimed, Terminal, IsClaim, IsResult
<1>2. ASSUME NEW r \in ClaimRequests(Purposes), ClaimActivity(r) PROVE LeaseInv'
  <2>1. ~Claimed(r.key) /\ ~ActivityClaimed(r.activity)
    BY <1>2 DEF ClaimActivity, ClaimDisposition
  <2>2. PICK e : tape' = Append(tape, e) /\ e.kind = "activity_claimed_v1"
                 /\ e.key = r.key /\ e.activity = r.activity
    BY <1>2 DEF ClaimActivity
  <2>3. e \in LeaseEvent \cup ResultEvent
    BY <1>t, <2>2, ElementAppended
  <2>4. r.key \in Keys
    BY DEF ClaimRequests
  <2>5. claims'[r.key] # NoClaim /\ claims'[r.key].activity = r.activity
    <3>1. claims'[r.key].state = "granted" /\ claims'[r.key].activity = r.activity
      BY <1>2, <1>t, <2>4 DEF ClaimActivity, TypeOK
    <3> QED
      BY <3>1 DEF NoClaim
  <2> QED
    BY <2>1, <2>2, <2>3, <2>5, AppendLemma DEF IsClaim, IsResult
<1>3. ASSUME NEW k \in Keys, NEW activity \in Activities, NEW lease \in Leases,
             NEW id \in HeartbeatIds, HeartbeatActivity(k, activity, lease, id)
      PROVE  LeaseInv'
  <2>1. Claimed(k) /\ ~Terminal(k)
    BY <1>3 DEF HeartbeatActivity, HeartbeatDisposition
  <2>2. PICK e : tape' = Append(tape, e) /\ e.kind = "activity_heartbeat_recorded_v1"
                 /\ e.key = k
    BY <1>3 DEF HeartbeatActivity
  <2>3. e \in LeaseEvent \cup ResultEvent
    BY <1>t, <2>2, ElementAppended
  <2>4. claims' = claims
    BY <1>3 DEF HeartbeatActivity
  <2> QED
    BY <2>1, <2>2, <2>3, <2>4, AppendLemma DEF IsClaim, IsResult, Claimed
<1>4. ASSUME NEW k \in Keys, NEW activity \in Activities, NEW lease \in Leases,
             NEW outcome \in Outcomes, NEW evidence \in Evidence,
             RecordActivityResult(k, activity, lease, outcome, evidence)
      PROVE  LeaseInv'
  <2>1. Claimed(k) /\ ~Terminal(k)
    BY <1>4 DEF RecordActivityResult, ResultDisposition
  <2>2. PICK e : tape' = Append(tape, e) /\ e.kind = "activity_result_recorded_v1"
                 /\ e.key = k
    BY <1>4 DEF RecordActivityResult
  <2>3. e \in LeaseEvent \cup ResultEvent
    BY <1>t, <2>2, ElementAppended
  <2>4. claims'[k] # NoClaim
    BY <1>t, <2>1, RowsPersist
  <2>5. claims'[k].state = "recorded"
    <3>1. claims'[k] = [claims[k] EXCEPT !.state = "recorded",
                            !.outcome = outcome, !.evidence = evidence]
      BY <1>4, <1>t DEF RecordActivityResult, TypeOK
    <3>2. claims[k] \in StoredClaim
      BY <1>t, <2>1, RowType
    <3> QED
      BY <3>1, <3>2 DEF StoredClaim
  <2> QED
    BY <2>1, <2>2, <2>3, <2>4, <2>5, AppendLemma DEF IsClaim, IsResult
<1> QED
  BY <1>1, <1>2, <1>3, <1>4 DEF Next, Tick, vars

\* However callers race and retry, the ledger signs at most one lease for a
\* key and for an activity, and a result is the last event of its key: for
\* every set of keys, activities and requests.
THEOREM LeaseSafety == Spec => [](OneLeasePerActivity /\ ResultClosesActivity)
<1>1. Init => LeaseInv
  <2>1. Init => TypeOK
    BY DEF Init, TypeOK
  <2> QED
    BY <2>1 DEF Init, LeaseInv, RowPerEvent, OneLeasePerActivity, ResultClosesActivity
<1>2. LeaseInv => OneLeasePerActivity /\ ResultClosesActivity
  BY DEF LeaseInv
<1> QED
  BY <1>1, <1>2, LeaseInvStep, TypeCorrect, PTL DEF Spec

-----------------------------------------------------------------------------
(* The tables implement the abstract lease *)

\* Stored expiries are whole milliseconds, so formatting one changes nothing.
Aligned(t) == t % TicksPerMs = 0

\* A formatted time is a whole millisecond.
LEMMA TimestampAligned ==
    ASSUME NEW t \in Nat
    PROVE  Aligned(timestamp(t))
<1>1. PICK m \in Nat : m = TicksPerMs /\ m > 0
  BY TimeAssumption
<1>2. t % m \in 0 .. (m - 1) /\ t = m * (t \div m) + (t % m)
  BY <1>1
<1>3. t - (t % m) = m * (t \div m) /\ t \div m \in Nat
  BY <1>1, <1>2
<1>4. (m * (t \div m)) % m = 0
  BY <1>1, <1>3
<1> QED
  BY <1>1, <1>3, <1>4 DEF Aligned, timestamp

\* Formatting a later time cannot step back over a whole millisecond.
LEMMA TimestampMonotone ==
    ASSUME NEW a \in Nat, NEW t \in Nat, Aligned(a), a <= t
    PROVE  a <= timestamp(t)
<1>1. PICK m \in Nat : m = TicksPerMs /\ m > 0
  BY TimeAssumption
<1> DEFINE qa == a \div m
           qt == t \div m
<1>2. qa \in Nat /\ qt \in Nat /\ a = m * qa /\ t = m * qt + (t % m)
      /\ t % m \in 0 .. (m - 1)
  BY <1>1 DEF Aligned
<1>3. qa <= qt
  <2> SUFFICES ASSUME qa >= qt + 1 PROVE FALSE
    BY <1>2
  <2>1. m * qa >= m * (qt + 1)
    BY <1>1, <1>2
  <2> QED
    BY <1>1, <1>2, <2>1
<1>4. m * qa <= m * qt
  BY <1>1, <1>2, <1>3
<1> QED
  BY <1>1, <1>2, <1>4 DEF timestamp

ExpiriesAligned == \A k \in Keys : Claimed(k) => Aligned(EffectiveExpiry(k))

\* A claim or a heartbeat leaves exactly the expiry it signed in force.
LEMMA ClaimExpiry ==
    ASSUME TypeOK, NEW r \in ClaimRequests(Purposes), ClaimActivity(r), beats[r.key] = <<>>
    PROVE  LET e == timestamp(Lesser(timestamp(now) + r.duration, r.action.deadline)) IN
           /\ EffectiveExpiry(r.key)' = e
           /\ e \in Nat /\ Aligned(e)
<1> DEFINE e == timestamp(Lesser(timestamp(now) + r.duration, r.action.deadline))
<1>1. r.key \in Keys /\ r.duration \in Nat /\ r.action.deadline \in Nat
  BY TimeAssumption, ActionAssumption DEF ClaimRequests
<1>2. timestamp(now) \in Nat
  BY TimestampType DEF TypeOK
<1>3. Lesser(timestamp(now) + r.duration, r.action.deadline) \in Nat
  BY <1>1, <1>2 DEF Lesser
<1>4. e \in Nat /\ Aligned(e)
  BY <1>3, TimestampType, TimestampAligned
<1>5. beats'[r.key] = <<>> /\ Len(beats'[r.key]) = 0
  BY DEF ClaimActivity
<1>6. claims'[r.key].leaseExpiresAt = e
  BY <1>1 DEF ClaimActivity, TypeOK
<1> HIDE DEF e
<1> QED
  BY <1>4, <1>5, <1>6 DEF EffectiveExpiry, PriorExpiry, e

\* A heartbeat leaves the expiry it signed in force.
LEMMA HeartbeatExpiry ==
    ASSUME TypeOK, NEW k \in Keys, NEW activity, NEW lease, NEW id,
           HeartbeatActivity(k, activity, lease, id)
    PROVE  EffectiveExpiry(k)' = timestamp(NextExpiry(k))
<1> DEFINE b == [id |-> id, priorLeaseExpiresAt |-> EffectiveExpiry(k),
                 leaseExpiresAt |-> timestamp(NextExpiry(k)),
                 heartbeatAt |-> timestamp(now)]
<1>1. beats'[k] = Append(beats[k], b) /\ beats[k] \in Seq(StoredHeartbeat)
  BY DEF HeartbeatActivity, TypeOK
<1>2. Len(beats'[k]) = Len(beats[k]) + 1 /\ Len(beats[k]) \in Nat
      /\ beats'[k][Len(beats[k]) + 1] = b
  BY <1>1
<1>3. b.leaseExpiresAt = timestamp(NextExpiry(k))
  OBVIOUS
<1> HIDE DEF b
<1>4. EffectiveExpiry(k)' = beats'[k][Len(beats[k]) + 1].leaseExpiresAt
  BY <1>2 DEF EffectiveExpiry, PriorExpiry
<1> QED
  BY <1>2, <1>3, <1>4

\* An unclaimed key has no heartbeats, and every expiry is a whole millisecond.
ExpiryInv ==
    /\ TypeOK
    /\ ExpiriesAligned
    /\ \A k \in Keys : ~Claimed(k) => beats[k] = <<>>
    /\ \A k \in Keys : Claimed(k) /\ claims[k].state = "recorded"
                        => claims[k].outcome \in Outcomes

\* Every operation of the ledger keeps ExpiryInv.
LEMMA ExpiryInvStep == ExpiryInv /\ TypeOK' /\ [Next]_vars => ExpiryInv'
<1> SUFFICES ASSUME ExpiryInv, TypeOK', [Next]_vars PROVE ExpiryInv'
  OBVIOUS
<1>t. TypeOK
  BY DEF ExpiryInv
<1>1. CASE UNCHANGED <<claims, beats>>
  BY <1>1 DEF ExpiryInv, ExpiriesAligned, Claimed, EffectiveExpiry, PriorExpiry, Aligned
<1>2. ASSUME NEW r \in ClaimRequests(Purposes), ClaimActivity(r) PROVE ExpiryInv'
  <2>1. ~Claimed(r.key) /\ r.key \in Keys
    BY <1>2 DEF ClaimActivity, ClaimDisposition, ClaimRequests
  <2>2. beats[r.key] = <<>>
    BY <2>1 DEF ExpiryInv
  <2>3. Aligned(EffectiveExpiry(r.key)')
    BY <1>2, <1>t, <2>2, ClaimExpiry
  <2>4. ASSUME NEW q \in Keys, q # r.key
        PROVE  claims'[q] = claims[q] /\ beats'[q] = beats[q]
               /\ EffectiveExpiry(q)' = EffectiveExpiry(q)
    <3>1. claims'[q] = claims[q] /\ beats'[q] = beats[q]
      BY <1>2, <1>t, <2>1, <2>4 DEF ClaimActivity, TypeOK
    <3> QED
      BY <3>1 DEF EffectiveExpiry, PriorExpiry
  <2>5. claims'[r.key].state = "granted"
    BY <1>2, <1>t, <2>1 DEF ClaimActivity, TypeOK
  <2> QED
    BY <2>1, <2>3, <2>4, <2>5 DEF ExpiryInv, ExpiriesAligned, Claimed, Aligned, NoClaim
<1>3. ASSUME NEW k \in Keys, NEW activity \in Activities, NEW lease \in Leases,
             NEW id \in HeartbeatIds, HeartbeatActivity(k, activity, lease, id)
      PROVE  ExpiryInv'
  <2>1. Claimed(k)
    BY <1>3 DEF HeartbeatActivity, HeartbeatDisposition
  <2>2. Aligned(EffectiveExpiry(k)')
    BY <1>3, <1>t, <2>1, HeartbeatExpiry, NextExpiryType, TimestampAligned
  <2>3. ASSUME NEW q \in Keys, q # k
        PROVE  beats'[q] = beats[q] /\ EffectiveExpiry(q)' = EffectiveExpiry(q)
    <3>1. claims'[q] = claims[q] /\ beats'[q] = beats[q]
      BY <1>3, <1>t, <2>3 DEF HeartbeatActivity, TypeOK
    <3> QED
      BY <3>1 DEF EffectiveExpiry, PriorExpiry
  <2>4. claims' = claims
    BY <1>3 DEF HeartbeatActivity
  <2> QED
    BY <2>1, <2>2, <2>3, <2>4 DEF ExpiryInv, ExpiriesAligned, Claimed, Aligned
<1>4. ASSUME NEW k \in Keys, NEW activity \in Activities, NEW lease \in Leases,
             NEW outcome \in Outcomes, NEW evidence \in Evidence,
             RecordActivityResult(k, activity, lease, outcome, evidence)
      PROVE  ExpiryInv'
  <2>1. Claimed(k) /\ beats' = beats
    BY <1>4 DEF RecordActivityResult, ResultDisposition
  <2>2. claims[k] \in StoredClaim
    BY <1>t, <2>1, RowType
  <2>3. claims'[k] = [claims[k] EXCEPT !.state = "recorded",
                          !.outcome = outcome, !.evidence = evidence]
    BY <1>4, <1>t DEF RecordActivityResult, TypeOK
  <2>4. claims'[k].leaseExpiresAt = claims[k].leaseExpiresAt
        /\ claims'[k].outcome = outcome /\ claims'[k].state = "recorded"
    BY <2>2, <2>3 DEF StoredClaim
  <2>5. \A q \in Keys : q # k => claims'[q] = claims[q]
    BY <1>4, <1>t DEF RecordActivityResult, TypeOK
  <2>6. \A q \in Keys : EffectiveExpiry(q)' = EffectiveExpiry(q)
    BY <2>1, <2>4, <2>5 DEF EffectiveExpiry, PriorExpiry
  <2> QED
    BY <2>1, <2>4, <2>5, <2>6 DEF ExpiryInv, ExpiriesAligned, Claimed, Aligned, NoClaim
<1> QED
  BY <1>1, <1>2, <1>3, <1>4 DEF Next, Tick, vars

\* The ledger's lease table implements EffectLease: no interleaving of claims,
\* heartbeats, results and ticks reserves a key twice, shortens a lease,
\* extends a dead one, or closes one late with a success or a failure.
THEOREM Refinement == Spec => ImplementsEffectLease
<1> DEFINE L == [k \in Keys |-> LeaseOf(k)]
<1>1. Init => Abstract!Init
  BY DEF Init, Abstract!Init, LeaseOf, Abstract!Free
<1>2. Init => ExpiryInv
  <2>1. Init => TypeOK
    BY DEF Init, TypeOK
  <2> QED
    BY <2>1 DEF Init, ExpiryInv, ExpiriesAligned, Claimed
<1>3. ExpiryInv /\ [Next]_vars => [Abstract!Next]_<<now, L>>
  <2> SUFFICES ASSUME ExpiryInv, [Next]_vars
               PROVE  [Abstract!Next]_<<now, L>>
    OBVIOUS
  <2>t. TypeOK
    BY DEF ExpiryInv
  <2>1. CASE Tick
    <3>1. L' = L /\ now' > now
      BY <2>1, <2>t DEF Tick, TypeOK, LeaseOf, EffectiveExpiry, PriorExpiry
    <3> QED
      BY <3>1 DEF Abstract!Next, Abstract!Advance
  <2>2. ASSUME NEW r \in ClaimRequests(Purposes), ClaimActivity(r) PROVE Abstract!Next
    <3>1. claims[r.key] = NoClaim /\ r.key \in Keys
      BY <2>2 DEF ClaimActivity, ClaimDisposition, ClaimRequests, Claimed
    <3>2. beats[r.key] = <<>>
      BY <3>1 DEF ExpiryInv, Claimed
    <3>3. EffectiveExpiry(r.key)' \in Nat
      BY <2>2, <2>t, <3>2, ClaimExpiry
    <3>4. claims'[r.key].state = "granted"
      BY <2>2, <2>t, <3>1 DEF ClaimActivity, TypeOK
    <3>5. L'[r.key] \in [state : {"held"}, expires : Nat]
      BY <3>1, <3>3, <3>4 DEF LeaseOf, NoClaim
    <3>6. ASSUME NEW q \in Keys \ {r.key} PROVE L'[q] = L[q]
      BY SMTT(20), <2>2, <2>t, <3>1, <3>6
         DEF ClaimActivity, TypeOK, LeaseOf, EffectiveExpiry, PriorExpiry
    <3>7. L[r.key] = Abstract!Free /\ now' = now
      BY <2>2, <3>1 DEF LeaseOf, Abstract!Free, ClaimActivity
    <3> QED
      BY SMTT(20), <3>1, <3>5, <3>6, <3>7
         DEF Abstract!Next, Abstract!Reserve, Abstract!Held, Abstract!Only
  <2>3. ASSUME NEW k \in Keys, NEW activity \in Activities, NEW lease \in Leases,
               NEW id \in HeartbeatIds, HeartbeatActivity(k, activity, lease, id)
        PROVE  Abstract!Next
    <3>1. Claimed(k) /\ ~Terminal(k) /\ ~LeaseOver(k, now) /\ HeartbeatAdvances(k)
          /\ claims' = claims /\ now' = now
      BY <2>3 DEF HeartbeatActivity, HeartbeatDisposition
    <3>2. EffectiveExpiry(k) \in Nat /\ NextExpiry(k) \in Nat /\ now \in Nat
      BY <2>t, <3>1, ExpiryType, NextExpiryType DEF TypeOK
    <3>3. now < EffectiveExpiry(k) /\ EffectiveExpiry(k) <= NextExpiry(k)
      BY <3>1, <3>2 DEF LeaseOver, HeartbeatAdvances
    <3>4. EffectiveExpiry(k)' = timestamp(NextExpiry(k))
      BY SMTT(20), <2>3, <2>t, HeartbeatExpiry
    <3>5. EffectiveExpiry(k)' \in Nat /\ EffectiveExpiry(k) <= EffectiveExpiry(k)'
      BY <3>1, <3>2, <3>3, <3>4, TimestampType, TimestampMonotone
         DEF ExpiryInv, ExpiriesAligned
    <3>6. claims[k] \in StoredClaim
      BY <2>t, <3>1, RowType
    <3>7. /\ L[k] = [state |-> "held", expires |-> EffectiveExpiry(k)]
          /\ L'[k] = [state |-> "held", expires |-> EffectiveExpiry(k)']
      BY <3>1, <3>6 DEF LeaseOf, Claimed, Terminal
    <3>8. ASSUME NEW q \in Keys \ {k} PROVE L'[q] = L[q]
      BY <2>3, <2>t, <3>8
         DEF HeartbeatActivity, TypeOK, LeaseOf, EffectiveExpiry, PriorExpiry
    <3>9. L[k] \in Abstract!Held /\ L'[k] \in Abstract!Held
          /\ now < L[k].expires /\ L'[k].expires >= L[k].expires
      BY <3>2, <3>3, <3>5, <3>7 DEF Abstract!Held
    <3> QED
      BY <3>1, <3>8, <3>9 DEF Abstract!Next, Abstract!Extend, Abstract!Only, Abstract!Held
  <2>4. ASSUME NEW k \in Keys, NEW activity \in Activities, NEW lease \in Leases,
               NEW outcome \in Outcomes, NEW evidence \in Evidence,
               RecordActivityResult(k, activity, lease, outcome, evidence)
        PROVE  Abstract!Next
    <3>1. Claimed(k) /\ ~Terminal(k) /\ now' = now /\ beats' = beats
          /\ (outcome # "unknown" => ~LeaseOver(k, now))
      BY <2>4 DEF RecordActivityResult, ResultDisposition
    <3>2. EffectiveExpiry(k) \in Nat /\ now \in Nat /\ claims[k] \in StoredClaim
      BY <2>t, <3>1, ExpiryType, RowType DEF TypeOK
    <3>3. claims'[k] = [claims[k] EXCEPT !.state = "recorded",
                            !.outcome = outcome, !.evidence = evidence]
      BY <2>4, <2>t DEF RecordActivityResult, TypeOK
    <3>4. claims'[k].state = "recorded" /\ claims'[k].outcome = outcome
      BY <3>2, <3>3 DEF StoredClaim
    <3>5. /\ L[k] = [state |-> "held", expires |-> EffectiveExpiry(k)]
          /\ L'[k] = [state |-> "closed", outcome |-> outcome]
      BY <3>1, <3>2, <3>4 DEF LeaseOf, Claimed, Terminal, NoClaim
    <3>6. ASSUME NEW q \in Keys \ {k} PROVE L'[q] = L[q]
      BY <2>4, <2>t, <3>6
         DEF RecordActivityResult, TypeOK, LeaseOf, EffectiveExpiry, PriorExpiry
    <3>7. outcome # "unknown" => now < EffectiveExpiry(k)
      BY <3>1, <3>2 DEF LeaseOver
    <3>8. L[k] \in Abstract!Held /\ L'[k] \in Abstract!Closed
          /\ (L'[k].outcome # "unknown" => now < L[k].expires)
      BY <3>2, <3>5, <3>7 DEF Abstract!Held, Abstract!Closed
    <3> QED
      BY <3>1, <3>6, <3>8 DEF Abstract!Next, Abstract!Close, Abstract!Only, Abstract!Held, Abstract!Closed
  <2>5. CASE UNCHANGED vars
    BY <2>5 DEF vars, LeaseOf, EffectiveExpiry, PriorExpiry
  <2> QED
    BY <2>1, <2>2, <2>3, <2>4, <2>5 DEF Next
<1> QED
  BY <1>1, <1>2, <1>3, ExpiryInvStep, TypeCorrect, PTL
     DEF Spec, ImplementsEffectLease, Abstract!Spec, Abstract!leaseVars

-----------------------------------------------------------------------------
(* Whole milliseconds *)

\* A sum of whole milliseconds is one, and formatting it changes nothing.
LEMMA AlignedSum ==
    ASSUME NEW a \in Nat, NEW b \in Nat, Aligned(a), Aligned(b)
    PROVE  Aligned(a + b)
  <1>1. PICK m \in Nat : m = TicksPerMs /\ m > 0
    BY TimeAssumption
  <1>2. a \div m \in Nat /\ b \div m \in Nat /\ a = m * (a \div m) /\ b = m * (b \div m)
    BY <1>1 DEF Aligned
  <1>3. a + b = m * ((a \div m) + (b \div m))
    BY <1>1, <1>2
  <1>4. (m * ((a \div m) + (b \div m))) % m = 0
    BY <1>1, <1>2
  <1> QED BY <1>1, <1>3, <1>4 DEF Aligned

\* Formatting a whole millisecond changes nothing.
LEMMA TimestampWhole ==
    ASSUME NEW t \in Nat, Aligned(t)
    PROVE  timestamp(t) = t
  BY DEF timestamp, Aligned

\* The lesser of two whole milliseconds is one.
LEMMA LesserWhole ==
    ASSUME NEW a \in Nat, NEW b \in Nat, Aligned(a), Aligned(b)
    PROVE  Lesser(a, b) \in Nat /\ Aligned(Lesser(a, b))
  BY DEF Lesser

-----------------------------------------------------------------------------
(* Replay's judgement of one event *)

LeaseEvents(t, i) == {j \in 1 .. (i - 1) : t[j].key = t[i].key /\ ~IsResult(t[j])}

\* What replay demands of event i of tape t under action request a, with the
\* claim c and the last lease event p before it named.
HeartbeatRule(t, i, a, p) ==
    /\ t[i].stamp < t[p].leaseExpiresAt
    /\ t[i].leaseExpiresAt > t[p].leaseExpiresAt
    /\ t[i].leaseExpiresAt <= a.deadline
    /\ \A j \in LeaseEvents(t, i) : IsClaim(t[j]) \/ t[j].stamp < t[i].stamp
ResultRule(t, i, p) == t[i].stamp < t[p].leaseExpiresAt \/ t[i].outcome = "unknown"

LaterRule(t, i, a) ==
    \E c, p \in LeaseEvents(t, i) :
        /\ IsClaim(t[c]) /\ \A h \in LeaseEvents(t, i) : h <= p
        /\ \A j \in 1 .. (i - 1) : t[j].key = t[i].key => ~IsResult(t[j])
        /\ t[i].stamp = t[i].occurredAt /\ t[i].stamp >= t[c].stamp
        /\ IF IsResult(t[i]) THEN ResultRule(t, i, p) ELSE HeartbeatRule(t, i, a, p)

ClaimRule(t, i, a) ==
    /\ t[i].stamp = t[i].occurredAt
    /\ t[i].stamp >= a.requestedAt /\ t[i].stamp >= a.issuedAt
    /\ t[i].leaseExpiresAt > t[i].stamp
    /\ t[i].leaseExpiresAt <= a.deadline

Rule(t, i, a) == IF IsClaim(t[i]) THEN ClaimRule(t, i, a) ELSE LaterRule(t, i, a)

WholeMs(t, i, a) ==
    /\ Aligned(a.deadline)
    /\ \A j \in 1 .. i : t[j].key = t[i].key => Aligned(t[j].occurredAt)

\* The judgement of an event depends on the tape up to it alone.
LEMMA RuleKept ==
    ASSUME NEW t, NEW u, NEW i \in Nat, i > 0, \A j \in 1 .. i : u[j] = t[j], NEW a
    PROVE  /\ Rule(t, i, a) => Rule(u, i, a)
           /\ WholeMs(u, i, a) => WholeMs(t, i, a)
  <1>1. i \in 1 .. i /\ \A j \in 1 .. (i - 1) : j \in 1 .. i
    OBVIOUS
  <1>2. u[i] = t[i] /\ \A j \in 1 .. (i - 1) : u[j] = t[j]
    BY Zenon, <1>1
  <1>3. LeaseEvents(u, i) = LeaseEvents(t, i)
    BY Zenon, <1>2 DEF LeaseEvents
  <1>4. \A j \in LeaseEvents(t, i) : j \in 1 .. (i - 1) /\ u[j] = t[j]
    BY Zenon, <1>2 DEF LeaseEvents
  <1>5. WholeMs(u, i, a) => WholeMs(t, i, a)
    BY Zenon, <1>1, <1>2 DEF WholeMs
  <1>6. ClaimRule(t, i, a) => ClaimRule(u, i, a)
    BY Zenon, <1>2 DEF ClaimRule
  <1>7. \A p \in LeaseEvents(t, i) : HeartbeatRule(t, i, a, p) => HeartbeatRule(u, i, a, p)
    BY Zenon, <1>2, <1>3, <1>4 DEF HeartbeatRule
  <1>8. \A p \in LeaseEvents(t, i) : ResultRule(t, i, p) => ResultRule(u, i, p)
    BY Zenon, <1>2, <1>3, <1>4 DEF ResultRule
  <1>9. LaterRule(t, i, a) => LaterRule(u, i, a)
    BY Zenon, <1>2, <1>3, <1>4, <1>7, <1>8 DEF LaterRule
  <1> QED BY Zenon, <1>2, <1>5, <1>6, <1>9 DEF Rule

\* The greatest lease event is the one ExpiryBefore chooses.
LEMMA GreatestChosen ==
    ASSUME NEW S \in SUBSET Nat, NEW p \in S, \A h \in S : h <= p
    PROVE  (CHOOSE j \in S : \A h \in S : h <= j) = p
  <1> DEFINE q == CHOOSE j \in S : \A h \in S : h <= j
  <1>1. q \in S /\ \A h \in S : h <= q
    BY Zenon
  <1> HIDE DEF q
  <1>2. q <= p /\ p <= q /\ p \in Nat /\ q \in Nat
    BY Zenon, <1>1
  <1>3. q = p
    BY <1>2
  <1> QED BY <1>3 DEF q

\* The CHOOSE-free rules are the ones replay applies.
LEMMA RuleIsReplays ==
    ASSUME OneLeasePerActivity, NEW i \in 1 .. Len(tape), Len(tape) \in Nat,
           Rule(tape, i, Action(i))
    PROVE  ReplayAccepts(i)
  <1>1. CASE IsClaim(tape[i])
    BY <1>1 DEF Rule, ClaimRule, ReplayAccepts, ReplayAcceptsClaim
  <1>2. CASE ~IsClaim(tape[i])
    <2>1. PICK c \in LeaseEvents(tape, i), p \in LeaseEvents(tape, i) :
              /\ IsClaim(tape[c]) /\ \A h \in LeaseEvents(tape, i) : h <= p
              /\ \A j \in 1 .. (i - 1) : tape[j].key = tape[i].key => ~IsResult(tape[j])
              /\ tape[i].stamp = tape[i].occurredAt /\ tape[i].stamp >= tape[c].stamp
              /\ IF IsResult(tape[i]) THEN ResultRule(tape, i, p)
                 ELSE HeartbeatRule(tape, i, Action(i), p)
      BY Zenon, <1>2 DEF Rule, LaterRule
    <2>2. LeaseEventsBefore(i) = LeaseEvents(tape, i)
      BY Zenon DEF LeaseEvents, LeaseEventsBefore
    <2>3. LeaseEventsBefore(i) \in SUBSET Nat
      BY DEF LeaseEventsBefore
    <2>4. ExpiryBefore(i) = tape[p].leaseExpiresAt
      BY Zenon, <2>1, <2>2, <2>3, GreatestChosen DEF ExpiryBefore
    <2>5. ClaimBefore(i) = c
      <3>1. ClaimBefore(i) \in LeaseEventsBefore(i) /\ IsClaim(tape[ClaimBefore(i)])
        BY Zenon, <2>1, <2>2 DEF ClaimBefore
      <3>2. \A j \in LeaseEventsBefore(i) : j \in 1 .. Len(tape) /\ tape[j].key = tape[i].key
        BY DEF LeaseEventsBefore
      <3> QED BY Zenon, <2>1, <2>2, <3>1, <3>2 DEF OneLeasePerActivity
    <2> QED BY Zenon, <1>2, <2>1, <2>2, <2>4, <2>5 DEF ReplayAccepts, ReplayAcceptsResult,
               ReplayAcceptsHeartbeat, ResultRule, HeartbeatRule
  <1> QED BY <1>1, <1>2
-----------------------------------------------------------------------------
(* What the lease table keeps true of its tape *)

\* No event is stamped after it occurred, or occurs after now.
Timed ==
    \A i \in 1 .. Len(tape) : tape[i].stamp <= tape[i].occurredAt /\ tape[i].occurredAt <= now

IsLast(t, k, p) ==
    /\ p \in 1 .. Len(t) /\ t[p].key = k /\ ~IsResult(t[p])
    /\ \A j \in 1 .. Len(t) : t[j].key = k /\ ~IsResult(t[j]) => j <= p

\* The expiry in force is the one the last lease event of the key signed.
LastLease ==
    \A k \in Keys : Claimed(k) =>
        \E p \in 1 .. Len(tape) : IsLast(tape, k, p) /\ tape[p].leaseExpiresAt = EffectiveExpiry(k)

\* Every heartbeat got what it asked for: a second one in the same millisecond
\* has nothing left to extend.
Reach(c, t) == timestamp(Lesser(t + c.duration, c.action.deadline))
Reaches ==
    \A k \in Keys, i \in 1 .. Len(tape) :
        tape[i].key = k /\ ~IsClaim(tape[i]) /\ ~IsResult(tape[i]) =>
            Reach(claims[k], tape[i].occurredAt) <= EffectiveExpiry(k)

Judged ==
    \A i \in 1 .. Len(tape) : WholeMs(tape, i, Action(i)) => Rule(tape, i, Action(i))

TapeInv ==
    LeaseInv /\ ExpiryInv /\ ProjectionIsTape /\ Timed /\ LastLease /\ Reaches /\ Judged

\* What a row was claimed for never changes.
LEMMA ClaimKept ==
    ASSUME TypeOK, [Next]_vars, NEW k \in Keys, Claimed(k)
    PROVE  /\ claims'[k].action = claims[k].action /\ claims'[k].lease = claims[k].lease
           /\ claims'[k].duration = claims[k].duration
  <1>1. CASE claims'[k] = claims[k]
    BY <1>1
  <1>2. ASSUME NEW r \in ClaimRequests(Purposes), ClaimActivity(r)
        PROVE  claims'[k] = claims[k]
    <2>1. ~Claimed(r.key)
      BY <1>2 DEF ClaimActivity, ClaimDisposition, Terminal
    <2> QED BY <1>2, <2>1 DEF ClaimActivity, TypeOK
  <1>3. ASSUME NEW q \in Keys, NEW activity, NEW lease, NEW outcome, NEW evidence,
               RecordActivityResult(q, activity, lease, outcome, evidence)
        PROVE  /\ claims'[k].action = claims[k].action /\ claims'[k].lease = claims[k].lease
               /\ claims'[k].duration = claims[k].duration
    <2>1. CASE q # k
      BY <1>3, <2>1 DEF RecordActivityResult, TypeOK
    <2>2. CASE q = k
      <3>1. claims'[k] = [claims[k] EXCEPT !.state = "recorded",
                              !.outcome = outcome, !.evidence = evidence]
        BY <1>3, <2>2 DEF RecordActivityResult, TypeOK
      <3> QED BY <3>1, RowType DEF StoredClaim
    <2> QED BY <2>1, <2>2
  <1>4. CASE UNCHANGED claims
    BY <1>1, <1>4
  <1> QED BY Zenon, <1>1, <1>2, <1>3, <1>4 DEF Next, Tick, vars, HeartbeatActivity

\* The events already signed keep their judgement.
LEMMA OldJudged ==
    ASSUME TapeInv, [Next]_vars, NEW e, tape' = Append(tape, e), NEW i \in 1 .. Len(tape),
           WholeMs(tape', i, Action(i)')
    PROVE  Rule(tape', i, Action(i)')
  <1>1. tape \in Seq(LeaseEvent \cup ResultEvent) /\ TypeOK /\ RowPerEvent
    BY DEF TapeInv, LeaseInv, TypeOK
  <1>2. i \in Nat /\ i > 0 /\ \A j \in 1 .. i : tape'[j] = tape[j]
    BY <1>1
  <1>3. tape'[i] = tape[i] /\ tape[i].key \in Keys /\ Claimed(tape[i].key)
    BY <1>1 DEF LeaseEvent, ResultEvent, RowPerEvent
  <1>4. Action(i)' = Action(i)
    BY <1>1, <1>3, ClaimKept DEF Action
  <1>5. WholeMs(tape, i, Action(i))
    BY Zenon, <1>2, <1>4, RuleKept
  <1>6. Rule(tape, i, Action(i))
    BY <1>5 DEF TapeInv, Judged
  <1> QED BY Zenon, <1>2, <1>4, <1>6, RuleKept

\* A heartbeat or a result is appended behind its claim and behind the lease
\* event whose expiry is in force, and before any result.
LEMMA LaterEvent ==
    ASSUME TapeInv, NEW k \in Keys, Claimed(k), ~Terminal(k),
           NEW e, e.key = k, tape' = Append(tape, e)
    PROVE  \E c, p \in LeaseEvents(tape', Len(tape) + 1) :
              /\ IsClaim(tape'[c]) /\ tape'[c].stamp <= now /\ tape'[c].stamp \in Nat
              /\ \A h \in LeaseEvents(tape', Len(tape) + 1) : h <= p
              /\ tape'[p].leaseExpiresAt = EffectiveExpiry(k)
              /\ \A j \in 1 .. Len(tape) : tape'[j].key = k => ~IsResult(tape'[j])
  <1> DEFINE n == Len(tape)
  <1>0. TypeOK /\ RowPerEvent /\ ProjectionIsTape /\ Timed /\ LastLease
    BY DEF TapeInv, LeaseInv
  <1>1. n \in Nat /\ Len(tape') = n + 1 /\ tape'[n + 1] = e
        /\ \A j \in 1 .. n : tape'[j] = tape[j] /\ tape[j] \in LeaseEvent \cup ResultEvent
    BY <1>0 DEF TypeOK
  <1>2. (n + 1) - 1 = n
    BY <1>1
  <1>3. \A j : j \in LeaseEvents(tape', n + 1) <=>
                  j \in 1 .. n /\ tape[j].key = k /\ ~IsResult(tape[j])
    BY Zenon, <1>1, <1>2 DEF LeaseEvents
  <1>4. PICK p : IsLast(tape, k, p) /\ tape[p].leaseExpiresAt = EffectiveExpiry(k)
    BY Zenon, <1>0 DEF LastLease
  <1>5. p \in LeaseEvents(tape', n + 1) /\ \A h \in LeaseEvents(tape', n + 1) : h <= p
    BY Zenon, <1>3, <1>4 DEF IsLast
  <1>6. PICK c \in 1 .. n : IsClaim(tape[c]) /\ tape[c].key = k
    BY Zenon, <1>0 DEF ProjectionIsTape, Claimed
  <1>7. c \in LeaseEvents(tape', n + 1)
    BY <1>3, <1>6 DEF IsClaim, IsResult
  <1>8. tape[c].stamp \in Nat /\ tape[c].stamp <= now
    <2>1. tape[c].stamp \in Nat /\ tape[c].occurredAt \in Nat /\ now \in Nat
      BY <1>0, <1>1 DEF LeaseEvent, ResultEvent, TypeOK
    <2>2. tape[c].stamp <= tape[c].occurredAt /\ tape[c].occurredAt <= now
      BY Zenon, <1>0 DEF Timed
    <2> QED BY <2>1, <2>2
  <1>9. \A j \in 1 .. n : tape'[j].key = k => ~IsResult(tape'[j])
    BY Zenon, <1>0, <1>1 DEF RowPerEvent
  <1>10. p \in 1 .. n
    BY Zenon, <1>4 DEF IsLast
  <1> QED BY Zenon, <1>1, <1>4, <1>5, <1>6, <1>7, <1>8, <1>9, <1>10
-----------------------------------------------------------------------------
(* The judgement of a new event *)

\* A granted claim: its window and its whole-millisecond expiry are replay's.
LEMMA ClaimJudged ==
    ASSUME TapeInv, NEW r \in ClaimRequests(Purposes), ClaimActivity(r),
           WholeMs(tape', Len(tape) + 1, r.action)
    PROVE  Rule(tape', Len(tape) + 1, r.action)
  <1> DEFINE at == timestamp(now)
             end == Lesser(at + r.duration, r.action.deadline)
             e == [kind |-> "activity_claimed_v1", key |-> r.key, activity |-> r.activity,
                   lease |-> Len(tape) + 1, occurredAt |-> at, stamp |-> at,
                   leaseExpiresAt |-> timestamp(end)]
  <1>0. TypeOK
    BY DEF TapeInv, LeaseInv
  <1>1. tape' = Append(tape, e) /\ Len(tape) \in Nat
    BY <1>0 DEF ClaimActivity, TypeOK
  <1>2. tape'[Len(tape) + 1] = e
    BY <1>0, <1>1 DEF TypeOK
  <1>3. /\ r.duration \in Nat \ {0} /\ Aligned(r.duration)
        /\ r.action.deadline \in Nat /\ r.action.issuedAt \in Nat /\ r.action.requestedAt \in Nat
    BY TimeAssumption, ActionAssumption DEF ClaimRequests, Aligned
  <1>4. at \in Nat /\ Aligned(at)
    BY <1>0, TimestampType, TimestampAligned DEF TypeOK
  <1>5. Aligned(r.action.deadline)
    BY DEF WholeMs
  <1>6. end \in Nat /\ Aligned(end)
    <2>1. PICK sum \in Nat : sum = at + r.duration
      BY <1>3, <1>4
    <2>2. Aligned(sum)
      BY Zenon, <1>3, <1>4, <2>1, AlignedSum
    <2>3. Lesser(sum, r.action.deadline) \in Nat /\ Aligned(Lesser(sum, r.action.deadline))
      BY Zenon, <1>3, <1>5, <2>2, LesserWhole
    <2> QED BY Zenon, <2>1, <2>3
  <1>7. timestamp(end) = end
    BY <1>6, TimestampWhole
  <1>8. r.action.requestedAt <= at /\ r.action.issuedAt <= at /\ at < r.action.deadline
    <2>1. ClaimDisposition(r) = "granted"
      BY Zenon DEF ClaimActivity
    <2>2. ClaimEvidenceValid(r.action, r.key, r.activity, at)
      BY <2>1 DEF ClaimDisposition
    <2> QED BY Zenon, <2>2 DEF ClaimEvidenceValid, GovernedWindowOpen
  <1>9. end > at /\ end <= r.action.deadline
    BY <1>3, <1>4, <1>8 DEF Lesser
  <1>10. /\ e.kind = "activity_claimed_v1" /\ e.stamp = at /\ e.occurredAt = at
         /\ e.leaseExpiresAt = end
    BY <1>7
  <1> HIDE DEF at, end, e
  <1>11. IsClaim(e)
    BY <1>10 DEF IsClaim
  <1>12. ClaimRule(tape', Len(tape) + 1, r.action)
    BY <1>2, <1>3, <1>4, <1>6, <1>8, <1>9, <1>10 DEF ClaimRule
  <1> QED BY <1>2, <1>11, <1>12 DEF Rule

\* A recorded heartbeat: it extends the expiry in force, and no earlier
\* heartbeat has its millisecond.
LEMMA HeartbeatJudged ==
    ASSUME TapeInv, NEW k \in Keys, NEW activity, NEW lease, NEW id,
           HeartbeatActivity(k, activity, lease, id),
           WholeMs(tape', Len(tape) + 1, claims[k].action)
    PROVE  Rule(tape', Len(tape) + 1, claims[k].action)
  <1> DEFINE n == Len(tape)
             a == claims[k].action
             e == [kind |-> "activity_heartbeat_recorded_v1", key |-> k, activity |-> activity,
                   lease |-> lease, occurredAt |-> now, stamp |-> timestamp(now),
                   leaseExpiresAt |-> timestamp(NextExpiry(k))]
  <1>0. TypeOK /\ Timed /\ Reaches
    BY DEF TapeInv, LeaseInv
  <1>1. tape' = Append(tape, e) /\ n \in Nat
    BY <1>0 DEF HeartbeatActivity, TypeOK
  <1>2. tape'[n + 1] = e /\ n + 1 \in 1 .. (n + 1) /\ (n + 1) - 1 = n
        /\ \A j \in 1 .. n : tape'[j] = tape[j] /\ tape[j] \in LeaseEvent \cup ResultEvent
                             /\ j \in 1 .. (n + 1)
    BY <1>0, <1>1 DEF TypeOK
  <1>3. Claimed(k) /\ ~Terminal(k) /\ ~LeaseOver(k, now) /\ HeartbeatAdvances(k)
    BY DEF HeartbeatActivity, HeartbeatDisposition
  <1>4. /\ claims[k].duration \in Nat /\ Aligned(claims[k].duration) /\ a.deadline \in Nat
        /\ EffectiveExpiry(k) \in Nat /\ now \in Nat
    BY SMTT(20), <1>0, <1>3, RowType, ExpiryType, TimeAssumption, ActionAssumption
       DEF StoredClaim, Aligned, TypeOK
  <1>5. Aligned(a.deadline) /\ Aligned(now)
    <2>1. e.key = k /\ e.occurredAt = now
      OBVIOUS
    <2> HIDE DEF e
    <2> QED BY <1>2, <2>1 DEF WholeMs
  <1>6. /\ NextExpiry(k) \in Nat /\ Aligned(NextExpiry(k)) /\ NextExpiry(k) <= a.deadline
        /\ timestamp(NextExpiry(k)) = NextExpiry(k) /\ timestamp(now) = now
    <2>1. now + claims[k].duration \in Nat /\ Aligned(now + claims[k].duration)
      BY <1>4, <1>5, AlignedSum
    <2>2. NextExpiry(k) \in Nat /\ Aligned(NextExpiry(k))
      BY Zenon, <1>4, <1>5, <2>1, LesserWhole DEF NextExpiry
    <2>3. NextExpiry(k) <= a.deadline
      BY <1>4, <2>1 DEF NextExpiry, Lesser
    <2> QED BY <1>4, <1>5, <2>2, <2>3, TimestampWhole
  <1>7. now < EffectiveExpiry(k) /\ NextExpiry(k) > EffectiveExpiry(k)
    BY <1>3, <1>4 DEF LeaseOver, HeartbeatAdvances
  <1>8. /\ e.kind = "activity_heartbeat_recorded_v1" /\ e.key = k /\ e.stamp = now
        /\ e.occurredAt = now /\ e.leaseExpiresAt = NextExpiry(k)
    BY <1>6
  <1> HIDE DEF e
  <1>9. PICK c \in LeaseEvents(tape', n + 1), p \in LeaseEvents(tape', n + 1) :
              /\ IsClaim(tape'[c]) /\ tape'[c].stamp <= now /\ tape'[c].stamp \in Nat
              /\ \A h \in LeaseEvents(tape', n + 1) : h <= p
              /\ tape'[p].leaseExpiresAt = EffectiveExpiry(k)
              /\ \A j \in 1 .. n : tape'[j].key = k => ~IsResult(tape'[j])
    BY Zenon, <1>1, <1>3, <1>8, LaterEvent
  <1>10. ASSUME NEW j \in LeaseEvents(tape', n + 1), ~IsClaim(tape'[j])
         PROVE  tape'[j].stamp < now
    <2>1. j \in 1 .. n /\ tape'[j].key = tape'[n + 1].key /\ ~IsResult(tape'[j])
      BY Zenon, <1>2 DEF LeaseEvents
    <2>2. tape[j].key = k /\ ~IsResult(tape[j]) /\ ~IsClaim(tape[j]) /\ tape'[j] = tape[j]
      BY Zenon, <1>2, <1>8, <1>10, <2>1
    <2>3. Reach(claims[k], tape[j].occurredAt) <= EffectiveExpiry(k)
      BY Zenon, <1>0, <2>1, <2>2 DEF Reaches
    <2>4. tape[j].stamp \in Nat /\ tape[j].occurredAt \in Nat
      BY <1>2, <2>1 DEF LeaseEvent, ResultEvent
    <2>5. tape[j].stamp <= tape[j].occurredAt /\ tape[j].occurredAt <= now
      BY Zenon, <1>0, <2>1 DEF Timed
    <2>6. tape[j].occurredAt # now
      <3>1. SUFFICES ASSUME tape[j].occurredAt = now PROVE FALSE
        BY SMTT(20)
      <3>2. NextExpiry(k) <= EffectiveExpiry(k)
        BY <1>6, <2>3, <3>1 DEF Reach, NextExpiry
      <3> QED BY <1>4, <1>6, <1>7, <3>2
    <2> QED BY <1>4, <2>2, <2>4, <2>5, <2>6
  <1>11. ~IsClaim(e) /\ ~IsResult(e)
    BY <1>8 DEF IsClaim, IsResult
  <1>12. HeartbeatRule(tape', n + 1, a, p)
    BY Zenon, <1>2, <1>4, <1>6, <1>7, <1>8, <1>9, <1>10 DEF HeartbeatRule
  <1>13. e.stamp >= tape'[c].stamp
    BY Zenon, <1>4, <1>8, <1>9
  <1>14. LaterRule(tape', n + 1, a)
    BY Zenon, <1>2, <1>8, <1>9, <1>11, <1>12, <1>13 DEF LaterRule
  <1> QED BY Zenon, <1>2, <1>11, <1>14 DEF Rule

\* A recorded result: inside the lease, or unknown.
LEMMA ResultJudged ==
    ASSUME TapeInv, NEW k \in Keys, NEW activity, NEW lease, NEW outcome, NEW evidence,
           RecordActivityResult(k, activity, lease, outcome, evidence),
           WholeMs(tape', Len(tape) + 1, claims[k].action)
    PROVE  Rule(tape', Len(tape) + 1, claims[k].action)
  <1> DEFINE n == Len(tape)
             a == claims[k].action
             e == [kind |-> "activity_result_recorded_v1", key |-> k, activity |-> activity,
                   lease |-> lease, occurredAt |-> now, stamp |-> timestamp(now),
                   outcome |-> outcome]
  <1>0. TypeOK
    BY DEF TapeInv, LeaseInv
  <1>1. tape' = Append(tape, e) /\ n \in Nat
    BY <1>0 DEF RecordActivityResult, TypeOK
  <1>2. tape'[n + 1] = e /\ n + 1 \in 1 .. (n + 1) /\ (n + 1) - 1 = n
    BY <1>0, <1>1 DEF TypeOK
  <1>3. Claimed(k) /\ ~Terminal(k) /\ (LeaseOver(k, now) => outcome = "unknown")
    BY DEF RecordActivityResult, ResultDisposition
  <1>4. EffectiveExpiry(k) \in Nat /\ now \in Nat
    BY <1>0, <1>3, ExpiryType DEF TypeOK
  <1>5. timestamp(now) = now
    <2>1. e.key = k /\ e.occurredAt = now
      OBVIOUS
    <2> HIDE DEF e
    <2>2. Aligned(now)
      BY <1>2, <2>1 DEF WholeMs
    <2> QED BY <1>4, <2>2, TimestampWhole
  <1>6. /\ e.kind = "activity_result_recorded_v1" /\ e.key = k /\ e.stamp = now
        /\ e.occurredAt = now /\ e.outcome = outcome
    BY <1>5
  <1> HIDE DEF e
  <1>7. PICK c \in LeaseEvents(tape', n + 1), p \in LeaseEvents(tape', n + 1) :
              /\ IsClaim(tape'[c]) /\ tape'[c].stamp <= now /\ tape'[c].stamp \in Nat
              /\ \A h \in LeaseEvents(tape', n + 1) : h <= p
              /\ tape'[p].leaseExpiresAt = EffectiveExpiry(k)
              /\ \A j \in 1 .. n : tape'[j].key = k => ~IsResult(tape'[j])
    BY Zenon, <1>1, <1>3, <1>6, LaterEvent
  <1>8. ~IsClaim(e) /\ IsResult(e)
    BY <1>6 DEF IsClaim, IsResult
  <1>9. ResultRule(tape', n + 1, p)
    BY <1>2, <1>3, <1>4, <1>6, <1>7 DEF ResultRule, LeaseOver
  <1>10. e.stamp >= tape'[c].stamp
    BY <1>4, <1>6, <1>7
  <1>11. LaterRule(tape', n + 1, a)
    BY Zenon, <1>2, <1>6, <1>7, <1>8, <1>9, <1>10 DEF LaterRule
  <1> QED BY Zenon, <1>2, <1>8, <1>11 DEF Rule
-----------------------------------------------------------------------------
(* The step *)

\* The shape of an appending step.
LEMMA Appended ==
    ASSUME TypeOK, NEW e, tape' = Append(tape, e)
    PROVE  /\ Len(tape) \in Nat /\ Len(tape') = Len(tape) + 1 /\ tape'[Len(tape) + 1] = e
           /\ \A j \in 1 .. Len(tape) : tape'[j] = tape[j] /\ j \in 1 .. Len(tape')
                  /\ tape[j] \in LeaseEvent \cup ResultEvent
           /\ \A j \in 1 .. Len(tape') : j \in 1 .. Len(tape) \/ j = Len(tape) + 1
           /\ Len(tape) + 1 \in 1 .. Len(tape')
           /\ \A j \in 1 .. Len(tape') : j <= Len(tape) + 1
  BY DEF TypeOK

\* What an appending step signs and what it leaves in the rows.
Appends(e) ==
    /\ tape' = Append(tape, e) /\ now' = now /\ e.key \in Keys
    /\ e.stamp <= e.occurredAt /\ e.occurredAt <= now
    /\ claims'[e.key] # NoClaim /\ claims'[e.key].lease = e.lease
    /\ \A q \in Keys : q # e.key =>
           claims'[q] = claims[q] /\ EffectiveExpiry(q)' = EffectiveExpiry(q)
    /\ \A i : i = Len(tape) + 1 =>
           (WholeMs(tape', i, claims'[e.key].action) => Rule(tape', i, claims'[e.key].action))
Grants(e) ==
    /\ IsClaim(e) /\ ~Claimed(e.key) /\ e.lease = Len(tape) + 1
    /\ claims'[e.key].state = "granted"
    /\ EffectiveExpiry(e.key)' = e.leaseExpiresAt
Extends(e) ==
    /\ ~IsClaim(e) /\ ~IsResult(e) /\ Claimed(e.key) /\ ~Terminal(e.key)
    /\ claims'[e.key] = claims[e.key]
    /\ EffectiveExpiry(e.key)' = e.leaseExpiresAt
    /\ EffectiveExpiry(e.key) <= e.leaseExpiresAt
    /\ e.leaseExpiresAt = Reach(claims[e.key], e.occurredAt)
Settles(e) ==
    /\ IsResult(e) /\ Claimed(e.key) /\ ~Terminal(e.key)
    /\ e.lease = claims[e.key].lease
    /\ claims'[e.key].state = "recorded" /\ claims'[e.key].outcome = e.outcome
    /\ EffectiveExpiry(e.key)' = EffectiveExpiry(e.key)

\* The new event of a step, and the row it leaves.
LEMMA NewEvent ==
    ASSUME TapeInv, [Next]_vars
    PROVE  \/ UNCHANGED <<tape, claims, beats>> /\ now' >= now
           \/ \E e : Appends(e) /\ (Grants(e) \/ Extends(e) \/ Settles(e))
  <1>0. TypeOK /\ ExpiryInv /\ ProjectionIsTape
    BY DEF TapeInv, LeaseInv
  <1>1. CASE Tick
    <2>1. now' = now + 1 /\ now \in Nat /\ UNCHANGED <<tape, claims, beats>>
      BY <1>0, <1>1 DEF Tick, TypeOK
    <2>2. now' >= now
      BY <2>1
    <2> QED BY Zenon, <2>1, <2>2
  <1>2. ASSUME NEW r \in ClaimRequests(Purposes), ClaimActivity(r)
        PROVE  \E e : Appends(e) /\ Grants(e)
    <2> DEFINE at == timestamp(now)
               end == timestamp(Lesser(at + r.duration, r.action.deadline))
               e == [kind |-> "activity_claimed_v1", key |-> r.key, activity |-> r.activity,
                     lease |-> Len(tape) + 1, occurredAt |-> at, stamp |-> at,
                     leaseExpiresAt |-> end]
    <2>1. tape' = Append(tape, e) /\ now' = now /\ r.key \in Keys /\ beats' = beats
      BY <1>2 DEF ClaimActivity, ClaimRequests
    <2>2. /\ e.kind = "activity_claimed_v1" /\ e.key = r.key /\ e.lease = Len(tape) + 1
          /\ e.occurredAt = at /\ e.stamp = at /\ e.leaseExpiresAt = end
      OBVIOUS
    <2>3. at \in Nat /\ at <= now
      BY <1>0, TimestampType DEF TypeOK
    <2>4. ~Claimed(r.key)
      BY <1>2 DEF ClaimActivity, ClaimDisposition
    <2>5. /\ claims'[r.key].state = "granted" /\ claims'[r.key].lease = Len(tape) + 1
          /\ claims'[r.key].action = r.action
          /\ \A q \in Keys : q # r.key => claims'[q] = claims[q]
      BY SMTT(20), <1>0, <1>2, <2>1 DEF ClaimActivity, TypeOK
    <2>6. claims'[r.key] # NoClaim
      BY <2>5 DEF NoClaim
    <2>7. \A q \in Keys : q # r.key => EffectiveExpiry(q)' = EffectiveExpiry(q)
      BY <2>1, <2>5 DEF EffectiveExpiry, PriorExpiry
    <2>8. beats[r.key] = <<>>
      BY <1>0, <2>1, <2>4 DEF ExpiryInv
    <2>9. EffectiveExpiry(r.key)' = end
      BY <1>0, <1>2, <2>8, ClaimExpiry
    <2>10. IsClaim(e)
      BY <2>2 DEF IsClaim
    <2>11. e.stamp <= e.occurredAt /\ e.occurredAt <= now
      BY <2>2, <2>3
    <2>12. WholeMs(tape', Len(tape) + 1, claims'[r.key].action) =>
              Rule(tape', Len(tape) + 1, claims'[r.key].action)
      BY Zenon, <1>2, <2>5, ClaimJudged
    <2> HIDE DEF e, at, end
    <2> QED BY Zenon, <2>1, <2>2, <2>4, <2>5, <2>6, <2>7, <2>9, <2>10, <2>11, <2>12
           DEF Appends, Grants
  <1>3. ASSUME NEW k \in Keys, NEW activity, NEW lease, NEW id,
               HeartbeatActivity(k, activity, lease, id)
        PROVE  \E e : Appends(e) /\ Extends(e)
    <2> DEFINE e == [kind |-> "activity_heartbeat_recorded_v1", key |-> k, activity |-> activity,
                     lease |-> lease, occurredAt |-> now, stamp |-> timestamp(now),
                     leaseExpiresAt |-> timestamp(NextExpiry(k))]
    <2>1. tape' = Append(tape, e) /\ now' = now /\ claims' = claims
      BY Zenon, <1>3 DEF HeartbeatActivity
    <2>2. /\ e.kind = "activity_heartbeat_recorded_v1" /\ e.key = k /\ e.lease = lease
          /\ e.occurredAt = now /\ e.stamp = timestamp(now)
          /\ e.leaseExpiresAt = timestamp(NextExpiry(k))
      OBVIOUS
    <2> HIDE DEF e
    <2>3. /\ Claimed(k) /\ ~Terminal(k) /\ HeartbeatAdvances(k) /\ claims[k].lease = lease
      BY <1>3 DEF HeartbeatActivity, HeartbeatDisposition
    <2>4. ~IsClaim(e) /\ ~IsResult(e)
      BY <2>2 DEF IsClaim, IsResult
    <2>5. now \in Nat /\ e.stamp <= e.occurredAt /\ e.occurredAt <= now
      BY <1>0, <2>2, TimestampType DEF TypeOK
    <2>6. \A q \in Keys : q # k => EffectiveExpiry(q)' = EffectiveExpiry(q)
      <3>1. \A q \in Keys : q # k => beats'[q] = beats[q]
        BY <1>0, <1>3 DEF HeartbeatActivity, TypeOK
      <3> QED BY <2>1, <3>1 DEF EffectiveExpiry, PriorExpiry
    <2>7. EffectiveExpiry(k)' = e.leaseExpiresAt
      BY <1>0, <1>3, <2>2, HeartbeatExpiry
    <2>8. EffectiveExpiry(k) <= e.leaseExpiresAt
      <3>1. EffectiveExpiry(k) \in Nat /\ NextExpiry(k) \in Nat /\ Aligned(EffectiveExpiry(k))
        BY <1>0, <2>3, ExpiryType, NextExpiryType DEF ExpiryInv, ExpiriesAligned
      <3>2. EffectiveExpiry(k) <= NextExpiry(k)
        BY <2>3, <3>1 DEF HeartbeatAdvances
      <3> QED BY <2>2, <3>1, <3>2, TimestampMonotone
    <2>9. e.leaseExpiresAt = Reach(claims[k], e.occurredAt)
      BY Zenon, <2>2 DEF Reach, NextExpiry
    <2>10. WholeMs(tape', Len(tape) + 1, claims'[k].action) =>
              Rule(tape', Len(tape) + 1, claims'[k].action)
      BY Zenon, <1>3, <2>1, HeartbeatJudged
    <2> QED BY Zenon, <2>1, <2>2, <2>3, <2>4, <2>5, <2>6, <2>7, <2>8, <2>9, <2>10
           DEF Appends, Extends, Claimed
  <1>4. ASSUME NEW k \in Keys, NEW activity, NEW lease, NEW outcome, NEW evidence,
               RecordActivityResult(k, activity, lease, outcome, evidence)
        PROVE  \E e : Appends(e) /\ Settles(e)
    <2> DEFINE e == [kind |-> "activity_result_recorded_v1", key |-> k, activity |-> activity,
                     lease |-> lease, occurredAt |-> now, stamp |-> timestamp(now),
                     outcome |-> outcome]
    <2>1. tape' = Append(tape, e) /\ now' = now /\ beats' = beats
      BY Zenon, <1>4 DEF RecordActivityResult
    <2>2. /\ e.kind = "activity_result_recorded_v1" /\ e.key = k /\ e.lease = lease
          /\ e.occurredAt = now /\ e.stamp = timestamp(now) /\ e.outcome = outcome
      OBVIOUS
    <2> HIDE DEF e
    <2>3. Claimed(k) /\ ~Terminal(k) /\ claims[k].lease = lease
      BY <1>4 DEF RecordActivityResult, ResultDisposition
    <2>4. claims'[k] = [claims[k] EXCEPT !.state = "recorded",
                            !.outcome = outcome, !.evidence = evidence]
      BY <1>0, <1>4 DEF RecordActivityResult, TypeOK
    <2>5. /\ claims'[k].state = "recorded" /\ claims'[k].outcome = outcome
          /\ claims'[k].lease = lease /\ claims'[k].leaseExpiresAt = claims[k].leaseExpiresAt
          /\ claims'[k].action = claims[k].action
      BY <1>0, <2>3, <2>4, RowType DEF StoredClaim
    <2>6. claims'[k] # NoClaim
      BY <2>5 DEF NoClaim
    <2>7. \A q \in Keys : q # k => claims'[q] = claims[q]
      BY <1>0, <1>4 DEF RecordActivityResult, TypeOK
    <2>8. \A q \in Keys : EffectiveExpiry(q)' = EffectiveExpiry(q)
      BY <2>1, <2>5, <2>7 DEF EffectiveExpiry, PriorExpiry
    <2>9. IsResult(e)
      BY <2>2 DEF IsResult
    <2>10. e.stamp <= e.occurredAt /\ e.occurredAt <= now
      BY <1>0, <2>2, TimestampType DEF TypeOK
    <2>11. WholeMs(tape', Len(tape) + 1, claims'[k].action) =>
              Rule(tape', Len(tape) + 1, claims'[k].action)
      BY Zenon, <1>4, <2>5, ResultJudged
    <2> QED BY Zenon, <2>1, <2>2, <2>3, <2>5, <2>6, <2>7, <2>8, <2>9, <2>10, <2>11
           DEF Appends, Settles
  <1>5. CASE UNCHANGED vars
    <2>1. now' >= now
      BY <1>0, <1>5 DEF vars, TypeOK
    <2> QED BY Zenon, <1>5, <2>1 DEF vars
  <1> QED BY Zenon, <1>1, <1>2, <1>3, <1>4, <1>5 DEF Next

\* What the row of one key says of the tape.
Row(t, k, c) ==
    /\ c # NoClaim <=> \E i \in 1 .. Len(t) : IsClaim(t[i]) /\ t[i].key = k
    /\ c # NoClaim => c.lease <= Len(t) /\ IsClaim(t[c.lease]) /\ t[c.lease].key = k
    /\ \A i \in 1 .. Len(t) : t[i].key = k => c # NoClaim /\ t[i].lease = c.lease
    /\ c # NoClaim /\ c.state = "recorded" <=>
           \E i \in 1 .. Len(t) : IsResult(t[i]) /\ t[i].key = k /\ c.outcome = t[i].outcome

\* The rows of the keys an appending step does not name still say what the tape says.
LEMMA OtherRows ==
    ASSUME TapeInv, NEW e, Appends(e), NEW k \in Keys, k # e.key
    PROVE  Row(tape', k, claims'[k])
  <1>0. TypeOK /\ Row(tape, k, claims[k])
    <2>1. TypeOK /\ ProjectionIsTape
      BY DEF TapeInv, LeaseInv
    <2>2. \A q \in Keys : Row(tape, q, claims[q])
      BY <2>1 DEF ProjectionIsTape, Row
    <2> QED BY Zenon, <2>1, <2>2
  <1>1. tape' = Append(tape, e) /\ claims'[k] = claims[k]
    BY Zenon DEF Appends
  <1> DEFINE n == Len(tape)
  <1>2. /\ n \in Nat /\ Len(tape') = n + 1 /\ tape'[n + 1].key # k
        /\ \A j \in 1 .. n : tape'[j] = tape[j] /\ j \in 1 .. (n + 1)
        /\ \A j \in 1 .. (n + 1) : j \in 1 .. n \/ j = n + 1
    BY <1>0, <1>1, Appended
  <1>3. claims[k] # NoClaim => /\ claims[k].lease \in 1 .. n /\ claims[k].lease <= n + 1
    <2>1. ASSUME claims[k] # NoClaim PROVE claims[k].lease \in Nat \ {0} /\ claims[k].lease <= n
      BY <1>0, <2>1, RowType DEF Row, StoredClaim, Claimed
    <2> QED BY <1>2, <2>1
  <1>t. claims[k] # NoClaim => IsClaim(tape'[claims[k].lease]) /\ tape'[claims[k].lease].key = k
    <2>1. ASSUME claims[k] # NoClaim
          PROVE  IsClaim(tape'[claims[k].lease]) /\ tape'[claims[k].lease].key = k
      <3>1. tape'[claims[k].lease] = tape[claims[k].lease]
        BY Zenon, <1>2, <1>3, <2>1
      <3> QED BY Zenon, <1>0, <2>1, <3>1 DEF Row
    <2> QED BY Zenon, <2>1
  <1>4. claims[k] # NoClaim <=> \E i \in 1 .. (n + 1) : IsClaim(tape'[i]) /\ tape'[i].key = k
    <2>1. ASSUME claims[k] # NoClaim
          PROVE  \E i \in 1 .. (n + 1) : IsClaim(tape'[i]) /\ tape'[i].key = k
      BY Zenon, <1>2, <1>3, <1>t, <2>1
    <2>2. ASSUME NEW i \in 1 .. (n + 1), IsClaim(tape'[i]), tape'[i].key = k
          PROVE  claims[k] # NoClaim
      <3>1. i \in 1 .. n /\ tape'[i] = tape[i]
        BY Zenon, <1>2, <2>2
      <3> QED BY Zenon, <1>0, <2>2, <3>1 DEF Row
    <2> QED BY Zenon, <2>1, <2>2
  <1>5. \A i \in 1 .. (n + 1) : tape'[i].key = k => claims[k] # NoClaim /\ tape'[i].lease = claims[k].lease
    BY Zenon, <1>0, <1>2 DEF Row
  <1>6. claims[k] # NoClaim /\ claims[k].state = "recorded" <=>
          \E i \in 1 .. (n + 1) : /\ IsResult(tape'[i]) /\ tape'[i].key = k
                                 /\ claims[k].outcome = tape'[i].outcome
    BY Zenon, <1>0, <1>2 DEF Row
  <1>7. /\ Len(tape') = n + 1 /\ claims'[k] = claims[k]
        /\ claims[k] # NoClaim => claims[k].lease <= n + 1
    BY Zenon, <1>1, <1>2, <1>3
  <1> HIDE DEF n
  <1> QED BY Zenon, <1>4, <1>5, <1>6, <1>7, <1>t DEF Row

\* The row of the key an appending step names says what the tape says now.
LEMMA NamedRow ==
    ASSUME TapeInv, NEW e, Appends(e), Grants(e) \/ Extends(e) \/ Settles(e)
    PROVE  Row(tape', e.key, claims'[e.key])
  <1> DEFINE n == Len(tape)
             k == e.key
             c == claims'[k]
  <1>0. TypeOK /\ k \in Keys /\ Row(tape, k, claims[k]) /\ RowPerEvent
    <2>1. TypeOK /\ ProjectionIsTape /\ RowPerEvent /\ k \in Keys
      BY DEF TapeInv, LeaseInv, Appends
    <2>2. \A q \in Keys : Row(tape, q, claims[q])
      BY <2>1 DEF ProjectionIsTape, Row
    <2> QED BY Zenon, <2>1, <2>2
  <1>1. tape' = Append(tape, e) /\ c # NoClaim /\ c.lease = e.lease
    BY Zenon DEF Appends
  <1>2. /\ n \in Nat /\ Len(tape') = n + 1 /\ tape'[n + 1] = e /\ n + 1 \in 1 .. (n + 1)
        /\ \A j \in 1 .. n : tape'[j] = tape[j] /\ j \in 1 .. (n + 1)
        /\ \A j \in 1 .. (n + 1) : j \in 1 .. n \/ j = n + 1
    BY <1>0, <1>1, Appended
  <1> HIDE DEF k, c, n
  <1>3. CASE Grants(e)
    <2>1. /\ claims[k] = NoClaim /\ IsClaim(e) /\ e.lease = n + 1 /\ c.state = "granted"
      BY Zenon, <1>3 DEF Grants, Claimed, k, c, n
    <2>2. ~IsResult(e) /\ n + 1 <= n + 1 /\ "granted" # "recorded"
      BY <1>2, <2>1 DEF IsClaim, IsResult
    <2>3. \A j \in 1 .. n : tape[j].key # k
      BY Zenon, <1>0, <2>1 DEF Row, n
    <2>4. e.key = k
      BY DEF k
    <2> QED BY Zenon, <1>1, <1>2, <2>1, <2>2, <2>3, <2>4 DEF Row, c, k
  <1>4. CASE Extends(e) \/ Settles(e)
    <2>1. /\ claims[k] # NoClaim /\ ~Terminal(k) /\ ~IsClaim(e)
      <3>1. Settles(e) => ~IsClaim(e)
        BY DEF Settles, IsResult, IsClaim
      <3> QED BY Zenon, <1>4, <3>1 DEF Extends, Settles, Claimed, k
    <2>2. c.lease = claims[k].lease
      <3>1. CASE Extends(e)
        BY Zenon, <3>1 DEF Extends, k, c
      <3>2. CASE Settles(e)
        BY Zenon, <1>1, <3>2 DEF Settles, k, c
      <3> QED BY <1>4, <3>1, <3>2
    <2>3. claims[k].lease \in 1 .. n /\ claims[k].lease <= n + 1
      <3>1. claims[k].lease \in Nat \ {0} /\ claims[k].lease <= n
        BY <1>0, <2>1, RowType DEF Row, StoredClaim, Claimed, n
      <3> QED BY <1>2, <3>1
    <2>4. \A j \in 1 .. n : tape[j].key = k => ~IsResult(tape[j]) /\ tape[j].lease = claims[k].lease
      BY Zenon, <1>0, <2>1 DEF Row, RowPerEvent, n
    <2>5. IsClaim(tape[claims[k].lease]) /\ tape[claims[k].lease].key = k
      BY Zenon, <1>0, <2>1 DEF Row
    <2>6. e.key = k
      BY DEF k
    <2>7. c.state = "recorded" <=> IsResult(e) /\ c.outcome = e.outcome
      <3>1. CASE Extends(e)
        BY SMTT(20), <3>1, <2>1 DEF Extends, Terminal, k, c
      <3>2. CASE Settles(e)
        BY <3>2 DEF Settles, k, c
      <3> QED BY <1>4, <3>1, <3>2
    <2>8. c.state = "recorded" <=>
             \E i \in 1 .. (n + 1) : IsResult(tape'[i]) /\ tape'[i].key = k
                                     /\ c.outcome = tape'[i].outcome
      BY Zenon, <1>2, <2>4, <2>6, <2>7
    <2>9. \E i \in 1 .. Len(tape') : IsClaim(tape'[i]) /\ tape'[i].key = k
      BY Zenon, <1>2, <2>3, <2>5
    <2>10. c.lease <= Len(tape') /\ IsClaim(tape'[c.lease]) /\ tape'[c.lease].key = k
      BY <1>2, <2>2, <2>3, <2>5
    <2>11. \A i \in 1 .. Len(tape') : tape'[i].key = k => c # NoClaim /\ tape'[i].lease = c.lease
      BY Zenon, <1>1, <1>2, <2>2, <2>4
    <2>12. Row(tape', k, c)
      BY <1>1, <1>2, <2>8, <2>9, <2>10, <2>11 DEF Row
    <2> QED BY Zenon, <2>12 DEF c, k
  <1> QED BY <1>3, <1>4

\* An appended event is not stamped after it occurred, nor in the future.
LEMMA TimedStep ==
    ASSUME TapeInv, TypeOK', NEW e, Appends(e)
    PROVE  Timed'
  <1>0. TypeOK /\ Timed
    BY DEF TapeInv, LeaseInv
  <1>1. tape' = Append(tape, e) /\ now' = now
        /\ e.stamp <= e.occurredAt /\ e.occurredAt <= now
    BY Zenon DEF Appends
  <1> QED BY Zenon, <1>0, <1>1, Appended DEF Timed

\* A claim or a heartbeat becomes the last lease event; a result changes no expiry.
LEMMA LastLeaseStep ==
    ASSUME TapeInv, NEW e, Appends(e), Grants(e) \/ Extends(e) \/ Settles(e)
    PROVE  LastLease'
  <1> DEFINE n == Len(tape)
  <1>0. TypeOK /\ LastLease
    BY DEF TapeInv, LeaseInv
  <1>1. tape' = Append(tape, e) /\ e.key \in Keys
    BY Zenon DEF Appends
  <1>2. /\ n \in Nat /\ Len(tape') = n + 1 /\ tape'[n + 1] = e /\ n + 1 \in 1 .. (n + 1)
        /\ \A j \in 1 .. n : tape'[j] = tape[j] /\ j \in 1 .. (n + 1)
        /\ \A j \in 1 .. (n + 1) : j \in 1 .. n \/ j = n + 1
        /\ \A j \in 1 .. (n + 1) : j <= n + 1
    BY Zenon, <1>0, <1>1, Appended
  <1> SUFFICES ASSUME NEW k \in Keys, claims'[k] # NoClaim
               PROVE  \E p \in 1 .. (n + 1) : /\ IsLast(tape', k, p)
                          /\ tape'[p].leaseExpiresAt = EffectiveExpiry(k)'
    BY Zenon, <1>2 DEF LastLease, Claimed
  <1>3. CASE e.key = k /\ ~IsResult(e)
    <2>1. EffectiveExpiry(k)' = e.leaseExpiresAt
      BY Zenon, <1>3 DEF Grants, Extends, Settles
    <2>2. IsLast(tape', k, n + 1)
      BY Zenon, <1>2, <1>3 DEF IsLast
    <2> QED BY Zenon, <1>2, <2>1, <2>2
  <1>4. CASE e.key # k \/ IsResult(e)
    <2>1. Claimed(k) /\ EffectiveExpiry(k)' = EffectiveExpiry(k)
      <3>1. CASE e.key # k
        BY Zenon, <3>1 DEF Appends, Claimed
      <3>2. CASE e.key = k /\ IsResult(e)
        <4>1. ~Grants(e)
          BY <3>2 DEF Grants, IsClaim, IsResult
        <4> QED BY Zenon, <3>2, <4>1 DEF Extends, Settles
      <3> QED BY Zenon, <1>4, <3>1, <3>2
    <2>2. PICK p \in 1 .. n : IsLast(tape, k, p) /\ tape[p].leaseExpiresAt = EffectiveExpiry(k)
      BY Zenon, <1>0, <2>1 DEF LastLease
    <2>3. IsLast(tape', k, p)
      BY Zenon, <1>2, <1>4, <2>2 DEF IsLast
    <2> QED BY Zenon, <1>2, <2>1, <2>2, <2>3
  <1> QED BY <1>3, <1>4

\* What a heartbeat can reach is a time.
LEMMA ReachType ==
    ASSUME TypeOK, NEW k \in Keys, Claimed(k), NEW t \in Nat
    PROVE  Reach(claims[k], t) \in Nat
  <1>1. claims[k].duration \in Nat /\ claims[k].action.deadline \in Nat
    BY RowType, TimeAssumption, ActionAssumption DEF StoredClaim
  <1>2. Lesser(t + claims[k].duration, claims[k].action.deadline) \in Nat
    BY <1>1 DEF Lesser
  <1> QED BY <1>2, TimestampType DEF Reach

\* The expiry in force after a step is a time.
LEMMA ExpiryTypeNext ==
    ASSUME TypeOK', NEW k \in Keys, claims'[k] # NoClaim
    PROVE  EffectiveExpiry(k)' \in Nat
  <1>1. beats'[k] \in Seq(StoredHeartbeat) /\ claims'[k].leaseExpiresAt \in Nat
    BY DEF TypeOK, StoredClaim
  <1>2. CASE Len(beats'[k]) = 0
    BY <1>1, <1>2 DEF EffectiveExpiry, PriorExpiry
  <1>3. CASE Len(beats'[k]) # 0
    <2>1. Len(beats'[k]) \in 1 .. Len(beats'[k]) /\ Len(beats'[k]) + 1 # 1
      BY <1>1, <1>3
    <2>2. beats'[k][Len(beats'[k])] \in StoredHeartbeat
      BY <1>1, <2>1
    <2> QED BY <1>1, <2>1, <2>2 DEF EffectiveExpiry, PriorExpiry, StoredHeartbeat
  <1> QED BY <1>2, <1>3

\* Extending one lease takes nothing from what earlier heartbeats reached.
LEMMA ReachesStep ==
    ASSUME TapeInv, TypeOK', [Next]_vars,
           NEW e, Appends(e), Grants(e) \/ Extends(e) \/ Settles(e)
    PROVE  Reaches'
  <1> DEFINE n == Len(tape)
  <1>0. TypeOK /\ Reaches /\ RowPerEvent
    BY DEF TapeInv, LeaseInv
  <1>1. tape' = Append(tape, e) /\ e.key \in Keys
    BY Zenon DEF Appends
  <1>2. /\ n \in Nat /\ Len(tape') = n + 1 /\ tape'[n + 1] = e
        /\ \A j \in 1 .. n : tape'[j] = tape[j] /\ tape[j] \in LeaseEvent \cup ResultEvent
        /\ \A j \in 1 .. (n + 1) : j \in 1 .. n \/ j = n + 1
    BY <1>0, <1>1, Appended
  <1> SUFFICES ASSUME NEW k \in Keys, NEW i \in 1 .. (n + 1), tape'[i].key = k,
                      ~IsClaim(tape'[i]), ~IsResult(tape'[i])
               PROVE  Reach(claims'[k], tape'[i].occurredAt) <= EffectiveExpiry(k)'
    BY Zenon, <1>2 DEF Reaches
  <1>3. CASE i = n + 1
    <2>1. Extends(e) /\ e.key = k
      BY Zenon, <1>2, <1>3 DEF Grants, Settles
    <2>2. Reach(claims'[k], e.occurredAt) = e.leaseExpiresAt
          /\ EffectiveExpiry(k)' = e.leaseExpiresAt
      BY Zenon, <2>1 DEF Extends
    <2>3. EffectiveExpiry(k)' \in Nat
      BY Zenon, <2>1, ExpiryTypeNext DEF Appends
    <2>4. Reach(claims'[k], e.occurredAt) <= EffectiveExpiry(k)'
      BY <2>2, <2>3
    <2> QED BY Zenon, <1>2, <1>3, <2>4
  <1>4. CASE i \in 1 .. n
    <2>0. PICK t : t = tape[i].occurredAt
      OBVIOUS
    <2>1. tape'[i] = tape[i] /\ Claimed(k) /\ t \in Nat
      <3>1. tape'[i] = tape[i] /\ t \in Nat
        BY <1>2, <1>4, <2>0 DEF LeaseEvent, ResultEvent
      <3> QED BY Zenon, <1>0, <1>4, <3>1 DEF RowPerEvent
    <2>2. Reach(claims[k], t) <= EffectiveExpiry(k)
      BY Zenon, <1>0, <1>4, <2>0, <2>1 DEF Reaches
    <2>3. claims'[k].action = claims[k].action /\ claims'[k].duration = claims[k].duration
      BY <1>0, <2>1, ClaimKept
    <2>4. Reach(claims'[k], t) = Reach(claims[k], t)
      BY Zenon, <2>3 DEF Reach
    <2>5. EffectiveExpiry(k) = EffectiveExpiry(k)' \/ EffectiveExpiry(k) <= EffectiveExpiry(k)'
      <3>1. CASE k # e.key
        BY Zenon, <2>1, <3>1 DEF Appends
      <3>2. CASE k = e.key
        <4>1. ~Grants(e)
          BY Zenon, <2>1, <3>2 DEF Grants
        <4> QED BY Zenon, <3>2, <4>1 DEF Extends, Settles
      <3> QED BY <3>1, <3>2
    <2>6. claims'[k] # NoClaim
      <3>1. CASE k # e.key
        BY Zenon, <2>1, <3>1 DEF Appends, Claimed
      <3> QED BY Zenon, <3>1 DEF Appends
    <2>7. Reach(claims[k], t) \in Nat /\ EffectiveExpiry(k) \in Nat /\ EffectiveExpiry(k)' \in Nat
      BY Zenon, <1>0, <2>1, <2>6, ReachType, ExpiryType, ExpiryTypeNext
    <2>8. Reach(claims'[k], t) <= EffectiveExpiry(k)'
      BY <2>2, <2>4, <2>5, <2>7
    <2> QED BY Zenon, <2>0, <2>1, <2>8
  <1> QED BY <1>2, <1>3, <1>4

\* Replay's judgement holds of the appended event and of all before it.
LEMMA JudgedStep ==
    ASSUME TapeInv, [Next]_vars, NEW e, Appends(e)
    PROVE  Judged'
  <1> DEFINE n == Len(tape)
  <1>0. TypeOK
    BY DEF TapeInv, LeaseInv
  <1>1. tape' = Append(tape, e)
    BY Zenon DEF Appends
  <1>2. /\ n \in Nat /\ Len(tape') = n + 1 /\ tape'[n + 1] = e
        /\ \A j \in 1 .. (n + 1) : j \in 1 .. n \/ j = n + 1
    BY <1>0, <1>1, Appended
  <1>3. WholeMs(tape', n + 1, claims'[e.key].action) => Rule(tape', n + 1, claims'[e.key].action)
    BY Zenon DEF Appends
  <1> SUFFICES ASSUME NEW i \in 1 .. (n + 1), WholeMs(tape', i, Action(i)')
               PROVE  Rule(tape', i, Action(i)')
    BY Zenon, <1>2 DEF Judged
  <1>4. CASE i \in 1 .. n
    BY <1>1, <1>4, OldJudged
  <1>5. CASE i = n + 1
    <2>1. Action(i)' = claims'[e.key].action
      BY Zenon, <1>2, <1>5 DEF Action
    <2> QED BY Zenon, <1>3, <1>5, <2>1
  <1> QED BY <1>2, <1>4, <1>5

\* Every operation of the ledger keeps TapeInv.
LEMMA TapeInvStep == TapeInv /\ TypeOK' /\ [Next]_vars => TapeInv'
  <1> SUFFICES ASSUME TapeInv, TypeOK', [Next]_vars PROVE TapeInv'
    OBVIOUS
  <1>1. LeaseInv' /\ ExpiryInv'
    BY LeaseInvStep, ExpiryInvStep DEF TapeInv
  <1>2. CASE UNCHANGED <<tape, claims, beats>> /\ now' >= now
    <2>1. ProjectionIsTape'
      BY <1>2 DEF TapeInv, ProjectionIsTape, IsClaim, IsResult
    <2>2. Timed'
      <3>1. TypeOK /\ Timed
        BY DEF TapeInv, LeaseInv
      <3>2. \A i \in 1 .. Len(tape) : tape[i].occurredAt \in Nat
        BY <3>1 DEF TypeOK, LeaseEvent, ResultEvent
      <3> QED BY <1>2, <3>1, <3>2 DEF Timed, TypeOK
    <2>3. LastLease'
      BY Zenon, <1>2 DEF TapeInv, LastLease, IsLast, IsResult, EffectiveExpiry, PriorExpiry, Claimed
    <2>4. Reaches'
      BY Zenon, <1>2 DEF TapeInv, Reaches, IsClaim, IsResult, EffectiveExpiry, PriorExpiry
    <2>5. Judged'
      BY Zenon, <1>2 DEF TapeInv, Judged, Action
    <2> QED BY <1>1, <2>1, <2>2, <2>3, <2>4, <2>5 DEF TapeInv
  <1>3. CASE \E e : Appends(e) /\ (Grants(e) \/ Extends(e) \/ Settles(e))
    <2>1. PICK e : Appends(e) /\ (Grants(e) \/ Extends(e) \/ Settles(e))
      BY <1>3
    <2>2. \A k \in Keys : Row(tape', k, claims'[k])
      BY Zenon, <2>1, OtherRows, NamedRow
    <2>3. ProjectionIsTape'
      BY <2>2 DEF ProjectionIsTape, Row, IsClaim, IsResult
    <2>4. Timed' /\ LastLease' /\ Reaches' /\ Judged'
      BY Zenon, <2>1, TimedStep, LastLeaseStep, ReachesStep, JudgedStep
    <2> QED BY <1>1, <2>3, <2>4 DEF TapeInv
  <1> QED BY Zenon, <1>2, <1>3, NewEvent

\* The lease table keeps its tape readable, for every set of keys, requests
\* and durations and every clock granularity: the rows say exactly what the
\* signed events say, and every claim, heartbeat and result the ledger signs
\* on whole milliseconds is one that trusted replay's own copy of the lease
\* rules (transitions.rs) accepts.
THEOREM LedgerAndReplayAgree == Spec => []TapeIsTheRecord
  <1>1. Init => TapeInv
    <2> SUFFICES ASSUME Init PROVE TapeInv
      OBVIOUS
    <2>1. TypeOK /\ tape = <<>> /\ Len(tape) = 0 /\ 1 .. Len(tape) = {}
          /\ \A k \in Keys : claims[k] = NoClaim /\ beats[k] = <<>>
      BY DEF Init, TypeOK
    <2>2. LeaseInv
      BY <2>1 DEF LeaseInv, RowPerEvent, OneLeasePerActivity, ResultClosesActivity
    <2>3. ExpiryInv
      BY <2>1 DEF ExpiryInv, ExpiriesAligned, Claimed
    <2>4. ProjectionIsTape
      BY <2>1 DEF ProjectionIsTape
    <2>5. Timed /\ LastLease /\ Reaches /\ Judged
      BY <2>1 DEF Timed, LastLease, Reaches, Judged, Claimed
    <2> QED BY <2>2, <2>3, <2>4, <2>5 DEF TapeInv
  <1>2. TapeInv => TapeIsTheRecord
    <2> SUFFICES ASSUME TapeInv PROVE TapeIsTheRecord
      OBVIOUS
    <2>1. OneLeasePerActivity /\ ProjectionIsTape /\ Judged /\ Len(tape) \in Nat
      BY DEF TapeInv, LeaseInv, TypeOK
    <2>2. ASSUME NEW i \in 1 .. Len(tape), OnWholeMs(i) PROVE ReplayAccepts(i)
      <3>1. WholeMs(tape, i, Action(i))
        BY <2>2 DEF OnWholeMs, WholeMs, Aligned
      <3>2. Rule(tape, i, Action(i))
        BY Zenon, <2>1, <3>1 DEF Judged
      <3> QED BY <2>1, <3>1, <3>2, RuleIsReplays
    <2> QED BY <2>1, <2>2 DEF TapeIsTheRecord
  <1> QED BY <1>1, <1>2, TapeInvStep, TypeCorrect, PTL DEF Spec

-----------------------------------------------------------------------------
(* `ledger serve': what the hosts are told *)

\* A control line a session may have in hand when the tape is n events long.
ControlFor(c, n) ==
    \/ /\ c.op = "claim_activity_v1" /\ c.key \in Keys
       /\ c.request \in ClaimRequests({"generic"}) /\ c.key = c.request.key
    \/ /\ c.op = "record_activity_result_v1" /\ c.key \in Keys /\ c.activity \in Activities
       /\ c.lease \in 1 .. n /\ c.outcome \in Outcomes /\ c.evidence \in Evidence
    \/ /\ c.op = "heartbeat_activity_v1" /\ c.key \in Keys /\ c.activity \in Activities
       /\ c.lease \in 1 .. n /\ c.heartbeat \in HeartbeatIds

Controls == {"claim_activity_v1", "record_activity_result_v1", "heartbeat_activity_v1"}
Dispositions == {"granted", "pending", "recorded", "existing", "lease_expired", "rejected"}
Answer ==
    [session : Sessions, op : Controls, key : Keys, outcome : Dispositions, upto : Nat]

\* The row u of its key still bears an answer out.
Told(a, u) ==
    /\ a.outcome = "granted" => u # NoClaim
    /\ a.op = "record_activity_result_v1" /\ a.outcome \in {"recorded", "existing"}
       => u # NoClaim /\ u.state = "recorded"
Sealed(a, c) == a.session \in Governed /\ a.outcome # "rejected" => a.upto <= c

\* The answer session s has ready: the tape is n events long, c of them are
\* sealed and the rows are u.
Ready(w, s, n, c, u) ==
    /\ w.answer \in Answer /\ w.answer.session = s /\ w.answer.upto <= n
    /\ Told(w.answer, u[w.answer.key])
    /\ w.pc = "respond" => Sealed(w.answer, c)
InHand(w, s, n, c, u) ==
    \/ w = Idle
    \/ /\ w.pc \in {"apply", "seal", "respond"} /\ ControlFor(w.control, n)
       /\ w.pc # "apply" => Ready(w, s, n, c, u)

\* The sessions with a grant of key k on its way to a host.
Granting(w, k) ==
    w.pc \in {"seal", "respond"} /\ w.answer.outcome = "granted" /\ w.answer.key = k
Granted(a, k) == a.outcome = "granted" /\ a.key = k

\* Of all answers, written or on their way, one at most grants a key.
OneGrant ==
    \A k \in Keys :
        /\ \A i, j \in 1 .. Len(answers) : Granted(answers[i], k) /\ Granted(answers[j], k) => i = j
        /\ \A i \in 1 .. Len(answers), s \in Sessions :
              ~(Granted(answers[i], k) /\ Granting(work[s], k))
        /\ \A s, r \in Sessions : Granting(work[s], k) /\ Granting(work[r], k) => s = r

Written(a, c, u) == Told(a, u[a.key]) /\ Sealed(a, c)

ServeInv ==
    /\ TypeOK
    /\ covered \in Nat /\ covered <= Len(tape)
    /\ work = [s \in Sessions |-> work[s]]
    /\ \A s \in Sessions : InHand(work[s], s, Len(tape), covered, claims)
    /\ answers \in Seq(Answer)
    /\ \A i \in 1 .. Len(answers) : Written(answers[i], covered, claims)
    /\ OneGrant

\* A control in hand is one of the ledger's operations, so a serve step is a
\* step of the lease table or leaves it alone.
LEMMA ServeIsLedgerStep == ServeInv /\ [ServeNext]_<<vars, serveVars>> => [Next]_vars
  <1> SUFFICES ASSUME ServeInv, [ServeNext]_<<vars, serveVars>> PROVE [Next]_vars
    OBVIOUS
  <1>1. ASSUME NEW s \in Sessions, ApplyControl(s) PROVE [Next]_vars
    <2> DEFINE c == work[s].control
    <2>1. ControlFor(c, Len(tape))
      BY <1>1 DEF ServeInv, InHand, Idle, ApplyControl
    <2>2. StoreOperation(c) \/ UNCHANGED vars
      BY Zenon, <1>1 DEF ApplyControl
    <2>3. CASE StoreOperation(c)
      <3>1. CASE c.op = "claim_activity_v1" /\ ClaimActivity(c.request)
        <4>1. c.request \in ClaimRequests(Purposes)
          BY <2>1, <3>1 DEF ControlFor, ClaimRequests, Purposes
        <4> QED BY Zenon, <3>1, <4>1 DEF Next
      <3>2. CASE c.op = "record_activity_result_v1"
                 /\ RecordActivityResult(c.key, c.activity, c.lease, c.outcome, c.evidence)
        <4>1. c.key \in Keys /\ c.activity \in Activities /\ c.lease \in Leases
              /\ c.outcome \in Outcomes /\ c.evidence \in Evidence
          BY Zenon, <2>1, <3>2 DEF ControlFor, Leases
        <4> QED BY Zenon, <3>2, <4>1 DEF Next
      <3>3. CASE c.op = "heartbeat_activity_v1"
                 /\ HeartbeatActivity(c.key, c.activity, c.lease, c.heartbeat)
        <4>1. c.key \in Keys /\ c.activity \in Activities /\ c.lease \in Leases
              /\ c.heartbeat \in HeartbeatIds
          BY <2>1, <3>3 DEF ControlFor, Leases
        <4> QED BY Zenon, <3>3, <4>1 DEF Next
      <3> QED BY Zenon, <2>3, <3>1, <3>2, <3>3 DEF StoreOperation
    <2> QED BY Zenon, <2>2, <2>3
  <1>2. ServeTick => Next
    BY Zenon DEF ServeTick, Next
  <1>3. CASE UNCHANGED vars
    BY <1>3
  <1>4. UNCHANGED <<vars, serveVars>> => UNCHANGED vars
    BY Zenon DEF vars, serveVars
  <1> QED BY Zenon, <1>1, <1>2, <1>3, <1>4 DEF ServeNext, StartServe, EndSession, Crash,
             Handshake, ReceiveControl, SealAnswer, WriteDisposition

\* Rows u only gain claims and results on their way to v.
Gains(u, v) ==
    \A k \in Keys : u[k] # NoClaim =>
        v[k] # NoClaim /\ (u[k].state = "recorded" => v[k].state = "recorded")

\* An answer the rows bear out is borne out by rows that gained.
LEMMA ToldKept ==
    ASSUME NEW u, NEW v, Gains(u, v), NEW a, a.key \in Keys, Told(a, u[a.key])
    PROVE  Told(a, v[a.key])
  BY Zenon DEF Gains, Told

\* The typed fields of an answer.
LEMMA AnswerFields ==
    ASSUME NEW a \in Answer
    PROVE  a.session \in Sessions /\ a.key \in Keys /\ a.upto \in Nat
  BY DEF Answer

\* A sealed answer stays sealed under a longer checkpointed prefix.
LEMMA SealedKept ==
    ASSUME NEW a \in Answer, NEW c \in Nat, NEW d \in Nat, c <= d, Sealed(a, c)
    PROVE  Sealed(a, d)
  BY AnswerFields DEF Sealed

\* A written answer stays borne out and sealed.
LEMMA WrittenKept ==
    ASSUME NEW u, NEW v, Gains(u, v), NEW a \in Answer,
           NEW c \in Nat, NEW d \in Nat, c <= d, Written(a, c, u)
    PROVE  Written(a, d, v)
  <1>1. a.key \in Keys
    BY AnswerFields
  <1>2. Told(a, v[a.key])
    BY Zenon, <1>1, ToldKept DEF Written
  <1>3. Sealed(a, d)
    BY SealedKept DEF Written
  <1> QED BY <1>2, <1>3 DEF Written

\* What a session has in hand stays good while the tape, the checkpoint and the
\* rows grow under it.
LEMMA InHandKept ==
    ASSUME NEW u, NEW v, Gains(u, v), NEW w, NEW s \in Sessions,
           NEW n \in Nat, NEW m \in Nat, n <= m,
           NEW c \in Nat, NEW d \in Nat, c <= d, InHand(w, s, n, c, u)
    PROVE  InHand(w, s, m, d, v)
  <1>1. CASE w = Idle
    BY Zenon, <1>1 DEF InHand
  <1>2. CASE w # Idle
    <2>1. w.pc \in {"apply", "seal", "respond"} /\ ControlFor(w.control, n)
          /\ (w.pc # "apply" => Ready(w, s, n, c, u))
      BY Zenon, <1>2 DEF InHand
    <2>2. ControlFor(w.control, m)
      <3>1. \A l \in 1 .. n : l \in 1 .. m
        OBVIOUS
      <3> QED BY Zenon, <2>1, <3>1 DEF ControlFor
    <2>3. ASSUME w.pc # "apply" PROVE Ready(w, s, m, d, v)
      <3> DEFINE a == w.answer
      <3>1. a \in Answer /\ a.session = s /\ a.upto <= n /\ Told(a, u[a.key])
            /\ (w.pc = "respond" => Sealed(a, c))
        BY Zenon, <2>1, <2>3 DEF Ready
      <3> HIDE DEF a
      <3>2. a.upto <= m /\ a.key \in Keys
        BY <3>1, AnswerFields
      <3>3. Told(a, v[a.key])
        BY Zenon, <3>1, <3>2, ToldKept
      <3>4. w.pc = "respond" => Sealed(a, d)
        BY <3>1, SealedKept
      <3> QED BY Zenon, <3>1, <3>2, <3>3, <3>4 DEF Ready, a
    <2> QED BY Zenon, <2>1, <2>2, <2>3 DEF InHand
  <1> QED BY <1>1, <1>2

\* The tape only grows and the rows only gain.
LEMMA LedgerGrows ==
    ASSUME TypeOK, [Next]_vars
    PROVE  /\ Len(tape) \in Nat /\ Len(tape') \in Nat /\ Len(tape) <= Len(tape')
           /\ Gains(claims, claims')
  <1>1. tape' = tape \/ \E e : tape' = Append(tape, e)
    BY Zenon DEF Next, Tick, ClaimActivity, HeartbeatActivity, RecordActivityResult, vars
  <1>2. Len(tape) \in Nat /\ Len(tape') \in Nat /\ Len(tape) <= Len(tape')
    BY <1>1 DEF TypeOK
  <1>3. Gains(claims, claims')
    BY RowsPersist DEF Gains, Claimed
  <1> QED BY <1>2, <1>3

\* No session that is not granting starts to, and no grant is written.
NoNewGrant ==
    /\ answers' = answers
    /\ \A s \in Sessions, k \in Keys : Granting(work'[s], k) => Granting(work[s], k)

\* Where no grant is added, one at most remains.
LEMMA OneGrantKept ==
    ASSUME OneGrant, NoNewGrant
    PROVE  OneGrant'
  BY Zenon DEF OneGrant, NoNewGrant

\* A step in which one session s moves on, the checkpoint not shrinking.
LEMMA SessionStep ==
    ASSUME ServeInv, [Next]_vars, NEW s \in Sessions, NEW w,
           work' = [work EXCEPT ![s] = w],
           covered' \in Nat, covered <= covered', covered' <= Len(tape'),
           InHand(w, s, Len(tape'), covered', claims'),
           answers' = answers, OneGrant'
    PROVE  ServeInv'
  <1>0. TypeOK /\ TypeOK' /\ covered \in Nat /\ work = [r \in Sessions |-> work[r]]
        /\ answers \in Seq(Answer)
    BY TypeStep DEF ServeInv
  <1>1. /\ Len(tape) \in Nat /\ Len(tape') \in Nat /\ Len(tape) <= Len(tape')
        /\ Gains(claims, claims')
    BY <1>0, LedgerGrows
  <1>2. /\ work' = [r \in Sessions |-> work'[r]] /\ work'[s] = w
        /\ \A r \in Sessions : r # s => work'[r] = work[r]
    BY <1>0
  <1>3. ASSUME NEW r \in Sessions PROVE InHand(work'[r], r, Len(tape'), covered', claims')
    <2>1. CASE r = s
      BY Zenon, <1>2, <2>1
    <2>2. CASE r # s
      <3>1. InHand(work[r], r, Len(tape), covered, claims)
        BY Zenon DEF ServeInv
      <3>2. InHand(work[r], r, Len(tape'), covered', claims')
        BY <1>0, <1>1, <3>1, InHandKept
      <3> QED BY Zenon, <1>2, <2>2, <3>2
    <2> QED BY <2>1, <2>2
  <1>4. ASSUME NEW i \in 1 .. Len(answers) PROVE Written(answers[i], covered', claims')
    <2>1. Written(answers[i], covered, claims) /\ answers[i] \in Answer
      BY <1>0 DEF ServeInv
    <2> QED BY <1>0, <1>1, <2>1, WrittenKept
  <1> QED BY Zenon, <1>0, <1>2, <1>3, <1>4 DEF ServeInv

\* Taking a control line: the prefix is sealed, nothing is answered yet.
LEMMA ReceiveStep ==
    ASSUME ServeInv, [Next]_vars, NEW s \in Sessions, NEW c, ControlFor(c, Len(tape)),
           ReceiveControl(s, c)
    PROVE  ServeInv'
  <1> DEFINE w == [pc |-> "apply", control |-> c]
  <1>0. TypeOK /\ Len(tape) \in Nat /\ covered \in Nat /\ covered <= Len(tape) /\ OneGrant
        /\ work = [r \in Sessions |-> work[r]]
    BY DEF ServeInv, TypeOK
  <1>1. /\ tape' = tape /\ answers' = answers /\ work' = [work EXCEPT ![s] = w]
        /\ covered' = seal_governed_control_prefix(s)
    BY Zenon DEF ReceiveControl, vars
  <1>2. covered' \in Nat /\ covered <= covered' /\ covered' <= Len(tape')
    BY <1>0, <1>1 DEF seal_governed_control_prefix
  <1>3. InHand(w, s, Len(tape'), covered', claims')
    BY <1>1 DEF InHand
  <1>4. NoNewGrant
    <2>1. ASSUME NEW r \in Sessions, NEW k \in Keys, Granting(work'[r], k)
          PROVE  Granting(work[r], k)
      <3>1. CASE r = s
        <4>1. work'[r].pc = "apply"
          BY <1>0, <1>1, <3>1
        <4> QED BY <2>1, <4>1 DEF Granting
      <3>2. CASE r # s
        <4>1. work'[r] = work[r]
          BY <1>0, <1>1, <3>2
        <4> QED BY Zenon, <2>1, <4>1
      <3> QED BY <3>1, <3>2
    <2> QED BY Zenon, <1>1, <2>1 DEF NoNewGrant
  <1> HIDE DEF w
  <1> QED BY Zenon, <1>0, <1>1, <1>2, <1>3, <1>4, OneGrantKept, SessionStep

\* Sealing puts the ready answer of a governed session under the checkpoint.
LEMMA SealStep ==
    ASSUME ServeInv, [Next]_vars, NEW s \in Sessions, SealAnswer(s)
    PROVE  ServeInv'
  <1> DEFINE w == [work[s] EXCEPT !.pc = "respond"]
  <1>0. TypeOK /\ Len(tape) \in Nat /\ covered \in Nat /\ covered <= Len(tape) /\ OneGrant
        /\ work = [r \in Sessions |-> work[r]] /\ InHand(work[s], s, Len(tape), covered, claims)
    BY DEF ServeInv, TypeOK
  <1>1. /\ tape' = tape /\ answers' = answers /\ work' = [work EXCEPT ![s] = w]
        /\ covered' = seal_governed_control_prefix(s) /\ work[s].pc = "seal" /\ claims' = claims
    BY Zenon DEF SealAnswer, vars
  <1>2. covered' \in Nat /\ covered <= covered' /\ covered' <= Len(tape')
    BY <1>0, <1>1 DEF seal_governed_control_prefix
  <1>3. work[s] # Idle
    BY <1>1 DEF Idle
  <1>4. ControlFor(work[s].control, Len(tape)) /\ Ready(work[s], s, Len(tape), covered, claims)
    BY <1>0, <1>1, <1>3 DEF InHand
  <1>5. w.control = work[s].control /\ w.answer = work[s].answer
    OBVIOUS
  <1>6. w.pc = "respond"
    BY <1>0, <1>1 DEF InHand
  <1>7. Sealed(work[s].answer, covered')
    BY <1>0, <1>1, <1>4 DEF Ready, Sealed, seal_governed_control_prefix
  <1> HIDE DEF w
  <1>8. Ready(w, s, Len(tape'), covered', claims')
    BY Zenon, <1>1, <1>4, <1>5, <1>7 DEF Ready
  <1>9. InHand(w, s, Len(tape'), covered', claims')
    BY <1>1, <1>4, <1>5, <1>6, <1>8 DEF InHand
  <1>10. NoNewGrant
    <2>1. ASSUME NEW r \in Sessions, NEW k \in Keys, Granting(work'[r], k)
          PROVE  Granting(work[r], k)
      <3>1. CASE r = s
        <4>1. work'[r] = w
          BY <1>0, <1>1, <3>1
        <4> QED BY <1>1, <1>5, <2>1, <3>1, <4>1 DEF Granting
      <3>2. CASE r # s
        <4>1. work'[r] = work[r]
          BY <1>0, <1>1, <3>2
        <4> QED BY Zenon, <2>1, <4>1
      <3> QED BY <3>1, <3>2
    <2> QED BY Zenon, <1>1, <2>1 DEF NoNewGrant
  <1> QED BY Zenon, <1>0, <1>1, <1>2, <1>9, <1>10, OneGrantKept, SessionStep

\* A crash drops the control and its answer; the checkpoint stays.
LEMMA CrashStep ==
    ASSUME ServeInv, [Next]_vars, NEW s \in Sessions, Crash(s)
    PROVE  ServeInv'
  <1>0. Len(tape) \in Nat /\ covered \in Nat /\ covered <= Len(tape) /\ OneGrant
        /\ work = [r \in Sessions |-> work[r]]
    BY DEF ServeInv, TypeOK
  <1>1. /\ tape' = tape /\ answers' = answers /\ work' = [work EXCEPT ![s] = Idle]
        /\ covered' = covered
    BY Zenon DEF Crash, vars
  <1>2. covered' \in Nat /\ covered <= covered' /\ covered' <= Len(tape')
    BY <1>0, <1>1
  <1>3. NoNewGrant
    <2>1. ASSUME NEW r \in Sessions, NEW k \in Keys, Granting(work'[r], k)
          PROVE  Granting(work[r], k)
      <3>1. r # s
        BY <1>0, <1>1, <2>1 DEF Granting, Idle
      <3>2. work'[r] = work[r]
        BY <1>0, <1>1, <3>1
      <3> QED BY Zenon, <2>1, <3>2
    <2> QED BY Zenon, <1>1, <2>1 DEF NoNewGrant
  <1>4. InHand(Idle, s, Len(tape'), covered', claims')
    BY Zenon DEF InHand
  <1> QED BY Zenon, <1>0, <1>1, <1>2, <1>3, <1>4, OneGrantKept, SessionStep

\* What an answer says is decided against the rows it leaves.
LEMMA DispositionTold ==
    ASSUME TypeOK, [Next]_vars, NEW c, ControlFor(c, Len(tape)),
           IF Writes(Disposition(c), c) THEN StoreOperation(c) ELSE UNCHANGED vars
    PROVE  /\ Disposition(c) \in Dispositions /\ c.op \in Controls /\ c.key \in Keys
           /\ Disposition(c) = "granted" => claims[c.key] = NoClaim /\ claims'[c.key] # NoClaim
           /\ c.op = "record_activity_result_v1" /\ Disposition(c) \in {"recorded", "existing"}
              => claims'[c.key] # NoClaim /\ claims'[c.key].state = "recorded"
           /\ c.op = "claim_activity_v1" /\ claims[c.key] # NoClaim /\ claims[c.key].state = "recorded"
              => Disposition(c) \in {"recorded", "rejected"}
  <1>1. CASE c.op = "claim_activity_v1"
    <2>1. /\ Disposition(c) = ClaimDisposition(c.request) /\ c.key = c.request.key
          /\ c.key \in Keys /\ c.request.key \in Keys
      BY <1>1 DEF Disposition, ControlFor
    <2>2. ClaimDisposition(c.request) \in {"granted", "rejected", "recorded", "lease_expired", "pending"}
          /\ (ClaimDisposition(c.request) = "granted" => ~Claimed(c.key))
          /\ (Claimed(c.key) /\ Terminal(c.key) => ClaimDisposition(c.request) \in {"recorded", "rejected"})
      BY Zenon, <2>1 DEF ClaimDisposition
    <2>3. ASSUME Disposition(c) = "granted" PROVE claims'[c.key] # NoClaim
      <3>1. ClaimActivity(c.request)
        BY <1>1, <2>3 DEF Writes, StoreOperation
      <3>2. claims'[c.request.key].state = "granted"
        BY Zenon, <2>1, <3>1 DEF ClaimActivity, TypeOK
      <3> QED BY <2>1, <3>2 DEF NoClaim
    <2> QED BY SMTT(20), <1>1, <2>1, <2>2, <2>3 DEF Claimed, Terminal, Controls, Dispositions
  <1>2. CASE c.op = "record_activity_result_v1"
    <2> DEFINE d == ResultDisposition(c.key, c.activity, c.lease, c.outcome, c.evidence)
    <2>1. Disposition(c) = d /\ c.key \in Keys
      BY <1>2 DEF Disposition, ControlFor
    <2>2. /\ d \in {"rejected", "existing", "lease_expired", "recorded"}
          /\ d = "existing" => Claimed(c.key) /\ Terminal(c.key)
          /\ d = "recorded" => Claimed(c.key)
      BY Zenon DEF ResultDisposition
    <2>3. ASSUME d = "recorded" PROVE claims'[c.key] # NoClaim /\ claims'[c.key].state = "recorded"
      <3>1. RecordActivityResult(c.key, c.activity, c.lease, c.outcome, c.evidence)
        BY <1>2, <2>1, <2>3 DEF Writes, StoreOperation
      <3>2. claims'[c.key] # NoClaim
        BY Zenon, <2>1, <2>2, <2>3, RowsPersist
      <3>3. claims'[c.key] = [claims[c.key] EXCEPT !.state = "recorded",
                                !.outcome = c.outcome, !.evidence = c.evidence]
        BY Zenon, <2>1, <3>1 DEF RecordActivityResult, TypeOK
      <3>4. claims[c.key] \in StoredClaim
        BY Zenon, <2>1, <2>2, <2>3, RowType
      <3> QED BY <3>2, <3>3, <3>4 DEF StoredClaim
    <2>4. d = "existing" => claims'[c.key] # NoClaim /\ claims'[c.key].state = "recorded"
      BY Zenon, <2>1, <2>2, RowsPersist DEF Terminal
    <2> HIDE DEF d
    <2> QED BY Zenon, <1>2, <2>1, <2>2, <2>3, <2>4 DEF Controls, Dispositions
  <1>3. CASE c.op = "heartbeat_activity_v1"
    <2> DEFINE d == HeartbeatDisposition(c.key, c.activity, c.lease, c.heartbeat)
    <2>1. Disposition(c) = d /\ c.key \in Keys
      BY SMTT(20), <1>3 DEF Disposition, ControlFor
    <2>2. d \in {"rejected", "existing", "lease_expired", "recorded"}
      BY DEF HeartbeatDisposition
    <2> HIDE DEF d
    <2> QED BY Zenon, <1>3, <2>1, <2>2 DEF Controls, Dispositions
  <1> QED BY Zenon, <1>1, <1>2, <1>3 DEF ControlFor

\* An answer taking shape: if it grants its key, the row was free, so no other
\* answer grants it, written or on its way.
LEMMA ApplyStep ==
    ASSUME ServeInv, [Next]_vars, NEW s \in Sessions, ApplyControl(s)
    PROVE  ServeInv'
  <1> DEFINE c == work[s].control
             d == Disposition(c)
             a == [session |-> s, op |-> c.op, key |-> c.key, outcome |-> d, upto |-> Len(tape')]
             w == [pc |-> AfterStore(d), control |-> c, answer |-> a]
  <1>0. TypeOK /\ TypeOK' /\ covered \in Nat /\ covered <= Len(tape) /\ OneGrant
        /\ work = [r \in Sessions |-> work[r]] /\ answers \in Seq(Answer)
        /\ InHand(work[s], s, Len(tape), covered, claims)
    BY TypeStep DEF ServeInv
  <1>1. /\ work[s].pc = "apply" /\ answers' = answers /\ covered' = covered
        /\ work' = [work EXCEPT ![s] = w]
        /\ IF Writes(d, c) THEN StoreOperation(c) ELSE UNCHANGED vars
    BY Zenon DEF ApplyControl
  <1>2. ControlFor(c, Len(tape))
    BY <1>0, <1>1 DEF InHand, Idle
  <1>3. /\ d \in Dispositions /\ c.op \in Controls /\ c.key \in Keys
        /\ d = "granted" => claims[c.key] = NoClaim /\ claims'[c.key] # NoClaim
        /\ c.op = "record_activity_result_v1" /\ d \in {"recorded", "existing"}
           => claims'[c.key] # NoClaim /\ claims'[c.key].state = "recorded"
    BY Zenon, <1>0, <1>1, <1>2, DispositionTold
  <1>4. Len(tape) \in Nat /\ Len(tape') \in Nat /\ Len(tape) <= Len(tape')
    BY <1>0, LedgerGrows
  <1>5. covered' \in Nat /\ covered <= covered' /\ covered' <= Len(tape')
    BY <1>0, <1>1, <1>4
  <1>6. /\ a.session = s /\ a.op = c.op /\ a.key = c.key /\ a.outcome = d /\ a.upto = Len(tape')
        /\ w.pc = AfterStore(d) /\ w.control = c /\ w.answer = a
    BY Zenon
  <1>7. a \in Answer
    BY Zenon, <1>3, <1>4 DEF Answer
  <1>8. w.pc \in {"seal", "respond"} /\ (w.pc = "respond" => d = "rejected")
    BY Zenon, <1>6 DEF AfterStore
  <1> HIDE DEF c, d, a, w
  <1>9. Told(a, claims'[a.key])
    BY Zenon, <1>3, <1>6 DEF Told
  <1>10. Ready(w, s, Len(tape'), covered', claims')
    <2>1. a.upto <= Len(tape')
      BY <1>4, <1>6
    <2>2. w.pc = "respond" => Sealed(a, covered')
      BY <1>6, <1>8 DEF Sealed
    <2> QED BY Zenon, <1>6, <1>7, <1>9, <2>1, <2>2 DEF Ready
  <1>11. ControlFor(c, Len(tape'))
    <2>1. \A l \in 1 .. Len(tape) : l \in 1 .. Len(tape')
      BY <1>4
    <2> QED BY Zenon, <1>2, <2>1 DEF ControlFor
  <1>12. InHand(w, s, Len(tape'), covered', claims')
    BY Zenon, <1>6, <1>8, <1>10, <1>11 DEF InHand
  <1>13. /\ work'[s] = w /\ \A r \in Sessions : r # s => work'[r] = work[r]
    BY <1>0, <1>1
  <1>14. ASSUME NEW k \in Keys, claims[k] = NoClaim
         PROVE  /\ \A r \in Sessions : ~Granting(work[r], k)
                /\ \A i \in 1 .. Len(answers) : ~Granted(answers[i], k)
    <2>1. ASSUME NEW r \in Sessions, Granting(work[r], k) PROVE FALSE
      <3>1. Ready(work[r], r, Len(tape), covered, claims)
        BY <2>1 DEF ServeInv, InHand, Granting, Idle
      <3> QED BY Zenon, <1>14, <2>1, <3>1 DEF Ready, Told, Granting
    <2>2. ASSUME NEW i \in 1 .. Len(answers), Granted(answers[i], k) PROVE FALSE
      <3>1. Written(answers[i], covered, claims)
        BY Zenon DEF ServeInv
      <3> QED BY Zenon, <1>14, <2>2, <3>1 DEF Written, Told, Granted
    <2> QED BY Zenon, <2>1, <2>2
  <1>15. OneGrant'
    <2>1. CASE d = "granted"
      <3>1. claims[c.key] = NoClaim
        BY <1>3, <2>1
      <3>2. \A r \in Sessions : ~Granting(work[r], c.key)
        BY Zenon, <1>3, <1>14, <3>1
      <3>3. \A i \in 1 .. Len(answers) : ~Granted(answers[i], c.key)
        BY Zenon, <1>3, <1>14, <3>1
      <3>4. \A k \in Keys : Granting(w, k) => k = c.key
        BY Zenon, <1>6 DEF Granting
      <3>5. ASSUME NEW k \in Keys
            PROVE  /\ \A i, j \in 1 .. Len(answers) :
                         Granted(answers[i], k) /\ Granted(answers[j], k) => i = j
                   /\ \A i \in 1 .. Len(answers), r \in Sessions :
                         ~(Granted(answers[i], k) /\ Granting(work'[r], k))
                   /\ \A r, q \in Sessions : Granting(work'[r], k) /\ Granting(work'[q], k) => r = q
        <4>1. CASE k = c.key
          BY Zenon, <1>0, <1>13, <3>2, <3>3, <4>1 DEF OneGrant
        <4>2. CASE k # c.key
          <5>1. \A r \in Sessions : Granting(work'[r], k) => Granting(work[r], k)
            BY Zenon, <1>13, <3>4, <4>2
          <5> QED BY Zenon, <1>0, <5>1 DEF OneGrant
        <4> QED BY <4>1, <4>2
      <3> QED BY Zenon, <1>1, <3>5 DEF OneGrant
    <2>2. CASE d # "granted"
      <3>1. \A k \in Keys : ~Granting(w, k)
        BY <1>6, <2>2 DEF Granting
      <3>2. NoNewGrant
        BY Zenon, <1>1, <1>13, <3>1 DEF NoNewGrant
      <3> QED BY Zenon, <1>0, <3>2, OneGrantKept
    <2> QED BY <2>1, <2>2
  <1> QED BY Zenon, <1>1, <1>5, <1>12, <1>15, SessionStep

\* A written answer was on its way, sealed if its host is governed.
LEMMA WriteStep ==
    ASSUME ServeInv, [Next]_vars, NEW s \in Sessions, WriteDisposition(s)
    PROVE  ServeInv'
  <1> DEFINE a == work[s].answer
             n == Len(answers)
  <1>0. TypeOK /\ TypeOK' /\ covered \in Nat /\ covered <= Len(tape) /\ OneGrant
        /\ work = [r \in Sessions |-> work[r]] /\ answers \in Seq(Answer)
        /\ InHand(work[s], s, Len(tape), covered, claims)
    BY TypeStep DEF ServeInv
  <1>1. /\ work[s].pc = "respond" /\ answers' = Append(answers, a) /\ covered' = covered
        /\ work' = [work EXCEPT ![s] = Idle] /\ tape' = tape /\ claims' = claims
    BY Zenon DEF WriteDisposition, vars
  <1>2. Ready(work[s], s, Len(tape), covered, claims)
    BY <1>0, <1>1 DEF InHand, Idle
  <1>3. a \in Answer /\ Told(a, claims[a.key]) /\ Sealed(a, covered)
    BY Zenon, <1>1, <1>2 DEF Ready
  <1>4. /\ n \in Nat /\ answers' \in Seq(Answer) /\ Len(answers') = n + 1 /\ answers'[n + 1] = a
        /\ \A i \in 1 .. n : answers'[i] = answers[i]
        /\ \A i \in 1 .. (n + 1) : i \in 1 .. n \/ i = n + 1
    BY <1>0, <1>1, <1>3
  <1>5. \A i \in 1 .. Len(answers') : Written(answers'[i], covered', claims')
    BY Zenon, <1>1, <1>3, <1>4 DEF ServeInv, Written
  <1>6. /\ work' = [r \in Sessions |-> work'[r]] /\ work'[s] = Idle
        /\ \A r \in Sessions : r # s => work'[r] = work[r]
    BY Zenon, <1>0, <1>1
  <1>7. \A r \in Sessions : InHand(work'[r], r, Len(tape'), covered', claims')
    BY Zenon, <1>1, <1>6 DEF ServeInv, InHand
  <1> HIDE DEF n
  <1>8. \A k \in Keys : Granted(a, k) => Granting(work[s], k)
    BY <1>1 DEF Granted, Granting
  <1> HIDE DEF a
  <1>9. \A k \in Keys : ~Granting(work'[s], k)
    BY <1>6 DEF Granting, Idle
  <1>10. ASSUME NEW k \in Keys
         PROVE  /\ \A i, j \in 1 .. (n + 1) :
                      Granted(answers'[i], k) /\ Granted(answers'[j], k) => i = j
                /\ \A i \in 1 .. (n + 1), r \in Sessions :
                      ~(Granted(answers'[i], k) /\ Granting(work'[r], k))
                /\ \A r, q \in Sessions : Granting(work'[r], k) /\ Granting(work'[q], k) => r = q
    <2>1. /\ \A i, j \in 1 .. n : Granted(answers[i], k) /\ Granted(answers[j], k) => i = j
          /\ \A i \in 1 .. n, r \in Sessions : ~(Granted(answers[i], k) /\ Granting(work[r], k))
          /\ \A r, q \in Sessions : Granting(work[r], k) /\ Granting(work[q], k) => r = q
      BY Zenon, <1>0 DEF OneGrant, n
    <2>2. \A r \in Sessions : Granting(work'[r], k) => r # s /\ Granting(work[r], k)
      BY Zenon, <1>6, <1>9
    <2>3. \A i \in 1 .. (n + 1) : Granted(answers'[i], k) =>
              \/ i \in 1 .. n /\ Granted(answers[i], k)
              \/ i = n + 1 /\ Granting(work[s], k)
      BY Zenon, <1>4, <1>8
    <2> QED BY Zenon, <2>1, <2>2, <2>3
  <1>11. OneGrant'
    BY Zenon, <1>4, <1>10 DEF OneGrant
  <1> QED BY Zenon, <1>0, <1>1, <1>4, <1>5, <1>6, <1>7, <1>11 DEF ServeInv

\* Every step of the serve processes keeps ServeInv.
LEMMA ServeInvStep == ServeInv /\ [ServeNext]_<<vars, serveVars>> => ServeInv'
  <1> SUFFICES ASSUME ServeInv, [ServeNext]_<<vars, serveVars>> PROVE ServeInv'
    OBVIOUS
  <1>0. [Next]_vars
    BY ServeIsLedgerStep
  <1>1. ASSUME covered' = covered, work' = work, answers' = answers PROVE ServeInv'
    <2>1. TypeOK' /\ TypeOK /\ covered \in Nat /\ covered <= Len(tape) /\ answers \in Seq(Answer)
      BY <1>0, TypeStep DEF ServeInv
    <2>2. /\ Len(tape) \in Nat /\ Len(tape') \in Nat /\ Len(tape) <= Len(tape')
          /\ Gains(claims, claims')
      BY <1>0, <2>1, LedgerGrows
    <2>3. covered' <= Len(tape') /\ covered <= covered
      BY <1>1, <2>1, <2>2
    <2>4. ASSUME NEW r \in Sessions PROVE InHand(work[r], r, Len(tape'), covered, claims')
      <3>1. InHand(work[r], r, Len(tape), covered, claims)
        BY Zenon DEF ServeInv
      <3> QED BY <2>1, <2>2, <2>3, <3>1, InHandKept
    <2>5. ASSUME NEW i \in 1 .. Len(answers) PROVE Written(answers[i], covered, claims')
      <3>1. Written(answers[i], covered, claims) /\ answers[i] \in Answer
        BY <2>1 DEF ServeInv
      <3> QED BY <2>1, <2>2, <2>3, <3>1, WrittenKept
    <2>6. OneGrant'
      BY Zenon, <1>1 DEF ServeInv, OneGrant
    <2> QED BY Zenon, <1>1, <2>1, <2>3, <2>4, <2>5, <2>6 DEF ServeInv
  <1>2. ASSUME NEW s \in Sessions, NEW c, ReceiveControl(s, c),
               \/ c \in ClaimControls /\ c.key = c.request.key
               \/ c \in ResultControls \/ c \in HeartbeatControls
        PROVE  ServeInv'
    <2>1. ControlFor(c, Len(tape))
      BY <1>2 DEF ClaimControls, ResultControls, HeartbeatControls, ControlFor, Leases
    <2> QED BY <1>0, <1>2, <2>1, ReceiveStep
  <1>3. ASSUME NEW s \in Sessions,
               ApplyControl(s) \/ SealAnswer(s) \/ WriteDisposition(s) \/ Crash(s)
        PROVE  ServeInv'
    BY Zenon, <1>0, <1>3, ApplyStep, SealStep, WriteStep, CrashStep
  <1>4. CASE UNCHANGED <<vars, serveVars>>
    BY Zenon, <1>1, <1>4 DEF serveVars
  <1>5. CASE ServeTick
    BY Zenon, <1>1, <1>5 DEF ServeTick, serveVars
  <1>6. ASSUME NEW s \in Sessions,
               StartServe(s) \/ EndSession(s) \/ \E run \in Runs : Handshake(s, run)
        PROVE  ServeInv'
    BY Zenon, <1>1, <1>6 DEF StartServe, EndSession, Handshake
  <1> QED BY Zenon, <1>2, <1>3, <1>4, <1>5, <1>6 DEF ServeNext

\* Serving starts with nothing sealed, in hand or answered.
LEMMA ServeInvInit == ServeInit => ServeInv
  <1> SUFFICES ASSUME ServeInit PROVE ServeInv
    OBVIOUS
  <1>1. TypeOK /\ tape = <<>>
    BY DEF ServeInit, Init, TypeOK
  <1>2. /\ covered = 0 /\ work = [s \in Sessions |-> Idle] /\ answers = <<>>
    BY Zenon DEF ServeInit
  <1>3. answers \in Seq(Answer) /\ 1 .. Len(answers) = {} /\ covered \in Nat /\ covered <= Len(tape)
    BY <1>1, <1>2
  <1>4. \A s \in Sessions : InHand(work[s], s, Len(tape), covered, claims)
    BY <1>2 DEF InHand
  <1>5. OneGrant
    <2>1. \A s \in Sessions, k \in Keys : ~Granting(work[s], k)
      BY <1>2 DEF Granting, Idle
    <2> QED BY Zenon, <1>3, <2>1 DEF OneGrant
  <1>6. work = [s \in Sessions |-> work[s]]
    BY <1>2
  <1> QED BY <1>1, <1>3, <1>4, <1>5, <1>6 DEF ServeInv

\* However many serve processes open, race, crash in the middle of a control
\* and come back, the ledger they share is one the lease table alone could
\* have produced: each control is one store operation or none.  What is proved
\* of the lease table holds under `ledger serve'.
THEOREM ServeKeepsTheLedger == ServeSpec => Spec
  <1>1. ServeInit => Init
    BY DEF ServeInit
  <1> QED BY <1>1, ServeInvInit, ServeInvStep, ServeIsLedgerStep, PTL DEF ServeSpec, Spec

\* "Seal the configured governed run before reporting a control disposition",
\* for every number of sessions, of either kind: when a governed host reads a
\* disposition, every event it was decided from is under a signed checkpoint.
THEOREM GovernedAnswersAreSealed == ServeSpec => []AnswersAreSealed
  <1>1. ServeInv => AnswersAreSealed
    BY DEF ServeInv, Written, Sealed, AnswersAreSealed
  <1> QED BY <1>1, ServeInvInit, ServeInvStep, PTL DEF ServeSpec

\* What hosts are told of a key stands, for every number of sessions: one host
\* at most is ever told "granted", also when the answer of an earlier grant was
\* lost in a crash, and after a host has been told that its result is recorded
\* no claim is answered "pending" or "granted" again.
THEOREM ToldDispositionsStand == ServeSpec => DispositionsStand
  <1>1. ServeInv /\ ServeInv' /\ [ServeNext]_<<vars, serveVars>> =>
       [/\ \A i, j \in 1 .. Len(answers') :
            /\ answers'[i].outcome = "granted" /\ answers'[j].outcome = "granted"
            /\ answers'[i].key = answers'[j].key
            => i = j
       /\ \A s \in Sessions, i \in 1 .. Len(answers) :
            /\ answers[i].op = "record_activity_result_v1"
            /\ answers[i].outcome \in {"recorded", "existing"}
            /\ work[s].pc = "apply" /\ work'[s].pc \in {"seal", "respond"}
            /\ work[s].control.op = "claim_activity_v1"
            /\ work[s].control.key = answers[i].key
            => work'[s].answer.outcome \in {"recorded", "rejected"}]_<<vars, serveVars>>
    <2> SUFFICES ASSUME ServeInv, ServeInv', [ServeNext]_<<vars, serveVars>>
                 PROVE  /\ \A i, j \in 1 .. Len(answers') :
                            /\ answers'[i].outcome = "granted" /\ answers'[j].outcome = "granted"
                            /\ answers'[i].key = answers'[j].key
                            => i = j
                        /\ \A s \in Sessions, i \in 1 .. Len(answers) :
                            /\ answers[i].op = "record_activity_result_v1"
                            /\ answers[i].outcome \in {"recorded", "existing"}
                            /\ work[s].pc = "apply" /\ work'[s].pc \in {"seal", "respond"}
                            /\ work[s].control.op = "claim_activity_v1"
                            /\ work[s].control.key = answers[i].key
                            => work'[s].answer.outcome \in {"recorded", "rejected"}
      OBVIOUS
    <2>1. ASSUME NEW i \in 1 .. Len(answers'), NEW j \in 1 .. Len(answers'),
                 answers'[i].outcome = "granted", answers'[j].outcome = "granted",
                 answers'[i].key = answers'[j].key
          PROVE  i = j
      <3>1. answers'[i].key \in Keys
        BY AnswerFields DEF ServeInv
      <3>2. PICK k \in Keys : k = answers'[i].key
        BY <3>1
      <3>3. Granted(answers'[i], k) /\ Granted(answers'[j], k)
        BY Zenon, <2>1, <3>2 DEF Granted
      <3> QED BY Zenon, <3>3 DEF ServeInv, OneGrant
    <2>2. ASSUME NEW s \in Sessions, NEW i \in 1 .. Len(answers),
                 answers[i].op = "record_activity_result_v1",
                 answers[i].outcome \in {"recorded", "existing"},
                 work[s].pc = "apply", work'[s].pc \in {"seal", "respond"},
                 work[s].control.op = "claim_activity_v1",
                 work[s].control.key = answers[i].key
          PROVE  work'[s].answer.outcome \in {"recorded", "rejected"}
      <3> DEFINE c == work[s].control
      <3>0. work = [r \in Sessions |-> work[r]] /\ [Next]_vars /\ TypeOK
        BY ServeIsLedgerStep DEF ServeInv
      <3>1. ApplyControl(s)
        <4>1. work'[s] # work[s] /\ work'[s] # Idle /\ work[s] # Idle /\ work[s].pc # "seal"
              /\ work[s].pc # "respond"
          BY <2>2 DEF Idle
        <4>2. ASSUME NEW r \in Sessions, NEW w, work' = [work EXCEPT ![r] = w], r # s
              PROVE  FALSE
          BY <3>0, <4>1, <4>2
        <4>3. ~ServeTick /\ ~UNCHANGED <<vars, serveVars>>
          BY Zenon, <4>1 DEF ServeTick, serveVars
        <4>4. \A r \in Sessions : ~StartServe(r) /\ ~EndSession(r) /\ \A run \in Runs : ~Handshake(r, run)
          BY Zenon, <4>1 DEF StartServe, EndSession, Handshake
        <4>5. ASSUME NEW r \in Sessions, Crash(r) PROVE FALSE
          <5>1. r = s
            BY Zenon, <4>2, <4>5 DEF Crash
          <5> QED BY <3>0, <4>1, <4>5, <5>1 DEF Crash
        <4>6. ASSUME NEW r \in Sessions, NEW q, ReceiveControl(r, q) PROVE FALSE
          <5>1. r = s
            BY Zenon, <4>2, <4>6 DEF ReceiveControl
          <5> QED BY Zenon, <4>1, <4>6, <5>1 DEF ReceiveControl
        <4>7. ASSUME NEW r \in Sessions, SealAnswer(r) \/ WriteDisposition(r) PROVE FALSE
          <5>1. r = s
            BY Zenon, <4>2, <4>7 DEF SealAnswer, WriteDisposition
          <5> QED BY Zenon, <4>1, <4>7, <5>1 DEF SealAnswer, WriteDisposition
        <4>8. ASSUME NEW r \in Sessions, ApplyControl(r) PROVE r = s
          BY Zenon, <4>2, <4>8 DEF ApplyControl
        <4> QED BY Zenon, <4>3, <4>4, <4>5, <4>6, <4>7, <4>8 DEF ServeNext
      <3>2. ControlFor(c, Len(tape))
        BY <2>2 DEF ServeInv, InHand, Idle
      <3>3. IF Writes(Disposition(c), c) THEN StoreOperation(c) ELSE UNCHANGED vars
        BY Zenon, <3>1 DEF ApplyControl
      <3>4. claims[c.key] # NoClaim /\ claims[c.key].state = "recorded"
        <4>1. Told(answers[i], claims[answers[i].key])
          BY Zenon DEF ServeInv, Written
        <4> QED BY <2>2, <4>1 DEF Told
      <3>5. Disposition(c) \in {"recorded", "rejected"}
        BY <2>2, <3>0, <3>2, <3>3, <3>4, DispositionTold
      <3>6. work'[s].answer.outcome = Disposition(c)
        BY <3>0, <3>1 DEF ApplyControl
      <3> QED BY <3>5, <3>6
    <2> QED BY <2>1, <2>2
  <1> QED BY <1>1, ServeInvInit, ServeInvStep, PTL DEF ServeSpec, DispositionsStand
=============================================================================
