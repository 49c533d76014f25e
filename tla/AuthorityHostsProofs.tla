------------------------ MODULE AuthorityHostsProofs ------------------------
(***************************************************************************)
(* Whose answer a client of a protected host gets, what that answer is     *)
(* worth, and what the permits of the pooled host count, for any number of *)
(* clients, accounts, targets, workers, crashes and panics and for any     *)
(* limits.  Shaped says which thread holds what, Apart that no connection  *)
(* is in two hands, Backed that every settled status on its way to a       *)
(* client is backed by the ledger, and Counted that the permits count what *)
(* is held.                                                                *)
(***************************************************************************)
EXTENDS AuthorityHosts, FiniteSetTheorems, TLAPS

-----------------------------------------------------------------------------
(* The invariant *)

Job == [conn : Conns, worker : Workers]

ConnShape(x) == DOMAIN x = {"pc", "sent", "reply", "closed", "verdict"}
ThreadShape(x) ==
    /\ DOMAIN x = {"at", "conn", "got"}
    /\ \/ x.at \in {"recv", "gone"} /\ x.conn = none
       \/ x.at \in {"read", "wait", "write"} /\ x.conn \in Conns
    /\ x.at \in {"recv", "gone", "read"} => x.got = none

Shaped ==
    /\ conn = [c \in Conns |-> conn[c]] /\ \A c \in Conns : ConnShape(conn[c])
    /\ worker = [w \in Workers |-> worker[w]] /\ \A w \in Workers : ThreadShape(worker[w])
    /\ backlog \in Seq(Conns) /\ ingress \in Seq(Conns) /\ jobs \in Seq(Job)
    /\ owner \notin {none, dead} => owner.conn \in Conns
    /\ tape = [t \in {TargetOf[c] : c \in Conns} |-> tape[t]]

\* What a client builds on is in the ledger.
Backs(led, c, status) == status \in Settles => led[TargetOf[c]] = "sealed"
ReplyBacked(led, c, reply) == reply # none => reply.id = c /\ Backs(led, c, reply.status)
ThreadBacked(led, x) ==
    /\ x.at = "write" => Backs(led, x.conn, x.got)
    /\ x.at = "wait" /\ x.got # none =>
          x.got.conn = x.conn /\ Backs(led, x.conn, x.got.status)

Backed ==
    /\ \A c \in Conns : ReplyBacked(tape, c, conn[c].reply) /\ Backs(tape, c, conn[c].verdict)
    /\ \A w \in Workers : ThreadBacked(tape, worker[w])
    /\ owner \notin {none, dead} => Backs(tape, owner.conn, owner.status)

\* Nothing is asked of the ledger without a frame.
Framed ==
    /\ \A i \in DOMAIN jobs : conn[jobs[i].conn].sent # "nothing"
    /\ \A t \in DOMAIN tape :
          tape[t] # "none" => \E c \in Conns : TargetOf[c] = t /\ conn[c].sent # "nothing"

\* A connection waits, is queued, or is in the hands of one thread.
Once(q) == \A i, j \in DOMAIN q : q[i] = q[j] => i = j
Single == \A v, w \in Workers : worker[v].conn # none /\ worker[v].conn = worker[w].conn => v = w
Hands == {worker[w].conn : w \in Workers} \ {none}
Apart ==
    /\ Once(backlog) /\ Once(ingress)
    /\ Range(backlog) \cap Held = {} /\ Range(ingress) \cap Hands = {}
    /\ \A c \in Range(backlog) \cup Held : conn[c].pc # "idle"
    /\ Single

OfUid(u) == {c \in Held : UidOf[c] = u}
Counted ==
    /\ IsFiniteSet(Held)
    /\ endpoint = "admission" =>
        /\ DOMAIN inflight = {"total", "by"} /\ DOMAIN inflight.by = Uids
        /\ inflight.total = Cardinality(Held) /\ inflight.total <= MaxInFlight
        /\ \A u \in Uids : inflight.by[u] = Cardinality(OfUid(u)) /\ inflight.by[u] <= MaxPerUid

HInv == Shaped /\ Backed /\ Framed /\ Apart /\ Counted

-----------------------------------------------------------------------------
(* What a step may do to each part *)

ConnStep(c, x, y) ==
    /\ ConnShape(y)
    /\ x.sent # "nothing" => y.sent # "nothing"
    /\ x.pc # "idle" => y.pc # "idle"
    /\ y.reply = x.reply \/ ReplyBacked(tape', c, y.reply)
    /\ y.verdict = x.verdict \/ Backs(tape', c, y.verdict)
ConnSteps ==
    conn' = [c \in Conns |-> conn'[c]] /\ \A c \in Conns : ConnStep(c, conn[c], conn'[c])

TapeSteps ==
    /\ tape' = [t \in DOMAIN tape |-> tape'[t]]
    /\ \A t \in DOMAIN tape :
          /\ tape[t] = "sealed" => tape'[t] = "sealed"
          /\ tape'[t] = tape[t] \/ \E c \in Conns : TargetOf[c] = t /\ conn[c].sent # "nothing"

ThreadSteps ==
    /\ worker' = [w \in Workers |-> worker'[w]]
    /\ \A w \in Workers :
          \/ worker'[w] = worker[w]
          \/ ThreadShape(worker'[w]) /\ ThreadBacked(tape', worker'[w])

OwnerSteps ==
    \/ owner' \in {none, dead, owner}
    \/ owner'.conn \in Conns /\ Backs(tape', owner'.conn, owner'.status)

QueueSteps ==
    /\ backlog' \in Seq(Conns) /\ ingress' \in Seq(Conns) /\ jobs' \in Seq(Job)
    /\ \A i \in DOMAIN jobs' : \/ \E j \in DOMAIN jobs : jobs'[i] = jobs[j]
                              \/ conn[jobs'[i].conn].sent # "nothing"

\* The ledger never loses a sealed target, so what was backed stays backed.
LEMMA BacksStay ==
    ASSUME Shaped, TapeSteps, NEW c \in Conns, NEW status, Backs(tape, c, status)
    PROVE  Backs(tape', c, status)
  <1>1. TargetOf[c] \in DOMAIN tape
    BY Zenon DEF Shaped
  <1> QED BY Zenon, <1>1 DEF TapeSteps, Backs

\* Steps of these kinds keep every answer backed and framed.
LEMMA StepsKeep ==
    ASSUME Shaped, Backed, Framed, ConnSteps, TapeSteps, ThreadSteps, OwnerSteps, QueueSteps
    PROVE  Shaped' /\ Backed' /\ Framed'
  <1>1. ASSUME NEW c \in Conns
        PROVE  ReplyBacked(tape', c, conn'[c].reply) /\ Backs(tape', c, conn'[c].verdict)
    BY Zenon, BacksStay DEF Backed, ConnSteps, ConnStep, ReplyBacked
  <1>2. ASSUME NEW w \in Workers PROVE ThreadShape(worker'[w]) /\ ThreadBacked(tape', worker'[w])
    <2>1. ThreadShape(worker[w]) /\ ThreadBacked(tape, worker[w])
      BY Zenon DEF Shaped, Backed
    <2>2. worker[w].at \in {"write", "wait"} => worker[w].conn \in Conns
      BY <2>1 DEF ThreadShape
    <2>3. ThreadBacked(tape', worker[w])
      BY Zenon, <2>1, <2>2, BacksStay DEF ThreadBacked
    <2> QED BY Zenon, <2>1, <2>3 DEF ThreadSteps
  <1>3. owner' \notin {none, dead} => owner'.conn \in Conns /\ Backs(tape', owner'.conn, owner'.status)
    BY Zenon, BacksStay DEF OwnerSteps, Shaped, Backed
  <1>4. Backed'
    BY Zenon, <1>1, <1>2, <1>3 DEF Backed, dead
  <1>5. tape' = [t \in {TargetOf[c] : c \in Conns} |-> tape'[t]]
    BY Zenon DEF Shaped, TapeSteps
  <1>6. Shaped'
    BY Zenon, <1>2, <1>3, <1>5 DEF Shaped, ConnSteps, ConnStep, ThreadSteps, QueueSteps, dead
  <1>7. ASSUME NEW i \in DOMAIN jobs' PROVE conn'[jobs'[i].conn].sent # "nothing"
    <2>1. conn[jobs'[i].conn].sent # "nothing"
      <3>1. \/ \E j \in DOMAIN jobs : jobs'[i] = jobs[j]
            \/ conn[jobs'[i].conn].sent # "nothing"
        BY Zenon DEF QueueSteps
      <3> QED BY Zenon, <3>1 DEF Framed
    <2>2. jobs'[i].conn \in Conns
      <3>1. jobs' \in Seq(Job)
        BY Zenon DEF QueueSteps
      <3>2. jobs'[i] \in Job
        BY <3>1
      <3> QED BY <3>2 DEF Job
    <2> QED BY Zenon, <2>1, <2>2 DEF ConnSteps, ConnStep
  <1>8. ASSUME NEW t \in DOMAIN tape', tape'[t] # "none"
        PROVE  \E c \in Conns : TargetOf[c] = t /\ conn'[c].sent # "nothing"
    <2>1. t \in DOMAIN tape
      BY Zenon DEF TapeSteps
    <2>2. \E c \in Conns : TargetOf[c] = t /\ conn[c].sent # "nothing"
      BY Zenon, <1>8, <2>1 DEF TapeSteps, Framed
    <2> QED BY Zenon, <2>2 DEF ConnSteps, ConnStep
  <1>9. Framed'
    BY Zenon, <1>7, <1>8 DEF Framed
  <1> QED BY Zenon, <1>4, <1>6, <1>9

-----------------------------------------------------------------------------
(* The client's end and the host's end of a connection *)

\* A step that touches one connection.
LEMMA OneConn ==
    ASSUME Shaped, NEW c \in Conns, NEW next, conn' = [conn EXCEPT ![c] = next],
           ConnStep(c, conn[c], next)
    PROVE  ConnSteps /\ conn'[c] = next
  <1>1. ASSUME NEW d \in Conns PROVE ConnStep(d, conn[d], conn[d])
    BY Zenon DEF Shaped, ConnStep
  <1>2. DOMAIN conn = Conns
    BY Zenon DEF Shaped
  <1>3. conn'[c] = next /\ \A d \in Conns \ {c} : conn'[d] = conn[d]
    BY Zenon, <1>2
  <1>4. conn' = [d \in Conns |-> conn'[d]]
    BY Zenon, <1>2
  <1> QED BY Zenon, <1>1, <1>3, <1>4 DEF ConnSteps

\* Connections nobody touches.
LEMMA SameConn == ASSUME Shaped, conn' = conn PROVE ConnSteps
  BY Zenon DEF Shaped, ConnSteps, ConnStep

\* A closed connection tells its client nothing new (Closed).
LEMMA ClosedConn ==
    ASSUME Shaped, NEW c \in Conns, conn' = Closed(c)
    PROVE  ConnSteps
  <1> DEFINE next == [conn[c] EXCEPT !.closed = Open(c)]
  <1>1. ConnShape(conn[c]) /\ c \in DOMAIN conn
    BY Zenon DEF Shaped
  <1>2. /\ ConnShape(next) /\ next.sent = conn[c].sent /\ next.pc = conn[c].pc
        /\ next.reply = conn[c].reply /\ next.verdict = conn[c].verdict
    BY Zenon, <1>1 DEF ConnShape
  <1>3. conn' = [conn EXCEPT ![c] = next]
    BY Zenon, <1>1 DEF Closed
  <1> HIDE DEF next
  <1>4. ConnStep(c, conn[c], next)
    BY Zenon, <1>2 DEF ConnStep
  <1> QED BY Zenon, <1>3, <1>4, OneConn

\* An answer reaches only a client that still waits, and is its own (Answered).
LEMMA AnsweredConn ==
    ASSUME Shaped, NEW c \in Conns, NEW reply, ReplyBacked(tape', c, reply),
           conn' = Answered(c, reply)
    PROVE  ConnSteps
  <1> DEFINE next == [conn[c] EXCEPT !.closed = TRUE, !.reply = reply]
  <1>1. ConnShape(conn[c]) /\ c \in DOMAIN conn
    BY Zenon DEF Shaped
  <1>2. /\ ConnShape(next) /\ next.sent = conn[c].sent /\ next.pc = conn[c].pc
        /\ next.reply = reply /\ next.verdict = conn[c].verdict
    BY Zenon, <1>1 DEF ConnShape
  <1>3. conn' = conn \/ conn' = [conn EXCEPT ![c] = next]
    <2>1. conn' = conn \/ conn' = [[conn EXCEPT ![c].closed = TRUE] EXCEPT ![c].reply = reply]
      BY Zenon DEF Answered
    <2>2. [[conn EXCEPT ![c].closed = TRUE] EXCEPT ![c].reply = reply] = [conn EXCEPT ![c] = next]
      BY Zenon, <1>1
    <2> QED BY Zenon, <2>1, <2>2
  <1> HIDE DEF next
  <1>4. ConnStep(c, conn[c], next)
    BY Zenon, <1>2 DEF ConnStep
  <1> QED BY Zenon, <1>3, <1>4, OneConn, SameConn

\* The client ends its exchange with a verdict it may hold (Ended).
LEMMA EndedConn ==
    ASSUME Shaped, NEW c \in Conns, NEW verdict, Backs(tape', c, verdict),
           conn' = [conn EXCEPT ![c] = Ended(c, verdict)]
    PROVE  ConnSteps
  <1> DEFINE next == Ended(c, verdict)
  <1>1. ConnShape(conn[c])
    BY Zenon DEF Shaped
  <1>2. /\ ConnShape(next) /\ next.sent = conn[c].sent /\ next.pc = "ended"
        /\ next.reply = none /\ next.verdict = verdict
    BY Zenon, <1>1 DEF ConnShape, Ended
  <1> HIDE DEF next
  <1>3. ReplyBacked(tape', c, none)
    BY Zenon DEF ReplyBacked
  <1>4. ConnStep(c, conn[c], next)
    BY Zenon, <1>2, <1>3 DEF ConnStep
  <1> QED BY Zenon, <1>4, OneConn DEF next

\* What stays is a step of its kind.
LEMMA Same ==
    ASSUME Shaped
    PROVE  /\ tape' = tape => TapeSteps
           /\ worker' = worker => ThreadSteps
           /\ owner' = owner => OwnerSteps
           /\ jobs' = jobs /\ ingress' = ingress /\ backlog' = backlog => QueueSteps
  <1>1. tape' = tape => TapeSteps
    BY Zenon DEF Shaped, TapeSteps
  <1>2. worker' = worker => ThreadSteps
    BY Zenon DEF Shaped, ThreadSteps
  <1>3. owner' = owner => OwnerSteps
    BY Zenon DEF OwnerSteps
  <1>4. jobs' = jobs /\ ingress' = ingress /\ backlog' = backlog => QueueSteps
    BY Zenon DEF Shaped, QueueSteps
  <1> QED BY Zenon, <1>1, <1>2, <1>3, <1>4

-----------------------------------------------------------------------------
(* Who holds a connection *)

\* What a queue holds, gains and loses.
LEMMA QueueHolds == ASSUME NEW S, NEW q \in Seq(S) PROVE Range(q) \subseteq S
  <1>1. \A i \in DOMAIN q : q[i] \in S
    OBVIOUS
  <1> QED BY Zenon, <1>1 DEF Range

LEMMA QueueGains ==
    ASSUME NEW S, NEW q \in Seq(S), NEW e \in S
    PROVE  /\ Append(q, e) \in Seq(S) /\ Range(Append(q, e)) = Range(q) \cup {e}
           /\ Once(q) /\ e \notin Range(q) => Once(Append(q, e))
  <1> DEFINE r == Append(q, e)
             n == Len(q) + 1
  <1>1. /\ r \in Seq(S) /\ DOMAIN r = DOMAIN q \cup {n} /\ r[n] = e
        /\ \A i \in DOMAIN q : r[i] = q[i]
    OBVIOUS
  <1> HIDE DEF r, n
  <1>2. Range(r) = Range(q) \cup {e}
    BY Zenon, <1>1 DEF Range
  <1>3. Once(q) /\ e \notin Range(q) => Once(r)
    BY Zenon, <1>1 DEF Once, Range
  <1> QED BY Zenon, <1>1, <1>2, <1>3 DEF r

LEMMA QueueLoses ==
    ASSUME NEW S, NEW q \in Seq(S), q # <<>>
    PROVE  /\ Tail(q) \in Seq(S) /\ Head(q) \in S /\ Range(q) = Range(Tail(q)) \cup {Head(q)}
           /\ Once(q) => Once(Tail(q)) /\ Head(q) \notin Range(Tail(q))
  <1> DEFINE r == Tail(q)
  <1>1. r \in Seq(S) /\ Head(q) \in S /\ 1 \in DOMAIN q /\ Head(q) = q[1]
    OBVIOUS
  <1>2. \A i \in DOMAIN r : \E j \in DOMAIN q \ {1} : r[i] = q[j]
    <2> SUFFICES ASSUME NEW i \in DOMAIN r PROVE \E j \in DOMAIN q \ {1} : r[i] = q[j]
      OBVIOUS
    <2>1. i + 1 \in DOMAIN q \ {1} /\ r[i] = q[i + 1]
      OBVIOUS
    <2> QED BY Zenon, <2>1
  <1>3. \A j \in DOMAIN q \ {1} : \E i \in DOMAIN r : r[i] = q[j]
    <2> SUFFICES ASSUME NEW j \in DOMAIN q \ {1} PROVE \E i \in DOMAIN r : r[i] = q[j]
      OBVIOUS
    <2>1. j - 1 \in DOMAIN r /\ r[j - 1] = q[j]
      OBVIOUS
    <2> QED BY Zenon, <2>1
  <1>4. Once(q) => Once(r)
    <2> SUFFICES ASSUME Once(q), NEW i \in DOMAIN r, NEW j \in DOMAIN r, r[i] = r[j] PROVE i = j
      BY Zenon DEF Once
    <2>1. i + 1 \in DOMAIN q /\ j + 1 \in DOMAIN q /\ q[i + 1] = q[j + 1]
      OBVIOUS
    <2>2. i + 1 = j + 1
      BY Zenon, <2>1 DEF Once
    <2> QED BY <2>2
  <1> HIDE DEF r
  <1>5. Range(q) = Range(r) \cup {Head(q)}
    <2>1. ASSUME NEW e \in Range(q) PROVE e \in Range(r) \cup {Head(q)}
      BY Zenon, <1>1, <1>3 DEF Range
    <2>2. ASSUME NEW e \in Range(r) PROVE e \in Range(q)
      BY Zenon, <1>2 DEF Range
    <2>3. Head(q) \in Range(q)
      BY Zenon, <1>1 DEF Range
    <2> QED BY Zenon, <2>1, <2>2, <2>3
  <1>6. Once(q) => Head(q) \notin Range(r)
    BY Zenon, <1>1, <1>2 DEF Once, Range
  <1> QED BY Zenon, <1>1, <1>4, <1>5, <1>6 DEF r

\* A connection is held through the ingress queue or by a thread.
LEMMA HeldIs ==
    Held = Range(ingress) \cup Hands /\ Held' = Range(ingress') \cup Hands'
  <1>1. UNION {HeldBy(w) : w \in Workers} = Hands
    BY DEF HeldBy, Hands
  <1>2. UNION {HeldBy(w)' : w \in Workers} = Hands'
    BY DEF HeldBy, Hands
  <1> QED BY Zenon, <1>1, <1>2 DEF Held, Range

\* Only connections are held, and only connections wait.
LEMMA HeldConns ==
    ASSUME HostConstants, Shaped
    PROVE  Held \subseteq Conns /\ Range(backlog) \subseteq Conns /\ none \notin Range(ingress)
  <1>1. Range(backlog) \subseteq Conns /\ Range(ingress) \subseteq Conns
    BY Zenon, QueueHolds DEF Shaped
  <1>2. \A w \in Workers : worker[w].conn = none \/ worker[w].conn \in Conns
    BY Zenon DEF Shaped, ThreadShape
  <1>3. Hands \subseteq Conns
    BY Zenon, <1>2 DEF Hands
  <1> QED BY Zenon, <1>1, <1>3, HeldIs DEF HostConstants

\* What the steps below have in common.
Stays == HostConstants /\ Shaped /\ Apart /\ Counted /\ ConnSteps /\ endpoint' = endpoint

\* Nobody who has connected is new again.
LEMMA NotIdle ==
    ASSUME Stays, NEW c \in Range(backlog) \cup Held PROVE conn'[c].pc # "idle"
  <1>1. c \in Conns /\ conn[c].pc # "idle"
    BY Zenon, HeldConns DEF Stays, Apart
  <1> QED BY Zenon, <1>1 DEF Stays, ConnSteps, ConnStep

\* Nothing changes hands.
LEMMA NothingMoves ==
    ASSUME Stays, backlog' = backlog, ingress' = ingress, inflight' = inflight,
           \A w \in Workers : worker'[w].conn = worker[w].conn
    PROVE  Apart' /\ Counted'
  <1>1. Hands' = Hands
    BY Zenon DEF Hands
  <1>2. Held' = Held
    BY Zenon, <1>1, HeldIs
  <1>3. Apart'
    BY Zenon, <1>1, <1>2, NotIdle DEF Stays, Apart, Single
  <1>4. Counted'
    BY Zenon, <1>2 DEF Stays, Counted, OfUid
  <1> QED BY <1>3, <1>4

\* One more connection, one more permit (try_acquire_in_flight).
LEMMA CountGain ==
    ASSUME HostConstants, Counted, endpoint = "admission", endpoint' = endpoint,
           NEW c \in Conns, c \notin Held, Held' = Held \cup {c},
           inflight' = Acquired(inflight, UidOf[c]),
           inflight.total < MaxInFlight, inflight.by[UidOf[c]] < MaxPerUid
    PROVE  Counted'
  <1> DEFINE o == UidOf[c]
  <1>1. /\ IsFiniteSet(Held) /\ DOMAIN inflight = {"total", "by"} /\ DOMAIN inflight.by = Uids
        /\ inflight.total = Cardinality(Held)
        /\ \A u \in Uids : inflight.by[u] = Cardinality(OfUid(u)) /\ inflight.by[u] <= MaxPerUid
    BY Zenon DEF Counted
  <1>2. o \in Uids
    BY Zenon DEF Uids
  <1>3. /\ DOMAIN inflight' = {"total", "by"} /\ inflight'.total = inflight.total + 1
        /\ DOMAIN inflight'.by = Uids /\ inflight'.by[o] = inflight.by[o] + 1
        /\ \A u \in Uids \ {o} : inflight'.by[u] = inflight.by[u]
    BY Zenon, <1>1, <1>2 DEF Acquired
  <1>4. IsFiniteSet(Held') /\ Cardinality(Held') = Cardinality(Held) + 1
    BY Zenon, <1>1, FS_AddElement
  <1>5. OfUid(o)' = OfUid(o) \cup {c} /\ \A u \in Uids \ {o} : OfUid(u)' = OfUid(u)
    BY Zenon DEF OfUid
  <1>6. IsFiniteSet(OfUid(o)) /\ c \notin OfUid(o)
    BY Zenon, <1>1, FS_Subset DEF OfUid
  <1>7. Cardinality(OfUid(o)') = Cardinality(OfUid(o)) + 1
    BY Zenon, <1>5, <1>6, FS_AddElement
  <1>8. Cardinality(Held) \in Nat /\ Cardinality(OfUid(o)) \in Nat
    BY Zenon, <1>1, <1>6, FS_CardinalityType
  <1>9. inflight'.total <= MaxInFlight /\ inflight'.by[o] <= MaxPerUid
    BY <1>1, <1>2, <1>3, <1>8 DEF HostConstants
  <1>10. \A u \in Uids : inflight'.by[u] = Cardinality(OfUid(u)') /\ inflight'.by[u] <= MaxPerUid
    BY Zenon, <1>1, <1>2, <1>3, <1>5, <1>7, <1>9
  <1>11. Uids' = Uids
    BY Zenon DEF Uids
  <1> QED BY Zenon, <1>1, <1>3, <1>4, <1>9, <1>10, <1>11 DEF Counted

\* One connection less, one permit less (InFlightPermit::drop).
LEMMA CountLoss ==
    ASSUME HostConstants, Counted, endpoint = "admission", endpoint' = endpoint,
           NEW c \in Conns, c \in Held, Held' = Held \ {c},
           inflight' = InFlightPermit_drop(inflight, UidOf[c])
    PROVE  Counted'
  <1> DEFINE o == UidOf[c]
  <1>1. /\ IsFiniteSet(Held) /\ DOMAIN inflight = {"total", "by"} /\ DOMAIN inflight.by = Uids
        /\ inflight.total = Cardinality(Held) /\ inflight.total <= MaxInFlight
        /\ \A u \in Uids : inflight.by[u] = Cardinality(OfUid(u)) /\ inflight.by[u] <= MaxPerUid
    BY Zenon DEF Counted
  <1>2. o \in Uids
    BY Zenon DEF Uids
  <1>3. /\ DOMAIN inflight' = {"total", "by"} /\ inflight'.total = inflight.total - 1
        /\ DOMAIN inflight'.by = Uids /\ inflight'.by[o] = inflight.by[o] - 1
        /\ \A u \in Uids \ {o} : inflight'.by[u] = inflight.by[u]
    BY Zenon, <1>1, <1>2 DEF InFlightPermit_drop
  <1>4. IsFiniteSet(Held') /\ Cardinality(Held') = Cardinality(Held) - 1
    BY Zenon, <1>1, FS_RemoveElement
  <1>5. OfUid(o)' = OfUid(o) \ {c} /\ \A u \in Uids \ {o} : OfUid(u)' = OfUid(u)
    BY Zenon DEF OfUid
  <1>6. IsFiniteSet(OfUid(o)) /\ c \in OfUid(o)
    BY Zenon, <1>1, FS_Subset DEF OfUid
  <1>7. Cardinality(OfUid(o)') = Cardinality(OfUid(o)) - 1
    BY Zenon, <1>5, <1>6, FS_RemoveElement
  <1>8. Cardinality(Held) \in Nat /\ Cardinality(OfUid(o)) \in Nat
    BY Zenon, <1>1, <1>6, FS_CardinalityType
  <1>9. inflight'.total <= MaxInFlight /\ inflight'.by[o] <= MaxPerUid
    BY <1>1, <1>2, <1>3, <1>8 DEF HostConstants
  <1>10. \A u \in Uids : inflight'.by[u] = Cardinality(OfUid(u)') /\ inflight'.by[u] <= MaxPerUid
    BY Zenon, <1>1, <1>2, <1>3, <1>5, <1>7, <1>9
  <1>11. Uids' = Uids
    BY Zenon DEF Uids
  <1> QED BY Zenon, <1>1, <1>3, <1>4, <1>9, <1>10, <1>11 DEF Counted

\* A host that serves one connection after the other has no permits.
LEMMA CountElsewhere ==
    ASSUME endpoint # "admission", endpoint' = endpoint, IsFiniteSet(Held') PROVE Counted'
  BY Zenon DEF Counted

\* A client joins the backlog.
LEMMA Joins ==
    ASSUME Stays, NEW c \in Conns, conn[c].pc = "idle", conn'[c].pc # "idle",
           backlog' = Append(backlog, c), ingress' = ingress, inflight' = inflight,
           worker' = worker
    PROVE  Apart' /\ Counted'
  <1>1. Hands' = Hands /\ Held' = Held
    BY Zenon, HeldIs DEF Hands
  <1>2. backlog \in Seq(Conns) /\ c \notin Range(backlog) \cup Held
    BY Zenon DEF Stays, Shaped, Apart
  <1>3. Once(backlog') /\ Range(backlog') = Range(backlog) \cup {c}
    BY Zenon, <1>2, QueueGains DEF Stays, Apart
  <1>4. Apart'
    BY Zenon, <1>1, <1>2, <1>3, NotIdle DEF Stays, Apart, Single
  <1>5. Counted'
    BY Zenon, <1>1 DEF Stays, Counted, OfUid
  <1> QED BY <1>4, <1>5

\* A connection is turned away.
LEMMA TurnedAway ==
    ASSUME Stays, backlog # <<>>, backlog' = Tail(backlog), ingress' = ingress,
           inflight' = inflight, worker' = worker
    PROVE  Apart' /\ Counted'
  <1>1. Hands' = Hands /\ Held' = Held
    BY Zenon, HeldIs DEF Hands
  <1>2. Once(backlog') /\ Range(backlog') \subseteq Range(backlog)
    <2>1. backlog \in Seq(Conns) /\ Once(backlog)
      BY Zenon DEF Stays, Shaped, Apart
    <2> QED BY Zenon, <2>1, QueueLoses
  <1>3. Apart'
    BY Zenon, <1>1, <1>2, NotIdle DEF Stays, Apart, Single
  <1>4. Counted'
    BY Zenon, <1>1 DEF Stays, Counted, OfUid
  <1> QED BY <1>3, <1>4

\* One thread changes.
LEMMA OneThread ==
    ASSUME Shaped, NEW w \in Workers, NEW next, Host(w, next)
    PROVE  /\ worker' = [v \in Workers |-> worker'[v]] /\ worker'[w] = next
           /\ \A v \in Workers \ {w} : worker'[v] = worker[v]
  BY Zenon DEF Host, Shaped

\* A free thread takes a connection nobody holds.
LEMMA HandGains ==
    ASSUME HostConstants, Shaped, Single, NEW w \in Workers, NEW next, Host(w, next),
           worker[w].conn = none, next.conn \in Conns, next.conn \notin Hands
    PROVE  Hands' = Hands \cup {next.conn} /\ Single'
  <1>1. worker'[w] = next /\ \A v \in Workers \ {w} : worker'[v] = worker[v]
    BY Zenon, OneThread
  <1>2. next.conn # none
    BY Zenon DEF HostConstants
  <1>3. ASSUME NEW c \in Hands' PROVE c \in Hands \cup {next.conn}
    BY Zenon, <1>1 DEF Hands
  <1>4. ASSUME NEW c \in Hands PROVE c \in Hands'
    BY Zenon, <1>1 DEF Hands
  <1>5. next.conn \in Hands'
    BY Zenon, <1>1, <1>2 DEF Hands
  <1>6. \A v \in Workers \ {w} : worker[v].conn # next.conn
    BY Zenon, <1>2 DEF Hands
  <1>7. ASSUME NEW u \in Workers, NEW v \in Workers, worker'[u].conn # none,
               worker'[u].conn = worker'[v].conn
        PROVE  u = v
    <2>1. CASE u = w BY Zenon, <1>1, <1>6, <1>7, <2>1
    <2>2. CASE v = w BY Zenon, <1>1, <1>6, <1>7, <2>2
    <2>3. CASE u # w /\ v # w BY Zenon, <1>1, <1>7, <2>3 DEF Single
    <2> QED BY Zenon, <2>1, <2>2, <2>3
  <1>8. Single'
    BY Zenon, <1>7 DEF Single
  <1> QED BY Zenon, <1>3, <1>4, <1>5, <1>8

\* A thread lets go of its connection.
LEMMA HandLoses ==
    ASSUME HostConstants, Shaped, Single, NEW w \in Workers, NEW next, Host(w, next),
           worker[w].conn \in Conns, next.conn = none
    PROVE  /\ worker[w].conn \in Hands
           /\ Hands' = Hands \ {worker[w].conn} /\ Single'
  <1>1. worker'[w] = next /\ \A v \in Workers \ {w} : worker'[v] = worker[v]
    BY Zenon, OneThread
  <1>2. worker[w].conn # none
    BY Zenon DEF HostConstants
  <1>3. ASSUME NEW c \in Hands' PROVE c \in Hands /\ c # worker[w].conn
    <2>1. PICK v \in Workers : c = worker'[v].conn /\ c # none
      BY Zenon DEF Hands
    <2>2. v # w /\ c = worker[v].conn
      BY Zenon, <1>1, <2>1
    <2> QED BY Zenon, <2>1, <2>2 DEF Hands, Single
  <1>4. ASSUME NEW c \in Hands, c # worker[w].conn PROVE c \in Hands'
    <2>1. PICK v \in Workers : c = worker[v].conn /\ c # none
      BY Zenon DEF Hands
    <2>2. v # w /\ c = worker'[v].conn
      BY Zenon, <1>1, <1>4, <2>1
    <2> QED BY Zenon, <2>1, <2>2 DEF Hands
  <1>5. Single'
    BY Zenon, <1>1 DEF Single
  <1>6. worker[w].conn \in Hands
    BY Zenon, <1>2 DEF Hands
  <1> QED BY Zenon, <1>3, <1>4, <1>5, <1>6

\* A permit is granted and the connection queued.
LEMMA Admits ==
    ASSUME Stays, endpoint = "admission", backlog # <<>>, backlog' = Tail(backlog),
           ingress' = Append(ingress, Head(backlog)), worker' = worker,
           inflight' = Acquired(inflight, UidOf[Head(backlog)]),
           inflight.total < MaxInFlight, inflight.by[UidOf[Head(backlog)]] < MaxPerUid
    PROVE  Apart' /\ Counted'
  <1> DEFINE c == Head(backlog)
  <1>1. backlog \in Seq(Conns) /\ ingress \in Seq(Conns)
    BY Zenon DEF Stays, Shaped
  <1>2. /\ c \in Conns /\ Range(backlog) = Range(backlog') \cup {c}
        /\ Once(backlog') /\ c \notin Range(backlog')
    BY Zenon, <1>1, QueueLoses DEF Stays, Apart
  <1>3. c \notin Held
    BY Zenon, <1>2 DEF Stays, Apart
  <1>4. Range(ingress') = Range(ingress) \cup {c} /\ Once(ingress')
    <2> HIDE DEF c
    <2>1. c \notin Range(ingress) /\ Once(ingress) /\ ingress \in Seq(Conns) /\ c \in Conns
      BY Zenon, <1>1, <1>2, <1>3, HeldIs DEF Stays, Apart
    <2>2. Range(Append(ingress, c)) = Range(ingress) \cup {c} /\ Once(Append(ingress, c))
      BY SMTT(20), <2>1, QueueGains
    <2> USE DEF c
    <2> QED BY Zenon, <2>2
  <1>5. Hands' = Hands
    BY Zenon DEF Hands
  <1> HIDE DEF c
  <1>6. Held' = Held \cup {c}
    BY Zenon, <1>4, <1>5, HeldIs
  <1>7. Range(backlog') \cap Held' = {} /\ Range(ingress') \cap Hands' = {}
    BY Zenon, <1>2, <1>3, <1>4, <1>5, <1>6, HeldIs DEF Stays, Apart
  <1>8. \A d \in Range(backlog') \cup Held' : conn'[d].pc # "idle"
    BY Zenon, <1>2, <1>6, NotIdle
  <1>9. Apart'
    <2>1. Single'
      BY Zenon DEF Stays, Apart, Single
    <2> QED BY Zenon, <1>2, <1>4, <1>7, <1>8, <2>1 DEF Apart
  <1>10. Counted'
    BY Zenon, <1>2, <1>3, <1>6, CountGain DEF Stays, c
  <1> QED BY <1>9, <1>10

\* A thread of the pool takes the next queued connection.
LEMMA PoolTakes ==
    ASSUME Stays, NEW w \in Workers, NEW next, Host(w, next), worker[w].conn = none,
           ingress # <<>>, next.conn = Head(ingress), ingress' = Tail(ingress),
           backlog' = backlog, inflight' = inflight
    PROVE  Apart' /\ Counted'
  <1> DEFINE c == Head(ingress)
  <1>1. ingress \in Seq(Conns) /\ Once(ingress) /\ Single
    BY Zenon DEF Stays, Shaped, Apart
  <1>2. /\ c \in Conns /\ Range(ingress) = Range(ingress') \cup {c}
        /\ Once(ingress') /\ c \notin Range(ingress')
    BY Zenon, <1>1, QueueLoses
  <1>3. c \notin Hands
    BY Zenon, <1>2 DEF Stays, Apart
  <1>4. Hands' = Hands \cup {c} /\ Single'
    BY Zenon, <1>1, <1>2, <1>3, HandGains DEF Stays
  <1> HIDE DEF c
  <1>5. Held' = Held
    BY Zenon, <1>2, <1>4, HeldIs
  <1>6. Range(ingress') \cap Hands' = {}
    BY Zenon, <1>2, <1>3, <1>4 DEF Stays, Apart
  <1>7. Apart'
    BY Zenon, <1>2, <1>4, <1>5, <1>6, NotIdle DEF Stays, Apart
  <1>8. Counted'
    BY Zenon, <1>5 DEF Stays, Counted, OfUid
  <1> QED BY Zenon, <1>7, <1>8

\* A host without a pool takes a connection from the backlog.
LEMMA LoneTakes ==
    ASSUME Stays, endpoint # "admission", NEW w \in Workers, NEW next, Host(w, next),
           worker[w].conn = none, backlog # <<>>, next.conn = Head(backlog),
           backlog' = Tail(backlog), ingress' = ingress
    PROVE  Apart' /\ Counted'
  <1> DEFINE c == Head(backlog)
  <1>1. backlog \in Seq(Conns) /\ Once(backlog) /\ Single
    BY Zenon DEF Stays, Shaped, Apart
  <1>2. /\ c \in Conns /\ Range(backlog) = Range(backlog') \cup {c}
        /\ Once(backlog') /\ c \notin Range(backlog')
    BY Zenon, <1>1, QueueLoses
  <1>3. c \notin Held
    BY Zenon, <1>2 DEF Stays, Apart
  <1>4. c \notin Hands /\ c \notin Range(ingress)
    BY Zenon, <1>3, HeldIs
  <1>5. Hands' = Hands \cup {c} /\ Single'
    BY Zenon, <1>1, <1>2, <1>4, HandGains DEF Stays
  <1> HIDE DEF c
  <1>6. Held' = Held \cup {c}
    BY Zenon, <1>5, HeldIs
  <1>7. Range(backlog') \cap Held' = {} /\ Range(ingress') \cap Hands' = {}
    BY Zenon, <1>2, <1>3, <1>4, <1>5, <1>6 DEF Stays, Apart
  <1>8. \A d \in Range(backlog') \cup Held' : conn'[d].pc # "idle"
    BY Zenon, <1>2, <1>6, NotIdle
  <1>9. Apart'
    <2>1. Once(ingress')
      BY Zenon DEF Stays, Apart
    <2> QED BY Zenon, <1>2, <1>5, <1>7, <1>8, <2>1 DEF Apart
  <1>10. Counted'
    <2>1. IsFiniteSet(Held')
      BY Zenon, <1>6, FS_AddElement DEF Stays, Counted
    <2> QED BY Zenon, <2>1, CountElsewhere DEF Stays
  <1> QED BY Zenon, <1>9, <1>10

\* A thread lets go of its connection, and with it of the permit it had.
LEMMA GivesBack ==
    ASSUME Stays, NEW w \in Workers, NEW next, Host(w, next),
           worker[w].conn \in Conns, next.conn = none, backlog' = backlog, ingress' = ingress,
           endpoint = "admission" => inflight' = InFlightPermit_drop(inflight, UidOf[worker[w].conn])
    PROVE  Apart' /\ Counted'
  <1> DEFINE c == worker[w].conn
  <1>1. Single
    BY Zenon DEF Stays, Apart
  <1>2. c \in Hands /\ Hands' = Hands \ {c} /\ Single'
    BY Zenon, <1>1, HandLoses DEF Stays
  <1>3. c \in Held /\ c \notin Range(ingress)
    BY Zenon, <1>2, HeldIs DEF Stays, Apart
  <1>4. Held' = Held \ {c}
    BY Zenon, <1>2, <1>3, HeldIs
  <1> HIDE DEF c
  <1>5. Range(backlog') \cap Held' = {} /\ Range(ingress') \cap Hands' = {}
    BY Zenon, <1>2, <1>4 DEF Stays, Apart
  <1>6. Apart'
    <2>1. Once(ingress') /\ Once(backlog')
      BY Zenon DEF Stays, Apart
    <2>2. \A d \in Range(backlog') \cup Held' : conn'[d].pc # "idle"
      BY Zenon, <1>4, NotIdle
    <2> QED BY Zenon, <1>2, <1>5, <2>1, <2>2 DEF Apart
  <1>7. Counted'
    <2>1. CASE endpoint = "admission"
      BY Zenon, <1>3, <1>4, <2>1, CountLoss DEF Stays, c
    <2>2. CASE endpoint # "admission"
      <3>1. IsFiniteSet(Held')
        BY Zenon, <1>4, FS_RemoveElement DEF Stays, Counted
      <3> QED BY Zenon, <2>2, <3>1, CountElsewhere DEF Stays
    <2> QED BY Zenon, <2>1, <2>2
  <1> QED BY Zenon, <1>6, <1>7

-----------------------------------------------------------------------------
(* What a mutation answers *)

\* A sealed target stays sealed, and a settled answer is given for nothing else.
Honest(o, was) == (o.status \in Settles \/ was = "sealed") => o.left = "sealed"

\* A failure leaves at least what was there.
LEMMA UnsettledHonest ==
    ASSUME NEW was, NEW status, status \notin Settles, NEW o \in Unsettled(status, was)
    PROVE  Honest(o, was)
  <1>1. PICK left \in DOMAIN Rank : Rank[left] >= Rank[was] /\ o = Outcome(status, left)
    BY Zenon DEF Unsettled
  <1>2. o.status = status /\ o.left = left
    BY Zenon, <1>1 DEF Outcome
  <1>3. was = "sealed" => left = "sealed"
    BY <1>1 DEF Rank
  <1> QED BY Zenon, <1>2, <1>3 DEF Honest

\* The four hosts.
LEMMA AdmissionHonest == ASSUME NEW was, NEW o \in mutate_and_encode_response(was) PROVE Honest(o, was)
  <1>1. CASE o = Outcome("sealed", "sealed") BY <1>1 DEF Outcome, Honest
  <1>2. CASE o = Outcome("error", was) BY <1>2 DEF Outcome, Honest, Settles
  <1>3. CASE o \in Unsettled(reconciliation_required, was)
    BY <1>3, UnsettledHonest DEF reconciliation_required, Settles
  <1> QED BY Zenon, <1>1, <1>2, <1>3 DEF mutate_and_encode_response

LEMMA DecisionHonest == ASSUME NEW was, NEW o \in record_from_approval_decision(was) PROVE Honest(o, was)
  <1>1. CASE o = Outcome("sealed", "sealed") BY <1>1 DEF Outcome, Honest
  <1>2. CASE o \in Unsettled(reconciliation_required, was)
    BY <1>2, UnsettledHonest DEF reconciliation_required, Settles
  <1> QED BY Zenon, <1>1, <1>2 DEF record_from_approval_decision

LEMMA ExecutionHonest ==
    ASSUME NEW was, NEW o \in handle_promotion_execution_wire_with_binding(was) PROVE Honest(o, was)
  <1>1. CASE o \in Unsettled(reconciliation_required, was)
    BY <1>1, UnsettledHonest DEF reconciliation_required, Settles
  <1>2. CASE was = "recorded" /\ o \in {Outcome("pending", was), Outcome("lease_expired", was)}
    BY <1>2 DEF Outcome, Honest, Settles
  <1>3. CASE o \in {Outcome("completed", "sealed"), Outcome("rejected", "sealed")}
    BY <1>3 DEF Outcome, Honest
  <1> QED BY Zenon, <1>1, <1>2, <1>3 DEF handle_promotion_execution_wire_with_binding

LEMMA SessionHonest == ASSUME NEW was, NEW o \in authorize_client_request(was) PROVE Honest(o, was)
  <1>1. "answered" \notin Settles /\ "error" \notin Settles
    BY DEF Settles
  <1> QED BY Zenon, <1>1, UnsettledHonest DEF authorize_client_request

\* A mutation of a target somebody sent a frame about is a step of the ledger.
LEMMA Mutates ==
    ASSUME Shaped, NEW c \in Conns, conn[c].sent # "nothing", NEW o, Honest(o, tape[TargetOf[c]]),
           tape' = [tape EXCEPT ![TargetOf[c]] = o.left]
    PROVE  TapeSteps /\ Backs(tape', c, o.status)
  <1>1. TargetOf[c] \in DOMAIN tape
    BY Zenon DEF Shaped
  <1>2. /\ tape' = [t \in DOMAIN tape |-> tape'[t]] /\ tape'[TargetOf[c]] = o.left
        /\ \A t \in DOMAIN tape \ {TargetOf[c]} : tape'[t] = tape[t]
    BY Zenon, <1>1
  <1> QED BY Zenon, <1>1, <1>2 DEF Honest, Backs, TapeSteps

\* One thread moves on.
LEMMA ThreadMoves ==
    ASSUME Shaped, NEW w \in Workers, NEW next, Host(w, next), ThreadShape(next),
           ThreadBacked(tape', next)
    PROVE  ThreadSteps
  BY Zenon, OneThread DEF ThreadSteps

\* A thread that is free, or reads, carries no answer.
LEMMA Carries ==
    /\ ThreadShape(idle) /\ ThreadShape(gone)
    /\ idle.conn = none /\ gone.conn = none
    /\ \A c \in Conns : LET x == [idle EXCEPT !.at = "read", !.conn = c]
                        IN ThreadShape(x) /\ x.conn = c /\ x.at = "read"
    /\ idle.at = "recv" /\ gone.at = "gone"
  <1>1. ThreadShape(idle) /\ idle.conn = none /\ idle.at = "recv"
    BY DEF ThreadShape, idle
  <1>2. ThreadShape(gone) /\ gone.conn = none /\ gone.at = "gone"
    BY DEF ThreadShape, gone, idle
  <1>3. ASSUME NEW c \in Conns, NEW x, x = [idle EXCEPT !.at = "read", !.conn = c]
        PROVE  ThreadShape(x) /\ x.conn = c /\ x.at = "read"
    <2>1. DOMAIN x = {"at", "conn", "got"} /\ x.at = "read" /\ x.conn = c /\ x.got = none
      BY Zenon, <1>3 DEF idle
    <2> QED BY <2>1 DEF ThreadShape
  <1> QED BY Zenon, <1>1, <1>2, <1>3

-----------------------------------------------------------------------------
(* The client's steps *)

\* Nothing but one connection changes.
LEMMA OnlyConn ==
    ASSUME HostConstants, HInv, ConnSteps, UNCHANGED <<endpoint, tape>>, UNCHANGED Memory
    PROVE  HInv'
  <1>1. Stays
    BY Zenon DEF HInv, Stays
  <1>2. /\ tape' = tape /\ worker' = worker /\ owner' = owner /\ jobs' = jobs
        /\ ingress' = ingress /\ backlog' = backlog /\ inflight' = inflight
    BY Zenon DEF Memory
  <1>3. Shaped' /\ Backed' /\ Framed'
    BY Zenon, <1>2, Same, StepsKeep DEF HInv
  <1>4. Apart' /\ Counted'
    BY Zenon, <1>1, <1>2, NothingMoves
  <1> QED BY Zenon, <1>3, <1>4 DEF HInv

\* A client connects (connect_validated_fixed_socket).
LEMMA Connects ==
    ASSUME HostConstants, HInv, NEW c \in Conns, connect_validated_fixed_socket(c)
    PROVE  HInv'
  <1> DEFINE next == [conn[c] EXCEPT !.pc = "open"]
  <1>1. /\ conn[c].pc = "idle" /\ conn' = [conn EXCEPT ![c] = next]
        /\ backlog' = Append(backlog, c) /\ endpoint' = endpoint /\ tape' = tape
        /\ ingress' = ingress /\ inflight' = inflight /\ worker' = worker
        /\ jobs' = jobs /\ owner' = owner
    BY Zenon DEF connect_validated_fixed_socket, Client
  <1>2. /\ ConnShape(next) /\ next.sent = conn[c].sent /\ next.pc = "open"
        /\ next.reply = conn[c].reply /\ next.verdict = conn[c].verdict
    <2>1. ConnShape(conn[c])
      BY Zenon DEF HInv, Shaped
    <2> QED BY Zenon, <2>1 DEF ConnShape
  <1> HIDE DEF next
  <1>3. ConnStep(c, conn[c], next)
    BY <1>2 DEF ConnStep
  <1>4. ConnSteps /\ conn'[c] = next
    BY Zenon, <1>1, <1>3, OneConn DEF HInv
  <1>5. Stays
    BY Zenon, <1>1, <1>4 DEF HInv, Stays
  <1>6. Apart' /\ Counted'
    <2>1. conn'[c].pc # "idle"
      BY <1>2, <1>4
    <2> QED BY Zenon, <1>1, <1>5, <2>1, Joins
  <1>7. QueueSteps
    <2>1. backlog \in Seq(Conns) /\ ingress \in Seq(Conns) /\ jobs \in Seq(Job)
      BY Zenon DEF HInv, Shaped
    <2>2. Append(backlog, c) \in Seq(Conns)
      BY SMTT(20), <2>1, QueueGains
    <2> QED BY Zenon, <1>1, <2>1, <2>2 DEF QueueSteps
  <1>8. Shaped' /\ Backed' /\ Framed'
    BY Zenon, <1>1, <1>4, <1>7, Same, StepsKeep DEF HInv
  <1> QED BY Zenon, <1>6, <1>8 DEF HInv

\* A client writes its frame (WritesFrame).
LEMMA Frames ==
    ASSUME HostConstants, HInv, NEW c \in Conns, NEW at, WritesFrame(c, at)
    PROVE  HInv'
  <1> DEFINE how == IF HalfCloses THEN "eof" ELSE "frame"
             next == [conn[c] EXCEPT !.sent = how]
  <1>1. conn' = [conn EXCEPT ![c] = next] /\ UNCHANGED <<endpoint, tape>> /\ UNCHANGED Memory
    BY Zenon DEF WritesFrame, Client
  <1>2. how # "nothing"
    OBVIOUS
  <1> HIDE DEF how
  <1>3. /\ ConnShape(next) /\ next.sent = how /\ next.pc = conn[c].pc
        /\ next.reply = conn[c].reply /\ next.verdict = conn[c].verdict
    <2>1. ConnShape(conn[c])
      BY Zenon DEF HInv, Shaped
    <2> QED BY Zenon, <2>1 DEF ConnShape
  <1> HIDE DEF next
  <1>4. ConnStep(c, conn[c], next)
    BY Zenon, <1>2, <1>3 DEF ConnStep
  <1> QED BY Zenon, <1>1, <1>4, OneConn, OnlyConn DEF HInv

\* A client that gives up builds on nothing (GivesUp).
LEMMA Gives ==
    ASSUME HostConstants, HInv, NEW c \in Conns, NEW at, GivesUp(c, at)
    PROVE  HInv'
  <1>1. /\ conn' = [conn EXCEPT ![c] = Ended(c, "blocked")]
        /\ UNCHANGED <<endpoint, tape>> /\ UNCHANGED Memory
    BY Zenon DEF GivesUp, Client
  <1>2. Backs(tape', c, "blocked")
    BY DEF Backs, Settles
  <1> QED BY Zenon, <1>1, <1>2, EndedConn, OnlyConn DEF HInv

\* What a client reads it may build on (ReadsAnswer, for each of the four checks).
LEMMA Reads ==
    ASSUME HostConstants, HInv, NEW c \in Conns, NEW verdict,
           verdict # "blocked" => verdict = conn[c].reply.status /\ conn[c].reply # none,
           conn' = [conn EXCEPT ![c] = Ended(c, verdict)],
           UNCHANGED <<endpoint, tape>>, UNCHANGED Memory
    PROVE  HInv'
  <1>1. Backs(tape, c, verdict)
    <2>1. CASE verdict = "blocked"
      BY <2>1 DEF Backs, Settles
    <2>2. CASE verdict = conn[c].reply.status /\ conn[c].reply # none
      BY Zenon, <2>2 DEF HInv, Backed, ReplyBacked
    <2> QED BY Zenon, <2>1, <2>2
  <1>2. Backs(tape', c, verdict)
    BY Zenon, <1>1
  <1> QED BY Zenon, <1>2, EndedConn, OnlyConn DEF HInv

-----------------------------------------------------------------------------
(* The hosts that serve one connection after the other *)

LEMMA OnlyIsThere == HostConstants => Only \in Workers
  BY Zenon DEF HostConstants, Only

\* What a thread at work holds.
LEMMA AtWork ==
    ASSUME Shaped, NEW w \in Workers
    PROVE  /\ ThreadShape(worker[w])
           /\ worker[w].at \in {"read", "wait", "write"} => worker[w].conn \in Conns
           /\ worker[w].at \in {"recv", "gone"} => worker[w].conn = none
  <1>1. ThreadShape(worker[w])
    BY Zenon DEF Shaped
  <1> QED BY <1>1 DEF ThreadShape

\* The lone thread accepts (Accepts).
LEMMA LoneAccepts ==
    ASSUME HostConstants, HInv, NEW at, at # "admission", Accepts(at)
    PROVE  HInv'
  <1> DEFINE next == [idle EXCEPT !.at = "read", !.conn = Head(backlog)]
  <1>1. /\ endpoint # "admission" /\ worker[Only] = idle /\ backlog # <<>> /\ Host(Only, next)
        /\ backlog' = Tail(backlog) /\ conn' = conn /\ tape' = tape /\ endpoint' = endpoint
        /\ ingress' = ingress /\ jobs' = jobs /\ owner' = owner
    BY Zenon DEF Accepts, Serving, SequentialKeeps
  <1>2. Only \in Workers /\ worker[Only].conn = none
    BY Zenon, <1>1, OnlyIsThere, Carries
  <1>3. backlog \in Seq(Conns) /\ ingress \in Seq(Conns) /\ jobs \in Seq(Job)
    BY Zenon DEF HInv, Shaped
  <1>4. Head(backlog) \in Conns /\ Tail(backlog) \in Seq(Conns)
    BY Zenon, <1>1, <1>3, QueueLoses
  <1>5. ThreadShape(next) /\ next.conn = Head(backlog) /\ ThreadBacked(tape', next)
    <2>1. ThreadShape(next) /\ next.conn = Head(backlog) /\ next.at = "read"
      BY Zenon, <1>4, Carries
    <2> HIDE DEF next
    <2> QED BY <2>1 DEF ThreadBacked
  <1> HIDE DEF next
  <1>6. ConnSteps /\ Stays
    BY Zenon, <1>1, SameConn DEF HInv, Stays
  <1>7. Apart' /\ Counted'
    BY Zenon, <1>1, <1>2, <1>5, <1>6, LoneTakes
  <1>8. QueueSteps
    BY Zenon, <1>1, <1>3, <1>4 DEF QueueSteps
  <1>9. Shaped' /\ Backed' /\ Framed'
    BY Zenon, <1>1, <1>2, <1>5, <1>6, <1>8, Same, ThreadMoves, StepsKeep DEF HInv
  <1> QED BY Zenon, <1>7, <1>9 DEF HInv

\* The lone thread mutates and keeps the answer (Handles).
LEMMA LoneHandles ==
    ASSUME HostConstants, HInv, endpoint # "admission", worker[Only].at = "read",
           Complete(worker[Only].conn), NEW o, Honest(o, tape[TargetOf[worker[Only].conn]]),
           tape' = [tape EXCEPT ![TargetOf[worker[Only].conn]] = o.left],
           Host(Only, [worker[Only] EXCEPT !.at = "write", !.got = o.status]),
           UNCHANGED <<conn, backlog>>, SequentialKeeps
    PROVE  HInv'
  <1> DEFINE c == worker[Only].conn
             next == [worker[Only] EXCEPT !.at = "write", !.got = o.status]
  <1>1. Only \in Workers /\ Shaped
    BY Zenon, OnlyIsThere DEF HInv
  <1>2. c \in Conns /\ ThreadShape(worker[Only])
    BY Zenon, <1>1, AtWork
  <1>3. DOMAIN next = {"at", "conn", "got"} /\ next.at = "write" /\ next.conn = c /\ next.got = o.status
    BY Zenon, <1>2 DEF ThreadShape
  <1>4. conn[c].sent # "nothing"
    BY DEF Complete
  <1>5. TapeSteps /\ Backs(tape', c, o.status)
    BY Zenon, <1>1, <1>2, <1>4, Mutates
  <1>6. /\ backlog' = backlog /\ conn' = conn /\ endpoint' = endpoint /\ inflight' = inflight
        /\ ingress' = ingress /\ jobs' = jobs /\ owner' = owner /\ Host(Only, next)
    BY Zenon DEF SequentialKeeps
  <1> HIDE DEF next, c
  <1>7. ThreadShape(next)
    BY <1>2, <1>3 DEF ThreadShape
  <1>8. ThreadBacked(tape', next)
    BY Zenon, <1>3, <1>5 DEF ThreadBacked
  <1>9. ConnSteps /\ Stays
    BY Zenon, <1>6, SameConn DEF HInv, Stays
  <1>10. Shaped' /\ Backed' /\ Framed'
    BY Zenon, <1>1, <1>5, <1>6, <1>7, <1>8, <1>9, Same, ThreadMoves, StepsKeep DEF HInv
  <1>11. \A w \in Workers : worker'[w].conn = worker[w].conn
    BY Zenon, <1>1, <1>3, <1>6, OneThread DEF c
  <1>12. Apart' /\ Counted'
    BY Zenon, <1>6, <1>9, <1>11, NothingMoves
  <1> QED BY Zenon, <1>10, <1>12 DEF HInv

\* A thread is done with its connection.
LEMMA Done ==
    ASSUME HostConstants, HInv, NEW w \in Workers, worker[w].conn \in Conns,
           NEW next \in {idle, gone}, Host(w, next), ConnSteps,
           UNCHANGED <<endpoint, backlog, ingress, jobs, owner, tape>>,
           endpoint = "admission" => inflight' = InFlightPermit_drop(inflight, UidOf[worker[w].conn])
    PROVE  HInv'
  <1>1. ThreadShape(next) /\ next.conn = none /\ ThreadBacked(tape', next)
    <2>1. ThreadShape(next) /\ next.conn = none /\ next.at \in {"recv", "gone", "read"}
      BY Zenon, Carries
    <2> QED BY <2>1 DEF ThreadBacked
  <1>2. /\ endpoint' = endpoint /\ backlog' = backlog /\ ingress' = ingress /\ jobs' = jobs
        /\ owner' = owner /\ tape' = tape
    OBVIOUS
  <1>3. Stays
    BY Zenon, <1>2 DEF HInv, Stays
  <1>4. Apart' /\ Counted'
    BY Zenon, <1>1, <1>2, <1>3, GivesBack
  <1>5. Shaped' /\ Backed' /\ Framed'
    BY Zenon, <1>1, <1>2, Same, ThreadMoves, StepsKeep DEF HInv
  <1> QED BY Zenon, <1>4, <1>5 DEF HInv

\* The lone thread answers or closes (Writes, DropsFrame).
LEMMA LoneEnds ==
    ASSUME HostConstants, HInv, endpoint # "admission", worker[Only].at \in {"read", "write"},
           \/ conn' = Closed(worker[Only].conn)
           \/ \E reply : /\ worker[Only].at = "write"
                         /\ conn' = Answered(worker[Only].conn, reply)
                         /\ reply.id = worker[Only].conn /\ reply.status = worker[Only].got,
           Host(Only, idle), UNCHANGED <<tape, backlog>>, SequentialKeeps
    PROVE  HInv'
  <1>1. Only \in Workers /\ Shaped
    BY Zenon, OnlyIsThere DEF HInv
  <1>2. worker[Only].conn \in Conns
    BY Zenon, <1>1, AtWork
  <1>3. UNCHANGED <<endpoint, backlog, ingress, jobs, owner, tape>> /\ tape' = tape
    BY Zenon DEF SequentialKeeps
  <1>4. ConnSteps
    <2>1. CASE conn' = Closed(worker[Only].conn)
      BY Zenon, <1>1, <1>2, <2>1, ClosedConn
    <2>2. ASSUME NEW reply, worker[Only].at = "write", conn' = Answered(worker[Only].conn, reply),
                 reply.id = worker[Only].conn, reply.status = worker[Only].got
          PROVE  ConnSteps
      <3>1. Backs(tape', worker[Only].conn, reply.status)
        BY Zenon, <1>1, <1>3, <2>2 DEF HInv, Backed, ThreadBacked
      <3>2. ReplyBacked(tape', worker[Only].conn, reply)
        BY Zenon, <2>2, <3>1 DEF ReplyBacked
      <3> QED BY Zenon, <1>1, <1>2, <2>2, <3>2, AnsweredConn
    <2> QED BY Zenon, <2>1, <2>2
  <1> QED BY Zenon, <1>1, <1>2, <1>3, <1>4, Done

-----------------------------------------------------------------------------
(* The pooled admission host *)

\* The accept loop admits or turns away (run_supervised_accept_loop).
LEMMA PoolAccepts ==
    ASSUME HostConstants, HInv, run_supervised_accept_loop
    PROVE  HInv'
  <1> DEFINE c == Head(backlog)
  <1>1. /\ endpoint = "admission" /\ backlog # <<>> /\ backlog' = Tail(backlog)
        /\ worker' = worker /\ jobs' = jobs /\ owner' = owner /\ tape' = tape
        /\ endpoint' = endpoint
    BY Zenon DEF run_supervised_accept_loop, Pooled, PooledKeeps
  <1>2. \/ /\ inflight.total < MaxInFlight /\ inflight.by[UidOf[c]] < MaxPerUid
           /\ inflight' = Acquired(inflight, UidOf[c])
           /\ ingress' = Append(ingress, c) /\ conn' = conn
        \/ conn' = Closed(c) /\ inflight' = inflight /\ ingress' = ingress
    BY Zenon DEF run_supervised_accept_loop, try_acquire_in_flight
  <1>3. backlog \in Seq(Conns) /\ ingress \in Seq(Conns) /\ jobs \in Seq(Job) /\ Shaped
    BY Zenon DEF HInv, Shaped
  <1>4. c \in Conns /\ Tail(backlog) \in Seq(Conns)
    BY Zenon, <1>1, <1>3, QueueLoses
  <1>5. Append(ingress, c) \in Seq(Conns)
    <2> HIDE DEF c
    <2> QED BY Zenon, <1>3, <1>4, QueueGains
  <1>6. QueueSteps
    BY Zenon, <1>1, <1>2, <1>3, <1>4, <1>5 DEF QueueSteps
  <1>7. ConnSteps
    BY Zenon, <1>2, <1>3, <1>4, SameConn, ClosedConn
  <1>8. Stays
    BY Zenon, <1>1, <1>7 DEF HInv, Stays
  <1>9. Apart' /\ Counted'
    BY Zenon, <1>1, <1>2, <1>8, Admits, TurnedAway
  <1>10. Shaped' /\ Backed' /\ Framed'
    BY Zenon, <1>1, <1>6, <1>7, Same, StepsKeep DEF HInv
  <1> QED BY Zenon, <1>9, <1>10 DEF HInv

\* A thread of the pool takes a connection (run_ingress_worker_takes).
LEMMA WorkerTakes ==
    ASSUME HostConstants, HInv, NEW w \in Workers, run_ingress_worker_takes(w)
    PROVE  HInv'
  <1> DEFINE next == [idle EXCEPT !.at = "read", !.conn = Head(ingress)]
  <1>1. /\ worker[w].at = "recv" /\ ingress # <<>> /\ Host(w, next)
        /\ ingress' = Tail(ingress) /\ conn' = conn /\ tape' = tape /\ endpoint' = endpoint
        /\ backlog' = backlog /\ jobs' = jobs /\ owner' = owner /\ inflight' = inflight
    BY Zenon DEF run_ingress_worker_takes, PooledKeeps
  <1>2. worker[w].conn = none
    BY Zenon, <1>1, AtWork DEF HInv
  <1>3. backlog \in Seq(Conns) /\ ingress \in Seq(Conns) /\ jobs \in Seq(Job)
    BY Zenon DEF HInv, Shaped
  <1>4. Head(ingress) \in Conns /\ Tail(ingress) \in Seq(Conns)
    BY Zenon, <1>1, <1>3, QueueLoses
  <1>5. ThreadShape(next) /\ next.conn = Head(ingress) /\ ThreadBacked(tape', next)
    <2>1. ThreadShape(next) /\ next.conn = Head(ingress) /\ next.at = "read"
      BY Zenon, <1>4, Carries
    <2> HIDE DEF next
    <2> QED BY <2>1 DEF ThreadBacked
  <1> HIDE DEF next
  <1>6. ConnSteps /\ Stays
    BY Zenon, <1>1, SameConn DEF HInv, Stays
  <1>7. Apart' /\ Counted'
    BY Zenon, <1>1, <1>2, <1>5, <1>6, PoolTakes
  <1>8. QueueSteps
    BY Zenon, <1>1, <1>3, <1>4 DEF QueueSteps
  <1>9. Shaped' /\ Backed' /\ Framed'
    BY Zenon, <1>1, <1>5, <1>6, <1>8, Same, ThreadMoves, StepsKeep DEF HInv
  <1> QED BY Zenon, <1>7, <1>9 DEF HInv

\* A thread of the pool closes its connection (LetsGo).
LEMMA WorkerCloses ==
    ASSUME HostConstants, HInv, NEW w \in Workers, worker[w].at \in {"read", "wait"},
           NEW next \in {idle, gone}, LetsGo(w, next, Closed(worker[w].conn)),
           UNCHANGED jobs, WorkerKeeps
    PROVE  HInv'
  <1>1. Shaped /\ worker[w].conn \in Conns
    BY Zenon, AtWork DEF HInv
  <1>2. /\ conn' = Closed(worker[w].conn) /\ Host(w, next)
        /\ inflight' = InFlightPermit_drop(inflight, UidOf[worker[w].conn])
        /\ UNCHANGED <<endpoint, backlog, ingress, jobs, owner, tape>>
    BY Zenon DEF LetsGo, WorkerKeeps, PooledKeeps
  <1>3. ConnSteps
    BY Zenon, <1>1, <1>2, ClosedConn
  <1> QED BY Zenon, <1>1, <1>2, <1>3, Done

\* A thread of the pool passes the answer on (run_ingress_worker_answers).
LEMMA WorkerAnswers ==
    ASSUME HostConstants, HInv, NEW w \in Workers, run_ingress_worker_answers(w)
    PROVE  HInv'
  <1> DEFINE x == worker[w]
             reply == sign_v5_admission_response(x.got.conn, x.got.status)
             seen == IF x.got.status = "error" THEN Closed(x.conn) ELSE Answered(x.conn, reply)
  <1>1. x.at = "wait" /\ x.got # none /\ LetsGo(w, idle, seen) /\ jobs' = jobs /\ WorkerKeeps
    BY Zenon DEF run_ingress_worker_answers
  <1>2. Shaped /\ x.conn \in Conns
    BY Zenon, <1>1, AtWork DEF HInv
  <1>3. x.got.conn = x.conn /\ Backs(tape, x.conn, x.got.status)
    BY Zenon, <1>1 DEF HInv, Backed, ThreadBacked
  <1>4. /\ Host(w, idle)
        /\ inflight' = InFlightPermit_drop(inflight, UidOf[x.conn])
        /\ UNCHANGED <<endpoint, backlog, ingress, jobs, owner, tape>>
        /\ conn' = Closed(x.conn) \/ conn' = Answered(x.conn, reply)
    BY Zenon, <1>1 DEF LetsGo, WorkerKeeps, PooledKeeps
  <1>5. reply.id = x.conn /\ reply.status = x.got.status
    BY Zenon, <1>3 DEF sign_v5_admission_response
  <1> HIDE DEF reply
  <1>6. ReplyBacked(tape', x.conn, reply)
    BY Zenon, <1>3, <1>4, <1>5 DEF ReplyBacked
  <1>7. ConnSteps
    BY Zenon, <1>2, <1>4, <1>6, ClosedConn, AnsweredConn
  <1> QED BY Zenon, <1>2, <1>4, <1>7, Done

\* A thread of the pool hands its request to the owner (run_ingress_worker_submits).
LEMMA WorkerSubmits ==
    ASSUME HostConstants, HInv, NEW w \in Workers, run_ingress_worker_submits(w)
    PROVE  HInv'
  <1> DEFINE x == worker[w]
             ask == [conn |-> x.conn, worker |-> w]
             next == [worker[w] EXCEPT !.at = "wait"]
  <1>1. x.at = "read" /\ Complete(x.conn) /\ WorkerKeeps
    BY Zenon DEF run_ingress_worker_submits
  <1>2. \/ LetsGo(w, gone, Closed(x.conn)) /\ jobs' = jobs
        \/ LetsGo(w, idle, Closed(x.conn)) /\ jobs' = jobs
        \/ /\ jobs' = Append(jobs, ask) /\ Host(w, next)
           /\ conn' = conn /\ inflight' = inflight
    BY Zenon DEF run_ingress_worker_submits
  <1>3. CASE \/ LetsGo(w, gone, Closed(x.conn)) /\ jobs' = jobs
             \/ LetsGo(w, idle, Closed(x.conn)) /\ jobs' = jobs
    <2>1. x.at \in {"read", "wait"}
      BY Zenon, <1>1
    <2> QED BY Zenon, <1>1, <1>3, <2>1, WorkerCloses
  <1>4. CASE jobs' = Append(jobs, ask) /\ Host(w, next) /\ conn' = conn /\ inflight' = inflight
    <2>1. Shaped /\ x.conn \in Conns /\ ThreadShape(x) /\ jobs \in Seq(Job)
      BY Zenon, <1>1, AtWork DEF HInv, Shaped
    <2>2. /\ endpoint' = endpoint /\ backlog' = backlog /\ ingress' = ingress
          /\ owner' = owner /\ tape' = tape
      BY Zenon, <1>1 DEF WorkerKeeps, PooledKeeps
    <2>3. DOMAIN next = {"at", "conn", "got"} /\ next.at = "wait" /\ next.conn = x.conn /\ next.got = none
      BY Zenon, <1>1, <2>1 DEF ThreadShape
    <2>4. ask \in Job /\ ask.conn = x.conn
      BY Zenon, <2>1 DEF Job
    <2> HIDE DEF next, ask, x
    <2>5. ThreadShape(next) /\ ThreadBacked(tape', next)
      BY <2>1, <2>3 DEF ThreadShape, ThreadBacked
    <2>6. conn[ask.conn].sent # "nothing"
      BY <1>1, <2>4 DEF Complete
    <2>7. QueueSteps
      <3>1. Append(jobs, ask) \in Seq(Job) /\ Range(Append(jobs, ask)) = Range(jobs) \cup {ask}
        <4>1. jobs \in Seq(Job) /\ ask \in Job
          BY Zenon, <2>1, <2>4
        <4> QED BY <4>1, QueueGains
      <3>2. ASSUME NEW i \in DOMAIN jobs'
            PROVE  (\E j \in DOMAIN jobs : jobs'[i] = jobs[j]) \/ conn[jobs'[i].conn].sent # "nothing"
        <4>1. jobs'[i] \in Range(jobs) \cup {ask}
          <5>1. jobs'[i] \in Range(jobs')
            BY Zenon DEF Range
          <5> QED BY Zenon, <1>4, <3>1, <5>1
        <4> QED BY Zenon, <2>6, <4>1 DEF Range
      <3> QED BY Zenon, <1>4, <2>1, <2>2, <3>1, <3>2 DEF QueueSteps, Shaped
    <2>8. ConnSteps /\ Stays
      BY Zenon, <1>4, <2>1, <2>2, SameConn DEF HInv, Stays
    <2>9. Shaped' /\ Backed' /\ Framed'
      BY Zenon, <1>4, <2>2, <2>5, <2>7, <2>8, Same, ThreadMoves, StepsKeep DEF HInv
    <2>10. \A v \in Workers : worker'[v].conn = worker[v].conn
      BY Zenon, <1>4, <2>1, <2>3, OneThread DEF x
    <2>11. Apart' /\ Counted'
      BY Zenon, <1>4, <2>2, <2>8, <2>10, NothingMoves
    <2> QED BY Zenon, <2>9, <2>11 DEF HInv
  <1> QED BY Zenon, <1>2, <1>3, <1>4

\* The owner mutates for the oldest request (OwnerMutates).
LEMMA Owns ==
    ASSUME HostConstants, HInv, OwnerMutates
    PROVE  HInv'
  <1> DEFINE c == Head(jobs).conn
  <1>1. /\ jobs # <<>> /\ jobs' = Tail(jobs) /\ worker' = worker /\ conn' = conn
        /\ backlog' = backlog /\ ingress' = ingress /\ inflight' = inflight /\ endpoint' = endpoint
    BY Zenon DEF OwnerMutates, OwnerKeeps, PooledKeeps
  <1>2. PICK o \in mutate_and_encode_response(tape[TargetOf[c]]) :
          /\ tape' = [tape EXCEPT ![TargetOf[c]] = o.left]
          /\ owner' = [conn |-> c, worker |-> Head(jobs).worker, status |-> o.status]
    BY Zenon DEF OwnerMutates
  <1>3. Shaped /\ jobs \in Seq(Job) /\ backlog \in Seq(Conns) /\ ingress \in Seq(Conns)
    BY Zenon DEF HInv, Shaped
  <1>4. /\ Head(jobs) \in Job /\ Tail(jobs) \in Seq(Job)
        /\ Range(jobs) = Range(Tail(jobs)) \cup {Head(jobs)}
    BY Zenon, <1>1, <1>3, QueueLoses
  <1>5. c \in Conns
    BY <1>4 DEF Job
  <1>6. conn[c].sent # "nothing"
    <2>1. PICK i \in DOMAIN jobs : jobs[i] = Head(jobs)
      BY Zenon, <1>4 DEF Range
    <2> QED BY Zenon, <2>1 DEF HInv, Framed
  <1>7. owner'.conn = c /\ owner'.status = o.status
    BY Zenon, <1>2
  <1>8. QueueSteps
    <2>1. ASSUME NEW i \in DOMAIN jobs' PROVE \E j \in DOMAIN jobs : jobs'[i] = jobs[j]
      BY Zenon, <1>1, <1>4 DEF Range
    <2> QED BY Zenon, <1>1, <1>3, <1>4, <2>1 DEF QueueSteps
  <1> HIDE DEF c
  <1>9. Honest(o, tape[TargetOf[c]])
    BY Zenon, <1>2, AdmissionHonest
  <1>10. TapeSteps /\ Backs(tape', c, o.status)
    BY Zenon, <1>2, <1>3, <1>5, <1>6, <1>9, Mutates
  <1>11. OwnerSteps
    BY Zenon, <1>5, <1>7, <1>10 DEF OwnerSteps
  <1>12. ConnSteps /\ Stays
    BY Zenon, <1>1, SameConn DEF HInv, Stays
  <1>13. Shaped' /\ Backed' /\ Framed'
    BY Zenon, <1>1, <1>8, <1>10, <1>11, <1>12, Same, StepsKeep DEF HInv
  <1>14. Apart' /\ Counted'
    BY Zenon, <1>1, <1>12, NothingMoves
  <1> QED BY Zenon, <1>13, <1>14 DEF HInv

\* The owner answers the thread that still waits for this request (OwnerReplies).
LEMMA OwnerAnswers ==
    ASSUME HostConstants, HInv, OwnerReplies
    PROVE  HInv'
  <1>1. /\ owner \notin {none, dead} /\ owner' = none /\ jobs' = jobs /\ tape' = tape /\ conn' = conn
        /\ backlog' = backlog /\ ingress' = ingress /\ inflight' = inflight /\ endpoint' = endpoint
        /\ worker' = [w \in Workers |-> IF w \in Waiting(owner)
                                       THEN [worker[w] EXCEPT !.got = owner] ELSE worker[w]]
    BY Zenon DEF OwnerReplies, OwnerKeeps, PooledKeeps
  <1>2. owner.conn \in Conns /\ Backs(tape, owner.conn, owner.status) /\ Shaped
    BY Zenon, <1>1 DEF HInv, Shaped, Backed
  <1>3. ASSUME NEW w \in Workers
        PROVE  /\ worker'[w].conn = worker[w].conn
               /\ worker'[w] = worker[w]
                    \/ (ThreadShape(worker'[w]) /\ ThreadBacked(tape', worker'[w]))
    <2>1. CASE w \notin Waiting(owner)
      BY Zenon, <1>1, <2>1
    <2>2. CASE w \in Waiting(owner)
      <3> DEFINE next == [worker[w] EXCEPT !.got = owner]
      <3>1. worker'[w] = next /\ worker[w].at = "wait" /\ worker[w].conn = owner.conn
        BY Zenon, <1>1, <2>2 DEF Waiting
      <3>2. ThreadShape(worker[w])
        BY Zenon, <1>2, AtWork
      <3>3. /\ DOMAIN next = {"at", "conn", "got"} /\ next.at = "wait" /\ next.got = owner
            /\ next.conn = worker[w].conn
        BY Zenon, <3>1, <3>2 DEF ThreadShape
      <3> HIDE DEF next
      <3>4. ThreadShape(next)
        BY <1>2, <3>1, <3>3 DEF ThreadShape
      <3>5. ThreadBacked(tape, next)
        <4>1. next.at # "write"
          BY <3>3
        <4> QED BY Zenon, <1>2, <3>1, <3>3, <4>1 DEF ThreadBacked
      <3> QED BY Zenon, <1>1, <3>1, <3>3, <3>4, <3>5
    <2> QED BY Zenon, <2>1, <2>2
  <1>4. ThreadSteps
    <2>1. worker' = [w \in Workers |-> worker'[w]]
      BY Zenon, <1>1
    <2> QED BY Zenon, <1>3, <2>1 DEF ThreadSteps
  <1>5. OwnerSteps
    BY Zenon, <1>1 DEF OwnerSteps
  <1>6. ConnSteps /\ Stays
    BY Zenon, <1>1, <1>2, SameConn DEF HInv, Stays
  <1>7. Shaped' /\ Backed' /\ Framed'
    BY Zenon, <1>1, <1>4, <1>5, <1>6, Same, StepsKeep DEF HInv
  <1>8. Apart' /\ Counted'
    BY Zenon, <1>1, <1>3, <1>6, NothingMoves
  <1> QED BY Zenon, <1>7, <1>8 DEF HInv

\* An empty queue holds nothing.
LEMMA Empty == \A S : <<>> \in Seq(S) /\ Range(<<>>) = {} /\ Once(<<>>) /\ DOMAIN <<>> = {}
  <1>1. \A S : <<>> \in Seq(S) /\ DOMAIN <<>> = {}
    OBVIOUS
  <1> QED BY Zenon, <1>1 DEF Range, Once

\* The owner dies, and with it what it was asked (OwnerPanics).
LEMMA Panics ==
    ASSUME HostConstants, HInv, OwnerPanics
    PROVE  HInv'
  <1>1. /\ owner' = dead /\ jobs' = <<>> /\ worker' = worker /\ tape' = tape /\ conn' = conn
        /\ backlog' = backlog /\ ingress' = ingress /\ inflight' = inflight /\ endpoint' = endpoint
    BY Zenon DEF OwnerPanics, OwnerKeeps, PooledKeeps
  <1>2. OwnerSteps
    BY Zenon, <1>1 DEF OwnerSteps
  <1>3. QueueSteps
    BY Zenon, <1>1, Empty DEF QueueSteps, HInv, Shaped
  <1>4. ConnSteps /\ Stays
    BY Zenon, <1>1, SameConn DEF HInv, Stays
  <1>5. Shaped' /\ Backed' /\ Framed'
    BY Zenon, <1>1, <1>2, <1>3, <1>4, Same, StepsKeep DEF HInv
  <1>6. Apart' /\ Counted'
    BY Zenon, <1>1, <1>4, NothingMoves
  <1> QED BY Zenon, <1>5, <1>6 DEF HInv

-----------------------------------------------------------------------------
(* The host as a process *)

\* Nobody holds anything.
LEMMA NobodyHolds ==
    ASSUME HostConstants, ingress' = <<>>, worker' = [w \in Workers |-> idle]
    PROVE  /\ Range(ingress') = {} /\ Hands' = {} /\ Held' = {} /\ Single'
           /\ \A u : OfUid(u)' = {}
  <1>1. \A w \in Workers : worker'[w].conn = none
    BY Zenon, Carries
  <1>2. Range(ingress') = {}
    BY Zenon, Empty
  <1>3. Hands' = {} /\ Single'
    BY Zenon, <1>1 DEF Hands, Single
  <1>4. Held' = {}
    BY Zenon, <1>2, <1>3, HeldIs
  <1> QED BY Zenon, <1>2, <1>3, <1>4 DEF OfUid

\* No permit is out.
LEMMA NoneCounted ==
    ASSUME HostConstants, Held' = {}, \A u : OfUid(u)' = {}, inflight' = NoPermits
    PROVE  Counted'
  <1>1. IsFiniteSet(Held') /\ Cardinality(Held') = 0 /\ \A u \in Uids : Cardinality(OfUid(u)') = 0
    BY Zenon, FS_EmptySet
  <1>2. /\ DOMAIN inflight' = {"total", "by"} /\ DOMAIN inflight'.by = Uids
        /\ inflight'.total = 0 /\ \A u \in Uids : inflight'.by[u] = 0
    BY Zenon DEF NoPermits
  <1>3. 0 <= MaxInFlight /\ 0 <= MaxPerUid
    BY DEF HostConstants
  <1>4. Uids' = Uids
    BY Zenon DEF Uids
  <1> QED BY Zenon, <1>1, <1>2, <1>3, <1>4 DEF Counted

\* The process ends, and what it held is closed (ProcessEnds).
LEMMA Ends ==
    ASSUME HostConstants, HInv, ProcessEnds
    PROVE  HInv'
  <1>1. /\ ingress' = <<>> /\ inflight' = NoPermits /\ worker' = [w \in Workers |-> idle]
        /\ jobs' = <<>> /\ owner' = none /\ endpoint' = endpoint /\ backlog' = backlog /\ tape' = tape
        /\ conn' = [c \in Conns |-> IF c \in Held /\ Open(c)
                                   THEN [conn[c] EXCEPT !.closed = TRUE] ELSE conn[c]]
    BY Zenon DEF ProcessEnds
  <1>2. ConnSteps
    <2>1. ASSUME NEW c \in Conns PROVE ConnStep(c, conn[c], conn'[c])
      <3>1. ConnShape(conn[c])
        BY Zenon DEF HInv, Shaped
      <3>2. CASE conn'[c] = conn[c]
        BY Zenon, <3>1, <3>2 DEF ConnStep
      <3>3. CASE conn'[c] = [conn[c] EXCEPT !.closed = TRUE]
        <4>1. /\ ConnShape(conn'[c]) /\ conn'[c].sent = conn[c].sent /\ conn'[c].pc = conn[c].pc
              /\ conn'[c].reply = conn[c].reply /\ conn'[c].verdict = conn[c].verdict
          BY Zenon, <3>1, <3>3 DEF ConnShape
        <4> QED BY Zenon, <4>1 DEF ConnStep
      <3> QED BY Zenon, <1>1, <3>2, <3>3
    <2> QED BY Zenon, <1>1, <2>1 DEF ConnSteps
  <1>3. ThreadSteps
    <2>1. ThreadShape(idle) /\ idle.at = "recv"
      BY Zenon, Carries
    <2>2. ThreadBacked(tape', idle)
      BY <2>1 DEF ThreadBacked
    <2> QED BY Zenon, <1>1, <2>1, <2>2 DEF ThreadSteps
  <1>4. OwnerSteps
    BY Zenon, <1>1 DEF OwnerSteps
  <1>5. QueueSteps
    BY Zenon, <1>1, Empty DEF QueueSteps, HInv, Shaped
  <1>6. Shaped' /\ Backed' /\ Framed'
    BY Zenon, <1>1, <1>2, <1>3, <1>4, <1>5, Same, StepsKeep DEF HInv
  <1>7. /\ Range(ingress') = {} /\ Hands' = {} /\ Held' = {} /\ Single'
        /\ \A u : OfUid(u)' = {}
    BY Zenon, <1>1, NobodyHolds
  <1>8. Counted'
    BY Zenon, <1>1, <1>7, NoneCounted
  <1>9. Stays
    BY Zenon, <1>1, <1>2 DEF HInv, Stays
  <1>10. Apart'
    <2>1. Once(backlog') /\ Once(ingress')
      BY Zenon, <1>1, Empty DEF HInv, Apart
    <2>2. \A c \in Range(backlog') \cup Held' : conn'[c].pc # "idle"
      BY Zenon, <1>1, <1>7, <1>9, NotIdle
    <2> QED BY Zenon, <1>7, <2>1, <2>2 DEF Apart
  <1> QED BY Zenon, <1>6, <1>8, <1>10 DEF HInv

\* Nothing the invariant speaks of changes: a start of the host, a stutter.
LEMMA Rests ==
    ASSUME HostConstants, HInv,
           UNCHANGED <<endpoint, conn, backlog, ingress, inflight, worker, jobs, owner, tape>>
    PROVE  HInv'
  <1>1. /\ endpoint' = endpoint /\ conn' = conn /\ backlog' = backlog /\ ingress' = ingress
        /\ inflight' = inflight /\ worker' = worker /\ jobs' = jobs /\ owner' = owner /\ tape' = tape
    OBVIOUS
  <1>2. ConnSteps /\ Stays
    BY Zenon, <1>1, SameConn DEF HInv, Stays
  <1>3. Shaped' /\ Backed' /\ Framed'
    BY Zenon, <1>1, <1>2, Same, StepsKeep DEF HInv
  <1>4. Apart' /\ Counted'
    BY Zenon, <1>1, <1>2, NothingMoves
  <1> QED BY Zenon, <1>3, <1>4 DEF HInv

-----------------------------------------------------------------------------
(* The steps together *)

\* A host starts with nothing in hand.
LEMMA Begins == HostConstants /\ Init => HInv
  <1> SUFFICES ASSUME HostConstants, Init PROVE HInv
    OBVIOUS
  <1>1. /\ backlog = <<>> /\ ingress = <<>> /\ inflight = NoPermits /\ jobs = <<>> /\ owner = none
        /\ worker = [w \in Workers |-> idle]
        /\ tape = [t \in {TargetOf[c] : c \in Conns} |-> "none"]
    BY Zenon DEF Init
  <1>2. /\ conn = [c \in Conns |-> conn[c]]
        /\ \A c \in Conns : ConnShape(conn[c]) /\ conn[c].reply = none /\ conn[c].verdict = none
    BY Zenon DEF Init, ConnShape
  <1>3. /\ worker = [w \in Workers |-> worker[w]]
        /\ \A w \in Workers : ThreadShape(worker[w]) /\ worker[w].at = "recv" /\ worker[w].conn = none
    BY Zenon, <1>1, Carries
  <1>4. tape = [t \in {TargetOf[c] : c \in Conns} |-> tape[t]] /\ \A t \in DOMAIN tape : tape[t] = "none"
    BY Zenon, <1>1
  <1>5. Shaped
    BY Zenon, <1>1, <1>2, <1>3, <1>4, Empty DEF Shaped
  <1>6. Backed
    <2>1. \A c \in Conns : ReplyBacked(tape, c, conn[c].reply) /\ Backs(tape, c, conn[c].verdict)
      BY Zenon, <1>2 DEF ReplyBacked, Backs, HostConstants
    <2>2. \A w \in Workers : ThreadBacked(tape, worker[w])
      BY <1>3 DEF ThreadBacked
    <2> QED BY Zenon, <1>1, <2>1, <2>2 DEF Backed
  <1>7. Framed
    BY Zenon, <1>1, <1>4, Empty DEF Framed
  <1>8. Range(ingress) = {} /\ Range(backlog) = {} /\ Hands = {} /\ Single
    BY Zenon, <1>1, <1>3, Empty DEF Hands, Single
  <1>9. Held = {}
    BY Zenon, <1>8, HeldIs
  <1>10. Apart
    BY Zenon, <1>1, <1>8, <1>9, Empty DEF Apart
  <1>11. Counted
    <2>1. IsFiniteSet(Held) /\ Cardinality(Held) = 0 /\ \A u \in Uids : Cardinality(OfUid(u)) = 0
      <3>1. \A u \in Uids : OfUid(u) = {}
        BY Zenon, <1>9 DEF OfUid
      <3> QED BY Zenon, <1>9, <3>1, FS_EmptySet
    <2>2. /\ DOMAIN inflight = {"total", "by"} /\ DOMAIN inflight.by = Uids
          /\ inflight.total = 0 /\ \A u \in Uids : inflight.by[u] = 0
      BY Zenon, <1>1 DEF NoPermits
    <2>3. 0 <= MaxInFlight /\ 0 <= MaxPerUid
      BY DEF HostConstants
    <2> QED BY Zenon, <2>1, <2>2, <2>3 DEF Counted
  <1> QED BY Zenon, <1>5, <1>6, <1>7, <1>10, <1>11 DEF HInv

\* Every step of a client keeps the invariant (ClientStep, ClientTimesOut).
LEMMA ClientsKeep ==
    ASSUME HostConstants, HInv, NEW c \in Conns, ClientStep(c) \/ ClientTimesOut(c)
    PROVE  HInv'
  <1>1. CASE write_all_with_absolute_deadline(c) \/ write_promotion_request_frame(c)
    BY Zenon, <1>1, Frames DEF write_all_with_absolute_deadline, write_promotion_request_frame
  <1>2. CASE ClientTimesOut(c)
    BY Zenon, <1>2, Gives DEF ClientTimesOut, read_exact_with_absolute_deadline, PromotionClientTimesOut
  <1>3. ASSUME NEW good, UNCHANGED Memory,
               Client(c, Ended(c, IF /\ conn[c].reply # none /\ good
                                     /\ conn[c].reply.status \in Settles
                                  THEN conn[c].reply.status ELSE "blocked"))
        PROVE  HInv'
    <2> DEFINE verdict == IF /\ conn[c].reply # none /\ good
                             /\ conn[c].reply.status \in Settles
                          THEN conn[c].reply.status ELSE "blocked"
    <2>1. verdict # "blocked" => verdict = conn[c].reply.status /\ conn[c].reply # none
      BY Zenon
    <2>2. conn' = [conn EXCEPT ![c] = Ended(c, verdict)] /\ UNCHANGED <<endpoint, tape>>
      BY Zenon, <1>3 DEF Client
    <2> HIDE DEF verdict
    <2> QED BY Zenon, <1>3, <2>1, <2>2, Reads
  <1>4. CASE exchange_with_stream(c)
    BY Zenon, <1>3, <1>4 DEF exchange_with_stream, ReadsAnswer
  <1>5. CASE exchange_promotion_decision_with_stream(c)
    BY Zenon, <1>3, <1>5 DEF exchange_promotion_decision_with_stream, ReadsAnswer
  <1>6. CASE exchange_promotion_execution_with_stream(c)
    BY Zenon, <1>3, <1>6 DEF exchange_promotion_execution_with_stream, ReadsAnswer
  <1>7. CASE exchange_governed_session_with_stream(c)
    BY Zenon, <1>3, <1>7 DEF exchange_governed_session_with_stream, ReadsAnswer
  <1> QED BY Zenon, <1>1, <1>2, <1>4, <1>5, <1>6, <1>7 DEF ClientStep

\* Every step of a host without a pool keeps it (SequentialStep and its deadlines).
LEMMA LoneKeeps ==
    ASSUME HostConstants, HInv,
           \/ SequentialStep \/ read_exact_with_deadline
           \/ read_bounded_promotion_decision_frame \/ read_bounded_promotion_execution_frame
    PROVE  HInv'
  <1>1. CASE serve_sequential_connections \/ serve_connections \/ governed_session_run_linux
    BY Zenon, <1>1, LoneAccepts DEF serve_sequential_connections, serve_connections,
       governed_session_run_linux
  <1>2. CASE handle_promotion_decision
    BY Zenon, <1>2, LoneHandles, DecisionHonest DEF handle_promotion_decision, Handles, Serving
  <1>3. CASE handle_promotion_execution
    BY Zenon, <1>3, LoneHandles, ExecutionHonest DEF handle_promotion_execution, Handles, Serving
  <1>4. CASE handle_governed_session
    BY Zenon, <1>4, LoneHandles, SessionHonest DEF handle_governed_session, Handles, Serving
  <1>5. ASSUME NEW at, at # "admission", NEW why, DropsFrame(at, why) PROVE HInv'
    BY Zenon, <1>5, LoneEnds DEF DropsFrame, Serving
  <1>6. CASE \/ RejectsFrame \/ read_exact_with_deadline
             \/ read_bounded_promotion_decision_frame \/ read_bounded_promotion_execution_frame
    BY Zenon, <1>5, <1>6 DEF RejectsFrame, read_exact_with_deadline,
       read_bounded_promotion_decision_frame, read_bounded_promotion_execution_frame
  <1>7. CASE write_promotion_decision_response
    <2> DEFINE reply == encode_promotion_decision_response_frame(worker[Only].conn, worker[Only].got)
    <2>1. reply.id = worker[Only].conn /\ reply.status = worker[Only].got
      BY Zenon DEF encode_promotion_decision_response_frame
    <2>2. /\ endpoint = "decision" /\ worker[Only].at = "write" /\ Host(Only, idle)
          /\ UNCHANGED <<tape, backlog>> /\ SequentialKeeps
          /\ conn' = Closed(worker[Only].conn) \/ conn' = Answered(worker[Only].conn, reply)
      BY Zenon, <1>7 DEF write_promotion_decision_response, Writes, Serving
    <2> HIDE DEF reply
    <2> QED BY Zenon, <2>1, <2>2, LoneEnds
  <1>8. CASE write_promotion_execution_response
    <2> DEFINE reply == sign_promotion_execution_response(worker[Only].conn, worker[Only].got)
    <2>1. reply.id = worker[Only].conn /\ reply.status = worker[Only].got
      BY Zenon DEF sign_promotion_execution_response
    <2>2. /\ endpoint = "execution" /\ worker[Only].at = "write" /\ Host(Only, idle)
          /\ UNCHANGED <<tape, backlog>> /\ SequentialKeeps
          /\ conn' = Closed(worker[Only].conn) \/ conn' = Answered(worker[Only].conn, reply)
      BY Zenon, <1>8 DEF write_promotion_execution_response, Writes, Serving
    <2> HIDE DEF reply
    <2> QED BY Zenon, <2>1, <2>2, LoneEnds
  <1>9. CASE write_governed_session_response
    <2> DEFINE reply == encode_disposition(worker[Only].conn, worker[Only].got)
    <2>1. reply.id = worker[Only].conn /\ reply.status = worker[Only].got
      BY Zenon DEF encode_disposition
    <2>2. /\ endpoint = "session" /\ worker[Only].at = "write" /\ Host(Only, idle)
          /\ UNCHANGED <<tape, backlog>> /\ SequentialKeeps
          /\ conn' = Closed(worker[Only].conn) \/ conn' = Answered(worker[Only].conn, reply)
      BY Zenon, <1>9 DEF write_governed_session_response, Writes, Serving
    <2> HIDE DEF reply
    <2> QED BY Zenon, <2>1, <2>2, LoneEnds
  <1> QED BY Zenon, <1>1, <1>2, <1>3, <1>4, <1>6, <1>7, <1>8, <1>9 DEF SequentialStep

\* Every step of a thread of the pool keeps it (WorkerStep and its deadlines).
LEMMA PoolKeeps ==
    ASSUME HostConstants, HInv, NEW w \in Workers,
           WorkerStep(w) \/ read_v5_frame_with_timeout(w) \/ MutationResponseTimesOut(w)
    PROVE  HInv'
  <1>1. ASSUME NEW at \in {"read", "wait"}, NEW why, WorkerDrops(w, at, why) PROVE HInv'
    BY Zenon, <1>1, WorkerCloses DEF WorkerDrops
  <1>2. CASE WorkerRejectsFrame(w) \/ read_v5_frame_with_timeout(w) \/ MutationResponseTimesOut(w)
    BY Zenon, <1>1, <1>2 DEF WorkerRejectsFrame, read_v5_frame_with_timeout, MutationResponseTimesOut
  <1>3. CASE run_ingress_worker_disconnected(w)
    BY Zenon, <1>3, WorkerCloses DEF run_ingress_worker_disconnected
  <1> QED BY Zenon, <1>2, <1>3, WorkerTakes, WorkerSubmits, WorkerAnswers DEF WorkerStep

\* Every step keeps the invariant.
LEMMA StepKeeps == HostConstants /\ HInv /\ [Next]_vars => HInv'
  <1> SUFFICES ASSUME HostConstants, HInv, [Next]_vars PROVE HInv'
    OBVIOUS
  <1>1. CASE \E c \in Conns : ClientStep(c) \/ ClientTimesOut(c) \/ connect_validated_fixed_socket(c)
    BY Zenon, <1>1, ClientsKeep, Connects
  <1>2. CASE SequentialStep
    BY Zenon, <1>2, LoneKeeps
  <1>3. CASE OwnerStep \/ OwnerPanics
    BY Zenon, <1>3, Owns, OwnerAnswers, Panics DEF OwnerStep
  <1>4. CASE AcceptStep \/ Crash
    BY Zenon, <1>4, PoolAccepts, Ends DEF AcceptStep, SupervisorStops, Crash
  <1>5. ASSUME NEW w \in Workers, WorkerStep(w) \/ Deadline(w) PROVE HInv'
    BY Zenon, <1>5, PoolKeeps, LoneKeeps DEF Deadline
  <1>6. CASE Restart
    <2>1. UNCHANGED <<endpoint, conn, backlog, ingress, inflight, worker, jobs, owner, tape>>
      BY Zenon, <1>6 DEF Restart, v5_admission_run_linux, run_default_promotion_decision_host,
         promotion_execution_run_linux, claim_preopened_listener, Starts
    <2> QED BY Zenon, <2>1, Rests
  <1>7. CASE UNCHANGED vars
    <2>1. UNCHANGED <<endpoint, conn, backlog, ingress, inflight, worker, jobs, owner, tape>>
      BY Zenon, <1>7 DEF vars
    <2> QED BY Zenon, <2>1, Rests
  <1> QED BY Zenon, <1>1, <1>2, <1>3, <1>4, <1>5, <1>6, <1>7 DEF Next, Progress

\* The invariant holds in every reachable state of the four hosts.
LEMMA HInvAlways == ASSUME HostConstants PROVE Spec => []HInv
  <1>1. Init => HInv
    BY Zenon, Begins
  <1>2. HInv /\ [Next]_vars => HInv'
    BY Zenon, StepKeeps
  <1> QED BY <1>1, <1>2, PTL DEF Spec

-----------------------------------------------------------------------------
(* What the hosts promise *)

\* No answer reaches the wrong client: what is on a client's connection answers
\* that client's own request, a client that was told sealed or completed names
\* a target the ledger holds sealed, and nothing is in the ledger that nobody
\* sent a frame about, with threads that give up on late answers, panics of the
\* mutation owner, crashes and restarts (run_ingress_worker, OwnerReplies,
\* exchange_with_stream).
THEOREM OwnAnswers == ASSUME HostConstants PROVE Spec => []AnswersAreOwn
  <1>1. HInv => AnswersAreOwn
    BY Zenon DEF HInv, Backed, Framed, ReplyBacked, Backs, AnswersAreOwn
  <1> QED BY <1>1, HInvAlways, PTL

\* What is queued is held, once each, so the queue is no longer than the permits.
LEMMA QueueFits ==
    ASSUME HInv PROVE Len(ingress) <= Cardinality(Held)
  <1>1. ingress \in Seq(Conns) /\ Once(ingress) /\ IsFiniteSet(Held) /\ Range(ingress) \subseteq Held
    BY Zenon, HeldIs DEF HInv, Shaped, Apart, Counted
  <1>2. Len(ingress) \in Nat /\ DOMAIN ingress = 1..Len(ingress) /\ ingress \in [1..Len(ingress) -> Conns]
    BY <1>1
  <1>3. ingress \in [1..Len(ingress) -> Held]
    BY Zenon, <1>1, <1>2 DEF Range
  <1>4. ingress \in Injection(1..Len(ingress), Held)
    BY Zenon, <1>1, <1>2, <1>3 DEF Injection, Once, IsInjective
  <1>5. Cardinality(1..Len(ingress)) <= Cardinality(Held)
    BY Zenon, <1>1, <1>4, FS_Injection
  <1>6. Cardinality(1..Len(ingress)) = Len(ingress)
    <2>1. 1 \in Int /\ Len(ingress) \in Int
      BY <1>2
    <2>2. Cardinality(1..Len(ingress)) = IF 1 > Len(ingress) THEN 0 ELSE Len(ingress) - 1 + 1
      BY Zenon, <2>1, FS_Interval
    <2> QED BY <1>2, <2>2
  <1> QED BY Zenon, <1>5, <1>6

\* The pooled host holds exactly one permit for every connection it works on,
\* never more than it allows itself or one account, no connection is in two
\* hands, and the ingress queue has room for whoever got a permit
\* (try_acquire_in_flight, InFlightPermit::drop, run_supervised_accept_loop).
THEOREM NobodyCrowds == ASSUME HostConstants PROVE Spec => []NobodyCrowdsTheHost
  <1>1. ASSUME HInv, endpoint = "admission", NEW v \in Workers, NEW w \in Workers, v # w
        PROVE  HeldBy(v) \cap HeldBy(w) = {}
    BY Zenon, <1>1 DEF HInv, Apart, Single, HeldBy
  <1>2. HInv => NobodyCrowdsTheHost
    <2> SUFFICES ASSUME HInv, endpoint = "admission" PROVE NobodyCrowdsTheHost
      BY Zenon DEF NobodyCrowdsTheHost
    <2>1. /\ inflight.total = Cardinality(Held) /\ inflight.total <= MaxInFlight
          /\ \A u \in Uids : inflight.by[u] = Cardinality(OfUid(u)) /\ inflight.by[u] <= MaxPerUid
      BY Zenon DEF HInv, Counted
    <2>2. Len(ingress) <= inflight.total
      BY Zenon, <2>1, QueueFits
    <2> QED BY Zenon, <1>1, <2>1, <2>2 DEF OfUid, NobodyCrowdsTheHost
  <1> QED BY <1>2, HInvAlways, PTL
=============================================================================
