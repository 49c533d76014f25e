---------------------------- MODULE AuthorityHosts ----------------------------
(***************************************************************************)
(* How a client reaches a protected authority host (bp-authority-broker):  *)
(* one request and one signed answer over a Unix socket.  The V5 admission *)
(* host serves with a pool: an accept loop hands out permits, workers read *)
(* frames and one owner thread mutates the ledger.  The promotion-decision,*)
(* promotion-execution and governed-session hosts serve one connection     *)
(* after the other.  The listening socket belongs to the service manager,  *)
(* so connections that wait to be accepted survive a restart of the host.  *)
(* What a mutation does to the ledger is the subject of Admission,         *)
(* Promotion and CandidateSession; here a target is nothing, recorded or   *)
(* sealed.                                                                 *)
(***************************************************************************)
EXTENDS Naturals, Sequences, FiniteSets

CONSTANTS
    Conns,       \* client processes, each making one exchange
    UidOf,       \* the worker account each client runs under
    TargetOf,    \* the envelope, approval or decision each client names
    Workers,     \* INGRESS_WORKER_COUNT
    MaxInFlight, \* MAX_TOTAL_IN_FLIGHT, also the capacity of both channels
    MaxPerUid,   \* MAX_PER_UID_IN_FLIGHT
    MaxFaults,   \* crashes and panics of the host
    none

VARIABLES
    endpoint, \* which host this is
    conn,     \* both ends of each connection
    backlog,  \* connections not yet accepted
    ingress,  \* accepted connections no worker has taken
    inflight, \* InFlightState
    worker,   \* the threads that hold a connection
    jobs,     \* the owner's mutation requests
    owner,    \* the mutation owner
    fatal, up,
    tape,     \* what the ledger holds of each target
    faults

vars == <<endpoint, conn, backlog, ingress, inflight, worker, jobs, owner,
          fatal, up, tape, faults>>

\* An answer a caller may build on; every other one sends it to the ledger.
Settles == {"sealed", "completed"}

\* There is a thread, and the mark for nothing is no client and no status.
HostConstants ==
    /\ none \notin Conns /\ none \notin Settles
    /\ Workers # {} /\ MaxInFlight \in Nat /\ MaxPerUid \in Nat

Endpoints == {"admission", "decision", "execution", "session"}
Uids == {UidOf[c] : c \in Conns}
Only == CHOOSE w \in Workers : TRUE

dead == [at |-> "dead"]
idle == [at |-> "recv", conn |-> none, got |-> none]
NoPermits == [total |-> 0, by |-> [u \in Uids |-> 0]]

Init ==
    /\ endpoint \in Endpoints
    /\ conn = [c \in Conns |-> [pc |-> "idle", sent |-> "nothing", reply |-> none,
                                closed |-> FALSE, verdict |-> none]]
    /\ backlog = <<>> /\ ingress = <<>> /\ inflight = NoPermits
    /\ worker = [w \in Workers |-> idle]
    /\ jobs = <<>> /\ owner = none /\ fatal = FALSE /\ up = TRUE
    /\ tape = [t \in {TargetOf[c] : c \in Conns} |-> "none"] /\ faults = 0

Memory == <<backlog, ingress, inflight, worker, jobs, owner, fatal, up>>

-----------------------------------------------------------------------------
(* The client *)

Client(c, next) == /\ conn' = [conn EXCEPT ![c] = next]
                   /\ UNCHANGED <<endpoint, tape, faults>>
Open(c) == conn[c].pc = "open"

\* Clients that ask the same under one account are alike, and connect in order.
NextOf(u, t) == CHOOSE c \in Conns : conn[c].pc = "idle" /\ UidOf[c] = u /\ TargetOf[c] = t
connect_validated_fixed_socket(c) ==
    /\ conn[c].pc = "idle" /\ c = NextOf(UidOf[c], TargetOf[c])
    /\ Client(c, [conn[c] EXCEPT !.pc = "open"])
    /\ backlog' = Append(backlog, c)
    /\ UNCHANGED <<ingress, inflight, worker, jobs, owner, fatal, up>>

\* The admission and session clients shut their half down after the frame.
HalfCloses == endpoint \in {"admission", "session"}
WritesFrame(c, at) ==
    /\ endpoint \in at /\ Open(c) /\ conn[c].sent = "nothing"
    /\ Client(c, [conn[c] EXCEPT !.sent = IF HalfCloses THEN "eof" ELSE "frame"])
    /\ UNCHANGED Memory
write_all_with_absolute_deadline(c) == WritesFrame(c, {"admission", "session"})
write_promotion_request_frame(c) == WritesFrame(c, {"decision", "execution"})

\* What the signed answer must repeat of the request.
verify_v5_admission_response(reply, c) == reply.id = c /\ reply.target = TargetOf[c]
verify_promotion_decision_response(reply, c) == reply.id = c /\ reply.target = TargetOf[c]
verify_promotion_execution_response(reply, c) == reply.id = c /\ reply.target = TargetOf[c]
verify_governed_session_response(reply, c) == reply.id = c

Ended(c, verdict) ==
    [conn[c] EXCEPT !.pc = "ended", !.reply = none, !.closed = FALSE, !.verdict = verdict]

\* Both the answer and the end of the stream are read; anything else is
\* client_blocked.
ReadsAnswer(c, at, Verifies(_, _)) ==
    /\ endpoint = at /\ Open(c) /\ conn[c].closed
    /\ Client(c, Ended(c, IF conn[c].reply # none /\ Verifies(conn[c].reply, c)
                             /\ conn[c].reply.status \in Settles
                          THEN conn[c].reply.status ELSE "blocked"))
    /\ UNCHANGED Memory

exchange_with_stream(c) == ReadsAnswer(c, "admission", verify_v5_admission_response)
exchange_promotion_decision_with_stream(c) ==
    ReadsAnswer(c, "decision", verify_promotion_decision_response)
exchange_promotion_execution_with_stream(c) ==
    ReadsAnswer(c, "execution", verify_promotion_execution_response)
exchange_governed_session_with_stream(c) ==
    ReadsAnswer(c, "session", verify_governed_session_response)

\* One deadline for the whole exchange, or one for each read and write; the
\* frame of a client that gives up stays in the socket.
GivesUp(c, at) ==
    /\ endpoint \in at /\ Open(c)
    /\ Client(c, Ended(c, "blocked")) /\ UNCHANGED Memory
read_exact_with_absolute_deadline(c) == GivesUp(c, {"admission", "session"})
PromotionClientTimesOut(c) == GivesUp(c, {"decision", "execution"})
ClientTimesOut(c) == read_exact_with_absolute_deadline(c) \/ PromotionClientTimesOut(c)

-----------------------------------------------------------------------------
(* What the host's side of a connection does *)

\* A frame is complete at its last byte, or at the end of the stream where the
\* host insists on one.  The close of a client that gave up ends it too.
NeedsEOF == endpoint \in {"admission", "session"}
Complete(c) ==
    \/ conn[c].sent = "eof"
    \/ conn[c].sent = "frame" /\ (~NeedsEOF \/ conn[c].pc = "ended")
Broken(c) == conn[c].pc = "ended" /\ conn[c].sent = "nothing"

\* Nobody is left to see what happens to the connection of a client that ended.
Closed(c) == [conn EXCEPT ![c].closed = Open(c)]
Answered(c, reply) ==
    IF ~Open(c) THEN conn ELSE [conn EXCEPT ![c].closed = TRUE, ![c].reply = reply]

\* What the hosts sign.  A promotion answer is the answer to one decision, a
\* session answer names the operation by its request only.
sign_v5_admission_response(job, status) ==
    [id |-> job, target |-> TargetOf[job], status |-> status]
encode_promotion_decision_response_frame(job, status) ==
    [id |-> job, target |-> TargetOf[job], status |-> status]
sign_promotion_execution_response(job, status) ==
    [id |-> job, target |-> TargetOf[job], status |-> status]
encode_disposition(job, status) == [id |-> job, status |-> status]

\* [status, left]: what a mutation answers and leaves in the ledger.
Outcome(status, left) == [status |-> status, left |-> left]
Rank == [none |-> 0, recorded |-> 1, sealed |-> 2]
\* A failure can strike before, between or after the two commits.
Unsettled(status, was) ==
    {Outcome(status, left) : left \in {l \in DOMAIN Rank : Rank[l] >= Rank[was]}}
reconciliation_required == "reconciliation_required"

mutate_and_encode_response(was) ==
    {Outcome("sealed", "sealed"), Outcome("error", was)}
        \cup Unsettled(reconciliation_required, was)
record_from_approval_decision(was) ==
    {Outcome("sealed", "sealed")} \cup Unsettled(reconciliation_required, was)
\* An existing claim is pending or expired and is never executed again.
handle_promotion_execution_wire_with_binding(was) ==
    Unsettled(reconciliation_required, was) \cup
    IF was = "recorded" THEN {Outcome("pending", was), Outcome("lease_expired", was)}
    ELSE {Outcome("completed", "sealed"), Outcome("rejected", "sealed")}
\* A rejected operation is answered by closing the connection.
authorize_client_request(was) ==
    Unsettled("answered", was) \cup Unsettled("error", was)

-----------------------------------------------------------------------------
(* The hosts that serve one connection after the other *)

Host(w, next) == worker' = [worker EXCEPT ![w] = next]
Serving(at) == endpoint = at /\ up
SequentialKeeps == UNCHANGED <<endpoint, ingress, inflight, jobs, owner, fatal, up, faults>>

Accepts(at) ==
    /\ Serving(at) /\ worker[Only] = idle /\ backlog # <<>>
    /\ Host(Only, [idle EXCEPT !.at = "read", !.conn = Head(backlog)])
    /\ backlog' = Tail(backlog)
    /\ UNCHANGED <<conn, tape>> /\ SequentialKeeps
serve_sequential_connections == Accepts("decision")
serve_connections == Accepts("execution")
governed_session_run_linux == Accepts("session")

\* The mutation is done before anything is written back.
Handles(at, Outcomes(_)) ==
    /\ Serving(at) /\ worker[Only].at = "read" /\ Complete(worker[Only].conn)
    /\ LET t == TargetOf[worker[Only].conn]
       IN \E o \in Outcomes(tape[t]) :
            /\ tape' = [tape EXCEPT ![t] = o.left]
            /\ Host(Only, [worker[Only] EXCEPT !.at = "write", !.got = o.status])
    /\ UNCHANGED <<conn, backlog>> /\ SequentialKeeps
handle_promotion_decision == Handles("decision", record_from_approval_decision)
handle_promotion_execution == Handles("execution", handle_promotion_execution_wire_with_binding)
handle_governed_session == Handles("session", authorize_client_request)

Writes(at, Sign(_, _)) ==
    /\ Serving(at) /\ worker[Only].at = "write"
    /\ LET c == worker[Only].conn
       IN conn' = IF worker[Only].got = "error" THEN Closed(c)
                  ELSE Answered(c, Sign(c, worker[Only].got))
    /\ Host(Only, idle)
    /\ UNCHANGED <<tape, backlog>> /\ SequentialKeeps
write_promotion_decision_response ==
    Writes("decision", encode_promotion_decision_response_frame)
write_promotion_execution_response == Writes("execution", sign_promotion_execution_response)
write_governed_session_response == Writes("session", encode_disposition)

DropsFrame(at, why) ==
    /\ Serving(at) /\ worker[Only].at = "read" /\ why
    /\ conn' = Closed(worker[Only].conn) /\ Host(Only, idle)
    /\ UNCHANGED <<tape, backlog>> /\ SequentialKeeps
RejectsFrame == \E at \in Endpoints \ {"admission"} : DropsFrame(at, Broken(worker[Only].conn))
read_bounded_promotion_decision_frame ==
    DropsFrame("decision", ~Complete(worker[Only].conn))
read_bounded_promotion_execution_frame ==
    DropsFrame("execution", ~Complete(worker[Only].conn))
read_exact_with_deadline == DropsFrame("session", ~Complete(worker[Only].conn))

-----------------------------------------------------------------------------
(* The pooled admission host *)

Pooled == endpoint = "admission" /\ up
PooledKeeps == UNCHANGED <<endpoint, up>>

\* A full host, a busy account and an account past its rate are turned away.
try_acquire_in_flight_total(permits, u, rated) == permits.total < MaxInFlight /\ ~rated
try_acquire_in_flight(permits, u, rated) ==
    permits.total < MaxInFlight /\ permits.by[u] < MaxPerUid /\ ~rated
Acquired(permits, u) == [permits EXCEPT !.total = @ + 1, !.by[u] = @ + 1]
InFlightPermit_drop(permits, u) == [permits EXCEPT !.total = @ - 1, !.by[u] = @ - 1]

\* rated: how fast an account connects is not modelled, so it may always have
\* been too fast.
run_supervised_accept_loop ==
    /\ Pooled /\ backlog # <<>>
    /\ \E rated \in BOOLEAN :
        LET c == Head(backlog)
        IN IF try_acquire_in_flight(inflight, UidOf[c], rated) /\ Len(ingress) < MaxInFlight
           THEN /\ inflight' = Acquired(inflight, UidOf[c])
                /\ ingress' = Append(ingress, c) /\ UNCHANGED conn
           ELSE conn' = Closed(c) /\ UNCHANGED <<inflight, ingress>>
    /\ backlog' = Tail(backlog)
    /\ UNCHANGED <<worker, jobs, owner, fatal, tape, faults>> /\ PooledKeeps

\* The workers are alike: it does not matter which of them holds the receiver.
run_ingress_worker_takes(w) ==
    /\ Pooled /\ ingress # <<>>
    /\ worker[w].at = "recv" /\ w = CHOOSE v \in Workers : worker[v].at = "recv"
    /\ Host(w, [idle EXCEPT !.at = "read", !.conn = Head(ingress)])
    /\ ingress' = Tail(ingress)
    /\ UNCHANGED <<conn, backlog, inflight, jobs, owner, fatal, tape, faults>> /\ PooledKeeps

WorkerKeeps == UNCHANGED <<backlog, ingress, owner, tape, faults>> /\ PooledKeeps

\* The worker lets go of its connection and with it of its permit.
LetsGo(w, next, seen) ==
    /\ conn' = seen /\ Host(w, next)
    /\ inflight' = InFlightPermit_drop(inflight, UidOf[worker[w].conn])
gone == [idle EXCEPT !.at = "gone"]

\* A job stays queued when its worker stops waiting, so the queue can be full.
run_ingress_worker_submits(w) ==
    /\ Pooled /\ worker[w].at = "read" /\ Complete(worker[w].conn)
    /\ IF owner = dead
       THEN LetsGo(w, gone, Closed(worker[w].conn)) /\ fatal' = TRUE /\ UNCHANGED jobs
       ELSE IF Len(jobs) >= MaxInFlight
       THEN LetsGo(w, idle, Closed(worker[w].conn)) /\ UNCHANGED <<jobs, fatal>>
       ELSE /\ jobs' = Append(jobs, [conn |-> worker[w].conn, worker |-> w])
            /\ Host(w, [worker[w] EXCEPT !.at = "wait"])
            /\ UNCHANGED <<conn, inflight, fatal>>
    /\ WorkerKeeps

WorkerDrops(w, at, why) ==
    /\ Pooled /\ worker[w].at = at /\ why
    /\ LetsGo(w, idle, Closed(worker[w].conn))
    /\ UNCHANGED <<jobs, fatal>> /\ WorkerKeeps
WorkerRejectsFrame(w) == WorkerDrops(w, "read", Broken(worker[w].conn))
read_v5_frame_with_timeout(w) == WorkerDrops(w, "read", ~Complete(worker[w].conn))
MutationResponseTimesOut(w) == WorkerDrops(w, "wait", worker[w].got = none)

run_ingress_worker_answers(w) ==
    /\ Pooled /\ worker[w].at = "wait" /\ worker[w].got # none
    /\ LetsGo(w, idle, IF worker[w].got.status = "error" THEN Closed(worker[w].conn)
                       ELSE Answered(worker[w].conn, sign_v5_admission_response(
                                              worker[w].got.conn, worker[w].got.status)))
    /\ UNCHANGED <<jobs, fatal>> /\ WorkerKeeps

run_ingress_worker_disconnected(w) ==
    /\ Pooled /\ worker[w].at = "wait" /\ worker[w].got = none /\ owner = dead
    /\ LetsGo(w, gone, Closed(worker[w].conn)) /\ fatal' = TRUE
    /\ UNCHANGED jobs /\ WorkerKeeps

OwnerKeeps == UNCHANGED <<conn, backlog, ingress, inflight, fatal>> /\ PooledKeeps

OwnerMutates ==
    /\ Pooled /\ owner = none /\ jobs # <<>>
    /\ LET job == Head(jobs)
           t == TargetOf[job.conn]
       IN \E o \in mutate_and_encode_response(tape[t]) :
            /\ tape' = [tape EXCEPT ![t] = o.left]
            /\ owner' = [conn |-> job.conn, worker |-> job.worker, status |-> o.status]
    /\ jobs' = Tail(jobs) /\ UNCHANGED <<worker, faults>> /\ OwnerKeeps

\* Each request brings its own channel: an answer nobody waits for is dropped.
Waiting_any(job) == {w \in Workers : w = job.worker /\ worker[w].at = "wait"}
Waiting(job) ==
    {w \in Workers : w = job.worker /\ worker[w].at = "wait" /\ worker[w].conn = job.conn}
OwnerReplies ==
    /\ Pooled /\ owner \notin {none, dead}
    /\ worker' = [w \in Workers |-> IF w \in Waiting(owner)
                                    THEN [worker[w] EXCEPT !.got = owner] ELSE worker[w]]
    /\ owner' = none /\ UNCHANGED <<jobs, tape, faults>> /\ OwnerKeeps

OwnerPanics ==
    /\ Pooled /\ owner # dead /\ faults < MaxFaults
    /\ owner' = dead /\ jobs' = <<>> /\ faults' = faults + 1
    /\ UNCHANGED <<worker, tape>> /\ OwnerKeeps

-----------------------------------------------------------------------------
(* The host as a process *)

\* What the accept loop looks at before each connection.
Failing_flag_only == fatal
Failing == fatal \/ owner = dead \/ \E w \in Workers : worker[w].at = "gone"

\* Everything the process holds is closed with it; the backlog is not its own.
HeldBy(w) == {worker[w].conn} \ {none}
Held == {ingress[i] : i \in DOMAIN ingress} \cup UNION {HeldBy(w) : w \in Workers}
ProcessEnds ==
    /\ conn' = [c \in Conns |-> IF c \in Held /\ Open(c)
                           THEN [conn[c] EXCEPT !.closed = TRUE] ELSE conn[c]]
    /\ ingress' = <<>> /\ inflight' = NoPermits /\ worker' = [w \in Workers |-> idle]
    /\ jobs' = <<>> /\ owner' = none /\ fatal' = FALSE /\ up' = FALSE
    /\ UNCHANGED <<endpoint, backlog, tape>>

SupervisorStops == Pooled /\ Failing /\ ProcessEnds /\ UNCHANGED faults
Crash == up /\ faults < MaxFaults /\ faults' = faults + 1 /\ ProcessEnds
\* The service manager hands the same socket to the next process.
Starts(at) ==
    /\ endpoint = at /\ ~up /\ up' = TRUE
    /\ UNCHANGED <<endpoint, conn, backlog, ingress, inflight, worker, jobs, owner,
                   fatal, tape, faults>>
v5_admission_run_linux == Starts("admission")
run_default_promotion_decision_host == Starts("decision")
promotion_execution_run_linux == Starts("execution")
claim_preopened_listener == Starts("session")
Restart == \/ v5_admission_run_linux \/ run_default_promotion_decision_host
           \/ promotion_execution_run_linux \/ claim_preopened_listener

ClientStep(c) ==
    \/ write_all_with_absolute_deadline(c) \/ write_promotion_request_frame(c)
    \/ exchange_with_stream(c) \/ exchange_promotion_decision_with_stream(c)
    \/ exchange_promotion_execution_with_stream(c) \/ exchange_governed_session_with_stream(c)
SequentialStep ==
    \/ serve_sequential_connections \/ handle_promotion_decision
    \/ write_promotion_decision_response
    \/ serve_connections \/ handle_promotion_execution \/ write_promotion_execution_response
    \/ governed_session_run_linux \/ handle_governed_session
    \/ write_governed_session_response \/ RejectsFrame
WorkerStep(w) ==
    \/ run_ingress_worker_takes(w) \/ run_ingress_worker_submits(w)
    \/ WorkerRejectsFrame(w) \/ run_ingress_worker_answers(w)
    \/ run_ingress_worker_disconnected(w)
OwnerStep == OwnerMutates \/ OwnerReplies
AcceptStep == run_supervised_accept_loop \/ SupervisorStops
Deadline(w) ==
    \/ read_bounded_promotion_decision_frame \/ read_bounded_promotion_execution_frame
    \/ read_exact_with_deadline
    \/ read_v5_frame_with_timeout(w) \/ MutationResponseTimesOut(w)

Progress ==
    \/ \E c \in Conns : ClientStep(c) \/ ClientTimesOut(c)
    \/ SequentialStep \/ OwnerStep \/ AcceptStep \/ Restart
    \/ \E w \in Workers : WorkerStep(w) \/ Deadline(w)
Next ==
    \/ Progress \/ Crash \/ OwnerPanics
    \/ \E c \in Conns : connect_validated_fixed_socket(c)

Spec == Init /\ [][Next]_vars

-----------------------------------------------------------------------------
(* Properties *)

\* A permit is held for every connection the pooled host works on, by exactly
\* that connection, and the limits on the host and on each account hold; the
\* ingress queue therefore never refuses a connection that got a permit
\* (try_acquire_in_flight, InFlightPermit::drop, run_supervised_accept_loop).
\* Without any deadline passing some thread or client can move while an exchange
\* is open: no client waits for a host that waits for the client.
NobodyCrowdsTheHost ==
    endpoint = "admission" =>
        /\ inflight.total = Cardinality(Held) /\ inflight.total <= MaxInFlight
        /\ \A u \in Uids : /\ inflight.by[u] = Cardinality({c \in Held : UidOf[c] = u})
                           /\ inflight.by[u] <= MaxPerUid
        /\ \A v, w \in Workers : v # w => HeldBy(v) \cap HeldBy(w) = {}
        /\ Len(ingress) <= inflight.total
SomebodyMoves ==
    (\E c \in Conns : Open(c)) =>
        \/ \E c \in Conns : ENABLED ClientStep(c)
        \/ \E w \in Workers : ENABLED WorkerStep(w)
        \/ ENABLED (SequentialStep \/ OwnerStep \/ AcceptStep \/ Restart)
HostsStayOpen == NobodyCrowdsTheHost /\ SomebodyMoves

\* An answer on the wire is the answer to that connection's own request, also
\* when the worker gave up an earlier job whose answer comes late.  A client
\* that is told sealed or completed names a target the ledger holds sealed,
\* through every crash.  Nothing is recorded without a complete frame, though
\* much may be recorded for a client that was told nothing.
AnswersAreOwn ==
    /\ \A c \in Conns :
        /\ conn[c].reply # none => conn[c].reply.id = c
        /\ conn[c].verdict \in Settles => tape[TargetOf[c]] = "sealed"
    /\ \A t \in DOMAIN tape :
        tape[t] # "none" => \E c \in Conns : TargetOf[c] = t /\ conn[c].sent # "nothing"

\* Every connection the hosts take is let go again, also when clients give up
\* and threads die, and a host that lost its mutation owner does not linger: it
\* stops, so that the service manager starts another.
EveryExchangeEnds == <>[](backlog = <<>> /\ Held = {} /\ owner # dead)
=============================================================================
