------------------------------ MODULE Admission ------------------------------
(***************************************************************************)
(* The three native admission controls of the authority broker, on one     *)
(* run: a governed V3 dispatch, a PlanForge plan, and a V5 envelope that   *)
(* is already on the tape (found with V5SourceScan).  Each host records    *)
(* its admission in one transaction and then seals it in three more: seal  *)
(* the signed prefix, re-read which checkpoint covers it, mark the row.    *)
(* Other hosts, other writers of the tape and crashes fall between them.   *)
(* An attempt ends in the evidence a client is shown, or in a refusal      *)
(* after which the client may retry.                                       *)
(***************************************************************************)
EXTENDS V5SourceScan, RunTape

CONSTANTS
    Hosts,       \* broker processes; each has one request to admit
    Scenarios,   \* the hosts' requests, the envelopes that predate them, and
                 \* what other writers append (V3 dispatches, V5 digests), with
                 \* the bound on the tape they append to
    Witnessed,   \* digests whose graph, context, worker and sandbox declarations
                 \* precede the envelope, signed by the same key
    MaxCrashes,  \* bound: crashes
    MaxCkpts     \* bound: checkpoints by other writers

\* The requests of a scenario.  A V5 request says nothing that its envelope
\* does not say, so that one digest is one request.
Asked(s) == {s.ask[h] : h \in Hosts} \cup s.foreign
Requests == UNION {Asked(s) : s \in Scenarios}

ASSUME RequestAssumption ==
    /\ \A s \in Scenarios :
        /\ DOMAIN s.ask = Hosts /\ s.ask = [h \in Hosts |-> s.ask[h]]
        /\ s.late \subseteq Digests /\ \A r \in s.foreign : r.lane = "dispatch"
    /\ \A r \in Requests : r.lane \in {"dispatch", "plan", "v5"}
    /\ \A p, q \in Requests :
        p.lane = "v5" /\ q.lane = "v5" =>
            p.body \in Digests /\ (p.body = q.body => p = q)

VARIABLES
    tape,     \* signed ordinary events of the run
    ckpts,    \* its checkpoints (RunTape)
    rows,     \* the three admission projections
    live,     \* the V3 authority window is open
    request,  \* the request of each host
    others,   \* what other writers may append
    host,     \* where each host is in its attempt
    answer,   \* what the last attempt of each host answered
    crashes

vars == <<scanVars, tape, ckpts, rows, live, request, others, host, answer, crashes>>

Idle == [pc |-> "idle", source |-> 0, event |-> 0, ckpt |-> 0]
NoAnswer == [kind |-> "none", event |-> 0, ckpt |-> 0]
Refusals == {"conflict", "rejected", "reconciliation_required"}

Init ==
    /\ ScanInit
    /\ tape = [i \in DOMAIN envelopes |-> [kind |-> "dispatch_v5", of |-> envelopes[i]]]
    /\ ckpts = <<>>
    /\ rows = {}
    /\ live = TRUE
    /\ \E s \in Scenarios :
        request = s.ask /\ envelopes = s.legacy
        /\ others = [foreign |-> s.foreign, late |-> s.late, upto |-> s.upto]
    /\ host = [h \in Hosts |-> Idle]
    /\ answer = [h \in Hosts |-> NoAnswer]
    /\ crashes = 0

-----------------------------------------------------------------------------
(* The run's tape and tables *)

\* A request names an idempotency key (for a plan, its request id), the
\* workflow attempt it claims, and everything else it says.
SameIdentity(p, q) == p.lane = q.lane /\ (p.idem = q.idem \/ p.slot = q.slot)

RowsOf_by_key(r) ==
    {row \in rows : row.request.lane = r.lane /\ row.request.idem = r.idem}
RowsOf(r) == {row \in rows : SameIdentity(row.request, r)}
ByKey(r) == {row \in rows : row.request.lane = r.lane /\ row.request.idem = r.idem}
BySource(r, source) == {row \in rows : row.request.lane = "v5" /\ row.source = source}
RowAt(r, event) ==
    CHOOSE row \in rows : row.request.lane = r.lane /\ row.event = event

\* V3 dispatch events that carry the identity of r, admitted or not.
DispatchEvents(r) ==
    {i \in DOMAIN tape : tape[i].kind = "dispatch" /\ SameIdentity(tape[i].of, r)}

\* What re-verification of a stored row demands.  A dispatch row names the only
\* V3 event of its identity.
DispatchVerifies(row) == DispatchEvents(row.request) = {row.event}

\* verify_v5_dispatch_witnesses_in_tx: declarations must precede the envelope, so
\* what this finds for a unique source is settled when it is appended.
WitnessesVerify(d) == d \in Witnessed

\* A V5 row names the source of a scan that is complete now, and its witnesses.
V5Verifies(row) ==
    LET d == row.request.body
    IN WitnessesVerify(d) /\ Resolved(scans[d], index, d) = row.source

\* A plan row is checked against its own signed event only, which cannot change.
PlanVerifies(row) == tape[row.event].of = row.request

Verifies(row) ==
    CASE row.request.lane = "dispatch" -> DispatchVerifies(row)
      [] row.request.lane = "v5" -> V5Verifies(row)
      [] row.request.lane = "plan" -> PlanVerifies(row)

-----------------------------------------------------------------------------
(* One attempt of one host *)

Refuse(h, kind) ==
    /\ host' = [host EXCEPT ![h] = Idle]
    /\ answer' = [answer EXCEPT ![h] = [NoAnswer EXCEPT !.kind = kind]]

Goto(h, next) == host' = [host EXCEPT ![h] = next] /\ UNCHANGED answer

\* A client asks (again); a sealed answer is final for it.
Start(h) ==
    /\ host[h].pc = "idle" /\ answer[h].kind # "sealed"
    /\ Goto(h, [Idle EXCEPT
                   !.pc = IF request[h].lane = "v5" THEN "resolve" ELSE "record"])
    /\ UNCHANGED <<scanVars, tape, ckpts, rows, live, request, others, crashes>>

ResolveSource(h) ==
    /\ host[h].pc = "resolve"
    /\ LET d == request[h].body
       IN /\ Resolve(d)
          /\ \E source \in {Resolved(scans'[d], index', d)} :
                IF source = 0 THEN Refuse(h, "reconciliation_required")
                ELSE Goto(h, [host[h] EXCEPT !.pc = "record", !.source = source])
    /\ UNCHANGED <<tape, ckpts, rows, live, request, others, crashes>>

\* What the record transaction finds.  A retry is told from a conflict by its
\* identity first; only a new admission needs a live window.
DispatchRetry(row, r) ==
    IF row.request # r THEN "conflict"
    ELSE IF DispatchVerifies(row) THEN "existing" ELSE "reconciliation_required"
DispatchRecord(r) ==
    IF ByKey(r) # {} THEN DispatchRetry(CHOOSE row \in ByKey(r) : TRUE, r)
    ELSE IF RowsOf(r) # {} THEN "conflict"
    ELSE IF DispatchEvents(r) # {} THEN "reconciliation_required"
    ELSE IF live THEN "new" ELSE "rejected"

\* The identity of a plan is its request id and the digest of its content.
PlanRetry(row, r) ==
    IF row.request.slot # r.slot THEN "conflict"
    ELSE IF row.request # r \/ ~PlanVerifies(row) THEN "reconciliation_required"
    ELSE "existing"
PlanRecord(r) ==
    IF ByKey(r) # {} THEN PlanRetry(CHOOSE row \in ByKey(r) : TRUE, r)
    ELSE IF RowsOf(r) # {} THEN "conflict" ELSE "new"

V5Record(r, source) ==
    IF ~WitnessesVerify(r.body) THEN "rejected"
    ELSE IF Resolved(scans[r.body], index, r.body) # source
    THEN "reconciliation_required"
    ELSE IF BySource(r, source) # {} THEN "existing"
    ELSE IF RowsOf(r) # {} THEN "conflict" ELSE "new"

RecordOutcome_once(r, source) == IF RowsOf(r) # {} THEN "conflict" ELSE "new"
RecordOutcome(r, source) ==
    CASE r.lane = "dispatch" -> DispatchRecord(r)
      [] r.lane = "plan" -> PlanRecord(r)
      [] r.lane = "v5" -> V5Record(r, source)

Existing(r, source) ==
    CHOOSE row \in (IF r.lane = "v5" THEN BySource(r, source) ELSE ByKey(r)) : TRUE

\* Event, detached signature and projection row, in one commit.
Insert(r, source) ==
    /\ tape' = Append(tape, [kind |-> r.lane, of |-> r])
    /\ rows' = rows \cup {[request |-> r, source |-> source, event |-> Len(tape) + 1,
                           state |-> "awaiting_checkpoint", ckpt |-> 0]}

Record(h) ==
    /\ host[h].pc = "record"
    /\ LET r == request[h]
           source == host[h].source
           outcome == RecordOutcome(r, source)
       IN \/ /\ outcome = "new"
             /\ Insert(r, source)
             /\ Goto(h, [host[h] EXCEPT !.pc = "check", !.event = Len(tape) + 1])
          \/ /\ outcome = "existing"
             /\ Goto(h, [host[h] EXCEPT !.pc = "check",
                                        !.event = Existing(r, source).event])
             /\ UNCHANGED <<tape, rows>>
          \/ /\ outcome \in Refusals
             /\ Refuse(h, outcome)
             /\ UNCHANGED <<tape, rows>>
    /\ UNCHANGED <<scanVars, ckpts, live, request, others, crashes>>

\* The first seal transaction: a row sealed earlier needs nothing more.
CheckStored(h) ==
    /\ host[h].pc = "check"
    /\ LET row == RowAt(request[h], host[h].event)
       IN IF ~Verifies(row) THEN Refuse(h, "reconciliation_required")
          ELSE IF row.state = "sealed"
               THEN Goto(h, [host[h] EXCEPT !.pc = "verify", !.ckpt = row.ckpt])
               ELSE Goto(h, [host[h] EXCEPT !.pc = "prefix"])
    /\ UNCHANGED <<scanVars, tape, ckpts, rows, live, request, others, crashes>>

\* seal_*_admission_prefix: re-verify, then seal in the same transaction.
SealPrefix(h) ==
    /\ host[h].pc = "prefix"
    /\ LET row == RowAt(request[h], host[h].event)
       IN IF Verifies(row) /\ CanSeal(ckpts)
          THEN /\ ckpts' = Sealed(tape, ckpts)
               /\ Goto(h, [host[h] EXCEPT !.pc = "cover", !.ckpt = Len(ckpts')])
          ELSE Refuse(h, "reconciliation_required") /\ UNCHANGED ckpts
    /\ UNCHANGED <<scanVars, tape, rows, live, request, others, crashes>>

\* fully_covering_*_checkpoint: the latest one, over the complete prefix.
StillCovering(k, event) == k = Len(ckpts) /\ FullyCovered(tape, ckpts)

\* A read outside any transaction; a checkpoint that is not ours ends it.
ReadCover(h) ==
    /\ host[h].pc = "cover"
    /\ IF StillCovering(host[h].ckpt, host[h].event)
       THEN Goto(h, [host[h] EXCEPT !.pc = "mark"])
       ELSE Refuse(h, "reconciliation_required")
    /\ UNCHANGED <<scanVars, tape, ckpts, rows, live, request, others, crashes>>

MayMark(row, k) ==
    /\ Verifies(row)
    /\ IF row.state = "sealed" THEN row.ckpt = k ELSE StillCovering(k, row.event)

Marked(row, k) == [row EXCEPT !.state = "sealed", !.ckpt = k]

MarkSealed(h) ==
    /\ host[h].pc = "mark"
    /\ LET row == RowAt(request[h], host[h].event)
       IN IF MayMark(row, host[h].ckpt)
          THEN /\ rows' = (rows \ {row}) \cup {Marked(row, host[h].ckpt)}
               /\ Goto(h, [host[h] EXCEPT !.pc = "verify"])
          ELSE Refuse(h, "reconciliation_required") /\ UNCHANGED rows
    /\ UNCHANGED <<scanVars, tape, ckpts, live, request, others, crashes>>

\* The postcondition before a client sees the seal: dispatch reopens trusted
\* recovery, plan re-resolves through a fresh connection, V5 has none.
DispatchFresh(row, k) == TrustedOpen(tape, ckpts) /\ row.event <= ckpts[k]
PlanFresh(row, k) == PlanVerifies(row) /\ row.state = "sealed" /\ row.ckpt = k
FreshlyVerified(h) ==
    LET row == RowAt(request[h], host[h].event)
    IN CASE request[h].lane = "dispatch" -> DispatchFresh(row, host[h].ckpt)
         [] request[h].lane = "plan" -> PlanFresh(row, host[h].ckpt)
         [] OTHER -> TRUE

Answer(h) ==
    /\ host[h].pc = "verify"
    /\ IF FreshlyVerified(h)
       THEN /\ host' = [host EXCEPT ![h] = Idle]
            /\ answer' = [answer EXCEPT ![h] =
                   [kind |-> "sealed", event |-> host[h].event, ckpt |-> host[h].ckpt]]
       ELSE Refuse(h, "reconciliation_required")
    /\ UNCHANGED <<scanVars, tape, ckpts, rows, live, request, others, crashes>>

\* The process dies: what was committed stays, the client hears nothing.
Crash(h) ==
    /\ host[h].pc # "idle" /\ crashes < MaxCrashes
    /\ crashes' = crashes + 1
    /\ host' = [host EXCEPT ![h] = Idle]
    /\ UNCHANGED <<scanVars, tape, ckpts, rows, live, request, others, answer>>

-----------------------------------------------------------------------------
(* Everyone else on the run *)

\* Time passes the dispatch's deadline; only V3 admissions look at it.
CloseWindow ==
    /\ \E h \in Hosts : request[h].lane = "dispatch"
    /\ live /\ live' = FALSE
    /\ UNCHANGED <<scanVars, tape, ckpts, rows, request, others, host, answer, crashes>>

ForeignDispatch(r) ==
    /\ Len(tape) < others.upto
    /\ tape' = Append(tape, [kind |-> "dispatch", of |-> r])
    /\ UNCHANGED <<scanVars, ckpts, rows, live, request, others, host, answer, crashes>>

PlannerAppends(d, grade) ==
    /\ Len(tape) < others.upto
    /\ AppendSigned(d, grade)
    /\ tape' = Append(tape, [kind |-> "dispatch_v5", of |-> d])
    /\ UNCHANGED <<ckpts, rows, live, request, others, host, answer, crashes>>

\* An unsigned envelope is not part of the signed tape until it is signed.
PlannerAppendsUnsigned(d) ==
    /\ Len(tape) < others.upto /\ \A e \in DOMAIN envelopes : Signed(e)
    /\ AppendEnvelope(d)
    /\ UNCHANGED <<tape, ckpts, rows, live, request, others, host, answer, crashes>>
PlannerSigns(e) ==
    /\ Len(tape) < others.upto
    /\ SignEnvelope(e, "verified")
    /\ tape' = Append(tape, [kind |-> "dispatch_v5", of |-> envelopes[e]])
    /\ UNCHANGED <<ckpts, rows, live, request, others, host, answer, crashes>>

\* A governed control of another writer seals whatever it finds.
OthersSeal ==
    /\ ~FullyCovered(tape, ckpts) /\ Len(ckpts) < MaxCkpts
    /\ ckpts' = Sealed(tape, ckpts)
    /\ UNCHANGED <<scanVars, tape, rows, live, request, others, host, answer, crashes>>

HostStep(h) ==
    \/ Start(h) \/ ResolveSource(h) \/ Record(h) \/ CheckStored(h)
    \/ SealPrefix(h) \/ ReadCover(h) \/ MarkSealed(h) \/ Answer(h)

Next ==
    \/ \E h \in Hosts : HostStep(h) \/ Crash(h)
    \/ CloseWindow \/ OthersSeal
    \/ \E r \in others.foreign : ForeignDispatch(r)
    \/ \E d \in others.late, grade \in Grades : PlannerAppends(d, grade)
    \/ \E d \in others.late : PlannerAppendsUnsigned(d)
    \/ \E e \in DOMAIN envelopes : PlannerSigns(e)

\* Every client keeps asking and no host stops for good.
Spec == Init /\ [][Next]_vars
FairSpec == Spec /\ \A h \in Hosts : WF_vars(HostStep(h))

-----------------------------------------------------------------------------
\* However hosts race, crash and retry, a workflow attempt and an idempotency
\* key are admitted at most once: no two rows, and no two admission events.
\* Whoever is answered "sealed" holds the evidence on disk, and two clients
\* with the same request hold the same evidence.
OneAdmission ==
    /\ \A p, q \in rows : SameIdentity(p.request, q.request) => p = q
    /\ \A i, j \in DOMAIN tape :
        /\ tape[i].kind \in {"plan", "v5"} /\ tape[j].kind = tape[i].kind
        /\ SameIdentity(tape[i].of, tape[j].of)
        => i = j
    /\ \A h \in Hosts :
        answer[h].kind = "sealed" =>
        /\ \E row \in rows : /\ row.request = request[h] /\ row.state = "sealed"
                             /\ row.event = answer[h].event /\ row.ckpt = answer[h].ckpt
        /\ \A k \in Hosts : answer[k].kind = "sealed" /\ request[k] = request[h]
                            => answer[k] = answer[h]

\* A V5 admission is recorded, and sealed, only while its source is the only
\* verified envelope with that digest, although the search for it was split over
\* earlier calls and the tape grew meanwhile; a dispatch is sealed only while it
\* is the run's only V3 dispatch for its key and its attempt; and when a row is
\* marked its checkpoint, sealed two commits earlier, is the latest and complete.
AdmissionIsExact ==
    [][\A row \in rows' \ rows :
          /\ row.request.lane = "v5" => VerifiedSources(row.request.body) = {row.source}
          /\ row.state = "sealed" =>
                /\ row.ckpt = Len(ckpts) /\ ckpts[row.ckpt] = Len(tape)
                /\ row.request.lane = "dispatch" =>
                      \A i \in DOMAIN tape :
                          /\ tape[i].kind = "dispatch"
                          /\ \/ tape[i].of.idem = row.request.idem
                             \/ tape[i].of.slot = row.request.slot
                          => i = row.event]_vars

\* An admission that was recorded is eventually sealed although every step of
\* its host may be lost and retried, unless its identity became contested.
Contested(r) ==
    CASE r.lane = "dispatch" -> Cardinality(DispatchEvents(r)) > 1
      [] r.lane = "v5" -> Cardinality(VerifiedSources(r.body)) > 1
      [] OTHER -> FALSE
RecordedIsSealed ==
    \A h \in Hosts :
        (\E row \in rows : row.request = request[h])
        ~> (Contested(request[h])
            \/ \E row \in rows : row.request = request[h] /\ row.state = "sealed")
=============================================================================
