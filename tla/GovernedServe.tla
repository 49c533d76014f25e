---------------------------- MODULE GovernedServe ----------------------------
(***************************************************************************)
(* The activity controls of `ledger serve` (bp-ledger/src/serve.rs) over   *)
(* the lease table of ActivityClaim.  A session is one process reading     *)
(* control lines from one host.  A governed session seals the signed       *)
(* prefix before it touches the table, applies the control in one store    *)
(* transaction, seals again, and only then writes the answer; a legacy     *)
(* session never forces a checkpoint.  Sealing, applying and answering are *)
(* separate steps, so another session, a tick or a crash may fall between. *)
(***************************************************************************)
EXTENDS ActivityClaim

CONSTANTS
    Sessions,   \* serve processes on the same ledger and run
    Governed,   \* the sessions opened by serve_governed_with_protocol
    Runs,       \* run ids a host may name on the wire
    BoundRun,   \* GovernedServeProtocolConfigV1.expected_run_id
    MaxStarts,  \* bound: process starts
    MaxAnswers  \* bound: control lines answered

Idle == [pc |-> "idle"]

\* The host's control lines.  The wire reaches the generic claim lane only.
ClaimControls ==
    [op : {"claim_activity_v1"}, key : Keys,
     request : ClaimRequests({"generic"})]
ResultControls ==
    [op : {"record_activity_result_v1"}, key : Keys, activity : Activities,
     lease : Leases, outcome : Outcomes, evidence : Evidence]
HeartbeatControls ==
    [op : {"heartbeat_activity_v1"}, key : Keys, activity : Activities,
     lease : Leases, heartbeat : HeartbeatIds]

VARIABLES
    covered,  \* length of the prefix under the latest signed checkpoint
    session,  \* "down", "awaiting_handshake" or "ingesting"
    work,     \* the control a session is in the middle of
    starts,   \* process starts so far
    answers   \* dispositions written to hosts, in order

serveVars == <<covered, session, work, starts, answers>>

ServeInit ==
    /\ Init
    /\ covered = 0
    /\ session = [s \in Sessions |-> "down"]
    /\ work = [s \in Sessions |-> Idle]
    /\ starts = 0
    /\ answers = <<>>

-----------------------------------------------------------------------------
(* Opening and ending a session *)

StartServe(s) ==
    /\ session[s] = "down" /\ starts < MaxStarts
    /\ session' = [session EXCEPT ![s] = "awaiting_handshake"]
    /\ starts' = starts + 1
    /\ UNCHANGED <<vars, covered, work, answers>>

\* A governed session is bound to one run from its configuration.
RunAccepted(s, run) == s \in Governed => run = BoundRun

Handshake(s, run) ==
    /\ session[s] = "awaiting_handshake"
    /\ session' = [session EXCEPT ![s] =
                       IF RunAccepted(s, run) THEN "ingesting" ELSE "down"]
    /\ UNCHANGED <<vars, covered, work, starts, answers>>

\* A close, an end of input, a malformed line, a second handshake, a caller's
\* event or (governed) a control for another run ends the read loop.
EndSession(s) ==
    /\ session[s] # "down" /\ work[s] = Idle
    /\ session' = [session EXCEPT ![s] = "down"]
    /\ UNCHANGED <<vars, covered, work, starts, answers>>

\* The process dies, or a seal fails, with a control half done: the store
\* keeps what was committed and the host never sees an answer.
Crash(s) ==
    /\ work[s] # Idle
    /\ session' = [session EXCEPT ![s] = "down"]
    /\ work' = [work EXCEPT ![s] = Idle]
    /\ UNCHANGED <<vars, covered, starts, answers>>

-----------------------------------------------------------------------------
(* One control line *)

\* seal_governed_control_prefix: a checkpoint over the complete signed prefix,
\* already there or emitted now.  Legacy endpoints do not force one.
seal_governed_control_prefix_skipped(s) == covered
seal_governed_control_prefix(s) == IF s \in Governed THEN Len(tape) ELSE covered

ReceiveControl(s, control) ==
    /\ session[s] = "ingesting" /\ work[s] = Idle
    /\ Len(answers) < MaxAnswers
    /\ covered' = seal_governed_control_prefix(s)
    /\ work' = [work EXCEPT ![s] = [pc |-> "apply", control |-> control]]
    /\ UNCHANGED <<vars, session, starts, answers>>

Disposition_pending(c) ==
    IF c.op = "claim_activity_v1"
    THEN IF claims[c.key] = NoClaim THEN ClaimDisposition(c.request) ELSE "pending"
    ELSE IF c.op = "record_activity_result_v1"
         THEN ResultDisposition(c.key, c.activity, c.lease, c.outcome, c.evidence)
    ELSE HeartbeatDisposition(c.key, c.activity, c.lease, c.heartbeat)
Disposition(c) ==
    IF c.op = "claim_activity_v1" THEN ClaimDisposition(c.request)
    ELSE IF c.op = "record_activity_result_v1"
         THEN ResultDisposition(c.key, c.activity, c.lease, c.outcome, c.evidence)
    ELSE HeartbeatDisposition(c.key, c.activity, c.lease, c.heartbeat)

Writes(disposition, c) ==
    disposition = IF c.op = "claim_activity_v1" THEN "granted" ELSE "recorded"

StoreOperation(c) ==
    \/ c.op = "claim_activity_v1" /\ ClaimActivity(c.request)
    \/ /\ c.op = "record_activity_result_v1"
       /\ RecordActivityResult(c.key, c.activity, c.lease, c.outcome, c.evidence)
    \/ /\ c.op = "heartbeat_activity_v1"
       /\ HeartbeatActivity(c.key, c.activity, c.lease, c.heartbeat)

\* A store error is answered at once; every disposition waits for its seal.
AfterStore(disposition) == IF disposition = "rejected" THEN "respond" ELSE "seal"

ApplyControl(s) ==
    /\ work[s].pc = "apply"
    /\ LET c == work[s].control
           disposition == Disposition(c)
       IN /\ IF Writes(disposition, c) THEN StoreOperation(c) ELSE UNCHANGED vars
          /\ work' = [work EXCEPT ![s] =
                 [pc |-> AfterStore(disposition), control |-> c,
                  answer |-> [session |-> s, op |-> c.op, key |-> c.key,
                              outcome |-> disposition, upto |-> Len(tape')]]]
    /\ UNCHANGED <<covered, session, starts, answers>>

SealAnswer(s) ==
    /\ work[s].pc = "seal"
    /\ covered' = seal_governed_control_prefix(s)
    /\ work' = [work EXCEPT ![s].pc = "respond"]
    /\ UNCHANGED <<vars, session, starts, answers>>

WriteDisposition(s) ==
    /\ work[s].pc = "respond"
    /\ answers' = Append(answers, work[s].answer)
    /\ work' = [work EXCEPT ![s] = Idle]
    /\ UNCHANGED <<vars, covered, session, starts>>

ServeTick == Tick /\ UNCHANGED serveVars

ServeNext ==
    \/ ServeTick
    \/ \E s \in Sessions :
        \/ StartServe(s) \/ EndSession(s) \/ Crash(s)
        \/ \E run \in Runs : Handshake(s, run)
        \/ \E c \in ClaimControls : c.key = c.request.key /\ ReceiveControl(s, c)
        \/ \E c \in ResultControls : ReceiveControl(s, c)
        \/ \E c \in HeartbeatControls : ReceiveControl(s, c)
        \/ ApplyControl(s) \/ SealAnswer(s) \/ WriteDisposition(s)

ServeSpec == ServeInit /\ [][ServeNext]_<<vars, serveVars>>

-----------------------------------------------------------------------------
\* A governed host never holds an answer that is not yet under a checkpoint:
\* every event the disposition was read from is covered when it is written
\* ("Seal the configured governed run before reporting a control disposition").
AnswersAreSealed ==
    \A i \in 1 .. Len(answers) :
        answers[i].session \in Governed /\ answers[i].outcome # "rejected"
        => answers[i].upto <= covered

\* However many sessions race, crash and retry, what hosts are told of a key
\* stands.  At most one host is ever told "granted": a grant whose answer was
\* lost is never issued again.  And once any host has been told its result was
\* recorded, no later claim answer says pending or granted.
DispositionsStand ==
    [][/\ \A i, j \in 1 .. Len(answers') :
            /\ answers'[i].outcome = "granted" /\ answers'[j].outcome = "granted"
            /\ answers'[i].key = answers'[j].key
            => i = j
       /\ \A s \in Sessions, i \in 1 .. Len(answers) :
            /\ answers[i].op = "record_activity_result_v1"
            /\ answers[i].outcome \in {"recorded", "existing"}
            /\ work[s].pc = "apply" /\ work'[s].pc \in {"seal", "respond"}
            /\ work[s].control.op = "claim_activity_v1"
            /\ work[s].control.key = answers[i].key
            => work'[s].answer.outcome \in {"recorded", "rejected"}]_<<vars, serveVars>>
=============================================================================
