------------------------- MODULE CandidateCompletion -------------------------
(***************************************************************************)
(* record_governed_candidate_completion_v1 of bp-ledger storage/sqlite.rs: *)
(* the proof that the candidate of a sealed-V3 or graph-bound V4 dispatch  *)
(* is what its whole action set produced.  The control rebuilds the proof  *)
(* from the signed tape of one run, which anybody holding the kernel key   *)
(* extends through the generic append, and it uses two transactions: one   *)
(* commits the completion, the other seals the tape and lets the answer    *)
(* out.  Between them, and between a lost answer and its retry, the tape   *)
(* may grow.                                                               *)
(*                                                                         *)
(* An event is named by its place on the tape.  The attempt (att) stands   *)
(* for the run, workflow, unit, provenance and digests every event copies  *)
(* from its dispatch; the clock is one for the whole host, so the payload  *)
(* times follow the tape and only leases are compared.  Checkpoints are    *)
(* not on the tape: sealed is the prefix the last of them covers.          *)
(***************************************************************************)
EXTENDS Integers, Sequences, FiniteSets, FiniteSetsExt

CONSTANTS
    Callers,            \* processes asking for it until they are answered
    LeaseDuration,
    EffectiveDeadline,  \* end of the window a dispatch gives its effects
    MaxTime,            \* bound: the clock
    MaxSlips,           \* bound: failures, and appends out of protocol
    none

VARIABLES tape, rows, sealed, now, slips, call

vars == <<tape, rows, sealed, now, slips, call>>

-----------------------------------------------------------------------------
(* Events *)

Dispatch(outer, att, role, key, graph) ==
    [kind |-> "dispatch", outer |-> outer, att |-> att, role |-> role,
     key |-> key, graph |-> graph]
Graph(nodes) == [kind |-> "graph", nodes |-> nodes]
\* An identity: a namespaced action, or a bare key.
Action(ns, kind) == [ns |-> ns, kind |-> kind]
Bare(key) == Action(key, none)
Request(att, act, key, parent) ==
    [kind |-> "request", att |-> att, act |-> act, key |-> key,
     parent |-> parent]
Granted(request, at, until, purpose) ==
    [kind |-> "claim", parent |-> request, at |-> at, until |-> until,
     purpose |-> purpose]
Heartbeat(claim, at, until) ==
    [kind |-> "heartbeat", parent |-> claim, at |-> at, until |-> until]
Result(claim, at, out) ==
    [kind |-> "result", parent |-> claim, at |-> at, out |-> out]
Receipt(att, act, result, out) ==
    [kind |-> "receipt", att |-> att, act |-> act, parent |-> result,
     out |-> out]
ReceiptSet(att, entries) ==
    [kind |-> "receipt_set", att |-> att, entries |-> entries]
Candidate(att, set, ref) ==
    [kind |-> "candidate", att |-> att, parent |-> set, ref |-> ref]
Context(att, prior, terminal, receipt, ns, key) ==
    [kind |-> "context", att |-> att, prior |-> prior, terminal |-> terminal,
     receipt |-> receipt, ns |-> ns, key |-> key]
Lifecycle(kind, att, out) == [kind |-> kind, att |-> att, out |-> out]
Completion(candidate, proof) ==
    [kind |-> "completion", parent |-> candidate, proof |-> proof]

(* The tapes the last dispatch of a run may end: a first attempt, with or  *)
(* without its graph, and a retry of an attempt that failed under a lease  *)
(* a heartbeat extended.                                                   *)

Sealed(outer, att, role, graph) ==
    Dispatch(outer, att, role, Bare(IF att = 1 THEN "d1" ELSE "d2"), graph)
FirstAttempts ==
    {<<Sealed("V3", 1, role, none)>> : role \in {"implementer", "reviewer"}}
    \cup {<<Graph(n), Sealed("V4", 1, "implementer", 1)>> : n \in 1 .. 2}
    \cup {<<Graph(1), Lifecycle("activity", 1, none),
            Sealed("V4", 1, "implementer", 1)>>}

Git == Action(none, "git")
Retried(outer, at, purpose, out, contexts) ==
    <<Sealed("V3", 1, "implementer", none), Request(1, Git, Git, 1),
      Granted(2, -3, -2, purpose), Heartbeat(3, -3, -1),
      Result(3, at, "failed"), Receipt(1, Git, 5, "failed"),
      Lifecycle("terminal", 1, out)>>
    \o contexts \o <<Sealed(outer, 2, "implementer", 1)>>
SoleContext == Context(2, 1, 7, 6, "n2", Bare("d2"))
Retries ==
    {Retried("V3", at, "generic", "failed", <<SoleContext>>) : at \in {-3, -2}}
    \cup {Retried("V3", -3, "command", "failed", <<SoleContext>>),
          Retried("V3", -3, "generic", "cancelled", <<SoleContext>>),
          Retried("V4", -3, "generic", "failed", <<SoleContext>>)}
    \cup {Retried("V3", -3, "generic", "failed", contexts) :
             contexts \in {<<>>, <<SoleContext, SoleContext>>,
                          <<[SoleContext EXCEPT !.ns = "d1"]>>}}

\* verified_kernel_events_for_run_kind
Kind(k) == {i \in DOMAIN tape : tape[i].kind = k}
Children(k, p) == {i \in Kind(k) : tape[i].parent = p}
\* unique_verified_kernel_event_matching
One(S) == Cardinality(S) = 1
The(S) == CHOOSE i \in S : TRUE

Att(d) == tape[d].att
ActionsOf(att) == {i \in Kind("request") : tape[i].att = att}
ClaimOf(r) == The(Children("claim", r))
ResultOf(r) == The(Children("result", ClaimOf(r)))

-----------------------------------------------------------------------------
(* The dispatch *)

validate_static_dispatch(d) == tape[d].role # "reviewer"

\* Before a graph-bound dispatch the tape holds its one-node graph only.
SingletonGraph(d) ==
    LET g == tape[d].graph IN
    /\ Att(d) = 1
    /\ g \in Kind("graph") /\ tape[g].nodes = 1
    /\ 1 .. d - 1 = {g}

-----------------------------------------------------------------------------
(* A retry: the signed context of the failed attempt before it *)

RetryContextsDistinct ==
    \A i, j \in Kind("context") :
        i # j => /\ tape[i].key # tape[j].key /\ tape[i].ns # tape[j].ns
                 /\ tape[i].prior # tape[j].prior

ContextsOf(d) == {i \in Kind("context") : tape[i].att = Att(d)}
ContextOf(d) == The(ContextsOf(d))
ExactContext(d) ==
    /\ One(ContextsOf(d)) /\ ContextOf(d) < d
    /\ tape[ContextOf(d)].key = tape[d].key
    /\ Att(tape[ContextOf(d)].prior) + 1 = Att(d)

PriorDispatch(x) ==
    LET p == tape[x].prior IN
    /\ p \in Kind("dispatch") /\ p < x
    /\ tape[p].outer = "V3" /\ validate_static_dispatch(p)

PriorTerminal(x) ==
    LET t == tape[x].terminal IN
    /\ t \in Kind("terminal") /\ tape[x].prior < t /\ t < x
    /\ tape[t].att = Att(tape[x].prior) /\ tape[t].out = "failed"

PriorReceipt(x) ==
    LET r == tape[x].receipt IN
    /\ r \in Kind("receipt") /\ tape[r].att = Att(tape[x].prior)
    /\ tape[r].out = "failed" /\ r < tape[x].terminal

\* The request, the claim and the result the failed receipt stands for.  The
\* result lies inside the lease as it was granted: heartbeats do not count.
PriorRequests(x) ==
    {i \in ActionsOf(Att(tape[x].prior)) :
        tape[i].act = tape[tape[x].receipt].act}
PriorRequest(x) ==
    /\ One(PriorRequests(x))
    /\ tape[The(PriorRequests(x))].parent = tape[x].prior
    /\ The(PriorRequests(x)) < tape[x].receipt
PriorClaim(x) ==
    LET r == The(PriorRequests(x)) IN
    /\ One(Children("claim", r)) /\ r < ClaimOf(r)
    /\ tape[ClaimOf(r)].purpose = "generic"
    /\ tape[ClaimOf(r)].until <= EffectiveDeadline
PriorResult(x) ==
    LET r == The(PriorRequests(x)) IN
    /\ One(Children("result", ClaimOf(r)))
    /\ tape[ResultOf(r)].out = "failed"
    /\ tape[ResultOf(r)].at < tape[ClaimOf(r)].until
    /\ tape[tape[x].receipt].parent = ResultOf(r)

PriorKeys(x) == {tape[i].key : i \in ActionsOf(Att(tape[x].prior))}
PriorIdentities(x) ==
    LET S == ActionsOf(Att(tape[x].prior)) IN
    /\ \A i \in S : tape[i].parent = tape[x].prior
    /\ \A i, j \in S : i # j => /\ tape[i].act # tape[j].act
                                /\ tape[i].key # tape[j].key
FreshNamespace(x) ==
    {tape[x].key, Bare(tape[x].ns)}
        \cap ({tape[tape[x].prior].key} \cup PriorKeys(x)) = {}

verify_retry_context(d) ==
    /\ tape[d].outer = "V3" /\ RetryContextsDistinct /\ ExactContext(d)
    /\ LET x == ContextOf(d) IN
       /\ PriorDispatch(x) /\ PriorTerminal(x) /\ PriorReceipt(x)
       /\ PriorRequest(x) /\ PriorClaim(x) /\ PriorResult(x)
       /\ PriorIdentities(x) /\ FreshNamespace(x)

Namespace(d) == IF ContextsOf(d) = {} THEN none ELSE tape[ContextOf(d)].ns
\* candidate_create_action_identity_for: a retry has its own namespace.
CandidateAction(d) == Action(Namespace(d), "git")

\* resolve_governed_v3_retry_candidate_action_identity_v1, what a worker
\* asks before it requests the candidate of a retry.
ResolvesIdentity(d) ==
    Att(d) > 1 /\ validate_static_dispatch(d) /\ verify_retry_context(d)

\* verify_governed_v3_retry_candidate_claim_identity, before the lease.
ClaimIdentityDerived(r, d) ==
    tape[r].act.kind = "git" /\ Att(d) > 1 =>
        /\ validate_static_dispatch(d) /\ verify_retry_context(d)
        /\ tape[r].act = CandidateAction(d) /\ tape[r].key = tape[r].act

-----------------------------------------------------------------------------
(* Leases rebuilt from the tape *)

\* The lease a heartbeat extends: the claim or the heartbeat before it.
Extended(c, h) ==
    Max({c} \cup {g \in Children("heartbeat", c) : g < h})
EffectiveExpiry(c) == tape[Max({c} \cup Children("heartbeat", c))].until
LeaseForward(c, result) ==
    \A h \in Children("heartbeat", c) :
        LET g == Extended(c, h) IN
        /\ c < h /\ h < result
        /\ tape[h].at < tape[g].until /\ tape[g].until < tape[h].until
        /\ tape[h].until <= EffectiveDeadline
        /\ g # c => tape[g].at < tape[h].at

ClaimBinds(r) ==
    /\ One(Children("claim", r)) /\ r < ClaimOf(r)
    /\ tape[ClaimOf(r)].purpose = "generic"
    /\ tape[ClaimOf(r)].at < tape[ClaimOf(r)].until
    /\ tape[ClaimOf(r)].until <= EffectiveDeadline

ResultInLease(r) ==
    /\ One(Children("result", ClaimOf(r))) /\ ClaimOf(r) < ResultOf(r)
    /\ LeaseForward(ClaimOf(r), ResultOf(r))
    /\ tape[ResultOf(r)].out = "succeeded"
    /\ tape[ResultOf(r)].at < EffectiveExpiry(ClaimOf(r))

-----------------------------------------------------------------------------
(* The receipt set names every action of the attempt, each of them closed *)

ActionsBind(d, s) ==
    \A i \in ActionsOf(Att(d)) : tape[i].parent = d /\ d < i /\ i < s

RetryIdentities(d) ==
    Att(d) > 1 =>
        \A i \in ActionsOf(Att(d)) :
            /\ tape[i].act.ns = Namespace(d) /\ tape[i].key.ns = Namespace(d)
            /\ tape[i].key \notin PriorKeys(ContextOf(d))
            /\ tape[i].act = CandidateAction(d) => tape[i].key = tape[i].act

IdentitiesDistinct(d) ==
    LET S == ActionsOf(Att(d)) IN
    /\ \A i, j \in S : i # j => /\ tape[i].act # tape[j].act
                                /\ tape[i].key # tape[j].key
    /\ \E i \in S : tape[i].act = CandidateAction(d)

EntriesExact(d, s) ==
    /\ {e.act : e \in tape[s].entries} =
           {tape[i].act : i \in ActionsOf(Att(d))}
    /\ Cardinality(tape[s].entries) = Cardinality(ActionsOf(Att(d)))

EntryOf(s, act) == CHOOSE e \in tape[s].entries : e.act = act

ActionClosed(r, s) ==
    LET e == EntryOf(s, tape[r].act).ref IN
    /\ tape[r].act.kind # "model"
    /\ ClaimBinds(r) /\ ResultInLease(r)
    /\ e \in Kind("receipt") /\ e < s
    /\ tape[e].act = tape[r].act /\ tape[e].att = tape[r].att
    /\ tape[e].out = "succeeded" /\ tape[e].parent = ResultOf(r)
    /\ ResultOf(r) < e

NoCompetingReceipt(d, s) ==
    \A i \in Kind("receipt") :
        tape[i].att = Att(d) => [act |-> tape[i].act, ref |-> i]
                                    \in tape[s].entries

ReceiptSetComplete(d, s) ==
    /\ ActionsBind(d, s) /\ RetryIdentities(d) /\ IdentitiesDistinct(d)
    /\ EntriesExact(d, s)
    /\ \A r \in ActionsOf(Att(d)) : ActionClosed(r, s)
    /\ NoCompetingReceipt(d, s)

-----------------------------------------------------------------------------
(* The evidence of a completion *)

CandidateBinds(c, d) == tape[c].att = Att(d) /\ tape[c].ref = Att(d)

\* The candidate directly follows the set it names.
FollowsReceiptSet(c, d) ==
    /\ tape[c].parent \in Kind("receipt_set") /\ tape[c].parent < c
    /\ tape[tape[c].parent].att = Att(d)

\* Any of these, before or after the candidate, closes the lifecycle.
LifecycleOpen(d, c) ==
    \A i \in DOMAIN tape \ {c, tape[c].parent} :
        \/ tape[i].kind \notin {"cancellation", "terminal", "candidate",
                                "receipt_set", "acceptance"}
        \/ tape[i].att # Att(d)

\* The chain of the action that made the candidate, bound by the checks
\* of ActionClosed.
CreateRequest(d) ==
    The({i \in ActionsOf(Att(d)) : tape[i].act = CandidateAction(d)})
CreateClaim(d) == ClaimOf(CreateRequest(d))
CreateResult(d) == ResultOf(CreateRequest(d))
CreateReceipt(d, c) == EntryOf(tape[c].parent, CandidateAction(d)).ref

CompletionProof(d, c) ==
    [action |-> CandidateAction(d), request |-> CreateRequest(d),
     claim |-> CreateClaim(d), result |-> CreateResult(d),
     receipt |-> CreateReceipt(d, c)]

ActionEvents(d) ==
    LET S == ActionsOf(Att(d)) IN
    S \cup {ClaimOf(r) : r \in S} \cup {ResultOf(r) : r \in S}
      \cup UNION {Children("heartbeat", ClaimOf(r)) : r \in S}

\* A graph-bound tape holds nothing but the chain the proof rests on.
SingletonClosure(d, c, existing) ==
    DOMAIN tape =
        ActionEvents(d) \cup {e.ref : e \in tape[tape[c].parent].entries}
        \cup {tape[d].graph, d, tape[c].parent, c} \cup existing

DispatchAdmits(d) ==
    /\ tape[d].outer = "V4" => SingletonGraph(d)
    /\ validate_static_dispatch(d)
    /\ Att(d) > 1 => verify_retry_context(d)

CompletionEvidence(d, c, existing) ==
    /\ DispatchAdmits(d)
    /\ CandidateBinds(c, d) /\ FollowsReceiptSet(c, d)
    /\ LifecycleOpen(d, c)
    /\ ReceiptSetComplete(d, tape[c].parent)
    /\ tape[d].outer = "V4" => SingletonClosure(d, c, existing)

CompletionProjected(c, expected) == Children("completion", c) = expected

-----------------------------------------------------------------------------
Init ==
    /\ tape \in FirstAttempts \cup Retries /\ rows = {} /\ sealed = 0 /\ now = 0
    /\ slips = 0
    /\ call = [k \in Callers |-> [at |-> "idle"]]

Extends(e) == tape' = Append(tape, e)
Last == Len(tape)
Current == Max(Kind("dispatch"))
SetsOf(att) == {i \in Kind("receipt_set") : tape[i].att = att}
CandidatesOf(att) == {i \in Kind("candidate") : tape[i].att = att}
Writes(e) == Extends(e) /\ UNCHANGED <<rows, sealed, now, call>>
Slips == slips < MaxSlips /\ slips' = slips + 1

(* The writers of one attempt.  What follows the protocol: *)

\* The candidate and one process action, one at a time (a bound), and a
\* request that comes late, once the set is sealed.  A worker retrying asks
\* first for the identity of its candidate.
RequestsAction(kind) ==
    LET d == Current
        a == Action(Namespace(d), kind) IN
    /\ kind = "git" /\ Att(d) > 1 => ResolvesIdentity(d)
    /\ \A i \in ActionsOf(Att(d)) : tape[i].act.kind # kind
    /\ tape[Last].kind \in {"dispatch", "receipt", "receipt_set", "candidate",
                            "completion"}
    /\ Writes(Request(Att(d), a, a, d)) /\ UNCHANGED slips

Open(c) == Children("result", c) = {}
Held == {c \in Kind("claim") : Open(c)}

LeaseEnd ==
    IF now + LeaseDuration < EffectiveDeadline THEN now + LeaseDuration
    ELSE EffectiveDeadline

Claims(r, purpose) ==
    /\ Children("claim", r) = {} /\ now < EffectiveDeadline
    /\ SetsOf(Att(Current)) = {} /\ Held = {}
    /\ ClaimIdentityDerived(r, Current)
    /\ Writes(Granted(r, now, LeaseEnd, purpose))
claim_activity(r) == Claims(r, "generic") /\ UNCHANGED slips
\* The lanes that fix the purpose of a process lease.
claim_governed_command(r) ==
    /\ tape[r].act.kind = "process" /\ tape[Current].role = "implementer"
    /\ Claims(r, "command") /\ Slips
claim_governed_verifier(r) ==
    /\ tape[r].act.kind = "process" /\ tape[Current].role = "reviewer"
    /\ Claims(r, "verifier") /\ UNCHANGED slips

heartbeat_activity(c) ==
    /\ c = Max(Held)
    /\ now < EffectiveExpiry(c) /\ EffectiveExpiry(c) < LeaseEnd
    /\ Writes(Heartbeat(c, now, LeaseEnd)) /\ UNCHANGED slips

\* Once the lease has expired only an unknown outcome may be recorded.
Records(c, out) ==
    /\ c = Max(Held)
    /\ now < EffectiveExpiry(c) \/ out = "unknown"
    /\ Writes(Result(c, now, out))
    /\ IF out = "succeeded" THEN UNCHANGED slips ELSE Slips
record_activity_result(c) ==
    \E out \in {"succeeded", "failed", "unknown"} : Records(c, out)
record_governed_command_result(c) ==
    tape[c].purpose = "command" /\ Records(c, "succeeded")
record_governed_verifier_result(c) ==
    tape[c].purpose = "verifier" /\ Records(c, "succeeded")

RequestOf(c) == tape[c].parent
WritesReceipt(i) ==
    LET r == RequestOf(tape[i].parent) IN
    /\ i = Last
    /\ Writes(Receipt(tape[r].att, tape[r].act, i, tape[i].out))
    /\ UNCHANGED slips

Entries(att) ==
    {[act |-> tape[i].act, ref |-> i] :
        i \in {j \in Kind("receipt") : tape[j].att = att}}
WritesReceiptSet ==
    /\ SetsOf(Att(Current)) = {} /\ Entries(Att(Current)) # {}
    /\ Writes(ReceiptSet(Att(Current), Entries(Att(Current))))
    /\ UNCHANGED slips
WritesCandidate ==
    /\ CandidatesOf(Att(Current)) = {}
    /\ \E s \in SetsOf(Att(Current)) :
           Writes(Candidate(Att(Current), s, Att(Current)))
    /\ UNCHANGED slips

(* What the generic append lets in besides. *)

Irregular ==
    LET d == Current
        e == tape[Last]
        att == Att(d) IN
    CASE e.kind = "request" ->
            {Request(att, e.act, e.act, d),
             Request(att, Action(e.act.ns, "process"), e.key, d),
             Request(att, Action(none, "process"), Action(none, "process"), d),
             Request(att, Action(e.act.ns, "model"),
                     Action(e.act.ns, "model"), d),
             Request(att, Action(e.act.ns, "process"),
                     Action(e.act.ns, "process"), 0)}
      [] e.kind = "claim" ->
            {Granted(e.parent, now, e.until, e.purpose),
             Heartbeat(Last, now, e.until),
             Result(Last, now, "succeeded")}
      [] e.kind = "result" ->
            {e} \cup {Receipt(att, tape[RequestOf(e.parent)].act, Last, out) :
                        out \in {"succeeded", "failed"}}
      [] e.kind = "receipt" ->
            {e, ReceiptSet(att, {}),
             ReceiptSet(att, {[act |-> e.act, ref |-> Last]})}
      [] e.kind = "receipt_set" -> {Candidate(att, Last, att + 1)}
      [] OTHER ->
            {Lifecycle(k, att, "failed") :
                k \in {"cancellation", "terminal", "activity"}}
            \cup {tape[i] : i \in SetsOf(att) \cup CandidatesOf(att)
                                  \cup Kind("completion")}

AppendsIrregular ==
    /\ Slips
    /\ \E e \in Irregular : Writes(e)

\* The next control of the lane follows an answered completion.
RecordsAcceptance ==
    /\ \E k \in Callers : call[k].at = "proved"
    /\ Kind("acceptance") = {}
    /\ Writes(Lifecycle("acceptance", Att(Current), "accepted"))
    /\ UNCHANGED slips

Tick ==
    /\ now < MaxTime /\ Held # {}
    /\ now' = now + 1 /\ UNCHANGED <<tape, rows, sealed, slips, call>>

-----------------------------------------------------------------------------
(* The control *)

RowsOf(c) == {w \in rows : w.candidate = c}
\* Rejected, in need of reconciliation, or dead: the caller may ask again.
Leaves(k) == call' = [call EXCEPT ![k] = [at |-> "idle"]]
Holds(k, d, c, e) ==
    call' = [call EXCEPT ![k] = [at |-> "sealing", dispatch |-> d,
                                 candidate |-> c, event |-> e]]

\* A completion that is already projected: rebuilt and compared, never
\* written again.
resolve_existing_completion(k, d, c) ==
    LET w == The(RowsOf(c)) IN
    /\ IF /\ CompletionEvidence(d, c, {w.event}) /\ w.dispatch = d
          /\ w.proof = CompletionProof(d, c)
          /\ tape[w.event] = Completion(c, w.proof)
          /\ CompletionProjected(c, {w.event})
       THEN Holds(k, d, c, w.event)
       ELSE Leaves(k)
    /\ UNCHANGED <<tape, rows>>

insert_completion(k, d, c) ==
    IF ~(CompletionProjected(c, {}) /\ CompletionEvidence(d, c, {}))
    THEN Leaves(k) /\ UNCHANGED <<tape, rows>>
    ELSE /\ Extends(Completion(c, CompletionProof(d, c)))
         /\ rows' = rows \cup {[candidate |-> c, dispatch |-> d,
                                proof |-> CompletionProof(d, c),
                                event |-> Last + 1]}
         /\ Holds(k, d, c, Last + 1)

\* The first transaction.
record_candidate_completion(k) ==
    /\ call[k].at = "idle"
    /\ \E d \in Kind("dispatch"), c \in Kind("candidate") :
          IF RowsOf(c) # {} THEN resolve_existing_completion(k, d, c)
          ELSE insert_completion(k, d, c)
    /\ UNCHANGED <<sealed, now, slips>>

\* The second: the tape may have grown, so the evidence is rebuilt under the
\* lock that seals it.  The answer leaves with the seal.
seal_completion_prefix_blind(k) ==
    /\ call[k].at = "sealing"
    /\ sealed' = Last
    /\ call' = [call EXCEPT ![k] = [@ EXCEPT !.at = "proved"]]
    /\ UNCHANGED <<tape, rows, now, slips>>
seal_completion_prefix(k) ==
    /\ call[k].at = "sealing"
    /\ LET q == call[k] IN
       IF /\ CompletionProjected(q.candidate, {q.event})
          /\ CompletionEvidence(q.dispatch, q.candidate, {q.event})
       THEN /\ sealed' = Last
            /\ call' = [call EXCEPT ![k] = [@ EXCEPT !.at = "proved"]]
       ELSE Leaves(k) /\ UNCHANGED sealed
    /\ UNCHANGED <<tape, rows, now, slips>>

\* The caller dies between the two; what it committed stays.
Dies(k) ==
    /\ call[k].at = "sealing" /\ Leaves(k)
    /\ UNCHANGED <<tape, rows, sealed, now, slips>>

Writers ==
    \/ \E kind \in {"git", "process"} : RequestsAction(kind)
    \/ \E r \in ActionsOf(Att(Current)) :
          \/ claim_activity(r) \/ claim_governed_command(r)
          \/ claim_governed_verifier(r)
    \/ \E c \in Held :
          \/ heartbeat_activity(c) \/ record_activity_result(c)
          \/ record_governed_command_result(c)
          \/ record_governed_verifier_result(c)
    \/ \E i \in Kind("result") : WritesReceipt(i)
    \/ WritesReceiptSet \/ WritesCandidate
    \/ AppendsIrregular \/ RecordsAcceptance

Next ==
    \/ Writers \/ Tick
    \/ \E k \in Callers :
          \/ record_candidate_completion(k) \/ seal_completion_prefix(k)
          \/ Dies(k)

Spec == Init /\ [][Next]_vars

-----------------------------------------------------------------------------
(* Properties *)

Proved(k) == call[k].at = "proved"
Within(S) == S \cap (1 .. sealed)

\* The action of request r succeeded once, while somebody held its lease,
\* and its receipt says so.
Succeeded(r) ==
    \E c \in Within(Children("claim", r)) :
        \E i \in Within(Children("result", c)) :
            /\ Within(Children("result", c)) = {i}
            /\ tape[i].out = "succeeded"
            /\ \E l \in {c} \cup Children("heartbeat", c) :
                  l < i /\ tape[i].at < tape[l].until
            /\ \E e \in Within(Children("receipt", i)) :
                  tape[e].out = "succeeded"

\* A completion whose answer left is the only one of its candidate; every
\* action requested for its attempt had succeeded under a live lease when the
\* tape was sealed, none of them shares an identity with the attempt it
\* retries, and nothing had ended the workflow; all callers hold the same
\* proof.
CompletionIsProved ==
    \A k \in Callers : Proved(k) =>
        LET q == call[k]
            att == Att(q.dispatch) IN
        /\ Within(Children("completion", q.candidate)) = {q.event}
        /\ \A i \in 1 .. sealed :
              /\ tape[i].kind \in {"cancellation", "terminal"}
                    => tape[i].att # att
              /\ tape[i].kind = "request" /\ tape[i].att = att
                    => /\ Succeeded(i)
                       /\ \A j \in ActionsOf(att - 1) :
                             tape[j].key # tape[i].key
        /\ \A l \in Callers : Proved(l) => call[l].event = q.event
=============================================================================
