--------------------------- MODULE MCWorkflowReplay ---------------------------
(***************************************************************************)
(* Nine tapes, each small enough to be replayed in every order: a          *)
(* candidate taken to promotion under one reviewer, two candidates and one *)
(* reviewer, a dependency graph, a retry, a token budget, three older      *)
(* runs, and a reviewed candidate whose snapshot is published.  Beside     *)
(* them (part), the control that completes a candidate from the same kind  *)
(* of tape before replay ever sees it.                                     *)
(***************************************************************************)
EXTENDS WorkflowReplayProofs, TLC

Dispatch(unit, attempt, version, role) ==
    [unit |-> unit, attempt |-> attempt, version |-> version,
     evidence |-> IF version < 3 THEN none ELSE "sealed_v3", tier |-> "governed",
     role |-> role, rev |-> 1, idem |-> unit, graph |-> none,
     manifests |-> <<>>, maxTokens |-> 2]
Request(d, id, kind, cand) ==
    [key |-> Key(d), id |-> id, kind |-> kind, idem |-> id, ns |-> none, cand |-> cand]

Empty ==
    [name |-> none, dispatches |-> {}, requests |-> {}, graphs |-> {}, manifests |-> {}, contexts |-> {},
     digests |-> {}, results |-> {"Succeeded"}, receipts |-> {"Succeeded"},
     usages |-> {1}, refs |-> {}, verdicts |-> {"Approve"}, acceptances |-> {"Passed"},
     approves |-> FALSE, decisions |-> {"Promote"}, targets |-> {TRUE},
     promotions |-> {"Promoted"}, timers |-> {}, causes |-> {}, terminals |-> {},
     brackets |-> {}, admits |-> FALSE, starts |-> <<>>, prefix |-> 0,
     publishes |-> FALSE, others |-> 0]

Worker == Dispatch("c", 1, 3, "implementer")
Other == Dispatch("d", 1, 3, "implementer")
Reviewer == Dispatch("r", 1, 3, "reviewer")

PromoteTape ==
    [Empty EXCEPT !.name = "promote",
        !.dispatches = {Worker, Reviewer},
        !.requests = {Request(Worker, "git", "git", "x"), Request(Worker, "run", "command", none),
                      Request(Reviewer, "look", "model", none)},
        !.digests = {"x"}, !.results = {"Succeeded", "Unknown"},
        !.receipts = {"Succeeded", "Unknown"},
        !.refs = {"p", "q"}, !.verdicts = {"Approve", "Reject"},
        !.acceptances = {"Passed", "Rejected"}, !.approves = TRUE,
        !.decisions = {"Promote", "Reject"}, !.targets = BOOLEAN,
        !.promotions = PromotionOutcomes,
        !.timers = {"t"}, !.causes = {"operator", "t"},
        !.terminals = {1, 2} \X {"Completed", "Failed", "Cancelled"}]

TwoCandidatesTape ==
    [Empty EXCEPT !.name = "two candidates",
        !.dispatches = {Worker, Other, Reviewer},
        !.requests = {Request(Worker, "git", "git", "x"), Request(Other, "git", "git", "y"),
                      Request(Reviewer, "look", "model", none)},
        !.digests = {"x", "y"}, !.refs = {"p"}, !.promotions = PromotionOutcomes,
        !.verdicts = {"Approve", "Reject"}, !.terminals = {<<1, "Completed">>, <<2, "Failed">>}]

Graph ==
    [version |-> 2, rev |-> 1, max |-> 1,
     nodes |-> [u \in {"c", "d", "e"} |->
                   [deps |-> IF u = "d" THEN {"c"} ELSE {}, role |-> "implementer"]]]
Node4 == [Dispatch("c", 1, 4, "implementer") EXCEPT !.graph = Graph]
NodeE == [Dispatch("e", 1, 4, "implementer") EXCEPT !.graph = Graph]
Node5 == [Dispatch("d", 1, 5, "implementer") EXCEPT !.graph = Graph,
             !.manifests = [kind \in {"context", "worker"} |-> kind]]
Manifest(kind) == [unit |-> "d", attempt |-> 1, rev |-> 1, kind |-> kind, digest |-> kind]

GraphTape ==
    [Empty EXCEPT !.name = "graph",
        !.dispatches = {Node4, Node5, NodeE, Reviewer},
        !.graphs = {Graph, [Graph EXCEPT !.version = 1]},
        !.manifests = {Manifest("context"), Manifest("worker")},
        !.requests = {Request(Node4, "git", "git", "x"), Request(Reviewer, "look", "model", none)},
        !.digests = {"x"}, !.refs = {"p"}, !.admits = TRUE,
        !.terminals = {<<1, "Completed">>, <<1, "Failed">>}]

Retry == [Dispatch("c", 2, 3, "implementer") EXCEPT !.idem = "again"]
RetryTape ==
    [Empty EXCEPT !.name = "retry",
        !.dispatches = {Worker, Retry},
        !.requests = {Request(Worker, "run", "command", none), Request(Worker, "git", "git", "x"),
                      [Request(Retry, "run", "command", none) EXCEPT !.ns = "ns"],
                      [Request(Retry, "git2", "git", "x") EXCEPT !.ns = "ns"]},
        !.contexts = {[prior |-> Key(Worker), action |-> a, next |-> Retry, ns |-> "ns",
                       feedback |-> none] : a \in {"run", "git"}},
        !.digests = {"x"}, !.results = ResultOutcomes, !.receipts = ReceiptOutcomes,
        !.terminals = {<<2, "Failed">>}]

BudgetTape ==
    [Empty EXCEPT !.name = "budget",
        !.dispatches = {Worker},
        !.requests = {Request(Worker, a, "model", none) : a \in {"m1", "m2"}},
        !.usages = {none, 0, 1, 2}, !.results = {"Succeeded", "Failed"},
        !.receipts = {"Succeeded", "Failed"}, !.timers = {"t"}, !.causes = {"t"},
        !.terminals = {<<2, "Cancelled">>}]

Legacy1 == Dispatch("c", 1, 1, "implementer")
Legacy3 == [Dispatch("d", 1, 3, "implementer") EXCEPT !.evidence = "sealed_v2"]
LegacyReviewer == [Reviewer EXCEPT !.evidence = "sealed_v2"]
Raw == [Dispatch("e", 1, 2, "implementer") EXCEPT !.tier = "raw"]
LegacyTape ==
    [Empty EXCEPT !.name = "legacy",
        !.dispatches = {Legacy1, Raw},
        !.digests = {"x"}, !.refs = {"p"}, !.targets = {FALSE},
        !.decisions = {"Promote", "Reject"},
        !.promotions = PromotionOutcomes, !.brackets = {"b"},
        !.terminals = {<<1, "Completed">>, <<1, "Cancelled">>, <<2, "Failed">>}]
RawTape == [Empty EXCEPT !.name = "raw", !.dispatches = {Raw}, !.brackets = {"a", "b"}]
SealedV2Tape ==
    [Empty EXCEPT !.name = "sealed v2",
        !.dispatches = {Legacy3, LegacyReviewer},
        !.requests = {Request(Legacy3, "git", "git", "x"),
                      Request(LegacyReviewer, "look", "model", none)},
        !.digests = {"x"}, !.refs = {"p"},
        !.results = ResultOutcomes, !.receipts = ReceiptOutcomes]

\* A tape replayed up to the verdict on one candidate, with a publisher: the
\* prefix is that of GraphTape, a unit dispatched later needs a row of its own.
Done(id, kind, cand, intent) ==
    [kind |-> kind, idem |-> id, cand |-> cand, intent |-> intent,
     auth |-> IF kind = "model" THEN "v2" ELSE none, claimed |-> TRUE, result |-> "Succeeded",
     receipt |-> "Succeeded", tokens |-> 1]
Reviewed ==
    Key(Node4) :> [NewWorkflow(Node4, none) EXCEPT
        !.phase = "ReviewApproved", !.actions = "git" :> Done("git", "git", "x", none),
        !.sealed = TRUE, !.candidate = "x", !.completion = TRUE, !.acceptance = "Passed",
        !.reviews = {[ref |-> "p", version |-> 2, decision |-> "Approve",
                      by |-> Key(Reviewer), action |-> "look"]}]
    @@ Key(Reviewer) :> [NewWorkflow(Reviewer, none) EXCEPT
        !.actions = "look" :> Done("look", "model", none, "x"), !.sealed = TRUE]
CacheTape ==
    [Empty EXCEPT !.name = "cache",
        !.starts = Reviewed, !.prefix = 19, !.publishes = TRUE, !.others = 1,
        !.dispatches = {Other}, !.refs = {"p"}, !.approves = TRUE,
        !.promotions = {"Promoted"}, !.terminals = {<<1, "Completed">>}]

MCScenarios ==
    {CacheTape, PromoteTape, TwoCandidatesTape, GraphTape, RetryTape, BudgetTape, LegacyTape, RawTape, SealedV2Tape}

-----------------------------------------------------------------------------
VARIABLES part, ctape, crows, csealed, cnow, cslips, ccall

completionPart == <<ctape, crows, csealed, cnow, cslips, ccall>>
replayPart == <<vars, recoveryVars>>
replayVars == <<replayPart, completionPart, part>>

Completes == INSTANCE CandidateCompletion
               WITH Callers <- {1, 2}, LeaseDuration <- 2,
                    EffectiveDeadline <- 3, MaxTime <- 2, MaxSlips <- 1,
                    tape <- ctape, rows <- crows, sealed <- csealed,
                    now <- cnow, slips <- cslips, call <- ccall

RunsInit ==
    /\ Init /\ Completes!Init /\ part \in {"replay", "completion"}
    /\ part = "completion" => carries = RawTape
    /\ part = "replay" => ctape = CHOOSE t \in Completes!FirstAttempts : TRUE

RunsSpec ==
    /\ RunsInit
    /\ [][\/ part = "replay" /\ RecoveryNext
                 /\ UNCHANGED <<completionPart, part>>
          \/ part = "completion" /\ Completes!Next
                 /\ UNCHANGED <<replayPart, part>>]_replayVars

\* CompletionIsProved of CandidateCompletion: a completion whose answer left
\* rests on a closed action set and an open workflow.
CompletionIsProved == part = "completion" => Completes!CompletionIsProved
=============================================================================
