----------------------------- MODULE MCPipeline -----------------------------
(***************************************************************************)
(* The candidate lane and the review lane, each on a run of its own, and   *)
(* the hosts and sockets by which clients reach them.  A behaviour is      *)
(* about one of them (part); the others stay where they start.             *)
(***************************************************************************)
EXTENDS CandidateSession

CONSTANT ReviewBudgets

VARIABLES part, rtape, rckpts, rrows, rnow, role, lineage, intentRow,
          frames, calls, issuer, answers, allowance,
          endpoint, conn, backlog, ingress, inflight, worker, jobs, owner,
          fatal, up, targets, faults

Review == INSTANCE ReviewLane
            WITH tape <- rtape, ckpts <- rckpts, rows <- rrows, now <- rnow

reviewPart == <<rtape, rckpts, rrows, rnow, role, lineage, intentRow,
                frames, calls, issuer, answers, allowance>>
hostPart == <<endpoint, conn, backlog, ingress, inflight, worker, jobs, owner,
              fatal, up, targets, faults>>
pipelineVars == <<sessionVars, reviewPart, hostPart, part>>

\* Two clients of one account and one of another, all about one target.
MCConns == {"c1", "c2", "c3"}
Hosts == INSTANCE AuthorityHosts
           WITH Conns <- MCConns, UidOf <- [c \in MCConns |-> IF c = "c3" THEN 2 ELSE 1],
                TargetOf <- [c \in MCConns |-> "envelope"], Workers <- {"w1", "w2"},
                MaxInFlight <- 2, MaxPerUid <- 1, MaxFaults <- 1, tape <- targets

\* What the theorems about the hosts take for granted holds of this instance.
ASSUME HostsAssumption == Hosts!HostConstants

MCContract == <<"lint", "test">>
Budget(requests, crashes, appends, moves, ticks) ==
    [requests |-> requests, crashes |-> crashes, appends |-> appends,
     seals |-> appends, moves |-> moves, ticks |-> ticks]
MCBudgets == {Budget(3, 1, 0, 0, 1), Budget(2, 0, 1, 0, 0),
              Budget(2, 0, 0, 1, 1), Budget(2, 1, 0, 0, 2)}
Allow(requests, appends, seals, ticks, stops) ==
    [requests |-> requests, appends |-> appends, seals |-> seals,
     ticks |-> ticks, stops |-> stops]
MCReviewBudgets ==
    {Allow(4, 0, 0, 0, 0), Allow(3, 1, 0, 0, 0), Allow(2, 0, 1, 2, 1)}

\* A part that rests does so in one of its initial states.
CandidateRests == budget = Budget(2, 0, 1, 0, 0) /\ admission = "recorded"
ReviewRests == role = "implementer" /\ allowance = Allow(4, 0, 0, 0, 0)
Resting ==
    /\ part # "candidate" => CandidateRests
    /\ part # "review" => ReviewRests
    /\ part # "hosts" => endpoint = "session"

PipelineInit ==
    /\ part \in {"candidate", "review", "hosts"}
    /\ SessionInit /\ Review!LaneInit /\ Hosts!Init /\ Resting

CandidateServes == part = "candidate" /\ Serve /\ UNCHANGED <<reviewPart, hostPart, part>>
HostsProgress == part = "hosts" /\ Hosts!Progress /\ UNCHANGED <<sessionVars, reviewPart, part>>

PipelineNext ==
    \/ part = "candidate" /\ SessionNext /\ UNCHANGED <<reviewPart, hostPart, part>>
    \/ part = "review" /\ Review!LaneNext /\ UNCHANGED <<sessionVars, hostPart, part>>
    \/ part = "hosts" /\ Hosts!Next /\ UNCHANGED <<sessionVars, reviewPart, part>>

PipelineSpec ==
    /\ PipelineInit /\ [][PipelineNext]_pipelineVars
    /\ WF_pipelineVars(CandidateServes) /\ WF_pipelineVars(HostsProgress)

\* ProviderCallIsEarned and VerdictIsEarned of ReviewLane: one provider call per
\* model action, under its intent, authorization and lease, and what a sealed
\* review verdict rests on.
ReviewIsEarned ==
    part = "review" => Review!ProviderCallIsEarned /\ Review!VerdictIsEarned

\* HostsStayOpen of AuthorityHosts: permits and limits, and no circular wait.
HostsStayOpen == part = "hosts" => Hosts!HostsStayOpen

\* AnswersAreOwn of AuthorityHosts: whose answer a client gets, and its worth.
AnswersAreOwn == part = "hosts" => Hosts!AnswersAreOwn

\* EveryExchangeEnds of AuthorityHosts: nobody waits for ever.
EveryExchangeEnds == Hosts!EveryExchangeEnds
=============================================================================
