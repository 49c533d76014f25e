--------------------------- MODULE MCPromotionRuns ---------------------------
(***************************************************************************)
(* Promotion of one candidate by hosts that crash, amid pushes and other   *)
(* appends, and the undisturbed race of two candidates for one branch.     *)
(* A behaviour is about one of them (part); the other stays where it       *)
(* starts.                                                                 *)
(***************************************************************************)
EXTENDS MCPromotion

VARIABLES part, rnow, rtape, rckpts, rdecision, rclaim, rresult, rtarget,
          rreceipts, rcheckedOut, rframe, rentries, rspent

racePart == <<rnow, rtape, rckpts, rdecision, rclaim, rresult, rtarget,
              rreceipts, rcheckedOut, rframe, rentries, rspent>>
runsVars == <<vars, racePart, part>>

Racers == {"d1", "d2", "x1", "x2"}
Race == INSTANCE Promotion
          WITH Candidates <- {"c1", "c2"}, DecisionHosts <- {"d1", "d2"},
               ExecutionHosts <- {"x1", "x2"}, ReconcileHosts <- {},
               RunOf <- [h \in Racers |-> IF h \in {"d2", "x2"} THEN "c2" ELSE "c1"],
               DispatchExpires <- 3, LeaseDuration <- 1, MaxTime <- 3,
               MaxPushes <- 0, MaxAppends <- 0, MaxCrashes <- 0,
               now <- rnow, tape <- rtape, ckpts <- rckpts,
               decision <- rdecision, claim <- rclaim, result <- rresult,
               target <- rtarget, receipts <- rreceipts,
               checkedOut <- rcheckedOut, frame <- rframe,
               entries <- rentries, spent <- rspent

RunsInit ==
    /\ part \in {"one", "race"} /\ Init /\ Race!Init
    /\ IF part = "race" THEN ~checkedOut ELSE ~rcheckedOut

OneMoves == part = "one" /\ Next /\ UNCHANGED <<racePart, part>>
RaceMoves == part = "race" /\ Race!Next /\ UNCHANGED <<vars, part>>

\* FairSpec of Promotion, for the race.
Racing(A) == part = "race" /\ A /\ UNCHANGED <<vars, part>>
RunsSpec ==
    /\ RunsInit /\ [][OneMoves \/ RaceMoves]_runsVars
    /\ WF_runsVars(Racing(Race!Tick))
    /\ \A h \in Racers :
        /\ WF_runsVars(Racing(Race!HostStep(h)))
        /\ WF_runsVars(Racing(Race!ReceiveExecution(h)))
        /\ WF_runsVars(Racing(\E kind \in Kinds : Race!ReceiveDecision(h, kind)))

\* OneCandidateMovesTheBase of Promotion: the branch moves for one candidate.
RaceMovesTheBaseOnce == Race!OneCandidateMovesTheBase

\* DecisionSettles of Promotion: a recorded decision runs to its end.
RacersSettle == Race!DecisionSettles
=============================================================================
