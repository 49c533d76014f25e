----------------------------- MODULE MCReviewLane -----------------------------
(***************************************************************************)
(* The review lane alone, for TLC: a verdict that is asked for again after *)
(* somebody else appended, and a broker that runs a reviewer.              *)
(***************************************************************************)
EXTENDS ReviewLane

RetriedReview ==
    {[requests |-> 4, appends |-> 1, seals |-> 0, ticks |-> 0, stops |-> 0]}
BrokeredReview ==
    {[requests |-> 2, appends |-> 0, seals |-> 0, ticks |-> 0, stops |-> 0]}
=============================================================================
