----------------------------- MODULE MCPromotion -----------------------------
EXTENDS Promotion

\* All hosts serve the run of one candidate.
OneRun == [h \in Hosts |-> "c1"]
=============================================================================
