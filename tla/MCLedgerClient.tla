--------------------------- MODULE MCLedgerClient ---------------------------
(***************************************************************************)
(* LedgerClient under a burst of emits and flushes, for TLC.               *)
(***************************************************************************)
EXTENDS LedgerClient

BurstOps == {"emit", "flush"}
=============================================================================
