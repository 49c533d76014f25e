------------------------------- MODULE MCLedger -------------------------------
(***************************************************************************)
(* The ledger process and the client that drives one from another process. *)
(* A behaviour is about one of them (part); the other stays where it       *)
(* starts.  The tape has one process with every lane, two processes        *)
(* running native controls, or two whose ids are ordered only within each  *)
(* of them; the client makes all four calls past its watermark.            *)
(***************************************************************************)
EXTENDS Tape, LedgerClient

MCDeployments ==
    {[serving |-> {"w1"}, controlling |-> {"w1"}, ordered |-> TRUE],
     [serving |-> {}, controlling |-> {"w1", "w2"}, ordered |-> TRUE],
     [serving |-> {}, controlling |-> {"w1", "w2"}, ordered |-> FALSE]}

VARIABLE part

ledgerVars == <<vars, clientVars, part>>

LedgerInit ==
    /\ part \in {"tape", "client"} /\ Init /\ ClientInit
    /\ part = "client" => site.serving = {"w1"}

TapeMoves == part = "tape" /\ Next /\ UNCHANGED <<clientVars, part>>
ClientMoves == part = "client" /\ ClientNext /\ UNCHANGED <<vars, part>>

\* FairSpec of LedgerClient: timers and microtasks run.
Settles(i) ==
    /\ part = "client" /\ i \in Calls
    /\ TimeOut(i) \/ Resume(i) \/ CloseReturns(i)
    /\ UNCHANGED <<vars, part>>

LedgerSpec ==
    /\ LedgerInit /\ [][TapeMoves \/ ClientMoves]_ledgerVars
    /\ \A i \in 1 .. MaxCalls : WF_ledgerVars(Settles(i))
=============================================================================
