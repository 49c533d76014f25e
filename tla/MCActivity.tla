------------------------------ MODULE MCActivity ------------------------------
(***************************************************************************)
(* The lease table as trusted replay judges it, and the same table under   *)
(* `ledger serve'.  A behaviour is about one of them (part).  The controls *)
(* of the serve part are about one action request, whose lease can expire, *)
(* be extended and be recorded; two processes handle them, one of them     *)
(* governed.                                                               *)
(***************************************************************************)
EXTENDS MCActivityReplay, GovernedServe

VARIABLE part

activityVars == <<vars, serveVars, part>>

\* The controls of the serve part, and the time it runs.
ServedClaims ==
    [key : {"k1"}, activity : {"a1"}, duration : {2}, purpose : {"generic"},
     action : {r \in ActionRequests : r.key = "k1"}]
Served(c) ==
    /\ c.key = "k1"
    /\ IF c.op = "claim_activity_v1" THEN c.request \in ServedClaims
       ELSE c.activity = "a1"
    /\ c.op = "heartbeat_activity_v1" => c.heartbeat = "h1"
ServedTime == 5

ActivityInit == part \in {"replay", "serve"} /\ ServeInit
ActivityNext ==
    \/ part = "replay" /\ Next /\ UNCHANGED <<serveVars, part>>
    \/ /\ part = "serve" /\ ServeNext /\ UNCHANGED part
       /\ now' <= ServedTime
       /\ \A s \in Sessions : work'[s] # Idle => Served(work'[s].control)
ActivitySpec == ActivityInit /\ [][ActivityNext]_activityVars
=============================================================================
