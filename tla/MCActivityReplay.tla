--------------------------- MODULE MCActivityReplay --------------------------
(* Two keys, two activities and half-millisecond time.  Three signed action  *)
(* requests with different dispatch windows compete: two of them for one     *)
(* activity under different keys.                                            *)
EXTENDS ActivityReplay

MCActionRequests ==
    {[key |-> "k1", activity |-> "a1", issuedAt |-> 0, requestedAt |-> 1, deadline |-> 8],
     [key |-> "k2", activity |-> "a2", issuedAt |-> 2, requestedAt |-> 2, deadline |-> 6],
     [key |-> "k2", activity |-> "a1", issuedAt |-> 0, requestedAt |-> 0, deadline |-> 6]}
=============================================================================
