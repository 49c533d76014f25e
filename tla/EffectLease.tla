----------------------------- MODULE EffectLease -----------------------------
(***************************************************************************)
(* What the ledger promises the host of an external effect, with no tape,  *)
(* no tables and no timestamps: a key is reserved at most once, ever; its  *)
(* lease may only be pushed out, and only while it is live; and it closes  *)
(* once, with a success or a failure only while it is live.                *)
(***************************************************************************)
EXTENDS Integers

CONSTANTS Keys, Outcomes

VARIABLES clock, lease

leaseVars == <<clock, lease>>

Free == [state |-> "free"]
Held == [state : {"held"}, expires : Nat]
Closed == [state : {"closed"}, outcome : Outcomes]

Init == clock = 0 /\ lease = [k \in Keys |-> Free]

\* Only the lease of k may change.
Only(k) == \A q \in Keys \ {k} : lease'[q] = lease[q]

Reserve(k) ==
    /\ lease[k] = Free
    /\ lease'[k] \in Held /\ Only(k)
    /\ clock' = clock

Extend(k) ==
    /\ lease[k] \in Held /\ clock < lease[k].expires
    /\ lease'[k] \in Held /\ Only(k)
    /\ lease'[k].expires >= lease[k].expires
    /\ clock' = clock

Close(k) ==
    /\ lease[k] \in Held
    /\ lease'[k] \in Closed /\ Only(k)
    /\ lease'[k].outcome # "unknown" => clock < lease[k].expires
    /\ clock' = clock

Advance == clock' > clock /\ lease' = lease

Next == Advance \/ \E k \in Keys : Reserve(k) \/ Extend(k) \/ Close(k)

Spec == Init /\ [][Next]_leaseVars
=============================================================================
