-------------------------- MODULE PromotionContract --------------------------
(***************************************************************************)
(* What promotion promises of each candidate, without tapes, checkpoints   *)
(* or hosts: one decision; under a promote decision one reservation; under *)
(* the reservation at most one compare-and-swap of the base; one recorded  *)
(* outcome that the swap, or the refusal, accounts for.                    *)
(***************************************************************************)
CONSTANTS Candidates, Base

VARIABLES head, stage

Init == head = Base /\ stage = [c \in Candidates |-> "open"]

Goes(c, from, to) ==
    stage[c] = from /\ stage' = [stage EXCEPT ![c] = to]

Decide(c) ==
    /\ Goes(c, "open", "approved") \/ Goes(c, "open", "refused")
    /\ UNCHANGED head
Reserve(c) == Goes(c, "approved", "reserved") /\ UNCHANGED head
\* The only step of ours that writes the branch.
Move(c) == Goes(c, "reserved", "moved") /\ head = Base /\ head' = c
Settle(c) ==
    /\ \/ Goes(c, "moved", "promoted") \/ Goes(c, "moved", "unresolved")
       \/ Goes(c, "refused", "rejected") \/ Goes(c, "unresolved", "resolved")
    /\ UNCHANGED head
\* Other people push to the branch too.
Push == UNCHANGED stage

Next == Push \/ \E c \in Candidates : Decide(c) \/ Reserve(c) \/ Move(c) \/ Settle(c)

Spec == Init /\ [][Next]_<<head, stage>>
=============================================================================
