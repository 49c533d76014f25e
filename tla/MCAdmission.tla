----------------------------- MODULE MCAdmission -----------------------------
(* Two hosts on one run: the same request twice, or two that collide. *)
EXTENDS Admission, TLC

CONSTANTS h1, h2, d1, d2, d3

Dispatch(idem, slot, body) ==
    [lane |-> "dispatch", idem |-> idem, slot |-> slot, body |-> body]
Plan(id, input, facts) ==
    [lane |-> "plan", idem |-> id, slot |-> <<id, input>>, body |-> facts]
V5(d) == [lane |-> "v5", idem |-> d, slot |-> "attempt", body |-> d]

MCLegacyTapes == {<<>>, <<d1>>, <<d1, d1>>, <<d2, d1>>, <<d3>>}

Both(p, q) == h1 :> p @@ h2 :> q

Case(ask, legacy, foreign, late, upto) ==
    [ask |-> ask, legacy |-> legacy, foreign |-> foreign, late |-> late, upto |-> upto]
Stray == {Dispatch("foreign", "attempt", "x")}

MCScenarios ==
    {Case(Both(Dispatch("key", "attempt", "x"), r), <<>>, Stray, {}, 2) :
        r \in {Dispatch("key", "attempt", "x"), Dispatch("other", "attempt", "x"),
               Dispatch("key", "attempt", "y"), Plan("id", "input", "x")}}
    \cup
    {Case(Both(Plan("id", "input", "x"), r), <<>>, Stray, {}, 2) :
        r \in {Plan("id", "input", "x"), Plan("id", "input", "y"),
               Plan("id", "input2", "x")}}
    \cup
    {Case(Both(V5(d1), V5(d1)), <<>>, {}, {d1}, 2),
     Case(Both(V5(d1), V5(d1)), <<d1>>, {}, {d1}, 3),
     Case(Both(V5(d1), V5(d1)), <<d1, d1>>, {}, {}, 2),
     Case(Both(V5(d3), V5(d3)), <<d3>>, {}, {}, 1),
     Case(Both(V5(d1), V5(d2)), <<d2, d1>>, {}, {d1}, 3)}
=============================================================================
