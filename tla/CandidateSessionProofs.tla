------------------------ MODULE CandidateSessionProofs ------------------------
(***************************************************************************)
(* What the candidate lane promises however its host crashes, clients      *)
(* retry, leases run out and the target moves: one execution, one tree,    *)
(* and a success that is proved.  For every contract, lease duration,      *)
(* dispatch window and budget of faults.                                   *)
(***************************************************************************)
EXTENDS CandidateSession, TLAPS

-----------------------------------------------------------------------------
(* Types *)

Ended == {"succeeded", "failed", "unknown"}
Tree == Nat \cup {none}
Event ==
    [kind : {"dispatch", "admission", "action", "claim", "result", "receipt", "receipt_set",
             "candidate", "completion", "acceptance", "other"},
     act : Actions \cup {none}, out : Ended \cup {"passed", "rejected", none}, val : Tree]

LedgerType ==
    /\ tape \in Seq(Event) /\ ckpts \in Seq(Nat) /\ now \in Nat
    /\ rows \in [Actions -> Lease \cup {none}]
    /\ projections \in [completion : Tree, acceptance : Tree]
Workspace ==
    [tree : Tree, manifest : {"absent", "torn", "whole"},
     packet : {"absent", "torn", "whole"}, ref : Tree, verify : Tree]
HostType ==
    /\ ws \in Workspace
    /\ host = [pc |-> host.pc, op |-> host.op, packet |-> host.packet,
               check |-> host.check, out |-> host.out, tree |-> host.tree]
    /\ host.tree \in Tree
    /\ entered \in [{"command"} \cup Checks -> Nat]
    /\ left \in Seq(Nat) /\ orphan \in BOOLEAN

-----------------------------------------------------------------------------
(* What the tape, the rows and the workspace say of each other *)

Is(e, kind, act) == e.kind = kind /\ e.act = act
Recorded(row) == row # none /\ row.state = "recorded"
Succeeded(row) == Recorded(row) /\ row.out = "succeeded"

\* The evidence under an acceptance at place i of tape t.
Grounded(t, i, r, p) ==
    /\ p.completion # none /\ p.completion < i
    /\ \A c \in Checks :
          /\ Recorded(r[c]) /\ r[c].out \in {"succeeded", "failed"}
          /\ \E j \in 1 .. (i - 1) : Is(t[j], "result", c)
          /\ \E j \in 1 .. (i - 1) : Is(t[j], "action", c) /\ p.completion < j
    /\ t[i].out = IF \A c \in Checks : r[c].out = "succeeded" THEN "passed" ELSE "rejected"

\* What event i of tape t rests on, with rows r, workspace w and projections p.
Rooted(t, i, r, w, p) ==
    /\ t[i].kind \in {"action", "claim"} /\ t[i].act = "finalize" => Succeeded(r["command"])
    /\ t[i].kind = "claim" => t[i].act \in Actions /\ r[t[i].act] # none
    /\ t[i].kind = "result" => /\ t[i].act \in Actions /\ Recorded(r[t[i].act])
                               /\ r[t[i].act].out = t[i].out /\ r[t[i].act].val = t[i].val
    /\ Is(t[i], "receipt", "command") => Succeeded(r["command"])
    /\ \/ Is(t[i], "receipt", "finalize")
       \/ t[i].kind \in {"candidate", "completion", "acceptance"}
       => w.ref # none /\ t[i].val = w.ref
    /\ t[i].kind = "completion" => t[i].act = none /\ p.completion = i
    /\ t[i].kind = "acceptance" =>
          t[i].act = none /\ p.acceptance = i /\ w.verify # none /\ Grounded(t, i, r, p)

\* Each action is requested once and has one result.
Single(t) ==
    \A a \in Actions : \A i, j \in 1 .. Len(t) :
        \/ Is(t[i], "action", a) /\ Is(t[j], "action", a)
        \/ Is(t[i], "result", a) /\ Is(t[j], "result", a)
        => i = j

\* The rows and projections are backed by the tape.
Backed(t, r, p) ==
    /\ \A a \in Actions :
          /\ r[a] # none => \E i \in 1 .. Len(t) : Is(t[i], "claim", a)
          /\ Recorded(r[a]) => r[a].out \in Ended /\ \E i \in 1 .. Len(t) : Is(t[i], "result", a)
    /\ p.completion # none => p.completion \in 1 .. Len(t) /\ Is(t[p.completion], "completion", none)
    /\ p.acceptance # none => p.acceptance \in 1 .. Len(t) /\ Is(t[p.acceptance], "acceptance", none)

TapeSound ==
    /\ \A i \in 1 .. Len(tape) : Rooted(tape, i, rows, ws, projections)
    /\ Single(tape) /\ Backed(tape, rows, projections)

-----------------------------------------------------------------------------
(* One execution and its tree *)

Running == (IF At("r_run") THEN 1 ELSE 0) + (IF orphan THEN 1 ELSE 0)

\* Every started container is running or has left its tree; the succeeded
\* command's is the one candidate ref and verification worktree hold.
ExecutionSound ==
    /\ \A a \in {"command"} \cup Checks : entered[a] <= 1 /\ (rows[a] = none => entered[a] = 0)
    /\ Len(left) + Running = entered["command"]
    /\ entered["command"] = 1 => ws.tree # none
    /\ Succeeded(rows["command"]) =>
          Len(left) = 1 /\ rows["command"].val = left[1] /\ ws.tree = left[1]
    /\ ws.ref # none => Succeeded(rows["command"]) /\ ws.ref = left[1]
    /\ ws.verify # none => ws.ref # none /\ ws.verify = ws.ref
    /\ Succeeded(rows["finalize"]) => ws.ref # none /\ rows["finalize"].val = ws.ref

-----------------------------------------------------------------------------
(* Checkpoints *)

Through(k, n) == Advances(k) /\ \A i \in 1 .. Len(k) : k[i] <= n
Proved ==
    /\ projections.completion # none /\ EndsAt(projections.completion)
    /\ projections.acceptance # none
    /\ tape[projections.acceptance].out = "passed"
    /\ Covered(ckpts) >= projections.acceptance
SealSound ==
    /\ Through(ckpts, Len(tape))
    /\ "succeeded" \in answered => Proved

-----------------------------------------------------------------------------
(* What the host knows where it is *)

HostSound ==
    /\ host.pc \in {"c_issue", "c_claim", "c_enter", "c_run", "c_result"} =>
          host.check \in 1 .. Len(Contract)
    /\ host.pc \in {"r_claim", "r_enter", "r_run"} => ws.tree # none
    /\ host.pc \in {"r_enter", "r_run", "r_result"} => rows["command"] # none
    /\ host.pc = "r_enter" => entered["command"] = 0
    /\ host.pc = "r_result" /\ host.out = "succeeded" =>
          Len(left) = 1 /\ host.tree = left[1] /\ ws.tree = left[1]
    /\ host.pc \in {"r_result", "r_fin_result", "c_result"} => host.out \in Ended
    /\ host.pc \in {"r_fin_git", "r_fin_recheck", "r_fin_result"} => rows["finalize"] # none
    /\ host.pc = "r_fin_recheck" \/ (host.pc = "r_fin_result" /\ host.out = "succeeded") =>
          ws.ref # none /\ host.tree = ws.ref
    /\ host.pc = "r_verify" => ws.ref # none
    /\ host.pc \in {"c_issue", "c_claim", "c_enter", "c_run", "c_result", "r_accept"} =>
          ws.verify # none
    /\ host.pc \in {"c_enter", "c_run", "c_result"} => rows[Check] # none
    /\ host.pc = "c_enter" => entered[Check] = 0
    /\ host.pc \in {"r_accept_seal", "r_receipt_resolve"} => projections.acceptance # none
    /\ host.pc = "r_receipt_resolve" => Covered(ckpts) >= projections.acceptance
    /\ host.pc = "answer" /\ host.out = "succeeded" => Proved

CInv == LedgerType /\ HostType /\ TapeSound /\ ExecutionSound /\ SealSound /\ HostSound
-----------------------------------------------------------------------------
(* Reading *)

\* The activities of the lane.
LEMMA ActionFacts ==
    /\ "command" \in Actions /\ "finalize" \in Actions /\ Checks \subseteq Actions
    /\ Len(Contract) \in Nat /\ DOMAIN Contract = 1 .. Len(Contract)
    /\ \A i \in 1 .. Len(Contract) : Contract[i] \in Checks
    /\ \A c \in Checks : c # "command" /\ c # "finalize"
  <1>1. Contract \in Seq(Checks) /\ "command" \notin Checks /\ "finalize" \notin Checks
    BY ContractAssumption
  <1>2. Len(Contract) \in Nat /\ DOMAIN Contract = 1 .. Len(Contract)
        /\ \A i \in 1 .. Len(Contract) : Contract[i] \in Checks
    BY <1>1
  <1> QED BY <1>1, <1>2 DEF Actions

\* Sealing one event appends it.
LEMMA ConcatOne ==
    ASSUME NEW S, NEW t \in Seq(S), NEW e \in S
    PROVE  t \o <<e>> = Append(t, e)
  OBVIOUS

\* A member of a sequence over S is in S.
LEMMA SeqElement ==
    ASSUME NEW S, NEW s \in Seq(S), NEW i \in 1 .. Len(s)
    PROVE  s[i] \in S
  OBVIOUS

\* A change of place leaves the rest of the host alone.
Host(pc, op, packet, check, out, tree) ==
    [pc |-> pc, op |-> op, packet |-> packet, check |-> check, out |-> out, tree |-> tree]

\* The host is at pc with this check, outcome and tree.
Stands(h, pc, check, out, tree) ==
    /\ h.pc = pc /\ h.check = check /\ h.out = out /\ h.tree = tree
    /\ h = Host(h.pc, h.op, h.packet, h.check, h.out, h.tree)

\* Where the host stands after each kind of update of its record.
LEMMA HostMoves ==
    ASSUME HostType, NEW pc, NEW out, NEW tree, NEW check
    PROVE  /\ Stands([host EXCEPT !.pc = pc], pc, host.check, host.out, host.tree)
           /\ Stands([host EXCEPT !.pc = pc, !.out = out], pc, host.check, out, host.tree)
           /\ Stands([host EXCEPT !.pc = pc, !.tree = tree], pc, host.check, host.out, tree)
           /\ Stands([host EXCEPT !.pc = pc, !.out = out, !.tree = tree],
                     pc, host.check, out, tree)
           /\ Stands([host EXCEPT !.pc = pc, !.check = check], pc, check, host.out, host.tree)
  <1>1. PICK a, b, c, d, e, f : a = host.pc /\ b = host.op /\ c = host.packet
                                /\ d = host.check /\ e = host.out /\ f = host.tree
    BY Zenon
  <1>2. host = Host(a, b, c, d, e, f)
    BY Zenon, <1>1 DEF HostType, Host
  <1>3. /\ [host EXCEPT !.pc = pc, !.out = out] = [[host EXCEPT !.pc = pc] EXCEPT !.out = out]
        /\ [host EXCEPT !.pc = pc, !.tree = tree] = [[host EXCEPT !.pc = pc] EXCEPT !.tree = tree]
        /\ [host EXCEPT !.pc = pc, !.out = out, !.tree = tree]
              = [[[host EXCEPT !.pc = pc] EXCEPT !.out = out] EXCEPT !.tree = tree]
        /\ [host EXCEPT !.pc = pc, !.check = check] = [[host EXCEPT !.pc = pc] EXCEPT !.check = check]
    BY Zenon
  <1>4. [Host(a, b, c, d, e, f) EXCEPT !.pc = pc] = Host(pc, b, c, d, e, f)
    BY DEF Host
  <1>5. [Host(pc, b, c, d, e, f) EXCEPT !.out = out] = Host(pc, b, c, d, out, f)
    BY DEF Host
  <1>6. [Host(pc, b, c, d, out, f) EXCEPT !.tree = tree] = Host(pc, b, c, d, out, tree)
    BY DEF Host
  <1>7. [Host(pc, b, c, d, e, f) EXCEPT !.tree = tree] = Host(pc, b, c, d, e, tree)
    BY DEF Host
  <1>8. [Host(pc, b, c, d, e, f) EXCEPT !.check = check] = Host(pc, b, c, check, e, f)
    BY DEF Host
  <1>9. [host EXCEPT !.pc = pc] = Host(pc, b, c, d, e, f)
    BY Zenon, <1>2, <1>4
  <1>10. [host EXCEPT !.pc = pc, !.out = out] = Host(pc, b, c, d, out, f)
    BY Zenon, <1>9, <1>3, <1>5
  <1>11. [host EXCEPT !.pc = pc, !.tree = tree] = Host(pc, b, c, d, e, tree)
    BY Zenon, <1>9, <1>3, <1>7
  <1>12. [host EXCEPT !.pc = pc, !.out = out, !.tree = tree] = Host(pc, b, c, d, out, tree)
    BY Zenon, <1>9, <1>3, <1>5, <1>6
  <1>13. [host EXCEPT !.pc = pc, !.check = check] = Host(pc, b, c, check, e, f)
    BY Zenon, <1>9, <1>3, <1>8
  <1>14. \A h, x, y, z, w : h = Host(x, b, c, y, z, w) => Stands(h, x, y, z, w)
    <2> SUFFICES ASSUME NEW h, NEW x, NEW y, NEW z, NEW w, h = Host(x, b, c, y, z, w)
                 PROVE  Stands(h, x, y, z, w)
      BY Zenon
    <2>1. h.pc = x /\ h.op = b /\ h.packet = c /\ h.check = y /\ h.out = z /\ h.tree = w
      BY DEF Host
    <2> QED BY Zenon, <2>1 DEF Stands
  <1>15. Stands([host EXCEPT !.pc = pc], pc, d, e, f)
    BY Zenon, <1>9, <1>14
  <1>16. Stands([host EXCEPT !.pc = pc, !.out = out], pc, d, out, f)
    BY Zenon, <1>10, <1>14
  <1>17. Stands([host EXCEPT !.pc = pc, !.tree = tree], pc, d, e, tree)
    BY Zenon, <1>11, <1>14
  <1>18. Stands([host EXCEPT !.pc = pc, !.out = out, !.tree = tree], pc, d, out, tree)
    BY Zenon, <1>12, <1>14
  <1>19. Stands([host EXCEPT !.pc = pc, !.check = check], pc, check, e, f)
    BY Zenon, <1>13, <1>14
  <1> QED BY Zenon, <1>1, <1>15, <1>16, <1>17, <1>18, <1>19

\* What it is to find an event.
LEMMA Found ==
    ASSUME LedgerType, NEW kind, NEW act
    PROVE  /\ DOMAIN tape = 1 .. Len(tape) /\ Len(tape) \in Nat
           /\ \A i : i \in EventsOf(kind, act) <=> i \in 1 .. Len(tape) /\ Is(tape[i], kind, act)
           /\ Has(kind, act) <=> \E i \in 1 .. Len(tape) : Is(tape[i], kind, act)
           /\ Has(kind, act) => /\ The(kind, act) \in 1 .. Len(tape)
                                /\ Is(tape[The(kind, act)], kind, act)
           /\ Exactly(kind, act) => Has(kind, act)
  <1>1. DOMAIN tape = 1 .. Len(tape) /\ Len(tape) \in Nat
    BY DEF LedgerType
  <1>2. \A i : i \in EventsOf(kind, act) <=> i \in 1 .. Len(tape) /\ Is(tape[i], kind, act)
    BY Zenon, <1>1 DEF EventsOf, Is
  <1>3. Has(kind, act) <=> \E i \in 1 .. Len(tape) : Is(tape[i], kind, act)
    BY Zenon, <1>2 DEF Has
  <1>4. Has(kind, act) => The(kind, act) \in EventsOf(kind, act)
    BY Zenon DEF Has, The
  <1>5. Exactly(kind, act) => Has(kind, act)
    BY Zenon DEF Exactly, Alone, Has
  <1> QED BY Zenon, <1>1, <1>2, <1>3, <1>4, <1>5

-----------------------------------------------------------------------------
(* Growing *)

Prefix(t, u) == Len(t) <= Len(u) /\ \A i \in 1 .. Len(t) : u[i] = t[i]

Later(r, w, p, r2, w2, p2) ==
    /\ \A a \in Actions : r[a] # none =>
          r2[a] # none /\ (r[a].state = "recorded" => r2[a] = r[a])
    /\ w.ref # none => w2.ref = w.ref
    /\ w.verify # none => w2.verify = w.verify
    /\ p.completion # none => p2.completion = p.completion
    /\ p.acceptance # none => p2.acceptance = p.acceptance

\* So does the evidence under an acceptance.
LEMMA GroundedKept ==
    ASSUME NEW r, NEW w, NEW p, NEW r2, NEW w2, NEW p2, Later(r, w, p, r2, w2, p2),
           NEW t, NEW u, NEW i \in Nat, i > 0, \A j \in 1 .. i : u[j] = t[j],
           Grounded(t, i, r, p)
    PROVE  Grounded(u, i, r2, p2)
  <1>1. \A j \in 1 .. (i - 1) : u[j] = t[j]
    OBVIOUS
  <1>2. u[i] = t[i] /\ p2.completion = p.completion
    BY DEF Grounded, Later
  <1>3. \A c \in Checks : r2[c] = r[c]
    <2>1. \A a \in Actions : Recorded(r[a]) => r2[a] = r[a]
      BY Zenon DEF Later, Recorded
    <2> QED BY Zenon, <2>1, ActionFacts DEF Grounded
  <1> QED BY Zenon, <1>1, <1>2, <1>3 DEF Grounded

\* What an event rests on stays under it.
LEMMA RootedKept ==
    ASSUME NEW r, NEW w, NEW p, NEW r2, NEW w2, NEW p2, Later(r, w, p, r2, w2, p2),
           NEW t, NEW u, NEW i \in Nat, i > 0, \A j \in 1 .. i : u[j] = t[j],
           Rooted(t, i, r, w, p), i # none
    PROVE  Rooted(u, i, r2, w2, p2)
  <1>0. \A a \in Actions : Recorded(r[a]) => r2[a] = r[a] /\ Recorded(r2[a])
    BY Zenon DEF Later, Recorded
  <1>1. u[i] = t[i]
    OBVIOUS
  <1>2. Succeeded(r["command"]) => Succeeded(r2["command"])
    BY Zenon, <1>0, ActionFacts DEF Succeeded
  <1>3. t[i].kind = "claim" => t[i].act \in Actions /\ r2[t[i].act] # none
    BY Zenon DEF Rooted, Later
  <1>4. t[i].kind = "result" => /\ t[i].act \in Actions /\ Recorded(r2[t[i].act])
                                /\ r2[t[i].act] = r[t[i].act]
    BY Zenon, <1>0 DEF Rooted
  <1>5. t[i].kind = "acceptance" => Grounded(u, i, r2, p2)
    BY Zenon, GroundedKept DEF Rooted
  <1>6. \/ Is(t[i], "receipt", "finalize")
        \/ t[i].kind \in {"candidate", "completion", "acceptance"}
        => w2.ref # none /\ t[i].val = w2.ref
    BY Zenon DEF Rooted, Later
  <1>7. t[i].kind = "completion" => t[i].act = none /\ p2.completion = i
    BY Zenon DEF Rooted, Later
  <1>8. t[i].kind = "acceptance" => t[i].act = none /\ p2.acceptance = i /\ w2.verify # none
    BY Zenon DEF Rooted, Later
  <1>9. t[i].kind \in {"action", "claim"} /\ t[i].act = "finalize" => Succeeded(r["command"])
    BY Zenon DEF Rooted
  <1>10. Is(t[i], "receipt", "command") => Succeeded(r["command"])
    BY Zenon DEF Rooted
  <1>11. t[i].kind = "result" => r[t[i].act].out = t[i].out /\ r[t[i].act].val = t[i].val
    BY Zenon DEF Rooted
  <1> QED BY Zenon, <1>1, <1>2, <1>3, <1>4, <1>5, <1>6, <1>7, <1>8, <1>9, <1>10, <1>11
          DEF Rooted

\* The tape stays sound when each new event is rooted in the state it leaves.
LEMMA TapeGrows ==
    ASSUME LedgerType, LedgerType', TapeSound, Prefix(tape, tape'),
           Later(rows, ws, projections, rows', ws', projections'),
           \A i \in (Len(tape) + 1) .. Len(tape') : Rooted(tape', i, rows', ws', projections'),
           Single(tape'), Backed(tape', rows', projections')
    PROVE  TapeSound'
  <1>1. Len(tape) \in Nat /\ Len(tape') \in Nat
    BY DEF LedgerType
  <1>2. ASSUME NEW i \in 1 .. Len(tape)
        PROVE  Rooted(tape', i, rows', ws', projections')
    <2>1. i \in Nat /\ i > 0 /\ \A j \in 1 .. i : j \in 1 .. Len(tape)
      BY <1>1
    <2>2. \A j \in 1 .. i : tape'[j] = tape[j]
      BY Zenon, <2>1 DEF Prefix
    <2>3. Rooted(tape, i, rows, ws, projections) /\ i # none
      BY Zenon, <2>1, NoneAssumption DEF TapeSound
    <2> QED BY Zenon, <2>1, <2>2, <2>3, RootedKept
  <1>3. \A i \in 1 .. Len(tape') : i \in 1 .. Len(tape) \/ i \in (Len(tape) + 1) .. Len(tape')
    BY <1>1
  <1>4. \A i \in 1 .. Len(tape') : Rooted(tape', i, rows', ws', projections')
    BY Zenon, <1>2, <1>3
  <1> QED BY Zenon, <1>4 DEF TapeSound

\* No action is requested again and no result is signed again.
Fresh(t, e) ==
    \A i \in 1 .. Len(t) : e.kind \in {"action", "result"} => ~Is(t[i], e.kind, e.act)

\* An event that is fresh leaves every action with one request and one result.
LEMMA SingleKept ==
    ASSUME NEW t \in Seq(Event), NEW e \in Event, Single(t), Fresh(t, e)
    PROVE  Single(Append(t, e))
  <1> DEFINE u == Append(t, e)
  <1>1. /\ Len(t) \in Nat /\ Len(u) = Len(t) + 1 /\ u[Len(t) + 1] = e
        /\ \A i \in 1 .. Len(t) : u[i] = t[i]
    OBVIOUS
  <1> HIDE DEF u
  <1>2. \A i \in 1 .. Len(u) : i \in 1 .. Len(t) \/ i = Len(t) + 1
    BY <1>1
  <1>3. ASSUME NEW a \in Actions, NEW k \in {"action", "result"},
               NEW i \in 1 .. Len(u), NEW j \in 1 .. Len(u), Is(u[i], k, a), Is(u[j], k, a)
        PROVE  i = j
    <2>1. CASE i \in 1 .. Len(t) /\ j \in 1 .. Len(t)
      <3>1. Is(t[i], k, a) /\ Is(t[j], k, a)
        BY Zenon, <1>1, <1>3, <2>1
      <3> QED BY Zenon, <3>1, <2>1, <1>3 DEF Single
    <2>2. ASSUME NEW n \in 1 .. Len(t), Is(u[n], k, a), Is(u[Len(t) + 1], k, a)
          PROVE  FALSE
      BY Zenon, <2>2, <1>1, <1>3 DEF Is, Fresh
    <2> QED BY Zenon, <1>2, <2>1, <2>2, <1>3
  <1> QED BY Zenon, <1>3 DEF Single, u

\* The state a new event leaves is backed by it.
Answers(e, n, r, p, r2, p2) ==
    /\ \A a \in Actions :
          /\ r2[a] = none \/ r[a] # none \/ Is(e, "claim", a)
          /\ Recorded(r2[a]) => \/ Recorded(r[a]) /\ r2[a] = r[a]
                                \/ Is(e, "result", a) /\ r2[a].out \in Ended
    /\ \/ p2.completion = p.completion
       \/ p2.completion = n /\ Is(e, "completion", none)
    /\ \/ p2.acceptance = p.acceptance
       \/ p2.acceptance = n /\ Is(e, "acceptance", none)

\* Rows and projections that move with the event they are about stay backed.
LEMMA BackedKept ==
    ASSUME NEW t \in Seq(Event), NEW e \in Event, NEW r, NEW p, NEW r2, NEW p2,
           Backed(t, r, p), Answers(e, Len(t) + 1, r, p, r2, p2)
    PROVE  Backed(Append(t, e), r2, p2)
  <1> DEFINE u == Append(t, e)
  <1>1. /\ Len(t) \in Nat /\ Len(u) = Len(t) + 1 /\ u[Len(t) + 1] = e
        /\ \A i \in 1 .. Len(t) : u[i] = t[i]
    OBVIOUS
  <1> HIDE DEF u
  <1>2. Len(t) + 1 \in 1 .. Len(u) /\ \A i \in 1 .. Len(t) : i \in 1 .. Len(u)
    BY <1>1
  <1>3. \A k, a : (\E i \in 1 .. Len(t) : Is(t[i], k, a)) \/ Is(e, k, a)
                  => \E i \in 1 .. Len(u) : Is(u[i], k, a)
    BY Zenon, <1>1, <1>2
  <1>4. ASSUME NEW a \in Actions, r2[a] # none
        PROVE  \E i \in 1 .. Len(u) : Is(u[i], "claim", a)
    BY Zenon, <1>3, <1>4 DEF Backed, Answers
  <1>5. ASSUME NEW a \in Actions, Recorded(r2[a])
        PROVE  r2[a].out \in Ended /\ \E i \in 1 .. Len(u) : Is(u[i], "result", a)
    BY Zenon, <1>3, <1>5 DEF Backed, Answers
  <1>6. p2.completion # none =>
           p2.completion \in 1 .. Len(u) /\ Is(u[p2.completion], "completion", none)
    BY Zenon, <1>1, <1>2 DEF Backed, Answers
  <1>7. p2.acceptance # none =>
           p2.acceptance \in 1 .. Len(u) /\ Is(u[p2.acceptance], "acceptance", none)
    BY Zenon, <1>1, <1>2 DEF Backed, Answers
  <1> QED BY Zenon, <1>4, <1>5, <1>6, <1>7 DEF Backed, u

\* A transaction that signs one event.
LEMMA OneSigned ==
    ASSUME LedgerType, LedgerType', TapeSound, NEW e \in Event, tape' = Append(tape, e),
           Later(rows, ws, projections, rows', ws', projections'), Fresh(tape, e),
           Rooted(tape', Len(tape) + 1, rows', ws', projections'),
           Answers(e, Len(tape) + 1, rows, projections, rows', projections')
    PROVE  TapeSound' /\ Prefix(tape, tape')
  <1>0. tape \in Seq(Event)
    BY DEF LedgerType
  <1>1. Len(tape) \in Nat /\ Len(tape') = Len(tape) + 1 /\ Prefix(tape, tape')
    BY <1>0 DEF Prefix
  <1>2. \A i \in (Len(tape) + 1) .. Len(tape') : i = Len(tape) + 1
    BY <1>1
  <1>3. Single(tape') /\ Backed(tape', rows', projections')
    BY Zenon, <1>0, SingleKept, BackedKept DEF TapeSound
  <1> QED BY Zenon, <1>1, <1>2, <1>3, TapeGrows

\* A step that signs nothing.
LEMMA NoneSigned ==
    ASSUME LedgerType, LedgerType', TapeSound, tape' = tape, rows' = rows,
           projections' = projections,
           ws.ref # none => ws'.ref = ws.ref, ws.verify # none => ws'.verify = ws.verify
    PROVE  /\ TapeSound' /\ Prefix(tape, tape')
           /\ Later(rows, ws, projections, rows', ws', projections')
  <1>1. Len(tape) \in Nat /\ Prefix(tape, tape')
    BY DEF LedgerType, Prefix
  <1>2. \A i \in (Len(tape) + 1) .. Len(tape') : FALSE
    BY <1>1
  <1>3. Later(rows, ws, projections, rows', ws', projections')
    BY Zenon DEF Later
  <1>4. Single(tape') /\ Backed(tape', rows', projections')
    BY Zenon DEF TapeSound
  <1> QED BY Zenon, <1>1, <1>2, <1>3, <1>4, TapeGrows

-----------------------------------------------------------------------------
(* What a step leaves alone *)

\* A row that is new or ends without a success disturbs nothing.
RowsKept(r, r2) ==
    /\ \A a \in Actions : r2[a] = none => r[a] = none
    /\ \A a \in {"command", "finalize"} : Succeeded(r2[a]) <=> Succeeded(r[a])
    /\ \A a \in {"command", "finalize"} : Succeeded(r[a]) => r2[a] = r[a]

\* The account of containers and trees stands while none starts or ends.
LEMMA ExecutionKept ==
    ASSUME HostType, ExecutionSound, entered' = entered, left' = left, Running' = Running,
           ws.tree # none => ws'.tree = ws.tree, ws'.ref = ws.ref, ws'.verify = ws.verify, RowsKept(rows, rows')
    PROVE  ExecutionSound'
  <1>1. \A a \in {"command"} \cup Checks :
            entered'[a] <= 1 /\ (rows'[a] = none => entered'[a] = 0)
    BY Zenon, ActionFacts DEF ExecutionSound, RowsKept
  <1>2. /\ Len(left') + Running' = entered'["command"]
        /\ entered'["command"] = 1 => ws'.tree # none
        /\ ws'.verify # none => ws'.ref # none /\ ws'.verify = ws'.ref
    BY Zenon DEF ExecutionSound
  <1>3. /\ Succeeded(rows'["command"]) =>
             Len(left') = 1 /\ rows'["command"].val = left'[1] /\ ws'.tree = left'[1]
        /\ ws'.ref # none => Succeeded(rows'["command"]) /\ ws'.ref = left'[1]
        /\ Succeeded(rows'["finalize"]) => ws'.ref # none /\ rows'["finalize"].val = ws'.ref
    <2>1. Succeeded(rows["command"]) => ws.tree = left[1] /\ left[1] # none
      <3>1. Len(left) = 1 => left[1] \in Nat
        <4>1. left \in Seq(Nat)
          BY Zenon DEF HostType
        <4>2. Len(left) = 1 => 1 \in 1 .. Len(left)
          OBVIOUS
        <4> QED BY Zenon, <4>1, <4>2, SeqElement
      <3> QED BY Zenon, <3>1, NoneAssumption DEF ExecutionSound
    <2> QED BY Zenon, <2>1 DEF ExecutionSound, RowsKept
  <1> QED BY Zenon, <1>1, <1>2, <1>3 DEF ExecutionSound

\* A checkpoint covers the tape it finds and takes nothing from the others.
LEMMA SealedAdvances ==
    ASSUME LedgerType, Through(ckpts, Len(tape)), ckpts' = Sealed(tape, ckpts)
    PROVE  /\ ckpts' \in Seq(Nat) /\ Through(ckpts', Len(tape))
           /\ Covered(ckpts') = Len(tape) /\ Covered(ckpts) <= Len(tape)
           /\ \A c \in Nat : EndsAt(c) => Alone({k \in DOMAIN ckpts' : ckpts'[k] = c})
  <1>1. ckpts \in Seq(Nat) /\ Len(tape) \in Nat /\ Len(ckpts) \in Nat
    BY DEF LedgerType
  <1>2. Covered(ckpts) \in Nat /\ Covered(ckpts) <= Len(tape)
    BY <1>1 DEF Covered, Through
  <1>3. CASE FullyCovered(tape, ckpts)
    <2>1. ckpts' = ckpts /\ Covered(ckpts) = Len(tape)
      BY <1>3 DEF Sealed, FullyCovered
    <2> QED BY Zenon, <1>1, <1>2, <2>1 DEF EndsAt
  <1>4. CASE ~FullyCovered(tape, ckpts)
    <2>1. ckpts' = Append(ckpts, Len(tape)) /\ Covered(ckpts) < Len(tape)
      BY <1>2, <1>4, <1>1 DEF Sealed, FullyCovered
    <2>2. /\ ckpts' \in Seq(Nat) /\ Len(ckpts') = Len(ckpts) + 1
          /\ DOMAIN ckpts' = 1 .. Len(ckpts) + 1 /\ DOMAIN ckpts = 1 .. Len(ckpts)
          /\ ckpts'[Len(ckpts) + 1] = Len(tape)
          /\ \A i \in 1 .. Len(ckpts) : ckpts'[i] = ckpts[i]
      BY <1>1, <2>1
    <2>3. \A i \in 1 .. Len(ckpts) : ckpts[i] < Len(tape)
      <3> SUFFICES ASSUME NEW i \in 1 .. Len(ckpts) PROVE ckpts[i] < Len(tape)
        OBVIOUS
      <3>1. CASE i = Len(ckpts)
        BY <1>1, <2>1, <3>1 DEF Covered
      <3>2. CASE i < Len(ckpts)
        <4>1. i + 1 \in 2 .. Len(ckpts) /\ i + 1 \in 1 .. Len(ckpts) /\ (i + 1) - 1 = i
          BY <1>1, <3>2
        <4>2. ckpts[i] < ckpts[i + 1] /\ ckpts[i + 1] <= Len(tape)
          BY <4>1 DEF Through, Advances
        <4>3. ckpts[i] \in Nat /\ ckpts[i + 1] \in Nat
          BY <1>1, <4>1
        <4> QED BY <1>1, <4>2, <4>3
      <3> QED BY <1>1, <3>1, <3>2
    <2>4. Through(ckpts', Len(tape))
      <3>1. \A i \in 1 .. Len(ckpts) + 1 : ckpts'[i] <= Len(tape)
        <4>1. \A i \in 1 .. Len(ckpts) + 1 : i \in 1 .. Len(ckpts) \/ i = Len(ckpts) + 1
          BY <1>1
        <4>2. Len(tape) <= Len(tape)
          BY <1>1
        <4> QED BY Zenon, <4>1, <4>2, <2>2 DEF Through
      <3>2. ASSUME NEW i \in 2 .. Len(ckpts) + 1
            PROVE  ckpts'[i - 1] < ckpts'[i]
        <4>1. i - 1 \in 1 .. Len(ckpts)
          BY <1>1
        <4>2. CASE i = Len(ckpts) + 1
          BY <4>1, <4>2, <2>2, <2>3
        <4>3. CASE i \in 2 .. Len(ckpts)
          <5>1. i \in 1 .. Len(ckpts)
            BY <4>3, <1>1
          <5>2. ckpts[i - 1] < ckpts[i]
            BY Zenon, <4>3 DEF Through, Advances
          <5> QED BY <5>1, <5>2, <4>1, <2>2
        <4> QED BY <1>1, <4>2, <4>3
      <3> QED BY Zenon, <3>1, <3>2, <2>2 DEF Through, Advances
    <2>5. Covered(ckpts') = Len(tape)
      BY <1>1, <2>2 DEF Covered
    <2>6. ASSUME NEW c \in Nat, EndsAt(c)
          PROVE  Alone({k \in DOMAIN ckpts' : ckpts'[k] = c})
      <3>1. {k \in DOMAIN ckpts : ckpts[k] = c} # {}
        BY Zenon, <2>6 DEF EndsAt, Alone
      <3>2. c < Len(tape)
        BY Zenon, <3>1, <2>2, <2>3
      <3>3. {k \in DOMAIN ckpts' : ckpts'[k] = c} = {k \in DOMAIN ckpts : ckpts[k] = c}
        BY <1>1, <3>2, <2>2
      <3> QED BY Zenon, <2>6, <3>3 DEF EndsAt
    <2> QED BY Zenon, <1>2, <2>2, <2>4, <2>5, <2>6
  <1> QED BY Zenon, <1>3, <1>4

\* What was proved stays proved.
LEMMA ProofKept ==
    ASSUME LedgerType, TapeSound, Through(ckpts, Len(tape)), Prefix(tape, tape'),
           Later(rows, ws, projections, rows', ws', projections'), Len(tape') \in Nat,
           ckpts' \in {ckpts, Sealed(tape, ckpts)}
    PROVE  /\ Through(ckpts', Len(tape')) /\ Covered(ckpts') >= Covered(ckpts)
           /\ Proved => Proved'
  <1>1. Len(tape) \in Nat /\ Len(tape) <= Len(tape') /\ ckpts \in Seq(Nat) /\ Len(ckpts) \in Nat
    BY DEF LedgerType, Prefix
  <1>2. Covered(ckpts) \in Nat /\ Covered(ckpts) <= Len(tape)
    BY <1>1 DEF Covered, Through
  <1>3. /\ ckpts' \in Seq(Nat) /\ Through(ckpts', Len(tape)) /\ Covered(ckpts') \in Nat
        /\ Covered(ckpts') >= Covered(ckpts)
        /\ \A c \in Nat : EndsAt(c) => Alone({k \in DOMAIN ckpts' : ckpts'[k] = c})
    <2>1. CASE ckpts' = ckpts
      <3>1. Covered(ckpts) >= Covered(ckpts)
        BY <1>2
      <3> QED BY Zenon, <2>1, <1>1, <1>2, <3>1 DEF EndsAt
    <2>2. CASE ckpts' = Sealed(tape, ckpts)
      BY <2>2, <1>1, <1>2, SealedAdvances
    <2> QED BY Zenon, <2>1, <2>2
  <1>4. Through(ckpts', Len(tape'))
    BY <1>1, <1>3 DEF Through
  <1>5. ASSUME Proved
        PROVE  Proved'
    <2>1. /\ projections.completion # none /\ projections.acceptance # none
          /\ projections'.completion = projections.completion
          /\ projections'.acceptance = projections.acceptance
      BY Zenon, <1>5 DEF Proved, Later
    <2>2. projections.completion \in 1 .. Len(tape) /\ projections.acceptance \in 1 .. Len(tape)
      BY Zenon, <2>1 DEF TapeSound, Backed
    <2>3. projections.completion \in Nat /\ projections.acceptance \in Nat
      BY <2>2, <1>1
    <2>4. EndsAt(projections.completion) /\ Covered(ckpts) >= projections.acceptance
      BY Zenon, <1>5 DEF Proved
    <2>5. Alone({k \in DOMAIN ckpts' : ckpts'[k] = projections.completion})
      BY Zenon, <1>3, <2>3, <2>4
    <2>6. Covered(ckpts') >= projections.acceptance
      BY <1>3, <1>2, <2>3, <2>4
    <2>7. tape'[projections.acceptance].out = "passed"
      BY Zenon, <1>5, <2>2 DEF Proved, Prefix
    <2> QED BY Zenon, <2>1, <2>5, <2>6, <2>7 DEF Proved, EndsAt
  <1> QED BY Zenon, <1>3, <1>4, <1>5

\* Where the host has nothing to answer for yet, or answers no success.
PlainPcs ==
    {"idle", "o_resolve", "o_workspace", "o_manifest", "o_manifest_write", "o_packet",
     "o_packet_write", "o_issue", "v_reopen", "r_authority", "r_receipt", "r_fin_issue",
     "r_fin_claim", "r_set", "r_candidate", "r_complete", "r_complete_seal"}
Plain(h) == h.pc \in PlainPcs \/ (h.pc = "answer" /\ h.out # "succeeded")

\* Where nothing is asked of the host, it is sound whatever it carries.
LEMMA PlainHost ==
    ASSUME Plain(host')
    PROVE  HostSound' /\ host'.pc # "r_run"
  BY DEF Plain, PlainPcs, HostSound

\* The same places, while the environment acts.
LEMMA HostKept ==
    ASSUME LedgerType, TapeSound, HostSound, host' = host, entered' = entered,
           Later(rows, ws, projections, rows', ws', projections'),
           Proved => Proved', Through(ckpts, Len(tape)), Through(ckpts', Len(tape')),
           Len(tape') \in Nat, ckpts' \in Seq(Nat), Covered(ckpts') >= Covered(ckpts),
           ws.tree # none => ws'.tree # none,
           host.pc = "r_result" /\ host.out = "succeeded" => left' = left /\ ws'.tree = ws.tree
    PROVE  HostSound'
  <1>1. /\ Check' = Check
        /\ host.pc \in {"c_issue", "c_claim", "c_enter", "c_run", "c_result"} =>
              host.check \in 1 .. Len(Contract) /\ Check \in Actions
    BY Zenon, ActionFacts DEF HostSound, Check
  <1>2. /\ host'.pc \in {"r_claim", "r_enter", "r_run"} => ws'.tree # none
        /\ host'.pc \in {"r_enter", "r_run", "r_result"} => rows'["command"] # none
        /\ host'.pc \in {"r_fin_git", "r_fin_recheck", "r_fin_result"} => rows'["finalize"] # none
        /\ host'.pc \in {"c_enter", "c_run", "c_result"} => rows'[Check'] # none
    BY Zenon, <1>1, ActionFacts DEF HostSound, Later
  <1>3. /\ host'.pc = "r_enter" => entered'["command"] = 0
        /\ host'.pc = "c_enter" => entered'[Check'] = 0
        /\ host'.pc \in {"r_result", "r_fin_result", "c_result"} => host'.out \in Ended
        /\ host'.pc = "r_result" /\ host'.out = "succeeded" =>
              Len(left') = 1 /\ host'.tree = left'[1] /\ ws'.tree = left'[1]
    BY Zenon, <1>1 DEF HostSound
  <1>4. /\ host'.pc = "r_fin_recheck" \/ (host'.pc = "r_fin_result" /\ host'.out = "succeeded") =>
              ws'.ref # none /\ host'.tree = ws'.ref
        /\ host'.pc = "r_verify" => ws'.ref # none
        /\ host'.pc \in {"c_issue", "c_claim", "c_enter", "c_run", "c_result", "r_accept"} =>
              ws'.verify # none
    BY Zenon, <1>1 DEF HostSound, Later
  <1>5. /\ host'.pc \in {"r_accept_seal", "r_receipt_resolve"} => projections'.acceptance # none
        /\ host'.pc = "answer" /\ host'.out = "succeeded" => Proved'
    BY Zenon, <1>1 DEF HostSound, Later
  <1>6. ASSUME host.pc = "r_receipt_resolve"
        PROVE  Covered(ckpts') >= projections'.acceptance
    <2>1. /\ projections.acceptance # none /\ projections'.acceptance = projections.acceptance
          /\ Covered(ckpts) >= projections.acceptance
      BY Zenon, <1>6 DEF HostSound, Later
    <2>2. projections.acceptance \in 1 .. Len(tape) /\ Len(tape) \in Nat
      <3>1. Len(tape) \in Nat
        BY DEF LedgerType
      <3> QED BY Zenon, <3>1, <2>1 DEF TapeSound, Backed
    <2>3. Covered(ckpts) \in Nat /\ Covered(ckpts') \in Nat
      BY DEF LedgerType, Covered
    <2> QED BY <2>1, <2>2, <2>3
  <1>7. /\ host'.pc \in {"c_issue", "c_claim", "c_enter", "c_run", "c_result"} =>
              host'.check \in 1 .. Len(Contract)
        /\ host'.pc = "r_receipt_resolve" => Covered(ckpts') >= projections'.acceptance
    BY Zenon, <1>1, <1>6
  <1> QED BY Zenon, <1>1, <1>2, <1>3, <1>4, <1>5, <1>7 DEF HostSound

\* The invariant, but for the host's place, over a step that keeps the
\* workspace and the executions.
LEMMA RestKept ==
    ASSUME CInv, LedgerType', TapeSound', Prefix(tape, tape'),
           Later(rows, ws, projections, rows', ws', projections'),
           ckpts' \in {ckpts, Sealed(tape, ckpts)}, RowsKept(rows, rows'),
           ws.tree # none => ws'.tree = ws.tree, ws'.ref = ws.ref, ws'.verify = ws.verify,
           entered' = entered, left' = left, answered' = answered, Running' = Running
    PROVE  /\ ExecutionSound' /\ SealSound' /\ (Proved => Proved')
           /\ Covered(ckpts') >= Covered(ckpts)
  <1>1. ExecutionSound'
    BY Zenon, ExecutionKept DEF CInv
  <1>2. Len(tape') \in Nat
    BY DEF LedgerType
  <1>3. /\ Through(ckpts', Len(tape')) /\ Covered(ckpts') >= Covered(ckpts)
        /\ (Proved => Proved')
    BY Zenon, <1>2, ProofKept DEF CInv, SealSound
  <1>4. SealSound'
    BY Zenon, <1>3 DEF CInv, SealSound
  <1> QED BY Zenon, <1>1, <1>3, <1>4

-----------------------------------------------------------------------------
(* The transactions of the store *)

\* What one of them leaves.
Grows ==
    /\ LedgerType' /\ TapeSound' /\ Prefix(tape, tape')
    /\ ckpts' \in {ckpts, Sealed(tape, ckpts)}
    /\ Later(rows, ws, projections, rows', ws', projections')

\* A closed lease keeps its end and carries the outcome.
Closed(row, t, out, val) ==
    [row EXCEPT !.state = "recorded", !.at = t, !.out = out, !.val = val]

\* Closing a lease (record of its result) leaves a lease with that outcome.
LEMMA LeaseRecorded ==
    ASSUME NEW row \in Lease, NEW out \in Ended, NEW val \in Tree, NEW t \in Nat
    PROVE  /\ Closed(row, t, out, val) \in Lease
           /\ Closed(row, t, out, val).state = "recorded"
           /\ Closed(row, t, out, val).out = out
           /\ Closed(row, t, out, val).val = val
  <1> DEFINE r1 == [row EXCEPT !.state = "recorded"]
             r2 == [r1 EXCEPT !.at = t]
             r3 == [r2 EXCEPT !.out = out]
             r4 == [r3 EXCEPT !.val = val]
  <1>1. r1 \in Lease /\ r1.state = "recorded"
    BY DEF Lease
  <1>2. Closed(row, t, out, val) = r4
    BY Zenon DEF Closed
  <1> HIDE DEF r1
  <1>3. r2 \in Lease /\ r2.state = "recorded"
    BY <1>1 DEF Lease
  <1> HIDE DEF r2
  <1>4. r3 \in Lease /\ r3.state = "recorded" /\ r3.out = out
    BY <1>3 DEF Lease, Ended
  <1> HIDE DEF r3
  <1>5. r4 \in Lease /\ r4.state = "recorded" /\ r4.out = out /\ r4.val = val
    BY <1>4 DEF Lease, Tree
  <1> HIDE DEF r4
  <1> QED BY Zenon, <1>2, <1>5

\* A claim grants a well-formed lease.
LEMMA NewLeaseFacts ==
    ASSUME now \in Nat
    PROVE  NewLease \in Lease /\ NewLease.state = "granted" /\ NewLease # none
  <1>1. LeaseEnd \in Nat
    BY WindowAssumption DEF LeaseEnd
  <1>2. NewLease \in Lease /\ NewLease.state = "granted"
    BY <1>1 DEF NewLease, Lease
  <1> QED BY Zenon, <1>2, NoneAssumption

\* A transaction that writes nothing.
LEMMA NoCommit ==
    ASSUME CInv, tape' = tape, ckpts' = ckpts, rows' = rows, projections' = projections,
           now' \in Nat,
           ws.ref # none => ws'.ref = ws.ref, ws.verify # none => ws'.verify = ws.verify
    PROVE  Grows /\ RowsKept(rows, rows')
  <1>1. LedgerType'
    BY Zenon DEF CInv, LedgerType
  <1>2. RowsKept(rows, rows')
    BY Zenon DEF RowsKept
  <1> QED BY Zenon, <1>1, <1>2, NoneSigned DEF CInv, Grows

\* One event that moves no row.
LEMMA OneCommit ==
    ASSUME CInv, NEW e \in Event, tape' = tape \o <<e>>,
           ckpts' = ckpts, rows' = rows, now' = now, ws' = ws,
           projections' \in [completion : Tree, acceptance : Tree],
           projections.completion # none => projections'.completion = projections.completion,
           projections.acceptance # none => projections'.acceptance = projections.acceptance,
           \/ projections'.completion = projections.completion
           \/ projections'.completion = Len(tape) + 1 /\ Is(e, "completion", none),
           \/ projections'.acceptance = projections.acceptance
           \/ projections'.acceptance = Len(tape) + 1 /\ Is(e, "acceptance", none),
           Fresh(tape, e), Rooted(tape', Len(tape) + 1, rows, ws, projections')
    PROVE  Grows /\ RowsKept(rows, rows')
  <1>1. tape \in Seq(Event) /\ Len(tape) \in Nat
    BY DEF CInv, LedgerType
  <1>2. tape' = Append(tape, e) /\ tape' \in Seq(Event)
    BY <1>1, ConcatOne
  <1>3. LedgerType'
    BY Zenon, <1>2 DEF CInv, LedgerType
  <1>4. Later(rows, ws, projections, rows', ws', projections')
    BY Zenon DEF Later
  <1>5. RowsKept(rows, rows')
    BY Zenon DEF RowsKept
  <1>6. \A a \in Actions : /\ rows'[a] = none \/ rows[a] # none
                           /\ Recorded(rows'[a]) => Recorded(rows[a]) /\ rows'[a] = rows[a]
    BY Zenon
  <1>7. Answers(e, Len(tape) + 1, rows, projections, rows', projections')
    BY Zenon, <1>6 DEF Answers
  <1>8. LedgerType /\ TapeSound /\ Rooted(tape', Len(tape) + 1, rows', ws', projections')
    BY Zenon DEF CInv
  <1> QED BY Zenon, <1>2, <1>3, <1>4, <1>5, <1>7, <1>8, OneSigned DEF Grows

\* The request of an action.
LEMMA IssueGrows ==
    ASSUME CInv, NEW act \in Actions, NEW answer, Issue(act, answer),
           projections' = projections, ws' = ws,
           answer = "issued" =>
               ~Has("action", act) /\ (act = "finalize" => Succeeded(rows["command"]))
    PROVE  Grows /\ RowsKept(rows, rows')
  <1> DEFINE e == Signed("action", act, none, none)
  <1>0. now \in Nat /\ ckpts' = ckpts /\ rows' = rows /\ now' = now
    BY DEF CInv, LedgerType, Issue
  <1>1. CASE answer # "issued"
    <2>1. tape' = tape
      BY <1>1 DEF Issue, Commit
    <2> QED BY Zenon, <1>0, <2>1, NoCommit
  <1>2. CASE answer = "issued"
    <2>1. e \in Event /\ e.kind = "action" /\ e.act = act
      BY DEF Event, Tree, Signed
    <2>2. tape' = tape \o <<e>>
      BY <1>2 DEF Issue, Commit
    <2> HIDE DEF e
    <2>3. tape \in Seq(Event) /\ projections \in [completion : Tree, acceptance : Tree]
      BY DEF CInv, LedgerType
    <2>4. tape'[Len(tape) + 1] = e
      BY <2>1, <2>2, <2>3
    <2>5. Rooted(tape', Len(tape) + 1, rows, ws, projections')
      BY <1>2, <2>1, <2>4 DEF Rooted, Is
    <2>6. Fresh(tape, e)
      BY Zenon, <1>2, <2>1, Found DEF Fresh, CInv
    <2> QED BY Zenon, <1>0, <2>1, <2>2, <2>3, <2>5, <2>6, OneCommit
  <1> QED BY Zenon, <1>1, <1>2

\* The grant of a lease.
LEMMA ClaimGrows ==
    ASSUME CInv, NEW act \in Actions, NEW answer, Claim(act, answer),
           projections' = projections, ws' = ws,
           answer = "granted" =>
               rows[act] = none /\ (act = "finalize" => Succeeded(rows["command"]))
    PROVE  /\ Grows /\ RowsKept(rows, rows')
           /\ answer = "granted" => rows'[act] # none
  <1> DEFINE e == Signed("claim", act, none, none)
  <1>0. now \in Nat /\ ckpts' = ckpts /\ now' = now
    BY DEF CInv, LedgerType, Claim
  <1>1. CASE answer # "granted"
    <2>1. tape' = tape /\ rows' = rows
      BY <1>1 DEF Claim, Commit
    <2> QED BY Zenon, <1>0, <1>1, <2>1, NoCommit
  <1>2. CASE answer = "granted"
    <2>1. e \in Event /\ e.kind = "claim" /\ e.act = act
      BY DEF Event, Tree, Signed
    <2>2. tape' = tape \o <<e>> /\ rows' = [rows EXCEPT ![act] = NewLease]
      BY <1>2 DEF Claim, Commit
    <2> HIDE DEF e
    <2>3. /\ LedgerType /\ TapeSound /\ tape \in Seq(Event) /\ rows \in [Actions -> Lease \cup {none}]
          /\ Len(tape) \in Nat
      BY DEF CInv, LedgerType
    <2>4. tape'[Len(tape) + 1] = e /\ tape' = Append(tape, e) /\ tape' \in Seq(Event)
      BY <2>1, <2>2, <2>3
    <2>5. /\ rows' \in [Actions -> Lease \cup {none}] /\ rows'[act] = NewLease
          /\ \A a \in Actions : a # act => rows'[a] = rows[a]
      BY <1>0, <2>2, <2>3, NewLeaseFacts
    <2>6. /\ NewLease # none /\ ~Recorded(NewLease) /\ ~Succeeded(NewLease)
          /\ ~Recorded(none) /\ ~Succeeded(none)
      BY <1>0, NewLeaseFacts DEF Recorded, Succeeded
    <2>7. LedgerType'
      BY Zenon, <1>0, <2>3, <2>4, <2>5 DEF LedgerType
    <2>8. Later(rows, ws, projections, rows', ws', projections')
      BY Zenon, <1>2, <2>5 DEF Later
    <2>9. RowsKept(rows, rows')
      <3>1. \A a \in Actions : rows'[a] = none => rows[a] = none
        BY Zenon, <1>2, <2>5
      <3>2. \A a \in Actions : /\ Succeeded(rows'[a]) <=> Succeeded(rows[a])
                               /\ Succeeded(rows[a]) => rows'[a] = rows[a]
        BY Zenon, <1>2, <2>5, <2>6
      <3> QED BY Zenon, <3>1, <3>2, ActionFacts DEF RowsKept
    <2>10. act = "finalize" => Succeeded(rows'["command"])
      BY Zenon, <1>2, <2>9 DEF RowsKept
    <2>11. Rooted(tape', Len(tape) + 1, rows', ws', projections')
      BY <2>1, <2>4, <2>5, <2>6, <2>10 DEF Rooted, Is
    <2>12. Fresh(tape, e)
      BY <2>1 DEF Fresh
    <2>13. \A a \in Actions :
              /\ rows'[a] = none \/ rows[a] # none \/ Is(e, "claim", a)
              /\ Recorded(rows'[a]) => Recorded(rows[a]) /\ rows'[a] = rows[a]
      BY Zenon, <2>1, <2>5, <2>6 DEF Is
    <2>14. Answers(e, Len(tape) + 1, rows, projections, rows', projections')
      BY Zenon, <2>13 DEF Answers
    <2>15. TapeSound' /\ Prefix(tape, tape')
      BY Zenon, <2>1, <2>3, <2>4, <2>7, <2>8, <2>11, <2>12, <2>14, OneSigned
    <2> QED BY Zenon, <1>0, <2>5, <2>6, <2>7, <2>8, <2>9, <2>15 DEF Grows
  <1> QED BY Zenon, <1>1, <1>2

\* The record of a result: only a lease that is held and open takes one.
LEMMA ResultGrows ==
    ASSUME CInv, NEW act \in Actions, rows[act] # none, NEW out \in Ended, NEW val \in Tree,
           RecordResult(act, out, val), projections' = projections, ws' = ws
    PROVE  /\ Grows
           /\ \A a \in Actions : a # act => rows'[a] = rows[a]
           /\ ResultAnswer(act, out) = "recorded" =>
                 /\ ~Recorded(rows[act]) /\ Recorded(rows'[act])
                 /\ rows'[act].out = out /\ rows'[act].val = val
           /\ ResultAnswer(act, out) # "recorded" => rows' = rows
           /\ ResultAnswer(act, out) = "existing" => Recorded(rows[act]) /\ rows[act].out = out
  <1> DEFINE e == Signed("result", act, out, val)
             answer == ResultAnswer(act, out)
             row == Closed(rows[act], now, out, val)
  <1>0. /\ now \in Nat /\ ckpts' = ckpts /\ now' = now
        /\ rows \in [Actions -> Lease \cup {none}] /\ rows[act] \in Lease
    BY DEF CInv, LedgerType, RecordResult
  <1>a. answer = "existing" => Recorded(rows[act]) /\ rows[act].out = out
    BY DEF ResultAnswer, Recorded
  <1>1. CASE answer # "recorded"
    <2>1. tape' = tape /\ rows' = rows
      BY <1>1 DEF RecordResult, Commit
    <2> QED BY Zenon, <1>0, <1>1, <1>a, <2>1, NoCommit
  <1>2. CASE answer = "recorded"
    <2>0. ~Recorded(rows[act])
      BY <1>2 DEF ResultAnswer, Recorded
    <2>1. e \in Event /\ e.kind = "result" /\ e.act = act /\ e.out = out /\ e.val = val
      BY DEF Event, Tree, Signed, Ended
    <2>2. tape' = tape \o <<e>> /\ rows' = [rows EXCEPT ![act] = row]
      BY <1>2 DEF RecordResult, Commit, Closed
    <2>3. row \in Lease /\ row.state = "recorded" /\ row.out = out /\ row.val = val
      <3>1. rows[act] \in Lease /\ now \in Nat
        BY Zenon, <1>0
      <3> QED BY <3>1, LeaseRecorded
    <2> HIDE DEF e, row
    <2>4. /\ LedgerType /\ TapeSound /\ tape \in Seq(Event) /\ Len(tape) \in Nat
      BY DEF CInv, LedgerType
    <2>5. tape'[Len(tape) + 1] = e /\ tape' = Append(tape, e) /\ tape' \in Seq(Event)
      BY <2>1, <2>2, <2>4
    <2>6. /\ rows' \in [Actions -> Lease \cup {none}] /\ rows'[act] = row
          /\ \A a \in Actions : a # act => rows'[a] = rows[a]
      BY <1>0, <2>2, <2>3
    <2>7. row # none /\ Recorded(row)
      BY Zenon, <2>3, NoneAssumption DEF Recorded
    <2>8. LedgerType'
      BY Zenon, <1>0, <2>4, <2>5, <2>6 DEF LedgerType
    <2>9. Later(rows, ws, projections, rows', ws', projections')
      BY Zenon, <2>0, <2>6, <2>7 DEF Later, Recorded
    <2>10. Rooted(tape', Len(tape) + 1, rows', ws', projections')
      BY <2>1, <2>3, <2>5, <2>6, <2>7 DEF Rooted, Is
    <2>11. Fresh(tape, e)
      <3>1. \A i \in 1 .. Len(tape) : Is(tape[i], "result", act) => Recorded(rows[act])
        BY Zenon, <2>4 DEF TapeSound, Rooted, Is
      <3> QED BY Zenon, <3>1, <2>0, <2>1 DEF Fresh
    <2>12. \A a \in Actions :
              /\ rows'[a] = none \/ rows[a] # none
              /\ Recorded(rows'[a]) => \/ Recorded(rows[a]) /\ rows'[a] = rows[a]
                                       \/ Is(e, "result", a) /\ rows'[a].out \in Ended
      BY Zenon, <2>1, <2>3, <2>6 DEF Is
    <2>13. Answers(e, Len(tape) + 1, rows, projections, rows', projections')
      BY Zenon, <2>12 DEF Answers
    <2>14. TapeSound' /\ Prefix(tape, tape')
      BY Zenon, <2>1, <2>4, <2>5, <2>8, <2>9, <2>10, <2>11, <2>13, OneSigned
    <2>15. Grows
      BY Zenon, <1>0, <2>8, <2>9, <2>14 DEF Grows
    <2> QED BY Zenon, <1>2, <1>a, <2>0, <2>3, <2>6, <2>7, <2>15
  <1> QED BY Zenon, <1>1, <1>2

-----------------------------------------------------------------------------
(* Steps of the host *)

\* Going on and answering move the host and nothing else of it.
LEMMA GotoStands ==
    ASSUME HostType, NEW pc, Goto(pc)
    PROVE  Stands(host', pc, host.check, host.out, host.tree)
  <1>1. host' = [host EXCEPT !.pc = pc]
    BY Zenon DEF Goto
  <1>2. Stands([host EXCEPT !.pc = pc], pc, host.check, host.out, host.tree)
    BY Zenon, HostMoves
  <1> QED BY Zenon, <1>1, <1>2

\* Answering moves the host to its reply with that outcome.
LEMMA AnswerStands ==
    ASSUME HostType, NEW out, Answer(out)
    PROVE  Stands(host', "answer", host.check, out, host.tree)
  <1>1. host' = [host EXCEPT !.pc = "answer", !.out = out]
    BY Zenon DEF Answer
  <1>2. Stands([host EXCEPT !.pc = "answer", !.out = out], "answer", host.check, out, host.tree)
    BY Zenon, HostMoves
  <1> QED BY Zenon, <1>1, <1>2

\* The place of the host is all its type asks of it.
LEMMA HostTyped ==
    ASSUME HostType, NEW pc, NEW check, NEW out, NEW tree \in Tree,
           Stands(host', pc, check, out, tree),
           ws' \in Workspace, entered' \in [{"command"} \cup Checks -> Nat], left' \in Seq(Nat), orphan' \in BOOLEAN
    PROVE  HostType'
  <1>1. host' = Host(host'.pc, host'.op, host'.packet, host'.check, host'.out, host'.tree)
        /\ host'.tree \in Tree
    BY Zenon DEF Stands
  <1> QED BY Zenon, <1>1 DEF HostType, Host

\* The worktree that is there, the candidate ref and its worktree stay.
WorkspaceKept ==
    /\ ws' \in Workspace /\ (ws.tree # none => ws'.tree = ws.tree)
    /\ ws'.ref = ws.ref /\ ws'.verify = ws.verify

\* A step that does not touch the workspace keeps it.
LEMMA SameWorkspace ==
    ASSUME CInv, ws' = ws
    PROVE  WorkspaceKept
  BY Zenon DEF CInv, HostType, WorkspaceKept

\* A step that starts and ends no container and moves no candidate.
LEMMA StepKeeps ==
    ASSUME CInv, Grows, RowsKept(rows, rows'),
           WorkspaceKept,
           UNCHANGED <<entered, left, answered, orphan>>,
           NEW pc, NEW check, NEW out, NEW tree \in Tree, Stands(host', pc, check, out, tree),
           ~At("r_run"), pc # "r_run", HostSound'
    PROVE  CInv'
  <1>1. HostType /\ entered \in [{"command"} \cup Checks -> Nat] /\ left \in Seq(Nat)
        /\ orphan \in BOOLEAN
    BY Zenon DEF CInv, HostType
  <1>2. HostType'
    BY Zenon, <1>1, HostTyped DEF WorkspaceKept
  <1>3. Running' = Running
    BY Zenon DEF Running, At, Stands
  <1>4. /\ LedgerType' /\ TapeSound' /\ Prefix(tape, tape') /\ ckpts' \in {ckpts, Sealed(tape, ckpts)}
        /\ Later(rows, ws, projections, rows', ws', projections')
    BY Zenon DEF Grows
  <1>5. ExecutionSound' /\ SealSound'
    BY Zenon, <1>3, <1>4, RestKept DEF WorkspaceKept
  <1> QED BY Zenon, <1>2, <1>4, <1>5 DEF CInv

\* One that reads, or only touches the workspace.
LEMMA ReadGrows ==
    ASSUME CInv, UNCHANGED storeVars, WorkspaceKept
    PROVE  Grows /\ RowsKept(rows, rows')
  <1>1. now \in Nat /\ tape' = tape /\ ckpts' = ckpts /\ rows' = rows
        /\ projections' = projections /\ now' = now
    BY Zenon DEF CInv, LedgerType, storeVars, tapeVars
  <1> QED BY Zenon, <1>1, NoCommit DEF WorkspaceKept

\* One that leaves the host with nothing to answer for.
LEMMA PlainKeeps ==
    ASSUME CInv, Grows, RowsKept(rows, rows'), WorkspaceKept,
           UNCHANGED <<entered, left, answered, orphan>>,
           NEW pc, NEW check, NEW out, NEW tree \in Tree, Stands(host', pc, check, out, tree),
           ~At("r_run"), Plain(host')
    PROVE  CInv'
  <1>1. HostSound' /\ host'.pc # "r_run" /\ host'.pc = pc
    BY Zenon, PlainHost DEF Stands
  <1> QED BY Zenon, <1>1, StepKeeps

\* A failure, or going on to such a place.
LEMMA PlainMoves ==
    ASSUME CInv, Grows, RowsKept(rows, rows'), WorkspaceKept,
           UNCHANGED <<entered, left, answered, orphan>>, ~At("r_run"), NEW pc, NEW out,
           \/ Answer(out) /\ out # "succeeded"
           \/ Goto(pc) /\ pc \in PlainPcs
    PROVE  CInv'
  <1>1. HostType /\ host.tree \in Tree
    BY Zenon DEF CInv, HostType
  <1>2. CASE Answer(out) /\ out # "succeeded"
    <2>1. Stands(host', "answer", host.check, out, host.tree)
      BY Zenon, <1>1, <1>2, AnswerStands
    <2>2. Plain(host')
      BY Zenon, <1>2, <2>1 DEF Plain, Stands
    <2> QED BY Zenon, <1>1, <2>1, <2>2, PlainKeeps
  <1>3. CASE Goto(pc) /\ pc \in PlainPcs
    <2>1. Stands(host', pc, host.check, host.out, host.tree)
      BY Zenon, <1>1, <1>3, GotoStands
    <2>2. Plain(host')
      BY Zenon, <1>3, <2>1 DEF Plain, Stands
    <2> QED BY Zenon, <1>1, <2>1, <2>2, PlainKeeps
  <1> QED BY Zenon, <1>2, <1>3

\* A new request starts where nothing is promised yet.
LEMMA RequestKeeps ==
    ASSUME CInv, NEW op, NEW packet, NEW pc \in {"o_resolve", "r_authority", "v_reopen"},
           Request(op, packet, pc)
    PROVE  CInv'
  <1>1. host' = Host(pc, op, packet, 0, none, none)
    <2>1. host' = [idle EXCEPT !.pc = pc, !.op = op, !.packet = packet]
      BY Zenon DEF Request
    <2>2. [idle EXCEPT !.pc = pc, !.op = op, !.packet = packet]
             = [[[idle EXCEPT !.pc = pc] EXCEPT !.op = op] EXCEPT !.packet = packet]
      BY Zenon
    <2>3. idle = Host("idle", none, none, 0, none, none)
      BY Zenon DEF idle, Host
    <2>4. [Host("idle", none, none, 0, none, none) EXCEPT !.pc = pc]
             = Host(pc, none, none, 0, none, none)
      BY DEF Host
    <2>5. [Host(pc, none, none, 0, none, none) EXCEPT !.op = op]
             = Host(pc, op, none, 0, none, none)
      BY DEF Host
    <2>6. [Host(pc, op, none, 0, none, none) EXCEPT !.packet = packet]
             = Host(pc, op, packet, 0, none, none)
      BY DEF Host
    <2>7. [[idle EXCEPT !.pc = pc] EXCEPT !.op = op] = Host(pc, op, none, 0, none, none)
      BY Zenon, <2>3, <2>4, <2>5
    <2> QED BY Zenon, <2>1, <2>2, <2>6, <2>7
  <1>2. host'.pc = pc /\ host'.op = op /\ host'.packet = packet /\ host'.check = 0
        /\ host'.out = none /\ host'.tree = none
    BY <1>1 DEF Host
  <1>3. Stands(host', pc, 0, none, none)
    BY Zenon, <1>1, <1>2 DEF Stands
  <1>4. Plain(host')
    BY <1>2 DEF Plain, PlainPcs
  <1>5. UNCHANGED storeVars /\ ws' = ws /\ UNCHANGED <<entered, left, answered, orphan>>
    BY Zenon DEF Request, workspaceVars
  <1>6. WorkspaceKept /\ ~At("r_run") /\ none \in Tree
    BY <1>5, SameWorkspace DEF Request, At, Tree
  <1>7. Grows /\ RowsKept(rows, rows')
    BY Zenon, <1>5, <1>6, ReadGrows
  <1> QED BY Zenon, <1>3, <1>4, <1>5, <1>6, <1>7, PlainKeeps

\* Taking a request only moves the host.
LEMMA RequestsKeep ==
    ASSUME CInv, RequestOpen \/ RequestRun \/ RequestRecovery
    PROVE  CInv'
  <1>1. \E op, packet : \E pc \in {"o_resolve", "r_authority", "v_reopen"} :
           Request(op, packet, pc)
    BY Zenon DEF RequestOpen, RequestRun, RequestRecovery
  <1> QED BY Zenon, <1>1, RequestKeeps

\* What the frames of the three kinds of step keep.
LEMMA Frames ==
    /\ LedgerStep => ws' = ws /\ UNCHANGED <<entered, left, answered, orphan>>
    /\ GitStep => UNCHANGED storeVars /\ UNCHANGED <<entered, left, answered, orphan>>
    /\ ReadStep => /\ UNCHANGED storeVars /\ ws' = ws
                   /\ UNCHANGED <<entered, left, answered, orphan>>
  BY Zenon DEF LedgerStep, GitStep, ReadStep, Ghosts, workspaceVars

\* A step that only reads, and goes on to a plain place or answers.
LEMMA ReadsKeep ==
    ASSUME CInv, ReadStep, ~At("r_run"), NEW pc \in PlainPcs, NEW out, out # "succeeded",
           Goto(pc) \/ Answer(out)
    PROVE  CInv'
  <1>1. UNCHANGED storeVars /\ ws' = ws /\ UNCHANGED <<entered, left, answered, orphan>>
    BY Zenon, Frames
  <1>2. WorkspaceKept
    BY Zenon, <1>1, SameWorkspace
  <1>3. Grows /\ RowsKept(rows, rows')
    BY Zenon, <1>1, <1>2, ReadGrows
  <1> QED BY Zenon, <1>1, <1>2, <1>3, PlainMoves

\* A change of the worktree that is there to nothing but itself.
LEMMA GitKeeps ==
    ASSUME CInv, GitStep, WorkspaceKept, ~At("r_run"), NEW pc \in PlainPcs,
           Goto(pc) \/ Fail
    PROVE  CInv'
  <1>1. UNCHANGED storeVars /\ UNCHANGED <<entered, left, answered, orphan>>
    BY Zenon, Frames
  <1>2. Grows /\ RowsKept(rows, rows')
    BY Zenon, <1>1, ReadGrows
  <1>3. CASE Goto(pc)
    BY Zenon, <1>1, <1>2, <1>3, PlainMoves
  <1>4. CASE Fail
    <2>1. Answer("error") /\ "error" # "succeeded"
      BY <1>4 DEF Fail
    <2> QED BY Zenon, <1>1, <1>2, <2>1, PlainMoves
  <1> QED BY Zenon, <1>3, <1>4

\* open_candidate_workspace_v1, the manifest and the packet, written, torn or found.
LEMMA OpensKeep ==
    ASSUME CInv, OpenTheWorkspace \/ OpenManifest \/ OpenPacket
    PROVE  CInv'
  <1>1. ws \in Workspace
    BY Zenon DEF CInv, HostType
  <1>2. CASE OpenTheWorkspace
    <2>1. WorkspaceKept
      <3>1. CASE ws' = ws
        BY Zenon, <3>1, SameWorkspace
      <3>2. CASE ws' = [ws EXCEPT !.tree = 0] /\ WorkspaceAnswer = "opened"
        <4>1. ws.tree = none \/ ws.tree = 0
          BY <3>2 DEF WorkspaceAnswer, Untouched
        <4> QED BY <1>1, <3>2, <4>1 DEF WorkspaceKept, Workspace, Tree
      <3> QED BY <1>2, <3>1, <3>2 DEF OpenTheWorkspace, OpenWorkspace
    <2>2. Goto("o_manifest") \/ Fail
      BY Zenon, <1>2 DEF OpenTheWorkspace, Continue
    <2>3. ~At("r_run") /\ GitStep /\ "o_manifest" \in PlainPcs
      BY <1>2 DEF OpenTheWorkspace, At, PlainPcs
    <2> QED BY Zenon, <2>1, <2>2, <2>3, GitKeeps
  <1>3. ASSUME NEW at, NEW file \in {"manifest", "packet"}, NEW write \in PlainPcs,
               NEW next \in PlainPcs, at # "r_run",
               OpenFile(at, file, write, next) \/ OpenWrite(at, file, next)
        PROVE  CInv'
    <2>1. ws' = ws \/ ws' = [ws EXCEPT ![file] = "torn"] \/ ws' = [ws EXCEPT ![file] = "whole"]
      BY Zenon, <1>3 DEF OpenFile, OpenWrite, CreateFile, WriteFile
    <2>2. WorkspaceKept
      <3>1. CASE file = "manifest"
        BY <1>1, <2>1, <3>1, SameWorkspace DEF WorkspaceKept, Workspace
      <3>2. CASE file = "packet"
        BY <1>1, <2>1, <3>2, SameWorkspace DEF WorkspaceKept, Workspace
      <3> QED BY Zenon, <3>1, <3>2
    <2>3. Goto(write) \/ Goto(next) \/ Fail
      BY Zenon, <1>3 DEF OpenFile, OpenWrite
    <2>4. GitStep /\ ~At("r_run")
      BY Zenon, <1>3 DEF OpenFile, OpenWrite, At
    <2> QED BY Zenon, <2>2, <2>3, <2>4, GitKeeps
  <1>4. /\ {"o_manifest_write", "o_packet_write", "o_packet", "o_issue"} \subseteq PlainPcs
        /\ "o_manifest" # "r_run" /\ "o_manifest_write" # "r_run"
        /\ "o_packet" # "r_run" /\ "o_packet_write" # "r_run"
    BY DEF PlainPcs
  <1>5. CASE OpenManifest
    BY Zenon, <1>3, <1>4, <1>5 DEF OpenManifest
  <1>6. CASE OpenPacket
    BY ZenonT(30), <1>3, <1>4, <1>6 DEF OpenPacket
  <1> QED BY Zenon, <1>2, <1>5, <1>6

\* What each place asks of the step that reaches it.
LEMMA HostAt ==
    /\ host'.pc = "r_claim" /\ ws'.tree # none => HostSound'
    /\ host'.pc = "r_enter" /\ ws'.tree # none /\ rows'["command"] # none
          /\ entered'["command"] = 0 => HostSound'
    /\ host'.pc = "r_run" /\ ws'.tree # none /\ rows'["command"] # none => HostSound'
    /\ host'.pc = "r_result" /\ rows'["command"] # none /\ host'.out \in Ended
          /\ (host'.out = "succeeded" =>
                Len(left') = 1 /\ host'.tree = left'[1] /\ ws'.tree = left'[1]) => HostSound'
    /\ host'.pc = "r_fin_git" /\ rows'["finalize"] # none => HostSound'
    /\ host'.pc = "r_fin_recheck" /\ rows'["finalize"] # none
          /\ ws'.ref # none /\ host'.tree = ws'.ref => HostSound'
    /\ host'.pc = "r_fin_result" /\ rows'["finalize"] # none /\ host'.out \in Ended
          /\ (host'.out = "succeeded" => ws'.ref # none /\ host'.tree = ws'.ref) => HostSound'
    /\ host'.pc = "r_verify" /\ ws'.ref # none => HostSound'
    /\ host'.pc = "r_accept" /\ ws'.verify # none => HostSound'
    /\ host'.pc = "r_accept_seal" /\ projections'.acceptance # none => HostSound'
    /\ host'.pc = "r_receipt_resolve" /\ projections'.acceptance # none
          /\ Covered(ckpts') >= projections'.acceptance => HostSound'
    /\ host'.pc = "answer" /\ host'.out = "succeeded" /\ Proved' => HostSound'
  BY SMTT(20) DEF HostSound

\* What the places of a check's execution ask.
LEMMA HostAtCheck ==
    ASSUME host'.check \in 1 .. Len(Contract), ws'.verify # none
    PROVE  /\ host'.pc \in {"c_issue", "c_claim"} => HostSound'
           /\ host'.pc = "c_enter" /\ rows'[Check'] # none /\ entered'[Check'] = 0 => HostSound'
           /\ host'.pc = "c_run" /\ rows'[Check'] # none => HostSound'
           /\ host'.pc = "c_result" /\ rows'[Check'] # none /\ host'.out \in Ended => HostSound'
  BY DEF HostSound

\* A step of the ledger, going on to a place whose demands are met.
LEMMA LedgerMoves ==
    ASSUME CInv, Grows, RowsKept(rows, rows'), LedgerStep, ~At("r_run"),
           NEW pc, pc # "r_run", NEW out,
           \/ Goto(pc) /\ (pc \in PlainPcs \/ HostSound')
           \/ Answer(out) /\ (out # "succeeded" \/ HostSound')
    PROVE  CInv'
  <1>1. ws' = ws /\ UNCHANGED <<entered, left, answered, orphan>> /\ WorkspaceKept
    BY Zenon, Frames, SameWorkspace
  <1>2. HostType /\ host.tree \in Tree
    BY Zenon DEF CInv, HostType
  <1>3. Goto(pc) => Stands(host', pc, host.check, host.out, host.tree)
    BY Zenon, <1>2, GotoStands
  <1>4. Answer(out) => Stands(host', "answer", host.check, out, host.tree)
    BY Zenon, <1>2, AnswerStands
  <1>5. CASE Goto(pc) /\ HostSound'
    BY Zenon, <1>1, <1>2, <1>3, <1>5, StepKeeps
  <1>6. CASE Answer(out) /\ HostSound'
    <2>1. "answer" # "r_run"
      OBVIOUS
    <2> QED BY Zenon, <1>1, <1>2, <1>4, <1>6, <2>1, StepKeeps
  <1> QED BY Zenon, <1>1, <1>5, <1>6, PlainMoves

\* A control that refused ends the request.
LEMMA LedgerFails ==
    ASSUME CInv, Grows, RowsKept(rows, rows'), LedgerStep, ~At("r_run"), Fail
    PROVE  CInv'
  <1>1. Answer("error") /\ "error" # "succeeded" /\ "idle" # "r_run"
    BY DEF Fail
  <1> QED BY Zenon, <1>1, LedgerMoves

\* Going on after the control, or failing.
LEMMA LedgerContinues ==
    ASSUME CInv, Grows, RowsKept(rows, rows'), LedgerStep, ~At("r_run"),
           NEW answer, NEW ok, NEW pc, pc # "r_run", Continue(answer, ok, pc),
           pc \in PlainPcs \/ (answer \in ok /\ Goto(pc) => HostSound')
    PROVE  CInv'
  <1>1. (answer \in ok /\ Goto(pc)) \/ Fail
    BY Zenon DEF Continue
  <1> QED BY Zenon, <1>1, LedgerMoves, LedgerFails

-----------------------------------------------------------------------------
(* Opening and authorizing *)

\* Resolving the session and reopening it for recovery only read.
LEMMA ReadsOfOpenKeep ==
    ASSUME CInv, OpenResolve \/ RecoverReopen
    PROVE  CInv'
  <1>1. ReadStep /\ ~At("r_run") /\ (Goto("o_workspace") \/ Answer("opened") \/ Answer("error"))
    BY DEF OpenResolve, RecoverReopen, At, Fail
  <1>2. "o_workspace" \in PlainPcs /\ "opened" # "succeeded" /\ "error" # "succeeded"
    BY DEF PlainPcs
  <1> QED BY Zenon, <1>1, <1>2, ReadsKeep

\* issue_governed_v5_command_action_v1: the command is requested once.
LEMMA OpenIssueKeeps ==
    ASSUME CInv, OpenIssue
    PROVE  CInv'
  <1>1. /\ Issue("command", IssueCommandAnswer(host.packet)) /\ LedgerStep /\ ~At("r_run")
        /\ projections' = projections /\ (Answer("opened") \/ Answer("error"))
    BY DEF OpenIssue, IssueCommand, At, Fail
  <1>2. PICK answer : answer = IssueCommandAnswer(host.packet)
    BY Zenon
  <1>3. answer = "issued" => ~Has("action", "command")
    BY <1>2 DEF IssueCommandAnswer, IssueAnswer
  <1>4. "command" # "finalize" /\ "opened" # "succeeded" /\ "error" # "succeeded"
        /\ "idle" # "r_run"
    OBVIOUS
  <1>5. Grows /\ RowsKept(rows, rows')
    BY Zenon, <1>1, <1>2, <1>3, <1>4, IssueGrows, ActionFacts, Frames
  <1> QED BY Zenon, <1>1, <1>4, <1>5, LedgerMoves

\* The command is only claimed with the worktree as it was created.
LEMMA RunAuthorityKeeps ==
    ASSUME CInv, RunAuthority
    PROVE  CInv'
  <1>1. ReadStep /\ ~At("r_run") /\ (Fail \/ (Goto("r_claim") /\ ws.tree = 0))
    BY DEF RunAuthority, At, Reopens, Untouched
  <1>2. CASE Fail
    <2>1. Answer("error") /\ "error" # "succeeded" /\ "idle" \in PlainPcs
      BY <1>2 DEF Fail, PlainPcs
    <2> QED BY Zenon, <1>1, <2>1, ReadsKeep
  <1>3. CASE Goto("r_claim") /\ ws.tree = 0
    <2>1. /\ UNCHANGED storeVars /\ ws' = ws /\ UNCHANGED <<entered, left, answered, orphan>>
          /\ WorkspaceKept /\ HostType /\ host.tree \in Tree
      BY Zenon, <1>1, Frames, SameWorkspace DEF CInv, HostType
    <2>2. Grows /\ RowsKept(rows, rows')
      BY Zenon, <2>1, ReadGrows
    <2>3. Stands(host', "r_claim", host.check, host.out, host.tree) /\ "r_claim" # "r_run"
      BY <1>3, <2>1, GotoStands
    <2>4. host'.pc = "r_claim" /\ ws'.tree # none
      BY <1>3, <2>1, <2>3, NoneAssumption DEF Stands
    <2>5. HostSound'
      BY Zenon, <2>4, HostAt
    <2> QED BY Zenon, <1>1, <2>1, <2>2, <2>3, <2>5, StepKeeps
  <1> QED BY Zenon, <1>1, <1>2, <1>3

-----------------------------------------------------------------------------
(* Claims *)

\* The answers of a claim: granted only where there is no row yet.
LEMMA ClaimDecided ==
    ASSUME NEW act
    PROVE  /\ ClaimAnswer(act) \in {"rejected", "granted", "recorded", "pending", "lease_expired"}
           /\ ClaimAnswer(act) = "granted" => rows[act] = none
           /\ ClaimAnswer(act) = "recorded" => Recorded(rows[act])
  BY DEF ClaimAnswer, Recorded

\* authorize_and_claim_governed_v5_command_action_v1: granted once, and a
\* recorded one is answered.
LEMMA RunClaimKeeps ==
    ASSUME CInv, RunClaim
    PROVE  CInv'
  <1> DEFINE answer == ClaimCommandAnswer
  <1>1. Claim("command", answer) /\ LedgerStep /\ ~At("r_run") /\ At("r_claim")
        /\ projections' = projections
    BY DEF RunClaim, ClaimCommand, At
  <1>2. /\ answer \in {"rejected", "granted", "recorded", "pending", "lease_expired"}
        /\ answer = "granted" => rows["command"] = none
    BY ClaimDecided DEF ClaimCommandAnswer
  <1>3. "command" # "finalize" /\ "command" \in Actions
    BY ActionFacts
  <1>4. \/ answer = "granted" /\ Goto("r_enter")
        \/ Goto("r_receipt")
        \/ Answer(rows["command"].out) /\ rows["command"].out # "succeeded"
        \/ Fail
        \/ Answer(answer) /\ answer # "succeeded"
    BY <1>2 DEF RunClaim, AfterClaim
  <1>5. ws' = ws
    BY Zenon, <1>1, Frames
  <1> HIDE DEF answer
  <1>6. Grows /\ RowsKept(rows, rows') /\ (answer = "granted" => rows'["command"] # none)
    <2>1. PICK ans : ans = answer
      BY Zenon
    <2>2. ans = "granted" => rows["command"] = none
      BY Zenon, <2>1, <1>2
    <2> QED BY Zenon, <1>1, <1>3, <1>5, <2>1, <2>2, ClaimGrows
  <1>7. CASE answer = "granted" /\ Goto("r_enter")
    <2>1. host'.pc = "r_enter"
      BY Zenon, <1>7, GotoStands DEF CInv, Stands
    <2>2. ws'.tree # none /\ rows'["command"] # none /\ entered'["command"] = 0
      <3>1. ws.tree # none
        BY <1>1 DEF CInv, HostSound, At
      <3>2. entered["command"] = 0
        BY Zenon, <1>2, <1>7 DEF CInv, ExecutionSound
      <3>3. entered' = entered
        BY Zenon, <1>1, Frames
      <3> QED BY Zenon, <3>1, <3>2, <3>3, <1>5, <1>6, <1>7
    <2>3. HostSound' /\ "r_enter" # "r_run"
      BY <2>1, <2>2, HostAt
    <2> QED BY Zenon, <1>1, <1>6, <1>7, <2>3, LedgerMoves
  <1>8. CASE Goto("r_receipt")
    <2>1. "r_receipt" \in PlainPcs /\ "r_receipt" # "r_run"
      BY DEF PlainPcs
    <2> QED BY Zenon, <1>1, <1>6, <1>8, <2>1, LedgerMoves
  <1>9. ASSUME NEW out, Answer(out), out # "succeeded"
        PROVE  CInv'
    <2>1. "idle" # "r_run"
      OBVIOUS
    <2> QED BY Zenon, <1>1, <1>6, <1>9, <2>1, LedgerMoves
  <1>10. CASE Fail
    BY Zenon, <1>1, <1>6, <1>10, LedgerFails
  <1> QED BY Zenon, <1>4, <1>7, <1>8, <1>9, <1>10

\* A request for the finalization is only signed under a succeeded command.
LEMMA FinalizeRests ==
    ASSUME CInv, Has("action", "finalize")
    PROVE  Succeeded(rows["command"])
  <1>1. PICK i \in 1 .. Len(tape) : Is(tape[i], "action", "finalize")
    BY Zenon, Found DEF CInv
  <1>2. tape[i].kind \in {"action", "claim"} /\ tape[i].act = "finalize"
    BY <1>1 DEF Is
  <1> QED BY Zenon, <1>2 DEF CInv, TapeSound, Rooted

\* claim of the Git finalization, under a succeeded command.
LEMMA FinalizeClaimKeeps ==
    ASSUME CInv, FinalizeClaim
    PROVE  CInv'
  <1> DEFINE answer == ClaimFinalizeAnswer
  <1>1. Claim("finalize", answer) /\ LedgerStep /\ ~At("r_run") /\ projections' = projections
    BY DEF FinalizeClaim, ClaimFinalize, At
  <1>2. answer = "granted" => rows["finalize"] = none /\ Has("action", "finalize")
    BY ClaimDecided DEF ClaimFinalizeAnswer
  <1>3. (answer = "granted" /\ Goto("r_fin_git")) \/ Goto("r_set") \/ Fail
    BY DEF FinalizeClaim, AfterClaim
  <1>5. ws' = ws /\ "finalize" \in Actions
    BY Zenon, <1>1, Frames, ActionFacts
  <1> HIDE DEF answer
  <1>6. Grows /\ RowsKept(rows, rows') /\ (answer = "granted" => rows'["finalize"] # none)
    <2>1. PICK ans : ans = answer
      BY Zenon
    <2>2. ans = "granted" => rows["finalize"] = none /\ Succeeded(rows["command"])
      BY Zenon, <2>1, <1>2, FinalizeRests
    <2> QED BY Zenon, <1>1, <1>5, <2>1, <2>2, ClaimGrows
  <1>7. CASE answer = "granted" /\ Goto("r_fin_git")
    <2>1. host'.pc = "r_fin_git"
      BY Zenon, <1>7, GotoStands DEF CInv, Stands
    <2>2. HostSound' /\ "r_fin_git" # "r_run"
      BY <2>1, <1>6, <1>7, HostAt
    <2> QED BY Zenon, <1>1, <1>6, <1>7, <2>2, LedgerMoves
  <1>8. CASE Goto("r_set")
    <2>1. "r_set" \in PlainPcs /\ "r_set" # "r_run"
      BY DEF PlainPcs
    <2> QED BY Zenon, <1>1, <1>6, <1>8, <2>1, LedgerMoves
  <1>9. CASE Fail
    BY Zenon, <1>1, <1>6, <1>9, LedgerFails
  <1> QED BY Zenon, <1>3, <1>7, <1>8, <1>9

-----------------------------------------------------------------------------
(* Containers *)

\* A step that accounts for its own containers and candidate.
LEMMA Assembled ==
    ASSUME CInv, Grows, ws' \in Workspace, entered' \in [{"command"} \cup Checks -> Nat],
           left' \in Seq(Nat), orphan' \in BOOLEAN, answered' = answered,
           NEW pc, NEW check, NEW out, NEW tree \in Tree, Stands(host', pc, check, out, tree),
           ExecutionSound', HostSound'
    PROVE  CInv'
  <1>1. HostType'
    BY Zenon, HostTyped DEF CInv
  <1>2. /\ LedgerType' /\ TapeSound' /\ Prefix(tape, tape') /\ ckpts' \in {ckpts, Sealed(tape, ckpts)}
        /\ Later(rows, ws, projections, rows', ws', projections')
    BY Zenon DEF Grows
  <1>3. Len(tape') \in Nat
    BY <1>2 DEF LedgerType
  <1>4. SealSound'
    BY Zenon, <1>2, <1>3, ProofKept DEF CInv, SealSound
  <1> QED BY Zenon, <1>1, <1>2, <1>4 DEF CInv

\* While one execution of the command runs it is the only one, it has left
\* nothing and nothing rests on it.
LEMMA OneRuns ==
    ASSUME CInv, At("r_run") \/ orphan
    PROVE  /\ ~(At("r_run") /\ orphan) /\ Len(left) = 0 /\ entered["command"] = 1
           /\ ws.tree # none /\ ws.tree \in Nat
           /\ ~Succeeded(rows["command"]) /\ ~Succeeded(rows["finalize"])
           /\ ws.ref = none /\ ws.verify = none
  <1>1. /\ entered["command"] \in Nat /\ Len(left) \in Nat /\ orphan \in BOOLEAN
        /\ ws.tree \in Tree
    BY DEF CInv, HostType, Workspace
  <1>2. entered["command"] <= 1 /\ Len(left) + Running = entered["command"]
    BY Zenon DEF CInv, ExecutionSound
  <1>3. /\ ~(At("r_run") /\ orphan) /\ Len(left) = 0 /\ entered["command"] = 1
    BY <1>1, <1>2 DEF Running
  <1>4. ws.tree # none /\ ~Succeeded(rows["command"])
    BY <1>3 DEF CInv, ExecutionSound
  <1>5. ws.ref = none /\ ws.verify = none /\ ~Succeeded(rows["finalize"])
    BY Zenon, <1>4 DEF CInv, ExecutionSound
  <1> QED BY Zenon, <1>1, <1>3, <1>4, <1>5 DEF Tree

\* Its end leaves one tree, the worktree's.
LEMMA OneLeaves ==
    ASSUME CInv, At("r_run") \/ orphan, NEW tree \in {ws.tree, entered["command"]},
           Writes(tree), UNCHANGED storeVars, entered' = entered,
           ~(host'.pc = "r_run"), ~orphan'
    PROVE  /\ Grows /\ ExecutionSound' /\ ws' \in Workspace /\ left' \in Seq(Nat)
           /\ Len(left') = 1 /\ left'[1] = tree /\ ws'.tree = tree /\ tree \in Nat
           /\ ws'.ref = none /\ ws'.verify = none
  <1>1. tree \in Nat /\ tree \in Tree /\ tree # none /\ entered["command"] = 1
        /\ Len(left) = 0 /\ ws.ref = none /\ ws.verify = none
    BY OneRuns, NoneAssumption DEF Tree
  <1>2. ws \in Workspace /\ left \in Seq(Nat)
    BY Zenon DEF CInv, HostType
  <1>3. ws' = [ws EXCEPT !.tree = tree] /\ left' = Append(left, tree)
    BY Zenon DEF Writes
  <1>4. ws' \in Workspace /\ ws'.tree = tree /\ ws'.ref = none /\ ws'.verify = none
    BY <1>1, <1>2, <1>3 DEF Workspace
  <1>5. left' \in Seq(Nat) /\ Len(left') = 1 /\ left'[1] = tree
    BY <1>1, <1>2, <1>3
  <1>6. /\ now \in Nat /\ tape' = tape /\ ckpts' = ckpts /\ rows' = rows
        /\ projections' = projections /\ now' = now
    BY Zenon DEF CInv, LedgerType, storeVars, tapeVars
  <1>7. Grows
    BY Zenon, <1>1, <1>4, <1>6, NoCommit
  <1>8. Running' = 0
    BY DEF Running, At
  <1>9. \A a \in {"command"} \cup Checks :
            entered'[a] <= 1 /\ (rows'[a] = none => entered'[a] = 0)
    BY Zenon, <1>6 DEF CInv, ExecutionSound
  <1>10. Len(left') + Running' = entered'["command"]
    BY <1>1, <1>5, <1>8
  <1>11. ~Succeeded(rows'["command"]) /\ ~Succeeded(rows'["finalize"])
    BY Zenon, <1>6, OneRuns
  <1>12. ExecutionSound'
    BY Zenon, <1>1, <1>4, <1>9, <1>10, <1>11 DEF ExecutionSound
  <1> QED BY Zenon, <1>1, <1>4, <1>5, <1>7, <1>12

\* How a gateway comes back.
LEMMA EndsStands ==
    ASSUME HostType, NEW act, NEW result, NEW out, NEW tree, Ends(act, result, out, tree)
    PROVE  \/ Stands(host', result, host.check, out, tree)
           \/ \E status \in {"reconciliation", "error"} :
                 Stands(host', "answer", host.check, status, host.tree)
  <1>1. CASE host' = [host EXCEPT !.pc = result, !.out = out, !.tree = tree]
    <2>1. Stands([host EXCEPT !.pc = result, !.out = out, !.tree = tree],
                 result, host.check, out, tree)
      BY Zenon, HostMoves
    <2> QED BY Zenon, <1>1, <2>1
  <1>2. CASE Answer("reconciliation") \/ Answer("error")
    BY Zenon, <1>2, AnswerStands
  <1> QED BY Zenon, <1>1, <1>2 DEF Ends, Fail

\* The container ends: it leaves its tree, and its outcome with it.
LEMMA RunContainerKeeps ==
    ASSUME CInv, RunContainer
    PROVE  CInv'
  <1>1. PICK out \in Outcomes("command"), tree \in {ws.tree, entered["command"]} :
           Writes(tree) /\ Ends("command", "r_result", out, tree)
    BY Zenon DEF RunContainer
  <1>2. At("r_run") /\ UNCHANGED storeVars /\ orphan' = orphan /\ entered' = entered
        /\ answered' = answered
    BY Zenon DEF RunContainer
  <1>3. out \in Ended
    BY <1>1 DEF Outcomes, Ended
  <1>4. \/ Stands(host', "r_result", host.check, out, tree)
        \/ \E status \in {"reconciliation", "error"} :
              Stands(host', "answer", host.check, status, host.tree)
    BY Zenon, <1>1, EndsStands DEF CInv
  <1>5. ~(host'.pc = "r_run") /\ ~orphan' /\ orphan' \in BOOLEAN
    <2>1. ~(host'.pc = "r_run")
      BY <1>4 DEF Stands
    <2>2. ~orphan' /\ orphan' \in BOOLEAN
      BY Zenon, <1>2, OneRuns DEF CInv, HostType
    <2> QED BY Zenon, <2>1, <2>2
  <1>6. /\ Grows /\ ExecutionSound' /\ ws' \in Workspace /\ left' \in Seq(Nat)
        /\ Len(left') = 1 /\ left'[1] = tree /\ ws'.tree = tree /\ tree \in Nat
    BY Zenon, <1>1, <1>2, <1>5, OneLeaves
  <1>7. entered' \in [{"command"} \cup Checks -> Nat] /\ host.tree \in Tree /\ tree \in Tree
    BY Zenon, <1>2, <1>6 DEF CInv, HostType, Tree
  <1>8. CASE Stands(host', "r_result", host.check, out, tree)
    <2>1. host'.pc = "r_result" /\ host'.out = out /\ host'.tree = tree
      BY Zenon, <1>8 DEF Stands
    <2>2. rows' = rows /\ rows["command"] # none
      BY <1>2 DEF CInv, HostSound, At, storeVars, tapeVars
    <2>3. HostSound'
      BY Zenon, <1>3, <1>6, <2>1, <2>2, HostAt
    <2> QED BY Zenon, <1>2, <1>5, <1>6, <1>7, <1>8, <2>3, Assembled
  <1>9. ASSUME NEW status \in {"reconciliation", "error"},
               Stands(host', "answer", host.check, status, host.tree)
        PROVE  CInv'
    <2>1. Plain(host')
      BY <1>9 DEF Stands, Plain
    <2>2. HostSound'
      BY Zenon, <2>1, PlainHost
    <2> QED BY Zenon, <1>2, <1>5, <1>6, <1>7, <1>9, <2>2, Assembled
  <1> QED BY Zenon, <1>4, <1>8, <1>9

\* The container that outlived its host ends by itself.
LEMMA OrphanEndsKeeps ==
    ASSUME CInv, OrphanEnds
    PROVE  CInv'
  <1>1. PICK tree \in {ws.tree, entered["command"]} : Writes(tree)
    BY Zenon DEF OrphanEnds
  <1>2. /\ orphan /\ orphan' = FALSE /\ UNCHANGED storeVars /\ host' = host
        /\ entered' = entered /\ answered' = answered
    BY Zenon DEF OrphanEnds
  <1>3. /\ ~(host'.pc = "r_run") /\ ~orphan' /\ orphan' \in BOOLEAN /\ Len(left) = 0
        /\ ws.ref = none /\ ws.verify = none
    BY Zenon, <1>2, OneRuns DEF At
  <1>4. /\ Grows /\ ExecutionSound' /\ ws' \in Workspace /\ left' \in Seq(Nat)
        /\ ws'.tree = tree /\ tree \in Nat
    BY Zenon, <1>1, <1>2, <1>3, OneLeaves
  <1>5. entered' \in [{"command"} \cup Checks -> Nat] /\ host.tree \in Tree
    BY Zenon, <1>2 DEF CInv, HostType
  <1>6. Stands(host', host.pc, host.check, host.out, host.tree)
    BY Zenon, <1>2 DEF CInv, HostType, Stands, Host
  <1>7. /\ LedgerType' /\ Prefix(tape, tape') /\ ckpts' \in {ckpts, Sealed(tape, ckpts)}
        /\ Later(rows, ws, projections, rows', ws', projections') /\ Len(tape') \in Nat
        /\ ckpts' \in Seq(Nat)
    BY <1>4 DEF Grows, LedgerType
  <1>8. /\ Through(ckpts', Len(tape')) /\ Covered(ckpts') >= Covered(ckpts)
        /\ Proved => Proved'
    BY Zenon, <1>7, ProofKept DEF CInv, SealSound
  <1>9. ~(host.pc = "r_result" /\ host.out = "succeeded")
    <2>1. host.pc = "r_result" /\ host.out = "succeeded" => Len(left) = 1
      BY Zenon DEF CInv, HostSound
    <2> QED BY <2>1, <1>3
  <1>10. HostSound'
    <2>1. ws'.tree # none
      BY <1>4, NoneAssumption
    <2> QED BY Zenon, <1>2, <1>7, <1>8, <1>9, <2>1, HostKept DEF CInv, SealSound
  <1> QED BY Zenon, <1>2, <1>3, <1>4, <1>5, <1>6, <1>10, Assembled

\* One more container of an action that had none.
LEMMA EntersOnce ==
    ASSUME CInv, NEW act \in {"command"} \cup Checks, rows[act] # none, entered[act] = 0,
           entered' = [entered EXCEPT ![act] = @ + 1], UNCHANGED <<storeVars, ws, left, orphan>>,
           ~At("r_run"), host'.pc = "r_run" <=> act = "command",
           act = "command" => ws.tree # none
    PROVE  /\ Grows /\ ExecutionSound' /\ entered' \in [{"command"} \cup Checks -> Nat]
           /\ ws' \in Workspace /\ left' \in Seq(Nat) /\ orphan' \in BOOLEAN
  <1>1. /\ ws \in Workspace /\ left \in Seq(Nat) /\ orphan \in BOOLEAN
        /\ entered \in [{"command"} \cup Checks -> Nat] /\ Len(left) \in Nat
    BY DEF CInv, HostType
  <1>2. /\ now \in Nat /\ tape' = tape /\ ckpts' = ckpts /\ rows' = rows
        /\ projections' = projections /\ now' = now
    BY Zenon DEF CInv, LedgerType, storeVars, tapeVars
  <1>3. Grows
    BY Zenon, <1>2, NoCommit
  <1>4. /\ entered' \in [{"command"} \cup Checks -> Nat] /\ entered'[act] = 1
        /\ \A a \in {"command"} \cup Checks : a # act => entered'[a] = entered[a]
    BY <1>1
  <1>5. \A a \in {"command"} \cup Checks :
            entered'[a] <= 1 /\ (rows'[a] = none => entered'[a] = 0)
    <2>1. \A a \in {"command"} \cup Checks :
             entered[a] <= 1 /\ (rows[a] = none => entered[a] = 0)
      BY Zenon DEF CInv, ExecutionSound
    <2> QED BY <2>1, <1>2, <1>4
  <1>6. Len(left) + Running = entered["command"]
    BY Zenon DEF CInv, ExecutionSound
  <1>7. Len(left') + Running' = entered'["command"]
    <2>1. Running = IF orphan THEN 1 ELSE 0
      BY DEF Running
    <2>2. Running' = (IF act = "command" THEN 1 ELSE 0) + (IF orphan THEN 1 ELSE 0)
      BY DEF Running, At
    <2>3. entered'["command"] = entered["command"] + (IF act = "command" THEN 1 ELSE 0)
      BY <1>4
    <2> QED BY <1>1, <1>6, <2>1, <2>2, <2>3
  <1>8. entered'["command"] = 1 => ws'.tree # none
    BY Zenon, <1>4 DEF CInv, ExecutionSound
  <1>9. /\ Succeeded(rows'["command"]) =>
             Len(left') = 1 /\ rows'["command"].val = left'[1] /\ ws'.tree = left'[1]
        /\ ws'.ref # none => Succeeded(rows'["command"]) /\ ws'.ref = left'[1]
        /\ ws'.verify # none => ws'.ref # none /\ ws'.verify = ws'.ref
        /\ Succeeded(rows'["finalize"]) => ws'.ref # none /\ rows'["finalize"].val = ws'.ref
    BY Zenon, <1>2 DEF CInv, ExecutionSound
  <1>10. ExecutionSound'
    BY Zenon, <1>5, <1>7, <1>8, <1>9 DEF ExecutionSound
  <1> QED BY Zenon, <1>1, <1>3, <1>4, <1>10

\* The gateway starts the container under a live lease, or not at all.
LEMMA RunEnterKeeps ==
    ASSUME CInv, RunEnter
    PROVE  CInv'
  <1>1. /\ At("r_enter") /\ ~At("r_run") /\ UNCHANGED <<storeVars, ws, orphan, left>>
        /\ answered' = answered
    BY DEF RunEnter, Enter, At, workspaceVars
  <1>2. ws.tree # none /\ rows["command"] # none /\ entered["command"] = 0
    BY <1>1 DEF CInv, HostSound, At
  <1>3. HostType /\ host.tree \in Tree /\ none \in Tree
    BY Zenon DEF CInv, HostType, Tree
  <1>4. rows' = rows /\ ws' = ws
    BY Zenon, <1>1 DEF storeVars, tapeVars
  <1>5. CASE Goto("r_run") /\ entered' = [entered EXCEPT !["command"] = @ + 1]
    <2>1. Stands(host', "r_run", host.check, host.out, host.tree)
      BY Zenon, <1>3, <1>5, GotoStands
    <2>2. host'.pc = "r_run" /\ "command" \in {"command"} \cup Checks
      BY Zenon, <2>1 DEF Stands
    <2>3. /\ Grows /\ ExecutionSound' /\ entered' \in [{"command"} \cup Checks -> Nat]
          /\ ws' \in Workspace /\ left' \in Seq(Nat) /\ orphan' \in BOOLEAN
      BY Zenon, <1>1, <1>2, <1>5, <2>2, EntersOnce
    <2>4. HostSound'
      BY Zenon, <1>2, <1>4, <2>2, HostAt
    <2> QED BY Zenon, <1>1, <1>3, <2>1, <2>3, <2>4, Assembled
  <1>6. ASSUME NEW out \in {"failed", "unknown"}, Ends("command", "r_result", out, none),
               entered' = entered
        PROVE  CInv'
    <2>1. WorkspaceKept
      BY Zenon, <1>4, SameWorkspace
    <2>2. Grows /\ RowsKept(rows, rows')
      BY Zenon, <1>1, <2>1, ReadGrows
    <2>3. CASE Stands(host', "r_result", host.check, out, none)
      <3>1. /\ host'.pc = "r_result" /\ host'.out = out /\ host'.out # "succeeded"
            /\ host'.out \in Ended /\ "r_result" # "r_run"
        BY <2>3 DEF Stands, Ended
      <3>2. HostSound'
        BY Zenon, <1>2, <1>4, <3>1, HostAt
      <3> QED BY Zenon, <1>1, <1>3, <1>6, <2>1, <2>2, <2>3, <3>1, <3>2, StepKeeps
    <2>4. ASSUME NEW status \in {"reconciliation", "error"},
                 Stands(host', "answer", host.check, status, host.tree)
          PROVE  CInv'
      <3>1. Plain(host')
        BY <2>4 DEF Stands, Plain
      <3> QED BY Zenon, <1>1, <1>3, <1>6, <2>1, <2>2, <2>4, <3>1, PlainKeeps
    <2> QED BY Zenon, <1>3, <1>6, <2>3, <2>4, EndsStands
  <1>7. \A out \in NotStarted("command") : out \in {"failed", "unknown"}
    BY DEF NotStarted
  <1> QED BY Zenon, <1>5, <1>6, <1>7 DEF RunEnter, Enter

-----------------------------------------------------------------------------
(* Results and receipts *)

\* A step of the ledger that closes a lease and goes on or answers.
LEMMA LedgerEnds ==
    ASSUME CInv, Grows, LedgerStep, ExecutionSound', NEW pc \in PlainPcs, NEW out,
           out # "succeeded", Goto(pc) \/ Answer(out)
    PROVE  CInv'
  <1>1. /\ ws' \in Workspace /\ entered' \in [{"command"} \cup Checks -> Nat]
        /\ left' \in Seq(Nat) /\ orphan' \in BOOLEAN /\ answered' = answered
        /\ HostType /\ host.tree \in Tree
    BY Zenon, Frames DEF CInv, HostType
  <1>2. CASE Goto(pc)
    <2>1. Stands(host', pc, host.check, host.out, host.tree)
      BY Zenon, <1>1, <1>2, GotoStands
    <2>2. HostSound'
      BY Zenon, <2>1, PlainHost DEF Plain, Stands
    <2> QED BY Zenon, <1>1, <2>1, <2>2, Assembled
  <1>3. CASE Answer(out)
    <2>1. Stands(host', "answer", host.check, out, host.tree)
      BY Zenon, <1>1, <1>3, AnswerStands
    <2>2. HostSound'
      BY Zenon, <2>1, PlainHost DEF Plain, Stands
    <2> QED BY Zenon, <1>1, <2>1, <2>2, Assembled
  <1> QED BY Zenon, <1>2, <1>3

\* A success of the command carries the tree it left, and one of the Git
\* finalization the tree of the ref.
LEMMA ResultSound ==
    ASSUME CInv, NEW act \in Actions, rows[act] # none, NEW out \in Ended, NEW val \in Tree,
           RecordResult(act, out, val), projections' = projections, LedgerStep, ~At("r_run"),
           host'.pc # "r_run",
           act = "command" /\ out = "succeeded" =>
               Len(left) = 1 /\ val = left[1] /\ ws.tree = left[1],
           act = "finalize" /\ out = "succeeded" => ws.ref # none /\ val = ws.ref
    PROVE  Grows /\ ExecutionSound'
  <1>1. ws' = ws /\ UNCHANGED <<entered, left, answered, orphan>>
    BY Zenon, Frames
  <1>2. /\ Grows
        /\ \A a \in Actions : a # act => rows'[a] = rows[a]
        /\ ResultAnswer(act, out) = "recorded" =>
              /\ ~Recorded(rows[act]) /\ Recorded(rows'[act])
              /\ rows'[act].out = out /\ rows'[act].val = val
        /\ ResultAnswer(act, out) # "recorded" => rows' = rows
    BY Zenon, <1>1, ResultGrows
  <1>3. Running' = Running /\ HostType /\ ExecutionSound
    BY Zenon, <1>1 DEF Running, At, CInv
  <1>4. CASE ResultAnswer(act, out) # "recorded"
    <2>1. RowsKept(rows, rows')
      BY Zenon, <1>2, <1>4 DEF RowsKept
    <2> QED BY Zenon, <1>1, <1>2, <1>3, <2>1, ExecutionKept
  <1>5. CASE ResultAnswer(act, out) = "recorded" /\ ~(out = "succeeded" /\ act \in {"command", "finalize"})
    <2>1. \A a \in Actions : rows'[a] = none => rows[a] = none
      BY Zenon, <1>2, <1>5 DEF Recorded
    <2>2. \A a \in {"command", "finalize"} :
             /\ Succeeded(rows'[a]) <=> Succeeded(rows[a])
             /\ Succeeded(rows[a]) => rows'[a] = rows[a]
      BY Zenon, <1>2, <1>5, ActionFacts DEF Succeeded
    <2>3. RowsKept(rows, rows')
      BY Zenon, <2>1, <2>2 DEF RowsKept
    <2> QED BY Zenon, <1>1, <1>2, <1>3, <2>3, ExecutionKept
  <1>6. CASE ResultAnswer(act, out) = "recorded" /\ out = "succeeded" /\ act = "command"
    <2>1. /\ Succeeded(rows'["command"]) /\ rows'["command"].val = left[1] /\ ws.tree = left[1]
          /\ Len(left) = 1 /\ ~Succeeded(rows["command"])
      BY Zenon, <1>2, <1>6 DEF Succeeded
    <2>2. ws.ref = none /\ ws.verify = none /\ ~Succeeded(rows["finalize"])
      BY Zenon, <1>3, <2>1 DEF ExecutionSound
    <2>3. rows'["finalize"] = rows["finalize"]
      BY <1>2, <1>6, ActionFacts
    <2>4. \A a \in {"command"} \cup Checks :
              entered'[a] <= 1 /\ (rows'[a] = none => entered'[a] = 0)
      <3>1. \A a \in Actions : rows'[a] = none => rows[a] = none
        BY Zenon, <1>2, <1>6 DEF Recorded
      <3> QED BY Zenon, <1>1, <1>3, <3>1, ActionFacts DEF ExecutionSound
    <2>5. Len(left') + Running' = entered'["command"] /\ (entered'["command"] = 1 => ws'.tree # none)
      BY Zenon, <1>1, <1>3 DEF ExecutionSound
    <2>6. ExecutionSound'
      BY Zenon, <1>1, <2>1, <2>2, <2>3, <2>4, <2>5 DEF ExecutionSound
    <2> QED BY Zenon, <1>2, <2>6
  <1>7. CASE ResultAnswer(act, out) = "recorded" /\ out = "succeeded" /\ act = "finalize"
    <2>1. Succeeded(rows'["finalize"]) /\ rows'["finalize"].val = ws.ref /\ ws.ref # none
      BY Zenon, <1>2, <1>7 DEF Succeeded
    <2>2. rows'["command"] = rows["command"]
      BY <1>2, <1>7, ActionFacts
    <2>3. \A a \in {"command"} \cup Checks :
              entered'[a] <= 1 /\ (rows'[a] = none => entered'[a] = 0)
      <3>1. \A a \in Actions : rows'[a] = none => rows[a] = none
        BY Zenon, <1>2, <1>7 DEF Recorded
      <3> QED BY Zenon, <1>1, <1>3, <3>1, ActionFacts DEF ExecutionSound
    <2>4. /\ Len(left') + Running' = entered'["command"]
          /\ entered'["command"] = 1 => ws'.tree # none
          /\ ws'.verify # none => ws'.ref # none /\ ws'.verify = ws'.ref
      BY Zenon, <1>1, <1>3 DEF ExecutionSound
    <2>5. /\ Succeeded(rows'["command"]) =>
               Len(left') = 1 /\ rows'["command"].val = left'[1] /\ ws'.tree = left'[1]
          /\ ws'.ref # none => Succeeded(rows'["command"]) /\ ws'.ref = left'[1]
      BY Zenon, <1>1, <1>3, <2>2 DEF ExecutionSound
    <2>6. ExecutionSound'
      BY Zenon, <1>1, <2>1, <2>3, <2>4, <2>5 DEF ExecutionSound
    <2> QED BY Zenon, <1>2, <2>6
  <1> QED BY Zenon, <1>4, <1>5, <1>6, <1>7

\* record_governed_v5_command_action_result_v1: the outcome of the tree that
\* was left.
LEMMA RunResultKeeps ==
    ASSUME CInv, RunResult
    PROVE  CInv'
  <1>1. /\ RecordResult("command", host.out, host.tree) /\ projections' = projections
        /\ LedgerStep /\ ~At("r_run") /\ host.pc = "r_result"
    BY DEF RunResult, RecordCommandResult, At
  <1>2. /\ HostType /\ host.tree \in Tree /\ host.out \in Ended /\ rows["command"] # none
        /\ host.out = "succeeded" =>
             Len(left) = 1 /\ host.tree = left[1] /\ ws.tree = left[1]
    BY <1>1 DEF CInv, HostType, HostSound
  <1>3. \E pc \in PlainPcs : \E out : out # "succeeded" /\ (Goto(pc) \/ Answer(out))
    <2>1. \/ Goto("r_receipt")
          \/ Answer(host.out) /\ host.out # "succeeded"
          \/ Answer("lease_expired") \/ Answer("reconciliation")
      BY DEF RunResult
    <2>2. "r_receipt" \in PlainPcs /\ "lease_expired" # "succeeded" /\ "reconciliation" # "succeeded"
      BY DEF PlainPcs
    <2> QED BY Zenon, <2>1, <2>2
  <1>4. host'.pc # "r_run"
    <2>1. PICK pc \in PlainPcs : \E out : Goto(pc) \/ Answer(out)
      BY Zenon, <1>3
    <2>2. host'.pc = pc \/ host'.pc = "answer"
      BY Zenon, <1>2, <2>1, GotoStands, AnswerStands DEF Stands
    <2> QED BY <2>2 DEF PlainPcs
  <1>5. Grows /\ ExecutionSound'
    <2>1. "command" # "finalize" /\ "command" \in Actions
      BY ActionFacts
    <2>2. PICK out \in Ended, val \in Tree : out = host.out /\ val = host.tree
      BY Zenon, <1>2
    <2>3. RecordResult("command", out, val)
      BY Zenon, <1>1, <2>2
    <2>4. out = "succeeded" => Len(left) = 1 /\ val = left[1] /\ ws.tree = left[1]
      BY Zenon, <1>2, <2>2
    <2> QED BY Zenon, <1>1, <1>2, <1>4, <2>1, <2>3, <2>4, ResultSound
  <1> QED BY Zenon, <1>1, <1>3, <1>5, LedgerEnds

\* What the store checks of a succeeded activity is what its row says.
LEMMA InOrder ==
    ASSUME CInv, NEW act \in Actions, SucceededInLease(act)
    PROVE  /\ Succeeded(rows[act]) /\ The("result", act) \in 1 .. Len(tape)
           /\ tape[The("result", act)].val = rows[act].val
  <1>1. Exactly("result", act) /\ tape[The("result", act)].out = "succeeded"
    BY Zenon DEF SucceededInLease
  <1>2. The("result", act) \in 1 .. Len(tape) /\ Is(tape[The("result", act)], "result", act)
    BY Zenon, <1>1, Found DEF CInv
  <1>3. PICK i \in 1 .. Len(tape) : i = The("result", act)
    BY Zenon, <1>2
  <1>4. Rooted(tape, i, rows, ws, projections)
    BY Zenon DEF CInv, TapeSound
  <1>5. tape[i].kind = "result" /\ tape[i].act = act /\ tape[i].out = "succeeded"
    BY Zenon, <1>1, <1>2, <1>3 DEF Is
  <1>6. Recorded(rows[act]) /\ rows[act].out = "succeeded" /\ rows[act].val = tape[i].val
    BY Zenon, <1>4, <1>5 DEF Rooted
  <1> QED BY Zenon, <1>2, <1>3, <1>6 DEF Succeeded

\* The receipts and the candidate.
LEMMA SimpleCommit ==
    ASSUME CInv, NEW e \in Event, tape' = tape \o <<e>>,
           UNCHANGED <<ckpts, rows, projections, now>>, ws' = ws,
           e.kind \in {"receipt", "receipt_set", "candidate", "other"},
           Is(e, "receipt", "command") => Succeeded(rows["command"]),
           Is(e, "receipt", "finalize") \/ e.kind = "candidate" => ws.ref # none /\ e.val = ws.ref
    PROVE  Grows /\ RowsKept(rows, rows')
  <1>1. tape \in Seq(Event) /\ projections \in [completion : Tree, acceptance : Tree]
    BY Zenon DEF CInv, LedgerType
  <1>2. tape'[Len(tape) + 1] = e
    BY <1>1
  <1>3. Rooted(tape', Len(tape) + 1, rows, ws, projections')
    BY <1>2 DEF Rooted, Is
  <1>4. Fresh(tape, e)
    BY DEF Fresh
  <1> QED BY Zenon, <1>1, <1>3, <1>4, OneCommit

\* record of the command's receipt, only over a success.
LEMMA RunReceiptKeeps ==
    ASSUME CInv, RunReceipt
    PROVE  CInv'
  <1> DEFINE e == Signed("receipt", "command", "succeeded", none)
  <1>1. /\ LedgerStep /\ ~At("r_run") /\ UNCHANGED <<ckpts, rows, projections, now>>
        /\ Commit(CommandReceiptAnswer, "recorded", <<e>>)
        /\ Continue(CommandReceiptAnswer, {"recorded", "existing"}, "r_fin_issue")
    BY DEF RunReceipt, RecordCommandReceipt, At
  <1>2. ws' = ws /\ now' \in Nat
    BY Zenon, <1>1, Frames DEF CInv, LedgerType
  <1>3. Grows /\ RowsKept(rows, rows')
    <2>1. CASE CommandReceiptAnswer = "recorded"
      <3>1. Succeeded(rows["command"])
        BY <2>1, InOrder, ActionFacts DEF CommandReceiptAnswer, ReceiptEvidence, SucceededInOrder
      <3>2. /\ e \in Event /\ e.kind = "receipt" /\ e.act = "command"
        BY ActionFacts DEF Event, Signed, Tree, Ended
      <3>3. tape' = tape \o <<e>>
        BY <1>1, <2>1 DEF Commit
      <3> HIDE DEF e
      <3>4. ~Is(e, "receipt", "finalize") /\ e.kind # "candidate"
            /\ e.kind \in {"receipt", "receipt_set", "candidate", "other"}
        BY <3>2 DEF Is
      <3> QED BY Zenon, <1>1, <1>2, <3>1, <3>2, <3>3, <3>4, SimpleCommit
    <2>2. CASE CommandReceiptAnswer # "recorded"
      <3>1. tape' = tape
        BY <1>1, <2>2 DEF Commit
      <3> QED BY Zenon, <1>1, <1>2, <3>1, NoCommit
    <2> QED BY Zenon, <2>1, <2>2
  <1>4. "r_fin_issue" \in PlainPcs /\ "r_fin_issue" # "r_run"
    BY DEF PlainPcs
  <1> QED BY Zenon, <1>1, <1>3, <1>4, LedgerContinues

-----------------------------------------------------------------------------
(* The Git finalization *)

\* issue of the Git finalization, only over a success.
LEMMA FinalizeIssueKeeps ==
    ASSUME CInv, FinalizeIssue
    PROVE  CInv'
  <1>1. /\ LedgerStep /\ ~At("r_run") /\ projections' = projections
        /\ Issue("finalize", IssueFinalizeAnswer)
        /\ Continue(IssueFinalizeAnswer, {"issued", "existing"}, "r_fin_claim")
    BY DEF FinalizeIssue, IssueFinalize, At
  <1>2. ws' = ws /\ "finalize" \in Actions
    BY Zenon, <1>1, Frames, ActionFacts
  <1>3. PICK answer : answer = IssueFinalizeAnswer
    BY Zenon
  <1>4. answer = "issued" => ~Has("action", "finalize") /\ Has("receipt", "command")
    BY <1>3 DEF IssueFinalizeAnswer, FinalizeEvidence
  <1>5. Has("receipt", "command") => Succeeded(rows["command"])
    BY Zenon, Found DEF CInv, TapeSound, Rooted
  <1>6. Grows /\ RowsKept(rows, rows')
    BY Zenon, <1>1, <1>2, <1>3, <1>4, <1>5, IssueGrows
  <1>7. "r_fin_claim" \in PlainPcs /\ "r_fin_claim" # "r_run"
    BY DEF PlainPcs
  <1> QED BY Zenon, <1>1, <1>6, <1>7, LedgerContinues

\* The lease of the finalization is only held under a succeeded command.
LEMMA FinalizeHolds ==
    ASSUME CInv, rows["finalize"] # none
    PROVE  /\ Succeeded(rows["command"]) /\ Len(left) = 1 /\ ws.tree = left[1]
           /\ left[1] \in Nat /\ (ws.ref # none => ws.ref = left[1])
  <1>1. PICK i \in 1 .. Len(tape) : Is(tape[i], "claim", "finalize")
    BY Zenon, ActionFacts DEF CInv, TapeSound, Backed
  <1>2. tape[i].kind \in {"action", "claim"} /\ tape[i].act = "finalize"
    BY <1>1 DEF Is
  <1>3. Succeeded(rows["command"])
    BY Zenon, <1>2 DEF CInv, TapeSound, Rooted
  <1>4. Len(left) = 1 /\ ws.tree = left[1] /\ (ws.ref # none => ws.ref = left[1])
    BY Zenon, <1>3 DEF CInv, ExecutionSound
  <1>5. left \in Seq(Nat) /\ 1 \in 1 .. Len(left)
    BY <1>4 DEF CInv, HostType
  <1> QED BY Zenon, <1>3, <1>4, <1>5, SeqElement

\* finalize_candidate_workspace_v1: the candidate ref takes the executed tree or keeps it.
LEMMA FinalizeEffectKeeps ==
    ASSUME CInv, FinalizeEffect
    PROVE  CInv'
  <1>1. GitStep /\ At("r_fin_git") /\ ~At("r_run") /\ FinalizeGit
    BY DEF FinalizeEffect, At
  <1>2. UNCHANGED storeVars /\ UNCHANGED <<entered, left, answered, orphan>>
    BY Zenon, <1>1, Frames
  <1>3. rows["finalize"] # none
    BY <1>1 DEF CInv, HostSound, At
  <1>4. /\ Succeeded(rows["command"]) /\ Len(left) = 1 /\ ws.tree = left[1]
        /\ left[1] \in Nat /\ left[1] # none /\ (ws.ref # none => ws.ref = left[1])
    BY <1>3, FinalizeHolds, NoneAssumption
  <1>5. /\ HostType /\ none \in Tree /\ ws \in Workspace /\ left \in Seq(Nat)
        /\ entered \in [{"command"} \cup Checks -> Nat] /\ orphan \in BOOLEAN
        /\ left[1] \in Tree
    BY <1>4 DEF CInv, HostType, Tree
  <1>6. /\ now' \in Nat /\ tape' = tape /\ ckpts' = ckpts /\ rows' = rows
        /\ projections' = projections
    BY Zenon, <1>2 DEF CInv, LedgerType, storeVars, tapeVars
  <1>7. CASE ~Finalizes
    <2>1. ws' = ws /\ host' = [host EXCEPT !.pc = "r_fin_result", !.out = "unknown", !.tree = none]
      BY <1>1, <1>7 DEF FinalizeEffect, FinalizeGit
    <2>2. Stands([host EXCEPT !.pc = "r_fin_result", !.out = "unknown", !.tree = none],
                 "r_fin_result", host.check, "unknown", none)
      BY Zenon, <1>5, HostMoves
    <2>3. Stands(host', "r_fin_result", host.check, "unknown", none)
      BY Zenon, <2>1, <2>2
    <2>4. /\ host'.pc = "r_fin_result" /\ host'.out = "unknown" /\ host'.out # "succeeded"
          /\ host'.out \in Ended /\ "r_fin_result" # "r_run"
      BY <2>3 DEF Stands, Ended
    <2>5. HostSound'
      BY Zenon, <1>3, <1>6, <2>4, HostAt
    <2>6. WorkspaceKept
      BY Zenon, <2>1, SameWorkspace
    <2>7. Grows /\ RowsKept(rows, rows')
      BY Zenon, <1>2, <2>6, ReadGrows
    <2> QED BY Zenon, <1>1, <1>2, <1>5, <2>3, <2>4, <2>5, <2>6, <2>7, StepKeeps
  <1>8. CASE Finalizes
    <2>1. FinalizedTree = left[1]
      BY <1>4 DEF FinalizedTree
    <2>2. /\ ws' = [ws EXCEPT !.ref = left[1]]
          /\ host' = [host EXCEPT !.pc = "r_fin_recheck", !.tree = left[1]]
      BY <1>1, <1>8, <2>1 DEF FinalizeEffect, FinalizeGit
    <2>3. Stands([host EXCEPT !.pc = "r_fin_recheck", !.tree = left[1]],
                 "r_fin_recheck", host.check, host.out, left[1])
      BY Zenon, <1>5, HostMoves
    <2>4. Stands(host', "r_fin_recheck", host.check, host.out, left[1])
      BY Zenon, <2>2, <2>3
    <2>5. /\ ws' \in Workspace /\ ws'.ref = left[1] /\ ws'.tree = ws.tree /\ ws'.verify = ws.verify
      BY Zenon, <1>5, <2>2 DEF Workspace
    <2>6. Grows
      BY Zenon, <1>4, <1>6, <2>5, NoCommit
    <2>7. host'.pc = "r_fin_recheck" /\ host'.tree = left[1]
      BY Zenon, <2>4 DEF Stands
    <2>8. HostSound'
      BY Zenon, <1>3, <1>4, <1>6, <2>5, <2>7, HostAt
    <2>9. ExecutionSound'
      <3>1. Running' = Running
        BY <1>1, <1>2, <2>7 DEF Running, At
      <3>2. /\ \A a \in {"command"} \cup Checks :
                  entered'[a] <= 1 /\ (rows'[a] = none => entered'[a] = 0)
            /\ Len(left') + Running' = entered'["command"]
            /\ entered'["command"] = 1 => ws'.tree # none
        BY Zenon, <1>2, <1>6, <2>5, <3>1 DEF CInv, ExecutionSound
      <3>3. Succeeded(rows'["command"]) =>
               Len(left') = 1 /\ rows'["command"].val = left'[1] /\ ws'.tree = left'[1]
        BY Zenon, <1>2, <1>6, <2>5 DEF CInv, ExecutionSound
      <3>4. ws'.ref # none => Succeeded(rows'["command"]) /\ ws'.ref = left'[1]
        BY Zenon, <1>2, <1>4, <1>6, <2>5
      <3>5. /\ ws'.verify # none => ws'.ref # none /\ ws'.verify = ws'.ref
            /\ Succeeded(rows'["finalize"]) => ws'.ref # none /\ rows'["finalize"].val = ws'.ref
        BY Zenon, <1>4, <1>6, <2>5 DEF CInv, ExecutionSound
      <3> QED BY Zenon, <3>2, <3>3, <3>4, <3>5 DEF ExecutionSound
    <2> QED
      <3>1. /\ entered' \in [{"command"} \cup Checks -> Nat] /\ left' \in Seq(Nat)
            /\ orphan' \in BOOLEAN /\ answered' = answered
        BY Zenon, <1>2, <1>5
      <3>2. PICK tree \in Tree : tree = left[1]
        BY Zenon, <1>5
      <3>3. Stands(host', "r_fin_recheck", host.check, host.out, tree)
        BY Zenon, <2>4, <3>2
      <3> QED BY Zenon, <2>5, <2>6, <2>8, <2>9, <3>1, <3>3, Assembled
  <1> QED BY Zenon, <1>7, <1>8

\* The base is read again after the ref was written.
LEMMA FinalizeRecheckKeeps ==
    ASSUME CInv, FinalizeRecheck
    PROVE  CInv'
  <1>1. ReadStep /\ At("r_fin_recheck") /\ ~At("r_run")
    BY DEF FinalizeRecheck, At
  <1>2. UNCHANGED storeVars /\ ws' = ws /\ UNCHANGED <<entered, left, answered, orphan>>
    BY Zenon, <1>1, Frames
  <1>3. rows["finalize"] # none /\ ws.ref # none /\ host.tree = ws.ref
    BY <1>1 DEF CInv, HostSound, At
  <1>4. HostType /\ none \in Tree /\ host.tree \in Tree /\ rows' = rows
    BY Zenon, <1>2 DEF CInv, HostType, Tree, storeVars, tapeVars
  <1>5. \/ Stands(host', "r_fin_result", host.check, "succeeded", host.tree)
        \/ Stands(host', "r_fin_result", host.check, "unknown", none)
    <2>1. /\ Stands([host EXCEPT !.pc = "r_fin_result", !.out = "succeeded"],
                    "r_fin_result", host.check, "succeeded", host.tree)
          /\ Stands([host EXCEPT !.pc = "r_fin_result", !.out = "unknown", !.tree = none],
                    "r_fin_result", host.check, "unknown", none)
      BY Zenon, <1>4, HostMoves
    <2> QED BY Zenon, <2>1 DEF FinalizeRecheck
  <1>6. /\ host'.pc = "r_fin_result" /\ host'.out \in Ended
        /\ host'.out = "succeeded" => host'.tree = host.tree
    BY <1>5 DEF Stands, Ended
  <1>7. HostSound'
    BY Zenon, <1>2, <1>3, <1>4, <1>6, HostAt
  <1>8. WorkspaceKept /\ "r_fin_result" # "r_run"
    BY <1>2, SameWorkspace
  <1>9. Grows /\ RowsKept(rows, rows')
    BY Zenon, <1>2, <1>8, ReadGrows
  <1> QED BY Zenon, <1>1, <1>2, <1>4, <1>5, <1>7, <1>8, <1>9, StepKeeps

\* record of the finalization's result, with the tree of the ref.
LEMMA FinalizeResultKeeps ==
    ASSUME CInv, FinalizeResult
    PROVE  CInv'
  <1>1. /\ RecordResult("finalize", host.out, host.tree) /\ projections' = projections
        /\ LedgerStep /\ ~At("r_run") /\ host.pc = "r_fin_result"
    BY DEF FinalizeResult, RecordFinalizeResult, At
  <1>2. /\ HostType /\ host.tree \in Tree /\ host.out \in Ended /\ rows["finalize"] # none
        /\ host.out = "succeeded" => ws.ref # none /\ host.tree = ws.ref
    BY <1>1 DEF CInv, HostType, HostSound
  <1>3. /\ Goto("r_set") \/ Answer("error")
        /\ "r_set" \in PlainPcs /\ "error" # "succeeded" /\ "r_set" # "r_run" /\ "answer" # "r_run"
    BY DEF FinalizeResult, Continue, Fail, PlainPcs
  <1>4. host'.pc # "r_run"
    BY Zenon, <1>2, <1>3, GotoStands, AnswerStands DEF Stands
  <1>5. Grows /\ ExecutionSound'
    <2>1. "command" # "finalize" /\ "finalize" \in Actions
      BY ActionFacts
    <2>2. PICK out \in Ended, val \in Tree : out = host.out /\ val = host.tree
      BY Zenon, <1>2
    <2>3. RecordResult("finalize", out, val)
      BY Zenon, <1>1, <2>2
    <2>4. out = "succeeded" => ws.ref # none /\ val = ws.ref
      BY Zenon, <1>2, <2>2
    <2> QED BY Zenon, <1>1, <1>2, <1>4, <2>1, <2>3, <2>4, ResultSound
  <1> QED BY Zenon, <1>1, <1>3, <1>5, LedgerEnds

-----------------------------------------------------------------------------
(* The receipt set, the candidate and the completion *)

\* The artifact of a succeeded finalization is the tree of the ref.
LEMMA ArtifactIsRef ==
    ASSUME CInv, SucceededInLease("finalize")
    PROVE  tape[The("result", "finalize")].val = ws.ref /\ ws.ref # none
  BY Zenon, InOrder, ActionFacts DEF CInv, ExecutionSound

\* The finalization's receipt and the receipt set name the tree of the ref.
LEMMA ReceiptSetKeeps ==
    ASSUME CInv, ReceiptSet
    PROVE  CInv'
  <1> DEFINE tree == tape[The("result", "finalize")].val
             e == Signed("receipt", "finalize", "succeeded", tree)
             f == Signed("receipt_set", none, none, tree)
  <1>1. /\ LedgerStep /\ ~At("r_run") /\ UNCHANGED <<ckpts, rows, projections, now>>
        /\ Commit(ReceiptSetAnswer, "recorded", <<e, f>>)
        /\ Continue(ReceiptSetAnswer, {"recorded", "existing"}, "r_candidate")
    BY DEF ReceiptSet, SealReceiptSet, At
  <1>2. ws' = ws /\ now' \in Nat /\ ws.ref \in Tree
    BY <1>1, Frames DEF CInv, LedgerType, HostType, Workspace
  <1>3. ASSUME ReceiptSetAnswer # "recorded"
        PROVE  Grows /\ RowsKept(rows, rows')
    <2>1. tape' = tape
      BY <1>1, <1>3 DEF Commit
    <2> QED BY Zenon, <1>1, <1>2, <2>1, NoCommit
  <1>4. ASSUME ReceiptSetAnswer = "recorded"
        PROVE  Grows /\ RowsKept(rows, rows')
    <2>1. tree = ws.ref /\ ws.ref # none
      BY <1>4, ArtifactIsRef DEF ReceiptSetAnswer, GitClosed, SucceededInOrder
    <2> HIDE DEF tree
    <2>2. /\ e \in Event /\ e.kind = "receipt" /\ e.act = "finalize" /\ e.val = tree
          /\ f \in Event /\ f.kind = "receipt_set"
      BY <1>2, <2>1, ActionFacts DEF Event, Signed, Tree, Ended
    <2>3. tape' = tape \o <<e, f>>
      BY <1>1, <1>4 DEF Commit
    <2> HIDE DEF e, f
    <2> DEFINE t == Append(tape, e)
    <2>4. tape \in Seq(Event) /\ Len(tape) \in Nat
      BY DEF CInv, LedgerType
    <2>5. /\ t \in Seq(Event) /\ tape' = Append(t, f) /\ tape' \in Seq(Event)
          /\ Len(tape') = Len(tape) + 2
          /\ tape'[Len(tape) + 1] = e /\ tape'[Len(tape) + 2] = f
          /\ Prefix(tape, tape')
      BY <2>2, <2>3, <2>4 DEF Prefix
    <2>6. Fresh(tape, e) /\ Fresh(t, f)
      BY <2>2 DEF Fresh
    <2>7. Single(tape')
      <3>1. Single(t)
        BY Zenon, <2>2, <2>4, <2>6, SingleKept DEF CInv, TapeSound
      <3> HIDE DEF t
      <3> QED BY Zenon, <2>2, <2>5, <2>6, <3>1, SingleKept
    <2>8. Backed(tape', rows', projections')
      <3>0. \A g, n : Answers(g, n, rows, projections, rows, projections)
        BY Zenon DEF Answers
      <3>1. Backed(t, rows, projections)
        BY Zenon, <2>2, <2>4, <3>0, BackedKept DEF CInv, TapeSound
      <3> HIDE DEF t
      <3>2. Backed(tape', rows, projections)
        BY Zenon, <2>2, <2>5, <3>0, <3>1, BackedKept
      <3> QED BY Zenon, <1>1, <3>2
    <2>9. /\ Rooted(tape', Len(tape) + 1, rows', ws', projections')
          /\ Rooted(tape', Len(tape) + 2, rows', ws', projections')
      <3>1. Rooted(tape', Len(tape) + 1, rows', ws', projections')
        BY <1>2, <2>1, <2>2, <2>5 DEF Rooted, Is
      <3>2. Rooted(tape', Len(tape) + 2, rows', ws', projections')
        BY <2>2, <2>5 DEF Rooted, Is
      <3> QED BY Zenon, <3>1, <3>2
    <2>10. \A i \in (Len(tape) + 1) .. Len(tape') : i = Len(tape) + 1 \/ i = Len(tape) + 2
      BY <2>4, <2>5
    <2>11. LedgerType'
      BY Zenon, <1>1, <2>5 DEF CInv, LedgerType
    <2>12. /\ Later(rows, ws, projections, rows', ws', projections') /\ RowsKept(rows, rows')
      BY Zenon, <1>1, <1>2 DEF Later, RowsKept
    <2>13. TapeSound'
      BY Zenon, <2>5, <2>7, <2>8, <2>9, <2>10, <2>11, <2>12, TapeGrows DEF CInv
    <2>14. ckpts' \in {ckpts, Sealed(tape, ckpts)}
      BY Zenon, <1>1
    <2> QED BY Zenon, <2>5, <2>11, <2>12, <2>13, <2>14 DEF Grows
  <1>5. "r_candidate" \in PlainPcs /\ "r_candidate" # "r_run"
    BY DEF PlainPcs
  <1>6. Grows /\ RowsKept(rows, rows')
    BY Zenon, <1>3, <1>4
  <1> QED BY Zenon, <1>1, <1>5, <1>6, LedgerContinues

\* CandidateCreated names the tree of the ref.
LEMMA CandidateCreatedKeeps ==
    ASSUME CInv, CandidateCreated
    PROVE  CInv'
  <1> DEFINE tree == tape[The("result", "finalize")].val
             e == Signed("candidate", none, none, tree)
  <1>1. /\ LedgerStep /\ ~At("r_run") /\ UNCHANGED <<ckpts, rows, projections, now>>
        /\ Commit(CandidateAnswer, "recorded", <<e>>)
        /\ Continue(CandidateAnswer, {"recorded", "existing"}, "r_complete")
    BY DEF CandidateCreated, RecordCandidate, At
  <1>2. ws' = ws /\ now' \in Nat /\ ws.ref \in Tree
    BY <1>1, Frames DEF CInv, LedgerType, HostType, Workspace
  <1>3. Grows /\ RowsKept(rows, rows')
    <2>1. CASE CandidateAnswer = "recorded"
      <3>1. tree = ws.ref /\ ws.ref # none
        BY <2>1, ArtifactIsRef
           DEF CandidateAnswer, CandidateEvidence, MemberLineage, SucceededInOrder
      <3> HIDE DEF tree
      <3>2. e \in Event /\ e.kind = "candidate" /\ e.val = ws.ref
        BY <1>2, <3>1 DEF Event, Signed, Tree
      <3>3. tape' = tape \o <<e>>
        BY <1>1, <2>1 DEF Commit
      <3> HIDE DEF e
      <3>4. ~Is(e, "receipt", "command")
            /\ e.kind \in {"receipt", "receipt_set", "candidate", "other"}
        BY <3>2 DEF Is
      <3> QED BY Zenon, <1>1, <1>2, <3>1, <3>2, <3>3, <3>4, SimpleCommit
    <2>2. CASE CandidateAnswer # "recorded"
      <3>1. tape' = tape
        BY <1>1, <2>2 DEF Commit
      <3> QED BY Zenon, <1>1, <1>2, <3>1, NoCommit
    <2> QED BY Zenon, <2>1, <2>2
  <1>4. "r_complete" \in PlainPcs /\ "r_complete" # "r_run"
    BY DEF PlainPcs
  <1> QED BY Zenon, <1>1, <1>3, <1>4, LedgerContinues

\* A candidate on the tape names the tree of the ref.
LEMMA CandidateIsRef ==
    ASSUME CInv, CompletionEvidence
    PROVE  tape[The("candidate", none)].val = ws.ref /\ ws.ref # none
  <1>1. Exactly("candidate", none)
    BY Zenon DEF CompletionEvidence, CandidateClosesSet
  <1>2. The("candidate", none) \in 1 .. Len(tape) /\ Is(tape[The("candidate", none)], "candidate", none)
    BY Zenon, <1>1, Found DEF CInv
  <1>3. PICK i \in 1 .. Len(tape) : i = The("candidate", none)
    BY Zenon, <1>2
  <1>4. tape[i].kind = "candidate" /\ tape[i].kind \in {"candidate", "completion", "acceptance"}
    BY <1>2, <1>3 DEF Is
  <1>5. tape[i].val = ws.ref /\ ws.ref # none
    BY Zenon, <1>4 DEF CInv, TapeSound, Rooted
  <1> QED BY Zenon, <1>3, <1>5

\* The completion is recorded once, with its projection.
LEMMA CompletionKeeps ==
    ASSUME CInv, Completion
    PROVE  CInv'
  <1> DEFINE tree == tape[The("candidate", none)].val
             e == Signed("completion", none, none, tree)
  <1>1. /\ LedgerStep /\ ~At("r_run") /\ UNCHANGED <<ckpts, rows, now>>
        /\ Commit(CompletionAnswer, "recorded", <<e>>)
        /\ projections' = IF CompletionAnswer = "recorded" THEN ProjectCompletion ELSE projections
        /\ Continue(CompletionAnswer, {"recorded", "existing"}, "r_complete_seal")
    BY DEF Completion, RecordCompletion, At
  <1>2. ws' = ws /\ now' \in Nat /\ ws.ref \in Tree /\ Len(tape) \in Nat
        /\ tape \in Seq(Event) /\ projections \in [completion : Tree, acceptance : Tree]
    BY <1>1, Frames DEF CInv, LedgerType, HostType, Workspace
  <1>3. Grows /\ RowsKept(rows, rows')
    <2>1. CASE CompletionAnswer = "recorded"
      <3>1. tree = ws.ref /\ ws.ref # none /\ projections.completion = none
        BY <2>1, CandidateIsRef DEF CompletionAnswer
      <3> HIDE DEF tree
      <3>2. e \in Event /\ e.kind = "completion" /\ e.act = none /\ e.val = ws.ref
        BY <1>2, <3>1 DEF Event, Signed, Tree
      <3>3. tape' = tape \o <<e>>
        BY <1>1, <2>1 DEF Commit
      <3> HIDE DEF e
      <3>4. /\ projections' \in [completion : Tree, acceptance : Tree]
            /\ projections'.completion = Len(tape) + 1
            /\ projections'.acceptance = projections.acceptance
        BY <1>1, <1>2, <2>1 DEF ProjectCompletion, Tree
      <3>5. tape'[Len(tape) + 1] = e
        BY <1>2, <3>2, <3>3
      <3>6. Rooted(tape', Len(tape) + 1, rows, ws, projections')
        BY <3>1, <3>2, <3>4, <3>5 DEF Rooted, Is
      <3>7. Fresh(tape, e) /\ Is(e, "completion", none)
        BY <3>2 DEF Fresh, Is
      <3> QED BY Zenon, <1>1, <1>2, <3>1, <3>2, <3>3, <3>4, <3>6, <3>7, OneCommit
    <2>2. CASE CompletionAnswer # "recorded"
      <3>1. tape' = tape /\ projections' = projections
        BY <1>1, <2>2 DEF Commit
      <3> QED BY Zenon, <1>1, <1>2, <3>1, NoCommit
    <2> QED BY Zenon, <2>1, <2>2
  <1>4. "r_complete_seal" \in PlainPcs /\ "r_complete_seal" # "r_run"
    BY DEF PlainPcs
  <1> QED BY Zenon, <1>1, <1>3, <1>4, LedgerContinues

\* Sealing the prefix.
LEMMA SealGrows ==
    ASSUME CInv, SealPrefix, ws' = ws
    PROVE  Grows /\ RowsKept(rows, rows') /\ Covered(ckpts') = Len(tape)
  <1>1. /\ tape' = tape /\ rows' = rows /\ projections' = projections /\ now' = now
        /\ ckpts' = Sealed(tape, ckpts)
    BY Zenon DEF SealPrefix
  <1>2. ckpts' \in Seq(Nat) /\ Covered(ckpts') = Len(tape)
    BY Zenon, <1>1, SealedAdvances DEF CInv, SealSound
  <1>3. LedgerType'
    BY Zenon, <1>1, <1>2 DEF CInv, LedgerType
  <1>4. /\ TapeSound' /\ Prefix(tape, tape')
        /\ Later(rows, ws, projections, rows', ws', projections')
    BY Zenon, <1>1, <1>3, NoneSigned DEF CInv
  <1>5. RowsKept(rows, rows') /\ ckpts' \in {ckpts, Sealed(tape, ckpts)}
    BY Zenon, <1>1 DEF RowsKept
  <1> QED BY Zenon, <1>2, <1>3, <1>4, <1>5 DEF Grows

\* Not sealing it.
LEMMA UnsealedGrows ==
    ASSUME CInv, UNCHANGED storeVars, ws' = ws
    PROVE  Grows /\ RowsKept(rows, rows')
  BY Zenon, ReadGrows, SameWorkspace

\* The completion's checkpoint.
LEMMA CompletionSealKeeps ==
    ASSUME CInv, CompletionSeal
    PROVE  CInv'
  <1>1. /\ LedgerStep /\ ~At("r_run")
        /\ Continue(CompletionSealAnswer, {"sealed"}, "r_verify")
        /\ IF CompletionSealAnswer = "sealed" THEN SealPrefix ELSE UNCHANGED storeVars
    BY DEF CompletionSeal, SealCompletion, At
  <1>2. ws' = ws
    BY Zenon, <1>1, Frames
  <1>3. Grows /\ RowsKept(rows, rows')
    BY Zenon, <1>1, <1>2, SealGrows, UnsealedGrows
  <1>4. ASSUME CompletionSealAnswer \in {"sealed"}, Goto("r_verify")
        PROVE  HostSound'
    <2>1. CompletionEvidence
      BY <1>4 DEF CompletionSealAnswer
    <2>2. host'.pc = "r_verify"
      BY Zenon, <1>4, GotoStands DEF CInv, Stands
    <2> QED BY Zenon, <1>2, <2>1, <2>2, CandidateIsRef, HostAt
  <1>5. "r_verify" # "r_run"
    OBVIOUS
  <1> QED BY Zenon, <1>1, <1>3, <1>4, <1>5, LedgerContinues

-----------------------------------------------------------------------------
(* The checks *)

\* The next check of the contract, or the acceptance after the last.
LEMMA NextCheckStands ==
    ASSUME HostType, NEW i \in 0 .. Len(Contract), host' = NextCheck(i), ws'.verify # none
    PROVE  HostSound' /\ \E pc, check : /\ Stands(host', pc, check, host.out, host.tree)
                                        /\ pc # "r_run"
  <1>1. Len(Contract) \in Nat
    BY ActionFacts
  <1>2. CASE i < Len(Contract)
    <2>1. i + 1 \in 1 .. Len(Contract) /\ "c_issue" # "r_run"
      BY <1>1, <1>2
    <2>2. host' = [host EXCEPT !.pc = "c_issue", !.check = i + 1]
      BY <1>2 DEF NextCheck
    <2>3. PICK n : n = i + 1
      BY Zenon
    <2>4. Stands([host EXCEPT !.pc = "c_issue", !.check = n], "c_issue", n, host.out, host.tree)
      BY Zenon, HostMoves
    <2>5. Stands(host', "c_issue", n, host.out, host.tree)
      BY Zenon, <2>2, <2>3, <2>4
    <2>6. host'.pc \in {"c_issue", "c_claim"} /\ host'.check \in 1 .. Len(Contract)
      BY <2>1, <2>3, <2>5 DEF Stands
    <2>7. HostSound'
      BY Zenon, <2>6, HostAtCheck
    <2> QED BY Zenon, <2>1, <2>5, <2>7
  <1>3. CASE ~(i < Len(Contract))
    <2>1. host' = [host EXCEPT !.pc = "r_accept"] /\ "r_accept" # "r_run"
      BY <1>3 DEF NextCheck
    <2>2. Stands([host EXCEPT !.pc = "r_accept"], "r_accept", host.check, host.out, host.tree)
      BY Zenon, HostMoves
    <2>3. Stands(host', "r_accept", host.check, host.out, host.tree)
      BY Zenon, <2>1, <2>2
    <2>4. HostSound'
      BY Zenon, <2>3, HostAt DEF Stands
    <2> QED BY Zenon, <2>1, <2>3, <2>4
  <1> QED BY Zenon, <1>2, <1>3

\* Going on to the next check of the contract, or to the acceptance.
LEMMA NextCheckKeeps ==
    ASSUME CInv, Grows, RowsKept(rows, rows'), LedgerStep, ~At("r_run"), ws.verify # none,
           NEW i \in 0 .. Len(Contract), host' = NextCheck(i)
    PROVE  CInv'
  <1>1. ws' = ws /\ UNCHANGED <<entered, left, answered, orphan>> /\ WorkspaceKept
        /\ HostType /\ host.tree \in Tree
    BY Zenon, Frames, SameWorkspace DEF CInv, HostType
  <1>2. HostSound' /\ \E pc, check : /\ Stands(host', pc, check, host.out, host.tree)
                                     /\ pc # "r_run"
    BY Zenon, <1>1, NextCheckStands
  <1> QED BY Zenon, <1>1, <1>2, StepKeeps

\* The verification worktree is opened at the candidate ref.
LEMMA VerificationKeeps ==
    ASSUME CInv, Verification
    PROVE  CInv'
  <1>1. GitStep /\ At("r_verify") /\ ~At("r_run") /\ OpenVerification
    BY DEF Verification, At
  <1>2. UNCHANGED storeVars /\ UNCHANGED <<entered, left, answered, orphan>>
    BY Zenon, <1>1, Frames
  <1>3. ws.ref # none
    BY <1>1 DEF CInv, HostSound, At
  <1>4. CASE ~OpensVerification
    <2>1. ws' = ws /\ Fail /\ "idle" \in PlainPcs
      BY <1>1, <1>4 DEF Verification, OpenVerification, PlainPcs
    <2>2. WorkspaceKept
      BY Zenon, <2>1, SameWorkspace
    <2> QED BY Zenon, <1>1, <2>1, <2>2, GitKeeps
  <1>5. CASE OpensVerification
    <2>1. /\ HostType /\ ws \in Workspace /\ left \in Seq(Nat) /\ host.tree \in Tree
          /\ entered \in [{"command"} \cup Checks -> Nat] /\ orphan \in BOOLEAN
      BY Zenon DEF CInv, HostType
    <2>2. ws' = [ws EXCEPT !.ref = ws.ref, !.verify = ws.ref] /\ host' = NextCheck(0)
      BY <1>1, <1>3, <1>5 DEF Verification, OpenVerification, FinalizedTree
    <2>3. ws.verify # none => ws.verify = ws.ref
      BY Zenon DEF CInv, ExecutionSound
    <2>4. /\ ws' \in Workspace /\ ws'.ref = ws.ref /\ ws'.tree = ws.tree /\ ws'.verify = ws.ref
      <3>1. [ws EXCEPT !.ref = ws.ref, !.verify = ws.ref]
               = [[ws EXCEPT !.ref = ws.ref] EXCEPT !.verify = ws.ref]
        BY Zenon
      <3>2. [ws EXCEPT !.ref = ws.ref] = ws
        BY <2>1 DEF Workspace
      <3>3. ws' = [ws EXCEPT !.verify = ws.ref]
        BY Zenon, <2>2, <3>1, <3>2
      <3> QED BY SMTT(20), <2>1, <3>3 DEF Workspace
    <2>5. /\ now' \in Nat /\ tape' = tape /\ ckpts' = ckpts /\ rows' = rows
          /\ projections' = projections
      BY Zenon, <1>2 DEF CInv, LedgerType, storeVars, tapeVars
    <2>6. Grows
      BY Zenon, <2>3, <2>4, <2>5, NoCommit
    <2>7. 0 \in 0 .. Len(Contract)
      BY ActionFacts
    <2>8. HostSound' /\ \E pc, check : /\ Stands(host', pc, check, host.out, host.tree)
                                       /\ pc # "r_run"
      BY Zenon, <1>3, <2>1, <2>2, <2>4, <2>7, NextCheckStands
    <2>9. ExecutionSound'
      <3>1. Running' = Running
        BY Zenon, <1>1, <1>2, <2>8 DEF Running, At, Stands
      <3>2. /\ \A a \in {"command"} \cup Checks :
                  entered'[a] <= 1 /\ (rows'[a] = none => entered'[a] = 0)
            /\ Len(left') + Running' = entered'["command"]
            /\ entered'["command"] = 1 => ws'.tree # none
        BY Zenon, <1>2, <2>4, <2>5, <3>1 DEF CInv, ExecutionSound
      <3>3. /\ Succeeded(rows'["command"]) =>
                 Len(left') = 1 /\ rows'["command"].val = left'[1] /\ ws'.tree = left'[1]
            /\ ws'.ref # none => Succeeded(rows'["command"]) /\ ws'.ref = left'[1]
            /\ Succeeded(rows'["finalize"]) => ws'.ref # none /\ rows'["finalize"].val = ws'.ref
        BY Zenon, <1>2, <2>4, <2>5 DEF CInv, ExecutionSound
      <3> QED BY Zenon, <1>3, <2>4, <3>2, <3>3 DEF ExecutionSound
    <2>10. /\ entered' \in [{"command"} \cup Checks -> Nat] /\ left' \in Seq(Nat)
           /\ orphan' \in BOOLEAN /\ answered' = answered
      BY Zenon, <1>2, <2>1
    <2> QED BY Zenon, <2>1, <2>4, <2>6, <2>8, <2>9, <2>10, Assembled
  <1> QED BY Zenon, <1>4, <1>5

\* The check in hand.
LEMMA CheckInHand ==
    ASSUME CInv, host.pc \in {"c_issue", "c_claim", "c_enter", "c_run", "c_result"}
    PROVE  /\ host.check \in 1 .. Len(Contract) /\ Check \in Checks /\ Check \in Actions
           /\ Check # "command" /\ Check # "finalize" /\ ws.verify # none
           /\ Check \in {"command"} \cup Checks
           /\ host.check \in 0 .. Len(Contract) /\ ~At("r_run")
  <1>1. host.check \in 1 .. Len(Contract) /\ ws.verify # none
    BY DEF CInv, HostSound
  <1>2. Check \in Checks
    BY Zenon, <1>1, ActionFacts DEF Check
  <1>3. host.check \in 0 .. Len(Contract)
    BY <1>1, ActionFacts
  <1>4. ~At("r_run")
    BY DEF At
  <1> QED BY Zenon, <1>1, <1>2, <1>3, <1>4, ActionFacts

\* issue of a check, over a sealed completion.
LEMMA CheckIssueKeeps ==
    ASSUME CInv, CheckIssue
    PROVE  CInv'
  <1>0. host.pc = "c_issue" /\ host.pc \in {"c_issue", "c_claim", "c_enter", "c_run", "c_result"}
    BY DEF CheckIssue, At
  <1>1. /\ LedgerStep /\ projections' = projections
        /\ Issue(Check, IssueCheckAnswer(Check))
        /\ Continue(IssueCheckAnswer(Check), {"issued", "existing"}, "c_claim")
    BY Zenon DEF CheckIssue, IssueCheck
  <1>2a. PICK act \in Actions : act = Check
    BY Zenon, <1>0, CheckInHand
  <1>2. PICK answer : act = Check /\ answer = IssueCheckAnswer(Check)
    BY Zenon, <1>2a
  <1>3. answer = "issued" => ~Has("action", act)
    BY <1>2 DEF IssueCheckAnswer, IssueAnswer
  <1>4. ws' = ws /\ act # "finalize" /\ ~At("r_run")
    BY Zenon, <1>0, <1>1, <1>2, CheckInHand, Frames
  <1>5. Grows /\ RowsKept(rows, rows')
    BY Zenon, <1>1, <1>2, <1>3, <1>4, IssueGrows
  <1>6. ASSUME Goto("c_claim")
        PROVE  HostSound'
    <2>1. host'.pc = "c_claim" /\ host'.check = host.check
      BY Zenon, <1>6, GotoStands DEF CInv, Stands
    <2>2. host'.pc \in {"c_issue", "c_claim"}
      BY <2>1
    <2> QED BY Zenon, <1>0, <1>4, <2>1, <2>2, CheckInHand, HostAtCheck
  <1>7. "c_claim" # "r_run"
    OBVIOUS
  <1> QED BY Zenon, <1>1, <1>4, <1>5, <1>6, <1>7, LedgerContinues

\* claim of a check: granted once, a recorded one is skipped.
LEMMA CheckClaimKeeps ==
    ASSUME CInv, CheckClaim
    PROVE  CInv'
  <1>0. host.pc = "c_claim" /\ host.pc \in {"c_issue", "c_claim", "c_enter", "c_run", "c_result"}
    BY DEF CheckClaim, At
  <1>1. /\ LedgerStep /\ projections' = projections
        /\ Claim(Check, ClaimCheckAnswer(Check))
    BY Zenon DEF CheckClaim, ClaimCheck
  <1>2a. PICK act \in Actions : act = Check
    BY Zenon, <1>0, CheckInHand
  <1>2. PICK answer : act = Check /\ answer = ClaimCheckAnswer(Check)
    BY Zenon, <1>2a
  <1>3. answer = "granted" => rows[act] = none
    BY <1>2, ClaimDecided DEF ClaimCheckAnswer
  <1>4. ws' = ws /\ entered' = entered /\ act # "finalize" /\ act # "command" /\ ~At("r_run")
    BY Zenon, <1>0, <1>1, <1>2, CheckInHand, Frames
  <1>5. \/ answer = "granted" /\ Goto("c_enter")
        \/ host' = NextCheck(host.check)
        \/ Fail
    BY <1>2, <1>4 DEF CheckClaim, AfterClaim
  <1>6. Grows /\ RowsKept(rows, rows') /\ (answer = "granted" => rows'[act] # none)
    BY Zenon, <1>1, <1>2, <1>3, <1>4, ClaimGrows
  <1>7. CASE answer = "granted" /\ Goto("c_enter")
    <2>1. host'.pc = "c_enter" /\ host'.check = host.check
      BY Zenon, <1>7, GotoStands DEF CInv, Stands
    <2>2. Check' = act
      BY Zenon, <1>2, <2>1 DEF Check
    <2>3. entered[act] = 0
      BY Zenon, <1>0, <1>2, <1>3, <1>7, CheckInHand DEF CInv, ExecutionSound
    <2>4. HostSound'
      BY Zenon, <1>0, <1>4, <1>6, <1>7, <2>1, <2>2, <2>3, CheckInHand, HostAtCheck
    <2>5. "c_enter" # "r_run"
      OBVIOUS
    <2> QED BY Zenon, <1>1, <1>4, <1>6, <1>7, <2>4, <2>5, LedgerMoves
  <1>8. CASE host' = NextCheck(host.check)
    BY Zenon, <1>0, <1>1, <1>4, <1>6, <1>8, CheckInHand, NextCheckKeeps
  <1>9. CASE Fail
    BY Zenon, <1>1, <1>4, <1>6, <1>9, LedgerFails
  <1> QED BY Zenon, <1>5, <1>7, <1>8, <1>9

\* A check's container is started under a live lease, or not at all.
LEMMA CheckEnterKeeps ==
    ASSUME CInv, CheckEnter
    PROVE  CInv'
  <1>0. host.pc = "c_enter" /\ host.pc \in {"c_issue", "c_claim", "c_enter", "c_run", "c_result"}
    BY DEF CheckEnter, At
  <1>1. UNCHANGED <<storeVars, ws, orphan, left>> /\ answered' = answered
    BY Zenon DEF CheckEnter, Enter, workspaceVars
  <1>2. PICK act \in {"command"} \cup Checks : act = Check
    BY Zenon, <1>0, CheckInHand
  <1>3. rows[act] # none /\ entered[act] = 0
    BY <1>0, <1>2 DEF CInv, HostSound
  <1>4. /\ HostType /\ host.tree \in Tree /\ none \in Tree /\ act # "command" /\ ~At("r_run")
        /\ host.check \in 1 .. Len(Contract) /\ ws.verify # none
    BY Zenon, <1>0, <1>2, CheckInHand DEF CInv, HostType, Tree
  <1>5. rows' = rows /\ ws' = ws
    BY Zenon, <1>1 DEF storeVars, tapeVars
  <1>6. CASE Goto("c_run") /\ entered' = [entered EXCEPT ![act] = @ + 1]
    <2>1. Stands(host', "c_run", host.check, host.out, host.tree)
      BY Zenon, <1>4, <1>6, GotoStands
    <2>2. host'.pc = "c_run" /\ host'.check = host.check /\ host'.pc # "r_run"
      BY <2>1 DEF Stands
    <2>3. /\ Grows /\ ExecutionSound' /\ entered' \in [{"command"} \cup Checks -> Nat]
          /\ ws' \in Workspace /\ left' \in Seq(Nat) /\ orphan' \in BOOLEAN
      BY Zenon, <1>1, <1>3, <1>4, <1>6, <2>2, EntersOnce
    <2>4. Check' = act
      BY Zenon, <1>2, <2>2 DEF Check
    <2>5. HostSound'
      BY Zenon, <1>3, <1>4, <1>5, <2>2, <2>4, HostAtCheck
    <2> QED BY Zenon, <1>1, <1>4, <2>1, <2>3, <2>5, Assembled
  <1>7. ASSUME NEW out \in {"failed", "unknown"}, Ends(act, "c_result", out, none),
               entered' = entered
        PROVE  CInv'
    <2>1. WorkspaceKept
      BY Zenon, <1>5, SameWorkspace
    <2>2. Grows /\ RowsKept(rows, rows')
      BY Zenon, <1>1, <2>1, ReadGrows
    <2>3. CASE Stands(host', "c_result", host.check, out, none)
      <3>1. /\ host'.pc = "c_result" /\ host'.check = host.check
            /\ host'.out \in Ended /\ "c_result" # "r_run"
        BY <2>3 DEF Stands, Ended
      <3>2. Check' = act
        BY Zenon, <1>2, <3>1 DEF Check
      <3>3. HostSound'
        BY Zenon, <1>3, <1>4, <1>5, <3>1, <3>2, HostAtCheck
      <3> QED BY Zenon, <1>1, <1>4, <1>7, <2>1, <2>2, <2>3, <3>1, <3>3, StepKeeps
    <2>4. ASSUME NEW status \in {"reconciliation", "error"},
                 Stands(host', "answer", host.check, status, host.tree)
          PROVE  CInv'
      <3>1. Plain(host')
        BY <2>4 DEF Stands, Plain
      <3> QED BY Zenon, <1>1, <1>4, <1>7, <2>1, <2>2, <2>4, <3>1, PlainKeeps
    <2> QED BY Zenon, <1>4, <1>7, <2>3, <2>4, EndsStands
  <1>8. \A out \in NotStarted(act) : out \in {"failed", "unknown"}
    BY DEF NotStarted
  <1>9. Enter("c_enter", act, "c_run", "c_result")
    BY Zenon, <1>2 DEF CheckEnter
  <1> QED BY Zenon, <1>6, <1>7, <1>8, <1>9 DEF Enter

\* A check's container ends; its worktree is read-only.
LEMMA CheckContainerKeeps ==
    ASSUME CInv, CheckContainer
    PROVE  CInv'
  <1>0. host.pc = "c_run" /\ host.pc \in {"c_issue", "c_claim", "c_enter", "c_run", "c_result"}
    BY DEF CheckContainer, At
  <1>1. UNCHANGED storeVars /\ ws' = ws /\ UNCHANGED <<entered, left, answered, orphan>>
    BY Zenon, Frames DEF CheckContainer
  <1>2. PICK out \in Outcomes(Check) : Ends(Check, "c_result", out, host.tree)
    BY Zenon DEF CheckContainer
  <1>3. out \in Ended
    BY <1>2 DEF Outcomes, Ended
  <1>4. rows[Check] # none
    BY <1>0 DEF CInv, HostSound
  <1>5. /\ HostType /\ host.tree \in Tree /\ ~At("r_run") /\ rows' = rows
        /\ host.check \in 1 .. Len(Contract) /\ ws.verify # none
    BY Zenon, <1>0, <1>1, CheckInHand DEF CInv, HostType, storeVars, tapeVars
  <1>6. WorkspaceKept
    BY Zenon, <1>1, SameWorkspace
  <1>7. Grows /\ RowsKept(rows, rows')
    BY Zenon, <1>1, <1>6, ReadGrows
  <1>8. CASE Stands(host', "c_result", host.check, out, host.tree)
    <2>1. /\ host'.pc = "c_result" /\ host'.check = host.check
          /\ host'.out \in Ended /\ "c_result" # "r_run"
      BY <1>3, <1>8 DEF Stands
    <2>2. Check' = Check
      BY Zenon, <2>1 DEF Check
    <2>3. HostSound'
      BY Zenon, <1>1, <1>4, <1>5, <2>1, <2>2, HostAtCheck
    <2> QED BY Zenon, <1>1, <1>5, <1>6, <1>7, <1>8, <2>1, <2>3, StepKeeps
  <1>9. ASSUME NEW status \in {"reconciliation", "error"},
               Stands(host', "answer", host.check, status, host.tree)
        PROVE  CInv'
    <2>1. Plain(host')
      BY <1>9 DEF Stands, Plain
    <2> QED BY Zenon, <1>1, <1>5, <1>6, <1>7, <1>9, <2>1, PlainKeeps
  <1> QED BY Zenon, <1>2, <1>5, <1>8, <1>9, EndsStands

\* record of a check's result.
LEMMA CheckResultKeeps ==
    ASSUME CInv, CheckResult
    PROVE  CInv'
  <1>0. host.pc = "c_result" /\ host.pc \in {"c_issue", "c_claim", "c_enter", "c_run", "c_result"}
    BY DEF CheckResult, At
  <1>1. /\ LedgerStep /\ projections' = projections
        /\ RecordResult(Check, host.out, none)
    BY Zenon DEF CheckResult, RecordCheckResult
  <1>2. rows[Check] # none /\ host.out \in Ended
    BY <1>0 DEF CInv, HostSound
  <1>3. PICK act \in Actions, out \in Ended : act = Check /\ out = host.out
    BY Zenon, <1>0, <1>2, CheckInHand
  <1>4. ws' = ws /\ act # "finalize" /\ act # "command" /\ ~At("r_run") /\ none \in Tree
    BY Zenon, <1>0, <1>1, <1>3, CheckInHand, Frames DEF Tree
  <1>5. /\ Grows
        /\ \A a \in Actions : a # act => rows'[a] = rows[a]
        /\ ResultAnswer(act, out) = "recorded" => Recorded(rows'[act])
        /\ ResultAnswer(act, out) # "recorded" => rows' = rows
    BY Zenon, <1>1, <1>2, <1>3, <1>4, ResultGrows
  <1>6. RowsKept(rows, rows')
    <2>1. \A a \in Actions : rows'[a] = none => rows[a] = none
      BY Zenon, <1>5 DEF Recorded
    <2>2. \A a \in {"command", "finalize"} : rows'[a] = rows[a]
      BY Zenon, <1>4, <1>5, ActionFacts
    <2> QED BY Zenon, <2>1, <2>2 DEF RowsKept
  <1>7. host' = NextCheck(host.check) \/ Fail
    BY Zenon DEF CheckResult
  <1>8. CASE host' = NextCheck(host.check)
    BY Zenon, <1>0, <1>1, <1>4, <1>5, <1>6, <1>8, CheckInHand, NextCheckKeeps
  <1>9. CASE Fail
    BY Zenon, <1>1, <1>4, <1>5, <1>6, <1>9, LedgerFails
  <1> QED BY Zenon, <1>7, <1>8, <1>9

-----------------------------------------------------------------------------
(* The acceptance *)

\* One failure rejects and nothing else does.
LEMMA OutcomeOfChecks ==
    ASSUME \A c \in Checks : rows[c].out \in {"succeeded", "failed"}
    PROVE  AcceptanceOutcome([i \in DOMAIN Contract |-> rows[Contract[i]].out])
             = IF \A c \in Checks : rows[c].out = "succeeded" THEN "passed" ELSE "rejected"
  <1> DEFINE outs == [i \in DOMAIN Contract |-> rows[Contract[i]].out]
  <1>1. \A x : x \in Range(outs) <=> \E i \in DOMAIN Contract : x = rows[Contract[i]].out
    BY Zenon DEF Range
  <1>2. \A c : c \in Checks <=> \E i \in DOMAIN Contract : c = Contract[i]
    BY Zenon DEF Checks, Range
  <1>3. "failed" \in Range(outs) <=> \E c \in Checks : rows[c].out = "failed"
    BY Zenon, <1>1, <1>2
  <1>4. (\E c \in Checks : rows[c].out = "failed") <=> ~\A c \in Checks : rows[c].out = "succeeded"
    <2>1. "failed" # "succeeded"
      OBVIOUS
    <2> QED BY Zenon, <2>1
  <1> HIDE DEF outs
  <1>5. AcceptanceOutcome(outs)
          = IF \A c \in Checks : rows[c].out = "succeeded" THEN "passed" ELSE "rejected"
    BY Zenon, <1>3, <1>4 DEF AcceptanceOutcome
  <1> QED BY Zenon, <1>5 DEF outs

\* The evidence of an acceptance: the sealed completion, and a terminal result
\* of every check that was requested after it.
LEMMA EvidenceGrounds ==
    ASSUME CInv, AcceptanceEvidence
    PROVE  /\ projections.completion # none /\ projections.completion \in 1 .. Len(tape)
           /\ ws.ref # none /\ tape[projections.completion].val = ws.ref
           /\ \A c \in Checks :
                 /\ Recorded(rows[c]) /\ rows[c].out \in {"succeeded", "failed"}
                 /\ \E j \in 1 .. Len(tape) : Is(tape[j], "result", c)
                 /\ \E j \in 1 .. Len(tape) : Is(tape[j], "action", c) /\ projections.completion < j
  <1>1. projections.completion # none
    BY Zenon DEF AcceptanceEvidence, CompletedCandidate
  <1>2. /\ projections.completion \in 1 .. Len(tape)
        /\ Is(tape[projections.completion], "completion", none)
    BY Zenon, <1>1 DEF CInv, TapeSound, Backed
  <1>3. ws.ref # none /\ tape[projections.completion].val = ws.ref
    <2>1. PICK i \in 1 .. Len(tape) : i = projections.completion
      BY Zenon, <1>2
    <2>2. tape[i].kind \in {"candidate", "completion", "acceptance"}
      BY <1>2, <2>1 DEF Is
    <2>3. ws.ref # none /\ tape[i].val = ws.ref
      BY Zenon, <2>2 DEF CInv, TapeSound, Rooted
    <2> QED BY Zenon, <2>1, <2>3
  <1>4. ASSUME NEW c \in Checks
        PROVE  /\ Recorded(rows[c]) /\ rows[c].out \in {"succeeded", "failed"}
               /\ \E j \in 1 .. Len(tape) : Is(tape[j], "result", c)
               /\ \E j \in 1 .. Len(tape) : Is(tape[j], "action", c) /\ projections.completion < j
    <2>1. CheckEnded(c)
      BY Zenon DEF AcceptanceEvidence
    <2>2. Recorded(rows[c]) /\ rows[c].out # "unknown" /\ Has("action", c)
          /\ projections.completion < The("action", c)
      BY Zenon, <2>1 DEF CheckEnded, Recorded, ReconstructsCheck
    <2>3. rows[c].out \in Ended /\ \E j \in 1 .. Len(tape) : Is(tape[j], "result", c)
      BY Zenon, <2>2, ActionFacts DEF CInv, TapeSound, Backed
    <2>4. rows[c].out \in {"succeeded", "failed"}
      BY <2>2, <2>3 DEF Ended
    <2>5. The("action", c) \in 1 .. Len(tape) /\ Is(tape[The("action", c)], "action", c)
      BY Zenon, <2>2, Found DEF CInv
    <2> QED BY Zenon, <2>2, <2>3, <2>4, <2>5
  <1> QED BY Zenon, <1>1, <1>2, <1>3, <1>4

\* record_governed_v5_candidate_acceptance_v1: recorded once, over a result of
\* every check.
LEMMA AcceptanceKeeps ==
    ASSUME CInv, Acceptance
    PROVE  CInv'
  <1> DEFINE outcome == AcceptanceOutcome([i \in DOMAIN Contract |-> rows[Contract[i]].out])
             e == Signed("acceptance", none, outcome, tape[projections.completion].val)
  <1>1. /\ LedgerStep /\ At("r_accept") /\ ~At("r_run") /\ UNCHANGED <<ckpts, rows, now>>
        /\ Commit(AcceptanceAnswer, "recorded", <<e>>)
        /\ projections' = IF AcceptanceAnswer = "recorded" THEN ProjectAcceptance ELSE projections
        /\ Continue(AcceptanceAnswer, {"recorded", "existing"}, "r_accept_seal")
    BY DEF Acceptance, RecordAcceptance, At
  <1>2. ws' = ws /\ now' \in Nat /\ ws.ref \in Tree /\ Len(tape) \in Nat
        /\ tape \in Seq(Event) /\ projections \in [completion : Tree, acceptance : Tree]
    BY SMTT(20), <1>1, Frames DEF CInv, LedgerType, HostType, Workspace
  <1>3. ws.verify # none
    BY <1>1 DEF CInv, HostSound, At
  <1>4. ASSUME AcceptanceAnswer = "recorded"
        PROVE  Grows /\ RowsKept(rows, rows') /\ projections'.acceptance # none
    <2>1. AcceptanceEvidence /\ projections.acceptance = none
      BY <1>4 DEF AcceptanceAnswer
    <2>2. /\ projections.completion # none /\ projections.completion \in 1 .. Len(tape)
          /\ ws.ref # none /\ tape[projections.completion].val = ws.ref
          /\ \A c \in Checks :
                /\ Recorded(rows[c]) /\ rows[c].out \in {"succeeded", "failed"}
                /\ \E j \in 1 .. Len(tape) : Is(tape[j], "result", c)
                /\ \E j \in 1 .. Len(tape) : Is(tape[j], "action", c) /\ projections.completion < j
      BY Zenon, <2>1, EvidenceGrounds
    <2>3. outcome = IF \A c \in Checks : rows[c].out = "succeeded" THEN "passed" ELSE "rejected"
      BY Zenon, <2>2, OutcomeOfChecks
    <2> HIDE DEF outcome
    <2>4. outcome \in {"passed", "rejected"}
      BY SMTT(20), <2>3
    <2>5. /\ e \in Event /\ e.kind = "acceptance" /\ e.act = none /\ e.val = ws.ref
          /\ e.out = outcome
      BY <1>2, <2>2, <2>4 DEF Event, Signed, Tree
    <2>6. tape' = tape \o <<e>>
      BY <1>1, <1>4 DEF Commit
    <2> HIDE DEF e
    <2>7. /\ projections' \in [completion : Tree, acceptance : Tree]
          /\ projections'.acceptance = Len(tape) + 1
          /\ projections'.completion = projections.completion
      BY <1>1, <1>2, <1>4 DEF ProjectAcceptance, Tree
    <2>8. tape'[Len(tape) + 1] = e /\ \A j \in 1 .. Len(tape) : tape'[j] = tape[j]
      BY <1>2, <2>5, <2>6
    <2>9. PICK n : n = Len(tape) + 1
      BY Zenon
    <2>10. Grounded(tape', n, rows, projections')
      <3>1. 1 .. (n - 1) = 1 .. Len(tape) /\ projections.completion < n
        BY <1>2, <2>2, <2>9
      <3>2. \A c \in Checks :
               /\ \E j \in 1 .. (n - 1) : Is(tape'[j], "result", c)
               /\ \E j \in 1 .. (n - 1) : Is(tape'[j], "action", c) /\ projections.completion < j
        BY Zenon, <2>2, <2>8, <3>1
      <3>3. tape'[n].out = IF \A c \in Checks : rows[c].out = "succeeded" THEN "passed" ELSE "rejected"
        BY Zenon, <2>3, <2>5, <2>8, <2>9
      <3> QED BY Zenon, <2>2, <2>7, <3>1, <3>2, <3>3 DEF Grounded
    <2>11. Rooted(tape', Len(tape) + 1, rows, ws, projections')
      <3>1. Grounded(tape', Len(tape) + 1, rows, projections')
        BY Zenon, <2>9, <2>10
      <3> QED BY <1>3, <2>2, <2>5, <2>7, <2>8, <3>1 DEF Rooted, Is
    <2>12. Fresh(tape, e) /\ Is(e, "acceptance", none)
      BY <2>5 DEF Fresh, Is
    <2>13. Grows /\ RowsKept(rows, rows')
      BY Zenon, <1>1, <1>2, <2>1, <2>5, <2>6, <2>7, <2>11, <2>12, OneCommit
    <2>14. projections'.acceptance # none
      BY <1>2, <2>7, NoneAssumption
    <2> QED BY Zenon, <2>13, <2>14
  <1>5. ASSUME AcceptanceAnswer # "recorded"
        PROVE  Grows /\ RowsKept(rows, rows') /\ projections' = projections
    <2>1. tape' = tape /\ projections' = projections
      BY <1>1, <1>5 DEF Commit
    <2> QED BY Zenon, <1>1, <1>2, <2>1, NoCommit
  <1>6. ASSUME AcceptanceAnswer \in {"recorded", "existing"}, Goto("r_accept_seal")
        PROVE  HostSound'
    <2>1. host'.pc = "r_accept_seal"
      BY Zenon, <1>6, GotoStands DEF CInv, Stands
    <2>2. AcceptanceAnswer = "existing" => projections.acceptance # none
      BY DEF AcceptanceAnswer
    <2>3. projections'.acceptance # none
      BY <1>4, <1>5, <1>6, <2>2
    <2> QED BY Zenon, <2>1, <2>3, HostAt
  <1>7. "r_accept_seal" # "r_run"
    OBVIOUS
  <1>8. Grows /\ RowsKept(rows, rows')
    BY Zenon, <1>4, <1>5
  <1> QED BY Zenon, <1>1, <1>6, <1>7, <1>8, LedgerContinues

\* The acceptance's checkpoint.
LEMMA AcceptanceSealKeeps ==
    ASSUME CInv, AcceptanceSeal
    PROVE  CInv'
  <1>1. /\ LedgerStep /\ At("r_accept_seal") /\ ~At("r_run")
        /\ Continue(AcceptanceSealAnswer, {"sealed"}, "r_receipt_resolve")
        /\ IF AcceptanceSealAnswer = "sealed" THEN SealPrefix ELSE UNCHANGED storeVars
    BY DEF AcceptanceSeal, SealAcceptance, At
  <1>2. ws' = ws
    BY Zenon, <1>1, Frames
  <1>3. Grows /\ RowsKept(rows, rows')
    BY Zenon, <1>1, <1>2, SealGrows, UnsealedGrows
  <1>4. ASSUME AcceptanceSealAnswer \in {"sealed"}, Goto("r_receipt_resolve")
        PROVE  HostSound'
    <2>1. SealPrefix
      BY <1>1, <1>4
    <2>2. projections' = projections /\ Covered(ckpts') = Len(tape)
      BY Zenon, <1>2, <2>1, SealGrows DEF SealPrefix
    <2>3. projections.acceptance # none
      BY <1>1 DEF CInv, HostSound, At
    <2>4. projections.acceptance \in 1 .. Len(tape)
      BY Zenon, <2>3 DEF CInv, TapeSound, Backed
    <2>5. Len(tape) \in Nat
      BY DEF CInv, LedgerType
    <2>6. Covered(ckpts') >= projections'.acceptance
      BY <2>2, <2>4, <2>5
    <2>7. host'.pc = "r_receipt_resolve"
      BY Zenon, <1>4, GotoStands DEF CInv, Stands
    <2> QED BY Zenon, <2>2, <2>3, <2>6, <2>7, HostAt
  <1>5. "r_receipt_resolve" # "r_run"
    OBVIOUS
  <1> QED BY Zenon, <1>1, <1>3, <1>4, <1>5, LedgerContinues

\* A success is answered with everything it needs on the ledger.
LEMMA ResolveReceiptKeeps ==
    ASSUME CInv, ResolveReceipt
    PROVE  CInv'
  <1>1. ReadStep /\ At("r_receipt_resolve") /\ ~At("r_run")
    BY DEF ResolveReceipt, At
  <1>2. \/ Answer("failed") \/ Answer("error")
        \/ /\ Answer("succeeded") /\ tape[projections.acceptance].out # "rejected"
           /\ CompletedCandidate
    BY DEF ResolveReceipt, ReceiptAnswer, Fail
  <1>3. "failed" # "succeeded" /\ "error" # "succeeded" /\ "idle" \in PlainPcs
        /\ "answer" # "r_run"
    BY DEF PlainPcs
  <1>4. ASSUME Answer("succeeded"), tape[projections.acceptance].out # "rejected",
               CompletedCandidate
        PROVE  CInv'
    <2>1. projections.acceptance # none /\ Covered(ckpts) >= projections.acceptance
      BY <1>1 DEF CInv, HostSound, At
    <2>2. projections.acceptance \in 1 .. Len(tape)
          /\ Is(tape[projections.acceptance], "acceptance", none)
      BY Zenon, <2>1 DEF CInv, TapeSound, Backed
    <2>3. tape[projections.acceptance].out = "passed"
      <3>1. PICK i \in 1 .. Len(tape) : i = projections.acceptance
        BY Zenon, <2>2
      <3>2. Grounded(tape, i, rows, projections)
        BY Zenon, <2>2, <3>1 DEF CInv, TapeSound, Rooted, Is
      <3>3. tape[i].out = "passed" \/ tape[i].out = "rejected"
        BY <3>2 DEF Grounded
      <3> QED BY Zenon, <1>4, <3>1, <3>3
    <2>4. Proved
      BY Zenon, <1>4, <2>1, <2>3 DEF Proved, CompletedCandidate
    <2>5. /\ UNCHANGED storeVars /\ ws' = ws /\ UNCHANGED <<entered, left, answered, orphan>>
          /\ WorkspaceKept /\ HostType /\ host.tree \in Tree
      BY Zenon, <1>1, Frames, SameWorkspace DEF CInv, HostType
    <2>6. Grows /\ RowsKept(rows, rows')
      BY Zenon, <2>5, ReadGrows
    <2>7. Stands(host', "answer", host.check, "succeeded", host.tree)
      BY Zenon, <1>4, <2>5, AnswerStands
    <2>8. tape' = tape /\ ckpts' = ckpts /\ projections' = projections
      BY Zenon, <2>5 DEF storeVars, tapeVars
    <2>9. Proved'
      BY Zenon, <2>4, <2>8 DEF Proved, EndsAt
    <2>10. HostSound'
      BY Zenon, <2>7, <2>9, HostAt DEF Stands
    <2> QED BY Zenon, <1>1, <1>3, <2>5, <2>6, <2>7, <2>10, StepKeeps
  <1> QED BY Zenon, <1>1, <1>2, <1>3, <1>4, ReadsKeep

-----------------------------------------------------------------------------
(* The end of a request, and the environment *)

\* The idle host.
LEMMA IdleStands ==
    /\ Stands(idle, "idle", 0, none, none)
    /\ idle.pc = "idle"
  <1>1. idle.pc = "idle" /\ idle.op = none /\ idle.packet = none /\ idle.check = 0
        /\ idle.out = none /\ idle.tree = none
    BY DEF idle
  <1> QED BY Zenon, <1>1 DEF Stands, Host, idle

\* The reply: a success is told only where it is proved.
LEMMA DeliverKeeps ==
    ASSUME CInv, Deliver
    PROVE  CInv'
  <1>1. /\ host.pc = "answer" /\ host' = idle /\ UNCHANGED storeVars /\ ws' = ws
        /\ UNCHANGED <<orphan, entered, left>>
        /\ answered' \in {answered, answered \cup {host.out}}
    BY Zenon DEF Deliver, At, workspaceVars
  <1>2. WorkspaceKept /\ none \in Tree
    BY Zenon, <1>1, SameWorkspace DEF Tree
  <1>3. Grows /\ RowsKept(rows, rows')
    BY Zenon, <1>1, <1>2, ReadGrows
  <1>4. Stands(host', "idle", 0, none, none) /\ host'.pc = "idle"
    BY Zenon, <1>1, IdleStands
  <1>5. HostSound' /\ host'.pc # "r_run"
    BY <1>4, PlainHost DEF Plain, PlainPcs
  <1>6. Running' = Running
    BY <1>1, <1>5 DEF Running, At
  <1>7. /\ HostType /\ ExecutionSound /\ entered \in [{"command"} \cup Checks -> Nat]
        /\ left \in Seq(Nat) /\ orphan \in BOOLEAN
    BY Zenon DEF CInv, HostType
  <1>8. HostType'
    BY Zenon, <1>1, <1>2, <1>4, <1>7, HostTyped DEF WorkspaceKept
  <1>9. ExecutionSound'
    BY Zenon, <1>1, <1>3, <1>6, <1>7, ExecutionKept
  <1>10. tape' = tape /\ ckpts' = ckpts /\ projections' = projections
    BY Zenon, <1>1 DEF storeVars, tapeVars
  <1>11. SealSound'
    <2>1. "succeeded" \in answered' => "succeeded" \in answered \/ host.out = "succeeded"
      BY Zenon, <1>1
    <2>2. "succeeded" \in answered' => Proved
      BY Zenon, <1>1, <2>1 DEF CInv, SealSound, HostSound
    <2>3. Proved => Proved'
      BY Zenon, <1>10 DEF Proved, EndsAt
    <2>4. Through(ckpts', Len(tape'))
      BY Zenon, <1>10 DEF CInv, SealSound
    <2> QED BY Zenon, <2>2, <2>3, <2>4 DEF SealSound
  <1> QED BY Zenon, <1>3, <1>5, <1>8, <1>9, <1>11 DEF CInv, Grows

\* The container a crash leaves behind is counted as running.
LEMMA CrashKeeps ==
    ASSUME CInv, Crash
    PROVE  CInv'
  <1>1. /\ host' = idle /\ UNCHANGED storeVars /\ ws' = ws /\ orphan' = (orphan \/ At("r_run"))
        /\ UNCHANGED <<entered, left, answered>>
    BY Zenon DEF Crash, workspaceVars
  <1>2. WorkspaceKept /\ none \in Tree
    BY Zenon, <1>1, SameWorkspace DEF Tree
  <1>3. Grows /\ RowsKept(rows, rows')
    BY Zenon, <1>1, <1>2, ReadGrows
  <1>4. Stands(host', "idle", 0, none, none) /\ host'.pc = "idle"
    BY Zenon, <1>1, IdleStands
  <1>5. HostSound' /\ host'.pc # "r_run"
    BY <1>4, PlainHost DEF Plain, PlainPcs
  <1>6. /\ HostType /\ ExecutionSound /\ entered \in [{"command"} \cup Checks -> Nat]
        /\ left \in Seq(Nat) /\ orphan \in BOOLEAN /\ ws \in Workspace
    BY Zenon DEF CInv, HostType
  <1>7. orphan' \in BOOLEAN
    BY Zenon, <1>1
  <1>8. Running' = Running
    <2>1. ~(At("r_run") /\ orphan)
      BY Zenon, OneRuns
    <2>2. Running' = IF orphan' THEN 1 ELSE 0
      BY <1>5, <1>7 DEF Running, At
    <2>3. CASE At("r_run")
      <3>1. orphan' = TRUE /\ orphan = FALSE
        BY Zenon, <1>1, <1>6, <2>1, <2>3
      <3> QED BY <2>2, <2>3, <3>1 DEF Running
    <2>4. CASE ~At("r_run")
      <3>1. orphan' = orphan
        BY Zenon, <1>1, <1>6, <2>4
      <3> QED BY <1>6, <2>2, <2>4, <3>1 DEF Running
    <2> QED BY Zenon, <2>3, <2>4
  <1>9. HostType'
    BY Zenon, <1>1, <1>2, <1>4, <1>6, <1>7, HostTyped DEF WorkspaceKept
  <1>10. ExecutionSound'
    BY Zenon, <1>1, <1>3, <1>6, <1>8, ExecutionKept
  <1>11. tape' = tape /\ ckpts' = ckpts /\ projections' = projections
    BY Zenon, <1>1 DEF storeVars, tapeVars
  <1>12. SealSound'
    <2>1. Proved => Proved'
      BY Zenon, <1>11 DEF Proved, EndsAt
    <2> QED BY Zenon, <1>1, <1>11, <2>1 DEF CInv, SealSound
  <1> QED BY Zenon, <1>3, <1>5, <1>9, <1>10, <1>12 DEF CInv, Grows

\* The admission host, other writers, the target's owner and the clock, or no
\* step at all.
EnvironmentStep ==
    \/ AdmissionSeals \/ OtherAppends \/ OtherSeals \/ MoveTarget \/ Tick
    \/ UNCHANGED sessionVars

\* None of them disturbs what the session relies on.
LEMMA EnvironmentKeeps ==
    ASSUME CInv, EnvironmentStep
    PROVE  CInv'
  <1>1. /\ ws' = ws /\ host' = host /\ UNCHANGED <<orphan, entered, left, answered>>
    BY Zenon DEF EnvironmentStep, AdmissionSeals, OtherAppends, OtherSeals, MoveTarget, Tick,
                 workspaceVars, Ghosts, sessionVars
  <1>2. /\ tape \in Seq(Event) /\ now \in Nat
    BY Zenon DEF CInv, LedgerType
  <1>3. Grows /\ RowsKept(rows, rows')
    <2>1. CASE AdmissionSeals \/ OtherSeals
      <3>1. /\ ckpts' = Sealed(tape, ckpts) /\ tape' = tape /\ rows' = rows
            /\ projections' = projections /\ now' = now
        BY Zenon, <2>1 DEF AdmissionSeals, OtherSeals, SealPrefix
      <3>2. ckpts' \in Seq(Nat)
        BY Zenon, <3>1, SealedAdvances DEF CInv, SealSound
      <3>3. LedgerType'
        BY Zenon, <3>1, <3>2 DEF CInv, LedgerType
      <3>4. /\ TapeSound' /\ Prefix(tape, tape')
            /\ Later(rows, ws, projections, rows', ws', projections')
        BY Zenon, <1>1, <3>1, <3>3, NoneSigned DEF CInv
      <3>5. RowsKept(rows, rows') /\ ckpts' \in {ckpts, Sealed(tape, ckpts)}
        BY Zenon, <3>1 DEF RowsKept
      <3> QED BY Zenon, <3>3, <3>4, <3>5 DEF Grows
    <2>2. CASE OtherAppends
      <3> DEFINE e == Signed("other", none, none, none)
      <3>1. /\ tape' = Append(tape, e)
            /\ UNCHANGED <<ckpts, rows, projections, now>>
        BY Zenon, <2>2 DEF OtherAppends
      <3>2. e \in Event /\ e.kind = "other"
        BY DEF Event, Signed, Tree
      <3> HIDE DEF e
      <3>3. tape' = tape \o <<e>>
        BY <1>2, <3>1, <3>2
      <3>4. /\ e.kind \in {"receipt", "receipt_set", "candidate", "other"}
            /\ ~Is(e, "receipt", "command") /\ ~Is(e, "receipt", "finalize") /\ e.kind # "candidate"
        BY <3>2 DEF Is
      <3> QED BY Zenon, <1>1, <3>1, <3>2, <3>3, <3>4, SimpleCommit
    <2>3. CASE MoveTarget \/ Tick \/ UNCHANGED sessionVars
      <3>1. /\ tape' = tape /\ UNCHANGED <<ckpts, rows, projections>> /\ now' \in {now, now + 1}
        BY Zenon, <2>3 DEF MoveTarget, Tick, sessionVars, workspaceVars, storeVars, tapeVars
      <3>2. now' \in Nat
        BY <1>2, <3>1
      <3> QED BY Zenon, <1>1, <3>1, <3>2, NoCommit
    <2> QED BY Zenon, <2>1, <2>2, <2>3 DEF EnvironmentStep
  <1>4. Running' = Running /\ HostType'
    BY Zenon, <1>1 DEF Running, At, CInv, HostType
  <1>5. /\ LedgerType' /\ TapeSound' /\ Prefix(tape, tape')
        /\ ckpts' \in {ckpts, Sealed(tape, ckpts)}
        /\ Later(rows, ws, projections, rows', ws', projections')
    BY Zenon, <1>3 DEF Grows
  <1>6. /\ ExecutionSound' /\ SealSound' /\ (Proved => Proved')
        /\ Covered(ckpts') >= Covered(ckpts)
    BY Zenon, <1>1, <1>3, <1>4, <1>5, RestKept
  <1>7. Len(tape') \in Nat /\ ckpts' \in Seq(Nat)
    BY <1>5 DEF LedgerType
  <1>8. HostSound'
    BY Zenon, <1>1, <1>5, <1>6, <1>7, HostKept DEF CInv, SealSound
  <1> QED BY Zenon, <1>4, <1>5, <1>6, <1>8 DEF CInv

-----------------------------------------------------------------------------
(* The invariant *)

\* A run that starts with its dispatch and admission signed, nothing executed
\* and no request in hand is in the invariant.
LEMMA CInvInit == SessionInit => CInv
  <1> SUFFICES ASSUME SessionInit PROVE CInv
    OBVIOUS
  <1> DEFINE d == Signed("dispatch", none, none, none)
             a == Signed("admission", none, none, none)
  <1>1. /\ tape = <<d, a>> /\ rows = [x \in Actions |-> none] /\ now = 0
        /\ projections = [completion |-> none, acceptance |-> none]
        /\ ckpts = <<2>> \/ ckpts = <<>>
        /\ host = idle /\ orphan = FALSE /\ left = <<>> /\ answered = {}
        /\ entered = [x \in {"command"} \cup Checks |-> 0]
        /\ ws = [tree |-> none, manifest |-> "absent", packet |-> "absent",
                 ref |-> none, verify |-> none]
    BY DEF SessionInit, StoreInit, WorkspaceInit
  <1>2. d \in Event /\ a \in Event /\ d.kind = "dispatch" /\ a.kind = "admission"
    BY DEF Event, Signed, Tree
  <1> HIDE DEF d, a
  <1>3. /\ tape \in Seq(Event) /\ Len(tape) = 2 /\ tape[1] = d /\ tape[2] = a
    BY <1>1, <1>2
  <1>4. LedgerType
    <2>0. <<2>> \in Seq(Nat) /\ <<>> \in Seq(Nat) /\ 0 \in Nat
      OBVIOUS
    <2>1. ckpts \in Seq(Nat) /\ now \in Nat
      BY Zenon, <1>1, <2>0
    <2>2. rows \in [Actions -> Lease \cup {none}]
      BY Zenon, <1>1
    <2>3. projections \in [completion : Tree, acceptance : Tree]
      BY <1>1 DEF Tree
    <2> QED BY Zenon, <1>3, <2>1, <2>2, <2>3 DEF LedgerType
  <1>5. HostType
    <2>1. ws \in Workspace
      BY <1>1 DEF Workspace, Tree
    <2>0. <<>> \in Seq(Nat)
      OBVIOUS
    <2>2. left \in Seq(Nat) /\ orphan \in BOOLEAN
      BY Zenon, <1>1, <2>0
    <2>3. entered \in [{"command"} \cup Checks -> Nat]
      BY <1>1
    <2>4. Stands(host, "idle", 0, none, none)
      BY Zenon, <1>1, IdleStands
    <2>5. host.tree \in Tree
      BY Zenon, <2>4 DEF Stands, Tree
    <2> QED BY Zenon, <2>1, <2>2, <2>3, <2>4, <2>5 DEF HostType, Stands, Host
  <1>6. TapeSound
    <2>1. \A i \in 1 .. Len(tape) : tape[i].kind \in {"dispatch", "admission"}
      BY SMTT(20), <1>2, <1>3
    <2>2. \A i \in 1 .. Len(tape) : Rooted(tape, i, rows, ws, projections)
      BY <2>1 DEF Rooted, Is
    <2>3. Single(tape)
      BY <2>1 DEF Single, Is
    <2>4. Backed(tape, rows, projections)
      BY <1>1 DEF Backed, Recorded
    <2> QED BY Zenon, <2>2, <2>3, <2>4 DEF TapeSound
  <1>7. ExecutionSound
    <2>1. Running = 0 /\ Len(left) = 0
      BY <1>1, IdleStands DEF Running, At
    <2>2. \A x \in {"command"} \cup Checks : entered[x] = 0
      BY <1>1
    <2>3. ~Succeeded(rows["command"]) /\ ~Succeeded(rows["finalize"])
      BY <1>1, ActionFacts DEF Succeeded, Recorded
    <2>4. ws.ref = none /\ ws.verify = none
      BY <1>1
    <2> QED BY <2>1, <2>2, <2>3, <2>4 DEF ExecutionSound
  <1>8. SealSound
    <2>1. Through(ckpts, Len(tape))
      BY <1>1, <1>3 DEF Through, Advances
    <2> QED BY Zenon, <1>1, <2>1 DEF SealSound
  <1>9. HostSound
    BY <1>1, IdleStands DEF HostSound
  <1> QED BY Zenon, <1>4, <1>5, <1>6, <1>7, <1>8, <1>9 DEF CInv

\* Every step of the session, of a crash and of the environment keeps the
\* invariant.
LEMMA CInvStep == CInv /\ [SessionNext]_sessionVars => CInv'
  <1> SUFFICES ASSUME CInv, [SessionNext]_sessionVars PROVE CInv'
    OBVIOUS
  <1>2. CASE RequestOpen \/ RequestRun \/ RequestRecovery
    BY Zenon, <1>2, RequestsKeep
  <1>3. CASE Serve
    <2>1. CASE OpenResolve \/ RecoverReopen
      BY Zenon, <2>1, ReadsOfOpenKeep
    <2>2. CASE OpenTheWorkspace \/ OpenManifest \/ OpenPacket
      BY Zenon, <2>2, OpensKeep
    <2>3. CASE OpenIssue \/ RunAuthority \/ RunClaim \/ RunEnter \/ RunContainer
      BY Zenon, <2>3, OpenIssueKeeps, RunAuthorityKeeps, RunClaimKeeps, RunEnterKeeps,
         RunContainerKeeps
    <2>4. CASE RunResult \/ RunReceipt \/ FinalizeIssue \/ FinalizeClaim \/ FinalizeEffect
      BY Zenon, <2>4, RunResultKeeps, RunReceiptKeeps, FinalizeIssueKeeps, FinalizeClaimKeeps,
         FinalizeEffectKeeps
    <2>5. CASE FinalizeRecheck \/ FinalizeResult \/ ReceiptSet \/ CandidateCreated \/ Completion
      BY Zenon, <2>5, FinalizeRecheckKeeps, FinalizeResultKeeps, ReceiptSetKeeps,
         CandidateCreatedKeeps, CompletionKeeps
    <2>6. CASE CompletionSeal \/ Verification \/ CheckIssue \/ CheckClaim \/ CheckEnter
      BY Zenon, <2>6, CompletionSealKeeps, VerificationKeeps, CheckIssueKeeps, CheckClaimKeeps,
         CheckEnterKeeps
    <2>7. CASE CheckContainer \/ CheckResult \/ Acceptance \/ AcceptanceSeal \/ ResolveReceipt
      BY Zenon, <2>7, CheckContainerKeeps, CheckResultKeeps, AcceptanceKeeps,
         AcceptanceSealKeeps, ResolveReceiptKeeps
    <2>8. CASE Deliver
      BY Zenon, <2>8, DeliverKeeps
    <2> QED BY Zenon, <1>3, <2>1, <2>2, <2>3, <2>4, <2>5, <2>6, <2>7, <2>8 DEF Serve
  <1>4. CASE Crash \/ OrphanEnds
    BY Zenon, <1>4, CrashKeeps, OrphanEndsKeeps
  <1>5. CASE EnvironmentStep
    BY Zenon, <1>5, EnvironmentKeeps
  <1> QED BY Zenon, <1>2, <1>3, <1>4, <1>5 DEF SessionNext, EnvironmentStep

\* The invariant holds in every reachable state, whatever the contract, the
\* windows and the budget of faults.
LEMMA CInvAlways == SessionSpec => []CInv
  BY CInvInit, CInvStep, PTL DEF SessionSpec

-----------------------------------------------------------------------------
(* What the lane promises *)

\* Every container is started at most once and only under a signed claim:
\* authorize_and_execute reaches the gateway on a granted claim alone, and a
\* retry, a crash or an expired lease is never granted one again.
THEOREM EnteredOnce == SessionSpec => []EffectEnteredOnce
  <1>1. CInv => EffectEnteredOnce
    <2> SUFFICES ASSUME CInv, NEW a \in DOMAIN entered
                 PROVE  entered[a] <= 1 /\ (entered[a] = 1 => Has("claim", a))
      BY Zenon DEF EffectEnteredOnce
    <2>1. a \in {"command"} \cup Checks /\ a \in Actions
      BY Zenon, ActionFacts DEF CInv, HostType
    <2>2. entered[a] <= 1 /\ (rows[a] = none => entered[a] = 0)
      BY Zenon, <2>1 DEF CInv, ExecutionSound
    <2>3. rows[a] # none => \E i \in 1 .. Len(tape) : Is(tape[i], "claim", a)
      BY Zenon, <2>1 DEF CInv, TapeSound, Backed
    <2>4. entered[a] = 1 => rows[a] # none
      BY <2>2
    <2> QED BY Zenon, <2>2, <2>3, <2>4, Found DEF CInv
  <1> QED BY CInvAlways, <1>1, PTL

\* The candidate, its completion and its acceptance name the tree that the one
\* succeeded command left: finalize_candidate_workspace_v1 and the verification
\* worktree hold it, whatever was retried, crashed or orphaned in between.
THEOREM OneTree == SessionSpec => []CandidateIsTheExecutedTree
  <1>1. CInv => CandidateIsTheExecutedTree
    <2> SUFFICES ASSUME CInv, NEW i \in DOMAIN tape,
                        tape[i].kind \in {"candidate", "completion", "acceptance"}
                 PROVE  /\ Len(left) = 1 /\ tape[i].val = left[1] /\ ws.ref = left[1]
                        /\ tape[i].kind = "acceptance" => ws.verify = left[1]
      BY Zenon DEF CandidateIsTheExecutedTree
    <2>1. i \in 1 .. Len(tape)
      BY Zenon, Found DEF CInv
    <2>2. /\ ws.ref # none /\ tape[i].val = ws.ref
          /\ tape[i].kind = "acceptance" => ws.verify # none
      BY Zenon, <2>1 DEF CInv, TapeSound, Rooted
    <2> QED BY Zenon, <2>2 DEF CInv, ExecutionSound
  <1> QED BY CInvAlways, <1>1, PTL

\* An acceptance follows the one completion and, for each check of the
\* contract, exactly one result of an action requested after that completion;
\* it passed just when every one of them succeeded
\* (verify_governed_v5_candidate_acceptance_evidence).
THEOREM GroundedAcceptance == SessionSpec => []AcceptanceIsGrounded
  <1>1. CInv => AcceptanceIsGrounded
    <2> SUFFICES ASSUME CInv, NEW i \in EventsOf("acceptance", none)
                 PROVE  /\ Has("completion", none) /\ The("completion", none) < i
                        /\ \A c \in Checks :
                             /\ Exactly("result", c) /\ The("result", c) < i
                             /\ The("completion", none) < The("action", c)
                        /\ tape[i].out = "passed" <=>
                             \A c \in Checks : tape[The("result", c)].out = "succeeded"
      BY Zenon DEF AcceptanceIsGrounded
    <2>1. i \in 1 .. Len(tape) /\ Is(tape[i], "acceptance", none) /\ Len(tape) \in Nat
      BY Zenon, Found DEF CInv
    <2>2. Grounded(tape, i, rows, projections)
      BY Zenon, <2>1 DEF CInv, TapeSound, Rooted, Is
    <2>3. Has("completion", none) /\ The("completion", none) = projections.completion
      <3>1. \E k \in 1 .. Len(tape) : Is(tape[k], "completion", none)
        BY Zenon, <2>2 DEF CInv, TapeSound, Backed, Grounded
      <3>2. Has("completion", none)
        BY Zenon, <3>1, Found DEF CInv
      <3>3. PICK m : m = The("completion", none)
        BY Zenon
      <3>4. m \in 1 .. Len(tape) /\ Is(tape[m], "completion", none)
        BY Zenon, <3>2, <3>3, Found DEF CInv
      <3>5. projections.completion = m
        BY Zenon, <3>4 DEF CInv, TapeSound, Rooted, Is
      <3> QED BY Zenon, <3>2, <3>3, <3>5
    <2>4. ASSUME NEW c \in Checks
          PROVE  /\ Exactly("result", c) /\ The("result", c) < i
                 /\ The("completion", none) < The("action", c)
                 /\ rows[c].out = tape[The("result", c)].out
      <3>0. c \in Actions
        BY Zenon, ActionFacts
      <3>1. PICK j \in 1 .. (i - 1) : Is(tape[j], "result", c)
        BY Zenon, <2>2 DEF Grounded
      <3>2. PICK k \in 1 .. (i - 1) : Is(tape[k], "action", c) /\ projections.completion < k
        BY Zenon, <2>2 DEF Grounded
      <3>3. j \in 1 .. Len(tape) /\ k \in 1 .. Len(tape) /\ j < i
        BY <2>1
      <3>4. EventsOf("result", c) = {j}
        <4>1. \A m : m \in EventsOf("result", c) <=>
                       m \in 1 .. Len(tape) /\ Is(tape[m], "result", c)
          BY Zenon, Found DEF CInv
        <4>2. \A m \in 1 .. Len(tape) : Is(tape[m], "result", c) => m = j
          BY Zenon, <3>0, <3>1, <3>3 DEF CInv, TapeSound, Single
        <4>3. \A m : m \in EventsOf("result", c) <=> m = j
          BY Zenon, <4>1, <4>2, <3>1, <3>3
        <4> QED BY Zenon, <4>3
      <3>5. EventsOf("action", c) = {k}
        <4>1. \A m : m \in EventsOf("action", c) <=>
                       m \in 1 .. Len(tape) /\ Is(tape[m], "action", c)
          BY Zenon, Found DEF CInv
        <4>2. \A m \in 1 .. Len(tape) : Is(tape[m], "action", c) => m = k
          BY Zenon, <3>0, <3>2, <3>3 DEF CInv, TapeSound, Single
        <4>3. \A m : m \in EventsOf("action", c) <=> m = k
          BY Zenon, <4>1, <4>2, <3>2, <3>3
        <4> QED BY Zenon, <4>3
      <3>6. The("result", c) = j /\ The("action", c) = k
        BY Zenon, <3>4, <3>5 DEF The
      <3>7. Exactly("result", c)
        BY Zenon, <3>4 DEF Exactly, Alone
      <3>8. rows[c].out = tape[j].out
        BY Zenon, <3>1, <3>3 DEF CInv, TapeSound, Rooted, Is
      <3> QED BY Zenon, <2>3, <3>2, <3>3, <3>6, <3>7, <3>8
    <2>5. The("completion", none) < i
      BY Zenon, <2>2, <2>3 DEF Grounded
    <2>6. tape[i].out = IF \A c \in Checks : tape[The("result", c)].out = "succeeded"
                        THEN "passed" ELSE "rejected"
      BY Zenon, <2>2, <2>4 DEF Grounded
    <2>7. tape[i].out = "passed" <=>
             \A c \in Checks : tape[The("result", c)].out = "succeeded"
      BY <2>6
    <2> QED BY Zenon, <2>3, <2>4, <2>5, <2>7
  <1> QED BY CInvAlways, <1>1, PTL

\* A client that was told "succeeded" can rely on a completion with a
\* checkpoint of its own and a sealed, passed acceptance, in that answer's
\* state and in every later one.
THEOREM ProvedSuccess == SessionSpec => []SuccessIsProved
  <1>1. CInv => SuccessIsProved
    BY Zenon DEF CInv, SealSound, Proved, SuccessIsProved
  <1> QED BY CInvAlways, <1>1, PTL
====
