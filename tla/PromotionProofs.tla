-------------------------- MODULE PromotionProofs ---------------------------
(***************************************************************************)
(* Proofs about Promotion, for every set of candidates, hosts and bounds:  *)
(* its types, the safety of the Git effect and the refinement to its       *)
(* contract.  The inductive invariant PInv says what each table row rests  *)
(* on (RowInv) and what a host in the middle of a request may still rely   *)
(* on (FrameInv), since the request was checked several commits ago.       *)
(***************************************************************************)
EXTENDS Promotion, FiniteSetTheorems, TLAPS


Entered(c) == \E i \in 1 .. Len(entries) : entries[i] = c
ClaimCovered(c) ==
    \E i \in 1 .. Covered(ckpts[c]) : tape[c][i] = "promotion_execution_claimed"

RowInv(c) ==
    /\ OnTape(c, "promotion_decision_recorded") => decision[c] # Absent
    /\ claim[c] # Absent =>
           /\ decision[c].state = "sealed" /\ decision[c].kind = "promote"
           /\ OnTape(c, "promotion_execution_claimed")
    /\ result[c] # Absent =>
           /\ decision[c].state = "sealed"
           /\ IF result[c].outcome = "rejected" THEN decision[c].kind = "reject"
              ELSE /\ c \in receipts
                   /\ result[c].outcome = "promoted"
                          <=> result[c].seen = [head |-> c, sync |-> "none"]
    /\ OnTape(c, "promotion_reconciliation_resolved") =>
           result[c] # Absent /\ result[c].outcome = "reconciliation_required"
    /\ c \in receipts => Entered(c)
    /\ Entered(c) => claim[c] # Absent /\ ClaimCovered(c)
    /\ Covered(ckpts[c]) <= Len(tape[c])

SealPcs == {"seal_decision", "emit_checkpoint", "check_covering", "mark_sealed"}
GitPcs == {"git_inspect", "git_advance", "git_observe"}

FrameInv(h) ==
    LET c == RunOf[h]
        f == frame[h]
    IN
    /\ f.pc = "idle" => f = Idle
    /\ f.pc \in SealPcs => decision[c] # Absent
    /\ f.pc = "seal_claim" => claim[c] # Absent /\ ~Entered(c)
    /\ f.pc \in GitPcs => Entered(c)
    /\ f.pc = "record_result" =>
           IF f.seen = NoGit
           THEN decision[c] # Absent /\ decision[c].kind = "reject"
           ELSE /\ c \in receipts
                /\ f.seen.sync = "none" <=> f.seen = [head |-> c, sync |-> "none"]
    /\ f.pc \in {"seal_result", "record_terminal"} => result[c] # Absent
    /\ f.pc \in {"reobserve", "record_abandon"} =>
           result[c] # Absent /\ result[c].outcome = "reconciliation_required"

\* One host per run holds a claim that is not sealed yet.
OneUnsealedClaim ==
    \A g, h \in Hosts :
        /\ frame[g].pc = "seal_claim" /\ frame[h].pc = "seal_claim"
        /\ RunOf[g] = RunOf[h]
        => g = h

PInv ==
    /\ TypeOK
    /\ \A c \in Candidates : RowInv(c)
    /\ \A h \in Hosts : FrameInv(h)
    /\ OneUnsealedClaim
    /\ GitEnteredOnce

Frames == [pc : Pcs, kind : Kinds, mark : Nat, claimed : BOOLEAN, seen : Observations]

\* What no step takes away: rows, receipts and entries only accumulate.
Grows ==
    \A c \in Candidates :
        /\ decision[c] # Absent =>
               decision'[c] # Absent /\ decision'[c].kind = decision[c].kind
        /\ claim[c] # Absent => claim'[c] = claim[c]
        /\ result[c] # Absent => result'[c] = result[c]
        /\ c \in receipts => c \in receipts'
        /\ Entered(c) => Entered(c)'

-----------------------------------------------------------------------------
(* Facts about single assignments *)

\* Every host is pinned to the run of one candidate.
LEMMA HostRun == \A h \in Hosts : RunOf[h] \in Candidates
  BY Zenon, HostAssumption

\* A host that goes on to pc keeps the rest of its frame; the others stand.
LEMMA GoFacts ==
    ASSUME TypeOK, NEW h \in Hosts, NEW pc \in Pcs, Go(h, pc)
    PROVE  /\ frame' \in [Hosts -> Frames]
           /\ frame'[h].pc = pc /\ frame'[h].seen = frame[h].seen
           /\ frame'[h].claimed = frame[h].claimed
           /\ \A g \in Hosts : g # h => frame'[g] = frame[g]
  BY Zenon DEF TypeOK, Go, Frames

\* A host that returns is idle; the others stand.
LEMMA ReturnFacts ==
    ASSUME TypeOK, NEW h \in Hosts, Return(h)
    PROVE  /\ frame' \in [Hosts -> Frames]
           /\ frame'[h] = Idle
           /\ \A g \in Hosts : g # h => frame'[g] = frame[g]
  BY Zenon, HostAssumption DEF TypeOK, Return, Frames, Idle, Pcs, Kinds, Observations, NoGit, Commits

\* A host that goes on with a new mark, claim flag or observation; the others
\* stand.
LEMMA GoWithFacts ==
    ASSUME TypeOK, NEW h \in Hosts, NEW pc \in Pcs
    PROVE  /\ \A m \in Nat : frame' = [frame EXCEPT ![h].pc = pc, ![h].mark = m] =>
                  /\ frame' \in [Hosts -> Frames] /\ frame'[h].pc = pc
                  /\ \A g \in Hosts : g # h => frame'[g] = frame[g]
           /\ \A b \in BOOLEAN : frame' = [frame EXCEPT ![h].pc = pc, ![h].claimed = b] =>
                  /\ frame' \in [Hosts -> Frames] /\ frame'[h].pc = pc
                  /\ \A g \in Hosts : g # h => frame'[g] = frame[g]
           /\ \A o \in Observations : frame' = [frame EXCEPT ![h].pc = pc, ![h].seen = o] =>
                  /\ frame' \in [Hosts -> Frames] /\ frame'[h].pc = pc /\ frame'[h].seen = o
                  /\ \A g \in Hosts : g # h => frame'[g] = frame[g]
  <1>1. frame \in [Hosts -> Frames] /\ frame[h] \in Frames
    BY Zenon DEF TypeOK, Frames
  <1>2. ASSUME NEW m \in Nat, frame' = [frame EXCEPT ![h].pc = pc, ![h].mark = m]
        PROVE  /\ frame' \in [Hosts -> Frames] /\ frame'[h].pc = pc
               /\ \A g \in Hosts : g # h => frame'[g] = frame[g]
    <2>1. frame'[h] = [frame[h] EXCEPT !.pc = pc, !.mark = m]
      BY Zenon, <1>1, <1>2
    <2>2. frame'[h] \in Frames /\ frame'[h].pc = pc
      BY Zenon, <1>1, <2>1 DEF Frames
    <2>3. DOMAIN frame' = Hosts /\ \A g \in Hosts : g # h => frame'[g] = frame[g]
      BY Zenon, <1>1, <1>2
    <2> QED BY Zenon, <1>1, <1>2, <2>2, <2>3
  <1>3. ASSUME NEW b \in BOOLEAN, frame' = [frame EXCEPT ![h].pc = pc, ![h].claimed = b]
        PROVE  /\ frame' \in [Hosts -> Frames] /\ frame'[h].pc = pc
               /\ \A g \in Hosts : g # h => frame'[g] = frame[g]
    <2>1. frame'[h] = [frame[h] EXCEPT !.pc = pc, !.claimed = b]
      BY Zenon, <1>1, <1>3
    <2>2. frame'[h] \in Frames /\ frame'[h].pc = pc
      BY Zenon, <1>1, <2>1 DEF Frames
    <2>3. DOMAIN frame' = Hosts /\ \A g \in Hosts : g # h => frame'[g] = frame[g]
      BY Zenon, <1>1, <1>3
    <2> QED BY Zenon, <1>1, <1>3, <2>2, <2>3
  <1>4. ASSUME NEW o \in Observations, frame' = [frame EXCEPT ![h].pc = pc, ![h].seen = o]
        PROVE  /\ frame' \in [Hosts -> Frames] /\ frame'[h].pc = pc /\ frame'[h].seen = o
               /\ \A g \in Hosts : g # h => frame'[g] = frame[g]
    <2>1. frame'[h] = [frame[h] EXCEPT !.pc = pc, !.seen = o]
      BY Zenon, <1>1, <1>4
    <2>2. frame'[h] \in Frames /\ frame'[h].pc = pc /\ frame'[h].seen = o
      BY Zenon, <1>1, <2>1 DEF Frames
    <2>3. DOMAIN frame' = Hosts /\ \A g \in Hosts : g # h => frame'[g] = frame[g]
      BY Zenon, <1>1, <1>4
    <2> QED BY Zenon, <1>1, <1>4, <2>2, <2>3
  <1> QED BY Zenon, <1>2, <1>3, <1>4

\* Appending one event to a tape adds its kind and moves nothing.
LEMMA AppendFacts ==
    ASSUME TypeOK, NEW c \in Candidates, NEW kind \in EventKinds,
           tape' = [tape EXCEPT ![c] = Append(@, kind)]
    PROVE  /\ tape' \in [Candidates -> Seq(EventKinds)]
           /\ Len(tape'[c]) = Len(tape[c]) + 1
           /\ tape'[c][Len(tape[c]) + 1] = kind
           /\ \A i \in 1 .. Len(tape[c]) : tape'[c][i] = tape[c][i]
           /\ \A d \in Candidates : d # c => tape'[d] = tape[d]
  BY DEF TypeOK

\* A kind is on a tape after an append exactly if it was there or is the new one.
LEMMA AppendOnTape ==
    ASSUME TypeOK, NEW c \in Candidates, NEW kind \in EventKinds,
           tape' = [tape EXCEPT ![c] = Append(@, kind)]
    PROVE  \A d \in Candidates, k \in EventKinds :
               OnTape(d, k)' <=> OnTape(d, k) \/ (d = c /\ k = kind)
  <1>1. \A d \in Candidates : Len(tape[d]) \in Nat
    BY DEF TypeOK
  <1> SUFFICES ASSUME NEW d \in Candidates, NEW k \in EventKinds
               PROVE  OnTape(d, k)' <=> OnTape(d, k) \/ (d = c /\ k = kind)
    OBVIOUS
  <1>2. CASE d # c
    BY Zenon, <1>2, AppendFacts DEF OnTape
  <1>3. CASE d = c
    <2>1. /\ Len(tape'[c]) = Len(tape[c]) + 1
          /\ tape'[c][Len(tape[c]) + 1] = kind
          /\ \A i \in 1 .. Len(tape[c]) : tape'[c][i] = tape[c][i]
      BY Zenon, AppendFacts
    <2>2. ASSUME OnTape(c, k)' PROVE OnTape(c, k) \/ k = kind
      <3>1. PICK i \in 1 .. Len(tape'[c]) : tape'[c][i] = k
        BY Zenon, <2>2 DEF OnTape
      <3>2. i \in 1 .. Len(tape[c]) \/ i = Len(tape[c]) + 1
        BY <1>1, <2>1
      <3> QED BY Zenon, <2>1, <3>1, <3>2 DEF OnTape
    <2>3. ASSUME OnTape(c, k) \/ k = kind PROVE OnTape(c, k)'
      <3>1. 1 .. Len(tape[c]) \subseteq 1 .. Len(tape'[c])
            /\ Len(tape[c]) + 1 \in 1 .. Len(tape'[c])
        BY <1>1, <2>1
      <3> QED BY Zenon, <2>1, <2>3, <3>1 DEF OnTape
    <2> QED BY Zenon, <1>3, <2>2, <2>3
  <1> QED BY Zenon, <1>2, <1>3

\* A governed seal and a bare checkpoint both cover the whole prefix.
LEMMA SealCovers ==
    ASSUME NEW t \in Seq(EventKinds), NEW s \in Seq(Nat), Covered(s) <= Len(t)
    PROVE  /\ Sealed(t, s) \in Seq(Nat) /\ Covered(Sealed(t, s)) = Len(t)
           /\ Emitted(t, s) \in Seq(Nat) /\ Covered(Emitted(t, s)) = Len(t)
  <1> DEFINE longer == Append(s, Len(t))
  <1>1. /\ longer \in Seq(Nat) /\ Len(longer) = Len(s) + 1
        /\ longer[Len(s) + 1] = Len(t)
    OBVIOUS
  <1>2. longer # <<>>
    <2>1. Len(s) \in Nat /\ Len(<<>>) = 0
      OBVIOUS
    <2>2. Len(longer) # 0
      BY <1>1, <2>1
    <2> HIDE DEF longer
    <2> QED BY Zenon, <2>1, <2>2
  <1>3. Covered(longer) = Len(t)
    BY Zenon, <1>1, <1>2 DEF Covered
  <1> QED BY Zenon, <1>1, <1>3 DEF Sealed, Emitted, FullyCovered

\* The same of the checkpoint table, of which only one run changes.
LEMMA SealFacts ==
    ASSUME TypeOK, NEW c \in Candidates, Covered(ckpts[c]) <= Len(tape[c]),
           \/ ckpts' = [ckpts EXCEPT ![c] = Sealed(tape[c], @)]
           \/ ckpts' = [ckpts EXCEPT ![c] = Emitted(tape[c], @)]
    PROVE  /\ ckpts' \in [Candidates -> Seq(Nat)]
           /\ Covered(ckpts'[c]) = Len(tape[c])
           /\ \A d \in Candidates : d # c => ckpts'[d] = ckpts[d]
  <1>1. ckpts[c] \in Seq(Nat) /\ tape[c] \in Seq(EventKinds)
    BY Zenon DEF TypeOK
  <1>2. /\ Sealed(tape[c], ckpts[c]) \in Seq(Nat)
        /\ Covered(Sealed(tape[c], ckpts[c])) = Len(tape[c])
        /\ Emitted(tape[c], ckpts[c]) \in Seq(Nat)
        /\ Covered(Emitted(tape[c], ckpts[c])) = Len(tape[c])
    BY Zenon, <1>1, SealCovers
  <1> QED BY Zenon, <1>2 DEF TypeOK

-----------------------------------------------------------------------------
(* What a step leaves standing *)

\* A step that leaves the ledger, the receipts and the entries alone disturbs
\* nothing that the rows rest on.
LEMMA RowsKept ==
    ASSUME PInv, UNCHANGED <<ledger, receipts, entries>>
    PROVE  /\ \A c \in Candidates : RowInv(c)'
           /\ GitEnteredOnce' /\ Grows
           /\ \A c \in Candidates : Entered(c)' => Entered(c)
  <1>1. /\ tape' = tape /\ ckpts' = ckpts /\ decision' = decision
        /\ claim' = claim /\ result' = result /\ receipts' = receipts /\ entries' = entries
    BY Zenon DEF ledger
  <1>2. \A c \in Candidates : Entered(c)' <=> Entered(c)
    BY Zenon, <1>1 DEF Entered
  <1>3. \A c \in Candidates : RowInv(c)' <=> RowInv(c)
    BY <1>1 DEF RowInv, OnTape, Entered, ClaimCovered
  <1>4. GitEnteredOnce'
    BY Zenon, <1>1 DEF PInv, GitEnteredOnce
  <1>5. Grows
    BY Zenon, <1>1, <1>2 DEF Grows
  <1> QED BY Zenon, <1>2, <1>3, <1>4, <1>5 DEF PInv

\* What a host relies on survives every step that is not its own.
LEMMA FrameKept ==
    ASSUME PInv, Grows, NEW g \in Hosts, frame'[g] = frame[g],
           frame[g].pc = "seal_claim" => ~Entered(RunOf[g])'
    PROVE  FrameInv(g)'
  <1> DEFINE c == RunOf[g]
  <1>1. c \in Candidates
    BY Zenon, HostRun
  <1>2. FrameInv(g)
    BY Zenon DEF PInv
  <1>3. /\ decision[c] # Absent =>
               decision'[c] # Absent /\ decision'[c].kind = decision[c].kind
        /\ claim[c] # Absent => claim'[c] = claim[c]
        /\ result[c] # Absent => result'[c] = result[c]
        /\ c \in receipts => c \in receipts'
        /\ Entered(c) => Entered(c)'
    BY Zenon, <1>1 DEF Grows
  <1> QED BY Zenon, <1>2, <1>3 DEF FrameInv

\* A step of one host h that enters nothing into Git and takes no claim.
LEMMA HostStepInv ==
    ASSUME PInv, NEW h \in Hosts, TypeOK', Grows,
           \A c \in Candidates : RowInv(c)',
           \A c \in Candidates : Entered(c)' => Entered(c),
           GitEnteredOnce', FrameInv(h)', frame'[h].pc # "seal_claim",
           \A g \in Hosts : g # h => frame'[g] = frame[g]
    PROVE  PInv'
  <1>1. \A g \in Hosts : FrameInv(g)'
    <2> SUFFICES ASSUME NEW g \in Hosts, g # h PROVE FrameInv(g)'
      OBVIOUS
    <2>1. frame[g].pc = "seal_claim" => ~Entered(RunOf[g])'
      BY Zenon, HostRun DEF PInv, FrameInv
    <2> QED BY Zenon, <2>1, FrameKept
  <1>2. OneUnsealedClaim'
    BY Zenon DEF PInv, OneUnsealedClaim
  <1> QED BY Zenon, <1>1, <1>2 DEF PInv

\* A step that only moves host h to another point of its request.
LEMMA FrameStepInv ==
    ASSUME PInv, NEW h \in Hosts, UNCHANGED <<now, ledger, git, entries, spent>>,
           frame' \in [Hosts -> Frames], FrameInv(h)', frame'[h].pc # "seal_claim",
           \A g \in Hosts : g # h => frame'[g] = frame[g]
    PROVE  PInv'
  <1>1. UNCHANGED <<ledger, receipts, entries>>
    BY Zenon DEF git
  <1>2. TypeOK'
    BY Zenon DEF PInv, TypeOK, ledger, git, Frames
  <1>3. /\ \A c \in Candidates : RowInv(c)'
        /\ GitEnteredOnce' /\ Grows
        /\ \A c \in Candidates : Entered(c)' => Entered(c)
    BY Zenon, <1>1, RowsKept
  <1> QED BY Zenon, <1>2, <1>3, HostStepInv

\* Returning is always safe for the host that returns.
LEMMA IdleInv ==
    ASSUME NEW h \in Hosts, frame'[h] = Idle
    PROVE  FrameInv(h)' /\ frame'[h].pc # "seal_claim"
  BY DEF FrameInv, Idle, SealPcs, GitPcs

-----------------------------------------------------------------------------
(* Steps that read and move on *)

\* Reading the waiting approval only moves the host.
LEMMA ReceiveDecisionInv ==
    ASSUME PInv, NEW h \in Hosts, NEW kind \in Kinds, ReceiveDecision(h, kind)
    PROVE  PInv'
  <1>1. /\ frame' \in [Hosts -> Frames] /\ frame'[h].pc = "record_decision"
        /\ \A g \in Hosts : g # h => frame'[g] = frame[g]
    BY ZenonT(30) DEF PInv, TypeOK, ReceiveDecision, Frames, Pcs
  <1>2. FrameInv(h)'
    BY Zenon, <1>1 DEF FrameInv, SealPcs, GitPcs
  <1> QED BY Zenon, <1>1, <1>2, FrameStepInv DEF ReceiveDecision

\* Looking for a covering checkpoint only moves the host.
LEMMA SealDecisionInv ==
    ASSUME PInv, NEW h \in Hosts, SealDecision(h)
    PROVE  PInv'
  <1> DEFINE c == RunOf[h]
  <1>0. TypeOK /\ FrameInv(h) /\ frame[h].pc = "seal_decision"
    BY Zenon DEF PInv, SealDecision, At
  <1>1. decision[c] # Absent
    BY Zenon, <1>0 DEF FrameInv, SealPcs
  <1>2. CASE Return(h)
    BY Zenon, <1>0, <1>2, ReturnFacts, IdleInv, FrameStepInv DEF SealDecision
  <1>3. CASE Go(h, "emit_checkpoint")
    <2>1. /\ frame' \in [Hosts -> Frames] /\ frame'[h].pc = "emit_checkpoint"
          /\ \A g \in Hosts : g # h => frame'[g] = frame[g]
      BY Zenon, <1>0, <1>3, GoFacts DEF Pcs
    <2>2. FrameInv(h)'
      BY Zenon, <1>1, <2>1 DEF FrameInv, SealPcs, GitPcs, SealDecision, ledger
    <2> QED BY Zenon, <2>1, <2>2, FrameStepInv DEF SealDecision
  <1>4. CASE frame' = [frame EXCEPT ![h].pc = "mark_sealed", ![h].mark = Len(ckpts[c])]
    <2>1. /\ frame' \in [Hosts -> Frames] /\ frame'[h].pc = "mark_sealed"
          /\ \A g \in Hosts : g # h => frame'[g] = frame[g]
      <3>1. Len(ckpts[c]) \in Nat
        BY <1>0, HostRun DEF TypeOK
      <3>2. "mark_sealed" \in Pcs
        BY Zenon DEF Pcs
      <3> QED BY Zenon, <1>0, <1>4, <3>1, <3>2, GoWithFacts
    <2>2. FrameInv(h)'
      BY Zenon, <1>1, <2>1 DEF FrameInv, SealPcs, GitPcs, SealDecision, ledger
    <2> QED BY Zenon, <2>1, <2>2, FrameStepInv DEF SealDecision
  <1> QED BY Zenon, <1>2, <1>3, <1>4 DEF SealDecision

\* Checking the emitted checkpoint only moves the host.
LEMMA CheckCoveringInv ==
    ASSUME PInv, NEW h \in Hosts, CheckCovering(h)
    PROVE  PInv'
  <1>0. TypeOK /\ FrameInv(h) /\ frame[h].pc = "check_covering"
    BY Zenon DEF PInv, CheckCovering, At
  <1>1. decision[RunOf[h]] # Absent
    BY Zenon, <1>0 DEF FrameInv, SealPcs
  <1>2. CASE Return(h)
    BY Zenon, <1>0, <1>2, ReturnFacts, IdleInv, FrameStepInv DEF CheckCovering
  <1>3. CASE Go(h, "mark_sealed")
    <2>1. /\ frame' \in [Hosts -> Frames] /\ frame'[h].pc = "mark_sealed"
          /\ \A g \in Hosts : g # h => frame'[g] = frame[g]
      BY Zenon, <1>0, <1>3, GoFacts DEF Pcs
    <2>2. FrameInv(h)'
      BY Zenon, <1>1, <2>1 DEF FrameInv, SealPcs, GitPcs, CheckCovering, ledger
    <2> QED BY Zenon, <2>1, <2>2, FrameStepInv DEF CheckCovering
  <1> QED BY Zenon, <1>2, <1>3 DEF CheckCovering

\* Routing an execution request finds the decision row behind the tape.
LEMMA ReceiveExecutionInv ==
    ASSUME PInv, NEW h \in Hosts, ReceiveExecution(h)
    PROVE  PInv'
  <1> DEFINE c == RunOf[h]
  <1>0. TypeOK /\ FrameInv(h) /\ frame[h].pc = "idle" /\ RowInv(c)
    BY Zenon, HostRun DEF PInv, ReceiveExecution, At
  <1>1. frame[h].seen = NoGit
    BY <1>0 DEF FrameInv, Idle
  <1>2. decision[c] # Absent
    BY Zenon, <1>0 DEF RowInv, ReceiveExecution
  <1>3. CASE decision[c].kind = "reject"
    <2>1. /\ frame' \in [Hosts -> Frames] /\ frame'[h].pc = "record_result"
          /\ frame'[h].seen = NoGit
          /\ \A g \in Hosts : g # h => frame'[g] = frame[g]
      BY Zenon, <1>0, <1>1, <1>3, GoFacts DEF ReceiveExecution, Pcs
    <2>2. FrameInv(h)'
      BY Zenon, <1>2, <1>3, <2>1 DEF FrameInv, SealPcs, GitPcs, ReceiveExecution, ledger
    <2> QED BY Zenon, <2>1, <2>2, FrameStepInv DEF ReceiveExecution
  <1>4. CASE decision[c].kind # "reject"
    <2>0. OnTape(c, "promotion_execution_claimed") \in BOOLEAN
      BY Zenon DEF OnTape
    <2>1. /\ frame' \in [Hosts -> Frames] /\ frame'[h].pc = "claim"
          /\ \A g \in Hosts : g # h => frame'[g] = frame[g]
      <3>1. "claim" \in Pcs
        BY Zenon DEF Pcs
      <3>2. frame' = [frame EXCEPT ![h].pc = "claim",
                             ![h].claimed = OnTape(c, "promotion_execution_claimed")]
        BY Zenon, <1>4 DEF ReceiveExecution
      <3> HIDE DEF c
      <3> QED BY Zenon, <1>0, <2>0, <3>1, <3>2, GoWithFacts
    <2>2. FrameInv(h)'
      BY Zenon, <2>1 DEF FrameInv, SealPcs, GitPcs
    <2> QED BY Zenon, <2>1, <2>2, FrameStepInv DEF ReceiveExecution
  <1> QED BY Zenon, <1>3, <1>4

\* Reading the refs only moves a host that has entered Git.
LEMMA GitInspectInv ==
    ASSUME PInv, NEW h \in Hosts, GitInspect(h)
    PROVE  PInv'
  <1>0. TypeOK /\ FrameInv(h) /\ frame[h].pc = "git_inspect"
    BY Zenon DEF PInv, GitInspect, At
  <1>1. Entered(RunOf[h]) /\ entries' = entries
    BY Zenon, <1>0 DEF FrameInv, GitPcs, GitInspect
  <1>2. CASE Return(h)
    BY Zenon, <1>0, <1>2, ReturnFacts, IdleInv, FrameStepInv DEF GitInspect
  <1>3. ASSUME NEW pc \in {"git_observe", "git_advance"}, Go(h, pc) PROVE PInv'
    <2>1. /\ frame' \in [Hosts -> Frames] /\ frame'[h].pc = pc
          /\ \A g \in Hosts : g # h => frame'[g] = frame[g]
      BY Zenon, <1>0, <1>3, GoFacts DEF Pcs
    <2>2. FrameInv(h)'
      BY Zenon, <1>1, <2>1 DEF FrameInv, SealPcs, GitPcs, Entered
    <2> QED BY Zenon, <2>1, <2>2, FrameStepInv DEF GitInspect
  <1> QED BY Zenon, <1>2, <1>3 DEF GitInspect

\* An observation is taken only under the receipt it speaks of.
LEMMA GitObserveInv ==
    ASSUME PInv, NEW h \in Hosts, GitObserve(h)
    PROVE  PInv'
  <1> DEFINE c == RunOf[h]
  <1>0. TypeOK /\ c \in Candidates /\ frame[h].pc = "git_observe"
    BY Zenon, HostRun DEF PInv, GitObserve, At
  <1>1. CASE c \notin receipts
    BY Zenon, <1>0, <1>1, ReturnFacts, IdleInv, FrameStepInv DEF GitObserve
  <1>2. CASE c \in receipts
    <2>1. /\ Observed(c) \in Observations /\ Observed(c) # NoGit
          /\ Observed(c).sync = "none" <=> Observed(c) = [head |-> c, sync |-> "none"]
      BY Zenon, <1>0 DEF Observed, Observations, NoGit, TypeOK
    <2>2. /\ frame' \in [Hosts -> Frames] /\ frame'[h].pc = "record_result"
          /\ frame'[h].seen = Observed(c)
          /\ \A g \in Hosts : g # h => frame'[g] = frame[g]
      <3>1. "record_result" \in Pcs
        BY Zenon DEF Pcs
      <3>2. frame' = [frame EXCEPT ![h].pc = "record_result", ![h].seen = Observed(c)]
        BY Zenon, <1>2 DEF GitObserve
      <3> QED BY Zenon, <1>0, <2>1, <3>1, <3>2, GoWithFacts
    <2>3. FrameInv(h)'
      BY Zenon, <1>2, <2>1, <2>2 DEF FrameInv, SealPcs, GitPcs, GitObserve, git
    <2> QED BY Zenon, <2>2, <2>3, FrameStepInv DEF GitObserve
  <1> QED BY Zenon, <1>1, <1>2

\* The trusted snapshot of an unresolved result only moves the host.
LEMMA ReceiveAbandonInv ==
    ASSUME PInv, NEW h \in Hosts, ReceiveAbandon(h)
    PROVE  PInv'
  <1>0. TypeOK /\ Go(h, "reobserve") /\ "reobserve" \in Pcs
    BY Zenon DEF PInv, ReceiveAbandon, Pcs
  <1>1. /\ frame' \in [Hosts -> Frames] /\ frame'[h].pc = "reobserve"
        /\ \A g \in Hosts : g # h => frame'[g] = frame[g]
    BY Zenon, <1>0, GoFacts
  <1>2. FrameInv(h)'
    BY Zenon, <1>1 DEF FrameInv, SealPcs, GitPcs, ReceiveAbandon, ledger
  <1> QED BY Zenon, <1>1, <1>2, FrameStepInv DEF ReceiveAbandon

\* Repeating the observation only moves the host.
LEMMA ReobserveInv ==
    ASSUME PInv, NEW h \in Hosts, Reobserve(h)
    PROVE  PInv'
  <1>0. TypeOK /\ FrameInv(h) /\ frame[h].pc = "reobserve"
    BY Zenon DEF PInv, Reobserve, At
  <1>1. CASE Return(h)
    BY Zenon, <1>0, <1>1, ReturnFacts, IdleInv, FrameStepInv DEF Reobserve
  <1>2. CASE Go(h, "record_abandon")
    <2>1. /\ frame' \in [Hosts -> Frames] /\ frame'[h].pc = "record_abandon"
          /\ \A g \in Hosts : g # h => frame'[g] = frame[g]
      BY Zenon, <1>0, <1>2, GoFacts DEF Pcs
    <2>2. FrameInv(h)'
      BY Zenon, <1>0, <2>1 DEF FrameInv, SealPcs, GitPcs, Reobserve, ledger
    <2> QED BY Zenon, <2>1, <2>2, FrameStepInv DEF Reobserve
  <1> QED BY Zenon, <1>1, <1>2 DEF Reobserve

-----------------------------------------------------------------------------
(* Crashes, the clock and other people's Git commands *)

\* Counting what was spent keeps the counters natural numbers.
LEMMA SpentFacts ==
    ASSUME TypeOK
    PROVE  /\ [spent EXCEPT !.pushes = @ + 1] \in [pushes : Nat, appends : Nat, crashes : Nat]
           /\ [spent EXCEPT !.appends = @ + 1] \in [pushes : Nat, appends : Nat, crashes : Nat]
           /\ [spent EXCEPT !.crashes = @ + 1] \in [pushes : Nat, appends : Nat, crashes : Nat]
  BY DEF TypeOK

\* A step of nobody's frame.
LEMMA EnvironmentInv ==
    ASSUME PInv, TypeOK', Grows, frame' = frame,
           \A c \in Candidates : RowInv(c)',
           \A c \in Candidates : Entered(c)' => Entered(c),
           GitEnteredOnce'
    PROVE  PInv'
  <1>1. \A g \in Hosts : FrameInv(g)'
    <2> SUFFICES ASSUME NEW g \in Hosts PROVE FrameInv(g)'
      OBVIOUS
    <2>1. frame[g].pc = "seal_claim" => ~Entered(RunOf[g])'
      BY Zenon, HostRun DEF PInv, FrameInv
    <2> QED BY Zenon, <2>1, FrameKept
  <1>2. OneUnsealedClaim'
    BY Zenon DEF PInv, OneUnsealedClaim
  <1> QED BY Zenon, <1>1, <1>2 DEF PInv

\* A host that dies leaves an idle frame behind and nothing else.
LEMMA CrashInv ==
    ASSUME PInv, NEW h \in Hosts, Crash(h)
    PROVE  PInv'
  <1>0. TypeOK
    BY Zenon DEF PInv
  <1>1. /\ frame' \in [Hosts -> Frames] /\ frame'[h] = Idle
        /\ \A g \in Hosts : g # h => frame'[g] = frame[g]
    BY Zenon, <1>0, ReturnFacts DEF Crash
  <1>2. TypeOK'
    <2>1. spent' \in [pushes : Nat, appends : Nat, crashes : Nat]
      BY Zenon, <1>0, SpentFacts DEF Crash
    <2> QED BY Zenon, <1>0, <1>1, <2>1 DEF Crash, TypeOK, ledger, git, Frames
  <1>3. UNCHANGED <<ledger, receipts, entries>>
    BY Zenon DEF Crash, git
  <1> QED BY Zenon, <1>1, <1>2, <1>3, RowsKept, IdleInv, HostStepInv

\* The clock moves nothing but the clock.
LEMMA TickInv ==
    ASSUME PInv, Tick
    PROVE  PInv'
  <1>1. TypeOK'
    BY DEF PInv, Tick, TypeOK, ledger, git
  <1>2. UNCHANGED <<ledger, receipts, entries>> /\ frame' = frame
    BY Zenon DEF Tick, git
  <1> QED BY Zenon, <1>1, <1>2, RowsKept, EnvironmentInv

\* A push or a checkout moves neither receipts nor rows.
LEMMA PushInv ==
    ASSUME PInv, Checkout \/ \E commit \in receipts \cup {Base, Foreign} : Push(commit)
    PROVE  PInv'
  <1>0. TypeOK
    BY Zenon DEF PInv
  <1>1. target' \in Commits /\ checkedOut' \in BOOLEAN
    BY Zenon, <1>0 DEF Checkout, Push, TypeOK, Commits
  <1>2. spent' \in [pushes : Nat, appends : Nat, crashes : Nat]
    BY Zenon, <1>0, SpentFacts DEF Checkout, Push
  <1>3. UNCHANGED <<now, ledger, receipts, entries>> /\ frame' = frame
    BY Zenon DEF Checkout, Push
  <1>4. TypeOK'
    BY Zenon, <1>0, <1>1, <1>2, <1>3 DEF TypeOK, ledger
  <1> QED BY Zenon, <1>3, <1>4, RowsKept, EnvironmentInv

-----------------------------------------------------------------------------
(* Sealing *)

\* One more checkpoint over the whole prefix takes nothing out of cover.
LEMMA SealKeepsRows ==
    ASSUME PInv, NEW c \in Candidates,
           \/ ckpts' = [ckpts EXCEPT ![c] = Sealed(tape[c], @)]
           \/ ckpts' = [ckpts EXCEPT ![c] = Emitted(tape[c], @)],
           UNCHANGED <<tape, decision, claim, result, receipts, entries>>
    PROVE  /\ \A d \in Candidates : RowInv(d)'
           /\ GitEnteredOnce' /\ Grows
           /\ \A d \in Candidates : Entered(d)' => Entered(d)
           /\ ckpts' \in [Candidates -> Seq(Nat)]
  <1>0. TypeOK /\ RowInv(c)
    BY Zenon DEF PInv
  <1>1. /\ ckpts' \in [Candidates -> Seq(Nat)]
        /\ Covered(ckpts'[c]) = Len(tape[c])
        /\ \A d \in Candidates : d # c => ckpts'[d] = ckpts[d]
    BY Zenon, <1>0, SealFacts DEF RowInv
  <1>2. \A d \in Candidates : Entered(d)' <=> Entered(d)
    BY Zenon DEF Entered
  <1>3. \A d \in Candidates, k \in EventKinds : OnTape(d, k)' <=> OnTape(d, k)
    BY Zenon DEF OnTape
  <1>4. \A d \in Candidates : RowInv(d)'
    <2> SUFFICES ASSUME NEW d \in Candidates PROVE RowInv(d)'
      OBVIOUS
    <2>1. CASE d # c
      <3>1. /\ RowInv(d) /\ ckpts'[d] = ckpts[d] /\ tape'[d] = tape[d]
            /\ decision'[d] = decision[d] /\ claim'[d] = claim[d] /\ result'[d] = result[d]
        BY Zenon, <1>1, <2>1 DEF PInv
      <3>2. ClaimCovered(d)' <=> ClaimCovered(d)
        BY Zenon, <3>1 DEF ClaimCovered
      <3> QED BY Zenon, <1>2, <3>1, <3>2 DEF RowInv, OnTape
    <2>2. CASE d = c
      <3>1. ClaimCovered(c) => ClaimCovered(c)'
        <4>1. Covered(ckpts[c]) <= Len(tape[c]) /\ Len(tape[c]) \in Nat
          BY <1>0 DEF RowInv, TypeOK
        <4>2. Covered(ckpts[c]) \in Nat
          BY <1>0 DEF Covered, TypeOK
        <4>3. 1 .. Covered(ckpts[c]) \subseteq 1 .. Covered(ckpts'[c])
          BY <1>1, <4>1, <4>2
        <4> QED BY Zenon, <4>3 DEF ClaimCovered
      <3>2. Covered(ckpts'[c]) <= Len(tape'[c])
        BY <1>0, <1>1 DEF TypeOK
      <3> QED BY Zenon, <1>0, <1>2, <2>2, <3>1, <3>2 DEF RowInv, OnTape
    <2> QED BY Zenon, <2>1, <2>2
  <1>5. GitEnteredOnce' /\ Grows
    BY Zenon, <1>2 DEF PInv, GitEnteredOnce, Grows
  <1> QED BY Zenon, <1>1, <1>2, <1>4, <1>5

\* The bare checkpoint of a decision's seal.
LEMMA EmitCheckpointInv ==
    ASSUME PInv, NEW h \in Hosts, EmitCheckpoint(h)
    PROVE  PInv'
  <1> DEFINE c == RunOf[h]
  <1>0. TypeOK /\ FrameInv(h) /\ c \in Candidates /\ frame[h].pc = "emit_checkpoint"
    BY Zenon, HostRun DEF PInv, EmitCheckpoint, At
  <1>1. /\ frame' \in [Hosts -> Frames] /\ frame'[h].pc = "check_covering"
        /\ \A g \in Hosts : g # h => frame'[g] = frame[g]
    <2>1. "check_covering" \in Pcs /\ Len(ckpts[c]) + 1 \in Nat
      BY <1>0 DEF Pcs, TypeOK
    <2>2. frame' = [frame EXCEPT ![h].pc = "check_covering", ![h].mark = Len(ckpts[c]) + 1]
      BY Zenon DEF EmitCheckpoint
    <2> QED BY Zenon, <1>0, <2>1, <2>2, GoWithFacts
  <1>2. FrameInv(h)'
    BY Zenon, <1>0, <1>1 DEF FrameInv, SealPcs, GitPcs, EmitCheckpoint
  <1>3. UNCHANGED <<tape, decision, claim, result, receipts, entries>>
    BY Zenon DEF EmitCheckpoint, git
  <1>4. /\ \A d \in Candidates : RowInv(d)'
        /\ GitEnteredOnce' /\ Grows
        /\ \A d \in Candidates : Entered(d)' => Entered(d)
        /\ ckpts' \in [Candidates -> Seq(Nat)]
    BY Zenon, <1>0, <1>3, SealKeepsRows DEF EmitCheckpoint
  <1>5. TypeOK'
    BY Zenon, <1>0, <1>1, <1>4 DEF EmitCheckpoint, TypeOK, git, Frames
  <1> QED BY Zenon, <1>1, <1>2, <1>4, <1>5, HostStepInv

\* Sealing a result, after which only a final one goes on.
LEMMA SealResultInv ==
    ASSUME PInv, NEW h \in Hosts, SealResult(h)
    PROVE  PInv'
  <1> DEFINE c == RunOf[h]
  <1>0. TypeOK /\ FrameInv(h) /\ c \in Candidates /\ frame[h].pc = "seal_result"
    BY Zenon, HostRun DEF PInv, SealResult, At
  <1>1. CASE ~CanSeal(ckpts[c])
    <2>1. Return(h) /\ UNCHANGED <<now, ledger, git, entries, spent>>
      BY Zenon, <1>1 DEF SealResult, ledger
    <2> QED BY Zenon, <1>0, <2>1, ReturnFacts, IdleInv, FrameStepInv
  <1>2. CASE CanSeal(ckpts[c])
    <2>1. /\ frame' \in [Hosts -> Frames] /\ frame'[h].pc # "seal_claim" /\ FrameInv(h)'
          /\ \A g \in Hosts : g # h => frame'[g] = frame[g]
      <3>1. CASE Return(h)
        BY Zenon, <1>0, <3>1, ReturnFacts, IdleInv
      <3>2. CASE Go(h, "record_terminal")
        <4>1. /\ frame' \in [Hosts -> Frames] /\ frame'[h].pc = "record_terminal"
              /\ \A g \in Hosts : g # h => frame'[g] = frame[g]
          BY Zenon, <1>0, <3>2, GoFacts DEF Pcs
        <4> QED BY Zenon, <1>0, <4>1 DEF FrameInv, SealPcs, GitPcs, SealResult
      <3> QED BY Zenon, <1>2, <3>1, <3>2 DEF SealResult
    <2>2. UNCHANGED <<tape, decision, claim, result, receipts, entries>>
      BY Zenon DEF SealResult, git
    <2>3. /\ \A d \in Candidates : RowInv(d)'
          /\ GitEnteredOnce' /\ Grows
          /\ \A d \in Candidates : Entered(d)' => Entered(d)
          /\ ckpts' \in [Candidates -> Seq(Nat)]
      BY Zenon, <1>0, <1>2, <2>2, SealKeepsRows DEF SealResult
    <2>4. TypeOK'
      BY Zenon, <1>0, <2>1, <2>3 DEF SealResult, TypeOK, git, Frames
    <2> QED BY Zenon, <2>1, <2>3, <2>4, HostStepInv
  <1> QED BY Zenon, <1>1, <1>2

\* Sealing the workflow terminal ends the request.
LEMMA SealTerminalInv ==
    ASSUME PInv, NEW h \in Hosts, SealTerminal(h)
    PROVE  PInv'
  <1> DEFINE c == RunOf[h]
  <1>0. TypeOK /\ c \in Candidates /\ Return(h)
    BY Zenon, HostRun DEF PInv, SealTerminal
  <1>1. CASE ~CanSeal(ckpts[c])
    <2>1. UNCHANGED <<now, ledger, git, entries, spent>>
      BY Zenon, <1>1 DEF SealTerminal, ledger
    <2> QED BY Zenon, <1>0, <2>1, ReturnFacts, IdleInv, FrameStepInv
  <1>2. CASE CanSeal(ckpts[c])
    <2>1. /\ frame' \in [Hosts -> Frames] /\ frame'[h] = Idle
          /\ \A g \in Hosts : g # h => frame'[g] = frame[g]
      BY Zenon, <1>0, ReturnFacts
    <2>2. UNCHANGED <<tape, decision, claim, result, receipts, entries>>
      BY Zenon DEF SealTerminal, git
    <2>3. /\ \A d \in Candidates : RowInv(d)'
          /\ GitEnteredOnce' /\ Grows
          /\ \A d \in Candidates : Entered(d)' => Entered(d)
          /\ ckpts' \in [Candidates -> Seq(Nat)]
      BY Zenon, <1>0, <1>2, <2>2, SealKeepsRows DEF SealTerminal
    <2>4. TypeOK'
      BY Zenon, <1>0, <2>1, <2>3 DEF SealTerminal, TypeOK, git, Frames
    <2> QED BY Zenon, <2>1, <2>3, <2>4, IdleInv, HostStepInv
  <1> QED BY Zenon, <1>1, <1>2

\* A serve session seals the prefix of a run.
LEMMA ServeSealInv ==
    ASSUME PInv, NEW c \in Candidates, ServeSeal(c)
    PROVE  PInv'
  <1>0. TypeOK
    BY Zenon DEF PInv
  <1>1. UNCHANGED <<tape, decision, claim, result, receipts, entries>> /\ frame' = frame
    BY Zenon DEF ServeSeal, git
  <1>2. /\ \A d \in Candidates : RowInv(d)'
        /\ GitEnteredOnce' /\ Grows
        /\ \A d \in Candidates : Entered(d)' => Entered(d)
        /\ ckpts' \in [Candidates -> Seq(Nat)]
    BY Zenon, <1>1, SealKeepsRows DEF ServeSeal
  <1>3. spent' \in [pushes : Nat, appends : Nat, crashes : Nat]
    BY Zenon, <1>0, SpentFacts DEF ServeSeal
  <1>4. TypeOK'
    BY Zenon, <1>0, <1>2, <1>3 DEF ServeSeal, TypeOK, git
  <1> QED BY Zenon, <1>1, <1>2, <1>4, EnvironmentInv

-----------------------------------------------------------------------------
(* Entering Git *)

\* One more entry: the old ones keep their places.
LEMMA EntryFacts ==
    ASSUME TypeOK, NEW c \in Candidates, entries' = Append(entries, c)
    PROVE  /\ entries' \in Seq(Candidates)
           /\ \A d \in Candidates : Entered(d)' <=> Entered(d) \/ d = c
           /\ GitEnteredOnce /\ ~Entered(c) => GitEnteredOnce'
  <1>1. /\ entries' \in Seq(Candidates) /\ Len(entries) \in Nat
        /\ Len(entries') = Len(entries) + 1 /\ entries'[Len(entries) + 1] = c
        /\ \A i \in 1 .. Len(entries) : entries'[i] = entries[i]
    BY DEF TypeOK
  <1>2. \A i \in 1 .. Len(entries') : i \in 1 .. Len(entries) \/ i = Len(entries) + 1
    BY <1>1
  <1>3. 1 .. Len(entries) \subseteq 1 .. Len(entries') /\ Len(entries) + 1 \in 1 .. Len(entries')
    BY <1>1
  <1>4. \A d \in Candidates : Entered(d)' => Entered(d) \/ d = c
    BY Zenon, <1>1, <1>2 DEF Entered
  <1>5. \A d \in Candidates : Entered(d) \/ d = c => Entered(d)'
    BY Zenon, <1>1, <1>3 DEF Entered
  <1>6. ASSUME GitEnteredOnce, ~Entered(c) PROVE GitEnteredOnce'
    BY <1>1, <1>2, <1>6 DEF GitEnteredOnce, Entered
  <1> QED BY Zenon, <1>1, <1>4, <1>5, <1>6

\* The one step that lets a grant into Git: only the host that holds the fresh
\* claim takes it, and only once the claim is under a checkpoint.
LEMMA SealClaimInv ==
    ASSUME PInv, NEW h \in Hosts, SealClaim(h)
    PROVE  PInv'
  <1> DEFINE c == RunOf[h]
  <1>0. TypeOK /\ FrameInv(h) /\ RowInv(c) /\ c \in Candidates /\ frame[h].pc = "seal_claim"
    BY Zenon, HostRun DEF PInv, SealClaim, At
  <1>1. claim[c] # Absent /\ ~Entered(c)
    BY Zenon, <1>0 DEF FrameInv
  <1>2. CASE ~CanSeal(ckpts[c])
    <2>1. Return(h) /\ UNCHANGED <<now, ledger, git, entries, spent>>
      BY Zenon, <1>2 DEF SealClaim, ledger
    <2> QED BY Zenon, <1>0, <2>1, ReturnFacts, IdleInv, FrameStepInv
  <1>3. CASE CanSeal(ckpts[c]) /\ frame[h].claimed
    <2>1. Return(h) /\ UNCHANGED <<tape, decision, claim, result, receipts, entries>>
      BY Zenon, <1>3 DEF SealClaim, git
    <2>2. /\ frame' \in [Hosts -> Frames] /\ frame'[h] = Idle
          /\ \A g \in Hosts : g # h => frame'[g] = frame[g]
      BY Zenon, <1>0, <2>1, ReturnFacts
    <2>3. /\ \A d \in Candidates : RowInv(d)'
          /\ GitEnteredOnce' /\ Grows
          /\ \A d \in Candidates : Entered(d)' => Entered(d)
          /\ ckpts' \in [Candidates -> Seq(Nat)]
      BY Zenon, <1>0, <1>3, <2>1, SealKeepsRows DEF SealClaim
    <2>4. TypeOK'
      BY Zenon, <1>0, <2>1, <2>2, <2>3 DEF SealClaim, TypeOK, git, Frames
    <2> QED BY Zenon, <2>2, <2>3, <2>4, IdleInv, HostStepInv
  <1>4. CASE CanSeal(ckpts[c]) /\ ~frame[h].claimed
    <2>1. /\ Go(h, "git_inspect") /\ entries' = Append(entries, c)
          /\ ckpts' = [ckpts EXCEPT ![c] = Sealed(tape[c], @)]
          /\ UNCHANGED <<tape, decision, claim, result, receipts>>
      BY Zenon, <1>4 DEF SealClaim, git
    <2>2. /\ frame' \in [Hosts -> Frames] /\ frame'[h].pc = "git_inspect"
          /\ \A g \in Hosts : g # h => frame'[g] = frame[g]
      BY Zenon, <1>0, <2>1, GoFacts DEF Pcs
    <2>3. /\ entries' \in Seq(Candidates) /\ GitEnteredOnce'
          /\ \A d \in Candidates : Entered(d)' <=> Entered(d) \/ d = c
      BY Zenon, <1>0, <1>1, <2>1, EntryFacts DEF PInv
    <2>4. /\ ckpts' \in [Candidates -> Seq(Nat)]
          /\ Covered(ckpts'[c]) = Len(tape[c])
          /\ \A d \in Candidates : d # c => ckpts'[d] = ckpts[d]
      BY Zenon, <1>0, <2>1, SealFacts DEF RowInv
    <2>5. TypeOK'
      BY Zenon, <1>0, <2>2, <2>3, <2>4 DEF SealClaim, TypeOK, git, Frames
    <2>6. ASSUME NEW d \in Candidates PROVE RowInv(d)'
      <3>1. CASE d # c
        <4>1. /\ RowInv(d) /\ ckpts'[d] = ckpts[d] /\ tape'[d] = tape[d]
              /\ decision'[d] = decision[d] /\ claim'[d] = claim[d] /\ result'[d] = result[d]
          BY Zenon, <2>1, <2>4, <3>1 DEF PInv
        <4>2. (ClaimCovered(d)' <=> ClaimCovered(d)) /\ (Entered(d)' <=> Entered(d))
          BY Zenon, <2>3, <3>1, <4>1 DEF ClaimCovered
        <4> QED BY Zenon, <2>1, <4>1, <4>2 DEF RowInv, OnTape
      <3>2. CASE d = c
        <4>1. ClaimCovered(c)'
          BY Zenon, <1>0, <1>1, <2>1, <2>4 DEF RowInv, OnTape, ClaimCovered
        <4>2. Covered(ckpts'[c]) <= Len(tape'[c]) /\ Entered(c)'
          BY <1>0, <2>1, <2>3, <2>4 DEF TypeOK
        <4> QED BY Zenon, <1>0, <1>1, <2>1, <3>2, <4>1, <4>2 DEF RowInv, OnTape
      <3> QED BY Zenon, <3>1, <3>2
    <2>7. Grows
      BY Zenon, <2>1, <2>3 DEF Grows
    <2>8. ASSUME NEW g \in Hosts PROVE FrameInv(g)'
      <3>1. CASE g = h
        BY Zenon, <2>2, <2>3, <1>0, <3>1 DEF FrameInv, SealPcs, GitPcs
      <3>2. CASE g # h
        <4>1. frame[g].pc = "seal_claim" => ~Entered(RunOf[g])'
          <5>1. frame[g].pc = "seal_claim" => RunOf[g] # c /\ ~Entered(RunOf[g])
            BY Zenon, <1>0, <3>2 DEF PInv, FrameInv, OneUnsealedClaim
          <5> QED BY Zenon, <2>3, <5>1, HostRun
        <4> QED BY Zenon, <2>2, <2>7, <3>2, <4>1, FrameKept
      <3> QED BY Zenon, <3>1, <3>2
    <2>9. OneUnsealedClaim'
      BY Zenon, <2>2 DEF PInv, OneUnsealedClaim
    <2> QED BY Zenon, <2>3, <2>5, <2>6, <2>8, <2>9 DEF PInv
  <1> QED BY Zenon, <1>2, <1>3, <1>4

\* The compare-and-swap writes a receipt only for a host that has entered Git.
LEMMA GitAdvanceInv ==
    ASSUME PInv, NEW h \in Hosts, GitAdvance(h)
    PROVE  PInv'
  <1> DEFINE c == RunOf[h]
  <1>0. TypeOK /\ FrameInv(h) /\ c \in Candidates /\ frame[h].pc = "git_advance"
    BY Zenon, HostRun DEF PInv, GitAdvance, At
  <1>1. Entered(c) /\ UNCHANGED <<ledger, entries>>
    BY Zenon, <1>0 DEF FrameInv, GitPcs, GitAdvance
  <1>2. /\ frame' \in [Hosts -> Frames] /\ frame'[h].pc = "git_observe"
        /\ \A g \in Hosts : g # h => frame'[g] = frame[g]
    BY Zenon, <1>0, GoFacts DEF Pcs, GitAdvance
  <1>3. /\ target' \in Commits /\ receipts' \subseteq Candidates
        /\ receipts \subseteq receipts' /\ receipts' \subseteq receipts \cup {c}
    BY Zenon, <1>0 DEF GitAdvance, TypeOK, Commits
  <1>4. \A d \in Candidates : Entered(d)' <=> Entered(d)
    BY Zenon, <1>1 DEF Entered
  <1>5. ASSUME NEW d \in Candidates PROVE RowInv(d)'
    <2>1. /\ RowInv(d) /\ tape' = tape /\ ckpts' = ckpts
          /\ decision' = decision /\ claim' = claim /\ result' = result
      BY Zenon, <1>1 DEF PInv, ledger
    <2>2. /\ d \in receipts => d \in receipts'
          /\ d \in receipts' => Entered(d)'
      BY Zenon, <1>1, <1>3, <1>4, <2>1 DEF RowInv
    <2>3. ClaimCovered(d)' <=> ClaimCovered(d)
      BY Zenon, <2>1 DEF ClaimCovered
    <2> QED BY Zenon, <1>4, <2>1, <2>2, <2>3 DEF RowInv, OnTape
  <1>6. Grows /\ GitEnteredOnce'
    BY Zenon, <1>1, <1>3, <1>4 DEF Grows, PInv, GitEnteredOnce, ledger
  <1>7. TypeOK'
    BY Zenon, <1>0, <1>2, <1>3 DEF GitAdvance, TypeOK, ledger, Frames
  <1>8. FrameInv(h)'
    BY Zenon, <1>1, <1>2, <1>4, <1>0 DEF FrameInv, SealPcs, GitPcs
  <1> QED BY Zenon, <1>2, <1>4, <1>5, <1>6, <1>7, <1>8, HostStepInv

-----------------------------------------------------------------------------
(* Writing events and rows *)

\* An append to one run leaves the other runs alone and its own cover in place.
LEMMA AppendKeepsRows ==
    ASSUME PInv, NEW c \in Candidates, NEW kind \in EventKinds,
           tape' = [tape EXCEPT ![c] = Append(@, kind)],
           UNCHANGED <<ckpts, receipts, entries>>,
           \A d \in Candidates : d # c =>
               decision'[d] = decision[d] /\ claim'[d] = claim[d] /\ result'[d] = result[d]
    PROVE  /\ \A d \in Candidates : d # c => RowInv(d)'
           /\ ClaimCovered(c) => ClaimCovered(c)'
           /\ Covered(ckpts'[c]) <= Len(tape'[c])
           /\ \A d \in Candidates : Entered(d)' <=> Entered(d)
           /\ GitEnteredOnce'
  <1>0. TypeOK /\ RowInv(c)
    BY Zenon DEF PInv
  <1>1. /\ Len(tape'[c]) = Len(tape[c]) + 1
        /\ \A i \in 1 .. Len(tape[c]) : tape'[c][i] = tape[c][i]
        /\ \A d \in Candidates : d # c => tape'[d] = tape[d]
    BY Zenon, <1>0, AppendFacts
  <1>2. Len(tape[c]) \in Nat /\ Covered(ckpts[c]) \in Nat /\ Covered(ckpts[c]) <= Len(tape[c])
    BY <1>0 DEF TypeOK, Covered, RowInv
  <1>3. \A d \in Candidates : Entered(d)' <=> Entered(d)
    BY Zenon DEF Entered
  <1>4. ASSUME NEW d \in Candidates, d # c PROVE RowInv(d)'
    <2>1. /\ RowInv(d) /\ ckpts'[d] = ckpts[d] /\ tape'[d] = tape[d]
          /\ decision'[d] = decision[d] /\ claim'[d] = claim[d] /\ result'[d] = result[d]
      BY Zenon, <1>1, <1>4 DEF PInv
    <2>2. ClaimCovered(d)' <=> ClaimCovered(d)
      BY Zenon, <2>1 DEF ClaimCovered
    <2> QED BY ZenonT(30), <1>3, <2>1, <2>2 DEF RowInv, OnTape
  <1>5. ClaimCovered(c) => ClaimCovered(c)'
    <2>1. 1 .. Covered(ckpts[c]) \subseteq 1 .. Len(tape[c])
      BY <1>2
    <2> QED BY Zenon, <1>1, <2>1 DEF ClaimCovered
  <1>6. Covered(ckpts'[c]) <= Len(tape'[c])
    BY <1>1, <1>2
  <1>7. GitEnteredOnce'
    BY Zenon DEF PInv, GitEnteredOnce
  <1> QED BY Zenon, <1>3, <1>4, <1>5, <1>6, <1>7

-----------------------------------------------------------------------------
(* The steps that write events and rows *)


\* A serve session appends an event of its own to a run.
LEMMA ServeAppendInv ==
    ASSUME PInv, NEW c \in Candidates, ServeAppend(c)
    PROVE  PInv'
  <1>0. TypeOK /\ RowInv(c) /\ "activity" \in EventKinds
    BY Zenon DEF PInv, EventKinds
  <1>1. /\ tape' = [tape EXCEPT ![c] = Append(@, "activity")]
        /\ UNCHANGED <<ckpts, decision, claim, result, receipts, entries>> /\ frame' = frame
    BY Zenon DEF ServeAppend, git
  <1>2. /\ \A d \in Candidates : d # c => RowInv(d)'
        /\ ClaimCovered(c) => ClaimCovered(c)'
        /\ Covered(ckpts'[c]) <= Len(tape'[c])
        /\ \A d \in Candidates : Entered(d)' <=> Entered(d)
        /\ GitEnteredOnce'
    BY Zenon, <1>0, <1>1, AppendKeepsRows
  <1>3. \A k \in EventKinds : k # "activity" => (OnTape(c, k)' <=> OnTape(c, k))
    BY Zenon, <1>0, <1>1, AppendOnTape
  <1>4. RowInv(c)'
    BY Zenon, <1>0, <1>1, <1>2, <1>3 DEF RowInv, EventKinds
  <1>5. TypeOK'
    <2>1. spent' \in [pushes : Nat, appends : Nat, crashes : Nat]
      BY Zenon, <1>0, SpentFacts DEF ServeAppend
    <2>2. tape' \in [Candidates -> Seq(EventKinds)]
      BY Zenon, <1>0, <1>1, AppendFacts
    <2> QED BY Zenon, <1>0, <2>1, <2>2 DEF ServeAppend, TypeOK, git
  <1>6. Grows
    BY Zenon, <1>1, <1>2 DEF Grows
  <1> QED BY Zenon, <1>1, <1>2, <1>4, <1>5, <1>6, EnvironmentInv

\* A decision row is written with its event and never over another one.
LEMMA RecordDecisionInv ==
    ASSUME PInv, NEW h \in Hosts, RecordDecision(h)
    PROVE  PInv'
  <1> DEFINE c == RunOf[h]
             kind == frame[h].kind
  <1>0. /\ TypeOK /\ RowInv(c) /\ c \in Candidates /\ kind \in Kinds
        /\ "promotion_decision_recorded" \in EventKinds /\ "seal_decision" \in Pcs
    BY Zenon, HostRun DEF PInv, EventKinds, TypeOK, Pcs
  <1>1. CASE UNCHANGED ledger
    <2>1. UNCHANGED <<now, ledger, git, entries, spent>>
      BY Zenon, <1>1 DEF RecordDecision
    <2>2. CASE Return(h)
      BY Zenon, <1>0, <2>1, <2>2, ReturnFacts, IdleInv, FrameStepInv
    <2>3. CASE Go(h, "seal_decision") /\ decision[c] # Absent
      <3>1. /\ frame' \in [Hosts -> Frames] /\ frame'[h].pc = "seal_decision"
            /\ \A g \in Hosts : g # h => frame'[g] = frame[g]
        BY Zenon, <1>0, <2>3, GoFacts
      <3>2. FrameInv(h)'
        BY Zenon, <1>1, <2>3, <3>1 DEF FrameInv, SealPcs, GitPcs, ledger
      <3> QED BY Zenon, <2>1, <3>1, <3>2, FrameStepInv
    <2>4. Return(h) \/ (Go(h, "seal_decision") /\ decision[c] # Absent)
      <3>1. tape' # [tape EXCEPT ![c] = Append(@, "promotion_decision_recorded")]
        <4>1. tape' = tape /\ tape[c] \in Seq(EventKinds)
          BY Zenon, <1>0, <1>1 DEF ledger, TypeOK
        <4>2. Len(Append(tape[c], "promotion_decision_recorded")) # Len(tape[c])
          BY <1>0, <4>1
        <4> QED BY Zenon, <1>0, <4>1, <4>2 DEF TypeOK
      <3> QED BY Zenon, <3>1 DEF RecordDecision
    <2> QED BY Zenon, <2>2, <2>3, <2>4
  <1>2. CASE /\ decision[c] = Absent
             /\ tape' = [tape EXCEPT ![c] = Append(@, "promotion_decision_recorded")]
             /\ decision' = [decision EXCEPT ![c] = DecisionRow(kind)]
             /\ Go(h, "seal_decision")
             /\ UNCHANGED <<ckpts, claim, result>>
    <2>0. UNCHANGED <<ckpts, claim, result, receipts, entries>>
      BY Zenon, <1>2 DEF RecordDecision, git
    <2>1. /\ decision'[c] = DecisionRow(kind)
          /\ decision'[c] # Absent /\ decision' \in [Candidates -> DecisionRows \cup {Absent}]
          /\ \A d \in Candidates : d # c => decision'[d] = decision[d]
      <3>1. decision \in [Candidates -> DecisionRows \cup {Absent}]
        BY Zenon, <1>0 DEF TypeOK
      <3>2. DecisionRow(kind) \in DecisionRows
        BY Zenon, <1>0 DEF DecisionRows, DecisionRow
      <3>3. DecisionRow(kind) # Absent
        BY Zenon DEF Absent, DecisionRow
      <3> QED BY Zenon, <1>0, <1>2, <3>1, <3>2, <3>3
    <2>2. /\ \A d \in Candidates : d # c => RowInv(d)'
          /\ ClaimCovered(c) => ClaimCovered(c)'
          /\ Covered(ckpts'[c]) <= Len(tape'[c])
          /\ \A d \in Candidates : Entered(d)' <=> Entered(d)
          /\ GitEnteredOnce'
      BY Zenon, <1>0, <1>2, <2>0, <2>1, AppendKeepsRows
    <2>3. claim[c] = Absent /\ result[c] = Absent
      BY <1>0, <1>2 DEF RowInv, Absent
    <2>4. \A k \in EventKinds : k # "promotion_decision_recorded" =>
              (OnTape(c, k)' <=> OnTape(c, k))
      BY Zenon, <1>0, <1>2, AppendOnTape
    <2>5. RowInv(c)'
      BY Zenon, <1>0, <2>0, <2>1, <2>2, <2>3, <2>4 DEF RowInv, EventKinds
    <2>6. /\ frame' \in [Hosts -> Frames] /\ frame'[h].pc = "seal_decision"
          /\ \A g \in Hosts : g # h => frame'[g] = frame[g]
      BY Zenon, <1>0, <1>2, GoFacts
    <2>7. TypeOK'
      <3>1. tape' \in [Candidates -> Seq(EventKinds)]
        BY Zenon, <1>0, <1>2, AppendFacts
      <3> QED BY Zenon, <1>0, <2>0, <2>1, <2>6, <3>1 DEF RecordDecision, TypeOK, git, Frames
    <2>8. Grows
      BY Zenon, <1>2, <2>0, <2>1, <2>2 DEF Grows
    <2>9. FrameInv(h)'
      BY Zenon, <2>1, <2>6 DEF FrameInv, SealPcs, GitPcs
    <2> QED BY Zenon, <2>2, <2>5, <2>6, <2>7, <2>8, <2>9, HostStepInv
  <1> QED BY Zenon, <1>1, <1>2 DEF RecordDecision

\* Marking a decision sealed keeps its kind and only strengthens its state.
LEMMA MarkSealedInv ==
    ASSUME PInv, NEW h \in Hosts, MarkSealed(h)
    PROVE  PInv'
  <1> DEFINE c == RunOf[h]
  <1>0. TypeOK /\ FrameInv(h) /\ c \in Candidates /\ frame[h].pc = "mark_sealed"
    BY Zenon, HostRun DEF PInv, MarkSealed, At
  <1>1. /\ frame' \in [Hosts -> Frames] /\ frame'[h] = Idle
        /\ \A g \in Hosts : g # h => frame'[g] = frame[g]
    BY Zenon, <1>0, ReturnFacts DEF MarkSealed
  <1>2. CASE decision[c].state = "sealed"
    <2>1. Return(h) /\ UNCHANGED <<now, ledger, git, entries, spent>>
      BY Zenon, <1>2 DEF MarkSealed, ledger
    <2> QED BY Zenon, <1>0, <2>1, ReturnFacts, IdleInv, FrameStepInv
  <1>3. CASE decision[c].state # "sealed"
    <2>0. UNCHANGED <<tape, ckpts, claim, result, receipts, entries>>
      BY Zenon DEF MarkSealed, git
    <2>1. decision[c] \in DecisionRows /\ frame[h].mark \in Nat
      BY Zenon, <1>0 DEF FrameInv, SealPcs, TypeOK
    <2>2. /\ decision'[c] = [decision[c] EXCEPT !.state = "sealed", !.mark = frame[h].mark]
          /\ DOMAIN decision' = Candidates
          /\ \A d \in Candidates : d # c => decision'[d] = decision[d]
      BY Zenon, <1>0, <1>3 DEF MarkSealed, TypeOK
    <2>3. /\ decision'[c] \in DecisionRows
          /\ decision'[c].state = "sealed" /\ decision'[c].kind = decision[c].kind
      BY Zenon, <2>1, <2>2 DEF DecisionRows
    <2>4. decision'[c] # Absent
      BY <2>3 DEF Absent
    <2>5. decision' \in [Candidates -> DecisionRows \cup {Absent}]
      BY ZenonT(30), <1>0, <1>3, <2>2, <2>3 DEF MarkSealed, TypeOK
    <2>6. \A d \in Candidates : (Entered(d)' <=> Entered(d)) /\ (ClaimCovered(d)' <=> ClaimCovered(d))
      BY Zenon, <2>0 DEF Entered, ClaimCovered
    <2>7. ASSUME NEW d \in Candidates PROVE RowInv(d)'
      <3>1. RowInv(d) /\ (d # c => decision'[d] = decision[d])
        BY Zenon, <2>2 DEF PInv
      <3> QED BY Zenon, <2>0, <2>3, <2>4, <2>6, <3>1 DEF RowInv, OnTape
    <2>8. GitEnteredOnce' /\ Grows
      BY Zenon, <2>0, <2>2, <2>3, <2>4, <2>6 DEF PInv, GitEnteredOnce, Grows
    <2>9. TypeOK'
      BY Zenon, <1>0, <1>1, <2>0, <2>5 DEF MarkSealed, TypeOK, git, Frames
    <2> QED BY Zenon, <1>1, <2>6, <2>7, <2>8, <2>9, IdleInv, HostStepInv
  <1> QED BY Zenon, <1>2, <1>3

\* A grant writes the first claim of its run, so its holder is alone.
LEMMA ClaimExecutionInv ==
    ASSUME PInv, NEW h \in Hosts, ClaimExecution(h)
    PROVE  PInv'
  <1> DEFINE c == RunOf[h]
             event == "promotion_execution_claimed"
  <1>0. /\ TypeOK /\ RowInv(c) /\ c \in Candidates /\ frame[h].pc = "claim"
        /\ event \in EventKinds
    BY Zenon, HostRun DEF PInv, EventKinds, ClaimExecution, At
  <1>1. CASE ClaimDisposition(c) # "granted"
    <2>1. UNCHANGED <<now, ledger, git, entries, spent>>
      BY Zenon, <1>1 DEF ClaimExecution
    <2>2. CASE Return(h)
      BY Zenon, <1>0, <2>1, <2>2, ReturnFacts, IdleInv, FrameStepInv
    <2>3. CASE ClaimDisposition(c) = "recorded" /\ Go(h, "seal_result")
      <3>1. /\ frame' \in [Hosts -> Frames] /\ frame'[h].pc = "seal_result"
            /\ \A g \in Hosts : g # h => frame'[g] = frame[g]
        BY Zenon, <1>0, <2>3, GoFacts DEF Pcs
      <3>2. result[c] # Absent
        BY Zenon, <2>3 DEF ClaimDisposition
      <3>3. FrameInv(h)'
        BY Zenon, <2>1, <3>1, <3>2 DEF FrameInv, SealPcs, GitPcs, ledger
      <3> QED BY Zenon, <2>1, <3>1, <3>3, FrameStepInv
    <2> QED BY Zenon, <1>1, <2>2, <2>3 DEF ClaimExecution
  <1>2. CASE ClaimDisposition(c) = "granted"
    <2>0. /\ result[c] = Absent /\ claim[c] = Absent
          /\ decision[c].state = "sealed" /\ decision[c].kind = "promote"
      BY Zenon, <1>2 DEF ClaimDisposition, DecisionSealed
    <2>1. /\ tape' = [tape EXCEPT ![c] = Append(@, event)]
          /\ claim' = [claim EXCEPT ![c] = ClaimRow] /\ Go(h, "seal_claim")
          /\ UNCHANGED <<ckpts, decision, result, receipts, entries>>
      BY Zenon, <1>2 DEF ClaimExecution, git
    <2>2. ClaimRow \in ClaimRows /\ ClaimRow # Absent
      BY <1>0, PromotionTimeAssumption DEF ClaimRow, ClaimRows, Absent, Lesser, TypeOK
    <2>3. /\ claim'[c] # Absent /\ claim' \in [Candidates -> ClaimRows \cup {Absent}]
          /\ \A d \in Candidates : d # c => claim'[d] = claim[d]
      BY Zenon, <1>0, <2>1, <2>2 DEF TypeOK
    <2>4. /\ \A d \in Candidates : d # c => RowInv(d)'
          /\ ClaimCovered(c) => ClaimCovered(c)'
          /\ Covered(ckpts'[c]) <= Len(tape'[c])
          /\ \A d \in Candidates : Entered(d)' <=> Entered(d)
          /\ GitEnteredOnce'
      BY Zenon, <1>0, <2>1, <2>3, AppendKeepsRows
    <2>5. /\ OnTape(c, event)'
          /\ \A k \in EventKinds : k # event => (OnTape(c, k)' <=> OnTape(c, k))
      BY Zenon, <1>0, <2>1, AppendOnTape
    <2>6. RowInv(c)'
      BY Zenon, <1>0, <2>0, <2>1, <2>3, <2>4, <2>5 DEF RowInv, EventKinds
    <2>7. /\ frame' \in [Hosts -> Frames] /\ frame'[h].pc = "seal_claim"
          /\ \A g \in Hosts : g # h => frame'[g] = frame[g]
      BY Zenon, <1>0, <2>1, GoFacts DEF Pcs
    <2>8. TypeOK'
      <3>1. tape' \in [Candidates -> Seq(EventKinds)]
        BY Zenon, <1>0, <2>1, AppendFacts
      <3> QED BY Zenon, <1>0, <2>1, <2>3, <2>7, <3>1 DEF ClaimExecution, TypeOK, git, Frames
    <2>9. Grows
      BY Zenon, <2>0, <2>1, <2>3, <2>4 DEF Grows
    <2>10. ~Entered(c)'
      BY Zenon, <1>0, <2>0, <2>4 DEF RowInv
    <2>11. ASSUME NEW g \in Hosts PROVE FrameInv(g)'
      <3>1. CASE g = h
        BY Zenon, <2>3, <2>7, <2>10, <3>1 DEF FrameInv, SealPcs, GitPcs
      <3>2. CASE g # h
        <4>1. frame[g].pc = "seal_claim" => ~Entered(RunOf[g])'
          BY Zenon, <2>4, HostRun DEF PInv, FrameInv
        <4> QED BY Zenon, <2>7, <2>9, <3>2, <4>1, FrameKept
      <3> QED BY Zenon, <3>1, <3>2
    <2>12. \A g \in Hosts : g # h /\ RunOf[g] = c => frame'[g].pc # "seal_claim"
      BY Zenon, <2>0, <2>7 DEF PInv, FrameInv
    <2>13. OneUnsealedClaim'
      BY Zenon, <2>7, <2>12 DEF PInv, OneUnsealedClaim
    <2> QED BY Zenon, <2>4, <2>6, <2>8, <2>11, <2>13 DEF PInv
  <1> QED BY Zenon, <1>1, <1>2

\* A result is written once, over an observation that its receipt backs.
LEMMA RecordResultInv ==
    ASSUME PInv, NEW h \in Hosts, RecordResult(h)
    PROVE  PInv'
  <1> DEFINE c == RunOf[h]
             seen == frame[h].seen
             event == "promotion_result_recorded"
  <1>0. /\ TypeOK /\ FrameInv(h) /\ RowInv(c) /\ c \in Candidates
        /\ frame[h].pc = "record_result" /\ event \in EventKinds
        /\ seen \in Observations /\ "seal_result" \in Pcs
    BY Zenon, HostRun DEF PInv, EventKinds, RecordResult, At, TypeOK, Pcs
  <1>1. CASE result[c] # Absent \/ ~ResultAdmissible(c, seen)
    <2>1. UNCHANGED <<now, ledger, git, entries, spent>>
      BY Zenon, <1>1 DEF RecordResult
    <2>2. CASE Return(h)
      BY Zenon, <1>0, <2>1, <2>2, ReturnFacts, IdleInv, FrameStepInv
    <2>3. CASE result[c] # Absent /\ Go(h, "seal_result")
      <3>1. /\ frame' \in [Hosts -> Frames] /\ frame'[h].pc = "seal_result"
            /\ \A g \in Hosts : g # h => frame'[g] = frame[g]
        BY Zenon, <1>0, <2>3, GoFacts
      <3>2. FrameInv(h)'
        BY Zenon, <2>1, <2>3, <3>1 DEF FrameInv, SealPcs, GitPcs, ledger
      <3> QED BY Zenon, <2>1, <3>1, <3>2, FrameStepInv
    <2> QED BY Zenon, <1>1, <2>2, <2>3 DEF RecordResult
  <1>2. CASE result[c] = Absent /\ ResultAdmissible(c, seen)
    <2>1. /\ tape' = [tape EXCEPT ![c] = Append(@, event)]
          /\ result' = [result EXCEPT ![c] = ResultRow(seen)] /\ Go(h, "seal_result")
          /\ UNCHANGED <<ckpts, decision, claim, receipts, entries>>
      BY Zenon, <1>2 DEF RecordResult, git
    <2>2. /\ ResultRow(seen) \in ResultRows
          /\ ResultRow(seen).outcome = OutcomeOf(seen) /\ ResultRow(seen).seen = seen
      BY Zenon, <1>0 DEF ResultRow, OutcomeOf, ResultRows
    <2>3. ResultRow(seen) # Absent
      BY Zenon DEF ResultRow, Absent
    <2>4. /\ result'[c] = ResultRow(seen) /\ result' \in [Candidates -> ResultRows \cup {Absent}]
          /\ \A d \in Candidates : d # c => result'[d] = result[d]
      BY Zenon, <1>0, <2>1, <2>2 DEF TypeOK
    <2>5. /\ \A d \in Candidates : d # c => RowInv(d)'
          /\ ClaimCovered(c) => ClaimCovered(c)'
          /\ Covered(ckpts'[c]) <= Len(tape'[c])
          /\ \A d \in Candidates : Entered(d)' <=> Entered(d)
          /\ GitEnteredOnce'
      BY Zenon, <1>0, <2>1, <2>4, AppendKeepsRows
    <2>6. \A k \in EventKinds : k # event => (OnTape(c, k)' <=> OnTape(c, k))
      BY Zenon, <1>0, <2>1, AppendOnTape
    <2>7. RowInv(c)'
      <3>1. /\ decision[c].state = "sealed"
            /\ IF OutcomeOf(seen) = "rejected" THEN decision[c].kind = "reject"
               ELSE /\ c \in receipts
                    /\ OutcomeOf(seen) = "promoted" <=> seen = [head |-> c, sync |-> "none"]
        BY Zenon, <1>0, <1>2 DEF FrameInv, ResultAdmissible, DecisionSealed, OutcomeOf
      <3>2. ~OnTape(c, "promotion_reconciliation_resolved")
        BY Zenon, <1>0, <1>2 DEF RowInv
      <3> HIDE DEF seen
      <3> QED BY <1>0, <2>1, <2>2, <2>4, <2>5, <2>6, <3>1, <3>2 DEF RowInv, EventKinds
    <2>8. /\ frame' \in [Hosts -> Frames] /\ frame'[h].pc = "seal_result"
          /\ \A g \in Hosts : g # h => frame'[g] = frame[g]
      BY Zenon, <1>0, <2>1, GoFacts
    <2>9. TypeOK'
      <3>1. tape' \in [Candidates -> Seq(EventKinds)]
        BY Zenon, <1>0, <2>1, AppendFacts
      <3> QED BY Zenon, <1>0, <2>1, <2>4, <2>8, <3>1 DEF RecordResult, TypeOK, git, Frames
    <2>10. Grows
      BY Zenon, <1>2, <2>1, <2>4, <2>5 DEF Grows
    <2>11. FrameInv(h)'
      BY Zenon, <2>3, <2>4, <2>8 DEF FrameInv, SealPcs, GitPcs
    <2> QED BY Zenon, <2>5, <2>7, <2>8, <2>9, <2>10, <2>11, HostStepInv
  <1> QED BY Zenon, <1>1, <1>2

\* The workflow terminal is one more event and no row.
LEMMA RecordTerminalInv ==
    ASSUME PInv, NEW h \in Hosts, RecordTerminal(h)
    PROVE  PInv'
  <1> DEFINE c == RunOf[h]
             kind == TerminalKind(result[c].outcome)
  <1>0. /\ TypeOK /\ RowInv(c) /\ c \in Candidates /\ kind \in EventKinds
        /\ kind \notin {"promotion_decision_recorded", "promotion_execution_claimed",
                        "promotion_reconciliation_resolved"}
        /\ UNCHANGED <<ckpts, decision, claim, result, receipts, entries>>
    BY Zenon, HostRun DEF PInv, EventKinds, TerminalKind, RecordTerminal, git
  <1>1. /\ frame' \in [Hosts -> Frames] /\ frame'[h].pc = "seal_terminal"
        /\ \A g \in Hosts : g # h => frame'[g] = frame[g]
    BY Zenon, <1>0, GoFacts DEF Pcs, RecordTerminal
  <1>2. FrameInv(h)'
    BY Zenon, <1>1 DEF FrameInv, SealPcs, GitPcs
  <1>3. CASE OnTape(c, kind)
    <2>1. UNCHANGED <<now, ledger, git, entries, spent>>
      BY Zenon, <1>3 DEF RecordTerminal, ledger
    <2> QED BY Zenon, <1>1, <1>2, <2>1, FrameStepInv
  <1>4. CASE ~OnTape(c, kind)
    <2>1. tape' = [tape EXCEPT ![c] = Append(@, kind)]
      BY Zenon, <1>4 DEF RecordTerminal
    <2> HIDE DEF kind
    <2>2. /\ \A d \in Candidates : d # c => RowInv(d)'
          /\ ClaimCovered(c) => ClaimCovered(c)'
          /\ Covered(ckpts'[c]) <= Len(tape'[c])
          /\ \A d \in Candidates : Entered(d)' <=> Entered(d)
          /\ GitEnteredOnce'
      BY Zenon, <1>0, <2>1, AppendKeepsRows
    <2>3. \A k \in EventKinds : k # kind => (OnTape(c, k)' <=> OnTape(c, k))
      BY Zenon, <1>0, <2>1, AppendOnTape
    <2>4. RowInv(c)'
      BY Zenon, <1>0, <2>2, <2>3 DEF RowInv, EventKinds
    <2>5. TypeOK'
      <3>1. tape' \in [Candidates -> Seq(EventKinds)]
        BY Zenon, <1>0, <2>1, AppendFacts
      <3> QED BY Zenon, <1>0, <1>1, <3>1 DEF RecordTerminal, TypeOK, git, Frames
    <2>6. Grows
      BY Zenon, <1>0, <2>2 DEF Grows
    <2> QED BY Zenon, <1>1, <1>2, <2>2, <2>4, <2>5, <2>6, HostStepInv
  <1> QED BY Zenon, <1>3, <1>4

\* Abandoning writes its event and the checkpoint over it together.
LEMMA RecordAbandonInv ==
    ASSUME PInv, NEW h \in Hosts, RecordAbandon(h)
    PROVE  PInv'
  <1> DEFINE c == RunOf[h]
             event == "promotion_reconciliation_resolved"
             longer == Append(tape[c], event)
  <1>0. /\ TypeOK /\ FrameInv(h) /\ RowInv(c) /\ c \in Candidates
        /\ frame[h].pc = "record_abandon" /\ event \in EventKinds /\ Return(h)
        /\ UNCHANGED <<decision, claim, result, receipts, entries>>
    BY Zenon, HostRun DEF PInv, EventKinds, RecordAbandon, At, git
  <1>1. /\ frame' \in [Hosts -> Frames] /\ frame'[h] = Idle
        /\ \A g \in Hosts : g # h => frame'[g] = frame[g]
    BY Zenon, <1>0, ReturnFacts
  <1>2. CASE ~(CanSeal(ckpts[c]) /\ ~OnTape(c, event))
    <2>1. UNCHANGED <<now, ledger, git, entries, spent>>
      BY Zenon, <1>2 DEF RecordAbandon, ledger
    <2> QED BY Zenon, <1>0, <2>1, ReturnFacts, IdleInv, FrameStepInv
  <1>3. CASE CanSeal(ckpts[c]) /\ ~OnTape(c, event)
    <2>1. /\ tape' = [tape EXCEPT ![c] = longer]
          /\ ckpts' = [ckpts EXCEPT ![c] = Sealed(longer, @)]
      BY Zenon, <1>3 DEF RecordAbandon
    <2>2. /\ tape' \in [Candidates -> Seq(EventKinds)] /\ tape'[c] = longer
          /\ Len(longer) = Len(tape[c]) + 1
          /\ \A i \in 1 .. Len(tape[c]) : tape'[c][i] = tape[c][i]
          /\ \A d \in Candidates : d # c => tape'[d] = tape[d]
      BY Zenon, <1>0, <2>1, AppendFacts DEF TypeOK
    <2>3. \A d \in Candidates, k \in EventKinds :
              OnTape(d, k)' <=> OnTape(d, k) \/ (d = c /\ k = event)
      BY Zenon, <1>0, <2>1, AppendOnTape
    <2>4. /\ ckpts[c] \in Seq(Nat) /\ longer \in Seq(EventKinds) /\ Len(tape[c]) \in Nat
          /\ Covered(ckpts[c]) \in Nat /\ Covered(ckpts[c]) <= Len(tape[c])
      BY <1>0 DEF TypeOK, RowInv, Covered
    <2> HIDE DEF longer
    <2>5. Covered(ckpts[c]) <= Len(longer)
      BY <2>2, <2>4
    <2>6. Sealed(longer, ckpts[c]) \in Seq(Nat) /\ Covered(Sealed(longer, ckpts[c])) = Len(longer)
      BY Zenon, <2>4, <2>5, SealCovers
    <2>7. /\ ckpts' \in [Candidates -> Seq(Nat)] /\ Covered(ckpts'[c]) = Len(longer)
          /\ \A d \in Candidates : d # c => ckpts'[d] = ckpts[d]
      BY Zenon, <1>0, <2>1, <2>6 DEF TypeOK
    <2>8. \A d \in Candidates : Entered(d)' <=> Entered(d)
      BY Zenon, <1>0 DEF Entered
    <2>9. ASSUME NEW d \in Candidates PROVE RowInv(d)'
      <3>1. CASE d # c
        <4>1. /\ RowInv(d) /\ ckpts'[d] = ckpts[d] /\ tape'[d] = tape[d]
          BY Zenon, <2>2, <2>7, <3>1 DEF PInv
        <4>2. ClaimCovered(d)' <=> ClaimCovered(d)
          BY Zenon, <4>1 DEF ClaimCovered
        <4> QED BY Zenon, <1>0, <2>8, <4>1, <4>2 DEF RowInv, OnTape
      <3>2. CASE d = c
        <4>1. ClaimCovered(c) => ClaimCovered(c)'
          <5>1. /\ 1 .. Covered(ckpts[c]) \subseteq 1 .. Covered(ckpts'[c])
                /\ 1 .. Covered(ckpts[c]) \subseteq 1 .. Len(tape[c])
            BY <2>2, <2>4, <2>7
          <5> QED BY Zenon, <2>2, <5>1 DEF ClaimCovered
        <4>2. Covered(ckpts'[c]) <= Len(tape'[c])
          BY <2>2, <2>4, <2>7
        <4>3. result[c] # Absent /\ result[c].outcome = "reconciliation_required"
          BY Zenon, <1>0 DEF FrameInv
        <4> QED BY Zenon, <1>0, <2>3, <2>8, <3>2, <4>1, <4>2, <4>3 DEF RowInv, EventKinds
      <3> QED BY Zenon, <3>1, <3>2
    <2>10. Grows /\ GitEnteredOnce'
      BY Zenon, <1>0, <2>8 DEF Grows, PInv, GitEnteredOnce
    <2>11. TypeOK'
      BY Zenon, <1>0, <1>1, <2>2, <2>7 DEF RecordAbandon, TypeOK, git, Frames
    <2> QED BY Zenon, <1>1, <2>8, <2>9, <2>10, <2>11, IdleInv, HostStepInv
  <1> QED BY Zenon, <1>2, <1>3

-----------------------------------------------------------------------------
(* The invariant *)

\* A fresh ledger satisfies the invariant.
LEMMA PInvInit ==
    ASSUME Init
    PROVE  PInv
  <1>1. \A c \in Candidates :
            /\ tape[c] = <<"promotion_approval_requested">> /\ ckpts[c] = <<1>>
            /\ decision[c] = Absent /\ claim[c] = Absent /\ result[c] = Absent
    BY Zenon DEF Init
  <1>2. frame \in [Hosts -> Frames]
    BY Zenon DEF Init, Frames, Idle, Pcs, Kinds, Observations, NoGit, Commits
  <1>3. TypeOK
    <2>1. /\ <<"promotion_approval_requested">> \in Seq(EventKinds) /\ <<1>> \in Seq(Nat)
          /\ entries \in Seq(Candidates)
      BY DEF EventKinds, Init
    <2> QED BY Zenon, <1>2, <2>1 DEF Init, TypeOK, Frames, Commits
  <1>4. \A c \in Candidates : ~Entered(c)
    BY DEF Init, Entered
  <1>5. ASSUME NEW c \in Candidates PROVE RowInv(c)
    <2>1. /\ ~OnTape(c, "promotion_decision_recorded")
          /\ ~OnTape(c, "promotion_reconciliation_resolved")
      BY <1>1 DEF OnTape
    <2>2. Covered(ckpts[c]) <= Len(tape[c])
      <3>1. Covered(<<1>>) = 1
        BY Zenon DEF Covered
      <3> QED BY <1>1, <3>1
    <2>3. c \notin receipts
      BY Zenon DEF Init
    <2> QED BY Zenon, <1>1, <1>4, <1>5, <2>1, <2>2, <2>3 DEF RowInv
  <1>6. \A h \in Hosts : frame[h] = Idle
    BY Zenon DEF Init
  <1>7. \A h \in Hosts : FrameInv(h)
    <2>1. \A h \in Hosts : frame[h].pc = "idle"
      BY <1>6 DEF Idle
    <2> QED BY Zenon, <1>6, <2>1 DEF FrameInv, SealPcs, GitPcs
  <1>8. OneUnsealedClaim /\ GitEnteredOnce
    BY <1>6 DEF OneUnsealedClaim, GitEnteredOnce, Idle, Init
  <1> QED BY Zenon, <1>3, <1>5, <1>7, <1>8 DEF PInv

\* Every step of the system preserves the invariant.
LEMMA PInvStep ==
    ASSUME PInv, [Next]_vars
    PROVE  PInv'
  <1>1. CASE UNCHANGED vars
    <2>1. TypeOK' /\ frame' = frame /\ UNCHANGED <<ledger, receipts, entries>>
      BY Zenon, <1>1 DEF PInv, TypeOK, vars, ledger, git
    <2> QED BY Zenon, <2>1, RowsKept, EnvironmentInv
  <1>2. ASSUME NEW h \in Hosts, HostStep(h) PROVE PInv'
    BY Zenon, <1>2, RecordDecisionInv, SealDecisionInv, EmitCheckpointInv, CheckCoveringInv,
       MarkSealedInv, ClaimExecutionInv, SealClaimInv, GitInspectInv, GitAdvanceInv,
       GitObserveInv, RecordResultInv, SealResultInv, RecordTerminalInv,
       SealTerminalInv, ReobserveInv, RecordAbandonInv
    DEF HostStep
  <1>3. CASE Next
    <2>1. CASE \E h \in Hosts, kind \in Kinds : ReceiveDecision(h, kind)
      BY Zenon, <2>1, ReceiveDecisionInv
    <2>2. CASE \E h \in Hosts : ReceiveExecution(h) \/ ReceiveAbandon(h)
      BY Zenon, <2>2, ReceiveExecutionInv, ReceiveAbandonInv
    <2>3. CASE \E h \in Hosts : HostStep(h) \/ Crash(h)
      BY Zenon, <1>2, <2>3, CrashInv
    <2>4. CASE Tick
      BY Zenon, <2>4, TickInv
    <2>5. CASE Checkout \/ \E commit \in receipts \cup {Base, Foreign} : Push(commit)
      BY Zenon, <2>5, PushInv
    <2>6. CASE \E c \in Candidates : ServeAppend(c) \/ ServeSeal(c)
      BY Zenon, <2>6, ServeAppendInv, ServeSealInv
    <2> QED BY Zenon, <1>3, <2>1, <2>2, <2>3, <2>4, <2>5, <2>6 DEF Next
  <1> QED BY Zenon, <1>1, <1>3

\* The invariant holds throughout.
LEMMA PInvAlways == Spec => []PInv
  BY PInvInit, PInvStep, PTL DEF Spec

-----------------------------------------------------------------------------
(* Theorems *)

\* Tables, tapes, refs and frames keep their types for every set of
\* candidates and hosts.
THEOREM TypeCorrect == Spec => []TypeOK
  <1>1. PInv => TypeOK
    BY Zenon DEF PInv
  <1> QED BY <1>1, PInvAlways, PTL

\* A candidate's lease reaches the Git gateway at most once
\* (claim_governed_promotion_execution_v1 and its seal).
THEOREM EntersOnce == Spec => []GitEnteredOnce
  <1>1. PInv => GitEnteredOnce
    BY Zenon DEF PInv
  <1> QED BY <1>1, PInvAlways, PTL

\* The gateway moves the branch only under a sealed promote decision and a
\* claim that a checkpoint covers.
THEOREM Authorised == Spec => []AdvanceIsAuthorised
  <1>1. PInv => AdvanceIsAuthorised
    <2> SUFFICES ASSUME PInv, NEW c \in receipts
                 PROVE  /\ decision[c].state = "sealed" /\ decision[c].kind = "promote"
                        /\ \E i \in 1 .. Covered(ckpts[c]) :
                               tape[c][i] = "promotion_execution_claimed"
      BY Zenon DEF AdvanceIsAuthorised
    <2>1. c \in Candidates /\ RowInv(c)
      BY Zenon DEF PInv, TypeOK
    <2> QED BY Zenon, <2>1 DEF RowInv, ClaimCovered
  <1> QED BY <1>1, PInvAlways, PTL

\* Recorded results tell the truth about Git: a rejected candidate was never
\* let in, the others have their receipt.
THEOREM Truthful == Spec => []ResultIsTruthful
  <1>1. PInv => ResultIsTruthful
    <2> SUFFICES ASSUME PInv, NEW c \in Candidates, result[c] # Absent
                 PROVE  IF result[c].outcome = "rejected"
                        THEN c \notin receipts /\ \A i \in 1 .. Len(entries) : entries[i] # c
                        ELSE /\ c \in receipts
                             /\ result[c].outcome = "promoted"
                                    <=> result[c].seen = [head |-> c, sync |-> "none"]
      BY Zenon DEF ResultIsTruthful
    <2>1. RowInv(c)
      BY Zenon DEF PInv
    <2>2. CASE result[c].outcome = "rejected"
      <3>1. ~Entered(c)
        BY Zenon, <2>1, <2>2 DEF RowInv
      <3> QED BY Zenon, <2>1, <2>2, <3>1 DEF RowInv, Entered
    <2>3. CASE result[c].outcome # "rejected"
      BY Zenon, <2>1, <2>3 DEF RowInv
    <2> QED BY Zenon, <2>2, <2>3
  <1> QED BY <1>1, PInvAlways, PTL

-----------------------------------------------------------------------------
(* Refinement of PromotionContract: hosts, seals, retries and crashes leave *)
(* every candidate moving along the contract's stages.                      *)

StageMap == [c \in Candidates |-> Stage(c)]

\* A step that changes no stage is a step of the contract: somebody's push.
LEMMA StageKept ==
    ASSUME \A d \in Candidates :
               /\ result'[d] = result[d] /\ claim'[d] = claim[d]
               /\ (d \in receipts' <=> d \in receipts)
               /\ (decision'[d] = Absent <=> decision[d] = Absent)
               /\ decision'[d].kind = decision[d].kind
               /\ (OnTape(d, "promotion_reconciliation_resolved")'
                       <=> OnTape(d, "promotion_reconciliation_resolved"))
    PROVE  [Contract!Next]_<<target, StageMap>>
  <1>1. \A d \in Candidates : Stage(d)' = Stage(d)
    BY Zenon DEF Stage
  <1>2. StageMap' = StageMap
    BY Zenon, <1>1 DEF StageMap
  <1> QED BY Zenon, <1>2 DEF Contract!Next, Contract!Push, StageMap

\* A step that moves one candidate to another stage.
LEMMA StageMoves ==
    ASSUME NEW c \in Candidates, NEW to, Stage(c)' = to,
           \A d \in Candidates : d # c => Stage(d)' = Stage(d)
    PROVE  StageMap' = [StageMap EXCEPT ![c] = to] /\ StageMap[c] = Stage(c)
  BY Zenon DEF StageMap

\* Steps of other runs leave a candidate's stage alone.
LEMMA OtherStages ==
    ASSUME NEW c \in Candidates,
           \A d \in Candidates : d # c =>
               /\ result'[d] = result[d] /\ claim'[d] = claim[d]
               /\ decision'[d] = decision[d] /\ tape'[d] = tape[d]
               /\ (d \in receipts' <=> d \in receipts)
    PROVE  \A d \in Candidates : d # c => Stage(d)' = Stage(d)
  BY DEF Stage, OnTape

\* Recording a decision is the contract's Decide.
LEMMA RecordDecisionStage ==
    ASSUME PInv, NEW h \in Hosts, RecordDecision(h)
    PROVE  [Contract!Next]_<<target, StageMap>>
  <1> DEFINE c == RunOf[h]
             kind == frame[h].kind
             to == IF kind = "promote" THEN "approved" ELSE "refused"
  <1>0. TypeOK /\ RowInv(c) /\ c \in Candidates /\ receipts' = receipts /\ target' = target
    BY Zenon, HostRun DEF PInv, RecordDecision, git
  <1>1. CASE UNCHANGED ledger
    BY Zenon, <1>0, <1>1, StageKept DEF ledger, OnTape
  <1>2. CASE /\ decision[c] = Absent
             /\ tape' = [tape EXCEPT ![c] = Append(@, "promotion_decision_recorded")]
             /\ decision' = [decision EXCEPT ![c] = DecisionRow(kind)]
             /\ UNCHANGED <<ckpts, claim, result>>
    <2>1. claim[c] = Absent /\ result[c] = Absent /\ c \notin receipts
      BY <1>0, <1>2 DEF RowInv, Absent
    <2>2. decision'[c] = DecisionRow(kind)
      BY Zenon, <1>0, <1>2 DEF TypeOK
    <2>3. decision'[c] # Absent /\ decision'[c].kind = kind
      BY <2>2 DEF Absent, DecisionRow
    <2>4. Stage(c) = "open" /\ Stage(c)' = to
      BY Zenon, <1>0, <1>2, <2>1, <2>3 DEF Stage
    <2>5. \A d \in Candidates : d # c => Stage(d)' = Stage(d)
      <3>1. \A d \in Candidates : d # c =>
                /\ result'[d] = result[d] /\ claim'[d] = claim[d]
                /\ decision'[d] = decision[d] /\ tape'[d] = tape[d]
                /\ (d \in receipts' <=> d \in receipts)
        BY Zenon, <1>0, <1>2 DEF TypeOK
      <3> QED BY Zenon, <1>0, <3>1, OtherStages
    <2>6. StageMap' = [StageMap EXCEPT ![c] = to] /\ StageMap[c] = "open"
      BY Zenon, <1>0, <2>4, <2>5, StageMoves
    <2>7. Contract!Decide(c)
      BY Zenon, <1>0, <2>6 DEF Contract!Decide, Contract!Goes, StageMap
    <2> QED BY Zenon, <1>0, <2>7 DEF Contract!Next
  <1> QED BY Zenon, <1>1, <1>2 DEF RecordDecision

\* Granting a lease is the contract's Reserve.
LEMMA ClaimExecutionStage ==
    ASSUME PInv, NEW h \in Hosts, ClaimExecution(h)
    PROVE  [Contract!Next]_<<target, StageMap>>
  <1> DEFINE c == RunOf[h]
  <1>0. TypeOK /\ RowInv(c) /\ c \in Candidates /\ receipts' = receipts /\ target' = target
    BY Zenon, HostRun DEF PInv, ClaimExecution, git
  <1>1. CASE ClaimDisposition(c) # "granted"
    <2>1. UNCHANGED ledger
      BY Zenon, <1>1 DEF ClaimExecution
    <2> QED BY Zenon, <1>0, <2>1, StageKept DEF ledger, OnTape
  <1>2. CASE ClaimDisposition(c) = "granted"
    <2>1. /\ result[c] = Absent /\ claim[c] = Absent
          /\ decision[c].state = "sealed" /\ decision[c].kind = "promote"
      BY Zenon, <1>2 DEF ClaimDisposition, DecisionSealed
    <2>2. c \notin receipts /\ decision[c] # Absent
      BY <1>0, <2>1 DEF RowInv, Absent
    <2>3. /\ tape' = [tape EXCEPT ![c] = Append(@, "promotion_execution_claimed")]
          /\ claim' = [claim EXCEPT ![c] = ClaimRow]
          /\ UNCHANGED <<decision, result>>
      BY Zenon, <1>2 DEF ClaimExecution
    <2>4. claim'[c] # Absent
      <3>1. ClaimRow # Absent
        BY Zenon DEF Absent, ClaimRow
      <3> QED BY Zenon, <1>0, <2>3, <3>1 DEF TypeOK
    <2>5. Stage(c) = "approved" /\ Stage(c)' = "reserved"
      BY Zenon, <1>0, <2>1, <2>2, <2>3, <2>4 DEF Stage
    <2>6. \A d \in Candidates : d # c => Stage(d)' = Stage(d)
      <3>1. \A d \in Candidates : d # c =>
                /\ result'[d] = result[d] /\ claim'[d] = claim[d]
                /\ decision'[d] = decision[d] /\ tape'[d] = tape[d]
                /\ (d \in receipts' <=> d \in receipts)
        BY Zenon, <1>0, <2>3 DEF TypeOK
      <3> QED BY Zenon, <1>0, <3>1, OtherStages
    <2>7. StageMap' = [StageMap EXCEPT ![c] = "reserved"] /\ StageMap[c] = "approved"
      BY Zenon, <1>0, <2>5, <2>6, StageMoves
    <2>8. Contract!Reserve(c)
      BY Zenon, <1>0, <2>7 DEF Contract!Reserve, Contract!Goes, StageMap
    <2> QED BY Zenon, <1>0, <2>8 DEF Contract!Next
  <1> QED BY Zenon, <1>1, <1>2

\* The ref transaction is the contract's Move, or nothing.
LEMMA GitAdvanceStage ==
    ASSUME PInv, NEW h \in Hosts, GitAdvance(h)
    PROVE  [Contract!Next]_<<target, StageMap>>
  <1> DEFINE c == RunOf[h]
  <1>0. /\ TypeOK /\ RowInv(c) /\ c \in Candidates /\ FrameInv(h)
        /\ frame[h].pc = "git_advance"
        /\ tape' = tape /\ decision' = decision /\ claim' = claim /\ result' = result
    BY Zenon, HostRun DEF PInv, GitAdvance, ledger, At
  <1>1. CASE ~AtomicAdvance(c)
    <2>1. receipts' = receipts
      BY Zenon, <1>1 DEF GitAdvance
    <2> QED BY Zenon, <1>0, <2>1, StageKept DEF OnTape
  <1>2. CASE AtomicAdvance(c)
    <2>1. /\ target = Base /\ c \notin receipts
          /\ target' = c /\ receipts' = receipts \cup {c}
      BY Zenon, <1>2 DEF AtomicAdvance, GitAdvance
    <2>2. Entered(c)
      BY Zenon, <1>0 DEF FrameInv, GitPcs
    <2>3. claim[c] # Absent /\ result[c] = Absent
      BY Zenon, <1>0, <2>1, <2>2 DEF RowInv
    <2>4. Stage(c) = "reserved" /\ Stage(c)' = "moved"
      BY Zenon, <1>0, <2>1, <2>3 DEF Stage
    <2>5. \A d \in Candidates : d # c => Stage(d)' = Stage(d)
      BY Zenon, <1>0, <2>1, OtherStages
    <2>6. StageMap' = [StageMap EXCEPT ![c] = "moved"] /\ StageMap[c] = "reserved"
      BY Zenon, <1>0, <2>4, <2>5, StageMoves
    <2>7. Contract!Move(c)
      BY Zenon, <1>0, <2>1, <2>6 DEF Contract!Move, Contract!Goes, StageMap
    <2> QED BY Zenon, <1>0, <2>7 DEF Contract!Next
  <1> QED BY Zenon, <1>1, <1>2

\* Recording a result settles a moved candidate or a refused one.
LEMMA RecordResultStage ==
    ASSUME PInv, NEW h \in Hosts, RecordResult(h)
    PROVE  [Contract!Next]_<<target, StageMap>>
  <1> DEFINE c == RunOf[h]
             seen == frame[h].seen
             to == IF OutcomeOf(seen) = "reconciliation_required" THEN "unresolved"
                   ELSE OutcomeOf(seen)
  <1>0. /\ TypeOK /\ RowInv(c) /\ c \in Candidates /\ FrameInv(h)
        /\ frame[h].pc = "record_result" /\ receipts' = receipts /\ target' = target
    BY Zenon, HostRun DEF PInv, RecordResult, git, At
  <1>1. CASE result[c] # Absent \/ ~ResultAdmissible(c, seen)
    <2>1. UNCHANGED ledger
      BY Zenon, <1>1 DEF RecordResult
    <2> QED BY Zenon, <1>0, <2>1, StageKept DEF ledger, OnTape
  <1>2. CASE result[c] = Absent /\ ResultAdmissible(c, seen)
    <2>1. /\ tape' = [tape EXCEPT ![c] = Append(@, "promotion_result_recorded")]
          /\ result' = [result EXCEPT ![c] = ResultRow(seen)]
          /\ UNCHANGED <<decision, claim>>
      BY Zenon, <1>2 DEF RecordResult
    <2>2. /\ result'[c] = ResultRow(seen) /\ ResultRow(seen).outcome = OutcomeOf(seen)
          /\ ResultRow(seen) # Absent
      <3>1. result'[c] = ResultRow(seen)
        BY Zenon, <1>0, <2>1 DEF TypeOK
      <3> QED BY Zenon, <3>1 DEF ResultRow, Absent
    <2>3. ~OnTape(c, "promotion_reconciliation_resolved")'
      <3>1. ~OnTape(c, "promotion_reconciliation_resolved")
        BY Zenon, <1>0, <1>2 DEF RowInv
      <3>2. /\ "promotion_result_recorded" \in EventKinds
            /\ "promotion_reconciliation_resolved" \in EventKinds
        BY Zenon DEF EventKinds
      <3> QED BY Zenon, <1>0, <2>1, <3>1, <3>2, AppendOnTape
    <2>4. Stage(c)' = to
      BY Zenon, <2>2, <2>3 DEF Stage
    <2>5. \/ Stage(c) = "refused" /\ to = "rejected"
          \/ Stage(c) = "moved" /\ to \in {"promoted", "unresolved"}
      <3>1. CASE seen = NoGit
        <4>1. decision[c].kind = "reject" /\ claim[c] = Absent /\ decision[c] # Absent
          BY Zenon, <1>0, <1>2, <3>1 DEF ResultAdmissible, FrameInv
        <4>2. c \notin receipts
          BY Zenon, <1>0, <4>1 DEF RowInv
        <4> QED BY Zenon, <1>2, <3>1, <4>1, <4>2 DEF Stage, OutcomeOf
      <3>2. CASE seen # NoGit
        <4>1. c \in receipts
          BY Zenon, <1>0, <3>2 DEF FrameInv
        <4> QED BY Zenon, <1>2, <3>2, <4>1 DEF Stage, OutcomeOf
      <3> QED BY Zenon, <3>1, <3>2
    <2>6. \A d \in Candidates : d # c => Stage(d)' = Stage(d)
      <3>1. \A d \in Candidates : d # c =>
                /\ result'[d] = result[d] /\ claim'[d] = claim[d]
                /\ decision'[d] = decision[d] /\ tape'[d] = tape[d]
                /\ (d \in receipts' <=> d \in receipts)
        BY Zenon, <1>0, <2>1 DEF TypeOK
      <3> QED BY Zenon, <1>0, <3>1, OtherStages
    <2> HIDE DEF to
    <2>7. StageMap' = [StageMap EXCEPT ![c] = to] /\ StageMap[c] = Stage(c)
      BY Zenon, <1>0, <2>4, <2>6, StageMoves
    <2>8. Contract!Settle(c)
      BY Zenon, <1>0, <2>5, <2>7 DEF Contract!Settle, Contract!Goes, StageMap
    <2> QED BY Zenon, <1>0, <2>8 DEF Contract!Next
  <1> QED BY Zenon, <1>1, <1>2

\* Abandoning settles an unresolved candidate.
LEMMA RecordAbandonStage ==
    ASSUME PInv, NEW h \in Hosts, RecordAbandon(h)
    PROVE  [Contract!Next]_<<target, StageMap>>
  <1> DEFINE c == RunOf[h]
             event == "promotion_reconciliation_resolved"
  <1>0. /\ TypeOK /\ c \in Candidates /\ FrameInv(h) /\ frame[h].pc = "record_abandon"
        /\ UNCHANGED <<decision, claim, result>>
        /\ receipts' = receipts /\ target' = target /\ event \in EventKinds
    BY Zenon, HostRun DEF PInv, RecordAbandon, git, At, EventKinds
  <1>1. result[c] # Absent /\ result[c].outcome = "reconciliation_required"
    BY Zenon, <1>0 DEF FrameInv
  <1>2. CASE ~(CanSeal(ckpts[c]) /\ ~OnTape(c, event))
    <2>1. tape' = tape
      BY Zenon, <1>2 DEF RecordAbandon
    <2> QED BY Zenon, <1>0, <2>1, StageKept DEF OnTape
  <1>3. CASE CanSeal(ckpts[c]) /\ ~OnTape(c, event)
    <2>1. tape' = [tape EXCEPT ![c] = Append(@, event)]
      BY Zenon, <1>3 DEF RecordAbandon
    <2>2. OnTape(c, event)' /\ \A d \in Candidates : d # c => tape'[d] = tape[d]
      BY Zenon, <1>0, <2>1, AppendOnTape, AppendFacts
    <2>3. Stage(c) = "unresolved" /\ Stage(c)' = "resolved"
      BY Zenon, <1>0, <1>1, <1>3, <2>2 DEF Stage
    <2>4. \A d \in Candidates : d # c => Stage(d)' = Stage(d)
      BY Zenon, <1>0, <2>2, OtherStages
    <2>5. StageMap' = [StageMap EXCEPT ![c] = "resolved"] /\ StageMap[c] = "unresolved"
      BY Zenon, <1>0, <2>3, <2>4, StageMoves
    <2>6. Contract!Settle(c)
      BY Zenon, <1>0, <2>5 DEF Contract!Settle, Contract!Goes, StageMap
    <2> QED BY Zenon, <1>0, <2>6 DEF Contract!Next
  <1> QED BY Zenon, <1>2, <1>3

\* Sealing a decision changes no stage.
LEMMA MarkSealedStage ==
    ASSUME PInv, NEW h \in Hosts, MarkSealed(h)
    PROVE  [Contract!Next]_<<target, StageMap>>
  <1> DEFINE c == RunOf[h]
  <1>0. /\ TypeOK /\ c \in Candidates /\ FrameInv(h) /\ frame[h].pc = "mark_sealed"
        /\ UNCHANGED <<tape, claim, result>> /\ receipts' = receipts
    BY Zenon, HostRun DEF PInv, MarkSealed, git, At
  <1>1. CASE decision[c].state = "sealed"
    <2>1. decision' = decision
      BY Zenon, <1>1 DEF MarkSealed
    <2> QED BY Zenon, <1>0, <2>1, StageKept DEF OnTape
  <1>2. CASE decision[c].state # "sealed"
    <2>1. decision[c] \in DecisionRows /\ decision[c] # Absent /\ frame[h].mark \in Nat
      BY Zenon, <1>0 DEF FrameInv, SealPcs, TypeOK
    <2>2. /\ decision'[c] = [decision[c] EXCEPT !.state = "sealed", !.mark = frame[h].mark]
          /\ \A d \in Candidates : d # c => decision'[d] = decision[d]
      BY Zenon, <1>0, <1>2 DEF MarkSealed, TypeOK
    <2>3. decision'[c].state = "sealed" /\ decision'[c].kind = decision[c].kind
      BY Zenon, <2>1, <2>2 DEF DecisionRows
    <2>4. decision'[c] # Absent
      BY <2>3 DEF Absent
    <2>5. \A d \in Candidates :
              /\ (decision'[d] = Absent <=> decision[d] = Absent)
              /\ decision'[d].kind = decision[d].kind
      BY Zenon, <2>1, <2>2, <2>3, <2>4
    <2> QED BY Zenon, <1>0, <2>5, StageKept DEF OnTape
  <1> QED BY Zenon, <1>1, <1>2

\* Events other than the resolution change no stage.
LEMMA AppendStage ==
    ASSUME PInv, NEW c \in Candidates, NEW kind \in EventKinds,
           kind # "promotion_reconciliation_resolved",
           tape' = tape \/ tape' = [tape EXCEPT ![c] = Append(@, kind)],
           UNCHANGED <<decision, claim, result, receipts>>
    PROVE  [Contract!Next]_<<target, StageMap>>
  <1>1. CASE tape' = tape
    BY Zenon, <1>1, StageKept DEF OnTape
  <1>2. CASE tape' = [tape EXCEPT ![c] = Append(@, kind)]
    <2>1. "promotion_reconciliation_resolved" \in EventKinds /\ TypeOK
      BY Zenon DEF EventKinds, PInv
    <2>2. \A d \in Candidates : OnTape(d, "promotion_reconciliation_resolved")'
                                    <=> OnTape(d, "promotion_reconciliation_resolved")
      BY Zenon, <1>2, <2>1, AppendOnTape
    <2> QED BY Zenon, <2>2, StageKept
  <1> QED BY Zenon, <1>1, <1>2

\* Steps that leave tapes, rows and receipts alone change no stage.
LEMMA QuietStage ==
    ASSUME UNCHANGED <<tape, decision, claim, result, receipts>>
    PROVE  [Contract!Next]_<<target, StageMap>>
  BY Zenon, StageKept DEF OnTape

\* The hosts, seals, retries and crashes of Promotion implement
\* PromotionContract: decide once, reserve once, move the base by one
\* compare-and-swap, settle once.
THEOREM Refinement == Spec => ImplementsContract
  <1>1. Init => Contract!Init
    <2> SUFFICES ASSUME Init PROVE Contract!Init
      OBVIOUS
    <2>1. \A c \in Candidates : Stage(c) = "open"
      BY Zenon DEF Init, Stage, Absent
    <2> QED BY Zenon, <2>1 DEF Init, Contract!Init
  <1>2. PInv /\ [Next]_vars => [Contract!Next]_<<target, StageMap>>
    <2> SUFFICES ASSUME PInv, [Next]_vars PROVE [Contract!Next]_<<target, StageMap>>
      OBVIOUS
    <2>1. CASE UNCHANGED vars
      BY Zenon, <2>1, QuietStage DEF vars, ledger, git
    <2>2. ASSUME NEW h \in Hosts, HostStep(h) PROVE [Contract!Next]_<<target, StageMap>>
      <3>1. CASE \/ SealDecision(h) \/ CheckCovering(h) \/ GitInspect(h)
                 \/ GitObserve(h) \/ Reobserve(h)
        BY Zenon, <3>1, QuietStage
           DEF SealDecision, CheckCovering, GitInspect, GitObserve, Reobserve, ledger, git
      <3>2. CASE EmitCheckpoint(h) \/ SealClaim(h) \/ SealResult(h) \/ SealTerminal(h)
        BY Zenon, <3>2, QuietStage DEF EmitCheckpoint, SealClaim, SealResult, SealTerminal, git
      <3>3. CASE RecordTerminal(h)
        <4>1. /\ TerminalKind(result[RunOf[h]].outcome) \in EventKinds
              /\ TerminalKind(result[RunOf[h]].outcome) # "promotion_reconciliation_resolved"
          BY Zenon DEF TerminalKind, EventKinds
        <4> QED BY Zenon, <3>3, <4>1, AppendStage, HostRun DEF RecordTerminal, git
      <3> QED
        BY Zenon, <2>2, <3>1, <3>2, <3>3, RecordDecisionStage, MarkSealedStage,
           ClaimExecutionStage, GitAdvanceStage, RecordResultStage, RecordAbandonStage
        DEF HostStep
    <2>3. CASE \E h \in Hosts, kind \in Kinds : ReceiveDecision(h, kind)
      BY Zenon, <2>3, QuietStage DEF ReceiveDecision, ledger, git
    <2>4. CASE \E h \in Hosts : ReceiveExecution(h) \/ ReceiveAbandon(h)
      BY Zenon, <2>4, QuietStage DEF ReceiveExecution, ReceiveAbandon, ledger, git
    <2>5. CASE \E h \in Hosts : Crash(h)
      BY Zenon, <2>5, QuietStage DEF Crash, ledger, git
    <2>6. CASE Tick \/ Checkout \/ \E commit \in receipts \cup {Base, Foreign} : Push(commit)
      BY Zenon, <2>6, QuietStage DEF Tick, Checkout, Push, ledger, git
    <2>7. ASSUME NEW c \in Candidates, ServeAppend(c)
          PROVE  [Contract!Next]_<<target, StageMap>>
      <3>1. "activity" \in EventKinds
        BY Zenon DEF EventKinds
      <3> QED BY Zenon, <2>7, <3>1, AppendStage DEF ServeAppend, git
    <2>8. CASE \E c \in Candidates : ServeSeal(c)
      BY Zenon, <2>8, QuietStage DEF ServeSeal, git
    <2> QED BY Zenon, <2>1, <2>2, <2>3, <2>4, <2>5, <2>6, <2>7, <2>8 DEF Next
  <1> QED BY <1>1, <1>2, PInvAlways, PTL DEF Spec, ImplementsContract, Contract!Spec, StageMap

-----------------------------------------------------------------------------
(* The terminal follows its sealed result.  Recording a terminal and       *)
(* sealing the result are commits of different steps, so the host that is  *)
(* about to record one must still be able to rely on the seal.             *)

SealedBefore(c, j) ==
    \E i \in 1 .. Len(tape[c]), k \in 1 .. Len(ckpts[c]) :
        /\ tape[c][i] = "promotion_result_recorded"
        /\ i <= ckpts[c][k] /\ ckpts[c][k] < j

TerminalInv(c) ==
    /\ result[c] # Absent => OnTape(c, "promotion_result_recorded")
    /\ \A k \in 1 .. Len(ckpts[c]) : ckpts[c][k] <= Len(tape[c])
    /\ \A j \in 1 .. Len(tape[c]) : tape[c][j] \in Terminals =>
           /\ result[c] # Absent /\ Final(result[c].outcome)
           /\ tape[c][j] = TerminalKind(result[c].outcome)
           /\ SealedBefore(c, j)

TerminalDue(h) ==
    frame[h].pc = "record_terminal" =>
        /\ Final(result[RunOf[h]].outcome)
        /\ SealedBefore(RunOf[h], Len(tape[RunOf[h]]) + 1)

TInv == (\A c \in Candidates : TerminalInv(c)) /\ (\A h \in Hosts : TerminalDue(h))

\* A terminal comes only from a host at record_terminal of that run.
MayTerminate(c, e) ==
    \E h \in Hosts : /\ RunOf[h] = c /\ frame[h].pc = "record_terminal"
                     /\ e = TerminalKind(result[c].outcome)

\* All that a step does to one run: at most one event, at most one checkpoint
\* over the tape as it then is, and a result only with its event.
Moves(c) ==
    /\ \/ tape'[c] = tape[c]
       \/ \E e \in EventKinds : /\ tape'[c] = Append(tape[c], e)
                                /\ e \in Terminals => MayTerminate(c, e)
    /\ ckpts'[c] = ckpts[c] \/ ckpts'[c] = Append(ckpts[c], Len(tape'[c]))
    /\ \/ result'[c] = result[c]
       \/ result[c] = Absent /\ tape'[c] = Append(tape[c], "promotion_result_recorded")

\* A step that only appends one plain event to one run.
LEMMA AppendMoves ==
    ASSUME TypeOK, NEW c \in Candidates, NEW e \in EventKinds,
           e \in Terminals => MayTerminate(c, e),
           tape' = [tape EXCEPT ![c] = Append(@, e)] \/ tape' = tape,
           ckpts' = ckpts, result' = result,
           NEW d \in Candidates
    PROVE  Moves(d)
  <1>1. CASE d = c
    <2>1. tape'[c] = Append(tape[c], e) \/ tape'[c] = tape[c]
      BY Zenon DEF TypeOK
    <2> QED BY Zenon, <1>1, <2>1 DEF Moves
  <1>2. CASE d # c
    <2>1. tape'[d] = tape[d]
      BY Zenon, <1>2 DEF TypeOK
    <2> QED BY Zenon, <2>1 DEF Moves
  <1> QED BY Zenon, <1>1, <1>2

\* A step that only seals, or emits a checkpoint of, one run.
LEMMA SealMoves ==
    ASSUME TypeOK, NEW c \in Candidates, tape' = tape, result' = result,
           \/ ckpts' = ckpts
           \/ ckpts' = [ckpts EXCEPT ![c] = Sealed(tape[c], @)]
           \/ ckpts' = [ckpts EXCEPT ![c] = Emitted(tape[c], @)],
           NEW d \in Candidates
    PROVE  Moves(d)
  <1>1. CASE d = c
    <2>1. ckpts'[c] = ckpts[c] \/ ckpts'[c] = Append(ckpts[c], Len(tape[c]))
      BY Zenon DEF TypeOK, Sealed, Emitted
    <2> QED BY Zenon, <1>1, <2>1 DEF Moves
  <1>2. CASE d # c
    <2>1. ckpts'[d] = ckpts[d]
      BY Zenon, <1>2 DEF TypeOK
    <2> QED BY Zenon, <2>1 DEF Moves
  <1> QED BY Zenon, <1>1, <1>2

\* A step that leaves the tapes, the checkpoints and the results alone.
LEMMA QuietMoves ==
    ASSUME UNCHANGED <<tape, ckpts, result>>
    PROVE  \A d \in Candidates : Moves(d)
  BY Zenon DEF Moves

\* A host that records a result appends the event in the same commit.
LEMMA RecordResultMoves ==
    ASSUME PInv, NEW h \in Hosts, RecordResult(h), NEW d \in Candidates
    PROVE  Moves(d)
  <1> DEFINE c == RunOf[h]
             seen == frame[h].seen
  <1>0. TypeOK /\ c \in Candidates /\ "promotion_result_recorded" \in EventKinds
    BY Zenon, HostRun DEF PInv, EventKinds
  <1>1. CASE result[c] # Absent \/ ~ResultAdmissible(c, seen)
    <2>1. UNCHANGED ledger
      BY Zenon, <1>1 DEF RecordResult
    <2> QED BY Zenon, <2>1, QuietMoves DEF ledger
  <1>2. CASE result[c] = Absent /\ ResultAdmissible(c, seen)
    <2>1. /\ tape' = [tape EXCEPT ![c] = Append(@, "promotion_result_recorded")]
          /\ result' = [result EXCEPT ![c] = ResultRow(seen)] /\ ckpts' = ckpts
      BY Zenon, <1>2 DEF RecordResult
    <2>2. "promotion_result_recorded" \notin Terminals
      BY Zenon DEF Terminals
    <2>3. CASE d = c
      <3>1. tape'[c] = Append(tape[c], "promotion_result_recorded")
        BY Zenon, <1>0, <2>1 DEF TypeOK
      <3> QED BY Zenon, <1>0, <1>2, <2>1, <2>2, <2>3, <3>1 DEF Moves
    <2>4. CASE d # c
      <3>1. tape'[d] = tape[d] /\ result'[d] = result[d]
        BY Zenon, <1>0, <2>1, <2>4 DEF TypeOK
      <3> QED BY Zenon, <2>1, <3>1 DEF Moves
    <2> QED BY Zenon, <2>3, <2>4
  <1> QED BY Zenon, <1>1, <1>2

\* Abandoning appends its event and the checkpoint over it in one commit.
LEMMA RecordAbandonMoves ==
    ASSUME PInv, NEW h \in Hosts, RecordAbandon(h), NEW d \in Candidates
    PROVE  Moves(d)
  <1> DEFINE c == RunOf[h]
             event == "promotion_reconciliation_resolved"
  <1>0. TypeOK /\ c \in Candidates /\ event \in EventKinds /\ event \notin Terminals
        /\ result' = result
    BY Zenon, HostRun DEF PInv, EventKinds, Terminals, RecordAbandon
  <1>1. CASE ~(CanSeal(ckpts[c]) /\ ~OnTape(c, event))
    BY Zenon, <1>0, <1>1, QuietMoves DEF RecordAbandon
  <1>2. CASE CanSeal(ckpts[c]) /\ ~OnTape(c, event)
    <2>1. /\ tape' = [tape EXCEPT ![c] = Append(tape[c], event)]
          /\ ckpts' = [ckpts EXCEPT ![c] = Sealed(Append(tape[c], event), @)]
      BY Zenon, <1>2 DEF RecordAbandon
    <2>2. CASE d = c
      <3>1. /\ tape'[c] = Append(tape[c], event)
            /\ ckpts'[c] = Sealed(Append(tape[c], event), ckpts[c])
        BY Zenon, <1>0, <2>1 DEF TypeOK
      <3> QED BY Zenon, <1>0, <2>2, <3>1 DEF Moves, Sealed
    <2>3. CASE d # c
      <3>1. tape'[d] = tape[d] /\ ckpts'[d] = ckpts[d]
        BY Zenon, <1>0, <2>1, <2>3 DEF TypeOK
      <3> QED BY Zenon, <1>0, <3>1 DEF Moves
    <2> QED BY Zenon, <2>2, <2>3
  <1> QED BY Zenon, <1>1, <1>2

\* Every step is of that form for every run.
LEMMA StepMoves ==
    ASSUME PInv, [Next]_vars, NEW d \in Candidates
    PROVE  Moves(d)
  <1>0. TypeOK /\ \A h \in Hosts : RunOf[h] \in Candidates
    BY Zenon, HostRun DEF PInv
  <1>1. CASE UNCHANGED vars
    BY Zenon, <1>1, QuietMoves DEF vars, ledger
  <1>2. ASSUME NEW h \in Hosts, HostStep(h) PROVE Moves(d)
    <2>1. CASE \/ SealDecision(h) \/ CheckCovering(h) \/ GitInspect(h) \/ GitAdvance(h)
               \/ GitObserve(h) \/ Reobserve(h) \/ MarkSealed(h)
      BY Zenon, <2>1, QuietMoves DEF SealDecision, CheckCovering, GitInspect,
         GitAdvance, GitObserve, Reobserve, MarkSealed, ledger
    <2>2. CASE EmitCheckpoint(h) \/ SealClaim(h) \/ SealResult(h) \/ SealTerminal(h)
      BY Zenon, <1>0, <2>2, SealMoves DEF EmitCheckpoint, SealClaim, SealResult, SealTerminal
    <2>3. CASE RecordTerminal(h)
      <3> DEFINE kind == TerminalKind(result[RunOf[h]].outcome)
      <3>1. kind \in EventKinds /\ MayTerminate(RunOf[h], kind)
        BY Zenon, <2>3 DEF TerminalKind, EventKinds, MayTerminate, RecordTerminal, At
      <3>2. /\ tape' = tape \/ tape' = [tape EXCEPT ![RunOf[h]] = Append(@, kind)]
            /\ ckpts' = ckpts /\ result' = result
        BY Zenon, <2>3 DEF RecordTerminal
      <3> QED BY Zenon, <1>0, <3>1, <3>2, AppendMoves
    <2>4. CASE RecordDecision(h)
      <3>1. "promotion_decision_recorded" \in EventKinds \ Terminals
        BY Zenon DEF EventKinds, Terminals
      <3>2. /\ \/ tape' = tape
               \/ tape' = [tape EXCEPT ![RunOf[h]] = Append(@, "promotion_decision_recorded")]
            /\ ckpts' = ckpts /\ result' = result
        BY Zenon, <2>4 DEF RecordDecision, ledger
      <3> QED BY Zenon, <1>0, <3>1, <3>2, AppendMoves
    <2>5. CASE ClaimExecution(h)
      <3>1. "promotion_execution_claimed" \in EventKinds \ Terminals
        BY Zenon DEF EventKinds, Terminals
      <3>2. /\ \/ tape' = tape
               \/ tape' = [tape EXCEPT ![RunOf[h]] = Append(@, "promotion_execution_claimed")]
            /\ ckpts' = ckpts /\ result' = result
        BY Zenon, <2>5 DEF ClaimExecution, ledger
      <3> QED BY Zenon, <1>0, <3>1, <3>2, AppendMoves
    <2> QED BY Zenon, <1>2, <2>1, <2>2, <2>3, <2>4, <2>5, RecordResultMoves,
               RecordAbandonMoves DEF HostStep
  <1>3. CASE \E h \in Hosts, kind \in Kinds : ReceiveDecision(h, kind)
    BY Zenon, <1>3, QuietMoves DEF ReceiveDecision, ledger
  <1>4. CASE \E h \in Hosts : ReceiveExecution(h) \/ ReceiveAbandon(h) \/ Crash(h)
    BY Zenon, <1>4, QuietMoves DEF ReceiveExecution, ReceiveAbandon, Crash, ledger
  <1>5. CASE Tick \/ Checkout \/ \E commit \in receipts \cup {Base, Foreign} : Push(commit)
    BY Zenon, <1>5, QuietMoves DEF Tick, Checkout, Push, ledger
  <1>6. ASSUME NEW c \in Candidates, ServeAppend(c) PROVE Moves(d)
    <2>1. "activity" \in EventKinds \ Terminals
      BY Zenon DEF EventKinds, Terminals
    <2> QED BY Zenon, <1>0, <1>6, <2>1, AppendMoves DEF ServeAppend
  <1>7. ASSUME NEW c \in Candidates, ServeSeal(c) PROVE Moves(d)
    BY Zenon, <1>0, <1>7, SealMoves DEF ServeSeal
  <1> QED BY Zenon, <1>1, <1>2, <1>3, <1>4, <1>5, <1>6, <1>7 DEF Next

\* What Moves says of the elements of the two sequences.
LEMMA MovesFacts ==
    ASSUME TypeOK, NEW c \in Candidates, Moves(c)
    PROVE  /\ Len(tape[c]) \in Nat /\ Len(ckpts[c]) \in Nat
           /\ \A i \in 1 .. Len(tape[c]) : tape'[c][i] = tape[c][i]
           /\ \/ Len(tape'[c]) = Len(tape[c])
              \/ /\ Len(tape'[c]) = Len(tape[c]) + 1
                 /\ tape'[c][Len(tape[c]) + 1] \in Terminals =>
                        MayTerminate(c, tape'[c][Len(tape[c]) + 1])
           /\ \A k \in 1 .. Len(ckpts[c]) : ckpts'[c][k] = ckpts[c][k]
           /\ \/ Len(ckpts'[c]) = Len(ckpts[c])
              \/ /\ Len(ckpts'[c]) = Len(ckpts[c]) + 1
                 /\ ckpts'[c][Len(ckpts[c]) + 1] = Len(tape'[c])
           /\ result[c] # Absent => result'[c] = result[c]
           /\ \/ result'[c] = result[c]
              \/ /\ Len(tape'[c]) = Len(tape[c]) + 1
                 /\ tape'[c][Len(tape[c]) + 1] = "promotion_result_recorded"
  <1> DEFINE t == tape[c]
             s == ckpts[c]
  <1>0. t \in Seq(EventKinds) /\ s \in Seq(Nat)
    BY Zenon DEF TypeOK
  <1> HIDE DEF t, s
  <1>1. ASSUME NEW e \in EventKinds
        PROVE  /\ Len(Append(t, e)) = Len(t) + 1 /\ Append(t, e)[Len(t) + 1] = e
               /\ \A i \in 1 .. Len(t) : Append(t, e)[i] = t[i]
    BY <1>0
  <1>2. ASSUME NEW n \in Nat
        PROVE  /\ Len(Append(s, n)) = Len(s) + 1 /\ Append(s, n)[Len(s) + 1] = n
               /\ \A i \in 1 .. Len(s) : Append(s, n)[i] = s[i]
    BY <1>0
  <1>3. Len(t) \in Nat /\ Len(s) \in Nat
    BY <1>0
  <1>4. "promotion_result_recorded" \in EventKinds
    BY Zenon DEF EventKinds
  <1>5. /\ \A i \in 1 .. Len(t) : tape'[c][i] = t[i]
        /\ \/ Len(tape'[c]) = Len(t)
           \/ /\ Len(tape'[c]) = Len(t) + 1
              /\ tape'[c][Len(t) + 1] \in Terminals => MayTerminate(c, tape'[c][Len(t) + 1])
    BY Zenon, <1>1 DEF Moves, t
  <1>6. Len(tape'[c]) \in Nat
    BY <1>3, <1>5
  <1>7. /\ \A k \in 1 .. Len(s) : ckpts'[c][k] = s[k]
        /\ \/ Len(ckpts'[c]) = Len(s)
           \/ Len(ckpts'[c]) = Len(s) + 1 /\ ckpts'[c][Len(s) + 1] = Len(tape'[c])
    BY Zenon, <1>2, <1>6 DEF Moves, s
  <1>8. /\ result[c] # Absent => result'[c] = result[c]
        /\ \/ result'[c] = result[c]
           \/ /\ Len(tape'[c]) = Len(t) + 1
              /\ tape'[c][Len(t) + 1] = "promotion_result_recorded"
    BY Zenon, <1>1, <1>4 DEF Moves, t
  <1> QED BY Zenon, <1>3, <1>5, <1>7, <1>8 DEF t, s

\* A seal stays where it is.
LEMMA SealedBeforeKept ==
    ASSUME TypeOK, NEW c \in Candidates, Moves(c), NEW j \in Nat, SealedBefore(c, j),
           NEW n \in Nat, j <= n
    PROVE  SealedBefore(c, n)'
  <1>1. PICK i \in 1 .. Len(tape[c]), k \in 1 .. Len(ckpts[c]) :
            /\ tape[c][i] = "promotion_result_recorded"
            /\ i <= ckpts[c][k] /\ ckpts[c][k] < j
    BY Zenon DEF SealedBefore
  <1>2. /\ Len(tape[c]) \in Nat /\ Len(ckpts[c]) \in Nat
        /\ tape'[c][i] = tape[c][i] /\ ckpts'[c][k] = ckpts[c][k]
        /\ Len(tape'[c]) = Len(tape[c]) \/ Len(tape'[c]) = Len(tape[c]) + 1
        /\ Len(ckpts'[c]) = Len(ckpts[c]) \/ Len(ckpts'[c]) = Len(ckpts[c]) + 1
    BY Zenon, MovesFacts
  <1>3. i \in 1 .. Len(tape'[c]) /\ k \in 1 .. Len(ckpts'[c])
    BY <1>2
  <1>4. ckpts[c][k] \in Nat
    BY DEF TypeOK
  <1>5. ckpts[c][k] < n
    BY <1>1, <1>4
  <1> QED BY Zenon, <1>1, <1>2, <1>3, <1>5 DEF SealedBefore

\* The rows and tapes keep their part of the invariant.
LEMMA TerminalInvKept ==
    ASSUME PInv, TInv, NEW c \in Candidates, Moves(c)
    PROVE  TerminalInv(c)'
  <1> DEFINE n == Len(tape[c])
             m == Len(ckpts[c])
  <1>0. TypeOK /\ TerminalInv(c)
    BY Zenon DEF PInv, TInv
  <1>f. /\ n \in Nat /\ m \in Nat
        /\ \A i \in 1 .. n : tape'[c][i] = tape[c][i]
        /\ \/ Len(tape'[c]) = n
           \/ /\ Len(tape'[c]) = n + 1
              /\ tape'[c][n + 1] \in Terminals => MayTerminate(c, tape'[c][n + 1])
        /\ \A k \in 1 .. m : ckpts'[c][k] = ckpts[c][k]
        /\ \/ Len(ckpts'[c]) = m
           \/ Len(ckpts'[c]) = m + 1 /\ ckpts'[c][m + 1] = Len(tape'[c])
        /\ result[c] # Absent => result'[c] = result[c]
        /\ \/ result'[c] = result[c]
           \/ Len(tape'[c]) = n + 1 /\ tape'[c][n + 1] = "promotion_result_recorded"
    BY Zenon, <1>0, MovesFacts
  <1>1. ASSUME result'[c] # Absent
        PROVE  \E i \in 1 .. Len(tape'[c]) : tape'[c][i] = "promotion_result_recorded"
    <2>1. CASE result'[c] = result[c]
      <3>1. PICK i \in 1 .. n : tape[c][i] = "promotion_result_recorded"
        BY Zenon, <1>0, <1>1, <2>1 DEF TerminalInv, OnTape
      <3>2. i \in 1 .. Len(tape'[c])
        BY <1>f
      <3> QED BY Zenon, <1>f, <3>1, <3>2
    <2>2. CASE result'[c] # result[c]
      <3>1. n + 1 \in 1 .. Len(tape'[c]) /\ tape'[c][n + 1] = "promotion_result_recorded"
        BY <1>f, <2>2
      <3> QED BY Zenon, <3>1
    <2> QED BY Zenon, <2>1, <2>2
  <1>2. ASSUME NEW k \in 1 .. Len(ckpts'[c]) PROVE ckpts'[c][k] <= Len(tape'[c])
    <2>1. CASE k \in 1 .. m
      <3>1. ckpts[c][k] <= n /\ ckpts[c][k] \in Nat
        BY <1>0, <2>1 DEF TerminalInv, TypeOK
      <3> QED BY <1>f, <2>1, <3>1
    <2>2. CASE k \notin 1 .. m
      BY <1>f, <2>2
    <2> QED BY Zenon, <2>1, <2>2
  <1>3. ASSUME NEW j \in 1 .. Len(tape'[c]), tape'[c][j] \in Terminals
        PROVE  /\ result'[c] # Absent /\ Final(result'[c].outcome)
               /\ tape'[c][j] = TerminalKind(result'[c].outcome)
               /\ SealedBefore(c, j)'
    <2>1. CASE j \in 1 .. n
      <3>1. /\ result[c] # Absent /\ Final(result[c].outcome)
            /\ tape[c][j] = TerminalKind(result[c].outcome)
            /\ SealedBefore(c, j) /\ result'[c] = result[c] /\ tape'[c][j] = tape[c][j]
        BY Zenon, <1>0, <1>f, <1>3, <2>1 DEF TerminalInv
      <3>2. j \in Nat /\ j <= j
        BY <2>1
      <3>3. SealedBefore(c, j)'
        BY Zenon, <1>0, <3>1, <3>2, SealedBeforeKept
      <3> QED BY Zenon, <3>1, <3>3
    <2>2. CASE j \notin 1 .. n
      <3>1. j = n + 1 /\ Len(tape'[c]) = n + 1
        BY <1>f, <2>2
      <3>2. MayTerminate(c, tape'[c][j])
        BY <1>3, <1>f, <3>1
      <3>3. PICK h \in Hosts : /\ RunOf[h] = c /\ frame[h].pc = "record_terminal"
                               /\ tape'[c][j] = TerminalKind(result[c].outcome)
        BY Zenon, <3>2 DEF MayTerminate
      <3>4. result[c] # Absent
        BY Zenon, <3>3 DEF PInv, FrameInv
      <3>5. Final(result[c].outcome) /\ SealedBefore(c, n + 1)
        BY Zenon, <3>3 DEF TInv, TerminalDue
      <3>6. j \in Nat /\ n + 1 \in Nat /\ n + 1 <= j
        BY <1>f, <3>1
      <3>7. SealedBefore(c, j)'
        BY Zenon, <1>0, <3>5, <3>6, SealedBeforeKept
      <3> QED BY Zenon, <1>f, <3>3, <3>4, <3>5, <3>7
    <2> QED BY Zenon, <2>1, <2>2
  <1> QED BY Zenon, <1>1, <1>2, <1>3 DEF TerminalInv, OnTape

\* No step but the seal of a final result brings a host to record_terminal.
LEMMA ReachesTerminal ==
    ASSUME PInv, [Next]_vars, NEW h \in Hosts, frame'[h].pc = "record_terminal"
    PROVE  \/ frame'[h] = frame[h]
           \/ SealResult(h) /\ CanSeal(ckpts[RunOf[h]]) /\ Final(result[RunOf[h]].outcome)
  <1>0. TypeOK /\ frame \in [Hosts -> Frames]
    BY Zenon DEF PInv, TypeOK, Frames
  <1>1. ASSUME NEW g \in Hosts, NEW pc \in Pcs \ {"record_terminal"}, Go(g, pc)
        PROVE  frame'[h] = frame[h]
    BY Zenon, <1>0, <1>1, GoFacts
  <1>2. ASSUME NEW g \in Hosts, Return(g)
        PROVE  frame'[h] = frame[h]
    <2>1. Idle.pc # "record_terminal"
      BY DEF Idle
    <2> QED BY Zenon, <1>0, <1>2, <2>1, ReturnFacts
  <1>3. ASSUME NEW g \in Hosts, NEW pc \in Pcs \ {"record_terminal"},
               \/ \E m \in Nat : frame' = [frame EXCEPT ![g].pc = pc, ![g].mark = m]
               \/ \E b \in BOOLEAN : frame' = [frame EXCEPT ![g].pc = pc, ![g].claimed = b]
               \/ \E o \in Observations : frame' = [frame EXCEPT ![g].pc = pc, ![g].seen = o]
        PROVE  frame'[h] = frame[h]
    BY Zenon, <1>0, <1>3, GoWithFacts
  <1>p. {"idle", "record_decision", "seal_decision", "emit_checkpoint", "check_covering",
         "mark_sealed", "claim", "seal_claim", "git_inspect", "git_advance", "git_observe",
         "record_result", "seal_result", "seal_terminal", "reobserve", "record_abandon"}
        \subseteq Pcs \ {"record_terminal"}
    BY Zenon DEF Pcs
  <1>l. \A c \in Candidates : Len(ckpts[c]) \in Nat /\ Len(ckpts[c]) + 1 \in Nat
    BY <1>0 DEF TypeOK
  <1>r. \A g \in Hosts : RunOf[g] \in Candidates
    BY Zenon, HostRun
  <1>4. ASSUME NEW g \in Hosts, HostStep(g)
        PROVE  \/ frame'[h] = frame[h]
               \/ SealResult(h) /\ CanSeal(ckpts[RunOf[h]]) /\ Final(result[RunOf[h]].outcome)
    <2>1. CASE RecordDecision(g) \/ MarkSealed(g) \/ CheckCovering(g)
      BY Zenon, <1>1, <1>2, <1>p, <2>1 DEF RecordDecision, MarkSealed, CheckCovering
    <2>2. CASE SealDecision(g) \/ EmitCheckpoint(g)
      BY Zenon, <1>1, <1>2, <1>3, <1>p, <1>l, <1>r, <2>2 DEF SealDecision, EmitCheckpoint
    <2>3. CASE ClaimExecution(g) \/ SealClaim(g) \/ GitInspect(g) \/ GitAdvance(g)
      BY Zenon, <1>1, <1>2, <1>p, <2>3 DEF ClaimExecution, SealClaim, GitInspect, GitAdvance
    <2>4. CASE GitObserve(g)
      <3>1. Observed(RunOf[g]) \in Observations
        BY Zenon, <1>0 DEF Observed, Observations, TypeOK
      <3> QED BY Zenon, <1>2, <1>3, <1>p, <2>4, <3>1 DEF GitObserve
    <2>5. CASE RecordResult(g) \/ RecordTerminal(g) \/ SealTerminal(g)
      BY Zenon, <1>1, <1>2, <1>p, <2>5 DEF RecordResult, RecordTerminal, SealTerminal
    <2>6. CASE Reobserve(g) \/ RecordAbandon(g)
      BY Zenon, <1>1, <1>2, <1>p, <2>6 DEF Reobserve, RecordAbandon
    <2>7. CASE SealResult(g)
      <3>1. CASE g = h
        <4>1. CASE ~CanSeal(ckpts[RunOf[g]]) \/ ~Final(result[RunOf[g]].outcome)
          BY Zenon, <1>2, <2>7, <4>1 DEF SealResult
        <4> QED BY Zenon, <2>7, <3>1, <4>1
      <3>2. CASE g # h
        <4>1. "record_terminal" \in Pcs
          BY Zenon DEF Pcs
        <4>2. Go(g, "record_terminal") \/ Return(g)
          BY Zenon, <2>7 DEF SealResult
        <4> QED BY Zenon, <1>0, <3>2, <4>1, <4>2, GoFacts, ReturnFacts
      <3> QED BY Zenon, <3>1, <3>2
    <2> QED BY Zenon, <1>4, <2>1, <2>2, <2>3, <2>4, <2>5, <2>6, <2>7 DEF HostStep
  <1>5. ASSUME NEW g \in Hosts, NEW kind \in Kinds, ReceiveDecision(g, kind)
        PROVE  frame'[h] = frame[h]
    <2>1. frame' = [frame EXCEPT ![g].pc = "record_decision", ![g].kind = kind]
      BY Zenon, <1>5 DEF ReceiveDecision
    <2>2. frame'[g] = [frame[g] EXCEPT !.pc = "record_decision", !.kind = kind]
      BY Zenon, <1>0, <2>1
    <2>3. frame'[g].pc = "record_decision"
      BY Zenon, <1>0, <2>2 DEF Frames
    <2> QED BY Zenon, <1>0, <2>1, <2>3
  <1>6. ASSUME NEW g \in Hosts, ReceiveExecution(g) \/ ReceiveAbandon(g) \/ Crash(g)
        PROVE  frame'[h] = frame[h]
    <2>1. OnTape(RunOf[g], "promotion_execution_claimed") \in BOOLEAN
      BY Zenon DEF OnTape
    <2> QED BY Zenon, <1>1, <1>2, <1>3, <1>6, <1>p, <2>1
            DEF ReceiveExecution, ReceiveAbandon, Crash
  <1>7. CASE \/ Tick \/ Checkout \/ \E commit \in receipts \cup {Base, Foreign} : Push(commit)
             \/ \E c \in Candidates : ServeAppend(c) \/ ServeSeal(c)
    BY Zenon, <1>7 DEF Tick, Checkout, Push, ServeAppend, ServeSeal
  <1>8. CASE UNCHANGED vars
    BY Zenon, <1>8 DEF vars
  <1> QED BY Zenon, <1>4, <1>5, <1>6, <1>7, <1>8 DEF Next

\* What a host at record_terminal relies on holds when it gets there and
\* stays true until it records.
LEMMA TerminalDueKept ==
    ASSUME PInv, TInv, [Next]_vars, NEW h \in Hosts, Moves(RunOf[h]),
           frame'[h].pc = "record_terminal"
    PROVE  /\ Final(result'[RunOf[h]].outcome)
           /\ SealedBefore(RunOf[h], Len(tape[RunOf[h]]) + 1)'
  <1> DEFINE c == RunOf[h]
  <1>0. TypeOK /\ c \in Candidates /\ Len(tape[c]) \in Nat
    BY Zenon, HostRun, MovesFacts DEF PInv
  <1>1. CASE frame'[h] = frame[h]
    <2>1. /\ Final(result[c].outcome) /\ SealedBefore(c, Len(tape[c]) + 1)
          /\ result[c] # Absent
      BY Zenon, <1>1 DEF TInv, TerminalDue, PInv, FrameInv
    <2>2. Len(tape'[c]) = Len(tape[c]) \/ Len(tape'[c]) = Len(tape[c]) + 1
      BY Zenon, <1>0, MovesFacts
    <2>3. PICK n : n = Len(tape'[c]) + 1
      OBVIOUS
    <2>4. n \in Nat /\ Len(tape[c]) + 1 \in Nat /\ Len(tape[c]) + 1 <= n
      BY <1>0, <2>2, <2>3
    <2>5. SealedBefore(c, n)'
      BY Zenon, <1>0, <2>1, <2>4, SealedBeforeKept
    <2>6. result'[c] = result[c]
      BY Zenon, <1>0, <2>1, MovesFacts
    <2> QED BY Zenon, <2>1, <2>3, <2>5, <2>6 DEF SealedBefore
  <1>2. CASE SealResult(h) /\ CanSeal(ckpts[c]) /\ Final(result[c].outcome)
    <2>1. /\ ckpts' = [ckpts EXCEPT ![c] = Sealed(tape[c], @)]
          /\ tape' = tape /\ result' = result /\ frame[h].pc = "seal_result"
      BY Zenon, <1>2 DEF SealResult, At
    <2>2. result[c] # Absent /\ Covered(ckpts[c]) <= Len(tape[c])
      BY Zenon, <1>0, <2>1 DEF PInv, FrameInv, RowInv
    <2>3. PICK i \in 1 .. Len(tape[c]) : tape[c][i] = "promotion_result_recorded"
      BY Zenon, <1>0, <2>2 DEF TInv, TerminalInv, OnTape
    <2>4. ckpts' \in [Candidates -> Seq(Nat)] /\ Covered(ckpts'[c]) = Len(tape[c])
      BY Zenon, <1>0, <2>1, <2>2, SealFacts
    <2>5. ckpts'[c] # <<>>
      <3>1. Covered(<<>>) = 0
        BY Zenon DEF Covered
      <3> QED BY <1>0, <2>3, <2>4, <3>1
    <2>6. ckpts'[c][Len(ckpts'[c])] = Len(tape[c])
      BY Zenon, <2>4, <2>5 DEF Covered
    <2>7. Len(ckpts'[c]) \in 1 .. Len(ckpts'[c])
      <3>1. ckpts'[c] \in Seq(Nat)
        BY Zenon, <1>0, <2>4
      <3> QED BY <2>5, <3>1
    <2>8. i <= Len(tape[c]) /\ Len(tape[c]) < Len(tape[c]) + 1
      BY <1>0
    <2> QED BY Zenon, <1>2, <2>1, <2>3, <2>6, <2>7, <2>8 DEF SealedBefore
  <1> QED BY Zenon, <1>1, <1>2, ReachesTerminal

\* The invariant holds throughout.
LEMMA TInvAlways == Spec => []TInv
  <1>1. Init => TInv
    <2> SUFFICES ASSUME Init PROVE TInv
      OBVIOUS
    <2>1. ASSUME NEW c \in Candidates PROVE TerminalInv(c)
      <3>1. /\ tape[c] = <<"promotion_approval_requested">> /\ ckpts[c] = <<1>>
            /\ result[c] = Absent
        BY Zenon DEF Init
      <3>2. "promotion_approval_requested" \notin Terminals
        BY Zenon DEF Terminals
      <3>3. Len(tape[c]) = 1 /\ Len(ckpts[c]) = 1 /\ ckpts[c][1] = 1
            /\ tape[c][1] = "promotion_approval_requested"
        BY <3>1
      <3> QED BY <3>1, <3>2, <3>3 DEF TerminalInv
    <2>2. ASSUME NEW h \in Hosts PROVE TerminalDue(h)
      BY DEF Init, Idle, TerminalDue
    <2> QED BY Zenon, <2>1, <2>2 DEF TInv
  <1>2. PInv /\ TInv /\ [Next]_vars => TInv'
    <2> SUFFICES ASSUME PInv, TInv, [Next]_vars PROVE TInv'
      OBVIOUS
    <2>1. \A c \in Candidates : Moves(c)
      BY Zenon, StepMoves
    <2>2. \A c \in Candidates : TerminalInv(c)'
      BY Zenon, <2>1, TerminalInvKept
    <2>3. ASSUME NEW h \in Hosts PROVE TerminalDue(h)'
      BY Zenon, <2>1, HostRun, TerminalDueKept DEF TerminalDue, Final
    <2> QED BY Zenon, <2>2, <2>3 DEF TInv
  <1> QED BY <1>1, <1>2, PInvAlways, PTL DEF Spec

\* A workflow terminal is signed only over a final result that a checkpoint
\* already covered, and says what that result says
\* (record_workflow_terminal_v2_for_final_promotion_result), although the seal
\* and the terminal are commits of their own and hosts crash between them.
THEOREM TerminalIsEarned == Spec => []TerminalFollowsSealedResult
  <1>1. TInv => TerminalFollowsSealedResult
    <2> SUFFICES ASSUME TInv, NEW c \in Candidates, NEW j \in Positions(c, Terminals)
                 PROVE  /\ result[c] # Absent
                        /\ tape[c][j] = CASE result[c].outcome = "promoted" -> "workflow_terminal_completed"
                                         [] result[c].outcome = "rejected" -> "workflow_terminal_failed"
                                         [] OTHER -> "none"
                        /\ \E i \in Positions(c, {"promotion_result_recorded"}), k \in 1 .. Len(ckpts[c]) :
                               i <= ckpts[c][k] /\ ckpts[c][k] < j
      BY Zenon DEF TerminalFollowsSealedResult
    <2>1. /\ result[c] # Absent /\ Final(result[c].outcome)
          /\ tape[c][j] = TerminalKind(result[c].outcome)
          /\ SealedBefore(c, j)
      BY Zenon DEF TInv, TerminalInv, Positions
    <2>2. PICK i \in 1 .. Len(tape[c]), k \in 1 .. Len(ckpts[c]) :
              /\ tape[c][i] = "promotion_result_recorded"
              /\ i <= ckpts[c][k] /\ ckpts[c][k] < j
      BY Zenon, <2>1 DEF SealedBefore
    <2>3. i \in Positions(c, {"promotion_result_recorded"})
      BY Zenon, <2>2 DEF Positions
    <2>4. tape[c][j] = CASE result[c].outcome = "promoted" -> "workflow_terminal_completed"
                         [] result[c].outcome = "rejected" -> "workflow_terminal_failed"
                         [] OTHER -> "none"
      BY <2>1 DEF Final, TerminalKind
    <2> QED BY Zenon, <2>1, <2>2, <2>3, <2>4
  <1> QED BY <1>1, TInvAlways, PTL

-----------------------------------------------------------------------------
(* One base, one candidate *)

\* While nobody pushes, the head is the base or the merge of the one receipt.
HeadIsReceipt ==
    spent.pushes = 0 =>
        \/ target = Base /\ receipts = {}
        \/ target # Base /\ \E c \in Candidates : receipts = {c}

\* While nobody else puts the base back, the compare-and-swap of the ref
\* transaction (PromotionGitGateway) lets at most one of any number of
\* candidates approved for one branch move it.
THEOREM OneMoves == Spec => []OneCandidateMovesTheBase
  <1>1. Init => HeadIsReceipt
    BY Zenon DEF Init, HeadIsReceipt
  <1>2. PInv /\ HeadIsReceipt /\ [Next]_vars => HeadIsReceipt'
    <2> SUFFICES ASSUME PInv, HeadIsReceipt, [Next]_vars PROVE HeadIsReceipt'
      OBVIOUS
    <2>0. TypeOK /\ \A h \in Hosts : RunOf[h] \in Candidates
      BY Zenon, HostRun DEF PInv
    <2>1. CASE \E h \in Hosts : GitAdvance(h)
      <3>1. PICK h \in Hosts : GitAdvance(h)
        BY Zenon, <2>1
      <3>2. CASE AtomicAdvance(RunOf[h])
        <4>1. /\ target = Base /\ target' = RunOf[h] /\ receipts' = receipts \cup {RunOf[h]}
              /\ spent' = spent
          BY Zenon, <3>1, <3>2 DEF GitAdvance, AtomicAdvance
        <4>2. RunOf[h] # Base
          BY Zenon, <2>0, HostAssumption
        <4>3. spent.pushes = 0 => receipts' = {RunOf[h]}
          BY Zenon, <4>1 DEF HeadIsReceipt
        <4> QED BY Zenon, <2>0, <4>1, <4>2, <4>3 DEF HeadIsReceipt
      <3>3. CASE ~AtomicAdvance(RunOf[h])
        BY Zenon, <3>1, <3>3 DEF GitAdvance, HeadIsReceipt
      <3> QED BY Zenon, <3>2, <3>3
    <2>2. CASE Checkout \/ \E commit \in receipts \cup {Base, Foreign} : Push(commit)
      <3>1. spent' = [spent EXCEPT !.pushes = @ + 1]
        BY Zenon, <2>2 DEF Checkout, Push
      <3>2. spent'.pushes # 0
        BY <2>0, <3>1 DEF TypeOK
      <3> QED BY Zenon, <3>2 DEF HeadIsReceipt
    <2>3. CASE UNCHANGED <<target, receipts>> /\ spent'.pushes = spent.pushes
      BY Zenon, <2>3 DEF HeadIsReceipt
    <2>4. ASSUME spent' = spent
                 \/ spent' = [spent EXCEPT !.appends = @ + 1]
                 \/ spent' = [spent EXCEPT !.crashes = @ + 1]
          PROVE  spent'.pushes = spent.pushes
      BY <2>0, <2>4 DEF TypeOK
    <2>5. CASE UNCHANGED vars
      BY Zenon, <2>3, <2>5 DEF vars, git
    <2>6. ASSUME NEW h \in Hosts, HostStep(h), ~GitAdvance(h)
          PROVE  UNCHANGED <<target, receipts>> /\ spent'.pushes = spent.pushes
      BY Zenon, <2>6 DEF HostStep, RecordDecision, SealDecision, EmitCheckpoint,
         CheckCovering, MarkSealed, ClaimExecution, SealClaim, GitInspect, GitObserve,
         RecordResult, SealResult, RecordTerminal, SealTerminal, Reobserve,
         RecordAbandon, git
    <2>7. ASSUME \/ \E h \in Hosts, kind \in Kinds : ReceiveDecision(h, kind)
                 \/ \E h \in Hosts : ReceiveExecution(h) \/ ReceiveAbandon(h) \/ Crash(h)
                 \/ Tick \/ \E c \in Candidates : ServeAppend(c) \/ ServeSeal(c)
          PROVE  UNCHANGED <<target, receipts>> /\ spent'.pushes = spent.pushes
      BY Zenon, <2>4, <2>7 DEF ReceiveDecision, ReceiveExecution, ReceiveAbandon, Crash,
         Tick, ServeAppend, ServeSeal, git
    <2> QED BY Zenon, <2>1, <2>2, <2>3, <2>5, <2>6, <2>7 DEF Next
  <1>3. HeadIsReceipt => OneCandidateMovesTheBase
    <2>1. Cardinality({}) = 0 /\ \A c \in Candidates : Cardinality({c}) = 1
      BY Zenon, FS_EmptySet, FS_Singleton
    <2> SUFFICES ASSUME HeadIsReceipt, spent.pushes = 0 PROVE Cardinality(receipts) <= 1
      BY Zenon DEF OneCandidateMovesTheBase
    <2>2. Cardinality(receipts) = 0 \/ Cardinality(receipts) = 1
      BY Zenon, <2>1 DEF HeadIsReceipt
    <2> QED BY <2>2
  <1> QED BY <1>1, <1>2, <1>3, PInvAlways, PTL DEF Spec
=============================================================================
