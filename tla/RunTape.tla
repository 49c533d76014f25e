------------------------------- MODULE RunTape -------------------------------
(***************************************************************************)
(* The signed tape of one governed run and its checkpoints.  A tape is the *)
(* sequence of signed ordinary events; a checkpoint is known here by the   *)
(* number of events it covers (through_event_count), since the ledger      *)
(* recomputes the root over exactly that prefix.                           *)
(***************************************************************************)
EXTENDS Integers, Sequences

Covered(ckpts) == IF ckpts = <<>> THEN 0 ELSE ckpts[Len(ckpts)]

\* Every checkpoint covers more than the one before it.
Advances(ckpts) == \A i \in 2 .. Len(ckpts) : ckpts[i - 1] < ckpts[i]

\* fully_covering_kernel_checkpoint: the latest checkpoint covers the complete
\* signed prefix, not merely the event in question.
FullyCovered(tape, ckpts) == Covered(ckpts) = Len(tape)

\* verify_full_tape_integrity_v1: recovery opens a run only when its chain of
\* checkpoints advances and leaves no signed tail uncovered.
TrustedOpen(tape, ckpts) ==
    ckpts # <<>> /\ Advances(ckpts) /\ FullyCovered(tape, ckpts)

\* seal_governed_signed_prefix fails on a chain that does not advance, and
\* emits nothing when the prefix is already covered.
CanSeal(ckpts) == Advances(ckpts)
Sealed(tape, ckpts) ==
    IF FullyCovered(tape, ckpts) THEN ckpts ELSE Append(ckpts, Len(tape))

\* emit_checkpoint_for_current_signed_prefix: one more checkpoint, whatever
\* the prior one already covers.
Emitted(tape, ckpts) == Append(ckpts, Len(tape))
=============================================================================
