------------------------------ MODULE SignedLog ------------------------------
(***************************************************************************)
(* What the storage layer promises of one run's signed tape, and what the  *)
(* controls built on it rely on: signed events are only ever added at the  *)
(* end, and a checkpoint always covers the whole tape of its moment and    *)
(* more than the checkpoint before it.                                     *)
(***************************************************************************)
EXTENDS RunTape

CONSTANT EventIds

VARIABLES log, cover

LogInit == log = <<>> /\ cover = <<>>

Extend(id) == log' = Append(log, id) /\ UNCHANGED cover

Cover ==
    /\ Covered(cover) < Len(log)
    /\ cover' = Append(cover, Len(log))
    /\ UNCHANGED log

LogNext == Cover \/ \E id \in EventIds : Extend(id)

LogSpec == LogInit /\ [][LogNext]_<<log, cover>>
=============================================================================
