-------------------------------- MODULE Tape --------------------------------
(***************************************************************************)
(* One run's rows in events / event_signatures (bp-ledger/src/storage/     *)
(* sqlite.rs): how ordinary events and tape checkpoints are inserted by    *)
(* several store connections, and the full-tape verification of            *)
(* bp-replay/src/tape_integrity.rs.  An event id is a UUIDv7, known here   *)
(* by its place in the order of all ids.  Wire ids are minted by the host  *)
(* before the line is sent; control and checkpoint ids are minted by the   *)
(* writing process.  A tape root is known by the set of ids it hashes.     *)
(***************************************************************************)
EXTENDS Integers, Sequences, FiniteSets

CONSTANTS
    Writers,      \* store connections, one per process
    Deployments,  \* who writes a run, see Site
    Cadence,      \* CheckpointPolicy::Enabled.cadence
    MaxId,        \* bound: ids minted
    MaxCrashes    \* bound: process deaths and failed checkpoints

\* The writers that accept wire events, the writers that run native controls
\* and seal, and whether ids minted later are greater whoever mints them.
Site == [serving : SUBSET Writers, controlling : SUBSET Writers, ordered : BOOLEAN]

ASSUME TapeAssumption ==
    /\ Deployments \subseteq Site
    /\ "host" \notin Writers
    /\ Cadence \in Nat \ {0} /\ MaxId \in Nat /\ MaxCrashes \in Nat

\* The wire events of a run come from the one host that minted them, through
\* one `ledger serve`; no other process then writes the run, and the ids its
\* host and itself mint follow one clock.
ASSUME DeploymentAssumption ==
    \A s \in Deployments : s.serving # {} =>
        s.ordered /\ \E w \in Writers : s.serving = {w} /\ s.controlling \subseteq {w}

Ids == 1 .. MaxId
None == 0

VARIABLES
    site,      \* the deployment, fixed
    unsigned,  \* ids of ordinary events without a signature row
    signed,    \* ids of ordinary events with one
    ckpts,     \* the signed tape_checkpoint events
    mark,      \* ordinary_id_high_water of each connection
    pc,        \* a signed append that has not yet done its checkpoint step
    minted,    \* the last id each process minted
    unsent,    \* ids the host minted for lines it has not sent yet
    crashes

vars == <<site, unsigned, signed, ckpts, mark, pc, minted, unsent, crashes>>

Init ==
    /\ site \in Deployments
    /\ unsigned = {} /\ signed = {} /\ ckpts = {}
    /\ mark = [w \in Writers |-> None]
    /\ pc = [w \in Writers |-> "idle"]
    /\ minted = [p \in Writers \cup {"host"} |-> None]
    /\ unsent = {} /\ crashes = 0

-----------------------------------------------------------------------------
(* Ids and the rows the queries read *)

Greatest(S) == IF S = {} THEN None ELSE CHOOSE i \in S : \A j \in S : j <= i

Used == unsigned \cup signed \cup unsent \cup {c.id : c \in ckpts}

\* EventId::new: ordered within one process; across processes only while the
\* wall clock does not step back and no two of them mint in one millisecond.
FreshIds(p) ==
    {i \in Ids \ Used :
        IF site.ordered THEN i = Greatest({minted[q] : q \in DOMAIN minted}) + 1
                        ELSE i > minted[p]}

Mint(p, i) == i \in FreshIds(p) /\ minted' = [minted EXCEPT ![p] = i]

\* latest_ordinary_event_id_for_run: checkpoints never constrain it.
LatestOrdinary == Greatest(unsigned \cup signed)

\* latest_ordinary_id: the cached mark, seeded from the table on first use.
Mark_unseeded(w) == mark[w]
Mark(w) == IF mark[w] # None THEN mark[w] ELSE LatestOrdinary

\* latest_checkpoint_for_connection: the signed checkpoint with the greatest id.
Prior == {c \in ckpts : c.id = Greatest({d.id : d \in ckpts})}
CoveredIds == UNION {c.root : c \in Prior}

-----------------------------------------------------------------------------
(* Checkpoints *)

\* emit_checkpoint_in_transaction: chained to the prior one, over every signed
\* ordinary event of the run.
NewCheckpoint_unchained(i) ==
    [id |-> i, index |-> 0, previous |-> None, root |-> signed]
NewCheckpoint(i) ==
    [id |-> i, root |-> signed,
     index |-> IF Prior = {} THEN 0 ELSE (CHOOSE c \in Prior : TRUE).index + 1,
     previous |-> Greatest({c.id : c \in ckpts})]

EmitCheckpoint(w) ==
    \E i \in Ids : Mint(w, i) /\ ckpts' = ckpts \cup {NewCheckpoint(i)}

\* The checks verify_governed_checkpoint_chain_for_seal and
\* verify_full_tape_integrity_v1 make of one checkpoint, in id order: its root
\* is exactly a prefix of the signed tape, index and predecessor are those of
\* its place, and it covers more than its predecessor.
Before(c) == {d \in ckpts : d.id < c.id}
CheckpointValid(c) ==
    /\ c.root # {} /\ c.root = {i \in signed : i <= Greatest(c.root)}
    /\ c.index = Cardinality(Before(c))
    /\ c.previous = Greatest({d.id : d \in Before(c)})
    /\ \A d \in Before(c) : Greatest(d.root) < Greatest(c.root)
ChainVerifies == \A c \in ckpts : CheckpointValid(c)

\* verify_full_tape_integrity_v1: a chain, with no signed tail after it.
Opens == ckpts # {} /\ ChainVerifies /\ CoveredIds = signed

-----------------------------------------------------------------------------
(* Wire events *)

HostMints ==
    /\ \E i \in Ids : Mint("host", i) /\ unsent' = unsent \cup {i}
    /\ UNCHANGED <<site, unsigned, signed, ckpts, mark, pc, crashes>>

\* validate_external_append (c), then the insert as a second step; no other
\* thread shares the connection.
AcceptsId(w, i) == i > Mark(w)

\* append: the unsigned lane.
AppendRaw(w, i) ==
    /\ w \in site.serving /\ pc[w] = "idle" /\ i \in unsent
    /\ AcceptsId(w, i)
    /\ unsigned' = unsigned \cup {i}
    /\ mark' = [mark EXCEPT ![w] = i]
    /\ unsent' = unsent \ {i}
    /\ UNCHANGED <<site, signed, ckpts, pc, minted, crashes>>

\* append_signed_with_checkpoint up to its first commit.
AppendSigned(w, i, final) ==
    /\ w \in site.serving /\ pc[w] = "idle" /\ i \in unsent
    /\ AcceptsId(w, i)
    /\ signed' = signed \cup {i}
    /\ mark' = [mark EXCEPT ![w] = i]
    /\ unsent' = unsent \ {i}
    /\ pc' = [pc EXCEPT ![w] = IF final THEN "final" ELSE "cadence"]
    /\ UNCHANGED <<site, unsigned, ckpts, minted, crashes>>

\* NonMonotonicEventId: the line is lost, the mark is seeded all the same.
RejectWire(w, i) ==
    /\ w \in site.serving /\ pc[w] = "idle" /\ i \in unsent
    /\ ~AcceptsId(w, i)
    /\ mark' = [mark EXCEPT ![w] = Mark(w)]
    /\ unsent' = unsent \ {i}
    /\ UNCHANGED <<site, unsigned, signed, ckpts, pc, minted, crashes>>

\* emit_checkpoint_if_due_for_current_signed_prefix: the second transaction.
Uncheckpointed == Cardinality(signed) - Cardinality(CoveredIds)
Due_exactly(final) == Uncheckpointed = Cadence \/ (final /\ Uncheckpointed >= 1)
Due(final) == Uncheckpointed >= Cadence \/ (final /\ Uncheckpointed >= 1)

CheckpointIfDue(w) ==
    /\ pc[w] # "idle"
    /\ IF Due(pc[w] = "final") THEN EmitCheckpoint(w) ELSE UNCHANGED <<ckpts, minted>>
    /\ pc' = [pc EXCEPT ![w] = "idle"]
    /\ UNCHANGED <<site, unsigned, signed, mark, unsent, crashes>>

\* The checkpoint transaction fails and rolls back: the error ends the append,
\* the ordinary event stays.
CheckpointFails(w) ==
    /\ pc[w] # "idle" /\ crashes < MaxCrashes
    /\ crashes' = crashes + 1
    /\ pc' = [pc EXCEPT ![w] = "idle"]
    /\ UNCHANGED <<site, unsigned, signed, ckpts, mark, minted, unsent>>

-----------------------------------------------------------------------------
(* Native controls *)

\* The event of a control: minted, checked against the table inside the
\* control's own transaction (validate_new_ordinary_event_id), inserted with
\* its signature, and noted in the connection's mark.
ControlAccepts(i) == i > LatestOrdinary
Control(w) ==
    /\ w \in site.controlling /\ pc[w] = "idle"
    /\ \E i \in Ids :
        /\ Mint(w, i)
        /\ IF ControlAccepts(i)
           THEN /\ signed' = signed \cup {i}
                /\ mark' = [mark EXCEPT ![w] = i]
           ELSE UNCHANGED <<signed, mark>>
    /\ UNCHANGED <<site, unsigned, ckpts, pc, unsent, crashes>>

\* seal_governed_signed_prefix, one immediate transaction: refuse a broken
\* chain, keep a checkpoint that already covers the prefix, or emit one.
NeedsSeal == signed # {} /\ CoveredIds # signed
Seal(w) ==
    /\ w \in site.controlling /\ pc[w] = "idle"
    /\ ChainVerifies /\ NeedsSeal
    /\ EmitCheckpoint(w)
    /\ UNCHANGED <<site, unsigned, signed, mark, pc, unsent, crashes>>

\* A process dies and is restarted with an empty cache and no memory of the
\* ids it minted.
Crash(w) ==
    /\ crashes < MaxCrashes
    /\ crashes' = crashes + 1
    /\ mark' = [mark EXCEPT ![w] = None]
    /\ pc' = [pc EXCEPT ![w] = "idle"]
    /\ minted' = IF site.ordered THEN minted ELSE [minted EXCEPT ![w] = None]
    /\ UNCHANGED <<site, unsigned, signed, ckpts, unsent>>

Next ==
    \/ HostMints
    \/ \E w \in Writers :
        \/ \E i \in Ids : AppendRaw(w, i) \/ RejectWire(w, i)
        \/ \E i \in Ids, final \in BOOLEAN : AppendSigned(w, i, final)
        \/ CheckpointIfDue(w) \/ CheckpointFails(w)
        \/ Control(w) \/ Seal(w) \/ Crash(w)

Spec == Init /\ [][Next]_vars

-----------------------------------------------------------------------------
\* Whatever is appended, sealed, refused or lost in a crash, every checkpoint
\* ever written still describes exactly its prefix of the tape and its place in
\* the chain, so recovery never meets a tape it wrote and cannot verify.  The
\* order of ids among processes is needed: checkpoint ids are compared with
\* nothing, and the chain is read back in id order.  And every checkpoint
\* written leaves the run in a state recovery opens: no signed event is left
\* outside, whoever else was writing.
ChainIntact ==
    [][site.ordered => ChainVerifies' /\ (ckpts' # ckpts => Opens')]_vars

\* A checkpoint lost to a failure or a crash is made up for by the next append
\* that completes its checkpoint step, however many events are then waiting.
CadenceHeals ==
    [][\A w \in Writers :
          pc[w] # "idle" /\ pc'[w] = "idle" /\ crashes' = crashes
          => Uncheckpointed' < Cadence]_vars

\* Seen as a sequence of signed events and a sequence of covered lengths, the
\* tables only grow at the end, as every control on top of them assumes.
SortedIds(S) == SelectSeq([i \in Ids |-> i], LAMBDA i : i \in S)
CoveredLengths ==
    LET order == SortedIds({c.id : c \in ckpts})
    IN [n \in 1 .. Len(order) |->
            Cardinality((CHOOSE c \in ckpts : c.id = order[n]).root)]
Log == INSTANCE SignedLog
           WITH EventIds <- Ids, log <- SortedIds(signed),
                cover <- IF site.ordered THEN CoveredLengths ELSE <<>>
ImplementsLog == Log!LogSpec
=============================================================================
