---------------------------- MODULE V5SourceScan -----------------------------
(***************************************************************************)
(* The bounded, durable search for the one verified V5 dispatch envelope   *)
(* with a given digest (storage/sqlite.rs,                                 *)
(* resolve_unique_governed_dispatch_v5_source_by_digest_v1).  A call loads *)
(* at most BatchLimit rows: first envelope events, to index signatures     *)
(* older than the index trigger, then indexed signatures of the configured *)
(* signer.  Its cursors are committed even when the answer is an error, so *)
(* appends and late signatures fall between the batches of one search.     *)
(* The stored completion marks are BOOLEAN here: a mark that is present    *)
(* always equals its cursor and its observed high water.                   *)
(***************************************************************************)
EXTENDS Integers, Sequences, FiniteSets

CONSTANTS
    Digests,     \* V5 envelope digests
    BatchLimit,  \* V5_SOURCE_SCAN_BATCH_LIMIT
    LegacyTapes  \* envelopes signed before the signature index existed

ASSUME ScanAssumption ==
    BatchLimit \in Nat \ {0} /\ LegacyTapes \subseteq Seq(Digests)

VARIABLES
    envelopes,  \* digests of the DispatchEnvelopeV5 events, in rowid order
    sigs,       \* event_signatures: which envelope, and how it verifies
    index,      \* governed_dispatch_v5_signature_scan_index (rows of sigs)
    scans       \* governed_dispatch_v5_source_scans, one row per digest

scanVars == <<envelopes, sigs, index, scans>>

\* "verified" under the source signer, "invalid" under it, or by another key.
Grades == {"verified", "invalid", "foreign"}

NewScan == [eventCursor |-> 0, eventSeen |-> 0, eventDone |-> FALSE,
            cursor |-> 0, seen |-> 0, done |-> FALSE,
            candidate |-> 0, ambiguous |-> FALSE]

ScanInit ==
    /\ envelopes \in LegacyTapes
    /\ sigs = [i \in DOMAIN envelopes |-> [event |-> i, grade |-> "verified"]]
    /\ index = {}
    /\ scans = [d \in Digests |-> NewScan]

-----------------------------------------------------------------------------
(* What writers append.  The AFTER INSERT trigger indexes new signatures.  *)

AppendEnvelope(d) ==
    /\ envelopes' = Append(envelopes, d)
    /\ UNCHANGED <<sigs, index, scans>>

\* One row of the index per signature; the trigger fires in the same commit.
Indexed == index \cup {Len(sigs) + 1}

Signed(e) == \E i \in DOMAIN sigs : sigs[i].event = e

SignEnvelope(e, grade) ==
    /\ e \in DOMAIN envelopes /\ ~Signed(e)
    /\ sigs' = Append(sigs, [event |-> e, grade |-> grade])
    /\ index' = Indexed
    /\ UNCHANGED <<envelopes, scans>>

\* append_signed: the envelope and its signature in one transaction.
AppendSigned(d, grade) ==
    /\ envelopes' = Append(envelopes, d)
    /\ sigs' = Append(sigs, [event |-> Len(envelopes) + 1, grade |-> grade])
    /\ index' = Indexed
    /\ UNCHANGED scans

-----------------------------------------------------------------------------
(* One bounded call *)

Highest(S) == CHOOSE m \in S \cup {0} : \A x \in S : x <= m
Lowest(S) == CHOOSE m \in S : \A x \in S : m <= x
FirstOf(S, n) == {x \in S : Cardinality({y \in S : y < x}) < n}

EventHighWater(d) == Highest({e \in DOMAIN envelopes : envelopes[e] = d})

\* Rows the signer-filtered scan query can return for a digest.
Scannable(rows, d) ==
    {i \in rows : envelopes[sigs[i].event] = d /\ sigs[i].grade # "foreign"}
SignatureHighWater(rows, d) == Highest(Scannable(rows, d))

BootstrapBatch(scan, d) ==
    FirstOf({e \in DOMAIN envelopes : envelopes[e] = d /\ e > scan.eventCursor},
            BatchLimit)
Bootstrapped(batch) == index \cup {i \in DOMAIN sigs : sigs[i].event \in batch}

\* bootstrap_governed_dispatch_v5_signature_scan_index
AfterBootstrap(scan, batch, d) ==
    LET cursor == Highest({scan.eventCursor} \cup batch)
    IN [scan EXCEPT !.eventCursor = cursor, !.eventSeen = EventHighWater(d),
                    !.eventDone = cursor = EventHighWater(d)]

\* The signature half runs only once the events are complete, on what is left
\* of the budget; the first verified candidate stays, another one is ambiguous.
AfterSignatures_first_wins(scan, rows, d, budget) ==
    LET high  == SignatureHighWater(rows, d)
        batch == FirstOf({i \in Scannable(rows, d) : i > scan.cursor}, budget)
        found == {i \in batch : sigs[i].grade = "verified"}
    IN [scan EXCEPT
            !.cursor = Highest({scan.cursor} \cup batch), !.seen = high,
            !.done = Highest({scan.cursor} \cup batch) = high,
            !.candidate = IF scan.candidate = 0 /\ found # {}
                          THEN sigs[Lowest(found)].event ELSE scan.candidate]
AfterSignatures(scan, rows, d, budget) ==
    LET high  == SignatureHighWater(rows, d)
        batch == FirstOf({i \in Scannable(rows, d) : i > scan.cursor}, budget)
        found == {i \in batch : sigs[i].grade = "verified"}
        first == IF scan.candidate = 0 /\ found # {}
                 THEN sigs[Lowest(found)].event ELSE scan.candidate
    IN [scan EXCEPT
            !.cursor = Highest({scan.cursor} \cup batch), !.seen = high,
            !.done = Highest({scan.cursor} \cup batch) = high,
            !.candidate = first,
            !.ambiguous = scan.ambiguous \/ \E i \in found : sigs[i].event # first]

\* The call as a whole: one immediate transaction that commits its progress.
Resolve(d) ==
    \E batch \in {BootstrapBatch(scans[d], d)} :
    \E rows \in {Bootstrapped(batch)}, boot \in {AfterBootstrap(scans[d], batch, d)} :
        /\ index' = rows
        /\ \E scan \in {IF boot.eventDone
                         THEN AfterSignatures(boot, rows, d,
                                              BatchLimit - Cardinality(batch))
                         ELSE boot} :
            scans' = [scans EXCEPT ![d] = scan]
        /\ UNCHANGED <<envelopes, sigs>>

\* resolved_governed_dispatch_v5_source_from_projection, against the high
\* waters of this moment: complete, unambiguous, and a candidate; else 0.
Complete(scan, rows, d) ==
    /\ scan.eventDone /\ scan.eventCursor = EventHighWater(d)
    /\ scan.done /\ scan.cursor = SignatureHighWater(rows, d)
Resolved(scan, rows, d) ==
    IF Complete(scan, rows, d) /\ ~scan.ambiguous THEN scan.candidate ELSE 0

-----------------------------------------------------------------------------
VerifiedSources(d) ==
    {e \in DOMAIN envelopes :
        envelopes[e] = d
        /\ \E i \in DOMAIN sigs : sigs[i] = [event |-> e, grade |-> "verified"]}
=============================================================================
