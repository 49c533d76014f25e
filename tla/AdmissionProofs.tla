--------------------------- MODULE AdmissionProofs ---------------------------
(***************************************************************************)
(* Admission for every set of hosts and requests, every batch limit of the *)
(* source scan and any number of other writers and crashes: the bounded    *)
(* scan finds the only verified source, and an identity is admitted once.  *)
(***************************************************************************)
EXTENDS Admission, FiniteSetTheorems, TLAPS

-----------------------------------------------------------------------------
(* Cursors, high waters and batches *)

\* A high water is the greatest row, or 0 where there is none.
LEMMA HighestIs ==
    ASSUME NEW n \in Nat, NEW S \in SUBSET (0 .. n)
    PROVE  /\ Highest(S) \in S \cup {0} /\ Highest(S) \in 0 .. n
           /\ \A x \in S : x <= Highest(S)
<1> DEFINE Z == S \cup {0}
           T == {n - x : x \in Z}
           R == OpToRel(<, Nat)
<1>0. \A x \in Z : x \in 0 .. n /\ n - x \in Nat
    OBVIOUS
<1>1. T \subseteq Nat /\ T # {}
    BY Zenon, <1>0
<1>2. PICK t \in T : \A y \in T : <<y, t>> \notin R
    BY Zenon, <1>1, NatLessThanWellFounded, WFMin
<1>3. \A y \in T : ~(y < t)
    BY Zenon, <1>1, <1>2 DEF OpToRel
<1>4. PICK m \in Z : t = n - m
    OBVIOUS
<1>5. \A x \in Z : n - x \in T
    BY Zenon
<1> HIDE DEF T
<1>6. \A x \in Z : x <= m
    BY <1>0, <1>3, <1>4, <1>5
<1>7. Highest(S) \in Z /\ \A x \in S : x <= Highest(S)
    BY Zenon, <1>6 DEF Highest
<1> QED BY Zenon, <1>0, <1>7

\* A batch with rows in it has a first row.
LEMMA LowestIs ==
    ASSUME NEW S \in SUBSET Nat, S # {}
    PROVE  Lowest(S) \in S
<1> DEFINE R == OpToRel(<, Nat)
<1>1. PICK m \in S : \A y \in S : <<y, m>> \notin R
    BY Zenon, NatLessThanWellFounded, WFMin
<1>2. \A y \in S : ~(y < m)
    BY Zenon, <1>1 DEF OpToRel
<1>3. \A y \in S : m <= y
    BY <1>2
<1> QED BY Zenon, <1>3 DEF Lowest

\* A batch (ORDER BY rowid LIMIT k) leaves out no row under one it holds,
\* whatever the budget.
LEMMA BatchIsPrefix ==
    ASSUME NEW n \in Nat, NEW S \in SUBSET (0 .. n), NEW k \in Int,
           NEW x \in FirstOf(S, k), NEW y \in S, y <= x
    PROVE  y \in FirstOf(S, k)
<1> DEFINE A == {z \in S : z < y}
           B == {z \in S : z < x}
<1>1. x \in S /\ Cardinality(B) < k
    BY Zenon DEF FirstOf
<1>2. x \in Int /\ y \in Int /\ \A z \in S : z \in Int
    BY <1>1
<1>3. A \subseteq B
    <2>1. \A z \in S : z < y => z < x
        BY <1>2
    <2> QED BY Zenon, <2>1
<1>4. IsFiniteSet(S)
    <2>1. IsFiniteSet(0 .. n)
        BY FS_Interval
    <2> QED BY Zenon, <2>1, FS_Subset
<1>5. IsFiniteSet(B)
    BY Zenon, <1>4, FS_Subset
<1>6. IsFiniteSet(A) /\ Cardinality(A) <= Cardinality(B)
    BY Zenon, <1>3, <1>5, FS_Subset
<1>7. Cardinality(A) \in Nat /\ Cardinality(B) \in Nat
    BY Zenon, <1>5, <1>6, FS_CardinalityType
<1> HIDE DEF A, B
<1>8. Cardinality(A) < k
    BY <1>1, <1>6, <1>7
<1> QED BY Zenon, <1>8 DEF FirstOf, A

\* A batch is finite, so what it leaves of the budget is a number.
LEMMA BatchIsCounted ==
    ASSUME NEW n \in Nat, NEW S \in SUBSET (0 .. n), NEW k
    PROVE  FirstOf(S, k) \subseteq S /\ Cardinality(FirstOf(S, k)) \in Nat
<1>1. FirstOf(S, k) \subseteq S
    BY Zenon DEF FirstOf
<1>2. IsFiniteSet(0 .. n)
    BY FS_Interval
<1>3. IsFiniteSet(FirstOf(S, k))
    BY Zenon, <1>1, <1>2, FS_Subset
<1> QED BY Zenon, <1>1, <1>3, FS_CardinalityType

-----------------------------------------------------------------------------
(* The scan *)

Scan == [eventCursor : Nat, eventSeen : Nat, eventDone : BOOLEAN,
         cursor : Nat, seen : Nat, done : BOOLEAN,
         candidate : Nat, ambiguous : BOOLEAN]

SigsOf(d) == {i \in 1 .. Len(sigs) : envelopes[sigs[i].event] = d}

\* What a stored scan says of the signatures of its digest, X being the index:
\* those of events under the event cursor are indexed, and so are all of them
\* once the signature cursor has moved; the verified ones under that cursor
\* are the candidate, or there are two; and the candidate is one.
ScanSound(scan, d, X) ==
    /\ scan \in Scan /\ scan.cursor <= Len(sigs)
    /\ \A i \in SigsOf(d) : sigs[i].event <= scan.eventCursor \/ scan.cursor > 0 => i \in X
    /\ \A i \in SigsOf(d) : i <= scan.cursor /\ sigs[i].grade = "verified" =>
           scan.candidate # 0 /\ (sigs[i].event = scan.candidate \/ scan.ambiguous)
    /\ scan.candidate = 0 \/ scan.candidate \in VerifiedSources(d)

ScanType ==
    /\ envelopes \in Seq(Digests) /\ sigs \in Seq([event : Nat, grade : Grades])
    /\ \A i \in 1 .. Len(sigs) : sigs[i].event \in 1 .. Len(envelopes)
    /\ index \in SUBSET (1 .. Len(sigs)) /\ scans \in [Digests -> Scan]

ScanInv == ScanType /\ \A d \in Digests : ScanSound(scans[d], d, index)

\* The rows and events of a digest are bounded by the tables.
LEMMA ScanFacts ==
    ASSUME ScanType
    PROVE  /\ Len(sigs) \in Nat /\ Len(envelopes) \in Nat
           /\ DOMAIN sigs = 1 .. Len(sigs) /\ DOMAIN envelopes = 1 .. Len(envelopes)
           /\ \A i \in 1 .. Len(sigs) : sigs[i] \in [event : Nat, grade : Grades]
           /\ \A d : SigsOf(d) \in SUBSET (0 .. Len(sigs))
           /\ \A d : {e \in DOMAIN envelopes : envelopes[e] = d}
                        \in SUBSET (0 .. Len(envelopes))
<1>1. /\ Len(sigs) \in Nat /\ Len(envelopes) \in Nat
      /\ DOMAIN sigs = 1 .. Len(sigs) /\ DOMAIN envelopes = 1 .. Len(envelopes)
      /\ \A i \in 1 .. Len(sigs) : sigs[i] \in [event : Nat, grade : Grades]
    <2> DEFINE G == [event : Nat, grade : Grades]
    <2>1. envelopes \in Seq(Digests) /\ sigs \in Seq(G)
        BY Zenon DEF ScanType
    <2> HIDE DEF G
    <2>2. /\ Len(sigs) \in Nat /\ Len(envelopes) \in Nat
          /\ DOMAIN sigs = 1 .. Len(sigs) /\ DOMAIN envelopes = 1 .. Len(envelopes)
          /\ \A i \in 1 .. Len(sigs) : sigs[i] \in G
        BY <2>1
    <2> QED BY Zenon, <2>2 DEF G
<1>2. 1 .. Len(sigs) \subseteq 0 .. Len(sigs) /\ 1 .. Len(envelopes) \subseteq 0 .. Len(envelopes)
    BY <1>1
<1> QED BY Zenon, <1>1, <1>2 DEF SigsOf

\* The answer of resolved_governed_dispatch_v5_source_from_projection: a scan
\* that is complete against this moment's high waters names the only verified
\* envelope with the digest, although no call ever looked at all of them.
LEMMA ResolvedIsTheSource ==
    ASSUME ScanType, NEW d, NEW X \in SUBSET (1 .. Len(sigs)), NEW scan,
           ScanSound(scan, d, X), Resolved(scan, X, d) # 0
    PROVE  VerifiedSources(d) = {Resolved(scan, X, d)}
<1>1. /\ Complete(scan, X, d) /\ ~scan.ambiguous
      /\ Resolved(scan, X, d) = scan.candidate /\ scan.candidate # 0
    BY Zenon DEF Resolved
<1> DEFINE D == {e \in DOMAIN envelopes : envelopes[e] = d}
           Y == Scannable(X, d)
<1>2. \A e \in D : e <= scan.eventCursor
    <2>1. \A e \in D : e <= Highest(D)
        BY Zenon, ScanFacts, HighestIs
    <2>2. scan.eventCursor = Highest(D)
        BY Zenon, <1>1 DEF Complete, EventHighWater
    <2> QED BY Zenon, <2>1, <2>2
<1>3. \A i \in Y : i <= scan.cursor
    <2>1. Y \in SUBSET (0 .. Len(sigs)) /\ Len(sigs) \in Nat
        <3>1. Y \subseteq X /\ Len(sigs) \in Nat
            BY Zenon, ScanFacts DEF Scannable
        <3>2. 1 .. Len(sigs) \subseteq 0 .. Len(sigs)
            BY <3>1
        <3> QED BY Zenon, <3>1, <3>2
    <2>2. \A i \in Y : i <= Highest(Y)
        BY Zenon, <2>1, HighestIs
    <2>3. scan.cursor = Highest(Y)
        BY Zenon, <1>1 DEF Complete, SignatureHighWater
    <2> QED BY Zenon, <2>2, <2>3
<1>4. ASSUME NEW e \in VerifiedSources(d) PROVE e = scan.candidate
    <2>1. e \in D /\ \E i \in DOMAIN sigs : sigs[i] = [event |-> e, grade |-> "verified"]
        BY Zenon DEF VerifiedSources
    <2>2. PICK i \in 1 .. Len(sigs) : sigs[i] = [event |-> e, grade |-> "verified"]
        BY Zenon, <2>1, ScanFacts
    <2>3. sigs[i].event = e /\ sigs[i].grade = "verified" /\ sigs[i].grade # "foreign"
        BY <2>2
    <2>4. i \in SigsOf(d)
        BY Zenon, <2>1, <2>3 DEF SigsOf
    <2>5. i \in X
        BY Zenon, <1>2, <2>1, <2>3, <2>4 DEF ScanSound
    <2>6. i \in Y
        BY Zenon, <2>3, <2>4, <2>5 DEF Scannable, SigsOf
    <2> QED BY Zenon, <1>1, <1>3, <2>3, <2>4, <2>6 DEF ScanSound
<1>5. scan.candidate \in VerifiedSources(d)
    BY Zenon, <1>1 DEF ScanSound
<1> QED BY Zenon, <1>1, <1>4, <1>5

\* The fields of a stored scan (governed_dispatch_v5_source_scans).
LEMMA ScanFieldTypes ==
    ASSUME NEW scan \in Scan
    PROVE  /\ scan.eventCursor \in Nat /\ scan.cursor \in Nat /\ scan.candidate \in Nat
           /\ scan.eventDone \in BOOLEAN /\ scan.ambiguous \in BOOLEAN
BY DEF Scan

\* bootstrap_governed_dispatch_v5_signature_scan_index: the signatures of the
\* events up to the new cursor are indexed, and all of them once it is complete.
LEMMA BootstrapSound ==
    ASSUME ScanType, NEW d, NEW scan, ScanSound(scan, d, index),
           NEW batch, batch = BootstrapBatch(scan, d),
           NEW rws, rws = Bootstrapped(batch),
           NEW boot, boot = AfterBootstrap(scan, batch, d)
    PROVE  /\ rws \in SUBSET (1 .. Len(sigs)) /\ index \subseteq rws
           /\ Cardinality(batch) \in Nat
           /\ ScanSound(boot, d, rws)
           /\ boot.eventDone => SigsOf(d) \subseteq rws
<1> DEFINE D == {e \in DOMAIN envelopes : envelopes[e] = d}
           C == {e \in DOMAIN envelopes : envelopes[e] = d /\ e > scan.eventCursor}
           n == scan.eventCursor + Len(envelopes)
           cur == Highest({scan.eventCursor} \cup batch)
<1>1. scan \in Scan /\ scan.eventCursor \in Nat /\ scan.cursor \in Nat
    BY Zenon, ScanFieldTypes DEF ScanSound
<1>2. /\ Len(sigs) \in Nat /\ Len(envelopes) \in Nat
      /\ DOMAIN sigs = 1 .. Len(sigs) /\ DOMAIN envelopes = 1 .. Len(envelopes)
      /\ D \in SUBSET (0 .. Len(envelopes))
    BY Zenon, ScanFacts
<1>3. C \in SUBSET (0 .. Len(envelopes))
    BY Zenon, <1>2
<1>4. batch = FirstOf(C, BatchLimit) /\ batch \subseteq C /\ Cardinality(batch) \in Nat
    <2>1. batch = FirstOf(C, BatchLimit)
        BY Zenon DEF BootstrapBatch
    <2> QED BY Zenon, <1>2, <1>3, <2>1, BatchIsCounted
<1>5. n \in Nat /\ {scan.eventCursor} \cup batch \in SUBSET (0 .. n)
    <2>1. n \in Nat /\ scan.eventCursor \in 0 .. n
        BY <1>1, <1>2
    <2>2. \A e \in 0 .. Len(envelopes) : e \in 0 .. n
        BY <1>1, <1>2
    <2> QED BY Zenon, <1>3, <1>4, <2>1, <2>2
<1> HIDE DEF n
<1>6. /\ cur \in {scan.eventCursor} \cup batch \cup {0} /\ cur \in 0 .. n
      /\ cur >= scan.eventCursor
    BY <1>1, <1>5, HighestIs
<1>7. cur \in Nat
    BY <1>5, <1>6
<1>8. /\ EventHighWater(d) \in Nat /\ \A e \in D : e <= EventHighWater(d)
    <2>1. Highest(D) \in 0 .. Len(envelopes) /\ \A e \in D : e <= Highest(D)
        BY Zenon, <1>2, HighestIs
    <2>2. EventHighWater(d) = Highest(D)
        BY Zenon DEF EventHighWater
    <2>3. Highest(D) \in Nat
        BY <1>2, <2>1
    <2> QED BY Zenon, <2>1, <2>2, <2>3
<1>9. /\ boot \in Scan /\ boot.eventCursor = cur /\ boot.eventDone = (cur = EventHighWater(d))
      /\ boot.cursor = scan.cursor /\ boot.candidate = scan.candidate
      /\ boot.ambiguous = scan.ambiguous
    <2> DEFINE b == (cur = EventHighWater(d))
    <2>1. b \in BOOLEAN
        BY Zenon
    <2>2. boot = [scan EXCEPT !.eventCursor = cur, !.eventSeen = EventHighWater(d), !.eventDone = b]
        BY Zenon DEF AfterBootstrap
    <2> HIDE DEF b, cur
    <2>3. /\ boot \in Scan /\ boot.eventCursor = cur /\ boot.eventDone = b
          /\ boot.cursor = scan.cursor /\ boot.candidate = scan.candidate
          /\ boot.ambiguous = scan.ambiguous
        BY Zenon, <1>1, <1>7, <1>8, <2>1, <2>2 DEF Scan
    <2> QED BY Zenon, <2>3 DEF b
<1> HIDE DEF cur
<1>10. rws = index \cup {i \in DOMAIN sigs : sigs[i].event \in batch}
    BY Zenon DEF Bootstrapped
<1>11. rws \in SUBSET (1 .. Len(sigs)) /\ index \subseteq rws
    BY Zenon, <1>2, <1>10 DEF ScanType
<1>12. ASSUME NEW i \in SigsOf(d), sigs[i].event <= cur PROVE i \in rws
    <2>1. i \in 1 .. Len(sigs) /\ envelopes[sigs[i].event] = d
        BY Zenon DEF SigsOf
    <2>2. sigs[i].event \in 1 .. Len(envelopes)
        BY Zenon, <2>1 DEF ScanType
    <2>3. CASE sigs[i].event <= scan.eventCursor
        BY Zenon, <1>11, <2>3 DEF ScanSound
    <2>4. CASE ~(sigs[i].event <= scan.eventCursor)
        <3>1. sigs[i].event > scan.eventCursor /\ cur # scan.eventCursor /\ cur # 0
            BY <1>1, <1>2, <1>7, <1>12, <2>2, <2>4
        <3>2. sigs[i].event \in C
            BY Zenon, <1>2, <2>1, <2>2, <3>1
        <3>3. cur \in FirstOf(C, BatchLimit)
            BY Zenon, <1>4, <1>6, <3>1
        <3>4. BatchLimit \in Int
            BY ScanAssumption
        <3>5. sigs[i].event \in batch
            BY Zenon, <1>2, <1>3, <1>4, <1>12, <3>2, <3>3, <3>4, BatchIsPrefix
        <3> QED BY Zenon, <1>2, <1>10, <2>1, <3>5
    <2> QED BY Zenon, <2>3, <2>4
<1>13. ScanSound(boot, d, rws)
    <2>1. \A i \in SigsOf(d) :
              sigs[i].event <= boot.eventCursor \/ boot.cursor > 0 => i \in rws
        BY Zenon, <1>9, <1>11, <1>12 DEF ScanSound
    <2>2. boot.cursor <= Len(sigs)
        BY Zenon, <1>9 DEF ScanSound
    <2>3. \A i \in SigsOf(d) : i <= boot.cursor /\ sigs[i].grade = "verified" =>
              boot.candidate # 0 /\ (sigs[i].event = boot.candidate \/ boot.ambiguous)
        BY Zenon, <1>9 DEF ScanSound
    <2>4. boot.candidate = 0 \/ boot.candidate \in VerifiedSources(d)
        BY Zenon, <1>9 DEF ScanSound
    <2> QED BY Zenon, <1>9, <2>1, <2>2, <2>3, <2>4 DEF ScanSound
<1>14. ASSUME boot.eventDone, NEW i \in SigsOf(d) PROVE i \in rws
    <2>1. i \in 1 .. Len(sigs) /\ envelopes[sigs[i].event] = d
        BY Zenon DEF SigsOf
    <2>2. sigs[i].event \in D
        BY Zenon, <1>2, <2>1 DEF ScanType
    <2> QED BY Zenon, <1>8, <1>9, <1>12, <1>14, <2>2
<1> QED BY Zenon, <1>4, <1>11, <1>13, <1>14

\* scan_..._signatures: the verified signatures under the new cursor are the
\* candidate's, or the scan is ambiguous from now on.
LEMMA SignaturesSound ==
    ASSUME ScanType, NEW d, NEW X \in SUBSET (1 .. Len(sigs)), NEW scan,
           ScanSound(scan, d, X), SigsOf(d) \subseteq X, NEW budget \in Int,
           NEW after, after = AfterSignatures(scan, X, d, budget)
    PROVE  ScanSound(after, d, X)
<1> DEFINE Y == Scannable(X, d)
           C == {i \in Y : i > scan.cursor}
           batch == FirstOf(C, budget)
           found == {i \in batch : sigs[i].grade = "verified"}
           cur == Highest({scan.cursor} \cup batch)
           high == SignatureHighWater(X, d)
           first == IF scan.candidate = 0 /\ found # {}
                    THEN sigs[Lowest(found)].event ELSE scan.candidate
           done == (cur = high)
           amb == (scan.ambiguous \/ \E i \in found : sigs[i].event # first)
<1>1. /\ scan \in Scan /\ scan.cursor \in Nat /\ scan.cursor <= Len(sigs)
      /\ scan.candidate \in Nat /\ scan.ambiguous \in BOOLEAN
    BY Zenon, ScanFieldTypes DEF ScanSound
<1>2. Len(sigs) \in Nat /\ DOMAIN sigs = 1 .. Len(sigs) /\ DOMAIN envelopes = 1 .. Len(envelopes)
    BY Zenon, ScanFacts
<1>3. 1 .. Len(sigs) \subseteq 0 .. Len(sigs) /\ scan.cursor \in 0 .. Len(sigs)
    BY <1>1, <1>2
<1>4. Y \in SUBSET (1 .. Len(sigs)) /\ C \in SUBSET (0 .. Len(sigs))
    BY Zenon, <1>3 DEF Scannable
<1>5. batch \subseteq C
    BY Zenon, <1>2, <1>4, BatchIsCounted
<1>6. {scan.cursor} \cup batch \in SUBSET (0 .. Len(sigs))
    BY Zenon, <1>3, <1>4, <1>5
<1>7. cur \in {scan.cursor} \cup batch \cup {0} /\ cur \in 0 .. Len(sigs)
    BY Zenon, <1>2, <1>6, HighestIs
<1>8. high \in Nat
    <2>1. Highest(Y) \in 0 .. Len(sigs)
        BY Zenon, <1>2, <1>3, <1>4, HighestIs
    <2>2. high = Highest(Y)
        BY Zenon DEF SignatureHighWater
    <2>3. Highest(Y) \in Nat
        BY <1>2, <2>1
    <2> QED BY Zenon, <2>2, <2>3
<1>9. \A j \in found :
          sigs[j].event \in VerifiedSources(d) /\ sigs[j].event \in Nat /\ sigs[j].event # 0
    <2> SUFFICES ASSUME NEW j \in found
                 PROVE  sigs[j].event \in VerifiedSources(d) /\ sigs[j].event \in Nat
                        /\ sigs[j].event # 0
        BY Zenon
    <2>1. j \in Y /\ sigs[j].grade = "verified" /\ j \in 1 .. Len(sigs)
        BY Zenon, <1>4, <1>5
    <2>2. envelopes[sigs[j].event] = d
        BY Zenon, <2>1 DEF Scannable
    <2>3. sigs[j].event \in 1 .. Len(envelopes) /\ sigs[j] \in [event : Nat, grade : Grades]
        BY Zenon, <2>1, ScanFacts DEF ScanType
    <2>4. sigs[j] = [event |-> sigs[j].event, grade |-> "verified"]
        BY <2>1, <2>3
    <2>5. sigs[j].event \in VerifiedSources(d)
        BY Zenon, <1>2, <2>1, <2>2, <2>3, <2>4 DEF VerifiedSources
    <2>6. sigs[j].event \in Nat /\ sigs[j].event # 0
        BY <2>3, ScanFacts
    <2> QED BY Zenon, <2>5, <2>6
<1>10. found # {} => Lowest(found) \in found
    <2>1. 0 .. Len(sigs) \subseteq Nat
        BY <1>2
    <2>2. found \in SUBSET Nat
        BY Zenon, <1>4, <1>5, <2>1
    <2> QED BY Zenon, <2>2, LowestIs
<1> HIDE DEF cur, high
<1>11. /\ first \in Nat /\ (first = 0 \/ first \in VerifiedSources(d))
       /\ (found # {} => first # 0) /\ (scan.candidate # 0 => first = scan.candidate)
    <2>1. CASE scan.candidate = 0 /\ found # {}
        <3>1. first = sigs[Lowest(found)].event
            BY Zenon, <2>1
        <3> QED BY Zenon, <1>9, <1>10, <2>1, <3>1
    <2>2. CASE ~(scan.candidate = 0 /\ found # {})
        <3>1. first = scan.candidate
            BY Zenon, <2>2
        <3> QED BY Zenon, <1>1, <2>2, <3>1 DEF ScanSound
    <2> QED BY Zenon, <2>1, <2>2
<1>12. cur \in Nat /\ cur <= Len(sigs)
    BY <1>2, <1>7
<1> HIDE DEF first
<1>13. /\ after \in Scan /\ after.eventCursor = scan.eventCursor
       /\ after.cursor = cur /\ after.candidate = first /\ after.ambiguous = amb
    <2>1. done \in BOOLEAN /\ amb \in BOOLEAN
        BY Zenon
    <2>2. after = [scan EXCEPT !.cursor = cur, !.seen = high, !.done = done,
                               !.candidate = first, !.ambiguous = amb]
        BY Zenon DEF AfterSignatures, cur, high, first
    <2> HIDE DEF done, amb
    <2> QED BY Zenon, <1>1, <1>8, <1>11, <1>12, <2>1, <2>2 DEF Scan
<1>14. ASSUME NEW i \in SigsOf(d), i <= cur, sigs[i].grade = "verified"
       PROVE  first # 0 /\ (sigs[i].event = first \/ amb)
    <2>1. i \in 1 .. Len(sigs) /\ envelopes[sigs[i].event] = d /\ i \in X
        BY Zenon DEF SigsOf
    <2>2. CASE i <= scan.cursor
        BY Zenon, <1>11, <1>14, <2>2 DEF ScanSound
    <2>3. CASE ~(i <= scan.cursor)
        <3>1. i > scan.cursor /\ cur # scan.cursor /\ cur # 0
            BY <1>1, <1>2, <1>12, <1>14, <2>1, <2>3
        <3>2. sigs[i].grade # "foreign"
            BY <1>14
        <3>3. i \in C
            BY Zenon, <2>1, <3>1, <3>2 DEF Scannable
        <3>4. cur \in FirstOf(C, budget)
            BY Zenon, <1>7, <3>1
        <3>5. i \in batch
            BY Zenon, <1>2, <1>4, <1>14, <3>3, <3>4, BatchIsPrefix
        <3>6. i \in found
            BY Zenon, <1>14, <3>5
        <3> QED BY Zenon, <1>11, <3>6
    <2> QED BY Zenon, <2>2, <2>3
<1> HIDE DEF amb
<1> QED BY Zenon, <1>11, <1>12, <1>13, <1>14 DEF ScanSound

\* The whole of resolve_unique_governed_dispatch_v5_source_by_digest_v1: what
\* it commits is sound, for its digest and for every other.
LEMMA ResolveKeeps ==
    ASSUME ScanInv, NEW d \in Digests, Resolve(d)
    PROVE  ScanInv' /\ UNCHANGED <<envelopes, sigs>>
<1>0. ScanType /\ \A c \in Digests : ScanSound(scans[c], c, index)
    BY Zenon DEF ScanInv
<1>1. UNCHANGED <<envelopes, sigs>>
    BY Zenon DEF Resolve
<1>2. PICK batch \in {BootstrapBatch(scans[d], d)} :
      \E rws \in {Bootstrapped(batch)}, boot \in {AfterBootstrap(scans[d], batch, d)} :
        /\ index' = rws
        /\ \E scan \in {IF boot.eventDone
                         THEN AfterSignatures(boot, rws, d, BatchLimit - Cardinality(batch))
                         ELSE boot} :
            scans' = [scans EXCEPT ![d] = scan]
    BY Zenon DEF Resolve
<1>3. PICK rws \in {Bootstrapped(batch)}, boot \in {AfterBootstrap(scans[d], batch, d)} :
        /\ index' = rws
        /\ \E scan \in {IF boot.eventDone
                         THEN AfterSignatures(boot, rws, d, BatchLimit - Cardinality(batch))
                         ELSE boot} :
            scans' = [scans EXCEPT ![d] = scan]
    BY Zenon, <1>2
<1>4. PICK scan \in {IF boot.eventDone
                     THEN AfterSignatures(boot, rws, d, BatchLimit - Cardinality(batch))
                     ELSE boot} :
            scans' = [scans EXCEPT ![d] = scan]
    BY Zenon, <1>3
<1>5. /\ rws \in SUBSET (1 .. Len(sigs)) /\ index \subseteq rws
      /\ Cardinality(batch) \in Nat
      /\ ScanSound(boot, d, rws)
      /\ boot.eventDone => SigsOf(d) \subseteq rws
    BY Zenon, <1>0, BootstrapSound
<1>6. BatchLimit - Cardinality(batch) \in Int
    BY <1>5, ScanAssumption
<1>7. ScanSound(scan, d, rws)
    <2>1. CASE boot.eventDone
        <3>1. scan = AfterSignatures(boot, rws, d, BatchLimit - Cardinality(batch))
            BY Zenon, <1>4, <2>1
        <3> QED BY Zenon, <1>0, <1>5, <1>6, <2>1, <3>1, SignaturesSound
    <2>2. CASE ~boot.eventDone
        BY Zenon, <1>4, <1>5, <2>2
    <2> QED BY Zenon, <2>1, <2>2
<1>8. scans' \in [Digests -> Scan] /\ index' = rws
      /\ \A c \in Digests : scans'[c] = IF c = d THEN scan ELSE scans[c]
    BY Zenon, <1>0, <1>3, <1>4, <1>7 DEF ScanType, ScanSound
<1>9. ScanType'
    BY Zenon, <1>0, <1>1, <1>5, <1>8 DEF ScanType
<1>10. ASSUME NEW c \in Digests PROVE ScanSound(scans'[c], c, rws)
    <2>1. ScanSound(scans[c], c, rws)
        BY Zenon, <1>0, <1>5 DEF ScanSound
    <2> QED BY Zenon, <1>7, <1>8, <2>1
<1>11. ASSUME NEW c \in Digests PROVE ScanSound(scans[c], c, index)'
    <2>1. SigsOf(c)' = SigsOf(c) /\ VerifiedSources(c)' = VerifiedSources(c)
        BY Zenon, <1>1 DEF SigsOf, VerifiedSources
    <2> QED BY Zenon, <1>1, <1>8, <1>10, <2>1 DEF ScanSound
<1> QED BY Zenon, <1>1, <1>9, <1>11 DEF ScanInv

\* Stored scans stay sound while the tables grow, as long as every new
\* signature enters the index with its insert (the AFTER INSERT trigger).
LEMMA GrowthKeeps ==
    ASSUME ScanInv, ScanType', scans' = scans, index \subseteq index',
           Len(sigs) <= Len(sigs'), Len(envelopes) <= Len(envelopes'),
           \A i \in 1 .. Len(sigs) : sigs'[i] = sigs[i],
           \A e \in 1 .. Len(envelopes) : envelopes'[e] = envelopes[e],
           \A i \in 1 .. Len(sigs') : i \notin 1 .. Len(sigs) => i \in index'
    PROVE  ScanInv'
<1>0. ScanType /\ \A c \in Digests : ScanSound(scans[c], c, index)
    BY Zenon DEF ScanInv
<1>1. /\ Len(sigs) \in Nat /\ Len(envelopes) \in Nat
      /\ DOMAIN sigs = 1 .. Len(sigs) /\ DOMAIN envelopes = 1 .. Len(envelopes)
    BY Zenon, <1>0, ScanFacts
<1>2. /\ Len(sigs') \in Nat /\ Len(envelopes') \in Nat
      /\ DOMAIN sigs' = 1 .. Len(sigs') /\ DOMAIN envelopes' = 1 .. Len(envelopes')
    <2> DEFINE G == [event : Nat, grade : Grades]
    <2>1. envelopes' \in Seq(Digests) /\ sigs' \in Seq(G)
        BY Zenon DEF ScanType
    <2> HIDE DEF G
    <2> QED BY <2>1
<1>3. 1 .. Len(sigs) \subseteq 1 .. Len(sigs') /\ 1 .. Len(envelopes) \subseteq 1 .. Len(envelopes')
    BY <1>1, <1>2
<1>4. ASSUME NEW d \in Digests PROVE ScanSound(scans[d], d, index)'
    <2> DEFINE s == scans[d]
    <2>1. ScanSound(s, d, index) /\ scans'[d] = s
        BY Zenon, <1>0
    <2>2. s.cursor \in Nat /\ s.cursor <= Len(sigs)
        BY Zenon, <2>1, ScanFieldTypes DEF ScanSound
    <2>3. s.cursor <= Len(sigs')
        BY <1>1, <1>2, <2>2
    <2>4. ASSUME NEW i \in SigsOf(d)'
          PROVE  /\ i \in 1 .. Len(sigs) => i \in SigsOf(d) /\ sigs'[i] = sigs[i]
                 /\ i \notin 1 .. Len(sigs) => i \in index' /\ ~(i <= s.cursor)
        <3>1. i \in 1 .. Len(sigs') /\ envelopes'[sigs'[i].event] = d
            BY Zenon DEF SigsOf
        <3>2. ASSUME i \in 1 .. Len(sigs) PROVE i \in SigsOf(d) /\ sigs'[i] = sigs[i]
            <4>1. sigs'[i] = sigs[i] /\ sigs[i].event \in 1 .. Len(envelopes)
                BY Zenon, <1>0, <3>2 DEF ScanType
            <4> QED BY Zenon, <3>1, <3>2, <4>1 DEF SigsOf
        <3>3. ASSUME i \notin 1 .. Len(sigs) PROVE i \in index' /\ ~(i <= s.cursor)
            <4>1. ~(i <= s.cursor)
                BY <1>1, <1>2, <2>2, <3>1, <3>3
            <4> QED BY Zenon, <3>1, <3>3, <4>1
        <3> QED BY Zenon, <3>2, <3>3
    <2>5. VerifiedSources(d) \subseteq VerifiedSources(d)'
        <3> SUFFICES ASSUME NEW e \in VerifiedSources(d) PROVE e \in VerifiedSources(d)'
            BY Zenon
        <3>1. e \in DOMAIN envelopes /\ envelopes[e] = d
            BY Zenon DEF VerifiedSources
        <3>2. PICK i \in DOMAIN sigs : sigs[i] = [event |-> e, grade |-> "verified"]
            BY Zenon DEF VerifiedSources
        <3>3. i \in DOMAIN sigs' /\ sigs'[i] = [event |-> e, grade |-> "verified"]
            BY Zenon, <1>1, <1>2, <1>3, <3>2
        <3>4. e \in DOMAIN envelopes' /\ envelopes'[e] = d
            BY Zenon, <1>1, <1>2, <1>3, <3>1
        <3> QED BY Zenon, <3>3, <3>4 DEF VerifiedSources
    <2>6. ASSUME NEW i \in SigsOf(d)', sigs'[i].event <= s.eventCursor \/ s.cursor > 0
          PROVE  i \in index'
        <3>1. CASE i \in 1 .. Len(sigs)
            <4>1. i \in SigsOf(d) /\ sigs'[i] = sigs[i]
                BY Zenon, <2>4, <3>1
            <4>2. \A j \in SigsOf(d) : sigs[j].event <= s.eventCursor \/ s.cursor > 0 => j \in index
                BY Zenon, <2>1 DEF ScanSound
            <4> HIDE DEF s
            <4> QED BY Zenon, <2>6, <4>1, <4>2
        <3> QED BY Zenon, <2>4, <3>1
    <2>7. ASSUME NEW i \in SigsOf(d)', i <= s.cursor, sigs'[i].grade = "verified"
          PROVE  s.candidate # 0 /\ (sigs'[i].event = s.candidate \/ s.ambiguous)
        <3>1. \A j \in SigsOf(d) : j <= s.cursor /\ sigs[j].grade = "verified" =>
                  s.candidate # 0 /\ (sigs[j].event = s.candidate \/ s.ambiguous)
            BY Zenon, <2>1 DEF ScanSound
        <3>2. i \in SigsOf(d) /\ sigs'[i] = sigs[i]
            BY Zenon, <2>4, <2>7
        <3> HIDE DEF s
        <3> QED BY Zenon, <2>7, <3>1, <3>2
    <2>8. s \in Scan /\ (s.candidate = 0 \/ s.candidate \in VerifiedSources(d)')
        BY Zenon, <2>1, <2>5 DEF ScanSound
    <2> HIDE DEF s
    <2> QED BY Zenon, <2>1, <2>3, <2>6, <2>7, <2>8 DEF ScanSound
<1> QED BY Zenon, <1>4 DEF ScanInv

\* What the other writers of V5 envelopes append.
LEMMA WritersKeep ==
    ASSUME ScanInv, NEW d \in Digests, NEW grade \in Grades, NEW e,
           AppendSigned(d, grade) \/ AppendEnvelope(d) \/ SignEnvelope(e, grade)
    PROVE  ScanInv'
<1> DEFINE G == [event : Nat, grade : Grades]
<1>0. /\ envelopes \in Seq(Digests) /\ sigs \in Seq(G)
      /\ \A i \in 1 .. Len(sigs) : sigs[i].event \in 1 .. Len(envelopes)
      /\ index \in SUBSET (1 .. Len(sigs)) /\ scans \in [Digests -> Scan]
    BY Zenon DEF ScanInv, ScanType
<1>1. /\ Len(sigs) \in Nat /\ Len(envelopes) \in Nat
      /\ DOMAIN envelopes = 1 .. Len(envelopes)
    BY Zenon, ScanFacts DEF ScanInv
<1>2. ASSUME envelopes' = Append(envelopes, d) \/ envelopes' = envelopes
      PROVE  /\ envelopes' \in Seq(Digests) /\ Len(envelopes) <= Len(envelopes')
             /\ Len(envelopes') \in Nat
             /\ \A k \in 1 .. Len(envelopes) : envelopes'[k] = envelopes[k]
    <2> HIDE DEF G
    <2>1. CASE envelopes' = Append(envelopes, d)
        BY <1>0, <1>1, <2>1
    <2>2. CASE envelopes' = envelopes
        BY <1>0, <1>1, <2>2
    <2> QED BY Zenon, <1>2, <2>1, <2>2
<1>3. CASE sigs' = sigs /\ index' = index /\ scans' = scans
           /\ (envelopes' = Append(envelopes, d) \/ envelopes' = envelopes)
    <2>1. 1 .. Len(envelopes) \subseteq 1 .. Len(envelopes')
        BY <1>1, <1>2, <1>3
    <2>2. ScanType'
        BY Zenon, <1>0, <1>2, <1>3, <2>1 DEF ScanType
    <2>3. Len(sigs) <= Len(sigs)
        BY <1>1
    <2> QED BY Zenon, <1>2, <1>3, <2>2, <2>3, GrowthKeeps
<1>4. ASSUME NEW k \in Nat, k \in 1 .. Len(envelopes'),
             envelopes' = Append(envelopes, d) \/ envelopes' = envelopes,
             sigs' = Append(sigs, [event |-> k, grade |-> grade]),
             index' = Indexed, scans' = scans
      PROVE  ScanInv'
    <2> DEFINE g == [event |-> k, grade |-> grade]
    <2>1. g \in G /\ g.event = k
        BY <1>4
    <2>2. sigs' = Append(sigs, g)
        BY Zenon, <1>4
    <2> HIDE DEF G, g
    <2>3. /\ sigs' \in Seq(G) /\ Len(sigs') = Len(sigs) + 1
          /\ \A i \in 1 .. Len(sigs) : sigs'[i] = sigs[i]
          /\ sigs'[Len(sigs) + 1] = g
        BY <1>0, <2>1, <2>2
    <2>4. /\ Len(sigs) <= Len(sigs') /\ 1 .. Len(sigs) \subseteq 1 .. Len(sigs')
          /\ Len(sigs) + 1 \in 1 .. Len(sigs')
          /\ \A i \in 1 .. Len(sigs') : i \in 1 .. Len(sigs) \/ i = Len(sigs) + 1
        BY <1>1, <2>3
    <2>5. 1 .. Len(envelopes) \subseteq 1 .. Len(envelopes')
        BY <1>1, <1>2, <1>4
    <2>6. index' = index \cup {Len(sigs) + 1}
        BY Zenon, <1>4 DEF Indexed
    <2>7. \A i \in 1 .. Len(sigs') : sigs'[i].event \in 1 .. Len(envelopes')
        BY Zenon, <1>0, <1>4, <2>1, <2>3, <2>4, <2>5
    <2>8. ScanType'
        BY Zenon, <1>0, <1>2, <1>4, <2>3, <2>4, <2>6, <2>7 DEF ScanType, G
    <2>9. /\ index \subseteq index'
          /\ \A i \in 1 .. Len(sigs') : i \notin 1 .. Len(sigs) => i \in index'
        BY Zenon, <2>4, <2>6
    <2> QED BY Zenon, <1>2, <1>4, <2>3, <2>4, <2>8, <2>9, GrowthKeeps
<1>5. CASE AppendEnvelope(d)
    BY Zenon, <1>3, <1>5 DEF AppendEnvelope
<1>6. CASE AppendSigned(d, grade)
    <2>1. /\ envelopes' = Append(envelopes, d) /\ index' = Indexed /\ scans' = scans
          /\ sigs' = Append(sigs, [event |-> Len(envelopes) + 1, grade |-> grade])
        BY Zenon, <1>6 DEF AppendSigned
    <2>2. Len(envelopes) + 1 \in Nat /\ Len(envelopes) + 1 \in 1 .. Len(envelopes')
        <3> HIDE DEF G
        <3> QED BY <1>0, <1>1, <2>1
    <2> QED BY Zenon, <1>4, <2>1, <2>2
<1>7. CASE SignEnvelope(e, grade)
    <2>1. /\ envelopes' = envelopes /\ index' = Indexed /\ scans' = scans
          /\ sigs' = Append(sigs, [event |-> e, grade |-> grade])
          /\ e \in 1 .. Len(envelopes)
        BY Zenon, <1>1, <1>7 DEF SignEnvelope
    <2>2. e \in Nat /\ e \in 1 .. Len(envelopes')
        BY <1>1, <2>1
    <2> QED BY Zenon, <1>4, <2>1, <2>2
<1> QED BY Zenon, <1>5, <1>6, <1>7

\* Before the first call: signatures older than the index, and new scans.
LEMMA ScanInitIsSound ==
    ASSUME ScanInit PROVE ScanInv
<1> DEFINE G == [event : Nat, grade : Grades]
<1>1. envelopes \in Seq(Digests) /\ index = {} /\ scans = [d \in Digests |-> NewScan]
    BY Zenon, ScanAssumption DEF ScanInit
<1>2. sigs = [i \in DOMAIN envelopes |-> [event |-> i, grade |-> "verified"]]
    BY Zenon DEF ScanInit
<1>3. Len(envelopes) \in Nat /\ DOMAIN envelopes = 1 .. Len(envelopes)
    BY <1>1
<1>4. \A i \in 1 .. Len(envelopes) : [event |-> i, grade |-> "verified"] \in G
    BY <1>3 DEF Grades
<1>5. sigs \in Seq(G) /\ Len(sigs) = Len(envelopes)
    <2> DEFINE g(i) == [event |-> i, grade |-> "verified"]
    <2>1. sigs = [i \in 1 .. Len(envelopes) |-> g(i)] /\ \A i \in 1 .. Len(envelopes) : g(i) \in G
        BY Zenon, <1>2, <1>3, <1>4
    <2> HIDE DEF G, g
    <2> QED BY <1>3, <2>1
<1>6. \A i \in 1 .. Len(sigs) : sigs[i].event = i
    <2>1. \A i \in 1 .. Len(sigs) : sigs[i] = [event |-> i, grade |-> "verified"]
        BY Zenon, <1>2, <1>3, <1>5
    <2>2. ASSUME NEW i \in 1 .. Len(sigs) PROVE sigs[i].event = i
        <3>1. [event |-> i, grade |-> "verified"].event = i
            OBVIOUS
        <3> QED BY Zenon, <2>1, <3>1
    <2> QED BY Zenon, <2>2
<1>7. /\ NewScan \in Scan /\ NewScan.eventCursor = 0 /\ NewScan.cursor = 0
      /\ NewScan.candidate = 0
    BY DEF Scan, NewScan
<1>8. ScanType
    BY Zenon, <1>1, <1>5, <1>6, <1>7 DEF ScanType
<1>9. ASSUME NEW d \in Digests PROVE ScanSound(scans[d], d, index)
    <2>1. scans[d] = NewScan
        BY Zenon, <1>1
    <2>2. 0 <= Len(sigs) /\ ~(0 > 0) /\ \A i \in 1 .. Len(sigs) : ~(i <= 0)
        BY <1>3, <1>5
    <2>3. \A i \in SigsOf(d) : i \in 1 .. Len(sigs)
        BY Zenon DEF SigsOf
    <2>4. \A i \in SigsOf(d) : ~(i <= 0) /\ ~(sigs[i].event <= 0)
        BY Zenon, <1>6, <2>2, <2>3
    <2> QED BY Zenon, <1>7, <2>1, <2>2, <2>4 DEF ScanSound
<1> QED BY Zenon, <1>8, <1>9 DEF ScanInv

-----------------------------------------------------------------------------
(* The inductive invariant of the three controls *)

Steps == {"idle", "resolve", "record", "check", "prefix", "cover", "mark", "verify"}
Event == [kind : {"dispatch", "plan", "v5", "dispatch_v5"}, of : Requests \cup Digests]
Row == [request : Requests, source : Nat, event : Nat,
        state : {"awaiting_checkpoint", "sealed"}, ckpt : Nat]
Host == [pc : Steps, source : Nat, event : Nat, ckpt : Nat]
Outcome == [kind : Refusals \cup {"none", "sealed"}, event : Nat, ckpt : Nat]

AdmissionType ==
    /\ tape \in Seq(Event) /\ ckpts \in Seq(Nat) /\ rows \in SUBSET Row
    /\ request \in [Hosts -> Requests]
    /\ host \in [Hosts -> Host] /\ answer \in [Hosts -> Outcome]
    /\ others.late \subseteq Digests /\ others.foreign \subseteq Requests
    /\ \A r \in others.foreign : r.lane = "dispatch"

\* Rows R, tape T and envelopes E agree: one row per identity, each row beside
\* the event that recorded it, a V5 row naming an envelope with its digest, and
\* no plan or V5 admission event without its row.
RowsSound(R, T, E) ==
    /\ \A p, q \in R : SameIdentity(p.request, q.request) => p = q
    /\ \A row \in R :
        /\ row.event \in 1 .. Len(T)
        /\ T[row.event] = [kind |-> row.request.lane, of |-> row.request]
        /\ row.request.lane = "v5" =>
               row.source \in 1 .. Len(E) /\ E[row.source] = row.request.body
    /\ \A i \in 1 .. Len(T) :
        /\ T[i].kind \in {"plan", "v5"} => \E row \in R : row.event = i
        /\ T[i].kind = "dispatch" => T[i].of.lane = "dispatch"

\* The row of request r at an event, and sealed by a given checkpoint.
Kept(R, r, event) == \E row \in R : row.request = r /\ row.event = event
SealedAs(R, r, event, ckpt) ==
    \E row \in R : /\ row.request = r /\ row.event = event
                   /\ row.state = "sealed" /\ row.ckpt = ckpt

\* What a host at a step relies on, and what an answer says.
HostSound(R, r, x) ==
    /\ x.pc = "resolve" => r.lane = "v5"
    /\ x.pc = "record" /\ r.lane = "v5" => x.source # 0
    /\ x.pc \in {"check", "prefix", "cover", "mark"} => Kept(R, r, x.event)
    /\ x.pc = "verify" => SealedAs(R, r, x.event, x.ckpt)
AnswerSound(R, r, a) == a.kind = "sealed" => SealedAs(R, r, a.event, a.ckpt)
HostsSound(R, q, hs, as) ==
    \A h \in Hosts : HostSound(R, q[h], hs[h]) /\ AnswerSound(R, q[h], as[h])

AInv ==
    /\ AdmissionType /\ ScanInv
    /\ RowsSound(rows, tape, envelopes) /\ HostsSound(rows, request, host, answer)

\* The fields of a row, a host and an answer.
LEMMA FieldTypes ==
    /\ \A row \in Row : /\ row.request \in Requests /\ row.source \in Nat
                        /\ row.event \in Nat /\ row.ckpt \in Nat
    /\ \A x \in Host : x.pc \in Steps /\ x.source \in Nat /\ x.event \in Nat /\ x.ckpt \in Nat
<1>1. \A row \in Row : /\ row.request \in Requests /\ row.source \in Nat
                       /\ row.event \in Nat /\ row.ckpt \in Nat
    BY DEF Row
<1>2. \A x \in Host : x.pc \in Steps /\ x.source \in Nat /\ x.event \in Nat /\ x.ckpt \in Nat
    BY DEF Host
<1> QED BY Zenon, <1>1, <1>2

\* A host that only moves on keeps what it holds.
LEMMA HostEdits ==
    ASSUME NEW x \in Host, NEW p \in Steps
    PROVE  /\ [x EXCEPT !.pc = p] \in Host
           /\ [x EXCEPT !.pc = p].pc = p /\ [x EXCEPT !.pc = p].event = x.event
           /\ [x EXCEPT !.pc = p].source = x.source /\ [x EXCEPT !.pc = p].ckpt = x.ckpt
BY DEF Host

\* An idle host relies on nothing and a refusal says nothing.
LEMMA IdleIsSound ==
    /\ Idle \in Host /\ NoAnswer \in Outcome
    /\ \A R, r : HostSound(R, r, Idle) /\ AnswerSound(R, r, NoAnswer)
    /\ \A kind \in Refusals : /\ [NoAnswer EXCEPT !.kind = kind] \in Outcome
                              /\ [NoAnswer EXCEPT !.kind = kind].kind # "sealed"
<1>1. Idle \in Host /\ Idle.pc = "idle"
    BY DEF Idle, Host, Steps
<1>2. NoAnswer \in Outcome /\ NoAnswer.kind # "sealed"
    BY DEF NoAnswer, Outcome
<1>3. ASSUME NEW kind \in Refusals
      PROVE  /\ [NoAnswer EXCEPT !.kind = kind] \in Outcome
             /\ [NoAnswer EXCEPT !.kind = kind].kind # "sealed"
    BY <1>3 DEF NoAnswer, Outcome, Refusals
<1>4. Idle.pc \notin {"resolve", "record", "check", "prefix", "cover", "mark", "verify"}
    BY <1>1
<1>5. \A R, r : HostSound(R, r, Idle) /\ AnswerSound(R, r, NoAnswer)
    BY Zenon, <1>2, <1>4 DEF HostSound, AnswerSound
<1> QED BY Zenon, <1>1, <1>2, <1>3, <1>5

-----------------------------------------------------------------------------
(* What the record and seal transactions find *)

\* A request is in one of the three lanes, and its identity is its own.
LEMMA Lanes ==
    ASSUME NEW r \in Requests
    PROVE  /\ r.lane = "dispatch" \/ r.lane = "plan" \/ r.lane = "v5"
           /\ SameIdentity(r, r)
BY Zenon, RequestAssumption DEF SameIdentity

\* append_*_admission_in_tx inserts only where the identity has no row, and a
\* V5 row only with the source resolved in the same transaction.
LEMMA NewIsNew ==
    ASSUME NEW r \in Requests, NEW source, RecordOutcome(r, source) = "new"
    PROVE  /\ RowsOf(r) = {}
           /\ r.lane = "v5" => Resolved(scans[r.body], index, r.body) = source
<1>1. CASE r.lane = "dispatch"
    <2>1. DispatchRecord(r) = "new"
        BY <1>1 DEF RecordOutcome
    <2> QED BY <1>1, <2>1 DEF DispatchRecord, DispatchRetry
<1>2. CASE r.lane = "plan"
    <2>1. PlanRecord(r) = "new"
        BY <1>2 DEF RecordOutcome
    <2> QED BY <1>2, <2>1 DEF PlanRecord, PlanRetry
<1>3. CASE r.lane = "v5"
    <2>1. V5Record(r, source) = "new"
        BY <1>3 DEF RecordOutcome
    <2> QED BY <2>1 DEF V5Record
<1> QED BY Zenon, <1>1, <1>2, <1>3, Lanes

\* The stored row that a retry is answered with is the row of its own request:
\* for V5, two requests with one source name one digest.
LEMMA ExistingIsOurs ==
    ASSUME AInv, NEW r \in Requests, NEW source, RecordOutcome(r, source) = "existing",
           r.lane = "v5" => source # 0
    PROVE  Existing(r, source) \in rows /\ Existing(r, source).request = r
<1>1. CASE r.lane = "dispatch"
    <2> DEFINE row == CHOOSE x \in ByKey(r) : TRUE
    <2>1. DispatchRecord(r) = "existing"
        BY <1>1 DEF RecordOutcome
    <2>2. ByKey(r) # {} /\ DispatchRetry(row, r) = "existing"
        BY <2>1 DEF DispatchRecord
    <2>3. row.request = r
        <3> HIDE DEF row
        <3> QED BY <2>2 DEF DispatchRetry
    <2>4. row \in rows
        BY Zenon, <2>2 DEF ByKey
    <2>5. Existing(r, source) = row
        BY <1>1 DEF Existing
    <2> HIDE DEF row
    <2> QED BY Zenon, <2>3, <2>4, <2>5
<1>2. CASE r.lane = "plan"
    <2> DEFINE row == CHOOSE x \in ByKey(r) : TRUE
    <2>1. PlanRecord(r) = "existing"
        BY <1>2 DEF RecordOutcome
    <2>2. ByKey(r) # {} /\ PlanRetry(row, r) = "existing"
        BY <2>1 DEF PlanRecord
    <2>3. row.request = r
        <3> HIDE DEF row
        <3> QED BY <2>2 DEF PlanRetry
    <2>4. row \in rows
        BY Zenon, <2>2 DEF ByKey
    <2>5. Existing(r, source) = row
        BY <1>2 DEF Existing
    <2> HIDE DEF row
    <2> QED BY Zenon, <2>3, <2>4, <2>5
<1>3. CASE r.lane = "v5"
    <2> DEFINE row == CHOOSE x \in BySource(r, source) : TRUE
    <2>1. V5Record(r, source) = "existing"
        BY <1>3 DEF RecordOutcome
    <2>2. BySource(r, source) # {} /\ Resolved(scans[r.body], index, r.body) = source
        BY <2>1 DEF V5Record
    <2>3. row \in rows /\ row.request.lane = "v5" /\ row.source = source
        BY Zenon, <2>2 DEF BySource
    <2>4. row.request \in Requests
        BY Zenon, <2>3, FieldTypes DEF AInv, AdmissionType
    <2>5. r.body \in Digests
        BY Zenon, <1>3, RequestAssumption
    <2>6. source \in VerifiedSources(r.body)
        <3>1. ScanType /\ ScanSound(scans[r.body], r.body, index) /\ index \in SUBSET (1 .. Len(sigs))
            BY Zenon, <2>5 DEF AInv, ScanInv, ScanType
        <3>2. VerifiedSources(r.body) = {source}
            BY Zenon, <1>3, <2>2, <3>1, ResolvedIsTheSource
        <3> QED BY Zenon, <3>2
    <2>7. envelopes[source] = r.body
        BY Zenon, <2>6 DEF VerifiedSources
    <2>8. envelopes[source] = row.request.body
        BY Zenon, <2>3 DEF AInv, RowsSound
    <2>9. Existing(r, source) = row
        BY Zenon, <1>3 DEF Existing
    <2> HIDE DEF row
    <2>10. row.request = r
        BY Zenon, <1>3, <2>3, <2>4, <2>7, <2>8, RequestAssumption
    <2> QED BY Zenon, <2>3, <2>9, <2>10
<1> QED BY Zenon, <1>1, <1>2, <1>3, Lanes

\* The row a seal transaction loads by its event is the host's own row, and
\* the only one with its request.
LEMMA RowAtIsOurs ==
    ASSUME AInv, NEW r \in Requests, NEW e, Kept(rows, r, e)
    PROVE  /\ RowAt(r, e) \in rows /\ RowAt(r, e).request = r /\ RowAt(r, e).event = e
           /\ \A row \in rows : row.request = r => row = RowAt(r, e)
<1> DEFINE mine == RowAt(r, e)
<1>1. PICK own \in rows : own.request = r /\ own.event = e
    BY Zenon DEF Kept
<1>2. mine \in rows /\ mine.request.lane = r.lane /\ mine.event = e
    BY Zenon, <1>1 DEF RowAt
<1> HIDE DEF mine
<1>3. [kind |-> own.request.lane, of |-> own.request]
            = [kind |-> mine.request.lane, of |-> mine.request]
    <2>1. \A row \in rows :
              tape[row.event] = [kind |-> row.request.lane, of |-> row.request]
        BY Zenon DEF AInv, RowsSound
    <2>2. /\ tape[e] = [kind |-> own.request.lane, of |-> own.request]
          /\ tape[e] = [kind |-> mine.request.lane, of |-> mine.request]
        BY Zenon, <1>1, <1>2, <2>1
    <2> QED BY Zenon, <2>2
<1>4. mine.request = r
    <2>1. \A k, o : [kind |-> k, of |-> o].of = o
        OBVIOUS
    <2> QED BY Zenon, <1>1, <1>3, <2>1
<1>5. ASSUME NEW row \in rows, row.request = r PROVE row = mine
    <2>1. SameIdentity(row.request, mine.request)
        BY Zenon, <1>4, <1>5, Lanes
    <2> QED BY Zenon, <1>2, <2>1 DEF AInv, RowsSound
<1> QED BY Zenon, <1>2, <1>4, <1>5 DEF mine

\* What re-verification establishes at the moment it is made.
LEMMA VerifiedRow ==
    ASSUME AInv, NEW row \in rows, Verifies(row)
    PROVE  /\ row.request.lane = "v5" => VerifiedSources(row.request.body) = {row.source}
           /\ row.request.lane = "dispatch" =>
                  \A i \in DOMAIN tape :
                      /\ tape[i].kind = "dispatch"
                      /\ \/ tape[i].of.idem = row.request.idem
                         \/ tape[i].of.slot = row.request.slot
                      => i = row.event
<1>1. row \in Row /\ row.request \in Requests
    BY Zenon, FieldTypes DEF AInv, AdmissionType
<1>2. ASSUME row.request.lane = "v5"
      PROVE  VerifiedSources(row.request.body) = {row.source}
    <2> DEFINE d == row.request.body
    <2>1. V5Verifies(row)
        BY <1>2 DEF Verifies
    <2>2. Resolved(scans[d], index, d) = row.source
        BY Zenon, <2>1 DEF V5Verifies
    <2>3. d \in Digests
        BY Zenon, <1>1, <1>2, RequestAssumption
    <2>4. row.source # 0
        <3>1. row.source \in 1 .. Len(envelopes) /\ Len(envelopes) \in Nat
            BY Zenon, <1>2, ScanFacts DEF AInv, RowsSound, ScanInv
        <3> QED BY <3>1
    <2>5. ScanType /\ ScanSound(scans[d], d, index) /\ index \in SUBSET (1 .. Len(sigs))
        BY Zenon, <2>3 DEF AInv, ScanInv, ScanType
    <2> QED BY Zenon, <2>2, <2>4, <2>5, ResolvedIsTheSource
<1>3. ASSUME row.request.lane = "dispatch", NEW i \in DOMAIN tape, tape[i].kind = "dispatch",
             tape[i].of.idem = row.request.idem \/ tape[i].of.slot = row.request.slot
      PROVE  i = row.event
    <2>1. DispatchVerifies(row)
        BY <1>3 DEF Verifies
    <2>2. DispatchEvents(row.request) = {row.event}
        BY Zenon, <2>1 DEF DispatchVerifies
    <2>3. i \in 1 .. Len(tape)
        <3>1. tape \in Seq(Event)
            BY Zenon DEF AInv, AdmissionType
        <3> QED BY <3>1
    <2>4. tape[i].of.lane = "dispatch"
        BY Zenon, <1>3, <2>3 DEF AInv, RowsSound
    <2>5. i \in DispatchEvents(row.request)
        BY Zenon, <1>3, <2>4 DEF DispatchEvents, SameIdentity
    <2> QED BY Zenon, <2>2, <2>5
<1> QED BY Zenon, <1>2, <1>3

-----------------------------------------------------------------------------
(* What a step leaves sound *)

\* Rows R hold at least what the rows of this state show of every request.
Keeps(R) ==
    \A r, e, c : /\ Kept(rows, r, e) => Kept(R, r, e)
                 /\ SealedAs(rows, r, e, c) => SealedAs(R, r, e, c)

\* The hosts and answers after a step, beside rows R.
HostsMove(R) ==
    /\ host' \in [Hosts -> Host] /\ answer' \in [Hosts -> Outcome]
    /\ HostsSound(R, request, host', answer')

\* Moving one host keeps every host and every earlier answer sound.
LEMMA GotoMoves ==
    ASSUME AInv, NEW h \in Hosts, NEW next \in Host, Goto(h, next), NEW R, Keeps(R),
           HostSound(R, request[h], next)
    PROVE  HostsMove(R)
<1>1. host \in [Hosts -> Host] /\ answer \in [Hosts -> Outcome]
    BY Zenon DEF AInv, AdmissionType
<1>2. host' = [host EXCEPT ![h] = next] /\ answer' = answer
    BY Zenon DEF Goto
<1>3. host' \in [Hosts -> Host] /\ \A g \in Hosts : host'[g] = IF g = h THEN next ELSE host[g]
    BY Zenon, <1>1, <1>2
<1>4. ASSUME NEW g \in Hosts
      PROVE  HostSound(R, request[g], host'[g]) /\ AnswerSound(R, request[g], answer[g])
    <2>1. HostSound(rows, request[g], host[g]) /\ AnswerSound(rows, request[g], answer[g])
        BY Zenon DEF AInv, HostsSound
    <2>2. HostSound(R, request[g], host[g])
        BY Zenon, <2>1 DEF HostSound, Keeps
    <2>3. AnswerSound(R, request[g], answer[g])
        BY Zenon, <2>1 DEF AnswerSound, Keeps
    <2> QED BY Zenon, <1>3, <2>2, <2>3
<1> QED BY Zenon, <1>1, <1>2, <1>3, <1>4 DEF HostsMove, HostsSound

\* Ending an attempt with an answer that is a refusal, or is held on disk.
LEMMA AnswerMoves ==
    ASSUME AInv, NEW h \in Hosts, NEW a \in Outcome, AnswerSound(rows, request[h], a),
           host' = [host EXCEPT ![h] = Idle],
           answer' = [answer EXCEPT ![h] = a] \/ answer' = answer
    PROVE  HostsMove(rows)
<1>1. host \in [Hosts -> Host] /\ answer \in [Hosts -> Outcome]
    BY Zenon DEF AInv, AdmissionType
<1>2. /\ host' \in [Hosts -> Host] /\ answer' \in [Hosts -> Outcome]
      /\ \A g \in Hosts : /\ host'[g] = host[g] \/ host'[g] = Idle
                          /\ answer'[g] = answer[g] \/ (g = h /\ answer'[g] = a)
    BY Zenon, <1>1, IdleIsSound
<1>3. ASSUME NEW g \in Hosts
      PROVE  HostSound(rows, request[g], host'[g]) /\ AnswerSound(rows, request[g], answer'[g])
    <2>1. HostSound(rows, request[g], host[g]) /\ AnswerSound(rows, request[g], answer[g])
        BY Zenon DEF AInv, HostsSound
    <2>2. HostSound(rows, request[g], Idle)
        BY Zenon, IdleIsSound
    <2>3. HostSound(rows, request[g], host'[g])
        BY Zenon, <1>2, <2>1, <2>2
    <2>4. AnswerSound(rows, request[g], answer'[g])
        BY Zenon, <1>2, <2>1
    <2> QED BY Zenon, <2>3, <2>4
<1> QED BY Zenon, <1>2, <1>3 DEF HostsMove, HostsSound

LEMMA RefuseMoves ==
    ASSUME AInv, NEW h \in Hosts, NEW kind \in Refusals, Refuse(h, kind)
    PROVE  HostsMove(rows)
<1> DEFINE a == [NoAnswer EXCEPT !.kind = kind]
<1>1. a \in Outcome /\ a.kind # "sealed"
    BY Zenon, IdleIsSound
<1>2. host' = [host EXCEPT ![h] = Idle] /\ answer' = [answer EXCEPT ![h] = a]
    BY Zenon DEF Refuse
<1> HIDE DEF a
<1>3. AnswerSound(rows, request[h], a)
    BY Zenon, <1>1 DEF AnswerSound
<1> QED BY Zenon, <1>1, <1>2, <1>3, AnswerMoves

\* The refusal every seal transaction shares.
LEMMA ReconcileMoves ==
    ASSUME AInv, NEW h \in Hosts, Refuse(h, "reconciliation_required")
    PROVE  HostsMove(rows)
<1>1. "reconciliation_required" \in Refusals
    BY Zenon DEF Refusals
<1> QED BY Zenon, <1>1, RefuseMoves

\* Rows stay sound while tables grow by events that are no admissions.
LEMMA TapeGrows ==
    ASSUME AInv, NEW T, NEW E, Len(T) \in Nat, Len(E) \in Nat,
           Len(tape) <= Len(T), Len(envelopes) <= Len(E),
           \A i \in 1 .. Len(tape) : T[i] = tape[i],
           \A e \in 1 .. Len(envelopes) : E[e] = envelopes[e],
           \A i \in 1 .. Len(T) : i \notin 1 .. Len(tape) =>
               /\ T[i].kind \notin {"plan", "v5"}
               /\ T[i].kind = "dispatch" => T[i].of.lane = "dispatch"
    PROVE  RowsSound(rows, T, E)
<1>1. Len(tape) \in Nat /\ Len(envelopes) \in Nat
    <2>1. tape \in Seq(Event)
        BY Zenon DEF AInv, AdmissionType
    <2>2. Len(tape) \in Nat
        BY <2>1
    <2> QED BY Zenon, <2>2, ScanFacts DEF AInv, ScanInv
<1>2. 1 .. Len(tape) \subseteq 1 .. Len(T) /\ 1 .. Len(envelopes) \subseteq 1 .. Len(E)
    BY <1>1
<1>3. RowsSound(rows, tape, envelopes)
    BY Zenon DEF AInv
<1>4. ASSUME NEW row \in rows
      PROVE  /\ row.event \in 1 .. Len(T)
             /\ T[row.event] = [kind |-> row.request.lane, of |-> row.request]
             /\ row.request.lane = "v5" =>
                    row.source \in 1 .. Len(E) /\ E[row.source] = row.request.body
    <2>1. /\ row.event \in 1 .. Len(tape)
          /\ tape[row.event] = [kind |-> row.request.lane, of |-> row.request]
        BY Zenon, <1>3 DEF RowsSound
    <2>2. row.request.lane = "v5" =>
              row.source \in 1 .. Len(envelopes) /\ envelopes[row.source] = row.request.body
        BY Zenon, <1>3 DEF RowsSound
    <2> QED BY Zenon, <1>2, <2>1, <2>2
<1>5. ASSUME NEW i \in 1 .. Len(T)
      PROVE  /\ T[i].kind \in {"plan", "v5"} => \E row \in rows : row.event = i
             /\ T[i].kind = "dispatch" => T[i].of.lane = "dispatch"
    <2>1. CASE i \in 1 .. Len(tape)
        BY Zenon, <1>3, <2>1 DEF RowsSound
    <2>2. CASE i \notin 1 .. Len(tape)
        BY Zenon, <2>2
    <2> QED BY Zenon, <2>1, <2>2
<1>6. \A p, q \in rows : SameIdentity(p.request, q.request) => p = q
    BY Zenon, <1>3 DEF RowsSound
<1> QED BY Zenon, <1>4, <1>5, <1>6 DEF RowsSound

\* A step that moves hosts and perhaps seals, and touches nothing else.
LEMMA HostOnly ==
    ASSUME AInv, HostsMove(rows), ckpts' \in Seq(Nat),
           UNCHANGED <<scanVars, tape, rows, request, others>>
    PROVE  AInv'
<1>1. /\ UNCHANGED <<envelopes, sigs, index, scans>> /\ tape' = tape /\ rows' = rows
      /\ request' = request /\ others' = others
    BY Zenon DEF scanVars
<1>2. ScanInv'
    BY Zenon, <1>1 DEF AInv, ScanInv, ScanType, ScanSound, SigsOf, VerifiedSources
<1>3. AdmissionType'
    BY Zenon, <1>1 DEF AInv, AdmissionType, HostsMove
<1>4. RowsSound(rows', tape', envelopes') /\ HostsSound(rows', request', host', answer')
    BY Zenon, <1>1 DEF AInv, HostsMove
<1> QED BY Zenon, <1>2, <1>3, <1>4 DEF AInv

-----------------------------------------------------------------------------
(* The steps *)

\* What a host's position tells.
LEMMA HostFacts ==
    ASSUME AInv, NEW h \in Hosts
    PROVE  /\ request[h] \in Requests /\ host[h] \in Host
           /\ host[h].source \in Nat /\ host[h].event \in Nat /\ host[h].ckpt \in Nat
           /\ HostSound(rows, request[h], host[h])
           /\ Keeps(rows)
<1>1. request[h] \in Requests /\ host[h] \in Host
    BY Zenon DEF AInv, AdmissionType
<1> QED BY Zenon, <1>1, FieldTypes DEF AInv, HostsSound, Keeps

\* A seal adds at most one checkpoint, over the whole signed prefix.
LEMMA SealType ==
    ASSUME AInv
    PROVE  /\ Sealed(tape, ckpts) \in Seq(Nat) /\ Len(Sealed(tape, ckpts)) \in Nat
           /\ ckpts \in Seq(Nat) /\ Len(ckpts) \in Nat /\ Len(tape) \in Nat
<1>1. tape \in Seq(Event) /\ ckpts \in Seq(Nat)
    BY Zenon DEF AInv, AdmissionType
<1>2. Len(tape) \in Nat /\ Len(ckpts) \in Nat
    BY <1>1
<1>3. Append(ckpts, Len(tape)) \in Seq(Nat)
    BY <1>1, <1>2
<1>4. Sealed(tape, ckpts) \in Seq(Nat)
    BY Zenon, <1>1, <1>3 DEF Sealed
<1> QED BY <1>1, <1>2, <1>4

\* Start: a V5 request resolves its source first.
LEMMA StartKeeps ==
    ASSUME AInv, NEW h \in Hosts, Start(h)
    PROVE  AInv'
<1> DEFINE p == IF request[h].lane = "v5" THEN "resolve" ELSE "record"
           next == [Idle EXCEPT !.pc = p]
<1>1. Goto(h, next) /\ UNCHANGED <<scanVars, tape, ckpts, rows, request, others>>
    BY Zenon DEF Start
<1>2. p \in Steps /\ p \notin {"check", "prefix", "cover", "mark", "verify"}
      /\ (p = "resolve" => request[h].lane = "v5") /\ (p = "record" => request[h].lane # "v5")
    BY DEF Steps
<1> HIDE DEF p
<1>3. next \in Host /\ next.pc = p
    BY Zenon, <1>2, IdleIsSound, HostEdits
<1> HIDE DEF next
<1>4. HostSound(rows, request[h], next)
    BY Zenon, <1>2, <1>3 DEF HostSound
<1>5. HostsMove(rows)
    BY Zenon, <1>1, <1>3, <1>4, HostFacts, GotoMoves
<1> QED BY Zenon, <1>1, <1>5, SealType, HostOnly

\* CheckStored: the row is ours, and a sealed one is held as it is answered.
LEMMA CheckStoredKeeps ==
    ASSUME AInv, NEW h \in Hosts, CheckStored(h)
    PROVE  AInv'
<1> DEFINE r == request[h]
           row == RowAt(r, host[h].event)
<1>1. /\ host[h].pc = "check" /\ UNCHANGED <<scanVars, tape, ckpts, rows, request, others>>
      /\ \/ Refuse(h, "reconciliation_required")
         \/ row.state = "sealed" /\ Goto(h, [host[h] EXCEPT !.pc = "verify", !.ckpt = row.ckpt])
         \/ Goto(h, [host[h] EXCEPT !.pc = "prefix"])
    BY Zenon DEF CheckStored
<1>2. Kept(rows, r, host[h].event)
    BY Zenon, <1>1, HostFacts DEF HostSound
<1>3. row \in rows /\ row.request = r /\ row.event = host[h].event
    BY Zenon, <1>2, HostFacts, RowAtIsOurs
<1>4. row.ckpt \in Nat
    BY Zenon, <1>3, FieldTypes DEF AInv, AdmissionType
<1> HIDE DEF row
<1>5. CASE row.state = "sealed" /\ Goto(h, [host[h] EXCEPT !.pc = "verify", !.ckpt = row.ckpt])
    <2> DEFINE next == [host[h] EXCEPT !.pc = "verify", !.ckpt = row.ckpt]
    <2>1. "verify" \in Steps
        BY Zenon DEF Steps
    <2>2. next \in Host /\ next.pc = "verify" /\ next.ckpt = row.ckpt /\ next.event = host[h].event
        <3>1. host[h] \in Host
            BY Zenon, HostFacts
        <3> QED BY Zenon, <1>4, <2>1, <3>1 DEF Host
    <2> HIDE DEF next
    <2>3. SealedAs(rows, r, next.event, next.ckpt)
        BY Zenon, <1>3, <1>5, <2>2 DEF SealedAs
    <2>4. next.pc \notin {"resolve", "record", "check", "prefix", "cover", "mark"}
        BY <2>2
    <2>5. HostSound(rows, r, next)
        BY Zenon, <2>3, <2>4 DEF HostSound
    <2> QED BY Zenon, <1>5, <2>2, <2>5, HostFacts, GotoMoves, <1>1, SealType, HostOnly DEF next
<1>6. CASE Goto(h, [host[h] EXCEPT !.pc = "prefix"])
    <2> DEFINE next == [host[h] EXCEPT !.pc = "prefix"]
    <2>1. "prefix" \in Steps
        BY DEF Steps
    <2>2. next \in Host /\ next.pc = "prefix" /\ next.event = host[h].event
        BY Zenon, <2>1, HostFacts, HostEdits
    <2> HIDE DEF next
    <2>3. next.pc \notin {"resolve", "record", "verify"}
        BY <2>2
    <2>4. HostSound(rows, r, next)
        BY Zenon, <1>2, <2>2, <2>3 DEF HostSound
    <2> QED BY Zenon, <1>6, <2>2, <2>4, HostFacts, GotoMoves, <1>1, SealType, HostOnly DEF next
<1>7. CASE Refuse(h, "reconciliation_required")
    BY Zenon, <1>1, <1>7, ReconcileMoves, SealType, HostOnly
<1> QED BY Zenon, <1>1, <1>5, <1>6, <1>7

\* SealPrefix: the checkpoint changes nothing that a row or a host relies on.
LEMMA SealPrefixKeeps ==
    ASSUME AInv, NEW h \in Hosts, SealPrefix(h)
    PROVE  AInv'
<1>1. /\ host[h].pc = "prefix" /\ UNCHANGED <<scanVars, tape, rows, request, others>>
      /\ \/ /\ ckpts' = Sealed(tape, ckpts)
            /\ Goto(h, [host[h] EXCEPT !.pc = "cover", !.ckpt = Len(ckpts')])
         \/ Refuse(h, "reconciliation_required") /\ ckpts' = ckpts
    BY Zenon DEF SealPrefix
<1>2. CASE /\ ckpts' = Sealed(tape, ckpts)
           /\ Goto(h, [host[h] EXCEPT !.pc = "cover", !.ckpt = Len(ckpts')])
    <2> DEFINE next == [host[h] EXCEPT !.pc = "cover", !.ckpt = Len(ckpts')]
    <2>1. "cover" \in Steps /\ Len(ckpts') \in Nat /\ ckpts' \in Seq(Nat)
        BY Zenon, <1>2, SealType DEF Steps
    <2>2. next \in Host /\ next.pc = "cover" /\ next.event = host[h].event
        <3>1. host[h] \in Host
            BY Zenon, HostFacts
        <3> QED BY Zenon, <2>1, <3>1 DEF Host
    <2>3. Goto(h, next)
        BY Zenon, <1>2
    <2> HIDE DEF next
    <2>4. next.pc \notin {"resolve", "record", "verify"}
        BY <2>2
    <2>5. HostSound(rows, request[h], next)
        <3>1. Kept(rows, request[h], host[h].event)
            BY Zenon, <1>1, HostFacts DEF HostSound
        <3> QED BY Zenon, <2>2, <2>4, <3>1 DEF HostSound
    <2>6. HostsMove(rows)
        BY Zenon, <2>2, <2>3, <2>5, HostFacts, GotoMoves
    <2> QED BY Zenon, <1>1, <2>1, <2>6, HostOnly
<1>3. CASE Refuse(h, "reconciliation_required") /\ ckpts' = ckpts
    BY Zenon, <1>1, <1>3, ReconcileMoves, SealType, HostOnly
<1> QED BY Zenon, <1>1, <1>2, <1>3

\* ReadCover: a read outside any transaction.
LEMMA ReadCoverKeeps ==
    ASSUME AInv, NEW h \in Hosts, ReadCover(h)
    PROVE  AInv'
<1> DEFINE next == [host[h] EXCEPT !.pc = "mark"]
<1>1. /\ host[h].pc = "cover" /\ UNCHANGED <<scanVars, tape, ckpts, rows, request, others>>
      /\ Goto(h, next) \/ Refuse(h, "reconciliation_required")
    BY Zenon DEF ReadCover
<1>2. CASE Goto(h, next)
    <2>1. "mark" \in Steps
        BY DEF Steps
    <2>2. next \in Host /\ next.pc = "mark" /\ next.event = host[h].event
        BY Zenon, <2>1, HostFacts, HostEdits
    <2> HIDE DEF next
    <2>3. next.pc \notin {"resolve", "record", "verify"}
        BY <2>2
    <2>4. HostSound(rows, request[h], next)
        <3>1. Kept(rows, request[h], host[h].event)
            BY Zenon, <1>1, HostFacts DEF HostSound
        <3> QED BY Zenon, <2>2, <2>3, <3>1 DEF HostSound
    <2>5. HostsMove(rows)
        BY Zenon, <1>2, <2>2, <2>4, HostFacts, GotoMoves
    <2> QED BY Zenon, <1>1, <2>5, SealType, HostOnly
<1>3. CASE Refuse(h, "reconciliation_required")
    BY Zenon, <1>1, <1>3, ReconcileMoves, SealType, HostOnly
<1> QED BY Zenon, <1>1, <1>2, <1>3

\* ResolveSource: a host goes on only with a source, and the scan stays sound
\* whatever it found.
LEMMA ResolveSourceKeeps ==
    ASSUME AInv, NEW h \in Hosts, ResolveSource(h)
    PROVE  AInv'
<1> DEFINE d == request[h].body
<1>1. /\ host[h].pc = "resolve" /\ Resolve(d) /\ UNCHANGED <<tape, ckpts, rows, request, others>>
      /\ \E source \in {Resolved(scans'[d], index', d)} :
            IF source = 0 THEN Refuse(h, "reconciliation_required")
            ELSE Goto(h, [host[h] EXCEPT !.pc = "record", !.source = source])
    BY Zenon DEF ResolveSource
<1>2. request[h].lane = "v5" /\ d \in Digests
    <2>1. request[h].lane = "v5"
        BY Zenon, <1>1, HostFacts DEF HostSound
    <2> QED BY Zenon, <2>1, HostFacts, RequestAssumption
<1>3. ScanInv' /\ UNCHANGED <<envelopes, sigs>>
    BY Zenon, <1>1, <1>2, ResolveKeeps DEF AInv
<1>4. HostsMove(rows)
    <2>1. PICK source \in {Resolved(scans'[d], index', d)} :
            IF source = 0 THEN Refuse(h, "reconciliation_required")
            ELSE Goto(h, [host[h] EXCEPT !.pc = "record", !.source = source])
        BY Zenon, <1>1
    <2>2. CASE source = 0
        BY Zenon, <2>1, <2>2, ReconcileMoves
    <2>3. CASE source # 0
        <3> DEFINE next == [host[h] EXCEPT !.pc = "record", !.source = source]
        <3>1. source \in Nat
            <4>1. scans'[d] \in Scan
                BY Zenon, <1>2, <1>3 DEF ScanInv, ScanType
            <4>2. scans'[d].candidate \in Nat
                BY Zenon, <4>1, ScanFieldTypes
            <4>3. 0 \in Nat
                OBVIOUS
            <4>4. source = scans'[d].candidate \/ source = 0
                BY Zenon, <2>1 DEF Resolved
            <4> QED BY Zenon, <4>2, <4>3, <4>4
        <3>2. "record" \in Steps
            BY Zenon DEF Steps
        <3>3. next \in Host /\ next.pc = "record" /\ next.source = source
            <4>1. host[h] \in Host
                BY Zenon, HostFacts
            <4> QED BY Zenon, <3>1, <3>2, <4>1 DEF Host
        <3>4. Goto(h, next)
            BY Zenon, <2>1, <2>3
        <3> HIDE DEF next
        <3>5. next.pc \notin {"resolve", "check", "prefix", "cover", "mark", "verify"}
            BY <3>3
        <3>6. HostSound(rows, request[h], next)
            BY Zenon, <2>3, <3>3, <3>5 DEF HostSound
        <3> QED BY Zenon, <3>3, <3>4, <3>6, HostFacts, GotoMoves
    <2> QED BY Zenon, <2>2, <2>3
<1>5. AdmissionType'
    BY Zenon, <1>1, <1>4 DEF AInv, AdmissionType, HostsMove
<1>6. RowsSound(rows', tape', envelopes') /\ HostsSound(rows', request', host', answer')
    BY Zenon, <1>1, <1>3, <1>4 DEF AInv, HostsMove
<1> QED BY Zenon, <1>3, <1>5, <1>6 DEF AInv

\* Answer: evidence is shown for a row that is sealed as it says.
LEMMA AnswerKeeps ==
    ASSUME AInv, NEW h \in Hosts, Answer(h)
    PROVE  AInv'
<1> DEFINE a == [kind |-> "sealed", event |-> host[h].event, ckpt |-> host[h].ckpt]
<1>1. /\ host[h].pc = "verify" /\ UNCHANGED <<scanVars, tape, ckpts, rows, request, others>>
      /\ \/ host' = [host EXCEPT ![h] = Idle] /\ answer' = [answer EXCEPT ![h] = a]
         \/ Refuse(h, "reconciliation_required")
    BY Zenon DEF Answer
<1>2. CASE host' = [host EXCEPT ![h] = Idle] /\ answer' = [answer EXCEPT ![h] = a]
    <2>1. SealedAs(rows, request[h], host[h].event, host[h].ckpt)
        BY Zenon, <1>1, HostFacts DEF HostSound
    <2>2. host[h].event \in Nat /\ host[h].ckpt \in Nat
        BY Zenon, HostFacts
    <2>3. a \in Outcome /\ a.event = host[h].event /\ a.ckpt = host[h].ckpt
        BY <2>2 DEF Outcome
    <2> HIDE DEF a
    <2>4. AnswerSound(rows, request[h], a)
        BY Zenon, <2>1, <2>3 DEF AnswerSound
    <2>5. HostsMove(rows)
        BY Zenon, <1>2, <2>3, <2>4, AnswerMoves
    <2> QED BY Zenon, <1>1, <2>5, SealType, HostOnly
<1>3. CASE Refuse(h, "reconciliation_required")
    BY Zenon, <1>1, <1>3, ReconcileMoves, SealType, HostOnly
<1> QED BY Zenon, <1>1, <1>2, <1>3

\* Crash: the attempt is forgotten, what was committed and answered stays.
LEMMA CrashKeeps ==
    ASSUME AInv, NEW h \in Hosts, Crash(h)
    PROVE  AInv'
<1>1. /\ host' = [host EXCEPT ![h] = Idle] /\ answer' = answer
      /\ UNCHANGED <<scanVars, tape, ckpts, rows, request, others>>
    BY Zenon DEF Crash
<1>2. NoAnswer \in Outcome /\ AnswerSound(rows, request[h], NoAnswer)
    BY Zenon, IdleIsSound
<1>3. HostsMove(rows)
    BY Zenon, <1>1, <1>2, AnswerMoves
<1> QED BY Zenon, <1>1, <1>3, SealType, HostOnly

\* The window closes, another control seals: neither touches an admission.
LEMMA OthersKeep ==
    ASSUME AInv, CloseWindow \/ OthersSeal
    PROVE  AInv'
<1>1. /\ host' = host /\ answer' = answer
      /\ UNCHANGED <<scanVars, tape, rows, request, others>>
      /\ ckpts' = ckpts \/ ckpts' = Sealed(tape, ckpts)
    BY Zenon DEF CloseWindow, OthersSeal
<1>2. ckpts' \in Seq(Nat)
    BY Zenon, <1>1, SealType
<1>3. HostsMove(rows)
    BY Zenon, <1>1 DEF AInv, AdmissionType, HostsMove
<1> QED BY Zenon, <1>1, <1>2, <1>3, HostOnly

\* Insert: the new row is the only one of its identity, stands beside its own
\* event, and a V5 row names an envelope with its digest.
LEMMA InsertSound ==
    ASSUME AInv, NEW r \in Requests, NEW source \in Nat, RecordOutcome(r, source) = "new",
           r.lane = "v5" => source # 0, Insert(r, source)
    PROVE  /\ tape' \in Seq(Event) /\ rows' \in SUBSET Row
           /\ RowsSound(rows', tape', envelopes)
           /\ Keeps(rows') /\ Kept(rows', r, Len(tape) + 1)
<1> DEFINE n == Len(tape) + 1
           ev == [kind |-> r.lane, of |-> r]
           new == [request |-> r, source |-> source, event |-> n,
                   state |-> "awaiting_checkpoint", ckpt |-> 0]
<1>0. tape \in Seq(Event) /\ rows \in SUBSET Row /\ RowsSound(rows, tape, envelopes)
    BY Zenon DEF AInv, AdmissionType
<1>1. tape' = Append(tape, ev) /\ rows' = rows \cup {new}
    BY Zenon DEF Insert
<1>2. r.lane \in {"dispatch", "plan", "v5"} /\ r \in Requests \cup Digests
    BY Zenon, Lanes
<1>3. ev \in Event /\ ev.kind = r.lane /\ ev.of = r
    BY <1>2 DEF Event
<1>4. Len(tape) \in Nat /\ n \in Nat
    BY <1>0
<1>5. new \in Row /\ new.request = r /\ new.source = source /\ new.event = n
    <2> HIDE DEF n
    <2> QED BY <1>4 DEF Row
<1> HIDE DEF ev, new
<1>6. /\ tape' \in Seq(Event) /\ Len(tape') = n /\ tape'[n] = ev
      /\ \A i \in 1 .. Len(tape) : tape'[i] = tape[i]
    BY <1>0, <1>1, <1>3
<1>7. /\ 1 .. Len(tape) \subseteq 1 .. n /\ n \in 1 .. n
      /\ \A i \in 1 .. n : i \in 1 .. Len(tape) \/ i = n
    BY <1>4
<1> HIDE DEF n
<1>8. RowsOf(r) = {} /\ (r.lane = "v5" => Resolved(scans[r.body], index, r.body) = source)
    BY Zenon, NewIsNew
<1>9. \A p \in rows : ~SameIdentity(p.request, r) /\ ~SameIdentity(r, p.request)
    BY Zenon, <1>8 DEF RowsOf, SameIdentity
<1>10. r.lane = "v5" => source \in 1 .. Len(envelopes) /\ envelopes[source] = r.body
    <2> SUFFICES ASSUME r.lane = "v5"
                 PROVE  source \in 1 .. Len(envelopes) /\ envelopes[source] = r.body
        BY Zenon
    <2>1. r.body \in Digests
        BY Zenon, RequestAssumption
    <2>2. ScanType /\ ScanSound(scans[r.body], r.body, index) /\ index \in SUBSET (1 .. Len(sigs))
        BY Zenon, <2>1 DEF AInv, ScanInv, ScanType
    <2>3. VerifiedSources(r.body) = {source}
        BY Zenon, <1>8, <2>2, ResolvedIsTheSource
    <2>4. source \in VerifiedSources(r.body)
        BY Zenon, <2>3
    <2> QED BY Zenon, <2>2, <2>4, ScanFacts DEF VerifiedSources
<1>11. \A p, q \in rows' : SameIdentity(p.request, q.request) => p = q
    BY Zenon, <1>0, <1>1, <1>5, <1>9 DEF RowsSound
<1>12. ASSUME NEW row \in rows'
       PROVE  /\ row.event \in 1 .. n
              /\ tape'[row.event] = [kind |-> row.request.lane, of |-> row.request]
              /\ row.request.lane = "v5" =>
                   row.source \in 1 .. Len(envelopes) /\ envelopes[row.source] = row.request.body
    <2>1. CASE row \in rows
        <3>1. /\ row.event \in 1 .. Len(tape)
              /\ tape[row.event] = [kind |-> row.request.lane, of |-> row.request]
            BY Zenon, <1>0, <2>1 DEF RowsSound
        <3>2. row.request.lane = "v5" =>
                  row.source \in 1 .. Len(envelopes) /\ envelopes[row.source] = row.request.body
            BY Zenon, <1>0, <2>1 DEF RowsSound
        <3> QED BY Zenon, <1>6, <1>7, <3>1, <3>2
    <2>2. CASE row = new
        BY Zenon, <1>5, <1>6, <1>7, <1>10, <2>2 DEF ev
    <2> QED BY Zenon, <1>1, <2>1, <2>2
<1>13. ASSUME NEW i \in 1 .. n
       PROVE  /\ tape'[i].kind \in {"plan", "v5"} => \E row \in rows' : row.event = i
              /\ tape'[i].kind = "dispatch" => tape'[i].of.lane = "dispatch"
    <2>1. CASE i \in 1 .. Len(tape)
        <3>1. /\ tape[i].kind \in {"plan", "v5"} => \E row \in rows : row.event = i
              /\ tape[i].kind = "dispatch" => tape[i].of.lane = "dispatch"
            BY Zenon, <1>0, <2>1 DEF RowsSound
        <3> QED BY Zenon, <1>1, <1>6, <2>1, <3>1
    <2>2. CASE i = n
        <3>1. new \in rows' /\ new.event = i
            BY Zenon, <1>1, <1>5, <2>2
        <3> QED BY Zenon, <1>3, <1>6, <2>2, <3>1
    <2> QED BY Zenon, <1>7, <2>1, <2>2
<1>14. RowsSound(rows', tape', envelopes)
    BY Zenon, <1>6, <1>11, <1>12, <1>13 DEF RowsSound
<1>15. Keeps(rows') /\ Kept(rows', r, n)
    BY Zenon, <1>1, <1>5 DEF Keeps, Kept, SealedAs
<1>16. rows' \in SUBSET Row
    BY Zenon, <1>0, <1>1, <1>5
<1> QED BY Zenon, <1>6, <1>14, <1>15, <1>16 DEF n

\* The record transaction: a new row, the host's own earlier row, or a refusal.
LEMMA RecordKeeps ==
    ASSUME AInv, NEW h \in Hosts, Record(h)
    PROVE  AInv'
<1> DEFINE r == request[h]
           source == host[h].source
           outcome == RecordOutcome(r, source)
           To(e) == [host[h] EXCEPT !.pc = "check", !.event = e]
<1>0. /\ host[h].pc = "record" /\ UNCHANGED <<scanVars, ckpts, request, others>>
      /\ \/ outcome = "new" /\ Insert(r, source) /\ Goto(h, To(Len(tape) + 1))
         \/ /\ outcome = "existing" /\ Goto(h, To(Existing(r, source).event))
            /\ UNCHANGED <<tape, rows>>
         \/ outcome \in Refusals /\ Refuse(h, outcome) /\ UNCHANGED <<tape, rows>>
    BY Zenon DEF Record
<1>1. /\ r \in Requests /\ host[h] \in Host /\ source \in Nat
      /\ (r.lane = "v5" => source # 0) /\ Keeps(rows)
    BY Zenon, <1>0, HostFacts DEF HostSound
<1>2. ASSUME NEW e \in Nat, NEW R, Keeps(R), Kept(R, r, e), Goto(h, To(e))
      PROVE  HostsMove(R)
    <2> DEFINE next == To(e)
    <2>1. next \in Host /\ next.pc = "check" /\ next.event = e
        BY Zenon, <1>1 DEF Host, Steps
    <2>2. Goto(h, next)
        BY Zenon, <1>2
    <2> HIDE DEF next
    <2>3. next.pc \notin {"resolve", "record", "verify"}
        BY <2>1
    <2>4. HostSound(R, r, next)
        BY Zenon, <1>2, <2>1, <2>3 DEF HostSound
    <2> QED BY Zenon, <1>2, <2>1, <2>2, <2>4, GotoMoves
<1> HIDE DEF To
<1>3. CASE outcome = "new" /\ Insert(r, source) /\ Goto(h, To(Len(tape) + 1))
    <2>1. /\ tape' \in Seq(Event) /\ rows' \in SUBSET Row
          /\ RowsSound(rows', tape', envelopes)
          /\ Keeps(rows') /\ Kept(rows', r, Len(tape) + 1)
        BY Zenon, <1>1, <1>3, InsertSound
    <2>2. Len(tape) + 1 \in Nat
        BY SealType
    <2>3. HostsMove(rows')
        BY Zenon, <1>2, <1>3, <2>1, <2>2
    <2>4. /\ UNCHANGED <<envelopes, sigs, index, scans>>
          /\ ckpts' = ckpts /\ request' = request /\ others' = others
        BY Zenon, <1>0 DEF scanVars
    <2>5. ScanInv'
        BY Zenon, <2>4 DEF AInv, ScanInv, ScanType, ScanSound, SigsOf, VerifiedSources
    <2>6. AdmissionType'
        BY Zenon, <2>1, <2>3, <2>4 DEF AInv, AdmissionType, HostsMove
    <2>7. RowsSound(rows', tape', envelopes') /\ HostsSound(rows', request', host', answer')
        BY Zenon, <2>1, <2>3, <2>4 DEF HostsMove
    <2> QED BY Zenon, <2>5, <2>6, <2>7 DEF AInv
<1>4. CASE /\ outcome = "existing" /\ Goto(h, To(Existing(r, source).event))
           /\ UNCHANGED <<tape, rows>>
    <2> DEFINE old == Existing(r, source)
    <2>1. old \in rows /\ old.request = r
        BY Zenon, <1>1, <1>4, ExistingIsOurs
    <2>2. old.event \in Nat
        BY Zenon, <2>1, FieldTypes DEF AInv, AdmissionType
    <2>3. Goto(h, To(old.event))
        BY Zenon, <1>4
    <2> HIDE DEF old
    <2>4. Kept(rows, r, old.event)
        BY Zenon, <2>1 DEF Kept
    <2>5. HostsMove(rows)
        BY Zenon, <1>1, <1>2, <2>2, <2>3, <2>4
    <2> QED BY Zenon, <1>0, <1>4, <2>5, SealType, HostOnly
<1>5. CASE outcome \in Refusals /\ Refuse(h, outcome) /\ UNCHANGED <<tape, rows>>
    <2>1. HostsMove(rows)
        BY Zenon, <1>5, RefuseMoves
    <2> QED BY Zenon, <1>0, <1>5, <2>1, SealType, HostOnly
<1> QED BY Zenon, <1>0, <1>3, <1>4, <1>5

\* The update of mark_*_sealed: state and checkpoint, nothing else, and the same
\* row where it was sealed by that checkpoint already.
LEMMA MarkedFields ==
    ASSUME NEW row \in Row, NEW k \in Nat
    PROVE  /\ Marked(row, k) \in Row
           /\ Marked(row, k).request = row.request /\ Marked(row, k).source = row.source
           /\ Marked(row, k).event = row.event
           /\ Marked(row, k).state = "sealed" /\ Marked(row, k).ckpt = k
           /\ row.state = "sealed" /\ row.ckpt = k => Marked(row, k) = row
BY Zenon DEF Row, Marked

\* What the mark transaction does: nothing, or it marks the host's own row.
LEMMA MarkCases ==
    ASSUME AInv, NEW h \in Hosts, MarkSealed(h),
           NEW row, row = RowAt(request[h], host[h].event)
    PROVE  /\ row \in rows /\ row \in Row
           /\ row.request = request[h] /\ row.event = host[h].event
           /\ \/ Refuse(h, "reconciliation_required") /\ rows' = rows
              \/ /\ MayMark(row, host[h].ckpt)
                 /\ rows' = (rows \ {row}) \cup {Marked(row, host[h].ckpt)}
                 /\ Goto(h, [host[h] EXCEPT !.pc = "verify"])
<1>1. host[h].pc = "mark"
    BY Zenon DEF MarkSealed
<1>2. Kept(rows, request[h], host[h].event)
    BY Zenon, <1>1, HostFacts DEF HostSound
<1>3. row \in rows /\ row.request = request[h] /\ row.event = host[h].event
    <2>1. request[h] \in Requests
        BY Zenon, HostFacts
    <2>2. /\ RowAt(request[h], host[h].event) \in rows
          /\ RowAt(request[h], host[h].event).request = request[h]
          /\ RowAt(request[h], host[h].event).event = host[h].event
        BY Zenon, <1>2, <2>1, RowAtIsOurs
    <2> QED BY Zenon, <2>2
<1>4. row \in Row
    BY Zenon, <1>3 DEF AInv, AdmissionType
<1>5. \/ Refuse(h, "reconciliation_required") /\ rows' = rows
      \/ /\ MayMark(row, host[h].ckpt)
         /\ rows' = (rows \ {row}) \cup {Marked(row, host[h].ckpt)}
         /\ Goto(h, [host[h] EXCEPT !.pc = "verify"])
    <2>1. IF MayMark(row, host[h].ckpt)
          THEN /\ rows' = (rows \ {row}) \cup {Marked(row, host[h].ckpt)}
               /\ Goto(h, [host[h] EXCEPT !.pc = "verify"])
          ELSE Refuse(h, "reconciliation_required") /\ UNCHANGED rows
        BY Zenon DEF MarkSealed
    <2> QED BY Zenon, <2>1
<1> QED BY Zenon, <1>3, <1>4, <1>5

\* MarkSealed: evidence that was shown of a sealed row is never rewritten.
LEMMA MarkSealedKeeps ==
    ASSUME AInv, NEW h \in Hosts, MarkSealed(h)
    PROVE  AInv'
<1> DEFINE r == request[h]
           row == RowAt(r, host[h].event)
           k == host[h].ckpt
           new == Marked(row, k)
           next == [host[h] EXCEPT !.pc = "verify"]
<1>0. UNCHANGED <<scanVars, tape, ckpts, request, others>>
    BY Zenon DEF MarkSealed
<1>1. /\ row \in rows /\ row \in Row /\ row.request = r /\ row.event = host[h].event
      /\ \/ Refuse(h, "reconciliation_required") /\ rows' = rows
         \/ MayMark(row, k) /\ rows' = (rows \ {row}) \cup {new} /\ Goto(h, next)
    BY Zenon, MarkCases
<1>2. k \in Nat /\ host[h] \in Host
    BY Zenon, HostFacts
<1> HIDE DEF row
<1>3. CASE Refuse(h, "reconciliation_required") /\ rows' = rows
    BY Zenon, <1>0, <1>3, ReconcileMoves, SealType, HostOnly
<1>4. CASE MayMark(row, k) /\ rows' = (rows \ {row}) \cup {new} /\ Goto(h, next)
    <2>1. /\ new \in Row /\ new.request = row.request /\ new.source = row.source
          /\ new.event = row.event /\ new.state = "sealed" /\ new.ckpt = k
        BY Zenon, <1>1, <1>2, MarkedFields
    <2>2. row.state = "sealed" => row.ckpt = k
        BY Zenon, <1>4 DEF MayMark
    <2>3. next \in Host /\ next.pc = "verify" /\ next.event = host[h].event /\ next.ckpt = k
        <3>1. "verify" \in Steps
            BY Zenon DEF Steps
        <3> QED BY Zenon, <1>2, <3>1, HostEdits
    <2> HIDE DEF new, next
    <2>4. /\ UNCHANGED <<envelopes, sigs, index, scans>> /\ tape' = tape
          /\ ckpts' = ckpts /\ request' = request /\ others' = others
        BY Zenon, <1>0 DEF scanVars
    <2>5. \A p \in rows' : \E q \in rows : /\ p.request = q.request /\ p.event = q.event
                                            /\ p.source = q.source
                                            /\ p = IF q = row THEN new ELSE q
        BY Zenon, <1>1, <1>4, <2>1
    <2>6. \A q \in rows : (IF q = row THEN new ELSE q) \in rows'
        BY Zenon, <1>4
    <2>7. Keeps(rows')
        <3>1. ASSUME NEW q, NEW e, Kept(rows, q, e) PROVE Kept(rows', q, e)
            <4>1. PICK o \in rows : o.request = q /\ o.event = e
                BY Zenon, <3>1 DEF Kept
            <4>2. CASE o = row
                <5>1. new \in rows' /\ new.request = q /\ new.event = e
                    BY Zenon, <1>4, <2>1, <4>1, <4>2
                <5> QED BY Zenon, <5>1 DEF Kept
            <4>3. CASE o # row
                BY Zenon, <1>4, <4>1, <4>3 DEF Kept
            <4> QED BY Zenon, <4>2, <4>3
        <3>2. ASSUME NEW q, NEW e, NEW c, SealedAs(rows, q, e, c) PROVE SealedAs(rows', q, e, c)
            <4>1. PICK o \in rows : /\ o.request = q /\ o.event = e
                                    /\ o.state = "sealed" /\ o.ckpt = c
                BY Zenon, <3>2 DEF SealedAs
            <4>2. CASE o = row
                <5>1. /\ new \in rows' /\ new.request = q /\ new.event = e
                      /\ new.state = "sealed" /\ new.ckpt = c
                    BY Zenon, <1>4, <2>1, <2>2, <4>1, <4>2
                <5> QED BY Zenon, <5>1 DEF SealedAs
            <4>3. CASE o # row
                BY Zenon, <1>4, <4>1, <4>3 DEF SealedAs
            <4> QED BY Zenon, <4>2, <4>3
        <3> QED BY Zenon, <3>1, <3>2 DEF Keeps
    <2>8. HostsMove(rows')
        <3>1. new \in rows'
            BY Zenon, <1>4
        <3>2. SealedAs(rows', r, next.event, next.ckpt)
            BY Zenon, <1>1, <2>1, <2>3, <3>1 DEF SealedAs
        <3>3. next.pc \notin {"resolve", "record", "check", "prefix", "cover", "mark"}
            BY <2>3
        <3>4. HostSound(rows', r, next)
            BY Zenon, <3>2, <3>3 DEF HostSound
        <3> QED BY Zenon, <1>4, <2>3, <2>7, <3>4, GotoMoves
    <2>9. RowsSound(rows', tape, envelopes)
        <3>0. RowsSound(rows, tape, envelopes)
            BY Zenon DEF AInv
        <3>1. ASSUME NEW p \in rows', NEW q \in rows', SameIdentity(p.request, q.request)
              PROVE  p = q
            <4>1. PICK a \in rows : p.request = a.request /\ p = IF a = row THEN new ELSE a
                BY Zenon, <2>5
            <4>2. PICK b \in rows : q.request = b.request /\ q = IF b = row THEN new ELSE b
                BY Zenon, <2>5
            <4>3. a = b
                BY Zenon, <3>0, <3>1, <4>1, <4>2 DEF RowsSound
            <4> QED BY Zenon, <4>1, <4>2, <4>3
        <3>2. ASSUME NEW p \in rows'
              PROVE  /\ p.event \in 1 .. Len(tape)
                     /\ tape[p.event] = [kind |-> p.request.lane, of |-> p.request]
                     /\ p.request.lane = "v5" =>
                          p.source \in 1 .. Len(envelopes) /\ envelopes[p.source] = p.request.body
            <4>1. PICK a \in rows : p.request = a.request /\ p.event = a.event /\ p.source = a.source
                BY Zenon, <2>5
            <4> QED BY Zenon, <3>0, <4>1 DEF RowsSound
        <3>3. ASSUME NEW i \in 1 .. Len(tape), tape[i].kind \in {"plan", "v5"}
              PROVE  \E p \in rows' : p.event = i
            <4>1. PICK a \in rows : a.event = i
                BY Zenon, <3>0, <3>3 DEF RowsSound
            <4>2. CASE a = row
                BY Zenon, <1>4, <2>1, <4>1, <4>2
            <4>3. CASE a # row
                BY Zenon, <1>4, <4>1, <4>3
            <4> QED BY Zenon, <4>2, <4>3
        <3>4. \A i \in 1 .. Len(tape) : tape[i].kind = "dispatch" => tape[i].of.lane = "dispatch"
            BY Zenon, <3>0 DEF RowsSound
        <3> QED BY Zenon, <3>1, <3>2, <3>3, <3>4 DEF RowsSound
    <2>10. ScanInv'
        BY Zenon, <2>4 DEF AInv, ScanInv, ScanType, ScanSound, SigsOf, VerifiedSources
    <2>11. AdmissionType'
        BY Zenon, <1>4, <2>1, <2>4, <2>8 DEF AInv, AdmissionType, HostsMove
    <2>12. RowsSound(rows', tape', envelopes') /\ HostsSound(rows', request', host', answer')
        BY Zenon, <2>4, <2>8, <2>9 DEF HostsMove
    <2> QED BY Zenon, <2>10, <2>11, <2>12 DEF AInv
<1> QED BY Zenon, <1>1, <1>3, <1>4

\* Other writers of the run: a V3 dispatch, V5 envelopes, late signatures.
LEMMA AppendsKeep ==
    ASSUME AInv, NEW ev \in Event, tape' = Append(tape, ev) \/ tape' = tape,
           ev.kind \notin {"plan", "v5"}, ev.kind = "dispatch" => ev.of.lane = "dispatch",
           ScanInv', Len(envelopes) <= Len(envelopes'),
           \A e \in 1 .. Len(envelopes) : envelopes'[e] = envelopes[e],
           UNCHANGED <<ckpts, rows, request, others, host, answer>>
    PROVE  AInv'
<1>1. tape \in Seq(Event)
    BY Zenon DEF AInv, AdmissionType
<1>2. /\ tape' \in Seq(Event) /\ Len(tape') \in Nat /\ Len(tape) <= Len(tape')
      /\ \A i \in 1 .. Len(tape) : tape'[i] = tape[i]
      /\ \A i \in 1 .. Len(tape') : i \notin 1 .. Len(tape) => tape'[i] = ev
    <2>1. CASE tape' = Append(tape, ev)
        BY <1>1, <2>1
    <2>2. CASE tape' = tape
        BY <1>1, <2>2
    <2> QED BY Zenon, <2>1, <2>2
<1>3. Len(envelopes') \in Nat
    <2>1. envelopes' \in Seq(Digests)
        BY Zenon DEF ScanInv, ScanType
    <2> QED BY <2>1
<1>4. RowsSound(rows, tape', envelopes')
    BY Zenon, <1>2, <1>3, TapeGrows
<1>5. AdmissionType'
    BY Zenon, <1>2 DEF AInv, AdmissionType
<1>6. RowsSound(rows', tape', envelopes') /\ HostsSound(rows', request', host', answer')
    BY Zenon, <1>4 DEF AInv
<1> QED BY Zenon, <1>5, <1>6 DEF AInv

LEMMA ForeignKeeps ==
    ASSUME AInv, NEW r \in others.foreign, ForeignDispatch(r)
    PROVE  AInv'
<1> DEFINE ev == [kind |-> "dispatch", of |-> r]
<1>1. r \in Requests /\ r.lane = "dispatch"
    BY Zenon DEF AInv, AdmissionType
<1>2. ev \in Event /\ ev.kind = "dispatch" /\ ev.of = r /\ ev.kind \notin {"plan", "v5"}
    BY <1>1 DEF Event
<1>3. /\ tape' = Append(tape, ev) /\ UNCHANGED <<envelopes, sigs, index, scans>>
      /\ UNCHANGED <<ckpts, rows, request, others, host, answer>>
    BY Zenon DEF ForeignDispatch, scanVars
<1>4. ScanInv'
    BY Zenon, <1>3 DEF AInv, ScanInv, ScanType, ScanSound, SigsOf, VerifiedSources
<1> HIDE DEF ev
<1>5. Len(envelopes) <= Len(envelopes')
    <2>1. Len(envelopes) \in Nat
        BY Zenon, ScanFacts DEF AInv, ScanInv
    <2> QED BY <1>3, <2>1
<1> QED BY Zenon, <1>1, <1>2, <1>3, <1>4, <1>5, AppendsKeep

LEMMA PlannerKeeps ==
    ASSUME AInv, NEW d \in others.late, NEW grade \in Grades,
           PlannerAppends(d, grade) \/ PlannerAppendsUnsigned(d)
    PROVE  AInv'
<1> DEFINE ev == [kind |-> "dispatch_v5", of |-> d]
<1>1. d \in Digests
    BY Zenon DEF AInv, AdmissionType
<1>2. /\ ev \in Event /\ ev.kind # "dispatch" /\ ev.kind \notin {"plan", "v5"}
    BY <1>1 DEF Event
<1>3. /\ AppendSigned(d, grade) \/ AppendEnvelope(d)
      /\ tape' = Append(tape, ev) \/ tape' = tape
      /\ UNCHANGED <<ckpts, rows, request, others, host, answer>>
    BY Zenon DEF PlannerAppends, PlannerAppendsUnsigned
<1> HIDE DEF ev
<1>4. ScanInv'
    BY Zenon, <1>1, <1>3, WritersKeep DEF AInv
<1>5. envelopes' = Append(envelopes, d) /\ envelopes \in Seq(Digests)
    BY Zenon, <1>3 DEF AppendSigned, AppendEnvelope, AInv, ScanInv, ScanType
<1>6. /\ Len(envelopes) <= Len(envelopes')
      /\ \A e \in 1 .. Len(envelopes) : envelopes'[e] = envelopes[e]
    BY <1>1, <1>5
<1> QED BY Zenon, <1>2, <1>3, <1>4, <1>6, AppendsKeep

LEMMA SignsKeeps ==
    ASSUME AInv, NEW e \in DOMAIN envelopes, PlannerSigns(e)
    PROVE  AInv'
<1> DEFINE d == envelopes[e]
           ev == [kind |-> "dispatch_v5", of |-> d]
<1>0. envelopes \in Seq(Digests)
    BY Zenon DEF AInv, ScanInv, ScanType
<1>1. d \in Digests /\ Len(envelopes) \in Nat
    BY <1>0
<1>2. /\ SignEnvelope(e, "verified") /\ tape' = Append(tape, ev)
      /\ UNCHANGED <<ckpts, rows, request, others, host, answer>>
    BY Zenon DEF PlannerSigns
<1> HIDE DEF d
<1>3. ev \in Event /\ ev.kind # "dispatch" /\ ev.kind \notin {"plan", "v5"}
    BY <1>1 DEF Event
<1> HIDE DEF ev
<1>4. "verified" \in Grades
    BY Zenon DEF Grades
<1>5. ScanInv' /\ envelopes' = envelopes
    BY Zenon, <1>1, <1>2, <1>4, WritersKeep DEF AInv, SignEnvelope
<1>6. Len(envelopes) <= Len(envelopes')
    BY <1>1, <1>5
<1> QED BY Zenon, <1>2, <1>3, <1>5, <1>6, AppendsKeep

-----------------------------------------------------------------------------
(* The theorems *)

\* Before the first attempt: no rows, idle hosts, and a tape of the envelopes
\* that predate them.
LEMMA InitIsSound ==
    ASSUME Init PROVE AInv
<1>1. ScanInv
    BY Zenon, ScanInitIsSound DEF Init
<1>2. envelopes \in Seq(Digests)
    BY Zenon, <1>1 DEF ScanInv, ScanType
<1>3. /\ tape = [i \in DOMAIN envelopes |-> [kind |-> "dispatch_v5", of |-> envelopes[i]]]
      /\ ckpts = <<>> /\ rows = {} /\ host = [h \in Hosts |-> Idle]
      /\ answer = [h \in Hosts |-> NoAnswer]
    BY Zenon DEF Init
<1>4. PICK s \in Scenarios :
          request = s.ask
          /\ others = [foreign |-> s.foreign, late |-> s.late, upto |-> s.upto]
    BY Zenon DEF Init
<1>5. others.late = s.late /\ others.foreign = s.foreign
    BY <1>4
<1>6. ASSUME NEW h \in Hosts PROVE s.ask[h] \in Requests
    <2>1. s.ask[h] \in Asked(s)
        BY Zenon DEF Asked
    <2> QED BY Zenon, <2>1 DEF Requests
<1>7. s.foreign \subseteq Requests
    BY Zenon DEF Requests, Asked
<1>8. request \in [Hosts -> Requests]
    <2>1. s.ask = [h \in Hosts |-> s.ask[h]]
        BY Zenon, RequestAssumption
    <2>2. [h \in Hosts |-> s.ask[h]] \in [Hosts -> Requests]
        BY Zenon, <1>6
    <2> QED BY Zenon, <1>4, <2>1, <2>2
<1>9. /\ tape \in Seq(Event) /\ Len(tape) \in Nat
      /\ \A i \in 1 .. Len(tape) : tape[i].kind \notin {"plan", "v5", "dispatch"}
    <2> DEFINE g(i) == [kind |-> "dispatch_v5", of |-> envelopes[i]]
    <2>1. \A i \in DOMAIN envelopes : envelopes[i] \in Digests
        BY <1>2
    <2>2. ASSUME NEW i \in DOMAIN envelopes
          PROVE  g(i) \in Event /\ g(i).kind \notin {"plan", "v5", "dispatch"}
        BY <2>1 DEF Event
    <2>3. tape = [i \in DOMAIN envelopes |-> g(i)]
        BY Zenon, <1>3
    <2> HIDE DEF g
    <2>4. DOMAIN envelopes = 1 .. Len(envelopes) /\ Len(envelopes) \in Nat
        BY <1>2
    <2>5. tape \in Seq(Event) /\ Len(tape) = Len(envelopes)
        BY <2>2, <2>3, <2>4
    <2> QED BY Zenon, <2>2, <2>3, <2>4, <2>5
<1>10. ckpts \in Seq(Nat)
    BY <1>3
<1>11. AdmissionType
    <2>1. \A r \in s.foreign : r.lane = "dispatch"
        BY Zenon, RequestAssumption
    <2>2. s.late \subseteq Digests
        BY Zenon, RequestAssumption
    <2> QED BY Zenon, <1>3, <1>5, <1>7, <1>8, <1>9, <1>10, <2>1, <2>2, IdleIsSound
            DEF AdmissionType
<1>12. RowsSound(rows, tape, envelopes)
    BY Zenon, <1>3, <1>9 DEF RowsSound
<1>13. HostsSound(rows, request, host, answer)
    BY Zenon, <1>3, IdleIsSound DEF HostsSound
<1> QED BY Zenon, <1>1, <1>11, <1>12, <1>13 DEF AInv

LEMMA StepKeeps ==
    ASSUME AInv, [Next]_vars PROVE AInv'
<1>1. CASE Next
    <2>1. CASE \E h \in Hosts : HostStep(h) \/ Crash(h)
        <3>1. PICK h \in Hosts : HostStep(h) \/ Crash(h)
            BY Zenon, <2>1
        <3>2. \/ Start(h) \/ ResolveSource(h) \/ Record(h) \/ CheckStored(h)
              \/ SealPrefix(h) \/ ReadCover(h) \/ MarkSealed(h) \/ Answer(h) \/ Crash(h)
            BY Zenon, <3>1 DEF HostStep
        <3> QED BY Zenon, <3>2, StartKeeps, ResolveSourceKeeps, RecordKeeps, CheckStoredKeeps,
                   SealPrefixKeeps, ReadCoverKeeps, MarkSealedKeeps, AnswerKeeps, CrashKeeps
    <2>2. CASE CloseWindow \/ OthersSeal
        BY Zenon, <2>2, OthersKeep
    <2>3. CASE \E r \in others.foreign : ForeignDispatch(r)
        BY Zenon, <2>3, ForeignKeeps
    <2>4. CASE \E d \in others.late, grade \in Grades : PlannerAppends(d, grade)
        BY Zenon, <2>4, PlannerKeeps
    <2>5. CASE \E d \in others.late : PlannerAppendsUnsigned(d)
        <3>1. "verified" \in Grades
            BY Zenon DEF Grades
        <3> QED BY Zenon, <2>5, <3>1, PlannerKeeps
    <2>6. CASE \E e \in DOMAIN envelopes : PlannerSigns(e)
        BY Zenon, <2>6, SignsKeeps
    <2> QED BY Zenon, <1>1, <2>1, <2>2, <2>3, <2>4, <2>5, <2>6 DEF Next
<1>2. CASE UNCHANGED vars
    <2>1. /\ UNCHANGED <<scanVars, tape, ckpts, rows, request, others>>
          /\ host' = host /\ answer' = answer
        BY Zenon, <1>2 DEF vars
    <2>2. HostsMove(rows)
        BY Zenon, <2>1 DEF AInv, AdmissionType, HostsMove
    <2> QED BY Zenon, <2>1, <2>2, SealType, HostOnly
<1> QED BY Zenon, <1>1, <1>2

\* However hosts of the three admission controls race, crash and retry, an
\* identity has one row and one admission event, and whoever is answered
\* "sealed" holds the evidence that is on disk, for any hosts and requests.
THEOREM AdmittedOnce == Spec => []OneAdmission
<1>1. Init => AInv
    BY InitIsSound
<1>2. AInv /\ [Next]_vars => AInv'
    BY StepKeeps
<1>3. ASSUME AInv PROVE OneAdmission
    <2>0. /\ RowsSound(rows, tape, envelopes) /\ HostsSound(rows, request, host, answer)
          /\ AdmissionType
        BY Zenon, <1>3 DEF AInv
    <2>1. \A p, q \in rows : SameIdentity(p.request, q.request) => p = q
        BY Zenon, <2>0 DEF RowsSound
    <2>2. ASSUME NEW i \in DOMAIN tape, NEW j \in DOMAIN tape,
                 tape[i].kind \in {"plan", "v5"}, tape[j].kind = tape[i].kind,
                 SameIdentity(tape[i].of, tape[j].of)
          PROVE  i = j
        <3>1. DOMAIN tape = 1 .. Len(tape)
            <4>1. tape \in Seq(Event)
                BY Zenon, <2>0 DEF AdmissionType
            <4> QED BY <4>1
        <3>2. PICK p \in rows : p.event = i
            BY Zenon, <2>0, <2>2, <3>1 DEF RowsSound
        <3>3. PICK q \in rows : q.event = j
            BY Zenon, <2>0, <2>2, <3>1 DEF RowsSound
        <3>4. /\ tape[i] = [kind |-> p.request.lane, of |-> p.request]
              /\ tape[j] = [kind |-> q.request.lane, of |-> q.request]
            BY Zenon, <2>0, <3>2, <3>3 DEF RowsSound
        <3>5. SameIdentity(p.request, q.request)
            <4>1. tape[i].of = p.request /\ tape[j].of = q.request
                BY <3>4
            <4> QED BY Zenon, <2>2, <4>1
        <3> QED BY Zenon, <2>1, <3>2, <3>3, <3>5
    <2>3. ASSUME NEW h \in Hosts, answer[h].kind = "sealed"
          PROVE  SealedAs(rows, request[h], answer[h].event, answer[h].ckpt)
        BY Zenon, <2>0, <2>3 DEF HostsSound, AnswerSound
    <2>4. ASSUME NEW h \in Hosts, NEW k \in Hosts, answer[h].kind = "sealed",
                 answer[k].kind = "sealed", request[k] = request[h]
          PROVE  answer[k] = answer[h]
        <3>1. PICK p \in rows : /\ p.request = request[h] /\ p.event = answer[h].event
                                /\ p.ckpt = answer[h].ckpt
            BY Zenon, <2>3, <2>4 DEF SealedAs
        <3>2. PICK q \in rows : /\ q.request = request[k] /\ q.event = answer[k].event
                                /\ q.ckpt = answer[k].ckpt
            BY Zenon, <2>3, <2>4 DEF SealedAs
        <3>3. request[h] \in Requests
            BY Zenon, <2>0 DEF AdmissionType
        <3>4. p = q
            BY Zenon, <2>1, <2>4, <3>1, <3>2, <3>3, Lanes
        <3>5. answer[h] \in Outcome /\ answer[k] \in Outcome
            BY Zenon, <2>0 DEF AdmissionType
        <3> QED BY <2>4, <3>1, <3>2, <3>4, <3>5 DEF Outcome
    <2> QED BY Zenon, <2>1, <2>2, <2>3, <2>4 DEF OneAdmission, SealedAs
<1> QED BY <1>1, <1>2, <1>3, PTL DEF Spec

\* A V5 admission is recorded and sealed only while its source is the only
\* verified envelope with the digest, a dispatch is sealed only while it is the
\* run's only V3 dispatch for its key and attempt, and a row is marked with the
\* checkpoint that is then the latest and complete: for any batch limit, any
\* tape and any interleaving of hosts, writers and crashes.
THEOREM SealsAreExact == Spec => AdmissionIsExact
<1> DEFINE Exact(row) ==
               /\ row.request.lane = "v5" => VerifiedSources(row.request.body) = {row.source}
               /\ row.state = "sealed" =>
                     /\ row.ckpt = Len(ckpts) /\ ckpts[row.ckpt] = Len(tape)
                     /\ row.request.lane = "dispatch" =>
                           \A i \in DOMAIN tape :
                               /\ tape[i].kind = "dispatch"
                               /\ \/ tape[i].of.idem = row.request.idem
                                  \/ tape[i].of.slot = row.request.slot
                               => i = row.event
           P == \A row \in rows' \ rows : Exact(row)
<1>1. Init => AInv
    BY InitIsSound
<1>2. AInv /\ [Next]_vars => AInv'
    BY StepKeeps
<1>3. ASSUME AInv, NEW h \in Hosts, Record(h) PROVE P
    <2> DEFINE r == request[h]
               source == host[h].source
               new == [request |-> r, source |-> source, event |-> Len(tape) + 1,
                       state |-> "awaiting_checkpoint", ckpt |-> 0]
    <2>1. /\ host[h].pc = "record"
          /\ \/ RecordOutcome(r, source) = "new" /\ rows' = rows \cup {new}
             \/ rows' = rows
        BY Zenon, <1>3 DEF Record, Insert
    <2>2. ASSUME RecordOutcome(r, source) = "new" PROVE Exact(new)
        <3>1. new.request = r /\ new.source = source /\ new.state # "sealed"
            OBVIOUS
        <3> HIDE DEF new
        <3>2. ASSUME r.lane = "v5" PROVE VerifiedSources(r.body) = {source}
            <4>1. r \in Requests /\ source # 0
                BY Zenon, <1>3, <2>1, <3>2, HostFacts DEF HostSound
            <4>2. Resolved(scans[r.body], index, r.body) = source
                BY Zenon, <2>2, <3>2, <4>1, NewIsNew
            <4>3. r.body \in Digests
                BY Zenon, <3>2, <4>1, RequestAssumption
            <4>4. /\ ScanType /\ ScanSound(scans[r.body], r.body, index)
                  /\ index \in SUBSET (1 .. Len(sigs))
                BY Zenon, <1>3, <4>3 DEF AInv, ScanInv, ScanType
            <4> QED BY Zenon, <4>1, <4>2, <4>4, ResolvedIsTheSource
        <3> QED BY Zenon, <3>1, <3>2
    <2> HIDE DEF new, Exact
    <2> QED BY Zenon, <2>1, <2>2
<1>4. ASSUME AInv, NEW h \in Hosts, MarkSealed(h) PROVE P
    <2> DEFINE row == RowAt(request[h], host[h].event)
               k == host[h].ckpt
               new == Marked(row, k)
    <2>1. /\ row \in rows /\ row \in Row
          /\ rows' = rows \/ (MayMark(row, k) /\ rows' = (rows \ {row}) \cup {new})
        BY Zenon, <1>4, MarkCases
    <2>2. k \in Nat
        BY Zenon, <1>4, HostFacts
    <2> HIDE DEF row, k
    <2>3. /\ new.request = row.request /\ new.source = row.source /\ new.event = row.event
          /\ new.ckpt = k /\ (row.state = "sealed" /\ row.ckpt = k => new = row)
        BY Zenon, <2>1, <2>2, MarkedFields
    <2> HIDE DEF new
    <2>4. ASSUME MayMark(row, k), new \notin rows PROVE Exact(new)
        <3>1. Verifies(row) /\ StillCovering(k, row.event)
            BY Zenon, <2>1, <2>3, <2>4 DEF MayMark
        <3>2. k = Len(ckpts) /\ Covered(ckpts) = Len(tape)
            BY Zenon, <3>1 DEF StillCovering, FullyCovered
        <3>3. Len(tape) # 0
            <4>1. row.event \in 1 .. Len(tape) /\ Len(tape) \in Nat
                BY Zenon, <1>4, <2>1, SealType DEF AInv, RowsSound
            <4> QED BY <4>1
        <3>4. ckpts[k] = Len(tape)
            BY Zenon, <3>2, <3>3 DEF Covered
        <3>5. /\ row.request.lane = "v5" => VerifiedSources(row.request.body) = {row.source}
              /\ row.request.lane = "dispatch" =>
                     \A i \in DOMAIN tape :
                         /\ tape[i].kind = "dispatch"
                         /\ \/ tape[i].of.idem = row.request.idem
                            \/ tape[i].of.slot = row.request.slot
                         => i = row.event
            BY Zenon, <1>4, <2>1, <3>1, VerifiedRow
        <3> QED BY Zenon, <2>3, <3>2, <3>4, <3>5
    <2> HIDE DEF Exact
    <2> QED BY Zenon, <2>1, <2>4
<1>5. AInv /\ Next => P
    <2> HIDE DEF Exact
    <2> SUFFICES ASSUME AInv, Next PROVE P
        BY Zenon
    <2>1. rows' = rows \/ \E h \in Hosts : Record(h) \/ MarkSealed(h)
        BY Zenon DEF Next, HostStep, Start, ResolveSource, CheckStored, SealPrefix, ReadCover,
            Answer, Crash, CloseWindow, OthersSeal, ForeignDispatch, PlannerAppends,
            PlannerAppendsUnsigned, PlannerSigns
    <2>2. rows' = rows => P
        BY Zenon
    <2> HIDE DEF P
    <2> QED BY Zenon, <1>3, <1>4, <2>1, <2>2
<1>6. AInv /\ [Next]_vars => [P]_vars
    <2> HIDE DEF P
    <2> QED BY Zenon, <1>5
<1>7. AdmissionIsExact <=> [][P]_vars
    BY DEF AdmissionIsExact
<1> HIDE DEF P
<1> QED BY <1>1, <1>2, <1>6, <1>7, PTL DEF Spec
=============================================================================
