---------------------------- MODULE LedgerProofs ----------------------------
(***************************************************************************)
(* What holds of the ledger process and of its client for every value of   *)
(* the constants: the checkpoint chain of Tape under any mix of appends,   *)
(* controls, seals, failures and crashes, and the session of LedgerClient  *)
(* after a lost answer.                                                    *)
(***************************************************************************)
EXTENDS Tape, LedgerClient, FiniteSetTheorems, TLAPS

-----------------------------------------------------------------------------
(* The greatest id of a set *)

\* Among ids there is a greatest one: what MAX(id) returns is a row of the
\* table, and no row is above it.
LEMMA GreatestIs ==
    ASSUME NEW S \in SUBSET (0 .. MaxId), S # {}
    PROVE  Greatest(S) \in S /\ \A y \in S : y <= Greatest(S)
<1> DEFINE T == {MaxId - x : x \in S}
           R == OpToRel(<, Nat)
<1>0. \A x \in S : x \in Nat /\ MaxId - x \in Nat
    BY TapeAssumption
<1>1. T \subseteq Nat /\ T # {}
    BY Zenon, <1>0
<1>2. PICK t \in T : \A y \in T : <<y, t>> \notin R
    BY Zenon, <1>1, NatLessThanWellFounded, WFMin
<1>3. \A y \in T : ~(y < t)
    BY Zenon, <1>1, <1>2 DEF OpToRel
<1>4. PICK x \in S : t = MaxId - x
    OBVIOUS
<1>5. \A y \in S : y <= x
    BY <1>0, <1>3, <1>4, TapeAssumption
<1> QED BY Zenon, <1>5 DEF Greatest

\* A row above all others is what MAX(id) returns.
LEMMA GreatestOnly ==
    ASSUME NEW S \in SUBSET (0 .. MaxId), NEW m \in S, \A y \in S : y <= m
    PROVE  Greatest(S) = m
<1>1. Greatest(S) \in S /\ m <= Greatest(S) /\ Greatest(S) <= m
    BY Zenon, GreatestIs
<1>0. \A y \in S : y \in Int
    BY TapeAssumption
<1>2. m \in Int /\ Greatest(S) \in Int
    BY Zenon, <1>0, <1>1
<1> QED BY <1>1, <1>2

\* Over an empty table too, the high water is an id or none.
LEMMA GreatestBounds ==
    ASSUME NEW S \in SUBSET (0 .. MaxId)
    PROVE  Greatest(S) \in 0 .. MaxId /\ \A y \in S : y <= Greatest(S)
<1>1. CASE S = {}
    BY <1>1, TapeAssumption DEF Greatest, None
<1>2. CASE S # {}
    BY Zenon, <1>2, GreatestIs
<1> QED BY <1>1, <1>2

-----------------------------------------------------------------------------
(* The chain, as a function of the checkpoints C and the signed ids S *)

CheckpointsOf(C) ==
    /\ IsFiniteSet(C)
    /\ \A c \in C : c.id \in Ids /\ c.index \in Nat /\ c.root \subseteq Ids
    /\ \A c, d \in C : c.id = d.id => c = d

IdsOf(C) == {c.id : c \in C}
Newest(C) == {c \in C : c.id = Greatest(IdsOf(C))}
Below(C, c) == {d \in C : d.id < c.id}
Chained(C, S, c) ==
    /\ c.root # {} /\ c.root = {i \in S : i <= Greatest(c.root)}
    /\ c.index = Cardinality(Below(C, c))
    /\ c.previous = Greatest(IdsOf(Below(C, c)))
    /\ \A d \in Below(C, c) : Greatest(d.root) < Greatest(c.root)
ChainOf(C, S) == \A c \in C : Chained(C, S, c)
CoveredBy(C) == UNION {c.root : c \in Newest(C)}

\* The chain of Tape, before a step and after it.
LEMMA ChainIsChainOf ==
    /\ ChainVerifies <=> ChainOf(ckpts, signed)
    /\ ChainVerifies' <=> ChainOf(ckpts', signed')
    /\ Prior = Newest(ckpts)
    /\ CoveredIds = CoveredBy(ckpts) /\ CoveredIds' = CoveredBy(ckpts')
<1>1. /\ ChainVerifies <=> ChainOf(ckpts, signed)
      /\ ChainVerifies' <=> ChainOf(ckpts', signed')
    BY Zenon DEF ChainVerifies, CheckpointValid, Before, ChainOf, Chained, Below, IdsOf
<1>2. /\ Prior = Newest(ckpts)
      /\ CoveredIds = CoveredBy(ckpts) /\ CoveredIds' = CoveredBy(ckpts')
    BY Zenon DEF Prior, CoveredIds, Newest, CoveredBy, IdsOf
<1> QED BY Zenon, <1>1, <1>2

\* latest_checkpoint_for_connection finds exactly one row.
LEMMA NewestIsOne ==
    ASSUME NEW C, CheckpointsOf(C), NEW p \in C, \A c \in C : c.id <= p.id
    PROVE  Newest(C) = {p} /\ CoveredBy(C) = p.root /\ Greatest(IdsOf(C)) = p.id
<1>1. IdsOf(C) \in SUBSET (0 .. MaxId)
    BY TapeAssumption DEF CheckpointsOf, IdsOf, Ids
<1>2. p.id \in IdsOf(C) /\ \A i \in IdsOf(C) : i <= p.id
    BY Zenon DEF IdsOf
<1>3. Greatest(IdsOf(C)) = p.id
    BY Zenon, <1>1, <1>2, GreatestOnly
<1>4. Newest(C) = {p}
    BY Zenon, <1>3 DEF Newest, CheckpointsOf
<1>5. CoveredBy(C) = p.root
    BY Zenon, <1>4 DEF CoveredBy
<1> QED BY Zenon, <1>3, <1>4, <1>5

\* A run with checkpoints has a newest one.
LEMMA NewestExists ==
    ASSUME NEW C, CheckpointsOf(C), C # {}
    PROVE  \E p \in C : \A c \in C : c.id <= p.id
<1>1. IdsOf(C) \in SUBSET (0 .. MaxId) /\ IdsOf(C) # {}
    BY TapeAssumption DEF CheckpointsOf, IdsOf, Ids
<1>2. Greatest(IdsOf(C)) \in IdsOf(C) /\ \A i \in IdsOf(C) : i <= Greatest(IdsOf(C))
    BY Zenon, <1>1, GreatestIs
<1> QED BY Zenon, <1>2 DEF IdsOf

-----------------------------------------------------------------------------
(* What an append and a checkpoint do to the chain *)

\* An ordinary event above every other leaves every root a prefix: nothing is
\* ever inserted under a checkpoint.
LEMMA AppendKeepsChain ==
    ASSUME NEW C, NEW S \in SUBSET Ids, CheckpointsOf(C), ChainOf(C, S),
           NEW i \in Ids, \A s \in S : s < i
    PROVE  ChainOf(C, S \cup {i})
<1> SUFFICES ASSUME NEW c \in C PROVE Chained(C, S \cup {i}, c)
    BY Zenon DEF ChainOf
<1>1. Chained(C, S, c)
    BY Zenon DEF ChainOf
<1>2. c.root # {} /\ c.root = {k \in S : k <= Greatest(c.root)}
    BY Zenon, <1>1 DEF Chained
<1>0. S \in SUBSET (0 .. MaxId) /\ i \in Int
    BY DEF Ids
<1>3. c.root \in SUBSET (0 .. MaxId) /\ c.root \subseteq S
    BY Zenon, <1>0, <1>2
<1>4. Greatest(c.root) \in S
    BY Zenon, <1>2, <1>3, GreatestIs
<1>8. \A s \in S : s \in Int
    BY <1>0, TapeAssumption
<1>7. Greatest(c.root) < i /\ Greatest(c.root) \in Int
    BY Zenon, <1>4, <1>8
<1>5. ~(i <= Greatest(c.root))
    BY <1>0, <1>7
<1>6. c.root = {k \in S \cup {i} : k <= Greatest(c.root)}
    BY Zenon, <1>2, <1>5
<1> QED BY Zenon, <1>1, <1>6 DEF Chained

\* A checkpoint with the highest id, over every signed event, is the next of
\* the chain and covers the whole of it, when the one before covered less.
LEMMA SealExtendsChain ==
    ASSUME NEW C, NEW S \in SUBSET Ids, CheckpointsOf(C), ChainOf(C, S),
           S # {}, CoveredBy(C) # S,
           NEW i \in Ids, \A c \in C : c.id < i,
           NEW n, n.id = i, n.root = S,
           n.index = IF Newest(C) = {} THEN 0
                     ELSE (CHOOSE c \in Newest(C) : TRUE).index + 1,
           n.previous = Greatest(IdsOf(C))
    PROVE  /\ CheckpointsOf(C \cup {n}) /\ ChainOf(C \cup {n}, S)
           /\ CoveredBy(C \cup {n}) = S
<1> DEFINE D == C \cup {n}
<1>1. n \notin C /\ \A c \in D : c.id <= n.id
    BY DEF CheckpointsOf, Ids
<1>2. \A c \in C : Below(D, c) = Below(C, c)
    BY DEF Below, CheckpointsOf, Ids
<1>3. Below(D, n) = C
    BY <1>1 DEF Below, CheckpointsOf, Ids
<1>4. S \in SUBSET (0 .. MaxId)
    BY TapeAssumption DEF Ids
<1>5. Greatest(S) \in S /\ \A y \in S : y <= Greatest(S)
    BY Zenon, <1>4, GreatestIs
<1>6. n.root # {} /\ n.root = {k \in S : k <= Greatest(n.root)}
    BY Zenon, <1>5
<1>7. /\ n.index \in Nat /\ n.index = Cardinality(C)
      /\ \A d \in C : Greatest(d.root) < Greatest(S)
    <2>1. CASE C = {}
        <3>1. Newest(C) = {}
            BY Zenon, <2>1 DEF Newest
        <3> QED BY <2>1, <3>1, FS_EmptySet
    <2>2. CASE C # {}
        <3>1. PICK p \in C : \A c \in C : c.id <= p.id
            BY Zenon, <2>2, NewestExists
        <3>2. Newest(C) = {p} /\ CoveredBy(C) = p.root
            BY Zenon, <3>1, NewestIsOne
        <3>3. n.index = p.index + 1
            BY <3>2
        <3>4. Chained(C, S, p)
            BY Zenon DEF ChainOf
        <3>5. Below(C, p) = C \ {p}
            BY <3>1 DEF Below, CheckpointsOf, Ids
        <3>6. IsFiniteSet(C \ {p}) /\ Cardinality(C \ {p}) = Cardinality(C) - 1
            BY Zenon, FS_RemoveElement DEF CheckpointsOf
        <3>7. Cardinality(C) \in Nat
            BY Zenon, FS_CardinalityType DEF CheckpointsOf
        <3>8. n.index \in Nat /\ n.index = Cardinality(C)
            <4>1. p.index = Cardinality(C \ {p}) /\ p.index \in Nat
                BY Zenon, <3>4, <3>5 DEF Chained, CheckpointsOf
            <4> QED BY <3>3, <3>6, <3>7, <4>1
        <3>9. p.root = {k \in S : k <= Greatest(p.root)} /\ p.root # {}
            BY Zenon, <3>4 DEF Chained
        <3>10. PICK k \in S : ~(k <= Greatest(p.root))
            BY Zenon, <3>2, <3>9
        <3>11. \A d \in C : d.root \in SUBSET (0 .. MaxId) 
            BY TapeAssumption DEF CheckpointsOf, Ids
        <3>12. \A d \in C : Greatest(d.root) \in 0 .. MaxId
            BY Zenon, <3>11, GreatestBounds
        <3>19. \A j \in 0 .. MaxId : j \in Int
            BY TapeAssumption
        <3>18. \A s \in S : s \in Int
            BY Zenon, <1>4, <3>19
        <3>16. k \in Int /\ Greatest(S) \in Int /\ k <= Greatest(S)
            BY Zenon, <1>5, <3>18
        <3>17. \A d \in C : Greatest(d.root) \in Int
            BY <3>12
        <3>13. Greatest(p.root) < Greatest(S)
            BY <3>10, <3>16, <3>17
        <3>14. \A d \in C : d = p \/ Greatest(d.root) < Greatest(p.root)
            BY Zenon, <3>4, <3>5 DEF Chained
        <3>15. \A d \in C : Greatest(d.root) < Greatest(S)
            BY <3>13, <3>14, <3>16, <3>17
        <3> QED BY Zenon, <3>8, <3>15
    <2> QED BY <2>1, <2>2
<1>8. CheckpointsOf(D)
    <2>1. IsFiniteSet(D)
        BY Zenon, FS_AddElement DEF CheckpointsOf
    <2>2. \A c, d \in D : c.id = d.id => c = d
        BY DEF CheckpointsOf, Ids
    <2> QED BY Zenon, <1>7, <2>1, <2>2 DEF CheckpointsOf
<1>9. \A c \in C : Chained(D, S, c)
    BY Zenon, <1>2 DEF ChainOf, Chained
<1>10. Chained(D, S, n)
    BY Zenon, <1>3, <1>6, <1>7 DEF Chained
<1>11. ChainOf(D, S)
    BY Zenon, <1>9, <1>10 DEF ChainOf
<1>12. CoveredBy(D) = S
    <2>1. n \in D
        OBVIOUS
    <2> QED BY Zenon, <1>1, <1>8, <2>1, NewestIsOne
<1> QED BY Zenon, <1>8, <1>11, <1>12

-----------------------------------------------------------------------------
(* The inductive invariant of Tape *)

TapeType ==
    /\ site \in Deployments
    /\ unsigned \in SUBSET Ids /\ signed \in SUBSET Ids /\ unsent \in SUBSET Ids
    /\ CheckpointsOf(ckpts)
    /\ mark \in [Writers -> 0 .. MaxId]
    /\ pc \in [Writers -> {"idle", "cadence", "final"}]
    /\ minted \in [Writers \cup {"host"} -> 0 .. MaxId]

\* Only a serving connection is ever between an append and its checkpoint.
OnlyServing == \A w \in Writers : pc[w] # "idle" => w \in site.serving

\* While ids are ordered: some process has minted every id in use, or one
\* above it, a serving connection's mark is the table's, and the chain verifies.
MintedAbove == \A i \in Used : \E q \in DOMAIN minted : i <= minted[q]
MarksCurrent == \A w \in site.serving : mark[w] # None => mark[w] = LatestOrdinary
OrderedSound == MintedAbove /\ MarksCurrent /\ ChainVerifies

TInv == TapeType /\ OnlyServing /\ (site.ordered => OrderedSound)

\* A run has one deployment: its writers are named, and a serving connection
\* is alone and mints in order.
LEMMA SiteFacts ==
    ASSUME TapeType
    PROVE  /\ site.serving \subseteq Writers /\ site.controlling \subseteq Writers
           /\ \A w \in site.serving : /\ site.ordered /\ site.serving = {w}
                                      /\ site.controlling \subseteq {w}
<1>1. site \in Site
    BY Zenon, TapeAssumption DEF TapeType
<1>2. site.serving \subseteq Writers /\ site.controlling \subseteq Writers
    BY <1>1 DEF Site
<1>3. \A w \in site.serving : /\ site.ordered /\ site.serving = {w}
                              /\ site.controlling \subseteq {w}
    BY Zenon, DeploymentAssumption DEF TapeType
<1> QED BY Zenon, <1>2, <1>3

\* EventId::new in a run with ordered ids: above every id in use, and from
\* then on minted.
LEMMA FreshIsAbove ==
    ASSUME TapeType, MintedAbove, site.ordered,
           NEW p \in Writers \cup {"host"}, NEW i \in Ids, Mint(p, i)
    PROVE  /\ \A u \in Used : u < i
           /\ \A q \in DOMAIN minted' : minted'[q] \in Int
           /\ \A u \in Used \cup {i} : \E q \in DOMAIN minted' : u <= minted'[q]
<1> DEFINE P == Writers \cup {"host"}
           R == {minted[q] : q \in DOMAIN minted}
<1>1. minted \in [P -> 0 .. MaxId] /\ DOMAIN minted = P
    BY Zenon DEF TapeType
<1>2. R \in SUBSET (0 .. MaxId)
    BY Zenon, <1>1
<1>3. Greatest(R) \in 0 .. MaxId /\ \A y \in R : y <= Greatest(R)
    BY Zenon, <1>2, GreatestBounds
<1>4. i = Greatest(R) + 1 /\ minted' = [minted EXCEPT ![p] = i]
    BY DEF Mint, FreshIds
<1> HIDE DEF R
<1>5. Greatest(R) \in Int /\ i \in Int
    BY <1>3, <1>4
<1>6. \A q \in P : minted[q] \in Int /\ minted[q] < i
    <2>1. \A q \in P : minted[q] \in Int
        BY <1>1
    <2>2. \A q \in P : minted[q] <= Greatest(R)
        BY Zenon, <1>1, <1>3 DEF R
    <2> QED BY <1>4, <1>5, <2>1, <2>2
<1>7. Used \subseteq Int
    <2>1. Ids \subseteq Int
        BY DEF Ids
    <2> QED BY Zenon, <2>1 DEF Used, TapeType, CheckpointsOf
<1>8. ASSUME NEW u \in Used PROVE u < i
    <2>1. PICK q \in P : u <= minted[q]
        BY Zenon, <1>1 DEF MintedAbove
    <2>2. u \in Int
        BY Zenon, <1>7
    <2>3. minted[q] \in Int /\ minted[q] < i
        BY Zenon, <1>6
    <2> QED BY <1>5, <2>1, <2>2, <2>3
<1>9. DOMAIN minted' = P /\ minted'[p] = i /\ \A q \in P \ {p} : minted'[q] = minted[q]
    BY Zenon, <1>1, <1>4
<1>10. \A q \in P : minted'[q] \in Int
    BY Zenon, <1>5, <1>6, <1>9
<1>11. \A u \in Used \cup {i} : u <= minted'[p]
    BY <1>5, <1>7, <1>8, <1>9
<1> QED BY Zenon, <1>8, <1>9, <1>10, <1>11

\* A minted id is one no row of the run has.
LEMMA MintFacts ==
    ASSUME TapeType, NEW p \in Writers \cup {"host"}, NEW i \in Ids, Mint(p, i)
    PROVE  /\ i \notin Used
           /\ minted' \in [Writers \cup {"host"} -> 0 .. MaxId]
<1>1. i \notin Used /\ minted' = [minted EXCEPT ![p] = i]
    BY Zenon DEF Mint, FreshIds
<1>2. i \in 0 .. MaxId
    BY DEF Ids
<1>3. minted \in [Writers \cup {"host"} -> 0 .. MaxId]
    BY Zenon DEF TapeType
<1> QED BY Zenon, <1>1, <1>2, <1>3

\* The high water of the ordinary events, and what an accepted id does to it.
LEMMA LatestFacts ==
    ASSUME TapeType
    PROVE  /\ LatestOrdinary \in 0 .. MaxId
           /\ \A i \in Ids : i > LatestOrdinary =>
                 /\ \A s \in signed : s < i
                 /\ Greatest(unsigned \cup signed \cup {i}) = i
<1> DEFINE O == unsigned \cup signed
<1>1. O \in SUBSET (0 .. MaxId)
    BY DEF TapeType, Ids
<1>2. LatestOrdinary = Greatest(O)
    BY Zenon DEF LatestOrdinary
<1>3. Greatest(O) \in 0 .. MaxId /\ \A y \in O : y <= Greatest(O)
    BY Zenon, <1>1, GreatestBounds
<1>4. ASSUME NEW i \in Ids, i > Greatest(O)
      PROVE  (\A s \in signed : s < i) /\ Greatest(O \cup {i}) = i
    <2>1. Greatest(O) \in Int /\ i \in Int /\ \A y \in O : y \in Int
        BY <1>1, <1>3, TapeAssumption DEF Ids
    <2>2. \A y \in O : y < i
        BY <1>3, <1>4, <2>1
    <2>3. O \cup {i} \in SUBSET (0 .. MaxId) /\ i \in O \cup {i}
        BY <1>1 DEF Ids
    <2>4. \A y \in O \cup {i} : y <= i
        BY <2>1, <2>2
    <2>5. Greatest(O \cup {i}) = i
        BY Zenon, <2>3, <2>4, GreatestOnly
    <2> QED BY Zenon, <2>2, <2>5
<1> QED BY Zenon, <1>2, <1>3, <1>4

-----------------------------------------------------------------------------
(* The steps *)

\* emit_checkpoint_in_transaction writes one more checkpoint row.
LEMMA EmitKeepsType ==
    ASSUME TapeType, NEW w \in Writers, EmitCheckpoint(w)
    PROVE  /\ CheckpointsOf(ckpts')
           /\ minted' \in [Writers \cup {"host"} -> 0 .. MaxId]
           /\ ckpts' # ckpts
<1>1. PICK i \in Ids : Mint(w, i) /\ ckpts' = ckpts \cup {NewCheckpoint(i)}
    BY Zenon DEF EmitCheckpoint
<1> DEFINE n == NewCheckpoint(i)
<1>2. i \notin Used /\ minted' \in [Writers \cup {"host"} -> 0 .. MaxId]
    BY Zenon, <1>1, MintFacts
<1>3. \A c \in ckpts : c.id # i
    BY Zenon, <1>2 DEF Used
<1>4. n.id = i /\ n.root = signed
      /\ n.index = (IF Prior = {} THEN 0 ELSE (CHOOSE c \in Prior : TRUE).index + 1)
    BY DEF NewCheckpoint
<1>5. n.index \in Nat
    <2>1. Prior \subseteq ckpts
        BY Zenon DEF Prior
    <2>2. Prior # {} => (CHOOSE c \in Prior : TRUE) \in ckpts
        BY Zenon, <2>1
    <2> QED BY <1>4, <2>2 DEF TapeType, CheckpointsOf
<1> HIDE DEF n
<1>6. IsFiniteSet(ckpts \cup {n})
    BY Zenon, FS_AddElement DEF TapeType, CheckpointsOf
<1>7. signed \subseteq Ids
    BY Zenon DEF TapeType
<1>8. ckpts' = ckpts \cup {n}
    BY Zenon, <1>1 DEF n
<1>9. CheckpointsOf(ckpts')
    BY Zenon, <1>3, <1>4, <1>5, <1>6, <1>7, <1>8 DEF TapeType, CheckpointsOf
<1>10. ckpts' # ckpts
    BY Zenon, <1>3, <1>4, <1>8
<1> QED BY Zenon, <1>2, <1>9, <1>10

\* In a run with ordered ids whose last checkpoint covers less than the signed
\* events, the new one extends the chain and covers all of them.
LEMMA EmitExtendsChain ==
    ASSUME TapeType, site.ordered, OrderedSound, CoveredIds # signed,
           NEW w \in Writers, EmitCheckpoint(w),
           UNCHANGED <<site, unsigned, signed, mark, unsent>>
    PROVE  OrderedSound' /\ Opens'
<1>1. PICK i \in Ids : Mint(w, i) /\ ckpts' = ckpts \cup {NewCheckpoint(i)}
    BY Zenon DEF EmitCheckpoint
<1> DEFINE n == NewCheckpoint(i)
<1>2. /\ \A u \in Used : u < i
      /\ \A u \in Used \cup {i} : \E q \in DOMAIN minted' : u <= minted'[q]
    BY Zenon, <1>1, FreshIsAbove DEF OrderedSound
<1>3. \A c \in ckpts : c.id < i
    BY Zenon, <1>2 DEF Used
<1>4. /\ ChainOf(ckpts, signed) /\ Prior = Newest(ckpts)
      /\ CoveredBy(ckpts) # signed
    BY Zenon, ChainIsChainOf DEF OrderedSound
<1>5. signed \in SUBSET Ids /\ CheckpointsOf(ckpts)
    BY Zenon DEF TapeType
<1>6. signed # {}
    <2> SUFFICES ASSUME signed = {} PROVE FALSE
        OBVIOUS
    <2>1. \A c \in ckpts : c.root # {} /\ c.root \subseteq signed
        BY Zenon, <1>4 DEF ChainOf, Chained
    <2>2. ckpts = {}
        BY Zenon, <2>1
    <2>3. CoveredBy(ckpts) = {}
        BY Zenon, <2>2 DEF CoveredBy, Newest
    <2> QED BY Zenon, <1>4, <2>3
<1>7. /\ n.id = i /\ n.root = signed
      /\ n.index = (IF Newest(ckpts) = {} THEN 0
                    ELSE (CHOOSE c \in Newest(ckpts) : TRUE).index + 1)
      /\ n.previous = Greatest(IdsOf(ckpts))
    BY <1>4 DEF NewCheckpoint, IdsOf
<1> HIDE DEF n
<1>8. ckpts' = ckpts \cup {n}
    BY Zenon, <1>1 DEF n
<1>9. ChainOf(ckpts', signed) /\ CoveredBy(ckpts') = signed
    <2>1. ChainOf(ckpts \cup {n}, signed) /\ CoveredBy(ckpts \cup {n}) = signed
        BY <1>3, <1>4, <1>5, <1>6, <1>7, SealExtendsChain
    <2> QED BY Zenon, <1>8, <2>1
<1>10. ChainVerifies' /\ CoveredIds' = signed'
    BY Zenon, <1>9, ChainIsChainOf
<1>11. Used' = Used \cup {i}
    BY <1>7, <1>8 DEF Used
<1>12. MintedAbove'
    BY Zenon, <1>2, <1>11 DEF MintedAbove
<1>13. MarksCurrent'
    BY Zenon DEF MarksCurrent, LatestOrdinary, OrderedSound
<1> QED BY Zenon, <1>8, <1>10, <1>12, <1>13 DEF OrderedSound, Opens

\* A wire id is compared with the table's high water, whether the mark is
\* cached or seeded.
LEMMA MarkIsLatest ==
    ASSUME TapeType, MarksCurrent, NEW w \in site.serving
    PROVE  Mark(w) = LatestOrdinary
BY Zenon DEF Mark, MarksCurrent

\* One more ordinary event, above all others, noted in the mark of the only
\* connection that serves the wire.
LEMMA OrdinaryAppended ==
    ASSUME TInv, NEW w \in Writers, NEW i \in Ids, i > LatestOrdinary,
           w \in site.serving \/ w \in site.controlling,
           \/ signed' = signed \cup {i} /\ unsigned' = unsigned
           \/ unsigned' = unsigned \cup {i} /\ signed' = signed,
           mark' = [mark EXCEPT ![w] = i], UNCHANGED <<site, ckpts>>
    PROVE  /\ unsigned' \in SUBSET Ids /\ signed' \in SUBSET Ids
           /\ mark' \in [Writers -> 0 .. MaxId]
           /\ MarksCurrent'
           /\ ChainVerifies => ChainVerifies'
<1>1. TapeType /\ unsigned \in SUBSET Ids /\ signed \in SUBSET Ids
      /\ CheckpointsOf(ckpts) /\ mark \in [Writers -> 0 .. MaxId]
    BY Zenon DEF TInv, TapeType
<1>2. unsigned' \in SUBSET Ids /\ signed' \in SUBSET Ids
    BY Zenon, <1>1
<1>3. i \in 0 .. MaxId
    BY DEF Ids
<1>4. mark' \in [Writers -> 0 .. MaxId] /\ mark'[w] = i
    BY Zenon, <1>1, <1>3
<1>5. (\A s \in signed : s < i) /\ Greatest(unsigned \cup signed \cup {i}) = i
    BY Zenon, <1>1, LatestFacts
<1>6. unsigned' \cup signed' = unsigned \cup signed \cup {i}
    BY Zenon
<1>7. LatestOrdinary' = i
    BY Zenon, <1>5, <1>6 DEF LatestOrdinary
<1>8. MarksCurrent'
    <2>1. \A v \in site.serving : v = w
        BY Zenon, <1>1, SiteFacts
    <2> QED BY Zenon, <1>4, <1>7, <2>1 DEF MarksCurrent
<1>9. ASSUME ChainVerifies PROVE ChainVerifies'
    <2>1. ChainOf(ckpts, signed)
        BY Zenon, <1>9, ChainIsChainOf
    <2>2. ChainOf(ckpts, signed \cup {i})
        BY Zenon, <1>1, <1>5, <2>1, AppendKeepsChain
    <2>3. ChainOf(ckpts', signed')
        BY Zenon, <2>1, <2>2
    <2> QED BY Zenon, <2>3, ChainIsChainOf
<1> QED BY Zenon, <1>2, <1>4, <1>8, <1>9

\* A run starts with an empty tape.
LEMMA TInvInit == Init => TInv
<1> SUFFICES ASSUME Init PROVE TInv
    OBVIOUS
<1>1. 0 \in 0 .. MaxId
    BY TapeAssumption
<1>2. CheckpointsOf(ckpts)
    BY Zenon, FS_EmptySet DEF Init, CheckpointsOf
<1>3. TapeType
    BY Zenon, <1>1, <1>2 DEF Init, TapeType, None
<1>4. OnlyServing
    BY Zenon DEF Init, OnlyServing
<1>5. Used = {}
    BY Zenon DEF Init, Used
<1>6. \A w \in site.serving : mark[w] = None
    <2>1. site.serving \subseteq Writers
        BY Zenon, <1>3, SiteFacts
    <2> QED BY Zenon, <2>1 DEF Init
<1>7. OrderedSound
    BY Zenon, <1>5, <1>6
       DEF Init, OrderedSound, MintedAbove, MarksCurrent, ChainVerifies
<1> QED BY Zenon, <1>3, <1>4, <1>7 DEF TInv

\* What a step keeps: the invariant, and a checkpoint only where recovery opens.
Keeps == TInv' /\ (site.ordered /\ ckpts' # ckpts => Opens')

\* The host mints the id of a line it will send.
LEMMA HostMintsKeeps == TInv /\ HostMints => Keeps
<1> SUFFICES ASSUME TInv, HostMints PROVE Keeps
    OBVIOUS
<1> USE DEF HostMints
<1>1. PICK i \in Ids : Mint("host", i) /\ unsent' = unsent \cup {i}
    BY Zenon
<1>2. minted' \in [Writers \cup {"host"} -> 0 .. MaxId]
    BY Zenon, <1>1, MintFacts DEF TInv
<1>3. TapeType'
    BY Zenon, <1>1, <1>2 DEF TInv, TapeType
<1>4. OnlyServing'
    BY Zenon DEF TInv, OnlyServing
<1>5. ASSUME site.ordered PROVE OrderedSound'
    <2>1. \A u \in Used \cup {i} : \E q \in DOMAIN minted' : u <= minted'[q]
        BY Zenon, <1>1, <1>5, FreshIsAbove DEF TInv, OrderedSound
    <2>2. Used' = Used \cup {i}
        BY <1>1 DEF Used
    <2>3. MintedAbove'
        BY Zenon, <2>1, <2>2 DEF MintedAbove
    <2>4. MarksCurrent' /\ ChainVerifies'
        BY Zenon, <1>5 DEF TInv, OrderedSound, MarksCurrent, LatestOrdinary,
                           ChainVerifies, CheckpointValid, Before
    <2> QED BY Zenon, <2>3, <2>4 DEF OrderedSound
<1> QED BY Zenon, <1>3, <1>4, <1>5 DEF TInv, Keeps

\* A wire line is appended to either lane, or refused.
LEMMA WireKeeps ==
    ASSUME TInv, NEW w \in Writers, NEW i \in Ids,
           \/ AppendRaw(w, i) \/ RejectWire(w, i)
           \/ \E final \in BOOLEAN : AppendSigned(w, i, final)
    PROVE  Keeps
<1>1. w \in site.serving /\ i \in unsent /\ unsent' = unsent \ {i}
      /\ UNCHANGED <<site, ckpts, minted>>
    BY Zenon DEF AppendRaw, RejectWire, AppendSigned
<1>2. site.ordered /\ OrderedSound /\ TapeType
    BY Zenon, <1>1, SiteFacts DEF TInv
<1>3. Mark(w) = LatestOrdinary
    BY Zenon, <1>1, <1>2, MarkIsLatest DEF OrderedSound
<1>4. /\ unsigned' \in SUBSET Ids /\ signed' \in SUBSET Ids
      /\ mark' \in [Writers -> 0 .. MaxId]
      /\ MarksCurrent' /\ ChainVerifies'
      /\ Used' \subseteq Used
      /\ pc' \in [Writers -> {"idle", "cadence", "final"}]
      /\ \A v \in Writers : v = w \/ pc'[v] = pc[v]
    <2>0. /\ pc \in [Writers -> {"idle", "cadence", "final"}]
          /\ mark \in [Writers -> 0 .. MaxId]
          /\ unsigned \in SUBSET Ids /\ signed \in SUBSET Ids
        BY Zenon, <1>2 DEF TapeType
    <2>1. CASE AppendRaw(w, i)
        <3>1. i > LatestOrdinary
            BY Zenon, <1>3, <2>1 DEF AppendRaw, AcceptsId
        <3>2. /\ unsigned' = unsigned \cup {i} /\ signed' = signed
              /\ mark' = [mark EXCEPT ![w] = i] /\ pc' = pc
            BY Zenon, <2>1 DEF AppendRaw
        <3>3. /\ unsigned' \in SUBSET Ids /\ signed' \in SUBSET Ids
              /\ mark' \in [Writers -> 0 .. MaxId]
              /\ MarksCurrent' /\ ChainVerifies'
            BY Zenon, <1>1, <1>2, <3>1, <3>2, OrdinaryAppended DEF OrderedSound
        <3>4. Used' \subseteq Used
            BY <1>1, <3>2 DEF Used
        <3> QED BY Zenon, <2>0, <3>2, <3>3, <3>4
    <2>2. CASE \E final \in BOOLEAN : AppendSigned(w, i, final)
        <3>0. PICK final \in BOOLEAN : AppendSigned(w, i, final)
            BY Zenon, <2>2
        <3>1. i > LatestOrdinary
            BY Zenon, <1>3, <3>0 DEF AppendSigned, AcceptsId
        <3>2. /\ signed' = signed \cup {i} /\ unsigned' = unsigned
              /\ mark' = [mark EXCEPT ![w] = i]
              /\ pc' = [pc EXCEPT ![w] = IF final THEN "final" ELSE "cadence"]
            BY Zenon, <3>0 DEF AppendSigned
        <3>3. /\ unsigned' \in SUBSET Ids /\ signed' \in SUBSET Ids
              /\ mark' \in [Writers -> 0 .. MaxId]
              /\ MarksCurrent' /\ ChainVerifies'
            BY Zenon, <1>1, <1>2, <3>1, <3>2, OrdinaryAppended DEF OrderedSound
        <3>4. Used' \subseteq Used
            BY <1>1, <3>2 DEF Used
        <3>5. /\ pc' \in [Writers -> {"idle", "cadence", "final"}]
              /\ \A v \in Writers : v = w \/ pc'[v] = pc[v]
            BY <2>0, <3>2
        <3> QED BY Zenon, <3>3, <3>4, <3>5
    <2>3. CASE RejectWire(w, i)
        <3>1. /\ signed' = signed /\ unsigned' = unsigned
              /\ mark' = [mark EXCEPT ![w] = LatestOrdinary] /\ pc' = pc
            BY Zenon, <1>3, <2>3 DEF RejectWire
        <3>2. LatestOrdinary \in 0 .. MaxId
            BY Zenon, <1>2, LatestFacts
        <3>3. mark' \in [Writers -> 0 .. MaxId] /\ mark'[w] = LatestOrdinary
              /\ \A v \in Writers : v = w \/ mark'[v] = mark[v]
            BY Zenon, <2>0, <3>1, <3>2
        <3>4. MarksCurrent'
            <4>1. \A v \in site.serving : v = w
                BY Zenon, <1>1, <1>2, SiteFacts
            <4>2. LatestOrdinary' = LatestOrdinary
                BY Zenon, <3>1 DEF LatestOrdinary
            <4> QED BY Zenon, <1>1, <3>3, <4>1, <4>2 DEF MarksCurrent
        <3>5. ChainVerifies'
            BY Zenon, <1>1, <1>2, <3>1
               DEF OrderedSound, ChainVerifies, CheckpointValid, Before
        <3>6. Used' \subseteq Used
            BY <1>1, <3>1 DEF Used
        <3> QED BY Zenon, <2>0, <3>1, <3>3, <3>4, <3>5, <3>6
    <2> QED BY Zenon, <2>1, <2>2, <2>3
<1>5. TapeType'
    <2>1. unsent' \in SUBSET Ids
        BY Zenon, <1>1, <1>2 DEF TapeType
    <2> QED BY Zenon, <1>1, <1>2, <1>4, <2>1 DEF TapeType
<1>6. OnlyServing'
    BY Zenon, <1>1, <1>4 DEF TInv, OnlyServing
<1>7. MintedAbove'
    BY Zenon, <1>1, <1>2, <1>4 DEF OrderedSound, MintedAbove
<1> QED BY Zenon, <1>1, <1>4, <1>5, <1>6, <1>7 DEF TInv, OrderedSound, Keeps

\* Fewer events covered than signed is what a due checkpoint and a needed seal
\* have in common.
LEMMA CoveredAreIds ==
    ASSUME TapeType
    PROVE  /\ CoveredIds \in SUBSET Ids
           /\ Cardinality(signed) \in Nat /\ Cardinality(CoveredIds) \in Nat
<1>1. CoveredIds \in SUBSET Ids
    <2>1. \A c \in ckpts : c.root \subseteq Ids
        BY Zenon DEF TapeType, CheckpointsOf
    <2> QED BY Zenon, <2>1 DEF CoveredIds, Prior
<1>2. IsFiniteSet(Ids)
    BY FS_Interval, TapeAssumption DEF Ids
<1>3. IsFiniteSet(signed) /\ IsFiniteSet(CoveredIds)
    BY Zenon, <1>1, <1>2, FS_Subset DEF TapeType
<1> QED BY Zenon, <1>1, <1>3, FS_CardinalityType

\* The second transaction of a signed append: a due checkpoint is written, and
\* extends the chain.
LEMMA CheckpointIfDueKeeps ==
    ASSUME TInv, NEW w \in Writers, CheckpointIfDue(w)
    PROVE  Keeps /\ Uncheckpointed' < Cadence
<1>1. /\ pc[w] # "idle" /\ pc' = [pc EXCEPT ![w] = "idle"]
      /\ UNCHANGED <<site, unsigned, signed, mark, unsent>>
    BY Zenon DEF CheckpointIfDue
<1>2. TapeType /\ site.ordered /\ OrderedSound
    BY Zenon, <1>1, SiteFacts DEF TInv, OnlyServing
<1>3. /\ Cardinality(signed) \in Nat /\ Cardinality(CoveredIds) \in Nat
      /\ Cadence \in Nat /\ 0 < Cadence
    <2>1. Cadence \in Nat /\ 0 < Cadence
        BY TapeAssumption
    <2> QED BY Zenon, <1>2, <2>1, CoveredAreIds
<1>4. pc' \in [Writers -> {"idle", "cadence", "final"}] /\ OnlyServing'
    <2>1. pc \in [Writers -> {"idle", "cadence", "final"}]
        BY Zenon, <1>2 DEF TapeType
    <2> QED BY Zenon, <1>1, <2>1 DEF TInv, OnlyServing
<1>5. CASE Due(pc[w] = "final")
    <2>1. EmitCheckpoint(w)
        BY Zenon, <1>5 DEF CheckpointIfDue
    <2>2. Uncheckpointed >= Cadence \/ Uncheckpointed >= 1
        BY Zenon, <1>5 DEF Due
    <2>3. Cardinality(signed) # Cardinality(CoveredIds)
        BY <1>3, <2>2 DEF Uncheckpointed
    <2>4. CoveredIds # signed
        BY Zenon, <2>3
    <2>5. OrderedSound' /\ Opens'
        BY Zenon, <1>1, <1>2, <2>1, <2>4, EmitExtendsChain
    <2>6. TapeType'
        BY Zenon, <1>1, <1>2, <1>4, <2>1, EmitKeepsType DEF TapeType
    <2>7. CoveredIds' = signed'
        BY Zenon, <2>5 DEF Opens
    <2>8. Cardinality(CoveredIds') = Cardinality(signed) /\ Cardinality(signed') = Cardinality(signed)
        BY Zenon, <1>1, <2>7
    <2>9. Uncheckpointed' < Cadence
        BY <1>3, <2>8 DEF Uncheckpointed
    <2> QED BY Zenon, <1>1, <1>4, <2>5, <2>6, <2>9 DEF TInv, Keeps
<1>6. CASE ~Due(pc[w] = "final")
    <2>1. ckpts' = ckpts /\ minted' = minted
        BY Zenon, <1>6 DEF CheckpointIfDue
    <2>2. ~(Uncheckpointed >= Cadence)
        BY Zenon, <1>6 DEF Due
    <2>3. Uncheckpointed < Cadence
        BY <1>3, <2>2 DEF Uncheckpointed
    <2>4. Uncheckpointed' = Uncheckpointed
        BY Zenon, <1>1, <2>1 DEF Uncheckpointed, CoveredIds, Prior
    <2>5. TapeType'
        BY Zenon, <1>1, <1>2, <1>4, <2>1 DEF TapeType
    <2>6. OrderedSound'
        BY Zenon, <1>1, <1>2, <2>1
           DEF OrderedSound, MintedAbove, Used, MarksCurrent, LatestOrdinary,
               ChainVerifies, CheckpointValid, Before
    <2> QED BY Zenon, <1>4, <2>1, <2>3, <2>4, <2>5, <2>6 DEF TInv, Keeps
<1> QED BY Zenon, <1>5, <1>6

\* The checkpoint transaction rolls back, or the process dies: the rows stay,
\* and an empty cache is no stale one.
LEMMA LossKeeps ==
    ASSUME TInv, NEW w \in Writers, CheckpointFails(w) \/ Crash(w)
    PROVE  Keeps
<1>1. /\ pc' = [pc EXCEPT ![w] = "idle"]
      /\ UNCHANGED <<site, unsigned, signed, ckpts, unsent>>
      /\ mark' = mark \/ mark' = [mark EXCEPT ![w] = None]
      /\ minted' = minted \/ (~site.ordered /\ minted' = [minted EXCEPT ![w] = None])
    BY Zenon DEF CheckpointFails, Crash
<1>2. /\ pc \in [Writers -> {"idle", "cadence", "final"}]
      /\ mark \in [Writers -> 0 .. MaxId]
      /\ minted \in [Writers \cup {"host"} -> 0 .. MaxId]
    BY Zenon DEF TInv, TapeType
<1>3. None \in 0 .. MaxId
    BY TapeAssumption DEF None
<1>4. /\ pc' \in [Writers -> {"idle", "cadence", "final"}]
      /\ mark' \in [Writers -> 0 .. MaxId]
      /\ minted' \in [Writers \cup {"host"} -> 0 .. MaxId]
      /\ \A v \in Writers : mark'[v] = mark[v] \/ mark'[v] = None
      /\ \A v \in Writers : pc'[v] = pc[v] \/ pc'[v] = "idle"
    BY <1>1, <1>2, <1>3
<1>5. TapeType' /\ OnlyServing'
    BY Zenon, <1>1, <1>4 DEF TInv, TapeType, OnlyServing
<1>6. site.serving \subseteq Writers
    BY Zenon, SiteFacts DEF TInv
<1>7. ASSUME site.ordered PROVE OrderedSound'
    <2>1. MarksCurrent'
        BY Zenon, <1>1, <1>4, <1>6, <1>7
           DEF TInv, OrderedSound, MarksCurrent, LatestOrdinary
    <2>2. MintedAbove' /\ ChainVerifies'
        BY Zenon, <1>1, <1>7
           DEF TInv, OrderedSound, MintedAbove, Used, ChainVerifies, CheckpointValid, Before
    <2> QED BY Zenon, <2>1, <2>2 DEF OrderedSound
<1> QED BY Zenon, <1>1, <1>5, <1>7 DEF TInv, Keeps

\* A control's event is minted and checked in the transaction that inserts it.
LEMMA ControlKeeps ==
    ASSUME TInv, NEW w \in Writers, Control(w)
    PROVE  Keeps
<1>1. PICK i \in Ids :
        /\ Mint(w, i)
        /\ IF ControlAccepts(i)
           THEN signed' = signed \cup {i} /\ mark' = [mark EXCEPT ![w] = i]
           ELSE UNCHANGED <<signed, mark>>
    BY Zenon DEF Control
<1>2. w \in site.controlling /\ UNCHANGED <<site, unsigned, ckpts, pc, unsent>>
    BY Zenon DEF Control
<1>3. TapeType /\ minted' \in [Writers \cup {"host"} -> 0 .. MaxId]
    BY Zenon, <1>1, MintFacts DEF TInv
<1>4. OnlyServing'
    BY Zenon, <1>2 DEF TInv, OnlyServing
<1>5. /\ signed' \in SUBSET Ids /\ mark' \in [Writers -> 0 .. MaxId]
      /\ site.ordered => MarksCurrent' /\ ChainVerifies'
    <2>1. CASE ControlAccepts(i)
        <3>1. i > LatestOrdinary
            BY Zenon, <2>1 DEF ControlAccepts
        <3> QED BY Zenon, <1>1, <1>2, <2>1, <3>1, OrdinaryAppended DEF TInv, OrderedSound
    <2>2. CASE ~ControlAccepts(i)
        BY Zenon, <1>1, <1>2, <2>2
           DEF TInv, TapeType, OrderedSound, MarksCurrent, LatestOrdinary,
               ChainVerifies, CheckpointValid, Before
    <2> QED BY Zenon, <2>1, <2>2
<1>6. TapeType'
    BY Zenon, <1>2, <1>3, <1>5 DEF TapeType
<1>7. ASSUME site.ordered PROVE MintedAbove'
    <2>1. \A u \in Used \cup {i} : \E q \in DOMAIN minted' : u <= minted'[q]
        BY Zenon, <1>1, <1>3, <1>7, FreshIsAbove DEF TInv, OrderedSound
    <2>2. signed' \subseteq signed \cup {i}
        BY Zenon, <1>1
    <2>3. Used' \subseteq Used \cup {i}
        BY Zenon, <1>2, <2>2 DEF Used
    <2> QED BY Zenon, <2>1, <2>3 DEF MintedAbove
<1> QED BY Zenon, <1>2, <1>4, <1>5, <1>6, <1>7 DEF TInv, OrderedSound, Keeps

\* seal_governed_signed_prefix extends a chain it has verified.
LEMMA SealKeeps ==
    ASSUME TInv, NEW w \in Writers, Seal(w)
    PROVE  Keeps
<1>1. /\ EmitCheckpoint(w) /\ CoveredIds # signed
      /\ UNCHANGED <<site, unsigned, signed, mark, pc, unsent>>
    BY Zenon DEF Seal, NeedsSeal
<1>2. TapeType' /\ OnlyServing'
    BY Zenon, <1>1, EmitKeepsType DEF TInv, TapeType, OnlyServing
<1>3. site.ordered => OrderedSound' /\ Opens'
    BY Zenon, <1>1, EmitExtendsChain DEF TInv
<1> QED BY Zenon, <1>1, <1>2, <1>3 DEF TInv, Keeps

\* The invariant of the tape is inductive, and a checkpoint is only written
\* where recovery opens.
LEMMA TapeStep == TInv /\ [Next]_vars => TInv' /\ (site.ordered /\ ckpts' # ckpts => Opens')
<1> SUFFICES ASSUME TInv, [Next]_vars PROVE Keeps
    BY Zenon DEF Keeps
<1>1. CASE HostMints
    BY Zenon, <1>1, HostMintsKeeps
<1>2. ASSUME NEW w \in Writers, NEW i \in Ids, AppendRaw(w, i) \/ RejectWire(w, i)
      PROVE  Keeps
    BY Zenon, <1>2, WireKeeps
<1>3. ASSUME NEW w \in Writers, NEW i \in Ids, NEW final \in BOOLEAN,
             AppendSigned(w, i, final)
      PROVE  Keeps
    BY Zenon, <1>3, WireKeeps
<1>4. ASSUME NEW w \in Writers, CheckpointIfDue(w) PROVE Keeps
    BY Zenon, <1>4, CheckpointIfDueKeeps
<1>5. ASSUME NEW w \in Writers, CheckpointFails(w) \/ Crash(w) PROVE Keeps
    BY Zenon, <1>5, LossKeeps
<1>6. ASSUME NEW w \in Writers, Control(w) PROVE Keeps
    BY Zenon, <1>6, ControlKeeps
<1>7. ASSUME NEW w \in Writers, Seal(w) PROVE Keeps
    BY Zenon, <1>7, SealKeeps
<1>8. CASE UNCHANGED vars
    <2>1. /\ site' = site /\ unsigned' = unsigned /\ signed' = signed /\ ckpts' = ckpts
          /\ mark' = mark /\ pc' = pc /\ minted' = minted /\ unsent' = unsent
        BY Zenon, <1>8 DEF vars
    <2> QED BY Zenon, <2>1
           DEF TInv, TapeType, OnlyServing, OrderedSound, MintedAbove, Used, Keeps,
               MarksCurrent, LatestOrdinary, ChainVerifies, CheckpointValid, Before
<1> QED BY Zenon, <1>1, <1>2, <1>3, <1>4, <1>5, <1>6, <1>7, <1>8 DEF Next

\* Every state of the tape satisfies its inductive invariant.
LEMMA TapeAlways == Spec => []TInv
<1>1. TInv /\ [Next]_vars => TInv'
    BY TapeStep
<1> QED BY <1>1, TInvInit, PTL DEF Spec

\* ChainIntact for any number of writers, ids and crashes and any cadence:
\* verify_full_tape_integrity_v1 accepts every tape the ledger writes while ids
\* are ordered, and a checkpoint leaves no signed event outside.
THEOREM ChainStaysIntact == Spec => ChainIntact
<1>1. TInv /\ TInv' /\ [Next]_vars =>
        [site.ordered => ChainVerifies' /\ (ckpts' # ckpts => Opens')]_vars
    <2> SUFFICES ASSUME TInv, TInv', [Next]_vars, site.ordered, ~UNCHANGED vars
                 PROVE  ChainVerifies' /\ (ckpts' # ckpts => Opens')
        OBVIOUS
    <2>1. ckpts' # ckpts => Opens'
        BY Zenon, TapeStep
    <2>2. site' = site
        BY Zenon DEF Next, HostMints, AppendRaw, RejectWire, AppendSigned, CheckpointIfDue,
                     CheckpointFails, Control, Seal, Crash
    <2> QED BY Zenon, <2>1, <2>2 DEF TInv, OrderedSound
<1> QED BY <1>1, TapeAlways, PTL DEF Spec, ChainIntact

LossCount == crashes \in Nat

\* A lost checkpoint is counted as one.
LEMMA LossesCounted == Spec => []LossCount
<1>1. Init => LossCount
    BY DEF Init, LossCount
<1>2. LossCount /\ [Next]_vars => LossCount'
    <2> SUFFICES ASSUME LossCount, [Next]_vars PROVE LossCount'
        OBVIOUS
    <2>1. crashes' = crashes \/ crashes' = crashes + 1
        BY Zenon DEF Next, vars, HostMints, AppendRaw, RejectWire, AppendSigned,
                     CheckpointIfDue, CheckpointFails, Control, Seal, Crash
    <2> QED BY <2>1 DEF LossCount
<1> QED BY <1>1, <1>2, PTL DEF Spec

\* The step that ends an append without a loss is its checkpoint step.
LEMMA HealsStep ==
    ASSUME TInv, LossCount, Next, NEW v \in Writers,
           pc[v] # "idle", pc'[v] = "idle", crashes' = crashes
    PROVE  Uncheckpointed' < Cadence
<1>1. CASE \E w \in Writers : CheckpointIfDue(w)
    BY Zenon, <1>1, CheckpointIfDueKeeps
<1>2. CASE HostMints \/ \E w \in Writers :
             (\E i \in Ids : AppendRaw(w, i) \/ RejectWire(w, i)) \/ Control(w) \/ Seal(w)
    BY Zenon, <1>2 DEF HostMints, AppendRaw, RejectWire, Control, Seal
<1>3. CASE \E w \in Writers, i \in Ids, final \in BOOLEAN : AppendSigned(w, i, final)
    <2>1. PICK w \in Writers, i \in Ids, final \in BOOLEAN : AppendSigned(w, i, final)
        BY Zenon, <1>3
    <2>2. pc[w] = "idle" /\ pc' = [pc EXCEPT ![w] = IF final THEN "final" ELSE "cadence"]
        BY Zenon, <2>1 DEF AppendSigned
    <2>3. v # w
        BY Zenon, <2>2
    <2> QED BY Zenon, <2>2, <2>3 DEF TInv, TapeType
<1>4. CASE \E w \in Writers : CheckpointFails(w) \/ Crash(w)
    <2>1. crashes' = crashes + 1 /\ crashes < MaxCrashes
        BY Zenon, <1>4 DEF CheckpointFails, Crash
    <2> QED BY <2>1 DEF LossCount
<1> QED BY Zenon, <1>1, <1>2, <1>3, <1>4 DEF Next

\* CadenceHeals for any cadence: the first append that completes its checkpoint
\* step (emit_checkpoint_if_due_for_current_signed_prefix) makes up for every
\* checkpoint lost before it.
THEOREM CadenceIsMadeUp == Spec => CadenceHeals
<1> DEFINE Heals == \A w \in Writers :
                       pc[w] # "idle" /\ pc'[w] = "idle" /\ crashes' = crashes
                       => Uncheckpointed' < Cadence
<1>1. TInv /\ LossCount /\ Next => Heals
    BY Zenon, HealsStep
<1>2. TInv /\ LossCount /\ [Next]_vars => [Heals]_vars
    <2> HIDE DEF Heals
    <2> QED BY Zenon, <1>1
<1> QED BY <1>2, TapeAlways, LossesCounted, PTL DEF Spec, CadenceHeals

-----------------------------------------------------------------------------
(* The client's session *)

Call == [op : {"emit", "control", "flush", "close"},
         answer : {"none", "ok", "error"},
         seen : {"none", "pending", "exiting", "resolved", "rejected"},
         write : {"waiting", "ready", "draining", "done", "failed"}]

\* What is known of one call: only a close waits for the child's exit, and a
\* control is rejected only with the session, and pending only without.
OpenCall(r) == r.seen = "exiting" => r.op = "close"
SettledCall(r) == r.op = "control" => r.seen # "pending"
KnownCall(r, f) ==
    /\ OpenCall(r)
    /\ r.op = "control" /\ r.seen = "rejected" => f
    /\ f => SettledCall(r)

SessionInv ==
    /\ calls \in Seq(Call) /\ failed \in BOOLEAN
    /\ \A i \in Calls : KnownCall(calls[i], failed)
    /\ reports = IF failed THEN 1 ELSE 0

\* A sequence is a function on the numbers of its calls.
LEMMA CallsAreSeq ==
    ASSUME NEW n \in Nat, NEW cs \in [1 .. n -> Call]
    PROVE  cs \in Seq(Call) /\ Len(cs) = n
OBVIOUS

\* Updating one field of a call leaves the others.
LEMMA CallUpdates ==
    ASSUME NEW r \in Call
    PROVE  /\ \A s \in {"none", "pending", "exiting", "resolved", "rejected"} :
                 /\ [r EXCEPT !.seen = s] \in Call /\ [r EXCEPT !.seen = s].seen = s
                 /\ [r EXCEPT !.seen = s].op = r.op
           /\ \A a \in {"none", "ok", "error"} :
                 /\ [r EXCEPT !.answer = a] \in Call
                 /\ [r EXCEPT !.answer = a].seen = r.seen
                 /\ [r EXCEPT !.answer = a].op = r.op
           /\ \A x \in {"waiting", "ready", "draining", "done", "failed"} :
                 /\ [r EXCEPT !.write = x] \in Call
                 /\ [r EXCEPT !.write = x].seen = r.seen
                 /\ [r EXCEPT !.write = x].op = r.op
BY DEF Call

\* The calls of a session, by number.
LEMMA CallsFacts ==
    ASSUME SessionInv
    PROVE  /\ Len(calls) \in Nat /\ calls \in [1 .. Len(calls) -> Call]
           /\ Calls = 1 .. Len(calls)
BY DEF SessionInv, Calls

\* A step that leaves every call known and the session as it was.
LEMMA SessionGoesOn ==
    ASSUME SessionInv, calls' \in [1 .. Len(calls) -> Call], UNCHANGED outcome,
           \A i \in 1 .. Len(calls) : KnownCall(calls'[i], failed)
    PROVE  SessionInv'
<1>1. Len(calls) \in Nat
    BY Zenon, CallsFacts
<1>2. calls' \in Seq(Call) /\ Len(calls') = Len(calls)
    BY Zenon, <1>1, CallsAreSeq
<1>3. failed' = failed /\ reports' = reports
    BY DEF outcome
<1> QED BY Zenon, <1>2, <1>3 DEF SessionInv, Calls

\* markFailed settles every control and reports once.
LEMMA FailureSettles ==
    ASSUME SessionInv, NEW n \in Nat, NEW cs \in [1 .. n -> Call], markFailed(cs),
           \A i \in 1 .. n : OpenCall(cs[i]) /\ (failed => SettledCall(cs[i]))
    PROVE  SessionInv'
<1>1. Len(cs) = n
    BY Zenon, CallsAreSeq
<1>2. failed' = TRUE /\ reports' = (IF failed THEN reports ELSE reports + 1)
      /\ calls' = IF failed THEN cs ELSE Rejects(cs)
    BY Zenon DEF markFailed
<1>3. reports' = 1
    BY <1>2 DEF SessionInv
<1>4. \A i \in 1 .. n :
        /\ Rejects(cs)[i] \in Call /\ OpenCall(Rejects(cs)[i]) /\ SettledCall(Rejects(cs)[i])
    <2> TAKE i \in 1 .. n
    <2> DEFINE r == cs[i]
               a == r.op = "control" /\ r.seen = "pending"
               b == r.seen = "pending" /\ r.answer = "none" /\ (r.op = "flush" \/ i = closer)
    <2>1. Rejects(cs)[i] = IF a THEN [r EXCEPT !.seen = "rejected"]
                           ELSE IF b THEN [r EXCEPT !.answer = "error"] ELSE r
        BY Zenon, <1>1 DEF Rejects
    <2>2. r \in Call /\ OpenCall(r)
        BY Zenon
    <2>3. /\ [r EXCEPT !.seen = "rejected"] \in Call
          /\ [r EXCEPT !.seen = "rejected"].seen = "rejected"
          /\ [r EXCEPT !.answer = "error"] \in Call
          /\ [r EXCEPT !.answer = "error"].seen = r.seen
          /\ [r EXCEPT !.answer = "error"].op = r.op
        BY Zenon, <2>2, CallUpdates
    <2> HIDE DEF r, b
    <2>4. CASE a
        BY <2>1, <2>3, <2>4 DEF OpenCall, SettledCall
    <2>5. CASE ~a /\ b
        BY <2>1, <2>2, <2>3, <2>5 DEF OpenCall, SettledCall
    <2>6. CASE ~a /\ ~b
        BY <2>1, <2>2, <2>6 DEF OpenCall, SettledCall
    <2> QED BY Zenon, <2>4, <2>5, <2>6
<1>5. Rejects(cs) \in [1 .. n -> Call]
    <2>1. /\ DOMAIN Rejects(cs) = 1 .. n
          /\ Rejects(cs) = [i \in DOMAIN Rejects(cs) |-> Rejects(cs)[i]]
        BY Zenon, <1>1 DEF Rejects
    <2> QED BY Zenon, <1>4, <2>1
<1>6. /\ calls' \in [1 .. n -> Call]
      /\ \A i \in 1 .. n : OpenCall(calls'[i]) /\ SettledCall(calls'[i])
    BY Zenon, <1>2, <1>4, <1>5
<1>7. calls' \in Seq(Call) /\ Len(calls') = n
    BY Zenon, <1>6, CallsAreSeq
<1> QED BY Zenon, <1>2, <1>3, <1>6, <1>7 DEF SessionInv, Calls, KnownCall

\* A call of the emitter joins the queue; a control only while nothing failed.
LEMMA EnqueueKeeps ==
    ASSUME SessionInv, ~failed, NEW op \in {"emit", "control", "flush", "close"},
           Enqueue(op), UNCHANGED outcome
    PROVE  SessionInv'
<1>1. Len(calls) \in Nat /\ calls \in Seq(Call)
    BY Zenon, CallsFacts DEF SessionInv
<1>2. PICK r \in Call : /\ calls' = Append(calls, r) /\ r.op = op
                        /\ r.seen \in {"pending", "none"}
    BY DEF Enqueue, Call, Waits
<1>3. calls' \in Seq(Call) /\ Len(calls') = Len(calls) + 1
    BY <1>1, <1>2
<1>4. \A i \in 1 .. Len(calls') : calls'[i] = IF i = Len(calls) + 1 THEN r ELSE calls[i]
    BY <1>1, <1>2
<1>5. KnownCall(r, failed)
    BY <1>2 DEF KnownCall, OpenCall
<1>6. failed' = failed /\ reports' = reports
    BY DEF outcome
<1>7. \A i \in 1 .. Len(calls') : KnownCall(calls'[i], failed)
    <2> TAKE i \in 1 .. Len(calls')
    <2>1. CASE i = Len(calls) + 1
        BY Zenon, <1>4, <1>5, <2>1
    <2>2. CASE i # Len(calls) + 1
        <3>1. i \in 1 .. Len(calls)
            BY <1>1, <1>3, <2>2
        <3> QED BY Zenon, <1>4, <2>2, <3>1 DEF SessionInv, Calls
    <2> QED BY Zenon, <2>1, <2>2
<1> QED BY Zenon, <1>3, <1>6, <1>7 DEF SessionInv, Calls

\* The write queue moves writes and tells callers nothing.
LEMMA EndedFacts ==
    ASSUME SessionInv, NEW done, NEW how \in {"done", "failed"}
    PROVE  /\ Ended(done, how) \in [1 .. Len(calls) -> Call]
           /\ \A i \in 1 .. Len(calls) :
                 /\ Ended(done, how)[i].seen = calls[i].seen
                 /\ Ended(done, how)[i].op = calls[i].op
<1>1. calls \in [1 .. Len(calls) -> Call] /\ Calls = 1 .. Len(calls)
    BY Zenon, CallsFacts
<1>2. \A i \in 1 .. Len(calls) :
        /\ Ended(done, how)[i] \in Call
        /\ Ended(done, how)[i].seen = calls[i].seen
        /\ Ended(done, how)[i].op = calls[i].op
    <2> TAKE i \in 1 .. Len(calls)
    <2> DEFINE r == calls[i]
               a == i \in done
               b == r.write = "waiting" /\ i - 1 \in done
    <2>1. Ended(done, how)[i] = IF a THEN [r EXCEPT !.write = how]
                                ELSE IF b THEN [r EXCEPT !.write = "ready"] ELSE r
        BY Zenon, <1>1 DEF Ended
    <2>2. r \in Call
        BY Zenon, <1>1
    <2>3. how \in {"waiting", "ready", "draining", "done", "failed"}
          /\ "ready" \in {"waiting", "ready", "draining", "done", "failed"}
        OBVIOUS
    <2>4. /\ [r EXCEPT !.write = how] \in Call /\ [r EXCEPT !.write = how].seen = r.seen
          /\ [r EXCEPT !.write = how].op = r.op
        BY Zenon, <2>2, <2>3, CallUpdates
    <2>6. /\ [r EXCEPT !.write = "ready"] \in Call /\ [r EXCEPT !.write = "ready"].seen = r.seen
          /\ [r EXCEPT !.write = "ready"].op = r.op
        BY Zenon, <2>2, <2>3, CallUpdates
    <2> HIDE DEF r, a, b
    <2>5. /\ Ended(done, how)[i] \in Call /\ Ended(done, how)[i].seen = r.seen
          /\ Ended(done, how)[i].op = r.op
        BY Zenon, <2>1, <2>2, <2>4, <2>6
    <2> QED BY Zenon, <2>5 DEF r
<1>3. /\ DOMAIN Ended(done, how) = 1 .. Len(calls)
      /\ Ended(done, how) = [i \in DOMAIN Ended(done, how) |-> Ended(done, how)[i]]
    BY Zenon, <1>1 DEF Ended
<1>4. Ended(done, how) \in [1 .. Len(calls) -> Call]
    BY Zenon, <1>2, <1>3
<1> QED BY Zenon, <1>2, <1>4

\* Calls whose op and answer to the caller are the same are as known as before.
LEMMA QuietKeeps ==
    ASSUME SessionInv, calls' \in [1 .. Len(calls) -> Call], UNCHANGED outcome,
           \A i \in 1 .. Len(calls) :
               calls'[i].seen = calls[i].seen /\ calls'[i].op = calls[i].op
    PROVE  SessionInv'
<1>1. \A i \in 1 .. Len(calls) : KnownCall(calls'[i], failed)
    BY Zenon DEF SessionInv, Calls, KnownCall, OpenCall, SettledCall
<1> QED BY Zenon, <1>1, SessionGoesOn

\* One call's caller is answered.
LEMMA AnsweredKeeps ==
    ASSUME SessionInv, UNCHANGED outcome, NEW i \in Calls,
           NEW s \in {"none", "pending", "exiting", "resolved", "rejected"},
           calls' = [calls EXCEPT ![i].seen = s],
           s = "exiting" => calls[i].op = "close",
           calls[i].op = "control" => s = "resolved"
    PROVE  SessionInv'
<1>1. calls \in [1 .. Len(calls) -> Call] /\ Calls = 1 .. Len(calls)
    BY Zenon, CallsFacts
<1> DEFINE r == [calls[i] EXCEPT !.seen = s]
<1>2. r \in Call /\ r.seen = s /\ r.op = calls[i].op
    BY Zenon, <1>1, CallUpdates
<1>3. calls' = [calls EXCEPT ![i] = r]
    BY Zenon
<1> HIDE DEF r
<1>4. KnownCall(r, failed)
    BY <1>2 DEF KnownCall, OpenCall, SettledCall
<1>5. calls' \in [1 .. Len(calls) -> Call]
    BY Zenon, <1>1, <1>2, <1>3
<1>6. \A k \in 1 .. Len(calls) : KnownCall(calls'[k], failed)
    <2>1. \A k \in 1 .. Len(calls) : calls'[k] = IF k = i THEN r ELSE calls[k]
        BY Zenon, <1>1, <1>3
    <2> QED BY Zenon, <1>4, <2>1 DEF SessionInv, Calls
<1> QED BY Zenon, <1>5, <1>6, SessionGoesOn

\* A microtask, or a drain, of the queue.
LEMMA WritesKeep ==
    ASSUME SessionInv, RunWrite \/ Drain
    PROVE  SessionInv'
<1>1. calls \in [1 .. Len(calls) -> Call] /\ Calls = 1 .. Len(calls)
    BY Zenon, CallsFacts
<1>2. UNCHANGED outcome
    BY Zenon DEF RunWrite, Drain
<1>3. (\E done : calls' = Ended(done, "done"))
      \/ \E i : calls' = [calls EXCEPT ![i].write = "draining"]
    BY Zenon DEF RunWrite, Drain
<1>4. ASSUME NEW done, calls' = Ended(done, "done") PROVE SessionInv'
    <2>1. "done" \in {"done", "failed"}
        OBVIOUS
    <2> QED BY Zenon, <1>2, <1>4, <2>1, EndedFacts, QuietKeeps
<1>5. ASSUME NEW i, calls' = [calls EXCEPT ![i].write = "draining"] PROVE SessionInv'
    <2>1. \A k \in 1 .. Len(calls) :
            calls'[k] = IF k = i THEN [calls[k] EXCEPT !.write = "draining"] ELSE calls[k]
        BY Zenon, <1>1, <1>5
    <2>2. \A k \in 1 .. Len(calls) :
            /\ calls'[k] \in Call
            /\ calls'[k].seen = calls[k].seen /\ calls'[k].op = calls[k].op
        <3> TAKE k \in 1 .. Len(calls)
        <3>1. calls[k] \in Call /\ "draining" \in {"waiting", "ready", "draining", "done", "failed"}
            BY <1>1
        <3>2. /\ [calls[k] EXCEPT !.write = "draining"] \in Call
              /\ [calls[k] EXCEPT !.write = "draining"].seen = calls[k].seen
              /\ [calls[k] EXCEPT !.write = "draining"].op = calls[k].op
            BY Zenon, <3>1, CallUpdates
        <3> QED BY Zenon, <2>1, <3>1, <3>2
    <2>3. DOMAIN calls' = 1 .. Len(calls) /\ calls' = [k \in DOMAIN calls' |-> calls'[k]]
        BY Zenon, <1>1, <1>5
    <2>4. calls' \in [1 .. Len(calls) -> Call]
        BY Zenon, <2>2, <2>3
    <2> QED BY Zenon, <1>2, <2>2, <2>4, QuietKeeps
<1> QED BY Zenon, <1>3, <1>4, <1>5

\* The pipe breaks: the controls it takes down take the session with them.
LEMMA PipeErrorKeeps ==
    ASSUME SessionInv, PipeError
    PROVE  SessionInv'
<1> DEFINE ended == Ended(Draining, "failed")
           told == [i \in Calls |->
                       IF i \in Draining /\ ended[i].seen = "pending"
                       THEN [ended[i] EXCEPT !.seen = "rejected"] ELSE ended[i]]
           fatal == \E i \in Draining : calls[i].op = "emit"
                                           \/ (calls[i].op = "control" /\ Pending(i))
<1>1. IF fatal THEN markFailed(told) ELSE calls' = told /\ UNCHANGED outcome
    BY Zenon DEF PipeError
<1>2. Len(calls) \in Nat /\ Calls = 1 .. Len(calls)
    BY Zenon, CallsFacts
<1>3. /\ ended \in [1 .. Len(calls) -> Call]
      /\ \A i \in 1 .. Len(calls) : ended[i].seen = calls[i].seen /\ ended[i].op = calls[i].op
    <2>1. "failed" \in {"done", "failed"}
        OBVIOUS
    <2> QED BY Zenon, <2>1, EndedFacts
<1> HIDE DEF ended
<1>4. \A i \in 1 .. Len(calls) :
        /\ told[i] \in Call /\ told[i].op = calls[i].op
        /\ \/ told[i].seen = calls[i].seen
           \/ i \in Draining /\ calls[i].seen = "pending" /\ told[i].seen = "rejected"
    <2> TAKE i \in 1 .. Len(calls)
    <2>1. told[i] = IF i \in Draining /\ ended[i].seen = "pending"
                    THEN [ended[i] EXCEPT !.seen = "rejected"] ELSE ended[i]
        BY Zenon, <1>2
    <2>2. ended[i] \in Call
          /\ "rejected" \in {"none", "pending", "exiting", "resolved", "rejected"}
        BY <1>3
    <2>3. /\ [ended[i] EXCEPT !.seen = "rejected"] \in Call
          /\ [ended[i] EXCEPT !.seen = "rejected"].seen = "rejected"
          /\ [ended[i] EXCEPT !.seen = "rejected"].op = ended[i].op
        BY Zenon, <2>2, CallUpdates
    <2> HIDE DEF told
    <2> QED BY Zenon, <1>3, <2>1, <2>2, <2>3
<1>5. told \in [1 .. Len(calls) -> Call]
    <2>1. DOMAIN told = 1 .. Len(calls) /\ told = [i \in DOMAIN told |-> told[i]]
        BY Zenon, <1>2
    <2> HIDE DEF told
    <2> QED BY Zenon, <1>4, <2>1
<1> HIDE DEF told
<1>6. \A i \in 1 .. Len(calls) : KnownCall(calls[i], failed)
    BY Zenon, <1>2 DEF SessionInv
<1>7. \A i \in 1 .. Len(calls) : OpenCall(told[i]) /\ (failed => SettledCall(told[i]))
    BY <1>4, <1>6 DEF KnownCall, OpenCall, SettledCall
<1>8. CASE fatal
    BY Zenon, <1>1, <1>2, <1>5, <1>7, <1>8, FailureSettles
<1>9. CASE ~fatal
    <2>1. \A i \in 1 .. Len(calls) :
            told[i].op = "control" => told[i].seen = calls[i].seen
        BY Zenon, <1>4, <1>9 DEF Pending
    <2>2. \A i \in 1 .. Len(calls) : KnownCall(told[i], failed)
        BY Zenon, <1>4, <1>6, <1>7, <2>1 DEF KnownCall
    <2> QED BY Zenon, <1>1, <1>5, <1>9, <2>2, SessionGoesOn
<1> QED BY Zenon, <1>8, <1>9

\* A flush, or a close, goes on; a close returns.
LEMMA ResumeKeeps ==
    ASSUME SessionInv, NEW i \in Calls, Resume(i) \/ CloseReturns(i)
    PROVE  SessionInv'
<1>1. UNCHANGED outcome
    BY Zenon DEF Resume, CloseReturns
<1>2. CASE Resume(i)
    <2>1. PICK s \in {"rejected", "exiting", "resolved"} :
            calls' = [calls EXCEPT ![i].seen = s] /\ (s = "exiting" => calls[i].op = "close")
        <3> DEFINE s == IF calls[i].answer = "error" THEN "rejected"
                        ELSE IF calls[i].op = "close" THEN "exiting" ELSE "resolved"
        <3>1. calls' = [calls EXCEPT ![i].seen = s]
            BY Zenon, <1>2 DEF Resume
        <3>2. s \in {"rejected", "exiting", "resolved"} /\ (s = "exiting" => calls[i].op = "close")
            OBVIOUS
        <3> QED BY Zenon, <3>1, <3>2
    <2>2. calls[i].op # "control" /\ s \in {"none", "pending", "exiting", "resolved", "rejected"}
        BY <1>2 DEF Resume
    <2> QED BY Zenon, <1>1, <2>1, <2>2, AnsweredKeeps
<1>3. CASE CloseReturns(i)
    <2>1. PICK s \in {"rejected", "resolved"} : calls' = [calls EXCEPT ![i].seen = s]
        BY Zenon, <1>3 DEF CloseReturns
    <2>2. calls[i].op = "close"
        BY Zenon, <1>3 DEF CloseReturns, SessionInv, KnownCall, OpenCall
    <2>3. /\ s \in {"none", "pending", "exiting", "resolved", "rejected"}
          /\ s # "exiting" /\ calls[i].op # "control"
        BY <2>1, <2>2
    <2> QED BY Zenon, <1>1, <2>1, <2>3, AnsweredKeeps
<1> QED BY Zenon, <1>2, <1>3

\* A deadline passes: the session ends with the call.
LEMMA TimeOutKeeps ==
    ASSUME SessionInv, NEW i \in Calls, TimeOut(i)
    PROVE  SessionInv'
<1> DEFINE cs == [calls EXCEPT ![i].seen = "rejected"]
<1>1. markFailed(cs)
    BY Zenon DEF TimeOut, Expire
<1>2. /\ Len(calls) \in Nat /\ Calls = 1 .. Len(calls)
      /\ calls \in [1 .. Len(calls) -> Call]
    BY Zenon, CallsFacts
<1> DEFINE r == [calls[i] EXCEPT !.seen = "rejected"]
<1>3. r \in Call /\ r.seen = "rejected" /\ r.op = calls[i].op
    <2>1. calls[i] \in Call /\ "rejected" \in {"none", "pending", "exiting", "resolved", "rejected"}
        BY <1>2
    <2> QED BY Zenon, <2>1, CallUpdates
<1>4. cs = [calls EXCEPT ![i] = r]
    BY Zenon
<1> HIDE DEF r, cs
<1>5. cs \in [1 .. Len(calls) -> Call]
      /\ \A k \in 1 .. Len(calls) : cs[k] = IF k = i THEN r ELSE calls[k]
    BY Zenon, <1>2, <1>3, <1>4
<1>6. OpenCall(r) /\ SettledCall(r)
    BY <1>3 DEF OpenCall, SettledCall
<1>7. \A k \in 1 .. Len(calls) : OpenCall(cs[k]) /\ (failed => SettledCall(cs[k]))
    BY Zenon, <1>2, <1>5, <1>6 DEF SessionInv, KnownCall
<1> QED BY Zenon, <1>1, <1>2, <1>5, <1>7, FailureSettles

\* The session fails with its calls as they are.
LEMMA FailureKeeps ==
    ASSUME SessionInv, markFailed(calls)
    PROVE  SessionInv'
<1>1. /\ Len(calls) \in Nat /\ Calls = 1 .. Len(calls)
      /\ calls \in [1 .. Len(calls) -> Call]
    BY Zenon, CallsFacts
<1>2. \A k \in 1 .. Len(calls) : OpenCall(calls[k]) /\ (failed => SettledCall(calls[k]))
    BY Zenon, <1>1 DEF SessionInv, KnownCall
<1> QED BY Zenon, <1>1, <1>2, FailureSettles

\* An answer of the child is read, or its end observed.
LEMMA AnswersKeep ==
    ASSUME SessionInv, OnStderrData \/ ObserveExit
    PROVE  SessionInv'
<1>1. /\ calls \in [1 .. Len(calls) -> Call] /\ Calls = 1 .. Len(calls)
      /\ DOMAIN calls = Calls
    BY Zenon, CallsFacts
<1>2. CASE markFailed(calls)
    BY Zenon, <1>2, FailureKeeps
<1>3. CASE calls' = calls /\ failed' = failed /\ reports' = reports
    BY Zenon, <1>3 DEF SessionInv, Calls
<1>4. ASSUME NEW i, calls' = [calls EXCEPT ![i].seen = "resolved"], UNCHANGED outcome
      PROVE  SessionInv'
    <2>1. CASE i \in Calls
        <3>1. "resolved" \in {"none", "pending", "exiting", "resolved", "rejected"}
              /\ "resolved" # "exiting"
            OBVIOUS
        <3> QED BY Zenon, <1>4, <2>1, <3>1, AnsweredKeeps
    <2>2. CASE i \notin Calls
        <3>1. calls' = calls
            BY Zenon, <1>1, <1>4, <2>2
        <3> QED BY Zenon, <1>1, <1>4, <3>1, QuietKeeps
    <2> QED BY Zenon, <2>1, <2>2
<1>5. ASSUME NEW i, calls' = [calls EXCEPT ![i].answer = "ok"], UNCHANGED outcome
      PROVE  SessionInv'
    <2>1. \A k \in 1 .. Len(calls) :
            calls'[k] = IF k = i THEN [calls[k] EXCEPT !.answer = "ok"] ELSE calls[k]
        BY Zenon, <1>1, <1>5
    <2>2. \A k \in 1 .. Len(calls) :
            /\ calls'[k] \in Call
            /\ calls'[k].seen = calls[k].seen /\ calls'[k].op = calls[k].op
        <3> TAKE k \in 1 .. Len(calls)
        <3>1. calls[k] \in Call /\ "ok" \in {"none", "ok", "error"}
            BY <1>1
        <3>2. /\ [calls[k] EXCEPT !.answer = "ok"] \in Call
              /\ [calls[k] EXCEPT !.answer = "ok"].seen = calls[k].seen
              /\ [calls[k] EXCEPT !.answer = "ok"].op = calls[k].op
            BY Zenon, <3>1, CallUpdates
        <3> QED BY Zenon, <2>1, <3>1, <3>2
    <2>3. DOMAIN calls' = 1 .. Len(calls) /\ calls' = [k \in DOMAIN calls' |-> calls'[k]]
        BY Zenon, <1>1, <1>5
    <2>4. calls' \in [1 .. Len(calls) -> Call]
        BY Zenon, <2>2, <2>3
    <2> QED BY Zenon, <1>5, <2>2, <2>4, QuietKeeps
<1>6. \/ markFailed(calls)
      \/ calls' = calls /\ failed' = failed /\ reports' = reports
      \/ \E i : calls' = [calls EXCEPT ![i].seen = "resolved"] /\ UNCHANGED outcome
      \/ \E i : calls' = [calls EXCEPT ![i].answer = "ok"] /\ UNCHANGED outcome
    BY Zenon DEF OnStderrData, ObserveExit, OnAnswer, outcome
<1> QED BY Zenon, <1>2, <1>3, <1>4, <1>5, <1>6

\* The invariant of the session is inductive.
LEMMA SessionStep == SessionInv /\ [ClientNext]_clientVars => SessionInv'
<1> SUFFICES ASSUME SessionInv, [ClientNext]_clientVars PROVE SessionInv'
    OBVIOUS
<1>1. CASE emit \/ requestActivityControl \/ flush \/ close
    <2>1. ~failed /\ UNCHANGED outcome
        BY Zenon, <1>1 DEF emit, requestActivityControl, flush, close
    <2>2. Enqueue("emit") \/ Enqueue("control") \/ Enqueue("flush") \/ Enqueue("close")
        BY Zenon, <1>1 DEF emit, requestActivityControl, flush, close
    <2>3. PICK op \in {"emit", "control", "flush", "close"} : Enqueue(op)
        BY Zenon, <2>2
    <2> QED BY Zenon, <2>1, <2>3, EnqueueKeeps
<1>2. CASE (\E ack \in BOOLEAN : Handshake(ack)) \/ ChildCrashes
           \/ (\E accepts \in BOOLEAN : ChildReads(accepts)) \/ UNCHANGED clientVars
    <2>1. calls' = calls /\ failed' = failed /\ reports' = reports
        BY Zenon, <1>2 DEF Handshake, ChildCrashes, ChildReads, outcome, clientVars
    <2> QED BY Zenon, <2>1 DEF SessionInv, Calls
<1>3. CASE RunWrite \/ Drain
    BY Zenon, <1>3, WritesKeep
<1>4. CASE PipeError
    BY Zenon, <1>4, PipeErrorKeeps
<1>5. CASE \E i \in Calls : Resume(i) \/ CloseReturns(i)
    BY Zenon, <1>5, ResumeKeeps
<1>6. CASE \E i \in Calls : TimeOut(i)
    BY Zenon, <1>6, TimeOutKeeps
<1>7. CASE OnStderrData \/ ObserveExit
    BY Zenon, <1>7, AnswersKeep
<1> QED BY Zenon, <1>1, <1>2, <1>3, <1>4, <1>5, <1>6, <1>7 DEF ClientNext

\* LostAnswerEndsSession for any sequence of calls, any watermark and any pipe:
\* requestActivityControl fails closed, and markFailed reports once.
THEOREM LostAnswersEndSessions == ClientSpec => []LostAnswerEndsSession
<1>1. ClientInit => SessionInv
    <2> SUFFICES ASSUME ClientInit PROVE SessionInv
        OBVIOUS
    <2>1. calls = <<>> /\ failed = FALSE /\ reports = 0
        BY Zenon DEF ClientInit
    <2>2. calls \in Seq(Call) /\ Len(calls) = 0
        BY <2>1
    <2>3. Calls = {}
        BY <2>2 DEF Calls
    <2>4. failed \in BOOLEAN /\ reports = IF failed THEN 1 ELSE 0
        BY Zenon, <2>1
    <2> QED BY Zenon, <2>2, <2>3, <2>4 DEF SessionInv
<1>2. SessionInv => LostAnswerEndsSession
    BY Zenon DEF SessionInv, LostAnswerEndsSession, KnownCall, SettledCall
<1> QED BY <1>1, <1>2, SessionStep, PTL DEF ClientSpec
=============================================================================
