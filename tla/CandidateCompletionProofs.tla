---------------------- MODULE CandidateCompletionProofs ----------------------
(***************************************************************************)
(* CompletionIsProved for any number of callers, appends and slips.        *)
(*                                                                         *)
(* The property is not inductive: a seal moves over what others appended   *)
(* since an earlier proof left.  Three facts close the gap.  The tape only *)
(* grows, and no append adds a dispatch or a request of an earlier attempt *)
(* (Grows).  Every dispatch but the last belongs to an attempt a terminal  *)
(* ended (AttemptInv), and LifecycleOpen rejects those.  So every proof    *)
(* that left is about the last attempt (ProvedInv), where LifecycleOpen    *)
(* admits one candidate, and CompletionProjected one completion of it.     *)
(***************************************************************************)
EXTENDS CandidateCompletion, FiniteSetTheorems, SequenceTheorems,
        WellFoundedInduction, TLAPS

-----------------------------------------------------------------------------
(* Sets of places on the tape *)

\* A sequence, of whatever it holds.
IsTape(t) == t \in Seq({t[i] : i \in DOMAIN t})

\* A set of places has a greatest one: the Max of the leases of a claim, and
\* of the dispatches, is a member above all others.
LEMMA MaxOfPlaces ==
    ASSUME NEW n \in Nat, NEW S \in SUBSET (1 .. n), S # {}
    PROVE  Max(S) \in S /\ \A y \in S : y <= Max(S)
<1> DEFINE T == {n - x : x \in S}
           R == OpToRel(<, Nat)
<1>0. \A x \in S : x \in Nat /\ n - x \in Nat
    OBVIOUS
<1>1. T \subseteq Nat /\ T # {}
    BY <1>0, Zenon
<1>2. PICK t \in T : \A y \in T : <<y, t>> \notin R
    BY <1>1, NatLessThanWellFounded, WFMin, Zenon
<1>3. \A y \in T : ~(y < t)
    BY <1>1, <1>2, Zenon DEF OpToRel
<1>4. PICK x \in S : t = n - x
    OBVIOUS
<1>5. \A y \in S : x >= y
    BY <1>3, <1>4
<1> QED BY <1>5, Zenon DEF Max

\* unique_verified_kernel_event_matching: where exactly one event matches, The
\* is that event.
LEMMA OnePlace ==
    ASSUME NEW n \in Nat, NEW S \in SUBSET (1 .. n), One(S)
    PROVE  The(S) \in S /\ S = {The(S)}
<1>1. IsFiniteSet(S)
    <2>1. S \in SUBSET Nat /\ \A s \in S : s <= n
        OBVIOUS
    <2> QED BY <2>1, FS_BoundedSetOfNaturals
<1>2. PICK x : S = {x}
    BY <1>1, FS_Singleton DEF One
<1> QED BY <1>2 DEF The

\* An append keeps every earlier event and puts the new one last.
LEMMA AppendTape ==
    ASSUME NEW t, IsTape(t), NEW e
    PROVE  /\ IsTape(Append(t, e)) /\ Len(t) \in Nat
           /\ DOMAIN t = 1 .. Len(t)
           /\ DOMAIN Append(t, e) = 1 .. Len(t) + 1
           /\ Len(Append(t, e)) = Len(t) + 1
           /\ \A i \in 1 .. Len(t) : Append(t, e)[i] = t[i]
           /\ Append(t, e)[Len(t) + 1] = e
<1> DEFINE S == {t[i] : i \in DOMAIN t} \cup {e}
           u == Append(t, e)
<1>1. t \in Seq(S)
    BY SeqMonotonic DEF IsTape
<1>2. /\ u \in Seq(S) /\ Len(t) \in Nat /\ DOMAIN t = 1 .. Len(t)
      /\ DOMAIN u = 1 .. Len(t) + 1 /\ Len(u) = Len(t) + 1
      /\ \A i \in 1 .. Len(t) : u[i] = t[i]
      /\ u[Len(t) + 1] = e
    BY <1>1, AppendProperties, LenProperties
<1>3. S \subseteq {u[i] : i \in DOMAIN u}
    BY <1>2
<1> HIDE DEF u, S
<1>4. u \in Seq({u[i] : i \in DOMAIN u})
    BY <1>2, <1>3, SeqMonotonic
<1> QED BY <1>2, <1>4 DEF IsTape, u

-----------------------------------------------------------------------------
(* The inductive invariant *)

\* What a caller is doing.
Calls ==
    {[at |-> "idle"]}
    \cup [at : {"sealing", "proved"}, dispatch : Nat, candidate : Nat,
          event : Nat]

\* What the state is made of; a call names a dispatch and a candidate.
ShapeInv ==
    /\ IsTape(tape) /\ sealed \in 0 .. Len(tape)
    /\ \A w \in rows : w.event \in Nat
    /\ call \in [Callers -> Calls]
    /\ \A k \in Callers : call[k].at # "idle" =>
          /\ call[k].dispatch \in Kind("dispatch")
          /\ call[k].candidate \in Kind("candidate")

\* The last dispatch is the only one whose workflow nothing has ended.
AttemptInv ==
    /\ Kind("dispatch") # {}
    /\ \A i \in Kind("request") \cup Kind("dispatch") : tape[i].att \in Nat \ {0}
    /\ \A d \in Kind("dispatch") : Att(d) # Att(Current) =>
          \E t \in Kind("terminal") : tape[t].att = Att(d)

\* CompletionIsProved for one candidate, completion and attempt.
Grounded(c, e, att) ==
    /\ Within(Children("completion", c)) = {e}
    /\ \A i \in 1 .. sealed :
          /\ tape[i].kind \in {"cancellation", "terminal"} => tape[i].att # att
          /\ tape[i].kind = "request" /\ tape[i].att = att
                => /\ Succeeded(i)
                   /\ \A j \in ActionsOf(att - 1) : tape[j].key # tape[i].key

\* A proof that left is about the last attempt and lies under the seal.
ProvedInv ==
    \A k \in Callers : Proved(k) =>
        /\ call[k].candidate <= sealed
        /\ tape[call[k].candidate].att = Att(call[k].dispatch)
        /\ Att(call[k].dispatch) = Att(Current)

\* The inductive invariant.
IInv == ShapeInv /\ AttemptInv /\ ProvedInv /\ CompletionIsProved

-----------------------------------------------------------------------------
(* The tape grows at its end, and only for the last attempt *)

\* Neither a dispatch nor a request of another attempt.
Ordinary(e) ==
    e.kind # "dispatch" /\ (e.kind = "request" => e.att = Att(Current))

\* A step that only appends, and only ordinary events.
Grows ==
    /\ IsTape(tape)' /\ Len(tape) <= Len(tape')
    /\ \A i \in 1 .. Len(tape) : tape'[i] = tape[i]
    /\ \A i \in 1 .. Len(tape') : i > Len(tape) => Ordinary(tape'[i])

\* The places of a tape are 1 to its length.
LEMMA TapeDomain ==
    ASSUME NEW t, IsTape(t)
    PROVE  Len(t) \in Nat /\ DOMAIN t = 1 .. Len(t)
BY LenProperties DEF IsTape

\* Appending an ordinary event grows the tape.
LEMMA ExtendsGrows ==
    ASSUME IsTape(tape), NEW e, Ordinary(e), Extends(e)
    PROVE  Grows
BY AppendTape DEF Extends, Grows

\* A step that leaves the tape alone grows it, by nothing.
LEMMA SameTapeGrows ==
    ASSUME IsTape(tape), tape' = tape
    PROVE  Grows
BY TapeDomain DEF Grows, IsTape

\* While the tape grows no dispatch is added, every event keeps its kind, and
\* a new request is one of the last attempt.
LEMMA KindGrows ==
    ASSUME IsTape(tape), Grows
    PROVE  /\ Kind("dispatch")' = Kind("dispatch")
           /\ \A k : Kind(k) \subseteq Kind(k)'
           /\ \A k : \A i \in Kind(k)' : i <= Len(tape) => i \in Kind(k)
           /\ \A i \in Kind("request")' :
                 i \in Kind("request") \/ tape'[i].att = Att(Current)
<1>1. /\ Len(tape) \in Nat /\ DOMAIN tape = 1 .. Len(tape)
      /\ Len(tape') \in Nat /\ DOMAIN tape' = 1 .. Len(tape')
    BY TapeDomain DEF Grows
<1> QED BY <1>1 DEF Grows, Kind, Ordinary

\* While the tape grows the last dispatch stays the last and the only one whose
\* workflow may be open.
LEMMA AttemptStays ==
    ASSUME IsTape(tape), AttemptInv, Grows
    PROVE  /\ AttemptInv' /\ Current' = Current
           /\ Current \in Kind("dispatch")
           /\ \A d \in Kind("dispatch") : Att(d)' = Att(d)
<1>1. /\ Len(tape) \in Nat /\ DOMAIN tape = 1 .. Len(tape)
    BY TapeDomain
<1>2. Current' = Current
    BY KindGrows DEF Current
<1>3. Current \in Kind("dispatch")
    BY <1>1, MaxOfPlaces, Zenon DEF Current, Kind, AttemptInv
<1>4. \A d \in Kind("dispatch") : Att(d)' = Att(d)
    BY <1>1 DEF Grows, Att, Kind
<1>5. \A i \in Kind("request")' \cup Kind("dispatch")' : tape'[i].att \in Nat \ {0}
    BY <1>1, <1>3, KindGrows DEF Grows, Att, Kind, AttemptInv
<1>6. \A d \in Kind("dispatch")' : Att(d)' # Att(Current)' =>
          \E t \in Kind("terminal")' : tape'[t].att = Att(d)'
    BY <1>1, <1>2, <1>3, <1>4, KindGrows DEF Grows, Kind, AttemptInv
<1> QED BY <1>2, <1>3, <1>4, <1>5, <1>6, KindGrows DEF AttemptInv

\* Under an unmoved seal a longer tape shows the same.
LEMMA SealedStays ==
    ASSUME IsTape(tape), sealed \in 0 .. Len(tape), Grows, sealed' = sealed
    PROVE  /\ \A k, p : Within(Children(k, p))' = Within(Children(k, p))
           /\ \A i \in 1 .. sealed : tape'[i] = tape[i]
           /\ \A r : Succeeded(r) => Succeeded(r)'
<1>1. /\ Len(tape) \in Nat /\ DOMAIN tape = 1 .. Len(tape)
    BY TapeDomain
<1>2. \A i \in 1 .. sealed : i \in 1 .. Len(tape) /\ tape'[i] = tape[i]
    BY <1>1 DEF Grows
<1>3. \A k, p : Within(Children(k, p))' = Within(Children(k, p))
    BY <1>1, <1>2, KindGrows DEF Within, Children, Kind
<1>4. \A p : Children("heartbeat", p) \subseteq Children("heartbeat", p)'
    BY <1>1, KindGrows DEF Children, Kind, Grows
<1>5. ASSUME NEW r, Succeeded(r)
      PROVE  Succeeded(r)'
    <2>1. PICK c \in Within(Children("claim", r)) :
             \E i \in Within(Children("result", c)) :
                /\ Within(Children("result", c)) = {i}
                /\ tape[i].out = "succeeded"
                /\ \E l \in {c} \cup Children("heartbeat", c) :
                      l < i /\ tape[i].at < tape[l].until
                /\ \E e \in Within(Children("receipt", i)) :
                      tape[e].out = "succeeded"
        BY <1>5 DEF Succeeded
    <2>2. PICK i \in Within(Children("result", c)) :
                /\ Within(Children("result", c)) = {i}
                /\ tape[i].out = "succeeded"
                /\ \E l \in {c} \cup Children("heartbeat", c) :
                      l < i /\ tape[i].at < tape[l].until
                /\ \E e \in Within(Children("receipt", i)) :
                      tape[e].out = "succeeded"
        BY <2>1
    <2>3. PICK l \in {c} \cup Children("heartbeat", c) :
                l < i /\ tape[i].at < tape[l].until
        BY <2>2
    <2>4. PICK e \in Within(Children("receipt", i)) : tape[e].out = "succeeded"
        BY <2>2
    <2>5. i \in 1 .. sealed /\ c \in 1 .. sealed /\ e \in 1 .. sealed
        BY <2>1, <2>2, <2>4 DEF Within
    <2>6. l \in 1 .. Len(tape) /\ tape'[l] = tape[l]
        BY <1>1, <1>2, <2>3, <2>5 DEF Children, Kind, Grows
    <2>7. l \in {c} \cup Children("heartbeat", c)'
        BY <1>4, <2>3
    <2>8. /\ tape'[i].out = "succeeded" /\ tape'[i].at < tape'[l].until
          /\ tape'[e].out = "succeeded"
        BY <1>2, <2>2, <2>3, <2>4, <2>5, <2>6
    <2>9. /\ c \in Within(Children("claim", r))'
          /\ i \in Within(Children("result", c))'
          /\ Within(Children("result", c))' = {i}
          /\ e \in Within(Children("receipt", i))'
        BY <1>3, <2>1, <2>2, <2>4
    <2> QED BY <2>3, <2>7, <2>8, <2>9 DEF Succeeded
<1> QED BY <1>2, <1>3, <1>5

\* What a sealed tape shows of the completion of the last attempt it shows
\* after any append: later requests belong to that attempt, never to the one
\* before it.
LEMMA GroundedStays ==
    ASSUME IsTape(tape), sealed \in 0 .. Len(tape), Grows, sealed' = sealed,
           NEW c, NEW e, NEW att, att \in Nat, att = Att(Current),
           Grounded(c, e, att)
    PROVE  Grounded(c, e, att)'
<1>1. Len(tape) \in Nat /\ DOMAIN tape = 1 .. Len(tape)
    BY TapeDomain
<1>2. /\ Within(Children("completion", c))' = Within(Children("completion", c))
      /\ \A i \in 1 .. sealed : tape'[i] = tape[i]
      /\ \A r : Succeeded(r) => Succeeded(r)'
    BY SealedStays
<1>3. /\ ActionsOf(att - 1)' \subseteq ActionsOf(att - 1)
      /\ \A j \in ActionsOf(att - 1) : tape'[j] = tape[j]
    BY <1>1, KindGrows DEF ActionsOf, Kind, Grows
<1>4. Within(Children("completion", c))' = {e}
    BY <1>2 DEF Grounded
<1>5. ASSUME NEW i \in 1 .. sealed
      PROVE  /\ tape'[i].kind \in {"cancellation", "terminal"} => tape'[i].att # att
             /\ tape'[i].kind = "request" /\ tape'[i].att = att
                  => /\ Succeeded(i)'
                     /\ \A j \in ActionsOf(att - 1)' : tape'[j].key # tape'[i].key
    BY <1>2, <1>3 DEF Grounded
<1> QED BY <1>4, <1>5 DEF Grounded

\* What CompletionIsProved says of every proof that left.
AllGrounded ==
    \A k \in Callers : Proved(k) =>
        /\ Grounded(call[k].candidate, call[k].event, Att(call[k].dispatch))
        /\ \A l \in Callers : Proved(l) => call[l].event = call[k].event

\* CompletionIsProved, said with Grounded.
LEMMA ProvedIsGrounded ==
    /\ CompletionIsProved <=> AllGrounded
    /\ CompletionIsProved' <=> AllGrounded'
BY DEF CompletionIsProved, Grounded, AllGrounded

\* No proof leaves in the step: every caller that holds one held it before.
LEMMA ProofsStay ==
    ASSUME IInv, Grows, sealed' = sealed,
           \A k \in Callers : Proved(k)' => Proved(k) /\ call'[k] = call[k]
    PROVE  ProvedInv' /\ CompletionIsProved'
<1>1. /\ IsTape(tape) /\ sealed \in 0 .. Len(tape) /\ AttemptInv
      /\ Len(tape) \in Nat /\ DOMAIN tape = 1 .. Len(tape)
    BY TapeDomain DEF IInv, ShapeInv
<1>2. \A i \in 1 .. sealed : tape'[i] = tape[i]
    BY <1>1, SealedStays
<1>3. /\ Current' = Current /\ Current \in Kind("dispatch")
      /\ \A d \in Kind("dispatch") : tape'[d] = tape[d]
    <2>1. Current' = Current /\ Current \in Kind("dispatch")
        BY <1>1, AttemptStays
    <2> QED BY <1>1, <2>1 DEF Grows, Kind
<1>4. ASSUME NEW k \in Callers, Proved(k)'
      PROVE  /\ Proved(k) /\ call'[k] = call[k]
             /\ call[k].dispatch \in Kind("dispatch")
             /\ call[k].candidate \in 1 .. sealed
             /\ tape[call[k].candidate].att = Att(call[k].dispatch)
             /\ Att(call[k].dispatch) = Att(Current)
             /\ Att(Current) \in Nat
    BY <1>1, <1>3, <1>4 DEF IInv, ShapeInv, ProvedInv, AttemptInv, Proved, Kind, Att
<1>5. ProvedInv'
    BY <1>2, <1>3, <1>4 DEF ProvedInv, Att
<1>6. ASSUME NEW k \in Callers, Proved(k)'
      PROVE  Grounded(call[k].candidate, call[k].event, Att(call[k].dispatch))'
    <2> DEFINE c == call[k].candidate
               e == call[k].event
               att == Att(call[k].dispatch)
    <2>1. Grounded(c, e, att)
        BY <1>4, <1>6, ProvedIsGrounded DEF IInv, AllGrounded
    <2>2. att = Att(Current) /\ att \in Nat
        BY <1>4, <1>6
    <2>3. c' = c /\ e' = e /\ att' = att
        BY <1>3, <1>4, <1>6 DEF Att
    <2> HIDE DEF c, e, att
    <2>4. \A x, y, z : z \in Nat /\ z = Att(Current) /\ Grounded(x, y, z)
                          => Grounded(x, y, z)'
        BY <1>1, GroundedStays
    <2>5. PICK x, y, z : x = c /\ y = e /\ z = att
        OBVIOUS
    <2>6. Grounded(x, y, z)'
        BY <2>1, <2>2, <2>4, <2>5
    <2>7. Grounded(c, e, att)'
        BY <2>3, <2>5, <2>6 DEF Grounded
    <2> QED BY <2>7 DEF c, e, att
<1>7. \A k, l \in Callers :
          Proved(k)' /\ Proved(l)' => call'[l].event = call'[k].event
    BY <1>4, ProvedIsGrounded DEF IInv, AllGrounded
<1>8. CompletionIsProved'
    BY <1>6, <1>7, ProvedIsGrounded DEF AllGrounded
<1> QED BY <1>5, <1>8
-----------------------------------------------------------------------------
(* Evidence proves *)

\* What evidence on the whole tape says of the attempt d starts.
LEMMA EvidenceAttempt ==
    ASSUME ShapeInv, AttemptInv,
           NEW d \in Kind("dispatch"), NEW c \in Kind("candidate"),
           NEW e, CompletionEvidence(d, c, {e})
    PROVE  /\ Att(d) = Att(Current) /\ Att(d) \in Nat \ {0}
           /\ tape[c].att = Att(d)
           /\ \A i \in DOMAIN tape :
                 tape[i].kind \in {"cancellation", "terminal"}
                    => tape[i].att # Att(d)
           /\ \A i \in Kind("candidate") : tape[i].att = Att(d) => i = c
<1>1. \A i \in DOMAIN tape :
          /\ tape[i].kind \in {"cancellation", "terminal"} => tape[i].att # Att(d)
          /\ tape[i].kind = "candidate" /\ tape[i].att = Att(d) => i = c
    <2>1. tape[c].kind = "candidate" /\ tape[tape[c].parent].kind = "receipt_set"
        BY DEF CompletionEvidence, FollowsReceiptSet, Kind
    <2> QED BY <2>1 DEF CompletionEvidence, LifecycleOpen
<1>2. Att(d) = Att(Current)
    BY <1>1 DEF AttemptInv, Kind
<1>3. Att(d) \in Nat \ {0}
    BY DEF AttemptInv, Att
<1>4. tape[c].att = Att(d)
    BY DEF CompletionEvidence, CandidateBinds
<1> QED BY <1>1, <1>2, <1>3, <1>4 DEF Kind

\* A closed action succeeded under a live lease, once all of the tape is
\* sealed.
LEMMA ClosedSucceeded ==
    ASSUME IsTape(tape), NEW r, NEW s, ActionClosed(r, s), sealed' = Len(tape),
           tape' = tape
    PROVE  Succeeded(r)'
<1> DEFINE H(c) == {c} \cup Children("heartbeat", c)
<1>1. Len(tape) \in Nat /\ DOMAIN tape = 1 .. Len(tape)
    BY TapeDomain
<1>2. \A k, p : Children(k, p) \in SUBSET (1 .. Len(tape))
    BY <1>1 DEF Children, Kind
<1>3. \A k, p : Within(Children(k, p))' = Children(k, p)
    BY <1>2 DEF Within, Children, Kind
<1>4. PICK c : c = ClaimOf(r) /\ c \in Children("claim", r)
    BY <1>1, <1>2, OnePlace, Zenon DEF ActionClosed, ClaimBinds, ClaimOf
<1>5. PICK i : /\ i = ResultOf(r) /\ i \in 1 .. Len(tape)
               /\ Children("result", c) = {i}
    <2>1. One(Children("result", c))
        BY <1>4 DEF ActionClosed, ResultInLease
    <2>2. ResultOf(r) = The(Children("result", c))
        BY <1>4 DEF ResultOf
    <2> QED BY <1>1, <1>2, <2>1, <2>2, OnePlace, Zenon
<1>6. /\ tape[i].out = "succeeded" /\ c < i /\ tape[i].at < EffectiveExpiry(c)
      /\ LeaseForward(c, i)
    BY <1>4, <1>5 DEF ActionClosed, ResultInLease
<1>7. PICK e : e \in Children("receipt", i) /\ tape[e].out = "succeeded"
    BY <1>5 DEF ActionClosed, Children
<1>8. PICK l \in H(c) : l = Max(H(c))
    <2>1. H(c) \in SUBSET (1 .. Len(tape)) /\ H(c) # {}
        BY <1>2, <1>4
    <2> QED BY <1>1, <2>1, MaxOfPlaces, Zenon
<1>9. l < i /\ tape[i].at < tape[l].until
    BY <1>6, <1>8 DEF EffectiveExpiry, LeaseForward
<1>10. \E f \in Within(Children("receipt", i))' : tape'[f].out = "succeeded"
    BY <1>3, <1>7
<1>11. \E m \in {c} \cup Children("heartbeat", c)' :
          m < i /\ tape'[i].at < tape'[m].until
    <2>1. Children("heartbeat", c)' = Children("heartbeat", c)
        BY DEF Children, Kind
    <2> QED BY <1>8, <1>9, <2>1
<1>12. /\ c \in Within(Children("claim", r))'
       /\ Within(Children("result", c))' = {i}
    BY <1>3, <1>4, <1>5
<1> QED BY <1>6, <1>10, <1>11, <1>12 DEF Succeeded

\* The identities of a retry are fresh; a first attempt follows none.
LEMMA EvidenceFresh ==
    ASSUME ShapeInv, AttemptInv,
           NEW d \in Kind("dispatch"), NEW c \in Kind("candidate"),
           NEW e, CompletionEvidence(d, c, {e}),
           NEW i \in ActionsOf(Att(d)), NEW j \in ActionsOf(Att(d) - 1)
    PROVE  tape[j].key # tape[i].key
<1>1. Att(d) \in Nat \ {0}
    BY EvidenceAttempt, Zenon
<1>2. tape[j].att \in Nat \ {0} /\ tape[j].att = Att(d) - 1
    BY DEF AttemptInv, ActionsOf
<1>3. Att(d) > 1
    BY <1>1, <1>2
<1>4. /\ RetryIdentities(d) /\ ExactContext(d) /\ PriorDispatch(ContextOf(d))
    BY <1>3 DEF CompletionEvidence, DispatchAdmits, verify_retry_context,
                ReceiptSetComplete
<1>5. Att(tape[ContextOf(d)].prior) \in Nat
    BY <1>4 DEF PriorDispatch, AttemptInv, Att
<1>6. Att(tape[ContextOf(d)].prior) = Att(d) - 1
    BY <1>1, <1>4, <1>5 DEF ExactContext
<1>7. tape[j].key \in PriorKeys(ContextOf(d))
    BY <1>6 DEF PriorKeys
<1>8. tape[i].key \notin PriorKeys(ContextOf(d))
    BY <1>3, <1>4 DEF RetryIdentities
<1> QED BY <1>7, <1>8

\* Sealing a tape on which the evidence holds grounds the completion.
LEMMA EvidenceGrounds ==
    ASSUME ShapeInv, AttemptInv,
           NEW d \in Kind("dispatch"), NEW c \in Kind("candidate"),
           NEW e, CompletionProjected(c, {e}), CompletionEvidence(d, c, {e}),
           NEW att, att = Att(d), sealed' = Len(tape), tape' = tape
    PROVE  Grounded(c, e, att)'
<1>1. IsTape(tape) /\ Len(tape) \in Nat /\ DOMAIN tape = 1 .. Len(tape)
    BY TapeDomain DEF ShapeInv
<1>2. Within(Children("completion", c))' = {e}
    <2>1. Children("completion", c) = {e}
        BY DEF CompletionProjected
    <2>2. Children("completion", c)' = {e} /\ e \in 1 .. Len(tape)
        BY <1>1, <2>1 DEF Children, Kind
    <2> QED BY <2>2 DEF Within
<1>3. ASSUME NEW i \in 1 .. Len(tape)
      PROVE  tape[i].kind \in {"cancellation", "terminal"} => tape[i].att # att
    BY <1>1, EvidenceAttempt, Zenon
<1>4. ASSUME NEW i \in 1 .. Len(tape), tape[i].kind = "request", tape[i].att = att
      PROVE  /\ Succeeded(i)'
             /\ \A j \in ActionsOf(att - 1)' : tape[j].key # tape[i].key
    <2>1. i \in ActionsOf(Att(d))
        BY <1>1, <1>4 DEF ActionsOf, Kind
    <2>2. ActionClosed(i, tape[c].parent)
        BY <2>1 DEF CompletionEvidence, ReceiptSetComplete
    <2>3. Succeeded(i)'
        BY <1>1, <2>2, ClosedSucceeded
    <2>4. ActionsOf(att - 1)' = ActionsOf(Att(d) - 1)
        BY DEF ActionsOf, Kind
    <2>5. \A j \in ActionsOf(Att(d) - 1) : tape[j].key # tape[i].key
        BY <2>1, EvidenceFresh, Zenon
    <2> QED BY <2>3, <2>4, <2>5
<1>5. \A i \in (1 .. sealed)' :
          /\ tape'[i].kind \in {"cancellation", "terminal"} => tape'[i].att # att
          /\ tape'[i].kind = "request" /\ tape'[i].att = att
                => /\ Succeeded(i)'
                   /\ \A j \in ActionsOf(att - 1)' : tape'[j].key # tape'[i].key
    BY <1>3, <1>4
<1> QED BY <1>2, <1>5 DEF Grounded

-----------------------------------------------------------------------------
(* The steps *)

\* seal_completion_prefix keeps the invariant: the evidence rebuilt under the
\* lock grounds the proof that leaves, and a proof that left before it is about
\* the same attempt, so about the same candidate and the same completion.
LEMMA SealKeeps ==
    ASSUME IInv, NEW k \in Callers, seal_completion_prefix(k)
    PROVE  IInv'
<1> DEFINE q == call[k]
           passes == /\ CompletionProjected(q.candidate, {q.event})
                     /\ CompletionEvidence(q.dispatch, q.candidate, {q.event})
<1>1. /\ IsTape(tape) /\ Len(tape) \in Nat /\ DOMAIN tape = 1 .. Len(tape)
      /\ ShapeInv /\ AttemptInv /\ call \in [Callers -> Calls]
    BY TapeDomain DEF IInv, ShapeInv
<1>2. /\ q.at = "sealing" /\ tape' = tape /\ rows' = rows
      /\ q.dispatch \in Kind("dispatch") /\ q.candidate \in Kind("candidate")
      /\ q \in Calls
    BY <1>1 DEF seal_completion_prefix, ShapeInv
<1>3. AttemptInv'
    BY <1>1, <1>2, SameTapeGrows, AttemptStays
<1>4. CASE ~passes
    <2>1. sealed' = sealed /\ call' = [call EXCEPT ![k] = [at |-> "idle"]]
        BY <1>4 DEF seal_completion_prefix, Leaves
    <2>2. ShapeInv'
        BY <1>1, <1>2, <2>1 DEF ShapeInv, Calls, Kind, IsTape
    <2>3. \A l \in Callers : Proved(l)' => Proved(l) /\ call'[l] = call[l]
        BY <1>1, <2>1 DEF Proved
    <2> QED BY <1>1, <1>2, <1>3, <2>1, <2>2, <2>3, SameTapeGrows, ProofsStay
            DEF IInv
<1>5. CASE passes
    <2> DEFINE att == Att(q.dispatch)
    <2>1. /\ sealed' = Len(tape)
          /\ call' = [call EXCEPT ![k] = [q EXCEPT !.at = "proved"]]
        BY <1>5 DEF seal_completion_prefix, Last
    <2>2. /\ call'[k].at = "proved" /\ call'[k].dispatch = q.dispatch
          /\ call'[k].candidate = q.candidate /\ call'[k].event = q.event
          /\ call'[k] \in Calls
          /\ \A l \in Callers \ {k} : call'[l] = call[l]
        BY <1>1, <1>2, <2>1 DEF Calls
    <2>3. ShapeInv'
        <3>1. call' \in [Callers -> Calls]
            BY <1>1, <2>1, <2>2
        <3>2. \A l \in Callers : call'[l].at # "idle" =>
                 /\ call'[l].dispatch \in Kind("dispatch")
                 /\ call'[l].candidate \in Kind("candidate")
            BY <1>1, <1>2, <2>2 DEF ShapeInv
        <3> QED BY <1>1, <1>2, <2>1, <3>1, <3>2 DEF ShapeInv, IsTape, Kind
    <2>4. /\ att = Att(Current) /\ tape[q.candidate].att = att
          /\ \A i \in Kind("candidate") : tape[i].att = att => i = q.candidate
        BY <1>1, <1>2, <1>5, EvidenceAttempt, Zenon
    <2>5. \A c, e, a : c = q.candidate /\ e = q.event /\ a = att
                           => Grounded(c, e, a)'
        BY <1>1, <1>2, <1>5, <2>1, EvidenceGrounds
    <2>6. ASSUME NEW l \in Callers, Proved(l)'
          PROVE  /\ call'[l].candidate = q.candidate /\ call'[l].event = q.event
                 /\ call'[l].dispatch \in Kind("dispatch")
                 /\ tape[call'[l].dispatch].att = att
        <3>1. CASE l = k
            BY <1>2, <2>2, <3>1 DEF Att
        <3>2. CASE l # k
            <4>1. Proved(l) /\ call'[l] = call[l]
                BY <2>2, <2>6, <3>2 DEF Proved
            <4>2. /\ call[l].dispatch \in Kind("dispatch")
                  /\ call[l].candidate \in Kind("candidate")
                  /\ Att(call[l].dispatch) = att
                  /\ tape[call[l].candidate].att = att
                BY <1>1, <2>4, <4>1 DEF IInv, ShapeInv, ProvedInv, Proved
            <4>3. call[l].candidate = q.candidate
                BY <2>4, <4>2
            <4>4. Within(Children("completion", q.candidate)) = {call[l].event}
                BY <4>1, <4>3 DEF IInv, CompletionIsProved
            <4>5. Children("completion", q.candidate) = {q.event}
                BY <1>5 DEF CompletionProjected
            <4>6. call[l].event = q.event
                BY <4>4, <4>5 DEF Within
            <4> QED BY <4>1, <4>2, <4>3, <4>6 DEF Att
        <3> QED BY <3>1, <3>2
    <2>7. ProvedInv'
        <3>1. q.candidate \in 1 .. Len(tape)
            BY <1>1, <1>2 DEF Kind
        <3>2. Current' = Current
            BY <1>2 DEF Current, Kind
        <3> QED BY <1>2, <2>1, <2>4, <2>6, <3>1, <3>2 DEF ProvedInv, Att
    <2>8. ASSUME NEW l \in Callers, Proved(l)'
          PROVE  Grounded(call[l].candidate, call[l].event, Att(call[l].dispatch))'
        <3>1. PICK c, e, a : c = q.candidate /\ e = q.event /\ a = att
            OBVIOUS
        <3>2. Grounded(c, e, a)'
            BY <2>5, <3>1
        <3>3. /\ c = (call[l].candidate)' /\ e = (call[l].event)'
              /\ a = Att(call[l].dispatch)'
            BY <1>2, <2>6, <2>8, <3>1 DEF Att
        <3> HIDE DEF att, q
        <3> QED BY <3>2, <3>3 DEF Grounded
    <2>9. CompletionIsProved'
        BY <2>6, <2>8, ProvedIsGrounded DEF AllGrounded
    <2> QED BY <1>3, <2>3, <2>7, <2>9 DEF IInv
<1> QED BY <1>4, <1>5
\* A step that lets no proof out and leaves the seal keeps the invariant.
LEMMA QuietKeeps ==
    ASSUME IInv, Grows, sealed' = sealed,
           \A w \in rows' : w.event \in Nat,
           call' \in [Callers -> Calls],
           \A k \in Callers : call'[k].at # "idle" =>
              /\ call'[k].dispatch \in Kind("dispatch")
              /\ call'[k].candidate \in Kind("candidate"),
           \A k \in Callers : Proved(k)' => Proved(k) /\ call'[k] = call[k]
    PROVE  IInv'
<1>1. IsTape(tape) /\ AttemptInv /\ Len(tape) \in Nat /\ sealed \in 0 .. Len(tape)
    BY TapeDomain DEF IInv, ShapeInv
<1>2. IsTape(tape)' /\ Len(tape') \in Nat /\ Len(tape) <= Len(tape')
    BY TapeDomain DEF Grows
<1>3. \A x : Kind(x) \subseteq Kind(x)'
    BY <1>1, KindGrows
<1>4. ShapeInv'
    BY <1>1, <1>2, <1>3 DEF ShapeInv
<1>5. AttemptInv'
    BY <1>1, AttemptStays
<1>6. ProvedInv' /\ CompletionIsProved'
    BY ProofsStay
<1> QED BY <1>4, <1>5, <1>6 DEF IInv

\* What the generic append lets in is not a dispatch, and no request of
\* another attempt.
LEMMA IrregularIsOrdinary ==
    ASSUME NEW e \in Irregular
    PROVE  Ordinary(e)
<1> DEFINE t == tape[Last]
           d == Current
           att == Att(d)
<1>1. CASE t.kind = "request"
    BY <1>1 DEF Irregular, Ordinary, Request
<1>2. CASE t.kind = "claim"
    BY <1>2 DEF Irregular, Ordinary, Granted, Heartbeat, Result
<1>3. CASE t.kind = "result"
    BY <1>3 DEF Irregular, Ordinary, Receipt
<1>4. CASE t.kind = "receipt"
    BY <1>4 DEF Irregular, Ordinary, ReceiptSet
<1>5. CASE t.kind = "receipt_set"
    BY <1>5 DEF Irregular, Ordinary, Candidate
<1>6. CASE t.kind \notin {"request", "claim", "result", "receipt", "receipt_set"}
    BY <1>6 DEF Irregular, Ordinary, Lifecycle, SetsOf, CandidatesOf, Kind
<1> QED BY <1>1, <1>2, <1>3, <1>4, <1>5, <1>6

\* Every writer of the tape appends one ordinary event and changes nothing of
\* the control.
LEMMA WritersWrite ==
    ASSUME Writers
    PROVE  \E e : Writes(e) /\ Ordinary(e)
<1>1. ASSUME NEW kind, RequestsAction(kind)
      PROVE  \E e : Writes(e) /\ Ordinary(e)
    BY <1>1 DEF RequestsAction, Ordinary, Request
<1>2. ASSUME NEW r, NEW purpose, Claims(r, purpose)
      PROVE  \E e : Writes(e) /\ Ordinary(e)
    BY <1>2 DEF Claims, Ordinary, Granted
<1>3. ASSUME NEW c, heartbeat_activity(c)
      PROVE  \E e : Writes(e) /\ Ordinary(e)
    BY <1>3 DEF heartbeat_activity, Ordinary, Heartbeat
<1>4. ASSUME NEW c, NEW out, Records(c, out)
      PROVE  \E e : Writes(e) /\ Ordinary(e)
    BY <1>4 DEF Records, Ordinary, Result
<1>5. ASSUME NEW i, WritesReceipt(i)
      PROVE  \E e : Writes(e) /\ Ordinary(e)
    BY <1>5 DEF WritesReceipt, Ordinary, Receipt
<1>6. WritesReceiptSet => \E e : Writes(e) /\ Ordinary(e)
    BY DEF WritesReceiptSet, Ordinary, ReceiptSet
<1>7. WritesCandidate => \E e : Writes(e) /\ Ordinary(e)
    BY DEF WritesCandidate, Ordinary, Candidate
<1>8. AppendsIrregular => \E e : Writes(e) /\ Ordinary(e)
    BY IrregularIsOrdinary DEF AppendsIrregular
<1>9. RecordsAcceptance => \E e : Writes(e) /\ Ordinary(e)
    BY DEF RecordsAcceptance, Ordinary, Lifecycle
<1> QED BY <1>1, <1>2, <1>3, <1>4, <1>5, <1>6, <1>7, <1>8, <1>9
        DEF Writers, claim_activity, claim_governed_command,
            claim_governed_verifier, record_activity_result,
            record_governed_command_result, record_governed_verifier_result

\* No writer, in protocol or not, breaks a proof that left.
LEMMA WritersKeep ==
    ASSUME IInv, Writers
    PROVE  IInv'
<1>1. PICK e : Writes(e) /\ Ordinary(e)
    BY WritersWrite
<1>2. Grows
    BY <1>1, ExtendsGrows DEF IInv, ShapeInv, Writes
<1>3. sealed' = sealed /\ rows' = rows /\ call' = call
    BY <1>1 DEF Writes
<1> QED BY <1>2, <1>3, QuietKeeps DEF IInv, ShapeInv, Proved

\* A caller that dies between the two transactions breaks nothing.
LEMMA DiesKeeps ==
    ASSUME IInv, NEW k \in Callers, Dies(k)
    PROVE  IInv'
<1>1. Grows
    BY SameTapeGrows DEF IInv, ShapeInv, Dies
<1>2. /\ sealed' = sealed /\ rows' = rows
      /\ call' = [call EXCEPT ![k] = [at |-> "idle"]]
    BY DEF Dies, Leaves
<1>3. call' \in [Callers -> Calls]
    BY <1>2 DEF IInv, ShapeInv, Calls
<1> QED BY <1>1, <1>2, <1>3, QuietKeeps DEF IInv, ShapeInv, Proved

\* record_candidate_completion, whether it inserts, resolves or rejects, lets
\* no proof out and names a dispatch and a candidate of the tape.
LEMMA RecordKeeps ==
    ASSUME IInv, NEW k \in Callers, record_candidate_completion(k)
    PROVE  IInv'
<1>1. PICK d \in Kind("dispatch"), c \in Kind("candidate") :
          IF RowsOf(c) # {} THEN resolve_existing_completion(k, d, c)
          ELSE insert_completion(k, d, c)
    BY DEF record_candidate_completion
<1>2. /\ IsTape(tape) /\ Len(tape) \in Nat /\ DOMAIN tape = 1 .. Len(tape)
      /\ sealed' = sealed /\ call[k].at = "idle"
      /\ call \in [Callers -> Calls] /\ \A w \in rows : w.event \in Nat
    BY TapeDomain DEF IInv, ShapeInv, record_candidate_completion
<1>3. d \in Nat /\ c \in Nat
    BY <1>2 DEF Kind
<1>4. /\ Grows /\ \A w \in rows' : w.event \in Nat
      /\ Leaves(k) \/ \E e \in Nat : Holds(k, d, c, e)
    <2>1. CASE RowsOf(c) # {}
        <3>1. The(RowsOf(c)) \in rows
            BY <2>1 DEF The, RowsOf
        <3>2. tape' = tape /\ rows' = rows
            BY <1>1, <2>1 DEF resolve_existing_completion
        <3>3. Leaves(k) \/ Holds(k, d, c, The(RowsOf(c)).event)
            BY <1>1, <2>1 DEF resolve_existing_completion
        <3> QED BY <1>2, <3>1, <3>2, <3>3, SameTapeGrows
    <2>2. CASE RowsOf(c) = {} /\ ~(CompletionProjected(c, {})
                                   /\ CompletionEvidence(d, c, {}))
        <3>1. Leaves(k) /\ tape' = tape /\ rows' = rows
            BY <1>1, <2>2 DEF insert_completion
        <3> QED BY <1>2, <3>1, SameTapeGrows
    <2>3. CASE /\ RowsOf(c) = {} /\ CompletionProjected(c, {})
               /\ CompletionEvidence(d, c, {})
        <3>1. /\ Extends(Completion(c, CompletionProof(d, c)))
              /\ rows' = rows \cup {[candidate |-> c, dispatch |-> d,
                                     proof |-> CompletionProof(d, c),
                                     event |-> Last + 1]}
              /\ Holds(k, d, c, Last + 1)
            BY <1>1, <2>3 DEF insert_completion
        <3>2. Ordinary(Completion(c, CompletionProof(d, c)))
            BY DEF Ordinary, Completion
        <3>3. Grows
            BY <1>2, <3>1, <3>2, ExtendsGrows
        <3>4. Last + 1 \in Nat
            BY <1>2 DEF Last
        <3> HIDE DEF Last
        <3> QED BY <1>2, <3>1, <3>3, <3>4
    <2> QED BY <2>1, <2>2, <2>3
<1>5. /\ call' \in [Callers -> Calls] /\ call'[k].at # "proved"
      /\ \A l \in Callers \ {k} : call'[l] = call[l]
      /\ call'[k].at # "idle" => call'[k].dispatch = d /\ call'[k].candidate = c
    <2>1. CASE Leaves(k)
        BY <1>2, <2>1 DEF Leaves, Calls
    <2>2. CASE \E e \in Nat : Holds(k, d, c, e)
        BY <1>2, <1>3, <2>2 DEF Holds, Calls
    <2> QED BY <1>4, <2>1, <2>2
<1>6. \A l \in Callers : call'[l].at # "idle" =>
          /\ call'[l].dispatch \in Kind("dispatch")
          /\ call'[l].candidate \in Kind("candidate")
    BY <1>5 DEF IInv, ShapeInv
<1>7. \A l \in Callers : Proved(l)' => Proved(l) /\ call'[l] = call[l]
    BY <1>5 DEF Proved
<1> QED BY <1>2, <1>4, <1>5, <1>6, <1>7, QuietKeeps
-----------------------------------------------------------------------------
(* The first states *)

\* v is t with u after it.
Joined(t, u, v) ==
    /\ IsTape(v) /\ Len(t) \in Nat /\ Len(u) \in Nat
    /\ DOMAIN t = 1 .. Len(t) /\ DOMAIN u = 1 .. Len(u)
    /\ DOMAIN v = 1 .. Len(t) + Len(u) /\ Len(v) = Len(t) + Len(u)
    /\ \A i \in 1 .. Len(t) : v[i] = t[i]
    /\ \A i \in 1 .. Len(u) : v[Len(t) + i] = u[i]

\* The concatenation of two tapes is a tape with their events in order.
LEMMA ConcatTape ==
    ASSUME NEW t, IsTape(t), NEW u, IsTape(u)
    PROVE  Joined(t, u, t \o u)
<1> DEFINE S == {t[i] : i \in DOMAIN t} \cup {u[i] : i \in DOMAIN u}
           v == t \o u
<1>1. t \in Seq(S) /\ u \in Seq(S)
    BY SeqMonotonic DEF IsTape
<1>2. /\ v \in Seq(S) /\ Len(t) \in Nat /\ Len(u) \in Nat
      /\ DOMAIN t = 1 .. Len(t) /\ DOMAIN u = 1 .. Len(u)
      /\ Len(v) = Len(t) + Len(u) /\ DOMAIN v = 1 .. Len(t) + Len(u)
      /\ \A i \in 1 .. Len(t) : v[i] = t[i]
      /\ \A i \in 1 .. Len(u) : v[Len(t) + i] = u[i]
    <2>1. v \in Seq(S) /\ Len(v) = Len(t) + Len(u)
        BY <1>1, ConcatProperties
    <2>2. \A i \in 1 .. Len(t) + Len(u) :
             v[i] = IF i <= Len(t) THEN t[i] ELSE u[i - Len(t)]
        BY <1>1, ConcatProperties
    <2>3. /\ Len(t) \in Nat /\ Len(u) \in Nat
          /\ DOMAIN t = 1 .. Len(t) /\ DOMAIN u = 1 .. Len(u)
          /\ DOMAIN v = 1 .. Len(v)
        BY <1>1, <2>1, LenProperties
    <2> HIDE DEF v, S
    <2> QED BY <2>1, <2>2, <2>3
<1>3. ASSUME NEW x \in S
      PROVE  x \in {v[i] : i \in DOMAIN v}
    <2>1. CASE \E i \in DOMAIN t : x = t[i]
        BY <1>2, <2>1
    <2>2. CASE \E i \in DOMAIN u : x = u[i]
        <3>1. PICK i \in 1 .. Len(u) : x = u[i]
            BY <1>2, <2>2
        <3>2. Len(t) + i \in DOMAIN v /\ v[Len(t) + i] = x
            BY <1>2, <3>1
        <3> QED BY <3>2
    <2> QED BY <1>3, <2>1, <2>2
<1> HIDE DEF v, S
<1>4. v \in Seq({v[i] : i \in DOMAIN v})
    BY <1>2, <1>3, SeqMonotonic
<1> QED BY <1>2, <1>4 DEF IsTape, Joined, v

\* t is the tape P of length p, then C of length m, then the event of L.
PutTogether(P, C, L, t, p, m) ==
    /\ IsTape(t) /\ p \in Nat /\ m \in Nat /\ DOMAIN t = 1 .. p + m + 1
    /\ DOMAIN C = 1 .. m
    /\ \A i \in 1 .. p : t[i] = P[i]
    /\ \A i \in 1 .. m : t[p + i] = C[i]
    /\ t[p + m + 1] = L[1]

\* A retried tape is its first attempt, the contexts and the second dispatch.
LEMMA ThreeParts ==
    ASSUME NEW P, IsTape(P), NEW C, IsTape(C), NEW L, IsTape(L), Len(L) = 1,
           NEW t, t = P \o C \o L, NEW p, p = Len(P), NEW m, m = Len(C)
    PROVE  PutTogether(P, C, L, t, p, m)
<1>1. PICK Q : Q = P \o C /\ t = Q \o L
    BY Zenon
<1>2. Joined(P, C, Q)
    BY <1>1, ConcatTape, Zenon
<1>3. /\ IsTape(Q) /\ p \in Nat /\ m \in Nat /\ Len(Q) = p + m
      /\ \A i \in 1 .. p : Q[i] = P[i]
      /\ \A i \in 1 .. m : Q[p + i] = C[i]
      /\ DOMAIN C = 1 .. m
    BY <1>2, Zenon DEF Joined
<1>4. Joined(Q, L, t)
    BY <1>1, <1>3, ConcatTape, Zenon
<1>5. /\ IsTape(t) /\ DOMAIN t = 1 .. Len(Q) + 1
      /\ \A i \in 1 .. Len(Q) : t[i] = Q[i]
      /\ \A i \in 1 .. 1 : t[Len(Q) + i] = L[i]
    BY <1>4, Zenon DEF Joined
<1>6. /\ \A i \in 1 .. p : i \in 1 .. Len(Q)
      /\ \A i \in 1 .. m : p + i \in 1 .. Len(Q)
      /\ Len(Q) + 1 = p + m + 1 /\ 1 \in 1 .. 1
    BY <1>3
<1>7. t[p + m + 1] = L[1]
    BY <1>5, <1>6
<1> QED BY <1>3, <1>5, <1>6, <1>7 DEF PutTogether

\* A tape on which a retry follows the terminal of the attempt before it.
LEMMA RetryShape ==
    ASSUME NEW m \in Nat, DOMAIN tape = 1 .. 8 + m,
           tape[1].kind = "dispatch", tape[1].att = 1,
           tape[2].kind = "request", tape[2].att = 1,
           \A i \in 3 .. 7 + m : tape[i].kind \notin {"dispatch", "request"},
           tape[7].kind = "terminal", tape[7].att = 1,
           tape[8 + m].kind = "dispatch", tape[8 + m].att = 2
    PROVE  AttemptInv
<1>1. Kind("dispatch") = {1, 8 + m} /\ Kind("request") = {2}
    BY DEF Kind
<1>2. 7 \in Kind("terminal")
    BY DEF Kind
<1>3. Current = 8 + m
    <2>1. /\ {1, 8 + m} \in SUBSET (1 .. 8 + m) /\ 8 + m \in Nat
          /\ {1, 8 + m} # {}
        OBVIOUS
    <2>2. Max({1, 8 + m}) \in {1, 8 + m} /\ 8 + m <= Max({1, 8 + m})
        BY <2>1, MaxOfPlaces, Zenon
    <2>3. Max({1, 8 + m}) = 8 + m
        BY <2>2
    <2> QED BY <1>1, <2>3, Zenon DEF Current
<1> QED BY <1>1, <1>2, <1>3 DEF AttemptInv, Att

\* Seven events make a tape.
LEMMA SevenEvents ==
    ASSUME NEW a, NEW b, NEW c, NEW d, NEW e, NEW f, NEW g
    PROVE  LET t == <<a, b, c, d, e, f, g>> IN
           /\ IsTape(t) /\ Len(t) = 7
           /\ t[1] = a /\ t[2] = b /\ t[3] = c /\ t[4] = d /\ t[5] = e
           /\ t[6] = f /\ t[7] = g
<1> DEFINE t == <<a, b, c, d, e, f, g>>
           S == {a, b, c, d, e, f, g}
<1>1. /\ t \in Seq(S) /\ Len(t) = 7 /\ DOMAIN t = 1 .. 7
      /\ t[1] = a /\ t[2] = b /\ t[3] = c /\ t[4] = d /\ t[5] = e
      /\ t[6] = f /\ t[7] = g
    OBVIOUS
<1> HIDE DEF t
<1>2. S \subseteq {t[i] : i \in DOMAIN t}
    BY <1>1
<1>3. IsTape(t)
    <2> HIDE DEF S
    <2> QED BY <1>1, <1>2, SeqMonotonic DEF IsTape
<1> QED BY <1>1, <1>3 DEF t

\* The tapes of a retry satisfy AttemptInv: the terminal of the failed attempt
\* is on them.
LEMMA RetriedTape ==
    ASSUME NEW contexts, IsTape(contexts),
           \A i \in DOMAIN contexts : contexts[i].kind = "context",
           NEW outer, NEW at, NEW purpose, NEW out,
           tape = Retried(outer, at, purpose, out, contexts)
    PROVE  IsTape(tape) /\ AttemptInv
<1> DEFINE P == <<Sealed("V3", 1, "implementer", none), Request(1, Git, Git, 1),
                  Granted(2, -3, -2, purpose), Heartbeat(3, -3, -1),
                  Result(3, at, "failed"), Receipt(1, Git, 5, "failed"),
                  Lifecycle("terminal", 1, out)>>
           L == <<Sealed(outer, 2, "implementer", 1)>>
<1>1. /\ IsTape(P) /\ Len(P) = 7
      /\ P[1].kind = "dispatch" /\ P[1].att = 1
      /\ P[2].kind = "request" /\ P[2].att = 1
      /\ P[3].kind = "claim" /\ P[4].kind = "heartbeat"
      /\ P[5].kind = "result" /\ P[6].kind = "receipt"
      /\ P[7].kind = "terminal" /\ P[7].att = 1
    <2>1. /\ IsTape(P) /\ Len(P) = 7
          /\ P[1] = Sealed("V3", 1, "implementer", none)
          /\ P[2] = Request(1, Git, Git, 1) /\ P[3] = Granted(2, -3, -2, purpose)
          /\ P[4] = Heartbeat(3, -3, -1) /\ P[5] = Result(3, at, "failed")
          /\ P[6] = Receipt(1, Git, 5, "failed")
          /\ P[7] = Lifecycle("terminal", 1, out)
        BY SevenEvents, Zenon
    <2> HIDE DEF P
    <2>2. /\ P[1].kind = "dispatch" /\ P[1].att = 1
          /\ P[2].kind = "request" /\ P[2].att = 1
        BY <2>1 DEF Sealed, Dispatch, Request
    <2>3. P[3].kind = "claim" /\ P[4].kind = "heartbeat" /\ P[5].kind = "result"
        BY <2>1 DEF Granted, Heartbeat, Result
    <2>4. P[6].kind = "receipt" /\ P[7].kind = "terminal" /\ P[7].att = 1
        BY <2>1 DEF Receipt, Lifecycle
    <2> QED BY <2>1, <2>2, <2>3, <2>4
<1>2. IsTape(L) /\ Len(L) = 1 /\ L[1].kind = "dispatch" /\ L[1].att = 2
    BY DEF IsTape, Sealed, Dispatch
<1>3. tape = P \o contexts \o L
    BY DEF Retried
<1> HIDE DEF P, L
<1>4. PICK p, m : p = Len(P) /\ m = Len(contexts)
    BY Zenon
<1>5. /\ IsTape(tape) /\ m \in Nat /\ DOMAIN tape = 1 .. 7 + m + 1
      /\ DOMAIN contexts = 1 .. m
      /\ \A i \in 1 .. 7 : tape[i] = P[i]
      /\ \A i \in 1 .. m : tape[7 + i] = contexts[i]
      /\ tape[7 + m + 1] = L[1]
    <2>1. PutTogether(P, contexts, L, tape, p, m)
        BY <1>1, <1>2, <1>3, <1>4, ThreeParts, Zenon
    <2> QED BY <1>1, <1>4, <2>1 DEF PutTogether
<1>6. DOMAIN tape = 1 .. 8 + m /\ tape[8 + m] = L[1]
    BY <1>5
<1>7. ASSUME NEW i \in 3 .. 7 + m
      PROVE  tape[i].kind \notin {"dispatch", "request"}
    <2>1. CASE i \in 3 .. 7
        BY <1>1, <1>5, <2>1
    <2>2. CASE i \in 8 .. 7 + m
        <3>1. i - 7 \in 1 .. m /\ i = 7 + (i - 7)
            BY <1>5, <2>2
        <3>2. PICK j \in 1 .. m : i = 7 + j
            BY <3>1
        <3>3. tape[i] = contexts[j] /\ contexts[j].kind = "context"
            BY <1>5, <3>2, Zenon
        <3> QED BY <3>3
    <2> QED BY <1>5, <2>1, <2>2
<1>8. /\ tape[1] = P[1] /\ tape[2] = P[2] /\ tape[7] = P[7]
    BY <1>5
<1> QED BY <1>1, <1>2, <1>5, <1>6, <1>7, <1>8, RetryShape

\* The tapes of a first attempt satisfy AttemptInv: they have one dispatch.
LEMMA FirstTape ==
    ASSUME tape \in FirstAttempts
    PROVE  IsTape(tape) /\ AttemptInv
<1>1. PICK n \in 1 .. 3 :
         /\ IsTape(tape) /\ DOMAIN tape = 1 .. n
         /\ tape[n].kind = "dispatch" /\ tape[n].att = 1
         /\ \A i \in 1 .. n - 1 : tape[i].kind \in {"graph", "activity"}
    <2>1. CASE tape \in {<<Sealed("V3", 1, role, none)>> :
                            role \in {"implementer", "reviewer"}}
        BY <2>1 DEF IsTape, Sealed, Dispatch
    <2>2. CASE tape \in {<<Graph(n), Sealed("V4", 1, "implementer", 1)>> :
                            n \in 1 .. 2}
        BY <2>2 DEF IsTape, Sealed, Dispatch, Graph
    <2>3. CASE tape = <<Graph(1), Lifecycle("activity", 1, none),
                        Sealed("V4", 1, "implementer", 1)>>
        BY <2>3 DEF IsTape, Sealed, Dispatch, Graph, Lifecycle
    <2> QED BY <2>1, <2>2, <2>3 DEF FirstAttempts
<1>2. Kind("dispatch") = {n} /\ Kind("request") = {}
    BY <1>1 DEF Kind
<1>3. Current = n
    BY <1>2, MaxOfPlaces DEF Current
<1> QED BY <1>1, <1>2, <1>3 DEF AttemptInv, Att

\* The invariant holds of every first state.
LEMMA InitHolds == Init => IInv
<1> SUFFICES ASSUME Init PROVE IInv
    OBVIOUS
<1>1. IsTape(tape) /\ AttemptInv
    <2>1. CASE tape \in FirstAttempts
        BY <2>1, FirstTape
    <2>2. CASE tape \in Retries
        <3>1. /\ IsTape(<<>>) /\ DOMAIN <<>> = {}
              /\ IsTape(<<SoleContext>>) /\ IsTape(<<SoleContext, SoleContext>>)
              /\ IsTape(<<[SoleContext EXCEPT !.ns = "d1"]>>)
            BY DEF IsTape
        <3>2. /\ SoleContext.kind = "context"
              /\ [SoleContext EXCEPT !.ns = "d1"].kind = "context"
            BY DEF SoleContext, Context
        <3>3. CASE tape \in {Retried("V3", at, "generic", "failed", <<SoleContext>>) :
                                at \in {-3, -2}}
            BY <3>1, <3>2, <3>3, RetriedTape
        <3>4. CASE tape \in
                    {Retried("V3", -3, "command", "failed", <<SoleContext>>),
                     Retried("V3", -3, "generic", "cancelled", <<SoleContext>>),
                     Retried("V4", -3, "generic", "failed", <<SoleContext>>)}
            BY <3>1, <3>2, <3>4, RetriedTape
        <3>5. CASE tape \in {Retried("V3", -3, "generic", "failed", contexts) :
                    contexts \in {<<>>, <<SoleContext, SoleContext>>,
                                  <<[SoleContext EXCEPT !.ns = "d1"]>>}}
            <4>1. CASE tape = Retried("V3", -3, "generic", "failed", <<>>)
                BY <3>1, <4>1, RetriedTape
            <4>2. CASE tape = Retried("V3", -3, "generic", "failed",
                                      <<SoleContext, SoleContext>>)
                <5>1. \A i \in DOMAIN <<SoleContext, SoleContext>> :
                         <<SoleContext, SoleContext>>[i].kind = "context"
                    BY <3>2
                <5> QED BY <3>1, <4>2, <5>1, RetriedTape
            <4>3. CASE tape = Retried("V3", -3, "generic", "failed",
                                      <<[SoleContext EXCEPT !.ns = "d1"]>>)
                <5>1. \A i \in DOMAIN <<[SoleContext EXCEPT !.ns = "d1"]>> :
                         <<[SoleContext EXCEPT !.ns = "d1"]>>[i].kind = "context"
                    BY DEF SoleContext, Context
                <5> QED BY <3>1, <4>3, <5>1, RetriedTape, Zenon
            <4> QED BY <3>5, <4>1, <4>2, <4>3, Zenon
        <3> QED BY <2>2, <3>3, <3>4, <3>5, Zenon DEF Retries
    <2> QED BY <2>1, <2>2 DEF Init
<1>2. ShapeInv /\ ProvedInv /\ CompletionIsProved
    BY <1>1, TapeDomain DEF Init, ShapeInv, ProvedInv, CompletionIsProved,
                            Proved, Calls
<1> QED BY <1>1, <1>2 DEF IInv

\* A step that changes neither the tape nor the control keeps the invariant.
LEMMA StutterKeeps ==
    ASSUME IInv, UNCHANGED <<tape, rows, sealed, call>>
    PROVE  IInv'
BY SameTapeGrows, QuietKeeps DEF IInv, ShapeInv, Proved

\* Every step of the writers, the clock and the callers keeps the invariant.
LEMMA NextKeeps == IInv /\ [Next]_vars => IInv'
<1> SUFFICES ASSUME IInv, [Next]_vars PROVE IInv'
    OBVIOUS
<1>1. CASE Writers
    BY <1>1, WritersKeep
<1>2. CASE Tick \/ UNCHANGED vars
    BY <1>2, StutterKeeps DEF Tick, vars
<1>3. CASE \E k \in Callers : record_candidate_completion(k)
    BY <1>3, RecordKeeps
<1>4. CASE \E k \in Callers : seal_completion_prefix(k)
    BY <1>4, SealKeeps
<1>5. CASE \E k \in Callers : Dies(k)
    BY <1>5, DiesKeeps
<1> QED BY <1>1, <1>2, <1>3, <1>4, <1>5 DEF Next

\* record_governed_candidate_completion_v1 answers only what is proved: for any
\* number of callers, any lease, clock and deadline and any number of appends
\* out of protocol, a completion whose answer left is the only one of its
\* candidate and rests on actions that all succeeded under a live lease.
THEOREM CompletionSafety == Spec => []CompletionIsProved
<1>1. IInv => CompletionIsProved
    BY DEF IInv
<1> QED BY <1>1, InitHolds, NextKeeps, PTL DEF Spec
=============================================================================
