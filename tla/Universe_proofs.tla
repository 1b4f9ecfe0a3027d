--------------------------- MODULE Universe_proofs ---------------------------
(***************************************************************************)
(* The universe's indexes and the gate before a promotion, for every set   *)
(* of ids, languages and invariant names and any number of calls.          *)
(***************************************************************************)
EXTENDS Universe, FiniteSetTheorems, SequenceTheorems, TLAPS

\* What the gate has found of a manifest that passed, and what no builder call
\* takes away again.
Proven(m) ==
  /\ m.lean
  /\ m.invariants # <<>> /\ m.invariants[1].proof
  /\ m.doc_url \/ m.source_path # "none"

\* A mark after a success means that the gate was passed, and a promotion that
\* there is a mark.
Gated(m) ==
  /\ m.gated => m.cvm_gate_passed /\ Proven(m)
  /\ m.proposed /\ m.tier # 2 => m.cvm_gate_passed

HandGated == Gated(hand) /\ (Passed(steps) => Proven(hand))
StoredGated == \A id \in Ids : artifacts[id] # None => Gated(artifacts[id])
FileGated == \A id \in Ids : file.artifacts[id] # None => Gated(file.artifacts[id])

\* What the indexes list of an artifact that is stored.
Indexed(id) ==
  LET m == artifacts[id]
  IN  /\ index.tier[m.tier][id] > 0
      /\ index.language[m.language][id] > 0
      /\ \A i \in 1 .. Len(m.invariants) :
            index.invariant[m.invariants[i].name][id] > 0
StoredIndexed == \A id \in Stored : Indexed(id)

\* An id that was never added is not listed; AddedOnceIsExact, of one id.
Listed(id) ==
  /\ adds[id] = 0 =>
       /\ artifacts[id] = None
       /\ \A t \in Tiers : index.tier[t][id] = 0
       /\ \A l \in Languages : index.language[l][id] = 0
       /\ \A v \in InvariantNames : index.invariant[v][id] = 0
  /\ adds[id] = 1 =>
       LET m == artifacts[id]
       IN  /\ m # None
           /\ \A t \in Tiers : index.tier[t][id] = IF t = m.tier THEN 1 ELSE 0
           /\ \A l \in Languages :
                index.language[l][id] = IF l = m.language THEN 1 ELSE 0
           /\ \A v \in InvariantNames :
                index.invariant[v][id] = Mentions(m, v)
AllListed == \A id \in Ids : Listed(id)

\* The inductive invariant.
GateInv == HandGated /\ StoredGated /\ FileGated
IndexInv == StoredIndexed /\ AllListed
IInv == TypeOK /\ GateInv /\ IndexInv

-----------------------------------------------------------------------------
(* Manifests *)

LEMMA ManifestIsSome == \A m \in Manifest : m # None
<1>. SUFFICES ASSUME NEW m \in Manifest, m = None PROVE FALSE
  OBVIOUS
<1>1. "tier" \in DOMAIN m
  BY DEF Manifest
<1>2. DOMAIN None = {"artifact_id"}
  BY DEF None
<1>. QED BY <1>1, <1>2

\* new() makes a manifest without a mark, proposed if it is T2.
LEMMA NewIsGated ==
  ASSUME NEW m \in NewManifests PROVE m \in Manifest /\ Gated(m)
<1>1. PICK id \in Ids, lang \in Languages, n \in TierNumbers, named \in BOOLEAN :
        m = New(id, lang, n, named)
  BY DEF NewManifests
<1>2. TierOf(n) \in Tiers
  BY UniverseAssumption DEF TierOf, Tiers
<1>3. m.invariants \in Seq(Invariant)
  BY <1>1, EmptySeq DEF New
<1>. QED BY <1>1, <1>2, <1>3 DEF New, Manifest, Gated

\* How often a manifest mentions a name is a number, and positive for the names
\* of its invariants.
LEMMA MentionsCounts ==
  ASSUME NEW m \in Manifest, NEW v
  PROVE  /\ Mentions(m, v) \in Nat
         /\ \A i \in 1 .. Len(m.invariants) :
               m.invariants[i].name = v => Mentions(m, v) > 0
<1>. DEFINE n == Len(m.invariants)
            S == {i \in 1 .. n : m.invariants[i].name = v}
<1>1. n \in Nat
  BY LenProperties DEF Manifest
<1>2. IsFiniteSet(1 .. n) /\ S \subseteq 1 .. n
  BY <1>1, FS_Interval
<1>3. IsFiniteSet(S)
  BY <1>2, FS_Subset
<1>4. Cardinality(S) \in Nat /\ (Cardinality(S) = 0 <=> S = {})
  BY <1>3, FS_CardinalityType, FS_EmptySet
<1>5. Mentions(m, v) = Cardinality(S)
  BY DEF Mentions
<1>6. ASSUME NEW i \in 1 .. n, m.invariants[i].name = v PROVE S # {}
  BY <1>6
<1>7. Cardinality(S) \in Nat /\ (S # {} => Cardinality(S) > 0)
  BY <1>4
<1>. HIDE DEF S
<1>. QED BY <1>5, <1>6, <1>7

LEMMA NamesMentioned ==
  ASSUME NEW m \in Manifest, NEW i \in 1 .. Len(m.invariants)
  PROVE  /\ m.invariants[i].name \in InvariantNames
         /\ Mentions(m, m.invariants[i].name) > 0
<1>1. m.invariants \in Seq(Invariant)
  BY DEF Manifest
<1>2. m.invariants[i] \in Invariant
  BY <1>1, LenProperties
<1>3. m.invariants[i].name \in InvariantNames
  BY <1>2 DEF Invariant
<1>. QED BY <1>3, MentionsCounts

\* Appending an invariant leaves the first one in place.
LEMMA AppendedInvariant ==
  ASSUME NEW s \in Seq(Invariant), NEW inv \in Invariant
  PROVE  /\ Append(s, inv) \in Seq(Invariant)
         /\ s # <<>> => Append(s, inv) # <<>> /\ Append(s, inv)[1] = s[1]
<1>1. Len(s) \in Nat /\ (s # <<>> => Len(s) > 0)
  BY LenProperties, EmptySeq
<1>. QED BY <1>1, AppendProperties

-----------------------------------------------------------------------------
(* The gate *)

\* The gate stops at some step: the first that fails, or the fifth.
LEMMA GateStops ==
  ASSUME NEW m
  PROVE  \E i \in 1 .. 5 : /\ \A j \in 1 .. i - 1 : Checks(m)[j]
                           /\ Checks(m)[i] => i = 5
<1>1. CASE ~Checks(m)[1]
  BY <1>1
<1>2. CASE Checks(m)[1] /\ ~Checks(m)[2]
  BY <1>2
<1>3. CASE Checks(m)[1] /\ Checks(m)[2] /\ ~Checks(m)[3]
  BY <1>3
<1>4. CASE Checks(m)[1] /\ Checks(m)[2] /\ Checks(m)[3] /\ ~Checks(m)[4]
  BY <1>4
<1>5. CASE Checks(m)[1] /\ Checks(m)[2] /\ Checks(m)[3] /\ Checks(m)[4]
  <2>1. \A j \in 1 .. 5 - 1 : Checks(m)[j]
    BY <1>5
  <2>. QED BY <2>1
<1>. QED BY <1>1, <1>2, <1>3, <1>4, <1>5

\* A run of the gate gives a sequence of results, and one whose last result is a
\* success went through all steps.
LEMMA PassedIsProven ==
  ASSUME NEW m \in Manifest
  PROVE  /\ Steps(m) \in Seq(BOOLEAN)
         /\ Passed(Steps(m)) => Proven(m)
<1>. DEFINE Fits(i) == /\ \A j \in 1 .. i - 1 : Checks(m)[j]
                       /\ Checks(m)[i] => i = 5
            last == CHOOSE i \in 1 .. 5 : Fits(i)
<1>1. \E i \in 1 .. 5 : Fits(i)
  BY GateStops
<1>2. last \in 1 .. 5 /\ Fits(last)
  BY <1>1
<1>. HIDE DEF last
<1>3. Steps(m) = SubSeq(Checks(m), 1, last)
  BY DEF Steps, last
<1>4. Prove(m) \in BOOLEAN /\ Review(m) \in BOOLEAN /\ Typecheck(m) \in BOOLEAN
  BY DEF Prove, Review, Typecheck, Manifest, InvariantsCovered
<1>5. \A i \in 1 .. last : Checks(m)[i] \in BOOLEAN
  <2>1. /\ Checks(m)[1] \in BOOLEAN /\ Checks(m)[2] \in BOOLEAN
        /\ Checks(m)[3] \in BOOLEAN /\ Checks(m)[4] \in BOOLEAN
        /\ Checks(m)[5] \in BOOLEAN
    BY <1>4 DEF Checks
  <2>2. \A i \in 1 .. last : i = 1 \/ i = 2 \/ i = 3 \/ i = 4 \/ i = 5
    BY <1>2
  <2>. QED BY <2>1, <2>2
<1>6. Steps(m) \in Seq(BOOLEAN) /\ Len(Steps(m)) = last
      /\ Steps(m)[last] = Checks(m)[last]
  BY <1>2, <1>3, <1>5, SubSeqProperties
<1>7. ASSUME Passed(Steps(m)) PROVE Proven(m)
  <2>1. Checks(m)[last]
    BY <1>6, <1>7 DEF Passed
  <2>2. Checks(m)[3] /\ Checks(m)[4]
    BY <1>2, <2>1
  <2>3. Prove(m) /\ Review(m)
    BY <2>2 DEF Checks
  <2>4. m.invariants # <<>> => 1 \in 1 .. Len(m.invariants)
    <3>1. m.invariants \in Seq(Invariant)
      BY DEF Manifest
    <3>. QED BY <3>1, LenProperties, EmptySeq
  <2>. QED BY <2>3, <2>4 DEF Prove, Review, InvariantsCovered, Proven
<1>. QED BY <1>6, <1>7

-----------------------------------------------------------------------------
(* Steps on the manifest in hand *)

\* What is stored and listed depends on the universe and the file only.
LEMMA UniverseStands ==
  ASSUME StoredGated, FileGated, IndexInv, UNCHANGED <<artifacts, index, file, adds>>
  PROVE  StoredGated' /\ FileGated' /\ IndexInv'
<1>1. StoredGated' /\ FileGated'
  BY DEF StoredGated, FileGated
<1>2. StoredIndexed'
  BY DEF IndexInv, StoredIndexed, Indexed, Stored
<1>3. AllListed'
  BY DEF IndexInv, AllListed, Listed
<1>. QED BY <1>1, <1>2, <1>3 DEF IndexInv

\* A manifest without gate results replaces the one in hand.
LEMMA HandReplaced ==
  ASSUME IInv, hand' \in Manifest, Gated(hand'), steps' = <<>>,
         calls' \in 0 .. MaxCalls, UNCHANGED <<artifacts, index, file, adds>>
  PROVE  IInv'
<1>1. TypeOK'
  BY EmptySeq DEF IInv, TypeOK
<1>2. HandGated'
  BY DEF HandGated, Passed
<1>. QED BY <1>1, <1>2, UniverseStands DEF IInv, GateInv

LEMMA NewManifestPreserves ==
  ASSUME IInv, NewManifest PROVE IInv'
<1>1. hand' \in Manifest /\ Gated(hand')
  BY NewIsGated DEF NewManifest
<1>2. calls' \in 0 .. MaxCalls
  BY UniverseAssumption DEF IInv, TypeOK, NewManifest
<1>. QED BY <1>1, <1>2, HandReplaced DEF NewManifest

\* What a builder call has to respect: the mark, the tier, and what the gate saw.
LEMMA BuildPreserves ==
  ASSUME IInv, NEW m \in Manifest, Build(m),
         Gated(m), Proven(hand) => Proven(m)
  PROVE  IInv'
<1>1. TypeOK'
  BY UniverseAssumption DEF IInv, TypeOK, Build
<1>2. HandGated'
  BY DEF IInv, GateInv, HandGated, Build
<1>. QED BY <1>1, <1>2, UniverseStands DEF IInv, GateInv, Build

LEMMA BuildersPreserve ==
  ASSUME IInv, AddInvariant \/ AddProof \/ WithSourcePath \/ WithDocUrl
  PROVE  IInv'
<1>0. hand \in Manifest /\ Gated(hand)
  BY DEF IInv, TypeOK, GateInv, HandGated
<1>1. CASE AddInvariant
  <2>1. PICK inv \in Invariant :
          Build([hand EXCEPT !.invariants = Append(@, inv)])
    BY <1>1 DEF AddInvariant
  <2>. DEFINE m == [hand EXCEPT !.invariants = Append(@, inv)]
  <2>2. hand.invariants \in Seq(Invariant)
    BY <1>0 DEF Manifest
  <2>3. Append(hand.invariants, inv) \in Seq(Invariant)
        /\ (hand.invariants # <<>> =>
              /\ Append(hand.invariants, inv) # <<>>
              /\ Append(hand.invariants, inv)[1] = hand.invariants[1])
    BY <2>2, AppendedInvariant
  <2>4. m \in Manifest
    BY <1>0, <2>3 DEF Manifest
  <2>5. /\ m.invariants = Append(hand.invariants, inv)
        /\ m.lean = hand.lean /\ m.doc_url = hand.doc_url
        /\ m.source_path = hand.source_path /\ m.tier = hand.tier
        /\ m.cvm_gate_passed = hand.cvm_gate_passed
        /\ m.proposed = hand.proposed /\ m.gated = hand.gated
    BY <1>0 DEF Manifest
  <2>6. Build(m)
    BY <2>1
  <2>. HIDE DEF m
  <2>7. Proven(hand) => Proven(m)
    BY <2>3, <2>5 DEF Proven
  <2>8. Gated(m)
    BY <1>0, <2>5, <2>7 DEF Gated
  <2>. QED BY <2>4, <2>6, <2>7, <2>8, BuildPreserves
<1>2. CASE AddProof
  <2>. DEFINE m == [hand EXCEPT !.lean = TRUE]
  <2>1. m \in Manifest /\ Gated(m) /\ (Proven(hand) => Proven(m))
    BY <1>0 DEF Manifest, Gated, Proven
  <2>2. Build(m)
    BY <1>2 DEF AddProof
  <2>. QED BY <2>1, <2>2, BuildPreserves
<1>3. CASE WithSourcePath
  <2>1. PICK path \in {"empty", "given"} : Build([hand EXCEPT !.source_path = path])
    BY <1>3 DEF WithSourcePath
  <2>2. [hand EXCEPT !.source_path = path] \in Manifest
        /\ Gated([hand EXCEPT !.source_path = path])
        /\ (Proven(hand) => Proven([hand EXCEPT !.source_path = path]))
    BY <1>0 DEF Manifest, Gated, Proven
  <2>. QED BY <2>1, <2>2, BuildPreserves
<1>4. CASE WithDocUrl
  <2>. DEFINE m == [hand EXCEPT !.doc_url = TRUE]
  <2>1. m \in Manifest /\ Gated(m) /\ (Proven(hand) => Proven(m))
    BY <1>0 DEF Manifest, Gated, Proven
  <2>2. Build(m)
    BY <1>4 DEF WithDocUrl
  <2>. QED BY <2>1, <2>2, BuildPreserves
<1>. QED BY <1>1, <1>2, <1>3, <1>4

LEMMA ProcessPreserves ==
  ASSUME IInv, Process PROVE IInv'
<1>1. hand \in Manifest
  BY DEF IInv, TypeOK
<1>2. steps' \in Seq(BOOLEAN) /\ (Passed(steps') => Proven(hand))
  BY <1>1, PassedIsProven DEF Process
<1>3. TypeOK'
  BY <1>2 DEF IInv, TypeOK, Process
<1>4. HandGated'
  BY <1>2 DEF IInv, GateInv, HandGated, Process, Passed
<1>. QED BY <1>3, <1>4, UniverseStands DEF IInv, GateInv, Process

\* If the last result is a success, it is about the manifest that is marked.
LEMMA MarkPreserves ==
  ASSUME IInv, MarkCvmPassed PROVE IInv'
<1>. DEFINE m == [hand EXCEPT !.cvm_gate_passed = TRUE, !.gated = @ \/ Passed(steps)]
<1>1. hand \in Manifest /\ Gated(hand) /\ (Passed(steps) => Proven(hand))
  BY DEF IInv, TypeOK, GateInv, HandGated
<1>2. Passed(steps) \in BOOLEAN
  BY DEF IInv, TypeOK, Passed
<1>3. /\ m \in Manifest /\ m.cvm_gate_passed
      /\ m.gated = (hand.gated \/ Passed(steps))
      /\ m.tier = hand.tier /\ m.proposed = hand.proposed
      /\ m.lean = hand.lean /\ m.invariants = hand.invariants
      /\ m.doc_url = hand.doc_url /\ m.source_path = hand.source_path
  BY <1>1, <1>2 DEF Manifest
<1>4. Build(m)
  BY DEF MarkCvmPassed
<1>. HIDE DEF m
<1>5. (Proven(hand) => Proven(m)) /\ Gated(m)
  BY <1>1, <1>3 DEF Proven, Gated
<1>. QED BY <1>3, <1>4, <1>5, BuildPreserves

\* promote() looks at the mark, wherever the manifest comes from.
LEMMA PromotePreserves ==
  ASSUME IInv, Promote PROVE IInv'
<1>1. PICK m \in {hand} \cup {artifacts[id] : id \in Stored} :
        /\ m.cvm_gate_passed
        /\ hand' = [m EXCEPT !.tier = 1]
        /\ steps' = <<>>
        /\ UNCHANGED <<artifacts, index, file, calls, adds>>
  BY DEF Promote
<1>2. m \in Manifest /\ Gated(m)
  BY DEF IInv, TypeOK, GateInv, HandGated, StoredGated, Stored
<1>3. hand' \in Manifest /\ Gated(hand')
  BY <1>1, <1>2 DEF Manifest, Gated, Proven, Tiers
<1>4. calls' \in 0 .. MaxCalls
  BY <1>1 DEF IInv, TypeOK
<1>. QED BY <1>1, <1>3, <1>4, HandReplaced

-----------------------------------------------------------------------------
(* Steps on the universe and the file *)

\* Add changes one entry of each index, except that each invariant counts.
LEMMA AddedIndex ==
  ASSUME IInv, AddArtifact
  PROVE  LET id == hand.artifact_id
         IN  /\ index' \in IndexType
             /\ artifacts' = [artifacts EXCEPT ![id] = hand]
             /\ adds' = [adds EXCEPT ![id] = @ + 1]
             /\ \A t \in Tiers, i \in Ids : index'.tier[t][i] =
                  index.tier[t][i] + IF i = id /\ t = hand.tier THEN 1 ELSE 0
             /\ \A l \in Languages, i \in Ids : index'.language[l][i] =
                  index.language[l][i]
                    + IF i = id /\ l = hand.language THEN 1 ELSE 0
             /\ \A v \in InvariantNames, i \in Ids : index'.invariant[v][i] =
                  index.invariant[v][i] + IF i = id THEN Mentions(hand, v) ELSE 0
<1>. DEFINE id == hand.artifact_id
            tier == [index.tier EXCEPT ![hand.tier][id] = @ + 1]
            language == [index.language EXCEPT ![hand.language][id] = @ + 1]
            invariant == [v \in InvariantNames |->
              [index.invariant[v] EXCEPT ![id] = @ + Mentions(hand, v)]]
<1>1. hand \in Manifest /\ index \in IndexType
  BY DEF IInv, TypeOK
<1>2. id \in Ids /\ hand.tier \in Tiers /\ hand.language \in Languages
  BY <1>1 DEF Manifest
<1>3. \A v \in InvariantNames : Mentions(hand, v) \in Nat
  BY <1>1, MentionsCounts
<1>4. index' = [tier |-> tier, language |-> language, invariant |-> invariant]
  BY DEF AddArtifact
<1>5. /\ tier \in [Tiers -> [Ids -> Nat]]
      /\ \A t \in Tiers, i \in Ids : tier[t][i] =
           index.tier[t][i] + IF i = id /\ t = hand.tier THEN 1 ELSE 0
  BY <1>1, <1>2 DEF IndexType
<1>6. /\ language \in [Languages -> [Ids -> Nat]]
      /\ \A l \in Languages, i \in Ids : language[l][i] =
           index.language[l][i] + IF i = id /\ l = hand.language THEN 1 ELSE 0
  BY <1>1, <1>2 DEF IndexType
<1>7. /\ invariant \in [InvariantNames -> [Ids -> Nat]]
      /\ \A v \in InvariantNames, i \in Ids : invariant[v][i] =
           index.invariant[v][i] + IF i = id THEN Mentions(hand, v) ELSE 0
  BY <1>1, <1>2, <1>3 DEF IndexType
<1>8. artifacts' = [artifacts EXCEPT ![id] = hand]
      /\ adds' = [adds EXCEPT ![id] = @ + 1]
  BY DEF AddArtifact
<1>. HIDE DEF tier, language, invariant
<1>. QED BY <1>4, <1>5, <1>6, <1>7, <1>8 DEF IndexType

LEMMA AddArtifactPreserves ==
  ASSUME IInv, AddArtifact PROVE IInv'
<1>. DEFINE id == hand.artifact_id
<1>1. hand \in Manifest /\ id \in Ids /\ hand.tier \in Tiers
      /\ hand.language \in Languages /\ hand # None
      /\ hand.invariants \in Seq(Invariant)
  BY ManifestIsSome DEF IInv, TypeOK, Manifest
<1>2. \A v \in InvariantNames : Mentions(hand, v) \in Nat
  BY <1>1, MentionsCounts
<1>3. \A i \in 1 .. Len(hand.invariants) :
         /\ hand.invariants[i].name \in InvariantNames
         /\ Mentions(hand, hand.invariants[i].name) > 0
  BY <1>1, NamesMentioned
<1>4. /\ artifacts \in [Ids -> Manifest \cup {None}]
      /\ adds \in [Ids -> 0 .. MaxAdds] /\ adds[id] < MaxAdds
      /\ index \in IndexType
  BY <1>1 DEF IInv, TypeOK, AddArtifact
<1>5. /\ index' \in IndexType
      /\ artifacts' = [artifacts EXCEPT ![id] = hand]
      /\ adds' = [adds EXCEPT ![id] = @ + 1]
      /\ \A t \in Tiers, i \in Ids : index'.tier[t][i] =
           index.tier[t][i] + IF i = id /\ t = hand.tier THEN 1 ELSE 0
      /\ \A l \in Languages, i \in Ids : index'.language[l][i] =
           index.language[l][i] + IF i = id /\ l = hand.language THEN 1 ELSE 0
      /\ \A v \in InvariantNames, i \in Ids : index'.invariant[v][i] =
           index.invariant[v][i] + IF i = id THEN Mentions(hand, v) ELSE 0
  BY AddedIndex
<1>6. artifacts' \in [Ids -> Manifest \cup {None}] /\ artifacts'[id] = hand
      /\ \A i \in Ids \ {id} : artifacts'[i] = artifacts[i] /\ adds'[i] = adds[i]
  BY <1>1, <1>4, <1>5
<1>7. adds' \in [Ids -> 0 .. MaxAdds] /\ adds'[id] = adds[id] + 1
  BY <1>1, <1>4, <1>5, UniverseAssumption
<1>. HIDE DEF id
<1>8. TypeOK'
  BY <1>5, <1>6, <1>7 DEF IInv, TypeOK, AddArtifact
<1>9. GateInv'
  <2>1. HandGated' /\ FileGated'
    BY DEF IInv, GateInv, HandGated, FileGated, AddArtifact
  <2>2. StoredGated'
    BY <1>6 DEF IInv, GateInv, HandGated, StoredGated
  <2>. QED BY <2>1, <2>2 DEF GateInv
<1>10. StoredIndexed'
  <2>. SUFFICES ASSUME NEW i \in Ids, artifacts'[i] # None PROVE Indexed(i)'
    BY DEF StoredIndexed, Stored
  <2>1. CASE i = id
    BY <1>1, <1>2, <1>3, <1>4, <1>5, <1>6, <2>1 DEF Indexed, IndexType
  <2>2. CASE i # id
    <3>1. artifacts'[i] = artifacts[i] /\ artifacts[i] \in Manifest
      BY <1>4, <1>6, <2>2
    <3>2. Indexed(i)
      BY <3>1 DEF IInv, IndexInv, StoredIndexed, Stored
    <3>3. /\ artifacts[i].tier \in Tiers /\ artifacts[i].language \in Languages
          /\ artifacts[i].invariants \in Seq(Invariant)
      BY <3>1 DEF Manifest
    <3>4. \A j \in 1 .. Len(artifacts[i].invariants) :
             artifacts[i].invariants[j].name \in InvariantNames
      BY <3>1, NamesMentioned
    <3>. QED BY <1>4, <1>5, <2>2, <3>1, <3>2, <3>3, <3>4 DEF Indexed, IndexType
  <2>. QED BY <2>1, <2>2
<1>11. AllListed'
  <2>. SUFFICES ASSUME NEW i \in Ids PROVE Listed(i)'
    BY DEF AllListed
  <2>0. Listed(i)
    BY DEF IInv, IndexInv, AllListed
  <2>1. CASE i = id
    <3>1. adds'[i] # 0 /\ (adds'[i] = 1 => adds[i] = 0) /\ artifacts'[i] = hand
      BY <1>1, <1>4, <1>6, <1>7, <2>1
    <3>2. ASSUME adds'[i] = 1
          PROVE  /\ \A t \in Tiers : index'.tier[t][i] = IF t = hand.tier THEN 1 ELSE 0
                 /\ \A l \in Languages :
                      index'.language[l][i] = IF l = hand.language THEN 1 ELSE 0
                 /\ \A v \in InvariantNames :
                      index'.invariant[v][i] = Mentions(hand, v)
      BY <1>2, <1>5, <2>0, <2>1, <3>1, <3>2 DEF Listed
    <3>. QED BY <1>1, <3>1, <3>2 DEF Listed
  <2>2. CASE i # id
    <3>1. artifacts'[i] = artifacts[i] /\ adds'[i] = adds[i]
      BY <1>6, <2>2
    <3>2. /\ \A t \in Tiers : index'.tier[t][i] = index.tier[t][i]
          /\ \A l \in Languages : index'.language[l][i] = index.language[l][i]
          /\ \A v \in InvariantNames : index'.invariant[v][i] = index.invariant[v][i]
      BY <1>4, <1>5, <2>2 DEF IndexType
    <3>. QED BY <2>0, <3>1, <3>2 DEF Listed
  <2>. QED BY <2>1, <2>2
<1>. QED BY <1>8, <1>9, <1>10, <1>11 DEF IInv, IndexInv

LEMMA SavesPreserve ==
  ASSUME IInv, SaveToFile \/ SaveFails PROVE IInv'
<1>1. TypeOK'
  <2>1. NoArtifacts \in [Ids -> Manifest \cup {None}]
    BY DEF NoArtifacts
  <2>2. PICK w \in BOOLEAN, f \in [Ids -> Manifest \cup {None}] :
          file' = [whole |-> w, artifacts |-> f]
    BY <2>1 DEF IInv, TypeOK, SaveToFile, SaveFails
  <2>3. file' \in [whole : BOOLEAN, artifacts : [Ids -> Manifest \cup {None}]]
    BY <2>2
  <2>. QED BY <2>3 DEF IInv, TypeOK, SaveToFile, SaveFails
<1>2. GateInv'
  BY DEF IInv, GateInv, HandGated, StoredGated, FileGated, SaveToFile,
         SaveFails, NoArtifacts
<1>3. IndexInv'
  BY DEF IInv, IndexInv, StoredIndexed, Indexed, Stored, AllListed, Listed,
         SaveToFile, SaveFails
<1>. QED BY <1>1, <1>2, <1>3 DEF IInv

\* A rebuilt index lists exactly the artifacts it was built from.
LEMMA RebuiltIndex ==
  ASSUME NEW f \in [Ids -> Manifest \cup {None}]
  PROVE  /\ Rebuilt(f) \in IndexType
         /\ \A t \in Tiers, i \in Ids : Rebuilt(f).tier[t][i] =
              IF f[i] # None /\ f[i].tier = t THEN 1 ELSE 0
         /\ \A l \in Languages, i \in Ids : Rebuilt(f).language[l][i] =
              IF f[i] # None /\ f[i].language = l THEN 1 ELSE 0
         /\ \A v \in InvariantNames, i \in Ids : Rebuilt(f).invariant[v][i] =
              IF f[i] # None THEN Mentions(f[i], v) ELSE 0
<1>1. \A v \in InvariantNames, i \in Ids :
         (IF f[i] # None THEN Mentions(f[i], v) ELSE 0) \in Nat
  BY MentionsCounts
<1>. QED BY <1>1 DEF Rebuilt, IndexType

LEMMA LoadFromFilePreserves ==
  ASSUME IInv, LoadFromFile PROVE IInv'
<1>. DEFINE f == file.artifacts
<1>1. f \in [Ids -> Manifest \cup {None}] /\ artifacts' = f
      /\ index' = Rebuilt(f)
      /\ adds' = [id \in Ids |-> IF f[id] # None THEN 1 ELSE 0]
  BY DEF IInv, TypeOK, LoadFromFile
<1>2. TypeOK'
  <2>1. index' \in IndexType
    BY <1>1, RebuiltIndex
  <2>2. adds' \in [Ids -> 0 .. MaxAdds]
    BY <1>1, UniverseAssumption
  <2>. QED BY <1>1, <2>1, <2>2 DEF IInv, TypeOK, LoadFromFile
<1>3. GateInv'
  BY DEF IInv, GateInv, HandGated, StoredGated, FileGated, LoadFromFile
<1>4. StoredIndexed'
  <2>. SUFFICES ASSUME NEW i \in Ids, f[i] # None PROVE Indexed(i)'
    BY <1>1 DEF StoredIndexed, Stored
  <2>1. f[i] \in Manifest /\ artifacts'[i] = f[i]
    BY <1>1
  <2>2. /\ f[i].tier \in Tiers /\ f[i].language \in Languages
        /\ f[i].invariants \in Seq(Invariant)
    BY <2>1 DEF Manifest
  <2>3. \A j \in 1 .. Len(f[i].invariants) :
           /\ f[i].invariants[j].name \in InvariantNames
           /\ Mentions(f[i], f[i].invariants[j].name) > 0
    BY <2>1, NamesMentioned
  <2>. HIDE DEF f
  <2>. QED BY <1>1, <2>1, <2>2, <2>3, RebuiltIndex DEF Indexed
<1>5. AllListed'
  <2>. SUFFICES ASSUME NEW i \in Ids PROVE Listed(i)'
    BY DEF AllListed
  <2>. HIDE DEF f
  <2>. QED BY <1>1, RebuiltIndex DEF Listed
<1>. QED BY <1>2, <1>3, <1>4, <1>5 DEF IInv, IndexInv

\* An empty universe.
LEMMA EmptyUniverse ==
  /\ EmptyIndex \in IndexType
  /\ \A i \in Ids : /\ \A t \in Tiers : EmptyIndex.tier[t][i] = 0
                    /\ \A l \in Languages : EmptyIndex.language[l][i] = 0
                    /\ \A v \in InvariantNames : EmptyIndex.invariant[v][i] = 0
BY DEF EmptyIndex, IndexType

\* A start of the process, the first or a later one, with a file.
LEMMA Started ==
  ASSUME hand' \in NewManifests, steps' = <<>>, artifacts' = NoArtifacts,
         index' = EmptyIndex, adds' = [id \in Ids |-> 0],
         calls' \in 0 .. MaxCalls,
         file' \in [whole : BOOLEAN, artifacts : [Ids -> Manifest \cup {None}]],
         FileGated'
  PROVE  IInv'
<1>1. hand' \in Manifest /\ Gated(hand')
  BY NewIsGated
<1>2. TypeOK'
  BY <1>1, EmptyUniverse, EmptySeq, UniverseAssumption DEF TypeOK, NoArtifacts
<1>3. GateInv'
  BY <1>1 DEF GateInv, HandGated, StoredGated, Passed, NoArtifacts
<1>4. IndexInv'
  BY EmptyUniverse DEF IndexInv, StoredIndexed, Stored, AllListed, Listed, NoArtifacts
<1>. QED BY <1>2, <1>3, <1>4 DEF IInv

LEMMA RestartPreserves ==
  ASSUME IInv, Restart PROVE IInv'
<1>1. calls' \in 0 .. MaxCalls
  BY UniverseAssumption DEF IInv, TypeOK, Restart
<1>2. FileGated' /\ file' = file
  BY DEF IInv, GateInv, FileGated, Restart
<1>. QED BY <1>1, <1>2, Started DEF IInv, TypeOK, Restart

-----------------------------------------------------------------------------
(* The theorems *)

LEMMA InitIInv == Init => IInv
<1>. SUFFICES ASSUME Init PROVE IInv
  OBVIOUS
<1>1. hand \in Manifest /\ Gated(hand)
  BY NewIsGated DEF Init
<1>2. TypeOK
  BY <1>1, EmptyUniverse, EmptySeq, UniverseAssumption DEF Init, TypeOK, NoArtifacts
<1>3. GateInv
  BY <1>1 DEF Init, GateInv, HandGated, StoredGated, FileGated, Passed, NoArtifacts
<1>4. IndexInv
  BY EmptyUniverse
  DEF Init, IndexInv, StoredIndexed, Stored, AllListed, Listed, NoArtifacts
<1>. QED BY <1>2, <1>3, <1>4 DEF IInv

LEMMA NextPreserves == IInv /\ [Next]_vars => IInv'
<1>. SUFFICES ASSUME IInv, [Next]_vars PROVE IInv'
  OBVIOUS
<1>1. CASE NewManifest
  BY <1>1, NewManifestPreserves
<1>2. CASE AddInvariant \/ AddProof \/ WithSourcePath \/ WithDocUrl
  BY <1>2, BuildersPreserve
<1>3. CASE Process
  BY <1>3, ProcessPreserves
<1>4. CASE MarkCvmPassed
  BY <1>4, MarkPreserves
<1>5. CASE Promote
  BY <1>5, PromotePreserves
<1>6. CASE AddArtifact
  BY <1>6, AddArtifactPreserves
<1>7. CASE SaveToFile \/ SaveFails
  BY <1>7, SavesPreserve
<1>8. CASE LoadFromFile
  BY <1>8, LoadFromFilePreserves
<1>9. CASE Restart
  BY <1>9, RestartPreserves
<1>10. CASE UNCHANGED vars
  <2>1. TypeOK'
    BY <1>10 DEF IInv, TypeOK, vars
  <2>2. HandGated'
    BY <1>10 DEF IInv, GateInv, HandGated, vars
  <2>. QED BY <1>10, <2>1, <2>2, UniverseStands DEF IInv, GateInv, vars
<1>. QED BY <1>1, <1>2, <1>3, <1>4, <1>5, <1>6, <1>7, <1>8, <1>9, <1>10 DEF Next

LEMMA Invariance == Spec => []IInv
BY InitIInv, NextPreserves, PTL DEF Spec

\* Manifests, gate results, universe and file have their types.
THEOREM UniverseTypeCorrect == Spec => []TypeOK
<1>1. IInv => TypeOK
  BY DEF IInv
<1>. QED BY <1>1, Invariance, PTL

\* A stored artifact is found by its tier, its language and its invariants
\* (the query functions of search_substrate.rs), however often it was added in
\* however many forms, and after any load or restart.
THEOREM IndexFindsCorrect == Spec => []IndexFindsAll
<1>1. IInv => IndexFindsAll
  <2>. SUFFICES ASSUME IInv, NEW id \in Stored
                PROVE  LET m == artifacts[id]
                       IN  /\ m \in QueryByTier(m.tier)
                           /\ m \in QueryByLanguage(m.language)
                           /\ \A i \in 1 .. Len(m.invariants) :
                                 m \in QueryByInvariant(m.invariants[i].name)
    BY DEF IndexFindsAll
  <2>1. Indexed(id)
    BY DEF IInv, IndexInv, StoredIndexed
  <2>. QED BY <2>1 DEF Indexed, QueryByTier, QueryByLanguage, QueryByInvariant
<1>. QED BY <1>1, Invariance, PTL

\* What was added once is listed exactly as it is: only adding an id again
\* leaves stale and double entries behind (add_artifact, statistics).
THEOREM AddedOnceCorrect == Spec => []AddedOnceIsExact
<1>1. IInv => AddedOnceIsExact
  BY DEF IInv, IndexInv, AllListed, Listed, AddedOnceIsExact
<1>. QED BY <1>1, Invariance, PTL

\* No manifest leaves the proposed tier without a mark, and one that was marked
\* after the gate's success keeps the Lean proof, the documentation and the
\* proved first invariant that the gate saw, whatever is done to it later
\* (process, mark_cvm_passed, promote).
THEOREM PromotionCorrect == Spec => []GatedMeansProven
<1>1. IInv => GatedMeansProven
  <2>. SUFFICES ASSUME IInv, NEW m \in Held
                PROVE  /\ m.proposed /\ m.tier # 2 => m.cvm_gate_passed
                       /\ m.gated => m.cvm_gate_passed /\ Proven(m)
    BY DEF GatedMeansProven, Proven
  <2>1. Gated(m)
    BY DEF IInv, GateInv, HandGated, StoredGated, FileGated, Held, Stored
  <2>. QED BY <2>1 DEF Gated
<1>. QED BY <1>1, Invariance, PTL
=============================================================================
