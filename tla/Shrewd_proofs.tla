---------------------------- MODULE Shrewd_proofs ----------------------------
(***************************************************************************)
(* The command the Shrewd unit publishes, for every size of its window and *)
(* every length of the feed: what prepare_features, the counting and       *)
(* to_governance_command make of the ticks, stated about the ticks.        *)
(***************************************************************************)
EXTENDS Shrewd, FiniteSetTheorems, SequenceTheorems, TLAPS

IInv == TypeOK /\ CommandFitsWindow

-----------------------------------------------------------------------------
(* Counting *)

\* Shifting a set of integers does not change how many there are.
LEMMA ShiftCardinality ==
  ASSUME NEW S \in SUBSET Int, IsFiniteSet(S), NEW d \in Int
  PROVE  /\ IsFiniteSet({i + d : i \in S})
         /\ Cardinality({i + d : i \in S}) = Cardinality(S)
<1>. DEFINE T == {i + d : i \in S}
            f == [i \in S |-> i + d]
<1>1. f \in Bijection(S, T)
  <2>1. f \in [S -> T] /\ \A i, j \in S : f[i] = f[j] => i = j
    OBVIOUS
  <2>2. \A t \in T : \E i \in S : f[i] = t
    OBVIOUS
  <2>. QED BY <2>1, <2>2 DEF Bijection, Injection, Surjection, IsInjective
<1>. HIDE DEF f, T
<1>2. ExistsBijection(S, T)
  BY <1>1 DEF ExistsBijection
<1>3. IsFiniteSet(T) /\ Cardinality(T) = Cardinality(S)
  BY <1>2, FS_Bijection
<1>. QED BY <1>3 DEF T

\* The places of a window that were filled with zeros, and those that hold a
\* tick with verdict v.
Padded(w) == {i \in 1 .. WindowSize : i + Len(w) <= WindowSize}
Held(w, v) == {i \in 1 .. WindowSize :
                 i + Len(w) > WindowSize /\ w[i + Len(w) - WindowSize] = v}

\* The last WindowSize ticks are as many as the places that were not filled.
LEMMA PaddedAreMissing ==
  ASSUME window \in Seq(Verdicts)
  PROVE  /\ IsFiniteSet(Recent(Len(window))) /\ IsFiniteSet(Padded(window))
         /\ Cardinality(Padded(window))
              = WindowSize - Cardinality(Recent(Len(window)))
         /\ Cardinality(Padded(window)) \in Nat
<1>. DEFINE n == Len(window)
            W == WindowSize
<1>1. n \in Nat /\ W \in Nat /\ W > 0
  BY LenProperties, ShrewdAssumption
<1>. HIDE DEF n, W
<1>2. CASE n <= W
  <2>1. Recent(n) = 1 .. n
    BY <1>1, <1>2 DEF Recent, W
  <2>2. Padded(window) = 1 .. W - n
    BY <1>1, <1>2 DEF Padded, W, n
  <2>3. /\ IsFiniteSet(1 .. n) /\ Cardinality(1 .. n) = n
        /\ IsFiniteSet(1 .. W - n) /\ Cardinality(1 .. W - n) = W - n
    <3>1. W - n \in Nat /\ W - n = (W - n) - 1 + 1 /\ n = n - 1 + 1
      BY <1>1, <1>2
    <3>2. \A k \in Nat : IsFiniteSet(1 .. k) /\ Cardinality(1 .. k) = k
      <4>. TAKE k \in Nat
      <4>1. IsFiniteSet(1 .. k) /\ Cardinality(1 .. k) = IF 1 > k THEN 0 ELSE k - 1 + 1
        BY FS_Interval
      <4>. QED BY <4>1
    <3>. QED BY <1>1, <3>1, <3>2
  <2>4. W - (W - n) = n /\ W - n \in Nat
    BY <1>1, <1>2
  <2>. QED BY <2>1, <2>2, <2>3, <2>4 DEF W, n
<1>3. CASE n > W
  <2>1. Recent(n) = n - W + 1 .. n
    BY <1>1, <1>3 DEF Recent, W
  <2>2. Padded(window) = {}
    BY <1>1, <1>3 DEF Padded, W, n
  <2>3. IsFiniteSet(n - W + 1 .. n) /\ Cardinality(n - W + 1 .. n) = W
    <3>1. n - W + 1 \in Int /\ ~(n - W + 1 > n) /\ n - (n - W + 1) + 1 = W
      BY <1>1, <1>3
    <3>2. /\ IsFiniteSet(n - W + 1 .. n)
          /\ Cardinality(n - W + 1 .. n)
               = IF n - W + 1 > n THEN 0 ELSE n - (n - W + 1) + 1
      BY <1>1, <3>1, FS_Interval
    <3>. QED BY <3>1, <3>2
  <2>4. IsFiniteSet({}) /\ Cardinality({}) = 0 /\ W - W = 0
    BY <1>1, FS_EmptySet
  <2>. QED BY <2>1, <2>2, <2>3, <2>4 DEF W, n
<1>. QED BY <1>1, <1>2, <1>3

\* Ticks keep their number on their way into the features.
LEMMA HeldAreRecent ==
  ASSUME window \in Seq(Verdicts), NEW v \in Verdicts
  PROVE  /\ IsFiniteSet(Held(window, v))
         /\ Cardinality(Held(window, v)) = Number(Len(window), v)
         /\ Number(Len(window), v) \in Nat
<1>. DEFINE n == Len(window)
            W == WindowSize
            R == {i \in Recent(n) : window[i] = v}
            H == Held(window, v)
<1>1. n \in Nat /\ W \in Nat /\ W - n \in Int
  BY LenProperties, ShrewdAssumption
<1>2. R \subseteq Recent(n) /\ IsFiniteSet(Recent(n)) /\ Recent(n) \subseteq Int
  BY <1>1, PaddedAreMissing DEF Recent
<1>3. R \in SUBSET Int /\ IsFiniteSet(R) /\ Cardinality(R) \in Nat
  <2>. HIDE DEF R
  <2>. QED BY <1>2, FS_Subset, FS_CardinalityType
<1>4. H = {i + (W - n) : i \in R}
  <2>1. ASSUME NEW i \in H PROVE i \in {j + (W - n) : j \in R}
    <3>1. i \in 1 .. W /\ i + n > W /\ window[i + n - W] = v
      BY <2>1 DEF Held
    <3>2. /\ i + n - W \in 1 .. n /\ (i + n - W) + W > n
          /\ (i + n - W) + (W - n) = i
      BY <1>1, <3>1
    <3>3. i + n - W \in R
      BY <3>1, <3>2 DEF Recent
    <3>. HIDE DEF R
    <3>. QED BY <3>2, <3>3
  <2>2. ASSUME NEW j \in R PROVE j + (W - n) \in H
    <3>1. j \in 1 .. n /\ j + W > n /\ window[j] = v
      BY <2>2 DEF Recent
    <3>2. /\ j + (W - n) \in 1 .. W /\ (j + (W - n)) + n > W
          /\ (j + (W - n)) + n - W = j
      BY <1>1, <3>1
    <3>. QED BY <3>1, <3>2 DEF Held
  <2>. HIDE DEF R, H
  <2>. QED BY <2>1, <2>2
<1>. HIDE DEF R, H
<1>5. IsFiniteSet(H) /\ Cardinality(H) = Cardinality(R)
  BY <1>1, <1>3, <1>4, ShiftCardinality
<1>. QED BY <1>3, <1>5 DEF R, H, Number

\* The counts of the features: a padded place counts as proven.
LEMMA CountsOfWindow ==
  ASSUME window \in Seq(Verdicts), NEW counts,
         counts = Counts(PrepareFeatures(window))
  PROVE  /\ counts[Proven] = Number(Len(window), Proven) + Cardinality(Padded(window))
         /\ \A v \in {1, 2, Noise} : counts[v] = Number(Len(window), v)
         /\ counts \in [Verdicts -> Nat]
         /\ \A v \in {1, 2, Noise} : counts[Proven] + counts[v] <= WindowSize
<1>. DEFINE n == Len(window)
            W == WindowSize
            f == PrepareFeatures(window)
            Have(v) == {i \in 1 .. W : f[i] = v}
<1>1. n \in Nat /\ W \in Nat /\ {Proven, 1, 2, Noise} = Verdicts
  BY LenProperties, ShrewdAssumption DEF Verdicts, Proven, Noise
<1>2. \A v \in Verdicts : counts[v] = Cardinality(Have(v))
  BY DEF Counts, PrepareFeatures
<1>3. ASSUME NEW v \in {1, 2, Noise} PROVE Have(v) = Held(window, v)
  <2>1. v # 0
    BY DEF Noise
  <2>2. \A i \in 1 .. W : f[i] = IF i + n <= W THEN 0 ELSE window[i + n - W]
    BY DEF PrepareFeatures
  <2>. HIDE DEF f
  <2>. QED BY <1>1, <2>1, <2>2 DEF Held
<1>4. Have(Proven) = Held(window, Proven) \cup Padded(window)
  BY <1>1 DEF PrepareFeatures, Held, Padded, Proven
<1>5. IsFiniteSet(1 .. W) /\ Cardinality(1 .. W) = W
  <2>1. IsFiniteSet(1 .. W) /\ Cardinality(1 .. W) = IF 1 > W THEN 0 ELSE W - 1 + 1
    BY <1>1, FS_Interval
  <2>. QED BY <1>1, <2>1
<1>6. \A v : Have(v) \in SUBSET (1 .. W)
  OBVIOUS
<1>7. \A u, v : u # v => Have(u) \cap Have(v) = {}
  OBVIOUS
<1>. HIDE DEF Have, f
<1>8. \A v : IsFiniteSet(Have(v)) /\ Cardinality(Have(v)) \in Nat
  BY <1>5, <1>6, FS_Subset, FS_CardinalityType
<1>9. \A v \in {1, 2, Noise} : counts[v] = Number(n, v)
  <2>1. \A v \in {1, 2, Noise} : v \in Verdicts
    BY <1>1
  <2>2. \A v \in {1, 2, Noise} : Cardinality(Held(window, v)) = Number(n, v)
    BY <2>1, HeldAreRecent
  <2>. QED BY <1>2, <1>3, <2>1, <2>2
<1>10. counts[Proven] = Number(n, Proven) + Cardinality(Padded(window))
  <2>1. Held(window, Proven) \cap Padded(window) = {}
    BY <1>1 DEF Held, Padded
  <2>2. /\ IsFiniteSet(Held(window, Proven)) /\ IsFiniteSet(Padded(window))
        /\ Cardinality(Held(window, Proven)) = Number(n, Proven)
        /\ Cardinality(Held(window, Proven)) \in Nat
        /\ Cardinality(Padded(window)) \in Nat
    BY <1>1, HeldAreRecent, PaddedAreMissing
  <2>3. Cardinality(Held(window, Proven) \cup Padded(window))
          = Cardinality(Held(window, Proven)) + Cardinality(Padded(window))
              - Cardinality(Held(window, Proven) \cap Padded(window))
    BY <2>2, FS_Union
  <2>4. Cardinality(Held(window, Proven) \cap Padded(window)) = 0
    BY <2>1, FS_EmptySet
  <2>5. counts[Proven] = Cardinality(Held(window, Proven) \cup Padded(window))
    BY <1>1, <1>2, <1>4
  <2>. QED BY <2>2, <2>3, <2>4, <2>5
<1>11. counts \in [Verdicts -> Nat]
  <2>1. counts = [v \in Verdicts |-> counts[v]]
    BY DEF Counts
  <2>2. \A v \in Verdicts : counts[v] \in Nat
    BY <1>2, <1>8
  <2>. QED BY <2>1, <2>2
<1>12. ASSUME NEW v \in {1, 2, Noise} PROVE counts[Proven] + counts[v] <= W
  <2>1. v \in Verdicts /\ Proven \in Verdicts /\ v # Proven
    BY <1>1 DEF Proven, Noise
  <2>2. Cardinality(Have(Proven) \cup Have(v))
          = Cardinality(Have(Proven)) + Cardinality(Have(v))
              - Cardinality(Have(Proven) \cap Have(v))
    BY <1>8, FS_Union
  <2>3. Cardinality(Have(Proven) \cap Have(v)) = 0
    BY <1>7, <2>1, FS_EmptySet
  <2>4. Cardinality(Have(Proven) \cup Have(v)) <= W
    <3>1. Have(Proven) \cup Have(v) \in SUBSET (1 .. W)
      BY <1>6
    <3>. QED BY <1>5, <3>1, FS_Subset
  <2>5. Cardinality(Have(Proven)) \in Nat /\ Cardinality(Have(v)) \in Nat
    BY <1>8
  <2>. QED BY <1>1, <1>2, <2>1, <2>2, <2>3, <2>4, <2>5
<1>. QED BY <1>9, <1>10, <1>11, <1>12

-----------------------------------------------------------------------------
(* The verdict and its command *)

\* The last of the most frequent verdicts.
LEMMA BestIdxProperties ==
  ASSUME NEW counts \in [Verdicts -> Nat], NEW best, best = BestIdx(counts)
  PROVE  /\ best \in Verdicts
         /\ \A u \in Verdicts : counts[u] <= counts[best]
         /\ \A u \in best + 1 .. 3 : counts[u] < counts[best]
<1>. DEFINE Best(v) == /\ \A u \in Verdicts : counts[u] <= counts[v]
                       /\ \A u \in v + 1 .. 3 : counts[u] < counts[v]
<1>1. \E v \in Verdicts : Best(v)
  <2>1. \A u : u \in Verdicts <=> u \in {0, 1, 2, 3}
    BY DEF Verdicts
  <2>2. counts[0] \in Nat /\ counts[1] \in Nat /\ counts[2] \in Nat /\ counts[3] \in Nat
    BY <2>1
  <2>3. CASE counts[3] >= counts[0] /\ counts[3] >= counts[1] /\ counts[3] >= counts[2]
    <3>1. Best(3)
      BY <2>1, <2>2, <2>3
    <3>. QED BY <2>1, <3>1
  <2>4. CASE counts[2] >= counts[0] /\ counts[2] >= counts[1] /\ counts[2] > counts[3]
    <3>1. Best(2)
      BY <2>1, <2>2, <2>4
    <3>. QED BY <2>1, <3>1
  <2>5. CASE counts[1] >= counts[0] /\ counts[1] > counts[2] /\ counts[1] > counts[3]
    <3>1. Best(1)
      BY <2>1, <2>2, <2>5
    <3>. QED BY <2>1, <3>1
  <2>6. CASE counts[0] > counts[1] /\ counts[0] > counts[2] /\ counts[0] > counts[3]
    <3>1. Best(0)
      BY <2>1, <2>2, <2>6
    <3>. QED BY <2>1, <3>1
  <2>. QED BY <2>2, <2>3, <2>4, <2>5, <2>6
<1>2. best = CHOOSE v \in Verdicts : Best(v)
  BY DEF BestIdx
<1>. HIDE DEF Best
<1>3. best \in Verdicts /\ Best(best)
  BY <1>1, <1>2
<1>. QED BY <1>3 DEF Best

\* More than four fifths leave no room for a more frequent verdict, and noise
\* wins against its equals.
LEMMA CommandOfCounts ==
  ASSUME NEW counts \in [Verdicts -> Nat], NEW best, best = BestIdx(counts),
         \A v \in {1, 2, Noise} : counts[Proven] + counts[v] <= WindowSize,
         NEW command, command = ToGovernanceCommand(best, counts[best])
  PROVE  /\ command \in Commands
         /\ command = "LOWER_SHREWD_THRESHOLD" <=> 5 * counts[Proven] > 4 * WindowSize
         /\ command = "RAISE_ZERO_TRUST" <=>
              \A v \in {Proven, 1, 2} : counts[Noise] >= counts[v]
<1>1. /\ best \in {0, 1, 2, 3}
      /\ \A u \in {0, 1, 2, 3} : counts[u] <= counts[best] /\ counts[u] \in Nat
      /\ \A u \in best + 1 .. 3 : counts[u] < counts[best]
  BY BestIdxProperties DEF Verdicts
<1>2. WindowSize \in Nat /\ WindowSize > 0
  BY ShrewdAssumption
<1>3. command \in Commands
  BY DEF ToGovernanceCommand, Commands
<1>4. command = "LOWER_SHREWD_THRESHOLD" <=> best = 0 /\ 5 * counts[0] > 4 * WindowSize
  BY <1>1 DEF ToGovernanceCommand, Proven, Noise
<1>5. command = "RAISE_ZERO_TRUST" <=> best = 3
  BY <1>1 DEF ToGovernanceCommand, Proven, Noise
<1>6. ASSUME 5 * counts[0] > 4 * WindowSize PROVE best = 0
  <2>. SUFFICES ASSUME best # 0 PROVE FALSE
    OBVIOUS
  <2>1. counts[0] + counts[best] <= WindowSize /\ counts[0] <= counts[best]
    BY <1>1 DEF Proven, Noise
  <2>2. counts[0] \in Nat /\ counts[best] \in Nat
    BY <1>1
  <2>. QED BY <1>2, <1>6, <2>1, <2>2
<1>7. ASSUME \A v \in {0, 1, 2} : counts[3] >= counts[v] PROVE best = 3
  <2>. SUFFICES ASSUME best # 3 PROVE FALSE
    OBVIOUS
  <2>1. best \in {0, 1, 2} /\ 3 \in best + 1 .. 3
    BY <1>1
  <2>2. counts[3] < counts[best] /\ counts[3] >= counts[best]
    BY <1>1, <1>7, <2>1
  <2>3. counts[3] \in Nat /\ counts[best] \in Nat
    BY <1>1
  <2>. QED BY <2>2, <2>3
<1>8. best = 3 => \A v \in {0, 1, 2} : counts[3] >= counts[v]
  BY <1>1
<1>. QED BY <1>3, <1>4, <1>5, <1>6, <1>7, <1>8 DEF Proven, Noise

-----------------------------------------------------------------------------
(* The steps *)

LEMMA InitIInv == Init => IInv
<1>. SUFFICES ASSUME Init PROVE IInv
  OBVIOUS
<1>1. TypeOK
  BY DEF Init, TypeOK
<1>2. CommandFitsWindow
  BY DEF Init, CommandFitsWindow
<1>. QED BY <1>1, <1>2 DEF IInv

\* A tick more leaves the ticks the command was about where they are.
LEMMA FeedPreserves ==
  ASSUME IInv, NEW v \in Verdicts, Feed(v) PROVE IInv'
<1>0. TypeOK /\ CommandFitsWindow
  BY DEF IInv
<1>1. /\ window' = Append(window, v) /\ UNCHANGED published
      /\ window \in Seq(Verdicts)
  BY <1>0 DEF Feed, TypeOK
<1>2. /\ window' \in Seq(Verdicts) /\ Len(window) \in Nat
      /\ Len(window') = Len(window) + 1
      /\ \A i \in 1 .. Len(window) : window'[i] = window[i]
  BY <1>1, AppendProperties, LenProperties
<1>3. MinTicks \in Nat
  BY ShrewdAssumption
<1>4. TypeOK'
  <2>1. MinTicks .. Len(window) \subseteq MinTicks .. Len(window')
    BY <1>2, <1>3
  <2>2. published \in [command : Commands, seen : MinTicks .. Len(window')]
                      \cup {[command |-> "none", seen |-> 0]}
    BY <1>0, <2>1 DEF TypeOK
  <2>. QED BY <1>1, <1>2, <2>2 DEF TypeOK
<1>5. published.seen \in 0 .. Len(window)
  BY <1>0, <1>2, <1>3 DEF TypeOK
<1>. DEFINE n == published.seen
<1>6. ASSUME NEW u PROVE Number(n, u)' = Number(n, u)
  <2>1. {i \in Recent(n) : window'[i] = u} = {i \in Recent(n) : window[i] = u}
    BY <1>2, <1>5 DEF Recent
  <2>. QED BY <1>1, <2>1 DEF Number, Recent
<1>7. CommandFitsWindow'
  BY <1>0, <1>1, <1>6 DEF CommandFitsWindow, Recent
<1>. QED BY <1>4, <1>7 DEF IInv

LEMMA TickPreserves ==
  ASSUME IInv, Tick PROVE IInv'
<1>0. TypeOK /\ UNCHANGED window /\ Len(window) >= MinTicks
  BY DEF IInv, Tick
<1>1. PICK counts, best, command :
        /\ counts = Counts(PrepareFeatures(window))
        /\ best = BestIdx(counts)
        /\ command = ToGovernanceCommand(best, counts[best])
  OBVIOUS
<1>2. published' = [command |-> command, seen |-> Len(window)]
  BY <1>1 DEF Tick
<1>3. window \in Seq(Verdicts) /\ Len(window) \in Nat
  BY <1>0, LenProperties DEF TypeOK
<1>. DEFINE n == Len(window)
            missing == WindowSize - Cardinality(Recent(n))
<1>4. /\ counts[Proven] = Number(n, Proven) + missing
      /\ \A v \in {1, 2, Noise} : counts[v] = Number(n, v)
      /\ counts \in [Verdicts -> Nat]
      /\ \A v \in {1, 2, Noise} : counts[Proven] + counts[v] <= WindowSize
  BY <1>1, <1>3, CountsOfWindow, PaddedAreMissing
<1>5. /\ command \in Commands
      /\ command = "LOWER_SHREWD_THRESHOLD" <=> 5 * counts[Proven] > 4 * WindowSize
      /\ command = "RAISE_ZERO_TRUST" <=>
           \A v \in {Proven, 1, 2} : counts[Noise] >= counts[v]
  BY <1>1, <1>4, CommandOfCounts
<1>6. TypeOK'
  <2>1. n \in MinTicks .. Len(window')
    BY <1>0, <1>3, ShrewdAssumption
  <2>. QED BY <1>0, <1>2, <1>3, <1>5, <2>1 DEF TypeOK
<1>7. CommandFitsWindow'
  <2>1. \A m, u : Number(m, u)' = Number(m, u) /\ Recent(m)' = Recent(m)
    BY <1>0 DEF Number, Recent
  <2>2. published'.seen = n /\ published'.command = command
    BY <1>2
  <2>. HIDE DEF n
  <2>. QED BY <1>4, <1>5, <2>1, <2>2 DEF CommandFitsWindow
<1>. QED BY <1>6, <1>7 DEF IInv

LEMMA NextIInv == IInv /\ [Next]_vars => IInv'
<1>. SUFFICES ASSUME IInv, [Next]_vars PROVE IInv'
  OBVIOUS
<1>1. CASE Tick
  BY <1>1, TickPreserves
<1>2. ASSUME NEW v \in Verdicts, Feed(v) PROVE IInv'
  BY <1>2, FeedPreserves
<1>3. CASE UNCHANGED vars
  BY <1>3 DEF vars, IInv, TypeOK, CommandFitsWindow, Number, Recent
<1>. QED BY <1>1, <1>2, <1>3 DEF Next

LEMMA Invariance == FairSpec => []IInv
<1>. QED BY InitIInv, NextIInv, PTL DEF FairSpec

-----------------------------------------------------------------------------
(* The theorems *)

\* What is published is always one of the three commands, about as many ticks
\* as run_shrewd_rtx waits for.
THEOREM UnitTypeCorrect == FairSpec => []TypeOK
<1>1. IInv => TypeOK
  BY DEF IInv
<1>. QED BY <1>1, Invariance, PTL

\* The command fits the last WindowSize ticks there were when it was published,
\* with the padding of prepare_features counted as proven and ties of max_by
\* going to the higher verdict.
THEOREM CommandCorrect == FairSpec => []CommandFitsWindow
<1>1. IInv => CommandFitsWindow
  BY DEF IInv
<1>. QED BY <1>1, Invariance, PTL
=============================================================================
