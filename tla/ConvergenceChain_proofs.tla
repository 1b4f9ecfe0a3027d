----------------------- MODULE ConvergenceChain_proofs -----------------------
(***************************************************************************)
(* The convergence chain, for every set of runs, problems, times and       *)
(* deltas, every layout of the payload and every length of log and chain.  *)
(***************************************************************************)
EXTENDS ConvergenceChain, FiniteSetTheorems, SequenceTheorems,
        WellFoundedInduction, TLAPS

Active(p) == pc[p] # "ended"

\* How many of its entries a run has dealt with.
Done(p) == IF pc[p] = "counted" THEN at[p] - 1 ELSE at[p]

\* What a run has in memory, by where it is.
Places ==
  \A p \in Procs :
    /\ pc[p] \in {"ended", "started", "read"} => at[p] = 0
    /\ pc[p] \in {"started", "read"} => entries[p] = <<>>
    /\ pc[p] \in {"ended", "started"} => sealed[p] = {}
    /\ pc[p] \in {"sealing", "counted"} =>
         /\ Len(entries[p]) <= Len(convLog)
         /\ \A i \in 1 .. Len(entries[p]) : entries[p][i] = convLog[i]
    /\ pc[p] = "counted" =>
         at[p] # 0 /\ Key(entries[p][at[p]]) \notin sealed[p]

\* Unless a line was cut short, each can be parsed and the file ends with one.
Uncut == ~cut => newline /\ \A i \in 1 .. Len(chain) : chain[i] # Torn

\* What a run takes to be sealed is, and so is what it has dealt with.
Dealt ==
  ~cut => \A p \in Procs :
            /\ sealed[p] \subseteq Keys(chain)
            /\ pc[p] \in {"sealing", "counted"} =>
                 \A i \in 1 .. Done(p) : Key(Dated(entries[p][i])) \in Keys(chain)

\* One run at a time.
Alone == ~overlapped => \A p, q \in Procs : Active(p) /\ Active(q) => p = q

\* The records are linked and numbered, and a run has the tip and, once it has
\* counted, the number of lines.
TipAfter(i) == IF i = 0 THEN Zero ELSE chain[i].commitment
LinkedAt(i) ==
  /\ chain[i].commitment = Commit(TipAfter(i - 1), Encode[chain[i].entry])
  /\ chain[i].n = i - 1
Linked ==
  ~overlapped /\ ~cut =>
    /\ \A i \in 1 .. Len(chain) : LinkedAt(i)
    /\ \A p \in Procs :
         /\ Active(p) => tip[p] = TipAfter(Len(chain))
         /\ pc[p] = "counted" => n[p] = Len(chain)

\* Of a key that a run does not take to be sealed there are only records of the
\* entries that it has dealt with.
DealtAs(p, k) == {i \in 1 .. Done(p) : Key(entries[p][i]) = k}
NewRecords ==
  ~overlapped =>
    \A p \in Procs : \A k \in Problems \X Times :
      pc[p] \in {"read", "sealing", "counted"} /\ k \notin sealed[p] =>
        Cardinality(SealedAs(k)) <= Cardinality(DealtAs(p, k))

\* The inductive invariant, in four parts that rest on one another.
MemoryInv == TypeOK /\ Places
SealedInv == Uncut /\ Dealt /\ EndedMeansSealed
SerialInv == Alone /\ Linked
OnceInv == SealedOnce /\ NewRecords
IInv == MemoryInv /\ SealedInv /\ SerialInv /\ OnceInv

-----------------------------------------------------------------------------
(* Entries, records and lines *)

LEMMA ZeroType == Zero \in Poly
BY DEF Zero, Poly

LEMMA CommitType ==
  ASSUME NEW prev \in Poly, NEW words \in Words64
  PROVE  Commit(prev, words) \in Poly
BY DEF Commit, Xor, CyclicConvolve, Poly

\* The least of some positions.
LEMMA MinProperties ==
  ASSUME NEW S \in SUBSET Nat, S # {}
  PROVE  Min(S) \in S /\ \A x \in S : Min(S) <= x
<1>. DEFINE R == {p \in Nat \X Nat : p[1] < p[2]}
<1>1. IsWellFoundedOn(R, Nat)
  BY NatLessThanWellFounded, SMT DEF OpToRel
<1>2. PICK x \in S : \A y \in S : <<y, x>> \notin R
  BY <1>1, WFMin
<1>3. ASSUME NEW y \in S PROVE x <= y
  <2>1. <<y, x>> \in R <=> y < x
    BY DEF R
  <2>2. x \in Nat /\ y \in Nat
    OBVIOUS
  <2>. QED BY <1>2, <2>1, <2>2
<1>. QED BY <1>3 DEF Min

\* A dated entry stays what it is, another one gets the time of the run.
LEMMA DatedEntry ==
  ASSUME NEW e \in Entries
  PROVE  /\ Dated(e) \in Stamped(Times \cup {Now})
         /\ Key(e) \in Problems \X (Times \cup {Now}) => Dated(e) = e
         /\ Key(Dated(e)) \in Problems \X Times => Dated(e) = e
         /\ Dated(e).problemId = e.problemId
<1>1. Undefined # Now /\ Undefined \notin Times /\ Now \notin Times
  BY ChainAssumption DEF Undefined, Now
<1>2. PICK x \in Problems, t \in Times \cup {Undefined}, d \in Deltas :
        e = [problemId |-> x, timestamp |-> t, delta |-> d]
  BY DEF Entries, Stamped
<1>3. Dated(e) = [problemId |-> x, timestamp |-> IF t = Undefined THEN Now ELSE t,
                  delta |-> d]
  BY <1>2 DEF Dated
<1>4. Key(e) = <<x, t>> /\ Key(Dated(e)) = <<x, IF t = Undefined THEN Now ELSE t>>
  BY <1>2, <1>3 DEF Key
<1>5. Dated(e) \in Stamped(Times \cup {Now})
  BY <1>2, <1>3 DEF Stamped
<1>6. t # Undefined => Dated(e) = e
  BY <1>2, <1>3
<1>7. t = Undefined => /\ Key(e) \notin Problems \X (Times \cup {Now})
                       /\ Key(Dated(e)) \notin Problems \X Times
  BY <1>1, <1>4
<1>. QED BY <1>2, <1>3, <1>5, <1>6, <1>7

\* The key of a record is a problem and a time.
LEMMA RecordKey ==
  ASSUME NEW r \in Record
  PROVE  Key(r.entry) \in Problems \X (Times \cup {Now})
<1>1. r.entry \in Stamped(Times \cup {Now})
  BY DEF Record
<1>. QED BY <1>1 DEF Stamped, Key

\* The record a run is about to write.
LEMMA SealingRecord ==
  ASSUME MemoryInv, NEW p \in Procs, pc[p] = "counted", NEW r, r = Sealing(p)
  PROVE  /\ r \in Record /\ r # Torn
         /\ at[p] \in 1 .. Len(entries[p]) /\ entries[p][at[p]] \in Entries
         /\ r.entry = Dated(entries[p][at[p]])
         /\ r.commitment = Commit(tip[p], Encode[r.entry])
         /\ r.n = n[p]
<1>. DEFINE e == entries[p][at[p]]
<1>1. entries[p] \in Seq(Entries) /\ Len(entries[p]) \in Nat
      /\ at[p] \in 0 .. Len(entries[p]) /\ at[p] # 0
      /\ tip[p] \in Poly /\ n[p] \in Nat
  BY LenProperties DEF MemoryInv, TypeOK, Places
<1>2. at[p] \in 1 .. Len(entries[p])
  BY <1>1
<1>3. e \in Entries
  BY <1>1, <1>2, ElementOfSeq
<1>4. Dated(e) \in Stamped(Times \cup {Now})
  BY <1>3, DatedEntry
<1>5. Encode[Dated(e)] \in Words64
  BY <1>4, ChainAssumption
<1>6. Commit(tip[p], Encode[Dated(e)]) \in Poly
  BY <1>1, <1>5, CommitType
<1>7. r = [n |-> n[p], entry |-> Dated(e),
           commitment |-> Commit(tip[p], Encode[Dated(e)]), prev_tip |-> tip[p]]
  BY DEF Sealing
<1>8. r \in Record
  BY <1>1, <1>4, <1>6, <1>7 DEF Record
<1>9. r # Torn
  <2>1. DOMAIN r # DOMAIN Torn
    BY <1>7 DEF Torn
  <2>. QED BY <2>1
<1>. QED BY <1>2, <1>3, <1>7, <1>8, <1>9

\* The file after a line was written: one line more, or one torn.
LEMMA WrittenLine ==
  ASSUME TypeOK, NEW line \in Record \cup {Torn}, chain' = Written(line)
  PROVE  /\ chain' \in Seq(Record \cup {Torn})
         /\ Len(chain) \in Nat
         /\ newline => /\ Len(chain') = Len(chain) + 1
                       /\ \A i \in 1 .. Len(chain) : chain'[i] = chain[i]
                       /\ chain'[Len(chain) + 1] = line
         /\ ~newline => /\ Len(chain') = Len(chain)
                        /\ \A i \in 1 .. Len(chain) : chain'[i] \in {chain[i], Torn}
<1>1. chain \in Seq(Record \cup {Torn}) /\ Len(chain) \in Nat
  BY LenProperties DEF TypeOK
<1>2. CASE newline
  <2>1. chain' = Append(chain, line)
    BY <1>2 DEF Written
  <2>. QED BY <1>1, <1>2, <2>1, AppendProperties
<1>3. CASE ~newline
  <2>1. chain' = [chain EXCEPT ![Len(chain)] = Torn]
    BY <1>3 DEF Written
  <2>2. /\ chain \in [1 .. Len(chain) -> Record \cup {Torn}]
    BY <1>1, LenProperties
  <2>3. chain' \in [1 .. Len(chain) -> Record \cup {Torn}]
    BY <2>1, <2>2
  <2>4. chain' \in Seq(Record \cup {Torn}) /\ Len(chain') = Len(chain)
    BY <1>1, <2>3
  <2>5. \A i \in 1 .. Len(chain) : chain'[i] \in {chain[i], Torn}
    BY <2>1, <2>2
  <2>. QED BY <1>1, <1>3, <2>4, <2>5
<1>. QED BY <1>2, <1>3

\* The file after power was lost: the lines that are left are what they were,
\* or the last of them is torn.
LEMMA CrashedFile ==
  ASSUME TypeOK, Crash
  PROVE  /\ chain' \in Seq(Record \cup {Torn})
         /\ Len(chain) \in Nat /\ Len(chain') \in Nat /\ Len(chain') <= Len(chain)
         /\ \A i \in 1 .. Len(chain') : chain'[i] \in {chain[i], Torn}
         /\ newline' \in BOOLEAN /\ cut' \in BOOLEAN
         /\ ~cut' => /\ ~cut /\ (newline => newline')
                     /\ \A i \in 1 .. Len(chain') : chain'[i] = chain[i]
<1>1. chain \in Seq(Record \cup {Torn}) /\ Len(chain) \in Nat
      /\ \A i \in 1 .. Len(chain) : chain[i] \in Record \cup {Torn}
  BY LenProperties, ElementOfSeq DEF TypeOK
<1>2. PICK k \in 0 .. Len(chain) :
        \/ chain' = SubSeq(chain, 1, k) /\ newline' = (newline \/ k < Len(chain))
           /\ UNCHANGED cut
        \/ /\ k < Len(chain)
           /\ \E line \in {Torn, chain[k + 1]} :
                chain' = Append(SubSeq(chain, 1, k), line)
           /\ newline' = FALSE
           /\ cut' = TRUE
  BY DEF Crash
<1>3. /\ SubSeq(chain, 1, k) \in Seq(Record \cup {Torn})
      /\ Len(SubSeq(chain, 1, k)) = k
      /\ \A i \in 1 .. k : SubSeq(chain, 1, k)[i] = chain[i]
  BY <1>1, SubSeqProperties
<1>4. CASE chain' = SubSeq(chain, 1, k) /\ newline' = (newline \/ k < Len(chain))
           /\ UNCHANGED cut
  <2>1. newline' \in BOOLEAN /\ (newline => newline') /\ cut' \in BOOLEAN
    BY <1>4 DEF TypeOK
  <2>. QED BY <1>1, <1>3, <1>4, <2>1
<1>5. ASSUME k < Len(chain), NEW line \in {Torn, chain[k + 1]},
             chain' = Append(SubSeq(chain, 1, k), line),
             newline' = FALSE, cut' = TRUE
      PROVE  /\ chain' \in Seq(Record \cup {Torn})
             /\ Len(chain') = k + 1
             /\ \A i \in 1 .. k + 1 : chain'[i] \in {chain[i], Torn}
  <2>1. line \in Record \cup {Torn}
    BY <1>1, <1>5
  <2>2. /\ chain' \in Seq(Record \cup {Torn}) /\ Len(chain') = k + 1
        /\ \A i \in 1 .. k : chain'[i] = chain[i]
        /\ chain'[k + 1] = line
    BY <1>3, <1>5, <2>1, AppendProperties
  <2>. QED BY <1>5, <2>2
<1>6. CASE /\ k < Len(chain)
           /\ \E line \in {Torn, chain[k + 1]} :
                chain' = Append(SubSeq(chain, 1, k), line)
           /\ newline' = FALSE
           /\ cut' = TRUE
  <2>1. /\ chain' \in Seq(Record \cup {Torn})
        /\ Len(chain') = k + 1
        /\ \A i \in 1 .. k + 1 : chain'[i] \in {chain[i], Torn}
    BY <1>5, <1>6
  <2>2. k + 1 \in Nat /\ k + 1 <= Len(chain)
    BY <1>1, <1>6
  <2>3. newline' \in BOOLEAN /\ cut' \in BOOLEAN /\ cut'
    BY <1>6
  <2>. QED BY <1>1, <2>1, <2>2, <2>3
<1>. QED BY <1>2, <1>4, <1>6

-----------------------------------------------------------------------------
(* What runs have in memory *)

Codes == {"none", "0", "1", "2", "threw", "killed"}
Stages == {"ended", "started", "read", "sealing", "counted"}

\* A run that is over has nothing in memory, and the others are not concerned.
LEMMA EndEffects ==
  ASSUME TypeOK, NEW p \in Procs, NEW c \in Codes, End(p, c)
  PROVE  /\ pc' \in [Procs -> Stages] /\ tip' \in [Procs -> Poly]
         /\ sealed' \in [Procs -> SUBSET (Problems \X (Times \cup {Now}))]
         /\ at' \in [Procs -> Nat] /\ n' \in [Procs -> Nat]
         /\ code' \in [Procs -> Codes]
         /\ pc'[p] = "ended" /\ sealed'[p] = {} /\ at'[p] = 0 /\ code'[p] = c
         /\ \A q \in Procs :
              q # p => /\ pc'[q] = pc[q] /\ tip'[q] = tip[q] /\ sealed'[q] = sealed[q]
                       /\ at'[q] = at[q] /\ n'[q] = n[q] /\ code'[q] = code[q]
<1>1. /\ pc \in [Procs -> Stages] /\ tip \in [Procs -> Poly]
      /\ sealed \in [Procs -> SUBSET (Problems \X (Times \cup {Now}))]
      /\ at \in [Procs -> Nat] /\ n \in [Procs -> Nat]
      /\ code \in [Procs -> Codes]
  BY DEF TypeOK, Stages, Codes
<1>2. /\ pc' = [pc EXCEPT ![p] = "ended"] /\ code' = [code EXCEPT ![p] = c]
      /\ tip' = [tip EXCEPT ![p] = Zero] /\ sealed' = [sealed EXCEPT ![p] = {}]
      /\ at' = [at EXCEPT ![p] = 0] /\ n' = [n EXCEPT ![p] = 0]
  BY DEF End
<1>3. pc' \in [Procs -> Stages] /\ tip' \in [Procs -> Poly]
  BY <1>1, <1>2, ZeroType DEF Stages
<1>4. /\ sealed' \in [Procs -> SUBSET (Problems \X (Times \cup {Now}))]
      /\ at' \in [Procs -> Nat] /\ n' \in [Procs -> Nat] /\ code' \in [Procs -> Codes]
  BY <1>1, <1>2
<1>. QED BY <1>1, <1>2, <1>3, <1>4

\* A step that ends a run, and changes no entries, keeps what the others have.
LEMMA EndKeepsMemory ==
  ASSUME MemoryInv, NEW p \in Procs, NEW c \in Codes, End(p, c),
         UNCHANGED <<convLog, entries>>,
         chain' \in Seq(Record \cup {Torn}), newline' \in BOOLEAN,
         overlapped' \in BOOLEAN, cut' \in BOOLEAN
  PROVE  MemoryInv'
<1>1. /\ pc' \in [Procs -> Stages] /\ tip' \in [Procs -> Poly]
      /\ sealed' \in [Procs -> SUBSET (Problems \X (Times \cup {Now}))]
      /\ at' \in [Procs -> Nat] /\ n' \in [Procs -> Nat]
      /\ code' \in [Procs -> Codes]
      /\ pc'[p] = "ended" /\ sealed'[p] = {} /\ at'[p] = 0 /\ code'[p] = c
      /\ \A q \in Procs :
           q # p => /\ pc'[q] = pc[q] /\ tip'[q] = tip[q] /\ sealed'[q] = sealed[q]
                    /\ at'[q] = at[q] /\ n'[q] = n[q] /\ code'[q] = code[q]
  BY EndEffects DEF MemoryInv
<1>2. \A q \in Procs : Len(entries[q]) \in Nat /\ at[q] <= Len(entries[q])
  BY LenProperties DEF MemoryInv, TypeOK
<1>3. TypeOK'
  <2>1. ASSUME NEW q \in Procs PROVE at'[q] <= Len(entries[q])
    <3>1. at'[q] = at[q] \/ at'[q] = 0
      BY <1>1
    <3>. QED BY <1>2, <3>1
  <2>. QED BY <1>1, <2>1 DEF MemoryInv, TypeOK, Stages, Codes
<1>4. Places'
  <2>1. ASSUME NEW q \in Procs, q # p
        PROVE  pc'[q] = pc[q] /\ at'[q] = at[q] /\ sealed'[q] = sealed[q]
    BY <1>1, <2>1
  <2>2. pc'[p] = "ended" /\ sealed'[p] = {} /\ at'[p] = 0
    BY <1>1
  <2>. QED BY SMTT(30), <2>1, <2>2 DEF MemoryInv, Places, Key
<1>. QED BY <1>3, <1>4 DEF MemoryInv

LEMMA InitMemory == Init => MemoryInv
<1>. SUFFICES ASSUME Init PROVE MemoryInv
  OBVIOUS
<1>1. \A p \in Procs : entries[p] = <<>> /\ at[p] = 0 /\ Len(entries[p]) = 0
  BY DEF Init
<1>2. TypeOK
  <2>1. convLog \in Seq(Entries) /\ chain \in Seq(Record \cup {Torn})
    BY EmptySeq DEF Init
  <2>2. /\ pc \in [Procs -> {"ended", "started", "read", "sealing", "counted"}]
        /\ tip \in [Procs -> Poly]
        /\ code \in [Procs -> {"none", "0", "1", "2", "threw", "killed"}]
    BY ZeroType DEF Init
  <2>3. /\ sealed \in [Procs -> SUBSET (Problems \X (Times \cup {Now}))]
        /\ at \in [Procs -> Nat] /\ n \in [Procs -> Nat]
    BY DEF Init
  <2>4. entries \in [Procs -> Seq(Entries)]
    BY EmptySeq DEF Init
  <2>5. \A p \in Procs : at[p] <= Len(entries[p])
    BY <1>1
  <2>6. newline \in BOOLEAN /\ overlapped \in BOOLEAN /\ cut \in BOOLEAN
    BY DEF Init
  <2>. QED BY <2>1, <2>2, <2>3, <2>4, <2>5, <2>6 DEF TypeOK
<1>3. Places
  BY DEF Init, Places
<1>. QED BY <1>2, <1>3 DEF MemoryInv

LEMMA StartKeepsMemory ==
  ASSUME MemoryInv, NEW p \in Procs, Start(p) PROVE MemoryInv'
<1>0. TypeOK /\ Places
  BY DEF MemoryInv
<1>1. /\ pc[p] = "ended" /\ at[p] = 0 /\ sealed[p] = {}
      /\ entries' = [entries EXCEPT ![p] = <<>>]
      /\ overlapped' \in BOOLEAN
      /\ UNCHANGED <<convLog, chain, newline, cut>>
  BY <1>0 DEF Start, files, TypeOK, Places
<1>2. /\ entries' \in [Procs -> Seq(Entries)] /\ entries'[p] = <<>>
      /\ Len(entries'[p]) = 0
      /\ \A q \in Procs : q # p => entries'[q] = entries[q]
  BY <1>0, <1>1 DEF TypeOK
<1>20. \A q \in Procs : /\ Len(entries[q]) \in Nat /\ at[q] \in Nat
                        /\ at[q] <= Len(entries[q])
  BY <1>0, LenProperties DEF TypeOK
<1>3. CASE chain # <<>> /\ Last(chain) = Torn
  <2>1. End(p, "threw") /\ "threw" \in Codes
    BY <1>3 DEF Start, Codes
  <2>2. /\ pc' \in [Procs -> Stages] /\ tip' \in [Procs -> Poly]
        /\ sealed' \in [Procs -> SUBSET (Problems \X (Times \cup {Now}))]
        /\ at' \in [Procs -> Nat] /\ n' \in [Procs -> Nat]
        /\ code' \in [Procs -> Codes]
        /\ pc'[p] = "ended" /\ sealed'[p] = {} /\ at'[p] = 0
        /\ \A q \in Procs :
             q # p => /\ pc'[q] = pc[q] /\ sealed'[q] = sealed[q] /\ at'[q] = at[q]
    BY <1>0, <2>1, EndEffects
  <2>3. TypeOK'
    <3>1. ASSUME NEW q \in Procs PROVE at'[q] <= Len(entries'[q])
      <4>1. CASE q = p
        BY <1>2, <2>2, <4>1
      <4>2. CASE q # p
        <5>1. at'[q] = at[q] /\ entries'[q] = entries[q]
          BY <1>2, <2>2, <4>2
        <5>. QED BY <1>20, <5>1
      <4>. QED BY <4>1, <4>2
    <3>. QED BY <1>0, <1>1, <1>2, <2>2, <3>1 DEF TypeOK, Stages, Codes
  <2>4. Places'
    <3>1. ASSUME NEW q \in Procs, q # p
          PROVE  /\ pc'[q] = pc[q] /\ at'[q] = at[q] /\ sealed'[q] = sealed[q]
                 /\ entries'[q] = entries[q]
      BY <1>2, <2>2, <3>1
    <3>2. pc'[p] = "ended" /\ sealed'[p] = {} /\ at'[p] = 0
      BY <2>2
    <3>3. convLog' = convLog
      BY <1>1
    <3>. QED BY SMTT(30), <1>0, <3>1, <3>2, <3>3 DEF Places, Key
  <2>. QED BY <2>3, <2>4 DEF MemoryInv
<1>4. CASE ~(chain # <<>> /\ Last(chain) = Torn)
  <2>1. /\ pc' = [pc EXCEPT ![p] = "started"]
        /\ tip' = [tip EXCEPT ![p] = IF chain = <<>> THEN Zero
                                     ELSE Last(chain).commitment]
        /\ code' = [code EXCEPT ![p] = "none"]
        /\ UNCHANGED <<sealed, at, n>>
    BY <1>4 DEF Start
  <2>2. (IF chain = <<>> THEN Zero ELSE Last(chain).commitment) \in Poly
    <3>1. CASE chain # <<>>
      <4>1. chain \in Seq(Record \cup {Torn}) /\ Len(chain) \in 1 .. Len(chain)
        BY <1>0, <3>1, EmptySeq, LenProperties DEF TypeOK
      <4>2. Last(chain) \in Record
        BY <1>4, <3>1, <4>1, ElementOfSeq DEF Last
      <4>. QED BY <3>1, <4>2 DEF Record
    <3>. QED BY <3>1, ZeroType
  <2>3. TypeOK'
    <3>1. /\ pc' \in [Procs -> Stages] /\ tip' \in [Procs -> Poly]
          /\ code' \in [Procs -> Codes]
      BY <1>0, <2>1, <2>2 DEF TypeOK, Stages, Codes
    <3>2. ASSUME NEW q \in Procs PROVE at'[q] <= Len(entries'[q])
      BY <1>1, <1>2, <1>20, <2>1
    <3>. QED BY <1>0, <1>1, <1>2, <2>1, <3>1, <3>2 DEF TypeOK, Stages, Codes
  <2>4. Places'
    <3>1. pc'[p] = "started" /\ \A q \in Procs : q # p => pc'[q] = pc[q]
      BY <1>0, <2>1 DEF TypeOK
    <3>. QED BY <1>0, <1>1, <1>2, <2>1, <3>1 DEF Places, Key
  <2>. QED BY <2>3, <2>4 DEF MemoryInv
<1>. QED BY <1>3, <1>4

\* The keys of a chain without torn lines.
LEMMA KeysType ==
  ASSUME TypeOK, \A i \in 1 .. Len(chain) : chain[i] # Torn
  PROVE  Keys(chain) \subseteq Problems \X (Times \cup {Now})
<1>1. \A i \in 1 .. Len(chain) : chain[i] \in Record
  <2>1. chain \in Seq(Record \cup {Torn})
    BY DEF TypeOK
  <2>2. \A i \in 1 .. Len(chain) : chain[i] \in Record \cup {Torn}
    BY <2>1, ElementOfSeq
  <2>. QED BY <2>2
<1>2. \A i \in 1 .. Len(chain) : Key(chain[i].entry) \in Problems \X (Times \cup {Now})
  BY <1>1, RecordKey
<1>. QED BY <1>2 DEF Keys

LEMMA ReadSealedKeepsMemory ==
  ASSUME MemoryInv, NEW p \in Procs, ReadSealed(p) PROVE MemoryInv'
<1>0. TypeOK /\ Places
  BY DEF MemoryInv
<1>1. UNCHANGED <<files, entries, history>> /\ pc[p] = "started"
      /\ UNCHANGED <<convLog, chain, newline, entries, overlapped, cut>>
  BY DEF ReadSealed, files, history
<1>2. CASE \E c \in {"0", "threw"} : End(p, c)
  BY <1>0, <1>1, <1>2, EndKeepsMemory DEF TypeOK, Codes
<1>3. CASE /\ \A i \in 1 .. Len(chain) : chain[i] # Torn
           /\ pc' = [pc EXCEPT ![p] = "read"]
           /\ sealed' = [sealed EXCEPT ![p] = Keys(chain)]
           /\ UNCHANGED <<tip, at, n, code>>
  <2>1. sealed' \in [Procs -> SUBSET (Problems \X (Times \cup {Now}))]
    BY <1>0, <1>3, KeysType DEF TypeOK
  <2>2. TypeOK'
    BY <1>0, <1>1, <1>3, <2>1 DEF TypeOK
  <2>3. pc'[p] = "read" /\ \A q \in Procs : q # p => pc'[q] = pc[q] /\ sealed'[q] = sealed[q]
    BY <1>0, <1>3 DEF TypeOK
  <2>4. Places'
    BY <1>0, <1>1, <1>3, <2>3 DEF Places, Key
  <2>. QED BY <2>2, <2>4 DEF MemoryInv
<1>. QED BY <1>2, <1>3 DEF ReadSealed

LEMMA ReadEntriesKeepsMemory ==
  ASSUME MemoryInv, NEW p \in Procs, ReadEntries(p) PROVE MemoryInv'
<1>0. TypeOK /\ Places
  BY DEF MemoryInv
<1>1. /\ pc[p] = "read" /\ pc' = [pc EXCEPT ![p] = "sealing"]
      /\ entries' = [entries EXCEPT ![p] = convLog]
      /\ UNCHANGED <<convLog, chain, newline, tip, sealed, at, n, code, overlapped, cut>>
  BY DEF ReadEntries, files, history
<1>2. /\ entries' \in [Procs -> Seq(Entries)] /\ entries'[p] = convLog /\ pc'[p] = "sealing"
      /\ \A q \in Procs : q # p => entries'[q] = entries[q] /\ pc'[q] = pc[q]
      /\ pc' \in [Procs -> Stages]
  BY <1>0, <1>1 DEF TypeOK, Stages
<1>3. Len(convLog) \in Nat /\ at[p] = 0
      /\ \A q \in Procs : at[q] <= Len(entries[q])
  BY <1>0, <1>1, LenProperties DEF TypeOK, Places
<1>4. TypeOK'
  <2>1. ASSUME NEW q \in Procs PROVE at[q] <= Len(entries'[q])
    <3>1. CASE q = p
      BY <1>2, <1>3, <3>1
    <3>2. CASE q # p
      BY <1>2, <1>3, <3>2
    <3>. QED BY <3>1, <3>2
  <2>. QED BY <1>0, <1>1, <1>2, <2>1 DEF TypeOK, Stages
<1>5. Places'
  <2>. SUFFICES ASSUME NEW q \in Procs
                PROVE  /\ pc'[q] \in {"ended", "started", "read"} => at[q] = 0
                       /\ pc'[q] \in {"started", "read"} => entries'[q] = <<>>
                       /\ pc'[q] \in {"ended", "started"} => sealed[q] = {}
                       /\ pc'[q] \in {"sealing", "counted"} =>
                            /\ Len(entries'[q]) <= Len(convLog)
                            /\ \A i \in 1 .. Len(entries'[q]) : entries'[q][i] = convLog[i]
                       /\ pc'[q] = "counted" =>
                            at[q] # 0 /\ Key(entries'[q][at[q]]) \notin sealed[q]
    BY <1>1 DEF Places, Key
  <2>1. CASE q = p
    BY <1>2, <1>3, <2>1
  <2>2. CASE q # p
    BY <1>0, <1>2, <2>2 DEF Places
  <2>. QED BY <2>1, <2>2
<1>. QED BY <1>4, <1>5 DEF MemoryInv

\* The entry a run turns to is the next that it does not take to be sealed.
LEMMA NextEntry ==
  ASSUME MemoryInv, NEW p \in Procs, CountRecords(p)
  PROVE  /\ at'[p] \in at[p] + 1 .. Len(entries[p]) /\ at[p] \in Nat
         /\ Len(entries[p]) \in Nat /\ Len(chain) \in Nat
         /\ Key(entries[p][at'[p]]) \notin sealed[p]
         /\ \A i \in at[p] + 1 .. at'[p] - 1 : Key(entries[p][i]) \in sealed[p]
         /\ pc[p] = "sealing" /\ pc'[p] = "counted" /\ n'[p] = Len(chain)
         /\ \A q \in Procs : q # p => /\ pc'[q] = pc[q] /\ at'[q] = at[q] /\ n'[q] = n[q]
         /\ pc' \in [Procs -> Stages] /\ at' \in [Procs -> Nat] /\ n' \in [Procs -> Nat]
<1>1. /\ at[p] \in Nat /\ Len(entries[p]) \in Nat /\ Len(chain) \in Nat
      /\ at \in [Procs -> Nat] /\ pc \in [Procs -> Stages] /\ n \in [Procs -> Nat]
  BY LenProperties DEF MemoryInv, TypeOK, Stages
<1>. DEFINE S == Unsealed(p)
            m == Min(S)
<1>2. /\ S \in SUBSET Nat /\ S # {}
      /\ \A i : i \in S <=> /\ i \in at[p] + 1 .. Len(entries[p])
                            /\ Key(entries[p][i]) \notin sealed[p]
  BY <1>1 DEF Unsealed, CountRecords
<1>. HIDE DEF S
<1>3. m \in S /\ \A i \in S : m <= i
  BY <1>2, MinProperties
<1>4. /\ at' = [at EXCEPT ![p] = m] /\ pc[p] = "sealing"
      /\ pc' = [pc EXCEPT ![p] = "counted"] /\ n' = [n EXCEPT ![p] = Len(chain)]
  BY DEF CountRecords, S
<1>. HIDE DEF m
<1>5. m \in at[p] + 1 .. Len(entries[p]) /\ Key(entries[p][m]) \notin sealed[p] /\ m \in Nat
  BY <1>2, <1>3
<1>6. ASSUME NEW i \in at[p] + 1 .. m - 1 PROVE Key(entries[p][i]) \in sealed[p]
  <2>1. i \in at[p] + 1 .. Len(entries[p]) /\ ~(m <= i)
    BY <1>1, <1>5
  <2>. QED BY <1>2, <1>3, <2>1
<1>7. /\ at'[p] = m /\ pc'[p] = "counted" /\ n'[p] = Len(chain)
      /\ \A q \in Procs : q # p => /\ pc'[q] = pc[q] /\ at'[q] = at[q] /\ n'[q] = n[q]
      /\ at' \in [Procs -> Nat] /\ n' \in [Procs -> Nat] /\ pc' \in [Procs -> Stages]
  BY <1>1, <1>4, <1>5 DEF Stages
<1>. QED BY <1>1, <1>4, <1>5, <1>6, <1>7

LEMMA CountRecordsKeepsMemory ==
  ASSUME MemoryInv, NEW p \in Procs, CountRecords(p) PROVE MemoryInv'
<1>0. TypeOK /\ Places
  BY DEF MemoryInv
<1>1. UNCHANGED <<convLog, chain, newline, tip, sealed, entries, code, overlapped, cut>>
  BY DEF CountRecords, files, history
<1>2. /\ at'[p] \in at[p] + 1 .. Len(entries[p]) /\ at[p] \in Nat
      /\ Len(entries[p]) \in Nat
      /\ Key(entries[p][at'[p]]) \notin sealed[p]
      /\ pc[p] = "sealing" /\ pc'[p] = "counted" /\ n'[p] = Len(chain)
      /\ \A q \in Procs : q # p => /\ pc'[q] = pc[q] /\ at'[q] = at[q] /\ n'[q] = n[q]
      /\ pc' \in [Procs -> Stages] /\ at' \in [Procs -> Nat] /\ n' \in [Procs -> Nat]
  BY NextEntry
<1>3. TypeOK'
  <2>1. ASSUME NEW q \in Procs PROVE at'[q] <= Len(entries[q])
    <3>1. CASE q = p
      BY <1>2, <3>1
    <3>2. CASE q # p
      BY <1>0, <1>2, <3>2 DEF TypeOK
    <3>. QED BY <3>1, <3>2
  <2>. QED BY <1>0, <1>1, <1>2, <2>1 DEF TypeOK, Stages
<1>4. Places'
  <2>. SUFFICES ASSUME NEW q \in Procs
                PROVE  /\ pc'[q] \in {"ended", "started", "read"} => at'[q] = 0
                       /\ pc'[q] \in {"started", "read"} => entries[q] = <<>>
                       /\ pc'[q] \in {"ended", "started"} => sealed[q] = {}
                       /\ pc'[q] \in {"sealing", "counted"} =>
                            /\ Len(entries[q]) <= Len(convLog)
                            /\ \A i \in 1 .. Len(entries[q]) : entries[q][i] = convLog[i]
                       /\ pc'[q] = "counted" =>
                            at'[q] # 0 /\ Key(entries[q][at'[q]]) \notin sealed[q]
    BY <1>1 DEF Places, Key
  <2>1. CASE q = p
    <3>1. at'[p] # 0
      BY <1>2
    <3>. QED BY <1>0, <1>2, <2>1, <3>1 DEF Places
  <2>2. CASE q # p
    BY <1>0, <1>2, <2>2 DEF Places
  <2>. QED BY <2>1, <2>2
<1>. QED BY <1>3, <1>4 DEF MemoryInv

LEMMA AppendRecordKeepsMemory ==
  ASSUME MemoryInv, NEW p \in Procs, AppendRecord(p) PROVE MemoryInv'
<1>0. TypeOK /\ Places
  BY DEF MemoryInv
<1>1. PICK r : r = Sealing(p)
  OBVIOUS
<1>2. /\ pc[p] = "counted" /\ pc' = [pc EXCEPT ![p] = "sealing"]
      /\ chain' = Written(r) /\ newline' = TRUE
      /\ tip' = [tip EXCEPT ![p] = r.commitment]
      /\ UNCHANGED <<convLog, sealed, entries, at, n, code, overlapped, cut>>
  BY <1>1 DEF AppendRecord, history
<1>3. r \in Record
  BY <1>1, <1>2, SealingRecord
<1>4. chain' \in Seq(Record \cup {Torn})
  BY <1>0, <1>2, <1>3, WrittenLine
<1>5. r.commitment \in Poly
  BY <1>3 DEF Record
<1>6. TypeOK'
  BY <1>0, <1>2, <1>4, <1>5 DEF TypeOK
<1>7. pc'[p] = "sealing" /\ \A q \in Procs : q # p => pc'[q] = pc[q]
  BY <1>0, <1>2 DEF TypeOK
<1>8. Places'
  BY <1>0, <1>2, <1>7 DEF Places, Key
<1>. QED BY <1>6, <1>8 DEF MemoryInv

LEMMA AppendCutKeepsMemory ==
  ASSUME MemoryInv, NEW p \in Procs, AppendCut(p) PROVE MemoryInv'
<1>1. PICK r : r = Sealing(p)
  OBVIOUS
<1>2. PICK line \in {Torn, r} : chain' = Written(line)
  BY <1>1 DEF AppendCut
<1>3. /\ pc[p] = "counted" /\ newline' = FALSE /\ cut' = TRUE /\ End(p, "threw")
      /\ UNCHANGED <<convLog, entries, overlapped>>
  BY DEF AppendCut
<1>4. line \in Record \cup {Torn}
  BY <1>1, <1>3, SealingRecord
<1>5. chain' \in Seq(Record \cup {Torn})
  BY <1>2, <1>4, WrittenLine DEF MemoryInv
<1>6. overlapped' \in BOOLEAN /\ "threw" \in Codes
  BY <1>3 DEF MemoryInv, TypeOK, Codes
<1>. QED BY <1>3, <1>5, <1>6, EndKeepsMemory

\* The exit code of a run that was neither killed nor out of anything to do.
LEMMA FinishCode ==
  ASSUME NEW p \in Procs, Finish(p)
  PROVE  \E c \in Codes : End(p, c)
BY DEF Finish, Codes

LEMMA EndingKeepsMemory ==
  ASSUME MemoryInv, NEW p \in Procs, Finish(p) \/ Kill(p) PROVE MemoryInv'
<1>1. UNCHANGED <<convLog, chain, newline, entries, overlapped, cut>>
  BY DEF Finish, Kill, files, history
<1>2. PICK c \in Codes : End(p, c)
  BY FinishCode DEF Kill, Codes
<1>. QED BY <1>1, <1>2, EndKeepsMemory DEF MemoryInv, TypeOK

LEMMA CrashKeepsMemory ==
  ASSUME MemoryInv, Crash PROVE MemoryInv'
<1>1. /\ chain' \in Seq(Record \cup {Torn})
      /\ newline' \in BOOLEAN /\ cut' \in BOOLEAN
  BY CrashedFile DEF MemoryInv
<1>2. /\ pc' = [p \in Procs |-> "ended"] /\ code' = [p \in Procs |-> "killed"]
      /\ tip' = [p \in Procs |-> Zero] /\ sealed' = [p \in Procs |-> {}]
      /\ entries' = [p \in Procs |-> <<>>] /\ at' = [p \in Procs |-> 0]
      /\ n' = [p \in Procs |-> 0] /\ UNCHANGED <<convLog, overlapped>>
  BY DEF Crash
<1>3. \A p \in Procs : /\ entries'[p] = <<>> /\ at'[p] = 0 /\ Len(entries'[p]) = 0
                       /\ sealed'[p] = {} /\ pc'[p] = "ended"
  BY <1>2
<1>4. TypeOK'
  <2>1. entries' \in [Procs -> Seq(Entries)]
    BY <1>2, EmptySeq
  <2>2. \A p \in Procs : at'[p] <= Len(entries'[p])
    BY <1>3
  <2>3. /\ pc' \in [Procs -> Stages] /\ code' \in [Procs -> Codes]
        /\ tip' \in [Procs -> Poly]
        /\ sealed' \in [Procs -> SUBSET (Problems \X (Times \cup {Now}))]
        /\ at' \in [Procs -> Nat] /\ n' \in [Procs -> Nat]
    BY <1>2, ZeroType DEF Stages, Codes
  <2>. QED BY <1>1, <1>2, <2>1, <2>2, <2>3 DEF MemoryInv, TypeOK, Stages, Codes
<1>5. Places'
  BY <1>3 DEF Places
<1>. QED BY <1>4, <1>5 DEF MemoryInv

\* The log after an entry was added.
LEMMA LogGrows ==
  ASSUME TypeOK, LogEntry
  PROVE  /\ convLog' \in Seq(Entries) /\ Len(convLog) \in Nat
         /\ Len(convLog') = Len(convLog) + 1
         /\ \A i \in 1 .. Len(convLog) : convLog'[i] = convLog[i]
         /\ UNCHANGED <<chain, newline, pc, tip, sealed, entries, at, n, code,
                        overlapped, cut>>
<1>1. PICK e \in Entries : convLog' = Append(convLog, e)
  BY DEF LogEntry
<1>2. convLog \in Seq(Entries)
  BY DEF TypeOK
<1>. QED BY <1>1, <1>2, AppendProperties, LenProperties DEF LogEntry, history

LEMMA LogEntryKeepsMemory ==
  ASSUME MemoryInv, LogEntry PROVE MemoryInv'
<1>0. TypeOK /\ Places
  BY DEF MemoryInv
<1>1. /\ convLog' \in Seq(Entries) /\ Len(convLog) \in Nat
      /\ Len(convLog') = Len(convLog) + 1
      /\ \A i \in 1 .. Len(convLog) : convLog'[i] = convLog[i]
      /\ UNCHANGED <<chain, newline, pc, tip, sealed, entries, at, n, code,
                     overlapped, cut>>
  BY <1>0, LogGrows
<1>2. TypeOK'
  BY <1>0, <1>1 DEF TypeOK
<1>3. Places'
  <2>1. ASSUME NEW p \in Procs, pc[p] \in {"sealing", "counted"}
        PROVE  /\ Len(entries[p]) <= Len(convLog')
               /\ \A i \in 1 .. Len(entries[p]) : entries[p][i] = convLog'[i]
    <3>1. /\ Len(entries[p]) <= Len(convLog) /\ Len(entries[p]) \in Nat
          /\ \A i \in 1 .. Len(entries[p]) : entries[p][i] = convLog[i]
      BY <1>0, <2>1, LenProperties DEF Places, TypeOK
    <3>. QED BY <1>1, <3>1
  <2>. QED BY <1>0, <1>1, <2>1 DEF Places, Key
<1>. QED BY <1>2, <1>3 DEF MemoryInv

LEMMA NextMemory == MemoryInv /\ [Next]_vars => MemoryInv'
<1>. SUFFICES ASSUME MemoryInv, [Next]_vars PROVE MemoryInv'
  OBVIOUS
<1>1. ASSUME NEW p \in Procs,
             \/ Start(p) \/ ReadSealed(p) \/ ReadEntries(p) \/ CountRecords(p)
             \/ AppendRecord(p) \/ AppendCut(p) \/ Finish(p) \/ Kill(p)
      PROVE  MemoryInv'
  BY <1>1, StartKeepsMemory, ReadSealedKeepsMemory, ReadEntriesKeepsMemory,
     CountRecordsKeepsMemory, AppendRecordKeepsMemory, AppendCutKeepsMemory,
     EndingKeepsMemory
<1>2. CASE Crash \/ LogEntry
  BY <1>2, CrashKeepsMemory, LogEntryKeepsMemory
<1>3. CASE UNCHANGED vars
  BY <1>3 DEF vars, MemoryInv, TypeOK, Places, Key
<1>. QED BY <1>1, <1>2, <1>3 DEF Next

-----------------------------------------------------------------------------
(* What is sealed *)

\* SealedInv, of one run.
SealedOf(p) ==
  /\ sealed[p] \subseteq Keys(chain)
  /\ pc[p] \in {"sealing", "counted"} =>
       \A i \in 1 .. Done(p) : Key(Dated(entries[p][i])) \in Keys(chain)
  /\ pc[p] = "ended" /\ code[p] \in {"0", "2"} =>
       \A i \in DOMAIN entries[p] : Key(Dated(entries[p][i])) \in Keys(chain)

LEMMA SealedOfAll ==
  SealedInv <=> Uncut /\ (~cut => \A p \in Procs : SealedOf(p))
BY DEF SealedInv, Dealt, EndedMeansSealed, SealedOf

\* What a run has in memory stays sealed while the chain grows.
LEMMA OthersSealed ==
  ASSUME NEW q \in Procs, SealedOf(q), Keys(chain) \subseteq Keys(chain'),
         pc'[q] = pc[q], sealed'[q] = sealed[q], at'[q] = at[q],
         entries'[q] = entries[q], code'[q] = code[q]
  PROVE  SealedOf(q)'
<1>1. Done(q)' = Done(q) /\ Keys(chain)' = Keys(chain')
  BY DEF Done, Keys, Key
<1>. QED BY <1>1 DEF SealedOf, Key, Dated

\* An entry that a run takes to be sealed has a record, if the run is right.
LEMMA SealedEntry ==
  ASSUME TypeOK, NEW p \in Procs, sealed[p] \subseteq Keys(chain),
         NEW i \in 1 .. Len(entries[p]), Key(entries[p][i]) \in sealed[p]
  PROVE  Key(Dated(entries[p][i])) \in Keys(chain)
<1>1. entries[p] \in Seq(Entries)
      /\ sealed[p] \subseteq Problems \X (Times \cup {Now})
  BY DEF TypeOK
<1>2. entries[p][i] \in Entries
  BY <1>1, ElementOfSeq
<1>3. Dated(entries[p][i]) = entries[p][i]
  BY <1>1, <1>2, DatedEntry
<1>. QED BY <1>3

\* A run that is over, but not because there was nothing left to seal.
LEMMA StoppedSealed ==
  ASSUME MemoryInv, NEW p \in Procs, NEW c \in Codes, End(p, c),
         c \in {"0", "2"} =>
           \A i \in DOMAIN entries'[p] : Key(Dated(entries'[p][i])) \in Keys(chain')
  PROVE  SealedOf(p)'
<1>1. pc'[p] = "ended" /\ sealed'[p] = {} /\ code'[p] = c
  BY EndEffects DEF MemoryInv
<1>2. Keys(chain)' = Keys(chain')
  BY DEF Keys, Key
<1>. QED BY <1>1, <1>2 DEF SealedOf, Key, Dated

LEMMA InitSealed == Init => SealedInv
<1>. SUFFICES ASSUME Init PROVE SealedInv
  OBVIOUS
<1>1. \A i \in 1 .. Len(chain) : FALSE
  BY DEF Init
<1>2. Uncut
  BY <1>1 DEF Init, Uncut
<1>3. \A p \in Procs : SealedOf(p)
  BY DEF Init, SealedOf
<1>. QED BY <1>2, <1>3, SealedOfAll

\* Before there is anything to seal.
LEMMA EarlyStepsKeepSealed ==
  ASSUME MemoryInv, SealedInv, NEW p \in Procs,
         Start(p) \/ ReadSealed(p) \/ ReadEntries(p)
  PROVE  SealedInv'
<1>0. TypeOK /\ Places /\ Uncut /\ (~cut => \A q \in Procs : SealedOf(q))
  BY SealedOfAll DEF MemoryInv
<1>1. UNCHANGED <<chain, newline, cut>> /\ Keys(chain') = Keys(chain)
  BY DEF Start, ReadSealed, ReadEntries, files, history
<1>2. Uncut'
  BY <1>0, <1>1 DEF Uncut
<1>3. ASSUME ~cut PROVE SealedOf(p)'
  <2>1. CASE \E c \in {"threw"} : End(p, c)
    BY <2>1, StoppedSealed DEF Codes
  <2>2. CASE Start(p) /\ pc' = [pc EXCEPT ![p] = "started"] /\ UNCHANGED sealed
    <3>1. pc'[p] = "started" /\ sealed'[p] = {}
      BY <1>0, <2>2 DEF Start, TypeOK, Places
    <3>. QED BY <3>1 DEF SealedOf
  <2>3. CASE ReadSealed(p) /\ End(p, "0")
    <3>1. entries'[p] = <<>>
      BY <1>0, <2>3 DEF ReadSealed, Places
    <3>2. "0" \in Codes /\ DOMAIN entries'[p] = {}
      BY <3>1 DEF Codes
    <3>. QED BY <2>3, <3>2, StoppedSealed
  <2>4. CASE /\ ReadSealed(p) /\ pc' = [pc EXCEPT ![p] = "read"]
             /\ sealed' = [sealed EXCEPT ![p] = Keys(chain)]
    <3>1. pc'[p] = "read" /\ sealed'[p] = Keys(chain)
      BY <1>0, <2>4 DEF TypeOK
    <3>2. Keys(chain)' = Keys(chain)
      BY <1>1 DEF Keys
    <3>. QED BY <3>1, <3>2 DEF SealedOf
  <2>5. CASE ReadEntries(p)
    <3>1. pc'[p] = "sealing" /\ at'[p] = 0 /\ UNCHANGED sealed
      BY <1>0, <2>5 DEF ReadEntries, TypeOK, Places
    <3>2. Done(p)' = 0 /\ Keys(chain)' = Keys(chain)
      BY <1>1, <3>1 DEF Done, Keys
    <3>3. sealed[p] \subseteq Keys(chain)
      BY <1>0, <1>3 DEF SealedOf
    <3>. QED BY <3>1, <3>2, <3>3 DEF SealedOf
  <2>. QED BY <2>1, <2>2, <2>3, <2>4, <2>5 DEF Start, ReadSealed
<1>4. ASSUME ~cut, NEW q \in Procs, q # p PROVE SealedOf(q)'
  <2>1. /\ pc'[q] = pc[q] /\ sealed'[q] = sealed[q] /\ at'[q] = at[q]
        /\ entries'[q] = entries[q] /\ code'[q] = code[q]
    BY <1>0, <1>4 DEF Start, ReadSealed, ReadEntries, End, TypeOK
  <2>. QED BY <1>0, <1>1, <1>4, <2>1, OthersSealed
<1>5. ~cut' => \A q \in Procs : SealedOf(q)'
  BY <1>1, <1>3, <1>4
<1>. QED BY <1>2, <1>5, SealedOfAll DEF SealedInv, Uncut, Dealt, EndedMeansSealed, SealedOf

LEMMA CountRecordsKeepsSealed ==
  ASSUME MemoryInv, SealedInv, NEW p \in Procs, CountRecords(p) PROVE SealedInv'
<1>0. TypeOK /\ Uncut /\ (~cut => \A q \in Procs : SealedOf(q))
  BY SealedOfAll DEF MemoryInv
<1>1. UNCHANGED <<chain, newline, cut, sealed, entries, code>>
      /\ Keys(chain') = Keys(chain)
  BY DEF CountRecords, files, history
<1>2. Uncut'
  BY <1>0, <1>1 DEF Uncut
<1>3. /\ at'[p] \in at[p] + 1 .. Len(entries[p]) /\ at[p] \in Nat
      /\ Len(entries[p]) \in Nat
      /\ \A i \in at[p] + 1 .. at'[p] - 1 : Key(entries[p][i]) \in sealed[p]
      /\ pc[p] = "sealing" /\ pc'[p] = "counted"
      /\ \A q \in Procs : q # p => /\ pc'[q] = pc[q] /\ at'[q] = at[q]
  BY NextEntry
<1>4. ASSUME ~cut PROVE SealedOf(p)'
  <2>1. Done(p)' = at'[p] - 1 /\ Done(p) = at[p] /\ Keys(chain)' = Keys(chain)
    BY <1>1, <1>3 DEF Done, Keys
  <2>2. sealed[p] \subseteq Keys(chain)
        /\ \A i \in 1 .. at[p] : Key(Dated(entries[p][i])) \in Keys(chain)
    BY <1>0, <1>3, <1>4, <2>1 DEF SealedOf
  <2>3. ASSUME NEW i \in 1 .. at'[p] - 1
        PROVE  Key(Dated(entries[p][i])) \in Keys(chain)
    <3>1. CASE i \in 1 .. at[p]
      BY <2>2, <3>1
    <3>2. CASE i \in at[p] + 1 .. at'[p] - 1
      <4>1. i \in 1 .. Len(entries[p]) /\ Key(entries[p][i]) \in sealed[p]
        BY <1>3, <3>2
      <4>. QED BY <1>0, <2>2, <4>1, SealedEntry
    <3>. QED BY <1>3, <3>1, <3>2
  <2>. QED BY <1>1, <1>3, <2>1, <2>2, <2>3 DEF SealedOf, Key, Dated
<1>5. ASSUME ~cut, NEW q \in Procs, q # p PROVE SealedOf(q)'
  BY <1>0, <1>1, <1>3, <1>5, OthersSealed
<1>6. ~cut' => \A q \in Procs : SealedOf(q)'
  BY <1>1, <1>4, <1>5
<1>. QED BY <1>2, <1>6 DEF SealedInv, Uncut, Dealt, EndedMeansSealed, SealedOf

\* A whole line more: the file as it was, with one record after it.
LEMMA RecordAppended ==
  ASSUME MemoryInv, newline, NEW p \in Procs, AppendRecord(p),
         NEW r, r = Sealing(p)
  PROVE  /\ Len(chain) \in Nat /\ Len(chain') = Len(chain) + 1
         /\ \A i \in 1 .. Len(chain) : chain'[i] = chain[i]
         /\ chain'[Len(chain) + 1] = r
         /\ newline'
         /\ pc[p] = "counted" /\ pc'[p] = "sealing" /\ tip'[p] = r.commitment
         /\ \A q \in Procs : q # p => pc'[q] = pc[q] /\ tip'[q] = tip[q]
         /\ UNCHANGED <<convLog, sealed, entries, at, n, code, overlapped, cut>>
<1>0. TypeOK
  BY DEF MemoryInv
<1>1. /\ pc[p] = "counted" /\ pc' = [pc EXCEPT ![p] = "sealing"]
      /\ chain' = Written(r) /\ newline' = TRUE
      /\ tip' = [tip EXCEPT ![p] = r.commitment]
      /\ UNCHANGED <<convLog, sealed, entries, at, n, code, overlapped, cut>>
  BY DEF AppendRecord, history
<1>2. r \in Record
  BY <1>1, SealingRecord
<1>3. /\ Len(chain) \in Nat /\ Len(chain') = Len(chain) + 1
      /\ \A i \in 1 .. Len(chain) : chain'[i] = chain[i]
      /\ chain'[Len(chain) + 1] = r
  BY <1>0, <1>1, <1>2, WrittenLine
<1>. QED BY <1>0, <1>1, <1>3 DEF TypeOK

LEMMA AppendRecordKeepsSealed ==
  ASSUME MemoryInv, SealedInv, NEW p \in Procs, AppendRecord(p) PROVE SealedInv'
<1>0. TypeOK /\ Uncut /\ (~cut => \A q \in Procs : SealedOf(q))
  BY SealedOfAll DEF MemoryInv
<1>. SUFFICES ASSUME ~cut' PROVE SealedInv'
  BY DEF SealedInv, Uncut, Dealt, EndedMeansSealed
<1>1. ~cut /\ newline /\ \A i \in 1 .. Len(chain) : chain[i] # Torn
  BY <1>0 DEF AppendRecord, history, Uncut
<1>2. PICK r : r = Sealing(p)
  OBVIOUS
<1>3. /\ Len(chain) \in Nat /\ Len(chain') = Len(chain) + 1
      /\ \A i \in 1 .. Len(chain) : chain'[i] = chain[i]
      /\ chain'[Len(chain) + 1] = r
      /\ newline'
      /\ pc[p] = "counted" /\ pc'[p] = "sealing"
      /\ \A q \in Procs : q # p => pc'[q] = pc[q]
      /\ UNCHANGED <<sealed, entries, at, code>>
  BY <1>1, <1>2, RecordAppended
<1>4. /\ r # Torn /\ r.entry = Dated(entries[p][at[p]])
      /\ at[p] \in 1 .. Len(entries[p]) /\ Len(entries[p]) \in Nat
  BY <1>0, <1>2, <1>3, SealingRecord, LenProperties DEF TypeOK
<1>5. Uncut'
  BY <1>1, <1>3, <1>4 DEF Uncut
<1>6. /\ Keys(chain) \subseteq Keys(chain')
      /\ Key(Dated(entries[p][at[p]])) \in Keys(chain')
  BY <1>3, <1>4 DEF Keys
<1>7. SealedOf(p)'
  <2>1. Done(p)' = at[p] /\ Done(p) = at[p] - 1 /\ Keys(chain)' = Keys(chain')
    BY <1>3 DEF Done, Keys, Key
  <2>2. sealed[p] \subseteq Keys(chain)
        /\ \A i \in 1 .. at[p] - 1 : Key(Dated(entries[p][i])) \in Keys(chain)
    BY <1>0, <1>1, <1>3, <2>1 DEF SealedOf
  <2>3. \A i \in 1 .. at[p] : i \in 1 .. at[p] - 1 \/ i = at[p]
    BY <1>4
  <2>4. \A i \in 1 .. at[p] : Key(Dated(entries[p][i])) \in Keys(chain')
    BY <1>6, <2>2, <2>3
  <2>. QED BY <1>3, <1>6, <2>1, <2>2, <2>4 DEF SealedOf, Key, Dated
<1>8. ASSUME NEW q \in Procs, q # p PROVE SealedOf(q)'
  BY <1>0, <1>1, <1>3, <1>6, <1>8, OthersSealed
<1>9. \A q \in Procs : SealedOf(q)'
  BY <1>7, <1>8
<1>. QED BY <1>5, <1>9 DEF SealedInv, Uncut, Dealt, EndedMeansSealed, SealedOf

LEMMA EndingKeepsSealed ==
  ASSUME MemoryInv, SealedInv, NEW p \in Procs, Finish(p) \/ Kill(p)
  PROVE  SealedInv'
<1>0. TypeOK /\ Uncut /\ (~cut => \A q \in Procs : SealedOf(q))
  BY SealedOfAll DEF MemoryInv
<1>1. UNCHANGED <<chain, newline, entries, cut>> /\ Keys(chain') = Keys(chain)
  BY DEF Finish, Kill, files, history
<1>2. PICK c \in Codes : End(p, c) /\ (Finish(p) \/ c = "killed")
  BY FinishCode DEF Kill, Codes
<1>3. Uncut'
  BY <1>0, <1>1 DEF Uncut
<1>4. ASSUME ~cut PROVE SealedOf(p)'
  <2>1. CASE c = "killed"
    BY <1>2, <2>1, StoppedSealed
  <2>2. CASE Finish(p)
    <3>1. /\ entries[p] \in Seq(Entries) /\ Len(entries[p]) \in Nat /\ at[p] \in Nat
          /\ pc[p] = "sealing" /\ Unsealed(p) = {} /\ Done(p) = at[p]
      BY <1>0, <2>2, LenProperties DEF Finish, TypeOK, Done
    <3>2. /\ sealed[p] \subseteq Keys(chain)
          /\ \A i \in 1 .. at[p] : Key(Dated(entries[p][i])) \in Keys(chain)
      BY <1>0, <1>4, <3>1 DEF SealedOf
    <3>3. ASSUME NEW i \in 1 .. Len(entries[p])
          PROVE  Key(Dated(entries[p][i])) \in Keys(chain)
      <4>1. CASE i \in 1 .. at[p]
        BY <3>2, <4>1
      <4>2. CASE i \notin 1 .. at[p]
        <5>1. i \in at[p] + 1 .. Len(entries[p])
          BY <3>1, <4>2
        <5>2. Key(entries[p][i]) \in sealed[p]
          BY <3>1, <5>1 DEF Unsealed
        <5>. QED BY <1>0, <3>2, <5>2, SealedEntry
      <4>. QED BY <4>1, <4>2
    <3>4. DOMAIN entries'[p] = 1 .. Len(entries[p])
      BY <1>1, <3>1
    <3>. QED BY <1>1, <1>2, <3>3, <3>4, StoppedSealed
  <2>. QED BY <1>2, <2>1, <2>2
<1>5. ASSUME ~cut, NEW q \in Procs, q # p PROVE SealedOf(q)'
  <2>1. /\ pc'[q] = pc[q] /\ sealed'[q] = sealed[q] /\ at'[q] = at[q]
        /\ code'[q] = code[q]
    BY <1>0, <1>2, <1>5, EndEffects
  <2>. QED BY <1>0, <1>1, <1>5, <2>1, OthersSealed
<1>6. ~cut' => \A q \in Procs : SealedOf(q)'
  BY <1>1, <1>4, <1>5
<1>. QED BY <1>3, <1>6 DEF SealedInv, Uncut, Dealt, EndedMeansSealed, SealedOf

LEMMA NextSealed == MemoryInv /\ SealedInv /\ [Next]_vars => SealedInv'
<1>. SUFFICES ASSUME MemoryInv, SealedInv, [Next]_vars PROVE SealedInv'
  OBVIOUS
<1>1. ASSUME NEW p \in Procs,
             \/ Start(p) \/ ReadSealed(p) \/ ReadEntries(p) \/ CountRecords(p)
             \/ AppendRecord(p) \/ Finish(p) \/ Kill(p)
      PROVE  SealedInv'
  BY <1>1, EarlyStepsKeepSealed, CountRecordsKeepsSealed, AppendRecordKeepsSealed,
     EndingKeepsSealed
<1>2. ASSUME NEW p \in Procs, AppendCut(p) PROVE SealedInv'
  BY <1>2 DEF AppendCut, SealedInv, Uncut, Dealt, EndedMeansSealed
<1>3. CASE Crash
  <2>. SUFFICES ASSUME ~cut' PROVE SealedInv'
    BY DEF SealedInv, Uncut, Dealt, EndedMeansSealed
  <2>1. /\ ~cut /\ newline' /\ Len(chain') <= Len(chain)
        /\ Len(chain) \in Nat /\ Len(chain') \in Nat
        /\ \A i \in 1 .. Len(chain') : chain'[i] = chain[i]
    BY <1>3, CrashedFile DEF MemoryInv, SealedInv, Uncut
  <2>2. \A i \in 1 .. Len(chain') : i \in 1 .. Len(chain)
    BY <2>1
  <2>3. Uncut'
    BY <2>1, <2>2 DEF SealedInv, Uncut
  <2>4. \A p \in Procs : sealed'[p] = {} /\ pc'[p] = "ended" /\ code'[p] = "killed"
    BY <1>3 DEF Crash
  <2>. QED BY <2>3, <2>4 DEF SealedInv, Dealt, EndedMeansSealed
<1>4. CASE LogEntry \/ UNCHANGED vars
  <2>1. UNCHANGED <<chain, newline, pc, sealed, entries, at, code, cut>>
    BY <1>4 DEF LogEntry, vars, history
  <2>2. Uncut'
    BY <2>1 DEF SealedInv, Uncut
  <2>3. Dealt' /\ EndedMeansSealed'
    BY <2>1 DEF SealedInv, Dealt, Done, EndedMeansSealed, Keys, Key, Dated
  <2>. QED BY <2>2, <2>3 DEF SealedInv
<1>. QED BY <1>1, <1>2, <1>3, <1>4 DEF Next

-----------------------------------------------------------------------------
(* Runs one at a time *)

\* A run that is going on leaves the others ended, as they were.
LEMMA StepKeepsAlone ==
  ASSUME Alone, NEW p \in Procs, pc[p] # "ended", UNCHANGED overlapped,
         \A q \in Procs : q # p => pc'[q] = pc[q]
  PROVE  /\ Alone'
         /\ ~overlapped => \A q \in Procs : q # p => pc'[q] = "ended"
<1>1. ~overlapped => \A q \in Procs : q # p => pc[q] = "ended"
  BY DEF Alone, Active
<1>. QED BY <1>1 DEF Alone, Active

\* A step that leaves the chain alone keeps it linked when the runs that go on
\* keep their tip and have the number of lines right.
LEMMA ChainKeptLinked ==
  ASSUME Linked, UNCHANGED chain,
         ~overlapped' /\ ~cut' => ~overlapped /\ ~cut,
         ~overlapped' /\ ~cut' =>
           \A q \in Procs :
             /\ pc'[q] # "ended" => pc[q] # "ended" /\ tip'[q] = tip[q]
             /\ pc'[q] = "counted" =>
                  n'[q] = Len(chain) \/ (pc[q] = "counted" /\ n'[q] = n[q])
  PROVE  Linked'
BY DEF Linked, LinkedAt, TipAfter, Active

LEMMA InitSerial == Init => SerialInv
<1>. SUFFICES ASSUME Init PROVE SerialInv
  OBVIOUS
<1>1. \A i \in 1 .. Len(chain) : FALSE
  BY DEF Init
<1>2. \A p \in Procs : pc[p] = "ended"
  BY DEF Init
<1>. QED BY <1>1, <1>2 DEF SerialInv, Alone, Linked, Active

LEMMA StartKeepsSerial ==
  ASSUME MemoryInv, SerialInv, NEW p \in Procs, Start(p) PROVE SerialInv'
<1>0. TypeOK /\ Alone /\ Linked
  BY DEF MemoryInv, SerialInv
<1>1. /\ pc[p] = "ended" /\ UNCHANGED <<chain, newline, cut>>
      /\ ~overlapped' => ~overlapped /\ \A q \in Procs : pc[q] = "ended"
  BY DEF Start, files
<1>2. \A q \in Procs : q # p => pc'[q] = pc[q]
  BY <1>0 DEF Start, End, TypeOK
<1>3. Alone'
  BY <1>1, <1>2 DEF Alone, Active
<1>4. CASE End(p, "threw")
  <2>1. pc'[p] = "ended"
    BY <1>0, <1>4, EndEffects DEF Codes
  <2>2. ~overlapped' => \A q \in Procs : pc'[q] = "ended"
    BY <1>1, <1>2, <2>1
  <2>3. Linked'
    BY <1>0, <1>1, <2>2, ChainKeptLinked
  <2>. QED BY <1>3, <2>3 DEF SerialInv
<1>5. CASE /\ pc' = [pc EXCEPT ![p] = "started"]
           /\ tip' = [tip EXCEPT ![p] = IF chain = <<>> THEN Zero
                                        ELSE Last(chain).commitment]
  <2>1. /\ pc'[p] = "started"
        /\ tip'[p] = IF chain = <<>> THEN Zero ELSE Last(chain).commitment
    BY <1>0, <1>5 DEF TypeOK
  <2>2. tip'[p] = TipAfter(Len(chain))
    <3>1. chain \in Seq(Record \cup {Torn})
      BY <1>0 DEF TypeOK
    <3>2. chain = <<>> <=> Len(chain) = 0
      BY <3>1, EmptySeq
    <3>. QED BY <2>1, <3>2 DEF TipAfter, Last
  <2>3. ~overlapped' => \A q \in Procs : q # p => pc'[q] = "ended"
    BY <1>1, <1>2
  <2>4. Linked'
    BY <1>0, <1>1, <2>1, <2>2, <2>3 DEF Linked, LinkedAt, TipAfter, Active
  <2>. QED BY <1>3, <2>4 DEF SerialInv
<1>. QED BY <1>4, <1>5 DEF Start

\* The steps of a run that write nothing.
LEMMA ReadingKeepsSerial ==
  ASSUME MemoryInv, SerialInv, NEW p \in Procs,
         ReadSealed(p) \/ ReadEntries(p) \/ CountRecords(p) \/ Finish(p) \/ Kill(p)
  PROVE  SerialInv'
<1>0. TypeOK /\ Alone /\ Linked
  BY DEF MemoryInv, SerialInv
<1>1. pc[p] # "ended" /\ UNCHANGED <<chain, newline, overlapped, cut>>
  BY DEF ReadSealed, ReadEntries, CountRecords, Finish, Kill, files, history
<1>2. CASE \E c \in Codes : End(p, c)
  <2>1. pc'[p] = "ended" /\ \A q \in Procs : q # p => pc'[q] = pc[q]
    BY <1>0, <1>2, EndEffects
  <2>2. Alone' /\ (~overlapped => \A q \in Procs : pc'[q] = "ended")
    BY <1>0, <1>1, <2>1, StepKeepsAlone
  <2>3. Linked'
    BY <1>0, <1>1, <2>2, ChainKeptLinked
  <2>. QED BY <2>2, <2>3 DEF SerialInv
<1>3. CASE /\ UNCHANGED tip /\ \A q \in Procs : q # p => pc'[q] = pc[q]
           /\ pc'[p] = "counted" => n'[p] = Len(chain)
  <2>1. Alone' /\ (~overlapped => \A q \in Procs : q # p => pc'[q] = "ended")
    BY <1>0, <1>1, <1>3, StepKeepsAlone
  <2>2. \A q \in Procs : ~overlapped /\ pc'[q] # "ended" => q = p
    BY <2>1
  <2>3. Linked'
    BY <1>0, <1>1, <1>3, <2>2, ChainKeptLinked
  <2>. QED BY <2>1, <2>3 DEF SerialInv
<1>4. CASE ReadSealed(p)
  <2>1. CASE \E c \in {"0", "threw"} : End(p, c)
    BY <1>2, <2>1 DEF Codes
  <2>2. CASE pc' = [pc EXCEPT ![p] = "read"] /\ UNCHANGED tip
    <3>1. pc'[p] = "read" /\ \A q \in Procs : q # p => pc'[q] = pc[q]
      BY <1>0, <2>2 DEF TypeOK
    <3>. QED BY <1>3, <2>2, <3>1
  <2>. QED BY <1>4, <2>1, <2>2 DEF ReadSealed
<1>5. CASE ReadEntries(p)
  <2>1. /\ UNCHANGED tip /\ pc'[p] = "sealing"
        /\ \A q \in Procs : q # p => pc'[q] = pc[q]
    BY <1>0, <1>5 DEF ReadEntries, TypeOK
  <2>. QED BY <1>3, <2>1
<1>6. CASE CountRecords(p)
  <2>1. UNCHANGED tip /\ n'[p] = Len(chain) /\ \A q \in Procs : q # p => pc'[q] = pc[q]
    BY <1>6, NextEntry DEF CountRecords
  <2>. QED BY <1>3, <2>1
<1>7. CASE Finish(p) \/ Kill(p)
  BY <1>2, <1>7, FinishCode DEF Kill, Codes
<1>. QED BY <1>4, <1>5, <1>6, <1>7

LEMMA AppendRecordKeepsSerial ==
  ASSUME MemoryInv, SealedInv, SerialInv, NEW p \in Procs, AppendRecord(p)
  PROVE  SerialInv'
<1>0. TypeOK /\ Uncut /\ Alone /\ Linked
  BY DEF MemoryInv, SealedInv, SerialInv
<1>1. pc[p] = "counted" /\ UNCHANGED <<overlapped, cut>>
      /\ \A q \in Procs : q # p => pc'[q] = pc[q]
  BY <1>0 DEF AppendRecord, history, TypeOK
<1>2. Alone' /\ (~overlapped => \A q \in Procs : q # p => pc'[q] = "ended")
  BY <1>0, <1>1, StepKeepsAlone
<1>3. ASSUME ~overlapped, ~cut
      PROVE  /\ \A i \in 1 .. Len(chain') : LinkedAt(i)'
             /\ \A q \in Procs :
                  /\ pc'[q] # "ended" => tip'[q] = TipAfter(Len(chain))'
                  /\ pc'[q] = "counted" => n'[q] = Len(chain')
  <2>1. PICK r : r = Sealing(p)
    OBVIOUS
  <2>2. /\ Len(chain) \in Nat /\ Len(chain') = Len(chain) + 1
        /\ \A i \in 1 .. Len(chain) : chain'[i] = chain[i]
        /\ chain'[Len(chain) + 1] = r
        /\ pc'[p] = "sealing" /\ tip'[p] = r.commitment
    BY <1>0, <1>3, <2>1, RecordAppended DEF Uncut
  <2>3. r.commitment = Commit(tip[p], Encode[r.entry]) /\ r.n = n[p]
    BY <1>1, <2>1, SealingRecord
  <2>4. /\ \A i \in 1 .. Len(chain) : LinkedAt(i)
        /\ tip[p] = TipAfter(Len(chain)) /\ n[p] = Len(chain)
    BY <1>0, <1>1, <1>3 DEF Linked, Active
  <2>5. \A i \in 0 .. Len(chain) : TipAfter(i)' = TipAfter(i)
    BY <2>2 DEF TipAfter
  <2>6. ASSUME NEW i \in 1 .. Len(chain) PROVE LinkedAt(i)'
    <3>1. i - 1 \in 0 .. Len(chain)
      BY <2>2
    <3>2. TipAfter(i - 1)' = TipAfter(i - 1)
      BY <2>5, <3>1
    <3>. QED BY <2>2, <2>4, <3>2 DEF LinkedAt
  <2>7. ASSUME NEW i, i = Len(chain) + 1 PROVE LinkedAt(i)'
    <3>1. i - 1 = Len(chain) /\ Len(chain) \in 0 .. Len(chain)
      BY <2>2, <2>7
    <3>2. TipAfter(i - 1)' = tip[p]
      BY <2>4, <2>5, <3>1
    <3>3. chain'[i] = r
      BY <2>2, <2>7
    <3>. QED BY <2>3, <2>4, <3>1, <3>2, <3>3 DEF LinkedAt
  <2>8. \A i \in 1 .. Len(chain') : i \in 1 .. Len(chain) \/ i = Len(chain) + 1
    BY <2>2
  <2>9. tip'[p] = TipAfter(Len(chain))'
    BY <2>2 DEF TipAfter
  <2>. QED BY <1>2, <1>3, <2>2, <2>6, <2>7, <2>8, <2>9
<1>. QED BY <1>1, <1>2, <1>3 DEF SerialInv, Linked, Active

LEMMA NextSerial == MemoryInv /\ SealedInv /\ SerialInv /\ [Next]_vars => SerialInv'
<1>. SUFFICES ASSUME MemoryInv, SealedInv, SerialInv, [Next]_vars PROVE SerialInv'
  OBVIOUS
<1>0. TypeOK /\ Alone /\ Linked
  BY DEF MemoryInv, SerialInv
<1>1. ASSUME NEW p \in Procs,
             \/ Start(p) \/ ReadSealed(p) \/ ReadEntries(p) \/ CountRecords(p)
             \/ AppendRecord(p) \/ Finish(p) \/ Kill(p)
      PROVE  SerialInv'
  BY <1>1, StartKeepsSerial, ReadingKeepsSerial, AppendRecordKeepsSerial
<1>2. ASSUME NEW p \in Procs, AppendCut(p) PROVE SerialInv'
  <2>1. pc[p] # "ended" /\ UNCHANGED overlapped /\ cut' = TRUE /\ End(p, "threw")
    BY <1>2 DEF AppendCut
  <2>2. \A q \in Procs : q # p => pc'[q] = pc[q]
    BY <1>0, <2>1, EndEffects DEF Codes
  <2>3. Alone'
    BY <1>0, <2>1, <2>2, StepKeepsAlone
  <2>. QED BY <2>1, <2>3 DEF SerialInv, Linked
<1>3. CASE Crash
  <2>1. UNCHANGED overlapped /\ \A q \in Procs : pc'[q] = "ended"
    BY <1>3 DEF Crash
  <2>2. ASSUME ~overlapped', ~cut', NEW i \in 1 .. Len(chain') PROVE LinkedAt(i)'
    <3>1. /\ ~cut /\ Len(chain') <= Len(chain)
          /\ Len(chain) \in Nat /\ Len(chain') \in Nat
          /\ \A j \in 1 .. Len(chain') : chain'[j] = chain[j]
      BY <1>0, <1>3, <2>2, CrashedFile
    <3>2. i \in 1 .. Len(chain) /\ (i - 1 # 0 => i - 1 \in 1 .. Len(chain'))
      BY <3>1
    <3>3. LinkedAt(i)
      BY <1>0, <2>1, <2>2, <3>1, <3>2 DEF Linked
    <3>4. TipAfter(i - 1)' = TipAfter(i - 1)
      BY <3>1, <3>2 DEF TipAfter
    <3>. QED BY <3>1, <3>3, <3>4 DEF LinkedAt
  <2>. QED BY <2>1, <2>2 DEF SerialInv, Alone, Linked, Active
<1>4. CASE LogEntry \/ UNCHANGED vars
  <2>1. UNCHANGED <<chain, pc, tip, n, overlapped, cut>>
    BY <1>4 DEF LogEntry, vars, history
  <2>. QED BY <2>1 DEF SerialInv, Alone, Linked, LinkedAt, TipAfter, Active
<1>. QED BY <1>1, <1>2, <1>3, <1>4 DEF Next

-----------------------------------------------------------------------------
(* What verifyChain computes on a linked chain *)

\* Induction over the naturals, as a fact about sets.
LEMMA SetInduction ==
  ASSUME NEW S \in SUBSET Nat, 0 \in S, \A i \in S : i + 1 \in S
  PROVE  S = Nat
<1>. DEFINE T == Nat \ S
<1>1. SUFFICES ASSUME T # {} PROVE FALSE
  OBVIOUS
<1>2. Min(T) \in T /\ \A x \in T : Min(T) <= x
  BY <1>1, MinProperties
<1>. DEFINE x == Min(T)
<1>. HIDE DEF x
<1>3. x \in Nat /\ x # 0
  BY <1>2 DEF x
<1>4. x - 1 \in Nat /\ (x - 1) + 1 = x /\ x - 1 < x
  BY <1>3
<1>5. x - 1 \notin T
  BY <1>2, <1>4 DEF x
<1>. QED BY <1>2, <1>4, <1>5 DEF x

\* All lines are read when all can be parsed.
LEMMA AllParsed ==
  ASSUME TypeOK, \A i \in 1 .. Len(chain) : chain[i] # Torn
  PROVE  Parsed(chain) = Len(chain) /\ SubSeq(chain, 1, Parsed(chain)) = chain
<1>. DEFINE m == Len(chain)
            lines == chain \o <<Torn>>
            I == {i \in 1 .. Len(lines) : lines[i] = Torn}
<1>1. chain \in Seq(Record \cup {Torn}) /\ m \in Nat
  BY LenProperties DEF TypeOK
<1>2. /\ Len(lines) = m + 1 /\ lines[m + 1] = Torn
      /\ \A i \in 1 .. m : lines[i] = chain[i]
  BY <1>1
<1>3. I = {m + 1}
  <2>. HIDE DEF lines, m
  <2>1. \A i \in 1 .. m + 1 : i \in 1 .. m \/ i = m + 1
    BY <1>1
  <2>2. \A i \in 1 .. m : lines[i] # Torn
    BY <1>2 DEF m
  <2>3. m + 1 \in 1 .. Len(lines)
    BY <1>1, <1>2
  <2>. QED BY <1>2, <2>1, <2>2, <2>3
<1>4. Min(I) = m + 1
  <2>1. I \in SUBSET Nat /\ I # {}
    BY <1>1, <1>3
  <2>2. Min(I) \in I
    BY <2>1, MinProperties
  <2>. QED BY <1>3, <2>2
<1>5. Parsed(chain) = Min(I) - 1
  BY <1>3 DEF Parsed, SelectInSeq
<1>6. Parsed(chain) = m
  <2>. HIDE DEF I, m
  <2>. QED BY <1>1, <1>4, <1>5
<1>7. SubSeq(chain, 1, m) = chain
  BY <1>1
<1>. QED BY <1>6, <1>7

\* The recursive expected[] is the records' own commitments, as long as each
\* record is linked.
LEMMA ExpectedOfLinked ==
  ASSUME TypeOK, \A i \in 1 .. Len(chain) : LinkedAt(i)
  PROVE  \A i \in 1 .. Len(chain) : Expected(chain)[i] = chain[i].commitment
<1>. DEFINE m == Len(chain)
            Step(f) == [i \in 0 .. m |->
                          IF i = 0 THEN Zero
                          ELSE Commit(f[i - 1], Encode[chain[i].entry])]
            own == [i \in 0 .. m |-> TipAfter(i)]
            expected == CHOOSE f : f = Step(f)
<1>1. m \in Nat
  BY LenProperties DEF TypeOK
<1>2. \A i \in 0 .. m : own[i] = TipAfter(i)
  OBVIOUS
<1>3. TipAfter(0) = Zero /\ \A i \in 1 .. m : TipAfter(i) = chain[i].commitment
  BY <1>1 DEF TipAfter
<1>4. ASSUME NEW i \in 1 .. m
      PROVE  own[i] = Commit(own[i - 1], Encode[chain[i].entry])
  <2>1. i \in 0 .. m /\ i - 1 \in 0 .. m
    BY <1>1
  <2>. QED BY <1>2, <1>3, <2>1 DEF LinkedAt
<1>5. own = Step(own)
  <2>1. ASSUME NEW i \in 0 .. m PROVE own[i] = Step(own)[i]
    <3>1. CASE i = 0
      BY <1>2, <1>3, <3>1
    <3>2. CASE i # 0
      <4>1. i \in 1 .. m
        BY <1>1, <3>2
      <4>. HIDE DEF own
      <4>. QED BY <1>4, <3>2, <4>1
    <3>. QED BY <3>1, <3>2
  <2>. HIDE DEF own
  <2>2. own = [i \in 0 .. m |-> own[i]]
    BY DEF own
  <2>. QED BY <2>1, <2>2
<1>6. expected = Step(expected)
  <2>. HIDE DEF own, Step
  <2>. QED BY <1>5
<1>7. Expected(chain) = expected
  BY DEF Expected
<1>8. \A i \in 0 .. m : expected[i] = own[i]
  <2>. DEFINE S == {i \in Nat : i <= m => expected[i] = own[i]}
  <2>. HIDE DEF own, expected, m
  <2>1. 0 \in S
    <3>1. expected[0] = Zero
      BY <1>1, <1>6
    <3>2. own[0] = Zero
      BY <1>1, <1>2, <1>3
    <3>. QED BY <3>1, <3>2
  <2>2. ASSUME NEW i \in S PROVE i + 1 \in S
    <3>1. ASSUME i + 1 <= m PROVE expected[i + 1] = own[i + 1]
      <4>1. i + 1 \in 1 .. m /\ i \in 0 .. m /\ (i + 1) - 1 = i /\ i + 1 # 0
            /\ i + 1 \in 0 .. m
        BY <1>1, <3>1
      <4>2. expected[i] = own[i]
        BY <4>1
      <4>3. own[i + 1] = Commit(own[i], Encode[chain[i + 1].entry])
        BY <1>4, <4>1
      <4>4. expected[i + 1] = Step(expected)[i + 1]
        BY <1>6
      <4>5. Step(expected)[i + 1] = Commit(expected[i], Encode[chain[i + 1].entry])
        BY <4>1
      <4>. QED BY <4>2, <4>3, <4>4, <4>5
    <3>. QED BY <3>1
  <2>3. S = Nat
    <3>. HIDE DEF S
    <3>1. S \in SUBSET Nat
      BY DEF S
    <3>. QED BY <2>1, <2>2, <3>1, SetInduction
  <2>. QED BY <2>3
<1>9. \A i \in 1 .. m : i \in 0 .. m
  BY <1>1
<1>. QED BY <1>2, <1>3, <1>7, <1>8, <1>9

\* A linked chain verifies.
LEMMA LinkedVerifies ==
  ASSUME MemoryInv, SealedInv, SerialInv PROVE SerialRunsVerify
<1>. SUFFICES ASSUME ~overlapped, ~cut
              PROVE  VerifyChain = "ok" /\ \A i \in DOMAIN chain : chain[i].n = i - 1
  BY DEF SerialRunsVerify
<1>1. /\ TypeOK /\ \A i \in 1 .. Len(chain) : chain[i] # Torn
      /\ \A i \in 1 .. Len(chain) : LinkedAt(i)
  BY DEF MemoryInv, SealedInv, Uncut, SerialInv, Linked
<1>2. chain \in Seq(Record \cup {Torn}) /\ Len(chain) \in Nat
      /\ DOMAIN chain = 1 .. Len(chain)
  BY <1>1, LenProperties DEF TypeOK
<1>3. SubSeq(chain, 1, Parsed(chain)) = chain
  BY <1>1, AllParsed
<1>4. \A i \in 1 .. Len(chain) : Expected(chain)[i] = chain[i].commitment
  BY <1>1, ExpectedOfLinked
<1>5. VerifyChain = "ok"
  <2>. DEFINE read == SubSeq(chain, 1, Parsed(chain))
  <2>1. VerifyChain =
          IF \E i \in DOMAIN read : read[i].commitment # Expected(read)[i] THEN "broken"
          ELSE IF Len(read) < Len(chain) THEN "threw" ELSE "ok"
    BY DEF VerifyChain
  <2>2. read = chain
    BY <1>3
  <2>. HIDE DEF read
  <2>. QED BY <1>2, <1>4, <2>1, <2>2
<1>. QED BY <1>1, <1>2, <1>5 DEF LinkedAt

-----------------------------------------------------------------------------
(* How often a key is sealed *)

DatedKeys == Problems \X Times

\* The entries with a key among the first m that a run has read.
FirstAs(p, m, k) == {i \in 1 .. m : Key(entries[p][i]) = k}

LEMMA FirstFinite ==
  ASSUME NEW p, NEW m \in Nat, NEW k
  PROVE  IsFiniteSet(FirstAs(p, m, k)) /\ Cardinality(FirstAs(p, m, k)) \in Nat
<1>1. IsFiniteSet(1 .. m)
  BY FS_Interval
<1>2. FirstAs(p, m, k) \in SUBSET (1 .. m)
  BY DEF FirstAs
<1>. QED BY <1>1, <1>2, FS_Subset, FS_CardinalityType

LEMMA FirstGrows ==
  ASSUME NEW p, NEW m \in Nat, NEW l \in Nat, l <= m, NEW k
  PROVE  Cardinality(FirstAs(p, l, k)) <= Cardinality(FirstAs(p, m, k))
<1>1. FirstAs(p, l, k) \in SUBSET FirstAs(p, m, k)
  BY DEF FirstAs
<1>. QED BY <1>1, FirstFinite, FS_Subset

\* The records and the entries with a key are finitely many.
LEMMA FiniteAs ==
  ASSUME TypeOK, NEW k
  PROVE  /\ IsFiniteSet(SealedAs(k)) /\ Cardinality(SealedAs(k)) \in Nat
         /\ IsFiniteSet(LoggedAs(k)) /\ Cardinality(LoggedAs(k)) \in Nat
<1>1. /\ Len(chain) \in Nat /\ DOMAIN chain = 1 .. Len(chain)
      /\ Len(convLog) \in Nat /\ DOMAIN convLog = 1 .. Len(convLog)
  BY LenProperties DEF TypeOK
<1>2. IsFiniteSet(DOMAIN chain) /\ IsFiniteSet(DOMAIN convLog)
  BY <1>1, FS_Interval
<1>3. SealedAs(k) \in SUBSET (DOMAIN chain) /\ LoggedAs(k) \in SUBSET (DOMAIN convLog)
  BY DEF SealedAs, LoggedAs
<1>. QED BY <1>2, <1>3, FS_Subset, FS_CardinalityType

\* Lines that are lost or torn are no records any more.
LEMMA SealedShrinks ==
  ASSUME TypeOK, chain' \in Seq(Record \cup {Torn}), Len(chain') <= Len(chain),
         \A i \in 1 .. Len(chain') : chain'[i] \in {chain[i], Torn}, NEW k
  PROVE  Cardinality(SealedAs(k)') <= Cardinality(SealedAs(k))
<1>1. /\ Len(chain) \in Nat /\ DOMAIN chain = 1 .. Len(chain)
      /\ Len(chain') \in Nat /\ DOMAIN chain' = 1 .. Len(chain')
  BY LenProperties DEF TypeOK
<1>2. SealedAs(k)' \in SUBSET SealedAs(k)
  BY <1>1 DEF SealedAs
<1>. QED BY <1>2, FiniteAs, FS_Subset

\* Done is a number, and what a run has dealt with is among its first entries.
LEMMA DoneType ==
  ASSUME MemoryInv, NEW p \in Procs
  PROVE  /\ Done(p) \in Nat /\ at[p] \in Nat /\ Done(p) <= at[p]
         /\ \A k : DealtAs(p, k) = FirstAs(p, Done(p), k)
<1>1. at[p] \in Nat /\ (pc[p] = "counted" => at[p] # 0)
  BY DEF MemoryInv, TypeOK, Places
<1>. QED BY <1>1 DEF Done, DealtAs, FirstAs

\* Steps that add no record: the log may grow, and the runs that go on have
\* dealt with more.
LEMMA OnceKept ==
  ASSUME MemoryInv, OnceInv, ~overlapped' => ~overlapped,
         \A k \in DatedKeys :
           /\ Cardinality(SealedAs(k)') \in Nat /\ Cardinality(LoggedAs(k)') \in Nat
           /\ Cardinality(SealedAs(k)') <= Cardinality(SealedAs(k))
           /\ Cardinality(LoggedAs(k)) <= Cardinality(LoggedAs(k)'),
         ~overlapped' => \A q \in Procs : \A k \in DatedKeys :
           pc'[q] \in {"read", "sealing", "counted"} /\ k \notin sealed'[q] =>
             /\ pc[q] \in {"read", "sealing", "counted"} /\ k \notin sealed[q]
             /\ Cardinality(DealtAs(q, k)') \in Nat
             /\ Cardinality(DealtAs(q, k)) <= Cardinality(DealtAs(q, k)')
  PROVE  OnceInv'
<1>1. ASSUME ~overlapped', NEW k \in DatedKeys
      PROVE  Cardinality(SealedAs(k)') <= Cardinality(LoggedAs(k)')
  <2>1. Cardinality(SealedAs(k)) <= Cardinality(LoggedAs(k))
    BY <1>1 DEF OnceInv, SealedOnce, DatedKeys
  <2>2. Cardinality(SealedAs(k)) \in Nat /\ Cardinality(LoggedAs(k)) \in Nat
    BY FiniteAs DEF MemoryInv
  <2>. QED BY <1>1, <2>1, <2>2
<1>2. ASSUME ~overlapped', NEW q \in Procs, NEW k \in DatedKeys,
             pc'[q] \in {"read", "sealing", "counted"}, k \notin sealed'[q]
      PROVE  Cardinality(SealedAs(k)') <= Cardinality(DealtAs(q, k)')
  <2>1. /\ pc[q] \in {"read", "sealing", "counted"} /\ k \notin sealed[q]
        /\ Cardinality(DealtAs(q, k)') \in Nat
        /\ Cardinality(DealtAs(q, k)) <= Cardinality(DealtAs(q, k)')
    BY <1>2
  <2>2. Cardinality(SealedAs(k)) <= Cardinality(DealtAs(q, k))
    BY <1>2, <2>1 DEF OnceInv, NewRecords, DatedKeys
  <2>3. Cardinality(SealedAs(k)) \in Nat /\ Cardinality(DealtAs(q, k)) \in Nat
    BY FiniteAs, DoneType, FirstFinite DEF MemoryInv
  <2>. QED BY <1>2, <2>1, <2>2, <2>3
<1>. QED BY <1>1, <1>2 DEF OnceInv, SealedOnce, NewRecords, DatedKeys

\* A line written by a run that has counted: its key was not sealed, and the
\* entry is one more that the run has dealt with.
LEMMA LineWrittenOnce ==
  ASSUME MemoryInv, OnceInv, ~overlapped, NEW p \in Procs, pc[p] = "counted",
         NEW r, r = Sealing(p), NEW line \in {Torn, r}, chain' = Written(line),
         NEW k \in DatedKeys
  PROVE  /\ Cardinality(SealedAs(k)') <= Cardinality(LoggedAs(k))
         /\ k \notin sealed[p] =>
              Cardinality(SealedAs(k)') <= Cardinality(FirstAs(p, at[p], k))
<1>0. TypeOK /\ Places
  BY DEF MemoryInv
<1>1. /\ r \in Record /\ r # Torn
      /\ at[p] \in 1 .. Len(entries[p]) /\ entries[p][at[p]] \in Entries
      /\ r.entry = Dated(entries[p][at[p]])
  BY SealingRecord
<1>2. /\ chain' \in Seq(Record \cup {Torn}) /\ Len(chain) \in Nat
      /\ newline => /\ Len(chain') = Len(chain) + 1
                    /\ \A i \in 1 .. Len(chain) : chain'[i] = chain[i]
                    /\ chain'[Len(chain) + 1] = line
      /\ ~newline => /\ Len(chain') = Len(chain)
                     /\ \A i \in 1 .. Len(chain) : chain'[i] \in {chain[i], Torn}
  BY <1>0, <1>1, WrittenLine
<1>3. DOMAIN chain = 1 .. Len(chain) /\ DOMAIN chain' = 1 .. Len(chain')
  BY <1>0, <1>2, LenProperties DEF TypeOK
<1>. DEFINE S == SealedAs(k)
            D == FirstAs(p, at[p] - 1, k)
            D1 == FirstAs(p, at[p], k)
<1>4. /\ at[p] \in Nat /\ at[p] - 1 \in Nat /\ Len(entries[p]) \in Nat
      /\ Len(entries[p]) <= Len(convLog) /\ Len(convLog) \in Nat
      /\ \A i \in 1 .. Len(entries[p]) : entries[p][i] = convLog[i]
      /\ Key(entries[p][at[p]]) \notin sealed[p]
  BY <1>0, <1>1, LenProperties DEF TypeOK, Places
<1>5. /\ Cardinality(D) \in Nat /\ Cardinality(D1) \in Nat /\ IsFiniteSet(D)
      /\ Cardinality(D) <= Cardinality(D1)
  BY <1>4, FirstFinite, FirstGrows
<1>6. Cardinality(D1) <= Cardinality(LoggedAs(k))
  <2>1. D1 \in SUBSET LoggedAs(k)
    <3>1. DOMAIN convLog = 1 .. Len(convLog)
      BY <1>0, LenProperties DEF TypeOK
    <3>. QED BY <1>1, <1>4, <3>1 DEF FirstAs, LoggedAs
  <2>. QED BY <1>0, <2>1, FiniteAs, FS_Subset
<1>7. /\ IsFiniteSet(S) /\ Cardinality(S) \in Nat /\ Cardinality(LoggedAs(k)) \in Nat
      /\ Cardinality(S) <= Cardinality(LoggedAs(k))
  BY <1>0, FiniteAs DEF OnceInv, SealedOnce, DatedKeys
<1>8. k \notin sealed[p] => Cardinality(S) <= Cardinality(D)
  <2>1. DealtAs(p, k) = D
    BY DEF DealtAs, FirstAs, Done
  <2>. QED BY <2>1 DEF OnceInv, NewRecords, DatedKeys
<1>9. CASE newline /\ line = r /\ Key(r.entry) = k
  <2>1. Key(entries[p][at[p]]) = k
    BY <1>1, <1>9, DatedEntry DEF DatedKeys
  <2>2. D1 = D \cup {at[p]} /\ at[p] \notin D
    BY <1>4, <2>1 DEF FirstAs
  <2>3. Cardinality(D1) = Cardinality(D) + 1
    BY <1>5, <2>2, FS_AddElement
  <2>4. SealedAs(k)' \in SUBSET (S \cup {Len(chain) + 1})
    BY <1>2, <1>3, <1>9 DEF SealedAs
  <2>5. /\ IsFiniteSet(S \cup {Len(chain) + 1})
        /\ Cardinality(S \cup {Len(chain) + 1}) <= Cardinality(S) + 1
        /\ Cardinality(S \cup {Len(chain) + 1}) \in Nat
    <3>. HIDE DEF S
    <3>1. PICK x : x = Len(chain) + 1
      OBVIOUS
    <3>2. /\ IsFiniteSet(S \cup {x})
          /\ Cardinality(S \cup {x}) =
               IF x \in S THEN Cardinality(S) ELSE Cardinality(S) + 1
      BY <1>7, FS_AddElement
    <3>. QED BY <1>7, <3>1, <3>2
  <2>6. /\ Cardinality(SealedAs(k)') <= Cardinality(S \cup {Len(chain) + 1})
        /\ Cardinality(SealedAs(k)') \in Nat
    BY <2>4, <2>5, FS_Subset, FS_CardinalityType
  <2>7. Cardinality(S) <= Cardinality(D)
    BY <1>4, <1>8, <2>1
  <2>. HIDE DEF S, D, D1
  <2>8. Cardinality(SealedAs(k)') <= Cardinality(D1)
    BY <1>5, <1>7, <2>3, <2>5, <2>6, <2>7
  <2>. QED BY <1>5, <1>6, <1>7, <2>6, <2>8 DEF D1
<1>10. CASE ~(newline /\ line = r /\ Key(r.entry) = k)
  <2>1. SealedAs(k)' \in SUBSET S
    <3>1. CASE newline
      <4>1. \A i \in 1 .. Len(chain') : i \in 1 .. Len(chain) \/ i = Len(chain) + 1
        BY <1>2, <3>1
      <4>. QED BY <1>2, <1>3, <1>10, <3>1, <4>1 DEF SealedAs
    <3>2. CASE ~newline
      BY <1>2, <1>3, <3>2 DEF SealedAs
    <3>. QED BY <3>1, <3>2
  <2>2. Cardinality(SealedAs(k)') <= Cardinality(S) /\ Cardinality(SealedAs(k)') \in Nat
    BY <1>7, <2>1, FS_Subset, FS_CardinalityType
  <2>. HIDE DEF S, D, D1
  <2>. QED BY <1>5, <1>7, <1>8, <2>2 DEF D1
<1>. QED BY <1>9, <1>10

LEMMA InitOnce == Init => OnceInv
<1>. SUFFICES ASSUME Init PROVE OnceInv
  OBVIOUS
<1>1. TypeOK
  BY InitMemory DEF MemoryInv
<1>2. ASSUME NEW k PROVE Cardinality(SealedAs(k)) <= Cardinality(LoggedAs(k))
  <2>1. SealedAs(k) = {}
    BY DEF Init, SealedAs
  <2>2. Cardinality(LoggedAs(k)) \in Nat
    BY <1>1, FiniteAs
  <2>. QED BY <2>1, <2>2, FS_EmptySet
<1>3. \A p \in Procs : pc[p] = "ended"
  BY DEF Init
<1>. QED BY <1>2, <1>3 DEF OnceInv, SealedOnce, NewRecords

\* The files as they were hold what they held.
LEMMA FilesKept ==
  ASSUME TypeOK, UNCHANGED <<convLog, chain>>, NEW k
  PROVE  /\ Cardinality(SealedAs(k)') \in Nat /\ Cardinality(LoggedAs(k)') \in Nat
         /\ Cardinality(SealedAs(k)') <= Cardinality(SealedAs(k))
         /\ Cardinality(LoggedAs(k)) <= Cardinality(LoggedAs(k)')
<1>1. SealedAs(k)' = SealedAs(k) /\ LoggedAs(k)' = LoggedAs(k)
  BY DEF SealedAs, LoggedAs
<1>. QED BY <1>1, FiniteAs

\* Steps after which no run is going on, or only one that has read nothing.
LEMMA StartKeepsOnce ==
  ASSUME MemoryInv, OnceInv, NEW p \in Procs, Start(p) PROVE OnceInv'
<1>0. TypeOK
  BY DEF MemoryInv
<1>1. /\ UNCHANGED <<convLog, chain>>
      /\ ~overlapped' => ~overlapped /\ \A q \in Procs : pc[q] = "ended"
  BY DEF Start, files
<1>2. pc'[p] \in {"started", "ended"} /\ \A q \in Procs : q # p => pc'[q] = pc[q]
  BY <1>0 DEF Start, End, TypeOK
<1>3. ~overlapped' => \A q \in Procs : pc'[q] \notin {"read", "sealing", "counted"}
  BY <1>1, <1>2
<1>. QED BY <1>0, <1>1, <1>3, FilesKept, OnceKept

LEMMA EndingKeepsOnce ==
  ASSUME MemoryInv, Alone, OnceInv, NEW p \in Procs, pc[p] # "ended",
         NEW c \in Codes, End(p, c), UNCHANGED <<convLog, chain, overlapped>>
  PROVE  OnceInv'
<1>0. TypeOK
  BY DEF MemoryInv
<1>1. pc'[p] = "ended" /\ \A q \in Procs : q # p => pc'[q] = pc[q]
  BY <1>0, EndEffects
<1>2. ~overlapped' => \A q \in Procs : pc'[q] = "ended"
  BY <1>1, StepKeepsAlone
<1>. QED BY <1>0, <1>2, FilesKept, OnceKept

LEMMA ReadSealedKeepsOnce ==
  ASSUME MemoryInv, Alone, OnceInv, NEW p \in Procs, ReadSealed(p) PROVE OnceInv'
<1>0. TypeOK
  BY DEF MemoryInv
<1>1. pc[p] # "ended" /\ UNCHANGED <<convLog, chain, entries, overlapped>>
  BY DEF ReadSealed, files, history
<1>2. CASE \E c \in {"0", "threw"} : End(p, c)
  BY <1>1, <1>2, EndingKeepsOnce DEF Codes
<1>3. CASE /\ \A i \in 1 .. Len(chain) : chain[i] # Torn
           /\ pc' = [pc EXCEPT ![p] = "read"]
           /\ sealed' = [sealed EXCEPT ![p] = Keys(chain)]
           /\ UNCHANGED <<tip, at, n, code>>
  <2>1. /\ pc'[p] = "read" /\ sealed'[p] = Keys(chain)
        /\ \A q \in Procs : q # p => pc'[q] = pc[q]
    BY <1>0, <1>3 DEF TypeOK
  <2>2. ~overlapped' => ~overlapped /\ \A q \in Procs : q # p => pc'[q] = "ended"
    BY <1>1, <2>1, StepKeepsAlone
  <2>3. ASSUME NEW k \in DatedKeys, k \notin sealed'[p]
        PROVE  Cardinality(SealedAs(k)') <= Cardinality(DealtAs(p, k)')
    <3>1. DOMAIN chain = 1 .. Len(chain)
      BY <1>0, LenProperties DEF TypeOK
    <3>2. SealedAs(k)' = {}
      BY <1>1, <2>1, <2>3, <3>1 DEF SealedAs, Keys
    <3>3. at'[p] = at[p] /\ at[p] \in Nat
      BY <1>0, <1>3 DEF TypeOK
    <3>4. DealtAs(p, k)' = FirstAs(p, at[p], k)
      BY <1>1, <2>1, <3>3 DEF DealtAs, Done, FirstAs
    <3>5. Cardinality(DealtAs(p, k)') \in Nat
      BY <3>3, <3>4, FirstFinite
    <3>. QED BY <3>2, <3>5, FS_EmptySet
  <2>4. NewRecords'
    BY <2>1, <2>2, <2>3 DEF NewRecords, DatedKeys
  <2>5. SealedOnce'
    BY <1>1 DEF OnceInv, SealedOnce, SealedAs, LoggedAs
  <2>. QED BY <2>4, <2>5 DEF OnceInv
<1>. QED BY <1>2, <1>3 DEF ReadSealed

\* The steps of a run between reading and writing.
LEMMA ReadEntriesKeepsOnce ==
  ASSUME MemoryInv, Alone, OnceInv, NEW p \in Procs, ReadEntries(p) PROVE OnceInv'
<1>0. TypeOK /\ Places
  BY DEF MemoryInv
<1>1. /\ pc[p] = "read" /\ pc' = [pc EXCEPT ![p] = "sealing"]
      /\ UNCHANGED <<convLog, chain, sealed, at, overlapped>>
  BY DEF ReadEntries, files, history
<1>2. /\ pc'[p] = "sealing" /\ at[p] = 0
      /\ \A q \in Procs : q # p => pc'[q] = pc[q]
  BY <1>0, <1>1 DEF TypeOK, Places
<1>3. ~overlapped => \A q \in Procs : q # p => pc'[q] = "ended"
  BY <1>1, <1>2, StepKeepsAlone
<1>4. ASSUME NEW k
      PROVE  /\ Cardinality(DealtAs(p, k)') \in Nat
             /\ Cardinality(DealtAs(p, k)) <= Cardinality(DealtAs(p, k)')
  <2>1. DealtAs(p, k)' = {} /\ DealtAs(p, k) = {}
    BY <1>1, <1>2 DEF DealtAs, Done
  <2>. QED BY <2>1, FS_EmptySet
<1>5. ~overlapped' => \A q \in Procs : \A k \in DatedKeys :
        pc'[q] \in {"read", "sealing", "counted"} /\ k \notin sealed'[q] =>
          /\ pc[q] \in {"read", "sealing", "counted"} /\ k \notin sealed[q]
          /\ Cardinality(DealtAs(q, k)') \in Nat
          /\ Cardinality(DealtAs(q, k)) <= Cardinality(DealtAs(q, k)')
  BY <1>1, <1>3, <1>4
<1>. QED BY <1>0, <1>1, <1>5, FilesKept, OnceKept

LEMMA CountRecordsKeepsOnce ==
  ASSUME MemoryInv, Alone, OnceInv, NEW p \in Procs, CountRecords(p) PROVE OnceInv'
<1>0. TypeOK
  BY DEF MemoryInv
<1>1. UNCHANGED <<convLog, chain, sealed, entries, overlapped>>
  BY DEF CountRecords, files, history
<1>2. /\ at'[p] \in at[p] + 1 .. Len(entries[p]) /\ at[p] \in Nat
      /\ Len(entries[p]) \in Nat
      /\ pc[p] = "sealing" /\ pc'[p] = "counted"
      /\ \A q \in Procs : q # p => pc'[q] = pc[q]
  BY NextEntry
<1>3. ~overlapped => \A q \in Procs : q # p => pc'[q] = "ended"
  BY <1>1, <1>2, StepKeepsAlone
<1>4. ASSUME NEW k
      PROVE  /\ Cardinality(DealtAs(p, k)') \in Nat
             /\ Cardinality(DealtAs(p, k)) <= Cardinality(DealtAs(p, k)')
  <2>1. PICK m : m = at'[p] - 1
    OBVIOUS
  <2>2. m \in Nat /\ at[p] <= m
    BY <1>2, <2>1
  <2>3. DealtAs(p, k) = FirstAs(p, at[p], k)
    BY <1>2 DEF DealtAs, Done, FirstAs
  <2>4. DealtAs(p, k)' = FirstAs(p, m, k)
    BY <1>1, <1>2, <2>1 DEF DealtAs, Done, FirstAs
  <2>. QED BY <1>2, <2>2, <2>3, <2>4, FirstFinite, FirstGrows
<1>5. ~overlapped' => \A q \in Procs : \A k \in DatedKeys :
        pc'[q] \in {"read", "sealing", "counted"} /\ k \notin sealed'[q] =>
          /\ pc[q] \in {"read", "sealing", "counted"} /\ k \notin sealed[q]
          /\ Cardinality(DealtAs(q, k)') \in Nat
          /\ Cardinality(DealtAs(q, k)) <= Cardinality(DealtAs(q, k)')
  BY <1>1, <1>2, <1>3, <1>4
<1>. QED BY <1>0, <1>1, <1>5, FilesKept, OnceKept

LEMMA AppendRecordKeepsOnce ==
  ASSUME MemoryInv, Alone, OnceInv, NEW p \in Procs, AppendRecord(p) PROVE OnceInv'
<1>. SUFFICES ASSUME ~overlapped' PROVE OnceInv'
  BY DEF OnceInv, SealedOnce, NewRecords
<1>1. PICK r : r = Sealing(p)
  OBVIOUS
<1>2. /\ pc[p] = "counted" /\ pc' = [pc EXCEPT ![p] = "sealing"]
      /\ chain' = Written(r) /\ ~overlapped
      /\ UNCHANGED <<convLog, sealed, entries, at, overlapped>>
  BY <1>1 DEF AppendRecord, history
<1>3. pc'[p] = "sealing" /\ \A q \in Procs : q # p => pc'[q] = pc[q]
  BY <1>2 DEF MemoryInv, TypeOK
<1>4. \A q \in Procs : q # p => pc'[q] = "ended"
  BY <1>2, <1>3, StepKeepsAlone
<1>5. ASSUME NEW k \in DatedKeys
      PROVE  /\ Cardinality(SealedAs(k)') <= Cardinality(LoggedAs(k)')
             /\ k \notin sealed'[p] =>
                  Cardinality(SealedAs(k)') <= Cardinality(DealtAs(p, k)')
  <2>1. /\ Cardinality(SealedAs(k)') <= Cardinality(LoggedAs(k))
        /\ k \notin sealed[p] =>
             Cardinality(SealedAs(k)') <= Cardinality(FirstAs(p, at[p], k))
    BY <1>1, <1>2, LineWrittenOnce
  <2>2. LoggedAs(k)' = LoggedAs(k)
    BY <1>2 DEF LoggedAs
  <2>3. DealtAs(p, k)' = FirstAs(p, at[p], k)
    BY <1>2, <1>3 DEF DealtAs, Done, FirstAs
  <2>. QED BY <1>2, <2>1, <2>2, <2>3
<1>6. SealedOnce'
  BY <1>5 DEF SealedOnce, DatedKeys
<1>7. NewRecords'
  BY <1>4, <1>5 DEF NewRecords, DatedKeys
<1>. QED BY <1>6, <1>7 DEF OnceInv

\* A record cut short may be a record all the same, without its newline.
LEMMA AppendCutKeepsOnce ==
  ASSUME MemoryInv, Alone, OnceInv, NEW p \in Procs, AppendCut(p) PROVE OnceInv'
<1>. SUFFICES ASSUME ~overlapped' PROVE OnceInv'
  BY DEF OnceInv, SealedOnce, NewRecords
<1>1. PICK r : r = Sealing(p)
  OBVIOUS
<1>2. PICK line \in {Torn, r} : chain' = Written(line)
  BY <1>1 DEF AppendCut
<1>3. /\ pc[p] = "counted" /\ ~overlapped /\ End(p, "threw")
      /\ UNCHANGED <<convLog, entries, overlapped>>
  BY DEF AppendCut
<1>4. pc'[p] = "ended" /\ \A q \in Procs : q # p => pc'[q] = pc[q]
  BY <1>3, EndEffects DEF MemoryInv, Codes
<1>5. \A q \in Procs : pc'[q] = "ended"
  BY <1>3, <1>4, StepKeepsAlone
<1>6. ASSUME NEW k \in DatedKeys
      PROVE  Cardinality(SealedAs(k)') <= Cardinality(LoggedAs(k)')
  <2>1. Cardinality(SealedAs(k)') <= Cardinality(LoggedAs(k))
    BY <1>1, <1>2, <1>3, LineWrittenOnce
  <2>2. LoggedAs(k)' = LoggedAs(k)
    BY <1>3 DEF LoggedAs
  <2>. QED BY <2>1, <2>2
<1>. QED BY <1>5, <1>6 DEF OnceInv, SealedOnce, NewRecords, DatedKeys

LEMMA CrashKeepsOnce ==
  ASSUME MemoryInv, OnceInv, Crash PROVE OnceInv'
<1>0. TypeOK /\ TypeOK'
  BY CrashKeepsMemory DEF MemoryInv
<1>1. /\ UNCHANGED <<convLog, overlapped>>
      /\ \A q \in Procs : pc'[q] = "ended"
  BY DEF Crash
<1>2. /\ chain' \in Seq(Record \cup {Torn}) /\ Len(chain') <= Len(chain)
      /\ \A i \in 1 .. Len(chain') : chain'[i] \in {chain[i], Torn}
  BY <1>0, CrashedFile
<1>3. ASSUME NEW k
      PROVE  /\ Cardinality(SealedAs(k)') \in Nat /\ Cardinality(LoggedAs(k)') \in Nat
             /\ Cardinality(SealedAs(k)') <= Cardinality(SealedAs(k))
             /\ Cardinality(LoggedAs(k)) <= Cardinality(LoggedAs(k)')
  <2>1. Cardinality(SealedAs(k)') <= Cardinality(SealedAs(k))
    BY <1>0, <1>2, SealedShrinks
  <2>2. LoggedAs(k)' = LoggedAs(k)
    BY <1>1 DEF LoggedAs
  <2>3. Cardinality(SealedAs(k)') \in Nat
    <3>1. DOMAIN chain' = 1 .. Len(chain') /\ Len(chain') \in Nat
      BY <1>2, LenProperties
    <3>2. IsFiniteSet(DOMAIN chain')
      BY <3>1, FS_Interval
    <3>3. SealedAs(k)' \in SUBSET (DOMAIN chain')
      BY DEF SealedAs
    <3>. QED BY <3>2, <3>3, FS_Subset, FS_CardinalityType
  <2>. QED BY <1>0, <2>1, <2>2, <2>3, FiniteAs
<1>. QED BY <1>1, <1>3, OnceKept

LEMMA LogEntryKeepsOnce ==
  ASSUME MemoryInv, OnceInv, LogEntry PROVE OnceInv'
<1>0. TypeOK
  BY DEF MemoryInv
<1>1. /\ convLog' \in Seq(Entries) /\ Len(convLog) \in Nat
      /\ Len(convLog') = Len(convLog) + 1
      /\ \A i \in 1 .. Len(convLog) : convLog'[i] = convLog[i]
      /\ UNCHANGED <<chain, pc, sealed, entries, at, overlapped>>
  BY <1>0, LogGrows
<1>2. ASSUME NEW k
      PROVE  /\ Cardinality(SealedAs(k)') \in Nat /\ Cardinality(LoggedAs(k)') \in Nat
             /\ Cardinality(SealedAs(k)') <= Cardinality(SealedAs(k))
             /\ Cardinality(LoggedAs(k)) <= Cardinality(LoggedAs(k)')
  <2>1. SealedAs(k)' = SealedAs(k)
    BY <1>1 DEF SealedAs
  <2>2. /\ DOMAIN convLog = 1 .. Len(convLog) /\ DOMAIN convLog' = 1 .. Len(convLog')
        /\ Len(convLog') \in Nat
    BY <1>0, <1>1, LenProperties DEF TypeOK
  <2>3. IsFiniteSet(LoggedAs(k)')
    <3>1. IsFiniteSet(DOMAIN convLog')
      BY <2>2, FS_Interval
    <3>2. LoggedAs(k)' \in SUBSET (DOMAIN convLog')
      BY DEF LoggedAs
    <3>. QED BY <3>1, <3>2, FS_Subset
  <2>4. LoggedAs(k) \in SUBSET LoggedAs(k)'
    BY <1>1, <2>2 DEF LoggedAs
  <2>5. /\ Cardinality(LoggedAs(k)) <= Cardinality(LoggedAs(k)')
        /\ Cardinality(LoggedAs(k)') \in Nat
    BY <2>3, <2>4, FS_Subset, FS_CardinalityType
  <2>. QED BY <1>0, <2>1, <2>5, FiniteAs
<1>3. ASSUME NEW q \in Procs, NEW k
      PROVE  /\ Cardinality(DealtAs(q, k)') \in Nat
             /\ Cardinality(DealtAs(q, k)) <= Cardinality(DealtAs(q, k)')
  <2>1. DealtAs(q, k)' = DealtAs(q, k)
    BY <1>1 DEF DealtAs, Done
  <2>2. Cardinality(DealtAs(q, k)) \in Nat
    BY DoneType, FirstFinite
  <2>. QED BY <2>1, <2>2
<1>. QED BY <1>1, <1>2, <1>3, OnceKept

LEMMA NextOnce == MemoryInv /\ SerialInv /\ OnceInv /\ [Next]_vars => OnceInv'
<1>. SUFFICES ASSUME MemoryInv, SerialInv, OnceInv, [Next]_vars PROVE OnceInv'
  OBVIOUS
<1>0. Alone
  BY DEF SerialInv
<1>1. ASSUME NEW p \in Procs,
             \/ Start(p) \/ ReadSealed(p) \/ ReadEntries(p) \/ CountRecords(p)
             \/ AppendRecord(p) \/ AppendCut(p)
      PROVE  OnceInv'
  BY <1>0, <1>1, StartKeepsOnce, ReadSealedKeepsOnce, ReadEntriesKeepsOnce,
     CountRecordsKeepsOnce, AppendRecordKeepsOnce, AppendCutKeepsOnce
<1>2. ASSUME NEW p \in Procs, Finish(p) \/ Kill(p) PROVE OnceInv'
  <2>1. pc[p] # "ended" /\ UNCHANGED <<convLog, chain, overlapped>>
    BY <1>2 DEF Finish, Kill, files, history
  <2>2. \E c \in Codes : End(p, c)
    BY <1>2, FinishCode DEF Kill, Codes
  <2>. QED BY <1>0, <2>1, <2>2, EndingKeepsOnce
<1>3. CASE Crash \/ LogEntry
  BY <1>3, CrashKeepsOnce, LogEntryKeepsOnce
<1>4. CASE UNCHANGED vars
  BY <1>4 DEF vars, OnceInv, SealedOnce, NewRecords, SealedAs, LoggedAs, DealtAs, Done
<1>. QED BY <1>1, <1>2, <1>3, <1>4 DEF Next

-----------------------------------------------------------------------------
(* The theorems *)

\* Each of the four parts rests on those before it.
THEOREM Invariance == Spec => []IInv
<1>1. Init => IInv
  BY InitMemory, InitSealed, InitSerial, InitOnce DEF IInv
<1>2. IInv /\ [Next]_vars => IInv'
  BY NextMemory, NextSealed, NextSerial, NextOnce DEF IInv
<1>. QED BY <1>1, <1>2, PTL DEF Spec

\* The runs' memory, the convergence log and the chain keep their types: a
\* run's position stays within the entries it has read (run, appendToChain).
THEOREM ChainTypeCorrect == Spec => []TypeOK
<1>1. IInv => TypeOK
  BY DEF IInv, MemoryInv
<1>. QED BY <1>1, Invariance, PTL

\* As long as runs never overlap and no line was cut short, verifyChain finds
\* the chain in order at every moment, after kills and lost suffixes too.
THEOREM SerialCorrect == Spec => []SerialRunsVerify
<1>1. IInv => SerialRunsVerify
  BY LinkedVerifies DEF IInv
<1>. QED BY <1>1, Invariance, PTL

\* As long as runs never overlap, run() gives a dated entry no more records
\* than the log has entries with its key, however often it is killed, torn or
\* started again.
THEOREM OnceCorrect == Spec => []SealedOnce
<1>1. IInv => SealedOnce
  BY DEF IInv, OnceInv
<1>. QED BY <1>1, Invariance, PTL

\* A run that says that the chain is up to date found or sealed every entry it
\* read, with other runs going on or not (run).
THEOREM EndedCorrect == Spec => []EndedMeansSealed
<1>1. IInv => EndedMeansSealed
  BY DEF IInv, SealedInv
<1>. QED BY <1>1, Invariance, PTL
=============================================================================
