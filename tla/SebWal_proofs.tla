---------------------------- MODULE SebWal_proofs ----------------------------
(***************************************************************************)
(* The safety properties of the WAL kernel, for every set of callers and   *)
(* headers, every degree of the circuit and every bound.                   *)
(***************************************************************************)
EXTENDS SebWal, SequenceTheorems, TLAPS

\* Every accepted event lies at or behind the kernel's present position.
BehindTip ==
  \A i \in 1 .. Len(log) :
    /\ log[i].sequence <= handle.sequence
    /\ log[i].sequence = handle.sequence =>
         OffsetOf[log[i].header] <= handle.tip_offset

\* tip_offset is the offset of the last event of the current segment.
TipOffsetIsLast == handle.tip_offset = OffsetBefore(Len(log) + 1, handle.sequence)

\* As long as the chain has not grown, the tip a caller read is the tip.
ReadIsCurrent ==
  \A c \in Callers :
    /\ call[c].seen <= handle.events_sealed
    /\ call[c].seen = handle.events_sealed => call[c].read_tip = handle.tip_hash

\* The inductive invariant: the checked invariants and the three facts above.
IInv ==
  /\ TypeOK
  /\ TipIsLastEvent
  /\ ChainLinked
  /\ PositionsAscend
  /\ AnswersPredecessor
  /\ BehindTip
  /\ TipOffsetIsLast
  /\ ReadIsCurrent
  /\ RefusedOnlyWhenStale
  /\ AcknowledgedIsSealed

-----------------------------------------------------------------------------
(* The circuit *)

\* seb_lattice_commit writes 32 bytes: a commitment is a polynomial of R.
LEMMA CommitType ==
  ASSUME NEW prev \in Poly, NEW words \in Words64
  PROVE  Commit(prev, words) \in Poly
BY DEF Commit, Xor, CyclicConvolve, Poly

LEMMA ZeroType == Zero \in Poly
BY DEF Zero, Poly

\* Every entry of the history is a sealed event with fields of their types.
LEMMA LogEntry ==
  ASSUME TypeOK, NEW i \in 1 .. Len(log)
  PROVE  /\ log[i] \in Sealed
         /\ log[i].header \in Header
         /\ log[i].event_hash \in Poly
         /\ log[i].sequence \in Nat
         /\ OffsetOf[log[i].header] \in Nat
<1>1. log[i] \in Sealed
  BY ElementOfSeq DEF TypeOK
<1>. QED BY <1>1, HeaderAssumption DEF Sealed

-----------------------------------------------------------------------------
(* The steps *)

\* What an accepted append does, and from which caller's request.
LEMMA AppendCases ==
  ASSUME NEW c \in Callers, AppendEvent(c)
  PROVE  \/ /\ Answer(call[c]) = "ok"
            /\ call[c].header # ShortHeader
            /\ HashLinked(call[c])
            /\ CommitmentHolds(call[c])
            /\ OffsetAdvances(call[c])
            /\ call' = [call EXCEPT ![c].stage = "ok"]
            /\ handle' = [handle EXCEPT !.tip_hash = call[c].event_hash,
                                        !.tip_offset = OffsetOf[call[c].header],
                                        !.events_sealed = @ + 1]
            /\ log' = Append(log, [header |-> call[c].header,
                                   prev_hash |-> call[c].prev_hash,
                                   event_hash |-> call[c].event_hash,
                                   sequence |-> handle.sequence,
                                   committed |-> handle.tip_offset])
         \/ /\ Answer(call[c]) \in Refusals
            /\ call' = [call EXCEPT ![c].stage = Answer(call[c])]
            /\ UNCHANGED <<handle, log>>
<1>1. CASE Answer(call[c]) = "ok"
  <2>1. /\ call[c].header # ShortHeader
        /\ HashLinked(call[c])
        /\ CommitmentHolds(call[c])
        /\ OffsetAdvances(call[c])
    BY <1>1 DEF Answer
  <2>. QED BY <1>1, <2>1 DEF AppendEvent, CommittedOffset
<1>2. CASE Answer(call[c]) # "ok"
  <2>1. Answer(call[c]) \in Refusals
    BY <1>2 DEF Answer, Refusals
  <2>. QED BY <1>2, <2>1 DEF AppendEvent
<1>. QED BY <1>1, <1>2

LEMMA InitIInv == Init => IInv
<1>. SUFFICES ASSUME Init PROVE IInv
  OBVIOUS
<1>1. TypeOK
  BY ZeroType DEF Init, TypeOK, Handle, Call, NoCall, Sealed
<1>2. log = <<>> /\ Len(log) = 0 /\ \A c \in Callers : call[c] = NoCall
  BY DEF Init
<1>3. TipIsLastEvent /\ ReadIsCurrent
  BY <1>2 DEF Init, TipIsLastEvent, TipAfter, ReadIsCurrent, NoCall
<1>4. ChainLinked /\ PositionsAscend /\ BehindTip
  BY <1>2 DEF ChainLinked, PositionsAscend, BehindTip
<1>5. RefusedOnlyWhenStale /\ AcknowledgedIsSealed
  BY <1>2 DEF RefusedOnlyWhenStale, AcknowledgedIsSealed, NoCall
<1>6. AnswersPredecessor /\ TipOffsetIsLast
  BY <1>2 DEF Init, AnswersPredecessor, TipOffsetIsLast, OffsetBefore
<1>. QED BY <1>1, <1>3, <1>4, <1>5, <1>6 DEF IInv

\* Reading the tip disturbs neither the handle nor the chain; the new request
\* records the present tip and length.
LEMMA GetTipHashPreserves ==
  ASSUME IInv, NEW c \in Callers, GetTipHash(c)
  PROVE  IInv'
<1>. USE DEF IInv
<1>1. PICK h \in Header \cup {ShortHeader},
           prev \in {handle.tip_hash} \cup ForeignHash, ev \in Poly :
        call' = [call EXCEPT ![c] =
          [stage |-> "ready", header |-> h, prev_hash |-> prev,
           event_hash |-> ev,
           read_tip |-> handle.tip_hash, seen |-> handle.events_sealed]]
  <2>1. handle.tip_hash \in Poly
    BY DEF TypeOK, Handle
  <2>2. \A h \in Header : Commit(handle.tip_hash, WordsOf[h]) \in Poly
    BY <2>1, CommitType, HeaderAssumption
  <2>. QED BY <2>2, ZeroType DEF GetTipHash
<1>2. UNCHANGED <<handle, log>>
  BY DEF GetTipHash
<1>3. TypeOK'
  <2>1. prev \in Poly /\ handle.tip_hash \in Poly /\ handle.events_sealed \in Nat
    BY HeaderAssumption DEF TypeOK, Handle
  <2>2. [stage |-> "ready", header |-> h, prev_hash |-> prev, event_hash |-> ev,
         read_tip |-> handle.tip_hash, seen |-> handle.events_sealed] \in Call
    BY <2>1 DEF Call
  <2>. QED BY <1>1, <1>2, <2>2 DEF TypeOK
<1>4. TipIsLastEvent' /\ ChainLinked' /\ PositionsAscend' /\ BehindTip'
      /\ AnswersPredecessor' /\ TipOffsetIsLast'
  BY <1>2 DEF TipIsLastEvent, ChainLinked, PositionsAscend, BehindTip, TipAfter,
         AnswersPredecessor, TipOffsetIsLast, OffsetBefore
<1>5. \A d \in Callers : d # c => call'[d] = call[d]
  BY <1>1 DEF TypeOK
<1>6. /\ call'[c].stage = "ready"
      /\ call'[c].read_tip = handle.tip_hash
      /\ call'[c].seen = handle.events_sealed
  BY <1>1 DEF TypeOK
<1>7. ReadIsCurrent'
  BY <1>2, <1>5, <1>6 DEF ReadIsCurrent, TypeOK, Handle
<1>8. RefusedOnlyWhenStale' /\ AcknowledgedIsSealed'
  BY <1>2, <1>5, <1>6
  DEF RefusedOnlyWhenStale, AcknowledgedIsSealed, HonestFooter
<1>. QED BY <1>3, <1>4, <1>7, <1>8

\* A rotation moves the position forward and leaves chain and callers alone.
LEMMA RotatePreserves ==
  ASSUME IInv, NEW id \in SegmentIds, NEW seq \in 0 .. MaxSequence,
         RotateSegment(id, seq)
  PROVE  IInv'
<1>. USE DEF IInv
<1>1. /\ handle' = [handle EXCEPT !.segment_id = id, !.sequence = seq,
                                  !.tip_offset = 0, !.segments_rotated = @ + 1]
      /\ UNCHANGED <<log, call>>
      /\ seq > handle.sequence
      /\ seq \in Nat
  BY SizeAssumption DEF RotateSegment
<1>2. /\ handle'.sequence = seq
      /\ handle'.tip_hash = handle.tip_hash
      /\ handle'.events_sealed = handle.events_sealed
  BY <1>1 DEF TypeOK, Handle
<1>3. TypeOK'
  <2>1. handle' = [segment_id |-> id, sequence |-> seq,
                   tip_hash |-> handle.tip_hash, tip_offset |-> 0,
                   events_sealed |-> handle.events_sealed,
                   segments_rotated |-> handle.segments_rotated + 1]
    BY <1>1 DEF TypeOK, Handle
  <2>2. handle' \in Handle
    BY <1>1, <2>1 DEF TypeOK, Handle
  <2>. QED BY <1>1, <2>2 DEF TypeOK
<1>4. /\ TipIsLastEvent' /\ ChainLinked' /\ PositionsAscend'
      /\ AnswersPredecessor'
  BY <1>1, <1>2
  DEF TipIsLastEvent, ChainLinked, PositionsAscend, TipAfter,
      AnswersPredecessor, OffsetBefore
<1>5. BehindTip' /\ TipOffsetIsLast'
  <2>1. ASSUME NEW i \in 1 .. Len(log) PROVE log[i].sequence < seq
    <3>1. log[i].sequence \in Nat /\ handle.sequence \in Nat
      BY LogEntry DEF TypeOK, Handle
    <3>. QED BY <1>1, <3>1 DEF BehindTip
  <2>2. \A i \in 1 .. Len(log) : log[i].sequence \in Nat
    BY LogEntry
  <2>3. BehindTip'
    BY <1>1, <1>2, <2>1, <2>2 DEF BehindTip
  <2>4. Len(log) \in Nat /\ handle'.tip_offset = 0
    BY <1>1, LenProperties DEF TypeOK, Handle
  <2>5. Len(log) + 1 > 1 => log[Len(log)].sequence # seq
    BY <1>1, <2>1, <2>2, <2>4
  <2>6. TipOffsetIsLast'
    BY <1>1, <1>2, <2>4, <2>5 DEF TipOffsetIsLast, OffsetBefore
  <2>. QED BY <2>3, <2>6
<1>6. ReadIsCurrent' /\ RefusedOnlyWhenStale' /\ AcknowledgedIsSealed'
  BY <1>1, <1>2
  DEF ReadIsCurrent, RefusedOnlyWhenStale, AcknowledgedIsSealed, HonestFooter
<1>. QED BY <1>3, <1>4, <1>5, <1>6

\* A refused append changes the caller's stage and nothing else; an honest
\* footer is not refused on its hashes unless the chain has grown.
LEMMA RefusalPreserves ==
  ASSUME IInv, NEW c \in Callers, Answer(call[c]) \in Refusals,
         call' = [call EXCEPT ![c].stage = Answer(call[c])],
         UNCHANGED <<handle, log>>
  PROVE  IInv'
<1>. USE DEF IInv
<1>1. call[c] \in Call
  BY DEF TypeOK
<1>2. TypeOK'
  BY <1>1 DEF TypeOK, Call
<1>3. TipIsLastEvent' /\ ChainLinked' /\ PositionsAscend' /\ BehindTip'
      /\ AnswersPredecessor' /\ TipOffsetIsLast'
  BY DEF TipIsLastEvent, ChainLinked, PositionsAscend, BehindTip, TipAfter,
         AnswersPredecessor, TipOffsetIsLast, OffsetBefore
<1>4. /\ \A d \in Callers : d # c => call'[d] = call[d]
      /\ call'[c].stage = Answer(call[c])
      /\ call'[c].seen = call[c].seen
      /\ call'[c].read_tip = call[c].read_tip
      /\ call'[c].header = call[c].header
      /\ call'[c].prev_hash = call[c].prev_hash
      /\ call'[c].event_hash = call[c].event_hash
  BY <1>1 DEF TypeOK, Call
<1>5. ReadIsCurrent'
  BY <1>4 DEF ReadIsCurrent
<1>6. RefusedOnlyWhenStale'
  <2>1. ASSUME Answer(call[c]) \in {"hash_chain_broken", "invalid_commitment"},
               HonestFooter(call[c])
        PROVE  call[c].seen # handle.events_sealed
    <3>. SUFFICES ASSUME call[c].seen = handle.events_sealed PROVE FALSE
      OBVIOUS
    <3>1. call[c].read_tip = handle.tip_hash
      BY DEF ReadIsCurrent
    <3>2. HashLinked(call[c]) /\ CommitmentHolds(call[c])
      BY <2>1, <3>1 DEF HonestFooter, HashLinked, CommitmentHolds
    <3>. QED BY <2>1, <3>2 DEF Answer, HonestFooter
  <2>2. call[c].seen \in Nat /\ handle.events_sealed \in Nat
    BY <1>1 DEF Call, TypeOK, Handle
  <2>3. ASSUME Answer(call[c]) \in {"hash_chain_broken", "invalid_commitment"},
               HonestFooter(call[c])
        PROVE  call[c].seen < handle.events_sealed
    BY <2>1, <2>2, <2>3 DEF ReadIsCurrent
  <2>. QED BY <1>4, <2>3 DEF RefusedOnlyWhenStale, HonestFooter
<1>7. AcknowledgedIsSealed'
  BY <1>4 DEF AcknowledgedIsSealed, Refusals
<1>. QED BY <1>2, <1>3, <1>5, <1>6, <1>7

\* An accepted append extends the chain by one entry linked to the old tip, at
\* a position beyond all others.
LEMMA AcceptPreserves ==
  ASSUME IInv, NEW c \in Callers, AppendEvent(c), Answer(call[c]) = "ok",
         NEW e, e = [header |-> call[c].header, prev_hash |-> call[c].prev_hash,
                     event_hash |-> call[c].event_hash,
                     sequence |-> handle.sequence,
                     committed |-> handle.tip_offset],
         NEW n, n = Len(log)
  PROVE  IInv'
<1>. USE DEF IInv
<1>. DEFINE r == call[c]
<1>1. /\ r.header # ShortHeader
      /\ HashLinked(r) /\ CommitmentHolds(r) /\ OffsetAdvances(r)
      /\ call' = [call EXCEPT ![c].stage = "ok"]
      /\ handle' = [handle EXCEPT !.tip_hash = r.event_hash,
                                  !.tip_offset = OffsetOf[r.header],
                                  !.events_sealed = @ + 1]
      /\ log' = Append(log, e)
  BY AppendCases DEF Refusals
<1>2. /\ r \in Call /\ r.header \in Header
      /\ r.event_hash \in Poly /\ OffsetOf[r.header] \in Nat
  BY <1>1, HeaderAssumption DEF TypeOK, Call
<1>3. /\ handle.sequence \in Nat /\ handle.tip_offset \in Nat
      /\ handle.events_sealed \in Nat
      /\ n = handle.events_sealed
  BY DEF TypeOK, Handle, TipIsLastEvent
<1>4. e \in Sealed
  BY <1>2, <1>3 DEF Sealed, Call
<1>5. /\ log' \in Seq(Sealed) /\ Len(log') = n + 1
      /\ \A i \in 1 .. n : log'[i] = log[i]
      /\ log'[n + 1] = e
  BY <1>1, <1>4, AppendProperties DEF TypeOK
<1>6. /\ handle'.sequence = handle.sequence
      /\ handle'.tip_hash = e.event_hash
      /\ handle'.tip_offset = OffsetOf[e.header]
      /\ handle'.events_sealed = n + 1
      /\ e.sequence = handle.sequence /\ e.header = r.header
      /\ e.prev_hash = r.prev_hash /\ e.event_hash = r.event_hash
  BY <1>1, <1>3 DEF TypeOK, Handle
<1>7. TypeOK'
  <2>1. handle' \in Handle
    <3>1. handle' = [segment_id |-> handle.segment_id,
                     sequence |-> handle.sequence,
                     tip_hash |-> r.event_hash,
                     tip_offset |-> OffsetOf[r.header],
                     events_sealed |-> handle.events_sealed + 1,
                     segments_rotated |-> handle.segments_rotated]
      BY <1>1 DEF TypeOK, Handle
    <3>. QED BY <1>2, <1>3, <3>1 DEF TypeOK, Handle
  <2>2. call' \in [Callers -> Call]
    BY <1>1, <1>2 DEF TypeOK, Call
  <2>. QED BY <1>5, <2>1, <2>2 DEF TypeOK
<1>8. TipIsLastEvent'
  BY <1>3, <1>5, <1>6 DEF TipIsLastEvent, TipAfter
<1>9. \A i \in 0 .. n : TipAfter(i)' = TipAfter(i)
  BY <1>3, <1>5 DEF TipAfter
<1>10. ChainLinked'
  <2>1. ASSUME NEW i \in 1 .. n
        PROVE  /\ log'[i].event_hash
                    = Commit(TipAfter(i - 1)', WordsOf[log'[i].header])
               /\ i > 1 => log'[i].prev_hash = TipAfter(i - 1)'
    <3>1. TipAfter(i - 1)' = TipAfter(i - 1)
      BY <1>3, <1>9
    <3>. QED BY <1>5, <3>1 DEF ChainLinked
  <2>2. TipAfter(n)' = handle.tip_hash
    <3>1. TipAfter(n)' = TipAfter(n)
      BY <1>3, <1>9
    <3>2. TipAfter(n) = handle.tip_hash
      BY DEF TipIsLastEvent
    <3>. QED BY <3>1, <3>2
  <2>3. /\ e.event_hash = Commit(TipAfter(n)', WordsOf[e.header])
        /\ n + 1 > 1 => e.prev_hash = TipAfter(n)'
    BY <1>1, <1>3, <1>6, <2>2 DEF CommitmentHolds, HashLinked
  <2>4. /\ log'[n + 1].event_hash
             = Commit(TipAfter((n + 1) - 1)', WordsOf[log'[n + 1].header])
        /\ n + 1 > 1 => log'[n + 1].prev_hash = TipAfter((n + 1) - 1)'
    BY <1>3, <1>5, <2>3
  <2>5. ASSUME NEW i \in 1 .. n + 1
        PROVE  /\ log'[i].event_hash
                    = Commit(TipAfter(i - 1)', WordsOf[log'[i].header])
               /\ i > 1 => log'[i].prev_hash = TipAfter(i - 1)'
    <3>1. CASE i \in 1 .. n
      BY <2>1, <3>1
    <3>2. CASE i = n + 1
      BY <2>4, <3>2
    <3>. QED BY <1>3, <3>1, <3>2
  <2>. QED BY <1>5, <2>5 DEF ChainLinked
<1>11. \A i \in 1 .. n : /\ log[i].sequence \in Nat
                         /\ OffsetOf[log[i].header] \in Nat
  BY LogEntry
<1>12. n > 0 => OffsetOf[e.header] > handle.tip_offset
  BY <1>1, <1>3, <1>6 DEF OffsetAdvances
<1>13. PositionsAscend'
  <2>1. ASSUME NEW i \in 1 .. n
        PROVE  \/ log[i].sequence < e.sequence
               \/ /\ log[i].sequence = e.sequence
                  /\ OffsetOf[log[i].header] < OffsetOf[e.header]
    <3>1. /\ log[i].sequence <= handle.sequence
          /\ log[i].sequence = handle.sequence =>
               OffsetOf[log[i].header] <= handle.tip_offset
      BY DEF BehindTip
    <3>. QED BY <1>2, <1>3, <1>6, <1>11, <1>12, <3>1
  <2>2. ASSUME NEW i \in 1 .. n + 1, NEW j \in 1 .. n + 1, i < j
        PROVE  \/ log'[i].sequence < log'[j].sequence
               \/ /\ log'[i].sequence = log'[j].sequence
                  /\ OffsetOf[log'[i].header] < OffsetOf[log'[j].header]
    <3>1. i \in 1 .. n /\ log'[i] = log[i]
      BY <1>3, <1>5, <2>2
    <3>2. CASE j \in 1 .. n
      BY <1>5, <2>2, <3>1, <3>2 DEF PositionsAscend
    <3>3. CASE j = n + 1
      BY <1>5, <2>1, <3>1, <3>3
    <3>. QED BY <1>3, <3>2, <3>3
  <2>. QED BY <1>5, <2>2 DEF PositionsAscend
<1>14. BehindTip'
  <2>1. ASSUME NEW i \in 1 .. n
        PROVE  /\ log[i].sequence <= handle.sequence
               /\ log[i].sequence = handle.sequence =>
                    OffsetOf[log[i].header] <= OffsetOf[e.header]
    BY <1>2, <1>3, <1>6, <1>11, <1>12 DEF BehindTip
  <2>2. ASSUME NEW i \in 1 .. n + 1
        PROVE  /\ log'[i].sequence <= handle.sequence
               /\ log'[i].sequence = handle.sequence =>
                    OffsetOf[log'[i].header] <= OffsetOf[e.header]
    <3>1. CASE i \in 1 .. n
      BY <1>5, <2>1, <3>1
    <3>2. CASE i = n + 1
      BY <1>2, <1>3, <1>5, <1>6, <3>2
    <3>. QED BY <1>3, <3>1, <3>2
  <2>. QED BY <1>5, <1>6, <2>2 DEF BehindTip
<1>15. AnswersPredecessor' /\ TipOffsetIsLast'
  <2>1. ASSUME NEW i \in 1 .. n + 1, i > 1 PROVE log'[i - 1] = log[i - 1]
    <3>1. i - 1 \in 1 .. n
      BY <1>3, <2>1
    <3>. QED BY <1>5, <3>1
  <2>2. e.committed = IF n + 1 > 1 /\ log[(n + 1) - 1].sequence = handle.sequence
                        THEN OffsetOf[log[(n + 1) - 1].header] ELSE 0
    BY DEF TipOffsetIsLast, OffsetBefore
  <2>3. ASSUME NEW i \in 1 .. n + 1
        PROVE  log'[i].committed
                 = IF i > 1 /\ log'[i - 1].sequence = log'[i].sequence
                     THEN OffsetOf[log'[i - 1].header] ELSE 0
    <3>1. CASE i \in 1 .. n
      BY <1>5, <2>1, <3>1 DEF AnswersPredecessor, OffsetBefore
    <3>2. CASE i = n + 1
      BY <1>5, <1>6, <2>1, <2>2, <3>2
    <3>. QED BY <1>3, <3>1, <3>2
  <2>4. AnswersPredecessor'
    BY <1>5, <2>3 DEF AnswersPredecessor, OffsetBefore
  <2>5. Len(log') + 1 > 1 /\ (Len(log') + 1) - 1 = n + 1
    BY <1>3, <1>5
  <2>6. TipOffsetIsLast'
    BY <1>5, <1>6, <2>5 DEF TipOffsetIsLast, OffsetBefore
  <2>. QED BY <2>4, <2>6
<1>16. /\ \A d \in Callers : d # c => call'[d] = call[d]
       /\ call'[c].stage = "ok"
       /\ call'[c].seen = r.seen
       /\ call'[c].header = r.header
       /\ call'[c].prev_hash = r.prev_hash
       /\ call'[c].event_hash = r.event_hash
       /\ \A d \in Callers : call'[d].seen = call[d].seen
  BY <1>1 DEF TypeOK, Call
<1>17. \A d \in Callers : call[d].seen \in Nat /\ call[d].seen <= n
  BY <1>3 DEF TypeOK, Call, ReadIsCurrent
<1>18. ReadIsCurrent'
  BY <1>3, <1>6, <1>16, <1>17 DEF ReadIsCurrent
<1>19. RefusedOnlyWhenStale'
  BY <1>3, <1>6, <1>16, <1>17 DEF RefusedOnlyWhenStale
<1>20. AcknowledgedIsSealed'
  <2>1. ASSUME NEW d \in Callers, d # c, call'[d].stage = "ok"
        PROVE  \E i \in call'[d].seen + 1 .. Len(log') :
                 /\ log'[i].header = call'[d].header
                 /\ log'[i].prev_hash = call'[d].prev_hash
                 /\ log'[i].event_hash = call'[d].event_hash
    <3>1. PICK i \in call[d].seen + 1 .. n :
                 /\ log[i].header = call[d].header
                 /\ log[i].prev_hash = call[d].prev_hash
                 /\ log[i].event_hash = call[d].event_hash
      BY <1>16, <2>1 DEF AcknowledgedIsSealed
    <3>2. i \in 1 .. n /\ i \in call'[d].seen + 1 .. Len(log')
      BY <1>3, <1>5, <1>16, <1>17, <2>1
    <3>. QED BY <1>5, <1>16, <2>1, <3>1, <3>2
  <2>2. /\ n + 1 \in call'[c].seen + 1 .. Len(log')
        /\ log'[n + 1].header = call'[c].header
        /\ log'[n + 1].prev_hash = call'[c].prev_hash
        /\ log'[n + 1].event_hash = call'[c].event_hash
    BY <1>3, <1>5, <1>6, <1>16, <1>17
  <2>. QED BY <2>1, <2>2 DEF AcknowledgedIsSealed
<1>. QED BY <1>7, <1>8, <1>10, <1>13, <1>14, <1>15, <1>18, <1>19,
              <1>20

\* Every step of the kernel and its callers preserves the invariant.
LEMMA NextIInv == IInv /\ [Next]_vars => IInv'
<1>. SUFFICES ASSUME IInv, [Next]_vars PROVE IInv'
  OBVIOUS
<1>1. ASSUME NEW c \in Callers, GetTipHash(c) PROVE IInv'
  BY <1>1, GetTipHashPreserves
<1>2. ASSUME NEW c \in Callers, AppendEvent(c) PROVE IInv'
  <2>1. CASE Answer(call[c]) = "ok"
    BY <1>2, <2>1, AcceptPreserves
  <2>2. CASE Answer(call[c]) # "ok"
    BY <1>2, <2>2, AppendCases, RefusalPreserves
  <2>. QED BY <2>1, <2>2
<1>3. ASSUME NEW id \in SegmentIds, NEW seq \in 0 .. MaxSequence,
             RotateSegment(id, seq)
      PROVE  IInv'
  BY <1>3, RotatePreserves
<1>4. CASE UNCHANGED vars
  BY <1>4
  DEF vars, IInv, TypeOK, TipIsLastEvent, ChainLinked, PositionsAscend,
      BehindTip, ReadIsCurrent, RefusedOnlyWhenStale, AcknowledgedIsSealed,
      HonestFooter, TipAfter, AnswersPredecessor, TipOffsetIsLast, OffsetBefore
<1>. QED BY <1>1, <1>2, <1>3, <1>4 DEF Next

-----------------------------------------------------------------------------
(* The theorems *)

\* The inductive invariant holds in every reachable state of the kernel.
THEOREM Invariance == Spec => []IInv
<1>. QED BY InitIInv, NextIInv, PTL DEF Spec

\* Handle, history and callers keep their types.
THEOREM TypeCorrect == Spec => []TypeOK
<1>1. IInv => TypeOK
  BY DEF IInv
<1>. QED BY <1>1, Invariance, PTL

\* The kernel's tip and counter are those of the events it accepted, whatever
\* it refused or rotated in between (append_event, rotate_segment).
THEOREM TipCorrect == Spec => []TipIsLastEvent
<1>1. IInv => TipIsLastEvent
  BY DEF IInv
<1>. QED BY <1>1, Invariance, PTL

\* The events a handle accepted form one hash-linked chain from genesis, and a
\* footer on an old tip does not get in (append_event).
THEOREM ChainCorrect == Spec => []ChainLinked
<1>1. IInv => ChainLinked
  BY DEF IInv
<1>. QED BY <1>1, Invariance, PTL

\* No two events of a handle share segment sequence and header offset, although
\* rotate_segment sets tip_offset back to 0.
THEOREM PositionsCorrect == Spec => []PositionsAscend
<1>1. IInv => PositionsAscend
  BY DEF IInv
<1>. QED BY <1>1, Invariance, PTL

\* The offset append_event answers is that of the event before, in the segment
\* that rotate_segment opened last.
THEOREM AnswersCorrect == Spec => []AnswersPredecessor
<1>1. IInv => AnswersPredecessor
  BY DEF IInv
<1>. QED BY <1>1, Invariance, PTL

\* Between get_tip_hash and append_event other callers may seal and rotate: an
\* honest footer is refused on its hashes only when another event came first.
THEOREM RefusalsCorrect == Spec => []RefusedOnlyWhenStale
<1>1. IInv => RefusedOnlyWhenStale
  BY DEF IInv
<1>. QED BY <1>1, Invariance, PTL

\* What append_event acknowledged is in the chain, as it was sent, and after
\* what its caller read.
THEOREM CallersCorrect == Spec => []AcknowledgedIsSealed
<1>1. IInv => AcknowledgedIsSealed
  BY DEF IInv
<1>. QED BY <1>1, Invariance, PTL

\* rotate_segment leaves the chain alone and append_event the segment.
THEOREM RotationCorrect == Spec => RotationKeepsChain
<1>. DEFINE A ==
       /\ handle'.segments_rotated # handle.segments_rotated =>
            /\ handle'.sequence > handle.sequence
            /\ handle'.tip_hash = handle.tip_hash
            /\ handle'.events_sealed = handle.events_sealed
       /\ handle'.events_sealed # handle.events_sealed =>
            /\ handle'.events_sealed = handle.events_sealed + 1
            /\ handle'.sequence = handle.sequence
<1>1. TypeOK /\ [Next]_vars => [A]_vars
  <2>. SUFFICES ASSUME TypeOK, Next PROVE A
    BY DEF vars
  <2>1. ASSUME NEW c \in Callers, GetTipHash(c) PROVE A
    BY <2>1 DEF GetTipHash
  <2>2. ASSUME NEW c \in Callers, AppendEvent(c) PROVE A
    BY <2>2, AppendCases DEF TypeOK, Handle
  <2>3. ASSUME NEW id \in SegmentIds, NEW seq \in 0 .. MaxSequence,
               RotateSegment(id, seq)
        PROVE  A
    BY <2>3 DEF RotateSegment, TypeOK, Handle
  <2>. QED BY <2>1, <2>2, <2>3 DEF Next
<1>. QED BY <1>1, TypeCorrect, PTL DEF Spec, RotationKeepsChain

\* The kernel implements the abstract WORM chain: an accepted append is one
\* Seal step, and every other step of kernel or caller leaves the chain alone.
THEOREM Refinement == Spec => ImplementsWormChain
<1>. DEFINE View(s) == [i \in 1 .. Len(s) |->
                          [item |-> WordsOf[s[i].header],
                           hash |-> s[i].event_hash]]
<1>1. Init => WC!WormInit
  BY DEF Init, WC!WormInit
<1>2. IInv /\ [Next]_vars => [WC!WormNext]_(WC!wormVars)
  <2>. SUFFICES ASSUME IInv, [Next]_vars
                PROVE  [WC!WormNext]_(WC!wormVars)
    OBVIOUS
  <2>. USE DEF IInv
  <2>1. ASSUME UNCHANGED log, handle'.tip_hash = handle.tip_hash
        PROVE  UNCHANGED WC!wormVars
    BY <2>1 DEF WC!wormVars
  <2>2. ASSUME NEW c \in Callers, GetTipHash(c) PROVE UNCHANGED WC!wormVars
    BY <2>1, <2>2 DEF GetTipHash
  <2>3. ASSUME NEW id \in SegmentIds, NEW seq \in 0 .. MaxSequence,
               RotateSegment(id, seq)
        PROVE  UNCHANGED WC!wormVars
    BY <2>1, <2>3 DEF RotateSegment, TypeOK, Handle
  <2>4. ASSUME NEW c \in Callers, AppendEvent(c), Answer(call[c]) # "ok"
        PROVE  UNCHANGED WC!wormVars
    BY <2>1, <2>4 DEF AppendEvent
  <2>5. ASSUME NEW c \in Callers, AppendEvent(c), Answer(call[c]) = "ok"
        PROVE  WC!WormNext
    <3>. DEFINE e == [header |-> call[c].header,
                      prev_hash |-> call[c].prev_hash,
                      event_hash |-> call[c].event_hash,
                      sequence |-> handle.sequence,
                      committed |-> handle.tip_offset]
                w == WordsOf[call[c].header]
                n == Len(log)
    <3>1. /\ call[c].header # ShortHeader
          /\ CommitmentHolds(call[c])
          /\ log' = Append(log, e)
          /\ handle'.tip_hash = call[c].event_hash
      BY <2>5, AppendCases DEF Refusals, TypeOK, Handle
    <3>2. call[c] \in Call /\ call[c].header \in Header /\ w \in {WordsOf[h] : h \in Header}
      BY <3>1, HeaderAssumption DEF TypeOK, Call
    <3>3. e \in Sealed
      BY <3>2 DEF Sealed, Call, TypeOK, Handle
    <3>4. /\ n \in Nat
          /\ Len(log') = n + 1
          /\ \A i \in 1 .. n : log'[i] = log[i]
          /\ log'[n + 1] = e
      BY <3>1, <3>3, AppendProperties, LenProperties DEF TypeOK
    <3>5. call[c].event_hash = Commit(handle.tip_hash, w)
      BY <3>1 DEF CommitmentHolds
    <3>6. View(log') = Append(View(log), [item |-> w,
                                          hash |-> call[c].event_hash])
      BY <3>4
    <3>. QED BY <3>1, <3>2, <3>5, <3>6 DEF WC!WormNext, WC!Seal
  <2>6. CASE UNCHANGED vars
    BY <2>1, <2>6 DEF vars
  <2>. QED BY <2>2, <2>3, <2>4, <2>5, <2>6 DEF Next
<1>. QED BY <1>1, <1>2, Invariance, PTL
     DEF Spec, ImplementsWormChain, WC!WormSpec
=============================================================================
