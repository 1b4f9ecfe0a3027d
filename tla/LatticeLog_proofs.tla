-------------------------- MODULE LatticeLog_proofs --------------------------
(***************************************************************************)
(* Durability and order of the lattice log, for every number of threads,   *)
(* payloads and file length, given the callers' mutex; what verify says of *)
(* a file, and that the circuit is injective in each of its inputs.        *)
(***************************************************************************)
EXTENDS LatticeLog, SequenceTheorems, FiniteSetTheorems,
        WellFoundedInduction, TLAPS

\* Who is inside seb_lattice_append holds the mutex.
Locked == \A t \in Threads : pc[t] # "idle" => lock = t

\* The thread inside appends at the end of the file; once its record is
\* written, the record is the last thing in it.
AppendsAtEnd ==
  \A t \in Threads :
    /\ pc[t] \in {"sized", "linked"} => local[t].sz = Len(disk)
    /\ pc[t] = "written" =>
         /\ Len(disk) = local[t].sz + 3
         /\ durable <= local[t].sz
         /\ \A w \in 1 .. 3 : disk[local[t].sz + w] = Record(local[t])[w]

\* AckedIsDurable, word by word.
AckedStand ==
  \A i \in 1 .. Len(acked) :
    /\ acked[i] \in Local
    /\ acked[i].sz + 3 <= durable
    /\ \A w \in 1 .. 3 : disk[acked[i].sz + w] = Record(acked[i])[w]

\* The inductive invariant.
IInv ==
  /\ TypeOK
  /\ Locked
  /\ AppendsAtEnd
  /\ AckedStand
  /\ AckedInOrder

-----------------------------------------------------------------------------
(* The circuit and the file *)

LEMMA CommitType ==
  ASSUME NEW prev \in Poly, NEW words \in Words64
  PROVE  Commit(prev, words) \in Poly
BY DEF Commit, Xor, CyclicConvolve, Poly

\* A record is three words.
LEMMA RecordType ==
  ASSUME NEW l \in Local
  PROVE  /\ Record(l) \in Seq(Poly) /\ Len(Record(l)) = 3
         /\ \A w \in 1 .. 3 : Record(l)[w] \in Poly
<1>1. Commit(l.tip, l.payload) \in Poly
  BY CommitType DEF Local
<1>2. l.payload[1] \in Poly /\ l.payload[2] \in Poly
  BY DEF Local, Words64
<1>. QED BY <1>1, <1>2 DEF Record

\* Writing n words of a record at the end of the file keeps what is there.
LEMMA PwriteAtEnd ==
  ASSUME TypeOK, NEW t \in Threads, local[t].sz = Len(disk),
         NEW n \in 0 .. 3, Pwrite(t, n)
  PROVE  /\ disk' \in Seq(Poly)
         /\ Len(disk) \in Nat
         /\ Len(disk') = Len(disk) + n
         /\ \A i \in 1 .. Len(disk) : disk'[i] = disk[i]
         /\ \A w \in 1 .. n : disk'[Len(disk) + w] = Record(local[t])[w]
<1>. DEFINE s == Len(disk)
<1>1. s \in Nat /\ \A i \in 1 .. s : disk[i] \in Poly
  BY LenProperties, ElementOfSeq DEF TypeOK
<1>2. \A w \in 1 .. 3 : Record(local[t])[w] \in Poly
  BY RecordType DEF TypeOK
<1>3. disk' = [i \in 1 .. s + n |-> IF i \in s + 1 .. s + n
                                     THEN Record(local[t])[i - s] ELSE disk[i]]
  <2>1. s + n >= s
    BY <1>1
  <2>2. (IF s + n > s THEN s + n ELSE s) = s + n
    BY <1>1
  <2>. QED BY <2>2 DEF Pwrite
<1>4. \A i \in 1 .. s + n : disk'[i] \in Poly
  <2>1. ASSUME NEW i \in 1 .. s + n, i \in s + 1 .. s + n
        PROVE  i - s \in 1 .. 3
    BY <1>1, <2>1
  <2>2. ASSUME NEW i \in 1 .. s + n, i \notin s + 1 .. s + n
        PROVE  i \in 1 .. s
    BY <1>1, <2>2
  <2>. QED BY <1>1, <1>2, <1>3, <2>1, <2>2
<1>5. disk' \in Seq(Poly) /\ Len(disk') = s + n
  <2>1. disk' \in [1 .. s + n -> Poly]
    BY <1>3, <1>4
  <2>2. s + n \in Nat
    BY <1>1
  <2>. QED BY <2>1, <2>2
<1>6. \A i \in 1 .. s : disk'[i] = disk[i]
  BY <1>1, <1>3
<1>7. ASSUME NEW w \in 1 .. n PROVE disk'[s + w] = Record(local[t])[w]
  <2>1. s + w \in s + 1 .. s + n /\ s + w \in 1 .. s + n /\ (s + w) - s = w
    BY <1>1
  <2>. QED BY <1>3, <2>1
<1>. QED BY <1>1, <1>5, <1>6, <1>7

-----------------------------------------------------------------------------
(* The steps *)

LEMMA ZeroType == Zero \in Poly /\ Fresh \in Local
BY DEF Zero, Poly, Fresh, Local, Words64

LEMMA InitIInv == Init => IInv
<1>. SUFFICES ASSUME Init PROVE IInv
  OBVIOUS
<1>1. TypeOK
  <2>1. disk \in Seq(Poly) /\ Len(disk) = 0 /\ acked \in Seq(Local)
    BY EmptySeq DEF Init
  <2>2. lock \in Threads \cup {NoThread} /\ local \in [Threads -> Local]
    BY ZeroType DEF Init
  <2>3. /\ pc \in [Threads -> {"idle", "sized", "linked", "written"}]
        /\ durable = 0 /\ torn \in BOOLEAN
    BY DEF Init
  <2>. QED BY <2>1, <2>2, <2>3 DEF TypeOK
<1>2. Locked /\ AppendsAtEnd /\ AckedStand /\ AckedInOrder
  BY DEF Init, Locked, AppendsAtEnd, AckedStand, AckedInOrder
<1>. QED BY <1>1, <1>2 DEF IInv

\* A call that returns leaves nobody inside.
LEMMA ReturnLeavesIdle ==
  ASSUME IInv, NEW t \in Threads, pc[t] # "idle", Return(t)
  PROVE  /\ pc' \in [Threads -> {"idle", "sized", "linked", "written"}]
         /\ lock' \in Threads \cup {NoThread}
         /\ local' \in [Threads -> Local]
         /\ Locked' /\ AppendsAtEnd'
<1>1. ASSUME NEW u \in Threads PROVE pc'[u] = "idle"
  BY DEF IInv, TypeOK, Locked, Return
<1>2. /\ pc' \in [Threads -> {"idle", "sized", "linked", "written"}]
      /\ lock' \in Threads \cup {NoThread}
      /\ local' \in [Threads -> Local]
  BY ZeroType DEF IInv, TypeOK, Return
<1>. QED BY <1>1, <1>2 DEF Locked, AppendsAtEnd

\* Acknowledged records stand in every step that keeps the durable words and
\* acknowledges nothing.
LEMMA AckedStay ==
  ASSUME IInv, UNCHANGED acked, durable' \in Nat, durable' >= durable,
         \A i \in 1 .. durable : disk'[i] = disk[i]
  PROVE  AckedStand' /\ AckedInOrder'
<1>1. ASSUME NEW i \in 1 .. Len(acked)
      PROVE  /\ acked[i] \in Local
             /\ acked[i].sz + 3 <= durable'
             /\ \A w \in 1 .. 3 : disk'[acked[i].sz + w] = Record(acked[i])[w]
  <2>1. /\ acked[i] \in Local /\ acked[i].sz \in Nat /\ durable \in Nat
        /\ acked[i].sz + 3 <= durable
        /\ \A w \in 1 .. 3 : disk[acked[i].sz + w] = Record(acked[i])[w]
    BY DEF IInv, AckedStand, Local, TypeOK
  <2>2. ASSUME NEW w \in 1 .. 3
        PROVE  disk'[acked[i].sz + w] = Record(acked[i])[w]
    <3>1. acked[i].sz + w \in 1 .. durable
      BY <2>1
    <3>. QED BY <2>1, <3>1
  <2>3. acked[i].sz + 3 <= durable'
    BY <2>1
  <2>. QED BY <2>1, <2>2, <2>3
<1>2. AckedStand'
  BY <1>1 DEF AckedStand, Record
<1>. QED BY <1>2 DEF IInv, AckedInOrder

LEMMA FileSizePreserves ==
  ASSUME IInv, NEW t \in Threads, FileSize(t)
  PROVE  IInv'
<1>1. \A u \in Threads : pc[u] = "idle"
  BY LogAssumption DEF IInv, Locked, FileSize
<1>2. PICK p \in Payload :
        local' = [local EXCEPT ![t] = [payload |-> p, sz |-> Len(disk), tip |-> Zero]]
  BY DEF FileSize
<1>3. /\ UNCHANGED <<disk, durable, acked, torn>> /\ lock' = t
      /\ pc' = [pc EXCEPT ![t] = "sized"]
      /\ Len(disk) \in Nat
  BY LenProperties DEF FileSize, IInv, TypeOK
<1>4. TypeOK'
  <2>1. [payload |-> p, sz |-> Len(disk), tip |-> Zero] \in Local
    BY <1>3, ZeroType, LogAssumption DEF Local
  <2>. QED BY <1>2, <1>3, <2>1 DEF IInv, TypeOK
<1>5. Locked' /\ AppendsAtEnd'
  BY <1>1, <1>2, <1>3 DEF IInv, TypeOK, Locked, AppendsAtEnd
<1>6. AckedStand' /\ AckedInOrder'
  BY <1>3, AckedStay DEF IInv, TypeOK
<1>. QED BY <1>4, <1>5, <1>6 DEF IInv

LEMMA ReadTipPreserves ==
  ASSUME IInv, NEW t \in Threads, ReadTip(t)
  PROVE  IInv'
<1>1. /\ UNCHANGED <<disk, durable, lock, acked, torn>>
      /\ pc[t] = "sized" /\ pc' = [pc EXCEPT ![t] = "linked"]
      /\ local' = [local EXCEPT ![t].tip = TipBefore(local[t].sz)]
      /\ local[t] \in Local /\ local[t].sz = Len(disk)
      /\ \A u \in Threads : u # t => pc[u] = "idle"
  BY DEF ReadTip, IInv, TypeOK, AppendsAtEnd, Locked
<1>2. TipBefore(Len(disk)) \in Poly
  <2>1. Len(disk) \in Nat /\ \A i \in 1 .. Len(disk) : disk[i] \in Poly
    BY LenProperties, ElementOfSeq DEF IInv, TypeOK
  <2>. QED BY <2>1, ZeroType DEF TipBefore
<1>3. TypeOK'
  BY <1>1, <1>2 DEF IInv, TypeOK, Local
<1>4. Locked' /\ AppendsAtEnd'
  <2>1. pc'[t] = "linked" /\ local'[t].sz = Len(disk)
    BY <1>1 DEF IInv, TypeOK, Local
  <2>2. \A u \in Threads : u # t => pc'[u] = "idle"
    BY <1>1 DEF IInv, TypeOK
  <2>. QED BY <1>1, <2>1, <2>2 DEF IInv, Locked, AppendsAtEnd
<1>5. AckedStand' /\ AckedInOrder'
  BY <1>1, AckedStay DEF IInv, TypeOK
<1>. QED BY <1>3, <1>4, <1>5 DEF IInv

LEMMA WriteRecordPreserves ==
  ASSUME IInv, NEW t \in Threads, WriteRecord(t)
  PROVE  IInv'
<1>1. /\ UNCHANGED <<durable, lock, local, acked, torn>> /\ Pwrite(t, 3)
      /\ pc[t] = "linked" /\ pc' = [pc EXCEPT ![t] = "written"]
      /\ local[t].sz = Len(disk)
      /\ \A u \in Threads : u # t => pc[u] = "idle"
      /\ durable \in 0 .. Len(disk)
  BY DEF WriteRecord, IInv, TypeOK, AppendsAtEnd, Locked
<1>2. /\ disk' \in Seq(Poly)
      /\ Len(disk) \in Nat
      /\ Len(disk') = Len(disk) + 3
      /\ \A i \in 1 .. Len(disk) : disk'[i] = disk[i]
      /\ \A w \in 1 .. 3 : disk'[Len(disk) + w] = Record(local[t])[w]
  BY <1>1, PwriteAtEnd DEF IInv
<1>3. TypeOK'
  BY <1>1, <1>2 DEF IInv, TypeOK
<1>4. Locked' /\ AppendsAtEnd'
  <2>1. pc'[t] = "written" /\ \A u \in Threads : u # t => pc'[u] = "idle"
    BY <1>1 DEF IInv, TypeOK
  <2>2. Record(local[t])' = Record(local[t])
    BY <1>1 DEF Record
  <2>3. /\ Len(disk') = local'[t].sz + 3 /\ durable' <= local'[t].sz
        /\ \A w \in 1 .. 3 : disk'[local'[t].sz + w] = Record(local[t])[w]
    BY <1>1, <1>2
  <2>. QED BY <1>1, <2>1, <2>2, <2>3 DEF IInv, Locked, AppendsAtEnd
<1>5. AckedStand' /\ AckedInOrder'
  BY <1>1, <1>2, AckedStay
<1>. QED BY <1>3, <1>4, <1>5 DEF IInv

LEMMA WriteShortPreserves ==
  ASSUME IInv, NEW t \in Threads, WriteShort(t)
  PROVE  IInv'
<1>1. PICK n \in 0 .. 2 : Pwrite(t, n) /\ torn' = (torn \/ n > 0)
  BY DEF WriteShort
<1>2. /\ UNCHANGED <<durable, acked>> /\ pc[t] = "linked" /\ Return(t)
      /\ local[t].sz = Len(disk) /\ durable \in 0 .. Len(disk)
  BY DEF WriteShort, IInv, TypeOK, AppendsAtEnd
<1>3. /\ disk' \in Seq(Poly) /\ Len(disk) \in Nat
      /\ Len(disk') = Len(disk) + n
      /\ \A i \in 1 .. Len(disk) : disk'[i] = disk[i]
  BY <1>1, <1>2, PwriteAtEnd DEF IInv
<1>4. TypeOK' /\ Locked' /\ AppendsAtEnd'
  BY <1>1, <1>2, <1>3, ReturnLeavesIdle DEF IInv, TypeOK
<1>5. AckedStand' /\ AckedInOrder'
  BY <1>2, <1>3, AckedStay
<1>. QED BY <1>4, <1>5 DEF IInv

\* The record just written joins the acknowledged ones, behind all of them.
LEMMA SyncPreserves ==
  ASSUME IInv, NEW t \in Threads, Sync(t)
  PROVE  IInv'
<1>. DEFINE l == local[t]
            n == Len(acked)
<1>1. /\ UNCHANGED <<disk, torn>> /\ durable' = Len(disk)
      /\ acked' = Append(acked, l) /\ Return(t) /\ pc[t] = "written"
      /\ l \in Local /\ l.sz \in Nat /\ Len(disk) \in Nat /\ durable \in 0 .. Len(disk)
  BY LenProperties DEF Sync, IInv, TypeOK, Local
<1>2. /\ Len(disk) = l.sz + 3 /\ durable <= l.sz
      /\ \A w \in 1 .. 3 : disk[l.sz + w] = Record(l)[w]
  BY <1>1 DEF IInv, AppendsAtEnd
<1>3. /\ acked' \in Seq(Local) /\ n \in Nat /\ Len(acked') = n + 1
      /\ \A i \in 1 .. n : acked'[i] = acked[i]
      /\ acked'[n + 1] = l
  BY <1>1, AppendProperties, LenProperties DEF IInv, TypeOK
<1>4. TypeOK' /\ Locked' /\ AppendsAtEnd'
  BY <1>1, <1>3, ReturnLeavesIdle DEF IInv, TypeOK
<1>5. ASSUME NEW i \in 1 .. n
      PROVE  /\ acked[i] \in Local /\ acked[i].sz \in Nat
             /\ acked[i].sz + 3 <= durable
             /\ \A w \in 1 .. 3 : disk[acked[i].sz + w] = Record(acked[i])[w]
  BY DEF IInv, AckedStand, Local
<1>6. ASSUME NEW i \in 1 .. n + 1
      PROVE  /\ acked'[i] \in Local
             /\ acked'[i].sz + 3 <= Len(disk)
             /\ \A w \in 1 .. 3 : disk[acked'[i].sz + w] = Record(acked'[i])[w]
  <2>1. CASE i \in 1 .. n
    BY <1>1, <1>3, <1>5, <2>1
  <2>2. CASE i = n + 1
    BY SMTT(30), <1>1, <1>2, <1>3, <2>2
  <2>. QED BY <1>3, <2>1, <2>2
<1>7. AckedStand'
  BY <1>1, <1>3, <1>6 DEF AckedStand, Record
<1>8. AckedInOrder'
  <2>1. ASSUME NEW i \in 1 .. n + 1, NEW j \in 1 .. n + 1, i < j
        PROVE  acked'[i].sz + 3 <= acked'[j].sz
    <3>1. i \in 1 .. n /\ acked'[i] = acked[i]
      BY <1>3, <2>1
    <3>2. CASE j \in 1 .. n
      BY <1>3, <2>1, <3>1, <3>2 DEF IInv, AckedInOrder
    <3>3. CASE j = n + 1
      <4>1. acked'[j] = l
        BY <1>3, <3>3
      <4>2. acked[i].sz + 3 <= durable /\ durable <= l.sz /\ acked[i].sz \in Nat
        BY <1>2, <1>5, <3>1
      <4>. QED BY <1>1, <3>1, <4>1, <4>2
    <3>. QED BY <1>3, <3>2, <3>3
  <2>. QED BY <1>3, <2>1 DEF AckedInOrder
<1>. QED BY <1>4, <1>7, <1>8 DEF IInv

LEMMA FailPreserves ==
  ASSUME IInv, NEW t \in Threads, Fail(t)
  PROVE  IInv'
<1>1. UNCHANGED <<disk, durable, acked, torn>> /\ Return(t) /\ pc[t] # "idle"
  BY DEF Fail
<1>2. TypeOK' /\ Locked' /\ AppendsAtEnd'
  BY <1>1, ReturnLeavesIdle DEF IInv, TypeOK
<1>3. AckedStand' /\ AckedInOrder'
  BY <1>1, AckedStay DEF IInv, TypeOK
<1>. QED BY <1>2, <1>3 DEF IInv

\* A crash takes no durable word.
LEMMA CrashPreserves ==
  ASSUME IInv, Crash
  PROVE  IInv'
<1>1. PICK n \in durable .. Len(disk) :
        /\ disk' = SubSeq(disk, 1, n)
        /\ durable' = n
        /\ torn' = (torn \/ n % 3 # 0)
  BY DEF Crash
<1>2. /\ durable \in Nat /\ n \in Nat /\ n <= Len(disk) /\ Len(disk) \in Nat
      /\ disk \in Seq(Poly)
  BY LenProperties DEF IInv, TypeOK
<1>3. /\ disk' \in Seq(Poly) /\ Len(disk') = n
      /\ \A i \in 1 .. n : disk'[i] = disk[i]
  BY <1>1, <1>2, SubSeqProperties
<1>4. /\ UNCHANGED acked /\ lock' = NoThread
      /\ pc' = [t \in Threads |-> "idle"]
      /\ local' = [t \in Threads |-> Fresh]
  BY DEF Crash
<1>5. TypeOK'
  BY <1>1, <1>2, <1>3, <1>4, ZeroType DEF IInv, TypeOK
<1>6. Locked' /\ AppendsAtEnd'
  BY <1>4 DEF Locked, AppendsAtEnd
<1>7. AckedStand' /\ AckedInOrder'
  BY <1>1, <1>2, <1>3, <1>4, AckedStay
<1>. QED BY <1>5, <1>6, <1>7 DEF IInv

LEMMA NextIInv == IInv /\ [Next]_vars => IInv'
<1>. SUFFICES ASSUME IInv, [Next]_vars PROVE IInv'
  OBVIOUS
<1>1. ASSUME NEW t \in Threads,
             \/ FileSize(t) \/ ReadTip(t) \/ WriteRecord(t)
             \/ WriteShort(t) \/ Sync(t) \/ Fail(t)
      PROVE  IInv'
  BY <1>1, FileSizePreserves, ReadTipPreserves, WriteRecordPreserves,
     WriteShortPreserves, SyncPreserves, FailPreserves
<1>2. CASE Crash
  BY <1>2, CrashPreserves
<1>3. CASE UNCHANGED vars
  BY <1>3
  DEF vars, IInv, TypeOK, Locked, AppendsAtEnd, AckedStand, AckedInOrder, Record
<1>. QED BY <1>1, <1>2, <1>3 DEF Next

-----------------------------------------------------------------------------
(* Theorems *)

\* The inductive invariant holds throughout, whatever is appended, whichever
\* calls fail and wherever the machine crashes.
THEOREM LogInvariance == Spec => []IInv
<1>. QED BY InitIInv, NextIInv, PTL DEF Spec

\* The file, the callers' mutex and the locals of every call of
\* seb_lattice_append keep their types.
THEOREM LogTypeCorrect == Spec => []TypeOK
<1>1. IInv => TypeOK
  BY DEF IInv
<1>. QED BY <1>1, LogInvariance, PTL

\* Word by word is record by record.
LEMMA AckedStandIsDurable == IInv => AckedIsDurable
<1>. SUFFICES ASSUME IInv, NEW i \in 1 .. Len(acked)
              PROVE  /\ acked[i].sz + 3 <= durable
                     /\ SubSeq(disk, acked[i].sz + 1, acked[i].sz + 3) = Record(acked[i])
  BY DEF AckedIsDurable
<1>. DEFINE s == acked[i].sz
            r == Record(acked[i])
            d == SubSeq(disk, s + 1, s + 3)
<1>1. /\ acked[i] \in Local /\ s \in Nat /\ s + 3 <= durable
      /\ \A w \in 1 .. 3 : disk[s + w] = r[w]
      /\ disk \in Seq(Poly) /\ Len(disk) \in Nat /\ durable \in 0 .. Len(disk)
  BY LenProperties DEF IInv, TypeOK, AckedStand, Local
<1>2. r \in Seq(Poly) /\ Len(r) = 3
  BY <1>1, RecordType
<1>3. d \in Seq(Poly) /\ Len(d) = 3 /\ \A w \in 1 .. 3 : d[w] = disk[s + w]
  <2>1. /\ s + 1 \in Int /\ s + 3 \in Int
        /\ \A j \in s + 1 .. s + 3 : disk[j] \in Poly
    <3>1. \A j \in s + 1 .. s + 3 : j \in 1 .. Len(disk)
      BY <1>1
    <3>. QED BY <1>1, <3>1, ElementOfSeq
  <2>2. /\ d \in Seq(Poly)
        /\ Len(d) = IF s + 1 <= s + 3 THEN (s + 3) - (s + 1) + 1 ELSE 0
        /\ \A w \in 1 .. (s + 3) - (s + 1) + 1 : d[w] = disk[(s + 1) + w - 1]
    BY <2>1, SubSeqProperties
  <2>3. /\ (s + 3) - (s + 1) + 1 = 3 /\ s + 1 <= s + 3
        /\ \A w \in 1 .. 3 : (s + 1) + w - 1 = s + w
    BY SMTT(30), <1>1
  <2>. QED BY <2>2, <2>3
<1>4. \A w \in 1 .. 3 : d[w] = r[w]
  BY <1>1, <1>3
<1>5. d = r
  BY <1>2, <1>3, <1>4, SeqEqual
<1>. QED BY <1>1, <1>5

\* A record whose seb_lattice_append returned 0 is in the file, whole and
\* flushed, through short writes, failed flushes and crashes.
THEOREM AckedCorrect == Spec => []AckedIsDurable
<1>. QED BY AckedStandIsDurable, LogInvariance, PTL

\* Successful records never overlap, and lie in the order in which their calls
\* of seb_lattice_append returned.
THEOREM AckedOrderCorrect == Spec => []AckedInOrder
<1>1. IInv => AckedInOrder
  BY DEF IInv
<1>. QED BY <1>1, LogInvariance, PTL

\* A step keeps every durable word where it is.
LEMMA StepKeepsDurable ==
  ASSUME IInv, [Next]_vars
  PROVE  durable' >= durable /\ \A i \in 1 .. durable : disk'[i] = disk[i]
<1>1. durable \in Nat /\ Len(disk) \in Nat /\ durable <= Len(disk)
  BY LenProperties DEF IInv, TypeOK
<1>2. ASSUME NEW t \in Threads, NEW n \in 0 .. 3,
             pc[t] = "linked", Pwrite(t, n), UNCHANGED durable
      PROVE  durable' >= durable /\ \A i \in 1 .. durable : disk'[i] = disk[i]
  <2>1. local[t].sz = Len(disk)
    BY <1>2 DEF IInv, AppendsAtEnd
  <2>2. \A i \in 1 .. Len(disk) : disk'[i] = disk[i]
    BY <1>2, <2>1, PwriteAtEnd DEF IInv
  <2>. QED BY <1>1, <1>2, <2>2
<1>3. ASSUME NEW t \in Threads, WriteRecord(t)
      PROVE  durable' >= durable /\ \A i \in 1 .. durable : disk'[i] = disk[i]
  BY <1>2, <1>3 DEF WriteRecord
<1>4. ASSUME NEW t \in Threads, WriteShort(t)
      PROVE  durable' >= durable /\ \A i \in 1 .. durable : disk'[i] = disk[i]
  <2>1. PICK n \in 0 .. 2 : Pwrite(t, n)
    BY <1>4 DEF WriteShort
  <2>. QED BY <1>2, <1>4, <2>1 DEF WriteShort
<1>5. ASSUME NEW t \in Threads, FileSize(t) \/ ReadTip(t) \/ Sync(t) \/ Fail(t)
      PROVE  durable' >= durable /\ \A i \in 1 .. durable : disk'[i] = disk[i]
  BY <1>1, <1>5 DEF FileSize, ReadTip, Sync, Fail
<1>6. CASE Crash
  <2>1. PICK n \in durable .. Len(disk) : disk' = SubSeq(disk, 1, n) /\ durable' = n
    BY <1>6 DEF Crash
  <2>2. n \in Int /\ durable <= n /\ \A i \in 1 .. n : disk[i] \in Poly
    BY <1>1, <2>1, ElementOfSeq DEF IInv, TypeOK
  <2>3. \A i \in 1 .. n : disk'[i] = disk[i]
    BY <2>1, <2>2, SubSeqProperties
  <2>. QED BY <1>1, <2>1, <2>2, <2>3
<1>7. CASE UNCHANGED vars
  BY <1>1, <1>7 DEF vars
<1>. QED BY <1>3, <1>4, <1>5, <1>6, <1>7 DEF Next

LEMMA PrefixOfKept ==
  ASSUME IInv, \A i \in 1 .. durable : disk'[i] = disk[i]
  PROVE  SubSeq(disk', 1, durable) = SubSeq(disk, 1, durable)
<1>. DEFINE old == SubSeq(disk, 1, durable)
            new == SubSeq(disk', 1, durable)
<1>1. durable \in Nat /\ \A i \in 1 .. durable : disk[i] \in Poly
  BY LenProperties, ElementOfSeq DEF IInv, TypeOK
<1>2. \A i \in 1 .. durable : disk'[i] \in Poly
  BY <1>1
<1>3. /\ old \in Seq(Poly) /\ Len(old) = IF 1 <= durable THEN durable - 1 + 1 ELSE 0
      /\ \A i \in 1 .. durable - 1 + 1 : old[i] = disk[1 + i - 1]
  BY <1>1, SubSeqProperties
<1>4. /\ new \in Seq(Poly) /\ Len(new) = IF 1 <= durable THEN durable - 1 + 1 ELSE 0
      /\ \A i \in 1 .. durable - 1 + 1 : new[i] = disk'[1 + i - 1]
  BY <1>1, <1>2, SubSeqProperties
<1>5. Len(old) = durable /\ Len(new) = durable
  BY <1>1, <1>3, <1>4
<1>6. \A i \in 1 .. durable : new[i] = old[i]
  <2>1. \A i \in 1 .. durable : 1 + i - 1 = i /\ i \in 1 .. durable - 1 + 1
    BY <1>1
  <2>. QED BY <1>3, <1>4, <2>1
<1>. QED BY <1>3, <1>4, <1>5, <1>6, SeqEqual

\* What has been flushed never changes and never gets less: no later append,
\* whole, short or failed, and no crash, touches it.
THEOREM DurableCorrect == Spec => DurablePrefixKept
<1>1. IInv /\ [Next]_vars
        => [/\ durable' >= durable
            /\ SubSeq(disk', 1, durable) = SubSeq(disk, 1, durable)]_vars
  BY StepKeepsDurable, PrefixOfKept
<1>. QED BY <1>1, LogInvariance, PTL DEF Spec, DurablePrefixKept

-----------------------------------------------------------------------------
(* The circuit is injective in each of its inputs *)

\* Multiplying by x^d moves the coefficient of each exponent to another one.
LEMMA Rotated ==
  ASSUME NEW d \in 0 .. 2, NEW i \in Exponents
  PROVE  \E k \in Exponents : (k - d) % Degree = i
<1>. Degree \in Nat /\ Degree >= 3
  BY DegreeAssumption
<1>1. CASE i + d < Degree
  <2>1. i + d \in Exponents /\ (i + d) - d = i
    BY <1>1 DEF Exponents
  <2>2. i % Degree = i
    BY DEF Exponents
  <2>. QED BY <2>1, <2>2
<1>2. CASE ~(i + d < Degree)
  <2>1. i + d - Degree \in Exponents /\ (i + d - Degree) - d = i - Degree
    BY <1>2 DEF Exponents
  <2>2. (i - Degree) % Degree = i
    BY DEF Exponents
  <2>. QED BY <2>1, <2>2
<1>. QED BY <1>1, <1>2

\* What a key of one coefficient makes of a string.
LEMMA Shifted ==
  ASSUME NEW d \in 0 .. 2, NEW b
  PROVE  CyclicConvolve({d}, b) = {k \in Exponents : (k - d) % Degree \in b}
<1>1. ASSUME NEW k \in Exponents
      PROVE  Cardinality({i \in {d} : (k - i) % Degree \in b}) % 2 = 1
               <=> (k - d) % Degree \in b
  <2>1. CASE (k - d) % Degree \in b
    <3>1. {i \in {d} : (k - i) % Degree \in b} = {d}
      BY <2>1
    <3>2. Cardinality({d}) = 1
      BY FS_Singleton
    <3>3. Cardinality({d}) % 2 = 1
      BY <3>2
    <3>. QED BY <2>1, <3>1, <3>3
  <2>2. CASE ~((k - d) % Degree \in b)
    <3>1. {i \in {d} : (k - i) % Degree \in b} = {}
      BY <2>2
    <3>2. Cardinality({}) = 0
      BY FS_EmptySet
    <3>3. Cardinality({}) % 2 # 1
      BY <3>2
    <3>. QED BY <2>2, <3>1, <3>3
  <2>. QED BY <2>1, <2>2
<1>. QED BY <1>1 DEF CyclicConvolve

LEMMA ConvolveInjective ==
  ASSUME NEW d \in 0 .. 2, NEW b \in Poly, NEW c \in Poly,
         CyclicConvolve({d}, b) = CyclicConvolve({d}, c)
  PROVE  b = c
<1>1. ASSUME NEW i \in Exponents PROVE i \in b <=> i \in c
  <2>1. PICK k \in Exponents : (k - d) % Degree = i
    BY Rotated
  <2>2. k \in CyclicConvolve({d}, b) <=> i \in b
    BY <2>1, Shifted
  <2>3. k \in CyclicConvolve({d}, c) <=> i \in c
    BY <2>1, Shifted
  <2>. QED BY <2>2, <2>3
<1>. QED BY <1>1 DEF Poly

LEMMA XorCancels ==
  ASSUME NEW p, NEW q, NEW r
  PROVE  /\ Xor(p, r) = Xor(q, r) => p = q
         /\ Xor(r, p) = Xor(r, q) => p = q
<1>1. \A x : x \in Xor(p, r) <=> ~(x \in p <=> x \in r)
  BY DEF Xor
<1>2. \A x : x \in Xor(q, r) <=> ~(x \in q <=> x \in r)
  BY DEF Xor
<1>3. Xor(r, p) = Xor(p, r) /\ Xor(r, q) = Xor(q, r)
  BY DEF Xor
<1>4. ASSUME Xor(p, r) = Xor(q, r) PROVE p = q
  <2>1. \A x : x \in p <=> x \in q
    BY <1>1, <1>2, <1>4
  <2>. QED BY <2>1
<1>. QED BY <1>3, <1>4

\* seb_lattice_commit never gives one commitment to two tips, nor to two first
\* or two second halves of a payload, when its other inputs are the same: what
\* seb_lattice.h:6 says of the tip, for strings of any length.
THEOREM CommitInjective ==
  \A p, a, b, q \in Poly :
    /\ q # p => Commit(p, <<a, b>>) # Commit(q, <<a, b>>)
    /\ q # a => Commit(p, <<a, b>>) # Commit(p, <<q, b>>)
    /\ q # b => Commit(p, <<a, b>>) # Commit(p, <<a, q>>)
<1>. SUFFICES ASSUME NEW p \in Poly, NEW a \in Poly, NEW b \in Poly, NEW q \in Poly
              PROVE  /\ q # p => Commit(p, <<a, b>>) # Commit(q, <<a, b>>)
                     /\ q # a => Commit(p, <<a, b>>) # Commit(p, <<q, b>>)
                     /\ q # b => Commit(p, <<a, b>>) # Commit(p, <<a, q>>)
  OBVIOUS
<1>1. ASSUME NEW x \in Poly, NEW y \in Poly, NEW z \in Poly
      PROVE  Commit(x, <<y, z>>)
               = Xor(Xor(CyclicConvolve({0}, x), CyclicConvolve({1}, y)),
                     CyclicConvolve({2}, z))
  BY DEF Commit, K0, K1, K2
<1>2. ASSUME Commit(p, <<a, b>>) = Commit(q, <<a, b>>) PROVE p = q
  <2>1. CyclicConvolve({0}, p) = CyclicConvolve({0}, q)
    BY <1>1, <1>2, XorCancels
  <2>. QED BY <2>1, ConvolveInjective
<1>3. ASSUME Commit(p, <<a, b>>) = Commit(p, <<q, b>>) PROVE a = q
  <2>1. CyclicConvolve({1}, a) = CyclicConvolve({1}, q)
    BY <1>1, <1>3, XorCancels
  <2>. QED BY <2>1, ConvolveInjective
<1>4. ASSUME Commit(p, <<a, b>>) = Commit(p, <<a, q>>) PROVE b = q
  <2>1. CyclicConvolve({2}, b) = CyclicConvolve({2}, q)
    BY <1>1, <1>4, XorCancels
  <2>. QED BY <2>1, ConvolveInjective
<1>. QED BY <1>2, <1>3, <1>4

-----------------------------------------------------------------------------
(* What seb_lattice_verify computes on a chain *)

\* Induction over the naturals, as a fact about sets.
LEMMA SetInduction ==
  ASSUME NEW S \in SUBSET Nat, 0 \in S, \A n \in S : n + 1 \in S
  PROVE  S = Nat
<1>. DEFINE T == Nat \ S
            R == {p \in Nat \X Nat : p[1] < p[2]}
<1>1. IsWellFoundedOn(R, Nat)
  BY NatLessThanWellFounded, SMT DEF OpToRel
<1>2. SUFFICES ASSUME T # {} PROVE FALSE
  OBVIOUS
<1>3. PICK x \in T : \A y \in T : <<y, x>> \notin R
  BY <1>1, <1>2, WFMin
<1>4. x # 0 /\ x \in Nat
  OBVIOUS
<1>5. x - 1 \in Nat /\ <<x - 1, x>> \in R /\ (x - 1) + 1 = x
  BY <1>4
<1>. QED BY <1>3, <1>5

\* The k-th record commits to the one before it.
Linked(k) ==
  disk[3 * k] = Commit(TipBefore(3 * k - 3), <<disk[3 * k - 2], disk[3 * k - 1]>>)

\* The same of a file of any content.
LinkedIn(file, k) ==
  file[3 * k] = Commit(IF k = 1 THEN Zero ELSE file[3 * k - 3],
                       <<file[3 * k - 2], file[3 * k - 1]>>)

LEMMA LinkedInDisk ==
  ASSUME NEW k \in Nat \ {0}
  PROVE  Linked(k) <=> LinkedIn(disk, k)
<1>1. 3 * k - 3 = 0 <=> k = 1
  OBVIOUS
<1>. QED BY <1>1 DEF Linked, LinkedIn, TipBefore

\* The recursive `expected' of Verify exists, and is the file's own commitments
\* as far as they are linked: verify accepts a file of m records exactly when
\* every one of them commits to the one before it.
THEOREM VerifyDecides ==
  ASSUME NEW m \in Nat, NEW file \in Seq(Poly), Len(file) = 3 * m
  PROVE  Verify(file, 0, Len(file) + 1)
           = IF \A k \in 1 .. m : LinkedIn(file, k) THEN 1 ELSE 0
<1>. DEFINE word(k, w) == file[0 + 3 * (k - 1) + w]
            Step(f) == [k \in 0 .. m |->
                          IF k = 0 THEN Zero
                          ELSE Commit(f[k - 1], <<word(k, 1), word(k, 2)>>)]
            stored(k) == IF k = 0 THEN Zero ELSE file[3 * k]
            expected == CHOOSE f : f = Step(f)
<1>1. /\ Len(file) - 0 = 3 * m /\ (3 * m) \div 3 = m /\ (3 * m) % 3 = 0
      /\ m < Len(file) + 1
  OBVIOUS
<1>2. ASSUME NEW k \in 1 .. m
      PROVE  /\ word(k, 1) = file[3 * k - 2] /\ word(k, 2) = file[3 * k - 1]
             /\ word(k, 3) = file[3 * k] /\ word(k, 3) = stored(k)
             /\ word(k, 1) \in Poly /\ word(k, 2) \in Poly
             /\ stored(k - 1) = IF k = 1 THEN Zero ELSE file[3 * k - 3]
  <2>1. /\ 0 + 3 * (k - 1) + 1 = 3 * k - 2 /\ 0 + 3 * (k - 1) + 2 = 3 * k - 1
        /\ 0 + 3 * (k - 1) + 3 = 3 * k
        /\ 3 * (k - 1) = 3 * k - 3 /\ k # 0 /\ (k - 1 = 0 <=> k = 1)
    OBVIOUS
  <2>2. 3 * k - 2 \in 1 .. Len(file) /\ 3 * k - 1 \in 1 .. Len(file)
    OBVIOUS
  <2>3. file[3 * k - 2] \in Poly /\ file[3 * k - 1] \in Poly
    BY <2>2, ElementOfSeq
  <2>. QED BY <2>1, <2>3
<1>3. ASSUME NEW k \in 1 .. m
      PROVE  LinkedIn(file, k)
               <=> word(k, 3) = Commit(stored(k - 1), <<word(k, 1), word(k, 2)>>)
  BY <1>2 DEF LinkedIn
<1>. HIDE DEF word
<1>4. \E f : f = Step(f)
  <2>. DEFINE Computes(f, n) ==
                /\ f[0] = Zero
                /\ \A k \in 1 .. n :
                     f[k] = Commit(f[k - 1], <<word(k, 1), word(k, 2)>>)
              S == {n \in Nat : n <= m => \E f \in [0 .. n -> Poly] : Computes(f, n)}
  <2>1. 0 \in S
    <3>1. /\ [k \in 0 .. 0 |-> Zero] \in [0 .. 0 -> Poly]
          /\ Computes([k \in 0 .. 0 |-> Zero], 0)
      BY ZeroType
    <3>. QED BY <3>1
  <2>2. ASSUME NEW n \in S, n + 1 <= m
        PROVE  \E f \in [0 .. n + 1 -> Poly] : Computes(f, n + 1)
    <3>1. n \in Nat /\ n + 1 \in 1 .. m
      BY <2>2
    <3>2. PICK f \in [0 .. n -> Poly] : Computes(f, n)
      BY <2>2
    <3>. DEFINE new == Commit(f[n], <<word(n + 1, 1), word(n + 1, 2)>>)
                g == [k \in 0 .. n + 1 |-> IF k = n + 1 THEN new ELSE f[k]]
    <3>3. f[n] \in Poly /\ <<word(n + 1, 1), word(n + 1, 2)>> \in Words64
      BY <1>2, <3>1 DEF Words64
    <3>4. new \in Poly
      BY <3>3, CommitType
    <3>. HIDE DEF new
    <3>5. \A k \in 0 .. n + 1 : k # n + 1 => k \in 0 .. n
      BY <3>1
    <3>6. g \in [0 .. n + 1 -> Poly]
      BY <3>4, <3>5
    <3>7. g[0] = Zero
      BY <3>1, <3>2
    <3>8. ASSUME NEW k \in 1 .. n + 1
          PROVE  g[k] = Commit(g[k - 1], <<word(k, 1), word(k, 2)>>)
      <4>1. k \in 0 .. n + 1 /\ k - 1 \in 0 .. n + 1 /\ k - 1 # n + 1
        BY <3>1
      <4>2. g[k - 1] = f[k - 1]
        BY <4>1
      <4>3. CASE k = n + 1
        <5>1. k - 1 = n /\ g[k] = new
          BY <3>1, <4>1, <4>3
        <5>. QED BY <4>2, <4>3, <5>1 DEF new
      <4>4. CASE k # n + 1
        <5>1. k \in 1 .. n /\ g[k] = f[k]
          BY <3>1, <4>1, <4>4
        <5>. QED BY <3>2, <4>2, <5>1
      <4>. QED BY <4>3, <4>4
    <3>. HIDE DEF g
    <3>. QED BY <3>6, <3>7, <3>8
  <2>3. S = Nat
    <3>. HIDE DEF Computes
    <3>1. \A n \in S : n + 1 \in S
      BY <2>2
    <3>. HIDE DEF S
    <3>2. S \in SUBSET Nat
      BY DEF S
    <3>. QED BY <2>1, <3>1, <3>2, SetInduction
  <2>4. PICK f \in [0 .. m -> Poly] : Computes(f, m)
    BY <2>3
  <2>5. \A k \in 0 .. m : f[k] = Step(f)[k]
    BY <2>4
  <2>6. f = [k \in 0 .. m |-> f[k]]
    OBVIOUS
  <2>. HIDE DEF Computes
  <2>. QED BY <2>5, <2>6
<1>5. expected = Step(expected)
  <2>. HIDE DEF Step
  <2>. QED BY <1>4
<1>6. /\ expected[0] = Zero
      /\ \A k \in 1 .. m :
           expected[k] = Commit(expected[k - 1], <<word(k, 1), word(k, 2)>>)
  <2>. HIDE DEF expected
  <2>1. ASSUME NEW k \in 0 .. m
        PROVE  expected[k] = IF k = 0 THEN Zero
                             ELSE Commit(expected[k - 1], <<word(k, 1), word(k, 2)>>)
    <3>1. expected[k] = Step(expected)[k]
      BY <1>5
    <3>. QED BY <3>1
  <2>2. 0 \in 0 .. m /\ \A k \in 1 .. m : k \in 0 .. m /\ k # 0
    OBVIOUS
  <2>. QED BY <2>1, <2>2
<1>7. Verify(file, 0, Len(file) + 1)
        = IF \E k \in 1 .. m : word(k, 3) # expected[k] THEN 0 ELSE 1
  <2>1. Verify(file, 0, Len(file) + 1)
          = IF \E k \in 1 .. m : word(k, 3) # expected[k] THEN 0
            ELSE IF m < Len(file) + 1 /\ (3 * m) % 3 # 0 THEN -1 ELSE 1
    BY <1>1 DEF Verify, word
  <2>. HIDE DEF expected
  <2>. QED BY <1>1, <2>1
<1>. HIDE DEF expected, Step
<1>8. ASSUME \A k \in 1 .. m : LinkedIn(file, k), NEW j \in 1 .. m
      PROVE  word(j, 3) = expected[j]
  <2>. DEFINE S == {k \in Nat : k <= m => expected[k] = stored(k)}
  <2>1. 0 \in S
    BY <1>6
  <2>2. ASSUME NEW k \in S PROVE k + 1 \in S
    <3>1. ASSUME k + 1 <= m PROVE expected[k + 1] = stored(k + 1)
      <4>1. k \in Nat /\ k + 1 \in 1 .. m /\ (k + 1) - 1 = k /\ k <= m
        BY <3>1
      <4>2. expected[k] = stored(k)
        BY <4>1
      <4>. HIDE DEF stored
      <4>3. word(k + 1, 3) = Commit(stored(k), <<word(k + 1, 1), word(k + 1, 2)>>)
        BY <1>3, <1>8, <4>1
      <4>4. expected[k + 1] = Commit(expected[k], <<word(k + 1, 1), word(k + 1, 2)>>)
        BY <1>6, <4>1
      <4>. QED BY <1>2, <4>1, <4>2, <4>3, <4>4
    <3>. QED BY <3>1
  <2>3. S = Nat
    <3>. HIDE DEF S
    <3>1. S \in SUBSET Nat
      BY DEF S
    <3>. QED BY <2>1, <2>2, <3>1, SetInduction
  <2>4. expected[j] = stored(j)
    BY <2>3
  <2>. QED BY <1>2, <2>4
<1>9. ASSUME \A k \in 1 .. m : word(k, 3) = expected[k], NEW j \in 1 .. m
      PROVE  LinkedIn(file, j)
  <2>1. expected[j - 1] = stored(j - 1)
    <3>1. CASE j = 1
      BY <1>6, <3>1
    <3>2. CASE j # 1
      <4>1. j - 1 \in 1 .. m
        BY <3>2
      <4>. QED BY <1>2, <1>9, <4>1
    <3>. QED BY <3>1, <3>2
  <2>. HIDE DEF stored
  <2>. QED BY <1>3, <1>6, <1>9, <2>1
<1>10. (\E k \in 1 .. m : word(k, 3) # expected[k])
         <=> ~ \A k \in 1 .. m : LinkedIn(file, k)
  BY <1>8, <1>9
<1>. QED BY <1>7, <1>10

\* A chain with one word altered is no chain: the record of that word is not
\* linked any more.
LEMMA AlteredUnlinked ==
  ASSUME NEW m \in Nat, NEW file \in Seq(Poly), Len(file) = 3 * m,
         \A k \in 1 .. m : LinkedIn(file, k),
         NEW i \in 1 .. Len(file), NEW new \in Poly, new # file[i]
  PROVE  \E k \in 1 .. m : ~LinkedIn([file EXCEPT ![i] = new], k)
<1>. DEFINE other == [file EXCEPT ![i] = new]
            k == (i + 2) \div 3
            prev == IF k = 1 THEN Zero ELSE file[3 * k - 3]
<1>1. k \in 1 .. m /\ (i = 3 * k - 2 \/ i = 3 * k - 1 \/ i = 3 * k)
  OBVIOUS
<1>. HIDE DEF k
<1>2. /\ 3 * k - 2 \in 1 .. Len(file) /\ 3 * k - 1 \in 1 .. Len(file)
      /\ 3 * k \in 1 .. Len(file) /\ (k # 1 => 3 * k - 3 \in 1 .. Len(file))
      /\ 3 * k - 3 # i /\ 3 * k - 2 # 3 * k - 1 /\ 3 * k - 2 # 3 * k
      /\ 3 * k - 1 # 3 * k
  BY <1>1
<1>3. \A j \in 1 .. Len(file) : other[j] = IF j = i THEN new ELSE file[j]
  OBVIOUS
<1>. HIDE DEF other
<1>4. (IF k = 1 THEN Zero ELSE other[3 * k - 3]) = prev
  BY <1>2, <1>3
<1>5. LinkedIn(other, k) <=>
        other[3 * k] = Commit(prev, <<other[3 * k - 2], other[3 * k - 1]>>)
  BY <1>4 DEF LinkedIn
<1>6. PICK a \in Poly, b \in Poly : a = file[3 * k - 2] /\ b = file[3 * k - 1]
  BY <1>2, ElementOfSeq
<1>7. file[3 * k] = Commit(prev, <<a, b>>)
  BY <1>1, <1>6 DEF LinkedIn
<1>8. prev \in Poly
  BY <1>2, ZeroType, ElementOfSeq
<1>. HIDE DEF prev
<1>9. CASE i = 3 * k
  <2>1. other[3 * k] = new /\ other[3 * k - 2] = a /\ other[3 * k - 1] = b
    BY <1>2, <1>3, <1>6, <1>9
  <2>2. ~LinkedIn(other, k)
    BY <1>5, <1>7, <1>9, <2>1
  <2>. QED BY <1>1, <2>2 DEF other
<1>10. CASE i = 3 * k - 2
  <2>1. /\ other[3 * k] = file[3 * k] /\ other[3 * k - 2] = new
        /\ other[3 * k - 1] = b
    BY <1>2, <1>3, <1>6, <1>10
  <2>2. new # a
    BY <1>6, <1>10
  <2>3. Commit(prev, <<a, b>>) # Commit(prev, <<new, b>>)
    BY <1>8, <2>2, CommitInjective
  <2>4. ~LinkedIn(other, k)
    BY <1>5, <1>7, <2>1, <2>3
  <2>. QED BY <1>1, <2>4 DEF other
<1>11. CASE i = 3 * k - 1
  <2>1. /\ other[3 * k] = file[3 * k] /\ other[3 * k - 1] = new
        /\ other[3 * k - 2] = a
    BY <1>2, <1>3, <1>6, <1>11
  <2>2. new # b
    BY <1>6, <1>11
  <2>3. Commit(prev, <<a, b>>) # Commit(prev, <<a, new>>)
    BY <1>8, <2>2, CommitInjective
  <2>4. ~LinkedIn(other, k)
    BY <1>5, <1>7, <2>1, <2>3
  <2>. QED BY <1>1, <2>4 DEF other
<1>. QED BY <1>1, <1>9, <1>10, <1>11

-----------------------------------------------------------------------------
(* The file is a chain, unless a record was left incomplete *)

Chained ==
  /\ \E m \in Nat : Len(disk) = 3 * m
  /\ \A k \in Nat \ {0} : 3 * k <= Len(disk) => Linked(k)

\* Who is about to write has read the tip of the file as it is.
TipRead ==
  \A t \in Threads : pc[t] = "linked" => local[t].tip = TipBefore(local[t].sz)

\* The inductive invariant for what verify returns, on top of IInv.
ChainInv ==
  /\ ~torn => Chained
  /\ TipRead

\* A shorter file is linked as far as it goes.
LEMMA PrefixChained ==
  ASSUME Chained, NEW n \in Nat, n <= Len(disk), Len(disk) \in Nat,
         Len(disk') = n, n % 3 = 0, \A i \in 1 .. n : disk'[i] = disk[i]
  PROVE  Chained'
<1>1. n = 3 * (n \div 3) /\ n \div 3 \in Nat
  OBVIOUS
<1>2. ASSUME NEW k \in Nat \ {0}, 3 * k <= n PROVE Linked(k)'
  <2>1. Linked(k) /\ 3 * k \in 1 .. n /\ 3 * k - 2 \in 1 .. n /\ 3 * k - 1 \in 1 .. n
    BY <1>2 DEF Chained
  <2>2. 3 * k - 3 = 0 \/ 3 * k - 3 \in 1 .. n
    BY <1>2
  <2>3. TipBefore(3 * k - 3)' = TipBefore(3 * k - 3)
    BY <2>2 DEF TipBefore
  <2>. QED BY <2>1, <2>3 DEF Linked
<1>. QED BY <1>1, <1>2 DEF Chained

\* A record with the tip of the file in it continues the chain.
LEMMA RecordChained ==
  ASSUME Chained, NEW n \in Nat, n = Len(disk), NEW l, l.tip = TipBefore(n),
         Len(disk') = n + 3,
         \A i \in 1 .. n : disk'[i] = disk[i],
         \A w \in 1 .. 3 : disk'[n + w] = Record(l)[w]
  PROVE  Chained'
<1>1. PICK m \in Nat : n = 3 * m
  BY DEF Chained
<1>2. Len(disk') = 3 * (m + 1)
  BY <1>1
<1>3. ASSUME NEW k \in Nat \ {0}, 3 * k <= n PROVE Linked(k)'
  <2>1. /\ Linked(k) /\ 3 * k \in 1 .. n /\ 3 * k - 2 \in 1 .. n
        /\ 3 * k - 1 \in 1 .. n
    BY <1>3 DEF Chained
  <2>2. 3 * k - 3 = 0 \/ 3 * k - 3 \in 1 .. n
    BY <1>3
  <2>3. TipBefore(3 * k - 3)' = TipBefore(3 * k - 3)
    BY <2>2 DEF TipBefore
  <2>. QED BY <2>1, <2>3 DEF Linked
<1>4. Linked(m + 1)'
  <2>1. 3 * (m + 1) = n + 3 /\ 3 * (m + 1) - 2 = n + 1
        /\ 3 * (m + 1) - 1 = n + 2 /\ 3 * (m + 1) - 3 = n
    BY <1>1
  <2>2. /\ disk'[n + 1] = l.payload[1] /\ disk'[n + 2] = l.payload[2]
        /\ disk'[n + 3] = Commit(l.tip, l.payload)
    BY DEF Record
  <2>3. Commit(l.tip, l.payload) = Commit(l.tip, <<l.payload[1], l.payload[2]>>)
    BY DEF Commit
  <2>4. TipBefore(n)' = l.tip
    <3>1. CASE n = 0
      BY <3>1 DEF TipBefore
    <3>2. CASE n # 0
      BY <3>2 DEF TipBefore
    <3>. QED BY <3>1, <3>2
  <2>. QED BY <2>1, <2>2, <2>3, <2>4 DEF Linked
<1>5. ASSUME NEW k \in Nat \ {0}, 3 * k <= Len(disk') PROVE Linked(k)'
  <2>1. 3 * k <= n \/ k = m + 1
    BY <1>1, <1>2, <1>5
  <2>. QED BY <1>3, <1>4, <2>1
<1>. QED BY <1>2, <1>5 DEF Chained

LEMMA InitChainInv == Init => ChainInv
<1>. SUFFICES ASSUME Init PROVE ChainInv
  OBVIOUS
<1>1. Len(disk) = 3 * 0 /\ \A k \in Nat \ {0} : ~(3 * k <= Len(disk))
  BY DEF Init
<1>2. Chained
  BY <1>1 DEF Chained
<1>3. TipRead
  BY DEF Init, TipRead
<1>. QED BY <1>2, <1>3 DEF ChainInv

LEMMA NextChainInv == IInv /\ ChainInv /\ [Next]_vars => ChainInv'
<1>. SUFFICES ASSUME IInv, ChainInv, [Next]_vars PROVE ChainInv'
  OBVIOUS
<1>0. TypeOK /\ Len(disk) \in Nat /\ durable \in 0 .. Len(disk)
  BY LenProperties DEF IInv, TypeOK
\* the file and who is linked stay as they are
<1>1. ASSUME UNCHANGED <<disk, torn>>,
             \A u \in Threads : pc'[u] = "linked" =>
               pc[u] = "linked" /\ local'[u] = local[u]
      PROVE  ChainInv'
  <2>1. Chained' <=> Chained
    BY <1>1 DEF Chained, Linked, TipBefore
  <2>2. TipRead'
    BY <1>1 DEF ChainInv, TipRead, TipBefore
  <2>. QED BY <1>1, <2>1, <2>2 DEF ChainInv
<1>2. ASSUME NEW t \in Threads, pc[t] # "idle", Return(t)
      PROVE  \A u \in Threads : pc'[u] = "idle"
  BY <1>2 DEF IInv, TypeOK, Locked, Return
<1>3. ASSUME NEW t \in Threads, FileSize(t) PROVE ChainInv'
  <2>1. \A u \in Threads : pc[u] = "idle" /\ pc'[u] # "linked"
    BY <1>3, LogAssumption DEF IInv, TypeOK, Locked, FileSize
  <2>. QED BY <1>1, <1>3, <2>1 DEF FileSize
<1>4. ASSUME NEW t \in Threads, ReadTip(t) PROVE ChainInv'
  <2>1. /\ UNCHANGED <<disk, torn>>
        /\ local' = [local EXCEPT ![t].tip = TipBefore(local[t].sz)]
        /\ local[t] \in Local
        /\ \A u \in Threads : u # t => pc[u] = "idle" /\ pc'[u] = "idle"
    BY <1>4 DEF ReadTip, IInv, TypeOK, Locked
  <2>2. /\ local'[t].tip = TipBefore(local[t].sz) /\ local'[t].sz = local[t].sz
    BY <2>1 DEF IInv, TypeOK, Local
  <2>3. TipRead'
    BY <2>1, <2>2 DEF TipRead, TipBefore
  <2>4. Chained' <=> Chained
    BY <2>1 DEF Chained, Linked, TipBefore
  <2>. QED BY <2>1, <2>3, <2>4 DEF ChainInv
<1>5. ASSUME NEW t \in Threads, WriteRecord(t) PROVE ChainInv'
  <2>1. /\ UNCHANGED torn /\ Pwrite(t, 3) /\ pc[t] = "linked"
        /\ local[t].sz = Len(disk)
        /\ \A u \in Threads : pc'[u] # "linked"
    BY <1>5 DEF WriteRecord, IInv, TypeOK, AppendsAtEnd, Locked
  <2>2. /\ Len(disk') = Len(disk) + 3
        /\ \A i \in 1 .. Len(disk) : disk'[i] = disk[i]
        /\ \A w \in 1 .. 3 : disk'[Len(disk) + w] = Record(local[t])[w]
    BY <1>0, <2>1, PwriteAtEnd
  <2>3. local[t].tip = TipBefore(Len(disk))
    BY <2>1 DEF ChainInv, TipRead
  <2>4. PICK n \in Nat : n = Len(disk)
    BY <1>0
  <2>5. PICK l : l = local[t]
    OBVIOUS
  <2>6. Chained => Chained'
    BY <2>2, <2>3, <2>4, <2>5, RecordChained
  <2>. QED BY <2>1, <2>6 DEF ChainInv, TipRead
<1>6. ASSUME NEW t \in Threads, WriteShort(t) PROVE ChainInv'
  <2>1. PICK n \in 0 .. 2 : Pwrite(t, n) /\ torn' = (torn \/ n > 0)
    BY <1>6 DEF WriteShort
  <2>2. /\ pc[t] = "linked" /\ Return(t) /\ local[t].sz = Len(disk)
    BY <1>6 DEF WriteShort, IInv, AppendsAtEnd
  <2>3. TipRead'
    BY <1>2, <2>2 DEF TipRead
  <2>4. CASE n = 0
    <3>1. Len(disk') = Len(disk) /\ \A i \in 1 .. Len(disk) : disk'[i] = disk[i]
      BY <1>0, <2>1, <2>2, <2>4, PwriteAtEnd
    <3>2. Chained => Len(disk) % 3 = 0
      BY DEF Chained
    <3>3. Chained => Chained'
      BY <1>0, <3>1, <3>2, PrefixChained
    <3>. QED BY <2>1, <2>3, <2>4, <3>3 DEF ChainInv
  <2>5. CASE n # 0
    <3>1. n > 0
      BY <2>5
    <3>2. torn'
      BY <2>1, <3>1
    <3>. QED BY <2>3, <3>2 DEF ChainInv
  <2>. QED BY <2>4, <2>5
<1>7. ASSUME NEW t \in Threads, Sync(t) \/ Fail(t) PROVE ChainInv'
  <2>1. UNCHANGED <<disk, torn>> /\ Return(t) /\ pc[t] # "idle"
    BY <1>7 DEF Sync, Fail
  <2>. QED BY <1>1, <1>2, <2>1
<1>8. CASE Crash
  <2>1. PICK n \in durable .. Len(disk) :
          disk' = SubSeq(disk, 1, n) /\ torn' = (torn \/ n % 3 # 0)
    BY <1>8 DEF Crash
  <2>2. /\ n \in Nat /\ n <= Len(disk) /\ Len(disk') = n
        /\ \A i \in 1 .. n : disk'[i] = disk[i]
    <3>1. n \in Nat /\ n <= Len(disk) /\ disk \in Seq(Poly)
      BY <1>0 DEF TypeOK
    <3>. QED BY <1>0, <2>1, <3>1, SubSeqProperties
  <2>3. TipRead'
    BY <1>8 DEF Crash, TipRead
  <2>4. Chained /\ n % 3 = 0 => Chained'
    BY <1>0, <2>2, PrefixChained
  <2>. QED BY <2>1, <2>3, <2>4 DEF ChainInv
<1>9. CASE UNCHANGED vars
  BY <1>1, <1>9 DEF vars
<1>. QED BY <1>3, <1>4, <1>5, <1>6, <1>7, <1>8, <1>9 DEF Next

\* A file in which no record was left incomplete is one chain from genesis, and
\* seb_lattice_verify accepts it, during appends, after failed flushes, and
\* after crashes between two records; it accepts no file that differs from it in
\* one word.
THEOREM VerifyCorrect == Spec => []IntactVerifies
<1>1. ASSUME IInv, Chained
      PROVE  /\ Verify(disk, 0, AllRecords) = 1
             /\ \A i \in 1 .. Len(disk) : \A word \in Poly \ {disk[i]} :
                  Verify([disk EXCEPT ![i] = word], 0, AllRecords) = 0
  <2>1. PICK m \in Nat : Len(disk) = 3 * m
    BY <1>1 DEF Chained
  <2>2. disk \in Seq(Poly)
    BY <1>1 DEF IInv, TypeOK
  <2>3. \A k \in 1 .. m : LinkedIn(disk, k)
    <3>1. ASSUME NEW k \in 1 .. m PROVE LinkedIn(disk, k)
      <4>1. k \in Nat \ {0} /\ 3 * k <= Len(disk)
        BY <2>1
      <4>. QED BY <1>1, <4>1, LinkedInDisk DEF Chained
    <3>. QED BY <3>1
  <2>4. Verify(disk, 0, AllRecords) = 1
    BY <2>1, <2>2, <2>3, VerifyDecides DEF AllRecords
  <2>5. ASSUME NEW i \in 1 .. Len(disk), NEW word \in Poly \ {disk[i]}
        PROVE  Verify([disk EXCEPT ![i] = word], 0, AllRecords) = 0
    <3>. DEFINE other == [disk EXCEPT ![i] = word]
    <3>1. other \in Seq(Poly) /\ Len(other) = Len(disk)
      BY <2>2, ExceptSeq
    <3>2. ~ \A k \in 1 .. m : LinkedIn(other, k)
      BY <2>1, <2>2, <2>3, AlteredUnlinked
    <3>. HIDE DEF other
    <3>3. Verify(other, 0, Len(other) + 1) = 0
      BY <2>1, <3>1, <3>2, VerifyDecides
    <3>. QED BY <3>1, <3>3 DEF other, AllRecords
  <2>. QED BY <2>4, <2>5
<1>2. IInv /\ ChainInv => IntactVerifies
  BY <1>1 DEF ChainInv, IntactVerifies
<1>. QED BY <1>2, InitChainInv, NextChainInv, LogInvariance, PTL DEF Spec
=============================================================================
