------------------------ MODULE FiscalAdapter_proofs ------------------------
(***************************************************************************)
(* The settlement adapter's safety, for every set of jobs and hashes, any  *)
(* number of calls, and either behaviour of SEB_APPEND.                    *)
(***************************************************************************)
EXTENDS FiscalAdapter, SequenceTheorems, TLAPS

\* What a job that is past a step of SEB_Fiscal_Settlement can rely on: its
\* event is in the chain, then its hash is in the ledger.
JobBacked(j) ==
  /\ job[j].at \in {"insert", "confirm"} =>
       IsSettlement(job[j].seb_offset, job[j].hash)
  /\ job[j].at = "confirm" => Settled(job[j].hash)
JobsBacked == \A j \in Jobs : JobBacked(j)

\* SuccessIsConfirmed, of one job.
SuccessBacked(j) ==
  job[j].at = "SUCCESS" =>
    /\ Settled(job[j].hash)
    /\ \E i \in 1 .. Len(chain) :
         chain[i] = [type |-> "CONFIRM", hash |-> job[j].hash,
                     names |-> job[j].settlement_id]

\* The inductive invariant.
IInv ==
  /\ TypeOK
  /\ JobsBacked
  /\ RowNamesItsSettlement
  /\ ConfirmedIsSettled
  /\ SuccessIsConfirmed

-----------------------------------------------------------------------------
(* The chain and the ledger only grow *)

\* What an append to the chain leaves as it was.
LEMMA ChainGrows ==
  ASSUME TypeOK, NEW e \in Event, chain' = Append(chain, e)
  PROVE  /\ chain' \in Seq(Event)
         /\ Len(chain) \in Nat
         /\ Len(chain') = Len(chain) + 1
         /\ \A i \in 1 .. Len(chain) : chain'[i] = chain[i]
         /\ chain'[Len(chain) + 1] = e
BY AppendProperties, LenProperties DEF TypeOK

\* A settlement event stays where it is when the chain grows.
LEMMA SettlementStays ==
  ASSUME TypeOK, NEW e \in Event, chain' = Append(chain, e),
         NEW o, NEW h, IsSettlement(o, h)
  PROVE  IsSettlement(o, h)'
BY ChainGrows DEF IsSettlement

\* An append by one job, of an event that is not a confirmation, or of one that
\* is backed, preserves what the chain and the ledger hold.
LEMMA AppendKeepsRecords ==
  ASSUME IInv, NEW e \in Event, chain' = Append(chain, e), UNCHANGED ledger,
         e.type = "CONFIRM" =>
           Settled(e.hash) /\ IsSettlement(e.names, e.hash)
  PROVE  RowNamesItsSettlement' /\ ConfirmedIsSettled'
<1>. DEFINE n == Len(chain)
<1>1. /\ n \in Nat /\ Len(chain') = n + 1
      /\ \A i \in 1 .. n : chain'[i] = chain[i]
      /\ chain'[n + 1] = e
  BY ChainGrows DEF IInv
<1>2. RowNamesItsSettlement'
  BY SettlementStays DEF IInv, RowNamesItsSettlement
<1>3. ConfirmedIsSettled'
  <2>1. ASSUME NEW i \in 1 .. n, chain[i].type = "CONFIRM"
        PROVE  /\ Settled(chain[i].hash)'
               /\ chain[i].names < i
               /\ IsSettlement(chain[i].names, chain[i].hash)
    BY <2>1 DEF IInv, ConfirmedIsSettled, Settled
  <2>2. ASSUME NEW i \in 1 .. n + 1, chain'[i].type = "CONFIRM"
        PROVE  /\ chain'[i].hash \in DOMAIN ledger'
               /\ chain'[i].names < i
               /\ chain'[i].names \in 1 .. n + 1
               /\ chain'[chain'[i].names].type = "SETTLEMENT"
               /\ chain'[chain'[i].names].hash = chain'[i].hash
    <3>1. CASE i \in 1 .. n
      BY <1>1, <2>1, <2>2, <3>1 DEF IInv, ConfirmedIsSettled, Settled, IsSettlement
    <3>2. CASE i = n + 1
      BY <1>1, <2>2, <3>2 DEF Settled, IsSettlement
    <3>. QED BY <1>1, <3>1, <3>2
  <2>. QED BY <1>1, <2>2 DEF ConfirmedIsSettled, Settled, IsSettlement
<1>. QED BY <1>2, <1>3

\* A step of one job leaves the others as well backed as they were, if chain
\* and ledger only grow in it.
LEMMA OthersStand ==
  ASSUME IInv, NEW j \in Jobs,
         \A k \in Jobs : k # j => job'[k] = job[k],
         DOMAIN ledger \subseteq DOMAIN ledger',
         UNCHANGED chain \/ \E e \in Event : chain' = Append(chain, e),
         JobBacked(j)', SuccessBacked(j)'
  PROVE  JobsBacked' /\ SuccessIsConfirmed'
<1>1. /\ Len(chain) \in Nat /\ Len(chain') \in Nat /\ Len(chain) <= Len(chain')
      /\ \A i \in 1 .. Len(chain) : chain'[i] = chain[i]
  BY ChainGrows, LenProperties DEF IInv, TypeOK
<1>2. ASSUME NEW k \in Jobs, k # j PROVE JobBacked(k)'
  <2>1. job'[k] = job[k] /\ JobBacked(k)
    BY <1>2 DEF IInv, JobsBacked
  <2>. QED BY <1>1, <2>1 DEF JobBacked, IsSettlement, Settled
<1>3. ASSUME NEW k \in Jobs, k # j PROVE SuccessBacked(k)'
  <2>1. job'[k] = job[k] /\ SuccessBacked(k)
    BY <1>3 DEF IInv, SuccessIsConfirmed, SuccessBacked
  <2>. QED BY <1>1, <2>1 DEF SuccessBacked, Settled
<1>. QED BY <1>2, <1>3 DEF JobsBacked, SuccessIsConfirmed, SuccessBacked

\* A step that leaves chain and ledger alone leaves their contents true.
LEMMA RecordsStand ==
  ASSUME IInv, UNCHANGED <<chain, ledger>>
  PROVE  RowNamesItsSettlement' /\ ConfirmedIsSettled'
BY DEF IInv, RowNamesItsSettlement, ConfirmedIsSettled, IsSettlement, Settled

-----------------------------------------------------------------------------
(* The steps *)

LEMMA InitIInv == Init => IInv
<1>. SUFFICES ASSUME Init PROVE IInv
  OBVIOUS
<1>1. job \in [Jobs -> Job] /\ \A j \in Jobs : job[j].at = "idle"
  BY DEF Init, Job
<1>2. TypeOK
  BY <1>1, AdapterAssumption DEF Init, TypeOK, Job, Event
<1>3. JobsBacked /\ SuccessIsConfirmed
  BY <1>1 DEF JobsBacked, JobBacked, SuccessIsConfirmed
<1>4. RowNamesItsSettlement /\ ConfirmedIsSettled
  BY DEF Init, RowNamesItsSettlement, ConfirmedIsSettled
<1>. QED BY <1>2, <1>3, <1>4 DEF IInv

\* The duplicate check starts a call over; what an earlier call of the job did
\* stays in chain and ledger.
LEMMA SettlePreserves ==
  ASSUME IInv, NEW j \in Jobs, NEW h \in Hashes, Settle(j, h)
  PROVE  IInv'
<1>1. PICK at \in {"duplicate", "append"} :
        job' = [job EXCEPT ![j] = [at |-> at, hash |-> h, seb_offset |-> 0,
                                   settlement_id |-> 0]]
  BY DEF Settle
<1>2. UNCHANGED <<chain, ledger, errors>> /\ calls' \in 0 .. MaxCalls
  BY AdapterAssumption DEF Settle, IInv, TypeOK
<1>3. TypeOK'
  BY <1>1, <1>2 DEF IInv, TypeOK, Job
<1>4. /\ job'[j].at = at
      /\ \A k \in Jobs : k # j => job'[k] = job[k]
  BY <1>1 DEF IInv, TypeOK
<1>5. JobsBacked' /\ SuccessIsConfirmed'
  BY <1>2, <1>4, OthersStand DEF JobBacked, SuccessBacked
<1>. QED BY <1>2, <1>3, <1>5, RecordsStand DEF IInv

\* A failed call, or a killed job, changes nothing but where the job is.
LEMMA StopPreserves ==
  ASSUME IInv, NEW j \in Jobs, NEW at \in {"failed", "idle"}, Goto(j, at),
         UNCHANGED <<chain, ledger, calls, errors>>
  PROVE  IInv'
<1>1. job' = [job EXCEPT ![j].at = at]
  BY DEF Goto
<1>2. TypeOK'
  BY <1>1 DEF IInv, TypeOK, Job
<1>3. /\ job'[j].at = at
      /\ \A k \in Jobs : k # j => job'[k] = job[k]
  BY <1>1 DEF IInv, TypeOK, Job
<1>4. JobsBacked' /\ SuccessIsConfirmed'
  BY <1>3, OthersStand DEF JobBacked, SuccessBacked
<1>. QED BY <1>2, <1>4, RecordsStand DEF IInv

LEMMA AppendToSebChainPreserves ==
  ASSUME IInv, NEW j \in Jobs, AppendToSebChain(j)
  PROVE  IInv'
<1>. DEFINE h == job[j].hash
            e == [type |-> "SETTLEMENT", hash |-> h, names |-> 0]
<1>0. job[j] \in Job /\ h \in Hashes /\ Len(chain) \in Nat
  BY LenProperties DEF IInv, TypeOK, Job
<1>1. CASE /\ chain' = Append(chain, e)
           /\ job' = [job EXCEPT ![j].at = "insert", ![j].seb_offset = AppendedOffset]
           /\ UNCHANGED <<ledger, calls, errors>>
  <2>1. e \in Event
    BY <1>0 DEF Event
  <2>2. /\ chain' \in Seq(Event) /\ Len(chain') = Len(chain) + 1
        /\ chain'[Len(chain) + 1] = e
    BY <1>1, <2>1, ChainGrows DEF IInv
  <2>3. TypeOK'
    <3>1. AppendedOffset \in Nat
      BY <1>0 DEF AppendedOffset
    <3>2. job' \in [Jobs -> Job]
      BY <1>0, <1>1, <3>1 DEF IInv, TypeOK, Job
    <3>. QED BY <1>1, <2>2, <3>2 DEF IInv, TypeOK
  <2>4. /\ job'[j].at = "insert" /\ job'[j].hash = h
        /\ job'[j].seb_offset = Len(chain) + 1
        /\ \A k \in Jobs : k # j => job'[k] = job[k]
    BY <1>0, <1>1 DEF IInv, TypeOK, Job, AppendedOffset
  <2>5. JobBacked(j)' /\ SuccessBacked(j)'
    BY <1>0, <2>2, <2>4 DEF JobBacked, SuccessBacked, IsSettlement
  <2>6. JobsBacked' /\ SuccessIsConfirmed'
    BY <1>1, <2>1, <2>4, <2>5, OthersStand
  <2>7. RowNamesItsSettlement' /\ ConfirmedIsSettled'
    BY <1>1, <2>1, AppendKeepsRecords
  <2>. QED BY <2>3, <2>6, <2>7 DEF IInv
<1>2. CASE /\ Settled(h)
           /\ job' = [job EXCEPT ![j].at = "insert", ![j].seb_offset = ledger[h]]
           /\ UNCHANGED <<chain, ledger, calls, errors>>
  <2>1. ledger[h] \in Nat /\ IsSettlement(ledger[h], h)
    BY <1>2 DEF IInv, TypeOK, RowNamesItsSettlement, Settled
  <2>2. TypeOK'
    BY <1>0, <1>2, <2>1 DEF IInv, TypeOK, Job
  <2>3. /\ job'[j].at = "insert" /\ job'[j].hash = h
        /\ job'[j].seb_offset = ledger[h]
        /\ \A k \in Jobs : k # j => job'[k] = job[k]
    BY <1>0, <1>2 DEF IInv, TypeOK, Job
  <2>4. JobBacked(j)' /\ SuccessBacked(j)'
    BY <1>2, <2>1, <2>3 DEF JobBacked, SuccessBacked, IsSettlement
  <2>5. JobsBacked' /\ SuccessIsConfirmed'
    BY <1>2, <2>3, <2>4, OthersStand
  <2>. QED BY <1>2, <2>2, <2>5, RecordsStand DEF IInv
<1>3. CASE Goto(j, "failed") /\ UNCHANGED <<chain, ledger, calls, errors>>
  BY <1>3, StopPreserves
<1>. QED BY <1>1, <1>2, <1>3 DEF AppendToSebChain

\* ON CONFLICT DO NOTHING: a row that is there keeps its offset, a new one gets
\* the offset of the job's own event.
LEMMA InsertPreserves ==
  ASSUME IInv, NEW j \in Jobs, InsertIntoLedger(j)
  PROVE  IInv'
<1>0. /\ job[j] \in Job /\ job[j].hash \in Hashes /\ job[j].seb_offset \in Nat
      /\ IsSettlement(job[j].seb_offset, job[j].hash)
  BY DEF IInv, TypeOK, Job, JobsBacked, JobBacked, InsertIntoLedger
<1>1. CASE /\ ledger' = [h \in DOMAIN ledger \cup {job[j].hash} |->
                           IF Settled(h) THEN ledger[h] ELSE job[j].seb_offset]
           /\ Goto(j, "confirm")
           /\ UNCHANGED <<chain, calls, errors>>
  <2>1. /\ DOMAIN ledger' = DOMAIN ledger \cup {job[j].hash}
        /\ \A h \in DOMAIN ledger : ledger'[h] = ledger[h]
        /\ job[j].hash \notin DOMAIN ledger =>
             ledger'[job[j].hash] = job[j].seb_offset
    BY <1>1 DEF Settled
  <2>2. ledger' \in [DOMAIN ledger' -> Nat] /\ DOMAIN ledger' \subseteq Hashes
    BY <1>0, <1>1, <2>1 DEF IInv, TypeOK, Settled
  <2>3. job' = [job EXCEPT ![j].at = "confirm"]
    BY <1>1 DEF Goto
  <2>4. TypeOK'
    BY <1>0, <1>1, <2>2, <2>3 DEF IInv, TypeOK, Job
  <2>5. /\ job'[j].at = "confirm" /\ job'[j].hash = job[j].hash
        /\ job'[j].seb_offset = job[j].seb_offset
        /\ \A k \in Jobs : k # j => job'[k] = job[k]
    BY <1>0, <2>3 DEF IInv, TypeOK, Job
  <2>6. JobBacked(j)' /\ SuccessBacked(j)'
    BY <1>0, <1>1, <2>1, <2>5 DEF JobBacked, SuccessBacked, IsSettlement, Settled
  <2>7. JobsBacked' /\ SuccessIsConfirmed'
    BY <1>1, <2>1, <2>5, <2>6, OthersStand
  <2>8. RowNamesItsSettlement'
    BY <1>0, <1>1, <2>1 DEF IInv, RowNamesItsSettlement, IsSettlement
  <2>9. ConfirmedIsSettled'
    BY <1>1, <2>1 DEF IInv, ConfirmedIsSettled, IsSettlement, Settled
  <2>. QED BY <2>4, <2>7, <2>8, <2>9 DEF IInv
<1>2. CASE Goto(j, "failed") /\ UNCHANGED <<chain, ledger, calls, errors>>
  BY <1>2, StopPreserves
<1>. QED BY <1>1, <1>2 DEF InsertIntoLedger

LEMMA EmitConfirmationPreserves ==
  ASSUME IInv, NEW j \in Jobs, EmitConfirmation(j)
  PROVE  IInv'
<1>. DEFINE e == [type |-> "CONFIRM", hash |-> job[j].hash,
                  names |-> job[j].seb_offset]
<1>0. /\ job[j] \in Job /\ job[j].hash \in Hashes /\ job[j].seb_offset \in Nat
      /\ IsSettlement(job[j].seb_offset, job[j].hash) /\ Settled(job[j].hash)
      /\ Len(chain) \in Nat
  BY LenProperties
  DEF IInv, TypeOK, Job, JobsBacked, JobBacked, EmitConfirmation
<1>1. CASE /\ chain' = Append(chain, e)
           /\ job' = [job EXCEPT ![j].at = "SUCCESS",
                                 ![j].settlement_id = job[j].seb_offset]
           /\ UNCHANGED <<ledger, calls, errors>>
  <2>1. e \in Event
    BY <1>0 DEF Event
  <2>2. /\ chain' \in Seq(Event) /\ Len(chain') = Len(chain) + 1
        /\ chain'[Len(chain) + 1] = e
    BY <1>1, <2>1, ChainGrows DEF IInv
  <2>3. TypeOK'
    BY <1>0, <1>1, <2>2 DEF IInv, TypeOK, Job
  <2>4. /\ job'[j].at = "SUCCESS" /\ job'[j].hash = job[j].hash
        /\ job'[j].settlement_id = job[j].seb_offset
        /\ \A k \in Jobs : k # j => job'[k] = job[k]
    BY <1>0, <1>1 DEF IInv, TypeOK, Job
  <2>5. JobBacked(j)' /\ SuccessBacked(j)'
    <3>1. Len(chain) + 1 \in 1 .. Len(chain')
      BY <1>0, <2>2
    <3>2. chain'[Len(chain) + 1] = [type |-> "CONFIRM", hash |-> job'[j].hash,
                                    names |-> job'[j].settlement_id]
      BY <2>2, <2>4
    <3>3. job'[j].hash \in DOMAIN ledger'
      BY <1>0, <1>1, <2>4 DEF Settled
    <3>. QED BY <2>4, <3>1, <3>2, <3>3 DEF JobBacked, SuccessBacked, Settled
  <2>6. JobsBacked' /\ SuccessIsConfirmed'
    BY <1>1, <2>1, <2>4, <2>5, OthersStand
  <2>7. RowNamesItsSettlement' /\ ConfirmedIsSettled'
    BY <1>0, <1>1, <2>1, AppendKeepsRecords
  <2>. QED BY <2>3, <2>6, <2>7 DEF IInv
<1>2. CASE Goto(j, "failed") /\ UNCHANGED <<chain, ledger, calls, errors>>
  BY <1>2, StopPreserves
<1>. QED BY <1>1, <1>2 DEF EmitConfirmation

\* An error event disturbs nobody.
LEMMA SettlementErrorPreserves ==
  ASSUME IInv, NEW j \in Jobs, SettlementError(j)
  PROVE  IInv'
<1>. DEFINE e == [type |-> "ERROR", hash |-> job[j].hash, names |-> 0]
<1>1. /\ chain' = Append(chain, e) /\ UNCHANGED <<ledger, job, calls>>
      /\ job[j].at = "failed" /\ errors' \in 0 .. MaxErrors
  BY AdapterAssumption DEF SettlementError, IInv, TypeOK
<1>2. e \in Event
  BY DEF IInv, TypeOK, Job, Event
<1>3. TypeOK'
  BY <1>1, <1>2, ChainGrows DEF IInv, TypeOK
<1>4. JobsBacked' /\ SuccessIsConfirmed'
  BY <1>1, <1>2, OthersStand DEF JobBacked, SuccessBacked
<1>5. RowNamesItsSettlement' /\ ConfirmedIsSettled'
  BY <1>1, <1>2, AppendKeepsRecords
<1>. QED BY <1>3, <1>4, <1>5 DEF IInv

\* Every step of every job preserves the invariant.
LEMMA NextIInv == IInv /\ [Next]_vars => IInv'
<1>. SUFFICES ASSUME IInv, [Next]_vars PROVE IInv'
  OBVIOUS
<1>1. ASSUME NEW j \in Jobs, NEW h \in Hashes, Settle(j, h) PROVE IInv'
  BY <1>1, SettlePreserves
<1>2. ASSUME NEW j \in Jobs, AppendToSebChain(j) PROVE IInv'
  BY <1>2, AppendToSebChainPreserves
<1>3. ASSUME NEW j \in Jobs, InsertIntoLedger(j) PROVE IInv'
  BY <1>3, InsertPreserves
<1>4. ASSUME NEW j \in Jobs, EmitConfirmation(j) PROVE IInv'
  BY <1>4, EmitConfirmationPreserves
<1>5. ASSUME NEW j \in Jobs, Kill(j) PROVE IInv'
  BY <1>5, StopPreserves DEF Kill
<1>6. ASSUME NEW j \in Jobs, SettlementError(j) PROVE IInv'
  BY <1>6, SettlementErrorPreserves
<1>7. CASE UNCHANGED vars
  BY <1>7
  DEF vars, IInv, TypeOK, JobsBacked, JobBacked, RowNamesItsSettlement,
      ConfirmedIsSettled, SuccessIsConfirmed, IsSettlement, Settled
<1>. QED BY <1>1, <1>2, <1>3, <1>4, <1>5, <1>6, <1>7 DEF Next

-----------------------------------------------------------------------------
(* The theorems *)

\* The inductive invariant holds in every reachable state.
THEOREM AdapterInvariance == Spec => []IInv
<1>. QED BY InitIInv, NextIInv, PTL DEF Spec

\* Chain, ledger, jobs and counters keep their types.
THEOREM AdapterTypeCorrect == Spec => []TypeOK
<1>1. IInv => TypeOK
  BY DEF IInv
<1>. QED BY <1>1, AdapterInvariance, PTL

\* Whatever races, failures, kills and retries there were: a row that
\* insert_into_ledger made names a settlement event of its hash.
THEOREM RecordsCorrect == Spec => []RowNamesItsSettlement
<1>1. IInv => RowNamesItsSettlement
  BY DEF IInv
<1>. QED BY <1>1, AdapterInvariance, PTL

\* emit_confirmation_event confirms only what chain and ledger hold.
THEOREM ConfirmationsCorrect == Spec => []ConfirmedIsSettled
<1>1. IInv => ConfirmedIsSettled
  BY DEF IInv
<1>. QED BY <1>1, AdapterInvariance, PTL

\* A job answers SUCCESS only for a hash in the ledger whose confirmation, with
\* the settlement id returned, is in the chain.
THEOREM SuccessCorrect == Spec => []SuccessIsConfirmed
<1>1. IInv => SuccessIsConfirmed
  BY DEF IInv
<1>. QED BY <1>1, AdapterInvariance, PTL
=============================================================================
