--------------------------- MODULE FiscalAdapter ----------------------------
(***************************************************************************)
(* The fiscal settlement adapter (seb/adapters/SEB_FISCAL_ADAPTER.rpgle):  *)
(* jobs that run SEB_Fiscal_Settlement in parallel, each step of it a call *)
(* to the SEB chain or a statement on SOVEREIGN_LEDGER that may fail, and  *)
(* jobs that are ended in the middle (TIMELIMIT, ENDJOB *IMMED).  The hub  *)
(* calls again whenever it likes.                                          *)
(*                                                                         *)
(* Calls refused for their amount or a blank hash change nothing and are   *)
(* left out.  SEB_APPEND is not in the repository; its copybook            *)
(* (SEBEVENT.cpy) says that it returns the existing offset for a hash that *)
(* the ledger holds; Dedups says whether it does (TRUE), does not (FALSE), *)
(* or may do either.                                                       *)
(***************************************************************************)
EXTENDS Naturals, Sequences

CONSTANTS
  Jobs,
  Hashes,          \* Bifrost hashes
  Dedups,
  MaxCalls,        \* bound of the model: calls of the adapter
  MaxErrors        \* bound of the model: ERROR events

ASSUME AdapterAssumption ==
  /\ Dedups \subseteq BOOLEAN /\ Dedups # {}
  /\ MaxCalls \in Nat /\ MaxErrors \in Nat

VARIABLES
  chain,    \* the SEB chain: offsets are positions in it
  ledger,   \* SOVEREIGN_LEDGER: BIFROST_HASH -> SEB_OFFSET
  job,      \* where each job is, and its output parameters
  calls, errors

vars == <<chain, ledger, job, calls, errors>>

Event == [type : {"SETTLEMENT", "CONFIRM", "ERROR"}, hash : Hashes, names : Nat]

\* l_seb_offset is set once the settlement event is appended;
\* po_settlement_id (0: not assigned) only at the end.
Job == [at : {"idle", "append", "insert", "confirm", "SUCCESS", "duplicate", "failed"},
        hash : Hashes, seb_offset : Nat, settlement_id : Nat]

Init ==
  /\ chain = <<>>
  /\ ledger = <<>>
  /\ job \in [Jobs -> {[at |-> "idle", hash |-> h, seb_offset |-> 0,
                        settlement_id |-> 0] : h \in Hashes}]
  /\ calls = 0 /\ errors = 0

Running(j) == job[j].at \in {"append", "insert", "confirm"}
Settled(h) == h \in DOMAIN ledger

Goto(j, at) == job' = [job EXCEPT ![j].at = at]

-----------------------------------------------------------------------------
(* SEB_Fiscal_Settlement *)

\* check_duplicate_settlement: any SQLCODE but 0 counts as "no duplicate".
Settle(j, h) ==
  /\ ~Running(j)
  /\ calls < MaxCalls
  /\ calls' = calls + 1
  /\ \E selected \in BOOLEAN :
       job' = [job EXCEPT ![j] =
                 [at |-> IF selected /\ Settled(h) THEN "duplicate" ELSE "append",
                  hash |-> h, seb_offset |-> 0, settlement_id |-> 0]]
  /\ UNCHANGED <<chain, ledger, errors>>

\* Mutant: the offset of the tip before the event.
TipOffset == Len(chain)

AppendedOffset == Len(chain) + 1

\* append_to_seb_chain.
AppendToSebChain(j) ==
  LET h == job[j].hash
  IN  /\ job[j].at = "append"
      /\ \/ /\ FALSE \in Dedups \/ ~Settled(h)
            /\ chain' = Append(chain, [type |-> "SETTLEMENT", hash |-> h, names |-> 0])
            /\ job' = [job EXCEPT ![j].at = "insert", ![j].seb_offset = AppendedOffset]
         \/ /\ TRUE \in Dedups /\ Settled(h)
            /\ job' = [job EXCEPT ![j].at = "insert", ![j].seb_offset = ledger[h]]
            /\ UNCHANGED chain
         \/ Goto(j, "failed") /\ UNCHANGED chain
      /\ UNCHANGED <<ledger, calls, errors>>

\* Mutants: the columns swapped; an SQL error not looked at.
InsertSwapped(j) ==
  /\ job[j].at = "insert"
  /\ ledger' = [o \in DOMAIN ledger \cup {job[j].seb_offset} |-> job[j].hash]
  /\ Goto(j, "confirm")
  /\ UNCHANGED <<chain, calls, errors>>
InsertUnchecked(j) ==
  /\ job[j].at = "insert"
  /\ \/ ledger' = [h \in DOMAIN ledger \cup {job[j].hash} |->
                     IF Settled(h) THEN ledger[h] ELSE job[j].seb_offset]
     \/ UNCHANGED ledger
  /\ Goto(j, "confirm")
  /\ UNCHANGED <<chain, calls, errors>>

\* insert_into_ledger: ON CONFLICT (BIFROST_HASH) DO NOTHING.
InsertIntoLedger(j) ==
  /\ job[j].at = "insert"
  /\ \/ /\ ledger' = [h \in DOMAIN ledger \cup {job[j].hash} |->
                        IF Settled(h) THEN ledger[h] ELSE job[j].seb_offset]
        /\ Goto(j, "confirm")
     \/ Goto(j, "failed") /\ UNCHANGED ledger
  /\ UNCHANGED <<chain, calls, errors>>

\* Mutant: the error code of the append not looked at.
EmitConfirmationUnchecked(j) ==
  /\ job[j].at = "confirm"
  /\ \/ UNCHANGED chain
     \/ chain' = Append(chain, [type |-> "CONFIRM", hash |-> job[j].hash,
                                names |-> job[j].seb_offset])
  /\ job' = [job EXCEPT ![j].at = "SUCCESS", ![j].settlement_id = job[j].seb_offset]
  /\ UNCHANGED <<ledger, calls, errors>>

\* emit_confirmation_event, and the settlement id is returned.
EmitConfirmation(j) ==
  /\ job[j].at = "confirm"
  /\ \/ /\ chain' = Append(chain, [type |-> "CONFIRM", hash |-> job[j].hash,
                                   names |-> job[j].seb_offset])
        /\ job' = [job EXCEPT ![j].at = "SUCCESS",
                              ![j].settlement_id = job[j].seb_offset]
     \/ Goto(j, "failed") /\ UNCHANGED chain
  /\ UNCHANGED <<ledger, calls, errors>>

\* The job is ended; the chain and the ledger keep what they have.
Kill(j) ==
  /\ Running(j)
  /\ Goto(j, "idle")
  /\ UNCHANGED <<chain, ledger, calls, errors>>

\* SEB_Settlement_Error, which the hub may call after a failure.
SettlementError(j) ==
  /\ job[j].at = "failed"
  /\ errors < MaxErrors
  /\ errors' = errors + 1
  /\ chain' = Append(chain, [type |-> "ERROR", hash |-> job[j].hash, names |-> 0])
  /\ UNCHANGED <<ledger, job, calls>>

Next ==
  \E j \in Jobs :
    \/ \E h \in Hashes : Settle(j, h)
    \/ AppendToSebChain(j) \/ InsertIntoLedger(j) \/ EmitConfirmation(j)
    \/ Kill(j) \/ SettlementError(j)

Spec == Init /\ [][Next]_vars

-----------------------------------------------------------------------------
(* Properties *)

\* Type invariant.
TypeOK ==
  /\ chain \in Seq(Event)
  /\ DOMAIN ledger \subseteq Hashes
  /\ ledger \in [DOMAIN ledger -> Nat]
  /\ job \in [Jobs -> Job]
  /\ calls \in 0 .. MaxCalls /\ errors \in 0 .. MaxErrors

IsSettlement(offset, h) ==
  /\ offset \in 1 .. Len(chain)
  /\ chain[offset].type = "SETTLEMENT"
  /\ chain[offset].hash = h

\* A ledger row points at a settlement event of its own hash, whichever of
\* several racing or repeated calls made it.
RowNamesItsSettlement == \A h \in DOMAIN ledger : IsSettlement(ledger[h], h)

\* No confirmation without a row in the ledger and a settlement event before
\* it, of the same hash, although any step before it may fail or be cut off.
ConfirmedIsSettled ==
  \A i \in 1 .. Len(chain) :
    chain[i].type = "CONFIRM" =>
      /\ Settled(chain[i].hash)
      /\ chain[i].names < i
      /\ IsSettlement(chain[i].names, chain[i].hash)

\* A call answered SUCCESS is in the ledger, and the chain holds a confirmation
\* that names the settlement id returned.
SuccessIsConfirmed ==
  \A j \in Jobs :
    job[j].at = "SUCCESS" =>
      /\ Settled(job[j].hash)
      /\ \E i \in 1 .. Len(chain) :
           chain[i] = [type |-> "CONFIRM", hash |-> job[j].hash,
                       names |-> job[j].settlement_id]

-----------------------------------------------------------------------------
(* A statement of the documentation that the code does not keep *)

\* "No duplicate settlements are possible" (SEBEVENT.cpy).
NoDuplicateSettlements ==
  \A i, k \in 1 .. Len(chain) :
    /\ chain[i].type = "SETTLEMENT" /\ chain[k].type = "SETTLEMENT"
    /\ chain[i].hash = chain[k].hash
    => i = k
=============================================================================
