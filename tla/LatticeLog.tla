----------------------------- MODULE LatticeLog -----------------------------
(***************************************************************************)
(* The lattice log file of seb_lattice.c: 96-byte records of payload and   *)
(* commitment, appended by threads that share the file under a mutex of    *)
(* theirs (the usage RELEASE_v1.0.0.md names), through an operating system *)
(* that may write short, fail to flush, and crash.                         *)
(*                                                                         *)
(* The file is a sequence of 32-byte words, three to a record: two halves  *)
(* of the payload, then the commitment.  A write that is cut short, by the *)
(* disk or by a crash, is cut between words.                               *)
(***************************************************************************)
EXTENDS LatticeCircuit, Sequences

CONSTANTS Threads, Payload, NoThread,
          MaxWords   \* bound of the model: length of the file

ASSUME LogAssumption ==
  /\ Payload \subseteq Words64
  /\ NoThread \notin Threads
  /\ MaxWords \in Nat

VARIABLES
  disk,      \* the file as its readers see it
  durable,   \* how many of its words a crash cannot take
  lock,      \* the callers' mutex
  pc,        \* where each thread is in seb_lattice_append
  local,     \* its payload, sz and tip
  acked,     \* history: the appends that returned 0, in order
  torn       \* history: a record was left incomplete

vars == <<disk, durable, lock, pc, local, acked, torn>>

\* The locals of a call; Fresh between two calls.
Local == [payload : Words64, sz : Nat, tip : Poly]
Fresh == [payload |-> <<Zero, Zero>>, sz |-> 0, tip |-> Zero]

Init ==
  /\ disk = <<>>
  /\ durable = 0
  /\ lock = NoThread
  /\ pc = [t \in Threads |-> "idle"]
  /\ local = [t \in Threads |-> Fresh]
  /\ acked = <<>>
  /\ torn = FALSE

-----------------------------------------------------------------------------
(* seb_lattice_append *)

\* The call is over, whatever it returns; the caller unlocks.
Return(t) ==
  /\ pc' = [pc EXCEPT ![t] = "idle"]
  /\ lock' = NoThread
  /\ local' = [local EXCEPT ![t] = Fresh]

\* Mutants: append without the callers' mutex; a file size short by a record.
FileSizeUnlocked(t) ==
  /\ pc[t] = "idle"
  /\ Len(disk) + 3 <= MaxWords
  /\ pc' = [pc EXCEPT ![t] = "sized"]
  /\ \E p \in Payload :
       local' = [local EXCEPT ![t] = [payload |-> p, sz |-> Len(disk), tip |-> Zero]]
  /\ UNCHANGED <<disk, durable, lock, acked, torn>>
FileSizeShort(t) ==
  /\ pc[t] = "idle"
  /\ lock = NoThread
  /\ lock' = t
  /\ pc' = [pc EXCEPT ![t] = "sized"]
  /\ \E p \in Payload :
       local' = [local EXCEPT ![t] = [payload |-> p, sz |-> Len(disk) - 3, tip |-> Zero]]
  /\ UNCHANGED <<disk, durable, acked, torn>>

\* lattice_filesize.
FileSize(t) ==
  /\ pc[t] = "idle"
  /\ lock = NoThread
  /\ Len(disk) + 3 <= MaxWords
  /\ lock' = t
  /\ pc' = [pc EXCEPT ![t] = "sized"]
  /\ \E p \in Payload :
       local' = [local EXCEPT ![t] = [payload |-> p, sz |-> Len(disk), tip |-> Zero]]
  /\ UNCHANGED <<disk, durable, acked, torn>>

\* Mutant: the 32 bytes before the tip.
TipBeforeLast(sz) == IF sz < 2 THEN Zero ELSE disk[sz - 1]

\* The last 32 bytes before sz, or zeros for an empty file.
TipBefore(sz) == IF sz = 0 THEN Zero ELSE disk[sz]

ReadTip(t) ==
  /\ pc[t] = "sized"
  /\ pc' = [pc EXCEPT ![t] = "linked"]
  /\ local' = [local EXCEPT ![t].tip = TipBefore(local[t].sz)]
  /\ UNCHANGED <<disk, durable, lock, acked, torn>>

Record(l) == <<l.payload[1], l.payload[2], Commit(l.tip, l.payload)>>

\* Mutant: the write goes over the last record.
PwriteOver(t, n) ==
  LET at == IF local[t].sz < 3 THEN 0 ELSE local[t].sz - 3
  IN  disk' = SubSeq(disk, 1, at) \o SubSeq(Record(local[t]), 1, n)

\* pwrite of n words of the record at sz.
Pwrite(t, n) ==
  disk' = [i \in 1 .. (IF local[t].sz + n > Len(disk) THEN local[t].sz + n ELSE Len(disk)) |->
             IF i \in local[t].sz + 1 .. local[t].sz + n
               THEN Record(local[t])[i - local[t].sz] ELSE disk[i]]

WriteRecord(t) ==
  /\ pc[t] = "linked"
  /\ Pwrite(t, 3)
  /\ pc' = [pc EXCEPT ![t] = "written"]
  /\ UNCHANGED <<durable, lock, local, acked, torn>>

\* A short write: append returns -1 and leaves the words behind.
WriteShort(t) ==
  /\ pc[t] = "linked"
  /\ \E n \in 0 .. 2 : Pwrite(t, n) /\ torn' = (torn \/ n > 0)
  /\ Return(t)
  /\ UNCHANGED <<durable, acked>>

\* Mutant: 0 is returned without fdatasync.
SyncSkipped(t) ==
  /\ pc[t] = "written"
  /\ acked' = Append(acked, local[t])
  /\ Return(t)
  /\ UNCHANGED <<disk, durable, torn>>

\* fdatasync succeeds: append returns 0.
Sync(t) ==
  /\ pc[t] = "written"
  /\ durable' = Len(disk)
  /\ acked' = Append(acked, local[t])
  /\ Return(t)
  /\ UNCHANGED <<disk, torn>>

\* A failed call (lseek, pread or fdatasync): append returns -1, and a record
\* already written stays in the file.
Fail(t) ==
  /\ pc[t] \in {"sized", "written"}
  /\ Return(t)
  /\ UNCHANGED <<disk, durable, acked, torn>>

\* Threads and lock are gone; of the words not flushed a prefix survives.
Crash ==
  /\ \E n \in durable .. Len(disk) :
       /\ disk' = SubSeq(disk, 1, n)
       /\ durable' = n
       /\ torn' = (torn \/ n % 3 # 0)
  /\ lock' = NoThread
  /\ pc' = [t \in Threads |-> "idle"]
  /\ local' = [t \in Threads |-> Fresh]
  /\ UNCHANGED acked

Next ==
  \/ \E t \in Threads : \/ FileSize(t) \/ ReadTip(t) \/ WriteRecord(t)
                        \/ WriteShort(t) \/ Sync(t) \/ Fail(t)
  \/ Crash

Spec == Init /\ [][Next]_vars

-----------------------------------------------------------------------------
(* seb_lattice_verify *)

\* The loop starts from an all-zero `expected', wherever it starts reading.
Verify(file, start, count) ==
  LET words == Len(file) - start
      whole == IF words \div 3 < count THEN words \div 3 ELSE count
      word(k, w) == file[start + 3 * (k - 1) + w]
      expected[k \in 0 .. whole] ==
        IF k = 0 THEN Zero
        ELSE Commit(expected[k - 1], <<word(k, 1), word(k, 2)>>)
  IN  IF \E k \in 1 .. whole : word(k, 3) # expected[k] THEN 0
      ELSE IF whole < count /\ words % 3 # 0 THEN -1 ELSE 1

AllRecords == Len(disk) + 1

-----------------------------------------------------------------------------
(* Properties *)

\* Type invariant.
TypeOK ==
  /\ disk \in Seq(Poly)
  /\ durable \in 0 .. Len(disk)
  /\ lock \in Threads \cup {NoThread}
  /\ pc \in [Threads -> {"idle", "sized", "linked", "written"}]
  /\ local \in [Threads -> Local]
  /\ acked \in Seq(Local)
  /\ torn \in BOOLEAN

\* A record whose append returned 0 is in the file, whole and durable, with the
\* commitment computed for it, after any later failures and crashes.
AckedIsDurable ==
  \A i \in 1 .. Len(acked) :
    /\ acked[i].sz + 3 <= durable
    /\ SubSeq(disk, acked[i].sz + 1, acked[i].sz + 3) = Record(acked[i])

\* The records of two successful appends never overlap, and lie in the order
\* in which the appends returned.
AckedInOrder ==
  \A i, j \in 1 .. Len(acked) : i < j => acked[i].sz + 3 <= acked[j].sz

\* Unless a write was left incomplete, the file is one chain from genesis that
\* verify accepts, in the middle of an append too, after crashes and after
\* flushes that failed; and verify refuses that file with any one of its words
\* altered, because the circuit is injective in each of its inputs.
IntactVerifies ==
  ~torn =>
    /\ Verify(disk, 0, AllRecords) = 1
    /\ \A i \in 1 .. Len(disk) : \A word \in Poly \ {disk[i]} :
         Verify([disk EXCEPT ![i] = word], 0, AllRecords) = 0

\* What is durable never changes and never gets less.
DurablePrefixKept ==
  [][/\ durable' >= durable
     /\ SubSeq(disk', 1, durable) = SubSeq(disk, 1, durable)]_vars
=============================================================================
