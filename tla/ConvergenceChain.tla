-------------------------- MODULE ConvergenceChain --------------------------
(***************************************************************************)
(* The convergence chain, seb_convergence.mjs: a script that is run again  *)
(* and again, reads the entries of the convergence log (written by others) *)
(* and seals those it does not find in the chain file, one line each.      *)
(*                                                                         *)
(* A run keeps in memory the tip it found when it started and the keys it  *)
(* found when it read the chain.  Runs may overlap, may be killed anywhere,*)
(* and a line may be cut short.  The file is the sequence of its lines and *)
(* whether the last one has its newline.                                   *)
(***************************************************************************)
EXTENDS LatticeCircuit, Sequences, SequencesExt

CONSTANTS Procs, Problems, Times, Deltas,
          Encode,                  \* buildPayload's layout, as a function
          MaxEntries, MaxRecords   \* bounds of the model

\* The stamp of an entry without one, and the one its record gets: the time of
\* the run, which no entry has.
Undefined == "undefined"
Now == "now"

Stamped(stamps) == [problemId : Problems, timestamp : stamps, delta : Deltas]
Entries == Stamped(Times \cup {Undefined})

ASSUME ChainAssumption ==
  /\ {Undefined, Now} \cap Times = {}
  /\ Deltas \subseteq Int
  /\ Encode \in [Stamped(Times \cup {Now}) -> Words64]
  /\ MaxEntries \in Nat /\ MaxRecords \in Nat

VARIABLES
  convLog,      \* the convergence log, empty when there is no file
  chain,        \* the lines of the chain file
  newline,      \* the chain file is empty or ends with a newline
  pc, tip, sealed, entries, at, n,   \* each run: where it is and its variables
  code,         \* the exit code of its last run; entries stay with it
  overlapped,   \* history: a run was started while another was going on
  cut           \* history: a line was cut short

vars == <<convLog, chain, newline, pc, tip, sealed, entries, at, n, code,
          overlapped, cut>>
files == <<convLog, chain, newline>>
history == <<overlapped, cut>>

Record == [n : Nat, entry : Stamped(Times \cup {Now}), commitment : Poly,
           prev_tip : Poly]
Torn == [torn |-> TRUE]      \* a line that JSON.parse throws at

Init ==
  /\ convLog = <<>>
  /\ chain = <<>>
  /\ newline = TRUE
  /\ pc = [p \in Procs |-> "ended"]
  /\ tip = [p \in Procs |-> Zero]
  /\ sealed = [p \in Procs |-> {}]
  /\ entries = [p \in Procs |-> <<>>]
  /\ at = [p \in Procs |-> 0]
  /\ n = [p \in Procs |-> 0]
  /\ code = [p \in Procs |-> "none"]
  /\ overlapped = FALSE
  /\ cut = FALSE

-----------------------------------------------------------------------------
(* A run *)

\* Mutant: a run takes up the position of the one before.
EndKeepsPlace(p, c) ==
  /\ pc' = [pc EXCEPT ![p] = "ended"]
  /\ code' = [code EXCEPT ![p] = c]
  /\ tip' = [tip EXCEPT ![p] = Zero]
  /\ sealed' = [sealed EXCEPT ![p] = {}]
  /\ UNCHANGED <<at, n>>

\* The run is over; what it had in memory is gone.
End(p, c) ==
  /\ pc' = [pc EXCEPT ![p] = "ended"]
  /\ code' = [code EXCEPT ![p] = c]
  /\ tip' = [tip EXCEPT ![p] = Zero]
  /\ sealed' = [sealed EXCEPT ![p] = {}]
  /\ at' = [at EXCEPT ![p] = 0]
  /\ n' = [n EXCEPT ![p] = 0]

\* The tip of the last line is loaded; a torn line is an exception.
Start(p) ==
  /\ pc[p] = "ended"
  /\ entries' = [entries EXCEPT ![p] = <<>>]
  /\ overlapped' = (overlapped \/ \E q \in Procs : pc[q] # "ended")
  /\ IF chain # <<>> /\ Last(chain) = Torn
     THEN End(p, "threw")
     ELSE /\ pc' = [pc EXCEPT ![p] = "started"]
          /\ tip' = [tip EXCEPT ![p] = IF chain = <<>> THEN Zero
                                       ELSE Last(chain).commitment]
          /\ code' = [code EXCEPT ![p] = "none"]
          /\ UNCHANGED <<sealed, at, n>>
  /\ UNCHANGED <<files, cut>>

Key(e) == <<e.problemId, e.timestamp>>

\* Mutant: only the last record is taken to be sealed.
KeysLast(lines) == {Key(lines[i].entry) : i \in {Len(lines)} \ {0}}
Keys(lines) == {Key(lines[i].entry) : i \in 1 .. Len(lines)}

\* run(): without a log nothing is done, and the sealed keys are collected.
ReadSealed(p) ==
  /\ pc[p] = "started"
  /\ IF convLog = <<>> THEN End(p, "0")
     ELSE IF \E i \in 1 .. Len(chain) : chain[i] = Torn THEN End(p, "threw")
     ELSE /\ pc' = [pc EXCEPT ![p] = "read"]
          /\ sealed' = [sealed EXCEPT ![p] = Keys(chain)]
          /\ UNCHANGED <<tip, at, n, code>>
  /\ UNCHANGED <<files, entries, history>>

ReadEntries(p) ==
  /\ pc[p] = "read"
  /\ pc' = [pc EXCEPT ![p] = "sealing"]
  /\ entries' = [entries EXCEPT ![p] = convLog]
  /\ UNCHANGED <<files, tip, sealed, at, n, code, history>>

\* The positions after the last one dealt with that are still to be sealed.
\* Mutant: the loop ends at the first entry that is sealed.
UnsealedUpTo(p) ==
  {i \in at[p] + 1 .. Len(entries[p]) :
     \A j \in at[p] + 1 .. i : Key(entries[p][j]) \notin sealed[p]}
Unsealed(p) ==
  {i \in at[p] + 1 .. Len(entries[p]) : Key(entries[p][i]) \notin sealed[p]}

\* appendToChain counts the lines for the record's number ...
CountRecords(p) ==
  /\ pc[p] = "sealing"
  /\ Unsealed(p) # {}
  /\ pc' = [pc EXCEPT ![p] = "counted"]
  /\ at' = [at EXCEPT ![p] = Min(Unsealed(p))]
  /\ n' = [n EXCEPT ![p] = Len(chain)]
  /\ UNCHANGED <<files, tip, sealed, entries, code, history>>

\* ... and links the entry to the tip in memory.
Dated(e) == [e EXCEPT !.timestamp = IF @ = Undefined THEN Now ELSE @]
Sealing(p) ==
  LET e == Dated(entries[p][at[p]])
  IN  [n |-> n[p], entry |-> e, commitment |-> Commit(tip[p], Encode[e]),
       prev_tip |-> tip[p]]

\* The file with a line written at its end, which completes a line that has no
\* newline to one that cannot be parsed.
Written(line) ==
  IF newline THEN Append(chain, line)
  ELSE [chain EXCEPT ![Len(chain)] = Torn]

\* Mutant: the tip in memory stays what it was.
AppendRecordOnly(p) ==
  /\ pc[p] = "counted"
  /\ Len(chain) < MaxRecords
  /\ chain' = Written(Sealing(p))
  /\ newline' = TRUE
  /\ pc' = [pc EXCEPT ![p] = "sealing"]
  /\ UNCHANGED <<convLog, tip, sealed, entries, at, n, code, history>>
AppendRecord(p) ==
  /\ pc[p] = "counted"
  /\ Len(chain) < MaxRecords
  /\ chain' = Written(Sealing(p))
  /\ newline' = TRUE
  /\ tip' = [tip EXCEPT ![p] = Sealing(p).commitment]
  /\ pc' = [pc EXCEPT ![p] = "sealing"]
  /\ UNCHANGED <<convLog, sealed, entries, at, n, code, history>>

\* A write cut short, in the record or before its newline, is an exception.
AppendCut(p) ==
  /\ pc[p] = "counted"
  /\ Len(chain) < MaxRecords
  /\ \E line \in {Torn, Sealing(p)} : chain' = Written(line)
  /\ newline' = FALSE
  /\ cut' = TRUE
  /\ End(p, "threw")
  /\ UNCHANGED <<convLog, entries, overlapped>>

-----------------------------------------------------------------------------
(* verifyChain, and the end of a run *)

\* expected[i]: the commitments as recomputed from genesis.
Expected(lines) ==
  LET expected[i \in 0 .. Len(lines)] ==
        IF i = 0 THEN Zero ELSE Commit(expected[i - 1], Encode[lines[i].entry])
  IN  expected

\* The lines before the first that cannot be parsed.
Parsed(lines) == SelectInSeq(lines \o <<Torn>>, LAMBDA line : line = Torn) - 1

\* The first line that fails decides.
VerifyChain ==
  LET read == SubSeq(chain, 1, Parsed(chain))
  IN  IF \E i \in DOMAIN read : read[i].commitment # Expected(read)[i] THEN "broken"
      ELSE IF Len(read) < Len(chain) THEN "threw" ELSE "ok"

UniverseSum(log) == FoldLeft(LAMBDA sum, e : sum + e.delta, 0, log)

\* Attacks are those this run sealed.
Attacks(p) == \E i \in DOMAIN entries[p] :
                entries[p][i].delta < 0 /\ Key(entries[p][i]) \notin sealed[p]

Finish(p) ==
  /\ pc[p] = "sealing"
  /\ Unsealed(p) = {}
  /\ End(p, CASE VerifyChain = "threw" -> "threw"
              [] VerifyChain = "broken" -> "1"
              [] OTHER -> IF Attacks(p) /\ UniverseSum(entries[p]) < 0
                          THEN "2" ELSE "0")
  /\ UNCHANGED <<files, entries, history>>

Kill(p) ==
  /\ pc[p] # "ended"
  /\ End(p, "killed")
  /\ UNCHANGED <<files, entries, history>>

\* Power is lost: nothing is flushed by the script, so a suffix of the chain
\* file may be lost, the line after what is kept in part.
Crash ==
  /\ \E k \in 0 .. Len(chain) :
       \/ chain' = SubSeq(chain, 1, k) /\ newline' = (newline \/ k < Len(chain))
          /\ UNCHANGED cut
       \/ /\ k < Len(chain)
          /\ \E line \in {Torn, chain[k + 1]} :
               chain' = Append(SubSeq(chain, 1, k), line)
          /\ newline' = FALSE
          /\ cut' = TRUE
  /\ pc' = [p \in Procs |-> "ended"]
  /\ code' = [p \in Procs |-> "killed"]
  /\ tip' = [p \in Procs |-> Zero]
  /\ sealed' = [p \in Procs |-> {}]
  /\ entries' = [p \in Procs |-> <<>>]
  /\ at' = [p \in Procs |-> 0]
  /\ n' = [p \in Procs |-> 0]
  /\ UNCHANGED <<convLog, overlapped>>

\* Others write their entries to the convergence log.
LogEntry ==
  /\ Len(convLog) < MaxEntries
  /\ \E e \in Entries : convLog' = Append(convLog, e)
  /\ UNCHANGED <<chain, newline, pc, tip, sealed, entries, at, n, code, history>>

Next ==
  \/ \E p \in Procs :
       \/ Start(p) \/ ReadSealed(p) \/ ReadEntries(p) \/ CountRecords(p)
       \/ AppendRecord(p) \/ AppendCut(p) \/ Finish(p) \/ Kill(p)
  \/ Crash
  \/ LogEntry

Spec == Init /\ [][Next]_vars

-----------------------------------------------------------------------------
(* Properties *)

\* Each variable has its type.
TypeOK ==
  /\ convLog \in Seq(Entries)
  /\ chain \in Seq(Record \cup {Torn})
  /\ newline \in BOOLEAN
  /\ pc \in [Procs -> {"ended", "started", "read", "sealing", "counted"}]
  /\ tip \in [Procs -> Poly]
  /\ sealed \in [Procs -> SUBSET (Problems \X (Times \cup {Now}))]
  /\ entries \in [Procs -> Seq(Entries)]
  /\ at \in [Procs -> Nat] /\ \A p \in Procs : at[p] <= Len(entries[p])
  /\ n \in [Procs -> Nat]
  /\ code \in [Procs -> {"none", "0", "1", "2", "threw", "killed"}]
  /\ overlapped \in BOOLEAN /\ cut \in BOOLEAN

\* As long as runs never overlap and no line was cut short, the chain verifies
\* and its records bear their line numbers, in the middle of a run too, and
\* after runs that were killed and lines that were lost (appendToChain,
\* verifyChain).
SerialRunsVerify ==
  ~overlapped /\ ~cut =>
    /\ VerifyChain = "ok"
    /\ \A i \in DOMAIN chain : chain[i].n = i - 1

\* No entry is sealed twice, however often runs are killed and started again:
\* as long as they never overlap, the chain has no more records of a dated
\* entry than the log has entries with its key (run).
SealedAs(k) == {i \in DOMAIN chain : chain[i] # Torn /\ Key(chain[i].entry) = k}
LoggedAs(k) == {i \in DOMAIN convLog : Key(convLog[i]) = k}
SealedOnce ==
  ~overlapped => \A k \in Problems \X Times :
                   Cardinality(SealedAs(k)) <= Cardinality(LoggedAs(k))

\* When a run says that the chain is up to date, every entry it read has a
\* record in the chain with its key, whoever sealed it, overlapping runs
\* included (run).
EndedMeansSealed ==
  ~cut =>
    \A p \in Procs : pc[p] = "ended" /\ code[p] \in {"0", "2"} =>
      \A i \in DOMAIN entries[p] : Key(Dated(entries[p][i])) \in Keys(chain)
=============================================================================
