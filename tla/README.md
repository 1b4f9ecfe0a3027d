# The Sovereign Event Bus in TLA+

This directory holds TLA+ models of the parts of the repository whose behaviour
is hard to see from the code and hard to reach with a test: sealing of events
under concurrent callers, a log file under crashes, a review queue shared by
two tasks, a settlement job that can die between two external effects, a
script that extends a shared chain file each time it runs, an artifact registry
with indexes and a gate, and traces whose id is the hash of what they say. The
models are checked with TLC. Every safety property of theirs is also proved with
TLAPS, for every value of the constants.

Contents: [1 the system](#1-the-system), [2 plan](#2-plan),
[3 modules](#3-modules-and-the-code-they-stand-for), [4 runs](#4-runs),
[5 proofs](#5-proofs), [6 assumptions and bounds](#6-assumptions-bounds-fairness),
[7 disagreements with the documentation](#7-where-code-and-documentation-disagree),
[8 not modelled](#8-not-modelled).

To repeat: `tlc -config <run>.cfg <MC module>` and `tlapm <module>_proofs.tla`.
`PROJECT.json` names, for every definition, the source lines it stands for, and
for every property a mutant of a definition that breaks it.

## 1 The system

Source paths are relative to `src/`.

| Component | Source | State | Operations | Right when |
|---|---|---|---|---|
| WAL kernel NIF | `seb/runtime/c_src/seb_wal_nif.c`, served by `seb/runtime/src/seb_kernel_nif.erl` | one handle: segment id, sequence, tip hash, tip offset, two counters | `init_kernel`, `append_event`, `rotate_segment`, `get_tip_hash`, `get_state`, `verify_chain`, `worm_flush` | accepted events form one hash-linked chain in ascending position, whoever else appends or rotates between a caller's read and its append |
| Lattice circuit | `seb/runtime/c_src/seb_lattice.c` | none | `seb_lattice_commit` | a function of tip and payload, 32 bytes to 32 bytes, injective in each of its inputs |
| Lattice log file | the same | a file of 96-byte records | `seb_lattice_append`, `_tip`, `_verify` | what was acknowledged stays, in order; an intact file verifies, and one with a word altered does not |
| Human-touch gateway | `seb/human_touch/src` (`main.rs`, `review_queue.rs`, `audit_log.rs`, `commit_gateway.rs`) | channel, map of change records, audit file, git commits | submit, review, approve, reject, commit, mark committed | every change is accounted for, the log explains each status, the reviewer is answered |
| Fiscal settlement adapter | `seb/adapters/SEB_FISCAL_ADAPTER.rpgle`, `SEBEVENT.cpy` | SEB chain, `SOVEREIGN_LEDGER`, job variables | `SEB_Fiscal_Settlement`, `SEB_Settlement_Error` | one settlement per Bifrost hash, each row and confirmation backed by its event |
| P/NP and Shrew bridges | `seb/runtime/src/seb_pnp_bridge.erl`, `seb_shrew_bridge.erl` | handle, read position, running sum | poll and seal, governance events, halt | every log line is sealed once, in order; the sum is that of the sealed lines |
| Convergence chain | `seb/runtime/seb_convergence.mjs` | `seb_chain.jsonl`, tip cached at start, keys cached when the chain is read | seal what is not sealed, verify, alarm | runs that do not overlap keep one chain that verifies, whatever kills them; nothing is sealed twice; a run that ends well has sealed all it read |
| Agent FSM, supervisors | `seb/runtime/src/seb_agent_fsm.erl`, `seb_agent_sup.erl`, `seb_sup.erl`, `seb_app.erl` | queue, offsets, drain timer | queue, commit offset, drain, stop | (see section 8) |
| Datalog bridge, policy | `seb_datalog_bridge.erl`, `seb_policy.dl` | pending queries, port | query, assert, port messages | every query is answered or dropped, pending stays bounded |
| Partition manager | `seb_partition_mgr.erl` | assignments, loads | assign, release, rebalance | loads count assignments |
| Ada kernel and WAL | `seb/kernel/src/seb_kernel.adb`, `seb_wal.adb`, `seb_types.ads` | global kernel state and copies of it in handles; segment tip | the same operations as the NIF | it implements the same chain |
| First kernel NIF | `seb/runtime/c_src/seb_kernel_nif.c` | global tip and offset | append, verify | as above (superseded by `seb_wal_nif.c`) |
| Reasoning | `seb/reasoning/src/trace.rs`, `a2a_protocol.rs`, `streaming.rs`, `integration.rs` | traces with id and signature, a map of stored traces, an event log for each handler behind a mutex | add step, add parent, finalize, sign, store, get, `has_cycles`, the hooks, emit | a trace whose id is current is what its id says and has no circular ancestry; each task's events are logged once and in its order |
| Universe, CVM gate | `seb/universe/src` | artifacts, three indexes, a repository file | build, process, mark, promote, add, query, save, load | the indexes find what is stored; only marked artifacts are promoted, and what the gate saw of one is not undone |
| Shrewd unit | `seb/runtime/shrewd/shrewd_rtx.rs` | a window of ticks | feed, predict every 500 ms, publish a command | the command fits the last ticks; lasting noise is answered |
| C verifier | `src/verifier`, `src/typecheck`, `src/obligations`, `src/certificate` | operation budget, type stack, obligations, certificate | verify, infer, add obligation, seal | integer arithmetic never wraps unnoticed; inferred shapes are those of the program |
| Shift logic | `isomorphic-shift/logic/*.pl` | facts | release gates, authorisation | no release without its gates |
| Others | adapters in PL/I and Python, `seb_sandbox.wat`, ASP constraints, notebook engine, proof-assistant files, scripts | | | |

How they interact. The Erlang node is the hub: bridges and agents call
`seb_kernel_nif`, one gen_server that passes each request to the NIF, so NIF
calls do not overlap, but a caller's read of the tip and its append are two
calls. The bridges poll a JSON log another program writes. The lattice log is a
library for C callers that bring a mutex. The human-touch gateway is a process
of its own: agents send on a bounded tokio channel, a spawned task locks the
`ReviewQueue` and processes it, the interactive loop locks the same mutex for
each decision, and both write the audit file. The fiscal adapter runs as IBM i
jobs that call `SEB_APPEND` and SQL. The convergence script is run by hand or by a
scheduler; another program appends to the log it reads. Universe and reasoning
are libraries; the hooks of the kernel and policy layers build a trace and emit
an event about it, and tasks share a handler.

What is hard: between `get_tip_hash` and `append_event` others seal and rotate;
`seb_lattice_append` is four system calls, each of which may fail, be cut
short or be followed by a crash; the gateway's task holds a mutex across an
await, its map is overwritten by resubmissions while a decision waits, and a
status changes before the log append that may fail; a settlement has two
external effects and a retry looks only at the second; a run of the convergence script
works with a tip and with keys that another run may have outdated; an artifact
added again stays in the indexes it was in; a trace may be changed after its id
was computed.

## 2 Plan

| Step | Modules | Composition, abstract specification | Status |
|---|---|---|---|
| 1 | `LatticeCircuit`, `WormChain`, `SebWal`, `SebWal_proofs` | `SebWal` uses the circuit and refines `WormChain` | done, proved |
| 2 | `LatticeLog`, `LatticeLog_proofs` | uses the circuit | done, proved |
| 3 | `HumanTouch`, `HumanTouch_proofs` | queue, log, task, reviewer and committer in one module | done, proved |
| 4 | `FiscalAdapter`, `FiscalAdapter_proofs` | adapter with chain and ledger | done, proved |
| 5 | `ConvergenceChain`, `ConvergenceChain_proofs` | uses the circuit; several runs of the script over one file | done, proved |
| 6 | `Universe`, `Universe_proofs` | manifest, gate, indexes and file in one module | done, proved |
| 7 | `ReasoningTrace`, `ReasoningEvents`, `Reasoning_proofs` | the second extends the first by hooks and handlers | done, proved |
| 8 | `Shrewd`, `Shrewd_proofs` | one module | done, proved |
| 9 | `Bridges` | bridge and log writer composed with the kernel's answers: header of 64 bytes, sums that advance without a seal | later |
| 10 | `AdaWal`, `KernelNif` | two more candidates for `WormChain` (the Ada WAL accepts nothing after a rotation; its handles are copies) | later |
| 11 | `PartitionMgr`, `DatalogBridge` | small state machines, bound invariants | later |
| 12 | `TypeCheck`, `Budget`, `ShiftRelease` | pure algorithms against reference definitions, 32-bit wrap included | later |

Further theorems worth proving: that `verifyChain` of the convergence script, too,
refuses a chain with an altered record, and that each candidate of step 10 implements
`WormChain` or at which step it does not.

## 3 Modules and the code they stand for

**`LatticeCircuit`**: the circuit over GF(2^8)[x]/(x^32+1). All key coefficients
are 0 or 1, so GF(2^8) multiplication only ever copies or drops a byte and the
eight bit planes are independent; a `Poly` is one plane, the set of exponents
with coefficient 1. `CyclicConvolve`, `K0`..`K2` and `Commit` are
`cyclic_convolve`, the keys and `seb_lattice_commit`.

**`WormChain`**: the abstract promise. The chain grows at its end, one sealed
item at a time, each linked to the tip before it; nothing else happens.

**`SebWal`**: `handle` is `seb_wal_handle`; `call[c]` is a caller between its two
NIF calls, with the footer it has built. `GetTipHash` reads the tip and builds a
footer: with the tip read or with a foreign `prev_hash`, with the commitment
computed or left zero as the bridges do. `AppendEvent` is the whole NIF: size
check, hash chain (skipped for the first event), commitment over tip and
header, offset, segment size in 32-bit arithmetic, then the update. `Answer`
keeps the order of the checks. `RotateSegment` keeps tip and count and zeroes
`tip_offset`. `log` is history: the kernel stores no events. The checks of
argument types, and of payload and footer sizes, are answered like
`invalid_header` and change nothing; one of them (the header's) stands for all.

**`LatticeLog`**: the file as 32-byte words, three to a record. A call is
`FileSize`, `ReadTip`, `WriteRecord` or `WriteShort`, `Sync` or `Fail`, under the
mutex that callers are told to hold. `Crash` takes any unflushed words off the
end and frees the mutex. `Verify` is `seb_lattice_verify` with its three results.

**`HumanTouch`**: `Send` is a send on the bounded channel; `HandleIncomingChange`
is one round of `process_queue` (recv, capacity check, insert, audit append,
display, or a refusal and its audit append); its error ends the task.
`TypeCommand`, `Decide` and `NotFound` are the interactive loop: a command is
typed, waits for the mutex, changes the status, appends to the log. `Commit` and
`MarkCommitted` are the gateway and `mark_committed`. `AppendEntry` models
`append_entry` by what the file holds afterwards: nothing, part of a line, a line
not flushed, or a line. A line after a fragment continues it and
`read_entries` skips both. An entry is an event and an id, as in the file, and a
refusal for want of room writes the same CHANGE_REJECTED as a reviewer's. What the
file does not say is kept beside it as history: `origin` (which submission each
entry was about, and whether its arrival caused it, which in the file only the reason's text
tells), `unlogged` and `behind` (submissions whose arrival, or whose latest
step, has no entry), and `shown` (what was last displayed). No action's guard reads
any of them. `Yield` belongs to a host of the library that
interrupts `process_queue`; `main.rs` does not (`HostYields = FALSE`). `status`,
`help` and the review timer only read and print and are left out.

**`FiscalAdapter`**: a job is at one of the external calls of
`SEB_Fiscal_Settlement`: duplicate check (`Settle`; any SQLCODE but 0 counts as
"none"), `AppendToSebChain`, `InsertIntoLedger` (ON CONFLICT DO NOTHING),
`EmitConfirmation`. Each may fail; `Kill` ends the job between any two.
`SettlementError` is the exported error procedure.

**`ConvergenceChain`**: the chain file is the sequence of its lines, some of them
torn, and whether the last one has its newline. A run of the script is `Start`
(the tip of the last line is loaded), `ReadSealed` (the keys), `ReadEntries`,
then for each entry not sealed `CountRecords` and `AppendRecord`, and `Finish`, which
verifies and sets the exit code. `AppendCut` is a write that stops in the line or
before its newline; the next line then completes it to one that cannot be
parsed. `Kill` ends a run anywhere; `Crash` ends all of them and takes lines off
the end, for the script flushes nothing. Two processes may overlap. `LogEntry` is
the program that writes the convergence log. `VerifyChain` recomputes the
commitments from genesis.

**`Universe`**: `hand` is the manifest the client has, `steps` the results of the
gate's last run on it. `Build` is one builder call (`AddInvariant`, `AddProof`,
`WithSourcePath`, `WithDocUrl`: those the gate looks at). `Process` is the gate:
the five checks, up to the first that fails. `MarkCvmPassed` is `mark_cvm_passed`, or
an assignment to the public field: unconditional, as in the code; `process` does not
set the flag. `gated` is history: the manifest was marked when the gate's last
result on it was a success. `Promote` takes a manifest in
hand or a stored one. `AddArtifact` pushes the id onto an entry of each index and
removes it from none. `SaveToFile`, `SaveFails` and `LoadFromFile`
are the repository file; the indexes are not in it and are rebuilt. `Restart` is the
environment's: the process ends and a new one starts with what the file holds.

**`Shrewd`**: `Feed` extends the window, `Tick` is a round of the inference loop:
the last `WindowSize` ticks, zeros in front of a short window, the most frequent
verdict (the last of equal ones) and its command.

**`ReasoningTrace`**: `hand[a]` is the trace an agent works on. `AddStep` and
`AddParent` change its content, `Finalize` and `Sign` set its id to the hash of its
content (without the signature), `StoreTrace` inserts it under the id it has,
`GetTrace` takes up a stored one. `HasCycles` is the walk of
`_has_cycles_internal`, one `Visit` for each call.

**`ReasoningEvents`**: `CallHook` makes a trace, finalizes it and builds the event;
`EmitOther` builds one about a trace of known id; `Push` locks the handler's log.
Between the two, other tasks push theirs.

## 4 Runs

Runs expected to pass:

| Run | Instance | What it shows |
|---|---|---|
| `sebwal` | 2 callers, 3 headers and one of a wrong size, 3 events, 2 segments, degree 3 | `TipIsLastEvent`, `ChainLinked`, `PositionsAscend`: one chain in ascending position. `RefusedOnlyWhenStale`: an honest footer is refused on its hashes only when the chain grew meanwhile. `AcknowledgedIsSealed`, `AnswersPredecessor`: what an answer means. `RotationKeepsChain`. `ImplementsWormChain`: refinement |
| `lattice` | 2 threads, 2 payloads, 10 words | `AckedIsDurable`, `AckedInOrder`, `DurablePrefixKept` through short writes, failed flushes and crashes; `IntactVerifies`: an untorn file verifies at any moment, and does not with any one of its words altered |
| `human_touch` | 2 ids, 3 changes, capacity 2, 2 decisions, 1 restart, interruptions | `AuditExplainsStatus`: the last entry with a change's id gives its status, except for entries of refused resubmissions after it, and while the latest append about it failed; `ArrivalsAccounted`: no change is lost or handled twice unnoticed; `ArrivalsInOrder`; `DecidedNotOlder`: a waiting decision never finds an older submission than the reviewer saw (a newer one it may) |
| `human_touch_main` | as `main.rs`, 2 changes, 2 decisions, fair | `ArrivalsHandled`: each change is taken unless the task ended on an audit failure |
| `fiscal` | 2 jobs, 2 hashes, 5 calls, 1 error event | `RowNamesItsSettlement`, `ConfirmedIsSettled`, `SuccessIsConfirmed`, with kills, failures and retries, whether or not `SEB_APPEND` recognises a settled hash |
| `convergence` | 2 processes, 2 log entries (of two times or undated, solving or attacking), 3 records | `SerialRunsVerify`: while runs do not overlap and no line is torn, the chain verifies at every moment, kills and lost lines included; `SealedOnce`: such runs seal nothing twice, torn lines included; `EndedMeansSealed`: exit code 0 or 2 means that everything read has a record, overlapping runs included |
| `universe` | 1 id, 1 language, 1 invariant name, tiers 0 and 9, 5 manifests, builder calls, marks or restarts, 2 adds | `IndexFindsAll`: whatever is added again, saved, lost and loaded, the indexes find every stored artifact; `AddedOnceIsExact`: what was added once is listed exactly; `GatedMeansProven`: nothing leaves T2 unmarked, and a manifest marked after the gate's success keeps the Lean proof, documentation and proved invariant the gate saw, whatever is built, promoted, saved or loaded later |
| `shrewd` | window 5, minimum 2, feed of 7, fair | `CommandFitsWindow`: the command is the one the last ticks call for, padding and ties included; `NoiseAnswered`: a feed that stays mostly noise ends with zero trust raised for good |
| `reasoning` | 1 agent, 3 ids, 3 stored traces | `FreshAncestryAcyclic`: traces stored under their current id have no circular ancestry; `IdNamesContent`: among traces with current ids, signed or not, one id is one content; `HasCyclesMeansNoTree`: `has_cycles` is true exactly if the ancestry is not a tree |
| `reasoning_events` | 2 tasks, 2 layers, 3 events beside an agent that hashes | `EventsInOrder`: each task's events are in each handler's log once and in its order, whatever the others push in between |

Runs expected to find a violation are those of section 7.

Deadlock is checked in every run but those of the gateway and the adapter, which
really may stop: the reviewer leaves and the task has ended, or the hub calls no
more.

## 5 Proofs

`SebWal_proofs` proves, for any callers, headers, degree, sizes and bounds:
`TypeCorrect`, `TipCorrect`, `ChainCorrect`, `PositionsCorrect`, `AnswersCorrect`,
`RefusalsCorrect`, `CallersCorrect`, `RotationCorrect` and `Refinement`.

The checked invariants are not inductive by themselves. `PositionsAscend` needs
to know that every event of the current segment lies at or behind `tip_offset`,
and that no event is of a later segment (`BehindTip`): the code compares the new
offset with `tip_offset` only, and rotation resets it. `AnswersPredecessor` needs
that `tip_offset` is the last event's offset or 0 (`TipOffsetIsLast`), which holds
after a rotation because of `BehindTip`. `RefusedOnlyWhenStale` needs that a
caller whose chain length is still current holds the current tip
(`ReadIsCurrent`). `IInv` is their conjunction. One lemma for each action shows
that it is kept (`GetTipHashPreserves`, `RotatePreserves`, and for appends
`RefusalPreserves` and `AcceptPreserves` by the cases of `AppendCases`);
`Invariance` puts them together, and the theorems follow from it. `Refinement`
maps an accepted append to one `Seal` of `WormChain` and everything else to a
stutter, with the log as the abstract chain.

`LatticeLog_proofs` proves, for any threads, payloads, degree and length of the
file: `LogTypeCorrect`, `AckedCorrect`, `AckedOrderCorrect`, `DurableCorrect`,
`VerifyCorrect`, and of the operators `VerifyDecides` and `CommitInjective`.
`AckedIsDurable` is not inductive: a write that starts before the end of the file would destroy it. `IInv`
adds that a thread inside `seb_lattice_append` holds the callers' mutex (`Locked`);
that its `sz` is therefore still the end of the file when it writes, and that a
record written and not yet flushed is the last thing in the file, beyond
everything durable (`AppendsAtEnd`). This is where the mutex, which the library
does not have itself, is used; without it a mutant run finds two records at one
place. `AckedStand` says `AckedIsDurable` word by word, which is how `Pwrite` and
`Crash` change the file; `AckedStandIsDurable` gives the record back.
`StepKeepsDurable` shows from `IInv` that no action writes below `durable`.

`VerifyCorrect` (an untorn file verifies at any moment, and no file that differs from
it in one word does) has an inductive invariant
of its own on top of `IInv`, `ChainInv`: the file consists of whole records, each
committing to the one before it (`Chained`), and a thread about to write still has
the tip of the file's last record in hand (`TipRead`). `VerifyDecides` says what
`Verify` answers for a file of whole records of any content: 1 if each is linked to
the one before it, and 0 otherwise. The recursive function in `Verify` exists, and as far as the
records are linked its values are the file's own commitments. This is shown without an
induction theorem over formulas, which the provers
cannot instantiate: `SetInduction` says that a set of naturals that has 0 and with each of its numbers
the next is all of them, which follows from the well-foundedness of `<`; the sets it is
used for are those of the places up to which the function exists, and where it agrees
with the file. An altered word leaves its own record unlinked (`AlteredUnlinked`),
because `CommitInjective`: with the other inputs the same, `Commit` never gives one
value for two tips or for two halves of a payload. Each key has one coefficient,
so multiplying by it shifts the exponents (`Shifted`) and reaches each of them (`Rotated`).
For the tip this is the reason `seb_lattice.h:6` gives for an invertible K0; the
other two keys are invertible as well. Two words altered together may cancel out: the
circuit is linear.

`HumanTouch_proofs` proves, for any ids, capacity and number of submissions,
decisions and restarts, whether or not a host interrupts the task:
`GatewayTypeCorrect`, `AuditCorrect`, `OrderCorrect`, `DecisionsCorrect` and
`AccountedCorrect`. None of the properties is inductive. That arrivals are logged in
order needs the order of the channel (`ChannelAscends`) and that all that was
ever logged, queued or shown came out of it earlier (`HandledFirst`). That a waiting decision
never finds an older submission than the reviewer saw needs that what was
shown is not newer than the queue's record (`ShownBefore`). `AuditExplainsStatus` speaks
of ids, and so does every entry: an entry about one id must leave what the log says
of the others alone (`OthersExplained`); an append that failed for one
submission must not count as one about another id's (`OneIdEach`: a submission is the record
of one id only); and a refusal's entry, which speaks of an id whose
record it does not touch, has to be told from a reviewer's (`NewlyExplained`,
`LogStands`). That no change is lost needs a
place for each at any moment: in the channel, in the log, or among those an append failed
for (`Accounted`). `Logged` sums
up what `AppendEntry` may leave in the file, and `LoggedEach` (by `AppendLogsEach`) lets every
proof about a handler speak of two cases instead of the disk's. `StatusSetPreserves`
serves both the decision and `MarkCommitted`, which set a status and append.

`FiscalAdapter_proofs` proves, for any jobs, hashes, number of calls and either
behaviour of `SEB_APPEND`: `AdapterTypeCorrect`, `RecordsCorrect`,
`ConfirmationsCorrect` and `SuccessCorrect`. The row and the confirmation are written in steps of their own
after the event, so `IInv` adds what a job can rely on between two steps
(`JobsBacked`): past the append its event is in the chain, past the insert its hash
is in the ledger. That other jobs append and insert between these steps, even for
the same hash, does not disturb it because chain and ledger only grow
(`SettlementStays`, and that a second insert of a hash is refused).

`Universe_proofs` proves, for any ids, languages, invariant names, tiers and
number of calls: `UniverseTypeCorrect`, `IndexFindsCorrect`, `AddedOnceCorrect` and
`PromotionCorrect`. None of the three properties is inductive. A promotion looks
at the mark only, the mark at nothing, and between gate and
mark, and after it, the manifest may be changed; `GateInv` therefore says of each
manifest (in hand, stored or in the file) that has left T2 that it is marked, of each that was marked
after a success that the gate found what it
requires, and of the last result that it still does. It is kept because no
builder call takes away what the gate saw (`BuildPreserves`), because a mark adds
the claim only when the last result was a success (`MarkPreserves`), and because a
replaced manifest comes without a result. `PassedIsProven` shows that the gate,
which stops at the first failure and reports the last result, passes only if all
five steps did. `IndexInv` adds to `AddedOnceIsExact` that an id never added is
listed nowhere (`Listed`): the first add of an id counts up from there. An add of
another id leaves its entries alone (`AddedIndex`), and a loaded universe has
indexes that list each artifact once (`RebuiltIndex`).

`ConvergenceChain_proofs` proves, for any processes, problems, times, deltas, encoding and
length of log and chain: `ChainTypeCorrect`, `SerialCorrect`, `OnceCorrect` and
`EndedCorrect`. The invariant has four parts, each proved on those before it.
`MemoryInv` says what a run has in memory at each of its stages (`Places`): its
entries are a prefix of the log, which only grows. `SealedInv`, for overlapping runs too:
the keys a run takes to be sealed, and those it has dealt with, have a record, as long as
no line was cut short (`Dealt`); a crash, which takes lines off the file, ends every run
that relied on them.
`SerialInv`: while runs do not overlap one is active at most (`Alone`), the file's lines
are linked, and the active run's tip is that of the last line (`Linked`). From this
`ExpectedOfLinked` and `LinkedVerifies` derive that `VerifyChain` accepts the file,
again by `SetInduction`. `OnceInv`: the records of a key are no more than the log's
entries of it (`SealedOnce`), which is kept because a key that the run does not take to be
sealed has no more records than entries the run has dealt with (`NewRecords`); the
proof counts, with `LineWrittenOnce` for a line that is written
and `OnceKept` for the steps that write none.

`Shrewd_proofs` proves, for any size of the window, minimum and length of the feed:
`UnitTypeCorrect` and `CommandCorrect`. What makes it work is in the lemmas about
counting: the zeros in front of a short window are as many as the ticks that
are missing (`PaddedAreMissing`), and the verdicts in the padded window are those of the
last ticks, shifted (`HeldAreRecent`, by `ShiftCardinality`), so that the counts
are those of the feed (`CountsOfWindow`). `BestIdxProperties` says what the loop's
`max_by` chooses, ties included, and `CommandOfCounts` what becomes of it.

`Reasoning_proofs` proves, for any agents, tasks and number of contents, steps,
relations and events: `ReasoningTypeCorrect`, `AncestryCorrect`, `IdCorrect`,
`EventsCorrect` and `CyclesCorrect`. That the ancestry of fresh traces has no cycle is a matter of when
each was hashed: a content is hashed once, after all those it names (`Digested`),
and a trace that is stored or in hand names only what was hashed (`TracesComputed`).
A fresh trace therefore names ids smaller than its own (`NamesOlder`), and a relation
that descends in the naturals has no cycle (`AncestryOfFresh`). This is where the ideal hash
is used; a trace changed after `finalize` breaks the premise, not the proof.
`EventsInOrder` needs that an event's timestamp is its place in the order of
building (`BuiltStamps`), that the event a task holds was built by it (`HeldIsBuilt`), and that a log has only what was built for it (`LoggedIsBuilt`).

`CyclesCorrect` says that `has_cycles` is true exactly if the ancestry is no tree: an
id is named at two places of it, or the trace itself at one (`IsTree`). The walk consumes a list of ids to visit, which it extends as
it goes. The proof labels each entry of that list with the place, an id and its
position in a trace's relations, that put it there; the labels of what was visited and of what is
still to be visited are then all different, and together they are the places where
visited traces name something (`Passed`). One visit keeps that (`VisitPassed`). If the list becomes
empty, what was visited is closed, is all that is reached, and each of it but the root is named at one place
(`EndIsTree`); if an id is met again, it is named at two places, or is
the root (`TwiceIsNoTree`). The walk ends because each step visits an id not visited before,
and there are finitely many (`WalkSteps`, `WalkDecides`). Recursive functions are shown to
exist by `RecursionExists`, a fact about steps given as functions; `Flattened` says what
`FlattenSeq` lists.

Assumptions used: `HeaderAssumption` and `SizeAssumption` (headers have an
offset, a size below the modulus and a circuit input; constants are naturals),
`LogAssumption` (payloads are pairs of halves, and there is a value for a free mutex that
is no thread), `ChainAssumption` (the two stand-ins for a missing stamp are no
times, deltas are integers, `Encode` yields inputs of the circuit),
`GatewayAssumption` (the capacity is not 0), `ShrewdAssumption` (the minimum is at
most the window), `AdapterAssumption`, `DegreeAssumption`, `UniverseAssumption`,
`TraceAssumption` and `EventsAssumption`. They only give the constants their
types and sizes. Of the circuit, only `VerifyCorrect` uses more than that it maps
polynomials to polynomials: the theorems about chains hold for any linking function of that type.

Only model-checked:

- `ArrivalsHandled` and `NoiseAnswered`, which are liveness under fairness.
- The properties of section 7, which the code violates: there is nothing to prove.

## 6 Assumptions, bounds, fairness

Bounds and why they are enough:

- `MaxEvents = 3`, `MaxSequence = 1`: the first event takes a path of its own, the
  second is the first linked one, and a third leaves room for a rotation before,
  between and after. The scaled sizes (segment 5, modulus 8) keep the order
  fits / too large / wraps of 2^30 and 2^32. Degree 3 is the smallest for which
  the three keys differ; in the proofs it is any.
- `MaxWords = 10`: two records and a torn one, or three and a word, which is the
  longest history two threads can interleave before the pattern repeats.
- `HumanTouch`: two ids are needed for independent changes, a third submission for
  a reused id and a full queue, one restart for lost memory, two decisions for one
  that follows another on the same change.
- `FiscalAdapter`: two jobs race for a hash; five calls allow each job a retry and
  one more call.
- `ConvergenceChain`: two runs are what it takes to overlap. Two entries are one to
  be killed at and one that follows, and may have one key; the third record is
  the second run's, or what an undated entry leaves when it is sealed again.
- `Universe`: of the five calls, an invariant, a proof and a document satisfy the
  gate and a fourth marks; the fifth is a second invariant, a mark at another
  moment, a new manifest, or a restart that leaves only the file. Two adds are what makes an
  index stale. 9 is a tier
  that does not exist and becomes T2, 0 one that may be claimed. One id, language and
  invariant name do: the indexes treat each id by itself, and those by language and name work
  like that of the tiers, where promotion
  moves an artifact; the proofs are for any number.
- `Shrewd`: 5 is the smallest window with a count of exactly four fifths, where
  the code's comparison is strict; seven ticks let two leave it; 2 is less than the
  window, so that zeros fill the rest, and more than one.
- `ReasoningTrace`: three ids give a trace with two ancestors that share one, one
  that names itself through a changed trace, and a chain that closes. One relation
  of up to two ids is enough to name two parents. The agent may take up what is
  stored, so one stands for many: nothing depends on who holds a trace.
- `ReasoningEvents`: three events are two of one task with one of the other between
  them; two handlers to keep apart. Whether the agent's traces matter is not
  asked there, so its bounds are smaller.

Modelling assumptions:

- `seb_kernel_nif` serialises NIF calls; a caller may be any process.
- Writes to the lattice file are cut between 32-byte words, and a successful
  `fdatasync` makes durable everything written before, also after one that failed.
  Only data not flushed is lost by a crash, from the end.
- `SEB_APPEND` is not in the repository. It appends at the next offset or fails;
  the copybook says that it returns the existing offset of a hash in the ledger,
  and the constant `Dedups` says whether it does.
- A git commit is made once for each id and marked committed once.
- The convergence script's appends are single writes that another process's lines
  do not split; a line is lost or cut as a whole at the end of the file. The
  stamp an undated entry gets is the time of the run, which no entry in the log has.
- The circuit's input for an entry is any function of the entry (`Encode`). An
  undated entry is in the log under "undefined" and in the chain under "now".
- BLAKE3 is ideal: contents have equal hashes only if they are equal, and nobody
  names the hash of a content that was not hashed yet. Traces that differ
  only in texts or times are one; what steps say is left out.
- A share of the window is compared as a count: with a window of 1000 `f32` does not
  move any count across four fifths.
- Producers: `main.rs` never sends on the channel (its webhook is a
  placeholder), so `Send` models the senders its documentation describes.
- Symmetry is used for ids, jobs, processes, tasks and hashes, which are only
  compared, and only in runs without liveness.

Fairness: `FairSpec` of `HumanTouch` assumes that tokio runs a task that is ready
(`StartProcessor`, `HandleIncomingChange`) and that its mutex, which is fair, is
granted to the waiter (`NotFound \/ Decide`). Senders, the reviewer and the
committer are not assumed to do anything. `FairSpec` of `Shrewd` assumes that the loop
goes on: its tokio interval fires, the window's lock is granted and publishing, which
is outside the repository and awaited in the round, returns. The feed is not
assumed to deliver. The other modules state no fairness: they check safety.

## 7 Where code and documentation disagree

Each of these has a run in which TLC finds the statement violated:

- `human_touch_commands`: `IMPLEMENTATION_GUIDE.md:39` lists queue processing and
  interactive input as concurrent; the task holds the queue's mutex for as long as
  it runs, and every decision typed after it started waits for ever.
- `fiscal_duplicates`: `SEBEVENT.cpy:172` says no duplicate settlements are possible;
  the settlement event is appended before the row a retry would look for.

Seen while modelling, without a run of their own. Kernel, log file, chain:

- `seb_wal_nif.c:94` says an event fits its segment; the size is summed in `uint32_t`
  (`:163`), so a declared payload close to 2^32 wraps and passes. `EventSize` computes
  the sum as the code does, and one header of the run wraps and is accepted.
- `seb_convergence.mjs:17` says that verify returning 0 means tampering; a write cut
  short (`seb_lattice.c:104`), by the disk or a crash, has the same effect once the
  next record follows it.
- `append_event` answers `{ok, _}` with the offset of the event before
  (`AnswersPredecessor` states exactly what it is), and does not check the first
  footer's `prev_hash` (`seb_wal_nif.c:92` says it does).
- `seb_lattice_verify` starts from an all-zero tip at every start offset, so it
  rejects an intact file from its second record on (`seb_lattice.h:44`).
- Convergence: of two runs that overlap, each goes on from the tip and the keys it read
  at its start (`seb_convergence.mjs:132`, `:162`): the chain forks and entries are
  sealed twice. The alarm (exit code 2) is raised only by the run that seals the
  attack, so a kill after sealing loses it; the header (line 6) says that a
  negative delta halts, the code halts when the sum is negative too. An undated
  entry is sealed again by every run. An entry that has a sealed key and another delta is
  never sealed. A last line without an end makes every later run throw.

Gateway and settlement:

- `IMPLEMENTATION_GUIDE.md:544` says the log can be replayed to verify state. By id
  it cannot: when a resubmission is refused for capacity (`review_queue.rs:130`),
  the last entry of its id is a CHANGE_REJECTED like any other, while the queue still
  holds the change under the status it had. `AuditExplainsStatus` states what can be relied
  on instead. A status set before an append that fails (`review_queue.rs:257`) is
  not in the log either.
- After a restart the queue is empty (`main.rs:77`) while the log awaits review of
  changes that nobody holds any more.
- `IMPLEMENTATION_GUIDE.md:14` asks for explicit review of every change; a decision
  that waits for the lock applies to a resubmission nobody saw (`review_queue.rs:147`).
- `main.rs:30` limits pending changes; decided ones, never removed, count too.
- A decision appended after a torn audit line is answered Ok and is skipped by
  `read_entries`.
- A rejected change can be approved, resubmitted or marked committed
  (`IMPLEMENTATION_GUIDE.md:226` calls it an end state), and the commit gateway
  accepts any non-empty id (`:241` says it looks for an approval).
- A retried settlement is answered with an error and no id (`README_L4.md:131` says
  the existing offset is returned); of two racing jobs the later is answered
  SUCCESS with an offset the ledger does not have (`HANDOFF_MANIFEST_L4.md:201`).
  A settlement whose confirmation fails is answered with an error although it is in
  the ledger (`SEB_FISCAL_ADAPTER.rpgle:141`).
- The bridges build headers of 64 bytes where the NIF requires 68.

Universe:

- Adding an id again leaves its old entries: `get_t2` (`search_substrate.rs:145`)
  returns an artifact that was promoted and added again, and `statistics` counts it
  twice. The demo's `.first()` takes whatever comes first.
- `L6_L7_VALIDATION_REPORT.md:285` says that promotion requires Lean proof coverage;
  `promote` requires the mark, and `mark_cvm_passed` (`manifest.rs:269`) is
  unconditional and the flag public: `test_promote`
  (`compile_verify_merge.rs:381`) promotes an artifact without proof, document or
  invariant. `GatedMeansProven` is about clients that mark after a success.
- `process` never sets the mark, its test step always passes, and its prove step
  looks for a proof reference, not for the proof it refers to (`manifest.rs:255`).
  An invariant without a proof, added after the mark, keeps it. T0 and T1 can be
  claimed at `new` without any gate.
- `save_to_file` truncates the only copy before it writes (`search_substrate.rs:186`):
  a save that fails leaves a file that does not parse, and the artifacts are gone with
  the process.
  The repository's own `repository.json` does not parse (line 268).

Reasoning:

- `has_cycles` (`trace.rs:234`) also reports an ancestor that two traces share, which a
  composition of two conclusions from one premise has. `README.md:213` says there are
  no cycles; nothing calls `has_cycles` when a trace is stored.
- `add_step` and `add_parent` after `finalize` or `sign` leave the old id and signature, and
  `verify` answers true, and the trace is stored under the old id (`trace.rs:163`);
  signatures are placeholders.
- The hooks emit a start without an end or an end without a start, no step events,
  and store no trace. An agent whose name is that of a stream (`challenges`) shares it.
  A handler's timestamps need not ascend: they are taken before the lock. Storing a
  trace with an empty id panics where a prefix of the id is taken. A comment
  says the id is SHA-256; it is BLAKE3.

Shrewd:

- A short window is filled with the code of a proven tick: ten ticks of any kind
  after a start, with 990 fillers before them, lower the threshold for "sustained" proven verdicts
  (`shrewd_rtx.rs:215`), as `CommandFitsWindow` states it.
  In the program as it is nothing feeds the window, and nothing shortens it.

Components that are not modelled:

- A retry of a settlement that timed out is refused without its id; `pending_queries`
  of the Datalog bridge shrinks only by answers that its port never gives
  (`seb_datalog_bridge.erl:107`); `rebalance` resets loads and keeps assignments
  (`seb_partition_mgr.erl:125`); every state of the agent FSM matches `call` where
  gen_statem passes `{call, From}` (`seb_agent_fsm.erl:114`).

## 8 Not modelled

- Agent FSM and supervisors: the clauses of `seb_agent_fsm` match the event type
  `call`, while gen_statem passes `{call, From}`; the first call ends the agent, so
  there is no protocol to check.
- Bridges (beyond their calls of the kernel), Ada kernel and WAL, first NIF, Datalog
  bridge, partition manager, C verifier, shift logic: in the plan.
- The PL/I adapter (declarations only), `rpg_ingest.py` (a converter), the WASM
  admission checks (straight-line code), the ASP constraints and proof-assistant
  files (specifications, not the program), the notebook engine, scripts, templates,
  training code and job listings.
- Within modelled components: signatures (never verified by the NIF),
  `verify_chain`, `worm_flush` and `get_state` (they change nothing), the PKI
  certificates and parsing of `commit_gateway.rs`, the texts that are printed;
  `add_test` and `compute_hash` of a manifest (fields that nothing reads); the streaming
  manager's event buffer, subscriptions and indexes beside its map of traces, its
  diagrams and timelines; the broker and the ONNX session (a stub) of the Shrewd
  unit.
