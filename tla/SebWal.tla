------------------------------- MODULE SebWal -------------------------------
(***************************************************************************)
(* The WAL kernel NIF (seb/runtime/c_src/seb_wal_nif.c): one handle, and   *)
(* the processes that seal events through it.  A caller reads the tip with *)
(* get_tip_hash, builds header and footer from what it read, and only then *)
(* calls append_event; other callers append and rotate in between.  Each   *)
(* NIF call is one step: seb_kernel_nif serialises them (handle_call).     *)
(*                                                                         *)
(* `log' is a history variable: the kernel keeps only its tip, and `log'   *)
(* records the events it accepted and the offsets it answered.  A restart  *)
(* of the owner gets a new handle from init_kernel, that is, another       *)
(* behaviour of this module.                                               *)
(***************************************************************************)
EXTENDS LatticeCircuit, Sequences

CONSTANTS
  Callers,       \* processes that hold the handle
  Header,        \* headers of the right size (68 bytes)
  OffsetOf,      \* header bytes 0..7, as a number
  SizeOf,        \* header bytes 24..27, as a number
  WordsOf,       \* header bytes 0..63, as the circuit's input
  ShortHeader,   \* a header of any other size
  ForeignHash,   \* prev_hash values that were not read from this handle
  SegmentIds,
  HeaderSize, FooterSize,  \* 68 and 128
  UInt32,        \* 2^32, the modulus of event_size's arithmetic
  SegmentMax,    \* 2^30
  MaxEvents,     \* bound of the model: events sealed
  MaxSequence    \* bound of the model: segment sequence numbers

ASSUME HeaderAssumption ==
  /\ OffsetOf \in [Header -> Nat]
  /\ SizeOf \in [Header -> Nat]
  /\ WordsOf \in [Header -> Words64]
  /\ ShortHeader \notin Header
  /\ ForeignHash \subseteq Poly

ASSUME SizeAssumption ==
  /\ HeaderSize \in Nat /\ FooterSize \in Nat /\ SegmentMax \in Nat
  /\ UInt32 \in Nat \ {0}
  /\ \A h \in Header : SizeOf[h] < UInt32
  /\ MaxEvents \in Nat /\ MaxSequence \in Nat

VARIABLES handle, log, call

vars == <<handle, log, call>>

Refusals == {"invalid_header", "hash_chain_broken", "invalid_commitment",
             "offset_not_monotonic", "segment_full"}

Handle == [segment_id : SegmentIds, sequence : Nat, tip_hash : Poly,
           tip_offset : Nat, events_sealed : Nat, segments_rotated : Nat]

\* An accepted event: what it held, where it was sealed, what was answered.
Sealed == [header : Header, prev_hash : Poly, event_hash : Poly,
           sequence : Nat, committed : Nat]

\* A caller between its two calls ("ready"), or after the answer.  read_tip
\* and seen are the tip and the chain length when it called get_tip_hash.
Call == [stage : {"idle", "ready", "ok"} \cup Refusals,
         header : Header \cup {ShortHeader}, prev_hash : Poly,
         event_hash : Poly, read_tip : Poly, seen : Nat]

NoCall == [stage |-> "idle", header |-> ShortHeader, prev_hash |-> Zero,
           event_hash |-> Zero, read_tip |-> Zero, seen |-> 0]

-----------------------------------------------------------------------------
Init ==
  /\ \E id \in SegmentIds :
       handle = [segment_id |-> id, sequence |-> 0, tip_hash |-> Zero,
                 tip_offset |-> 0, events_sealed |-> 0, segments_rotated |-> 0]
  /\ log = <<>>
  /\ call = [c \in Callers |-> NoCall]

\* get_tip_hash, then a footer: prev_hash as read or from elsewhere;
\* event_hash computed by the caller, or left zero for the kernel to fill
\* (seb_pnp_bridge, seb_shrew_bridge).  A caller may also drop what it had
\* prepared and read again.
GetTipHash(c) ==
  /\ \E h \in Header \cup {ShortHeader},
        prev \in {handle.tip_hash} \cup ForeignHash, filled \in BOOLEAN :
       call' = [call EXCEPT ![c] =
         [stage |-> "ready", header |-> h, prev_hash |-> prev,
          event_hash |-> IF filled /\ h # ShortHeader
                           THEN Commit(handle.tip_hash, WordsOf[h]) ELSE Zero,
          read_tip |-> handle.tip_hash, seen |-> handle.events_sealed]]
  /\ UNCHANGED <<handle, log>>

\* Mutants of the checks: the hash chain check dropped, the commitment check
\* dropped, an offset equal to the tip's let through.
HashUnchecked(r) == TRUE
CommitmentUnchecked(r) == TRUE
OffsetNotBehind(r) ==
  handle.events_sealed > 0 => OffsetOf[r.header] >= handle.tip_offset

HashLinked(r) == handle.events_sealed > 0 => r.prev_hash = handle.tip_hash
CommitmentHolds(r) == r.event_hash = Commit(handle.tip_hash, WordsOf[r.header])
OffsetAdvances(r) ==
  handle.events_sealed > 0 => OffsetOf[r.header] > handle.tip_offset

\* The sum is computed in uint32_t before it is widened to uint64_t.
EventSize(h) == (HeaderSize + SizeOf[h] + FooterSize) % UInt32

\* The checks of append_event in the order the code makes them.
Answer(r) ==
  IF r.header = ShortHeader THEN "invalid_header"
  ELSE IF ~HashLinked(r) THEN "hash_chain_broken"
  ELSE IF ~CommitmentHolds(r) THEN "invalid_commitment"
  ELSE IF ~OffsetAdvances(r) THEN "offset_not_monotonic"
  ELSE IF EventSize(r.header) > SegmentMax THEN "segment_full"
  ELSE "ok"

\* The offset answered is the tip offset before the event.
CommittedOffset(r) == handle.tip_offset

\* Mutant: {ok, _} for an event that does not fit the segment.
AppendEventOverflowOk(c) ==
  LET r == call[c]
      full == Answer(r) = "segment_full"
  IN  /\ r.stage = "ready"
      /\ handle.events_sealed < MaxEvents
      /\ call' = [call EXCEPT ![c].stage = IF full THEN "ok" ELSE Answer(r)]
      /\ UNCHANGED <<handle, log>>

AppendEvent(c) ==
  LET r == call[c]
  IN  /\ r.stage = "ready"
      /\ handle.events_sealed < MaxEvents
      /\ call' = [call EXCEPT ![c].stage = Answer(r)]
      /\ IF Answer(r) = "ok"
           THEN /\ handle' = [handle EXCEPT !.tip_hash = r.event_hash,
                                            !.tip_offset = OffsetOf[r.header],
                                            !.events_sealed = @ + 1]
                /\ log' = Append(log,
                     [header |-> r.header, prev_hash |-> r.prev_hash,
                      event_hash |-> r.event_hash,
                      sequence |-> handle.sequence,
                      committed |-> CommittedOffset(r)])
           ELSE UNCHANGED <<handle, log>>

\* Mutants: rotation with its arguments swapped, with the event count or the
\* tip reset as for a new handle, with an unchanged sequence number.
RotateSegmentSwapped(id, seq) ==
  /\ seq > handle.sequence
  /\ handle' = [handle EXCEPT !.segment_id = seq, !.sequence = id, !.tip_offset = 0]
  /\ UNCHANGED <<log, call>>
RotateSegmentResetsCount(id, seq) ==
  /\ seq > handle.sequence
  /\ handle' = [handle EXCEPT !.sequence = seq, !.tip_offset = 0, !.events_sealed = 0]
  /\ UNCHANGED <<log, call>>
RotateSegmentResetsTip(id, seq) ==
  /\ seq > handle.sequence
  /\ handle' = [handle EXCEPT !.sequence = seq, !.tip_offset = 0, !.tip_hash = Zero]
  /\ UNCHANGED <<log, call>>
RotateSegmentSameSequence(id, seq) ==
  /\ seq >= handle.sequence
  /\ handle.segments_rotated < MaxSequence
  /\ handle' = [handle EXCEPT !.sequence = seq, !.tip_offset = 0,
                              !.segments_rotated = @ + 1]
  /\ UNCHANGED <<log, call>>

\* Mutant: rotation that goes on counting offsets.
RotateSegmentKeepsOffset(id, seq) ==
  /\ seq > handle.sequence
  /\ handle' = [handle EXCEPT !.segment_id = id, !.sequence = seq,
                              !.segments_rotated = @ + 1]
  /\ UNCHANGED <<log, call>>

\* A refused rotation (sequence_not_monotonic) changes nothing.
RotateSegment(id, seq) ==
  /\ seq > handle.sequence
  /\ handle' = [handle EXCEPT !.segment_id = id, !.sequence = seq,
                              !.tip_offset = 0, !.segments_rotated = @ + 1]
  /\ UNCHANGED <<log, call>>

Next ==
  \/ \E c \in Callers : GetTipHash(c) \/ AppendEvent(c)
  \/ \E id \in SegmentIds, seq \in 0 .. MaxSequence : RotateSegment(id, seq)

Spec == Init /\ [][Next]_vars

-----------------------------------------------------------------------------
(* Properties *)

\* Type invariant of the handle, the history and the callers.
TypeOK ==
  /\ handle \in Handle
  /\ log \in Seq(Sealed)
  /\ call \in [Callers -> Call]

\* The tip a chain ending in the i-th event has (genesis for i = 0).
TipAfter(i) == IF i = 0 THEN Zero ELSE log[i].event_hash

\* The kernel's two counters of the same thing, and its tip, never drift from
\* the events it accepted, whatever was refused or rotated in between.
TipIsLastEvent ==
  /\ handle.events_sealed = Len(log)
  /\ handle.tip_hash = TipAfter(Len(log))

\* Every accepted event commits to the tip the event before it left, and from
\* the second event on its footer names that tip as prev_hash: a caller that
\* read the tip before another one sealed cannot get in on the old tip.
ChainLinked ==
  \A i \in 1 .. Len(log) :
    /\ log[i].event_hash = Commit(TipAfter(i - 1), WordsOf[log[i].header])
    /\ i > 1 => log[i].prev_hash = TipAfter(i - 1)

\* Events are sealed in ascending order of (segment sequence, header offset),
\* so that pair names at most one event for the whole life of the handle,
\* although rotation sets tip_offset back to 0.
PositionsAscend ==
  \A i, j \in 1 .. Len(log) :
    i < j => \/ log[i].sequence < log[j].sequence
             \/ /\ log[i].sequence = log[j].sequence
                /\ OffsetOf[log[i].header] < OffsetOf[log[j].header]

\* The offset of the event before the i-th if that one is of segment `seq', and
\* 0 for the first event of a segment.
OffsetBefore(i, seq) ==
  IF i > 1 /\ log[i - 1].sequence = seq THEN OffsetOf[log[i - 1].header] ELSE 0

\* append_event answers a caller the offset of its event's predecessor in the
\* segment, 0 if it has none (and not its own, as the name CommittedOffset of
\* seb_kernel_nif.erl suggests), whatever callers and rotations came between.
AnswersPredecessor ==
  \A i \in 1 .. Len(log) : log[i].committed = OffsetBefore(i, log[i].sequence)

\* A footer made from get_tip_hash's answer for this very header.
HonestFooter(r) ==
  /\ r.header # ShortHeader
  /\ r.prev_hash = r.read_tip
  /\ r.event_hash = Commit(r.read_tip, WordsOf[r.header])

\* An honest footer is refused on its hashes only because the chain grew
\* between get_tip_hash and append_event: rereading the tip is the remedy, and
\* a rotation in between is no reason.
RefusedOnlyWhenStale ==
  \A c \in Callers :
    (/\ call[c].stage \in {"hash_chain_broken", "invalid_commitment"}
     /\ HonestFooter(call[c]))
    => call[c].seen < handle.events_sealed

\* A caller that was answered {ok, _} has its event in the chain, sealed after
\* the chain it read, with the hashes it sent; later calls do not displace it.
AcknowledgedIsSealed ==
  \A c \in Callers :
    call[c].stage = "ok" =>
      \E i \in call[c].seen + 1 .. Len(log) :
        /\ log[i].header = call[c].header
        /\ log[i].prev_hash = call[c].prev_hash
        /\ log[i].event_hash = call[c].event_hash

\* Rotation opens a new segment and leaves the chain alone; only an append
\* moves the tip, and it moves one event at a time.  No step does both.
RotationKeepsChain ==
  [][ /\ handle'.segments_rotated # handle.segments_rotated =>
           /\ handle'.sequence > handle.sequence
           /\ handle'.tip_hash = handle.tip_hash
           /\ handle'.events_sealed = handle.events_sealed
      /\ handle'.events_sealed # handle.events_sealed =>
           /\ handle'.events_sealed = handle.events_sealed + 1
           /\ handle'.sequence = handle.sequence ]_vars

\* The kernel implements the abstract chain.
WC == INSTANCE WormChain WITH
        Items <- {WordsOf[h] : h \in Header}, Genesis <- Zero, Link <- Commit,
        chain <- [i \in 1 .. Len(log) |-> [item |-> WordsOf[log[i].header],
                                           hash |-> log[i].event_hash]],
        tip <- handle.tip_hash

ImplementsWormChain == WC!WormSpec
=============================================================================
