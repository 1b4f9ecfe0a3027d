--------------------------- MODULE Reasoning_proofs ---------------------------
(***************************************************************************)
(* Reasoning traces and the events beside them, for every set of agents    *)
(* and tasks and every number of contents, steps, relations and events.    *)
(***************************************************************************)
EXTENDS ReasoningEvents, SequenceTheorems, FiniteSetTheorems,
        WellFoundedInduction, TLAPS

\* The ids that a content names are among the first m that were computed.
NamesUpTo(content, m) ==
  \A r \in 1 .. Len(content.relations) :
    \A i \in DOMAIN content.relations[r] : content.relations[r][i] \in 1 .. m

\* Each content was hashed once, after those it names.
Digested ==
  /\ \A i, j \in 1 .. Len(digests) : digests[i] = digests[j] => i = j
  /\ \A i \in 1 .. Len(digests) : NamesUpTo(digests[i].content, i - 1)

\* A trace has no id, or one that was computed, and names ids that were.
Computed(t) ==
  /\ t.trace_id \in 0 .. Len(digests)
  /\ NamesUpTo(t.content, Len(digests))
TracesComputed ==
  /\ \A a \in Agents : Computed(hand[a])
  /\ \A id \in Stored : Computed(traces[id]) /\ traces[id].trace_id = id

\* An event has its place in the order of building as its timestamp, and the
\* logs have only events that were built for them.
BuiltStamps == \A n \in 1 .. Len(built) : built[n].event.timestamp = n
HeldIsBuilt ==
  \A t \in Tasks :
    pending[t] # NoEvent =>
      \E n \in 1 .. Len(built) : pending[t] = built[n] /\ built[n].task = t
LoggedIsBuilt ==
  \A l \in Layers : \A i \in 1 .. Len(log[l]) :
    LET n == log[l][i].timestamp
    IN  n \in 1 .. Len(built) /\ built[n].layer = l /\ built[n].event = log[l][i]

\* The inductive invariant, in two parts.
TraceInv == TraceType /\ Digested /\ TracesComputed
EventInv == TypeOK /\ BuiltStamps /\ HeldIsBuilt /\ LoggedIsBuilt /\ EventsInOrder
IInv == TraceInv /\ EventInv

-----------------------------------------------------------------------------
(* Contents, traces and their ids *)

Digest == [content : Content, signed : BOOLEAN]

LEMMA IdsBound == MaxIds \in Nat /\ \A n \in Nat : n <= MaxIds => n \in Ids
BY TraceAssumption DEF Ids

LEMMA NamesWidened ==
  ASSUME NEW c, NEW m \in Int, NEW k \in Int, m <= k, NamesUpTo(c, m)
  PROVE  NamesUpTo(c, k)
BY DEF NamesUpTo

LEMMA NoneNamed ==
  ASSUME NEW c, c.relations = <<>>, NEW m PROVE NamesUpTo(c, m)
BY DEF NamesUpTo

\* A computed id stays one when more is hashed.
LEMMA ComputedStays ==
  ASSUME NEW t, Computed(t), Len(digests) \in Nat, Len(digests') \in Nat,
         Len(digests) <= Len(digests')
  PROVE  Computed(t)'
<1>1. PICK m \in Nat : m = Len(digests)
  OBVIOUS
<1>2. PICK k \in Nat : k = Len(digests') /\ m <= k
  BY <1>1
<1>3. NamesUpTo(t.content, k)
  BY <1>1, <1>2, NamesWidened DEF Computed
<1>4. t.trace_id \in 0 .. k
  BY <1>1, <1>2 DEF Computed
<1>. QED BY <1>2, <1>3, <1>4 DEF Computed, NamesUpTo

\* Hashing a content whose parents were hashed before gives it the id it has,
\* or the next one.
LEMMA Hashing ==
  ASSUME TraceInv, NEW h \in Digest, NamesUpTo(h.content, Len(digests)),
         NEW n, n = Blake3(h), n <= MaxIds, digests' = Learn(h)
  PROVE  /\ Len(digests) \in Nat /\ Len(digests') \in Nat
         /\ Len(digests) <= Len(digests') /\ Len(digests') <= MaxIds
         /\ digests' \in Seq(Digest)
         /\ \A i \in 1 .. Len(digests) : digests'[i] = digests[i]
         /\ n \in 1 .. Len(digests') /\ n \in Ids
         /\ digests'[n] = h
         /\ Digested'
<1>0. digests \in Seq(Digest) /\ Len(digests) \in Nat /\ Len(digests) <= MaxIds
      /\ MaxIds \in Nat
  BY LenProperties, TraceAssumption DEF TraceInv, TraceType, Digest
<1>1. CASE Known(h)
  <2>1. digests' = digests
    BY <1>1 DEF Learn
  <2>2. n \in 1 .. Len(digests) /\ digests[n] = h
    BY <1>1 DEF Blake3, Known
  <2>3. Digested'
    BY <2>1 DEF TraceInv, Digested, NamesUpTo
  <2>4. n \in Ids
    BY <1>0, <2>2, IdsBound
  <2>. QED BY <1>0, <2>1, <2>2, <2>3, <2>4
<1>2. CASE ~Known(h)
  <2>1. digests' = Append(digests, h) /\ n = Len(digests) + 1
    BY <1>2 DEF Learn, Blake3
  <2>2. /\ digests' \in Seq(Digest) /\ Len(digests') = Len(digests) + 1
        /\ \A i \in 1 .. Len(digests) : digests'[i] = digests[i]
        /\ digests'[Len(digests) + 1] = h
    BY <1>0, <2>1, AppendProperties
  <2>3. Len(digests) + 1 <= MaxIds /\ n \in Ids
    BY <1>0, <2>1, IdsBound
  <2>4. \A i \in 1 .. Len(digests') : i \in 1 .. Len(digests) \/ i = Len(digests) + 1
    BY <1>0, <2>2
  <2>5. \A i \in 1 .. Len(digests) : digests[i] # h
    BY <1>2 DEF Known
  <2>6. ASSUME NEW i \in 1 .. Len(digests'), NEW j \in 1 .. Len(digests'),
               digests'[i] = digests'[j]
        PROVE  i = j
    <3>1. CASE i \in 1 .. Len(digests) /\ j \in 1 .. Len(digests)
      BY <2>2, <2>6, <3>1 DEF TraceInv, Digested
    <3>2. CASE i = Len(digests) + 1 \/ j = Len(digests) + 1
      BY <2>2, <2>4, <2>5, <2>6, <3>2
    <3>. QED BY <2>4, <3>1, <3>2
  <2>7. ASSUME NEW i \in 1 .. Len(digests')
        PROVE  NamesUpTo(digests'[i].content, i - 1)
    <3>1. CASE i \in 1 .. Len(digests)
      BY <2>2, <3>1 DEF TraceInv, Digested
    <3>2. CASE i = Len(digests) + 1
      <4>1. digests'[i].content = h.content /\ i - 1 = Len(digests)
        BY <1>0, <2>2, <3>2
      <4>. QED BY <4>1
    <3>. QED BY <2>4, <3>1, <3>2
  <2>8. Digested'
    BY <2>6, <2>7 DEF Digested, NamesUpTo
  <2>9. Len(digests') \in Nat /\ n \in 1 .. Len(digests')
    BY <1>0, <2>1, <2>2
  <2>. QED BY <1>0, <2>1, <2>2, <2>3, <2>8, <2>9
<1>. QED BY <1>1, <1>2

\* A trace, by its parts.
LEMMA TraceParts ==
  ASSUME NEW t \in Trace
  PROVE  /\ t.content \in Content /\ t.content.agent \in Writers
         /\ t.content.steps \in Nat /\ t.content.relations \in Seq(Seq(Ids))
         /\ t.trace_id \in Ids /\ t.signed \in BOOLEAN
         /\ t = [content |-> t.content, trace_id |-> t.trace_id, signed |-> t.signed]
BY DEF Trace, Content

LEMMA StoredTrace ==
  ASSUME TraceInv, NEW id \in Stored
  PROVE  id \in Ids /\ traces[id] \in Trace /\ Computed(traces[id])
         /\ traces[id].trace_id = id
BY DEF TraceInv, TraceType, TracesComputed, Stored

-----------------------------------------------------------------------------
(* The steps of the traces *)

LEMMA InitTrace == Init => TraceInv
<1>. SUFFICES ASSUME Init PROVE TraceInv
  OBVIOUS
<1>1. digests = <<>> /\ Len(digests) = 0 /\ 0 \in Ids /\ MaxIds \in Nat
  BY IdsBound DEF Init, TraceInit
<1>2. \A a \in Agents : New(a) \in Trace /\ Computed(New(a))
  <2>. TAKE a \in Agents
  <2>1. New(a) \in Trace
    BY <1>1, EmptySeq DEF New, Trace, Content, Writers
  <2>2. Computed(New(a))
    BY <1>1, NoneNamed DEF New, Computed
  <2>. QED BY <2>1, <2>2
<1>3. TraceType
  <2>1. digests \in Seq([content : Content, signed : BOOLEAN])
    BY <1>1, EmptySeq
  <2>. QED BY <1>1, <1>2, <2>1 DEF Init, TraceInit, TraceType
<1>4. Stored = {}
  BY DEF Init, TraceInit, Stored
<1>5. Digested /\ TracesComputed
  BY <1>1, <1>2, <1>4 DEF Init, TraceInit, Digested, TracesComputed
<1>. QED BY <1>3, <1>5 DEF TraceInv

\* Digests that grow, and another trace in an agent's hand.
LEMMA HandChanged ==
  ASSUME TraceInv, NEW a \in Agents, NEW t \in Trace,
         hand' = [hand EXCEPT ![a] = t], UNCHANGED traces,
         digests' \in Seq(Digest), Len(digests) <= Len(digests'),
         Len(digests') <= MaxIds, Digested', Computed(t)'
  PROVE  TraceInv'
<1>1. Len(digests) \in Nat /\ Len(digests') \in Nat
  BY LenProperties DEF TraceInv, TraceType, Digest
<1>2. TraceType'
  BY DEF TraceInv, TraceType, Digest
<1>3. \A b \in Agents : b # a => hand'[b] = hand[b]
  BY DEF TraceInv, TraceType
<1>4. hand'[a] = t
  BY DEF TraceInv, TraceType
<1>5. ASSUME NEW b \in Agents PROVE Computed(hand[b])'
  <2>1. PICK u : u = hand'[b]
    OBVIOUS
  <2>2. Computed(u)'
    <3>1. CASE b = a
      BY <1>4, <2>1, <3>1
    <3>2. CASE b # a
      <4>1. Computed(u)
        BY <1>3, <2>1, <3>2 DEF TraceInv, TracesComputed
      <4>. QED BY <1>1, <4>1, ComputedStays
    <3>. QED BY <3>1, <3>2
  <2>. QED BY <2>1, <2>2 DEF Computed, NamesUpTo
<1>6. ASSUME NEW id \in Stored'
      PROVE  Computed(traces[id])' /\ traces'[id].trace_id = id
  <2>1. PICK u : u = traces[id]
    OBVIOUS
  <2>2. id \in Stored
    BY DEF Stored
  <2>3. Computed(u) /\ u.trace_id = id
    BY <2>1, <2>2, StoredTrace
  <2>4. Computed(u)'
    BY <1>1, <2>3, ComputedStays
  <2>. QED BY <2>1, <2>3, <2>4 DEF Computed, NamesUpTo
<1>7. TracesComputed'
  BY <1>5, <1>6 DEF TracesComputed
<1>. QED BY <1>2, <1>7 DEF TraceInv

LEMMA HandOnly ==
  ASSUME TraceInv, NEW a \in Agents, NEW t \in Trace, Computed(t),
         hand' = [hand EXCEPT ![a] = t], UNCHANGED <<digests, traces>>
  PROVE  TraceInv'
<1>1. digests' \in Seq(Digest) /\ Len(digests) \in Nat
      /\ Len(digests) <= Len(digests') /\ Len(digests') <= MaxIds
  BY LenProperties DEF TraceInv, TraceType, Digest
<1>2. Digested'
  BY DEF TraceInv, Digested, NamesUpTo
<1>3. Computed(t)'
  BY DEF Computed, NamesUpTo
<1>. QED BY <1>1, <1>2, <1>3, HandChanged

LEMMA NewTraceKeepsTraces ==
  ASSUME TraceInv, NEW a \in Agents, NewTrace(a) PROVE TraceInv'
<1>1. New(a) \in Trace
  BY IdsBound, EmptySeq DEF New, Trace, Content, Writers
<1>2. New(a).content.relations = <<>> /\ New(a).trace_id = 0
  BY DEF New
<1>3. Len(digests) \in Nat
  BY LenProperties DEF TraceInv, TraceType
<1>4. Computed(New(a))
  BY <1>2, <1>3, NoneNamed DEF Computed
<1>. QED BY <1>1, <1>4, HandOnly DEF NewTrace

LEMMA AddStepKeepsTraces ==
  ASSUME TraceInv, NEW a \in Agents, AddStep(a) PROVE TraceInv'
<1>1. hand \in [Agents -> Trace] /\ hand[a] \in Trace /\ Computed(hand[a])
  BY DEF TraceInv, TraceType, TracesComputed
<1>. DEFINE c == [hand[a].content EXCEPT !.steps = hand[a].content.steps + 1]
            t == [hand[a] EXCEPT !.content = c]
<1>2. c \in Content /\ c.relations = hand[a].content.relations
  BY SMTT(30), <1>1, TraceParts DEF Content
<1>3. t \in Trace /\ t.content = c /\ t.trace_id = hand[a].trace_id
  <2>. HIDE DEF c
  <2>. QED BY <1>1, <1>2 DEF Trace
<1>4. hand' = [hand EXCEPT ![a] = t]
  BY <1>1 DEF AddStep
<1>5. Computed(t)
  <2>. HIDE DEF c, t
  <2>. QED BY <1>1, <1>2, <1>3 DEF Computed, NamesUpTo
<1>. QED BY <1>3, <1>4, <1>5, HandOnly DEF AddStep

\* One relation more, to traces whose ids were computed.
LEMMA AddParentKeepsTraces ==
  ASSUME TraceInv, NEW a \in Agents, AddParent(a) PROVE TraceInv'
<1>1. hand \in [Agents -> Trace] /\ hand[a] \in Trace /\ Computed(hand[a])
  BY DEF TraceInv, TraceType, TracesComputed
<1>2. PICK r \in Relations :
        hand' = [hand EXCEPT ![a].content.relations = Append(@, r)]
  BY DEF AddParent
<1>3. Len(digests) \in Nat /\ 1 .. Len(digests) \subseteq Ids
  <2>1. Len(digests) \in Nat /\ Len(digests) <= MaxIds /\ MaxIds \in Nat
    BY LenProperties, TraceAssumption DEF TraceInv, TraceType
  <2>. QED BY <2>1 DEF Ids
<1>4. r \in Seq(Ids) /\ \A i \in DOMAIN r : r[i] \in 1 .. Len(digests)
  <2>1. CASE \E p \in 1 .. Len(digests) : r = <<p>>
    BY <1>3, <2>1
  <2>2. CASE \E p, q \in 1 .. Len(digests) : r = <<p, q>>
    BY <1>3, <2>2
  <2>. QED BY <2>1, <2>2 DEF Relations
<1>. DEFINE old == hand[a].content.relations
            rs == Append(old, r)
            c == [hand[a].content EXCEPT !.relations = rs]
            t == [hand[a] EXCEPT !.content = c]
<1>5. old \in Seq(Seq(Ids)) /\ Len(old) \in Nat
  BY <1>1, TraceParts, LenProperties
<1>6. /\ rs \in Seq(Seq(Ids)) /\ Len(rs) = Len(old) + 1
      /\ \A i \in 1 .. Len(old) : rs[i] = old[i]
      /\ rs[Len(old) + 1] = r
  BY <1>4, <1>5, AppendProperties
<1>7. /\ c \in Content /\ c.relations = rs
      /\ t \in Trace /\ t.content = c /\ t.trace_id = hand[a].trace_id
  <2>1. c \in Content /\ c.relations = rs
    <3>. HIDE DEF rs, old
    <3>. QED BY <1>1, <1>6, TraceParts DEF Content
  <2>. HIDE DEF c
  <2>. QED BY <1>1, <2>1 DEF Trace
<1>8. hand' = [hand EXCEPT ![a] = t]
  BY <1>1, <1>2
<1>9. NamesUpTo(c, Len(digests))
  <2>1. \A i \in 1 .. Len(old) : \A j \in DOMAIN old[i] : old[i][j] \in 1 .. Len(digests)
    BY <1>1 DEF Computed, NamesUpTo
  <2>2. \A i \in 1 .. Len(rs) : i \in 1 .. Len(old) \/ i = Len(old) + 1
    BY <1>5, <1>6
  <2>. HIDE DEF rs, old, c
  <2>4. \A i \in 1 .. Len(rs) : \A j \in DOMAIN rs[i] : rs[i][j] \in 1 .. Len(digests)
    BY <1>4, <1>6, <2>1, <2>2
  <2>. QED BY <1>7, <2>4 DEF NamesUpTo
<1>10. Computed(t)
  <2>. HIDE DEF t, c
  <2>. QED BY <1>1, <1>7, <1>9 DEF Computed
<1>11. UNCHANGED <<digests, traces>>
  BY DEF AddParent
<1>. HIDE DEF t
<1>. QED BY <1>7, <1>8, <1>10, <1>11, HandOnly

LEMMA GetTraceKeepsTraces ==
  ASSUME TraceInv, NEW a \in Agents, GetTrace(a) PROVE TraceInv'
<1>1. PICK id \in Stored : hand' = [hand EXCEPT ![a] = traces[id]]
  BY DEF GetTrace
<1>2. traces[id] \in Trace /\ Computed(traces[id])
  BY StoredTrace
<1>. QED BY <1>1, <1>2, HandOnly DEF GetTrace

\* finalize() and sign(): the content is hashed and the trace gets its id.
LEMMA SealingKeepsTraces ==
  ASSUME TraceInv, NEW a \in Agents, Finalize(a) \/ Sign(a) PROVE TraceInv'
<1>1. hand \in [Agents -> Trace] /\ hand[a] \in Trace /\ Computed(hand[a])
  BY DEF TraceInv, TraceType, TracesComputed
<1>2. PICK h : h = [content |-> hand[a].content, signed |-> FALSE]
  OBVIOUS
<1>3. PICK n : n = Blake3(h)
  OBVIOUS
<1>4. h \in Digest /\ h.content = hand[a].content
  BY <1>1, <1>2, TraceParts DEF Digest
<1>5. Hashed(hand[a]) = h
  BY <1>2 DEF Hashed
<1>6. Hashed([hand[a] EXCEPT !.signed = FALSE]) = h
  BY <1>1, <1>2 DEF Hashed, Trace
<1>7. /\ n <= MaxIds /\ digests' = Learn(h) /\ UNCHANGED traces
      /\ \/ hand' = [hand EXCEPT ![a].trace_id = n]
         \/ hand' = [hand EXCEPT ![a].trace_id = n, ![a].signed = TRUE]
  BY <1>3, <1>5, <1>6 DEF Finalize, Sign
<1>8. NamesUpTo(h.content, Len(digests))
  BY <1>1, <1>4 DEF Computed
<1>9. /\ Len(digests) \in Nat /\ Len(digests') \in Nat
      /\ Len(digests) <= Len(digests') /\ Len(digests') <= MaxIds
      /\ digests' \in Seq(Digest)
      /\ n \in 1 .. Len(digests') /\ n \in Ids
      /\ Digested'
  BY <1>3, <1>4, <1>7, <1>8, Hashing
<1>10. PICK t \in Trace : /\ hand' = [hand EXCEPT ![a] = t]
                          /\ t.content = hand[a].content /\ t.trace_id = n
  <2>1. CASE hand' = [hand EXCEPT ![a].trace_id = n]
    <3>. DEFINE t == [hand[a] EXCEPT !.trace_id = n]
    <3>1. t \in Trace /\ t.content = hand[a].content /\ t.trace_id = n
      BY <1>1, <1>9 DEF Trace
    <3>2. hand' = [hand EXCEPT ![a] = t]
      BY <1>1, <2>1
    <3>. QED BY <3>1, <3>2
  <2>2. CASE hand' = [hand EXCEPT ![a].trace_id = n, ![a].signed = TRUE]
    <3>. DEFINE t == [hand[a] EXCEPT !.trace_id = n, !.signed = TRUE]
    <3>1. t \in Trace /\ t.content = hand[a].content /\ t.trace_id = n
      BY <1>1, <1>9 DEF Trace
    <3>2. hand' = [hand EXCEPT ![a] = t]
      BY <1>1, <2>2
    <3>. QED BY <3>1, <3>2
  <2>. QED BY <1>7, <2>1, <2>2
<1>11. Computed(t)'
  <2>1. PICK k \in Nat : k = Len(digests')
    BY <1>9
  <2>2. NamesUpTo(t.content, k)
    BY <1>4, <1>8, <1>9, <1>10, <2>1, NamesWidened
  <2>3. t.trace_id \in 0 .. k
    BY <1>9, <1>10, <2>1
  <2>. QED BY <2>1, <2>2, <2>3 DEF Computed, NamesUpTo
<1>. QED BY <1>7, <1>9, <1>10, <1>11, HandChanged

LEMMA StoreTraceKeepsTraces ==
  ASSUME TraceInv, NEW a \in Agents, StoreTrace(a) PROVE TraceInv'
<1>1. /\ hand[a] \in Trace /\ hand[a].trace_id \in Ids /\ Computed(hand[a])
      /\ traces \in [Ids -> Trace \cup {None}]
      /\ traces' = [traces EXCEPT ![hand[a].trace_id] = hand[a]]
      /\ UNCHANGED <<digests, hand>>
  BY TraceParts DEF TraceInv, TraceType, TracesComputed, StoreTrace
<1>2. TraceType' /\ Digested'
  BY <1>1 DEF TraceInv, TraceType, Digested, NamesUpTo
<1>3. ASSUME NEW id \in Stored'
      PROVE  Computed(traces[id])' /\ traces'[id].trace_id = id
  <2>1. PICK u : u = traces'[id]
    OBVIOUS
  <2>2. Computed(u) /\ u.trace_id = id
    <3>1. CASE id = hand[a].trace_id
      BY <1>1, <2>1, <3>1
    <3>2. CASE id # hand[a].trace_id
      <4>1. id \in Stored /\ u = traces[id]
        BY <1>1, <2>1, <3>2 DEF Stored
      <4>. QED BY <4>1, StoredTrace
    <3>. QED BY <3>1, <3>2
  <2>. QED BY <1>1, <2>1, <2>2 DEF Computed, NamesUpTo
<1>4. \A b \in Agents : Computed(hand[b])'
  BY <1>1 DEF TraceInv, TracesComputed, Computed, NamesUpTo
<1>. QED BY <1>2, <1>3, <1>4 DEF TraceInv, TracesComputed

\* More is hashed, and the traces stay as they are.
LEMMA DigestsGrow ==
  ASSUME TraceInv, UNCHANGED <<hand, traces>>, digests' \in Seq(Digest),
         Len(digests) <= Len(digests'), Len(digests') <= MaxIds, Digested'
  PROVE  TraceInv'
<1>1. Len(digests) \in Nat /\ Len(digests') \in Nat
  BY LenProperties DEF TraceInv, TraceType, Digest
<1>2. TraceType'
  BY DEF TraceInv, TraceType, Digest
<1>3. ASSUME NEW u, Computed(u) PROVE Computed(u)'
  BY <1>1, <1>3, ComputedStays
<1>4. ASSUME NEW a \in Agents PROVE Computed(hand[a])'
  <2>1. PICK u : u = hand[a]
    OBVIOUS
  <2>2. Computed(u)'
    BY <1>3, <2>1 DEF TraceInv, TracesComputed
  <2>. QED BY <2>1, <2>2 DEF Computed, NamesUpTo
<1>5. ASSUME NEW id \in Stored'
      PROVE  Computed(traces[id])' /\ traces'[id].trace_id = id
  <2>1. PICK u : u = traces[id]
    OBVIOUS
  <2>2. id \in Stored
    BY DEF Stored
  <2>3. Computed(u)' /\ u.trace_id = id
    BY <1>3, <2>1, <2>2, StoredTrace
  <2>. QED BY <2>1, <2>3 DEF Computed, NamesUpTo
<1>6. TracesComputed'
  BY <1>4, <1>5 DEF TracesComputed
<1>. QED BY <1>2, <1>6 DEF TraceInv

LEMMA HookParts ==
  ASSUME NEW hook \in Hooks
  PROVE  /\ hook.layer \in Layers /\ hook.type \in Types /\ hook.steps \in Nat
         /\ AgentOf[hook.layer] \in {"kernel_001", "policy_001"}
BY DEF Hooks, OnKernelAppend, OnKernelCommit, OnKernelRotate, OnPolicyAuthorize,
       OnPolicyAnomaly, Layers, Types, AgentOf

\* What a hook does to the traces, and the event it builds.
LEMMA CallHookEffects ==
  ASSUME TraceInv, NEW t \in Tasks, NEW hook \in Hooks, CallHook(t, hook)
  PROVE  /\ TraceInv' /\ UNCHANGED log
         /\ \E id \in Ids : BuildEvent(t, hook.layer, hook.type, id)
<1>1. PICK c : c = [agent |-> AgentOf[hook.layer], steps |-> hook.steps,
                    relations |-> <<>>]
  OBVIOUS
<1>2. PICK h : h = [content |-> c, signed |-> FALSE]
  OBVIOUS
<1>3. PICK n : n = Blake3(h)
  OBVIOUS
<1>4. /\ n <= MaxIds /\ digests' = Learn(h)
      /\ BuildEvent(t, hook.layer, hook.type, n)
      /\ UNCHANGED <<hand, traces, log>>
  BY <1>1, <1>2, <1>3 DEF CallHook
<1>5. c \in Content /\ c.relations = <<>>
  BY <1>1, HookParts, EmptySeq DEF Content, Writers
<1>6. h \in Digest /\ h.content = c
  BY <1>2, <1>5 DEF Digest
<1>7. NamesUpTo(h.content, Len(digests))
  BY <1>5, <1>6, NoneNamed
<1>8. /\ Len(digests) <= Len(digests') /\ Len(digests') <= MaxIds
      /\ digests' \in Seq(Digest) /\ n \in Ids /\ Digested'
  BY <1>3, <1>4, <1>6, <1>7, Hashing
<1>9. TraceInv'
  BY <1>4, <1>8, DigestsGrow
<1>. QED BY <1>4, <1>8, <1>9

LEMMA NextTrace == TraceInv /\ [Next]_vars => TraceInv'
<1>. SUFFICES ASSUME TraceInv, [Next]_vars PROVE TraceInv'
  OBVIOUS
<1>1. ASSUME TraceStep PROVE TraceInv'
  BY <1>1, NewTraceKeepsTraces, AddStepKeepsTraces, AddParentKeepsTraces,
     SealingKeepsTraces, StoreTraceKeepsTraces, GetTraceKeepsTraces DEF TraceStep
<1>2. ASSUME NEW t \in Tasks, NEW hook \in Hooks, CallHook(t, hook) PROVE TraceInv'
  BY <1>2, CallHookEffects
<1>3. CASE UNCHANGED <<digests, hand, traces>>
  BY <1>3 DEF TraceInv, TraceType, Digested, TracesComputed, Computed, Stored, NamesUpTo
<1>4. ASSUME NEW t \in Tasks, (\E l \in Layers : EmitOther(t, l)) \/ Push(t)
      PROVE  TraceInv'
  BY <1>3, <1>4 DEF EmitOther, Push
<1>. QED BY <1>1, <1>2, <1>3, <1>4 DEF Next, vars

-----------------------------------------------------------------------------
(* What follows for the traces *)

\* The least of some positions.
LEMMA MinProperties ==
  ASSUME NEW S \in SUBSET Nat, S # {}
  PROVE  \E x \in S : \A y \in S : x <= y
<1>. DEFINE R == {p \in Nat \X Nat : p[1] < p[2]}
<1>1. IsWellFoundedOn(R, Nat)
  BY NatLessThanWellFounded, SMT DEF OpToRel
<1>2. PICK x \in S : \A y \in S : <<y, x>> \notin R
  BY <1>1, WFMin
<1>3. ASSUME NEW y \in S PROVE x <= y
  <2>1. <<y, x>> \in R <=> y < x
    BY DEF R
  <2>2. x \in Nat /\ y \in Nat
    OBVIOUS
  <2>. QED BY <1>2, <2>1, <2>2
<1>. QED BY <1>3

\* What a trace stored under the id of its content names has a smaller id.
LEMMA NamesOlder ==
  ASSUME TraceInv, NEW id \in Stored, Fresh(traces[id]), NEW p, Names(id, p)
  PROVE  p \in Nat /\ p < id
<1>1. Computed(traces[id]) /\ traces[id].trace_id = id /\ id > 0 /\ id \in Nat
  BY StoredTrace DEF Fresh, Ids
<1>2. Len(digests) \in Nat
  BY LenProperties DEF TraceInv, TraceType
<1>3. id \in 1 .. Len(digests) /\ digests[id] = Hashed(traces[id])
  BY <1>1, <1>2 DEF Computed, Fresh
<1>4. digests[id].content = traces[id].content
  BY <1>3 DEF Hashed
<1>5. NamesUpTo(traces[id].content, id - 1)
  BY <1>3, <1>4 DEF TraceInv, Digested
<1>6. p \in 1 .. id - 1
  BY <1>5 DEF Names, NamesUpTo
<1>. QED BY <1>1, <1>6

LEMMA AncestryOfFresh == TraceInv => FreshAncestryAcyclic
<1>. SUFFICES ASSUME TraceInv,
                     NEW S \in SUBSET {id \in Stored : Fresh(traces[id])}, S # {}
              PROVE  \E id \in S : \A p \in S : ~Names(id, p)
  BY DEF FreshAncestryAcyclic
<1>1. S \in SUBSET Nat
  BY StoredTrace DEF Ids
<1>2. PICK x \in S : \A y \in S : x <= y
  BY <1>1, MinProperties
<1>3. ASSUME NEW p \in S, Names(x, p) PROVE FALSE
  <2>1. p < x
    BY <1>3, NamesOlder
  <2>2. x <= p /\ p \in Nat /\ x \in Nat
    BY <1>1, <1>2
  <2>. QED BY <2>1, <2>2
<1>. QED BY <1>3

LEMMA ContentOfId == TraceInv => IdNamesContent
<1>. SUFFICES ASSUME TraceInv,
                     NEW t \in {hand[a] : a \in Agents}
                                 \cup ({traces[id] : id \in Ids} \ {None}), Fresh(t),
                     NEW u \in {hand[a] : a \in Agents}
                                 \cup ({traces[id] : id \in Ids} \ {None}), Fresh(u)
              PROVE  t.content = u.content <=> t.trace_id = u.trace_id
  BY DEF IdNamesContent
<1>1. \A id \in Ids : traces[id] # None => id \in Stored
  BY DEF Stored
<1>2. Computed(t) /\ Computed(u)
  BY <1>1 DEF TraceInv, TracesComputed
<1>3. Len(digests) \in Nat
  BY LenProperties DEF TraceInv, TraceType
<1>4. /\ t.trace_id \in 1 .. Len(digests) /\ digests[t.trace_id] = Hashed(t)
      /\ u.trace_id \in 1 .. Len(digests) /\ digests[u.trace_id] = Hashed(u)
  BY <1>2, <1>3 DEF Computed, Fresh
<1>5. t.content = u.content <=> Hashed(t) = Hashed(u)
  BY DEF Hashed
<1>6. \A i, j \in 1 .. Len(digests) : digests[i] = digests[j] => i = j
  BY DEF TraceInv, Digested
<1>. QED BY <1>4, <1>5, <1>6

-----------------------------------------------------------------------------
(* Recursive functions *)

\* Induction over the naturals, as a fact about sets.
LEMMA SetInduction ==
  ASSUME NEW S \in SUBSET Nat, 0 \in S, \A n \in S : n + 1 \in S
  PROVE  S = Nat
<1>. DEFINE T == Nat \ S
<1>1. SUFFICES ASSUME T # {} PROVE FALSE
  OBVIOUS
<1>2. PICK x \in T : \A y \in T : x <= y
  <2>. HIDE DEF T
  <2>1. T \in SUBSET Nat
    BY DEF T
  <2>. QED BY <1>1, <2>1, MinProperties
<1>3. x \in Nat /\ x # 0
  OBVIOUS
<1>4. x - 1 \in Nat /\ (x - 1) + 1 = x /\ ~(x <= x - 1)
  BY <1>3
<1>5. x - 1 \in S
  BY <1>2, <1>4
<1>. QED BY <1>4, <1>5

\* A function of the first naturals may be defined by its first value and a
\* step, given as a function, from each value to the next.
Iterated(W, a, G, m) ==
  \E f \in [0 .. m -> W] :
    f[0] = a /\ \A n \in 1 .. m : f[n] = G[<<n, f[n - 1]>>]

LEMMA RecursionExists ==
  ASSUME NEW W, NEW a \in W, NEW G \in [Nat \X W -> W], NEW m \in Nat
  PROVE  Iterated(W, a, G, m)
<1>. DEFINE Defines(f, k) ==
              f[0] = a /\ \A n \in 1 .. k : f[n] = G[<<n, f[n - 1]>>]
            S == {k \in Nat : \E f \in [0 .. k -> W] : Defines(f, k)}
<1>1. 0 \in S
  <2>1. [n \in 0 .. 0 |-> a] \in [0 .. 0 -> W] /\ Defines([n \in 0 .. 0 |-> a], 0)
    OBVIOUS
  <2>. QED BY <2>1
<1>2. ASSUME NEW k \in S PROVE k + 1 \in S
  <2>1. PICK f \in [0 .. k -> W] : Defines(f, k)
    OBVIOUS
  <2>. DEFINE g == [n \in 0 .. k + 1 |-> IF n = k + 1 THEN G[<<k + 1, f[k]>>] ELSE f[n]]
  <2>2. k \in Nat /\ k \in 0 .. k /\ f[k] \in W
    OBVIOUS
  <2>3. G[<<k + 1, f[k]>>] \in W
    BY <2>2
  <2>4. \A n \in 0 .. k + 1 : n # k + 1 => n \in 0 .. k
    BY <2>2
  <2>5. g \in [0 .. k + 1 -> W]
    BY <2>3, <2>4
  <2>6. g[0] = a
    BY <2>1, <2>2
  <2>7. ASSUME NEW n \in 1 .. k + 1 PROVE g[n] = G[<<n, g[n - 1]>>]
    <3>1. n \in 0 .. k + 1 /\ n - 1 \in 0 .. k + 1 /\ n - 1 # k + 1
      BY <2>2
    <3>2. g[n - 1] = f[n - 1]
      BY <3>1
    <3>3. CASE n = k + 1
      <4>1. n - 1 = k /\ g[n] = G[<<k + 1, f[k]>>]
        BY <2>2, <3>1, <3>3
      <4>. QED BY <3>2, <3>3, <4>1
    <3>4. CASE n # k + 1
      <4>1. n \in 1 .. k /\ g[n] = f[n]
        BY <2>2, <3>1, <3>4
      <4>. QED BY <2>1, <3>2, <4>1
    <3>. QED BY <3>3, <3>4
  <2>. HIDE DEF g
  <2>8. Defines(g, k + 1)
    BY <2>6, <2>7
  <2>. QED BY <2>2, <2>5, <2>8
<1>3. S = Nat
  <2>. HIDE DEF S
  <2>1. S \in SUBSET Nat
    BY DEF S
  <2>. QED BY <1>1, <1>2, <2>1, SetInduction
<1>. QED BY <1>3 DEF Iterated

\* The sequence q has p in it.
Lists(q, p) == \E i \in 1 .. Len(q) : q[i] = p

\* The ids that a list of relations names, in one sequence.
LEMMA Flattened ==
  ASSUME NEW s \in Seq(Seq(Ids))
  PROVE  /\ FlattenSeq(s) \in Seq(Ids)
         /\ \A p : Lists(FlattenSeq(s), p) <=> \E r \in 1 .. Len(s) : Lists(s[r], p)
<1>1. CASE Len(s) = 0
  <2>1. s = <<>> /\ FlattenSeq(s) = <<>>
    BY <1>1, EmptySeq DEF FlattenSeq
  <2>2. <<>> \in Seq(Ids) /\ Len(FlattenSeq(s)) = 0
    BY <2>1, EmptySeq
  <2>3. 1 .. Len(s) = {} /\ 1 .. Len(FlattenSeq(s)) = {}
    BY <1>1, <2>2
  <2>. QED BY <2>1, <2>2, <2>3 DEF Lists
<1>2. CASE Len(s) # 0
  <2>. DEFINE n == Len(s)
              W == Seq(Ids)
              Step(f) == [i \in 1 .. n |-> IF i = 1 THEN s[i] ELSE f[i - 1] \o s[i]]
              flat == CHOOSE f : f = Step(f)
              G == [x \in Nat \X W |->
                      IF x[1] + 1 \in 1 .. n THEN x[2] \o s[x[1] + 1] ELSE x[2]]
  <2>1. /\ n \in Nat /\ n # 0 /\ \A i \in 1 .. n : s[i] \in W
        /\ \A u, v \in W : u \o v \in W
    BY <1>2, LenProperties, ElementOfSeq, ConcatProperties
  <2>2. FlattenSeq(s) = flat[n]
    BY <1>2 DEF FlattenSeq
  <2>. HIDE DEF n, W
  <2>3. G \in [Nat \X W -> W]
    BY <2>1
  <2>4. PICK f \in [0 .. n - 1 -> W] :
          f[0] = s[1] /\ \A k \in 1 .. n - 1 : f[k] = G[<<k, f[k - 1]>>]
    <3>. HIDE DEF G
    <3>1. PICK m \in Nat : m = n - 1
      BY <2>1
    <3>2. PICK a \in W : a = s[1]
      BY <2>1
    <3>3. Iterated(W, a, G, m)
      BY <2>3, RecursionExists
    <3>. QED BY <3>1, <3>2, <3>3 DEF Iterated
  <2>5. \E h : h = Step(h)
    <3>. DEFINE h == [i \in 1 .. n |-> f[i - 1]]
    <3>1. ASSUME NEW i \in 1 .. n PROVE h[i] = Step(h)[i]
      <4>1. CASE i = 1
        BY <2>1, <2>4, <4>1
      <4>2. CASE i # 1
        <5>1. i - 1 \in 1 .. n - 1 /\ i - 1 \in 1 .. n /\ (i - 1) + 1 = i
              /\ i - 1 \in Nat /\ (i - 1) - 1 \in 0 .. n - 1
          BY <2>1, <4>2
        <5>2. f[i - 1] = G[<<i - 1, f[(i - 1) - 1]>>]
          BY <2>4, <5>1
        <5>3. f[(i - 1) - 1] \in W
          BY <5>1
        <5>4. G[<<i - 1, f[(i - 1) - 1]>>] = f[(i - 1) - 1] \o s[i]
          BY <5>1, <5>3
        <5>5. h[i - 1] = f[(i - 1) - 1]
          BY <5>1
        <5>. QED BY <4>2, <5>2, <5>4, <5>5
      <4>. QED BY <4>1, <4>2
    <3>2. h = [i \in 1 .. n |-> h[i]] /\ Step(h) = [i \in 1 .. n |-> Step(h)[i]]
      OBVIOUS
    <3>. QED
      <4>. HIDE DEF h, Step
      <4>. QED BY <3>1, <3>2
  <2>6. flat = Step(flat)
    <3>. HIDE DEF Step
    <3>. QED BY <2>5
  <2>. HIDE DEF flat
  <2>7. /\ flat[1] = s[1]
        /\ \A i \in 1 .. n : i # 1 => flat[i] = flat[i - 1] \o s[i]
    <3>1. \A i \in 1 .. n : Step(flat)[i] = IF i = 1 THEN s[i] ELSE flat[i - 1] \o s[i]
      OBVIOUS
    <3>2. 1 \in 1 .. n
      BY <2>1
    <3>. HIDE DEF Step
    <3>. QED BY <2>6, <3>1, <3>2
  <2>. DEFINE Flat(k) == /\ flat[k] \in W
                         /\ \A p : Lists(flat[k], p) <=> \E r \in 1 .. k : Lists(s[r], p)
              S == {k \in Nat : k + 1 \in 1 .. n => Flat(k + 1)}
  <2>8. ASSUME NEW u \in W, NEW v \in W, NEW p
        PROVE  Lists(u \o v, p) <=> Lists(u, p) \/ Lists(v, p)
    <3>1. /\ Len(u \o v) = Len(u) + Len(v) /\ Len(u) \in Nat /\ Len(v) \in Nat
          /\ \A i \in 1 .. Len(u) + Len(v) :
               (u \o v)[i] = IF i <= Len(u) THEN u[i] ELSE v[i - Len(u)]
      BY ConcatProperties, LenProperties DEF W
    <3>2. ASSUME Lists(u \o v, p) PROVE Lists(u, p) \/ Lists(v, p)
      <4>1. PICK i \in 1 .. Len(u) + Len(v) : (u \o v)[i] = p
        BY <3>1, <3>2 DEF Lists
      <4>2. CASE i <= Len(u)
        BY <3>1, <4>1, <4>2 DEF Lists
      <4>3. CASE ~(i <= Len(u))
        <5>1. i - Len(u) \in 1 .. Len(v)
          BY <3>1, <4>3
        <5>. QED BY <3>1, <4>1, <4>3, <5>1 DEF Lists
      <4>. QED BY <4>2, <4>3
    <3>3. ASSUME Lists(u, p) PROVE Lists(u \o v, p)
      <4>1. PICK i \in 1 .. Len(u) : u[i] = p
        BY <3>3 DEF Lists
      <4>2. i \in 1 .. Len(u) + Len(v) /\ i <= Len(u)
        BY <3>1
      <4>. QED BY <3>1, <4>1, <4>2 DEF Lists
    <3>4. ASSUME Lists(v, p) PROVE Lists(u \o v, p)
      <4>1. PICK i \in 1 .. Len(v) : v[i] = p
        BY <3>4 DEF Lists
      <4>2. /\ i + Len(u) \in 1 .. Len(u) + Len(v) /\ ~(i + Len(u) <= Len(u))
            /\ (i + Len(u)) - Len(u) = i
        BY <3>1
      <4>3. (u \o v)[i + Len(u)] = p
        BY <3>1, <4>1, <4>2
      <4>. QED BY <3>1, <4>2, <4>3 DEF Lists
    <3>. QED BY <3>2, <3>3, <3>4
  <2>9. 0 \in S
    <3>1. Flat(1)
      BY <2>1, <2>7
    <3>. QED BY <3>1
  <2>10. ASSUME NEW k \in S PROVE k + 1 \in S
    <3>1. k \in Nat
      OBVIOUS
    <3>2. ASSUME (k + 1) + 1 \in 1 .. n PROVE Flat((k + 1) + 1)
      <4>1. /\ k + 1 \in 1 .. n /\ ((k + 1) + 1) - 1 = k + 1 /\ (k + 1) + 1 # 1
            /\ 1 .. (k + 1) + 1 = (1 .. k + 1) \cup {(k + 1) + 1}
        BY <2>1, <3>1, <3>2
      <4>2. Flat(k + 1)
        BY <4>1
      <4>3. flat[(k + 1) + 1] = flat[k + 1] \o s[(k + 1) + 1]
        BY <2>7, <3>2, <4>1
      <4>4. s[(k + 1) + 1] \in W
        BY <2>1, <3>2
      <4>5. flat[(k + 1) + 1] \in W
        BY <2>1, <4>2, <4>3, <4>4
      <4>6. \A p : Lists(flat[(k + 1) + 1], p)
                     <=> Lists(flat[k + 1], p) \/ Lists(s[(k + 1) + 1], p)
        BY <2>8, <4>2, <4>3, <4>4
      <4>7. \A p : (\E r \in 1 .. (k + 1) + 1 : Lists(s[r], p))
                     <=> (\E r \in 1 .. k + 1 : Lists(s[r], p)) \/ Lists(s[(k + 1) + 1], p)
        BY <4>1
      <4>. QED BY <4>2, <4>5, <4>6, <4>7
    <3>. QED BY <3>1, <3>2
  <2>11. S = Nat
    <3>. HIDE DEF S
    <3>1. S \in SUBSET Nat
      BY DEF S
    <3>. QED BY <2>9, <2>10, <3>1, SetInduction
  <2>12. Flat(n)
    <3>1. n - 1 \in Nat /\ (n - 1) + 1 = n /\ n \in 1 .. n
      BY <2>1
    <3>2. n - 1 \in S
      <4>. HIDE DEF S
      <4>. QED BY <2>11, <3>1
    <3>3. (n - 1) + 1 \in 1 .. n => Flat((n - 1) + 1)
      BY <3>2
    <3>. HIDE DEF Flat
    <3>. QED BY <3>1, <3>3
  <2>. QED BY <2>2, <2>12 DEF n, W
<1>. QED BY <1>1, <1>2

-----------------------------------------------------------------------------
(* What has_cycles finds *)

\* A state of the walk.
Walk == [cycle : BOOLEAN, visited : SUBSET Ids, todo : Seq(Ids)]
WalkStep(w) == IF w.cycle \/ w.todo = <<>> THEN w ELSE Visit(w)

\* Each id on the way was named: the root by the caller, as if at place 0, the
\* others at the place where the trace that was visited before names them.
Places(root, ids) == {<<root, 0>>} \cup Namings(ids)
At(root, e) == IF e[2] = 0 THEN root ELSE Named(e)

\* The places that label the ids still to be visited; those of the visited
\* traces that are no label any more.
Labels(root, w, label) ==
  /\ label \in [1 .. Len(w.todo) -> Places(root, w.visited)]
  /\ \A j \in 1 .. Len(w.todo) : At(root, label[j]) = w.todo[j]
  /\ \A i, j \in 1 .. Len(w.todo) : label[i] = label[j] => i = j
Used(root, w, label) ==
  {e \in Places(root, w.visited) : \A j \in 1 .. Len(w.todo) : label[j] # e}

\* As long as no id was met twice, each visited id was met at one used place.
Passed(root, w) ==
  /\ w.visited \subseteq Reach(root)
  /\ \E label :
       /\ Labels(root, w, label)
       /\ \A e \in Used(root, w, label) : At(root, e) \in w.visited
       /\ \A e, f \in Used(root, w, label) : At(root, e) = At(root, f) => e = f
       /\ \A v \in w.visited : \E e \in Used(root, w, label) : At(root, e) = v

\* The names a stored trace has, in the sequence in which they are visited.
LEMMA ParentsNamed ==
  ASSUME TraceInv, NEW id \in Stored
  PROVE  /\ id \in Ids /\ Parents(id) \in Seq(Ids) /\ Len(Parents(id)) \in Nat
         /\ DOMAIN Parents(id) = 1 .. Len(Parents(id))
         /\ \A i \in 1 .. Len(Parents(id)) : Parents(id)[i] \in Ids
         /\ \A p : Names(id, p) <=> Lists(Parents(id), p)
<1>. DEFINE rel == traces[id].content.relations
<1>1. id \in Ids /\ rel \in Seq(Seq(Ids))
  BY StoredTrace, TraceParts
<1>. HIDE DEF rel
<1>2. Parents(id) \in Seq(Ids) /\ Parents(id) = FlattenSeq(rel)
  BY <1>1, Flattened DEF Parents, rel
<1>3. \A r \in 1 .. Len(rel) : rel[r] \in Seq(Ids) /\ DOMAIN rel[r] = 1 .. Len(rel[r])
  BY <1>1, ElementOfSeq, LenProperties
<1>4. \A p : Names(id, p) <=> \E r \in 1 .. Len(rel) : Lists(rel[r], p)
  BY <1>3 DEF Names, Lists, rel
<1>5. \A p : Lists(Parents(id), p) <=> \E r \in 1 .. Len(rel) : Lists(rel[r], p)
  BY <1>1, <1>2, Flattened
<1>6. Len(Parents(id)) \in Nat /\ DOMAIN Parents(id) = 1 .. Len(Parents(id))
      /\ \A i \in 1 .. Len(Parents(id)) : Parents(id)[i] \in Ids
  BY <1>2, LenProperties, ElementOfSeq
<1>. QED BY <1>1, <1>2, <1>4, <1>5, <1>6

\* Namings, by their two parts.
LEMMA NamingParts ==
  ASSUME TraceInv, NEW ids
  PROVE  /\ \A e \in Namings(ids) :
              /\ e[1] \in ids \cap Stored /\ e[2] \in 1 .. Len(Parents(e[1]))
              /\ e = <<e[1], e[2]>> /\ e[2] # 0
              /\ Named(e) \in Ids /\ Names(e[1], Named(e))
         /\ \A id \in ids \cap Stored : \A i \in 1 .. Len(Parents(id)) :
              <<id, i>> \in Namings(ids) /\ Named(<<id, i>>) = Parents(id)[i]
<1>1. ASSUME NEW e \in Namings(ids)
      PROVE  /\ e[1] \in ids \cap Stored /\ e[2] \in 1 .. Len(Parents(e[1]))
             /\ e = <<e[1], e[2]>> /\ e[2] # 0
             /\ Named(e) \in Ids /\ Names(e[1], Named(e))
  <2>1. PICK id \in ids \cap Stored : \E i \in DOMAIN Parents(id) : e = <<id, i>>
    BY DEF Namings
  <2>2. PICK i \in DOMAIN Parents(id) : e = <<id, i>>
    BY <2>1
  <2>3. e[1] = id /\ e[2] = i /\ e = <<e[1], e[2]>>
    BY <2>2
  <2>4. i \in 1 .. Len(Parents(id)) /\ i # 0 /\ Parents(id)[i] \in Ids
        /\ Names(id, Parents(id)[i])
    BY ParentsNamed DEF Lists
  <2>. QED BY <2>3, <2>4 DEF Named
<1>2. ASSUME NEW id \in ids \cap Stored, NEW i \in 1 .. Len(Parents(id))
      PROVE  <<id, i>> \in Namings(ids) /\ Named(<<id, i>>) = Parents(id)[i]
  BY ParentsNamed DEF Namings, Named
<1>. QED BY <1>1, <1>2

\* The ids that can be reached are closed, and have those of the root's places.
LEMMA ReachClosed ==
  ASSUME NEW root \in Ids
  PROVE  /\ Reach(root) \subseteq Ids /\ root \in Reach(root)
         /\ \A id \in Reach(root) \cap Stored : \A p \in Ids :
              Names(id, p) => p \in Reach(root)
         /\ \A S \in SUBSET Ids : root \in S /\ Closed(S) => Reach(root) \subseteq S
<1>1. Reach(root) \subseteq Ids /\ root \in Reach(root)
  BY DEF Reach
<1>2. ASSUME NEW id \in Reach(root) \cap Stored, NEW p \in Ids, Names(id, p)
      PROVE  p \in Reach(root)
  BY <1>2 DEF Reach, Closed
<1>3. \A S \in SUBSET Ids : root \in S /\ Closed(S) => Reach(root) \subseteq S
  BY DEF Reach
<1>. QED BY <1>1, <1>2, <1>3

LEMMA PlacesReached ==
  ASSUME TraceInv, NEW root \in Ids, NEW V, V \subseteq Reach(root),
         NEW e \in Places(root, V)
  PROVE  At(root, e) \in Reach(root)
<1>1. CASE e = <<root, 0>>
  BY <1>1, ReachClosed DEF At
<1>2. CASE e \in Namings(V)
  <2>1. /\ e[1] \in Reach(root) \cap Stored /\ e[2] # 0
        /\ Named(e) \in Ids /\ Names(e[1], Named(e))
    BY <1>2, NamingParts
  <2>. QED BY <2>1, ReachClosed DEF At
<1>. QED BY <1>1, <1>2 DEF Places

\* What Visit does to an id it meets for the first time.
LEMMA FirstVisit ==
  ASSUME TraceInv, NEW w \in Walk, w.todo # <<>>, Head(w.todo) \notin w.visited
  PROVE  LET id == Head(w.todo)
             k == IF id \in Stored THEN Len(Parents(id)) ELSE 0
         IN  /\ id \in Ids /\ k \in Nat /\ Len(w.todo) \in Nat \ {0}
             /\ id = w.todo[1]
             /\ Visit(w) \in Walk /\ Visit(w).cycle = FALSE
             /\ Visit(w).visited = w.visited \cup {id}
             /\ Len(Visit(w).todo) = k + (Len(w.todo) - 1)
             /\ \A j \in 1 .. k : Visit(w).todo[j] = Parents(id)[j]
             /\ \A j \in 1 .. Len(w.todo) - 1 : Visit(w).todo[k + j] = w.todo[j + 1]
<1>. DEFINE id == Head(w.todo)
            P == IF id \in Stored THEN Parents(id) ELSE <<>>
            k == IF id \in Stored THEN Len(Parents(id)) ELSE 0
            t == Tail(w.todo)
<1>1. w.todo \in Seq(Ids) /\ w.visited \in SUBSET Ids
  BY DEF Walk
<1>2. /\ id \in Ids /\ id = w.todo[1] /\ t \in Seq(Ids)
      /\ Len(w.todo) \in Nat \ {0} /\ Len(t) = Len(w.todo) - 1
      /\ \A j \in 1 .. Len(w.todo) - 1 : t[j] = w.todo[j + 1]
  BY <1>1, HeadTailProperties, EmptySeq, LenProperties
<1>3. P \in Seq(Ids) /\ k \in Nat /\ Len(P) = k
      /\ \A j \in 1 .. k : P[j] = Parents(id)[j]
  BY ParentsNamed, EmptySeq
<1>4. Visit(w) = [cycle |-> FALSE, visited |-> w.visited \cup {id}, todo |-> P \o t]
  BY DEF Visit
<1>. HIDE DEF id, P, k, t
<1>5. /\ P \o t \in Seq(Ids) /\ Len(P \o t) = k + (Len(w.todo) - 1)
      /\ \A j \in 1 .. k + (Len(w.todo) - 1) :
           (P \o t)[j] = IF j <= k THEN P[j] ELSE t[j - k]
  <2>1. P \in Seq(Ids) /\ t \in Seq(Ids)
    BY <1>2, <1>3
  <2>2. /\ P \o t \in Seq(Ids) /\ Len(P \o t) = Len(P) + Len(t)
        /\ \A j \in 1 .. Len(P) + Len(t) :
             (P \o t)[j] = IF j <= Len(P) THEN P[j] ELSE t[j - Len(P)]
    BY <2>1, ConcatProperties
  <2>. QED BY <1>2, <1>3, <2>2
<1>6. \A j \in 1 .. k : (P \o t)[j] = P[j]
  BY <1>2, <1>3, <1>5
<1>7. ASSUME NEW j \in 1 .. Len(w.todo) - 1 PROVE (P \o t)[k + j] = w.todo[j + 1]
  <2>1. k + j \in 1 .. k + (Len(w.todo) - 1) /\ ~(k + j <= k) /\ (k + j) - k = j
    BY <1>2, <1>3
  <2>. QED BY <1>2, <1>5, <2>1
<1>8. Visit(w) \in Walk
  BY <1>1, <1>2, <1>4, <1>5 DEF Walk
<1>9. /\ Visit(w).cycle = FALSE /\ Visit(w).visited = w.visited \cup {id}
      /\ Visit(w).todo = P \o t
  BY <1>4
<1>10. /\ Len(Visit(w).todo) = k + (Len(w.todo) - 1)
       /\ \A j \in 1 .. k : Visit(w).todo[j] = Parents(id)[j]
       /\ \A j \in 1 .. Len(w.todo) - 1 : Visit(w).todo[k + j] = w.todo[j + 1]
  BY <1>3, <1>5, <1>6, <1>7, <1>9
<1>. QED BY <1>2, <1>3, <1>8, <1>9, <1>10 DEF id, k

\* The walk starts at the root, which nobody was met before.
LEMMA StartPassed ==
  ASSUME TraceInv, NEW root \in Ids,
         NEW w, w = [cycle |-> FALSE, visited |-> {}, todo |-> <<root>>]
  PROVE  w \in Walk /\ Passed(root, w)
<1>. DEFINE label == [j \in 1 .. 1 |-> <<root, 0>>]
<1>1. w.visited = {} /\ w.todo = <<root>> /\ Len(w.todo) = 1 /\ w.todo[1] = root
  OBVIOUS
<1>2. w \in Walk
  BY DEF Walk
<1>3. Places(root, {}) = {<<root, 0>>}
  BY DEF Places, Namings
<1>4. Labels(root, w, label)
  BY <1>1, <1>3 DEF Labels, At
<1>5. Used(root, w, label) = {}
  BY <1>1, <1>3 DEF Used
<1>. HIDE DEF label
<1>. QED BY <1>1, <1>2, <1>4, <1>5 DEF Passed

\* An id that is met for the first time is used up, its parents are new places.
LEMMA VisitPassed ==
  ASSUME TraceInv, NEW root \in Ids, NEW w \in Walk, Passed(root, w),
         w.todo # <<>>, Head(w.todo) \notin w.visited
  PROVE  Passed(root, Visit(w))
<1>. DEFINE id == Head(w.todo)
            k == IF id \in Stored THEN Len(Parents(id)) ELSE 0
            n == Len(w.todo)
            V == w.visited
            u == Visit(w)
<1>1. /\ id \in Ids /\ k \in Nat /\ n \in Nat \ {0} /\ id = w.todo[1]
      /\ u.visited = V \cup {id} /\ Len(u.todo) = k + (n - 1)
      /\ \A j \in 1 .. k : u.todo[j] = Parents(id)[j]
      /\ \A j \in 1 .. n - 1 : u.todo[k + j] = w.todo[j + 1]
  BY FirstVisit
<1>2. PICK label :
        /\ Labels(root, w, label)
        /\ \A e \in Used(root, w, label) : At(root, e) \in V
        /\ \A e, f \in Used(root, w, label) : At(root, e) = At(root, f) => e = f
        /\ \A v \in V : \E e \in Used(root, w, label) : At(root, e) = v
  BY DEF Passed
<1>3. /\ label \in [1 .. n -> Places(root, V)]
      /\ \A j \in 1 .. n : At(root, label[j]) = w.todo[j]
      /\ \A i, j \in 1 .. n : label[i] = label[j] => i = j
  BY <1>2 DEF Labels
<1>. DEFINE new == [j \in 1 .. k + (n - 1) |->
                      IF j <= k THEN <<id, j>> ELSE label[(j - k) + 1]]
            added == {<<id, i>> : i \in 1 .. k}
<1>4. id \notin V /\ (k # 0 => id \in Stored) /\ (id \in Stored => k = Len(Parents(id)))
  BY <1>1
<1>5. V \subseteq Reach(root)
  BY DEF Passed
<1>. HIDE DEF id, k, n, V, u
<1>6. Places(root, u.visited) = Places(root, V) \cup added
  <2>1. ASSUME NEW e \in Namings(V \cup {id}) PROVE e \in Namings(V) \cup added
    <3>1. /\ e[1] \in (V \cup {id}) \cap Stored /\ e[2] \in 1 .. Len(Parents(e[1]))
          /\ e = <<e[1], e[2]>>
      BY NamingParts
    <3>2. CASE e[1] \in V
      <4>1. e[1] \in V \cap Stored
        BY <3>1, <3>2
      <4>2. <<e[1], e[2]>> \in Namings(V)
        BY <3>1, <4>1, NamingParts
      <4>. QED BY <3>1, <4>2
    <3>3. CASE e[1] = id
      <4>1. e[2] \in 1 .. k
        BY <1>4, <3>1, <3>3
      <4>. QED BY <3>1, <3>3, <4>1
    <3>. QED BY <3>1, <3>2, <3>3
  <2>2. ASSUME NEW e \in Namings(V) PROVE e \in Namings(V \cup {id})
    <3>1. /\ e[1] \in (V \cup {id}) \cap Stored /\ e[2] \in 1 .. Len(Parents(e[1]))
          /\ e = <<e[1], e[2]>>
      BY NamingParts
    <3>2. <<e[1], e[2]>> \in Namings(V \cup {id})
      BY <3>1, NamingParts
    <3>. QED BY <3>1, <3>2
  <2>3. ASSUME NEW i \in 1 .. k PROVE <<id, i>> \in Namings(V \cup {id})
    <3>1. id \in (V \cup {id}) \cap Stored /\ i \in 1 .. Len(Parents(id))
      BY <1>1, <1>4
    <3>. QED BY <3>1, NamingParts
  <2>4. Namings(V \cup {id}) = Namings(V) \cup added
    BY <2>1, <2>2, <2>3
  <2>5. u.visited = V \cup {id}
    BY <1>1
  <2>. HIDE DEF added
  <2>. QED BY <2>4, <2>5 DEF Places
<1>7. ASSUME NEW i \in 1 .. k
      PROVE  <<id, i>> \notin Places(root, V) /\ At(root, <<id, i>>) = Parents(id)[i]
  <2>1. i # 0 /\ id \in {id} \cap Stored /\ i \in 1 .. Len(Parents(id))
    BY <1>1, <1>4
  <2>2. <<id, i>> \notin Namings(V)
    <3>1. SUFFICES ASSUME <<id, i>> \in Namings(V) PROVE FALSE
      OBVIOUS
    <3>2. <<id, i>>[1] \in V
      BY <3>1, NamingParts
    <3>. QED BY <1>4, <3>2
  <2>3. Named(<<id, i>>) = Parents(id)[i]
    BY <2>1, NamingParts
  <2>. QED BY <2>1, <2>2, <2>3 DEF Places, At
\* what the new labels are
<1>8. ASSUME NEW j \in 1 .. k + (n - 1)
      PROVE  \/ j \in 1 .. k /\ new[j] = <<id, j>>
             \/ /\ (j - k) + 1 \in 2 .. n /\ new[j] = label[(j - k) + 1]
                /\ u.todo[j] = w.todo[(j - k) + 1]
  <2>1. CASE j <= k
    BY <1>1, <2>1
  <2>2. CASE ~(j <= k)
    <3>1. /\ j - k \in 1 .. n - 1 /\ k + (j - k) = j /\ (j - k) + 1 \in 2 .. n
      BY <1>1, <2>2
    <3>2. u.todo[k + (j - k)] = w.todo[(j - k) + 1]
      BY <1>1, <3>1
    <3>. QED BY <2>2, <3>1, <3>2
  <2>. QED BY <2>1, <2>2
<1>9. ASSUME NEW j \in 2 .. n
      PROVE  k + (j - 1) \in 1 .. k + (n - 1) /\ new[k + (j - 1)] = label[j]
  <2>1. /\ k + (j - 1) \in 1 .. k + (n - 1) /\ ~(k + (j - 1) <= k)
        /\ ((k + (j - 1)) - k) + 1 = j
    BY <1>1
  <2>. QED BY <2>1
<1>10. ASSUME NEW i \in 1 .. k PROVE i \in 1 .. k + (n - 1) /\ new[i] = <<id, i>>
  BY <1>1
<1>11. 2 .. n \subseteq 1 .. n /\ 1 \in 1 .. n /\ ~(1 \in 2 .. n)
       /\ \A j \in 1 .. n : j = 1 \/ j \in 2 .. n
  BY <1>1
<1>12. Labels(root, u, new)
  <2>1. new \in [1 .. k + (n - 1) -> Places(root, u.visited)]
    <3>1. ASSUME NEW j \in 1 .. k + (n - 1) PROVE new[j] \in Places(root, u.visited)
      <4>1. CASE j \in 1 .. k /\ new[j] = <<id, j>>
        BY <1>6, <4>1
      <4>2. CASE (j - k) + 1 \in 2 .. n /\ new[j] = label[(j - k) + 1]
        <5>1. label[(j - k) + 1] \in Places(root, V)
          BY <1>3, <1>11, <4>2
        <5>. QED BY <1>6, <4>2, <5>1
      <4>. HIDE DEF new
      <4>. QED BY <1>8, <4>1, <4>2
    <3>2. new = [j \in 1 .. k + (n - 1) |-> new[j]]
      OBVIOUS
    <3>. HIDE DEF new
    <3>. QED BY <3>1, <3>2
  <2>2. ASSUME NEW j \in 1 .. k + (n - 1) PROVE At(root, new[j]) = u.todo[j]
    <3>. HIDE DEF new
    <3>1. CASE j \in 1 .. k /\ new[j] = <<id, j>>
      BY <1>1, <1>7, <3>1
    <3>2. CASE /\ (j - k) + 1 \in 2 .. n /\ new[j] = label[(j - k) + 1]
               /\ u.todo[j] = w.todo[(j - k) + 1]
      BY <1>3, <1>11, <3>2
    <3>. QED BY <1>8, <3>1, <3>2
  <2>3. ASSUME NEW i \in 1 .. k + (n - 1), NEW j \in 1 .. k + (n - 1), new[i] = new[j]
        PROVE  i = j
    <3>. HIDE DEF new
    <3>0. \A m \in 2 .. n : label[m] \in Places(root, V)
      BY <1>3, <1>11
    <3>1. CASE i \in 1 .. k /\ new[i] = <<id, i>>
      <4>1. j \in 1 .. k /\ new[j] = <<id, j>>
        BY <1>7, <1>8, <2>3, <3>0, <3>1
      <4>2. <<id, i>>[2] = <<id, j>>[2]
        BY <2>3, <3>1, <4>1
      <4>. QED BY <4>2
    <3>2. CASE (i - k) + 1 \in 2 .. n /\ new[i] = label[(i - k) + 1]
      <4>1. (j - k) + 1 \in 2 .. n /\ new[j] = label[(j - k) + 1]
        BY <1>7, <1>8, <2>3, <3>0, <3>2
      <4>2. (i - k) + 1 = (j - k) + 1
        BY <1>3, <1>11, <2>3, <3>2, <4>1
      <4>. QED BY <1>1, <4>2
    <3>. QED BY <1>8, <3>1, <3>2
  <2>. HIDE DEF new
  <2>. QED BY <1>1, <2>1, <2>2, <2>3 DEF Labels
<1>. HIDE DEF new
\* the place at which the id was met is used, the others are as before
<1>13. ASSUME NEW e \in Used(root, u, new)
       PROVE  e \in Used(root, w, label) \/ e = label[1]
  <2>1. e \in Places(root, u.visited) /\ \A j \in 1 .. k + (n - 1) : new[j] # e
    BY <1>1 DEF Used
  <2>2. e \notin added
    BY <1>10, <2>1
  <2>3. e \in Places(root, V)
    BY <1>6, <2>1, <2>2
  <2>4. \A j \in 2 .. n : label[j] # e
    BY <1>9, <2>1
  <2>5. e # label[1] => \A j \in 1 .. n : label[j] # e
    BY <1>11, <2>4
  <2>. QED BY <2>3, <2>5 DEF Used, n, V
<1>14. ASSUME NEW e \in Places(root, V), \A j \in 2 .. n : label[j] # e
       PROVE  e \in Used(root, u, new)
  <2>1. ASSUME NEW j \in 1 .. k + (n - 1) PROVE new[j] # e
    <3>1. CASE j \in 1 .. k /\ new[j] = <<id, j>>
      BY <1>7, <3>1
    <3>2. CASE (j - k) + 1 \in 2 .. n /\ new[j] = label[(j - k) + 1]
      BY <1>14, <3>2
    <3>. QED BY <1>8, <3>1, <3>2
  <2>. QED BY <1>1, <1>6, <2>1 DEF Used
<1>15. ASSUME NEW e \in Used(root, w, label) PROVE e \in Used(root, u, new)
  <2>1. e \in Places(root, V) /\ \A j \in 1 .. n : label[j] # e
    BY DEF Used, V, n
  <2>. QED BY <1>11, <1>14, <2>1
<1>16. label[1] \in Used(root, u, new) /\ At(root, label[1]) = id
  <2>1. label[1] \in Places(root, V) /\ \A j \in 2 .. n : label[j] # label[1]
    BY <1>3, <1>11
  <2>. QED BY <1>1, <1>3, <1>11, <1>14, <2>1
<1>17. id \in Reach(root)
  <2>1. label[1] \in Places(root, V)
    BY <1>3, <1>11
  <2>. QED BY <1>5, <1>16, <2>1, PlacesReached
<1>18. \A e \in Used(root, u, new) : At(root, e) \in u.visited
  BY <1>1, <1>2, <1>13, <1>16
<1>19. ASSUME NEW e \in Used(root, u, new), NEW f \in Used(root, u, new),
              At(root, e) = At(root, f)
       PROVE  e = f
  BY <1>2, <1>4, <1>13, <1>16, <1>19
<1>20. \A v \in u.visited : \E e \in Used(root, u, new) : At(root, e) = v
  BY <1>1, <1>2, <1>15, <1>16
<1>21. u.visited \subseteq Reach(root)
  BY <1>1, <1>5, <1>17
<1>. QED BY <1>12, <1>18, <1>19, <1>20, <1>21 DEF Passed, u

\* A walk that ends without meeting an id twice has met all that can be
\* reached, each where it is named.
LEMMA EndIsTree ==
  ASSUME TraceInv, NEW root \in Ids, NEW w \in Walk, Passed(root, w), w.todo = <<>>
  PROVE  IsTree(root)
<1>. DEFINE V == w.visited
<1>1. PICK label :
        /\ Labels(root, w, label)
        /\ \A e \in Used(root, w, label) : At(root, e) \in V
        /\ \A e, f \in Used(root, w, label) : At(root, e) = At(root, f) => e = f
        /\ \A v \in V : \E e \in Used(root, w, label) : At(root, e) = v
  BY DEF Passed
<1>2. V \subseteq Reach(root) /\ V \subseteq Ids
  BY DEF Passed, Walk
<1>. HIDE DEF V
<1>3. Used(root, w, label) = Places(root, V)
  <2>1. 1 .. Len(w.todo) = {}
    OBVIOUS
  <2>. QED BY <2>1 DEF Used, V
<1>4. <<root, 0>> \in Places(root, V) /\ At(root, <<root, 0>>) = root
  BY DEF Places, At
<1>5. root \in V
  BY <1>1, <1>3, <1>4
<1>6. \A e \in Namings(V) : /\ e \in Places(root, V) /\ At(root, e) = Named(e)
                            /\ e # <<root, 0>>
  <2>1. ASSUME NEW e \in Namings(V) PROVE e[2] # 0
    BY NamingParts
  <2>2. <<root, 0>>[2] = 0
    OBVIOUS
  <2>. QED BY <2>1, <2>2 DEF Places, At
<1>7. Closed(V)
  <2>1. SUFFICES ASSUME NEW id \in V \cap Stored, NEW p \in Ids, Names(id, p)
                 PROVE  p \in V
    BY DEF Closed
  <2>2. PICK i \in 1 .. Len(Parents(id)) : Parents(id)[i] = p
    BY <2>1, ParentsNamed DEF Lists
  <2>3. <<id, i>> \in Namings(V) /\ Named(<<id, i>>) = p
    BY <2>2, NamingParts
  <2>. QED BY <1>1, <1>3, <1>6, <2>3
<1>8. Reach(root) = V
  BY <1>2, <1>5, <1>7, ReachClosed
<1>9. \A e \in Namings(V) : Named(e) # root
  BY <1>1, <1>3, <1>4, <1>6
<1>10. \A e, f \in Namings(V) : Named(e) = Named(f) => e = f
  BY <1>1, <1>3, <1>6
<1>. QED BY <1>8, <1>9, <1>10 DEF IsTree

\* An id that is met twice is the root and named, or it is named twice.
LEMMA TwiceIsNoTree ==
  ASSUME TraceInv, NEW root \in Ids, NEW w \in Walk, Passed(root, w),
         w.todo # <<>>, Head(w.todo) \in w.visited
  PROVE  ~IsTree(root)
<1>. DEFINE V == w.visited
<1>1. PICK label :
        /\ Labels(root, w, label)
        /\ \A v \in V : \E e \in Used(root, w, label) : At(root, e) = v
  BY DEF Passed
<1>2. 1 \in 1 .. Len(w.todo) /\ w.todo[1] = Head(w.todo)
  BY HeadTailProperties, EmptySeq, LenProperties DEF Walk
<1>3. label[1] \in Places(root, V) /\ At(root, label[1]) = Head(w.todo)
  BY <1>1, <1>2 DEF Labels
<1>4. PICK e \in Used(root, w, label) : At(root, e) = Head(w.todo)
  BY <1>1
<1>5. e \in Places(root, V) /\ e # label[1]
  BY <1>2 DEF Used
<1>6. Namings(V) \subseteq Namings(Reach(root))
  <2>1. ASSUME NEW f \in Namings(V) PROVE f \in Namings(Reach(root))
    <3>1. /\ f[1] \in Reach(root) \cap Stored /\ f[2] \in 1 .. Len(Parents(f[1]))
          /\ f = <<f[1], f[2]>>
      BY NamingParts DEF Passed
    <3>2. <<f[1], f[2]>> \in Namings(Reach(root))
      BY <3>1, NamingParts
    <3>. QED BY <3>1, <3>2
  <2>. QED BY <2>1
<1>. HIDE DEF V
<1>7. \A f \in Places(root, V) :
        \/ f = <<root, 0>> /\ At(root, f) = root
        \/ f \in Namings(Reach(root)) /\ At(root, f) = Named(f)
  <2>1. \A f \in Namings(V) : f[2] # 0
    BY NamingParts
  <2>. QED BY <1>6, <2>1 DEF Places, At
<1>. QED BY <1>3, <1>4, <1>5, <1>7 DEF IsTree

\* The function that HasCycles defines, step by step.
LEMMA WalkSteps ==
  ASSUME TraceInv, NEW root \in Ids
  PROVE  \E f \in [0 .. MaxIds + 2 -> Walk] :
           /\ f[0] = [cycle |-> FALSE, visited |-> {}, todo |-> <<root>>]
           /\ \A n \in 1 .. MaxIds + 2 : f[n] = WalkStep(f[n - 1])
           /\ HasCycles(root) <=> f[MaxIds + 2].cycle
<1>. DEFINE start == [cycle |-> FALSE, visited |-> {}, todo |-> <<root>>]
            M == MaxIds + 2
            Step(f) == [n \in 0 .. M |->
                          IF n = 0 THEN start
                          ELSE IF f[n - 1].cycle \/ f[n - 1].todo = <<>> THEN f[n - 1]
                               ELSE Visit(f[n - 1])]
            walk == CHOOSE f : f = Step(f)
            G == [x \in Nat \X Walk |-> WalkStep(x[2])]
<1>1. M \in Nat
  BY IdsBound
<1>2. start \in Walk
  BY StartPassed
<1>3. ASSUME NEW w \in Walk PROVE WalkStep(w) \in Walk
  <2>1. CASE w.cycle \/ w.todo = <<>>
    BY <2>1 DEF WalkStep
  <2>2. CASE ~(w.cycle \/ w.todo = <<>>) /\ Head(w.todo) \in w.visited
    BY <2>2 DEF WalkStep, Visit, Walk
  <2>3. CASE ~(w.cycle \/ w.todo = <<>>) /\ Head(w.todo) \notin w.visited
    BY <2>3, FirstVisit DEF WalkStep
  <2>. QED BY <2>1, <2>2, <2>3
<1>4. G \in [Nat \X Walk -> Walk]
  BY <1>3
<1>5. HasCycles(root) <=> walk[M].cycle
  BY DEF HasCycles
<1>. HIDE DEF M, start
<1>6. PICK f \in [0 .. M -> Walk] :
        f[0] = start /\ \A n \in 1 .. M : f[n] = G[<<n, f[n - 1]>>]
  <2>. HIDE DEF G
  <2>1. PICK a \in Walk : a = start
    BY <1>2
  <2>2. PICK m \in Nat : m = M
    BY <1>1
  <2>3. Iterated(Walk, a, G, m)
    BY <1>4, RecursionExists
  <2>. QED BY <2>1, <2>2, <2>3 DEF Iterated
<1>7. ASSUME NEW n \in 1 .. M
      PROVE  n - 1 \in 0 .. M /\ n # 0 /\ n \in 0 .. M /\ f[n] = WalkStep(f[n - 1])
  <2>1. n - 1 \in 0 .. M /\ n \in Nat /\ n # 0 /\ n \in 0 .. M
    BY <1>1
  <2>2. f[n - 1] \in Walk
    BY <2>1
  <2>3. G[<<n, f[n - 1]>>] = WalkStep(f[n - 1])
    BY <2>1, <2>2
  <2>. QED BY <1>6, <2>1, <2>3
<1>. HIDE DEF G
<1>8. f = Step(f)
  <2>1. ASSUME NEW n \in 0 .. M PROVE f[n] = Step(f)[n]
    <3>1. CASE n = 0
      BY <1>6, <3>1
    <3>2. CASE n # 0
      <4>1. n \in 1 .. M
        BY <3>2
      <4>. QED BY <1>7, <3>2, <4>1 DEF WalkStep
    <3>. QED BY <3>1, <3>2
  <2>2. Step(f) = [n \in 0 .. M |-> Step(f)[n]]
    OBVIOUS
  <2>3. f = [n \in 0 .. M |-> f[n]]
    OBVIOUS
  <2>. HIDE DEF Step
  <2>. QED BY <2>1, <2>2, <2>3
<1>9. walk = Step(walk)
  <2>. HIDE DEF Step
  <2>. QED BY <1>8
<1>. HIDE DEF walk
<1>10. ASSUME NEW n \in 0 .. M
       PROVE  walk[n] = IF n = 0 THEN start ELSE WalkStep(walk[n - 1])
  <2>1. Step(walk)[n] = IF n = 0 THEN start ELSE WalkStep(walk[n - 1])
    BY DEF WalkStep
  <2>. HIDE DEF Step
  <2>. QED BY <1>9, <2>1
\* the function is the one that was found
<1>11. \A n \in 0 .. M : walk[n] = f[n]
  <2>. DEFINE S == {n \in Nat : n <= M => walk[n] = f[n]}
  <2>1. 0 \in S
    BY <1>1, <1>6, <1>10
  <2>2. ASSUME NEW n \in S PROVE n + 1 \in S
    <3>1. ASSUME n + 1 <= M PROVE walk[n + 1] = f[n + 1]
      <4>1. n \in Nat /\ n <= M /\ n + 1 \in 1 .. M /\ (n + 1) - 1 = n
            /\ n + 1 \in 0 .. M /\ n + 1 # 0
        BY <1>1, <3>1
      <4>2. walk[n] = f[n]
        BY <4>1
      <4>3. walk[n + 1] = WalkStep(walk[n])
        BY <1>10, <4>1
      <4>4. f[n + 1] = WalkStep(f[n])
        BY <1>7, <4>1
      <4>. QED BY <4>2, <4>3, <4>4
    <3>. QED BY <3>1
  <2>3. S = Nat
    <3>. HIDE DEF S
    <3>1. S \in SUBSET Nat
      BY DEF S
    <3>. QED BY <2>1, <2>2, <3>1, SetInduction
  <2>4. ASSUME NEW n \in 0 .. M PROVE walk[n] = f[n]
    <3>1. n \in Nat /\ n <= M
      BY <1>1
    <3>. QED BY <2>3, <3>1
  <2>. QED BY <2>4
<1>12. HasCycles(root) <=> f[M].cycle
  <2>1. M \in 0 .. M
    BY <1>1
  <2>. QED BY <1>5, <1>11, <2>1
<1>. QED BY <1>6, <1>7, <1>12 DEF M, start

\* No walk is longer than the number of ids: it ends, and then it has found
\* that the ancestry is a tree, or that it is not.
LEMMA WalkDecides ==
  ASSUME TraceInv, NEW root \in Ids
  PROVE  HasCycles(root) <=> ~IsTree(root)
<1>. DEFINE M == MaxIds + 2
<1>1. M \in Nat /\ MaxIds \in Nat
  BY IdsBound
<1>2. PICK f \in [0 .. M -> Walk] :
        /\ f[0] = [cycle |-> FALSE, visited |-> {}, todo |-> <<root>>]
        /\ \A n \in 1 .. M : f[n] = WalkStep(f[n - 1])
        /\ HasCycles(root) <=> f[M].cycle
  BY WalkSteps
<1>. HIDE DEF M
<1>. DEFINE Underway(n) ==
              /\ Passed(root, f[n])
              /\ f[n].todo # <<>> => Cardinality(f[n].visited) = n
            Found(n) == IF f[n].cycle THEN ~IsTree(root) ELSE Underway(n)
            S == {n \in Nat : n <= M => Found(n)}
<1>3. IsFiniteSet(Ids) /\ Cardinality(Ids) = MaxIds + 1
  <2>1. IsFiniteSet(0 .. MaxIds) /\ Cardinality(0 .. MaxIds) = MaxIds - 0 + 1
    BY <1>1, FS_Interval
  <2>. QED BY <1>1, <2>1 DEF Ids
<1>4. \A n \in 0 .. M : f[n].visited \in SUBSET Ids /\ IsFiniteSet(f[n].visited)
                        /\ Cardinality(f[n].visited) <= MaxIds + 1
                        /\ f[n].cycle \in BOOLEAN
  BY <1>3, FS_Subset DEF Walk
<1>5. 0 \in S
  <2>1. 0 \in 0 .. M /\ Passed(root, f[0]) /\ f[0].cycle = FALSE /\ f[0].visited = {}
    BY <1>1, <1>2, StartPassed
  <2>2. Cardinality({}) = 0
    BY FS_EmptySet
  <2>3. Cardinality(f[0].visited) = 0
    BY <2>1, <2>2
  <2>. QED BY <2>1, <2>3
<1>6. ASSUME NEW n \in S PROVE n + 1 \in S
  <2>1. SUFFICES ASSUME n + 1 <= M PROVE Found(n + 1)
    OBVIOUS
  <2>2. n \in Nat /\ n <= M /\ n \in 0 .. M /\ n + 1 \in 1 .. M /\ (n + 1) - 1 = n
        /\ n + 1 \in 0 .. M
    BY <1>1, <2>1
  <2>3. Found(n) /\ f[n + 1] = WalkStep(f[n]) /\ f[n] \in Walk
    BY <1>2, <2>2
  <2>. HIDE DEF S
  <2>4. CASE f[n].cycle \/ f[n].todo = <<>>
    <3>1. f[n + 1] = f[n]
      BY <2>3, <2>4 DEF WalkStep
    <3>. QED BY <2>3, <2>4, <3>1
  <2>5. CASE ~f[n].cycle /\ f[n].todo # <<>> /\ Head(f[n].todo) \in f[n].visited
    <3>1. f[n + 1] = [f[n] EXCEPT !.cycle = TRUE]
      BY <2>3, <2>5 DEF WalkStep, Visit
    <3>2. f[n + 1].cycle
      BY <2>3, <3>1 DEF Walk
    <3>3. ~IsTree(root)
      BY <2>3, <2>5, TwiceIsNoTree
    <3>. QED BY <3>2, <3>3
  <2>6. CASE ~f[n].cycle /\ f[n].todo # <<>> /\ Head(f[n].todo) \notin f[n].visited
    <3>1. f[n + 1] = Visit(f[n])
      BY <2>3, <2>6 DEF WalkStep
    <3>2. Passed(root, f[n]) /\ Cardinality(f[n].visited) = n
      BY <2>3, <2>6
    <3>3. Passed(root, f[n + 1])
      BY <2>3, <2>6, <3>1, <3>2, VisitPassed
    <3>4. /\ f[n + 1].cycle = FALSE
          /\ f[n + 1].visited = f[n].visited \cup {Head(f[n].todo)}
      BY <2>3, <2>6, <3>1, FirstVisit
    <3>5. Cardinality(f[n].visited \cup {Head(f[n].todo)})
            = Cardinality(f[n].visited) + 1
      BY <1>4, <2>2, <2>6, FS_AddElement
    <3>. QED BY <3>2, <3>3, <3>4, <3>5
  <2>. QED BY <2>4, <2>5, <2>6
<1>7. S = Nat
  <2>. HIDE DEF S
  <2>1. S \in SUBSET Nat
    BY DEF S
  <2>. QED BY <1>5, <1>6, <2>1, SetInduction
<1>8. M \in 0 .. M /\ Found(M) /\ f[M] \in Walk
  BY <1>1, <1>7
<1>9. CASE f[M].cycle
  BY <1>2, <1>8, <1>9
<1>10. CASE ~f[M].cycle
  <2>1. Underway(M)
    BY <1>8, <1>10
  <2>2. f[M].todo = <<>>
    <3>1. Cardinality(f[M].visited) <= MaxIds + 1
      BY <1>4, <1>8
    <3>2. M > MaxIds + 1
      BY <1>1 DEF M
    <3>. QED BY <1>1, <2>1, <3>1, <3>2
  <2>3. IsTree(root)
    BY <1>8, <2>1, <2>2, EndIsTree
  <2>. QED BY <1>2, <1>10, <2>3
<1>. QED BY <1>9, <1>10

LEMMA CyclesFound == TraceInv => HasCyclesMeansNoTree
BY WalkDecides DEF HasCyclesMeansNoTree, Stored

-----------------------------------------------------------------------------
(* The events *)

Stamps(t, l) == {log[l][i].timestamp : i \in LoggedBy(t, l)}

\* EventsInOrder, of one task and layer.
InOrder(t, l) ==
  /\ BuiltBy(t, l) = Stamps(t, l) \cup HeldBy(t, l)
  /\ \A i \in LoggedBy(t, l) : log[l][i] = built[log[l][i].timestamp].event
  /\ \A i, j \in LoggedBy(t, l) : i < j => log[l][i].timestamp < log[l][j].timestamp
  /\ \A i \in LoggedBy(t, l), n \in HeldBy(t, l) : log[l][i].timestamp < n

LEMMA InOrderAll ==
  EventsInOrder <=> \A t \in Tasks : \A l \in Layers : InOrder(t, l)
BY DEF EventsInOrder, InOrder, Stamps

LEMMA BuiltParts ==
  ASSUME NEW b \in Built
  PROVE  /\ b.task \in Tasks /\ b.layer \in Layers /\ b.event \in Event
         /\ b.event.timestamp \in Nat /\ b # NoEvent
<1>1. b.task \in Tasks /\ b.layer \in Layers /\ b.event \in Event
  BY DEF Built
<1>2. b.event.timestamp \in Nat
  BY <1>1 DEF Event
<1>3. DOMAIN b = {"task", "layer", "event"} /\ DOMAIN NoEvent = {"type"}
  BY DEF Built, NoEvent
<1>. QED BY <1>1, <1>2, <1>3

LEMMA BuiltType ==
  ASSUME TypeOK
  PROVE  /\ built \in Seq(Built) /\ Len(built) \in Nat /\ DOMAIN built = 1 .. Len(built)
         /\ \A n \in 1 .. Len(built) : built[n] \in Built
         /\ \A l \in Layers : /\ log[l] \in Seq(Event) /\ Len(log[l]) \in Nat
                              /\ DOMAIN log[l] = 1 .. Len(log[l])
BY LenProperties, ElementOfSeq DEF TypeOK

\* Of each layer and type the event is one of the protocol's.
LEMMA EventParts ==
  ASSUME NEW type \in Types, NEW l \in Layers, NEW id \in Ids, NEW n \in Nat
  PROVE  [type |-> type, partition |-> Partition(type, AgentOf[l]),
          trace_id |-> id, timestamp |-> n] \in Event
<1>1. AgentOf[l] \in {"kernel_001", "policy_001"}
  BY DEF Layers, AgentOf
<1>2. Partition(type, AgentOf[l]) \in
        {"kernel_001", "policy_001", "queries", "challenges", "compositions"}
  BY <1>1 DEF Types, Partition
<1>. QED BY <1>2 DEF Event

LEMMA InitEvent == Init => EventInv
<1>. SUFFICES ASSUME Init PROVE EventInv
  OBVIOUS
<1>1. /\ \A l \in Layers : log[l] = <<>> /\ Len(log[l]) = 0
      /\ built = <<>> /\ Len(built) = 0
      /\ \A t \in Tasks : pending[t] = NoEvent
  BY DEF Init
<1>2. TypeOK
  <2>1. TraceType
    BY InitTrace DEF TraceInv
  <2>2. log \in [Layers -> Seq(Event)] /\ built \in Seq(Built)
    BY EmptySeq DEF Init
  <2>3. pending \in [Tasks -> Built \cup {NoEvent}]
    BY DEF Init
  <2>. QED BY <2>1, <2>2, <2>3 DEF TypeOK
<1>3. BuiltStamps /\ HeldIsBuilt /\ LoggedIsBuilt
  BY <1>1 DEF BuiltStamps, HeldIsBuilt, LoggedIsBuilt
<1>4. ASSUME NEW t \in Tasks, NEW l \in Layers PROVE InOrder(t, l)
  <2>1. BuiltBy(t, l) = {} /\ LoggedBy(t, l) = {} /\ HeldBy(t, l) = {}
    BY <1>1 DEF BuiltBy, LoggedBy, HeldBy
  <2>. QED BY <2>1 DEF InOrder, Stamps
<1>. QED BY <1>2, <1>3, <1>4, InOrderAll DEF EventInv

\* An event more that was built, and is held by the task that built it.
LEMMA BuildEventEffects ==
  ASSUME EventInv, NEW t \in Tasks, NEW l \in Layers, NEW type \in Types,
         NEW id \in Ids, BuildEvent(t, l, type, id)
  PROVE  \E b \in Built :
           /\ b.task = t /\ b.layer = l /\ b.event.timestamp = Len(built) + 1
           /\ pending[t] = NoEvent
           /\ pending' \in [Tasks -> Built \cup {NoEvent}] /\ pending'[t] = b
           /\ \A u \in Tasks : u # t => pending'[u] = pending[u]
           /\ built' \in Seq(Built) /\ Len(built') = Len(built) + 1
           /\ \A n \in 1 .. Len(built) : built'[n] = built[n]
           /\ built'[Len(built) + 1] = b
<1>1. /\ built \in Seq(Built) /\ Len(built) \in Nat /\ Len(built) + 1 \in Nat
      /\ pending \in [Tasks -> Built \cup {NoEvent}]
  BY BuiltType DEF EventInv, TypeOK
<1>2. PICK e : e = [type |-> type, partition |-> Partition(type, AgentOf[l]),
                    trace_id |-> id, timestamp |-> Len(built) + 1]
  OBVIOUS
<1>3. e \in Event /\ e.timestamp = Len(built) + 1
  <2>1. e \in Event
    BY <1>1, <1>2, EventParts
  <2>. QED BY <1>2, <2>1
<1>4. PICK b : b = [task |-> t, layer |-> l, event |-> e]
  OBVIOUS
<1>5. b \in Built /\ b.task = t /\ b.layer = l /\ b.event = e
  BY <1>3, <1>4 DEF Built
<1>6. /\ pending[t] = NoEvent /\ pending' = [pending EXCEPT ![t] = b]
      /\ built' = Append(built, b)
  BY <1>2, <1>4 DEF BuildEvent
<1>7. /\ built' \in Seq(Built) /\ Len(built') = Len(built) + 1
      /\ \A n \in 1 .. Len(built) : built'[n] = built[n]
      /\ built'[Len(built) + 1] = b
  BY <1>1, <1>5, <1>6, AppendProperties
<1>. QED BY <1>1, <1>3, <1>5, <1>6, <1>7

LEMMA BuildEventKeepsEvents ==
  ASSUME EventInv, NEW t \in Tasks, NEW l \in Layers, NEW type \in Types,
         NEW id \in Ids, BuildEvent(t, l, type, id), UNCHANGED log, TraceType'
  PROVE  EventInv'
<1>1. PICK b \in Built :
        /\ b.task = t /\ b.layer = l /\ b.event.timestamp = Len(built) + 1
        /\ pending[t] = NoEvent
        /\ pending' \in [Tasks -> Built \cup {NoEvent}] /\ pending'[t] = b
        /\ \A u \in Tasks : u # t => pending'[u] = pending[u]
        /\ built' \in Seq(Built) /\ Len(built') = Len(built) + 1
        /\ \A n \in 1 .. Len(built) : built'[n] = built[n]
        /\ built'[Len(built) + 1] = b
  BY BuildEventEffects
<1>2. TypeOK'
  BY <1>1 DEF EventInv, TypeOK
<1>3. PICK m \in Nat : m = Len(built)
  BY BuiltType DEF EventInv
<1>4. /\ DOMAIN built = 1 .. m /\ DOMAIN built' = 1 .. m + 1 /\ Len(built') = m + 1
      /\ \A n \in 1 .. m + 1 : n \in 1 .. m \/ n = m + 1
      /\ \A n \in 1 .. m : n \in 1 .. m + 1
      /\ m + 1 \in 1 .. m + 1 /\ m + 1 \notin 1 .. m
      /\ \A n \in 1 .. m : built'[n] = built[n] /\ n < m + 1
      /\ built'[m + 1] = b /\ b.event.timestamp = m + 1
  <2>1. DOMAIN built = 1 .. m
    BY <1>3, BuiltType DEF EventInv
  <2>2. Len(built') = m + 1 /\ DOMAIN built' = 1 .. m + 1
    BY <1>1, <1>3, LenProperties
  <2>. QED BY <1>1, <1>3, <2>1, <2>2
<1>5. \A n \in 1 .. m : built[n] \in Built /\ built[n].event.timestamp = n
                        /\ built[n] # b /\ built[n] # NoEvent
  <2>1. \A n \in 1 .. m : built[n] \in Built /\ built[n].event.timestamp = n
    BY <1>3, BuiltType DEF EventInv, BuiltStamps
  <2>. QED BY <1>4, <2>1, BuiltParts
<1>6. BuiltStamps'
  BY <1>4, <1>5 DEF BuiltStamps
<1>7. HeldIsBuilt'
  <2>1. ASSUME NEW u \in Tasks, pending'[u] # NoEvent
        PROVE  \E n \in 1 .. Len(built') : pending'[u] = built'[n] /\ built'[n].task = u
    <3>1. CASE u = t
      BY <1>1, <1>4, <3>1
    <3>2. CASE u # t
      BY <1>1, <1>3, <1>4, <2>1, <3>2 DEF EventInv, HeldIsBuilt
    <3>. QED BY <3>1, <3>2
  <2>. QED BY <2>1 DEF HeldIsBuilt
<1>8. \A k \in Layers : \A i \in 1 .. Len(log[k]) :
        /\ log[k][i].timestamp \in 1 .. m
        /\ built[log[k][i].timestamp].layer = k
        /\ built[log[k][i].timestamp].event = log[k][i]
  BY <1>3 DEF EventInv, LoggedIsBuilt
<1>9. LoggedIsBuilt'
  BY <1>4, <1>8 DEF LoggedIsBuilt
<1>10. ASSUME NEW u \in Tasks, NEW k \in Layers PROVE InOrder(u, k)'
  <2>1. InOrder(u, k)
    BY InOrderAll DEF EventInv
  <2>2. DOMAIN log[k] = 1 .. Len(log[k])
    BY BuiltType DEF EventInv
  <2>3. LoggedBy(u, k)' = LoggedBy(u, k) /\ LoggedBy(u, k) \subseteq 1 .. Len(log[k])
    BY <1>4, <1>8, <2>2 DEF LoggedBy
  <2>4. Stamps(u, k)' = Stamps(u, k)
    BY <2>3 DEF Stamps
  <2>5. \A i \in LoggedBy(u, k) : log[k][i] = built'[log[k][i].timestamp].event
    BY <1>4, <1>8, <2>3
  <2>6. \A i \in LoggedBy(u, k) : log[k][i].timestamp \in 1 .. m
    BY <1>8, <2>3
  <2>7. CASE u = t /\ k = l
    <3>1. BuiltBy(u, k)' = BuiltBy(u, k) \cup {m + 1}
      BY <1>1, <1>4, <2>7 DEF BuiltBy
    <3>2. HeldBy(u, k) = {}
      BY <1>1, <1>4, <1>5, <2>7 DEF HeldBy, BuiltBy
    <3>3. HeldBy(u, k)' = {m + 1}
      <4>1. BuiltBy(u, k) \subseteq 1 .. m
        BY <1>4 DEF BuiltBy
      <4>2. HeldBy(u, k)' = {n \in BuiltBy(u, k)' : pending'[u] = built'[n]}
        BY DEF HeldBy
      <4>. QED BY <1>1, <1>4, <1>5, <2>7, <3>1, <4>1, <4>2
    <3>. QED BY <1>4, <2>1, <2>3, <2>4, <2>5, <2>6, <3>1, <3>2, <3>3 DEF InOrder
  <2>8. CASE ~(u = t /\ k = l)
    <3>1. BuiltBy(u, k)' = BuiltBy(u, k) /\ BuiltBy(u, k) \subseteq 1 .. m
      BY <1>1, <1>4, <2>8 DEF BuiltBy
    <3>2. HeldBy(u, k)' = {n \in BuiltBy(u, k) : pending'[u] = built'[n]}
      BY <3>1 DEF HeldBy
    <3>3. HeldBy(u, k)' = HeldBy(u, k)
      <4>1. CASE u = t
        BY <1>1, <1>4, <1>5, <3>1, <3>2, <4>1 DEF HeldBy
      <4>2. CASE u # t
        BY <1>1, <1>4, <3>1, <3>2, <4>2 DEF HeldBy
      <4>. QED BY <4>1, <4>2
    <3>. QED BY <2>1, <2>3, <2>4, <2>5, <3>1, <3>3 DEF InOrder
  <2>. QED BY <2>7, <2>8
<1>11. EventsInOrder'
  BY <1>10, InOrderAll DEF EventsInOrder, InOrder, Stamps
<1>. QED BY <1>2, <1>6, <1>7, <1>9, <1>11 DEF EventInv

\* The event a task holds goes to the end of the log it was built for.
LEMMA PushEffects ==
  ASSUME EventInv, NEW t \in Tasks, Push(t)
  PROVE  \E n \in 1 .. Len(built) : \E l \in Layers :
           /\ built[n] \in Built /\ built[n].task = t /\ built[n].layer = l
           /\ pending[t] = built[n] /\ built[n].event.timestamp = n
           /\ log' \in [Layers -> Seq(Event)]
           /\ \A k \in Layers : k # l => log'[k] = log[k]
           /\ Len(log'[l]) = Len(log[l]) + 1
           /\ \A i \in 1 .. Len(log[l]) : log'[l][i] = log[l][i]
           /\ log'[l][Len(log[l]) + 1] = built[n].event
           /\ pending' \in [Tasks -> Built \cup {NoEvent}] /\ pending'[t] = NoEvent
           /\ \A u \in Tasks : u # t => pending'[u] = pending[u]
           /\ UNCHANGED <<digests, hand, traces, built>>
<1>1. /\ pending[t] # NoEvent /\ pending' = [pending EXCEPT ![t] = NoEvent]
      /\ log' = [log EXCEPT ![pending[t].layer] = Append(@, pending[t].event)]
      /\ UNCHANGED <<digests, hand, traces, built>>
  BY DEF Push
<1>2. PICK n \in 1 .. Len(built) : pending[t] = built[n] /\ built[n].task = t
  BY <1>1 DEF EventInv, HeldIsBuilt
<1>3. built[n] \in Built /\ built[n].event.timestamp = n
  BY BuiltType DEF EventInv, BuiltStamps
<1>4. PICK l \in Layers : l = built[n].layer
  BY <1>3, BuiltParts
<1>5. PICK e \in Event : e = built[n].event
  BY <1>3, BuiltParts
<1>6. log \in [Layers -> Seq(Event)] /\ log[l] \in Seq(Event)
      /\ pending \in [Tasks -> Built \cup {NoEvent}]
  BY DEF EventInv, TypeOK
<1>7. log' = [log EXCEPT ![l] = Append(log[l], e)]
  BY <1>1, <1>2, <1>4, <1>5
<1>8. /\ Append(log[l], e) \in Seq(Event)
      /\ Len(Append(log[l], e)) = Len(log[l]) + 1
      /\ \A i \in 1 .. Len(log[l]) : Append(log[l], e)[i] = log[l][i]
      /\ Append(log[l], e)[Len(log[l]) + 1] = e
  BY <1>6, AppendProperties
<1>9. /\ log' \in [Layers -> Seq(Event)] /\ log'[l] = Append(log[l], e)
      /\ \A k \in Layers : k # l => log'[k] = log[k]
  BY <1>6, <1>7, <1>8
<1>10. /\ pending' \in [Tasks -> Built \cup {NoEvent}] /\ pending'[t] = NoEvent
       /\ \A u \in Tasks : u # t => pending'[u] = pending[u]
  BY <1>1, <1>6
<1>. QED BY SMTT(30), <1>1, <1>2, <1>3, <1>4, <1>5, <1>8, <1>9, <1>10

LEMMA PushKeepsEvents ==
  ASSUME EventInv, NEW t \in Tasks, Push(t) PROVE EventInv'
<1>1. PICK n \in 1 .. Len(built), l \in Layers :
        /\ built[n] \in Built /\ built[n].task = t /\ built[n].layer = l
        /\ pending[t] = built[n] /\ built[n].event.timestamp = n
        /\ log' \in [Layers -> Seq(Event)]
        /\ \A k \in Layers : k # l => log'[k] = log[k]
        /\ Len(log'[l]) = Len(log[l]) + 1
        /\ \A i \in 1 .. Len(log[l]) : log'[l][i] = log[l][i]
        /\ log'[l][Len(log[l]) + 1] = built[n].event
        /\ pending' \in [Tasks -> Built \cup {NoEvent}] /\ pending'[t] = NoEvent
        /\ \A u \in Tasks : u # t => pending'[u] = pending[u]
        /\ UNCHANGED <<digests, hand, traces, built>>
  BY PushEffects
<1>2. TypeOK'
  BY <1>1 DEF EventInv, TypeOK, TraceType
<1>3. BuiltStamps' /\ HeldIsBuilt'
  <2>1. BuiltStamps'
    BY <1>1 DEF EventInv, BuiltStamps
  <2>2. ASSUME NEW u \in Tasks, pending'[u] # NoEvent
        PROVE  \E j \in 1 .. Len(built) : pending'[u] = built[j] /\ built[j].task = u
    <3>1. u # t /\ pending'[u] = pending[u]
      BY <1>1, <2>2
    <3>. QED BY <2>2, <3>1 DEF EventInv, HeldIsBuilt
  <2>. QED BY <1>1, <2>1, <2>2 DEF HeldIsBuilt
<1>4. PICK m \in Nat : m = Len(log[l])
  BY BuiltType DEF EventInv
<1>5. /\ DOMAIN log[l] = 1 .. m /\ DOMAIN log'[l] = 1 .. m + 1 /\ Len(log'[l]) = m + 1
      /\ \A i \in 1 .. m + 1 : i \in 1 .. m \/ i = m + 1
      /\ \A i \in 1 .. m : i \in 1 .. m + 1 /\ i < m + 1 /\ i # m + 1
      /\ m + 1 \in 1 .. m + 1
      /\ \A i \in 1 .. m : log'[l][i] = log[l][i]
      /\ log'[l][m + 1] = built[n].event /\ log'[l][m + 1].timestamp = n
  <2>1. DOMAIN log[l] = 1 .. m
    BY <1>4, BuiltType DEF EventInv
  <2>2. log'[l] \in Seq(Event)
    BY <1>1
  <2>3. DOMAIN log'[l] = 1 .. m + 1 /\ Len(log'[l]) = m + 1
    BY <1>1, <1>4, <2>2, LenProperties
  <2>. QED BY <1>1, <1>4, <2>1, <2>3
<1>6. LoggedIsBuilt'
  <2>1. ASSUME NEW k \in Layers, NEW i \in 1 .. Len(log'[k])
        PROVE  /\ log'[k][i].timestamp \in 1 .. Len(built)
               /\ built[log'[k][i].timestamp].layer = k
               /\ built[log'[k][i].timestamp].event = log'[k][i]
    <3>1. CASE k # l \/ i # m + 1
      <4>1. i \in 1 .. Len(log[k]) /\ log'[k][i] = log[k][i]
        BY <1>1, <1>4, <1>5, <3>1
      <4>. QED BY <4>1 DEF EventInv, LoggedIsBuilt
    <3>2. CASE k = l /\ i = m + 1
      BY <1>1, <1>5, <3>2
    <3>. QED BY <3>1, <3>2
  <2>. QED BY <1>1, <2>1 DEF LoggedIsBuilt
<1>7. ASSUME NEW u \in Tasks, NEW k \in Layers PROVE InOrder(u, k)'
  <2>1. InOrder(u, k) /\ BuiltBy(u, k)' = BuiltBy(u, k)
    BY <1>1, InOrderAll DEF EventInv, BuiltBy
  <2>2. CASE k # l
    <3>1. log'[k] = log[k]
      BY <1>1, <2>2
    <3>2. LoggedBy(u, k)' = LoggedBy(u, k)
      BY <1>1, <3>1 DEF LoggedBy
    <3>3. Stamps(u, k)' = Stamps(u, k)
      BY <3>1, <3>2 DEF Stamps
    <3>4. HeldBy(u, k)' = HeldBy(u, k)
      <4>1. CASE u = t
        <5>1. \A j \in BuiltBy(u, k) : built[j] # built[n] /\ built[j] # NoEvent
          <6>1. \A j \in BuiltBy(u, k) : built[j].layer = k /\ built[j] \in Built
            BY BuiltType DEF EventInv, BuiltBy
          <6>. QED BY <1>1, <2>2, <6>1, BuiltParts
        <5>. QED BY <1>1, <2>1, <4>1, <5>1 DEF HeldBy
      <4>2. CASE u # t
        BY <1>1, <2>1, <4>2 DEF HeldBy
      <4>. QED BY <4>1, <4>2
    <3>. QED BY <1>1, <2>1, <3>1, <3>2, <3>3, <3>4 DEF InOrder
  <2>3. CASE k = l /\ u # t
    <3>1. LoggedBy(u, k)' = LoggedBy(u, k) /\ LoggedBy(u, k) \subseteq 1 .. m
      BY <1>1, <1>5, <2>3 DEF LoggedBy
    <3>2. Stamps(u, k)' = Stamps(u, k)
      BY <1>5, <2>3, <3>1 DEF Stamps
    <3>3. HeldBy(u, k)' = HeldBy(u, k)
      BY <1>1, <2>1, <2>3 DEF HeldBy
    <3>. QED BY SMTT(30), <1>1, <1>5, <2>1, <2>3, <3>1, <3>2, <3>3 DEF InOrder
  <2>4. CASE k = l /\ u = t
    <3>1. LoggedBy(u, k)' = LoggedBy(u, k) \cup {m + 1}
          /\ LoggedBy(u, k) \subseteq 1 .. m
      BY <1>1, <1>5, <2>4 DEF LoggedBy
    <3>2. HeldBy(u, k) = {n}
      <4>1. n \in BuiltBy(u, k)
        BY <1>1, <2>4, BuiltType DEF EventInv, BuiltBy
      <4>2. \A j \in BuiltBy(u, k) : built[j].event.timestamp = j
        BY BuiltType DEF EventInv, BuiltBy, BuiltStamps
      <4>3. \A j \in BuiltBy(u, k) : built[n] = built[j] => j = n
        BY <1>1, <4>2
      <4>4. pending[u] = built[n]
        BY <1>1, <2>4
      <4>5. HeldBy(u, k) = {j \in BuiltBy(u, k) : built[n] = built[j]}
        BY <4>4 DEF HeldBy
      <4>. QED BY <4>1, <4>3, <4>5
    <3>3. HeldBy(u, k)' = {}
      <4>1. \A j \in BuiltBy(u, k) : built[j] # NoEvent
        BY BuiltType, BuiltParts DEF EventInv, BuiltBy
      <4>. QED BY <1>1, <2>1, <2>4, <4>1 DEF HeldBy
    <3>4. Stamps(u, k)' = Stamps(u, k) \cup {n}
      <4>1. Stamps(u, k)' = {log'[k][i].timestamp : i \in LoggedBy(u, k)'}
        BY DEF Stamps
      <4>2. \A i \in LoggedBy(u, k) : log'[k][i] = log[k][i]
        BY <1>5, <2>4, <3>1
      <4>3. log'[k][m + 1].timestamp = n
        BY <1>5, <2>4
      <4>4. Stamps(u, k) = {log[k][i].timestamp : i \in LoggedBy(u, k)}
        BY DEF Stamps
      <4>. QED BY <3>1, <4>1, <4>2, <4>3, <4>4
    <3>5. /\ BuiltBy(u, k) = Stamps(u, k) \cup {n}
          /\ \A i \in LoggedBy(u, k) : log[k][i] = built[log[k][i].timestamp].event
          /\ \A i, j \in LoggedBy(u, k) :
               i < j => log[k][i].timestamp < log[k][j].timestamp
          /\ \A i \in LoggedBy(u, k) : log[k][i].timestamp < n
      BY <2>1, <3>2 DEF InOrder
    <3>6. \A i \in LoggedBy(u, k)' : (i \in LoggedBy(u, k) /\ i \in 1 .. m) \/ i = m + 1
      BY <3>1
    <3>7. ASSUME NEW i \in LoggedBy(u, k)', NEW j \in LoggedBy(u, k)', i < j
          PROVE  log'[k][i].timestamp < log'[k][j].timestamp
      <4>1. i \in LoggedBy(u, k) /\ i \in 1 .. m
        BY <1>5, <3>6, <3>7
      <4>. QED BY <1>5, <2>4, <3>5, <3>6, <3>7, <4>1
    <3>8. \A i \in LoggedBy(u, k)' : log'[k][i] = built[log'[k][i].timestamp].event
      BY <1>1, <1>5, <2>4, <3>5, <3>6
    <3>. QED BY <1>1, <2>1, <3>3, <3>4, <3>5, <3>7, <3>8 DEF InOrder
  <2>. QED BY <2>2, <2>3, <2>4
<1>8. EventsInOrder'
  BY <1>7, InOrderAll DEF EventsInOrder, InOrder, Stamps
<1>. QED BY <1>2, <1>3, <1>6, <1>8 DEF EventInv

LEMMA NextEvent == TraceInv /\ EventInv /\ [Next]_vars => EventInv'
<1>. SUFFICES ASSUME TraceInv, EventInv, [Next]_vars PROVE EventInv'
  OBVIOUS
<1>1. TraceType'
  BY NextTrace DEF TraceInv
<1>2. CASE UNCHANGED <<log, pending, built>>
  <2>1. TypeOK' /\ BuiltStamps' /\ HeldIsBuilt' /\ LoggedIsBuilt'
    BY <1>1, <1>2 DEF EventInv, TypeOK, BuiltStamps, HeldIsBuilt, LoggedIsBuilt
  <2>2. EventsInOrder'
    BY <1>2 DEF EventInv, EventsInOrder, BuiltBy, LoggedBy, HeldBy
  <2>. QED BY <2>1, <2>2 DEF EventInv
<1>3. ASSUME NEW t \in Tasks, NEW hook \in Hooks, CallHook(t, hook) PROVE EventInv'
  <2>1. PICK id \in Ids : BuildEvent(t, hook.layer, hook.type, id)
    BY <1>3, CallHookEffects
  <2>. QED BY <1>1, <1>3, <2>1, CallHookEffects, HookParts, BuildEventKeepsEvents
<1>4. ASSUME NEW t \in Tasks, NEW l \in Layers, EmitOther(t, l) PROVE EventInv'
  <2>1. PICK type \in {"Step", "Challenge", "Composition"}, id \in 1 .. Len(digests) :
          BuildEvent(t, l, type, id)
    BY <1>4 DEF EmitOther
  <2>2. Len(digests) \in Nat /\ Len(digests) <= MaxIds /\ MaxIds \in Nat
    BY LenProperties, TraceAssumption DEF TraceInv, TraceType
  <2>3. id \in Ids /\ type \in Types
    BY <2>2 DEF Ids, Types
  <2>. QED BY <1>1, <1>4, <2>1, <2>3, BuildEventKeepsEvents DEF EmitOther
<1>5. ASSUME NEW t \in Tasks, Push(t) PROVE EventInv'
  BY <1>5, PushKeepsEvents
<1>. QED BY <1>2, <1>3, <1>4, <1>5 DEF Next, vars

-----------------------------------------------------------------------------
(* The theorems *)

\* The traces' part stands by itself, the events' part rests on it.
THEOREM ReasoningInvariance == Spec => []IInv
<1>1. Init => IInv
  BY InitTrace, InitEvent DEF IInv
<1>2. IInv /\ [Next]_vars => IInv'
  BY NextTrace, NextEvent DEF IInv
<1>. QED BY <1>1, <1>2, PTL DEF Spec

\* Hashes, traces, stored traces, event logs and events keep their types: every
\* hook's event goes to a stream of the protocol, about an id that was computed.
THEOREM ReasoningTypeCorrect == Spec => []TypeOK
<1>1. IInv => TypeOK
  BY DEF IInv, EventInv
<1>. QED BY <1>1, ReasoningInvariance, PTL

\* No order of add_parent, finalize, sign, store_trace and get_trace gives
\* traces stored under the ids of their contents a circular ancestry.
THEOREM AncestryCorrect == Spec => []FreshAncestryAcyclic
<1>1. IInv => FreshAncestryAcyclic
  BY AncestryOfFresh DEF IInv
<1>. QED BY <1>1, ReasoningInvariance, PTL

\* finalize and sign, however often they are called and on however many copies,
\* give one content one id and one id one content.
THEOREM IdCorrect == Spec => []IdNamesContent
<1>1. IInv => IdNamesContent
  BY ContentOfId DEF IInv
<1>. QED BY <1>1, ReasoningInvariance, PTL

\* has_cycles reports every circular ancestry and every ancestor that is named
\* twice, and nothing else, whatever is stored: at any moment its walk of the
\* stored traces ends, and its answer is that the ancestry is no tree.
THEOREM CyclesCorrect == Spec => []HasCyclesMeansNoTree
<1>1. IInv => HasCyclesMeansNoTree
  BY CyclesFound DEF IInv
<1>. QED BY <1>1, ReasoningInvariance, PTL

\* A task's events are in a handler's log once and in the order in which it
\* built them, whatever the other tasks push between building and pushing.
THEOREM EventsCorrect == Spec => []EventsInOrder
<1>1. IInv => EventsInOrder
  BY DEF IInv, EventInv
<1>. QED BY <1>1, ReasoningInvariance, PTL
=============================================================================
