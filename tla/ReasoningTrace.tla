--------------------------- MODULE ReasoningTrace ----------------------------
(***************************************************************************)
(* Reasoning traces, trace.rs of seb/reasoning, and the map they are       *)
(* stored in (streaming.rs, integration.rs).  A trace is built step by     *)
(* step, names other traces as its parents, gets the hash of its content   *)
(* as its id, is signed, stored, and may be changed after any of this.     *)
(*                                                                         *)
(* Hashing is modelled by the list of all contents ever hashed: the hash   *)
(* of a content is its position in the list, so equal contents have equal  *)
(* ids, different ones different ids, and nobody knows the id of a content *)
(* that was not hashed.  Id 0 is the empty string of a trace that was not  *)
(* finalized.                                                              *)
(***************************************************************************)
EXTENDS Naturals, Sequences, FiniteSets, SequencesExt

CONSTANTS Agents,
          MaxIds, MaxSteps, MaxRelations, MaxStored   \* bounds of the model

ASSUME TraceAssumption ==
  {MaxIds, MaxSteps, MaxRelations, MaxStored} \subseteq Nat

VARIABLES
  digests,    \* what was hashed so far; the hash of digests[n] is n
  hand,       \* the trace each agent is working on
  traces      \* ReasoningStreamManager.traces, None where there is none

traceVars == <<digests, hand, traces>>

Ids == 0 .. MaxIds

\* The part of a trace that its id is the hash of.  Steps are counted: what
\* they say does not matter here.  A relation lists the ids it names: one, or
\* for Composes several.
Writers == Agents \cup {"kernel_001", "policy_001"}
Content == [agent : Writers, steps : Nat, relations : Seq(Seq(Ids))]

Trace ==
  [content : Content, trace_id : Ids,
   signed : BOOLEAN]    \* signature is present; verify looks at no more

None == [trace_id |-> <<>>]

New(a) ==
  [content |-> [agent |-> a, steps |-> 0, relations |-> <<>>],
   trace_id |-> 0, signed |-> FALSE]

TraceInit ==
  /\ digests = <<>>
  /\ hand = [a \in Agents |-> New(a)]
  /\ traces = [id \in Ids |-> None]

-----------------------------------------------------------------------------
(* Building and sealing *)

\* What is hashed: the trace without id and signature.  Mutants: with the
\* signature it has; without its relations.
HashedSigned(t) == [content |-> t.content, signed |-> t.signed]
HashedSteps(t) ==
  [content |-> [t.content EXCEPT !.relations = <<>>], signed |-> FALSE]
Hashed(t) == [content |-> t.content, signed |-> FALSE]

\* The id h gets, and the list of digests after it was hashed.
Known(h) == \E n \in 1 .. Len(digests) : digests[n] = h
Blake3(h) ==
  IF Known(h) THEN CHOOSE n \in 1 .. Len(digests) : digests[n] = h
              ELSE Len(digests) + 1
Learn(h) == IF Known(h) THEN digests ELSE Append(digests, h)

NewTrace(a) ==
  /\ hand' = [hand EXCEPT ![a] = New(a)]
  /\ UNCHANGED <<digests, traces>>

AddStep(a) ==
  /\ hand[a].content.steps < MaxSteps
  /\ hand' = [hand EXCEPT ![a].content.steps = @ + 1]
  /\ UNCHANGED <<digests, traces>>

\* A relation names traces whose ids were computed; Composes names several.
Relations ==
  LET ids == 1 .. Len(digests)
  IN  {<<p>> : p \in ids} \cup {<<p, q>> : p \in ids, q \in ids}

AddParent(a) ==
  /\ Len(hand[a].content.relations) < MaxRelations
  /\ \E r \in Relations :
       hand' = [hand EXCEPT ![a].content.relations = Append(@, r)]
  /\ UNCHANGED <<digests, traces>>

\* finalize() gives the content its id and leaves a signature in place.
Finalize(a) ==
  LET h == Hashed(hand[a])
  IN  /\ Blake3(h) <= MaxIds
      /\ digests' = Learn(h)
      /\ hand' = [hand EXCEPT ![a].trace_id = Blake3(h)]
      /\ UNCHANGED traces

Sign(a) ==
  LET h == Hashed([hand[a] EXCEPT !.signed = FALSE])
  IN  /\ Blake3(h) <= MaxIds
      /\ digests' = Learn(h)
      /\ hand' = [hand EXCEPT ![a].trace_id = Blake3(h),
                              ![a].signed = TRUE]
      /\ UNCHANGED traces

\* store_trace and store_reasoning_trace insert under the id the trace has
\* (the latter then panics if that is empty and there is a symbol to index).
Stored == {id \in Ids : traces[id] # None}

StoreTrace(a) ==
  /\ Cardinality(Stored \cup {hand[a].trace_id}) <= MaxStored
  /\ traces' = [traces EXCEPT ![hand[a].trace_id] = hand[a]]
  /\ UNCHANGED <<digests, hand>>

\* get_trace gives a copy of a stored trace, id and signature included.
GetTrace(a) ==
  /\ \E id \in Stored :
       hand' = [hand EXCEPT ![a] = traces[id]]
  /\ UNCHANGED <<digests, traces>>

TraceStep ==
  \E a \in Agents :
    \/ NewTrace(a) \/ AddStep(a) \/ AddParent(a)
    \/ Finalize(a) \/ Sign(a) \/ StoreTrace(a) \/ GetTrace(a)

-----------------------------------------------------------------------------
(* Cycle detection *)

\* The ids a stored trace names, in the order in which they are visited.
Parents(id) == FlattenSeq(traces[id].content.relations)

\* One call of _has_cycles_internal, as a step of the walk from a root: the id
\* at the head of todo is met; its parents come before what is left.  Mutant:
\* an id met for the second time is passed over.
VisitPassing(w) ==
  LET id == Head(w.todo)
  IN  IF id \in w.visited THEN [w EXCEPT !.todo = Tail(@)]
      ELSE [cycle |-> FALSE, visited |-> w.visited \cup {id},
            todo |-> (IF id \in Stored THEN Parents(id) ELSE <<>>) \o Tail(w.todo)]
Visit(w) ==
  LET id == Head(w.todo)
  IN  IF id \in w.visited THEN [w EXCEPT !.cycle = TRUE]
      ELSE [cycle |-> FALSE, visited |-> w.visited \cup {id},
            todo |-> (IF id \in Stored THEN Parents(id) ELSE <<>>) \o Tail(w.todo)]

\* The walk ends at the first id met twice, so after at most one call for
\* each id and one more.
HasCycles(root) ==
  LET walk[n \in 0 .. MaxIds + 2] ==
        IF n = 0 THEN [cycle |-> FALSE, visited |-> {}, todo |-> <<root>>]
        ELSE LET w == walk[n - 1]
             IN  IF w.cycle \/ w.todo = <<>> THEN w ELSE Visit(w)
  IN  walk[MaxIds + 2].cycle

-----------------------------------------------------------------------------
(* Properties *)

TraceType ==
  /\ digests \in Seq([content : Content, signed : BOOLEAN])
  /\ Len(digests) <= MaxIds
  /\ hand \in [Agents -> Trace]
  /\ traces \in [Ids -> Trace \cup {None}]

\* The trace's id is the one of its content.
Fresh(t) == t.trace_id > 0 /\ digests[t.trace_id] = Hashed(t)

Names(id, p) == \E r \in 1 .. Len(traces[id].content.relations) :
                  \E i \in DOMAIN traces[id].content.relations[r] :
                     traces[id].content.relations[r][i] = p

\* Traces that are stored under the id of their content have no circular
\* ancestry, whoever stores what in which order: of any set of them one names
\* no other of the set (add_parent, finalize, store_trace).
FreshAncestryAcyclic ==
  LET fresh == {id \in Stored : Fresh(traces[id])}
  IN  \A S \in SUBSET fresh :
        S # {} => \E id \in S : \A p \in S : ~Names(id, p)

\* Among traces whose ids are those of their contents an id names one content
\* and a content has one id, signed or not: finalizing again, signing and
\* storing never split or merge traces (finalize, sign).
IdNamesContent ==
  LET all == {hand[a] : a \in Agents} \cup ({traces[id] : id \in Ids} \ {None})
  IN  \A t, u \in {t \in all : Fresh(t)} :
        t.content = u.content <=> t.trace_id = u.trace_id

\* The ids that can be reached from an id: the least set that has it and, with
\* each stored trace, all the ids that trace names.
Closed(S) == \A id \in S \cap Stored : \A p \in Ids \ S : ~Names(id, p)
Reach(root) ==
  LET closed == {S \in SUBSET Ids : root \in S /\ Closed(S)}
  IN  {p \in Ids : \A S \in closed : p \in S}

\* The places at which the stored ones of some traces name another.
Namings(ids) ==
  UNION {{<<id, i>> : i \in DOMAIN Parents(id)} : id \in ids \cap Stored}
Named(e) == Parents(e[1])[e[2]]

\* has_cycles answers true exactly when the ancestry is not a tree, that is
\* when the root or, twice, another id is named in it: every cycle is found,
\* and so is every ancestor that two traces share (_has_cycles_internal).
IsTree(root) ==
  LET namings == Namings(Reach(root))
  IN  /\ \A e \in namings : Named(e) # root
      /\ \A e, f \in namings : Named(e) = Named(f) => e = f
HasCyclesMeansNoTree == \A root \in Stored : HasCycles(root) <=> ~IsTree(root)
=============================================================================
