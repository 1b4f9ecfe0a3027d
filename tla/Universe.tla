------------------------------ MODULE Universe -------------------------------
(***************************************************************************)
(* The artifact universe of seb/universe: a manifest is built, taken       *)
(* through the CVM gate, marked, stored, promoted and stored again; the    *)
(* universe keeps three indexes beside its artifacts, and is saved to and  *)
(* loaded from a repository file that a failed write leaves torn.          *)
(*                                                                         *)
(* One client does all this, one call after another, as in                 *)
(* examples/universe_demo.rs.  What it builds, and in which order, is open;*)
(* so is when it marks: neither mark_cvm_passed nor promote looks at a     *)
(* result of the gate.                                                     *)
(*                                                                         *)
(* An index lists an id as often as it was pushed; in what order does not  *)
(* matter (load_from_file iterates over a HashMap), so an index counts.    *)
(***************************************************************************)
EXTENDS Naturals, Sequences, FiniteSets

CONSTANTS Ids, Languages, InvariantNames,
          TierNumbers,                        \* what callers pass to new()
          MaxInvariants, MaxCalls, MaxAdds    \* bounds of the model

ASSUME UniverseAssumption ==
  /\ TierNumbers \subseteq Nat
  /\ MaxInvariants \in Nat /\ MaxCalls \in Nat /\ MaxAdds \in Nat \ {0}

VARIABLES
  hand,        \* the manifest the client holds
  steps,       \* step results of the gate's last run on it
  artifacts,   \* Universe.artifacts, None where there is none
  index,       \* the three indexes, each id with its multiplicity
  file,        \* the repository file
  calls,       \* manifests made, builder calls and restarts so far
  adds         \* history: calls of add_artifact since the universe was made

vars == <<hand, steps, artifacts, index, file, calls, adds>>

Tiers == 0 .. 3
Invariant == [name : InvariantNames, proof : BOOLEAN]

Manifest ==
  [artifact_id : Ids, named : BOOLEAN,   \* neither id nor name is empty
   language : Languages, tier : Tiers, invariants : Seq(Invariant),
   lean : BOOLEAN,                       \* some proof's language is lean4
   source_path : {"none", "empty", "given"}, doc_url : BOOLEAN,
   cvm_gate_passed : BOOLEAN,
   proposed : BOOLEAN,                   \* history: it was made with tier T2
   gated : BOOLEAN]                      \* history: it was marked when the gate's
                                         \* last result on it was a success

None == [artifact_id |-> <<>>]

\* ArtifactTier::from_u8(tier).unwrap_or(T2).  Mutant: any number.
TierUnchecked(n) == n
TierOf(n) == IF n \in Tiers THEN n ELSE 2

New(id, lang, n, named) ==
  [artifact_id |-> id, named |-> named, language |-> lang, tier |-> TierOf(n),
   invariants |-> <<>>, lean |-> FALSE, source_path |-> "none",
   doc_url |-> FALSE, cvm_gate_passed |-> FALSE, proposed |-> TierOf(n) = 2,
   gated |-> FALSE]

NewManifests ==
  {New(id, lang, n, named) : id \in Ids, lang \in Languages,
                             n \in TierNumbers, named \in BOOLEAN}

EmptyIndex ==
  [tier |-> [t \in Tiers |-> [id \in Ids |-> 0]],
   language |-> [l \in Languages |-> [id \in Ids |-> 0]],
   invariant |-> [v \in InvariantNames |-> [id \in Ids |-> 0]]]

NoArtifacts == [id \in Ids |-> None]
Stored == {id \in Ids : artifacts[id] # None}

Init ==
  /\ hand \in NewManifests
  /\ steps = <<>>
  /\ artifacts = NoArtifacts
  /\ index = EmptyIndex
  /\ file = [whole |-> FALSE, artifacts |-> NoArtifacts]
  /\ calls = 0
  /\ adds = [id \in Ids |-> 0]

-----------------------------------------------------------------------------
(* Manifests *)

NewManifest ==
  /\ calls < MaxCalls
  /\ calls' = calls + 1
  /\ hand' \in NewManifests
  /\ steps' = <<>>
  /\ UNCHANGED <<artifacts, index, file, adds>>

\* A builder call; the gate's result, if there is one, stays what it is.
Build(m) ==
  /\ calls < MaxCalls
  /\ calls' = calls + 1
  /\ hand' = m
  /\ UNCHANGED <<steps, artifacts, index, file, adds>>

AddInvariant ==
  /\ Len(hand.invariants) < MaxInvariants
  /\ \E inv \in Invariant :
       Build([hand EXCEPT !.invariants = Append(@, inv)])

AddProof == Build([hand EXCEPT !.lean = TRUE])

WithSourcePath ==
  \E path \in {"empty", "given"} : Build([hand EXCEPT !.source_path = path])

WithDocUrl == Build([hand EXCEPT !.doc_url = TRUE])

-----------------------------------------------------------------------------
(* The CVM gate *)

InvariantsCovered(m) == \A i \in 1 .. Len(m.invariants) : m.invariants[i].proof

Typecheck(m) == m.named /\ m.source_path # "empty"
Prove(m) == m.lean /\ InvariantsCovered(m)
Review(m) ==
  m.invariants # <<>> /\ (m.doc_url \/ m.source_path # "none")

\* The five steps; test and merge always pass.
Checks(m) == <<Typecheck(m), TRUE, Prove(m), Review(m), TRUE>>

\* Results up to the first failure.  Mutant: a failed step is not the last.
StepsAll(m) == Checks(m)
Steps(m) ==
  LET last == CHOOSE i \in 1 .. 5 :
                /\ \A j \in 1 .. i - 1 : Checks(m)[j]
                /\ Checks(m)[i] => i = 5
  IN  SubSeq(Checks(m), 1, last)

\* CVMGateResult.passed is the result of the last step that ran.
Passed(results) == results # <<>> /\ results[Len(results)]

Process ==
  /\ steps' = Steps(hand)
  /\ UNCHANGED <<hand, artifacts, index, file, calls, adds>>

\* Whatever the gate says, and whether or not it has run.
MarkCvmPassed ==
  Build([hand EXCEPT !.cvm_gate_passed = TRUE, !.gated = @ \/ Passed(steps)])

\* promote() of a manifest in hand or found in the universe; refusals change
\* nothing.
Promote ==
  \E m \in {hand} \cup {artifacts[id] : id \in Stored} :
    /\ m.tier = 2
    /\ m.cvm_gate_passed
    /\ hand' = [m EXCEPT !.tier = 1]
    /\ steps' = <<>>
    /\ UNCHANGED <<artifacts, index, file, calls, adds>>

-----------------------------------------------------------------------------
(* The universe *)

\* How often m's invariants have a name: add_artifact pushes for each.
Mentions(m, name) ==
  Cardinality({i \in 1 .. Len(m.invariants) : m.invariants[i].name = name})

\* Mutant: only an id that is new is indexed.
AddArtifactOnce ==
  LET id == hand.artifact_id
      n == IF artifacts[id] = None THEN 1 ELSE 0
  IN  /\ adds[id] < MaxAdds
      /\ artifacts' = [artifacts EXCEPT ![id] = hand]
      /\ index' =
           [tier |-> [index.tier EXCEPT ![hand.tier][id] = @ + n],
            language |-> [index.language EXCEPT ![hand.language][id] = @ + n],
            invariant |-> [v \in InvariantNames |->
              [index.invariant[v] EXCEPT ![id] = @ + n * Mentions(hand, v)]]]
      /\ adds' = [adds EXCEPT ![id] = @ + 1]
      /\ UNCHANGED <<hand, steps, file, calls>>

AddArtifact ==
  LET id == hand.artifact_id
  IN  /\ adds[id] < MaxAdds
      /\ artifacts' = [artifacts EXCEPT ![id] = hand]
      /\ index' =
           [tier |-> [index.tier EXCEPT ![hand.tier][id] = @ + 1],
            language |-> [index.language EXCEPT ![hand.language][id] = @ + 1],
            invariant |-> [v \in InvariantNames |->
              [index.invariant[v] EXCEPT ![id] = @ + Mentions(hand, v)]]]
      /\ adds' = [adds EXCEPT ![id] = @ + 1]
      /\ UNCHANGED <<hand, steps, file, calls>>

\* query_by_tier, query_by_language and query_by_invariant give the artifact
\* stored now under each id the index lists.
QueryByTier(t) == {artifacts[id] : id \in {i \in Stored : index.tier[t][i] > 0}}
QueryByLanguage(l) ==
  {artifacts[id] : id \in {i \in Stored : index.language[l][i] > 0}}
QueryByInvariant(v) ==
  {artifacts[id] : id \in {i \in Stored : index.invariant[v][i] > 0}}

SaveToFile ==
  /\ file' = [whole |-> TRUE, artifacts |-> artifacts]
  /\ UNCHANGED <<hand, steps, artifacts, index, calls, adds>>

\* The file is truncated before it is written: a write that fails, or is
\* interrupted, leaves a file that does not parse.
SaveFails ==
  /\ file' = [whole |-> FALSE, artifacts |-> NoArtifacts]
  /\ UNCHANGED <<hand, steps, artifacts, index, calls, adds>>

\* The indexes of a universe into which each artifact of f is added once.
Rebuilt(f) ==
  LET once(condition) == IF condition THEN 1 ELSE 0
  IN  [tier |-> [t \in Tiers |-> [id \in Ids |->
                   once(f[id] # None /\ f[id].tier = t)]],
       language |-> [l \in Languages |-> [id \in Ids |->
                   once(f[id] # None /\ f[id].language = l)]],
       invariant |-> [v \in InvariantNames |-> [id \in Ids |->
                   IF f[id] # None THEN Mentions(f[id], v) ELSE 0]]]

\* Mutant: the indexes are left as they are.
LoadFromFileBare ==
  /\ file.whole
  /\ artifacts' = file.artifacts
  /\ adds' = [id \in Ids |-> IF file.artifacts[id] # None THEN 1 ELSE 0]
  /\ UNCHANGED <<hand, steps, index, file, calls>>

\* load_from_file makes a new universe; a torn file is an error.
LoadFromFile ==
  /\ file.whole
  /\ artifacts' = file.artifacts
  /\ index' = Rebuilt(file.artifacts)
  /\ adds' = [id \in Ids |-> IF file.artifacts[id] # None THEN 1 ELSE 0]
  /\ UNCHANGED <<hand, steps, file, calls>>

\* The process ends; only the file stays.
Restart ==
  /\ calls < MaxCalls
  /\ calls' = calls + 1
  /\ hand' \in NewManifests
  /\ steps' = <<>>
  /\ artifacts' = NoArtifacts
  /\ index' = EmptyIndex
  /\ adds' = [id \in Ids |-> 0]
  /\ UNCHANGED file

Next ==
  \/ NewManifest \/ AddInvariant \/ AddProof \/ WithSourcePath \/ WithDocUrl
  \/ Process \/ MarkCvmPassed \/ Promote
  \/ AddArtifact \/ SaveToFile \/ SaveFails \/ LoadFromFile \/ Restart

Spec == Init /\ [][Next]_vars

-----------------------------------------------------------------------------
(* Properties *)

\* Each variable has its type.
IndexType ==
  [tier : [Tiers -> [Ids -> Nat]], language : [Languages -> [Ids -> Nat]],
   invariant : [InvariantNames -> [Ids -> Nat]]]

TypeOK ==
  /\ hand \in Manifest
  /\ steps \in Seq(BOOLEAN)
  /\ artifacts \in [Ids -> Manifest \cup {None}]
  /\ index \in IndexType
  /\ file \in [whole : BOOLEAN, artifacts : [Ids -> Manifest \cup {None}]]
  /\ calls \in 0 .. MaxCalls
  /\ adds \in [Ids -> 0 .. MaxAdds]

\* Whatever was added, changed tier, was added again, saved and loaded, every
\* stored artifact is found by its tier, its language and each of its
\* invariants (query_by_tier, query_by_language, query_by_invariant).
IndexFindsAll ==
  \A id \in Stored :
    LET m == artifacts[id]
    IN  /\ m \in QueryByTier(m.tier)
        /\ m \in QueryByLanguage(m.language)
        /\ \A i \in 1 .. Len(m.invariants) :
              m \in QueryByInvariant(m.invariants[i].name)

\* An artifact that was added once since the universe was made or loaded is
\* listed once under its own tier and language, by each invariant as often as
\* it has it, and nowhere else: the stale and double answers of the queries
\* and of statistics() come from adding an id again, and loading ends them.
AddedOnceIsExact ==
  \A id \in Ids : adds[id] = 1 =>
    LET m == artifacts[id]
    IN  /\ \A t \in Tiers :
              index.tier[t][id] = IF t = m.tier THEN 1 ELSE 0
        /\ \A l \in Languages :
              index.language[l][id] = IF l = m.language THEN 1 ELSE 0
        /\ \A v \in InvariantNames :
              index.invariant[v][id] = Mentions(m, v)

\* The manifests there are: in hand, in the universe and in the file.
Held ==
  {hand} \cup {artifacts[id] : id \in Stored}
         \cup ({file.artifacts[id] : id \in Ids} \ {None})

\* No manifest leaves T2 without a mark, and what the gate saw of one that was
\* marked after a result of success is never undone by what the client adds,
\* stores, promotes, saves or loads later: a Lean proof, documentation, and a
\* first invariant with a proof reference (of invariants added since the run
\* the gate knows nothing).  The mark alone shows nothing of this: mark_cvm_passed
\* is unconditional (process, mark_cvm_passed, promote).
GatedMeansProven ==
  \A m \in Held :
    /\ m.proposed /\ m.tier # 2 => m.cvm_gate_passed
    /\ m.gated =>
         /\ m.cvm_gate_passed
         /\ m.lean
         /\ m.invariants # <<>> /\ m.invariants[1].proof
         /\ m.doc_url \/ m.source_path # "none"
=============================================================================
