------------------------------- MODULE Shrewd --------------------------------
(***************************************************************************)
(* The Shrewd inference unit, shrewd_rtx.rs: a window of ticks that a feed *)
(* extends, and a loop that every 500 ms takes its last WindowSize ticks,  *)
(* pads them in front if there are fewer, predicts a verdict by counting,  *)
(* and publishes a governance command.                                     *)
(*                                                                         *)
(* Of a tick's eight features only verdict_enc is looked at; it is the     *)
(* verdict, 0 to 3, divided by 3.  The ONNX session is a stub that counts  *)
(* like the fallback.  Shares are compared as counts out of WindowSize:    *)
(* f32 represents them well enough to compare alike.                       *)
(***************************************************************************)
EXTENDS Naturals, Sequences, FiniteSets

CONSTANTS WindowSize,   \* 1000 in the code
          MinTicks,     \* 10 in the code
          MaxTicks      \* bound of the model: length of the feed

ASSUME ShrewdAssumption ==
  /\ WindowSize \in Nat \ {0}
  /\ MinTicks \in 1 .. WindowSize
  /\ MaxTicks \in Nat

VARIABLES
  window,      \* the ticks received, by verdict
  published    \* the last command, and how many ticks there were at it

vars == <<window, published>>

\* SkerProven, SkerShrewd, SkerCausal, SkerNoise
Verdicts == 0 .. 3
Proven == 0
Noise == 3

Commands ==
  {"LOWER_SHREWD_THRESHOLD", "RAISE_ZERO_TRUST", "MAINTAIN_POLICY"}

Init ==
  /\ window = <<>>
  /\ published = [command |-> "none", seen |-> 0]

\* The last WindowSize ticks, after zeros for the missing ones; a zero is
\* also the code of SkerProven.  Mutant: the first ones.
PrepareFeaturesFirst(w) ==
  LET missing == IF Len(w) < WindowSize THEN WindowSize - Len(w) ELSE 0
  IN  [i \in 1 .. WindowSize |-> IF i <= missing THEN 0 ELSE w[i - missing]]
PrepareFeatures(w) ==
  [i \in 1 .. WindowSize |->
     IF i + Len(w) <= WindowSize THEN 0 ELSE w[i + Len(w) - WindowSize]]

Counts(features) ==
  [v \in Verdicts |-> Cardinality({i \in DOMAIN features : features[i] = v})]

\* max_by keeps the last of equal maxima.  Mutant: the first.
BestIdxFirst(counts) ==
  CHOOSE v \in Verdicts :
    /\ \A u \in Verdicts : counts[u] <= counts[v]
    /\ \A u \in 0 .. v - 1 : counts[u] < counts[v]
BestIdx(counts) ==
  CHOOSE v \in Verdicts :
    /\ \A u \in Verdicts : counts[u] <= counts[v]
    /\ \A u \in v + 1 .. 3 : counts[u] < counts[v]

\* Mutant: an unsure proven verdict has no command.
ToGovernanceCommandPartial(verdict, count) ==
  IF verdict = Proven
    THEN IF 5 * count > 4 * WindowSize THEN "LOWER_SHREWD_THRESHOLD" ELSE "none"
    ELSE IF verdict = Noise THEN "RAISE_ZERO_TRUST" ELSE "MAINTAIN_POLICY"
ToGovernanceCommand(verdict, count) ==
  CASE verdict = Proven /\ 5 * count > 4 * WindowSize -> "LOWER_SHREWD_THRESHOLD"
    [] verdict = Noise -> "RAISE_ZERO_TRUST"
    [] OTHER -> "MAINTAIN_POLICY"

\* The feed of the worm topic: one more tick.
Feed(v) ==
  /\ Len(window) < MaxTicks
  /\ window' = Append(window, v)
  /\ UNCHANGED published

\* A round of the loop; with fewer than MinTicks ticks it does nothing.
Tick ==
  /\ Len(window) >= MinTicks
  /\ LET counts == Counts(PrepareFeatures(window))
         best == BestIdx(counts)
     IN  published' = [command |-> ToGovernanceCommand(best, counts[best]),
                       seen |-> Len(window)]
  /\ UNCHANGED window

Next == Tick \/ \E v \in Verdicts : Feed(v)

\* The interval of the loop goes on firing.
FairSpec == Init /\ [][Next]_vars /\ WF_vars(Tick)

-----------------------------------------------------------------------------
(* Properties *)

\* Each variable has its type, and what is published is a command.
TypeOK ==
  /\ window \in Seq(Verdicts)
  /\ published \in [command : Commands, seen : MinTicks .. Len(window)]
                   \cup {[command |-> "none", seen |-> 0]}

\* The last WindowSize of n ticks, and how many of them have a verdict.
Recent(n) == {i \in 1 .. n : i + WindowSize > n}
Number(n, v) == Cardinality({i \in Recent(n) : window[i] = v})

\* The threshold is lowered exactly when more than four fifths of the last
\* WindowSize ticks are proven, the ones that are missing counted as proven;
\* zero trust is raised exactly when nothing is more frequent than noise
\* among them (prepare_features, rule_based_predict, to_governance_command).
CommandFitsWindow ==
  LET n == published.seen
      missing == WindowSize - Cardinality(Recent(n))
      noise == Number(n, Noise)
  IN  n > 0 =>
        /\ published.command = "LOWER_SHREWD_THRESHOLD" <=>
             5 * (Number(n, Proven) + missing) > 4 * WindowSize
        /\ published.command = "RAISE_ZERO_TRUST" <=>
             /\ noise >= Number(n, Proven) + missing
             /\ \A v \in {1, 2} : noise >= Number(n, v)

\* A feed whose last WindowSize ticks stay mostly noise, whatever came before
\* them, ends up with zero trust raised for good (run_shrewd_rtx).
MostlyNoise ==
  window # <<>> /\ 2 * Number(Len(window), Noise) > WindowSize
NoiseAnswered ==
  <>[]MostlyNoise => <>[](published.command = "RAISE_ZERO_TRUST")
=============================================================================
