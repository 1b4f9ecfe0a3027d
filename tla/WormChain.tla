----------------------------- MODULE WormChain ------------------------------
(***************************************************************************)
(* What a WORM chain promises, whatever stores it and whatever links it: a *)
(* sequence of sealed entries that only ever grows at its end, one entry   *)
(* at a time, where each entry's hash is Link of the hash before it and of *)
(* what was sealed.  `tip' is the hash the next entry will be linked to.   *)
(***************************************************************************)
EXTENDS Sequences

CONSTANTS Items,       \* what can be sealed
          Genesis,     \* the tip of the empty chain
          Link(_, _)   \* the hash of an item sealed after a tip

VARIABLES chain, tip

wormVars == <<chain, tip>>

WormInit == chain = <<>> /\ tip = Genesis

Seal(item) ==
  /\ chain' = Append(chain, [item |-> item, hash |-> Link(tip, item)])
  /\ tip' = Link(tip, item)

WormNext == \E item \in Items : Seal(item)

WormSpec == WormInit /\ [][WormNext]_wormVars
=============================================================================
