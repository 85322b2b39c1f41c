------------------------------ MODULE SingleUse ------------------------------
(***************************************************************************)
(* What a store of single-use values promises its callers, whatever it is  *)
(* made of: a value is issued once, can be redeemed by at most one caller, *)
(* and once it is redeemed or discarded it never becomes redeemable again. *)
(* The stores of src/packages/shinauth/src/db/internal-adapter.ts are      *)
(* shown to implement it.                                                  *)
(***************************************************************************)
EXTENDS Naturals

CONSTANT Callers

VARIABLES
  issued,     \* how many values were issued; value g is the g-th
  live,       \* the values that can still be redeemed
  redeemed    \* pairs <<caller, value>>: who redeemed what

vars == <<issued, live, redeemed>>

Init ==
  /\ issued \in Nat
  /\ live \subseteq 1..issued
  /\ redeemed = {}

\* A new value may replace older ones, or already have expired when it arrives.
Issue ==
  /\ issued' = issued + 1
  /\ live' \subseteq live \cup {issued + 1}
  /\ UNCHANGED redeemed

Redeem(c, g) ==
  /\ g \in live
  /\ live' = live \ {g}
  /\ redeemed' = redeemed \cup {<<c, g>>}
  /\ UNCHANGED issued

Discard ==
  /\ live' \subseteq live
  /\ UNCHANGED <<issued, redeemed>>

Next ==
  \/ Issue
  \/ Discard
  \/ \E c \in Callers : \E g \in live : Redeem(c, g)

Spec == Init /\ [][Next]_vars
=============================================================================
