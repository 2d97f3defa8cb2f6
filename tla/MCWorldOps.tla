----------------------------- MODULE MCWorldOps ----------------------------
(* WorldOps for TLC: a pack, and two later ones. *)
EXTENDS WorldOps, TLC

CONSTANTS old, new, newer

\* The last needs another Java.  The chart's tag is the one the first needs, and the
\* script's assumption is right for it.
LaterJavaOf == (old :> "java8") @@ (new :> "java8") @@ (newer :> "java21")

\* The chart's tag is the one the old pack needs.
MCJavaOf == (old :> "java17") @@ (new :> "java21") @@ (newer :> "java21")

\* The pack is upgraded twice.
TwoUpgrades == (old :> {new}) @@ (new :> {newer}) @@ (newer :> {})
=============================================================================
