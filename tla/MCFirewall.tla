----------------------------- MODULE MCFirewall -----------------------------
(***************************************************************************)
(* Small instances of Firewall: a grid of two by two cells, two badges.    *)
(***************************************************************************)
EXTENDS Firewall, TLC

CONSTANTS b1, b2

TwoBadges == {b1, b2}

\* A ship of two cells and one of one cell.
TwoPlacements == {{<<0, 1>>, <<1, 1>>}, {<<1, 0>>}}

\* The badges never draw the same number, and either may have the higher.
DifferentDraws == (b1 :> {0, 2}) @@ (b2 :> {1})

\* The instance is one that the proofs are about.
ASSUME InstanceIsForTwo == TwoPlayers
=============================================================================
