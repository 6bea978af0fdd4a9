---------------------------- MODULE MCPaperReplay ----------------------------
(* One symbol and one cycle with up to two exits, and the fees of a real      *)
(* policy: partial fills, partial exits, reservations that are too small.     *)
EXTENDS PaperReplay, TLC

MCStartPosition == [s \in Symbols |-> 2]
MCStartCash == BuyCost(2)
Symmetry == Permutations(Arbitrations)
=============================================================================
