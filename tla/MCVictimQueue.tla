---------------------------- MODULE MCVictimQueue ----------------------------
(* A small instance of VictimQueue: a line is one erase block of two pages. *)
EXTENDS VictimQueue, TLC

MCGcOrder == [k \in 0 .. (PgsPerLine - 1) |-> k]
MCBlkOf == [k \in 0 .. (PgsPerLine - 1) |-> "a"]

Symmetry == Permutations(LPN) \cup Permutations(Lines)

=============================================================================
