---------------------------- MODULE MCVictimScan ----------------------------
(* Small instances of VictimScan: two ages, the older one worth more. *)
EXTENDS VictimScan, TLC

CONSTANT NrLines

MCLines == 0 .. (NrLines - 1)
MCGcOrder == [k \in 0 .. (PgsPerLine - 1) |-> k]
MCBlkOf == [k \in 0 .. (PgsPerLine - 1) |-> "a"]
MCAgeSteps == <<Step(1, 1), Step(MaxU64, 2)>>

Symmetry == Permutations(LPN)

=============================================================================
