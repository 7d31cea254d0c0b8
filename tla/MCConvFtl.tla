------------------------------ MODULE MCConvFtl ------------------------------
(***************************************************************************)
(* Small instances of ConvFtl.  A line of three pages: two erase blocks,    *)
(* of which do_gc visits the pages in another order than they are written.  *)
(***************************************************************************)
EXTENDS ConvFtl, TLC

\* Write order: block a, block b, block a; do_gc: both of a, then b.
MCGcOrder == CASE PgsPerLine = 2 -> 0 :> 0 @@ 1 :> 1
               [] PgsPerLine = 3 -> 0 :> 0 @@ 1 :> 2 @@ 2 :> 1
MCBlkOf == [k \in 0 .. (PgsPerLine - 1) |-> IF k = 1 THEN "b" ELSE "a"]

Symmetry == Permutations(LPN) \cup Permutations(Lines)

\* One numbering of the lines, for the run without symmetry.
AnOrder == CHOOSE s \in LineOrders : TRUE
LiveSpec == InitWith(AnOrder) /\ [][Next]_vars /\ WF_vars(InternalStep)

=============================================================================
