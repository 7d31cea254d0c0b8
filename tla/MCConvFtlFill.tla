---------------------------- MODULE MCConvFtlFill ----------------------------
(***************************************************************************)
(* VictimQueue with the geometry of the default build (ssd_config.h: 32     *)
(* blocks per plane, so 32 lines, and 7% of OP, so that 100/107 of the      *)
(* physical pages are addressable) and one host workload: write the whole   *)
(* namespace once in order, then keep rewriting its last HotSet pages in    *)
(* order.  Lines are scaled down to PgsPerLine pages.                       *)
(***************************************************************************)
EXTENDS VictimQueue

CONSTANT HotSet

VARIABLE written    \* host_write_pages

FillLines == 0 .. 31
FillLPN == 0 .. ((32 * PgsPerLine * 100) \div 107 - 1)
FillGcOrder == [k \in 0 .. (PgsPerLine - 1) |-> k]
FillBlkOf == [k \in 0 .. (PgsPerLine - 1) |-> (2 * k) \div PgsPerLine]

NrLpns == Cardinality(LPN)
WorkloadLpn ==
    IF written < NrLpns THEN written
    ELSE NrLpns - HotSet + ((written - NrLpns) % HotSet)

FillInit == QInitWith([i \in 1 .. TtLines |-> i - 1]) /\ written = 0
FillNext ==
    \/ QWritePage(WorkloadLpn) /\ written' = written + 1
    \/ QInternalStep /\ UNCHANGED written
FillSpec == FillInit /\ [][FillNext]_<<qvars, written>>

\* "wp->curline is always our next-to-write super-block": neither write
\* pointer is ever left without a line.
CurlineAlwaysNext == wp.line # NULL /\ gc_wp.line # NULL

=============================================================================
