----------------------------- MODULE VictimQueue -----------------------------
(***************************************************************************)
(* ConvFtl with the priority queue the code really keeps.  heap is the      *)
(* pqueue_t behind lm.victim_line_pq together with line->pos; every action  *)
(* of ConvFtl makes its calls of the queue as well, and the victim is what  *)
(* the queue returns, not a member of the set.  The set lm.victim_line_pq   *)
(* stays as the specification of what the queue should hold.                *)
(*                                                                         *)
(* This module is the build with CONV_GC_POLICY = GC_POLICY_GREEDY; module  *)
(* VictimScan replaces the selection by that of the other two policies.     *)
(***************************************************************************)
EXTENDS ConvFtl, PQueue

ASSUME QueueAssumption == NIL \notin Lines    \* NULL points to no line

VARIABLE heap

qvars == <<vars, heap>>

\* The calls of the queue in mark_page_invalid for line l, m being the line
\* management before it.  A queued line moves up, a full one is inserted.
requeue(h, m, l) ==
    LET h1 == IF h.pos[l] # 0
              THEN pqueue_change_priority(h, m.vpc, m.vpc[l] - 1, l) ELSE h
    IN  IF m.vpc[l] = PgsPerLine
        THEN pqueue_insert(h1, mark_page_invalid(m, l).vpc, l) ELSE h1

\* Mutant: every line that is used up is queued.
queue_closed_always(h, m, w) ==
    IF w.off + 1 = PgsPerLine THEN pqueue_insert(h, m.vpc, w.line) ELSE h

\* The call in advance_write_pointer: a used-up line with an invalid page.
queue_closed(h, m, w) ==
    IF w.off + 1 = PgsPerLine /\ m.vpc[w.line] # PgsPerLine
    THEN pqueue_insert(h, m.vpc, w.line) ELSE h

QInitWith(order) == InitWith(order) /\ heap = pqueue_init(TtLines, Lines)
QInit == Init /\ heap = pqueue_init(TtLines, Lines)

QWritePage(lpn) ==
    LET overwrite == maptbl[lpn] # UNMAPPED
        l  == maptbl[lpn][1]
        h1 == IF overwrite THEN requeue(heap, lm, l) ELSE heap
        m1 == IF overwrite THEN mark_page_invalid(lm, l) ELSE lm
    IN  /\ WritePage(lpn)
        /\ heap' = queue_closed(h1, mark_page_valid(m1, wp.line), wp)

QDiscardPage(lpn) ==
    /\ DiscardPage(lpn)
    /\ heap' = requeue(heap, lm, maptbl[lpn][1])

\* select_victim_greedy, as do_gc calls it with force set.
select_victim_greedy ==
    /\ pqueue_peek(heap) # NIL
    /\ SelectLine(pqueue_peek(heap))
    /\ heap' = [pqueue_pop(heap, lm.vpc) EXCEPT !.pos[pqueue_peek(heap)] = 0]

QGcCopyPage ==
    /\ GcCopyPage
    /\ heap' = queue_closed(heap, mark_page_valid(lm, gc_wp.line), gc_wp)

QQuietStep ==
    /\ RefillNoGc \/ GcSkipPage \/ GcDone
    /\ UNCHANGED heap

QInternalStep == select_victim_greedy \/ QGcCopyPage \/ QQuietStep

QNext ==
    \/ \E lpn \in LPN : QWritePage(lpn) \/ QDiscardPage(lpn)
    \/ QInternalStep

QSpec == QInit /\ [][QNext]_qvars

-----------------------------------------------------------------------------
\* The queue holds exactly the lines that have left the full list or were
\* used up with an invalid page, each once; no line is before one with fewer
\* valid pages, although the priorities are counters that mark_page_invalid
\* changes in place; and line->pos, by which it tells a queued line from
\* another and finds it, is the slot of a queued line and 0 for any other.
HeapSound ==
    /\ Members(heap) = lm.victim_line_pq
    /\ heap.size - 1 = Cardinality(lm.victim_line_pq)
    /\ \A i \in 2 .. (heap.size - 1) : lm.vpc[heap.d[parent(i)]] <= lm.vpc[heap.d[i]]
    /\ \A l \in Lines :
        IF l \in lm.victim_line_pq
        THEN heap.pos[l] \in 1 .. (heap.size - 1) /\ heap.d[heap.pos[l]] = l
        ELSE heap.pos[l] = 0

\* The heap implements the set: ConvFtl, for which the theorems are proved,
\* allows every step of the build with the heap.
ImplementsConvFtl == Spec

=============================================================================
