------------------------------ MODULE VictimScan ------------------------------
(***************************************************************************)
(* The builds with CONV_GC_POLICY = GC_POLICY_AGE_CB or GC_POLICY_ISOTONIC: *)
(* ConvFtl and its queue with select_victim_cost_benefit, which scans the   *)
(* array of the queue itself and ranks lines by age and space.              *)
(*                                                                         *)
(* The scan reads one slot more than the queue has members: pq->size is the *)
(* index of the first unused slot, and the loop runs up to it.  What lies   *)
(* there is what an earlier removal left, or what kmalloc returned.         *)
(* Statistics and logging of the scan are left out.                         *)
(***************************************************************************)
EXTENDS VictimQueue, CostBenefit

CONSTANTS
    AgeSteps,   \* the table of the build, see CostBenefit
    MaxTime     \* bound of the clock

ASSUME ScanAssumption == Lines = 0 .. (TtLines - 1) /\ MaxTime \in Nat

VARIABLES
    cur_nsecs,              \* time of the command being processed
    last_modified_time      \* line -> time of its last invalidation

svars == <<qvars, cur_nsecs, last_modified_time>>

line_age_ns(l) ==
    IF cur_nsecs > last_modified_time[l] THEN cur_nsecs - last_modified_time[l] ELSE 0

ScoreOf(l) ==
    cost_benefit_score(lm.ipc[l], lm.vpc[l], StepValue(line_age_ns(l), AgeSteps))

Beats(l, k) == Wins(ScoreOf(l), lm.vpc[l], l, ScoreOf(k), lm.vpc[k], k)

\* Mutant: the scan stops before the last member.
Scanned_short == {heap.d[i] : i \in 1 .. (heap.size - 2)} \ {NIL}

\* The lines that the loop of select_victim_cost_benefit looks at.
Scanned == {heap.d[i] : i \in 1 .. heap.size} \ {NIL}

\* A slot never written holds what kmalloc returned.
SlotUninitialized == heap.d[heap.size] = NIL

-----------------------------------------------------------------------------
\* init_lines and conv_init_ftl.
SInit ==
    /\ QInitWith([i \in 1 .. TtLines |-> i - 1])
    /\ cur_nsecs = 0
    /\ last_modified_time = [l \in Lines |-> 0]

\* The time of the next page.  It includes the NAND times of its command, so
\* the next command may well have an earlier one.
SetClock ==
    /\ pc = "idle"
    /\ cur_nsecs' \in (0 .. MaxTime) \ {cur_nsecs}
    /\ UNCHANGED <<qvars, last_modified_time>>

\* mark_page_invalid stamps the line.
Stamp(lpn) ==
    last_modified_time' =
        IF maptbl[lpn] = UNMAPPED THEN last_modified_time
        ELSE [last_modified_time EXCEPT ![maptbl[lpn][1]] = cur_nsecs]

SWritePage(lpn) == QWritePage(lpn) /\ Stamp(lpn) /\ UNCHANGED cur_nsecs
SDiscardPage(lpn) == QDiscardPage(lpn) /\ Stamp(lpn) /\ UNCHANGED cur_nsecs

\* select_victim_cost_benefit: the best of the lines scanned, the queue not
\* being empty.  pqueue_remove trusts the position of the line.
select_victim_cost_benefit ==
    /\ pqueue_peek(heap) # NIL
    /\ \E best \in Scanned :
        /\ \A l \in Scanned \ {best} : Beats(best, l)
        /\ SelectLine(best)
        /\ heap' = [pqueue_remove(heap, lm.vpc, best) EXCEPT !.pos[best] = 0]
    /\ UNCHANGED <<cur_nsecs, last_modified_time>>

\* The same when the slot after the last one was never written and kmalloc's
\* memory was not zero: the pointer found there is not a line.
ScanWild ==
    /\ pc = "check"
    /\ should_gc_high(lm)
    /\ pqueue_peek(heap) # NIL
    /\ SlotUninitialized
    /\ pc' = "oops"
    /\ UNCHANGED <<mapvars, lm, wp, gc_wp, flowvars, gcvars, heap, cur_nsecs, last_modified_time>>

\* The victim is not a line of the queue.  Behaviours are followed until
\* do_gc gets such a line: it then stops at the assertion of
\* clean_one_flashpg, or frees a line that is in use.
Stray ==
    pc = "gc" /\ victim_line \in FreeLines \cup lm.full_line_list \cup {wp.line, gc_wp.line}

\* Mutant: the stamp survives the erase.
SGcDone_no_reset ==
    /\ ~Stray
    /\ GcDone
    /\ UNCHANGED <<heap, cur_nsecs, last_modified_time>>

\* mark_line_free clears the stamp.
SGcDone ==
    /\ ~Stray
    /\ GcDone
    /\ last_modified_time' = [last_modified_time EXCEPT ![victim_line] = 0]
    /\ UNCHANGED <<heap, cur_nsecs>>

SQuietStep ==
    /\ ~Stray
    /\ \/ QGcCopyPage
       \/ (RefillNoGc \/ GcSkipPage) /\ UNCHANGED heap
    /\ UNCHANGED <<cur_nsecs, last_modified_time>>

SNext ==
    \/ SetClock
    \/ \E lpn \in LPN : SWritePage(lpn) \/ SDiscardPage(lpn)
    \/ select_victim_cost_benefit
    \/ ScanWild
    \/ SGcDone
    \/ SQuietStep

SSpec == SInit /\ [][SNext]_svars

-----------------------------------------------------------------------------
\* "scan every candidate and maximize AgeValue*IPC/(VPC+1)": among the lines
\* of the queue none beats the victim, if the victim is one of them.
ScanTakesBest ==
    [][pc = "check" /\ pc' = "gc" /\ ~Stray' =>
        /\ victim_line' \in lm.victim_line_pq
        /\ \A l \in lm.victim_line_pq \ {victim_line'} : Beats(victim_line', l)]_svars

\* A line without an invalid page has no stamp: the age of a line is never
\* that of an earlier life, although the stamp is set and cleared by other
\* functions than those that move the line from list to list.
StampsFresh ==
    ~Stray => \A l \in Lines \ {victim_line} :
        lm.ipc[l] = 0 => last_modified_time[l] = 0

\* "there shouldn't be any free page in victim blocks", of clean_one_flashpg.
NoFreePageInVictim ==
    pc = "gc" /\ gc_pos < PgsPerLine => status[GcPage] # "PG_FREE"

=============================================================================
