------------------------------- MODULE ConvFtl -------------------------------
(***************************************************************************)
(* The page-mapped flash translation layer of the conventional SSD target  *)
(* (conv_ftl.c): one partition, i.e. one struct conv_ftl.                   *)
(*                                                                         *)
(* All of this code runs in the single dispatcher thread.  A host command   *)
(* is a loop over logical pages; an iteration of the loop of conv_write is  *)
(* WritePage followed by the steps of check_and_refill_write_credit, an     *)
(* iteration of conv_discard is DiscardPage.  "idle" is the top of a loop.  *)
(*                                                                         *)
(* A physical page is <<line, k>>, k being its place in the order in which  *)
(* advance_write_pointer walks the line (module WritePointer); GcOrder is   *)
(* the order in which do_gc walks it and BlkOf the erase block of a page.   *)
(* The heap behind victim_line_pq is the set of its members here; the heap,  *)
(* the ages and the victim policies are in module VictimQueue.  Timing and   *)
(* the statistics that only conv_flush prints are left out.                  *)
(***************************************************************************)
EXTENDS Integers, Sequences, FiniteSets

CONSTANTS
    Lines,          \* lm.lines: the superblocks
    PgsPerLine,     \* spp->pgs_per_line
    LPN,            \* logical page numbers the host addresses
    GcThres,        \* cp.gc_thres_lines_high
    GcOrder,        \* GcOrder[i]: the i-th page that do_gc visits in a line
    BlkOf,          \* BlkOf[k]: erase block of page k of a line
    CreditMax,      \* largest value of the uint32_t write_credits
    UNMAPPED,       \* UNMAPPED_PPA
    INVALID_LPN,    \* INVALID_LPN
    NULL            \* the NULL of get_next_free_line

TtLines == Cardinality(Lines)
Offs  == 0 .. (PgsPerLine - 1)
Pages == Lines \X Offs
Blks  == {BlkOf[k] : k \in Offs}

ASSUME SizeAssumption ==
    /\ IsFiniteSet(Lines) /\ TtLines >= 3
    /\ PgsPerLine \in Nat /\ PgsPerLine >= 1
    /\ GcThres \in Nat /\ GcThres >= 2
    /\ CreditMax \in Nat /\ CreditMax >= PgsPerLine
    /\ IsFiniteSet(LPN)

ASSUME OrderAssumption ==
    /\ GcOrder \in [Offs -> Offs]
    /\ \A i, j \in Offs : GcOrder[i] = GcOrder[j] => i = j
    /\ \A k \in Offs : \E i \in Offs : GcOrder[i] = k
    /\ BlkOf \in [Offs -> Blks]

ASSUME TokenAssumption ==
    /\ UNMAPPED \notin Pages
    /\ INVALID_LPN \notin LPN
    /\ NULL \notin Lines

VARIABLES
    maptbl,             \* lpn -> page or UNMAPPED
    rmap,               \* page -> lpn or INVALID_LPN
    status,             \* page -> PG_FREE, PG_VALID, PG_INVALID
    lm,                 \* struct line_mgmt with the counters of its lines
    wp, gc_wp,          \* write pointers of USER_IO and GC_IO
    write_credits, credits_to_refill,
    pc,                 \* where the dispatcher is
    victim_line, gc_pos \* local variables of do_gc

vars == <<maptbl, rmap, status, lm, wp, gc_wp, write_credits,
          credits_to_refill, pc, victim_line, gc_pos>>
mapvars  == <<maptbl, rmap, status>>
flowvars == <<write_credits, credits_to_refill>>
gcvars   == <<victim_line, gc_pos>>

-----------------------------------------------------------------------------
(* Line management. *)

ListSet(s) == {s[i] : i \in 1 .. Len(s)}

\* get_next_free_line: the head of the list leaves it, or NULL.
get_next_free_line(m) ==
    IF m.free_line_list = <<>> THEN NULL ELSE Head(m.free_line_list)

\* Mutant: the line handed out stays on the list.
take_free_line_kept(m) ==
    IF m.free_line_list = <<>> THEN m ELSE [m EXCEPT !.free_line_cnt = @ - 1]

take_free_line(m) ==
    IF m.free_line_list = <<>> THEN m
    ELSE [m EXCEPT !.free_line_list = Tail(@), !.free_line_cnt = @ - 1]

\* mark_page_invalid, the part about the line: a full line becomes a victim.
mark_page_invalid(m, l) ==
    LET was_full_line == m.vpc[l] = PgsPerLine
    IN  [m EXCEPT !.ipc[l] = @ + 1,
                  !.vpc[l] = @ - 1,
                  !.full_line_list = IF was_full_line THEN @ \ {l} ELSE @,
                  !.victim_line_pq = IF was_full_line THEN @ \cup {l} ELSE @]

\* mark_page_valid, the part about the line.
mark_page_valid(m, l) == [m EXCEPT !.vpc[l] = @ + 1]

\* Mutant: a used-up line is a victim whatever its pages.
close_line_as_victim(m, l) == [m EXCEPT !.victim_line_pq = @ \cup {l}]

\* A line is used up: to the full list if all its pages are still valid.
close_line(m, l) ==
    IF m.vpc[l] = PgsPerLine
    THEN [m EXCEPT !.full_line_list = @ \cup {l}]
    ELSE [m EXCEPT !.victim_line_pq = @ \cup {l}]

\* advance_write_pointer: the next page of the line, or the first of the next
\* free line, taken eagerly when the last page of the line has been written.
advance_write_pointer(m, w) ==
    IF w.off + 1 < PgsPerLine
    THEN [lm |-> m, wp |-> [w EXCEPT !.off = @ + 1]]
    ELSE LET m1 == close_line(m, w.line)
         IN  [lm |-> take_free_line(m1),
              wp |-> [line |-> get_next_free_line(m1), off |-> 0]]

\* Mutant: the counters of the erased line survive.
mark_line_free_no_reset(m, l) ==
    [m EXCEPT !.free_line_list = Append(@, l), !.free_line_cnt = @ + 1]

mark_line_free(m, l) ==
    [m EXCEPT !.ipc[l] = 0, !.vpc[l] = 0,
              !.free_line_list = Append(@, l),
              !.free_line_cnt = @ + 1]

\* mark_block_free: every page of one erase block of the line.
mark_block_free(st, l, b) ==
    [p \in Pages |-> IF p[1] = l /\ BlkOf[p[2]] = b THEN "PG_FREE" ELSE st[p]]

\* Mutant: a line's worth of credit for every victim.
VictimCredit_line(m, v) == PgsPerLine

\* Mutant: the pages to copy instead of the pages to gain.
VictimCredit_vpc(m, v) == m.vpc[v]

\* do_gc: the host may write as many pages as the victim has invalid ones.
VictimCredit(m, v) == m.ipc[v]

\* write_credits is unsigned.
consume_write_credit(c) == IF c = 0 THEN CreditMax ELSE c - 1

should_gc_high(m) == m.free_line_cnt <= GcThres

\* Mutant: the page before the write pointer.
NewPage_behind(w) == <<w.line, IF w.off = 0 THEN 0 ELSE w.off - 1>>

NewPage(w) == <<w.line, w.off>>

-----------------------------------------------------------------------------
\* Every numbering of the lines; their identity plays no part below.
LineOrders ==
    {s \in [1 .. TtLines -> Lines] :
        /\ \A i, j \in 1 .. TtLines : s[i] = s[j] => i = j
        /\ \A l \in Lines : \E i \in 1 .. TtLines : s[i] = l}

\* conv_init_ftl: init_maptbl, init_rmap, init_lines, prepare_write_pointer
\* for the host and then for GC, init_write_flow_control.
InitWith(order) ==
    /\ maptbl = [l \in LPN |-> UNMAPPED]
    /\ rmap = [p \in Pages |-> INVALID_LPN]
    /\ status = [p \in Pages |-> "PG_FREE"]
    /\ wp = [line |-> order[1], off |-> 0]
    /\ gc_wp = [line |-> order[2], off |-> 0]
    /\ lm = [ipc |-> [l \in Lines |-> 0], vpc |-> [l \in Lines |-> 0],
             free_line_list |-> [i \in 1 .. (TtLines - 2) |-> order[i + 2]],
             free_line_cnt |-> TtLines - 2,
             full_line_list |-> {}, victim_line_pq |-> {}]
    /\ write_credits = PgsPerLine
    /\ credits_to_refill = PgsPerLine
    /\ pc = "idle"
    /\ victim_line = NULL
    /\ gc_pos = 0

Init == \E order \in LineOrders : InitWith(order)

\* One iteration of conv_write: invalidate the old page, take a new one, map
\* it both ways, advance the write pointer and consume a credit.  Without a
\* free line the NULL that advance_write_pointer dereferences stops the
\* thread.
WritePage(lpn) ==
    LET old == maptbl[lpn]
        new == NewPage(wp)
        overwrite == old # UNMAPPED
        m1  == IF overwrite THEN mark_page_invalid(lm, old[1]) ELSE lm
        rm1 == IF overwrite THEN [rmap EXCEPT ![old] = INVALID_LPN] ELSE rmap
        st1 == IF overwrite THEN [status EXCEPT ![old] = "PG_INVALID"] ELSE status
        adv == advance_write_pointer(mark_page_valid(m1, new[1]), wp)
        credits == consume_write_credit(write_credits)
    IN  /\ pc = "idle"
        /\ maptbl' = [maptbl EXCEPT ![lpn] = new]
        /\ rmap' = [rm1 EXCEPT ![new] = lpn]
        /\ status' = [st1 EXCEPT ![new] = "PG_VALID"]
        /\ lm' = adv.lm
        /\ wp' = adv.wp
        /\ IF adv.wp.line = NULL
           THEN pc' = "oops" /\ UNCHANGED write_credits
           ELSE /\ write_credits' = credits
                /\ pc' = IF credits = 0 THEN "check" ELSE "idle"
        /\ UNCHANGED <<gc_wp, credits_to_refill, gcvars>>

\* One iteration of conv_discard for a mapped page; others are skipped.
DiscardPage(lpn) ==
    LET old == maptbl[lpn]
    IN  /\ pc = "idle"
        /\ old # UNMAPPED
        /\ lm' = mark_page_invalid(lm, old[1])
        /\ status' = [status EXCEPT ![old] = "PG_INVALID"]
        /\ rmap' = [rmap EXCEPT ![old] = INVALID_LPN]
        /\ maptbl' = [maptbl EXCEPT ![lpn] = UNMAPPED]
        /\ UNCHANGED <<wp, gc_wp, flowvars, pc, gcvars>>

\* check_and_refill_write_credit when foreground_gc collects nothing: there
\* are enough free lines, or do_gc finds no victim, and its -1 is ignored.
RefillNoGc ==
    /\ pc = "check"
    /\ should_gc_high(lm) => lm.victim_line_pq = {}
    /\ write_credits' = write_credits + credits_to_refill
    /\ pc' = "idle"
    /\ UNCHANGED <<mapvars, lm, wp, gc_wp, credits_to_refill, gcvars>>

\* do_gc up to its loop: select_victim_line takes the victim v out of the
\* queue, its invalid pages become the next refill.
SelectLine(v) ==
    /\ pc = "check"
    /\ should_gc_high(lm)
    /\ victim_line' = v
    /\ lm' = [lm EXCEPT !.victim_line_pq = @ \ {v}]
    /\ credits_to_refill' = VictimCredit(lm, v)
    /\ gc_pos' = 0
    /\ pc' = "gc"
    /\ UNCHANGED <<mapvars, wp, gc_wp, write_credits>>

\* Which line of the queue it is depends on the policy of the build (module
\* VictimQueue); nothing here depends on it.
SelectVictim == \E v \in lm.victim_line_pq : SelectLine(v)

\* Mutant: the cursor walks the line of the host's write pointer.
GcPage_open == <<wp.line, GcOrder[gc_pos]>>

\* The page of the victim at the cursor of do_gc.
GcPage == <<victim_line, GcOrder[gc_pos]>>

\* do_gc erases a block right after its last flash page has been cleaned.
LastOfBlk(i) ==
    \A j \in Offs : j > i => BlkOf[GcOrder[j]] # BlkOf[GcOrder[i]]

\* Mutant: a block is erased with its first page.
EraseAfter_early(st, i) ==
    mark_block_free(st, victim_line, BlkOf[GcOrder[i]])

\* Mutant: the blocks of the victim are not erased.
EraseAfter_never(st, i) == st

EraseAfter(st, i) ==
    IF LastOfBlk(i) THEN mark_block_free(st, victim_line, BlkOf[GcOrder[i]])
    ELSE st

\* Mutant: the cursor stays on a page that is not valid.
GcSkipPage_stuck ==
    /\ pc = "gc"
    /\ gc_pos < PgsPerLine
    /\ status[GcPage] # "PG_VALID"
    /\ UNCHANGED vars

\* clean_one_flashpg passes over a page that is not valid.
GcSkipPage ==
    /\ pc = "gc"
    /\ gc_pos < PgsPerLine
    /\ status[GcPage] # "PG_VALID"
    /\ status' = EraseAfter(status, gc_pos)
    /\ gc_pos' = gc_pos + 1
    /\ UNCHANGED <<maptbl, rmap, lm, wp, gc_wp, flowvars, pc, victim_line>>

\* clean_one_flashpg, gc_write_page: the owner of a valid page moves to a new
\* page of the GC line; the old page and its rmap entry are left as they are.
GcCopyPage ==
    LET lpn == rmap[GcPage]
        new == NewPage(gc_wp)
        adv == advance_write_pointer(mark_page_valid(lm, new[1]), gc_wp)
    IN  /\ pc = "gc"
        /\ gc_pos < PgsPerLine
        /\ status[GcPage] = "PG_VALID"
        /\ maptbl' = [maptbl EXCEPT ![lpn] = new]
        /\ rmap' = [rmap EXCEPT ![new] = lpn]
        /\ lm' = adv.lm
        /\ gc_wp' = adv.wp
        /\ IF adv.wp.line = NULL
           THEN /\ pc' = "oops"
                /\ status' = [status EXCEPT ![new] = "PG_VALID"]
                /\ UNCHANGED gc_pos
           ELSE /\ status' = EraseAfter([status EXCEPT ![new] = "PG_VALID"], gc_pos)
                /\ gc_pos' = gc_pos + 1
                /\ UNCHANGED pc
        /\ UNCHANGED <<wp, flowvars, victim_line>>

\* The end of do_gc, mark_line_free, and of check_and_refill_write_credit.
GcDone ==
    /\ pc = "gc"
    /\ gc_pos = PgsPerLine
    /\ lm' = mark_line_free(lm, victim_line)
    /\ write_credits' = write_credits + credits_to_refill
    /\ pc' = "idle"
    /\ victim_line' = NULL
    /\ gc_pos' = 0
    /\ UNCHANGED <<mapvars, wp, gc_wp, credits_to_refill>>

GcStep == SelectVictim \/ GcSkipPage \/ GcCopyPage \/ GcDone
InternalStep == RefillNoGc \/ GcStep

Next ==
    \/ \E lpn \in LPN : WritePage(lpn) \/ DiscardPage(lpn)
    \/ InternalStep

Spec == Init /\ [][Next]_vars

\* The dispatcher does not stop inside a command.
FairSpec == Spec /\ WF_vars(InternalStep)

-----------------------------------------------------------------------------
(* State functions of the properties. *)

PageStatus == {"PG_FREE", "PG_VALID", "PG_INVALID"}
Marked(l, s) == {k \in Offs : status[<<l, k>>] = s}
Mapped == {lpn \in LPN : maptbl[lpn] # UNMAPPED}
FreeLines == ListSet(lm.free_line_list)
ToVisit(k) == \E j \in Offs : j >= gc_pos /\ GcOrder[j] = k

\* Pages that can still be written before a line has to be erased.
Room == (PgsPerLine - wp.off) + (PgsPerLine - gc_wp.off)
            + PgsPerLine * lm.free_line_cnt

\* Valid pages of the victim that do_gc has not visited yet.
ToCopy == Cardinality({k \in Offs : ToVisit(k) /\ status[<<victim_line, k>>] = "PG_VALID"})

\* Logical space small enough that some line holds an invalid page whenever
\* GcThres lines or fewer are free.  (7% of over-provisioning: 62 lines.)
OverProvisioned == Cardinality(LPN) < (TtLines - 2 - GcThres) * PgsPerLine

-----------------------------------------------------------------------------
(* Properties. *)

\* Types of the tables, the counters and the write pointers of conv_ftl.
TypeOK ==
    /\ maptbl \in [LPN -> Pages \cup {UNMAPPED}]
    /\ rmap \in [Pages -> LPN \cup {INVALID_LPN}]
    /\ status \in [Pages -> PageStatus]
    /\ lm \in [ipc : [Lines -> 0 .. PgsPerLine], vpc : [Lines -> 0 .. PgsPerLine],
               free_line_list : Seq(Lines), free_line_cnt : Nat,
               full_line_list : SUBSET Lines, victim_line_pq : SUBSET Lines]
    /\ wp \in [line : Lines \cup {NULL}, off : Offs]
    /\ gc_wp \in [line : Lines \cup {NULL}, off : Offs]
    /\ write_credits \in 0 .. PgsPerLine
    /\ credits_to_refill \in 1 .. PgsPerLine
    /\ pc \in {"idle", "check", "gc", "oops"}
    /\ victim_line \in Lines \cup {NULL}
    /\ gc_pos \in 0 .. PgsPerLine

\* A mapped logical page lies in a valid physical page whose rmap entry names
\* it, in every state of a write, a discard or a garbage collection: what
\* conv_read follows and what gc_write_page relies on when it moves a page.
MappingSound ==
    \A lpn \in Mapped :
        /\ status[maptbl[lpn]] = "PG_VALID"
        /\ rmap[maptbl[lpn]] = lpn

\* A valid page is the current page of its owner, except the copies do_gc has
\* already moved out of the victim: no page is valid for ever (a leak of
\* space) and no collection resurrects overwritten or discarded data.
NoOrphanPage ==
    pc # "oops" =>
        \A p \in Pages :
            /\ status[p] = "PG_VALID"
            /\ p[1] = victim_line => ToVisit(p[2])
            => rmap[p] \in LPN /\ maptbl[rmap[p]] = p

\* vpc and ipc of every line but the one being collected are the numbers of
\* its valid and invalid pages: the counters that decide full against victim,
\* order the heap and set the write credits.
LineCounts ==
    \A l \in Lines \ {victim_line} :
        /\ lm.vpc[l] = Cardinality(Marked(l, "PG_VALID"))
        /\ lm.ipc[l] = Cardinality(Marked(l, "PG_INVALID"))

\* Every line is in exactly one place: the free list (once), the full list,
\* the victim queue, under one of the write pointers or in the hands of do_gc.
LinePlaces ==
    /\ lm.free_line_cnt = Len(lm.free_line_list)
    /\ \A i, j \in 1 .. Len(lm.free_line_list) :
            lm.free_line_list[i] = lm.free_line_list[j] => i = j
    /\ \A l \in Lines :
        /\ \/ l \in FreeLines \/ l \in lm.full_line_list \/ l \in lm.victim_line_pq
           \/ l \in {wp.line, gc_wp.line, victim_line}
        /\ l \in FreeLines => l \notin lm.full_line_list /\ l \notin lm.victim_line_pq
        /\ l \in lm.full_line_list => l \notin lm.victim_line_pq
        /\ l \in {wp.line, gc_wp.line, victim_line} =>
                l \notin FreeLines /\ l \notin lm.full_line_list /\ l \notin lm.victim_line_pq
        /\ l = wp.line => l # gc_wp.line /\ l # victim_line
        /\ l = gc_wp.line => l # victim_line

\* Where a line is says what its pages are: free lines are erased, a line
\* leaves the full list with its first invalid page and every victim has one,
\* an open line is written exactly up to its write pointer.
LinePages ==
    \A l \in Lines : \A k \in Offs :
        LET st == status[<<l, k>>]
        IN  /\ l \in FreeLines => st = "PG_FREE"
            /\ l \in lm.full_line_list => st = "PG_VALID"
            /\ l \in lm.victim_line_pq => st # "PG_FREE" /\ lm.ipc[l] >= 1
            /\ l = wp.line => (st = "PG_FREE" <=> k >= wp.off)
            /\ l = gc_wp.line => (st = "PG_FREE" <=> k >= gc_wp.off)
            /\ l = victim_line /\ ToVisit(k) => st # "PG_FREE"

\* No NVMEV_ASSERT of mark_page_valid, mark_page_invalid, gc_write_page or
\* clean_one_flashpg can fire: the next page of a write pointer is free, a
\* page about to be invalidated is valid, and "there shouldn't be any free
\* page in victim blocks".
AssertionsHold ==
    /\ pc # "oops" => status[NewPage(wp)] = "PG_FREE" /\ status[NewPage(gc_wp)] = "PG_FREE"
    /\ pc = "idle" => \A lpn \in Mapped :
            lm.ipc[maptbl[lpn][1]] < PgsPerLine /\ lm.vpc[maptbl[lpn][1]] > 0
    /\ pc = "gc" /\ gc_pos < PgsPerLine =>
            /\ status[GcPage] # "PG_FREE"
            /\ status[GcPage] = "PG_VALID" => rmap[GcPage] \in LPN

\* advance_write_pointer never meets an empty free list, which it would
\* dereference as NULL.
NeverOutOfLines == pc # "oops"

\* The reserve behind NeverOutOfLines: between commands there are always two
\* lines' worth of free pages more than the host has credits to write, and
\* in the middle of a collection enough to finish it.
SpaceReserve ==
    /\ pc \in {"idle", "check"} => Room >= 2 * PgsPerLine + write_credits
    /\ pc = "gc" => Room >= PgsPerLine + lm.ipc[victim_line] + ToCopy

\* Credits neither wrap below zero nor grow past a line: a command always
\* finds at least one, so that write_credits (unsigned) is never decremented
\* at zero, and a check is never more than a line's worth of writes away.
CreditsInRange ==
    /\ pc = "idle" => write_credits \in 1 .. PgsPerLine
    /\ pc \in {"check", "gc"} => write_credits = 0

\* Garbage collection and credit accounting are invisible to the host: no
\* step of them maps or unmaps a logical page or moves one that is not in
\* the victim line.
GcInvisible ==
    [][pc # "idle" =>
        /\ Mapped' = Mapped
        /\ \A lpn \in Mapped : maptbl'[lpn] # maptbl[lpn] => maptbl[lpn][1] = victim_line]_vars

\* A write goes to a fresh page: the page a logical page is mapped to changes
\* only to one that was free, whoever moves it.
OutOfPlace ==
    [][\A lpn \in LPN :
        maptbl'[lpn] \notin {maptbl[lpn], UNMAPPED} =>
            status[maptbl'[lpn]] = "PG_FREE" /\ status'[maptbl'[lpn]] = "PG_VALID"]_vars

\* foreground_gc returns: the dispatcher gets back to the next command.
GcReturns == pc \in {"check", "gc"} ~> pc = "idle"

=============================================================================
