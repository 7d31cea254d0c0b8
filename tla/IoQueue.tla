------------------------------- MODULE IoQueue -------------------------------
(***************************************************************************)
(* The work queue of one I/O worker (io.c), between the dispatcher, which   *)
(* alone links and unlinks entries, and the worker thread, which walks the  *)
(* list without a lock.  CONFIG_NVMEV_IO_WORKER_BY_SQ gives each worker the *)
(* commands of its own submission queues, so the queues do not interact.    *)
(*                                                                         *)
(* A step is what one thread does between two accesses that the other can   *)
(* observe.  A command is a request of the host ("io": copy the data, then  *)
(* post a completion when its time has come) or an internal operation       *)
(* ("internal": release the write buffer when its time has come).  What a   *)
(* command does to the FTL, and the completion queue, are left out.         *)
(***************************************************************************)
EXTENDS Integers, FiniteSets

CONSTANTS
    NrEntries,      \* NR_MAX_PARALLEL_IO
    NrCmds,         \* bound: commands of a behaviour
    MaxTime         \* bound: largest time

ASSUME IoAssumption == NrEntries \in Nat \ {0} /\ NrCmds \in Nat /\ MaxTime \in Nat

NIL     == -1
Entries == 0 .. (NrEntries - 1)
Cmds    == 1 .. NrCmds
Times   == 0 .. MaxTime

VARIABLES
    work_queue,     \* entry -> struct nvmev_io_work
    worker,         \* heads and tails of the two lists, latest_nsecs
    disp,           \* where the dispatcher is, its local variables
    thr,            \* where the worker thread is, its local variables
    clock,
    issued,         \* command -> "new", "io", "internal" or "dropped"
    copied,         \* commands whose data has been copied
    done            \* command -> number of completions or releases, up to 2

vars == <<work_queue, worker, disp, thr, clock, issued, copied, done>>
history == <<issued, copied, done>>

-----------------------------------------------------------------------------
\* NVMEV_IO_WORKER_INIT: all entries chained on the free list, zeroed.
Init ==
    /\ work_queue = [e \in Entries |->
            [cmd |-> 0, buf |-> 0, nsecs_target |-> 0, is_completed |-> FALSE,
             is_copied |-> FALSE, is_internal |-> FALSE,
             next |-> IF e + 1 \in Entries THEN e + 1 ELSE NIL, prev |-> e - 1]]
    /\ worker = [free_seq |-> 0, free_seq_end |-> NrEntries - 1,
                 io_seq |-> NIL, io_seq_end |-> NIL, latest_nsecs |-> 0]
    /\ disp = [pc |-> "idle", entry |-> NIL, curr |-> NIL, kind |-> "io", last |-> NIL]
    /\ thr = [pc |-> "top", curr |-> NIL, now |-> 0]
    /\ clock = 0
    /\ issued = [c \in Cmds |-> "new"]
    /\ copied = {}
    /\ done = [c \in Cmds |-> 0]

-----------------------------------------------------------------------------
(* The dispatcher: __enqueue_io_req or schedule_internal_operation, and      *)
(* __reclaim_completed_reqs after the former.                                *)

\* The commands come in the order of their numbers.
NextCmd(c) == issued[c] = "new" /\ \A b \in Cmds : b < c => issued[b] # "new"

AfterEnqueue(kind) == IF kind = "io" THEN "reclaim" ELSE "idle"

\* __allocate_work_queue_entry keeps the last free entry for itself.
NoEntry == work_queue[worker.free_seq].next = NIL

\* No entry: both callers return, and nothing will complete the command.
Drop(c, kind) ==
    /\ disp.pc = "idle"
    /\ NextCmd(c)
    /\ NoEntry
    /\ issued' = [issued EXCEPT ![c] = "dropped"]
    /\ disp' = [disp EXCEPT !.pc = AfterEnqueue(kind)]
    /\ UNCHANGED <<work_queue, worker, thr, clock, copied, done>>

\* An entry leaves the free list; its fields are set up to is_completed.
Allocate(c, kind, t) ==
    LET e == worker.free_seq
    IN  /\ disp.pc = "idle"
        /\ NextCmd(c)
        /\ ~NoEntry
        /\ worker' = [worker EXCEPT !.free_seq = work_queue[e].next]
        /\ work_queue' = [work_queue EXCEPT
                ![e].cmd = IF kind = "io" THEN c ELSE @,
                ![e].nsecs_target = t,
                ![e].is_completed = FALSE]
        /\ issued' = [issued EXCEPT ![c] = kind]
        /\ disp' = [disp EXCEPT !.pc = "fill", !.entry = e, !.curr = c, !.kind = kind]
        /\ UNCHANGED <<thr, clock, copied, done>>

\* The worker uses an entry whose fields are being set.  What the hardware
\* makes of that is not followed any further: both threads stop.
Torn == disp.pc = "fill" /\ thr.curr = disp.entry /\ thr.pc \in {"copy", "due"}

\* The other fields.  An internal operation has nothing to copy.
Fill ==
    LET e == disp.entry
    IN  /\ disp.pc = "fill"
        /\ ~Torn
        /\ work_queue' = [work_queue EXCEPT
                ![e].is_copied = (disp.kind = "internal"),
                ![e].prev = NIL, ![e].next = NIL,
                ![e].is_internal = (disp.kind = "internal"),
                ![e].buf = IF disp.kind = "internal" THEN disp.curr ELSE @]
        /\ disp' = [disp EXCEPT !.pc = "seek", !.curr = worker.io_seq_end]
        /\ UNCHANGED <<worker, thr, clock, history>>

\* Mutant: a new entry always goes to the end.
StopsAt_tail(w, x, t) == TRUE

\* __insert_req_sorted stops at an entry that is due already or earlier.
StopsAt(w, x, t) == x.nsecs_target <= w.latest_nsecs \/ x.nsecs_target <= t

PlaceFound ==
    worker.io_seq # NIL /\ disp.curr # NIL =>
        StopsAt(worker, work_queue[disp.curr], work_queue[disp.entry].nsecs_target)

\* __insert_req_sorted looks for the place from the end of a nonempty list.
Seek ==
    /\ disp.pc = "seek"
    /\ ~PlaceFound
    /\ disp' = [disp EXCEPT !.curr = work_queue[disp.curr].prev]
    /\ UNCHANGED <<work_queue, worker, thr, clock, history>>

\* The place is found: the entry gets its links.
Link ==
    LET e == disp.entry
        empty == worker.io_seq = NIL
        head  == ~empty /\ disp.curr = NIL
        succ  == IF empty THEN NIL ELSE IF head THEN worker.io_seq ELSE work_queue[disp.curr].next
    IN  /\ disp.pc = "seek"
        /\ PlaceFound
        /\ work_queue' = [x \in Entries |->
                IF x = e THEN [work_queue[e] EXCEPT
                                    !.prev = IF empty THEN NIL ELSE disp.curr, !.next = succ]
                ELSE IF x = succ THEN [work_queue[x] EXCEPT !.prev = e]
                ELSE work_queue[x]]
        /\ worker' = [worker EXCEPT !.io_seq_end = IF succ = NIL THEN e ELSE @]
        /\ disp' = [disp EXCEPT !.pc = "publish", !.curr = IF empty THEN NIL ELSE @]
        /\ UNCHANGED <<thr, clock, history>>

\* The store that makes the entry visible to the worker.
Publish ==
    /\ disp.pc = "publish"
    /\ IF disp.curr = NIL
       THEN worker' = [worker EXCEPT !.io_seq = disp.entry] /\ UNCHANGED work_queue
       ELSE work_queue' = [work_queue EXCEPT ![disp.curr].next = disp.entry]
            /\ UNCHANGED worker
    /\ disp' = [disp EXCEPT !.pc = AfterEnqueue(disp.kind), !.entry = NIL, !.curr = NIL]
    /\ UNCHANGED <<thr, clock, history>>

\* Mutant: a request whose data has been copied is given up.
Reclaimable_copied(w, x) == x.is_copied /\ x.nsecs_target <= w.latest_nsecs

Reclaimable(w, x) ==
    x.is_completed /\ x.is_copied /\ x.nsecs_target <= w.latest_nsecs

\* The i-th entry of the list that starts at hd, NIL after the last one.
Walk(hd) ==
    LET at[i \in 0 .. NrEntries] ==
            IF i = 0 THEN hd
            ELSE IF at[i - 1] = NIL THEN NIL ELSE work_queue[at[i - 1]].next
    IN  at

IoEntry == Walk(worker.io_seq)

\* Length of the prefix of requests that the scan passes.  They only become
\* completed while they are in the list, so the scan is as good as one look.
PrefixDone ==
    CHOOSE n \in 0 .. NrEntries :
        /\ \A i \in 0 .. (n - 1) : IoEntry[i] # NIL /\ Reclaimable(worker, work_queue[IoEntry[i]])
        /\ \/ n = NrEntries \/ IoEntry[n] = NIL
           \/ ~Reclaimable(worker, work_queue[IoEntry[n]])

ReclaimNothing ==
    /\ disp.pc = "reclaim"
    /\ PrefixDone = 0
    /\ disp' = [disp EXCEPT !.pc = "idle"]
    /\ UNCHANGED <<work_queue, worker, thr, clock, history>>

\* The prefix leaves the list of requests: io_seq moves first, ...
Unlink ==
    LET last == IoEntry[PrefixDone - 1]
        succ == work_queue[last].next
    IN  /\ disp.pc = "reclaim"
        /\ PrefixDone > 0
        /\ worker' = [worker EXCEPT !.io_seq = succ]
        /\ work_queue' = IF succ = NIL THEN work_queue
                         ELSE [work_queue EXCEPT ![succ].prev = NIL]
        /\ disp' = [disp EXCEPT !.pc = "cut", !.entry = worker.io_seq, !.last = last]
        /\ UNCHANGED <<thr, clock, history>>

\* Mutant: the last request reclaimed keeps its link into the list.
Cut_kept ==
    /\ disp.pc = "cut"
    /\ disp' = [disp EXCEPT !.pc = "append"]
    /\ UNCHANGED <<work_queue, worker, thr, clock, history>>

\* ... then the link to the rest is cut ...
Cut ==
    /\ disp.pc = "cut"
    /\ work_queue' = [work_queue EXCEPT ![disp.last].next = NIL]
    /\ disp' = [disp EXCEPT !.pc = "append"]
    /\ UNCHANGED <<worker, thr, clock, history>>

\* ... and the prefix becomes the end of the free list.
AppendFree ==
    LET end == worker.free_seq_end
    IN  /\ disp.pc = "append"
        /\ work_queue' = [work_queue EXCEPT ![disp.entry].prev = end, ![end].next = disp.entry]
        /\ worker' = [worker EXCEPT !.free_seq_end = disp.last]
        /\ disp' = [disp EXCEPT !.pc = "idle", !.entry = NIL, !.last = NIL]
        /\ UNCHANGED <<thr, clock, history>>

Dispatch ==
    \/ \E c \in Cmds, kind \in {"io", "internal"} :
            Drop(c, kind) \/ \E t \in Times : Allocate(c, kind, t)
    \/ Fill \/ Seek \/ Link \/ Publish \/ ReclaimNothing \/ Unlink \/ Cut \/ AppendFree

-----------------------------------------------------------------------------
(* The worker: nvmev_io_worker.                                              *)

Item == work_queue[thr.curr]

GoTo(e) == IF e = NIL THEN "top" ELSE "visit"

\* A new pass over the list.
StartPass ==
    /\ thr.pc = "top"
    /\ worker.io_seq # NIL
    /\ thr' = [thr EXCEPT !.pc = "visit", !.curr = worker.io_seq]
    /\ UNCHANGED <<work_queue, worker, disp, clock, history>>

\* The time is read; a completed request is passed over.
Visit ==
    /\ thr.pc = "visit"
    /\ worker' = [worker EXCEPT !.latest_nsecs = clock]
    /\ thr' = [thr EXCEPT !.now = clock, !.pc = IF Item.is_completed THEN "next" ELSE "copy"]
    /\ UNCHANGED <<work_queue, disp, clock, history>>

\* __do_perform_io, unless done on an earlier pass.
CopyData ==
    /\ thr.pc = "copy"
    /\ ~Torn
    /\ work_queue' = [work_queue EXCEPT ![thr.curr].is_copied = TRUE]
    /\ copied' = IF Item.is_copied \/ Item.is_internal THEN copied
                 ELSE copied \cup {Item.cmd}
    /\ thr' = [thr EXCEPT !.pc = "due"]
    /\ UNCHANGED <<worker, disp, clock, issued, done>>

\* __fill_cq_result or buffer_release, when the time has come.
Complete ==
    LET c == IF Item.is_internal THEN Item.buf ELSE Item.cmd
    IN  /\ thr.pc = "due"
        /\ ~Torn
        /\ IF Item.nsecs_target <= thr.now
           THEN /\ done' = [done EXCEPT ![c] = IF @ < 2 THEN @ + 1 ELSE @]
                /\ thr' = [thr EXCEPT !.pc = "mark"]
           ELSE thr' = [thr EXCEPT !.pc = "next"] /\ UNCHANGED done
        /\ UNCHANGED <<work_queue, worker, disp, clock, issued, copied>>

\* Mutant: the request stays open.
MarkCompleted_never ==
    /\ thr.pc = "mark"
    /\ thr' = [thr EXCEPT !.pc = "next"]
    /\ UNCHANGED <<work_queue, worker, disp, clock, history>>

MarkCompleted ==
    /\ thr.pc = "mark"
    /\ work_queue' = [work_queue EXCEPT ![thr.curr].is_completed = TRUE]
    /\ thr' = [thr EXCEPT !.pc = "next"]
    /\ UNCHANGED <<worker, disp, clock, history>>

\* On to the next entry; it may have become one of the free list.
Advance ==
    /\ thr.pc = "next"
    /\ thr' = [thr EXCEPT !.curr = Item.next, !.pc = GoTo(Item.next)]
    /\ UNCHANGED <<work_queue, worker, disp, clock, history>>

Work == StartPass \/ Visit \/ CopyData \/ Complete \/ MarkCompleted \/ Advance

Tick ==
    /\ clock < MaxTime
    /\ clock' = clock + 1
    /\ UNCHANGED <<work_queue, worker, disp, thr, history>>

Next == Dispatch \/ Work \/ Tick

Spec == Init /\ [][Next]_vars

\* Both threads run on CPUs of their own, and time passes.
FairSpec ==
    /\ Spec
    /\ WF_vars(Work)
    /\ WF_vars(disp.pc # "idle" /\ Dispatch)
    /\ WF_vars(Tick)

-----------------------------------------------------------------------------
(* Properties. *)

FreeEntry == Walk(worker.free_seq)

OnIo == {IoEntry[i] : i \in 0 .. NrEntries} \ {NIL}
OnFree == {FreeEntry[i] : i \in 0 .. NrEntries} \ {NIL}

\* Between two calls of the dispatcher every entry is in exactly one of the
\* two lists, both end, and their tails are what io_seq_end and free_seq_end
\* say, although lists are spliced by index, the tail of an emptied list is
\* left behind and the worker follows the links all the time.
EntriesKept ==
    disp.pc = "idle" =>
        /\ OnIo \cup OnFree = Entries
        /\ OnIo \cap OnFree = {}
        /\ IoEntry[NrEntries] = NIL /\ FreeEntry[NrEntries] = NIL
        /\ worker.free_seq_end \in OnFree /\ work_queue[worker.free_seq_end].next = NIL
        /\ worker.io_seq # NIL =>
                worker.io_seq_end \in OnIo /\ work_queue[worker.io_seq_end].next = NIL

\* "Requests are placed in @work_queue sorted by their target time": a request
\* in front of an earlier one is due already, so that it does not keep the
\* later ones from being reclaimed.
SortedUnlessDue ==
    \A i, j \in 0 .. NrEntries :
        i < j /\ IoEntry[j] # NIL =>
            \/ work_queue[IoEntry[i]].nsecs_target <= work_queue[IoEntry[j]].nsecs_target
            \/ work_queue[IoEntry[i]].nsecs_target <= worker.latest_nsecs

\* A command is completed at most once, only after its data was copied and
\* its time has come; and no entry is given back before that.  All this up to
\* the state Torn, where a behaviour ends.
CompletedOnce ==
    \A c \in Cmds :
        /\ done[c] <= 1
        /\ done[c] = 1 /\ issued[c] = "io" => c \in copied
        /\ \A e \in OnIo :
            LET x == work_queue[e]
            IN  (IF x.is_internal THEN x.buf ELSE x.cmd) = c =>
                    (x.is_completed => done[c] = 1)
                    /\ (done[c] = 1 => x.nsecs_target <= clock)

\* Every command that got an entry is completed, or Torn is reached, however
\* passes, insertions and reclaims interleave.
AcceptedCompletes ==
    \A c \in Cmds : issued[c] \in {"io", "internal"} ~> (done[c] > 0 \/ Torn)

\* "IO worker shall see the updated w at once": the worker never uses an entry
\* between the first and the last store of its set-up.
SeesAtOnce == ~Torn

=============================================================================
