# A TLA+ model of WAITGC (NVMeVirt with garbage-collection policies)

The repository is a Linux kernel module that emulates an NVMe SSD in reserved
memory (`src/nvmevirt_test`), extended with build-time choices of the victim
policy of its garbage collector, and scripts that run experiments with it
(`src/script`). This directory models the parts that keep state, checks them
with TLC on small instances and proves the most important ones with TLAPS for
every size.

## Inventory

One **dispatcher** thread (`main.c`) polls the doorbells that the host writes,
executes admin commands (`admin.c`) and hands I/O commands to the FTL of the
namespace through `proc_io_cmd`. The FTL decides *when* a command completes and
changes its tables at once; the result is put in a **work queue** (`io.c`), from
which an **I/O worker** thread copies the data, posts the completion when its
time has come and raises the interrupt. The FTL also queues "internal" work that
gives bytes back to the **write buffer** when a program unit is written.

| component | state | operations | what is hard | what makes it correct |
|---|---|---|---|---|
| conventional FTL (`conv_ftl.c`) | `maptbl`, `rmap`, page status, line counters and lists, two write pointers, write credits | write, discard, refill, collect | a collection moves and erases pages one by one while tables refer to them; space runs out only after a long history | maps agree, no orphan, lines in one place, reserve never used up |
| victim queue (`pqueue/pqueue.c`) | heap array, size, `line->pos` | insert, change priority, remove, pop | priorities change in place, elements leave the middle | members, order, positions |
| victim scoring (`conv_ftl.c`) | none (tables) | age steps, score, scan | rounding, saturation, ties, the end of the array | exact score, best candidate |
| dispatcher and workers (`io.c`) | sorted list of work, free list, completion queues | enqueue, copy, complete, reclaim, interrupt | list shared without a lock, entries reused, queue full | every command completed once, after its copy |
| write buffer (`ssd.c`) | `remaining` | allocate, release | released in other units than taken; a command that fails keeps what it took | every byte is accounted for |
| timing (`ssd.c`, `channel_model.c`) | credits per interval in a ring, times at which dies are free | transfer, read, program, erase, pause | the ring wraps, pauses outlast it, transfers run past its end | the ring is a calendar; a die does one thing at a time |
| zoned FTL (`zns_*.c`) | zone states, write pointers, open/active/ZRWA counts | write, append, read, open, close, finish, reset, flush | limits shared by all zones, a refused command is tried again after the handler has changed it | counts equal the zones in each state; an append stays in its zone; commands are answered |
| key-value FTL (`kv_ftl.c`, `bitmap.c`, `append_only.c`) | hash table with chains, two allocators, iterators | store, retrieve, exist, delete, batch, iterate | chains across slots that deletes emptied, nothing fails when space is used up | it is a dictionary; chains end; an iterator delivers what stays |
| admin, registers and queues (`admin.c`, `pci.c`, `main.c`) | controller registers, queues, doorbells, phase bits | start, shut down, create, delete, poll, answer, interrupt | registers and doorbells are polled, so the order of the host's writes is lost; completion queues shared by submission queues of several workers | a ready controller has the host's rings; every command reaches the FTL once and is answered once |

`PROJECT.json` lists every component with its status and every hazard at its
line.

## Modules

| module | models |
|---|---|
| `ConvFtl` | one partition of `conv_ftl.c`, with the victim policy and the heap abstracted to "some line of the queue" |
| `PQueue`, `PQueueClient` | `pqueue.c` exactly, and an arbitrary client of it |
| `VictimQueue` | `ConvFtl` composed with the heap: the build with the greedy policy |
| `CostBenefit`, `Scoring` | the arithmetic of the other two policies, and pairs of lines it compares |
| `VictimScan` | `VictimQueue` with `select_victim_cost_benefit`: the cost-benefit and isotonic builds |
| `WritePointer` | the geometry of `ssd_init_params` and the order in which a line is filled, collected and erased |
| `Timing` | the channel's bandwidth and the dies |
| `IoQueue` | the work queue of one I/O worker, shared without a lock by the dispatcher and the worker |
| `AdminPath` | registers, admin queue, creation and deletion of I/O queues, with the host's driver |
| `CmdPath` | `AdminPath` composed with the I/O rings, the dispatcher's hand-over to the FTL, the workers and interrupts |
| `Zns` | the zoned FTL with its write buffers |
| `KvStore` | what the key-value FTL promises: a dictionary (abstract) |
| `KvFtl` | the key-value FTL with both allocators |
| `ConvFtl_proofs` | the theorems about `ConvFtl` |
| `VictimQueue_proofs` | the theorems about `PQueueClient`, `VictimQueue` and `VictimScan` |
| `Algorithms_proofs` | the theorems about `Scoring`, `WritePointer` and `Timing` |
| `IoQueue_proofs`, `KvFtl_proofs`, `Zns_proofs` | the theorems about `IoQueue`, `KvFtl` and `Zns` |
| `CmdPath_proofs` | the theorems about `AdminPath` and `CmdPath`: the admin queue, then the I/O queues |
| `Induction` | induction over numbers as statements about sets of numbers, and sums over finite sets and along sequences, on which the proofs about walks and accounts rest |
| `MC...` | instances for TLC; `MCAlgorithms` runs the four sequential algorithms side by side |

### ConvFtl

State is that of `struct conv_ftl`: `maptbl`, `rmap`, the page `status` of the
NAND model, the line manager `lm` (per-line `vpc` and `ipc`, the FIFO free list,
the full list and the victim queue), `wp` and `gc_wp`, the write credits, and the
program counter and locals of the dispatcher inside `check_and_refill_write_credit`
and `do_gc`. A page is `<<line, k>>`, `k` its place in the order of
`advance_write_pointer`; `GcOrder` and `BlkOf` give the other order and the erase
blocks, and `WritePointer` shows that the code's walks are of this form.

`WritePage` is one iteration of the loop of `conv_write` (invalidate the old page,
take a new one, map both ways, advance, consume a credit); `DiscardPage` one of
`conv_discard`. When the credits are used up the thread goes on with
`RefillNoGc` (enough free lines, or `do_gc` returned -1, ignored) or
`SelectVictim` and then, page by page, `GcSkipPage` and `GcCopyPage`, which erase a
block after its last page, and `GcDone`. `oops` is the dereference of the NULL that
`get_next_free_line` returned. A host command is any number of iterations, so
every sequence of commands is covered; partitions share no state.

Left out: the completion times that the loops compute (they decide nothing here;
`VictimScan` has the clock that ages use), the write buffer, the block counters
`blk->vpc/ipc` (used only by assertions of their own), statistics and logging. The
host addresses the set `LPN`: the code checks against the physical size, the
namespace announces the logical one.

### VictimQueue and VictimScan

`heap` is the array, `size` (the index of the first *unused* slot, 1 when empty) and
the back-pointers. Each action of `ConvFtl` is taken together with the calls of the
queue that the code makes there, and the victim is what the queue or the scan
returns. The set `lm.victim_line_pq` stays as the specification.
`select_victim_cost_benefit` scans slots `1..size`, i.e. one more than are in use;
a slot never written is read as NULL or, `ScanWild`, as a pointer to nothing.

### IoQueue

`work_queue` is the array of `struct nvmev_io_work`, chained by index into the free
list and the list of requests, whose heads and tails are in `worker`. The dispatcher
alone changes links: `Allocate`, `Fill` (the stores before and after
`is_completed = false`), `Seek`, `Link` and `Publish` are an enqueue, `Unlink`, `Cut`
and `AppendFree` a reclaim, with a step for every store that the worker can observe.
`Drop` is the enqueue that finds no entry: the command, or the release of write buffer, is
lost. The worker walks the
list (`Visit`, `CopyData`, `Complete`, `MarkCompleted`, `Advance`), and since it
holds no lock, the entry it stands on may meanwhile be reclaimed and its `next` lead
into the free list. The scan of a reclaim is one step, since requests only become
completed while they are listed. A command is a number; the completion ring, the
copied bytes and the interrupt are left out. Memory is sequentially consistent here,
as stores are on x86; the compiler could only add behaviours to the one that `Torn`
stops at.

### AdminPath and CmdPath

The registers of the BAR are memory. The host writes `aqa`, `asq`, `acq` and `cc`
one after the other; the dispatcher compares them with the copy of its last look and
handles one change per look (`ProcAqa`, `ProcAsq`, `ProcAcq` and the three steps
`CcEnable`, `CcShutdown`, `CcStore`: the `if`s and `goto`s of `nvmev_proc_bars`). An `asq` or
`acq` found before the first `aqa` is left for a later look. `cc` is read for `csts.rdy`, for
`csts.shst`, and once more to be remembered (`pci.c:254`), with the host running in between, so
that a `cc` written before the last of these is taken for handled: the host then waits for
`csts` for ever. No property here turns on that; the liveness property is about commands,
and a host that waits for a shutdown has none open. The ring registers are read twice in a
pass as well, but the host writes each once per start, before `cc`, so both reads find the same.
The comparisons of a pass are one after the other with the host running in between: which of the
ring registers comes first is open. Only of `cc` it is assumed that it is not overtaken: a host takes
longer to write the three and then `cc` than the dispatcher to get from the comparison of `acq` to
that of `cc` (the mutant `CcTurn_first` shows what would happen).

`ReadyMeansUsable` says that whenever the host can see `csts.rdy` this has left a usable admin
queue: the device has the host's rings at their size; the next answer goes into the entry behind
the answers that the host has not seen, the first one at the start, with the phase bit the host
looks for there (which may be a leftover of an earlier start: a shutdown resets `cq_head` and not
the phase); and no doorbell is lost in `old_dbs`, since the commands between it and the doorbell
are the last ones sent and all others that are open have their answer posted.
`AdminDoorbell` starts a batch of `nvmev_proc_admin_sq`, each command is an action, and
`AdminBatchDone` raises the interrupt. `CmdPath` adds the I/O queues: `Doorbell`,
`Accept`, `Refuse` and `SqDone` are `nvmev_proc_io_sq` and the store of `old_dbs`
(`LatestDb` stays behind when the FTL refuses a command in the middle of a batch);
`PostEntry`, `FinishEntry` and `RaiseIrq` are `__fill_cq_result` and the interrupt loop
of a worker, with a step between the store of an entry and that of `interrupt_ready`.
The test and the clearing of that flag are one step: the interrupt follows the clearing, so
whatever is posted between the two is announced by it. `Accept` also has the case that no work
entry is left (`io.c:326`): the FTL has executed the command and nobody will answer it
(`Dropped`).

The host (the kernel's NVMe driver) is external and modelled from what the device
expects. It uses fresh memory for rings, keeps fewer commands open than a ring has
entries, waits for `rdy`, creates a completion queue before the submission queue that
uses it, deletes a queue only when its commands are answered and no worker stands
between two stores to it. The last point is what the code leaves to chance: `delete_cq`
frees the queue without asking. Work is a set here, any member of which may be due
next, since `IoQueue` is about its order; the copy of data is left out; an entry of a
completion ring is one store (`io.c` stores the status with the phase bit before the
result words).

### Zns

`dev` holds the zones (state, write pointer, `zrwav`), the three counters, the buffers,
and a ledger of what was written and lost. A command at the head of a submission queue
stays there until its handler returns true; `zns_write_refused` models that an append
leaves the block it would have started at in the command, which is what the next
attempt reads. `ReleaseBuffer` is the internal work that a finished program operation
schedules; with no work entry left it is dropped (`Lose`, `io.c:364`) and its blocks are lost.
`fault` is an assertion (`buffer_allocate` has one about a request larger than the buffer), a
division by the granularity of a device without ZRWA, or a pointer past the last zone. The
counted resources and the first block of a zone are computed in 32 bits and wrap at `U32`,
other arithmetic at `U64`. A command is "answered" here when the dispatcher is done with it; the
completion is the work of `CmdPath`.
Configurations are those of the two zoned targets, scaled, and one with a ZRWA, which the
handlers support though no target enables it.

### KvFtl and KvStore

The table is a function from slots to entries, chained by `next_slot`; the storage an
array of cells; a value a sequence of cells that is small or large. One worker performs
each command to its end, and posts the answer in a step of its own (`Complete`). `Wild`
is the last iterator handle, which `kv_init_namespace` does not initialise. `fault` is a
copy beyond the storage or
the endless search for a slot in a full table.

`KvStore` is the promise to the host: a dictionary with answers. `KvFtl` implements
it (`ImplementsKvStore`, by `INSTANCE ... WITH`; `dict` is what a lookup finds). The abstract
specification is as weak as the code makes it, and these points are where a user has to
take care: a delete may lose other keys (`kv_lost`); a batch that overwrites keeps the old
length; and no promise is left once more is stored than there is room for, a value grows beyond
its extent or the table is full, since no command ever fails. The table has a size of its own (1 GiB
of entries of 48 bytes), so that of a storage above some 36 GB it is the table that is used up
first; `kv_store` has an instance of this.

### Timing

A channel's ring of credits is run beside a ledger that has a number for every
interval of time; the ring has to give the same answers. `NandRead`, `NandReadLong`
(two transfers), `NandWrite` and `NandErase` are the cases of `ssd_advance_nand`. Commands start
before, at and after the current time.

## Runs

| run | asks | bounds |
|---|---|---|
| `ftl_greedy` | tables, lists, counters, heap and reserve of the greedy build; that it implements `ConvFtl` | 5 lines of 2 pages, 3 logical pages: copies, full lines, checks that find no victim, discards and victims with different counts all occur. The logical space is larger than `OverProvisioned` asks for: that bound is sufficient, not necessary. Symmetric in lines and logical pages: the code never compares them here |
| `conv_live` | a credit check ends, whatever the policy | 4 lines of 3 pages in 2 erase blocks, visited by `do_gc` in another order than written; 2 logical pages, no symmetry |
| `conv_fill` | *violated*: a write pointer always has a line | the default geometry: 32 lines, 7 % over-provisioning, 10 pages per line, one workload |
| `scan_cb` | the cost-benefit builds until they select a stray line | 4 lines of 2 pages, 2 logical pages, two points in time in any order |
| `scan_stray` | *violated*: a victim has no free page | 5 lines of 2 pages |
| `algorithms` | the heap under any client; score, order and age steps; the geometry and the walks over a line; the time model | 6 elements, the smallest heap where a removal makes the last element move up; lines of 6 pages, all profiles, ages around every boundary, at the integer limit and an ordinary one; devices of up to 4 channels and 2 dies, partitioned or not, with a capacity that nothing divides; a ring of 3 intervals, a clock up to 10 with pauses shorter and longer than the ring, at most 2 commands under way, dies symmetric |
| `io_queue` | the work queue under all interleavings, with fairness | 3 entries, of which one always stays free, 4 commands, so entries are reused and the queue is full at times; two points in time. With two entries listed at most, an insertion is at an end of the list; those in between (io.c:284-290) were checked with 4 entries and are covered by the theorem `RequestsAreSorted` |
| `io_torn` | *violated*: the worker sees the fields of an entry change at once | the same |
| `cmd_path` | registers, queues, rings, doorbells and interrupts, with fairness | 2 queues with rings of 3 entries, 2 workers, 4 I/O commands, so a ring wraps and changes its phase, at most one of them without a work entry; four plans of the host: two submission queues on one completion queue that different workers fill and announce, a pair that is deleted and made again and a restart, a polled pair and a request for more queues than there are, admin commands with an abort and two restarts |
| `zns` | zones, counters, buffers, refused commands, with fairness | 2 zones; five configurations (see `MCZns`): three with 4 or 6 blocks and 4 or 5 commands on one queue (a shared buffer; one per zone, with writes that split pages and a zone that no program unit divides; a ZRWA, written and appended to), one with the handlers of a ZRWA and none, and `Race`: zones of 2 blocks, two queues that submit writes, appends and resets for ever and compete for the buffer, releases that find no work entry |
| `kv_store` | that it implements `KvStore`; chains; iterators | 3 slots, 4 keys of which three collide and the fourth is their neighbour, values of 1 to 3 cells, a storage of 16 cells, so that the table can be full while there is room, up to 5 insertions, batches of 2, one iterator with a buffer of 1 key; both allocators, up to and beyond their room |
| `kv_lost` | *violated*: an entry of the table is found by its key | 4 slots, 3 keys, a storage of 8 cells |

The four violations are disagreements between the code and its own comments:

* `conv_fill`: after the namespace is full, `do_gc` may find no victim;
  `foreground_gc` ignores that and the stale `credits_to_refill` is granted again.
  With 32 lines (the default `BLKS_PER_PLN`) and 7 % there are only about two lines
  of slack beside the two open ones and the threshold of two, and the free list
  runs empty.
* `scan_stray`: the `<=` in the scan ranks the slot after the last member. What an
  earlier removal left there may be a line that is free or open by now; it wins
  when all scores round to 0, or when it is open and has many invalid pages.
* `io_torn`: the barrier orders the set-up of an entry before its insertion, but a
  worker that was held up on the entry from its earlier use sees the set-up halfway.
  The free list is first in, first out, so this takes a delay of a whole turn of it
  (or a nearly full queue). `io_queue` follows behaviours up to that point.
* `kv_lost`: `delete_mapping_entry` clears the entry with its `next_slot`, so the rest of
  the chain can no longer be reached.

What the passing properties except, because the code does it, is stated in them: an
append that is refused while its zone is full is tried again as an append to the next zone
(`AppendInItsZone`; appends to a zone with a ZRWA are explored, but write where the command
says and are not its subject), a failed write, a reset and a release without a work entry keep
buffer for ever (`BufferLedger`), writes that split a page give back more than was taken
(`BufferLedger`), a zone with a ZRWA that a write fills keeps its ZRWA resource
(`ZonesSound`), an abort and a command without a work entry are never answered
(`EveryCommandAnswered`).

A zoned command that is refused keeps no turn, so that `AnsweredOrStarved` can promise no more
than this: the dispatcher gets done with the commands of a queue, or from some time on the
buffer that its command needs *stays* held by incomplete program units or lost (`Starved`: less
than it needs can ever come back; for a ZRWA, its flush needs more than remains and
nothing is scheduled), or another queue's commands take of the very buffer it waits for, for ever,
or the dispatcher is gone. That it has to say this is the finding: neither starvation nor the
hoarding of buffer is prevented. What it excludes is a command that waits although
buffer returns and nobody takes it.

`CHECK_DEADLOCK FALSE` is used where the bounded environment comes to an end (no command,
time or plan left) and nothing is outstanding.

Fairness: `conv_live` assumes that the dispatcher, once inside a command, goes on
(weak fairness of its own steps). It is a kernel thread bound to a CPU and these
steps take no lock and wait for nothing. `io_queue` assumes the same of the
dispatcher inside an enqueue and of the worker, which loops for ever on a CPU of its
own, and that time passes. `cmd_path` assumes weak fairness of the dispatcher and of each
worker for the same reason, and of the host only that it takes its interrupts and polls
its polled queues; strong fairness of `Accept` is an assumption about the FTL, that it does not
refuse a command for ever; what there is to say for the FTL that refuses most is
`AnsweredOrStarved` of `zns`. Whether a taken command finds a work entry is left open.
`zns` assumes that the dispatcher goes round the queues for ever and workers perform what is
due. No fairness is assumed of what a host submits.

## Proofs

### The conventional FTL

The theorems about `ConvFtl` are for every finite set of lines (at least 3), line
size, logical space, threshold of at least 2, collection order and block layout
(`SizeAssumption`, `OrderAssumption`, `TokenAssumption` of `ConvFtl`), and, since
`SelectVictim` takes any queued line, for every victim policy that takes its victim
from the queue.

*`ConvFtl_proofs`* proves `Spec => []IInv` and from it `TypeOK`, `MappingSound`,
`NoOrphanPage`, `LineCounts`, `LinePlaces`, `LinePages`, `CreditsInRange`,
`AssertionsHold` and the action properties `OutOfPlace` and `GcInvisible`. None of
them is inductive alone: that the owner of a page is unique needs the two maps to
agree, that a new page is free needs the open lines to be written exactly up to
their pointers, that the full list is left at the right moment needs the counters to
be cardinalities, and all of it has to survive the middle of a collection. `IInv`
therefore speaks of the set of pages of the victim still to be visited: only those
are owned, valid ones among them are nobody else's, and a block with none of them
left has been erased (`Erased`), which is why a finished victim is all free.
`LineInv` adds `vpc + ipc =` pages written per line, from
which every victim has an invalid page and `credits_to_refill >= 1`. The lemmas of
the module's first part say what each operator (`advance_write_pointer`, `mark_page_invalid`,
...) preserves; there is one lemma per action and they are combined by PTL.

Its last part proves `SpaceReserve` and `NeverOutOfLines` under
`OverProvisioned`: the logical space is smaller than `TtLines - 2 - GcThres` lines.
The invariant is that the free pages exceed the credits by two lines; a write uses
one of each, a collection returns a line and grants exactly the pages it gained. The
crux is that a victim exists whenever one is wanted (`VictimExists`): at most
`GcThres` lines are free and two are open, so the others would hold more valid pages
than there are logical ones if none had an invalid page. With 7 % of
over-provisioning the assumption needs 62 lines; the default geometry has 32, and
`conv_fill` shows what then happens.

### The victim queue

*`VictimQueue_proofs`* is about `pqueue.c`, for every finite set of elements and all
priorities (`ClientAssumption`), and about the builds that use it, for every geometry
(`QueueAssumption`: NULL is no line; `ScanAssumption`: lines are numbered from 0).

Between operations the queue is a heap (`IsHeap`); inside one it is a heap with a *hole*
(`IsHollow`): an element has left slot `h`, all other used slots hold their elements, and the
parent of the hole still goes before its children. A round of `bubble_up` or `percolate_down`
moves the hole to its parent or first child and keeps this (`HollowUp`, `HollowDown`),
together with what is known of the side the hole comes from: a rising hole has only children that the
moving element may stand above (`Under`), a sinking one a parent it may stand below (`Over`).
When a loop ends the other one holds as well and the element fills the hole (`Filled`). That
it ends within the rounds that `Bubble` and `Percolate` define is induction along a
recursive function (`RoundsEnd`, from `UpTo`), a rising hole being halved and a sinking one doubled.
`HoleOf` then says why `pqueue_change_priority` may choose the direction by comparing only the old
priority with the new, and `TakenOut` the same of the last element that `pqueue_remove` puts into
the gap: the old priority fits in the hole, so a smaller one fits below the hole and a larger one
above it. With the size and the back-pointers of elements outside (`IsQueueOf`) every operation of a
client keeps the invariant: `HeapStaysValid` (`ValidHeap`).

For `VictimQueue` the invariant is `IInv` of `ConvFtl` and `IsQueueOf` with the counters `vpc`
as priorities and `lm.victim_line_pq` as members. Each needs the other: that a line of which
`mark_page_invalid` lowers `vpc` is either queued (and moved up) or not in the heap (so that its
priority does not matter) rests on `LinePlaces` and `vpc + ipc`; that a full line has a slot left on
the number of lines; and that `select_victim_greedy` is a step of `ConvFtl` on what the heap holds.
`HeapIsSound` (`HeapSound`) and `HeapImplementsSet` (`ImplementsConvFtl`) follow, and with the second
everything proved of `ConvFtl` holds for the greedy build.

For `VictimScan` the invariant is the same until the scan has taken a line that is not queued
(`Stray`, which `scan_stray` reaches), with the stamps (`Stamped`). `ScanMeets` shows that
the slot behind the last one, which the scan reads too, is at least inside the array and holds a line
or nothing, since the open lines are never queued, and that what is not queued is then `Stray`:
`StampsStayFresh` and `BestIsTaken`.

### The sequential algorithms

*`Algorithms_proofs`* proves the other properties of the run `algorithms`.

* `ScoresAreExact`, for every number of pages per line whose square fits the width
  (`PagesAssumption`), every profile and lines of any ages up to the width (`AgesOf` is an arbitrary set
  of them for each profile, of which the run takes a few): the quotient and the remainder that
  `cost_benefit_score` multiplies separately make up the exact quotient, the saturation test is exact, and a score grows with the age and falls with `vpc` (`ScoreGrows`).
* `LinesAreFilled` and `CleanedBeforeErased`, for every device that `ssd_init_params` accepts: a
  page is its number in a mixed radix, from the unit of the block over die and channel to the page in the
  unit, or channel before die for the collector (`FillNo`, `CleanNo`); the
  invariants say that the i-th page visited has number i - 1, and a step of either walk is an increment
  with carries. Distinct numbers are distinct pages, and there are as many as pages.
* `RingIsTheLedger`, for every ring, bandwidth and order of starting times: the ring agrees with an
  unbounded ledger entry by entry (`Agrees`), before and after the head moves; the entries that a request
  passes over are those the ledger has left (running sums, `RunsExist`), and where a transfer runs into the
  end of the ring the ledger says so too. `LunsAreExclusive`: the intervals in which a die is busy are
  disjoint and end when it is said to be free (`LunInv`).

### Induction

The provers do not instantiate the library's induction theorems, which take an
operator. `Induction` therefore derives from `WFMin` that a set of numbers has a least
element, and from that induction for *sets* (`NatSet`, `UpTo`), that a recursive function
on `0..N` exists and stays in a set its steps stay in (`PathExists`), the pigeonhole
principle (`Pigeons`), and what sums over a finite set (`FoldExists`, `FoldOne`) and along a
sequence (`SumCat`, `SumTail`, `SumEqual`) amount to. A claim is proved for all numbers by
taking the set of those for which it holds.

### The work queue

*`IoQueue_proofs`* proves `EntriesKept`, `SortedUnlessDue` and `CompletedOnce` for every
number of entries, commands and times. They are claims about linked lists that
the dispatcher changes store by store, so the invariant names the lists: `IInv` says that
there are two sequences of entries, the free list and the requests, linked by `next` and
`prev` but for the links that the pending enqueue or reclaim has still to store, with
a disjunct for every point of the dispatcher. Sortedness is that of the sequence of
requests; an entry is completed only if it is in that sequence, in the prefix
that a reclaim is about to cut, or in the free list. That walking the list
(`Walk`, a recursive function) yields the sequence is where `Induction` is used. Like the
run, the theorems follow behaviours up to the state that `io_torn` reaches.

### The key-value FTL

*`KvFtl_proofs`* proves `TypeOK`, `ChainsEnd`, `IterComplete` and `ImplementsKvStore` for every
hash function, table, storage, buffer size, set of values and either allocator
(`KvAssumption`; `CellAssumption`: values are sequences of cells, and
`Absent` is not one). "Every chain ends" is not
inductive: after a delete the links into an emptied slot stay, and an insert may fill that slot and
link on from it. The invariant is that slots can be ranked (`Ranks`): every link of an
occupied slot leads to a lower rank, and ranks differ; a new entry at the end of a chain
gets the least rank. From distinct falling ranks and `Pigeons` a walk ends within
`hash_slots` steps. An iterator's invariant relates the set of entries that stayed since
its open to its position and to what it delivered.

The refinement (`Refinement`) has two halves. The first is about *lookups*: what
`get_mapping_entry` answers is the first slot of a walk that holds the key (`LookupIs`); an
insertion changes a walk only where it ends (`WalkAdded`), so the new key is found in its slot and
every other key where it was (`InsertLookup`); a delete can cut walks short, so that a key is then
found where it was or not at all (`DeleteLookup`), which is why `KvStore` lets a delete lose keys.
The second is about *space*: until a misuse, `RInv` holds (`SpaceAccounted`). The extent
of every key that is found is reserved by the allocator, on the device and apart from the
others (`Extents`), so that a copy within it changes no other value; and bits, cells and occupied
slots are no more than the insertions that `room` and `slots` of `KvStore` have counted
(`Accounts`), so that as long as there is room and a slot an insertion finds space and a free slot
(`Space`). Nothing is assumed of the size of the table against that of the storage: what is used
up first is a misuse of `KvStore`. Each command is then
an action of `KvStore` or a misuse of it (`StepRefines`). The attempt corrected `KvStore`:
a key may get up to `LargeLength` cells for a large value, where it said
`SmallLength` more than the value has, which only the small instance could not tell apart.

### The zoned FTL

*`Zns_proofs`* proves `TypeOK`, `ZonesSound`, `AppendInItsZone` and `BufferLedger` for every number of zones and
every configuration (`ConfigsSound`: a zone has at least two blocks, all addresses fit in
`U32`, which is at most `U64`, writes are no longer than the buffer, the flush granularity is not larger than the
ZRWA and zero only without one). The core is an invariant of a *device* (`DevInv`), not
of the variable `dev`: a management command for all zones is a composition of
operations on single zones (`SendToAll`), each of which keeps it. `OneZone` reduces each
operation to one zone: if its descriptor changes soundly and the three counters follow the
change of what it counts for, counters still equal cardinalities; since they do, none is
released at zero (`ReleaseMade`), so the 32-bit counters never wrap. `CmdInv` adds what a
command in a queue may be: an append names the zone of its block until it is refused
while that zone is full. What is not true is in the property: a write that fills a zone
with a ZRWA keeps the resource (`zleaked`).

The same module proves `BufferLedger`, the account of the write buffers. It is not inductive as
it stands, because it sums over zones along a `CHOOSE` and over scheduled releases along a fold;
the strengthening `Ledger` is over any sum of what the zones of a buffer hold (`TotalHeld`, whose
existence and uniqueness the fold lemmas of `Induction` give) and any sum of what is scheduled,
and speaks of a device and its releases, not of the variables. It keeps apart what a buffer has of
its own (`Own`: free, scheduled and lost blocks) and what its zones hold. Every operation
changes one zone and one buffer, so that the sum over all zones changes by that zone's part
(`FoldOne`) and the account is kept when the two changes make up for each other (`LedgerOne`).
For a management command that is a fact about one zone, which either holds as much as before or
drops what it held (`Settled`), and a command for all zones repeats it (`SendAllKept`). For a
write it is a fact of arithmetic (`ReleasedSum`): the program units it completes, less its own
blocks, are the difference between the incomplete units behind it and before it, exactly if it
ends with a page, and at least otherwise, since a later write to that page releases the
unit again. A failed write moves its blocks from the free to the lost, a release from the
scheduled to the free, and one without a work entry goes to the lost at once. So the buffer can grow past its size along partial pages, and
shrink by what is counted as lost, and in no other way.

### The command path

*`CmdPath_proofs`* is about `CmdPath`, of which `AdminPath` is a part, for every number of queues, workers and commands, every size of the rings and every plan of the
host (`AdminAssumption`, `PlansSound`: the commands are well-formed and queue 0 is neither
created nor deleted; `CmdAssumption`).

Its first part proves `ReadyMeansUsable` and `AdminRingAgrees`, beside an invariant of the I/O rings of
which it needs only the host's side (`RingInv`). The invariant `AdminInv`
says of every stage of the host's start and shutdown what the registers may hold (`HostInv`,
`RegInv`), what the dispatcher has compared and what it has still to look at (`DispInv`), what the
admin queue then is (`DevInv`), which commands are between doorbell and handler (`SubInv`)
and which are answered and unseen (`AckInv`); a ring register that differs from the
dispatcher's copy is what keeps a half-made queue from being announced. `CqRing` is what a
completion ring holds for a reader at a position with a phase: the next `Len(a)` entries have
the phase it expects, in the order of `a`, and all others have the opposite one. Writing an
entry keeps it as long as there is room, and there is room because open commands are fewer than
entries: different unseen answers are different open commands (`Pigeons`). `Answered` is the
converse, that no doorbell is forgotten: an open command that is not among those left in the ring has
its answer posted, unless it is an abort. Sequence numbers carry it: what is left in the ring are the
last commands sent, so that a handler's step moves exactly one of them to the answers.

Its second part proves `RingsAgree` and `TakenOnce` from `IInv`, which adds five parts:
`ViewInv`, that the device has a queue if and only if the host has, but for a creation or
deletion that is executed and not yet seen; `SentInv`, that what the host ensured before
it sent a command on a queue stays true until it sees the answer (no answers left in a queue
that is to be deleted, a ring to be created at its beginning); `SqInv`, that the entries
from where the dispatcher stands to the host's tail are different open commands that were
never handed over; `IoInv`, that an open command without an answer is in such an entry or in
the FTL's hands (queued, or dropped for good), in exactly one of them; `CqInv`, the ring of every completion queue, with the
entry whose position a worker has still to store while it holds `entry_lock`, and at most one
such worker. Neither property is inductive without the other: that a ring has
room is a fact about where commands are, and that a command is posted once one about rings.

Only model-checked: the four liveness properties, which are out of this prover's reach, and the four
violations. Every invariant and every action property of a passing run is a theorem.

## Not modelled

* Conventional FTL: the times that reads and writes take, its use of the write buffer
  (a command takes its own bytes, a program unit's are given back, `conv_ftl.c:1500`, so
  that partial pages make `remaining` drift; `Zns` has the same arithmetic), the printed diagnostics and
  the logging of samples.
* Zoned FTL: the zone report (reads only), times, and zones that are read-only or offline:
  no code makes a zone read-only, and only such a zone can be taken offline.
* Key-value FTL: several workers, whose commands interleave without a lock; the
  times of commands. An open that finds no free iterator returns 1, which is
  also a handle: only that it changes nothing is modelled.
* Command path: the copy of the data, with DMA offload (a wrapper of a kernel service);
  the completion doorbells, which feed statistics; `sq_head` of an answer, which the model's
  host does not use; contents of identify and log pages, and of the emulated PCI
  configuration space (constant data); loading and unloading of the module.
* Timing: firmware latencies, the overlap of channel and PCIe transfers, and the
  truncation of an idle time to 32 bits in `channel_model.c:43`, which forgets too little
  when a channel was not used for a multiple of 2^32 intervals (4.8 hours).
* The simple FTL: no mapping and no state but a completion time per I/O unit.
* Statistics, logging, and the scripts (floating point and files).

Hazards that no property covers are in `PROJECT.json` with the reason.

## Next

1. What the scan does after a stray selection is followed to the first consequence only; a
   model of the build with `i < pq->size` would show that the correction restores `ConvFtl`.
2. Several workers in the key-value FTL, whose commands interleave without a lock.
3. The sampling of `CONV_ISO_LOG_SAMPLES` builds and the times of the conventional FTL's commands.
