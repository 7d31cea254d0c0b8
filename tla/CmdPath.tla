------------------------------ MODULE CmdPath ------------------------------
(***************************************************************************)
(* The way of a command from the host's submission ring through the         *)
(* dispatcher and an I/O worker to the completion ring and an interrupt     *)
(* (main.c nvmev_proc_dbs, io.c), on the queues of AdminPath.               *)
(*                                                                         *)
(* A worker serves the submission queues (sqid - 1) % NrWorkers and raises  *)
(* the interrupts of the completion queues of the same numbers, so a queue  *)
(* that several submission queues share is filled by one worker and         *)
(* announced by another.  The work queue in between is module IoQueue; here *)
(* it is a set, of which any command may be the next to be due.  Whether    *)
(* the FTL takes a command is up to the FTL.  The completion doorbells only *)
(* feed statistics and are left out.                                        *)
(***************************************************************************)
EXTENDS AdminPath

CONSTANTS
    NrWorkers,      \* config.nr_io_workers
    NrIos,          \* bound: I/O commands of a behaviour
    NrDrops         \* bound: commands for which there is no work entry

ASSUME CmdAssumption == NrWorkers \in Nat \ {0} /\ NrIos \in Nat /\ NrDrops \in Nat

Ios     == 1 .. NrIos
Workers == 0 .. (NrWorkers - 1)

VARIABLES
    sqm,        \* memory of the submission rings: slot -> command
    cqm,        \* memory of the completion rings: slot -> [id, phase]
    rings,      \* the host's side: tail of each sq, head and phase of each cq
    io,         \* command -> "new", "open" or "seen", and its queues
    work,       \* commands taken by the FTL, with their queues, queued or not
    thr,        \* what each worker is doing
    taken,      \* history: command -> how often the FTL was given it and took it, up to 2
    posted      \* history: per cq, commands posted and not seen yet

ioVars == <<sqm, cqm, rings, io, work, thr, taken, posted>>
vars   == <<adminVars, ioVars>>

Init ==
    /\ AInit
    /\ sqm = [q \in Queues |-> [i \in 0 .. (SqSize - 1) |-> 0]]
    /\ cqm = [c \in Queues |-> [i \in 0 .. (CqSize - 1) |-> [id |-> 0, phase |-> 0]]]
    /\ rings = [tail |-> [q \in Queues |-> 0], head |-> [c \in Queues |-> 0],
                phase |-> [c \in Queues |-> 1]]
    /\ io = [i \in Ios |-> [st |-> "new", q |-> 0, c |-> 0]]
    /\ work = {}
    /\ thr = [w \in Workers |-> [pc |-> "idle", x |-> 0, cq |-> 0]]
    /\ taken = [i \in Ios |-> 0]
    /\ posted = [c \in Queues |-> <<>>]

-----------------------------------------------------------------------------
(* The host. *)

\* Commands of the host's that have no answer in a ring yet.
Unposted(q) ==
    {i \in Ios : /\ io[i].st = "open" /\ io[i].q = q
                 /\ \A c \in Queues : \A k \in DOMAIN posted[c] : posted[c][k] # i}

\* A submission queue is deleted when its commands are answered, though maybe
\* not looked at, a completion queue when its answers have been seen and no
\* worker is held up between the store of an answer and the interrupt.
IoQuiet(cmd) ==
    CASE cmd.op = "delete_sq" -> Unposted(cmd.qid) = {}
      [] cmd.op = "delete_cq" -> /\ posted[cmd.qid] = <<>>
                                 /\ \A w \in Workers : thr[w].cq # cmd.qid
      [] OTHER -> TRUE

\* An admin command; new rings are zeroed memory, looked at from the start.
HostSend(cmd) ==
    /\ MaySend(cmd) /\ IoQuiet(cmd)
    /\ HostAdmin(cmd)
    /\ CASE cmd.op = "create_cq" ->
              /\ cqm' = [cqm EXCEPT ![cmd.qid] = [i \in 0 .. (CqSize - 1) |-> [id |-> 0, phase |-> 0]]]
              /\ rings' = [rings EXCEPT !.head[cmd.qid] = 0, !.phase[cmd.qid] = 1]
         [] cmd.op = "create_sq" -> rings' = [rings EXCEPT !.tail[cmd.qid] = 0] /\ UNCHANGED cqm
         [] OTHER -> UNCHANGED <<cqm, rings>>
    /\ UNCHANGED <<sqm, io, work, thr, taken, posted>>

\* A queue the host may use: created, and not being deleted.
Usable(q) ==
    /\ host.st = "up" /\ host.sq[q] # NIL
    /\ \A i \in host.open : ~(Log[i].op = "delete_sq" /\ Log[i].qid = q)

OpenOn(r, q) == {i \in Ios : io[i].st = "open" /\ io[i][r] = q}

\* An I/O command, when neither of its rings can become full by it.
HostSubmit(i, q) ==
    LET tail == (rings.tail[q] + 1) % SqSize
    IN  /\ Usable(q)
        /\ io[i].st = "new" /\ \A j \in Ios : j < i => io[j].st # "new"
        /\ Cardinality(OpenOn("q", q)) < SqSize - 1
        /\ Cardinality(OpenOn("c", host.sq[q].cqid)) < CqSize - 1
        /\ sqm' = [sqm EXCEPT ![q][rings.tail[q]] = i]
        /\ rings' = [rings EXCEPT !.tail[q] = tail]
        /\ dbs' = [dbs EXCEPT ![q] = tail]
        /\ io' = [io EXCEPT ![i] = [st |-> "open", q |-> q, c |-> host.sq[q].cqid]]
        /\ UNCHANGED <<registers, admin_q, old_dbs, queues, disp, asq, acq, irqs, host, aposted,
                       cqm, work, thr, taken, posted>>

HostFinds(c) == SeenIds(cqm[c], rings.head[c], rings.phase[c], CqSize)

HostTake(c) ==
    LET n == Len(HostFinds(c))
        Ids == {HostFinds(c)[k] : k \in 1 .. n}
    IN  /\ rings' = [rings EXCEPT !.head[c] = (@ + n) % CqSize,
                                  !.phase[c] = IF rings.head[c] + n >= CqSize THEN 1 - @ ELSE @]
        /\ io' = [i \in Ios |-> IF i \in Ids THEN [io[i] EXCEPT !.st = "seen"] ELSE io[i]]
        /\ posted' = [posted EXCEPT ![c] = SubSeq(@, n + 1, Len(@))]
        /\ UNCHANGED <<sqm, cqm, work, thr, taken>>

\* The handler of an interrupt takes every answer it finds.
HostIrq(c) ==
    /\ c \in irqs
    /\ irqs' = irqs \ {c}
    /\ HostTake(c)
    /\ UNCHANGED <<registers, admin_q, dbs, old_dbs, queues, disp, asq, acq, host, aposted>>

\* A queue without interrupts is polled.
HostPoll(c) ==
    /\ cqes[c] # NIL /\ ~cqes[c].irq_enabled
    /\ HostFinds(c) # <<>>
    /\ HostTake(c)
    /\ UNCHANGED adminVars

-----------------------------------------------------------------------------
(* The dispatcher: the submission queues of nvmev_proc_dbs. *)

\* The doorbell is read; queues beyond nr_sq and deleted ones are passed over.
Doorbell(q) ==
    /\ Idle
    /\ q <= nr.sq /\ sqes[q] # NIL /\ dbs[q] # old_dbs[q]
    /\ disp' = [pc |-> "io", q |-> q, new |-> dbs[q], at |-> old_dbs[q]]
    /\ UNCHANGED <<registers, admin_q, dbs, old_dbs, queues, asq, acq, irqs, host, aposted, ioVars>>

\* The FTL took these, but there was no work entry for them.
Dropped == {x \in work : ~x.queued}

\* __nvmev_proc_io on the entry at hand: the FTL takes it, and it is queued for
\* a worker.  Without a free entry it is not, and nobody is told.
Accept ==
    LET q == disp.q
        i == sqm[q][disp.at]
    IN  /\ disp.pc = "io" /\ disp.at # disp.new
        /\ \E queued \in BOOLEAN :
              /\ ~queued => Cardinality(Dropped) < NrDrops
              /\ work' = work \cup {[id |-> i, sqid |-> q, cqid |-> sqes[q].cqid, queued |-> queued]}
        /\ taken' = [taken EXCEPT ![i] = IF @ < 2 THEN @ + 1 ELSE @]
        /\ disp' = [disp EXCEPT !.at = IF @ + 1 = sqes[q].queue_size THEN 0 ELSE @ + 1]
        /\ UNCHANGED <<registers, admin_q, dbs, old_dbs, queues, asq, acq, irqs, host, aposted,
                       sqm, cqm, rings, io, thr, posted>>

\* Mutant: a refused command counts as handed over.
LatestDb_skips(q) == disp.new

\* latest_db, what the queue's doorbell is compared with next time.
LatestDb(q) == disp.at

\* The FTL refuses the entry (no write buffer, no free line), or all entries
\* up to the doorbell are done.
LeaveSq ==
    /\ disp.pc = "io"
    /\ old_dbs' = [old_dbs EXCEPT ![disp.q] = LatestDb(disp.q)]
    /\ disp' = [pc |-> "idle", q |-> 0, new |-> 0, at |-> 0]
    /\ UNCHANGED <<registers, admin_q, dbs, queues, asq, acq, irqs, host, aposted, ioVars>>

Refuse == disp.at # disp.new /\ LeaveSq
SqDone == disp.at = disp.new /\ LeaveSq

Dispatcher ==
    \/ (proc_bars \/ AdminDoorbell \/ proc_admin_req \/ AdminBatchDone) /\ UNCHANGED ioVars
    \/ (\E q \in Queues : Doorbell(q)) \/ Accept \/ Refuse \/ SqDone

-----------------------------------------------------------------------------
(* The workers. *)

get_io_worker(qid) == (qid - 1) % NrWorkers

\* __fill_cq_result up to the store of the status, whose phase bit makes the
\* entry visible to the host.  entry_lock is held from here ...
PostEntry(w, x) ==
    LET cq == cqes[x.cqid]
    IN  /\ thr[w].pc = "idle"
        /\ x \in work /\ x.queued /\ get_io_worker(x.sqid) = w
        /\ ~cq.entry_lock
        /\ cqm' = [cqm EXCEPT ![x.cqid][cq.cq_head] = [id |-> x.id, phase |-> cq.phase]]
        /\ cqes' = [cqes EXCEPT ![x.cqid].entry_lock = TRUE]
        /\ posted' = [posted EXCEPT ![x.cqid] = Append(@, x.id)]
        /\ work' = work \ {x}
        /\ thr' = [thr EXCEPT ![w] = [pc |-> "post", x |-> x.id, cq |-> x.cqid]]
        /\ UNCHANGED <<registers, admin_q, dbs, old_dbs, sqes, nr, disp, asq, acq, irqs, host, aposted,
                       sqm, rings, io, taken>>

\* Mutant: the phase stays when the ring wraps.
fill_advance_keeps(cq) ==
    [cq EXCEPT !.cq_head = IF @ + 1 = cq.queue_size THEN 0 ELSE @ + 1]

fill_advance(cq) ==
    [cq EXCEPT !.cq_head = IF @ + 1 = cq.queue_size THEN 0 ELSE @ + 1,
               !.phase = IF cq.cq_head + 1 = cq.queue_size THEN 1 - @ ELSE @]

\* ... until cq_head has moved on and the interrupt is due.
FinishEntry(w) ==
    LET c == thr[w].cq
    IN  /\ thr[w].pc = "post"
        /\ cqes' = [cqes EXCEPT ![c] = [fill_advance(@) EXCEPT !.interrupt_ready = TRUE,
                                                               !.entry_lock = FALSE]]
        /\ thr' = [thr EXCEPT ![w] = [pc |-> "idle", x |-> 0, cq |-> 0]]
        /\ UNCHANGED <<registers, admin_q, dbs, old_dbs, sqes, nr, disp, asq, acq, irqs, host, aposted,
                       sqm, cqm, rings, io, work, taken, posted>>

\* The interrupt loop looks at the queue.
IrqDue(w, c) ==
    /\ thr[w].pc = "idle"
    /\ c <= nr.cq /\ get_io_worker(c) = w
    /\ cqes[c] # NIL /\ cqes[c].irq_enabled /\ cqes[c].interrupt_ready

ClearReady(c) == cqes' = [cqes EXCEPT ![c].interrupt_ready = FALSE] /\ UNCHANGED irqs
Signal(c)     == irqs' = irqs \cup {c} /\ UNCHANGED cqes

\* Mutant: the interrupt comes first.
RaiseIrq_first(w, c) ==
    /\ \/ /\ IrqDue(w, c) /\ Signal(c)
          /\ thr' = [thr EXCEPT ![w] = [pc |-> "signal", x |-> 0, cq |-> c]]
       \/ /\ thr[w].pc = "signal" /\ thr[w].cq = c /\ ClearReady(c)
          /\ thr' = [thr EXCEPT ![w] = [pc |-> "idle", x |-> 0, cq |-> 0]]
    /\ UNCHANGED <<registers, admin_q, dbs, old_dbs, sqes, nr, disp, asq, acq, host, aposted,
                   sqm, cqm, rings, io, work, taken, posted>>

\* interrupt_ready is found set and cleared, then nvmev_signal_irq raises the
\* vector.  The test and the clearing are one step: an answer that becomes
\* ready between them is announced by the signal that follows both.
RaiseIrq(w, c) ==
    /\ \/ /\ IrqDue(w, c) /\ ClearReady(c)
          /\ thr' = [thr EXCEPT ![w] = [pc |-> "signal", x |-> 0, cq |-> c]]
       \/ /\ thr[w].pc = "signal" /\ thr[w].cq = c /\ Signal(c)
          /\ thr' = [thr EXCEPT ![w] = [pc |-> "idle", x |-> 0, cq |-> 0]]
    /\ UNCHANGED <<registers, admin_q, dbs, old_dbs, sqes, nr, disp, asq, acq, host, aposted,
                   sqm, cqm, rings, io, work, taken, posted>>

Worker(w) ==
    \/ \E x \in work : PostEntry(w, x)
    \/ FinishEntry(w)
    \/ \E c \in Queues : RaiseIrq(w, c)

-----------------------------------------------------------------------------
Host ==
    \/ (\/ HostStart
        \/ \E r \in {"aqa", "asq", "acq"} : HostRingRegister(r)
        \/ HostEnable \/ HostReady \/ HostShutdown \/ HostShut \/ HostDisable \/ HostDisabled)
       /\ UNCHANGED ioVars
    \/ host.st = "up" /\ host.sent < Len(Log) /\ HostSend(Log[host.sent + 1])
    \/ \E i \in Ios, q \in Queues : HostSubmit(i, q)

HostAnswers ==
    \/ HostAdminIrq /\ UNCHANGED ioVars
    \/ \E c \in Queues : HostIrq(c) \/ HostPoll(c)

Next == Host \/ HostAnswers \/ Dispatcher \/ \E w \in Workers : Worker(w)

Spec == Init /\ [][Next]_vars

\* The dispatcher and each worker are threads with a CPU of their own, the
\* host takes its interrupts, and the FTL does not refuse a command for ever:
\* what it waits for is released by the workers.
FairSpec ==
    /\ Spec
    /\ WF_vars(Dispatcher)
    /\ SF_vars(Accept)
    /\ \A w \in Workers : WF_vars(Worker(w))
    /\ WF_vars(HostAdminIrq /\ UNCHANGED ioVars)
    /\ \A c \in Queues : WF_vars(HostIrq(c)) /\ WF_vars(HostPoll(c))

-----------------------------------------------------------------------------
(* Properties. *)

\* What the host finds in its completion rings, by the phase bits, is what was
\* posted and not seen, in that order: no answer is lost, overwritten or seen
\* twice, although no one tells the device how far the host has read, two
\* workers fill one ring, and rings are deleted and made again.
RingsAgree ==
    /\ AdminRingAgrees
    /\ \A c \in host.cq : HostFinds(c) = posted[c]

\* The entries of a queue that the dispatcher has still to hand over.
Owed(q) ==
    LET from == IF disp.pc = "io" /\ disp.q = q THEN disp.at ELSE old_dbs[q]
        n == (dbs[q] - from + SqSize) % SqSize
    IN  [k \in 1 .. n |-> sqm[q][(from + k - 1) % SqSize]]

\* A command is handed to the FTL once: those that still wait in a ring have
\* not been, all others that the host submitted have, across refusals in the
\* middle of a batch, doorbells rung meanwhile and the wrap of the ring.
TakenOnce ==
    \A i \in Ios :
        taken[i] = IF io[i].st = "new" THEN 0
                   ELSE IF \E k \in DOMAIN Owed(io[i].q) :
                               host.sq[io[i].q] # NIL /\ Owed(io[i].q)[k] = i THEN 0 ELSE 1

\* Every command is answered and the host woken up for it, except an abort,
\* which is ignored, and a command that the FTL took when no work entry was
\* left.  A plan has an end, so it comes to a state from which on none is open.
EveryCommandAnswered ==
    <>[](/\ \A i \in Ios : io[i].st = "open" => \E x \in Dropped : x.id = i
         /\ AdminOpen = {})
=============================================================================
