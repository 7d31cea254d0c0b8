----------------------------- MODULE AdminPath -----------------------------
(***************************************************************************)
(* The controller registers, the admin queue and the life of the I/O queues *)
(* (pci.c, admin.c, the first half of main.c's nvmev_proc_dbs), with the    *)
(* host driver that writes the registers and rings the doorbells.           *)
(*                                                                         *)
(* The registers are memory: the dispatcher finds out what changed since    *)
(* its last look, one register a look, and the order of the host's writes   *)
(* is lost.  Commands are [op, qid, cqid, n, irq]; what an answer carries   *)
(* besides the command's identifier is left out, except for the number of   *)
(* queues that a set_features command is granted.                           *)
(*                                                                         *)
(* The host is external.  It starts the controller with rings in memory it  *)
(* has not used for rings before, keeps fewer commands open than a ring has *)
(* entries, and has one command on queues open at a time.                   *)
(***************************************************************************)
EXTENDS Integers, FiniteSets, Sequences

CONSTANTS
    NrQueues,       \* NR_MAX_IO_QUEUE
    SqSize,         \* entries of an I/O submission queue
    CqSize,         \* entries of an I/O completion queue
    Plans           \* bound: what a host may do.  A plan is a sequence of starts of the
                    \* controller, each [depth of the admin rings, commands in order]

NIL    == [none |-> TRUE]
Queues == 1 .. NrQueues

\* Commands on queues, and the others; "other" stands for async_event and the
\* opcodes that are refused.
OnQueues == {"set_features", "create_cq", "create_sq", "delete_sq", "delete_cq"}
Ops      == OnQueues \cup {"get_log_page", "identify", "get_features", "abort", "other"}
Commands == [op : Ops, qid : 0 .. NrQueues, cqid : 0 .. NrQueues, n : Nat, irq : BOOLEAN]

ASSUME AdminAssumption ==
    /\ NrQueues \in Nat \ {0}
    /\ {SqSize, CqSize} \subseteq Nat \ {0, 1}
    /\ \A p \in Plans : p \in Seq([depth : Nat \ {0, 1}, cmds : Seq(Commands)])

\* The admin queue is no queue that can be created or deleted.
ASSUME PlansSound ==
    \A p \in Plans : \A b \in DOMAIN p : \A i \in DOMAIN p[b].cmds :
        LET cmd == p[b].cmds[i]
        IN  /\ cmd.op \in OnQueues \ {"set_features"} => cmd.qid # 0
            /\ cmd.op = "create_sq" => cmd.cqid # 0

Least(a, b) == IF a < b THEN a ELSE b

VARIABLES
    bar,        \* the registers as the host wrote them, and csts
    old_bar,    \* the registers as the dispatcher last saw them
    admin_q,    \* struct nvmev_admin_queue, NIL before the first aqa
    dbs,        \* doorbells of the submission queues, 0 is the admin queue's
    old_dbs,
    sqes,       \* I/O submission queues, NIL or [cqid, queue_size]
    cqes,       \* I/O completion queues, NIL or a struct
    nr,         \* nr_sq and nr_cq
    disp,       \* where the dispatcher is in its loop
    asq,        \* memory of the admin rings, by the address the host used
    acq,
    irqs,       \* interrupt vectors raised and not taken yet
    host,       \* the host's side
    aposted     \* history: admin answers posted and not seen yet

registers == <<bar, old_bar>>
queues    == <<sqes, cqes, nr>>
adminVars == <<bar, old_bar, admin_q, dbs, old_dbs, sqes, cqes, nr, disp,
               asq, acq, irqs, host, aposted>>

-----------------------------------------------------------------------------
\* __init_nvme_ctrl_regs, VDEV_INIT: everything is zero.
AInit ==
    /\ bar = [aqa |-> 0, asq |-> 0, acq |-> 0, en |-> FALSE, shn |-> FALSE,
              rdy |-> FALSE, shst |-> FALSE]
    /\ old_bar = [aqa |-> 0, asq |-> 0, acq |-> 0, en |-> FALSE, shn |-> FALSE]
    /\ admin_q = NIL
    /\ dbs = [q \in 0 .. NrQueues |-> 0]
    /\ old_dbs = dbs
    /\ sqes = [q \in Queues |-> NIL]
    /\ cqes = [q \in Queues |-> NIL]
    /\ nr = [sq |-> 0, cq |-> 0]
    /\ disp = [pc |-> "idle", q |-> 0, new |-> 0, at |-> 0]
    /\ asq = <<>>
    /\ acq = <<>>
    /\ irqs = {}
    /\ \E p \in Plans :
            host = [st |-> "off", plan |-> p, boot |-> 0, todo |-> {}, tail |-> 0, head |-> 0,
                    phase |-> 1, sent |-> 0, open |-> {}, sq |-> [q \in Queues |-> NIL],
                    cq |-> {}, granted |-> 0]
    /\ aposted = <<>>

-----------------------------------------------------------------------------
(* The host: registers. *)

\* A start with rings in fresh, zeroed memory, whose address is its number.
HostStart ==
    LET d == host.plan[host.boot + 1].depth
    IN  /\ host.st = "off" /\ host.boot < Len(host.plan)
        /\ host' = [host EXCEPT !.st = "regs", !.boot = @ + 1, !.todo = {"aqa", "asq", "acq"},
                                !.tail = 0, !.head = 0, !.phase = 1, !.sent = 0, !.open = {},
                                !.granted = 0]
        /\ asq' = Append(asq, [i \in 0 .. (d - 1) |-> NIL])
        /\ acq' = Append(acq, [i \in 0 .. (d - 1) |-> [id |-> 0, phase |-> 0]])
        /\ aposted' = <<>>
        /\ UNCHANGED <<registers, admin_q, dbs, old_dbs, queues, disp, irqs>>

Depth == host.plan[host.boot].depth
Log   == host.plan[host.boot].cmds

\* The three ring registers, which may become visible in any order.
HostRingRegister(r) ==
    /\ host.st = "regs" /\ r \in host.todo
    /\ bar' = [bar EXCEPT ![r] = IF r = "aqa" THEN Depth ELSE host.boot]
    /\ host' = [host EXCEPT !.todo = @ \ {r}]
    /\ UNCHANGED <<old_bar, admin_q, dbs, old_dbs, queues, disp, asq, acq, irqs, aposted>>

\* A write to cc after which the host waits for csts.
HostCc(from, to, en, shn) ==
    /\ host.st = from
    /\ bar' = [bar EXCEPT !.en = en, !.shn = shn]
    /\ host' = [host EXCEPT !.st = to]
    /\ UNCHANGED <<old_bar, admin_q, dbs, old_dbs, queues, disp, asq, acq, irqs, aposted>>

HostWait(from, to, cond) ==
    /\ host.st = from
    /\ cond
    /\ host' = [host EXCEPT !.st = to]
    /\ UNCHANGED <<registers, admin_q, dbs, old_dbs, queues, disp, asq, acq, irqs, aposted>>

\* No queue left, and no command open but aborts, which are never answered.
Quiet == /\ \A i \in host.open : Log[i].op = "abort"
         /\ host.cq = {} /\ \A q \in Queues : host.sq[q] = NIL

HostEnable   == host.todo = {} /\ HostCc("regs", "enabling", TRUE, FALSE)
HostReady    == HostWait("enabling", "up", bar.rdy)
HostShutdown == Quiet /\ HostCc("up", "shutting", TRUE, TRUE)
HostShut     == HostWait("shutting", "down", bar.shst)
HostDisable  == \/ HostCc("down", "disabling", FALSE, FALSE)
                \/ Quiet /\ HostCc("up", "disabling", FALSE, FALSE)
HostDisabled == HostWait("disabling", "off", ~bar.rdy)

-----------------------------------------------------------------------------
(* The host: admin commands. *)

Cmd(op, q, c, n, irq) == [op |-> op, qid |-> q, cqid |-> c, n |-> n, irq |-> irq]

\* The command is stored at the tail and the doorbell rung.
HostAdmin(cmd) ==
    LET id   == host.sent + 1
        tail == (host.tail + 1) % Depth
    IN  /\ host.st = "up"
        /\ id \in DOMAIN Log /\ cmd = Log[id]
        /\ Cardinality(host.open) < Depth - 1
        /\ cmd.op \in OnQueues => \A i \in host.open : Log[i].op \notin OnQueues
        /\ asq' = [asq EXCEPT ![host.boot][host.tail] = [id |-> id, cmd |-> cmd]]
        /\ dbs' = [dbs EXCEPT ![0] = tail]
        /\ host' = [host EXCEPT !.tail = tail, !.sent = id, !.open = @ \cup {id}]
        /\ UNCHANGED <<registers, admin_q, old_dbs, queues, disp, acq, irqs, aposted>>

\* When a host may send a command: a queue is within what it was granted, a
\* completion queue comes before the submission queues that use it and is
\* deleted after them.
MaySend(cmd) ==
    CASE cmd.op = "set_features" -> host.cq = {}
      [] cmd.op = "create_cq"    -> cmd.qid <= host.granted /\ cmd.qid \notin host.cq
      [] cmd.op = "create_sq"    -> /\ cmd.qid <= host.granted /\ host.sq[cmd.qid] = NIL
                                    /\ cmd.cqid \in host.cq
      [] cmd.op = "delete_sq"    -> host.sq[cmd.qid] # NIL
      [] cmd.op = "delete_cq"    -> /\ cmd.qid \in host.cq
                                    /\ \A q \in Queues : host.sq[q] # NIL => host.sq[q].cqid # cmd.qid
      [] OTHER -> TRUE

\* How many entries from the head on carry the phase that the host expects.
SeenFrom(ring, head, phase, depth) ==
    LET Tag(i) == IF head + i < depth THEN phase ELSE 1 - phase
    IN  CHOOSE n \in 0 .. depth :
            /\ \A i \in 0 .. (n - 1) : ring[(head + i) % depth].phase = Tag(i)
            /\ n = depth \/ ring[(head + n) % depth].phase # Tag(n)

SeenIds(ring, head, phase, depth) ==
    [i \in 1 .. SeenFrom(ring, head, phase, depth) |-> ring[(head + i - 1) % depth].id]

HostSees == SeenIds(acq[host.boot], host.head, host.phase, Depth)

\* What an answer changes in the host's view of the queues.
Granted(cmd) == Least(cmd.n, NrQueues)
HostView(h, cmd) ==
    CASE cmd.op = "set_features" -> [h EXCEPT !.granted = Granted(cmd)]
      [] cmd.op = "create_cq"    -> [h EXCEPT !.cq = @ \cup {cmd.qid}]
      [] cmd.op = "create_sq"    -> [h EXCEPT !.sq[cmd.qid] = [cqid |-> cmd.cqid]]
      [] cmd.op = "delete_sq"    -> [h EXCEPT !.sq[cmd.qid] = NIL]
      [] cmd.op = "delete_cq"    -> [h EXCEPT !.cq = @ \ {cmd.qid}]
      [] OTHER -> h

\* The interrupt of vector 0: the host takes all the answers it finds.
HostAdminIrq ==
    LET n == Len(HostSees)
        Ids == {HostSees[i] : i \in 1 .. n}
        last == {i \in Ids : Log[i].op \in OnQueues}
        seen == [host EXCEPT !.head = (@ + n) % Depth,
                             !.phase = IF host.head + n >= Depth THEN 1 - @ ELSE @,
                             !.open = @ \ Ids]
    IN  /\ 0 \in irqs /\ host.boot # 0
        /\ irqs' = irqs \ {0}
        /\ aposted' = SubSeq(aposted, n + 1, Len(aposted))
        /\ host' = IF last = {} THEN seen
                   ELSE HostView(seen, Log[CHOOSE i \in last : TRUE])
        /\ UNCHANGED <<registers, admin_q, dbs, old_dbs, queues, disp, asq, acq>>

-----------------------------------------------------------------------------
(* The dispatcher: nvmev_proc_bars, one changed register per call. *)

\* nvmev_proc_bars looks at aqa, asq, acq and cc in turn and deals with the
\* first that has changed; then the doorbells have their turn.  The host may
\* write between any two looks, so that asq or acq may be found changed when
\* aqa has been passed over already: which of the three comes first is open.
\* Assumption: cc is not overtaken.  A host takes longer to write the three
\* ring registers and cc than the dispatcher to get from the look at acq to
\* that at cc, so cc has its turn when the other three have had theirs.
\* Each register is written once per start, and the host waits for csts, so
\* the second read of aqa, asq or acq in a handler finds what the first found.
Idle == disp.pc = "idle"

Changed(r) == old_bar[r] # bar[r]
CcChanged  == Changed("en") \/ Changed("shn")

\* aqa: the queue exists from now on, its rings start over.
ProcAqa ==
    /\ Idle /\ Changed("aqa")
    /\ old_bar' = [old_bar EXCEPT !.aqa = bar.aqa]
    /\ admin_q' = [nvme_sq |-> IF admin_q = NIL THEN 0 ELSE admin_q.nvme_sq,
                   nvme_cq |-> IF admin_q = NIL THEN 0 ELSE admin_q.nvme_cq,
                   cq_head |-> 0, phase |-> 1, sq_depth |-> bar.aqa, cq_depth |-> bar.aqa]
    /\ dbs' = [dbs EXCEPT ![0] = 0]
    /\ old_dbs' = [old_dbs EXCEPT ![0] = 0]
    /\ UNCHANGED <<bar, queues, disp, asq, acq, irqs, host, aposted>>

\* asq or acq before the first aqa is left for a later look.
ProcAsq ==
    /\ Idle /\ Changed("asq")
    /\ admin_q # NIL
    /\ old_bar' = [old_bar EXCEPT !.asq = bar.asq]
    /\ admin_q' = [admin_q EXCEPT !.nvme_sq = bar.asq, !.sq_depth = bar.aqa]
    /\ dbs' = [dbs EXCEPT ![0] = 0]
    /\ old_dbs' = [old_dbs EXCEPT ![0] = 0]
    /\ UNCHANGED <<bar, queues, disp, asq, acq, irqs, host, aposted>>

ProcAcq ==
    /\ Idle /\ Changed("acq")
    /\ admin_q # NIL
    /\ old_bar' = [old_bar EXCEPT !.acq = bar.acq]
    /\ admin_q' = [admin_q EXCEPT !.nvme_cq = bar.acq, !.cq_depth = bar.aqa,
                                  !.cq_head = 0, !.phase = 1]
    /\ UNCHANGED <<bar, dbs, old_dbs, queues, disp, asq, acq, irqs, host, aposted>>

\* Mutant: cc overtakes the ring registers.
CcTurn_first == CcChanged

CcTurn == ~Changed("aqa") /\ ~Changed("asq") /\ ~Changed("acq") /\ CcChanged

\* cc, step by step, as each of its reads may find another value.  First the
\* enable bit: csts.rdy is published ...
CcEnable ==
    /\ Idle /\ CcTurn
    /\ bar' = [bar EXCEPT !.rdy = IF bar.en THEN @ \/ admin_q # NIL ELSE FALSE]
    /\ disp' = [disp EXCEPT !.pc = "cc_shn"]
    /\ UNCHANGED <<old_bar, admin_q, dbs, old_dbs, queues, asq, acq, irqs, host, aposted>>

\* ... then the shutdown: shst, which is never taken back, the doorbells and
\* cq_head, but not the phase ...
CcShutdown ==
    /\ disp.pc = "cc_shn"
    /\ bar' = [bar EXCEPT !.shst = @ \/ bar.shn]
    /\ IF bar.shn
       THEN /\ dbs' = [dbs EXCEPT ![0] = 0]
            /\ old_dbs' = [old_dbs EXCEPT ![0] = 0]
            /\ admin_q' = [admin_q EXCEPT !.cq_head = 0]
       ELSE UNCHANGED <<dbs, old_dbs, admin_q>>
    /\ disp' = [disp EXCEPT !.pc = "cc_store"]
    /\ UNCHANGED <<old_bar, queues, asq, acq, irqs, host, aposted>>

\* ... and cc is read again to be remembered: what the host has written since
\* it saw rdy or shst is taken for seen.
CcStore ==
    /\ disp.pc = "cc_store"
    /\ old_bar' = [old_bar EXCEPT !.en = bar.en, !.shn = bar.shn]
    /\ disp' = [disp EXCEPT !.pc = "idle"]
    /\ UNCHANGED <<bar, admin_q, dbs, old_dbs, queues, asq, acq, irqs, host, aposted>>

proc_bars == ProcAqa \/ ProcAsq \/ ProcAcq \/ CcEnable \/ CcShutdown \/ CcStore

-----------------------------------------------------------------------------
(* The dispatcher: nvmev_proc_admin_sq. *)

\* nvmev_proc_dbs reads the doorbell once.
AdminDoorbell ==
    /\ Idle /\ dbs[0] # old_dbs[0]
    /\ disp' = [pc |-> "admin", q |-> 0, new |-> dbs[0], at |-> old_dbs[0]]
    /\ UNCHANGED <<registers, admin_q, dbs, old_dbs, queues, asq, acq, irqs, host, aposted>>

\* __make_cq_entry_results: the position after an entry has been written.
make_cq_entry(q) ==
    [q EXCEPT !.cq_head = IF @ + 1 = q.cq_depth THEN 0 ELSE @ + 1,
              !.phase = IF q.cq_head + 1 = q.cq_depth THEN 1 - @ ELSE @]

Answer(id) ==
    /\ acq' = [acq EXCEPT ![admin_q.nvme_cq][admin_q.cq_head] = [id |-> id, phase |-> admin_q.phase]]
    /\ admin_q' = make_cq_entry(admin_q)
    /\ aposted' = Append(aposted, id)

set_features(cmd) ==
    /\ nr' = [sq |-> Least(cmd.n, NrQueues), cq |-> Least(cmd.n, NrQueues)]
    /\ UNCHANGED <<sqes, cqes, dbs, old_dbs>>

create_cq(cmd) ==
    /\ cqes' = [cqes EXCEPT ![cmd.qid] =
            [irq_enabled |-> cmd.irq, interrupt_ready |-> FALSE, queue_size |-> CqSize,
             phase |-> 1, cq_head |-> 0, entry_lock |-> FALSE]]
    /\ UNCHANGED <<sqes, nr, dbs, old_dbs>>

create_sq(cmd) ==
    /\ sqes' = [sqes EXCEPT ![cmd.qid] = [cqid |-> cmd.cqid, queue_size |-> SqSize]]
    /\ dbs' = [dbs EXCEPT ![cmd.qid] = 0]
    /\ old_dbs' = [old_dbs EXCEPT ![cmd.qid] = 0]
    /\ UNCHANGED <<cqes, nr>>

delete_sq(cmd) ==
    /\ sqes' = [sqes EXCEPT ![cmd.qid] = NIL]
    /\ UNCHANGED <<cqes, nr, dbs, old_dbs>>

delete_cq(cmd) ==
    /\ cqes' = [cqes EXCEPT ![cmd.qid] = NIL]
    /\ UNCHANGED <<sqes, nr, dbs, old_dbs>>

\* Commands that only fill a page of the host's or a result: whatever page is
\* asked for, known or not, there is one answer, and the queues stay.
NothingChanges == UNCHANGED <<queues, dbs, old_dbs>>
get_log_page(cmd) == NothingChanges
identify(cmd)     == NothingChanges
get_features(cmd) == NothingChanges

\* __nvmev_proc_admin_req.  An abort is ignored: it has no answer.
proc_admin_req ==
    LET id  == asq[admin_q.nvme_sq][disp.at].id
        cmd == asq[admin_q.nvme_sq][disp.at].cmd
    IN  /\ disp.pc = "admin" /\ disp.at # disp.new
        /\ \/ cmd.op = "set_features" /\ set_features(cmd)
           \/ cmd.op = "create_cq" /\ create_cq(cmd)
           \/ cmd.op = "create_sq" /\ create_sq(cmd)
           \/ cmd.op = "delete_sq" /\ delete_sq(cmd)
           \/ cmd.op = "delete_cq" /\ delete_cq(cmd)
           \/ cmd.op = "get_log_page" /\ get_log_page(cmd)
           \/ cmd.op = "identify" /\ identify(cmd)
           \/ cmd.op = "get_features" /\ get_features(cmd)
           \/ cmd.op \in {"other", "abort"} /\ NothingChanges
        /\ IF cmd.op = "abort" THEN UNCHANGED <<acq, admin_q, aposted>> ELSE Answer(id)
        /\ disp' = [disp EXCEPT !.at = IF @ + 1 = admin_q.sq_depth THEN 0 ELSE @ + 1]
        /\ UNCHANGED <<registers, asq, irqs, host>>

\* nvmev_signal_irq(0) ends the batch.
AdminBatchDone ==
    /\ disp.pc = "admin" /\ disp.at = disp.new
    /\ irqs' = irqs \cup {0}
    /\ old_dbs' = [old_dbs EXCEPT ![0] = disp.new]
    /\ disp' = [pc |-> "idle", q |-> 0, new |-> 0, at |-> 0]
    /\ UNCHANGED <<registers, admin_q, dbs, queues, asq, acq, host, aposted>>

-----------------------------------------------------------------------------
(* Properties of this part. *)

\* The commands in the admin ring that the dispatcher has still to execute, as
\* the doorbell and what it remembers of it tell.
AdminOwed ==
    LET from == IF disp.pc = "admin" THEN disp.at ELSE old_dbs[0]
        n == (dbs[0] - from + Depth) % Depth
    IN  [k \in 1 .. n |-> asq[host.boot][(from + k - 1) % Depth].id]

\* The commands of the host's that are to be answered.
AdminOpen == {i \in host.open : Log[i].op # "abort"}

\* When the host has seen csts.rdy, the device uses its rings, at their size;
\* the next answer goes to the entry behind those the host has not seen, the
\* first one at the start, with the phase the host looks for there.  No
\* doorbell rung since is forgotten: what is left in the ring are the last
\* commands sent, all others that are open have their answer posted.  All this
\* in whatever order the registers became visible and whatever was left of an
\* earlier start.
ReadyMeansUsable ==
    host.st = "up" =>
        LET next == host.head + Len(aposted)
            Left == Len(AdminOwed)
        IN  /\ admin_q # NIL
            /\ admin_q.nvme_sq = host.boot /\ admin_q.nvme_cq = host.boot
            /\ admin_q.sq_depth = Depth /\ admin_q.cq_depth = Depth
            /\ admin_q.cq_head = next % Depth
            /\ admin_q.phase = IF next < Depth THEN host.phase ELSE 1 - host.phase
            /\ AdminOwed = [k \in 1 .. Left |-> host.sent - Left + k]
            /\ {aposted[k] : k \in DOMAIN aposted} = {i \in AdminOpen : i <= host.sent - Left}

\* What the host finds in the admin completion ring is what was posted.
AdminRingAgrees == host.st = "up" => HostSees = aposted
=============================================================================
