--------------------------------- MODULE Zns ---------------------------------
(***************************************************************************)
(* The zoned FTL: zones with a state and a write pointer, the counted       *)
(* resources (active, open and ZRWA zones), the write buffer that commands  *)
(* take and program operations give back (zns_ftl.c, zns_read_write.c,      *)
(* zns_mgmt_send.c, zns_mgmt_recv.c).                                       *)
(*                                                                          *)
(* The dispatcher takes the command at the head of a submission queue and   *)
(* runs its handler; one that is refused for want of write buffer stays     *)
(* where it is and is tried again later, with what the handler has written  *)
(* into it.  Sizes are in logical blocks.  READ_ONLY and OFFLINE zones do   *)
(* not occur: no code makes a zone READ_ONLY.                               *)
(***************************************************************************)
EXTENDS Integers, Sequences, FiniteSets, FiniteSetsExt, SequencesExt

CONSTANTS
    NZones,     \* nr_zones
    Configs,    \* device configurations, see ConfigType
    SQs,        \* submission queues
    U32, U64,   \* 2^32 and 2^64, made small: where unsigned arithmetic wraps
    NoCmd,      \* an empty queue
    NULL

Zones == 0 .. NZones - 1

\* page: blocks in a page; unit: pages in a program unit (a oneshot page);
\* size: blocks in a zone; wunit: WRITE_UNIT_SIZE; shared: one write buffer
\* for all zones (ZONE_WB_SIZE 0); wb: its size; zrwa, fg, zwb: the sizes of
\* the ZRWA, of its flush granularity and of its buffer; full: the worker may
\* run out of work entries; and the bounds cmds (commands, without a bound if
\* endless), lens (lengths of writes), acts (kinds of commands) and sqs
\* (queues).  The first block of a zone is computed in 32 bits.
ConfigType ==
    {c \in Configs :
        /\ c.page \in Nat \ {0} /\ c.unit \in Nat \ {0} /\ c.wunit \in Nat \ {0}
        /\ c.size \in Nat /\ c.size > 1 /\ c.size % c.page = 0
        /\ c.wunit % c.page = 0 \/ c.page % c.wunit = 0
        /\ NZones * c.size < U32
        /\ c.shared \in BOOLEAN /\ c.wb \in Nat /\ \A n \in c.lens : n \in 1 .. c.wb
        /\ c.zrwa \in Nat /\ c.fg \in 0 .. c.zrwa /\ (c.fg = 0 => c.zrwa = 0)
        /\ c.zwb \in Nat /\ c.cmds \in Nat /\ c.full \in BOOLEAN /\ c.endless \in BOOLEAN}

ASSUME ConfigsSound ==
    Configs = ConfigType /\ NZones \in Nat \ {0} /\ U32 \in Nat /\ U64 \in Nat /\ U32 <= U64

VARIABLES
    cfg,        \* the configuration
    dev,        \* [zone: zone_descs; res: res_infos; wb, zwb: what remains of the
                \* write buffers and of the ZRWA buffers; and the history
                \* written: blocks of each zone that writes were accepted for;
                \* leaked: blocks of each buffer that nothing gives back;
                \* split: a write began or ended inside a page;
                \* zleaked: ZRWA resources that nothing gives back]
    pend,       \* scheduled releases of each write buffer
    zpend,      \* scheduled releases of each ZRWA buffer
    sq,         \* the command at the head of each submission queue
    fault,      \* how the dispatcher came to an end
    \* history
    placed,     \* what became of the last append
    cmds        \* commands submitted

vars == <<cfg, dev, pend, zpend, sq, fault, placed, cmds>>

----------------------------------------------------------------------------
\* Addresses.

zone_to_slba(z) == z * cfg.size
lba_to_zone(lba) == lba \div cfg.size
lba_to_lpn(lba) == lba \div cfg.page
zone_to_elba(z) == zone_to_slba(z + 1) - 1
zone_to_elpn(z) == zone_to_elba(z) \div cfg.page
UnitBlocks == cfg.page * cfg.unit

SameZone(slba, n) == lba_to_zone(slba) = lba_to_zone(slba + n - 1)

\* The write buffer of zone z.
BufOf(z) == IF cfg.shared THEN 0 ELSE z

Opened == {"OPENED_IMPL", "OPENED_EXPL"}
Active == Opened \cup {"CLOSED"}

----------------------------------------------------------------------------
\* Resources and zone states; d is the device.

is_zone_resource_full(d, type) == d.res[type] = NZones
acquire_zone_resource(d, type) ==
    IF d.res[type] < NZones THEN [d EXCEPT !.res[type] = @ + 1] ELSE d
release_zone_resource(d, type) == [d EXCEPT !.res[type] = (@ - 1) % U32]
change_zone_state(d, z, s) == [d EXCEPT !.zone[z].state = s]

\* Mutant: a zone that gets full is no longer open and still active.
FullKeepsActive(d, z, n) ==
    LET moved == [d EXCEPT !.zone[z].wp = @ + n]
    IN  IF moved.zone[z].wp = zone_to_slba(z) + cfg.size
        THEN change_zone_state(release_zone_resource(moved, "OPEN"), z, "FULL")
        ELSE moved

\* The write pointer moves; at the end of the zone it is full.  The ZRWA
\* resource of a full zone is not given back.
increase_write_ptr(d, z, n) ==
    LET moved == [d EXCEPT !.zone[z].wp = @ + n]
    IN  IF moved.zone[z].wp = zone_to_slba(z) + cfg.size
        THEN LET r == release_zone_resource(release_zone_resource(moved, "OPEN"), "ACTIVE")
             IN  [change_zone_state(r, z, "FULL") EXCEPT !.zleaked = @ + d.zone[z].zrwav]
        ELSE moved

\* Blocks of zone z that hold write buffer until their program unit is full.
Held(d, z) ==
    IF d.zone[z].state \in Active /\ d.zone[z].zrwav = 0
    THEN (d.zone[z].wp - zone_to_slba(z)) % UnitBlocks ELSE 0

\* The buffer that a zone holds is lost when the zone goes on without it.
Drop(d, z) == [d EXCEPT !.leaked[BufOf(z)] = @ + Held(d, z)]

----------------------------------------------------------------------------
\* Zone management commands: the device afterwards.

close_zone(d, z) ==
    IF d.zone[z].state \in Opened
    THEN release_zone_resource(change_zone_state(d, z, "CLOSED"), "OPEN") ELSE d

\* The resources of an active zone, given back.
ReleaseAll(d, z) ==
    LET o == IF d.zone[z].state \in Opened THEN release_zone_resource(d, "OPEN") ELSE d
        a == IF d.zone[z].state \in Active THEN release_zone_resource(o, "ACTIVE") ELSE o
    IN  IF d.zone[z].state \in Active /\ d.zone[z].zrwav = 1
        THEN release_zone_resource(a, "ZRWA") ELSE a

finish_zone(d, z) ==
    IF d.zone[z].state = "FULL" THEN d
    ELSE change_zone_state(ReleaseAll(Drop(d, z), z), z, "FULL")

open_zone(d, z, zrwa) ==
    LET state == d.zone[z].state
        short == \/ is_zone_resource_full(d, "ACTIVE") \/ is_zone_resource_full(d, "OPEN")
                 \/ (zrwa = 1 /\ is_zone_resource_full(d, "ZRWA"))
        e     == IF zrwa = 1
                 THEN [acquire_zone_resource(d, "ZRWA") EXCEPT !.zone[z].zrwav = 1] ELSE d
    IN  CASE state = "EMPTY" /\ ~short ->
                change_zone_state(
                    acquire_zone_resource(acquire_zone_resource(e, "ACTIVE"), "OPEN"),
                    z, "OPENED_EXPL")
          [] state = "CLOSED" /\ ~is_zone_resource_full(d, "OPEN") ->
                change_zone_state(acquire_zone_resource(d, "OPEN"), z, "OPENED_EXPL")
          [] state = "OPENED_IMPL" -> change_zone_state(d, z, "OPENED_EXPL")
          [] OTHER -> d

reset_zone(d, z) ==
    LET r == change_zone_state(ReleaseAll(Drop(d, z), z), z, "EMPTY")
    IN  [r EXCEPT !.zone[z].wp = zone_to_slba(z), !.zone[z].zrwav = 0,
                  !.written[z] = {}, !.zwb[z] = IF cfg.zwb > 0 THEN cfg.zwb ELSE @]

\* What an explicit flush up to block slba divides by is zero.
FlushDivides(d, slba) ==
    LET z   == lba_to_zone(slba)
        end == Min({(d.zone[z].wp + cfg.zrwa - 1) % U64, zone_to_slba(z) + cfg.size - 1})
    IN  d.zone[z].zrwav = 1 /\ slba \in d.zone[z].wp .. end

flush_explicit_zrwa(d, slba) ==
    LET z     == lba_to_zone(slba)
        state == d.zone[z].state
        n     == (slba - d.zone[z].wp + 1) % U64
        moved == [d EXCEPT !.zone[z].wp = slba + 1]
    IN  IF ~FlushDivides(d, slba) \/ n % cfg.fg # 0 \/ state \notin Active THEN d
        ELSE IF slba + 1 = zone_to_slba(z) + cfg.size
             THEN change_zone_state(ReleaseAll(moved, z), z, "FULL")
             ELSE moved

zmgmt_send(d, c, slba) ==
    CASE c.op = "close" -> close_zone(d, lba_to_zone(slba))
      [] c.op = "finish" -> finish_zone(d, lba_to_zone(slba))
      [] c.op = "open" -> open_zone(d, lba_to_zone(slba), c.opt)
      [] c.op = "reset" -> reset_zone(d, lba_to_zone(slba))
      [] c.op = "zflush" -> flush_explicit_zrwa(d, slba)
      [] OTHER -> d

----------------------------------------------------------------------------
\* A write to a zone without ZRWA.

\* Mutant: a write may run past the end of its zone.
WriteAcross(z, slba, n) ==
    LET zone == dev.zone[z] IN
    CASE n % cfg.wunit # 0 -> "INVALID_WRITE"
      [] slba # zone.wp -> "INVALID_WRITE"
      [] zone.state = "FULL" -> "FULL"
      [] OTHER -> "SUCCESS"

\* The checks __zns_write makes once it has the buffer, in their order.
WriteStatus(z, slba, n) ==
    LET zone == dev.zone[z] IN
    CASE n % cfg.wunit # 0 -> "INVALID_WRITE"
      [] ~SameZone(slba, n) -> "BOUNDARY"
      [] slba # zone.wp -> "INVALID_WRITE"
      [] zone.state = "FULL" -> "FULL"
      [] zone.state = "EMPTY" /\ is_zone_resource_full(dev, "ACTIVE") -> "NO_ACTIVE_ZONE"
      [] zone.state \in {"EMPTY", "CLOSED"} /\ is_zone_resource_full(dev, "OPEN") -> "NO_OPEN_ZONE"
      [] OTHER -> "SUCCESS"

\* The zone is open when it is written.
OpenForWrite(d, z) ==
    LET a == IF d.zone[z].state = "EMPTY" THEN acquire_zone_resource(d, "ACTIVE") ELSE d
    IN  IF d.zone[z].state \in {"EMPTY", "CLOSED"}
        THEN change_zone_state(acquire_zone_resource(a, "OPEN"), z, "OPENED_IMPL") ELSE a

\* Mutant: a unit is given back only at its own end, not at the zone's.
ReleasesAtUnitEnd(z, slba, n) ==
    LET ends == {p \in lba_to_lpn(slba) .. lba_to_lpn(slba + n - 1) :
                    (p - lba_to_lpn(zone_to_slba(z)) + 1) % cfg.unit = 0}
    IN  [i \in 1 .. Cardinality(ends) |-> UnitBlocks]

\* The releases a write schedules: one for every page it ends a program unit
\* or the zone with, of a unit's blocks, or of the blocks of the zone's last,
\* incomplete unit.
Releases(z, slba, n) ==
    LET first == lba_to_lpn(zone_to_slba(z))
        ends  == {p \in lba_to_lpn(slba) .. lba_to_lpn(slba + n - 1) :
                    (p - first + 1) % cfg.unit = 0 \/ p = zone_to_elpn(z)}
        k     == Cardinality(ends)
        tail  == cfg.size % UnitBlocks
    IN  [i \in 1 .. k |->
            IF i = k /\ zone_to_elpn(z) \in ends /\ tail > 0 THEN tail ELSE UnitBlocks]

\* The dispatcher is done with the command at the head of queue q (its
\* completion may still be lost: Accept of CmdPath).
Answered(q) == sq' = [sq EXCEPT ![q] = NoCmd]

IsWrite(q) == sq[q] # NoCmd /\ sq[q].op \in {"write", "append"}
ZoneOf(q) == lba_to_zone(sq[q].slba)
StartOf(q) == IF sq[q].op = "append" THEN dev.zone[ZoneOf(q)].wp ELSE sq[q].slba

\* Mutant: the block after the append is left in the command.
RefusedAdvances(q) ==
    LET z == ZoneOf(q) IN
    /\ IsWrite(q) /\ z \in Zones
    /\ dev.zone[z].zrwav = 0
    /\ dev.wb[BufOf(z)] < sq[q].n
    /\ sq' = [sq EXCEPT ![q].slba = IF sq[q].op = "append" THEN StartOf(q) + sq[q].n ELSE @,
                        ![q].moved = @ \/ (sq[q].op = "append" /\ dev.zone[z].state = "FULL")]
    /\ UNCHANGED <<dev, pend, zpend, fault, placed>>

\* Mutant: a write that finds too little buffer takes what there is.
RefusedTakes(q) ==
    LET z == ZoneOf(q) IN
    /\ IsWrite(q) /\ z \in Zones
    /\ dev.zone[z].zrwav = 0
    /\ dev.wb[BufOf(z)] < sq[q].n
    /\ dev' = [dev EXCEPT !.wb[BufOf(z)] = 0]
    /\ sq' = [sq EXCEPT ![q].slba = StartOf(q),
                        ![q].moved = @ \/ (sq[q].op = "append" /\ dev.zone[z].state = "FULL")]
    /\ UNCHANGED <<pend, zpend, fault, placed>>

\* No buffer: the command stays, an append with the block it would start at.
zns_write_refused(q) ==
    LET z == ZoneOf(q) IN
    /\ IsWrite(q) /\ z \in Zones
    /\ dev.zone[z].zrwav = 0
    /\ dev.wb[BufOf(z)] < sq[q].n
    /\ sq' = [sq EXCEPT ![q].slba = StartOf(q),
                        ![q].moved = @ \/ (sq[q].op = "append" /\ dev.zone[z].state = "FULL")]
    /\ UNCHANGED <<dev, pend, zpend, fault, placed>>

\* An error: the buffer that was taken is not given back.
zns_write_error(q) ==
    LET z == ZoneOf(q) IN
    /\ IsWrite(q) /\ z \in Zones
    /\ dev.zone[z].zrwav = 0
    /\ dev.wb[BufOf(z)] >= sq[q].n
    /\ WriteStatus(z, StartOf(q), sq[q].n) # "SUCCESS"
    /\ dev' = [dev EXCEPT !.wb[BufOf(z)] = @ - sq[q].n, !.leaked[BufOf(z)] = @ + sq[q].n]
    /\ Answered(q)
    /\ UNCHANGED <<pend, zpend, fault, placed>>

\* How many of the releases r find a work entry: once one does not, none does
\* until the dispatcher is done with the command.
Scheduled(r) == {k \in 0 .. Len(r) : cfg.full \/ k = Len(r)}

\* The blocks of the releases r after the first k are lost.
Rest(r, k) == FoldLeft(+, 0, SubSeq(r, k + 1, Len(r)))
Lose(d, b, r, k) == [d EXCEPT !.leaked[b] = @ + Rest(r, k)]

zns_write_done(q) ==
    LET z == ZoneOf(q)
        slba == StartOf(q)
        n == sq[q].n
        r == Releases(z, slba, n)
        taken == [dev EXCEPT !.wb[BufOf(z)] = @ - n,
                             !.written[z] = @ \cup (slba .. slba + n - 1),
                             !.split = @ \/ slba % cfg.page # 0 \/ (slba + n) % cfg.page # 0]
    IN
    /\ IsWrite(q) /\ z \in Zones
    /\ dev.zone[z].zrwav = 0
    /\ dev.wb[BufOf(z)] >= n
    /\ WriteStatus(z, slba, n) = "SUCCESS"
    /\ \E k \in Scheduled(r) :
        /\ dev' = Lose(increase_write_ptr(OpenForWrite(taken, z), z, n), BufOf(z), r, k)
        /\ pend' = [pend EXCEPT ![BufOf(z)] = @ \o SubSeq(r, 1, k)]
    /\ placed' = IF sq[q].op = "append"
                 THEN [named |-> sq[q].named, at |-> lba_to_zone(slba), moved |-> sq[q].moved]
                 ELSE placed
    /\ Answered(q)
    /\ UNCHANGED <<zpend, fault>>

----------------------------------------------------------------------------
\* A write to a zone with ZRWA.

\* Blocks that the write flushes implicitly.
ImplicitFlush(z, elba) ==
    LET start == dev.zone[z].wp + cfg.zrwa
    IN  CASE elba >= start -> ((elba - start) \div cfg.fg + 1) * cfg.fg
          [] elba < start /\ elba = zone_to_elba(z) -> elba - dev.zone[z].wp + 1
          [] OTHER -> 0

ZrwaRefuses(z, slba, n) ==
    \/ n % cfg.wunit # 0
    \/ ~SameZone(slba, n)
    \/ slba < dev.zone[z].wp
    \/ slba + n - 1 > (dev.zone[z].wp + 2 * cfg.zrwa - 1) % U64
    \/ dev.zone[z].state = "FULL"
    \/ dev.zone[z].state = "CLOSED" /\ is_zone_resource_full(dev, "OPEN")

\* A closed zone is opened, and takes its ZRWA from the ZRWA buffer (again).
ZrwaOpened(z) ==
    IF dev.zone[z].state = "CLOSED"
    THEN [change_zone_state(acquire_zone_resource(dev, "OPEN"), z, "OPENED_IMPL")
            EXCEPT !.zwb[z] = @ - cfg.zrwa]
    ELSE dev

\* The program units that the blocks from wp on complete.
ZrwaReleases(z, n) ==
    LET first == lba_to_lpn(zone_to_slba(z))
        wp    == lba_to_lpn(dev.zone[z].wp)
        ends  == {p \in wp .. wp + n \div cfg.page - 1 : (p - first + 1) % cfg.unit = 0}
    IN  [i \in 1 .. Cardinality(ends) |-> UnitBlocks]

zns_write_zrwa(q) ==
    LET z    == ZoneOf(q)
        slba == sq[q].slba
        n    == sq[q].n
        elba == slba + n - 1
        d    == ZrwaOpened(z)
        toFlush == ImplicitFlush(z, elba)
        r    == ZrwaReleases(z, toFlush)
    IN
    /\ IsWrite(q) /\ z \in Zones
    /\ dev.zone[z].zrwav = 1
    /\ UNCHANGED placed
    /\ \/ /\ ZrwaRefuses(z, slba, n)
          /\ Answered(q)
          /\ UNCHANGED <<dev, pend, zpend, fault>>
       \/ \* A closed zone finds no buffer (or no ZRWA is configured), or the ZRWA
          \* or what is to be flushed is larger than the buffer: BUG_ON.
          /\ ~ZrwaRefuses(z, slba, n)
          /\ \/ dev.zone[z].state = "CLOSED" /\ (dev.zwb[z] < cfg.zrwa \/ cfg.zrwa = 0)
             \/ dev.zone[z].state = "CLOSED" /\ cfg.zrwa > cfg.zwb
             \/ cfg.fg > 0 /\ toFlush > cfg.zwb
          /\ fault' = "assert"
          /\ UNCHANGED <<dev, pend, zpend, sq>>
       \/ /\ ~ZrwaRefuses(z, slba, n)
          /\ dev.zone[z].state \in Opened /\ cfg.fg = 0
          /\ fault' = "divide"
          /\ UNCHANGED <<dev, pend, zpend, sq>>
       \/ /\ ~ZrwaRefuses(z, slba, n)
          /\ cfg.fg > 0
          /\ dev.zone[z].state = "CLOSED" => dev.zwb[z] >= cfg.zrwa /\ cfg.zwb >= cfg.zrwa
          /\ toFlush <= cfg.zwb
          /\ IF toFlush > d.zwb[z]
             THEN dev' = d /\ UNCHANGED <<pend, zpend, sq, fault>>
             ELSE /\ dev' = IF toFlush = 0 THEN d
                            ELSE increase_write_ptr([d EXCEPT !.zwb[z] = @ - toFlush], z, toFlush)
                  /\ \E k \in Scheduled(r) : zpend' = [zpend EXCEPT ![z] = @ \o SubSeq(r, 1, k)]
                  /\ Answered(q)
                  /\ UNCHANGED <<pend, fault>>

----------------------------------------------------------------------------
\* The other commands.

\* The zone of the command does not exist: zone_descs is read past its end.
NoSuchZone(q) ==
    /\ IsWrite(q) /\ ZoneOf(q) \notin Zones
    /\ fault' = "wild"
    /\ UNCHANGED <<dev, pend, zpend, sq, placed>>

\* Nothing but the time a read takes is decided by the zones.
zns_read(q) ==
    /\ sq[q] # NoCmd /\ sq[q].op = "read"
    /\ Answered(q)
    /\ UNCHANGED <<dev, pend, zpend, fault, placed>>

\* A command for all zones, one zone after the other.
SendToAll(d, c) ==
    LET sent[n \in 0 .. NZones] ==
            IF n = 0 THEN d ELSE zmgmt_send(sent[n - 1], c, zone_to_slba(n - 1))
    IN  sent[NZones]

zns_zmgmt_send(q) ==
    LET c == sq[q] IN
    /\ c # NoCmd /\ c.op \in {"close", "finish", "open", "reset", "offline", "zflush"}
    /\ UNCHANGED <<pend, zpend, placed>>
    /\ IF c.op = "zflush" /\ cfg.fg = 0 /\ FlushDivides(dev, c.slba)
       THEN fault' = "divide" /\ UNCHANGED <<dev, sq>>
       ELSE /\ dev' = IF c.all THEN SendToAll(dev, c) ELSE zmgmt_send(dev, c, c.slba)
            /\ Answered(q)
            /\ UNCHANGED fault

\* A worker gives buffer back.
ReleaseBuffer(b) ==
    /\ pend[b] # <<>>
    /\ dev' = [dev EXCEPT !.wb[b] = @ + Head(pend[b])]
    /\ pend' = [pend EXCEPT ![b] = Tail(@)]
    /\ UNCHANGED <<cfg, zpend, sq, fault, placed, cmds>>

ReleaseZrwaBuffer(z) ==
    /\ zpend[z] # <<>>
    /\ dev' = [dev EXCEPT !.zwb[z] = @ + Head(zpend[z])]
    /\ zpend' = [zpend EXCEPT ![z] = Tail(@)]
    /\ UNCHANGED <<cfg, pend, sq, fault, placed, cmds>>

----------------------------------------------------------------------------
\* Commands a host submits: writes at the write pointer it knows or one
\* block further, appends, and management of one zone or of all.
Cmd(op, z, slba, n, opt, all) ==
    [op |-> op, named |-> z, slba |-> slba, n |-> n, opt |-> opt, all |-> all, moved |-> FALSE]

HostCmds ==
    UNION { {Cmd("write", z, dev.zone[z].wp + i, n, 0, FALSE) :
                i \in IF dev.zone[z].wp + 1 < zone_to_slba(z + 1) THEN {0, 1} ELSE {0},
                n \in cfg.lens}
            \cup {Cmd("append", z, zone_to_slba(z), n, 0, FALSE) : n \in cfg.lens}
            \cup {Cmd(op, z, zone_to_slba(z), 0, 0, FALSE) :
                    op \in {"read", "close", "finish", "reset", "offline"}}
            \cup {Cmd(op, 0, 0, 0, 0, TRUE) : op \in {"close", "finish", "open", "reset"}}
            \cup {Cmd("open", z, zone_to_slba(z), 0, opt, FALSE) : opt \in {0, 1}}
            \cup {Cmd("zflush", z, zone_to_slba(z) + i, 0, 0, FALSE) : i \in {0, 1}}
          : z \in Zones }

Submit(q) ==
    /\ q \in cfg.sqs /\ sq[q] = NoCmd
    /\ cfg.endless \/ cmds < cfg.cmds
    /\ cmds' = IF cfg.endless THEN cmds ELSE cmds + 1
    /\ \E c \in HostCmds : c.op \in cfg.acts /\ sq' = [sq EXCEPT ![q] = c]
    /\ UNCHANGED <<cfg, dev, pend, zpend, fault, placed>>

zns_proc_nvme_io_cmd(q) ==
    /\ \/ zns_write_refused(q) \/ zns_write_error(q) \/ zns_write_done(q)
       \/ zns_write_zrwa(q) \/ NoSuchZone(q)
       \/ zns_read(q) \/ zns_zmgmt_send(q)
    /\ UNCHANGED <<cfg, cmds>>

Running == fault = "none"

zns_init_namespace ==
    dev = [zone    |-> [z \in Zones |-> [state |-> "EMPTY", wp |-> zone_to_slba(z), zrwav |-> 0]],
           res     |-> [type \in {"ACTIVE", "OPEN", "ZRWA"} |-> 0],
           wb      |-> [b \in Zones |-> cfg.wb],
           zwb     |-> [z \in Zones |-> cfg.zwb],
           written |-> [z \in Zones |-> {}],
           leaked  |-> [b \in Zones |-> 0],
           split   |-> FALSE,
           zleaked |-> 0]

Init ==
    /\ cfg \in Configs
    /\ zns_init_namespace
    /\ pend = [b \in Zones |-> <<>>]
    /\ zpend = [z \in Zones |-> <<>>]
    /\ sq = [q \in SQs |-> NoCmd]
    /\ fault = "none"
    /\ placed = NULL
    /\ cmds = 0

Next ==
    \/ \E q \in SQs : Running /\ (Submit(q) \/ zns_proc_nvme_io_cmd(q))
    \/ \E b \in Zones : Running /\ (ReleaseBuffer(b) \/ ReleaseZrwaBuffer(b))

\* The dispatcher goes round the queues for ever, and a worker performs what
\* is due.
Fairness ==
    /\ \A q \in SQs : WF_vars(Running /\ zns_proc_nvme_io_cmd(q))
    /\ \A b \in Zones : WF_vars(Running /\ (ReleaseBuffer(b) \/ ReleaseZrwaBuffer(b)))

Spec == Init /\ [][Next]_vars /\ Fairness

----------------------------------------------------------------------------
States == Active \cup {"EMPTY", "FULL"}

\* Every variable has its type (struct zns_ftl).
TypeOK ==
    /\ \A z \in Zones :
        /\ dev.zone[z].state \in States
        /\ dev.zone[z].wp \in zone_to_slba(z) .. zone_to_slba(z + 1)
        /\ dev.zone[z].zrwav \in {0, 1}
        /\ dev.wb[z] >= 0 /\ dev.zwb[z] >= 0
    /\ \A type \in DOMAIN dev.res : dev.res[type] \in 0 .. NZones
    /\ fault \in {"none", "assert", "divide", "wild"}
    /\ cmds \in 0 .. cfg.cmds

Count(P(_)) == Cardinality({z \in Zones : P(dev.zone[z])})

\* The counters of open, active and ZRWA zones agree with the zones' states
\* through every path that opens, closes, fills, finishes and resets a zone,
\* but for the ZRWA of zones that a write filled; the write pointer agrees
\* with the state; and a zone without ZRWA has accepted each block below its
\* write pointer, and none above (__zns_write, zns_mgmt_send.c).  A device
\* without ZRWA comes to divide by its granularity only for zone 0 at its
\* start, where the bound of the valid range wraps around.
ZonesSound ==
    /\ fault = "divide" => cfg.fg = 0 /\ dev.zone[0].zrwav = 1 /\ dev.zone[0].wp = 0
    /\ dev.res["OPEN"] = Count(LAMBDA x : x.state \in Opened)
    /\ dev.res["ACTIVE"] = Count(LAMBDA x : x.state \in Active)
    /\ dev.res["ZRWA"] = Count(LAMBDA x : x.state \in Active /\ x.zrwav = 1) + dev.zleaked
    /\ \A z \in Zones :
        LET x == dev.zone[z] IN
        /\ x.state = "EMPTY" => x.wp = zone_to_slba(z) /\ x.zrwav = 0
        /\ x.wp = zone_to_slba(z + 1) => x.state = "FULL"
        /\ x.zrwav = 0 => dev.written[z] = zone_to_slba(z) .. x.wp - 1

HeldIn(b) == MapThenSumSet(LAMBDA z : IF BufOf(z) = b THEN Held(dev, z) ELSE 0, Zones)

\* The write buffer is accounted for: what remains, what is scheduled to come
\* back, what incomplete program units hold, and what was lost by a command
\* that failed, a zone that was reset or finished or a release that found no
\* work entry, make up the buffer.
\* Writes that split a page give back more than was taken, never less.
BufferLedger ==
    \A b \in {BufOf(z) : z \in Zones} :
        LET total == dev.wb[b] + FoldLeft(+, 0, pend[b]) + HeldIn(b) + dev.leaked[b]
        IN  total >= cfg.wb /\ (~dev.split => total = cfg.wb)

\* An append is placed in the zone it names, although the handler overwrites
\* the command with the block it would start at: unless it was refused for
\* want of buffer while that zone was full (then it is tried again as an
\* append to the next zone).
AppendInItsZone == placed # NULL => placed.at = placed.named \/ placed.moved

\* The command of queue q waits for buffer that nothing will give back: what
\* incomplete program units hold and what was lost leave less than it needs,
\* or its flush needs more of the ZRWA buffer than remains and no release of
\* it is scheduled.
Starved(q) ==
    /\ IsWrite(q) /\ ZoneOf(q) \in Zones
    /\ LET z == ZoneOf(q)
           b == BufOf(z)
           n == sq[q].n
       IN  IF dev.zone[z].zrwav = 0
           THEN dev.wb[b] < n /\ dev.leaked[b] + HeldIn(b) > cfg.wb - n
           ELSE cfg.fg > 0 /\ ImplicitFlush(z, sq[q].slba + n - 1) > dev.zwb[z] /\ zpend[z] = <<>>

\* The command of queue p takes of the buffers of zone z.
Takes(p, z) ==
    /\ zns_proc_nvme_io_cmd(p)
    /\ dev'.wb[BufOf(z)] < dev.wb[BufOf(z)] \/ dev'.zwb[z] < dev.zwb[z]

\* The dispatcher is done in the end with every command, although it may
\* refuse it for want of buffer again and again: unless the buffer the command
\* waits for is and stays held by incomplete program units or lost, or another
\* queue takes of that buffer for ever (the handler keeps no turn for a command
\* it refused), or the dispatcher is gone.
AnsweredOrStarved ==
    \A q \in SQs :
        \/ []<>(sq[q] = NoCmd)
        \/ <>[]Starved(q)
        \/ <>[]~Running
        \/ \E p \in SQs \ {q}, z \in Zones :
                /\ []<><<Takes(p, z)>>_vars
                /\ []<>(sq[q] # NoCmd /\ ZoneOf(q) = z)

=============================================================================
