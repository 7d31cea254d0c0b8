------------------------------- MODULE Timing -------------------------------
(***************************************************************************)
(* The time model of the NAND: a channel's bandwidth (channel_model.c) and  *)
(* the dies behind it (ssd.c).                                              *)
(*                                                                         *)
(* A channel hands out max_credits transfer units per interval of time.     *)
(* What is left of the coming intervals is a ring, which head moves through *)
(* as time passes; valid_len is how far ahead something has been taken.     *)
(* Only taken entries are put back to max_credits when they are passed.     *)
(* The PCIe link is another channel of the same kind.                       *)
(***************************************************************************)
EXTENDS Integers, FiniteSets

CONSTANTS
    NrCredits,      \* NR_CREDIT_ENTRIES
    Interval,       \* UNIT_TIME_INTERVAL
    MaxCredits,     \* max_credits: BANDWIDTH_TO_MAX_CREDITS
    XferLat,        \* xfer_lat of one transfer unit
    Luns,           \* the dies behind the channel
    Latency,        \* pg_rd_lat, pg_wr_lat and blk_er_lat
    MaxXfer,        \* max_ch_xfer_size, in transfer units
    Clocks,         \* bound: the times of the clock are 0 .. Clocks
    Starts,         \* bound: distances from the clock at which commands start
    Units,          \* bound: sizes of transfers
    MaxBooked,      \* bound: see TNext
    Pauses          \* bound: steps of the clock

ASSUME TimingAssumption ==
    {NrCredits, Interval, MaxCredits, MaxXfer} \subseteq Nat \ {0} /\ IsFiniteSet(Luns)
    /\ {XferLat, Clocks, Latency.read, Latency.write, Latency.erase} \subseteq Nat
    /\ Starts \subseteq Int
    /\ Units \subseteq 1 .. (2 * MaxXfer) /\ Pauses \subseteq Nat \ {0}

VARIABLES
    clock,
    ch,         \* struct channel_model
    luns,       \* next_lun_avail_time
    ledger,     \* history: interval -> credits taken, from the clock's on
    busy,       \* history: die -> times [s, e) of its commands that are not over
    agree       \* history: the channel has answered as the ledger

tvars == <<clock, ch, luns, ledger, busy, agree>>

Offs == 0 .. (NrCredits - 1)
Lesser(a, b)  == IF a < b THEN a ELSE b
Greater(a, b) == IF a > b THEN a ELSE b

-----------------------------------------------------------------------------
(* channel_model.c *)

\* The move of head to the current time at the start of chmodel_request: at
\* most valid_len entries are passed and made whole.  The difference is a
\* uint32: a channel idle for 2^32 intervals, 4.8 hours, is beyond the clock.
Elapsed(c, now) == Lesser((now \div Interval) - (c.cur_time \div Interval), c.valid_len)

MoveHead(c, now) ==
    LET n == Elapsed(c, now)
        passed == {(c.head + o) % NrCredits : o \in 0 .. (n - 1)}
    IN  [head |-> (c.head + n) % NrCredits, cur_time |-> now, valid_len |-> c.valid_len - n,
         avail |-> [i \in Offs |-> IF i \in passed THEN MaxCredits ELSE c.avail[i]]]

\* What the entries from the request's on offer together, up to each entry.
Offered(c, first) ==
    LET sum[o \in first .. (NrCredits - 1)] ==
            c.avail[(c.head + o) % NrCredits] + IF o = first THEN 0 ELSE sum[o - 1]
    IN  sum

\* The entry that completes the transfer, or the last one of the ring.
LastTaken(c, first, units) ==
    CHOOSE o \in first .. (NrCredits - 1) :
        /\ Offered(c, first)[o] >= units \/ o = NrCredits - 1
        /\ \A p \in first .. (o - 1) : Offered(c, first)[p] < units

\* Mutant: the last entry does not count.
ValidLength_short(o) == o

\* valid_length of an entry at distance o from head.
ValidLength(o) == o + 1

\* The while loop: each entry gives what it has until nothing remains.
Take(c, first, units) ==
    LET last == LastTaken(c, first, units)
        sum == Offered(c, first)
        left(o) == units - IF o = first THEN 0 ELSE sum[o - 1]
        at(i) == (i - c.head + NrCredits) % NrCredits
    IN  [c EXCEPT !.avail = [i \in Offs |->
                     IF at(i) \in first .. last THEN @[i] - Lesser(@[i], left(at(i))) ELSE @[i]],
                  !.valid_len = Greater(@, ValidLength(last))]

\* The time a transfer is over: its own time, and the intervals it had to wait
\* beyond those it fills by itself.
EndOfTransfer(t, units, delay) ==
    t + XferLat * units + Interval * Greater(delay - units \div MaxCredits, 0)

\* chmodel_request.  A request in the past, or too far ahead, is not delayed.
chmodel_request(c, now, t, units) ==
    LET m == MoveHead(c, now)
        first == (t \div Interval) - (now \div Interval)
    IN  IF t < now \/ first >= NrCredits THEN [ch |-> m, time |-> t]
        ELSE [ch |-> Take(m, first, units),
              time |-> EndOfTransfer(t, units, LastTaken(m, first, units) - first)]

-----------------------------------------------------------------------------
(* The same on a ledger of absolute intervals, without a ring. *)

\* What the intervals lo .. hi have left together, up to each interval.
LedgerLeft(l, lo, hi) ==
    LET sum[i \in lo .. hi] == MaxCredits - l[i] + IF i = lo THEN 0 ELSE sum[i - 1]
    IN  sum

\* The interval that completes a transfer from lo on, or hi.
LedgerEnd(l, lo, hi, units) ==
    CHOOSE i \in lo .. hi :
        /\ LedgerLeft(l, lo, hi)[i] >= units \/ i = hi
        /\ \A j \in lo .. (i - 1) : LedgerLeft(l, lo, hi)[j] < units

LedgerTakes(l, now, t, units) ==
    LET lo == t \div Interval
        hi == (now \div Interval) + NrCredits - 1
        end == LedgerEnd(l, lo, hi, units)
        before(i) == IF i = lo THEN 0 ELSE LedgerLeft(l, lo, hi)[i - 1]
    IN  IF t < now \/ lo > hi THEN [ledger |-> l, time |-> t]
        ELSE [ledger |-> [i \in DOMAIN l |->
                    IF i \in lo .. end THEN Lesser(MaxCredits, l[i] + units - before(i)) ELSE l[i]],
              time |-> EndOfTransfer(t, units, end - lo)]

Intervals == 0 .. ((Clocks \div Interval) + NrCredits)

-----------------------------------------------------------------------------
(* ssd.c *)

TInit ==
    /\ clock = 0
    /\ ch = [head |-> 0, cur_time |-> 0, valid_len |-> 0, avail |-> [i \in Offs |-> MaxCredits]]
    /\ luns = [l \in Luns |-> 0]
    /\ ledger = [i \in Intervals |-> 0]
    /\ busy = [l \in Luns |-> {}]
    /\ agree = TRUE

\* Mutant: a command does not wait for the one before it.
LunFree_now(l, stime) == stime

\* When the die can start.
LunFree(l, stime) == Greater(luns[l], stime)

\* What a transfer leaves behind; the ledger forgets the past.
Transferred(r, x) ==
    /\ ch' = r.ch
    /\ ledger' = [i \in Intervals |-> IF i < clock \div Interval THEN 0 ELSE x.ledger[i]]
    /\ agree' = (agree /\ r.time = x.time)

Occupy(l, s, e) ==
    /\ luns' = [luns EXCEPT ![l] = e]
    /\ busy' = [busy EXCEPT ![l] = IF s < e THEN @ \cup {<<s, e>>} ELSE @]
    /\ UNCHANGED clock

\* NAND_READ of up to max_ch_xfer_size: the cell first, then the channel.
NandRead(l, stime, units) ==
    LET t == LunFree(l, stime) + Latency.read
        r == chmodel_request(ch, clock, t, units)
    IN  /\ units <= MaxXfer
        /\ Transferred(r, LedgerTakes(ledger, clock, t, units))
        /\ Occupy(l, LunFree(l, stime), r.time)

\* NAND_READ of more: the pieces follow one another.
NandReadLong(l, stime, units) ==
    LET t == LunFree(l, stime) + Latency.read
        r == chmodel_request(ch, clock, t, MaxXfer)
        x == LedgerTakes(ledger, clock, t, MaxXfer)
        r2 == chmodel_request(r.ch, clock, r.time, units - MaxXfer)
    IN  /\ units > MaxXfer /\ units <= 2 * MaxXfer
        /\ Transferred(r2, LedgerTakes(x.ledger, clock, x.time, units - MaxXfer))
        /\ Occupy(l, LunFree(l, stime), r2.time)

\* NAND_WRITE: the channel first, then the cell.
NandWrite(l, stime, units) ==
    LET t == LunFree(l, stime)
        r == chmodel_request(ch, clock, t, units)
    IN  /\ Transferred(r, LedgerTakes(ledger, clock, t, units))
        /\ Occupy(l, t, r.time + Latency.write)

\* NAND_ERASE needs the die only; NAND_NOP waits for it.
NandErase(l, stime, lat) ==
    /\ Occupy(l, LunFree(l, stime), LunFree(l, stime) + lat)
    /\ UNCHANGED <<ch, ledger, agree>>

\* Time passes; what is over is forgotten.
Tick(n) ==
    /\ clock + n <= Clocks
    /\ clock' = clock + n
    /\ busy' = [l \in Luns |-> {b \in busy[l] : b[2] > clock + n}]
    /\ UNCHANGED <<ch, luns, ledger, agree>>

\* ssd_next_idle_time, which a flush waits for.
next_idle_time ==
    CHOOSE t \in {clock} \cup {luns[l] : l \in Luns} :
        t >= clock /\ \A l \in Luns : t >= luns[l]

\* Bound: fewer than MaxBooked commands are not over when one comes.
TNext ==
    \/ \E l \in Luns, stime \in {clock + d : d \in Starts} :
        /\ stime >= 0
        /\ Cardinality(UNION {{m} \X busy[m] : m \in Luns}) < MaxBooked
        /\ \/ \E units \in Units :
                NandRead(l, stime, units) \/ NandReadLong(l, stime, units) \/ NandWrite(l, stime, units)
           \/ NandErase(l, stime, Latency.erase)
           \/ NandErase(l, stime, 0)
    \/ \E n \in Pauses : Tick(n)

-----------------------------------------------------------------------------
\* The ring is the ledger: every coming interval has what the transfers have
\* left of it, however often head went round, entries were skipped, a pause
\* outlasted the ring or a transfer ran into its end, and the times the
\* channel has answered are the ones the ledger gives.
RingIsLedger ==
    LET first == ch.cur_time \div Interval
    IN  /\ ch.valid_len \in 0 .. NrCredits
        /\ \A o \in Offs : ch.avail[(ch.head + o) % NrCredits] = MaxCredits - ledger[first + o]
        /\ agree

\* A die does one thing at a time, and a flush waits for all of them.
LunExclusive ==
    \A l \in Luns :
        /\ \A a, b \in busy[l] : a # b => a[2] <= b[1] \/ b[2] <= a[1]
        /\ \A a \in busy[l] : a[2] <= next_idle_time
=============================================================================
