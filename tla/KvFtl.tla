-------------------------------- MODULE KvFtl --------------------------------
(***************************************************************************)
(* The key-value FTL (kv_ftl.c) with its two allocators (bitmap.c and       *)
(* append_only.c): a hash table whose slots are chained by next_slot, the   *)
(* storage the values are copied to, the commands store, retrieve, exist,   *)
(* delete and batch, and the iterators over the table.                      *)
(*                                                                          *)
(* One I/O worker performs the commands, each to its end.  The storage is   *)
(* an array of cells; a value is a sequence of cells, and one of at most    *)
(* SmallLength of them is small.  The keys have one length, so that a key   *)
(* in the table matches by equality.                                        *)
(***************************************************************************)
EXTENDS Integers, Sequences, FiniteSets, FiniteSetsExt

CONSTANTS
    Keys,           \* keys
    Hash,           \* key -> what hash_function makes of it
    NSlots,         \* hash_slots
    SmallLength,    \* SMALL_LENGTH, in cells
    LargeLength,    \* LARGE_LENGTH, in cells
    DevSize,        \* storage_size, in cells
    NHandles,       \* the iterator handles are 1 .. NHandles (16)
    IterBuf,        \* keys that the buffer of one iterator read holds (51)
    Wants,          \* sets of keys that a bitmask and a prefix select
    Absent,         \* no value, no key
    NULL, Wild,     \* a pointer that is null, and one never initialised
    Bounds          \* each [keys, vals, inserts, batch, opens, beyond]: what is stored, and bounds
                    \* on insertions, commands in a batch and iterators opened;
                    \* beyond: whether commands that follow a misuse are explored

\* Sizes are positive, a hash is a number, and a command's value is not empty
\* and fits into LARGE_LENGTH.
ASSUME KvAssumption ==
    /\ NSlots \in Nat \ {0} /\ DevSize \in Nat /\ NHandles \in Nat \ {0} /\ IterBuf \in Nat \ {0}
    /\ SmallLength \in Nat \ {0} /\ LargeLength \in Nat /\ SmallLength <= LargeLength
    /\ Hash \in [Keys -> Nat]
    /\ \A b \in Bounds :
        /\ b.keys \subseteq Keys /\ \A v \in b.vals : Len(v) \in 1 .. LargeLength
        /\ b.inserts \in Nat /\ b.batch \in Nat /\ b.opens \in Nat

\* Values are sequences of cells.  Absent is not one.
Cells == UNION {UNION {{v[i] : i \in DOMAIN v} : v \in b.vals} : b \in Bounds}

ASSUME CellAssumption ==
    /\ \A b \in Bounds : \A v \in b.vals : v = [i \in 1 .. Len(v) |-> v[i]]
    /\ \A n \in 1 .. LargeLength : Absent \notin [1 .. n -> Cells \cup {Absent}]

VARIABLES
    table,      \* kv_mapping_table
    mem,        \* storage_mapped
    alloc,      \* the allocator's state
    iter,       \* iter_handle, with what a host has seen through each
    batch,      \* commands of the batch in progress left to perform
    resp,       \* the answer the worker is completing a command with
    fault,      \* how the worker came to an end
    \* history
    extent,     \* key -> cells reserved when it was inserted
    room,       \* insertions the allocators still have room for
    misused,    \* a store went beyond that room, or beyond its extent
    dict,       \* key -> the value a lookup finds, or Absent
    bound, inserts, opens

history == <<extent, room, misused, inserts>>

vars == <<table, mem, alloc, iter, batch, resp, fault, extent, room, misused,
          dict, bound, inserts, opens>>

Slots == 0 .. NSlots - 1
Handles == 1 .. NHandles

----------------------------------------------------------------------------
\* The mapping table.

NoEntry == [key |-> Absent, mem_offset |-> -1, length |-> -1, next_slot |-> -1]

Occupied(t, s) == s # -1 /\ t[s].mem_offset # -1

get_hash_slot(k) == Hash[k] % NSlots

\* The slots a walk along next_slot visits, -1 from its end on.
Walk(t, first) ==
    LET at[n \in 0 .. NSlots] ==
            IF n = 0 THEN first
            ELSE LET s == at[n - 1] IN IF Occupied(t, s) THEN t[s].next_slot ELSE -1
    IN  at

\* The slot that holds key k, or -1.
get_mapping_entry(t, k) ==
    LET at   == Walk(t, get_hash_slot(k))
        hits == {n \in 0 .. NSlots : Occupied(t, at[n]) /\ t[at[n]].key = k}
    IN  IF hits = {} THEN -1 ELSE at[Min(hits)]

\* The same walk, for a key of a batch.
get_mapping_entry_by_key(t, k) == get_mapping_entry(t, k)

\* The last slot of the chain that starts at the occupied slot s.
Tail_slot(t, s) ==
    LET at == Walk(t, s) IN at[Max({n \in 0 .. NSlots : Occupied(t, at[n])})]

\* The free slot next after slot s, cyclically.
FreeAfter(t, s) ==
    (s + Min({n \in 1 .. NSlots : ~Occupied(t, (s + n) % NSlots)})) % NSlots

TableFull(t) == \A s \in Slots : Occupied(t, s)

\* Mutant: the new slot is linked to the slot that was hashed to.
LinkFromHashed(t, s) == [prev |-> s, slot |-> FreeAfter(t, Tail_slot(t, s))]

\* Mutant: the previous slot is taken after the search for a free one.
LinkFromFree(t, s) ==
    [prev |-> FreeAfter(t, Tail_slot(t, s)), slot |-> FreeAfter(t, Tail_slot(t, s))]

find_next_slot(t, s) ==
    [prev |-> Tail_slot(t, s), slot |-> FreeAfter(t, Tail_slot(t, s))]

\* The table with a new entry; the caller has found it not to be full.
new_mapping_entry(t, k, off, len) ==
    LET h     == get_hash_slot(k)
        place == IF Occupied(t, h) THEN find_next_slot(t, h) ELSE [prev |-> -1, slot |-> h]
        filled == [t EXCEPT ![place.slot].key = k, ![place.slot].mem_offset = off,
                            ![place.slot].length = len]
    IN  IF place.prev = -1 THEN filled
        ELSE [filled EXCEPT ![place.prev].next_slot = place.slot]

new_mapping_entry_by_key(t, k, off, len) == new_mapping_entry(t, k, off, len)

update_mapping_entry(t, k, len) == [t EXCEPT ![get_mapping_entry(t, k)].length = len]

delete_mapping_entry(t, k) == [t EXCEPT ![get_mapping_entry(t, k)] = NoEntry]

----------------------------------------------------------------------------
\* The allocators.  Neither of them ever gives space back or fails.

small_nbits == (DevSize \div 2) \div SmallLength
large_nbits == (DevSize \div 2) \div LargeLength

\* bitmap_find_next_zero_area of the kernel, for one bit: past the end of
\* the map when it finds none.
bitmap_find_next_zero_area(bits, nbits, from) ==
    LET zero == {b \in from .. nbits - 1 : b \notin bits}
    IN  IF zero = {} THEN nbits + 1 ELSE Min(zero)

AreaOf(len) ==
    IF len > SmallLength
    THEN [name |-> "large", nbits |-> large_nbits, unit |-> LargeLength, base |-> DevSize \div 2]
    ELSE [name |-> "small", nbits |-> small_nbits, unit |-> SmallLength, base |-> 0]

\* [off: where, to: the allocator afterwards, got: the cells reserved].
bitmap_allocate(a, len) ==
    LET area == AreaOf(len)
        off  == bitmap_find_next_zero_area(a[area.name].bits, area.nbits, a[area.name].last)
        next == IF off + 1 > area.nbits THEN 0 ELSE off + 1
    IN  [off |-> area.base + off * area.unit,
         to  |-> [a EXCEPT ![area.name] = [bits |-> @.bits \cup {off}, last |-> next]],
         got |-> area.unit]

append_only_allocate(a, len) ==
    [off |-> a.latest, to |-> [a EXCEPT !.latest = @ + len], got |-> len]

allocate_mem_offset(a, len) ==
    IF a.kind = "bitmap" THEN bitmap_allocate(a, len) ELSE append_only_allocate(a, len)

----------------------------------------------------------------------------
\* The storage.

WriteCells(m, off, v) ==
    [c \in DOMAIN m |-> IF c - off \in 1 .. Len(v) THEN v[c - off] ELSE m[c]]

ReadCells(m, off, len) == [i \in 1 .. len |-> m[off + i]]

\* The value of a key, as a lookup finds it.
Value(t, m, k) ==
    LET s == get_mapping_entry(t, k)
    IN  IF s = -1 THEN Absent ELSE ReadCells(m, t[s].mem_offset, t[s].length)

----------------------------------------------------------------------------
Answer(op, k, res) == [op |-> op, key |-> k, res |-> res]
NoAnswer == Answer("none", Absent, Absent)

Class(v) == IF Len(v) <= SmallLength THEN "small" ELSE "large"

kv_init_namespace ==
    /\ table = [s \in Slots |-> NoEntry]
    /\ mem = [c \in 1 .. DevSize |-> Absent]
    /\ \E kind \in {"bitmap", "append_only"} :
          alloc = [kind |-> kind, latest |-> 0,
                   small |-> [bits |-> {}, last |-> 0], large |-> [bits |-> {}, last |-> 0]]
    /\ \E last \in {NULL, Wild} :
          iter = [h \in Handles |-> IF h = NHandles THEN last ELSE NULL]

Init ==
    /\ kv_init_namespace
    /\ batch = 0
    /\ resp = NoAnswer
    /\ dict = [k \in Keys |-> Absent]
    /\ bound \in Bounds
    /\ fault = "none"
    /\ extent = [k \in Keys |-> 0]
    /\ room = [small |-> small_nbits, large |-> large_nbits]
    /\ misused = FALSE
    /\ inserts = 0 /\ opens = 0

Running == fault = "none" /\ (misused => bound.beyond)

\* The worker takes the next command.
Idle == Running /\ batch = 0 /\ resp = NoAnswer

\* A new key: reserve, copy, enter it in the table.
InsertNew(op, k, v) ==
    LET a == allocate_mem_offset(alloc, Len(v)) IN
    /\ inserts < bound.inserts
    /\ inserts' = inserts + 1
    /\ alloc' = a.to
    /\ mem' = WriteCells(mem, a.off, v)
    /\ extent' = [extent EXCEPT ![k] = a.got]
    /\ room' = [room EXCEPT ![Class(v)] = IF @ = -1 THEN -1 ELSE @ - 1]
    /\ misused' = (misused \/ a.off + Len(v) > DevSize \/ TableFull(table)
                     \/ (alloc.kind = "bitmap" /\ room[Class(v)] <= 0))
    /\ \/ /\ a.off + Len(v) > DevSize
          /\ fault' = "wild"
          /\ UNCHANGED table
       \/ /\ a.off + Len(v) <= DevSize
          /\ TableFull(table)
          /\ fault' = "hang"
          /\ UNCHANGED table
       \/ /\ a.off + Len(v) <= DevSize
          /\ ~TableFull(table)
          /\ table' = IF op = "store" THEN new_mapping_entry(table, k, a.off, Len(v))
                      ELSE new_mapping_entry_by_key(table, k, a.off, Len(v))
          /\ UNCHANGED fault

\* A key that is there: copy over its value.  A length is only followed by a
\* plain store, and only between small values.
OverwriteOld(op, k, v) ==
    LET s     == get_mapping_entry(table, k)
        off   == table[s].mem_offset
        small == Len(v) <= SmallLength /\ table[s].length <= SmallLength
    IN
    /\ mem' = WriteCells(mem, off, v)
    /\ misused' = (misused \/ Len(v) > extent[k])
    /\ IF off + Len(v) > DevSize
       THEN fault' = "wild" /\ UNCHANGED table
       ELSE /\ table' = IF op = "store" /\ Len(v) # table[s].length /\ small
                        THEN update_mapping_entry(table, k, Len(v)) ELSE table
            /\ UNCHANGED fault
    /\ UNCHANGED <<alloc, extent, room, inserts>>

\* __do_perform_kv_io for a store, __do_perform_kv_batched_io for a batch.
Put(op, k, v) ==
    LET s == IF op = "store" THEN get_mapping_entry(table, k)
             ELSE get_mapping_entry_by_key(table, k)
    IN  IF s = -1 THEN InsertNew(op, k, v) ELSE OverwriteOld(op, k, v)

KvStoreCmd(k, v) ==
    /\ Idle
    /\ Put("store", k, v)
    /\ UNCHANGED <<iter, batch, resp, opens>>

\* A host that reads asks for n cells.
Retrieve(k, n) ==
    /\ Idle
    /\ LET s == get_mapping_entry(table, k) IN
       resp' = Answer("retrieve", k,
                      IF s = -1 THEN Absent
                      ELSE ReadCells(mem, table[s].mem_offset, Min({n, table[s].length})))
    /\ UNCHANGED <<table, mem, alloc, iter, batch, fault, history, opens>>

Exist(k) ==
    /\ Idle
    /\ resp' = Answer("exist", k, IF get_mapping_entry(table, k) = -1 THEN "no" ELSE "yes")
    /\ UNCHANGED <<table, mem, alloc, iter, batch, fault, history, opens>>

\* The iterators a host reads no longer owe it the entry of slot s.
Forget(s) ==
    [h \in Handles |->
        IF iter[h] \in {NULL, Wild} THEN iter[h] ELSE [iter[h] EXCEPT !.stay = @ \ {s}]]

Delete(k) ==
    LET s == get_mapping_entry(table, k) IN
    /\ Idle
    /\ IF s = -1
       THEN /\ resp' = Answer("delete", k, "no")
            /\ UNCHANGED <<table, iter>>
       ELSE /\ resp' = Answer("delete", k, "yes")
            /\ table' = delete_mapping_entry(table, k)
            /\ iter' = Forget(s)
    /\ UNCHANGED <<mem, alloc, batch, fault, history, opens>>

\* __do_perform_kv_batch: n commands, performed one after the other.
Batch(n) ==
    /\ Idle
    /\ inserts + n <= bound.inserts
    /\ batch' = n
    /\ UNCHANGED <<table, mem, alloc, iter, resp, fault, history, opens>>

BatchedIo(k, v) ==
    /\ Running /\ batch > 0
    /\ batch' = batch - 1
    /\ Put("batch", k, v)
    /\ UNCHANGED <<iter, resp, opens>>

----------------------------------------------------------------------------
\* Iterators.

Matching(want, from) == {s \in from .. NSlots - 1 : Occupied(table, s) /\ table[s].key \in want}

kv_iter_open(want) ==
    LET free == {h \in Handles : iter[h] = NULL} IN
    /\ Idle
    /\ opens < bound.opens
    /\ opens' = opens + 1
    /\ iter' = IF free = {} THEN iter
               ELSE [iter EXCEPT ![Min(free)] =
                        [pos |-> 0, want |-> want, end |-> FALSE,
                         got |-> {}, stay |-> Matching(want, 0)]]
    /\ UNCHANGED <<table, mem, alloc, batch, resp, fault, history>>

kv_iter_close(h) ==
    /\ Idle
    /\ iter[h] \notin {NULL, Wild}
    /\ iter' = [iter EXCEPT ![h] = NULL]
    /\ UNCHANGED <<table, mem, alloc, batch, resp, fault, history, opens>>

\* The slots one read delivers: from the position on, as many as the buffer
\* holds.
Delivered(found) == {s \in found : Cardinality({r \in found : r < s}) < IterBuf}

\* Mutant: the key that did not fit is skipped.
NextPosSkips(found) ==
    IF Cardinality(found) <= IterBuf THEN NSlots ELSE Min(found \ Delivered(found)) + 1

\* Mutant: the scan takes one slot too many.
NextPosPastEnd(found) ==
    IF Cardinality(found) <= IterBuf THEN NSlots + 1 ELSE Min(found \ Delivered(found))

\* Where the next read goes on.
NextPos(found) ==
    IF Cardinality(found) <= IterBuf THEN NSlots ELSE Min(found \ Delivered(found))

\* The end is reported by the read that gets there.
kv_iter_read(h) ==
    /\ Idle
    /\ iter[h] \notin {NULL, Wild}
    /\ LET found == Matching(iter[h].want, iter[h].pos) IN
       iter' = [iter EXCEPT
                  ![h].got = @ \cup Delivered(found),
                  ![h].pos = NextPos(found),
                  ![h].end = @ \/ (iter[h].pos < NSlots /\ NextPos(found) = NSlots)]
    /\ UNCHANGED <<table, mem, alloc, batch, resp, fault, history, opens>>

\* The worker posts the answer.
Complete ==
    /\ resp # NoAnswer
    /\ resp' = NoAnswer
    /\ UNCHANGED <<table, mem, alloc, iter, batch, fault, history, opens>>

\* The worker is gone, or what follows is not explored.
Halted == ~Running /\ UNCHANGED <<table, mem, alloc, iter, batch, resp, fault, history, opens>>

Command ==
    \/ \E k \in bound.keys :
        \/ \E v \in bound.vals : KvStoreCmd(k, v) \/ BatchedIo(k, v)
        \/ \E n \in 1 .. LargeLength : Retrieve(k, n)
        \/ Exist(k) \/ Delete(k)
    \/ \E n \in 1 .. bound.batch : Batch(n)
    \/ \E want \in Wants : kv_iter_open(want)
    \/ \E h \in Handles : kv_iter_close(h) \/ kv_iter_read(h)
    \/ Complete
    \/ Halted

Next ==
    /\ Command
    /\ dict' = IF fault' = "none" THEN [k \in Keys |-> Value(table', mem', k)] ELSE dict
    /\ UNCHANGED bound

Spec == Init /\ [][Next]_vars

----------------------------------------------------------------------------
Entries ==
    [key : Keys \cup {Absent}, mem_offset : -1 .. 2 * DevSize,
     length : -1 .. LargeLength, next_slot : -1 .. NSlots - 1]

\* Every variable has its type (struct kv_ftl and struct mapping_entry).
TypeOK ==
    /\ table \in [Slots -> Entries]
    /\ \A h \in Handles : iter[h] \in {NULL, Wild} \/ iter[h].pos \in 0 .. NSlots
    /\ batch \in 0 .. bound.batch
    /\ fault \in {"none", "wild", "hang"}
    /\ inserts \in 0 .. bound.inserts
    /\ opens \in 0 .. bound.opens

\* Every chain of next_slot links comes to an end, whatever deletes have
\* emptied and inserts filled again: the loops of get_mapping_entry and
\* find_next_slot over a chain have no other way out.
ChainsEnd == \A s \in Slots : Walk(table, s)[NSlots] = -1

\* When an iterator has reported its end, it has delivered every entry that
\* was in the table from its open on, although reads stop at a full buffer
\* and stores and deletes go on between them (kv_iter_read).
IterComplete ==
    \A h \in Handles :
        iter[h] \notin {NULL, Wild} => (iter[h].pos = NSlots => iter[h].end /\ iter[h].stay \subseteq iter[h].got)

\* What is in the mapping table is found by its key (the comment above
\* __do_perform_kv_io: a retrieve reads where the mapping entry exists).
EntryIsFound == \A s \in Slots : Occupied(table, s) => get_mapping_entry(table, table[s].key) # -1

----------------------------------------------------------------------------
\* The commands implement the dictionary of KvStore, through both
\* allocators, collisions, batches, deletes and a table that fills up before
\* or after the storage.
SlotsLeft == NSlots - Cardinality({s \in Slots : Occupied(table, s)})

Abs == INSTANCE KvStore WITH
    Vals <- UNION {b.vals : b \in Bounds}, slots <- SlotsLeft,
    CapSmall <- small_nbits, CapLarge <- large_nbits, CapSlots <- NSlots

ImplementsKvStore == Abs!KSpec

=============================================================================
