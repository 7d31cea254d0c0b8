------------------------------- MODULE KvStore -------------------------------
(***************************************************************************)
(* What the key-value FTL promises a host: a dictionary from keys to        *)
(* values, each command answered from it.  It is weaker than a plain        *)
(* dictionary where kv_ftl.c is: a delete may lose other keys, a batch (and *)
(* a store between large lengths) keeps the length of the value it          *)
(* replaces, and nothing is promised any more once a value has been stored  *)
(* that is longer than the space its key got, more values have been         *)
(* inserted than there is room for, or a key is inserted into a full table. *)
(***************************************************************************)
EXTENDS Integers, Sequences

CONSTANTS
    Keys,           \* keys
    Vals,           \* values: sequences of cells
    SmallLength,    \* a value of at most that length is small
    LargeLength,    \* no value is longer
    CapSmall,       \* insertions of small values there is room for
    CapLarge,       \* insertions of large values there is room for
    CapSlots,       \* keys the table has a slot for
    Absent          \* no value

VARIABLES
    dict,       \* key -> its value, or Absent
    extent,     \* key -> the cells it got when it was inserted
    room,       \* insertions left, of small and of large values; -1: exceeded
    slots,      \* slots of the table left: a delete gives one back
    resp,       \* the answer of a command that is being completed
    misused     \* the promise has ended

kvars == <<dict, extent, room, slots, resp, misused>>

Small(v) == Len(v) <= SmallLength
Class(v) == IF Small(v) THEN "small" ELSE "large"

Answer(op, k, res) == [op |-> op, key |-> k, res |-> res]
NoAnswer == Answer("none", Absent, Absent)

KInit ==
    /\ dict = [k \in Keys |-> Absent]
    /\ extent = [k \in Keys |-> 0]
    /\ room = [small |-> CapSmall, large |-> CapLarge]
    /\ slots = CapSlots
    /\ resp = NoAnswer
    /\ misused = FALSE

\* A new key.
Insert(k, v) ==
    /\ dict[k] = Absent
    /\ slots > 0
    /\ slots' = slots - 1
    /\ dict' = [dict EXCEPT ![k] = v]
    /\ \E e \in Len(v) .. IF Small(v) THEN SmallLength ELSE LargeLength :
          extent' = [extent EXCEPT ![k] = e]
    /\ room' = [room EXCEPT ![Class(v)] = IF @ = -1 THEN -1 ELSE @ - 1]
    /\ misused' = FALSE
    /\ UNCHANGED resp

\* The new value in the length of the old one.
Recut(old, v) == [i \in 1 .. Len(old) |-> IF i <= Len(v) THEN v[i] ELSE old[i]]

\* What overwriting leaves: the new value where both are small and the
\* command is a plain store, and else the new value in the old length.
Result(op, old, v) ==
    IF op = "store" /\ Small(old) /\ Small(v) THEN v ELSE Recut(old, v)

Overwrite(op, k, v) ==
    /\ dict[k] # Absent
    /\ Len(v) <= extent[k]
    /\ dict' = [dict EXCEPT ![k] = Result(op, dict[k], v)]
    /\ misused' = FALSE
    /\ UNCHANGED <<extent, room, slots, resp>>

\* A command that the promise does not cover.
Misuse(k, v) ==
    /\ IF dict[k] = Absent
       THEN slots = 0 \/ room[Class(v)] <= 0 \/ -1 \in {room.small, room.large}
       ELSE Len(v) > extent[k]
    /\ misused' = TRUE

\* A host that reads asks for n cells.
Retrieve(k, n) ==
    /\ resp' = Answer("retrieve", k,
                      IF dict[k] = Absent THEN Absent
                      ELSE SubSeq(dict[k], 1, IF n < Len(dict[k]) THEN n ELSE Len(dict[k])))
    /\ UNCHANGED <<dict, extent, room, slots, misused>>

Exist(k) ==
    /\ resp' = Answer("exist", k, IF dict[k] = Absent THEN "no" ELSE "yes")
    /\ UNCHANGED <<dict, extent, room, slots, misused>>

\* The key goes and gives its slot back, and other keys may go with it, which
\* keep theirs; a key that does not exist changes nothing.
Delete(k) ==
    /\ resp' = Answer("delete", k, IF dict[k] = Absent THEN "no" ELSE "yes")
    /\ \E lost \in SUBSET Keys :
          /\ (lost = {}) = (dict[k] = Absent)
          /\ lost # {} => k \in lost
          /\ dict' = [j \in Keys |-> IF j \in lost THEN Absent ELSE dict[j]]
    /\ slots' = IF dict[k] = Absent THEN slots ELSE slots + 1
    /\ UNCHANGED <<extent, room, misused>>

Complete == resp # NoAnswer /\ resp' = NoAnswer /\ UNCHANGED <<dict, extent, room, slots, misused>>

KNext ==
    \/ Complete
    \/ misused /\ misused'
    \/ \E k \in Keys :
        \/ \E n \in 1 .. LargeLength : Retrieve(k, n)
        \/ Exist(k) \/ Delete(k)
        \/ \E v \in Vals :
            \/ Insert(k, v) \/ Misuse(k, v)
            \/ \E op \in {"store", "batch"} : Overwrite(op, k, v)

KSpec == KInit /\ [][KNext]_kvars

=============================================================================
