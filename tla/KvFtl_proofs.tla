---------------------------- MODULE KvFtl_proofs ----------------------------
(***************************************************************************)
(* What is proved of the key-value FTL, for every hash function, table,     *)
(* storage and sequence of commands: its types, that the chains of the      *)
(* mapping table end, that an iterator delivers what stays, and that the    *)
(* commands implement the dictionary of KvStore.                            *)
(*                                                                         *)
(* Deletes leave links to the emptied slots behind, and inserts fill those   *)
(* slots again, so chains run into each other.  They end because the slots   *)
(* can be ranked, each link leading to a slot of smaller rank: the slot that *)
(* an insert links to gets the smallest rank of all.                         *)
(*                                                                         *)
(* A lookup walks a chain.  An insert changes a walk only where it ends, and *)
(* a delete only shortens walks, so a key is found in its slot or not at     *)
(* all.  The values are kept because the extents of the keys that are found  *)
(* are reserved and disjoint, and every insertion there is room for finds    *)
(* cells: neither allocator gives out more than was accounted for.  Only a   *)
(* full table stops an insertion before.                                     *)
(***************************************************************************)
EXTENDS KvFtl, Induction, SequenceTheorems

Links == -1 .. NSlots - 1

\* A slot that holds no entry has no link.
Clean(t) == \A s \in Slots : ~Occupied(t, s) => t[s].next_slot = -1

\* r gives each slot a rank of its own, and every link leads to a smaller one.
Ranks(t, r) ==
    /\ r \in [Slots -> Slots]
    /\ \A s, u \in Slots : r[s] = r[u] => s = u
    /\ \A s \in Slots : Occupied(t, s) /\ t[s].next_slot # -1 => r[t[s].next_slot] < r[s]

Sound(t) == t \in [Slots -> Entries] /\ Clean(t) /\ \E r : Ranks(t, r)

Iters == [pos : 0 .. NSlots, want : Wants, end : BOOLEAN, got : SUBSET Slots, stay : SUBSET Slots]

\* What an open iterator owes its host is in the table, and what lies before
\* its position has been delivered.
Owes(t, it) ==
    /\ \A s \in it.stay : Occupied(t, s) /\ t[s].key \in it.want /\ (s < it.pos => s \in it.got)
    /\ it.pos = NSlots => it.end

Areas == [bits : SUBSET Nat, last : Nat]
Allocs == [kind : {"bitmap", "append_only"}, latest : Nat, small : Areas, large : Areas]

Types ==
    /\ alloc \in Allocs
    /\ bound \in Bounds
    /\ batch \in 0 .. bound.batch
    /\ fault \in {"none", "wild", "hang"}
    /\ inserts \in 0 .. bound.inserts
    /\ opens \in 0 .. bound.opens

IterInv ==
    /\ iter \in [Handles -> {NULL, Wild} \cup Iters]
    /\ \A h \in Handles : iter[h] \notin {NULL, Wild} => Owes(table, iter[h])

IInv == Types /\ Sound(table) /\ IterInv

-----------------------------------------------------------------------------
(* The mapping table. *)

\* Slots are numbers, and -1 is none of them.
LEMMA SlotFacts ==
    /\ Slots \subseteq Nat /\ -1 \notin Slots /\ 0 \in Slots
    /\ Links = Slots \cup {-1} /\ \A s \in Slots : s < NSlots
BY KvAssumption DEF Slots, Links

\* A set of numbers below a bound has a least and a greatest element.
LEMMA MinMax ==
    ASSUME NEW N \in Nat, NEW S \in SUBSET (0 .. N), S # {}
    PROVE  /\ Min(S) \in S /\ \A x \in S : Min(S) <= x
           /\ Max(S) \in S /\ \A x \in S : x <= Max(S)
<1>0. \A x \in S : x \in Int
    OBVIOUS
<1>1. \E x \in S : \A y \in S : x <= y
  <2>1. S \in SUBSET Nat
    OBVIOUS
  <2> QED
    BY <2>1, LeastNat
<1>2. \E x \in S : \A y \in S : x >= y
  <2> DEFINE T == {N - x : x \in S}
  <2>0. PICK w \in S : N - w \in T
    OBVIOUS
  <2>1. T \in SUBSET Nat /\ T # {}
    BY <2>0
  <2>2. PICK m \in T : \A y \in T : m <= y
    <3> HIDE DEF T
    <3> QED
      BY <2>1, LeastNat
  <2>3. PICK x \in S : m = N - x
    BY <2>2
  <2>5. ASSUME NEW y \in S
        PROVE  x >= y
    <3>1. N - y \in T
      OBVIOUS
    <3>2. N - x <= N - y
      BY <3>1, <2>2, <2>3
    <3>3. x \in Int /\ y \in Int
      BY <1>0
    <3> HIDE DEF T
    <3> QED
      BY <3>2, <3>3
  <2> QED
    BY <2>5
<1>3. Min(S) \in S /\ \A x \in S : Min(S) <= x
    BY <1>1 DEF Min
<1>4. Max(S) \in S /\ \A x \in S : Max(S) >= x
    BY <1>2 DEF Max
<1> QED
    BY <1>3, <1>4

\* A walk along next_slot does what its definition says.
LEMMA WalkStep ==
    ASSUME NEW t \in [Slots -> Entries], NEW first \in Links
    PROVE  /\ Walk(t, first) \in [0 .. NSlots -> Links]
           /\ Walk(t, first)[0] = first
           /\ \A n \in 0 .. NSlots - 1 :
                Walk(t, first)[n + 1] = IF Occupied(t, Walk(t, first)[n])
                                        THEN t[Walk(t, first)[n]].next_slot ELSE -1
<1> USE KvAssumption
<1> DEFINE after(s) == IF Occupied(t, s) THEN t[s].next_slot ELSE -1
           Follows(h) == h = [n \in 0 .. NSlots |-> IF n = 0 THEN first ELSE after(h[n - 1])]
           step == [q \in (1 .. NSlots) \X Links |-> after(q[2])]
<1>0. \A s \in Links : after(s) \in Links
  <2>1. \A s \in Slots : t[s].next_slot \in Links
    BY DEF Entries, Links
  <2> QED
    BY <2>1, SlotFacts DEF Occupied
<1>1. PICK g \in [0 .. NSlots -> Links] :
        \A i \in 0 .. NSlots : g[i] = IF i = 0 THEN first ELSE step[<<i, g[i - 1]>>]
  <2>1. step \in [(1 .. NSlots) \X Links -> Links]
    BY <1>0
  <2>2. NSlots \in Nat
    OBVIOUS
  <2>3. PICK st : st = step
    OBVIOUS
  <2>4. PICK g : IsPath(g, NSlots, Links, first, st)
    <3>1. st \in [(1 .. NSlots) \X Links -> Links]
      BY <2>1, <2>3
    <3> HIDE DEF step
    <3> HIDE KvAssumption
    <3> QED
      BY <3>1, <2>2, PathExists
  <2> HIDE DEF step
  <2> QED
    BY <2>3, <2>4 DEF IsPath
<1>2. ASSUME NEW i \in 0 .. NSlots
      PROVE  g[i] = IF i = 0 THEN first ELSE after(g[i - 1])
  <2>1. CASE i = 0
    BY <2>1, <1>1
  <2>2. CASE i # 0
    <3>1. i \in 1 .. NSlots /\ i - 1 \in 0 .. NSlots /\ g[i - 1] \in Links
      BY <2>2
    <3>2. <<i, g[i - 1]>> \in (1 .. NSlots) \X Links
      BY <3>1
    <3>3. step[<<i, g[i - 1]>>] = after(g[i - 1])
      <4> HIDE DEF after
      <4> QED
        BY <3>2
    <3> QED
      BY <2>2, <3>3, <1>1
  <2> QED
    BY <2>1, <2>2
<1> HIDE DEF after
<1>3. Follows(g)
    BY <1>2
<1>4. Walk(t, first) = CHOOSE h : Follows(h)
    BY DEF Walk, after
<1> DEFINE at == Walk(t, first)
<1>5. Follows(at)
  <2> HIDE DEF at, Follows
  <2> QED
    BY <1>3, <1>4 DEF at
<1>6. /\ at[0] = first
      /\ \A n \in 0 .. NSlots - 1 : at[n + 1] = after(at[n])
  <2> HIDE DEF at
  <2>1. \A n \in 0 .. NSlots : at[n] = IF n = 0 THEN first ELSE after(at[n - 1])
    BY <1>5
  <2>2. ASSUME NEW n \in 0 .. NSlots - 1
        PROVE  at[n + 1] = after(at[n])
    <3>1. n + 1 \in 0 .. NSlots /\ n + 1 # 0 /\ (n + 1) - 1 = n
      OBVIOUS
    <3> QED
      BY <2>1, <3>1
  <2> QED
    BY <2>1, <2>2
<1>7. \A n \in 0 .. NSlots : at[n] \in Links
  <2> DEFINE T == {n \in 0 .. NSlots : at[n] \in Links}
  <2> HIDE DEF at
  <2>1. 0 \in T
    BY <1>6
  <2>2. \A n \in 0 .. NSlots - 1 : n \in T => n + 1 \in T
    BY <1>6, <1>0
  <2>3. \A n \in 0 .. NSlots : n \in T
    <3> HIDE DEF T
    <3> QED
      BY <2>1, <2>2, UpTo
  <2> QED
    BY <2>3
<1>8. at \in [0 .. NSlots -> Links]
  <2> HIDE DEF at
  <2> QED
    BY <1>5, <1>7
<1> QED
    BY <1>6, <1>8 DEF after

\* With ranks, a walk comes to its end within as many steps as there are slots.
LEMMA WalkEnds ==
    ASSUME NEW t \in [Slots -> Entries], NEW r, Ranks(t, r), NEW s \in Slots
    PROVE  Walk(t, s)[NSlots] = -1
<1> USE KvAssumption, SlotFacts
<1> DEFINE at == Walk(t, s)
           T  == {n \in 0 .. NSlots : at[n] = -1 \/ r[at[n]] + n < NSlots}
<1>1. /\ at \in [0 .. NSlots -> Links] /\ at[0] = s
      /\ \A n \in 0 .. NSlots - 1 : at[n + 1] = IF Occupied(t, at[n]) THEN t[at[n]].next_slot ELSE -1
    BY WalkStep
<1>2. \A u \in Slots : r[u] \in Slots /\ r[u] \in Nat
    BY DEF Ranks
<1> HIDE DEF at
<1>3. 0 \in T
    BY <1>1, <1>2
<1>4. ASSUME NEW n \in 0 .. NSlots - 1, n \in T
      PROVE  n + 1 \in T
  <2>1. CASE ~Occupied(t, at[n])
    BY <2>1, <1>1
  <2>2. CASE Occupied(t, at[n])
    <3>1. at[n] \in Slots /\ at[n + 1] = t[at[n]].next_slot /\ r[at[n]] + n < NSlots
      BY <2>2, <1>1, <1>4 DEF Occupied
    <3>2. at[n + 1] \in Links
      BY <1>1
    <3>3. CASE at[n + 1] = -1
      BY <3>3
    <3>4. CASE at[n + 1] # -1
      <4>1. r[at[n + 1]] < r[at[n]]
        BY <2>2, <3>1, <3>4 DEF Ranks
      <4>2. at[n + 1] \in Slots
        BY <3>2, <3>4
      <4>3. r[at[n + 1]] \in Nat /\ r[at[n]] \in Nat
        BY <4>2, <3>1, <1>2
      <4> QED
        BY <3>1, <4>1, <4>3
    <3> QED
      BY <3>3, <3>4
  <2> QED
    BY <2>1, <2>2
<1>5. NSlots \in T
  <2>1. \A n \in 0 .. NSlots : n \in T
    <3> HIDE DEF T
    <3> QED
      BY <1>3, <1>4, UpTo
  <2> QED
    BY <2>1
<1>6. at[NSlots] \in Links
    BY <1>1
<1>7. at[NSlots] \in Slots => r[at[NSlots]] \in Nat
    BY <1>2
<1>8. at[NSlots] = -1
    BY <1>5, <1>6, <1>7
<1> QED
    BY <1>8 DEF at

\* A hash value names a slot.
LEMMA HashSlot ==
    ASSUME NEW k \in Keys
    PROVE  get_hash_slot(k) \in Slots
BY KvAssumption DEF get_hash_slot, Slots

\* A lookup answers -1 or an occupied slot that holds the key.
LEMMA EntryFound ==
    ASSUME NEW t \in [Slots -> Entries], NEW k \in Keys
    PROVE  \/ get_mapping_entry(t, k) = -1
           \/ /\ get_mapping_entry(t, k) \in Slots
              /\ Occupied(t, get_mapping_entry(t, k))
              /\ t[get_mapping_entry(t, k)].key = k
<1> USE KvAssumption, SlotFacts
<1>1. PICK at : at = Walk(t, get_hash_slot(k))
    OBVIOUS
<1>2. at \in [0 .. NSlots -> Links]
    BY <1>1, HashSlot, WalkStep
<1> DEFINE hits == {n \in 0 .. NSlots : Occupied(t, at[n]) /\ t[at[n]].key = k}
<1>3. get_mapping_entry(t, k) = IF hits = {} THEN -1 ELSE at[Min(hits)]
    BY <1>1 DEF get_mapping_entry
<1>4. CASE hits = {}
    BY <1>3, <1>4
<1>5. CASE hits # {}
  <2>1. Min(hits) \in hits
    <3>1. hits \in SUBSET (0 .. NSlots) /\ NSlots \in Nat
      OBVIOUS
    <3> HIDE DEF hits
    <3> QED
      BY <1>5, <3>1, MinMax
  <2>2. PICK n \in 0 .. NSlots : n = Min(hits) /\ Occupied(t, at[n]) /\ t[at[n]].key = k
    BY <2>1
  <2>3. at[n] \in Slots
    BY <2>2, <1>2 DEF Occupied
  <2>4. get_mapping_entry(t, k) = at[n]
    BY <1>3, <1>5, <2>2
  <2> QED
    BY <2>2, <2>3, <2>4
<1> QED
    BY <1>4, <1>5

\* The end of a chain is an occupied slot.
LEMMA TailFound ==
    ASSUME NEW t \in [Slots -> Entries], NEW s \in Slots, Occupied(t, s)
    PROVE  Tail_slot(t, s) \in Slots /\ Occupied(t, Tail_slot(t, s))
<1> USE KvAssumption, SlotFacts
<1>1. PICK at : at = Walk(t, s)
    OBVIOUS
<1>2. at \in [0 .. NSlots -> Links] /\ at[0] = s
    BY <1>1, WalkStep
<1> DEFINE on == {n \in 0 .. NSlots : Occupied(t, at[n])}
<1>3. Tail_slot(t, s) = at[Max(on)]
    BY <1>1 DEF Tail_slot
<1>4. 0 \in on
    BY <1>2
<1>5. Max(on) \in on
  <2>1. on \in SUBSET (0 .. NSlots) /\ NSlots \in Nat
    OBVIOUS
  <2> HIDE DEF on
  <2> QED
    BY <1>4, <2>1, MinMax
<1>6. PICK n \in 0 .. NSlots : n = Max(on) /\ Occupied(t, at[n])
    BY <1>5
<1>7. at[n] \in Slots
    BY <1>6, <1>2 DEF Occupied
<1> QED
    BY <1>3, <1>6, <1>7

\* In a table that is not full the search for a free slot finds one.
LEMMA FreeFound ==
    ASSUME NEW t \in [Slots -> Entries], NEW s \in Slots, ~TableFull(t)
    PROVE  FreeAfter(t, s) \in Slots /\ ~Occupied(t, FreeAfter(t, s))
<1> USE KvAssumption, SlotFacts
<1> DEFINE free == {n \in 1 .. NSlots : ~Occupied(t, (s + n) % NSlots)}
<1>1. PICK q \in Slots : ~Occupied(t, q)
    BY DEF TableFull
<1>2. s \in 0 .. NSlots - 1 /\ q \in 0 .. NSlots - 1
    BY DEF Slots
<1>3. free # {}
  <2>1. CASE q > s
    <3>1. q - s \in 1 .. NSlots /\ s + (q - s) = q
      BY <1>2, <2>1
    <3>2. (s + (q - s)) % NSlots = q
      BY <3>1, <1>2, Remainder
    <3> QED
      BY <1>1, <3>1, <3>2
  <2>2. CASE q <= s
    <3>1. (NSlots + q) - s \in 1 .. NSlots /\ s + ((NSlots + q) - s) = NSlots + q
      BY <1>2, <2>2
    <3>2. (s + ((NSlots + q) - s)) % NSlots = q
      BY <3>1, <1>2, Remainder
    <3> QED
      BY <1>1, <3>1, <3>2
  <2> QED
    BY <1>2, <2>1, <2>2
<1>4. Min(free) \in free
  <2>1. free \in SUBSET (0 .. NSlots) /\ NSlots \in Nat
    OBVIOUS
  <2> HIDE DEF free
  <2> QED
    BY <1>3, <2>1, MinMax
<1>5. PICK n \in 1 .. NSlots : n = Min(free) /\ ~Occupied(t, (s + n) % NSlots)
    BY <1>4
<1>6. FreeAfter(t, s) = (s + n) % NSlots
    BY <1>5 DEF FreeAfter
<1>7. (s + n) % NSlots \in 0 .. NSlots - 1
    BY <1>2
<1> QED
    BY <1>5, <1>6, <1>7 DEF Slots

\* Entries stay where they are, with their keys.
Keeps(t, u) == \A s \in Slots : Occupied(t, s) => Occupied(u, s) /\ u[s].key = t[s].key

\* In u slot f holds a new entry, the last of its chain.
Filled(t, u, f) ==
    /\ Sound(u) /\ Keeps(t, u) /\ Occupied(u, f) /\ u[f].next_slot = -1
    /\ \A s \in Slots : s # f => u[s] = t[s]

\* A free slot is filled.
LEMMA FillSlot ==
    ASSUME NEW t, Sound(t), NEW f \in Slots, ~Occupied(t, f),
           NEW k \in Keys, NEW off \in 0 .. DevSize, NEW len \in 1 .. LargeLength, NEW u,
           u = [t EXCEPT ![f].key = k, ![f].mem_offset = off, ![f].length = len]
    PROVE  Filled(t, u, f)
<1> USE KvAssumption, SlotFacts
<1>1. t \in [Slots -> Entries] /\ t[f] \in Entries /\ t[f].next_slot = -1
    BY DEF Sound, Clean
<1>2. [t[f] EXCEPT !.key = k, !.mem_offset = off, !.length = len] \in Entries
  <2>1. off \in -1 .. 2 * DevSize /\ len \in -1 .. LargeLength /\ k \in Keys \cup {Absent}
    OBVIOUS
  <2> HIDE KvAssumption, SlotFacts
  <2> QED
    BY <1>1, <2>1 DEF Entries
<1>3. u = [t EXCEPT ![f] = [t[f] EXCEPT !.key = k, !.mem_offset = off, !.length = len]]
    BY <1>1
<1>4. /\ u \in [Slots -> Entries]
      /\ u[f] = [t[f] EXCEPT !.key = k, !.mem_offset = off, !.length = len]
      /\ \A s \in Slots : s # f => u[s] = t[s]
    BY <1>1, <1>2, <1>3
<1>5. u[f].next_slot = -1 /\ u[f].mem_offset = off
    BY <1>1, <1>4 DEF Entries
<1>6. Occupied(u, f)
    BY <1>5 DEF Occupied
<1>7. \A s \in Slots : s # f => (Occupied(u, s) <=> Occupied(t, s))
    BY <1>4 DEF Occupied
<1>8. Clean(u)
    BY <1>4, <1>6, <1>7 DEF Clean, Sound
<1>9. PICK r : Ranks(t, r)
    BY DEF Sound
<1>10. Ranks(u, r)
    BY <1>4, <1>5, <1>7, <1>9 DEF Ranks
<1>11. Keeps(t, u)
    BY <1>4, <1>7 DEF Keeps
<1> QED
    BY <1>4, <1>5, <1>6, <1>8, <1>10, <1>11 DEF Sound, Filled

\* Ranks that differ still do when the ones below a third have moved up.
LEMMA ShiftOnce ==
    ASSUME NEW a \in Nat, NEW b \in Nat, NEW c \in Nat, a # c, b # c,
           (IF a < c THEN a + 1 ELSE a) = (IF b < c THEN b + 1 ELSE b)
    PROVE  a = b
OBVIOUS

\* A slot p is linked to another slot f that has no link: f gets the least
\* rank, and the ranks that were below its own move up.
LEMMA LinkSlot ==
    ASSUME NEW t, Sound(t), NEW f \in Slots, NEW p \in Slots, p # f,
           Occupied(t, f), Occupied(t, p), t[f].next_slot = -1,
           NEW u, u = [t EXCEPT ![p].next_slot = f]
    PROVE  Sound(u) /\ Keeps(t, u)
<1> USE KvAssumption, SlotFacts
<1>1. t \in [Slots -> Entries] /\ t[p] \in Entries
    BY DEF Sound
<1>2. [t[p] EXCEPT !.next_slot = f] \in Entries
  <2>1. f \in -1 .. NSlots - 1
    BY DEF Slots
  <2> HIDE KvAssumption, SlotFacts
  <2> QED
    BY <1>1, <2>1 DEF Entries
<1>3. u = [t EXCEPT ![p] = [t[p] EXCEPT !.next_slot = f]]
    BY <1>1
<1>4. /\ u \in [Slots -> Entries]
      /\ u[p] = [t[p] EXCEPT !.next_slot = f]
      /\ \A s \in Slots : s # p => u[s] = t[s]
    BY <1>1, <1>2, <1>3
<1>5. u[p].next_slot = f /\ u[p].mem_offset = t[p].mem_offset /\ u[p].key = t[p].key
    BY <1>1, <1>4 DEF Entries
<1>6. \A s \in Slots : Occupied(u, s) <=> Occupied(t, s)
    BY <1>4, <1>5 DEF Occupied
<1>7. Clean(u)
    BY <1>4, <1>6 DEF Clean, Sound
<1>8. PICK r : Ranks(t, r)
    BY DEF Sound
<1>9. /\ r \in [Slots -> Slots]
      /\ \A s, v \in Slots : r[s] = r[v] => s = v
      /\ \A s \in Slots : Occupied(t, s) /\ t[s].next_slot # -1 => r[t[s].next_slot] < r[s]
    BY <1>8 DEF Ranks
<1>10. PICK q : q = [s \in Slots |-> IF s = f THEN 0 ELSE IF r[s] < r[f] THEN r[s] + 1 ELSE r[s]]
    OBVIOUS
<1>11. \A s \in Slots : r[s] \in 0 .. NSlots - 1 /\ r[f] \in 0 .. NSlots - 1
    BY <1>9 DEF Slots
<1>12. q \in [Slots -> Slots]
  <2>1. ASSUME NEW s \in Slots
        PROVE  (IF s = f THEN 0 ELSE IF r[s] < r[f] THEN r[s] + 1 ELSE r[s]) \in 0 .. NSlots - 1
    BY <1>11
  <2> QED
    BY <1>10, <2>1 DEF Slots
<1>13. \A s, v \in Slots : q[s] = q[v] => s = v
  <2> SUFFICES ASSUME NEW s \in Slots, NEW v \in Slots, s # v, q[s] = q[v]
               PROVE  FALSE
    OBVIOUS
  <2>1. /\ q[s] = IF s = f THEN 0 ELSE IF r[s] < r[f] THEN r[s] + 1 ELSE r[s]
        /\ q[v] = IF v = f THEN 0 ELSE IF r[v] < r[f] THEN r[v] + 1 ELSE r[v]
    BY <1>10
  <2>2. r[s] # r[v] /\ (s # f => r[s] # r[f]) /\ (v # f => r[v] # r[f])
    BY <1>9
  <2>3. r[s] \in Nat /\ r[v] \in Nat /\ r[f] \in Nat
    BY <1>11
  <2>7. q[s] \in Nat /\ q[v] \in Nat
    BY <1>12
  <2> HIDE KvAssumption, SlotFacts
  <2>4. CASE s = f
    <3>1. q[s] = 0 /\ v # f
      BY <2>1, <2>4
    <3>2. q[v] = IF r[v] < r[f] THEN r[v] + 1 ELSE r[v]
      BY <2>1, <3>1
    <3>3. r[v] # r[f]
      BY <2>2, <3>1
    <3>4. q[v] # 0
      BY <2>3, <3>2, <3>3
    <3> QED
      BY <3>1, <3>4
  <2>5. CASE v = f
    <3>1. q[v] = 0 /\ s # f
      BY <2>1, <2>5
    <3>2. q[s] = IF r[s] < r[f] THEN r[s] + 1 ELSE r[s]
      BY <2>1, <3>1
    <3>3. r[s] # r[f]
      BY <2>2, <3>1
    <3>4. q[s] # 0
      BY <2>3, <3>2, <3>3
    <3> QED
      BY <3>1, <3>4
  <2>6. CASE s # f /\ v # f
    <3>1. /\ q[s] = IF r[s] < r[f] THEN r[s] + 1 ELSE r[s]
          /\ q[v] = IF r[v] < r[f] THEN r[v] + 1 ELSE r[v]
      BY <2>1, <2>6
    <3>2. r[s] # r[f] /\ r[v] # r[f] /\ r[s] # r[v]
      BY <2>2, <2>6
    <3>3. (IF r[s] < r[f] THEN r[s] + 1 ELSE r[s]) = (IF r[v] < r[f] THEN r[v] + 1 ELSE r[v])
      BY <3>1
    <3> QED
      BY <2>3, <3>2, <3>3, ShiftOnce
  <2> QED
    BY <2>4, <2>5, <2>6
<1>14. ASSUME NEW s \in Slots, Occupied(u, s), u[s].next_slot # -1
       PROVE  q[u[s].next_slot] < q[s]
  <2>1. PICK v : v = u[s].next_slot
    OBVIOUS
  <2>2. v \in Slots
    <3>1. u[s].next_slot \in Links
      BY <1>4 DEF Entries, Links
    <3> QED
      BY <2>1, <3>1, <1>14
  <2>3. /\ q[s] = IF s = f THEN 0 ELSE IF r[s] < r[f] THEN r[s] + 1 ELSE r[s]
        /\ q[v] = IF v = f THEN 0 ELSE IF r[v] < r[f] THEN r[v] + 1 ELSE r[v]
    BY <1>10, <2>2
  <2>4. r[s] \in Nat /\ r[v] \in Nat /\ r[f] \in Nat
    BY <1>11, <2>2
  <2>5. s # f
    BY <1>4, <1>14
  <2>6. r[s] # r[f]
    BY <1>9, <2>5
  <2>7. CASE s = p
    <3>1. v = f
      BY <2>1, <2>7, <1>5
    <3>2. q[v] < q[s]
      BY <3>1, <2>3, <2>4, <2>5, <2>6
    <3> QED
      BY <2>1, <3>2
  <2>8. CASE s # p
    <3>1. r[v] < r[s]
      BY <2>1, <2>8, <1>4, <1>6, <1>9, <1>14
    <3>2. q[v] < q[s]
      <4> HIDE KvAssumption, SlotFacts
      <4>1. CASE v = f
        BY <3>1, <4>1, <2>3, <2>4, <2>5, <2>6
      <4>2. CASE v # f
        BY <3>1, <4>2, <2>3, <2>4, <2>5, <2>6
      <4> QED
        BY <4>1, <4>2
    <3> QED
      BY <2>1, <3>2
  <2> QED
    BY <2>7, <2>8
<1>15. Ranks(u, q)
    BY <1>12, <1>13, <1>14 DEF Ranks
<1>16. Keeps(t, u)
    BY <1>4, <1>5, <1>6 DEF Keeps
<1> QED
    BY <1>4, <1>7, <1>15, <1>16 DEF Sound

\* An insertion keeps the table sound and every entry in its place.
LEMMA InsertSound ==
    ASSUME NEW t, Sound(t), ~TableFull(t),
           NEW k \in Keys, NEW off \in 0 .. DevSize, NEW len \in 1 .. LargeLength
    PROVE  /\ Sound(new_mapping_entry(t, k, off, len))
           /\ Keeps(t, new_mapping_entry(t, k, off, len))
<1> USE SlotFacts
<1>0. t \in [Slots -> Entries]
    BY DEF Sound
<1>1. PICK h \in Slots : h = get_hash_slot(k)
    BY HashSlot
<1>2. CASE ~Occupied(t, h)
  <2>1. new_mapping_entry(t, k, off, len) =
            [t EXCEPT ![h].key = k, ![h].mem_offset = off, ![h].length = len]
    BY <1>1, <1>2 DEF new_mapping_entry
  <2>2. PICK u : u = [t EXCEPT ![h].key = k, ![h].mem_offset = off, ![h].length = len]
    OBVIOUS
  <2>3. Filled(t, u, h)
    BY <1>2, <2>2, FillSlot
  <2> QED
    BY <2>1, <2>2, <2>3 DEF Filled
<1>3. CASE Occupied(t, h)
  <2>1. PICK p \in Slots : p = Tail_slot(t, h) /\ Occupied(t, p)
    BY <1>0, <1>3, TailFound
  <2>2. PICK f \in Slots : f = FreeAfter(t, p) /\ ~Occupied(t, f)
    BY <1>0, FreeFound
  <2>3. PICK filled :
            filled = [t EXCEPT ![f].key = k, ![f].mem_offset = off, ![f].length = len]
    OBVIOUS
  <2>4. new_mapping_entry(t, k, off, len) = [filled EXCEPT ![p].next_slot = f]
    BY <1>1, <1>3, <2>1, <2>2, <2>3 DEF new_mapping_entry, find_next_slot
  <2>5. /\ Sound(filled) /\ Keeps(t, filled) /\ Occupied(filled, f) /\ filled[f].next_slot = -1
        /\ Occupied(filled, p)
    <3>1. Filled(t, filled, f)
      BY <2>2, <2>3, FillSlot
    <3> QED
      BY <2>1, <3>1 DEF Filled, Keeps
  <2>6. PICK u : u = [filled EXCEPT ![p].next_slot = f]
    OBVIOUS
  <2>7. Sound(u) /\ Keeps(filled, u)
    BY <2>1, <2>2, <2>5, <2>6, LinkSlot
  <2>8. Keeps(t, u)
    BY <2>5, <2>7 DEF Keeps
  <2> QED
    BY <2>4, <2>6, <2>7, <2>8
<1> QED
    BY <1>2, <1>3

\* So does a new length.
LEMMA UpdateSound ==
    ASSUME NEW t, Sound(t), NEW s \in Slots, NEW len \in 1 .. LargeLength,
           NEW u, u = [t EXCEPT ![s].length = len]
    PROVE  Sound(u) /\ Keeps(t, u)
<1>1. t \in [Slots -> Entries] /\ t[s] \in Entries
    BY DEF Sound
<1>2. [t[s] EXCEPT !.length = len] \in Entries
  <2>1. len \in -1 .. LargeLength
    BY KvAssumption
  <2> QED
    BY <1>1, <2>1 DEF Entries
<1>3. /\ u \in [Slots -> Entries] /\ u[s] = [t[s] EXCEPT !.length = len]
      /\ \A v \in Slots : v # s => u[v] = t[v]
    BY <1>1, <1>2
<1>4. \A v \in Slots : /\ u[v].next_slot = t[v].next_slot /\ u[v].key = t[v].key
                       /\ u[v].mem_offset = t[v].mem_offset
    BY <1>1, <1>3 DEF Entries
<1>5. Clean(u) /\ Keeps(t, u)
    BY <1>4 DEF Clean, Keeps, Occupied, Sound
<1>6. PICK r : Ranks(t, r)
    BY DEF Sound
<1>7. Ranks(u, r)
    BY <1>4, <1>6 DEF Ranks, Occupied
<1> QED
    BY <1>3, <1>5, <1>7 DEF Sound

\* A delete leaves links to the slot behind, and they go on leading downwards.
LEMMA DeleteSound ==
    ASSUME NEW t, Sound(t), NEW s \in Slots, NEW u, u = [t EXCEPT ![s] = NoEntry]
    PROVE  Sound(u) /\ \A v \in Slots : v # s => u[v] = t[v]
<1>1. t \in [Slots -> Entries]
    BY DEF Sound
<1>2. NoEntry \in Entries /\ NoEntry.next_slot = -1 /\ NoEntry.mem_offset = -1
    BY KvAssumption DEF Entries, NoEntry
<1>3. /\ u \in [Slots -> Entries] /\ u[s] = NoEntry
      /\ \A v \in Slots : v # s => u[v] = t[v]
    BY <1>1, <1>2
<1>4. Clean(u)
    BY <1>2, <1>3 DEF Clean, Sound, Occupied
<1>5. PICK r : Ranks(t, r)
    BY DEF Sound
<1>6. Ranks(u, r)
    BY <1>2, <1>3, <1>5 DEF Ranks, Occupied
<1> QED
    BY <1>3, <1>4, <1>6 DEF Sound

-----------------------------------------------------------------------------
(* The allocators and the commands that store. *)

\* The search for a free bit answers a number, past the map if need be.
LEMMA ZeroArea ==
    ASSUME NEW bits \in SUBSET Nat, NEW nbits \in Nat, NEW from \in Nat
    PROVE  bitmap_find_next_zero_area(bits, nbits, from) \in Nat
<1> DEFINE zero == {b \in from .. nbits - 1 : b \notin bits}
<1>1. bitmap_find_next_zero_area(bits, nbits, from) = IF zero = {} THEN nbits + 1 ELSE Min(zero)
    BY DEF bitmap_find_next_zero_area
<1>2. zero # {} => Min(zero) \in zero
  <2>1. zero \in SUBSET (0 .. nbits)
    OBVIOUS
  <2> HIDE DEF zero
  <2> QED
    BY <2>1, MinMax
<1>3. \A b \in zero : b \in Nat
    OBVIOUS
<1> HIDE DEF zero
<1> QED
    BY <1>1, <1>2, <1>3

\* Halves and quotients of sizes are numbers.
LEMMA SizeFacts ==
    small_nbits \in Nat /\ large_nbits \in Nat /\ DevSize \div 2 \in Nat
<1>1. DevSize \div 2 \in Nat
    BY KvAssumption
<1>2. small_nbits \in Nat
    BY <1>1, KvAssumption DEF small_nbits
<1>3. large_nbits \in Nat
  <2>1. LargeLength \in Nat /\ LargeLength > 0
    BY KvAssumption
  <2> QED
    BY <1>1, <2>1 DEF large_nbits
<1> QED
    BY <1>1, <1>2, <1>3

\* An allocation answers a place on the device or behind its end.
LEMMA AllocSound ==
    ASSUME NEW a \in Allocs, NEW len \in 1 .. LargeLength
    PROVE  allocate_mem_offset(a, len).off \in Nat /\ allocate_mem_offset(a, len).to \in Allocs
<1>0. LargeLength \in Nat /\ SmallLength \in Nat /\ len \in Nat
    BY KvAssumption
<1>1. CASE a.kind = "bitmap"
  <2>1. PICK area : area = AreaOf(len)
    OBVIOUS
  <2>2. area.name \in {"small", "large"} /\ area.nbits \in Nat /\ area.unit \in Nat /\ area.base \in Nat
    BY <1>0, <2>1, SizeFacts DEF AreaOf
  <2>3. PICK n \in {"small", "large"} : n = area.name
    BY <2>2
  <2>4. a[n] \in Areas
    BY <2>3 DEF Allocs
  <2>5. PICK off \in Nat : off = bitmap_find_next_zero_area(a[n].bits, area.nbits, a[n].last)
    BY <2>2, <2>4, ZeroArea DEF Areas
  <2>6. PICK next \in Nat : next = IF off + 1 > area.nbits THEN 0 ELSE off + 1
    BY <2>2
  <2>7. bitmap_allocate(a, len) =
            [off |-> area.base + off * area.unit,
             to  |-> [a EXCEPT ![n] = [bits |-> a[n].bits \cup {off}, last |-> next]],
             got |-> area.unit]
    BY <2>1, <2>3, <2>5, <2>6 DEF bitmap_allocate
  <2>8. area.base + off * area.unit \in Nat
    BY <2>2
  <2>9. [bits |-> a[n].bits \cup {off}, last |-> next] \in Areas
    BY <2>4 DEF Areas
  <2>10. [a EXCEPT ![n] = [bits |-> a[n].bits \cup {off}, last |-> next]] \in Allocs
    BY <2>9 DEF Allocs
  <2> QED
    BY <1>1, <2>7, <2>8, <2>10 DEF allocate_mem_offset
<1>2. CASE a.kind # "bitmap"
  <2>1. a.latest \in Nat /\ a.latest + len \in Nat
    BY <1>0 DEF Allocs
  <2>2. [a EXCEPT !.latest = a.latest + len] \in Allocs
    BY <2>1 DEF Allocs
  <2> QED
    BY <1>2, <2>1, <2>2 DEF allocate_mem_offset, append_only_allocate
<1> QED
    BY <1>1, <1>2

\* The iterators are not concerned by a step that keeps the entries.
LEMMA IterKept ==
    ASSUME IterInv, Keeps(table, table'), iter' = iter
    PROVE  IterInv'
<1>1. \A h \in Handles : iter[h] \notin {NULL, Wild} => Owes(table', iter[h])
  <2> SUFFICES ASSUME NEW h \in Handles, iter[h] \notin {NULL, Wild}
               PROVE  Owes(table', iter[h])
    OBVIOUS
  <2>1. Owes(table, iter[h]) /\ iter[h].stay \subseteq Slots
    BY DEF IterInv, Iters
  <2> QED
    BY <2>1 DEF Owes, Keeps
<1> QED
    BY <1>1 DEF IterInv

\* A store or a batched store.
LEMMA PutInv ==
    ASSUME IInv, NEW k \in bound.keys, NEW v \in bound.vals, NEW op, Put(op, k, v),
           iter' = iter, bound' = bound, opens' = opens, batch' \in 0 .. bound.batch
    PROVE  IInv'
<1>0. /\ k \in Keys /\ Len(v) \in 1 .. LargeLength /\ bound \in Bounds /\ Types /\ Sound(table) /\ IterInv
      /\ bound.inserts \in Nat /\ alloc \in Allocs /\ DevSize \in Nat /\ table \in [Slots -> Entries]
    BY KvAssumption DEF IInv, Types, Sound
<1>1. PICK len \in 1 .. LargeLength : len = Len(v)
    BY <1>0
<1>2. PICK s : s = get_mapping_entry(table, k)
    OBVIOUS
<1>3. CASE s = -1
  <2>1. InsertNew(op, k, v)
    BY <1>2, <1>3 DEF Put, get_mapping_entry_by_key
  <2>2. PICK a : a = allocate_mem_offset(alloc, len)
    OBVIOUS
  <2>3. a.off \in Nat /\ a.to \in Allocs
    BY <1>0, <2>2, AllocSound
  <2>4. inserts' \in 0 .. bound.inserts /\ alloc' \in Allocs
    BY <1>0, <1>1, <2>1, <2>2, <2>3 DEF InsertNew, Types
  <2>5. fault' \in {"none", "wild", "hang"}
    BY <1>0, <2>1 DEF InsertNew, Types
  <2>6. CASE table' = table
    <3>1. Keeps(table, table')
      BY <2>6 DEF Keeps
    <3> QED
      BY <1>0, <2>4, <2>5, <2>6, <3>1, IterKept DEF IInv, Types
  <2>7. CASE a.off + len <= DevSize /\ ~TableFull(table) /\ table' = new_mapping_entry(table, k, a.off, len)
    <3>1. a.off \in 0 .. DevSize
      BY <1>0, <2>3, <2>7, KvAssumption
    <3>2. Sound(table') /\ Keeps(table, table')
      BY <1>0, <2>7, <3>1, InsertSound
    <3> QED
      BY <1>0, <2>4, <2>5, <3>2, IterKept DEF IInv, Types
  <2> QED
    BY <1>1, <2>1, <2>2, <2>6, <2>7 DEF InsertNew, new_mapping_entry_by_key
<1>4. CASE s # -1
  <2>1. OverwriteOld(op, k, v)
    BY <1>2, <1>4 DEF Put, get_mapping_entry_by_key
  <2>2. s \in Slots
    BY <1>0, <1>2, <1>4, EntryFound
  <2>3. alloc' = alloc /\ inserts' = inserts /\ fault' \in {"none", "wild", "hang"}
    BY <1>0, <2>1 DEF OverwriteOld, Types
  <2>4. CASE table' = table
    <3>1. Keeps(table, table')
      BY <2>4 DEF Keeps
    <3> QED
      BY <1>0, <2>3, <2>4, <3>1, IterKept DEF IInv, Types
  <2>5. CASE table' = [table EXCEPT ![s].length = len]
    <3>1. Sound(table') /\ Keeps(table, table')
      BY <1>0, <2>2, <2>5, UpdateSound
    <3> QED
      BY <1>0, <2>3, <3>1, IterKept DEF IInv, Types
  <2> QED
    BY <1>1, <1>2, <2>1, <2>4, <2>5 DEF OverwriteOld, update_mapping_entry
<1> QED
    BY <1>3, <1>4

-----------------------------------------------------------------------------
(* Deletes and iterators. *)

\* A delete: the iterators no longer owe the slot that was emptied.
LEMMA DeleteInv ==
    ASSUME IInv, NEW k \in bound.keys, Delete(k), bound' = bound
    PROVE  IInv'
<1>0. /\ k \in Keys /\ Types /\ Sound(table) /\ IterInv /\ table \in [Slots -> Entries]
      /\ Types'
    BY KvAssumption DEF IInv, Types, Sound, Delete, history
<1>1. PICK s : s = get_mapping_entry(table, k)
    OBVIOUS
<1>2. CASE s = -1
  <2>1. table' = table /\ iter' = iter
    BY <1>1, <1>2 DEF Delete
  <2>2. Keeps(table, table')
    BY <2>1 DEF Keeps
  <2> QED
    BY <1>0, <2>1, <2>2, IterKept DEF IInv
<1>3. CASE s # -1
  <2>1. s \in Slots
    BY <1>0, <1>1, <1>3, EntryFound
  <2>2. table' = [table EXCEPT ![s] = NoEntry] /\ iter' = Forget(s)
    BY <1>1, <1>3 DEF Delete, delete_mapping_entry
  <2>3. Sound(table') /\ \A u \in Slots : u # s => table'[u] = table[u]
    BY <1>0, <2>1, <2>2, DeleteSound
  <2>4. ASSUME NEW h \in Handles
        PROVE  /\ iter'[h] \in {NULL, Wild} \cup Iters
               /\ iter'[h] \notin {NULL, Wild} => Owes(table', iter'[h])
    <3>1. iter'[h] = IF iter[h] \in {NULL, Wild} THEN iter[h]
                     ELSE [iter[h] EXCEPT !.stay = iter[h].stay \ {s}]
      BY <2>2 DEF Forget
    <3>2. CASE iter[h] \in {NULL, Wild}
      BY <3>1, <3>2
    <3>3. CASE iter[h] \notin {NULL, Wild}
      <4>1. PICK it \in Iters : it = iter[h] /\ Owes(table, it)
        BY <1>0, <3>3 DEF IterInv
      <4>2. PICK jt : jt = [it EXCEPT !.stay = it.stay \ {s}]
        OBVIOUS
      <4>3. /\ jt \in Iters /\ jt.stay = it.stay \ {s} /\ jt.pos = it.pos /\ jt.want = it.want
            /\ jt.end = it.end /\ jt.got = it.got
        BY <4>2 DEF Iters
      <4>4. Owes(table', jt)
        BY <2>3, <4>1, <4>3 DEF Owes, Occupied, Iters
      <4>5. iter'[h] = jt
        BY <3>1, <3>3, <4>1, <4>2
      <4> QED
        BY <4>3, <4>4, <4>5
    <3> QED
      BY <3>2, <3>3
  <2>5. iter' \in [Handles -> {NULL, Wild} \cup Iters]
    <3>1. iter' = [h \in Handles |-> iter'[h]]
      BY <2>2 DEF Forget
    <3> QED
      BY <2>4, <3>1
  <2> QED
    BY <1>0, <2>3, <2>4, <2>5 DEF IInv, IterInv
<1> QED
    BY <1>2, <1>3

\* A step that only sets one iterator.
LEMMA SetIter ==
    ASSUME IInv, Types', table' = table, NEW h \in Handles, NEW it,
           it \in {NULL, Wild} \/ (it \in Iters /\ Owes(table, it)), iter' = [iter EXCEPT ![h] = it]
    PROVE  IInv'
<1>1. iter \in [Handles -> {NULL, Wild} \cup Iters]
    BY DEF IInv, IterInv
<1>2. /\ iter' \in [Handles -> {NULL, Wild} \cup Iters]
      /\ iter'[h] = it /\ \A g \in Handles : g # h => iter'[g] = iter[g]
    BY <1>1
<1>3. \A g \in Handles : iter'[g] \notin {NULL, Wild} => Owes(table', iter'[g])
    BY <1>2 DEF IInv, IterInv
<1> QED
    BY <1>2, <1>3 DEF IInv, IterInv

\* What an iterator finds in the table.
LEMMA MatchingIs ==
    ASSUME NEW want, NEW from \in 0 .. NSlots
    PROVE  /\ Matching(want, from) \subseteq Slots
           /\ \A s \in Slots : s \in Matching(want, from) <=>
                s >= from /\ Occupied(table, s) /\ table[s].key \in want
BY KvAssumption DEF Matching, Slots

\* An iterator owes at its open what it will look for and the table holds.
LEMMA OpenInv ==
    ASSUME IInv, NEW want \in Wants, kv_iter_open(want), bound' = bound
    PROVE  IInv'
<1> DEFINE free == {h \in Handles : iter[h] = NULL}
<1>0. NSlots \in Nat /\ NSlots # 0 /\ 0 \in 0 .. NSlots /\ NHandles \in Nat
    BY KvAssumption
<1>1. table' = table /\ Types' /\ opens' \in 0 .. bound.opens
  <2>1. bound.opens \in Nat
    BY KvAssumption DEF IInv, Types
  <2>2. opens' \in 0 .. bound.opens
    BY <2>1 DEF IInv, Types, kv_iter_open
  <2> QED
    BY <2>2 DEF IInv, Types, kv_iter_open, history
<1>2. CASE free = {}
  <2>1. iter' = iter
    BY <1>2 DEF kv_iter_open
  <2>2. Keeps(table, table')
    BY <1>1 DEF Keeps
  <2> QED
    BY <1>1, <2>1, <2>2, IterKept DEF IInv
<1>3. CASE free # {}
  <2>1. PICK it : it = [pos |-> 0, want |-> want, end |-> FALSE, got |-> {}, stay |-> Matching(want, 0)]
    OBVIOUS
  <2>2. Matching(want, 0) \subseteq Slots
        /\ \A s \in Matching(want, 0) : Occupied(table, s) /\ table[s].key \in want
    BY <1>0, MatchingIs
  <2>3. it \in Iters
    BY <1>0, <2>1, <2>2 DEF Iters
  <2>4. Owes(table, it)
    <3>1. \A s \in Slots : ~(s < 0)
      BY SlotFacts
    <3> QED
      BY <1>0, <2>1, <2>2, <3>1 DEF Owes
  <2>5. PICK h \in Handles : h = Min(free)
    <3>1. free \in SUBSET (0 .. NHandles)
      BY <1>0 DEF Handles
    <3>2. Min(free) \in free
      <4> HIDE DEF free
      <4> QED
        BY <1>0, <1>3, <3>1, MinMax
    <3> QED
      BY <3>2
  <2>6. iter' = [iter EXCEPT ![h] = it]
    BY <1>3, <2>1, <2>5 DEF kv_iter_open
  <2> QED
    BY <1>1, <2>3, <2>4, <2>6, SetIter
<1> QED
    BY <1>2, <1>3

\* A handle is freed.
LEMMA CloseInv ==
    ASSUME IInv, NEW h \in Handles, kv_iter_close(h), bound' = bound
    PROVE  IInv'
<1>1. table' = table /\ Types' /\ iter' = [iter EXCEPT ![h] = NULL]
    BY DEF IInv, Types, kv_iter_close, history
<1>2. PICK it : it = NULL
    OBVIOUS
<1> QED
    BY <1>1, <1>2, SetIter

\* Where a read stops: everything found before that has been delivered, and
\* only a read that delivers all it finds stops at the end of the table.
LEMMA ReadStops ==
    ASSUME NEW found \in SUBSET Slots
    PROVE  /\ NextPos(found) \in 0 .. NSlots /\ Delivered(found) \subseteq found
           /\ \A s \in found : s < NextPos(found) => s \in Delivered(found)
<1> USE SlotFacts
<1>0. NSlots \in Nat /\ NSlots # 0 /\ IterBuf \in Nat /\ IterBuf # 0
    BY KvAssumption
<1>1. IsFiniteSet(found) /\ Cardinality(found) \in Nat
  <2>1. IsFiniteSet(Slots)
    BY <1>0, FS_Interval DEF Slots
  <2>2. IsFiniteSet(found)
    BY <2>1, FS_Subset
  <2> QED
    BY <2>2, FS_CardinalityType
<1>2. ASSUME NEW s \in found
      PROVE  /\ Cardinality(found \ {s}) = Cardinality(found) - 1
             /\ IsFiniteSet({r \in found : r < s})
             /\ Cardinality({r \in found : r < s}) \in Nat
             /\ Cardinality({r \in found : r < s}) <= Cardinality(found) - 1
  <2>1. /\ IsFiniteSet(found \ {s}) /\ Cardinality(found \ {s}) = Cardinality(found) - 1
    BY <1>1, FS_RemoveElement
  <2>2. {r \in found : r < s} \subseteq found \ {s}
    OBVIOUS
  <2>3. /\ IsFiniteSet({r \in found : r < s})
        /\ Cardinality({r \in found : r < s}) <= Cardinality(found \ {s})
    BY <2>1, <2>2, FS_Subset
  <2>4. Cardinality({r \in found : r < s}) \in Nat
    BY <2>3, FS_CardinalityType
  <2> QED
    BY <2>1, <2>3, <2>4
<1>3. CASE Cardinality(found) <= IterBuf
  <2>1. NextPos(found) = NSlots
    BY <1>3 DEF NextPos
  <2>2. ASSUME NEW s \in found
        PROVE  s \in Delivered(found)
    <3>1. PICK c \in Nat : c = Cardinality({r \in found : r < s}) /\ c <= Cardinality(found) - 1
      BY <1>2
    <3>2. c < IterBuf
      BY <1>0, <1>1, <1>3, <3>1
    <3> QED
      BY <3>1, <3>2 DEF Delivered
  <2> QED
    BY <1>0, <2>1, <2>2 DEF Delivered
<1>4. CASE Cardinality(found) > IterBuf
  <2> DEFINE left == found \ Delivered(found)
  <2>1. NextPos(found) = Min(left)
    BY <1>0, <1>1, <1>4 DEF NextPos
  <2>2. left # {}
    <3>1. found # {}
      BY <1>0, <1>4, FS_EmptySet
    <3>2. found \in SUBSET (0 .. NSlots)
      BY <1>0 DEF Slots
    <3>3. PICK m \in found : \A x \in found : x <= m
      BY <1>0, <3>1, <3>2, MinMax
    <3>4. {r \in found : r < m} = found \ {m}
      <4>1. \A x \in found : x < m <=> x # m
        BY <3>2, <3>3
      <4> QED
        BY <4>1
    <3>5. ~(Cardinality({r \in found : r < m}) < IterBuf)
      BY <1>0, <1>1, <1>2, <1>4, <3>4
    <3> QED
      BY <3>5 DEF Delivered
  <2>3. left \in SUBSET (0 .. NSlots)
    <3>1. left \subseteq found
      OBVIOUS
    <3> HIDE DEF left
    <3> QED
      BY <1>0, <3>1 DEF Slots
  <2>4. Min(left) \in left /\ \A s \in left : Min(left) <= s
    <3> HIDE DEF left
    <3> QED
      BY <1>0, <2>2, <2>3, MinMax
  <2>5. PICK n \in 0 .. NSlots : n = Min(left)
    BY <2>3, <2>4
  <2>6. \A s \in found : s < n => s \in Delivered(found)
    <3>1. \A s \in left : n <= s /\ s \in Nat
      BY <2>3, <2>4, <2>5
    <3> QED
      BY <3>1
  <2> QED
    BY <2>1, <2>5, <2>6 DEF Delivered
<1> QED
    BY <1>0, <1>1, <1>3, <1>4

\* One read of an iterator, which may stop at a full buffer.
LEMMA ReadInv ==
    ASSUME IInv, NEW h \in Handles, kv_iter_read(h), bound' = bound
    PROVE  IInv'
<1> USE SlotFacts
<1>0. NSlots \in Nat /\ NSlots # 0
    BY KvAssumption
<1>1. table' = table /\ Types' /\ iter[h] \notin {NULL, Wild} /\ IterInv
    BY DEF IInv, Types, kv_iter_read, history
<1>2. PICK it \in Iters : it = iter[h] /\ Owes(table, it)
    BY <1>1 DEF IterInv
<1>3. PICK found : found = Matching(it.want, it.pos)
    OBVIOUS
<1>4. /\ found \subseteq Slots
      /\ \A s \in Slots : s \in found <=> s >= it.pos /\ Occupied(table, s) /\ table[s].key \in it.want
    BY <1>3, MatchingIs DEF Iters
<1>5. /\ NextPos(found) \in 0 .. NSlots /\ Delivered(found) \subseteq found
      /\ \A s \in found : s < NextPos(found) => s \in Delivered(found)
    BY <1>4, ReadStops
<1>6. PICK b : b = (it.end \/ (it.pos < NSlots /\ NextPos(found) = NSlots))
    OBVIOUS
<1>7. PICK jt : jt = [it EXCEPT !.got = it.got \cup Delivered(found), !.pos = NextPos(found), !.end = b]
    OBVIOUS
<1>8. /\ jt.got = it.got \cup Delivered(found) /\ jt.pos = NextPos(found) /\ jt.end = b
      /\ jt.stay = it.stay /\ jt.want = it.want
    BY <1>7 DEF Iters
<1>9. jt \in Iters
  <2>1. b \in BOOLEAN
    BY <1>6, Zenon
  <2>2. it.got \cup Delivered(found) \in SUBSET Slots
    BY <1>4, <1>5 DEF Iters
  <2> QED
    BY <1>5, <1>7, <2>1, <2>2 DEF Iters
<1>10. Owes(table, jt)
  <2>1. ASSUME NEW s \in it.stay
        PROVE  /\ Occupied(table, s) /\ table[s].key \in it.want
               /\ s < NextPos(found) => s \in it.got \cup Delivered(found)
    <3>1. s \in Slots /\ Occupied(table, s) /\ table[s].key \in it.want /\ (s < it.pos => s \in it.got)
      BY <1>2 DEF Owes, Iters
    <3>2. it.pos \in Nat /\ s \in Nat
      BY <3>1 DEF Iters
    <3> QED
      BY <1>4, <1>5, <3>1, <3>2
  <2>2. NextPos(found) = NSlots => b
    <3>1. it.pos \in 0 .. NSlots /\ (it.pos = NSlots => it.end)
      BY <1>2 DEF Owes, Iters
    <3>2. it.pos = NSlots \/ it.pos < NSlots
      BY <1>0, <3>1
    <3> QED
      BY <1>6, <3>1, <3>2, Zenon
  <2> QED
    BY <1>8, <2>1, <2>2 DEF Owes
<1>11. iter' = [iter EXCEPT ![h] = jt]
  <2>1. iter' = [iter EXCEPT ![h].got = it.got \cup Delivered(found), ![h].pos = NextPos(found), ![h].end = b]
    <3> DEFINE F == Matching(iter[h].want, iter[h].pos)
    <3>1. iter' = [iter EXCEPT
                      ![h].got = iter[h].got \cup Delivered(F), ![h].pos = NextPos(F),
                      ![h].end = iter[h].end \/ (iter[h].pos < NSlots /\ NextPos(F) = NSlots)]
      BY DEF kv_iter_read
    <3>2. F = found /\ (iter[h].end \/ (iter[h].pos < NSlots /\ NextPos(found) = NSlots)) = b
      BY <1>2, <1>3, <1>6, Zenon
    <3> HIDE DEF F
    <3> QED
      BY <1>2, <3>1, <3>2
  <2>2. iter \in [Handles -> {NULL, Wild} \cup Iters]
    BY <1>1 DEF IterInv
  <2> QED
    BY <1>2, <1>7, <2>1, <2>2
<1> QED
    BY <1>1, <1>9, <1>10, <1>11, SetIter

-----------------------------------------------------------------------------
(* The theorems. *)

\* kv_init_namespace: the table is empty.
LEMMA InitInv ==
    ASSUME Init
    PROVE  IInv
<1> USE KvAssumption, SlotFacts
<1>1. Types
  <2>1. alloc \in Allocs
    BY DEF Init, kv_init_namespace, Allocs, Areas
  <2> QED
    BY <2>1 DEF Init, Types
<1>2. Sound(table)
  <2>1. table = [s \in Slots |-> NoEntry]
    BY DEF Init, kv_init_namespace
  <2>2. NoEntry \in Entries /\ NoEntry.next_slot = -1 /\ NoEntry.mem_offset = -1
    BY DEF Entries, NoEntry
  <2>3. PICK r : r = [s \in Slots |-> s]
    OBVIOUS
  <2>4. \A s \in Slots : ~Occupied(table, s)
    BY <2>1, <2>2 DEF Occupied
  <2>5. Ranks(table, r)
    BY <2>3, <2>4 DEF Ranks
  <2> QED
    BY <2>1, <2>2, <2>5 DEF Sound, Clean
<1>3. IterInv
  <2>1. \A h \in Handles : iter[h] \in {NULL, Wild}
    BY DEF Init, kv_init_namespace
  <2> QED
    BY <2>1 DEF Init, kv_init_namespace, IterInv
<1> QED
    BY <1>1, <1>2, <1>3 DEF IInv

\* Every command keeps the invariant.
LEMMA NextInv ==
    ASSUME IInv, [Next]_vars
    PROVE  IInv'
<1>0. /\ bound \in Bounds /\ bound.batch \in Nat /\ batch \in 0 .. bound.batch
    BY KvAssumption DEF IInv, Types
<1>1. ASSUME table' = table, iter' = iter, alloc' = alloc, bound' = bound, batch' \in 0 .. bound.batch,
             fault' = fault, inserts' = inserts, opens' = opens
      PROVE  IInv'
  <2>1. Keeps(table, table')
    BY <1>1 DEF Keeps
  <2> QED
    BY <1>1, <2>1, IterKept DEF IInv, Types
<1>2. CASE UNCHANGED vars
    BY <1>0, <1>1, <1>2 DEF vars
<1>3. CASE Next
  <2>0. Command /\ bound' = bound
    BY <1>3 DEF Next
  <2>1. ASSUME NEW k \in bound.keys, NEW v \in bound.vals, KvStoreCmd(k, v)
        PROVE  IInv'
    BY <1>0, <2>0, <2>1, PutInv DEF KvStoreCmd
  <2>2. ASSUME NEW k \in bound.keys, NEW v \in bound.vals, BatchedIo(k, v)
        PROVE  IInv'
    <3>1. batch' \in 0 .. bound.batch
      BY <1>0, <2>2 DEF BatchedIo
    <3> QED
      BY <2>0, <2>2, <3>1, PutInv DEF BatchedIo
  <2>3. ASSUME NEW k \in bound.keys, NEW n \in 1 .. LargeLength, Retrieve(k, n)
        PROVE  IInv'
    BY <1>0, <1>1, <2>0, <2>3 DEF Retrieve, history
  <2>4. ASSUME NEW k \in bound.keys, Exist(k)
        PROVE  IInv'
    BY <1>0, <1>1, <2>0, <2>4 DEF Exist, history
  <2>5. ASSUME NEW k \in bound.keys, Delete(k)
        PROVE  IInv'
    BY <2>0, <2>5, DeleteInv
  <2>6. ASSUME NEW n \in 1 .. bound.batch, Batch(n)
        PROVE  IInv'
    <3>1. batch' \in 0 .. bound.batch
      BY <1>0, <2>6 DEF Batch
    <3> QED
      BY <3>1, <1>1, <2>0, <2>6 DEF Batch, history
  <2>7. ASSUME NEW want \in Wants, kv_iter_open(want)
        PROVE  IInv'
    BY <2>0, <2>7, OpenInv
  <2>8. ASSUME NEW h \in Handles, kv_iter_close(h) \/ kv_iter_read(h)
        PROVE  IInv'
    BY <2>0, <2>8, CloseInv, ReadInv
  <2>9. CASE Complete \/ Halted
    BY <1>0, <1>1, <2>0, <2>9 DEF Complete, Halted, history
  <2> QED
    BY <2>0, <2>1, <2>2, <2>3, <2>4, <2>5, <2>6, <2>7, <2>8, <2>9 DEF Command
<1> QED
    BY <1>2, <1>3

\* The inductive invariant: a table whose links lead to slots of smaller rank,
\* and iterators that owe only what is in the table (kv_ftl.c).
THEOREM Invariant == Spec => []IInv
<1>1. Init => IInv
    BY InitInv
<1>2. IInv /\ [Next]_vars => IInv'
    BY NextInv
<1> QED
    BY <1>1, <1>2, PTL DEF Spec

\* Types: slots, offsets and lengths of the mapping table, positions of the
\* iterators (struct mapping_entry, struct kv_ftl).
THEOREM TypeCorrect == Spec => []TypeOK
<1>1. IInv => TypeOK
  <2> SUFFICES ASSUME IInv
               PROVE  TypeOK
    OBVIOUS
  <2>1. \A h \in Handles : iter[h] \in {NULL, Wild} \/ iter[h].pos \in 0 .. NSlots
    BY DEF IInv, IterInv, Iters
  <2> QED
    BY <2>1 DEF IInv, Types, Sound, TypeOK
<1> QED
    BY <1>1, Invariant, PTL

\* The loops of get_mapping_entry and find_next_slot over a chain come to
\* its end within hash_slots steps, whatever deletes have emptied and
\* inserts filled again.
THEOREM EveryChainEnds == Spec => []ChainsEnd
<1>1. IInv => ChainsEnd
    BY WalkEnds DEF IInv, Sound, ChainsEnd
<1> QED
    BY <1>1, Invariant, PTL

\* An iterator that has come to the end of the table has delivered every entry
\* that was there from its open on, for every buffer size and whatever was
\* stored and deleted between its reads (kv_iter_read).
THEOREM IteratorsDeliver == Spec => []IterComplete
<1>1. IInv => IterComplete
  <2> SUFFICES ASSUME IInv, NEW h \in Handles, iter[h] \notin {NULL, Wild}, iter[h].pos = NSlots
               PROVE  iter[h].end /\ iter[h].stay \subseteq iter[h].got
    BY DEF IterComplete
  <2>1. PICK it \in Iters : it = iter[h] /\ Owes(table, it)
    BY DEF IInv, IterInv
  <2>2. \A s \in it.stay : s \in Slots /\ s < NSlots
    BY <2>1, SlotFacts DEF Iters
  <2> QED
    BY <2>1, <2>2 DEF Owes
<1> QED
    BY <1>1, Invariant, PTL

-----------------------------------------------------------------------------
(* Lookups. *)

\* A walk stops at the first slot that is not occupied.
LEMMA OccupiedBefore ==
    ASSUME NEW t \in [Slots -> Entries], NEW first \in Links, NEW at, at = Walk(t, first),
           NEW n \in 0 .. NSlots, Occupied(t, at[n]), NEW m \in 0 .. n
    PROVE  Occupied(t, at[m])
<1> USE KvAssumption
<1>1. \A i \in 0 .. NSlots - 1 : at[i + 1] = IF Occupied(t, at[i]) THEN t[at[i]].next_slot ELSE -1
    BY WalkStep
<1> DEFINE T == {i \in 0 .. NSlots : Occupied(t, at[i]) => \A j \in 0 .. i : Occupied(t, at[j])}
<1>2. 0 \in T
    OBVIOUS
<1>3. ASSUME NEW i \in 0 .. NSlots - 1, i \in T
      PROVE  i + 1 \in T
  <2> SUFFICES ASSUME Occupied(t, at[i + 1]), NEW j \in 0 .. i + 1
               PROVE  Occupied(t, at[j])
    BY <1>3
  <2>1. Occupied(t, at[i])
    BY <1>1 DEF Occupied
  <2>2. j = i + 1 \/ j \in 0 .. i
    OBVIOUS
  <2> QED
    BY <1>3, <2>1, <2>2
<1>4. \A i \in 0 .. NSlots : i \in T
  <2> HIDE DEF T
  <2> QED
    BY <1>2, <1>3, UpTo
<1> QED
    BY <1>4

\* The walk of a lookup.
LEMMA WalkOf ==
    ASSUME NEW t \in [Slots -> Entries], NEW k \in Keys, NEW at, at = Walk(t, get_hash_slot(k))
    PROVE  /\ at \in [0 .. NSlots -> Links] /\ at[0] = get_hash_slot(k)
           /\ \A n \in 0 .. NSlots - 1 :
                at[n + 1] = IF Occupied(t, at[n]) THEN t[at[n]].next_slot ELSE -1
<1>1. PICK h \in Links : h = get_hash_slot(k)
    BY HashSlot, SlotFacts
<1> QED
    BY <1>1, WalkStep

\* A lookup answers the first occupied slot of the walk that holds the key.
FirstHit(t, k, at, n) ==
    /\ Occupied(t, at[n]) /\ t[at[n]].key = k
    /\ \A m \in 0 .. n - 1 : Occupied(t, at[m]) => t[at[m]].key # k

LEMMA LookupIs ==
    ASSUME NEW t \in [Slots -> Entries], NEW k \in Keys, NEW at, at = Walk(t, get_hash_slot(k))
    PROVE  /\ get_mapping_entry(t, k) = -1 <=>
                \A n \in 0 .. NSlots : Occupied(t, at[n]) => t[at[n]].key # k
           /\ get_mapping_entry(t, k) # -1 =>
                \E n \in 0 .. NSlots : get_mapping_entry(t, k) = at[n] /\ FirstHit(t, k, at, n)
           /\ \A n \in 0 .. NSlots : FirstHit(t, k, at, n) => get_mapping_entry(t, k) = at[n]
<1> USE KvAssumption
<1>0. at \in [0 .. NSlots -> Links]
    BY HashSlot, SlotFacts, WalkStep
<1> DEFINE hits == {n \in 0 .. NSlots : Occupied(t, at[n]) /\ t[at[n]].key = k}
<1>1. get_mapping_entry(t, k) = IF hits = {} THEN -1 ELSE at[Min(hits)]
    BY DEF get_mapping_entry
<1>2. hits # {} => /\ Min(hits) \in hits
                   /\ \A x \in hits : Min(hits) <= x
  <2>1. hits \in SUBSET (0 .. NSlots) /\ NSlots \in Nat
    OBVIOUS
  <2> HIDE DEF hits
  <2> QED
    BY <2>1, MinMax
<1>3. \A n \in hits : at[n] # -1
    BY DEF Occupied
<1>4. hits = {} <=> \A n \in 0 .. NSlots : Occupied(t, at[n]) => t[at[n]].key # k
    OBVIOUS
<1>5. get_mapping_entry(t, k) = -1 <=> hits = {}
  <2> HIDE DEF hits
  <2> QED
    BY <1>1, <1>2, <1>3
<1>6. ASSUME hits # {}
      PROVE  \E n \in 0 .. NSlots : get_mapping_entry(t, k) = at[n] /\ FirstHit(t, k, at, n)
  <2>1. PICK n \in 0 .. NSlots : n = Min(hits) /\ n \in hits /\ \A x \in hits : n <= x
    BY <1>2, <1>6
  <2>2. get_mapping_entry(t, k) = at[n]
    BY <1>1, <1>6, <2>1
  <2>3. ASSUME NEW m \in 0 .. n - 1, Occupied(t, at[m])
        PROVE  t[at[m]].key # k
    <3>1. m \notin hits
      <4>1. ~ (n <= m)
        OBVIOUS
      <4> HIDE DEF hits
      <4> QED
        BY <2>1, <4>1
    <3>2. m \in 0 .. NSlots
      OBVIOUS
    <3> QED
      BY <2>3, <3>1, <3>2
  <2> QED
    BY <2>1, <2>2, <2>3 DEF FirstHit
<1>7. ASSUME NEW n \in 0 .. NSlots, FirstHit(t, k, at, n)
      PROVE  get_mapping_entry(t, k) = at[n]
  <2>1. n \in hits
    BY <1>7 DEF FirstHit
  <2>2. PICK m \in 0 .. NSlots : m = Min(hits) /\ m \in hits /\ m <= n
    BY <1>2, <2>1
  <2>3. m = n
    <3> SUFFICES ASSUME m # n
                 PROVE  FALSE
      OBVIOUS
    <3>1. m \in 0 .. n - 1
      BY <2>2
    <3> QED
      BY <1>7, <2>2, <3>1 DEF FirstHit
  <2>4. hits # {}
    BY <2>1
  <2> HIDE DEF hits
  <2> QED
    BY <1>1, <2>2, <2>3, <2>4
<1> HIDE DEF hits
<1> QED
    BY <1>4, <1>5, <1>6, <1>7

LEMMA NotFound ==
    ASSUME NEW t \in [Slots -> Entries], NEW k \in Keys, NEW at, at = Walk(t, get_hash_slot(k)),
           \A n \in 0 .. NSlots : Occupied(t, at[n]) => t[at[n]].key # k
    PROVE  get_mapping_entry(t, k) = -1
BY LookupIs

\* Tables whose entries differ only in lengths answer alike.
LEMMA SameLookup ==
    ASSUME NEW t \in [Slots -> Entries], NEW u \in [Slots -> Entries], NEW k \in Keys,
           \A s \in Slots : /\ u[s].mem_offset = t[s].mem_offset /\ u[s].key = t[s].key
                            /\ u[s].next_slot = t[s].next_slot
    PROVE  get_mapping_entry(u, k) = get_mapping_entry(t, k)
<1> USE KvAssumption
<1>1. PICK at, bt : at = Walk(t, get_hash_slot(k)) /\ bt = Walk(u, get_hash_slot(k))
    OBVIOUS
<1>2. /\ at \in [0 .. NSlots -> Links] /\ bt \in [0 .. NSlots -> Links] /\ at[0] = bt[0]
      /\ \A n \in 0 .. NSlots - 1 :
            /\ at[n + 1] = IF Occupied(t, at[n]) THEN t[at[n]].next_slot ELSE -1
            /\ bt[n + 1] = IF Occupied(u, bt[n]) THEN u[bt[n]].next_slot ELSE -1
    BY <1>1, WalkOf
<1>3. \A s \in Links : /\ Occupied(u, s) <=> Occupied(t, s)
                       /\ Occupied(t, s) => u[s].key = t[s].key /\ u[s].next_slot = t[s].next_slot
    BY SlotFacts DEF Occupied
<1> DEFINE T == {n \in 0 .. NSlots : bt[n] = at[n]}
<1>4. 0 \in T
    BY <1>2
<1>5. ASSUME NEW n \in 0 .. NSlots - 1, n \in T
      PROVE  n + 1 \in T
  <2>1. bt[n] = at[n] /\ at[n] \in Links
    BY <1>2, <1>5
  <2> QED
    BY <1>2, <1>3, <2>1
<1>6. \A n \in 0 .. NSlots : bt[n] = at[n]
  <2>1. \A n \in 0 .. NSlots : n \in T
    <3> HIDE DEF T
    <3> QED
      BY <1>4, <1>5, UpTo
  <2> QED
    BY <2>1
<1> HIDE DEF T
<1>7. ASSUME NEW n \in 0 .. NSlots
      PROVE  FirstHit(u, k, bt, n) <=> FirstHit(t, k, at, n)
  <2>1. \A m \in 0 .. n : m \in 0 .. NSlots
    OBVIOUS
  <2>2. \A m \in 0 .. n : /\ Occupied(u, bt[m]) <=> Occupied(t, at[m])
                          /\ Occupied(t, at[m]) => u[bt[m]].key = t[at[m]].key
    BY <1>2, <1>3, <1>6, <2>1
  <2> QED
    BY <2>2 DEF FirstHit
<1>8. CASE get_mapping_entry(t, k) = -1
  <2>1. \A n \in 0 .. NSlots : Occupied(t, at[n]) => t[at[n]].key # k
    BY <1>1, <1>8, LookupIs
  <2>2. ASSUME NEW n \in 0 .. NSlots, Occupied(u, bt[n])
        PROVE  u[bt[n]].key # k
    BY <1>2, <1>3, <1>6, <2>1, <2>2
  <2>3. get_mapping_entry(u, k) = -1
    BY <1>1, <2>2, NotFound
  <2> QED
    BY <1>8, <2>3
<1>9. CASE get_mapping_entry(t, k) # -1
  <2>1. PICK n \in 0 .. NSlots : get_mapping_entry(t, k) = at[n] /\ FirstHit(t, k, at, n)
    BY <1>1, <1>9, LookupIs
  <2>2. get_mapping_entry(u, k) = bt[n]
    BY <1>1, <1>7, <2>1, LookupIs
  <2> QED
    BY <1>6, <2>1, <2>2
<1> QED
    BY <1>8, <1>9

\* In a table with one entry less, what is found is found where it was.
LEMMA LessLookup ==
    ASSUME NEW t \in [Slots -> Entries], NEW u \in [Slots -> Entries], NEW s \in Slots,
           ~Occupied(u, s), \A r \in Slots : r # s => u[r] = t[r],
           NEW j \in Keys, get_mapping_entry(u, j) # -1
    PROVE  get_mapping_entry(u, j) = get_mapping_entry(t, j)
<1> USE KvAssumption
<1>0. \A r \in Links : Occupied(u, r) => r # s /\ Occupied(t, r) /\ u[r] = t[r]
    BY SlotFacts DEF Occupied
<1>1. PICK at, bt : at = Walk(t, get_hash_slot(j)) /\ bt = Walk(u, get_hash_slot(j))
    OBVIOUS
<1>2. /\ at \in [0 .. NSlots -> Links] /\ bt \in [0 .. NSlots -> Links] /\ at[0] = bt[0]
      /\ \A n \in 0 .. NSlots - 1 :
            /\ at[n + 1] = IF Occupied(t, at[n]) THEN t[at[n]].next_slot ELSE -1
            /\ bt[n + 1] = IF Occupied(u, bt[n]) THEN u[bt[n]].next_slot ELSE -1
  <2>1. /\ at \in [0 .. NSlots -> Links] /\ at[0] = get_hash_slot(j)
        /\ \A n \in 0 .. NSlots - 1 :
              at[n + 1] = IF Occupied(t, at[n]) THEN t[at[n]].next_slot ELSE -1
    BY <1>1, WalkOf
  <2>2. /\ bt \in [0 .. NSlots -> Links] /\ bt[0] = get_hash_slot(j)
        /\ \A n \in 0 .. NSlots - 1 :
              bt[n + 1] = IF Occupied(u, bt[n]) THEN u[bt[n]].next_slot ELSE -1
    BY <1>1, WalkOf
  <2> QED
    BY <2>1, <2>2
<1> DEFINE T == {n \in 0 .. NSlots : Occupied(u, bt[n]) => bt[n] = at[n]}
<1>3. 0 \in T
    BY <1>2
<1>4. ASSUME NEW n \in 0 .. NSlots - 1, n \in T
      PROVE  n + 1 \in T
  <2> SUFFICES ASSUME Occupied(u, bt[n + 1])
               PROVE  bt[n + 1] = at[n + 1]
    OBVIOUS
  <2>1. Occupied(u, bt[n])
    BY <1>2 DEF Occupied
  <2>2. bt[n] = at[n]
    BY <1>4, <2>1
  <2>3. bt[n] \in Links
    BY <1>2
  <2>4. Occupied(t, at[n]) /\ u[bt[n]] = t[at[n]]
    BY <1>0, <2>1, <2>2, <2>3
  <2>5. bt[n + 1] = u[bt[n]].next_slot /\ at[n + 1] = t[at[n]].next_slot
    BY <1>2, <2>1, <2>4
  <2> QED
    BY <2>4, <2>5
<1>5. \A n \in 0 .. NSlots : Occupied(u, bt[n]) => bt[n] = at[n]
  <2>1. \A n \in 0 .. NSlots : n \in T
    <3> HIDE DEF T
    <3> QED
      BY <1>3, <1>4, UpTo
  <2> QED
    BY <2>1
<1> HIDE DEF T
<1>6. PICK n \in 0 .. NSlots : get_mapping_entry(u, j) = bt[n] /\ FirstHit(u, j, bt, n)
    BY <1>1, LookupIs
<1>7. Occupied(u, bt[n]) /\ u[bt[n]].key = j /\ bt[n] = at[n] /\ bt[n] \in Links
    BY <1>2, <1>5, <1>6 DEF FirstHit
<1>8. Occupied(t, at[n]) /\ t[at[n]].key = j
    BY <1>0, <1>7
<1>9. ASSUME NEW m \in 0 .. n - 1, Occupied(t, at[m])
      PROVE  t[at[m]].key # j
  <2>1. m \in 0 .. n /\ m \in 0 .. NSlots
    OBVIOUS
  <2>2. get_hash_slot(j) \in Links
    BY HashSlot, SlotFacts
  <2>3. Occupied(u, bt[m])
    BY <1>1, <1>7, <2>1, <2>2, OccupiedBefore
  <2>4. bt[m] = at[m] /\ bt[m] \in Links
    BY <1>2, <1>5, <2>1, <2>3
  <2>5. u[bt[m]].key # j
    BY <1>6, <2>3 DEF FirstHit
  <2> QED
    BY <1>0, <2>3, <2>4, <2>5
<1>10. FirstHit(t, j, at, n)
    BY <1>8, <1>9 DEF FirstHit
<1>11. get_mapping_entry(t, j) = at[n]
    BY <1>1, <1>10, LookupIs
<1> QED
    BY <1>6, <1>7, <1>11

\* After a delete the key is not found, and other keys are found where they
\* were or not any more.
LEMMA DeleteLookup ==
    ASSUME NEW t \in [Slots -> Entries], NEW k \in Keys, NEW s \in Slots, s = get_mapping_entry(t, k),
           NEW u \in [Slots -> Entries], ~Occupied(u, s), \A r \in Slots : r # s => u[r] = t[r]
    PROVE  /\ get_mapping_entry(u, k) = -1
           /\ \A j \in Keys : get_mapping_entry(u, j) \in {-1, get_mapping_entry(t, j)}
<1>1. ASSUME NEW j \in Keys, get_mapping_entry(u, j) # -1
      PROVE  get_mapping_entry(u, j) = get_mapping_entry(t, j)
    BY <1>1, LessLookup
<1>2. get_mapping_entry(u, k) = -1
  <2> SUFFICES ASSUME get_mapping_entry(u, k) # -1
               PROVE  FALSE
    OBVIOUS
  <2>1. get_mapping_entry(u, k) = s
    BY <1>1
  <2>2. Occupied(u, get_mapping_entry(u, k))
    BY EntryFound
  <2> QED
    BY <2>1, <2>2
<1> QED
    BY <1>1, <1>2

\* The end of a chain is followed by nothing.
LEMMA TailIs ==
    ASSUME NEW t, Sound(t), NEW s \in Slots, Occupied(t, s), NEW at, at = Walk(t, s)
    PROVE  \E m \in 0 .. NSlots - 1 :
                /\ at[m] = Tail_slot(t, s) /\ Occupied(t, at[m])
                /\ ~Occupied(t, t[at[m]].next_slot)
<1> USE KvAssumption, SlotFacts
<1>1. t \in [Slots -> Entries]
    BY DEF Sound
<1>2. /\ at \in [0 .. NSlots -> Links] /\ at[0] = s
      /\ \A n \in 0 .. NSlots - 1 : at[n + 1] = IF Occupied(t, at[n]) THEN t[at[n]].next_slot ELSE -1
    BY <1>1, WalkStep
<1>3. ~Occupied(t, at[NSlots])
    BY <1>1, WalkEnds DEF Sound, Occupied
<1> DEFINE on == {n \in 0 .. NSlots : Occupied(t, at[n])}
<1>4. 0 \in on
    BY <1>2
<1>5. Max(on) \in on /\ \A x \in on : x <= Max(on)
  <2>1. on \in SUBSET (0 .. NSlots) /\ NSlots \in Nat
    OBVIOUS
  <2> HIDE DEF on
  <2> QED
    BY <1>4, <2>1, MinMax
<1>6. PICK m \in 0 .. NSlots : m = Max(on) /\ m \in on /\ \A x \in on : x <= m
    BY <1>5
<1>7. m # NSlots /\ m \in 0 .. NSlots - 1 /\ Occupied(t, at[m])
    BY <1>3, <1>6
<1>8. ~Occupied(t, at[m + 1])
  <2> SUFFICES ASSUME Occupied(t, at[m + 1])
               PROVE  FALSE
    OBVIOUS
  <2>1. m + 1 \in on
    BY <1>7
  <2>2. m + 1 <= m
    <3> HIDE DEF on
    <3> QED
      BY <1>6, <2>1
  <2> QED
    BY <2>2
<1>9. Tail_slot(t, s) = at[m]
    BY <1>6 DEF Tail_slot
<1> QED
    BY <1>2, <1>7, <1>8, <1>9

\* u is t with a new entry in slot f, linked from p (if that is a slot).
Added(t, u, f, p, k, off, len) ==
    /\ f \in Slots /\ ~Occupied(t, f) /\ Occupied(u, f)
    /\ u[f].key = k /\ u[f].mem_offset = off /\ u[f].length = len /\ u[f].next_slot = -1
    /\ \A s \in Slots : s # f =>
         /\ u[s].key = t[s].key /\ u[s].mem_offset = t[s].mem_offset /\ u[s].length = t[s].length
         /\ Occupied(u, s) <=> Occupied(t, s)
         /\ s # p => u[s].next_slot = t[s].next_slot
         /\ s = p => u[s].next_slot = f

\* What an insertion makes of the table.
LEMMA InsertAdds ==
    ASSUME NEW t, Sound(t), ~TableFull(t),
           NEW k \in Keys, NEW off \in 0 .. DevSize, NEW len \in 1 .. LargeLength,
           NEW u, u = new_mapping_entry(t, k, off, len)
    PROVE  \E f \in Slots, p \in Links :
            /\ Added(t, u, f, p, k, off, len)
            /\ IF Occupied(t, get_hash_slot(k)) THEN p = Tail_slot(t, get_hash_slot(k)) /\ Occupied(t, p)
               ELSE p = -1 /\ f = get_hash_slot(k)
<1> USE SlotFacts
<1>0. t \in [Slots -> Entries] /\ \A s \in Slots : ~Occupied(t, s) => t[s].next_slot = -1
    BY DEF Sound, Clean
<1>1. PICK h \in Slots : h = get_hash_slot(k)
    BY HashSlot
<1>2. ASSUME NEW f \in Slots, ~Occupied(t, f), NEW w,
             w = [t EXCEPT ![f].key = k, ![f].mem_offset = off, ![f].length = len]
      PROVE  Added(t, w, f, -1, k, off, len) /\ w \in [Slots -> Entries]
  <2>1. Filled(t, w, f)
    BY <1>2, FillSlot
  <2>2. w[f] = [t[f] EXCEPT !.key = k, !.mem_offset = off, !.length = len]
    BY <1>0, <1>2
  <2>3. w[f].key = k /\ w[f].mem_offset = off /\ w[f].length = len
    BY <1>0, <2>2 DEF Entries
  <2>4. \A s \in Slots : s # f => w[s] = t[s]
    BY <2>1 DEF Filled
  <2>5. \A s \in Slots : s # f => (Occupied(w, s) <=> Occupied(t, s))
    BY <2>4 DEF Occupied
  <2> QED
    BY <1>2, <2>1, <2>3, <2>4, <2>5 DEF Added, Filled, Sound
<1>3. CASE ~Occupied(t, h)
  <2>1. PICK w : w = [t EXCEPT ![h].key = k, ![h].mem_offset = off, ![h].length = len]
    OBVIOUS
  <2>2. u = w
    BY <1>1, <1>3, <2>1 DEF new_mapping_entry
  <2>3. Added(t, w, h, -1, k, off, len)
    BY <1>2, <1>3, <2>1
  <2> QED
    BY <1>1, <1>3, <2>2, <2>3
<1>4. CASE Occupied(t, h)
  <2>1. PICK p \in Slots : p = Tail_slot(t, h) /\ Occupied(t, p)
    BY <1>0, <1>4, TailFound
  <2>2. PICK f \in Slots : f = FreeAfter(t, p) /\ ~Occupied(t, f)
    BY <1>0, FreeFound
  <2>3. PICK w : w = [t EXCEPT ![f].key = k, ![f].mem_offset = off, ![f].length = len]
    OBVIOUS
  <2>4. PICK x : x = [w EXCEPT ![p].next_slot = f]
    OBVIOUS
  <2>5. u = x
    BY <1>1, <1>4, <2>1, <2>2, <2>3, <2>4 DEF new_mapping_entry, find_next_slot
  <2>6. Added(t, w, f, -1, k, off, len) /\ w \in [Slots -> Entries]
    BY <1>2, <2>2, <2>3
  <2>7. /\ x[p] = [w[p] EXCEPT !.next_slot = f]
        /\ \A s \in Slots : s # p => x[s] = w[s]
    BY <2>4, <2>6
  <2>8. /\ x[p].next_slot = f /\ x[p].key = w[p].key /\ x[p].mem_offset = w[p].mem_offset
        /\ x[p].length = w[p].length
    BY <2>6, <2>7 DEF Entries
  <2>9. p # f
    BY <2>1, <2>2
  <2>10. Added(t, x, f, p, k, off, len)
    <3>1. x[f] = w[f] /\ (Occupied(x, f) <=> Occupied(w, f))
      BY <2>2, <2>7, <2>9 DEF Occupied
    <3>2. ASSUME NEW s \in Slots, s # f
          PROVE  /\ x[s].key = t[s].key /\ x[s].mem_offset = t[s].mem_offset /\ x[s].length = t[s].length
                 /\ Occupied(x, s) <=> Occupied(t, s)
                 /\ s # p => x[s].next_slot = t[s].next_slot
                 /\ s = p => x[s].next_slot = f
      <4>1. /\ w[s].key = t[s].key /\ w[s].mem_offset = t[s].mem_offset /\ w[s].length = t[s].length
            /\ Occupied(w, s) <=> Occupied(t, s)
            /\ w[s].next_slot = t[s].next_slot
        BY <2>6, <3>2 DEF Added
      <4>2. CASE s = p
        BY <2>8, <4>1, <4>2 DEF Occupied
      <4>3. CASE s # p
        BY <2>7, <4>1, <4>3 DEF Occupied
      <4> QED
        BY <4>2, <4>3
    <3>3. /\ ~Occupied(t, f) /\ Occupied(w, f) /\ w[f].key = k /\ w[f].mem_offset = off
          /\ w[f].length = len /\ w[f].next_slot = -1
      BY <2>6 DEF Added
    <3> QED
      BY <3>1, <3>2, <3>3 DEF Added
  <2> QED
    BY <1>1, <1>4, <2>1, <2>5, <2>10
<1> QED
    BY <1>3, <1>4

\* The walks in a table with a new entry: up to their end they are as before,
\* and then they may lead to the new entry, where they stop.
LEMMA WalkAdded ==
    ASSUME NEW t \in [Slots -> Entries], NEW u \in [Slots -> Entries],
           NEW f \in Slots, NEW p \in Links, NEW k, NEW off, NEW len, Added(t, u, f, p, k, off, len),
           p # -1 => Occupied(t, p) /\ ~Occupied(t, t[p].next_slot),
           NEW j \in Keys, NEW at, at = Walk(t, get_hash_slot(j)), NEW bt, bt = Walk(u, get_hash_slot(j))
    PROVE  \A n \in 0 .. NSlots :
            /\ Occupied(t, at[n]) => bt[n] = at[n]
            /\ Occupied(u, bt[n]) => bt[n] = f \/ (bt[n] = at[n] /\ Occupied(t, at[n]))
<1> USE KvAssumption
<1>1. /\ at \in [0 .. NSlots -> Links] /\ at[0] = get_hash_slot(j)
      /\ \A n \in 0 .. NSlots - 1 :
            at[n + 1] = IF Occupied(t, at[n]) THEN t[at[n]].next_slot ELSE -1
    BY WalkOf
<1>2. /\ bt \in [0 .. NSlots -> Links] /\ bt[0] = get_hash_slot(j)
      /\ \A n \in 0 .. NSlots - 1 :
            bt[n + 1] = IF Occupied(u, bt[n]) THEN u[bt[n]].next_slot ELSE -1
    BY WalkOf
<1>3. \A s \in Links : s # f => (Occupied(u, s) <=> Occupied(t, s))
    BY SlotFacts DEF Added, Occupied
<1>4. \A s \in Links : Occupied(t, s) => s \in Slots /\ s # f
    BY SlotFacts DEF Added, Occupied
<1> DEFINE T == {n \in 0 .. NSlots :
                    /\ Occupied(t, at[n]) => bt[n] = at[n]
                    /\ Occupied(u, bt[n]) => bt[n] = f \/ (bt[n] = at[n] /\ Occupied(t, at[n]))}
<1>5. 0 \in T
    BY <1>1, <1>2, <1>3
<1>6. ASSUME NEW n \in 0 .. NSlots - 1, n \in T
      PROVE  n + 1 \in T
  <2>0. /\ at[n] \in Links /\ bt[n] \in Links /\ at[n + 1] \in Links /\ bt[n + 1] \in Links
    BY <1>1, <1>2
  <2>1. CASE Occupied(t, at[n])
    <3>1. bt[n] = at[n] /\ at[n] \in Slots /\ at[n] # f /\ Occupied(u, at[n])
      BY <1>3, <1>4, <1>6, <2>0, <2>1
    <3>2. at[n + 1] = t[at[n]].next_slot /\ bt[n + 1] = u[at[n]].next_slot
      BY <1>1, <1>2, <2>1, <3>1
    <3>3. CASE at[n] = p
      <4>1. bt[n + 1] = f /\ ~Occupied(t, at[n + 1])
        BY <3>1, <3>2, <3>3, SlotFacts DEF Added
      <4> QED
        BY <4>1
    <3>4. CASE at[n] # p
      <4>1. bt[n + 1] = at[n + 1]
        BY <3>1, <3>2, <3>4 DEF Added
      <4> QED
        BY <1>3, <2>0, <4>1
    <3> QED
      BY <3>3, <3>4
  <2>2. CASE ~Occupied(t, at[n])
    <3>1. at[n + 1] = -1 /\ ~Occupied(t, at[n + 1])
      BY <1>1, <2>2 DEF Occupied
    <3>2. ~Occupied(u, bt[n + 1])
      <4>1. CASE Occupied(u, bt[n])
        <5>1. bt[n] = f
          BY <1>6, <2>2, <4>1
        <5>2. bt[n + 1] = -1
          BY <1>2, <4>1, <5>1 DEF Added
        <5> QED
          BY <5>2 DEF Occupied
      <4>2. CASE ~Occupied(u, bt[n])
        BY <1>2, <4>2 DEF Occupied
      <4> QED
        BY <4>1, <4>2
    <3> QED
      BY <3>1, <3>2
  <2> QED
    BY <2>1, <2>2
<1>7. \A n \in 0 .. NSlots : n \in T
  <2> HIDE DEF T
  <2> QED
    BY <1>5, <1>6, UpTo
<1> QED
    BY <1>7

\* An insertion of a key that is not found: it is found in the new slot, and
\* the others where they were.
LEMMA InsertLookup ==
    ASSUME NEW t, Sound(t), ~TableFull(t),
           NEW k \in Keys, NEW off \in 0 .. DevSize, NEW len \in 1 .. LargeLength,
           get_mapping_entry(t, k) = -1,
           NEW u, u = new_mapping_entry(t, k, off, len)
    PROVE  \E f \in Slots, p \in Links :
            /\ Added(t, u, f, p, k, off, len)
            /\ get_mapping_entry(u, k) = f
            /\ \A j \in Keys : j # k => get_mapping_entry(u, j) = get_mapping_entry(t, j)
<1> USE KvAssumption
<1>0. t \in [Slots -> Entries]
    BY DEF Sound
<1>1. PICK w : w = u
    OBVIOUS
<1>2. w \in [Slots -> Entries]
    BY <1>1, InsertSound DEF Sound
<1>3. PICK f \in Slots, p \in Links :
        /\ Added(t, w, f, p, k, off, len)
        /\ IF Occupied(t, get_hash_slot(k)) THEN p = Tail_slot(t, get_hash_slot(k)) /\ Occupied(t, p)
           ELSE p = -1 /\ f = get_hash_slot(k)
    BY <1>1, InsertAdds
<1>4. PICK h \in Slots : h = get_hash_slot(k)
    BY HashSlot
<1>5. p # -1 => Occupied(t, p) /\ ~Occupied(t, t[p].next_slot)
  <2> SUFFICES ASSUME p # -1
               PROVE  Occupied(t, p) /\ ~Occupied(t, t[p].next_slot)
    OBVIOUS
  <2>1. Occupied(t, h) /\ p = Tail_slot(t, h) /\ Occupied(t, p)
    BY <1>3, <1>4
  <2>2. PICK ht : ht = Walk(t, h)
    OBVIOUS
  <2>3. PICK m \in 0 .. NSlots - 1 :
            /\ ht[m] = Tail_slot(t, h) /\ Occupied(t, ht[m]) /\ ~Occupied(t, t[ht[m]].next_slot)
    BY <2>1, <2>2, TailIs
  <2> QED
    BY <2>1, <2>3
<1>6. ASSUME NEW j \in Keys, NEW at, at = Walk(t, get_hash_slot(j)), NEW bt, bt = Walk(w, get_hash_slot(j))
      PROVE  \A n \in 0 .. NSlots :
                /\ Occupied(t, at[n]) => bt[n] = at[n]
                /\ Occupied(w, bt[n]) => bt[n] = f \/ (bt[n] = at[n] /\ Occupied(t, at[n]))
    BY <1>0, <1>2, <1>3, <1>5, <1>6, WalkAdded
<1>7. /\ w[f].key = k /\ Occupied(w, f) /\ ~Occupied(t, f)
      /\ \A s \in Links : Occupied(t, s) => Occupied(w, s) /\ w[s].key = t[s].key
    BY <1>3, SlotFacts DEF Added, Occupied
<1>8. ASSUME NEW j \in Keys, j # k
      PROVE  get_mapping_entry(w, j) = get_mapping_entry(t, j)
  <2>1. PICK at, bt : at = Walk(t, get_hash_slot(j)) /\ bt = Walk(w, get_hash_slot(j))
    OBVIOUS
  <2>2. \A n \in 0 .. NSlots :
            /\ Occupied(t, at[n]) => bt[n] = at[n]
            /\ Occupied(w, bt[n]) => bt[n] = f \/ (bt[n] = at[n] /\ Occupied(t, at[n]))
    BY <1>6, <2>1
  <2>3. \A n \in 0 .. NSlots : at[n] \in Links
    BY <1>0, <2>1, WalkOf
  <2>4. CASE get_mapping_entry(t, j) = -1
    <3>1. \A n \in 0 .. NSlots : Occupied(t, at[n]) => t[at[n]].key # j
      BY <1>0, <2>1, <2>4, LookupIs
    <3>2. ASSUME NEW n \in 0 .. NSlots, Occupied(w, bt[n])
          PROVE  w[bt[n]].key # j
      BY <1>7, <1>8, <2>2, <2>3, <3>1, <3>2
    <3>3. get_mapping_entry(w, j) = -1
      BY <1>2, <2>1, <3>2, NotFound
    <3> QED
      BY <2>4, <3>3
  <2>5. CASE get_mapping_entry(t, j) # -1
    <3>1. PICK n \in 0 .. NSlots : get_mapping_entry(t, j) = at[n] /\ FirstHit(t, j, at, n)
      BY <1>0, <2>1, <2>5, LookupIs
    <3>2. Occupied(t, at[n]) /\ t[at[n]].key = j /\ bt[n] = at[n]
      BY <2>2, <3>1 DEF FirstHit
    <3>3. Occupied(w, bt[n]) /\ w[bt[n]].key = j
      BY <1>7, <2>3, <3>2
    <3>4. ASSUME NEW m \in 0 .. n - 1, Occupied(w, bt[m])
          PROVE  w[bt[m]].key # j
      <4>1. m \in 0 .. NSlots
        OBVIOUS
      <4>2. CASE bt[m] = f
        BY <1>7, <1>8, <4>2
      <4>3. CASE bt[m] = at[m] /\ Occupied(t, at[m])
        <5>1. t[at[m]].key # j
          BY <3>1, <4>3 DEF FirstHit
        <5> QED
          BY <1>7, <2>3, <4>1, <4>3, <5>1
      <4> QED
        BY <2>2, <3>4, <4>1, <4>2, <4>3
    <3>5. FirstHit(w, j, bt, n)
      BY <3>3, <3>4 DEF FirstHit
    <3>6. get_mapping_entry(w, j) = bt[n]
      BY <1>2, <2>1, <3>5, LookupIs
    <3> QED
      BY <3>1, <3>2, <3>6
  <2> QED
    BY <2>4, <2>5
<1>9. get_mapping_entry(w, k) = f
  <2>1. PICK at, bt : at = Walk(t, get_hash_slot(k)) /\ bt = Walk(w, get_hash_slot(k))
    OBVIOUS
  <2>2. \A n \in 0 .. NSlots :
            /\ Occupied(t, at[n]) => bt[n] = at[n]
            /\ Occupied(w, bt[n]) => bt[n] = f \/ (bt[n] = at[n] /\ Occupied(t, at[n]))
    BY <1>6, <2>1
  <2>3. /\ at \in [0 .. NSlots -> Links] /\ at[0] = h
        /\ \A n \in 0 .. NSlots - 1 :
              at[n + 1] = IF Occupied(t, at[n]) THEN t[at[n]].next_slot ELSE -1
    BY <1>0, <1>4, <2>1, WalkOf
  <2>4. /\ bt \in [0 .. NSlots -> Links] /\ bt[0] = h
        /\ \A n \in 0 .. NSlots - 1 :
              bt[n + 1] = IF Occupied(w, bt[n]) THEN w[bt[n]].next_slot ELSE -1
    BY <1>2, <1>4, <2>1, WalkOf
  <2>5. \A n \in 0 .. NSlots : Occupied(t, at[n]) => t[at[n]].key # k
    BY <1>0, <2>1, LookupIs
  <2>6. CASE p = -1
    <3>1. bt[0] = f
      BY <1>3, <1>4, <2>4, <2>6, SlotFacts DEF Occupied
    <3>2. FirstHit(w, k, bt, 0) /\ 0 \in 0 .. NSlots
      BY <1>7, <3>1 DEF FirstHit
    <3> QED
      BY <1>2, <2>1, <3>1, <3>2, LookupIs
  <2>7. CASE p # -1
    <3>1. Occupied(t, h) /\ p = Tail_slot(t, h)
      BY <1>3, <1>4, <2>7
    <3>2. PICK m \in 0 .. NSlots - 1 : at[m] = p /\ Occupied(t, at[m])
      BY <1>4, <2>1, <3>1, TailIs
    <3>3. m \in 0 .. NSlots /\ m + 1 \in 0 .. NSlots
      OBVIOUS
    <3>4. bt[m] = p /\ Occupied(w, p) /\ p \in Slots /\ p # f
      BY <1>7, <2>2, <2>7, <3>2, <3>3, SlotFacts
    <3>5. bt[m + 1] = f
      <4>1. w[p].next_slot = f
        BY <1>3, <3>4 DEF Added
      <4> QED
        BY <2>4, <3>4, <4>1
    <3>6. ASSUME NEW i \in 0 .. m
          PROVE  Occupied(w, bt[i]) => w[bt[i]].key # k
      <4>1. i \in 0 .. NSlots
        OBVIOUS
      <4>2. h \in Links
        BY SlotFacts
      <4>3. Occupied(t, at[i])
        BY <1>0, <1>4, <2>1, <3>2, <3>3, <4>2, OccupiedBefore
      <4>4. bt[i] = at[i] /\ at[i] \in Links
        BY <2>2, <2>3, <4>1, <4>3
      <4>5. t[at[i]].key # k
        BY <2>5, <4>1, <4>3
      <4> QED
        BY <1>7, <4>3, <4>4, <4>5
    <3>7. FirstHit(w, k, bt, m + 1)
      <4>1. \A i \in 0 .. (m + 1) - 1 : i \in 0 .. m
        OBVIOUS
      <4> QED
        BY <1>7, <3>5, <3>6, <4>1 DEF FirstHit
    <3> QED
      BY <1>2, <2>1, <3>3, <3>5, <3>7, LookupIs
  <2> QED
    BY <2>6, <2>7
<1> QED
    BY <1>1, <1>3, <1>8, <1>9

-----------------------------------------------------------------------------
(* Cells and areas. *)

\* Products are monotone, and a quotient times the divisor is no more than
\* the number.
LEMMA Times ==
    /\ \A a, b, d \in Nat : a <= b => a * d <= b * d
    /\ \A a, d \in Nat : a * d \in Nat /\ (a + 1) * d = a * d + d
    /\ \A n \in Nat : \A d \in Nat \ {0} : n \div d \in Nat /\ (n \div d) * d <= n
<1>1. ASSUME NEW a \in Nat, NEW b \in Nat, NEW d \in Nat, a <= b
      PROVE  a * d <= b * d
  <2>1. PICK c \in Nat : b = a + c
    <3>1. b - a \in Nat /\ b = a + (b - a)
      BY <1>1
    <3> QED
      BY <3>1
  <2>2. (a + c) * d = a * d + c * d
    OBVIOUS
  <2>3. a * d \in Nat /\ c * d \in Nat
    OBVIOUS
  <2> QED
    BY <2>1, <2>2, <2>3
<1>2. \A a, d \in Nat : a * d \in Nat /\ (a + 1) * d = a * d + d
    OBVIOUS
<1>3. \A n \in Nat : \A d \in Nat \ {0} : n \div d \in Nat /\ (n \div d) * d <= n
    OBVIOUS
<1> QED
    BY <1>1, <1>2, <1>3

\* Where cells are reserved: region [o, o + n) is reserved in allocator a.
Reserved(a, o, n) ==
    IF a.kind = "bitmap"
    THEN \/ o + n <= a.small.last * SmallLength
         \/ DevSize \div 2 <= o /\ o + n <= DevSize \div 2 + a.large.last * LargeLength
    ELSE o + n <= a.latest

Nbits(c)  == IF c = "small" THEN small_nbits ELSE large_nbits
Unit(c)   == IF c = "small" THEN SmallLength ELSE LargeLength
ClassOf(len) == IF len <= SmallLength THEN "small" ELSE "large"

\* Nothing is ever given back, so the bits taken are the first ones.
FirstBits(a) ==
    a.kind = "bitmap" =>
        \A c \in {"small", "large"} : a[c].bits = 0 .. a[c].last - 1 /\ a[c].last <= Nbits(c)

\* The units of both areas lie in their halves of the device.
LEMMA Halves ==
    ASSUME NEW n \in Nat
    PROVE  /\ n <= small_nbits => n * SmallLength <= DevSize \div 2
           /\ n <= large_nbits => n * LargeLength <= DevSize \div 2
           /\ DevSize \div 2 + DevSize \div 2 <= DevSize
           /\ n * SmallLength \in Nat /\ n * LargeLength \in Nat
           /\ (n + 1) * SmallLength = n * SmallLength + SmallLength
           /\ (n + 1) * LargeLength = n * LargeLength + LargeLength
<1>1. /\ DevSize \div 2 \in Nat /\ DevSize \in Nat
      /\ SmallLength \in Nat \ {0} /\ LargeLength \in Nat \ {0}
      /\ small_nbits \in Nat /\ large_nbits \in Nat
    BY KvAssumption, SizeFacts
<1>2. small_nbits * SmallLength <= DevSize \div 2
    BY <1>1, Times DEF small_nbits
<1>3. large_nbits * LargeLength <= DevSize \div 2
    BY <1>1, Times DEF large_nbits
<1>4. DevSize \div 2 + DevSize \div 2 <= DevSize
    BY <1>1
<1>5. n * SmallLength \in Nat /\ n * LargeLength \in Nat
    BY <1>1, Times
<1>6. n <= small_nbits => n * SmallLength <= small_nbits * SmallLength
    BY <1>1, Times
<1>7. n <= large_nbits => n * LargeLength <= large_nbits * LargeLength
    BY <1>1, Times
<1>8. small_nbits * SmallLength \in Nat /\ large_nbits * LargeLength \in Nat
    BY <1>1, Times
<1>9. /\ (n + 1) * SmallLength = n * SmallLength + SmallLength
      /\ (n + 1) * LargeLength = n * LargeLength + LargeLength
    BY <1>1, Times
<1> QED
    BY <1>1, <1>2, <1>3, <1>4, <1>5, <1>6, <1>7, <1>8, <1>9

\* What an allocation by the bitmap does while there is room.
LEMMA BitmapTakes ==
    ASSUME NEW a \in Allocs, a.kind = "bitmap", FirstBits(a), NEW len \in 1 .. LargeLength,
           NEW c, c = ClassOf(len), a[c].last < Nbits(c)
    PROVE  LET r == allocate_mem_offset(a, len)
           IN  /\ r.got = Unit(c) /\ r.to.kind = "bitmap" /\ r.to \in Allocs
               /\ r.off = a[c].last * Unit(c) + IF c = "small" THEN 0 ELSE DevSize \div 2
               /\ r.to[c].last = a[c].last + 1 /\ r.to[c].bits = 0 .. a[c].last
               /\ \A d \in {"small", "large"} : d # c => r.to[d] = a[d]
<1> USE KvAssumption
<1>1. /\ LargeLength \in Nat /\ SmallLength \in Nat /\ len \in Nat
      /\ small_nbits \in Nat /\ large_nbits \in Nat /\ DevSize \div 2 \in Nat
    BY SizeFacts
<1>2. c \in {"small", "large"}
    BY DEF ClassOf
<1>3. PICK area : area = AreaOf(len)
    OBVIOUS
<1>4. /\ area.name = c /\ area.nbits = Nbits(c) /\ area.unit = Unit(c)
      /\ area.base = IF c = "small" THEN 0 ELSE DevSize \div 2
    BY <1>1, <1>3 DEF AreaOf, ClassOf, Nbits, Unit
<1>5. a[c] \in Areas /\ a[c].bits = 0 .. a[c].last - 1 /\ a[c].last \in Nat /\ Nbits(c) \in Nat
      /\ Unit(c) \in Nat
    BY <1>1, <1>2 DEF Allocs, Areas, FirstBits, Nbits, Unit
<1>6. PICK n \in Nat, N \in Nat : n = a[c].last /\ N = Nbits(c) /\ n < N
    BY <1>5
<1>7. bitmap_find_next_zero_area(a[c].bits, N, n) = n
  <2> DEFINE zero == {b \in n .. N - 1 : b \notin a[c].bits}
  <2>1. zero \in SUBSET (0 .. N) /\ n \in zero /\ \A b \in zero : n <= b
    BY <1>5, <1>6
  <2>2. Min(zero) \in zero /\ \A x \in zero : Min(zero) <= x
    <3> HIDE DEF zero
    <3> QED
      BY <2>1, MinMax
  <2>3. Min(zero) = n
    <3>1. Min(zero) \in 0 .. N
      <4> HIDE DEF zero
      <4> QED
        BY <2>1, <2>2
    <3>2. Min(zero) <= n /\ n <= Min(zero)
      <4> HIDE DEF zero
      <4> QED
        BY <2>1, <2>2
    <3> HIDE DEF zero
    <3> QED
      BY <3>1, <3>2
  <2>4. bitmap_find_next_zero_area(a[c].bits, N, n) = IF zero = {} THEN N + 1 ELSE Min(zero)
    BY DEF bitmap_find_next_zero_area
  <2>5. zero # {}
    BY <2>1
  <2> HIDE DEF zero
  <2> QED
    BY <2>3, <2>4, <2>5
<1>8. PICK next : next = IF n + 1 > N THEN 0 ELSE n + 1
    OBVIOUS
<1>9. next = n + 1
    BY <1>6, <1>8
<1>10. PICK x : x = [bits |-> a[c].bits \cup {n}, last |-> next]
    OBVIOUS
<1>11. allocate_mem_offset(a, len) =
            [off |-> area.base + n * area.unit, to |-> [a EXCEPT ![c] = x], got |-> area.unit]
  <2>1. bitmap_allocate(a, len) =
            [off |-> area.base + n * area.unit, to |-> [a EXCEPT ![c] = x], got |-> area.unit]
    BY <1>3, <1>4, <1>6, <1>7, <1>8, <1>10 DEF bitmap_allocate
  <2> QED
    BY <2>1 DEF allocate_mem_offset
<1>12. a[c].bits \cup {n} = 0 .. n
    BY <1>5, <1>6
<1>13. x.last = n + 1 /\ x.bits = 0 .. n /\ x \in Areas
    BY <1>9, <1>10, <1>12 DEF Areas
<1>14. PICK to : to = [a EXCEPT ![c] = x]
    OBVIOUS
<1>15. to \in Allocs /\ to.kind = "bitmap" /\ to[c] = x /\ \A d \in {"small", "large"} : d # c => to[d] = a[d]
  <2>1. CASE c = "small"
    BY <1>13, <1>14, <2>1 DEF Allocs
  <2>2. CASE c = "large"
    BY <1>13, <1>14, <2>2 DEF Allocs
  <2> QED
    BY <1>2, <2>1, <2>2
<1>16. n * Unit(c) \in Nat
    BY <1>5, <1>6, Times
<1> HIDE KvAssumption
<1>17. area.base + n * area.unit = a[c].last * Unit(c) + IF c = "small" THEN 0 ELSE DevSize \div 2
    BY <1>1, <1>4, <1>6, <1>16
<1> QED
    BY <1>4, <1>6, <1>11, <1>13, <1>14, <1>15, <1>17

\* What an allocation takes was not reserved before, and is now; for the
\* bitmap it lies on the device.
LEMMA AllocTakes ==
    ASSUME NEW a \in Allocs, FirstBits(a), NEW len \in 1 .. LargeLength,
           a.kind = "bitmap" => a[ClassOf(len)].last < Nbits(ClassOf(len)),
           NEW r, r = allocate_mem_offset(a, len)
    PROVE  /\ r.off \in Nat /\ r.got \in Nat /\ len <= r.got /\ r.got <= Unit(ClassOf(len))
           /\ r.to \in Allocs /\ FirstBits(r.to) /\ r.to.kind = a.kind
           /\ a.kind = "bitmap" =>
                /\ r.off + r.got <= DevSize
                /\ \A c \in {"small", "large"} :
                        r.to[c].last = IF c = ClassOf(len) THEN a[c].last + 1 ELSE a[c].last
           /\ a.kind # "bitmap" => r.to.latest = a.latest + len /\ r.got = len
           /\ Reserved(r.to, r.off, r.got)
           /\ \A o, n \in Nat : Reserved(a, o, n) =>
                Reserved(r.to, o, n) /\ (o + n <= r.off \/ r.off + r.got <= o)
<1>0. /\ LargeLength \in Nat /\ SmallLength \in Nat /\ len \in Nat /\ SmallLength <= LargeLength
      /\ small_nbits \in Nat /\ large_nbits \in Nat /\ DevSize \div 2 \in Nat /\ DevSize \in Nat
    BY KvAssumption, SizeFacts
<1>1. CASE a.kind = "bitmap"
  <2>1. PICK c \in {"small", "large"} : c = ClassOf(len)
    BY DEF ClassOf
  <2>2. PICK ls \in Nat, ll \in Nat : ls = a.small.last /\ ll = a.large.last
    BY DEF Allocs, Areas
  <2>3. ls <= small_nbits /\ ll <= large_nbits
    BY <1>1, <2>2 DEF FirstBits, Nbits
  <2>4. a[c].last < Nbits(c)
    BY <1>1, <2>1
  <2>5. /\ r.got = Unit(c) /\ r.to.kind = "bitmap" /\ r.to \in Allocs
        /\ r.off = a[c].last * Unit(c) + IF c = "small" THEN 0 ELSE DevSize \div 2
        /\ r.to[c].last = a[c].last + 1 /\ r.to[c].bits = 0 .. a[c].last
        /\ \A d \in {"small", "large"} : d # c => r.to[d] = a[d]
    BY <1>1, <2>1, <2>4, BitmapTakes
  <2>6. a[c].last \in Nat /\ Nbits(c) \in Nat
    BY <1>0, <2>2 DEF Nbits
  <2>7. FirstBits(r.to)
    <3>1. ASSUME NEW d \in {"small", "large"}
          PROVE  r.to[d].bits = 0 .. r.to[d].last - 1 /\ r.to[d].last <= Nbits(d)
      <4>1. CASE d = c
        <5>1. r.to[d].last - 1 = a[c].last
          BY <2>5, <2>6, <4>1
        <5> QED
          BY <2>4, <2>5, <2>6, <4>1, <5>1
      <4>2. CASE d # c
        BY <1>1, <2>5, <4>2 DEF FirstBits
      <4> QED
        BY <4>1, <4>2
    <3> QED
      BY <3>1 DEF FirstBits
  <2>8. len <= Unit(c)
    BY <1>0, <2>1 DEF ClassOf, Unit
  <2>9. CASE c = "small"
    <3>1. /\ r.off = ls * SmallLength /\ r.got = SmallLength
          /\ r.to.small.last = ls + 1 /\ r.to.large.last = ll
      BY <1>0, <2>2, <2>5, <2>9, Times DEF Unit
    <3>2. /\ ls + 1 <= small_nbits
      BY <1>0, <2>2, <2>4, <2>9 DEF Nbits
    <3>3. /\ (ls + 1) * SmallLength <= DevSize \div 2 /\ (ls + 1) * SmallLength = ls * SmallLength + SmallLength
          /\ ls * SmallLength \in Nat /\ ll * LargeLength \in Nat /\ DevSize \div 2 + DevSize \div 2 <= DevSize
      <4>1. ls + 1 \in Nat
        OBVIOUS
      <4>2. (ls + 1) * SmallLength <= DevSize \div 2
        BY <3>2, <4>1, Halves
      <4> QED
        BY <4>2, Halves
    <3>4. PICK x \in Nat, y \in Nat, h \in Nat : x = ls * SmallLength /\ y = ll * LargeLength /\ h = DevSize \div 2
      BY <1>0, <3>3
    <3>5. x + SmallLength <= h /\ h + h <= DevSize
      BY <3>3, <3>4
    <3>6. /\ \A o, n : Reserved(a, o, n) <=> o + n <= x \/ (h <= o /\ o + n <= h + y)
          /\ \A o, n : Reserved(r.to, o, n) <=> o + n <= x + SmallLength \/ (h <= o /\ o + n <= h + y)
      BY <1>1, <2>2, <2>5, <3>1, <3>3, <3>4 DEF Reserved
    <3>7. \A o, n \in Nat : Reserved(a, o, n) =>
                Reserved(r.to, o, n) /\ (o + n <= r.off \/ r.off + r.got <= o)
      BY <1>0, <3>1, <3>4, <3>5, <3>6
    <3>8. r.off + r.got <= DevSize /\ Reserved(r.to, r.off, r.got) /\ r.off \in Nat /\ r.got \in Nat
      BY <1>0, <3>1, <3>4, <3>5, <3>6
    <3>9. \A d \in {"small", "large"} :
                        r.to[d].last = IF d = ClassOf(len) THEN a[d].last + 1 ELSE a[d].last
      BY <2>1, <2>5
    <3>10. r.got <= Unit(ClassOf(len))
      BY <1>0, <2>1, <2>5, <3>8
    <3> QED
      BY <1>1, <2>5, <2>7, <2>8, <3>7, <3>8, <3>9, <3>10
  <2>10. CASE c = "large"
    <3>1. /\ r.off = ll * LargeLength + DevSize \div 2 /\ r.got = LargeLength
          /\ r.to.large.last = ll + 1 /\ r.to.small.last = ls
      BY <1>0, <2>2, <2>5, <2>10, Times DEF Unit
    <3>2. /\ ll + 1 <= large_nbits
      BY <1>0, <2>2, <2>4, <2>10 DEF Nbits
    <3>3. /\ (ll + 1) * LargeLength <= DevSize \div 2 /\ (ll + 1) * LargeLength = ll * LargeLength + LargeLength
          /\ ls * SmallLength \in Nat /\ ll * LargeLength \in Nat /\ DevSize \div 2 + DevSize \div 2 <= DevSize
          /\ ls * SmallLength <= DevSize \div 2
      <4>1. ll + 1 \in Nat
        OBVIOUS
      <4>2. (ll + 1) * LargeLength <= DevSize \div 2
        BY <3>2, <4>1, Halves
      <4> QED
        BY <2>3, <4>2, Halves
    <3>4. PICK x \in Nat, y \in Nat, h \in Nat : x = ls * SmallLength /\ y = ll * LargeLength /\ h = DevSize \div 2
      BY <1>0, <3>3
    <3>5. x <= h /\ y + LargeLength <= h /\ h + h <= DevSize
      BY <3>3, <3>4
    <3>6. /\ \A o, n : Reserved(a, o, n) <=> o + n <= x \/ (h <= o /\ o + n <= h + y)
          /\ \A o, n : Reserved(r.to, o, n) <=> o + n <= x \/ (h <= o /\ o + n <= h + (y + LargeLength))
      BY <1>1, <2>2, <2>5, <3>1, <3>3, <3>4 DEF Reserved
    <3>7. \A o, n \in Nat : Reserved(a, o, n) =>
                Reserved(r.to, o, n) /\ (o + n <= r.off \/ r.off + r.got <= o)
      BY <1>0, <3>1, <3>4, <3>5, <3>6
    <3>8. r.off + r.got <= DevSize /\ Reserved(r.to, r.off, r.got) /\ r.off \in Nat /\ r.got \in Nat
      BY <1>0, <3>1, <3>4, <3>5, <3>6
    <3>9. \A d \in {"small", "large"} :
                        r.to[d].last = IF d = ClassOf(len) THEN a[d].last + 1 ELSE a[d].last
      BY <2>1, <2>5
    <3>10. r.got <= Unit(ClassOf(len))
      BY <1>0, <2>1, <2>5, <3>8
    <3> QED
      BY <1>1, <2>5, <2>7, <2>8, <3>7, <3>8, <3>9, <3>10
  <2> QED
    BY <2>9, <2>10
<1>2. CASE a.kind # "bitmap"
  <2>1. r = [off |-> a.latest, to |-> [a EXCEPT !.latest = a.latest + len], got |-> len]
    BY <1>2 DEF allocate_mem_offset, append_only_allocate
  <2>2. PICK m \in Nat : m = a.latest
    BY DEF Allocs
  <2>3. PICK to : to = [a EXCEPT !.latest = m + len]
    OBVIOUS
  <2>4. to \in Allocs /\ to.latest = m + len /\ to.kind = a.kind
    BY <1>0, <2>2, <2>3 DEF Allocs
  <2>5. r.off = m /\ r.got = len /\ r.to = to
    BY <2>1, <2>2, <2>3
  <2>6. len <= Unit(ClassOf(len))
    BY <1>0 DEF Unit, ClassOf
  <2>7. /\ \A o, n : Reserved(a, o, n) <=> o + n <= m
        /\ \A o, n : Reserved(to, o, n) <=> o + n <= m + len
    BY <1>2, <2>2, <2>4 DEF Reserved
  <2>8. \A o, n \in Nat : Reserved(a, o, n) => Reserved(to, o, n) /\ o + n <= m
    BY <1>0, <2>7
  <2>9. Reserved(to, m, len) /\ FirstBits(to)
    BY <1>2, <2>4, <2>7 DEF FirstBits
  <2> QED
    BY <1>0, <1>2, <2>2, <2>4, <2>5, <2>6, <2>8, <2>9
<1> QED
    BY <1>1, <1>2

-----------------------------------------------------------------------------
(* The storage. *)

CellsOrNone == Cells \cup {Absent}
Storage == [1 .. DevSize -> CellsOrNone]

\* A value as a command carries it.
IsValue(v) == Len(v) \in 1 .. LargeLength /\ v \in [1 .. Len(v) -> Cells]

\* A function on 1 .. n is a sequence of length n, and its prefixes are.
LEMMA Prefix ==
    ASSUME NEW S, NEW n \in Nat, NEW q \in [1 .. n -> S]
    PROVE  /\ Len(q) = n
           /\ \A i \in 0 .. n : SubSeq(q, 1, i) = [j \in 1 .. i |-> q[j]]
<1>1. q \in Seq(S) /\ Len(q) = n
  <2>1. q \in Seq(S)
    OBVIOUS
  <2>2. DOMAIN q = 1 .. Len(q) /\ Len(q) \in Nat
    BY <2>1, LenProperties
  <2>3. DOMAIN q = 1 .. n
    OBVIOUS
  <2> QED
    BY <2>1, <2>2, <2>3
<1>2. ASSUME NEW i \in 0 .. n
      PROVE  SubSeq(q, 1, i) = [j \in 1 .. i |-> q[j]]
  <2>1. PICK p : p = SubSeq(q, 1, i)
    OBVIOUS
  <2>2. \A j \in 1 .. i : q[j] \in S
    OBVIOUS
  <2>3. /\ p \in Seq(S)
        /\ Len(p) = IF 1 <= i THEN i - 1 + 1 ELSE 0
        /\ \A j \in 1 .. i - 1 + 1 : p[j] = q[1 + j - 1]
    BY <2>1, <2>2, SubSeqProperties
  <2>4. Len(p) = i /\ \A j \in 1 .. i : p[j] = q[j]
    BY <2>3
  <2>5. p \in [1 .. i -> S]
    BY <2>3, <2>4, LenProperties
  <2> QED
    BY <2>1, <2>4, <2>5
<1> QED
    BY <1>1, <1>2

\* Every value that is stored is a sequence of cells.
LEMMA ValueOk ==
    ASSUME NEW b \in Bounds, NEW v \in b.vals
    PROVE  IsValue(v)
<1>1. Len(v) \in 1 .. LargeLength
    BY KvAssumption
<1>2. v = [i \in 1 .. Len(v) |-> v[i]]
    BY CellAssumption
<1>3. DOMAIN v = 1 .. Len(v)
    BY <1>2
<1>4. ASSUME NEW i \in DOMAIN v
      PROVE  v[i] \in Cells
  <2>1. v[i] \in {v[j] : j \in DOMAIN v}
    OBVIOUS
  <2>2. v[i] \in UNION {{w[j] : j \in DOMAIN w} : w \in b.vals}
    BY <2>1
  <2> QED
    BY <2>2 DEF Cells
<1> QED
    BY <1>1, <1>2, <1>3, <1>4 DEF IsValue

\* What is read is a sequence of cells, and not Absent.
LEMMA ReadIs ==
    ASSUME NEW m \in Storage, NEW o \in Nat, NEW n \in 1 .. LargeLength, o + n <= DevSize
    PROVE  /\ ReadCells(m, o, n) \in [1 .. n -> CellsOrNone]
           /\ Len(ReadCells(m, o, n)) = n
           /\ \A i \in 1 .. n : ReadCells(m, o, n)[i] = m[o + i]
           /\ ReadCells(m, o, n) # Absent
           /\ \A i \in 0 .. n : SubSeq(ReadCells(m, o, n), 1, i) = ReadCells(m, o, i)
<1>0. LargeLength \in Nat /\ DevSize \in Nat /\ n \in Nat
    BY KvAssumption
<1>1. \A i \in 1 .. n : m[o + i] \in CellsOrNone
    BY <1>0 DEF Storage
<1>2. PICK q : q = ReadCells(m, o, n)
    OBVIOUS
<1>3. q \in [1 .. n -> CellsOrNone] /\ \A i \in 1 .. n : q[i] = m[o + i]
    BY <1>1, <1>2 DEF ReadCells
<1>4. Len(q) = n /\ \A i \in 0 .. n : SubSeq(q, 1, i) = [j \in 1 .. i |-> q[j]]
    BY <1>0, <1>3, Prefix
<1>5. q # Absent
    BY <1>3, CellAssumption DEF CellsOrNone
<1>6. ASSUME NEW i \in 0 .. n
      PROVE  SubSeq(q, 1, i) = ReadCells(m, o, i)
  <2>1. \A j \in 1 .. i : q[j] = m[o + j]
    BY <1>0, <1>3
  <2> QED
    BY <1>4, <2>1 DEF ReadCells
<1> QED
    BY <1>2, <1>3, <1>4, <1>5, <1>6

\* What a copy leaves alone, and what is read where it went.
LEMMA WriteIs ==
    ASSUME NEW m \in Storage, NEW off \in Nat, NEW v, IsValue(v), off + Len(v) <= DevSize,
           NEW w, w = WriteCells(m, off, v)
    PROVE  /\ w \in Storage
           /\ \A o, n \in Nat : o + n <= DevSize /\ (o + n <= off \/ off + Len(v) <= o)
                => ReadCells(w, o, n) = ReadCells(m, o, n)
           /\ \A n \in Nat : off + n <= DevSize
                => ReadCells(w, off, n) = [i \in 1 .. n |-> IF i <= Len(v) THEN v[i] ELSE m[off + i]]
<1>0. LargeLength \in Nat /\ DevSize \in Nat /\ Len(v) \in Nat /\ v \in [1 .. Len(v) -> Cells]
    BY KvAssumption DEF IsValue
<1>1. PICK l \in Nat : l = Len(v)
    BY <1>0
<1>2. \A c \in 1 .. DevSize : w[c] = IF c - off \in 1 .. l THEN v[c - off] ELSE m[c]
    BY <1>1 DEF WriteCells, Storage
<1>3. DOMAIN w = 1 .. DevSize /\ w = [c \in 1 .. DevSize |-> w[c]]
    BY DEF WriteCells, Storage
<1>4. w \in Storage
  <2>1. ASSUME NEW c \in 1 .. DevSize
        PROVE  w[c] \in CellsOrNone
    <3>1. CASE c - off \in 1 .. l
      <4>1. v[c - off] \in Cells
        BY <1>0, <1>1, <3>1
      <4> QED
        BY <1>2, <3>1, <4>1 DEF CellsOrNone
    <3>2. CASE c - off \notin 1 .. l
      BY <1>2, <3>2 DEF Storage
    <3> QED
      BY <3>1, <3>2
  <2> QED
    BY <1>3, <2>1 DEF Storage
<1>5. ASSUME NEW o \in Nat, NEW n \in Nat, o + n <= DevSize, o + n <= off \/ off + l <= o
      PROVE  ReadCells(w, o, n) = ReadCells(m, o, n)
  <2>1. ASSUME NEW i \in 1 .. n
        PROVE  w[o + i] = m[o + i]
    <3>1. o + i \in 1 .. DevSize /\ (o + i) - off \notin 1 .. l
      BY <1>0, <1>5
    <3> QED
      BY <1>2, <3>1
  <2> QED
    BY <2>1 DEF ReadCells
<1>6. ASSUME NEW n \in Nat, off + n <= DevSize
      PROVE  ReadCells(w, off, n) = [i \in 1 .. n |-> IF i <= l THEN v[i] ELSE m[off + i]]
  <2>1. ASSUME NEW i \in 1 .. n
        PROVE  w[off + i] = IF i <= l THEN v[i] ELSE m[off + i]
    <3>1. off + i \in 1 .. DevSize /\ (off + i) - off = i /\ (i \in 1 .. l <=> i <= l)
      BY <1>0, <1>6
    <3>2. w[off + i] = IF (off + i) - off \in 1 .. l THEN v[(off + i) - off] ELSE m[off + i]
      BY <1>2, <3>1
    <3> QED
      BY <3>1, <3>2
  <2> QED
    BY <2>1 DEF ReadCells
<1> QED
    BY <1>1, <1>4, <1>5, <1>6

-----------------------------------------------------------------------------
(* The invariant that the refinement needs. *)

FoundIn(t, k)  == get_mapping_entry(t, k) # -1
OffsetOf(t, k) == t[get_mapping_entry(t, k)].mem_offset
LengthOf(t, k) == t[get_mapping_entry(t, k)].length

\* The extent of a key that is found lies on the device and is reserved, and
\* holds its value; two extents have no cell in common.
Extents(t, a, e) ==
    /\ \A k \in Keys : FoundIn(t, k) =>
        /\ LengthOf(t, k) \in 1 .. e[k] /\ LengthOf(t, k) <= LargeLength
        /\ OffsetOf(t, k) \in Nat /\ OffsetOf(t, k) + e[k] <= DevSize
        /\ Reserved(a, OffsetOf(t, k), e[k])
    /\ \A j, k \in Keys : j # k /\ FoundIn(t, j) /\ FoundIn(t, k) =>
        \/ OffsetOf(t, j) + e[j] <= OffsetOf(t, k)
        \/ OffsetOf(t, k) + e[k] <= OffsetOf(t, j)

\* Insertions so far of small and of large values.
TakenSmall(r) == small_nbits - r.small
TakenLarge(r) == large_nbits - r.large

Taken(t) == {s \in Slots : Occupied(t, s)}

\* As long as the room has not been exceeded, it says what is left: bits of
\* the bitmap, cells of the append-only allocator.
Accounts(a, r) ==
    /\ r.small \in Int /\ r.large \in Int /\ -1 <= r.small /\ -1 <= r.large
    /\ r.small <= small_nbits /\ r.large <= large_nbits
    /\ FirstBits(a)
    /\ a.kind = "bitmap" => a.small.last = TakenSmall(r) /\ a.large.last = TakenLarge(r)
    /\ r.small # -1 /\ r.large # -1 /\ a.kind # "bitmap" =>
        a.latest <= TakenSmall(r) * SmallLength + TakenLarge(r) * LargeLength

\* Nothing is promised any more after a misuse.
RInv ==
    /\ misused \in BOOLEAN
    /\ ~misused =>
        /\ fault = "none"
        /\ dict = [k \in Keys |-> Value(table, mem, k)]
        /\ mem \in Storage
        /\ extent \in [Keys -> Nat]
        /\ room = [small |-> room.small, large |-> room.large]
        /\ Extents(table, alloc, extent)
        /\ Accounts(alloc, room)

LEMMA Numbers ==
    /\ LargeLength \in Nat /\ SmallLength \in Nat /\ SmallLength <= LargeLength
    /\ small_nbits \in Nat /\ large_nbits \in Nat /\ DevSize \div 2 \in Nat /\ DevSize \in Nat
BY KvAssumption, SizeFacts

\* While the room has not been exceeded, there is space for a value.
LEMMA Space ==
    ASSUME NEW a \in Allocs, NEW r, Accounts(a, r), r.small # -1, r.large # -1,
           NEW len \in 1 .. LargeLength,
           IF ClassOf(len) = "small" THEN r.small >= 1 ELSE r.large >= 1,
           NEW x, x = allocate_mem_offset(a, len)
    PROVE  x.off + len <= DevSize
<1>0. PICK ts \in Nat, tl \in Nat :
        /\ ts = TakenSmall(r) /\ tl = TakenLarge(r) /\ ts <= small_nbits /\ tl <= large_nbits
        /\ IF ClassOf(len) = "small" THEN ts < small_nbits ELSE tl < large_nbits
        /\ a.kind = "bitmap" => a.small.last = ts /\ a.large.last = tl
        /\ a.kind # "bitmap" => a.latest <= ts * SmallLength + tl * LargeLength
  <2>1. TakenSmall(r) \in Nat /\ TakenLarge(r) \in Nat
    BY Numbers DEF Accounts, TakenSmall, TakenLarge
  <2>2. /\ TakenSmall(r) <= small_nbits /\ TakenLarge(r) <= large_nbits
        /\ IF ClassOf(len) = "small" THEN TakenSmall(r) < small_nbits ELSE TakenLarge(r) < large_nbits
    BY Numbers DEF Accounts, TakenSmall, TakenLarge
  <2> QED
    BY <2>1, <2>2 DEF Accounts
<1>2. CASE a.kind = "bitmap"
  <2>1. a[ClassOf(len)].last < Nbits(ClassOf(len))
    BY <1>0, <1>2 DEF ClassOf, Nbits
  <2>2. x.off + x.got <= DevSize /\ len <= x.got /\ x.off \in Nat /\ x.got \in Nat
    BY <1>2, <2>1, AllocTakes DEF Accounts
  <2> QED
    BY <2>2, Numbers
<1>3. CASE a.kind # "bitmap"
  <2>1. x.off = a.latest /\ a.latest \in Nat
    BY <1>3 DEF allocate_mem_offset, append_only_allocate, Allocs
  <2>2. /\ ts * SmallLength <= DevSize \div 2 /\ tl * LargeLength <= DevSize \div 2
        /\ ts * SmallLength \in Nat /\ tl * LargeLength \in Nat
        /\ DevSize \div 2 + DevSize \div 2 <= DevSize
    BY <1>0, Halves
  <2>3. CASE ClassOf(len) = "small"
    <3>1. ts + 1 \in Nat /\ ts + 1 <= small_nbits
      BY <1>0, <2>3, Numbers
    <3>2. (ts + 1) * SmallLength <= DevSize \div 2 /\ (ts + 1) * SmallLength = ts * SmallLength + SmallLength
      BY <3>1, Halves
    <3>3. len <= SmallLength
      BY <2>3 DEF ClassOf
    <3>4. PICK p \in Nat, q \in Nat : p = ts * SmallLength /\ q = tl * LargeLength
      BY <2>2
    <3>5. a.latest <= p + q
      BY <1>0, <1>3, <3>4
    <3> QED
      BY <2>1, <2>2, <3>2, <3>3, <3>4, <3>5, Numbers
  <2>4. CASE ClassOf(len) # "small"
    <3>1. tl + 1 \in Nat /\ tl + 1 <= large_nbits
      BY <1>0, <2>4, Numbers
    <3>2. (tl + 1) * LargeLength <= DevSize \div 2 /\ (tl + 1) * LargeLength = tl * LargeLength + LargeLength
      BY <3>1, Halves
    <3>3. len <= LargeLength
      BY Numbers
    <3>4. PICK p \in Nat, q \in Nat : p = ts * SmallLength /\ q = tl * LargeLength
      BY <2>2
    <3>5. a.latest <= p + q
      BY <1>0, <1>3, <3>4
    <3> QED
      BY <2>1, <2>2, <3>2, <3>3, <3>4, <3>5, Numbers
  <2> QED
    BY <2>3, <2>4
<1> QED
    BY <1>2, <1>3

\* An insertion is accounted for.
LEMMA AccountsInsert ==
    ASSUME NEW a \in Allocs, NEW r, Accounts(a, r),
           NEW len \in 1 .. LargeLength, NEW c, c = ClassOf(len),
           a.kind = "bitmap" => IF c = "small" THEN r.small > 0 ELSE r.large > 0,
           NEW x, x = allocate_mem_offset(a, len),
           NEW r2, r2.small = IF c = "small" THEN (IF r.small = -1 THEN -1 ELSE r.small - 1) ELSE r.small,
           r2.large = IF c = "large" THEN (IF r.large = -1 THEN -1 ELSE r.large - 1) ELSE r.large
    PROVE  Accounts(x.to, r2)
<1>0. /\ r.small \in Int /\ r.large \in Int /\ -1 <= r.small /\ -1 <= r.large
      /\ r.small <= small_nbits /\ r.large <= large_nbits
      /\ FirstBits(a) /\ c \in {"small", "large"}
    BY DEF Accounts, ClassOf
<1>1. /\ r2.small \in Int /\ r2.large \in Int /\ -1 <= r2.small /\ -1 <= r2.large
      /\ r2.small <= small_nbits /\ r2.large <= large_nbits
    BY <1>0, Numbers
<1>2. a.kind = "bitmap" => a[c].last < Nbits(c)
  <2> SUFFICES ASSUME a.kind = "bitmap"
               PROVE  a[c].last < Nbits(c)
    OBVIOUS
  <2>1. a.small.last = small_nbits - r.small /\ a.large.last = large_nbits - r.large
    BY DEF Accounts, TakenSmall, TakenLarge
  <2> QED
    BY <1>0, <2>1, Numbers DEF Nbits
<1>3. /\ FirstBits(x.to) /\ x.to.kind = a.kind
      /\ a.kind = "bitmap" => \A d \in {"small", "large"} :
            x.to[d].last = IF d = c THEN a[d].last + 1 ELSE a[d].last
      /\ a.kind # "bitmap" => x.to.latest = a.latest + len
    BY <1>0, <1>2, AllocTakes
<1>4. ASSUME x.to.kind = "bitmap"
      PROVE  x.to.small.last = TakenSmall(r2) /\ x.to.large.last = TakenLarge(r2)
  <2>1. a.small.last = small_nbits - r.small /\ a.large.last = large_nbits - r.large
    BY <1>3, <1>4 DEF Accounts, TakenSmall, TakenLarge
  <2>2. /\ x.to.small.last = IF c = "small" THEN a.small.last + 1 ELSE a.small.last
        /\ x.to.large.last = IF c = "large" THEN a.large.last + 1 ELSE a.large.last
    BY <1>3, <1>4
  <2>3. CASE c = "small"
    <3>1. r2.small = r.small - 1 /\ r2.large = r.large
      BY <1>0, <1>3, <1>4, <2>3
    <3> QED
      BY <1>0, <2>1, <2>2, <2>3, <3>1, Numbers DEF TakenSmall, TakenLarge
  <2>4. CASE c = "large"
    <3>1. r2.large = r.large - 1 /\ r2.small = r.small
      BY <1>0, <1>3, <1>4, <2>4
    <3> QED
      BY <1>0, <2>1, <2>2, <2>4, <3>1, Numbers DEF TakenSmall, TakenLarge
  <2> QED
    BY <1>0, <2>3, <2>4
<1>5. ASSUME r2.small # -1, r2.large # -1
      PROVE  x.to.kind # "bitmap" =>
                    x.to.latest <= TakenSmall(r2) * SmallLength + TakenLarge(r2) * LargeLength
  <2>1. r.small # -1 /\ r.large # -1
    BY <1>0, <1>5
  <2>2. PICK ts \in Nat, tl \in Nat : ts = TakenSmall(r) /\ tl = TakenLarge(r)
    BY <1>0, Numbers DEF TakenSmall, TakenLarge
  <2>3. a.kind # "bitmap" => a.latest <= ts * SmallLength + tl * LargeLength
    BY <2>1, <2>2 DEF Accounts
  <2>5. a.latest \in Nat
    BY DEF Allocs
  <2>6. ts * SmallLength \in Nat /\ tl * LargeLength \in Nat
    BY Halves
  <2>7. PICK p \in Nat, q \in Nat : p = ts * SmallLength /\ q = tl * LargeLength
    BY <2>6
  <2>8. CASE c = "small"
    <3>1. TakenSmall(r2) = ts + 1 /\ TakenLarge(r2) = tl
      BY <1>0, <2>1, <2>2, <2>8, Numbers DEF TakenSmall, TakenLarge
    <3>2. (ts + 1) * SmallLength = ts * SmallLength + SmallLength
      BY Halves
    <3>3. len <= SmallLength
      BY <2>8 DEF ClassOf
    <3>5. a.kind # "bitmap" => a.latest + len <= (p + SmallLength) + q
      BY <2>3, <2>5, <2>7, <3>3, Numbers
    <3> QED
      BY <1>3, <2>7, <3>1, <3>2, <3>5
  <2>9. CASE c = "large"
    <3>1. TakenLarge(r2) = tl + 1 /\ TakenSmall(r2) = ts
      BY <1>0, <2>1, <2>2, <2>9, Numbers DEF TakenSmall, TakenLarge
    <3>2. (tl + 1) * LargeLength = tl * LargeLength + LargeLength
      BY Halves
    <3>3. len <= LargeLength
      BY Numbers
    <3>5. a.kind # "bitmap" => a.latest + len <= p + (q + LargeLength)
      BY <2>3, <2>5, <2>7, <3>3, Numbers
    <3> QED
      BY <1>3, <2>7, <3>1, <3>2, <3>5
  <2> QED
    BY <1>0, <2>8, <2>9
<1> QED
    BY <1>1, <1>3, <1>4, <1>5 DEF Accounts

\* A key that is found is in an occupied slot.
LEMMA FoundSlot ==
    ASSUME NEW t \in [Slots -> Entries], NEW k \in Keys, FoundIn(t, k)
    PROVE  get_mapping_entry(t, k) \in Slots /\ Occupied(t, get_mapping_entry(t, k))
<1>1. PICK h \in Slots : h = get_hash_slot(k)
    BY HashSlot
<1> QED
    BY EntryFound DEF FoundIn

\* A new key gets an extent of its own, which holds its value, and the other
\* extents and values stay.
LEMMA ExtentsInsert ==
    ASSUME NEW t, Sound(t), ~TableFull(t), NEW m \in Storage, NEW a \in Allocs,
           NEW e \in [Keys -> Nat], Extents(t, a, e), FirstBits(a),
           NEW k \in Keys, ~FoundIn(t, k), NEW v, IsValue(v),
           a.kind = "bitmap" => a[ClassOf(Len(v))].last < Nbits(ClassOf(Len(v))),
           NEW x, x = allocate_mem_offset(a, Len(v)), x.off + Len(v) <= DevSize,
           NEW u, u = new_mapping_entry(t, k, x.off, Len(v)),
           NEW w, w = WriteCells(m, x.off, v),
           NEW e2, e2[k] = x.got, \A j \in Keys : j # k => e2[j] = e[j]
    PROVE  /\ Extents(u, x.to, e2)
           /\ Value(u, w, k) = v
           /\ \A j \in Keys : j # k => Value(u, w, j) = Value(t, m, j)
           /\ \E f \in Slots : ~Occupied(t, f) /\ Taken(u) = Taken(t) \cup {f}
<1>0. Len(v) \in 1 .. LargeLength /\ Len(v) \in Nat /\ v \in [1 .. Len(v) -> Cells] /\ DevSize \in Nat
    BY Numbers DEF IsValue
<1>1. PICK off \in Nat, got \in Nat, len \in Nat : off = x.off /\ got = x.got /\ len = Len(v) /\ len <= got
    BY <1>0, AllocTakes
<1>2. /\ off + len <= DevSize /\ off \in 0 .. DevSize /\ len \in 1 .. LargeLength
    BY <1>0, <1>1
<1>3. off + got <= DevSize
    BY <1>0, <1>1, <1>2, AllocTakes
<1>4. /\ Reserved(x.to, off, got)
      /\ \A o, n \in Nat : Reserved(a, o, n) =>
            Reserved(x.to, o, n) /\ (o + n <= off \/ off + got <= o)
    BY <1>0, <1>1, AllocTakes
<1>5. PICK f \in Slots, p \in Links :
        /\ Added(t, u, f, p, k, off, len)
        /\ get_mapping_entry(u, k) = f
        /\ \A j \in Keys : j # k => get_mapping_entry(u, j) = get_mapping_entry(t, j)
    BY <1>1, <1>2, InsertLookup DEF FoundIn
<1>6. t \in [Slots -> Entries]
    BY DEF Sound
<1>7. OffsetOf(u, k) = off /\ LengthOf(u, k) = len /\ FoundIn(u, k)
    BY <1>5, SlotFacts DEF Added, OffsetOf, LengthOf, FoundIn
<1>8. ASSUME NEW j \in Keys, j # k
      PROVE  /\ FoundIn(u, j) <=> FoundIn(t, j)
             /\ FoundIn(t, j) => OffsetOf(u, j) = OffsetOf(t, j) /\ LengthOf(u, j) = LengthOf(t, j)
  <2>1. get_mapping_entry(u, j) = get_mapping_entry(t, j)
    BY <1>5, <1>8
  <2>2. ASSUME FoundIn(t, j)
        PROVE  OffsetOf(u, j) = OffsetOf(t, j) /\ LengthOf(u, j) = LengthOf(t, j)
    <3>1. PICK s \in Slots : s = get_mapping_entry(t, j) /\ Occupied(t, s)
      BY <1>6, <2>2, FoundSlot
    <3>2. s # f /\ u[s].mem_offset = t[s].mem_offset /\ u[s].length = t[s].length
      BY <1>5, <3>1 DEF Added
    <3> QED
      BY <2>1, <3>1, <3>2 DEF OffsetOf, LengthOf
  <2> QED
    BY <2>1, <2>2 DEF FoundIn
<1>9. ASSUME NEW j \in Keys, j # k, FoundIn(u, j)
      PROVE  \E o \in Nat, n \in Nat, l \in 1 .. LargeLength :
                /\ o = OffsetOf(t, j) /\ n = e[j] /\ l = LengthOf(t, j) /\ l <= n
                /\ o = OffsetOf(u, j) /\ n = e2[j] /\ l = LengthOf(u, j)
                /\ o + n <= DevSize /\ Reserved(x.to, o, n)
                /\ o + n <= off \/ off + got <= o
                /\ FoundIn(t, j)
  <2>1. FoundIn(t, j) /\ OffsetOf(u, j) = OffsetOf(t, j) /\ LengthOf(u, j) = LengthOf(t, j)
    BY <1>8, <1>9
  <2>2. PICK o \in Nat, n \in Nat : o = OffsetOf(t, j) /\ n = e[j]
    BY <2>1 DEF Extents
  <2>3. LengthOf(t, j) \in 1 .. n /\ LengthOf(t, j) <= LargeLength /\ o + n <= DevSize /\ Reserved(a, o, n)
    BY <2>1, <2>2 DEF Extents
  <2>4. PICK l \in 1 .. LargeLength : l = LengthOf(t, j) /\ l <= n
    BY <2>3, Numbers
  <2>5. e2[j] = n
    BY <1>9, <2>2
  <2> QED
    BY <1>4, <2>1, <2>2, <2>3, <2>4, <2>5
<1>10. Extents(u, x.to, e2)
  <2>0. e2[k] = got
    BY <1>1
  <2>1. ASSUME NEW j \in Keys, FoundIn(u, j)
        PROVE  /\ LengthOf(u, j) \in 1 .. e2[j] /\ LengthOf(u, j) <= LargeLength
               /\ OffsetOf(u, j) \in Nat /\ OffsetOf(u, j) + e2[j] <= DevSize
               /\ Reserved(x.to, OffsetOf(u, j), e2[j])
    <3>1. CASE j = k
      <4>1. len \in 1 .. got /\ len <= LargeLength
        BY <1>1, <1>2, Numbers
      <4> QED
        BY <1>1, <1>3, <1>4, <1>7, <2>0, <3>1, <4>1
    <3>2. CASE j # k
      <4>1. PICK o \in Nat, n \in Nat, l \in 1 .. LargeLength :
                /\ l <= n
                /\ o = OffsetOf(u, j) /\ n = e2[j] /\ l = LengthOf(u, j)
                /\ o + n <= DevSize /\ Reserved(x.to, o, n)
        BY <1>9, <2>1, <3>2
      <4>2. l \in 1 .. n /\ l <= LargeLength
        BY <4>1, Numbers
      <4> QED
        BY <4>1, <4>2
    <3> QED
      BY <3>1, <3>2
  <2>2. ASSUME NEW i \in Keys, NEW j \in Keys, i # j, FoundIn(u, i), FoundIn(u, j)
        PROVE  \/ OffsetOf(u, i) + e2[i] <= OffsetOf(u, j)
               \/ OffsetOf(u, j) + e2[j] <= OffsetOf(u, i)
    <3>1. CASE i = k
      BY <1>7, <1>9, <2>0, <2>2, <3>1
    <3>2. CASE j = k
      BY <1>7, <1>9, <2>0, <2>2, <3>2
    <3>3. CASE i # k /\ j # k
      <4>1. FoundIn(t, i) /\ FoundIn(t, j) /\ OffsetOf(u, i) = OffsetOf(t, i) /\ OffsetOf(u, j) = OffsetOf(t, j)
        BY <1>8, <2>2, <3>3
      <4>2. e2[i] = e[i] /\ e2[j] = e[j]
        BY <3>3
      <4> QED
        BY <2>2, <4>1, <4>2 DEF Extents
    <3> QED
      BY <3>1, <3>2, <3>3
  <2> QED
    BY <2>1, <2>2 DEF Extents
<1>14. /\ \A o, n \in Nat : o + n <= DevSize /\ (o + n <= off \/ off + len <= o)
            => ReadCells(w, o, n) = ReadCells(m, o, n)
       /\ ReadCells(w, off, len) = [i \in 1 .. len |-> IF i <= len THEN v[i] ELSE m[off + i]]
  <2>1. PICK y : y = WriteCells(m, off, v)
    OBVIOUS
  <2>2. off + Len(v) <= DevSize /\ IsValue(v) /\ w = y
    BY <1>1, <1>2, <2>1
  <2>3. /\ \A o, n \in Nat : o + n <= DevSize /\ (o + n <= off \/ off + Len(v) <= o)
            => ReadCells(y, o, n) = ReadCells(m, o, n)
        /\ \A n \in Nat : off + n <= DevSize
            => ReadCells(y, off, n) = [i \in 1 .. n |-> IF i <= Len(v) THEN v[i] ELSE m[off + i]]
    BY <2>1, <2>2, WriteIs
  <2>4. ReadCells(y, off, len) = [i \in 1 .. len |-> IF i <= Len(v) THEN v[i] ELSE m[off + i]]
    BY <1>2, <2>3
  <2> QED
    BY <1>1, <2>2, <2>3, <2>4
<1>11. Value(u, w, k) = v
  <2>1. ReadCells(w, off, len) = [i \in 1 .. len |-> IF i <= len THEN v[i] ELSE m[off + i]]
    BY <1>14
  <2>2. ReadCells(w, off, len) = [i \in 1 .. len |-> v[i]]
    BY <1>1, <2>1
  <2>3. [i \in 1 .. len |-> v[i]] = v
    BY <1>0, <1>1
  <2> QED
    BY <1>7, <2>2, <2>3 DEF Value, FoundIn, OffsetOf, LengthOf
<1>12. ASSUME NEW j \in Keys, j # k
       PROVE  Value(u, w, j) = Value(t, m, j)
  <2>1. CASE ~FoundIn(u, j)
    BY <1>8, <1>12, <2>1 DEF Value, FoundIn
  <2>2. CASE FoundIn(u, j)
    <3>1. PICK o \in Nat, n \in Nat, l \in 1 .. LargeLength :
                /\ o = OffsetOf(t, j) /\ l = LengthOf(t, j) /\ l <= n
                /\ o = OffsetOf(u, j) /\ l = LengthOf(u, j)
                /\ o + n <= DevSize
                /\ o + n <= off \/ off + got <= o
                /\ FoundIn(t, j)
      BY <1>9, <1>12, <2>2
    <3>2. o + l <= DevSize /\ (o + l <= off \/ off + len <= o) /\ l \in Nat
      <4>1. l \in Nat
        BY Numbers
      <4>2. o + l <= o + n
        BY <3>1, <4>1
      <4>3. off + len <= off + got
        BY <1>1
      <4>4. o + l \in Nat /\ o + n \in Nat /\ off + len \in Nat /\ off + got \in Nat
        BY <4>1
      <4> QED
        BY <1>0, <3>1, <4>1, <4>2, <4>3, <4>4
    <3>3. ReadCells(w, o, l) = ReadCells(m, o, l)
      BY <1>14, <3>2
    <3> QED
      BY <2>2, <3>1, <3>3 DEF Value, FoundIn, OffsetOf, LengthOf
  <2> QED
    BY <2>1, <2>2
<1>13. ~Occupied(t, f) /\ Taken(u) = Taken(t) \cup {f}
    BY <1>5 DEF Added, Taken
<1> QED
    BY <1>10, <1>11, <1>12, <1>13

\* Value v copied over what was there, read in length n.
Copied(v, m, off, n) == [i \in 1 .. n |-> IF i <= Len(v) THEN v[i] ELSE m[off + i]]

\* The l cells from o on the device are apart from the len cells from off.
Apart(o, l, off, len) == o + l <= DevSize /\ (o + l <= off \/ off + len <= o)

\* Parts of extents that are apart.
LEMMA PartsApart ==
    ASSUME NEW o \in Nat, NEW n \in Nat, NEW off \in Nat, NEW ext \in Nat, Apart(o, n, off, ext),
           NEW l \in Nat, l <= n, NEW len \in Nat, len <= ext
    PROVE  Apart(o, l, off, len)
<1>1. DevSize \in Nat
    BY Numbers
<1> QED
    BY <1>1 DEF Apart

\* A new value within the extent of a key that is found, in length l2: the
\* other values stay.
LEMMA ExtentsOverwrite ==
    ASSUME NEW t \in [Slots -> Entries], NEW m \in Storage, NEW a \in Allocs,
           NEW e \in [Keys -> Nat], Extents(t, a, e),
           NEW k \in Keys, FoundIn(t, k), NEW s, s = get_mapping_entry(t, k),
           NEW v, IsValue(v), Len(v) <= e[k],
           NEW u \in [Slots -> Entries], \A r \in Slots : r # s => u[r] = t[r],
           u[s].mem_offset = t[s].mem_offset, u[s].key = t[s].key, u[s].next_slot = t[s].next_slot,
           u[s].length \in 1 .. e[k], u[s].length <= LargeLength,
           NEW w, w = WriteCells(m, t[s].mem_offset, v)
    PROVE  /\ w \in Storage
           /\ Extents(u, a, e)
           /\ Value(u, w, k) = Copied(v, m, t[s].mem_offset, u[s].length)
           /\ \A j \in Keys : j # k => Value(u, w, j) = Value(t, m, j)
           /\ Taken(u) = Taken(t)
<1>0. Len(v) \in 1 .. LargeLength /\ Len(v) \in Nat /\ v \in [1 .. Len(v) -> Cells] /\ DevSize \in Nat
    BY Numbers DEF IsValue
<1>1. PICK off \in Nat, ext \in Nat, len \in Nat :
        /\ off = OffsetOf(t, k) /\ ext = e[k] /\ len = Len(v) /\ len <= ext /\ off + ext <= DevSize
    BY <1>0 DEF Extents
<1>2. off = t[s].mem_offset /\ s \in Slots /\ Occupied(t, s)
    BY <1>1, FoundSlot DEF OffsetOf
<1>3. off + len <= DevSize
    BY <1>0, <1>1
<1>4. \A j \in Keys : get_mapping_entry(u, j) = get_mapping_entry(t, j)
  <2>1. \A r \in Slots : /\ u[r].mem_offset = t[r].mem_offset /\ u[r].key = t[r].key
                         /\ u[r].next_slot = t[r].next_slot
    OBVIOUS
  <2> QED
    BY <2>1, SameLookup
<1>5. /\ w \in Storage
      /\ \A o, n \in Nat : o + n <= DevSize /\ (o + n <= off \/ off + len <= o)
            => ReadCells(w, o, n) = ReadCells(m, o, n)
      /\ \A n \in Nat : off + n <= DevSize
            => ReadCells(w, off, n) = [i \in 1 .. n |-> IF i <= Len(v) THEN v[i] ELSE m[off + i]]
  <2>1. PICK y : y = WriteCells(m, off, v)
    OBVIOUS
  <2>2. off + Len(v) <= DevSize /\ IsValue(v) /\ w = y
    BY <1>1, <1>2, <1>3, <2>1
  <2>3. /\ y \in Storage
        /\ \A o, n \in Nat : o + n <= DevSize /\ (o + n <= off \/ off + Len(v) <= o)
            => ReadCells(y, o, n) = ReadCells(m, o, n)
        /\ \A n \in Nat : off + n <= DevSize
            => ReadCells(y, off, n) = [i \in 1 .. n |-> IF i <= Len(v) THEN v[i] ELSE m[off + i]]
    BY <2>1, <2>2, WriteIs
  <2> QED
    BY <1>1, <2>2, <2>3
<1>6. ASSUME NEW j \in Keys
      PROVE  /\ FoundIn(u, j) <=> FoundIn(t, j)
             /\ OffsetOf(u, j) = OffsetOf(t, j) \/ ~FoundIn(t, j)
             /\ j # k /\ FoundIn(t, j) => get_mapping_entry(t, j) # s /\ LengthOf(u, j) = LengthOf(t, j)
  <2>1. FoundIn(u, j) <=> FoundIn(t, j)
    BY <1>4 DEF FoundIn
  <2>2. ASSUME FoundIn(t, j)
        PROVE  OffsetOf(u, j) = OffsetOf(t, j)
    <3>1. PICK r \in Slots : r = get_mapping_entry(t, j)
      BY <2>2, FoundSlot
    <3>2. u[r].mem_offset = t[r].mem_offset
      OBVIOUS
    <3> QED
      BY <1>4, <3>1, <3>2 DEF OffsetOf
  <2>3. ASSUME FoundIn(t, j), j # k
        PROVE  get_mapping_entry(t, j) # s /\ LengthOf(u, j) = LengthOf(t, j)
    <3>1. PICK r \in Slots : r = get_mapping_entry(t, j) /\ t[r].key = j
      BY <2>3, EntryFound DEF FoundIn
    <3>2. t[s].key = k
      BY EntryFound DEF FoundIn
    <3>3. r # s
      BY <2>3, <3>1, <3>2
    <3> QED
      BY <1>4, <3>1, <3>3 DEF LengthOf
  <2> QED
    BY <2>1, <2>2, <2>3
<1>7. Extents(u, a, e)
  <2>1. ASSUME NEW j \in Keys, FoundIn(u, j)
        PROVE  /\ LengthOf(u, j) \in 1 .. e[j] /\ LengthOf(u, j) <= LargeLength
               /\ OffsetOf(u, j) \in Nat /\ OffsetOf(u, j) + e[j] <= DevSize
               /\ Reserved(a, OffsetOf(u, j), e[j])
    <3>1. FoundIn(t, j) /\ OffsetOf(u, j) = OffsetOf(t, j)
      BY <1>6, <2>1
    <3>2. LengthOf(u, j) \in 1 .. e[j] /\ LengthOf(u, j) <= LargeLength
      <4>1. CASE j = k
        BY <1>4, <4>1 DEF LengthOf
      <4>2. CASE j # k
        BY <1>6, <3>1, <4>2 DEF Extents
      <4> QED
        BY <4>1, <4>2
    <3> QED
      BY <3>1, <3>2 DEF Extents
  <2>2. ASSUME NEW i \in Keys, NEW j \in Keys, i # j, FoundIn(u, i), FoundIn(u, j)
        PROVE  \/ OffsetOf(u, i) + e[i] <= OffsetOf(u, j)
               \/ OffsetOf(u, j) + e[j] <= OffsetOf(u, i)
    <3>1. /\ FoundIn(t, i) /\ FoundIn(t, j)
          /\ OffsetOf(u, i) = OffsetOf(t, i) /\ OffsetOf(u, j) = OffsetOf(t, j)
      BY <1>6, <2>2
    <3> QED
      BY <2>2, <3>1 DEF Extents
  <2> QED
    BY <2>1, <2>2 DEF Extents
<1>8. Value(u, w, k) = Copied(v, m, t[s].mem_offset, u[s].length)
  <2>1. PICK l2 \in Nat : l2 = u[s].length /\ l2 <= ext
    BY <1>1
  <2>2. off + l2 <= DevSize
    BY <1>0, <1>1, <2>1
  <2>3. ReadCells(w, off, l2) = Copied(v, m, off, l2)
    BY <1>5, <2>2 DEF Copied
  <2>4. Value(u, w, k) = ReadCells(w, off, l2)
    BY <1>2, <1>4, <2>1 DEF Value, FoundIn
  <2> QED
    BY <1>2, <2>1, <2>3, <2>4
<1>9. ASSUME NEW j \in Keys, j # k
      PROVE  Value(u, w, j) = Value(t, m, j)
  <2>1. CASE ~FoundIn(t, j)
    BY <1>4, <2>1 DEF Value, FoundIn
  <2>2. CASE FoundIn(t, j)
    <3>1. PICK o \in Nat, n \in Nat, l \in Nat :
            /\ o = OffsetOf(t, j) /\ n = e[j] /\ l = LengthOf(t, j) /\ l <= n /\ o + n <= DevSize
            /\ o + n <= off \/ off + ext <= o
      <4>1. LengthOf(t, j) \in 1 .. e[j] /\ OffsetOf(t, j) \in Nat /\ OffsetOf(t, j) + e[j] <= DevSize
        BY <2>2 DEF Extents
      <4>2. OffsetOf(t, j) + e[j] <= off \/ off + ext <= OffsetOf(t, j)
        BY <1>1, <1>9, <2>2 DEF Extents
      <4> QED
        BY <4>1, <4>2
    <3>2. o + l <= DevSize /\ (o + l <= off \/ off + len <= o)
      <4>1. Apart(o, n, off, ext)
        BY <3>1 DEF Apart
      <4>2. Apart(o, l, off, len)
        BY <1>1, <3>1, <4>1, PartsApart
      <4> QED
        BY <4>2 DEF Apart
    <3>3. ReadCells(w, o, l) = ReadCells(m, o, l)
      BY <1>5, <3>2
    <3>4. OffsetOf(u, j) = o /\ LengthOf(u, j) = l /\ FoundIn(u, j)
      BY <1>6, <1>9, <2>2, <3>1
    <3> QED
      BY <2>2, <3>1, <3>3, <3>4 DEF Value, FoundIn, OffsetOf, LengthOf
  <2> QED
    BY <2>1, <2>2
<1>10. Taken(u) = Taken(t)
  <2>1. \A r \in Slots : u[r].mem_offset = t[r].mem_offset
    OBVIOUS
  <2> QED
    BY <2>1 DEF Taken, Occupied
<1> QED
    BY <1>5, <1>7, <1>8, <1>9, <1>10

\* A delete: the key and what is lost with it is gone, and the rest stays.
LEMMA ExtentsDelete ==
    ASSUME NEW t \in [Slots -> Entries], NEW m, NEW a, NEW e, Extents(t, a, e),
           NEW k \in Keys, FoundIn(t, k), NEW u, u = delete_mapping_entry(t, k)
    PROVE  /\ Extents(u, a, e)
           /\ \A j \in Keys : FoundIn(u, j) => Value(u, m, j) = Value(t, m, j) /\ FoundIn(t, j)
           /\ ~FoundIn(u, k)
           /\ \E f \in Slots : ~Occupied(u, f) /\ Taken(t) = Taken(u) \cup {f}
<1>1. PICK s \in Slots : s = get_mapping_entry(t, k) /\ Occupied(t, s)
    BY FoundSlot
<1>2. u \in [Slots -> Entries] /\ ~Occupied(u, s) /\ \A r \in Slots : r # s => u[r] = t[r]
  <2>1. NoEntry \in Entries /\ NoEntry.mem_offset = -1
    BY KvAssumption DEF Entries, NoEntry
  <2>2. PICK x : x = NoEntry
    OBVIOUS
  <2>3. u = [t EXCEPT ![s] = x]
    BY <1>1, <2>2 DEF delete_mapping_entry
  <2>4. u \in [Slots -> Entries] /\ u[s] = x /\ \A r \in Slots : r # s => u[r] = t[r]
    BY <2>1, <2>2, <2>3
  <2> QED
    BY <2>1, <2>2, <2>4 DEF Occupied
<1>3. /\ get_mapping_entry(u, k) = -1
      /\ \A j \in Keys : get_mapping_entry(u, j) \in {-1, get_mapping_entry(t, j)}
    BY <1>1, <1>2, DeleteLookup
<1>4. ASSUME NEW j \in Keys, FoundIn(u, j)
      PROVE  /\ get_mapping_entry(u, j) = get_mapping_entry(t, j) /\ FoundIn(t, j)
             /\ OffsetOf(u, j) = OffsetOf(t, j) /\ LengthOf(u, j) = LengthOf(t, j)
  <2>1. get_mapping_entry(u, j) = get_mapping_entry(t, j) /\ FoundIn(t, j)
    BY <1>3, <1>4 DEF FoundIn
  <2>2. PICK r \in Slots : r = get_mapping_entry(u, j) /\ Occupied(u, r)
    BY <1>2, <1>4, FoundSlot
  <2>3. u[r] = t[r]
    BY <1>2, <2>2
  <2> QED
    BY <2>1, <2>2, <2>3 DEF OffsetOf, LengthOf
<1>5. Extents(u, a, e)
    BY <1>4 DEF Extents
<1>6. ASSUME NEW j \in Keys, FoundIn(u, j)
      PROVE  Value(u, m, j) = Value(t, m, j)
    BY <1>4, <1>6 DEF Value, FoundIn, OffsetOf, LengthOf
<1>7. ~Occupied(u, s) /\ Taken(t) = Taken(u) \cup {s}
  <2>1. \A r \in Slots : r # s => (Occupied(u, r) <=> Occupied(t, r))
    BY <1>2 DEF Occupied
  <2> QED
    BY <1>1, <1>2, <2>1 DEF Taken
<1> QED
    BY <1>3, <1>4, <1>5, <1>6, <1>7 DEF FoundIn

\* An insertion takes a slot of the table, and a deletion gives one back.
Left(t) == NSlots - Cardinality(Taken(t))

LEMMA SlotTaken ==
    ASSUME NEW t, NEW u, NEW f \in Slots, Taken(u) = Taken(t) \cup {f}, ~Occupied(t, f)
    PROVE  Left(u) = Left(t) - 1 /\ Left(t) > 0 /\ Left(t) \in Int
<1>1. PICK n \in Nat, c \in Nat, d \in Nat :
        /\ n = NSlots /\ c = Cardinality(Taken(t)) /\ d = Cardinality(Taken(u)) /\ d = c + 1 /\ d <= n
  <2>1. NSlots \in Nat /\ IsFiniteSet(Slots) /\ Cardinality(Slots) = NSlots
    <3>1. NSlots \in Nat
      BY KvAssumption
    <3>2. IsFiniteSet(Slots) /\ Cardinality(Slots) = (NSlots - 1) - 0 + 1
      BY <3>1, FS_Interval DEF Slots
    <3> QED
      BY <3>1, <3>2
  <2>2. Taken(t) \subseteq Slots /\ Taken(u) \subseteq Slots /\ f \notin Taken(t)
    BY DEF Taken
  <2>3. /\ IsFiniteSet(Taken(t)) /\ IsFiniteSet(Taken(u)) /\ Cardinality(Taken(u)) <= Cardinality(Slots)
    BY <2>1, <2>2, FS_Subset
  <2>4. Cardinality(Taken(u)) = Cardinality(Taken(t)) + 1
    BY <2>2, <2>3, FS_AddElement
  <2> QED
    BY <2>1, <2>3, <2>4, FS_CardinalityType
<1> QED
    BY <1>1 DEF Left

LEMMA SlotsAfter ==
    ASSUME NEW u, u = table'
    PROVE  SlotsLeft = Left(table) /\ SlotsLeft' = Left(u)
BY DEF SlotsLeft, Left, Taken

\* A full table has no slot left.
LEMMA NoSlotLeft ==
    ASSUME TableFull(table)
    PROVE  SlotsLeft = 0
<1>1. NSlots \in Nat
  BY KvAssumption
<1>2. {s \in Slots : Occupied(table, s)} = 0 .. NSlots - 1
  BY DEF TableFull, Slots
<1>3. Cardinality(0 .. NSlots - 1) = NSlots
  BY <1>1, FS_Interval
<1>4. SlotsLeft = NSlots - Cardinality(0 .. NSlots - 1)
  BY <1>2 DEF SlotsLeft
<1> QED
  BY <1>1, <1>3, <1>4

-----------------------------------------------------------------------------
(* The commands refine those of KvStore. *)

Values == UNION {b.vals : b \in Bounds}

\* The facts about the state before a command, by name.
LEMMA Before ==
    ASSUME IInv, RInv, ~misused
    PROVE  /\ table \in [Slots -> Entries] /\ Sound(table) /\ alloc \in Allocs
           /\ mem \in Storage /\ extent \in [Keys -> Nat] /\ fault = "none" /\ misused = FALSE
           /\ room = [small |-> room.small, large |-> room.large]
           /\ Extents(table, alloc, extent) /\ Accounts(alloc, room)
           /\ dict = [k \in Keys |-> Value(table, mem, k)]
           /\ \A k \in Keys : dict[k] = Absent <=> ~FoundIn(table, k)
           /\ \A k \in Keys : FoundIn(table, k) =>
                /\ OffsetOf(table, k) \in Nat /\ LengthOf(table, k) \in 1 .. LargeLength
                /\ LengthOf(table, k) <= extent[k]
                /\ OffsetOf(table, k) + LengthOf(table, k) <= DevSize
                /\ dict[k] = ReadCells(mem, OffsetOf(table, k), LengthOf(table, k))
<1>1. /\ table \in [Slots -> Entries] /\ Sound(table) /\ alloc \in Allocs
      /\ mem \in Storage /\ extent \in [Keys -> Nat] /\ fault = "none" /\ misused = FALSE
      /\ room = [small |-> room.small, large |-> room.large]
      /\ Extents(table, alloc, extent) /\ Accounts(alloc, room)
      /\ dict = [k \in Keys |-> Value(table, mem, k)]
    BY DEF IInv, RInv, Types, Sound
<1>2. ASSUME NEW k \in Keys, FoundIn(table, k)
      PROVE  /\ OffsetOf(table, k) \in Nat /\ LengthOf(table, k) \in 1 .. LargeLength
             /\ LengthOf(table, k) <= extent[k]
             /\ OffsetOf(table, k) + LengthOf(table, k) <= DevSize
             /\ dict[k] = ReadCells(mem, OffsetOf(table, k), LengthOf(table, k))
             /\ dict[k] # Absent
  <2>1. PICK o \in Nat, n \in Nat, l \in 1 .. LargeLength :
            o = OffsetOf(table, k) /\ n = extent[k] /\ l = LengthOf(table, k) /\ l <= n /\ o + n <= DevSize
    <3>1. /\ OffsetOf(table, k) \in Nat /\ extent[k] \in Nat
          /\ LengthOf(table, k) \in 1 .. extent[k] /\ LengthOf(table, k) <= LargeLength
          /\ OffsetOf(table, k) + extent[k] <= DevSize
      BY <1>1, <1>2 DEF Extents
    <3>2. LengthOf(table, k) \in 1 .. LargeLength
      BY <3>1, Numbers
    <3> QED
      BY <3>1, <3>2
  <2>2. o + l <= DevSize
    BY <2>1, Numbers
  <2>3. ReadCells(mem, o, l) # Absent
    BY <1>1, <2>2, ReadIs
  <2>4. dict[k] = ReadCells(mem, o, l)
    BY <1>1, <1>2, <2>1 DEF Value, FoundIn, OffsetOf, LengthOf
  <2> QED
    BY <2>1, <2>2, <2>3, <2>4
<1>3. ASSUME NEW k \in Keys, ~FoundIn(table, k)
      PROVE  dict[k] = Absent
    BY <1>1, <1>3 DEF Value, FoundIn
<1> QED
    BY <1>1, <1>2, <1>3

\* A new key.
LEMMA InsertRefines ==
    ASSUME IInv, RInv, ~misused, NEW op, NEW k \in Keys, NEW v \in Values, IsValue(v),
           ~FoundIn(table, k), InsertNew(op, k, v), resp' = resp,
           dict' = IF fault' = "none" THEN [j \in Keys |-> Value(table', mem', j)] ELSE dict
    PROVE  RInv' /\ (Abs!Insert(k, v) \/ Abs!Misuse(k, v))
<1>0. /\ Sound(table) /\ alloc \in Allocs /\ mem \in Storage /\ extent \in [Keys -> Nat]
      /\ fault = "none" /\ misused = FALSE /\ room = [small |-> room.small, large |-> room.large]
      /\ Extents(table, alloc, extent) /\ Accounts(alloc, room)
      /\ dict = [j \in Keys |-> Value(table, mem, j)] /\ dict[k] = Absent
    BY Before
<1>1. PICK len \in 1 .. LargeLength : len = Len(v)
    BY DEF IsValue
<1>2. PICK c \in {"small", "large"} : c = ClassOf(len) /\ c = Class(v)
    BY <1>1 DEF ClassOf, Class
<1>3. PICK x : x = allocate_mem_offset(alloc, len)
    OBVIOUS
<1>4. misused' = (x.off + len > DevSize \/ TableFull(table) \/ (alloc.kind = "bitmap" /\ room[c] <= 0))
    BY <1>0, <1>1, <1>2, <1>3, Zenon DEF InsertNew
<1>5. misused' \in BOOLEAN
    BY <1>4, Zenon
<1>6. /\ alloc' = x.to /\ mem' = WriteCells(mem, x.off, v)
      /\ extent' = [extent EXCEPT ![k] = x.got]
      /\ room' = [room EXCEPT ![c] = IF room[c] = -1 THEN -1 ELSE room[c] - 1]
    BY <1>1, <1>2, <1>3 DEF InsertNew
<1>9. x.off \in Nat
    BY <1>0, <1>3, AllocSound
<1>7. CASE misused'
  <2>1. (x.off + len > DevSize \/ TableFull(table)) \/ (alloc.kind = "bitmap" /\ room[c] <= 0)
    BY <1>4, <1>7, Zenon
  <2>2. SlotsLeft = 0 \/ room[c] <= 0 \/ room.small = -1 \/ room.large = -1
    <3> SUFFICES ASSUME SlotsLeft # 0, ~(room[c] <= 0), room.small # -1, room.large # -1
                 PROVE  FALSE
      OBVIOUS
    <3>1. room.small \in Int /\ room.large \in Int
      BY <1>0 DEF Accounts
    <3>2. IF ClassOf(len) = "small" THEN room.small >= 1 ELSE room.large >= 1
      BY <1>2, <3>1
    <3>3. x.off + len <= DevSize
      BY <1>0, <1>3, <3>2, Space
    <3>4. ~TableFull(table)
      BY NoSlotLeft
    <3> QED
      BY <1>9, <2>1, <3>3, <3>4, Numbers
  <2>3. Abs!Class(v) = c
    BY <1>2 DEF Class, Abs!Class, Abs!Small
  <2>4. Abs!Misuse(k, v)
    BY <1>0, <1>5, <1>7, <2>2, <2>3 DEF Abs!Misuse
  <2> QED
    BY <1>5, <1>7, <2>4 DEF RInv
<1>8. CASE ~misused'
  <2>0. ~(x.off + len > DevSize) /\ ~TableFull(table) /\ ~(alloc.kind = "bitmap" /\ room[c] <= 0)
    BY <1>4, <1>8, Zenon
  <2>1. /\ x.off + len <= DevSize /\ ~TableFull(table)
        /\ alloc.kind = "bitmap" => IF c = "small" THEN room.small > 0 ELSE room.large > 0
    <3>1. room.small \in Int /\ room.large \in Int
      BY <1>0 DEF Accounts
    <3> QED
      BY <1>2, <1>9, <2>0, <3>1, Numbers
  <2>2. alloc.kind = "bitmap" => alloc[c].last < Nbits(c)
    <3>1. /\ room.small \in Int /\ room.large \in Int
          /\ alloc.kind = "bitmap" => alloc.small.last = small_nbits - room.small
                                     /\ alloc.large.last = large_nbits - room.large
      BY <1>0 DEF Accounts, TakenSmall, TakenLarge
    <3> QED
      BY <1>2, <2>1, <3>1, Numbers DEF Nbits
  <2>3. /\ table' = new_mapping_entry(table, k, x.off, len) /\ fault' = "none"
    <3>1. ~(x.off + Len(v) > DevSize) /\ ~TableFull(table)
      BY <1>1, <2>0
    <3>2. CASE /\ x.off + Len(v) <= DevSize
               /\ ~TableFull(table)
               /\ table' = IF op = "store" THEN new_mapping_entry(table, k, x.off, Len(v))
                           ELSE new_mapping_entry_by_key(table, k, x.off, Len(v))
               /\ UNCHANGED fault
      BY <1>0, <1>1, <3>2 DEF new_mapping_entry_by_key
    <3> QED
      BY <1>1, <1>3, <3>1, <3>2 DEF InsertNew
  <2>4. /\ extent'[k] = x.got /\ \A j \in Keys : j # k => extent'[j] = extent[j]
    BY <1>0, <1>6
  <2>5. x.got \in Nat /\ len <= x.got /\ x.got <= Unit(c)
    BY <1>0, <1>2, <1>3, <2>2, AllocTakes DEF Accounts
  <2>6. extent' \in [Keys -> Nat]
    BY <1>0, <1>6, <2>5
  <2>7. PICK u, w, e2 : u = table' /\ w = mem' /\ e2 = extent'
    OBVIOUS
  <2>8. /\ Extents(u, x.to, e2)
        /\ Value(u, w, k) = v
        /\ \A j \in Keys : j # k => Value(u, w, j) = Value(table, mem, j)
        /\ \E f \in Slots : ~Occupied(table, f) /\ Taken(u) = Taken(table) \cup {f}
    <3>1. /\ x = allocate_mem_offset(alloc, Len(v)) /\ x.off + Len(v) <= DevSize
          /\ u = new_mapping_entry(table, k, x.off, Len(v))
          /\ w = WriteCells(mem, x.off, v)
          /\ e2[k] = x.got /\ \A j \in Keys : j # k => e2[j] = extent[j]
          /\ alloc.kind = "bitmap" => alloc[ClassOf(Len(v))].last < Nbits(ClassOf(Len(v)))
          /\ FirstBits(alloc)
      BY <1>0, <1>1, <1>2, <1>3, <1>6, <2>1, <2>2, <2>3, <2>4, <2>7 DEF Accounts
    <3> QED
      BY <1>0, <2>1, <3>1, ExtentsInsert, SMTT(60)
  <2>9. w \in Storage
    <3>1. PICK y : y = WriteCells(mem, x.off, v)
      OBVIOUS
    <3>2. x.off + Len(v) <= DevSize
      BY <1>1, <2>1
    <3>3. y \in Storage
      BY <1>0, <1>9, <3>1, <3>2, WriteIs
    <3> QED
      BY <1>6, <2>7, <3>1, <3>3
  <2>10. PICK r2 : r2 = room'
    OBVIOUS
  <2>11. /\ r2.small = IF c = "small" THEN (IF room.small = -1 THEN -1 ELSE room.small - 1) ELSE room.small
         /\ r2.large = IF c = "large" THEN (IF room.large = -1 THEN -1 ELSE room.large - 1) ELSE room.large
         /\ r2 = [small |-> r2.small, large |-> r2.large]
    <3>1. PICK rs, rl : rs = room.small /\ rl = room.large /\ room = [small |-> rs, large |-> rl]
      BY <1>0
    <3>2. PICK n : n = IF room[c] = -1 THEN -1 ELSE room[c] - 1
      OBVIOUS
    <3>3. r2 = [room EXCEPT ![c] = n]
      BY <1>6, <2>10, <3>2
    <3>4. CASE c = "small"
      BY <3>1, <3>2, <3>3, <3>4
    <3>5. CASE c = "large"
      BY <3>1, <3>2, <3>3, <3>5
    <3> QED
      BY <3>4, <3>5
  <2>12. Accounts(x.to, r2)
    BY <1>0, <1>2, <1>3, <2>1, <2>11, AccountsInsert
  <2>13. dict' = [j \in Keys |-> Value(u, w, j)]
    BY <2>3, <2>7
  <2>14. RInv'
    <3>1. /\ mem' \in Storage /\ room' = [small |-> room'.small, large |-> room'.large]
          /\ Extents(table', alloc', extent') /\ Accounts(alloc', room')
      BY <1>6, <2>7, <2>8, <2>9, <2>10, <2>11, <2>12
    <3>2. dict' = [j \in Keys |-> Value(table', mem', j)] /\ fault' = "none"
      BY <2>3, <2>7, <2>13
    <3> QED
      BY <1>5, <2>6, <3>1, <3>2 DEF RInv
  <2>15. Abs!Insert(k, v)
    <3>1. dict' = [dict EXCEPT ![k] = v]
      BY <1>0, <2>8, <2>13
    <3>2. x.got \in Len(v) .. IF Abs!Small(v) THEN SmallLength ELSE LargeLength
      BY <1>1, <1>2, <2>5, Numbers DEF Abs!Small, Unit, ClassOf
    <3>3. \E e \in Len(v) .. IF Abs!Small(v) THEN SmallLength ELSE LargeLength :
              extent' = [extent EXCEPT ![k] = e]
      BY <1>6, <3>2
    <3>4. Abs!Class(v) = c
      BY <1>2 DEF Class, Abs!Class, Abs!Small
    <3>5. room' = [room EXCEPT ![Abs!Class(v)] = IF room[Abs!Class(v)] = -1 THEN -1 ELSE room[Abs!Class(v)] - 1]
      BY <1>6, <3>4
    <3>6. misused' = FALSE
      BY <1>5, <1>8
    <3>7. SlotsLeft > 0 /\ SlotsLeft' = SlotsLeft - 1
      <4>1. PICK f \in Slots : ~Occupied(table, f) /\ Taken(u) = Taken(table) \cup {f}
        BY <2>8
      <4>2. Left(u) = Left(table) - 1 /\ Left(table) > 0
        BY <4>1, SlotTaken
      <4>3. SlotsLeft = Left(table) /\ SlotsLeft' = Left(u)
        BY <2>7, SlotsAfter
      <4> QED
        BY <4>2, <4>3
    <3> QED
      BY <1>0, <3>1, <3>3, <3>5, <3>6, <3>7 DEF Abs!Insert
  <2> QED
    BY <2>14, <2>15
<1> QED
    BY <1>7, <1>8

\* A key that is there.
LEMMA OverwriteRefines ==
    ASSUME IInv, RInv, ~misused, NEW op, NEW k \in Keys, NEW v \in Values, IsValue(v),
           FoundIn(table, k), OverwriteOld(op, k, v), resp' = resp,
           dict' = IF fault' = "none" THEN [j \in Keys |-> Value(table', mem', j)] ELSE dict
    PROVE  RInv' /\ (Abs!Overwrite(op, k, v) \/ Abs!Misuse(k, v))
<1>0. /\ table \in [Slots -> Entries] /\ Sound(table) /\ alloc \in Allocs /\ mem \in Storage
      /\ extent \in [Keys -> Nat]
      /\ fault = "none" /\ misused = FALSE /\ room = [small |-> room.small, large |-> room.large]
      /\ Extents(table, alloc, extent) /\ Accounts(alloc, room)
      /\ dict = [j \in Keys |-> Value(table, mem, j)] /\ dict[k] # Absent
    BY Before
<1>1. PICK off \in Nat, old \in 1 .. LargeLength, ext \in Nat, len \in 1 .. LargeLength :
        /\ off = OffsetOf(table, k) /\ old = LengthOf(table, k) /\ ext = extent[k] /\ len = Len(v)
        /\ old <= ext /\ off + old <= DevSize
        /\ dict[k] = ReadCells(mem, off, old)
    BY <1>0, Before DEF IsValue
<1>2. PICK s \in Slots : s = get_mapping_entry(table, k) /\ table[s].mem_offset = off /\ table[s].length = old
    BY <1>0, <1>1, FoundSlot DEF OffsetOf, LengthOf
<1>3. off + ext <= DevSize
    BY <1>1 DEF Extents, RInv
<1>4. misused' = (misused \/ len > ext)
    BY <1>1 DEF OverwriteOld
<1>5. misused' \in BOOLEAN
    BY <1>4, Zenon
<1>6. /\ mem' = WriteCells(mem, off, v) /\ alloc' = alloc /\ extent' = extent /\ room' = room
    BY <1>2 DEF OverwriteOld
<1>7. CASE misused'
  <2>1. Len(v) > extent[k]
    BY <1>0, <1>1, <1>4, <1>7
  <2>2. Abs!Misuse(k, v)
    BY <1>0, <1>5, <1>7, <2>1 DEF Abs!Misuse
  <2> QED
    BY <1>5, <1>7, <2>2 DEF RInv
<1>8. CASE ~misused'
  <2>0. ~(len > ext)
    BY <1>0, <1>4, <1>8
  <2>1. len <= ext /\ off + len <= DevSize
    BY <1>1, <1>3, <2>0, Numbers
  <2>2. /\ fault' = "none"
        /\ table' = IF op = "store" /\ len # old /\ len <= SmallLength /\ old <= SmallLength
                    THEN [table EXCEPT ![s].length = len] ELSE table
    <3>1. ~(off + Len(v) > DevSize)
      BY <1>1, <2>1, Numbers
    <3>2. /\ table' = IF op = "store" /\ Len(v) # table[s].length
                            /\ (Len(v) <= SmallLength /\ table[s].length <= SmallLength)
                      THEN update_mapping_entry(table, k, Len(v)) ELSE table
          /\ fault' = fault
      BY <1>2, <3>1 DEF OverwriteOld
    <3> QED
      BY <1>0, <1>1, <1>2, <3>2 DEF update_mapping_entry
  <2>3. PICK u, w : u = table' /\ w = mem'
    OBVIOUS
  <2>4. PICK l2 \in 1 .. LargeLength :
            l2 = IF op = "store" /\ len <= SmallLength /\ old <= SmallLength THEN len ELSE old
    BY <1>1
  <2>5. l2 <= ext
    BY <1>1, <2>1, <2>4
  <2>6. /\ u \in [Slots -> Entries] /\ \A r \in Slots : r # s => u[r] = table[r]
        /\ u[s].mem_offset = table[s].mem_offset /\ u[s].key = table[s].key
        /\ u[s].next_slot = table[s].next_slot /\ u[s].length = l2
    <3>1. CASE op = "store" /\ len # old /\ len <= SmallLength /\ old <= SmallLength
      <4>1. PICK y : y = [table[s] EXCEPT !.length = l2]
        OBVIOUS
      <4>2. table[s] \in Entries /\ l2 \in -1 .. LargeLength
        BY <1>0, <1>2, Numbers
      <4>3. /\ y \in Entries /\ y.length = l2 /\ y.mem_offset = table[s].mem_offset
            /\ y.key = table[s].key /\ y.next_slot = table[s].next_slot
        BY <4>1, <4>2 DEF Entries
      <4>4. u = [table EXCEPT ![s] = y]
        BY <2>2, <2>3, <2>4, <3>1, <4>1
      <4> QED
        BY <1>0, <4>3, <4>4
    <3>2. CASE ~(op = "store" /\ len # old /\ len <= SmallLength /\ old <= SmallLength)
      <4>1. u = table /\ l2 = old
        BY <2>2, <2>3, <2>4, <3>2
      <4> QED
        BY <1>0, <1>2, <4>1
    <3> QED
      BY <3>1, <3>2
  <2>7. /\ w \in Storage
        /\ Extents(u, alloc, extent)
        /\ Value(u, w, k) = Copied(v, mem, table[s].mem_offset, u[s].length)
        /\ \A j \in Keys : j # k => Value(u, w, j) = Value(table, mem, j)
        /\ Taken(u) = Taken(table)
    <3>1. /\ u[s].length \in 1 .. extent[k] /\ u[s].length <= LargeLength /\ Len(v) <= extent[k]
          /\ w = WriteCells(mem, table[s].mem_offset, v)
      BY <1>1, <1>2, <1>6, <2>1, <2>3, <2>5, <2>6, Numbers
    <3>2. s = get_mapping_entry(table, k)
      BY <1>2
    <3>3. /\ table \in [Slots -> Entries] /\ mem \in Storage /\ alloc \in Allocs
          /\ extent \in [Keys -> Nat] /\ Extents(table, alloc, extent)
      BY <1>0
    <3>4. FoundIn(table, k) /\ IsValue(v)
      OBVIOUS
    <3> QED
      BY <2>6, <3>1, <3>2, <3>3, <3>4, ExtentsOverwrite, SMTT(60)
  <2>8. Value(u, w, k) = [i \in 1 .. l2 |-> IF i <= len THEN v[i] ELSE mem[off + i]]
    BY <1>1, <1>2, <2>6, <2>7 DEF Copied
  <2>9. dict' = [j \in Keys |-> Value(u, w, j)]
    BY <2>2, <2>3
  <2>10. RInv'
    <3>1. Accounts(alloc, room)
      BY <1>0
    <3>2. dict' = [j \in Keys |-> Value(table', mem', j)] /\ mem' \in Storage
      BY <2>3, <2>7, <2>9
    <3>3. Extents(table', alloc', extent') /\ Accounts(alloc', room')
      BY <1>6, <2>3, <2>7, <3>1
    <3> QED
      BY <1>0, <1>5, <1>6, <2>2, <3>2, <3>3 DEF RInv
  <2>11. Value(u, w, k) = Abs!Result(op, dict[k], v)
    <3>1. PICK q : q = dict[k]
      OBVIOUS
    <3>2. Len(q) = old /\ \A i \in 1 .. old : q[i] = mem[off + i]
      <4>1. Len(ReadCells(mem, off, old)) = old /\ \A i \in 1 .. old : ReadCells(mem, off, old)[i] = mem[off + i]
        BY <1>0, <1>1, ReadIs
      <4> QED
        BY <1>1, <3>1, <4>1
    <3>3. CASE op = "store" /\ len <= SmallLength /\ old <= SmallLength
      <4>1. Abs!Result(op, q, v) = v
        BY <1>1, <3>2, <3>3 DEF Abs!Result, Abs!Small
      <4>2. l2 = len /\ v \in [1 .. len -> Cells]
        BY <1>1, <2>4, <3>3 DEF IsValue
      <4>3. [i \in 1 .. l2 |-> IF i <= len THEN v[i] ELSE mem[off + i]] = [i \in 1 .. len |-> v[i]]
        BY <4>2
      <4> QED
        BY <2>8, <3>1, <4>1, <4>2, <4>3
    <3>4. CASE ~(op = "store" /\ len <= SmallLength /\ old <= SmallLength)
      <4>1. Abs!Result(op, q, v) = Abs!Recut(q, v)
        BY <1>1, <3>2, <3>4 DEF Abs!Result, Abs!Small
      <4>2. l2 = old
        BY <2>4, <3>4
      <4>3. Abs!Recut(q, v) = [i \in 1 .. old |-> IF i <= len THEN v[i] ELSE q[i]]
        BY <1>1, <3>2 DEF Abs!Recut
      <4>4. [i \in 1 .. old |-> IF i <= len THEN v[i] ELSE q[i]]
              = [i \in 1 .. old |-> IF i <= len THEN v[i] ELSE mem[off + i]]
        BY <3>2
      <4> QED
        BY <2>8, <3>1, <4>1, <4>2, <4>3, <4>4
    <3> QED
      BY <3>3, <3>4
  <2>12. Abs!Overwrite(op, k, v)
    <3>1. PICK n : n = Abs!Result(op, dict[k], v)
      OBVIOUS
    <3>2. dict' = [dict EXCEPT ![k] = n]
      BY <1>0, <2>7, <2>9, <2>11, <3>1
    <3>3. Len(v) <= extent[k] /\ misused' = FALSE
      BY <1>1, <1>5, <1>8, <2>1
    <3>4. SlotsLeft' = SlotsLeft
      <4>1. SlotsLeft = Left(table) /\ SlotsLeft' = Left(u)
        BY <2>3, SlotsAfter
      <4> QED
        BY <2>7, <4>1 DEF Left
    <3> QED
      BY <1>0, <1>6, <3>1, <3>2, <3>3, <3>4 DEF Abs!Overwrite
  <2> QED
    BY <2>10, <2>12
<1> QED
    BY <1>7, <1>8

\* A command that changes nothing the dictionary stands for.
LEMMA QuietRefines ==
    ASSUME IInv, RInv, ~misused, UNCHANGED <<table, mem, alloc, fault, extent, room, misused>>,
           dict' = IF fault' = "none" THEN [j \in Keys |-> Value(table', mem', j)] ELSE dict
    PROVE  RInv' /\ dict' = dict /\ SlotsLeft' = SlotsLeft
<1>1. dict' = dict /\ SlotsLeft' = SlotsLeft
    BY Before DEF SlotsLeft
<1> QED
    BY <1>1 DEF RInv

\* A retrieve answers as much of the value as was asked for.
LEMMA RetrieveRefines ==
    ASSUME IInv, RInv, ~misused, NEW k \in Keys, NEW n \in 1 .. LargeLength, Retrieve(k, n), dict' = dict,
           SlotsLeft' = SlotsLeft
    PROVE  Abs!Retrieve(k, n)
<1>0. dict[k] = Absent <=> ~FoundIn(table, k)
    BY Before
<1>1. PICK s : s = get_mapping_entry(table, k)
    OBVIOUS
<1>2. resp' = Answer("retrieve", k,
                IF s = -1 THEN Absent
                ELSE ReadCells(mem, table[s].mem_offset, Min({n, table[s].length})))
    BY <1>1 DEF Retrieve
<1>3. \A res : Abs!Answer("retrieve", k, res) = Answer("retrieve", k, res)
    BY DEF Answer, Abs!Answer
<1>4. CASE ~FoundIn(table, k)
  <2>1. resp' = Abs!Answer("retrieve", k, Absent)
    BY <1>1, <1>2, <1>3, <1>4 DEF FoundIn
  <2> QED
    BY <1>0, <1>4, <2>1 DEF Abs!Retrieve, Retrieve, history
<1>5. CASE FoundIn(table, k)
  <2>1. PICK off \in Nat, len \in 1 .. LargeLength :
            /\ off = OffsetOf(table, k) /\ len = LengthOf(table, k) /\ off + len <= DevSize
            /\ dict[k] = ReadCells(mem, off, len) /\ mem \in Storage
    BY <1>5, Before
  <2>2. PICK m \in 0 .. len : m = (IF n < len THEN n ELSE len)
    BY Numbers
  <2>3. Min({n, len}) = m
    <3>1. {n, len} \in SUBSET (0 .. LargeLength) /\ {n, len} # {} /\ LargeLength \in Nat
      BY Numbers
    <3>2. Min({n, len}) \in {n, len} /\ \A y \in {n, len} : Min({n, len}) <= y
      <4>1. PICK S : S = {n, len}
        OBVIOUS
      <4> QED
        BY <3>1, <4>1, MinMax
    <3> QED
      BY <2>2, <3>2, Numbers
  <2>4. Len(dict[k]) = len /\ SubSeq(dict[k], 1, m) = ReadCells(mem, off, m)
    BY <2>1, <2>2, ReadIs
  <2>5. resp' = Abs!Answer("retrieve", k, ReadCells(mem, off, m))
    BY <1>1, <1>2, <1>3, <1>5, <2>1, <2>3 DEF FoundIn, OffsetOf, LengthOf
  <2>6. SubSeq(dict[k], 1, IF n < Len(dict[k]) THEN n ELSE Len(dict[k])) = ReadCells(mem, off, m)
    BY <2>2, <2>4
  <2> QED
    BY <1>0, <1>5, <2>5, <2>6 DEF Abs!Retrieve, Retrieve, history
<1> QED
    BY <1>4, <1>5

\* What an exist answers.
LEMMA ExistRefines ==
    ASSUME IInv, RInv, ~misused, NEW k \in Keys, Exist(k), dict' = dict,
           SlotsLeft' = SlotsLeft
    PROVE  Abs!Exist(k)
<1>0. dict[k] = Absent <=> get_mapping_entry(table, k) = -1
    BY Before DEF FoundIn
<1> QED
    BY <1>0 DEF Exist, Abs!Exist, Answer, Abs!Answer, history

\* A delete takes the key, and whatever else is not found any more.
LEMMA DeleteRefines ==
    ASSUME IInv, RInv, ~misused, NEW k \in Keys, Delete(k),
           dict' = IF fault' = "none" THEN [j \in Keys |-> Value(table', mem', j)] ELSE dict
    PROVE  RInv' /\ Abs!Delete(k)
<1>0. /\ table \in [Slots -> Entries] /\ Extents(table, alloc, extent) /\ Accounts(alloc, room)
      /\ fault = "none" /\ dict = [j \in Keys |-> Value(table, mem, j)]
      /\ \A j \in Keys : dict[j] = Absent <=> ~FoundIn(table, j)
    BY Before
<1>1. UNCHANGED <<mem, alloc, fault, extent, room, misused>>
    BY DEF Delete, history
<1>2. \A res : Abs!Answer("delete", k, res) = Answer("delete", k, res)
    BY DEF Answer, Abs!Answer
<1>3. dict' = [j \in Keys |-> Value(table', mem, j)]
    BY <1>0, <1>1
<1>4. CASE ~FoundIn(table, k)
  <2>1. table' = table /\ resp' = Abs!Answer("delete", k, "no")
    BY <1>2, <1>4 DEF Delete, FoundIn
  <2>2. RInv' /\ dict' = dict
    BY <1>1, <2>1, QuietRefines
  <2>3. \E lost \in SUBSET Keys :
            /\ (lost = {}) = (dict[k] = Absent)
            /\ lost # {} => k \in lost
            /\ dict' = [j \in Keys |-> IF j \in lost THEN Absent ELSE dict[j]]
    <3>1. dict' = [j \in Keys |-> IF j \in {} THEN Absent ELSE dict[j]]
      BY <1>0, <2>2
    <3>2. {} \in SUBSET Keys /\ dict[k] = Absent
      BY <1>0, <1>4
    <3> QED
      BY <3>1, <3>2
  <2>4. dict[k] = Absent
    BY <1>0, <1>4
  <2>5. resp' = Abs!Answer("delete", k, IF dict[k] = Absent THEN "no" ELSE "yes")
    BY <2>1, <2>4
  <2>6. SlotsLeft' = SlotsLeft
    BY <2>1 DEF SlotsLeft
  <2> QED
    BY <1>1, <2>2, <2>3, <2>4, <2>5, <2>6 DEF Abs!Delete
<1>5. CASE FoundIn(table, k)
  <2>1. table' = delete_mapping_entry(table, k) /\ resp' = Abs!Answer("delete", k, "yes")
    BY <1>2, <1>5 DEF Delete, FoundIn
  <2>2. PICK u : u = table'
    OBVIOUS
  <2>3. /\ Extents(u, alloc, extent)
        /\ \A j \in Keys : FoundIn(u, j) => Value(u, mem, j) = Value(table, mem, j) /\ FoundIn(table, j)
        /\ ~FoundIn(u, k)
        /\ \E f \in Slots : ~Occupied(u, f) /\ Taken(table) = Taken(u) \cup {f}
    BY <1>0, <1>5, <2>1, <2>2, ExtentsDelete
  <2>4. Accounts(alloc, room)
    BY <1>0
  <2>5. RInv'
    <3>1. Extents(table', alloc', extent') /\ Accounts(alloc', room')
      BY <1>1, <2>2, <2>3, <2>4
    <3> QED
      BY <1>1, <1>3, <3>1 DEF RInv
  <2>6. PICK lost \in SUBSET Keys : lost = {j \in Keys : ~FoundIn(u, j)}
    OBVIOUS
  <2>7. \A j \in Keys : Value(u, mem, j) = IF j \in lost THEN Absent ELSE dict[j]
    <3>1. \A j \in Keys : ~FoundIn(u, j) => Value(u, mem, j) = Absent
      BY DEF Value, FoundIn
    <3> QED
      BY <1>0, <2>3, <2>6, <3>1
  <2>8. dict' = [j \in Keys |-> IF j \in lost THEN Absent ELSE dict[j]]
    BY <1>3, <2>2, <2>7
  <2>9. k \in lost /\ lost # {} /\ dict[k] # Absent
    BY <1>0, <1>5, <2>3, <2>6
  <2>10. \E l \in SUBSET Keys :
            /\ (l = {}) = (dict[k] = Absent)
            /\ l # {} => k \in l
            /\ dict' = [j \in Keys |-> IF j \in l THEN Absent ELSE dict[j]]
    BY <2>8, <2>9
  <2>11. resp' = Abs!Answer("delete", k, IF dict[k] = Absent THEN "no" ELSE "yes")
    BY <2>1, <2>9
  <2>12. SlotsLeft' = SlotsLeft + 1
    <3>1. PICK f \in Slots : ~Occupied(u, f) /\ Taken(table) = Taken(u) \cup {f}
      BY <2>3
    <3>2. Left(table) = Left(u) - 1 /\ Left(u) \in Int
      BY ONLY <3>1, SlotTaken
    <3>3. SlotsLeft = Left(table) /\ SlotsLeft' = Left(u)
      BY <2>2, SlotsAfter
    <3> QED
      BY <3>2, <3>3
  <2> QED
    BY <1>1, <2>5, <2>9, <2>10, <2>11, <2>12 DEF Abs!Delete
<1> QED
    BY <1>4, <1>5

\* A store, or a command of a batch.
LEMMA PutRefines ==
    ASSUME IInv, RInv, ~misused, NEW op \in {"store", "batch"},
           NEW k \in Keys, NEW v \in Values, IsValue(v), Put(op, k, v), resp' = resp,
           dict' = IF fault' = "none" THEN [j \in Keys |-> Value(table', mem', j)] ELSE dict
    PROVE  RInv' /\ (Abs!Insert(k, v) \/ Abs!Misuse(k, v) \/ Abs!Overwrite(op, k, v))
<1>1. CASE ~FoundIn(table, k)
  <2>1. InsertNew(op, k, v)
    BY <1>1 DEF Put, FoundIn, get_mapping_entry_by_key
  <2> QED
    BY <1>1, <2>1, InsertRefines
<1>2. CASE FoundIn(table, k)
  <2>1. OverwriteOld(op, k, v)
    BY <1>2 DEF Put, FoundIn, get_mapping_entry_by_key
  <2> QED
    BY <1>2, <2>1, OverwriteRefines
<1> QED
    BY <1>1, <1>2

\* Nothing ends a misuse.
LEMMA MisusedStays ==
    ASSUME misused = TRUE, Next
    PROVE  misused' = TRUE
<1>1. ASSUME NEW op, NEW k, NEW v, Put(op, k, v)
      PROVE  misused' = TRUE
  <2>2. CASE InsertNew(op, k, v)
    BY <2>2, Zenon DEF InsertNew
  <2>3. CASE OverwriteOld(op, k, v)
    BY <2>3, Zenon DEF OverwriteOld
  <2> QED
    BY <1>1, <2>2, <2>3 DEF Put
<1>2. ASSUME UNCHANGED history
      PROVE  misused' = TRUE
    BY <1>2 DEF history
<1>3. Command
    BY DEF Next
<1>4. ASSUME NEW k, NEW v, KvStoreCmd(k, v) \/ BatchedIo(k, v)
      PROVE  misused' = TRUE
    BY <1>1, <1>4 DEF KvStoreCmd, BatchedIo
<1>5. ASSUME NEW k, NEW n, Retrieve(k, n) \/ Exist(k) \/ Delete(k) \/ Batch(n)
      PROVE  misused' = TRUE
    BY <1>2, <1>5 DEF Retrieve, Exist, Delete, Batch
<1>6. ASSUME NEW want, NEW h, kv_iter_open(want) \/ kv_iter_close(h) \/ kv_iter_read(h) \/ Complete \/ Halted
      PROVE  misused' = TRUE
    BY <1>2, <1>6 DEF kv_iter_open, kv_iter_close, kv_iter_read, Complete, Halted
<1> QED
    BY <1>3, <1>4, <1>5, <1>6 DEF Command

\* Every step is a step of KvStore, or changes nothing there.
LEMMA StepRefines ==
    ASSUME IInv, RInv, [Next]_vars
    PROVE  RInv' /\ [Abs!KNext]_(Abs!kvars)
<1>0. /\ bound \in Bounds /\ bound.keys \subseteq Keys
      /\ \A v \in bound.vals : IsValue(v) /\ v \in Values
  <2>1. bound \in Bounds
    BY DEF IInv, Types
  <2>2. bound.keys \subseteq Keys
    BY <2>1, KvAssumption
  <2>3. \A v \in bound.vals : IsValue(v) /\ v \in Values
    BY <2>1, ValueOk DEF Values
  <2> QED
    BY <2>1, <2>2, <2>3
<1>1. CASE UNCHANGED vars
    BY <1>1 DEF vars, RInv, Abs!kvars, SlotsLeft
<1>2. CASE misused /\ Next
  <2>1. misused = TRUE
    BY <1>2 DEF RInv
  <2>2. misused' = TRUE
    BY <1>2, <2>1, MisusedStays
  <2> QED
    BY <2>1, <2>2 DEF RInv, Abs!KNext
<1>3. CASE ~misused /\ Next
  <2>0. Command /\ dict' = IF fault' = "none" THEN [j \in Keys |-> Value(table', mem', j)] ELSE dict
    BY <1>3 DEF Next
  <2>1. ASSUME UNCHANGED <<table, mem, alloc, fault>>, UNCHANGED history
        PROVE  RInv' /\ dict' = dict /\ SlotsLeft' = SlotsLeft /\ UNCHANGED <<extent, room, misused>>
    BY <1>3, <2>0, <2>1, QuietRefines DEF history
  <2>2. ASSUME NEW k \in bound.keys, NEW v \in bound.vals, KvStoreCmd(k, v) \/ BatchedIo(k, v)
        PROVE  RInv' /\ Abs!KNext
    <3>1. k \in Keys /\ v \in Values /\ IsValue(v)
      BY <1>0
    <3>2. PICK op \in {"store", "batch"} : Put(op, k, v)
      BY <2>2 DEF KvStoreCmd, BatchedIo
    <3>3. resp' = resp
      BY <2>2 DEF KvStoreCmd, BatchedIo
    <3>4. RInv' /\ (Abs!Insert(k, v) \/ Abs!Misuse(k, v) \/ Abs!Overwrite(op, k, v))
      BY <1>3, <2>0, <3>1, <3>2, <3>3, PutRefines
    <3> QED
      BY <3>1, <3>4 DEF Abs!KNext, Values
  <2>3. ASSUME NEW k \in bound.keys, NEW n \in 1 .. LargeLength, Retrieve(k, n)
        PROVE  RInv' /\ Abs!KNext
    <3>1. k \in Keys
      BY <1>0
    <3>2. RInv' /\ dict' = dict /\ SlotsLeft' = SlotsLeft
      BY <2>1, <2>3 DEF Retrieve
    <3>3. Abs!Retrieve(k, n)
      BY <1>3, <2>3, <3>1, <3>2, RetrieveRefines
    <3> QED
      BY <3>1, <3>2, <3>3 DEF Abs!KNext
  <2>4. ASSUME NEW k \in bound.keys, Exist(k)
        PROVE  RInv' /\ Abs!KNext
    <3>1. k \in Keys
      BY <1>0
    <3>2. RInv' /\ dict' = dict /\ SlotsLeft' = SlotsLeft
      BY <2>1, <2>4 DEF Exist
    <3>3. Abs!Exist(k)
      BY <1>3, <2>4, <3>1, <3>2, ExistRefines
    <3> QED
      BY <3>1, <3>2, <3>3 DEF Abs!KNext
  <2>5. ASSUME NEW k \in bound.keys, Delete(k)
        PROVE  RInv' /\ Abs!KNext
    <3>1. k \in Keys
      BY <1>0
    <3>2. RInv' /\ Abs!Delete(k)
      BY <1>3, <2>0, <2>5, <3>1, DeleteRefines
    <3> QED
      BY <3>1, <3>2 DEF Abs!KNext
  <2>6. CASE Complete
    <3>1. RInv' /\ dict' = dict /\ SlotsLeft' = SlotsLeft /\ UNCHANGED <<extent, room, misused>>
      BY <2>1, <2>6 DEF Complete
    <3>2. Abs!NoAnswer = NoAnswer
      BY DEF NoAnswer, Abs!NoAnswer, Answer, Abs!Answer
    <3>3. Abs!Complete
      BY <2>6, <3>1, <3>2 DEF Complete, Abs!Complete
    <3> QED
      BY <3>1, <3>3 DEF Abs!KNext
  <2>7. ASSUME NEW n, NEW want, NEW h,
               Batch(n) \/ kv_iter_open(want) \/ kv_iter_close(h) \/ kv_iter_read(h) \/ Halted
        PROVE  RInv' /\ UNCHANGED Abs!kvars
    <3>1. UNCHANGED <<table, mem, alloc, fault, resp>> /\ UNCHANGED history
      BY <2>7 DEF Batch, kv_iter_open, kv_iter_close, kv_iter_read, Halted
    <3>2. RInv' /\ dict' = dict /\ SlotsLeft' = SlotsLeft /\ UNCHANGED <<extent, room, misused>>
      BY <2>1, <3>1
    <3> QED
      BY <3>1, <3>2 DEF Abs!kvars
  <2> QED
    BY <2>0, <2>2, <2>3, <2>4, <2>5, <2>6, <2>7 DEF Command
<1> QED
    BY <1>1, <1>2, <1>3

\* An empty table and an empty dictionary.
LEMMA InitRefines ==
    ASSUME Init
    PROVE  RInv /\ Abs!KInit
<1>1. /\ table = [s \in Slots |-> NoEntry] /\ mem = [c \in 1 .. DevSize |-> Absent]
      /\ dict = [k \in Keys |-> Absent] /\ extent = [k \in Keys |-> 0] /\ fault = "none" /\ misused = FALSE
      /\ room = [small |-> small_nbits, large |-> large_nbits] /\ resp = NoAnswer
      /\ alloc.latest = 0 /\ alloc.small = [bits |-> {}, last |-> 0] /\ alloc.large = [bits |-> {}, last |-> 0]
    BY DEF Init, kv_init_namespace
<1>2. /\ \A s \in Slots : table[s].mem_offset = -1 /\ ~Occupied(table, s)
      /\ table \in [Slots -> Entries]
  <2>1. NoEntry \in Entries /\ NoEntry.mem_offset = -1
    BY KvAssumption DEF Entries, NoEntry
  <2> QED
    BY <1>1, <2>1 DEF Occupied
<1>3. ASSUME NEW k \in Keys
      PROVE  ~FoundIn(table, k) /\ Value(table, mem, k) = Absent
  <2>1. ~FoundIn(table, k)
    BY <1>2, FoundSlot
  <2> QED
    BY <2>1 DEF FoundIn, Value
<1>4. mem \in Storage
    BY <1>1 DEF Storage, CellsOrNone
<1>5. Extents(table, alloc, extent)
    BY <1>3 DEF Extents
<1>6. Accounts(alloc, room)
  <2>3. TakenSmall(room) = 0 /\ TakenLarge(room) = 0
    BY <1>1, Numbers DEF TakenSmall, TakenLarge
  <2>4. FirstBits(alloc)
    <3>1. \A c \in {"small", "large"} : alloc[c].bits = {} /\ alloc[c].last = 0 /\ 0 <= Nbits(c)
      BY <1>1, Numbers DEF Nbits
    <3>2. {} = 0 .. 0 - 1
      OBVIOUS
    <3> QED
      BY <3>1, <3>2 DEF FirstBits
  <2>5. 0 * SmallLength + 0 * LargeLength = 0
    BY Numbers
  <2> QED
    BY <1>1, <2>3, <2>4, <2>5, Numbers DEF Accounts
<1>7. RInv
    BY <1>1, <1>3, <1>4, <1>5, <1>6 DEF RInv
<1>8. Abs!KInit
  <2>1. {s \in Slots : Occupied(table, s)} = {}
    BY <1>2
  <2>2. SlotsLeft = NSlots
    BY <2>1, FS_EmptySet, KvAssumption DEF SlotsLeft
  <2> QED
    BY <1>1, <2>2 DEF Abs!KInit, NoAnswer, Abs!NoAnswer, Answer, Abs!Answer
<1> QED
    BY <1>7, <1>8

-----------------------------------------------------------------------------
(* The refinement. *)

\* Until a misuse, what the table, the storage and the allocators hold is what
\* the dictionary, the extents and the room say: no two keys share a cell, and
\* there is space for every insertion there is room for (kv_ftl.c, bitmap.c,
\* append_only.c).
THEOREM SpaceAccounted == Spec => []RInv
<1>1. Init => RInv
    BY InitRefines
<1>2. IInv /\ RInv /\ [Next]_vars => RInv'
    BY StepRefines
<1> QED
    BY <1>1, <1>2, Invariant, PTL DEF Spec

\* The commands of kv_ftl.c, with either allocator and through collisions,
\* batches and deletes, implement the dictionary of KvStore.
THEOREM Refinement == Spec => ImplementsKvStore
<1>1. Init => Abs!KInit
    BY InitRefines
<1>2. IInv /\ RInv /\ [Next]_vars => [Abs!KNext]_(Abs!kvars)
    BY StepRefines
<1> QED
    BY <1>1, <1>2, Invariant, SpaceAccounted, PTL DEF Spec, ImplementsKvStore, Abs!KSpec

=============================================================================
