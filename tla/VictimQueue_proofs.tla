------------------------- MODULE VictimQueue_proofs -------------------------
(***************************************************************************)
(* The priority queue, for every number of elements and all priorities:    *)
(* pqueue.c keeps its promise to any client (PQueueClient); with it the    *)
(* build for GC_POLICY_GREEDY implements ConvFtl (VictimQueue), and the    *)
(* builds that scan the array take the best line and keep the stamps fresh *)
(* (VictimScan).  A heap in the middle of an operation is a heap with a    *)
(* hole: IsHollow says which element has left it, and Under and Over where *)
(* the element fits.                                                       *)
(***************************************************************************)
EXTENDS VictimScan, PQueueClient, ConvFtl_proofs, Induction

-----------------------------------------------------------------------------
(* Heaps with a hole. *)

\* Queues for at most N elements of E.
Queues(E, N) == [d : [0 .. N -> E \cup {NIL}], size : 1 .. (N + 1), pos : [E -> 0 .. N]]

\* The used slots but h hold the elements of S, each once, and the elements
\* know their slots.
Holds(q, S, h) ==
    /\ \A j \in 1 .. (q.size - 1) : j # h => q.d[j] \in S /\ q.pos[q.d[j]] = j
    /\ \A y \in S : q.pos[y] \in 1 .. (q.size - 1) /\ q.pos[y] # h /\ q.d[q.pos[y]] = y

\* No element is above one of smaller priority, the hole h apart.
Order(q, pri, h) ==
    \A j \in 2 .. (q.size - 1) :
        j # h /\ parent(j) # h => pri[q.d[parent(j)]] <= pri[q.d[j]]

\* The hole's parent has no larger priority than its children.
Around(q, pri, h) ==
    h > 1 => \A j \in 2 .. (q.size - 1) : parent(j) = h => pri[q.d[parent(h)]] <= pri[q.d[j]]

\* The children of the hole may stand below p, its parent above it.
Under(q, pri, h, p) == \A j \in 2 .. (q.size - 1) : parent(j) = h => p <= pri[q.d[j]]
Over(q, pri, h, p) == h > 1 => pri[q.d[parent(h)]] <= p

\* The queue is a heap of S.
IsHeap(q, E, N, pri, S) == q \in Queues(E, N) /\ Holds(q, S, 0) /\ Order(q, pri, 0)

\* A heap of S but for the hole h, which x has left.
IsHollow(q, E, N, pri, S, x, h) ==
    /\ q \in Queues(E, N) /\ h \in 1 .. (q.size - 1)
    /\ Holds(q, S \ {x}, h) /\ Order(q, pri, h) /\ Around(q, pri, h)

\* What is common to all these facts about the parts of a heap.
Setting(E, N, pri, S) ==
    /\ N \in Nat /\ NIL \notin E /\ S \in SUBSET E /\ pri \in [E -> Int]

\* The tree of the slots.
LEMMA Parents ==
    /\ \A j \in Nat : j > 1 => parent(j) \in 1 .. j - 1
    /\ \A i, j \in Nat : parent(j) = i <=> j = 2 * i \/ j = 2 * i + 1
BY DEF parent

\* r is q with x in slot i.
PlacedAt(q, E, N, i, x, r) ==
    /\ r \in Queues(E, N) /\ r.size = q.size
    /\ r.d[i] = x /\ \A j \in 0 .. N : j # i => r.d[j] = q.d[j]
    /\ r.pos[x] = i /\ \A y \in E : y # x => r.pos[y] = q.pos[y]

\* An element moves to a slot.
LEMMA Placed ==
    ASSUME NEW E, NEW N \in Nat, NEW q \in Queues(E, N), NEW i \in 1 .. N, NEW x \in E,
           NEW r, r = Place(q, i, x)
    PROVE  PlacedAt(q, E, N, i, x, r)
<1>1. /\ q.d \in [0 .. N -> E \cup {NIL}] /\ q.pos \in [E -> 0 .. N] /\ q.size \in 1 .. N + 1
      /\ q = [d |-> q.d, size |-> q.size, pos |-> q.pos]
    BY DEF Queues
<1>2. r.d = [q.d EXCEPT ![i] = x] /\ r.pos = [q.pos EXCEPT ![x] = i] /\ r.size = q.size
      /\ r = [d |-> r.d, size |-> r.size, pos |-> r.pos]
    BY <1>1 DEF Place
<1>3. i \in 0 .. N
    OBVIOUS
<1>4. r.d \in [0 .. N -> E \cup {NIL}] /\ r.pos \in [E -> 0 .. N]
    BY <1>1, <1>2, <1>3
<1>5. r \in Queues(E, N)
  <2>1. r = [d |-> r.d, size |-> r.size, pos |-> r.pos]
    BY <1>2
  <2> QED
    BY <1>1, <1>2, <1>4, <2>1 DEF Queues
<1>6. r.d[i] = x /\ \A j \in 0 .. N : j # i => r.d[j] = q.d[j]
    BY <1>1, <1>2, <1>3
<1>7. r.pos[x] = i /\ \A y \in E : y # x => r.pos[y] = q.pos[y]
    BY <1>1, <1>2
<1> QED
    BY <1>2, <1>5, <1>6, <1>7 DEF PlacedAt

\* The hole is filled by an element that fits.
LEMMA Filled ==
    ASSUME NEW E, NEW N, NEW pri, NEW S, Setting(E, N, pri, S), NEW x \in S, NEW q, NEW h,
           IsHollow(q, E, N, pri, S, x, h), Under(q, pri, h, pri[x]), Over(q, pri, h, pri[x]),
           NEW r, r = Place(q, h, x)
    PROVE  IsHeap(r, E, N, pri, S) /\ r.size = q.size /\ \A y \in E \ S : r.pos[y] = q.pos[y]
<1>1. N \in Nat /\ x \in E /\ q \in Queues(E, N) /\ q.size \in 1 .. N + 1 /\ h \in 1 .. q.size - 1 /\ h \in 1 .. N
    BY DEF IsHollow, Setting, Queues
<1>2. /\ r \in Queues(E, N) /\ r.size = q.size
      /\ r.d[h] = x /\ \A j \in 0 .. N : j # h => r.d[j] = q.d[j]
      /\ r.pos[x] = h /\ \A y \in E : y # x => r.pos[y] = q.pos[y]
    BY <1>1, Placed DEF PlacedAt
<1>3. Holds(q, S \ {x}, h)
    BY DEF IsHollow
<1>4. Holds(r, S, 0)
  <2>1. ASSUME NEW j \in 1 .. r.size - 1
        PROVE  r.d[j] \in S /\ r.pos[r.d[j]] = j
    <3>1. CASE j = h
      BY <1>2, <3>1
    <3>2. CASE j # h
      <4>1. q.d[j] \in S \ {x} /\ q.pos[q.d[j]] = j
        BY <1>2, <1>3, <3>2 DEF Holds
      <4>2. r.d[j] = q.d[j] /\ q.d[j] \in E
        BY <1>1, <1>2, <3>2, <4>1 DEF Setting
      <4> QED
        BY <1>2, <4>1, <4>2
    <3> QED
      BY <3>1, <3>2
  <2>2. ASSUME NEW y \in S
        PROVE  r.pos[y] \in 1 .. r.size - 1 /\ r.d[r.pos[y]] = y
    <3>1. CASE y = x
      BY <1>1, <1>2, <3>1
    <3>2. CASE y # x
      <4>1. q.pos[y] \in 1 .. q.size - 1 /\ q.pos[y] # h /\ q.d[q.pos[y]] = y
        BY <1>3, <3>2 DEF Holds
      <4>2. r.pos[y] = q.pos[y]
        BY <1>2, <3>2 DEF Setting
      <4> QED
        BY <1>1, <1>2, <4>1, <4>2
    <3> QED
      BY <3>1, <3>2
  <2> QED
    BY <2>1, <2>2 DEF Holds
<1>5. Order(r, pri, 0)
  <2> SUFFICES ASSUME NEW j \in 2 .. r.size - 1
               PROVE  pri[r.d[parent(j)]] <= pri[r.d[j]]
    BY DEF Order
  <2>1. PICK p \in 1 .. j - 1 : p = parent(j)
    BY <1>1, <1>2, Parents
  <2>2. j \in 0 .. N /\ p \in 0 .. N
    BY <1>1, <1>2
  <2>3. CASE j = h
    <3>1. r.d[j] = x /\ r.d[p] = q.d[p] /\ h > 1
      BY <1>2, <2>2, <2>3
    <3> QED
      BY <2>1, <2>3, <3>1 DEF Over
  <2>4. CASE p = h
    <3>1. r.d[p] = x /\ r.d[j] = q.d[j] /\ j \in 2 .. q.size - 1
      BY <1>2, <2>2, <2>4
    <3> QED
      BY <2>1, <2>4, <3>1 DEF Under
  <2>5. CASE j # h /\ p # h
    <3>1. r.d[p] = q.d[p] /\ r.d[j] = q.d[j] /\ j \in 2 .. q.size - 1
      BY <1>2, <2>2, <2>5
    <3> QED
      BY <2>1, <2>5, <3>1 DEF IsHollow, Order
  <2> QED
    BY <2>1, <2>3, <2>4, <2>5
<1>6. ASSUME NEW y \in E \ S
      PROVE  r.pos[y] = q.pos[y]
    BY <1>2
<1> QED
    BY <1>2, <1>4, <1>5, <1>6 DEF IsHeap

\* r is q with the element of slot k moved to the hole h.
Moved(q, E, N, S, x, h, k, r) ==
    /\ r \in Queues(E, N) /\ r.size = q.size /\ Holds(r, S \ {x}, k)
    /\ \A y \in E \ S : r.pos[y] = q.pos[y]
    /\ r.d[h] = q.d[k] /\ \A j \in 0 .. N : j # h => r.d[j] = q.d[j]
    /\ q.d[k] \in S

\* The hole moves to the parent or to a child, and its element to the hole.
LEMMA HoldsMoved ==
    ASSUME NEW E, NEW N, NEW pri, NEW S, Setting(E, N, pri, S), NEW x \in S, NEW q, NEW h,
           IsHollow(q, E, N, pri, S, x, h), NEW k \in 1 .. q.size - 1, k # h,
           NEW r, r = Place(q, h, q.d[k])
    PROVE  Moved(q, E, N, S, x, h, k, r)
<1>1. N \in Nat /\ x \in E /\ q \in Queues(E, N) /\ q.size \in 1 .. N + 1 /\ h \in 1 .. q.size - 1 /\ h \in 1 .. N
    BY DEF IsHollow, Setting, Queues
<1>2. Holds(q, S \ {x}, h)
    BY DEF IsHollow
<1>3. PICK e \in S \ {x} : e = q.d[k] /\ q.pos[e] = k
    BY <1>2 DEF Holds
<1>4. e \in E
    BY DEF Setting
<1>5. /\ r \in Queues(E, N) /\ r.size = q.size
      /\ r.d[h] = e /\ \A j \in 0 .. N : j # h => r.d[j] = q.d[j]
      /\ r.pos[e] = h /\ \A y \in E : y # e => r.pos[y] = q.pos[y]
    BY <1>1, <1>3, <1>4, Placed DEF PlacedAt
<1>6. Holds(r, S \ {x}, k)
  <2>1. ASSUME NEW j \in 1 .. r.size - 1, j # k
        PROVE  r.d[j] \in S \ {x} /\ r.pos[r.d[j]] = j
    <3>1. CASE j = h
      BY <1>5, <3>1
    <3>2. CASE j # h
      <4>1. PICK a \in S \ {x} : a = q.d[j] /\ q.pos[a] = j
        BY <1>2, <1>5, <3>2 DEF Holds
      <4>2. a # e /\ a \in E
        BY <1>3, <2>1, <4>1 DEF Setting
      <4>3. r.d[j] = a /\ r.pos[a] = j
        BY <1>1, <1>5, <3>2, <4>1, <4>2
      <4> QED
        BY <4>3
    <3> QED
      BY <3>1, <3>2
  <2>2. ASSUME NEW y \in S \ {x}
        PROVE  r.pos[y] \in 1 .. r.size - 1 /\ r.pos[y] # k /\ r.d[r.pos[y]] = y
    <3>1. CASE y = e
      BY <1>1, <1>5, <3>1
    <3>2. CASE y # e
      <4>1. PICK j \in 1 .. q.size - 1 : j = q.pos[y] /\ j # h /\ q.d[j] = y
        BY <1>2 DEF Holds
      <4>2. r.pos[y] = j /\ j # k
        BY <1>3, <1>5, <3>2, <4>1 DEF Setting
      <4>3. r.d[j] = y
        BY <1>1, <1>5, <4>1
      <4> QED
        BY <1>5, <4>2, <4>3
    <3> QED
      BY <3>1, <3>2
  <2> QED
    BY <2>1, <2>2 DEF Holds
<1>7. ASSUME NEW y \in E \ S
      PROVE  r.pos[y] = q.pos[y]
    BY <1>5
<1> QED
    BY <1>3, <1>5, <1>6, <1>7 DEF Moved

\* The hole moves up.
LEMMA HollowUp ==
    ASSUME NEW E, NEW N, NEW pri, NEW S, Setting(E, N, pri, S), NEW x \in S, NEW q, NEW h,
           IsHollow(q, E, N, pri, S, x, h), Under(q, pri, h, pri[x]),
           h > 1, NEW p, p = parent(h), pri[q.d[p]] > pri[x], NEW r, r = Place(q, h, q.d[p])
    PROVE  IsHollow(r, E, N, pri, S, x, p) /\ Under(r, pri, p, pri[x])
<1>1. N \in Nat /\ x \in E /\ q \in Queues(E, N) /\ q.size \in 1 .. N + 1 /\ h \in 1 .. q.size - 1 /\ h \in 1 .. N
    BY DEF IsHollow, Setting, Queues
<1>2. p \in 1 .. h - 1 /\ p \in 1 .. q.size - 1 /\ p # h
    BY <1>1, Parents
<1>3. PICK e : e = q.d[p]
    OBVIOUS
<1>4. /\ r \in Queues(E, N) /\ r.size = q.size /\ Holds(r, S \ {x}, p)
      /\ r.d[h] = e /\ \A j \in 0 .. N : j # h => r.d[j] = q.d[j]
      /\ e \in S
  <2>1. Moved(q, E, N, S, x, h, p, r)
    BY <1>2, HoldsMoved
  <2> QED
    BY <1>3, <2>1 DEF Moved
<1>5. Order(q, pri, h) /\ Around(q, pri, h)
    BY DEF IsHollow
<1>6. pri[e] \in Int /\ pri[x] \in Int /\ pri[x] <= pri[e]
    BY <1>1, <1>3, <1>4 DEF Setting
<1>7. ASSUME NEW j \in 2 .. q.size - 1
      PROVE  pri[r.d[j]] \in Int /\ (parent(j) = h => pri[e] <= pri[r.d[j]])
             /\ (parent(j) = p => pri[e] <= pri[r.d[j]])
             /\ (j # p /\ parent(j) # p => pri[r.d[parent(j)]] <= pri[r.d[j]])
             /\ (j = p => pri[r.d[parent(j)]] <= pri[e])
  <2>1. PICK g \in 1 .. j - 1 : g = parent(j)
    BY <1>1, Parents
  <2>2. j \in 0 .. N /\ g \in 0 .. N /\ j \in Nat
    BY <1>1
  <2>3. CASE j = h
    <3>1. g = p /\ r.d[j] = e
      BY <1>4, <2>1, <2>3
    <3> QED
      BY <1>2, <1>6, <2>1, <2>3, <3>1
  <2>4. CASE j # h
    <3>1. r.d[j] = q.d[j]
      BY <1>4, <2>2, <2>4
    <3>2. j # p => r.d[j] \in S
      <4>1. j # p => r.d[j] \in S \ {x}
        BY <1>4 DEF Holds
      <4> QED
        BY <4>1
    <3>3. r.d[j] \in S
      BY <1>3, <1>4, <3>1, <3>2
    <3>4. pri[r.d[j]] \in Int
      BY <3>3 DEF Setting
    <3>5. g = h => pri[e] <= pri[r.d[j]]
      BY <1>1, <1>3, <1>5, <2>1, <3>1 DEF Around
    <3>6. g # h => pri[q.d[g]] <= pri[q.d[j]]
      BY <1>5, <2>1, <2>4 DEF Order
    <3>7. g = p => pri[e] <= pri[r.d[j]]
      BY <1>2, <1>3, <3>1, <3>6
    <3>8. j # p /\ g # p => pri[r.d[g]] <= pri[r.d[j]]
      <4>1. CASE g = h
        BY <1>4, <3>5, <4>1
      <4>2. CASE g # h
        BY <1>4, <2>2, <3>1, <3>6, <4>2
      <4> QED
        BY <4>1, <4>2
    <3>9. j = p => pri[r.d[g]] <= pri[e]
      <4>1. j = p => g # h
        BY <1>2, <2>1
      <4> QED
        BY <1>3, <1>4, <2>2, <3>6, <4>1
    <3> QED
      BY <2>1, <3>4, <3>5, <3>7, <3>8, <3>9
  <2> QED
    BY <2>3, <2>4
<1>8. Order(r, pri, p)
    BY <1>4, <1>7 DEF Order
<1>9. Around(r, pri, p)
  <2> SUFFICES ASSUME p > 1, NEW j \in 2 .. q.size - 1, parent(j) = p
               PROVE  pri[r.d[parent(p)]] <= pri[r.d[j]]
    BY <1>4 DEF Around
  <2>1. PICK g \in 1 .. p - 1 : g = parent(p)
    BY <1>2, Parents
  <2>2. pri[r.d[g]] <= pri[e]
    BY <1>2, <1>7, <2>1
  <2>3. pri[e] <= pri[r.d[j]] /\ pri[r.d[j]] \in Int
    BY <1>7
  <2>4. pri[r.d[g]] \in Int
    <3>1. g \in 1 .. r.size - 1 /\ g # p
      BY <1>1, <1>2, <1>4, <2>1
    <3>2. r.d[g] \in S
      BY <1>4, <3>1 DEF Holds
    <3> QED
      BY <3>2 DEF Setting
  <2> QED
    BY <1>6, <2>1, <2>2, <2>3, <2>4
<1>10. Under(r, pri, p, pri[x])
  <2> SUFFICES ASSUME NEW j \in 2 .. q.size - 1, parent(j) = p
               PROVE  pri[x] <= pri[r.d[j]]
    BY <1>4 DEF Under
  <2> QED
    BY <1>6, <1>7
<1> QED
    BY <1>2, <1>4, <1>8, <1>9, <1>10 DEF IsHollow

\* maxchild finds the child that goes first, if there is one.
LEMMA FirstChild ==
    ASSUME NEW E, NEW N, NEW pri, NEW S, Setting(E, N, pri, S), NEW x \in S, NEW q, NEW h,
           IsHollow(q, E, N, pri, S, x, h), NEW c, c = maxchild(q, pri, h)
    PROVE  /\ c = 0 => \A j \in 2 .. q.size - 1 : parent(j) # h
           /\ c # 0 => c \in 2 .. q.size - 1 /\ parent(c) = h /\ c # h /\ Under(q, pri, h, pri[q.d[c]])
<1>1. q.size \in Nat /\ h \in 1 .. q.size - 1 /\ h \in Nat
    BY DEF IsHollow, Setting, Queues
<1>2. PICK a \in Nat : a = left(h) /\ a = 2 * h /\ a >= 2 /\ a # h /\ a + 1 # h
    BY <1>1 DEF left
<1>3. \A j \in 2 .. q.size - 1 : parent(j) = h <=> j = a \/ j = a + 1
    BY <1>1, <1>2, Parents
<1>4. \A j \in 2 .. q.size - 1 : j # h => pri[q.d[j]] \in Int
  <2> SUFFICES ASSUME NEW j \in 2 .. q.size - 1, j # h
               PROVE  pri[q.d[j]] \in Int
    OBVIOUS
  <2>1. q.d[j] \in S
    BY <1>1 DEF IsHollow, Holds
  <2> QED
    BY <2>1 DEF Setting
<1>5. CASE a >= q.size
  <2>1. c = 0
    <3>1. a >= q.size /\ ~(a < q.size)
      BY <1>1, <1>2, <1>5
    <3> QED
      BY <1>2, <3>1 DEF maxchild
  <2>2. \A j \in 2 .. q.size - 1 : parent(j) # h
    BY <1>1, <1>2, <1>3, <1>5
  <2> QED
    BY <2>1, <2>2
<1>6. CASE a < q.size /\ a + 1 < q.size /\ cmppri(pri[q.d[a]], pri[q.d[a + 1]])
  <2>1. c = a + 1
    <3>1. ~(a >= q.size)
      BY <1>1, <1>2, <1>6
    <3> QED
      BY <1>2, <1>6, <3>1 DEF maxchild
  <2>2. a \in 2 .. q.size - 1 /\ a + 1 \in 2 .. q.size - 1
    BY <1>1, <1>2, <1>6
  <2>3. pri[q.d[a]] > pri[q.d[a + 1]]
    BY <1>6 DEF cmppri
  <2>4. Under(q, pri, h, pri[q.d[c]])
    BY <1>2, <1>3, <1>4, <2>1, <2>2, <2>3 DEF Under
  <2> QED
    BY <1>2, <1>3, <2>1, <2>2, <2>4
<1>7. CASE a < q.size /\ ~(a + 1 < q.size /\ cmppri(pri[q.d[a]], pri[q.d[a + 1]]))
  <2>1. c = a
    <3>1. ~(a >= q.size)
      BY <1>1, <1>2, <1>7
    <3> QED
      BY <1>2, <1>7, <3>1 DEF maxchild
  <2>2. a \in 2 .. q.size - 1
    BY <1>1, <1>2, <1>7
  <2>3. Under(q, pri, h, pri[q.d[c]])
    <3> SUFFICES ASSUME NEW j \in 2 .. q.size - 1, parent(j) = h
                 PROVE  pri[q.d[a]] <= pri[q.d[j]]
      BY <2>1 DEF Under
    <3>1. pri[q.d[a]] \in Int
      BY <1>2, <1>4, <2>2
    <3>2. CASE j = a
      BY <3>1, <3>2
    <3>3. CASE j = a + 1
      <4>1. ~(pri[q.d[a]] > pri[q.d[a + 1]])
        BY <1>1, <1>7, <3>3 DEF cmppri
      <4>2. pri[q.d[a + 1]] \in Int
        BY <1>2, <1>4, <3>3
      <4> QED
        BY <3>1, <3>3, <4>1, <4>2
    <3> QED
      BY <1>3, <3>2, <3>3
  <2> QED
    BY <1>2, <1>3, <2>1, <2>2, <2>3
<1> QED
    BY <1>1, <1>2, <1>5, <1>6, <1>7

\* The hole moves down.
LEMMA HollowDown ==
    ASSUME NEW E, NEW N, NEW pri, NEW S, Setting(E, N, pri, S), NEW x \in S, NEW q, NEW h,
           IsHollow(q, E, N, pri, S, x, h), Over(q, pri, h, pri[x]),
           NEW c \in 2 .. q.size - 1, parent(c) = h, Under(q, pri, h, pri[q.d[c]]),
           pri[x] > pri[q.d[c]], NEW r, r = Place(q, h, q.d[c])
    PROVE  IsHollow(r, E, N, pri, S, x, c) /\ Over(r, pri, c, pri[x])
<1>1. N \in Nat /\ x \in E /\ q \in Queues(E, N) /\ q.size \in 1 .. N + 1 /\ h \in 1 .. q.size - 1 /\ h \in 1 .. N
    BY DEF IsHollow, Setting, Queues
<1>2. c \in 1 .. q.size - 1 /\ c # h /\ c > 1
  <2>1. h \in 1 .. c - 1
    BY <1>1, Parents
  <2> QED
    BY <2>1
<1>3. PICK e : e = q.d[c]
    OBVIOUS
<1>4. /\ r \in Queues(E, N) /\ r.size = q.size /\ Holds(r, S \ {x}, c)
      /\ r.d[h] = e /\ \A j \in 0 .. N : j # h => r.d[j] = q.d[j]
      /\ e \in S
  <2>1. Moved(q, E, N, S, x, h, c, r)
    BY <1>2, HoldsMoved
  <2> QED
    BY <1>3, <2>1 DEF Moved
<1>5. Order(q, pri, h) /\ Around(q, pri, h) /\ Under(q, pri, h, pri[e])
    BY <1>3 DEF IsHollow
<1>6. pri[e] \in Int /\ pri[x] \in Int /\ pri[e] <= pri[x]
    BY <1>1, <1>3, <1>4 DEF Setting
<1>7. Order(r, pri, c)
  <2> SUFFICES ASSUME NEW j \in 2 .. q.size - 1, NEW g, g = parent(j), j # c, g # c
               PROVE  pri[r.d[g]] <= pri[r.d[j]]
    BY <1>4 DEF Order
  <2>1. g \in 1 .. j - 1 /\ g \in 0 .. N /\ j \in 0 .. N
    BY <1>1, Parents
  <2>2. CASE j = h
    <3>1. r.d[j] = e /\ r.d[g] = q.d[g] /\ h > 1
      BY <1>4, <2>1, <2>2
    <3>2. pri[q.d[g]] <= pri[q.d[c]]
      BY <1>5, <2>2, <3>1 DEF Around
    <3> QED
      BY <1>3, <3>1, <3>2
  <2>3. CASE g = h
    <3>1. r.d[g] = e /\ r.d[j] = q.d[j]
      BY <1>4, <2>1, <2>3
    <3> QED
      BY <1>5, <2>3, <3>1 DEF Under
  <2>4. CASE j # h /\ g # h
    <3>1. r.d[g] = q.d[g] /\ r.d[j] = q.d[j]
      BY <1>4, <2>1, <2>4
    <3> QED
      BY <1>5, <2>4, <3>1 DEF Order
  <2> QED
    BY <2>2, <2>3, <2>4
<1>8. Around(r, pri, c)
  <2> SUFFICES ASSUME NEW j \in 2 .. q.size - 1, parent(j) = c
               PROVE  pri[r.d[parent(c)]] <= pri[r.d[j]]
    BY <1>4 DEF Around
  <2>1. c \in 1 .. j - 1 /\ j \in 0 .. N
    BY <1>1, Parents
  <2>2. j # h
    <3>1. h \in 1 .. c - 1
      BY <1>1, Parents
    <3> QED
      BY <1>1, <2>1, <3>1
  <2>3. pri[q.d[c]] <= pri[q.d[j]]
    BY <1>2, <1>5, <2>2 DEF Order
  <2>4. r.d[j] = q.d[j] /\ r.d[parent(c)] = e
    BY <1>4, <2>1, <2>2
  <2> QED
    BY <1>3, <2>3, <2>4
<1>9. Over(r, pri, c, pri[x])
    BY <1>4, <1>6 DEF Over
<1> QED
    BY <1>2, <1>4, <1>7, <1>8, <1>9 DEF IsHollow

-----------------------------------------------------------------------------
(* Loops. *)

\* f has the states of a loop that starts in a and does step K times.
Rounds(f, K, S, a, step) ==
    /\ f \in [0 .. K -> S] /\ f[0] = a
    /\ \A n \in 1 .. K : f[n] = step[f[n - 1]]

\* The recursive function of these states.
IsLoop(f, K, a, step) == f = [n \in 0 .. K |-> IF n = 0 THEN a ELSE step[f[n - 1]]]

\* A loop over the states S has its states.
LEMMA RoundsExist ==
    ASSUME NEW K \in Nat, NEW S, NEW a \in S, NEW step \in [S -> S]
    PROVE  \E f : Rounds(f, K, S, a, step) /\ IsLoop(f, K, a, step)
<1>1. PICK st : st = [z \in (1 .. K) \X S |-> step[z[2]]]
    OBVIOUS
<1>2. st \in [(1 .. K) \X S -> S] /\ \A n \in 1 .. K, s \in S : st[<<n, s>>] = step[s]
    BY <1>1
<1>3. PICK f : IsPath(f, K, S, a, st)
  <2>1. \E f : IsPath(f, K, S, a, st)
    BY <1>2, PathExists
  <2> QED
    BY <2>1
<1>4. f \in [0 .. K -> S] /\ \A n \in 0 .. K : f[n] = IF n = 0 THEN a ELSE st[<<n, f[n - 1]>>]
    BY <1>3 DEF IsPath
<1>5. f[0] = a
  <2>1. 0 \in 0 .. K
    OBVIOUS
  <2> QED
    BY <1>4, <2>1
<1>6. ASSUME NEW n \in 0 .. K, n # 0
      PROVE  n \in 1 .. K /\ f[n] = step[f[n - 1]]
  <2>1. n \in 1 .. K /\ n - 1 \in 0 .. K
    BY <1>6
  <2> QED
    BY <1>2, <1>4, <1>6, <2>1
<1>7. f = [n \in 0 .. K |-> IF n = 0 THEN a ELSE step[f[n - 1]]]
  <2>1. f = [n \in 0 .. K |-> f[n]]
    BY <1>4
  <2>2. \A n \in 0 .. K : f[n] = IF n = 0 THEN a ELSE step[f[n - 1]]
    BY <1>5, <1>6
  <2> QED
    BY <2>1, <2>2
<1>8. \A n \in 1 .. K : f[n] = step[f[n - 1]]
  <2> SUFFICES ASSUME NEW n \in 1 .. K
               PROVE  f[n] = step[f[n - 1]]
    OBVIOUS
  <2>1. n \in 0 .. K /\ n # 0
    OBVIOUS
  <2> QED
    BY <1>6, <2>1
<1> QED
    BY <1>4, <1>5, <1>7, <1>8 DEF Rounds, IsLoop

\* A loop in which every round but the last adds to the rank is over after K
\* rounds, or the rank has grown by K.
LEMMA RoundsEnd ==
    ASSUME NEW K \in Nat, NEW S, NEW a \in S, NEW step \in [S -> S], NEW rank \in [S -> Int],
           \A s \in S : step[s] = s \/ rank[step[s]] >= rank[s] + 1,
           NEW f, Rounds(f, K, S, a, step)
    PROVE  f[K] \in S /\ (step[f[K]] = f[K] \/ rank[f[K]] >= rank[a] + K)
<1>1. f \in [0 .. K -> S] /\ f[0] = a /\ \A n \in 1 .. K : f[n] = step[f[n - 1]]
    BY DEF Rounds
<1> DEFINE T == {n \in 0 .. K : step[f[n]] = f[n] \/ rank[f[n]] >= rank[a] + n}
<1>2. 0 \in T
  <2>1. rank[a] \in Int /\ 0 \in 0 .. K
    OBVIOUS
  <2> QED
    BY <1>1, <2>1
<1>3. ASSUME NEW n \in 0 .. K - 1, n \in T
      PROVE  n + 1 \in T
  <2>1. n \in 0 .. K /\ n + 1 \in 1 .. K /\ (n + 1) - 1 = n /\ n + 1 \in 0 .. K
    OBVIOUS
  <2>2. PICK s \in S : s = f[n]
    BY <1>1, <2>1
  <2>3. f[n + 1] = step[s] /\ step[s] \in S
    BY <1>1, <2>1, <2>2
  <2>4. CASE step[s] = s
    BY <2>1, <2>3, <2>4
  <2>5. CASE step[s] # s
    <3>1. rank[step[s]] >= rank[s] + 1 /\ rank[s] >= rank[a] + n
      BY <1>3, <2>2, <2>5
    <3>2. rank[step[s]] \in Int /\ rank[s] \in Int /\ rank[a] \in Int
      BY <2>3
    <3> QED
      BY <2>1, <2>3, <3>1, <3>2
  <2> QED
    BY <2>4, <2>5
<1>4. T \in SUBSET (0 .. K) /\ K \in 0 .. K
    OBVIOUS
<1>5. K \in T
  <2> HIDE DEF T
  <2> QED
    BY <1>2, <1>3, <1>4, UpTo
<1> QED
    BY <1>1, <1>4, <1>5

\* What a loop over a heap of S with a hole keeps.
Keeps(r, q, E, S) == r.size = q.size /\ \A y \in E \ S : r.pos[y] = q.pos[y]

\* The states of bubble_up.
Rising(q, E, N, pri, S, x) ==
    {s \in [q : Queues(E, N), i : 1 .. N] :
        /\ Keeps(s.q, q, E, S) /\ IsHollow(s.q, E, N, pri, S, x, s.i)
        /\ Under(s.q, pri, s.i, pri[x])}

\* A round of bubble_up is one of them again; the last one finds the place.
LEMMA BubbleRounds ==
    ASSUME NEW E, NEW N, NEW pri, NEW S, Setting(E, N, pri, S), NEW x \in S, NEW q,
           NEW s \in Rising(q, E, N, pri, S, x), NEW t, t = BubbleRound(s, pri, x)
    PROVE  /\ t \in Rising(q, E, N, pri, S, x)
           /\ (t = s /\ Over(s.q, pri, s.i, pri[x])) \/ t.i < s.i
<1>1. PICK u, h : u = s.q /\ h = s.i
    OBVIOUS
<1>2. /\ u \in Queues(E, N) /\ h \in 1 .. N /\ Keeps(u, q, E, S) /\ IsHollow(u, E, N, pri, S, x, h)
      /\ Under(u, pri, h, pri[x]) /\ s = [q |-> u, i |-> h]
    BY <1>1 DEF Rising
<1>3. CASE h > 1 /\ pri[u.d[parent(h)]] > pri[x]
  <2>1. PICK p, r : p = parent(h) /\ r = Place(u, h, u.d[p])
    OBVIOUS
  <2>2. t = [q |-> r, i |-> p]
    BY <1>1, <1>3, <2>1 DEF BubbleRound, cmppri
  <2>3. p \in 1 .. h - 1
    BY <1>2, <1>3, <2>1, Parents
  <2>4. IsHollow(r, E, N, pri, S, x, p) /\ Under(r, pri, p, pri[x])
    BY <1>2, <1>3, <2>1, HollowUp
  <2>5. Moved(u, E, N, S, x, h, p, r)
    <3>1. h \in 1 .. u.size - 1 /\ u.size \in Nat
      BY <1>2 DEF IsHollow, Queues, Setting
    <3>2. p \in 1 .. u.size - 1 /\ p # h
      BY <1>2, <2>3, <3>1
    <3> QED
      BY <1>2, <2>1, <3>2, HoldsMoved
  <2>6. Keeps(r, q, E, S) /\ r \in Queues(E, N)
    BY <1>2, <2>5 DEF Moved, Keeps
  <2>7. p \in 1 .. N /\ p < h
    BY <1>2, <2>3 DEF Setting
  <2>8. t \in Rising(q, E, N, pri, S, x)
    BY <2>2, <2>4, <2>6, <2>7 DEF Rising
  <2> QED
    BY <1>1, <2>2, <2>7, <2>8
<1>4. CASE ~(h > 1 /\ pri[u.d[parent(h)]] > pri[x])
  <2>1. t = s
    BY <1>1, <1>4 DEF BubbleRound, cmppri
  <2>2. Over(u, pri, h, pri[x])
    <3> SUFFICES ASSUME h > 1
                 PROVE  pri[u.d[parent(h)]] <= pri[x]
      BY DEF Over
    <3>1. PICK p \in 1 .. h - 1 : p = parent(h)
      BY <1>2, Parents
    <3>2. u.size \in Nat /\ h \in 1 .. u.size - 1
      BY <1>2 DEF IsHollow, Queues, Setting
    <3>3. p \in 1 .. u.size - 1 /\ p # h
      BY <3>1, <3>2
    <3>4. u.d[p] \in S
      BY <1>2, <3>3 DEF IsHollow, Holds
    <3>5. pri[u.d[p]] \in Int /\ pri[x] \in Int
      BY <3>4 DEF Setting
    <3> QED
      BY <1>4, <3>1, <3>5
  <2> QED
    BY <1>1, <2>1, <2>2
<1> QED
    BY <1>3, <1>4

\* The recursive function in bubble_up is the loop.
LEMMA BubbleLoop ==
    ASSUME NEW q, NEW pri, NEW h \in Nat, NEW States, NEW a \in States, a = [q |-> q, i |-> h],
           NEW step \in [States -> States], NEW x, x = q.d[h],
           \A s \in States : step[s] = BubbleRound(s, pri, x)
    PROVE  Rounds(Bubble(q, pri, h), h, States, a, step)
<1> DEFINE It(f) == f = [n \in 0 .. h |-> IF n = 0 THEN [q |-> q, i |-> h]
                                         ELSE BubbleRound(f[n - 1], pri, q.d[h])]
<1>1. PICK g : Rounds(g, h, States, a, step) /\ IsLoop(g, h, a, step)
    BY RoundsExist
<1>2. It(g)
  <2>1. ASSUME NEW n \in 0 .. h, n # 0
        PROVE  step[g[n - 1]] = BubbleRound(g[n - 1], pri, x)
    <3>1. n - 1 \in 0 .. h
      BY <2>1
    <3>2. g[n - 1] \in States
      BY <1>1, <3>1 DEF Rounds
    <3> QED
      BY <3>2
  <2> QED
    BY <1>1, <2>1 DEF IsLoop
<1>3. PICK f : f = CHOOSE w : It(w)
    OBVIOUS
<1>4. It(f)
  <2> HIDE DEF It
  <2> QED
    BY <1>2, <1>3
<1>5. Bubble(q, pri, h) = f
    BY <1>3 DEF Bubble
<1>6. f[0] = a /\ \A n \in 1 .. h : f[n] = BubbleRound(f[n - 1], pri, x)
  <2>1. 0 \in 0 .. h
    OBVIOUS
  <2>2. \A n \in 1 .. h : n \in 0 .. h /\ n # 0
    OBVIOUS
  <2> QED
    BY <1>4, <2>1, <2>2
<1> DEFINE T == {n \in 0 .. h : f[n] \in States}
<1>7. 0 \in T
    BY <1>6
<1>8. ASSUME NEW n \in 0 .. h - 1, n \in T
      PROVE  n + 1 \in T
  <2>1. n + 1 \in 1 .. h /\ (n + 1) - 1 = n /\ n + 1 \in 0 .. h
    OBVIOUS
  <2>2. PICK s \in States : s = f[n]
    BY <1>8
  <2>3. f[n + 1] = step[s]
    BY <1>6, <2>1, <2>2
  <2>4. step[s] \in States
    OBVIOUS
  <2> QED
    BY <2>1, <2>3, <2>4
<1>9. T \in SUBSET (0 .. h)
    OBVIOUS
<1>10. \A n \in 0 .. h : n \in T
  <2> HIDE DEF T
  <2> QED
    BY <1>7, <1>8, <1>9, UpTo
<1>11. f \in [0 .. h -> States]
    BY <1>4, <1>10
<1>12. ASSUME NEW n \in 1 .. h
       PROVE  f[n] = step[f[n - 1]]
  <2>1. n - 1 \in 0 .. h
    OBVIOUS
  <2> QED
    BY <1>6, <1>11, <2>1
<1> QED
    BY <1>5, <1>6, <1>11, <1>12 DEF Rounds

\* bubble_up from a hole whose element goes before those below it.
LEMMA BubbleUp ==
    ASSUME NEW E, NEW N, NEW pri, NEW S, Setting(E, N, pri, S), NEW x \in S, NEW q, NEW h,
           IsHollow(q, E, N, pri, S, x, h), Under(q, pri, h, pri[x]), q.d[h] = x,
           NEW r, r = bubble_up(q, pri, h)
    PROVE  IsHeap(r, E, N, pri, S) /\ Keeps(r, q, E, S)
<1>1. N \in Nat /\ q \in Queues(E, N) /\ q.size \in 1 .. N + 1 /\ h \in 1 .. q.size - 1 /\ h \in 1 .. N /\ h \in Nat
    BY DEF IsHollow, Setting, Queues
<1>2. PICK States : States = Rising(q, E, N, pri, S, x)
    OBVIOUS
<1>3. PICK a : a = [q |-> q, i |-> h]
    OBVIOUS
<1>4. a \in States
    BY <1>1, <1>2, <1>3 DEF Rising, Keeps
<1>5. PICK step : step = [s \in States |-> BubbleRound(s, pri, x)]
    OBVIOUS
<1>6. PICK rank : rank = [s \in States |-> -s.i]
    OBVIOUS
<1>7. \A s \in States : s.i \in 1 .. N
    BY <1>2 DEF Rising
<1>8. ASSUME NEW s \in States
      PROVE  /\ step[s] \in States
             /\ (step[s] = s /\ Over(s.q, pri, s.i, pri[x])) \/ step[s].i < s.i
  <2>1. step[s] = BubbleRound(s, pri, x)
    BY <1>5
  <2> QED
    BY <1>2, <2>1, BubbleRounds
<1>9. step \in [States -> States] /\ rank \in [States -> Int]
    BY <1>1, <1>5, <1>6, <1>7, <1>8
<1>10. \A s \in States : step[s] = s \/ rank[step[s]] >= rank[s] + 1
  <2> SUFFICES ASSUME NEW s \in States, step[s] # s
               PROVE  rank[step[s]] >= rank[s] + 1
    OBVIOUS
  <2>1. PICK t \in States : t = step[s] /\ t.i < s.i
    BY <1>8
  <2>2. rank[t] = -t.i /\ rank[s] = -s.i /\ t.i \in Int /\ s.i \in Int
    BY <1>6, <1>7
  <2> QED
    BY <2>1, <2>2
<1>11. PICK f : f = Bubble(q, pri, h) /\ Rounds(f, h, States, a, step)
  <2>1. \A s \in States : step[s] = BubbleRound(s, pri, x)
    BY <1>5
  <2>2. Rounds(Bubble(q, pri, h), h, States, a, step)
    BY <1>1, <1>3, <1>4, <1>9, <2>1, BubbleLoop
  <2> QED
    BY <2>2
<1>12. PICK z : z = f[h]
    OBVIOUS
<1>13. z \in States /\ (step[z] = z \/ rank[z] >= rank[a] + h)
    BY <1>1, <1>4, <1>9, <1>10, <1>11, <1>12, RoundsEnd
<1>14. step[z] = z
  <2>1. rank[z] = -z.i /\ z.i \in 1 .. N /\ rank[a] = -h
    BY <1>3, <1>4, <1>6, <1>7, <1>13
  <2> QED
    BY <1>1, <1>13, <2>1
<1>15. Over(z.q, pri, z.i, pri[x])
  <2>1. ~(z.i < z.i)
    BY <1>7, <1>13
  <2> QED
    BY <1>8, <1>13, <1>14, <2>1
<1>16. r = Place(z.q, z.i, x)
    BY <1>11, <1>12 DEF bubble_up
<1>17. IsHollow(z.q, E, N, pri, S, x, z.i) /\ Under(z.q, pri, z.i, pri[x]) /\ Keeps(z.q, q, E, S)
    BY <1>2, <1>13 DEF Rising
<1>18. IsHeap(r, E, N, pri, S) /\ Keeps(r, z.q, E, S)
  <2>1. PICK u, i : u = z.q /\ i = z.i
    OBVIOUS
  <2>2. IsHeap(r, E, N, pri, S) /\ r.size = u.size /\ \A y \in E \ S : r.pos[y] = u.pos[y]
    BY <1>15, <1>16, <1>17, <2>1, Filled
  <2> QED
    BY <2>1, <2>2 DEF Keeps
<1> QED
    BY <1>17, <1>18 DEF Keeps

\* The states of percolate_down.
Sinking(q, E, N, pri, S, x) ==
    {s \in [q : Queues(E, N), i : 1 .. N] :
        /\ Keeps(s.q, q, E, S) /\ IsHollow(s.q, E, N, pri, S, x, s.i)
        /\ Over(s.q, pri, s.i, pri[x])}

\* A round of percolate_down is one of them again; the last one finds the place.
LEMMA PercolateRounds ==
    ASSUME NEW E, NEW N, NEW pri, NEW S, Setting(E, N, pri, S), NEW x \in S, NEW q,
           NEW s \in Sinking(q, E, N, pri, S, x), NEW t, t = PercolateRound(s, pri, x)
    PROVE  /\ t \in Sinking(q, E, N, pri, S, x)
           /\ (t = s /\ Under(s.q, pri, s.i, pri[x])) \/ t.i > s.i
<1>1. PICK u, h, c : u = s.q /\ h = s.i /\ c = maxchild(u, pri, h)
    OBVIOUS
<1>2. /\ u \in Queues(E, N) /\ h \in 1 .. N /\ Keeps(u, q, E, S) /\ IsHollow(u, E, N, pri, S, x, h)
      /\ Over(u, pri, h, pri[x]) /\ s = [q |-> u, i |-> h]
    BY <1>1 DEF Sinking
<1>3. u.size \in 1 .. N + 1 /\ N \in Nat /\ h \in 1 .. u.size - 1
    BY <1>2 DEF IsHollow, Queues, Setting
<1>4. /\ c = 0 => \A j \in 2 .. u.size - 1 : parent(j) # h
      /\ c # 0 => c \in 2 .. u.size - 1 /\ parent(c) = h /\ c # h /\ Under(u, pri, h, pri[u.d[c]])
    BY <1>1, <1>2, FirstChild
<1>5. CASE c # 0 /\ pri[x] > pri[u.d[c]]
  <2>1. PICK r : r = Place(u, h, u.d[c])
    OBVIOUS
  <2>2. t = [q |-> r, i |-> c]
    BY <1>1, <1>5, <2>1 DEF PercolateRound, cmppri
  <2>3. c \in 2 .. u.size - 1 /\ parent(c) = h /\ c # h /\ Under(u, pri, h, pri[u.d[c]])
    BY <1>4, <1>5
  <2>4. IsHollow(r, E, N, pri, S, x, c) /\ Over(r, pri, c, pri[x])
    BY <1>2, <1>5, <2>1, <2>3, HollowDown
  <2>5. Moved(u, E, N, S, x, h, c, r)
    <3>1. c \in 1 .. u.size - 1 /\ c # h
      BY <1>3, <2>3
    <3> QED
      BY <1>2, <2>1, <3>1, HoldsMoved
  <2>6. Keeps(r, q, E, S) /\ r \in Queues(E, N)
    BY <1>2, <2>5 DEF Moved, Keeps
  <2>7. c \in 1 .. N /\ c > h
    <3>1. c \in Nat /\ c > 1 /\ c \in 1 .. N
      BY <1>3, <2>3
    <3>2. h \in 1 .. c - 1
      BY <2>3, <3>1, Parents
    <3> QED
      BY <3>1, <3>2
  <2>8. t \in Sinking(q, E, N, pri, S, x)
    BY <2>2, <2>4, <2>6, <2>7 DEF Sinking
  <2> QED
    BY <1>1, <2>2, <2>7, <2>8
<1>6. CASE ~(c # 0 /\ pri[x] > pri[u.d[c]])
  <2>1. t = s
    BY <1>1, <1>6 DEF PercolateRound, cmppri
  <2>2. Under(u, pri, h, pri[x])
    <3>1. CASE c = 0
      BY <1>4, <3>1 DEF Under
    <3>2. CASE c # 0
      <4>1. c \in 1 .. u.size - 1 /\ c # h /\ Under(u, pri, h, pri[u.d[c]])
        BY <1>3, <1>4, <3>2
      <4>2. u.d[c] \in S
        BY <1>2, <4>1 DEF IsHollow, Holds
      <4>3. pri[u.d[c]] \in Int /\ pri[x] \in Int /\ pri[x] <= pri[u.d[c]]
        BY <1>6, <3>2, <4>2 DEF Setting
      <4>4. ASSUME NEW j \in 2 .. u.size - 1, parent(j) = h
            PROVE  pri[x] <= pri[u.d[j]]
        <5>1. j # h
          <6>1. parent(j) \in 1 .. j - 1
            BY <1>3, Parents
          <6> QED
            BY <4>4, <6>1
        <5>2. u.d[j] \in S
          BY <1>2, <1>3, <5>1 DEF IsHollow, Holds
        <5>3. pri[u.d[j]] \in Int
          BY <5>2 DEF Setting
        <5>4. pri[u.d[c]] <= pri[u.d[j]]
          BY <4>1, <4>4 DEF Under
        <5> QED
          BY <4>3, <5>3, <5>4
      <4> QED
        BY <4>4 DEF Under
    <3> QED
      BY <3>1, <3>2
  <2> QED
    BY <1>1, <2>1, <2>2
<1> QED
    BY <1>5, <1>6

\* The recursive function in percolate_down is the loop.
LEMMA PercolateLoop ==
    ASSUME NEW q, NEW pri, NEW h \in Nat, NEW K \in Nat, K = q.size, NEW States, NEW a \in States, a = [q |-> q, i |-> h],
           NEW step \in [States -> States], NEW x, x = q.d[h],
           \A s \in States : step[s] = PercolateRound(s, pri, x)
    PROVE  Rounds(Percolate(q, pri, h), K, States, a, step)
<1> DEFINE It(f) == f = [n \in 0 .. K |-> IF n = 0 THEN [q |-> q, i |-> h]
                                         ELSE PercolateRound(f[n - 1], pri, q.d[h])]
<1>1. PICK g : Rounds(g, K, States, a, step) /\ IsLoop(g, K, a, step)
    BY RoundsExist
<1>2. It(g)
  <2>1. ASSUME NEW n \in 0 .. K, n # 0
        PROVE  step[g[n - 1]] = PercolateRound(g[n - 1], pri, x)
    <3>1. n - 1 \in 0 .. K
      BY <2>1
    <3>2. g[n - 1] \in States
      BY <1>1, <3>1 DEF Rounds
    <3> QED
      BY <3>2
  <2> QED
    BY <1>1, <2>1 DEF IsLoop
<1>3. PICK f : f = CHOOSE w : It(w)
    OBVIOUS
<1>4. It(f)
  <2> HIDE DEF It
  <2> QED
    BY <1>2, <1>3
<1>5. Percolate(q, pri, h) = f
    BY <1>3 DEF Percolate
<1>6. f[0] = a /\ \A n \in 1 .. K : f[n] = PercolateRound(f[n - 1], pri, x)
  <2>1. 0 \in 0 .. K
    OBVIOUS
  <2>2. \A n \in 1 .. K : n \in 0 .. K /\ n # 0
    OBVIOUS
  <2> QED
    BY <1>4, <2>1, <2>2
<1> DEFINE T == {n \in 0 .. K : f[n] \in States}
<1>7. 0 \in T
    BY <1>6
<1>8. ASSUME NEW n \in 0 .. K - 1, n \in T
      PROVE  n + 1 \in T
  <2>1. n + 1 \in 1 .. K /\ (n + 1) - 1 = n /\ n + 1 \in 0 .. K
    OBVIOUS
  <2>2. PICK s \in States : s = f[n]
    BY <1>8
  <2>3. f[n + 1] = step[s]
    BY <1>6, <2>1, <2>2
  <2>4. step[s] \in States
    OBVIOUS
  <2> QED
    BY <2>1, <2>3, <2>4
<1>9. T \in SUBSET (0 .. K)
    OBVIOUS
<1>10. \A n \in 0 .. K : n \in T
  <2> HIDE DEF T
  <2> QED
    BY <1>7, <1>8, <1>9, UpTo
<1>11. f \in [0 .. K -> States]
    BY <1>4, <1>10
<1>12. ASSUME NEW n \in 1 .. K
       PROVE  f[n] = step[f[n - 1]]
  <2>1. n - 1 \in 0 .. K
    OBVIOUS
  <2> QED
    BY <1>6, <1>11, <2>1
<1> QED
    BY <1>5, <1>6, <1>11, <1>12 DEF Rounds

\* percolate_down from a hole whose element goes after the one above it.
LEMMA PercolateDown ==
    ASSUME NEW E, NEW N, NEW pri, NEW S, Setting(E, N, pri, S), NEW x \in S, NEW q, NEW h,
           IsHollow(q, E, N, pri, S, x, h), Over(q, pri, h, pri[x]), q.d[h] = x,
           NEW r, r = percolate_down(q, pri, h)
    PROVE  IsHeap(r, E, N, pri, S) /\ Keeps(r, q, E, S)
<1>1. N \in Nat /\ q \in Queues(E, N) /\ q.size \in 1 .. N + 1 /\ h \in 1 .. q.size - 1 /\ h \in 1 .. N /\ h \in Nat
    BY DEF IsHollow, Setting, Queues
<1>0. PICK K \in Nat : K = q.size
    BY <1>1
<1>2. PICK States : States = Sinking(q, E, N, pri, S, x)
    OBVIOUS
<1>3. PICK a : a = [q |-> q, i |-> h]
    OBVIOUS
<1>4. a \in States
    BY <1>1, <1>2, <1>3 DEF Sinking, Keeps
<1>5. PICK step : step = [s \in States |-> PercolateRound(s, pri, x)]
    OBVIOUS
<1>6. PICK rank : rank = [s \in States |-> s.i]
    OBVIOUS
<1>7. \A s \in States : s.i \in 1 .. N
    BY <1>2 DEF Sinking
<1>8. ASSUME NEW s \in States
      PROVE  /\ step[s] \in States
             /\ (step[s] = s /\ Under(s.q, pri, s.i, pri[x])) \/ step[s].i > s.i
  <2>1. step[s] = PercolateRound(s, pri, x)
    BY <1>5
  <2> QED
    BY <1>2, <2>1, PercolateRounds
<1>9. step \in [States -> States] /\ rank \in [States -> Int]
    BY <1>1, <1>5, <1>6, <1>7, <1>8
<1>10. \A s \in States : step[s] = s \/ rank[step[s]] >= rank[s] + 1
  <2> SUFFICES ASSUME NEW s \in States, step[s] # s
               PROVE  rank[step[s]] >= rank[s] + 1
    OBVIOUS
  <2>1. PICK t \in States : t = step[s] /\ t.i > s.i
    BY <1>8
  <2>2. rank[t] = t.i /\ rank[s] = s.i /\ t.i \in Int /\ s.i \in Int
    BY <1>6, <1>7
  <2> QED
    BY <2>1, <2>2
<1>11. PICK f : f = Percolate(q, pri, h) /\ Rounds(f, K, States, a, step)
  <2>1. \A s \in States : step[s] = PercolateRound(s, pri, x)
    BY <1>5
  <2>2. Rounds(Percolate(q, pri, h), K, States, a, step)
    BY <1>1, <1>0, <1>3, <1>4, <1>9, <2>1, PercolateLoop
  <2> QED
    BY <2>2
<1>12. PICK z : z = f[K]
    OBVIOUS
<1>13. z \in States /\ (step[z] = z \/ rank[z] >= rank[a] + K)
    BY <1>1, <1>4, <1>9, <1>10, <1>11, <1>12, RoundsEnd
<1>14. step[z] = z
  <2>1. rank[z] = z.i /\ z.i \in 1 .. N /\ rank[a] = h
    BY <1>3, <1>4, <1>6, <1>7, <1>13
  <2>2. z.i \in 1 .. q.size - 1
    BY <1>2, <1>13 DEF Sinking, IsHollow, Keeps
  <2> QED
    BY <1>0, <1>1, <1>13, <2>1, <2>2
<1>15. Under(z.q, pri, z.i, pri[x])
  <2>1. ~(z.i > z.i)
    BY <1>7, <1>13
  <2> QED
    BY <1>8, <1>13, <1>14, <2>1
<1>16. r = Place(z.q, z.i, x)
    BY <1>0, <1>11, <1>12 DEF percolate_down
<1>17. IsHollow(z.q, E, N, pri, S, x, z.i) /\ Over(z.q, pri, z.i, pri[x]) /\ Keeps(z.q, q, E, S)
    BY <1>2, <1>13 DEF Sinking
<1>18. IsHeap(r, E, N, pri, S) /\ Keeps(r, z.q, E, S)
  <2>1. PICK u, i : u = z.q /\ i = z.i
    OBVIOUS
  <2>2. IsHeap(r, E, N, pri, S) /\ r.size = u.size /\ \A y \in E \ S : r.pos[y] = u.pos[y]
    BY <1>15, <1>16, <1>17, <2>1, Filled
  <2> QED
    BY <2>1, <2>2 DEF Keeps
<1> QED
    BY <1>17, <1>18 DEF Keeps

-----------------------------------------------------------------------------
(* The operations. *)

\* Facts about the parts of a heap.
LEMMA HeapParts ==
    ASSUME NEW E, NEW N, NEW pri, NEW S, Setting(E, N, pri, S), NEW q, IsHeap(q, E, N, pri, S)
    PROVE  /\ N \in Nat /\ q \in Queues(E, N) /\ q.size \in 1 .. N + 1
           /\ q.d \in [0 .. N -> E \cup {NIL}] /\ q.pos \in [E -> 0 .. N]
           /\ q = [d |-> q.d, size |-> q.size, pos |-> q.pos]
           /\ \A j \in 1 .. q.size - 1 : q.d[j] \in S /\ q.pos[q.d[j]] = j
           /\ \A y \in S : q.pos[y] \in 1 .. q.size - 1 /\ q.d[q.pos[y]] = y /\ y \in E
           /\ \A j \in 2 .. q.size - 1 :
                parent(j) \in 1 .. j - 1 /\ pri[q.d[parent(j)]] <= pri[q.d[j]]
                /\ pri[q.d[j]] \in Int /\ pri[q.d[parent(j)]] \in Int
<1>1. /\ N \in Nat /\ q \in Queues(E, N) /\ q.size \in 1 .. N + 1
      /\ q.d \in [0 .. N -> E \cup {NIL}] /\ q.pos \in [E -> 0 .. N]
      /\ q = [d |-> q.d, size |-> q.size, pos |-> q.pos]
    BY DEF IsHeap, Queues, Setting
<1>2. \A j \in 1 .. q.size - 1 : q.d[j] \in S /\ q.pos[q.d[j]] = j
    BY <1>1 DEF IsHeap, Holds
<1>3. \A y \in S : q.pos[y] \in 1 .. q.size - 1 /\ q.d[q.pos[y]] = y /\ y \in E
    BY <1>1 DEF IsHeap, Holds, Setting
<1>4. ASSUME NEW j \in 2 .. q.size - 1
      PROVE  parent(j) \in 1 .. j - 1 /\ pri[q.d[parent(j)]] <= pri[q.d[j]]
             /\ pri[q.d[j]] \in Int /\ pri[q.d[parent(j)]] \in Int
  <2>1. j \in Nat /\ j > 1 /\ j \in 1 .. q.size - 1 /\ j # 0
    BY <1>1
  <2>2. PICK g \in 1 .. j - 1 : g = parent(j)
    BY <2>1, Parents
  <2>3. g \in 1 .. q.size - 1 /\ g # 0
    BY <1>1
  <2>4. pri[q.d[g]] <= pri[q.d[j]]
    BY <2>1, <2>2, <2>3 DEF IsHeap, Order
  <2>5. q.d[j] \in S /\ q.d[g] \in S
    BY <1>2, <2>1, <2>3
  <2> QED
    BY <2>2, <2>4, <2>5 DEF Setting
<1> QED
    BY <1>1, <1>2, <1>3, <1>4

\* Only x may have another priority in new.
ButOne(new, pri, E, x) == new \in [E -> Int] /\ \A y \in E : y # x => new[y] = pri[y]

\* The slot of x is a hole in which its old priority fits.
HoleFits(q, E, N, pri, new, S, x, h) ==
    /\ IsHollow(q, E, N, new, S, x, h) /\ q.d[h] = x
    /\ Under(q, new, h, pri[x]) /\ Over(q, new, h, pri[x])

\* An element of a heap leaves a hole in which its priority fits, whatever
\* priority it has itself by now.
LEMMA HoleOf ==
    ASSUME NEW E, NEW N, NEW pri, NEW S, Setting(E, N, pri, S), NEW x \in S, NEW q,
           IsHeap(q, E, N, pri, S), NEW h, h = q.pos[x],
           NEW new, ButOne(new, pri, E, x)
    PROVE  HoleFits(q, E, N, pri, new, S, x, h)
<1>0. new \in [E -> Int] /\ \A y \in E : y # x => new[y] = pri[y]
    BY DEF ButOne
<1>1. /\ N \in Nat /\ q \in Queues(E, N) /\ q.size \in 1 .. N + 1
      /\ \A j \in 1 .. q.size - 1 : q.d[j] \in S /\ q.pos[q.d[j]] = j
      /\ \A y \in S : q.pos[y] \in 1 .. q.size - 1 /\ q.d[q.pos[y]] = y /\ y \in E
    BY HeapParts
<1>2. \A j \in 2 .. q.size - 1 :
            parent(j) \in 1 .. j - 1 /\ pri[q.d[parent(j)]] <= pri[q.d[j]]
            /\ pri[q.d[j]] \in Int /\ pri[q.d[parent(j)]] \in Int
    BY HeapParts
<1>3. h \in 1 .. q.size - 1 /\ q.d[h] = x
    BY <1>1
<1>4. ASSUME NEW j \in 1 .. q.size - 1, j # h
      PROVE  q.d[j] \in S \ {x} /\ new[q.d[j]] = pri[q.d[j]]
    BY <1>0, <1>1, <1>4
<1>5. Holds(q, S \ {x}, h)
  <2>1. ASSUME NEW y \in S \ {x}
        PROVE  q.pos[y] \in 1 .. q.size - 1 /\ q.pos[y] # h /\ q.d[q.pos[y]] = y
    BY <1>1, <1>3
  <2> QED
    BY <1>1, <1>4, <2>1 DEF Holds
<1>6. Order(q, new, h)
  <2> SUFFICES ASSUME NEW j \in 2 .. q.size - 1, NEW g, g = parent(j), j # h, g # h
               PROVE  new[q.d[g]] <= new[q.d[j]]
    BY DEF Order
  <2>1. g \in 1 .. q.size - 1 /\ j \in 1 .. q.size - 1
    BY <1>1, <1>2
  <2> QED
    BY <1>2, <1>4, <2>1
<1>7. Under(q, new, h, pri[x])
  <2> SUFFICES ASSUME NEW j \in 2 .. q.size - 1, parent(j) = h
               PROVE  pri[x] <= new[q.d[j]]
    BY DEF Under
  <2>1. j \in 1 .. q.size - 1 /\ j # h
    BY <1>1, <1>2
  <2> QED
    BY <1>2, <1>3, <1>4, <2>1
<1>8. Over(q, new, h, pri[x])
  <2> SUFFICES ASSUME h > 1, NEW g, g = parent(h)
               PROVE  new[q.d[g]] <= pri[x]
    BY DEF Over
  <2>1. h \in 2 .. q.size - 1
    BY <1>1, <1>3
  <2>2. g \in 1 .. q.size - 1 /\ g # h
    BY <1>1, <1>2, <2>1
  <2> QED
    BY <1>2, <1>3, <1>4, <2>1, <2>2
<1>9. Around(q, new, h)
  <2> SUFFICES ASSUME h > 1, NEW j \in 2 .. q.size - 1, parent(j) = h
               PROVE  new[q.d[parent(h)]] <= new[q.d[j]]
    BY DEF Around
  <2>1. new[q.d[parent(h)]] <= pri[x] /\ pri[x] <= new[q.d[j]]
    BY <1>7, <1>8 DEF Under, Over
  <2>2. h \in 2 .. q.size - 1 /\ j # h /\ j \in 1 .. q.size - 1
    BY <1>1, <1>2, <1>3
  <2>3. parent(h) \in 1 .. q.size - 1 /\ parent(h) # h
    BY <1>1, <1>2, <2>2
  <2>4. q.d[parent(h)] \in E /\ q.d[j] \in E /\ x \in E
    BY <1>1, <2>2, <2>3
  <2>5. new[q.d[parent(h)]] \in Int /\ new[q.d[j]] \in Int /\ pri[x] \in Int
    BY <1>0, <2>4 DEF Setting
  <2> QED
    BY <2>1, <2>5
<1> QED
    BY <1>1, <1>3, <1>5, <1>6, <1>7, <1>8, <1>9 DEF IsHollow, HoleFits

\* pqueue_change_priority keeps the heap, for the new priorities.
LEMMA ChangeKeepsHeap ==
    ASSUME NEW E, NEW N, NEW pri, NEW S, Setting(E, N, pri, S), NEW x \in S, NEW q,
           IsHeap(q, E, N, pri, S), NEW p \in Int, NEW new, new = [pri EXCEPT ![x] = p],
           NEW r, r = pqueue_change_priority(q, pri, p, x)
    PROVE  IsHeap(r, E, N, new, S) /\ Keeps(r, q, E, S) /\ Setting(E, N, new, S)
<1>1. /\ pri \in [E -> Int] /\ x \in E /\ new \in [E -> Int] /\ new[x] = p
      /\ \A y \in E : y # x => new[y] = pri[y]
    BY DEF Setting
<1>2. Setting(E, N, new, S)
    BY <1>1 DEF Setting
<1>3. PICK h : h = q.pos[x]
    OBVIOUS
<1>4. /\ IsHollow(q, E, N, new, S, x, h) /\ q.d[h] = x
      /\ Under(q, new, h, pri[x]) /\ Over(q, new, h, pri[x])
  <2>1. ButOne(new, pri, E, x)
    BY <1>1 DEF ButOne
  <2>2. HoleFits(q, E, N, pri, new, S, x, h)
    BY <1>3, <2>1, HoleOf
  <2> QED
    BY <2>2 DEF HoleFits
<1>5. q.size \in Nat /\ h \in 1 .. q.size - 1
    BY <1>4 DEF IsHollow, Queues, Setting
<1>6. CASE pri[x] > p
  <2>1. r = bubble_up(q, new, h)
    BY <1>3, <1>6 DEF pqueue_change_priority, cmppri
  <2>2. Under(q, new, h, new[x])
    <3> SUFFICES ASSUME NEW j \in 2 .. q.size - 1, parent(j) = h
                 PROVE  new[x] <= new[q.d[j]]
      BY DEF Under
    <3>1. pri[x] <= new[q.d[j]]
      BY <1>4 DEF Under
    <3>2. j # h
      <4>1. parent(j) \in 1 .. j - 1
        BY <1>5, Parents
      <4> QED
        BY <4>1
    <3>3. q.d[j] \in S
      BY <1>4, <1>5, <3>2 DEF IsHollow, Holds
    <3>4. new[q.d[j]] \in Int /\ pri[x] \in Int
      BY <1>1, <3>3 DEF Setting
    <3> QED
      BY <1>1, <1>6, <3>1, <3>4
  <2> QED
    BY <1>2, <1>4, <2>1, <2>2, BubbleUp
<1>7. CASE ~(pri[x] > p)
  <2>1. r = percolate_down(q, new, h)
    BY <1>3, <1>7 DEF pqueue_change_priority, cmppri
  <2>2. Over(q, new, h, new[x])
    <3> SUFFICES ASSUME h > 1
                 PROVE  new[q.d[parent(h)]] <= new[x]
      BY DEF Over
    <3>1. new[q.d[parent(h)]] <= pri[x]
      BY <1>4 DEF Over
    <3>2. PICK g \in 1 .. h - 1 : g = parent(h)
      BY <1>5, Parents
    <3>3. q.d[g] \in S
      <4>1. g \in 1 .. q.size - 1 /\ g # h
        BY <1>5, <3>2
      <4> QED
        BY <1>4, <4>1 DEF IsHollow, Holds
    <3>4. new[q.d[g]] \in Int /\ pri[x] \in Int
      BY <1>1, <3>3 DEF Setting
    <3> QED
      BY <1>1, <1>7, <3>1, <3>2, <3>4
  <2> QED
    BY <1>2, <1>4, <2>1, <2>2, PercolateDown
<1> QED
    BY <1>2, <1>6, <1>7

\* A heap for some priorities is one for others that its elements share.
LEMMA SamePriorities ==
    ASSUME NEW E, NEW N, NEW pri, NEW S, Setting(E, N, pri, S), NEW q, IsHeap(q, E, N, pri, S),
           NEW new \in [E -> Int], \A y \in S : new[y] = pri[y]
    PROVE  IsHeap(q, E, N, new, S) /\ Setting(E, N, new, S)
<1>1. /\ N \in Nat /\ q \in Queues(E, N) /\ q.size \in 1 .. N + 1
      /\ \A j \in 1 .. q.size - 1 : q.d[j] \in S
    BY HeapParts
<1>2. \A j \in 2 .. q.size - 1 : parent(j) \in 1 .. j - 1 /\ pri[q.d[parent(j)]] <= pri[q.d[j]]
    BY HeapParts
<1>3. Order(q, new, 0)
  <2> SUFFICES ASSUME NEW j \in 2 .. q.size - 1, NEW g, g = parent(j)
               PROVE  new[q.d[g]] <= new[q.d[j]]
    BY DEF Order
  <2>1. g \in 1 .. q.size - 1 /\ j \in 1 .. q.size - 1
    BY <1>1, <1>2
  <2>2. new[q.d[g]] = pri[q.d[g]] /\ new[q.d[j]] = pri[q.d[j]]
    BY <1>1, <2>1
  <2> QED
    BY <1>2, <2>2
<1> QED
    BY <1>3 DEF IsHeap, Setting

\* r is q with the position of x reset.
Forgets(q, x, r) == r = [q EXCEPT !.pos[x] = 0]

\* The position of an element that is not in the heap.
LEMMA Forgotten ==
    ASSUME NEW E, NEW N, NEW pri, NEW S, Setting(E, N, pri, S), NEW q, IsHeap(q, E, N, pri, S),
           NEW x \in E \ S, NEW r, Forgets(q, x, r)
    PROVE  /\ IsHeap(r, E, N, pri, S) /\ r.size = q.size /\ r.d = q.d
           /\ r.pos[x] = 0 /\ \A y \in E \ {x} : r.pos[y] = q.pos[y]
<1>1. /\ N \in Nat /\ q.size \in 1 .. N + 1
      /\ q.d \in [0 .. N -> E \cup {NIL}] /\ q.pos \in [E -> 0 .. N]
      /\ q = [d |-> q.d, size |-> q.size, pos |-> q.pos]
    BY HeapParts
<1>2. /\ r = [d |-> q.d, size |-> q.size, pos |-> [q.pos EXCEPT ![x] = 0]]
      /\ r.d = q.d /\ r.size = q.size /\ r.pos = [q.pos EXCEPT ![x] = 0]
    BY <1>1 DEF Forgets
<1>3. r.pos[x] = 0 /\ \A y \in E \ {x} : r.pos[y] = q.pos[y]
    BY <1>1, <1>2
<1>4. r \in Queues(E, N)
  <2>1. 0 \in 0 .. N
    BY <1>1
  <2>2. r.pos \in [E -> 0 .. N]
    BY <1>1, <1>2, <2>1
  <2> QED
    BY <1>1, <1>2, <2>2 DEF Queues
<1>5. Holds(q, S, 0) /\ Order(q, pri, 0)
    BY DEF IsHeap
<1>6. Holds(r, S, 0)
  <2>1. \A y \in S : y \in E \ {x}
    BY DEF Setting
  <2>2. ASSUME NEW j \in 1 .. r.size - 1, j # 0
        PROVE  r.d[j] \in S /\ r.pos[r.d[j]] = j
    <3>1. q.d[j] \in S /\ q.pos[q.d[j]] = j
      BY <1>2, <1>5, <2>2 DEF Holds
    <3> QED
      BY <1>2, <1>3, <2>1, <3>1
  <2>3. ASSUME NEW y \in S
        PROVE  r.pos[y] \in 1 .. r.size - 1 /\ r.pos[y] # 0 /\ r.d[r.pos[y]] = y
    <3>1. q.pos[y] \in 1 .. q.size - 1 /\ q.pos[y] # 0 /\ q.d[q.pos[y]] = y
      BY <1>5 DEF Holds
    <3>2. r.pos[y] = q.pos[y]
      BY <1>3, <2>1
    <3> QED
      BY <1>2, <3>1, <3>2
  <2> QED
    BY <2>2, <2>3 DEF Holds
<1>7. Order(r, pri, 0)
    BY <1>2, <1>5 DEF Order
<1> QED
    BY <1>2, <1>3, <1>4, <1>6, <1>7 DEF IsHeap

\* pqueue_insert adds an element to a heap that is not full.
LEMMA InsertKeepsHeap ==
    ASSUME NEW E, NEW N, NEW pri, NEW S, Setting(E, N, pri, S), NEW q, IsHeap(q, E, N, pri, S),
           NEW x \in E \ S, q.size <= N, NEW r, r = pqueue_insert(q, pri, x)
    PROVE  /\ IsHeap(r, E, N, pri, S \cup {x}) /\ r.size = q.size + 1
           /\ \A y \in E \ (S \cup {x}) : r.pos[y] = q.pos[y]
<1>1. /\ N \in Nat /\ q.size \in 1 .. N + 1 /\ q.size \in 1 .. N
      /\ q.d \in [0 .. N -> E \cup {NIL}] /\ q.pos \in [E -> 0 .. N]
      /\ q = [d |-> q.d, size |-> q.size, pos |-> q.pos]
    BY HeapParts
<1>2. PICK n \in 1 .. N : n = q.size
    BY <1>1
<1>3. PICK u : u = [q EXCEPT !.d[q.size] = x, !.size = @ + 1]
    OBVIOUS
<1>4. /\ u = [d |-> [q.d EXCEPT ![n] = x], size |-> n + 1, pos |-> q.pos]
      /\ u.d = [q.d EXCEPT ![n] = x] /\ u.size = n + 1 /\ u.pos = q.pos
    BY <1>1, <1>2, <1>3
<1>5. n \in 0 .. N
    OBVIOUS
<1>6. u.d[n] = x /\ \A j \in 0 .. N : j # n => u.d[j] = q.d[j]
    BY <1>1, <1>4, <1>5
<1>7. u \in Queues(E, N)
  <2>1. u.d \in [0 .. N -> E \cup {NIL}] /\ n + 1 \in 1 .. N + 1
    BY <1>1, <1>4, <1>5
  <2> QED
    BY <1>1, <1>4, <2>1 DEF Queues
<1>8. (S \cup {x}) \ {x} = S
    OBVIOUS
<1>9. Holds(q, S, 0) /\ Order(q, pri, 0)
    BY DEF IsHeap
<1>10. Holds(u, S, n)
  <2>1. ASSUME NEW j \in 1 .. u.size - 1, j # n
        PROVE  u.d[j] \in S /\ u.pos[u.d[j]] = j
    <3>1. j \in 1 .. q.size - 1 /\ j # 0 /\ j \in 0 .. N
      BY <1>1, <1>2, <1>4, <2>1
    <3> QED
      BY <1>4, <1>6, <1>9, <2>1, <3>1 DEF Holds
  <2>2. ASSUME NEW y \in S
        PROVE  u.pos[y] \in 1 .. u.size - 1 /\ u.pos[y] # n /\ u.d[u.pos[y]] = y
    <3>1. PICK j \in 1 .. q.size - 1 : j = q.pos[y] /\ q.d[j] = y
      BY <1>9 DEF Holds
    <3>2. j \in 0 .. N /\ j # n /\ j \in 1 .. u.size - 1
      BY <1>1, <1>2, <1>4, <3>1
    <3> QED
      BY <1>4, <1>6, <3>1, <3>2
  <2> QED
    BY <2>1, <2>2 DEF Holds
<1>11. ASSUME NEW j \in 2 .. u.size - 1
       PROVE  parent(j) # n /\ (j # n => pri[u.d[parent(j)]] <= pri[u.d[j]])
  <2>1. PICK g \in 1 .. j - 1 : g = parent(j)
    BY <1>4, Parents
  <2>2. g # n /\ g # 0 /\ g \in 0 .. N /\ j \in 0 .. N /\ j # 0
    BY <1>1, <1>4, <2>1
  <2>3. j # n => j \in 2 .. q.size - 1
    BY <1>2, <1>4
  <2> QED
    BY <1>6, <1>9, <2>1, <2>2, <2>3 DEF Order
<1>12. Order(u, pri, n) /\ Around(u, pri, n) /\ Under(u, pri, n, pri[x])
    BY <1>11 DEF Order, Around, Under
<1>13. IsHollow(u, E, N, pri, S \cup {x}, x, n)
  <2>1. n \in 1 .. u.size - 1
    BY <1>4
  <2> QED
    BY <1>7, <1>8, <1>10, <1>12, <2>1 DEF IsHollow
<1>14. Setting(E, N, pri, S \cup {x})
    BY DEF Setting
<1>15. r = bubble_up(u, pri, n)
    BY <1>2, <1>3 DEF pqueue_insert
<1>16. PICK T : T = S \cup {x} /\ x \in T
    OBVIOUS
<1>17. IsHeap(r, E, N, pri, T) /\ Keeps(r, u, E, T)
  <2>1. IsHollow(u, E, N, pri, T, x, n) /\ Setting(E, N, pri, T) /\ x \in T
    BY <1>13, <1>14, <1>16
  <2> QED
    BY <1>6, <1>12, <1>15, <2>1, BubbleUp
<1> QED
    BY <1>2, <1>4, <1>16, <1>17 DEF Keeps

\* percolate_down from the slot behind the last one moves nothing.
LEMMA NothingBelow ==
    ASSUME NEW q, NEW pri, NEW h \in Nat \ {0}, q.size \in Nat, q.size <= h
    PROVE  percolate_down(q, pri, h) = Place(q, h, q.d[h])
<1>1. PICK K \in Nat : K = q.size /\ K <= h
    OBVIOUS
<1>2. PICK a : a = [q |-> q, i |-> h]
    OBVIOUS
<1>3. PICK States : States = {a}
    OBVIOUS
<1>4. PercolateRound(a, pri, q.d[h]) = a
  <2>1. maxchild(q, pri, h) = 0
    <3>1. PICK c \in Nat : c = left(h) /\ c >= K /\ ~(c < K)
      BY <1>1 DEF left
    <3> QED
      BY <1>1, <3>1 DEF maxchild
  <2> QED
    BY <1>2, <2>1 DEF PercolateRound
<1>5. PICK step : step = [s \in States |-> s]
    OBVIOUS
<1>6. step \in [States -> States] /\ \A s \in States : step[s] = PercolateRound(s, pri, q.d[h])
    BY <1>3, <1>4, <1>5
<1>7. Rounds(Percolate(q, pri, h), K, States, a, step)
  <2>1. h \in Nat /\ a \in States
    BY <1>3
  <2> QED
    BY <1>1, <1>2, <1>6, <2>1, PercolateLoop
<1>8. Percolate(q, pri, h)[K] = a
  <2>1. K \in 0 .. K
    OBVIOUS
  <2>2. Percolate(q, pri, h)[K] \in States
    BY <1>7, <2>1 DEF Rounds
  <2> QED
    BY <1>3, <2>2
<1> QED
    BY <1>1, <1>2, <1>8 DEF percolate_down

\* The queue q without x, whose slot the last element takes: if x is not last
\* itself, the slot is a hole in which the priority of x fits.
WithoutX(q, E, N, pri, S, x, h, last, u) ==
    /\ u.size = last /\ u.pos = q.pos /\ u \in Queues(E, N)
    /\ last \in 1 .. N /\ h \in 1 .. last /\ u.d[h] \in S
    /\ h = last => u.d = q.d
    /\ h # last => /\ IsHollow(u, E, N, pri, S \ {x}, u.d[h], h) /\ u.d[h] \in S \ {x}
                   /\ Under(u, pri, h, pri[x]) /\ Over(u, pri, h, pri[x])

\* What pqueue_remove and pqueue_pop do before the last element finds its place.
LEMMA TakenOut ==
    ASSUME NEW E, NEW N, NEW pri, NEW S, Setting(E, N, pri, S), NEW x \in S, NEW q,
           IsHeap(q, E, N, pri, S), NEW h, h = q.pos[x], NEW last, last = q.size - 1,
           NEW u, u = [q EXCEPT !.d[h] = q.d[last], !.size = last]
    PROVE  WithoutX(q, E, N, pri, S, x, h, last, u)
<1>1. /\ N \in Nat /\ q.size \in 1 .. N + 1
      /\ q.d \in [0 .. N -> E \cup {NIL}] /\ q.pos \in [E -> 0 .. N]
      /\ q = [d |-> q.d, size |-> q.size, pos |-> q.pos]
      /\ \A j \in 1 .. q.size - 1 : q.d[j] \in S /\ q.pos[q.d[j]] = j
      /\ \A y \in S : q.pos[y] \in 1 .. q.size - 1 /\ q.d[q.pos[y]] = y /\ y \in E
    BY HeapParts
<1>2. last \in 1 .. N /\ h \in 1 .. last /\ q.d[h] = x
    BY <1>1
<1>3. PICK y \in S : y = q.d[last] /\ q.pos[y] = last
  <2>1. last \in 1 .. q.size - 1
    BY <1>1, <1>2
  <2> QED
    BY <1>1, <2>1
<1>4. /\ u = [d |-> [q.d EXCEPT ![h] = y], size |-> last, pos |-> q.pos]
      /\ u.d = [q.d EXCEPT ![h] = y] /\ u.size = last /\ u.pos = q.pos
    BY <1>1, <1>3
<1>5. h \in 0 .. N /\ y \in E /\ last \in 1 .. N + 1
    BY <1>1, <1>2
<1>6. u.d[h] = y /\ \A j \in 0 .. N : j # h => u.d[j] = q.d[j]
    BY <1>1, <1>4, <1>5
<1>7. u \in Queues(E, N)
  <2>1. u.d \in [0 .. N -> E \cup {NIL}]
    BY <1>1, <1>4, <1>5
  <2> QED
    BY <1>1, <1>4, <1>5, <2>1 DEF Queues
<1>8. CASE h = last
  <2>1. u.d = q.d
    BY <1>1, <1>3, <1>4, <1>5, <1>8
  <2> QED
    BY <1>2, <1>3, <1>4, <1>6, <1>7, <1>8, <2>1 DEF WithoutX
<1>9. CASE h # last
  <2>1. y # x /\ h < last /\ y \in S \ {x}
    BY <1>2, <1>3, <1>9
  <2>2. ButOne(pri, pri, E, x)
    BY DEF ButOne, Setting
  <2>3. HoleFits(q, E, N, pri, pri, S, x, h)
    BY <2>2, HoleOf
  <2>4. /\ Holds(q, S \ {x}, h) /\ Order(q, pri, h) /\ Around(q, pri, h)
        /\ Under(q, pri, h, pri[x]) /\ Over(q, pri, h, pri[x])
    BY <2>3 DEF HoleFits, IsHollow
  <2>5. ASSUME NEW j \in 2 .. last - 1
        PROVE  /\ j \in 2 .. q.size - 1 /\ parent(j) \in 1 .. j - 1
               /\ j # h => u.d[j] = q.d[j]
               /\ parent(j) # h => u.d[parent(j)] = q.d[parent(j)]
    <3>1. j \in 2 .. q.size - 1 /\ j \in 0 .. N /\ j \in Nat /\ j > 1
      BY <1>1, <1>2
    <3>2. PICK g \in 1 .. j - 1 : g = parent(j)
      BY <3>1, Parents
    <3>3. g \in 0 .. N
      BY <1>1, <3>1, <3>2
    <3> QED
      BY <1>6, <3>1, <3>2, <3>3
  <2>6. Order(u, pri, h)
    <3> SUFFICES ASSUME NEW j \in 2 .. last - 1, j # h, parent(j) # h
                 PROVE  pri[u.d[parent(j)]] <= pri[u.d[j]]
      BY <1>4 DEF Order
    <3> QED
      BY <2>4, <2>5 DEF Order
  <2>7. Under(u, pri, h, pri[x])
    <3> SUFFICES ASSUME NEW j \in 2 .. last - 1, parent(j) = h
                 PROVE  pri[x] <= pri[u.d[j]]
      BY <1>4 DEF Under
    <3>1. j \in 2 .. q.size - 1 /\ u.d[j] = q.d[j]
      BY <1>2, <2>5
    <3> QED
      BY <2>4, <3>1 DEF Under
  <2>8. h > 1 => u.d[parent(h)] = q.d[parent(h)]
    <3> SUFFICES ASSUME h > 1
                 PROVE  u.d[parent(h)] = q.d[parent(h)]
      OBVIOUS
    <3>1. PICK g \in 1 .. h - 1 : g = parent(h)
      BY <1>2, Parents
    <3>2. g \in 0 .. N /\ g # h
      BY <1>1, <1>2, <3>1
    <3> QED
      BY <1>6, <3>1, <3>2
  <2>9. Over(u, pri, h, pri[x])
    BY <2>4, <2>8 DEF Over
  <2>10. Around(u, pri, h)
    <3> SUFFICES ASSUME h > 1, NEW j \in 2 .. last - 1, parent(j) = h
                 PROVE  pri[u.d[parent(h)]] <= pri[u.d[j]]
      BY <1>4 DEF Around
    <3>1. j \in 2 .. q.size - 1 /\ u.d[j] = q.d[j]
      BY <1>2, <2>5
    <3> QED
      BY <2>4, <2>8, <3>1 DEF Around
  <2>11. Holds(u, (S \ {x}) \ {y}, h)
    <3>1. ASSUME NEW j \in 1 .. u.size - 1, j # h
          PROVE  u.d[j] \in (S \ {x}) \ {y} /\ u.pos[u.d[j]] = j
      <4>1. j \in 1 .. q.size - 1 /\ j \in 0 .. N /\ j # last
        BY <1>1, <1>2, <1>4
      <4>2. PICK z \in S \ {x} : z = q.d[j] /\ q.pos[z] = j
        BY <2>4, <3>1, <4>1 DEF Holds
      <4>3. z # y
        BY <1>3, <4>1, <4>2
      <4> QED
        BY <1>4, <1>6, <3>1, <4>1, <4>2, <4>3
    <3>2. ASSUME NEW z \in (S \ {x}) \ {y}
          PROVE  u.pos[z] \in 1 .. u.size - 1 /\ u.pos[z] # h /\ u.d[u.pos[z]] = z
      <4>1. PICK j \in 1 .. q.size - 1 : j = q.pos[z] /\ j # h /\ q.d[j] = z
        BY <2>4 DEF Holds
      <4>2. j # last /\ j \in 0 .. N /\ j \in 1 .. u.size - 1
        BY <1>1, <1>2, <1>3, <1>4, <4>1
      <4> QED
        BY <1>4, <1>6, <4>1, <4>2
    <3> QED
      BY <3>1, <3>2 DEF Holds
  <2>12. h \in 1 .. u.size - 1
    BY <1>2, <1>4, <2>1
  <2>13. IsHollow(u, E, N, pri, S \ {x}, y, h)
    BY <1>7, <2>6, <2>10, <2>11, <2>12 DEF IsHollow
  <2> QED
    BY <1>2, <1>3, <1>4, <1>6, <1>7, <1>9, <2>1, <2>7, <2>9, <2>13 DEF WithoutX
<1> QED
    BY <1>8, <1>9

\* The last element takes the slot of x and moves up or down from there.
Settles(q, E, N, pri, S, x, r) ==
    /\ IsHeap(r, E, N, pri, S \ {x}) /\ r.size = q.size - 1
    /\ \A y \in E \ S : r.pos[y] = q.pos[y]
    /\ Setting(E, N, pri, S \ {x})

\* The last element moves up, if x went after it.
LEMMA SettlesUp ==
    ASSUME NEW E, NEW N, NEW pri, NEW S, Setting(E, N, pri, S), NEW x \in S, NEW q,
           IsHeap(q, E, N, pri, S), NEW h, NEW last, last = q.size - 1,
           NEW u, WithoutX(q, E, N, pri, S, x, h, last, u), h # last, pri[x] > pri[u.d[h]],
           NEW r, r = bubble_up(u, pri, h)
    PROVE  Settles(q, E, N, pri, S, x, r)
<1>1. PICK T, y : T = S \ {x} /\ y = u.d[h]
    OBVIOUS
<1>2. /\ u.size = last /\ u.pos = q.pos /\ IsHollow(u, E, N, pri, T, y, h) /\ y \in T
      /\ Under(u, pri, h, pri[x]) /\ u.size \in Nat
    BY <1>1 DEF WithoutX, Setting
<1>3. Setting(E, N, pri, T) /\ T \in SUBSET S /\ S \in SUBSET E
    BY <1>1 DEF Setting
<1>4. Under(u, pri, h, pri[y])
  <2> SUFFICES ASSUME NEW j \in 2 .. u.size - 1, parent(j) = h
               PROVE  pri[y] <= pri[u.d[j]]
    BY DEF Under
  <2>1. j # h
    <3>1. parent(j) \in 1 .. j - 1
      BY <1>2, Parents
    <3> QED
      BY <3>1
  <2>2. u.d[j] \in T
    BY <1>2, <2>1 DEF IsHollow, Holds
  <2>3. pri[u.d[j]] \in Int /\ pri[y] \in Int /\ pri[x] \in Int
    BY <1>2, <1>3, <2>2 DEF Setting
  <2>4. pri[x] <= pri[u.d[j]] /\ pri[x] > pri[y]
    BY <1>1, <1>2 DEF Under
  <2> QED
    BY <2>3, <2>4
<1>5. IsHeap(r, E, N, pri, T) /\ Keeps(r, u, E, T)
    BY <1>1, <1>2, <1>3, <1>4, BubbleUp
<1>6. \A z \in E \ S : r.pos[z] = q.pos[z]
    BY <1>2, <1>3, <1>5 DEF Keeps
<1> QED
    BY <1>1, <1>2, <1>3, <1>5, <1>6 DEF Settles, Keeps

\* The last element moves down, if x went before it or was at the top.
LEMMA SettlesDown ==
    ASSUME NEW E, NEW N, NEW pri, NEW S, Setting(E, N, pri, S), NEW x \in S, NEW q,
           IsHeap(q, E, N, pri, S), NEW h, NEW last, last = q.size - 1,
           NEW u, WithoutX(q, E, N, pri, S, x, h, last, u), h # last,
           pri[x] <= pri[u.d[h]] \/ h = 1, NEW r, r = percolate_down(u, pri, h)
    PROVE  Settles(q, E, N, pri, S, x, r)
<1>1. PICK T, y : T = S \ {x} /\ y = u.d[h]
    OBVIOUS
<1>2. /\ u.size = last /\ u.pos = q.pos /\ IsHollow(u, E, N, pri, T, y, h) /\ y \in T
      /\ Over(u, pri, h, pri[x]) /\ u.size \in Nat /\ h \in 1 .. u.size - 1
    BY <1>1 DEF WithoutX, Setting, IsHollow
<1>3. Setting(E, N, pri, T) /\ T \in SUBSET S /\ S \in SUBSET E
    BY <1>1 DEF Setting
<1>4. Over(u, pri, h, pri[y])
  <2> SUFFICES ASSUME h > 1
               PROVE  pri[u.d[parent(h)]] <= pri[y]
    BY DEF Over
  <2>1. PICK g \in 1 .. h - 1 : g = parent(h)
    BY <1>2, Parents
  <2>2. g \in 1 .. u.size - 1 /\ g # h
    BY <1>2, <2>1
  <2>3. u.d[g] \in T
    BY <1>2, <2>2 DEF IsHollow, Holds
  <2>4. pri[u.d[g]] \in Int /\ pri[y] \in Int /\ pri[x] \in Int
    BY <1>2, <1>3, <2>3 DEF Setting
  <2>5. pri[u.d[g]] <= pri[x] /\ pri[x] <= pri[y]
    BY <1>1, <1>2, <2>1 DEF Over
  <2> QED
    BY <2>1, <2>4, <2>5
<1>5. IsHeap(r, E, N, pri, T) /\ Keeps(r, u, E, T)
    BY <1>1, <1>2, <1>3, <1>4, PercolateDown
<1>6. \A z \in E \ S : r.pos[z] = q.pos[z]
    BY <1>2, <1>3, <1>5 DEF Keeps
<1> QED
    BY <1>1, <1>2, <1>3, <1>5, <1>6 DEF Settles, Keeps

\* x was the last element itself.
LEMMA LastSettles ==
    ASSUME NEW E, NEW N, NEW pri, NEW S, Setting(E, N, pri, S), NEW x \in S, NEW q,
           IsHeap(q, E, N, pri, S), NEW h, h = q.pos[x], NEW last, last = q.size - 1,
           NEW u, WithoutX(q, E, N, pri, S, x, h, last, u), h = last,
           NEW r, r = percolate_down(u, pri, h)
    PROVE  Settles(q, E, N, pri, S, x, r)
<1>1. /\ N \in Nat /\ q.size \in 1 .. N + 1
      /\ q.d \in [0 .. N -> E \cup {NIL}] /\ q.pos \in [E -> 0 .. N]
      /\ \A j \in 1 .. q.size - 1 : q.d[j] \in S /\ q.pos[q.d[j]] = j
      /\ \A y \in S : q.pos[y] \in 1 .. q.size - 1 /\ q.d[q.pos[y]] = y /\ y \in E
    BY HeapParts
<1>2. u.size = last /\ u.pos = q.pos /\ u.d = q.d /\ u \in Queues(E, N) /\ last \in 1 .. N
    BY DEF WithoutX
<1>3. q.d[h] = x /\ h \in 1 .. N /\ h \in Nat \ {0} /\ u.size \in Nat /\ u.size <= h
  <2>1. q.d[h] = x
    BY <1>1
  <2>2. h \in 1 .. N
    BY <1>2
  <2>3. h \in Nat \ {0}
    BY <1>1, <2>2
  <2>4. u.size = h
    BY <1>2
  <2> QED
    BY <2>1, <2>2, <2>3, <2>4
<1>4. r = Place(u, h, u.d[h])
    BY <1>3, NothingBelow
<1>5. /\ r \in Queues(E, N) /\ r.size = last
      /\ r.d[h] = x /\ \A j \in 0 .. N : j # h => r.d[j] = q.d[j]
      /\ r.pos[x] = h /\ \A y \in E : y # x => r.pos[y] = q.pos[y]
  <2>1. x \in E /\ u.d[h] = x
    BY <1>1, <1>2, <1>3
  <2>2. r = Place(u, h, x) /\ N \in Nat
    BY <1>1, <1>4, <2>1
  <2>3. PlacedAt(u, E, N, h, x, r)
    BY <1>2, <1>3, <2>1, <2>2, Placed
  <2> QED
    BY <1>2, <2>3 DEF PlacedAt
<1>6. \A y \in E : r.pos[y] = q.pos[y]
    BY <1>5
<1>7. \A j \in 0 .. N : r.d[j] = q.d[j]
    BY <1>3, <1>5
<1>8. Holds(r, S \ {x}, 0)
  <2>1. ASSUME NEW j \in 1 .. r.size - 1
        PROVE  r.d[j] \in S \ {x} /\ r.pos[r.d[j]] = j
    <3>1. j \in 1 .. q.size - 1 /\ j \in 0 .. N /\ j # h
      BY <1>1, <1>5
    <3>2. PICK z \in S : z = q.d[j] /\ q.pos[z] = j
      BY <1>1, <3>1
    <3>3. z # x /\ z \in E
      BY <1>1, <3>1, <3>2
    <3> QED
      BY <1>6, <1>7, <3>1, <3>2, <3>3
  <2>2. ASSUME NEW z \in S \ {x}
        PROVE  r.pos[z] \in 1 .. r.size - 1 /\ r.d[r.pos[z]] = z
    <3>1. PICK j \in 1 .. q.size - 1 : j = q.pos[z] /\ q.d[j] = z /\ z \in E
      BY <1>1
    <3>2. j # last
      BY <1>3, <3>1
    <3>3. j \in 1 .. r.size - 1 /\ j \in 0 .. N
      BY <1>1, <1>5, <3>1, <3>2
    <3> QED
      BY <1>6, <1>7, <3>1, <3>3
  <2> QED
    BY <1>5, <2>1, <2>2 DEF Holds
<1>9. Order(r, pri, 0)
  <2> SUFFICES ASSUME NEW j \in 2 .. r.size - 1
               PROVE  pri[r.d[parent(j)]] <= pri[r.d[j]]
    BY DEF Order
  <2>1. j \in 2 .. q.size - 1 /\ j \in 0 .. N
    BY <1>1, <1>5
  <2>2. parent(j) \in 1 .. j - 1 /\ pri[q.d[parent(j)]] <= pri[q.d[j]]
    BY <2>1, HeapParts
  <2>3. parent(j) \in 0 .. N
    BY <1>1, <2>1, <2>2
  <2> QED
    BY <1>7, <2>1, <2>2, <2>3
<1>10. Setting(E, N, pri, S \ {x}) /\ S \in SUBSET E
    BY DEF Setting
<1> QED
    BY <1>5, <1>6, <1>8, <1>9, <1>10 DEF Settles, IsHeap

\* pqueue_remove takes an element out of a heap.
LEMMA RemoveKeepsHeap ==
    ASSUME NEW E, NEW N, NEW pri, NEW S, Setting(E, N, pri, S), NEW x \in S, NEW q,
           IsHeap(q, E, N, pri, S), NEW r, r = pqueue_remove(q, pri, x)
    PROVE  Settles(q, E, N, pri, S, x, r)
<1>1. PICK h, last : h = q.pos[x] /\ last = q.size - 1
    OBVIOUS
<1>2. PICK u : u = [q EXCEPT !.d[h] = q.d[last], !.size = last]
    OBVIOUS
<1>3. WithoutX(q, E, N, pri, S, x, h, last, u)
    BY <1>1, <1>2, TakenOut
<1>4. u.d[h] \in E /\ x \in E /\ pri \in [E -> Int] /\ (h = last => u.d[h] = x)
  <2>1. \A y \in S : q.d[q.pos[y]] = y
    BY HeapParts
  <2> QED
    BY <1>1, <1>3, <2>1 DEF WithoutX, Setting
<1>5. r = IF pri[x] > pri[u.d[h]] THEN bubble_up(u, pri, h) ELSE percolate_down(u, pri, h)
    BY <1>1, <1>2 DEF pqueue_remove, cmppri
<1>6. CASE h = last
  <2>1. ~(pri[x] > pri[u.d[h]])
    BY <1>4, <1>6
  <2> QED
    BY <1>1, <1>3, <1>5, <1>6, <2>1, LastSettles
<1>7. CASE h # last /\ pri[x] > pri[u.d[h]]
    BY <1>1, <1>3, <1>5, <1>7, SettlesUp
<1>8. CASE h # last /\ ~(pri[x] > pri[u.d[h]])
  <2>1. pri[x] <= pri[u.d[h]]
    BY <1>4, <1>8
  <2> QED
    BY <1>1, <1>3, <1>5, <1>8, <2>1, SettlesDown
<1> QED
    BY <1>6, <1>7, <1>8

\* pqueue_pop takes out the element that pqueue_peek shows: one that no other
\* goes before.
LEMMA PopKeepsHeap ==
    ASSUME NEW E, NEW N, NEW pri, NEW S, Setting(E, N, pri, S), NEW q,
           IsHeap(q, E, N, pri, S), q.size # 1, NEW r, r = pqueue_pop(q, pri),
           NEW x, x = pqueue_peek(q)
    PROVE  x \in S /\ q.pos[x] = 1 /\ Settles(q, E, N, pri, S, x, r)
<1>1. /\ N \in Nat /\ q.size \in 1 .. N + 1
      /\ \A j \in 1 .. q.size - 1 : q.d[j] \in S /\ q.pos[q.d[j]] = j
    BY HeapParts
<1>2. PICK h, last : h = 1 /\ last = q.size - 1
    OBVIOUS
<1>3. x = q.d[1] /\ x \in S /\ q.pos[x] = h
    BY <1>1, <1>2 DEF pqueue_peek
<1>4. PICK u : u = [q EXCEPT !.d[h] = q.d[last], !.size = last]
    OBVIOUS
<1>5. WithoutX(q, E, N, pri, S, x, h, last, u)
    BY <1>2, <1>3, <1>4, TakenOut
<1>6. r = percolate_down(u, pri, h)
  <2>1. u = [q EXCEPT !.d[1] = q.d[q.size - 1], !.size = q.size - 1]
    BY <1>2, <1>4
  <2> QED
    BY <1>2, <2>1 DEF pqueue_pop
<1>7. CASE h = last
    BY <1>2, <1>3, <1>5, <1>6, <1>7, LastSettles
<1>8. CASE h # last
    BY <1>2, <1>3, <1>5, <1>6, <1>8, SettlesDown
<1> QED
    BY <1>2, <1>3, <1>7, <1>8

-----------------------------------------------------------------------------
(* The operations as their callers use them. *)

\* The queue, made for the elements of E, holds S and nothing else.
IsQueueOf(q, E, pri, S) ==
    /\ IsFiniteSet(E) /\ Setting(E, Cardinality(E), pri, S)
    /\ IsHeap(q, E, Cardinality(E), pri, S)
    /\ q.size - 1 = Cardinality(S)
    /\ \A y \in E \ S : q.pos[y] = 0

\* What the definition says of the slots and of the number of members.
LEMMA QueueParts ==
    ASSUME NEW E, NEW pri, NEW S, NEW q, IsQueueOf(q, E, pri, S)
    PROVE  /\ q.size \in Nat \ {0} /\ q.size - 1 = Cardinality(S) /\ S \in SUBSET E
           /\ NIL \notin E /\ pri \in [E -> Int] /\ IsFiniteSet(E)
           /\ \A j \in 1 .. q.size - 1 : q.d[j] \in S /\ q.pos[q.d[j]] = j
           /\ \A y \in S : q.pos[y] \in 1 .. q.size - 1 /\ q.d[q.pos[y]] = y
           /\ \A y \in E \ S : q.pos[y] = 0
           /\ \A j \in 2 .. q.size - 1 : parent(j) # 0 => pri[q.d[parent(j)]] <= pri[q.d[j]]
           /\ q \in Queues(E, Cardinality(E)) /\ Cardinality(E) \in Nat
<1>1. PICK N : N = Cardinality(E)
    OBVIOUS
<1>2. /\ Setting(E, N, pri, S) /\ IsHeap(q, E, N, pri, S) /\ IsFiniteSet(E)
      /\ q.size - 1 = Cardinality(S) /\ \A y \in E \ S : q.pos[y] = 0
    BY <1>1 DEF IsQueueOf
<1>3. /\ N \in Nat /\ q.size \in 1 .. N + 1
      /\ \A j \in 1 .. q.size - 1 : q.d[j] \in S /\ q.pos[q.d[j]] = j
      /\ \A y \in S : q.pos[y] \in 1 .. q.size - 1 /\ q.d[q.pos[y]] = y /\ y \in E
    BY <1>2, HeapParts
<1>4. q \in Queues(E, N) /\ \A j \in 2 .. q.size - 1 : parent(j) # 0 => pri[q.d[parent(j)]] <= pri[q.d[j]]
    BY <1>2 DEF IsHeap, Order
<1>5. S \in SUBSET E /\ NIL \notin E /\ pri \in [E -> Int]
    BY <1>2 DEF Setting
<1> QED
    BY <1>1, <1>2, <1>3, <1>4, <1>5

\* The facts back together.
LEMMA QueueMade ==
    ASSUME NEW E, IsFiniteSet(E), NEW N, N = Cardinality(E), NEW pri, NEW S, NEW q,
           IsHeap(q, E, N, pri, S), Setting(E, N, pri, S),
           q.size - 1 = Cardinality(S), \A y \in E \ S : q.pos[y] = 0
    PROVE  IsQueueOf(q, E, pri, S)
BY DEF IsQueueOf

\* A new queue is empty.
LEMMA NewQueue ==
    ASSUME NEW E, IsFiniteSet(E), NIL \notin E, NEW pri \in [E -> Int],
           NEW q, q = pqueue_init(Cardinality(E), E)
    PROVE  IsQueueOf(q, E, pri, {})
<1>1. PICK N \in Nat : N = Cardinality(E)
    BY Sizes
<1>2. q = [d |-> [i \in 0 .. N |-> NIL], size |-> 1, pos |-> [x \in E |-> 0]]
    BY <1>1 DEF pqueue_init
<1>3. q.size = 1 /\ \A y \in E : q.pos[y] = 0
    BY <1>2
<1>4. q \in Queues(E, N)
  <2>1. [i \in 0 .. N |-> NIL] \in [0 .. N -> E \cup {NIL}] /\ [x \in E |-> 0] \in [E -> 0 .. N]
    BY <1>1
  <2>2. 1 \in 1 .. N + 1
    BY <1>1
  <2> QED
    BY <1>2, <2>1, <2>2 DEF Queues
<1>5. Holds(q, {}, 0) /\ Order(q, pri, 0)
    BY <1>3 DEF Holds, Order
<1>6. Setting(E, N, pri, {}) /\ IsHeap(q, E, N, pri, {})
    BY <1>4, <1>5 DEF Setting, IsHeap
<1>7. Cardinality({}) = 0
    BY FS_EmptySet
<1> QED
    BY <1>1, <1>3, <1>6, <1>7, QueueMade

\* pqueue_insert: there is a slot for an element outside.
LEMMA QueueInsert ==
    ASSUME NEW E, NEW pri, NEW S, NEW q, IsQueueOf(q, E, pri, S), NEW x \in E \ S,
           NEW r, r = pqueue_insert(q, pri, x)
    PROVE  IsQueueOf(r, E, pri, S \cup {x})
<1>1. PICK N \in Nat : N = Cardinality(E)
    BY Sizes DEF IsQueueOf
<1>2. /\ Setting(E, N, pri, S) /\ IsHeap(q, E, N, pri, S) /\ IsFiniteSet(E)
      /\ q.size - 1 = Cardinality(S) /\ \A y \in E \ S : q.pos[y] = 0
    BY <1>1 DEF IsQueueOf
<1>3. S \in SUBSET E /\ S \cup {x} \in SUBSET E /\ (S \cup {x}) \ {x} = S
    BY <1>2 DEF Setting
<1>4. /\ Cardinality(S) \in Nat /\ Cardinality(S \cup {x}) \in 0 .. N
      /\ Cardinality(S) = Cardinality(S \cup {x}) - 1
  <2>1. \A s \in SUBSET E : /\ Cardinality(s) \in 0 .. N
                            /\ \A y \in s : Cardinality(s \ {y}) = Cardinality(s) - 1
    BY <1>1, <1>2, Sizes
  <2>2. Cardinality(S \cup {x}) \in 0 .. N /\ Cardinality(S) \in 0 .. N
    BY <1>3, <2>1
  <2>3. Cardinality((S \cup {x}) \ {x}) = Cardinality(S \cup {x}) - 1
    BY <1>3, <2>1
  <2> QED
    BY <1>3, <2>2, <2>3
<1>5. q.size <= N
  <2>1. q.size \in 1 .. N + 1
    BY <1>2, HeapParts
  <2> QED
    BY <1>2, <1>4, <2>1
<1>6. /\ IsHeap(r, E, N, pri, S \cup {x}) /\ r.size = q.size + 1
      /\ \A y \in E \ (S \cup {x}) : r.pos[y] = q.pos[y]
    BY <1>2, <1>5, InsertKeepsHeap
<1>7. Setting(E, N, pri, S \cup {x})
    BY <1>2, <1>3 DEF Setting
<1>8. q.size \in 1 .. N + 1
    BY <1>2, HeapParts
<1>9. r.size - 1 = Cardinality(S \cup {x})
    BY <1>2, <1>4, <1>6, <1>8
<1>10. \A y \in E \ (S \cup {x}) : r.pos[y] = 0
    BY <1>2, <1>6
<1> QED
    BY <1>1, <1>2, <1>6, <1>7, <1>9, <1>10, QueueMade

\* pqueue_change_priority.
LEMMA QueueChange ==
    ASSUME NEW E, NEW pri, NEW S, NEW q, IsQueueOf(q, E, pri, S), NEW x \in S, NEW p \in Int,
           NEW new, new = [pri EXCEPT ![x] = p], NEW r, r = pqueue_change_priority(q, pri, p, x)
    PROVE  IsQueueOf(r, E, new, S)
<1>1. PICK N \in Nat : N = Cardinality(E)
    BY Sizes DEF IsQueueOf
<1>2. /\ Setting(E, N, pri, S) /\ IsHeap(q, E, N, pri, S) /\ IsFiniteSet(E)
      /\ q.size - 1 = Cardinality(S) /\ \A y \in E \ S : q.pos[y] = 0
    BY <1>1 DEF IsQueueOf
<1>3. IsHeap(r, E, N, new, S) /\ Keeps(r, q, E, S) /\ Setting(E, N, new, S)
    BY <1>2, ChangeKeepsHeap
<1>4. r.size - 1 = Cardinality(S) /\ \A y \in E \ S : r.pos[y] = 0
    BY <1>2, <1>3 DEF Keeps
<1> QED
    BY <1>1, <1>2, <1>3, <1>4, QueueMade

\* The priorities of elements outside play no part.
LEMMA QueueSame ==
    ASSUME NEW E, NEW pri, NEW S, NEW q, IsQueueOf(q, E, pri, S),
           NEW new \in [E -> Int], \A y \in S : new[y] = pri[y]
    PROVE  IsQueueOf(q, E, new, S)
<1>1. PICK N \in Nat : N = Cardinality(E)
    BY Sizes DEF IsQueueOf
<1>2. /\ Setting(E, N, pri, S) /\ IsHeap(q, E, N, pri, S) /\ IsFiniteSet(E)
      /\ q.size - 1 = Cardinality(S) /\ \A y \in E \ S : q.pos[y] = 0
    BY <1>1 DEF IsQueueOf
<1>3. IsHeap(q, E, N, new, S) /\ Setting(E, N, new, S)
    BY <1>2, SamePriorities
<1> QED
    BY <1>1, <1>2, <1>3, QueueMade

\* A queue that x has left, its position being reset.
LEMMA QueueForgets ==
    ASSUME NEW E, NEW pri, NEW S, NEW q, IsQueueOf(q, E, pri, S), NEW x \in S,
           NEW u, Settles(q, E, Cardinality(E), pri, S, x, u),
           NEW r, r = [u EXCEPT !.pos[x] = 0]
    PROVE  IsQueueOf(r, E, pri, S \ {x})
<1>1. PICK N \in Nat : N = Cardinality(E)
    BY Sizes DEF IsQueueOf
<1>2. /\ Setting(E, N, pri, S) /\ IsFiniteSet(E)
      /\ q.size - 1 = Cardinality(S) /\ \A y \in E \ S : q.pos[y] = 0 /\ IsHeap(q, E, N, pri, S)
    BY <1>1 DEF IsQueueOf
<1>3. PICK T : T = S \ {x}
    OBVIOUS
<1>4. /\ IsHeap(u, E, N, pri, T) /\ u.size = q.size - 1
      /\ \A y \in E \ S : u.pos[y] = q.pos[y]
      /\ Setting(E, N, pri, T)
    BY <1>1, <1>3 DEF Settles
<1>5. S \in SUBSET E /\ x \in E \ T
    BY <1>2, <1>3 DEF Setting
<1>6. /\ IsHeap(r, E, N, pri, T) /\ r.size = u.size
      /\ r.pos[x] = 0 /\ \A y \in E \ {x} : r.pos[y] = u.pos[y]
  <2>1. IsHeap(u, E, N, pri, T) /\ Setting(E, N, pri, T) /\ x \in E \ T
    BY <1>4, <1>5
  <2>2. Forgets(u, x, r)
    BY DEF Forgets
  <2> QED
    BY ONLY <2>1, <2>2, Forgotten
<1>7. Cardinality(T) = Cardinality(S) - 1
    BY <1>2, <1>3, <1>5, Sizes
<1>8. r.size - 1 = Cardinality(T)
    BY <1>2, <1>4, <1>6, <1>7
<1>9. ASSUME NEW y \in E \ T
      PROVE  r.pos[y] = 0
  <2>1. CASE y = x
    BY <1>6, <2>1
  <2>2. CASE y # x
    <3>1. y \in E \ S /\ y \in E \ {x}
      BY <1>3, <2>2
    <3> QED
      BY <1>2, <1>4, <1>6, <3>1
  <2> QED
    BY <2>1, <2>2
<1>10. IsQueueOf(r, E, pri, T)
    BY <1>1, <1>2, <1>4, <1>6, <1>8, <1>9, QueueMade
<1> QED
    BY <1>3, <1>10

\* pqueue_remove, the caller resetting the position.
LEMMA QueueRemove ==
    ASSUME NEW E, NEW pri, NEW S, NEW q, IsQueueOf(q, E, pri, S), NEW x \in S,
           NEW r, r = [pqueue_remove(q, pri, x) EXCEPT !.pos[x] = 0]
    PROVE  IsQueueOf(r, E, pri, S \ {x})
<1>1. PICK N, u : N = Cardinality(E) /\ u = pqueue_remove(q, pri, x)
    OBVIOUS
<1>2. Setting(E, N, pri, S) /\ IsHeap(q, E, N, pri, S)
    BY <1>1 DEF IsQueueOf
<1>3. Settles(q, E, N, pri, S, x, u)
    BY <1>1, <1>2, RemoveKeepsHeap
<1>4. r = [u EXCEPT !.pos[x] = 0] /\ Settles(q, E, Cardinality(E), pri, S, x, u)
    BY <1>1, <1>3
<1> QED
    BY <1>4, QueueForgets

\* pqueue_pop, likewise: the element that goes is the one pqueue_peek names.
LEMMA QueuePop ==
    ASSUME NEW E, NEW pri, NEW S, NEW q, IsQueueOf(q, E, pri, S), NEW x, x = pqueue_peek(q),
           x # NIL, NEW r, r = [pqueue_pop(q, pri) EXCEPT !.pos[x] = 0]
    PROVE  x \in S /\ IsQueueOf(r, E, pri, S \ {x})
<1>1. PICK N, u : N = Cardinality(E) /\ u = pqueue_pop(q, pri)
    OBVIOUS
<1>2. Setting(E, N, pri, S) /\ IsHeap(q, E, N, pri, S)
    BY <1>1 DEF IsQueueOf
<1>3. q.size # 1
    BY DEF pqueue_peek
<1>4. x \in S /\ Settles(q, E, N, pri, S, x, u)
    BY <1>1, <1>2, <1>3, PopKeepsHeap
<1>5. r = [u EXCEPT !.pos[x] = 0] /\ Settles(q, E, Cardinality(E), pri, S, x, u)
    BY <1>1, <1>4
<1> QED
    BY <1>4, <1>5, QueueForgets

\* pqueue_peek is NIL for an empty queue only.
LEMMA PeekEmpty ==
    ASSUME NEW E, NEW pri, NEW S, NEW q, IsQueueOf(q, E, pri, S)
    PROVE  pqueue_peek(q) = NIL <=> S = {}
<1>1. /\ q.size \in Nat \ {0} /\ q.size - 1 = Cardinality(S) /\ S \in SUBSET E /\ NIL \notin E
      /\ IsFiniteSet(E) /\ \A j \in 1 .. q.size - 1 : q.d[j] \in S
    BY QueueParts
<1>2. Cardinality(S) = 0 <=> S = {}
    BY <1>1, Sizes
<1>3. CASE q.size = 1
    BY <1>1, <1>2, <1>3 DEF pqueue_peek
<1>4. CASE q.size # 1
  <2>1. q.d[1] \in S
    BY <1>1, <1>4
  <2> QED
    BY <1>1, <1>4, <2>1 DEF pqueue_peek
<1> QED
    BY <1>3, <1>4

-----------------------------------------------------------------------------
(* Any client of the queue. *)

\* The queue of the client holds what it should hold.
CIInv ==
    /\ prio \in [Elems -> Priorities] /\ queued \in SUBSET Elems
    /\ IsQueueOf(pq, Elems, prio, queued)

\* The next element to insert is one outside.
LEMMA LeastOutside ==
    ASSUME NEW T \in SUBSET Nat, T # {}
    PROVE  Least(T) \in T
<1>1. \E x \in T : \A y \in T : x <= y
    BY LeastNat
<1> QED
    BY <1>1 DEF Least

\* An insertion keeps the queue.
LEMMA InsertCIInv ==
    ASSUME CIInv, NEW x \in Elems \ queued, NEW p \in Priorities, Insert(x, p)
    PROVE  CIInv'
<1> USE ClientAssumption DEF CIInv
<1>1. p \in Int /\ prio' = [prio EXCEPT ![x] = p] /\ pq' = pqueue_insert(pq, prio', x)
      /\ queued' = queued \cup {x}
    BY DEF Insert
<1>2. prio' \in [Elems -> Priorities] /\ prio' \in [Elems -> Int] /\ queued' \in SUBSET Elems
      /\ \A y \in queued : prio'[y] = prio[y]
  <2>1. prio' \in [Elems -> Priorities] /\ \A y \in queued : prio'[y] = prio[y]
    BY <1>1
  <2>2. prio' \in [Elems -> Int]
    <3>1. \A p1 \in Priorities : p1 \in Int
      OBVIOUS
    <3> QED
      BY ONLY <2>1, <3>1
  <2> QED
    BY <1>1, <2>1, <2>2
<1>3. IsQueueOf(pq, Elems, prio', queued)
    BY <1>2, QueueSame
<1>4. IsQueueOf(pq', Elems, prio', queued \cup {x})
    BY <1>1, <1>3, QueueInsert
<1> QED
    BY <1>1, <1>2, <1>4

\* A change of priority keeps the queue.
LEMMA ChangeCIInv ==
    ASSUME CIInv, NEW x \in Elems, NEW p \in Priorities, ChangePriority(x, p)
    PROVE  CIInv'
<1> USE ClientAssumption DEF CIInv
<1>1. p \in Int /\ prio' = [prio EXCEPT ![x] = p] /\ pq' = pqueue_change_priority(pq, prio, p, x)
      /\ queued' = queued /\ x \in queued
    BY DEF ChangePriority
<1>2. prio' \in [Elems -> Priorities]
    BY <1>1
<1>3. IsQueueOf(pq', Elems, prio', queued)
    BY <1>1, QueueChange
<1> QED
    BY <1>1, <1>2, <1>3

\* The priority of an element that leaves is cleared.
LEMMA LeaveCIInv ==
    ASSUME CIInv, NEW x \in queued, prio' = [prio EXCEPT ![x] = 0], queued' = queued \ {x},
           IsQueueOf(pq', Elems, prio, queued \ {x})
    PROVE  CIInv'
<1> USE ClientAssumption DEF CIInv
<1>1. prio' \in [Elems -> Priorities] /\ prio' \in [Elems -> Int] /\ queued' \in SUBSET Elems
      /\ \A y \in queued \ {x} : prio'[y] = prio[y]
  <2>1. prio' \in [Elems -> Priorities] /\ \A y \in queued \ {x} : prio'[y] = prio[y]
    OBVIOUS
  <2>2. prio' \in [Elems -> Int]
    <3>1. \A p1 \in Priorities : p1 \in Int
      OBVIOUS
    <3> QED
      BY ONLY <2>1, <3>1
  <2> QED
    BY <2>1, <2>2
<1>2. IsQueueOf(pq', Elems, prio', queued \ {x})
    BY <1>1, QueueSame
<1> QED
    BY <1>1, <1>2

\* CIInv is inductive.
LEMMA NextCIInv == CIInv /\ [CNext]_cvars => CIInv'
<1> SUFFICES ASSUME CIInv, [CNext]_cvars
             PROVE  CIInv'
    OBVIOUS
<1>1. ASSUME queued # Elems, NEW p \in Priorities, Insert(Least(Elems \ queued), p)
      PROVE  CIInv'
  <2>1. Elems \ queued \in SUBSET Nat /\ Elems \ queued # {}
    BY <1>1, ClientAssumption DEF CIInv
  <2>2. Least(Elems \ queued) \in Elems \ queued
    BY <2>1, LeastOutside
  <2> QED
    BY <1>1, <2>2, InsertCIInv
<1>2. ASSUME NEW x \in Elems, RemoveElem(x)
      PROVE  CIInv'
  <2>1. /\ x \in queued /\ pq' = [pqueue_remove(pq, prio, x) EXCEPT !.pos[x] = 0]
        /\ queued' = queued \ {x} /\ prio' = [prio EXCEPT ![x] = 0]
    BY <1>2 DEF RemoveElem
  <2>2. IsQueueOf(pq', Elems, prio, queued \ {x})
    BY <2>1, QueueRemove DEF CIInv
  <2> QED
    BY <2>1, <2>2, LeaveCIInv
<1>3. ASSUME NEW x \in Elems, NEW p \in Priorities, ChangePriority(x, p)
      PROVE  CIInv'
    BY <1>3, ChangeCIInv
<1>4. ASSUME Pop
      PROVE  CIInv'
  <2>1. PICK x : x = pqueue_peek(pq)
    OBVIOUS
  <2>2. /\ x # NIL /\ pq' = [pqueue_pop(pq, prio) EXCEPT !.pos[x] = 0]
        /\ queued' = queued \ {x} /\ prio' = [prio EXCEPT ![x] = 0]
    BY <1>4, <2>1 DEF Pop
  <2>3. x \in queued /\ IsQueueOf(pq', Elems, prio, queued \ {x})
    BY <2>1, <2>2, QueuePop DEF CIInv
  <2> QED
    BY <2>2, <2>3, LeaveCIInv
<1>5. CASE UNCHANGED cvars
    BY <1>5 DEF CIInv, cvars, IsQueueOf, IsHeap, Setting, Holds, Order, Queues
<1> QED
    BY <1>1, <1>2, <1>3, <1>4, <1>5 DEF CNext

\* "Nothing is lost or duplicated and pqueue_is_valid holds": pqueue.c keeps
\* its promise to any client that resets the position of what it takes out.
THEOREM HeapStaysValid == CInit /\ [][CNext]_cvars => []ValidHeap
<1>1. CInit => CIInv
  <2> SUFFICES ASSUME CInit
               PROVE  CIInv
    OBVIOUS
  <2>1. /\ prio \in [Elems -> Priorities] /\ prio \in [Elems -> Int] /\ queued = {}
        /\ pq = pqueue_init(Cardinality(Elems), Elems)
    BY ClientAssumption DEF CInit
  <2>2. IsQueueOf(pq, Elems, prio, {})
    BY <2>1, NewQueue, ClientAssumption
  <2> QED
    BY <2>1, <2>2 DEF CIInv
<1>2. CIInv => ValidHeap
  <2> SUFFICES ASSUME CIInv
               PROVE  ValidHeap
    OBVIOUS
  <2>1. IsQueueOf(pq, Elems, prio, queued)
    BY DEF CIInv
  <2>2. /\ pq.size \in Nat \ {0} /\ pq.size - 1 = Cardinality(queued)
        /\ \A y \in queued : pq.pos[y] \in 1 .. pq.size - 1 /\ pq.d[pq.pos[y]] = y
        /\ \A y \in Elems \ queued : pq.pos[y] = 0
        /\ \A j \in 2 .. pq.size - 1 : parent(j) # 0 => prio[pq.d[parent(j)]] <= prio[pq.d[j]]
    BY <2>1, QueueParts
  <2>3. ASSUME NEW j \in 2 .. pq.size - 1
        PROVE  prio[pq.d[parent(j)]] <= prio[pq.d[j]]
    <3>1. j \in Nat /\ j > 1
      BY <2>2
    <3>2. parent(j) # 0
      BY <3>1, Parents
    <3> QED
      BY <2>2, <3>2
  <2> QED
    BY <2>2, <2>3 DEF ValidHeap
<1> QED
    BY <1>1, <1>2, NextCIInv, PTL

-----------------------------------------------------------------------------
(* The queue of the victims. *)

\* The heap h holds the victims of the line management m.
QueueFor(h, m) == IsQueueOf(h, Lines, m.vpc, m.victim_line_pq)

\* The counters and lists of line management.
LEMMA LineMgmtParts ==
    ASSUME NEW m \in LineMgmt
    PROVE  /\ m.vpc \in [Lines -> 0 .. PgsPerLine] /\ m.vpc \in [Lines -> Int]
           /\ m.ipc \in [Lines -> 0 .. PgsPerLine]
           /\ m.victim_line_pq \in SUBSET Lines /\ m.full_line_list \in SUBSET Lines
           /\ P \in Nat /\ P = PgsPerLine
           /\ m = [ipc |-> m.ipc, vpc |-> m.vpc, free_line_list |-> m.free_line_list,
                   free_line_cnt |-> m.free_line_cnt, full_line_list |-> m.full_line_list,
                   victim_line_pq |-> m.victim_line_pq]
<1>1. /\ m.vpc \in [Lines -> 0 .. PgsPerLine] /\ m.ipc \in [Lines -> 0 .. PgsPerLine]
      /\ m.victim_line_pq \in SUBSET Lines /\ m.full_line_list \in SUBSET Lines
      /\ m = [ipc |-> m.ipc, vpc |-> m.vpc, free_line_list |-> m.free_line_list,
              free_line_cnt |-> m.free_line_cnt, full_line_list |-> m.full_line_list,
              victim_line_pq |-> m.victim_line_pq]
    BY DEF LineMgmt
<1>2. m.vpc \in [Lines -> Int]
  <2>1. \A i \in 0 .. PgsPerLine : i \in Int
    OBVIOUS
  <2> QED
    BY ONLY <1>1, <2>1
<1> QED
    BY <1>1, <1>2, SizeAssumption DEF P

\* requeue follows mark_page_invalid: a queued line moves up, a full one is
\* queued, the place of any other stays.
LEMMA RequeueQueue ==
    ASSUME NEW m \in LineMgmt, NEW l \in Lines, m.ipc[l] < P, m.vpc[l] > 0,
           m.vpc[l] = P => l \notin m.victim_line_pq,
           NEW h, QueueFor(h, m), NEW m1, m1 = mark_page_invalid(m, l)
    PROVE  QueueFor(requeue(h, m, l), m1)
<1>1. /\ m1 \in LineMgmt
      /\ m1.victim_line_pq = IF m.vpc[l] = P THEN m.victim_line_pq \cup {l} ELSE m.victim_line_pq
      /\ m1.vpc = [m.vpc EXCEPT ![l] = m.vpc[l] - 1]
  <2>1. m1.vpc = [m.vpc EXCEPT ![l] = m.vpc[l] - 1]
    BY LineMgmtParts DEF mark_page_invalid
  <2> QED
    BY <2>1, InvalidFields
<1>2. /\ m.vpc \in [Lines -> Int] /\ m1.vpc \in [Lines -> Int] /\ P = PgsPerLine
      /\ m.vpc[l] - 1 \in Int /\ m.victim_line_pq \in SUBSET Lines
      /\ \A y \in Lines : y # l => m1.vpc[y] = m.vpc[y]
  <2>1. m.vpc[l] \in Int
    BY LineMgmtParts
  <2> QED
    BY <1>1, <2>1, LineMgmtParts
<1>3. /\ \A y \in m.victim_line_pq : h.pos[y] # 0
      /\ \A y \in Lines \ m.victim_line_pq : h.pos[y] = 0
  <2>1. IsQueueOf(h, Lines, m.vpc, m.victim_line_pq)
    BY DEF QueueFor
  <2> QED
    BY <2>1, QueueParts
<1>4. CASE l \in m.victim_line_pq
  <2>1. /\ requeue(h, m, l) = pqueue_change_priority(h, m.vpc, m.vpc[l] - 1, l)
        /\ m1.victim_line_pq = m.victim_line_pq
    BY <1>1, <1>2, <1>3, <1>4 DEF requeue
  <2>2. IsQueueOf(requeue(h, m, l), Lines, m1.vpc, m.victim_line_pq)
    BY <1>1, <1>2, <1>4, <2>1, QueueChange DEF QueueFor
  <2> QED
    BY <2>1, <2>2 DEF QueueFor
<1>5. CASE l \notin m.victim_line_pq
  <2>1. IsQueueOf(h, Lines, m1.vpc, m.victim_line_pq)
    BY <1>2, <1>5, QueueSame DEF QueueFor
  <2>2. CASE m.vpc[l] = P
    <3>1. requeue(h, m, l) = pqueue_insert(h, m1.vpc, l) /\ l \in Lines \ m.victim_line_pq
      BY <1>2, <1>3, <1>5, <2>2 DEF requeue
    <3>2. IsQueueOf(requeue(h, m, l), Lines, m1.vpc, m.victim_line_pq \cup {l})
      BY <2>1, <3>1, QueueInsert
    <3> QED
      BY <1>1, <2>2, <3>2 DEF QueueFor
  <2>3. CASE m.vpc[l] # P
    <3>1. requeue(h, m, l) = h
      BY <1>2, <1>3, <1>5, <2>3 DEF requeue
    <3> QED
      BY <1>1, <2>1, <2>3, <3>1 DEF QueueFor
  <2> QED
    BY <2>2, <2>3
<1> QED
    BY <1>4, <1>5

\* The line of the write pointer is not queued: its counter may grow.
LEMMA ValidQueue ==
    ASSUME NEW m \in LineMgmt, NEW l \in Lines, l \notin m.victim_line_pq, m.vpc[l] < P,
           NEW h, QueueFor(h, m), NEW m1, m1 = mark_page_valid(m, l)
    PROVE  QueueFor(h, m1) /\ m1 \in LineMgmt /\ m1.victim_line_pq = m.victim_line_pq
<1>1. /\ m1 \in LineMgmt /\ m1.victim_line_pq = m.victim_line_pq
      /\ \A j \in Lines : j # l => m1.vpc[j] = m.vpc[j]
    BY ValidFields
<1>2. m1.vpc \in [Lines -> Int] /\ \A y \in m.victim_line_pq : m1.vpc[y] = m.vpc[y]
    BY <1>1, LineMgmtParts
<1>3. IsQueueOf(h, Lines, m1.vpc, m.victim_line_pq)
    BY <1>2, QueueSame DEF QueueFor
<1> QED
    BY <1>1, <1>3 DEF QueueFor

\* advance_write_pointer queues a line that is used up with an invalid page.
LEMMA AdvanceQueue ==
    ASSUME NEW m \in LineMgmt, NEW w \in Pointer, w.line \in Lines \ m.victim_line_pq,
           NEW h, QueueFor(h, m), NEW m1, m1 = advance_write_pointer(m, w).lm
    PROVE  QueueFor(queue_closed(h, m, w), m1)
<1>1. P = PgsPerLine
    BY DEF P
<1>2. CASE w.off + 1 < PgsPerLine
  <2>1. m1 = m /\ w.off + 1 # PgsPerLine
    BY <1>2, SizeAssumption DEF advance_write_pointer
  <2> QED
    BY <2>1 DEF queue_closed
<1>3. CASE ~(w.off + 1 < PgsPerLine)
  <2> DEFINE c == close_line(m, w.line)
  <2>1. m1 = take_free_line(c)
    BY <1>3 DEF advance_write_pointer
  <2>2. /\ c \in LineMgmt /\ c.vpc = m.vpc
        /\ c.victim_line_pq = IF m.vpc[w.line] = P THEN m.victim_line_pq
                              ELSE m.victim_line_pq \cup {w.line}
    BY CloseFields
  <2>3. m1.vpc = m.vpc /\ m1.victim_line_pq = c.victim_line_pq
    <3> HIDE DEF c
    <3> QED
      BY <2>1, <2>2, LineMgmtParts DEF take_free_line
  <2>4. w.off + 1 = PgsPerLine
    BY <1>3, SizeAssumption DEF Pointer, Offs
  <2>5. CASE m.vpc[w.line] = P
    <3>1. queue_closed(h, m, w) = h /\ m1.victim_line_pq = m.victim_line_pq
      BY <1>1, <2>2, <2>3, <2>5 DEF queue_closed
    <3> QED
      BY <2>3, <3>1 DEF QueueFor
  <2>6. CASE m.vpc[w.line] # P
    <3>1. queue_closed(h, m, w) = pqueue_insert(h, m.vpc, w.line)
      BY <1>1, <2>4, <2>6 DEF queue_closed
    <3>2. IsQueueOf(queue_closed(h, m, w), Lines, m.vpc, m.victim_line_pq \cup {w.line})
      BY <3>1, QueueInsert DEF QueueFor
    <3>3. m1.victim_line_pq = m.victim_line_pq \cup {w.line}
      BY <2>2, <2>3, <2>6
    <3> QED
      BY <2>3, <3>2, <3>3 DEF QueueFor
  <2> QED
    BY <2>5, <2>6
<1> QED
    BY <1>2, <1>3

\* An open line is not queued and has a page left to fill.
LEMMA OpenLine ==
    ASSUME NEW m \in LineMgmt, NEW st, NEW w \in Pointer, NEW g \in Pointer, NEW v, NEW todo,
           LineInv(m, st, w, g, v, todo)
    PROVE  /\ w.line \in Lines => w.line \notin m.victim_line_pq /\ m.vpc[w.line] < P
           /\ g.line \in Lines => g.line \notin m.victim_line_pq /\ m.vpc[g.line] < P
<1>1. /\ P \in Nat /\ w.off \in 0 .. P - 1 /\ g.off \in 0 .. P - 1
      /\ \A l \in Lines : m.vpc[l] \in Nat /\ m.ipc[l] \in Nat
    BY SizeAssumption DEF Pointer, Offs, P, LineMgmt
<1>2. Places(m, w, g, v) /\ Sums(m, w, g, v)
    BY DEF LineInv
<1>3. ASSUME w.line \in Lines
      PROVE  w.line \notin m.victim_line_pq /\ m.vpc[w.line] < P
  <2>1. m.vpc[w.line] + m.ipc[w.line] = w.off
    BY <1>2, <1>3 DEF Sums
  <2>2. w.line \notin m.victim_line_pq
    BY <1>2, <1>3 DEF Places
  <2> QED
    BY <1>1, <1>3, <2>1, <2>2
<1>4. ASSUME g.line \in Lines
      PROVE  g.line \notin m.victim_line_pq /\ m.vpc[g.line] < P
  <2>1. m.vpc[g.line] + m.ipc[g.line] = g.off
    BY <1>2, <1>4 DEF Sums
  <2>2. g.line \notin m.victim_line_pq
    BY <1>2, <1>4 DEF Places
  <2> QED
    BY <1>1, <1>4, <2>1, <2>2
<1> QED
    BY <1>3, <1>4

\* A page of an open line is written and the pointer moves on: what the two
\* calls do to the queue.
LEMMA FillQueue ==
    ASSUME NEW m \in LineMgmt, NEW w \in Pointer, w.line \in Lines,
           w.line \notin m.victim_line_pq, m.vpc[w.line] < P,
           NEW h, QueueFor(h, m), NEW m1, m1 = mark_page_valid(m, w.line),
           NEW m2, m2 = advance_write_pointer(m1, w).lm
    PROVE  QueueFor(queue_closed(h, m1, w), m2)
<1>1. QueueFor(h, m1) /\ m1 \in LineMgmt /\ w.line \in Lines \ m1.victim_line_pq
    BY ValidQueue
<1> QED
    BY <1>1, AdvanceQueue

\* A valid page outside the victim is overwritten or discarded: what
\* mark_page_invalid does to the queue.
LEMMA EmptyQueue ==
    ASSUME NEW m \in LineMgmt, NEW st \in PageTable, NEW w \in Pointer, NEW g \in Pointer,
           NEW v, NEW todo, LineInv(m, st, w, g, v, todo),
           NEW l \in Lines, NEW k \in Offs, l # v, st[<<l, k>>] = "PG_VALID",
           NEW h, QueueFor(h, m), NEW m1, m1 = mark_page_invalid(m, l)
    PROVE  /\ QueueFor(requeue(h, m, l), m1) /\ m1 \in LineMgmt
           /\ w.line \in Lines => w.line \notin m1.victim_line_pq /\ m1.vpc[w.line] < P
<1>1. m.vpc[l] > 0 /\ m.ipc[l] < P
    BY CountsOfValid
<1>2. m.vpc[l] = P => l \notin m.victim_line_pq
  <2>1. l \in m.victim_line_pq => m.vpc[l] + m.ipc[l] = P /\ m.ipc[l] >= 1
    BY DEF LineInv, Sums
  <2>2. m.vpc[l] \in 0 .. P /\ m.ipc[l] \in 0 .. P /\ P \in Nat
    BY LineMgmtParts
  <2> QED
    BY <2>1, <2>2
<1>3. QueueFor(requeue(h, m, l), m1)
    BY <1>1, <1>2, RequeueQueue
<1>4. PICK st2 : st2 = Remark(st, l, k, "PG_INVALID")
    OBVIOUS
<1>5. m1 \in LineMgmt /\ LineInv(m1, st2, w, g, v, todo)
    BY <1>4, InvalidateKeepsLineInv
<1>6. w.line \in Lines => w.line \notin m1.victim_line_pq /\ m1.vpc[w.line] < P
    BY <1>5, OpenLine
<1> QED
    BY <1>3, <1>5, <1>6

\* What the invariant of ConvFtl says between commands.
LEMMA IdleParts ==
    ASSUME IInv, pc = "idle"
    PROVE  /\ maptbl \in MapTable /\ status \in PageTable
           /\ lm \in LineMgmt /\ wp \in Pointer /\ gc_wp \in Pointer
           /\ LineInv(lm, status, wp, gc_wp, NULL, TodoAt(gc_pos)) /\ wp.line \in Lines
           /\ \A n \in LPN : maptbl[n] # UNMAPPED =>
                /\ maptbl[n][1] \in Lines /\ maptbl[n][2] \in Offs /\ maptbl[n][1] # NULL
                /\ status[<<maptbl[n][1], maptbl[n][2]>>] = "PG_VALID"
<1>1. /\ maptbl \in MapTable /\ status \in PageTable
      /\ lm \in LineMgmt /\ wp \in Pointer /\ gc_wp \in Pointer
    BY TypeParts DEF IInv
<1>2. /\ victim_line = NULL /\ NULL \notin Lines /\ wp.line \in Lines
      /\ LineInv(lm, status, wp, gc_wp, victim_line, TodoAt(gc_pos))
      /\ Owned(maptbl, rmap, status, victim_line, TodoAt(gc_pos))
    BY TokenAssumption DEF IInv, Control
<1>3. ASSUME NEW n \in LPN, maptbl[n] # UNMAPPED
      PROVE  /\ maptbl[n][1] \in Lines /\ maptbl[n][2] \in Offs /\ maptbl[n][1] # NULL
             /\ status[<<maptbl[n][1], maptbl[n][2]>>] = "PG_VALID"
  <2>1. maptbl[n] \in Pages /\ status[maptbl[n]] = "PG_VALID"
    BY <1>1, <1>2, <1>3 DEF Owned, MapTable
  <2>2. /\ maptbl[n][1] \in Lines /\ maptbl[n][2] \in Offs
        /\ maptbl[n] = <<maptbl[n][1], maptbl[n][2]>>
    BY <2>1, PageParts
  <2> QED
    BY <1>2, <2>1, <2>2
<1> QED
    BY <1>1, <1>2, <1>3

\* A write keeps the queue.
LEMMA WriteQueue ==
    ASSUME IInv, QueueFor(heap, lm), NEW lpn \in LPN, QWritePage(lpn)
    PROVE  QueueFor(heap', lm')
<1> DEFINE overwrite == maptbl[lpn] # UNMAPPED
           l  == maptbl[lpn][1]
           h1 == IF overwrite THEN requeue(heap, lm, l) ELSE heap
           m1 == IF overwrite THEN mark_page_invalid(lm, l) ELSE lm
<1>1. pc = "idle"
    BY DEF QWritePage, WritePage
<1>2. /\ lm \in LineMgmt /\ wp \in Pointer /\ gc_wp \in Pointer /\ wp.line \in Lines
      /\ LineInv(lm, status, wp, gc_wp, NULL, TodoAt(gc_pos)) /\ status \in PageTable
    BY <1>1, IdleParts
<1>3. /\ heap' = queue_closed(h1, mark_page_valid(m1, wp.line), wp)
      /\ lm' = advance_write_pointer(mark_page_valid(m1, wp.line), wp).lm
    BY DEF QWritePage, WritePage, NewPage
<1>4. /\ QueueFor(h1, m1) /\ m1 \in LineMgmt
      /\ wp.line \notin m1.victim_line_pq /\ m1.vpc[wp.line] < P
  <2>1. CASE overwrite
    <3>1. PICK k : k = maptbl[lpn][2]
      OBVIOUS
    <3>2. l \in Lines /\ k \in Offs /\ l # NULL /\ status[<<l, k>>] = "PG_VALID"
      BY <1>1, <2>1, <3>1, IdleParts
    <3>3. h1 = requeue(heap, lm, l) /\ m1 = mark_page_invalid(lm, l)
      BY <2>1
    <3> HIDE DEF l, h1, m1
    <3> QED
      BY <1>2, <3>2, <3>3, EmptyQueue
  <2>2. CASE ~overwrite
    <3>1. h1 = heap /\ m1 = lm
      BY <2>2
    <3> HIDE DEF h1, m1
    <3> QED
      BY <1>2, <3>1, OpenLine
  <2> QED
    BY <2>1, <2>2
<1> HIDE DEF h1, m1
<1> QED
    BY <1>2, <1>3, <1>4, FillQueue

\* A discard keeps the queue.
LEMMA DiscardQueue ==
    ASSUME IInv, QueueFor(heap, lm), NEW lpn \in LPN, QDiscardPage(lpn)
    PROVE  QueueFor(heap', lm')
<1>1. PICK l, k : l = maptbl[lpn][1] /\ k = maptbl[lpn][2]
    OBVIOUS
<1>2. /\ pc = "idle" /\ maptbl[lpn] # UNMAPPED
      /\ lm' = mark_page_invalid(lm, l) /\ heap' = requeue(heap, lm, l)
    BY <1>1 DEF QDiscardPage, DiscardPage
<1>3. /\ lm \in LineMgmt /\ wp \in Pointer /\ gc_wp \in Pointer
      /\ LineInv(lm, status, wp, gc_wp, NULL, TodoAt(gc_pos)) /\ status \in PageTable
    BY <1>2, IdleParts
<1>4. l \in Lines /\ k \in Offs /\ l # NULL /\ status[<<l, k>>] = "PG_VALID"
    BY <1>1, <1>2, IdleParts
<1> QED
    BY <1>2, <1>3, <1>4, EmptyQueue

\* A copy of do_gc keeps the queue.
LEMMA CopyQueue ==
    ASSUME IInv, QueueFor(heap, lm), QGcCopyPage
    PROVE  QueueFor(heap', lm')
<1>1. /\ lm \in LineMgmt /\ wp \in Pointer /\ gc_wp \in Pointer
      /\ LineInv(lm, status, wp, gc_wp, victim_line, TodoAt(gc_pos))
    BY TypeParts DEF IInv
<1>2. pc = "gc" /\ gc_wp.line \in Lines
    BY DEF IInv, Control, QGcCopyPage, GcCopyPage
<1>3. /\ heap' = queue_closed(heap, mark_page_valid(lm, gc_wp.line), gc_wp)
      /\ lm' = advance_write_pointer(mark_page_valid(lm, gc_wp.line), gc_wp).lm
    BY DEF QGcCopyPage, GcCopyPage, NewPage
<1>4. gc_wp.line \notin lm.victim_line_pq /\ lm.vpc[gc_wp.line] < P
    BY <1>1, <1>2, OpenLine
<1> QED
    BY <1>1, <1>2, <1>3, <1>4, FillQueue

\* The end of do_gc: the erased line is not queued, its counters may change.
LEMMA DoneQueue ==
    ASSUME IInv, QueueFor(heap, lm), GcDone
    PROVE  QueueFor(heap, lm')
<1>1. /\ lm \in LineMgmt /\ pc = "gc" /\ victim_line \in Lines
      /\ LineInv(lm, status, wp, gc_wp, victim_line, TodoAt(gc_pos))
    BY TypeParts DEF IInv, GcDone, Control
<1>2. victim_line \notin lm.victim_line_pq
    BY <1>1 DEF LineInv, Places
<1>3. lm' = mark_line_free(lm, victim_line)
    BY DEF GcDone
<1>4. lm'.vpc = [lm.vpc EXCEPT ![victim_line] = 0] /\ lm'.victim_line_pq = lm.victim_line_pq
    BY <1>1, <1>3, LineMgmtParts DEF mark_line_free
<1>5. lm.vpc \in [Lines -> Int]
    BY <1>1, LineMgmtParts
<1>6. /\ lm'.vpc \in [Lines -> Int]
      /\ \A y \in lm.victim_line_pq : lm'.vpc[y] = lm.vpc[y]
  <2>1. lm.victim_line_pq \in SUBSET Lines
    BY <1>1, LineMgmtParts
  <2>2. PICK c, d, v : c = lm.vpc /\ d = lm'.vpc /\ v = victim_line
    OBVIOUS
  <2>3. c \in [Lines -> Int] /\ v \in Lines /\ d = [c EXCEPT ![v] = 0]
    BY <1>1, <1>4, <1>5, <2>2
  <2>4. d \in [Lines -> Int] /\ \A y \in Lines : y # v => d[y] = c[y]
    BY ONLY <2>3
  <2> QED
    BY <1>2, <2>1, <2>2, <2>4
<1>7. IsQueueOf(heap, Lines, lm'.vpc, lm.victim_line_pq)
    BY <1>6, QueueSame DEF QueueFor
<1> QED
    BY <1>4, <1>7 DEF QueueFor

\* The victim v leaves the heap h as it leaves the set.
LEMMA LeaveQueue ==
    ASSUME IInv, NEW v \in lm.victim_line_pq, SelectLine(v),
           NEW h, IsQueueOf(h, Lines, lm.vpc, lm.victim_line_pq \ {v})
    PROVE  QueueFor(h, lm')
<1>1. lm \in LineMgmt /\ lm' = [lm EXCEPT !.victim_line_pq = @ \ {v}]
    BY TypeParts DEF IInv, SelectLine
<1>2. lm'.vpc = lm.vpc /\ lm'.victim_line_pq = lm.victim_line_pq \ {v}
    BY <1>1, LineMgmtParts
<1> QED
    BY <1>2 DEF QueueFor

\* The victim of select_victim_greedy is one of the queue, and leaves it.
LEMMA GreedyQueue ==
    ASSUME IInv, QueueFor(heap, lm), select_victim_greedy
    PROVE  SelectVictim /\ QueueFor(heap', lm')
<1>1. PICK v : v = pqueue_peek(heap)
    OBVIOUS
<1>2. v # NIL /\ SelectLine(v) /\ heap' = [pqueue_pop(heap, lm.vpc) EXCEPT !.pos[v] = 0]
    BY <1>1 DEF select_victim_greedy
<1>3. IsQueueOf(heap, Lines, lm.vpc, lm.victim_line_pq)
    BY DEF QueueFor
<1>4. v \in lm.victim_line_pq /\ IsQueueOf(heap', Lines, lm.vpc, lm.victim_line_pq \ {v})
    BY <1>1, <1>2, <1>3, QueuePop
<1>5. QueueFor(heap', lm')
    BY <1>2, <1>4, LeaveQueue
<1> QED
    BY <1>2, <1>4, <1>5 DEF SelectVictim

\* The other steps do not touch queued lines.
LEMMA QuietQueue ==
    ASSUME IInv, QueueFor(heap, lm), QQuietStep
    PROVE  QueueFor(heap', lm')
<1>1. heap' = heap
    BY DEF QQuietStep
<1>2. CASE RefillNoGc \/ GcSkipPage
  <2>1. lm' = lm
    BY <1>2 DEF RefillNoGc, GcSkipPage
  <2> QED
    BY <1>1, <2>1
<1>3. CASE GcDone
    BY <1>1, <1>3, DoneQueue
<1> QED
    BY <1>2, <1>3 DEF QQuietStep

-----------------------------------------------------------------------------
(* The build with GC_POLICY_GREEDY. *)

\* The invariant of ConvFtl, and the heap holds the victims.
QIInv == IInv /\ QueueFor(heap, lm)

\* Every step of the build is a step of ConvFtl and keeps the queue.
LEMMA NextQIInv == QIInv /\ [QNext]_qvars => QIInv' /\ [Next]_vars
<1> SUFFICES ASSUME QIInv, [QNext]_qvars
             PROVE  QIInv' /\ [Next]_vars
    OBVIOUS
<1> USE DEF QIInv
<1>1. ASSUME NEW lpn \in LPN, QWritePage(lpn)
      PROVE  Next /\ QueueFor(heap', lm')
    BY <1>1, WriteQueue DEF QWritePage, Next
<1>2. ASSUME NEW lpn \in LPN, QDiscardPage(lpn)
      PROVE  Next /\ QueueFor(heap', lm')
    BY <1>2, DiscardQueue DEF QDiscardPage, Next
<1>3. ASSUME select_victim_greedy
      PROVE  Next /\ QueueFor(heap', lm')
    BY <1>3, GreedyQueue DEF Next, InternalStep, GcStep
<1>4. ASSUME QGcCopyPage
      PROVE  Next /\ QueueFor(heap', lm')
    BY <1>4, CopyQueue DEF QGcCopyPage, Next, InternalStep, GcStep
<1>5. ASSUME QQuietStep
      PROVE  Next /\ QueueFor(heap', lm')
    BY <1>5, QuietQueue DEF QQuietStep, Next, InternalStep, GcStep
<1>6. ASSUME UNCHANGED qvars
      PROVE  UNCHANGED vars /\ QueueFor(heap', lm')
  <2>1. heap' = heap /\ lm' = lm /\ UNCHANGED vars
    BY <1>6 DEF qvars, vars
  <2> QED
    BY <2>1
<1>7. [Next]_vars /\ QueueFor(heap', lm')
    BY <1>1, <1>2, <1>3, <1>4, <1>5, <1>6 DEF QNext, QInternalStep
<1> QED
    BY <1>7, NextIInv

\* A new queue is that of line management without victims.
LEMMA InitQueue ==
    ASSUME NEW m, m.vpc = [l \in Lines |-> 0], m.victim_line_pq = {},
           NEW h, h = pqueue_init(TtLines, Lines)
    PROVE  QueueFor(h, m)
<1>1. IsFiniteSet(Lines) /\ NIL \notin Lines /\ m.vpc \in [Lines -> Int]
    BY SizeAssumption, QueueAssumption
<1>2. IsQueueOf(h, Lines, m.vpc, {})
    BY <1>1, NewQueue DEF TtLines
<1> QED
    BY <1>2 DEF QueueFor

\* conv_init_ftl makes the queue.
LEMMA InitQIInv == QInit => QIInv /\ Init
<1> SUFFICES ASSUME QInit
             PROVE  QIInv /\ Init
    OBVIOUS
<1>1. Init /\ heap = pqueue_init(TtLines, Lines)
    BY DEF QInit
<1>2. lm.vpc = [l \in Lines |-> 0] /\ lm.victim_line_pq = {}
    BY <1>1 DEF Init, InitWith
<1>3. QueueFor(heap, lm)
    BY <1>1, <1>2, InitQueue
<1> QED
    BY <1>1, <1>3, InitIInv DEF QIInv

\* The invariant of the build.
LEMMA QInvariance == QSpec => []QIInv
    BY InitQIInv, NextQIInv, PTL DEF QSpec

\* What the heap holds, where and in which order: the members are the victims
\* of line management, each at the place its pos names, the others have pos 0,
\* and a line with fewer valid pages is never below one with more.
THEOREM HeapIsSound == QSpec => []HeapSound
<1>1. QIInv => HeapSound
  <2> SUFFICES ASSUME QIInv
               PROVE  HeapSound
    OBVIOUS
  <2>1. IsQueueOf(heap, Lines, lm.vpc, lm.victim_line_pq)
    BY DEF QIInv, QueueFor
  <2>2. /\ heap.size \in Nat \ {0} /\ heap.size - 1 = Cardinality(lm.victim_line_pq)
        /\ \A j \in 1 .. heap.size - 1 : heap.d[j] \in lm.victim_line_pq
        /\ \A y \in lm.victim_line_pq : heap.pos[y] \in 1 .. heap.size - 1 /\ heap.d[heap.pos[y]] = y
        /\ \A y \in Lines \ lm.victim_line_pq : heap.pos[y] = 0
        /\ \A j \in 2 .. heap.size - 1 :
             parent(j) # 0 => lm.vpc[heap.d[parent(j)]] <= lm.vpc[heap.d[j]]
    BY <2>1, QueueParts
  <2>3. Members(heap) = lm.victim_line_pq
    BY <2>2 DEF Members
  <2>4. ASSUME NEW j \in 2 .. heap.size - 1
        PROVE  lm.vpc[heap.d[parent(j)]] <= lm.vpc[heap.d[j]]
    <3>1. j \in Nat /\ j > 1
      BY <2>2
    <3>2. parent(j) # 0
      BY <3>1, Parents
    <3> QED
      BY <2>2, <3>2
  <2> QED
    BY <2>2, <2>3, <2>4 DEF HeapSound
<1> QED
    BY <1>1, QInvariance, PTL

\* The build with the heap implements ConvFtl, and with it everything proved of
\* ConvFtl: the heap never hands out a line that is not a victim.
THEOREM HeapImplementsSet == QSpec => ImplementsConvFtl
    BY InitQIInv, NextQIInv, PTL DEF QSpec, ImplementsConvFtl, Spec

-----------------------------------------------------------------------------
(* The builds with GC_POLICY_AGE_CB and GC_POLICY_ISOTONIC. *)

\* A line without an invalid page has no stamp, the victim v apart.
Stamped(m, stamp, v) == \A l \in Lines \ {v} : m.ipc[l] = 0 => stamp[l] = 0

\* What holds until do_gc gets a line that is not a victim.
SIInv ==
    /\ last_modified_time \in [Lines -> 0 .. MaxTime] /\ cur_nsecs \in 0 .. MaxTime
    /\ ~Stray => /\ IInv /\ QueueFor(heap, lm)
                 /\ Stamped(lm, last_modified_time, victim_line)

\* A stamp for a line with an invalid page.
LEMMA StampInvalid ==
    ASSUME NEW m \in LineMgmt, NEW l \in Lines, NEW m1, m1.ipc = [m.ipc EXCEPT ![l] = @ + 1],
           NEW stamp \in [Lines -> 0 .. MaxTime], NEW t \in 0 .. MaxTime, NEW v, Stamped(m, stamp, v),
           NEW s1, s1 = [stamp EXCEPT ![l] = t]
    PROVE  Stamped(m1, s1, v) /\ s1 \in [Lines -> 0 .. MaxTime]
<1>1. m.ipc \in [Lines -> 0 .. PgsPerLine] /\ PgsPerLine \in Nat
    BY LineMgmtParts, SizeAssumption
<1>2. m1.ipc[l] = m.ipc[l] + 1 /\ m1.ipc[l] # 0
    BY <1>1
<1>3. \A y \in Lines : y # l => m1.ipc[y] = m.ipc[y] /\ s1[y] = stamp[y]
    BY <1>1
<1> QED
    BY <1>2, <1>3 DEF Stamped

\* The same counters of invalid pages, the same stamps.
LEMMA StampSame ==
    ASSUME NEW m, NEW m1, m1.ipc = m.ipc, NEW stamp, NEW v, NEW w, v = w \/ v = NULL, Stamped(m, stamp, v)
    PROVE  Stamped(m1, stamp, w)
BY TokenAssumption DEF Stamped

\* mark_page_invalid counts one more invalid page.
LEMMA InvalidIpc ==
    ASSUME NEW m \in LineMgmt, NEW l \in Lines
    PROVE  mark_page_invalid(m, l).ipc = [m.ipc EXCEPT ![l] = @ + 1]
BY LineMgmtParts DEF mark_page_invalid

\* Writing a page of an open line counts none.
LEMMA FillIpc ==
    ASSUME NEW m \in LineMgmt, NEW w \in Pointer, w.line \in Lines, m.vpc[w.line] < P
    PROVE  advance_write_pointer(mark_page_valid(m, w.line), w).lm.ipc = m.ipc
<1> DEFINE m1 == mark_page_valid(m, w.line)
           c == close_line(m1, w.line)
<1>1. m1 \in LineMgmt /\ m1.ipc = m.ipc
    BY ValidFields
<1>2. c \in LineMgmt /\ c.ipc = m.ipc
  <2> HIDE DEF m1
  <2> QED
    BY <1>1, CloseFields
<1>3. take_free_line(c).ipc = c.ipc
  <2> HIDE DEF c
  <2> QED
    BY <1>2, LineMgmtParts DEF take_free_line
<1> QED
    BY <1>1, <1>2, <1>3 DEF advance_write_pointer

\* Without a line that is none of its business, do_gc is where ConvFtl has it.
LEMMA NotStray == pc # "gc" => ~Stray
    BY DEF Stray

\* What the invariant says where the host may act.
LEMMA IdleScan ==
    ASSUME SIInv, pc # "gc"
    PROVE  IInv /\ QueueFor(heap, lm) /\ Stamped(lm, last_modified_time, victim_line)
    BY NotStray DEF SIInv

\* A write keeps the invariant.
LEMMA WriteSIInv ==
    ASSUME SIInv, NEW lpn \in LPN, SWritePage(lpn)
    PROVE  SIInv'
<1> DEFINE overwrite == maptbl[lpn] # UNMAPPED
           l  == maptbl[lpn][1]
           m1 == IF overwrite THEN mark_page_invalid(lm, l) ELSE lm
           s1 == IF overwrite THEN [last_modified_time EXCEPT ![l] = cur_nsecs] ELSE last_modified_time
<1>1. /\ pc = "idle" /\ WritePage(lpn) /\ QWritePage(lpn) /\ cur_nsecs' = cur_nsecs
      /\ victim_line' = victim_line /\ last_modified_time' = s1
    BY DEF SWritePage, QWritePage, WritePage, Stamp, gcvars
<1>2. IInv /\ QueueFor(heap, lm) /\ Stamped(lm, last_modified_time, victim_line)
    BY <1>1, IdleScan
<1>3. IInv' /\ QueueFor(heap', lm')
    BY <1>1, <1>2, WriteIInv, WriteQueue
<1>4. /\ lm \in LineMgmt /\ wp \in Pointer /\ gc_wp \in Pointer /\ wp.line \in Lines
      /\ LineInv(lm, status, wp, gc_wp, NULL, TodoAt(gc_pos)) /\ status \in PageTable
    BY <1>1, <1>2, IdleParts
<1>5. lm' = advance_write_pointer(mark_page_valid(m1, wp.line), wp).lm
    BY <1>1 DEF WritePage, NewPage
<1>6. /\ m1 \in LineMgmt /\ m1.vpc[wp.line] < P
      /\ Stamped(m1, s1, victim_line) /\ s1 \in [Lines -> 0 .. MaxTime]
  <2>1. CASE overwrite
    <3>1. PICK k : k = maptbl[lpn][2]
      OBVIOUS
    <3>2. l \in Lines /\ k \in Offs /\ l # NULL /\ status[<<l, k>>] = "PG_VALID"
      BY <1>1, <1>2, <2>1, <3>1, IdleParts
    <3>3. s1 = [last_modified_time EXCEPT ![l] = cur_nsecs] /\ m1 = mark_page_invalid(lm, l)
      BY <2>1
    <3>4. m1.ipc = [lm.ipc EXCEPT ![l] = @ + 1]
      BY <1>4, <3>2, <3>3, InvalidIpc
    <3> HIDE DEF l, s1, m1
    <3>5. m1 \in LineMgmt /\ m1.vpc[wp.line] < P
      BY <1>2, <1>4, <3>2, <3>3, EmptyQueue
    <3>6. last_modified_time \in [Lines -> 0 .. MaxTime] /\ cur_nsecs \in 0 .. MaxTime
      BY DEF SIInv
    <3>7. Stamped(m1, s1, victim_line) /\ s1 \in [Lines -> 0 .. MaxTime]
      BY <1>2, <1>4, <3>2, <3>3, <3>4, <3>6, StampInvalid
    <3> QED
      BY <3>5, <3>7
  <2>2. CASE ~overwrite
    <3>1. s1 = last_modified_time /\ m1 = lm
      BY <2>2
    <3> HIDE DEF s1, m1
    <3> QED
      BY <1>2, <1>4, <3>1, OpenLine DEF SIInv
  <2> QED
    BY <2>1, <2>2
<1> HIDE DEF m1, s1
<1>7. lm'.ipc = m1.ipc
    BY <1>4, <1>5, <1>6, FillIpc
<1>8. Stamped(lm', s1, victim_line)
    BY <1>6, <1>7, StampSame
<1> QED
    BY <1>1, <1>3, <1>6, <1>8 DEF SIInv

\* A discard keeps the invariant.
LEMMA DiscardSIInv ==
    ASSUME SIInv, NEW lpn \in LPN, SDiscardPage(lpn)
    PROVE  SIInv'
<1>1. PICK l, k : l = maptbl[lpn][1] /\ k = maptbl[lpn][2]
    OBVIOUS
<1>2. /\ pc = "idle" /\ DiscardPage(lpn) /\ QDiscardPage(lpn) /\ cur_nsecs' = cur_nsecs
      /\ victim_line' = victim_line /\ maptbl[lpn] # UNMAPPED
      /\ last_modified_time' = [last_modified_time EXCEPT ![l] = cur_nsecs]
      /\ lm' = mark_page_invalid(lm, l)
    BY <1>1 DEF SDiscardPage, QDiscardPage, DiscardPage, Stamp, gcvars
<1>3. IInv /\ QueueFor(heap, lm) /\ Stamped(lm, last_modified_time, victim_line)
    BY <1>2, IdleScan
<1>4. IInv' /\ QueueFor(heap', lm')
    BY <1>2, <1>3, DiscardIInv, DiscardQueue
<1>5. lm \in LineMgmt /\ l \in Lines
    BY <1>1, <1>2, <1>3, IdleParts
<1>6. lm'.ipc = [lm.ipc EXCEPT ![l] = @ + 1]
    BY <1>2, <1>5, InvalidIpc
<1>7. last_modified_time \in [Lines -> 0 .. MaxTime] /\ cur_nsecs \in 0 .. MaxTime
    BY DEF SIInv
<1>8. /\ Stamped(lm', last_modified_time', victim_line)
      /\ last_modified_time' \in [Lines -> 0 .. MaxTime]
    BY <1>2, <1>3, <1>5, <1>6, <1>7, StampInvalid
<1> QED
    BY <1>2, <1>4, <1>7, <1>8 DEF SIInv

\* The scan meets lines only, and all of the queue: even the slot after the
\* last one is inside the array, as the open lines are not queued.
LEMMA ScanMeets ==
    ASSUME IInv, QueueFor(heap, lm), pc = "check"
    PROVE  /\ Scanned \in SUBSET Lines /\ lm.victim_line_pq \in SUBSET Scanned
           /\ \A l \in Lines \ lm.victim_line_pq :
                l \in FreeLines \cup lm.full_line_list \cup {wp.line, gc_wp.line}
<1>1. /\ lm \in LineMgmt /\ wp \in Pointer /\ gc_wp \in Pointer /\ victim_line = NULL
      /\ LineInv(lm, status, wp, gc_wp, victim_line, TodoAt(gc_pos)) /\ wp.line \in Lines
    BY TypeParts DEF IInv, Control
<1>2. PICK T : T = lm.victim_line_pq
    OBVIOUS
<1>3. /\ heap.size \in Nat \ {0} /\ heap.size - 1 = Cardinality(T) /\ T \in SUBSET Lines
      /\ \A j \in 1 .. heap.size - 1 : heap.d[j] \in T
      /\ \A y \in T : heap.pos[y] \in 1 .. heap.size - 1 /\ heap.d[heap.pos[y]] = y
      /\ heap \in Queues(Lines, Cardinality(Lines)) /\ Cardinality(Lines) \in Nat
      /\ NIL \notin Lines /\ IsFiniteSet(Lines)
  <2>1. IsQueueOf(heap, Lines, lm.vpc, T)
    BY <1>2 DEF QueueFor
  <2> QED
    BY <2>1, QueueParts
<1>4. wp.line \notin T
    BY <1>1, <1>2, OpenLine
<1>5. Cardinality(T) <= Cardinality(Lines) - 1
  <2>1. PICK U : U = Lines \ {wp.line}
    OBVIOUS
  <2>2. IsFiniteSet(U) /\ Cardinality(U) = Cardinality(Lines) - 1 /\ T \in SUBSET U
    BY <1>1, <1>3, <1>4, <2>1, FS_RemoveElement, Sizes
  <2>3. Cardinality(T) \in 0 .. Cardinality(U)
    BY <2>2, Sizes
  <2> QED
    BY <1>3, <2>2, <2>3
<1>6. \A i \in 1 .. heap.size : heap.d[i] \in Lines \cup {NIL}
  <2>1. heap.d \in [0 .. Cardinality(Lines) -> Lines \cup {NIL}]
    BY <1>3 DEF Queues
  <2>2. \A i \in 1 .. heap.size : i \in 0 .. Cardinality(Lines)
    BY <1>3, <1>5
  <2> QED
    BY <2>1, <2>2
<1>7. Scanned \in SUBSET Lines
    BY <1>6 DEF Scanned
<1>8. T \in SUBSET Scanned
  <2> SUFFICES ASSUME NEW y \in T
               PROVE  y \in Scanned
    OBVIOUS
  <2>1. PICK i : i = heap.pos[y]
    OBVIOUS
  <2>2. i \in 1 .. heap.size /\ heap.d[i] = y /\ y # NIL
    BY <1>3, <2>1
  <2> QED
    BY <2>2 DEF Scanned
<1>9. ASSUME NEW l \in Lines \ T
      PROVE  l \in FreeLines \cup lm.full_line_list \cup {wp.line, gc_wp.line}
  <2>1. l # victim_line
    BY <1>1, TokenAssumption
  <2> QED
    BY <1>1, <1>2, <2>1 DEF LineInv, Places, FreeLines
<1> QED
    BY <1>2, <1>7, <1>8, <1>9

\* A selection: the victim is one of the queue, or the run is followed no more.
LEMMA SelectScan ==
    ASSUME SIInv, NEW best \in Scanned, SelectLine(best)
    PROVE  best \in lm.victim_line_pq \/ Stray'
<1>1. /\ pc = "check" /\ pc' = "gc" /\ victim_line' = best /\ wp' = wp /\ gc_wp' = gc_wp
      /\ lm' = [lm EXCEPT !.victim_line_pq = @ \ {best}]
    BY DEF SelectLine
<1>2. IInv /\ QueueFor(heap, lm)
    BY <1>1, IdleScan
<1>3. lm \in LineMgmt
    BY <1>2, TypeParts DEF IInv
<1>4. lm'.free_line_list = lm.free_line_list /\ lm'.full_line_list = lm.full_line_list
    BY <1>1, <1>3, LineMgmtParts
<1>5. CASE best \notin lm.victim_line_pq
  <2>1. best \in FreeLines \cup lm.full_line_list \cup {wp.line, gc_wp.line}
    BY <1>1, <1>2, <1>5, ScanMeets
  <2>2. FreeLines' = FreeLines
    BY <1>4 DEF FreeLines
  <2> QED
    BY <1>1, <1>4, <2>1, <2>2 DEF Stray
<1> QED
    BY <1>5

\* The selection keeps the invariant.
LEMMA SelectSIInv ==
    ASSUME SIInv, select_victim_cost_benefit
    PROVE  SIInv'
<1>1. PICK best \in Scanned :
        /\ SelectLine(best)
        /\ heap' = [pqueue_remove(heap, lm.vpc, best) EXCEPT !.pos[best] = 0]
    BY DEF select_victim_cost_benefit
<1>2. /\ cur_nsecs' = cur_nsecs /\ last_modified_time' = last_modified_time
      /\ pc = "check" /\ victim_line' = best
    BY <1>1 DEF select_victim_cost_benefit, SelectLine
<1>3. IInv /\ QueueFor(heap, lm) /\ Stamped(lm, last_modified_time, victim_line)
    BY <1>2, IdleScan
<1>4. CASE best \in lm.victim_line_pq
  <2>1. IInv'
    BY <1>1, <1>3, <1>4, SelectIInv DEF SelectVictim
  <2>2. IsQueueOf(heap', Lines, lm.vpc, lm.victim_line_pq \ {best})
    BY <1>1, <1>3, <1>4, QueueRemove DEF QueueFor
  <2>3. QueueFor(heap', lm')
    BY <1>1, <1>3, <1>4, <2>2, LeaveQueue
  <2>4. lm \in LineMgmt /\ lm' = [lm EXCEPT !.victim_line_pq = @ \ {best}] /\ victim_line = NULL
    BY <1>1, <1>2, <1>3, TypeParts DEF IInv, SelectLine, Control
  <2>5. lm'.ipc = lm.ipc
    BY <2>4, LineMgmtParts
  <2>6. Stamped(lm', last_modified_time, best)
    BY <1>3, <2>4, <2>5, StampSame
  <2> QED
    BY <1>2, <2>1, <2>3, <2>6 DEF SIInv
<1>5. CASE best \notin lm.victim_line_pq
  <2>1. Stray'
    BY <1>1, <1>5, SelectScan
  <2> QED
    BY <1>2, <2>1 DEF SIInv
<1> QED
    BY <1>4, <1>5

\* The wild pointer: only where the dispatcher is changes.
LEMMA WildSIInv ==
    ASSUME SIInv, ScanWild
    PROVE  SIInv'
<1>1. /\ pc = "check" /\ pc' = "oops" /\ UNCHANGED <<mapvars, lm, wp, gc_wp, flowvars, gcvars>>
      /\ heap' = heap /\ cur_nsecs' = cur_nsecs /\ last_modified_time' = last_modified_time
    BY DEF ScanWild
<1>2. IInv /\ QueueFor(heap, lm) /\ Stamped(lm, last_modified_time, victim_line)
    BY <1>1, IdleScan
<1>3. /\ maptbl' = maptbl /\ rmap' = rmap /\ status' = status /\ lm' = lm /\ wp' = wp
      /\ gc_wp' = gc_wp /\ write_credits' = write_credits
      /\ credits_to_refill' = credits_to_refill /\ victim_line' = victim_line /\ gc_pos' = gc_pos
    BY <1>1 DEF mapvars, flowvars, gcvars
<1>4. TypeOK'
    BY <1>1, <1>2, <1>3, TypeParts, TypePartsNext DEF IInv
<1>5. IInv'
    BY <1>1, <1>2, <1>3, <1>4 DEF IInv, Control, CreditsInRange, Erased
<1>6. QueueFor(heap', lm') /\ Stamped(lm', last_modified_time', victim_line')
    BY <1>1, <1>2, <1>3
<1> QED
    BY <1>1, <1>5, <1>6 DEF SIInv

\* The end of a collection: the erased line loses its stamp.
LEMMA DoneSIInv ==
    ASSUME SIInv, SGcDone
    PROVE  SIInv'
<1>1. /\ ~Stray /\ GcDone /\ heap' = heap /\ cur_nsecs' = cur_nsecs
      /\ last_modified_time' = [last_modified_time EXCEPT ![victim_line] = 0]
      /\ lm' = mark_line_free(lm, victim_line) /\ pc = "gc" /\ victim_line' = NULL
    BY DEF SGcDone, GcDone
<1>2. IInv /\ QueueFor(heap, lm) /\ Stamped(lm, last_modified_time, victim_line)
    BY <1>1 DEF SIInv
<1>3. IInv' /\ QueueFor(heap', lm')
    BY <1>1, <1>2, DoneIInv, DoneQueue
<1>4. lm \in LineMgmt /\ victim_line \in Lines
    BY <1>1, <1>2, TypeParts DEF IInv, Control
<1>5. lm'.ipc = [lm.ipc EXCEPT ![victim_line] = 0]
    BY <1>1, <1>4, LineMgmtParts DEF mark_line_free
<1>6. PICK v, s, t, m1 : v = victim_line /\ s = last_modified_time /\ t = last_modified_time' /\ m1 = lm'
    OBVIOUS
<1>7. /\ v \in Lines /\ s \in [Lines -> 0 .. MaxTime] /\ t = [s EXCEPT ![v] = 0]
      /\ lm.ipc \in [Lines -> 0 .. PgsPerLine] /\ m1.ipc = [lm.ipc EXCEPT ![v] = 0]
      /\ Stamped(lm, s, v) /\ MaxTime \in Nat
    BY <1>1, <1>2, <1>4, <1>5, <1>6, LineMgmtParts, ScanAssumption DEF SIInv
<1>8. t \in [Lines -> 0 .. MaxTime] /\ Stamped(m1, t, NULL)
    BY <1>7 DEF Stamped
<1> QED
    BY <1>1, <1>3, <1>6, <1>8 DEF SIInv

\* The other steps move no stamp and no invalid page.
LEMMA QuietSIInv ==
    ASSUME SIInv, SQuietStep
    PROVE  SIInv'
<1>1. /\ ~Stray /\ cur_nsecs' = cur_nsecs /\ last_modified_time' = last_modified_time
    BY DEF SQuietStep
<1>2. IInv /\ QueueFor(heap, lm) /\ Stamped(lm, last_modified_time, victim_line)
    BY <1>1 DEF SIInv
<1>3. CASE QGcCopyPage
  <2>1. /\ GcCopyPage /\ pc = "gc" /\ victim_line' = victim_line
        /\ lm' = advance_write_pointer(mark_page_valid(lm, gc_wp.line), gc_wp).lm
    BY <1>3 DEF QGcCopyPage, GcCopyPage, NewPage
  <2>2. IInv' /\ QueueFor(heap', lm')
    BY <1>2, <1>3, <2>1, CopyIInv, CopyQueue
  <2>3. /\ lm \in LineMgmt /\ wp \in Pointer /\ gc_wp \in Pointer /\ gc_wp.line \in Lines
        /\ LineInv(lm, status, wp, gc_wp, victim_line, TodoAt(gc_pos))
    BY <1>2, <2>1, TypeParts DEF IInv, Control
  <2>4. lm.vpc[gc_wp.line] < P
    BY <2>3, OpenLine
  <2>5. lm'.ipc = lm.ipc
    BY <2>1, <2>3, <2>4, FillIpc
  <2>6. Stamped(lm', last_modified_time, victim_line)
    BY <1>2, <2>5, StampSame
  <2> QED
    BY <1>1, <2>1, <2>2, <2>6 DEF SIInv
<1>4. CASE (RefillNoGc \/ GcSkipPage) /\ UNCHANGED heap
  <2>1. lm' = lm /\ victim_line' = victim_line /\ heap' = heap
    BY <1>4 DEF RefillNoGc, GcSkipPage, gcvars
  <2>2. Next
    BY <1>4 DEF Next, InternalStep, GcStep
  <2>3. IInv'
    BY <1>2, <2>2, NextIInv
  <2>4. QueueFor(heap', lm') /\ Stamped(lm', last_modified_time', victim_line')
    BY <1>1, <1>2, <2>1
  <2> QED
    BY <1>1, <2>3, <2>4 DEF SIInv
<1> QED
    BY <1>3, <1>4 DEF SQuietStep

\* Time passes between pages.
LEMMA ClockSIInv ==
    ASSUME SIInv, SetClock
    PROVE  SIInv'
<1>1. /\ pc = "idle" /\ cur_nsecs' \in 0 .. MaxTime /\ UNCHANGED vars /\ heap' = heap
      /\ lm' = lm /\ victim_line' = victim_line /\ last_modified_time' = last_modified_time
    BY DEF SetClock, qvars, vars
<1>2. IInv /\ QueueFor(heap, lm) /\ Stamped(lm, last_modified_time, victim_line)
    BY <1>1, IdleScan
<1>3. IInv'
    BY <1>1, <1>2, NextIInv
<1>4. QueueFor(heap', lm') /\ Stamped(lm', last_modified_time', victim_line')
    BY <1>1, <1>2
<1> QED
    BY <1>1, <1>3, <1>4 DEF SIInv

\* SIInv is inductive.
LEMMA NextSIInv == SIInv /\ [SNext]_svars => SIInv'
<1> SUFFICES ASSUME SIInv, [SNext]_svars
             PROVE  SIInv'
    OBVIOUS
<1>1. CASE UNCHANGED svars
  <2>1. /\ UNCHANGED vars /\ heap' = heap /\ cur_nsecs' = cur_nsecs
        /\ lm' = lm /\ victim_line' = victim_line /\ pc' = pc /\ wp' = wp /\ gc_wp' = gc_wp
        /\ last_modified_time' = last_modified_time
    BY <1>1 DEF svars, qvars, vars
  <2>2. Stray' = Stray
    BY <2>1 DEF Stray, FreeLines
  <2>3. CASE Stray
    BY <2>1, <2>2, <2>3 DEF SIInv
  <2>4. CASE ~Stray
    <3>1. IInv /\ QueueFor(heap, lm) /\ Stamped(lm, last_modified_time, victim_line)
      BY <2>4 DEF SIInv
    <3>2. IInv'
      BY <2>1, <3>1, NextIInv
    <3>3. QueueFor(heap', lm') /\ Stamped(lm', last_modified_time', victim_line')
      BY <2>1, <3>1
    <3> QED
      BY <2>1, <3>2, <3>3 DEF SIInv
  <2> QED
    BY <2>3, <2>4
<1> QED
    BY <1>1, ClockSIInv, WriteSIInv, DiscardSIInv, SelectSIInv, WildSIInv, DoneSIInv, QuietSIInv
    DEF SNext

\* The lines are handed out in the order of their numbers.
LEMMA InitSIInv == SInit => SIInv
<1> SUFFICES ASSUME SInit
             PROVE  SIInv
    OBVIOUS
<1>1. PICK order : order = [i \in 1 .. TtLines |-> i - 1]
    OBVIOUS
<1>2. /\ InitWith(order) /\ heap = pqueue_init(TtLines, Lines)
      /\ cur_nsecs = 0 /\ last_modified_time = [l \in Lines |-> 0]
    BY <1>1 DEF SInit, QInitWith
<1>3. PICK N \in Nat : N = TtLines
    BY SizeAssumption, Sizes DEF TtLines
<1>4. order \in LineOrders
  <2>1. Lines = 0 .. N - 1 /\ order = [i \in 1 .. N |-> i - 1]
    BY <1>1, <1>3, ScanAssumption
  <2>2. order \in [1 .. N -> Lines] /\ \A i, j \in 1 .. N : order[i] = order[j] => i = j
    BY <2>1
  <2>3. ASSUME NEW l \in Lines
        PROVE  \E i \in 1 .. N : order[i] = l
    <3>1. l + 1 \in 1 .. N /\ order[l + 1] = l
      BY <2>1
    <3> QED
      BY <3>1
  <2> QED
    BY <1>3, <2>2, <2>3 DEF LineOrders
<1>5. Init
    BY <1>2, <1>4 DEF Init
<1>6. lm.vpc = [l \in Lines |-> 0] /\ lm.victim_line_pq = {}
    BY <1>2 DEF InitWith
<1>7. IInv /\ QueueFor(heap, lm)
    BY <1>2, <1>5, <1>6, InitIInv, InitQueue
<1>8. /\ last_modified_time \in [Lines -> 0 .. MaxTime] /\ cur_nsecs \in 0 .. MaxTime
      /\ Stamped(lm, last_modified_time, victim_line)
  <2>1. 0 \in 0 .. MaxTime
    BY ScanAssumption
  <2> QED
    BY <1>2, <2>1 DEF Stamped
<1> QED
    BY <1>7, <1>8 DEF SIInv

\* The invariant of the builds that scan.
LEMMA SInvariance == SSpec => []SIInv
    BY InitSIInv, NextSIInv, PTL DEF SSpec

\* A line without an invalid page has no stamp, as long as do_gc gets lines of
\* the queue only: mark_page_invalid sets it with the first one and
\* mark_line_free clears it with the last.
THEOREM StampsStayFresh == SSpec => []StampsFresh
<1>1. SIInv => StampsFresh
    BY DEF SIInv, Stamped, StampsFresh
<1> QED
    BY <1>1, SInvariance, PTL

\* The victim of select_victim_cost_benefit, unless it is the stray slot behind
\* the last one, is a line of the queue that no other line of it beats.
THEOREM BestIsTaken == SSpec => ScanTakesBest
<1>1. SIInv /\ [SNext]_svars =>
        [pc = "check" /\ pc' = "gc" /\ ~Stray' =>
            /\ victim_line' \in lm.victim_line_pq
            /\ \A l \in lm.victim_line_pq \ {victim_line'} : Beats(victim_line', l)]_svars
  <2> SUFFICES ASSUME SIInv, SNext, pc = "check", pc' = "gc", ~Stray'
               PROVE  /\ victim_line' \in lm.victim_line_pq
                      /\ \A l \in lm.victim_line_pq \ {victim_line'} : Beats(victim_line', l)
    OBVIOUS
  <2>1. select_victim_cost_benefit
    <3>1. ~SetClock /\ ~ScanWild /\ ~SGcDone
      BY DEF SetClock, ScanWild, SGcDone, GcDone
    <3>2. \A lpn \in LPN : ~SWritePage(lpn) /\ ~SDiscardPage(lpn)
      BY DEF SWritePage, SDiscardPage, QWritePage, QDiscardPage, WritePage, DiscardPage
    <3>3. ~SQuietStep
      BY DEF SQuietStep, QGcCopyPage, GcCopyPage, RefillNoGc, GcSkipPage
    <3> QED
      BY <3>1, <3>2, <3>3 DEF SNext
  <2>2. PICK best \in Scanned :
          /\ \A l \in Scanned \ {best} : Beats(best, l)
          /\ SelectLine(best)
    BY <2>1 DEF select_victim_cost_benefit
  <2>3. victim_line' = best
    BY <2>2 DEF SelectLine
  <2>4. best \in lm.victim_line_pq
    BY <2>2, SelectScan
  <2>5. lm.victim_line_pq \in SUBSET Scanned
    BY IdleScan, ScanMeets
  <2> QED
    BY <2>2, <2>3, <2>4, <2>5
<1> QED
    BY <1>1, SInvariance, PTL DEF SSpec, ScanTakesBest

=============================================================================
