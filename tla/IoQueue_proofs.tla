---------------------------- MODULE IoQueue_proofs ----------------------------
(***************************************************************************)
(* The work queue of an I/O worker, proved for every number of entries, of  *)
(* commands and of times: EntriesKept, SortedUnlessDue and CompletedOnce.   *)
(*                                                                         *)
(* At every moment the entries are divided into three chains: the list of  *)
(* requests s of length n, the free list f of length m, and what the        *)
(* dispatcher holds, p of length k (the entry it sets up and inserts, or    *)
(* the prefix it reclaims); j is the place of an insertion in s.            *)
(***************************************************************************)
EXTENDS IoQueue, Induction

Links == Entries \cup {NIL}
Kinds == {"io", "internal"}

WorkItem == [cmd : 0 .. NrCmds, buf : 0 .. NrCmds, nsecs_target : Times,
             is_completed : BOOLEAN, is_copied : BOOLEAN, is_internal : BOOLEAN,
             next : Links, prev : Links]

Types ==
    /\ work_queue \in [Entries -> WorkItem]
    /\ worker \in [free_seq : Entries, free_seq_end : Entries,
                   io_seq : Links, io_seq_end : Links, latest_nsecs : Times]
    /\ disp \in [pc : {"idle", "fill", "seek", "publish", "reclaim", "cut", "append"},
                 entry : Links, curr : Int, kind : Kinds, last : Links]
    /\ thr \in [pc : {"top", "visit", "copy", "due", "mark", "next"}, curr : Links, now : Times]
    /\ clock \in Times
    /\ issued \in [Cmds -> Kinds \cup {"new", "dropped"}]
    /\ copied \in SUBSET Cmds
    /\ done \in [Cmds -> 0 .. 1]

-----------------------------------------------------------------------------
(* The lists. *)

Nx == [x \in Entries |-> work_queue[x].next]
Pv == [x \in Entries |-> work_queue[x].prev]
Tm == [x \in Entries |-> work_queue[x].nsecs_target]

\* s is a list of n entries, linked by nx, whose last link leads to end.
Chain(nx, n, s, end) ==
    /\ s \in [1 .. n -> Entries]
    /\ \A a, b \in 1 .. n : s[a] = s[b] => a = b
    /\ \A a \in 1 .. n : nx[s[a]] = IF a = n THEN end ELSE s[a + 1]

Nth(s, a) == IF a = 0 THEN NIL ELSE s[a]
After(n, s, a) == IF a = n THEN NIL ELSE s[a + 1]

Apart(n, s, m, f) == \A a \in 1 .. n, b \in 1 .. m : s[a] # f[b]

Divided(n, s, m, f, k, p) ==
    /\ Chain(Nx, n, s, NIL) /\ worker.io_seq = After(n, s, 0)
    /\ Chain(Nx, m, f, NIL) /\ m >= 1
    /\ worker.free_seq = f[1] /\ worker.free_seq_end = f[m]
    /\ p \in [1 .. k -> Entries]
    /\ Apart(n, s, m, f) /\ Apart(n, s, k, p) /\ Apart(m, f, k, p)
    /\ \A x \in Entries : \/ \E a \in 1 .. n : x = s[a]
                          \/ \E a \in 1 .. m : x = f[a]
                          \/ \E a \in 1 .. k : x = p[a]

\* What the dispatcher holds, by the step it is at.
Holds(n, s, k, p, j) ==
    LET e == disp.entry IN
    /\ disp.pc \in {"idle", "reclaim"} => k = 0
    /\ disp.pc \in {"fill", "seek", "publish"} => k = 1 /\ p[1] = e
    /\ disp.pc = "fill" => Nx[e] = worker.free_seq
    /\ disp.pc = "seek" => Nx[e] = NIL /\ (n > 0 => disp.curr = Nth(s, j))
    /\ disp.pc = "publish" => disp.curr = Nth(s, j) /\ Nx[e] = After(n, s, j)
    /\ disp.pc \in {"cut", "append"} =>
          /\ k >= 1 /\ p[1] = e /\ p[k] = disp.last
          /\ Chain(Nx, k, p, IF disp.pc = "cut" THEN worker.io_seq ELSE NIL)

\* The tail of the list of requests and its links back.
Backs(n, s, j) ==
    LET here == disp.pc = "publish" IN
    /\ n > 0 /\ ~(here /\ j = n) => worker.io_seq_end = s[n]
    /\ here /\ j = n => worker.io_seq_end = disp.entry
    /\ here => Pv[disp.entry] = Nth(s, j)
    /\ \A a \in 1 .. n : Pv[s[a]] = IF here /\ a = j + 1 THEN disp.entry ELSE Nth(s, a - 1)

\* The list of requests is sorted but for what is due, and the place of the
\* entry to be inserted is right.
Due(x) == Tm[x] <= worker.latest_nsecs

Sorted(n, s, j) ==
    LET e == disp.entry IN
    /\ \A a, b \in 1 .. n : a < b => Tm[s[a]] <= Tm[s[b]] \/ Due(s[a])
    /\ disp.pc = "seek" => \A a \in 1 .. n : a > j => Tm[e] <= Tm[s[a]]
    /\ disp.pc = "publish" => /\ \A a \in 1 .. n : a > j => Tm[e] <= Tm[s[a]]
                              /\ \A a \in 1 .. n : a <= j => Tm[s[a]] <= Tm[e] \/ Due(s[a])

-----------------------------------------------------------------------------
(* The commands. *)

\* Entries that have never been used.
Fresh == {x \in Entries : work_queue[x].cmd = 0 /\ work_queue[x].buf = 0}

\* Entries that carry a command, present or past.
Used == {x \in Entries : x \notin Fresh /\ ~(disp.pc = "fill" /\ x = disp.entry)}

CmdOf(x) == IF work_queue[x].is_internal THEN work_queue[x].buf ELSE work_queue[x].cmd

AtMark(x) == thr.pc = "mark" /\ thr.curr = x

\* Unused entries come first in the free list; all others in it are completed.
Stocked(n, s, m, f, k, p) ==
    /\ \A a \in 1 .. n : s[a] \notin Fresh
    /\ \A a, b \in 1 .. m : a < b /\ f[b] \in Fresh => f[a] \in Fresh
    /\ \A a \in 1 .. m : f[a] \notin Fresh => work_queue[f[a]].is_completed
    /\ disp.pc \in {"cut", "append"} =>
          \A a \in 1 .. k : p[a] \notin Fresh /\ work_queue[p[a]].is_completed
    /\ disp.pc \in {"seek", "publish"} => disp.entry \notin Fresh

Queue(n, s, m, f, k, p, j) ==
    /\ Divided(n, s, m, f, k, p)
    /\ Holds(n, s, k, p, j)
    /\ Backs(n, s, j)
    /\ Sorted(n, s, j)
    /\ Stocked(n, s, m, f, k, p)

Shape(n, s, m, f, k, p, j) ==
    /\ n \in Nat /\ m \in Nat /\ k \in Nat /\ j \in 0 .. n
    /\ s \in [1 .. n -> Entries] /\ f \in [1 .. m -> Entries] /\ p \in [1 .. k -> Entries]

QueueInv ==
    \E n, s, m, f, k, p, j : Shape(n, s, m, f, k, p, j) /\ Queue(n, s, m, f, k, p, j)

\* Where the worker may be.
ThreadInv ==
    /\ thr.pc = "top" <=> thr.curr = NIL
    /\ thr.curr \notin Fresh
    /\ thr.pc \in {"copy", "due", "mark"} => ~work_queue[thr.curr].is_completed
    /\ thr.pc \in {"due", "mark"} => thr.curr \in Used /\ work_queue[thr.curr].is_copied
    /\ thr.now <= clock /\ worker.latest_nsecs <= clock
    /\ disp.pc = "fill" /\ thr.curr = disp.entry => worker.free_seq \notin Fresh

\* An entry and its command.
EntryInv(x) ==
    LET w == work_queue[x]
        c == CmdOf(x)
    IN  /\ c \in Cmds
        /\ issued[c] = IF w.is_internal THEN "internal" ELSE "io"
        /\ w.is_copied /\ ~w.is_internal => c \in copied
        /\ w.is_completed => w.is_copied
        /\ done[c] = IF w.is_completed \/ AtMark(x) THEN 1 ELSE 0
        /\ done[c] = 1 => w.nsecs_target <= clock

CmdInv ==
    /\ \A x \in Used : EntryInv(x)
    /\ \A x, y \in Used : CmdOf(x) = CmdOf(y) => x = y
    /\ \A c \in Cmds : (done[c] = 1 /\ issued[c] = "io" => c \in copied)
                       /\ (issued[c] = "new" => done[c] = 0)

\* The command whose entry is being set up.
FillInv ==
    disp.pc = "fill" =>
        LET c == disp.curr
            w == work_queue[disp.entry]
        IN  /\ c \in Cmds /\ issued[c] = disp.kind /\ done[c] = 0
            /\ ~w.is_completed
            /\ disp.kind = "io" => w.cmd = c
            /\ \A x \in Used : CmdOf(x) # c

IInv == Types /\ QueueInv /\ ThreadInv /\ CmdInv /\ FillInv

-----------------------------------------------------------------------------
(* Facts that every step uses. *)

\* No entry has the number that ends a list.
LEMMA NilNoEntry == NIL \notin Entries /\ Entries \subseteq Nat /\ 0 \in Entries
BY IoAssumption DEF NIL, Entries

\* The fields of an entry, as functions.
LEMMA Fields ==
    ASSUME Types
    PROVE  /\ Nx \in [Entries -> Links] /\ Pv \in [Entries -> Links]
           /\ Tm \in [Entries -> Times] /\ Times \subseteq Int
           /\ worker.latest_nsecs \in Times
BY IoAssumption DEF Types, Nx, Pv, Tm, WorkItem, Times

\* A step that leaves links and times alone, and at most completes entries
\* and moves latest_nsecs on, leaves the queue as it was.
LEMMA QueueFrame ==
    ASSUME NEW n \in Nat, NEW m \in Nat, NEW k \in Nat, NEW j \in 0 .. n,
           NEW s \in [1 .. n -> Entries], NEW f \in [1 .. m -> Entries],
           NEW p \in [1 .. k -> Entries], Queue(n, s, m, f, k, p, j),
           Types, Types', Nx' = Nx, Pv' = Pv, Tm' = Tm, disp' = disp, Fresh' = Fresh,
           worker'.io_seq = worker.io_seq, worker'.io_seq_end = worker.io_seq_end,
           worker'.free_seq = worker.free_seq, worker'.free_seq_end = worker.free_seq_end,
           worker.latest_nsecs <= worker'.latest_nsecs,
           \A x \in Entries : work_queue[x].is_completed => work_queue'[x].is_completed
    PROVE  Queue(n, s, m, f, k, p, j)'
<1> USE DEF Queue
<1>1. Divided(n, s, m, f, k, p)'
    BY DEF Divided
<1>2. Holds(n, s, k, p, j)'
    BY DEF Holds
<1>3. Backs(n, s, j)'
    BY DEF Backs
<1>4. Sorted(n, s, j)'
  <2>1. \A x \in Entries : Due(x) => Due(x)'
    BY Fields DEF Due, Types, Times
  <2> QED
    BY <2>1 DEF Sorted
<1>5. Stocked(n, s, m, f, k, p)'
  <2>1. disp.pc \in {"cut", "append"} => \A a \in 1 .. k : p[a] \in Entries
    OBVIOUS
  <2> QED
    BY <2>1 DEF Stocked
<1> QED
    BY <1>1, <1>2, <1>3, <1>4, <1>5

\* What a walk along the links visits: the entries of the list, then NIL.
LEMMA WalkIs ==
    ASSUME Types, NEW n \in 0 .. NrEntries, NEW s \in [1 .. n -> Entries],
           Chain(Nx, n, s, NIL), NEW hd, hd = After(n, s, 0)
    PROVE  \A i \in 0 .. NrEntries : Walk(hd)[i] = After(n, s, IF i < n THEN i ELSE n)
<1> USE IoAssumption, NilNoEntry
<1> DEFINE at == Walk(hd)
           g  == [i \in 0 .. NrEntries |-> After(n, s, IF i < n THEN i ELSE n)]
           Follows(h) == h = [i \in 0 .. NrEntries |->
                                IF i = 0 THEN hd
                                ELSE IF h[i - 1] = NIL THEN NIL ELSE work_queue[h[i - 1]].next]
<1>1. Follows(g)
  <2>1. ASSUME NEW i \in 0 .. NrEntries
        PROVE  g[i] = IF i = 0 THEN hd
                      ELSE IF g[i - 1] = NIL THEN NIL ELSE work_queue[g[i - 1]].next
    <3>1. CASE i = 0
      BY <3>1 DEF After
    <3>2. CASE i # 0 /\ i <= n
      <4>1. i \in 1 .. n /\ i - 1 \in 0 .. NrEntries /\ i - 1 < n
        BY <3>2
      <4>2. g[i - 1] = s[i] /\ s[i] \in Entries
        BY <4>1 DEF After
      <4>3. work_queue[s[i]].next = IF i = n THEN NIL ELSE s[i + 1]
        BY <4>1, <4>2 DEF Chain, Nx
      <4>4. g[i] = IF i = n THEN NIL ELSE s[i + 1]
        BY <4>1 DEF After
      <4> QED
        BY <4>2, <4>3, <4>4, <3>2
    <3>3. CASE i # 0 /\ i > n
      BY <3>3 DEF After
    <3> QED
      BY <3>1, <3>2, <3>3
  <2> QED
    BY <2>1
<1>2. at = CHOOSE h : Follows(h)
    BY DEF Walk
<1>3. Follows(at)
  <2> HIDE DEF at, g, Follows
  <2> QED
    BY <1>1, <1>2
<1>4. \A i \in 0 .. NrEntries :
        at[i] = IF i = 0 THEN hd ELSE IF at[i - 1] = NIL THEN NIL ELSE work_queue[at[i - 1]].next
  <2> HIDE DEF at
  <2> QED
    BY <1>3
<1>5. \A i \in 0 .. NrEntries :
        g[i] = IF i = 0 THEN hd ELSE IF g[i - 1] = NIL THEN NIL ELSE work_queue[g[i - 1]].next
  <2> HIDE DEF g
  <2> QED
    BY <1>1
<1> DEFINE Same == {i \in 0 .. NrEntries : at[i] = g[i]}
<1> HIDE DEF at, g
<1>6. 0 \in Same
    BY <1>4, <1>5
<1>7. ASSUME NEW i \in 0 .. NrEntries - 1, i \in Same
      PROVE  i + 1 \in Same
  <2>1. i + 1 \in 0 .. NrEntries /\ i + 1 # 0 /\ (i + 1) - 1 = i /\ at[i] = g[i]
    BY <1>7
  <2> QED
    BY <2>1, <1>4, <1>5
<1>8. \A i \in 0 .. NrEntries : i \in Same
  <2> HIDE DEF Same
  <2> QED
    BY <1>6, <1>7, UpTo
<1> QED
    BY <1>8 DEF at, g

\* Lists without repetitions have no more elements than there are entries.
LEMMA ShortLists ==
    ASSUME NEW n \in Nat, NEW s \in [1 .. n -> Entries],
           \A a, b \in 1 .. n : s[a] = s[b] => a = b
    PROVE  n \in 0 .. NrEntries
<1>1. IsFiniteSet(Entries) /\ Cardinality(Entries) = NrEntries
    BY FS_Interval, IoAssumption DEF Entries
<1>2. n <= Cardinality(Entries)
    BY <1>1, Pigeons
<1> QED
    BY <1>1, <1>2, IoAssumption

Walked(n, s, m, f) ==
    /\ n \in 0 .. NrEntries /\ m \in 0 .. NrEntries
    /\ \A i \in 0 .. NrEntries : IoEntry[i] = After(n, s, IF i < n THEN i ELSE n)
    /\ \A i \in 0 .. NrEntries : FreeEntry[i] = After(m, f, IF i < m THEN i ELSE m)
    /\ OnIo = {s[a] : a \in 1 .. n}
    /\ OnFree = {f[a] : a \in 1 .. m}

\* The two lists, as the walks see them.
LEMMA ListsAre ==
    ASSUME Types, NEW n \in Nat, NEW m \in Nat, NEW k \in Nat,
           NEW s \in [1 .. n -> Entries], NEW f \in [1 .. m -> Entries],
           NEW p \in [1 .. k -> Entries], Divided(n, s, m, f, k, p)
    PROVE  Walked(n, s, m, f)
<1> USE NilNoEntry, IoAssumption
<1>1. n \in 0 .. NrEntries /\ m \in 0 .. NrEntries
    BY ShortLists DEF Divided, Chain
<1>2. \A i \in 0 .. NrEntries : IoEntry[i] = After(n, s, IF i < n THEN i ELSE n)
    BY <1>1, WalkIs DEF Divided, IoEntry
<1>3. \A i \in 0 .. NrEntries : FreeEntry[i] = After(m, f, IF i < m THEN i ELSE m)
  <2>1. worker.free_seq = After(m, f, 0)
    BY <1>1 DEF Divided, After
  <2> QED
    BY <1>1, <2>1, WalkIs DEF Divided, FreeEntry
<1>4. OnIo = {s[a] : a \in 1 .. n}
  <2>1. ASSUME NEW a \in 1 .. n
        PROVE  s[a] \in OnIo
    <3>1. a - 1 \in 0 .. NrEntries /\ a - 1 < n /\ (a - 1) + 1 = a /\ a - 1 # n
      BY <1>1
    <3>2. IoEntry[a - 1] = s[a]
      BY <3>1, <1>2 DEF After
    <3> QED
      BY <3>1, <3>2 DEF OnIo
  <2>2. ASSUME NEW i \in 0 .. NrEntries, IoEntry[i] # NIL
        PROVE  IoEntry[i] \in {s[a] : a \in 1 .. n}
    BY <1>1, <1>2, <2>2 DEF After
  <2> QED
    BY <2>1, <2>2 DEF OnIo
<1>5. OnFree = {f[a] : a \in 1 .. m}
  <2>1. ASSUME NEW a \in 1 .. m
        PROVE  f[a] \in OnFree
    <3>1. a - 1 \in 0 .. NrEntries /\ a - 1 < m /\ (a - 1) + 1 = a /\ a - 1 # m
      BY <1>1
    <3>2. FreeEntry[a - 1] = f[a]
      BY <3>1, <1>3 DEF After
    <3> QED
      BY <3>1, <3>2 DEF OnFree
  <2>2. ASSUME NEW i \in 0 .. NrEntries, FreeEntry[i] # NIL
        PROVE  FreeEntry[i] \in {f[a] : a \in 1 .. m}
    BY <1>1, <1>3, <2>2 DEF After
  <2> QED
    BY <2>1, <2>2 DEF OnFree
<1> QED
    BY <1>1, <1>2, <1>3, <1>4, <1>5 DEF Walked

\* The prefix that the scan of __reclaim_completed_reqs passes is a part of
\* the list of requests, and all of it can be reclaimed.
LEMMA PrefixIs ==
    ASSUME Types, NEW n \in Nat, NEW m \in Nat, NEW k \in Nat,
           NEW s \in [1 .. n -> Entries], NEW f \in [1 .. m -> Entries],
           NEW p \in [1 .. k -> Entries], Divided(n, s, m, f, k, p)
    PROVE  /\ PrefixDone \in 0 .. n
           /\ \A a \in 1 .. PrefixDone : Reclaimable(worker, work_queue[s[a]])
           /\ PrefixDone > 0 => IoEntry[PrefixDone - 1] = s[PrefixDone]
<1> USE NilNoEntry, IoAssumption
<1> DEFINE Passed(i) == IoEntry[i] # NIL /\ Reclaimable(worker, work_queue[IoEntry[i]])
           Stops == {i \in 0 .. NrEntries : i = NrEntries \/ ~Passed(i)}
           Is(i) == (\A a \in 0 .. (i - 1) : Passed(a)) /\ (i = NrEntries \/ ~Passed(i))
<1>1. PICK i \in Stops : \A a \in Stops : i <= a
  <2>1. NrEntries \in Stops
    OBVIOUS
  <2>2. Stops \in SUBSET Nat /\ Stops # {}
    BY <2>1
  <2> HIDE DEF Stops
  <2> QED
    BY <2>2, LeastNat
<1>2. i \in 0 .. NrEntries /\ Is(i)
    BY <1>1
<1>3. PrefixDone = CHOOSE a \in 0 .. NrEntries : Is(a)
    BY Zenon DEF PrefixDone
<1>4. PrefixDone \in 0 .. NrEntries /\ Is(PrefixDone)
  <2> HIDE DEF Is
  <2> QED
    BY <1>2, <1>3
<1> DEFINE q == PrefixDone
<1> HIDE DEF q
<1>5. q \in 0 .. NrEntries /\ \A a \in 0 .. (q - 1) : Passed(a)
    BY <1>4 DEF q
<1>6. n \in 0 .. NrEntries /\ \A a \in 0 .. NrEntries : IoEntry[a] = After(n, s, IF a < n THEN a ELSE n)
  <2>1. Walked(n, s, m, f)
    BY ListsAre
  <2> QED
    BY <2>1 DEF Walked
<1>7. q <= n
  <2> SUFFICES ASSUME q > n
               PROVE  FALSE
    BY <1>5, <1>6
  <2>1. n \in 0 .. (q - 1) /\ IoEntry[n] = NIL
    BY <1>5, <1>6 DEF After
  <2> QED
    BY <2>1, <1>5
<1>8. ASSUME NEW a \in 1 .. q
      PROVE  Reclaimable(worker, work_queue[s[a]]) /\ IoEntry[a - 1] = s[a]
  <2>1. a - 1 \in 0 .. (q - 1) /\ a - 1 \in 0 .. NrEntries /\ a - 1 < n /\ (a - 1) + 1 = a
    BY <1>5, <1>6, <1>7
  <2>2. IoEntry[a - 1] = s[a]
    BY <2>1, <1>6 DEF After
  <2>3. Passed(a - 1)
    BY <2>1, <1>5
  <2> QED
    BY <2>2, <2>3
<1> QED
    BY <1>5, <1>6, <1>7, <1>8 DEF q

-----------------------------------------------------------------------------
(* What the invariant says of the properties. *)

\* An idle dispatcher leaves every entry in one of the two lists.
LEMMA KeptFromInv ==
    ASSUME Types, QueueInv
    PROVE  EntriesKept
<1> SUFFICES ASSUME disp.pc = "idle"
             PROVE  /\ OnIo \cup OnFree = Entries
                    /\ OnIo \cap OnFree = {}
                    /\ IoEntry[NrEntries] = NIL /\ FreeEntry[NrEntries] = NIL
                    /\ worker.free_seq_end \in OnFree
                    /\ work_queue[worker.free_seq_end].next = NIL
                    /\ worker.io_seq # NIL =>
                         worker.io_seq_end \in OnIo /\ work_queue[worker.io_seq_end].next = NIL
    BY DEF EntriesKept
<1>1. PICK n, s, m, f, k, p, j : Shape(n, s, m, f, k, p, j) /\ Queue(n, s, m, f, k, p, j)
    BY DEF QueueInv
<1>2. /\ n \in Nat /\ m \in Nat /\ k \in Nat /\ j \in 0 .. n
      /\ s \in [1 .. n -> Entries] /\ f \in [1 .. m -> Entries] /\ p \in [1 .. k -> Entries]
    BY <1>1 DEF Shape
<1>3. Queue(n, s, m, f, k, p, j)
    BY <1>1
<1> USE <1>2
<1>4. Divided(n, s, m, f, k, p)
    BY <1>3 DEF Queue
<1>5. /\ n \in 0 .. NrEntries /\ m \in 0 .. NrEntries
      /\ IoEntry[NrEntries] = After(n, s, IF NrEntries < n THEN NrEntries ELSE n)
      /\ FreeEntry[NrEntries] = After(m, f, IF NrEntries < m THEN NrEntries ELSE m)
      /\ OnIo = {s[a] : a \in 1 .. n}
      /\ OnFree = {f[a] : a \in 1 .. m}
  <2>1. NrEntries \in 0 .. NrEntries
    BY IoAssumption
  <2>2. Walked(n, s, m, f)
    BY <1>4, ListsAre
  <2> QED
    BY <2>1, <2>2 DEF Walked
<1>6. OnIo \cup OnFree = Entries /\ OnIo \cap OnFree = {}
    BY <1>3, <1>4, <1>5 DEF Divided, Apart, Queue, Holds
<1>7. IoEntry[NrEntries] = NIL /\ FreeEntry[NrEntries] = NIL
    BY <1>5, IoAssumption DEF After
<1>8. worker.free_seq_end \in OnFree /\ work_queue[worker.free_seq_end].next = NIL
  <2>1. m \in 1 .. m /\ worker.free_seq_end = f[m] /\ f[m] \in Entries /\ Nx[f[m]] = NIL
    BY <1>4 DEF Divided, Chain
  <2> QED
    BY <2>1, <1>5 DEF Nx
<1>9. ASSUME worker.io_seq # NIL
      PROVE  worker.io_seq_end \in OnIo /\ work_queue[worker.io_seq_end].next = NIL
  <2>1. n > 0
    BY <1>4, <1>9 DEF Divided, After
  <2>2. n \in 1 .. n /\ worker.io_seq_end = s[n] /\ s[n] \in Entries /\ Nx[s[n]] = NIL
    BY <1>3, <1>4, <2>1 DEF Queue, Backs, Divided, Chain
  <2> QED
    BY <2>2, <1>5 DEF Nx
<1> QED
    BY <1>6, <1>7, <1>8, <1>9

\* The list of requests is sorted at every moment.
LEMMA SortedFromInv ==
    ASSUME Types, QueueInv
    PROVE  SortedUnlessDue
<1>1. PICK n, s, m, f, k, p, j : Shape(n, s, m, f, k, p, j) /\ Queue(n, s, m, f, k, p, j)
    BY DEF QueueInv
<1>2. /\ n \in Nat /\ m \in Nat /\ k \in Nat /\ j \in 0 .. n
      /\ s \in [1 .. n -> Entries] /\ f \in [1 .. m -> Entries] /\ p \in [1 .. k -> Entries]
    BY <1>1 DEF Shape
<1>3. Queue(n, s, m, f, k, p, j)
    BY <1>1
<1> USE <1>2
<1>4. Divided(n, s, m, f, k, p)
    BY <1>3 DEF Queue
<1>5. n \in 0 .. NrEntries /\ \A i \in 0 .. NrEntries : IoEntry[i] = After(n, s, IF i < n THEN i ELSE n)
  <2>1. Walked(n, s, m, f)
    BY <1>4, ListsAre
  <2> QED
    BY <2>1 DEF Walked
<1> SUFFICES ASSUME NEW a \in 0 .. NrEntries, NEW b \in 0 .. NrEntries, a < b, IoEntry[b] # NIL
             PROVE  \/ work_queue[IoEntry[a]].nsecs_target <= work_queue[IoEntry[b]].nsecs_target
                    \/ work_queue[IoEntry[a]].nsecs_target <= worker.latest_nsecs
    BY DEF SortedUnlessDue
<1>6. /\ b < n /\ a + 1 \in 1 .. n /\ b + 1 \in 1 .. n /\ a + 1 < b + 1
      /\ IoEntry[a] = s[a + 1] /\ IoEntry[b] = s[b + 1]
    BY <1>5 DEF After
<1>7. Tm[s[a + 1]] <= Tm[s[b + 1]] \/ Due(s[a + 1])
    BY <1>3, <1>6 DEF Queue, Sorted
<1>8. s[a + 1] \in Entries /\ s[b + 1] \in Entries
    BY <1>6
<1> QED
    BY <1>6, <1>7, <1>8 DEF Tm, Due

\* What the invariant says of the commands is what CompletedOnce asks for.
LEMMA OnceFromInv ==
    ASSUME Types, QueueInv, CmdInv
    PROVE  CompletedOnce
<1>1. PICK n, s, m, f, k, p, j : Shape(n, s, m, f, k, p, j) /\ Queue(n, s, m, f, k, p, j)
    BY DEF QueueInv
<1>2. /\ n \in Nat /\ m \in Nat /\ k \in Nat /\ j \in 0 .. n
      /\ s \in [1 .. n -> Entries] /\ f \in [1 .. m -> Entries] /\ p \in [1 .. k -> Entries]
    BY <1>1 DEF Shape
<1>3. Queue(n, s, m, f, k, p, j)
    BY <1>1
<1> USE <1>2
<1>4. OnIo = {s[a] : a \in 1 .. n}
  <2>1. Divided(n, s, m, f, k, p)
    BY <1>3 DEF Queue
  <2>2. Walked(n, s, m, f)
    BY <2>1, ListsAre
  <2> QED
    BY <2>2 DEF Walked
<1>5. ASSUME NEW x \in OnIo
      PROVE  x \in Used
  <2>1. PICK a \in 1 .. n : x = s[a]
    BY <1>4
  <2>2. x \in Entries /\ x \notin Fresh
    BY <2>1, <1>3 DEF Queue, Stocked
  <2>3. ~(disp.pc = "fill" /\ x = disp.entry)
    BY <2>1, <1>3 DEF Queue, Divided, Apart, Holds
  <2> QED
    BY <2>2, <2>3 DEF Used
<1> SUFFICES ASSUME NEW c \in Cmds
             PROVE  /\ done[c] <= 1
                    /\ done[c] = 1 /\ issued[c] = "io" => c \in copied
                    /\ \A x \in OnIo :
                        CmdOf(x) = c => (work_queue[x].is_completed => done[c] = 1)
                                        /\ (done[c] = 1 => work_queue[x].nsecs_target <= clock)
    BY Zenon DEF CompletedOnce, CmdOf
<1>6. done[c] <= 1
    BY DEF Types
<1>7. done[c] = 1 /\ issued[c] = "io" => c \in copied
    BY DEF CmdInv
<1>8. ASSUME NEW x \in OnIo, CmdOf(x) = c
      PROVE  (work_queue[x].is_completed => done[c] = 1)
             /\ (done[c] = 1 => work_queue[x].nsecs_target <= clock)
  <2>1. EntryInv(x)
    BY <1>5 DEF CmdInv
  <2> QED
    BY <2>1, <1>8 DEF EntryInv
<1> QED
    BY <1>6, <1>7, <1>8

-----------------------------------------------------------------------------
(* The steps of the worker. *)

\* A step that changes neither entries nor commands.
LEMMA CmdFrame ==
    ASSUME Types, CmdInv, FillInv, work_queue' = work_queue, disp' = disp,
           issued' = issued, copied' = copied, done' = done,
           clock' \in Times, clock <= clock',
           \A x \in Entries : AtMark(x)' <=> AtMark(x)
    PROVE  CmdInv' /\ FillInv' /\ Fresh' = Fresh /\ Used' = Used
<1>1. Fresh' = Fresh
    BY DEF Fresh
<1>2. Used' = Used
    BY <1>1 DEF Used
<1>3. \A x : CmdOf(x)' = CmdOf(x)
    BY DEF CmdOf
<1>4. ASSUME NEW x \in Used
      PROVE  EntryInv(x)'
  <2>1. EntryInv(x) /\ x \in Entries
    BY DEF CmdInv, Used
  <2>2. work_queue[x].nsecs_target \in Times /\ clock \in Times
    BY <2>1 DEF Types, WorkItem
  <2> QED
    BY <1>3, <2>1, <2>2, IoAssumption DEF EntryInv, Times
<1>5. CmdInv'
    BY <1>2, <1>3, <1>4 DEF CmdInv
<1>6. FillInv'
    BY <1>2, <1>3 DEF FillInv
<1> QED
    BY <1>1, <1>2, <1>5, <1>6

\* Witnesses for the two lists.
LEMMA QueueIntro ==
    ASSUME NEW n, NEW s, NEW m, NEW f, NEW k, NEW p, NEW j,
           Shape(n, s, m, f, k, p, j), Queue(n, s, m, f, k, p, j)'
    PROVE  QueueInv'
BY DEF QueueInv, Shape

\* The same for the queue, whatever the witnesses.
LEMMA QueueKept ==
    ASSUME QueueInv, Types, Types', Nx' = Nx, Pv' = Pv, Tm' = Tm, disp' = disp, Fresh' = Fresh,
           worker'.io_seq = worker.io_seq, worker'.io_seq_end = worker.io_seq_end,
           worker'.free_seq = worker.free_seq, worker'.free_seq_end = worker.free_seq_end,
           worker.latest_nsecs <= worker'.latest_nsecs,
           \A x \in Entries : work_queue[x].is_completed => work_queue'[x].is_completed
    PROVE  QueueInv'
<1>1. PICK n, s, m, f, k, p, j : Shape(n, s, m, f, k, p, j) /\ Queue(n, s, m, f, k, p, j)
    BY DEF QueueInv
<1>2. /\ n \in Nat /\ m \in Nat /\ k \in Nat /\ j \in 0 .. n
      /\ s \in [1 .. n -> Entries] /\ f \in [1 .. m -> Entries] /\ p \in [1 .. k -> Entries]
    BY <1>1 DEF Shape
<1>3. Queue(n, s, m, f, k, p, j)'
    BY <1>1, <1>2, QueueFrame
<1> QED
    BY <1>1, <1>3, QueueIntro

\* The worker never comes to an entry that has not been used, nor to the one
\* that is being set up, although its next step may lead into the free list.
LEMMA NextIsUsed ==
    ASSUME Types, QueueInv, ThreadInv, NEW y \in Links,
           y = worker.io_seq \/ (thr.curr # NIL /\ y = work_queue[thr.curr].next)
    PROVE  y \notin Fresh /\ ~(disp.pc = "fill" /\ y = disp.entry)
<1>1. PICK n, s, m, f, k, p, j : Shape(n, s, m, f, k, p, j) /\ Queue(n, s, m, f, k, p, j)
    BY DEF QueueInv
<1>2. /\ n \in Nat /\ m \in Nat /\ k \in Nat /\ j \in 0 .. n
      /\ s \in [1 .. n -> Entries] /\ f \in [1 .. m -> Entries] /\ p \in [1 .. k -> Entries]
    BY <1>1 DEF Shape
<1>3. /\ Divided(n, s, m, f, k, p) /\ Holds(n, s, k, p, j) /\ Stocked(n, s, m, f, k, p)
    BY <1>1 DEF Queue
<1> USE <1>2, NilNoEntry
<1>4. NIL \notin Fresh /\ (disp.pc = "fill" => disp.entry # NIL)
    BY <1>3 DEF Fresh, Holds
<1>5. ASSUME NEW a \in 1 .. n, y = s[a]
      PROVE  y \notin Fresh /\ ~(disp.pc = "fill" /\ y = disp.entry)
    BY <1>3, <1>5 DEF Stocked, Divided, Apart, Holds
<1>6. ASSUME NEW a \in 1 .. m, y = f[a]
      PROVE  ~(disp.pc = "fill" /\ y = disp.entry)
    BY <1>3, <1>6 DEF Divided, Apart, Holds
<1>7. CASE y = worker.io_seq
    BY <1>3, <1>4, <1>5, <1>7 DEF Divided, After
<1>8. CASE thr.curr # NIL /\ y = work_queue[thr.curr].next
  <2>1. thr.curr \in Entries /\ y = Nx[thr.curr] /\ thr.curr \notin Fresh
    BY <1>8 DEF Types, Nx, ThreadInv, Links
  <2>2. ASSUME NEW a \in 1 .. n, thr.curr = s[a]
        PROVE  y \notin Fresh /\ ~(disp.pc = "fill" /\ y = disp.entry)
    <3>1. y = IF a = n THEN NIL ELSE s[a + 1]
      BY <1>3, <2>1, <2>2 DEF Divided, Chain
    <3> QED
      BY <3>1, <1>4, <1>5
  <2>3. ASSUME NEW a \in 1 .. m, thr.curr = f[a]
        PROVE  y \notin Fresh /\ ~(disp.pc = "fill" /\ y = disp.entry)
    <3>1. y = IF a = m THEN NIL ELSE f[a + 1]
      BY <1>3, <2>1, <2>3 DEF Divided, Chain
    <3>2. a # m => f[a + 1] \notin Fresh
      BY <1>3, <2>1, <2>3 DEF Stocked
    <3> QED
      BY <3>1, <3>2, <1>4, <1>6
  <2>4. ASSUME NEW a \in 1 .. k, thr.curr = p[a]
        PROVE  y \notin Fresh /\ ~(disp.pc = "fill" /\ y = disp.entry)
    <3>1. disp.pc \in {"fill", "seek", "publish", "cut", "append"}
      BY <1>3, <2>4 DEF Holds, Types
    <3>2. CASE disp.pc = "fill"
      <4>1. thr.curr = disp.entry /\ y = worker.free_seq /\ worker.free_seq = f[1] /\ 1 \in 1 .. m
        BY <1>3, <2>1, <2>4, <3>2 DEF Holds, Divided
      <4> QED
        BY <4>1, <3>2, <1>6 DEF ThreadInv
    <3>3. CASE disp.pc = "seek"
      <4>1. y = NIL
        BY <1>3, <2>1, <2>4, <3>3 DEF Holds
      <4> QED
        BY <4>1, <1>4
    <3>4. CASE disp.pc = "publish"
      <4>1. y = After(n, s, j)
        BY <1>3, <2>1, <2>4, <3>4 DEF Holds
      <4> QED
        BY <4>1, <1>4, <1>5 DEF After
    <3>5. CASE disp.pc \in {"cut", "append"}
      <4>1. y = IF a = k THEN (IF disp.pc = "cut" THEN worker.io_seq ELSE NIL) ELSE p[a + 1]
        BY <1>3, <2>1, <2>4, <3>5 DEF Holds, Chain
      <4>2. a # k => p[a + 1] \notin Fresh
        BY <1>3, <3>5 DEF Stocked
      <4> QED
        BY <4>1, <4>2, <3>5, <1>4, <1>7
    <3> QED
      BY <3>1, <3>2, <3>3, <3>4, <3>5
  <2> QED
    BY <2>1, <2>2, <2>3, <2>4, <1>3 DEF Divided
<1> QED
    BY <1>7, <1>8

\* The worker begins a pass at io_seq.
LEMMA StartPassInv ==
    ASSUME IInv, StartPass
    PROVE  IInv'
<1> USE DEF IInv, StartPass, history
<1>1. Types'
    BY DEF Types
<1>2. CmdInv' /\ FillInv' /\ Fresh' = Fresh /\ Used' = Used
  <2>1. \A x \in Entries : AtMark(x)' <=> AtMark(x)
    BY DEF AtMark, Types
  <2>2. clock' \in Times /\ clock <= clock'
    BY IoAssumption DEF Types, Times
  <2> QED
    BY <2>1, <2>2, CmdFrame
<1>3. QueueInv'
    BY <1>1, <1>2, QueueKept, IoAssumption DEF Nx, Pv, Tm, Types, Times
<1>4. ThreadInv'
  <2>1. worker.io_seq \notin Fresh /\ ~(disp.pc = "fill" /\ worker.io_seq = disp.entry)
    BY NextIsUsed DEF Types
  <2> QED
    BY <1>2, <2>1 DEF ThreadInv, Types
<1> QED
    BY <1>1, <1>2, <1>3, <1>4

\* The worker reads the state of the entry it has come to.
LEMMA VisitInv ==
    ASSUME IInv, Visit
    PROVE  IInv'
<1> USE DEF IInv, Visit, history
<1>1. Types'
    BY DEF Types
<1>2. CmdInv' /\ FillInv' /\ Fresh' = Fresh /\ Used' = Used
  <2>1. \A x \in Entries : AtMark(x)' <=> AtMark(x)
    BY DEF AtMark, Types
  <2>2. clock' \in Times /\ clock <= clock'
    BY IoAssumption DEF Types, Times
  <2> QED
    BY <2>1, <2>2, CmdFrame
<1>3. QueueInv'
  <2>1. worker.latest_nsecs <= worker'.latest_nsecs
    BY DEF ThreadInv, Types
  <2> QED
    BY <1>1, <1>2, <2>1, QueueKept DEF Nx, Pv, Tm, Types
<1>4. ThreadInv'
    BY <1>2, IoAssumption DEF ThreadInv, Types, Item, Times
<1> QED
    BY <1>1, <1>2, <1>3, <1>4

\* The worker follows the next link of its entry.
LEMMA AdvanceInv ==
    ASSUME IInv, Advance
    PROVE  IInv'
<1> USE DEF IInv, Advance, history
<1>0. thr.curr # NIL /\ thr.curr \in Entries /\ Item.next \in Links
    BY DEF ThreadInv, Types, Links, Item, WorkItem
<1>1. Types'
    BY <1>0 DEF Types, GoTo
<1>2. CmdInv' /\ FillInv' /\ Fresh' = Fresh /\ Used' = Used
  <2>1. \A x \in Entries : AtMark(x)' <=> AtMark(x)
    BY DEF AtMark, Types, GoTo
  <2>2. clock' \in Times /\ clock <= clock'
    BY IoAssumption DEF Types, Times
  <2> QED
    BY <2>1, <2>2, CmdFrame
<1>3. QueueInv'
    BY <1>1, <1>2, QueueKept, IoAssumption DEF Nx, Pv, Tm, Types, Times
<1>4. ThreadInv'
  <2>1. Item.next \notin Fresh /\ ~(disp.pc = "fill" /\ Item.next = disp.entry)
    BY <1>0, NextIsUsed DEF Item
  <2> QED
    BY <1>0, <1>2, <2>1 DEF ThreadInv, Types, GoTo
<1> QED
    BY <1>1, <1>2, <1>3, <1>4

\* Time passes.
LEMMA TickInv ==
    ASSUME IInv, Tick
    PROVE  IInv'
<1> USE DEF IInv, Tick, history
<1>0. clock' \in Times /\ clock <= clock'
    BY IoAssumption DEF Types, Times
<1>1. Types'
    BY <1>0 DEF Types
<1>2. CmdInv' /\ FillInv' /\ Fresh' = Fresh /\ Used' = Used
  <2>1. \A x \in Entries : AtMark(x)' <=> AtMark(x)
    BY DEF AtMark
  <2> QED
    BY <1>0, <2>1, CmdFrame
<1>3. QueueInv'
    BY <1>1, <1>2, QueueKept, IoAssumption DEF Nx, Pv, Tm, Types, Times
<1>4. ThreadInv'
    BY <1>0, <1>2, IoAssumption DEF ThreadInv, Types, Times
<1> QED
    BY <1>1, <1>2, <1>3, <1>4

\* What the worker copies or completes is an entry that carries a command.
LEMMA WorksOnUsed ==
    ASSUME IInv, thr.pc \in {"copy", "due", "mark"}, ~Torn
    PROVE  thr.curr \in Used /\ thr.curr \in Entries /\ EntryInv(thr.curr)
<1>1. thr.curr \in Entries /\ thr.curr \notin Fresh
    BY NilNoEntry DEF IInv, ThreadInv, Types, Links
<1>2. thr.curr \in Used
    BY <1>1 DEF IInv, ThreadInv, Used, Torn
<1> QED
    BY <1>1, <1>2 DEF IInv, CmdInv

\* The worker copies the data of its entry.
LEMMA CopyDataInv ==
    ASSUME IInv, CopyData
    PROVE  IInv'
<1> USE DEF IInv, CopyData, history
<1> DEFINE x == thr.curr
<1>0. x \in Used /\ x \in Entries /\ EntryInv(x)
    BY WorksOnUsed
<1>1. /\ work_queue' \in [Entries -> WorkItem]
      /\ \A y \in Entries :
            /\ work_queue'[y].cmd = work_queue[y].cmd /\ work_queue'[y].buf = work_queue[y].buf
            /\ work_queue'[y].nsecs_target = work_queue[y].nsecs_target
            /\ work_queue'[y].is_completed = work_queue[y].is_completed
            /\ work_queue'[y].is_internal = work_queue[y].is_internal
            /\ work_queue'[y].next = work_queue[y].next /\ work_queue'[y].prev = work_queue[y].prev
            /\ y # x => work_queue'[y].is_copied = work_queue[y].is_copied
      /\ work_queue'[x].is_copied = TRUE
  <2>1. work_queue[x] \in WorkItem /\ work_queue \in [Entries -> WorkItem]
    BY <1>0 DEF Types
  <2>2. [work_queue[x] EXCEPT !.is_copied = TRUE] \in WorkItem
    BY <2>1 DEF WorkItem
  <2>3. /\ work_queue' \in [Entries -> WorkItem]
        /\ work_queue'[x] = [work_queue[x] EXCEPT !.is_copied = TRUE]
        /\ \A y \in Entries : y # x => work_queue'[y] = work_queue[y]
    BY <1>0, <2>1, <2>2
  <2> QED
    BY <1>0, <2>1, <2>3 DEF WorkItem
<1>2. Types'
  <2>1. copied' \in SUBSET Cmds
    BY <1>0 DEF Types, Item, EntryInv, CmdOf
  <2> QED
    BY <1>1, <2>1 DEF Types
<1>3. Fresh' = Fresh
    BY <1>1 DEF Fresh
<1>4. Used' = Used /\ \A y \in Entries : CmdOf(y)' = CmdOf(y)
    BY <1>1, <1>3 DEF Used, CmdOf
<1>5. QueueInv'
    BY <1>1, <1>2, <1>3, QueueKept, IoAssumption DEF Nx, Pv, Tm, Types, Times
<1>6. ThreadInv'
    BY <1>0, <1>1, <1>3, <1>4 DEF ThreadInv, Types
<1>7. CmdInv'
  <2>1. ASSUME NEW y \in Used
        PROVE  EntryInv(y)'
    <3>1. EntryInv(y) /\ y \in Entries
      BY DEF CmdInv, Used
    <3>2. copied \subseteq copied'
      OBVIOUS
    <3>3. y = x => (~work_queue'[y].is_internal => CmdOf(y) \in copied')
      BY <1>1, <1>0 DEF Item, CmdOf, EntryInv
    <3>4. AtMark(y)' <=> AtMark(y)
      BY DEF AtMark, Types
    <3> QED
      BY <1>1, <1>4, <3>1, <3>2, <3>3, <3>4 DEF EntryInv
  <2>2. Used \subseteq Entries
    BY DEF Used
  <2> QED
    BY <1>4, <2>1, <2>2 DEF CmdInv
<1>8. FillInv'
  <2>1. disp.pc = "fill" => disp.entry \in Entries
    BY NilNoEntry DEF QueueInv, Queue, Shape, Holds
  <2>2. Used \subseteq Entries
    BY DEF Used
  <2> QED
    BY <1>1, <1>4, <2>1, <2>2 DEF FillInv
<1> QED
    BY <1>2, <1>5, <1>6, <1>7, <1>8

\* The worker posts the completion of its entry.
LEMMA CompleteInv ==
    ASSUME IInv, Complete
    PROVE  IInv'
<1> USE DEF IInv, Complete, history
<1>a. PICK x : x = thr.curr
    OBVIOUS
<1> USE <1>a
<1> DEFINE c == CmdOf(x)
<1>0. x \in Used /\ x \in Entries /\ EntryInv(x)
    BY WorksOnUsed
<1>1. /\ c \in Cmds /\ done[c] = 0 /\ issued[c] # "new"
      /\ issued[c] = "io" => c \in copied
  <2>1. ~AtMark(x) /\ ~work_queue[x].is_completed /\ work_queue[x].is_copied
    BY DEF AtMark, ThreadInv
  <2> QED
    BY <1>0, <2>1 DEF EntryInv
<1>2. Fresh' = Fresh /\ Used' = Used /\ Used \subseteq Entries /\ \A y : CmdOf(y)' = CmdOf(y)
    BY DEF Fresh, Used, CmdOf
<1>3. CASE work_queue[x].nsecs_target <= thr.now
  <2>1. done' = [done EXCEPT ![c] = 1] /\ thr' = [thr EXCEPT !.pc = "mark"]
    BY <1>1, <1>3 DEF Item, CmdOf
  <2>2. Types'
    BY <2>1, <1>1 DEF Types
  <2>3. QueueInv'
    BY <1>2, <2>2, QueueKept, IoAssumption DEF Nx, Pv, Tm, Types, Times
  <2>4. ThreadInv'
    BY <1>2, <2>1 DEF ThreadInv, Types
  <2>5. CmdInv'
    <3>1. ASSUME NEW y \in Used
          PROVE  EntryInv(y)'
      <4>1. EntryInv(y)
        BY DEF CmdInv
      <4>2. CASE y = x
        <5>1. AtMark(x)' /\ done'[c] = 1
          BY <2>1, <1>1 DEF AtMark, Types
        <5>2. work_queue[x].nsecs_target <= clock
          BY <1>3, <1>0, IoAssumption DEF ThreadInv, Types, WorkItem, Times
        <5>3. CmdOf(x)' = c
          BY <1>2
        <5>4. EntryInv(x)'
          BY <1>0, <5>1, <5>2, <5>3 DEF EntryInv
        <5> QED
          BY <4>2, <5>4
      <4>3. CASE y # x
        <5>1. CmdOf(y) # c /\ CmdOf(y) \in Cmds
          BY <4>1, <4>3, <1>0 DEF CmdInv, EntryInv
        <5>2. done'[CmdOf(y)] = done[CmdOf(y)] /\ (AtMark(y)' <=> AtMark(y))
          BY <5>1, <2>1, <4>3 DEF Types, AtMark
        <5> QED
          BY <4>1, <5>2, <1>2 DEF EntryInv
      <4> QED
        BY <4>2, <4>3
    <3>2. \A x1, y \in Used : CmdOf(x1)' = CmdOf(y)' => x1 = y
      BY <1>2 DEF CmdInv
    <3>3. \A b \in Cmds : (done'[b] = 1 /\ issued[b] = "io" => b \in copied)
                          /\ (issued[b] = "new" => done'[b] = 0)
      BY <1>1, <2>1 DEF CmdInv, Types
    <3> QED
      BY <1>2, <3>1, <3>2, <3>3 DEF CmdInv
  <2>6. FillInv'
    BY <1>0, <1>1, <1>2, <2>1 DEF FillInv, Types
  <2> QED
    BY <2>2, <2>3, <2>4, <2>5, <2>6
<1>4. CASE ~(work_queue[x].nsecs_target <= thr.now)
  <2>1. done' = done /\ thr' = [thr EXCEPT !.pc = "next"]
    BY <1>4 DEF Item
  <2>2. Types'
    BY <2>1 DEF Types
  <2>3. QueueInv'
    BY <1>2, <2>2, QueueKept, IoAssumption DEF Nx, Pv, Tm, Types, Times
  <2>4. ThreadInv'
    BY <1>2, <2>1 DEF ThreadInv, Types
  <2>5. CmdInv' /\ FillInv'
    <3>1. \A y \in Entries : AtMark(y)' <=> AtMark(y)
      BY <2>1 DEF AtMark, Types
    <3>2. clock' \in Times /\ clock <= clock'
      BY IoAssumption DEF Types, Times
    <3> QED
      BY <2>1, <3>1, <3>2, CmdFrame
  <2> QED
    BY <2>2, <2>3, <2>4, <2>5
<1> QED
    BY <1>3, <1>4

\* The worker sets is_completed, after which the entry may be reclaimed.
LEMMA MarkCompletedInv ==
    ASSUME IInv, MarkCompleted
    PROVE  IInv'
<1> USE DEF IInv, MarkCompleted, history
<1> DEFINE x == thr.curr
<1>0. x \in Used /\ x \in Entries /\ EntryInv(x)
    BY WorksOnUsed DEF Torn
<1>1. /\ work_queue' \in [Entries -> WorkItem]
      /\ \A y \in Entries :
            /\ work_queue'[y].cmd = work_queue[y].cmd /\ work_queue'[y].buf = work_queue[y].buf
            /\ work_queue'[y].nsecs_target = work_queue[y].nsecs_target
            /\ work_queue'[y].is_copied = work_queue[y].is_copied
            /\ work_queue'[y].is_internal = work_queue[y].is_internal
            /\ work_queue'[y].next = work_queue[y].next /\ work_queue'[y].prev = work_queue[y].prev
            /\ y # x => work_queue'[y].is_completed = work_queue[y].is_completed
      /\ work_queue'[x].is_completed = TRUE
  <2>1. work_queue[x] \in WorkItem /\ work_queue \in [Entries -> WorkItem]
    BY <1>0 DEF Types
  <2>2. [work_queue[x] EXCEPT !.is_completed = TRUE] \in WorkItem
    BY <2>1 DEF WorkItem
  <2>3. /\ work_queue' \in [Entries -> WorkItem]
        /\ work_queue'[x] = [work_queue[x] EXCEPT !.is_completed = TRUE]
        /\ \A y \in Entries : y # x => work_queue'[y] = work_queue[y]
    BY <1>0, <2>1, <2>2
  <2> QED
    BY <1>0, <2>1, <2>3 DEF WorkItem
<1>2. Types'
    BY <1>1 DEF Types
<1>3. Fresh' = Fresh
    BY <1>1 DEF Fresh
<1>4. Used' = Used /\ Used \subseteq Entries /\ \A y \in Entries : CmdOf(y)' = CmdOf(y)
    BY <1>1, <1>3 DEF Used, CmdOf
<1>5. QueueInv'
    BY <1>1, <1>2, <1>3, QueueKept, IoAssumption DEF Nx, Pv, Tm, Types, Times
<1>6. ThreadInv'
    BY <1>3, <1>4 DEF ThreadInv, Types
<1>7. CmdInv'
  <2>1. ASSUME NEW y \in Used
        PROVE  EntryInv(y)'
    <3>1. EntryInv(y) /\ y \in Entries
      BY DEF CmdInv, Used
    <3>2. work_queue'[y].is_completed \/ AtMark(y)' <=> work_queue[y].is_completed \/ AtMark(y)
      BY <1>1, <3>1 DEF AtMark, Types
    <3>3. work_queue'[y].is_completed => work_queue'[y].is_copied
      BY <1>1, <3>1 DEF EntryInv, ThreadInv
    <3> QED
      BY <1>1, <1>4, <3>1, <3>2, <3>3 DEF EntryInv
  <2> QED
    BY <1>4, <2>1 DEF CmdInv
<1>8. FillInv'
  <2>1. disp.pc = "fill" => disp.entry \in Entries /\ disp.entry # x
    BY <1>0, NilNoEntry DEF QueueInv, Queue, Shape, Holds, Used
  <2> QED
    BY <1>1, <1>4, <2>1 DEF FillInv
<1> QED
    BY <1>2, <1>5, <1>6, <1>7, <1>8

-----------------------------------------------------------------------------
(* The steps of the dispatcher. *)

\* A step that at most changes links, and not those of an entry being set up.
LinksOnly ==
    /\ work_queue' \in [Entries -> WorkItem]
    /\ \A x \in Entries :
        LET w == work_queue[x]
            v == work_queue'[x]
        IN  /\ v.cmd = w.cmd /\ v.buf = w.buf /\ v.nsecs_target = w.nsecs_target
            /\ v.is_completed = w.is_completed /\ v.is_copied = w.is_copied
            /\ v.is_internal = w.is_internal
    /\ worker'.latest_nsecs = worker.latest_nsecs
    /\ disp.pc # "fill" /\ disp'.pc # "fill"
    /\ UNCHANGED <<thr, clock, history>>

\* What such a step leaves as it was.
LEMMA LinksFrame ==
    ASSUME Types, CmdInv, ThreadInv, LinksOnly
    PROVE  CmdInv' /\ FillInv' /\ ThreadInv' /\ Fresh' = Fresh /\ Tm' = Tm
<1> USE DEF LinksOnly, history
<1>1. Fresh' = Fresh /\ Tm' = Tm
    BY DEF Fresh, Tm
<1>2. Used' = Used /\ Used \subseteq Entries
    BY <1>1 DEF Used
<1>3. \A x \in Entries : CmdOf(x)' = CmdOf(x)
    BY DEF CmdOf
<1>4. ASSUME NEW x \in Used
      PROVE  EntryInv(x)'
  <2>1. EntryInv(x) /\ x \in Entries
    BY <1>2 DEF CmdInv
  <2> QED
    BY <1>3, <2>1 DEF EntryInv, AtMark
<1>5. CmdInv'
    BY <1>2, <1>3, <1>4 DEF CmdInv
<1>6. FillInv'
    BY DEF FillInv
<1>7. ThreadInv'
  <2>1. thr.pc \in {"copy", "due", "mark"} => thr.curr \in Entries
    BY DEF ThreadInv, Types, Links
  <2> QED
    BY <1>1, <1>2, <2>1 DEF ThreadInv
<1> QED
    BY <1>1, <1>5, <1>6, <1>7

\* Back to an idle dispatcher, or on to the reclaim.
LEMMA IdleQueue ==
    ASSUME QueueInv, disp.pc \in {"idle", "reclaim"}, disp'.pc \in {"idle", "reclaim"},
           work_queue' = work_queue, worker' = worker
    PROVE  QueueInv'
<1>1. PICK n, s, m, f, k, p, j : Shape(n, s, m, f, k, p, j) /\ Queue(n, s, m, f, k, p, j)
    BY DEF QueueInv
<1>2. Nx' = Nx /\ Pv' = Pv /\ Tm' = Tm /\ Fresh' = Fresh
    BY DEF Nx, Pv, Tm, Fresh
<1> USE <1>1, <1>2 DEF Queue
<1>3. Divided(n, s, m, f, k, p)'
    BY DEF Divided
<1>4. Holds(n, s, k, p, j)'
    BY DEF Holds
<1>5. Backs(n, s, j)'
    BY DEF Backs
<1>6. Sorted(n, s, j)'
    BY DEF Sorted, Due
<1>7. Stocked(n, s, m, f, k, p)'
    BY DEF Stocked
<1>8. Queue(n, s, m, f, k, p, j)'
    BY <1>3, <1>4, <1>5, <1>6, <1>7
<1> QED
    BY <1>8, QueueIntro

\* A reclaim that finds no completed prefix.
LEMMA ReclaimNothingInv ==
    ASSUME IInv, ReclaimNothing
    PROVE  IInv'
<1> USE DEF IInv, ReclaimNothing
<1>1. Types'
    BY DEF Types, history
<1>2. disp'.pc = "idle"
    BY DEF Types
<1>3. QueueInv'
    BY <1>2, IdleQueue
<1>4. LinksOnly
    BY <1>2 DEF LinksOnly, Types
<1> QED
    BY <1>1, <1>3, <1>4, LinksFrame

\* A command that finds no free entry is dropped.
LEMMA DropInv ==
    ASSUME IInv, NEW c \in Cmds, NEW kind \in Kinds, Drop(c, kind)
    PROVE  IInv'
<1> USE DEF IInv, Drop
<1>1. Types'
    BY DEF Types, AfterEnqueue, Kinds
<1>2. disp'.pc \in {"idle", "reclaim"}
    BY DEF Types, AfterEnqueue
<1>3. QueueInv'
    BY <1>2, IdleQueue
<1>4. Fresh' = Fresh /\ Used' = Used /\ \A x : CmdOf(x)' = CmdOf(x)
    BY <1>2 DEF Fresh, Used, CmdOf
<1>5. CmdInv'
  <2>1. ASSUME NEW x \in Used
        PROVE  EntryInv(x)'
    <3>1. EntryInv(x)
      BY DEF CmdInv
    <3>2. CmdOf(x) # c
      BY <3>1 DEF EntryInv, NextCmd
    <3> QED
      BY <1>4, <3>1, <3>2 DEF EntryInv, AtMark, Types
  <2> QED
    BY <1>4, <2>1 DEF CmdInv, Types
<1>6. FillInv' /\ ThreadInv'
    BY <1>2, <1>4 DEF FillInv, ThreadInv
<1> QED
    BY <1>1, <1>3, <1>5, <1>6

\* The head of the free list becomes the entry that is set up.
LEMMA AllocateInv ==
    ASSUME IInv, NEW c \in Cmds, NEW kind \in Kinds, NEW t \in Times, Allocate(c, kind, t)
    PROVE  IInv'
<1>0. /\ Types /\ QueueInv /\ ThreadInv /\ CmdInv
      /\ disp.pc = "idle" /\ issued[c] = "new" /\ ~NoEntry
      /\ worker' = [worker EXCEPT !.free_seq = work_queue[worker.free_seq].next]
      /\ disp' = [disp EXCEPT !.pc = "fill", !.entry = worker.free_seq, !.curr = c, !.kind = kind]
      /\ issued' = [issued EXCEPT ![c] = kind]
      /\ UNCHANGED <<thr, clock, copied, done>>
    BY DEF IInv, Allocate, NextCmd
<1> USE NilNoEntry
<1>1. PICK n, s, m, f, k, p, j : Shape(n, s, m, f, k, p, j) /\ Queue(n, s, m, f, k, p, j)
    BY <1>0 DEF QueueInv
<1>2. /\ n \in Nat /\ m \in Nat /\ k \in Nat /\ j \in 0 .. n
      /\ s \in [1 .. n -> Entries] /\ f \in [1 .. m -> Entries] /\ p \in [1 .. k -> Entries]
    BY <1>1 DEF Shape
<1>3. /\ Divided(n, s, m, f, k, p) /\ Holds(n, s, k, p, j) /\ Backs(n, s, j)
      /\ Sorted(n, s, j) /\ Stocked(n, s, m, f, k, p) /\ k = 0
    BY <1>0, <1>1 DEF Queue, Holds
<1> USE <1>2
<1>4. PICK e \in Entries : e = f[1] /\ e = worker.free_seq
  <2>1. 1 \in 1 .. m /\ worker.free_seq = f[1]
    BY <1>3 DEF Divided
  <2> QED
    BY <2>1
<1>5. /\ m >= 2 /\ Nx[e] = f[2] /\ worker'.free_seq = f[2] /\ f[2] \in Entries
      /\ worker'.free_seq_end = worker.free_seq_end /\ worker'.io_seq = worker.io_seq
      /\ worker'.io_seq_end = worker.io_seq_end /\ worker'.latest_nsecs = worker.latest_nsecs
  <2>1. Nx[e] # NIL
    BY <1>0, <1>4 DEF NoEntry, Nx
  <2>2. m >= 2 /\ Nx[e] = f[2] /\ f[2] \in Entries
    BY <2>1, <1>3, <1>4 DEF Divided, Chain
  <2> QED
    BY <1>0, <2>2, <1>4 DEF Types, Nx
<1>6. /\ work_queue' \in [Entries -> WorkItem]
      /\ \A y \in Entries :
            /\ y # e => work_queue'[y] = work_queue[y]
            /\ work_queue'[y].next = work_queue[y].next /\ work_queue'[y].prev = work_queue[y].prev
            /\ work_queue'[y].buf = work_queue[y].buf
      /\ work_queue'[e].cmd = IF kind = "io" THEN c ELSE work_queue[e].cmd
      /\ ~work_queue'[e].is_completed
  <2>1. work_queue[e] \in WorkItem /\ work_queue \in [Entries -> WorkItem]
    BY <1>0 DEF Types
  <2>2. PICK d \in 0 .. NrCmds : d = IF kind = "io" THEN c ELSE work_queue[e].cmd
    BY <2>1, IoAssumption DEF WorkItem, Cmds
  <2> DEFINE w == [work_queue[e] EXCEPT !.cmd = d, !.nsecs_target = t, !.is_completed = FALSE]
  <2>3. w \in WorkItem
    BY <2>1 DEF WorkItem
  <2>4. work_queue' = [work_queue EXCEPT ![e] = w]
    BY <1>4, <2>1, <2>2 DEF Allocate, WorkItem
  <2>5. /\ work_queue' \in [Entries -> WorkItem] /\ work_queue'[e] = w
        /\ \A y \in Entries : y # e => work_queue'[y] = work_queue[y]
    <3> HIDE DEF w
    <3> QED
      BY <2>1, <2>3, <2>4
  <2>6. /\ w.next = work_queue[e].next /\ w.prev = work_queue[e].prev
        /\ w.buf = work_queue[e].buf /\ ~w.is_completed /\ w.cmd = d
    BY <2>1 DEF WorkItem
  <2> HIDE DEF w
  <2> QED
    BY <2>2, <2>5, <2>6
<1>7. /\ disp'.pc = "fill" /\ disp'.entry = e /\ disp'.curr = c /\ disp'.kind = kind
      /\ Nx' = Nx /\ Pv' = Pv /\ \A y \in Entries : y # e => Tm'[y] = Tm[y]
  <2>1. disp'.pc = "fill" /\ disp'.entry = e /\ disp'.curr = c /\ disp'.kind = kind
    BY <1>0, <1>4 DEF Types
  <2>2. Nx' = Nx /\ Pv' = Pv /\ \A y \in Entries : y # e => Tm'[y] = Tm[y]
    BY <1>6 DEF Nx, Pv, Tm
  <2> QED
    BY <2>1, <2>2
<1>8. Types'
  <2>1. worker' \in [free_seq : Entries, free_seq_end : Entries,
                     io_seq : Links, io_seq_end : Links, latest_nsecs : Times]
    BY <1>0, <1>4, <1>5 DEF Types, Nx
  <2>2. disp' \in [pc : {"idle", "fill", "seek", "publish", "reclaim", "cut", "append"},
                   entry : Links, curr : Int, kind : Kinds, last : Links]
    <3>1. e \in Links /\ c \in Int /\ disp' = [disp EXCEPT !.pc = "fill", !.entry = e, !.curr = c, !.kind = kind]
      BY <1>0, <1>4 DEF Links, Cmds
    <3>2. disp \in [pc : {"idle", "fill", "seek", "publish", "reclaim", "cut", "append"},
                    entry : Links, curr : Int, kind : Kinds, last : Links]
      BY <1>0 DEF Types
    <3> QED
      BY <3>1, <3>2
  <2>3. issued' \in [Cmds -> Kinds \cup {"new", "dropped"}]
    BY <1>0 DEF Types
  <2> QED
    BY <1>0, <1>6, <2>1, <2>2, <2>3 DEF Types
<1>9. /\ \A y \in Entries : y \in Fresh' => y \in Fresh
      /\ \A y \in Entries : y # e => (y \in Fresh' <=> y \in Fresh)
    BY <1>6 DEF Fresh, Cmds
<1>10. QueueInv'
  <2>1. PICK m1, f1, p1 : m1 = m - 1 /\ f1 = [a \in 1 .. m - 1 |-> f[a + 1]] /\ p1 = [a \in 1 .. 1 |-> e]
    OBVIOUS
  <2>2. /\ m1 \in Nat /\ m1 >= 1 /\ f1 \in [1 .. m1 -> Entries] /\ p1 \in [1 .. 1 -> Entries]
        /\ p1[1] = e /\ \A a \in 1 .. m1 : a + 1 \in 1 .. m /\ f1[a] = f[a + 1]
    BY <1>5, <2>1
  <2>3. Shape(n, s, m1, f1, 1, p1, j)
    BY <2>2 DEF Shape
  <2>4. /\ \A a \in 1 .. n : s[a] # e
        /\ \A a \in 1 .. m1 : f1[a] # e
    <3>1. 1 \in 1 .. m /\ \A a, b \in 1 .. m : f[a] = f[b] => a = b
      BY <1>3, <1>5 DEF Divided, Chain
    <3>2. \A a \in 1 .. m1 : f1[a] # e
      <4> SUFFICES ASSUME NEW a \in 1 .. m1, f1[a] = e
                   PROVE  FALSE
        OBVIOUS
      <4>1. a + 1 \in 1 .. m /\ f[a + 1] = f[1]
        BY <1>4, <2>2
      <4>2. a + 1 = 1
        BY <3>1, <4>1
      <4> QED
        BY <4>2
    <3> QED
      BY <1>3, <1>4, <3>1, <3>2 DEF Divided, Apart
  <2>5. Divided(n, s, m1, f1, 1, p1)'
    <3>1. Chain(Nx', n, s, NIL) /\ worker'.io_seq = After(n, s, 0)
      BY <1>3, <1>5, <1>7 DEF Divided
    <3>2. Chain(Nx', m1, f1, NIL)
      BY <1>3, <1>7, <2>1, <2>2 DEF Divided, Chain
    <3>3. worker'.free_seq = f1[1] /\ worker'.free_seq_end = f1[m1]
      BY <1>3, <1>5, <2>1, <2>2 DEF Divided
    <3>4. Apart(n, s, m1, f1) /\ Apart(n, s, 1, p1) /\ Apart(m1, f1, 1, p1)
      BY <1>3, <2>2, <2>4 DEF Divided, Apart
    <3>5. ASSUME NEW x \in Entries
          PROVE  \/ \E a \in 1 .. n : x = s[a]
                 \/ \E a \in 1 .. m1 : x = f1[a]
                 \/ \E a \in 1 .. 1 : x = p1[a]
      <4>1. CASE \E a \in 1 .. n : x = s[a]
        BY <4>1
      <4>2. ASSUME NEW a \in 1 .. m, x = f[a]
            PROVE  \/ \E b \in 1 .. m1 : x = f1[b]
                   \/ \E b \in 1 .. 1 : x = p1[b]
        <5>1. CASE a = 1
          BY <5>1, <4>2, <1>4, <2>2
        <5>2. CASE a # 1
          <6>1. a - 1 \in 1 .. m1 /\ f1[a - 1] = x
            BY <5>2, <4>2, <2>1, <2>2
          <6> QED
            BY <6>1
        <5> QED
          BY <5>1, <5>2
      <4> QED
        BY <4>1, <4>2, <1>3 DEF Divided
    <3> QED
      BY <2>2, <3>1, <3>2, <3>3, <3>4, <3>5 DEF Divided
  <2>6. Holds(n, s, 1, p1, j)'
    BY <1>5, <1>7, <2>2 DEF Holds
  <2>7. Backs(n, s, j)'
    BY <1>0, <1>3, <1>5, <1>7 DEF Backs
  <2>8. Sorted(n, s, j)'
    BY <1>3, <1>5, <1>7, <2>4 DEF Sorted, Due
  <2>9. Stocked(n, s, m1, f1, 1, p1)'
    <3>1. \A a \in 1 .. n : s[a] \notin Fresh'
      BY <1>3, <1>9, <2>4 DEF Stocked
    <3>2. \A a, b \in 1 .. m1 : a < b /\ f1[b] \in Fresh' => f1[a] \in Fresh'
      <4> SUFFICES ASSUME NEW a \in 1 .. m1, NEW b \in 1 .. m1, a < b, f1[b] \in Fresh'
                   PROVE  f1[a] \in Fresh'
        OBVIOUS
      <4>1. /\ f1[a] \in Entries /\ f1[a] # e /\ f1[a] = f[a + 1] /\ a + 1 \in 1 .. m
            /\ f1[b] \in Entries /\ f1[b] # e /\ f1[b] = f[b + 1] /\ b + 1 \in 1 .. m
            /\ a + 1 < b + 1
        BY <2>2, <2>4
      <4>2. f1[a] \in Fresh
        BY <4>1, <1>3, <1>9 DEF Stocked
      <4> QED
        BY <4>1, <4>2, <1>9
    <3>3. \A a \in 1 .. m1 : f1[a] \notin Fresh' => work_queue'[f1[a]].is_completed
      <4> SUFFICES ASSUME NEW a \in 1 .. m1, f1[a] \notin Fresh'
                   PROVE  work_queue'[f1[a]].is_completed
        OBVIOUS
      <4>1. f1[a] \in Entries /\ f1[a] # e /\ f1[a] \notin Fresh /\ f1[a] = f[a + 1] /\ a + 1 \in 1 .. m
        BY <1>9, <2>2, <2>4
      <4>2. work_queue[f1[a]].is_completed
        BY <4>1, <1>3 DEF Stocked
      <4> QED
        BY <4>1, <4>2, <1>6
    <3> QED
      BY <3>1, <3>2, <3>3, <1>7 DEF Stocked
  <2>10. Queue(n, s, m1, f1, 1, p1, j)'
    BY <2>5, <2>6, <2>7, <2>8, <2>9 DEF Queue
  <2> QED
    BY <2>3, <2>10, QueueIntro
<1>11. e \notin Fresh => work_queue[e].is_completed /\ f[2] \notin Fresh
  <2>1. 1 \in 1 .. m /\ 2 \in 1 .. m /\ 1 < 2
    BY <1>5
  <2>2. /\ \A a, b \in 1 .. m : a < b /\ f[b] \in Fresh => f[a] \in Fresh
        /\ \A a \in 1 .. m : f[a] \notin Fresh => work_queue[f[a]].is_completed
    BY <1>3 DEF Stocked
  <2> QED
    BY <1>4, <2>1, <2>2
<1>12. thr.pc \in {"copy", "due", "mark"} => thr.curr # e /\ thr.curr \in Entries
    BY <1>0, <1>11 DEF ThreadInv, Types, Links
<1>13. Used' = Used \ {e} /\ Used \subseteq Entries
    BY <1>0, <1>7, <1>9 DEF Used
<1>14. ThreadInv'
  <2>1. thr.curr \notin Fresh'
    BY <1>0, <1>9 DEF ThreadInv, Fresh
  <2>2. thr.pc \in {"copy", "due", "mark"} => work_queue'[thr.curr] = work_queue[thr.curr]
    BY <1>6, <1>12
  <2>3. thr.pc \in {"due", "mark"} => thr.curr \in Used'
    BY <1>0, <1>12, <1>13 DEF ThreadInv
  <2>4. thr.curr = e => f[2] \notin Fresh'
    BY <1>0, <1>5, <1>9, <1>11 DEF ThreadInv
  <2> QED
    BY <1>0, <1>5, <1>7, <2>1, <2>2, <2>3, <2>4 DEF ThreadInv
<1>15. ASSUME NEW x \in Used'
       PROVE  EntryInv(x)' /\ CmdOf(x)' = CmdOf(x) /\ CmdOf(x) # c
  <2>1. x \in Used /\ x # e /\ work_queue'[x] = work_queue[x] /\ EntryInv(x)
    BY <1>0, <1>6, <1>13 DEF CmdInv
  <2>2. CmdOf(x)' = CmdOf(x)
    BY <2>1 DEF CmdOf
  <2>3. CmdOf(x) # c
    BY <1>0, <2>1 DEF EntryInv
  <2>4. issued'[CmdOf(x)] = issued[CmdOf(x)] /\ (AtMark(x)' <=> AtMark(x))
    BY <1>0, <2>1, <2>3 DEF EntryInv, Types, AtMark
  <2> QED
    BY <1>0, <2>1, <2>2, <2>3, <2>4 DEF EntryInv
<1>16. CmdInv'
  <2>1. \A x, y \in Used' : CmdOf(x)' = CmdOf(y)' => x = y
    BY <1>0, <1>13, <1>15 DEF CmdInv
  <2>2. done[c] = 0
    BY <1>0 DEF CmdInv
  <2>3. \A b \in Cmds : (done[b] = 1 /\ issued'[b] = "io" => b \in copied)
                        /\ (issued'[b] = "new" => done[b] = 0)
    BY <1>0, <2>2 DEF CmdInv, Types
  <2> QED
    BY <1>0, <1>15, <2>1, <2>3 DEF CmdInv
<1>17. FillInv'
  <2>1. done[c] = 0 /\ issued'[c] = kind
    BY <1>0 DEF CmdInv, Types
  <2> QED
    BY <1>0, <1>6, <1>7, <1>15, <2>1 DEF FillInv
<1> QED
    BY <1>8, <1>10, <1>14, <1>16, <1>17 DEF IInv

\* The entry is set up: it carries the command from here on.
LEMMA FillStepInv ==
    ASSUME IInv, Fill
    PROVE  IInv'
<1>0. /\ Types /\ QueueInv /\ ThreadInv /\ CmdInv /\ FillInv
      /\ disp.pc = "fill" /\ ~Torn
      /\ disp' = [disp EXCEPT !.pc = "seek", !.curr = worker.io_seq_end]
      /\ UNCHANGED <<worker, thr, clock, issued, copied, done>>
    BY DEF IInv, Fill, history
<1> USE NilNoEntry
<1>1. PICK n, s, m, f, k, p, j : Shape(n, s, m, f, k, p, j) /\ Queue(n, s, m, f, k, p, j)
    BY <1>0 DEF QueueInv
<1>2. /\ n \in Nat /\ m \in Nat /\ k \in Nat /\ j \in 0 .. n
      /\ s \in [1 .. n -> Entries] /\ f \in [1 .. m -> Entries] /\ p \in [1 .. k -> Entries]
    BY <1>1 DEF Shape
<1>3. /\ Divided(n, s, m, f, k, p) /\ Holds(n, s, k, p, j) /\ Backs(n, s, j)
      /\ Sorted(n, s, j) /\ Stocked(n, s, m, f, k, p) /\ k = 1 /\ p[1] = disp.entry
    BY <1>0, <1>1 DEF Queue, Holds
<1> USE <1>2
<1>4. PICK e \in Entries, c \in Cmds : e = disp.entry /\ c = disp.curr
    BY <1>0, <1>3 DEF FillInv
<1>5. /\ work_queue' \in [Entries -> WorkItem]
      /\ \A y \in Entries :
            /\ y # e => work_queue'[y] = work_queue[y]
            /\ work_queue'[y].is_completed = work_queue[y].is_completed
            /\ work_queue'[y].nsecs_target = work_queue[y].nsecs_target
            /\ work_queue'[y].cmd = work_queue[y].cmd
      /\ work_queue'[e].next = NIL /\ work_queue'[e].prev = NIL
      /\ work_queue'[e].is_internal <=> disp.kind = "internal"
      /\ work_queue'[e].is_copied <=> disp.kind = "internal"
      /\ work_queue'[e].buf = IF disp.kind = "internal" THEN c ELSE work_queue[e].buf
  <2>1. work_queue[e] \in WorkItem /\ work_queue \in [Entries -> WorkItem]
    BY <1>0 DEF Types
  <2>2. PICK b \in BOOLEAN : b = (disp.kind = "internal")
    BY Zenon
  <2>3. PICK d \in 0 .. NrCmds : d = IF disp.kind = "internal" THEN c ELSE work_queue[e].buf
    <3>1. c \in 0 .. NrCmds /\ work_queue[e].buf \in 0 .. NrCmds
      BY <2>1 DEF WorkItem, Cmds
    <3> QED
      BY <3>1, Zenon
  <2> DEFINE w == [work_queue[e] EXCEPT !.is_copied = b, !.prev = NIL, !.next = NIL,
                                        !.is_internal = b, !.buf = d]
  <2>4. w \in WorkItem
    BY <2>1 DEF WorkItem, Links
  <2>5. work_queue' = [work_queue EXCEPT ![e] = w]
    BY <1>4, <2>1, <2>2, <2>3 DEF Fill, WorkItem
  <2>6. /\ work_queue' \in [Entries -> WorkItem] /\ work_queue'[e] = w
        /\ \A y \in Entries : y # e => work_queue'[y] = work_queue[y]
    <3> HIDE DEF w
    <3> QED
      BY <2>1, <2>4, <2>5
  <2>7. /\ w.next = NIL /\ w.prev = NIL /\ w.is_completed = work_queue[e].is_completed
        /\ w.nsecs_target = work_queue[e].nsecs_target /\ w.cmd = work_queue[e].cmd
        /\ w.is_internal = b /\ w.is_copied = b /\ w.buf = d
    BY <2>1 DEF WorkItem
  <2> HIDE DEF w
  <2> QED
    BY <2>2, <2>3, <2>6, <2>7
<1>6. /\ disp'.pc = "seek" /\ disp'.entry = e /\ disp'.curr = worker.io_seq_end
      /\ Tm' = Tm /\ Nx'[e] = NIL
      /\ \A y \in Entries : y # e => Nx'[y] = Nx[y] /\ Pv'[y] = Pv[y]
  <2>1. disp'.pc = "seek" /\ disp'.entry = e /\ disp'.curr = worker.io_seq_end
    BY <1>0, <1>4 DEF Types
  <2>2. /\ Tm' = Tm /\ Nx'[e] = NIL
        /\ \A y \in Entries : y # e => Nx'[y] = Nx[y] /\ Pv'[y] = Pv[y]
    BY <1>5 DEF Nx, Pv, Tm
  <2> QED
    BY <2>1, <2>2
<1>7. Types'
  <2>1. worker.io_seq_end \in Int
    BY <1>0 DEF Types, Links, NIL
  <2> QED
    BY <1>0, <1>5, <2>1 DEF Types
<1>8. \A y \in Entries : y \in Fresh' <=> y \in Fresh /\ y # e
  <2>1. disp.kind = "io" => work_queue[e].cmd = c
    BY <1>0, <1>4 DEF FillInv
  <2>2. e \notin Fresh'
    BY <1>0, <1>5, <2>1 DEF Fresh, Cmds, Types, Kinds
  <2>3. \A y \in Entries : y # e => (y \in Fresh' <=> y \in Fresh)
    BY <1>5 DEF Fresh
  <2> QED
    BY <2>2, <2>3
<1>9. QueueInv'
  <2>1. /\ \A a \in 1 .. n : s[a] # e
        /\ \A a \in 1 .. m : f[a] # e
    BY <1>3, <1>4 DEF Divided, Apart
  <2>2. Shape(n, s, m, f, k, p, n)
    BY DEF Shape
  <2>3. Divided(n, s, m, f, k, p)'
    <3>1. Chain(Nx', n, s, NIL) /\ Chain(Nx', m, f, NIL)
      <4>1. Chain(Nx, n, s, NIL) /\ Chain(Nx, m, f, NIL)
        BY <1>3 DEF Divided
      <4>2. Chain(Nx', n, s, NIL)
        BY <4>1, <1>6, <2>1 DEF Chain
      <4>3. Chain(Nx', m, f, NIL)
        BY <4>1, <1>6, <2>1 DEF Chain
      <4> QED
        BY <4>2, <4>3
    <3> QED
      BY <1>0, <1>3, <3>1 DEF Divided
  <2>4. Holds(n, s, k, p, n)'
    BY <1>0, <1>3, <1>4, <1>6 DEF Holds, Backs, Nth
  <2>5. Backs(n, s, n)'
    BY <1>0, <1>3, <1>6, <2>1 DEF Backs
  <2>6. Sorted(n, s, n)'
    BY <1>0, <1>3, <1>6 DEF Sorted, Due
  <2>7. Stocked(n, s, m, f, k, p)'
    <3>1. \A a \in 1 .. n : s[a] \notin Fresh'
      BY <1>3, <1>8 DEF Stocked
    <3>2. \A a, b \in 1 .. m : a < b /\ f[b] \in Fresh' => f[a] \in Fresh'
      BY <1>3, <1>8, <2>1 DEF Stocked
    <3>3. \A a \in 1 .. m : f[a] \notin Fresh' => work_queue'[f[a]].is_completed
      <4> SUFFICES ASSUME NEW a \in 1 .. m, f[a] \notin Fresh'
                   PROVE  work_queue'[f[a]].is_completed
        OBVIOUS
      <4>1. f[a] \in Entries /\ f[a] # e /\ f[a] \notin Fresh
        BY <1>8, <2>1
      <4>2. work_queue[f[a]].is_completed
        BY <4>1, <1>3 DEF Stocked
      <4> QED
        BY <4>1, <4>2, <1>5
    <3> QED
      BY <3>1, <3>2, <3>3, <1>6, <1>8 DEF Stocked
  <2>8. Queue(n, s, m, f, k, p, n)'
    BY <2>3, <2>4, <2>5, <2>6, <2>7 DEF Queue
  <2> QED
    BY <2>2, <2>8, QueueIntro
<1>10. Used' = Used \cup {e} /\ Used \subseteq Entries /\ e \notin Used
    BY <1>0, <1>4, <1>6, <1>8 DEF Used
<1>11. thr.pc \in {"copy", "due", "mark"} => thr.curr # e /\ thr.curr \in Entries
    BY <1>0, <1>4, <1>10 DEF ThreadInv, Types, Links, Torn
<1>12. ThreadInv'
  <2>1. thr.curr \notin Fresh'
    BY <1>0, <1>8 DEF ThreadInv, Fresh
  <2>2. thr.pc \in {"copy", "due", "mark"} => work_queue'[thr.curr] = work_queue[thr.curr]
    BY <1>5, <1>11
  <2> QED
    BY <1>0, <1>6, <1>10, <2>1, <2>2 DEF ThreadInv
<1>13. ASSUME NEW x \in Used
       PROVE  EntryInv(x)' /\ CmdOf(x)' = CmdOf(x) /\ CmdOf(x) # c
  <2>1. x # e /\ work_queue'[x] = work_queue[x] /\ EntryInv(x)
    BY <1>0, <1>5, <1>10 DEF CmdInv
  <2>2. CmdOf(x)' = CmdOf(x)
    BY <2>1 DEF CmdOf
  <2> QED
    BY <1>0, <1>4, <2>1, <2>2 DEF EntryInv, AtMark, FillInv
<1>14. EntryInv(e)' /\ CmdOf(e)' = c
  <2>1. CmdOf(e)' = c
    BY <1>0, <1>4, <1>5 DEF CmdOf, FillInv, Types, Kinds
  <2>2. ~work_queue'[e].is_completed /\ ~AtMark(e)' /\ done[c] = 0 /\ issued[c] = disp.kind
    BY <1>0, <1>4, <1>5, <1>11 DEF FillInv, AtMark
  <2>3. disp.kind \in Kinds
    BY <1>0 DEF Types
  <2> QED
    BY <1>0, <1>5, <2>1, <2>2, <2>3 DEF EntryInv, Kinds
<1>15. CmdInv'
  <2>1. \A x \in Used' : EntryInv(x)'
    BY <1>10, <1>13, <1>14
  <2>2. \A x, y \in Used' : CmdOf(x)' = CmdOf(y)' => x = y
    BY <1>0, <1>10, <1>13, <1>14 DEF CmdInv
  <2> QED
    BY <1>0, <2>1, <2>2 DEF CmdInv
<1>16. FillInv'
    BY <1>6 DEF FillInv
<1> QED
    BY <1>7, <1>9, <1>12, <1>15, <1>16 DEF IInv

\* The place of the new entry moves one towards the head.
LEMMA SeekInv ==
    ASSUME IInv, Seek
    PROVE  IInv'
<1>0. /\ Types /\ QueueInv /\ ThreadInv /\ CmdInv
      /\ disp.pc = "seek" /\ ~PlaceFound
      /\ disp' = [disp EXCEPT !.curr = work_queue[disp.curr].prev]
      /\ UNCHANGED <<work_queue, worker, thr, clock, history>>
    BY DEF IInv, Seek
<1> USE NilNoEntry
<1>1. PICK n, s, m, f, k, p, j : Shape(n, s, m, f, k, p, j) /\ Queue(n, s, m, f, k, p, j)
    BY <1>0 DEF QueueInv
<1>2. /\ n \in Nat /\ m \in Nat /\ k \in Nat /\ j \in 0 .. n
      /\ s \in [1 .. n -> Entries] /\ f \in [1 .. m -> Entries] /\ p \in [1 .. k -> Entries]
    BY <1>1 DEF Shape
<1>3. /\ Divided(n, s, m, f, k, p) /\ Holds(n, s, k, p, j) /\ Backs(n, s, j)
      /\ Sorted(n, s, j) /\ Stocked(n, s, m, f, k, p)
    BY <1>1 DEF Queue
<1> USE <1>2
<1>4. PICK e \in Entries : e = disp.entry
    BY <1>0, <1>3 DEF Holds
<1>5. worker.io_seq # NIL /\ disp.curr # NIL
      /\ ~StopsAt(worker, work_queue[disp.curr], work_queue[e].nsecs_target)
    BY <1>0, <1>4 DEF PlaceFound
<1>6. n > 0 /\ j \in 1 .. n /\ disp.curr = s[j] /\ s[j] \in Entries
    BY <1>0, <1>3, <1>5 DEF Divided, After, Holds, Nth
<1>7. Tm[e] <= Tm[s[j]]
  <2>1. Tm[e] \in Int /\ Tm[s[j]] \in Int
    BY <1>0, <1>6, Fields
  <2>2. ~(Tm[s[j]] <= Tm[e])
    BY <1>5, <1>6 DEF StopsAt, Tm
  <2> QED
    BY <2>1, <2>2
<1>8. /\ disp'.curr = Nth(s, j - 1) /\ disp'.pc = disp.pc /\ disp'.entry = disp.entry
      /\ disp'.last = disp.last /\ disp'.kind = disp.kind
  <2>1. Pv[s[j]] = Nth(s, j - 1)
    BY <1>0, <1>3, <1>6 DEF Backs
  <2> QED
    BY <1>0, <1>6, <2>1 DEF Types, Pv
<1>9. Nx' = Nx /\ Pv' = Pv /\ Tm' = Tm /\ Fresh' = Fresh
    BY <1>0 DEF Nx, Pv, Tm, Fresh
<1>10. Types'
  <2>1. work_queue[disp.curr].prev \in Int
    BY <1>0, <1>6 DEF Types, WorkItem, Links, NIL
  <2> QED
    BY <1>0, <2>1 DEF Types, history
<1>11. QueueInv'
  <2>1. PICK i : i = j - 1
    OBVIOUS
  <2>2. i \in 0 .. n /\ Shape(n, s, m, f, k, p, i)
    BY <1>6, <2>1 DEF Shape
  <2>3. Divided(n, s, m, f, k, p)'
    BY <1>0, <1>3, <1>9 DEF Divided
  <2>4. Holds(n, s, k, p, i)'
    BY <1>0, <1>3, <1>8, <1>9, <2>1 DEF Holds
  <2>5. Backs(n, s, i)'
    BY <1>0, <1>3, <1>8, <1>9 DEF Backs
  <2>6. Sorted(n, s, i)'
    <3>1. \A a \in 1 .. n : a > i => Tm[e] <= Tm[s[a]]
      <4> SUFFICES ASSUME NEW a \in 1 .. n, a > i
                   PROVE  Tm[e] <= Tm[s[a]]
        OBVIOUS
      <4>1. a = j \/ a > j
        BY <2>1
      <4> QED
        BY <1>0, <1>3, <1>4, <1>7, <4>1 DEF Sorted
    <3> QED
      BY <1>0, <1>3, <1>4, <1>8, <1>9, <3>1 DEF Sorted, Due
  <2>7. Stocked(n, s, m, f, k, p)'
    BY <1>0, <1>3, <1>8, <1>9 DEF Stocked
  <2>8. Queue(n, s, m, f, k, p, i)'
    BY <2>3, <2>4, <2>5, <2>6, <2>7 DEF Queue
  <2> QED
    BY <2>2, <2>8, QueueIntro
<1>12. LinksOnly
    BY <1>0, <1>8 DEF LinksOnly, Types
<1> QED
    BY <1>0, <1>10, <1>11, <1>12, LinksFrame DEF IInv

\* The new entry is linked to its neighbours; the list does not lead to it yet.
LEMMA LinkInv ==
    ASSUME IInv, Link
    PROVE  IInv'
<1>0. /\ Types /\ QueueInv /\ ThreadInv /\ CmdInv
      /\ disp.pc = "seek" /\ PlaceFound
      /\ UNCHANGED <<thr, clock, history>>
    BY DEF IInv, Link
<1> USE NilNoEntry
<1>1. PICK n, s, m, f, k, p, j : Shape(n, s, m, f, k, p, j) /\ Queue(n, s, m, f, k, p, j)
    BY <1>0 DEF QueueInv
<1>2. /\ n \in Nat /\ m \in Nat /\ k \in Nat /\ j \in 0 .. n
      /\ s \in [1 .. n -> Entries] /\ f \in [1 .. m -> Entries] /\ p \in [1 .. k -> Entries]
    BY <1>1 DEF Shape
<1>3. /\ Divided(n, s, m, f, k, p) /\ Holds(n, s, k, p, j) /\ Backs(n, s, j)
      /\ Sorted(n, s, j) /\ Stocked(n, s, m, f, k, p)
    BY <1>1 DEF Queue
<1> USE <1>2
<1>4. PICK e \in Entries : e = disp.entry /\ k = 1 /\ p[1] = e
  <2>1. k = 1 /\ p[1] = disp.entry /\ 1 \in 1 .. k
    BY <1>0, <1>3 DEF Holds
  <2> QED
    BY <2>1
<1>5. /\ worker.io_seq = NIL <=> n = 0
      /\ n > 0 => disp.curr = Nth(s, j)
      /\ j > 0 => s[j] \in Entries /\ Nx[s[j]] = After(n, s, j)
    BY <1>0, <1>3 DEF Divided, Chain, After, Holds
<1>6. PICK succ : succ = After(n, s, j)
    OBVIOUS
<1>7. /\ work_queue' = [x \in Entries |->
                IF x = e THEN [work_queue[e] EXCEPT !.prev = Nth(s, j), !.next = succ]
                ELSE IF x = succ THEN [work_queue[x] EXCEPT !.prev = e]
                ELSE work_queue[x]]
      /\ worker' = [worker EXCEPT !.io_seq_end = IF succ = NIL THEN e ELSE @]
      /\ disp' = [disp EXCEPT !.pc = "publish", !.curr = Nth(s, j)]
  <2>1. CASE n = 0
    <3>1. worker.io_seq = NIL /\ succ = NIL /\ Nth(s, j) = NIL /\ j = 0
      BY <1>5, <1>6, <2>1 DEF After, Nth
    <3> QED
      BY <1>4, <3>1 DEF Link
  <2>2. CASE n > 0 /\ j = 0
    <3>1. worker.io_seq # NIL /\ disp.curr = NIL /\ Nth(s, j) = NIL /\ succ = worker.io_seq
      BY <1>3, <1>5, <1>6, <2>2 DEF After, Nth, Divided
    <3>2. disp.curr = Nth(s, j) /\ disp' = [disp EXCEPT !.pc = "publish", !.curr = disp.curr]
      BY <3>1 DEF Link
    <3> QED
      BY <1>4, <3>1, <3>2 DEF Link
  <2>3. CASE n > 0 /\ j > 0
    <3>1. worker.io_seq # NIL /\ disp.curr # NIL /\ disp.curr = Nth(s, j)
          /\ succ = work_queue[disp.curr].next
      BY <1>5, <1>6, <2>3 DEF Nth, Nx
    <3>2. disp' = [disp EXCEPT !.pc = "publish", !.curr = disp.curr]
      BY <3>1 DEF Link
    <3> QED
      BY <1>4, <3>1, <3>2 DEF Link
  <2> QED
    BY <2>1, <2>2, <2>3
<1>8. /\ \A a \in 1 .. n : s[a] # e
      /\ \A a \in 1 .. m : f[a] # e
      /\ \A a \in 1 .. n : s[a] = succ <=> a = j + 1
      /\ succ \in Links /\ succ # e /\ (succ = NIL <=> j = n)
      /\ Nth(s, j) \in Links
    BY <1>3, <1>4, <1>6 DEF Divided, Apart, Chain, After, Links, Nth
<1>9. /\ work_queue' \in [Entries -> WorkItem]
      /\ \A y \in Entries :
            /\ work_queue'[y].cmd = work_queue[y].cmd /\ work_queue'[y].buf = work_queue[y].buf
            /\ work_queue'[y].nsecs_target = work_queue[y].nsecs_target
            /\ work_queue'[y].is_completed = work_queue[y].is_completed
            /\ work_queue'[y].is_copied = work_queue[y].is_copied
            /\ work_queue'[y].is_internal = work_queue[y].is_internal
            /\ work_queue'[y].next = IF y = e THEN succ ELSE work_queue[y].next
            /\ work_queue'[y].prev = IF y = e THEN Nth(s, j)
                                     ELSE IF y = succ THEN e ELSE work_queue[y].prev
  <2>1. ASSUME NEW y \in Entries
        PROVE  work_queue[y] \in WorkItem /\ work_queue'[y] \in WorkItem
    <3>1. work_queue[y] \in WorkItem /\ work_queue[e] \in WorkItem
      BY <1>0 DEF Types
    <3>2. CASE y = e
      <4>1. work_queue'[y] = [work_queue[e] EXCEPT !.prev = Nth(s, j), !.next = succ]
        BY <3>2, <1>7
      <4> QED
        BY <4>1, <3>1, <1>8 DEF WorkItem
    <3>3. CASE y # e /\ y = succ
      <4>1. work_queue'[y] = [work_queue[y] EXCEPT !.prev = e] /\ e \in Links
        BY <3>3, <1>7 DEF Links
      <4> QED
        BY <4>1, <3>1 DEF WorkItem
    <3>4. CASE y # e /\ y # succ
      BY <3>1, <3>4, <1>7
    <3> QED
      BY <3>1, <3>2, <3>3, <3>4
  <2>2. work_queue' \in [Entries -> WorkItem]
    BY <1>7, <2>1
  <2> QED
    BY <1>7, <2>1, <2>2 DEF WorkItem
<1>10. /\ disp'.pc = "publish" /\ disp'.entry = e /\ disp'.curr = Nth(s, j)
       /\ worker'.io_seq = worker.io_seq /\ worker'.latest_nsecs = worker.latest_nsecs
       /\ worker'.free_seq = worker.free_seq /\ worker'.free_seq_end = worker.free_seq_end
       /\ worker'.io_seq_end = IF succ = NIL THEN e ELSE worker.io_seq_end
    BY <1>0, <1>4, <1>7 DEF Types
<1>11. /\ Nx'[e] = succ /\ Pv'[e] = Nth(s, j)
       /\ \A y \in Entries : y # e => Nx'[y] = Nx[y]
       /\ \A y \in Entries : y # e => Pv'[y] = IF y = succ THEN e ELSE Pv[y]
    BY <1>9 DEF Nx, Pv
<1>12. Types'
  <2>1. worker' \in [free_seq : Entries, free_seq_end : Entries,
                     io_seq : Links, io_seq_end : Links, latest_nsecs : Times]
    BY <1>0, <1>7 DEF Types, Links
  <2>2. Nth(s, j) \in Int
    <3>1. NIL \in Int /\ Entries \subseteq Int
      BY DEF NIL
    <3> QED
      BY <3>1, <1>8 DEF Links
  <2>3. disp' \in [pc : {"idle", "fill", "seek", "publish", "reclaim", "cut", "append"},
                   entry : Links, curr : Int, kind : Kinds, last : Links]
    BY <1>0, <1>7, <2>2 DEF Types
  <2> QED
    BY <1>0, <1>9, <2>1, <2>3 DEF Types, history
<1>13. LinksOnly
    BY <1>0, <1>9, <1>10 DEF LinksOnly
<1>14. CmdInv' /\ FillInv' /\ ThreadInv' /\ Fresh' = Fresh /\ Tm' = Tm
    BY <1>0, <1>13, LinksFrame
<1>15. QueueInv'
  <2>1. Divided(n, s, m, f, k, p)'
    <3>1. Chain(Nx, n, s, NIL) /\ Chain(Nx, m, f, NIL)
      BY <1>3 DEF Divided
    <3>2. Chain(Nx', n, s, NIL)
      BY <3>1, <1>8, <1>11 DEF Chain
    <3>3. Chain(Nx', m, f, NIL)
      BY <3>1, <1>8, <1>11 DEF Chain
    <3> QED
      BY <1>3, <1>10, <3>2, <3>3 DEF Divided
  <2>2. Holds(n, s, k, p, j)'
    BY <1>4, <1>6, <1>10, <1>11 DEF Holds
  <2>3. Backs(n, s, j)'
    <3>1. n > 0 /\ j # n => worker'.io_seq_end = s[n]
      BY <1>0, <1>3, <1>8, <1>10 DEF Backs
    <3>2. j = n => worker'.io_seq_end = e
      BY <1>8, <1>10
    <3>3. \A a \in 1 .. n : Pv'[s[a]] = IF a = j + 1 THEN e ELSE Nth(s, a - 1)
      BY <1>0, <1>3, <1>8, <1>11 DEF Backs
    <3> QED
      BY <1>10, <1>11, <3>1, <3>2, <3>3 DEF Backs
  <2>4. Sorted(n, s, j)'
    <3>1. \A x \in Entries : Tm[x] \in Int
      BY <1>0, Fields
    <3>2. worker.latest_nsecs \in Int
      BY <1>0, Fields
    <3>3. j > 0 => Tm[s[j]] <= Tm[e] \/ Due(s[j])
      BY <1>0, <1>4, <1>5 DEF PlaceFound, StopsAt, Tm, Due, Nth
    <3>4. ASSUME NEW a \in 1 .. n, a <= j
          PROVE  Tm[s[a]] <= Tm[e] \/ Due(s[a])
      <4>1. CASE a = j
        BY <3>3, <4>1
      <4>2. CASE a < j
        <5>1. j \in 1 .. n /\ s[a] \in Entries /\ s[j] \in Entries
          BY <4>2
        <5>2. Tm[s[a]] <= Tm[s[j]] \/ Due(s[a])
          BY <1>3, <4>2, <5>1 DEF Sorted
        <5>3. Tm[s[a]] \in Int /\ Tm[s[j]] \in Int /\ Tm[e] \in Int
          BY <3>1, <5>1
        <5> QED
          BY <3>2, <3>3, <4>2, <5>2, <5>3 DEF Due
      <4> QED
        BY <3>4, <4>1, <4>2
    <3> QED
      BY <1>0, <1>3, <1>4, <1>10, <1>14, <3>4 DEF Sorted, Due
  <2>5. Stocked(n, s, m, f, k, p)'
    BY <1>0, <1>3, <1>4, <1>9, <1>10, <1>14 DEF Stocked
  <2>6. Queue(n, s, m, f, k, p, j)'
    BY <2>1, <2>2, <2>3, <2>4, <2>5 DEF Queue
  <2> QED
    BY <1>1, <2>6, QueueIntro
<1> QED
    BY <1>12, <1>14, <1>15 DEF IInv

\* The store that makes the new entry part of the list of requests.
LEMMA PublishInv ==
    ASSUME IInv, Publish
    PROVE  IInv'
<1>0. /\ Types /\ QueueInv /\ ThreadInv /\ CmdInv
      /\ disp.pc = "publish"
      /\ disp' = [disp EXCEPT !.pc = AfterEnqueue(disp.kind), !.entry = NIL, !.curr = NIL]
      /\ UNCHANGED <<thr, clock, history>>
    BY DEF IInv, Publish
<1> USE NilNoEntry
<1>1. PICK n, s, m, f, k, p, j : Shape(n, s, m, f, k, p, j) /\ Queue(n, s, m, f, k, p, j)
    BY <1>0 DEF QueueInv
<1>2. /\ n \in Nat /\ m \in Nat /\ k \in Nat /\ j \in 0 .. n
      /\ s \in [1 .. n -> Entries] /\ f \in [1 .. m -> Entries] /\ p \in [1 .. k -> Entries]
    BY <1>1 DEF Shape
<1>3. /\ Divided(n, s, m, f, k, p) /\ Holds(n, s, k, p, j) /\ Backs(n, s, j)
      /\ Sorted(n, s, j) /\ Stocked(n, s, m, f, k, p)
    BY <1>1 DEF Queue
<1> USE <1>2
<1>4. PICK e \in Entries : e = disp.entry /\ k = 1 /\ p[1] = e
  <2>1. k = 1 /\ p[1] = disp.entry /\ 1 \in 1 .. k
    BY <1>0, <1>3 DEF Holds
  <2> QED
    BY <2>1
<1>5. /\ disp.curr = Nth(s, j) /\ Nx[e] = After(n, s, j) /\ Pv[e] = Nth(s, j)
      /\ worker.io_seq_end = IF j = n THEN e ELSE s[n]
      /\ \A a \in 1 .. n : Pv[s[a]] = IF a = j + 1 THEN e ELSE Nth(s, a - 1)
    BY <1>0, <1>3, <1>4 DEF Holds, Backs
<1>6. /\ \A a \in 1 .. n : s[a] # e
      /\ \A a \in 1 .. m : f[a] # e
    BY <1>3, <1>4 DEF Divided, Apart
<1>7. /\ work_queue' \in [Entries -> WorkItem]
      /\ \A y \in Entries :
            /\ work_queue'[y].cmd = work_queue[y].cmd /\ work_queue'[y].buf = work_queue[y].buf
            /\ work_queue'[y].nsecs_target = work_queue[y].nsecs_target
            /\ work_queue'[y].is_completed = work_queue[y].is_completed
            /\ work_queue'[y].is_copied = work_queue[y].is_copied
            /\ work_queue'[y].is_internal = work_queue[y].is_internal
            /\ work_queue'[y].next = IF j > 0 /\ y = s[j] THEN e ELSE work_queue[y].next
            /\ work_queue'[y].prev = work_queue[y].prev
      /\ worker' = [worker EXCEPT !.io_seq = IF j = 0 THEN e ELSE @]
  <2>1. CASE j = 0
    <3>1. disp.curr = NIL
      BY <1>5, <2>1 DEF Nth
    <3>2. work_queue' = work_queue /\ worker' = [worker EXCEPT !.io_seq = e]
      BY <1>4, <3>1 DEF Publish
    <3> QED
      BY <1>0, <2>1, <3>2 DEF Types
  <2>2. CASE j > 0
    <3>1. disp.curr = s[j] /\ s[j] \in Entries
      BY <1>5, <2>2 DEF Nth
    <3>2. work_queue' = [work_queue EXCEPT ![s[j]].next = e] /\ worker' = worker
      BY <1>4, <3>1 DEF Publish
    <3>3. work_queue \in [Entries -> WorkItem] /\ work_queue[s[j]] \in WorkItem
      BY <1>0, <3>1 DEF Types
    <3>4. [work_queue[s[j]] EXCEPT !.next = e] \in WorkItem
      BY <3>3 DEF WorkItem, Links
    <3>5. /\ work_queue' \in [Entries -> WorkItem]
          /\ work_queue'[s[j]] = [work_queue[s[j]] EXCEPT !.next = e]
          /\ \A y \in Entries : y # s[j] => work_queue'[y] = work_queue[y]
      BY <3>1, <3>2, <3>3, <3>4
    <3>6. worker' = [worker EXCEPT !.io_seq = IF j = 0 THEN e ELSE @]
      BY <1>0, <2>2, <3>2 DEF Types
    <3> QED
      BY <2>2, <3>1, <3>3, <3>5, <3>6 DEF WorkItem
  <2> QED
    BY <2>1, <2>2
<1>8. /\ worker'.io_seq = IF j = 0 THEN e ELSE worker.io_seq
      /\ worker'.io_seq_end = worker.io_seq_end /\ worker'.latest_nsecs = worker.latest_nsecs
      /\ worker'.free_seq = worker.free_seq /\ worker'.free_seq_end = worker.free_seq_end
      /\ disp'.pc \in {"idle", "reclaim"}
    BY <1>0, <1>7 DEF Types, AfterEnqueue
<1>9. /\ Pv' = Pv
      /\ \A y \in Entries : Nx'[y] = IF j > 0 /\ y = s[j] THEN e ELSE Nx[y]
    BY <1>7 DEF Nx, Pv
<1>10. Types'
  <2>1. worker' \in [free_seq : Entries, free_seq_end : Entries,
                     io_seq : Links, io_seq_end : Links, latest_nsecs : Times]
    BY <1>0, <1>7 DEF Types, Links
  <2>2. NIL \in Int /\ NIL \in Links
    BY DEF NIL, Links
  <2>3. disp' \in [pc : {"idle", "fill", "seek", "publish", "reclaim", "cut", "append"},
                   entry : Links, curr : Int, kind : Kinds, last : Links]
    BY <1>0, <2>2 DEF Types, AfterEnqueue
  <2> QED
    BY <1>0, <1>7, <2>1, <2>3 DEF Types, history
<1>11. LinksOnly
    BY <1>0, <1>7, <1>8 DEF LinksOnly
<1>12. CmdInv' /\ FillInv' /\ ThreadInv' /\ Fresh' = Fresh /\ Tm' = Tm
    BY <1>0, <1>11, LinksFrame
<1>13. PICK n1, s1, p1 : /\ n1 = n + 1 /\ p1 = [a \in 1 .. 0 |-> e]
                         /\ s1 = [a \in 1 .. n + 1 |-> IF a <= j THEN s[a]
                                                       ELSE IF a = j + 1 THEN e ELSE s[a - 1]]
    OBVIOUS
<1>14. /\ n1 \in Nat /\ s1 \in [1 .. n1 -> Entries] /\ p1 \in [1 .. 0 -> Entries]
       /\ \A a \in 1 .. n1 : a <= j => s1[a] = s[a] /\ a \in 1 .. n
       /\ j + 1 \in 1 .. n1 /\ s1[j + 1] = e
       /\ \A a \in 1 .. n1 : a > j + 1 => s1[a] = s[a - 1] /\ a - 1 \in 1 .. n
    BY <1>13
<1>15. Divided(n1, s1, m, f, 0, p1)'
  <2>1. Chain(Nx, n, s, NIL) /\ Chain(Nx, m, f, NIL) /\ Apart(n, s, m, f)
    BY <1>3 DEF Divided
  <2>2. \A a, b \in 1 .. n1 : s1[a] = s1[b] => a = b
    <3> SUFFICES ASSUME NEW a \in 1 .. n1, NEW b \in 1 .. n1, s1[a] = s1[b]
                 PROVE  a = b
      OBVIOUS
    <3>1. \A u, v \in 1 .. n : s[u] = s[v] => u = v
      BY <2>1 DEF Chain
    <3>2. CASE a = j + 1
      BY <3>2, <1>6, <1>14
    <3>3. CASE b = j + 1
      BY <3>3, <1>6, <1>14
    <3>4. CASE a # j + 1 /\ b # j + 1
      BY <3>1, <3>4, <1>14
    <3> QED
      BY <3>2, <3>3, <3>4
  <2>3. ASSUME NEW a \in 1 .. n1
        PROVE  Nx'[s1[a]] = IF a = n1 THEN NIL ELSE s1[a + 1]
    <3>0. /\ \A u \in 1 .. n : Nx[s[u]] = IF u = n THEN NIL ELSE s[u + 1]
          /\ \A u, v \in 1 .. n : s[u] = s[v] => u = v
      BY <2>1 DEF Chain
    <3>1. CASE a < j
      <4>1. s1[a] = s[a] /\ s1[a + 1] = s[a + 1] /\ a # n /\ a \in 1 .. n /\ j \in 1 .. n
        BY <3>1, <1>13, <1>14
      <4>2. Nx'[s[a]] = Nx[s[a]]
        <5>1. s[a] # s[j] /\ s[a] \in Entries
          BY <3>0, <3>1, <4>1
        <5> QED
          BY <5>1, <1>9
      <4> QED
        BY <3>0, <3>1, <4>1, <4>2, <1>13
    <3>2. CASE a = j
      <4>1. s1[a] = s[j] /\ s1[a + 1] = e /\ a # n1 /\ j > 0 /\ s[j] \in Entries
        BY <3>2, <1>13, <1>14
      <4> QED
        BY <4>1, <1>9
    <3>3. CASE a = j + 1
      <4>1. s1[a] = e /\ Nx'[e] = Nx[e]
        BY <3>3, <1>6, <1>9, <1>14
      <4>2. j # n => s1[a + 1] = s[j + 1]
        BY <3>3, <1>13, <1>14
      <4> QED
        BY <3>3, <4>1, <4>2, <1>5, <1>13 DEF After
    <3>4. CASE a > j + 1
      <4>1. s1[a] = s[a - 1] /\ a - 1 \in 1 .. n /\ a - 1 > j
        BY <3>4, <1>14
      <4>2. Nx'[s[a - 1]] = Nx[s[a - 1]]
        <5>1. (j > 0 => s[a - 1] # s[j]) /\ s[a - 1] \in Entries
          BY <3>0, <4>1
        <5> QED
          BY <5>1, <1>9
      <4>3. a # n1 => s1[a + 1] = s[a]
        BY <3>4, <1>13, <1>14
      <4>4. Nx[s[a - 1]] = IF a - 1 = n THEN NIL ELSE s[a]
        BY <3>0, <4>1
      <4> QED
        BY <4>1, <4>2, <4>3, <4>4, <1>13
    <3> QED
      BY <3>1, <3>2, <3>3, <3>4
  <2>4. Chain(Nx', n1, s1, NIL)
    BY <1>14, <2>2, <2>3 DEF Chain
  <2>5. Chain(Nx', m, f, NIL)
    <3>1. \A a \in 1 .. m : Nx'[f[a]] = Nx[f[a]]
      <4> SUFFICES ASSUME NEW a \in 1 .. m
                   PROVE  Nx'[f[a]] = Nx[f[a]]
        OBVIOUS
      <4>1. (j > 0 => f[a] # s[j]) /\ f[a] \in Entries
        BY <2>1 DEF Apart
      <4> QED
        BY <4>1, <1>9
    <3> QED
      BY <2>1, <3>1 DEF Chain
  <2>6. worker'.io_seq = After(n1, s1, 0)
    <3>1. CASE j = 0
      BY <3>1, <1>8, <1>13, <1>14 DEF After
    <3>2. CASE j > 0
      <4>1. s1[1] = s[1] /\ n # 0 /\ n1 # 0
        BY <3>2, <1>13, <1>14
      <4> QED
        BY <3>2, <4>1, <1>3, <1>8 DEF After, Divided
    <3> QED
      BY <3>1, <3>2
  <2>7. Apart(n1, s1, m, f)
    <3> SUFFICES ASSUME NEW a \in 1 .. n1, NEW b \in 1 .. m
                 PROVE  s1[a] # f[b]
      BY DEF Apart
    <3>1. s1[a] = e \/ \E u \in 1 .. n : s1[a] = s[u]
      BY <1>14
    <3> QED
      BY <3>1, <1>6, <2>1 DEF Apart
  <2>8. ASSUME NEW x \in Entries
        PROVE  (\E a \in 1 .. n1 : x = s1[a]) \/ (\E a \in 1 .. m : x = f[a])
    <3>1. ASSUME NEW u \in 1 .. n, x = s[u]
          PROVE  \E a \in 1 .. n1 : x = s1[a]
      <4>1. CASE u <= j
        <5>1. u \in 1 .. n1 /\ s1[u] = x
          BY <3>1, <4>1, <1>13
        <5> QED
          BY <5>1
      <4>2. CASE u > j
        <5>1. u + 1 \in 1 .. n1 /\ s1[u + 1] = x
          BY <3>1, <4>2, <1>13
        <5> QED
          BY <5>1
      <4> QED
        BY <4>1, <4>2
    <3>2. CASE x = e
      BY <3>2, <1>14
    <3> QED
      BY <3>1, <3>2, <1>3, <1>4 DEF Divided
  <2> QED
    BY <1>3, <1>8, <1>14, <2>4, <2>5, <2>6, <2>7, <2>8 DEF Divided, Apart
<1>16. Holds(n1, s1, 0, p1, 0)'
    BY <1>8 DEF Holds
<1>17. Backs(n1, s1, 0)'
  <2>1. worker'.io_seq_end = s1[n1]
    BY <1>5, <1>8, <1>13, <1>14
  <2>2. ASSUME NEW a \in 1 .. n1
        PROVE  Pv'[s1[a]] = Nth(s1, a - 1)
    <3>1. CASE a <= j
      <4>1. s1[a] = s[a] /\ a \in 1 .. n /\ Pv[s[a]] = Nth(s, a - 1)
        BY <3>1, <1>5, <1>14
      <4>2. a # 1 => s1[a - 1] = s[a - 1]
        BY <3>1, <1>13
      <4> QED
        BY <4>1, <4>2, <1>9 DEF Nth
    <3>2. CASE a = j + 1
      <4>1. s1[a] = e /\ Pv[e] = Nth(s, j)
        BY <3>2, <1>5, <1>14
      <4>2. j # 0 => s1[j] = s[j]
        BY <1>13
      <4> QED
        BY <3>2, <4>1, <4>2, <1>9 DEF Nth
    <3>3. CASE a > j + 1
      <4>1. s1[a] = s[a - 1] /\ a - 1 \in 1 .. n
            /\ Pv[s[a - 1]] = IF a - 1 = j + 1 THEN e ELSE Nth(s, (a - 1) - 1)
        BY <3>3, <1>5, <1>14
      <4>2. CASE a - 1 = j + 1
        BY <4>1, <4>2, <1>9, <1>14 DEF Nth
      <4>3. CASE a - 1 # j + 1
        <5>1. s1[a - 1] = s[a - 2] /\ a - 1 # 0 /\ a - 2 # 0 /\ (a - 1) - 1 = a - 2
          BY <3>3, <4>3, <1>13
        <5> QED
          BY <4>1, <4>3, <5>1, <1>9 DEF Nth
      <4> QED
        BY <4>2, <4>3
    <3> QED
      BY <3>1, <3>2, <3>3
  <2> QED
    BY <1>8, <2>1, <2>2 DEF Backs
<1>18. Sorted(n1, s1, 0)'
  <2>1. ASSUME NEW a \in 1 .. n1, NEW b \in 1 .. n1, a < b
        PROVE  Tm[s1[a]] <= Tm[s1[b]] \/ Due(s1[a])
    <3>0. /\ \A u, v \in 1 .. n : u < v => Tm[s[u]] <= Tm[s[v]] \/ Due(s[u])
          /\ \A u \in 1 .. n : u > j => Tm[e] <= Tm[s[u]]
          /\ \A u \in 1 .. n : u <= j => Tm[s[u]] <= Tm[e] \/ Due(s[u])
      BY <1>0, <1>3, <1>4 DEF Sorted
    <3>1. CASE a = j + 1
      <4>1. s1[a] = e /\ s1[b] = s[b - 1] /\ b - 1 \in 1 .. n /\ b - 1 > j
        BY <2>1, <3>1, <1>14
      <4> QED
        BY <3>0, <4>1
    <3>2. CASE b = j + 1
      <4>1. s1[b] = e /\ s1[a] = s[a] /\ a \in 1 .. n /\ a <= j
        BY <2>1, <3>2, <1>14
      <4> QED
        BY <3>0, <4>1
    <3>3. CASE a # j + 1 /\ b # j + 1
      <4>1. PICK u \in 1 .. n, v \in 1 .. n : u < v /\ s1[a] = s[u] /\ s1[b] = s[v]
        <5>1. CASE b <= j
          <6>1. a \in 1 .. n /\ b \in 1 .. n /\ s1[a] = s[a] /\ s1[b] = s[b]
            BY <2>1, <5>1, <1>14
          <6> QED
            BY <2>1, <6>1
        <5>2. CASE a <= j /\ b > j + 1
          <6>1. a \in 1 .. n /\ b - 1 \in 1 .. n /\ a < b - 1 /\ s1[a] = s[a] /\ s1[b] = s[b - 1]
            BY <5>2, <1>14
          <6> QED
            BY <6>1
        <5>3. CASE a > j + 1
          <6>1. a - 1 \in 1 .. n /\ b - 1 \in 1 .. n /\ a - 1 < b - 1
                /\ s1[a] = s[a - 1] /\ s1[b] = s[b - 1]
            BY <2>1, <5>3, <1>14
          <6> QED
            BY <6>1
        <5> QED
          BY <2>1, <3>3, <5>1, <5>2, <5>3
      <4> QED
        BY <3>0, <4>1
    <3> QED
      BY <3>1, <3>2, <3>3
  <2> QED
    BY <1>8, <1>12, <2>1 DEF Sorted, Due
<1>19. Stocked(n1, s1, m, f, 0, p1)'
  <2>1. e \notin Fresh
    BY <1>0, <1>3, <1>4 DEF Stocked
  <2>2. ASSUME NEW a \in 1 .. n1
        PROVE  s1[a] \notin Fresh
    BY <1>3, <1>14, <2>1 DEF Stocked
  <2>3. \A a \in 1 .. m : f[a] \notin Fresh => work_queue'[f[a]].is_completed
    BY <1>3, <1>7 DEF Stocked
  <2> QED
    BY <1>3, <1>8, <1>12, <2>2, <2>3 DEF Stocked
<1>20. QueueInv'
  <2>1. Shape(n1, s1, m, f, 0, p1, 0)
    BY <1>14 DEF Shape
  <2>2. Queue(n1, s1, m, f, 0, p1, 0)'
    BY <1>15, <1>16, <1>17, <1>18, <1>19 DEF Queue
  <2> QED
    BY <2>1, <2>2, QueueIntro
<1> QED
    BY <1>10, <1>12, <1>20 DEF IInv

\* The completed prefix leaves the list of requests.
LEMMA UnlinkInv ==
    ASSUME IInv, Unlink
    PROVE  IInv'
<1> USE NilNoEntry
<1>a. PICK q, last, succ : q = PrefixDone /\ last = IoEntry[PrefixDone - 1] /\ succ = work_queue[last].next
    OBVIOUS
<1>0. /\ Types /\ QueueInv /\ ThreadInv /\ CmdInv
      /\ disp.pc = "reclaim" /\ q > 0
      /\ worker' = [worker EXCEPT !.io_seq = succ]
      /\ work_queue' = IF succ = NIL THEN work_queue ELSE [work_queue EXCEPT ![succ].prev = NIL]
      /\ disp' = [disp EXCEPT !.pc = "cut", !.entry = worker.io_seq, !.last = last]
      /\ UNCHANGED <<thr, clock, history>>
    BY <1>a DEF IInv, Unlink
<1>1. PICK n, s, m, f, k, p, j : Shape(n, s, m, f, k, p, j) /\ Queue(n, s, m, f, k, p, j)
    BY <1>0 DEF QueueInv
<1>2. /\ n \in Nat /\ m \in Nat /\ k \in Nat /\ j \in 0 .. n
      /\ s \in [1 .. n -> Entries] /\ f \in [1 .. m -> Entries] /\ p \in [1 .. k -> Entries]
    BY <1>1 DEF Shape
<1>3. /\ Divided(n, s, m, f, k, p) /\ Holds(n, s, k, p, j) /\ Backs(n, s, j)
      /\ Sorted(n, s, j) /\ Stocked(n, s, m, f, k, p)
    BY <1>1 DEF Queue
<1> USE <1>2
<1>4. /\ q \in 1 .. n /\ last = s[q] /\ k = 0
      /\ \A a \in 1 .. q : work_queue[s[a]].is_completed
  <2>1. q \in 0 .. n /\ (\A a \in 1 .. q : Reclaimable(worker, work_queue[s[a]])) /\ (q > 0 => last = s[q])
    BY <1>0, <1>3, <1>a, PrefixIs
  <2> QED
    BY <1>0, <1>3, <2>1 DEF Reclaimable, Holds
<1>5. /\ \A a \in 1 .. n : Nx[s[a]] = IF a = n THEN NIL ELSE s[a + 1]
      /\ \A a, b \in 1 .. n : s[a] = s[b] => a = b
      /\ worker.io_seq = s[1] /\ s[1] \in Entries
    BY <1>3, <1>4 DEF Divided, Chain, After
<1>6. succ = (IF q = n THEN NIL ELSE s[q + 1]) /\ succ \in Links /\ last \in Entries
  <2>1. last \in Entries /\ succ = Nx[s[q]]
    BY <1>a, <1>4 DEF Nx
  <2>2. succ = IF q = n THEN NIL ELSE s[q + 1]
    BY <1>4, <1>5, <2>1
  <2>3. q # n => s[q + 1] \in Entries
    BY <1>4
  <2> QED
    BY <2>1, <2>2, <2>3 DEF Links
<1>7. /\ work_queue' \in [Entries -> WorkItem]
      /\ \A y \in Entries :
            /\ work_queue'[y].cmd = work_queue[y].cmd /\ work_queue'[y].buf = work_queue[y].buf
            /\ work_queue'[y].nsecs_target = work_queue[y].nsecs_target
            /\ work_queue'[y].is_completed = work_queue[y].is_completed
            /\ work_queue'[y].is_copied = work_queue[y].is_copied
            /\ work_queue'[y].is_internal = work_queue[y].is_internal
            /\ work_queue'[y].next = work_queue[y].next
            /\ work_queue'[y].prev = IF y = succ THEN NIL ELSE work_queue[y].prev
  <2>1. CASE succ = NIL
    BY <1>0, <2>1 DEF Types
  <2>2. CASE succ # NIL
    <3>1. succ \in Entries /\ work_queue \in [Entries -> WorkItem] /\ work_queue[succ] \in WorkItem
      BY <1>0, <1>6, <2>2 DEF Types, Links
    <3>2. [work_queue[succ] EXCEPT !.prev = NIL] \in WorkItem
      BY <3>1 DEF WorkItem, Links
    <3>3. /\ work_queue' \in [Entries -> WorkItem]
          /\ work_queue'[succ] = [work_queue[succ] EXCEPT !.prev = NIL]
          /\ \A y \in Entries : y # succ => work_queue'[y] = work_queue[y]
      BY <1>0, <2>2, <3>1, <3>2
    <3> QED
      BY <3>1, <3>3 DEF WorkItem
  <2> QED
    BY <2>1, <2>2
<1>8. /\ worker'.io_seq = succ /\ worker'.io_seq_end = worker.io_seq_end
      /\ worker'.latest_nsecs = worker.latest_nsecs
      /\ worker'.free_seq = worker.free_seq /\ worker'.free_seq_end = worker.free_seq_end
      /\ disp'.pc = "cut" /\ disp'.entry = s[1] /\ disp'.last = s[q]
    BY <1>0, <1>4, <1>5 DEF Types
<1>9. Nx' = Nx /\ \A y \in Entries : Pv'[y] = IF y = succ THEN NIL ELSE Pv[y]
    BY <1>7 DEF Nx, Pv
<1>10. Types'
  <2>1. worker' \in [free_seq : Entries, free_seq_end : Entries,
                     io_seq : Links, io_seq_end : Links, latest_nsecs : Times]
    BY <1>0, <1>6 DEF Types
  <2>2. disp' \in [pc : {"idle", "fill", "seek", "publish", "reclaim", "cut", "append"},
                   entry : Links, curr : Int, kind : Kinds, last : Links]
    BY <1>0, <1>6 DEF Types, Links
  <2> QED
    BY <1>0, <1>7, <2>1, <2>2 DEF Types, history
<1>11. LinksOnly
    BY <1>0, <1>7, <1>8 DEF LinksOnly
<1>12. CmdInv' /\ FillInv' /\ ThreadInv' /\ Fresh' = Fresh /\ Tm' = Tm
    BY <1>0, <1>11, LinksFrame
<1>13. PICK n1, s1, p1 : /\ n1 = n - q /\ p1 = [a \in 1 .. q |-> s[a]]
                         /\ s1 = [a \in 1 .. n - q |-> s[a + q]]
    OBVIOUS
<1>14. /\ n1 \in Nat /\ s1 \in [1 .. n1 -> Entries] /\ p1 \in [1 .. q -> Entries] /\ q \in Nat
       /\ \A a \in 1 .. n1 : s1[a] = s[a + q] /\ a + q \in 1 .. n
       /\ \A a \in 1 .. q : p1[a] = s[a] /\ a \in 1 .. n
    BY <1>4, <1>13
<1>15. succ = After(n1, s1, 0)
    BY <1>4, <1>6, <1>13, <1>14 DEF After
<1>16. Divided(n1, s1, m, f, q, p1)'
  <2>1. Chain(Nx', n1, s1, NIL)
    <3>1. \A a, b \in 1 .. n1 : s1[a] = s1[b] => a = b
      BY <1>4, <1>5, <1>14
    <3>2. ASSUME NEW a \in 1 .. n1
          PROVE  Nx'[s1[a]] = IF a = n1 THEN NIL ELSE s1[a + 1]
      <4>1. Nx[s[a + q]] = IF a + q = n THEN NIL ELSE s[a + q + 1]
        BY <1>5, <1>14
      <4>2. a # n1 => s1[a + 1] = s[a + q + 1]
        BY <1>4, <1>13
      <4> QED
        BY <4>1, <4>2, <1>4, <1>9, <1>13, <1>14
    <3> QED
      BY <1>14, <3>1, <3>2 DEF Chain
  <2>2. Chain(Nx', m, f, NIL)
    BY <1>3, <1>9 DEF Divided
  <2>3. Apart(n1, s1, m, f) /\ Apart(m, f, q, p1)
    <3>1. Apart(n, s, m, f)
      BY <1>3 DEF Divided
    <3> QED
      BY <3>1, <1>14 DEF Apart
  <2>4. Apart(n1, s1, q, p1)
    <3> SUFFICES ASSUME NEW a \in 1 .. n1, NEW b \in 1 .. q, s1[a] = p1[b]
                 PROVE  FALSE
      BY DEF Apart
    <3>1. a + q = b
      BY <1>5, <1>14
    <3> QED
      BY <3>1, <1>4
  <2>5. ASSUME NEW x \in Entries
        PROVE  \/ \E a \in 1 .. n1 : x = s1[a]
               \/ \E a \in 1 .. m : x = f[a]
               \/ \E a \in 1 .. q : x = p1[a]
    <3>1. ASSUME NEW u \in 1 .. n, x = s[u]
          PROVE  (\E a \in 1 .. n1 : x = s1[a]) \/ (\E a \in 1 .. q : x = p1[a])
      <4>1. CASE u <= q
        <5>1. u \in 1 .. q /\ p1[u] = x
          BY <3>1, <4>1, <1>4, <1>13
        <5> QED
          BY <5>1
      <4>2. CASE u > q
        <5>1. u - q \in 1 .. n1 /\ s1[u - q] = x
          BY <3>1, <4>2, <1>4, <1>13
        <5> QED
          BY <5>1
      <4> QED
        BY <4>1, <4>2, <1>4
    <3> QED
      BY <3>1, <1>3, <1>4 DEF Divided
  <2> QED
    BY <1>3, <1>8, <1>14, <1>15, <2>1, <2>2, <2>3, <2>4, <2>5 DEF Divided
<1>17. Holds(n1, s1, q, p1, 0)'
  <2>1. \A a \in 1 .. q : Nx'[p1[a]] = IF a = q THEN succ ELSE p1[a + 1]
    <3> SUFFICES ASSUME NEW a \in 1 .. q
                 PROVE  Nx'[p1[a]] = IF a = q THEN succ ELSE p1[a + 1]
      OBVIOUS
    <3>1. Nx'[p1[a]] = IF a = n THEN NIL ELSE s[a + 1]
      BY <1>5, <1>9, <1>14
    <3>2. a # q => p1[a + 1] = s[a + 1] /\ a # n
      BY <1>4, <1>14
    <3> QED
      BY <3>1, <3>2, <1>6
  <2>2. \A a, b \in 1 .. q : p1[a] = p1[b] => a = b
    BY <1>5, <1>14
  <2>3. Chain(Nx', q, p1, succ)
    BY <1>14, <2>1, <2>2 DEF Chain
  <2>4. q >= 1 /\ p1[1] = s[1] /\ p1[q] = s[q]
    BY <1>4, <1>14
  <2> QED
    BY <1>8, <2>3, <2>4 DEF Holds
<1>18. Backs(n1, s1, 0)'
  <2>0. \A a \in 1 .. n : Pv[s[a]] = Nth(s, a - 1)
    BY <1>0, <1>3 DEF Backs
  <2>1. n1 > 0 => worker'.io_seq_end = s1[n1]
    BY <1>0, <1>3, <1>4, <1>8, <1>13, <1>14 DEF Backs
  <2>2. ASSUME NEW a \in 1 .. n1
        PROVE  Pv'[s1[a]] = Nth(s1, a - 1)
    <3>1. CASE a = 1
      <4>1. s1[a] = succ /\ s1[a] \in Entries
        BY <3>1, <1>14, <1>15 DEF After
      <4>2. Pv'[s1[a]] = NIL
        BY <4>1, <1>9
      <4> QED
        BY <3>1, <4>2 DEF Nth
    <3>2. CASE a # 1
      <4>1. s1[a] # succ /\ s1[a] \in Entries
        BY <3>2, <1>4, <1>5, <1>6, <1>14
      <4>2. Pv'[s1[a]] = Nth(s, (a + q) - 1)
        BY <2>0, <4>1, <1>9, <1>14
      <4>3. s1[a - 1] = s[(a - 1) + q] /\ (a - 1) + q = (a + q) - 1 /\ (a + q) - 1 # 0 /\ a - 1 # 0
        BY <3>2, <1>4, <1>14
      <4> QED
        BY <4>2, <4>3 DEF Nth
    <3> QED
      BY <3>1, <3>2
  <2> QED
    BY <1>8, <2>1, <2>2 DEF Backs
<1>19. Sorted(n1, s1, 0)'
  <2>1. ASSUME NEW a \in 1 .. n1, NEW b \in 1 .. n1, a < b
        PROVE  Tm[s1[a]] <= Tm[s1[b]] \/ Due(s1[a])
    <3>1. a + q < b + q /\ a + q \in 1 .. n /\ b + q \in 1 .. n /\ s1[a] = s[a + q] /\ s1[b] = s[b + q]
      BY <2>1, <1>4, <1>14
    <3> QED
      BY <1>3, <3>1 DEF Sorted
  <2> QED
    BY <1>8, <1>12, <2>1 DEF Sorted, Due
<1>20. Stocked(n1, s1, m, f, q, p1)'
  <2>1. \A a \in 1 .. n1 : s1[a] \notin Fresh
    BY <1>3, <1>14 DEF Stocked
  <2>2. \A a \in 1 .. q : p1[a] \notin Fresh /\ work_queue'[p1[a]].is_completed
    <3> SUFFICES ASSUME NEW a \in 1 .. q
                 PROVE  p1[a] \notin Fresh /\ work_queue'[p1[a]].is_completed
      OBVIOUS
    <3>1. p1[a] = s[a] /\ a \in 1 .. n /\ s[a] \in Entries /\ work_queue[s[a]].is_completed
      BY <1>4, <1>14
    <3>2. s[a] \notin Fresh
      BY <1>3, <3>1 DEF Stocked
    <3> QED
      BY <3>1, <3>2, <1>7
  <2>3. \A a \in 1 .. m : f[a] \notin Fresh => work_queue'[f[a]].is_completed
    BY <1>3, <1>7 DEF Stocked
  <2> QED
    BY <1>3, <1>8, <1>12, <2>1, <2>2, <2>3 DEF Stocked
<1>21. QueueInv'
  <2>1. Shape(n1, s1, m, f, q, p1, 0)
    BY <1>14 DEF Shape
  <2>2. Queue(n1, s1, m, f, q, p1, 0)'
    BY <1>16, <1>17, <1>18, <1>19, <1>20 DEF Queue
  <2> QED
    BY <2>1, <2>2, QueueIntro
<1> QED
    BY <1>10, <1>12, <1>21 DEF IInv

\* The reclaimed prefix is cut off from the list of requests.
LEMMA CutInv ==
    ASSUME IInv, Cut
    PROVE  IInv'
<1> USE NilNoEntry
<1>0. /\ Types /\ QueueInv /\ ThreadInv /\ CmdInv
      /\ disp.pc = "cut"
      /\ work_queue' = [work_queue EXCEPT ![disp.last].next = NIL]
      /\ disp' = [disp EXCEPT !.pc = "append"]
      /\ UNCHANGED <<worker, thr, clock, history>>
    BY DEF IInv, Cut
<1>1. PICK n, s, m, f, k, p, j : Shape(n, s, m, f, k, p, j) /\ Queue(n, s, m, f, k, p, j)
    BY <1>0 DEF QueueInv
<1>2. /\ n \in Nat /\ m \in Nat /\ k \in Nat /\ j \in 0 .. n
      /\ s \in [1 .. n -> Entries] /\ f \in [1 .. m -> Entries] /\ p \in [1 .. k -> Entries]
    BY <1>1 DEF Shape
<1>3. /\ Divided(n, s, m, f, k, p) /\ Holds(n, s, k, p, j) /\ Backs(n, s, j)
      /\ Sorted(n, s, j) /\ Stocked(n, s, m, f, k, p)
    BY <1>1 DEF Queue
<1> USE <1>2
<1>4. k >= 1 /\ p[1] = disp.entry /\ p[k] = disp.last /\ Chain(Nx, k, p, worker.io_seq)
    BY <1>0, <1>3 DEF Holds
<1>5. PICK l \in Entries : l = p[k] /\ l = disp.last
  <2>1. k \in 1 .. k
    BY <1>4
  <2> QED
    BY <1>4, <2>1
<1>6. /\ work_queue' \in [Entries -> WorkItem]
      /\ \A y \in Entries :
            /\ work_queue'[y].cmd = work_queue[y].cmd /\ work_queue'[y].buf = work_queue[y].buf
            /\ work_queue'[y].nsecs_target = work_queue[y].nsecs_target
            /\ work_queue'[y].is_completed = work_queue[y].is_completed
            /\ work_queue'[y].is_copied = work_queue[y].is_copied
            /\ work_queue'[y].is_internal = work_queue[y].is_internal
            /\ work_queue'[y].next = IF y = l THEN NIL ELSE work_queue[y].next
            /\ work_queue'[y].prev = work_queue[y].prev
  <2>1. work_queue \in [Entries -> WorkItem] /\ work_queue[l] \in WorkItem
    BY <1>0 DEF Types
  <2>2. [work_queue[l] EXCEPT !.next = NIL] \in WorkItem
    BY <2>1 DEF WorkItem, Links
  <2>3. /\ work_queue' \in [Entries -> WorkItem]
        /\ work_queue'[l] = [work_queue[l] EXCEPT !.next = NIL]
        /\ \A y \in Entries : y # l => work_queue'[y] = work_queue[y]
    BY <1>0, <1>5, <2>1, <2>2
  <2> QED
    BY <2>1, <2>3 DEF WorkItem
<1>7. /\ disp'.pc = "append" /\ disp'.entry = disp.entry /\ disp'.last = disp.last
      /\ Pv' = Pv /\ \A y \in Entries : Nx'[y] = IF y = l THEN NIL ELSE Nx[y]
    BY <1>0, <1>6 DEF Types, Nx, Pv
<1>8. Types'
    BY <1>0, <1>6 DEF Types, history
<1>9. LinksOnly
    BY <1>0, <1>6, <1>7 DEF LinksOnly
<1>10. CmdInv' /\ FillInv' /\ ThreadInv' /\ Fresh' = Fresh /\ Tm' = Tm
    BY <1>0, <1>9, LinksFrame
<1>11. /\ \A a \in 1 .. n : s[a] # l
       /\ \A a \in 1 .. m : f[a] # l
    BY <1>3, <1>4, <1>5 DEF Divided, Apart
<1>12. Divided(n, s, m, f, k, p)'
  <2>1. Chain(Nx, n, s, NIL) /\ Chain(Nx, m, f, NIL)
    BY <1>3 DEF Divided
  <2>2. Chain(Nx', n, s, NIL)
    BY <2>1, <1>7, <1>11 DEF Chain
  <2>3. Chain(Nx', m, f, NIL)
    BY <2>1, <1>7, <1>11 DEF Chain
  <2> QED
    BY <1>0, <1>3, <2>2, <2>3 DEF Divided
<1>13. Holds(n, s, k, p, j)'
  <2>1. ASSUME NEW a \in 1 .. k
        PROVE  Nx'[p[a]] = IF a = k THEN NIL ELSE p[a + 1]
    <3>1. p[a] = l <=> a = k
      BY <1>4, <1>5 DEF Chain
    <3> QED
      BY <3>1, <1>4, <1>7 DEF Chain
  <2>2. Chain(Nx', k, p, NIL)
    BY <1>4, <2>1 DEF Chain
  <2> QED
    BY <1>4, <1>7, <2>2 DEF Holds
<1>14. Backs(n, s, j)'
    BY <1>0, <1>3, <1>7 DEF Backs
<1>15. Sorted(n, s, j)'
    BY <1>0, <1>3, <1>7, <1>10 DEF Sorted, Due
<1>16. Stocked(n, s, m, f, k, p)'
    BY <1>0, <1>3, <1>6, <1>7, <1>10 DEF Stocked
<1>17. Queue(n, s, m, f, k, p, j)'
    BY <1>12, <1>13, <1>14, <1>15, <1>16 DEF Queue
<1>18. QueueInv'
    BY <1>1, <1>17, QueueIntro
<1> QED
    BY <1>8, <1>10, <1>18 DEF IInv

\* The reclaimed prefix becomes the end of the free list.
LEMMA AppendFreeInv ==
    ASSUME IInv, AppendFree
    PROVE  IInv'
<1> USE NilNoEntry
<1>0. /\ Types /\ QueueInv /\ ThreadInv /\ CmdInv
      /\ disp.pc = "append"
      /\ worker' = [worker EXCEPT !.free_seq_end = disp.last]
      /\ disp' = [disp EXCEPT !.pc = "idle", !.entry = NIL, !.last = NIL]
      /\ UNCHANGED <<thr, clock, history>>
    BY DEF IInv, AppendFree
<1>1. PICK n, s, m, f, k, p, j : Shape(n, s, m, f, k, p, j) /\ Queue(n, s, m, f, k, p, j)
    BY <1>0 DEF QueueInv
<1>2. /\ n \in Nat /\ m \in Nat /\ k \in Nat /\ j \in 0 .. n
      /\ s \in [1 .. n -> Entries] /\ f \in [1 .. m -> Entries] /\ p \in [1 .. k -> Entries]
    BY <1>1 DEF Shape
<1>3. /\ Divided(n, s, m, f, k, p) /\ Holds(n, s, k, p, j) /\ Backs(n, s, j)
      /\ Sorted(n, s, j) /\ Stocked(n, s, m, f, k, p)
    BY <1>1 DEF Queue
<1> USE <1>2
<1>4. k >= 1 /\ p[1] = disp.entry /\ p[k] = disp.last /\ Chain(Nx, k, p, NIL)
    BY <1>0, <1>3 DEF Holds
<1>5. PICK e \in Entries, z \in Entries :
        e = p[1] /\ e = disp.entry /\ z = f[m] /\ z = worker.free_seq_end
  <2>1. 1 \in 1 .. k /\ m \in 1 .. m /\ worker.free_seq_end = f[m]
    BY <1>3, <1>4 DEF Divided
  <2> QED
    BY <1>4, <2>1
<1>6. /\ \A a \in 1 .. n : s[a] # e /\ s[a] # z
      /\ \A a \in 1 .. k : p[a] # z
      /\ \A a \in 1 .. m : f[a] = z <=> a = m
  <2>1. 1 \in 1 .. k /\ m \in 1 .. m /\ Chain(Nx, m, f, NIL)
        /\ Apart(n, s, m, f) /\ Apart(n, s, k, p) /\ Apart(m, f, k, p)
    BY <1>3, <1>4 DEF Divided
  <2>2. \A a \in 1 .. m : f[a] = z <=> a = m
    BY <1>5, <2>1 DEF Chain
  <2> QED
    BY <1>5, <2>1, <2>2 DEF Apart
<1>7. /\ work_queue' \in [Entries -> WorkItem]
      /\ \A y \in Entries :
            /\ work_queue'[y].cmd = work_queue[y].cmd /\ work_queue'[y].buf = work_queue[y].buf
            /\ work_queue'[y].nsecs_target = work_queue[y].nsecs_target
            /\ work_queue'[y].is_completed = work_queue[y].is_completed
            /\ work_queue'[y].is_copied = work_queue[y].is_copied
            /\ work_queue'[y].is_internal = work_queue[y].is_internal
            /\ work_queue'[y].next = IF y = z THEN e ELSE work_queue[y].next
            /\ work_queue'[y].prev = IF y = e THEN z ELSE work_queue[y].prev
  <2>0. e # z
    BY <1>4, <1>5, <1>6
  <2>1. work_queue \in [Entries -> WorkItem] /\ work_queue[e] \in WorkItem /\ work_queue[z] \in WorkItem
    BY <1>0 DEF Types
  <2>2. /\ [work_queue[e] EXCEPT !.prev = z] \in WorkItem
        /\ [work_queue[z] EXCEPT !.next = e] \in WorkItem
    BY <2>1 DEF WorkItem, Links
  <2>3. work_queue' = [work_queue EXCEPT ![e].prev = z, ![z].next = e]
    BY <1>5 DEF AppendFree
  <2>4. /\ work_queue' \in [Entries -> WorkItem]
        /\ work_queue'[e] = [work_queue[e] EXCEPT !.prev = z]
        /\ work_queue'[z] = [work_queue[z] EXCEPT !.next = e]
        /\ \A y \in Entries : y # e /\ y # z => work_queue'[y] = work_queue[y]
    BY <2>0, <2>1, <2>2, <2>3
  <2>5. work_queue'[e].prev = z /\ work_queue'[e].next = work_queue[e].next
        /\ work_queue'[z].next = e /\ work_queue'[z].prev = work_queue[z].prev
    BY <2>1, <2>4 DEF WorkItem
  <2>6. \A y \in {e, z} :
            /\ work_queue'[y].cmd = work_queue[y].cmd /\ work_queue'[y].buf = work_queue[y].buf
            /\ work_queue'[y].nsecs_target = work_queue[y].nsecs_target
            /\ work_queue'[y].is_completed = work_queue[y].is_completed
            /\ work_queue'[y].is_copied = work_queue[y].is_copied
            /\ work_queue'[y].is_internal = work_queue[y].is_internal
    BY <2>1, <2>4 DEF WorkItem
  <2> QED
    BY <2>0, <2>4, <2>5, <2>6
<1>8. /\ worker'.io_seq = worker.io_seq /\ worker'.io_seq_end = worker.io_seq_end
      /\ worker'.latest_nsecs = worker.latest_nsecs
      /\ worker'.free_seq = worker.free_seq /\ worker'.free_seq_end = p[k]
      /\ disp'.pc = "idle"
    BY <1>0, <1>4 DEF Types
<1>9. /\ \A y \in Entries : Nx'[y] = IF y = z THEN e ELSE Nx[y]
      /\ \A y \in Entries : Pv'[y] = IF y = e THEN z ELSE Pv[y]
    BY <1>7 DEF Nx, Pv
<1>10. Types'
  <2>1. p[k] \in Entries
    <3>1. k \in 1 .. k
      BY <1>4
    <3> QED
      BY <3>1
  <2>2. worker' \in [free_seq : Entries, free_seq_end : Entries,
                     io_seq : Links, io_seq_end : Links, latest_nsecs : Times]
    BY <1>0, <1>4, <2>1 DEF Types
  <2>3. disp' \in [pc : {"idle", "fill", "seek", "publish", "reclaim", "cut", "append"},
                   entry : Links, curr : Int, kind : Kinds, last : Links]
    BY <1>0 DEF Types, Links
  <2> QED
    BY <1>0, <1>7, <2>2, <2>3 DEF Types, history
<1>11. LinksOnly
    BY <1>0, <1>7, <1>8 DEF LinksOnly
<1>12. CmdInv' /\ FillInv' /\ ThreadInv' /\ Fresh' = Fresh /\ Tm' = Tm
    BY <1>0, <1>11, LinksFrame
<1>13. PICK m1, f1, p1 : /\ m1 = m + k /\ p1 = [a \in 1 .. 0 |-> e]
                         /\ f1 = [a \in 1 .. m + k |-> IF a <= m THEN f[a] ELSE p[a - m]]
    OBVIOUS
<1>14. /\ m1 \in Nat /\ f1 \in [1 .. m1 -> Entries] /\ p1 \in [1 .. 0 -> Entries]
       /\ \A a \in 1 .. m1 : a <= m => f1[a] = f[a] /\ a \in 1 .. m
       /\ \A a \in 1 .. m1 : a > m => f1[a] = p[a - m] /\ a - m \in 1 .. k
    BY <1>13
<1>15. Divided(n, s, m1, f1, 0, p1)'
  <2>0. /\ Chain(Nx, n, s, NIL) /\ Chain(Nx, m, f, NIL) /\ m >= 1
        /\ Apart(n, s, m, f) /\ Apart(n, s, k, p) /\ Apart(m, f, k, p)
    BY <1>3 DEF Divided
  <2>1. Chain(Nx', n, s, NIL)
    BY <2>0, <1>6, <1>9 DEF Chain
  <2>2. ASSUME NEW a \in 1 .. m1
        PROVE  Nx'[f1[a]] = IF a = m1 THEN NIL ELSE f1[a + 1]
    <3>1. CASE a < m
      <4>1. f1[a] = f[a] /\ f1[a + 1] = f[a + 1] /\ a \in 1 .. m /\ f[a] # z /\ f[a] \in Entries
        BY <3>1, <1>6, <1>13
      <4>2. Nx[f[a]] = f[a + 1]
        BY <3>1, <2>0, <4>1 DEF Chain
      <4>3. Nx'[f[a]] = Nx[f[a]]
        BY <4>1, <1>9
      <4>4. a # m1
        BY <3>1, <1>13
      <4> QED
        BY <4>1, <4>2, <4>3, <4>4
    <3>2. CASE a = m
      <4>1. f1[a] = z /\ f1[a + 1] = e /\ a # m1
        <5>1. m \in 1 .. m1 /\ m + 1 \in 1 .. m1 /\ (m + 1) - m = 1 /\ m # m1
          BY <2>0, <1>4, <1>13
        <5>2. f1[m] = f[m]
          BY <5>1, <1>14
        <5>3. f1[m + 1] = p[(m + 1) - m]
          BY <5>1, <1>14
        <5>4. f1[m + 1] = p[1]
          BY <5>1, <5>3
        <5> QED
          BY <3>2, <5>1, <5>2, <5>4, <1>5
      <4> QED
        BY <4>1, <1>9
    <3>3. CASE a > m
      <4>1. f1[a] = p[a - m] /\ a - m \in 1 .. k /\ p[a - m] # z /\ p[a - m] \in Entries
        BY <3>3, <1>6, <1>14
      <4>2. Nx[p[a - m]] = IF a - m = k THEN NIL ELSE p[(a - m) + 1]
        BY <1>4, <4>1 DEF Chain
      <4>3. a # m1 => f1[a + 1] = p[(a - m) + 1]
        BY <3>3, <1>13
      <4>4. Nx'[p[a - m]] = Nx[p[a - m]]
        BY <4>1, <1>9
      <4>5. a = m1 <=> a - m = k
        BY <1>13
      <4> QED
        BY <4>1, <4>2, <4>3, <4>4, <4>5
    <3> QED
      BY <3>1, <3>2, <3>3
  <2>3. \A a, b \in 1 .. m1 : f1[a] = f1[b] => a = b
    <3> SUFFICES ASSUME NEW a \in 1 .. m1, NEW b \in 1 .. m1, f1[a] = f1[b]
                 PROVE  a = b
      OBVIOUS
    <3>1. /\ \A u, v \in 1 .. m : f[u] = f[v] => u = v
          /\ \A u, v \in 1 .. k : p[u] = p[v] => u = v
          /\ \A u \in 1 .. m, v \in 1 .. k : f[u] # p[v]
      BY <2>0, <1>4 DEF Chain, Apart
    <3>2. CASE a <= m /\ b <= m
      BY <3>1, <3>2, <1>14
    <3>3. CASE a <= m /\ b > m
      BY <3>1, <3>3, <1>14
    <3>4. CASE a > m /\ b <= m
      BY <3>1, <3>4, <1>14
    <3>5. CASE a > m /\ b > m
      <4>1. a - m = b - m
        BY <3>1, <3>5, <1>14
      <4> QED
        BY <4>1
    <3> QED
      BY <3>2, <3>3, <3>4, <3>5
  <2>4. Chain(Nx', m1, f1, NIL)
    BY <1>14, <2>2, <2>3 DEF Chain
  <2>5. worker'.free_seq = f1[1] /\ worker'.free_seq_end = f1[m1]
    BY <1>3, <1>4, <1>8, <1>13, <2>0 DEF Divided
  <2>6. Apart(n, s, m1, f1)
    <3> SUFFICES ASSUME NEW a \in 1 .. n, NEW b \in 1 .. m1
                 PROVE  s[a] # f1[b]
      BY DEF Apart
    <3> QED
      BY <1>14, <2>0 DEF Apart
  <2>7. ASSUME NEW x \in Entries
        PROVE  (\E a \in 1 .. n : x = s[a]) \/ (\E a \in 1 .. m1 : x = f1[a])
    <3>1. ASSUME NEW u \in 1 .. m, x = f[u]
          PROVE  \E a \in 1 .. m1 : x = f1[a]
      <4>1. u \in 1 .. m1 /\ f1[u] = x
        BY <3>1, <1>13
      <4> QED
        BY <4>1
    <3>2. ASSUME NEW u \in 1 .. k, x = p[u]
          PROVE  \E a \in 1 .. m1 : x = f1[a]
      <4>1. u + m \in 1 .. m1 /\ f1[u + m] = x
        BY <3>2, <1>13
      <4> QED
        BY <4>1
    <3> QED
      BY <3>1, <3>2, <1>3 DEF Divided
  <2> QED
    BY <1>3, <1>8, <1>13, <1>14, <2>0, <2>1, <2>4, <2>5, <2>6, <2>7 DEF Divided, Apart
<1>16. Holds(n, s, 0, p1, j)'
    BY <1>8 DEF Holds
<1>17. Backs(n, s, j)'
    BY <1>0, <1>3, <1>6, <1>8, <1>9 DEF Backs
<1>18. Sorted(n, s, j)'
    BY <1>0, <1>3, <1>8, <1>12 DEF Sorted, Due
<1>19. Stocked(n, s, m1, f1, 0, p1)'
  <2>0. /\ \A a, b \in 1 .. m : a < b /\ f[b] \in Fresh => f[a] \in Fresh
        /\ \A a \in 1 .. m : f[a] \notin Fresh => work_queue[f[a]].is_completed
        /\ \A a \in 1 .. k : p[a] \notin Fresh /\ work_queue[p[a]].is_completed
    BY <1>0, <1>3 DEF Stocked
  <2>1. ASSUME NEW a \in 1 .. m1, NEW b \in 1 .. m1, a < b, f1[b] \in Fresh
        PROVE  f1[a] \in Fresh
    BY <2>0, <2>1, <1>14
  <2>2. ASSUME NEW a \in 1 .. m1, f1[a] \notin Fresh
        PROVE  work_queue'[f1[a]].is_completed
    <3>1. f1[a] \in Entries /\ work_queue[f1[a]].is_completed
      BY <2>0, <2>2, <1>14
    <3> QED
      BY <3>1, <1>7
  <2> QED
    BY <1>3, <1>8, <1>12, <2>1, <2>2 DEF Stocked
<1>20. QueueInv'
  <2>1. Shape(n, s, m1, f1, 0, p1, j)
    BY <1>14 DEF Shape
  <2>2. Queue(n, s, m1, f1, 0, p1, j)'
    BY <1>15, <1>16, <1>17, <1>18, <1>19 DEF Queue
  <2> QED
    BY <2>1, <2>2, QueueIntro
<1> QED
    BY <1>10, <1>12, <1>20 DEF IInv

-----------------------------------------------------------------------------
(* The theorems. *)

\* NVMEV_IO_WORKER_INIT: all entries are in the free list, in their order.
LEMMA InitInv ==
    ASSUME Init
    PROVE  IInv
<1> USE NilNoEntry, IoAssumption DEF Init
<1>1. Types
  <2>1. work_queue \in [Entries -> WorkItem]
    <3> SUFFICES ASSUME NEW x \in Entries
                 PROVE  [cmd |-> 0, buf |-> 0, nsecs_target |-> 0, is_completed |-> FALSE,
                         is_copied |-> FALSE, is_internal |-> FALSE,
                         next |-> IF x + 1 \in Entries THEN x + 1 ELSE NIL, prev |-> x - 1] \in WorkItem
      OBVIOUS
    <3>1. x - 1 \in Links /\ (IF x + 1 \in Entries THEN x + 1 ELSE NIL) \in Links
      BY DEF Links, Entries, NIL
    <3> QED
      BY <3>1 DEF WorkItem, Times
  <2>2. NrEntries - 1 \in Entries /\ NIL \in Links /\ NIL \in Int
    BY DEF Entries, Links, NIL
  <2> QED
    BY <2>1, <2>2 DEF Types, Times, Kinds
<1>2. QueueInv
  <2>1. PICK s, f, p : /\ s = [a \in 1 .. 0 |-> 0] /\ p = [a \in 1 .. 0 |-> 0]
                       /\ f = [a \in 1 .. NrEntries |-> a - 1]
    OBVIOUS
  <2>2. /\ s \in [1 .. 0 -> Entries] /\ p \in [1 .. 0 -> Entries]
        /\ f \in [1 .. NrEntries -> Entries] /\ \A a \in 1 .. NrEntries : f[a] = a - 1
    BY <2>1 DEF Entries
  <2>3. Shape(0, s, NrEntries, f, 0, p, 0)
    BY <2>2 DEF Shape
  <2>4. Fresh = Entries
    BY DEF Fresh
  <2>5. Divided(0, s, NrEntries, f, 0, p)
    <3>1. ASSUME NEW a \in 1 .. NrEntries
          PROVE  Nx[f[a]] = IF a = NrEntries THEN NIL ELSE f[a + 1]
      <4>1. f[a] \in Entries /\ f[a] = a - 1
        BY <2>2
      <4>2. Nx[f[a]] = IF a \in Entries THEN a ELSE NIL
        BY <4>1 DEF Nx
      <4>3. a \in Entries <=> a # NrEntries
        BY DEF Entries
      <4>4. a # NrEntries => f[a + 1] = a
        BY <2>1
      <4> QED
        BY <4>2, <4>3, <4>4
    <3>2. Chain(Nx, NrEntries, f, NIL)
      BY <2>2, <3>1 DEF Chain
    <3>3. Chain(Nx, 0, s, NIL)
      BY <2>2 DEF Chain
    <3>4. \A x \in Entries : \E a \in 1 .. NrEntries : x = f[a]
      <4> SUFFICES ASSUME NEW x \in Entries
                   PROVE  \E a \in 1 .. NrEntries : x = f[a]
        OBVIOUS
      <4>1. x + 1 \in 1 .. NrEntries /\ x = f[x + 1]
        BY <2>1 DEF Entries
      <4> QED
        BY <4>1
    <3> QED
      BY <2>2, <3>2, <3>3, <3>4 DEF Divided, After, Apart
  <2>6. Holds(0, s, 0, p, 0) /\ Backs(0, s, 0) /\ Sorted(0, s, 0)
    BY DEF Holds, Backs, Sorted
  <2>7. Stocked(0, s, NrEntries, f, 0, p)
    BY <2>2, <2>4 DEF Stocked
  <2>8. Queue(0, s, NrEntries, f, 0, p, 0)
    BY <2>5, <2>6, <2>7 DEF Queue
  <2> QED
    BY <2>3, <2>8 DEF QueueInv
<1>3. Used = {} /\ NIL \notin Fresh
    BY DEF Used, Fresh
<1>4. ThreadInv
    BY <1>3 DEF ThreadInv
<1>5. CmdInv /\ FillInv
    BY <1>3 DEF CmdInv, FillInv
<1> QED
    BY <1>1, <1>2, <1>4, <1>5 DEF IInv

\* Every step keeps the invariant.
LEMMA NextInv ==
    ASSUME IInv, [Next]_vars
    PROVE  IInv'
<1>1. CASE UNCHANGED vars
  <2>1. /\ Nx' = Nx /\ Pv' = Pv /\ Tm' = Tm /\ Fresh' = Fresh /\ Types'
    BY <1>1 DEF IInv, vars, Nx, Pv, Tm, Fresh, Types
  <2>2. QueueInv'
    BY <1>1, <2>1, QueueKept, IoAssumption DEF IInv, vars, Types, Times
  <2>3. CmdInv' /\ FillInv'
    BY <1>1, CmdFrame, IoAssumption DEF IInv, vars, AtMark, Types, Times
  <2>4. ThreadInv'
    BY <1>1, <2>1 DEF IInv, vars, ThreadInv, Used
  <2> QED
    BY <2>1, <2>2, <2>3, <2>4 DEF IInv
<1>2. ASSUME NEW c \in Cmds, NEW kind \in Kinds, Drop(c, kind)
      PROVE  IInv'
    BY <1>2, DropInv
<1>3. ASSUME NEW c \in Cmds, NEW kind \in Kinds, NEW t \in Times, Allocate(c, kind, t)
      PROVE  IInv'
    BY <1>3, AllocateInv
<1>4. CASE Fill \/ Seek \/ Link \/ Publish
    BY <1>4, FillStepInv, SeekInv, LinkInv, PublishInv
<1>5. CASE ReclaimNothing \/ Unlink \/ Cut \/ AppendFree
    BY <1>5, ReclaimNothingInv, UnlinkInv, CutInv, AppendFreeInv
<1>6. CASE Work
    BY <1>6, StartPassInv, VisitInv, CopyDataInv, CompleteInv, MarkCompletedInv, AdvanceInv DEF Work
<1>7. CASE Tick
    BY <1>7, TickInv
<1> QED
    BY <1>1, <1>2, <1>3, <1>4, <1>5, <1>6, <1>7 DEF Next, Dispatch, Kinds

\* The inductive invariant of the work queue: the two lists and the entries in
\* transit between them, where the worker may stand, and what each entry owes
\* its command (io.c, __enqueue_io_req, nvmev_io_worker and
\* __reclaim_completed_reqs).
THEOREM Invariant == Spec => []IInv
<1>1. Init => IInv
    BY InitInv
<1>2. IInv /\ [Next]_vars => IInv'
    BY NextInv
<1> QED
    BY <1>1, <1>2, PTL DEF Spec

\* Between two calls of the dispatcher every entry of the work queue is in
\* exactly one of the two lists, both end, and their tails are where
\* io_seq_end and free_seq_end say (io.c, __insert_req_sorted and
\* __reclaim_completed_reqs), whatever the worker does meanwhile.
THEOREM EntriesAreKept == Spec => []EntriesKept
<1>1. IInv => EntriesKept
    BY KeptFromInv DEF IInv
<1> QED
    BY <1>1, Invariant, PTL

\* At every moment the list of requests is sorted by the target times, but
\* for requests that are due already (__insert_req_sorted).
THEOREM RequestsAreSorted == Spec => []SortedUnlessDue
<1>1. IInv => SortedUnlessDue
    BY SortedFromInv DEF IInv
<1> QED
    BY <1>1, Invariant, PTL

\* A command is completed at most once, after its copy and not before its
\* time, however often its entry has been used before (nvmev_io_worker).  The
\* behaviours end where the worker is caught at an entry that is being set up
\* again (Torn): from there on the code gives no such guarantee.
THEOREM CommandsCompleteOnce == Spec => []CompletedOnce
<1>1. IInv => CompletedOnce
    BY OnceFromInv DEF IInv
<1> QED
    BY <1>1, Invariant, PTL

=============================================================================
