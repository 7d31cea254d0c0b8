-------------------------- MODULE Algorithms_proofs --------------------------
(***************************************************************************)
(* The theorems about the sequential algorithms, for all values of their    *)
(* constants: the time model (the credit ring of a channel keeps the ledger *)
(* of bandwidth, RingInv; the times of a die do not overlap, LunInv), the   *)
(* scores of cost_benefit_score (ScoreInv) and the walks over a line        *)
(* (FillInv and CleanInv: a page is its number in mixed radix, and a walk   *)
(* takes the pages in the order of their numbers).                          *)
(***************************************************************************)
EXTENDS Scoring, WritePointer, Timing, Induction

-----------------------------------------------------------------------------
(* Running sums. *)

\* g sums v from lo up to each place.
Runs(g, lo, hi, v) == g = [o \in lo .. hi |-> v[o] + IF o = lo THEN 0 ELSE g[o - 1]]

\* Running sums exist, and are numbers.
LEMMA RunsExist ==
    ASSUME NEW lo \in Int, NEW hi \in Int, lo <= hi, NEW v \in [lo .. hi -> Int]
    PROVE  \E g \in [lo .. hi -> Int] : Runs(g, lo, hi, v)
<1>1. PICK N \in Nat : N = hi - lo /\ hi = lo + N
  <2>1. hi - lo \in Nat /\ hi = lo + (hi - lo)
    OBVIOUS
  <2> QED
    BY <2>1
<1>2. PICK step : step = [x \in (1 .. N) \X Int |-> v[lo + x[1]] + x[2]]
    OBVIOUS
<1>3. \A i \in 0 .. N : lo + i \in lo .. hi /\ v[lo + i] \in Int
  <2>1. \A i \in 0 .. N : lo + i \in lo .. hi
    BY <1>1
  <2> QED
    BY <2>1
<1>4. step \in [(1 .. N) \X Int -> Int] /\ \A i \in 1 .. N, m \in Int : step[<<i, m>>] = v[lo + i] + m
  <2>1. ASSUME NEW i \in 1 .. N, NEW m \in Int
        PROVE  v[lo + i] + m \in Int
    BY <1>3
  <2>2. step = [x \in (1 .. N) \X Int |-> v[lo + x[1]] + x[2]]
    BY <1>2
  <2>3. ASSUME NEW x \in (1 .. N) \X Int
        PROVE  v[lo + x[1]] + x[2] \in Int
    BY <2>1
  <2>4. step \in [(1 .. N) \X Int -> Int]
    BY <2>2, <2>3
  <2>5. ASSUME NEW i \in 1 .. N, NEW m \in Int
        PROVE  step[<<i, m>>] = v[lo + i] + m
    BY <2>2
  <2> QED
    BY <2>4, <2>5
<1>5. v[lo] \in Int
    BY <1>1
<1>6. PICK p : IsPath(p, N, Int, v[lo], step)
  <2>1. \A S, a, st : a \in S /\ st \in [(1 .. N) \X S -> S] => \E p : IsPath(p, N, S, a, st)
    BY PathExists
  <2> QED
    BY <1>4, <1>5, <2>1, Zenon
<1>7. p \in [0 .. N -> Int] /\ \A i \in 0 .. N : p[i] = IF i = 0 THEN v[lo] ELSE step[<<i, p[i - 1]>>]
    BY <1>6 DEF IsPath
<1>8. PICK g : g = [o \in lo .. hi |-> p[o - lo]]
    OBVIOUS
<1>9. \A o \in lo .. hi : o - lo \in 0 .. N /\ (o # lo => o - lo \in 1 .. N /\ o - 1 \in lo .. hi)
                          /\ lo + (o - lo) = o /\ (o - lo) - 1 = (o - 1) - lo
    BY <1>1
<1>10. g \in [lo .. hi -> Int]
    BY <1>7, <1>8, <1>9
<1>11. ASSUME NEW o \in lo .. hi
       PROVE  g[o] = v[o] + IF o = lo THEN 0 ELSE g[o - 1]
  <2>1. CASE o = lo
    <3>1. g[o] = p[0]
      BY <1>8, <2>1
    <3>2. p[0] = v[lo]
      <4>1. 0 \in 0 .. N
        OBVIOUS
      <4> QED
        BY <1>7, <4>1
    <3> QED
      BY <1>5, <2>1, <3>1, <3>2
  <2>2. CASE o # lo
    <3>1. PICK i \in 1 .. N : i = o - lo /\ lo + i = o /\ i - 1 = (o - 1) - lo /\ o - 1 \in lo .. hi
      BY <1>9, <2>2
    <3>2. g[o] = p[i] /\ g[o - 1] = p[i - 1]
      BY <1>8, <3>1
    <3>3. i \in 0 .. N /\ i # 0 /\ i - 1 \in 0 .. N
      OBVIOUS
    <3>4. p[i] = step[<<i, p[i - 1]>>] /\ p[i - 1] \in Int
      BY <1>7, <3>3
    <3>5. step[<<i, p[i - 1]>>] = v[lo + i] + p[i - 1]
      BY <1>4, <3>4
    <3> QED
      BY <2>2, <3>1, <3>2, <3>4, <3>5
  <2> QED
    BY <2>1, <2>2
<1> QED
    BY <1>10, <1>11, <1>8 DEF Runs

\* g are numbers, each the one before it and v's number.
Running(g, lo, hi, v) ==
    /\ g \in [lo .. hi -> Int]
    /\ \A o \in lo .. hi : g[o] = v[o] + IF o = lo THEN 0 ELSE g[o - 1]

\* Running sums are numbers, and each is the one before it and its element.
LEMMA TheRuns ==
    ASSUME NEW lo \in Int, NEW hi \in Int, lo <= hi, NEW v \in [lo .. hi -> Int],
           NEW g, Runs(g, lo, hi, v)
    PROVE  Running(g, lo, hi, v)
<1>2. g = [o \in lo .. hi |-> v[o] + IF o = lo THEN 0 ELSE g[o - 1]]
    BY DEF Runs
<1>3. PICK f : f = g
    OBVIOUS
<1>4. DOMAIN g = lo .. hi /\ \A o \in lo .. hi : g[o] = v[o] + IF o = lo THEN 0 ELSE g[o - 1]
  <2>1. f = [o \in lo .. hi |-> v[o] + IF o = lo THEN 0 ELSE f[o - 1]]
    BY <1>2, <1>3
  <2>2. DOMAIN f = lo .. hi /\ \A o \in lo .. hi : f[o] = v[o] + IF o = lo THEN 0 ELSE f[o - 1]
    BY <2>1
  <2> QED
    BY <1>3, <2>2
<1>5. PICK N \in Nat : N = hi - lo
  <2>1. hi - lo \in Nat
    OBVIOUS
  <2> QED
    BY <2>1
<1> DEFINE T == {n \in 0 .. N : g[lo + n] \in Int}
<1>6. 0 \in T
  <2>1. g[lo] = v[lo] + 0 /\ v[lo] \in Int
    BY <1>4
  <2> QED
    BY <2>1
<1>7. ASSUME NEW n \in 0 .. N - 1, n \in T
      PROVE  n + 1 \in T
  <2>1. PICK o \in lo .. hi : o = lo + (n + 1) /\ o # lo /\ o - 1 = lo + n
    BY <1>5
  <2>2. g[o] = v[o] + g[o - 1] /\ g[o - 1] \in Int
    BY <1>4, <1>7, <2>1
  <2>3. n + 1 \in 0 .. N
    BY <1>5
  <2> QED
    BY <2>1, <2>2, <2>3
<1>8. \A n \in 0 .. N : n \in T
  <2> HIDE DEF T
  <2> QED
    BY <1>6, <1>7, UpTo
<1>9. ASSUME NEW o \in lo .. hi
      PROVE  g[o] \in Int
  <2>1. PICK n \in 0 .. N : n = o - lo /\ lo + n = o
    BY <1>5
  <2> QED
    BY <1>8, <2>1
<1>10. g = [o \in lo .. hi |-> g[o]]
    BY <1>2
<1> QED
    BY <1>4, <1>9, <1>10 DEF Running

\* The constants of the time model.
LEMMA TimingFacts ==
    /\ NrCredits \in Nat \ {0} /\ Interval \in Nat \ {0} /\ MaxCredits \in Nat \ {0} /\ MaxXfer \in Nat \ {0}
    /\ XferLat \in Nat /\ Clocks \in Nat
    /\ Latency.read \in Nat /\ Latency.write \in Nat /\ Latency.erase \in Nat
    /\ Starts \subseteq Int /\ Units \subseteq 1 .. (2 * MaxXfer) /\ Pauses \subseteq Nat \ {0}
    /\ IsFiniteSet(Luns)
BY TimingAssumption

-----------------------------------------------------------------------------
(* Rings. *)

\* The entry of a ring of N at distance x < 2 * N from its start.
LEMMA Around ==
    ASSUME NEW N \in Nat \ {0}, NEW x \in Nat, x < N + N
    PROVE  x % N = (IF x < N THEN x ELSE x - N) /\ x % N \in 0 .. N - 1
<1>1. CASE x < N
  <2>1. x \in 0 .. N - 1
    BY <1>1
  <2> QED
    BY <1>1, <2>1, Remainder
<1>2. CASE ~ (x < N)
  <2>1. PICK q \in 0 .. N - 1 : q = x - N /\ x = N + q
    BY <1>2
  <2> QED
    BY <1>2, <2>1, Remainder
<1> QED
  BY <1>1, <1>2

\* The place some steps further on the ring.
LEMMA Further ==
    ASSUME NEW N \in Nat \ {0}, NEW h \in 0 .. N - 1, NEW o \in 0 .. N
    PROVE  (h + o) % N \in 0 .. N - 1 /\ (h + o) % N = IF h + o < N THEN h + o ELSE h + o - N
<1>1. PICK x \in Nat : x = h + o /\ x < N + N
    OBVIOUS
<1>2. x % N = (IF x < N THEN x ELSE x - N) /\ x % N \in 0 .. N - 1
    BY <1>1, Around
<1> QED
    BY <1>1, <1>2

\* The distance of an entry from the head, and back.
Back(N, h, i) == (i - h + N) % N

\* Steps and places of the ring correspond.
LEMMA Distance ==
    ASSUME NEW N \in Nat \ {0}, NEW h \in 0 .. N - 1
    PROVE  /\ \A o \in 0 .. N - 1 : (h + o) % N \in 0 .. N - 1 /\ Back(N, h, (h + o) % N) = o
           /\ \A i \in 0 .. N - 1 : Back(N, h, i) \in 0 .. N - 1 /\ (h + Back(N, h, i)) % N = i
<1>1. ASSUME NEW o \in 0 .. N - 1
      PROVE  (h + o) % N \in 0 .. N - 1 /\ Back(N, h, (h + o) % N) = o
  <2>0. o \in 0 .. N
    OBVIOUS
  <2>1. PICK i \in 0 .. N - 1 : i = (h + o) % N /\ i = IF h + o < N THEN h + o ELSE h + o - N
    BY <2>0, Further
  <2>2. PICK x \in Nat : x = i - h + N /\ x < N + N
    OBVIOUS
  <2>3. x % N = IF x < N THEN x ELSE x - N
    BY <2>2, Around
  <2>4. x % N = o
    BY <2>1, <2>2, <2>3
  <2> QED
    BY <2>1, <2>2, <2>4 DEF Back
<1>2. ASSUME NEW i \in 0 .. N - 1
      PROVE  Back(N, h, i) \in 0 .. N - 1 /\ (h + Back(N, h, i)) % N = i
  <2>1. PICK x \in Nat : x = i - h + N /\ x < N + N
    OBVIOUS
  <2>2. PICK o \in 0 .. N - 1 : o = x % N /\ o = IF x < N THEN x ELSE x - N
    BY <2>1, Around
  <2>3. (h + o) % N = IF h + o < N THEN h + o ELSE h + o - N
    <3>1. o \in 0 .. N
      OBVIOUS
    <3> QED
      BY <3>1, Further
  <2>4. (h + o) % N = i
    BY <2>1, <2>2, <2>3
  <2> QED
    BY <2>1, <2>2, <2>4 DEF Back
<1> QED
    BY <1>1, <1>2

\* The head moves by n: what is at distance o from it was at distance n + o,
\* or has been passed.
LEMMA Moving ==
    ASSUME NEW N \in Nat \ {0}, NEW h \in 0 .. N - 1, NEW n \in 0 .. N, NEW o \in 0 .. N - 1
    PROVE  /\ (h + n) % N \in 0 .. N - 1
           /\ n + o < N => (((h + n) % N) + o) % N = (h + (n + o)) % N
           /\ n + o >= N => (((h + n) % N) + o) % N = (h + (n + o - N)) % N
<1>1. PICK g \in 0 .. N - 1 : g = (h + n) % N /\ g = IF h + n < N THEN h + n ELSE h + n - N
    BY Further
<1>2. PICK i \in 0 .. N - 1 : i = (g + o) % N /\ i = IF g + o < N THEN g + o ELSE g + o - N
  <2>1. o \in 0 .. N
    OBVIOUS
  <2> QED
    BY <2>1, Further
<1>3. ASSUME n + o < N
      PROVE  i = (h + (n + o)) % N
  <2>1. PICK x \in Nat : x = h + (n + o) /\ x < N + N
    BY <1>3
  <2>2. x % N = IF x < N THEN x ELSE x - N
    BY <2>1, Around
  <2>3. x % N = i
    BY <1>1, <1>2, <2>1, <2>2
  <2> QED
    BY <2>1, <2>3
<1>4. ASSUME n + o >= N
      PROVE  i = (h + (n + o - N)) % N
  <2>1. PICK x \in Nat : x = h + (n + o - N) /\ x < N + N
    BY <1>4
  <2>2. x % N = IF x < N THEN x ELSE x - N
    BY <2>1, Around
  <2>3. x % N = i
    BY <1>1, <1>2, <1>4, <2>1, <2>2
  <2> QED
    BY <2>1, <2>3
<1> QED
    BY <1>1, <1>2, <1>3, <1>4

-----------------------------------------------------------------------------
(* A channel and a ledger. *)

\* Times and their intervals.
LEMMA Later ==
    ASSUME NEW a \in Nat, NEW b \in Nat, a <= b
    PROVE  /\ a \div Interval \in Nat /\ b \div Interval \in Nat
           /\ a \div Interval <= b \div Interval
<1>1. PICK I \in Nat \ {0} : I = Interval
    BY TimingFacts
<1>2. PICK q \in Int, r \in Int : q = a \div I /\ r = b \div I
    OBVIOUS
<1>3. I * q <= a /\ a < I * (q + 1) /\ I * r <= b /\ b < I * (r + 1)
    BY <1>2
<1>4. q >= 0 /\ r >= 0
    BY <1>2
<1>5. q <= r
  <2> SUFFICES ASSUME r + 1 <= q
               PROVE  FALSE
    BY <1>2
  <2>1. I * (r + 1) <= I * q
    BY <1>2
  <2>2. PICK x \in Int, y \in Int : x = I * (r + 1) /\ y = I * q
    OBVIOUS
  <2> QED
    BY <1>3, <2>1, <2>2
<1> QED
    BY <1>1, <1>2, <1>4, <1>5

\* The channels, and the ledgers, that the time model can be in.
Channels == [head : Offs, cur_time : 0 .. Clocks, valid_len : 0 .. NrCredits, avail : [Offs -> 0 .. MaxCredits]]

Ledgers == [Intervals -> 0 .. MaxCredits]

\* The interval that the head of the ring stands for.
FirstOf(c) == c.cur_time \div Interval

\* What the entry at distance o from the head has.
EntryAt(c, o) == c.avail[(c.head + o) % NrCredits]

\* Channel c has what ledger l has left of the coming intervals, and ledger l
\* has nothing beyond what the channel has looked at.
Agrees(c, l) ==
    /\ c \in Channels /\ l \in Ledgers
    /\ \A o \in Offs : EntryAt(c, o) = MaxCredits - l[FirstOf(c) + o]
    /\ \A i \in Intervals : i >= FirstOf(c) + c.valid_len => l[i] = 0

\* The coming intervals are in the ledger.
LEMMA Coming ==
    ASSUME NEW now \in 0 .. Clocks, NEW o \in 0 .. NrCredits
    PROVE  now \div Interval \in Nat /\ now \div Interval + o \in Intervals
<1>1. now \in Nat /\ Clocks \in Nat /\ now <= Clocks /\ NrCredits \in Nat
    BY TimingFacts
<1>2. PICK k \in Nat, m \in Nat : k = now \div Interval /\ m = Clocks \div Interval /\ k <= m
    BY <1>1, Later
<1> QED
    BY <1>1, <1>2 DEF Intervals

\* Moving the head of a channel leaves what the ledger has.
LEMMA HeadMoves ==
    ASSUME NEW c, NEW l, Agrees(c, l), NEW now \in 0 .. Clocks, c.cur_time <= now,
           NEW m, m = MoveHead(c, now)
    PROVE  Agrees(m, l) /\ m.cur_time = now
<1>0. PICK N \in Nat \ {0} : N = NrCredits
    BY TimingFacts
<1>1. PICK h \in 0 .. N - 1, v \in 0 .. N, C \in Nat :
        N = NrCredits /\ h = c.head /\ v = c.valid_len /\ C = MaxCredits
  <2>1. c.head \in 0 .. NrCredits - 1 /\ c.valid_len \in 0 .. NrCredits
    BY DEF Agrees, Channels, Offs
  <2>2. NrCredits \in Nat \ {0} /\ MaxCredits \in Nat
    BY TimingFacts
  <2> QED
    BY <1>0, <2>1, <2>2
<1>2. PICK k \in Nat, k1 \in Nat : k = FirstOf(c) /\ k1 = now \div Interval /\ k <= k1
  <2>1. c.cur_time \in 0 .. Clocks /\ Clocks \in Nat
    BY TimingFacts DEF Agrees, Channels
  <2>2. c.cur_time \in Nat /\ now \in Nat
    BY <2>1
  <2> QED
    BY <2>2, Later DEF FirstOf
<1>3. PICK n \in 0 .. v : n = Elapsed(c, now) /\ n <= k1 - k /\ (n = k1 - k \/ n = v)
    BY <1>1, <1>2 DEF Elapsed, FirstOf, Lesser
<1>4. PICK passed : passed = {(h + o) % N : o \in 0 .. n - 1}
    OBVIOUS
<1>5. PICK a : a = [i \in 0 .. N - 1 |-> IF i \in passed THEN C ELSE c.avail[i]]
    OBVIOUS
<1>6. PICK g \in 0 .. N - 1 : g = (h + n) % N
  <2>1. n \in 0 .. N
    OBVIOUS
  <2> QED
    BY <2>1, Further
<1>7. m = [head |-> g, cur_time |-> now, valid_len |-> v - n, avail |-> a]
    BY <1>1, <1>3, <1>4, <1>5, <1>6 DEF MoveHead, Offs
<1>8. m.head = g /\ m.cur_time = now /\ m.valid_len = v - n /\ m.avail = a /\ FirstOf(m) = k1
    BY <1>2, <1>7 DEF FirstOf
<1>9. c.avail \in [0 .. N - 1 -> 0 .. C] /\ l \in Ledgers
    BY <1>1 DEF Agrees, Channels, Offs
<1>10. m \in Channels
  <2>1. a \in [0 .. N - 1 -> 0 .. C]
    BY <1>5, <1>9
  <2>2. v - n \in 0 .. N
    OBVIOUS
  <2> QED
    BY <1>1, <1>7, <2>1, <2>2 DEF Channels, Offs
<1>11. \A o \in 0 .. N - 1 : c.avail[(h + o) % N] = C - l[k + o]
    BY <1>1, <1>2 DEF Agrees, EntryAt, Offs
<1>12. \A i \in Intervals : i >= k + v => l[i] = 0
    BY <1>1, <1>2 DEF Agrees
<1>13. ASSUME NEW o \in 0 .. N - 1
       PROVE  a[(g + o) % N] = C - l[k1 + o]
  <2>1. k1 + o \in Intervals
    BY <1>1, <1>2, Coming
  <2>3. n \in 0 .. N /\ o \in 0 .. N
    OBVIOUS
  <2>2. PICK i \in 0 .. N - 1 : i = (g + o) % N
    BY <2>3, Further
  <2>4. CASE i \in passed
    <3>1. PICK p \in 0 .. n - 1 : i = (h + p) % N
      BY <1>4, <2>4
    <3>2. p \in 0 .. N - 1
      OBVIOUS
    <3>3. n + o >= N
      <4> SUFFICES ASSUME n + o < N
                   PROVE  FALSE
        OBVIOUS
      <4>1. n + o \in 0 .. N - 1
        OBVIOUS
      <4>2. i = (h + (n + o)) % N
        <5>1. (((h + n) % N) + o) % N = (h + (n + o)) % N
          BY <2>3, Moving
        <5> QED
          BY <1>6, <2>2, <5>1
      <4>3. Back(N, h, i) = n + o
        BY <4>1, <4>2, Distance
      <4>4. Back(N, h, i) = p
        BY <3>1, <3>2, Distance
      <4> QED
        BY <4>3, <4>4
    <3>4. k1 + o >= k + v
      BY <1>3, <3>3
    <3>5. l[k1 + o] = 0
      BY <1>12, <2>1, <3>4
    <3> QED
      BY <1>5, <2>2, <2>4, <3>5
  <2>5. CASE i \notin passed
    <3>1. n + o < N
      <4> SUFFICES ASSUME n + o >= N
                   PROVE  FALSE
        OBVIOUS
      <4>1. PICK p \in 0 .. n - 1 : p = n + o - N
        OBVIOUS
      <4>2. i = (h + p) % N
        <5>1. (((h + n) % N) + o) % N = (h + (n + o - N)) % N
          BY <2>3, Moving
        <5> QED
          BY <1>6, <2>2, <4>1, <5>1
      <4> QED
        BY <1>4, <2>5, <4>2
    <3>2. i = (h + (n + o)) % N
      <4>1. (((h + n) % N) + o) % N = (h + (n + o)) % N
        BY <2>3, <3>1, Moving
      <4> QED
        BY <1>6, <2>2, <4>1
    <3>3. PICK p \in 0 .. N - 1 : p = n + o
      BY <3>1
    <3>4. a[i] = C - l[k + p]
      BY <1>5, <1>11, <2>5, <3>2, <3>3
    <3>5. CASE n = k1 - k
      <4>1. k + p = k1 + o
        BY <3>3, <3>5
      <4> QED
        BY <2>2, <3>4, <4>1
    <3>6. CASE n = v
      <4>1. k + p >= k + v /\ k1 + o >= k + v
        BY <1>3, <3>3, <3>6
      <4>2. k + p \in Intervals
        BY <1>1, <1>2, Coming DEF FirstOf, Agrees, Channels
      <4>3. l[k + p] = 0 /\ l[k1 + o] = 0
        BY <1>12, <2>1, <4>1, <4>2
      <4> QED
        BY <2>2, <3>4, <4>3
    <3> QED
      BY <1>3, <3>5, <3>6
  <2> QED
    BY <2>4, <2>5
<1>14. ASSUME NEW i \in Intervals, i >= k1 + (v - n)
       PROVE  l[i] = 0
  <2>1. i >= k + v
    BY <1>3, <1>14 DEF Intervals
  <2> QED
    BY <1>12, <2>1
<1>15. \A o \in Offs : EntryAt(m, o) = MaxCredits - l[FirstOf(m) + o]
    BY <1>1, <1>8, <1>13 DEF EntryAt, Offs
<1> QED
    BY <1>8, <1>9, <1>10, <1>14, <1>15 DEF Agrees

\* The transfer of units is complete with e, the first place from lo on where
\* the running sum g has reached it, or hi.
Reaches(g, lo, hi, units, e) ==
    /\ e \in lo .. hi
    /\ g[e] >= units \/ e = hi
    /\ \A p \in lo .. e - 1 : g[p] < units

\* There is one such place.
LEMMA ReachesOnce ==
    ASSUME NEW lo \in Int, NEW hi \in Int, lo <= hi, NEW g \in [lo .. hi -> Int], NEW units \in Int
    PROVE  /\ \E e \in lo .. hi : Reaches(g, lo, hi, units, e)
           /\ \A e, f : Reaches(g, lo, hi, units, e) /\ Reaches(g, lo, hi, units, f) => e = f
<1>1. PICK N \in Nat : N = hi - lo /\ hi = lo + N
  <2>1. hi - lo \in Nat /\ hi = lo + (hi - lo)
    OBVIOUS
  <2> QED
    BY <2>1
<1>2. PICK T : T = {n \in 0 .. N : g[lo + n] >= units \/ n = N}
    OBVIOUS
<1>3. N \in T /\ T \in SUBSET Nat
    BY <1>2
<1>4. PICK n \in T : \A m \in T : n <= m
    BY <1>3, LeastNat
<1>5. n \in 0 .. N /\ (g[lo + n] >= units \/ n = N)
    BY <1>2
<1>6. PICK e \in lo .. hi : e = lo + n
    BY <1>1, <1>5
<1>7. ASSUME NEW p \in lo .. e - 1
      PROVE  g[p] < units
  <2>1. PICK m \in 0 .. N : m = p - lo /\ p = lo + m /\ m < n
    BY <1>1, <1>5, <1>6
  <2>2. m \notin T
    BY <1>3, <1>4, <2>1
  <2>3. p \in lo .. hi
    BY <1>1, <1>5, <1>6
  <2>4. g[p] \in Int /\ ~ (g[p] >= units)
    BY <1>2, <2>1, <2>2, <2>3
  <2> QED
    BY <2>4
<1>8. Reaches(g, lo, hi, units, e)
    BY <1>1, <1>5, <1>6, <1>7 DEF Reaches
<1>9. ASSUME NEW a, NEW b, Reaches(g, lo, hi, units, a), Reaches(g, lo, hi, units, b), a < b
      PROVE  FALSE
  <2>1. a \in lo .. b - 1 /\ a # hi
    BY <1>9 DEF Reaches
  <2>2. g[a] < units /\ g[a] >= units
    BY <1>9, <2>1 DEF Reaches
  <2>3. g[a] \in Int
    BY <2>1, <1>9 DEF Reaches
  <2> QED
    BY <2>2, <2>3
<1>10. ASSUME NEW a, NEW b, Reaches(g, lo, hi, units, a), Reaches(g, lo, hi, units, b)
       PROVE  a = b
  <2>1. a \in Int /\ b \in Int
    BY <1>10 DEF Reaches
  <2>2. ~ (a < b) /\ ~ (b < a)
    BY <1>9, <1>10
  <2> QED
    BY <2>1, <2>2
<1> QED
    BY <1>8, <1>10

\* f is g, k places further.
Shift(f, g, k, lo, hi) == \A o \in lo .. hi : f[k + o] = g[o]

\* Running sums of the same numbers, k places further: the transfer is
\* complete k places further.
LEMMA ReachesFurther ==
    ASSUME NEW lo \in Int, NEW hi \in Int, lo <= hi, NEW k \in Int, NEW g \in [lo .. hi -> Int], NEW f,
           Shift(f, g, k, lo, hi), NEW units \in Int, NEW e, Reaches(g, lo, hi, units, e)
    PROVE  Reaches(f, k + lo, k + hi, units, k + e)
<1>1. e \in lo .. hi /\ k + e \in k + lo .. k + hi /\ (e = hi <=> k + e = k + hi)
    BY DEF Reaches
<1>2. g[e] >= units \/ e = hi
    BY DEF Reaches
<1>3. f[k + e] >= units \/ k + e = k + hi
    BY <1>1, <1>2 DEF Shift
<1>4. ASSUME NEW p \in k + lo .. (k + e) - 1
      PROVE  f[p] < units
  <2>1. PICK o \in lo .. e - 1 : o = p - k /\ p = k + o
    BY <1>1
  <2>2. g[o] < units /\ o \in lo .. hi
    BY <1>1 DEF Reaches
  <2> QED
    BY <2>1, <2>2 DEF Shift
<1> QED
    BY <1>1, <1>3, <1>4 DEF Reaches

\* Running sums of the same numbers, k places further, are the same.
LEMMA RunsFurther ==
    ASSUME NEW lo \in Int, NEW hi \in Int, lo <= hi, NEW k \in Int,
           NEW v \in [lo .. hi -> Int], NEW w \in [k + lo .. k + hi -> Int],
           Shift(w, v, k, lo, hi),
           NEW g, Running(g, lo, hi, v),
           NEW f, Running(f, k + lo, k + hi, w)
    PROVE  Shift(f, g, k, lo, hi)
<1>1. g \in [lo .. hi -> Int] /\ \A o \in lo .. hi : g[o] = v[o] + IF o = lo THEN 0 ELSE g[o - 1]
    BY DEF Running
<1>2. f \in [k + lo .. k + hi -> Int]
      /\ \A i \in k + lo .. k + hi : f[i] = w[i] + IF i = k + lo THEN 0 ELSE f[i - 1]
    BY DEF Running
<1>3. PICK N \in Nat : N = hi - lo
  <2>1. hi - lo \in Nat
    OBVIOUS
  <2> QED
    BY <2>1
<1> DEFINE T == {n \in 0 .. N : f[k + (lo + n)] = g[lo + n]}
<1>4. 0 \in T
  <2>1. lo \in lo .. hi /\ k + lo \in k + lo .. k + hi /\ lo + 0 = lo /\ 0 \in 0 .. N
    BY <1>3
  <2>2. g[lo] = v[lo] + 0 /\ f[k + lo] = w[k + lo] + 0 /\ w[k + lo] = v[lo]
    BY <1>1, <1>2, <2>1 DEF Shift
  <2> QED
    BY <2>1, <2>2
<1>5. ASSUME NEW n \in 0 .. N - 1, n \in T
      PROVE  n + 1 \in T
  <2>1. PICK o \in lo .. hi : o = lo + (n + 1) /\ o # lo /\ o - 1 = lo + n
    BY <1>3
  <2>2. PICK i \in k + lo .. k + hi : i = k + o /\ i # k + lo /\ i - 1 = k + (lo + n)
    BY <2>1
  <2>3. g[o] = v[o] + g[o - 1]
    BY <1>1, <2>1
  <2>4. f[i] = w[i] + f[i - 1]
    BY <1>2, <2>2
  <2>5. w[i] = v[o]
    BY <2>2 DEF Shift
  <2>6. f[i] = g[o]
    BY <1>5, <2>1, <2>2, <2>3, <2>4, <2>5
  <2>7. n + 1 \in 0 .. N
    BY <1>3
  <2> QED
    BY <2>1, <2>2, <2>6, <2>7
<1>6. \A n \in 0 .. N : n \in T
  <2> HIDE DEF T
  <2> QED
    BY <1>4, <1>5, UpTo
<1>7. ASSUME NEW o \in lo .. hi
      PROVE  f[k + o] = g[o]
  <2>1. PICK n \in 0 .. N : lo + n = o
    BY <1>3
  <2> QED
    BY <1>6, <2>1
<1> QED
    BY <1>7 DEF Shift

\* What the entries from first on offer.
Entries(c, first) == [o \in first .. NrCredits - 1 |-> EntryAt(c, o)]

\* Offered is the running sum of what the entries still hold.
LEMMA OfferedRuns ==
    ASSUME NEW c \in Channels, NEW first \in Offs
    PROVE  /\ Entries(c, first) \in [first .. NrCredits - 1 -> 0 .. MaxCredits]
           /\ Running(Offered(c, first), first, NrCredits - 1, Entries(c, first))
<1>1. PICK N \in Nat \ {0} : N = NrCredits
    BY TimingFacts
<1>2. MaxCredits \in Nat /\ first \in Int /\ N - 1 \in Int /\ first <= N - 1 /\ c.head \in 0 .. N - 1
    BY <1>1, TimingFacts DEF Offs, Channels
<1>3. ASSUME NEW o \in first .. N - 1
      PROVE  EntryAt(c, o) \in 0 .. MaxCredits
  <2>1. o \in 0 .. N /\ o \in 0 .. N - 1
    BY <1>1, <1>2 DEF Offs
  <2>2. (c.head + o) % N \in 0 .. N - 1
    BY <1>2, <2>1, Further
  <2> QED
    BY <1>1, <2>2 DEF EntryAt, Channels, Offs
<1>4. PICK v : v = Entries(c, first)
    OBVIOUS
<1>5. v \in [first .. N - 1 -> 0 .. MaxCredits] /\ v \in [first .. N - 1 -> Int]
      /\ \A o \in first .. N - 1 : v[o] = c.avail[(c.head + o) % N]
    BY <1>1, <1>3, <1>4 DEF Entries, EntryAt
<1> DEFINE It(h) == h = [o \in first .. (NrCredits - 1) |->
                            c.avail[(c.head + o) % NrCredits] + IF o = first THEN 0 ELSE h[o - 1]]
<1>6. ASSUME NEW h
      PROVE  It(h) <=> Runs(h, first, N - 1, v)
    BY <1>1, <1>5 DEF Runs
<1>7. \E h : Runs(h, first, N - 1, v)
    BY <1>2, <1>5, RunsExist
<1>8. Offered(c, first) = CHOOSE h : It(h)
    BY DEF Offered
<1>9. It(CHOOSE h : It(h))
  <2>1. \E h : It(h)
    BY <1>6, <1>7
  <2> HIDE DEF It
  <2> QED
    BY <2>1
<1>10. Runs(Offered(c, first), first, N - 1, v)
  <2> HIDE DEF It
  <2> QED
    BY <1>6, <1>8, <1>9
<1>11. Running(Offered(c, first), first, N - 1, v)
    BY <1>2, <1>5, <1>10, TheRuns
<1> QED
    BY <1>1, <1>4, <1>5, <1>11

\* The last entry that a transfer takes from.
LEMMA LastReaches ==
    ASSUME NEW c \in Channels, NEW first \in Offs, NEW units \in Int
    PROVE  Reaches(Offered(c, first), first, NrCredits - 1, units, LastTaken(c, first, units))
<1>1. PICK N \in Nat \ {0} : N = NrCredits
    BY TimingFacts
<1>2. PICK g : g = Offered(c, first)
    OBVIOUS
<1>3. first \in Int /\ N - 1 \in Int /\ first <= N - 1
    BY <1>1 DEF Offs
<1>4. g \in [first .. N - 1 -> Int]
    BY <1>1, <1>2, OfferedRuns DEF Running
<1>5. \E o \in first .. N - 1 : Reaches(g, first, N - 1, units, o)
    BY <1>3, <1>4, ReachesOnce
<1> DEFINE Is(o) == /\ Offered(c, first)[o] >= units \/ o = NrCredits - 1
                    /\ \A p \in first .. (o - 1) : Offered(c, first)[p] < units
<1>6. LastTaken(c, first, units) = CHOOSE o \in first .. (NrCredits - 1) : Is(o)
    BY DEF LastTaken
<1>7. \A o \in first .. N - 1 : Reaches(g, first, N - 1, units, o) <=> Is(o)
    BY <1>1, <1>2 DEF Reaches
<1> HIDE DEF Is
<1>8. PICK e : e = CHOOSE o \in first .. (NrCredits - 1) : Is(o)
    OBVIOUS
<1>9. e \in first .. N - 1 /\ Is(e)
    BY <1>1, <1>5, <1>7, <1>8
<1> QED
    BY <1>1, <1>2, <1>6, <1>7, <1>8, <1>9

\* What the intervals of the ledger have left.
Lefts(l, lo, hi) == [i \in lo .. hi |-> MaxCredits - l[i]]

\* LedgerLeft is the running sum of what the intervals still hold.
LEMMA LeftRuns ==
    ASSUME NEW l \in Ledgers, NEW lo \in Int, NEW hi \in Int, lo <= hi, lo .. hi \subseteq Intervals
    PROVE  /\ Lefts(l, lo, hi) \in [lo .. hi -> Int]
           /\ Running(LedgerLeft(l, lo, hi), lo, hi, Lefts(l, lo, hi))
<1>1. \A i \in lo .. hi : MaxCredits - l[i] \in Int
    BY TimingFacts DEF Ledgers
<1>2. PICK v : v = Lefts(l, lo, hi)
    OBVIOUS
<1>3. v \in [lo .. hi -> Int] /\ \A i \in lo .. hi : v[i] = MaxCredits - l[i]
    BY <1>1, <1>2 DEF Lefts
<1> DEFINE It(h) == h = [i \in lo .. hi |-> MaxCredits - l[i] + IF i = lo THEN 0 ELSE h[i - 1]]
<1>4. ASSUME NEW h
      PROVE  It(h) <=> Runs(h, lo, hi, v)
    BY <1>3 DEF Runs
<1>5. \E h : Runs(h, lo, hi, v)
    BY <1>3, RunsExist
<1>6. LedgerLeft(l, lo, hi) = CHOOSE h : It(h)
    BY DEF LedgerLeft
<1>7. It(CHOOSE h : It(h))
  <2>1. \E h : It(h)
    BY <1>4, <1>5
  <2> HIDE DEF It
  <2> QED
    BY <2>1
<1>8. Runs(LedgerLeft(l, lo, hi), lo, hi, v)
  <2> HIDE DEF It
  <2> QED
    BY <1>4, <1>6, <1>7
<1>9. Running(LedgerLeft(l, lo, hi), lo, hi, v)
    BY <1>3, <1>8, TheRuns
<1> QED
    BY <1>2, <1>3, <1>9

\* LedgerEnd is the first interval that completes the transfer, or the last one.
LEMMA EndReaches ==
    ASSUME NEW l \in Ledgers, NEW lo \in Int, NEW hi \in Int, lo <= hi, lo .. hi \subseteq Intervals,
           NEW units \in Int
    PROVE  Reaches(LedgerLeft(l, lo, hi), lo, hi, units, LedgerEnd(l, lo, hi, units))
<1>1. PICK g : g = LedgerLeft(l, lo, hi)
    OBVIOUS
<1>2. g \in [lo .. hi -> Int]
    BY <1>1, LeftRuns DEF Running
<1>3. \E o \in lo .. hi : Reaches(g, lo, hi, units, o)
    BY <1>2, ReachesOnce
<1> DEFINE Is(i) == /\ LedgerLeft(l, lo, hi)[i] >= units \/ i = hi
                    /\ \A j \in lo .. (i - 1) : LedgerLeft(l, lo, hi)[j] < units
<1>4. LedgerEnd(l, lo, hi, units) = CHOOSE i \in lo .. hi : Is(i)
    BY DEF LedgerEnd
<1>5. \A o \in lo .. hi : Reaches(g, lo, hi, units, o) <=> Is(o)
    BY <1>1 DEF Reaches
<1> HIDE DEF Is
<1>6. PICK e : e = CHOOSE i \in lo .. hi : Is(i)
    OBVIOUS
<1>7. e \in lo .. hi /\ Is(e)
    BY <1>3, <1>5, <1>6
<1> QED
    BY <1>1, <1>4, <1>5, <1>6, <1>7

\* The ring and the ledger offer the same, and end a transfer at the same place.
LEMMA SameOffer ==
    ASSUME NEW c, NEW l, Agrees(c, l), NEW first \in Offs, NEW units \in Int,
           NEW k, k = FirstOf(c), NEW lo, lo = k + first, NEW hi, hi = k + (NrCredits - 1)
    PROVE  /\ k \in Nat /\ lo .. hi \subseteq Intervals
           /\ \A o \in first .. NrCredits - 1 : LedgerLeft(l, lo, hi)[k + o] = Offered(c, first)[o]
           /\ LedgerEnd(l, lo, hi, units) = k + LastTaken(c, first, units)
<1>1. PICK N \in Nat \ {0} : N = NrCredits
    BY TimingFacts
<1>2. c \in Channels /\ l \in Ledgers /\ first \in 0 .. N - 1 /\ c.cur_time \in 0 .. Clocks
    BY <1>1 DEF Agrees, Offs, Channels
<1>3. k \in Nat /\ \A o \in 0 .. N : k + o \in Intervals
    BY <1>1, <1>2, Coming DEF FirstOf
<1>4. PICK n \in Int : n = N - 1 /\ first <= n
    BY <1>1, <1>2
<1>5. PICK a \in Int, b \in Int : a = k + first /\ b = k + n /\ a <= b /\ a = lo /\ b = hi
    BY <1>1, <1>2, <1>3, <1>4
<1>6. a .. b \subseteq Intervals
  <2> SUFFICES ASSUME NEW i \in a .. b
               PROVE  i \in Intervals
    OBVIOUS
  <2>1. PICK o \in 0 .. N : i = k + o
    <3>1. i - k \in 0 .. N /\ i = k + (i - k)
      BY <1>2, <1>3, <1>4, <1>5
    <3> QED
      BY <3>1
  <2> QED
    BY <1>3, <2>1
<1>7. PICK v, w : v = Entries(c, first) /\ w = Lefts(l, a, b)
    OBVIOUS
<1>8. PICK g, f : g = Offered(c, first) /\ f = LedgerLeft(l, a, b)
    OBVIOUS
<1>9. v \in [first .. n -> 0 .. MaxCredits] /\ Running(g, first, n, v)
    BY <1>1, <1>2, <1>4, <1>7, <1>8, OfferedRuns
<1>10. v \in [first .. n -> Int] /\ g \in [first .. n -> Int]
    BY <1>9 DEF Running
<1>11. w \in [k + first .. k + n -> Int] /\ Running(f, k + first, k + n, w)
    BY <1>2, <1>5, <1>6, <1>7, <1>8, LeftRuns
<1>12. Shift(w, v, k, first, n)
  <2> SUFFICES ASSUME NEW o \in first .. n
               PROVE  w[k + o] = v[o]
    BY DEF Shift
  <2>1. o \in Offs /\ k + o \in a .. b
    BY <1>1, <1>2, <1>3, <1>4, <1>5 DEF Offs
  <2>2. v[o] = EntryAt(c, o)
    BY <1>1, <1>4, <1>7 DEF Entries
  <2>3. w[k + o] = MaxCredits - l[k + o]
    BY <1>7, <2>1 DEF Lefts
  <2>4. EntryAt(c, o) = MaxCredits - l[k + o]
    BY <2>1 DEF Agrees
  <2> QED
    BY <2>2, <2>3, <2>4
<1>13. Shift(f, g, k, first, n)
  <2>1. first \in Int /\ n \in Int /\ k \in Int /\ first <= n
    BY <1>2, <1>3, <1>4
  <2> QED
    BY <1>9, <1>10, <1>11, <1>12, <2>1, RunsFurther
<1>14. PICK e : e = LastTaken(c, first, units) /\ Reaches(g, first, n, units, e)
    BY <1>1, <1>2, <1>4, <1>8, LastReaches
<1>15. Reaches(f, k + first, k + n, units, k + e)
  <2>1. first \in Int /\ n \in Int /\ k \in Int /\ first <= n
    BY <1>2, <1>3, <1>4
  <2> QED
    BY <1>10, <1>13, <1>14, <2>1, ReachesFurther
<1>16. PICK x : x = LedgerEnd(l, a, b, units) /\ Reaches(f, a, b, units, x)
    BY <1>2, <1>5, <1>6, <1>8, EndReaches
<1>17. f \in [a .. b -> Int]
    BY <1>5, <1>11 DEF Running
<1>18. Reaches(f, a, b, units, k + e)
    BY <1>5, <1>15
<1>19. x = k + e
    BY <1>5, <1>16, <1>17, <1>18, ReachesOnce
<1> QED
    BY <1>1, <1>3, <1>4, <1>5, <1>6, <1>8, <1>13, <1>14, <1>16, <1>19 DEF Shift

\* What an entry keeps and what the ledger notes when x is taken.
Keeps(a, x) == a - Lesser(a, x)
Notes(M, t, x) == Lesser(M, t + x)

\* An interval with M in all of which t are taken: they go together.
LEMMA GiveAndNote ==
    ASSUME NEW M \in Nat, NEW t \in 0 .. M, NEW x \in Int, x > 0
    PROVE  /\ Keeps(M - t, x) = M - Notes(M, t, x)
           /\ Keeps(M - t, x) \in 0 .. M /\ Notes(M, t, x) \in 0 .. M
BY DEF Lesser, Keeps, Notes

\* Places k further.
LEMMA Along ==
    ASSUME NEW k \in Nat, NEW first \in Nat, NEW e \in Nat
    PROVE  /\ \A i \in k + first .. k + e : /\ i - k \in first .. e /\ k + (i - k) = i
                                             /\ i = k + first <=> i - k = first
                                             /\ i - 1 = k + ((i - k) - 1)
           /\ \A o \in Nat : /\ k + o \in k + first .. k + e <=> o \in first .. e
                              /\ (k + o) - k = o
OBVIOUS

\* What is beyond the new end is beyond the old one and the transfer's.
LEMMA BeyondAll ==
    ASSUME NEW k \in Nat, NEW v \in Int, NEW e \in Int, NEW w \in Int, w >= v, w >= e + 1,
           NEW i \in Int, i >= k + w
    PROVE  i >= k + v /\ ~ (i <= k + e)
OBVIOUS

\* What is left of a transfer from first on when it comes to entry o.
LeftAt(c, first, units, o) == units - IF o = first THEN 0 ELSE Offered(c, first)[o - 1]

\* At every entry that a transfer takes from, some of it is left.
LEMMA LeftPositive ==
    ASSUME NEW c \in Channels, NEW first \in Offs, NEW units \in Nat \ {0},
           NEW o \in first .. LastTaken(c, first, units)
    PROVE  LeftAt(c, first, units, o) \in Int /\ LeftAt(c, first, units, o) > 0
<1>1. PICK N \in Nat \ {0} : N = NrCredits
    BY TimingFacts
<1>2. PICK g : g = Offered(c, first)
    OBVIOUS
<1>3. first \in Int /\ N - 1 \in Int /\ g \in [first .. N - 1 -> Int]
    BY <1>1, <1>2, OfferedRuns DEF Running, Offs
<1>4. PICK e \in first .. N - 1 : e = LastTaken(c, first, units) /\ Reaches(g, first, N - 1, units, e)
    BY <1>1, <1>2, LastReaches DEF Reaches
<1>5. CASE o = first
    BY <1>5 DEF LeftAt
<1>6. CASE o # first
  <2>1. o - 1 \in first .. e - 1 /\ o - 1 \in first .. N - 1
    BY <1>3, <1>4, <1>6
  <2>2. g[o - 1] < units /\ g[o - 1] \in Int
    BY <1>3, <1>4, <2>1 DEF Reaches
  <2>3. LeftAt(c, first, units, o) = units - g[o - 1]
    BY <1>2, <1>6 DEF LeftAt
  <2> QED
    BY <2>2, <2>3
<1> QED
    BY <1>5, <1>6

\* The ledger after a transfer of units from interval lo on.
Noted(l, lo, hi, units) ==
    [i \in DOMAIN l |->
        IF i \in lo .. LedgerEnd(l, lo, hi, units)
        THEN Lesser(MaxCredits, l[i] + units - (IF i = lo THEN 0 ELSE LedgerLeft(l, lo, hi)[i - 1]))
        ELSE l[i]]

\* A transfer takes from the ring what it notes in the ledger.
LEMMA TakeAgrees ==
    ASSUME NEW c, NEW l, Agrees(c, l), NEW first \in Offs, NEW units \in Nat \ {0},
           NEW k, k = FirstOf(c),
           NEW r, r = Take(c, first, units),
           NEW x, x = Noted(l, k + first, k + (NrCredits - 1), units)
    PROVE  Agrees(r, x) /\ r.cur_time = c.cur_time
<1>0. PICK N \in Nat \ {0} : N = NrCredits
    BY TimingFacts
<1>1. PICK h \in 0 .. N - 1, v \in 0 .. N, C \in Nat : h = c.head /\ v = c.valid_len /\ C = MaxCredits
  <2>1. c.head \in 0 .. NrCredits - 1 /\ c.valid_len \in 0 .. NrCredits
    BY DEF Agrees, Channels, Offs
  <2> QED
    BY <1>0, <2>1, TimingFacts
<1>2. PICK lo \in Int, hi \in Int : lo = k + first /\ hi = k + (N - 1) /\ k \in Nat
                                    /\ lo .. hi \subseteq Intervals
  <2>1. k \in Nat
    BY SameOffer
  <2>2. k + first \in Int /\ k + (N - 1) \in Int
    BY <1>0, <2>1 DEF Offs
  <2> QED
    BY <1>0, <2>1, <2>2, SameOffer
<1>3. c \in Channels /\ l \in Ledgers /\ c.avail \in [0 .. N - 1 -> 0 .. C] /\ first \in 0 .. N - 1
    BY <1>0, <1>1 DEF Agrees, Channels, Offs
<1>4. PICK e \in first .. N - 1 : e = LastTaken(c, first, units)
    BY <1>0, <1>3, LastReaches DEF Reaches
<1>5. LedgerEnd(l, lo, hi, units) = k + e
      /\ \A o \in first .. N - 1 : LedgerLeft(l, lo, hi)[k + o] = Offered(c, first)[o]
    BY <1>0, <1>2, <1>4, SameOffer
<1> DEFINE given(o) == Keeps(EntryAt(c, o), LeftAt(c, first, units, o))
           noted(o) == Notes(C, l[k + o], LeftAt(c, first, units, o))
<1>6. \A o \in 0 .. N - 1 : /\ k + o \in Intervals /\ l[k + o] \in 0 .. C
                            /\ EntryAt(c, o) = C - l[k + o]
  <2> SUFFICES ASSUME NEW o \in 0 .. N - 1
               PROVE  k + o \in Intervals /\ l[k + o] \in 0 .. C /\ EntryAt(c, o) = C - l[k + o]
    OBVIOUS
  <2>1. c.cur_time \in 0 .. Clocks /\ o \in 0 .. NrCredits /\ o \in Offs
    BY <1>0, <1>3 DEF Channels, Offs
  <2>2. k + o \in Intervals
    BY <2>1, Coming DEF FirstOf
  <2> QED
    BY <1>1, <1>3, <2>1, <2>2 DEF Ledgers, Agrees
<1>7. \A o \in first .. e : given(o) = C - noted(o) /\ given(o) \in 0 .. C /\ noted(o) \in 0 .. C
  <2> SUFFICES ASSUME NEW o \in first .. e
               PROVE  given(o) = C - noted(o) /\ given(o) \in 0 .. C /\ noted(o) \in 0 .. C
    OBVIOUS
  <2>1. PICK y \in Int : y = LeftAt(c, first, units, o) /\ y > 0
    BY <1>3, <1>4, LeftPositive
  <2>2. o \in 0 .. N - 1
    BY <1>3, <1>4
  <2>3. PICK t \in 0 .. C : t = l[k + o] /\ EntryAt(c, o) = C - t
    BY <1>6, <2>2
  <2>4. Keeps(C - t, y) = C - Notes(C, t, y) /\ Keeps(C - t, y) \in 0 .. C /\ Notes(C, t, y) \in 0 .. C
    BY <2>1, <2>3, GiveAndNote
  <2> QED
    BY <2>1, <2>3, <2>4
<1>8. PICK a : a = [i \in 0 .. N - 1 |-> IF Back(N, h, i) \in first .. e THEN given(Back(N, h, i)) ELSE c.avail[i]]
    OBVIOUS
<1>9. \A i \in 0 .. N - 1 : Back(N, h, i) \in 0 .. N - 1 /\ c.avail[i] = EntryAt(c, Back(N, h, i))
  <2> SUFFICES ASSUME NEW i \in 0 .. N - 1
               PROVE  Back(N, h, i) \in 0 .. N - 1 /\ c.avail[i] = EntryAt(c, Back(N, h, i))
    OBVIOUS
  <2>1. PICK o : o = Back(N, h, i)
    OBVIOUS
  <2>2. o \in 0 .. N - 1 /\ (h + o) % N = i
    BY <2>1, Distance
  <2>3. EntryAt(c, o) = c.avail[(h + o) % N]
    BY <1>0, <1>1 DEF EntryAt
  <2> QED
    BY <2>1, <2>2, <2>3
<1>away. \A i \in k + first .. k + e : /\ i - k \in first .. e /\ k + (i - k) = i
                                       /\ i = k + first <=> i - k = first
                                       /\ i - 1 = k + ((i - k) - 1)
  <2>1. first \in Nat /\ e \in Nat /\ k \in Nat
    BY <1>2, <1>3
  <2> QED
    BY <2>1, Along
<1>back. \A o \in Nat : (k + o \in k + first .. k + e <=> o \in first .. e) /\ (k + o) - k = o
  <2>1. first \in Nat /\ e \in Nat /\ k \in Nat
    BY <1>2, <1>3
  <2> QED
    BY <2>1, Along
<1>10. PICK w : w = Greater(v, e + 1) /\ w \in 0 .. N /\ w >= v /\ w >= e + 1
  <2>1. e + 1 \in 0 .. N
    BY <1>3, <1>4
  <2> QED
    BY <2>1 DEF Greater
<1>11. r = [c EXCEPT !.avail = a, !.valid_len = w]
  <2>1. \A i \in 0 .. N - 1 :
          (IF (i - c.head + NrCredits) % NrCredits \in first .. LastTaken(c, first, units)
           THEN c.avail[i] - Lesser(c.avail[i], units - IF (i - c.head + NrCredits) % NrCredits = first THEN 0
                                      ELSE Offered(c, first)[((i - c.head + NrCredits) % NrCredits) - 1])
           ELSE c.avail[i]) = a[i]
    <3> SUFFICES ASSUME NEW i \in 0 .. N - 1
                 PROVE  (IF (i - c.head + NrCredits) % NrCredits \in first .. LastTaken(c, first, units)
                         THEN c.avail[i] - Lesser(c.avail[i], units - IF (i - c.head + NrCredits) % NrCredits = first THEN 0
                                      ELSE Offered(c, first)[((i - c.head + NrCredits) % NrCredits) - 1])
                         ELSE c.avail[i]) = a[i]
      OBVIOUS
    <3>1. PICK o : o = Back(N, h, i) /\ o = (i - c.head + NrCredits) % NrCredits
      BY <1>0, <1>1 DEF Back
    <3> QED
      BY <1>4, <1>8, <1>9, <3>1 DEF LeftAt, Keeps
  <2> QED
    BY <1>0, <1>1, <1>4, <1>8, <1>10, <2>1 DEF Take, ValidLength, Offs
<1> HIDE DEF given, noted
<1>12. r \in Channels /\ r.head = h /\ r.cur_time = c.cur_time /\ r.valid_len = w /\ r.avail = a /\ FirstOf(r) = k
  <2>1. a \in [0 .. N - 1 -> 0 .. C]
    BY <1>3, <1>7, <1>8
  <2> QED
    BY <1>0, <1>1, <1>10, <1>11, <2>1 DEF Agrees, Channels, Offs, FirstOf
<1>13. \A o \in 0 .. N - 1 : EntryAt(r, o) = IF o \in first .. e THEN given(o) ELSE EntryAt(c, o)
  <2> SUFFICES ASSUME NEW o \in 0 .. N - 1
               PROVE  EntryAt(r, o) = IF o \in first .. e THEN given(o) ELSE EntryAt(c, o)
    OBVIOUS
  <2>1. PICK i \in 0 .. N - 1 : i = (h + o) % N /\ Back(N, h, i) = o
    BY Distance
  <2>2. EntryAt(r, o) = a[i]
    BY <1>0, <1>12, <2>1 DEF EntryAt
  <2> QED
    BY <1>8, <1>9, <2>1, <2>2
<1>14. DOMAIN x = Intervals /\ \A i \in Intervals : x[i] = IF i \in lo .. k + e THEN noted(i - k) ELSE l[i]
  <2>1. DOMAIN l = Intervals
    BY <1>3 DEF Ledgers
  <2>2. x = [i \in Intervals |->
               IF i \in lo .. k + e
               THEN Lesser(C, l[i] + units - (IF i = lo THEN 0 ELSE LedgerLeft(l, lo, hi)[i - 1])) ELSE l[i]]
    BY <1>0, <1>1, <1>2, <1>5, <2>1 DEF Noted
  <2>3. ASSUME NEW i \in lo .. k + e
        PROVE  l[i] + units - (IF i = lo THEN 0 ELSE LedgerLeft(l, lo, hi)[i - 1])
                 = l[i] + LeftAt(c, first, units, i - k)
    <3>1. PICK o \in first .. e : o = i - k /\ i = k + o /\ (i = lo <=> o = first)
      BY <1>2, <1>away
    <3>2. PICK y \in Int : y = LeftAt(c, first, units, o)
      BY <1>3, <1>4, LeftPositive
    <3>3. o \in 0 .. N - 1
      BY <1>3, <1>4
    <3>4. PICK t \in Int : t = l[i]
      BY <1>6, <3>1, <3>3
    <3>5. CASE o = first
      BY <3>1, <3>2, <3>4, <3>5 DEF LeftAt
    <3>6. CASE o # first
      <4>1. PICK p \in first .. N - 1 : p = o - 1 /\ i - 1 = k + p
        <5>1. i - 1 = k + ((i - k) - 1)
          BY <1>away, <1>2
        <5>2. PICK p : p = o - 1
          OBVIOUS
        <5>3. p \in first .. N - 1
          BY <1>3, <3>3, <3>6, <5>2
        <5> QED
          BY <3>1, <5>1, <5>2, <5>3
      <4>2. PICK z : z = LedgerLeft(l, lo, hi)[i - 1] /\ z = Offered(c, first)[o - 1]
        BY <1>5, <4>1
      <4>3. z \in Int
        <5>1. Offered(c, first) \in [first .. N - 1 -> Int]
          BY <1>0, <1>3, OfferedRuns DEF Running
        <5> QED
          BY <4>1, <4>2, <5>1
      <4>4. y = units - z
        BY <3>2, <3>6, <4>2 DEF LeftAt
      <4> QED
        BY <3>1, <3>2, <3>4, <3>6, <4>2, <4>3, <4>4
    <3> QED
      BY <3>5, <3>6
  <2>4. ASSUME NEW i \in lo .. k + e
        PROVE  k + (i - k) = i
    BY <1>2, <1>away
  <2> QED
    BY <2>2, <2>3, <2>4 DEF noted, Notes
<1>15. x \in Ledgers
  <2>1. ASSUME NEW i \in Intervals
        PROVE  x[i] \in 0 .. C
    <3>1. CASE i \in lo .. k + e
      <4>1. PICK o \in first .. e : o = i - k
        BY <1>2, <1>away, <3>1
      <4> QED
        BY <1>7, <1>14, <3>1, <4>1
    <3>2. CASE i \notin lo .. k + e
      BY <1>1, <1>3, <1>14, <3>2 DEF Ledgers
    <3> QED
      BY <3>1, <3>2
  <2>2. x = [i \in Intervals |-> x[i]]
    BY <1>14 DEF Noted
  <2> QED
    BY <1>1, <2>1, <2>2 DEF Ledgers
<1>16. ASSUME NEW o \in 0 .. N - 1
       PROVE  EntryAt(r, o) = C - x[k + o]
  <2>0. o \in Nat
    OBVIOUS
  <2>1. k + o \in Intervals /\ (k + o \in lo .. k + e <=> o \in first .. e) /\ (k + o) - k = o
    BY <1>2, <1>6, <1>back, <2>0
  <2> QED
    BY <1>6, <1>7, <1>13, <1>14, <2>1
<1>17. ASSUME NEW i \in Intervals, i >= k + w
       PROVE  x[i] = 0
  <2>0. i \in Int /\ k \in Nat /\ v \in Int /\ e \in Int /\ w \in Int
    BY <1>2, <1>3, <1>10, <1>17 DEF Intervals
  <2>1. i >= k + v /\ ~ (i <= k + e)
    BY <1>10, <1>17, <2>0, BeyondAll
  <2>2. x[i] = l[i]
    BY <1>2, <1>14, <2>0, <2>1
  <2> QED
    BY <1>1, <2>1, <2>2 DEF Agrees
<1> QED
    BY <1>0, <1>1, <1>12, <1>15, <1>16, <1>17 DEF Agrees, Offs

\* A transfer is over at a time, and never before it begins.
LEMMA EndIsLater ==
    ASSUME NEW t \in Nat, NEW units \in Nat, NEW delay \in Int
    PROVE  EndOfTransfer(t, units, delay) \in Nat /\ EndOfTransfer(t, units, delay) >= t
<1>1. PICK I \in Nat, X \in Nat, C \in Nat \ {0} : I = Interval /\ X = XferLat /\ C = MaxCredits
    BY TimingFacts
<1>2. units \div C \in Int
    OBVIOUS
<1>3. PICK d \in Nat : d = Greater(delay - units \div C, 0)
    BY <1>2 DEF Greater
<1>4. PICK a \in Nat : a = X * units
    OBVIOUS
<1>5. PICK b \in Nat : b = I * d
    OBVIOUS
<1>6. EndOfTransfer(t, units, delay) = t + a + b
    BY <1>1, <1>3, <1>4, <1>5 DEF EndOfTransfer
<1> QED
    BY <1>6

\* What a request does to a channel it does to the ledger, and the times they
\* answer are the same.
LEMMA RequestAgrees ==
    ASSUME NEW c, NEW l, Agrees(c, l), NEW now \in 0 .. Clocks, c.cur_time <= now,
           NEW t \in Nat, NEW units \in Nat \ {0},
           NEW r, r = chmodel_request(c, now, t, units),
           NEW x, x = LedgerTakes(l, now, t, units)
    PROVE  /\ Agrees(r.ch, x.ledger) /\ r.ch.cur_time = now
           /\ r.time = x.time /\ r.time \in Nat /\ r.time >= t
<1>0. PICK N \in Nat \ {0} : N = NrCredits
    BY TimingFacts
<1>1. PICK m : m = MoveHead(c, now)
    OBVIOUS
<1>2. Agrees(m, l) /\ m.cur_time = now
    BY <1>1, HeadMoves
<1>3. PICK k \in Nat : k = now \div Interval /\ k = FirstOf(m)
  <2>1. now \in Nat
    BY TimingFacts
  <2> QED
    BY <1>2, <2>1, Later DEF FirstOf
<1>4. PICK q \in Nat : q = t \div Interval
    BY Later
<1>5. PICK first \in Int : first = q - k /\ q = k + first
    OBVIOUS
<1>6. PICK hi \in Int : hi = k + (N - 1) /\ hi = (now \div Interval) + NrCredits - 1
    BY <1>0, <1>3
<1>7. CASE t < now \/ first >= N
  <2>1. t < now \/ q > hi
    BY <1>5, <1>6, <1>7
  <2>2. r = [ch |-> m, time |-> t]
    BY <1>0, <1>1, <1>3, <1>4, <1>5, <1>7 DEF chmodel_request
  <2>3. x = [ledger |-> l, time |-> t]
    BY <1>4, <1>6, <2>1 DEF LedgerTakes
  <2> QED
    BY <1>2, <2>2, <2>3
<1>8. CASE ~ (t < now \/ first >= N)
  <2>1. first \in 0 .. N - 1 /\ first \in Offs
    <3>1. now \in Nat /\ now <= t
      BY <1>8, TimingFacts
    <3>2. k <= q
      BY <1>3, <1>4, <3>1, Later
    <3>3. first \in 0 .. N - 1
      BY <1>5, <1>8, <3>2
    <3> QED
      BY <1>0, <3>3 DEF Offs
  <2>2. ~ (t < now \/ q > hi)
    BY <1>5, <1>6, <1>8, <2>1
  <2>3. PICK w : w = Take(m, first, units)
    OBVIOUS
  <2>4. PICK y : y = Noted(l, q, hi, units)
    OBVIOUS
  <2>5. Agrees(w, y) /\ w.cur_time = now
    <3>1. hi = k + (NrCredits - 1)
      BY <1>0, <1>6
    <3>2. y = Noted(l, k + first, k + (NrCredits - 1), units)
      BY <1>5, <2>4, <3>1
    <3> QED
      BY <1>2, <1>3, <2>1, <2>3, <3>2, TakeAgrees
  <2>6. PICK e \in Int : e = LastTaken(m, first, units)
    <3>1. m \in Channels /\ units \in Int
      BY <1>2 DEF Agrees
    <3>2. LastTaken(m, first, units) \in first .. N - 1
      BY <1>0, <2>1, <3>1, LastReaches DEF Reaches
    <3> QED
      BY <1>5, <3>2
  <2>7. LedgerEnd(l, q, hi, units) = k + e
    <3>1. hi = k + (NrCredits - 1) /\ units \in Int
      BY <1>0, <1>6
    <3> QED
      BY <1>2, <1>3, <1>5, <2>1, <2>6, <3>1, SameOffer
  <2>8. r = [ch |-> w, time |-> EndOfTransfer(t, units, e - first)]
    BY <1>0, <1>1, <1>3, <1>4, <1>5, <1>8, <2>3, <2>6 DEF chmodel_request
  <2>9. x = [ledger |-> y, time |-> EndOfTransfer(t, units, (k + e) - q)]
    BY <1>4, <1>6, <2>2, <2>4, <2>7 DEF LedgerTakes, Noted
  <2>10. (k + e) - q = e - first
    BY <1>5
  <2>11. EndOfTransfer(t, units, e - first) \in Nat /\ EndOfTransfer(t, units, e - first) >= t
    <3>1. units \in Nat /\ e - first \in Int
      OBVIOUS
    <3> QED
      BY <3>1, EndIsLater
  <2> QED
    BY <2>5, <2>8, <2>9, <2>10, <2>11
<1> QED
    BY <1>7, <1>8

\* A ledger that forgets what is past still agrees with the channel.
LEMMA ForgetAgrees ==
    ASSUME NEW c, NEW l, Agrees(c, l), NEW k, k = FirstOf(c),
           NEW y, y = [i \in Intervals |-> IF i < k THEN 0 ELSE l[i]]
    PROVE  Agrees(c, y)
<1>0. PICK N \in Nat \ {0}, C \in Nat : N = NrCredits /\ C = MaxCredits
    BY TimingFacts
<1>1. c \in Channels /\ l \in Ledgers /\ c.cur_time \in 0 .. Clocks
    BY DEF Agrees, Channels
<1>2. y \in Ledgers
  <2>1. ASSUME NEW i \in Intervals
        PROVE  y[i] \in 0 .. C
    BY <1>0, <1>1 DEF Ledgers
  <2> QED
    BY <1>0, <2>1 DEF Ledgers
<1>3. k \in Nat /\ \A o \in 0 .. N : k + o \in Intervals
    BY <1>0, <1>1, Coming DEF FirstOf
<1>4. ASSUME NEW o \in 0 .. N - 1
      PROVE  EntryAt(c, o) = C - y[k + o]
  <2>1. EntryAt(c, o) = C - l[k + o]
    BY <1>0 DEF Agrees, Offs
  <2>2. k + o \in Intervals /\ ~ (k + o < k)
    BY <1>3
  <2> QED
    BY <2>1, <2>2
<1>5. ASSUME NEW i \in Intervals, i >= k + c.valid_len
      PROVE  y[i] = 0
    BY <1>5 DEF Agrees
<1> QED
    BY <1>0, <1>1, <1>2, <1>4, <1>5 DEF Agrees, Offs

\* A finite set of numbers has a greatest one.
LEMMA Greatest ==
    ASSUME NEW S \in SUBSET Nat, IsFiniteSet(S), S # {}
    PROVE  \E n \in S : \A m \in S : m <= n
<1> DEFINE Tops(s) == s = {} \/ \E n \in s : \A m \in s : m <= n
           T == {n \in 0 .. Cardinality(S) : \A s \in SUBSET S : Cardinality(s) = n => Tops(s)}
<1>0. Cardinality(S) \in Nat
    BY Sizes
<1>1. 0 \in T
    BY <1>0, Sizes
<1>2. ASSUME NEW n \in 0 .. Cardinality(S) - 1, n \in T
      PROVE  n + 1 \in T
  <2>1. n + 1 \in 0 .. Cardinality(S) /\ n \in Nat /\ n + 1 # 0
    BY <1>0
  <2>2. ASSUME NEW s \in SUBSET S, Cardinality(s) = n + 1
        PROVE  Tops(s)
    <3>1. PICK x \in s : TRUE
      BY <2>1, <2>2, Sizes
    <3>2. PICK r : r = s \ {x}
      OBVIOUS
    <3>3. Cardinality(r) = n /\ r \in SUBSET S
      <4>1. Cardinality(s \ {x}) = Cardinality(s) - 1
        BY <2>2, <3>1, Sizes
      <4>2. (n + 1) - 1 = n
        BY <2>1
      <4> QED
        BY <2>2, <3>2, <4>1, <4>2
    <3>4. Tops(r)
      BY <1>2, <3>3
    <3>5. x \in Nat /\ r \in SUBSET Nat
      BY <3>3
    <3>6. CASE r = {}
      BY <3>1, <3>2, <3>5, <3>6
    <3>7. CASE r # {}
      <4>1. PICK y \in r : \A m \in r : m <= y
        BY <3>4, <3>7
      <4>2. PICK z \in s : z \in Nat /\ z >= x /\ z >= y
        BY <3>1, <3>2, <3>5, <4>1
      <4>3. ASSUME NEW m \in s
            PROVE  m <= z
        BY <3>2, <3>5, <4>1, <4>2
      <4> QED
        BY <4>3
    <3> QED
      BY <3>6, <3>7
  <2> QED
    BY <2>1, <2>2
<1>3. \A n \in 0 .. Cardinality(S) : n \in T
  <2> HIDE DEF T
  <2> QED
    BY <1>0, <1>1, <1>2, UpTo
<1>4. Cardinality(S) \in T
    BY <1>0, <1>3
<1> QED
    BY <1>4

-----------------------------------------------------------------------------
(* The invariants. *)

\* The channel and the ledger.
RingInv ==
    /\ clock \in 0 .. Clocks /\ luns \in [Luns -> Nat]
    /\ Agrees(ch, ledger) /\ ch.cur_time <= clock
    /\ agree = TRUE

\* A die's commands are over when it is free; none begins before that.
Apart(b) == \A x, y \in b : x # y => x[2] <= y[1] \/ y[2] <= x[1]
LunInv ==
    /\ busy \in [Luns -> SUBSET (Nat \X Nat)]
    /\ \A l \in Luns : Apart(busy[l]) /\ \A a \in busy[l] : a[2] <= luns[l]

\* The invariant gives what the ring has of the coming intervals.
LEMMA RingExact ==
    ASSUME RingInv
    PROVE  RingIsLedger
<1>1. ch \in Channels /\ \A o \in Offs : EntryAt(ch, o) = MaxCredits - ledger[FirstOf(ch) + o]
    BY DEF RingInv, Agrees
<1>2. ch.valid_len \in 0 .. NrCredits
    BY <1>1 DEF Channels
<1> QED
    BY <1>1, <1>2 DEF RingInv, RingIsLedger, EntryAt, FirstOf

\* No die is busy longer than a flush waits.
LEMMA LunsExact ==
    ASSUME RingInv, LunInv
    PROVE  LunExclusive
<1>1. PICK S : S = {clock} \cup {luns[l] : l \in Luns}
    OBVIOUS
<1>2. S \in SUBSET Nat /\ clock \in S
    BY <1>1, TimingFacts DEF RingInv
<1>3. IsFiniteSet(S)
  <2>1. IsFiniteSet({luns[l] : l \in Luns})
    <3>1. IsFiniteSet(Luns)
      BY TimingFacts
    <3>2. PICK f : f = [l \in Luns |-> luns[l]]
      OBVIOUS
    <3>3. PICK R : R = {f[l] : l \in Luns}
      OBVIOUS
    <3>4. f \in Surjection(Luns, R)
      BY <3>2, <3>3 DEF Surjection
    <3>5. IsFiniteSet(R)
      BY <3>1, <3>4, FS_Surjection
    <3>6. R = {luns[l] : l \in Luns}
      BY <3>2, <3>3
    <3> QED
      BY <3>5, <3>6
  <2> QED
    BY <1>1, <2>1, FS_AddElement
<1>4. PICK n \in S : \A m \in S : m <= n
    BY <1>2, <1>3, Greatest
<1>5. n \in {clock} \cup {luns[l] : l \in Luns} /\ n >= clock /\ \A l \in Luns : n >= luns[l]
    BY <1>1, <1>2, <1>4
<1>6. \A l \in Luns : next_idle_time >= luns[l] /\ next_idle_time \in S
    BY <1>1, <1>5 DEF next_idle_time
<1>7. ASSUME NEW l \in Luns, NEW a \in busy[l]
      PROVE  a[2] <= next_idle_time
  <2>0. busy[l] \in SUBSET (Nat \X Nat)
    BY DEF LunInv
  <2>1. a[2] \in Nat /\ luns[l] \in Nat /\ next_idle_time \in Nat
    BY <1>2, <1>6, <2>0 DEF RingInv
  <2>2. a[2] <= luns[l]
    BY DEF LunInv
  <2> QED
    BY <1>6, <2>1, <2>2
<1> QED
    BY <1>7 DEF LunExclusive, LunInv, Apart

\* One more command of a die, from when it is free on.
LEMMA OneMore ==
    ASSUME RingInv, LunInv, NEW l \in Luns, NEW s \in Nat, NEW e \in Nat, s >= luns[l], e >= s,
           Occupy(l, s, e)
    PROVE  LunInv' /\ luns' \in [Luns -> Nat] /\ clock' = clock
<1>1. luns' \in [Luns -> Nat] /\ luns'[l] = e /\ \A m \in Luns : m # l => luns'[m] = luns[m]
    BY DEF RingInv, Occupy
<1>2. PICK b : b = IF s < e THEN busy[l] \cup {<<s, e>>} ELSE busy[l]
    OBVIOUS
<1>3. busy[l] \in SUBSET (Nat \X Nat) /\ b \in SUBSET (Nat \X Nat)
    BY <1>2 DEF LunInv
<1>4. busy' = [busy EXCEPT ![l] = b]
    BY <1>2 DEF Occupy
<1>5. busy' \in [Luns -> SUBSET (Nat \X Nat)] /\ busy'[l] = b /\ \A m \in Luns : m # l => busy'[m] = busy[m]
    BY <1>3, <1>4 DEF LunInv
<1>6. \A a \in busy[l] : a[1] \in Nat /\ a[2] \in Nat /\ a[2] <= luns[l] /\ a[2] <= s /\ a[2] <= e
  <2> SUFFICES ASSUME NEW a \in busy[l]
               PROVE  a[1] \in Nat /\ a[2] \in Nat /\ a[2] <= luns[l] /\ a[2] <= s /\ a[2] <= e
    OBVIOUS
  <2>1. a[1] \in Nat /\ a[2] \in Nat /\ luns[l] \in Nat
    BY <1>3 DEF RingInv
  <2>2. a[2] <= luns[l]
    BY DEF LunInv
  <2> QED
    BY <2>1, <2>2
<1>7. Apart(b)
  <2> SUFFICES ASSUME NEW x \in b, NEW y \in b, x # y
               PROVE  x[2] <= y[1] \/ y[2] <= x[1]
    BY DEF Apart
  <2>1. CASE x \in busy[l] /\ y \in busy[l]
    BY <2>1 DEF LunInv, Apart
  <2>2. CASE x \notin busy[l]
    <3>1. x = <<s, e>> /\ y \in busy[l]
      BY <1>2, <2>2
    <3> QED
      BY <1>6, <3>1
  <2>3. CASE y \notin busy[l]
    <3>1. y = <<s, e>> /\ x \in busy[l]
      BY <1>2, <2>3
    <3> QED
      BY <1>6, <3>1
  <2> QED
    BY <2>1, <2>2, <2>3
<1>8. \A a \in b : a[2] <= e
    BY <1>2, <1>6
<1>9. ASSUME NEW m \in Luns
      PROVE  Apart(busy'[m]) /\ \A a \in busy'[m] : a[2] <= luns'[m]
  <2>1. CASE m = l
    BY <1>1, <1>5, <1>7, <1>8, <2>1
  <2>2. CASE m # l
    BY <1>1, <1>5, <2>2 DEF LunInv
  <2> QED
    BY <2>1, <2>2
<1> QED
    BY <1>1, <1>5, <1>9 DEF LunInv, Occupy

\* When a die can start.
LEMMA FreeAt ==
    ASSUME RingInv, NEW l \in Luns, NEW stime \in Nat
    PROVE  LunFree(l, stime) \in Nat /\ LunFree(l, stime) >= luns[l]
<1>1. luns[l] \in Nat
    BY DEF RingInv
<1> QED
    BY <1>1 DEF LunFree, Greater

\* A transfer keeps the channel and the ledger together.
LEMMA TransferAgrees ==
    ASSUME RingInv, NEW r, NEW x, Agrees(r.ch, x.ledger), r.ch.cur_time = clock, r.time = x.time,
           Transferred(r, x), clock' = clock, luns' \in [Luns -> Nat]
    PROVE  RingInv'
<1>1. clock \div Interval = FirstOf(r.ch) /\ clock \in Nat
    BY TimingFacts DEF FirstOf, RingInv
<1>2. PICK k, y : k = FirstOf(r.ch) /\ y = [i \in Intervals |-> IF i < k THEN 0 ELSE x.ledger[i]]
    OBVIOUS
<1>3. Agrees(r.ch, y)
    BY <1>2, ForgetAgrees
<1>4. ch' = r.ch /\ ledger' = y /\ agree' = (agree /\ r.time = x.time)
    BY <1>1, <1>2 DEF Transferred
<1>5. Agrees(ch', ledger')
    BY <1>3, <1>4
<1>6. agree' = TRUE
    BY <1>4 DEF RingInv
<1>7. ch'.cur_time <= clock'
    BY <1>1, <1>4
<1> QED
    BY <1>5, <1>6, <1>7 DEF RingInv

\* ssd_advance_nand for a read of a part of a flash page.
LEMMA ReadStep ==
    ASSUME RingInv, LunInv, NEW l \in Luns, NEW stime \in Nat, NEW units \in Nat \ {0},
           NandRead(l, stime, units)
    PROVE  RingInv' /\ LunInv'
<1>1. PICK s \in Nat : s = LunFree(l, stime) /\ s >= luns[l]
    BY FreeAt
<1>2. PICK t \in Nat : t = LunFree(l, stime) + Latency.read /\ t >= s
    BY <1>1, TimingFacts
<1>3. PICK r, x : r = chmodel_request(ch, clock, t, units) /\ x = LedgerTakes(ledger, clock, t, units)
    OBVIOUS
<1>4. /\ Agrees(r.ch, x.ledger) /\ r.ch.cur_time = clock
      /\ r.time = x.time /\ r.time \in Nat /\ r.time >= t
  <2>1. Agrees(ch, ledger) /\ clock \in 0 .. Clocks /\ ch.cur_time <= clock
    BY DEF RingInv
  <2> QED
    BY <1>3, <2>1, RequestAgrees
<1>5. Transferred(r, x) /\ Occupy(l, s, r.time)
    BY <1>1, <1>2, <1>3 DEF NandRead
<1>6. PICK e \in Nat : e = r.time /\ e >= s
    BY <1>2, <1>4
<1>7. LunInv' /\ luns' \in [Luns -> Nat] /\ clock' = clock
    BY <1>1, <1>5, <1>6, OneMore
<1> QED
    BY <1>4, <1>5, <1>7, TransferAgrees

\* ssd_advance_nand for a read that is transferred in chunks.
LEMMA ReadLongStep ==
    ASSUME RingInv, LunInv, NEW l \in Luns, NEW stime \in Nat, NEW units \in Nat \ {0},
           NandReadLong(l, stime, units)
    PROVE  RingInv' /\ LunInv'
<1>1. PICK s \in Nat : s = LunFree(l, stime) /\ s >= luns[l]
    BY FreeAt
<1>2. PICK t \in Nat : t = LunFree(l, stime) + Latency.read /\ t >= s
    BY <1>1, TimingFacts
<1>3. PICK u \in Nat \ {0}, v \in Nat \ {0} : u = MaxXfer /\ v = units - MaxXfer
  <2>1. MaxXfer \in Nat \ {0} /\ units > MaxXfer
    BY TimingFacts DEF NandReadLong
  <2> QED
    BY <2>1
<1>4. PICK r, x : r = chmodel_request(ch, clock, t, u) /\ x = LedgerTakes(ledger, clock, t, u)
    OBVIOUS
<1>5. /\ Agrees(r.ch, x.ledger) /\ r.ch.cur_time = clock
      /\ r.time = x.time /\ r.time \in Nat /\ r.time >= t
    BY <1>4, RequestAgrees DEF RingInv
<1>6. PICK d \in Nat : d = r.time /\ d = x.time /\ d >= t
    BY <1>5
<1>7. PICK r2, x2 : r2 = chmodel_request(r.ch, clock, d, v) /\ x2 = LedgerTakes(x.ledger, clock, d, v)
    OBVIOUS
<1>8. clock \in 0 .. Clocks /\ r.ch.cur_time <= clock
    BY <1>5, TimingFacts DEF RingInv
<1>9. /\ Agrees(r2.ch, x2.ledger) /\ r2.ch.cur_time = clock
      /\ r2.time = x2.time /\ r2.time \in Nat /\ r2.time >= d
    BY <1>5, <1>7, <1>8, RequestAgrees
<1>10. Transferred(r2, x2) /\ Occupy(l, s, r2.time)
    BY <1>1, <1>2, <1>3, <1>4, <1>6, <1>7 DEF NandReadLong
<1>11. PICK e \in Nat : e = r2.time /\ e >= s
    BY <1>2, <1>6, <1>9
<1>12. LunInv' /\ luns' \in [Luns -> Nat] /\ clock' = clock
    BY <1>1, <1>10, <1>11, OneMore
<1> QED
    BY <1>9, <1>10, <1>12, TransferAgrees

\* ssd_advance_nand for a program unit.
LEMMA WriteStep ==
    ASSUME RingInv, LunInv, NEW l \in Luns, NEW stime \in Nat, NEW units \in Nat \ {0},
           NandWrite(l, stime, units)
    PROVE  RingInv' /\ LunInv'
<1>1. PICK t \in Nat : t = LunFree(l, stime) /\ t >= luns[l]
    BY FreeAt
<1>2. PICK r, x : r = chmodel_request(ch, clock, t, units) /\ x = LedgerTakes(ledger, clock, t, units)
    OBVIOUS
<1>3. /\ Agrees(r.ch, x.ledger) /\ r.ch.cur_time = clock
      /\ r.time = x.time /\ r.time \in Nat /\ r.time >= t
    BY <1>2, RequestAgrees DEF RingInv
<1>4. PICK e \in Nat : e = r.time + Latency.write /\ e >= t
    BY <1>3, TimingFacts
<1>5. Transferred(r, x) /\ Occupy(l, t, e)
    BY <1>1, <1>2, <1>4 DEF NandWrite
<1>6. LunInv' /\ luns' \in [Luns -> Nat] /\ clock' = clock
    BY <1>1, <1>4, <1>5, OneMore
<1> QED
    BY <1>3, <1>5, <1>6, TransferAgrees

\* ssd_advance_nand for an erase.
LEMMA EraseStep ==
    ASSUME RingInv, LunInv, NEW l \in Luns, NEW stime \in Nat, NEW lat \in Nat,
           NandErase(l, stime, lat)
    PROVE  RingInv' /\ LunInv'
<1>1. PICK t \in Nat : t = LunFree(l, stime) /\ t >= luns[l]
    BY FreeAt
<1>2. PICK e \in Nat : e = t + lat /\ e >= t
    OBVIOUS
<1>3. Occupy(l, t, e) /\ ch' = ch /\ ledger' = ledger /\ agree' = agree
    BY <1>1, <1>2 DEF NandErase
<1>4. LunInv' /\ luns' \in [Luns -> Nat] /\ clock' = clock
    BY <1>1, <1>2, <1>3, OneMore
<1> QED
    BY <1>3, <1>4 DEF RingInv

\* The clock goes on.
LEMMA TickStep ==
    ASSUME RingInv, LunInv, NEW n \in Pauses, Tick(n)
    PROVE  RingInv' /\ LunInv'
<1>1. n \in Nat /\ clock \in Nat /\ clock + n <= Clocks /\ Clocks \in Nat
    BY TimingFacts DEF RingInv, Tick
<1>2. clock' \in 0 .. Clocks /\ clock' >= clock /\ clock' \in Nat
    BY <1>1 DEF Tick
<1>3. ch' = ch /\ ledger' = ledger /\ agree' = agree /\ luns' = luns
    BY DEF Tick
<1>4. ch.cur_time \in 0 .. Clocks /\ ch.cur_time <= clock
    BY DEF RingInv, Agrees, Channels
<1>5. RingInv'
    BY <1>1, <1>2, <1>3, <1>4 DEF RingInv
<1>6. busy' = [l \in Luns |-> {b \in busy[l] : b[2] > clock + n}]
    BY DEF Tick
<1>7. \A l \in Luns : busy'[l] \subseteq busy[l]
    BY <1>6
<1>8. busy' \in [Luns -> SUBSET (Nat \X Nat)]
    BY <1>6, <1>7 DEF LunInv
<1>9. \A l \in Luns : Apart(busy'[l]) /\ \A a \in busy'[l] : a[2] <= luns'[l]
    BY <1>3, <1>7 DEF LunInv, Apart
<1> QED
    BY <1>5, <1>8, <1>9 DEF LunInv

\* Both hold at first.
LEMMA FirstTimes ==
    ASSUME TInit
    PROVE  RingInv /\ LunInv
<1>0. PICK N \in Nat \ {0} : N = NrCredits
    BY TimingFacts
<1>1. clock = 0 /\ luns = [l \in Luns |-> 0] /\ agree = TRUE /\ busy = [l \in Luns |-> {}]
      /\ ledger = [i \in Intervals |-> 0]
      /\ ch = [head |-> 0, cur_time |-> 0, valid_len |-> 0, avail |-> [i \in Offs |-> MaxCredits]]
    BY DEF TInit
<1>2. ch \in Channels /\ ledger \in Ledgers /\ clock \in 0 .. Clocks
    BY <1>0, <1>1, TimingFacts DEF Channels, Ledgers, Offs
<1>3. 0 \div Interval = 0
    BY TimingFacts
<1>4. ASSUME NEW o \in 0 .. N - 1
      PROVE  EntryAt(ch, o) = MaxCredits - ledger[FirstOf(ch) + o]
  <2>1. (0 + o) % N = o
    BY Remainder
  <2>2. 0 \div Interval + o \in Intervals
    <3>1. 0 \in 0 .. Clocks /\ o \in 0 .. NrCredits
      BY <1>0, TimingFacts
    <3> QED
      BY <3>1, Coming
  <2>3. ledger[FirstOf(ch) + o] = 0
    BY <1>1, <2>2 DEF FirstOf
  <2>4. EntryAt(ch, o) = MaxCredits
    BY <1>0, <1>1, <2>1 DEF EntryAt, Offs
  <2> QED
    BY <2>3, <2>4, TimingFacts
<1>5. Agrees(ch, ledger)
    BY <1>0, <1>1, <1>2, <1>4 DEF Agrees, Offs
<1>6. RingInv
    BY <1>1, <1>2, <1>5 DEF RingInv
<1>7. LunInv
    BY <1>1 DEF LunInv, Apart
<1> QED
    BY <1>6, <1>7

\* Every step keeps both.
LEMMA TimesStep ==
    ASSUME RingInv, LunInv, [TNext]_tvars
    PROVE  RingInv' /\ LunInv'
<1>1. CASE \E l \in Luns, stime \in {clock + d : d \in Starts} :
            /\ stime >= 0
            /\ \/ \E units \in Units :
                    NandRead(l, stime, units) \/ NandReadLong(l, stime, units) \/ NandWrite(l, stime, units)
               \/ NandErase(l, stime, Latency.erase)
               \/ NandErase(l, stime, 0)
  <2>1. PICK l \in Luns, stime \in {clock + d : d \in Starts} :
            /\ stime >= 0
            /\ \/ \E units \in Units :
                    NandRead(l, stime, units) \/ NandReadLong(l, stime, units) \/ NandWrite(l, stime, units)
               \/ NandErase(l, stime, Latency.erase)
               \/ NandErase(l, stime, 0)
    BY <1>1
  <2>2. stime \in Nat
    <3>1. clock \in Int /\ Starts \subseteq Int
      BY TimingFacts DEF RingInv
    <3> QED
      BY <2>1, <3>1
  <2>3. ASSUME NEW units \in Units
        PROVE  units \in Nat \ {0}
    <3>1. MaxXfer \in Nat /\ Units \subseteq 1 .. (2 * MaxXfer)
      BY TimingFacts
    <3> QED
      BY <3>1
  <2>4. Latency.erase \in Nat /\ 0 \in Nat
    BY TimingFacts
  <2> QED
    BY <2>1, <2>2, <2>3, <2>4, ReadStep, ReadLongStep, WriteStep, EraseStep
<1>2. CASE \E n \in Pauses : Tick(n)
    BY <1>2, TickStep
<1>3. CASE UNCHANGED tvars
    BY <1>3 DEF tvars, RingInv, LunInv
<1> QED
    BY <1>1, <1>2, <1>3 DEF TNext

\* The ring of credits of a channel is the ledger of its transfers, for every
\* size of the ring and every bandwidth.
THEOREM RingIsTheLedger ==
    TInit /\ [][TNext]_tvars => []RingIsLedger
<1>1. TInit => RingInv /\ LunInv
    BY FirstTimes
<1>2. (RingInv /\ LunInv) /\ [TNext]_tvars => (RingInv /\ LunInv)'
    BY TimesStep
<1>3. RingInv /\ LunInv => RingIsLedger
    BY RingExact
<1> QED
    BY <1>1, <1>2, <1>3, PTL

\* A die does one thing at a time, for any number of dies and any latencies.
THEOREM LunsAreExclusive ==
    TInit /\ [][TNext]_tvars => []LunExclusive
<1>1. TInit => RingInv /\ LunInv
    BY FirstTimes
<1>2. (RingInv /\ LunInv) /\ [TNext]_tvars => (RingInv /\ LunInv)'
    BY TimesStep
<1>3. RingInv /\ LunInv => LunExclusive
    BY LunsExact
<1> QED
    BY <1>1, <1>2, <1>3, PTL

-----------------------------------------------------------------------------
(* Divisions. *)

\* A quotient and its remainder.
LEMMA Divided ==
    ASSUME NEW a \in Nat, NEW d \in Nat \ {0}
    PROVE  /\ a \div d \in Nat /\ a % d \in 0 .. d - 1
           /\ a = d * (a \div d) + (a % d)
<1>1. PICK q \in Int, r \in Int : q = a \div d /\ r = a % d
    OBVIOUS
<1>2. a = d * q + r /\ r \in 0 .. d - 1
    BY <1>1
<1>3. q >= 0
  <2> SUFFICES ASSUME q <= -1
               PROVE  FALSE
    BY <1>1
  <2>1. d * q <= -d
    BY <1>1
  <2> QED
    BY <1>2, <2>1
<1> QED
    BY <1>1, <1>2, <1>3

\* Factors of a product, in order.
LEMMA Products ==
    ASSUME NEW a \in Nat, NEW b \in Nat, NEW c \in Nat, a <= b
    PROVE  a * c <= b * c /\ c * a <= c * b /\ a * c \in Nat /\ c * a = a * c
<1>1. PICK x \in Nat : b = a + x
  <2>1. b - a \in Nat /\ b = a + (b - a)
    OBVIOUS
  <2> QED
    BY <2>1
<1>2. PICK y \in Nat : y = x * c
    OBVIOUS
<1>3. b * c = a * c + y
    BY <1>1, <1>2
<1> QED
    BY <1>3

\* The quotient is the greatest number of divisors that fit.
LEMMA Fits ==
    ASSUME NEW a \in Nat, NEW d \in Nat \ {0}, NEW n \in Nat
    PROVE  n <= a \div d <=> d * n <= a
<1>1. PICK q \in Nat, r \in 0 .. d - 1 : q = a \div d /\ a = d * q + r
    BY Divided
<1>2. CASE n <= q
  <2>1. d * n <= d * q /\ d * n \in Nat /\ d * q \in Nat
    BY <1>2, Products
  <2> QED
    BY <1>1, <1>2, <2>1
<1>3. CASE q + 1 <= n
  <2>1. d * (q + 1) <= d * n /\ d * (q + 1) = d * q + d /\ d * n \in Nat /\ d * q \in Nat
    BY <1>3, Products
  <2> QED
    BY <1>1, <1>3, <2>1
<1> QED
    BY <1>1, <1>2, <1>3

\* A product divided in two steps.
LEMMA InTwoSteps ==
    ASSUME NEW a \in Nat, NEW d \in Nat \ {0}, NEW p \in Nat
    PROVE  (a * p) \div d = (a \div d) * p + ((a % d) * p) \div d
<1>1. PICK q \in Nat, r \in 0 .. d - 1 : q = a \div d /\ r = a % d /\ a = d * q + r
    BY Divided
<1>2. PICK s \in Nat, t \in Nat : s = q * p /\ t = r * p
    OBVIOUS
<1>3. a * p = d * s + t
  <2>1. (d * q + r) * p = d * (q * p) + r * p
    OBVIOUS
  <2> QED
    BY <1>1, <1>2, <2>1
<1>4. PICK u \in Nat, v \in 0 .. d - 1 : u = t \div d /\ t = d * u + v
    BY <1>2, Divided
<1>5. a * p = d * (s + u) + v
  <2>1. d * s + (d * u + v) = d * (s + u) + v
    OBVIOUS
  <2> QED
    BY <1>3, <1>4, <2>1
<1>6. PICK w \in Nat : w = s + u
    OBVIOUS
<1>7. PICK x \in Nat : x = a * p /\ x = d * w + v
    BY <1>5, <1>6
<1>8. w <= x \div d
  <2>1. d * w <= x
    BY <1>7
  <2> QED
    BY <2>1, Fits
<1>9. ~ (w + 1 <= x \div d)
  <2>1. d * (w + 1) = d * w + d /\ d * w \in Nat
    OBVIOUS
  <2>2. ~ (d * (w + 1) <= x)
    BY <1>7, <2>1
  <2> QED
    BY <2>2, Fits
<1>10. x \div d = w
  <2>1. x \div d \in Nat
    BY Divided
  <2> QED
    BY <1>8, <1>9, <2>1
<1> QED
    BY <1>1, <1>2, <1>4, <1>6, <1>7, <1>10

-----------------------------------------------------------------------------
(* Scores. *)

\* The score without rounding and without a width, and what fits the width.
Exact(ipc, vpc, v) == (v * ipc) \div (vpc + 1)
Capped(e) == IF e > MaxU64 THEN MaxU64 ELSE e

\* The two-step division loses nothing, and wraps nowhere.
LEMMA ScoreIsExact ==
    ASSUME NEW v \in Nat, NEW vpc \in Nat, NEW ipc \in Nat \ {0}, vpc * ipc <= MaxU64
    PROVE  cost_benefit_score(ipc, vpc, v) = Capped(Exact(ipc, vpc, v))
<1>0. PICK M \in Nat, d \in Nat \ {0} : M = MaxU64 /\ d = vpc + 1
    BY WidthAssumption
<1>1. PICK q \in Nat, r \in 0 .. d - 1 : q = v \div d /\ r = v % d /\ v = d * q + r
    BY Divided
<1>2. PICK m \in Nat : m = M \div ipc
    BY Divided
<1>3. PICK s \in Nat, t \in Nat : s = q * ipc /\ t = (r * ipc) \div d
  <2>1. r * ipc \in Nat /\ q * ipc \in Nat
    OBVIOUS
  <2> QED
    BY <2>1, Divided
<1>4. Exact(ipc, vpc, v) = s + t
  <2>1. (v * ipc) \div d = (v \div d) * ipc + ((v % d) * ipc) \div d
    BY InTwoSteps
  <2>2. Exact(ipc, vpc, v) = (v * ipc) \div d
    BY <1>0 DEF Exact
  <2> QED
    BY <1>1, <1>3, <2>1, <2>2, Zenon
<1>5. r <= m
  <2>1. r \in Nat /\ r <= vpc
    BY <1>0
  <2>2. r * ipc <= vpc * ipc /\ r * ipc \in Nat /\ ipc * r = r * ipc
    BY <2>1, Products
  <2>3. ipc * r <= M
    BY <1>0, <2>2
  <2> QED
    BY <1>2, <2>1, <2>3, Fits
<1>6. q <= m <=> s <= M
  <2>1. ipc * q = s
    BY <1>3
  <2> QED
    BY <1>2, <2>1, Fits
<1>7. CASE v = 0
  <2>1. 0 * ipc = 0 /\ 0 \div d = 0
    OBVIOUS
  <2>2. Exact(ipc, vpc, v) = 0
    BY <1>0, <1>7, <2>1 DEF Exact
  <2> QED
    BY <1>0, <1>7, <2>2 DEF Capped, cost_benefit_score
<1>8. CASE v # 0
  <2>1. cost_benefit_score(ipc, vpc, v) = IF q > m THEN M ELSE IF s > M - t THEN M ELSE s + t
    <3>1. PICK x : x = MaxU64 \div (vpc + 1)
      OBVIOUS
    <3>2. cost_benefit_score(ipc, vpc, v) =
            IF v = 0 \/ ipc = 0 THEN 0
            ELSE IF q > m THEN M
            ELSE IF s > M - (IF r > m THEN x ELSE t) THEN M
            ELSE s + (IF r > m THEN x ELSE t)
      BY <1>0, <1>1, <1>2, <1>3, <3>1, Zenon DEF cost_benefit_score
    <3>3. ~ (v = 0 \/ ipc = 0) /\ ~ (r > m)
      BY <1>5, <1>8
    <3> QED
      BY <3>2, <3>3, Zenon
  <2> QED
    BY <1>0, <1>4, <1>6, <2>1 DEF Capped
<1> QED
    BY <1>7, <1>8

\* More invalid pages, fewer valid ones and an age that counts for more never
\* make a score smaller.
LEMMA ScoreGrows ==
    ASSUME NEW v \in Nat, NEW w \in Nat, w <= v,
           NEW a \in Nat, NEW b \in Nat, a <= b, NEW i \in Nat, NEW j \in Nat, j <= i
    PROVE  /\ Capped(Exact(j, b, w)) <= Capped(Exact(i, a, v))
           /\ Capped(Exact(j, b, w)) \in Nat /\ Capped(Exact(i, a, v)) \in Nat
<1>0. MaxU64 \in Nat
    BY WidthAssumption
<1>1. PICK x \in Nat, y \in Nat : x = w * j /\ y = v * i /\ x <= y
  <2>1. w * j <= v * j /\ w * j \in Nat
    BY Products
  <2>2. v * j <= v * i /\ v * j \in Nat /\ v * i \in Nat
    BY Products
  <2> QED
    BY <2>1, <2>2
<1>2. PICK c \in Nat \ {0}, d \in Nat \ {0} : c = a + 1 /\ d = b + 1 /\ c <= d
    OBVIOUS
<1>3. PICK n \in Nat : n = x \div d
    BY Divided
<1>4. d * n <= x
    BY <1>3, Fits
<1>5. c * n <= d * n /\ c * n \in Nat /\ d * n \in Nat
    BY <1>2, Products
<1>6. c * n <= y
    BY <1>1, <1>4, <1>5
<1>7. n <= y \div c /\ y \div c \in Nat
    BY <1>6, Divided, Fits
<1>8. Exact(j, b, w) = n /\ Exact(i, a, v) = y \div c
    BY <1>1, <1>2, <1>3 DEF Exact
<1> QED
    BY <1>0, <1>7, <1>8 DEF Capped

-----------------------------------------------------------------------------
(* Tables of ages. *)

\* What a table is: the bounds and the values of its steps do not fall, and
\* what the bound of the last step is does not matter.
IsTable(t) ==
    /\ Len(t) \in Nat \ {0} /\ DOMAIN t = 1 .. Len(t)
    /\ \A i \in 1 .. Len(t) : t[i].upper_age_ns \in Nat \ {0} /\ t[i].value \in Nat
    /\ \A i, j \in 1 .. Len(t) : i < j =>
            t[i].value <= t[j].value /\ (j < Len(t) => t[i].upper_age_ns <= t[j].upper_age_ns)

\* The tables of the build are tables.
LEMMA TheTables ==
    ASSUME NEW t \in Tables \ {RAW_LINEAR}
    PROVE  IsTable(t)
<1>0. PICK M \in Nat \ {0} : M = MaxU64
    BY WidthAssumption
<1>1. IsTable(CAT7)
    BY <1>0 DEF CAT7, Step, IsTable
<1>2. IsTable(COARSE3)
    BY <1>0 DEF COARSE3, Step, IsTable
<1>3. IsTable(EARLY_SAT)
    BY <1>0 DEF EARLY_SAT, Step, IsTable
<1>4. IsTable(LATE_RAMP)
    BY <1>0 DEF LATE_RAMP, Step, IsTable
<1>5. IsTable(AGGRESSIVE7)
    BY <1>0 DEF AGGRESSIVE7, Step, IsTable
<1>6. IsTable(FLAT)
    BY <1>0 DEF FLAT, Step, IsTable
<1>7. ASSUME NEW K \in 1 .. 7
      PROVE  IsTable(isotonic_table(K))
  <2>0. Len(CAT7) = 7
    BY DEF CAT7, Step
  <2>1. PICK c : c = CAT7 /\ Len(c) = 7
    BY <2>0
  <2>2. IsTable(c)
    BY <1>1, <2>1
  <2>3. PICK f : f = isotonic_table(K)
    OBVIOUS
  <2>4. f = [i \in 1 .. K |-> IF i = K THEN [upper_age_ns |-> M, value |-> c[K].value] ELSE c[i]]
    BY <1>0, <2>1, <2>3 DEF isotonic_table, Step
  <2>5. Len(f) = K /\ DOMAIN f = 1 .. K
    BY <2>4
  <2>6. \A i \in 1 .. K : f[i].value = c[i].value /\ (i < K => f[i].upper_age_ns = c[i].upper_age_ns)
                          /\ f[K].upper_age_ns = M
    BY <2>4
  <2> QED
    <3>1. \A i \in 1 .. 7 : c[i].upper_age_ns \in Nat \ {0} /\ c[i].value \in Nat
      BY <2>1, <2>2 DEF IsTable
    <3>2. \A i, j \in 1 .. 7 : i < j => c[i].value <= c[j].value
      BY <2>1, <2>2 DEF IsTable
    <3>3. \A i, j \in 1 .. 7 : i < j /\ j < 7 => c[i].upper_age_ns <= c[j].upper_age_ns
      BY <2>1, <2>2 DEF IsTable
    <3>4. ASSUME NEW i \in 1 .. K
          PROVE  f[i].upper_age_ns \in Nat \ {0} /\ f[i].value \in Nat
      <4>1. i \in 1 .. 7 /\ (i = K \/ i < K)
        OBVIOUS
      <4> QED
        BY <1>0, <2>6, <3>1, <4>1
    <3>5. ASSUME NEW i \in 1 .. K, NEW j \in 1 .. K, i < j
          PROVE  f[i].value <= f[j].value /\ (j < K => f[i].upper_age_ns <= f[j].upper_age_ns)
      <4>1. i \in 1 .. 7 /\ j \in 1 .. 7 /\ i < K /\ (j < K => j < 7)
        BY <3>5
      <4> QED
        BY <2>6, <3>2, <3>3, <3>5, <4>1
    <3>6. K \in Nat \ {0}
      OBVIOUS
    <3>7. IsTable(f)
      BY <2>5, <3>4, <3>5, <3>6 DEF IsTable
    <3> QED
      BY <2>3, <3>7
<1> QED
    BY <1>1, <1>2, <1>3, <1>4, <1>5, <1>6, <1>7 DEF Tables

\* The step of an age: it begins at or below the age and ends above it.
StepAround(t, age, i) ==
    /\ i > 1 => t[i - 1].upper_age_ns <= age
    /\ i < Len(t) => age < t[i].upper_age_ns

\* The lookup finds the step of an age, and there is no other.
LEMMA Lookup ==
    ASSUME NEW t, IsTable(t), NEW age \in Nat
    PROVE  /\ age_step_lookup(age, t) \in 1 .. Len(t)
           /\ StepAround(t, age, age_step_lookup(age, t))
           /\ \A i \in 1 .. Len(t) : StepAround(t, age, i) => i = age_step_lookup(age, t)
<1>1. PICK N \in Nat \ {0} : N = Len(t) /\ DOMAIN t = 1 .. N
    BY DEF IsTable
<1>2. /\ \A i \in 1 .. N : t[i].upper_age_ns \in Nat
      /\ \A i, j \in 1 .. N : i < j /\ j < N => t[i].upper_age_ns <= t[j].upper_age_ns
    BY <1>1 DEF IsTable
<1>3. PICK hits : hits = {i \in 1 .. N : age < t[i].upper_age_ns}
    OBVIOUS
<1>4. PICK x : x = age_step_lookup(age, t)
    OBVIOUS
<1>5. x \in 1 .. N /\ (x = N \/ x \in hits) /\ \A i \in hits : x <= i
  <2>1. CASE hits = {}
    <3>1. x = N
      BY <1>1, <1>3, <1>4, <2>1 DEF age_step_lookup
    <3> QED
      BY <2>1, <3>1
  <2>2. CASE hits # {}
    <3>1. hits \in SUBSET Nat
      BY <1>3
    <3>2. \E i \in hits : \A j \in hits : i <= j
      BY <2>2, <3>1, LeastNat
    <3>3. x = CHOOSE i \in hits : \A j \in hits : i <= j
      BY <1>1, <1>3, <1>4, <2>2 DEF age_step_lookup
    <3>4. x \in hits /\ \A j \in hits : x <= j
      BY <3>2, <3>3
    <3> QED
      BY <1>3, <3>4
  <2> QED
    BY <2>1, <2>2
<1>6. StepAround(t, age, x)
  <2>1. ASSUME x > 1
        PROVE  t[x - 1].upper_age_ns <= age
    <3>1. x - 1 \in 1 .. N /\ ~ (x <= x - 1)
      BY <1>5, <2>1
    <3>2. x - 1 \notin hits
      BY <1>5, <3>1
    <3>3. t[x - 1].upper_age_ns \in Nat /\ ~ (age < t[x - 1].upper_age_ns)
      BY <1>2, <1>3, <3>1, <3>2
    <3> QED
      BY <3>3
  <2>2. ASSUME x < N
        PROVE  age < t[x].upper_age_ns
    BY <1>3, <1>5, <2>2
  <2> QED
    BY <1>1, <2>1, <2>2 DEF StepAround
<1>7. ASSUME NEW i \in 1 .. N, NEW j \in 1 .. N, StepAround(t, age, i), StepAround(t, age, j), i < j
      PROVE  FALSE
  <2>1. j > 1 /\ i < N /\ j - 1 \in 1 .. N /\ j - 1 < N /\ (i < j - 1 \/ i = j - 1)
    BY <1>7
  <2>2. t[j - 1].upper_age_ns <= age /\ age < t[i].upper_age_ns
    BY <1>1, <1>7, <2>1 DEF StepAround
  <2>3. t[i].upper_age_ns <= t[j - 1].upper_age_ns
    BY <1>2, <2>1
  <2>4. t[i].upper_age_ns \in Nat /\ t[j - 1].upper_age_ns \in Nat
    BY <1>2, <2>1
  <2> QED
    BY <2>2, <2>3, <2>4
<1>8. ASSUME NEW i \in 1 .. N, StepAround(t, age, i)
      PROVE  i = x
    BY <1>5, <1>6, <1>7, <1>8
<1> QED
    BY <1>1, <1>4, <1>5, <1>6, <1>8

\* A line that is no younger has a step that is no lower.
LEMMA OlderIsHigher ==
    ASSUME NEW t, IsTable(t), NEW a \in Nat, NEW b \in Nat, a <= b
    PROVE  StepValue(a, t) \in Nat /\ StepValue(b, t) \in Nat /\ StepValue(a, t) <= StepValue(b, t)
<1>1. PICK N \in Nat \ {0} : N = Len(t)
    BY DEF IsTable
<1>2. /\ \A i \in 1 .. N : t[i].upper_age_ns \in Nat /\ t[i].value \in Nat
      /\ \A i, j \in 1 .. N : i < j => t[i].value <= t[j].value
      /\ \A i, j \in 1 .. N : i < j /\ j < N => t[i].upper_age_ns <= t[j].upper_age_ns
    BY <1>1 DEF IsTable
<1>3. PICK i \in 1 .. N, j \in 1 .. N : /\ i = age_step_lookup(a, t) /\ StepAround(t, a, i)
                                        /\ j = age_step_lookup(b, t) /\ StepAround(t, b, j)
    BY <1>1, Lookup
<1>4. i <= j
  <2> SUFFICES ASSUME j < i
               PROVE  FALSE
    OBVIOUS
  <2>1. i > 1 /\ j < N /\ i - 1 \in 1 .. N /\ i - 1 < N /\ (j < i - 1 \/ j = i - 1)
    OBVIOUS
  <2>2. t[i - 1].upper_age_ns <= a /\ b < t[j].upper_age_ns
    BY <1>1, <1>3, <2>1 DEF StepAround
  <2>3. t[j].upper_age_ns <= t[i - 1].upper_age_ns
    BY <1>2, <2>1
  <2>4. t[j].upper_age_ns \in Nat /\ t[i - 1].upper_age_ns \in Nat
    BY <1>2, <2>1
  <2> QED
    BY <2>2, <2>3, <2>4
<1>5. t[i].value <= t[j].value
  <2>1. t[i].value \in Nat
    BY <1>2
  <2> QED
    BY <1>2, <1>4, <2>1
<1> QED
    BY <1>2, <1>3, <1>5 DEF StepValue

-----------------------------------------------------------------------------
(* The scores of two lines. *)

\* Queued lines of Pgs pages.
ScoreInv ==
    /\ steps \in Tables
    /\ ln \in [vpc : 0 .. (Pgs - 1), age : Nat] /\ best \in [vpc : 0 .. (Pgs - 1), age : Nat]

\* The ages of a table are numbers.
LEMMA TheAges ==
    ASSUME NEW t \in Tables
    PROVE  AgesOf[t] \subseteq Nat
<1>1. MaxU64 \in Nat /\ AgesOf[t] \in SUBSET (0 .. MaxU64)
  BY WidthAssumption, AgesAssumption
<1> QED
  BY <1>1

\* The value of an age, looked up or around it.
LEMMA TheValue ==
    ASSUME steps \in Tables, NEW age \in Nat
    PROVE  AgeValue(age) \in Nat /\ ValueAround(age) = AgeValue(age)
<1>1. CASE steps = RAW_LINEAR
    BY <1>1 DEF AgeValue, ValueAround, RawAge
<1>2. CASE steps # RAW_LINEAR
  <2>1. IsTable(steps)
    BY <1>2, TheTables
  <2>2. PICK x : x = age_step_lookup(age, steps)
    OBVIOUS
  <2>3. /\ x \in 1 .. Len(steps) /\ StepAround(steps, age, x)
        /\ \A i \in 1 .. Len(steps) : StepAround(steps, age, i) => i = x
    BY <2>1, <2>2, Lookup
  <2>4. DOMAIN steps = 1 .. Len(steps)
    BY <2>1 DEF IsTable
  <2>5. x = CHOOSE i \in DOMAIN steps : /\ i > 1 => steps[i - 1].upper_age_ns <= age
                                        /\ i < Len(steps) => age < steps[i].upper_age_ns
    BY <2>3, <2>4 DEF StepAround
  <2>6. ValueAround(age) = steps[x].value
    BY <1>2, <2>5, Zenon DEF ValueAround
  <2>7. AgeValue(age) = steps[x].value
    BY <1>2, <2>2 DEF AgeValue, StepValue
  <2>8. steps[x].value \in Nat
    BY <2>1, <2>3 DEF IsTable
  <2> QED
    BY <2>6, <2>7, <2>8
<1> QED
    BY <1>1, <1>2

\* An age that is no smaller counts for no less.
LEMMA OlderCounts ==
    ASSUME steps \in Tables, NEW a \in Nat, NEW b \in Nat, a <= b
    PROVE  AgeValue(a) <= AgeValue(b)
<1>1. CASE steps = RAW_LINEAR
    BY <1>1 DEF AgeValue, RawAge
<1>2. CASE steps # RAW_LINEAR
  <2>1. IsTable(steps)
    BY <1>2, TheTables
  <2> QED
    BY <1>2, <2>1, OlderIsHigher DEF AgeValue
<1> QED
    BY <1>1, <1>2

\* The counters of a queued line.
LEMMA TheCounters ==
    ASSUME NEW l \in [vpc : 0 .. (Pgs - 1), age : Nat]
    PROVE  l.vpc \in Nat /\ Ipc(l) \in Nat \ {0} /\ l.vpc * Ipc(l) <= MaxU64
<1>1. PICK P \in Nat \ {0}, M \in Nat : P = Pgs /\ M = MaxU64 /\ P * P <= M
    BY PagesAssumption, WidthAssumption
<1>2. PICK v \in Nat, p \in Nat : v = l.vpc /\ p = Ipc(l) /\ p # 0 /\ v <= P /\ p <= P
    BY <1>1 DEF Ipc
<1>3. v * p <= P * p /\ v * p \in Nat
    BY <1>2, Products
<1>4. P * p <= P * P /\ P * p \in Nat /\ P * P \in Nat
    BY <1>2, Products
<1>5. v * p <= M
    BY <1>1, <1>3, <1>4
<1> QED
    BY <1>1, <1>2, <1>5

\* The invariant makes the scores exact.
LEMMA TheScores ==
    ASSUME ScoreInv
    PROVE  ScoreExact
<1>0. MaxU64 \in Nat
    BY WidthAssumption
<1>1. ASSUME NEW l \in [vpc : 0 .. (Pgs - 1), age : Nat]
      PROVE  Score(l) = Capped(Exact(Ipc(l), l.vpc, AgeValue(l.age)))
  <2>1. l.vpc \in Nat /\ Ipc(l) \in Nat \ {0} /\ l.vpc * Ipc(l) <= MaxU64
    BY TheCounters
  <2>2. AgeValue(l.age) \in Nat
    BY TheValue DEF ScoreInv
  <2> QED
    BY <2>1, <2>2, ScoreIsExact DEF Score
<1>2. ln \in [vpc : 0 .. (Pgs - 1), age : Nat] /\ best \in [vpc : 0 .. (Pgs - 1), age : Nat]
    BY DEF ScoreInv
<1>3. Score(ln) = Capped((ValueAround(ln.age) * Ipc(ln)) \div (ln.vpc + 1))
  <2>1. ValueAround(ln.age) = AgeValue(ln.age)
    BY <1>2, TheValue DEF ScoreInv
  <2> QED
    BY <1>1, <1>2, <2>1, Zenon DEF Exact
<1>4. ASSUME ln.vpc < best.vpc, ln.age >= best.age
      PROVE  Wins(Score(ln), ln.vpc, 1, Score(best), best.vpc, 2)
  <2>1. PICK a \in Nat, b \in Nat : a = ln.vpc /\ b = best.vpc /\ a < b
    BY <1>2, <1>4, TheCounters
  <2>2. PICK i \in Nat, j \in Nat : i = Ipc(ln) /\ j = Ipc(best) /\ j <= i
    BY <1>2, <2>1, PagesAssumption DEF Ipc
  <2>3. PICK v \in Nat, w \in Nat : v = AgeValue(ln.age) /\ w = AgeValue(best.age) /\ w <= v
    <3>1. ln.age \in Nat /\ best.age \in Nat
      BY <1>2
    <3> QED
      BY <1>4, <3>1, TheValue, OlderCounts DEF ScoreInv
  <2>4. PICK x \in Nat, y \in Nat : x = Score(ln) /\ y = Score(best) /\ y <= x
    <3>1. Score(ln) = Capped(Exact(i, a, v)) /\ Score(best) = Capped(Exact(j, b, w))
      BY <1>1, <1>2, <2>1, <2>2, <2>3
    <3>2. a <= b
      BY <2>1
    <3> QED
      <4>1. /\ Capped(Exact(j, b, w)) <= Capped(Exact(i, a, v))
            /\ Capped(Exact(j, b, w)) \in Nat /\ Capped(Exact(i, a, v)) \in Nat
        BY <2>2, <2>3, <3>2, ScoreGrows
      <4> QED
        BY <3>1, <4>1
  <2> QED
    BY <2>1, <2>4 DEF Wins
<1>5. Score(ln) = LET exact == (ValueAround(ln.age) * Ipc(ln)) \div (ln.vpc + 1)
                  IN  IF exact > MaxU64 THEN MaxU64 ELSE exact
    BY <1>3, Zenon DEF Capped
<1> QED
    BY <1>4, <1>5, Zenon DEF ScoreExact

\* "Exact AgeValue * IPC / (VPC + 1), with saturating overflow handling", for
\* every table of the build, every size of a line, and lines of whatever ages:
\* AgesOf may be all the unsigned integers.
THEOREM ScoresAreExact ==
    SInit /\ [][GrowOlder]_svars => []ScoreExact
<1>1. SInit => ScoreInv
  <2> SUFFICES ASSUME SInit
               PROVE  ScoreInv
    OBVIOUS
  <2>1. AgesOf[steps] \subseteq Nat
    BY TheAges DEF SInit
  <2> QED
    BY <2>1 DEF SInit, ScoreInv
<1>2. ScoreInv /\ [GrowOlder]_svars => ScoreInv'
  <2> SUFFICES ASSUME ScoreInv, [GrowOlder]_svars
               PROVE  ScoreInv'
    OBVIOUS
  <2>1. CASE GrowOlder
    <3>1. AgesOf[steps] \subseteq Nat
      BY TheAges DEF ScoreInv
    <3> QED
      BY <2>1, <3>1 DEF GrowOlder, ScoreInv
  <2>2. CASE UNCHANGED svars
    BY <2>2 DEF svars, ScoreInv
  <2> QED
    BY <2>1, <2>2
<1>3. ScoreInv => ScoreExact
    BY TheScores
<1> QED
    BY <1>1, <1>2, <1>3, PTL

-----------------------------------------------------------------------------
(* Numbers of two digits. *)

\* Digit r of d below digit q.
Num(q, d, r) == q * d + r

\* A number has one way to be written with digits of d.
LEMMA OneWay ==
    ASSUME NEW d \in Nat \ {0}, NEW q \in Nat, NEW r \in 0 .. d - 1, NEW p \in Nat, NEW s \in 0 .. d - 1,
           Num(q, d, r) = Num(p, d, s)
    PROVE  q = p /\ r = s
<1>1. PICK x \in Nat, y \in Nat : x = q * d /\ y = p * d /\ x + r = y + s
    BY DEF Num
<1>2. ASSUME q + 1 <= p
      PROVE  FALSE
  <2>1. (q + 1) * d <= p * d /\ (q + 1) * d = x + d
    BY <1>1, <1>2, Products
  <2> QED
    BY <1>1, <2>1
<1>3. ASSUME p + 1 <= q
      PROVE  FALSE
  <2>1. (p + 1) * d <= q * d /\ (p + 1) * d = y + d
    BY <1>1, <1>3, Products
  <2> QED
    BY <1>1, <2>1
<1>4. q = p
    BY <1>2, <1>3
<1> QED
    BY <1>1, <1>4

\* Its digits are its quotient and its remainder.
LEMMA Digits ==
    ASSUME NEW d \in Nat \ {0}, NEW q \in Nat, NEW r \in 0 .. d - 1
    PROVE  Num(q, d, r) \in Nat /\ Num(q, d, r) \div d = q /\ Num(q, d, r) % d = r
<1>1. PICK n \in Nat : n = Num(q, d, r)
    BY DEF Num
<1>2. PICK p \in Nat, s \in 0 .. d - 1 : p = n \div d /\ s = n % d /\ n = d * p + s
    BY Divided
<1>3. Num(p, d, s) = n
    BY <1>2 DEF Num
<1>4. q = p /\ r = s
    BY <1>1, <1>3, OneWay
<1> QED
    BY <1>1, <1>2, <1>4

\* Every number has digits.
LEMMA HasDigits ==
    ASSUME NEW d \in Nat \ {0}, NEW n \in Nat
    PROVE  n \div d \in Nat /\ n % d \in 0 .. d - 1 /\ n = Num(n \div d, d, n % d)
<1>1. PICK p \in Nat, s \in 0 .. d - 1 : p = n \div d /\ s = n % d /\ n = d * p + s
    BY Divided
<1> QED
    BY <1>1 DEF Num

\* With the upper digit below e the number is below e * d, and the other way
\* round.
LEMMA Below ==
    ASSUME NEW d \in Nat \ {0}, NEW e \in Nat, NEW q \in Nat, NEW r \in 0 .. d - 1
    PROVE  e * d \in Nat /\ (q < e <=> Num(q, d, r) < e * d)
<1>1. PICK x \in Nat, y \in Nat : x = q * d /\ y = e * d
    OBVIOUS
<1>2. CASE q + 1 <= e
  <2>1. (q + 1) * d <= e * d /\ (q + 1) * d = x + d
    BY <1>1, <1>2, Products
  <2> QED
    BY <1>1, <1>2, <2>1 DEF Num
<1>3. CASE e <= q
  <2>1. e * d <= q * d
    BY <1>3, Products
  <2> QED
    BY <1>1, <1>3, <2>1 DEF Num
<1> QED
    BY <1>2, <1>3

\* The next number: the lower digit counts, or is carried.
LEMMA Counts ==
    ASSUME NEW d \in Nat \ {0}, NEW q \in Nat, NEW r \in 0 .. d - 1
    PROVE  /\ Num(q, d, r + 1) = Num(q, d, r) + 1
           /\ r + 1 = d => Num(q + 1, d, 0) = Num(q, d, r) + 1
<1>1. PICK x \in Nat : x = q * d /\ (q + 1) * d = x + d
    OBVIOUS
<1> QED
    BY <1>1 DEF Num

-----------------------------------------------------------------------------
(* Geometries. *)

\* Rounded up quotients.
LEMMA RoundedUp ==
    ASSUME NEW a \in Nat, NEW b \in Nat \ {0}
    PROVE  /\ DIV_ROUND_UP(a, b) \in Nat /\ b * DIV_ROUND_UP(a, b) >= a
           /\ a > 0 => DIV_ROUND_UP(a, b) > 0
<1>1. PICK n \in Nat : n = a + b - 1
    OBVIOUS
<1>2. PICK q \in Nat, r \in 0 .. b - 1 : q = n \div b /\ n = b * q + r
    BY <1>1, Divided
<1>3. PICK x \in Nat : x = b * q
    OBVIOUS
<1>4. DIV_ROUND_UP(a, b) = q
    BY <1>1, <1>2 DEF DIV_ROUND_UP
<1>5. x >= a
    BY <1>1, <1>2, <1>3
<1>6. a > 0 => q > 0
  <2> SUFFICES ASSUME a > 0, q = 0
               PROVE  FALSE
    OBVIOUS
  <2>1. x = 0
    BY <1>3
  <2> QED
    BY <1>5, <2>1
<1> QED
    BY <1>3, <1>4, <1>5, <1>6

\* An exact quotient.
LEMMA Divides ==
    ASSUME NEW a \in Nat \ {0}, NEW b \in Nat \ {0}, a % b = 0
    PROVE  a \div b \in Nat \ {0} /\ a = (a \div b) * b
<1>1. PICK q \in Nat : q = a \div b /\ a = b * q + (a % b)
    BY Divided
<1>2. a = b * q /\ q * b = b * q
    BY <1>1
<1>3. q # 0
  <2> SUFFICES ASSUME q = 0
               PROVE  FALSE
    OBVIOUS
  <2> QED
    BY <1>2
<1> QED
    BY <1>1, <1>2, <1>3

\* Products of numbers that are not zero.
LEMMA NotZero ==
    ASSUME NEW a \in Nat \ {0}, NEW b \in Nat \ {0}
    PROVE  a * b \in Nat \ {0}
OBVIOUS

\* C channels of L dies of blocks of W wordlines of P pages, and of K flash
\* pages of F pages to the wordline.
Shaped(g, C, L, W, P, K, F) ==
    /\ g.nchs = C /\ g.luns_per_ch = L
    /\ g.pgs_per_oneshotpg = P /\ P = K * F /\ g.pgs_per_flashpg = F
    /\ g.pgs_per_blk = W * P /\ g.flashpgs_per_blk = K * W
    /\ g.pgs_per_line = ((W * L) * C) * P

\* A geometry of some shape.
IsGeometry(g) ==
    /\ \E C, L, W, P, K, F \in Nat \ {0} : Shaped(g, C, L, W, P, K, F)
    /\ g.tt_lines \in Nat /\ g.capacity \in Nat /\ g.tt_lines * g.pgs_per_line >= g.capacity

\* What ssd_init_params derives is a geometry whose lines hold the capacity.
LEMMA TheGeometry ==
    ASSUME NEW c \in Devices
    PROVE  IsGeometry(ssd_init_params(c))
<1>1. /\ {c.NAND_CHANNELS, c.LUNS_PER_NAND_CH, c.nparts, c.FLASH_PAGE, c.ONESHOT_PAGE} \subseteq Nat \ {0}
      /\ {c.BLKS_PER_PLN, c.BLK_SIZE, c.capacity} \subseteq Nat
      /\ c.NAND_CHANNELS % c.nparts = 0 /\ c.ONESHOT_PAGE % c.FLASH_PAGE = 0
      /\ c.BLKS_PER_PLN > 0 \/ c.BLK_SIZE > 0
      /\ c.capacity >= c.nparts
    BY DeviceAssumption
<1>2. PICK L \in Nat \ {0}, F \in Nat \ {0}, P \in Nat \ {0} :
        L = c.LUNS_PER_NAND_CH /\ F = c.FLASH_PAGE /\ P = c.ONESHOT_PAGE
    BY <1>1
<1>3. PICK C \in Nat \ {0} : C = c.NAND_CHANNELS \div c.nparts
    BY <1>1, Divides
<1>4. PICK K \in Nat \ {0} : K = P \div F /\ P = K * F
  <2>1. P % F = 0
    BY <1>1, <1>2
  <2> QED
    BY <2>1, Divides
<1>5. PICK cap \in Nat \ {0} : cap = c.capacity \div c.nparts
  <2>1. PICK n \in Nat \ {0}, x \in Nat : n = c.nparts /\ x = c.capacity /\ n <= x
    BY <1>1
  <2>2. n * 1 <= x
    BY <2>1
  <2>3. 1 <= x \div n /\ x \div n \in Nat
    BY <2>2, Divided, Fits
  <2> QED
    BY <2>1, <2>3
<1>6. PICK D \in Nat \ {0} : D = C * L
    BY NotZero
<1>7. PICK B \in Nat \ {0}, T \in Nat \ {0} :
        /\ B = IF c.BLKS_PER_PLN > 0 THEN DIV_ROUND_UP(cap, c.BLKS_PER_PLN * D) ELSE c.BLK_SIZE
        /\ T = IF c.BLKS_PER_PLN > 0 THEN c.BLKS_PER_PLN ELSE DIV_ROUND_UP(cap, B * D)
        /\ T * (B * D) >= cap
  <2>1. CASE c.BLKS_PER_PLN > 0
    <3>1. PICK t \in Nat \ {0} : t = c.BLKS_PER_PLN
      BY <1>1, <2>1
    <3>2. PICK d \in Nat \ {0} : d = t * D
      BY NotZero
    <3>3. PICK b \in Nat \ {0} : b = DIV_ROUND_UP(cap, d) /\ d * b >= cap
      <4>1. cap > 0 /\ cap \in Nat
        OBVIOUS
      <4>2. DIV_ROUND_UP(cap, d) \in Nat /\ d * DIV_ROUND_UP(cap, d) >= cap /\ DIV_ROUND_UP(cap, d) > 0
        BY <4>1, RoundedUp
      <4> QED
        BY <4>2
    <3>4. t * (b * D) = d * b
      BY <3>2
    <3> QED
      BY <2>1, <3>1, <3>2, <3>3, <3>4
  <2>2. CASE ~ (c.BLKS_PER_PLN > 0)
    <3>1. PICK b \in Nat \ {0} : b = c.BLK_SIZE
      BY <1>1, <2>2
    <3>2. PICK d \in Nat \ {0} : d = b * D
      BY NotZero
    <3>3. PICK t \in Nat \ {0} : t = DIV_ROUND_UP(cap, d) /\ d * t >= cap
      <4>1. cap > 0 /\ cap \in Nat
        OBVIOUS
      <4>2. DIV_ROUND_UP(cap, d) \in Nat /\ d * DIV_ROUND_UP(cap, d) >= cap /\ DIV_ROUND_UP(cap, d) > 0
        BY <4>1, RoundedUp
      <4> QED
        BY <4>2
    <3>4. t * (b * D) = d * t
      BY <3>2
    <3> QED
      BY <2>2, <3>1, <3>2, <3>3, <3>4
  <2> QED
    BY <2>1, <2>2
<1>8. PICK W \in Nat \ {0} : W = DIV_ROUND_UP(B, P) /\ P * W >= B
  <2>1. B > 0 /\ B \in Nat
    OBVIOUS
  <2>2. DIV_ROUND_UP(B, P) \in Nat /\ P * DIV_ROUND_UP(B, P) >= B /\ DIV_ROUND_UP(B, P) > 0
    BY <2>1, RoundedUp
  <2> QED
    BY <2>2
<1>9. PICK g : g = ssd_init_params(c)
    OBVIOUS
<1>10. g = [nchs |-> C, luns_per_ch |-> L, pgs_per_oneshotpg |-> P, pgs_per_flashpg |-> F,
            flashpgs_per_blk |-> K * W, pgs_per_blk |-> P * W, pgs_per_line |-> (D * P) * W,
            tt_lines |-> T, capacity |-> cap]
    BY <1>2, <1>3, <1>4, <1>5, <1>6, <1>7, <1>8, <1>9, Zenon DEF ssd_init_params
<1>11. P * W = W * P /\ (D * P) * W = ((W * L) * C) * P
    BY <1>6
<1>12. Shaped(g, C, L, W, P, K, F)
    BY <1>4, <1>10, <1>11 DEF Shaped
<1>13. T * ((D * P) * W) >= cap
  <2>1. PICK x \in Nat, y \in Nat : x = B * D /\ y = (P * W) * D /\ x <= y
    <3>1. PICK z \in Nat : z = P * W
      OBVIOUS
    <3> QED
      <4>1. B <= z /\ B \in Nat /\ D \in Nat
        BY <1>8, <3>1
      <4>2. B * D <= z * D /\ B * D \in Nat /\ z * D \in Nat
        BY <4>1, Products
      <4> QED
        BY <3>1, <4>2
  <2>2. T * x <= T * y /\ T * x \in Nat /\ T * y \in Nat
    BY <2>1, Products
  <2>3. (D * P) * W = y
    BY <2>1
  <2> QED
    BY <1>7, <2>1, <2>2, <2>3
<1>14. g.tt_lines = T /\ g.capacity = cap /\ g.pgs_per_line = (D * P) * W
    BY <1>10
<1>15. \E c1, l, w, p, k, f \in Nat \ {0} : Shaped(g, c1, l, w, p, k, f)
    BY <1>12
<1> QED
    BY <1>9, <1>13, <1>14, <1>15 DEF IsGeometry

-----------------------------------------------------------------------------
(* Numbers of pages. *)

\* The number of page n of die d of D and channel e of E, P pages in a row.
PageNo(D, E, P, n, d, e) == Num(Num(Num(n \div P, D, d), E, e), P, n % P)

\* The number of a page on the walk of the write pointer, and of collection.
FillNo(g, p) == PageNo(g.luns_per_ch, g.nchs, g.pgs_per_oneshotpg, p.pg, p.lun, p.ch)
CleanNo(g, p) == PageNo(g.nchs, g.luns_per_ch, g.pgs_per_flashpg, p.pg, p.ch, p.lun)

\* The pages of a line of C channels, L dies and N pages in a block.
Pages(C, L, N) == [ch : 0 .. C - 1, lun : 0 .. L - 1, pg : 0 .. N - 1]

\* Three digits: which of C, which of L, which of N.
LEMMA ThreeDigits ==
    ASSUME NEW N \in Nat \ {0}, NEW C \in Nat \ {0}, NEW L \in Nat \ {0},
           NEW n \in 0 .. N - 1, NEW c \in 0 .. C - 1, NEW l \in 0 .. L - 1
    PROVE  /\ Num(n, C, c) \in 0 .. N * C - 1
           /\ Num(Num(n, C, c), L, l) \in 0 .. (N * C) * L - 1
           /\ N * C \in Nat \ {0} /\ (N * C) * L \in Nat \ {0}
<1>0. n \in Nat /\ n < N /\ N \in Nat
    OBVIOUS
<1>1. PICK x \in Nat : x = Num(n, C, c) /\ x < N * C
  <2>1. Num(n, C, c) \in Nat
    BY <1>0, Digits
  <2>2. Num(n, C, c) < N * C
    BY <1>0, Below
  <2> QED
    BY <2>1, <2>2
<1>2. PICK M \in Nat \ {0} : M = N * C
    BY NotZero
<1>3. PICK y \in Nat : y = Num(x, L, l) /\ y < M * L
    BY <1>1, <1>2, Digits, Below
<1>4. M * L \in Nat \ {0}
    BY NotZero
<1> QED
    BY <1>1, <1>2, <1>3, <1>4

\* Both walks give every page of a line a number of its own.
OneToOne(D, E, P) ==
    \A n, m \in Nat : \A d1, d2 \in 0 .. D - 1 : \A e1, e2 \in 0 .. E - 1 :
        PageNo(D, E, P, n, d1, e1) = PageNo(D, E, P, m, d2, e2) => n = m /\ d1 = d2 /\ e1 = e2

\* No two pages have the same number.
LEMMA NoTwoPages ==
    ASSUME NEW D \in Nat \ {0}, NEW E \in Nat \ {0}, NEW P \in Nat \ {0}
    PROVE  OneToOne(D, E, P)
<1> SUFFICES ASSUME NEW n \in Nat, NEW m \in Nat,
                    NEW d1 \in 0 .. D - 1, NEW d2 \in 0 .. D - 1, NEW e1 \in 0 .. E - 1, NEW e2 \in 0 .. E - 1,
                    PageNo(D, E, P, n, d1, e1) = PageNo(D, E, P, m, d2, e2)
             PROVE  n = m /\ d1 = d2 /\ e1 = e2
    BY DEF OneToOne
<1>1. PICK q1 \in Nat, r1 \in 0 .. P - 1 : q1 = n \div P /\ r1 = n % P /\ n = Num(q1, P, r1)
    BY HasDigits
<1>2. PICK q2 \in Nat, r2 \in 0 .. P - 1 : q2 = m \div P /\ r2 = m % P /\ m = Num(q2, P, r2)
    BY HasDigits
<1>3. PICK x1 \in Nat, x2 \in Nat : x1 = Num(q1, D, d1) /\ x2 = Num(q2, D, d2)
    BY Digits
<1>4. PICK y1 \in Nat, y2 \in Nat : y1 = Num(x1, E, e1) /\ y2 = Num(x2, E, e2)
    BY Digits
<1>5. Num(y1, P, r1) = Num(y2, P, r2)
    BY <1>1, <1>2, <1>3, <1>4 DEF PageNo
<1>6. y1 = y2 /\ r1 = r2
    BY <1>5, OneWay
<1>7. x1 = x2 /\ e1 = e2
  <2>1. Num(x1, E, e1) = Num(x2, E, e2)
    BY <1>4, <1>6
  <2> QED
    BY <2>1, OneWay
<1>8. q1 = q2 /\ d1 = d2
  <2>1. Num(q1, D, d1) = Num(q2, D, d2)
    BY <1>3, <1>7
  <2> QED
    BY <2>1, OneWay
<1> QED
    BY <1>1, <1>2, <1>6, <1>7, <1>8

\* The sizes of a shape, counted in flash pages of a block.
LEMMA BlockNumbers ==
    ASSUME NEW g, NEW C \in Nat \ {0}, NEW L \in Nat \ {0}, NEW W \in Nat \ {0}, NEW P \in Nat \ {0},
           NEW K \in Nat \ {0}, NEW F \in Nat \ {0}, Shaped(g, C, L, W, P, K, F)
    PROVE  /\ g.flashpgs_per_blk \in Nat \ {0}
           /\ g.pgs_per_blk = g.flashpgs_per_blk * F
           /\ g.pgs_per_line = ((g.flashpgs_per_blk * C) * L) * F
<1>0. /\ P = K * F /\ g.pgs_per_blk = W * P /\ g.flashpgs_per_blk = K * W
      /\ g.pgs_per_line = ((W * L) * C) * P
    BY DEF Shaped
<1>1. PICK B \in Nat \ {0}, V \in Nat \ {0} : B = W * P /\ V = K * W /\ B = g.pgs_per_blk /\ V = g.flashpgs_per_blk
    BY <1>0, NotZero
<1>2. B = V * F
    BY <1>0, <1>1
<1>3. PICK T \in Nat \ {0} : T = ((W * L) * C) * P /\ T = g.pgs_per_line
    BY <1>0, NotZero
<1>4. T = ((V * C) * L) * F
    BY <1>0, <1>1, <1>3
<1> QED
    BY <1>1, <1>2, <1>3, <1>4

\* The numbers of the pages of a line are below their number.
LEMMA PageNumbers ==
    ASSUME NEW g, NEW C \in Nat \ {0}, NEW L \in Nat \ {0}, NEW W \in Nat \ {0}, NEW P \in Nat \ {0},
           NEW K \in Nat \ {0}, NEW F \in Nat \ {0}, Shaped(g, C, L, W, P, K, F)
    PROVE  /\ g.pgs_per_line \in Nat \ {0} /\ g.pgs_per_blk \in Nat \ {0} /\ g.flashpgs_per_blk \in Nat \ {0}
           /\ g.pgs_per_blk = g.flashpgs_per_blk * F
           /\ g.pgs_per_line = ((g.flashpgs_per_blk * C) * L) * F
           /\ \A p \in Pages(C, L, g.pgs_per_blk) :
                FillNo(g, p) \in 0 .. g.pgs_per_line - 1 /\ CleanNo(g, p) \in 0 .. g.pgs_per_line - 1
           /\ \A p, q \in Pages(C, L, g.pgs_per_blk) :
                (FillNo(g, p) = FillNo(g, q) => p = q) /\ (CleanNo(g, p) = CleanNo(g, q) => p = q)
<1>0. /\ g.nchs = C /\ g.luns_per_ch = L
      /\ g.pgs_per_oneshotpg = P /\ P = K * F /\ g.pgs_per_flashpg = F
      /\ g.pgs_per_blk = W * P /\ g.flashpgs_per_blk = K * W
      /\ g.pgs_per_line = ((W * L) * C) * P
    BY DEF Shaped
<1>1. PICK B \in Nat \ {0}, V \in Nat \ {0} : B = W * P /\ V = K * W /\ B = g.pgs_per_blk /\ V = g.flashpgs_per_blk
    BY <1>0, NotZero
<1>2. B = V * F
    BY <1>0, <1>1
<1>3. PICK T \in Nat \ {0} : T = ((W * L) * C) * P /\ T = g.pgs_per_line
    BY <1>0, NotZero
<1>4. T = ((V * C) * L) * F
    BY <1>0, <1>1, <1>3
<1>5. ASSUME NEW p \in Pages(C, L, B)
      PROVE  FillNo(g, p) \in 0 .. T - 1 /\ CleanNo(g, p) \in 0 .. T - 1
  <2>1. PICK n \in Nat, c \in 0 .. C - 1, l \in 0 .. L - 1 : n = p.pg /\ c = p.ch /\ l = p.lun /\ n < B
    BY DEF Pages
  <2>2. PICK q \in Nat, r \in 0 .. P - 1 : q = n \div P /\ r = n % P /\ n = Num(q, P, r)
    <3>1. n \div P \in Nat /\ n % P \in 0 .. P - 1 /\ n = Num(n \div P, P, n % P)
      BY HasDigits
    <3> QED
      BY <3>1
  <2>3. q \in 0 .. W - 1
    <3>1. q < W
      BY <1>1, <2>1, <2>2, Below
    <3> QED
      BY <3>1
  <2>4. FillNo(g, p) \in 0 .. T - 1
    <3>1. PICK x \in 0 .. (W * L) * C - 1, M \in Nat \ {0} : x = Num(Num(q, L, l), C, c) /\ M = (W * L) * C
      BY <2>3, ThreeDigits
    <3>2. Num(x, P, r) < M * P /\ Num(x, P, r) \in Nat
      <4>1. x \in Nat /\ M \in Nat /\ x < M
        BY <3>1
      <4>2. Num(x, P, r) \in Nat
        BY <4>1, Digits
      <4>3. Num(x, P, r) < M * P
        BY <4>1, Below
      <4> QED
        BY <4>2, <4>3
    <3>3. FillNo(g, p) = Num(x, P, r) /\ M * P = T
      BY <1>0, <1>3, <2>1, <2>2, <3>1 DEF FillNo, PageNo
    <3> QED
      BY <3>2, <3>3
  <2>5. PICK f \in Nat, s \in 0 .. F - 1 : f = n \div F /\ s = n % F /\ n = Num(f, F, s)
    <3>1. n \div F \in Nat /\ n % F \in 0 .. F - 1 /\ n = Num(n \div F, F, n % F)
      BY HasDigits
    <3> QED
      BY <3>1
  <2>6. f \in 0 .. V - 1
    <3>1. f < V
      BY <1>2, <2>1, <2>5, Below
    <3> QED
      BY <3>1
  <2>7. CleanNo(g, p) \in 0 .. T - 1
    <3>1. PICK x \in 0 .. (V * C) * L - 1, M \in Nat \ {0} : x = Num(Num(f, C, c), L, l) /\ M = (V * C) * L
      BY <2>6, ThreeDigits
    <3>2. Num(x, F, s) < M * F /\ Num(x, F, s) \in Nat
      <4>1. x \in Nat /\ M \in Nat /\ x < M
        BY <3>1
      <4>2. Num(x, F, s) \in Nat
        BY <4>1, Digits
      <4>3. Num(x, F, s) < M * F
        BY <4>1, Below
      <4> QED
        BY <4>2, <4>3
    <3>3. CleanNo(g, p) = Num(x, F, s) /\ M * F = T
      BY <1>0, <1>4, <2>1, <2>5, <3>1 DEF CleanNo, PageNo
    <3> QED
      BY <3>2, <3>3
  <2> QED
    BY <2>4, <2>7
<1>6. ASSUME NEW p \in Pages(C, L, B), NEW q \in Pages(C, L, B)
      PROVE  (FillNo(g, p) = FillNo(g, q) => p = q) /\ (CleanNo(g, p) = CleanNo(g, q) => p = q)
  <2>1. PICK n \in Nat, c \in 0 .. C - 1, l \in 0 .. L - 1 :
          n = p.pg /\ c = p.ch /\ l = p.lun /\ p = [ch |-> c, lun |-> l, pg |-> n]
    BY DEF Pages
  <2>2. PICK m \in Nat, d \in 0 .. C - 1, k \in 0 .. L - 1 :
          m = q.pg /\ d = q.ch /\ k = q.lun /\ q = [ch |-> d, lun |-> k, pg |-> m]
    BY DEF Pages
  <2>3. ASSUME FillNo(g, p) = FillNo(g, q)
        PROVE  p = q
    <3>1. PageNo(L, C, P, n, l, c) = PageNo(L, C, P, m, k, d)
      BY <1>0, <2>1, <2>2, <2>3, Zenon DEF FillNo
    <3>2. OneToOne(L, C, P)
      BY NoTwoPages
    <3>3. n = m /\ l = k /\ c = d
      BY <3>1, <3>2 DEF OneToOne
    <3> QED
      BY <2>1, <2>2, <3>3
  <2>4. ASSUME CleanNo(g, p) = CleanNo(g, q)
        PROVE  p = q
    <3>1. PageNo(C, L, F, n, c, l) = PageNo(C, L, F, m, d, k)
      BY <1>0, <2>1, <2>2, <2>4, Zenon DEF CleanNo
    <3>2. OneToOne(C, L, F)
      BY NoTwoPages
    <3>3. n = m /\ l = k /\ c = d
      BY <3>1, <3>2 DEF OneToOne
    <3> QED
      BY <2>1, <2>2, <3>3
  <2> QED
    BY <2>3, <2>4
<1> QED
    BY <1>1, <1>2, <1>3, <1>4, <1>5, <1>6

-----------------------------------------------------------------------------
(* The walk of the write pointer. *)

\* The number of a page from its digits.
Splits(D, E, P) ==
    \A q \in Nat : \A r \in 0 .. P - 1 : \A d, e :
        PageNo(D, E, P, Num(q, P, r), d, e) = Num(Num(Num(q, D, d), E, e), P, r)

\* A number of a page splits into its digits.
LEMMA PageNoDigits ==
    ASSUME NEW D \in Nat \ {0}, NEW E \in Nat \ {0}, NEW P \in Nat \ {0}
    PROVE  Splits(D, E, P)
BY Digits DEF PageNo, Splits

\* A page within its one-shot page, and the one after it.
LEMMA InOneShot ==
    ASSUME NEW W \in Nat \ {0}, NEW P \in Nat \ {0}, NEW n \in 0 .. W * P - 1
    PROVE  \E q \in 0 .. W - 1, r \in 0 .. P - 1 :
            /\ n = Num(q, P, r) /\ n % P = r
            /\ r + 1 < P => n + 1 = Num(q, P, r + 1) /\ n + 1 \in 0 .. W * P - 1 /\ (n + 1) % P = r + 1
            /\ r + 1 = P => /\ n + 1 = Num(q + 1, P, 0) /\ (n + 1) % P = 0
                            /\ n + 1 - P = Num(q, P, 0) /\ n + 1 - P \in 0 .. W * P - 1
                            /\ n + 1 = W * P <=> q + 1 = W
                            /\ q + 1 < W => n + 1 \in 0 .. W * P - 1
<1>1. PICK B \in Nat \ {0} : B = W * P
    BY NotZero
<1>2. n \in Nat /\ n < B
    BY <1>1
<1>3. PICK q \in Nat, r \in 0 .. P - 1 : n % P = r /\ n = Num(q, P, r)
    BY <1>2, HasDigits
<1>4. q < W
  <2>1. Num(q, P, r) < W * P
    BY <1>1, <1>2, <1>3
  <2> QED
    BY <2>1, Below
<1>5. q \in 0 .. W - 1
    BY <1>4
<1>6. ASSUME r + 1 < P
      PROVE  n + 1 = Num(q, P, r + 1) /\ n + 1 \in 0 .. W * P - 1 /\ (n + 1) % P = r + 1
  <2>1. r + 1 \in 0 .. P - 1
    BY <1>6
  <2>2. n + 1 = Num(q, P, r + 1)
    BY <1>3, Counts
  <2>3. Num(q, P, r + 1) < W * P /\ Num(q, P, r + 1) % P = r + 1
    BY <1>4, <2>1, Below, Digits
  <2> QED
    BY <1>1, <1>2, <2>2, <2>3
<1>7. ASSUME r + 1 = P
      PROVE  /\ n + 1 = Num(q + 1, P, 0) /\ (n + 1) % P = 0
             /\ n + 1 - P = Num(q, P, 0) /\ n + 1 - P \in 0 .. W * P - 1
             /\ n + 1 = W * P <=> q + 1 = W
             /\ q + 1 < W => n + 1 \in 0 .. W * P - 1
  <2>1. 0 \in 0 .. P - 1 /\ q + 1 \in Nat
    OBVIOUS
  <2>2. n + 1 = Num(q + 1, P, 0)
    BY <1>3, <1>7, Counts
  <2>3. Num(q + 1, P, 0) % P = 0
    BY <2>1, Digits
  <2>4. PICK x \in Nat : x = q * P
    OBVIOUS
  <2>5. n + 1 - P = Num(q, P, 0) /\ n + 1 - P \in Nat
    BY <1>3, <1>7, <2>4 DEF Num
  <2>6. n + 1 - P \in 0 .. B - 1
    BY <1>2, <2>5
  <2>7. q + 1 < W <=> n + 1 < W * P
    BY <2>1, <2>2, Below
  <2>8. n + 1 = W * P <=> q + 1 = W
    BY <1>1, <1>2, <1>4, <2>7
  <2>9. q + 1 < W => n + 1 \in 0 .. W * P - 1
    BY <1>1, <1>2, <2>7
  <2> QED
    BY <1>1, <2>2, <2>3, <2>5, <2>6, <2>8, <2>9
<1> QED
    BY <1>3, <1>5, <1>6, <1>7

\* Where a page is, and where it is not.
LEMMA PagesAre ==
    ASSUME NEW C, NEW L, NEW W, NEW P, NEW K, NEW F, Shaped(spp, C, L, W, P, K, F)
    PROVE  PagesOfLine = Pages(C, L, W * P)
BY DEF Shaped, PagesOfLine, Pages, pgs_per_blk

\* The mark of a line that is used up is not a page.
LEMMA UsedIsNone ==
    ASSUME NEW C, NEW L, NEW N
    PROVE  Used \notin Pages(C, L, N)
<1> SUFFICES ASSUME Used \in Pages(C, L, N)
             PROVE  FALSE
    OBVIOUS
<1>1. Used.ch \in 0 .. C - 1
    BY DEF Pages
<1> QED
    BY <1>1 DEF Used

\* The next channel.
LEMMA NextChannel ==
    ASSUME NEW w \in [ch : Int, lun : Int, pg : Int], NEW P \in Nat, NEW C \in Nat,
           P = spp.pgs_per_oneshotpg, (w.pg + 1) % P = 0, w.ch + 1 # C, C = spp.nchs
    PROVE  NextPage(w) = [ch |-> w.ch + 1, lun |-> w.lun, pg |-> (w.pg + 1) - P]
BY DEF NextPage

\* The write pointer steps to the page with the next number, and leaves the
\* line after the last one.
LEMMA NextIsNext ==
    ASSUME NEW C \in Nat \ {0}, NEW L \in Nat \ {0}, NEW W \in Nat \ {0}, NEW P \in Nat \ {0},
           NEW K \in Nat \ {0}, NEW F \in Nat \ {0}, Shaped(spp, C, L, W, P, K, F),
           NEW w \in PagesOfLine
    PROVE  \/ NextPage(w) = Used /\ FillNo(spp, w) + 1 = spp.pgs_per_line
           \/ NextPage(w) \in PagesOfLine /\ FillNo(spp, NextPage(w)) = FillNo(spp, w) + 1
<1>0. /\ spp.nchs = C /\ spp.luns_per_ch = L /\ spp.pgs_per_oneshotpg = P
      /\ pgs_per_blk = W * P /\ spp.pgs_per_line = ((W * L) * C) * P
    BY DEF Shaped, pgs_per_blk
<1>1. PICK n \in 0 .. W * P - 1, c \in 0 .. C - 1, l \in 0 .. L - 1 :
        w = [ch |-> c, lun |-> l, pg |-> n]
  <2>1. PICK N : N = W * P
    OBVIOUS
  <2>2. w \in Pages(C, L, N)
    BY <2>1, PagesAre
  <2>3. w.pg \in 0 .. N - 1 /\ w.ch \in 0 .. C - 1 /\ w.lun \in 0 .. L - 1
        /\ w = [ch |-> w.ch, lun |-> w.lun, pg |-> w.pg]
    BY <2>2 DEF Pages
  <2> QED
    BY <2>1, <2>3
<1>2. PICK q \in 0 .. W - 1, r \in 0 .. P - 1 :
        /\ n = Num(q, P, r) /\ n % P = r
        /\ r + 1 < P => n + 1 = Num(q, P, r + 1) /\ n + 1 \in 0 .. W * P - 1 /\ (n + 1) % P = r + 1
        /\ r + 1 = P => /\ n + 1 = Num(q + 1, P, 0) /\ (n + 1) % P = 0
                        /\ n + 1 - P = Num(q, P, 0) /\ n + 1 - P \in 0 .. W * P - 1
                        /\ n + 1 = W * P <=> q + 1 = W
                        /\ q + 1 < W => n + 1 \in 0 .. W * P - 1
    BY InOneShot
<1>3. PICK x \in Nat : x = Num(q, L, l)
    BY Digits
<1>4. PICK y \in Nat : y = Num(x, C, c)
    BY Digits
<1>5. PICK z \in Nat : z = Num(y, P, r)
    BY Digits
<1>split. Splits(L, C, P)
    BY PageNoDigits
<1>6. FillNo(spp, w) = z
  <2>1. PageNo(L, C, P, Num(q, P, r), l, c) = Num(Num(Num(q, L, l), C, c), P, r)
    BY <1>split DEF Splits
  <2> QED
    BY <1>0, <1>1, <1>2, <1>3, <1>4, <1>5, <2>1 DEF FillNo
<1>7. ASSUME NEW m \in 0 .. W * P - 1, NEW d \in 0 .. C - 1, NEW k \in 0 .. L - 1
      PROVE  /\ [ch |-> d, lun |-> k, pg |-> m] \in PagesOfLine
             /\ FillNo(spp, [ch |-> d, lun |-> k, pg |-> m]) = PageNo(L, C, P, m, k, d)
    BY <1>0, PagesAre DEF Pages, FillNo
<1>8. CASE r + 1 < P
  <2>1. NextPage(w) = [ch |-> c, lun |-> l, pg |-> n + 1]
    BY <1>0, <1>1, <1>2, <1>8 DEF NextPage
  <2>2. PageNo(L, C, P, n + 1, l, c) = Num(y, P, r + 1)
    <3>1. r + 1 \in 0 .. P - 1
      BY <1>8
    <3> QED
      BY <1>2, <1>3, <1>4, <1>8, <3>1, <1>split DEF Splits
  <2>3. Num(y, P, r + 1) = z + 1
    BY <1>5, Counts
  <2> QED
    BY <1>2, <1>6, <1>7, <1>8, <2>1, <2>2, <2>3
<1>9. CASE r + 1 = P
  <2>0. 0 \in 0 .. P - 1 /\ 0 \in 0 .. C - 1 /\ 0 \in 0 .. L - 1
    OBVIOUS
  <2>1. Num(y + 1, P, 0) = z + 1
    BY <1>5, <1>9, Counts
  <2>2. (n + 1) % P = 0
    BY <1>2, <1>9
  <2>3. PICK base \in 0 .. W * P - 1 : base = n + 1 - P /\ base = Num(q, P, 0)
    BY <1>2, <1>9
  <2>4. CASE c + 1 # C
    <3>1. c + 1 \in 0 .. C - 1
      BY <2>4
    <3>2. NextPage(w) = [ch |-> c + 1, lun |-> l, pg |-> base]
      <4>1. w.pg = n /\ w.ch = c /\ w.lun = l
        BY <1>1
      <4>2. (w.pg + 1) % P = 0 /\ w.ch + 1 # spp.nchs
        BY <1>0, <2>2, <2>4, <4>1
      <4>3. NextPage(w) = [ch |-> w.ch + 1, lun |-> w.lun, pg |-> (w.pg + 1) - P]
        BY <1>0, <1>1, <4>2, NextChannel
      <4> QED
        BY <2>3, <4>1, <4>3
    <3>3. Num(x, C, c + 1) = y + 1
      BY <1>4, Counts
    <3>4. PageNo(L, C, P, base, l, c + 1) = Num(Num(x, C, c + 1), P, 0)
      BY <1>3, <2>0, <2>3, <1>split DEF Splits
    <3> QED
      BY <1>6, <1>7, <2>1, <3>1, <3>2, <3>3, <3>4
  <2>5. CASE c + 1 = C /\ l + 1 # L
    <3>1. l + 1 \in 0 .. L - 1
      BY <2>5
    <3>2. NextPage(w) = [ch |-> 0, lun |-> l + 1, pg |-> base]
      BY <1>0, <1>1, <2>2, <2>3, <2>5 DEF NextPage
    <3>3. Num(q, L, l + 1) = x + 1
      BY <1>3, Counts
    <3>4. Num(x + 1, C, 0) = y + 1
      BY <1>4, <2>5, Counts
    <3>5. PageNo(L, C, P, base, l + 1, 0) = Num(Num(Num(q, L, l + 1), C, 0), P, 0)
      BY <2>0, <2>3, <1>split DEF Splits
    <3> QED
      BY <1>6, <1>7, <2>0, <2>1, <3>1, <3>2, <3>3, <3>4, <3>5
  <2>6. CASE c + 1 = C /\ l + 1 = L
    <3>1. Num(q + 1, L, 0) = x + 1
      BY <1>3, <2>6, Counts
    <3>2. Num(x + 1, C, 0) = y + 1
      BY <1>4, <2>6, Counts
    <3>3. CASE q + 1 = W
      <4>1. NextPage(w) = Used
        BY <1>0, <1>1, <1>2, <1>9, <2>2, <2>3, <2>6, <3>3 DEF NextPage
      <4>2. Num(Num(Num(W, L, 0), C, 0), P, 0) = z + 1
        BY <2>1, <3>1, <3>2, <3>3
      <4>3. Num(Num(Num(W, L, 0), C, 0), P, 0) = ((W * L) * C) * P
        <5>1. PICK t \in Nat : t = W * L
          OBVIOUS
        <5>2. PICK u \in Nat : u = t * C
          OBVIOUS
        <5>3. Num(W, L, 0) = t /\ Num(t, C, 0) = u /\ Num(u, P, 0) = u * P
          BY <5>1, <5>2 DEF Num
        <5> QED
          BY <5>1, <5>2, <5>3
      <4> QED
        BY <1>0, <1>6, <4>1, <4>2, <4>3
    <3>4. CASE q + 1 # W
      <4>1. q + 1 < W /\ q + 1 \in Nat
        BY <3>4
      <4>2. n + 1 \in 0 .. W * P - 1 /\ n + 1 # W * P /\ n + 1 = Num(q + 1, P, 0)
        BY <1>2, <1>9, <3>4, <4>1
      <4>3. NextPage(w) = [ch |-> 0, lun |-> 0, pg |-> n + 1]
        BY <1>0, <1>1, <2>2, <2>6, <4>2 DEF NextPage
      <4>4. PageNo(L, C, P, n + 1, 0, 0) = Num(Num(Num(q + 1, L, 0), C, 0), P, 0)
        BY <2>0, <4>1, <4>2, <1>split DEF Splits
      <4> QED
        BY <1>6, <1>7, <2>0, <2>1, <3>1, <3>2, <4>2, <4>3, <4>4
    <3> QED
      BY <3>3, <3>4
  <2> QED
    BY <2>4, <2>5, <2>6
<1> QED
    BY <1>8, <1>9

-----------------------------------------------------------------------------
(* The pages that have been filled. *)


\* The pages filled are those numbered 0, 1, ... up to the write pointer.
FillInv ==
    /\ IsGeometry(spp)
    /\ filled \in Seq(PagesOfLine) /\ \A i \in 1 .. Len(filled) : FillNo(spp, filled[i]) = i - 1
    /\ IF wpp = Used THEN Len(filled) = spp.pgs_per_line
       ELSE wpp \in PagesOfLine /\ FillNo(spp, wpp) = Len(filled)

\* The numbers of the pages of the line.
LEMMA LineNumbers ==
    ASSUME IsGeometry(spp)
    PROVE  /\ spp.pgs_per_line \in Nat \ {0} /\ spp.flashpgs_per_blk \in Nat \ {0} /\ spp.pgs_per_blk \in Nat \ {0}
           /\ \A p \in PagesOfLine :
                FillNo(spp, p) \in 0 .. spp.pgs_per_line - 1 /\ CleanNo(spp, p) \in 0 .. spp.pgs_per_line - 1
           /\ \A p, q \in PagesOfLine :
                (FillNo(spp, p) = FillNo(spp, q) => p = q) /\ (CleanNo(spp, p) = CleanNo(spp, q) => p = q)
<1>1. PICK C \in Nat \ {0}, L \in Nat \ {0}, W \in Nat \ {0}, P \in Nat \ {0}, K \in Nat \ {0}, F \in Nat \ {0} :
        Shaped(spp, C, L, W, P, K, F)
    BY DEF IsGeometry
<1>2. PagesOfLine = Pages(C, L, spp.pgs_per_blk)
    BY <1>1, PagesAre DEF Shaped
<1>3. PICK g : g = spp
    OBVIOUS
<1>4. Shaped(g, C, L, W, P, K, F)
    BY <1>1, <1>3
<1>5. /\ g.pgs_per_line \in Nat \ {0} /\ g.pgs_per_blk \in Nat \ {0} /\ g.flashpgs_per_blk \in Nat \ {0}
      /\ \A p \in Pages(C, L, g.pgs_per_blk) :
           FillNo(g, p) \in 0 .. g.pgs_per_line - 1 /\ CleanNo(g, p) \in 0 .. g.pgs_per_line - 1
      /\ \A p, q \in Pages(C, L, g.pgs_per_blk) :
           (FillNo(g, p) = FillNo(g, q) => p = q) /\ (CleanNo(g, p) = CleanNo(g, q) => p = q)
    BY <1>4, PageNumbers
<1> QED
    BY <1>2, <1>3, <1>5

\* The page of a number is there once there are more pages than that.
LEMMA FilledPage ==
    ASSUME FillInv, NEW p \in PagesOfLine, FillNo(spp, p) < Len(filled)
    PROVE  p \in ToSet(filled)
<1>1. IsGeometry(spp)
    BY DEF FillInv
<1>2. PICK n \in Nat : n = FillNo(spp, p)
    BY <1>1, LineNumbers
<1>3. Len(filled) \in Nat /\ n + 1 \in 1 .. Len(filled)
    BY <1>2 DEF FillInv
<1>4. filled[n + 1] \in PagesOfLine /\ FillNo(spp, filled[n + 1]) = (n + 1) - 1
    BY <1>3 DEF FillInv
<1>5. filled[n + 1] = p
    BY <1>1, <1>2, <1>4, LineNumbers
<1>6. DOMAIN filled = 1 .. Len(filled)
    BY DEF FillInv
<1> QED
    BY <1>3, <1>5, <1>6 DEF ToSet

\* Page p is the last one of its one-shot page and q has the number k below.
Behind(P, p, q, k) == p.pg % P = P - 1 /\ FillNo(spp, q) + k = FillNo(spp, p)

\* Then they are in one block, one after the other.
InUnit(P, p, q, k) ==
    Behind(P, p, q, k) => FillNo(spp, p) + 1 >= P /\ BlkOfPage(q) = BlkOfPage(p) /\ p.pg - q.pg = k

\* The pages numbered just below the last one of a wordline are its program unit.
LEMMA OneUnit ==
    ASSUME NEW C \in Nat \ {0}, NEW L \in Nat \ {0}, NEW W \in Nat \ {0}, NEW P \in Nat \ {0},
           NEW K \in Nat \ {0}, NEW F \in Nat \ {0}, Shaped(spp, C, L, W, P, K, F),
           NEW p \in PagesOfLine, NEW q \in PagesOfLine, NEW k \in 0 .. P - 1
    PROVE  InUnit(P, p, q, k)
<1> SUFFICES ASSUME Behind(P, p, q, k)
             PROVE  FillNo(spp, p) + 1 >= P /\ BlkOfPage(q) = BlkOfPage(p) /\ p.pg - q.pg = k
    BY DEF InUnit
<1>0. /\ spp.nchs = C /\ spp.luns_per_ch = L /\ spp.pgs_per_oneshotpg = P /\ pgs_per_blk = W * P
    BY DEF Shaped, pgs_per_blk
<1>1. PICK N \in Nat \ {0} : N = W * P /\ PagesOfLine = Pages(C, L, N)
    BY NotZero, PagesAre
<1>2. /\ p.pg \in Nat /\ p.ch \in 0 .. C - 1 /\ p.lun \in 0 .. L - 1
      /\ q.pg \in Nat /\ q.ch \in 0 .. C - 1 /\ q.lun \in 0 .. L - 1
    BY <1>1 DEF Pages
<1>3. PICK a \in Nat, r \in 0 .. P - 1 : a = p.pg \div P /\ r = p.pg % P /\ p.pg = Num(a, P, r)
  <2>1. p.pg \div P \in Nat /\ p.pg % P \in 0 .. P - 1 /\ p.pg = Num(p.pg \div P, P, p.pg % P)
    BY <1>2, HasDigits
  <2> QED
    BY <2>1
<1>4. PICK b \in Nat, s \in 0 .. P - 1 : b = q.pg \div P /\ s = q.pg % P /\ q.pg = Num(b, P, s)
  <2>1. q.pg \div P \in Nat /\ q.pg % P \in 0 .. P - 1 /\ q.pg = Num(q.pg \div P, P, q.pg % P)
    BY <1>2, HasDigits
  <2> QED
    BY <2>1
<1>5. PICK x \in Nat, y \in Nat : x = Num(a, L, p.lun) /\ y = Num(b, L, q.lun)
    BY <1>2, Digits
<1>6. PICK u \in Nat, v \in Nat : u = Num(x, C, p.ch) /\ v = Num(y, C, q.ch)
    BY <1>2, Digits
<1>7. FillNo(spp, p) = Num(u, P, r) /\ FillNo(spp, q) = Num(v, P, s)
    BY <1>0, <1>3, <1>4, <1>5, <1>6 DEF FillNo, PageNo
<1>8. r = P - 1
    BY <1>3 DEF Behind
<1>9. PICK t \in 0 .. P - 1 : t = r - k
    BY <1>8
<1>10. PICK m \in Nat : m = u * P
    OBVIOUS
<1>11. Num(u, P, r) = m + r /\ Num(u, P, t) = m + t
    BY <1>10 DEF Num
<1>12. Num(v, P, s) \in Nat
    BY Digits
<1>13. Num(v, P, s) = Num(u, P, t)
    BY <1>7, <1>9, <1>11, <1>12 DEF Behind
<1>14. v = u /\ s = t
    BY <1>13, OneWay
<1>15. x = y /\ p.ch = q.ch
  <2>1. Num(x, C, p.ch) = Num(y, C, q.ch)
    BY <1>6, <1>14
  <2> QED
    BY <1>2, <2>1, OneWay
<1>16. a = b /\ p.lun = q.lun
  <2>1. Num(a, L, p.lun) = Num(b, L, q.lun)
    BY <1>5, <1>15
  <2> QED
    BY <1>2, <2>1, OneWay
<1>17. p.pg - q.pg = k
  <2>1. PICK z \in Nat : z = a * P
    OBVIOUS
  <2>2. p.pg = z + r /\ q.pg = z + t
    BY <1>3, <1>4, <1>14, <1>16, <2>1 DEF Num
  <2> QED
    BY <1>9, <2>2
<1>18. FillNo(spp, p) + 1 >= P
    BY <1>7, <1>8, <1>11
<1> QED
    BY <1>15, <1>16, <1>17, <1>18 DEF BlkOfPage

\* The invariant makes a line filled.
LEMMA LineIsFilled ==
    ASSUME FillInv
    PROVE  FillsLine
<1>1. PICK C \in Nat \ {0}, L \in Nat \ {0}, W \in Nat \ {0}, P \in Nat \ {0}, K \in Nat \ {0}, F \in Nat \ {0} :
        Shaped(spp, C, L, W, P, K, F)
    BY DEF FillInv, IsGeometry
<1>2. \A p, q \in PagesOfLine : \A k \in 0 .. P - 1 : InUnit(P, p, q, k)
    BY <1>1, OneUnit
<1>3. PICK M \in Nat : M = Len(filled) /\ DOMAIN filled = 1 .. M
    BY DEF FillInv
<1>4. \A i \in 1 .. M : filled[i] \in PagesOfLine /\ FillNo(spp, filled[i]) = i - 1
    BY <1>3 DEF FillInv
<1>5. NoRepeat(filled)
    BY <1>3, <1>4 DEF NoRepeat
<1>6. ToSet(filled) \subseteq PagesOfLine
    BY <1>3, <1>4 DEF ToSet
<1>7. ASSUME wpp = Used
      PROVE  /\ ToSet(filled) = PagesOfLine /\ Len(filled) = spp.pgs_per_line
             /\ spp.tt_lines * Len(filled) >= spp.capacity
  <2>1. Len(filled) = spp.pgs_per_line
    BY <1>7 DEF FillInv
  <2>2. ASSUME NEW p \in PagesOfLine
        PROVE  p \in ToSet(filled)
    <3>1. spp.pgs_per_line \in Nat /\ FillNo(spp, p) \in 0 .. spp.pgs_per_line - 1
      BY LineNumbers DEF FillInv
    <3>2. FillNo(spp, p) < Len(filled)
      BY <2>1, <3>1
    <3> QED
      BY <3>2, FilledPage
  <2>3. spp.tt_lines * Len(filled) >= spp.capacity
    BY <2>1 DEF FillInv, IsGeometry
  <2> QED
    BY <1>6, <2>1, <2>2, <2>3
<1>8. ASSUME NEW i \in DOMAIN filled, last_pg_in_wordline(filled[i])
      PROVE  /\ i >= spp.pgs_per_oneshotpg
             /\ \A j \in (i - spp.pgs_per_oneshotpg + 1) .. i :
                 /\ BlkOfPage(filled[j]) = BlkOfPage(filled[i])
                 /\ filled[i].pg - filled[j].pg = i - j
  <2>1. spp.pgs_per_oneshotpg = P /\ i \in 1 .. M
    BY <1>1, <1>3 DEF Shaped
  <2>2. filled[i].pg % P = P - 1 /\ filled[i] \in PagesOfLine /\ FillNo(spp, filled[i]) = i - 1
    BY <1>4, <1>8, <2>1 DEF last_pg_in_wordline
  <2>3. i >= P
    <3>1. 0 \in 0 .. P - 1 /\ Behind(P, filled[i], filled[i], 0)
      BY <2>1, <2>2 DEF Behind
    <3>2. FillNo(spp, filled[i]) + 1 >= P
      BY <1>2, <2>2, <3>1 DEF InUnit
    <3> QED
      BY <2>1, <2>2, <3>2
  <2>4. ASSUME NEW j \in (i - P + 1) .. i
        PROVE  BlkOfPage(filled[j]) = BlkOfPage(filled[i]) /\ filled[i].pg - filled[j].pg = i - j
    <3>1. j \in 1 .. M
      BY <2>1, <2>3
    <3>2. PICK k \in 0 .. P - 1 : k = i - j
      BY <2>1
    <3>3. filled[j] \in PagesOfLine /\ FillNo(spp, filled[j]) = j - 1
      BY <1>4, <3>1
    <3>4. FillNo(spp, filled[j]) + k = FillNo(spp, filled[i])
      BY <2>1, <2>2, <3>1, <3>2, <3>3
    <3>5. BlkOfPage(filled[j]) = BlkOfPage(filled[i]) /\ filled[i].pg - filled[j].pg = k
      <4>1. PICK p \in PagesOfLine, q \in PagesOfLine : p = filled[i] /\ q = filled[j]
        BY <2>2, <3>3
      <4>2. Behind(P, p, q, k)
        BY <2>2, <3>4, <4>1 DEF Behind
      <4>3. BlkOfPage(q) = BlkOfPage(p) /\ p.pg - q.pg = k
        BY <1>2, <4>2 DEF InUnit
      <4> QED
        BY <4>1, <4>3
    <3> QED
      BY <3>2, <3>5
  <2> QED
    BY <2>1, <2>3, <2>4
<1> QED
    BY <1>5, <1>6, <1>7, <1>8 DEF FillsLine

\* get_new_page and advance_write_pointer keep the order of the numbers.
LEMMA FillStep ==
    ASSUME FillInv, FillPage
    PROVE  FillInv'
<1>1. PICK C \in Nat \ {0}, L \in Nat \ {0}, W \in Nat \ {0}, P \in Nat \ {0}, K \in Nat \ {0}, F \in Nat \ {0} :
        Shaped(spp, C, L, W, P, K, F)
    BY DEF FillInv, IsGeometry
<1>2. spp' = spp /\ PagesOfLine' = PagesOfLine /\ IsGeometry(spp)'
    BY DEF FillPage, FillInv, PagesOfLine, pgs_per_blk
<1>3. wpp # Used /\ wpp \in PagesOfLine /\ FillNo(spp, wpp) = Len(filled)
    BY DEF FillPage, FillInv
<1>4. PICK M \in Nat : M = Len(filled) /\ filled \in Seq(PagesOfLine)
    BY DEF FillInv
<1>5. /\ filled' \in Seq(PagesOfLine) /\ Len(filled') = M + 1
      /\ filled'[M + 1] = wpp /\ \A i \in 1 .. M : filled'[i] = filled[i]
    BY <1>3, <1>4 DEF FillPage
<1>6. ASSUME NEW i \in 1 .. Len(filled')
      PROVE  FillNo(spp, filled'[i]) = i - 1
  <2>1. i \in 1 .. M \/ i = M + 1
    BY <1>5
  <2>2. CASE i \in 1 .. M
    BY <1>4, <1>5, <2>2 DEF FillInv
  <2>3. CASE i = M + 1
    BY <1>3, <1>4, <1>5, <2>3
  <2> QED
    BY <2>1, <2>2, <2>3
<1>7. PICK w : w = NextPage(wpp) /\ wpp' = w
    BY DEF FillPage
<1>8. \/ w = Used /\ M + 1 = spp.pgs_per_line
      \/ w \in PagesOfLine /\ FillNo(spp, w) = M + 1
    BY <1>1, <1>3, <1>4, <1>7, NextIsNext
<1>9. w \in PagesOfLine => w # Used
  <2>1. PagesOfLine = Pages(C, L, W * P)
    BY <1>1, PagesAre
  <2> QED
    BY <2>1, UsedIsNone
<1>10. IF w = Used THEN Len(filled') = spp.pgs_per_line
       ELSE w \in PagesOfLine /\ FillNo(spp, w) = Len(filled')
    BY <1>5, <1>8, <1>9
<1> QED
    BY <1>2, <1>5, <1>6, <1>7, <1>10 DEF FillInv

\* A line starts with nothing filled.
LEMMA FillFirst ==
    ASSUME WInit
    PROVE  FillInv
<1>1. IsGeometry(spp) /\ wpp = First /\ filled = <<>>
    BY TheGeometry DEF WInit
<1>2. PICK C \in Nat \ {0}, L \in Nat \ {0}, W \in Nat \ {0}, P \in Nat \ {0}, K \in Nat \ {0}, F \in Nat \ {0} :
        Shaped(spp, C, L, W, P, K, F)
    BY <1>1 DEF IsGeometry
<1>3. PICK N \in Nat \ {0} : N = W * P /\ PagesOfLine = Pages(C, L, N)
    BY NotZero, PagesAre, <1>2
<1>4. First \in PagesOfLine
    BY <1>3 DEF First, Pages
<1>5. First # Used
    BY DEF First, Used
<1>6. FillNo(spp, First) = 0
  <2>1. spp.nchs = C /\ spp.luns_per_ch = L /\ spp.pgs_per_oneshotpg = P
    BY <1>2 DEF Shaped
  <2>2. 0 \div P = 0 /\ 0 % P = 0
    OBVIOUS
  <2>3. Num(0, L, 0) = 0 /\ Num(0, C, 0) = 0 /\ Num(0, P, 0) = 0
    BY DEF Num
  <2> QED
    BY <2>1, <2>2, <2>3 DEF FillNo, PageNo, First
<1>7. filled \in Seq(PagesOfLine) /\ Len(filled) = 0
    BY <1>1
<1> QED
    BY <1>1, <1>4, <1>5, <1>6, <1>7 DEF FillInv

-----------------------------------------------------------------------------
(* The pages that have been cleaned and the blocks that have been erased. *)

\* The rounds of the three loops that are over, and the number of a block.
Rounds(g, f, c, l) == Num(Num(f, g.nchs, c), g.luns_per_ch, l)
BlkNo(g, b) == Num(b[1], g.luns_per_ch, b[2])

\* The blocks of a line.
BlksOfLine == (0 .. (spp.nchs - 1)) \X (0 .. (spp.luns_per_ch - 1))

\* The pages cleaned are those numbered 0, 1, ... below the cursor of do_gc, and the
\* blocks erased are those whose last flash page the cursor has passed.
CleanInv ==
    /\ IsGeometry(spp)
    /\ cursor \in [flashpg : 0 .. flashpgs_per_blk, ch : 0 .. (spp.nchs - 1), lun : 0 .. (spp.luns_per_ch - 1)]
    /\ cursor.flashpg = flashpgs_per_blk => cursor.ch = 0 /\ cursor.lun = 0
    /\ cleaned \in Seq(PagesOfLine) /\ \A i \in 1 .. Len(cleaned) : CleanNo(spp, cleaned[i]) = i - 1
    /\ Len(cleaned) = Rounds(spp, cursor.flashpg, cursor.ch, cursor.lun) * spp.pgs_per_flashpg
    /\ erased \in Seq(BlksOfLine) /\ \A i \in 1 .. Len(erased) : BlkNo(spp, erased[i]) = i - 1
    /\ Len(erased) = IF cursor.flashpg < flashpgs_per_blk - 1 THEN 0
                     ELSE IF cursor.flashpg = flashpgs_per_blk - 1 THEN BlkNo(spp, <<cursor.ch, cursor.lun>>)
                     ELSE spp.nchs * spp.luns_per_ch

\* The order of numbers is the order of their digits.
LEMMA InDigitOrder ==
    ASSUME NEW d \in Nat \ {0}, NEW q \in Nat, NEW r \in 0 .. d - 1, NEW p \in Nat, NEW s \in 0 .. d - 1
    PROVE  Num(q, d, r) < Num(p, d, s) <=> q < p \/ (q = p /\ r < s)
<1>1. PICK x \in Nat, y \in Nat : x = q * d /\ y = p * d
    OBVIOUS
<1>2. Num(q, d, r) = x + r /\ Num(p, d, s) = y + s
    BY <1>1 DEF Num
<1>3. CASE q + 1 <= p
  <2>1. (q + 1) * d <= p * d /\ (q + 1) * d = x + d
    BY <1>1, <1>3, Products
  <2>2. x + d <= y
    BY <1>1, <2>1
  <2> QED
    BY <1>2, <1>3, <2>2
<1>4. CASE p + 1 <= q
  <2>1. (p + 1) * d <= q * d /\ (p + 1) * d = y + d
    BY <1>1, <1>4, Products
  <2>2. y + d <= x
    BY <1>1, <2>1
  <2> QED
    BY <1>2, <1>4, <2>2
<1>5. CASE q = p
    BY <1>1, <1>2, <1>5
<1> QED
    BY <1>3, <1>4, <1>5

\* One round after another.
LEMMA NextRound ==
    ASSUME NEW g, NEW C \in Nat \ {0}, NEW L \in Nat \ {0}, g.nchs = C, g.luns_per_ch = L,
           NEW f \in Nat, NEW c \in 0 .. C - 1, NEW l \in 0 .. L - 1
    PROVE  /\ Rounds(g, f, c, l) \in Nat
           /\ l + 1 # L => l + 1 \in 0 .. L - 1 /\ Rounds(g, f, c, l + 1) = Rounds(g, f, c, l) + 1
           /\ l + 1 = L /\ c + 1 # C => c + 1 \in 0 .. C - 1 /\ Rounds(g, f, c + 1, 0) = Rounds(g, f, c, l) + 1
           /\ l + 1 = L /\ c + 1 = C => Rounds(g, f + 1, 0, 0) = Rounds(g, f, c, l) + 1
<1>1. PICK x \in Nat : x = Num(f, C, c)
    BY Digits
<1>2. PICK y \in Nat : y = Num(x, L, l)
    BY Digits
<1>3. Rounds(g, f, c, l) = y
    BY <1>1, <1>2 DEF Rounds
<1>4. Num(x, L, l + 1) = y + 1 /\ (l + 1 = L => Num(x + 1, L, 0) = y + 1)
    BY <1>2, Counts
<1>5. Num(f, C, c + 1) = x + 1 /\ (c + 1 = C => Num(f + 1, C, 0) = x + 1)
    BY <1>1, Counts
<1>6. Rounds(g, f, c, l + 1) = y + 1
    BY <1>1, <1>4 DEF Rounds
<1>7. l + 1 = L => Rounds(g, f, c + 1, 0) = y + 1
    BY <1>4, <1>5 DEF Rounds
<1>8. l + 1 = L /\ c + 1 = C => Rounds(g, f + 1, 0, 0) = y + 1
    BY <1>4, <1>5 DEF Rounds
<1> QED
    BY <1>3, <1>6, <1>7, <1>8

\* One block after another, up to the last one.
LEMMA NextBlk ==
    ASSUME NEW g, NEW C \in Nat \ {0}, NEW L \in Nat \ {0}, g.nchs = C, g.luns_per_ch = L,
           NEW c \in 0 .. C - 1, NEW l \in 0 .. L - 1
    PROVE  /\ BlkNo(g, <<c, l>>) \in Nat /\ BlkNo(g, <<0, 0>>) = 0
           /\ l + 1 # L => BlkNo(g, <<c, l + 1>>) = BlkNo(g, <<c, l>>) + 1
           /\ l + 1 = L /\ c + 1 # C => BlkNo(g, <<c + 1, 0>>) = BlkNo(g, <<c, l>>) + 1
           /\ l + 1 = L /\ c + 1 = C => C * L = BlkNo(g, <<c, l>>) + 1
           /\ BlkNo(g, <<c, l>>) < C * L
<1>1. c \in Nat /\ c < C
    OBVIOUS
<1>2. PICK y \in Nat : y = Num(c, L, l)
    BY <1>1, Digits
<1>3. BlkNo(g, <<c, l>>) = y /\ BlkNo(g, <<c, l + 1>>) = Num(c, L, l + 1) /\ BlkNo(g, <<c + 1, 0>>) = Num(c + 1, L, 0)
      /\ BlkNo(g, <<0, 0>>) = Num(0, L, 0)
    BY <1>2 DEF BlkNo
<1>4. Num(c, L, l + 1) = y + 1 /\ (l + 1 = L => Num(c + 1, L, 0) = y + 1)
    BY <1>1, <1>2, Counts
<1>5. Num(0, L, 0) = 0
    BY DEF Num
<1>6. c + 1 = C => Num(c + 1, L, 0) = C * L
  <2>1. PICK z \in Nat : z = C * L
    OBVIOUS
  <2> QED
    BY <2>1 DEF Num
<1>7. y < C * L
    BY <1>1, <1>2, Below
<1> QED
    BY <1>2, <1>3, <1>4, <1>5, <1>6, <1>7

\* Sequences that grow.
LEMMA OneLonger ==
    ASSUME NEW S, NEW s \in Seq(S), NEW x \in S
    PROVE  /\ Append(s, x) \in Seq(S) /\ Len(Append(s, x)) = Len(s) + 1
           /\ Append(s, x)[Len(s) + 1] = x /\ \A i \in 1 .. Len(s) : Append(s, x)[i] = s[i]
OBVIOUS

\* Two sequences, one behind the other.
LEMMA Longer ==
    ASSUME NEW S, NEW s \in Seq(S), NEW t \in Seq(S)
    PROVE  /\ s \o t \in Seq(S) /\ Len(s \o t) = Len(s) + Len(t)
           /\ \A i \in 1 .. Len(s) : (s \o t)[i] = s[i]
           /\ \A i \in 1 .. Len(t) : (s \o t)[Len(s) + i] = t[i]
OBVIOUS

\* The pages of one flash page, from number R * F on.
PageAt(f, c, l, F, k) == [ch |-> c, lun |-> l, pg |-> Num(f, F, k)]
CleansIn(g, C, L, V, F, f, c, l) ==
    \A k \in 0 .. F - 1 :
        /\ PageAt(f, c, l, F, k) \in Pages(C, L, V * F)
        /\ CleanNo(g, PageAt(f, c, l, F, k)) = Num(Rounds(g, f, c, l), F, k)

\* The numbers of the pages of one flash page follow the round that cleans them.
LEMMA FlashPages ==
    ASSUME NEW g, NEW C \in Nat \ {0}, NEW L \in Nat \ {0}, NEW V \in Nat \ {0}, NEW F \in Nat \ {0},
           g.nchs = C, g.luns_per_ch = L, g.pgs_per_flashpg = F,
           NEW f \in 0 .. V - 1, NEW c \in 0 .. C - 1, NEW l \in 0 .. L - 1
    PROVE  CleansIn(g, C, L, V, F, f, c, l)
<1> SUFFICES ASSUME NEW k \in 0 .. F - 1, NEW p, p = [ch |-> c, lun |-> l, pg |-> Num(f, F, k)]
             PROVE  p \in Pages(C, L, V * F) /\ CleanNo(g, p) = Num(Rounds(g, f, c, l), F, k)
    BY DEF CleansIn, PageAt
<1>1. f \in Nat /\ f < V
    OBVIOUS
<1>2. PICK n \in Nat : n = Num(f, F, k) /\ n < V * F
  <2>1. Num(f, F, k) \in Nat
    BY <1>1, Digits
  <2>2. Num(f, F, k) < V * F
    BY <1>1, Below
  <2> QED
    BY <2>1, <2>2
<1>3. PICK N \in Nat : N = V * F
    OBVIOUS
<1>4. n \in 0 .. N - 1
    BY <1>2, <1>3
<1>5. p \in Pages(C, L, N)
    BY <1>2, <1>4 DEF Pages
<1>6. PageNo(C, L, F, Num(f, F, k), c, l) = Num(Num(Num(f, C, c), L, l), F, k)
    BY <1>1, PageNoDigits DEF Splits
<1>7. CleanNo(g, p) = PageNo(C, L, F, Num(f, F, k), c, l)
    BY DEF CleanNo
<1>8. Rounds(g, f, c, l) = Num(Num(f, C, c), L, l)
    BY DEF Rounds
<1> QED
    BY <1>3, <1>5, <1>6, <1>7, <1>8

\* The first case of the erased blocks: what is erased while the cursor is at
\* flash page f of V.
ErasedAt(g, V, f, c, l) ==
    IF f < V - 1 THEN 0 ELSE IF f = V - 1 THEN BlkNo(g, <<c, l>>) ELSE g.nchs * g.luns_per_ch

\* Cleaning one flash page.
LEMMA CleanStep ==
    ASSUME CleanInv, CleanFlashPage
    PROVE  CleanInv'
<1>1. PICK C \in Nat \ {0}, L \in Nat \ {0}, W \in Nat \ {0}, P \in Nat \ {0}, K \in Nat \ {0}, F \in Nat \ {0} :
        Shaped(spp, C, L, W, P, K, F)
    BY DEF CleanInv, IsGeometry
<1>2. spp' = spp /\ PagesOfLine' = PagesOfLine /\ BlksOfLine' = BlksOfLine /\ flashpgs_per_blk' = flashpgs_per_blk
    BY DEF CleanFlashPage, PagesOfLine, BlksOfLine, pgs_per_blk, flashpgs_per_blk
<1>g. PICK g : g = spp
    OBVIOUS
<1>3. PICK V \in Nat \ {0} : /\ V = flashpgs_per_blk /\ g = spp
                             /\ g.nchs = C /\ g.luns_per_ch = L /\ g.pgs_per_flashpg = F
                             /\ PagesOfLine = Pages(C, L, V * F)
  <2>1. g = spp
    BY <1>g
  <2>2. Shaped(g, C, L, W, P, K, F)
    BY <1>1, <2>1
  <2>3. g.flashpgs_per_blk \in Nat \ {0} /\ g.pgs_per_blk = g.flashpgs_per_blk * F
    BY ONLY <1>1, <2>2, BlockNumbers
  <2>4. g.nchs = C /\ g.luns_per_ch = L /\ g.pgs_per_flashpg = F
    BY <2>2 DEF Shaped
  <2>5. PagesOfLine = Pages(C, L, g.pgs_per_blk)
    BY <1>1, <2>1, <2>2, PagesAre DEF Shaped
  <2> QED
    BY <2>1, <2>3, <2>4, <2>5 DEF flashpgs_per_blk
<1>4. PICK f \in 0 .. V - 1, c \in 0 .. C - 1, l \in 0 .. L - 1 :
        cursor = [flashpg |-> f, ch |-> c, lun |-> l]
  <2>1. cursor.flashpg < V
    BY <1>3 DEF CleanFlashPage
  <2>2. cursor \in [flashpg : 0 .. V, ch : 0 .. C - 1, lun : 0 .. L - 1]
    BY <1>3 DEF CleanInv
  <2>3. cursor.flashpg \in 0 .. V - 1 /\ cursor.ch \in 0 .. C - 1 /\ cursor.lun \in 0 .. L - 1
        /\ cursor = [flashpg |-> cursor.flashpg, ch |-> cursor.ch, lun |-> cursor.lun]
    BY <2>1, <2>2
  <2> QED
    BY <2>3
<1>5. cursor.flashpg = f /\ cursor.ch = c /\ cursor.lun = l
    BY <1>4
<1>6. PICK R \in Nat : R = Rounds(g, f, c, l)
  <2>1. f \in Nat
    OBVIOUS
  <2> QED
    BY <1>3, <2>1, NextRound
<1>7. PICK M \in Nat : M = R * F /\ Len(cleaned) = M /\ cleaned \in Seq(PagesOfLine)
  <2>1. R * F \in Nat
    OBVIOUS
  <2> QED
    BY <1>3, <1>5, <1>6, <2>1 DEF CleanInv
<1> DEFINE page(i) == [ch |-> c, lun |-> l, pg |-> Num(f, F, i - 1)]
           new == [i \in 1 .. F |-> page(i)]
<1>8. ASSUME NEW i \in 1 .. F
      PROVE  page(i) \in PagesOfLine /\ CleanNo(g, page(i)) = M + i - 1
  <2>1. PICK k \in 0 .. F - 1 : k = i - 1
    OBVIOUS
  <2>2. PICK p : p = [ch |-> c, lun |-> l, pg |-> Num(f, F, k)]
    OBVIOUS
  <2>3. p \in Pages(C, L, V * F) /\ CleanNo(g, p) = Num(Rounds(g, f, c, l), F, k)
    <3>1. CleansIn(g, C, L, V, F, f, c, l)
      BY <1>3, FlashPages
    <3> QED
      BY <2>2, <3>1 DEF CleansIn, PageAt
  <2>4. Num(R, F, k) = M + i - 1
    BY <1>7, <2>1 DEF Num
  <2> QED
    BY <1>3, <1>6, <2>1, <2>2, <2>3, <2>4
<1>9. cleaned' = cleaned \o new
  <2>1. ASSUME NEW i \in 1 .. F
        PROVE  f * F + i - 1 = Num(f, F, i - 1)
    <3>1. PICK z \in Int : z = f * F
      OBVIOUS
    <3> QED
      BY <3>1 DEF Num
  <2>2. cleaned' = cleaned \o [i \in 1 .. spp.pgs_per_flashpg |->
            [ch |-> cursor.ch, lun |-> cursor.lun, pg |-> cursor.flashpg * spp.pgs_per_flashpg + i - 1]]
    BY DEF CleanFlashPage
  <2>3. [i \in 1 .. spp.pgs_per_flashpg |->
            [ch |-> cursor.ch, lun |-> cursor.lun, pg |-> cursor.flashpg * spp.pgs_per_flashpg + i - 1]] = new
    BY <1>3, <1>5, <2>1
  <2> QED
    BY <2>2, <2>3
<1>10. new \in Seq(PagesOfLine) /\ Len(new) = F /\ \A i \in 1 .. F : new[i] = page(i)
  <2>1. new \in [1 .. F -> PagesOfLine]
    BY <1>8
  <2> HIDE DEF new
  <2>2. new \in Seq(PagesOfLine) /\ Len(new) = F
    BY <2>1
  <2> QED
    BY <2>2 DEF new
<1> HIDE DEF new, page
<1>11. /\ cleaned' \in Seq(PagesOfLine) /\ Len(cleaned') = M + F
       /\ \A i \in 1 .. M : cleaned'[i] = cleaned[i]
       /\ \A i \in 1 .. F : cleaned'[M + i] = new[i]
  <2>1. PICK s \in Seq(PagesOfLine), t \in Seq(PagesOfLine) : s = cleaned /\ t = new
    BY <1>7, <1>10
  <2>2. /\ s \o t \in Seq(PagesOfLine) /\ Len(s \o t) = Len(s) + Len(t)
        /\ \A i \in 1 .. Len(s) : (s \o t)[i] = s[i]
        /\ \A i \in 1 .. Len(t) : (s \o t)[Len(s) + i] = t[i]
    BY Longer
  <2>3. cleaned' = s \o t /\ Len(s) = M /\ Len(t) = F
    BY <1>7, <1>9, <1>10, <2>1
  <2> QED
    BY <2>1, <2>2, <2>3
<1>12. ASSUME NEW i \in 1 .. Len(cleaned')
       PROVE  CleanNo(g, cleaned'[i]) = i - 1
  <2>1. CASE i \in 1 .. M
    BY <1>3, <1>7, <1>11, <2>1 DEF CleanInv
  <2>2. CASE i \notin 1 .. M
    <3>1. PICK j \in 1 .. F : j = i - M /\ i = M + j
      BY <1>11, <2>2
    <3>2. cleaned'[i] = page(j)
      BY <1>10, <1>11, <3>1
    <3> QED
      BY <1>8, <3>1, <3>2
  <2> QED
    BY <2>1, <2>2
<1>13. PICK f1 \in 0 .. V, c1 \in 0 .. C - 1, l1 \in 0 .. L - 1 :
        /\ cursor' = [flashpg |-> f1, ch |-> c1, lun |-> l1]
        /\ l + 1 # L => f1 = f /\ c1 = c /\ l1 = l + 1
        /\ l + 1 = L /\ c + 1 # C => f1 = f /\ c1 = c + 1 /\ l1 = 0
        /\ l + 1 = L /\ c + 1 = C => f1 = f + 1 /\ c1 = 0 /\ l1 = 0
  <2>1. cursor' = [lun |-> IF l + 1 = L THEN 0 ELSE l + 1,
                   ch |-> IF ~ (l + 1 = L) THEN c ELSE IF c + 1 = C THEN 0 ELSE c + 1,
                   flashpg |-> f + IF l + 1 = L /\ c + 1 = C THEN 1 ELSE 0]
    BY <1>3, <1>5, Zenon DEF CleanFlashPage
  <2>2. f \in 0 .. V /\ f + 1 \in 0 .. V /\ f + 0 = f /\ 0 \in 0 .. C - 1 /\ 0 \in 0 .. L - 1
    OBVIOUS
  <2>3. CASE l + 1 # L
    <3>1. l + 1 \in 0 .. L - 1
      BY <2>3
    <3>2. cursor' = [flashpg |-> f, ch |-> c, lun |-> l + 1]
      BY <2>1, <2>2, <2>3
    <3> QED
      BY <2>2, <2>3, <3>1, <3>2
  <2>4. CASE l + 1 = L /\ c + 1 # C
    <3>1. c + 1 \in 0 .. C - 1
      BY <2>4
    <3>2. cursor' = [flashpg |-> f, ch |-> c + 1, lun |-> 0]
      BY <2>1, <2>2, <2>4
    <3> QED
      BY <2>2, <2>4, <3>1, <3>2
  <2>5. CASE l + 1 = L /\ c + 1 = C
    <3>1. cursor' = [flashpg |-> f + 1, ch |-> 0, lun |-> 0]
      BY <2>1, <2>5
    <3> QED
      BY <2>2, <2>5, <3>1
  <2> QED
    BY <2>3, <2>4, <2>5
<1>14. cursor'.flashpg = f1 /\ cursor'.ch = c1 /\ cursor'.lun = l1
    BY <1>13
<1>15. Rounds(g, f1, c1, l1) = R + 1
  <2>1. f \in Nat
    OBVIOUS
  <2>2. /\ l + 1 # L => Rounds(g, f, c, l + 1) = R + 1
        /\ l + 1 = L /\ c + 1 # C => Rounds(g, f, c + 1, 0) = R + 1
        /\ l + 1 = L /\ c + 1 = C => Rounds(g, f + 1, 0, 0) = R + 1
    BY <1>3, <1>6, <2>1, NextRound
  <2> QED
    BY <1>13, <2>2
<1>16. Len(cleaned') = Rounds(g, f1, c1, l1) * F
  <2>1. (R + 1) * F = R * F + F
    OBVIOUS
  <2> QED
    BY <1>7, <1>11, <1>15, <2>1
<1>17. f1 = V => c1 = 0 /\ l1 = 0
    BY <1>13
<1>18. PICK b \in BlksOfLine : b = <<c, l>>
    BY <1>3 DEF BlksOfLine
<1>19. Len(erased) = ErasedAt(g, V, f, c, l) /\ erased \in Seq(BlksOfLine)
    BY <1>3, <1>5 DEF CleanInv, ErasedAt
<1>20. erased' = IF f = V - 1 THEN Append(erased, b) ELSE erased
    BY <1>3, <1>5, <1>18 DEF CleanFlashPage, ErasesAfter
<1>21. /\ BlkNo(g, <<c, l>>) \in Nat /\ BlkNo(g, <<0, 0>>) = 0
       /\ l + 1 # L => BlkNo(g, <<c, l + 1>>) = BlkNo(g, <<c, l>>) + 1
       /\ l + 1 = L /\ c + 1 # C => BlkNo(g, <<c + 1, 0>>) = BlkNo(g, <<c, l>>) + 1
       /\ l + 1 = L /\ c + 1 = C => C * L = BlkNo(g, <<c, l>>) + 1
    BY <1>3, NextBlk
<1>22. /\ erased' \in Seq(BlksOfLine) /\ Len(erased') = ErasedAt(g, V, f1, c1, l1)
       /\ \A i \in 1 .. Len(erased') : BlkNo(g, erased'[i]) = i - 1
  <2>1. CASE f < V - 1
    <3>1. erased' = erased /\ Len(erased) = 0
      BY <1>19, <1>20, <2>1 DEF ErasedAt
    <3>2. f1 < V - 1 \/ (f1 = V - 1 /\ c1 = 0 /\ l1 = 0)
      BY <1>13, <2>1
    <3>3. ErasedAt(g, V, f1, c1, l1) = 0
      BY <1>21, <3>2 DEF ErasedAt
    <3> QED
      BY <1>19, <3>1, <3>3
  <2>2. CASE f = V - 1
    <3>1. PICK m \in Nat : m = BlkNo(g, <<c, l>>) /\ Len(erased) = m
      BY <1>19, <1>21, <2>2 DEF ErasedAt
    <3>2. erased' = Append(erased, b)
      BY <1>20, <2>2
    <3>3. /\ erased' \in Seq(BlksOfLine) /\ Len(erased') = m + 1
          /\ erased'[m + 1] = b /\ \A i \in 1 .. m : erased'[i] = erased[i]
      <4>1. PICK s \in Seq(BlksOfLine) : s = erased
        BY <1>19
      <4>2. /\ Append(s, b) \in Seq(BlksOfLine) /\ Len(Append(s, b)) = Len(s) + 1
            /\ Append(s, b)[Len(s) + 1] = b /\ \A i \in 1 .. Len(s) : Append(s, b)[i] = s[i]
        BY OneLonger
      <4>3. erased' = Append(s, b) /\ Len(s) = m
        BY <3>1, <3>2, <4>1
      <4> QED
        BY <4>1, <4>2, <4>3
    <3>4. ASSUME NEW i \in 1 .. Len(erased')
          PROVE  BlkNo(g, erased'[i]) = i - 1
      <4>1. CASE i \in 1 .. m
        <5>1. BlkNo(spp, erased[i]) = i - 1
          BY <3>1, <4>1 DEF CleanInv
        <5>2. erased'[i] = erased[i]
          BY <3>3, <4>1
        <5> QED
          BY <1>3, <5>1, <5>2
      <4>2. CASE i = m + 1
        <5>1. BlkNo(g, b) = m
          BY <1>18, <3>1
        <5>2. erased'[i] = b /\ i - 1 = m
          BY <3>1, <3>3, <4>2
        <5> QED
          BY <5>1, <5>2
      <4> QED
        BY <3>3, <4>1, <4>2
    <3>5. ErasedAt(g, V, f1, c1, l1) = m + 1
      <4>1. CASE l + 1 # L
        BY <1>13, <1>21, <2>2, <3>1, <4>1 DEF ErasedAt
      <4>2. CASE l + 1 = L /\ c + 1 # C
        BY <1>13, <1>21, <2>2, <3>1, <4>2 DEF ErasedAt
      <4>3. CASE l + 1 = L /\ c + 1 = C
        <5>1. f1 = V /\ C * L = m + 1
          BY <1>13, <1>21, <2>2, <3>1, <4>3
        <5> QED
          BY <1>3, <5>1 DEF ErasedAt
      <4> QED
        BY <4>1, <4>2, <4>3
    <3> QED
      BY <3>3, <3>4, <3>5
  <2> QED
    BY <2>1, <2>2
<1>23. /\ IsGeometry(spp')
       /\ cursor' \in [flashpg : 0 .. V, ch : 0 .. C - 1, lun : 0 .. L - 1]
    BY <1>2, <1>13 DEF CleanInv
<1> QED
    BY <1>2, <1>3, <1>11, <1>12, <1>14, <1>16, <1>17, <1>22, <1>23 DEF CleanInv, ErasedAt

\* A page whose number has been passed has been cleaned.
LEMMA CleanedPage ==
    ASSUME CleanInv, NEW p \in PagesOfLine, CleanNo(spp, p) < Len(cleaned)
    PROVE  p \in ToSet(cleaned)
<1>1. IsGeometry(spp)
    BY DEF CleanInv
<1>2. PICK n \in Nat : n = CleanNo(spp, p)
    BY <1>1, LineNumbers
<1>3. Len(cleaned) \in Nat /\ n + 1 \in 1 .. Len(cleaned)
    BY <1>2 DEF CleanInv
<1>4. cleaned[n + 1] \in PagesOfLine /\ CleanNo(spp, cleaned[n + 1]) = (n + 1) - 1
    BY <1>3 DEF CleanInv
<1>5. cleaned[n + 1] = p
    BY <1>1, <1>2, <1>4, LineNumbers
<1>6. DOMAIN cleaned = 1 .. Len(cleaned)
    BY DEF CleanInv
<1> QED
    BY <1>3, <1>5, <1>6 DEF ToSet

\* The rounds are in the order of flash page, channel and die.
LEMMA RoundsInOrder ==
    ASSUME NEW g, NEW C \in Nat \ {0}, NEW L \in Nat \ {0}, g.nchs = C, g.luns_per_ch = L,
           NEW f \in Nat, NEW c \in 0 .. C - 1, NEW l \in 0 .. L - 1,
           NEW h \in Nat, NEW d \in 0 .. C - 1, NEW m \in 0 .. L - 1
    PROVE  /\ f < h => Rounds(g, f, c, l) < Rounds(g, h, d, m)
           /\ BlkNo(g, <<c, l>>) < BlkNo(g, <<d, m>>) => Rounds(g, f, c, l) < Rounds(g, f, d, m)
           /\ BlkNo(g, <<c, l>>) = BlkNo(g, <<d, m>>) => c = d /\ l = m
<1>1. PICK x \in Nat, y \in Nat, z \in Nat : x = Num(f, C, c) /\ y = Num(h, C, d) /\ z = Num(f, C, d)
    BY Digits
<1>2. Rounds(g, f, c, l) = Num(x, L, l) /\ Rounds(g, h, d, m) = Num(y, L, m) /\ Rounds(g, f, d, m) = Num(z, L, m)
    BY <1>1 DEF Rounds
<1>3. BlkNo(g, <<c, l>>) = Num(c, L, l) /\ BlkNo(g, <<d, m>>) = Num(d, L, m)
    BY DEF BlkNo
<1>4. c \in Nat /\ d \in Nat
    OBVIOUS
<1>5. ASSUME f < h
      PROVE  Num(x, L, l) < Num(y, L, m)
  <2>1. x < y
    BY <1>1, <1>5, InDigitOrder
  <2> QED
    BY <2>1, InDigitOrder
<1>6. ASSUME Num(c, L, l) < Num(d, L, m)
      PROVE  Num(x, L, l) < Num(z, L, m)
  <2>1. c < d \/ (c = d /\ l < m)
    BY <1>4, <1>6, InDigitOrder
  <2>2. CASE c < d
    <3>1. x < z
      BY <1>1, <2>2, InDigitOrder
    <3> QED
      BY <3>1, InDigitOrder
  <2>3. CASE c = d /\ l < m
    <3>1. x = z
      BY <1>1, <2>3
    <3> QED
      BY <2>3, <3>1, InDigitOrder
  <2> QED
    BY <2>1, <2>2, <2>3
<1>7. ASSUME Num(c, L, l) = Num(d, L, m)
      PROVE  c = d /\ l = m
    BY <1>4, <1>7, OneWay
<1> QED
    BY <1>2, <1>3, <1>5, <1>6, <1>7

\* The same for all rounds of one geometry.
RoundsOrder(g, C, L) ==
    \A f, h \in Nat : \A c, d \in 0 .. C - 1 : \A l, m \in 0 .. L - 1 :
        /\ f < h => Rounds(g, f, c, l) < Rounds(g, h, d, m)
        /\ BlkNo(g, <<c, l>>) < BlkNo(g, <<d, m>>) => Rounds(g, f, c, l) < Rounds(g, f, d, m)
        /\ BlkNo(g, <<c, l>>) = BlkNo(g, <<d, m>>) => c = d /\ l = m

\* Every geometry has its rounds in that order.
LEMMA RoundsHaveOrder ==
    ASSUME NEW g, NEW C \in Nat \ {0}, NEW L \in Nat \ {0}, g.nchs = C, g.luns_per_ch = L
    PROVE  RoundsOrder(g, C, L)
<1>1. ASSUME NEW f \in Nat, NEW h \in Nat, NEW c \in 0 .. C - 1, NEW d \in 0 .. C - 1,
             NEW l \in 0 .. L - 1, NEW m \in 0 .. L - 1
      PROVE  /\ f < h => Rounds(g, f, c, l) < Rounds(g, h, d, m)
             /\ BlkNo(g, <<c, l>>) < BlkNo(g, <<d, m>>) => Rounds(g, f, c, l) < Rounds(g, f, d, m)
             /\ BlkNo(g, <<c, l>>) = BlkNo(g, <<d, m>>) => c = d /\ l = m
    BY RoundsInOrder
<1> QED
    BY <1>1 DEF RoundsOrder

\* The invariant makes a line cleaned before it is erased.
LEMMA LineIsCleaned ==
    ASSUME CleanInv
    PROVE  CleansBeforeErase
<1>1. PICK C \in Nat \ {0}, L \in Nat \ {0}, W \in Nat \ {0}, P \in Nat \ {0}, K \in Nat \ {0}, F \in Nat \ {0} :
        Shaped(spp, C, L, W, P, K, F)
    BY DEF CleanInv, IsGeometry
<1>g. PICK g : g = spp
    OBVIOUS
<1>2. PICK V \in Nat \ {0} : /\ V = flashpgs_per_blk /\ g = spp
                             /\ g.nchs = C /\ g.luns_per_ch = L /\ g.pgs_per_flashpg = F
                             /\ PagesOfLine = Pages(C, L, V * F) /\ BlksOfLine = (0 .. C - 1) \X (0 .. L - 1)
                             /\ pgs_per_blk = V * F /\ g.pgs_per_line = ((V * C) * L) * F
  <2>1. g = spp
    BY <1>g
  <2>2. Shaped(g, C, L, W, P, K, F)
    BY <1>1, <2>1
  <2>3. /\ g.flashpgs_per_blk \in Nat \ {0} /\ g.pgs_per_blk = g.flashpgs_per_blk * F
        /\ g.pgs_per_line = ((g.flashpgs_per_blk * C) * L) * F
    BY ONLY <1>1, <2>2, BlockNumbers
  <2>4. g.nchs = C /\ g.luns_per_ch = L /\ g.pgs_per_flashpg = F
    BY <2>2 DEF Shaped
  <2>5. PagesOfLine = Pages(C, L, g.pgs_per_blk)
    BY <1>1, <2>1, <2>2, PagesAre DEF Shaped
  <2> QED
    BY <2>1, <2>3, <2>4, <2>5 DEF flashpgs_per_blk, pgs_per_blk, BlksOfLine
<1>3. PICK f \in 0 .. V, c \in 0 .. C - 1, l \in 0 .. L - 1 :
        cursor.flashpg = f /\ cursor.ch = c /\ cursor.lun = l
    BY <1>2 DEF CleanInv
<1>4. PICK M \in Nat : M = Len(cleaned) /\ DOMAIN cleaned = 1 .. M
    BY DEF CleanInv
<1>5. PICK E \in Nat : E = Len(erased) /\ DOMAIN erased = 1 .. E
    BY DEF CleanInv
<1>6. \A i \in 1 .. M : cleaned[i] \in PagesOfLine /\ CleanNo(g, cleaned[i]) = i - 1
  <2>1. g = spp
    BY <1>2
  <2> QED
    BY <2>1, <1>4 DEF CleanInv
<1>7. \A i \in 1 .. E : erased[i] \in BlksOfLine /\ BlkNo(g, erased[i]) = i - 1
  <2>1. g = spp
    BY <1>2
  <2> QED
    <3>1. \A i \in DOMAIN erased : BlkNo(spp, erased[i]) = i - 1
      BY <1>5 DEF CleanInv
    <3>2. erased \in Seq(BlksOfLine)
      BY DEF CleanInv
    <3>3. \A i \in DOMAIN erased : erased[i] \in BlksOfLine
      BY <3>2
    <3> QED
      BY <2>1, <1>5, <3>1, <3>3
<1>8. NoRepeat(cleaned) /\ NoRepeat(erased)
  <2>1. NoRepeat(cleaned)
    BY <1>4, <1>6 DEF NoRepeat
  <2>2. NoRepeat(erased)
    BY <1>5, <1>7 DEF NoRepeat
  <2> QED
    BY <2>1, <2>2
<1>9. PICK R \in Nat : R = Rounds(g, f, c, l) /\ M = R * F
  <2>1. f \in Nat
    OBVIOUS
  <2>2. Rounds(g, f, c, l) \in Nat
    BY <1>2, <2>1, NextRound
  <2> QED
    BY <1>2, <1>3, <1>4, <2>2 DEF CleanInv
<1>10. E = ErasedAt(g, V, f, c, l)
    BY <1>2, <1>3, <1>5 DEF CleanInv, ErasedAt
<1>11. f = V => c = 0 /\ l = 0
    BY <1>2, <1>3 DEF CleanInv
<1>o. RoundsOrder(g, C, L)
    BY <1>2, RoundsHaveOrder
<1>12. ASSUME NEW p \in PagesOfLine, NEW h \in 0 .. V - 1, NEW d \in 0 .. C - 1, NEW m \in 0 .. L - 1,
              h = p.pg \div F, p.ch = d, p.lun = m, Rounds(g, h, d, m) < R
       PROVE  p \in ToSet(cleaned)
  <2>1. p.pg \in Nat
    <3>1. PICK N \in Nat : N = V * F
      OBVIOUS
    <3> QED
      BY <1>2, <3>1 DEF Pages
  <2>2. PICK k \in 0 .. F - 1 : k = p.pg % F
    BY <2>1, HasDigits
  <2>3. PICK r \in Nat : r = Rounds(g, h, d, m) /\ r < R
    <3>1. h \in Nat
      OBVIOUS
    <3> QED
      BY <1>2, <1>12, <3>1, NextRound
  <2>4. CleanNo(g, p) = Num(r, F, k)
    BY <1>2, <1>12, <2>2, <2>3 DEF CleanNo, PageNo, Rounds
  <2>5. Num(r, F, k) < R * F
    BY <2>3, Below
  <2> QED
    BY <1>2, <1>4, <1>9, <2>4, <2>5, CleanedPage
<1>13. ASSUME NEW p \in PagesOfLine
       PROVE  p.pg \div F \in 0 .. V - 1 /\ p.ch \in 0 .. C - 1 /\ p.lun \in 0 .. L - 1
  <2>1. PICK N \in Nat : N = V * F
    OBVIOUS
  <2>2. PICK n \in Nat : n = p.pg /\ n < N /\ p.ch \in 0 .. C - 1 /\ p.lun \in 0 .. L - 1
    BY <1>2, <2>1 DEF Pages
  <2>3. PICK h \in Nat, k \in 0 .. F - 1 : h = n \div F /\ n = Num(h, F, k)
    <3>1. n \div F \in Nat /\ n % F \in 0 .. F - 1 /\ n = Num(n \div F, F, n % F)
      BY HasDigits
    <3> QED
      BY <3>1
  <2>4. h < V
    <3>1. Num(h, F, k) < V * F
      BY <2>1, <2>2, <2>3
    <3> QED
      BY <3>1, Below
  <2> QED
    BY <2>2, <2>3, <2>4
<1>14. ASSUME NEW b \in ToSet(erased), NEW p \in PagesOfLine, BlkOfPage(p) = b
       PROVE  p \in ToSet(cleaned)
  <2>1. PICK i \in 1 .. E : b = erased[i]
    BY <1>5 DEF ToSet
  <2>2. PICK d \in 0 .. C - 1, m \in 0 .. L - 1, h \in 0 .. V - 1 :
          p.ch = d /\ p.lun = m /\ h = p.pg \div F /\ b = <<d, m>>
    BY <1>13, <1>14 DEF BlkOfPage
  <2>3. BlkNo(g, <<d, m>>) = i - 1 /\ BlkNo(g, <<d, m>>) < E
    <3>1. BlkNo(g, b) = i - 1
      BY <1>7, <2>1
    <3> QED
      BY <2>2, <3>1
  <2>4. Rounds(g, h, d, m) < R
    <3>0. h \in Nat /\ f \in Nat
      OBVIOUS
    <3>1. CASE f < V - 1
      <4>1. E = 0
        BY <1>10, <3>1 DEF ErasedAt
      <4> QED
        BY <2>1, <4>1
    <3>2. CASE h < f
      BY <1>9, <1>o, <3>0, <3>2 DEF RoundsOrder
    <3>3. CASE f = V - 1 /\ h = f
      <4>1. BlkNo(g, <<d, m>>) < BlkNo(g, <<c, l>>)
        BY <1>10, <2>3, <3>3 DEF ErasedAt
      <4>2. Rounds(g, f, d, m) < Rounds(g, f, c, l)
        BY <1>o, <3>0, <4>1 DEF RoundsOrder
      <4> QED
        BY <1>9, <3>3, <4>2
    <3> QED
      BY <3>1, <3>2, <3>3
  <2> QED
    BY <1>12, <2>2, <2>4
<1>15. ASSUME f = V
       PROVE  ToSet(cleaned) = PagesOfLine /\ ToSet(erased) = {BlkOfPage(p) : p \in PagesOfLine}
  <2>1. ASSUME NEW p \in PagesOfLine
        PROVE  p \in ToSet(cleaned)
    <3>1. PICK h \in 0 .. V - 1, d \in 0 .. C - 1, m \in 0 .. L - 1 : h = p.pg \div F /\ p.ch = d /\ p.lun = m
      BY <1>13
    <3>2. h \in Nat /\ f \in Nat /\ h < f
      BY <1>15
    <3>3. Rounds(g, h, d, m) < R
      BY <1>9, <1>o, <3>2 DEF RoundsOrder
    <3> QED
      BY <1>12, <3>1, <3>3
  <2>2. ToSet(cleaned) \subseteq PagesOfLine
    BY <1>4, <1>6 DEF ToSet
  <2>3. E = C * L
    BY <1>2, <1>10, <1>15 DEF ErasedAt
  <2>4. ASSUME NEW b \in ToSet(erased)
        PROVE  \E p \in PagesOfLine : b = BlkOfPage(p)
    <3>1. PICK i \in 1 .. E : b = erased[i]
      BY <1>5 DEF ToSet
    <3>2. PICK d \in 0 .. C - 1, m \in 0 .. L - 1 : b = <<d, m>>
      BY <1>2, <1>7, <3>1
    <3>3. PICK p : p = [ch |-> d, lun |-> m, pg |-> 0]
      OBVIOUS
    <3>4. p \in PagesOfLine
      <4>1. PICK N \in Nat \ {0} : N = V * F
        BY NotZero
      <4> QED
        BY <1>2, <3>3, <4>1 DEF Pages
    <3>5. b = BlkOfPage(p)
      BY <3>2, <3>3 DEF BlkOfPage
    <3> QED
      BY <3>4, <3>5
  <2>5. ASSUME NEW p \in PagesOfLine
        PROVE  BlkOfPage(p) \in ToSet(erased)
    <3>1. PICK d \in 0 .. C - 1, m \in 0 .. L - 1 : d = p.ch /\ m = p.lun /\ BlkOfPage(p) = <<d, m>>
      BY <1>13 DEF BlkOfPage
    <3>2. PICK n \in Nat : n = BlkNo(g, <<d, m>>) /\ n < C * L
      BY <1>2, NextBlk
    <3>3. n + 1 \in 1 .. E
      BY <2>3, <3>2
    <3>4. PICK e \in 0 .. C - 1, k \in 0 .. L - 1 : erased[n + 1] = <<e, k>> /\ BlkNo(g, <<e, k>>) = n
      <4>1. erased[n + 1] \in BlksOfLine /\ BlkNo(g, erased[n + 1]) = (n + 1) - 1
        BY <1>7, <3>3
      <4>2. PICK e \in 0 .. C - 1, k \in 0 .. L - 1 : erased[n + 1] = <<e, k>>
        BY <1>2, <4>1
      <4>3. (n + 1) - 1 = n
        OBVIOUS
      <4> QED
        BY <4>1, <4>2, <4>3
    <3>5. e = d /\ k = m
      <4>1. BlkNo(g, <<e, k>>) = BlkNo(g, <<d, m>>) /\ 0 \in Nat
        BY <3>2, <3>4
      <4> QED
        BY <1>o, <4>1 DEF RoundsOrder
    <3> QED
      BY <1>5, <3>1, <3>3, <3>4, <3>5 DEF ToSet
  <2> QED
    BY <2>1, <2>2, <2>4, <2>5
<1> QED
    BY <1>2, <1>3, <1>8, <1>14, <1>15 DEF CleansBeforeErase

\* A line starts with nothing cleaned and nothing erased.
LEMMA CleanFirst ==
    ASSUME WInit
    PROVE  CleanInv
<1>1. /\ IsGeometry(spp) /\ cleaned = <<>> /\ erased = <<>>
      /\ cursor = [flashpg |-> 0, ch |-> 0, lun |-> 0]
    BY TheGeometry DEF WInit
<1>2. PICK C \in Nat \ {0}, L \in Nat \ {0}, W \in Nat \ {0}, P \in Nat \ {0}, K \in Nat \ {0}, F \in Nat \ {0} :
        Shaped(spp, C, L, W, P, K, F)
    BY <1>1 DEF IsGeometry
<1>3. PICK V \in Nat \ {0} : V = flashpgs_per_blk
    BY <1>1, LineNumbers DEF flashpgs_per_blk
<1>4. spp.nchs = C /\ spp.luns_per_ch = L
    BY <1>2 DEF Shaped
<1>5. Num(0, C, 0) = 0 /\ Num(0, L, 0) = 0
    BY DEF Num
<1>6. Rounds(spp, 0, 0, 0) * spp.pgs_per_flashpg = 0
  <2>1. Rounds(spp, 0, 0, 0) = 0
    BY <1>4, <1>5 DEF Rounds
  <2>2. spp.pgs_per_flashpg = F /\ 0 * F = 0
    BY <1>2 DEF Shaped
  <2> QED
    BY <2>1, <2>2
<1>7. BlkNo(spp, <<0, 0>>) = 0
    BY <1>4, <1>5 DEF BlkNo
<1>8. cleaned \in Seq(PagesOfLine) /\ Len(cleaned) = 0 /\ erased \in Seq(BlksOfLine) /\ Len(erased) = 0
    BY <1>1
<1>9. cursor \in [flashpg : 0 .. V, ch : 0 .. (C - 1), lun : 0 .. (L - 1)]
    BY <1>1
<1>10. Len(erased) = IF cursor.flashpg < V - 1 THEN 0
                     ELSE IF cursor.flashpg = V - 1 THEN BlkNo(spp, <<cursor.ch, cursor.lun>>)
                     ELSE spp.nchs * spp.luns_per_ch
    BY <1>1, <1>7, <1>8
<1> QED
    BY <1>1, <1>3, <1>4, <1>6, <1>8, <1>9, <1>10 DEF CleanInv

\* What the other walk does leaves each invariant.
LEMMA WalkSteps ==
    ASSUME FillInv, CleanInv, [WNext]_wvars
    PROVE  FillInv' /\ CleanInv'
<1>1. CASE FillPage
  <2>1. CleanInv'
    BY <1>1 DEF FillPage, CleanInv, PagesOfLine, BlksOfLine, pgs_per_blk, flashpgs_per_blk
  <2> QED
    BY <1>1, <2>1, FillStep
<1>2. CASE CleanFlashPage
  <2>1. FillInv'
    BY <1>2 DEF CleanFlashPage, FillInv, PagesOfLine, pgs_per_blk
  <2> QED
    BY <1>2, <2>1, CleanStep
<1>3. CASE UNCHANGED wvars
    BY <1>3 DEF wvars, FillInv, CleanInv, PagesOfLine, BlksOfLine, pgs_per_blk, flashpgs_per_blk
<1> QED
    BY <1>1, <1>2, <1>3 DEF WNext

\* advance_write_pointer fills a line completely, for every geometry.
THEOREM LinesAreFilled ==
    WInit /\ [][WNext]_wvars => []FillsLine
<1>1. WInit => FillInv /\ CleanInv
    BY FillFirst, CleanFirst
<1>2. (FillInv /\ CleanInv) /\ [WNext]_wvars => (FillInv /\ CleanInv)'
    BY WalkSteps
<1>3. FillInv /\ CleanInv => FillsLine
    BY LineIsFilled
<1> QED
    BY <1>1, <1>2, <1>3, PTL

\* do_gc cleans every page of a block before it erases it, for every geometry.
THEOREM CleanedBeforeErased ==
    WInit /\ [][WNext]_wvars => []CleansBeforeErase
<1>1. WInit => FillInv /\ CleanInv
    BY FillFirst, CleanFirst
<1>2. (FillInv /\ CleanInv) /\ [WNext]_wvars => (FillInv /\ CleanInv)'
    BY WalkSteps
<1>3. FillInv /\ CleanInv => CleansBeforeErase
    BY LineIsCleaned
<1> QED
    BY <1>1, <1>2, <1>3, PTL

=============================================================================
