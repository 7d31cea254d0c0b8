--------------------------- MODULE CmdPath_proofs ---------------------------
(***************************************************************************)
(* The command path, for every number of queues, workers and commands,     *)
(* every size of the rings and every plan of the host.  First the admin    *)
(* queue: its registers, rings, doorbell and answers, beside every use of  *)
(* the I/O queues.  Then, on its invariant, the I/O queues: every          *)
(* submission ring, completion ring and command.                           *)
(***************************************************************************)
EXTENDS CmdPath, Induction

HostFields == {"st", "plan", "boot", "todo", "tail", "head", "phase", "sent", "open", "sq", "cq",
               "granted"}
States     == {"off", "regs", "enabling", "up", "shutting", "down", "disabling"}
RingRegs   == {"aqa", "asq", "acq"}

-----------------------------------------------------------------------------
(* Rings. *)

\* The slot i places after h in a ring of d slots, the way from a to b, and the
\* phase that a reader who expects p at h expects there.
At(h, i, d)     == IF h + i < d THEN h + i ELSE h + i - d
Dist(a, b, d)   == IF a <= b THEN b - a ELSE b - a + d
Tag(h, i, p, d) == IF h + i < d THEN p ELSE 1 - p

\* A completion ring that holds the answers a for its reader, and no more.
CqRing(ring, h, p, a, d) ==
    /\ ring \in [0 .. d - 1 -> [id : Nat, phase : {0, 1}]]
    /\ h \in 0 .. d - 1 /\ p \in {0, 1}
    /\ Len(a) < d
    /\ \A i \in 0 .. d - 1 : ring[At(h, i, d)].phase = Tag(h, i, p, d) <=> i < Len(a)
    /\ \A i \in 1 .. Len(a) : ring[At(h, i - 1, d)].id = a[i]

-----------------------------------------------------------------------------
(* The invariant: the admin queue. *)

Fresh == host.st \in {"regs", "enabling"}

HostInv ==
    /\ host = [f \in HostFields |-> host[f]]
    /\ host.st \in States /\ host.plan \in Plans /\ host.boot \in 0 .. Len(host.plan)
    /\ host.st # "off" => host.boot # 0
    /\ host.todo \subseteq RingRegs
    /\ host.boot = 0 => host.open = {}
    /\ host.boot # 0 =>
         /\ host.tail \in 0 .. Depth - 1
         /\ host.sent \in 0 .. Len(Log) /\ host.open \subseteq 1 .. host.sent
         /\ Cardinality(host.open) < Depth
         /\ \A i, j \in host.open : Log[i].op \in OnQueues /\ Log[j].op \in OnQueues => i = j
    /\ Fresh => host.tail = 0 /\ host.sent = 0 /\ host.head = 0 /\ host.phase = 1
    /\ host.st # "up" => Quiet

IsSeq(s) == \E S : s \in Seq(S)

MemInv ==
    /\ IsSeq(asq) /\ Len(asq) = host.boot
    /\ IsSeq(acq) /\ Len(acq) = host.boot
    /\ \A b \in 1 .. host.boot : DOMAIN asq[b] = 0 .. host.plan[b].depth - 1

RegVal(r) == IF r = "aqa" THEN Depth ELSE host.boot

\* A ring register that has changed since the last look was written in this start.
NewRegs == \A r \in RingRegs : old_bar[r] # bar[r] => Fresh /\ r \notin host.todo

RegInv ==
    /\ bar \in [aqa : Nat \ {1}, asq : Nat, acq : Nat, en : BOOLEAN, shn : BOOLEAN,
                rdy : BOOLEAN, shst : BOOLEAN]
    /\ old_bar \in [aqa : Nat \ {1}, asq : Nat, acq : Nat, en : BOOLEAN, shn : BOOLEAN]
    /\ bar.aqa = 0 => old_bar.aqa = 0
    /\ old_bar.asq <= bar.asq /\ bar.asq <= host.boot
    /\ old_bar.acq <= bar.acq /\ bar.acq <= host.boot
    /\ host.st \in {"off", "regs", "disabling"} => ~bar.en
    /\ host.st \in {"off", "regs"} => ~bar.rdy
    /\ host.st \notin {"shutting", "down"} => ~bar.shn
    /\ host.st = "regs" => \A r \in RingRegs \ host.todo : bar[r] = RegVal(r)
    /\ host.st \in {"enabling", "up"} => \A r \in RingRegs : bar[r] = RegVal(r)
    /\ NewRegs

\* The dispatcher has seen the ring registers.
Adopted == admin_q # NIL /\ \A r \in RingRegs : old_bar[r] = bar[r]

AdminQs == [nvme_sq : Nat, nvme_cq : Nat, cq_head : Nat, phase : {0, 1},
            sq_depth : Nat, cq_depth : Nat]

DevInv ==
    /\ admin_q = NIL => old_bar.aqa = 0 /\ old_bar.asq = 0 /\ old_bar.acq = 0
    /\ admin_q # NIL =>
         /\ admin_q \in AdminQs
         /\ old_bar.aqa # 0
         /\ admin_q.nvme_sq = old_bar.asq /\ admin_q.nvme_cq = old_bar.acq
         /\ admin_q.sq_depth = old_bar.aqa \/ (Fresh /\ old_bar.asq = host.boot /\ old_bar.aqa # bar.aqa)
         /\ admin_q.cq_depth = old_bar.aqa \/ old_bar.aqa # bar.aqa
    /\ host.st \in {"up", "shutting", "down"} => admin_q # NIL
    /\ host.st = "up" => Adopted
    /\ host.st = "enabling" /\ bar.rdy => Adopted
    /\ Fresh /\ old_bar.acq = host.boot => admin_q.cq_head = 0 /\ admin_q.phase = 1
    /\ Fresh /\ old_bar.asq = host.boot => dbs[0] = 0 /\ old_dbs[0] = 0 /\ disp.pc # "admin"
    /\ host.st = "up" => /\ dbs[0] = host.tail
                         /\ admin_q.cq_head = At(host.head, Len(aposted), Depth)
                         /\ admin_q.phase = Tag(host.head, Len(aposted), host.phase, Depth)

\* Answers that the host has not seen.
AckInv ==
    /\ aposted \in Seq(Nat)
    /\ host.boot = 0 => aposted = <<>>
    /\ host.boot # 0 => CqRing(acq[host.boot], host.head, host.phase, aposted, Depth)
    /\ \A i \in DOMAIN aposted : aposted[i] \in host.open /\ Log[aposted[i]].op # "abort"
    /\ \A i, j \in DOMAIN aposted : i < j => aposted[i] < aposted[j]

\* Commands that the dispatcher has not executed.
From    == IF disp.pc = "admin" THEN disp.at ELSE old_dbs[0]
Waiting == Dist(From, dbs[0], old_bar.aqa)

Pending(e, j) ==
    /\ e \in [id : Nat, cmd : Commands]
    /\ IF host.st = "up"
       THEN e.id = host.sent - Waiting + 1 + j /\ e.id \in host.open /\ e.cmd = Log[e.id]
       ELSE e.cmd.op = "abort"

DispInv ==
    /\ dbs \in [0 .. NrQueues -> Nat] /\ old_dbs \in [0 .. NrQueues -> Nat]
    /\ disp \in [pc : {"idle", "cc_shn", "cc_store", "admin", "io"}, q : 0 .. NrQueues, new : Nat, at : Nat]
    /\ disp.pc = "io" => disp.q # 0

SubInv ==
    /\ old_bar.asq = 0 => dbs[0] = 0 /\ old_dbs[0] = 0 /\ disp.pc # "admin"
    /\ old_bar.asq # 0 =>
         /\ dbs[0] < old_bar.aqa /\ From < old_bar.aqa
         /\ disp.pc = "admin" => disp.new < old_bar.aqa /\ Dist(disp.at, disp.new, old_bar.aqa) <= Waiting
         /\ \A j \in 0 .. Waiting - 1 : Pending(asq[old_bar.asq][At(From, j, old_bar.aqa)], j)
    /\ host.st = "up" => \A i \in DOMAIN aposted : aposted[i] <= host.sent - Waiting

\* The host's side of the I/O rings.
RingInv ==
    /\ rings = [tail |-> rings.tail, head |-> rings.head, phase |-> rings.phase]
    /\ rings.tail \in [Queues -> 0 .. SqSize - 1]

AdminInv == HostInv /\ MemInv /\ RegInv /\ DispInv /\ DevInv /\ AckInv /\ SubInv

-----------------------------------------------------------------------------
(* Facts about rings. *)

Succ(a, d) == IF a + 1 = d THEN 0 ELSE a + 1

\* Going round: the places of a ring are its slots, each once.
LEMMA Places ==
    ASSUME NEW d \in Nat \ {0}, NEW h \in 0 .. d - 1
    PROVE  /\ At(h, 0, d) = h
           /\ \A i \in 0 .. d - 1 : At(h, i, d) \in 0 .. d - 1
           /\ \A i, j \in 0 .. d - 1 : At(h, i, d) = At(h, j, d) => i = j
           /\ \A i \in 0 .. d - 2 : At(h, i + 1, d) = Succ(At(h, i, d), d)
           /\ \A i \in 0 .. d - 2 : At(Succ(h, d), i, d) = At(h, i + 1, d)
BY DEF At, Succ

\* The remainders in the code and in the model are places of a ring.
LEMMA Modulo ==
    ASSUME NEW d \in Nat \ {0}, NEW h \in 0 .. d - 1
    PROVE  /\ \A i \in 0 .. d - 1 : (h + i) % d = At(h, i, d)
           /\ d > 1 => (h + 1) % d = Succ(h, d)
<1>1. ASSUME NEW i \in 0 .. d - 1
      PROVE  (h + i) % d = At(h, i, d)
  <2>1. CASE h + i < d
    <3>1. h + i \in 0 .. d - 1
      BY <2>1
    <3>2. (h + i) % d = h + i
      BY <3>1, Remainder
    <3> QED
      BY <2>1, <3>2 DEF At
  <2>2. CASE h + i >= d
    <3>1. PICK q \in 0 .. d - 1 : q = h + i - d
      BY <2>2
    <3>2. (d + q) % d = q
      BY Remainder
    <3>3. d + q = h + i
      BY <3>1
    <3> QED
      BY <2>2, <3>1, <3>2, <3>3 DEF At
  <2> QED
    BY <2>1, <2>2
<1>2. ASSUME d > 1
      PROVE  At(h, 1, d) = Succ(h, d) /\ 1 \in 0 .. d - 1
    BY <1>2 DEF At, Succ
<1> QED
    BY <1>1, <1>2

\* So is the remainder that counts the entries between two doorbells.
LEMMA Gap ==
    ASSUME NEW d \in Nat \ {0}, NEW f \in 0 .. d - 1, NEW b \in 0 .. d - 1
    PROVE  (b - f + d) % d = Dist(f, b, d)
<1>1. CASE f <= b
  <2>1. PICK m \in 0 .. d - 1 : m = b - f
    BY <1>1
  <2>2. (d + m) % d = m
    BY Remainder
  <2>3. Dist(f, b, d) = m /\ b - f + d = d + m
    BY <1>1, <2>1 DEF Dist
  <2> QED
    BY <2>2, <2>3
<1>2. CASE ~(f <= b)
  <2>1. PICK m \in 0 .. d - 1 : m = b - f + d
    BY <1>2
  <2>2. m % d = m
    BY Remainder
  <2> QED
    BY <1>2, <2>1, <2>2 DEF Dist
<1> QED
    BY <1>1, <1>2

\* The way from a to b, and what one step at either end does to it.
LEMMA Ways ==
    ASSUME NEW d \in Nat \ {0}, NEW a \in 0 .. d - 1, NEW b \in 0 .. d - 1
    PROVE  /\ Dist(a, b, d) \in 0 .. d - 1
           /\ Dist(a, b, d) = 0 <=> a = b
           /\ At(a, Dist(a, b, d), d) = b
           /\ Succ(a, d) \in 0 .. d - 1
           /\ a # b => Dist(Succ(a, d), b, d) = Dist(a, b, d) - 1
           /\ Dist(a, b, d) < d - 1 => Dist(a, Succ(b, d), d) = Dist(a, b, d) + 1
BY DEF At, Dist, Succ

\* The phase of the next place.
LEMMA NextTag ==
    ASSUME NEW d \in Nat \ {0}, NEW h \in 0 .. d - 1, NEW p \in {0, 1}
    PROVE  /\ Tag(h, 0, p, d) = p
           /\ \A i \in 0 .. d - 1 : Tag(h, i, p, d) \in {0, 1}
           /\ \A i \in 0 .. d - 2 : Tag(h, i + 1, p, d) =
                IF At(h, i, d) + 1 = d THEN 1 - Tag(h, i, p, d) ELSE Tag(h, i, p, d)
BY DEF At, Tag

\* The host finds the answers that a ring holds for it, and no others.
LEMMA SeenRing ==
    ASSUME NEW d \in Nat \ {0}, NEW h, NEW p, NEW ring, NEW a \in Seq(Nat), CqRing(ring, h, p, a, d)
    PROVE  SeenFrom(ring, h, p, d) = Len(a) /\ SeenIds(ring, h, p, d) = a
<1>1. PICK L \in Nat : L = Len(a) /\ L < d
    BY DEF CqRing
<1>2. h \in 0 .. d - 1 /\ p \in {0, 1}
    BY DEF CqRing
<1>3. \A i \in 0 .. d - 1 : (h + i) % d = At(h, i, d)
    BY <1>2, Modulo
<1>4. \A i \in 0 .. d - 1 : ring[(h + i) % d].phase = Tag(h, i, p, d) <=> i < L
    BY <1>1, <1>3 DEF CqRing
<1> DEFINE T(i) == IF h + i < d THEN p ELSE 1 - p
           Fits(n) == /\ \A i \in 0 .. (n - 1) : ring[(h + i) % d].phase = T(i)
                      /\ n = d \/ ring[(h + n) % d].phase # T(n)
<1>5. \A i \in 0 .. d - 1 : ring[(h + i) % d].phase = T(i) <=> i < L
    BY <1>4 DEF Tag
<1> HIDE DEF T
<1>6. Fits(L) /\ L \in 0 .. d
    BY <1>1, <1>5
<1>7. ASSUME NEW n \in 0 .. d, Fits(n)
      PROVE  n = L
  <2>1. ~ n < L
    BY <1>1, <1>5, <1>7
  <2>2. ~ L < n
    BY <1>1, <1>5, <1>7
  <2> QED
    BY <2>1, <2>2, <1>1
<1>8. SeenFrom(ring, h, p, d) = CHOOSE n \in 0 .. d : Fits(n)
    BY DEF SeenFrom, T
<1>9. SeenFrom(ring, h, p, d) = L
  <2> HIDE DEF Fits
  <2> QED
    BY <1>6, <1>7, <1>8
<1>10. SeenIds(ring, h, p, d) = [i \in 1 .. L |-> ring[(h + i - 1) % d].id]
    BY <1>9 DEF SeenIds
<1>11. ASSUME NEW i \in 1 .. L
       PROVE  ring[(h + i - 1) % d].id = a[i]
  <2>1. (i - 1) \in 0 .. d - 1 /\ h + i - 1 = h + (i - 1)
    BY <1>1, <1>2
  <2>2. (h + i - 1) % d = At(h, i - 1, d)
    BY <2>1, <1>3
  <2> QED
    BY <2>2, <1>1 DEF CqRing
<1>12. a = [i \in 1 .. L |-> a[i]]
    BY <1>1
<1> QED
    BY <1>1, <1>9, <1>10, <1>11, <1>12

\* An answer stored where the next one belongs is one more for the host.
LEMMA PostRing ==
    ASSUME NEW d \in Nat \ {0}, NEW h, NEW p, NEW ring, NEW a \in Seq(Nat), CqRing(ring, h, p, a, d),
           Len(a) + 1 < d, NEW id \in Nat, NEW e, e = [id |-> id, phase |-> Tag(h, Len(a), p, d)]
    PROVE  CqRing([ring EXCEPT ![At(h, Len(a), d)] = e], h, p, Append(a, id), d)
<1>1. PICK L \in Nat : L = Len(a) /\ L + 1 < d /\ L \in 0 .. d - 1
    OBVIOUS
<1>2. h \in 0 .. d - 1 /\ p \in {0, 1} /\ ring \in [0 .. d - 1 -> [id : Nat, phase : {0, 1}]]
    BY DEF CqRing
<1>3. Tag(h, L, p, d) \in {0, 1}
    BY <1>1, <1>2, NextTag
<1>4. e \in [id : Nat, phase : {0, 1}] /\ e.id = id /\ e.phase = Tag(h, L, p, d)
    BY <1>1, <1>3
<1>5. PICK x \in 0 .. d - 1 : x = At(h, L, d)
    BY <1>1, <1>2, Places
<1>6. PICK r : r = [ring EXCEPT ![x] = e]
    OBVIOUS
<1>7. r \in [0 .. d - 1 -> [id : Nat, phase : {0, 1}]]
    BY <1>2, <1>4, <1>5, <1>6
<1>8. ASSUME NEW i \in 0 .. d - 1
      PROVE  r[At(h, i, d)] = IF i = L THEN e ELSE ring[At(h, i, d)]
  <2>1. PICK y \in 0 .. d - 1 : y = At(h, i, d)
    BY <1>2, Places
  <2>2. y = x <=> i = L
    <3>1. At(h, i, d) = At(h, L, d) => i = L
      BY <1>1, <1>2, Places
    <3> QED
      BY <3>1, <1>5, <2>1
  <2>3. r[y] = IF y = x THEN e ELSE ring[y]
    BY <1>2, <1>5, <1>6, <2>1
  <2> QED
    BY <2>1, <2>2, <2>3
<1>9. PICK b : b = Append(a, id) /\ b \in Seq(Nat)
  <2>1. Append(a, id) \in Seq(Nat)
    OBVIOUS
  <2> QED
    BY <2>1
<1>10. Len(b) = L + 1 /\ \A i \in 1 .. L : b[i] = a[i]
    BY <1>1, <1>9
<1>11. b[L + 1] = id
    BY <1>1, <1>9
<1>12. ASSUME NEW i \in 0 .. d - 1
       PROVE  r[At(h, i, d)].phase = Tag(h, i, p, d) <=> i < L + 1
  <2>1. CASE i = L
    BY <2>1, <1>1, <1>4, <1>8
  <2>2. CASE i # L
    <3>1. r[At(h, i, d)] = ring[At(h, i, d)]
      BY <2>2, <1>8
    <3>2. ring[At(h, i, d)].phase = Tag(h, i, p, d) <=> i < L
      BY <1>1 DEF CqRing
    <3>3. i < L + 1 <=> i < L
      BY <2>2, <1>1
    <3> QED
      BY <3>1, <3>2, <3>3
  <2> QED
    BY <2>1, <2>2
<1>13. ASSUME NEW i \in 1 .. L + 1
       PROVE  r[At(h, i - 1, d)].id = b[i]
  <2>1. CASE i = L + 1
    BY <2>1, <1>1, <1>4, <1>8, <1>11
  <2>2. CASE i # L + 1
    <3>1. i \in 1 .. L /\ i - 1 \in 0 .. d - 1 /\ i - 1 # L
      BY <2>2, <1>1
    <3>2. r[At(h, i - 1, d)] = ring[At(h, i - 1, d)]
      BY <3>1, <1>8
    <3>3. ring[At(h, i - 1, d)].id = a[i]
      BY <3>1, <1>1 DEF CqRing
    <3> QED
      BY <3>1, <3>2, <3>3, <1>10
  <2> QED
    BY <2>1, <2>2
<1>14. CqRing(r, h, p, b, d)
    BY <1>1, <1>2, <1>7, <1>10, <1>12, <1>13 DEF CqRing
<1> QED
    BY <1>1, <1>5, <1>6, <1>9, <1>14

\* When the host has taken all answers, the ring holds none for it.
LEMMA TakeRing ==
    ASSUME NEW d \in Nat \ {0}, NEW h, NEW p, NEW ring, NEW a \in Seq(Nat), CqRing(ring, h, p, a, d)
    PROVE  CqRing(ring, At(h, Len(a), d), Tag(h, Len(a), p, d), <<>>, d)
<1>1. PICK L \in Nat : L = Len(a) /\ L < d /\ L \in 0 .. d - 1
    BY DEF CqRing
<1>2. h \in 0 .. d - 1 /\ p \in {0, 1} /\ ring \in [0 .. d - 1 -> [id : Nat, phase : {0, 1}]]
    BY DEF CqRing
<1>3. PICK g \in 0 .. d - 1 : g = At(h, L, d)
    BY <1>1, <1>2, Places
<1>7. PICK q \in {0, 1} : q = Tag(h, L, p, d)
    BY <1>1, <1>2, NextTag
<1>8. /\ h + L < d => g = h + L /\ q = p
      /\ h + L >= d => g = h + L - d /\ q = 1 - p
    BY <1>1, <1>2, <1>3, <1>7 DEF At, Tag
<1>9. d \in Int /\ h \in Int /\ L \in Int /\ g \in Int /\ p \in Int /\ 0 <= h /\ h < d /\ 0 <= L /\ L < d
    BY <1>1, <1>2, <1>3
<1>4. ASSUME NEW i \in 0 .. d - 1
      PROVE  ring[At(g, i, d)].phase # Tag(g, i, q, d)
  <2>0. i \in Int /\ 0 <= i /\ i < d
    BY <1>9
  <2>1. CASE L + i < d
    <3>1. PICK j \in 0 .. d - 1 : j = L + i
      BY <1>1, <2>1
    <3>2. At(g, i, d) = At(h, j, d) /\ Tag(g, i, q, d) = Tag(h, j, p, d)
      <4>1. CASE h + L < d
        BY <4>1, <1>1, <1>2, <1>8, <3>1 DEF At, Tag
      <4>2. CASE h + L >= d
        <5>1. g + i = h + j - d /\ g + i < d /\ h + j >= d /\ q = 1 - p
          BY <4>2, <1>8, <1>9, <2>0, <2>1, <3>1
        <5> QED
          BY <5>1, <1>2, <1>3, <3>1 DEF At, Tag
      <4> QED
        BY <4>1, <4>2, <1>1, <1>2
    <3>3. ~ j < L
      BY <1>1, <3>1
    <3> QED
      BY <1>1, <3>2, <3>3 DEF CqRing
  <2>2. CASE L + i >= d
    <3>0. L + i - d \in 0 .. d - 1 /\ L + i - d < L
      BY <1>1, <2>2
    <3>1. PICK j \in 0 .. d - 1 : j = L + i - d /\ j < L
      BY <3>0
    <3>2. At(g, i, d) = At(h, j, d) /\ Tag(g, i, q, d) = 1 - Tag(h, j, p, d)
      <4>1. CASE h + L < d
        <5>1. g + i = h + j + d /\ g + i >= d /\ h + j < d /\ q = p
          BY <4>1, <1>8, <1>9, <2>0, <2>2, <3>1
        <5>2. g + i - d = h + j
          BY <4>1, <1>8, <1>9, <2>0, <2>2, <3>1
        <5> QED
          BY <5>1, <5>2, <1>2, <1>3, <3>1 DEF At, Tag
      <4>2. CASE h + L >= d
        <5>1. g + i = h + j /\ q = 1 - p
          BY <4>2, <1>8, <1>9, <2>0, <2>2, <3>1
        <5>2. 1 - q = p
          BY <5>1, <1>2
        <5> QED
          BY <5>1, <5>2, <1>2, <1>3, <3>1 DEF At, Tag
      <4> QED
        BY <4>1, <4>2, <1>1, <1>2
    <3>3. ring[At(h, j, d)].phase = Tag(h, j, p, d) /\ Tag(h, j, p, d) \in {0, 1}
      BY <1>1, <1>2, <3>1, NextTag DEF CqRing
    <3> QED
      BY <3>2, <3>3
  <2> QED
    BY <1>1, <2>1, <2>2
<1>5. CqRing(ring, g, q, <<>>, d)
    BY <1>2, <1>4 DEF CqRing
<1> QED
    BY <1>1, <1>3, <1>5, <1>7


-----------------------------------------------------------------------------
(* The admin queue. *)

\* A plan of the host's.
LEMMA PlanFacts ==
    ASSUME NEW p \in Plans
    PROVE  /\ Len(p) \in Nat
           /\ \A b \in 1 .. Len(p) :
                /\ p[b].depth \in Nat /\ p[b].depth > 1
                /\ p[b].cmds \in Seq(Commands) /\ Len(p[b].cmds) \in Nat
                /\ \A i \in 1 .. Len(p[b].cmds) :
                     /\ p[b].cmds[i] \in Commands
                     /\ p[b].cmds[i].op \in OnQueues \ {"set_features"} => p[b].cmds[i].qid # 0
                     /\ p[b].cmds[i].op = "create_sq" => p[b].cmds[i].cqid # 0
<1>0. PICK S : S = [depth : Nat \ {0, 1}, cmds : Seq(Commands)]
    OBVIOUS
<1>1. p \in Seq(S)
    BY <1>0, AdminAssumption
<1>2. Len(p) \in Nat /\ DOMAIN p = 1 .. Len(p)
    BY <1>1
<1>3. ASSUME NEW b \in 1 .. Len(p)
      PROVE  /\ p[b].depth \in Nat /\ p[b].depth > 1
             /\ p[b].cmds \in Seq(Commands) /\ Len(p[b].cmds) \in Nat
             /\ DOMAIN p[b].cmds = 1 .. Len(p[b].cmds)
             /\ \A i \in 1 .. Len(p[b].cmds) : p[b].cmds[i] \in Commands
  <2>0. p[b] \in S
    BY <1>1
  <2>1. p[b] \in [depth : Nat \ {0, 1}, cmds : Seq(Commands)]
    BY <1>0, <2>0
  <2>2. p[b].depth \in Nat \ {0, 1}
    BY <2>1
  <2>3. p[b].cmds \in Seq(Commands)
    BY <2>1
  <2>4. p[b].depth > 1
    BY <2>2
  <2> QED
    BY <2>2, <2>3, <2>4
<1>4. ASSUME NEW b \in 1 .. Len(p), NEW i \in 1 .. Len(p[b].cmds)
      PROVE  /\ p[b].cmds[i].op \in OnQueues \ {"set_features"} => p[b].cmds[i].qid # 0
             /\ p[b].cmds[i].op = "create_sq" => p[b].cmds[i].cqid # 0
    BY <1>2, <1>3, PlansSound
<1> QED
    BY <1>2, <1>3, <1>4

\* The start of the controller that the host is at.
LEMMA BootFacts ==
    ASSUME HostInv, host.boot # 0
    PROVE  /\ Depth \in Nat /\ Depth > 1 /\ Log \in Seq(Commands) /\ Len(Log) \in Nat
           /\ host.boot \in Nat /\ DOMAIN Log = 1 .. Len(Log)
           /\ \A i \in 1 .. Len(Log) :
                /\ Log[i] \in Commands
                /\ Log[i].op \in OnQueues \ {"set_features"} => Log[i].qid # 0
                /\ Log[i].op = "create_sq" => Log[i].cqid # 0
<1>1. host.plan \in Plans /\ host.boot \in 1 .. Len(host.plan)
  <2>1. Len(host.plan) \in Nat
    BY PlanFacts DEF HostInv
  <2> QED
    BY <2>1 DEF HostInv
<1>2. Log \in Seq(Commands)
    BY <1>1, PlanFacts DEF Log
<1>3. DOMAIN Log = 1 .. Len(Log)
    BY <1>2
<1> QED
    BY <1>1, <1>2, <1>3, PlanFacts DEF Depth, Log

\* The queues of the device.
SqStructs == [cqid : Queues, queue_size : {SqSize}]
CqStructs == [irq_enabled : BOOLEAN, interrupt_ready : BOOLEAN, queue_size : {CqSize},
              phase : {0, 1}, cq_head : 0 .. CqSize - 1, entry_lock : BOOLEAN]

\* NIL is no structure.
LEMMA NilFacts ==
    /\ NIL \notin AdminQs /\ NIL \notin SqStructs /\ NIL \notin CqStructs /\ NIL \notin [cqid : Queues]
    /\ NIL \notin [id : Nat, cmd : Commands]
<1>1. DOMAIN NIL = {"none"}
    BY DEF NIL
<1>2. \A q \in AdminQs : DOMAIN q = {"nvme_sq", "nvme_cq", "cq_head", "phase", "sq_depth", "cq_depth"}
    BY DEF AdminQs
<1>3. \A q \in SqStructs : DOMAIN q = {"cqid", "queue_size"}
    BY DEF SqStructs
<1>4. \A q \in CqStructs : DOMAIN q = {"irq_enabled", "interrupt_ready", "queue_size", "phase", "cq_head",
                                        "entry_lock"}
    BY DEF CqStructs
<1>5. \A q \in [cqid : Queues] : DOMAIN q = {"cqid"}
    OBVIOUS
<1>6. \A q \in [id : Nat, cmd : Commands] : DOMAIN q = {"id", "cmd"}
    OBVIOUS
<1>7. "cq_head" # "none" /\ "cqid" # "none" /\ "id" # "none"
    OBVIOUS
<1> QED
    BY <1>1, <1>2, <1>3, <1>4, <1>5, <1>6, <1>7

LEMMA InitAdmin ==
    ASSUME Init
    PROVE  AdminInv
<1>1. /\ bar = [aqa |-> 0, asq |-> 0, acq |-> 0, en |-> FALSE, shn |-> FALSE,
                rdy |-> FALSE, shst |-> FALSE]
      /\ old_bar = [aqa |-> 0, asq |-> 0, acq |-> 0, en |-> FALSE, shn |-> FALSE]
      /\ admin_q = NIL /\ dbs = [q \in 0 .. NrQueues |-> 0] /\ old_dbs = dbs
      /\ disp = [pc |-> "idle", q |-> 0, new |-> 0, at |-> 0]
      /\ asq = <<>> /\ acq = <<>> /\ aposted = <<>>
    BY DEF Init, AInit
<1>2. PICK p \in Plans :
            host = [st |-> "off", plan |-> p, boot |-> 0, todo |-> {}, tail |-> 0, head |-> 0,
                    phase |-> 1, sent |-> 0, open |-> {}, sq |-> [q \in Queues |-> NIL],
                    cq |-> {}, granted |-> 0]
    BY DEF Init, AInit
<1>3. /\ host.st = "off" /\ host.plan = p /\ host.boot = 0 /\ host.todo = {} /\ host.open = {}
      /\ host.cq = {} /\ host.sq = [q \in Queues |-> NIL]
      /\ host = [f \in HostFields |-> host[f]]
    BY <1>2 DEF HostFields
<1>4. Len(p) \in Nat
    BY PlanFacts
<1>5. HostInv
    BY <1>3, <1>4 DEF HostInv, States, Fresh, Quiet
<1>6. MemInv /\ AckInv
  <2>1. <<>> \in Seq(Nat)
    OBVIOUS
  <2>2. IsSeq(<<>>) /\ Len(<<>>) = 0
    BY <2>1 DEF IsSeq
  <2> QED
    BY <1>1, <1>3, <2>1, <2>2 DEF MemInv, AckInv
<1>7. RegInv
    BY <1>1, <1>3 DEF RegInv, NewRegs, RingRegs
<1>8. 0 \in 0 .. NrQueues
    BY AdminAssumption
<1>9. DispInv
    BY <1>1, <1>8 DEF DispInv
<1>10. dbs[0] = 0 /\ old_dbs[0] = 0
    BY <1>1, <1>8
<1>11. DevInv
    BY <1>1, <1>3, <1>10 DEF DevInv, Fresh
<1>12. SubInv
    BY <1>1, <1>3, <1>10 DEF SubInv
<1> QED
    BY <1>5, <1>6, <1>7, <1>9, <1>11, <1>12 DEF AdminInv


\* Nothing happens to the admin commands.
AdminRests == UNCHANGED <<host, aposted>> /\ Waiting' = Waiting

\* A step of the I/O queues.
LEMMA AdminFrame ==
    ASSUME AdminInv, UNCHANGED <<bar, old_bar, admin_q, asq, acq, host, aposted>>,
           dbs'[0] = dbs[0], old_dbs'[0] = old_dbs[0], DispInv',
           disp' = disp \/ (disp.pc # "admin" /\ disp'.pc # "admin")
    PROVE  AdminInv' /\ AdminRests
<1> USE DEF AdminInv
<1>1. Depth' = Depth /\ Log' = Log /\ (Quiet' <=> Quiet) /\ (Fresh' <=> Fresh) /\ \A r : RegVal(r)' = RegVal(r)
    BY DEF Depth, Log, Quiet, Fresh, RegVal
<1>2. HostInv'
    BY <1>1 DEF HostInv
<1>3. MemInv' /\ RegInv'
    BY <1>1 DEF MemInv, RegInv, NewRegs
<1>4. DevInv'
    BY <1>1 DEF DevInv, Adopted
<1>5. AckInv'
    BY <1>1 DEF AckInv
<1>7. From' = From /\ Waiting' = Waiting
    BY DEF From, Waiting
<1>6. SubInv'
  <2>1. ASSUME NEW e, NEW j, Pending(e, j)
        PROVE  Pending(e, j)'
    BY <1>1, <1>7, <2>1 DEF Pending
  <2> QED
    BY <1>7, <2>1 DEF SubInv
<1> QED
    BY <1>2, <1>3, <1>4, <1>5, <1>6, <1>7 DEF AdminRests

\* Only the state of the host changes.
StOnly(to) == /\ host.boot' = host.boot /\ host.plan' = host.plan /\ host.todo' = host.todo
              /\ host.tail' = host.tail /\ host.head' = host.head /\ host.phase' = host.phase
              /\ host.sent' = host.sent /\ host.open' = host.open /\ host.sq' = host.sq
              /\ host.cq' = host.cq /\ host.st' = to /\ host' = [f \in HostFields |-> host'[f]]
              /\ Depth' = Depth /\ Log' = Log /\ (Quiet' <=> Quiet)

LEMMA StFields ==
    ASSUME HostInv, NEW to, host' = [host EXCEPT !.st = to]
    PROVE  StOnly(to)
<1>1. host = [f \in HostFields |-> host[f]]
    BY DEF HostInv
<1>2. \A f \in HostFields : host'[f] = IF f = "st" THEN to ELSE host[f]
    BY <1>1
<1>3. host' = [f \in HostFields |-> host'[f]]
    BY <1>1
<1>4. /\ host.boot' = host.boot /\ host.plan' = host.plan /\ host.todo' = host.todo
      /\ host.tail' = host.tail /\ host.head' = host.head /\ host.phase' = host.phase
      /\ host.sent' = host.sent /\ host.open' = host.open /\ host.sq' = host.sq
      /\ host.cq' = host.cq /\ host.st' = to
    BY <1>2 DEF HostFields
<1> QED
    BY <1>3, <1>4 DEF StOnly, Depth, Log, Quiet

\* The host goes to another state, in which it sends nothing.
LEMMA StKeeps ==
    ASSUME AdminInv, NEW to \in States, host' = [host EXCEPT !.st = to],
           UNCHANGED <<old_bar, admin_q, dbs, old_dbs, disp, asq, acq, aposted>>,
           to # "up", to # "off" => host.boot # 0, Quiet,
           to \in {"regs", "enabling"} => Fresh, RegInv', DevInv'
    PROVE  AdminInv'
<1> USE DEF AdminInv
<1>1. StOnly(to)
    BY StFields
<1>2. HostInv'
  <2>1. Fresh' => Fresh
    BY <1>1 DEF Fresh, StOnly
  <2> QED
    BY <1>1, <2>1 DEF HostInv, StOnly
<1>3. MemInv'
    BY <1>1 DEF MemInv, StOnly
<1>4. DispInv'
    BY DEF DispInv
<1>5. AckInv'
    BY <1>1 DEF AckInv, StOnly
<1>6. SubInv'
  <2>1. From' = From /\ Waiting' = Waiting /\ host'.st # "up"
    BY <1>1 DEF From, Waiting, StOnly
  <2>2. ASSUME NEW e, NEW j, Pending(e, j)
        PROVE  Pending(e, j)'
    BY <1>1, <2>1, <2>2 DEF Pending, StOnly, Quiet
  <2> QED
    BY <2>1, <2>2 DEF SubInv
<1> QED
    BY <1>2, <1>3, <1>4, <1>5, <1>6

LEMMA HostEnableKeeps ==
    ASSUME AdminInv, HostEnable
    PROVE  AdminInv'
<1> USE DEF AdminInv
<1>1. /\ host.st = "regs" /\ host.todo = {} /\ host' = [host EXCEPT !.st = "enabling"]
      /\ bar' = [bar EXCEPT !.en = TRUE, !.shn = FALSE]
      /\ UNCHANGED <<old_bar, admin_q, dbs, old_dbs, disp, asq, acq, aposted>>
    BY DEF HostEnable, HostCc
<1>2. StOnly("enabling")
    BY <1>1, StFields
<1>3. RegInv'
  <2>1. /\ bar' \in [aqa : Nat \ {1}, asq : Nat, acq : Nat, en : BOOLEAN, shn : BOOLEAN,
                     rdy : BOOLEAN, shst : BOOLEAN]
        /\ \A r \in RingRegs : bar'[r] = bar[r]
        /\ bar'.shn = FALSE
    BY <1>1 DEF RegInv, RingRegs
  <2>2. bar'.aqa = bar.aqa /\ bar'.asq = bar.asq /\ bar'.acq = bar.acq
    BY <2>1 DEF RingRegs
  <2>3. \A r \in RingRegs : bar'[r] = RegVal(r)'
    BY <1>1, <1>2, <2>1 DEF RegInv, RegVal, StOnly
  <2>4. NewRegs'
    BY <1>1, <1>2, <2>1 DEF RegInv, NewRegs, StOnly, Fresh
  <2> QED
    BY <1>1, <1>2, <2>1, <2>2, <2>3, <2>4 DEF RegInv, StOnly
<1>4. DevInv'
  <2>1. bar'.rdy = FALSE
    BY <1>1 DEF RegInv
  <2> QED
    BY <1>1, <1>2, <2>1 DEF DevInv, Fresh, StOnly
<1>5. host.boot # 0 /\ Quiet /\ Fresh
    BY <1>1 DEF HostInv, Fresh
<1> QED
    BY <1>1, <1>3, <1>4, <1>5, StKeeps DEF States

\* cc is written with the enable bit off, or the shutdown bit on.
LEMMA HostLeavesKeeps ==
    ASSUME AdminInv, HostShutdown \/ HostDisable
    PROVE  AdminInv'
<1> USE DEF AdminInv
<1>1. PICK to \in {"shutting", "disabling"} :
        /\ host.st \in {"up", "down"} /\ host' = [host EXCEPT !.st = to]
        /\ \E en, shn \in BOOLEAN : /\ bar' = [bar EXCEPT !.en = en, !.shn = shn]
                                    /\ to = "disabling" => ~en /\ ~shn
        /\ to = "shutting" => host.st = "up"
        /\ Quiet
        /\ UNCHANGED <<old_bar, admin_q, dbs, old_dbs, disp, asq, acq, aposted>>
  <2>1. CASE HostShutdown
    <3>1. /\ host.st = "up" /\ Quiet /\ host' = [host EXCEPT !.st = "shutting"]
          /\ bar' = [bar EXCEPT !.en = TRUE, !.shn = TRUE]
          /\ UNCHANGED <<old_bar, admin_q, dbs, old_dbs, disp, asq, acq, aposted>>
      BY <2>1 DEF HostShutdown, HostCc
    <3> QED
      BY <3>1
  <2>2. CASE HostDisable
    <3>1. /\ host.st \in {"up", "down"} /\ (host.st = "up" => Quiet) /\ host' = [host EXCEPT !.st = "disabling"]
          /\ bar' = [bar EXCEPT !.en = FALSE, !.shn = FALSE]
          /\ UNCHANGED <<old_bar, admin_q, dbs, old_dbs, disp, asq, acq, aposted>>
      BY <2>2 DEF HostDisable, HostCc
    <3>2. Quiet
      BY <3>1 DEF HostInv
    <3> QED
      BY <3>1, <3>2
  <2> QED
    BY <2>1, <2>2
<1>2. StOnly(to)
    BY <1>1, StFields
<1>3. RegInv'
  <2>1. PICK en, shn \in BOOLEAN : /\ bar' = [bar EXCEPT !.en = en, !.shn = shn]
                                   /\ to = "disabling" => ~en /\ ~shn
    BY <1>1
  <2>2. /\ bar' \in [aqa : Nat \ {1}, asq : Nat, acq : Nat, en : BOOLEAN, shn : BOOLEAN,
                     rdy : BOOLEAN, shst : BOOLEAN]
        /\ bar'.aqa = bar.aqa /\ bar'.asq = bar.asq /\ bar'.acq = bar.acq
        /\ bar'.shn = shn /\ bar'.en = en
    BY <2>1 DEF RegInv
  <2>3. NewRegs'
    <3>1. \A r \in RingRegs : old_bar[r] = bar[r]
      BY <1>1 DEF RegInv, NewRegs, Fresh
    <3>2. \A r \in RingRegs : bar'[r] = bar[r]
      BY <2>2 DEF RingRegs
    <3> QED
      BY <1>1, <3>1, <3>2 DEF NewRegs
  <2> QED
    BY <1>1, <1>2, <2>1, <2>2, <2>3 DEF RegInv, StOnly
<1>4. DevInv'
    BY <1>1, <1>2 DEF DevInv, Fresh, StOnly
<1>5. host.boot # 0
    BY <1>1 DEF HostInv
<1> QED
    BY <1>1, <1>3, <1>4, <1>5, StKeeps DEF States


\* The host has waited for csts to say that it may go on.
LEMMA HostWaitsKeeps ==
    ASSUME AdminInv, HostShut \/ HostDisabled
    PROVE  AdminInv'
<1> USE DEF AdminInv
<1>1. PICK to \in {"down", "off"} :
        /\ host.st = (IF to = "down" THEN "shutting" ELSE "disabling")
        /\ host' = [host EXCEPT !.st = to] /\ (to = "off" => ~bar.rdy)
        /\ UNCHANGED <<bar, old_bar, admin_q, dbs, old_dbs, disp, asq, acq, aposted>>
    BY DEF HostShut, HostDisabled, HostWait, registers
<1>2. StOnly(to)
    BY <1>1, StFields
<1>3. to = "off" => ~bar.en
  <2> SUFFICES ASSUME to = "off" PROVE ~bar.en
    OBVIOUS
  <2>1. host.st = "disabling"
    BY <1>1
  <2> QED
    BY <2>1 DEF RegInv
<1>4. RegInv'
  <2>1. NewRegs'
    BY <1>1, <1>2 DEF RegInv, NewRegs, StOnly, Fresh
  <2> QED
    BY <1>1, <1>2, <1>3, <2>1 DEF RegInv, StOnly
<1>5. DevInv'
    BY <1>1, <1>2 DEF DevInv, Fresh, StOnly
<1>6. host.boot # 0 /\ Quiet
    BY <1>1 DEF HostInv
<1> QED
    BY <1>1, <1>4, <1>5, <1>6, StKeeps DEF States

\* The host sees csts.rdy: the dispatcher has adopted the rings.
LEMMA HostReadyKeeps ==
    ASSUME AdminInv, HostReady
    PROVE  AdminInv'
<1> USE DEF AdminInv
<1>1. /\ host.st = "enabling" /\ bar.rdy /\ host' = [host EXCEPT !.st = "up"]
      /\ UNCHANGED <<bar, old_bar, admin_q, dbs, old_dbs, disp, asq, acq, aposted>>
    BY DEF HostReady, HostWait, registers
<1>2. StOnly("up")
    BY <1>1, StFields
<1>3. Adopted /\ host.boot # 0 /\ Quiet /\ Fresh
    BY <1>1 DEF DevInv, HostInv, Fresh
<1>4. old_bar.asq = host.boot /\ old_bar.acq = host.boot
    BY <1>1, <1>3 DEF Adopted, RegInv, RegVal, RingRegs
<1>5. /\ dbs[0] = 0 /\ old_dbs[0] = 0 /\ disp.pc # "admin" /\ admin_q.cq_head = 0 /\ admin_q.phase = 1
      /\ host.head = 0 /\ host.phase = 1 /\ host.tail = 0 /\ Depth \in Nat /\ Depth > 1
    BY <1>3, <1>4, BootFacts DEF DevInv, HostInv
<1>6. aposted = <<>>
    BY <1>3 DEF AckInv, Quiet
<1>7. HostInv'
    BY <1>1, <1>2, <1>3 DEF HostInv, StOnly, States, Fresh
<1>8. MemInv'
    BY <1>1, <1>2 DEF MemInv, StOnly
<1>9. DispInv'
    BY <1>1 DEF DispInv
<1>10. AckInv'
    BY <1>1, <1>2 DEF AckInv, StOnly
<1>11. RegInv'
  <2>1. \A r \in RingRegs : bar'[r] = RegVal(r)'
    BY <1>1, <1>2 DEF RegInv, RegVal, StOnly
  <2>2. NewRegs'
    BY <1>1, <1>3 DEF NewRegs, Adopted
  <2> QED
    BY <1>1, <1>2, <2>1, <2>2 DEF RegInv, StOnly
<1>12. DevInv'
  <2>1. Adopted'
    BY <1>1, <1>3 DEF Adopted
  <2>2. At(0, 0, Depth) = 0 /\ Tag(0, 0, 1, Depth) = 1 /\ Len(aposted) = 0
    BY <1>5, <1>6 DEF At, Tag
  <2>3. /\ admin_q'.cq_head = At(host'.head, Len(aposted'), Depth')
        /\ admin_q'.phase = Tag(host'.head, Len(aposted'), host'.phase, Depth')
    BY <1>1, <1>2, <1>5, <2>2 DEF StOnly
  <2>4. dbs'[0] = host'.tail /\ host'.st = "up" /\ admin_q' # NIL
    BY <1>1, <1>2, <1>3, <1>5 DEF StOnly, Adopted
  <2>5. ~Fresh'
    BY <2>4 DEF Fresh
  <2>6. /\ admin_q' \in AdminQs /\ old_bar'.aqa # 0
        /\ admin_q'.nvme_sq = old_bar'.asq /\ admin_q'.nvme_cq = old_bar'.acq
        /\ admin_q'.sq_depth = old_bar'.aqa /\ admin_q'.cq_depth = old_bar'.aqa
    BY <1>1, <1>3, <2>4 DEF DevInv, Adopted, RingRegs
  <2> HIDE DEF AdminInv
  <2> QED
    BY <2>1, <2>3, <2>4, <2>5, <2>6 DEF DevInv
<1>13. SubInv'
  <2>1. From' = 0 /\ Waiting' = 0
    BY <1>1, <1>5 DEF From, Waiting, Dist
  <2> QED
    BY <1>1, <1>2, <1>5, <1>6, <2>1 DEF SubInv, From, Waiting
<1> QED
    BY <1>7, <1>8, <1>9, <1>10, <1>11, <1>12, <1>13

\* One of the ring registers is written.
LEMMA HostRingRegisterKeeps ==
    ASSUME AdminInv, NEW r \in RingRegs, HostRingRegister(r)
    PROVE  AdminInv'
<1> USE DEF AdminInv
<1>1. /\ host.st = "regs" /\ r \in host.todo /\ bar' = [bar EXCEPT ![r] = RegVal(r)]
      /\ host' = [host EXCEPT !.todo = @ \ {r}]
      /\ UNCHANGED <<old_bar, admin_q, dbs, old_dbs, disp, asq, acq, aposted>>
    BY DEF HostRingRegister, RegVal
<1>2. /\ host.boot' = host.boot /\ host.plan' = host.plan /\ host.todo' = host.todo \ {r}
      /\ host.tail' = host.tail /\ host.head' = host.head /\ host.phase' = host.phase
      /\ host.sent' = host.sent /\ host.open' = host.open /\ host.sq' = host.sq
      /\ host.cq' = host.cq /\ host.st' = host.st /\ host' = [f \in HostFields |-> host'[f]]
  <2>1. host = [f \in HostFields |-> host[f]]
    BY DEF HostInv
  <2>2. \A f \in HostFields : host'[f] = IF f = "todo" THEN host.todo \ {r} ELSE host[f]
    BY <1>1, <2>1
  <2>3. host' = [f \in HostFields |-> host'[f]]
    BY <1>1, <2>1
  <2> QED
    BY <2>2, <2>3 DEF HostFields
<1>3. Depth' = Depth /\ Log' = Log /\ (Quiet' <=> Quiet)
    BY <1>2 DEF Depth, Log, Quiet
<1>4. Depth \in Nat /\ Depth > 1 /\ host.boot \in Nat /\ host.boot # 0
    BY <1>1, BootFacts DEF HostInv
<1>5. HostInv'
    BY <1>1, <1>2, <1>3 DEF HostInv, Fresh
<1>6. MemInv'
    BY <1>1, <1>2 DEF MemInv
<1>7. DispInv'
    BY <1>1 DEF DispInv
<1>8. AckInv'
    BY <1>1, <1>2, <1>3 DEF AckInv
<1>9. RegInv'
  <2>1. /\ \A f \in RingRegs : bar'[f] = IF f = r THEN RegVal(r) ELSE bar[f]
        /\ bar'.en = bar.en /\ bar'.shn = bar.shn /\ bar'.rdy = bar.rdy /\ bar'.shst = bar.shst
    BY <1>1 DEF RegInv, RingRegs
  <2>2. RegVal("aqa") = Depth /\ RegVal("asq") = host.boot /\ RegVal("acq") = host.boot
    BY DEF RegVal
  <2>3. bar' \in [aqa : Nat \ {1}, asq : Nat, acq : Nat, en : BOOLEAN, shn : BOOLEAN,
                  rdy : BOOLEAN, shst : BOOLEAN]
    <3>1. r = "aqa" \/ r = "asq" \/ r = "acq"
      BY DEF RingRegs
    <3> QED
      BY <1>1, <1>4, <2>2, <3>1 DEF RegInv
  <2>4. /\ bar'.aqa \in {bar.aqa, Depth} /\ bar'.asq \in {bar.asq, host.boot}
        /\ bar'.acq \in {bar.acq, host.boot}
    BY <2>1, <2>2 DEF RingRegs
  <2>5. old_bar.asq \in Nat /\ old_bar.acq \in Nat /\ bar.asq \in Nat /\ bar.acq \in Nat
    BY DEF RegInv
  <2>6. /\ old_bar.asq <= bar'.asq /\ bar'.asq <= host.boot
        /\ old_bar.acq <= bar'.acq /\ bar'.acq <= host.boot
    BY <1>4, <2>4, <2>5 DEF RegInv
  <2>7. bar'.aqa = 0 => old_bar.aqa = 0
    BY <1>4, <2>4 DEF RegInv
  <2>8. \A f \in RingRegs \ host'.todo : bar'[f] = RegVal(f)'
    BY <1>1, <1>2, <1>3, <2>1 DEF RegInv, RegVal
  <2>9. NewRegs'
    BY <1>1, <1>2, <2>1 DEF RegInv, NewRegs, Fresh
  <2> QED
    BY <1>1, <1>2, <2>1, <2>3, <2>6, <2>7, <2>8, <2>9 DEF RegInv
<1>10. DevInv'
  <2>1. bar'.rdy = bar.rdy /\ (r # "aqa" => bar'.aqa = bar.aqa) /\ (Fresh' <=> Fresh)
    BY <1>1, <1>2 DEF RegInv, RingRegs, Fresh
  <2>2. r = "aqa" => old_bar.aqa = bar.aqa
    BY <1>1 DEF RegInv, NewRegs
  <2> QED
    BY <1>1, <1>2, <2>1, <2>2 DEF DevInv
<1>11. SubInv'
  <2>1. From' = From /\ Waiting' = Waiting
    BY <1>1 DEF From, Waiting
  <2>2. ASSUME NEW e, NEW j, Pending(e, j)
        PROVE  Pending(e, j)'
    BY <1>1, <1>2, <2>2 DEF Pending
  <2> QED
    BY <1>1, <1>2, <2>1, <2>2 DEF SubInv
<1> QED
    BY <1>5, <1>6, <1>7, <1>8, <1>9, <1>10, <1>11


\* b is a, of length n, made longer by x.
LongerBy(a, n, x, b) ==
    IsSeq(b) /\ Len(b) = n + 1 /\ b[n + 1] = x /\ \A i \in 1 .. n : b[i] = a[i]

LEMMA Longer ==
    ASSUME NEW a, IsSeq(a), NEW x, NEW b, b = Append(a, x), NEW n \in Nat, n = Len(a)
    PROVE  LongerBy(a, n, x, b)
<1>0. PICK S : a \in Seq(S)
    BY DEF IsSeq
<1>1. PICK T : T = S \cup {x}
    OBVIOUS
<1>2. a \in Seq(T) /\ x \in T
    BY <1>0, <1>1
<1>3. b \in Seq(T) /\ Len(b) = n + 1 /\ b[n + 1] = x /\ \A i \in 1 .. n : b[i] = a[i]
    BY <1>2
<1> QED
    BY <1>3 DEF IsSeq, LongerBy

\* The controller is started with new rings.
LEMMA HostStartKeeps ==
    ASSUME AdminInv, HostStart
    PROVE  AdminInv'
<1> USE DEF AdminInv
<1>1. PICK d : /\ d = host.plan[host.boot + 1].depth /\ host.st = "off" /\ host.boot < Len(host.plan)
               /\ host' = [host EXCEPT !.st = "regs", !.boot = @ + 1, !.todo = {"aqa", "asq", "acq"},
                                       !.tail = 0, !.head = 0, !.phase = 1, !.sent = 0, !.open = {},
                                       !.granted = 0]
               /\ asq' = Append(asq, [i \in 0 .. (d - 1) |-> NIL])
               /\ acq' = Append(acq, [i \in 0 .. (d - 1) |-> [id |-> 0, phase |-> 0]])
               /\ aposted' = <<>>
               /\ UNCHANGED <<bar, old_bar, admin_q, dbs, old_dbs, disp>>
    BY DEF HostStart, registers
<1>2. /\ host'.boot = host.boot + 1 /\ host'.plan = host.plan /\ host'.todo = RingRegs
      /\ host'.tail = 0 /\ host'.head = 0 /\ host'.phase = 1
      /\ host'.sent = 0 /\ host'.open = {} /\ host'.sq = host.sq
      /\ host'.cq = host.cq /\ host'.st = "regs" /\ host' = [f \in HostFields |-> host'[f]]
  <2>1. host = [f \in HostFields |-> host[f]]
    BY DEF HostInv
  <2>2. host' = [f \in HostFields |-> host'[f]]
    BY <1>1, <2>1
  <2> QED
    BY <1>1, <2>1, <2>2 DEF HostFields, RingRegs
<1>3. PICK n \in Nat : n = host.boot /\ n + 1 \in 1 .. Len(host.plan) /\ Len(host.plan) \in Nat
  <2>1. host.plan \in Plans /\ host.boot \in 0 .. Len(host.plan)
    BY DEF HostInv
  <2>2. Len(host.plan) \in Nat
    BY <2>1, PlanFacts
  <2> QED
    BY <1>1, <2>1, <2>2
<1>4. d \in Nat /\ d > 1 /\ host.plan[n + 1].cmds \in Seq(Commands)
    BY <1>1, <1>3, PlanFacts DEF HostInv
<1>5. Depth' = d /\ Len(Log') \in Nat
  <2>1. host'.plan[host'.boot] = host.plan[n + 1]
    BY <1>2, <1>3
  <2> QED
    BY <1>1, <1>3, <1>4, <2>1 DEF Depth, Log
<1>6. HostInv'
  <2>1. Quiet'
    BY <1>1, <1>2 DEF HostInv, Quiet
  <2>2. host'.boot \in 0 .. Len(host'.plan) /\ host'.boot # 0
    BY <1>2, <1>3
  <2>3. host'.plan \in Plans
    BY <1>2 DEF HostInv
  <2>4. Cardinality(host'.open) = 0
    BY <1>2, FS_EmptySet
  <2> QED
    BY <1>2, <1>4, <1>5, <2>1, <2>2, <2>3, <2>4 DEF HostInv, Fresh, States
<1>7. /\ IsSeq(asq') /\ Len(asq') = n + 1
      /\ asq'[n + 1] = [i \in 0 .. (d - 1) |-> NIL] /\ \A i \in 1 .. n : asq'[i] = asq[i]
      /\ IsSeq(acq') /\ Len(acq') = n + 1
      /\ acq'[n + 1] = [i \in 0 .. (d - 1) |-> [id |-> 0, phase |-> 0]]
      /\ \A i \in 1 .. n : acq'[i] = acq[i]
  <2>1. PICK s : s = [i \in 0 .. (d - 1) |-> NIL]
    OBVIOUS
  <2>2. PICK t : t = [i \in 0 .. (d - 1) |-> [id |-> 0, phase |-> 0]]
    OBVIOUS
  <2>3. /\ IsSeq(asq') /\ Len(asq') = n + 1
        /\ asq'[n + 1] = s /\ \A i \in 1 .. n : asq'[i] = asq[i]
    <3>0. PICK v, u : v = asq /\ u = asq'
      OBVIOUS
    <3>1. u = Append(v, s) /\ IsSeq(v) /\ n = Len(v)
      BY <1>1, <1>3, <2>1, <3>0 DEF MemInv
    <3>2. LongerBy(v, n, s, u)
      BY <3>1, Longer
    <3> QED
      BY <3>0, <3>2 DEF LongerBy
  <2>4. /\ IsSeq(acq') /\ Len(acq') = n + 1
        /\ acq'[n + 1] = t /\ \A i \in 1 .. n : acq'[i] = acq[i]
    <3>0. PICK v, u : v = acq /\ u = acq'
      OBVIOUS
    <3>1. u = Append(v, t) /\ IsSeq(v) /\ n = Len(v)
      BY <1>1, <1>3, <2>2, <3>0 DEF MemInv
    <3>2. LongerBy(v, n, t, u)
      BY <3>1, Longer
    <3> QED
      BY <3>0, <3>2 DEF LongerBy
  <2> QED
    BY <2>1, <2>2, <2>3, <2>4
<1>8. MemInv'
  <2>1. ASSUME NEW b \in 1 .. n + 1
        PROVE  DOMAIN asq'[b] = 0 .. host.plan[b].depth - 1
    <3>1. CASE b = n + 1
      BY <3>1, <1>1, <1>3, <1>7
    <3>2. CASE b \in 1 .. n
      BY <3>2, <1>3, <1>7 DEF MemInv
    <3> QED
      BY <3>1, <3>2
  <2> QED
    BY <1>2, <1>3, <1>7, <2>1 DEF MemInv
<1>9. DispInv'
    BY <1>1 DEF DispInv
<1>10. RegInv'
  <2>1. bar.asq \in Nat /\ bar.acq \in Nat /\ bar.asq <= n + 1 /\ bar.acq <= n + 1
    BY <1>3 DEF RegInv
  <2>2. NewRegs'
    BY <1>1, <1>2 DEF RegInv, NewRegs, Fresh
  <2> QED
    BY <1>1, <1>2, <1>3, <2>1, <2>2 DEF RegInv
<1>11. old_bar.asq \in 0 .. n /\ old_bar.acq \in 0 .. n
    BY <1>3 DEF RegInv
<1>12. DevInv'
  <2>1. old_bar.asq # n + 1 /\ old_bar.acq # n + 1
    BY <1>11
  <2>2. old_bar.aqa = bar.aqa /\ ~Fresh
    BY <1>1 DEF RegInv, NewRegs, Fresh, RingRegs
  <2> QED
    BY <1>1, <1>2, <1>3, <2>1, <2>2 DEF DevInv
<1>13. AckInv'
  <2>1. PICK t : t = [i \in 0 .. (d - 1) |-> [id |-> 0, phase |-> 0]]
    OBVIOUS
  <2>2. CqRing(t, 0, 1, <<>>, d)
    <3>1. \A i \in 0 .. d - 1 : At(0, i, d) = i /\ Tag(0, i, 1, d) = 1
      BY <1>4 DEF At, Tag
    <3> QED
      BY <1>4, <2>1, <3>1 DEF CqRing
  <2>3. acq'[host'.boot] = t
    BY <1>2, <1>3, <1>7, <2>1
  <2>4. aposted' = <<>> /\ aposted' \in Seq(Nat) /\ DOMAIN aposted' = {}
    <3>1. <<>> \in Seq(Nat) /\ DOMAIN <<>> = {}
      OBVIOUS
    <3> QED
      BY <1>1, <3>1
  <2>6. host'.boot # 0
    BY <1>2, <1>3
  <2>5. CqRing(acq'[host'.boot], host'.head, host'.phase, aposted', Depth')
    BY <1>2, <1>5, <2>2, <2>3, <2>4
  <2> HIDE DEF AdminInv
  <2> QED
    BY <2>4, <2>5, <2>6 DEF AckInv
<1>14. SubInv'
  <2>1. From' = From /\ Waiting' = Waiting
    BY <1>1 DEF From, Waiting
  <2>2. ASSUME NEW e, NEW j, Pending(e, j)
        PROVE  Pending(e, j)'
    BY <1>1, <1>2, <2>2 DEF Pending
  <2>3. old_bar.asq # 0 => asq'[old_bar.asq] = asq[old_bar.asq]
    BY <1>7, <1>11
  <2> QED
    BY <1>1, <1>2, <2>1, <2>2, <2>3 DEF SubInv
<1> QED
    BY <1>6, <1>8, <1>9, <1>10, <1>12, <1>13, <1>14

\* What holds while the host uses the admin queue.
LEMMA UpFacts ==
    ASSUME AdminInv, host.st = "up"
    PROVE  /\ host.boot \in Nat /\ host.boot # 0 /\ Depth \in Nat /\ Depth > 1 /\ Log \in Seq(Commands)
           /\ Len(Log) \in Nat /\ DOMAIN Log = 1 .. Len(Log)
           /\ old_bar.asq = host.boot /\ old_bar.acq = host.boot /\ old_bar.aqa = Depth
           /\ admin_q \in AdminQs /\ admin_q # NIL
           /\ admin_q.nvme_sq = host.boot /\ admin_q.nvme_cq = host.boot
           /\ admin_q.sq_depth = Depth /\ admin_q.cq_depth = Depth
           /\ dbs[0] = host.tail /\ host.tail \in 0 .. Depth - 1 /\ From \in 0 .. Depth - 1
           /\ host.sent \in 0 .. Len(Log) /\ host.open \subseteq 1 .. host.sent
           /\ Waiting = Dist(From, host.tail, Depth) /\ Waiting \in 0 .. Depth - 1
           /\ IsFiniteSet(host.open) /\ Cardinality(host.open) \in Nat /\ Cardinality(host.open) < Depth
<1> USE DEF AdminInv
<1>1. host.boot # 0 /\ Adopted /\ dbs[0] = host.tail
    BY DEF HostInv, DevInv
<1>2. /\ host.boot \in Nat /\ Depth \in Nat /\ Depth > 1 /\ Log \in Seq(Commands)
      /\ Len(Log) \in Nat /\ DOMAIN Log = 1 .. Len(Log)
    BY <1>1, BootFacts
<1>3. /\ host.tail \in 0 .. Depth - 1 /\ host.sent \in 0 .. Len(Log) /\ host.open \subseteq 1 .. host.sent
      /\ Cardinality(host.open) < Depth
    BY <1>1 DEF HostInv
<1>4. old_bar.asq = host.boot /\ old_bar.acq = host.boot /\ old_bar.aqa = Depth
    BY <1>1 DEF Adopted, RegInv, RegVal, RingRegs
<1>5. /\ admin_q \in AdminQs /\ admin_q # NIL
      /\ admin_q.nvme_sq = host.boot /\ admin_q.nvme_cq = host.boot
      /\ admin_q.sq_depth = Depth /\ admin_q.cq_depth = Depth
    BY <1>1, <1>4 DEF Adopted, DevInv, RingRegs
<1>6. From \in Nat
  <2>1. 0 \in 0 .. NrQueues
    BY AdminAssumption
  <2> QED
    BY <2>1 DEF From, DispInv
<1>7. From \in 0 .. Depth - 1
    BY <1>1, <1>2, <1>4, <1>6 DEF SubInv
<1>8. Waiting = Dist(From, host.tail, Depth)
    BY <1>1, <1>4 DEF Waiting
<1>9. Waiting \in 0 .. Depth - 1
  <2>1. PICK d \in Nat \ {0} : d = Depth
    BY <1>2
  <2>2. Dist(From, host.tail, d) \in 0 .. d - 1
    BY <1>3, <1>7, <2>1, Ways
  <2> QED
    BY <1>8, <2>1, <2>2
<1>10. IsFiniteSet(host.open) /\ Cardinality(host.open) \in Nat
  <2>1. host.sent \in Nat
    BY <1>2, <1>3
  <2>2. IsFiniteSet(1 .. host.sent)
    BY <2>1, FS_Interval
  <2>3. IsFiniteSet(host.open)
    BY <1>3, <2>2, FS_Subset
  <2> QED
    BY <2>3, FS_CardinalityType
<1> QED
    BY <1>1, <1>2, <1>3, <1>4, <1>5, <1>7, <1>8, <1>9, <1>10

\* Commands that wait for the dispatcher and answers that wait for the host
\* are commands the host has open.
LEMMA CountOpen ==
    ASSUME AdminInv, host.st = "up"
    PROVE  /\ Len(aposted) \in Nat /\ Waiting + Len(aposted) <= Cardinality(host.open)
           /\ \A k \in 1 .. Waiting : host.sent - Waiting + k \in host.open
<1> USE DEF AdminInv
<1>1. PICK W \in Nat, L \in Nat, n \in Nat : W = Waiting /\ L = Len(aposted) /\ n = host.sent
    BY UpFacts DEF AckInv
<1>2. \A k \in 1 .. W : n - W + k \in host.open /\ n - W + k \in Nat
  <2>1. SUFFICES ASSUME NEW k \in 1 .. W
                 PROVE  n - W + k \in host.open /\ n - W + k \in Nat
    OBVIOUS
  <2>2. PICK j \in 0 .. W - 1 : j = k - 1
    BY <2>1
  <2>3. Pending(asq[old_bar.asq][At(From, j, old_bar.aqa)], j)
    BY <1>1, <2>2, UpFacts DEF SubInv
  <2>4. n - W + 1 + j \in host.open /\ n - W + 1 + j \in Nat
    BY <1>1, <2>3 DEF Pending
  <2> QED
    BY <2>2, <2>4
<1>3. \A i \in 1 .. L : aposted[i] \in Nat /\ aposted[i] \in host.open /\ aposted[i] <= n - W
    BY <1>1 DEF AckInv, SubInv
<1>4. \A i, j \in 1 .. L : i < j => aposted[i] < aposted[j]
    BY <1>1 DEF AckInv
<1>5. PICK m \in Nat : m = L + W
    OBVIOUS
<1>6. PICK f : f = [i \in 1 .. m |-> IF i <= L THEN aposted[i] ELSE n - W + (i - L)]
    OBVIOUS
<1>7. ASSUME NEW i \in 1 .. m
      PROVE  /\ i <= L => f[i] = aposted[i] /\ i \in 1 .. L
             /\ i > L => f[i] = n - W + (i - L) /\ i - L \in 1 .. W
    BY <1>5, <1>6
<1>8. \A i \in 1 .. m : f[i] \in host.open /\ f[i] \in Nat
    BY <1>2, <1>3, <1>7
<1>9. ASSUME NEW i \in 1 .. m, NEW j \in 1 .. m, i < j
      PROVE  f[i] < f[j]
  <2>1. CASE j <= L
    BY <1>4, <1>7, <1>9, <2>1
  <2>2. CASE i <= L /\ j > L
    BY <1>2, <1>3, <1>7, <1>9, <2>2
  <2>3. CASE i > L
    BY <1>7, <1>9, <2>3
  <2> QED
    BY <2>1, <2>2, <2>3, <1>9
<1>10. \A i, j \in 1 .. m : f[i] = f[j] => i = j
    BY <1>8, <1>9
<1>11. f \in [1 .. m -> host.open]
    BY <1>6, <1>8
<1>12. m <= Cardinality(host.open)
    BY <1>10, <1>11, UpFacts, Pigeons
<1> QED
    BY <1>1, <1>2, <1>5, <1>12


\* A sequence with one element replaced.
LEMMA Replaced ==
    ASSUME NEW a, IsSeq(a), NEW i \in DOMAIN a, NEW x
    PROVE  IsSeq([a EXCEPT ![i] = x]) /\ Len([a EXCEPT ![i] = x]) = Len(a)
<1>0. PICK S : a \in Seq(S)
    BY DEF IsSeq
<1>1. PICK T : T = S \cup {x}
    OBVIOUS
<1>2. a \in Seq(T) /\ x \in T
    BY <1>0, <1>1
<1>3. [a EXCEPT ![i] = x] \in Seq(T) /\ Len([a EXCEPT ![i] = x]) = Len(a)
    BY <1>2
<1> QED
    BY <1>3 DEF IsSeq

\* A command is stored in the admin ring and its doorbell rung.
LEMMA HostAdminKeeps ==
    ASSUME AdminInv, NEW cmd, HostAdmin(cmd)
    PROVE  /\ AdminInv' /\ host.st = "up"
           /\ aposted' = aposted /\ Log' = Log /\ host'.open = host.open \cup {host.sent + 1}
           /\ host'.sent - Waiting' = host.sent - Waiting
<1> USE DEF AdminInv
<1>1. PICK id, tail :
        /\ id = host.sent + 1 /\ tail = (host.tail + 1) % Depth
        /\ host.st = "up" /\ id \in DOMAIN Log /\ cmd = Log[id]
        /\ Cardinality(host.open) < Depth - 1
        /\ cmd.op \in OnQueues => \A i \in host.open : Log[i].op \notin OnQueues
        /\ asq' = [asq EXCEPT ![host.boot][host.tail] = [id |-> id, cmd |-> cmd]]
        /\ dbs' = [dbs EXCEPT ![0] = tail]
        /\ host' = [host EXCEPT !.tail = tail, !.sent = id, !.open = @ \cup {id}]
        /\ UNCHANGED <<bar, old_bar, admin_q, old_dbs, disp, acq, aposted>>
    BY DEF HostAdmin, registers
<1>2. /\ host'.boot = host.boot /\ host'.plan = host.plan /\ host'.todo = host.todo
      /\ host'.tail = tail /\ host'.head = host.head /\ host'.phase = host.phase
      /\ host'.sent = id /\ host'.open = host.open \cup {id} /\ host'.sq = host.sq
      /\ host'.cq = host.cq /\ host'.st = host.st /\ host' = [f \in HostFields |-> host'[f]]
  <2>1. host = [f \in HostFields |-> host[f]]
    BY DEF HostInv
  <2>2. host' = [f \in HostFields |-> host'[f]]
    BY <1>1, <2>1
  <2> QED
    BY <1>1, <2>1, <2>2 DEF HostFields
<1>3. Depth' = Depth /\ Log' = Log
    BY <1>2 DEF Depth, Log
<1>4. PICK d \in Nat \ {0}, b \in Nat, x \in Nat, n \in Nat :
          d = Depth /\ d > 1 /\ b = host.boot /\ b # 0 /\ x = host.tail /\ n = host.sent
    BY <1>1, UpFacts
<1>5. x \in 0 .. d - 1 /\ tail = Succ(x, d) /\ tail \in 0 .. d - 1
  <2>1. x \in 0 .. d - 1
    BY <1>1, <1>4, UpFacts
  <2>2. tail = Succ(x, d)
    BY <1>1, <1>4, <2>1, Modulo
  <2> QED
    BY <2>1, <2>2, Ways
<1>6. id \in 1 .. Len(Log) /\ id = n + 1 /\ cmd \in Commands /\ Len(Log) \in Nat
    BY <1>1, <1>4, UpFacts
<1>7. HostInv'
  <2>1. host'.open \subseteq 1 .. id
    BY <1>1, <1>2, <1>4, <1>6, UpFacts
  <2>2. Cardinality(host'.open) < d
    <3>1. IsFiniteSet(host.open) /\ Cardinality(host.open) \in Nat /\ Cardinality(host.open) < d - 1
      BY <1>1, <1>4, UpFacts
    <3>2. Cardinality(host.open \cup {id}) = Cardinality(host.open) \/ Cardinality(host.open \cup {id}) = Cardinality(host.open) + 1
      BY <3>1, FS_AddElement
    <3> QED
      BY <1>2, <3>1, <3>2
  <2>3. \A i, j \in host'.open : Log[i].op \in OnQueues /\ Log[j].op \in OnQueues => i = j
    BY <1>1, <1>2, <1>4 DEF HostInv
  <2>4. /\ host'.tail \in 0 .. Depth' - 1 /\ host'.sent \in 0 .. Len(Log') /\ host'.open \subseteq 1 .. host'.sent
        /\ Cardinality(host'.open) < Depth'
        /\ \A i, j \in host'.open : Log'[i].op \in OnQueues /\ Log'[j].op \in OnQueues => i = j
    BY <1>2, <1>3, <1>4, <1>5, <1>6, <2>1, <2>2, <2>3
  <2>5. host'.st = "up" /\ host'.boot # 0 /\ ~Fresh' /\ host'.st \in States /\ host'.plan \in Plans
    BY <1>1, <1>2, <1>4 DEF Fresh, HostInv
  <2>6. host'.boot \in 0 .. Len(host'.plan) /\ host'.todo \subseteq RingRegs
    BY <1>2 DEF HostInv
  <2> HIDE DEF AdminInv
  <2> QED
    BY <1>2, <2>4, <2>5, <2>6 DEF HostInv
<1>8. PICK e : e = [id |-> id, cmd |-> cmd] /\ e \in [id : Nat, cmd : Commands] /\ e.id = id /\ e.cmd = cmd
  <2>1. id \in Nat
    BY <1>6
  <2>2. [id |-> id, cmd |-> cmd] \in [id : Nat, cmd : Commands]
    BY <1>6, <2>1
  <2>3. PICK r : r = [id |-> id, cmd |-> cmd]
    OBVIOUS
  <2>4. r.id = id /\ r.cmd = cmd
    BY <2>3
  <2> QED
    BY <2>2, <2>3, <2>4
<1>9. PICK ring : ring = asq[b] /\ DOMAIN ring = 0 .. d - 1 /\ b \in DOMAIN asq /\ b \in 1 .. b
  <2>1. b \in 1 .. host.boot
    BY <1>4
  <2>2. DOMAIN asq[b] = 0 .. d - 1
    BY <1>4, <2>1 DEF MemInv, Depth
  <2>3. PICK S : asq \in Seq(S)
    BY DEF MemInv, IsSeq
  <2>4. DOMAIN asq = 1 .. b
    BY <1>4, <2>3 DEF MemInv
  <2> QED
    BY <1>4, <2>1, <2>2, <2>4
<1>10. PICK new : new = [ring EXCEPT ![x] = e]
    OBVIOUS
<1>11. asq' = [asq EXCEPT ![b] = new]
    BY <1>1, <1>4, <1>8, <1>9, <1>10
<1>12. /\ DOMAIN new = 0 .. d - 1 /\ \A i \in 0 .. d - 1 : new[i] = IF i = x THEN e ELSE ring[i]
       /\ asq'[b] = new /\ \A c : c \in DOMAIN asq /\ c # b => asq'[c] = asq[c]
    BY <1>5, <1>9, <1>10, <1>11
<1>13. MemInv'
  <2>1. IsSeq(asq') /\ Len(asq') = Len(asq)
    <3>1. IsSeq(asq)
      BY DEF MemInv
    <3> QED
      BY <1>9, <1>11, <3>1, Replaced
  <2>2. DOMAIN asq = 1 .. b
    <3>1. PICK S : asq \in Seq(S)
      BY DEF MemInv, IsSeq
    <3> QED
      BY <1>4, <3>1 DEF MemInv
  <2>3. ASSUME NEW c \in 1 .. b
        PROVE  DOMAIN asq'[c] = 0 .. host.plan[c].depth - 1
    <3>1. CASE c = b
      BY <1>4, <1>12, <3>1 DEF Depth
    <3>2. CASE c # b
      BY <1>4, <1>12, <2>2, <3>2 DEF MemInv
    <3> QED
      BY <3>1, <3>2
  <2> QED
    BY <1>1, <1>2, <1>4, <2>1, <2>3 DEF MemInv
<1>14. dbs' \in [0 .. NrQueues -> Nat] /\ dbs'[0] = tail /\ \A q \in 1 .. NrQueues : dbs'[q] = dbs[q]
  <2>1. 0 \in 0 .. NrQueues
    BY AdminAssumption
  <2> QED
    BY <1>1, <1>5, <2>1 DEF DispInv
<1>15. DispInv'
    BY <1>1, <1>14 DEF DispInv
<1>16. RegInv'
  <2>1. NewRegs'
    BY <1>1, <1>2 DEF RegInv, NewRegs, Fresh
  <2> QED
    BY <1>1, <1>2, <1>3, <2>1 DEF RegInv, RegVal
<1>17. AckInv'
    BY <1>1, <1>2, <1>3 DEF AckInv
<1>18. DevInv'
    BY <1>1, <1>2, <1>3, <1>14 DEF DevInv, Adopted, Fresh
<1>19. PICK f \in 0 .. d - 1, W \in 0 .. d - 1 : f = From /\ W = Waiting /\ W = Dist(f, x, d)
    BY <1>1, <1>4, UpFacts
<1>20. W < d - 1
    BY <1>1, <1>4, <1>19, UpFacts, CountOpen
<1>21. From' = f /\ Waiting' = W + 1 /\ old_bar.aqa = d /\ old_bar.asq = b
  <2>1. From' = f
    BY <1>1, <1>19 DEF From
  <2>2. old_bar.aqa = d /\ old_bar.asq = b
    BY <1>1, <1>4, UpFacts
  <2>3. Dist(f, Succ(x, d), d) = W + 1
    BY <1>5, <1>19, <1>20, Ways
  <2> QED
    BY <1>1, <1>5, <1>14, <2>1, <2>2, <2>3 DEF Waiting
<1>22. ASSUME NEW j \in 0 .. W, NEW y, y = asq'[b][At(f, j, d)]
       PROVE  Pending(y, j)'
  <2>0. j \in 0 .. d - 1
    BY <1>19
  <2>1. At(f, j, d) \in 0 .. d - 1 /\ At(f, W, d) = x
    BY <1>5, <1>19, <2>0, Places, Ways
  <2>2. CASE j = W
    <3>1. y = e
      BY <1>12, <1>22, <2>1, <2>2
    <3>2. host'.sent - Waiting' + 1 + j = id
      BY <1>2, <1>4, <1>6, <1>21, <2>2
    <3>3. host'.st = "up" /\ id \in host'.open /\ cmd = Log'[id]
      BY <1>1, <1>2, <1>3
    <3> HIDE DEF AdminInv
    <3> QED
      BY <1>8, <3>1, <3>2, <3>3 DEF Pending
  <2>3. CASE j # W
    <3>1. At(f, j, d) # x
      <4>1. At(f, j, d) = At(f, W, d) => j = W
        BY <1>19, <2>0, Places
      <4> QED
        BY <2>1, <2>3, <4>1
    <3>2. y = ring[At(f, j, d)]
      BY <1>12, <1>22, <2>1, <3>1
    <3>3. Pending(ring[At(f, j, d)], j)
      BY <1>4, <1>9, <1>19, <1>21, <2>3 DEF SubInv
    <3>4. host'.sent - Waiting' + 1 + j = host.sent - Waiting + 1 + j
      BY <1>2, <1>4, <1>6, <1>19, <1>21
    <3>5. PICK k : k = host.sent - Waiting + 1 + j
      OBVIOUS
    <3> QED
      BY <1>1, <1>2, <1>3, <3>2, <3>3, <3>4, <3>5 DEF Pending
  <2> QED
    BY <2>2, <2>3
<1>24. host'.sent - Waiting' = host.sent - Waiting
    BY <1>2, <1>4, <1>6, <1>19, <1>21
<1>23. SubInv'
  <2>2. dbs'[0] < d /\ f < d
    BY <1>5, <1>14, <1>19
  <2>3. disp.pc = "admin" => disp.new < d /\ Dist(disp.at, disp.new, d) <= W + 1
    <3>1. disp.pc = "admin" => disp.new < d /\ Dist(disp.at, disp.new, d) <= W
      BY <1>4, <1>19, <1>21 DEF SubInv
    <3>2. Dist(disp.at, disp.new, d) \in Int
      BY DEF DispInv, Dist
    <3> QED
      BY <1>19, <3>1, <3>2
  <2>4. \A i \in DOMAIN aposted : aposted[i] <= host'.sent - Waiting'
    BY <1>1, <1>24 DEF SubInv
  <2>5. W + 1 - 1 = W /\ old_bar' = old_bar /\ disp' = disp /\ aposted' = aposted
    BY <1>1, <1>19
  <2>6. \A j \in 0 .. Waiting' - 1 : Pending(asq[old_bar.asq][At(From, j, old_bar.aqa)], j)'
    BY <1>21, <1>22, <2>5
  <2> HIDE DEF AdminInv
  <2> QED
    BY <1>4, <1>21, <2>2, <2>3, <2>4, <2>5, <2>6 DEF SubInv
<1> QED
    BY <1>1, <1>2, <1>3, <1>7, <1>13, <1>15, <1>16, <1>17, <1>18, <1>23, <1>24


\* An answer changes the host's view of the queues, and nothing else of it.
LEMMA ViewFields ==
    ASSUME NEW h, h = [f \in HostFields |-> h[f]], NEW cmd, NEW v, v = HostView(h, cmd)
    PROVE  /\ v = [f \in HostFields |-> v[f]]
           /\ \A f \in HostFields \ {"granted", "cq", "sq"} : v[f] = h[f]
<1>0. "granted" \in HostFields /\ "cq" \in HostFields /\ "sq" \in HostFields
    BY DEF HostFields
<1>1. \A g, x : LET u == [h EXCEPT ![g] = x]
                IN  u = [f \in HostFields |-> u[f]] /\ \A f \in HostFields : f # g => u[f] = h[f]
    OBVIOUS
<1>2. \/ v = h
      \/ \E x : v = [h EXCEPT !["granted"] = x]
      \/ \E x : v = [h EXCEPT !["cq"] = x]
      \/ \E x : v = [h EXCEPT !["sq"] = x]
    BY DEF HostView
<1> QED
    BY <1>1, <1>2

\* What the host finds when it is interrupted is what was posted.
LEMMA AdminAgree ==
    ASSUME AdminInv, host.boot # 0
    PROVE  HostSees = aposted
<1>1. PICK d \in Nat \ {0} : d = Depth
    BY BootFacts DEF AdminInv
<1>2. aposted \in Seq(Nat) /\ CqRing(acq[host.boot], host.head, host.phase, aposted, d)
    BY <1>1 DEF AdminInv, AckInv
<1> QED
    BY <1>1, <1>2, SeenRing DEF HostSees

\* The host after it has taken the answers: h, before it looks at them.
Taken(h) ==
    /\ h = [f \in HostFields |-> h[f]]
    /\ h.st = host.st /\ h.plan = host.plan /\ h.boot = host.boot /\ h.todo = host.todo
    /\ h.tail = host.tail /\ h.sent = host.sent /\ h.sq = host.sq /\ h.cq = host.cq
    /\ h.granted = host.granted
    /\ h.head = At(host.head, Len(aposted), Depth)
    /\ h.phase = Tag(host.head, Len(aposted), host.phase, Depth)
    /\ h.open = host.open \ {aposted[i] : i \in DOMAIN aposted}

LEMMA IrqFacts ==
    ASSUME AdminInv, HostAdminIrq
    PROVE  \E h : /\ Taken(h) /\ host.boot # 0 /\ aposted' = <<>>
                  /\ \/ /\ host' = h
                        /\ \A i \in DOMAIN aposted : Log[aposted[i]].op \notin OnQueues
                     \/ \E k \in DOMAIN aposted : /\ Log[aposted[k]].op \in OnQueues
                                                  /\ host' = HostView(h, Log[aposted[k]])
<1> USE DEF AdminInv
<1>1. host.boot # 0
    BY DEF HostAdminIrq
<1>2. HostSees = aposted
    BY <1>1, AdminAgree
<1>3. aposted \in Seq(Nat) /\ CqRing(acq[host.boot], host.head, host.phase, aposted, Depth)
    BY <1>1 DEF AckInv
<1>4. PICK n \in Nat, d \in Nat \ {0} : n = Len(aposted) /\ d = Depth /\ n \in 0 .. d - 1
    BY <1>1, <1>3, BootFacts DEF CqRing
<1>5. PICK h : h = [host EXCEPT !.head = (@ + n) % Depth,
                                !.phase = IF host.head + n >= Depth THEN 1 - @ ELSE @,
                                !.open = @ \ {aposted[i] : i \in 1 .. n}]
    OBVIOUS
<1>6. PICK Ids : Ids = {aposted[i] : i \in 1 .. n}
    OBVIOUS
<1>7. PICK last : last = {i \in Ids : Log[i].op \in OnQueues}
    OBVIOUS
<1>8. /\ aposted' = SubSeq(aposted, n + 1, Len(aposted))
      /\ host' = IF last = {} THEN h ELSE HostView(h, Log[CHOOSE i \in last : TRUE])
    BY <1>2, <1>4, <1>5, <1>6, <1>7 DEF HostAdminIrq
<1>9. aposted' = <<>>
    BY <1>3, <1>4, <1>8
<1>10. Taken(h)
  <2>1. host = [f \in HostFields |-> host[f]]
    BY DEF HostInv
  <2>2. h = [f \in HostFields |-> h[f]]
    BY <1>5, <2>1
  <2>3. /\ h.st = host.st /\ h.plan = host.plan /\ h.boot = host.boot /\ h.todo = host.todo
        /\ h.tail = host.tail /\ h.sent = host.sent /\ h.sq = host.sq /\ h.cq = host.cq
        /\ h.granted = host.granted
        /\ h.head = (host.head + n) % Depth
        /\ h.phase = (IF host.head + n >= Depth THEN 1 - host.phase ELSE host.phase)
        /\ h.open = host.open \ {aposted[i] : i \in 1 .. n}
    BY <1>5, <2>1 DEF HostFields
  <2>4. host.head \in 0 .. d - 1 /\ host.phase \in {0, 1}
    BY <1>3, <1>4 DEF CqRing
  <2>5. h.head = At(host.head, n, d)
    BY <1>4, <2>3, <2>4, Modulo
  <2>6. h.phase = Tag(host.head, n, host.phase, d)
    BY <1>4, <2>3, <2>4 DEF Tag
  <2>7. DOMAIN aposted = 1 .. n
    BY <1>3, <1>4
  <2> QED
    BY <1>4, <2>2, <2>3, <2>5, <2>6, <2>7 DEF Taken
<1>11. DOMAIN aposted = 1 .. n
    BY <1>3, <1>4
<1>12. CASE last = {}
    BY <1>1, <1>6, <1>7, <1>8, <1>9, <1>10, <1>11, <1>12
<1>13. CASE last # {}
  <2>1. PICK i \in last : i = CHOOSE j \in last : TRUE
    BY <1>13
  <2>3. i \in Ids /\ Log[i].op \in OnQueues
    BY <1>7, <2>1
  <2>2. PICK k \in 1 .. n : i = aposted[k] /\ Log[i].op \in OnQueues
    BY <1>6, <2>3
  <2> QED
    BY <1>1, <1>8, <1>9, <1>10, <1>11, <1>13, <2>1, <2>2
<1> QED
    BY <1>12, <1>13

\* The host takes the answers it finds in the admin ring.
LEMMA HostAdminIrqKeeps ==
    ASSUME AdminInv, HostAdminIrq
    PROVE  AdminInv'
<1> USE DEF AdminInv
<1>1. UNCHANGED <<bar, old_bar, admin_q, dbs, old_dbs, disp, asq, acq>>
    BY DEF HostAdminIrq, registers
<1>2. PICK h : /\ Taken(h) /\ host.boot # 0 /\ aposted' = <<>>
               /\ \/ /\ host' = h
                     /\ \A i \in DOMAIN aposted : Log[aposted[i]].op \notin OnQueues
                  \/ \E k \in DOMAIN aposted : /\ Log[aposted[k]].op \in OnQueues
                                               /\ host' = HostView(h, Log[aposted[k]])
    BY IrqFacts
<1>3. /\ host' = [f \in HostFields |-> host'[f]]
      /\ host'.st = host.st /\ host'.plan = host.plan /\ host'.boot = host.boot /\ host'.todo = host.todo
      /\ host'.tail = host.tail /\ host'.sent = host.sent
      /\ host'.head = At(host.head, Len(aposted), Depth)
      /\ host'.phase = Tag(host.head, Len(aposted), host.phase, Depth)
      /\ host'.open = host.open \ {aposted[i] : i \in DOMAIN aposted}
  <2>1. \A f \in HostFields \ {"granted", "cq", "sq"} : host'[f] = h[f]
    BY <1>2, ViewFields DEF Taken
  <2>2. host' = [f \in HostFields |-> host'[f]]
    BY <1>2, ViewFields DEF Taken
  <2> QED
    BY <1>2, <2>1, <2>2 DEF Taken, HostFields
<1>4. Depth' = Depth /\ Log' = Log
    BY <1>3 DEF Depth, Log
<1>5. CASE host.st # "up"
  <2>1. aposted = <<>> /\ DOMAIN aposted = {} /\ Len(aposted) = 0
    <3>1. DOMAIN aposted = {}
      BY <1>2, <1>5 DEF AckInv, HostInv, Quiet
    <3>2. aposted \in Seq(Nat)
      BY DEF AckInv
    <3>3. aposted = <<>>
      BY <3>1, <3>2
    <3> QED
      BY <3>3
  <2>2. host' = h
    BY <1>2, <2>1
  <2>3. PICK d \in Nat \ {0} : d = Depth /\ host.head \in 0 .. d - 1 /\ host.phase \in {0, 1}
    BY <1>2, BootFacts DEF AckInv, CqRing
  <2>4. At(host.head, 0, d) = host.head /\ Tag(host.head, 0, host.phase, d) = host.phase
    BY <2>3 DEF At, Tag
  <2>5. host' = host
    <3>1. host = [f \in HostFields |-> host[f]]
      BY DEF HostInv
    <3>2. /\ host'.st = host.st /\ host'.plan = host.plan /\ host'.boot = host.boot
          /\ host'.todo = host.todo /\ host'.tail = host.tail /\ host'.sent = host.sent
          /\ host'.sq = host.sq /\ host'.cq = host.cq /\ host'.granted = host.granted
      BY <1>2, <2>2 DEF Taken
    <3>3. host'.head = host.head /\ host'.phase = host.phase
      BY <1>2, <2>1, <2>2, <2>3, <2>4 DEF Taken
    <3>4. host'.open = host.open
      BY <1>2, <2>1, <2>2 DEF Taken
    <3>5. \A f \in HostFields : host'[f] = host[f]
      BY ONLY <3>2, <3>3, <3>4 DEF HostFields
    <3> QED
      BY <1>3, <3>1, <3>5
  <2>6. aposted' = aposted
    BY <1>2, <2>1
  <2> QED
    BY <1>1, <2>5, <2>6, AdminFrame DEF DispInv
<1>6. CASE host.st = "up"
  <2>1. PICK d \in Nat \ {0}, L \in Nat : d = Depth /\ L = Len(aposted) /\ L \in 0 .. d - 1
    BY <1>2, BootFacts DEF AckInv, CqRing
  <2>2. CqRing(acq[host.boot], host'.head, host'.phase, <<>>, d)
    BY <1>2, <1>3, <2>1, TakeRing DEF AckInv
  <2>3. HostInv'
    <3>1. host'.open \subseteq host.open
      BY <1>3
    <3>2. Cardinality(host'.open) <= Cardinality(host.open) /\ Cardinality(host'.open) \in Nat
      BY <1>6, <3>1, UpFacts, FS_Subset, FS_CardinalityType
    <3>3. Cardinality(host'.open) < Depth'
      BY <1>4, <1>6, <3>2, UpFacts
    <3>4. host'.st = "up" /\ ~Fresh'
      BY <1>3, <1>6 DEF Fresh
    <3> QED
      BY <1>2, <1>3, <1>4, <3>1, <3>3, <3>4 DEF HostInv
  <2>4. MemInv' /\ DispInv' /\ RegInv'
    <3>1. NewRegs'
      BY <1>1, <1>3, <1>6 DEF RegInv, NewRegs, Fresh
    <3> QED
      BY <1>1, <1>3, <1>4, <3>1 DEF MemInv, DispInv, RegInv, RegVal
  <2>5. AckInv'
    <3>1. aposted' \in Seq(Nat) /\ DOMAIN aposted' = {}
      BY <1>2
    <3>2. CqRing(acq'[host'.boot], host'.head, host'.phase, aposted', Depth')
      BY <1>1, <1>2, <1>3, <1>4, <2>1, <2>2
    <3> QED
      BY <1>2, <1>3, <3>1, <3>2 DEF AckInv
  <2>6. DevInv'
    <3>1. host'.head \in 0 .. d - 1 /\ host'.phase \in {0, 1}
      BY <2>2 DEF CqRing
    <3>2. At(host'.head, 0, d) = host'.head /\ Tag(host'.head, 0, host'.phase, d) = host'.phase
      BY <3>1, Places, NextTag
    <3>3. Len(aposted') = 0
      BY <1>2
    <3>4. admin_q'.cq_head = At(host'.head, Len(aposted'), Depth')
      BY <1>1, <1>3, <1>4, <1>6, <2>1, <3>2, <3>3 DEF DevInv
    <3>5. admin_q'.phase = Tag(host'.head, Len(aposted'), host'.phase, Depth')
      BY <1>1, <1>3, <1>4, <1>6, <2>1, <3>2, <3>3 DEF DevInv
    <3> QED
      BY <1>1, <1>3, <1>6, <3>4, <3>5 DEF DevInv, Fresh, Adopted
  <2>7. SubInv'
    <3>1. From' = From /\ Waiting' = Waiting /\ DOMAIN aposted' = {}
      BY <1>1, <1>2 DEF From, Waiting
    <3>2. PICK W \in Nat, n \in Nat : W = Waiting /\ n = host.sent
      BY <1>6, <2>1, UpFacts
    <3>3. \A i \in DOMAIN aposted : aposted[i] \in Nat /\ aposted[i] <= n - W
      BY <1>6, <3>2 DEF SubInv, AckInv
    <3>4. ASSUME NEW e, NEW j \in 0 .. W - 1, Pending(e, j)
          PROVE  Pending(e, j)'
      <4>1. e.id = n - W + 1 + j /\ e.id \in host.open /\ e.cmd = Log[e.id] /\ e \in [id : Nat, cmd : Commands]
        BY <1>6, <3>2, <3>4 DEF Pending
      <4>2. \A i \in DOMAIN aposted : aposted[i] # e.id
        BY <3>2, <3>3, <4>1
      <4>3. e.id \in host'.open
        BY <1>3, <4>1, <4>2
      <4> QED
        BY <1>3, <1>4, <1>6, <3>1, <3>2, <4>1, <4>3 DEF Pending
    <3> QED
      BY <1>1, <3>1, <3>2, <3>4 DEF SubInv
  <2> QED
    BY <2>3, <2>4, <2>5, <2>6, <2>7
<1> QED
    BY <1>5, <1>6


\* A look at the registers, which leaves the host alone.
LEMMA BarFrame ==
    ASSUME AdminInv, UNCHANGED <<asq, acq, host, aposted>>,
           RegInv', DevInv', DispInv', SubInv'
    PROVE  AdminInv'
<1> USE DEF AdminInv
<1>1. Depth' = Depth /\ Log' = Log /\ (Quiet' <=> Quiet) /\ (Fresh' <=> Fresh)
    BY DEF Depth, Log, Quiet, Fresh
<1>2. HostInv' /\ MemInv'
    BY <1>1 DEF HostInv, MemInv
<1>3. AckInv'
    BY <1>1 DEF AckInv
<1> QED
    BY <1>2, <1>3

\* The doorbell of the admin queue is reset: nothing waits.
LEMMA ResetFrame ==
    ASSUME AdminInv, disp' \in [pc : {"idle", "cc_store"}, q : 0 .. NrQueues, new : Nat, at : Nat],
           UNCHANGED <<host, aposted>>, host.st # "up",
           dbs' = [dbs EXCEPT ![0] = 0], old_dbs' = [old_dbs EXCEPT ![0] = 0],
           old_bar'.asq # 0 => old_bar'.aqa \in Nat \ {0}
    PROVE  DispInv' /\ SubInv' /\ dbs'[0] = 0 /\ old_dbs'[0] = 0
<1>1. 0 \in 0 .. NrQueues
    BY AdminAssumption
<1>2. DispInv' /\ dbs'[0] = 0 /\ old_dbs'[0] = 0
    BY <1>1 DEF AdminInv, DispInv
<1>3. From' = 0 /\ Waiting' = 0 /\ disp'.pc # "admin"
    BY <1>2 DEF From, Waiting, Dist
<1>4. \A j \in 0 .. Waiting' - 1 : FALSE
    BY <1>3
<1> QED
    BY <1>2, <1>3, <1>4 DEF SubInv

LEMMA ProcAqaKeeps ==
    ASSUME AdminInv, ProcAqa
    PROVE  AdminInv'
<1> USE DEF AdminInv
<1>1. /\ Idle /\ old_bar.aqa # bar.aqa
      /\ old_bar' = [old_bar EXCEPT !.aqa = bar.aqa]
      /\ dbs' = [dbs EXCEPT ![0] = 0] /\ old_dbs' = [old_dbs EXCEPT ![0] = 0]
      /\ UNCHANGED <<bar, disp, asq, acq, host, aposted>>
    BY DEF ProcAqa, Changed
<1>2. /\ bar.aqa \in Nat \ {0, 1} /\ old_bar'.aqa = bar.aqa /\ old_bar'.asq = old_bar.asq
      /\ old_bar'.acq = old_bar.acq
      /\ old_bar' \in [aqa : Nat \ {1}, asq : Nat, acq : Nat, en : BOOLEAN, shn : BOOLEAN]
      /\ \A r \in RingRegs : r # "aqa" => old_bar'[r] = old_bar[r]
    BY <1>1 DEF RegInv, RingRegs
<1>3. RegInv'
  <2>1. \A r : RegVal(r)' = RegVal(r)
    BY <1>1 DEF RegVal, Depth
  <2>2. NewRegs'
    BY <1>1, <1>2 DEF RegInv, NewRegs, Fresh
  <2> QED
    BY <1>1, <1>2, <2>1, <2>2 DEF RegInv
<1>4. ~Adopted
    BY <1>1 DEF Adopted, RingRegs
<1>5. /\ host.st # "up" /\ ~(host.st = "enabling" /\ bar.rdy)
      /\ disp' \in [pc : {"idle", "cc_store"}, q : 0 .. NrQueues, new : Nat, at : Nat]
    BY <1>1, <1>4 DEF DevInv, DispInv, Idle
<1>6. DispInv' /\ SubInv' /\ dbs'[0] = 0 /\ old_dbs'[0] = 0
    BY <1>1, <1>2, <1>5, ResetFrame
<1>7. PICK u, v \in Nat : u = old_bar.asq /\ v = old_bar.acq
    BY DEF RegInv
<1>8. admin_q' = [nvme_sq |-> u, nvme_cq |-> v, cq_head |-> 0, phase |-> 1, sq_depth |-> bar.aqa,
                  cq_depth |-> bar.aqa]
  <2>1. admin_q' = [nvme_sq |-> IF admin_q = NIL THEN 0 ELSE admin_q.nvme_sq,
                    nvme_cq |-> IF admin_q = NIL THEN 0 ELSE admin_q.nvme_cq,
                    cq_head |-> 0, phase |-> 1, sq_depth |-> bar.aqa, cq_depth |-> bar.aqa]
    BY DEF ProcAqa
  <2>2. (IF admin_q = NIL THEN 0 ELSE admin_q.nvme_sq) = u /\ (IF admin_q = NIL THEN 0 ELSE admin_q.nvme_cq) = v
    BY <1>7 DEF DevInv
  <2> QED
    BY <2>1, <2>2
<1>9. /\ admin_q' \in AdminQs /\ admin_q'.nvme_sq = u /\ admin_q'.nvme_cq = v /\ admin_q'.cq_head = 0
      /\ admin_q'.phase = 1 /\ admin_q'.sq_depth = bar.aqa /\ admin_q'.cq_depth = bar.aqa
    BY <1>2, <1>8 DEF AdminQs
<1>10. admin_q' # NIL
    BY <1>9, NilFacts
<1>11. DevInv'
  <2>1. host'.st = host.st /\ host'.boot = host.boot /\ bar' = bar /\ disp'.pc # "admin"
    BY <1>1 DEF Idle
  <2>2. host'.st # "up" /\ ~(host'.st = "enabling" /\ bar'.rdy)
    BY <1>5, <2>1
  <2>3. old_bar'.aqa # 0
    BY <1>2
  <2> HIDE DEF AdminInv
  <2> QED
    BY <1>2, <1>6, <1>7, <1>9, <1>10, <2>1, <2>2, <2>3 DEF DevInv
<1> QED
    BY <1>1, <1>3, <1>6, <1>11, BarFrame

LEMMA ProcAsqKeeps ==
    ASSUME AdminInv, ProcAsq
    PROVE  AdminInv'
<1> USE DEF AdminInv
<1>1. /\ Idle /\ old_bar.asq # bar.asq /\ admin_q # NIL
      /\ old_bar' = [old_bar EXCEPT !.asq = bar.asq]
      /\ admin_q' = [admin_q EXCEPT !.nvme_sq = bar.asq, !.sq_depth = bar.aqa]
      /\ dbs' = [dbs EXCEPT ![0] = 0] /\ old_dbs' = [old_dbs EXCEPT ![0] = 0]
      /\ UNCHANGED <<bar, disp, asq, acq, host, aposted>>
    BY DEF ProcAsq, Changed
<1>2. /\ bar.asq \in Nat /\ bar.aqa \in Nat /\ old_bar'.aqa = old_bar.aqa /\ old_bar'.asq = bar.asq
      /\ old_bar'.acq = old_bar.acq
      /\ old_bar' \in [aqa : Nat \ {1}, asq : Nat, acq : Nat, en : BOOLEAN, shn : BOOLEAN]
      /\ \A r \in RingRegs : r # "asq" => old_bar'[r] = old_bar[r]
    BY <1>1 DEF RegInv, RingRegs
<1>3. RegInv'
  <2>1. (\A r : RegVal(r)' = RegVal(r)) /\ (Fresh' <=> Fresh)
    BY <1>1 DEF RegVal, Depth, Fresh
  <2>2. NewRegs'
    BY <1>1, <1>2, <2>1 DEF RegInv, NewRegs
  <2> QED
    BY <1>1, <1>2, <2>1, <2>2 DEF RegInv
<1>4. ~Adopted /\ Fresh /\ "asq" \notin host.todo
    BY <1>1 DEF Adopted, RingRegs, RegInv, NewRegs
<1>5. /\ host.st # "up" /\ ~(host.st = "enabling" /\ bar.rdy)
      /\ disp' \in [pc : {"idle", "cc_store"}, q : 0 .. NrQueues, new : Nat, at : Nat]
    BY <1>1, <1>4 DEF DevInv, DispInv, Idle
<1>6. old_bar.aqa \in Nat \ {0}
    BY <1>1 DEF DevInv, RegInv
<1>7. DispInv' /\ SubInv' /\ dbs'[0] = 0 /\ old_dbs'[0] = 0
    BY <1>1, <1>2, <1>5, <1>6, ResetFrame
<1>8. /\ admin_q \in AdminQs /\ admin_q.nvme_cq = old_bar.acq
      /\ admin_q.cq_depth = old_bar.aqa \/ old_bar.aqa # bar.aqa
    BY <1>1 DEF DevInv
<1>9. /\ admin_q' \in AdminQs /\ admin_q'.nvme_sq = bar.asq /\ admin_q'.nvme_cq = old_bar.acq
      /\ admin_q'.cq_head = admin_q.cq_head
      /\ admin_q'.phase = admin_q.phase /\ admin_q'.sq_depth = bar.aqa
      /\ admin_q'.cq_depth = admin_q.cq_depth
    BY <1>1, <1>2, <1>8 DEF AdminQs
<1>10. admin_q' # NIL
    BY <1>9, NilFacts
<1>11. bar.asq = host.boot
  <2>1. host.st = "regs" \/ host.st = "enabling"
    BY <1>4 DEF Fresh
  <2> QED
    BY <1>4, <2>1 DEF RegInv, RegVal, RingRegs
<1>12. DevInv'
  <2>1. host'.st = host.st /\ host'.boot = host.boot /\ bar' = bar /\ disp'.pc # "admin" /\ (Fresh' <=> Fresh)
    BY <1>1 DEF Idle, Fresh
  <2>2. host'.st # "up" /\ ~(host'.st = "enabling" /\ bar'.rdy)
    BY <1>5, <2>1
  <2>3. Fresh /\ old_bar.acq = host.boot => admin_q.cq_head = 0 /\ admin_q.phase = 1
    BY DEF DevInv
  <2>4. admin_q'.sq_depth = old_bar'.aqa \/ (Fresh' /\ old_bar'.asq = host'.boot /\ old_bar'.aqa # bar'.aqa)
    BY <1>2, <1>4, <1>9, <1>11, <2>1
  <2> HIDE DEF AdminInv
  <2> QED
    BY <1>1, <1>2, <1>4, <1>6, <1>7, <1>8, <1>9, <1>10, <2>1, <2>2, <2>3, <2>4 DEF DevInv, Fresh
<1> QED
    BY <1>1, <1>3, <1>7, <1>12, BarFrame


LEMMA ProcAcqKeeps ==
    ASSUME AdminInv, ProcAcq
    PROVE  AdminInv'
<1> USE DEF AdminInv
<1>1. /\ Idle /\ old_bar.acq # bar.acq /\ admin_q # NIL
      /\ old_bar' = [old_bar EXCEPT !.acq = bar.acq]
      /\ admin_q' = [admin_q EXCEPT !.nvme_cq = bar.acq, !.cq_depth = bar.aqa, !.cq_head = 0, !.phase = 1]
      /\ UNCHANGED <<bar, dbs, old_dbs, disp, asq, acq, host, aposted>>
    BY DEF ProcAcq, Changed
<1>2. /\ bar.acq \in Nat /\ bar.aqa \in Nat /\ old_bar'.aqa = old_bar.aqa /\ old_bar'.asq = old_bar.asq
      /\ old_bar'.acq = bar.acq
      /\ old_bar' \in [aqa : Nat \ {1}, asq : Nat, acq : Nat, en : BOOLEAN, shn : BOOLEAN]
      /\ \A r \in RingRegs : r # "acq" => old_bar'[r] = old_bar[r]
    BY <1>1 DEF RegInv, RingRegs
<1>3. RegInv'
  <2>1. (\A r : RegVal(r)' = RegVal(r)) /\ (Fresh' <=> Fresh)
    BY <1>1 DEF RegVal, Depth, Fresh
  <2>2. NewRegs'
    BY <1>1, <1>2, <2>1 DEF RegInv, NewRegs
  <2> QED
    BY <1>1, <1>2, <2>1, <2>2 DEF RegInv
<1>4. ~Adopted /\ Fresh
    BY <1>1 DEF Adopted, RingRegs, RegInv, NewRegs
<1>5. host.st # "up" /\ ~(host.st = "enabling" /\ bar.rdy)
    BY <1>4 DEF DevInv
<1>6. old_bar.aqa \in Nat \ {0}
    BY <1>1 DEF DevInv, RegInv
<1>7. SubInv' /\ DispInv'
  <2>1. From' = From /\ Waiting' = Waiting /\ host'.st # "up"
    BY <1>1, <1>2, <1>5 DEF From, Waiting
  <2>2. ASSUME NEW e, NEW j, Pending(e, j)
        PROVE  Pending(e, j)'
    BY <1>1, <1>5, <2>1, <2>2 DEF Pending
  <2>3. DispInv'
    BY <1>1 DEF DispInv
  <2> QED
    BY <1>1, <1>2, <2>1, <2>2, <2>3 DEF SubInv
<1>8. /\ admin_q \in AdminQs /\ admin_q.nvme_sq = old_bar.asq
      /\ admin_q.sq_depth = old_bar.aqa \/ (Fresh /\ old_bar.asq = host.boot /\ old_bar.aqa # bar.aqa)
    BY <1>1 DEF DevInv
<1>9. /\ admin_q' \in AdminQs /\ admin_q'.nvme_sq = old_bar.asq /\ admin_q'.nvme_cq = bar.acq
      /\ admin_q'.cq_head = 0 /\ admin_q'.phase = 1
      /\ admin_q'.sq_depth = admin_q.sq_depth /\ admin_q'.cq_depth = bar.aqa
    BY <1>1, <1>2, <1>8 DEF AdminQs
<1>10. admin_q' # NIL
    BY <1>9, NilFacts
<1>11. DevInv'
  <2>1. /\ host'.st = host.st /\ host'.boot = host.boot /\ bar' = bar /\ disp' = disp /\ (Fresh' <=> Fresh)
        /\ dbs' = dbs /\ old_dbs' = old_dbs
    BY <1>1 DEF Fresh
  <2>2. host'.st # "up" /\ ~(host'.st = "enabling" /\ bar'.rdy)
    BY <1>5, <2>1
  <2>3. Fresh /\ old_bar.asq = host.boot => dbs[0] = 0 /\ old_dbs[0] = 0 /\ disp.pc # "admin"
    BY DEF DevInv
  <2> HIDE DEF AdminInv
  <2> QED
    BY <1>1, <1>2, <1>6, <1>8, <1>9, <1>10, <2>1, <2>2, <2>3 DEF DevInv
<1> QED
    BY <1>1, <1>3, <1>7, <1>11, BarFrame

\* Only the place of the dispatcher in its look at cc and csts change.
LEMMA CstsFrame ==
    ASSUME AdminInv, NEW pc \in {"idle", "cc_shn", "cc_store"}, disp.pc # "admin",
           disp' = [disp EXCEPT !.pc = pc],
           NEW rdy \in BOOLEAN, NEW shst \in BOOLEAN, bar' = [bar EXCEPT !.rdy = rdy, !.shst = shst],
           \A r \in RingRegs : old_bar'[r] = old_bar[r],
           old_bar' \in [aqa : Nat \ {1}, asq : Nat, acq : Nat, en : BOOLEAN, shn : BOOLEAN],
           rdy => bar.rdy \/ (bar.en /\ Adopted),
           UNCHANGED <<admin_q, dbs, old_dbs, asq, acq, host, aposted>>
    PROVE  AdminInv' /\ AdminRests
<1> USE DEF AdminInv
<1>1. /\ bar' \in [aqa : Nat \ {1}, asq : Nat, acq : Nat, en : BOOLEAN, shn : BOOLEAN,
                   rdy : BOOLEAN, shst : BOOLEAN]
      /\ \A r \in RingRegs : bar'[r] = bar[r]
      /\ bar'.en = bar.en /\ bar'.shn = bar.shn /\ bar'.rdy = rdy
      /\ bar'.aqa = bar.aqa /\ bar'.asq = bar.asq /\ bar'.acq = bar.acq
    BY DEF RegInv, RingRegs
<1>2. old_bar'.aqa = old_bar.aqa /\ old_bar'.asq = old_bar.asq /\ old_bar'.acq = old_bar.acq
    BY DEF RingRegs
<1>3. Depth' = Depth /\ Log' = Log /\ (Fresh' <=> Fresh) /\ \A r : RegVal(r)' = RegVal(r)
    BY DEF Depth, Log, Fresh, RegVal
<1>4. RegInv'
  <2>1. NewRegs'
    BY <1>1, <1>3 DEF RegInv, NewRegs
  <2> QED
    BY <1>1, <1>2, <1>3, <2>1 DEF RegInv
<1>5. DispInv' /\ disp'.pc = pc
    BY DEF DispInv
<1>9. From' = From /\ Waiting' = Waiting /\ disp'.pc # "admin"
    BY <1>2, <1>5 DEF From, Waiting
<1>6. SubInv'
  <2>1. ASSUME NEW e, NEW j, Pending(e, j)
        PROVE  Pending(e, j)'
    BY <1>3, <1>9, <2>1 DEF Pending
  <2> QED
    BY <1>2, <1>9, <2>1 DEF SubInv
<1>7. Adopted => Adopted'
    BY <1>1 DEF Adopted
<1>8. DevInv'
    BY <1>1, <1>2, <1>3, <1>5, <1>7 DEF DevInv
<1> QED
    BY <1>4, <1>5, <1>6, <1>8, <1>9, BarFrame DEF AdminRests

LEMMA CcEnableKeeps ==
    ASSUME AdminInv, CcEnable
    PROVE  AdminInv' /\ AdminRests
<1> USE DEF AdminInv
<1>1. /\ disp.pc = "idle" /\ \A r \in RingRegs : old_bar[r] = bar[r]
      /\ bar' = [bar EXCEPT !.rdy = IF bar.en THEN @ \/ admin_q # NIL ELSE FALSE]
      /\ disp' = [disp EXCEPT !.pc = "cc_shn"]
      /\ UNCHANGED <<old_bar, admin_q, dbs, old_dbs, asq, acq, host, aposted>>
    BY DEF CcEnable, CcTurn, Changed, RingRegs, Idle
<1>2. PICK rdy : rdy = IF bar.en THEN bar.rdy \/ admin_q # NIL ELSE FALSE
    OBVIOUS
<1>3. PICK shst : shst = bar.shst
    OBVIOUS
<1>4. bar.en \in BOOLEAN /\ bar.rdy \in BOOLEAN /\ bar.shst \in BOOLEAN
    BY DEF RegInv
<1>5. rdy \in BOOLEAN /\ (rdy => bar.en /\ (bar.rdy \/ admin_q # NIL))
    BY <1>2, <1>4, Zenon
<1>6. bar' = [bar EXCEPT !.rdy = rdy, !.shst = shst]
  <2>1. bar' = [bar EXCEPT !.rdy = rdy]
    BY <1>1, <1>2
  <2>2. [bar EXCEPT !.rdy = rdy] = [bar EXCEPT !.rdy = rdy, !.shst = shst]
    BY <1>3 DEF RegInv
  <2> QED
    BY <2>1, <2>2
<1>7. rdy => bar.rdy \/ (bar.en /\ Adopted)
    BY <1>1, <1>5 DEF Adopted
<1>8. /\ old_bar' \in [aqa : Nat \ {1}, asq : Nat, acq : Nat, en : BOOLEAN, shn : BOOLEAN]
      /\ \A r \in RingRegs : old_bar'[r] = old_bar[r]
    BY <1>1 DEF RegInv
<1> QED
    BY <1>1, <1>3, <1>4, <1>5, <1>6, <1>7, <1>8, CstsFrame

LEMMA CcStoreKeeps ==
    ASSUME AdminInv, CcStore
    PROVE  AdminInv' /\ AdminRests
<1> USE DEF AdminInv
<1>1. /\ disp.pc = "cc_store" /\ disp' = [disp EXCEPT !.pc = "idle"]
      /\ old_bar' = [old_bar EXCEPT !.en = bar.en, !.shn = bar.shn]
      /\ UNCHANGED <<bar, admin_q, dbs, old_dbs, asq, acq, host, aposted>>
    BY DEF CcStore
<1>2. PICK rdy, shst : rdy = bar.rdy /\ shst = bar.shst
    OBVIOUS
<1>3. rdy \in BOOLEAN /\ shst \in BOOLEAN /\ bar' = [bar EXCEPT !.rdy = rdy, !.shst = shst]
    BY <1>1, <1>2 DEF RegInv
<1>4. /\ old_bar' \in [aqa : Nat \ {1}, asq : Nat, acq : Nat, en : BOOLEAN, shn : BOOLEAN]
      /\ \A r \in RingRegs : old_bar'[r] = old_bar[r]
    BY <1>1 DEF RegInv, RingRegs
<1> QED
    BY <1>1, <1>2, <1>3, <1>4, CstsFrame

LEMMA CcShutdownKeeps ==
    ASSUME AdminInv, CcShutdown
    PROVE  AdminInv' /\ (host'.st # "up" \/ AdminRests)
<1> USE DEF AdminInv
<1>1. /\ disp.pc = "cc_shn" /\ disp' = [disp EXCEPT !.pc = "cc_store"]
      /\ bar' = [bar EXCEPT !.shst = @ \/ bar.shn]
      /\ IF bar.shn
         THEN /\ dbs' = [dbs EXCEPT ![0] = 0]
              /\ old_dbs' = [old_dbs EXCEPT ![0] = 0]
              /\ admin_q' = [admin_q EXCEPT !.cq_head = 0]
         ELSE UNCHANGED <<dbs, old_dbs, admin_q>>
      /\ UNCHANGED <<old_bar, asq, acq, host, aposted>>
    BY DEF CcShutdown
<1>2. PICK rdy, shst : rdy = bar.rdy /\ shst = (bar.shst \/ bar.shn)
    OBVIOUS
<1>3. rdy \in BOOLEAN /\ shst \in BOOLEAN
  <2>1. bar.rdy \in BOOLEAN /\ bar.shst \in BOOLEAN /\ bar.shn \in BOOLEAN
    BY DEF RegInv
  <2> QED
    BY <1>2, <2>1, Zenon
<1>4. bar' = [bar EXCEPT !.rdy = rdy, !.shst = shst]
  <2>1. bar' = [bar EXCEPT !.shst = shst]
    BY <1>1, <1>2
  <2>2. [bar EXCEPT !.shst = shst] = [bar EXCEPT !.rdy = rdy, !.shst = shst]
    BY <1>2 DEF RegInv
  <2> QED
    BY <2>1, <2>2
<1>5. /\ old_bar' \in [aqa : Nat \ {1}, asq : Nat, acq : Nat, en : BOOLEAN, shn : BOOLEAN]
      /\ \A r \in RingRegs : old_bar'[r] = old_bar[r]
    BY <1>1 DEF RegInv
<1>6. CASE ~bar.shn
  <2>1. UNCHANGED <<dbs, old_dbs, admin_q>>
    BY <1>1, <1>6
  <2> QED
    BY <1>1, <1>2, <1>3, <1>4, <1>5, <2>1, CstsFrame
<1>7. CASE bar.shn
  <2>1. host.st \in {"shutting", "down"}
    BY <1>7 DEF RegInv
  <2>2. /\ admin_q # NIL /\ admin_q \in AdminQs /\ old_bar.aqa \in Nat \ {0}
        /\ admin_q' = [admin_q EXCEPT !.cq_head = 0]
    BY <1>1, <1>7, <2>1 DEF DevInv, RegInv
  <2>3. /\ admin_q' \in AdminQs /\ admin_q'.nvme_sq = admin_q.nvme_sq /\ admin_q'.nvme_cq = admin_q.nvme_cq
        /\ admin_q'.sq_depth = admin_q.sq_depth /\ admin_q'.cq_depth = admin_q.cq_depth
    BY <2>2 DEF AdminQs
  <2>4. admin_q' # NIL
    BY <2>3, NilFacts
  <2>5. disp' \in [pc : {"idle", "cc_store"}, q : 0 .. NrQueues, new : Nat, at : Nat]
    BY <1>1 DEF DispInv
  <2>6. DispInv' /\ SubInv' /\ dbs'[0] = 0 /\ old_dbs'[0] = 0
    BY <1>1, <1>7, <2>1, <2>2, <2>5, ResetFrame
  <2>7. /\ bar' \in [aqa : Nat \ {1}, asq : Nat, acq : Nat, en : BOOLEAN, shn : BOOLEAN,
                     rdy : BOOLEAN, shst : BOOLEAN]
        /\ \A r \in RingRegs : bar'[r] = bar[r]
        /\ bar'.en = bar.en /\ bar'.shn = bar.shn /\ bar'.rdy = rdy
        /\ bar'.aqa = bar.aqa /\ bar'.asq = bar.asq /\ bar'.acq = bar.acq
    BY <1>3, <1>4 DEF RegInv, RingRegs
  <2>8. RegInv'
    <3>1. (\A r : RegVal(r)' = RegVal(r)) /\ (Fresh' <=> Fresh)
      BY <1>1 DEF RegVal, Depth, Fresh
    <3>2. NewRegs'
      BY <1>1, <2>7, <3>1 DEF RegInv, NewRegs
    <3> QED
      BY <1>1, <1>2, <2>7, <3>1, <3>2 DEF RegInv
  <2>9. DevInv'
    BY <1>1, <2>1, <2>2, <2>3, <2>4, <2>6, <2>7 DEF DevInv, Fresh
  <2>10. AdminInv'
    BY <1>1, <2>6, <2>8, <2>9, BarFrame
  <2>11. host'.st # "up"
    BY <1>1, <2>1
  <2> HIDE DEF AdminInv
  <2> QED
    BY <2>10, <2>11
<1> QED
    BY <1>6, <1>7

\* The dispatcher reads the admin doorbell.
LEMMA AdminDoorbellKeeps ==
    ASSUME AdminInv, AdminDoorbell
    PROVE  AdminInv' /\ AdminRests
<1> USE DEF AdminInv
<1>1. /\ Idle /\ dbs[0] # old_dbs[0] /\ disp' = [pc |-> "admin", q |-> 0, new |-> dbs[0], at |-> old_dbs[0]]
      /\ UNCHANGED <<bar, old_bar, admin_q, dbs, old_dbs, asq, acq, host, aposted>>
    BY DEF AdminDoorbell, registers
<1>2. 0 \in 0 .. NrQueues
    BY AdminAssumption
<1>3. /\ dbs[0] \in Nat /\ old_dbs[0] \in Nat /\ disp'.pc = "admin" /\ disp'.new = dbs[0] /\ disp'.at = old_dbs[0]
      /\ DispInv'
    BY <1>1, <1>2 DEF DispInv
<1>4. From' = From /\ Waiting' = Waiting /\ Waiting = Dist(old_dbs[0], dbs[0], old_bar.aqa)
    BY <1>1, <1>3 DEF From, Waiting, Idle
<1>5. Depth' = Depth /\ Log' = Log /\ (Quiet' <=> Quiet) /\ (Fresh' <=> Fresh) /\ \A r : RegVal(r)' = RegVal(r)
    BY <1>1 DEF Depth, Log, Quiet, Fresh, RegVal
<1>6. HostInv' /\ MemInv' /\ RegInv'
    BY <1>1, <1>5 DEF HostInv, MemInv, RegInv, NewRegs
<1>7. AckInv'
    BY <1>1, <1>5 DEF AckInv
<1>8. old_bar.asq # 0 /\ ~(Fresh /\ old_bar.asq = host.boot)
    BY <1>1 DEF SubInv, DevInv
<1>9. DevInv'
    BY <1>1, <1>5, <1>8 DEF DevInv, Adopted
<1>10. SubInv'
  <2>1. ASSUME NEW e, NEW j, Pending(e, j)
        PROVE  Pending(e, j)'
    BY <1>1, <1>4, <1>5, <2>1 DEF Pending
  <2>2. Waiting <= Waiting
    BY <1>3, <1>4 DEF Dist, RegInv
  <2> QED
    BY <1>1, <1>3, <1>4, <1>8, <2>1, <2>2 DEF SubInv
<1> QED
    BY <1>1, <1>3, <1>4, <1>6, <1>7, <1>9, <1>10 DEF AdminRests

\* The batch is done.
LEMMA AdminBatchDoneKeeps ==
    ASSUME AdminInv, AdminBatchDone
    PROVE  AdminInv' /\ AdminRests
<1> USE DEF AdminInv
<1>1. /\ disp.pc = "admin" /\ disp.at = disp.new /\ old_dbs' = [old_dbs EXCEPT ![0] = disp.new]
      /\ disp' = [pc |-> "idle", q |-> 0, new |-> 0, at |-> 0]
      /\ UNCHANGED <<bar, old_bar, admin_q, dbs, asq, acq, host, aposted>>
    BY DEF AdminBatchDone, registers
<1>2. 0 \in 0 .. NrQueues
    BY AdminAssumption
<1>3. DispInv' /\ disp'.pc = "idle" /\ old_dbs'[0] = disp.at
    BY <1>1, <1>2 DEF DispInv
<1>4. From' = From /\ Waiting' = Waiting
    BY <1>1, <1>3 DEF From, Waiting
<1>5. Depth' = Depth /\ Log' = Log /\ (Quiet' <=> Quiet) /\ (Fresh' <=> Fresh) /\ \A r : RegVal(r)' = RegVal(r)
    BY <1>1 DEF Depth, Log, Quiet, Fresh, RegVal
<1>6. HostInv' /\ MemInv' /\ RegInv'
    BY <1>1, <1>5 DEF HostInv, MemInv, RegInv, NewRegs
<1>7. AckInv'
    BY <1>1, <1>5 DEF AckInv
<1>8. old_bar.asq # 0 /\ ~(Fresh /\ old_bar.asq = host.boot)
    BY <1>1 DEF SubInv, DevInv
<1>9. DevInv'
    BY <1>1, <1>5, <1>8 DEF DevInv, Adopted
<1>10. SubInv'
  <2>1. ASSUME NEW e, NEW j, Pending(e, j)
        PROVE  Pending(e, j)'
    BY <1>1, <1>4, <1>5, <2>1 DEF Pending
  <2> QED
    BY <1>1, <1>3, <1>4, <1>8, <2>1 DEF SubInv
<1> QED
    BY <1>1, <1>3, <1>4, <1>6, <1>7, <1>9, <1>10 DEF AdminRests


\* e is the command that the dispatcher is about to execute.
AtHand(e) ==
    /\ e = asq[old_bar.asq][disp.at] /\ e \in [id : Nat, cmd : Commands]
    /\ host.st # "up" => e.cmd.op = "abort"
    /\ host.st = "up" => /\ e.id = host.sent - Waiting + 1 /\ e.id \in host.open
                         /\ e.id \in 1 .. Len(Log) /\ e.cmd = Log[e.id]
    /\ e.cmd.op \in OnQueues \ {"set_features"} => e.cmd.qid # 0
    /\ e.cmd.op = "create_sq" => e.cmd.cqid # 0
    /\ Waiting \in Nat \ {0} /\ admin_q # NIL

LEMMA ReqFacts ==
    ASSUME AdminInv, proc_admin_req
    PROVE  \E e : /\ AtHand(e)
                  /\ \/ e.cmd.op = "set_features" /\ set_features(e.cmd)
                     \/ e.cmd.op = "create_cq" /\ create_cq(e.cmd)
                     \/ e.cmd.op = "create_sq" /\ create_sq(e.cmd)
                     \/ e.cmd.op = "delete_sq" /\ delete_sq(e.cmd)
                     \/ e.cmd.op = "delete_cq" /\ delete_cq(e.cmd)
                     \/ e.cmd.op \notin OnQueues /\ NothingChanges
                  /\ IF e.cmd.op = "abort" THEN UNCHANGED <<acq, admin_q, aposted>> ELSE Answer(e.id)
                  /\ disp' = [disp EXCEPT !.at = Succ(disp.at, old_bar.aqa)] /\ disp'.pc = "admin"
                  /\ disp'.at = Succ(disp.at, old_bar.aqa) /\ disp'.new = disp.new
                  /\ dbs'[0] = dbs[0] /\ old_dbs'[0] = old_dbs[0] /\ DispInv'
                  /\ From' = Succ(From, old_bar.aqa) /\ Waiting' = Waiting - 1
                  /\ Dist(disp'.at, disp'.new, old_bar.aqa) <= Waiting'
                  /\ disp'.at < old_bar.aqa /\ disp'.new < old_bar.aqa
<1> USE DEF AdminInv
<1>1. disp.pc = "admin" /\ disp.at # disp.new /\ UNCHANGED <<bar, old_bar, host, asq>>
    BY DEF proc_admin_req, registers
<1>2. old_bar.asq # 0 /\ admin_q # NIL
    BY <1>1 DEF SubInv, DevInv
<1>3. PICK d \in Nat \ {0} : d = old_bar.aqa
    BY <1>2 DEF DevInv, RegInv
<1>4. /\ admin_q.nvme_sq = old_bar.asq /\ admin_q.sq_depth = d /\ disp.at \in 0 .. d - 1 /\ disp.new \in 0 .. d - 1
      /\ dbs[0] \in 0 .. d - 1 /\ From = disp.at
  <2>1. 0 \in 0 .. NrQueues
    BY AdminAssumption
  <2>2. disp.at \in Nat /\ disp.new \in Nat /\ dbs[0] \in Nat
    BY <2>1 DEF DispInv
  <2>3. From = disp.at
    BY <1>1 DEF From
  <2>4. disp.at < d /\ disp.new < d /\ dbs[0] < d
    BY <1>1, <1>2, <1>3, <2>3 DEF SubInv
  <2> QED
    BY <1>1, <1>2, <1>3, <2>2, <2>3, <2>4 DEF DevInv
<1>5. PICK W \in Nat, k \in Nat : /\ W = Waiting /\ W = Dist(disp.at, dbs[0], d)
                                  /\ k = Dist(disp.at, disp.new, d) /\ k # 0 /\ k <= W /\ W # 0
  <2>1. Waiting = Dist(disp.at, dbs[0], d)
    BY <1>3, <1>4 DEF Waiting
  <2>2. PICK a \in 0 .. d - 1, b \in 0 .. d - 1, c \in 0 .. d - 1 : a = disp.at /\ b = dbs[0] /\ c = disp.new
    BY <1>4
  <2>3. Dist(a, b, d) \in Nat
    BY Ways
  <2>4. Dist(a, c, d) \in Nat /\ Dist(a, c, d) # 0
    <3>1. a # c
      BY <1>1, <2>2
    <3> QED
      BY <3>1, Ways
  <2>5. Dist(a, c, d) <= Dist(a, b, d)
    BY <1>1, <1>2, <1>3, <2>1, <2>2 DEF SubInv
  <2>6. Dist(a, b, d) # 0
    BY <2>3, <2>4, <2>5
  <2> QED
    BY <2>1, <2>2, <2>3, <2>4, <2>5, <2>6
<1>6. PICK e : e = asq[old_bar.asq][disp.at]
    OBVIOUS
<1>7. Pending(e, 0)
  <2>1. 0 \in 0 .. W - 1 /\ At(disp.at, 0, d) = disp.at
    BY <1>4, <1>5, Places
  <2> QED
    BY <1>2, <1>3, <1>4, <1>5, <1>6, <2>1 DEF SubInv
<1>8. AtHand(e)
  <2>1. host.st = "up" => /\ e.id = host.sent - Waiting + 1 /\ e.id \in host.open
                          /\ e.id \in 1 .. Len(Log) /\ e.cmd = Log[e.id]
    <3> SUFFICES ASSUME host.st = "up"
                 PROVE  /\ e.id = host.sent - Waiting + 1 /\ e.id \in host.open
                        /\ e.id \in 1 .. Len(Log) /\ e.cmd = Log[e.id]
      OBVIOUS
    <3>1. e.id = host.sent - Waiting + 1 + 0 /\ e.id \in host.open /\ e.cmd = Log[e.id] /\ e.id \in Nat
      BY <1>7 DEF Pending
    <3>2. host.sent \in 0 .. Len(Log) /\ host.open \subseteq 1 .. host.sent /\ Len(Log) \in Nat
      BY UpFacts
    <3>3. e.id \in 1 .. Len(Log)
      BY <3>1, <3>2
    <3>4. PICK n \in Nat : n = host.sent
      BY <3>2
    <3>5. n - W + 1 + 0 = n - W + 1
      OBVIOUS
    <3> QED
      BY <1>5, <3>1, <3>3, <3>4, <3>5
  <2>2. host.st # "up" => e.cmd.op = "abort"
    BY <1>7 DEF Pending
  <2>3. "abort" \notin OnQueues /\ "create_sq" # "abort"
    BY DEF OnQueues
  <2>4. host.st = "up" => /\ e.cmd.op \in OnQueues \ {"set_features"} => e.cmd.qid # 0
                          /\ e.cmd.op = "create_sq" => e.cmd.cqid # 0
    BY <2>1, BootFacts DEF HostInv
  <2> QED
    BY <1>2, <1>5, <1>6, <1>7, <2>1, <2>2, <2>3, <2>4 DEF AtHand, Pending
<1>9. /\ \/ e.cmd.op = "set_features" /\ set_features(e.cmd)
         \/ e.cmd.op = "create_cq" /\ create_cq(e.cmd)
         \/ e.cmd.op = "create_sq" /\ create_sq(e.cmd)
         \/ e.cmd.op = "delete_sq" /\ delete_sq(e.cmd)
         \/ e.cmd.op = "delete_cq" /\ delete_cq(e.cmd)
         \/ e.cmd.op \notin OnQueues /\ NothingChanges
      /\ IF e.cmd.op = "abort" THEN UNCHANGED <<acq, admin_q, aposted>> ELSE Answer(e.id)
      /\ disp' = [disp EXCEPT !.at = Succ(disp.at, d)]
    BY <1>4, <1>6 DEF proc_admin_req, Succ, OnQueues, get_log_page, identify, get_features
<1>10. /\ disp' \in [pc : {"idle", "cc_shn", "cc_store", "admin", "io"}, q : 0 .. NrQueues, new : Nat, at : Nat] /\ disp'.pc = "admin"
       /\ disp'.at = Succ(disp.at, d) /\ disp'.new = disp.new
  <2>1. Succ(disp.at, d) \in Nat
    BY <1>4 DEF Succ
  <2> QED
    BY <1>1, <1>9, <2>1 DEF DispInv
<1>11. /\ dbs'[0] = dbs[0] /\ old_dbs'[0] = old_dbs[0]
       /\ dbs' \in [0 .. NrQueues -> Nat] /\ old_dbs' \in [0 .. NrQueues -> Nat]
  <2>1. dbs \in [0 .. NrQueues -> Nat] /\ old_dbs \in [0 .. NrQueues -> Nat]
    BY DEF DispInv
  <2>2. \/ dbs' = dbs /\ old_dbs' = old_dbs
        \/ e.cmd.op = "create_sq" /\ create_sq(e.cmd)
    BY <1>9 DEF set_features, create_cq, delete_sq, delete_cq, NothingChanges
  <2>3. CASE e.cmd.op = "create_sq" /\ create_sq(e.cmd)
    <3>1. PICK q : q = e.cmd.qid /\ q # 0
      BY <1>8, <2>3 DEF AtHand, OnQueues
    <3>2. dbs' = [dbs EXCEPT ![q] = 0] /\ old_dbs' = [old_dbs EXCEPT ![q] = 0]
      BY <2>3, <3>1 DEF create_sq
    <3>3. 0 \in 0 .. NrQueues /\ 0 \in Nat
      BY AdminAssumption
    <3>4. dbs'[0] = dbs[0] /\ dbs' \in [0 .. NrQueues -> Nat]
      BY <2>1, <3>1, <3>2, <3>3
    <3>5. old_dbs'[0] = old_dbs[0] /\ old_dbs' \in [0 .. NrQueues -> Nat]
      BY <2>1, <3>1, <3>2, <3>3
    <3> QED
      BY <3>4, <3>5
  <2> QED
    BY <2>1, <2>2, <2>3
<1>12. DispInv'
    BY <1>10, <1>11 DEF DispInv
<1>13. From' = Succ(From, d) /\ Waiting' = W - 1
  <2>1. Dist(Succ(disp.at, d), dbs[0], d) = W - 1
    <3>1. PICK a \in 0 .. d - 1, b \in 0 .. d - 1 : a = disp.at /\ b = dbs[0]
      BY <1>4
    <3>2. a # b
      BY <1>5, <3>1, Ways
    <3>3. Dist(Succ(a, d), b, d) = Dist(a, b, d) - 1
      BY <3>2, Ways
    <3> QED
      BY <1>5, <3>1, <3>3
  <2> QED
    BY <1>1, <1>3, <1>4, <1>10, <1>11, <2>1 DEF From, Waiting
<1>14. Dist(disp'.at, disp'.new, d) = k - 1 /\ disp'.at \in 0 .. d - 1 /\ disp'.new \in 0 .. d - 1
  <2>1. PICK a \in 0 .. d - 1, c \in 0 .. d - 1 : a = disp.at /\ c = disp.new
    BY <1>4
  <2>2. a # c
    BY <1>1, <2>1
  <2>3. Dist(Succ(a, d), c, d) = Dist(a, c, d) - 1 /\ Succ(a, d) \in 0 .. d - 1
    BY <2>2, Ways
  <2> QED
    BY <1>5, <1>10, <2>1, <2>3
<1>15. Dist(disp'.at, disp'.new, d) <= Waiting' /\ disp'.at < d /\ disp'.new < d
    BY <1>5, <1>13, <1>14
<1> QED
    BY <1>3, <1>5, <1>8, <1>9, <1>10, <1>11, <1>12, <1>13, <1>15

\* A command is executed, and answered unless it is an abort.
LEMMA AdminReqKeeps ==
    ASSUME AdminInv, proc_admin_req
    PROVE  AdminInv'
<1> USE DEF AdminInv
<1>1. PICK e : /\ AtHand(e)
               /\ IF e.cmd.op = "abort" THEN UNCHANGED <<acq, admin_q, aposted>> ELSE Answer(e.id)
               /\ disp'.pc = "admin" /\ dbs'[0] = dbs[0] /\ old_dbs'[0] = old_dbs[0] /\ DispInv'
               /\ From' = Succ(From, old_bar.aqa) /\ Waiting' = Waiting - 1
               /\ Dist(disp'.at, disp'.new, old_bar.aqa) <= Waiting'
               /\ disp'.at < old_bar.aqa /\ disp'.new < old_bar.aqa
    BY ReqFacts
<1>2. disp.pc = "admin" /\ UNCHANGED <<bar, old_bar, host, asq>>
    BY DEF proc_admin_req, registers
<1>3. Depth' = Depth /\ Log' = Log /\ (Quiet' <=> Quiet) /\ (Fresh' <=> Fresh) /\ \A r : RegVal(r)' = RegVal(r)
    BY <1>2 DEF Depth, Log, Quiet, Fresh, RegVal
<1>4. HostInv' /\ RegInv'
    BY <1>2, <1>3 DEF HostInv, RegInv, NewRegs
<1>5. PICK d \in Nat \ {0}, W \in Nat \ {0} : d = old_bar.aqa /\ W = Waiting /\ Waiting' = W - 1
    BY <1>1 DEF AtHand, DevInv, RegInv
<1>6. old_bar.asq # 0 /\ ~(Fresh /\ old_bar.asq = host.boot)
    BY <1>2 DEF SubInv, DevInv
<1>7. From \in 0 .. d - 1 /\ dbs[0] < d /\ W \in 0 .. d - 1
  <2>1. 0 \in 0 .. NrQueues
    BY AdminAssumption
  <2>2. From \in Nat /\ dbs[0] \in Nat
    BY <2>1 DEF DispInv, From
  <2>3. From < d /\ dbs[0] < d
    BY <1>5, <1>6 DEF SubInv
  <2>4. From \in 0 .. d - 1 /\ dbs[0] \in 0 .. d - 1
    BY <2>2, <2>3
  <2>5. Dist(From, dbs[0], d) \in 0 .. d - 1
    BY <2>4, Ways
  <2> QED
    BY <1>5, <2>3, <2>4, <2>5 DEF Waiting
<1>8. ASSUME NEW j \in 0 .. W - 2
      PROVE  Pending(asq[old_bar.asq][At(From, j, old_bar.aqa)], j)'
  <2>1. At(Succ(From, d), j, d) = At(From, j + 1, d)
    BY <1>7, Places
  <2>2. j + 1 \in 0 .. W - 1
    OBVIOUS
  <2>3. Pending(asq[old_bar.asq][At(From, j + 1, d)], j + 1)
    BY <1>5, <1>6, <2>2 DEF SubInv
  <2>4. PICK y : y = asq[old_bar.asq][At(From, j + 1, d)]
    OBVIOUS
  <2>5. host.st = "up" => host.sent - W + 1 + (j + 1) = host.sent - (W - 1) + 1 + j
    <3> SUFFICES ASSUME host.st = "up" PROVE host.sent - W + 1 + (j + 1) = host.sent - (W - 1) + 1 + j
      OBVIOUS
    <3>1. host.sent \in Int
      BY UpFacts
    <3> QED
      BY <3>1
  <2>6. Pending(y, j)'
    BY <1>2, <1>3, <1>5, <2>3, <2>4, <2>5 DEF Pending
  <2>7. asq'[old_bar'.asq][At(From', j, old_bar'.aqa)] = y
    BY <1>1, <1>2, <1>5, <2>1, <2>4
  <2> QED
    BY <2>6, <2>7
<1>9. old_bar'.asq # 0 /\ dbs'[0] < old_bar'.aqa /\ From' < old_bar'.aqa
  <2>1. Succ(From, d) < d
    BY <1>7 DEF Succ
  <2> QED
    BY <1>1, <1>2, <1>5, <1>6, <1>7, <2>1
<1>10. \A j \in 0 .. Waiting' - 1 : Pending(asq[old_bar.asq][At(From, j, old_bar.aqa)], j)'
  <2>1. W - 1 - 1 = W - 2
    OBVIOUS
  <2> QED
    BY <1>5, <1>8, <2>1
<1>11. ASSUME host.st = "up" => \A i \in DOMAIN aposted' : aposted'[i] <= host.sent - (W - 1)
       PROVE  SubInv'
  <2>1. old_bar' = old_bar /\ host' = host
    BY <1>2
  <2> HIDE DEF AdminInv
  <2> QED
    BY <1>1, <1>5, <1>9, <1>10, <1>11, <2>1 DEF SubInv
<1>12. CASE e.cmd.op = "abort"
  <2>1. UNCHANGED <<acq, admin_q, aposted>>
    BY <1>1, <1>12
  <2>2. MemInv' /\ AckInv'
    BY <1>2, <1>3, <2>1 DEF MemInv, AckInv
  <2>3. DevInv'
    BY <1>1, <1>2, <1>3, <1>6, <2>1 DEF DevInv, Adopted
  <2>4. host.st = "up" => \A i \in DOMAIN aposted' : aposted'[i] <= host.sent - (W - 1)
    <3> SUFFICES ASSUME host.st = "up", NEW i \in DOMAIN aposted
                 PROVE  aposted[i] <= host.sent - (W - 1)
      BY <2>1
    <3>1. aposted[i] \in Nat /\ host.sent \in Nat
      BY UpFacts DEF AckInv
    <3>2. aposted[i] <= host.sent - W
      BY <1>5 DEF SubInv
    <3> QED
      BY <3>1, <3>2
  <2> QED
    BY <1>1, <1>4, <1>11, <2>2, <2>3, <2>4
<1>13. CASE e.cmd.op # "abort"
  <2>1. host.st = "up" /\ Answer(e.id)
    BY <1>1, <1>13 DEF AtHand
  <2>2. PICK L \in Nat, n \in Nat, b \in Nat : L = Len(aposted) /\ n = host.sent /\ b = host.boot /\ b # 0
    BY <2>1, UpFacts DEF AckInv
  <2>3. old_bar.asq = b /\ old_bar.acq = b /\ d = Depth /\ admin_q.nvme_cq = b /\ admin_q.cq_depth = d /\ d > 1
    BY <1>5, <2>1, <2>2, UpFacts
  <2>4. L + 1 < d
    <3>1. W + L <= Cardinality(host.open) /\ Cardinality(host.open) \in Nat /\ Cardinality(host.open) < d
      BY <1>5, <2>1, <2>2, <2>3, CountOpen, UpFacts
    <3>2. L + 1 <= W + L
      OBVIOUS
    <3> QED
      BY <3>1, <3>2
  <2>5. PICK h, p, ring : h = host.head /\ p = host.phase /\ ring = acq[b]
    OBVIOUS
  <2>6. CqRing(ring, h, p, aposted, d) /\ aposted \in Seq(Nat)
    BY <2>2, <2>3, <2>5 DEF AckInv
  <2>7. h \in 0 .. d - 1 /\ p \in {0, 1}
    BY <2>6 DEF CqRing
  <2>8. PICK x, t : x = At(h, L, d) /\ t = Tag(h, L, p, d)
    OBVIOUS
  <2>9. x \in 0 .. d - 1 /\ t \in {0, 1} /\ admin_q.cq_head = x /\ admin_q.phase = t
    <3>1. L \in 0 .. d - 1
      BY <2>4
    <3>2. x \in 0 .. d - 1 /\ t \in {0, 1}
      BY <2>7, <2>8, <3>1, Places, NextTag
    <3> QED
      BY <2>1, <2>2, <2>3, <2>5, <2>8, <3>2 DEF DevInv
  <2>10. PICK y : y = [id |-> e.id, phase |-> t]
    OBVIOUS
  <2>11. PICK new : new = [ring EXCEPT ![x] = y]
    OBVIOUS
  <2>12. /\ acq' = [acq EXCEPT ![b] = new]
         /\ admin_q' = [admin_q EXCEPT !.cq_head = Succ(x, d),
                                       !.phase = IF x + 1 = d THEN 1 - t ELSE t]
         /\ aposted' = Append(aposted, e.id)
    BY <2>1, <2>3, <2>5, <2>9, <2>10, <2>11 DEF Answer, make_cq_entry, Succ
  <2>13. e.id \in Nat /\ e.id = n - W + 1 /\ e.id \in host.open /\ Log[e.id].op # "abort"
    BY <1>1, <1>5, <1>13, <2>1, <2>2 DEF AtHand
  <2>14. PICK a : a = Append(aposted, e.id)
    OBVIOUS
  <2>15. CqRing(new, h, p, a, d)
    BY <2>2, <2>4, <2>6, <2>8, <2>10, <2>11, <2>13, <2>14, PostRing
  <2>16. b \in DOMAIN acq /\ DOMAIN acq = 1 .. b
    <3>1. PICK S : acq \in Seq(S)
      BY DEF MemInv, IsSeq
    <3> QED
      BY <2>2, <3>1 DEF MemInv
  <2>17. MemInv'
    <3>1. IsSeq(acq) /\ Len(acq) = b
      BY <2>2 DEF MemInv
    <3>2. IsSeq(acq') /\ Len(acq') = b
      BY <2>12, <2>16, <3>1, Replaced
    <3> QED
      BY <1>2, <2>2, <3>2 DEF MemInv
  <2>18. a \in Seq(Nat) /\ Len(a) = L + 1 /\ DOMAIN a = 1 .. L + 1 /\ a[L + 1] = e.id /\ \A i \in 1 .. L : a[i] = aposted[i]
    BY <2>2, <2>6, <2>13, <2>14
  <2>19. \A i \in 1 .. L : aposted[i] \in Nat /\ aposted[i] \in host.open /\ aposted[i] <= n - W /\ Log[aposted[i]].op # "abort"
    <3>1. DOMAIN aposted = 1 .. L /\ \A i \in 1 .. L : aposted[i] \in Nat
      BY <2>2, <2>6
    <3>2. \A i \in DOMAIN aposted : aposted[i] \in host.open /\ Log[aposted[i]].op # "abort"
      BY DEF AckInv
    <3>3. \A i \in DOMAIN aposted : aposted[i] <= n - W
      BY <1>5, <2>1, <2>2 DEF SubInv
    <3> QED
      BY <3>1, <3>2, <3>3
  <2>20. AckInv'
    <3>1. \A i \in DOMAIN a : a[i] \in host.open /\ Log[a[i]].op # "abort"
      BY <2>13, <2>18, <2>19
    <3>2. \A i, j \in 1 .. L : i < j => aposted[i] < aposted[j]
      <4>1. DOMAIN aposted = 1 .. L
        BY <2>2, <2>6
      <4>2. \A i, j \in DOMAIN aposted : i < j => aposted[i] < aposted[j]
        BY DEF AckInv
      <4> QED
        BY <4>1, <4>2
    <3>3. \A i, j \in DOMAIN a : i < j => a[i] < a[j]
      <4> SUFFICES ASSUME NEW i \in 1 .. L + 1, NEW j \in 1 .. L + 1, i < j
                   PROVE  a[i] < a[j]
        BY <2>18
      <4>1. i \in 1 .. L /\ a[i] = aposted[i]
        BY <2>18
      <4>2. CASE j = L + 1
        BY <2>13, <2>18, <2>19, <4>1, <4>2
      <4>3. CASE j \in 1 .. L
        BY <2>18, <3>2, <4>1, <4>3
      <4> QED
        BY <4>2, <4>3
    <3>4. CqRing(acq'[host'.boot], host'.head, host'.phase, a, Depth')
      BY <1>2, <1>3, <2>2, <2>3, <2>5, <2>12, <2>15, <2>16
    <3>5. aposted' = a /\ host' = host /\ Log' = Log /\ host'.boot # 0
      BY <1>2, <1>3, <2>2, <2>12, <2>14
    <3> HIDE DEF AdminInv
    <3> QED
      BY <2>18, <3>1, <3>3, <3>4, <3>5 DEF AckInv
  <2>21. DevInv'
    <3>1. L \in 0 .. d - 2
      BY <2>4
    <3>2. At(h, L + 1, d) = Succ(x, d) /\ Tag(h, L + 1, p, d) = IF x + 1 = d THEN 1 - t ELSE t
      <4>1. At(h, L + 1, d) = Succ(At(h, L, d), d)
        BY <2>7, <3>1, Places
      <4>2. Tag(h, L + 1, p, d) = IF At(h, L, d) + 1 = d THEN 1 - Tag(h, L, p, d) ELSE Tag(h, L, p, d)
        BY <2>7, <3>1, NextTag
      <4> QED
        BY <2>8, <4>1, <4>2
    <3>3. PICK c, u : c = Succ(x, d) /\ u = IF x + 1 = d THEN 1 - t ELSE t
      OBVIOUS
    <3>4. c \in Nat /\ u \in {0, 1}
      BY <2>9, <3>3 DEF Succ
    <3>5. admin_q \in AdminQs
      BY <2>1, UpFacts
    <3>6. admin_q' = [admin_q EXCEPT !.cq_head = c, !.phase = u]
      BY <2>12, <3>3
    <3>7. /\ admin_q' \in AdminQs /\ admin_q'.cq_head = c /\ admin_q'.phase = u
          /\ admin_q'.nvme_sq = admin_q.nvme_sq /\ admin_q'.nvme_cq = admin_q.nvme_cq
          /\ admin_q'.sq_depth = admin_q.sq_depth /\ admin_q'.cq_depth = admin_q.cq_depth
      BY <3>4, <3>5, <3>6 DEF AdminQs
    <3>8. admin_q' # NIL /\ admin_q # NIL
      BY <3>5, <3>7, NilFacts
    <3>9. Len(aposted') = L + 1
      BY <2>12, <2>14, <2>18
    <3>10. /\ admin_q'.cq_head = At(host'.head, Len(aposted'), Depth')
           /\ admin_q'.phase = Tag(host'.head, Len(aposted'), host'.phase, Depth')
      BY <1>2, <1>3, <2>3, <2>5, <3>2, <3>3, <3>7, <3>9
    <3>11. host'.st = "up" /\ ~Fresh' /\ dbs'[0] = host'.tail /\ Adopted' /\ old_bar'.aqa # 0
      BY <1>1, <1>2, <1>3, <1>5, <2>1, <3>8 DEF DevInv, Fresh, Adopted
    <3>12. /\ admin_q'.nvme_sq = old_bar'.asq /\ admin_q'.nvme_cq = old_bar'.acq
           /\ admin_q'.sq_depth = old_bar'.aqa /\ admin_q'.cq_depth = old_bar'.aqa
      BY <1>2, <2>1, <3>7, <3>8 DEF DevInv, Fresh, Adopted, RingRegs
    <3> HIDE DEF AdminInv
    <3> QED
      BY <3>7, <3>8, <3>10, <3>11, <3>12 DEF DevInv
  <2>22. \A i \in DOMAIN aposted' : aposted'[i] <= host.sent - (W - 1)
    <3>1. \A i \in 1 .. L + 1 : a[i] <= n - (W - 1)
      BY <2>13, <2>18, <2>19
    <3> QED
      BY <2>2, <2>12, <2>14, <2>18, <3>1
  <2> QED
    BY <1>1, <1>4, <1>11, <2>17, <2>20, <2>21, <2>22
<1> QED
    BY <1>12, <1>13

-----------------------------------------------------------------------------
(* The steps of the I/O queues leave the admin queue alone. *)

\* What changes of the host's side of the rings.
RingsAre(t, h, p) == /\ rings' = [tail |-> t, head |-> h, phase |-> p]
                     /\ rings'.tail = t /\ rings'.head = h /\ rings'.phase = p

LEMMA RingsFields ==
    ASSUME RingInv, NEW q, NEW a, NEW b
    PROVE  /\ rings' = [rings EXCEPT !.tail[q] = a] =>
                RingsAre([rings.tail EXCEPT ![q] = a], rings.head, rings.phase)
           /\ rings' = [rings EXCEPT !.head[q] = a, !.phase[q] = b] =>
                RingsAre(rings.tail, [rings.head EXCEPT ![q] = a], [rings.phase EXCEPT ![q] = b])
<1>1. PICK t, h, p : t = rings.tail /\ h = rings.head /\ p = rings.phase
    OBVIOUS
<1>2. rings = [tail |-> t, head |-> h, phase |-> p]
    BY <1>1 DEF RingInv
<1>3. [rings EXCEPT !.tail[q] = a] = [tail |-> [t EXCEPT ![q] = a], head |-> h, phase |-> p]
    BY <1>2
<1>4. [rings EXCEPT !.head[q] = a, !.phase[q] = b] =
        [tail |-> t, head |-> [h EXCEPT ![q] = a], phase |-> [p EXCEPT ![q] = b]]
  <2>1. PICK u : u = [tail |-> t, head |-> [h EXCEPT ![q] = a], phase |-> p]
    OBVIOUS
  <2>2. u = [rings EXCEPT !.head[q] = a]
    BY <1>2, <2>1
  <2>3. [u EXCEPT !.phase[q] = b] = [tail |-> t, head |-> [h EXCEPT ![q] = a], phase |-> [p EXCEPT ![q] = b]]
    BY <2>1
  <2>4. [rings EXCEPT !.head[q] = a, !.phase[q] = b] = [u EXCEPT !.phase[q] = b]
    BY <1>2, <2>2
  <2> QED
    BY <2>3, <2>4
<1> QED
    BY <1>1, <1>3, <1>4 DEF RingsAre

LEMMA HostTakeRings ==
    ASSUME RingInv, NEW c, HostTake(c)
    PROVE  RingsAre(rings.tail,
                    [rings.head EXCEPT ![c] = (@ + Len(HostFinds(c))) % CqSize],
                    [rings.phase EXCEPT ![c] = IF rings.head[c] + Len(HostFinds(c)) >= CqSize THEN 1 - @ ELSE @])
<1>1. PICK n : n = Len(HostFinds(c))
    OBVIOUS
<1>2. PICK t, h, p : t = rings.tail /\ h = rings.head /\ p = rings.phase
    OBVIOUS
<1>3. rings = [tail |-> t, head |-> h, phase |-> p]
    BY <1>2 DEF RingInv
<1>4. rings' = [rings EXCEPT !.head[c] = (@ + n) % CqSize,
                             !.phase[c] = IF h[c] + n >= CqSize THEN 1 - @ ELSE @]
    BY <1>1, <1>2 DEF HostTake
<1>5. rings' = [tail |-> t, head |-> [h EXCEPT ![c] = (@ + n) % CqSize],
                phase |-> [p EXCEPT ![c] = IF h[c] + n >= CqSize THEN 1 - @ ELSE @]]
    BY <1>3, <1>4
<1> QED
    BY <1>1, <1>2, <1>5 DEF RingsAre

LEMMA RingStep ==
    ASSUME RingInv, [Next]_vars
    PROVE  RingInv'
<1>1. CASE UNCHANGED rings
    BY <1>1 DEF RingInv
<1>2. CASE \E q \in Queues, a \in 0 .. SqSize - 1 : rings' = [rings EXCEPT !.tail[q] = a]
  <2>1. PICK q \in Queues, a \in 0 .. SqSize - 1 : rings' = [rings EXCEPT !.tail[q] = a]
    BY <1>2
  <2>2. RingsAre([rings.tail EXCEPT ![q] = a], rings.head, rings.phase)
    BY <2>1, RingsFields
  <2> QED
    BY <2>2 DEF RingInv, RingsAre
<1>3. CASE \E q, a, b : rings' = [rings EXCEPT !.head[q] = a, !.phase[q] = b]
  <2>1. PICK q, a, b : rings' = [rings EXCEPT !.head[q] = a, !.phase[q] = b]
    BY <1>3
  <2>2. RingsAre(rings.tail, [rings.head EXCEPT ![q] = a], [rings.phase EXCEPT ![q] = b])
    BY <2>1, RingsFields
  <2> QED
    BY <2>2 DEF RingInv, RingsAre
<1>4. CASE \E c : HostTake(c)
  <2>1. PICK c : HostTake(c)
    BY <1>4
  <2>2. rings'.tail = rings.tail /\ rings' = [tail |-> rings'.tail, head |-> rings'.head, phase |-> rings'.phase]
    BY <2>1, HostTakeRings DEF RingsAre
  <2> QED
    BY <2>2 DEF RingInv
<1>5. SqSize \in Nat \ {0, 1}
    BY AdminAssumption
<1>6. CASE Host
  <2>1. CASE \E i \in Ios, q \in Queues : HostSubmit(i, q)
    <3>1. PICK i \in Ios, q \in Queues : HostSubmit(i, q)
      BY <2>1
    <3>2. PICK a : a = (rings.tail[q] + 1) % SqSize
      OBVIOUS
    <3>3. a \in 0 .. SqSize - 1
      <4>1. rings.tail[q] \in 0 .. SqSize - 1
        BY DEF RingInv
      <4>2. PICK x \in Nat : x = rings.tail[q]
        BY <4>1
      <4> QED
        BY <1>5, <3>2, <4>2
    <3>4. rings' = [rings EXCEPT !.tail[q] = a]
      BY <3>1, <3>2 DEF HostSubmit
    <3> QED
      BY <1>2, <3>3, <3>4
  <2>2. CASE \E cmd : HostSend(cmd) /\ cmd = Log[host.sent + 1]
    <3>1. PICK cmd : HostSend(cmd) /\ cmd = Log[host.sent + 1]
      BY <2>2
    <3>2. CASE cmd.op = "create_cq"
      <4>1. PICK q : q = cmd.qid
        OBVIOUS
      <4>2. rings' = [rings EXCEPT !.head[q] = 0, !.phase[q] = 1]
        BY <3>1, <3>2, <4>1 DEF HostSend
      <4> QED
        BY <1>3, <4>2
    <3>3. CASE cmd.op = "create_sq"
      <4>1. PICK q, t : q = cmd.qid /\ t = rings.tail
        OBVIOUS
      <4>2. rings' = [rings EXCEPT !.tail[q] = 0]
        BY <3>1, <3>3, <4>1 DEF HostSend
      <4>3. RingsAre([t EXCEPT ![q] = 0], rings.head, rings.phase)
        BY <4>1, <4>2, RingsFields
      <4>4. [t EXCEPT ![q] = 0] \in [Queues -> 0 .. SqSize - 1]
        <5>1. 0 \in 0 .. SqSize - 1 /\ t \in [Queues -> 0 .. SqSize - 1]
          BY <1>5, <4>1 DEF RingInv
        <5> QED
          BY <5>1
      <4> QED
        BY <4>3, <4>4 DEF RingInv, RingsAre
    <3> QED
      BY <1>1, <3>1, <3>2, <3>3 DEF HostSend
  <2> QED
    BY <1>1, <1>6, <2>1, <2>2 DEF Host, ioVars
<1>7. CASE HostAnswers
    BY <1>1, <1>4, <1>7 DEF HostAnswers, ioVars, HostIrq, HostPoll
<1>8. CASE Dispatcher
    BY <1>1, <1>8 DEF Dispatcher, ioVars, Doorbell, Accept, Refuse, SqDone, LeaveSq
<1>9. CASE \E w \in Workers : Worker(w)
    BY <1>1, <1>9 DEF Worker, PostEntry, FinishEntry, RaiseIrq
<1> QED
    BY <1>1, <1>6, <1>7, <1>8, <1>9 DEF Next, vars, ioVars

LEMMA IoStepKeeps ==
    ASSUME AdminInv, RingInv,
           \/ \E i \in Ios, q \in Queues : HostSubmit(i, q)
           \/ \E c \in Queues : HostIrq(c) \/ HostPoll(c)
           \/ (\E q \in Queues : Doorbell(q)) \/ Accept \/ Refuse \/ SqDone
           \/ \E w \in Workers : Worker(w)
    PROVE  AdminInv' /\ AdminRests
<1>1. DispInv
    BY DEF AdminInv
<1>2. 0 \in 0 .. NrQueues /\ Queues \subseteq 0 .. NrQueues /\ 0 \notin Queues /\ NrQueues \in Nat
    BY AdminAssumption DEF Queues
<1>3. ASSUME \/ \E c \in Queues : HostIrq(c) \/ HostPoll(c)
             \/ \E w \in Workers : Worker(w)
      PROVE  AdminInv' /\ AdminRests
  <2>1. UNCHANGED <<bar, old_bar, admin_q, asq, acq, host, aposted, dbs, old_dbs, disp>>
    BY <1>3 DEF HostIrq, HostPoll, adminVars, registers, Worker, PostEntry, FinishEntry, RaiseIrq
  <2>2. DispInv'
    BY <1>1, <2>1 DEF DispInv
  <2> QED
    BY <2>1, <2>2, AdminFrame
<1>4. ASSUME NEW i \in Ios, NEW q \in Queues, HostSubmit(i, q)
      PROVE  AdminInv' /\ AdminRests
  <2>1. UNCHANGED <<bar, old_bar, admin_q, asq, acq, host, aposted, old_dbs, disp>>
    BY <1>4 DEF HostSubmit, registers
  <2>2. PICK a : a = (rings.tail[q] + 1) % SqSize
    OBVIOUS
  <2>3. dbs' = [dbs EXCEPT ![q] = a]
    BY <1>4, <2>2 DEF HostSubmit
  <2>4. a \in Nat
    <3>1. rings.tail[q] \in 0 .. SqSize - 1 /\ SqSize \in Nat \ {0, 1}
      BY AdminAssumption DEF RingInv
    <3>2. PICK x \in Nat : x = rings.tail[q]
      BY <3>1
    <3> QED
      BY <2>2, <3>1, <3>2
  <2>5. dbs \in [0 .. NrQueues -> Nat]
    BY <1>1 DEF DispInv
  <2>6. dbs' \in [0 .. NrQueues -> Nat] /\ dbs'[0] = dbs[0]
    BY <1>2, <2>3, <2>4, <2>5
  <2>7. DispInv'
    BY <1>1, <2>1, <2>6 DEF DispInv
  <2> QED
    BY <2>1, <2>6, <2>7, AdminFrame
<1>5. ASSUME NEW q \in Queues, Doorbell(q)
      PROVE  AdminInv' /\ AdminRests
  <2>1. UNCHANGED <<bar, old_bar, admin_q, asq, acq, host, aposted, dbs, old_dbs>>
    BY <1>5 DEF Doorbell, registers
  <2>2. disp.pc = "idle" /\ disp' = [pc |-> "io", q |-> q, new |-> dbs[q], at |-> old_dbs[q]]
    BY <1>5 DEF Doorbell, Idle
  <2>3. dbs[q] \in Nat /\ old_dbs[q] \in Nat /\ q # 0 /\ q \in 0 .. NrQueues
    BY <1>1, <1>2 DEF DispInv
  <2>4. DispInv'
    BY <1>1, <2>1, <2>2, <2>3 DEF DispInv
  <2>5. disp.pc # "admin" /\ disp'.pc # "admin"
    BY <2>2
  <2> QED
    BY <2>1, <2>4, <2>5, AdminFrame
<1>6. ASSUME Accept
      PROVE  AdminInv' /\ AdminRests
  <2>1. UNCHANGED <<bar, old_bar, admin_q, asq, acq, host, aposted, dbs, old_dbs>>
    BY <1>6 DEF Accept, registers
  <2>2. PICK z : disp.pc = "io" /\ disp' = [disp EXCEPT !.at = IF @ + 1 = z THEN 0 ELSE @ + 1]
    BY <1>6 DEF Accept
  <2>3. PICK a \in Nat : disp' = [disp EXCEPT !.at = a]
    <3>1. disp.at \in Nat
      BY <1>1 DEF DispInv
    <3> QED
      BY <2>2, <3>1
  <2>4. DispInv' /\ disp'.pc = "io"
    BY <1>1, <2>1, <2>2, <2>3 DEF DispInv
  <2>5. disp.pc # "admin" /\ disp'.pc # "admin"
    BY <2>2, <2>4
  <2> QED
    BY <2>1, <2>4, <2>5, AdminFrame
<1>7. ASSUME LeaveSq
      PROVE  AdminInv' /\ AdminRests
  <2>1. UNCHANGED <<bar, old_bar, admin_q, asq, acq, host, aposted, dbs>>
    BY <1>7 DEF LeaveSq, registers
  <2>2. /\ disp.pc = "io" /\ disp' = [pc |-> "idle", q |-> 0, new |-> 0, at |-> 0]
        /\ old_dbs' = [old_dbs EXCEPT ![disp.q] = disp.at]
    BY <1>7 DEF LeaveSq, LatestDb
  <2>3. PICK q, a \in Nat : q = disp.q /\ a = disp.at /\ q # 0
    BY <1>1, <2>2 DEF DispInv
  <2>4. old_dbs' \in [0 .. NrQueues -> Nat] /\ old_dbs'[0] = old_dbs[0]
    BY <1>1, <1>2, <2>2, <2>3 DEF DispInv
  <2>5. DispInv'
    BY <1>1, <1>2, <2>1, <2>2, <2>4 DEF DispInv
  <2>6. disp.pc # "admin" /\ disp'.pc # "admin"
    BY <2>2
  <2> QED
    BY <2>1, <2>4, <2>5, <2>6, AdminFrame
<1> QED
    BY <1>3, <1>4, <1>5, <1>6, <1>7 DEF Refuse, SqDone

\* Every step keeps the invariant of the admin queue.
LEMMA AdminStep ==
    ASSUME AdminInv, RingInv, [Next]_vars
    PROVE  AdminInv'
<1>1. CASE UNCHANGED vars
  <2>1. UNCHANGED <<bar, old_bar, admin_q, asq, acq, host, aposted, dbs, old_dbs, disp>>
    BY <1>1 DEF vars, adminVars
  <2>2. DispInv'
    BY <2>1 DEF AdminInv, DispInv
  <2> QED
    BY <2>1, <2>2, AdminFrame
<1>2. CASE Host
  <2>1. ASSUME \E r \in {"aqa", "asq", "acq"} : HostRingRegister(r)
        PROVE  AdminInv'
    BY <2>1, HostRingRegisterKeeps DEF RingRegs
  <2>2. ASSUME HostSend(Log[host.sent + 1])
        PROVE  AdminInv'
    BY <2>2, HostAdminKeeps DEF HostSend
  <2> QED
    BY <1>2, <2>1, <2>2, HostStartKeeps, HostEnableKeeps, HostReadyKeeps, HostLeavesKeeps,
       HostWaitsKeeps, IoStepKeeps DEF Host
<1>3. CASE HostAnswers
    BY <1>3, HostAdminIrqKeeps, IoStepKeeps DEF HostAnswers
<1>4. CASE Dispatcher
  <2>1. ASSUME proc_bars
        PROVE  AdminInv'
    BY <2>1, ProcAqaKeeps, ProcAsqKeeps, ProcAcqKeeps, CcEnableKeeps, CcShutdownKeeps,
       CcStoreKeeps DEF proc_bars
  <2> QED
    BY <1>4, <2>1, AdminDoorbellKeeps, AdminReqKeeps, AdminBatchDoneKeeps, IoStepKeeps DEF Dispatcher
<1>5. CASE \E w \in Workers : Worker(w)
    BY <1>5, IoStepKeeps
<1> QED
    BY <1>1, <1>2, <1>3, <1>4, <1>5 DEF Next

\* The commands that the dispatcher has passed have their answer in the ring.
Answered ==
    host.st = "up" =>
        \A i \in host.open : i <= host.sent - Waiting /\ Log[i].op # "abort" =>
            \E k \in DOMAIN aposted : aposted[k] = i

LEMMA RestAnswered ==
    ASSUME Answered, AdminRests
    PROVE  Answered'
<1>1. Log' = Log /\ host' = host /\ aposted' = aposted /\ Waiting' = Waiting
    BY DEF AdminRests, Log
<1> QED
    BY <1>1 DEF Answered

LEMMA HostAdminAnswered ==
    ASSUME AdminInv, Answered, NEW cmd, HostAdmin(cmd)
    PROVE  Answered'
<1>1. /\ host.st = "up" /\ aposted' = aposted /\ Log' = Log
      /\ host'.open = host.open \cup {host.sent + 1} /\ host'.sent - Waiting' = host.sent - Waiting
    BY HostAdminKeeps
<1>2. PICK n \in Nat, W \in Nat : n = host.sent /\ W = Waiting
    BY <1>1, UpFacts
<1>3. ~(n + 1 <= n - W)
    OBVIOUS
<1> QED
    BY <1>1, <1>2, <1>3 DEF Answered

LEMMA AdminIrqAnswered ==
    ASSUME AdminInv, Answered, HostAdminIrq
    PROVE  Answered'
<1>1. PICK h : /\ Taken(h)
               /\ host' = h \/ \E k \in DOMAIN aposted : host' = HostView(h, Log[aposted[k]])
    BY IrqFacts
<1>2. /\ host'.st = host.st /\ host'.plan = host.plan /\ host'.boot = host.boot
      /\ host'.sent = host.sent /\ host'.open = host.open \ {aposted[i] : i \in DOMAIN aposted}
  <2>1. \A f \in HostFields \ {"granted", "cq", "sq"} : host'[f] = h[f]
    BY <1>1, ViewFields DEF Taken
  <2> QED
    BY <1>1, <2>1 DEF Taken, HostFields
<1>3. Log' = Log /\ Waiting' = Waiting
  <2>1. UNCHANGED <<old_bar, dbs, old_dbs, disp>>
    BY DEF HostAdminIrq, registers
  <2> QED
    BY <1>2, <2>1 DEF Log, Waiting, From
<1> QED
    BY <1>2, <1>3 DEF Answered

LEMMA AdminReqAnswered ==
    ASSUME AdminInv, Answered, proc_admin_req
    PROVE  Answered'
<1>1. PICK e : /\ AtHand(e) /\ Waiting' = Waiting - 1
               /\ IF e.cmd.op = "abort" THEN UNCHANGED <<acq, admin_q, aposted>> ELSE Answer(e.id)
    BY ReqFacts
<1>2. host' = host /\ Log' = Log
    BY DEF proc_admin_req, Log
<1> SUFFICES ASSUME host.st = "up"
             PROVE  \A i \in host.open : i <= host.sent - Waiting' /\ Log[i].op # "abort" =>
                        \E k \in DOMAIN aposted' : aposted'[k] = i
    BY <1>2 DEF Answered
<1>3. PICK n \in Nat, W \in Nat : n = host.sent /\ W = Waiting
    BY UpFacts
<1>4. e.id = n - W + 1 /\ e.cmd = Log[e.id] /\ host.open \subseteq Nat
    BY <1>1, <1>3, UpFacts DEF AtHand
<1> SUFFICES ASSUME NEW i \in host.open, i <= n - (W - 1), Log[i].op # "abort"
             PROVE  \E k \in DOMAIN aposted' : aposted'[k] = i
    BY <1>1, <1>3
<1>5. i = e.id \/ i <= n - W
    BY <1>4
<1>6. aposted \in Seq(Nat) /\ e.id \in Nat
    BY <1>1 DEF AdminInv, AckInv, AtHand
<1>7. CASE e.cmd.op = "abort"
    BY <1>1, <1>3, <1>4, <1>5, <1>7 DEF Answered
<1>8. CASE e.cmd.op # "abort"
  <2>1. aposted' = Append(aposted, e.id)
    BY <1>1, <1>8 DEF Answer
  <2>2. PICK L \in Nat : L = Len(aposted) /\ DOMAIN aposted = 1 .. L
    BY <1>6
  <2>3. DOMAIN aposted' = 1 .. L + 1 /\ aposted'[L + 1] = e.id /\ \A k \in 1 .. L : aposted'[k] = aposted[k]
    BY <1>6, <2>1, <2>2
  <2>4. CASE i = e.id
    BY <2>3, <2>4
  <2>5. CASE i <= n - W
    <3>1. PICK k \in 1 .. L : aposted[k] = i
      BY <1>3, <2>2, <2>5 DEF Answered
    <3> QED
      BY <2>3, <3>1
  <2> QED
    BY <1>5, <2>4, <2>5
<1> QED
    BY <1>7, <1>8

LEMMA AnsweredStep ==
    ASSUME AdminInv, RingInv, Answered, [Next]_vars
    PROVE  Answered'
<1>1. CASE host'.st # "up"
    BY <1>1 DEF Answered
<1>2. CASE AdminRests
    BY <1>2, RestAnswered
<1>3. CASE UNCHANGED vars
  <2>1. AdminRests
    BY <1>3 DEF vars, adminVars, AdminRests, Waiting, From
  <2> QED
    BY <1>2, <2>1
<1>4. ASSUME NEW to, to # "up", host' = [host EXCEPT !.st = to]
      PROVE  Answered'
  <2>1. HostInv
    BY DEF AdminInv
  <2>2. host'.st = to
    BY <1>4, <2>1, StFields DEF StOnly
  <2> QED
    BY <1>1, <1>4, <2>2
<1>5. CASE Host
  <2>1. ASSUME HostStart
        PROVE  Answered'
    <3>1. host = [f \in HostFields |-> host[f]]
      BY DEF AdminInv, HostInv
    <3>2. host'.st = "regs"
      BY <2>1, <3>1 DEF HostStart, HostFields
    <3> QED
      BY <1>1, <3>2
  <2>2. ASSUME NEW r, HostRingRegister(r)
        PROVE  Answered'
    <3>1. host = [f \in HostFields |-> host[f]]
      BY DEF AdminInv, HostInv
    <3>2. host'.st = "regs"
      BY <2>2, <3>1 DEF HostRingRegister, HostFields
    <3> QED
      BY <1>1, <3>2
  <2>3. ASSUME HostEnable \/ HostShutdown \/ HostShut \/ HostDisable \/ HostDisabled
        PROVE  Answered'
    BY <1>4, <2>3 DEF HostEnable, HostShutdown, HostShut, HostDisable, HostDisabled, HostCc, HostWait
  <2>4. ASSUME HostReady
        PROVE  Answered'
    <3>1. host.st = "enabling" /\ host' = [host EXCEPT !.st = "up"]
      BY <2>4 DEF HostReady, HostWait
    <3>2. host'.open = host.open
      BY <3>1, StFields DEF AdminInv, StOnly
    <3>3. host.sent = 0 /\ host.open \subseteq 1 .. host.sent
      BY <3>1 DEF AdminInv, HostInv, Fresh
    <3>4. host'.open = {}
      BY <3>2, <3>3
    <3> QED
      BY <3>4 DEF Answered
  <2>5. ASSUME HostSend(Log[host.sent + 1])
        PROVE  Answered'
    BY <2>5, HostAdminAnswered DEF HostSend
  <2>6. ASSUME \E i \in Ios, q \in Queues : HostSubmit(i, q)
        PROVE  Answered'
    BY <1>2, <2>6, IoStepKeeps
  <2> QED
    BY <1>5, <2>1, <2>2, <2>3, <2>4, <2>5, <2>6 DEF Host
<1>6. CASE HostAnswers
    BY <1>2, <1>6, AdminIrqAnswered, IoStepKeeps DEF HostAnswers
<1>7. CASE Dispatcher
  <2>1. ASSUME ProcAqa \/ ProcAsq \/ ProcAcq
        PROVE  Answered'
    <3>1. host' = host /\ ~Adopted
      BY <2>1 DEF ProcAqa, ProcAsq, ProcAcq, Changed, Adopted, RingRegs
    <3>2. host'.st # "up"
      BY <3>1 DEF AdminInv, DevInv
    <3> QED
      BY <1>1, <3>2
  <2>2. ASSUME CcEnable \/ CcShutdown \/ CcStore
        PROVE  Answered'
    BY <1>1, <1>2, <2>2, CcEnableKeeps, CcShutdownKeeps, CcStoreKeeps
  <2>3. ASSUME AdminDoorbell \/ AdminBatchDone
        PROVE  Answered'
    BY <1>2, <2>3, AdminDoorbellKeeps, AdminBatchDoneKeeps
  <2> QED
    BY <1>2, <1>7, <2>1, <2>2, <2>3, AdminReqAnswered, IoStepKeeps DEF Dispatcher, proc_bars
<1>8. CASE \E w \in Workers : Worker(w)
    BY <1>2, <1>8, IoStepKeeps
<1> QED
    BY <1>3, <1>5, <1>6, <1>7, <1>8 DEF Next

LEMMA InitRings ==
    ASSUME Init
    PROVE  RingInv
<1>1. SqSize \in Nat \ {0, 1}
    BY AdminAssumption
<1> QED
    BY <1>1 DEF Init, RingInv

-----------------------------------------------------------------------------
(* Theorems. *)

\* The invariant of the admin queue: registers, rings, doorbell and answers.
THEOREM AdminInvariant == Spec => [](AdminInv /\ RingInv /\ Answered)
<1>1. Init => AdminInv /\ RingInv /\ Answered
  <2>1. Init => host.st # "up"
    BY DEF Init, AInit
  <2> QED
    BY <2>1, InitAdmin, InitRings DEF Init, Answered
<1>2. AdminInv /\ RingInv /\ Answered /\ [Next]_vars => (AdminInv /\ RingInv /\ Answered)'
    BY AdminStep, RingStep, AnsweredStep
<1> QED
    BY <1>1, <1>2, PTL DEF Spec

\* The commands that wait for the dispatcher, as the doorbell and what it
\* remembers of it tell, are the last ones sent.
LEMMA AdminOwedIs ==
    ASSUME AdminInv, host.st = "up"
    PROVE  Len(AdminOwed) = Waiting /\ AdminOwed = [k \in 1 .. Waiting |-> host.sent - Waiting + k]
<1>0. PICK d \in Nat \ {0} : d = Depth
    BY UpFacts
<1>1. PICK f \in 0 .. d - 1, b \in 0 .. d - 1, W \in 0 .. d - 1, n \in Nat :
         /\ d = Depth /\ f = From /\ b = dbs[0] /\ W = Waiting /\ W = Dist(f, b, d) /\ n = host.sent
         /\ old_bar.asq = host.boot /\ host.boot # 0 /\ old_bar.aqa = d
    BY <1>0, UpFacts
<1>2. (b - f + d) % d = W
    BY <1>1, Gap
<1>3. AdminOwed = [k \in 1 .. W |-> asq[host.boot][(f + k - 1) % d].id]
  <2>1. f = IF disp.pc = "admin" THEN disp.at ELSE old_dbs[0]
    BY <1>1 DEF From
  <2> QED
    BY <1>1, <1>2, <2>1 DEF AdminOwed
<1>4. ASSUME NEW k \in 1 .. W
      PROVE  asq[host.boot][(f + k - 1) % d].id = n - W + k
  <2>1. PICK j \in 0 .. W - 1 : j = k - 1 /\ j \in 0 .. d - 1 /\ f + k - 1 = f + j
    OBVIOUS
  <2>2. (f + k - 1) % d = At(f, j, d)
    BY <2>1, Modulo
  <2>3. Pending(asq[host.boot][At(f, j, d)], j)
    BY <1>1, <2>1 DEF AdminInv, SubInv
  <2>4. asq[host.boot][At(f, j, d)].id = n - W + 1 + j
    BY <1>1, <2>3 DEF Pending
  <2> QED
    BY <2>1, <2>2, <2>4
<1>5. AdminOwed = [k \in 1 .. W |-> n - W + k]
    BY <1>3, <1>4
<1>6. Len(AdminOwed) = W
    BY <1>5
<1> QED
    BY <1>1, <1>5, <1>6

\* Once the host has seen csts.rdy the device uses the host's rings, at their
\* size, and goes on where the host looks, with the phase it looks for; it has
\* forgotten no doorbell and answered what it has passed: in whatever order the
\* three ring registers became visible to nvmev_proc_bars, and whatever an
\* earlier start left in the admin queue.
THEOREM ReadyIsUsable == Spec => []ReadyMeansUsable
<1>1. ASSUME AdminInv, Answered, host.st = "up"
      PROVE  ReadyMeansUsable
  <2>0. PICK d \in Nat \ {0} : d = Depth
    BY <1>1, UpFacts
  <2>1. PICK L \in 0 .. d - 1 : d = Depth /\ L = Len(aposted)
    <3>1. host.boot # 0 /\ Depth \in Nat /\ Depth > 1
      BY <1>1, UpFacts
    <3>2. aposted \in Seq(Nat) /\ Len(aposted) < Depth
      BY <1>1, <3>1 DEF AdminInv, AckInv, CqRing
    <3>3. Len(aposted) \in 0 .. Depth - 1
      BY <3>1, <3>2
    <3> QED
      BY <2>0, <3>3
  <2>2. PICK h \in 0 .. d - 1 : h = host.head
    BY <1>1, <2>1, UpFacts DEF AdminInv, AckInv, CqRing
  <2>3. admin_q.cq_head = (host.head + Len(aposted)) % Depth
    <3>1. (h + L) % d = At(h, L, d)
      BY Modulo
    <3> QED
      BY <1>1, <2>1, <2>2, <3>1 DEF AdminInv, DevInv
  <2>4. admin_q.phase = IF host.head + Len(aposted) < Depth THEN host.phase ELSE 1 - host.phase
    BY <1>1, <2>1 DEF AdminInv, DevInv, Tag
  <2>5. PICK W \in Nat, n \in Nat : W = Waiting /\ n = host.sent /\ W = Len(AdminOwed)
    BY <1>1, UpFacts, AdminOwedIs
  <2>6. {aposted[k] : k \in DOMAIN aposted} = {i \in AdminOpen : i <= n - W}
    <3>1. ASSUME NEW k \in DOMAIN aposted
          PROVE  aposted[k] \in host.open /\ Log[aposted[k]].op # "abort" /\ aposted[k] <= n - W
      BY <1>1, <2>5 DEF AdminInv, AckInv, SubInv
    <3>2. ASSUME NEW i \in AdminOpen, i <= n - W
          PROVE  \E k \in DOMAIN aposted : aposted[k] = i
      BY <1>1, <2>5, <3>2 DEF Answered, AdminOpen
    <3> QED
      BY <3>1, <3>2 DEF AdminOpen
  <2>7. AdminOwed = [k \in 1 .. W |-> n - W + k]
    BY <1>1, <2>5, AdminOwedIs
  <2>8. /\ admin_q # NIL
        /\ admin_q.nvme_sq = host.boot /\ admin_q.nvme_cq = host.boot
        /\ admin_q.sq_depth = Depth /\ admin_q.cq_depth = Depth
    BY <1>1, UpFacts
  <2> QED
    BY <2>3, <2>4, <2>5, <2>6, <2>7, <2>8 DEF ReadyMeansUsable
<1>2. AdminInv /\ Answered => ReadyMeansUsable
    BY <1>1 DEF ReadyMeansUsable
<1> QED
    BY <1>2, AdminInvariant, PTL

\* What the host finds in the admin completion ring by the phase bits is what
\* the dispatcher posted and the host has not seen, in that order.
THEOREM AdminRingExact == Spec => []AdminRingAgrees
<1>1. AdminInv => AdminRingAgrees
  <2> SUFFICES ASSUME AdminInv, host.st = "up" PROVE HostSees = aposted
    BY DEF AdminRingAgrees
  <2>1. host.boot # 0
    BY UpFacts
  <2> QED
    BY <2>1, AdminAgree
<1> QED
    BY <1>1, AdminInvariant, PTL

-----------------------------------------------------------------------------
(* The invariant: queues. *)

\* A command on queue q that the dispatcher has executed, unseen by the host.
Executed(op, q) == \E i \in DOMAIN aposted : Log[aposted[i]].op = op /\ Log[aposted[i]].qid = q

\* What the host made sure of before it sent a command remains so.
SentView(cmd) ==
    /\ cmd.op = "create_cq" => cmd.qid \notin host.cq
    /\ cmd.op = "create_sq" => host.sq[cmd.qid] = NIL /\ cmd.cqid \in host.cq
    /\ cmd.op = "delete_sq" => host.sq[cmd.qid] # NIL
    /\ cmd.op = "delete_cq" => /\ cmd.qid \in host.cq
                               /\ \A q \in Queues : host.sq[q] # NIL => host.sq[q].cqid # cmd.qid

HostQueues ==
    /\ host.sq \in [Queues -> {NIL} \cup [cqid : Queues]] /\ host.cq \subseteq Queues
    /\ \A q \in Queues : host.sq[q] # NIL => host.sq[q].cqid \in host.cq
    /\ \A i \in host.open : SentView(Log[i])

\* What the device has is what the host has, but for a command executed.
ViewInv ==
    /\ HostQueues
    /\ sqes \in [Queues -> {NIL} \cup SqStructs] /\ cqes \in [Queues -> {NIL} \cup CqStructs]
    /\ \A q \in Queues :
         sqes[q] # NIL <=> Executed("create_sq", q) \/ (host.sq[q] # NIL /\ ~Executed("delete_sq", q))
    /\ \A q \in Queues : sqes[q] # NIL /\ host.sq[q] # NIL => sqes[q].cqid = host.sq[q].cqid
    /\ \A i \in DOMAIN aposted : Log[aposted[i]].op = "create_sq" =>
            sqes[Log[aposted[i]].qid].cqid = Log[aposted[i]].cqid
    /\ \A c \in Queues :
         cqes[c] # NIL <=> Executed("create_cq", c) \/ (c \in host.cq /\ ~Executed("delete_cq", c))

-----------------------------------------------------------------------------
(* The invariant: I/O commands. *)

Open(i)     == io[i].st = "open"
Posted(i)   == \E c \in Queues : \E k \in DOMAIN posted[c] : posted[c][k] = i
InWork(i)   == \E x \in work : x.id = i

\* The rings of a queue that a command sent is about.
SentRings(cmd) ==
    /\ cmd.op = "create_cq" /\ ~Executed("create_cq", cmd.qid) =>
         rings.head[cmd.qid] = 0 /\ rings.phase[cmd.qid] = 1
    /\ cmd.op = "create_sq" => rings.tail[cmd.qid] = 0
    /\ cmd.op = "delete_sq" => Unposted(cmd.qid) = {}
    /\ cmd.op = "delete_cq" => /\ posted[cmd.qid] = <<>>
                               /\ \A w \in Workers : thr[w].pc = "post" => thr[w].cq # cmd.qid

SentInv == \A i \in host.open : SentRings(Log[i])

\* The first entry of a submission ring that is not handed over, how many
\* there are, and the k-th.
FromQ(q)     == IF disp.pc = "io" /\ disp.q = q THEN disp.at ELSE old_dbs[q]
Left(q)      == Dist(FromQ(q), dbs[q], SqSize)
OwedAt(q, k) == sqm[q][At(FromQ(q), k, SqSize)]

\* A command in a submission ring, for the first time and nowhere else.
OwedOk(q, k) ==
    LET i == OwedAt(q, k)
    IN  /\ i \in Ios /\ Open(i) /\ io[i].q = q /\ ~Posted(i) /\ ~InWork(i)
        /\ \A j \in 0 .. Left(q) - 1 : OwedAt(q, j) = i => j = k

SqInv ==
    /\ sqm \in [Queues -> [0 .. SqSize - 1 -> 0 .. NrIos]]
    /\ \A q \in Queues : dbs[q] < SqSize /\ old_dbs[q] < SqSize
    /\ \A q \in Queues : disp.pc = "io" /\ disp.q = q =>
         /\ host.sq[q] # NIL /\ sqes[q] # NIL
         /\ disp.at < SqSize /\ disp.new < SqSize
         /\ Dist(disp.at, disp.new, SqSize) <= Left(q)
    /\ \A q \in Queues : Executed("create_sq", q) => dbs[q] = 0 /\ old_dbs[q] = 0
    /\ \A q \in Queues : host.sq[q] # NIL =>
         dbs[q] = rings.tail[q] /\ \A k \in 0 .. Left(q) - 1 : OwedOk(q, k)

\* A command without an answer is with the FTL's work or in its ring.
Located(i) ==
    /\ host.sq[io[i].q] # NIL /\ host.sq[io[i].q].cqid = io[i].c
    /\ InWork(i) \/ \E k \in 0 .. Left(io[i].q) - 1 : OwedAt(io[i].q, k) = i

IoInv ==
    /\ io \in [Ios -> [st : {"new", "open", "seen"}, q : 0 .. NrQueues, c : 0 .. NrQueues]]
    /\ \A i \in Ios : io[i].st # "new" => io[i].q # 0 /\ io[i].c # 0
    /\ work \subseteq [id : Ios, sqid : Queues, cqid : Queues, queued : BOOLEAN]
    /\ \A x, y \in work : x.id = y.id => x = y
    /\ \A x \in work : Open(x.id) /\ io[x.id].q = x.sqid /\ io[x.id].c = x.cqid /\ ~Posted(x.id)
    /\ \A i \in Ios : Open(i) /\ ~Posted(i) => Located(i)
    /\ \A c \in Queues : Cardinality(OpenOn("c", c)) < CqSize
    /\ taken \in [Ios -> 0 .. 2]
    /\ \A i \in Ios : taken[i] = IF io[i].st = "seen" \/ Posted(i) \/ InWork(i) THEN 1 ELSE 0

\* A completion queue as it is when entry_lock is released.
Advanced(cq) == IF cq.entry_lock THEN fill_advance(cq) ELSE cq

CqOk(c) ==
    /\ CqRing(cqm[c], rings.head[c], rings.phase[c], posted[c], CqSize)
    /\ \A k \in DOMAIN posted[c] :
         /\ Open(posted[c][k]) /\ io[posted[c][k]].c = c
         /\ \A j \in DOMAIN posted[c] : posted[c][j] = posted[c][k] => j = k
    /\ c \notin host.cq => posted[c] = <<>>
    /\ cqes[c] # NIL =>
         /\ Advanced(cqes[c]).cq_head = At(rings.head[c], Len(posted[c]), CqSize)
         /\ Advanced(cqes[c]).phase = Tag(rings.head[c], Len(posted[c]), rings.phase[c], CqSize)

Posting(w) ==
    thr[w].pc = "post" =>
        /\ thr[w].cq \in Queues /\ cqes[thr[w].cq] # NIL /\ cqes[thr[w].cq].entry_lock
        /\ \A v \in Workers : thr[v].pc = "post" /\ thr[v].cq = thr[w].cq => v = w

CqInv ==
    /\ cqm \in [Queues -> [0 .. CqSize - 1 -> [id : Nat, phase : {0, 1}]]]
    /\ rings.head \in [Queues -> Nat] /\ rings.phase \in [Queues -> {0, 1}]
    /\ posted \in [Queues -> Seq(Ios)]
    /\ thr \in [Workers -> [pc : {"idle", "post", "signal"}, x : 0 .. NrIos, cq : 0 .. NrQueues]]
    /\ \A c \in Queues : CqOk(c)
    /\ \A w \in Workers : Posting(w)

QueueInv == ViewInv /\ SentInv /\ SqInv /\ IoInv /\ CqInv

IInv == AdminInv /\ RingInv /\ QueueInv

-----------------------------------------------------------------------------
(* The queues as the host and as the device see them. *)

LEMMA QueueFacts ==
    /\ NrQueues \in Nat /\ 0 \in 0 .. NrQueues /\ Queues \subseteq 0 .. NrQueues /\ 0 \notin Queues
    /\ Queues \subseteq Nat /\ SqSize \in Nat \ {0, 1} /\ CqSize \in Nat \ {0, 1}
    /\ \A q \in 0 .. NrQueues : q # 0 => q \in Queues
<1>1. NrQueues \in Nat /\ SqSize \in Nat \ {0, 1} /\ CqSize \in Nat \ {0, 1}
    BY AdminAssumption
<1> QED
    BY <1>1 DEF Queues

\* The commands on queues name queues, and only one of them is under way.
LEMMA OpenFacts ==
    ASSUME AdminInv
    PROVE  /\ \A i \in host.open :
                /\ i \in Nat /\ i \in 1 .. Len(Log) /\ Log[i] \in Commands /\ Log[i].qid \in 0 .. NrQueues
                /\ Log[i].op \in OnQueues \ {"set_features"} => Log[i].qid \in Queues
                /\ Log[i].op = "create_sq" => Log[i].cqid \in Queues
           /\ \A i, j \in host.open : Log[i].op \in OnQueues /\ Log[j].op \in OnQueues => i = j
           /\ \A k \in DOMAIN aposted : aposted[k] \in host.open
           /\ \A op \in OnQueues : \A q : Executed(op, q) =>
                \E i \in host.open : /\ Log[i].op = op /\ Log[i].qid = q
                                     /\ \E k \in DOMAIN aposted : aposted[k] = i
<1> USE DEF AdminInv
<1>1. ASSUME NEW i \in host.open
      PROVE  /\ i \in Nat /\ i \in 1 .. Len(Log) /\ Log[i] \in Commands /\ Log[i].qid \in 0 .. NrQueues
             /\ Log[i].op \in OnQueues \ {"set_features"} => Log[i].qid \in Queues
             /\ Log[i].op = "create_sq" => Log[i].cqid \in Queues
  <2>1. host.boot # 0
    BY DEF HostInv
  <2>2. host.sent \in 0 .. Len(Log) /\ host.open \subseteq 1 .. host.sent /\ Len(Log) \in Nat
    BY <2>1, BootFacts DEF HostInv
  <2>3. i \in Nat /\ i \in 1 .. Len(Log)
    BY <2>2
  <2>4. /\ Log[i] \in Commands
        /\ Log[i].op \in OnQueues \ {"set_features"} => Log[i].qid # 0
        /\ Log[i].op = "create_sq" => Log[i].cqid # 0
    BY <2>1, <2>3, BootFacts
  <2>5. Log[i].qid \in 0 .. NrQueues /\ Log[i].cqid \in 0 .. NrQueues
    BY <2>4 DEF Commands
  <2> QED
    BY <2>3, <2>4, <2>5, QueueFacts
<1>2. \A i, j \in host.open : Log[i].op \in OnQueues /\ Log[j].op \in OnQueues => i = j
    BY DEF HostInv
<1>3. \A k \in DOMAIN aposted : aposted[k] \in host.open
    BY DEF AckInv
<1>4. \A op \in OnQueues : \A q : Executed(op, q) =>
                \E i \in host.open : /\ Log[i].op = op /\ Log[i].qid = q
                                     /\ \E k \in DOMAIN aposted : aposted[k] = i
    BY <1>3 DEF Executed
<1> QED
    BY <1>1, <1>2, <1>3, <1>4

\* What an executed command says of the queues.
LEMMA DoneFacts ==
    ASSUME AdminInv, ViewInv, NEW q \in Queues
    PROVE  /\ Executed("create_sq", q) => host.sq[q] = NIL /\ sqes[q] # NIL
           /\ Executed("delete_sq", q) => host.sq[q] # NIL /\ sqes[q] = NIL
           /\ Executed("create_cq", q) => q \notin host.cq /\ cqes[q] # NIL
           /\ Executed("delete_cq", q) => q \in host.cq /\ cqes[q] = NIL
           /\ host.sq[q] # NIL => cqes[host.sq[q].cqid] # NIL /\ host.sq[q].cqid \in Queues
<1>1. {"create_sq", "delete_sq", "create_cq", "delete_cq"} \subseteq OnQueues
    BY DEF OnQueues
<1>2. \A i \in host.open : SentView(Log[i])
    BY DEF ViewInv, HostQueues
<1>3. ASSUME NEW op1 \in OnQueues, NEW op2 \in OnQueues, Executed(op1, q), Executed(op2, q)
      PROVE  op1 = op2
    BY <1>3, OpenFacts
<1>4. Executed("create_sq", q) => host.sq[q] = NIL
    BY <1>1, <1>2, OpenFacts DEF SentView
<1>5. Executed("delete_sq", q) => host.sq[q] # NIL
    BY <1>1, <1>2, OpenFacts DEF SentView
<1>6. Executed("create_cq", q) => q \notin host.cq
    BY <1>1, <1>2, OpenFacts DEF SentView
<1>7. \A c \in Queues : Executed("delete_cq", c) =>
        c \in host.cq /\ \A p \in Queues : host.sq[p] # NIL => host.sq[p].cqid # c
    BY <1>1, <1>2, OpenFacts DEF SentView
<1>8. host.sq[q] # NIL => cqes[host.sq[q].cqid] # NIL /\ host.sq[q].cqid \in Queues
  <2> SUFFICES ASSUME host.sq[q] # NIL
               PROVE  cqes[host.sq[q].cqid] # NIL /\ host.sq[q].cqid \in Queues
    OBVIOUS
  <2>1. PICK c : c = host.sq[q].cqid
    OBVIOUS
  <2>2. c \in host.cq /\ c \in Queues
    BY <2>1 DEF ViewInv, HostQueues
  <2>3. ~Executed("delete_cq", c)
    BY <1>7, <2>1, <2>2
  <2> QED
    BY <2>1, <2>2, <2>3 DEF ViewInv
<1>9. /\ sqes[q] # NIL <=> Executed("create_sq", q) \/ (host.sq[q] # NIL /\ ~Executed("delete_sq", q))
      /\ cqes[q] # NIL <=> Executed("create_cq", q) \/ (q \in host.cq /\ ~Executed("delete_cq", q))
    BY DEF ViewInv
<1>10. ~(Executed("create_sq", q) /\ Executed("delete_sq", q)) /\ ~(Executed("create_cq", q) /\ Executed("delete_cq", q))
    BY <1>4, <1>5, <1>6, <1>7
<1> QED
    BY <1>4, <1>5, <1>6, <1>7, <1>8, <1>9, <1>10

\* Steps that change no queue: of a completion queue the position may change.
SameQueues ==
    /\ host'.open = host.open /\ host'.sq = host.sq /\ host'.cq = host.cq /\ Log' = Log
    /\ aposted' = aposted /\ sqes' = sqes
    /\ cqes' \in [Queues -> {NIL} \cup CqStructs] /\ \A c \in Queues : cqes'[c] # NIL <=> cqes[c] # NIL

LEMMA ViewFrame ==
    ASSUME ViewInv, SameQueues
    PROVE  ViewInv'
<1> USE DEF SameQueues
<1>1. \A op, q : Executed(op, q)' <=> Executed(op, q)
    BY DEF Executed
<1>2. \A cmd : SentView(cmd)' <=> SentView(cmd)
    BY DEF SentView
<1>3. HostQueues'
  <2>1. HostQueues
    BY DEF ViewInv
  <2>2. \A i \in host'.open : SentView(Log[i])'
    BY <2>1 DEF HostQueues, SentView
  <2> QED
    BY <2>1, <2>2 DEF HostQueues
<1>4. \A q \in Queues : /\ sqes'[q] # NIL <=> Executed("create_sq", q)' \/ (host'.sq[q] # NIL /\ ~Executed("delete_sq", q)')
                        /\ sqes'[q] # NIL /\ host'.sq[q] # NIL => sqes'[q].cqid = host'.sq[q].cqid
    BY <1>1 DEF ViewInv
<1>5. \A c \in Queues :
         cqes'[c] # NIL <=> Executed("create_cq", c)' \/ (c \in host'.cq /\ ~Executed("delete_cq", c)')
    BY <1>1 DEF ViewInv
<1>6. /\ sqes' \in [Queues -> {NIL} \cup SqStructs]
      /\ \A i \in DOMAIN aposted' : Log'[aposted'[i]].op = "create_sq" =>
            sqes'[Log'[aposted'[i]].qid].cqid = Log'[aposted'[i]].cqid
    BY DEF ViewInv
<1> QED
    BY <1>3, <1>4, <1>5, <1>6 DEF ViewInv

LEMMA HostStartView ==
    ASSUME AdminInv, ViewInv, HostStart
    PROVE  ViewInv' /\ aposted = <<>> /\ aposted' = <<>> /\ host'.open = {} /\ host'.sq = host.sq /\ host'.cq = host.cq
           /\ \A op, q : ~Executed(op, q) /\ ~Executed(op, q)'
<1>1. host.st = "off" /\ aposted' = <<>> /\ sqes' = sqes /\ cqes' = cqes
    BY DEF HostStart, queues
<1>2. host'.open = {} /\ host'.sq = host.sq /\ host'.cq = host.cq
  <2>1. host = [f \in HostFields |-> host[f]]
    BY DEF AdminInv, HostInv
  <2> QED
    BY <2>1 DEF HostStart, HostFields
<1>3. aposted = <<>>
  <2>1. Quiet
    BY <1>1 DEF AdminInv, HostInv
  <2>2. aposted \in Seq(Nat) /\ \A i \in DOMAIN aposted : aposted[i] \in host.open /\ Log[aposted[i]].op # "abort"
    BY DEF AdminInv, AckInv
  <2>3. DOMAIN aposted = {}
    BY <2>1, <2>2 DEF Quiet
  <2> QED
    BY <2>2, <2>3
<1>4. \A op, q : ~Executed(op, q) /\ ~Executed(op, q)'
    BY <1>1, <1>3 DEF Executed
<1>5. HostQueues'
    BY <1>2 DEF ViewInv, HostQueues
<1>6. ViewInv'
    BY <1>1, <1>2, <1>4, <1>5 DEF ViewInv
<1> QED
    BY <1>1, <1>2, <1>3, <1>4, <1>6

\* The fields of the host that a command sent leaves alone.
LEMMA SendFacts ==
    ASSUME AdminInv, NEW cmd, HostSend(cmd)
    PROVE  /\ host.st = "up" /\ host'.sq = host.sq /\ host'.cq = host.cq /\ Log' = Log /\ aposted' = aposted
           /\ UNCHANGED <<sqes, cqes, disp, old_dbs>> /\ \A q \in Queues : dbs'[q] = dbs[q]
           /\ \E id : host'.open = host.open \cup {id} /\ Log[id] = cmd /\ id \in 1 .. Len(Log)
           /\ cmd.op \in OnQueues => \A i \in host.open : Log[i].op \notin OnQueues
           /\ MaySend(cmd) /\ IoQuiet(cmd)
           /\ cmd.op \in OnQueues \ {"set_features"} => cmd.qid \in Queues
<1>1. host.st = "up" /\ UNCHANGED <<sqes, cqes, disp, old_dbs>> /\ aposted' = aposted /\ MaySend(cmd) /\ IoQuiet(cmd)
    BY DEF HostSend, HostAdmin, queues
<1>2. host = [f \in HostFields |-> host[f]]
    BY DEF AdminInv, HostInv
<1>3. PICK id, tail : /\ id \in DOMAIN Log /\ cmd = Log[id]
                      /\ host' = [host EXCEPT !.tail = tail, !.sent = id, !.open = @ \cup {id}]
                      /\ dbs' = [dbs EXCEPT ![0] = tail]
    BY DEF HostSend, HostAdmin
<1>4. /\ host'.sq = host.sq /\ host'.cq = host.cq /\ host'.open = host.open \cup {id}
      /\ host'.plan = host.plan /\ host'.boot = host.boot
    BY <1>2, <1>3 DEF HostFields
<1>5. Log' = Log
    BY <1>4 DEF Log
<1>6. \A q \in Queues : dbs'[q] = dbs[q]
    BY <1>3, QueueFacts DEF AdminInv, DispInv
<1>7. cmd.op \in OnQueues => \A i \in host.open : Log[i].op \notin OnQueues
    BY DEF HostSend, HostAdmin
<1>8. id \in 1 .. Len(Log)
    BY <1>1, <1>3, UpFacts
<1>9. cmd.op \in OnQueues \ {"set_features"} => cmd.qid \in Queues
  <2>1. host.boot # 0
    BY <1>1, UpFacts
  <2>2. Log[id] \in Commands /\ (Log[id].op \in OnQueues \ {"set_features"} => Log[id].qid # 0)
    BY <1>8, <2>1, BootFacts DEF AdminInv
  <2>3. cmd.qid \in 0 .. NrQueues
    BY <1>3, <2>2 DEF Commands
  <2> QED
    BY <1>3, <2>2, <2>3, QueueFacts
<1> QED
    BY <1>1, <1>3, <1>4, <1>5, <1>6, <1>7, <1>8, <1>9

LEMMA HostSendView ==
    ASSUME AdminInv, ViewInv, NEW cmd, HostSend(cmd)
    PROVE  ViewInv' /\ \A op, q : Executed(op, q)' <=> Executed(op, q)
<1>1. PICK id : host'.open = host.open \cup {id} /\ Log[id] = cmd
    BY SendFacts
<1>2. /\ host'.sq = host.sq /\ host'.cq = host.cq /\ Log' = Log /\ aposted' = aposted
      /\ sqes' = sqes /\ cqes' = cqes
    BY SendFacts
<1>3. \A op, q : Executed(op, q)' <=> Executed(op, q)
    BY <1>2 DEF Executed
<1>4. SentView(cmd)
    BY SendFacts DEF MaySend, SentView
<1>5. \A i \in host'.open : SentView(Log[i])'
    BY <1>1, <1>2, <1>4 DEF SentView, ViewInv, HostQueues
<1>6. HostQueues'
    BY <1>2, <1>5 DEF ViewInv, HostQueues
<1> QED
    BY <1>2, <1>3, <1>6 DEF ViewInv

\* What the host knows of the queues after it has taken the answers.
LEMMA IrqViews ==
    ASSUME AdminInv, ViewInv, HostAdminIrq
    PROVE  /\ Log' = Log /\ aposted' = <<>>
           /\ host'.open = host.open \ {aposted[i] : i \in DOMAIN aposted}
           /\ \/ /\ host'.sq = host.sq /\ host'.cq = host.cq
                 /\ \A op \in OnQueues \ {"set_features"} : \A q : ~Executed(op, q)
              \/ \E cmd : /\ cmd.qid \in Queues /\ Executed(cmd.op, cmd.qid) /\ SentView(cmd)
                          /\ \A i \in host'.open : Log[i].op \notin OnQueues
                          /\ \A op \in OnQueues : \A q : Executed(op, q) => op = cmd.op /\ q = cmd.qid
                          /\ cmd.op = "create_sq" => cmd.cqid = sqes[cmd.qid].cqid /\ cmd.cqid \in Queues
                          /\ \/ /\ cmd.op = "create_cq" /\ host'.cq = host.cq \cup {cmd.qid} /\ host'.sq = host.sq
                             \/ /\ cmd.op = "delete_cq" /\ host'.cq = host.cq \ {cmd.qid} /\ host'.sq = host.sq
                             \/ /\ cmd.op = "create_sq" /\ host'.cq = host.cq
                                /\ host'.sq = [host.sq EXCEPT ![cmd.qid] = [cqid |-> cmd.cqid]]
                             \/ /\ cmd.op = "delete_sq" /\ host'.cq = host.cq
                                /\ host'.sq = [host.sq EXCEPT ![cmd.qid] = NIL]
<1>1. PICK h : /\ Taken(h) /\ host.boot # 0 /\ aposted' = <<>>
               /\ \/ /\ host' = h
                     /\ \A i \in DOMAIN aposted : Log[aposted[i]].op \notin OnQueues
                  \/ \E k \in DOMAIN aposted : /\ Log[aposted[k]].op \in OnQueues
                                               /\ host' = HostView(h, Log[aposted[k]])
    BY IrqFacts
<1>2. \A f \in HostFields \ {"granted", "cq", "sq"} : host'[f] = h[f]
    BY <1>1, ViewFields DEF Taken
<1>3. /\ host'.open = host.open \ {aposted[i] : i \in DOMAIN aposted}
      /\ host'.plan = host.plan /\ host'.boot = host.boot
    BY <1>1, <1>2 DEF Taken, HostFields
<1>4. Log' = Log
    BY <1>3 DEF Log
<1>5. \A op, q : Executed(op, q) <=> \E i \in DOMAIN aposted : Log[aposted[i]].op = op /\ Log[aposted[i]].qid = q
    BY DEF Executed
<1>6. CASE host' = h /\ \A i \in DOMAIN aposted : Log[aposted[i]].op \notin OnQueues
  <2>1. host'.sq = host.sq /\ host'.cq = host.cq
    BY <1>1, <1>6 DEF Taken
  <2>2. \A op \in OnQueues \ {"set_features"} : \A q : ~Executed(op, q)
    BY <1>5, <1>6
  <2> QED
    BY <1>1, <1>3, <1>4, <2>1, <2>2
<1>7. CASE \E k \in DOMAIN aposted : /\ Log[aposted[k]].op \in OnQueues
                                     /\ host' = HostView(h, Log[aposted[k]])
  <2>1. PICK k \in DOMAIN aposted : /\ Log[aposted[k]].op \in OnQueues
                                    /\ host' = HostView(h, Log[aposted[k]])
    BY <1>7
  <2>2. PICK id, cmd : id = aposted[k] /\ cmd = Log[id]
    OBVIOUS
  <2>3. id \in host.open /\ cmd.op \in OnQueues
    BY <2>1, <2>2, OpenFacts
  <2>4. \A i \in DOMAIN aposted : Log[aposted[i]].op \in OnQueues => aposted[i] = id
    BY <2>2, <2>3, OpenFacts
  <2>5. \A op \in OnQueues : \A q : Executed(op, q) => op = cmd.op /\ q = cmd.qid
    BY <1>5, <2>2, <2>4
  <2>6. \A i \in host'.open : Log[i].op \notin OnQueues
    <3> SUFFICES ASSUME NEW i \in host'.open, Log[i].op \in OnQueues PROVE FALSE
      OBVIOUS
    <3>1. i \in host.open /\ i # id
      BY <1>3, <2>2
    <3> QED
      BY <2>2, <2>3, <3>1, OpenFacts
  <2>7. Executed(cmd.op, cmd.qid) /\ SentView(cmd)
    BY <1>5, <2>2, <2>3 DEF ViewInv, HostQueues
  <2>8. h.sq = host.sq /\ h.cq = host.cq /\ h = [f \in HostFields |-> h[f]]
    BY <1>1 DEF Taken
  <2>9. host' = HostView(h, cmd)
    BY <2>1, <2>2
  <2>10. CASE cmd.op = "set_features"
    <3>1. host'.sq = host.sq /\ host'.cq = host.cq
      BY <2>8, <2>9, <2>10 DEF HostView, HostFields
    <3>2. \A op \in OnQueues \ {"set_features"} : \A q : ~Executed(op, q)
      BY <2>5, <2>10
    <3> QED
      BY <1>1, <1>3, <1>4, <3>1, <3>2
  <2>11. CASE cmd.op # "set_features"
    <3>1. cmd.qid \in Queues /\ (cmd.op = "create_sq" => cmd.cqid \in Queues)
      BY <2>2, <2>3, <2>11, OpenFacts
    <3>2. cmd.op = "create_sq" => cmd.cqid = sqes[cmd.qid].cqid
      BY <2>2 DEF ViewInv
    <3>3. PICK q, c : q = cmd.qid /\ c = cmd.cqid
      OBVIOUS
    <3>4. \/ /\ cmd.op = "create_cq" /\ host'.cq = host.cq \cup {q} /\ host'.sq = host.sq
          \/ /\ cmd.op = "delete_cq" /\ host'.cq = host.cq \ {q} /\ host'.sq = host.sq
          \/ /\ cmd.op = "create_sq" /\ host'.cq = host.cq
             /\ host'.sq = [host.sq EXCEPT ![q] = [cqid |-> c]]
          \/ /\ cmd.op = "delete_sq" /\ host'.cq = host.cq
             /\ host'.sq = [host.sq EXCEPT ![q] = NIL]
      <4>1. CASE cmd.op = "create_cq"
        BY <2>8, <2>9, <3>3, <4>1 DEF HostView, HostFields
      <4>2. CASE cmd.op = "delete_cq"
        BY <2>8, <2>9, <3>3, <4>2 DEF HostView, HostFields
      <4>3. CASE cmd.op = "create_sq"
        BY <2>8, <2>9, <3>3, <4>3 DEF HostView, HostFields
      <4>4. CASE cmd.op = "delete_sq"
        BY <2>8, <2>9, <3>3, <4>4 DEF HostView, HostFields
      <4> QED
        BY <2>3, <2>11, <4>1, <4>2, <4>3, <4>4 DEF OnQueues
    <3> QED
      BY <1>1, <1>3, <1>4, <2>5, <2>6, <2>7, <3>1, <3>2, <3>3, <3>4
  <2> QED
    BY <2>10, <2>11
<1> QED
    BY <1>1, <1>6, <1>7

LEMMA AdminIrqView ==
    ASSUME AdminInv, ViewInv, HostAdminIrq
    PROVE  ViewInv' /\ \A op, q : ~Executed(op, q)'
<1>1. Log' = Log /\ aposted' = <<>> /\ sqes' = sqes /\ cqes' = cqes
    BY IrqViews DEF HostAdminIrq, queues
<1>2. \A op, q : ~Executed(op, q)'
    BY <1>1 DEF Executed
<1>3. /\ host.sq \in [Queues -> {NIL} \cup [cqid : Queues]] /\ host.cq \subseteq Queues
      /\ \A q \in Queues : host.sq[q] # NIL => host.sq[q].cqid \in host.cq
      /\ \A i \in host.open : SentView(Log[i])
    BY DEF ViewInv, HostQueues
<1>4. {"create_sq", "delete_sq", "create_cq", "delete_cq"} \subseteq OnQueues \ {"set_features"}
    BY DEF OnQueues
<1>5. \A q \in Queues : /\ sqes[q] # NIL <=> Executed("create_sq", q) \/ (host.sq[q] # NIL /\ ~Executed("delete_sq", q))
                        /\ cqes[q] # NIL <=> Executed("create_cq", q) \/ (q \in host.cq /\ ~Executed("delete_cq", q))
                        /\ sqes[q] # NIL /\ host.sq[q] # NIL => sqes[q].cqid = host.sq[q].cqid
    BY DEF ViewInv
<1>6. sqes \in [Queues -> {NIL} \cup SqStructs] /\ cqes \in [Queues -> {NIL} \cup CqStructs]
    BY DEF ViewInv
<1>7. ASSUME /\ host'.sq \in [Queues -> {NIL} \cup [cqid : Queues]] /\ host'.cq \subseteq Queues
             /\ \A q \in Queues : host'.sq[q] # NIL => host'.sq[q].cqid \in host'.cq
             /\ \A i \in host'.open : SentView(Log[i])',
             \A q \in Queues : /\ sqes[q] # NIL <=> host'.sq[q] # NIL
                               /\ cqes[q] # NIL <=> q \in host'.cq
                               /\ sqes[q] # NIL => sqes[q].cqid = host'.sq[q].cqid
      PROVE  ViewInv'
  <2>1. HostQueues'
    BY <1>7 DEF HostQueues
  <2> QED
    BY <1>1, <1>2, <1>6, <1>7, <2>1 DEF ViewInv
<1>8. CASE /\ host'.sq = host.sq /\ host'.cq = host.cq
           /\ \A op \in OnQueues \ {"set_features"} : \A q : ~Executed(op, q)
  <2>1. \A i \in host'.open : SentView(Log[i])'
    <3>1. \A i \in host'.open : i \in host.open
      BY IrqViews
    <3> QED
      BY <1>1, <1>3, <1>8, <3>1 DEF SentView
  <2>2. \A q \in Queues : /\ sqes[q] # NIL <=> host'.sq[q] # NIL
                          /\ cqes[q] # NIL <=> q \in host'.cq
                          /\ sqes[q] # NIL => sqes[q].cqid = host'.sq[q].cqid
    BY <1>4, <1>5, <1>8
  <2> QED
    BY <1>2, <1>3, <1>7, <1>8, <2>1, <2>2
<1>9. ASSUME NEW cmd, cmd.qid \in Queues, Executed(cmd.op, cmd.qid), SentView(cmd),
             \A i \in host'.open : Log[i].op \notin OnQueues,
             \A op \in OnQueues : \A q : Executed(op, q) => op = cmd.op /\ q = cmd.qid,
             cmd.op = "create_sq" => cmd.cqid = sqes[cmd.qid].cqid /\ cmd.cqid \in Queues,
             \/ /\ cmd.op = "create_cq" /\ host'.cq = host.cq \cup {cmd.qid} /\ host'.sq = host.sq
             \/ /\ cmd.op = "delete_cq" /\ host'.cq = host.cq \ {cmd.qid} /\ host'.sq = host.sq
             \/ /\ cmd.op = "create_sq" /\ host'.cq = host.cq
                /\ host'.sq = [host.sq EXCEPT ![cmd.qid] = [cqid |-> cmd.cqid]]
             \/ /\ cmd.op = "delete_sq" /\ host'.cq = host.cq
                /\ host'.sq = [host.sq EXCEPT ![cmd.qid] = NIL]
      PROVE  ViewInv'
  <2>1. \A i \in host'.open : SentView(Log[i])'
    BY <1>1, <1>4, <1>9 DEF SentView
  <2>2. PICK p, hs, hc : p \in Queues /\ p = cmd.qid /\ hs = host.sq /\ hc = host.cq
    BY <1>9
  <2>3. CASE cmd.op = "create_cq"
    <3>1. host'.cq = hc \cup {p} /\ host'.sq = hs /\ Executed("create_cq", p)
      BY <1>9, <2>2, <2>3
    <3>2. \A q \in Queues : /\ ~Executed("create_sq", q) /\ ~Executed("delete_sq", q) /\ ~Executed("delete_cq", q)
                            /\ Executed("create_cq", q) => q = p
      BY <1>4, <1>9, <2>2, <2>3
    <3> QED
      BY <1>3, <1>5, <1>7, <2>1, <2>2, <3>1, <3>2
  <2>4. CASE cmd.op = "delete_cq"
    <3>1. host'.cq = hc \ {p} /\ host'.sq = hs /\ Executed("delete_cq", p)
      BY <1>9, <2>2, <2>4
    <3>2. \A q \in Queues : /\ ~Executed("create_sq", q) /\ ~Executed("delete_sq", q) /\ ~Executed("create_cq", q)
                            /\ Executed("delete_cq", q) => q = p
      BY <1>4, <1>9, <2>2, <2>4
    <3>3. \A q \in Queues : hs[q] # NIL => hs[q].cqid # p
      BY <1>9, <2>2, <2>4 DEF SentView
    <3> QED
      BY <1>3, <1>5, <1>7, <2>1, <2>2, <3>1, <3>2, <3>3
  <2>5. CASE cmd.op = "create_sq"
    <3>1. PICK x : x = [cqid |-> cmd.cqid]
      OBVIOUS
    <3>2. host'.cq = hc /\ host'.sq = [hs EXCEPT ![p] = x] /\ Executed("create_sq", p)
      BY <1>9, <2>2, <2>5, <3>1
    <3>3. \A q \in Queues : /\ ~Executed("create_cq", q) /\ ~Executed("delete_sq", q) /\ ~Executed("delete_cq", q)
                            /\ Executed("create_sq", q) => q = p
      BY <1>4, <1>9, <2>2, <2>5
    <3>4. x \in [cqid : Queues] /\ x # NIL /\ x.cqid \in hc /\ x.cqid = sqes[p].cqid
      BY <1>9, <2>2, <2>5, <3>1, NilFacts DEF SentView
    <3>5. \A q \in Queues : host'.sq[q] = IF q = p THEN x ELSE hs[q]
      BY <1>3, <2>2, <3>2
    <3>6. host'.sq \in [Queues -> {NIL} \cup [cqid : Queues]]
      BY <1>3, <2>2, <3>2, <3>4
    <3>7. \A q \in Queues : host'.sq[q] # NIL => host'.sq[q].cqid \in host'.cq
      BY <1>3, <2>2, <3>2, <3>4, <3>5
    <3>8. \A q \in Queues : /\ sqes[q] # NIL <=> host'.sq[q] # NIL
                            /\ cqes[q] # NIL <=> q \in host'.cq
                            /\ sqes[q] # NIL => sqes[q].cqid = host'.sq[q].cqid
      BY <1>5, <2>2, <3>2, <3>3, <3>4, <3>5
    <3> QED
      BY <1>3, <1>7, <2>1, <2>2, <3>2, <3>6, <3>7, <3>8
  <2>6. CASE cmd.op = "delete_sq"
    <3>2. host'.cq = hc /\ host'.sq = [hs EXCEPT ![p] = NIL] /\ Executed("delete_sq", p)
      BY <1>9, <2>2, <2>6
    <3>3. \A q \in Queues : /\ ~Executed("create_cq", q) /\ ~Executed("create_sq", q) /\ ~Executed("delete_cq", q)
                            /\ Executed("delete_sq", q) => q = p
      BY <1>4, <1>9, <2>2, <2>6
    <3>5. \A q \in Queues : host'.sq[q] = IF q = p THEN NIL ELSE hs[q]
      BY <1>3, <2>2, <3>2
    <3>6. host'.sq \in [Queues -> {NIL} \cup [cqid : Queues]]
      BY <1>3, <2>2, <3>2
    <3>7. \A q \in Queues : host'.sq[q] # NIL => host'.sq[q].cqid \in host'.cq
      BY <1>3, <2>2, <3>2, <3>5
    <3>8. \A q \in Queues : /\ sqes[q] # NIL <=> host'.sq[q] # NIL
                            /\ cqes[q] # NIL <=> q \in host'.cq
                            /\ sqes[q] # NIL => sqes[q].cqid = host'.sq[q].cqid
      BY <1>5, <2>2, <3>2, <3>3, <3>5
    <3> QED
      BY <1>3, <1>7, <2>1, <2>2, <3>2, <3>6, <3>7, <3>8
  <2> QED
    BY <1>9, <2>3, <2>4, <2>5, <2>6
<1>10. ViewInv'
  <2> HIDE DEF ViewInv
  <2> QED
    BY <1>8, <1>9, IrqViews
<1> QED
    BY <1>2, <1>10

\* What the execution of a command does to the queues of the device.
Changes(cmd) ==
    \/ cmd.op \notin OnQueues \ {"set_features"} /\ UNCHANGED <<sqes, cqes, dbs, old_dbs>>
    \/ /\ cmd.op = "create_cq" /\ cmd.qid \in Queues /\ create_cq(cmd)
    \/ /\ cmd.op = "create_sq" /\ cmd.qid \in Queues /\ cmd.cqid \in Queues /\ create_sq(cmd)
    \/ /\ cmd.op = "delete_sq" /\ cmd.qid \in Queues /\ delete_sq(cmd)
    \/ /\ cmd.op = "delete_cq" /\ cmd.qid \in Queues /\ delete_cq(cmd)

LEMMA ReqViews ==
    ASSUME AdminInv, proc_admin_req
    PROVE  /\ host' = host /\ Log' = Log /\ disp.pc = "admin" /\ disp'.pc = "admin"
           /\ \E cmd : /\ Changes(cmd)
                       /\ \/ cmd.op = "abort" /\ aposted' = aposted
                          \/ \E id \in host.open : /\ Log[id] = cmd /\ aposted' = Append(aposted, id)
                                                   /\ \A k \in DOMAIN aposted : aposted[k] # id
<1>1. PICK e : /\ AtHand(e)
               /\ \/ e.cmd.op = "set_features" /\ set_features(e.cmd)
                  \/ e.cmd.op = "create_cq" /\ create_cq(e.cmd)
                  \/ e.cmd.op = "create_sq" /\ create_sq(e.cmd)
                  \/ e.cmd.op = "delete_sq" /\ delete_sq(e.cmd)
                  \/ e.cmd.op = "delete_cq" /\ delete_cq(e.cmd)
                  \/ e.cmd.op \notin OnQueues /\ NothingChanges
               /\ IF e.cmd.op = "abort" THEN UNCHANGED <<acq, admin_q, aposted>> ELSE Answer(e.id)
               /\ disp'.pc = "admin"
    BY ReqFacts
<1>2. disp.pc = "admin" /\ host' = host
    BY DEF proc_admin_req
<1>3. Log' = Log
    BY <1>2 DEF Log
<1>4. PICK cmd : cmd = e.cmd
    OBVIOUS
<1>5. cmd \in Commands
    BY <1>1, <1>4 DEF AtHand
<1>6. cmd.qid \in 0 .. NrQueues /\ cmd.cqid \in 0 .. NrQueues
    BY <1>5 DEF Commands
<1>7. /\ cmd.op \in OnQueues \ {"set_features"} => cmd.qid \in Queues
      /\ cmd.op = "create_sq" => cmd.cqid \in Queues
    BY <1>1, <1>4, <1>6, QueueFacts DEF AtHand
<1>8. Changes(cmd)
    BY <1>1, <1>4, <1>7 DEF Changes, OnQueues, NothingChanges, queues, set_features
<1>9. CASE cmd.op = "abort"
    BY <1>1, <1>2, <1>3, <1>4, <1>8, <1>9
<1>10. CASE cmd.op # "abort"
  <2>1. host.st = "up" /\ Answer(e.id)
    BY <1>1, <1>4, <1>10 DEF AtHand
  <2>2. PICK id : id = e.id
    OBVIOUS
  <2>3. id \in host.open /\ Log[id] = cmd /\ aposted' = Append(aposted, id) /\ id = host.sent - Waiting + 1
    BY <1>1, <1>4, <2>1, <2>2 DEF AtHand, Answer
  <2>4. \A k \in DOMAIN aposted : aposted[k] # id
    <3>1. PICK n \in Int, W \in Int : n = host.sent /\ W = Waiting
      BY <2>1, UpFacts
    <3>2. \A k \in DOMAIN aposted : aposted[k] <= n - W
      BY <2>1, <3>1 DEF AdminInv, SubInv
    <3>3. id = n - W + 1
      BY <2>3, <3>1
    <3> QED
      BY <3>2, <3>3
  <2> QED
    BY <1>1, <1>2, <1>3, <1>8, <2>3, <2>4
<1> QED
    BY <1>9, <1>10

\* A command more has been executed.
LEMMA ExecutedMore ==
    ASSUME AdminInv, Log' = Log, NEW id \in Nat, aposted' = Append(aposted, id), NEW cmd, cmd = Log[id]
    PROVE  /\ \A op, q : Executed(op, q)' <=> Executed(op, q) \/ (op = cmd.op /\ q = cmd.qid)
           /\ \A k \in DOMAIN aposted' : (k \in DOMAIN aposted /\ aposted'[k] = aposted[k]) \/ aposted'[k] = id
<1>8. PICK a, b : a = aposted /\ b = Append(a, id)
    OBVIOUS
<1>9. a \in Seq(Nat)
    BY <1>8 DEF AdminInv, AckInv
<1>1. PICK L \in Nat : a = aposted /\ a \in Seq(Nat) /\ L = Len(a) /\ b = Append(a, id)
    BY <1>8, <1>9
<1>2. /\ DOMAIN a = 1 .. L /\ DOMAIN b = 1 .. L + 1 /\ b[L + 1] = id
      /\ \A k \in 1 .. L : b[k] = a[k]
    BY <1>1
<1>3. \A k \in DOMAIN b : (k \in DOMAIN a /\ b[k] = a[k]) \/ b[k] = id
    BY <1>2
<1>4. \A k \in DOMAIN a : k \in DOMAIN b /\ b[k] = a[k]
    BY <1>2
<1>5. L + 1 \in DOMAIN b
    BY <1>2
<1>6. ASSUME NEW op, NEW q
      PROVE  (\E i \in DOMAIN b : Log[b[i]].op = op /\ Log[b[i]].qid = q) <=>
               (\E i \in DOMAIN a : Log[a[i]].op = op /\ Log[a[i]].qid = q) \/ (op = cmd.op /\ q = cmd.qid)
    BY <1>2, <1>3, <1>4, <1>5, Zenon
<1>7. aposted' = b
    BY <1>1
<1>10. \A op, q : Executed(op, q) <=> \E i \in DOMAIN a : Log[a[i]].op = op /\ Log[a[i]].qid = q
    BY <1>8 DEF Executed
<1>11. \A op, q : Executed(op, q)' <=> \E i \in DOMAIN b : Log[b[i]].op = op /\ Log[b[i]].qid = q
    BY <1>7 DEF Executed
<1> QED
    BY <1>3, <1>6, <1>7, <1>8, <1>10, <1>11

LEMMA AdminReqView ==
    ASSUME AdminInv, ViewInv, proc_admin_req
    PROVE  ViewInv'
<1>1. host' = host /\ Log' = Log
    BY ReqViews
<1>2. PICK cmd : /\ Changes(cmd)
                 /\ \/ cmd.op = "abort" /\ aposted' = aposted
                    \/ \E id \in host.open : /\ Log[id] = cmd /\ aposted' = Append(aposted, id)
                                             /\ \A k \in DOMAIN aposted : aposted[k] # id
    BY ReqViews
<1>3. HostQueues'
    BY <1>1 DEF ViewInv, HostQueues, SentView
<1>4. "abort" \notin OnQueues
    BY DEF OnQueues
<1>5. CASE aposted' = aposted /\ cmd.op = "abort"
  <2>1. sqes' = sqes /\ cqes' = cqes
    BY <1>2, <1>4, <1>5 DEF Changes
  <2>2. SameQueues
    BY <1>1, <1>5, <2>1 DEF SameQueues, ViewInv
  <2> QED
    BY <2>2, ViewFrame
<1>6. CASE \E id \in host.open : /\ Log[id] = cmd /\ aposted' = Append(aposted, id)
                                             /\ \A k \in DOMAIN aposted : aposted[k] # id
  <2>1. PICK id \in host.open : /\ Log[id] = cmd /\ aposted' = Append(aposted, id)
                                /\ \A k \in DOMAIN aposted : aposted[k] # id
    BY <1>6
  <2>2. id \in Nat /\ SentView(cmd)
    BY <2>1, OpenFacts DEF ViewInv, HostQueues
  <2>3. /\ \A op, q : Executed(op, q)' <=> Executed(op, q) \/ (op = cmd.op /\ q = cmd.qid)
        /\ \A k \in DOMAIN aposted' : (k \in DOMAIN aposted /\ aposted'[k] = aposted[k]) \/ aposted'[k] = id
    BY <1>1, <2>1, <2>2, ExecutedMore
  <2>4. /\ sqes \in [Queues -> {NIL} \cup SqStructs] /\ cqes \in [Queues -> {NIL} \cup CqStructs]
        /\ \A q \in Queues : /\ sqes[q] # NIL <=> Executed("create_sq", q) \/ (host.sq[q] # NIL /\ ~Executed("delete_sq", q))
                             /\ cqes[q] # NIL <=> Executed("create_cq", q) \/ (q \in host.cq /\ ~Executed("delete_cq", q))
                             /\ sqes[q] # NIL /\ host.sq[q] # NIL => sqes[q].cqid = host.sq[q].cqid
        /\ \A i \in DOMAIN aposted : Log[aposted[i]].op = "create_sq" =>
              sqes[Log[aposted[i]].qid].cqid = Log[aposted[i]].cqid
    BY DEF ViewInv
  <2>5. ASSUME sqes' \in [Queues -> {NIL} \cup SqStructs], cqes' \in [Queues -> {NIL} \cup CqStructs],
               \A q \in Queues : /\ sqes'[q] # NIL <=> Executed("create_sq", q)' \/ (host.sq[q] # NIL /\ ~Executed("delete_sq", q)')
                                 /\ cqes'[q] # NIL <=> Executed("create_cq", q)' \/ (q \in host.cq /\ ~Executed("delete_cq", q)')
                                 /\ sqes'[q] # NIL /\ host.sq[q] # NIL => sqes'[q].cqid = host.sq[q].cqid,
               \A i \in DOMAIN aposted' : Log[aposted'[i]].op = "create_sq" =>
                  sqes'[Log[aposted'[i]].qid].cqid = Log[aposted'[i]].cqid
        PROVE  ViewInv'
    BY <1>1, <1>3, <2>5 DEF ViewInv
  <2>6. CASE cmd.op \notin OnQueues \ {"set_features"} /\ UNCHANGED <<sqes, cqes, dbs, old_dbs>>
    <3>1. cmd.op \notin {"create_sq", "delete_sq", "create_cq", "delete_cq"}
      BY <2>6 DEF OnQueues
    <3>2. \A i \in DOMAIN aposted' : Log[aposted'[i]].op = "create_sq" =>
                  sqes'[Log[aposted'[i]].qid].cqid = Log[aposted'[i]].cqid
      BY <2>1, <2>3, <2>4, <2>6, <3>1
    <3> QED
      BY <2>3, <2>4, <2>5, <2>6, <3>1, <3>2
  <2>7. PICK p, hs, hc : p = cmd.qid /\ hs = host.sq /\ hc = host.cq
    OBVIOUS
  <2>8. ASSUME cmd.op \in OnQueues
        PROVE  \A op \in OnQueues : \A q : ~Executed(op, q)
    BY <2>1, <2>8, OpenFacts
  <2>13. \A k \in DOMAIN aposted : Executed(Log[aposted[k]].op, Log[aposted[k]].qid)
    BY DEF Executed
  <2>9. CASE cmd.op = "create_cq" /\ p \in Queues /\ create_cq(cmd)
    <3>1. \A q \in Queues : /\ ~Executed("create_sq", q)' /\ ~Executed("delete_sq", q)' /\ ~Executed("delete_cq", q)'
                            /\ Executed("create_cq", q)' <=> q = p
                            /\ ~Executed("create_sq", q) /\ ~Executed("delete_sq", q) /\ ~Executed("delete_cq", q)
                            /\ ~Executed("create_cq", q)
      BY <2>3, <2>7, <2>8, <2>9 DEF OnQueues
    <3>2. PICK x : /\ x = [irq_enabled |-> cmd.irq, interrupt_ready |-> FALSE, queue_size |-> CqSize,
                           phase |-> 1, cq_head |-> 0, entry_lock |-> FALSE]
                   /\ cqes' = [cqes EXCEPT ![p] = x] /\ sqes' = sqes
      BY <2>7, <2>9 DEF create_cq
    <3>3. x \in CqStructs
      <4>1. cmd.irq \in BOOLEAN
        BY <2>1, OpenFacts DEF Commands
      <4>2. 0 \in 0 .. CqSize - 1
        BY QueueFacts
      <4> QED
        BY <3>2, <4>1, <4>2 DEF CqStructs
    <3>4. x # NIL /\ cqes' \in [Queues -> {NIL} \cup CqStructs] /\ \A q \in Queues : cqes'[q] = IF q = p THEN x ELSE cqes[q]
      BY <2>4, <2>9, <3>2, <3>3, NilFacts
    <3>5. \A i \in DOMAIN aposted' : Log[aposted'[i]].op = "create_sq" =>
                  sqes'[Log[aposted'[i]].qid].cqid = Log[aposted'[i]].cqid
      BY <2>1, <2>3, <2>4, <2>9, <3>2
    <3> QED
      BY <2>4, <2>5, <2>7, <2>9, <3>1, <3>2, <3>4, <3>5
  <2>10. CASE cmd.op = "delete_cq" /\ p \in Queues /\ delete_cq(cmd)
    <3>1. \A q \in Queues : /\ ~Executed("create_sq", q)' /\ ~Executed("delete_sq", q)' /\ ~Executed("create_cq", q)'
                            /\ Executed("delete_cq", q)' <=> q = p
                            /\ ~Executed("create_sq", q) /\ ~Executed("delete_sq", q) /\ ~Executed("delete_cq", q)
                            /\ ~Executed("create_cq", q)
      BY <2>3, <2>7, <2>8, <2>10 DEF OnQueues
    <3>2. cqes' = [cqes EXCEPT ![p] = NIL] /\ sqes' = sqes
      BY <2>7, <2>10 DEF delete_cq
    <3>4. cqes' \in [Queues -> {NIL} \cup CqStructs] /\ \A q \in Queues : cqes'[q] = IF q = p THEN NIL ELSE cqes[q]
      BY <2>4, <2>10, <3>2
    <3>5. \A i \in DOMAIN aposted' : Log[aposted'[i]].op = "create_sq" =>
                  sqes'[Log[aposted'[i]].qid].cqid = Log[aposted'[i]].cqid
      BY <2>1, <2>3, <2>4, <2>10, <3>2
    <3> QED
      BY <2>4, <2>5, <2>7, <2>10, <3>1, <3>2, <3>4, <3>5
  <2>11. CASE cmd.op = "delete_sq" /\ p \in Queues /\ delete_sq(cmd)
    <3>1. \A q \in Queues : /\ ~Executed("create_sq", q)' /\ ~Executed("delete_cq", q)' /\ ~Executed("create_cq", q)'
                            /\ Executed("delete_sq", q)' <=> q = p
                            /\ ~Executed("create_sq", q) /\ ~Executed("delete_sq", q) /\ ~Executed("delete_cq", q)
                            /\ ~Executed("create_cq", q)
      BY <2>3, <2>7, <2>8, <2>11 DEF OnQueues
    <3>2. sqes' = [sqes EXCEPT ![p] = NIL] /\ cqes' = cqes
      BY <2>7, <2>11 DEF delete_sq
    <3>4. sqes' \in [Queues -> {NIL} \cup SqStructs] /\ \A q \in Queues : sqes'[q] = IF q = p THEN NIL ELSE sqes[q]
      BY <2>4, <2>11, <3>2
    <3>5. \A i \in DOMAIN aposted' : Log[aposted'[i]].op # "create_sq"
      <4>1. \A k \in DOMAIN aposted : Log[aposted[k]].op # "create_sq"
        BY <2>13, <2>8, <2>11 DEF OnQueues
      <4> QED
        BY <2>1, <2>3, <2>11, <4>1
    <3> QED
      BY <2>4, <2>5, <2>7, <2>11, <3>1, <3>2, <3>4, <3>5
  <2>12. CASE cmd.op = "create_sq" /\ p \in Queues /\ cmd.cqid \in Queues /\ create_sq(cmd)
    <3>1. \A q \in Queues : /\ ~Executed("delete_sq", q)' /\ ~Executed("delete_cq", q)' /\ ~Executed("create_cq", q)'
                            /\ Executed("create_sq", q)' <=> q = p
                            /\ ~Executed("create_sq", q) /\ ~Executed("delete_sq", q) /\ ~Executed("delete_cq", q)
                            /\ ~Executed("create_cq", q)
      BY <2>3, <2>7, <2>8, <2>12 DEF OnQueues
    <3>2. PICK x : x = [cqid |-> cmd.cqid, queue_size |-> SqSize] /\ sqes' = [sqes EXCEPT ![p] = x] /\ cqes' = cqes
      BY <2>7, <2>12 DEF create_sq
    <3>3. x \in SqStructs /\ x # NIL /\ x.cqid = cmd.cqid
      BY <2>12, <3>2, NilFacts DEF SqStructs
    <3>4. sqes' \in [Queues -> {NIL} \cup SqStructs] /\ \A q \in Queues : sqes'[q] = IF q = p THEN x ELSE sqes[q]
      BY <2>4, <2>12, <3>2, <3>3
    <3>5. \A i \in DOMAIN aposted' : Log[aposted'[i]].op = "create_sq" => aposted'[i] = id
      <4>1. \A k \in DOMAIN aposted : Log[aposted[k]].op # "create_sq"
        BY <2>13, <2>8, <2>12 DEF OnQueues
      <4> QED
        BY <2>3, <4>1
    <3>6. hs[p] = NIL
      BY <2>2, <2>7, <2>12 DEF SentView
    <3>7. \A i \in DOMAIN aposted' : Log[aposted'[i]].op = "create_sq" =>
                  sqes'[Log[aposted'[i]].qid].cqid = Log[aposted'[i]].cqid
      BY <2>1, <2>7, <2>12, <3>3, <3>4, <3>5
    <3> QED
      BY <2>4, <2>5, <2>7, <2>12, <3>1, <3>2, <3>3, <3>4, <3>6, <3>7
  <2> QED
    BY <1>2, <2>6, <2>7, <2>9, <2>10, <2>11, <2>12 DEF Changes
<1> QED
    BY <1>2, <1>5, <1>6

-----------------------------------------------------------------------------
(* The rings of the I/O queues. *)

\* Nothing that the invariants of the submission rings look at changes.
SameRing(q) == FromQ(q)' = FromQ(q) /\ Left(q)' = Left(q) /\ \A k : OwedAt(q, k)' = OwedAt(q, k)

LEMMA RingFrame ==
    ASSUME NEW q \in Queues, sqm' = sqm, dbs'[q] = dbs[q], old_dbs'[q] = old_dbs[q],
           disp' = disp \/ (disp.pc # "io" /\ disp'.pc # "io")
    PROVE  SameRing(q)
<1>1. FromQ(q)' = FromQ(q)
    BY DEF FromQ
<1>2. Left(q)' = Left(q)
    BY <1>1 DEF Left
<1>3. \A k : OwedAt(q, k)' = OwedAt(q, k)
    BY <1>1 DEF OwedAt
<1> QED
    BY <1>1, <1>2, <1>3 DEF SameRing

LEMMA PlacesFrame ==
    ASSUME io' = io, work' = work, posted' = posted
    PROVE  /\ \A i : (Open(i)' <=> Open(i)) /\ (Posted(i)' <=> Posted(i)) /\ (InWork(i)' <=> InWork(i))
           /\ \A q : Unposted(q)' = Unposted(q)
<1>1. \A i : (Open(i)' <=> Open(i)) /\ (Posted(i)' <=> Posted(i)) /\ (InWork(i)' <=> InWork(i))
    BY DEF Open, Posted, InWork
<1>2. \A q : Unposted(q)' = Unposted(q)
    BY DEF Unposted
<1> QED
    BY <1>1, <1>2

\* Commands stay where they are: a ring that is in use is as before, or empty.
LEMMA SqFrame ==
    ASSUME SqInv, UNCHANGED <<sqm, io, work, posted>>,
           disp' = disp \/ (disp.pc # "io" /\ disp'.pc # "io"),
           \A q \in Queues : dbs'[q] < SqSize /\ old_dbs'[q] < SqSize,
           \A q \in Queues : Executed("create_sq", q)' => dbs'[q] = 0 /\ old_dbs'[q] = 0,
           \A q \in Queues : disp.pc = "io" /\ disp.q = q => host'.sq[q] # NIL /\ sqes'[q] # NIL /\ SameRing(q),
           \A q \in Queues : host'.sq[q] # NIL =>
              dbs'[q] = rings'.tail[q] /\ (Left(q)' = 0 \/ (host.sq[q] # NIL /\ SameRing(q)))
    PROVE  SqInv'
<1>1. \A i : (Open(i)' <=> Open(i)) /\ (Posted(i)' <=> Posted(i)) /\ (InWork(i)' <=> InWork(i))
    BY PlacesFrame
<1>2. ASSUME NEW q \in Queues, NEW k, SameRing(q), OwedOk(q, k)
      PROVE  OwedOk(q, k)'
    BY <1>1, <1>2 DEF OwedOk, SameRing
<1>3. disp'.pc = "io" => disp' = disp
    OBVIOUS
<1>4. \A q \in Queues : disp'.pc = "io" /\ disp'.q = q =>
          /\ host'.sq[q] # NIL /\ sqes'[q] # NIL
          /\ disp'.at < SqSize /\ disp'.new < SqSize
          /\ Dist(disp'.at, disp'.new, SqSize) <= Left(q)'
    BY <1>3 DEF SqInv, SameRing
<1>5. ASSUME NEW q \in Queues, host'.sq[q] # NIL
      PROVE  dbs'[q] = rings'.tail[q] /\ \A k \in 0 .. Left(q)' - 1 : OwedOk(q, k)'
  <2>1. CASE Left(q)' = 0
    BY <1>5, <2>1
  <2>2. CASE host.sq[q] # NIL /\ SameRing(q)
    BY <1>2, <1>5, <2>2 DEF SqInv, SameRing
  <2> QED
    BY <1>5, <2>1, <2>2
<1>6. sqm' \in [Queues -> [0 .. SqSize - 1 -> 0 .. NrIos]]
    BY DEF SqInv
<1> QED
    BY <1>4, <1>5, <1>6 DEF SqInv

LEMMA QueueOf ==
    ASSUME IoInv, NEW i \in Ios, io[i].st # "new"
    PROVE  io[i].q \in Queues /\ io[i].c \in Queues
<1>1. io[i].q \in 0 .. NrQueues /\ io[i].q # 0 /\ io[i].c \in 0 .. NrQueues /\ io[i].c # 0
    BY DEF IoInv
<1> QED
    BY <1>1, QueueFacts

LEMMA IoFrame ==
    ASSUME IoInv, UNCHANGED <<io, work, posted, taken>>,
           \A i \in Ios, q \in Queues : Open(i) /\ ~Posted(i) /\ io[i].q = q =>
              host'.sq[q] = host.sq[q] /\ SameRing(q)
    PROVE  IoInv'
<1>1. \A i : (Open(i)' <=> Open(i)) /\ (Posted(i)' <=> Posted(i)) /\ (InWork(i)' <=> InWork(i))
    BY PlacesFrame
<1>2. \A i \in Ios : Open(i) /\ ~Posted(i) => Located(i)'
  <2> SUFFICES ASSUME NEW i \in Ios, Open(i), ~Posted(i) PROVE Located(i)'
    OBVIOUS
  <2>1. PICK q : q = io[i].q
    OBVIOUS
  <2>2. q \in Queues /\ Located(i)
    BY <2>1, QueueOf DEF Open, IoInv
  <2> QED
    BY <1>1, <2>1, <2>2 DEF Located, SameRing
<1> QED
    BY <1>1, <1>2 DEF IoInv, OpenOn

\* A step of the admin queue that leaves the queues as the host has them.
LEMMA QuietKeeps ==
    ASSUME QueueInv, SameQueues, UNCHANGED ioVars, UNCHANGED cqes,
           \A q \in Queues : dbs'[q] = dbs[q] /\ old_dbs'[q] = old_dbs[q],
           disp' = disp \/ (disp.pc # "io" /\ disp'.pc # "io")
    PROVE  QueueInv'
<1>1. UNCHANGED <<sqm, cqm, rings, io, work, thr, taken, posted>>
    BY DEF ioVars
<1>2. \A q \in Queues : SameRing(q)
    BY <1>1, RingFrame
<1>3. /\ host'.open = host.open /\ host'.sq = host.sq /\ host'.cq = host.cq /\ Log' = Log
      /\ aposted' = aposted /\ sqes' = sqes /\ cqes' = cqes
    BY DEF SameQueues
<1>4. \A op, q : Executed(op, q)' <=> Executed(op, q)
    BY <1>3 DEF Executed
<1>5. ViewInv'
    BY ViewFrame DEF QueueInv
<1>6. SqInv'
  <2>1. \A q \in Queues : dbs'[q] < SqSize /\ old_dbs'[q] < SqSize
    BY DEF QueueInv, SqInv
  <2>2. \A q \in Queues : Executed("create_sq", q)' => dbs'[q] = 0 /\ old_dbs'[q] = 0
    BY <1>4 DEF QueueInv, SqInv
  <2>3. \A q \in Queues : disp.pc = "io" /\ disp.q = q => host'.sq[q] # NIL /\ sqes'[q] # NIL /\ SameRing(q)
    BY <1>2, <1>3 DEF QueueInv, SqInv
  <2>4. \A q \in Queues : host'.sq[q] # NIL =>
              dbs'[q] = rings'.tail[q] /\ (Left(q)' = 0 \/ (host.sq[q] # NIL /\ SameRing(q)))
    BY <1>1, <1>2, <1>3 DEF QueueInv, SqInv
  <2> QED
    BY <1>1, <2>1, <2>2, <2>3, <2>4, SqFrame DEF QueueInv
<1>7. IoInv'
    BY <1>1, <1>2, <1>3, IoFrame DEF QueueInv
<1>8. CqInv'
  <2>1. CqInv
    BY DEF QueueInv
  <2> QED
    BY <1>1, <1>3, <2>1 DEF CqInv, CqOk, Posting, Open
<1>9. SentInv'
  <2>1. \A cmd : SentRings(cmd) => SentRings(cmd)'
    BY <1>1, <1>4, PlacesFrame DEF SentRings
  <2>2. \A i \in host'.open : SentRings(Log[i])'
    <3> SUFFICES ASSUME NEW i \in host.open PROVE SentRings(Log[i])'
      BY <1>3
    <3>1. PICK cmd : cmd = Log[i]
      OBVIOUS
    <3>2. SentRings(cmd)'
      BY <2>1, <3>1 DEF QueueInv, SentInv
    <3> QED
      BY <1>3, <3>1, <3>2 DEF SentRings
  <2> QED
    BY <2>2 DEF SentInv
<1> QED
    BY <1>5, <1>6, <1>7, <1>8, <1>9 DEF QueueInv

LEMMA HostStartQueues ==
    ASSUME AdminInv, QueueInv, HostStart, UNCHANGED ioVars
    PROVE  QueueInv'
<1>1. UNCHANGED <<sqm, cqm, rings, io, work, thr, taken, posted>>
    BY DEF ioVars
<1>2. UNCHANGED <<sqes, cqes, disp, dbs, old_dbs>>
    BY DEF HostStart, queues
<1>3. \A q \in Queues : SameRing(q)
    BY <1>1, <1>2, RingFrame
<1>4. /\ host'.open = {} /\ host'.sq = host.sq /\ host'.cq = host.cq /\ ViewInv'
      /\ \A op, q : ~Executed(op, q)'
    BY HostStartView DEF QueueInv
<1>6. SqInv'
  <2>1. \A q \in Queues : dbs'[q] < SqSize /\ old_dbs'[q] < SqSize
    BY <1>2 DEF QueueInv, SqInv
  <2>2. \A q \in Queues : Executed("create_sq", q)' => dbs'[q] = 0 /\ old_dbs'[q] = 0
    BY <1>4
  <2>3. \A q \in Queues : disp.pc = "io" /\ disp.q = q => host'.sq[q] # NIL /\ sqes'[q] # NIL /\ SameRing(q)
    BY <1>2, <1>3, <1>4 DEF QueueInv, SqInv
  <2>4. \A q \in Queues : host'.sq[q] # NIL =>
              dbs'[q] = rings'.tail[q] /\ (Left(q)' = 0 \/ (host.sq[q] # NIL /\ SameRing(q)))
    BY <1>1, <1>2, <1>3, <1>4 DEF QueueInv, SqInv
  <2> QED
    BY <1>1, <1>2, <2>1, <2>2, <2>3, <2>4, SqFrame DEF QueueInv
<1>7. IoInv'
    BY <1>1, <1>3, <1>4, IoFrame DEF QueueInv
<1>8. CqInv'
  <2>1. CqInv
    BY DEF QueueInv
  <2> QED
    BY <1>1, <1>2, <1>4, <2>1 DEF CqInv, CqOk, Posting, Open
<1>9. SentInv'
    BY <1>4 DEF SentInv
<1> QED
    BY <1>4, <1>6, <1>7, <1>8, <1>9 DEF QueueInv

\* A completion ring of zeroed memory, looked at from its start.
LEMMA ZeroRing ==
    ASSUME NEW d \in Nat \ {0}, NEW ring, ring = [i \in 0 .. d - 1 |-> [id |-> 0, phase |-> 0]]
    PROVE  /\ ring \in [0 .. d - 1 -> [id : Nat, phase : {0, 1}]]
           /\ CqRing(ring, 0, 1, <<>>, d)
<1>1. \A i \in 0 .. d - 1 : ring[i] = [id |-> 0, phase |-> 0] /\ ring[i].phase = 0
    OBVIOUS
<1>2. ring \in [0 .. d - 1 -> [id : Nat, phase : {0, 1}]]
    OBVIOUS
<1>3. Len(<<>>) = 0
    OBVIOUS
<1>4. 0 \in 0 .. d - 1
    OBVIOUS
<1>5. \A i \in 0 .. d - 1 : At(0, i, d) = i /\ Tag(0, i, 1, d) = 1
    BY DEF At, Tag
<1>6. \A i \in 0 .. d - 1 : ring[At(0, i, d)].phase = Tag(0, i, 1, d) <=> i < Len(<<>>)
    BY <1>1, <1>3, <1>5
<1>7. \A i \in 1 .. Len(<<>>) : FALSE
    BY <1>3
<1> QED
    BY <1>2, <1>3, <1>4, <1>6, <1>7 DEF CqRing

\* What is sent is what the rings of the queues are ready for.
LEMMA HostSendQueues ==
    ASSUME AdminInv, RingInv, QueueInv, NEW cmd, HostSend(cmd)
    PROVE  QueueInv'
<1>1. UNCHANGED <<sqm, io, work, thr, taken, posted>>
    BY DEF HostSend
<1>2. /\ host.st = "up" /\ host'.sq = host.sq /\ host'.cq = host.cq /\ Log' = Log /\ aposted' = aposted
      /\ UNCHANGED <<sqes, cqes, disp, old_dbs>> /\ \A q \in Queues : dbs'[q] = dbs[q]
      /\ cmd.op \in OnQueues => \A i \in host.open : Log[i].op \notin OnQueues
      /\ MaySend(cmd) /\ IoQuiet(cmd)
      /\ cmd.op \in OnQueues \ {"set_features"} => cmd.qid \in Queues
    BY SendFacts
<1>3. \A q \in Queues : SameRing(q)
    BY <1>1, <1>2, RingFrame
<1>4. ViewInv' /\ \A op, q : Executed(op, q)' <=> Executed(op, q)
    BY HostSendView DEF QueueInv
<1>5. PICK p, rt, rh, rp : p = cmd.qid /\ rt = rings.tail /\ rh = rings.head /\ rp = rings.phase
    OBVIOUS
<1>6. {"create_sq", "delete_sq", "create_cq", "delete_cq"} \subseteq OnQueues \ {"set_features"}
    BY DEF OnQueues
<1>7. /\ rings'.tail = IF cmd.op = "create_sq" THEN [rt EXCEPT ![p] = 0] ELSE rt
      /\ rings'.head = IF cmd.op = "create_cq" THEN [rh EXCEPT ![p] = 0] ELSE rh
      /\ rings'.phase = IF cmd.op = "create_cq" THEN [rp EXCEPT ![p] = 1] ELSE rp
      /\ cqm' = IF cmd.op = "create_cq"
                THEN [cqm EXCEPT ![p] = [i \in 0 .. (CqSize - 1) |-> [id |-> 0, phase |-> 0]]] ELSE cqm
  <2>1. CASE cmd.op = "create_cq"
    <3>1. /\ rings' = [rings EXCEPT !.head[p] = 0, !.phase[p] = 1]
          /\ cqm' = [cqm EXCEPT ![p] = [i \in 0 .. (CqSize - 1) |-> [id |-> 0, phase |-> 0]]]
      BY <1>5, <2>1 DEF HostSend
    <3>2. RingsAre(rt, [rh EXCEPT ![p] = 0], [rp EXCEPT ![p] = 1])
      BY <1>5, <3>1, RingsFields
    <3> QED
      BY <2>1, <3>1, <3>2 DEF RingsAre
  <2>2. CASE cmd.op = "create_sq"
    <3>1. rings' = [rings EXCEPT !.tail[p] = 0] /\ cqm' = cqm
      BY <1>5, <2>2 DEF HostSend
    <3>2. RingsAre([rt EXCEPT ![p] = 0], rh, rp)
      BY <1>5, <3>1, RingsFields
    <3> QED
      BY <2>2, <3>1, <3>2 DEF RingsAre
  <2>3. CASE cmd.op \notin {"create_cq", "create_sq"}
    <3>1. UNCHANGED <<cqm, rings>>
      BY <2>3 DEF HostSend
    <3> QED
      BY <1>5, <2>3, <3>1
  <2> QED
    BY <2>1, <2>2, <2>3
<1>8. rt \in [Queues -> 0 .. SqSize - 1] /\ rh \in [Queues -> Nat] /\ rp \in [Queues -> {0, 1}]
    BY <1>5 DEF QueueInv, RingInv, CqInv
<1>9. SqInv'
  <2>1. \A q \in Queues : dbs'[q] < SqSize /\ old_dbs'[q] < SqSize
    BY <1>2 DEF QueueInv, SqInv
  <2>2. \A q \in Queues : Executed("create_sq", q)' => dbs'[q] = 0 /\ old_dbs'[q] = 0
    BY <1>2, <1>4 DEF QueueInv, SqInv
  <2>3. \A q \in Queues : disp.pc = "io" /\ disp.q = q => host'.sq[q] # NIL /\ sqes'[q] # NIL /\ SameRing(q)
    BY <1>2, <1>3 DEF QueueInv, SqInv
  <2>4. ASSUME NEW q \in Queues, host'.sq[q] # NIL
        PROVE  dbs'[q] = rings'.tail[q] /\ (Left(q)' = 0 \/ (host.sq[q] # NIL /\ SameRing(q)))
    <3>1. host.sq[q] # NIL /\ dbs[q] = rt[q]
      BY <1>2, <1>5, <2>4 DEF QueueInv, SqInv
    <3>2. cmd.op = "create_sq" => q # p
      BY <1>2, <1>5, <3>1 DEF MaySend
    <3>3. rings'.tail[q] = rt[q]
      BY <1>7, <1>8, <3>2
    <3> QED
      BY <1>2, <1>3, <3>1, <3>3
  <2> QED
    BY <1>1, <1>2, <2>1, <2>2, <2>3, <2>4, SqFrame DEF QueueInv
<1>10. IoInv'
    BY <1>1, <1>2, <1>3, IoFrame DEF QueueInv
<1>11. CqInv'
  <2>1. /\ cqm \in [Queues -> [0 .. CqSize - 1 -> [id : Nat, phase : {0, 1}]]]
        /\ posted \in [Queues -> Seq(Ios)] /\ \A c \in Queues : CqOk(c)
    BY DEF QueueInv, CqInv
  <2>2. PICK z : z = [i \in 0 .. (CqSize - 1) |-> [id |-> 0, phase |-> 0]]
    OBVIOUS
  <2>3. z \in [0 .. CqSize - 1 -> [id : Nat, phase : {0, 1}]] /\ CqRing(z, 0, 1, <<>>, CqSize)
    BY <2>2, QueueFacts, ZeroRing
  <2>4. cqm' \in [Queues -> [0 .. CqSize - 1 -> [id : Nat, phase : {0, 1}]]]
    BY <1>7, <2>1, <2>2, <2>3
  <2>5. rings'.head \in [Queues -> Nat] /\ rings'.phase \in [Queues -> {0, 1}]
    <3>1. rings'.head \in [Queues -> Nat]
      <4>1. 0 \in Nat
        OBVIOUS
      <4>2. [rh EXCEPT ![p] = 0] \in [Queues -> Nat]
        BY <1>8, <4>1
      <4> QED
        BY <1>7, <1>8, <4>2
    <3>2. rings'.phase \in [Queues -> {0, 1}]
      BY <1>7, <1>8
    <3> QED
      BY <3>1, <3>2
  <2>6. ASSUME NEW c \in Queues, cmd.op # "create_cq" \/ c # p
        PROVE  CqOk(c)'
    <3>1. cqm'[c] = cqm[c] /\ rings'.head[c] = rings.head[c] /\ rings'.phase[c] = rings.phase[c]
      BY <1>5, <1>7, <1>8, <2>1, <2>6
    <3> QED
      BY <1>1, <1>2, <2>1, <3>1 DEF CqOk, Open
  <2>7. ASSUME cmd.op = "create_cq", p \in Queues
        PROVE  CqOk(p)'
    <3>1. p \notin host.cq /\ ~Executed("create_cq", p)
      BY <1>2, <1>5, <1>6, <2>7, OpenFacts DEF MaySend
    <3>2. cqes[p] = NIL /\ posted[p] = <<>>
      BY <2>1, <2>7, <3>1 DEF QueueInv, ViewInv, CqOk
    <3>3. cqm'[p] = z /\ rings'.head[p] = 0 /\ rings'.phase[p] = 1
      BY <1>7, <1>8, <2>1, <2>2, <2>7
    <3>4. posted'[p] = <<>> /\ cqes'[p] = NIL
      BY <1>1, <1>2, <3>2
    <3>5. DOMAIN posted'[p] = {}
      BY <3>4
    <3> QED
      BY <2>3, <3>3, <3>4, <3>5 DEF CqOk
  <2>8. \A c \in Queues : CqOk(c)'
    BY <1>2, <1>5, <1>6, <2>6, <2>7
  <2>9. /\ thr' \in [Workers -> [pc : {"idle", "post", "signal"}, x : 0 .. NrIos, cq : 0 .. NrQueues]]
        /\ \A w \in Workers : Posting(w)'
    BY <1>1, <1>2 DEF QueueInv, CqInv, Posting
  <2> QED
    BY <1>1, <2>1, <2>4, <2>5, <2>8, <2>9 DEF CqInv
<1>12. SentInv'
  <2>1. PICK id : host'.open = host.open \cup {id} /\ Log[id] = cmd
    BY SendFacts
  <2>2. SentRings(cmd)'
    <3>1. cmd.op = "create_cq" => rings'.head[p] = 0 /\ rings'.phase[p] = 1
      BY <1>2, <1>5, <1>6, <1>7, <1>8
    <3>2. cmd.op = "create_sq" => rings'.tail[p] = 0
      BY <1>2, <1>5, <1>6, <1>7, <1>8
    <3>3. cmd.op = "delete_sq" => Unposted(p)' = {}
      BY <1>1, <1>2, <1>5, PlacesFrame DEF IoQuiet
    <3>4. cmd.op = "delete_cq" => posted'[p] = <<>> /\ \A w \in Workers : thr'[w].pc = "post" => thr'[w].cq # p
      BY <1>1, <1>2, <1>5 DEF IoQuiet
    <3> QED
      BY <1>5, <3>1, <3>2, <3>3, <3>4 DEF SentRings
  <2>3. ASSUME NEW i \in host.open
        PROVE  SentRings(Log[i])'
    <3>1. PICK x : x = Log[i]
      OBVIOUS
    <3>2. SentRings(x)
      BY <3>1 DEF QueueInv, SentInv
    <3>3. CASE cmd.op \in OnQueues
      <4>1. x.op \notin {"create_sq", "delete_sq", "create_cq", "delete_cq"}
        BY <1>2, <1>6, <3>1, <3>3
      <4> QED
        BY <1>2, <3>1, <4>1 DEF SentRings
    <3>4. CASE cmd.op \notin OnQueues
      <4>1. rings'.tail = rings.tail /\ rings'.head = rings.head /\ rings'.phase = rings.phase
        BY <1>5, <1>6, <1>7, <3>4
      <4>2. SentRings(x)'
        BY <1>1, <1>4, <3>2, <4>1, PlacesFrame DEF SentRings
      <4> QED
        BY <1>2, <3>1, <4>2 DEF SentRings
    <3> QED
      BY <3>3, <3>4
  <2>4. \A i \in host'.open : SentRings(Log[i])'
    <3>1. SentRings(Log[id])'
      BY <1>2, <2>1, <2>2 DEF SentRings
    <3> QED
      BY <2>1, <2>3, <3>1
  <2> QED
    BY <2>4 DEF SentInv
<1> QED
    BY <1>4, <1>9, <1>10, <1>11, <1>12 DEF QueueInv

\* The host takes the answers: it may use a queue made, and not one deleted.
LEMMA AdminIrqQueues ==
    ASSUME AdminInv, QueueInv, HostAdminIrq, UNCHANGED ioVars
    PROVE  QueueInv'
<1>1. UNCHANGED <<sqm, cqm, rings, io, work, thr, taken, posted>>
    BY DEF ioVars
<1>2. UNCHANGED <<sqes, cqes, disp, dbs, old_dbs>>
    BY DEF HostAdminIrq, queues
<1>3. \A q \in Queues : SameRing(q)
    BY <1>1, <1>2, RingFrame
<1>4. ViewInv' /\ \A op, q : ~Executed(op, q)'
    BY AdminIrqView DEF QueueInv
<1>5. Log' = Log /\ \A i \in host'.open : i \in host.open
    BY IrqViews DEF QueueInv
<1>6. {"create_sq", "delete_sq", "create_cq", "delete_cq"} \subseteq OnQueues \ {"set_features"}
    BY DEF OnQueues
<1>7. ASSUME NEW hs, NEW hc, hs = host'.sq, hc = host'.cq,
             \A q \in Queues : disp.pc = "io" /\ disp.q = q => hs[q] # NIL,
             \A q \in Queues : hs[q] # NIL => host.sq[q] # NIL \/ (dbs[q] = rings.tail[q] /\ Left(q) = 0),
             \A i \in Ios, q \in Queues : Open(i) /\ ~Posted(i) /\ io[i].q = q => hs[q] = host.sq[q],
             \A c \in Queues : c \notin hc => posted[c] = <<>>
      PROVE  SqInv' /\ IoInv' /\ CqInv'
  <2>1. SqInv'
    <3>1. \A q \in Queues : dbs'[q] < SqSize /\ old_dbs'[q] < SqSize
      BY <1>2 DEF QueueInv, SqInv
    <3>2. \A q \in Queues : Executed("create_sq", q)' => dbs'[q] = 0 /\ old_dbs'[q] = 0
      BY <1>4
    <3>3. \A q \in Queues : disp.pc = "io" /\ disp.q = q => host'.sq[q] # NIL /\ sqes'[q] # NIL /\ SameRing(q)
      BY <1>2, <1>3, <1>7 DEF QueueInv, SqInv
    <3>4. \A q \in Queues : host'.sq[q] # NIL =>
              dbs'[q] = rings'.tail[q] /\ (Left(q)' = 0 \/ (host.sq[q] # NIL /\ SameRing(q)))
      BY <1>1, <1>2, <1>3, <1>7 DEF QueueInv, SqInv, SameRing
    <3> QED
      BY <1>1, <1>2, <3>1, <3>2, <3>3, <3>4, SqFrame DEF QueueInv
  <2>2. IoInv'
    BY <1>1, <1>3, <1>7, IoFrame DEF QueueInv
  <2>3. CqInv'
    <3>1. CqInv
      BY DEF QueueInv
    <3>2. \A c \in Queues : CqOk(c)'
      BY <1>1, <1>2, <1>7, <3>1 DEF CqInv, CqOk, Open
    <3> QED
      BY <1>1, <1>2, <3>1, <3>2 DEF CqInv, Posting
  <2> QED
    BY <2>1, <2>2, <2>3
<1>8. CASE /\ host'.sq = host.sq /\ host'.cq = host.cq
           /\ \A op \in OnQueues \ {"set_features"} : \A q : ~Executed(op, q)
  <2>1. SqInv' /\ IoInv' /\ CqInv'
    <3>1. \A q \in Queues : disp.pc = "io" /\ disp.q = q => host'.sq[q] # NIL
      BY <1>8 DEF QueueInv, SqInv
    <3>2. \A c \in Queues : c \notin host'.cq => posted[c] = <<>>
      BY <1>8 DEF QueueInv, CqInv, CqOk
    <3> QED
      BY <1>7, <1>8, <3>1, <3>2
  <2>2. \A op \in OnQueues \ {"set_features"} : \A q : ~Executed(op, q)
    BY <1>8
  <2>3. SentInv'
    <3> SUFFICES ASSUME NEW i \in host'.open PROVE SentRings(Log[i])'
      BY DEF SentInv
    <3>1. PICK x : x = Log[i]
      OBVIOUS
    <3>2. SentRings(x)
      BY <1>5, <3>1 DEF QueueInv, SentInv
    <3>3. SentRings(x)'
      BY <1>1, <1>6, <2>2, <3>2, PlacesFrame DEF SentRings
    <3> QED
      BY <1>5, <3>1, <3>3 DEF SentRings
  <2> QED
    BY <1>4, <2>1, <2>3 DEF QueueInv
<1>9. ASSUME NEW cmd, cmd.qid \in Queues, Executed(cmd.op, cmd.qid), SentView(cmd),
             \A i \in host'.open : Log[i].op \notin OnQueues,
             \/ /\ cmd.op = "create_cq" /\ host'.cq = host.cq \cup {cmd.qid} /\ host'.sq = host.sq
             \/ /\ cmd.op = "delete_cq" /\ host'.cq = host.cq \ {cmd.qid} /\ host'.sq = host.sq
             \/ /\ cmd.op = "create_sq" /\ host'.cq = host.cq
                /\ host'.sq = [host.sq EXCEPT ![cmd.qid] = [cqid |-> cmd.cqid]]
             \/ /\ cmd.op = "delete_sq" /\ host'.cq = host.cq
                /\ host'.sq = [host.sq EXCEPT ![cmd.qid] = NIL]
      PROVE  QueueInv'
  <2>1. PICK p, hs, hc : p \in Queues /\ p = cmd.qid /\ hs = host'.sq /\ hc = host'.cq
    BY <1>9
  <2>2. SentRings(cmd)
    <3>1. PICK i \in host.open : Log[i].op = cmd.op /\ Log[i].qid = cmd.qid
      BY <1>6, <1>9, OpenFacts
    <3>2. PICK x : x = Log[i]
      OBVIOUS
    <3>3. SentRings(x)
      BY <3>1, <3>2 DEF QueueInv, SentInv
    <3> QED
      BY <3>1, <3>2, <3>3 DEF SentRings
  <2>3. /\ hs[p] # host.sq[p] => \/ /\ cmd.op = "create_sq" /\ host.sq[p] = NIL /\ Executed("create_sq", p)
                                    /\ rings.tail[p] = 0
                                 \/ cmd.op = "delete_sq" /\ Unposted(p) = {} /\ sqes[p] = NIL
        /\ \A q \in Queues : q # p => hs[q] = host.sq[q]
    <3>1. host.sq \in [Queues -> {NIL} \cup [cqid : Queues]]
      BY DEF QueueInv, ViewInv, HostQueues
    <3>2. \A q \in Queues : q # p => hs[q] = host.sq[q]
      BY <1>9, <2>1, <3>1
    <3>3. cmd.op = "delete_sq" => Unposted(p) = {} /\ sqes[p] = NIL
      BY <1>9, <2>1, <2>2, DoneFacts DEF SentRings, QueueInv
    <3>4. cmd.op = "create_sq" => rings.tail[p] = 0 /\ host.sq[p] = NIL /\ Executed("create_sq", p)
      BY <1>9, <2>1, <2>2 DEF SentRings, SentView
    <3>5. hs[p] # host.sq[p] => cmd.op \in {"create_sq", "delete_sq"}
      BY <1>9, <2>1
    <3> QED
      BY <3>2, <3>3, <3>4, <3>5
  <2>4. \A q \in Queues : disp.pc = "io" /\ disp.q = q => host.sq[q] # NIL /\ sqes[q] # NIL
    BY DEF QueueInv, SqInv
  <2>5. \A q \in Queues : disp.pc = "io" /\ disp.q = q => hs[q] # NIL
    BY <2>3, <2>4
  <2>6. \A q \in Queues : hs[q] # NIL => host.sq[q] # NIL \/ (dbs[q] = rings.tail[q] /\ Left(q) = 0)
    <3> SUFFICES ASSUME NEW q \in Queues, hs[q] # NIL, host.sq[q] = NIL
                 PROVE  dbs[q] = rings.tail[q] /\ Left(q) = 0
      OBVIOUS
    <3>1. q = p /\ hs[p] # host.sq[p]
      BY <2>3
    <3>2. rings.tail[p] = 0 /\ Executed("create_sq", p)
      <4>1. cmd.op = "delete_sq" => hs[p] = NIL
        <5>1. host.sq \in [Queues -> {NIL} \cup [cqid : Queues]]
          BY DEF QueueInv, ViewInv, HostQueues
        <5> QED
          BY <1>9, <2>1, <5>1
      <4> QED
        BY <2>3, <3>1, <4>1
    <3>3. dbs[p] = 0 /\ old_dbs[p] = 0
      <4>1. \A r \in Queues : Executed("create_sq", r) => dbs[r] = 0 /\ old_dbs[r] = 0
        BY DEF QueueInv, SqInv
      <4> QED
        BY <2>1, <3>2, <4>1
    <3>4. FromQ(p) = 0
      BY <2>4, <3>1, <3>3 DEF FromQ
    <3>5. Left(p) = 0
      BY <3>3, <3>4 DEF Left, Dist
    <3> QED
      BY <3>1, <3>2, <3>3, <3>5
  <2>7. \A i \in Ios, q \in Queues : Open(i) /\ ~Posted(i) /\ io[i].q = q => hs[q] = host.sq[q]
    <3> SUFFICES ASSUME NEW i \in Ios, NEW q \in Queues, Open(i), ~Posted(i), io[i].q = q, hs[q] # host.sq[q]
                 PROVE  FALSE
      OBVIOUS
    <3>1. q = p
      BY <2>3
    <3>2. host.sq[q] # NIL
      BY DEF QueueInv, IoInv, Located
    <3>3. i \in Unposted(p)
      BY <3>1 DEF Unposted, Posted, Open
    <3> QED
      BY <2>3, <3>1, <3>2, <3>3
  <2>8. \A c \in Queues : c \notin hc => posted[c] = <<>>
    <3>1. cmd.op = "delete_cq" => posted[p] = <<>>
      BY <2>1, <2>2 DEF SentRings
    <3>2. \A c \in Queues : c \notin host.cq => posted[c] = <<>>
      BY DEF QueueInv, CqInv, CqOk
    <3> QED
      BY <1>9, <2>1, <3>1, <3>2
  <2>9. SqInv' /\ IoInv' /\ CqInv'
    BY <1>7, <2>1, <2>5, <2>6, <2>7, <2>8
  <2>10. SentInv'
    <3> SUFFICES ASSUME NEW i \in host'.open PROVE SentRings(Log[i])'
      BY DEF SentInv
    <3>1. Log'[i].op \notin OnQueues
      BY <1>5, <1>9
    <3> QED
      BY <1>6, <3>1 DEF SentRings
  <2> QED
    BY <1>4, <2>9, <2>10 DEF QueueInv
<1> QED
  <2> HIDE DEF QueueInv
  <2>1. ViewInv
    BY DEF QueueInv
  <2> QED
    BY <1>8, <1>9, <2>1, IrqViews

\* A command executed on the queues: the rings are as the host left them for it.
LEMMA AdminReqQueues ==
    ASSUME AdminInv, QueueInv, proc_admin_req, UNCHANGED ioVars
    PROVE  QueueInv'
<1>1. UNCHANGED <<sqm, cqm, rings, io, work, thr, taken, posted>>
    BY DEF ioVars
<1>2. host' = host /\ Log' = Log /\ disp.pc = "admin" /\ disp'.pc = "admin"
    BY ReqViews
<1>3. PICK cmd : /\ Changes(cmd)
                 /\ \/ cmd.op = "abort" /\ aposted' = aposted
                    \/ \E id \in host.open : /\ Log[id] = cmd /\ aposted' = Append(aposted, id)
                                             /\ \A k \in DOMAIN aposted : aposted[k] # id
    BY ReqViews
<1>4. ViewInv'
    BY AdminReqView DEF QueueInv
<1>5. CASE cmd.op = "abort" /\ aposted' = aposted
  <2>1. UNCHANGED <<sqes, cqes, dbs, old_dbs>>
    BY <1>3, <1>5 DEF Changes, OnQueues
  <2>2. SameQueues
    BY <1>2, <1>5, <2>1 DEF SameQueues, QueueInv, ViewInv
  <2>3. disp.pc # "io" /\ disp'.pc # "io"
    BY <1>2
  <2> QED
    BY <2>1, <2>2, <2>3, QuietKeeps
<1>6. CASE \E id \in host.open : /\ Log[id] = cmd /\ aposted' = Append(aposted, id)
                                 /\ \A k \in DOMAIN aposted : aposted[k] # id
  <2>1. PICK id \in host.open : /\ Log[id] = cmd /\ aposted' = Append(aposted, id)
                                /\ \A k \in DOMAIN aposted : aposted[k] # id
    BY <1>6
  <2>2. SentView(cmd) /\ SentRings(cmd) /\ id \in Nat
    BY <2>1, OpenFacts DEF QueueInv, ViewInv, HostQueues, SentInv
  <2>3. \A op, q : Executed(op, q)' <=> Executed(op, q) \/ (op = cmd.op /\ q = cmd.qid)
    BY <1>2, <2>1, <2>2, ExecutedMore
  <2>4. ASSUME cmd.op \in OnQueues
        PROVE  \A op \in OnQueues : \A q : ~Executed(op, q)
    BY <2>1, <2>4, OpenFacts
  <2>5. {"create_sq", "delete_sq", "create_cq", "delete_cq"} \subseteq OnQueues \ {"set_features"}
    BY DEF OnQueues
  <2>6. PICK p : p = cmd.qid
    OBVIOUS
  <2>7. dbs \in [0 .. NrQueues -> Nat] /\ old_dbs \in [0 .. NrQueues -> Nat] /\ Queues \subseteq 0 .. NrQueues
    BY QueueFacts DEF AdminInv, DispInv
  <2>8. \A q \in Queues : IF cmd.op = "create_sq" /\ q = p THEN dbs'[q] = 0 /\ old_dbs'[q] = 0
                          ELSE dbs'[q] = dbs[q] /\ old_dbs'[q] = old_dbs[q]
    BY <1>3, <2>6, <2>7 DEF Changes, create_sq, create_cq, delete_sq, delete_cq, OnQueues
  <2>9. disp.pc # "io" /\ disp'.pc # "io"
    BY <1>2
  <2>10. \A q \in Queues : cmd.op # "create_sq" \/ q # p => SameRing(q)
    BY <1>1, <2>8, <2>9, RingFrame
  <2>11. cmd.op = "create_sq" => host.sq[p] = NIL
    BY <2>2, <2>6 DEF SentView
  <2>12. SqInv'
    <3>1. \A q \in Queues : dbs'[q] < SqSize /\ old_dbs'[q] < SqSize
      BY <2>8, QueueFacts DEF QueueInv, SqInv
    <3>2. \A q \in Queues : Executed("create_sq", q)' => dbs'[q] = 0 /\ old_dbs'[q] = 0
      BY <2>3, <2>6, <2>8 DEF QueueInv, SqInv
    <3>3. \A q \in Queues : host'.sq[q] # NIL =>
              dbs'[q] = rings'.tail[q] /\ (Left(q)' = 0 \/ (host.sq[q] # NIL /\ SameRing(q)))
      BY <1>1, <1>2, <2>8, <2>10, <2>11 DEF QueueInv, SqInv
    <3> QED
      BY <1>1, <2>9, <3>1, <3>2, <3>3, SqFrame DEF QueueInv
  <2>13. IoInv'
    <3>1. \A i \in Ios, q \in Queues : Open(i) /\ ~Posted(i) /\ io[i].q = q => SameRing(q)
      BY <2>10, <2>11 DEF QueueInv, IoInv, Located
    <3> QED
      BY <1>1, <1>2, <3>1, IoFrame DEF QueueInv
  <2>14. CqInv'
    <3>1. CqInv
      BY DEF QueueInv
    <3>2. ASSUME NEW c \in Queues, cmd.op \notin {"create_cq", "delete_cq"} \/ c # p
          PROVE  cqes'[c] = cqes[c] /\ CqOk(c)'
      <4>1. cqes \in [Queues -> {NIL} \cup CqStructs]
        BY DEF QueueInv, ViewInv
      <4>2. cqes'[c] = cqes[c]
        BY <1>3, <2>6, <3>2, <4>1 DEF Changes, create_sq, create_cq, delete_sq, delete_cq
      <4>3. CqOk(c)
        BY <3>1 DEF CqInv
      <4> QED
        BY <1>1, <1>2, <4>2, <4>3 DEF CqOk, Open
    <3>3. ASSUME p \in Queues, cmd.op = "create_cq"
          PROVE  CqOk(p)' /\ \A w \in Workers : thr[w].pc = "post" => thr[w].cq # p
      <4>1. p \notin host.cq /\ ~Executed("create_cq", p)
        BY <2>2, <2>4, <2>5, <2>6, <3>3 DEF SentView
      <4>2. cqes[p] = NIL /\ posted[p] = <<>> /\ CqOk(p)
        BY <3>1, <3>3, <4>1 DEF QueueInv, ViewInv, CqOk, CqInv
      <4>3. rings.head[p] = 0 /\ rings.phase[p] = 1
        BY <2>2, <2>6, <3>3, <4>1 DEF SentRings
      <4>4. PICK x : /\ cqes'[p] = x /\ x.cq_head = 0 /\ x.phase = 1 /\ x.entry_lock = FALSE
        <5>1. cqes \in [Queues -> {NIL} \cup CqStructs]
          BY DEF QueueInv, ViewInv
        <5>2. cqes' = [cqes EXCEPT ![p] = [irq_enabled |-> cmd.irq, interrupt_ready |-> FALSE, queue_size |-> CqSize,
                                           phase |-> 1, cq_head |-> 0, entry_lock |-> FALSE]]
          BY <1>3, <2>5, <2>6, <3>3 DEF Changes, create_cq
        <5> QED
          BY <3>3, <5>1, <5>2
      <4>5. Advanced(x) = x
        BY <4>4 DEF Advanced
      <4>6. Len(<<>>) = 0 /\ At(0, 0, CqSize) = 0 /\ Tag(0, 0, 1, CqSize) = 1
        BY QueueFacts DEF At, Tag
      <4>7. /\ Advanced(cqes'[p]).cq_head = At(rings'.head[p], Len(posted'[p]), CqSize)
            /\ Advanced(cqes'[p]).phase = Tag(rings'.head[p], Len(posted'[p]), rings'.phase[p], CqSize)
        BY <1>1, <4>2, <4>3, <4>4, <4>5, <4>6
      <4>8. CqOk(p)'
        BY <1>1, <1>2, <4>2, <4>7 DEF CqOk, Open
      <4>9. \A w \in Workers : thr[w].pc = "post" => thr[w].cq # p
        BY <3>1, <4>2 DEF CqInv, Posting
      <4> QED
        BY <4>8, <4>9
    <3>4. ASSUME p \in Queues, cmd.op = "delete_cq"
          PROVE  CqOk(p)' /\ \A w \in Workers : thr[w].pc = "post" => thr[w].cq # p
      <4>1. cqes'[p] = NIL
        <5>1. cqes \in [Queues -> {NIL} \cup CqStructs]
          BY DEF QueueInv, ViewInv
        <5>2. cqes' = [cqes EXCEPT ![p] = NIL]
          BY <1>3, <2>5, <2>6, <3>4 DEF Changes, delete_cq
        <5> QED
          BY <3>4, <5>1, <5>2
      <4>2. CqOk(p)
        BY <3>1, <3>4 DEF CqInv
      <4>3. CqOk(p)'
        BY <1>1, <1>2, <4>1, <4>2 DEF CqOk, Open
      <4>4. \A w \in Workers : thr[w].pc = "post" => thr[w].cq # p
        BY <2>2, <2>6, <3>4 DEF SentRings
      <4> QED
        BY <4>3, <4>4
    <3>5. cmd.op \in {"create_cq", "delete_cq"} => p \in Queues
      BY <1>3, <2>5, <2>6 DEF Changes
    <3>6. \A c \in Queues : CqOk(c)'
      BY <3>2, <3>3, <3>4
    <3>7. ASSUME NEW w \in Workers
          PROVE  Posting(w)'
      <4>1. Posting(w)
        BY <3>1 DEF CqInv
      <4>2. thr[w].pc = "post" => cqes'[thr[w].cq] = cqes[thr[w].cq]
        BY <3>2, <3>3, <3>4, <3>5, <4>1 DEF Posting
      <4> QED
        BY <1>1, <4>1, <4>2 DEF Posting
    <3> QED
      BY <1>1, <3>1, <3>6, <3>7 DEF CqInv
  <2>15. SentInv'
    <3> SUFFICES ASSUME NEW i \in host.open PROVE SentRings(Log[i])'
      BY <1>2 DEF SentInv
    <3>1. PICK x : x = Log[i]
      OBVIOUS
    <3>2. SentRings(x)
      BY <3>1 DEF QueueInv, SentInv
    <3>3. SentRings(x)'
      BY <1>1, <2>3, <3>2, PlacesFrame DEF SentRings
    <3> QED
      BY <1>2, <3>1, <3>3 DEF SentRings
  <2> QED
    BY <1>4, <2>12, <2>13, <2>14, <2>15 DEF QueueInv
<1> QED
  <2> HIDE DEF QueueInv
  <2> QED
    BY <1>3, <1>5, <1>6

-----------------------------------------------------------------------------
(* The steps of the I/O queues: the submission side. *)

LEMMA ViewData ==
    ASSUME ViewInv, UNCHANGED <<host, aposted, sqes>>,
           cqes' \in [Queues -> {NIL} \cup CqStructs], \A c \in Queues : cqes'[c] # NIL <=> cqes[c] # NIL
    PROVE  ViewInv' /\ Log' = Log /\ \A op, q : Executed(op, q)' <=> Executed(op, q)
<1>1. Log' = Log
    BY DEF Log
<1>2. SameQueues
    BY <1>1 DEF SameQueues
<1> QED
    BY <1>1, <1>2, ViewFrame DEF Executed

LEMMA OwedFrame ==
    ASSUME NEW q, NEW k, UNCHANGED <<io, work, posted>>, SameRing(q), OwedOk(q, k)
    PROVE  OwedOk(q, k)'
BY PlacesFrame DEF OwedOk, SameRing

\* The dispatcher takes up a queue.
LEMMA DoorbellQueues ==
    ASSUME AdminInv, QueueInv, NEW p \in Queues, Doorbell(p)
    PROVE  QueueInv'
<1>1. UNCHANGED <<sqm, cqm, rings, io, work, thr, taken, posted>>
    BY DEF Doorbell, ioVars
<1>2. UNCHANGED <<host, aposted, sqes, cqes, dbs, old_dbs>>
    BY DEF Doorbell, queues
<1>3. /\ disp.pc = "idle" /\ disp' = [pc |-> "io", q |-> p, new |-> dbs[p], at |-> old_dbs[p]]
      /\ sqes[p] # NIL /\ dbs[p] # old_dbs[p]
    BY DEF Doorbell, Idle
<1>4. ViewInv' /\ Log' = Log /\ \A op, q : Executed(op, q)' <=> Executed(op, q)
    BY <1>2, ViewData DEF QueueInv, ViewInv
<1>5. \A q \in Queues : SameRing(q)
  <2> SUFFICES ASSUME NEW q \in Queues PROVE SameRing(q)
    OBVIOUS
  <2>1. FromQ(q)' = FromQ(q)
    BY <1>2, <1>3 DEF FromQ
  <2> QED
    BY <1>1, <1>2, <2>1 DEF SameRing, Left, OwedAt
<1>6. SqInv'
  <2>1. host.sq[p] # NIL
    BY <1>3 DEF QueueInv, ViewInv, SqInv
  <2>2. FromQ(p) = old_dbs[p]
    BY <1>3 DEF FromQ
  <2>3. Dist(old_dbs[p], dbs[p], SqSize) = Left(p) /\ Left(p)' = Left(p)
    BY <1>5, <2>2 DEF Left, SameRing
  <2>4. dbs[p] < SqSize /\ old_dbs[p] < SqSize /\ Left(p) <= Left(p)
    <3>1. dbs[p] \in Nat /\ old_dbs[p] \in Nat /\ dbs[p] < SqSize /\ old_dbs[p] < SqSize /\ SqSize \in Nat
      BY QueueFacts DEF AdminInv, DispInv, QueueInv, SqInv
    <3>2. Left(p) \in Int
      BY <2>2, <3>1 DEF Left, Dist
    <3> QED
      BY <3>1, <3>2
  <2>5. \A q \in Queues : disp'.pc = "io" /\ disp'.q = q =>
          /\ host'.sq[q] # NIL /\ sqes'[q] # NIL
          /\ disp'.at < SqSize /\ disp'.new < SqSize
          /\ Dist(disp'.at, disp'.new, SqSize) <= Left(q)'
    BY <1>2, <1>3, <2>1, <2>3, <2>4
  <2>6. \A q \in Queues : host'.sq[q] # NIL =>
          dbs'[q] = rings'.tail[q] /\ \A k \in 0 .. Left(q)' - 1 : OwedOk(q, k)'
    BY <1>1, <1>2, <1>5, OwedFrame DEF QueueInv, SqInv, SameRing
  <2>7. SqInv
    BY DEF QueueInv
  <2> QED
    BY <1>1, <1>2, <1>4, <2>5, <2>6, <2>7 DEF SqInv
<1>7. IoInv'
    BY <1>1, <1>2, <1>5, IoFrame DEF QueueInv
<1>8. CqInv' /\ SentInv'
  <2>1. CqInv'
    BY <1>1, <1>2 DEF QueueInv, CqInv, CqOk, Posting, Open
  <2>2. SentInv'
    BY <1>1, <1>2, <1>4, PlacesFrame DEF QueueInv, SentInv, SentRings
  <2> QED
    BY <2>1, <2>2
<1> QED
    BY <1>4, <1>6, <1>7, <1>8 DEF QueueInv

\* The dispatcher leaves the queue where it is: the rest is owed.
LEMMA LeaveSqQueues ==
    ASSUME AdminInv, QueueInv, LeaveSq
    PROVE  QueueInv'
<1>1. UNCHANGED <<sqm, cqm, rings, io, work, thr, taken, posted>>
    BY DEF LeaveSq, ioVars
<1>2. UNCHANGED <<host, aposted, sqes, cqes, dbs>>
    BY DEF LeaveSq, queues
<1>3. PICK p \in Queues : p = disp.q
  <2>1. disp.pc = "io" /\ disp.q \in 0 .. NrQueues /\ disp.q # 0
    BY DEF LeaveSq, AdminInv, DispInv
  <2> QED
    BY <2>1, QueueFacts
<1>4. disp.pc = "io" /\ disp'.pc = "idle" /\ old_dbs' = [old_dbs EXCEPT ![p] = disp.at]
    BY <1>3 DEF LeaveSq, LatestDb
<1>5. \A q \in Queues : old_dbs'[q] = IF q = p THEN disp.at ELSE old_dbs[q]
    BY <1>4, QueueFacts DEF AdminInv, DispInv
<1>6. ViewInv' /\ Log' = Log /\ \A op, q : Executed(op, q)' <=> Executed(op, q)
    BY <1>2, ViewData DEF QueueInv, ViewInv
<1>7. \A q \in Queues : SameRing(q)
  <2> SUFFICES ASSUME NEW q \in Queues PROVE SameRing(q)
    OBVIOUS
  <2>1. FromQ(q)' = FromQ(q)
    BY <1>3, <1>4, <1>5 DEF FromQ
  <2> QED
    BY <1>1, <1>2, <2>1 DEF SameRing, Left, OwedAt
<1>8. SqInv'
  <2>1. SqInv
    BY DEF QueueInv
  <2>2. disp.at < SqSize /\ host.sq[p] # NIL
    BY <1>3, <1>4, <2>1 DEF SqInv
  <2>3. \A q \in Queues : dbs'[q] < SqSize /\ old_dbs'[q] < SqSize
    BY <1>2, <1>5, <2>1, <2>2 DEF SqInv
  <2>4. \A q \in Queues : Executed("create_sq", q)' => dbs'[q] = 0 /\ old_dbs'[q] = 0
    BY <1>2, <1>5, <1>6, <2>1, <2>2, DoneFacts DEF SqInv, QueueInv
  <2>6. \A q \in Queues : host'.sq[q] # NIL =>
          dbs'[q] = rings'.tail[q] /\ \A k \in 0 .. Left(q)' - 1 : OwedOk(q, k)'
    BY <1>1, <1>2, <1>7, <2>1, OwedFrame DEF SqInv, SameRing
  <2> QED
    BY <1>1, <1>4, <2>1, <2>3, <2>4, <2>6 DEF SqInv
<1>9. IoInv'
    BY <1>1, <1>2, <1>7, IoFrame DEF QueueInv
<1>10. CqInv' /\ SentInv'
  <2>1. CqInv'
    BY <1>1, <1>2 DEF QueueInv, CqInv, CqOk, Posting, Open
  <2>2. SentInv'
    BY <1>1, <1>2, <1>6, PlacesFrame DEF QueueInv, SentInv, SentRings
  <2> QED
    BY <2>1, <2>2
<1> QED
    BY <1>6, <1>8, <1>9, <1>10 DEF QueueInv

\* Of a submission queue in use: where its entries are.
LEMMA LeftFacts ==
    ASSUME AdminInv, QueueInv, NEW q \in Queues
    PROVE  /\ FromQ(q) \in 0 .. SqSize - 1 /\ dbs[q] \in 0 .. SqSize - 1 /\ Left(q) \in 0 .. SqSize - 1
           /\ At(FromQ(q), Left(q), SqSize) = dbs[q]
<1>1. SqSize \in Nat \ {0, 1}
    BY QueueFacts
<1>2. dbs[q] \in Nat /\ old_dbs[q] \in Nat /\ dbs[q] < SqSize /\ old_dbs[q] < SqSize
    BY QueueFacts DEF AdminInv, DispInv, QueueInv, SqInv
<1>3. disp.pc = "io" /\ disp.q = q => disp.at \in Nat /\ disp.at < SqSize
    BY DEF AdminInv, DispInv, QueueInv, SqInv
<1>4. PICK f \in 0 .. SqSize - 1, b \in 0 .. SqSize - 1 : f = FromQ(q) /\ b = dbs[q]
    BY <1>1, <1>2, <1>3 DEF FromQ
<1>5. Dist(f, b, SqSize) \in 0 .. SqSize - 1 /\ At(f, Dist(f, b, SqSize), SqSize) = b
    BY <1>1, Ways
<1> QED
    BY <1>4, <1>5 DEF Left

\* A step towards b is one step less.
LEMMA Nearer ==
    ASSUME NEW d \in Nat \ {0}, NEW a \in 0 .. d - 1, NEW b \in 0 .. d - 1, a # b
    PROVE  Dist(Succ(a, d), b, d) = Dist(a, b, d) - 1
BY Ways

\* The entry at hand goes to the FTL and becomes work: the next one is at hand.
LEMMA AcceptQueues ==
    ASSUME AdminInv, QueueInv, Accept
    PROVE  QueueInv'
<1>1. UNCHANGED <<sqm, cqm, rings, io, thr, posted>>
    BY DEF Accept
<1>2. UNCHANGED <<host, aposted, sqes, cqes, dbs, old_dbs>>
    BY DEF Accept, queues
<1>3. PICK p \in Queues : p = disp.q
  <2>1. disp.pc = "io" /\ disp.q \in 0 .. NrQueues /\ disp.q # 0
    BY DEF Accept, AdminInv, DispInv
  <2> QED
    BY <2>1, QueueFacts
<1>4. PICK i : i = sqm[p][disp.at]
    OBVIOUS
<1>5. PICK d \in Nat \ {0, 1} : d = SqSize
    BY QueueFacts
<1>6. /\ disp.pc = "io" /\ host.sq[p] # NIL /\ sqes[p] # NIL
      /\ sqes[p].queue_size = d /\ sqes[p].cqid = host.sq[p].cqid
  <2>1. disp.pc = "io"
    BY DEF Accept
  <2>2. host.sq[p] # NIL /\ sqes[p] # NIL
    BY <1>3, <2>1 DEF QueueInv, SqInv
  <2>3. sqes[p] \in SqStructs /\ sqes[p].cqid = host.sq[p].cqid
    BY <2>2 DEF QueueInv, ViewInv
  <2> QED
    BY <1>5, <2>1, <2>2, <2>3 DEF SqStructs
<1>7. PICK a \in 0 .. d - 1, b \in 0 .. d - 1, n \in 0 .. d - 1 :
         /\ a = disp.at /\ b = dbs[p] /\ n = disp.new /\ a # n
         /\ FromQ(p) = a /\ Left(p) = Dist(a, b, d) /\ Dist(a, n, d) <= Dist(a, b, d)
  <2>1. FromQ(p) = disp.at
    BY <1>3, <1>6 DEF FromQ
  <2>2. disp.at \in 0 .. d - 1 /\ dbs[p] \in 0 .. d - 1
    BY <1>5, <2>1, LeftFacts
  <2>3. disp.new \in Nat /\ disp.new < d /\ disp.at # disp.new
    BY <1>3, <1>5, <1>6 DEF Accept, AdminInv, DispInv, QueueInv, SqInv
  <2>4. disp.new \in 0 .. d - 1
    BY <2>3
  <2>5. Left(p) = Dist(disp.at, dbs[p], d) /\ Dist(disp.at, disp.new, d) <= Left(p)
    BY <1>3, <1>5, <1>6, <2>1 DEF Left, QueueInv, SqInv
  <2> QED
    BY <2>1, <2>2, <2>3, <2>4, <2>5
<1>8. PICK L \in 0 .. d - 1, m \in 0 .. d - 1 : L = Left(p) /\ m = Dist(a, n, d) /\ L # 0 /\ m # 0 /\ m <= L
  <2>1. Dist(a, b, d) \in 0 .. d - 1
    BY Ways
  <2>2. Dist(a, n, d) \in 0 .. d - 1
    BY Ways
  <2>3. Dist(a, n, d) # 0
    BY <1>7 DEF Dist
  <2> QED
    BY <1>7, <2>1, <2>2, <2>3
<1>9. PICK s \in 0 .. d - 1 : s = Succ(a, d)
    BY Ways
<1>10. disp'.pc = "io" /\ disp'.q = p /\ disp'.at = s /\ disp'.new = n
  <2>1. disp' = [disp EXCEPT !.at = IF @ + 1 = sqes[disp.q].queue_size THEN 0 ELSE @ + 1]
    BY DEF Accept
  <2>2. disp' = [disp EXCEPT !.at = s]
    BY <1>3, <1>6, <1>7, <1>9, <2>1 DEF Succ
  <2> QED
    BY <1>3, <1>6, <1>7, <2>2 DEF AdminInv, DispInv
<1>11. FromQ(p)' = s /\ Left(p)' = L - 1 /\ Dist(s, n, d) = m - 1
  <2>1. FromQ(p)' = s
    BY <1>10 DEF FromQ
  <2>2. a # b
    <3>1. Dist(a, b, d) # 0
      BY <1>7, <1>8
    <3> QED
      BY <3>1, Ways
  <2>5. Dist(s, b, d) = Dist(a, b, d) - 1
    BY <1>9, <2>2, Nearer
  <2>6. Dist(s, n, d) = Dist(a, n, d) - 1
    <3>1. a # n /\ d \in Nat \ {0}
      BY <1>7
    <3>2. Dist(Succ(a, d), n, d) = Dist(a, n, d) - 1
      BY <3>1, Nearer
    <3> QED
      BY <1>9, <3>2
  <2>3. Dist(s, b, d) = Dist(a, b, d) - 1 /\ Dist(s, n, d) = Dist(a, n, d) - 1
    BY <2>5, <2>6
  <2>4. Left(p)' = Dist(s, b, d)
    BY <1>2, <1>5, <1>7, <2>1 DEF Left
  <2> QED
    BY <1>7, <1>8, <2>1, <2>3, <2>4
<1>12. /\ i = OwedAt(p, 0)
       /\ \A k \in 0 .. L - 2 : OwedAt(p, k)' = OwedAt(p, k + 1) /\ k + 1 \in 0 .. L - 1
  <2>1. At(a, 0, d) = a
    BY <1>5, Places
  <2>2. i = OwedAt(p, 0)
    BY <1>4, <1>5, <1>7, <2>1 DEF OwedAt
  <2>3. ASSUME NEW k \in 0 .. L - 2
        PROVE  OwedAt(p, k)' = OwedAt(p, k + 1) /\ k + 1 \in 0 .. L - 1
    <3>1. k \in 0 .. d - 2 /\ k + 1 \in 0 .. L - 1
      OBVIOUS
    <3>2. At(s, k, d) = At(a, k + 1, d)
      BY <1>5, <1>9, <3>1, Places
    <3> QED
      BY <1>1, <1>5, <1>7, <1>11, <3>1, <3>2 DEF OwedAt
  <2> QED
    BY <2>2, <2>3
<1>13. \A k \in 0 .. L - 1 : OwedOk(p, k)
    BY <1>6, <1>8 DEF QueueInv, SqInv
<1>14. /\ i \in Ios /\ Open(i) /\ io[i].q = p /\ ~Posted(i) /\ ~InWork(i)
       /\ \A j \in 0 .. L - 1 : OwedAt(p, j) = i => j = 0
  <2>1. OwedOk(p, 0)
    BY <1>8, <1>13
  <2> QED
    BY <1>8, <1>12, <2>1 DEF OwedOk
<1>15. PICK x : /\ x \in [id : {i}, sqid : {p}, cqid : {host.sq[p].cqid}, queued : BOOLEAN]
                /\ x.id = i /\ x.sqid = p /\ x.cqid = host.sq[p].cqid
                /\ work' = work \cup {x} /\ taken' = [taken EXCEPT ![i] = IF @ < 2 THEN @ + 1 ELSE @]
  <2>1. PICK flag \in BOOLEAN :
           work' = work \cup {[id |-> i, sqid |-> p, cqid |-> host.sq[p].cqid, queued |-> flag]}
    BY <1>3, <1>4, <1>6 DEF Accept
  <2>3. PICK x : x = [id |-> i, sqid |-> p, cqid |-> host.sq[p].cqid, queued |-> flag]
    OBVIOUS
  <2>2. taken' = [taken EXCEPT ![i] = IF @ < 2 THEN @ + 1 ELSE @]
    BY <1>3, <1>4 DEF Accept
  <2> QED
    BY <2>1, <2>2, <2>3
<1>16. /\ \A j : (Open(j)' <=> Open(j)) /\ (Posted(j)' <=> Posted(j)) /\ (InWork(j)' <=> InWork(j) \/ j = i)
       /\ \A q : Unposted(q)' = Unposted(q)
  <2>1. \A j : (Open(j)' <=> Open(j)) /\ (Posted(j)' <=> Posted(j))
    BY <1>1 DEF Open, Posted
  <2>2. \A j : InWork(j)' <=> InWork(j) \/ j = i
    BY <1>15 DEF InWork
  <2>3. \A q : Unposted(q)' = Unposted(q)
    BY <1>1 DEF Unposted
  <2> QED
    BY <2>1, <2>2, <2>3
<1>17. \A q \in Queues : q # p => SameRing(q)
  <2> SUFFICES ASSUME NEW q \in Queues, q # p PROVE SameRing(q)
    OBVIOUS
  <2>1. FromQ(q)' = FromQ(q)
    BY <1>2, <1>3, <1>10 DEF FromQ
  <2> QED
    BY <1>1, <1>2, <2>1 DEF SameRing, Left, OwedAt
<1>18. ViewInv' /\ Log' = Log /\ \A op, q : Executed(op, q)' <=> Executed(op, q)
    BY <1>2, ViewData DEF QueueInv, ViewInv
<1>19. SqInv'
  <2>1. SqInv
    BY DEF QueueInv
  <2>2. ASSUME NEW k \in 0 .. L - 2
        PROVE  OwedOk(p, k)'
    <3>1. PICK j : j = OwedAt(p, k + 1)
      OBVIOUS
    <3>2. j \in Ios /\ Open(j) /\ io[j].q = p /\ ~Posted(j) /\ ~InWork(j)
      BY <1>12, <1>13, <3>1 DEF OwedOk
    <3>3. \A l \in 0 .. L - 1 : OwedAt(p, l) = j => l = k + 1
      BY <1>8, <1>12, <1>13, <3>1 DEF OwedOk
    <3>4. j # i
      BY <1>12, <1>14, <3>1
    <3>5. OwedAt(p, k)' = j
      BY <1>12, <3>1
    <3>6. \A l \in 0 .. L - 2 : OwedAt(p, l)' = j => l = k
      BY <1>12, <3>3
    <3>7. \A l \in 0 .. Left(p)' - 1 : OwedAt(p, l)' = j => l = k
      BY <1>11, <3>6
    <3> QED
      BY <1>1, <1>16, <3>2, <3>4, <3>5, <3>7 DEF OwedOk
  <2>3. ASSUME NEW q \in Queues, q # p, NEW k, OwedOk(q, k)
        PROVE  OwedOk(q, k)'
    <3>1. PICK j : j = OwedAt(q, k) /\ j # i
      BY <1>14, <2>3 DEF OwedOk
    <3>2. OwedAt(q, k)' = j /\ Left(q)' = Left(q) /\ \A l : OwedAt(q, l)' = OwedAt(q, l)
      BY <1>17, <2>3, <3>1 DEF SameRing
    <3>3. /\ j \in Ios /\ Open(j) /\ io[j].q = q /\ ~Posted(j) /\ ~InWork(j)
          /\ \A l \in 0 .. Left(q) - 1 : OwedAt(q, l) = j => l = k
      BY <2>3, <3>1 DEF OwedOk
    <3> QED
      BY <1>1, <1>16, <3>1, <3>2, <3>3 DEF OwedOk
  <2>4. ASSUME NEW q \in Queues, host'.sq[q] # NIL
        PROVE  dbs'[q] = rings'.tail[q] /\ \A k \in 0 .. Left(q)' - 1 : OwedOk(q, k)'
    <3>1. dbs'[q] = rings'.tail[q] /\ \A k \in 0 .. Left(q) - 1 : OwedOk(q, k)
      BY <1>1, <1>2, <2>1, <2>4 DEF SqInv
    <3>2. CASE q = p
      <4>1. \A k \in 0 .. Left(p)' - 1 : k \in 0 .. L - 2
        BY <1>8, <1>11
      <4> QED
        BY <2>2, <3>1, <3>2, <4>1
    <3>3. CASE q # p
      <4>1. Left(q)' = Left(q)
        BY <1>17, <3>3 DEF SameRing
      <4> QED
        BY <2>3, <3>1, <3>3, <4>1
    <3> QED
      BY <3>2, <3>3
  <2>5. \A q \in Queues : disp'.pc = "io" /\ disp'.q = q =>
          /\ host'.sq[q] # NIL /\ sqes'[q] # NIL
          /\ disp'.at < SqSize /\ disp'.new < SqSize
          /\ Dist(disp'.at, disp'.new, SqSize) <= Left(q)'
    <3>1. s < d /\ n < d /\ m - 1 <= L - 1
      BY <1>8
    <3> QED
      BY <1>2, <1>5, <1>6, <1>10, <1>11, <3>1
  <2> QED
    BY <1>1, <1>2, <1>18, <2>1, <2>4, <2>5 DEF SqInv
<1>20. IoInv'
  <2>1. IoInv
    BY DEF QueueInv
  <2>2. Located(i) /\ host.sq[p].cqid = io[i].c
    BY <1>14, <2>1 DEF IoInv, Located
  <2>3. x \in [id : Ios, sqid : Queues, cqid : Queues, queued : BOOLEAN]
    BY <1>6, <1>14, <1>15, DoneFacts DEF QueueInv
  <2>4. work' \subseteq [id : Ios, sqid : Queues, cqid : Queues, queued : BOOLEAN]
    BY <1>15, <2>1, <2>3 DEF IoInv
  <2>12. \A y, z \in work' : y.id = z.id => y = z
    BY <1>14, <1>15, <2>1 DEF IoInv, InWork
  <2>5. \A y \in work' : Open(y.id)' /\ io'[y.id].q = y.sqid /\ io'[y.id].c = y.cqid /\ ~Posted(y.id)'
    <3>1. Open(x.id) /\ io[x.id].q = x.sqid /\ io[x.id].c = x.cqid /\ ~Posted(x.id)
      BY <1>14, <1>15, <2>2
    <3> QED
      BY <1>1, <1>15, <1>16, <2>1, <3>1 DEF IoInv
  <2>6. ASSUME NEW j \in Ios, Open(j), ~Posted(j)
        PROVE  Located(j)'
    <3>1. PICK q \in Queues : q = io[j].q
      BY <2>1, <2>6, QueueOf DEF Open
    <3>2. /\ host.sq[q] # NIL /\ host.sq[q].cqid = io[j].c
          /\ InWork(j) \/ \E k \in 0 .. Left(q) - 1 : OwedAt(q, k) = j
      BY <2>1, <2>6, <3>1 DEF IoInv, Located
    <3>3. CASE j = i \/ InWork(j)
      BY <1>1, <1>2, <1>16, <3>1, <3>2, <3>3 DEF Located
    <3>4. CASE j # i /\ ~InWork(j)
      <4>1. PICK k \in 0 .. Left(q) - 1 : OwedAt(q, k) = j
        BY <3>2, <3>4
      <4>2. \E l \in 0 .. Left(q)' - 1 : OwedAt(q, l)' = j
        <5>1. CASE q = p
          <6>1. k \in 0 .. L - 1 /\ k # 0
            BY <1>8, <1>12, <3>4, <4>1, <5>1
          <6>2. PICK l \in 0 .. L - 2 : l + 1 = k
            BY <6>1
          <6>3. OwedAt(p, l)' = j /\ l \in 0 .. (L - 1) - 1
            BY <1>12, <4>1, <5>1, <6>2
          <6> QED
            BY <1>11, <5>1, <6>3
        <5>2. CASE q # p
          BY <1>17, <4>1, <5>2 DEF SameRing
        <5> QED
          BY <5>1, <5>2
      <4> QED
        BY <1>1, <1>2, <3>1, <3>2, <4>2 DEF Located
    <3> QED
      BY <3>3, <3>4
  <2>7. taken' \in [Ios -> 0 .. 2] /\ \A j \in Ios :
            taken'[j] = IF io'[j].st = "seen" \/ Posted(j)' \/ InWork(j)' THEN 1 ELSE 0
    <3>1. taken \in [Ios -> 0 .. 2] /\ taken[i] = 0 /\ io[i].st # "seen"
      BY <1>14, <2>1 DEF IoInv, Open
    <3>2. \A j \in Ios : taken'[j] = IF j = i THEN 1 ELSE taken[j]
      BY <1>14, <1>15, <3>1
    <3>3. taken' \in [Ios -> 0 .. 2]
      BY <1>14, <1>15, <3>1
    <3>4. \A j \in Ios : taken[j] = IF io[j].st = "seen" \/ Posted(j) \/ InWork(j) THEN 1 ELSE 0
      BY <2>1 DEF IoInv
    <3> QED
      BY <1>1, <1>16, <3>2, <3>3, <3>4
  <2>8. \A c \in Queues : Cardinality(OpenOn("c", c))' < CqSize
    BY <1>1, <2>1 DEF IoInv, OpenOn
  <2> QED
    BY <1>1, <1>16, <2>1, <2>4, <2>5, <2>6, <2>7, <2>8, <2>12 DEF IoInv
<1>21. CqInv'
    BY <1>1, <1>2 DEF QueueInv, CqInv, CqOk, Posting, Open
<1>22. SentInv'
    BY <1>1, <1>2, <1>16, <1>18 DEF QueueInv, SentInv, SentRings
<1> QED
    BY <1>18, <1>19, <1>20, <1>21, <1>22 DEF QueueInv

\* The commands of a queue are finitely many.
LEMMA OpenOnFinite ==
    ASSUME NEW r, NEW q
    PROVE  IsFiniteSet(OpenOn(r, q)) /\ Cardinality(OpenOn(r, q)) \in Nat
<1>1. NrIos \in Nat
    BY CmdAssumption
<1>2. IsFiniteSet(Ios)
    BY <1>1, FS_Interval DEF Ios
<1>3. OpenOn(r, q) \subseteq Ios
    BY DEF OpenOn
<1>4. IsFiniteSet(OpenOn(r, q))
    BY <1>2, <1>3, FS_Subset
<1> QED
    BY <1>4, FS_CardinalityType

\* A submission ring has no more entries than the queue has open commands.
LEMMA LeftBound ==
    ASSUME AdminInv, QueueInv, NEW q \in Queues, host.sq[q] # NIL
    PROVE  Left(q) <= Cardinality(OpenOn("q", q))
<1>1. PICK L \in Nat : L = Left(q)
    BY LeftFacts
<1>2. \A k \in 0 .. L - 1 : OwedOk(q, k)
    BY <1>1 DEF QueueInv, SqInv
<1>3. PICK S : S = OpenOn("q", q)
    OBVIOUS
<1>4. PICK f : f = [k \in 1 .. L |-> OwedAt(q, k - 1)]
    OBVIOUS
<1>5. ASSUME NEW k \in 1 .. L
      PROVE  k - 1 \in 0 .. L - 1 /\ f[k] = OwedAt(q, k - 1) /\ f[k] \in S
  <2>1. k - 1 \in 0 .. L - 1 /\ f[k] = OwedAt(q, k - 1)
    BY <1>4
  <2>2. OwedOk(q, k - 1)
    BY <1>2, <2>1
  <2> QED
    BY <1>3, <2>1, <2>2 DEF OwedOk, OpenOn, Open
<1>6. ASSUME NEW j \in 1 .. L, NEW k \in 1 .. L, f[j] = f[k]
      PROVE  j = k
  <2>1. OwedOk(q, k - 1) /\ j - 1 \in 0 .. L - 1 /\ OwedAt(q, j - 1) = OwedAt(q, k - 1)
    BY <1>2, <1>5, <1>6
  <2>2. j - 1 = k - 1
    BY <1>1, <2>1 DEF OwedOk
  <2> QED
    BY <2>2
<1>7. f \in [1 .. L -> S]
    BY <1>4, <1>5
<1>8. L <= Cardinality(S)
    BY <1>3, <1>6, <1>7, OpenOnFinite, Pigeons
<1> QED
    BY <1>1, <1>3, <1>8

\* Where a command is that the host has not submitted: nowhere.
LEMMA NewNowhere ==
    ASSUME AdminInv, QueueInv, NEW i \in Ios, io[i].st = "new"
    PROVE  ~Open(i) /\ ~Posted(i) /\ ~InWork(i)
<1>1. ~Open(i)
    BY DEF Open
<1>2. ~Posted(i)
    BY <1>1 DEF Posted, QueueInv, CqInv, CqOk
<1>3. ~InWork(i)
    BY <1>1 DEF InWork, QueueInv, IoInv
<1> QED
    BY <1>1, <1>2, <1>3

\* A command more in a ring that had room for it.
LEMMA HostSubmitQueues ==
    ASSUME AdminInv, RingInv, QueueInv, NEW i \in Ios, NEW p \in Queues, HostSubmit(i, p)
    PROVE  QueueInv'
<1>1. UNCHANGED <<cqm, work, thr, taken, posted>>
    BY DEF HostSubmit
<1>2. UNCHANGED <<host, aposted, sqes, cqes, disp, old_dbs>>
    BY DEF HostSubmit, queues
<1>3. PICK d \in Nat \ {0, 1} : d = SqSize
    BY QueueFacts
<1>4. host.sq[p] # NIL /\ ~Executed("delete_sq", p)
      /\ \A j \in host.open : ~(Log[j].op = "delete_sq" /\ Log[j].qid = p)
  <2>1. host.sq[p] # NIL /\ \A j \in host.open : ~(Log[j].op = "delete_sq" /\ Log[j].qid = p)
    BY DEF HostSubmit, Usable
  <2>2. "delete_sq" \in OnQueues
    BY DEF OnQueues
  <2> QED
    BY <2>1, <2>2, OpenFacts
<1>5. PICK t \in 0 .. d - 1, f \in 0 .. d - 1, L \in 0 .. d - 1, u \in 0 .. d - 1 :
         /\ t = rings.tail[p] /\ t = dbs[p] /\ f = FromQ(p) /\ L = Left(p) /\ L = Dist(f, t, d)
         /\ u = Succ(t, d) /\ t = At(f, L, d)
  <2>1. dbs[p] = rings.tail[p]
    BY <1>4 DEF QueueInv, SqInv
  <2>2. dbs[p] \in 0 .. d - 1 /\ FromQ(p) \in 0 .. d - 1 /\ Left(p) \in 0 .. d - 1 /\ At(FromQ(p), Left(p), d) = dbs[p]
    BY <1>3, LeftFacts
  <2>3. PICK t \in 0 .. d - 1 : t = dbs[p]
    BY <2>2
  <2>4. Succ(t, d) \in 0 .. d - 1
    BY Ways
  <2> QED
    BY <1>3, <2>1, <2>2, <2>3, <2>4 DEF Left
<1>6. L < d - 1
  <2>1. Left(p) <= Cardinality(OpenOn("q", p)) /\ Cardinality(OpenOn("q", p)) \in Nat
    BY <1>4, LeftBound, OpenOnFinite
  <2>2. Cardinality(OpenOn("q", p)) < d - 1
    BY <1>3 DEF HostSubmit
  <2> QED
    BY <1>5, <2>1, <2>2
<1>7. PICK c \in Queues : c = host.sq[p].cqid
    BY <1>4, DoneFacts DEF QueueInv
<1>8. /\ sqm' = [sqm EXCEPT ![p][t] = i] /\ dbs' = [dbs EXCEPT ![p] = u]
      /\ RingsAre([rings.tail EXCEPT ![p] = u], rings.head, rings.phase)
      /\ io' = [io EXCEPT ![i] = [st |-> "open", q |-> p, c |-> c]]
      /\ io[i].st = "new"
  <2>1. (t + 1) % d = u
    BY <1>5, Modulo
  <2>2. (rings.tail[p] + 1) % SqSize = u
    BY <1>3, <1>5, <2>1
  <2>3. rings' = [rings EXCEPT !.tail[p] = u]
    BY <2>2 DEF HostSubmit
  <2>4. RingsAre([rings.tail EXCEPT ![p] = u], rings.head, rings.phase)
    <3>1. PICK tl, hd, ph : tl = rings.tail /\ hd = rings.head /\ ph = rings.phase
      OBVIOUS
    <3>2. rings = [tail |-> tl, head |-> hd, phase |-> ph]
      BY <3>1 DEF RingInv
    <3>3. rings' = [tail |-> [tl EXCEPT ![p] = u], head |-> hd, phase |-> ph]
      BY <2>3, <3>2
    <3> QED
      BY <3>1, <3>3 DEF RingsAre
  <2> QED
    BY <1>5, <1>7, <2>2, <2>4 DEF HostSubmit
<1>9. \A q \in Queues : dbs'[q] = IF q = p THEN u ELSE dbs[q]
    BY <1>8, QueueFacts DEF AdminInv, DispInv
<1>10. \A j \in Ios : io'[j] = IF j = i THEN [st |-> "open", q |-> p, c |-> c] ELSE io[j]
    BY <1>8 DEF QueueInv, IoInv
<1>11. /\ \A q \in Queues : q # p => sqm'[q] = sqm[q]
       /\ \A k \in 0 .. d - 1 : sqm'[p][k] = IF k = t THEN i ELSE sqm[p][k]
       /\ sqm' \in [Queues -> [0 .. SqSize - 1 -> 0 .. NrIos]]
  <2>1. sqm \in [Queues -> [0 .. d - 1 -> 0 .. NrIos]]
    BY <1>3 DEF QueueInv, SqInv
  <2>2. PICK g : g = [sqm[p] EXCEPT ![t] = i]
    OBVIOUS
  <2>3. sqm' = [sqm EXCEPT ![p] = g]
    BY <1>8, <2>2
  <2>4. i \in 0 .. NrIos
    BY CmdAssumption DEF Ios
  <2>5. sqm[p] \in [0 .. d - 1 -> 0 .. NrIos]
    BY <2>1
  <2>6. g \in [0 .. d - 1 -> 0 .. NrIos] /\ \A k \in 0 .. d - 1 : g[k] = IF k = t THEN i ELSE sqm[p][k]
    BY <2>2, <2>4, <2>5
  <2> QED
    BY <1>3, <2>1, <2>3, <2>6
<1>12. ~Open(i) /\ ~Posted(i) /\ ~InWork(i)
    BY <1>8, NewNowhere
<1>13. /\ \A j : (Posted(j)' <=> Posted(j)) /\ (InWork(j)' <=> InWork(j))
       /\ \A j \in Ios : j # i => (Open(j)' <=> Open(j)) /\ io'[j] = io[j]
       /\ Open(i)' /\ io'[i].q = p /\ io'[i].c = c /\ io'[i].st = "open"
    BY <1>1, <1>10 DEF Open, Posted, InWork
<1>14. ViewInv' /\ Log' = Log /\ \A op, q : Executed(op, q)' <=> Executed(op, q)
    BY <1>2, ViewData DEF QueueInv, ViewInv
<1>15. \A q \in Queues : q # p => SameRing(q)
    BY <1>2, <1>9, <1>11 DEF SameRing, FromQ, Left, OwedAt
<1>16. FromQ(p)' = f /\ Left(p)' = L + 1
  <2>1. FromQ(p)' = f
    BY <1>2, <1>5 DEF FromQ
  <2>2. Dist(f, u, d) = L + 1
    BY <1>5, <1>6, Ways
  <2> QED
    BY <1>3, <1>9, <2>1, <2>2 DEF Left
<1>17. OwedAt(p, L)' = i /\ \A k \in 0 .. L - 1 : OwedAt(p, k)' = OwedAt(p, k)
  <2>1. \A k \in 0 .. L : At(f, k, d) \in 0 .. d - 1
    BY <1>3, Places
  <2>2. \A k \in 0 .. L - 1 : At(f, k, d) # t
    <3> SUFFICES ASSUME NEW k \in 0 .. L - 1, At(f, k, d) = At(f, L, d) PROVE FALSE
      BY <1>5
    <3>1. k = L
      <4>1. k \in 0 .. d - 1 /\ L \in 0 .. d - 1
        OBVIOUS
      <4> QED
        BY <4>1, Places
    <3> QED
      BY <3>1
  <2>3. OwedAt(p, L)' = i
    BY <1>3, <1>5, <1>11, <1>16 DEF OwedAt
  <2>4. ASSUME NEW k \in 0 .. L - 1
        PROVE  OwedAt(p, k)' = OwedAt(p, k)
    <3>1. At(f, k, d) \in 0 .. d - 1 /\ At(f, k, d) # t
      BY <2>1, <2>2
    <3> QED
      BY <1>3, <1>5, <1>11, <1>16, <3>1 DEF OwedAt
  <2> QED
    BY <2>3, <2>4
<1>18. SqInv'
  <2>1. SqInv
    BY DEF QueueInv
  <2>2. \A q \in Queues : \A k : OwedOk(q, k) => OwedAt(q, k) # i
    BY <1>12 DEF OwedOk
  <2>3. ASSUME NEW k \in 0 .. L
        PROVE  OwedOk(p, k)'
    <3>1. CASE k = L
      <4>1. ASSUME NEW j \in 0 .. L - 1
            PROVE  OwedAt(p, j)' # i
        <5>1. OwedOk(p, j)
          BY <1>4, <1>5, <2>1 DEF SqInv
        <5>2. OwedAt(p, j) # i
          BY <2>2, <5>1
        <5> QED
          BY <1>17, <5>2
      <4>2. \A j \in 0 .. Left(p)' - 1 : OwedAt(p, j)' = i => j = L
        BY <1>16, <4>1
      <4> QED
        BY <1>12, <1>13, <1>17, <3>1, <4>2 DEF OwedOk
    <3>2. CASE k \in 0 .. L - 1
      <4>1. OwedOk(p, k)
        BY <1>4, <1>5, <2>1, <3>2 DEF SqInv
      <4>2. PICK j : j = OwedAt(p, k) /\ j # i
        BY <2>2, <4>1
      <4>3. /\ j \in Ios /\ Open(j) /\ io[j].q = p /\ ~Posted(j) /\ ~InWork(j)
            /\ \A l \in 0 .. L - 1 : OwedAt(p, l) = j => l = k
        BY <1>5, <4>1, <4>2 DEF OwedOk
      <4>4. OwedAt(p, k)' = j
        BY <1>17, <3>2, <4>2
      <4>5. \A l \in 0 .. Left(p)' - 1 : OwedAt(p, l)' = j => l = k
        <5> SUFFICES ASSUME NEW l \in 0 .. Left(p)' - 1, OwedAt(p, l)' = j PROVE l = k
          OBVIOUS
        <5>1. l # L
          BY <1>17, <4>2
        <5>2. l \in 0 .. L - 1
          BY <1>16, <5>1
        <5> QED
          BY <1>17, <4>3, <5>2
      <4> QED
        BY <1>13, <4>2, <4>3, <4>4, <4>5 DEF OwedOk
    <3> QED
      BY <3>1, <3>2
  <2>4. ASSUME NEW q \in Queues, q # p, NEW k, OwedOk(q, k)
        PROVE  OwedOk(q, k)'
    <3>1. PICK j : j = OwedAt(q, k) /\ j # i
      BY <2>2, <2>4
    <3>2. OwedAt(q, k)' = j /\ Left(q)' = Left(q) /\ \A l : OwedAt(q, l)' = OwedAt(q, l)
      BY <1>15, <2>4, <3>1 DEF SameRing
    <3>3. /\ j \in Ios /\ Open(j) /\ io[j].q = q /\ ~Posted(j) /\ ~InWork(j)
          /\ \A l \in 0 .. Left(q) - 1 : OwedAt(q, l) = j => l = k
      BY <2>4, <3>1 DEF OwedOk
    <3> QED
      BY <1>13, <3>1, <3>2, <3>3 DEF OwedOk
  <2>5. ASSUME NEW q \in Queues, host'.sq[q] # NIL
        PROVE  dbs'[q] = rings'.tail[q] /\ \A k \in 0 .. Left(q)' - 1 : OwedOk(q, k)'
    <3>1. dbs[q] = rings.tail[q] /\ \A k \in 0 .. Left(q) - 1 : OwedOk(q, k)
      BY <1>2, <2>1, <2>5 DEF SqInv
    <3>2. rings'.tail[q] = IF q = p THEN u ELSE rings.tail[q]
      BY <1>8 DEF RingsAre, RingInv
    <3>3. CASE q = p
      <4>1. \A k \in 0 .. Left(p)' - 1 : k \in 0 .. L
        BY <1>16
      <4> QED
        BY <1>9, <2>3, <3>2, <3>3, <4>1
    <3>4. CASE q # p
      <4>1. Left(q)' = Left(q)
        BY <1>15, <3>4 DEF SameRing
      <4> QED
        BY <1>9, <2>4, <3>1, <3>2, <3>4, <4>1
    <3> QED
      BY <3>3, <3>4
  <2>6. \A q \in Queues : disp'.pc = "io" /\ disp'.q = q =>
          /\ host'.sq[q] # NIL /\ sqes'[q] # NIL
          /\ disp'.at < SqSize /\ disp'.new < SqSize
          /\ Dist(disp'.at, disp'.new, SqSize) <= Left(q)'
    <3> SUFFICES ASSUME NEW q \in Queues, disp.pc = "io", disp.q = q
                 PROVE  /\ host.sq[q] # NIL /\ sqes[q] # NIL
                        /\ disp.at < SqSize /\ disp.new < SqSize
                        /\ Dist(disp.at, disp.new, SqSize) <= Left(q)'
      BY <1>2
    <3>1. /\ host.sq[q] # NIL /\ sqes[q] # NIL
          /\ disp.at < SqSize /\ disp.new < SqSize
          /\ Dist(disp.at, disp.new, SqSize) <= Left(q)
      BY <2>1 DEF SqInv
    <3>2. CASE q # p
      BY <1>15, <3>1, <3>2 DEF SameRing
    <3>3. CASE q = p
      <4>1. disp.at \in Nat /\ disp.new \in Nat
        BY DEF AdminInv, DispInv
      <4>2. PICK x \in Int : x = Dist(disp.at, disp.new, SqSize)
        BY <1>3, <4>1 DEF Dist
      <4>3. x <= L
        BY <1>5, <3>1, <3>3, <4>2
      <4>4. x <= L + 1
        BY <4>3
      <4> QED
        BY <1>16, <3>1, <3>3, <4>2, <4>4
    <3> QED
      BY <3>2, <3>3
  <2>7. \A q \in Queues : dbs'[q] < SqSize /\ old_dbs'[q] < SqSize
    <3>1. u < d
      OBVIOUS
    <3>2. \A q \in Queues : dbs[q] < SqSize /\ old_dbs[q] < SqSize
      BY <2>1 DEF SqInv
    <3> QED
      BY <1>2, <1>3, <1>9, <3>1, <3>2
  <2>8. \A q \in Queues : Executed("create_sq", q)' => dbs'[q] = 0 /\ old_dbs'[q] = 0
    <3>1. \A q \in Queues : Executed("create_sq", q) => dbs[q] = 0 /\ old_dbs[q] = 0
      BY <2>1 DEF SqInv
    <3>2. ~Executed("create_sq", p)
      BY <1>4, DoneFacts DEF QueueInv
    <3> QED
      BY <1>2, <1>9, <1>14, <3>1, <3>2
  <2> QED
    BY <1>11, <2>5, <2>6, <2>7, <2>8 DEF SqInv
<1>19. IoInv'
  <2>1. IoInv
    BY DEF QueueInv
  <2>2. p \in 0 .. NrQueues /\ c \in 0 .. NrQueues /\ p # 0 /\ c # 0
    BY QueueFacts
  <2>3. io' \in [Ios -> [st : {"new", "open", "seen"}, q : 0 .. NrQueues, c : 0 .. NrQueues]]
    <3>1. io \in [Ios -> [st : {"new", "open", "seen"}, q : 0 .. NrQueues, c : 0 .. NrQueues]]
      BY <2>1 DEF IoInv
    <3>2. PICK x : x = [st |-> "open", q |-> p, c |-> c]
      OBVIOUS
    <3>3. x \in [st : {"new", "open", "seen"}, q : 0 .. NrQueues, c : 0 .. NrQueues]
      BY <2>2, <3>2
    <3> QED
      BY <1>8, <3>1, <3>2, <3>3
  <2>4. \A j \in Ios : io'[j].st # "new" => io'[j].q # 0 /\ io'[j].c # 0
    BY <1>13, <2>1, <2>2 DEF IoInv
  <2>5. \A x \in work : Open(x.id)' /\ io'[x.id].q = x.sqid /\ io'[x.id].c = x.cqid /\ ~Posted(x.id)'
    <3> SUFFICES ASSUME NEW x \in work
                 PROVE  Open(x.id)' /\ io'[x.id].q = x.sqid /\ io'[x.id].c = x.cqid /\ ~Posted(x.id)'
      OBVIOUS
    <3>1. PICK j : j = x.id /\ j # i
      BY <1>12 DEF InWork
    <3>2. x.id \in Ios /\ Open(x.id) /\ io[x.id].q = x.sqid /\ io[x.id].c = x.cqid /\ ~Posted(x.id)
      BY <2>1 DEF IoInv
    <3>3. Open(j)' /\ io'[j] = io[j] /\ ~Posted(j)'
      BY <1>13, <3>1, <3>2
    <3> QED
      BY <3>1, <3>2, <3>3 DEF Open
  <2>6. ASSUME NEW j \in Ios, Open(j)', ~Posted(j)'
        PROVE  Located(j)'
    <3>1. CASE j = i
      <4>1. host'.sq[p] # NIL /\ host'.sq[p].cqid = c
        BY <1>2, <1>4, <1>7
      <4>2. L \in 0 .. Left(p)' - 1 /\ OwedAt(p, L)' = i
        BY <1>16, <1>17
      <4> QED
        BY <1>13, <3>1, <4>1, <4>2 DEF Located
    <3>2. CASE j # i
      <4>1. Open(j) /\ ~Posted(j) /\ io'[j] = io[j]
        BY <1>13, <2>6, <3>2
      <4>2. PICK q \in Queues : q = io[j].q
        BY <2>1, <4>1, QueueOf DEF Open
      <4>3. /\ host.sq[q] # NIL /\ host.sq[q].cqid = io[j].c
            /\ InWork(j) \/ \E k \in 0 .. Left(q) - 1 : OwedAt(q, k) = j
        BY <2>1, <4>1, <4>2 DEF IoInv, Located
      <4>4. InWork(j)' \/ \E k \in 0 .. Left(q)' - 1 : OwedAt(q, k)' = j
        <5>1. CASE InWork(j)
          BY <1>13, <5>1
        <5>2. CASE ~InWork(j)
          <6>1. PICK k \in 0 .. Left(q) - 1 : OwedAt(q, k) = j
            BY <4>3, <5>2
          <6>2. CASE q = p
            <7>1. k \in 0 .. L - 1
              BY <1>5, <6>1, <6>2
            <7>2. k \in 0 .. Left(p)' - 1
              BY <1>16, <7>1
            <7> QED
              BY <1>17, <6>1, <6>2, <7>1, <7>2
          <6>3. CASE q # p
            BY <1>15, <6>1, <6>3 DEF SameRing
          <6> QED
            BY <6>2, <6>3
        <5> QED
          BY <5>1, <5>2
      <4> QED
        BY <1>2, <4>1, <4>2, <4>3, <4>4 DEF Located
    <3> QED
      BY <3>1, <3>2
  <2>7. ASSUME NEW g \in Queues
        PROVE  Cardinality(OpenOn("c", g))' < CqSize
    <3>1. Cardinality(OpenOn("c", g)) < CqSize
      BY <2>1 DEF IoInv
    <3>2. CASE g = c
      <4>1. OpenOn("c", g)' = OpenOn("c", g) \cup {i}
        <5>1. \A j \in Ios : j \in OpenOn("c", g)' <=> j \in OpenOn("c", g) \/ j = i
          BY <1>10, <1>13, <3>2 DEF OpenOn, Open
        <5>2. OpenOn("c", g) \subseteq Ios /\ OpenOn("c", g)' \subseteq Ios
          BY DEF OpenOn
        <5> QED
          BY <5>1, <5>2
      <4>2. i \notin OpenOn("c", g)
        BY <1>12 DEF OpenOn, Open
      <4>3. Cardinality(OpenOn("c", g) \cup {i}) = Cardinality(OpenOn("c", g)) + 1
        BY <4>2, OpenOnFinite, FS_AddElement
      <4>4. Cardinality(OpenOn("c", g)) < CqSize - 1
        BY <1>7, <3>2 DEF HostSubmit
      <4>5. CqSize \in Nat /\ Cardinality(OpenOn("c", g)) \in Nat
        BY OpenOnFinite, QueueFacts
      <4>6. PICK n, e : n = Cardinality(OpenOn("c", g)) /\ e = CqSize
        OBVIOUS
      <4>7. n + 1 < e
        BY <4>4, <4>5, <4>6
      <4>8. Cardinality(OpenOn("c", g))' = n + 1
        BY <4>1, <4>3, <4>6
      <4> QED
        BY <4>6, <4>7, <4>8
    <3>3. CASE g # c
      <4>1. OpenOn("c", g)' = OpenOn("c", g)
        <5>1. \A j \in Ios : j \in OpenOn("c", g)' <=> j \in OpenOn("c", g)
          BY <1>10, <1>12, <1>13, <3>3 DEF OpenOn, Open
        <5>2. OpenOn("c", g) \subseteq Ios /\ OpenOn("c", g)' \subseteq Ios
          BY DEF OpenOn
        <5> QED
          BY <5>1, <5>2
      <4> QED
        BY <3>1, <4>1
    <3> QED
      BY <3>2, <3>3
  <2>8. \A j \in Ios : taken'[j] = IF io'[j].st = "seen" \/ Posted(j)' \/ InWork(j)' THEN 1 ELSE 0
    <3>1. \A j \in Ios : taken[j] = IF io[j].st = "seen" \/ Posted(j) \/ InWork(j) THEN 1 ELSE 0
      BY <2>1 DEF IoInv
    <3>2. io[i].st # "seen" /\ io'[i].st # "seen"
      BY <1>8, <1>13
    <3> QED
      BY <1>1, <1>13, <3>1, <3>2
  <2> QED
    BY <1>1, <2>1, <2>3, <2>4, <2>5, <2>6, <2>7, <2>8 DEF IoInv
<1>20. CqInv'
  <2>1. CqInv
    BY DEF QueueInv
  <2>2. rings'.head = rings.head /\ rings'.phase = rings.phase
    BY <1>8 DEF RingsAre
  <2>3. ASSUME NEW g \in Queues
        PROVE  CqOk(g)'
    <3>1. CqOk(g)
      BY <2>1 DEF CqInv
    <3>2. \A k \in DOMAIN posted[g] : posted[g][k] \in Ios /\ posted[g][k] # i
      BY <1>12, <2>1 DEF CqInv, Posted
    <3>3. \A k \in DOMAIN posted'[g] : Open(posted[g][k])' /\ io'[posted'[g][k]].c = g
      <4> SUFFICES ASSUME NEW k \in DOMAIN posted[g] PROVE Open(posted[g][k])' /\ io'[posted[g][k]].c = g
        BY <1>1
      <4>1. PICK j : j = posted[g][k]
        OBVIOUS
      <4>2. j \in Ios /\ j # i /\ Open(j) /\ io[j].c = g
        BY <3>1, <3>2, <4>1 DEF CqOk
      <4>3. Open(j)' /\ io'[j].c = g
        BY <1>13, <4>2
      <4> QED
        BY <1>1, <4>1, <4>3 DEF Open
    <3> QED
      BY <1>1, <1>2, <2>2, <3>1, <3>3 DEF CqOk
  <2>4. \A w \in Workers : Posting(w)'
    BY <1>1, <1>2, <2>1 DEF CqInv, Posting
  <2> QED
    BY <1>1, <2>1, <2>2, <2>3, <2>4 DEF CqInv
<1>21. SentInv'
  <2> SUFFICES ASSUME NEW k \in host.open PROVE SentRings(Log[k])'
    BY <1>2 DEF SentInv
  <2>1. PICK x : x = Log[k]
    OBVIOUS
  <2>2. SentRings(x) /\ SentView(x)
    BY <2>1 DEF QueueInv, SentInv, ViewInv, HostQueues
  <2>3. x.op = "create_sq" => rings'.tail[x.qid] = 0
    <3> SUFFICES ASSUME x.op = "create_sq" PROVE rings'.tail[x.qid] = 0
      OBVIOUS
    <3>1. x.qid \in Queues
      BY <2>1, OpenFacts DEF OnQueues
    <3>2. x.qid # p
      BY <1>4, <2>2 DEF SentView
    <3> QED
      BY <1>8, <2>2, <3>1, <3>2 DEF RingsAre, RingInv, SentRings
  <2>4. x.op = "delete_sq" => Unposted(x.qid)' = {}
    <3> SUFFICES ASSUME x.op = "delete_sq" PROVE Unposted(x.qid)' = {}
      OBVIOUS
    <3>1. x.qid # p
      BY <1>4, <2>1
    <3>2. Unposted(x.qid) = {}
      BY <2>2 DEF SentRings
    <3>3. \A j \in Ios : j \in Unposted(x.qid)' => j \in Unposted(x.qid)
      BY <1>1, <1>10, <3>1 DEF Unposted
    <3>4. Unposted(x.qid)' \subseteq Ios
      BY DEF Unposted
    <3> QED
      BY <3>2, <3>3, <3>4
  <2>5. SentRings(x)'
    BY <1>1, <1>8, <1>14, <2>2, <2>3, <2>4 DEF RingsAre, SentRings
  <2> QED
    BY <1>2, <1>14, <2>1, <2>5 DEF SentRings
<1> QED
    BY <1>14, <1>18, <1>19, <1>20, <1>21 DEF QueueInv

\* The host takes the answers that a completion ring holds for it.
LEMMA HostTakeQueues ==
    ASSUME AdminInv, RingInv, QueueInv, NEW c \in Queues, HostTake(c),
           UNCHANGED <<host, aposted, sqes, cqes, dbs, old_dbs, disp>>
    PROVE  QueueInv'
<1>1. UNCHANGED <<sqm, cqm, work, thr, taken>>
    BY DEF HostTake
<1>2. SqInv /\ IoInv /\ CqInv /\ SentInv
    BY DEF QueueInv
<1>3. PICK d \in Nat \ {0, 1} : d = CqSize
    BY QueueFacts
<1>4. PICK a \in Seq(Ios) : a = posted[c]
    BY <1>2 DEF CqInv
<1>5. a \in Seq(Nat) /\ DOMAIN a = 1 .. Len(a)
  <2>1. \A k \in DOMAIN a : a[k] \in Nat
    BY CmdAssumption DEF Ios
  <2> QED
    BY <2>1
<1>6. CqRing(cqm[c], rings.head[c], rings.phase[c], a, d)
    BY <1>2, <1>3, <1>4 DEF CqInv, CqOk
<1>7. HostFinds(c) = a
    BY <1>3, <1>5, <1>6, SeenRing DEF HostFinds
<1>8. PICK h \in 0 .. d - 1, p \in {0, 1}, n \in 0 .. d - 1 : h = rings.head[c] /\ p = rings.phase[c] /\ n = Len(a)
  <2>1. rings.head[c] \in 0 .. d - 1 /\ rings.phase[c] \in {0, 1} /\ Len(a) < d /\ Len(a) \in Nat
    BY <1>6 DEF CqRing
  <2> QED
    BY <2>1
<1>9. PICK g \in 0 .. d - 1, r \in {0, 1} : g = At(h, n, d) /\ r = Tag(h, n, p, d)
  <2>1. At(h, n, d) \in 0 .. d - 1
    BY Places
  <2>2. Tag(h, n, p, d) \in {0, 1}
    BY NextTag
  <2> QED
    BY <2>1, <2>2
<1>10. rings'.tail = rings.tail /\ rings'.head = [rings.head EXCEPT ![c] = g] /\ rings'.phase = [rings.phase EXCEPT ![c] = r]
  <2>1. (h + n) % d = g
    BY <1>9, Modulo
  <2>2. r = IF h + n >= d THEN 1 - p ELSE p
    BY <1>9 DEF Tag
  <2>3. RingsAre(rings.tail,
                 [rings.head EXCEPT ![c] = (@ + Len(HostFinds(c))) % CqSize],
                 [rings.phase EXCEPT ![c] = IF rings.head[c] + Len(HostFinds(c)) >= CqSize THEN 1 - @ ELSE @])
    BY HostTakeRings
  <2>4. /\ rings'.tail = rings.tail
        /\ rings'.head = [rings.head EXCEPT ![c] = (@ + n) % d]
        /\ rings'.phase = [rings.phase EXCEPT ![c] = IF h + n >= d THEN 1 - @ ELSE @]
    BY <1>3, <1>7, <1>8, <2>3 DEF RingsAre
  <2> QED
    BY <1>8, <2>1, <2>2, <2>4
<1> DEFINE G(i) == \E k \in DOMAIN a : a[k] = i
<1>11. posted' = [posted EXCEPT ![c] = <<>>]
  <2>1. posted' = [posted EXCEPT ![c] = SubSeq(a, Len(a) + 1, Len(a))]
    BY <1>4, <1>7 DEF HostTake
  <2>2. SubSeq(a, Len(a) + 1, Len(a)) = <<>>
    OBVIOUS
  <2> QED
    BY <2>1, <2>2
<1>12. \A i \in Ios : io'[i] = IF G(i) THEN [io[i] EXCEPT !.st = "seen"] ELSE io[i]
  <2>1. {a[k] : k \in 1 .. Len(a)} = {a[k] : k \in DOMAIN a}
    BY <1>5
  <2>2. io' = [i \in Ios |-> IF i \in {a[k] : k \in DOMAIN a} THEN [io[i] EXCEPT !.st = "seen"] ELSE io[i]]
    BY <1>7, <2>1 DEF HostTake
  <2> QED
    BY <2>2
<1>13. \A i \in Ios : G(i) => Open(i) /\ io[i].c = c /\ Posted(i) /\ ~InWork(i)
  <2> SUFFICES ASSUME NEW k \in DOMAIN a PROVE Open(a[k]) /\ io[a[k]].c = c /\ Posted(a[k]) /\ ~InWork(a[k])
    OBVIOUS
  <2>1. Open(a[k]) /\ io[a[k]].c = c
    BY <1>2, <1>4 DEF CqInv, CqOk
  <2>2. Posted(a[k])
    BY <1>4 DEF Posted
  <2>3. ~InWork(a[k])
    BY <1>2, <2>2 DEF IoInv, InWork
  <2> QED
    BY <2>1, <2>2, <2>3
<1>14. \A i \in Ios : io[i] \in [st : {"new", "open", "seen"}, q : 0 .. NrQueues, c : 0 .. NrQueues]
    BY <1>2 DEF IoInv
<1>15. \A i \in Ios : io'[i].q = io[i].q /\ io'[i].c = io[i].c
                      /\ io'[i].st = IF G(i) THEN "seen" ELSE io[i].st
  <2> SUFFICES ASSUME NEW i \in Ios
               PROVE  /\ io'[i].q = io[i].q /\ io'[i].c = io[i].c
                      /\ io'[i].st = IF G(i) THEN "seen" ELSE io[i].st
    OBVIOUS
  <2> HIDE DEF G
  <2>1. PICK y, x : y = io'[i] /\ x = io[i] /\ x \in [st : {"new", "open", "seen"}, q : 0 .. NrQueues, c : 0 .. NrQueues]
    BY <1>14
  <2>2. y = IF G(i) THEN [x EXCEPT !.st = "seen"] ELSE x
    BY <1>12, <2>1
  <2>3. y.q = x.q /\ y.c = x.c /\ y.st = IF G(i) THEN "seen" ELSE x.st
    BY <2>1, <2>2
  <2> QED
    BY <2>1, <2>3
<1>16. \A i \in Ios : Open(i)' <=> Open(i) /\ ~G(i)
    BY <1>15 DEF Open
<1>17. \A i : InWork(i)' <=> InWork(i)
    BY <1>1 DEF InWork
<1>18. \A i \in Ios : Posted(i)' <=> Posted(i) /\ ~G(i)
  <2> SUFFICES ASSUME NEW i \in Ios PROVE Posted(i)' <=> Posted(i) /\ ~G(i)
    OBVIOUS
  <2>1. \A q \in Queues : posted'[q] = IF q = c THEN <<>> ELSE posted[q]
    BY <1>2, <1>11 DEF CqInv
  <2>2. DOMAIN <<>> = {}
    OBVIOUS
  <2>3. Posted(i)' <=> \E q \in Queues : q # c /\ \E k \in DOMAIN posted[q] : posted[q][k] = i
    BY <2>1, <2>2 DEF Posted
  <2>4. \A q \in Queues : \A k \in DOMAIN posted[q] : posted[q][k] = i => io[i].c = q
    BY <1>2 DEF CqInv, CqOk
  <2>5. Posted(i) /\ ~G(i) => Posted(i)'
    BY <1>4, <2>3 DEF Posted
  <2>6. Posted(i)' => Posted(i)
    BY <2>3 DEF Posted
  <2>7. G(i) => ~Posted(i)'
    BY <1>13, <2>3, <2>4
  <2> QED
    BY <2>5, <2>6, <2>7
<1>19. \A i \in Ios : Open(i)' /\ ~Posted(i)' <=> Open(i) /\ ~Posted(i)
    BY <1>13, <1>16, <1>18
<1>20. ViewInv' /\ Log' = Log /\ \A op, q : Executed(op, q)' <=> Executed(op, q)
    BY ViewData DEF QueueInv, ViewInv
<1>21. \A q \in Queues : SameRing(q)
    BY <1>1, RingFrame
<1> HIDE DEF G
<1>22. SqInv'
  <2>1. ASSUME NEW q \in Queues, NEW k, OwedOk(q, k)
        PROVE  OwedOk(q, k)'
    <3>1. PICK j : j = OwedAt(q, k)
      OBVIOUS
    <3>2. /\ j \in Ios /\ Open(j) /\ io[j].q = q /\ ~Posted(j) /\ ~InWork(j)
          /\ \A l \in 0 .. Left(q) - 1 : OwedAt(q, l) = j => l = k
      BY <2>1, <3>1 DEF OwedOk
    <3>3. OwedAt(q, k)' = j /\ Left(q)' = Left(q) /\ \A l : OwedAt(q, l)' = OwedAt(q, l)
      BY <1>21, <3>1 DEF SameRing
    <3>4. Open(j)' /\ ~Posted(j)' /\ ~InWork(j)' /\ io'[j].q = q
      BY <1>15, <1>17, <1>19, <3>2
    <3> QED
      BY <3>2, <3>3, <3>4 DEF OwedOk
  <2>2. \A q \in Queues : disp'.pc = "io" /\ disp'.q = q =>
          /\ host'.sq[q] # NIL /\ sqes'[q] # NIL
          /\ disp'.at < SqSize /\ disp'.new < SqSize
          /\ Dist(disp'.at, disp'.new, SqSize) <= Left(q)'
    BY <1>2, <1>21 DEF SqInv, SameRing
  <2>3. \A q \in Queues : host'.sq[q] # NIL =>
          dbs'[q] = rings'.tail[q] /\ \A k \in 0 .. Left(q)' - 1 : OwedOk(q, k)'
    BY <1>2, <1>10, <1>21, <2>1 DEF SqInv, SameRing
  <2>4. \A q \in Queues : dbs'[q] < SqSize /\ old_dbs'[q] < SqSize
    BY <1>2 DEF SqInv
  <2>5. \A q \in Queues : Executed("create_sq", q)' => dbs'[q] = 0 /\ old_dbs'[q] = 0
    BY <1>2, <1>20 DEF SqInv
  <2>6. sqm' \in [Queues -> [0 .. SqSize - 1 -> 0 .. NrIos]]
    BY <1>1, <1>2 DEF SqInv
  <2> QED
    BY <2>2, <2>3, <2>4, <2>5, <2>6 DEF SqInv
<1>23. IoInv'
  <2>1. io' \in [Ios -> [st : {"new", "open", "seen"}, q : 0 .. NrQueues, c : 0 .. NrQueues]]
    <3>1. \A i \in Ios : io'[i] \in [st : {"new", "open", "seen"}, q : 0 .. NrQueues, c : 0 .. NrQueues]
      <4> SUFFICES ASSUME NEW i \in Ios
                   PROVE  io'[i] \in [st : {"new", "open", "seen"}, q : 0 .. NrQueues, c : 0 .. NrQueues]
        OBVIOUS
      <4>1. PICK x \in [st : {"new", "open", "seen"}, q : 0 .. NrQueues, c : 0 .. NrQueues] : x = io[i]
        BY <1>14
      <4>2. [x EXCEPT !.st = "seen"] \in [st : {"new", "open", "seen"}, q : 0 .. NrQueues, c : 0 .. NrQueues]
        OBVIOUS
      <4> QED
        BY <1>12, <4>1, <4>2
    <3>2. io' = [i \in Ios |-> io'[i]]
      BY DEF HostTake
    <3> QED
      BY <3>1, <3>2
  <2>2. \A i \in Ios : io'[i].st # "new" => io'[i].q # 0 /\ io'[i].c # 0
    BY <1>2, <1>13, <1>15 DEF IoInv, Open
  <2>3. \A x \in work : Open(x.id)' /\ io'[x.id].q = x.sqid /\ io'[x.id].c = x.cqid /\ ~Posted(x.id)'
    <3> SUFFICES ASSUME NEW x \in work
                 PROVE  Open(x.id)' /\ io'[x.id].q = x.sqid /\ io'[x.id].c = x.cqid /\ ~Posted(x.id)'
      OBVIOUS
    <3>1. x.id \in Ios /\ Open(x.id) /\ io[x.id].q = x.sqid /\ io[x.id].c = x.cqid /\ ~Posted(x.id)
      BY <1>2 DEF IoInv
    <3>2. io'[x.id].q = io[x.id].q /\ io'[x.id].c = io[x.id].c
      BY <1>15, <3>1
    <3>3. Open(x.id)' /\ ~Posted(x.id)'
      BY <1>19, <3>1
    <3> QED
      BY <3>1, <3>2, <3>3
  <2>4. ASSUME NEW i \in Ios, Open(i)', ~Posted(i)'
        PROVE  Located(i)'
    <3>1. Open(i) /\ ~Posted(i)
      BY <1>19, <2>4
    <3>2. PICK q \in Queues : q = io[i].q
      BY <1>2, <3>1, QueueOf DEF Open
    <3>3. /\ host.sq[q] # NIL /\ host.sq[q].cqid = io[i].c
          /\ InWork(i) \/ \E k \in 0 .. Left(q) - 1 : OwedAt(q, k) = i
      BY <1>2, <3>1, <3>2 DEF IoInv, Located
    <3>4. io'[i].q = q /\ io'[i].c = io[i].c
      BY <1>15, <3>2
    <3>5. InWork(i)' \/ \E k \in 0 .. Left(q)' - 1 : OwedAt(q, k)' = i
      BY <1>17, <1>21, <3>3 DEF SameRing
    <3> QED
      BY <3>3, <3>4, <3>5 DEF Located
  <2>5. ASSUME NEW q \in Queues
        PROVE  Cardinality(OpenOn("c", q))' < CqSize
    <3>1. \A i \in Ios : i \in OpenOn("c", q)' => i \in OpenOn("c", q)
      BY <1>15, <1>16 DEF OpenOn, Open
    <3>2. OpenOn("c", q)' \subseteq OpenOn("c", q)
      BY <3>1 DEF OpenOn
    <3>3. PICK S : S = OpenOn("c", q)'
      OBVIOUS
    <3>4. Cardinality(S) <= Cardinality(OpenOn("c", q)) /\ Cardinality(S) \in Nat
      BY <3>2, <3>3, OpenOnFinite, FS_Subset, FS_CardinalityType
    <3>5. Cardinality(OpenOn("c", q)) \in Nat /\ CqSize \in Nat /\ Cardinality(OpenOn("c", q)) < CqSize
      BY <1>2, OpenOnFinite, QueueFacts DEF IoInv
    <3>6. Cardinality(S) < CqSize
      BY <3>4, <3>5
    <3> QED
      BY <3>3, <3>6
  <2>6. \A i \in Ios : taken[i] = IF io'[i].st = "seen" \/ Posted(i)' \/ InWork(i)' THEN 1 ELSE 0
    <3> SUFFICES ASSUME NEW i \in Ios
                 PROVE  taken[i] = IF io'[i].st = "seen" \/ Posted(i)' \/ InWork(i)' THEN 1 ELSE 0
      OBVIOUS
    <3>1. taken[i] = IF io[i].st = "seen" \/ Posted(i) \/ InWork(i) THEN 1 ELSE 0
      BY <1>2 DEF IoInv
    <3>2. io'[i].st = "seen" \/ Posted(i)' \/ InWork(i)' <=> io[i].st = "seen" \/ Posted(i) \/ InWork(i)
      BY <1>13, <1>15, <1>17, <1>18
    <3> QED
      BY <3>1, <3>2
  <2> QED
    BY <1>1, <1>2, <2>1, <2>2, <2>3, <2>4, <2>5, <2>6 DEF IoInv
<1>24. CqInv'
  <2>1. posted' \in [Queues -> Seq(Ios)]
    <3>1. <<>> \in Seq(Ios) /\ posted \in [Queues -> Seq(Ios)]
      BY <1>2 DEF CqInv
    <3> QED
      BY <1>11, <3>1
  <2>2. rings'.head \in [Queues -> Nat] /\ rings'.phase \in [Queues -> {0, 1}]
    <3>1. g \in Nat /\ rings.head \in [Queues -> Nat] /\ rings.phase \in [Queues -> {0, 1}]
      BY <1>2 DEF CqInv
    <3> QED
      BY <1>10, <3>1
  <2>3. /\ \A q \in Queues : q # c => posted'[q] = posted[q] /\ rings'.head[q] = rings.head[q] /\ rings'.phase[q] = rings.phase[q]
        /\ posted'[c] = <<>> /\ rings'.head[c] = g /\ rings'.phase[c] = r
    BY <1>2, <1>10, <1>11 DEF CqInv
  <2>4. ASSUME NEW q \in Queues, q # c
        PROVE  CqOk(q)'
    <3>1. CqOk(q)
      BY <1>2 DEF CqInv
    <3>2. \A k \in DOMAIN posted[q] : posted[q][k] \in Ios
      BY <1>2 DEF CqInv
    <3>3. \A k \in DOMAIN posted[q] : ~G(posted[q][k])
      BY <1>13, <2>4, <3>1, <3>2 DEF CqOk
    <3>4. \A k \in DOMAIN posted[q] : Open(posted[q][k])' /\ io'[posted[q][k]].c = q
      <4> SUFFICES ASSUME NEW k \in DOMAIN posted[q] PROVE Open(posted[q][k])' /\ io'[posted[q][k]].c = q
        OBVIOUS
      <4>1. PICK j : j = posted[q][k]
        OBVIOUS
      <4>2. j \in Ios /\ ~G(j) /\ Open(j) /\ io[j].c = q
        BY <3>1, <3>2, <3>3, <4>1 DEF CqOk
      <4>3. Open(j)' /\ io'[j].c = q
        BY <1>15, <1>16, <4>2
      <4>4. io'[posted[q][k]].st = "open" /\ io'[posted[q][k]].c = q
        BY <4>1, <4>3 DEF Open
      <4> QED
        BY <2>3, <2>4, <4>4 DEF Open
    <3> QED
      BY <1>1, <2>3, <2>4, <3>1, <3>4 DEF CqOk, Open
  <2>5. CqOk(c)'
    <3>1. CqRing(cqm[c], g, r, <<>>, d)
      BY <1>5, <1>6, <1>8, <1>9, TakeRing
    <3>2. Len(<<>>) = 0 /\ DOMAIN <<>> = {}
      OBVIOUS
    <3>3. At(g, 0, d) = g
      BY Places
    <3>4. Tag(g, 0, r, d) = r
      BY NextTag
    <3>5. cqes[c] # NIL => Advanced(cqes[c]).cq_head = g /\ Advanced(cqes[c]).phase = r
      BY <1>2, <1>3, <1>4, <1>8, <1>9 DEF CqInv, CqOk
    <3>6. /\ CqRing(cqm'[c], rings'.head[c], rings'.phase[c], posted'[c], CqSize)
          /\ \A k \in DOMAIN posted'[c] : FALSE
          /\ posted'[c] = <<>>
      BY <1>1, <1>3, <2>3, <3>1, <3>2
    <3>7. cqes'[c] # NIL =>
            /\ Advanced(cqes'[c]).cq_head = At(rings'.head[c], Len(posted'[c]), CqSize)
            /\ Advanced(cqes'[c]).phase = Tag(rings'.head[c], Len(posted'[c]), rings'.phase[c], CqSize)
      BY <1>3, <2>3, <3>2, <3>3, <3>4, <3>5
    <3> QED
      BY <3>6, <3>7 DEF CqOk
  <2>6. \A w \in Workers : Posting(w)'
    BY <1>1, <1>2 DEF CqInv, Posting
  <2> QED
    BY <1>1, <1>2, <2>1, <2>2, <2>4, <2>5, <2>6 DEF CqInv
<1>25. SentInv'
  <2> SUFFICES ASSUME NEW k \in host.open PROVE SentRings(Log[k])'
    BY DEF SentInv
  <2>1. PICK x : x = Log[k]
    OBVIOUS
  <2>2. SentRings(x) /\ SentView(x)
    BY <1>2, <2>1 DEF QueueInv, SentInv, ViewInv, HostQueues
  <2>3. x.op \in {"create_cq", "create_sq", "delete_sq", "delete_cq"} => x.qid \in Queues
    BY <2>1, OpenFacts DEF OnQueues
  <2>4. x.op = "create_cq" /\ ~Executed("create_cq", x.qid) => rings'.head[x.qid] = 0 /\ rings'.phase[x.qid] = 1
    <3> SUFFICES ASSUME x.op = "create_cq", ~Executed("create_cq", x.qid)
                 PROVE  rings'.head[x.qid] = 0 /\ rings'.phase[x.qid] = 1
      OBVIOUS
    <3>1. rings.head[x.qid] = 0 /\ rings.phase[x.qid] = 1 /\ x.qid \notin host.cq /\ x.qid \in Queues
      BY <2>2, <2>3 DEF SentRings, SentView
    <3>2. CASE x.qid = c
      <4>1. a = <<>>
        BY <1>2, <1>4, <3>1, <3>2 DEF CqInv, CqOk
      <4>2. n = 0
        BY <1>8, <4>1
      <4>3. g = h
        BY <1>9, <4>2, Places
      <4>4. r = p
        BY <1>9, <4>2, NextTag
      <4> QED
        BY <1>2, <1>8, <1>10, <3>1, <3>2, <4>3, <4>4 DEF CqInv
    <3>3. CASE x.qid # c
      BY <1>2, <1>10, <3>1, <3>3 DEF CqInv
    <3> QED
      BY <3>2, <3>3
  <2>5. x.op = "delete_sq" => Unposted(x.qid)' = {}
    <3> SUFFICES ASSUME x.op = "delete_sq" PROVE Unposted(x.qid)' = {}
      OBVIOUS
    <3>1. Unposted(x.qid) = {}
      BY <2>2 DEF SentRings
    <3>2. \A j \in Ios : j \in Unposted(x.qid)' => Open(j)' /\ ~Posted(j)' /\ io'[j].q = x.qid
      BY DEF Unposted, Posted, Open
    <3>3. \A j \in Ios : Open(j) /\ ~Posted(j) /\ io[j].q = x.qid => j \in Unposted(x.qid)
      BY DEF Unposted, Posted, Open
    <3>4. \A j \in Ios : j \notin Unposted(x.qid)'
      BY <1>15, <1>19, <3>1, <3>2, <3>3
    <3> QED
      BY <3>4 DEF Unposted
  <2>6. x.op = "delete_cq" => posted'[x.qid] = <<>>
    BY <1>2, <1>11, <2>2, <2>3 DEF SentRings, CqInv
  <2>7. SentRings(x)'
    BY <1>1, <1>10, <1>20, <2>2, <2>4, <2>5, <2>6 DEF SentRings
  <2> QED
    BY <1>20, <2>1, <2>7 DEF SentRings
<1> QED
    BY <1>20, <1>22, <1>23, <1>24, <1>25 DEF QueueInv

-----------------------------------------------------------------------------
(* The steps of the I/O queues: the completion side. *)

\* The entries of the work queue are told apart by their commands.
LEMMA WorkFacts ==
    ASSUME AdminInv, QueueInv, NEW x \in work
    PROVE  /\ x.id \in Ios /\ x.sqid \in Queues /\ x.cqid \in Queues /\ Open(x.id) /\ ~Posted(x.id)
           /\ io[x.id].q = x.sqid /\ io[x.id].c = x.cqid
           /\ \A y \in work : y.id = x.id => y = x
           /\ x.cqid \in host.cq /\ cqes[x.cqid] \in CqStructs
           /\ \E q \in Queues : host.sq[q] # NIL /\ host.sq[q].cqid = x.cqid
<1>1. IoInv
    BY DEF QueueInv
<1>2. \A y \in work : /\ y.id \in Ios /\ y.sqid \in Queues /\ y.cqid \in Queues
                      /\ Open(y.id) /\ ~Posted(y.id) /\ io[y.id].q = y.sqid /\ io[y.id].c = y.cqid
    BY <1>1 DEF IoInv
<1>3. \A y \in work : y.id = x.id => y = x
    BY <1>1 DEF IoInv
<1>4. Located(x.id)
    BY <1>1, <1>2 DEF IoInv
<1>5. host.sq[x.sqid] # NIL /\ host.sq[x.sqid].cqid = x.cqid
    BY <1>2, <1>4 DEF Located
<1>6. x.cqid \in host.cq
    BY <1>2, <1>5 DEF QueueInv, ViewInv, HostQueues
<1>7. cqes[x.cqid] # NIL
    BY <1>2, <1>5, DoneFacts DEF QueueInv
<1>8. cqes[x.cqid] \in CqStructs
    BY <1>2, <1>7 DEF QueueInv, ViewInv
<1> QED
    BY <1>2, <1>3, <1>5, <1>6, <1>8

\* A completion ring has no more answers than the queue has open commands.
LEMMA PostedBound ==
    ASSUME AdminInv, QueueInv, NEW x \in work
    PROVE  Len(posted[x.cqid]) + 1 < CqSize
<1>1. PICK i \in Ios, c \in Queues : i = x.id /\ c = x.cqid
    BY WorkFacts
<1>2. Open(i) /\ ~Posted(i) /\ io[i].c = c
    BY <1>1, WorkFacts
<1>3. PICK a \in Seq(Ios) : a = posted[c]
    BY DEF QueueInv, CqInv
<1>4. PICK L \in Nat : L = Len(a) /\ DOMAIN a = 1 .. L
    OBVIOUS
<1>5. PICK S : S = OpenOn("c", c)
    OBVIOUS
<1>6. \A k \in 1 .. L : a[k] \in S /\ a[k] # i /\ \A j \in 1 .. L : a[j] = a[k] => j = k
  <2>1. \A k \in 1 .. L : /\ a[k] \in Ios /\ Open(a[k]) /\ io[a[k]].c = c
                          /\ \A j \in 1 .. L : a[j] = a[k] => j = k
    <3> SUFFICES ASSUME NEW k \in DOMAIN posted[c]
                 PROVE  /\ Open(posted[c][k]) /\ io[posted[c][k]].c = c
                        /\ \A j \in DOMAIN posted[c] : posted[c][j] = posted[c][k] => j = k
      BY <1>3, <1>4
    <3> QED
      BY DEF QueueInv, CqInv, CqOk
  <2>2. \A k \in 1 .. L : a[k] # i
    BY <1>2, <1>3, <1>4 DEF Posted
  <2> QED
    BY <1>5, <2>1, <2>2 DEF OpenOn, Open
<1>7. i \in S
    BY <1>2, <1>5 DEF OpenOn, Open
<1>8. PICK f : f = [k \in 1 .. L + 1 |-> IF k = L + 1 THEN i ELSE a[k]]
    OBVIOUS
<1>9. f \in [1 .. L + 1 -> S]
    BY <1>6, <1>7, <1>8
<1>10. \A j, k \in 1 .. L + 1 : f[j] = f[k] => j = k
    BY <1>6, <1>8
<1>11. L + 1 \in Nat
    OBVIOUS
<1>12. IsFiniteSet(S) /\ Cardinality(S) \in Nat /\ Cardinality(S) < CqSize
    BY <1>5, OpenOnFinite DEF QueueInv, IoInv
<1>13. L + 1 <= Cardinality(S)
    BY <1>9, <1>10, <1>11, <1>12, Pigeons
<1>14. L + 1 < CqSize
    BY <1>12, <1>13, QueueFacts
<1> QED
    BY <1>1, <1>3, <1>4, <1>14

\* What filling an entry does to a completion queue: after the lock is taken,
\* after it is released, and when interrupt_ready is cleared.
NextHead(cq)  == Succ(cq.cq_head, CqSize)
NextPhase(cq) == IF cq.cq_head + 1 = CqSize THEN 1 - cq.phase ELSE cq.phase

LEMMA AdvanceFields ==
    ASSUME NEW cq \in CqStructs
    PROVE  /\ fill_advance(cq) \in CqStructs
           /\ fill_advance(cq).cq_head = NextHead(cq) /\ fill_advance(cq).phase = NextPhase(cq)
           /\ fill_advance(cq).entry_lock = cq.entry_lock
           /\ fill_advance(cq).irq_enabled = cq.irq_enabled
<1>1. PICK d, h, p : d = CqSize /\ h = cq.cq_head /\ p = cq.phase
    OBVIOUS
<1> d \in Nat \ {0, 1} /\ h \in 0 .. d - 1 /\ p \in {0, 1} /\ cq.queue_size = d
    BY <1>1, QueueFacts DEF CqStructs
<1>2. PICK g \in 0 .. d - 1, r \in {0, 1} : g = Succ(h, d) /\ r = IF h + 1 = d THEN 1 - p ELSE p
    BY DEF Succ
<1>3. PICK y : y = [cq EXCEPT !.cq_head = g]
    OBVIOUS
<1>4. cq = [irq_enabled |-> cq.irq_enabled, interrupt_ready |-> cq.interrupt_ready, queue_size |-> d,
            phase |-> p, cq_head |-> h, entry_lock |-> cq.entry_lock]
      /\ cq.irq_enabled \in BOOLEAN /\ cq.interrupt_ready \in BOOLEAN /\ cq.entry_lock \in BOOLEAN
    BY <1>1 DEF CqStructs
<1>5. y = [irq_enabled |-> cq.irq_enabled, interrupt_ready |-> cq.interrupt_ready, queue_size |-> d,
           phase |-> p, cq_head |-> g, entry_lock |-> cq.entry_lock]
    BY <1>3, <1>4
<1>6. fill_advance(cq) = [y EXCEPT !.phase = r]
    BY <1>1, <1>2, <1>3, <1>4, <1>5 DEF fill_advance, Succ
<1>7. fill_advance(cq) = [irq_enabled |-> cq.irq_enabled, interrupt_ready |-> cq.interrupt_ready, queue_size |-> d,
                          phase |-> r, cq_head |-> g, entry_lock |-> cq.entry_lock]
    BY <1>5, <1>6
<1>8. fill_advance(cq) \in CqStructs
    BY <1>1, <1>4, <1>7 DEF CqStructs
<1>9. NextHead(cq) = g /\ NextPhase(cq) = r
    BY <1>1, <1>2 DEF NextHead, NextPhase
<1> QED
    BY <1>7, <1>8, <1>9

LEMMA LockFields ==
    ASSUME NEW cq \in CqStructs, NEW y, y = [cq EXCEPT !.entry_lock = TRUE]
    PROVE  /\ y \in CqStructs /\ y.entry_lock
           /\ Advanced(y).cq_head = NextHead(cq) /\ Advanced(y).phase = NextPhase(cq)
<1>1. y \in CqStructs /\ y.entry_lock /\ y.cq_head = cq.cq_head /\ y.phase = cq.phase
    BY DEF CqStructs
<1>2. Advanced(y) = fill_advance(y)
    BY <1>1 DEF Advanced
<1>3. NextHead(y) = NextHead(cq) /\ NextPhase(y) = NextPhase(cq)
    BY <1>1 DEF NextHead, NextPhase
<1> QED
    BY <1>1, <1>2, <1>3, AdvanceFields

LEMMA UnlockFields ==
    ASSUME NEW cq \in CqStructs, NEW u, u = [fill_advance(cq) EXCEPT !.interrupt_ready = TRUE],
           NEW y, y = [u EXCEPT !.entry_lock = FALSE]
    PROVE  /\ y \in CqStructs /\ ~y.entry_lock
           /\ y.cq_head = NextHead(cq) /\ y.phase = NextPhase(cq)
<1>1. PICK z \in CqStructs : z = fill_advance(cq) /\ z.cq_head = NextHead(cq) /\ z.phase = NextPhase(cq)
    BY AdvanceFields
<1>2. u = [z EXCEPT !.interrupt_ready = TRUE]
    BY <1>1
<1>3. u \in CqStructs /\ u.cq_head = z.cq_head /\ u.phase = z.phase
    BY <1>2 DEF CqStructs
<1>5. y \in CqStructs /\ ~y.entry_lock /\ y.cq_head = u.cq_head /\ y.phase = u.phase
    BY <1>3 DEF CqStructs
<1> QED
    BY <1>1, <1>3, <1>5

LEMMA ReadyFields ==
    ASSUME NEW cq \in CqStructs, NEW y, y = [cq EXCEPT !.interrupt_ready = FALSE]
    PROVE  /\ y \in CqStructs /\ y.entry_lock = cq.entry_lock
           /\ Advanced(y).cq_head = Advanced(cq).cq_head /\ Advanced(y).phase = Advanced(cq).phase
<1>1. y \in CqStructs /\ y.entry_lock = cq.entry_lock /\ y.cq_head = cq.cq_head /\ y.phase = cq.phase
    BY DEF CqStructs
<1>2. NextHead(y) = NextHead(cq) /\ NextPhase(y) = NextPhase(cq)
    BY <1>1 DEF NextHead, NextPhase
<1>3. CASE cq.entry_lock
    BY <1>1, <1>2, <1>3, AdvanceFields DEF Advanced
<1>4. CASE ~cq.entry_lock
    BY <1>1, <1>4 DEF Advanced
<1> QED
    BY <1>1, <1>3, <1>4

\* An answer more in a ring that has room for it; the lock is taken.
LEMMA PostEntryQueues ==
    ASSUME AdminInv, QueueInv, NEW w \in Workers, NEW x \in work, PostEntry(w, x)
    PROVE  QueueInv'
<1>1. UNCHANGED <<sqm, rings, io, taken, host, aposted, sqes, dbs, old_dbs, disp>>
    BY DEF PostEntry
<1>2. SqInv /\ IoInv /\ CqInv /\ SentInv
    BY DEF QueueInv
<1>3. PICK d \in Nat \ {0, 1} : d = CqSize
    BY QueueFacts
<1>4. PICK i \in Ios, c \in Queues : i = x.id /\ c = x.cqid
    BY WorkFacts
<1>5. /\ Open(i) /\ ~Posted(i) /\ io[i].c = c /\ InWork(i) /\ c \in host.cq
      /\ \A y \in work : y.id = i => y = x
      /\ \E q \in Queues : host.sq[q] # NIL /\ host.sq[q].cqid = c
    BY <1>4, WorkFacts DEF InWork
<1>6. PICK a \in Seq(Ios) : a = posted[c]
    BY <1>2 DEF CqInv
<1>7. a \in Seq(Nat)
  <2>1. \A k \in DOMAIN a : a[k] \in Nat
    BY CmdAssumption DEF Ios
  <2> QED
    BY <2>1
<1>8. CqOk(c) /\ CqRing(cqm[c], rings.head[c], rings.phase[c], a, d)
    BY <1>2, <1>3, <1>6 DEF CqInv, CqOk
<1>9. PICK h \in 0 .. d - 1, p \in {0, 1}, L \in 0 .. d - 2 : h = rings.head[c] /\ p = rings.phase[c] /\ L = Len(a)
  <2>1. rings.head[c] \in 0 .. d - 1 /\ rings.phase[c] \in {0, 1}
    BY <1>8 DEF CqRing
  <2>2. Len(a) + 1 < d /\ Len(a) \in Nat
    BY <1>3, <1>4, <1>6, PostedBound
  <2>3. Len(a) \in 0 .. d - 2
    BY <2>2
  <2> QED
    BY <2>1, <2>3
<1>10. PICK cq \in CqStructs : cq = cqes[c]
    BY <1>4, WorkFacts
<1>11. ~cq.entry_lock
    BY <1>4, <1>10 DEF PostEntry
<1>12. cq.cq_head = At(h, L, d) /\ cq.phase = Tag(h, L, p, d) /\ cq.queue_size = d
  <2>1. cqes[c] # NIL /\ cq.queue_size = d
    <3>1. cq # NIL
      BY NilFacts DEF CqStructs
    <3>2. cq.queue_size = d
      BY <1>3 DEF CqStructs
    <3> QED
      BY <1>10, <3>1, <3>2
  <2>2. Advanced(cq) = cq
    BY <1>11 DEF Advanced
  <2>3. /\ Advanced(cqes[c]).cq_head = At(rings.head[c], Len(posted[c]), CqSize)
        /\ Advanced(cqes[c]).phase = Tag(rings.head[c], Len(posted[c]), rings.phase[c], CqSize)
    BY <1>8, <2>1 DEF CqOk
  <2> QED
    BY <1>3, <1>6, <1>9, <1>10, <2>1, <2>2, <2>3
<1>13. PICK g, e : g \in 0 .. d - 1 /\ g = At(h, L, d) /\ e = [id |-> i, phase |-> Tag(h, L, p, d)]
  <2>1. At(h, L, d) \in 0 .. d - 1
    BY Places
  <2> QED
    BY <2>1
<1>14. /\ cqm' = [cqm EXCEPT ![c] = [cqm[c] EXCEPT ![g] = e]]
       /\ posted' = [posted EXCEPT ![c] = Append(a, i)]
       /\ thr' = [thr EXCEPT ![w] = [pc |-> "post", x |-> i, cq |-> c]]
       /\ work' = work \ {x}
  <2>1. cqm' = [cqm EXCEPT ![c][cq.cq_head] = [id |-> i, phase |-> cq.phase]]
    BY <1>4, <1>10 DEF PostEntry
  <2>2. cqm' = [cqm EXCEPT ![c] = [cqm[c] EXCEPT ![g] = e]]
    BY <1>12, <1>13, <2>1
  <2> QED
    BY <1>4, <1>6, <2>2 DEF PostEntry
<1>15. PICK y \in CqStructs : /\ cqes' = [cqes EXCEPT ![c] = y] /\ y.entry_lock
                              /\ Advanced(y).cq_head = At(h, L + 1, d) /\ Advanced(y).phase = Tag(h, L + 1, p, d)
  <2>1. PICK y : y = [cq EXCEPT !.entry_lock = TRUE]
    OBVIOUS
  <2>2. cqes' = [cqes EXCEPT ![c] = y]
    BY <1>4, <1>10, <2>1 DEF PostEntry
  <2>3. /\ y \in CqStructs /\ y.entry_lock
        /\ Advanced(y).cq_head = NextHead(cq) /\ Advanced(y).phase = NextPhase(cq)
    BY <2>1, LockFields
  <2>4. NextHead(cq) = At(h, L + 1, d)
    BY <1>3, <1>12, Places DEF NextHead
  <2>5. NextPhase(cq) = Tag(h, L + 1, p, d)
    BY <1>3, <1>12, NextTag DEF NextPhase
  <2> QED
    BY <2>2, <2>3, <2>4, <2>5
<1>16. CqRing(cqm'[c], h, p, Append(a, i), d)
  <2>1. cqm'[c] = [cqm[c] EXCEPT ![g] = e]
    BY <1>2, <1>14 DEF CqInv
  <2>2. CqRing(cqm[c], h, p, a, d) /\ Len(a) + 1 < d /\ i \in Nat
    BY <1>8, <1>9, CmdAssumption DEF Ios
  <2>3. e = [id |-> i, phase |-> Tag(h, Len(a), p, d)] /\ g = At(h, Len(a), d)
    BY <1>9, <1>13
  <2> QED
    BY <1>7, <2>1, <2>2, <2>3, PostRing
<1>17. PICK b \in Seq(Ios) : b = Append(a, i) /\ Len(b) = L + 1 /\ \A k \in 1 .. L + 1 : b[k] = IF k = L + 1 THEN i ELSE a[k]
  <2>1. PICK n \in Nat : n = L /\ Len(a) = n
    BY <1>9
  <2>2. PICK b : b = Append(a, i)
    OBVIOUS
  <2>3. b \in Seq(Ios) /\ Len(b) = n + 1
    BY <2>1, <2>2
  <2>4. \A k \in 1 .. n + 1 : b[k] = IF k = n + 1 THEN i ELSE a[k]
    BY <2>1, <2>2
  <2> QED
    BY <2>1, <2>2, <2>3, <2>4
<1>18. /\ \A q \in Queues : q # c => posted'[q] = posted[q] /\ cqm'[q] = cqm[q] /\ cqes'[q] = cqes[q]
       /\ posted'[c] = b /\ cqes'[c] = y
    BY <1>2, <1>14, <1>15, <1>17 DEF CqInv, QueueInv, ViewInv
<1>19. \A j : InWork(j)' <=> InWork(j) /\ j # i
    BY <1>4, <1>5, <1>14 DEF InWork
<1>20. \A j : Posted(j)' <=> Posted(j) \/ j = i
  <2>1. DOMAIN b = 1 .. L + 1 /\ DOMAIN a = 1 .. L /\ L \in Nat
    BY <1>9, <1>17
  <2>2. \A j : (\E k \in DOMAIN b : b[k] = j) <=> (\E k \in DOMAIN a : a[k] = j) \/ j = i
    <3>1. b[L + 1] = i /\ L + 1 \in DOMAIN b
      BY <1>17, <2>1
    <3>2. \A k \in DOMAIN a : k \in DOMAIN b /\ b[k] = a[k]
      BY <1>17, <2>1
    <3>3. \A k \in DOMAIN b : k = L + 1 \/ k \in DOMAIN a
      BY <2>1
    <3> QED
      BY <3>1, <3>2, <3>3
  <2>3. \A j : Posted(j)' <=> (\E k \in DOMAIN b : b[k] = j) \/ \E q \in Queues : q # c /\ \E k \in DOMAIN posted[q] : posted[q][k] = j
    BY <1>18 DEF Posted
  <2>4. \A j : Posted(j) <=> (\E k \in DOMAIN a : a[k] = j) \/ \E q \in Queues : q # c /\ \E k \in DOMAIN posted[q] : posted[q][k] = j
    BY <1>6 DEF Posted
  <2> QED
    BY <2>2, <2>3, <2>4
<1>21. \A j : Open(j)' <=> Open(j)
    BY <1>1 DEF Open
<1>22. cqes' \in [Queues -> {NIL} \cup CqStructs] /\ \A q \in Queues : cqes'[q] # NIL <=> cqes[q] # NIL
  <2>1. cqes \in [Queues -> {NIL} \cup CqStructs] /\ y # NIL /\ cq # NIL
    BY NilFacts DEF QueueInv, ViewInv
  <2>2. cqes' \in [Queues -> {NIL} \cup CqStructs]
    BY <1>15, <2>1
  <2> QED
    BY <1>10, <1>18, <2>1, <2>2
<1>23. ViewInv' /\ Log' = Log /\ \A op, q : Executed(op, q)' <=> Executed(op, q)
    BY <1>1, <1>22, ViewData DEF QueueInv
<1>24. \A q \in Queues : SameRing(q)
    BY <1>1, RingFrame
<1>25. SqInv'
  <2>1. ASSUME NEW q \in Queues, NEW k, OwedOk(q, k)
        PROVE  OwedOk(q, k)'
    <3>1. PICK j : j = OwedAt(q, k)
      OBVIOUS
    <3>2. /\ j \in Ios /\ Open(j) /\ io[j].q = q /\ ~Posted(j) /\ ~InWork(j)
          /\ \A l \in 0 .. Left(q) - 1 : OwedAt(q, l) = j => l = k
      BY <2>1, <3>1 DEF OwedOk
    <3>3. OwedAt(q, k)' = j /\ Left(q)' = Left(q) /\ \A l : OwedAt(q, l)' = OwedAt(q, l)
      BY <1>24, <3>1 DEF SameRing
    <3>4. Open(j)' /\ ~Posted(j)' /\ ~InWork(j)' /\ io'[j].q = q
      BY <1>1, <1>5, <1>19, <1>20, <1>21, <3>2
    <3> QED
      BY <3>2, <3>3, <3>4 DEF OwedOk
  <2>2. \A q \in Queues : disp'.pc = "io" /\ disp'.q = q =>
          /\ host'.sq[q] # NIL /\ sqes'[q] # NIL
          /\ disp'.at < SqSize /\ disp'.new < SqSize
          /\ Dist(disp'.at, disp'.new, SqSize) <= Left(q)'
    BY <1>1, <1>2, <1>24 DEF SqInv, SameRing
  <2>3. \A q \in Queues : host'.sq[q] # NIL =>
          dbs'[q] = rings'.tail[q] /\ \A k \in 0 .. Left(q)' - 1 : OwedOk(q, k)'
    BY <1>1, <1>2, <1>24, <2>1 DEF SqInv, SameRing
  <2>4. \A q \in Queues : dbs'[q] < SqSize /\ old_dbs'[q] < SqSize
    BY <1>1, <1>2 DEF SqInv
  <2>5. \A q \in Queues : Executed("create_sq", q)' => dbs'[q] = 0 /\ old_dbs'[q] = 0
    BY <1>1, <1>2, <1>23 DEF SqInv
  <2>6. sqm' \in [Queues -> [0 .. SqSize - 1 -> 0 .. NrIos]]
    BY <1>1, <1>2 DEF SqInv
  <2> QED
    BY <2>2, <2>3, <2>4, <2>5, <2>6 DEF SqInv
<1>26. IoInv'
  <2>1. \A z \in work' : Open(z.id)' /\ io'[z.id].q = z.sqid /\ io'[z.id].c = z.cqid /\ ~Posted(z.id)'
    <3> SUFFICES ASSUME NEW z \in work, z # x
                 PROVE  Open(z.id)' /\ io'[z.id].q = z.sqid /\ io'[z.id].c = z.cqid /\ ~Posted(z.id)'
      BY <1>14
    <3>1. z.id # i /\ Open(z.id) /\ io[z.id].q = z.sqid /\ io[z.id].c = z.cqid /\ ~Posted(z.id)
      BY <1>2, <1>5 DEF IoInv
    <3>2. Open(z.id)' /\ ~Posted(z.id)'
      BY <1>20, <1>21, <3>1
    <3> QED
      BY <1>1, <3>1, <3>2
  <2>2. ASSUME NEW j \in Ios, Open(j)', ~Posted(j)'
        PROVE  Located(j)'
    <3>1. Open(j) /\ ~Posted(j) /\ j # i
      BY <1>20, <1>21, <2>2
    <3>2. PICK q \in Queues : q = io[j].q
      BY <1>2, <3>1, QueueOf DEF Open
    <3>3. /\ host.sq[q] # NIL /\ host.sq[q].cqid = io[j].c
          /\ InWork(j) \/ \E k \in 0 .. Left(q) - 1 : OwedAt(q, k) = j
      BY <1>2, <3>1, <3>2 DEF IoInv, Located
    <3>4. InWork(j)' \/ \E k \in 0 .. Left(q)' - 1 : OwedAt(q, k)' = j
      BY <1>19, <1>24, <3>1, <3>3 DEF SameRing
    <3> QED
      BY <1>1, <3>2, <3>3, <3>4 DEF Located
  <2>3. \A j \in Ios : taken'[j] = IF io'[j].st = "seen" \/ Posted(j)' \/ InWork(j)' THEN 1 ELSE 0
    <3> SUFFICES ASSUME NEW j \in Ios
                 PROVE  taken[j] = IF io[j].st = "seen" \/ Posted(j)' \/ InWork(j)' THEN 1 ELSE 0
      BY <1>1
    <3>1. taken[j] = IF io[j].st = "seen" \/ Posted(j) \/ InWork(j) THEN 1 ELSE 0
      BY <1>2 DEF IoInv
    <3>2. Posted(j)' \/ InWork(j)' <=> Posted(j) \/ InWork(j)
      BY <1>5, <1>19, <1>20
    <3> QED
      BY <3>1, <3>2
  <2>4. \A q \in Queues : Cardinality(OpenOn("c", q))' < CqSize
    BY <1>1, <1>2 DEF IoInv, OpenOn
  <2>5. /\ work' \subseteq [id : Ios, sqid : Queues, cqid : Queues, queued : BOOLEAN]
        /\ \A u, v \in work' : u.id = v.id => u = v
    BY <1>2, <1>14 DEF IoInv
  <2>6. /\ io' \in [Ios -> [st : {"new", "open", "seen"}, q : 0 .. NrQueues, c : 0 .. NrQueues]]
        /\ \A j \in Ios : io'[j].st # "new" => io'[j].q # 0 /\ io'[j].c # 0
        /\ taken' \in [Ios -> 0 .. 2]
    BY <1>1, <1>2 DEF IoInv
  <2> QED
    BY <2>1, <2>2, <2>3, <2>4, <2>5, <2>6 DEF IoInv
<1>27. CqInv'
  <2>1. posted' \in [Queues -> Seq(Ios)]
    BY <1>2, <1>14, <1>17 DEF CqInv
  <2>2. thr' \in [Workers -> [pc : {"idle", "post", "signal"}, x : 0 .. NrIos, cq : 0 .. NrQueues]]
    <3>1. thr \in [Workers -> [pc : {"idle", "post", "signal"}, x : 0 .. NrIos, cq : 0 .. NrQueues]]
      BY <1>2 DEF CqInv
    <3>2. i \in 0 .. NrIos /\ c \in 0 .. NrQueues
      BY CmdAssumption, QueueFacts DEF Ios
    <3>3. [pc |-> "post", x |-> i, cq |-> c] \in [pc : {"idle", "post", "signal"}, x : 0 .. NrIos, cq : 0 .. NrQueues]
      BY <3>2
    <3> QED
      BY <1>14, <3>1, <3>3
  <2>3. cqm' \in [Queues -> [0 .. CqSize - 1 -> [id : Nat, phase : {0, 1}]]]
    <3>1. cqm \in [Queues -> [0 .. d - 1 -> [id : Nat, phase : {0, 1}]]]
      BY <1>2, <1>3 DEF CqInv
    <3>2. cqm'[c] \in [0 .. d - 1 -> [id : Nat, phase : {0, 1}]]
      BY <1>16 DEF CqRing
    <3>3. PICK f : f = [cqm[c] EXCEPT ![g] = e]
      OBVIOUS
    <3>4. cqm' = [cqm EXCEPT ![c] = f]
      BY <1>14, <3>3
    <3>5. f = cqm'[c]
      BY <3>1, <3>4
    <3> QED
      BY <1>3, <3>1, <3>2, <3>4, <3>5
  <2>4. ASSUME NEW q \in Queues, q # c
        PROVE  CqOk(q)'
    <3>1. CqOk(q)
      BY <1>2 DEF CqInv
    <3> QED
      BY <1>1, <1>18, <2>4, <3>1 DEF CqOk, Open
  <2>5. CqOk(c)'
    <3>1. CqRing(cqm'[c], rings'.head[c], rings'.phase[c], posted'[c], CqSize)
      BY <1>1, <1>3, <1>9, <1>16, <1>17, <1>18
    <3>2. \A k \in DOMAIN b :
             /\ Open(b[k])' /\ io'[b[k]].c = c
             /\ \A j \in DOMAIN b : b[j] = b[k] => j = k
      <4>1. DOMAIN b = 1 .. L + 1 /\ DOMAIN a = 1 .. L /\ L \in Nat
        BY <1>9, <1>17
      <4>2. \A k \in DOMAIN a : Open(a[k]) /\ io[a[k]].c = c /\ \A j \in DOMAIN a : a[j] = a[k] => j = k
        <5> SUFFICES ASSUME NEW k \in DOMAIN posted[c]
                     PROVE  /\ Open(posted[c][k]) /\ io[posted[c][k]].c = c
                            /\ \A j \in DOMAIN posted[c] : posted[c][j] = posted[c][k] => j = k
          BY <1>6
        <5> QED
          BY <1>8 DEF CqOk
      <4>3. \A k \in DOMAIN a : a[k] # i
        BY <1>5, <1>6 DEF Posted
      <4>4. \A k \in DOMAIN b : k = L + 1 \/ k \in DOMAIN a
        BY <4>1
      <4>5. \A k \in DOMAIN b : IF k = L + 1 THEN b[k] = i ELSE b[k] = a[k] /\ k \in DOMAIN a
        BY <1>17, <4>1, <4>4
      <4>6. ASSUME NEW k \in DOMAIN b
            PROVE  Open(b[k])' /\ io'[b[k]].c = c
        <5>1. Open(b[k]) /\ io[b[k]].c = c
          BY <1>5, <4>2, <4>5
        <5> QED
          BY <1>1, <5>1 DEF Open
      <4>7. \A k, j \in DOMAIN b : b[j] = b[k] => j = k
        BY <4>2, <4>3, <4>5
      <4> QED
        BY <4>6, <4>7
    <3>3. \A k \in DOMAIN posted'[c] :
             /\ Open(posted[c][k])' /\ io'[posted'[c][k]].c = c
             /\ \A j \in DOMAIN posted'[c] : posted'[c][j] = posted'[c][k] => j = k
      BY <1>18, <3>2 DEF Open
    <3>4. c \in host'.cq
      BY <1>1, <1>5
    <3>5. /\ Advanced(cqes'[c]).cq_head = At(rings'.head[c], Len(posted'[c]), CqSize)
          /\ Advanced(cqes'[c]).phase = Tag(rings'.head[c], Len(posted'[c]), rings'.phase[c], CqSize)
      BY <1>1, <1>3, <1>9, <1>15, <1>17, <1>18
    <3> QED
      BY <3>1, <3>3, <3>4, <3>5 DEF CqOk
  <2>6. ASSUME NEW v \in Workers
        PROVE  Posting(v)'
    <3>1. thr'[w] = [pc |-> "post", x |-> i, cq |-> c] /\ \A u \in Workers : u # w => thr'[u] = thr[u]
      BY <1>2, <1>14 DEF CqInv
    <3>2. \A u \in Workers : thr[u].pc = "post" =>
            /\ thr[u].cq \in Queues /\ cqes[thr[u].cq] # NIL /\ cqes[thr[u].cq].entry_lock
            /\ \A r \in Workers : thr[r].pc = "post" /\ thr[r].cq = thr[u].cq => r = u
      BY <1>2 DEF CqInv, Posting
    <3>3. \A u \in Workers : thr[u].pc = "post" => thr[u].cq # c
      BY <1>10, <1>11, <3>2
    <3>4. y # NIL
      BY NilFacts
    <3>5. CASE v = w
      BY <1>15, <1>18, <3>1, <3>3, <3>4, <3>5 DEF Posting
    <3>6. CASE v # w
      <4> SUFFICES ASSUME thr[v].pc = "post"
                   PROVE  /\ thr[v].cq \in Queues /\ cqes'[thr[v].cq] # NIL /\ cqes'[thr[v].cq].entry_lock
                          /\ \A r \in Workers : thr'[r].pc = "post" /\ thr'[r].cq = thr[v].cq => r = v
        BY <3>1, <3>6 DEF Posting
      <4>1. PICK k \in Queues : k = thr[v].cq /\ k # c /\ cqes[k] # NIL /\ cqes[k].entry_lock
        BY <3>2, <3>3
      <4>2. cqes'[k] # NIL /\ cqes'[k].entry_lock
        BY <1>18, <4>1
      <4>3. \A r \in Workers : thr'[r].pc = "post" /\ thr'[r].cq = k => r = v
        BY <3>1, <3>2, <4>1
      <4> QED
        BY <4>1, <4>2, <4>3
    <3> QED
      BY <3>5, <3>6
  <2> QED
    BY <1>1, <1>2, <2>1, <2>2, <2>3, <2>4, <2>5, <2>6 DEF CqInv
<1>28. SentInv'
  <2> SUFFICES ASSUME NEW k \in host.open PROVE SentRings(Log[k])'
    BY <1>1 DEF SentInv
  <2>1. PICK z : z = Log[k]
    OBVIOUS
  <2>2. SentRings(z) /\ SentView(z)
    BY <1>2, <2>1 DEF QueueInv, SentInv, ViewInv, HostQueues
  <2>3. z.op = "delete_sq" => Unposted(z.qid)' = {}
    <3> SUFFICES ASSUME z.op = "delete_sq" PROVE Unposted(z.qid)' = {}
      OBVIOUS
    <3>1. Unposted(z.qid) = {}
      BY <2>2 DEF SentRings
    <3>2. \A j \in Ios : j \in Unposted(z.qid)' => Open(j)' /\ ~Posted(j)' /\ io'[j].q = z.qid
      BY DEF Unposted, Posted, Open
    <3>3. \A j \in Ios : Open(j) /\ ~Posted(j) /\ io[j].q = z.qid => j \in Unposted(z.qid)
      BY DEF Unposted, Posted, Open
    <3>4. \A j \in Ios : j \notin Unposted(z.qid)'
      BY <1>1, <1>20, <1>21, <3>1, <3>2, <3>3
    <3> QED
      BY <3>4 DEF Unposted
  <2>4. z.op = "delete_cq" => /\ posted'[z.qid] = <<>>
                              /\ \A v \in Workers : thr'[v].pc = "post" => thr'[v].cq # z.qid
    <3> SUFFICES ASSUME z.op = "delete_cq"
                 PROVE  /\ posted'[z.qid] = <<>>
                        /\ \A v \in Workers : thr'[v].pc = "post" => thr'[v].cq # z.qid
      OBVIOUS
    <3>1. z.qid # c
      BY <1>5, <2>2 DEF SentView
    <3>2. z.qid \in Queues
      BY <2>1, OpenFacts DEF OnQueues
    <3>3. thr'[w].cq = c /\ \A u \in Workers : u # w => thr'[u] = thr[u]
      BY <1>2, <1>14 DEF CqInv
    <3> QED
      BY <1>18, <2>2, <3>1, <3>2, <3>3 DEF SentRings
  <2>5. SentRings(z)'
    BY <1>1, <1>23, <2>2, <2>3, <2>4 DEF SentRings
  <2> QED
    BY <1>23, <2>1, <2>5 DEF SentRings
<1> QED
    BY <1>23, <1>25, <1>26, <1>27, <1>28 DEF QueueInv

\* A worker that does not post leaves the positions in the rings where they are.
LEMMA CqFrame ==
    ASSUME AdminInv, QueueInv,
           UNCHANGED <<sqm, cqm, rings, io, work, taken, posted, host, aposted, sqes, dbs, old_dbs, disp>>,
           cqes' \in [Queues -> {NIL} \cup CqStructs],
           \A q \in Queues : /\ cqes'[q] # NIL <=> cqes[q] # NIL
                             /\ cqes[q] # NIL => /\ Advanced(cqes'[q]).cq_head = Advanced(cqes[q]).cq_head
                                                 /\ Advanced(cqes'[q]).phase = Advanced(cqes[q]).phase,
           thr' \in [Workers -> [pc : {"idle", "post", "signal"}, x : 0 .. NrIos, cq : 0 .. NrQueues]],
           \A w \in Workers : thr'[w].pc = "post" => thr[w].pc = "post" /\ thr'[w].cq = thr[w].cq,
           \A w \in Workers : thr'[w].pc = "post" => cqes'[thr'[w].cq].entry_lock
    PROVE  QueueInv'
<1>1. SqInv /\ IoInv /\ CqInv /\ SentInv
    BY DEF QueueInv
<1>2. ViewInv' /\ Log' = Log /\ \A op, q : Executed(op, q)' <=> Executed(op, q)
    BY ViewData DEF QueueInv
<1>3. \A q \in Queues : SameRing(q)
    BY RingFrame
<1>4. SqInv'
  <2>1. \A q \in Queues : \A k : OwedOk(q, k) => OwedOk(q, k)'
    BY <1>3, OwedFrame
  <2>2. \A q \in Queues : disp'.pc = "io" /\ disp'.q = q =>
          /\ host'.sq[q] # NIL /\ sqes'[q] # NIL
          /\ disp'.at < SqSize /\ disp'.new < SqSize
          /\ Dist(disp'.at, disp'.new, SqSize) <= Left(q)'
    BY <1>1, <1>3 DEF SqInv, SameRing
  <2>3. \A q \in Queues : host'.sq[q] # NIL =>
          dbs'[q] = rings'.tail[q] /\ \A k \in 0 .. Left(q)' - 1 : OwedOk(q, k)'
    BY <1>1, <1>3, <2>1 DEF SqInv, SameRing
  <2> QED
    BY <1>1, <1>2, <2>2, <2>3 DEF SqInv
<1>5. IoInv'
    BY <1>1, <1>3, IoFrame
<1>6. CqInv'
  <2>1. ASSUME NEW q \in Queues
        PROVE  CqOk(q)'
    <3>1. CqOk(q)
      BY <1>1 DEF CqInv
    <3>2. cqes'[q] # NIL =>
            /\ Advanced(cqes'[q]).cq_head = At(rings'.head[q], Len(posted'[q]), CqSize)
            /\ Advanced(cqes'[q]).phase = Tag(rings'.head[q], Len(posted'[q]), rings'.phase[q], CqSize)
      BY <3>1 DEF CqOk
    <3> QED
      BY <3>1, <3>2 DEF CqOk, Open
  <2>2. ASSUME NEW w \in Workers
        PROVE  Posting(w)'
    <3> SUFFICES ASSUME thr'[w].pc = "post"
                 PROVE  /\ thr'[w].cq \in Queues /\ cqes'[thr'[w].cq] # NIL /\ cqes'[thr'[w].cq].entry_lock
                        /\ \A v \in Workers : thr'[v].pc = "post" /\ thr'[v].cq = thr'[w].cq => v = w
      BY DEF Posting
    <3>1. PICK c \in Queues : c = thr'[w].cq /\ c = thr[w].cq /\ cqes[c] # NIL
      BY <1>1 DEF CqInv, Posting
    <3>2. \A v \in Workers : thr[v].pc = "post" /\ thr[v].cq = c => v = w
      BY <1>1, <3>1 DEF CqInv, Posting
    <3> QED
      BY <3>1, <3>2
  <2> QED
    BY <1>1, <2>1, <2>2 DEF CqInv
<1>7. SentInv'
  <2> SUFFICES ASSUME NEW k \in host.open PROVE SentRings(Log[k])'
    BY DEF SentInv
  <2>1. PICK z : z = Log[k]
    OBVIOUS
  <2>2. SentRings(z)
    BY <1>1, <2>1 DEF SentInv
  <2>3. SentRings(z)'
    BY <1>2, <2>2, PlacesFrame DEF SentRings
  <2> QED
    BY <1>2, <2>1, <2>3 DEF SentRings
<1> QED
    BY <1>2, <1>4, <1>5, <1>6, <1>7 DEF QueueInv

\* The lock is released: the queue is as it was to be.
LEMMA FinishEntryQueues ==
    ASSUME AdminInv, QueueInv, NEW w \in Workers, FinishEntry(w)
    PROVE  QueueInv'
<1>1. UNCHANGED <<sqm, cqm, rings, io, work, taken, posted, host, aposted, sqes, dbs, old_dbs, disp>>
    BY DEF FinishEntry
<1>2. PICK c \in Queues : c = thr[w].cq /\ thr[w].pc = "post"
    BY DEF FinishEntry, QueueInv, CqInv, Posting
<1>3. PICK cq \in CqStructs : cq = cqes[c] /\ cq.entry_lock
    BY <1>2 DEF QueueInv, CqInv, Posting, ViewInv
<1>4. PICK u, y : u = [fill_advance(cq) EXCEPT !.interrupt_ready = TRUE] /\ y = [u EXCEPT !.entry_lock = FALSE]
    OBVIOUS
<1>5. cqes' = [cqes EXCEPT ![c] = y] /\ thr' = [thr EXCEPT ![w] = [pc |-> "idle", x |-> 0, cq |-> 0]]
    BY <1>2, <1>3, <1>4 DEF FinishEntry
<1>6. y \in CqStructs /\ ~y.entry_lock /\ y.cq_head = NextHead(cq) /\ y.phase = NextPhase(cq)
    BY <1>4, UnlockFields
<1>7. Advanced(y) = y /\ Advanced(cq) = fill_advance(cq)
    BY <1>3, <1>6 DEF Advanced
<1>8. Advanced(y).cq_head = Advanced(cq).cq_head /\ Advanced(y).phase = Advanced(cq).phase
    BY <1>6, <1>7, AdvanceFields
<1>9. cqes \in [Queues -> {NIL} \cup CqStructs] /\ y # NIL /\ cq # NIL
    BY <1>6, NilFacts DEF QueueInv, ViewInv
<1>10. cqes' \in [Queues -> {NIL} \cup CqStructs]
    BY <1>5, <1>6, <1>9
<1>11. \A q \in Queues : cqes'[q] = IF q = c THEN y ELSE cqes[q]
    BY <1>5, <1>9
<1>12. \A q \in Queues : /\ cqes'[q] # NIL <=> cqes[q] # NIL
                         /\ cqes[q] # NIL => /\ Advanced(cqes'[q]).cq_head = Advanced(cqes[q]).cq_head
                                             /\ Advanced(cqes'[q]).phase = Advanced(cqes[q]).phase
    BY <1>3, <1>8, <1>9, <1>11
<1>13. thr \in [Workers -> [pc : {"idle", "post", "signal"}, x : 0 .. NrIos, cq : 0 .. NrQueues]]
    BY DEF QueueInv, CqInv
<1>14. thr' \in [Workers -> [pc : {"idle", "post", "signal"}, x : 0 .. NrIos, cq : 0 .. NrQueues]]
  <2>1. [pc |-> "idle", x |-> 0, cq |-> 0] \in [pc : {"idle", "post", "signal"}, x : 0 .. NrIos, cq : 0 .. NrQueues]
    BY QueueFacts, CmdAssumption
  <2> QED
    BY <1>5, <1>13, <2>1
<1>15. \A v \in Workers : thr'[v].pc = "post" => v # w /\ thr'[v] = thr[v]
    BY <1>5, <1>13
<1>16. \A v \in Workers : thr'[v].pc = "post" => cqes'[thr'[v].cq].entry_lock
  <2> SUFFICES ASSUME NEW v \in Workers, thr'[v].pc = "post" PROVE cqes'[thr'[v].cq].entry_lock
    OBVIOUS
  <2>1. v # w /\ thr'[v] = thr[v]
    BY <1>15
  <2>2. PICK k \in Queues : k = thr[v].cq /\ cqes[k].entry_lock /\ k # c
    BY <1>2, <2>1 DEF QueueInv, CqInv, Posting
  <2> QED
    BY <1>11, <2>1, <2>2
<1> QED
    BY <1>1, <1>10, <1>12, <1>14, <1>15, <1>16, CqFrame

LEMMA RaiseIrqQueues ==
    ASSUME AdminInv, QueueInv, NEW w \in Workers, NEW c \in Queues, RaiseIrq(w, c)
    PROVE  QueueInv'
<1>1. UNCHANGED <<sqm, cqm, rings, io, work, taken, posted, host, aposted, sqes, dbs, old_dbs, disp>>
    BY DEF RaiseIrq
<1>2. /\ cqes \in [Queues -> {NIL} \cup CqStructs]
      /\ thr \in [Workers -> [pc : {"idle", "post", "signal"}, x : 0 .. NrIos, cq : 0 .. NrQueues]]
      /\ \A v \in Workers : Posting(v)
    BY DEF QueueInv, ViewInv, CqInv
<1>3. \A v \in Workers : thr[v].pc = "post" => thr[v].cq \in Queues /\ cqes[thr[v].cq].entry_lock
    BY <1>2 DEF Posting
<1>4. 0 \in 0 .. NrIos /\ c \in 0 .. NrQueues /\ 0 \in 0 .. NrQueues
    BY QueueFacts, CmdAssumption
<1>5. CASE /\ IrqDue(w, c) /\ ClearReady(c)
           /\ thr' = [thr EXCEPT ![w] = [pc |-> "signal", x |-> 0, cq |-> c]]
  <2>1. PICK cq \in CqStructs : cq = cqes[c]
    BY <1>2, <1>5 DEF IrqDue
  <2>2. PICK y : y = [cq EXCEPT !.interrupt_ready = FALSE]
    OBVIOUS
  <2>3. cqes' = [cqes EXCEPT ![c] = y]
    BY <1>5, <2>1, <2>2 DEF ClearReady
  <2>4. /\ y \in CqStructs /\ y.entry_lock = cq.entry_lock
        /\ Advanced(y).cq_head = Advanced(cq).cq_head /\ Advanced(y).phase = Advanced(cq).phase
    BY <2>2, ReadyFields
  <2>5. y # NIL /\ cq # NIL
    BY <2>4, NilFacts
  <2>6. cqes' \in [Queues -> {NIL} \cup CqStructs]
    BY <1>2, <2>3, <2>4
  <2>7. \A q \in Queues : cqes'[q] = IF q = c THEN y ELSE cqes[q]
    BY <1>2, <2>3
  <2>8. \A q \in Queues : /\ cqes'[q] # NIL <=> cqes[q] # NIL
                          /\ cqes[q] # NIL => /\ Advanced(cqes'[q]).cq_head = Advanced(cqes[q]).cq_head
                                              /\ Advanced(cqes'[q]).phase = Advanced(cqes[q]).phase
    BY <2>1, <2>4, <2>5, <2>7
  <2>9. thr' \in [Workers -> [pc : {"idle", "post", "signal"}, x : 0 .. NrIos, cq : 0 .. NrQueues]]
    <3>1. [pc |-> "signal", x |-> 0, cq |-> c] \in [pc : {"idle", "post", "signal"}, x : 0 .. NrIos, cq : 0 .. NrQueues]
      BY <1>4
    <3> QED
      BY <1>2, <1>5, <3>1
  <2>10. \A v \in Workers : thr'[v].pc = "post" => thr'[v] = thr[v]
    BY <1>2, <1>5
  <2>11. \A v \in Workers : thr'[v].pc = "post" => cqes'[thr'[v].cq].entry_lock
    <3> SUFFICES ASSUME NEW v \in Workers, thr'[v].pc = "post" PROVE cqes'[thr'[v].cq].entry_lock
      OBVIOUS
    <3>1. PICK k \in Queues : k = thr'[v].cq /\ cqes[k].entry_lock
      BY <1>3, <2>10
    <3> QED
      BY <2>1, <2>4, <2>7, <3>1
  <2> QED
    BY <1>1, <2>6, <2>8, <2>9, <2>10, <2>11, CqFrame
<1>6. CASE /\ thr[w].pc = "signal" /\ thr[w].cq = c /\ Signal(c)
           /\ thr' = [thr EXCEPT ![w] = [pc |-> "idle", x |-> 0, cq |-> 0]]
  <2>1. cqes' = cqes
    BY <1>6 DEF Signal
  <2>2. thr' \in [Workers -> [pc : {"idle", "post", "signal"}, x : 0 .. NrIos, cq : 0 .. NrQueues]]
    <3>1. [pc |-> "idle", x |-> 0, cq |-> 0] \in [pc : {"idle", "post", "signal"}, x : 0 .. NrIos, cq : 0 .. NrQueues]
      BY <1>4
    <3> QED
      BY <1>2, <1>6, <3>1
  <2>3. \A v \in Workers : thr'[v].pc = "post" => thr'[v] = thr[v]
    BY <1>2, <1>6
  <2> QED
    BY <1>1, <1>2, <1>3, <2>1, <2>2, <2>3, CqFrame
<1> QED
    BY <1>5, <1>6 DEF RaiseIrq

-----------------------------------------------------------------------------
(* All steps. *)

\* The steps of the admin queue that have to do with no other queue.
LEMMA QuietHost ==
    ASSUME AdminInv, QueueInv, UNCHANGED ioVars,
           \/ \E r \in RingRegs : HostRingRegister(r)
           \/ HostEnable \/ HostReady \/ HostShutdown \/ HostShut \/ HostDisable \/ HostDisabled
    PROVE  QueueInv'
<1>1. UNCHANGED <<sqes, cqes, nr, dbs, old_dbs, disp, aposted>>
    BY DEF HostRingRegister, HostEnable, HostReady, HostShutdown, HostShut, HostDisable, HostDisabled,
           HostCc, HostWait, queues
<1>2. /\ host'.open = host.open /\ host'.sq = host.sq /\ host'.cq = host.cq
      /\ host'.plan = host.plan /\ host'.boot = host.boot
  <2>1. CASE \E to : host' = [host EXCEPT !.st = to]
    <3>1. PICK to : host' = [host EXCEPT !.st = to]
      BY <2>1
    <3>2. StOnly(to)
      BY <3>1, StFields DEF AdminInv
    <3> QED
      BY <3>2 DEF StOnly
  <2>2. CASE \E t : host' = [host EXCEPT !.todo = t]
    <3>1. PICK t : host' = [host EXCEPT !.todo = t]
      BY <2>2
    <3>2. host = [f \in HostFields |-> host[f]]
      BY DEF AdminInv, HostInv
    <3>3. \A f \in HostFields : host'[f] = IF f = "todo" THEN t ELSE host[f]
      BY <3>1, <3>2
    <3> QED
      BY <3>3 DEF HostFields
  <2> QED
    BY <2>1, <2>2 DEF HostRingRegister, HostEnable, HostReady, HostShutdown, HostShut, HostDisable, HostDisabled,
                      HostCc, HostWait
<1>3. Log' = Log
    BY <1>2 DEF Log
<1>4. SameQueues
    BY <1>1, <1>2, <1>3 DEF SameQueues, QueueInv, ViewInv
<1> QED
    BY <1>1, <1>4, QuietKeeps

LEMMA QuietDevice ==
    ASSUME AdminInv, QueueInv, UNCHANGED ioVars, proc_bars \/ AdminDoorbell \/ AdminBatchDone
    PROVE  QueueInv'
<1>1. UNCHANGED <<sqes, cqes, nr, host, aposted>>
    BY DEF proc_bars, ProcAqa, ProcAsq, ProcAcq, CcEnable, CcShutdown, CcStore, AdminDoorbell, AdminBatchDone, queues
<1>2. \/ UNCHANGED <<dbs, old_dbs>>
      \/ \E a, b : dbs' = [dbs EXCEPT ![0] = a] /\ old_dbs' = [old_dbs EXCEPT ![0] = b]
      \/ \E b : dbs' = dbs /\ old_dbs' = [old_dbs EXCEPT ![0] = b]
    BY DEF proc_bars, ProcAqa, ProcAsq, ProcAcq, CcEnable, CcShutdown, CcStore, AdminDoorbell, AdminBatchDone
<1>3. disp' = disp \/ (disp.pc # "io" /\ disp'.pc # "io")
  <2>1. ASSUME NEW pc \in {"cc_shn", "cc_store", "idle"}, disp' = [disp EXCEPT !.pc = pc]
        PROVE  disp'.pc # "io"
    BY <2>1 DEF AdminInv, DispInv
  <2>2. CASE ProcAqa \/ ProcAsq \/ ProcAcq
    BY <2>2 DEF ProcAqa, ProcAsq, ProcAcq
  <2>3. CASE CcEnable
    BY <2>1, <2>3 DEF CcEnable, Idle
  <2>4. CASE CcShutdown
    BY <2>1, <2>4 DEF CcShutdown
  <2>5. CASE CcStore
    BY <2>1, <2>5 DEF CcStore
  <2>6. CASE AdminDoorbell \/ AdminBatchDone
    BY <2>6 DEF AdminDoorbell, AdminBatchDone, Idle
  <2> QED
    BY <2>2, <2>3, <2>4, <2>5, <2>6 DEF proc_bars
<1>4. dbs \in [0 .. NrQueues -> Nat] /\ old_dbs \in [0 .. NrQueues -> Nat]
    BY DEF AdminInv, DispInv
<1>5. \A q \in Queues : dbs'[q] = dbs[q] /\ old_dbs'[q] = old_dbs[q]
    BY <1>2, <1>4, QueueFacts
<1>6. Log' = Log
    BY <1>1 DEF Log
<1>7. SameQueues
    BY <1>1, <1>6 DEF SameQueues, QueueInv, ViewInv
<1> QED
    BY <1>1, <1>3, <1>5, <1>7, QuietKeeps

LEMMA TakeQueues ==
    ASSUME AdminInv, RingInv, QueueInv, NEW c \in Queues, HostIrq(c) \/ HostPoll(c)
    PROVE  QueueInv'
<1>1. HostTake(c) /\ UNCHANGED <<host, aposted, sqes, cqes, dbs, old_dbs, disp>>
    BY DEF HostIrq, HostPoll, adminVars, queues
<1> QED
    BY <1>1, HostTakeQueues

LEMMA WorkerQueues ==
    ASSUME AdminInv, QueueInv, NEW w \in Workers, Worker(w)
    PROVE  QueueInv'
BY PostEntryQueues, FinishEntryQueues, RaiseIrqQueues DEF Worker

LEMMA QueueStep ==
    ASSUME AdminInv, RingInv, QueueInv, [Next]_vars
    PROVE  QueueInv'
<1>1. CASE UNCHANGED vars
  <2>1. UNCHANGED ioVars /\ UNCHANGED <<host, aposted, sqes, cqes, dbs, old_dbs, disp>>
    BY <1>1 DEF vars, adminVars, queues
  <2>2. Log' = Log
    BY <2>1 DEF Log
  <2>3. SameQueues
    BY <2>1, <2>2 DEF SameQueues, QueueInv, ViewInv
  <2> QED
    BY <2>1, <2>3, QuietKeeps
<1>2. CASE Host
  <2>1. ASSUME UNCHANGED ioVars,
               \/ \E r \in {"aqa", "asq", "acq"} : HostRingRegister(r)
               \/ HostEnable \/ HostReady \/ HostShutdown \/ HostShut \/ HostDisable \/ HostDisabled
        PROVE  QueueInv'
    BY <2>1, QuietHost DEF RingRegs
  <2>2. ASSUME HostSend(Log[host.sent + 1])
        PROVE  QueueInv'
    BY <2>2, HostSendQueues
  <2> HIDE DEF QueueInv
  <2> QED
    BY <1>2, <2>1, <2>2, HostStartQueues, HostSubmitQueues DEF Host
<1>3. CASE HostAnswers
    BY <1>3, AdminIrqQueues, TakeQueues DEF HostAnswers
<1>4. CASE Dispatcher
    BY <1>4, QuietDevice, AdminReqQueues, DoorbellQueues, AcceptQueues, LeaveSqQueues DEF Dispatcher, Refuse, SqDone
<1>5. CASE \E w \in Workers : Worker(w)
    BY <1>5, WorkerQueues
<1> QED
    BY <1>1, <1>2, <1>3, <1>4, <1>5 DEF Next

LEMMA InitQueues ==
    ASSUME Init
    PROVE  QueueInv
<1>1. AInit
    BY DEF Init
<1>2. /\ host.st = "off" /\ host.open = {} /\ host.cq = {} /\ host.sq = [q \in Queues |-> NIL]
      /\ sqes = [q \in Queues |-> NIL] /\ cqes = [q \in Queues |-> NIL]
      /\ aposted = <<>> /\ disp.pc = "idle"
    BY <1>1 DEF AInit
<1>3. dbs = [q \in 0 .. NrQueues |-> 0] /\ old_dbs = [q \in 0 .. NrQueues |-> 0]
    BY <1>1 DEF AInit
<1>4. DOMAIN aposted = {}
    BY <1>2
<1>5. \A op, q : ~Executed(op, q)
    BY <1>4 DEF Executed
<1>6. ViewInv
    BY <1>2, <1>4, <1>5 DEF ViewInv, HostQueues
<1>7. SentInv
    BY <1>2 DEF SentInv
<1>8. SqSize \in Nat \ {0, 1} /\ CqSize \in Nat \ {0, 1} /\ NrIos \in Nat /\ NrQueues \in Nat
    BY QueueFacts, CmdAssumption
<1>9. rings = [tail |-> [q \in Queues |-> 0], head |-> [c \in Queues |-> 0], phase |-> [c \in Queues |-> 1]]
    BY DEF Init
<1>10. SqInv
  <2>1. sqm \in [Queues -> [0 .. SqSize - 1 -> 0 .. NrIos]]
    <3>1. 0 \in 0 .. NrIos
      BY <1>8
    <3> QED
      BY <3>1 DEF Init
  <2>2. \A q \in Queues : dbs[q] = 0 /\ old_dbs[q] = 0
    BY <1>3, QueueFacts
  <2>3. \A q \in Queues : dbs[q] < SqSize /\ old_dbs[q] < SqSize
    BY <1>8, <2>2
  <2>4. \A q \in Queues : host.sq[q] = NIL
    BY <1>2
  <2> QED
    BY <1>2, <1>5, <2>1, <2>3, <2>4 DEF SqInv
<1>11. posted = [c \in Queues |-> <<>>] /\ DOMAIN <<>> = {} /\ Len(<<>>) = 0
    BY DEF Init
<1>12. \A i \in Ios : io[i] = [st |-> "new", q |-> 0, c |-> 0]
    BY DEF Init
<1>13. \A i \in Ios : io[i].st = "new" /\ ~Open(i) /\ ~Posted(i) /\ ~InWork(i)
    BY <1>11, <1>12 DEF Open, Posted, InWork, Init
<1>14. IoInv
  <2>1. io \in [Ios -> [st : {"new", "open", "seen"}, q : 0 .. NrQueues, c : 0 .. NrQueues]]
    <3>1. 0 \in 0 .. NrQueues
      BY <1>8
    <3>2. [st |-> "new", q |-> 0, c |-> 0] \in [st : {"new", "open", "seen"}, q : 0 .. NrQueues, c : 0 .. NrQueues]
      BY <3>1
    <3> QED
      BY <3>2 DEF Init
  <2>2. \A c \in Queues : Cardinality(OpenOn("c", c)) < CqSize
    <3> SUFFICES ASSUME NEW c \in Queues PROVE Cardinality(OpenOn("c", c)) < CqSize
      OBVIOUS
    <3>1. OpenOn("c", c) = {}
      BY <1>13 DEF OpenOn
    <3>2. Cardinality({}) = 0
      BY FS_EmptySet
    <3> QED
      BY <1>8, <3>1, <3>2
  <2>3. taken \in [Ios -> 0 .. 2] /\ \A i \in Ios : taken[i] = 0
    BY DEF Init
  <2>4. work = {}
    BY DEF Init
  <2> QED
    BY <1>13, <2>1, <2>2, <2>3, <2>4 DEF IoInv
<1>15. CqInv
  <2>1. PICK ring : ring = [i \in 0 .. CqSize - 1 |-> [id |-> 0, phase |-> 0]]
    OBVIOUS
  <2>2. cqm = [c \in Queues |-> ring]
    BY <2>1 DEF Init
  <2>3. ring \in [0 .. CqSize - 1 -> [id : Nat, phase : {0, 1}]] /\ CqRing(ring, 0, 1, <<>>, CqSize)
    BY <1>8, <2>1, ZeroRing
  <2>4. ASSUME NEW c \in Queues
        PROVE  CqOk(c)
    <3>1. cqes[c] = NIL /\ posted[c] = <<>> /\ rings.head[c] = 0 /\ rings.phase[c] = 1 /\ cqm[c] = ring
      BY <1>2, <1>9, <1>11, <2>2
    <3> QED
      BY <1>11, <2>3, <3>1 DEF CqOk
  <2>5. rings.head \in [Queues -> Nat] /\ rings.phase \in [Queues -> {0, 1}]
    BY <1>9
  <2>6. thr \in [Workers -> [pc : {"idle", "post", "signal"}, x : 0 .. NrIos, cq : 0 .. NrQueues]]
    <3>1. 0 \in 0 .. NrIos /\ 0 \in 0 .. NrQueues
      BY <1>8
    <3>2. [pc |-> "idle", x |-> 0, cq |-> 0] \in [pc : {"idle", "post", "signal"}, x : 0 .. NrIos, cq : 0 .. NrQueues]
      BY <3>1
    <3> QED
      BY <3>2 DEF Init
  <2>7. \A w \in Workers : Posting(w)
    BY DEF Posting, Init
  <2>8. posted \in [Queues -> Seq(Ios)]
    <3>1. <<>> \in Seq(Ios)
      OBVIOUS
    <3> QED
      BY <1>11, <3>1
  <2> QED
    BY <2>2, <2>3, <2>4, <2>5, <2>6, <2>7, <2>8 DEF CqInv
<1> QED
    BY <1>6, <1>7, <1>10, <1>14, <1>15 DEF QueueInv

-----------------------------------------------------------------------------
(* What the properties say, in terms of the invariant. *)

\* The entries that the model counts with remainders are the places of the ring.
LEMMA OwedIs ==
    ASSUME AdminInv, QueueInv, NEW q \in Queues
    PROVE  /\ \A i : (\E k \in DOMAIN Owed(q) : Owed(q)[k] = i) <=> \E k \in 0 .. Left(q) - 1 : OwedAt(q, k) = i
           /\ Left(q) \in Nat
<1>1. PICK d \in Nat \ {0, 1} : d = SqSize
    BY QueueFacts
<1>2. PICK f \in 0 .. d - 1, b \in 0 .. d - 1, L \in 0 .. d - 1 :
         f = FromQ(q) /\ b = dbs[q] /\ L = Left(q) /\ L = Dist(f, b, d)
    BY <1>1, LeftFacts DEF Left
<1>3. (b - f + d) % d = L
    BY <1>2, Gap
<1>4. Owed(q) = [k \in 1 .. L |-> sqm[q][(f + k - 1) % d]]
  <2>1. f = IF disp.pc = "io" /\ disp.q = q THEN disp.at ELSE old_dbs[q]
    BY <1>2 DEF FromQ
  <2> QED
    BY <1>1, <1>2, <1>3, <2>1 DEF Owed
<1>5. ASSUME NEW k \in 0 .. L - 1
      PROVE  k + 1 \in 1 .. L /\ Owed(q)[k + 1] = OwedAt(q, k)
  <2>1. k \in 0 .. d - 1 /\ f + (k + 1) - 1 = f + k
    OBVIOUS
  <2>2. (f + k) % d = At(f, k, d)
    BY <2>1, Modulo
  <2>3. k + 1 \in 1 .. L
    OBVIOUS
  <2>4. Owed(q)[k + 1] = sqm[q][At(f, k, d)]
    BY <1>4, <2>1, <2>2, <2>3
  <2> QED
    BY <1>1, <1>2, <2>3, <2>4 DEF OwedAt
<1>6. \A k \in 1 .. L : k - 1 \in 0 .. L - 1 /\ (k - 1) + 1 = k
    OBVIOUS
<1>7. \A k \in 1 .. L : Owed(q)[k] = OwedAt(q, k - 1)
    BY <1>5, <1>6
<1>8. DOMAIN Owed(q) = 1 .. L
    BY <1>4
<1>9. ASSUME NEW i
      PROVE  (\E k \in DOMAIN Owed(q) : Owed(q)[k] = i) <=> \E k \in 0 .. L - 1 : OwedAt(q, k) = i
  <2>1. ASSUME NEW k \in 1 .. L, Owed(q)[k] = i
        PROVE  \E j \in 0 .. L - 1 : OwedAt(q, j) = i
    <3>1. k - 1 \in 0 .. L - 1 /\ OwedAt(q, k - 1) = i
      BY <1>6, <1>7, <2>1
    <3> QED
      BY <3>1
  <2>2. ASSUME NEW k \in 0 .. L - 1, OwedAt(q, k) = i
        PROVE  \E j \in 1 .. L : Owed(q)[j] = i
    <3>1. k + 1 \in 1 .. L /\ Owed(q)[k + 1] = i
      BY <1>5, <2>2
    <3> QED
      BY <3>1
  <2> QED
    BY <1>8, <2>1, <2>2
<1> QED
    BY <1>2, <1>9

LEMMA TakenFacts ==
    ASSUME AdminInv, QueueInv
    PROVE  TakenOnce
<1> SUFFICES ASSUME NEW i \in Ios
             PROVE  taken[i] = IF io[i].st = "new" THEN 0
                               ELSE IF \E k \in DOMAIN Owed(io[i].q) :
                                          host.sq[io[i].q] # NIL /\ Owed(io[i].q)[k] = i THEN 0 ELSE 1
    BY DEF TakenOnce
<1>1. taken[i] = IF io[i].st = "seen" \/ Posted(i) \/ InWork(i) THEN 1 ELSE 0
    BY DEF QueueInv, IoInv
<1>2. CASE io[i].st = "new"
    BY <1>1, <1>2, NewNowhere
<1>3. CASE io[i].st # "new"
  <2>1. PICK q \in Queues : q = io[i].q
    BY <1>3, QueueOf DEF QueueInv
  <2>2. (\E k \in DOMAIN Owed(q) : Owed(q)[k] = i) <=> \E k \in 0 .. Left(q) - 1 : OwedAt(q, k) = i
    BY OwedIs
  <2>3. host.sq[q] # NIL => \A k \in 0 .. Left(q) - 1 : OwedAt(q, k) = i => Open(i) /\ ~Posted(i) /\ ~InWork(i)
    <3> SUFFICES ASSUME host.sq[q] # NIL, NEW k \in 0 .. Left(q) - 1, OwedAt(q, k) = i
                 PROVE  Open(i) /\ ~Posted(i) /\ ~InWork(i)
      OBVIOUS
    <3>1. OwedOk(q, k)
      BY DEF QueueInv, SqInv
    <3> QED
      BY <3>1 DEF OwedOk
  <2>4. CASE io[i].st = "seen" \/ Posted(i) \/ InWork(i)
    <3>1. ~(host.sq[q] # NIL /\ \E k \in DOMAIN Owed(q) : Owed(q)[k] = i)
      BY <2>2, <2>3, <2>4 DEF Open
    <3> QED
      BY <1>1, <1>3, <2>1, <2>4, <3>1
  <2>5. CASE ~(io[i].st = "seen" \/ Posted(i) \/ InWork(i))
    <3>1. Open(i)
      BY <1>3, <2>5 DEF Open, QueueInv, IoInv
    <3>2. Located(i)
      BY <2>5, <3>1 DEF QueueInv, IoInv
    <3>3. host.sq[q] # NIL /\ \E k \in DOMAIN Owed(q) : Owed(q)[k] = i
      BY <2>1, <2>2, <2>5, <3>2 DEF Located
    <3> QED
      BY <1>1, <1>3, <2>1, <2>5, <3>3
  <2> QED
    BY <2>4, <2>5
<1> QED
    BY <1>2, <1>3

LEMMA AgreeFacts ==
    ASSUME AdminInv, QueueInv
    PROVE  RingsAgree
<1>1. AdminRingAgrees
  <2> SUFFICES ASSUME host.st = "up" PROVE HostSees = aposted
    BY DEF AdminRingAgrees
  <2>1. host.boot # 0
    BY UpFacts
  <2> QED
    BY <2>1, AdminAgree
<1>2. ASSUME NEW c \in host.cq
      PROVE  HostFinds(c) = posted[c]
  <2>1. c \in Queues
    BY DEF QueueInv, ViewInv, HostQueues
  <2>2. PICK d \in Nat \ {0, 1} : d = CqSize
    BY QueueFacts
  <2>3. PICK a \in Seq(Ios) : a = posted[c]
    BY <2>1 DEF QueueInv, CqInv
  <2>4. \A k \in DOMAIN a : a[k] \in Nat
    BY CmdAssumption DEF Ios
  <2>5. a \in Seq(Nat)
    BY <2>4
  <2>6. CqRing(cqm[c], rings.head[c], rings.phase[c], a, d)
    BY <2>1, <2>2, <2>3 DEF QueueInv, CqInv, CqOk
  <2> QED
    BY <2>2, <2>3, <2>5, <2>6, SeenRing DEF HostFinds
<1> QED
    BY <1>1, <1>2 DEF RingsAgree

-----------------------------------------------------------------------------
(* Theorems. *)

\* The invariant of all queues: what the host and the device take them for,
\* where each command is, and what each ring holds.
THEOREM QueuesInvariant == Spec => []IInv
<1>1. Init => IInv
    BY InitAdmin, InitRings, InitQueues DEF Init, IInv
<1>2. IInv /\ [Next]_vars => IInv'
    BY AdminStep, RingStep, QueueStep DEF IInv
<1> QED
    BY <1>1, <1>2, PTL DEF Spec

\* What the host finds in its completion rings by the phase bits, the admin
\* queue's included, is what was posted and not seen, in that order: whichever
\* workers fill a ring, whenever the host looks, and however often a queue of
\* that number is deleted and made again.
THEOREM RingsExact == Spec => []RingsAgree
<1>1. IInv => RingsAgree
    BY AgreeFacts DEF IInv
<1> QED
    BY <1>1, QueuesInvariant, PTL

\* The FTL gets each command once: not those that wait in a ring behind the
\* doorbell, and of the others none is passed over and none given twice, when
\* the FTL refuses one in the middle of a batch, when the doorbell is rung
\* meanwhile, and when the ring goes round.
THEOREM HandedOverOnce == Spec => []TakenOnce
<1>1. IInv => TakenOnce
    BY TakenFacts DEF IInv
<1> QED
    BY <1>1, QueuesInvariant, PTL

=============================================================================
