------------------------------- MODULE PQueue -------------------------------
(***************************************************************************)
(* pqueue/pqueue.c: the binary heap behind victim_line_pq, with the         *)
(* callbacks of conv_ftl.c.  A queue is a record: d, the array (slot 0 is   *)
(* never meant to be used), size, the index of the first unused slot, and   *)
(* pos, the back-pointers kept in the elements by set_pos.  The priorities  *)
(* that get_pri reads are an argument, pri; a smaller one goes first.       *)
(* A slot that was never written holds whatever kmalloc left: NIL here.     *)
(***************************************************************************)
EXTENDS Integers

CONSTANT NIL

left(i) == 2 * i
parent(i) == i \div 2

\* victim_line_cmp_pri
cmppri(next, curr) == next > curr

\* The element x moves to slot i.
Place(q, i, x) == [q EXCEPT !.d[i] = x, !.pos[x] = i]

\* A round of the loop of bubble_up: the hole moves to its parent.
BubbleRound(s, pri, moving) ==
    IF s.i > 1 /\ cmppri(pri[s.q.d[parent(s.i)]], pri[moving])
    THEN [q |-> Place(s.q, s.i, s.q.d[parent(s.i)]), i |-> parent(s.i)]
    ELSE s

\* The loop after n rounds: i rounds are enough.
Bubble(q, pri, i) ==
    LET loop[n \in 0 .. i] ==
            IF n = 0 THEN [q |-> q, i |-> i] ELSE BubbleRound(loop[n - 1], pri, q.d[i])
    IN  loop

bubble_up(q, pri, i) ==
    LET s == Bubble(q, pri, i)[i] IN Place(s.q, s.i, q.d[i])

maxchild(q, pri, i) ==
    LET c == left(i)
    IN  CASE c >= q.size -> 0
          [] c < q.size /\ c + 1 < q.size /\ cmppri(pri[q.d[c]], pri[q.d[c + 1]]) -> c + 1
          [] OTHER -> c

\* A round of the loop of percolate_down: the hole moves to the first child.
PercolateRound(s, pri, moving) ==
    LET c == maxchild(s.q, pri, s.i)
    IN  IF c # 0 /\ cmppri(pri[moving], pri[s.q.d[c]])
        THEN [q |-> Place(s.q, s.i, s.q.d[c]), i |-> c] ELSE s

\* The loop after n rounds: size rounds are enough.
Percolate(q, pri, i) ==
    LET loop[n \in 0 .. q.size] ==
            IF n = 0 THEN [q |-> q, i |-> i] ELSE PercolateRound(loop[n - 1], pri, q.d[i])
    IN  loop

percolate_down(q, pri, i) ==
    LET s == Percolate(q, pri, i)[q.size] IN Place(s.q, s.i, q.d[i])

\* pqueue_init for n elements; pos is a field of the elements.
pqueue_init(n, elems) ==
    [d |-> [i \in 0 .. n |-> NIL], size |-> 1, pos |-> [x \in elems |-> 0]]

pqueue_insert(q, pri, x) ==
    bubble_up([q EXCEPT !.d[q.size] = x, !.size = @ + 1], pri, q.size)

\* Mutant: the new priority is stored and the heap left as it is.
pqueue_change_priority_lazy(q, pri, new_pri, x) == q

\* The caller stores new_pri in the element.
pqueue_change_priority(q, pri, new_pri, x) ==
    LET pri1 == [pri EXCEPT ![x] = new_pri]
    IN  IF cmppri(pri[x], new_pri) THEN bubble_up(q, pri1, q.pos[x])
        ELSE percolate_down(q, pri1, q.pos[x])

\* Mutant: the element that fills the hole only ever moves down.
pqueue_remove_down(q, pri, x) ==
    LET last == q.size - 1
        q1 == [q EXCEPT !.d[q.pos[x]] = q.d[last], !.size = last]
    IN  percolate_down(q1, pri, q.pos[x])

pqueue_remove(q, pri, x) ==
    LET posn == q.pos[x]
        last == q.size - 1
        q1 == [q EXCEPT !.d[posn] = q.d[last], !.size = last]
    IN  IF cmppri(pri[x], pri[q1.d[posn]]) THEN bubble_up(q1, pri, posn)
        ELSE percolate_down(q1, pri, posn)

pqueue_peek(q) == IF q.size = 1 THEN NIL ELSE q.d[1]

pqueue_pop(q, pri) ==
    IF q.size = 1 THEN q
    ELSE percolate_down([q EXCEPT !.d[1] = q.d[q.size - 1], !.size = @ - 1], pri, 1)

\* The elements the queue holds.
Members(q) == {q.d[i] : i \in 1 .. (q.size - 1)}

=============================================================================
