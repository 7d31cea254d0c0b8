---------------------------- MODULE PQueueClient ----------------------------
(***************************************************************************)
(* Any client of pqueue.c: elements are inserted, removed, popped and given *)
(* other priorities in any order.  conv_ftl.c only ever lowers the priority *)
(* of a queued line; the library also promises the rest.                    *)
(***************************************************************************)
EXTENDS PQueue, FiniteSets

CONSTANTS Elems, Priorities

ASSUME ClientAssumption ==
    /\ IsFiniteSet(Elems) /\ Elems \subseteq Nat /\ NIL \notin Elems
    /\ Priorities \subseteq Nat /\ 0 \in Priorities

VARIABLES pq, prio, queued    \* queued: what the queue should hold

cvars == <<pq, prio, queued>>

CInit ==
    /\ pq = pqueue_init(Cardinality(Elems), Elems)
    /\ prio = [x \in Elems |-> 0]
    /\ queued = {}

Insert(x, p) ==
    /\ x \notin queued
    /\ prio' = [prio EXCEPT ![x] = p]
    /\ pq' = pqueue_insert(pq, prio', x)
    /\ queued' = queued \cup {x}

ChangePriority(x, p) ==
    /\ x \in queued
    /\ pq' = pqueue_change_priority(pq, prio, p, x)
    /\ prio' = [prio EXCEPT ![x] = p]
    /\ UNCHANGED queued

\* The clients reset the position themselves, as conv_ftl.c does.
RemoveElem(x) ==
    /\ x \in queued
    /\ pq' = [pqueue_remove(pq, prio, x) EXCEPT !.pos[x] = 0]
    /\ queued' = queued \ {x}
    /\ prio' = [prio EXCEPT ![x] = 0]

Pop ==
    LET x == pqueue_peek(pq)
    IN  /\ x # NIL
        /\ pq' = [pqueue_pop(pq, prio) EXCEPT !.pos[x] = 0]
        /\ queued' = queued \ {x}
        /\ prio' = [prio EXCEPT ![x] = 0]

\* Elements outside the queue are alike: the one inserted is the least.
Least(S) == CHOOSE x \in S : \A y \in S : x <= y

CNext ==
    \/ queued # Elems /\ \E p \in Priorities : Insert(Least(Elems \ queued), p)
    \/ \E x \in Elems : RemoveElem(x) \/ \E p \in Priorities : ChangePriority(x, p)
    \/ Pop

-----------------------------------------------------------------------------
\* Nothing is lost or duplicated and pqueue_is_valid holds after every
\* operation, wherever in the heap it started: the used part of the array
\* holds each queued element once, at the place its back-pointer names, and
\* no element is above one of smaller priority.
ValidHeap ==
    /\ pq.size - 1 = Cardinality(queued)
    /\ \A x \in Elems :
        IF x \in queued THEN pq.pos[x] \in 1 .. (pq.size - 1) /\ pq.d[pq.pos[x]] = x
        ELSE pq.pos[x] = 0
    /\ \A i \in 2 .. (pq.size - 1) : prio[pq.d[parent(i)]] <= prio[pq.d[i]]

=============================================================================
