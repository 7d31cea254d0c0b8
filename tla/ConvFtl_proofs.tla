--------------------------- MODULE ConvFtl_proofs ---------------------------
(***************************************************************************)
(* Safety of ConvFtl for every number and size of lines, every logical     *)
(* space, every threshold and every order of collection, from one          *)
(* inductive invariant IInv: LineInv about the places, pages and counters  *)
(* of lines, Owned and NoOrphans about the two mapping tables, Control     *)
(* about the dispatcher and Erased about the blocks of the victim.         *)
(* LineInv is stated for any record of line management, page table, pair   *)
(* of write pointers and victim, so that one lemma about each operator     *)
(* serves the host path and the collector alike.                           *)
(***************************************************************************)
EXTENDS ConvFtl, FiniteSetTheorems, TLAPS

P == PgsPerLine

LineMgmt == [ipc : [Lines -> 0 .. PgsPerLine], vpc : [Lines -> 0 .. PgsPerLine],
             free_line_list : Seq(Lines), free_line_cnt : Nat,
             full_line_list : SUBSET Lines, victim_line_pq : SUBSET Lines]
Pointer == [line : Lines \cup {NULL}, off : Offs]
PageTable == [Pages -> PageStatus]

MarkedIn(st, l, s) == {k \in Offs : st[<<l, k>>] = s}

\* The page table with the status of one page changed.
Remark(st, l, k, s) == [st EXCEPT ![<<l, k>>] = s]

NoDup(s) == \A i, j \in 1 .. Len(s) : s[i] = s[j] => i = j

\* LinePlaces of any line management, write pointers w and g, and victim v.
Places(m, w, g, v) ==
    /\ m.free_line_cnt = Len(m.free_line_list)
    /\ NoDup(m.free_line_list)
    /\ \A l \in Lines :
        /\ \/ l \in ListSet(m.free_line_list) \/ l \in m.full_line_list
           \/ l \in m.victim_line_pq \/ l \in {w.line, g.line, v}
        /\ l \in ListSet(m.free_line_list) =>
                l \notin m.full_line_list /\ l \notin m.victim_line_pq
        /\ l \in m.full_line_list => l \notin m.victim_line_pq
        /\ l \in {w.line, g.line, v} =>
                /\ l \notin ListSet(m.free_line_list)
                /\ l \notin m.full_line_list /\ l \notin m.victim_line_pq
        /\ l = w.line => l # g.line /\ l # v
        /\ l = g.line => l # v

\* LinePages; todo is the set of pages of the victim still to be visited.
PagesOf(m, st, w, g, v, todo) ==
    \A l \in Lines : \A k \in Offs :
        /\ l \in ListSet(m.free_line_list) => st[<<l, k>>] = "PG_FREE"
        /\ l \in m.full_line_list => st[<<l, k>>] = "PG_VALID"
        /\ l \in m.victim_line_pq => st[<<l, k>>] # "PG_FREE"
        /\ l = w.line => (st[<<l, k>>] = "PG_FREE" <=> k >= w.off)
        /\ l = g.line => (st[<<l, k>>] = "PG_FREE" <=> k >= g.off)
        /\ l = v /\ k \in todo => st[<<l, k>>] # "PG_FREE"

Counts(m, st, v) ==
    \A l \in Lines : l # v =>
        /\ m.vpc[l] = Cardinality(MarkedIn(st, l, "PG_VALID"))
        /\ m.ipc[l] = Cardinality(MarkedIn(st, l, "PG_INVALID"))

\* What the counters of a line add up to, by its place.
Sums(m, w, g, v) ==
    \A l \in Lines :
        /\ l \in ListSet(m.free_line_list) => m.vpc[l] = 0 /\ m.ipc[l] = 0
        /\ l \in m.full_line_list => m.vpc[l] = P /\ m.ipc[l] = 0
        /\ l \in m.victim_line_pq => m.vpc[l] + m.ipc[l] = P /\ m.ipc[l] >= 1
        /\ l = w.line => m.vpc[l] + m.ipc[l] = w.off
        /\ l = g.line => m.vpc[l] + m.ipc[l] = g.off
        /\ l = v => m.vpc[l] + m.ipc[l] = P /\ m.ipc[l] >= 1

LineInv(m, st, w, g, v, todo) ==
    /\ Places(m, w, g, v)
    /\ PagesOf(m, st, w, g, v, todo)
    /\ Counts(m, st, v)
    /\ Sums(m, w, g, v)

-----------------------------------------------------------------------------
(* Sets of pages and lists of lines. *)

\* The pages of a line with a given status are finitely many, at most P.
LEMMA MarkedFinite ==
    ASSUME NEW st, NEW l, NEW s
    PROVE  /\ IsFiniteSet(MarkedIn(st, l, s))
           /\ Cardinality(MarkedIn(st, l, s)) \in 0 .. P
           /\ Cardinality(MarkedIn(st, l, s)) = P => MarkedIn(st, l, s) = Offs
<1>1. IsFiniteSet(Offs) /\ Cardinality(Offs) = P
  BY FS_Interval, SizeAssumption DEF Offs, P
<1>2. MarkedIn(st, l, s) \in SUBSET Offs
  BY DEF MarkedIn
<1>3. Cardinality(MarkedIn(st, l, s)) \in Nat /\ P \in Nat
  BY <1>1, <1>2, FS_Subset, FS_CardinalityType, SizeAssumption DEF P
<1> QED
  BY <1>1, <1>2, <1>3, FS_Subset

\* Changing the status of one page (mark_page_valid, mark_page_invalid)
\* changes the two counts of its line by one and no other count.
LEMMA MarkOne ==
    ASSUME NEW st \in PageTable, NEW l \in Lines, NEW k \in Offs,
           NEW s \in PageStatus, st[<<l, k>>] # s
    PROVE  LET st2 == Remark(st, l, k, s)
               old == st[<<l, k>>]
           IN  /\ st2 \in PageTable
               /\ \A j \in Lines : \A i \in Offs :
                    st2[<<j, i>>] = IF j = l /\ i = k THEN s ELSE st[<<j, i>>]
               /\ Cardinality(MarkedIn(st2, l, s)) = Cardinality(MarkedIn(st, l, s)) + 1
               /\ Cardinality(MarkedIn(st2, l, old)) = Cardinality(MarkedIn(st, l, old)) - 1
               /\ \A t \in PageStatus : t # s /\ t # old =>
                    MarkedIn(st2, l, t) = MarkedIn(st, l, t)
               /\ \A j \in Lines : \A t \in PageStatus : j # l =>
                    MarkedIn(st2, j, t) = MarkedIn(st, j, t)
<1> DEFINE st2 == Remark(st, l, k, s)
           old == st[<<l, k>>]
<1>1. <<l, k>> \in Pages /\ \A j \in Lines : \A i \in Offs : <<j, i>> \in Pages
  BY DEF Pages
<1>2. st2 \in PageTable
  BY <1>1 DEF PageTable, Remark
<1>3. \A j \in Lines : \A i \in Offs :
        st2[<<j, i>>] = IF j = l /\ i = k THEN s ELSE st[<<j, i>>]
  BY <1>1 DEF PageTable, Remark
<1> HIDE DEF st2
<1>4. MarkedIn(st2, l, s) = MarkedIn(st, l, s) \cup {k} /\ k \notin MarkedIn(st, l, s)
  BY <1>3 DEF MarkedIn
<1>5. MarkedIn(st2, l, old) = MarkedIn(st, l, old) \ {k} /\ k \in MarkedIn(st, l, old)
  BY <1>3 DEF MarkedIn
<1>6. \A t \in PageStatus : t # s /\ t # old => MarkedIn(st2, l, t) = MarkedIn(st, l, t)
  BY <1>3 DEF MarkedIn
<1>7. \A j \in Lines : \A t \in PageStatus : j # l => MarkedIn(st2, j, t) = MarkedIn(st, j, t)
  BY <1>3 DEF MarkedIn
<1>8. Cardinality(MarkedIn(st2, l, s)) = Cardinality(MarkedIn(st, l, s)) + 1
  BY <1>4, MarkedFinite, FS_AddElement
<1>9. Cardinality(MarkedIn(st2, l, old)) = Cardinality(MarkedIn(st, l, old)) - 1
  BY <1>5, MarkedFinite, FS_RemoveElement
<1> QED
  BY <1>2, <1>3, <1>6, <1>7, <1>8, <1>9 DEF st2

\* get_next_free_line: the head leaves a list without repetitions.
LEMMA TailOfList ==
    ASSUME NEW s \in Seq(Lines), NoDup(s), s # <<>>
    PROVE  /\ Head(s) \in Lines
           /\ Tail(s) \in Seq(Lines)
           /\ Len(Tail(s)) = Len(s) - 1
           /\ NoDup(Tail(s))
           /\ ListSet(Tail(s)) = ListSet(s) \ {Head(s)}
           /\ Head(s) \in ListSet(s)
<1>1. Len(s) \in Nat /\ Len(s) >= 1 /\ Head(s) = s[1]
  OBVIOUS
<1>2. Tail(s) \in Seq(Lines) /\ Len(Tail(s)) = Len(s) - 1
  OBVIOUS
<1>3. \A i \in 1 .. Len(Tail(s)) : Tail(s)[i] = s[i + 1]
  BY <1>1
<1>4. NoDup(Tail(s))
  <2> SUFFICES ASSUME NEW i \in 1 .. Len(Tail(s)), NEW j \in 1 .. Len(Tail(s)),
                      Tail(s)[i] = Tail(s)[j]
               PROVE  i = j
    BY DEF NoDup
  <2>1. i + 1 \in 1 .. Len(s) /\ j + 1 \in 1 .. Len(s) /\ s[i + 1] = s[j + 1]
    BY <1>1, <1>2, <1>3
  <2> QED
    BY <2>1 DEF NoDup
<1>5. ListSet(Tail(s)) \subseteq ListSet(s) \ {Head(s)}
  <2> SUFFICES ASSUME NEW i \in 1 .. Len(Tail(s))
               PROVE  Tail(s)[i] \in ListSet(s) /\ Tail(s)[i] # Head(s)
    BY DEF ListSet
  <2>1. i + 1 \in 1 .. Len(s) /\ Tail(s)[i] = s[i + 1] /\ 1 \in 1 .. Len(s) /\ i + 1 # 1
    BY <1>1, <1>2, <1>3
  <2> QED
    BY <2>1, <1>1 DEF NoDup, ListSet
<1>6. ListSet(s) \ {Head(s)} \subseteq ListSet(Tail(s))
  <2> SUFFICES ASSUME NEW i \in 1 .. Len(s), s[i] # Head(s)
               PROVE  s[i] \in ListSet(Tail(s))
    BY DEF ListSet
  <2>1. i - 1 \in 1 .. Len(Tail(s)) /\ Tail(s)[i - 1] = s[i]
    BY <1>1, <1>2, <1>3
  <2> QED
    BY <2>1 DEF ListSet
<1>7. Head(s) \in Lines /\ Head(s) \in ListSet(s)
  BY <1>1 DEF ListSet
<1> QED
  BY <1>2, <1>4, <1>5, <1>6, <1>7

\* mark_line_free: a line goes to the tail of the list.
LEMMA AppendToList ==
    ASSUME NEW s \in Seq(Lines), NoDup(s), NEW l \in Lines, l \notin ListSet(s)
    PROVE  /\ Append(s, l) \in Seq(Lines)
           /\ Len(Append(s, l)) = Len(s) + 1
           /\ NoDup(Append(s, l))
           /\ ListSet(Append(s, l)) = ListSet(s) \cup {l}
<1>1. /\ Append(s, l) \in Seq(Lines)
      /\ Len(Append(s, l)) = Len(s) + 1
      /\ Len(s) \in Nat
      /\ \A i \in 1 .. Len(s) : Append(s, l)[i] = s[i]
      /\ Append(s, l)[Len(s) + 1] = l
  OBVIOUS
<1>2. \A i \in 1 .. Len(s) : s[i] # l
  BY DEF ListSet
<1>3. NoDup(Append(s, l))
  BY <1>1, <1>2 DEF NoDup
<1>4. ListSet(Append(s, l)) = ListSet(s) \cup {l}
  <2>1. \A i \in 1 .. (Len(s) + 1) : i \in 1 .. Len(s) \/ i = Len(s) + 1
    BY <1>1
  <2>2. ListSet(Append(s, l)) \subseteq ListSet(s) \cup {l}
    BY <1>1, <2>1 DEF ListSet
  <2>3. Len(s) + 1 \in 1 .. Len(Append(s, l)) /\ \A i \in 1 .. Len(s) : i \in 1 .. Len(Append(s, l))
    BY <1>1
  <2>4. ListSet(s) \cup {l} \subseteq ListSet(Append(s, l))
    BY <1>1, <2>3 DEF ListSet
  <2> QED
    BY <2>2, <2>4
<1> QED
  BY <1>1, <1>3, <1>4

\* The number of free lines is the length of the list.
LEMMA ListCardinality ==
    ASSUME NEW s \in Seq(Lines), NoDup(s)
    PROVE  IsFiniteSet(ListSet(s)) /\ Cardinality(ListSet(s)) = Len(s)
<1> DEFINE f == [i \in 1 .. Len(s) |-> s[i]]
<1>1. Len(s) \in Nat
  OBVIOUS
<1>2. f \in Surjection(1 .. Len(s), ListSet(s))
  BY DEF ListSet, Surjection
<1>3. f \in Injection(1 .. Len(s), ListSet(s))
  BY DEF ListSet, Injection, IsInjective, NoDup
<1>4. IsFiniteSet(1 .. Len(s)) /\ Cardinality(1 .. Len(s)) = Len(s)
  BY <1>1, FS_Interval
<1> HIDE DEF f
<1> QED
  BY <1>2, <1>3, <1>4, FS_Surjection

-----------------------------------------------------------------------------
(* The operators of line management preserve LineInv. *)

\* A line management record stays one.
LEMMA InvalidRecord ==
    ASSUME NEW m \in LineMgmt, NEW l, NEW r, r = mark_page_invalid(m, l)
    PROVE  r = [ipc |-> r.ipc, vpc |-> r.vpc, free_line_list |-> r.free_line_list,
                free_line_cnt |-> r.free_line_cnt, full_line_list |-> r.full_line_list,
                victim_line_pq |-> r.victim_line_pq]
  BY DEF LineMgmt, mark_page_invalid

\* What mark_page_invalid does to the fields of line management.
LEMMA InvalidFields ==
    ASSUME NEW m \in LineMgmt, NEW l \in Lines, m.ipc[l] < P, m.vpc[l] > 0
    PROVE  LET r == mark_page_invalid(m, l)
           IN  /\ r \in LineMgmt
               /\ r.free_line_list = m.free_line_list
               /\ r.free_line_cnt = m.free_line_cnt
               /\ r.full_line_list =
                    IF m.vpc[l] = P THEN m.full_line_list \ {l} ELSE m.full_line_list
               /\ r.victim_line_pq =
                    IF m.vpc[l] = P THEN m.victim_line_pq \cup {l} ELSE m.victim_line_pq
               /\ \A j \in Lines : r.ipc[j] = IF j = l THEN m.ipc[l] + 1 ELSE m.ipc[j]
               /\ \A j \in Lines : r.vpc[j] = IF j = l THEN m.vpc[l] - 1 ELSE m.vpc[j]
<1> DEFINE r == mark_page_invalid(m, l)
<1>1. /\ r.ipc = [m.ipc EXCEPT ![l] = @ + 1]
      /\ r.vpc = [m.vpc EXCEPT ![l] = @ - 1]
      /\ r.free_line_list = m.free_line_list
      /\ r.free_line_cnt = m.free_line_cnt
      /\ r.full_line_list =
            IF m.vpc[l] = P THEN m.full_line_list \ {l} ELSE m.full_line_list
      /\ r.victim_line_pq =
            IF m.vpc[l] = P THEN m.victim_line_pq \cup {l} ELSE m.victim_line_pq
      /\ r = [ipc |-> r.ipc, vpc |-> r.vpc, free_line_list |-> r.free_line_list,
              free_line_cnt |-> r.free_line_cnt, full_line_list |-> r.full_line_list,
              victim_line_pq |-> r.victim_line_pq]
  <2>1. r.ipc = [m.ipc EXCEPT ![l] = @ + 1]
    BY DEF LineMgmt, mark_page_invalid
  <2>2. r.vpc = [m.vpc EXCEPT ![l] = @ - 1]
    BY DEF LineMgmt, mark_page_invalid
  <2>3. r.free_line_list = m.free_line_list /\ r.free_line_cnt = m.free_line_cnt
    BY DEF LineMgmt, mark_page_invalid
  <2>4. r.full_line_list =
            IF m.vpc[l] = P THEN m.full_line_list \ {l} ELSE m.full_line_list
    BY DEF LineMgmt, mark_page_invalid, P
  <2>5. r.victim_line_pq =
            IF m.vpc[l] = P THEN m.victim_line_pq \cup {l} ELSE m.victim_line_pq
    BY DEF LineMgmt, mark_page_invalid, P
  <2>6. r = [ipc |-> r.ipc, vpc |-> r.vpc, free_line_list |-> r.free_line_list,
             free_line_cnt |-> r.free_line_cnt, full_line_list |-> r.full_line_list,
             victim_line_pq |-> r.victim_line_pq]
    BY InvalidRecord
  <2> QED
    BY <2>1, <2>2, <2>3, <2>4, <2>5, <2>6
<1>2. m.ipc[l] + 1 \in 0 .. PgsPerLine /\ m.vpc[l] - 1 \in 0 .. PgsPerLine
  BY SizeAssumption DEF LineMgmt, P
<1>3. /\ r.ipc \in [Lines -> 0 .. PgsPerLine] /\ r.vpc \in [Lines -> 0 .. PgsPerLine]
      /\ r.full_line_list \in SUBSET Lines /\ r.victim_line_pq \in SUBSET Lines
      /\ r.free_line_list \in Seq(Lines) /\ r.free_line_cnt \in Nat
  BY <1>1, <1>2 DEF LineMgmt
<1>4. r \in LineMgmt
  BY <1>1, <1>3 DEF LineMgmt
<1>5. /\ \A j \in Lines : r.ipc[j] = IF j = l THEN m.ipc[l] + 1 ELSE m.ipc[j]
      /\ \A j \in Lines : r.vpc[j] = IF j = l THEN m.vpc[l] - 1 ELSE m.vpc[j]
  BY <1>1 DEF LineMgmt
<1> QED
  BY <1>1, <1>4, <1>5

\* A line that holds a valid page has room for one more invalid page, as
\* mark_page_invalid asserts.
LEMMA CountsOfValid ==
    ASSUME NEW m \in LineMgmt, NEW st \in PageTable, NEW w \in Pointer,
           NEW g \in Pointer, NEW v, NEW todo, LineInv(m, st, w, g, v, todo),
           NEW l \in Lines, NEW k \in Offs, l # v, st[<<l, k>>] = "PG_VALID"
    PROVE  m.vpc[l] > 0 /\ m.ipc[l] < P
<1>1. MarkedIn(st, l, "PG_VALID") # {}
  BY DEF MarkedIn
<1>2. m.vpc[l] > 0
  BY <1>1, MarkedFinite, FS_EmptySet DEF LineInv, Counts
<1>3. m.vpc[l] + m.ipc[l] <= P
  <2>1. /\ m.vpc[l] \in Nat /\ m.ipc[l] \in Nat /\ P \in Nat
        /\ w.off <= P /\ g.off <= P
    BY SizeAssumption DEF LineMgmt, P, Pointer, Offs
  <2> QED
    BY <2>1 DEF LineInv, Places, Sums
<1> QED
  BY <1>2, <1>3, SizeAssumption DEF LineMgmt, P

\* mark_page_invalid on a valid page.
LEMMA InvalidateKeepsLineInv ==
    ASSUME NEW m \in LineMgmt, NEW st \in PageTable, NEW w \in Pointer,
           NEW g \in Pointer, NEW v, NEW todo, LineInv(m, st, w, g, v, todo),
           NEW l \in Lines, NEW k \in Offs, l # v, st[<<l, k>>] = "PG_VALID"
    PROVE  LET r == mark_page_invalid(m, l)
               st2 == Remark(st, l, k, "PG_INVALID")
           IN  /\ r \in LineMgmt
               /\ st2 \in PageTable
               /\ LineInv(r, st2, w, g, v, todo)
               /\ r.free_line_cnt = m.free_line_cnt
<1> DEFINE r == mark_page_invalid(m, l)
           st2 == Remark(st, l, k, "PG_INVALID")
<1>1. m.vpc[l] > 0 /\ m.ipc[l] < P
  BY CountsOfValid
<1>2. /\ r \in LineMgmt
      /\ r.free_line_list = m.free_line_list
      /\ r.free_line_cnt = m.free_line_cnt
      /\ r.full_line_list =
           IF m.vpc[l] = P THEN m.full_line_list \ {l} ELSE m.full_line_list
      /\ r.victim_line_pq =
           IF m.vpc[l] = P THEN m.victim_line_pq \cup {l} ELSE m.victim_line_pq
      /\ \A j \in Lines : r.ipc[j] = IF j = l THEN m.ipc[l] + 1 ELSE m.ipc[j]
      /\ \A j \in Lines : r.vpc[j] = IF j = l THEN m.vpc[l] - 1 ELSE m.vpc[j]
  BY <1>1, InvalidFields
<1>3. /\ st2 \in PageTable
      /\ \A j \in Lines : \A i \in Offs :
            st2[<<j, i>>] = IF j = l /\ i = k THEN "PG_INVALID" ELSE st[<<j, i>>]
      /\ Cardinality(MarkedIn(st2, l, "PG_INVALID")) = Cardinality(MarkedIn(st, l, "PG_INVALID")) + 1
      /\ Cardinality(MarkedIn(st2, l, "PG_VALID")) = Cardinality(MarkedIn(st, l, "PG_VALID")) - 1
      /\ \A j \in Lines : \A t \in PageStatus : j # l => MarkedIn(st2, j, t) = MarkedIn(st, j, t)
  <2>1. "PG_INVALID" \in PageStatus /\ st[<<l, k>>] # "PG_INVALID"
    BY DEF PageStatus
  <2> QED
    BY <2>1, MarkOne
<1> HIDE DEF r, st2
<1>t. /\ \A j \in Lines : m.vpc[j] \in Nat /\ m.ipc[j] \in Nat
      /\ P \in Nat /\ P >= 1 /\ w.off \in Nat /\ w.off < P /\ g.off \in Nat /\ g.off < P
  BY SizeAssumption DEF LineMgmt, P, Pointer, Offs
\* A line with vpc = P is on the full list: everywhere else less is valid.
<1>4. m.vpc[l] = P => l \in m.full_line_list /\ m.ipc[l] = 0
  BY <1>1, <1>t DEF LineInv, Places, Sums
<1>5. l \in m.full_line_list => m.vpc[l] = P
  BY DEF LineInv, Sums
<1>6. Places(r, w, g, v)
  BY <1>2, <1>4 DEF LineInv, Places
<1>7. PagesOf(r, st2, w, g, v, todo)
  <2> SUFFICES ASSUME NEW j \in Lines, NEW i \in Offs
               PROVE  /\ j \in ListSet(r.free_line_list) => st2[<<j, i>>] = "PG_FREE"
                      /\ j \in r.full_line_list => st2[<<j, i>>] = "PG_VALID"
                      /\ j \in r.victim_line_pq => st2[<<j, i>>] # "PG_FREE"
                      /\ j = w.line => (st2[<<j, i>>] = "PG_FREE" <=> i >= w.off)
                      /\ j = g.line => (st2[<<j, i>>] = "PG_FREE" <=> i >= g.off)
                      /\ j = v /\ i \in todo => st2[<<j, i>>] # "PG_FREE"
    BY DEF PagesOf
  <2>1. /\ j \in ListSet(m.free_line_list) => st[<<j, i>>] = "PG_FREE"
        /\ j \in m.full_line_list => st[<<j, i>>] = "PG_VALID"
        /\ j \in m.victim_line_pq => st[<<j, i>>] # "PG_FREE"
        /\ j = w.line => (st[<<j, i>>] = "PG_FREE" <=> i >= w.off)
        /\ j = g.line => (st[<<j, i>>] = "PG_FREE" <=> i >= g.off)
        /\ j = v /\ i \in todo => st[<<j, i>>] # "PG_FREE"
    BY DEF LineInv, PagesOf
  <2>2. st2[<<j, i>>] = IF j = l /\ i = k THEN "PG_INVALID" ELSE st[<<j, i>>]
    BY <1>3
  <2> QED
    BY <1>2, <1>4, <1>5, <2>1, <2>2
<1>8. Counts(r, st2, v)
  BY <1>2, <1>3 DEF LineInv, Counts, PageStatus
<1>9. Sums(r, w, g, v)
  <2> SUFFICES ASSUME NEW j \in Lines
               PROVE  /\ j \in ListSet(r.free_line_list) => r.vpc[j] = 0 /\ r.ipc[j] = 0
                      /\ j \in r.full_line_list => r.vpc[j] = P /\ r.ipc[j] = 0
                      /\ j \in r.victim_line_pq => r.vpc[j] + r.ipc[j] = P /\ r.ipc[j] >= 1
                      /\ j = w.line => r.vpc[j] + r.ipc[j] = w.off
                      /\ j = g.line => r.vpc[j] + r.ipc[j] = g.off
                      /\ j = v => r.vpc[j] + r.ipc[j] = P /\ r.ipc[j] >= 1
    BY DEF Sums
  <2>1. /\ j \in ListSet(m.free_line_list) => m.vpc[j] = 0 /\ m.ipc[j] = 0
        /\ j \in m.full_line_list => m.vpc[j] = P /\ m.ipc[j] = 0
        /\ j \in m.victim_line_pq => m.vpc[j] + m.ipc[j] = P /\ m.ipc[j] >= 1
        /\ j = w.line => m.vpc[j] + m.ipc[j] = w.off
        /\ j = g.line => m.vpc[j] + m.ipc[j] = g.off
        /\ j = v => m.vpc[j] + m.ipc[j] = P /\ m.ipc[j] >= 1
    BY DEF LineInv, Sums
  <2>2. j = l => j \notin ListSet(m.free_line_list)
    BY <2>1, <1>1
  <2>3. CASE j = l
    BY <1>1, <1>2, <1>4, <1>5, <1>t, <2>1, <2>2, <2>3
  <2>4. CASE j # l
    BY <1>2, <2>1, <2>4
  <2> QED
    BY <2>3, <2>4
<1> QED
  BY <1>2, <1>3, <1>6, <1>7, <1>8, <1>9 DEF LineInv, r, st2

\* The two write pointers are interchangeable.
LEMMA Symmetric ==
    ASSUME NEW m, NEW st, NEW w, NEW g, NEW v, NEW todo,
           LineInv(m, st, w, g, v, todo)
    PROVE  LineInv(m, st, g, w, v, todo)
<1>1. Places(m, g, w, v)
  BY DEF LineInv, Places
<1>2. PagesOf(m, st, g, w, v, todo)
  BY DEF LineInv, PagesOf
<1>3. Sums(m, g, w, v)
  BY DEF LineInv, Sums
<1> QED
  BY <1>1, <1>2, <1>3 DEF LineInv

\* What mark_page_valid does to the fields of line management.
LEMMA ValidFields ==
    ASSUME NEW m \in LineMgmt, NEW l \in Lines, m.vpc[l] < P
    PROVE  LET r == mark_page_valid(m, l)
           IN  /\ r \in LineMgmt
               /\ r.free_line_list = m.free_line_list
               /\ r.free_line_cnt = m.free_line_cnt
               /\ r.full_line_list = m.full_line_list
               /\ r.victim_line_pq = m.victim_line_pq
               /\ r.ipc = m.ipc
               /\ \A j \in Lines : r.vpc[j] = IF j = l THEN m.vpc[l] + 1 ELSE m.vpc[j]
<1>1. m.vpc[l] + 1 \in 0 .. PgsPerLine
  BY SizeAssumption DEF LineMgmt, P
<1> QED
  BY <1>1 DEF LineMgmt, mark_page_valid

\* close_line: the line joins the full list or the victims.
LEMMA CloseFields ==
    ASSUME NEW m \in LineMgmt, NEW l \in Lines
    PROVE  LET r == close_line(m, l)
           IN  /\ r \in LineMgmt
               /\ r.free_line_list = m.free_line_list
               /\ r.free_line_cnt = m.free_line_cnt
               /\ r.full_line_list =
                    IF m.vpc[l] = P THEN m.full_line_list \cup {l} ELSE m.full_line_list
               /\ r.victim_line_pq =
                    IF m.vpc[l] = P THEN m.victim_line_pq ELSE m.victim_line_pq \cup {l}
               /\ r.ipc = m.ipc
               /\ r.vpc = m.vpc
<1>1. CASE m.vpc[l] = P
  <2>1. close_line(m, l) = [m EXCEPT !.full_line_list = @ \cup {l}]
    BY <1>1 DEF close_line, P
  <2> QED
    BY <1>1, <2>1 DEF LineMgmt
<1>2. CASE m.vpc[l] # P
  <2>1. close_line(m, l) = [m EXCEPT !.victim_line_pq = @ \cup {l}]
    BY <1>2 DEF close_line, P
  <2> QED
    BY <1>2, <2>1 DEF LineMgmt
<1> QED
  BY <1>1, <1>2

\* take_free_line: the head of the list leaves it.
LEMMA TakeFields ==
    ASSUME NEW m \in LineMgmt, NoDup(m.free_line_list),
           m.free_line_cnt = Len(m.free_line_list), m.free_line_list # <<>>
    PROVE  LET r == take_free_line(m)
           IN  /\ r \in LineMgmt
               /\ r.free_line_list = Tail(m.free_line_list)
               /\ r.free_line_cnt = m.free_line_cnt - 1
               /\ r.full_line_list = m.full_line_list
               /\ r.victim_line_pq = m.victim_line_pq
               /\ r.ipc = m.ipc
               /\ r.vpc = m.vpc
<1>1. take_free_line(m) = [m EXCEPT !.free_line_list = Tail(@), !.free_line_cnt = @ - 1]
  BY DEF take_free_line
<1>2. Tail(m.free_line_list) \in Seq(Lines) /\ m.free_line_cnt - 1 \in Nat
  BY TailOfList DEF LineMgmt
<1> QED
  BY <1>1, <1>2 DEF LineMgmt

\* mark_page_valid on the page under a write pointer, which moves on by one.
LEMMA ValidateKeepsLineInv ==
    ASSUME NEW m \in LineMgmt, NEW st \in PageTable, NEW w \in Pointer,
           NEW g \in Pointer, NEW v, NEW todo, LineInv(m, st, w, g, v, todo),
           w.line \in Lines,
           NEW w2, w2.line = w.line, w2.off = w.off + 1
    PROVE  LET r == mark_page_valid(m, w.line)
               st2 == Remark(st, w.line, w.off, "PG_VALID")
           IN  /\ r \in LineMgmt
               /\ st2 \in PageTable
               /\ LineInv(r, st2, w2, g, v, todo)
               /\ r.free_line_cnt = m.free_line_cnt
<1> DEFINE l == w.line
           k == w.off
           r == mark_page_valid(m, l)
           st2 == Remark(st, l, k, "PG_VALID")
<1>t. /\ \A j \in Lines : m.vpc[j] \in Nat /\ m.ipc[j] \in Nat
      /\ P \in Nat /\ P >= 1 /\ k \in Offs /\ k \in Nat /\ k < P
      /\ g.off \in Nat /\ g.off < P /\ \A i \in Offs : i \in Nat
  BY SizeAssumption DEF LineMgmt, P, Pointer, Offs
<1>1. st[<<l, k>>] = "PG_FREE"
  BY <1>t DEF LineInv, PagesOf
<1>2. m.vpc[l] < P /\ m.vpc[l] + m.ipc[l] = k
  BY <1>t DEF LineInv, Sums
<1>3. /\ r \in LineMgmt
      /\ r.free_line_list = m.free_line_list
      /\ r.free_line_cnt = m.free_line_cnt
      /\ r.full_line_list = m.full_line_list
      /\ r.victim_line_pq = m.victim_line_pq
      /\ r.ipc = m.ipc
      /\ \A j \in Lines : r.vpc[j] = IF j = l THEN m.vpc[l] + 1 ELSE m.vpc[j]
  BY <1>2, ValidFields
<1>4. /\ st2 \in PageTable
      /\ \A j \in Lines : \A i \in Offs :
            st2[<<j, i>>] = IF j = l /\ i = k THEN "PG_VALID" ELSE st[<<j, i>>]
      /\ Cardinality(MarkedIn(st2, l, "PG_VALID")) = Cardinality(MarkedIn(st, l, "PG_VALID")) + 1
      /\ MarkedIn(st2, l, "PG_INVALID") = MarkedIn(st, l, "PG_INVALID")
      /\ \A j \in Lines : \A t \in PageStatus : j # l => MarkedIn(st2, j, t) = MarkedIn(st, j, t)
  <2>1. "PG_VALID" \in PageStatus /\ "PG_INVALID" \in PageStatus /\ st[<<l, k>>] # "PG_VALID"
    BY <1>1 DEF PageStatus
  <2> QED
    BY <2>1, <1>1, <1>t, MarkOne
<1>5. /\ l # g.line /\ l # v /\ l \notin ListSet(m.free_line_list)
      /\ l \notin m.full_line_list /\ l \notin m.victim_line_pq
  BY DEF LineInv, Places
<1> HIDE DEF r, st2
<1>6. Places(r, w2, g, v)
  BY <1>3 DEF LineInv, Places
<1>7. PagesOf(r, st2, w2, g, v, todo)
  <2> SUFFICES ASSUME NEW j \in Lines, NEW i \in Offs
               PROVE  /\ j \in ListSet(r.free_line_list) => st2[<<j, i>>] = "PG_FREE"
                      /\ j \in r.full_line_list => st2[<<j, i>>] = "PG_VALID"
                      /\ j \in r.victim_line_pq => st2[<<j, i>>] # "PG_FREE"
                      /\ j = w2.line => (st2[<<j, i>>] = "PG_FREE" <=> i >= w2.off)
                      /\ j = g.line => (st2[<<j, i>>] = "PG_FREE" <=> i >= g.off)
                      /\ j = v /\ i \in todo => st2[<<j, i>>] # "PG_FREE"
    BY DEF PagesOf
  <2>1. /\ j \in ListSet(m.free_line_list) => st[<<j, i>>] = "PG_FREE"
        /\ j \in m.full_line_list => st[<<j, i>>] = "PG_VALID"
        /\ j \in m.victim_line_pq => st[<<j, i>>] # "PG_FREE"
        /\ j = w.line => (st[<<j, i>>] = "PG_FREE" <=> i >= w.off)
        /\ j = g.line => (st[<<j, i>>] = "PG_FREE" <=> i >= g.off)
        /\ j = v /\ i \in todo => st[<<j, i>>] # "PG_FREE"
    BY DEF LineInv, PagesOf
  <2>2. st2[<<j, i>>] = IF j = l /\ i = k THEN "PG_VALID" ELSE st[<<j, i>>]
    BY <1>4
  <2>3. i >= k + 1 <=> i >= k /\ i # k
    BY <1>t
  <2> QED
    BY <1>3, <1>5, <2>1, <2>2, <2>3
<1>8. Counts(r, st2, v)
  BY <1>3, <1>4 DEF LineInv, Counts, PageStatus
<1>9. Sums(r, w2, g, v)
  BY <1>2, <1>3, <1>5, <1>t DEF LineInv, Sums
<1> QED
  BY <1>3, <1>4, <1>6, <1>7, <1>8, <1>9 DEF LineInv, r, st2

\* The end of a line: it is closed and the pointer gets the next free one.
LEMMA NextLineKeepsLineInv ==
    ASSUME NEW m \in LineMgmt, NEW st \in PageTable, NEW w, NEW g \in Pointer,
           NEW v, NEW todo, LineInv(m, st, w, g, v, todo),
           w.line \in Lines, w.off = P,
           NEW w2 \in Pointer, w2.off = 0,
           w2.line = get_next_free_line(close_line(m, w.line))
    PROVE  LET r == take_free_line(close_line(m, w.line))
           IN  /\ r \in LineMgmt
               /\ LineInv(r, st, w2, g, v, todo)
               /\ r.free_line_cnt = IF w2.line = NULL THEN m.free_line_cnt
                                    ELSE m.free_line_cnt - 1
               /\ w2.line = NULL <=> m.free_line_cnt = 0
<1> DEFINE l == w.line
           c == close_line(m, l)
           r == take_free_line(c)
<1>t. /\ \A j \in Lines : m.vpc[j] \in Nat /\ m.ipc[j] \in Nat
      /\ P \in Nat /\ P >= 1 /\ \A i \in Offs : i \in Nat /\ i < P
      /\ m.free_line_list \in Seq(Lines) /\ NULL \notin Lines
  BY SizeAssumption, TokenAssumption DEF LineMgmt, P, Pointer, Offs
<1>1. /\ c \in LineMgmt
      /\ c.free_line_list = m.free_line_list
      /\ c.free_line_cnt = m.free_line_cnt
      /\ c.full_line_list =
           IF m.vpc[l] = P THEN m.full_line_list \cup {l} ELSE m.full_line_list
      /\ c.victim_line_pq =
           IF m.vpc[l] = P THEN m.victim_line_pq ELSE m.victim_line_pq \cup {l}
      /\ c.ipc = m.ipc
      /\ c.vpc = m.vpc
  BY CloseFields
<1>2. /\ l # g.line /\ l # v /\ l \notin ListSet(m.free_line_list)
      /\ l \notin m.full_line_list /\ l \notin m.victim_line_pq
      /\ m.vpc[l] + m.ipc[l] = P
  BY DEF LineInv, Places, Sums
<1>3. /\ m.free_line_cnt = Len(m.free_line_list)
      /\ NoDup(m.free_line_list)
  BY DEF LineInv, Places
\* Every page of the line has been written, and all are valid if vpc = P.
<1>4. \A i \in Offs : st[<<l, i>>] # "PG_FREE"
  <2> SUFFICES ASSUME NEW i \in Offs PROVE st[<<l, i>>] # "PG_FREE"
    OBVIOUS
  <2>1. st[<<l, i>>] = "PG_FREE" <=> i >= w.off
    BY DEF LineInv, PagesOf
  <2> QED
    BY <2>1, <1>t
<1>5. m.vpc[l] = P => \A i \in Offs : st[<<l, i>>] = "PG_VALID"
  <2> SUFFICES ASSUME m.vpc[l] = P PROVE \A i \in Offs : st[<<l, i>>] = "PG_VALID"
    OBVIOUS
  <2>1. Cardinality(MarkedIn(st, l, "PG_VALID")) = P
    BY <1>2 DEF LineInv, Counts
  <2>2. MarkedIn(st, l, "PG_VALID") = Offs
    BY <2>1, MarkedFinite
  <2> QED
    BY <2>2 DEF MarkedIn
\* What becomes of the free list.
<1>6. /\ r \in LineMgmt
      /\ r.full_line_list = c.full_line_list /\ r.victim_line_pq = c.victim_line_pq
      /\ r.ipc = m.ipc /\ r.vpc = m.vpc
      /\ r.free_line_cnt = Len(r.free_line_list)
      /\ NoDup(r.free_line_list)
      /\ w2.line \in Lines =>
            /\ ListSet(r.free_line_list) = ListSet(m.free_line_list) \ {w2.line}
            /\ w2.line \in ListSet(m.free_line_list)
            /\ r.free_line_cnt = m.free_line_cnt - 1 /\ m.free_line_cnt # 0
      /\ w2.line \notin Lines =>
            /\ w2.line = NULL /\ m.free_line_cnt = 0
            /\ r.free_line_list = m.free_line_list
            /\ r.free_line_cnt = m.free_line_cnt
  <2>1. CASE m.free_line_list = <<>>
    <3>1. r = c /\ w2.line = NULL
      BY <1>1, <2>1 DEF take_free_line, get_next_free_line
    <3> HIDE DEF r, c
    <3>2. m.free_line_cnt = 0
      BY <2>1, <1>3
    <3> QED
      BY <3>1, <3>2, <1>1, <1>3, <1>t
  <2>2. CASE m.free_line_list # <<>>
    <3> HIDE DEF c
    <3>1. /\ r \in LineMgmt
          /\ r.free_line_list = Tail(c.free_line_list)
          /\ r.free_line_cnt = c.free_line_cnt - 1
          /\ r.full_line_list = c.full_line_list
          /\ r.victim_line_pq = c.victim_line_pq
          /\ r.ipc = c.ipc
          /\ r.vpc = c.vpc
      BY <1>1, <1>3, <2>2, TakeFields
    <3>2. w2.line = Head(m.free_line_list)
      BY <1>1, <2>2 DEF get_next_free_line, c
    <3> HIDE DEF r
    <3>3. /\ Head(m.free_line_list) \in Lines
          /\ Len(Tail(m.free_line_list)) = Len(m.free_line_list) - 1
          /\ NoDup(Tail(m.free_line_list))
          /\ ListSet(Tail(m.free_line_list)) =
                ListSet(m.free_line_list) \ {Head(m.free_line_list)}
          /\ Head(m.free_line_list) \in ListSet(m.free_line_list)
          /\ Len(Tail(m.free_line_list)) \in Nat
      BY <1>3, <1>t, <2>2, TailOfList
    <3> QED
      BY <3>1, <3>2, <3>3, <1>1, <1>3
  <2> QED
    BY <2>1, <2>2
<1> HIDE DEF r, c
<1>7. \A j \in Lines : /\ j \in ListSet(r.free_line_list) <=>
                             j \in ListSet(m.free_line_list) /\ j # w2.line
                       /\ j = w2.line => j \in ListSet(m.free_line_list)
  BY <1>6, <1>t
<1>8. Places(r, w2, g, v)
  <2> SUFFICES ASSUME NEW j \in Lines
               PROVE  /\ \/ j \in ListSet(r.free_line_list) \/ j \in r.full_line_list
                         \/ j \in r.victim_line_pq \/ j \in {w2.line, g.line, v}
                      /\ j \in ListSet(r.free_line_list) =>
                              j \notin r.full_line_list /\ j \notin r.victim_line_pq
                      /\ j \in r.full_line_list => j \notin r.victim_line_pq
                      /\ j \in {w2.line, g.line, v} =>
                              /\ j \notin ListSet(r.free_line_list)
                              /\ j \notin r.full_line_list /\ j \notin r.victim_line_pq
                      /\ j = w2.line => j # g.line /\ j # v
                      /\ j = g.line => j # v
    BY <1>6 DEF Places
  <2>1. /\ \/ j \in ListSet(m.free_line_list) \/ j \in m.full_line_list
           \/ j \in m.victim_line_pq \/ j \in {w.line, g.line, v}
        /\ j \in ListSet(m.free_line_list) =>
                j \notin m.full_line_list /\ j \notin m.victim_line_pq
        /\ j \in m.full_line_list => j \notin m.victim_line_pq
        /\ j \in {w.line, g.line, v} =>
                /\ j \notin ListSet(m.free_line_list)
                /\ j \notin m.full_line_list /\ j \notin m.victim_line_pq
        /\ j = w.line => j # g.line /\ j # v
        /\ j = g.line => j # v
    BY DEF LineInv, Places
  <2> QED
    BY <1>1, <1>2, <1>6, <1>7, <2>1
<1>9. PagesOf(r, st, w2, g, v, todo)
  <2> SUFFICES ASSUME NEW j \in Lines, NEW i \in Offs
               PROVE  /\ j \in ListSet(r.free_line_list) => st[<<j, i>>] = "PG_FREE"
                      /\ j \in r.full_line_list => st[<<j, i>>] = "PG_VALID"
                      /\ j \in r.victim_line_pq => st[<<j, i>>] # "PG_FREE"
                      /\ j = w2.line => (st[<<j, i>>] = "PG_FREE" <=> i >= w2.off)
                      /\ j = g.line => (st[<<j, i>>] = "PG_FREE" <=> i >= g.off)
                      /\ j = v /\ i \in todo => st[<<j, i>>] # "PG_FREE"
    BY DEF PagesOf
  <2>1. /\ j \in ListSet(m.free_line_list) => st[<<j, i>>] = "PG_FREE"
        /\ j \in m.full_line_list => st[<<j, i>>] = "PG_VALID"
        /\ j \in m.victim_line_pq => st[<<j, i>>] # "PG_FREE"
        /\ j = g.line => (st[<<j, i>>] = "PG_FREE" <=> i >= g.off)
        /\ j = v /\ i \in todo => st[<<j, i>>] # "PG_FREE"
    BY DEF LineInv, PagesOf
  <2>2. i >= 0
    BY <1>t
  <2> QED
    BY <1>1, <1>4, <1>5, <1>6, <1>7, <2>1, <2>2
<1>10. Counts(r, st, v)
  BY <1>6 DEF LineInv, Counts
<1>11. Sums(r, w2, g, v)
  <2> SUFFICES ASSUME NEW j \in Lines
               PROVE  /\ j \in ListSet(r.free_line_list) => r.vpc[j] = 0 /\ r.ipc[j] = 0
                      /\ j \in r.full_line_list => r.vpc[j] = P /\ r.ipc[j] = 0
                      /\ j \in r.victim_line_pq => r.vpc[j] + r.ipc[j] = P /\ r.ipc[j] >= 1
                      /\ j = w2.line => r.vpc[j] + r.ipc[j] = w2.off
                      /\ j = g.line => r.vpc[j] + r.ipc[j] = g.off
                      /\ j = v => r.vpc[j] + r.ipc[j] = P /\ r.ipc[j] >= 1
    BY DEF Sums
  <2>1. /\ j \in ListSet(m.free_line_list) => m.vpc[j] = 0 /\ m.ipc[j] = 0
        /\ j \in m.full_line_list => m.vpc[j] = P /\ m.ipc[j] = 0
        /\ j \in m.victim_line_pq => m.vpc[j] + m.ipc[j] = P /\ m.ipc[j] >= 1
        /\ j = g.line => m.vpc[j] + m.ipc[j] = g.off
        /\ j = v => m.vpc[j] + m.ipc[j] = P /\ m.ipc[j] >= 1
        /\ m.vpc[j] \in Nat /\ m.ipc[j] \in Nat
    BY <1>t DEF LineInv, Sums
  <2>2. j \in r.full_line_list => j \in m.full_line_list \/ (j = l /\ m.vpc[l] = P)
    BY <1>1, <1>6
  <2>3. j \in r.victim_line_pq => j \in m.victim_line_pq \/ (j = l /\ m.vpc[l] # P)
    BY <1>1, <1>6
  <2>4. r.vpc[j] = m.vpc[j] /\ r.ipc[j] = m.ipc[j]
    BY <1>6
  <2>5. j \in ListSet(r.free_line_list) => r.vpc[j] = 0 /\ r.ipc[j] = 0
    BY <1>7, <2>1, <2>4
  <2>6. j \in r.full_line_list => r.vpc[j] = P /\ r.ipc[j] = 0
    BY <1>2, <1>t, <2>1, <2>2, <2>4
  <2>7. j \in r.victim_line_pq => r.vpc[j] + r.ipc[j] = P /\ r.ipc[j] >= 1
    BY <1>2, <1>t, <2>1, <2>3, <2>4
  <2>8. j = w2.line => r.vpc[j] + r.ipc[j] = w2.off
    BY <1>7, <2>1, <2>4
  <2> QED
    BY <2>1, <2>4, <2>5, <2>6, <2>7, <2>8
<1> QED
  BY <1>6, <1>8, <1>9, <1>10, <1>11, <1>t DEF LineInv, r, c, Pointer

\* advance_write_pointer after mark_page_valid on the page under the pointer:
\* LineInv survives, and the free pages left for the pointer become one
\* fewer, unless there is no line left to go on with.
LEMMA AdvanceKeepsLineInv ==
    ASSUME NEW m \in LineMgmt, NEW st \in PageTable, NEW w \in Pointer,
           NEW g \in Pointer, NEW v, NEW todo, LineInv(m, st, w, g, v, todo),
           w.line \in Lines
    PROVE  LET adv == advance_write_pointer(mark_page_valid(m, w.line), w)
               st2 == Remark(st, w.line, w.off, "PG_VALID")
           IN  /\ adv.lm \in LineMgmt
               /\ adv.wp \in Pointer
               /\ st2 \in PageTable
               /\ LineInv(adv.lm, st2, adv.wp, g, v, todo)
               /\ \/ /\ adv.wp.line \in Lines
                     /\ adv.wp.off = w.off + 1
                     /\ adv.lm.free_line_cnt = m.free_line_cnt
                  \/ /\ adv.wp.line \in Lines
                     /\ w.off + 1 = P /\ adv.wp.off = 0
                     /\ m.free_line_cnt >= 1
                     /\ adv.lm.free_line_cnt = m.free_line_cnt - 1
                  \/ /\ adv.wp.line = NULL
                     /\ w.off + 1 = P /\ adv.wp.off = 0
                     /\ m.free_line_cnt = 0
<1> DEFINE m1 == mark_page_valid(m, w.line)
           adv == advance_write_pointer(m1, w)
           st2 == Remark(st, w.line, w.off, "PG_VALID")
           w1 == [line |-> w.line, off |-> w.off + 1]
<1>t. /\ w.off \in Nat /\ w.off < P /\ P \in Nat /\ P >= 1 /\ 0 \in Offs
      /\ m.free_line_cnt \in Nat /\ NULL \notin Lines
  BY SizeAssumption, TokenAssumption DEF Pointer, Offs, P, LineMgmt
<1>1. w1.line = w.line /\ w1.off = w.off + 1
  OBVIOUS
<1>2. /\ m1 \in LineMgmt /\ st2 \in PageTable
      /\ LineInv(m1, st2, w1, g, v, todo)
      /\ m1.free_line_cnt = m.free_line_cnt
  <2> HIDE DEF w1
  <2> QED
    BY <1>1, ValidateKeepsLineInv
<1> HIDE DEF m1, st2
<1>3. CASE w.off + 1 < P
  <2>1. adv = [lm |-> m1, wp |-> [w EXCEPT !.off = @ + 1]]
    BY <1>3 DEF advance_write_pointer, P
  <2>2. [w EXCEPT !.off = @ + 1] = w1 /\ w1 \in Pointer
    BY <1>3, <1>t DEF Pointer, Offs, P
  <2>3. adv.lm = m1 /\ adv.wp = w1
    BY <2>1, <2>2
  <2> QED
    BY <1>2, <2>2, <2>3 DEF st2, m1
<1>4. CASE w.off + 1 = P
  <2> DEFINE w2 == [line |-> get_next_free_line(close_line(m1, w.line)), off |-> 0]
             r == take_free_line(close_line(m1, w.line))
  <2>1. adv = [lm |-> r, wp |-> w2]
    BY <1>4, <1>t DEF advance_write_pointer, P
  <2>2. w2.off = 0 /\ w2.line = get_next_free_line(close_line(m1, w.line))
    OBVIOUS
  <2>3. get_next_free_line(close_line(m1, w.line)) \in Lines \cup {NULL}
    <3>1. close_line(m1, w.line).free_line_list \in Seq(Lines)
      BY <1>2, CloseFields DEF LineMgmt
    <3> QED
      BY <3>1 DEF get_next_free_line
  <2>4. w2 \in Pointer
    BY <2>3, <1>t DEF Pointer
  <2>5. w1.line \in Lines /\ w1.off = P
    BY <1>1, <1>4
  <2> HIDE DEF w1, w2, r
  <2>6. /\ r \in LineMgmt
        /\ LineInv(r, st2, w2, g, v, todo)
        /\ r.free_line_cnt = IF w2.line = NULL THEN m1.free_line_cnt
                             ELSE m1.free_line_cnt - 1
        /\ w2.line = NULL <=> m1.free_line_cnt = 0
    <3>1. w2.line = get_next_free_line(close_line(m1, w1.line))
      BY <2>2, <1>1
    <3>2. r = take_free_line(close_line(m1, w1.line))
      BY <1>1 DEF r
    <3> QED
      BY <1>2, <2>2, <2>4, <2>5, <3>1, <3>2, NextLineKeepsLineInv
  <2>7. adv.lm = r /\ adv.wp = w2
    BY <2>1
  <2>8. w2.line \in Lines \/ w2.line = NULL
    BY <2>2, <2>3
  <2>9. \/ /\ w2.line \in Lines /\ m.free_line_cnt >= 1
           /\ r.free_line_cnt = m.free_line_cnt - 1
        \/ w2.line = NULL /\ m.free_line_cnt = 0
    BY <1>2, <1>t, <2>6, <2>8
  <2> HIDE DEF adv
  <2> QED
    BY <1>2, <1>4, <2>2, <2>4, <2>6, <2>7, <2>9 DEF st2, m1, adv
<1> QED
  BY <1>3, <1>4, <1>t

\* advance_write_pointer leaves the numbers of invalid pages alone.
LEMMA AdvanceKeepsIpc ==
    ASSUME NEW m \in LineMgmt, NEW w \in Pointer, w.line \in Lines, m.vpc[w.line] < P,
           NoDup(m.free_line_list), m.free_line_cnt = Len(m.free_line_list)
    PROVE  advance_write_pointer(mark_page_valid(m, w.line), w).lm.ipc = m.ipc
<1> DEFINE m1 == mark_page_valid(m, w.line)
           c == close_line(m1, w.line)
<1>1. /\ m1 \in LineMgmt /\ m1.ipc = m.ipc
      /\ m1.free_line_list = m.free_line_list /\ m1.free_line_cnt = m.free_line_cnt
  BY ValidFields
<1> HIDE DEF m1
<1>2. /\ c \in LineMgmt /\ c.ipc = m.ipc
      /\ c.free_line_list = m.free_line_list /\ c.free_line_cnt = m.free_line_cnt
  BY <1>1, CloseFields
<1> HIDE DEF c
<1>3. take_free_line(c).ipc = m.ipc
  <2>1. CASE c.free_line_list = <<>>
    BY <2>1, <1>2 DEF take_free_line
  <2>2. CASE c.free_line_list # <<>>
    BY <2>2, <1>2, TakeFields
  <2> QED
    BY <2>1, <2>2
<1>4. CASE w.off + 1 < PgsPerLine
  <2>1. advance_write_pointer(m1, w).lm = m1
    BY <1>4 DEF advance_write_pointer
  <2> QED
    BY <1>1, <2>1 DEF m1
<1>5. CASE ~(w.off + 1 < PgsPerLine)
  <2>1. advance_write_pointer(m1, w).lm = take_free_line(c)
    BY <1>5 DEF advance_write_pointer, c
  <2> QED
    BY <1>3, <2>1 DEF m1
<1> QED
  BY <1>4, <1>5

-----------------------------------------------------------------------------
(* The steps of do_gc preserve LineInv. *)

\* The pages of a line that do_gc, at position i, has still to visit.
TodoAt(i) == {k \in Offs : \E j \in Offs : j >= i /\ GcOrder[j] = k}

\* The cursor of do_gc visits every page of the line exactly once.
LEMMA Visits ==
    /\ TodoAt(0) = Offs
    /\ TodoAt(P) = {}
    /\ \A i \in Offs : /\ GcOrder[i] \in TodoAt(i)
                       /\ TodoAt(i + 1) = TodoAt(i) \ {GcOrder[i]}
<1>t. P \in Nat /\ \A i \in Offs : i \in Nat /\ i >= 0 /\ i < P
  BY SizeAssumption DEF Offs, P
<1>1. TodoAt(0) = Offs
  BY <1>t, OrderAssumption DEF TodoAt
<1>2. TodoAt(P) = {}
  BY <1>t DEF TodoAt
<1>3. ASSUME NEW i \in Offs
      PROVE  GcOrder[i] \in TodoAt(i) /\ TodoAt(i + 1) = TodoAt(i) \ {GcOrder[i]}
  <2>1. GcOrder[i] \in TodoAt(i)
    BY <1>t, OrderAssumption DEF TodoAt
  <2>2. \A j \in Offs : j >= i + 1 <=> j >= i /\ j # i
    BY <1>t
  <2>3. \A j \in Offs : j # i <=> GcOrder[j] # GcOrder[i]
    BY OrderAssumption
  <2> QED
    BY <2>1, <2>2, <2>3 DEF TodoAt
<1> QED
  BY <1>1, <1>2, <1>3

\* A smaller set of pages to visit asks less.
LEMMA FewerToVisit ==
    ASSUME NEW m, NEW st, NEW w, NEW g, NEW v, NEW todo, NEW todo2,
           LineInv(m, st, w, g, v, todo), todo2 \subseteq todo
    PROVE  LineInv(m, st, w, g, v, todo2)
  BY DEF LineInv, PagesOf

\* select_victim_greedy: a line leaves the victim queue for do_gc, none of
\* whose pages is free.
LEMMA SelectKeepsLineInv ==
    ASSUME NEW m \in LineMgmt, NEW st \in PageTable, NEW w \in Pointer,
           NEW g \in Pointer, LineInv(m, st, w, g, NULL, Offs),
           NEW v \in m.victim_line_pq
    PROVE  LET r == [m EXCEPT !.victim_line_pq = @ \ {v}]
           IN  /\ r \in LineMgmt
               /\ LineInv(r, st, w, g, v, Offs)
               /\ r.free_line_cnt = m.free_line_cnt /\ r.ipc = m.ipc
<1> DEFINE r == [m EXCEPT !.victim_line_pq = @ \ {v}]
<1>1. /\ r \in LineMgmt
      /\ r.free_line_list = m.free_line_list
      /\ r.free_line_cnt = m.free_line_cnt
      /\ r.full_line_list = m.full_line_list
      /\ r.victim_line_pq = m.victim_line_pq \ {v}
      /\ r.ipc = m.ipc
      /\ r.vpc = m.vpc
  BY DEF LineMgmt
<1> HIDE DEF r
<1>2. v \in Lines /\ NULL \notin Lines
  BY TokenAssumption DEF LineMgmt
<1>3. Places(r, w, g, v)
  BY <1>1, <1>2 DEF LineInv, Places
<1>4. PagesOf(r, st, w, g, v, Offs)
  BY <1>1, <1>2 DEF LineInv, PagesOf
<1>5. Counts(r, st, v)
  BY <1>1, <1>2 DEF LineInv, Counts
<1>6. Sums(r, w, g, v)
  BY <1>1, <1>2 DEF LineInv, Sums
<1> QED
  BY <1>1, <1>3, <1>4, <1>5, <1>6 DEF LineInv, r

\* mark_block_free on a block of the victim that has no page left to visit.
LEMMA EraseKeepsLineInv ==
    ASSUME NEW m \in LineMgmt, NEW st \in PageTable, NEW w \in Pointer,
           NEW g \in Pointer, NEW v \in Lines, NEW todo \in SUBSET Offs, NEW b,
           LineInv(m, st, w, g, v, todo), \A k \in todo : BlkOf[k] # b
    PROVE  LET st2 == mark_block_free(st, v, b)
           IN  st2 \in PageTable /\ LineInv(m, st2, w, g, v, todo)
<1> DEFINE st2 == mark_block_free(st, v, b)
<1>1. st2 \in PageTable
  BY DEF PageTable, PageStatus, mark_block_free
<1>2. \A j \in Lines : \A i \in Offs :
        st2[<<j, i>>] = IF j = v /\ BlkOf[i] = b THEN "PG_FREE" ELSE st[<<j, i>>]
  BY DEF Pages, mark_block_free
<1> HIDE DEF st2
<1>3. PagesOf(m, st2, w, g, v, todo)
  <2> SUFFICES ASSUME NEW j \in Lines, NEW i \in Offs
               PROVE  /\ j \in ListSet(m.free_line_list) => st2[<<j, i>>] = "PG_FREE"
                      /\ j \in m.full_line_list => st2[<<j, i>>] = "PG_VALID"
                      /\ j \in m.victim_line_pq => st2[<<j, i>>] # "PG_FREE"
                      /\ j = w.line => (st2[<<j, i>>] = "PG_FREE" <=> i >= w.off)
                      /\ j = g.line => (st2[<<j, i>>] = "PG_FREE" <=> i >= g.off)
                      /\ j = v /\ i \in todo => st2[<<j, i>>] # "PG_FREE"
    BY DEF PagesOf
  <2>1. /\ j \in ListSet(m.free_line_list) => st[<<j, i>>] = "PG_FREE"
        /\ j \in m.full_line_list => st[<<j, i>>] = "PG_VALID"
        /\ j \in m.victim_line_pq => st[<<j, i>>] # "PG_FREE"
        /\ j = w.line => (st[<<j, i>>] = "PG_FREE" <=> i >= w.off)
        /\ j = g.line => (st[<<j, i>>] = "PG_FREE" <=> i >= g.off)
        /\ j = v /\ i \in todo => st[<<j, i>>] # "PG_FREE"
    BY DEF LineInv, PagesOf
  <2>2. j = v => /\ j \notin ListSet(m.free_line_list) /\ j \notin m.full_line_list
                 /\ j \notin m.victim_line_pq /\ j # w.line /\ j # g.line
    BY DEF LineInv, Places
  <2>3. st2[<<j, i>>] = IF j = v /\ BlkOf[i] = b THEN "PG_FREE" ELSE st[<<j, i>>]
    BY <1>2
  <2> QED
    BY <2>1, <2>2, <2>3
<1>4. \A j \in Lines : \A s \in PageStatus : j # v => MarkedIn(st2, j, s) = MarkedIn(st, j, s)
  BY <1>2 DEF MarkedIn
<1>5. Counts(m, st2, v)
  BY <1>4 DEF LineInv, Counts, PageStatus
<1> QED
  BY <1>1, <1>3, <1>5 DEF LineInv, st2

\* What mark_line_free does to the fields of line management.
LEMMA FreeFields ==
    ASSUME NEW m \in LineMgmt, NEW l \in Lines
    PROVE  LET r == mark_line_free(m, l)
           IN  /\ r \in LineMgmt
               /\ r.free_line_list = Append(m.free_line_list, l)
               /\ r.free_line_cnt = m.free_line_cnt + 1
               /\ r.full_line_list = m.full_line_list
               /\ r.victim_line_pq = m.victim_line_pq
               /\ \A j \in Lines : r.ipc[j] = IF j = l THEN 0 ELSE m.ipc[j]
               /\ \A j \in Lines : r.vpc[j] = IF j = l THEN 0 ELSE m.vpc[j]
<1>1. 0 \in 0 .. PgsPerLine
  BY SizeAssumption
<1>2. Append(m.free_line_list, l) \in Seq(Lines) /\ m.free_line_cnt + 1 \in Nat
  BY DEF LineMgmt
<1> QED
  BY <1>1, <1>2 DEF LineMgmt, mark_line_free

\* mark_line_free: the victim, all of whose blocks have been erased, goes to
\* the tail of the free list.
LEMMA FreeKeepsLineInv ==
    ASSUME NEW m \in LineMgmt, NEW st \in PageTable, NEW w \in Pointer,
           NEW g \in Pointer, NEW v \in Lines, NEW todo, NEW todo2,
           LineInv(m, st, w, g, v, todo),
           \A k \in Offs : st[<<v, k>>] = "PG_FREE"
    PROVE  LET r == mark_line_free(m, v)
           IN  /\ r \in LineMgmt
               /\ LineInv(r, st, w, g, NULL, todo2)
               /\ r.free_line_cnt = m.free_line_cnt + 1
<1> DEFINE r == mark_line_free(m, v)
<1>1. /\ r \in LineMgmt
      /\ r.free_line_list = Append(m.free_line_list, v)
      /\ r.free_line_cnt = m.free_line_cnt + 1
      /\ r.full_line_list = m.full_line_list
      /\ r.victim_line_pq = m.victim_line_pq
      /\ \A j \in Lines : r.ipc[j] = IF j = v THEN 0 ELSE m.ipc[j]
      /\ \A j \in Lines : r.vpc[j] = IF j = v THEN 0 ELSE m.vpc[j]
  BY FreeFields
<1> HIDE DEF r
<1>2. NULL \notin Lines
  BY TokenAssumption
<1>3. /\ v \notin ListSet(m.free_line_list) /\ v \notin m.full_line_list
      /\ v \notin m.victim_line_pq /\ v # w.line /\ v # g.line
      /\ m.free_line_cnt = Len(m.free_line_list) /\ NoDup(m.free_line_list)
  BY DEF LineInv, Places
<1>4. /\ Len(r.free_line_list) = Len(m.free_line_list) + 1
      /\ NoDup(r.free_line_list)
      /\ ListSet(r.free_line_list) = ListSet(m.free_line_list) \cup {v}
  BY <1>1, <1>3, AppendToList DEF LineMgmt
<1>5. Places(r, w, g, NULL)
  BY <1>1, <1>2, <1>3, <1>4 DEF LineInv, Places
<1>6. PagesOf(r, st, w, g, NULL, todo2)
  <2> SUFFICES ASSUME NEW j \in Lines, NEW i \in Offs
               PROVE  /\ j \in ListSet(r.free_line_list) => st[<<j, i>>] = "PG_FREE"
                      /\ j \in r.full_line_list => st[<<j, i>>] = "PG_VALID"
                      /\ j \in r.victim_line_pq => st[<<j, i>>] # "PG_FREE"
                      /\ j = w.line => (st[<<j, i>>] = "PG_FREE" <=> i >= w.off)
                      /\ j = g.line => (st[<<j, i>>] = "PG_FREE" <=> i >= g.off)
                      /\ j = NULL /\ i \in todo2 => st[<<j, i>>] # "PG_FREE"
    BY DEF PagesOf
  <2>1. /\ j \in ListSet(m.free_line_list) => st[<<j, i>>] = "PG_FREE"
        /\ j \in m.full_line_list => st[<<j, i>>] = "PG_VALID"
        /\ j \in m.victim_line_pq => st[<<j, i>>] # "PG_FREE"
        /\ j = w.line => (st[<<j, i>>] = "PG_FREE" <=> i >= w.off)
        /\ j = g.line => (st[<<j, i>>] = "PG_FREE" <=> i >= g.off)
        /\ j = v /\ i \in todo => st[<<j, i>>] # "PG_FREE"
    BY DEF LineInv, PagesOf
  <2> QED
    BY <1>1, <1>2, <1>4, <2>1
<1>7. Counts(r, st, NULL)
  <2>1. MarkedIn(st, v, "PG_VALID") = {} /\ MarkedIn(st, v, "PG_INVALID") = {}
    BY DEF MarkedIn
  <2>2. Cardinality(MarkedIn(st, v, "PG_VALID")) = 0 /\ Cardinality(MarkedIn(st, v, "PG_INVALID")) = 0
    BY <2>1, FS_EmptySet
  <2> QED
    BY <1>1, <2>2 DEF LineInv, Counts
<1>8. Sums(r, w, g, NULL)
  BY <1>1, <1>2, <1>3, <1>4 DEF LineInv, Sums
<1> QED
  BY <1>1, <1>5, <1>6, <1>7, <1>8 DEF LineInv, r

-----------------------------------------------------------------------------
(* The inductive invariant. *)

MapTable == [LPN -> Pages \cup {UNMAPPED}]
ReverseMap == [Pages -> LPN \cup {INVALID_LPN}]

\* MappingSound, and a mapped page of the victim is still to be visited.
Owned(mt, rm, st, v, todo) ==
    \A n \in LPN : mt[n] # UNMAPPED =>
        /\ st[mt[n]] = "PG_VALID"
        /\ rm[mt[n]] = n
        /\ mt[n][1] = v => mt[n][2] \in todo

NoOrphans(mt, rm, st, v, todo) ==
    \A p \in Pages :
        st[p] = "PG_VALID" /\ (p[1] = v => p[2] \in todo) =>
            rm[p] \in LPN /\ mt[rm[p]] = p

\* Where the dispatcher is, and the local variables of do_gc.
Control ==
    /\ pc # "oops" => wp.line \in Lines /\ gc_wp.line \in Lines
    /\ pc \in {"idle", "check"} => victim_line = NULL /\ gc_pos = 0
    /\ pc = "gc" => victim_line \in Lines

\* A block of the victim without a page still to be visited has been erased.
ErasedAt(st, v, i) ==
    \A k \in Offs : (\A j \in TodoAt(i) : BlkOf[j] # BlkOf[k]) => st[<<v, k>>] = "PG_FREE"

Erased == pc = "gc" => ErasedAt(status, victim_line, gc_pos)

IInv ==
    /\ TypeOK
    /\ LineInv(lm, status, wp, gc_wp, victim_line, TodoAt(gc_pos))
    /\ Owned(maptbl, rmap, status, victim_line, TodoAt(gc_pos))
    /\ pc # "oops" => NoOrphans(maptbl, rmap, status, victim_line, TodoAt(gc_pos))
    /\ Control
    /\ CreditsInRange
    /\ Erased

-----------------------------------------------------------------------------
(* The two mapping tables. *)

\* A page is its line and its place in it.
LEMMA PageParts ==
    ASSUME NEW p \in Pages
    PROVE  p[1] \in Lines /\ p[2] \in Offs /\ p = <<p[1], p[2]>>
  BY DEF Pages

\* Discarding a mapped logical page, the first half of an overwrite.
LEMMA UnmapPage ==
    ASSUME NEW mt \in MapTable, NEW rm \in ReverseMap, NEW st \in PageTable,
           NEW v, NEW todo, Owned(mt, rm, st, v, todo), NoOrphans(mt, rm, st, v, todo),
           NEW n \in LPN, mt[n] # UNMAPPED
    PROVE  LET mt2 == [mt EXCEPT ![n] = UNMAPPED]
               rm2 == [rm EXCEPT ![mt[n]] = INVALID_LPN]
               st2 == [st EXCEPT ![mt[n]] = "PG_INVALID"]
           IN  /\ mt2 \in MapTable /\ rm2 \in ReverseMap
               /\ Owned(mt2, rm2, st2, v, todo)
               /\ NoOrphans(mt2, rm2, st2, v, todo)
<1> DEFINE old == mt[n]
           mt2 == [mt EXCEPT ![n] = UNMAPPED]
           rm2 == [rm EXCEPT ![old] = INVALID_LPN]
           st2 == [st EXCEPT ![old] = "PG_INVALID"]
<1>1. old \in Pages /\ st[old] = "PG_VALID" /\ rm[old] = n
  BY DEF MapTable, Owned
<1>2. mt2 \in MapTable /\ rm2 \in ReverseMap
  BY <1>1 DEF MapTable, ReverseMap
<1>3. \A k \in LPN : mt2[k] = IF k = n THEN UNMAPPED ELSE mt[k]
  BY DEF MapTable
<1>4. \A p \in Pages : /\ rm2[p] = IF p = old THEN INVALID_LPN ELSE rm[p]
                       /\ st2[p] = IF p = old THEN "PG_INVALID" ELSE st[p]
  BY <1>1 DEF ReverseMap, PageTable
<1>5. \A k \in LPN : mt[k] # UNMAPPED => mt[k] \in Pages
  BY DEF MapTable
<1> HIDE DEF mt2, rm2, st2
<1>6. Owned(mt2, rm2, st2, v, todo)
  BY <1>1, <1>3, <1>4, <1>5 DEF Owned
<1>7. NoOrphans(mt2, rm2, st2, v, todo)
  BY <1>1, <1>3, <1>4, <1>5 DEF NoOrphans
<1> QED
  BY <1>2, <1>6, <1>7 DEF mt2, rm2, st2

\* Mapping an unmapped logical page to a free page that is not in the victim.
LEMMA MapPage ==
    ASSUME NEW mt \in MapTable, NEW rm \in ReverseMap, NEW st \in PageTable,
           NEW v, NEW todo, Owned(mt, rm, st, v, todo), NoOrphans(mt, rm, st, v, todo),
           NEW n \in LPN, mt[n] = UNMAPPED,
           NEW q \in Pages, st[q] = "PG_FREE", q[1] # v
    PROVE  LET mt2 == [mt EXCEPT ![n] = q]
               rm2 == [rm EXCEPT ![q] = n]
               st2 == [st EXCEPT ![q] = "PG_VALID"]
           IN  /\ mt2 \in MapTable /\ rm2 \in ReverseMap
               /\ Owned(mt2, rm2, st2, v, todo)
               /\ NoOrphans(mt2, rm2, st2, v, todo)
<1> DEFINE mt2 == [mt EXCEPT ![n] = q]
           rm2 == [rm EXCEPT ![q] = n]
           st2 == [st EXCEPT ![q] = "PG_VALID"]
<1>1. UNMAPPED \notin Pages
  BY TokenAssumption
<1>2. mt2 \in MapTable /\ rm2 \in ReverseMap
  BY DEF MapTable, ReverseMap
<1>3. \A k \in LPN : mt2[k] = IF k = n THEN q ELSE mt[k]
  BY DEF MapTable
<1>4. \A p \in Pages : /\ rm2[p] = IF p = q THEN n ELSE rm[p]
                       /\ st2[p] = IF p = q THEN "PG_VALID" ELSE st[p]
  BY DEF ReverseMap, PageTable
<1>5. \A k \in LPN : mt[k] # UNMAPPED => mt[k] \in Pages
  BY DEF MapTable
<1> HIDE DEF mt2, rm2, st2
<1>6. Owned(mt2, rm2, st2, v, todo)
  BY <1>3, <1>4, <1>5 DEF Owned
<1>7. NoOrphans(mt2, rm2, st2, v, todo)
  BY <1>1, <1>3, <1>4 DEF NoOrphans
<1> QED
  BY <1>2, <1>6, <1>7 DEF mt2, rm2, st2

\* do_gc goes past a valid page of the victim: its owner is the logical page
\* that was mapped to it, and is to be mapped elsewhere.
LEMMA VisitPage ==
    ASSUME NEW mt \in MapTable, NEW rm \in ReverseMap, NEW st \in PageTable,
           NEW v \in Lines, NEW todo, Owned(mt, rm, st, v, todo), NoOrphans(mt, rm, st, v, todo),
           NEW k \in Offs, k \in todo, st[<<v, k>>] = "PG_VALID"
    PROVE  LET n == rm[<<v, k>>]
               mt2 == [mt EXCEPT ![n] = UNMAPPED]
           IN  /\ n \in LPN /\ mt[n] = <<v, k>>
               /\ mt2 \in MapTable
               /\ Owned(mt2, rm, st, v, todo \ {k})
               /\ NoOrphans(mt2, rm, st, v, todo \ {k})
<1> DEFINE q == <<v, k>>
           n == rm[q]
           mt2 == [mt EXCEPT ![n] = UNMAPPED]
<1>1. q \in Pages /\ q[1] = v /\ q[2] = k
  BY DEF Pages
<1>2. n \in LPN /\ mt[n] = q
  BY <1>1 DEF NoOrphans
<1>3. mt2 \in MapTable /\ \A i \in LPN : mt2[i] = IF i = n THEN UNMAPPED ELSE mt[i]
  BY <1>2 DEF MapTable
<1>4. \A i \in LPN : mt[i] # UNMAPPED => mt[i] \in Pages
  BY DEF MapTable
<1> HIDE DEF mt2
<1>5. Owned(mt2, rm, st, v, todo \ {k})
  <2> SUFFICES ASSUME NEW i \in LPN, i # n, mt[i] # UNMAPPED
               PROVE  /\ st[mt[i]] = "PG_VALID" /\ rm[mt[i]] = i
                      /\ mt[i][1] = v => mt[i][2] \in todo \ {k}
    BY <1>3 DEF Owned
  <2>1. /\ st[mt[i]] = "PG_VALID" /\ rm[mt[i]] = i
        /\ mt[i][1] = v => mt[i][2] \in todo
    BY DEF Owned
  <2>2. mt[i] # q
    BY <2>1
  <2>3. mt[i][1] = v => mt[i][2] # k
    BY <1>4, <2>2, PageParts
  <2> QED
    BY <2>1, <2>3
<1>6. NoOrphans(mt2, rm, st, v, todo \ {k})
  <2> SUFFICES ASSUME NEW p \in Pages, st[p] = "PG_VALID", p[1] = v => p[2] \in todo \ {k}
               PROVE  rm[p] \in LPN /\ mt2[rm[p]] = p
    BY DEF NoOrphans
  <2>1. rm[p] \in LPN /\ mt[rm[p]] = p
    BY DEF NoOrphans
  <2>2. p # q
    BY <1>1
  <2> QED
    BY <1>2, <1>3, <2>1, <2>2
<1> QED
  BY <1>2, <1>3, <1>5, <1>6 DEF mt2

\* do_gc goes past a page of the victim that is not valid.
LEMMA SkipPage ==
    ASSUME NEW mt \in MapTable, NEW rm \in ReverseMap, NEW st \in PageTable,
           NEW v \in Lines, NEW todo, Owned(mt, rm, st, v, todo), NoOrphans(mt, rm, st, v, todo),
           NEW k \in Offs, st[<<v, k>>] # "PG_VALID"
    PROVE  /\ Owned(mt, rm, st, v, todo \ {k})
           /\ NoOrphans(mt, rm, st, v, todo \ {k})
<1>1. \A i \in LPN : mt[i] # UNMAPPED => mt[i] \in Pages
  BY DEF MapTable
<1>2. \A i \in LPN : mt[i] # UNMAPPED => ~(mt[i][1] = v /\ mt[i][2] = k)
  BY <1>1, PageParts DEF Owned
<1>3. Owned(mt, rm, st, v, todo \ {k})
  BY <1>2 DEF Owned
<1>4. NoOrphans(mt, rm, st, v, todo \ {k})
  BY DEF NoOrphans
<1> QED
  BY <1>3, <1>4

\* mark_block_free on a block of the victim without a page left to visit.
LEMMA EraseKeepsMap ==
    ASSUME NEW mt \in MapTable, NEW rm \in ReverseMap, NEW st \in PageTable,
           NEW v \in Lines, NEW todo, Owned(mt, rm, st, v, todo), NoOrphans(mt, rm, st, v, todo),
           NEW b, \A k \in todo : BlkOf[k] # b
    PROVE  LET st2 == mark_block_free(st, v, b)
           IN  Owned(mt, rm, st2, v, todo) /\ NoOrphans(mt, rm, st2, v, todo)
<1> DEFINE st2 == mark_block_free(st, v, b)
<1>1. \A p \in Pages : st2[p] = IF p[1] = v /\ BlkOf[p[2]] = b THEN "PG_FREE" ELSE st[p]
  BY DEF mark_block_free
<1>2. \A i \in LPN : mt[i] # UNMAPPED => mt[i] \in Pages
  BY DEF MapTable
<1> HIDE DEF st2
<1>3. Owned(mt, rm, st2, v, todo)
  BY <1>1, <1>2 DEF Owned
<1>4. NoOrphans(mt, rm, st2, v, todo)
  BY <1>1 DEF NoOrphans
<1> QED
  BY <1>3, <1>4 DEF st2

-----------------------------------------------------------------------------
(* IInv is inductive: the initial state and one lemma for each action. *)

\* TypeOK in the vocabulary of the lemmas.
LEMMA TypeParts ==
    TypeOK <=> /\ maptbl \in MapTable /\ rmap \in ReverseMap /\ status \in PageTable
               /\ lm \in LineMgmt /\ wp \in Pointer /\ gc_wp \in Pointer
               /\ write_credits \in 0 .. PgsPerLine
               /\ credits_to_refill \in 1 .. PgsPerLine
               /\ pc \in {"idle", "check", "gc", "oops"}
               /\ victim_line \in Lines \cup {NULL}
               /\ gc_pos \in 0 .. PgsPerLine
  BY DEF TypeOK, MapTable, ReverseMap, PageTable, LineMgmt, Pointer

\* The same after a step.
LEMMA TypePartsNext ==
    TypeOK' <=> /\ maptbl' \in MapTable /\ rmap' \in ReverseMap /\ status' \in PageTable
                /\ lm' \in LineMgmt /\ wp' \in Pointer /\ gc_wp' \in Pointer
                /\ write_credits' \in 0 .. PgsPerLine
                /\ credits_to_refill' \in 1 .. PgsPerLine
                /\ pc' \in {"idle", "check", "gc", "oops"}
                /\ victim_line' \in Lines \cup {NULL}
                /\ gc_pos' \in 0 .. PgsPerLine
  BY DEF TypeOK, MapTable, ReverseMap, PageTable, LineMgmt, Pointer

\* conv_init_ftl establishes the invariant.
LEMMA InitIInv == Init => IInv
<1> SUFFICES ASSUME NEW order \in LineOrders, InitWith(order)
             PROVE  IInv
  BY DEF Init
<1>t. /\ TtLines \in Nat /\ TtLines >= 3 /\ P \in Nat /\ P >= 1 /\ 0 \in Offs
      /\ NULL \notin Lines /\ \A i \in Offs : i \in Nat
  BY SizeAssumption, TokenAssumption, FS_CardinalityType DEF TtLines, P, Offs
<1>1. /\ order \in [1 .. TtLines -> Lines]
      /\ \A i, j \in 1 .. TtLines : order[i] = order[j] => i = j
      /\ \A l \in Lines : \E i \in 1 .. TtLines : order[i] = l
  BY DEF LineOrders
<1> DEFINE fl == [i \in 1 .. (TtLines - 2) |-> order[i + 2]]
<1>2. fl \in Seq(Lines) /\ Len(fl) = TtLines - 2
  <2>1. TtLines - 2 \in Nat /\ \A i \in 1 .. (TtLines - 2) : order[i + 2] \in Lines
    BY <1>1, <1>t
  <2> QED
    BY <2>1
<1>3. NoDup(fl)
  <2> SUFFICES ASSUME NEW i \in 1 .. (TtLines - 2), NEW j \in 1 .. (TtLines - 2), fl[i] = fl[j]
               PROVE  i = j
    BY <1>2 DEF NoDup
  <2>1. i + 2 \in 1 .. TtLines /\ j + 2 \in 1 .. TtLines /\ order[i + 2] = order[j + 2]
    BY <1>t
  <2> QED
    BY <2>1, <1>1
<1>4. order[1] \in Lines /\ order[2] \in Lines /\ order[1] # order[2]
  BY <1>1, <1>t
<1>5. \A l \in Lines : l \in ListSet(fl) <=> l # order[1] /\ l # order[2]
  <2> SUFFICES ASSUME NEW l \in Lines
               PROVE  l \in ListSet(fl) <=> l # order[1] /\ l # order[2]
    OBVIOUS
  <2>1. ASSUME l \in ListSet(fl) PROVE l # order[1] /\ l # order[2]
    <3>1. PICK i \in 1 .. (TtLines - 2) : l = order[i + 2]
      BY <1>2, <2>1 DEF ListSet
    <3>2. /\ i + 2 \in 1 .. TtLines /\ 1 \in 1 .. TtLines /\ 2 \in 1 .. TtLines
          /\ i + 2 # 1 /\ i + 2 # 2
      BY <1>t
    <3> QED
      BY <3>1, <3>2, <1>1
  <2>2. ASSUME l # order[1], l # order[2] PROVE l \in ListSet(fl)
    <3>1. PICK i \in 1 .. TtLines : order[i] = l
      BY <1>1
    <3>2. i # 1 /\ i # 2
      BY <3>1, <2>2
    <3>3. i - 2 \in 1 .. Len(fl) /\ i - 2 \in 1 .. (TtLines - 2) /\ (i - 2) + 2 = i
      BY <1>2, <1>t, <3>2
    <3>4. fl[i - 2] = l
      BY <3>1, <3>3
    <3> HIDE DEF fl
    <3> QED
      BY <3>3, <3>4 DEF ListSet
  <2> QED
    BY <2>1, <2>2
<1>6. /\ lm.free_line_list = fl /\ lm.free_line_cnt = TtLines - 2
      /\ lm.full_line_list = {} /\ lm.victim_line_pq = {}
      /\ \A l \in Lines : lm.ipc[l] = 0 /\ lm.vpc[l] = 0
  BY DEF InitWith
<1>7. lm \in LineMgmt
  <2>1. [l \in Lines |-> 0] \in [Lines -> 0 .. PgsPerLine] /\ TtLines - 2 \in Nat
    BY <1>t DEF P
  <2> HIDE DEF fl
  <2>2. lm = [ipc |-> [l \in Lines |-> 0], vpc |-> [l \in Lines |-> 0],
             free_line_list |-> fl, free_line_cnt |-> TtLines - 2,
             full_line_list |-> {}, victim_line_pq |-> {}]
    BY DEF InitWith, fl
  <2> QED
    BY <1>2, <2>1, <2>2 DEF LineMgmt
<1>8. /\ wp.line = order[1] /\ gc_wp.line = order[2] /\ wp.off = 0 /\ gc_wp.off = 0
      /\ wp \in Pointer /\ gc_wp \in Pointer
  BY <1>4, <1>t DEF InitWith, Pointer
<1>9. TypeOK
  <2>1. maptbl \in MapTable /\ rmap \in ReverseMap /\ status \in PageTable
    BY DEF InitWith, MapTable, ReverseMap, PageTable, PageStatus
  <2> QED
    BY <1>7, <1>8, <1>t, <2>1, TypeParts DEF InitWith, P
<1>10. victim_line = NULL /\ gc_pos = 0 /\ pc = "idle" /\ write_credits = PgsPerLine
  BY DEF InitWith
<1>11. \A p \in Pages : status[p] = "PG_FREE"
  BY DEF InitWith
<1> HIDE DEF fl
<1>12. Places(lm, wp, gc_wp, NULL)
  BY <1>2, <1>3, <1>4, <1>5, <1>6, <1>8, <1>t DEF Places
<1>13. PagesOf(lm, status, wp, gc_wp, NULL, TodoAt(0))
  <2>1. \A l \in Lines : \A k \in Offs : status[<<l, k>>] = "PG_FREE" /\ k >= 0
    BY <1>11, <1>t DEF Pages
  <2> QED
    BY <1>6, <1>8, <1>t, <2>1 DEF PagesOf
<1>14. Counts(lm, status, NULL)
  <2> SUFFICES ASSUME NEW l \in Lines
               PROVE  /\ Cardinality(MarkedIn(status, l, "PG_VALID")) = 0
                      /\ Cardinality(MarkedIn(status, l, "PG_INVALID")) = 0
    BY <1>6 DEF Counts
  <2>1. MarkedIn(status, l, "PG_VALID") = {} /\ MarkedIn(status, l, "PG_INVALID") = {}
    BY <1>11 DEF MarkedIn, Pages
  <2> QED
    BY <2>1, FS_EmptySet
<1>15. Sums(lm, wp, gc_wp, NULL)
  BY <1>6, <1>8, <1>t DEF Sums
<1>16. LineInv(lm, status, wp, gc_wp, NULL, TodoAt(0))
  BY <1>12, <1>13, <1>14, <1>15 DEF LineInv
<1>17. /\ Owned(maptbl, rmap, status, NULL, TodoAt(0))
       /\ NoOrphans(maptbl, rmap, status, NULL, TodoAt(0))
  BY <1>11 DEF InitWith, Owned, NoOrphans
<1>18. Control /\ CreditsInRange /\ Erased
  BY <1>4, <1>8, <1>10, <1>t DEF Control, CreditsInRange, Erased, P
<1> QED
  BY <1>9, <1>10, <1>16, <1>17, <1>18 DEF IInv

\* A discard keeps the invariant.
LEMMA DiscardIInv ==
    ASSUME IInv, NEW lpn \in LPN, DiscardPage(lpn)
    PROVE  IInv'
<1> DEFINE old == maptbl[lpn]
<1>1. /\ maptbl \in MapTable /\ rmap \in ReverseMap /\ status \in PageTable
      /\ lm \in LineMgmt /\ wp \in Pointer /\ gc_wp \in Pointer
  BY TypeParts DEF IInv
<1>2. /\ pc = "idle" /\ victim_line = NULL /\ gc_pos = 0 /\ NULL \notin Lines
      /\ wp' = wp /\ gc_wp' = gc_wp /\ pc' = pc /\ victim_line' = victim_line
      /\ gc_pos' = gc_pos /\ write_credits' = write_credits
      /\ credits_to_refill' = credits_to_refill
  BY TokenAssumption DEF DiscardPage, IInv, Control, flowvars, gcvars
<1>3. /\ old \in Pages /\ old[1] \in Lines /\ old[2] \in Offs
      /\ old = <<old[1], old[2]>> /\ status[old] = "PG_VALID" /\ old # UNMAPPED
  <2>1. old # UNMAPPED
    BY DEF DiscardPage
  <2>2. old \in Pages /\ status[old] = "PG_VALID"
    BY <1>1, <2>1 DEF IInv, Owned, MapTable
  <2> QED
    BY <2>1, <2>2, PageParts
<1>4. /\ lm' = mark_page_invalid(lm, old[1])
      /\ status' = Remark(status, old[1], old[2], "PG_INVALID")
  BY <1>3 DEF DiscardPage, Remark
<1>5. /\ lm' \in LineMgmt /\ status' \in PageTable
      /\ LineInv(lm', status', wp, gc_wp, victim_line, TodoAt(gc_pos))
  <2>1. LineInv(lm, status, wp, gc_wp, victim_line, TodoAt(gc_pos))
    BY DEF IInv
  <2>2. status[<<old[1], old[2]>>] = "PG_VALID" /\ old[1] # victim_line
    BY <1>2, <1>3
  <2> HIDE DEF old
  <2> QED
    BY <1>1, <1>3, <1>4, <2>1, <2>2, InvalidateKeepsLineInv
<1>6. /\ maptbl' \in MapTable /\ rmap' \in ReverseMap
      /\ Owned(maptbl', rmap', status', victim_line, TodoAt(gc_pos))
      /\ NoOrphans(maptbl', rmap', status', victim_line, TodoAt(gc_pos))
  <2>1. /\ maptbl' = [maptbl EXCEPT ![lpn] = UNMAPPED]
        /\ rmap' = [rmap EXCEPT ![maptbl[lpn]] = INVALID_LPN]
        /\ status' = [status EXCEPT ![maptbl[lpn]] = "PG_INVALID"]
    BY DEF DiscardPage
  <2>2. /\ Owned(maptbl, rmap, status, victim_line, TodoAt(gc_pos))
        /\ NoOrphans(maptbl, rmap, status, victim_line, TodoAt(gc_pos))
    BY <1>2 DEF IInv
  <2>3. maptbl[lpn] # UNMAPPED
    BY <1>3
  <2> QED
    BY <1>1, <2>1, <2>2, <2>3, UnmapPage
<1>7. TypeOK'
  BY <1>1, <1>2, <1>5, <1>6, TypeParts, TypePartsNext DEF IInv
<1> HIDE DEF old
<1> QED
  BY <1>2, <1>5, <1>6, <1>7 DEF IInv, Control, CreditsInRange, Erased

\* A write keeps the invariant: the old page is unmapped first, the write
\* pointer then has a free page for the new one.
LEMMA WriteIInv ==
    ASSUME IInv, NEW lpn \in LPN, WritePage(lpn)
    PROVE  IInv'
<1> DEFINE old == maptbl[lpn]
           new == NewPage(wp)
           overwrite == old # UNMAPPED
           m1  == IF overwrite THEN mark_page_invalid(lm, old[1]) ELSE lm
           rm1 == IF overwrite THEN [rmap EXCEPT ![old] = INVALID_LPN] ELSE rmap
           st1 == IF overwrite THEN [status EXCEPT ![old] = "PG_INVALID"] ELSE status
           mt1 == [maptbl EXCEPT ![lpn] = UNMAPPED]
           adv == advance_write_pointer(mark_page_valid(m1, new[1]), wp)
           credits == consume_write_credit(write_credits)
<1>1. /\ maptbl \in MapTable /\ rmap \in ReverseMap /\ status \in PageTable
      /\ lm \in LineMgmt /\ wp \in Pointer /\ gc_wp \in Pointer
  BY TypeParts DEF IInv
<1>2. /\ pc = "idle" /\ victim_line = NULL /\ gc_pos = 0 /\ NULL \notin Lines
      /\ wp.line \in Lines /\ gc_wp.line \in Lines
      /\ gc_wp' = gc_wp /\ victim_line' = victim_line /\ gc_pos' = gc_pos
      /\ credits_to_refill' = credits_to_refill
  BY TokenAssumption DEF WritePage, IInv, Control, gcvars
<1>3. /\ LineInv(lm, status, wp, gc_wp, victim_line, TodoAt(gc_pos))
      /\ Owned(maptbl, rmap, status, victim_line, TodoAt(gc_pos))
      /\ NoOrphans(maptbl, rmap, status, victim_line, TodoAt(gc_pos))
  BY <1>2 DEF IInv
<1>4. /\ maptbl' = [maptbl EXCEPT ![lpn] = new]
      /\ rmap' = [rm1 EXCEPT ![new] = lpn]
      /\ status' = [st1 EXCEPT ![new] = "PG_VALID"]
      /\ lm' = adv.lm
      /\ wp' = adv.wp
      /\ IF adv.wp.line = NULL
         THEN pc' = "oops" /\ write_credits' = write_credits
         ELSE /\ write_credits' = credits
              /\ pc' = IF credits = 0 THEN "check" ELSE "idle"
  BY DEF WritePage
<1>5. new = <<wp.line, wp.off>> /\ new \in Pages /\ new[1] = wp.line
  BY <1>1, <1>2 DEF NewPage, Pages, Pointer
<1>6. mt1 \in MapTable /\ mt1[lpn] = UNMAPPED /\ maptbl' = [mt1 EXCEPT ![lpn] = new]
  BY <1>1, <1>4 DEF MapTable
<1>7. /\ m1 \in LineMgmt /\ st1 \in PageTable /\ rm1 \in ReverseMap
      /\ LineInv(m1, st1, wp, gc_wp, victim_line, TodoAt(gc_pos))
      /\ Owned(mt1, rm1, st1, victim_line, TodoAt(gc_pos))
      /\ NoOrphans(mt1, rm1, st1, victim_line, TodoAt(gc_pos))
  <2>1. CASE overwrite
    <3>1. old \in Pages /\ status[old] = "PG_VALID"
      BY <1>1, <1>3, <2>1 DEF Owned, MapTable
    <3>2. old[1] \in Lines /\ old[2] \in Offs /\ old = <<old[1], old[2]>>
      BY <3>1, PageParts
    <3>3. /\ m1 = mark_page_invalid(lm, old[1])
          /\ st1 = Remark(status, old[1], old[2], "PG_INVALID")
      BY <2>1, <3>2 DEF Remark
    <3>4. status[<<old[1], old[2]>>] = "PG_VALID" /\ old[1] # victim_line
      BY <1>2, <3>1, <3>2
    <3>5. /\ m1 \in LineMgmt /\ st1 \in PageTable
          /\ LineInv(m1, st1, wp, gc_wp, victim_line, TodoAt(gc_pos))
      <4> HIDE DEF m1, st1, old
      <4> QED
        BY <1>1, <1>3, <3>2, <3>3, <3>4, InvalidateKeepsLineInv
    <3>6. /\ rm1 = [rmap EXCEPT ![maptbl[lpn]] = INVALID_LPN]
          /\ st1 = [status EXCEPT ![maptbl[lpn]] = "PG_INVALID"]
      BY <2>1
    <3>7. /\ rm1 \in ReverseMap
          /\ Owned(mt1, rm1, st1, victim_line, TodoAt(gc_pos))
          /\ NoOrphans(mt1, rm1, st1, victim_line, TodoAt(gc_pos))
      BY <1>1, <1>3, <2>1, <3>6, UnmapPage
    <3> QED
      BY <3>5, <3>7
  <2>2. CASE ~overwrite
    <3>1. m1 = lm /\ rm1 = rmap /\ st1 = status /\ mt1 = maptbl
      BY <1>1, <2>2 DEF MapTable
    <3> QED
      BY <1>1, <1>3, <3>1
  <2> QED
    BY <2>1, <2>2
<1> HIDE DEF m1, rm1, st1, mt1
<1>8. status' = Remark(st1, wp.line, wp.off, "PG_VALID")
  BY <1>4, <1>5 DEF Remark
<1>9. /\ lm' \in LineMgmt /\ wp' \in Pointer /\ status' \in PageTable
      /\ LineInv(lm', status', wp', gc_wp, victim_line, TodoAt(gc_pos))
      /\ wp'.line \in Lines \/ wp'.line = NULL
  <2>1. adv = advance_write_pointer(mark_page_valid(m1, wp.line), wp)
    BY <1>5
  <2>2. lm' = adv.lm /\ wp' = adv.wp
    BY <1>4
  <2> HIDE DEF adv
  <2>3. /\ adv.lm \in LineMgmt /\ adv.wp \in Pointer /\ status' \in PageTable
        /\ LineInv(adv.lm, status', adv.wp, gc_wp, victim_line, TodoAt(gc_pos))
        /\ adv.wp.line \in Lines \/ adv.wp.line = NULL
    BY <1>1, <1>2, <1>7, <1>8, <2>1, AdvanceKeepsLineInv
  <2> QED
    BY <2>2, <2>3
<1>10. st1[new] = "PG_FREE"
  <2>1. wp.off \in Offs /\ wp.off >= wp.off
    BY <1>1 DEF Pointer, Offs
  <2> QED
    BY <1>2, <1>5, <1>7, <2>1 DEF LineInv, PagesOf
<1>11. /\ maptbl' \in MapTable /\ rmap' \in ReverseMap
       /\ Owned(maptbl', rmap', status', victim_line, TodoAt(gc_pos))
       /\ NoOrphans(maptbl', rmap', status', victim_line, TodoAt(gc_pos))
  <2>1. new[1] # victim_line
    BY <1>2, <1>5
  <2>2. rmap' = [rm1 EXCEPT ![new] = lpn] /\ status' = [st1 EXCEPT ![new] = "PG_VALID"]
    BY <1>4
  <2> HIDE DEF new
  <2> QED
    BY <1>5, <1>6, <1>7, <1>10, <2>1, <2>2, MapPage
<1>12. /\ write_credits' \in 0 .. PgsPerLine
       /\ pc' \in {"idle", "check", "oops"}
       /\ pc' = "idle" => write_credits' \in 1 .. PgsPerLine
       /\ pc' = "check" => write_credits' = 0
       /\ pc' # "oops" => wp'.line \in Lines
  <2>1. write_credits \in 1 .. PgsPerLine /\ PgsPerLine \in Nat
    BY <1>2, SizeAssumption DEF IInv, CreditsInRange
  <2>2. credits = write_credits - 1
    BY <2>1 DEF consume_write_credit
  <2> HIDE DEF adv, credits
  <2> QED
    BY <1>4, <1>9, <2>1, <2>2
<1>13. TypeOK'
  <2>1. /\ credits_to_refill' \in 1 .. PgsPerLine /\ victim_line' \in Lines \cup {NULL}
        /\ gc_pos' \in 0 .. PgsPerLine
    BY <1>2, TypeParts DEF IInv
  <2>2. gc_wp' \in Pointer /\ pc' \in {"idle", "check", "gc", "oops"}
    BY <1>1, <1>2, <1>12
  <2> QED
    BY <1>9, <1>11, <1>12, <2>1, <2>2, TypePartsNext
<1>14. Control' /\ CreditsInRange' /\ Erased'
  BY <1>2, <1>12 DEF Control, CreditsInRange, Erased
<1> HIDE DEF new, old, adv, credits
<1> QED
  BY <1>2, <1>9, <1>11, <1>13, <1>14 DEF IInv

\* Credits come back without a collection.
LEMMA RefillIInv ==
    ASSUME IInv, RefillNoGc
    PROVE  IInv'
<1>1. /\ pc = "check" /\ pc' = "idle"
      /\ write_credits' = write_credits + credits_to_refill
      /\ maptbl' = maptbl /\ rmap' = rmap /\ status' = status /\ lm' = lm
      /\ wp' = wp /\ gc_wp' = gc_wp /\ credits_to_refill' = credits_to_refill
      /\ victim_line' = victim_line /\ gc_pos' = gc_pos
  BY DEF RefillNoGc, mapvars, gcvars
<1>2. write_credits' \in 1 .. PgsPerLine /\ credits_to_refill' \in 1 .. PgsPerLine
  BY <1>1, SizeAssumption DEF IInv, TypeOK, CreditsInRange
<1>3. TypeOK'
  <2>1. write_credits' \in 0 .. PgsPerLine
    BY <1>2, SizeAssumption
  <2> QED
    BY <1>1, <1>2, <2>1, TypeParts, TypePartsNext DEF IInv
<1>4. Control' /\ CreditsInRange' /\ Erased'
  BY <1>1, <1>2 DEF IInv, Control, CreditsInRange, Erased
<1> QED
  BY <1>1, <1>3, <1>4 DEF IInv

\* do_gc up to its loop.
LEMMA SelectIInv ==
    ASSUME IInv, SelectVictim
    PROVE  IInv'
<1>1. PICK v \in lm.victim_line_pq :
        /\ victim_line' = v
        /\ lm' = [lm EXCEPT !.victim_line_pq = @ \ {v}]
        /\ credits_to_refill' = VictimCredit(lm, v)
  BY DEF SelectVictim, SelectLine
<1>2. /\ pc = "check" /\ pc' = "gc" /\ gc_pos' = 0 /\ victim_line = NULL /\ gc_pos = 0
      /\ maptbl' = maptbl /\ rmap' = rmap /\ status' = status
      /\ wp' = wp /\ gc_wp' = gc_wp /\ write_credits' = write_credits
  BY DEF SelectVictim, SelectLine, mapvars, IInv, Control
<1>3. /\ maptbl \in MapTable /\ rmap \in ReverseMap /\ status \in PageTable
      /\ lm \in LineMgmt /\ wp \in Pointer /\ gc_wp \in Pointer
  BY TypeParts DEF IInv
<1>4. v \in lm.victim_line_pq /\ v \in Lines /\ NULL \notin Lines
  BY <1>3, TokenAssumption DEF LineMgmt
<1>5. LineInv(lm, status, wp, gc_wp, NULL, Offs)
  BY <1>2, Visits DEF IInv
<1>6. /\ lm' \in LineMgmt
      /\ LineInv(lm', status, wp, gc_wp, v, Offs)
  BY <1>1, <1>3, <1>4, <1>5, SelectKeepsLineInv
<1>7. credits_to_refill' \in 1 .. PgsPerLine
  <2>1. lm.ipc[v] >= 1 /\ lm.ipc[v] \in 0 .. PgsPerLine
    BY <1>3, <1>4, <1>5 DEF LineInv, Sums, LineMgmt
  <2> QED
    BY <1>1, <2>1, SizeAssumption DEF VictimCredit
<1>8. Owned(maptbl, rmap, status, v, Offs) /\ NoOrphans(maptbl, rmap, status, v, Offs)
  <2>1. Owned(maptbl, rmap, status, NULL, Offs) /\ NoOrphans(maptbl, rmap, status, NULL, Offs)
    BY <1>2, Visits DEF IInv
  <2>2. \A n \in LPN : maptbl[n] # UNMAPPED => maptbl[n][2] \in Offs
    BY <1>3, PageParts DEF MapTable
  <2>3. \A p \in Pages : p[2] \in Offs /\ p[1] \in Lines
    BY PageParts
  <2>4. Owned(maptbl, rmap, status, v, Offs)
    BY <2>1, <2>2 DEF Owned
  <2>5. NoOrphans(maptbl, rmap, status, v, Offs)
    BY <2>1, <2>3 DEF NoOrphans
  <2> QED
    BY <2>4, <2>5
<1>9. TypeOK'
  <2>1. gc_pos' \in 0 .. PgsPerLine
    BY <1>2, SizeAssumption
  <2>2. write_credits' \in 0 .. PgsPerLine
    BY <1>2, TypeParts DEF IInv
  <2> QED
    BY <1>1, <1>2, <1>3, <1>4, <1>6, <1>7, <2>1, <2>2, TypePartsNext
<1>10. Control' /\ CreditsInRange'
  BY <1>1, <1>2, <1>4 DEF IInv, Control, CreditsInRange
<1>11. Erased'
  BY <1>2, Visits DEF Erased, ErasedAt
<1> QED
  BY <1>1, <1>2, <1>6, <1>8, <1>9, <1>10, <1>11, Visits DEF IInv

\* The erasure at the end of a step of do_gc: a block is erased exactly when
\* no page of it is left to visit.
LEMMA EraseAfterKeeps ==
    ASSUME NEW m \in LineMgmt, NEW st \in PageTable, NEW w \in Pointer, NEW g \in Pointer,
           NEW mt \in MapTable, NEW rm \in ReverseMap,
           NEW i \in Offs, victim_line \in Lines,
           LineInv(m, st, w, g, victim_line, TodoAt(i + 1)),
           Owned(mt, rm, st, victim_line, TodoAt(i + 1)),
           NoOrphans(mt, rm, st, victim_line, TodoAt(i + 1)),
           ErasedAt(st, victim_line, i)
    PROVE  LET st2 == EraseAfter(st, i)
           IN  /\ st2 \in PageTable
               /\ LineInv(m, st2, w, g, victim_line, TodoAt(i + 1))
               /\ Owned(mt, rm, st2, victim_line, TodoAt(i + 1))
               /\ NoOrphans(mt, rm, st2, victim_line, TodoAt(i + 1))
               /\ ErasedAt(st2, victim_line, i + 1)
<1> DEFINE b == BlkOf[GcOrder[i]]
           todo == TodoAt(i + 1)
<1>1. todo \in SUBSET Offs
  BY DEF TodoAt
<1>2. TodoAt(i) = todo \cup {GcOrder[i]} /\ GcOrder[i] \in Offs
  BY Visits, OrderAssumption
<1>3. LastOfBlk(i) <=> \A k \in todo : BlkOf[k] # b
  <2>1. \A j \in Offs : j > i <=> j >= i + 1
    BY DEF Offs
  <2>2. \A j \in Offs : GcOrder[j] \in Offs
    BY OrderAssumption
  <2> QED
    BY <2>1, <2>2 DEF LastOfBlk, TodoAt
<1>4. CASE LastOfBlk(i)
  <2>1. EraseAfter(st, i) = mark_block_free(st, victim_line, b)
    BY <1>4 DEF EraseAfter
  <2>2. \A k \in todo : BlkOf[k] # b
    BY <1>3, <1>4
  <2> DEFINE st2 == mark_block_free(st, victim_line, b)
  <2>3. \A k \in Offs : st2[<<victim_line, k>>] =
            IF BlkOf[k] = b THEN "PG_FREE" ELSE st[<<victim_line, k>>]
    BY DEF mark_block_free, Pages
  <2> HIDE DEF b, todo, st2
  <2>4. st2 \in PageTable /\ LineInv(m, st2, w, g, victim_line, todo)
    BY <1>1, <2>2, EraseKeepsLineInv DEF todo, st2
  <2>5. Owned(mt, rm, st2, victim_line, todo) /\ NoOrphans(mt, rm, st2, victim_line, todo)
    BY <2>2, EraseKeepsMap DEF todo, st2
  <2>6. ErasedAt(st2, victim_line, i + 1)
    <3> SUFFICES ASSUME NEW k \in Offs, \A j \in todo : BlkOf[j] # BlkOf[k], BlkOf[k] # b
                 PROVE  st[<<victim_line, k>>] = "PG_FREE"
      BY <2>3 DEF ErasedAt, todo
    <3>1. \A j \in TodoAt(i) : BlkOf[j] # BlkOf[k]
      BY <1>2 DEF b
    <3> QED
      BY <3>1 DEF ErasedAt
  <2> QED
    BY <2>1, <2>4, <2>5, <2>6 DEF todo, st2
<1>5. CASE ~LastOfBlk(i)
  <2>1. EraseAfter(st, i) = st
    BY <1>5 DEF EraseAfter
  <2>2. PICK n \in todo : BlkOf[n] = b
    BY <1>3, <1>5
  <2> HIDE DEF todo
  <2>3. ErasedAt(st, victim_line, i + 1)
    <3> SUFFICES ASSUME NEW k \in Offs, \A j \in todo : BlkOf[j] # BlkOf[k]
                 PROVE  st[<<victim_line, k>>] = "PG_FREE"
      BY DEF ErasedAt, todo
    <3>1. \A j \in TodoAt(i) : BlkOf[j] # BlkOf[k]
      BY <1>2, <2>2
    <3> QED
      BY <3>1 DEF ErasedAt
  <2> QED
    BY <2>1, <2>3
<1> QED
  BY <1>4, <1>5

\* A page of the victim that is not valid is passed over.
LEMMA SkipIInv ==
    ASSUME IInv, GcSkipPage
    PROVE  IInv'
<1> DEFINE i == gc_pos
           k == GcOrder[i]
           v == victim_line
<1>1. /\ maptbl \in MapTable /\ rmap \in ReverseMap /\ status \in PageTable
      /\ lm \in LineMgmt /\ wp \in Pointer /\ gc_wp \in Pointer
  BY TypeParts DEF IInv
<1>2. /\ pc = "gc" /\ v \in Lines /\ maptbl' = maptbl /\ rmap' = rmap /\ lm' = lm
      /\ wp' = wp /\ gc_wp' = gc_wp /\ pc' = pc /\ victim_line' = v
      /\ write_credits' = write_credits /\ credits_to_refill' = credits_to_refill
      /\ gc_pos' = i + 1 /\ status' = EraseAfter(status, i)
  BY DEF GcSkipPage, IInv, Control, flowvars
<1>3. i \in Offs /\ i + 1 \in 0 .. PgsPerLine /\ k \in Offs
  <2>1. gc_pos \in 0 .. PgsPerLine /\ gc_pos < PgsPerLine /\ PgsPerLine \in Nat
    BY TypeParts, SizeAssumption DEF IInv, GcSkipPage
  <2>2. i \in Offs /\ i + 1 \in 0 .. PgsPerLine
    BY <2>1 DEF Offs
  <2> QED
    BY <2>2, OrderAssumption
<1>4. status[<<v, k>>] # "PG_VALID"
  BY DEF GcSkipPage, GcPage
<1>5. TodoAt(i + 1) = TodoAt(i) \ {k}
  BY <1>3, Visits
<1>6. LineInv(lm, status, wp, gc_wp, v, TodoAt(i + 1))
  BY <1>5, FewerToVisit DEF IInv
<1>7. /\ Owned(maptbl, rmap, status, v, TodoAt(i + 1))
      /\ NoOrphans(maptbl, rmap, status, v, TodoAt(i + 1))
  <2>1. Owned(maptbl, rmap, status, v, TodoAt(i)) /\ NoOrphans(maptbl, rmap, status, v, TodoAt(i))
    BY <1>2 DEF IInv
  <2> HIDE DEF k, v, i
  <2> QED
    BY <1>1, <1>2, <1>3, <1>4, <1>5, <2>1, SkipPage
<1>8. ErasedAt(status, v, i)
  BY <1>2 DEF IInv, Erased
<1>9. /\ status' \in PageTable
      /\ LineInv(lm, status', wp, gc_wp, v, TodoAt(i + 1))
      /\ Owned(maptbl, rmap, status', v, TodoAt(i + 1))
      /\ NoOrphans(maptbl, rmap, status', v, TodoAt(i + 1))
      /\ ErasedAt(status', v, i + 1)
  BY <1>1, <1>2, <1>3, <1>6, <1>7, <1>8, EraseAfterKeeps
<1>10. TypeOK'
  BY <1>1, <1>2, <1>3, <1>9, TypeParts, TypePartsNext DEF IInv
<1>11. Control' /\ CreditsInRange' /\ Erased'
  BY <1>2, <1>9 DEF IInv, Control, CreditsInRange, Erased
<1> QED
  BY <1>2, <1>9, <1>10, <1>11 DEF IInv

\* A valid page of the victim is moved to the GC line.
LEMMA CopyIInv ==
    ASSUME IInv, GcCopyPage
    PROVE  IInv'
<1> DEFINE i == gc_pos
           k == GcOrder[i]
           v == victim_line
           lpn == rmap[GcPage]
           new == NewPage(gc_wp)
           adv == advance_write_pointer(mark_page_valid(lm, new[1]), gc_wp)
           mt1 == [maptbl EXCEPT ![lpn] = UNMAPPED]
           st1 == [status EXCEPT ![new] = "PG_VALID"]
<1>1. /\ maptbl \in MapTable /\ rmap \in ReverseMap /\ status \in PageTable
      /\ lm \in LineMgmt /\ wp \in Pointer /\ gc_wp \in Pointer
  BY TypeParts DEF IInv
<1>2. /\ pc = "gc" /\ v \in Lines /\ wp.line \in Lines /\ gc_wp.line \in Lines
      /\ wp' = wp /\ victim_line' = v /\ write_credits' = write_credits
      /\ credits_to_refill' = credits_to_refill
  BY DEF GcCopyPage, IInv, Control, flowvars
<1>3. i \in Offs /\ i + 1 \in 0 .. PgsPerLine /\ i \in 0 .. PgsPerLine /\ k \in Offs
  <2>1. gc_pos \in 0 .. PgsPerLine /\ gc_pos < PgsPerLine /\ PgsPerLine \in Nat
    BY TypeParts, SizeAssumption DEF IInv, GcCopyPage
  <2>2. i \in Offs /\ i + 1 \in 0 .. PgsPerLine
    BY <2>1 DEF Offs
  <2> QED
    BY <2>1, <2>2, OrderAssumption
<1>4. /\ maptbl' = [maptbl EXCEPT ![lpn] = new]
      /\ rmap' = [rmap EXCEPT ![new] = lpn]
      /\ lm' = adv.lm /\ gc_wp' = adv.wp
      /\ IF adv.wp.line = NULL
         THEN pc' = "oops" /\ status' = st1 /\ gc_pos' = i
         ELSE status' = EraseAfter(st1, i) /\ gc_pos' = i + 1 /\ pc' = pc
  BY DEF GcCopyPage
<1>5. /\ status[<<v, k>>] = "PG_VALID" /\ lpn = rmap[<<v, k>>]
      /\ k \in TodoAt(i) /\ TodoAt(i + 1) = TodoAt(i) \ {k} /\ GcPage = <<v, k>>
  BY <1>3, Visits DEF GcCopyPage, GcPage
<1>6. /\ LineInv(lm, status, wp, gc_wp, v, TodoAt(i))
      /\ Owned(maptbl, rmap, status, v, TodoAt(i))
      /\ NoOrphans(maptbl, rmap, status, v, TodoAt(i))
      /\ ErasedAt(status, v, i)
  BY <1>2 DEF IInv, Erased
<1>7. /\ lpn \in LPN /\ maptbl[lpn] = <<v, k>> /\ mt1 \in MapTable
      /\ Owned(mt1, rmap, status, v, TodoAt(i + 1))
      /\ NoOrphans(mt1, rmap, status, v, TodoAt(i + 1))
  <2>1. mt1 = [maptbl EXCEPT ![rmap[<<v, k>>]] = UNMAPPED]
    BY <1>5
  <2> DEFINE n == rmap[<<v, k>>]
             todo == TodoAt(i)
  <2> HIDE DEF k, v, i, mt1, lpn, todo
  <2>2. /\ n \in LPN /\ maptbl[n] = <<v, k>>
        /\ [maptbl EXCEPT ![n] = UNMAPPED] \in MapTable
        /\ Owned([maptbl EXCEPT ![n] = UNMAPPED], rmap, status, v, todo \ {k})
        /\ NoOrphans([maptbl EXCEPT ![n] = UNMAPPED], rmap, status, v, todo \ {k})
    <3>1. /\ Owned(maptbl, rmap, status, v, todo) /\ NoOrphans(maptbl, rmap, status, v, todo)
          /\ k \in todo
      BY <1>5, <1>6 DEF todo
    <3> QED
      BY <1>1, <1>2, <1>3, <1>5, <3>1, VisitPage
  <2> HIDE DEF n
  <2> QED
    BY <1>5, <2>1, <2>2 DEF n, todo
<1>8. /\ new = <<gc_wp.line, gc_wp.off>> /\ new \in Pages /\ new[1] = gc_wp.line
      /\ new[1] # v /\ gc_wp.off \in Offs
  BY <1>1, <1>2, <1>6 DEF NewPage, Pages, Pointer, LineInv, Places
<1>9. status[new] = "PG_FREE"
  <2>1. gc_wp.off >= gc_wp.off
    BY <1>8 DEF Offs
  <2> QED
    BY <1>2, <1>6, <1>8, <2>1 DEF LineInv, PagesOf
<1>10. mt1[lpn] = UNMAPPED /\ maptbl' = [mt1 EXCEPT ![lpn] = new]
  BY <1>1, <1>4, <1>7 DEF MapTable
<1>11. st1 = Remark(status, gc_wp.line, gc_wp.off, "PG_VALID")
  BY <1>8 DEF Remark
<1> HIDE DEF mt1, st1, lpn
<1>12. /\ maptbl' \in MapTable /\ rmap' \in ReverseMap
       /\ Owned(maptbl', rmap', st1, v, TodoAt(i + 1))
       /\ NoOrphans(maptbl', rmap', st1, v, TodoAt(i + 1))
  <2>1. rmap' = [rmap EXCEPT ![new] = lpn] /\ st1 = [status EXCEPT ![new] = "PG_VALID"]
    BY <1>4 DEF st1
  <2> HIDE DEF new, v, i
  <2> QED
    BY <1>1, <1>7, <1>8, <1>9, <1>10, <2>1, MapPage
<1>13. /\ lm' \in LineMgmt /\ gc_wp' \in Pointer /\ st1 \in PageTable
       /\ LineInv(lm', st1, wp, gc_wp', v, TodoAt(i))
       /\ gc_wp'.line \in Lines \/ gc_wp'.line = NULL
  <2>1. adv = advance_write_pointer(mark_page_valid(lm, gc_wp.line), gc_wp)
    BY <1>8
  <2>2. lm' = adv.lm /\ gc_wp' = adv.wp
    BY <1>4
  <2>3. LineInv(lm, status, gc_wp, wp, v, TodoAt(i))
    BY <1>6, Symmetric
  <2> HIDE DEF adv
  <2>4. /\ adv.lm \in LineMgmt /\ adv.wp \in Pointer /\ st1 \in PageTable
        /\ LineInv(adv.lm, st1, adv.wp, wp, v, TodoAt(i))
        /\ adv.wp.line \in Lines \/ adv.wp.line = NULL
    BY <1>1, <1>2, <1>11, <2>1, <2>3, AdvanceKeepsLineInv
  <2> QED
    BY <2>2, <2>4, Symmetric
<1>14. ErasedAt(st1, v, i)
  <2>1. \A n \in Offs : st1[<<v, n>>] = status[<<v, n>>]
    BY <1>1, <1>2, <1>8 DEF st1, PageTable, Pages
  <2> QED
    BY <1>6, <2>1 DEF ErasedAt
<1>15. CASE gc_wp'.line = NULL
  <2>1. pc' = "oops" /\ status' = st1 /\ gc_pos' = i
    BY <1>4, <1>15
  <2>2. TypeOK'
    BY <1>1, <1>2, <1>3, <1>12, <1>13, <2>1, TypeParts, TypePartsNext DEF IInv
  <2>3. Owned(maptbl', rmap', status', v, TodoAt(i))
    BY <1>5, <1>12, <2>1 DEF Owned
  <2>4. Control' /\ CreditsInRange' /\ Erased'
    BY <2>1 DEF Control, CreditsInRange, Erased
  <2> QED
    BY <1>2, <1>13, <2>1, <2>2, <2>3, <2>4 DEF IInv
<1>16. CASE gc_wp'.line # NULL
  <2>1. status' = EraseAfter(st1, i) /\ gc_pos' = i + 1 /\ pc' = pc
    BY <1>4, <1>16
  <2>2. LineInv(lm', st1, wp, gc_wp', v, TodoAt(i + 1))
    BY <1>5, <1>13, FewerToVisit
  <2>3. /\ status' \in PageTable
        /\ LineInv(lm', status', wp, gc_wp', v, TodoAt(i + 1))
        /\ Owned(maptbl', rmap', status', v, TodoAt(i + 1))
        /\ NoOrphans(maptbl', rmap', status', v, TodoAt(i + 1))
        /\ ErasedAt(status', v, i + 1)
    BY <1>1, <1>2, <1>3, <1>12, <1>13, <1>14, <2>1, <2>2, EraseAfterKeeps
  <2>4. TypeOK'
    BY <1>1, <1>2, <1>3, <1>12, <1>13, <2>1, <2>3, TypeParts, TypePartsNext DEF IInv
  <2>5. Control' /\ CreditsInRange' /\ Erased'
    BY <1>2, <1>13, <1>16, <2>1, <2>3 DEF IInv, Control, CreditsInRange, Erased
  <2> QED
    BY <1>2, <2>1, <2>3, <2>4, <2>5 DEF IInv
<1> QED
  BY <1>15, <1>16

\* The end of do_gc: every page of the victim has been erased.
LEMMA DoneIInv ==
    ASSUME IInv, GcDone
    PROVE  IInv'
<1> DEFINE v == victim_line
<1>1. /\ maptbl \in MapTable /\ rmap \in ReverseMap /\ status \in PageTable
      /\ lm \in LineMgmt /\ wp \in Pointer /\ gc_wp \in Pointer
  BY TypeParts DEF IInv
<1>2. /\ pc = "gc" /\ v \in Lines /\ gc_pos = P /\ lm' = mark_line_free(lm, v)
      /\ write_credits' = write_credits + credits_to_refill
      /\ pc' = "idle" /\ victim_line' = NULL /\ gc_pos' = 0
      /\ maptbl' = maptbl /\ rmap' = rmap /\ status' = status
      /\ wp' = wp /\ gc_wp' = gc_wp /\ credits_to_refill' = credits_to_refill
      /\ wp.line \in Lines /\ gc_wp.line \in Lines /\ NULL \notin Lines
  BY TokenAssumption DEF GcDone, IInv, Control, mapvars, P
<1>3. /\ LineInv(lm, status, wp, gc_wp, v, {})
      /\ Owned(maptbl, rmap, status, v, {})
      /\ NoOrphans(maptbl, rmap, status, v, {})
      /\ ErasedAt(status, v, P)
  BY <1>2, Visits DEF IInv, Erased
<1>4. \A k \in Offs : status[<<v, k>>] = "PG_FREE"
  BY <1>3, Visits DEF ErasedAt
<1>5. /\ lm' \in LineMgmt
      /\ LineInv(lm', status, wp, gc_wp, NULL, TodoAt(0))
  BY <1>1, <1>2, <1>3, <1>4, FreeKeepsLineInv
<1>6. /\ Owned(maptbl, rmap, status, NULL, TodoAt(0))
      /\ NoOrphans(maptbl, rmap, status, NULL, TodoAt(0))
  <2>1. \A n \in LPN : maptbl[n] # UNMAPPED => maptbl[n][1] # NULL
    BY <1>1, <1>2, PageParts DEF MapTable
  <2>2. Owned(maptbl, rmap, status, NULL, TodoAt(0))
    BY <1>3, <2>1 DEF Owned
  <2>3. \A p \in Pages : status[p] = "PG_VALID" => p[1] # v
    BY <1>4, PageParts
  <2>4. NoOrphans(maptbl, rmap, status, NULL, TodoAt(0))
    BY <1>3, <2>3 DEF NoOrphans
  <2> QED
    BY <2>2, <2>4
<1>7. write_credits' \in 1 .. PgsPerLine /\ credits_to_refill \in 1 .. PgsPerLine
  BY <1>2, SizeAssumption DEF IInv, TypeOK, CreditsInRange
<1>8. TypeOK'
  <2>1. write_credits' \in 0 .. PgsPerLine /\ gc_pos' \in 0 .. PgsPerLine
    BY <1>2, <1>7, SizeAssumption
  <2> QED
    BY <1>1, <1>2, <1>5, <1>7, <2>1, TypePartsNext
<1>9. Control' /\ CreditsInRange' /\ Erased'
  BY <1>2, <1>7 DEF Control, CreditsInRange, Erased
<1> QED
  BY <1>2, <1>5, <1>6, <1>8, <1>9 DEF IInv

\* Every step keeps the invariant.
LEMMA NextIInv == IInv /\ [Next]_vars => IInv'
<1> SUFFICES ASSUME IInv, [Next]_vars
             PROVE  IInv'
  OBVIOUS
<1>1. CASE \E lpn \in LPN : WritePage(lpn) \/ DiscardPage(lpn)
  BY <1>1, WriteIInv, DiscardIInv
<1>2. CASE RefillNoGc
  BY <1>2, RefillIInv
<1>3. CASE GcStep
  BY <1>3, SelectIInv, SkipIInv, CopyIInv, DoneIInv DEF GcStep
<1>4. CASE UNCHANGED vars
  <2>1. /\ maptbl' = maptbl /\ rmap' = rmap /\ status' = status /\ lm' = lm
        /\ wp' = wp /\ gc_wp' = gc_wp /\ write_credits' = write_credits
        /\ credits_to_refill' = credits_to_refill /\ pc' = pc
        /\ victim_line' = victim_line /\ gc_pos' = gc_pos
    BY <1>4 DEF vars
  <2>2. TypeOK'
    BY <2>1, TypeParts, TypePartsNext DEF IInv
  <2> QED
    BY <2>1, <2>2 DEF IInv, Control, CreditsInRange, Erased
<1> QED
  BY <1>1, <1>2, <1>3, <1>4 DEF Next, InternalStep

-----------------------------------------------------------------------------
(* What follows from the invariant. *)

\* The inductive invariant holds in every reachable state of every geometry.
THEOREM Invariance == Spec => []IInv
  BY InitIInv, NextIInv, PTL DEF Spec

\* TypeOK: the tables and counters of conv_ftl stay in their ranges, vpc and
\* ipc between 0 and pgs_per_line, the credits at most a line's worth.
THEOREM TypeCorrect == Spec => []TypeOK
<1>1. IInv => TypeOK
  BY DEF IInv
<1> QED
  BY Invariance, <1>1, PTL

\* MappingSound: no write, discard or collection, whatever its order, leaves
\* a logical page mapped to a page that is not valid or not its own.
THEOREM MappingIsSound == Spec => []MappingSound
<1>1. IInv => MappingSound
  BY DEF IInv, Owned, MappingSound, Mapped
<1> QED
  BY Invariance, <1>1, PTL

\* NoOrphanPage: every valid page outside the part of the victim already
\* copied is the current page of its owner.
THEOREM NoPageIsOrphan == Spec => []NoOrphanPage
<1>1. IInv => NoOrphanPage
  <2> SUFFICES ASSUME IInv, pc # "oops", NEW p \in Pages, status[p] = "PG_VALID",
                      p[1] = victim_line => ToVisit(p[2])
               PROVE  rmap[p] \in LPN /\ maptbl[rmap[p]] = p
    BY DEF NoOrphanPage
  <2>1. p[1] = victim_line => p[2] \in TodoAt(gc_pos)
    BY PageParts DEF ToVisit, TodoAt
  <2> QED
    BY <2>1 DEF IInv, NoOrphans
<1> QED
  BY Invariance, <1>1, PTL

\* LineCounts: the counters of a line are the numbers of its pages.
THEOREM CountsAreExact == Spec => []LineCounts
<1>1. IInv => LineCounts
  BY DEF IInv, LineInv, Counts, LineCounts, Marked, MarkedIn
<1> QED
  BY Invariance, <1>1, PTL

\* LinePlaces: no line is lost, and none is in two places.
THEOREM LinesHaveOnePlace == Spec => []LinePlaces
<1>1. IInv => LinePlaces
  BY DEF IInv, LineInv, Places, LinePlaces, NoDup, FreeLines
<1> QED
  BY Invariance, <1>1, PTL

\* LinePages: the place of a line says what its pages are.
THEOREM PagesFollowPlaces == Spec => []LinePages
<1>1. IInv => LinePages
  <2> SUFFICES ASSUME IInv, NEW l \in Lines, NEW k \in Offs
               PROVE  LET st == status[<<l, k>>]
                      IN  /\ l \in FreeLines => st = "PG_FREE"
                          /\ l \in lm.full_line_list => st = "PG_VALID"
                          /\ l \in lm.victim_line_pq => st # "PG_FREE" /\ lm.ipc[l] >= 1
                          /\ l = wp.line => (st = "PG_FREE" <=> k >= wp.off)
                          /\ l = gc_wp.line => (st = "PG_FREE" <=> k >= gc_wp.off)
                          /\ l = victim_line /\ ToVisit(k) => st # "PG_FREE"
    BY DEF LinePages
  <2>1. ToVisit(k) => k \in TodoAt(gc_pos)
    BY DEF ToVisit, TodoAt
  <2>2. l \in lm.victim_line_pq => lm.ipc[l] >= 1
    BY DEF IInv, LineInv, Sums
  <2> QED
    BY <2>1, <2>2 DEF IInv, LineInv, PagesOf, FreeLines
<1> QED
  BY Invariance, <1>1, PTL

\* CreditsInRange: write_credits is never decremented at zero.
THEOREM CreditsStayInRange == Spec => []CreditsInRange
<1>1. IInv => CreditsInRange
  BY DEF IInv
<1> QED
  BY Invariance, <1>1, PTL

\* The pages under the two write pointers are free pages of the model.
LEMMA NextPagesFree ==
    ASSUME IInv, pc # "oops"
    PROVE  /\ NewPage(wp) \in Pages /\ status[NewPage(wp)] = "PG_FREE"
           /\ NewPage(gc_wp) \in Pages /\ status[NewPage(gc_wp)] = "PG_FREE"
           /\ NewPage(gc_wp)[1] # victim_line
<1>1. /\ wp \in Pointer /\ gc_wp \in Pointer /\ wp.line \in Lines /\ gc_wp.line \in Lines
      /\ LineInv(lm, status, wp, gc_wp, victim_line, TodoAt(gc_pos))
  BY TypeParts DEF IInv, Control
<1>2. /\ wp.off \in Offs /\ gc_wp.off \in Offs
      /\ wp.off >= wp.off /\ gc_wp.off >= gc_wp.off
  BY <1>1 DEF Pointer, Offs
<1> QED
  BY <1>1, <1>2 DEF LineInv, PagesOf, Places, NewPage, Pages

\* AssertionsHold: no NVMEV_ASSERT on the write and collection paths fires.
THEOREM NoAssertionFires == Spec => []AssertionsHold
<1>1. IInv => AssertionsHold
  <2> SUFFICES ASSUME IInv PROVE AssertionsHold
    OBVIOUS
  <2>1. pc # "oops" => status[NewPage(wp)] = "PG_FREE" /\ status[NewPage(gc_wp)] = "PG_FREE"
    BY NextPagesFree
  <2>2. ASSUME pc = "idle", NEW lpn \in Mapped
        PROVE  lm.ipc[maptbl[lpn][1]] < PgsPerLine /\ lm.vpc[maptbl[lpn][1]] > 0
    <3> DEFINE p == maptbl[lpn]
    <3>1. /\ status \in PageTable /\ lm \in LineMgmt /\ wp \in Pointer /\ gc_wp \in Pointer
          /\ LineInv(lm, status, wp, gc_wp, victim_line, TodoAt(gc_pos))
          /\ victim_line = NULL /\ NULL \notin Lines
      BY <2>2, TypeParts, TokenAssumption DEF IInv, Control
    <3>2. p \in Pages /\ status[p] = "PG_VALID"
      BY DEF IInv, TypeOK, Owned, Mapped
    <3>3. /\ p[1] \in Lines /\ p[2] \in Offs /\ status[<<p[1], p[2]>>] = "PG_VALID"
          /\ p[1] # victim_line
      BY <3>1, <3>2, PageParts
    <3> HIDE DEF p
    <3> QED
      BY <3>1, <3>3, CountsOfValid DEF P, p
  <2>3. ASSUME pc = "gc", gc_pos < PgsPerLine
        PROVE  /\ status[GcPage] # "PG_FREE"
               /\ status[GcPage] = "PG_VALID" => rmap[GcPage] \in LPN
    <3>1. gc_pos \in Offs
      BY <2>3, SizeAssumption DEF IInv, TypeOK, Offs
    <3>2. GcOrder[gc_pos] \in Offs /\ GcOrder[gc_pos] \in TodoAt(gc_pos) /\ victim_line \in Lines
      BY <2>3, <3>1, Visits, OrderAssumption DEF IInv, Control
    <3>3. GcPage \in Pages /\ GcPage[1] = victim_line /\ GcPage[2] = GcOrder[gc_pos]
      BY <3>2 DEF GcPage, Pages
    <3>4. status[GcPage] # "PG_FREE"
      BY <3>2 DEF IInv, LineInv, PagesOf, GcPage
    <3>5. status[GcPage] = "PG_VALID" => rmap[GcPage] \in LPN
      BY <2>3, <3>2, <3>3 DEF IInv, NoOrphans
    <3> QED
      BY <3>4, <3>5
  <2> QED
    BY <2>1, <2>2, <2>3 DEF AssertionsHold
<1> QED
  BY Invariance, <1>1, PTL

\* What a copy of do_gc does to the map: one logical page, whose page was in
\* the victim, goes to the free page under the GC pointer.
LEMMA CopyMoves ==
    ASSUME IInv, GcCopyPage
    PROVE  /\ rmap[GcPage] \in LPN
           /\ maptbl[rmap[GcPage]] = GcPage
           /\ GcPage[1] = victim_line
           /\ GcPage \in Pages
           /\ \A n \in LPN : maptbl'[n] =
                IF n = rmap[GcPage] THEN NewPage(gc_wp) ELSE maptbl[n]
           /\ status'[NewPage(gc_wp)] = "PG_VALID"
<1>1. /\ maptbl \in MapTable /\ status \in PageTable
      /\ NoOrphans(maptbl, rmap, status, victim_line, TodoAt(gc_pos))
      /\ victim_line \in Lines /\ gc_pos \in Offs /\ status[GcPage] = "PG_VALID"
      /\ pc # "oops"
  BY SizeAssumption, TypeParts DEF IInv, Control, GcCopyPage, Offs
<1>2. GcOrder[gc_pos] \in Offs /\ GcOrder[gc_pos] \in TodoAt(gc_pos)
  BY <1>1, Visits, OrderAssumption
<1>3. GcPage \in Pages /\ GcPage[1] = victim_line /\ GcPage[2] = GcOrder[gc_pos]
  BY <1>1, <1>2 DEF GcPage, Pages
<1>4. rmap[GcPage] \in LPN /\ maptbl[rmap[GcPage]] = GcPage
  BY <1>1, <1>2, <1>3 DEF NoOrphans
<1>5. maptbl' = [maptbl EXCEPT ![rmap[GcPage]] = NewPage(gc_wp)]
  BY DEF GcCopyPage
<1>6. NewPage(gc_wp) \in Pages /\ NewPage(gc_wp)[1] # victim_line
  BY <1>1, NextPagesFree
<1> DEFINE st1 == [status EXCEPT ![NewPage(gc_wp)] = "PG_VALID"]
<1>7. st1[NewPage(gc_wp)] = "PG_VALID"
  BY <1>1, <1>6 DEF PageTable
<1>8. status' = st1 \/ status' = EraseAfter(st1, gc_pos)
  BY DEF GcCopyPage
<1> HIDE DEF st1
<1>9. status'[NewPage(gc_wp)] = "PG_VALID"
  BY <1>6, <1>7, <1>8 DEF EraseAfter, mark_block_free
<1> QED
  BY <1>1, <1>3, <1>4, <1>5, <1>9 DEF MapTable

\* OutOfPlace: whoever moves a logical page moves it to a free page.
THEOREM WritesAreOutOfPlace == Spec => OutOfPlace
<1> DEFINE A == \A lpn \in LPN :
                maptbl'[lpn] \notin {maptbl[lpn], UNMAPPED} =>
                    status[maptbl'[lpn]] = "PG_FREE" /\ status'[maptbl'[lpn]] = "PG_VALID"
<1>1. IInv /\ [Next]_vars => [A]_vars
  <2> SUFFICES ASSUME IInv, Next, NEW lpn \in LPN,
                      maptbl'[lpn] \notin {maptbl[lpn], UNMAPPED}
               PROVE  status[maptbl'[lpn]] = "PG_FREE" /\ status'[maptbl'[lpn]] = "PG_VALID"
    OBVIOUS
  <2>t. maptbl \in MapTable /\ status \in PageTable
    BY TypeParts DEF IInv
  <2>1. ASSUME NEW n \in LPN, WritePage(n)
        PROVE  status[maptbl'[lpn]] = "PG_FREE" /\ status'[maptbl'[lpn]] = "PG_VALID"
    <3> DEFINE new == NewPage(wp)
               st1 == IF maptbl[n] # UNMAPPED
                      THEN [status EXCEPT ![maptbl[n]] = "PG_INVALID"] ELSE status
    <3>1. maptbl' = [maptbl EXCEPT ![n] = new] /\ status' = [st1 EXCEPT ![new] = "PG_VALID"]
          /\ pc = "idle"
      BY <2>1 DEF WritePage
    <3>2. new \in Pages /\ status[new] = "PG_FREE"
      BY <3>1, NextPagesFree
    <3>3. DOMAIN st1 = Pages
      BY <2>t DEF PageTable
    <3>4. maptbl'[lpn] = new
      BY <2>t, <3>1 DEF MapTable
    <3> HIDE DEF st1, new
    <3> QED
      BY <3>1, <3>2, <3>3, <3>4
  <2>2. ASSUME NEW n \in LPN, DiscardPage(n)
        PROVE  FALSE
    BY <2>2, <2>t DEF DiscardPage, MapTable
  <2>3. ASSUME GcCopyPage
        PROVE  status[maptbl'[lpn]] = "PG_FREE" /\ status'[maptbl'[lpn]] = "PG_VALID"
    <3>1. pc # "oops"
      BY <2>3 DEF GcCopyPage
    <3> QED
      BY <2>3, <3>1, CopyMoves, NextPagesFree
  <2>4. ASSUME RefillNoGc \/ SelectVictim \/ GcSkipPage \/ GcDone
        PROVE  FALSE
    BY <2>4 DEF RefillNoGc, SelectVictim, SelectLine, GcSkipPage, GcDone, mapvars
  <2> QED
    BY <2>1, <2>2, <2>3, <2>4 DEF Next, InternalStep, GcStep
<1> QED
  BY Invariance, <1>1, PTL DEF Spec, OutOfPlace

\* GcInvisible: a collection moves pages of the victim and nothing else.
THEOREM CollectionIsInvisible == Spec => GcInvisible
<1> DEFINE A == pc # "idle" =>
                /\ Mapped' = Mapped
                /\ \A lpn \in Mapped : maptbl'[lpn] # maptbl[lpn] => maptbl[lpn][1] = victim_line
<1>1. IInv /\ [Next]_vars => [A]_vars
  <2> SUFFICES ASSUME IInv, Next, pc # "idle"
               PROVE  /\ Mapped' = Mapped
                      /\ \A lpn \in Mapped :
                            maptbl'[lpn] # maptbl[lpn] => maptbl[lpn][1] = victim_line
    OBVIOUS
  <2>1. ASSUME GcCopyPage
        PROVE  /\ Mapped' = Mapped
               /\ \A lpn \in Mapped :
                    maptbl'[lpn] # maptbl[lpn] => maptbl[lpn][1] = victim_line
    <3>1. NewPage(gc_wp) # UNMAPPED /\ GcPage # UNMAPPED
      BY <2>1, NextPagesFree, CopyMoves, TokenAssumption DEF GcCopyPage
    <3> QED
      BY <2>1, <3>1, CopyMoves DEF Mapped
  <2>2. CASE RefillNoGc \/ SelectVictim \/ GcSkipPage \/ GcDone
    <3>1. maptbl' = maptbl
      BY <2>2 DEF RefillNoGc, SelectVictim, SelectLine, GcSkipPage, GcDone, mapvars
    <3> QED
      BY <3>1 DEF Mapped
  <2>3. ASSUME NEW n \in LPN, WritePage(n) \/ DiscardPage(n)
        PROVE  FALSE
    BY <2>3 DEF WritePage, DiscardPage
  <2> QED
    BY <2>1, <2>2, <2>3 DEF Next, InternalStep, GcStep
<1> QED
  BY Invariance, <1>1, PTL DEF Spec, GcInvisible

-----------------------------------------------------------------------------
(***************************************************************************)
(* The lines last when the device is over-provisioned.                      *)
(*                                                                         *)
(* SpaceInv is the argument behind the write credits.  Between commands the *)
(* free pages exceed the credits of the host by two lines.  A collection of *)
(* a victim with i invalid and P - i valid pages takes P - i of them and    *)
(* gives P back, a gain of i, which is the refill.  That a victim exists    *)
(* when one is needed is a matter of counting: with none, the full lines    *)
(* alone hold more valid pages than there are logical ones.                 *)
(***************************************************************************)

ToCopySet == {k \in Offs : ToVisit(k) /\ status[<<victim_line, k>>] = "PG_VALID"}

SpaceInv ==
    /\ NeverOutOfLines
    /\ SpaceReserve
    /\ pc = "gc" => credits_to_refill = lm.ipc[victim_line]

-----------------------------------------------------------------------------
(* Arithmetic. *)

\* Types of the terms of Room.
LEMMA RoomTypes ==
    ASSUME IInv
    PROVE  /\ P \in Nat /\ P >= 1 /\ lm.free_line_cnt \in Nat
           /\ wp.off \in Nat /\ wp.off < P /\ gc_wp.off \in Nat /\ gc_wp.off < P
           /\ P * lm.free_line_cnt \in Nat
           /\ Room = (P - wp.off) + (P - gc_wp.off) + P * lm.free_line_cnt
           /\ Room \in Nat
<1>1. /\ P \in Nat /\ P >= 1 /\ lm.free_line_cnt \in Nat
      /\ wp.off \in Nat /\ wp.off < P /\ gc_wp.off \in Nat /\ gc_wp.off < P
  BY SizeAssumption, TypeParts DEF IInv, P, LineMgmt, Pointer, Offs
<1>2. P * lm.free_line_cnt \in Nat
  BY <1>1
<1>3. Room = (P - wp.off) + (P - gc_wp.off) + P * lm.free_line_cnt
  BY DEF Room, P
<1> QED
  BY <1>1, <1>2, <1>3

\* A line more, a line less.
LEMMA LineTimes ==
    ASSUME NEW c \in Nat
    PROVE  /\ P * (c + 1) = P * c + P
           /\ c >= 1 => P * (c - 1) = P * c - P
           /\ c >= 3 => P * c >= 3 * P
           /\ P * 0 = 0
<1>1. P \in Nat
  BY SizeAssumption DEF P
<1>2. P * (c + 1) = P * c + P
  BY <1>1
<1>3. P * (c - 1) = P * c - P
  BY <1>1
<1>4. ASSUME c >= 3 PROVE P * c >= 3 * P
  <2>1. c - 3 \in Nat /\ c = (c - 3) + 3
    BY <1>4
  <2>2. P * (c - 3) \in Nat
    BY <1>1, <2>1
  <2>3. P * ((c - 3) + 3) = P * (c - 3) + 3 * P
    BY <1>1, <2>1
  <2> QED
    BY <1>1, <2>1, <2>2, <2>3
<1> QED
  BY <1>1, <1>2, <1>3, <1>4

-----------------------------------------------------------------------------
(* A victim exists. *)

\* Without a victim every line is free, open or full of valid pages.
LEMMA FullLines ==
    ASSUME IInv, pc = "check", lm.victim_line_pq = {}
    PROVE  /\ IsFiniteSet(lm.full_line_list)
           /\ Cardinality(lm.full_line_list) \in Nat
           /\ Cardinality(lm.full_line_list) + lm.free_line_cnt + 2 >= TtLines
<1> DEFINE F == ListSet(lm.free_line_list)
           O == {wp.line, gc_wp.line}
           U == lm.full_line_list
<1>1. /\ lm \in LineMgmt /\ LineInv(lm, status, wp, gc_wp, NULL, TodoAt(gc_pos))
      /\ wp.line \in Lines /\ gc_wp.line \in Lines
  BY TypeParts DEF IInv, Control
<1>2. /\ IsFiniteSet(F) /\ Cardinality(F) = lm.free_line_cnt
  BY <1>1, ListCardinality DEF LineInv, Places, LineMgmt
<1>3. IsFiniteSet(O) /\ Cardinality(O) <= 2
  <2>1. IsFiniteSet({wp.line}) /\ Cardinality({wp.line}) = 1
    BY FS_Singleton
  <2>2. O = {wp.line} \cup {gc_wp.line}
    OBVIOUS
  <2> QED
    BY <2>1, <2>2, FS_AddElement
<1>4. U \in SUBSET Lines /\ IsFiniteSet(Lines)
  BY <1>1, SizeAssumption DEF LineMgmt
<1>5. IsFiniteSet(U) /\ Cardinality(U) \in Nat
  BY <1>4, FS_Subset, FS_CardinalityType
<1>6. Lines \subseteq (F \cup U) \cup O
  BY <1>1, TokenAssumption DEF LineInv, Places
<1> HIDE DEF F, O, U
<1>7. IsFiniteSet(F \cup U) /\ Cardinality(F \cup U) <= Cardinality(F) + Cardinality(U)
  <2>1. /\ IsFiniteSet(F \cup U)
        /\ Cardinality(F \cup U) = Cardinality(F) + Cardinality(U) - Cardinality(F \cap U)
    BY <1>2, <1>5, FS_Union
  <2>2. Cardinality(F \cap U) \in Nat
    BY <1>2, FS_Intersection, FS_CardinalityType
  <2>3. Cardinality(F) \in Nat
    BY <1>2, FS_CardinalityType
  <2> QED
    BY <1>5, <2>1, <2>2, <2>3
<1>8. /\ IsFiniteSet((F \cup U) \cup O)
      /\ Cardinality((F \cup U) \cup O) <= Cardinality(F \cup U) + Cardinality(O)
  <2>1. /\ IsFiniteSet((F \cup U) \cup O)
        /\ Cardinality((F \cup U) \cup O)
             = Cardinality(F \cup U) + Cardinality(O) - Cardinality((F \cup U) \cap O)
    BY <1>3, <1>7, FS_Union
  <2>2. Cardinality((F \cup U) \cap O) \in Nat
    BY <1>7, FS_Intersection, FS_CardinalityType
  <2>3. Cardinality(F \cup U) \in Nat /\ Cardinality(O) \in Nat
    BY <1>3, <1>7, FS_CardinalityType
  <2> QED
    BY <2>1, <2>2, <2>3
<1>9. TtLines <= Cardinality((F \cup U) \cup O) /\ TtLines \in Nat
  BY <1>4, <1>6, <1>8, FS_Subset, FS_CardinalityType DEF TtLines
<1>10. /\ Cardinality(F) \in Nat /\ Cardinality(O) \in Nat
       /\ Cardinality(F \cup U) \in Nat /\ Cardinality((F \cup U) \cup O) \in Nat
  BY <1>2, <1>3, <1>7, <1>8, FS_CardinalityType
<1>11. Cardinality(U) + lm.free_line_cnt + 2 >= TtLines
  BY <1>2, <1>3, <1>5, <1>7, <1>8, <1>9, <1>10
<1> QED
  BY <1>5, <1>11 DEF U

\* The pages of full lines are the current pages of as many logical ones.
LEMMA FullLinesFit ==
    ASSUME IInv, pc = "check"
    PROVE  Cardinality(lm.full_line_list) * P <= Cardinality(LPN)
<1> DEFINE U == lm.full_line_list
           S == U \X Offs
           f == [p \in S |-> rmap[p]]
<1>1. /\ U \in SUBSET Lines /\ victim_line = NULL /\ NULL \notin Lines
      /\ NoOrphans(maptbl, rmap, status, victim_line, TodoAt(gc_pos))
      /\ LineInv(lm, status, wp, gc_wp, victim_line, TodoAt(gc_pos))
  BY TypeParts, TokenAssumption DEF IInv, Control, LineMgmt
<1>2. ASSUME NEW p \in S PROVE rmap[p] \in LPN /\ maptbl[rmap[p]] = p
  <2>1. p \in Pages /\ p[1] \in U /\ p[1] \in Lines /\ p[2] \in Offs /\ p = <<p[1], p[2]>>
    BY <1>1 DEF Pages
  <2>2. status[p] = "PG_VALID"
    BY <1>1, <2>1 DEF LineInv, PagesOf
  <2> QED
    BY <1>1, <2>1, <2>2 DEF NoOrphans
<1>3. f \in Injection(S, LPN)
  BY <1>2 DEF Injection, IsInjective
<1>4. IsFiniteSet(U) /\ IsFiniteSet(Offs) /\ Cardinality(Offs) = P /\ IsFiniteSet(LPN)
  <2>1. IsFiniteSet(Offs) /\ Cardinality(Offs) = P
    BY SizeAssumption, FS_Interval DEF Offs, P
  <2>2. IsFiniteSet(Lines) /\ IsFiniteSet(LPN)
    BY SizeAssumption
  <2> HIDE DEF U
  <2>3. IsFiniteSet(U)
    BY <1>1, <2>2, FS_Subset
  <2> QED
    BY <2>1, <2>2, <2>3
<1>5. IsFiniteSet(S) /\ Cardinality(S) = Cardinality(U) * P
  BY <1>4, FS_Product
<1> HIDE DEF S, f
<1>6. Cardinality(S) <= Cardinality(LPN)
  BY <1>3, <1>4, <1>5, FS_Injection
<1> QED
  BY <1>5, <1>6

\* do_gc finds a victim whenever foreground_gc calls it.
LEMMA VictimExists ==
    ASSUME IInv, OverProvisioned, pc = "check", should_gc_high(lm)
    PROVE  lm.victim_line_pq # {}
<1> SUFFICES ASSUME lm.victim_line_pq = {} PROVE FALSE
  OBVIOUS
<1> DEFINE u == Cardinality(lm.full_line_list)
           d == TtLines - 2 - GcThres
<1>1. /\ u \in Nat /\ P \in Nat /\ TtLines \in Nat /\ GcThres \in Nat
      /\ lm.free_line_cnt \in Nat /\ Cardinality(LPN) \in Nat
  BY FullLines, RoomTypes, SizeAssumption, FS_CardinalityType DEF TtLines
<1>2. u + lm.free_line_cnt + 2 >= TtLines /\ lm.free_line_cnt <= GcThres
  BY FullLines DEF should_gc_high
<1>3. u * P <= Cardinality(LPN) /\ Cardinality(LPN) < d * P
  BY FullLinesFit DEF OverProvisioned, P
<1> HIDE DEF u
<1>4. u - d \in Nat /\ d \in Int
  BY <1>1, <1>2
<1> HIDE DEF d
<1>5. (u - d) * P \in Nat
  BY <1>1, <1>4
<1>6. u * P = (u - d) * P + d * P
  BY <1>1, <1>4
<1> QED
  BY <1>1, <1>3, <1>4, <1>5, <1>6

-----------------------------------------------------------------------------
(* SpaceInv is inductive relative to IInv. *)

\* The initial state: all pages are free.
LEMMA InitSpace == Init => SpaceInv
<1> SUFFICES ASSUME Init PROVE SpaceInv
  OBVIOUS
<1>1. /\ pc = "idle" /\ wp.off = 0 /\ gc_wp.off = 0 /\ write_credits = P
      /\ lm.free_line_cnt = TtLines - 2
  BY DEF Init, InitWith, P
<1>2. TtLines \in Nat /\ TtLines >= 3 /\ P \in Nat /\ P >= 1
  BY SizeAssumption, FS_CardinalityType DEF TtLines, P
<1>3. P * (TtLines - 2) >= P
  <2>1. TtLines - 3 \in Nat /\ TtLines - 2 = (TtLines - 3) + 1
    BY <1>2
  <2>2. P * (TtLines - 3) \in Nat /\ P * ((TtLines - 3) + 1) = P * (TtLines - 3) + P
    BY <1>2, <2>1, LineTimes
  <2> QED
    BY <1>2, <2>1, <2>2
<1>4. Room = P + P + P * (TtLines - 2)
  BY <1>1, <1>2 DEF Room, P
<1> HIDE DEF P
<1>5. P * (TtLines - 2) \in Int
  BY <1>2
<1>6. Room >= 2 * P + write_credits
  BY <1>1, <1>2, <1>3, <1>4, <1>5
<1> QED
  BY <1>1, <1>6 DEF SpaceInv, NeverOutOfLines, SpaceReserve, P

\* Free pages, of which x are those of the other write pointer.
Space(o, c, x) == (P - o) + x + P * c

\* Advancing a pointer takes one page of Room, and needs a free line only
\* when that pointer is on its last page and no line is free.
LEMMA RoomAfterAdvance ==
    ASSUME NEW c \in Nat, NEW c2 \in Nat, NEW o \in Nat, NEW o2 \in Nat, NEW x \in Int,
           \/ o2 = o + 1 /\ c2 = c
           \/ o + 1 = P /\ o2 = 0 /\ c >= 1 /\ c2 = c - 1
    PROVE  Space(o2, c2, x) = Space(o, c, x) - 1
<1>1. P \in Nat /\ P * c \in Nat /\ P * c2 \in Nat
  BY SizeAssumption DEF P
<1>2. CASE o2 = o + 1 /\ c2 = c
  BY <1>1, <1>2 DEF Space
<1>3. CASE o + 1 = P /\ o2 = 0 /\ c >= 1 /\ c2 = c - 1
  <2>1. P * c2 = P * c - P
    BY <1>3, LineTimes
  <2> QED
    BY <1>1, <1>3, <2>1 DEF Space
<1> QED
  BY <1>2, <1>3

\* A write takes one page and one credit.
LEMMA WriteSpace ==
    ASSUME IInv, IInv', SpaceInv, NEW lpn \in LPN, WritePage(lpn)
    PROVE  SpaceInv'
<1> DEFINE old == maptbl[lpn]
           new == NewPage(wp)
           m1  == IF old # UNMAPPED THEN mark_page_invalid(lm, old[1]) ELSE lm
           st1 == IF old # UNMAPPED THEN [status EXCEPT ![old] = "PG_INVALID"] ELSE status
           adv == advance_write_pointer(mark_page_valid(m1, new[1]), wp)
<1>1. /\ maptbl \in MapTable /\ status \in PageTable
      /\ lm \in LineMgmt /\ wp \in Pointer /\ gc_wp \in Pointer
      /\ pc = "idle" /\ victim_line = NULL /\ NULL \notin Lines /\ wp.line \in Lines
      /\ LineInv(lm, status, wp, gc_wp, victim_line, TodoAt(gc_pos))
      /\ write_credits \in 1 .. PgsPerLine
  BY TypeParts, TokenAssumption DEF IInv, Control, CreditsInRange, WritePage
<1>2. /\ lm' = adv.lm /\ wp' = adv.wp /\ gc_wp' = gc_wp
      /\ IF adv.wp.line = NULL THEN pc' = "oops"
         ELSE /\ write_credits' = consume_write_credit(write_credits)
              /\ pc' \in {"check", "idle"}
  BY DEF WritePage
<1>3. /\ m1 \in LineMgmt /\ st1 \in PageTable /\ m1.free_line_cnt = lm.free_line_cnt
      /\ LineInv(m1, st1, wp, gc_wp, victim_line, TodoAt(gc_pos))
  <2>1. CASE old # UNMAPPED
    <3>1. old \in Pages /\ status[old] = "PG_VALID"
      BY <1>1, <2>1 DEF IInv, Owned, MapTable
    <3>2. old[1] \in Lines /\ old[2] \in Offs /\ old = <<old[1], old[2]>>
      BY <3>1, PageParts
    <3>3. /\ m1 = mark_page_invalid(lm, old[1])
          /\ st1 = Remark(status, old[1], old[2], "PG_INVALID")
      BY <2>1, <3>2 DEF Remark
    <3>4. status[<<old[1], old[2]>>] = "PG_VALID" /\ old[1] # victim_line
      BY <1>1, <3>1, <3>2
    <3> HIDE DEF m1, st1, old
    <3> QED
      BY <1>1, <3>2, <3>3, <3>4, InvalidateKeepsLineInv
  <2>2. CASE old = UNMAPPED
    BY <1>1, <2>2
  <2> QED
    BY <2>1, <2>2
<1>4. adv = advance_write_pointer(mark_page_valid(m1, wp.line), wp)
  BY DEF NewPage
<1> HIDE DEF m1, st1, adv
<1>5. \/ /\ adv.wp.line \in Lines
         /\ adv.wp.off = wp.off + 1
         /\ adv.lm.free_line_cnt = m1.free_line_cnt
      \/ /\ adv.wp.line \in Lines
         /\ wp.off + 1 = P /\ adv.wp.off = 0
         /\ m1.free_line_cnt >= 1
         /\ adv.lm.free_line_cnt = m1.free_line_cnt - 1
      \/ /\ adv.wp.line = NULL
         /\ wp.off + 1 = P /\ adv.wp.off = 0
         /\ m1.free_line_cnt = 0
  BY <1>1, <1>3, <1>4, AdvanceKeepsLineInv
<1>6. Room >= 2 * P + write_credits
  BY <1>1 DEF SpaceInv, SpaceReserve, P
<1>t. /\ P \in Nat /\ P >= 1 /\ lm.free_line_cnt \in Nat
      /\ wp.off \in Nat /\ wp.off < P /\ gc_wp.off \in Nat /\ gc_wp.off < P
      /\ P * lm.free_line_cnt \in Nat
      /\ Room = (P - wp.off) + (P - gc_wp.off) + P * lm.free_line_cnt
      /\ write_credits \in Nat /\ write_credits >= 1 /\ P * 0 = 0
  BY <1>1, RoomTypes, LineTimes DEF P
<1>7. adv.wp.line # NULL
  <2> SUFFICES ASSUME adv.wp.line = NULL PROVE FALSE
    OBVIOUS
  <2>1. wp.off + 1 = P /\ lm.free_line_cnt = 0
    BY <1>1, <1>3, <1>5
  <2>2. P * lm.free_line_cnt = 0
    BY <2>1, <1>t
  <2> QED
    BY <1>6, <1>t, <2>1, <2>2
<1>8. write_credits' = write_credits - 1 /\ pc' \in {"check", "idle"}
  BY <1>2, <1>7, <1>t DEF consume_write_credit
<1>9. Room' = Room - 1
  <2>1. /\ wp'.off \in Nat /\ lm'.free_line_cnt \in Nat
        /\ Room' = (P - wp'.off) + (P - gc_wp'.off) + P * lm'.free_line_cnt
    <3>1. lm' \in LineMgmt /\ wp' \in Pointer
      BY TypePartsNext DEF IInv
    <3> QED
      BY <3>1 DEF LineMgmt, Pointer, Offs, Room, P
  <2>2. \/ wp'.off = wp.off + 1 /\ lm'.free_line_cnt = lm.free_line_cnt
        \/ /\ wp.off + 1 = P /\ wp'.off = 0 /\ lm.free_line_cnt >= 1
           /\ lm'.free_line_cnt = lm.free_line_cnt - 1
    BY <1>2, <1>3, <1>5, <1>7
  <2> DEFINE x == P - gc_wp.off
  <2>3. x \in Int
    BY <1>t
  <2> HIDE DEF x
  <2>4. Space(wp'.off, lm'.free_line_cnt, x) = Space(wp.off, lm.free_line_cnt, x) - 1
    <3>1. lm.free_line_cnt \in Nat /\ wp.off \in Nat
      BY <1>t
    <3>2. lm'.free_line_cnt \in Nat /\ wp'.off \in Nat
      BY <2>1
    <3> QED
      BY <2>2, <2>3, <3>1, <3>2, RoomAfterAdvance
  <2> QED
    BY <1>2, <1>t, <2>1, <2>4 DEF x, Space
<1>10. Room' >= 2 * P + write_credits'
  BY <1>6, <1>8, <1>9, <1>t
<1> QED
  BY <1>8, <1>10 DEF SpaceInv, NeverOutOfLines, SpaceReserve, P

\* A discard frees no page.
LEMMA DiscardSpace ==
    ASSUME IInv, SpaceInv, NEW lpn \in LPN, DiscardPage(lpn)
    PROVE  SpaceInv'
<1>1. /\ pc = "idle" /\ pc' = "idle" /\ wp' = wp /\ gc_wp' = gc_wp
      /\ write_credits' = write_credits
      /\ lm' = mark_page_invalid(lm, maptbl[lpn][1])
  BY DEF DiscardPage, flowvars
<1>2. lm'.free_line_cnt = lm.free_line_cnt
  <2>1. lm \in LineMgmt
    BY TypeParts DEF IInv
  <2> QED
    BY <1>1, <2>1 DEF mark_page_invalid, LineMgmt
<1>3. Room' = Room
  BY <1>1, <1>2 DEF Room
<1> QED
  BY <1>1, <1>3 DEF SpaceInv, NeverOutOfLines, SpaceReserve

\* More than GcThres >= 2 free lines: a full refill fits.
LEMMA RefillSpace ==
    ASSUME IInv, SpaceInv, RefillNoGc, ~should_gc_high(lm)
    PROVE  SpaceInv'
<1>1. /\ pc = "check" /\ pc' = "idle" /\ wp' = wp /\ gc_wp' = gc_wp /\ lm' = lm
      /\ write_credits' = write_credits + credits_to_refill
      /\ ~(lm.free_line_cnt <= GcThres)
  BY DEF RefillNoGc, should_gc_high
<1>2. /\ write_credits = 0 /\ credits_to_refill \in Nat /\ credits_to_refill <= P
  BY <1>1, SizeAssumption DEF IInv, TypeOK, CreditsInRange, P
<1>3. /\ P \in Nat /\ P >= 1 /\ lm.free_line_cnt \in Nat
      /\ wp.off \in Nat /\ wp.off < P /\ gc_wp.off \in Nat /\ gc_wp.off < P
      /\ P * lm.free_line_cnt \in Nat
      /\ Room = (P - wp.off) + (P - gc_wp.off) + P * lm.free_line_cnt
  BY RoomTypes
<1>4. lm.free_line_cnt >= 3
  BY <1>1, <1>3, SizeAssumption
<1>5. P * lm.free_line_cnt >= 3 * P
  BY <1>3, <1>4, LineTimes
<1>6. Room >= 2 * P + write_credits'
  BY <1>1, <1>2, <1>3, <1>5
<1>7. Room' = Room
  BY <1>1 DEF Room
<1> QED
  BY <1>1, <1>6, <1>7 DEF SpaceInv, NeverOutOfLines, SpaceReserve, P

\* The victim's pages are counted: as many to copy as it has valid ones.
LEMMA SelectSpace ==
    ASSUME IInv, SpaceInv, SelectVictim
    PROVE  SpaceInv'
<1>1. PICK v \in lm.victim_line_pq :
        /\ victim_line' = v
        /\ lm' = [lm EXCEPT !.victim_line_pq = @ \ {v}]
        /\ credits_to_refill' = VictimCredit(lm, v)
  BY DEF SelectVictim, SelectLine
<1>2. /\ pc = "check" /\ pc' = "gc" /\ gc_pos' = 0 /\ status' = status
      /\ wp' = wp /\ gc_wp' = gc_wp /\ victim_line = NULL /\ NULL \notin Lines
  BY TokenAssumption DEF SelectVictim, SelectLine, mapvars, IInv, Control
<1>3. /\ lm \in LineMgmt
      /\ LineInv(lm, status, wp, gc_wp, victim_line, TodoAt(gc_pos))
  BY TypeParts DEF IInv
<1>4. v \in lm.victim_line_pq /\ v \in Lines
  BY <1>3 DEF LineMgmt
<1>5. lm'.ipc = lm.ipc /\ lm'.free_line_cnt = lm.free_line_cnt
  BY <1>1, <1>3 DEF LineMgmt
<1>6. lm.vpc[v] + lm.ipc[v] = P /\ lm.vpc[v] = Cardinality(MarkedIn(status, v, "PG_VALID"))
  BY <1>2, <1>3, <1>4 DEF LineInv, Sums, Counts
<1>7. ToCopy' = lm.vpc[v]
  <2>1. {k \in Offs : ToVisit(k)' /\ status'[<<victim_line', k>>] = "PG_VALID"}
          = MarkedIn(status, v, "PG_VALID")
    <3>1. \A k \in Offs : ToVisit(k)'
      <4>1. \A k \in Offs : k \in TodoAt(0)
        BY Visits
      <4> QED
        BY <1>2, <4>1 DEF ToVisit, TodoAt
    <3> QED
      BY <1>1, <1>2, <3>1 DEF MarkedIn
  <2> QED
    BY <1>6, <2>1 DEF ToCopy
<1>8. Room >= 2 * P
  BY <1>2, RoomTypes DEF SpaceInv, SpaceReserve, IInv, CreditsInRange, P
<1>9. Room' = Room
  BY <1>2, <1>5 DEF Room
<1>10. Room' >= P + lm'.ipc[victim_line'] + ToCopy'
  <2>1. lm.vpc[v] \in Nat /\ lm.ipc[v] \in Nat /\ P \in Nat /\ Room \in Nat
    BY <1>3, <1>4, RoomTypes DEF LineMgmt
  <2> QED
    BY <1>1, <1>5, <1>6, <1>7, <1>8, <1>9, <2>1
<1> QED
  BY <1>1, <1>2, <1>5, <1>10 DEF SpaceInv, NeverOutOfLines, SpaceReserve, VictimCredit, P

\* The pages still to copy are finitely many.
LEMMA ToCopyFinite ==
    /\ IsFiniteSet(ToCopySet) /\ ToCopy = Cardinality(ToCopySet) /\ ToCopy \in Nat
    /\ IsFiniteSet(ToCopySet') /\ ToCopy' = Cardinality(ToCopySet') /\ ToCopy' \in Nat
<1>1. IsFiniteSet(Offs)
  BY SizeAssumption, FS_Interval DEF Offs
<1>2. ToCopySet \in SUBSET Offs /\ ToCopySet' \in SUBSET Offs
  BY DEF ToCopySet
<1>3. IsFiniteSet(ToCopySet) /\ IsFiniteSet(ToCopySet')
  BY <1>1, <1>2, FS_Subset
<1>4. ToCopy = Cardinality(ToCopySet) /\ ToCopy' = Cardinality(ToCopySet')
  BY DEF ToCopy, ToCopySet
<1> QED
  BY <1>3, <1>4, FS_CardinalityType

\* A page that is passed over need not be copied.
LEMMA SkipSpace ==
    ASSUME IInv, SpaceInv, GcSkipPage
    PROVE  SpaceInv'
<1>1. /\ pc = "gc" /\ pc' = pc /\ lm' = lm /\ wp' = wp /\ gc_wp' = gc_wp
      /\ victim_line' = victim_line /\ credits_to_refill' = credits_to_refill
      /\ gc_pos' = gc_pos + 1 /\ status' = EraseAfter(status, gc_pos)
      /\ gc_pos \in Nat /\ victim_line \in Lines
  BY SizeAssumption DEF GcSkipPage, flowvars, IInv, Control, TypeOK
<1>2. ToCopySet' \subseteq ToCopySet
  <2> SUFFICES ASSUME NEW k \in Offs, ToVisit(k)', status'[<<victim_line', k>>] = "PG_VALID"
               PROVE  ToVisit(k) /\ status[<<victim_line, k>>] = "PG_VALID"
    BY DEF ToCopySet
  <2>1. ToVisit(k)
    BY <1>1 DEF ToVisit, Offs
  <2>2. <<victim_line, k>> \in Pages
    BY <1>1 DEF Pages
  <2> QED
    BY <1>1, <2>1, <2>2 DEF EraseAfter, mark_block_free
<1>3. ToCopy' <= ToCopy
  <2>1. ToCopySet' \in SUBSET ToCopySet
    BY <1>2
  <2> QED
    BY <2>1, ToCopyFinite, FS_Subset
<1>4. Room' = Room
  BY <1>1 DEF Room
<1>5. /\ Room \in Nat /\ ToCopy \in Nat /\ ToCopy' \in Nat /\ P \in Nat
      /\ lm.ipc[victim_line] \in Nat
  BY <1>1, RoomTypes, ToCopyFinite, TypeParts DEF IInv, LineMgmt
<1>6. Room >= P + lm.ipc[victim_line] + ToCopy
  BY <1>1 DEF SpaceInv, SpaceReserve, P
<1>7. Room' >= P + lm'.ipc[victim_line'] + ToCopy'
  BY <1>1, <1>3, <1>4, <1>5, <1>6
<1> QED
  BY <1>1, <1>7 DEF SpaceInv, NeverOutOfLines, SpaceReserve, P

\* A copy takes one page, for one page to copy less.
LEMMA CopySpace ==
    ASSUME IInv, IInv', SpaceInv, GcCopyPage
    PROVE  SpaceInv'
<1> DEFINE new == NewPage(gc_wp)
           k == GcOrder[gc_pos]
           adv == advance_write_pointer(mark_page_valid(lm, new[1]), gc_wp)
           st1 == [status EXCEPT ![new] = "PG_VALID"]
<1>1. /\ lm \in LineMgmt /\ wp \in Pointer /\ gc_wp \in Pointer /\ status \in PageTable
      /\ pc = "gc" /\ gc_wp.line \in Lines /\ victim_line \in Lines /\ gc_pos \in Offs
      /\ LineInv(lm, status, gc_wp, wp, victim_line, TodoAt(gc_pos))
  BY TypeParts, SizeAssumption, Symmetric DEF IInv, Control, GcCopyPage, Offs
<1>2. /\ lm' = adv.lm /\ gc_wp' = adv.wp /\ wp' = wp /\ victim_line' = victim_line
      /\ credits_to_refill' = credits_to_refill
      /\ status[<<victim_line, k>>] = "PG_VALID"
      /\ adv.wp.line # NULL => /\ status' = EraseAfter(st1, gc_pos)
                               /\ gc_pos' = gc_pos + 1 /\ pc' = pc
  BY DEF GcCopyPage, flowvars, GcPage
<1>3. adv = advance_write_pointer(mark_page_valid(lm, gc_wp.line), gc_wp)
  BY DEF NewPage
<1> HIDE DEF adv
<1>4. \/ /\ adv.wp.line \in Lines
         /\ adv.wp.off = gc_wp.off + 1
         /\ adv.lm.free_line_cnt = lm.free_line_cnt
      \/ /\ adv.wp.line \in Lines
         /\ gc_wp.off + 1 = P /\ adv.wp.off = 0
         /\ lm.free_line_cnt >= 1
         /\ adv.lm.free_line_cnt = lm.free_line_cnt - 1
      \/ /\ adv.wp.line = NULL
         /\ gc_wp.off + 1 = P /\ adv.wp.off = 0
         /\ lm.free_line_cnt = 0
  BY <1>1, <1>3, AdvanceKeepsLineInv
<1>5. lm'.ipc = lm.ipc
  <2>1. /\ NoDup(lm.free_line_list) /\ lm.free_line_cnt = Len(lm.free_line_list)
        /\ lm.vpc[gc_wp.line] + lm.ipc[gc_wp.line] = gc_wp.off
    BY <1>1 DEF LineInv, Places, Sums
  <2>2. /\ lm.vpc[gc_wp.line] \in Nat /\ lm.ipc[gc_wp.line] \in Nat
        /\ gc_wp.off \in Nat /\ gc_wp.off < P
    BY <1>1, RoomTypes DEF LineMgmt
  <2>3. lm.vpc[gc_wp.line] < P
    <3>1. lm.vpc[gc_wp.line] <= gc_wp.off /\ P \in Nat
      BY <2>1, <2>2, SizeAssumption DEF P
    <3> QED
      BY <2>2, <3>1
  <2> QED
    BY <1>1, <1>2, <1>3, <2>1, <2>3, AdvanceKeepsIpc
<1>6. k \in Offs /\ k \in TodoAt(gc_pos) /\ TodoAt(gc_pos + 1) = TodoAt(gc_pos) \ {k}
  BY <1>1, Visits, OrderAssumption
<1>7. k \in ToCopySet /\ ToCopy >= 1
  <2>1. k \in ToCopySet
    BY <1>2, <1>6 DEF ToCopySet, ToVisit, TodoAt
  <2> QED
    BY <2>1, ToCopyFinite, FS_EmptySet
<1>8. lm.ipc[victim_line] >= 1 /\ lm.ipc[victim_line] \in Nat
  BY <1>1 DEF LineInv, Sums, LineMgmt
<1>9. Room >= P + lm.ipc[victim_line] + ToCopy
  BY <1>1 DEF SpaceInv, SpaceReserve, P
<1>t. /\ P \in Nat /\ P >= 1 /\ lm.free_line_cnt \in Nat
      /\ wp.off \in Nat /\ wp.off < P /\ gc_wp.off \in Nat /\ gc_wp.off < P
      /\ P * lm.free_line_cnt \in Nat /\ Room \in Nat
      /\ Room = (P - wp.off) + (P - gc_wp.off) + P * lm.free_line_cnt
      /\ P * 0 = 0 /\ ToCopy \in Nat /\ ToCopy' \in Nat
  BY RoomTypes, LineTimes, ToCopyFinite
<1>10. adv.wp.line # NULL
  <2> SUFFICES ASSUME adv.wp.line = NULL PROVE FALSE
    OBVIOUS
  <2>1. gc_wp.off + 1 = P /\ lm.free_line_cnt = 0
    BY <1>4, TokenAssumption
  <2>2. P * lm.free_line_cnt = 0
    BY <2>1, <1>t
  <2>3. Room <= P + 1
    BY <1>t, <2>1, <2>2
  <2>4. P + lm.ipc[victim_line] + ToCopy >= P + 2
    BY <1>7, <1>8, <1>t
  <2> QED
    BY <1>9, <1>t, <2>3, <2>4, <1>8
<1>11. Room' = Room - 1
  <2>1. /\ gc_wp'.off \in Nat /\ lm'.free_line_cnt \in Nat
        /\ Room' = (P - wp'.off) + (P - gc_wp'.off) + P * lm'.free_line_cnt
    <3>1. lm' \in LineMgmt /\ gc_wp' \in Pointer
      BY TypePartsNext DEF IInv
    <3> QED
      BY <3>1 DEF LineMgmt, Pointer, Offs, Room, P
  <2>2. \/ gc_wp'.off = gc_wp.off + 1 /\ lm'.free_line_cnt = lm.free_line_cnt
        \/ /\ gc_wp.off + 1 = P /\ gc_wp'.off = 0 /\ lm.free_line_cnt >= 1
           /\ lm'.free_line_cnt = lm.free_line_cnt - 1
    BY <1>2, <1>4, <1>10
  <2> DEFINE x == P - wp.off
  <2>3. x \in Int
    BY <1>t
  <2> HIDE DEF x
  <2>4. Space(gc_wp'.off, lm'.free_line_cnt, x) = Space(gc_wp.off, lm.free_line_cnt, x) - 1
    <3>1. lm.free_line_cnt \in Nat /\ gc_wp.off \in Nat
      BY <1>t
    <3>2. lm'.free_line_cnt \in Nat /\ gc_wp'.off \in Nat
      BY <2>1
    <3> QED
      BY <2>2, <2>3, <3>1, <3>2, RoomAfterAdvance
  <2>5. P * lm'.free_line_cnt \in Int
    BY <1>t, <2>1
  <2> QED
    BY <1>2, <1>t, <2>1, <2>3, <2>4, <2>5 DEF x, Space
<1>12. ToCopySet' \subseteq ToCopySet \ {k}
  <2> SUFFICES ASSUME NEW n \in Offs, ToVisit(n)', status'[<<victim_line', n>>] = "PG_VALID"
               PROVE  n # k /\ ToVisit(n) /\ status[<<victim_line, n>>] = "PG_VALID"
    BY DEF ToCopySet
  <2>1. n \in TodoAt(gc_pos + 1)
    BY <1>2, <1>10 DEF ToVisit, TodoAt
  <2>2. n # k /\ ToVisit(n)
    BY <1>6, <2>1 DEF TodoAt, ToVisit
  <2>3. <<victim_line, n>> \in Pages /\ new \in Pages /\ new # <<victim_line, n>>
    BY <1>1, NextPagesFree DEF Pages
  <2>4. st1[<<victim_line, n>>] = status[<<victim_line, n>>]
    BY <1>1, <2>3 DEF PageTable
  <2> HIDE DEF st1
  <2>5. status[<<victim_line, n>>] = "PG_VALID"
    BY <1>2, <1>10, <2>3, <2>4 DEF EraseAfter, mark_block_free
  <2> QED
    BY <2>2, <2>5
<1>13. ToCopy' <= ToCopy - 1
  <2>1. ToCopySet' \in SUBSET (ToCopySet \ {k})
    BY <1>12
  <2>2. IsFiniteSet(ToCopySet \ {k}) /\ Cardinality(ToCopySet \ {k}) = ToCopy - 1
    BY <1>7, ToCopyFinite, FS_RemoveElement
  <2> QED
    BY <2>1, <2>2, ToCopyFinite, FS_Subset
<1>14. Room' >= P + lm'.ipc[victim_line'] + ToCopy'
  BY <1>2, <1>5, <1>8, <1>9, <1>11, <1>13, <1>t
<1> QED
  BY <1>1, <1>2, <1>5, <1>10, <1>14 DEF SpaceInv, NeverOutOfLines, SpaceReserve, P

\* The victim comes back as a free line.
LEMMA DoneSpace ==
    ASSUME IInv, SpaceInv, GcDone
    PROVE  SpaceInv'
<1>1. /\ pc = "gc" /\ pc' = "idle" /\ wp' = wp /\ gc_wp' = gc_wp
      /\ lm' = mark_line_free(lm, victim_line)
      /\ write_credits' = write_credits + credits_to_refill
      /\ victim_line \in Lines
  BY DEF GcDone, IInv, Control
<1>2. lm \in LineMgmt /\ lm'.free_line_cnt = lm.free_line_cnt + 1
  BY <1>1, TypeParts, FreeFields DEF IInv
<1>3. write_credits = 0 /\ credits_to_refill = lm.ipc[victim_line]
  BY <1>1 DEF IInv, CreditsInRange, SpaceInv
<1>t. /\ P \in Nat /\ lm.free_line_cnt \in Nat /\ P * lm.free_line_cnt \in Nat
      /\ wp.off \in Nat /\ gc_wp.off \in Nat
      /\ Room = (P - wp.off) + (P - gc_wp.off) + P * lm.free_line_cnt
      /\ Room \in Nat /\ ToCopy \in Nat /\ lm.ipc[victim_line] \in Nat
  BY <1>1, <1>2, RoomTypes, ToCopyFinite DEF LineMgmt
<1>4. Room' = Room + P
  <2>1. P * (lm.free_line_cnt + 1) = P * lm.free_line_cnt + P
    BY <1>t, LineTimes
  <2>2. Room' = (P - wp.off) + (P - gc_wp.off) + P * (lm.free_line_cnt + 1)
    BY <1>1, <1>2 DEF Room, P
  <2> QED
    BY <1>t, <2>1, <2>2
<1>5. Room >= P + lm.ipc[victim_line] + ToCopy
  BY <1>1 DEF SpaceInv, SpaceReserve, P
<1>6. Room' >= 2 * P + write_credits'
  BY <1>1, <1>3, <1>4, <1>5, <1>t
<1> QED
  BY <1>1, <1>6 DEF SpaceInv, NeverOutOfLines, SpaceReserve, P

\* With enough over-provisioning every step keeps the reserve.
LEMMA NextSpace ==
    ASSUME OverProvisioned, IInv, IInv', SpaceInv, [Next]_vars
    PROVE  SpaceInv'
<1>1. CASE \E lpn \in LPN : WritePage(lpn) \/ DiscardPage(lpn)
  BY <1>1, WriteSpace, DiscardSpace
<1>2. CASE RefillNoGc /\ ~should_gc_high(lm)
  BY <1>2, RefillSpace
<1>3. CASE RefillNoGc /\ should_gc_high(lm)
  BY <1>3, VictimExists DEF RefillNoGc
<1>4. CASE GcStep
  BY <1>4, SelectSpace, SkipSpace, CopySpace, DoneSpace DEF GcStep
<1>5. CASE UNCHANGED vars
  <2>1. /\ status' = status /\ lm' = lm /\ wp' = wp /\ gc_wp' = gc_wp
        /\ write_credits' = write_credits /\ credits_to_refill' = credits_to_refill
        /\ pc' = pc /\ victim_line' = victim_line /\ gc_pos' = gc_pos
    BY <1>5 DEF vars
  <2>2. Room' = Room /\ ToCopy' = ToCopy
    BY <2>1 DEF Room, ToCopy, ToVisit
  <2> QED
    BY <2>1, <2>2 DEF SpaceInv, NeverOutOfLines, SpaceReserve
<1> QED
  BY <1>1, <1>2, <1>3, <1>4, <1>5 DEF Next, InternalStep

-----------------------------------------------------------------------------
\* SpaceReserve: with enough over-provisioning the two lines of reserve last.
THEOREM ReserveLasts == ASSUME OverProvisioned PROVE Spec => []SpaceReserve
<1>1. SpaceInv => SpaceReserve
  BY DEF SpaceInv
<1> QED
  BY Invariance, InitSpace, NextSpace, <1>1, PTL DEF Spec

\* NeverOutOfLines: with enough over-provisioning advance_write_pointer never
\* dereferences the NULL of an empty free list.
THEOREM NoLineShortage == ASSUME OverProvisioned PROVE Spec => []NeverOutOfLines
<1>1. SpaceInv => NeverOutOfLines
  BY DEF SpaceInv
<1> QED
  BY Invariance, InitSpace, NextSpace, <1>1, PTL DEF Spec

=============================================================================
