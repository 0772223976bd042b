----------------------------- MODULE MaapLemmas -----------------------------
(***************************************************************************)
(* What the operators of Maap do to the links between the heap, the        *)
(* interval tree and the timer queue, for every pool and every number of   *)
(* Ranges.                                                                 *)
(***************************************************************************)
EXTENDS Maap, TLAPS, FiniteSetTheorems, SequenceTheorems, WellFoundedInduction

(* A Range is in the queue at most once; a Range is in the queue.          *)
Injective(q) == \A i, j \in DOMAIN q : q[i] = q[j] => i = j
In(r, q) == \E i \in DOMAIN q : q[i] = r

(* Taking one element out of the timer queue (the unlinking loop of        *)
(* schedule_timer) leaves every other Range in it, and only once.          *)
LEMMA RemoveAtLemma ==
    ASSUME NEW q \in Seq(Ptr), Injective(q), NEW k \in DOMAIN q
    PROVE  /\ RemoveAt(q, k) \in Seq(Ptr)
           /\ Injective(RemoveAt(q, k))
           /\ \A r \in Ptr : In(r, RemoveAt(q, k)) <=> In(r, q) /\ r # q[k]
<1> DEFINE a == SubSeq(q, 1, k - 1)
           b == SubSeq(q, k + 1, Len(q))
           p == RemoveAt(q, k)
<1>a. /\ a \in Seq(Ptr) /\ Len(a) = k - 1
      /\ \A i \in 1 .. k - 1 : a[i] = q[i]
  BY SubSeqProperties
<1>b. /\ b \in Seq(Ptr) /\ Len(b) = Len(q) - k
      /\ \A i \in 1 .. Len(q) - k : b[i] = q[k + i]
  BY SubSeqProperties
<1>c. p = a \o b
  BY DEF RemoveAt
<1> HIDE DEF a, b, p
<1>d. \A i \in 1 .. Len(a) + Len(b) : p[i] = IF i <= Len(a) THEN a[i] ELSE b[i - Len(a)]
  BY <1>a, <1>b, <1>c, ConcatProperties
<1>1. p \in Seq(Ptr) /\ Len(p) = Len(q) - 1
  BY <1>a, <1>b, <1>c, ConcatProperties
<1>2. ASSUME NEW i \in 1 .. Len(q) - 1
      PROVE  p[i] = IF i < k THEN q[i] ELSE q[i + 1]
  <2>1. CASE i < k
    BY <1>a, <1>b, <1>d, <2>1
  <2>2. CASE ~(i < k)
    <3> DEFINE m == i - (k - 1)
    <3>1. m \in 1 .. Len(q) - k /\ k + m = i + 1
      BY <2>2
    <3>2. b[m] = q[i + 1]
      BY <1>b, <3>1
    <3>3. i \in 1 .. Len(a) + Len(b) /\ ~(i <= Len(a)) /\ i - Len(a) = m
      BY <1>a, <1>b, <2>2
    <3>4. p[i] = b[m]
      BY <1>d, <3>3
    <3> QED BY <2>2, <3>2, <3>4
  <2> QED BY <2>1, <2>2
<1>3. Injective(p)
  <2> SUFFICES ASSUME NEW i \in DOMAIN p, NEW j \in DOMAIN p, p[i] = p[j] PROVE i = j
    BY DEF Injective
  <2>1. i \in 1 .. Len(q) - 1 /\ j \in 1 .. Len(q) - 1
    BY <1>1
  <2>2. (IF i < k THEN q[i] ELSE q[i + 1]) = (IF j < k THEN q[j] ELSE q[j + 1])
    BY <1>2, <2>1
  <2>3. (IF i < k THEN i ELSE i + 1) = (IF j < k THEN j ELSE j + 1)
    BY <2>1, <2>2 DEF Injective
  <2> QED BY <2>1, <2>3
<1>4. ASSUME NEW r \in Ptr PROVE In(r, p) <=> In(r, q) /\ r # q[k]
  <2>1. In(r, p) => In(r, q) /\ r # q[k]
    BY <1>1, <1>2 DEF In, Injective
  <2>2. ASSUME In(r, q), r # q[k] PROVE In(r, p)
    <3>1. PICK i \in DOMAIN q : q[i] = r
      BY <2>2 DEF In
    <3>2. CASE i < k
      BY <3>1, <3>2, <1>1, <1>2 DEF In
    <3>3. CASE i > k
      <4>1. i - 1 \in DOMAIN p /\ p[i - 1] = q[i]
        BY <3>1, <3>3, <1>1, <1>2
      <4> QED BY <4>1, <3>1 DEF In
    <3> QED BY <3>1, <3>2, <3>3, <2>2
  <2> QED BY <2>1, <2>2
<1> QED BY <1>1, <1>3, <1>4 DEF p

(* Taking the head off the timer queue, as maap_handle_timer does, leaves  *)
(* exactly the other Ranges.                                               *)
LEMMA TailLemma ==
    ASSUME NEW q \in Seq(Ptr), Injective(q), q # <<>>
    PROVE  /\ Tail(q) \in Seq(Ptr)
           /\ Head(q) \in Ptr /\ In(Head(q), q)
           /\ Injective(Tail(q))
           /\ \A r \in Ptr : In(r, Tail(q)) <=> In(r, q) /\ r # Head(q)
<1>1. Len(q) > 0 /\ 1 \in DOMAIN q /\ Head(q) = q[1]
  OBVIOUS
<1>2. Tail(q) = RemoveAt(q, 1)
  <2>1. SubSeq(q, 1, 0) = <<>>
    BY SubSeqEmpty
  <2>2. Tail(q) = SubSeq(q, 2, Len(q))
    BY TailIsSubSeq
  <2>3. Tail(q) \in Seq(Ptr)
    BY HeadTailProperties
  <2>4. <<>> \o Tail(q) = Tail(q)
    BY <2>3, ConcatEmptySeq
  <2> QED BY <2>1, <2>2, <2>4 DEF RemoveAt
<1>3. Head(q) \in Ptr /\ In(Head(q), q)
  BY <1>1 DEF In
<1> DEFINE p == RemoveAt(q, 1)
<1>4. /\ p \in Seq(Ptr) /\ Injective(p)
      /\ \A r \in Ptr : In(r, p) <=> In(r, q) /\ r # q[1]
  BY <1>1, RemoveAtLemma
<1> HIDE DEF p
<1> QED BY <1>1, <1>2, <1>3, <1>4 DEF p

(* Linking a Range that is not in the timer queue into it adds that Range, *)
(* once, and loses none.                                                   *)
LEMMA InsertAtLemma ==
    ASSUME NEW q \in Seq(Ptr), Injective(q), NEW k \in 1 .. Len(q) + 1,
           NEW s \in Ptr, ~In(s, q)
    PROVE  /\ InsertAt(q, k, s) \in Seq(Ptr)
           /\ Injective(InsertAt(q, k, s))
           /\ \A r \in Ptr : In(r, InsertAt(q, k, s)) <=> In(r, q) \/ r = s
<1> DEFINE a == SubSeq(q, 1, k - 1)
           b == SubSeq(q, k, Len(q))
           c == a \o <<s>>
           p == InsertAt(q, k, s)
<1>a. /\ a \in Seq(Ptr) /\ Len(a) = k - 1
      /\ \A i \in 1 .. k - 1 : a[i] = q[i]
  BY SubSeqProperties
<1>b. /\ b \in Seq(Ptr) /\ Len(b) = Len(q) - k + 1
      /\ \A i \in 1 .. Len(q) - k + 1 : b[i] = q[k + i - 1]
  BY SubSeqProperties
<1> HIDE DEF a, b
<1>c. /\ c \in Seq(Ptr) /\ Len(c) = k
      /\ \A i \in 1 .. k - 1 : c[i] = q[i]
      /\ c[k] = s
  <2>1. <<s>> \in Seq(Ptr) /\ Len(<<s>>) = 1 /\ <<s>>[1] = s
    OBVIOUS
  <2>2. \A i \in 1 .. Len(a) + 1 : c[i] = IF i <= Len(a) THEN a[i] ELSE <<s>>[i - Len(a)]
    BY <1>a, <2>1, ConcatProperties
  <2>3. c \in Seq(Ptr) /\ Len(c) = k
    BY <1>a, <2>1, ConcatProperties
  <2>4. \A i \in 1 .. k - 1 : c[i] = q[i]
    BY <1>a, <2>2
  <2>5. k \in 1 .. Len(a) + 1 /\ ~(k <= Len(a)) /\ k - Len(a) = 1
    BY <1>a
  <2>6. c[k] = s
    BY <2>1, <2>2, <2>5
  <2> QED BY <2>3, <2>4, <2>6
<1>d. p = c \o b
  BY DEF InsertAt, a, b
<1> HIDE DEF c, p
<1>1. p \in Seq(Ptr) /\ Len(p) = Len(q) + 1
  <2>1. p \in Seq(Ptr) /\ Len(p) = Len(c) + Len(b)
    BY <1>b, <1>c, <1>d, ConcatProperties
  <2> QED BY <1>b, <1>c, <2>1
<1>e. \A i \in 1 .. Len(c) + Len(b) : p[i] = IF i <= Len(c) THEN c[i] ELSE b[i - Len(c)]
  BY <1>b, <1>c, <1>d, ConcatProperties
<1>2. ASSUME NEW i \in 1 .. Len(q) + 1
      PROVE  p[i] = IF i < k THEN q[i] ELSE IF i = k THEN s ELSE q[i - 1]
  <2>1. CASE i <= k
    BY <1>b, <1>c, <1>e, <2>1
  <2>2. CASE i > k
    <3> DEFINE m == i - k
    <3>1. m \in 1 .. Len(q) - k + 1 /\ k + m - 1 = i - 1
      BY <2>2
    <3>2. b[m] = q[i - 1]
      BY <1>b, <3>1
    <3>3. i \in 1 .. Len(c) + Len(b) /\ ~(i <= Len(c)) /\ i - Len(c) = m
      BY <1>b, <1>c, <2>2
    <3>4. p[i] = b[m]
      BY <1>e, <3>3
    <3> QED BY <2>2, <3>2, <3>4
  <2> QED BY <2>1, <2>2
<1> DEFINE f(x) == IF x < k THEN x ELSE x - 1
<1>f. ASSUME NEW i \in DOMAIN p, i # k
      PROVE  f(i) \in DOMAIN q /\ p[i] = q[f(i)]
  <2>1. i \in 1 .. Len(q) + 1 /\ DOMAIN q = 1 .. Len(q)
    BY <1>1
  <2>2. p[i] = IF i < k THEN q[i] ELSE IF i = k THEN s ELSE q[i - 1]
    BY <1>2, <2>1
  <2> QED BY <1>f, <2>1, <2>2
<1>g. k \in DOMAIN p /\ p[k] = s
  BY <1>1, <1>2
<1>3. Injective(p)
  <2> SUFFICES ASSUME NEW i \in DOMAIN p, NEW j \in DOMAIN p, p[i] = p[j] PROVE i = j
    BY DEF Injective
  <2>1. CASE i = k \/ j = k
    <3> HIDE DEF f
    <3> QED BY <1>f, <1>g, <2>1 DEF In
  <2>2. CASE i # k /\ j # k
    <3>1. q[f(i)] = q[f(j)] /\ f(i) \in DOMAIN q /\ f(j) \in DOMAIN q
      <4> HIDE DEF f
      <4> QED BY <1>f, <2>2
    <3>2. f(i) = f(j)
      <4> HIDE DEF f
      <4> QED BY <3>1 DEF Injective
    <3> QED BY <1>1, <2>2, <3>2
  <2> QED BY <2>1, <2>2
<1>4. ASSUME NEW r \in Ptr PROVE In(r, p) <=> In(r, q) \/ r = s
  <2>1. In(r, p) => In(r, q) \/ r = s
    <3> HIDE DEF f
    <3> QED BY <1>f, <1>g DEF In
  <2>2. ASSUME r = s PROVE In(r, p)
    BY <1>g, <2>2 DEF In
  <2>3. ASSUME NEW i \in DOMAIN q, q[i] = r PROVE In(r, p)
    <3>1. CASE i < k
      BY <1>1, <1>2, <2>3, <3>1 DEF In
    <3>2. CASE ~(i < k)
      <4>1. i + 1 \in 1 .. Len(q) + 1 /\ ~(i + 1 < k) /\ i + 1 # k /\ (i + 1) - 1 = i
        BY <3>2
      <4>2. p[i + 1] = q[i]
        BY <1>2, <4>1
      <4> QED BY <1>1, <2>3, <4>1, <4>2 DEF In
    <3> QED BY <3>1, <3>2
  <2> QED BY <2>1, <2>2, <2>3 DEF In
<1> QED BY <1>1, <1>3, <1>4 DEF p

(* A non-empty set of naturals has a least element: there is a first place *)
(* in the queue where a Range that is due later stands.                    *)
LEMMA LeastLemma ==
    ASSUME NEW T \in SUBSET Nat, T # {}
    PROVE  \E x \in T : \A y \in T : x <= y
<1>1. PICK x \in T : \A y \in T : ~(<<y, x>> \in OpToRel(<, Nat))
  BY WFMin, NatLessThanWellFounded
<1>2. \A y \in T : ~(y < x)
  BY <1>1 DEF OpToRel
<1> QED BY <1>2

(* schedule_timer, wherever its search stops, leaves every queued Range in *)
(* the queue exactly once and the scheduled one as well.                   *)
LEMMA ScheduleLemma ==
    ASSUME NEW q \in Seq(Ptr), Injective(q), NEW h, NEW s \in Ptr
    PROVE  /\ schedule_timer(q, h, s) \in Seq(Ptr)
           /\ Injective(schedule_timer(q, h, s))
           /\ \A r \in Ptr : In(r, schedule_timer(q, h, s)) <=> In(r, q) \/ r = s
<1> DEFINE u == Unqueue(q, s)
<1>1. /\ u \in Seq(Ptr) /\ Injective(u)
      /\ \A r \in Ptr : In(r, u) <=> In(r, q) /\ r # s
  <2>1. CASE \E i \in DOMAIN q : q[i] = s
    <3> DEFINE k == CHOOSE i \in DOMAIN q : q[i] = s
    <3>1. k \in DOMAIN q /\ q[k] = s
      BY <2>1
    <3>2. u = RemoveAt(q, k)
      BY <2>1 DEF Unqueue
    <3> HIDE DEF k, u
    <3> QED BY <3>1, <3>2, RemoveAtLemma
  <2>2. CASE ~ \E i \in DOMAIN q : q[i] = s
    <3>1. u = q
      BY <2>2 DEF Unqueue
    <3> QED BY <2>2, <3>1 DEF In
  <2> QED BY <2>1, <2>2
<1> HIDE DEF u
<1> DEFINE Fits(i) == /\ \A j \in 1 .. (i - 1) : NoLater(h, u[j], s)
                      /\ i <= Len(u) => ~NoLater(h, u[i], s)
<1>2. \E i \in 1 .. Len(u) + 1 : Fits(i)
  <2> DEFINE T == {i \in 1 .. Len(u) : ~NoLater(h, u[i], s)}
  <2>1. CASE T = {}
    <3>1. Fits(Len(u) + 1)
      BY <1>1, <2>1
    <3> QED BY <1>1, <3>1
  <2>2. CASE T # {}
    <3>1. PICK x \in T : \A y \in T : x <= y
      <4>1. T \in SUBSET Nat
        BY <1>1
      <4> HIDE DEF T
      <4> QED BY <2>2, <4>1, LeastLemma
    <3>2. ASSUME NEW j \in 1 .. (x - 1) PROVE NoLater(h, u[j], s)
      <4>1. j \in 1 .. Len(u) /\ ~(x <= j)
        BY <1>1, <3>1
      <4> QED BY <3>1, <4>1
    <3>3. Fits(x)
      BY <3>1, <3>2
    <3> QED BY <1>1, <3>1, <3>3
  <2> QED BY <2>1, <2>2
<1> DEFINE k == CHOOSE i \in 1 .. Len(u) + 1 : Fits(i)
<1>3. k \in 1 .. Len(u) + 1
  BY <1>2
<1>4. schedule_timer(q, h, s) = InsertAt(u, k, s)
  BY DEF schedule_timer, Enqueue, u
<1>5. ~In(s, u)
  BY <1>1
<1> HIDE DEF k, Fits
<1>6. /\ InsertAt(u, k, s) \in Seq(Ptr)
      /\ Injective(InsertAt(u, k, s))
      /\ \A r \in Ptr : In(r, InsertAt(u, k, s)) <=> In(r, u) \/ r = s
  BY <1>1, <1>3, <1>5, InsertAtLemma
<1> QED BY <1>1, <1>4, <1>6

-----------------------------------------------------------------------------
(* In the heap h, r is in use and not released.                            *)
LiveAt(h, r) == h[r] # NULL /\ h[r].state # "RELEASED"

(* The part of Consistent that is about a heap h, a tree t, a queue q and  *)
(* the last id m, so that it can be stated of what an operator returns.    *)
Linked(h, t, q, m) ==
    /\ h \in [Ptr -> RangeObj \cup {NULL}]
    /\ t \in SUBSET Node
    /\ q \in Seq(Ptr) /\ Injective(q)
    /\ \A r \in Ptr : h[r] # NULL <=> In(r, q)
    /\ \A r \in Ptr : h[r] # NULL => h[r].id <= m
    /\ \A r \in Ptr : LiveAt(h, r) => /\ h[r].interval \in Interval
                                      /\ NodeOf(h[r].interval, r) \in t
    /\ \A n \in t : n.data # NULL => /\ n.data \in Ptr
                                     /\ LiveAt(h, n.data)
                                     /\ n = NodeOf(h[n.data].interval, n.data)
    /\ \A n \in t : n.low <= n.high
    /\ \A a, b \in t : a # b => ~check_overlap(a, b)
    /\ \A r, s \in Ptr : LiveAt(h, r) /\ LiveAt(h, s) /\ h[r].id = h[s].id => r = s

(* A step that changes only times, counters, flags or the                  *)
(* PROBING/DEFENDING state of Ranges, and reorders the queue, keeps the    *)
(* links.                                                                  *)
LEMMA TouchLemma ==
    ASSUME NEW h, NEW t, NEW q, NEW m, Linked(h, t, q, m),
           NEW h2 \in [Ptr -> RangeObj \cup {NULL}], NEW q2 \in Seq(Ptr), Injective(q2),
           \A r \in Ptr : In(r, q2) <=> In(r, q),
           \A r \in Ptr : h2[r] = NULL <=> h[r] = NULL,
           \A r \in Ptr : h[r] # NULL =>
                /\ h2[r].id = h[r].id
                /\ h2[r].interval = h[r].interval
                /\ h2[r].state = "RELEASED" <=> h[r].state = "RELEASED"
    PROVE  Linked(h2, t, q2, m)
<1>1. \A r \in Ptr : LiveAt(h2, r) <=> LiveAt(h, r)
  BY DEF LiveAt
<1>2. \A r \in Ptr : LiveAt(h, r) => h2[r].id = h[r].id /\ h2[r].interval = h[r].interval
  BY DEF LiveAt
<1>3. \A r \in Ptr : (h2[r] # NULL <=> In(r, q2)) /\ (h2[r] # NULL => h2[r].id <= m)
  BY DEF Linked
<1>4. \A r \in Ptr : LiveAt(h2, r) => /\ h2[r].interval \in Interval
                                      /\ NodeOf(h2[r].interval, r) \in t
  BY <1>1, <1>2 DEF Linked
<1>5. \A n \in t : n.data # NULL => /\ n.data \in Ptr
                                    /\ LiveAt(h2, n.data)
                                    /\ n = NodeOf(h2[n.data].interval, n.data)
  BY <1>1, <1>2 DEF Linked
<1>6. \A r, s \in Ptr : LiveAt(h2, r) /\ LiveAt(h2, s) /\ h2[r].id = h2[s].id => r = s
  BY <1>1, <1>2 DEF Linked
<1> QED BY <1>3, <1>4, <1>5, <1>6 DEF Linked

(* Giving a Range a free interval (assign_interval followed by             *)
(* schedule_timer), in place of the one it had, keeps the links.           *)
LEMMA PlaceLemma ==
    ASSUME NEW h, NEW t, NEW q, NEW m, Linked(h, t, q, m),
           NEW r \in Ptr, NEW rec \in RangeObj, NEW q2 \in Seq(Ptr), Injective(q2),
           rec.state # "RELEASED", rec.id <= m,
           rec.interval \in Interval, rec.interval.low <= rec.interval.high,
           \A n \in t : ~check_overlap(n, rec.interval),
           \A s \in Ptr : s # r /\ LiveAt(h, s) => h[s].id # rec.id,
           \A s \in Ptr : In(s, q2) <=> In(s, q) \/ s = r
    PROVE  Linked([h EXCEPT ![r] = rec],
                  remove_interval(t, r) \cup {NodeOf(rec.interval, r)}, q2, m)
<1> DEFINE h2 == [h EXCEPT ![r] = rec]
           new == NodeOf(rec.interval, r)
           t2 == remove_interval(t, r) \cup {new}
<1> USE ConstAssumption
<1>1. h2 \in [Ptr -> RangeObj \cup {NULL}] /\ h2[r] = rec /\ rec # NULL
  BY DEF Linked
<1>2. \A s \in Ptr : s # r => h2[s] = h[s]
  BY DEF Linked
<1>3. new \in Node /\ new.data = r /\ new.low = rec.interval.low /\ new.high = rec.interval.high
  BY DEF NodeOf, Node, Interval
<1>4. t2 \in SUBSET Node
  BY <1>3 DEF Linked, remove_interval
<1>5. LiveAt(h2, r) /\ \A s \in Ptr : s # r => (LiveAt(h2, s) <=> LiveAt(h, s))
  BY <1>1, <1>2 DEF LiveAt
<1> HIDE DEF h2
<1>6. \A s \in Ptr : (h2[s] # NULL <=> In(s, q2)) /\ (h2[s] # NULL => h2[s].id <= m)
  BY <1>1, <1>2 DEF Linked
<1>7. ASSUME NEW s \in Ptr, LiveAt(h2, s)
      PROVE  h2[s].interval \in Interval /\ NodeOf(h2[s].interval, s) \in t2
  <2>1. CASE s = r
    BY <1>1, <2>1
  <2>2. CASE s # r
    <3>1. h[s].interval \in Interval /\ NodeOf(h[s].interval, s) \in t
      BY <1>5, <1>7, <2>2 DEF Linked
    <3>2. NodeOf(h[s].interval, s).data = s
      BY DEF NodeOf
    <3> QED BY <1>2, <2>2, <3>1, <3>2 DEF remove_interval
  <2> QED BY <2>1, <2>2
<1>8. ASSUME NEW n \in t2, n.data # NULL
      PROVE  /\ n.data \in Ptr
             /\ LiveAt(h2, n.data)
             /\ n = NodeOf(h2[n.data].interval, n.data)
  <2>1. CASE n = new
    BY <1>1, <1>3, <1>5, <2>1
  <2>2. CASE n # new
    <3>1. n \in t /\ n.data # r
      BY <2>2 DEF remove_interval
    <3>2. n.data \in Ptr /\ LiveAt(h, n.data) /\ n = NodeOf(h[n.data].interval, n.data)
      BY <1>8, <3>1 DEF Linked
    <3> HIDE DEF new, t2
    <3> QED BY <1>2, <1>5, <3>1, <3>2
  <2> QED BY <2>1, <2>2
<1>9. ASSUME NEW a \in t2, NEW b \in t2
      PROVE  a.low <= a.high /\ (a # b => ~check_overlap(a, b))
  <2>1. \A n \in t : /\ ~check_overlap(n, new) /\ ~check_overlap(new, n)
    BY <1>3 DEF check_overlap, Linked
  <2>2. new.low <= new.high
    BY <1>3
  <2>3. (a \in t \/ a = new) /\ (b \in t \/ b = new)
    BY DEF remove_interval
  <2> HIDE DEF new, t2
  <2> QED BY <2>1, <2>2, <2>3 DEF Linked
<1>10. \A a, b \in Ptr : LiveAt(h2, a) /\ LiveAt(h2, b) /\ h2[a].id = h2[b].id => a = b
  BY <1>1, <1>2, <1>5 DEF Linked
<1> QED
  <2> HIDE DEF t2
  <2>1. Linked(h2, t2, q2, m)
    BY <1>1, <1>4, <1>6, <1>7, <1>8, <1>9, <1>10 DEF Linked
  <2> QED BY <2>1 DEF h2, t2

(* Releasing a Range (state RELEASED, node removed by                      *)
(* remove_range_interval) keeps the links; its memory stays queued.        *)
LEMMA DropLemma ==
    ASSUME NEW h, NEW t, NEW q, NEW m, Linked(h, t, q, m),
           NEW r \in Ptr, LiveAt(h, r), NEW rec \in RangeObj,
           rec.state = "RELEASED", rec.id = h[r].id
    PROVE  Linked([h EXCEPT ![r] = rec], remove_interval(t, r), q, m)
<1> DEFINE h2 == [h EXCEPT ![r] = rec]
           t2 == remove_interval(t, r)
<1> USE ConstAssumption
<1>1. h2 \in [Ptr -> RangeObj \cup {NULL}] /\ h2[r] = rec /\ rec # NULL /\ h[r] # NULL
  BY DEF Linked, LiveAt
<1>2. \A s \in Ptr : s # r => h2[s] = h[s]
  BY DEF Linked
<1>3. ~LiveAt(h2, r) /\ \A s \in Ptr : s # r => (LiveAt(h2, s) <=> LiveAt(h, s))
  BY <1>1, <1>2 DEF LiveAt
<1> HIDE DEF h2
<1>4. t2 \in SUBSET Node /\ \A n \in t2 : n \in t /\ n.data # r
  BY DEF Linked, remove_interval
<1>5. \A s \in Ptr : (h2[s] # NULL <=> In(s, q)) /\ (h2[s] # NULL => h2[s].id <= m)
  BY <1>1, <1>2 DEF Linked
<1>6. ASSUME NEW s \in Ptr, LiveAt(h2, s)
      PROVE  h2[s].interval \in Interval /\ NodeOf(h2[s].interval, s) \in t2
  <2>1. s # r /\ LiveAt(h, s) /\ h2[s] = h[s]
    BY <1>2, <1>3, <1>6
  <2>2. h[s].interval \in Interval /\ NodeOf(h[s].interval, s) \in t
    BY <2>1 DEF Linked
  <2>3. NodeOf(h[s].interval, s).data = s
    BY DEF NodeOf
  <2> QED BY <2>1, <2>2, <2>3 DEF remove_interval
<1> HIDE DEF t2
<1>7. ASSUME NEW n \in t2, n.data # NULL
      PROVE  /\ n.data \in Ptr
             /\ LiveAt(h2, n.data)
             /\ n = NodeOf(h2[n.data].interval, n.data)
  <2>1. n.data \in Ptr /\ LiveAt(h, n.data) /\ n = NodeOf(h[n.data].interval, n.data)
    BY <1>4, <1>7 DEF Linked
  <2> QED BY <1>2, <1>3, <1>4, <2>1
<1>8. \A a, b \in t2 : a.low <= a.high /\ (a # b => ~check_overlap(a, b))
  BY <1>4 DEF Linked
<1>9. \A a, b \in Ptr : LiveAt(h2, a) /\ LiveAt(h2, b) /\ h2[a].id = h2[b].id => a = b
  BY <1>2, <1>3 DEF Linked
<1> QED
  <2>1. Linked(h2, t2, q, m)
    BY <1>1, <1>4, <1>5, <1>6, <1>7, <1>8, <1>9 DEF Linked
  <2> QED BY <2>1 DEF h2, t2

(* Freeing the released Range at the head of the queue, as                 *)
(* maap_handle_timer does, keeps the links.                                *)
LEMMA FreeLemma ==
    ASSUME NEW h, NEW t, NEW q, NEW m, Linked(h, t, q, m),
           q # <<>>, ~LiveAt(h, Head(q))
    PROVE  Linked([h EXCEPT ![Head(q)] = NULL], t, Tail(q), m)
<1> DEFINE r == Head(q)
           h2 == [h EXCEPT ![r] = NULL]
<1>1. /\ r \in Ptr
      /\ Tail(q) \in Seq(Ptr) /\ Injective(Tail(q))
      /\ \A s \in Ptr : In(s, Tail(q)) <=> In(s, q) /\ s # r
  BY TailLemma DEF Linked
<1> HIDE DEF r
<1>2. /\ h2 \in [Ptr -> RangeObj \cup {NULL}] /\ h2[r] = NULL
      /\ \A s \in Ptr : s # r => h2[s] = h[s]
  BY <1>1 DEF Linked
<1>3. \A s \in Ptr : LiveAt(h2, s) <=> LiveAt(h, s)
  BY <1>2 DEF LiveAt, r
<1>4. \A s \in Ptr : LiveAt(h, s) => h2[s] = h[s]
  BY <1>2, <1>3 DEF LiveAt
<1> HIDE DEF h2
<1>5. \A s \in Ptr : (h2[s] # NULL <=> In(s, Tail(q))) /\ (h2[s] # NULL => h2[s].id <= m)
  BY <1>1, <1>2 DEF Linked
<1>6. \A s \in Ptr : LiveAt(h2, s) => /\ h2[s].interval \in Interval
                                      /\ NodeOf(h2[s].interval, s) \in t
  BY <1>3, <1>4 DEF Linked
<1>7. \A n \in t : n.data # NULL => /\ n.data \in Ptr
                                    /\ LiveAt(h2, n.data)
                                    /\ n = NodeOf(h2[n.data].interval, n.data)
  BY <1>3, <1>4 DEF Linked
<1>8. \A a, b \in Ptr : LiveAt(h2, a) /\ LiveAt(h2, b) /\ h2[a].id = h2[b].id => a = b
  BY <1>3, <1>4 DEF Linked
<1>9. Linked(h2, t, Tail(q), m)
  BY <1>1, <1>2, <1>5, <1>6, <1>7, <1>8 DEF Linked
<1> QED BY <1>9 DEF h2, r

(* Counting up maxid, as every reservation does, keeps the ids in use      *)
(* below it.                                                               *)
LEMMA MoreIdsLemma ==
    ASSUME NEW h, NEW t, NEW q, NEW m \in Nat, NEW m2 \in Nat, Linked(h, t, q, m), m <= m2
    PROVE  Linked(h, t, q, m2)
<1>1. \A r \in Ptr : h[r] # NULL => h[r].id <= m2
  <2> TAKE r \in Ptr
  <2> HAVE h[r] # NULL
  <2>1. h[r].id \in Int /\ h[r].id <= m
    BY DEF Linked, RangeObj
  <2> QED BY <2>1
<1> QED BY <1>1 DEF Linked

(* The node that assign_interval leaves behind when its last draw succeeds *)
(* overlaps nothing, so the tree stays disjoint.                           *)
LEMMA LeftoverLemma ==
    ASSUME NEW h, NEW t, NEW q, NEW m, Linked(h, t, q, m),
           NEW iv \in Interval, iv.low <= iv.high, \A n \in t : ~check_overlap(n, iv)
    PROVE  Linked(h, t \cup {NodeOf(iv, NULL)}, q, m)
<1> DEFINE new == NodeOf(iv, NULL)
           t2 == t \cup {new}
<1>1. new \in Node /\ new.data = NULL /\ new.low = iv.low /\ new.high = iv.high
  BY DEF NodeOf, Node, Interval
<1>2. \A n \in t : ~check_overlap(n, new) /\ ~check_overlap(new, n)
  BY <1>1 DEF check_overlap
<1> HIDE DEF new
<1>3. \A a, b \in t2 : a.low <= a.high /\ (a # b => ~check_overlap(a, b))
  BY <1>1, <1>2 DEF Linked
<1>4. t2 \in SUBSET Node
  BY <1>1 DEF Linked
<1>5. Linked(h, t2, q, m)
  BY <1>1, <1>3, <1>4 DEF Linked
<1> QED BY <1>5 DEF new

(* What assign_interval hands out, or leaves behind, lies in the pool and  *)
(* overlaps no node of the tree.                                           *)
LEMMA AssignLemma ==
    ASSUME NEW base \in Nat, NEW len \in Nat \ {0}, NEW out \in assign_interval(base, len)
    PROVE  /\ out.iv # NULL => /\ out.iv \in Interval /\ out.iv.low <= out.iv.high
                               /\ \A n \in ranges : ~check_overlap(n, out.iv)
           /\ out.left # NULL => /\ out.left \in Interval /\ out.left.low <= out.left.high
                                 /\ \A n \in ranges : ~check_overlap(n, out.left)
<1> USE ConstAssumption
<1>1. ASSUME NEW s \in FreeStarts(len)
      PROVE  /\ alloc_interval(s, len) \in Interval
             /\ alloc_interval(s, len).low <= alloc_interval(s, len).high
             /\ \A n \in ranges : ~check_overlap(n, alloc_interval(s, len))
  <2>1. s \in 0 .. (RangeLen - len) /\ \A n \in ranges : ~check_overlap(n, alloc_interval(s, len))
    BY DEF FreeStarts
  <2>2. s \in Offsets /\ s + len - 1 \in Offsets
    BY <2>1 DEF Offsets
  <2> QED BY <2>1, <2>2 DEF alloc_interval, Interval
<1>2. \/ out.iv = NULL
      \/ \E s \in FreeStarts(len) : out.iv = alloc_interval(s, len)
  BY DEF assign_interval
<1>3. \/ out.left = NULL
      \/ \E s \in FreeStarts(len) : out.left = alloc_interval(s, len)
  BY DEF assign_interval
<1> QED BY <1>1, <1>2, <1>3
=============================================================================
