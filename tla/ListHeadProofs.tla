--------------------------- MODULE ListHeadProofs ---------------------------
(***************************************************************************)
(* What the operations of list.c do to the links, for heaps of any size:   *)
(* the chain a head and a sequence of entries make, and the walk of        *)
(* list_for_each along it.                                                 *)
(***************************************************************************)
EXTENDS ListHead, WellFoundedInduction, TLAPS

\* A heap over the addresses D; NULL is one of them.
HeapOver(D) == [D -> [next : D, prev : D]]

LEMMA SetFacts ==
  ASSUME NEW D, NEW heap \in HeapOver(D), NEW n \in D, NEW v \in D
  PROVE  /\ SetNext(heap, n, v) \in HeapOver(D) /\ SetPrev(heap, n, v) \in HeapOver(D)
         /\ \A x \in D : /\ SetNext(heap, n, v)[x].next = (IF x = n THEN v ELSE heap[x].next)
                         /\ SetNext(heap, n, v)[x].prev = heap[x].prev
                         /\ SetPrev(heap, n, v)[x].next = heap[x].next
                         /\ SetPrev(heap, n, v)[x].prev = (IF x = n THEN v ELSE heap[x].prev)
BY DEF HeapOver, SetNext, SetPrev

LEMMA InsertFacts ==
  ASSUME NEW D, NEW heap \in HeapOver(D), NEW new \in D, NEW prev \in D, NEW next \in D
  PROVE  LET h2 == InsertBetween(heap, new, prev, next)
         IN  /\ h2 \in HeapOver(D)
             /\ \A x \in D :
                  /\ h2[x].next = (IF x = prev THEN new ELSE IF x = new THEN next ELSE heap[x].next)
                  /\ h2[x].prev = (IF x = new THEN prev ELSE IF x = next THEN new ELSE heap[x].prev)
<1> DEFINE a == SetPrev(heap, next, new)
           b == SetNext(a, new, next)
           c == SetPrev(b, new, prev)
           d == SetNext(c, prev, new)
<1>1. /\ a \in HeapOver(D)
      /\ \A x \in D : /\ a[x].next = heap[x].next
                      /\ a[x].prev = (IF x = next THEN new ELSE heap[x].prev)
  BY SetFacts
<1> HIDE DEF a
<1>2. /\ b \in HeapOver(D)
      /\ \A x \in D : /\ b[x].next = (IF x = new THEN next ELSE a[x].next)
                      /\ b[x].prev = a[x].prev
  BY <1>1, SetFacts
<1> HIDE DEF b
<1>3. /\ c \in HeapOver(D)
      /\ \A x \in D : /\ c[x].next = b[x].next
                      /\ c[x].prev = (IF x = new THEN prev ELSE b[x].prev)
  BY <1>2, SetFacts
<1> HIDE DEF c
<1>4. /\ d \in HeapOver(D)
      /\ \A x \in D : /\ d[x].next = (IF x = prev THEN new ELSE c[x].next)
                      /\ d[x].prev = c[x].prev
  BY <1>3, SetFacts
<1>5. InsertBetween(heap, new, prev, next) = d
  BY DEF InsertBetween, a, b, c
<1> HIDE DEF d
<1> QED BY <1>1, <1>2, <1>3, <1>4, <1>5

\* heap2 is heap with entry unlinked from between its neighbours.
Unlinks(D, heap, heap2, entry) ==
  LET p == heap[entry].prev
      n == heap[entry].next
  IN  \A x \in D :
        /\ heap2[x].next = (IF x = entry THEN NULL ELSE IF x = p THEN n ELSE heap[x].next)
        /\ heap2[x].prev = (IF x = entry THEN NULL ELSE IF x = n THEN p ELSE heap[x].prev)

LEMMA DelFacts ==
  ASSUME NEW D, NEW heap \in HeapOver(D), NEW entry \in D, NULL \in D
  PROVE  /\ list_del(heap, entry) \in HeapOver(D)
         /\ Unlinks(D, heap, list_del(heap, entry), entry)
<1> DEFINE p == heap[entry].prev
           n == heap[entry].next
           a == SetPrev(heap, n, p)
           b == SetNext(a, p, n)
           c == SetNext(b, entry, NULL)
           d == SetPrev(c, entry, NULL)
<1>0. p \in D /\ n \in D
  BY DEF HeapOver
<1>5. list_del(heap, entry) = d
  BY DEF list_del, Bypass
<1> HIDE DEF p, n
<1>1. /\ a \in HeapOver(D)
      /\ \A x \in D : /\ a[x].next = heap[x].next
                      /\ a[x].prev = (IF x = n THEN p ELSE heap[x].prev)
  BY <1>0, SetFacts
<1> HIDE DEF a
<1>2. /\ b \in HeapOver(D)
      /\ \A x \in D : /\ b[x].next = (IF x = p THEN n ELSE a[x].next)
                      /\ b[x].prev = a[x].prev
  BY <1>0, <1>1, SetFacts
<1> HIDE DEF b
<1>3. /\ c \in HeapOver(D)
      /\ \A x \in D : /\ c[x].next = (IF x = entry THEN NULL ELSE b[x].next)
                      /\ c[x].prev = b[x].prev
  BY <1>2, SetFacts
<1> HIDE DEF c
<1>4. /\ d \in HeapOver(D)
      /\ \A x \in D : /\ d[x].next = c[x].next
                      /\ d[x].prev = (IF x = entry THEN NULL ELSE c[x].prev)
  BY <1>3, SetFacts
<1> HIDE DEF d
<1> QED BY <1>1, <1>2, <1>3, <1>4, <1>5 DEF p, n, Unlinks

LEMMA InitFacts ==
  ASSUME NEW D, NEW heap \in HeapOver(D), NEW h \in D
  PROVE  LET h2 == INIT_LIST_HEAD(heap, h)
         IN  /\ h2 \in HeapOver(D)
             /\ \A x \in D : /\ h2[x].next = (IF x = h THEN h ELSE heap[x].next)
                             /\ h2[x].prev = (IF x = h THEN h ELSE heap[x].prev)
<1> DEFINE a == SetNext(heap, h, h)
<1>1. /\ a \in HeapOver(D)
      /\ \A x \in D : /\ a[x].next = (IF x = h THEN h ELSE heap[x].next)
                      /\ a[x].prev = heap[x].prev
  BY SetFacts
<1> HIDE DEF a
<1>2. /\ SetPrev(a, h, h) \in HeapOver(D)
      /\ \A x \in D : /\ SetPrev(a, h, h)[x].next = a[x].next
                      /\ SetPrev(a, h, h)[x].prev = (IF x = h THEN h ELSE a[x].prev)
  BY <1>1, SetFacts
<1>3. INIT_LIST_HEAD(heap, h) = SetPrev(a, h, h)
  BY DEF INIT_LIST_HEAD, a
<1> QED BY <1>1, <1>2, <1>3

-----------------------------------------------------------------------------
(* Chains. *)

\* The i-th node of the ring that the head h and the entries q make.
At(h, q, i) == IF i \in 1 .. Len(q) THEN q[i] ELSE h

\* The nodes of the ring are different ones of D.
Ring(D, h, q) ==
  /\ h \in D /\ q \in Seq(D)
  /\ \A i \in 1 .. Len(q) : q[i] # h
  /\ \A i, j \in 1 .. Len(q) : q[i] = q[j] => i = j

\* Each node points to the next one, and back.
Chain(heap, h, q) ==
  \A i \in 0 .. Len(q) : /\ heap[At(h, q, i)].next = At(h, q, i + 1)
                         /\ heap[At(h, q, i + 1)].prev = At(h, q, i)

LEMMA AtFacts ==
  ASSUME NEW D, NEW h, NEW q, Ring(D, h, q)
  PROVE  /\ \A i \in Int : At(h, q, i) \in D
         /\ At(h, q, 0) = h /\ At(h, q, Len(q) + 1) = h
         /\ \A i \in 1 .. Len(q) : At(h, q, i) = q[i]
         /\ \A i, j \in 0 .. Len(q) : At(h, q, i) = At(h, q, j) => i = j
         /\ \A i, j \in 1 .. Len(q) + 1 : At(h, q, i) = At(h, q, j) => i = j
BY DEF Ring, At

\* A heap that has the same links at the nodes of the ring.
LEMMA ChainFrame ==
  ASSUME NEW D, NEW h, NEW q, Ring(D, h, q), NEW heap, NEW heap2, Chain(heap, h, q),
         \A x \in D : x = h \/ (\E i \in 1 .. Len(q) : q[i] = x)
                      => heap2[x].next = heap[x].next /\ heap2[x].prev = heap[x].prev
  PROVE  Chain(heap2, h, q)
<1> SUFFICES ASSUME NEW i \in 0 .. Len(q)
             PROVE  /\ heap2[At(h, q, i)].next = At(h, q, i + 1)
                    /\ heap2[At(h, q, i + 1)].prev = At(h, q, i)
  BY DEF Chain
<1>1. \A k \in Int : At(h, q, k) \in D /\ (At(h, q, k) = h \/ \E j \in 1 .. Len(q) : q[j] = At(h, q, k))
  BY AtFacts DEF At
<1>2. i \in Int /\ i + 1 \in Int
  BY DEF Ring
<1> QED BY <1>1, <1>2 DEF Chain
LEMMA ChainEmpty ==
  ASSUME NEW heap, NEW h
  PROVE  Chain(heap, h, << >>) <=> heap[h].next = h /\ heap[h].prev = h
<1>1. \A i \in Int : At(h, << >>, i) = h
  BY DEF At
<1> QED BY <1>1 DEF Chain

\* The two ends of a list as its head sees them.
LEMMA ChainEnds ==
  ASSUME NEW D, NEW h, NEW q, Ring(D, h, q), NEW heap, Chain(heap, h, q)
  PROVE  /\ heap[h].next = At(h, q, 1) /\ heap[h].prev = At(h, q, Len(q))
         /\ (heap[h].next = h <=> q = << >>)
<1>1. Len(q) \in Nat /\ 0 \in 0 .. Len(q) /\ Len(q) \in 0 .. Len(q) /\ 0 + 1 = 1
  BY DEF Ring
<1>2. heap[h].next = At(h, q, 1) /\ heap[h].prev = At(h, q, Len(q))
  BY <1>1, AtFacts DEF Chain
<1>3. At(h, q, 1) = h <=> Len(q) = 0
  BY <1>1 DEF At, Ring
<1>4. Len(q) = 0 <=> q = << >>
  BY DEF Ring
<1> QED BY <1>2, <1>3, <1>4

LEMMA RingAppend ==
  ASSUME NEW D, NEW h, NEW q, Ring(D, h, q), NEW e \in D, e # h,
         \A i \in 1 .. Len(q) : q[i] # e
  PROVE  /\ Ring(D, h, Append(q, e)) /\ Len(Append(q, e)) = Len(q) + 1
         /\ \A i \in 0 .. Len(q) : At(h, Append(q, e), i) = At(h, q, i)
         /\ At(h, Append(q, e), Len(q) + 1) = e /\ At(h, Append(q, e), Len(q) + 2) = h
<1> DEFINE r == Append(q, e)
<1>1. /\ r \in Seq(D) /\ Len(r) = Len(q) + 1 /\ r[Len(q) + 1] = e /\ Len(q) \in Nat
      /\ \A i \in 1 .. Len(q) : r[i] = q[i]
  BY DEF Ring
<1> HIDE DEF r
<1>2. /\ Ring(D, h, r)
      /\ \A i \in 0 .. Len(q) : At(h, r, i) = At(h, q, i)
      /\ At(h, r, Len(q) + 1) = e /\ At(h, r, Len(q) + 2) = h
  BY <1>1 DEF Ring, At
<1> QED BY <1>1, <1>2 DEF r

LEMMA AddTail ==
  ASSUME NEW D, NEW heap \in HeapOver(D), NEW h, NEW q, Ring(D, h, q), Chain(heap, h, q),
         NEW e \in D, e # h, \A i \in 1 .. Len(q) : q[i] # e
  PROVE  /\ list_add_tail(heap, e, h) \in HeapOver(D)
         /\ Ring(D, h, Append(q, e)) /\ Chain(list_add_tail(heap, e, h), h, Append(q, e))
         /\ \A x \in D : x # e /\ x # h /\ (\A i \in 1 .. Len(q) : q[i] # x)
                         => /\ list_add_tail(heap, e, h)[x].next = heap[x].next
                            /\ list_add_tail(heap, e, h)[x].prev = heap[x].prev
<1> DEFINE p == At(h, q, Len(q))
           r == Append(q, e)
           heap2 == list_add_tail(heap, e, h)
<1>1. p \in D /\ h \in D /\ Len(q) \in Nat
  BY AtFacts DEF Ring
<1>2. heap2 = InsertBetween(heap, e, p, h)
  BY ChainEnds DEF list_add_tail
<1> HIDE DEF heap2
<1>3. p # e
  BY <1>1 DEF At
<1>4. p = h \/ \E i \in 1 .. Len(q) : q[i] = p
  BY DEF At
<1>5. /\ heap2 \in HeapOver(D)
      /\ \A x \in D :
           /\ heap2[x].next = (IF x = p THEN e ELSE IF x = e THEN h ELSE heap[x].next)
           /\ heap2[x].prev = (IF x = e THEN p ELSE IF x = h THEN e ELSE heap[x].prev)
  <2> HIDE DEF p
  <2> DEFINE i2 == InsertBetween(heap, e, p, h)
  <2>1. /\ i2 \in HeapOver(D)
        /\ \A x \in D :
             /\ i2[x].next = (IF x = p THEN e ELSE IF x = e THEN h ELSE heap[x].next)
             /\ i2[x].prev = (IF x = e THEN p ELSE IF x = h THEN e ELSE heap[x].prev)
    BY <1>1, InsertFacts
  <2> HIDE DEF i2
  <2>2. heap2 = i2
    BY <1>2 DEF i2
  <2> QED BY <2>1, <2>2
<1>6. /\ Ring(D, h, r) /\ Len(r) = Len(q) + 1
      /\ \A i \in 0 .. Len(q) : At(h, r, i) = At(h, q, i)
      /\ At(h, r, Len(q) + 1) = e /\ At(h, r, Len(q) + 2) = h
  BY RingAppend
<1> HIDE DEF r
<1>7. Chain(heap2, h, r)
  <2> SUFFICES ASSUME NEW i \in 0 .. Len(q) + 1
               PROVE  heap2[At(h, r, i)].next = At(h, r, i + 1) /\ heap2[At(h, r, i + 1)].prev = At(h, r, i)
    BY <1>6 DEF Chain
  <2>1. CASE i < Len(q)
    <3>1. i \in 0 .. Len(q) /\ i + 1 \in 1 .. Len(q) /\ i + 1 \in 0 .. Len(q) /\ i # Len(q)
      BY <1>1, <2>1
    <3>2. /\ At(h, r, i) = At(h, q, i) /\ At(h, r, i + 1) = At(h, q, i + 1)
          /\ At(h, q, i) # p /\ At(h, q, i) # e /\ At(h, q, i + 1) # e /\ At(h, q, i + 1) # h
          /\ At(h, q, i) \in D /\ At(h, q, i + 1) \in D
      <4>1. At(h, q, i) # p
        <5>1. Len(q) \in 0 .. Len(q)
          BY <1>1
        <5> QED BY <3>1, <5>1, AtFacts
      <4> QED BY <1>6, <3>1, <4>1, AtFacts DEF At, Ring
    <3>3. heap[At(h, q, i)].next = At(h, q, i + 1) /\ heap[At(h, q, i + 1)].prev = At(h, q, i)
      BY <3>1 DEF Chain
    <3> QED BY <1>5, <3>2, <3>3
  <2>2. CASE i = Len(q)
    <3>1. At(h, r, i) = p /\ At(h, r, i + 1) = e
      BY <1>1, <1>6, <2>2
    <3> QED BY <1>1, <1>5, <3>1
  <2>3. CASE i = Len(q) + 1
    <3>1. At(h, r, i) = e /\ At(h, r, i + 1) = h
      BY <1>1, <1>6, <2>3
    <3> QED BY <1>1, <1>3, <1>5, <3>1
  <2> QED BY <1>1, <2>1, <2>2, <2>3
<1>8. \A x \in D : x # e /\ x # h /\ (\A i \in 1 .. Len(q) : q[i] # x)
                   => heap2[x].next = heap[x].next /\ heap2[x].prev = heap[x].prev
  BY <1>4, <1>5
<1> QED BY <1>5, <1>6, <1>7, <1>8 DEF heap2, r

LEMMA RingPush ==
  ASSUME NEW D, NEW h, NEW q, Ring(D, h, q), NEW e \in D, e # h,
         \A i \in 1 .. Len(q) : q[i] # e
  PROVE  /\ Ring(D, h, <<e>> \o q) /\ Len(<<e>> \o q) = Len(q) + 1
         /\ \A i \in 1 .. Len(q) + 1 : At(h, <<e>> \o q, i + 1) = At(h, q, i)
         /\ At(h, <<e>> \o q, 1) = e /\ At(h, <<e>> \o q, 0) = h
<1> DEFINE r == <<e>> \o q
<1>1. /\ r \in Seq(D) /\ Len(r) = Len(q) + 1 /\ r[1] = e /\ Len(q) \in Nat
      /\ \A i \in 1 .. Len(q) : r[i + 1] = q[i]
  BY DEF Ring
<1> HIDE DEF r
<1>2. \A i \in 2 .. Len(q) + 1 : i - 1 \in 1 .. Len(q) /\ r[i] = q[i - 1]
  BY <1>1
<1>3. /\ Ring(D, h, r)
      /\ \A i \in 1 .. Len(q) + 1 : At(h, r, i + 1) = At(h, q, i)
      /\ At(h, r, 1) = e /\ At(h, r, 0) = h
  <2>1. /\ \A i \in 1 .. Len(q) + 1 : At(h, r, i + 1) = At(h, q, i)
        /\ At(h, r, 1) = e /\ At(h, r, 0) = h
    BY <1>1 DEF At
  <2>2. ASSUME NEW i \in 1 .. Len(r) PROVE r[i] # h
    <3>1. i = 1 \/ i \in 2 .. Len(q) + 1
      BY <1>1
    <3>2. \A k \in 1 .. Len(q) : q[k] # h
      BY DEF Ring
    <3>3. CASE i = 1
      BY <1>1, <3>3
    <3>4. CASE i \in 2 .. Len(q) + 1
      <4>1. i - 1 \in 1 .. Len(q) /\ r[i] = q[i - 1]
        BY <1>2, <3>4
      <4> QED BY <3>2, <4>1
    <3> QED BY <3>1, <3>3, <3>4
  <2>3. ASSUME NEW i \in 1 .. Len(r), NEW j \in 1 .. Len(r), r[i] = r[j] PROVE i = j
    <3>1. (i = 1 \/ i \in 2 .. Len(q) + 1) /\ (j = 1 \/ j \in 2 .. Len(q) + 1)
      BY <1>1
    <3>2. CASE i = 1 /\ j \in 2 .. Len(q) + 1
      BY <1>1, <1>2, <2>3, <3>2
    <3>3. CASE j = 1 /\ i \in 2 .. Len(q) + 1
      BY <1>1, <1>2, <2>3, <3>3
    <3>4. CASE i \in 2 .. Len(q) + 1 /\ j \in 2 .. Len(q) + 1
      <4>1. i - 1 = j - 1
        BY <1>2, <2>3, <3>4 DEF Ring
      <4> QED BY <1>1, <3>4, <4>1
    <3> QED BY <3>1, <3>2, <3>3, <3>4
  <2> QED BY <1>1, <2>1, <2>2, <2>3 DEF Ring
<1> QED BY <1>1, <1>3 DEF r

LEMMA AddHead ==
  ASSUME NEW D, NEW heap \in HeapOver(D), NEW h, NEW q, Ring(D, h, q), Chain(heap, h, q),
         NEW e \in D, e # h, \A i \in 1 .. Len(q) : q[i] # e
  PROVE  /\ list_add(heap, e, h) \in HeapOver(D)
         /\ Ring(D, h, <<e>> \o q) /\ Chain(list_add(heap, e, h), h, <<e>> \o q)
         /\ \A x \in D : x # e /\ x # h /\ (\A i \in 1 .. Len(q) : q[i] # x)
                         => /\ list_add(heap, e, h)[x].next = heap[x].next
                            /\ list_add(heap, e, h)[x].prev = heap[x].prev
<1> DEFINE n == At(h, q, 1)
           r == <<e>> \o q
           heap2 == list_add(heap, e, h)
<1>1. n \in D /\ h \in D /\ Len(q) \in Nat
  BY AtFacts DEF Ring
<1>2. heap2 = InsertBetween(heap, e, h, n)
  BY ChainEnds DEF list_add
<1> HIDE DEF heap2
<1>3. n # e
  BY <1>1 DEF At
<1>4. n = h \/ \E i \in 1 .. Len(q) : q[i] = n
  BY DEF At
<1>5. /\ heap2 \in HeapOver(D)
      /\ \A x \in D :
           /\ heap2[x].next = (IF x = h THEN e ELSE IF x = e THEN n ELSE heap[x].next)
           /\ heap2[x].prev = (IF x = e THEN h ELSE IF x = n THEN e ELSE heap[x].prev)
  <2> HIDE DEF n
  <2> DEFINE i2 == InsertBetween(heap, e, h, n)
  <2>1. /\ i2 \in HeapOver(D)
        /\ \A x \in D :
             /\ i2[x].next = (IF x = h THEN e ELSE IF x = e THEN n ELSE heap[x].next)
             /\ i2[x].prev = (IF x = e THEN h ELSE IF x = n THEN e ELSE heap[x].prev)
    BY <1>1, InsertFacts
  <2> HIDE DEF i2
  <2>2. heap2 = i2
    BY <1>2 DEF i2
  <2> QED BY <2>1, <2>2
<1>6. /\ Ring(D, h, r) /\ Len(r) = Len(q) + 1
      /\ \A i \in 1 .. Len(q) + 1 : At(h, r, i + 1) = At(h, q, i)
      /\ At(h, r, 1) = e /\ At(h, r, 0) = h
  BY RingPush
<1> HIDE DEF r
<1>7. Chain(heap2, h, r)
  <2> SUFFICES ASSUME NEW i \in 0 .. Len(q) + 1
               PROVE  heap2[At(h, r, i)].next = At(h, r, i + 1) /\ heap2[At(h, r, i + 1)].prev = At(h, r, i)
    BY <1>6 DEF Chain
  <2>1. CASE i > 1
    <3> DEFINE k == i - 1
    <3>1. /\ k \in 1 .. Len(q) /\ k \in 1 .. Len(q) + 1 /\ k + 1 \in 1 .. Len(q) + 1
          /\ k \in 0 .. Len(q) /\ i = k + 1 /\ k \in Int
      BY <1>1, <2>1
    <3> HIDE DEF k
    <3>2. /\ At(h, r, i) = At(h, q, k) /\ At(h, r, i + 1) = At(h, q, k + 1)
          /\ At(h, q, k) # h /\ At(h, q, k) # e /\ At(h, q, k + 1) # e /\ At(h, q, k + 1) # n
          /\ At(h, q, k) \in D /\ At(h, q, k + 1) \in D
      <4>1. At(h, q, k + 1) # n
        <5>1. 1 \in 1 .. Len(q) + 1 /\ k + 1 # 1
          BY <1>1, <3>1
        <5> QED BY <3>1, <5>1, AtFacts
      <4>2. At(h, r, i) = At(h, q, k) /\ At(h, r, i + 1) = At(h, q, k + 1)
        BY <1>6, <3>1
      <4> QED BY <3>1, <4>1, <4>2, AtFacts DEF At, Ring
    <3>3. heap[At(h, q, k)].next = At(h, q, k + 1) /\ heap[At(h, q, k + 1)].prev = At(h, q, k)
      BY <3>1 DEF Chain
    <3> QED BY <1>5, <3>2, <3>3
  <2>2. CASE i = 0
    <3>1. At(h, r, i) = h /\ At(h, r, i + 1) = e
      BY <1>6, <2>2
    <3> QED BY <1>1, <1>5, <3>1
  <2>3. CASE i = 1
    <3>1. At(h, r, i) = e /\ At(h, r, i + 1) = n
      BY <1>1, <1>6, <2>3
    <3> QED BY <1>1, <1>3, <1>5, <3>1
  <2> QED BY <1>1, <2>1, <2>2, <2>3
<1>8. \A x \in D : x # e /\ x # h /\ (\A i \in 1 .. Len(q) : q[i] # x)
                   => heap2[x].next = heap[x].next /\ heap2[x].prev = heap[x].prev
  BY <1>4, <1>5
<1> QED BY <1>5, <1>6, <1>7, <1>8 DEF heap2, r

\* The sequence q without its i-th element.
Without(q, i) == SubSeq(q, 1, i - 1) \o SubSeq(q, i + 1, Len(q))

LEMMA WithoutIs ==
  ASSUME NEW D, NEW q \in Seq(D), NEW i \in 1 .. Len(q)
  PROVE  /\ Without(q, i) \in Seq(D) /\ Len(Without(q, i)) = Len(q) - 1
         /\ \A k \in 1 .. Len(q) - 1 : Without(q, i)[k] = (IF k < i THEN q[k] ELSE q[k + 1])
<1> DEFINE a == SubSeq(q, 1, i - 1)
           b == SubSeq(q, i + 1, Len(q))
<1>1. Len(q) \in Nat /\ i \in Nat /\ i >= 1 /\ i <= Len(q)
  OBVIOUS
<1>2. a \in Seq(D) /\ Len(a) = i - 1 /\ \A k \in 1 .. i - 1 : a[k] = q[k]
  BY <1>1
<1>3. b \in Seq(D) /\ Len(b) = Len(q) - i /\ \A k \in 1 .. Len(q) - i : b[k] = q[k + i]
  <2>1. b \in Seq(D)
    BY <1>1
  <2>2. Len(b) = Len(q) - i
    BY <1>1
  <2>3. \A k \in 1 .. Len(q) - i : b[k] = q[i + 1 + k - 1]
    BY <1>1, <2>2
  <2>4. \A k \in Int : i + 1 + k - 1 = k + i
    BY <1>1
  <2> QED BY <2>1, <2>2, <2>3, <2>4
<1> HIDE DEF a, b
<1> DEFINE r == a \o b
<1>4. /\ r \in Seq(D) /\ Len(r) = Len(q) - 1
      /\ \A k \in 1 .. Len(q) - 1 : r[k] = (IF k <= i - 1 THEN a[k] ELSE b[k - (i - 1)])
  <2>0. a \in Seq(D) /\ b \in Seq(D)
    BY <1>2, <1>3
  <2>1. r \in Seq(D) /\ Len(r) = Len(a) + Len(b)
    BY <2>0
  <2>2. \A k \in 1 .. Len(a) + Len(b) : r[k] = (IF k <= Len(a) THEN a[k] ELSE b[k - Len(a)])
    BY <1>2, <1>3
  <2>3. Len(a) + Len(b) = Len(q) - 1
    BY <1>1, <1>2, <1>3
  <2> QED BY <1>2, <2>1, <2>2, <2>3
<1>5. Without(q, i) = r
  BY DEF Without, a, b
<1> HIDE DEF r
<1>6. ASSUME NEW k \in 1 .. Len(q) - 1 PROVE r[k] = (IF k < i THEN q[k] ELSE q[k + 1])
  <2>1. CASE k < i
    BY <1>1, <1>2, <1>4, <2>1
  <2>2. CASE ~(k < i)
    <3>1. k - (i - 1) \in 1 .. Len(q) - i /\ k - (i - 1) + i = k + 1 /\ ~(k <= i - 1)
      BY <1>1, <2>2
    <3> QED BY <1>3, <1>4, <2>2, <3>1
  <2> QED BY <2>1, <2>2
<1> QED BY <1>4, <1>5, <1>6

LEMMA RingWithout ==
  ASSUME NEW D, NEW h, NEW q, Ring(D, h, q), NEW i \in 1 .. Len(q)
  PROVE  /\ Ring(D, h, Without(q, i)) /\ Len(Without(q, i)) = Len(q) - 1
         /\ \A k \in 0 .. Len(q) :
              At(h, Without(q, i), k) = (IF k < i THEN At(h, q, k) ELSE At(h, q, k + 1))
         /\ \A k \in 1 .. Len(q) - 1 : Without(q, i)[k] # q[i] /\ \E j \in 1 .. Len(q) : Without(q, i)[k] = q[j]
         /\ \A j \in 1 .. Len(q) : j # i => \E k \in 1 .. Len(q) - 1 : Without(q, i)[k] = q[j]
<1> DEFINE r == Without(q, i)
<1>1. Len(q) \in Nat /\ q \in Seq(D) /\ i \in Nat /\ i >= 1 /\ i <= Len(q)
  BY DEF Ring
<1>2. /\ r \in Seq(D) /\ Len(r) = Len(q) - 1
      /\ \A k \in 1 .. Len(q) - 1 : r[k] = (IF k < i THEN q[k] ELSE q[k + 1])
  BY <1>1, WithoutIs
<1> HIDE DEF r
<1> DEFINE s(k) == IF k < i THEN k ELSE k + 1
<1>3. \A k \in 1 .. Len(q) - 1 : s(k) \in 1 .. Len(q) /\ s(k) # i /\ r[k] = q[s(k)]
  BY <1>1, <1>2
<1>4. \A k, j \in 1 .. Len(q) - 1 : s(k) = s(j) => k = j
  BY <1>1
<1>5. Ring(D, h, r)
  <2>1. \A k \in 1 .. Len(r) : r[k] # h
    BY <1>2, <1>3 DEF Ring
  <2>2. ASSUME NEW k \in 1 .. Len(r), NEW j \in 1 .. Len(r), r[k] = r[j] PROVE k = j
    <3>1. s(k) = s(j)
      BY <1>2, <1>3, <2>2 DEF Ring
    <3> QED BY <1>2, <1>4, <3>1
  <2> QED BY <1>2, <2>1, <2>2 DEF Ring
<1>6. ASSUME NEW k \in 0 .. Len(q)
      PROVE  At(h, r, k) = (IF k < i THEN At(h, q, k) ELSE At(h, q, k + 1))
  BY <1>1, <1>2 DEF At
<1>7. ASSUME NEW k \in 1 .. Len(q) - 1 PROVE r[k] # q[i] /\ \E j \in 1 .. Len(q) : r[k] = q[j]
  BY <1>3 DEF Ring
<1>8. ASSUME NEW j \in 1 .. Len(q), j # i PROVE \E k \in 1 .. Len(q) - 1 : r[k] = q[j]
  <2>1. CASE j < i
    <3>1. j \in 1 .. Len(q) - 1 /\ r[j] = q[j]
      BY <1>1, <1>2, <2>1
    <3> QED BY <3>1
  <2>2. CASE j > i
    <3>1. j - 1 \in 1 .. Len(q) - 1 /\ ~(j - 1 < i) /\ j - 1 + 1 = j
      BY <1>1, <2>2
    <3>2. r[j - 1] = q[j]
      BY <1>2, <3>1
    <3> QED BY <3>1, <3>2
  <2> QED BY <1>1, <1>8, <2>1, <2>2
<1> QED BY <1>2, <1>5, <1>6, <1>7, <1>8 DEF r

SameLinks(heap, heap2, x) == heap2[x].next = heap[x].next /\ heap2[x].prev = heap[x].prev

LEMMA DelEntry ==
  ASSUME NEW D, NULL \in D, NEW heap \in HeapOver(D), NEW h, NEW q, Ring(D, h, q),
         Chain(heap, h, q), NEW i \in 1 .. Len(q)
  PROVE  /\ list_del(heap, q[i]) \in HeapOver(D)
         /\ Chain(list_del(heap, q[i]), h, Without(q, i))
         /\ list_del(heap, q[i])[q[i]].next = NULL /\ list_del(heap, q[i])[q[i]].prev = NULL
         /\ \A x \in D : x # h /\ (\A j \in 1 .. Len(q) : q[j] # x)
                         => SameLinks(heap, list_del(heap, q[i]), x)
<1> DEFINE e == q[i]
           p == At(h, q, i - 1)
           n == At(h, q, i + 1)
           r == Without(q, i)
           heap2 == list_del(heap, e)
<1>1. /\ Len(q) \in Nat /\ i \in Nat /\ i >= 1 /\ i <= Len(q)
      /\ i \in 0 .. Len(q) /\ i - 1 \in 0 .. Len(q) /\ i - 1 + 1 = i
      /\ i \in 1 .. Len(q) + 1 /\ i + 1 \in 1 .. Len(q) + 1
  BY DEF Ring
<1>2. At(h, q, i) = e /\ e \in D /\ p \in D /\ n \in D
  BY <1>1, AtFacts DEF Ring
<1>3. heap[e].prev = p /\ heap[e].next = n
  <2>1. heap[At(h, q, i)].next = At(h, q, i + 1)
    BY <1>1 DEF Chain
  <2>2. heap[At(h, q, i - 1 + 1)].prev = At(h, q, i - 1)
    BY <1>1 DEF Chain
  <2> QED BY <1>1, <1>2, <2>1, <2>2
<1>4. p # e /\ n # e
  BY <1>1, <1>2, AtFacts
<1>5. p = h \/ \E j \in 1 .. Len(q) : q[j] = p
  BY <1>1 DEF At
<1>6. n = h \/ \E j \in 1 .. Len(q) : q[j] = n
  BY <1>1 DEF At
<1>7. /\ Ring(D, h, r) /\ Len(r) = Len(q) - 1
      /\ \A k \in 0 .. Len(q) : At(h, r, k) = (IF k < i THEN At(h, q, k) ELSE At(h, q, k + 1))
  BY RingWithout
<1> HIDE DEF r
<1>8. /\ heap2 \in HeapOver(D)
      /\ \A x \in D :
           /\ heap2[x].next = (IF x = e THEN NULL ELSE IF x = p THEN n ELSE heap[x].next)
           /\ heap2[x].prev = (IF x = e THEN NULL ELSE IF x = n THEN p ELSE heap[x].prev)
  <2> HIDE DEF e, p, n
  <2>1. e \in D /\ heap2 \in HeapOver(D) /\ Unlinks(D, heap, heap2, e)
    BY <1>2, DelFacts
  <2> HIDE DEF heap2
  <2>2. ASSUME NEW x \in D
        PROVE  /\ heap2[x].next = (IF x = e THEN NULL ELSE IF x = p THEN n ELSE heap[x].next)
               /\ heap2[x].prev = (IF x = e THEN NULL ELSE IF x = n THEN p ELSE heap[x].prev)
    BY <1>3, <2>1 DEF Unlinks
  <2> QED BY <2>1, <2>2
<1> HIDE DEF heap2
<1>9. Chain(heap2, h, r)
  <2> SUFFICES ASSUME NEW k \in 0 .. Len(q) - 1
               PROVE  heap2[At(h, r, k)].next = At(h, r, k + 1) /\ heap2[At(h, r, k + 1)].prev = At(h, r, k)
    BY <1>7 DEF Chain
  <2>0. k \in Int /\ k \in 0 .. Len(q) /\ k + 1 \in 0 .. Len(q) /\ k + 1 \in 1 .. Len(q) + 1
    BY <1>1
  <2>1. CASE k < i - 1
    <3>1. k < i /\ k + 1 < i /\ k # i - 1 /\ k # i /\ k + 1 # i /\ k + 1 # i + 1
      BY <1>1, <2>1
    <3>2. At(h, r, k) = At(h, q, k) /\ At(h, r, k + 1) = At(h, q, k + 1)
      BY <1>7, <2>0, <3>1
    <3>3. /\ At(h, q, k) # e /\ At(h, q, k) # p /\ At(h, q, k + 1) # e /\ At(h, q, k + 1) # n
          /\ At(h, q, k) \in D /\ At(h, q, k + 1) \in D
      BY <1>1, <1>2, <2>0, <3>1, AtFacts
    <3>4. heap[At(h, q, k)].next = At(h, q, k + 1) /\ heap[At(h, q, k + 1)].prev = At(h, q, k)
      BY <2>0 DEF Chain
    <3> QED BY <1>8, <3>2, <3>3, <3>4
  <2>2. CASE k = i - 1
    <3>1. At(h, r, k) = p /\ At(h, r, k + 1) = n
      <4>1. k < i /\ ~(k + 1 < i) /\ k + 1 + 1 = i + 1
        BY <1>1, <2>2
      <4> QED BY <1>7, <2>0, <2>2, <4>1
    <3> QED BY <1>2, <1>4, <1>8, <3>1
  <2>3. CASE k > i - 1
    <3> DEFINE m == k + 1
    <3>1. /\ ~(k < i) /\ ~(k + 1 < i) /\ m \in 0 .. Len(q) /\ m + 1 \in 1 .. Len(q) + 1 /\ m \in 1 .. Len(q) + 1
          /\ m # i - 1 /\ m # i /\ m + 1 # i /\ m + 1 # i + 1 /\ m \in Int /\ m + 1 \in Int
      BY <1>1, <2>0, <2>3
    <3>2. At(h, r, k) = At(h, q, m) /\ At(h, r, k + 1) = At(h, q, m + 1)
      BY <1>7, <2>0, <3>1
    <3> HIDE DEF m
    <3>3. /\ At(h, q, m) # e /\ At(h, q, m) # p /\ At(h, q, m + 1) # e /\ At(h, q, m + 1) # n
          /\ At(h, q, m) \in D /\ At(h, q, m + 1) \in D
      BY <1>1, <1>2, <3>1, AtFacts
    <3>4. heap[At(h, q, m)].next = At(h, q, m + 1) /\ heap[At(h, q, m + 1)].prev = At(h, q, m)
      BY <3>1 DEF Chain
    <3> QED BY <1>8, <3>2, <3>3, <3>4
  <2> QED BY <1>1, <2>0, <2>1, <2>2, <2>3
<1>10. heap2[e].next = NULL /\ heap2[e].prev = NULL
  BY <1>2, <1>8
<1>11. \A x \in D : x # h /\ (\A j \in 1 .. Len(q) : q[j] # x)
                    => heap2[x].next = heap[x].next /\ heap2[x].prev = heap[x].prev
  <2> SUFFICES ASSUME NEW x \in D, x # h, \A j \in 1 .. Len(q) : q[j] # x
               PROVE  heap2[x].next = heap[x].next /\ heap2[x].prev = heap[x].prev
    OBVIOUS
  <2>1. x # e /\ x # p /\ x # n
    BY <1>5, <1>6
  <2> QED BY <1>8, <2>1
<1>12. \A x \in D : x # h /\ (\A j \in 1 .. Len(q) : q[j] # x) => SameLinks(heap, heap2, x)
  BY <1>11 DEF SameLinks
<1> QED BY <1>8, <1>9, <1>10, <1>12 DEF heap2, r

-----------------------------------------------------------------------------
(* Walks. *)

LEMMA CursorIs ==
  ASSUME NEW D, NEW heap, NEW h, NEW q, Ring(D, h, q), Chain(heap, h, q),
         NEW T \in Nat
  PROVE  /\ Cursor(heap, h, T) = [i \in 0 .. T |-> Cursor(heap, h, T)[i]]
         /\ \A i \in 0 .. T : Cursor(heap, h, T)[i] = At(h, q, i + 1)
<1> DEFINE Body(w) == [i \in 0 .. T |->
                         IF i = 0 THEN heap[h].next
                         ELSE LET x == w[i - 1] IN IF x = h THEN h ELSE heap[x].next]
           f == [i \in 0 .. T |-> At(h, q, i + 1)]
           c == Cursor(heap, h, T)
<1>1. Len(q) \in Nat
  BY DEF Ring
<1>2. ASSUME NEW i \in Nat \ {0}
      PROVE  At(h, q, i + 1) = (IF At(h, q, i) = h THEN h ELSE heap[At(h, q, i)].next)
  <2>1. CASE i \in 1 .. Len(q)
    <3>1. At(h, q, i) # h /\ i \in 0 .. Len(q)
      BY <1>1, <2>1 DEF At, Ring
    <3> QED BY <3>1 DEF Chain
  <2>2. CASE i \notin 1 .. Len(q)
    <3>1. i + 1 \notin 1 .. Len(q)
      BY <1>1, <2>2
    <3> QED BY <2>2, <3>1 DEF At
  <2> QED BY <2>1, <2>2
<1>3. heap[h].next = At(h, q, 1)
  BY ChainEnds
<1>4. f = Body(f)
  <2> SUFFICES ASSUME NEW i \in 0 .. T
               PROVE  f[i] = (IF i = 0 THEN heap[h].next
                              ELSE IF f[i - 1] = h THEN h ELSE heap[f[i - 1]].next)
    OBVIOUS
  <2>1. CASE i = 0
    BY <1>3, <2>1
  <2>2. CASE i # 0
    <3>1. i - 1 \in 0 .. T /\ i - 1 + 1 = i /\ i \in Nat \ {0}
      BY <2>2
    <3>2. f[i - 1] = At(h, q, i) /\ f[i] = At(h, q, i + 1)
      BY <3>1
    <3> HIDE DEF f
    <3> QED BY <1>2, <2>2, <3>1, <3>2
  <2> QED BY <2>1, <2>2
<1>5. c = CHOOSE w : w = Body(w)
  BY DEF Cursor
<1> HIDE DEF f, Body, c
<1>6. c = Body(c)
  BY <1>4, <1>5
<1>7. c = [i \in 0 .. T |-> c[i]]
  BY <1>6 DEF Body
<1>8. /\ c[0] = At(h, q, 1)
      /\ \A i \in 1 .. T : c[i] = (IF c[i - 1] = h THEN h ELSE heap[c[i - 1]].next)
  <2>1. c[0] = heap[h].next
    BY <1>6 DEF Body
  <2>2. ASSUME NEW i \in 1 .. T PROVE c[i] = (IF c[i - 1] = h THEN h ELSE heap[c[i - 1]].next)
    BY <1>6 DEF Body
  <2> QED BY <1>3, <2>1, <2>2
<1>9. \A i \in 0 .. T : c[i] = At(h, q, i + 1)
  <2> DEFINE X == {i \in 0 .. T : c[i] # At(h, q, i + 1)}
  <2> SUFFICES ASSUME X # {} PROVE FALSE
    OBVIOUS
  <2>1. X \subseteq Nat
    OBVIOUS
  <2> HIDE DEF X
  <2>2. PICK m \in X : \A k \in X : ~(<<k, m>> \in OpToRel(<, Nat))
    BY <2>1, WFMin, NatLessThanWellFounded
  <2>3. \A k \in X : ~(k < m)
    BY <2>1, <2>2 DEF OpToRel
  <2>4. m \in 0 .. T /\ c[m] # At(h, q, m + 1)
    BY DEF X
  <2>5. m # 0
    BY <1>8, <2>4
  <2>6. m - 1 \in 0 .. T /\ m - 1 < m /\ m \in 1 .. T /\ m \in Nat \ {0} /\ m - 1 + 1 = m
    BY <2>4, <2>5
  <2>7. c[m - 1] = At(h, q, m)
    BY <2>3, <2>6 DEF X
  <2> QED BY <1>2, <1>8, <2>4, <2>6, <2>7
<1> QED BY <1>7, <1>9 DEF c

\* list_for_each, given turns enough, meets the entries of the list and ends.
LEMMA WalkIs ==
  ASSUME NEW D, NEW heap, NEW h, NEW q, Ring(D, h, q), Chain(heap, h, q),
         NEW T \in Nat, Len(q) <= T
  PROVE  ForEach(heap, h, T) = q /\ Ends(heap, h, T)
<1> DEFINE c == Cursor(heap, h, T)
<1>1. Len(q) \in Nat /\ q \in Seq(D)
  BY DEF Ring
<1>2. \A i \in 0 .. T : c[i] = At(h, q, i + 1)
  BY CursorIs
<1>3. ForEach(heap, h, T) = [i \in {j \in 1 .. T : c[j - 1] # h} |-> c[i - 1]]
  BY DEF ForEach
<1>4. Ends(heap, h, T) <=> c[T] = h
  BY DEF Ends
<1> HIDE DEF c
<1>5. ASSUME NEW j \in 1 .. T PROVE c[j - 1] = At(h, q, j)
  <2>1. j - 1 \in 0 .. T /\ j - 1 + 1 = j
    OBVIOUS
  <2> QED BY <1>2, <2>1
<1>6. {j \in 1 .. T : c[j - 1] # h} = 1 .. Len(q)
  <2>1. \A j \in 1 .. T : At(h, q, j) # h <=> j \in 1 .. Len(q)
    BY <1>1 DEF At, Ring
  <2>2. \A j \in 1 .. Len(q) : j \in 1 .. T
    BY <1>1
  <2> QED BY <1>5, <2>1, <2>2
<1>7. \A j \in 1 .. Len(q) : c[j - 1] = q[j]
  <2> SUFFICES ASSUME NEW j \in 1 .. Len(q) PROVE c[j - 1] = q[j]
    OBVIOUS
  <2>1. j \in 1 .. T
    BY <1>1
  <2> QED BY <1>5, <2>1 DEF At
<1>8. [i \in 1 .. Len(q) |-> c[i - 1]] = q
  BY <1>1, <1>7
<1>9. c[T] = h
  <2>1. T \in 0 .. T /\ T + 1 \notin 1 .. Len(q)
    BY <1>1
  <2> QED BY <1>2, <2>1 DEF At
<1> QED BY <1>3, <1>4, <1>6, <1>8, <1>9

\* The same list seen from its other end.
Backwards(q) == [i \in 1 .. Len(q) |-> q[(Len(q) - i) + 1]]

LEMMA WalkBackIs ==
  ASSUME NEW D, NEW heap \in HeapOver(D), NEW h, NEW q, Ring(D, h, q), Chain(heap, h, q),
         NEW T \in Nat, Len(q) <= T
  PROVE  ForEachBack(heap, h, T) = Backwards(q)
<1> DEFINE m == [x \in DOMAIN heap |-> [next |-> heap[x].prev, prev |-> heap[x].next]]
           r == Backwards(q)
           n == Len(q)
<1>1. n \in Nat /\ q \in Seq(D)
  BY DEF Ring
<1>2. /\ r \in Seq(D) /\ Len(r) = n
      /\ \A i \in 1 .. n : r[i] = q[(n - i) + 1] /\ (n - i) + 1 \in 1 .. n
  <2>1. \A i \in 1 .. n : (n - i) + 1 \in 1 .. n /\ q[(n - i) + 1] \in D
    BY <1>1
  <2> QED BY <1>1, <2>1 DEF Backwards
<1>3. \A x \in D : m[x].next = heap[x].prev /\ m[x].prev = heap[x].next
  BY DEF HeapOver
<1>4. ForEachBack(heap, h, T) = ForEach(m, h, T)
  BY DEF ForEachBack
<1> HIDE DEF m, r
<1>5. Ring(D, h, r)
  <2>1. \A i \in 1 .. n : r[i] # h
    BY <1>2 DEF Ring
  <2>2. ASSUME NEW i \in 1 .. n, NEW j \in 1 .. n, r[i] = r[j] PROVE i = j
    <3>1. (n - i) + 1 = (n - j) + 1
      BY <1>2, <2>2 DEF Ring
    <3> QED BY <1>1, <3>1
  <2> QED BY <1>2, <2>1, <2>2 DEF Ring
<1>6. \A i \in 0 .. n + 1 : At(h, r, i) = At(h, q, (n + 1) - i)
  <2> SUFFICES ASSUME NEW i \in 0 .. n + 1 PROVE At(h, r, i) = At(h, q, (n + 1) - i)
    OBVIOUS
  <2>1. (n - i) + 1 = (n + 1) - i
    BY <1>1
  <2>2. i \in 1 .. n <=> (n + 1) - i \in 1 .. n
    BY <1>1
  <2> QED BY <1>2, <2>1, <2>2 DEF At
<1>7. Chain(m, h, r)
  <2> SUFFICES ASSUME NEW i \in 0 .. n
               PROVE  m[At(h, r, i)].next = At(h, r, i + 1) /\ m[At(h, r, i + 1)].prev = At(h, r, i)
    BY <1>2 DEF Chain
  <2> DEFINE k == n - i
  <2>1. k \in 0 .. n /\ (n + 1) - i = k + 1 /\ (n + 1) - (i + 1) = k /\ i \in 0 .. n + 1 /\ i + 1 \in 0 .. n + 1
        /\ k \in Int /\ k + 1 \in Int
    BY <1>1
  <2> HIDE DEF k
  <2>2. At(h, r, i) = At(h, q, k + 1) /\ At(h, r, i + 1) = At(h, q, k)
    BY <1>6, <2>1
  <2>3. At(h, q, k) \in D /\ At(h, q, k + 1) \in D
    BY <2>1, AtFacts
  <2>4. heap[At(h, q, k)].next = At(h, q, k + 1) /\ heap[At(h, q, k + 1)].prev = At(h, q, k)
    BY <2>1 DEF Chain
  <2> QED BY <1>3, <2>2, <2>3, <2>4
<1> HIDE DEF n
<1>8. Len(r) <= T
  BY <1>2 DEF n
<1>9. ForEach(m, h, T) = r
  BY <1>5, <1>7, <1>8, WalkIs
<1> QED BY <1>4, <1>9 DEF r

=============================================================================
