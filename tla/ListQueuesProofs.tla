-------------------------- MODULE ListQueuesProofs --------------------------
(***************************************************************************)
(* The lists of list.c are the sequences the kernel means, for any number  *)
(* of lists and of entries, whatever operations are made on them.          *)
(***************************************************************************)
EXTENDS ListQueues, ListHeadProofs, FiniteSetTheorems

\* Every list is a chain of its own.
LQInv ==
  /\ heap \in HeapOver(Nodes)
  /\ lists \in [Heads -> Seq(Entry)]
  /\ \A h \in Heads : Ring(Nodes, h, lists[h]) /\ Chain(heap, h, lists[h])
  /\ \A h, g \in Heads : h # g => Linked(h) \cap Linked(g) = {}
  /\ FreeEntriesUnlinked

LEMMA NodeFacts ==
  /\ NULL \notin Entry /\ NULL \notin Heads /\ Entry \cap Heads = {}
  /\ NULL \in Nodes /\ Entry \subseteq Nodes /\ Heads \subseteq Nodes
BY NodesAssumption DEF NULL, Nodes

LEMMA LinkedIs ==
  ASSUME lists \in [Heads -> Seq(Entry)], NEW h \in Heads
  PROVE  /\ lists[h] \in Seq(Entry) /\ Len(lists[h]) \in Nat
         /\ Linked(h) \subseteq Entry
         /\ \A x : x \in Linked(h) <=> \E i \in 1 .. Len(lists[h]) : lists[h][i] = x
<1>1. lists[h] \in Seq(Entry)
  OBVIOUS
<1>2. DOMAIN lists[h] = 1 .. Len(lists[h])
  BY <1>1
<1> QED BY <1>1, <1>2 DEF Linked

\* A record of two NULLs, by its fields.
LEMMA Nulls ==
  ASSUME NEW D, NEW hp \in HeapOver(D), NEW x \in D
  PROVE  hp[x] = [next |-> NULL, prev |-> NULL] <=> hp[x].next = NULL /\ hp[x].prev = NULL
BY DEF HeapOver

LEMMA LQInitInv == LQInit => LQInv
<1> SUFFICES ASSUME LQInit PROVE LQInv
  OBVIOUS
<1>1. heap = [x \in Nodes |-> IF x \in Heads THEN [next |-> x, prev |-> x]
                               ELSE [next |-> NULL, prev |-> NULL]]
      /\ lists = [h \in Heads |-> <<>>]
  BY DEF LQInit
<1>2. heap \in HeapOver(Nodes)
  BY <1>1, NodeFacts DEF HeapOver
<1>3. lists \in [Heads -> Seq(Entry)]
  BY <1>1
<1>4. ASSUME NEW h \in Heads
      PROVE  Ring(Nodes, h, lists[h]) /\ Chain(heap, h, lists[h]) /\ Linked(h) = {}
  <2>1. lists[h] = << >> /\ heap[h].next = h /\ heap[h].prev = h
    BY <1>1, NodeFacts
  <2>2. Ring(Nodes, h, << >>)
    BY NodeFacts DEF Ring
  <2>3. Chain(heap, h, << >>)
    BY <2>1, ChainEmpty
  <2>4. Linked(h) = {}
    BY <2>1 DEF Linked
  <2> QED BY <2>1, <2>2, <2>3, <2>4
<1>5. FreeEntriesUnlinked
  BY <1>1, NodeFacts DEF FreeEntriesUnlinked
<1> QED BY <1>2, <1>3, <1>4, <1>5 DEF LQInv

\* An operation on one list: what it leaves there, and what it leaves alone.
LEMMA OneList ==
  ASSUME LQInv, NEW h \in Heads, NEW r \in Seq(Entry), heap' \in HeapOver(Nodes),
         Ring(Nodes, h, r), Chain(heap', h, r), lists' = [lists EXCEPT ![h] = r],
         \A i \in 1 .. Len(r) : \A g \in Heads : g # h => r[i] \notin Linked(g),
         \A x \in Nodes : x # h /\ x \notin Linked(h) /\ (\A i \in 1 .. Len(r) : r[i] # x)
                            => heap'[x].next = heap[x].next /\ heap'[x].prev = heap[x].prev,
         \A x \in Linked(h) : (\A i \in 1 .. Len(r) : r[i] # x)
                                => heap'[x].next = NULL /\ heap'[x].prev = NULL
  PROVE  LQInv'
<1>1. /\ heap \in HeapOver(Nodes) /\ lists \in [Heads -> Seq(Entry)]
      /\ \A g \in Heads : Ring(Nodes, g, lists[g]) /\ Chain(heap, g, lists[g])
      /\ \A f, g \in Heads : f # g => Linked(f) \cap Linked(g) = {}
      /\ FreeEntriesUnlinked
  BY DEF LQInv
<1>2. /\ lists' \in [Heads -> Seq(Entry)] /\ lists'[h] = r
      /\ \A g \in Heads : g # h => lists'[g] = lists[g]
  BY <1>1
<1>3. (\A x : x \in Linked(h)' <=> \E i \in 1 .. Len(r) : r[i] = x)
  <2>1. DOMAIN r = 1 .. Len(r)
    OBVIOUS
  <2> QED BY <1>2, <2>1 DEF Linked
<1>4. \A g \in Heads : g # h => Linked(g)' = Linked(g)
  BY <1>2 DEF Linked
<1>5. ASSUME NEW g \in Heads PROVE Ring(Nodes, g, lists'[g]) /\ Chain(heap', g, lists'[g])
  <2>1. CASE g = h
    BY <1>2, <2>1
  <2>2. CASE g # h
    <3>1. ASSUME NEW x \in Nodes, x = g \/ \E i \in 1 .. Len(lists[g]) : lists[g][i] = x
          PROVE  heap'[x].next = heap[x].next /\ heap'[x].prev = heap[x].prev
      <4>1. x = g \/ x \in Linked(g)
        BY <1>1, <3>1, LinkedIs
      <4>2. x # h /\ x \notin Linked(h) /\ \A i \in 1 .. Len(r) : r[i] # x
        <5>1. CASE x = g
          <6>1. x \notin Entry /\ Linked(h) \subseteq Entry /\ \A i \in 1 .. Len(r) : r[i] \in Entry
            BY <1>1, <5>1, NodeFacts, LinkedIs
          <6> QED BY <2>2, <5>1, <6>1
        <5>2. CASE x \in Linked(g)
          <6>1. x \in Entry
            BY <1>1, <5>2, LinkedIs
          <6> QED BY <1>1, <2>2, <5>2, <6>1, NodeFacts
        <5> QED BY <4>1, <5>1, <5>2
      <4> QED BY <4>2
    <3>2. Chain(heap', g, lists[g])
      <4> DEFINE q == lists[g]
                 heap2 == heap'
      <4>1. Ring(Nodes, g, q) /\ Chain(heap, g, q)
        BY <1>1
      <4>2. \A x \in Nodes : x = g \/ (\E i \in 1 .. Len(q) : q[i] = x)
                             => heap2[x].next = heap[x].next /\ heap2[x].prev = heap[x].prev
        BY <3>1
      <4> HIDE DEF q, heap2
      <4>3. Chain(heap2, g, q)
        BY <4>1, <4>2, ChainFrame
      <4> QED BY <4>3 DEF q, heap2
    <3> QED BY <1>1, <1>2, <2>2, <3>2
  <2> QED BY <2>1, <2>2
<1>6. ASSUME NEW f \in Heads, NEW g \in Heads, f # g PROVE (Linked(f) \cap Linked(g) = {})'
  <2>1. \A k \in Heads : k # h => \A x \in Linked(k)' : x \notin Linked(h)'
    BY <1>3, <1>4
  <2> QED BY <1>1, <1>4, <1>6, <2>1
<1>7. FreeEntriesUnlinked'
  <2>1. ASSUME NEW x \in Entry, ~InSome(x)' PROVE heap'[x].next = NULL /\ heap'[x].prev = NULL
    <3>1. \A g \in Heads : x \notin Linked(g)'
      BY <2>1 DEF InSome
    <3>2. \A i \in 1 .. Len(r) : r[i] # x
      BY <1>3, <3>1
    <3>3. CASE x \in Linked(h)
      BY <3>2, <3>3
    <3>4. CASE x \notin Linked(h)
      <4>1. ~InSome(x)
        BY <1>4, <3>1, <3>4 DEF InSome
      <4>2. x \in Nodes /\ x # h
        BY NodeFacts
      <4>3. heap[x].next = NULL /\ heap[x].prev = NULL
        BY <1>1, <4>1 DEF FreeEntriesUnlinked
      <4> QED BY <3>2, <3>4, <4>2, <4>3
    <3> QED BY <3>3, <3>4
  <2>2. heap'[NULL].next = NULL /\ heap'[NULL].prev = NULL
    <3>1. NULL \in Nodes /\ NULL # h /\ NULL \notin Linked(h) /\ \A i \in 1 .. Len(r) : r[i] # NULL
      BY <1>1, NodeFacts, LinkedIs
    <3>2. heap[NULL].next = NULL /\ heap[NULL].prev = NULL
      BY <1>1 DEF FreeEntriesUnlinked
    <3> QED BY <3>1, <3>2
  <2>3. \A x \in Nodes : heap'[x].next = NULL /\ heap'[x].prev = NULL
                         => heap'[x] = [next |-> NULL, prev |-> NULL]
    BY Nulls
  <2> QED BY <2>1, <2>2, <2>3, NodeFacts DEF FreeEntriesUnlinked
<1> QED BY <1>2, <1>5, <1>6, <1>7 DEF LQInv
\* An entry that is in no list, linked at either end of one.
LEMMA AddKeeps ==
  ASSUME LQInv, NEW e \in Entry, NEW h \in Heads, AddFirst(e, h) \/ AddLast(e, h)
  PROVE  LQInv'
<1> DEFINE q == lists[h]
<1>1. /\ heap \in HeapOver(Nodes) /\ lists \in [Heads -> Seq(Entry)]
      /\ Ring(Nodes, h, q) /\ Chain(heap, h, q) /\ ~InSome(e)
  BY DEF LQInv, AddFirst, AddLast
<1>2. q \in Seq(Entry) /\ \A x : x \in Linked(h) <=> \E i \in 1 .. Len(q) : q[i] = x
  BY <1>1, LinkedIs
<1>3. e \in Nodes /\ e # h /\ \A i \in 1 .. Len(q) : q[i] # e
  BY <1>1, <1>2, NodeFacts DEF InSome
<1>4. \A g \in Heads : g # h => e \notin Linked(g) /\ \A i \in 1 .. Len(q) : q[i] \notin Linked(g)
  BY <1>1, <1>2 DEF LQInv, InSome
<1>5. ASSUME NEW r \in Seq(Entry), heap' \in HeapOver(Nodes), Ring(Nodes, h, r), Chain(heap', h, r),
             lists' = [lists EXCEPT ![h] = r],
             \A i \in 1 .. Len(r) : r[i] = e \/ \E j \in 1 .. Len(q) : r[i] = q[j],
             \A j \in 1 .. Len(q) : \E i \in 1 .. Len(r) : r[i] = q[j],
             \E i \in 1 .. Len(r) : r[i] = e,
             \A x \in Nodes : x # e /\ x # h /\ (\A i \in 1 .. Len(q) : q[i] # x)
                              => heap'[x].next = heap[x].next /\ heap'[x].prev = heap[x].prev
      PROVE  LQInv'
  <2>1. \A i \in 1 .. Len(r) : \A g \in Heads : g # h => r[i] \notin Linked(g)
    BY <1>4, <1>5
  <2>2. \A x \in Nodes : x # h /\ x \notin Linked(h) /\ (\A i \in 1 .. Len(r) : r[i] # x)
                         => heap'[x].next = heap[x].next /\ heap'[x].prev = heap[x].prev
    BY <1>2, <1>5
  <2>3. ASSUME NEW x \in Linked(h), \A i \in 1 .. Len(r) : r[i] # x PROVE FALSE
    <3>1. PICK j \in 1 .. Len(q) : q[j] = x
      BY <1>2
    <3> QED BY <1>5, <2>3, <3>1
  <2>4. \A x \in Linked(h) : (\A i \in 1 .. Len(r) : r[i] # x)
                             => heap'[x].next = NULL /\ heap'[x].prev = NULL
    BY <2>3
  <2> HIDE DEF q
  <2> QED BY <1>5, <2>1, <2>2, <2>4, OneList
<1>6. CASE AddFirst(e, h)
  <2> DEFINE r == <<e>> \o q
  <2>1. heap' = list_add(heap, e, h) /\ lists' = [lists EXCEPT ![h] = r]
    BY <1>1, <1>6 DEF AddFirst
  <2>2. /\ r \in Seq(Entry) /\ Len(r) = Len(q) + 1 /\ r[1] = e
        /\ \A i \in 1 .. Len(q) : r[i + 1] = q[i]
    BY <1>2
  <2>3. /\ list_add(heap, e, h) \in HeapOver(Nodes) /\ Ring(Nodes, h, r)
        /\ Chain(list_add(heap, e, h), h, r)
        /\ \A x \in Nodes : x # e /\ x # h /\ (\A i \in 1 .. Len(q) : q[i] # x)
                            => /\ list_add(heap, e, h)[x].next = heap[x].next
                               /\ list_add(heap, e, h)[x].prev = heap[x].prev
    <3> HIDE DEF q
    <3> QED BY <1>1, <1>3, AddHead
  <2> HIDE DEF q, r
  <2>4. Len(q) \in Nat
    BY <1>2
  <2>5. \A i \in 1 .. Len(r) : i = 1 \/ (i - 1 \in 1 .. Len(q) /\ i - 1 + 1 = i)
    BY <2>2, <2>4
  <2>6. \A i \in 1 .. Len(q) : i + 1 \in 1 .. Len(r)
    BY <2>2, <2>4
  <2>7. 1 \in 1 .. Len(r)
    BY <2>2, <2>4
  <2>8. \A i \in 1 .. Len(r) : r[i] = e \/ \E j \in 1 .. Len(q) : r[i] = q[j]
    BY <2>2, <2>5
  <2>9. \A j \in 1 .. Len(q) : \E i \in 1 .. Len(r) : r[i] = q[j]
    BY <2>2, <2>6
  <2>10. \E i \in 1 .. Len(r) : r[i] = e
    BY <2>2, <2>7
  <2> QED BY <1>5, <2>1, <2>2, <2>3, <2>8, <2>9, <2>10
<1>7. CASE AddLast(e, h)
  <2> DEFINE r == Append(q, e)
  <2>1. heap' = list_add_tail(heap, e, h) /\ lists' = [lists EXCEPT ![h] = r]
    BY <1>1, <1>7 DEF AddLast
  <2>2. /\ r \in Seq(Entry) /\ Len(r) = Len(q) + 1 /\ r[Len(q) + 1] = e
        /\ \A i \in 1 .. Len(q) : r[i] = q[i]
    BY <1>2
  <2>3. /\ list_add_tail(heap, e, h) \in HeapOver(Nodes) /\ Ring(Nodes, h, r)
        /\ Chain(list_add_tail(heap, e, h), h, r)
        /\ \A x \in Nodes : x # e /\ x # h /\ (\A i \in 1 .. Len(q) : q[i] # x)
                            => /\ list_add_tail(heap, e, h)[x].next = heap[x].next
                               /\ list_add_tail(heap, e, h)[x].prev = heap[x].prev
    <3> HIDE DEF q
    <3> QED BY <1>1, <1>3, AddTail
  <2> HIDE DEF q, r
  <2>4. Len(q) \in Nat
    BY <1>2
  <2>5. \A i \in 1 .. Len(r) : i = Len(q) + 1 \/ i \in 1 .. Len(q)
    BY <2>2, <2>4
  <2>6. \A i \in 1 .. Len(q) : i \in 1 .. Len(r)
    BY <2>2, <2>4
  <2>7. Len(q) + 1 \in 1 .. Len(r)
    BY <2>2, <2>4
  <2>8. \A i \in 1 .. Len(r) : r[i] = e \/ \E j \in 1 .. Len(q) : r[i] = q[j]
    BY <2>2, <2>5
  <2>9. \A j \in 1 .. Len(q) : \E i \in 1 .. Len(r) : r[i] = q[j]
    BY <2>2, <2>6
  <2>10. \E i \in 1 .. Len(r) : r[i] = e
    BY <2>2, <2>7
  <2> QED BY <1>5, <2>1, <2>2, <2>3, <2>8, <2>9, <2>10
<1> QED BY <1>6, <1>7

\* list_del of the entry at position i of a list.
LEMMA DelKeeps ==
  ASSUME LQInv, NEW h \in Heads, NEW i \in 1 .. Len(lists[h]),
         heap' = list_del(heap, lists[h][i]), lists' = [lists EXCEPT ![h] = Without(lists[h], i)]
  PROVE  LQInv'
<1> DEFINE q == lists[h]
           r == Without(q, i)
<1>1. /\ heap \in HeapOver(Nodes) /\ lists \in [Heads -> Seq(Entry)]
      /\ Ring(Nodes, h, q) /\ Chain(heap, h, q)
      /\ NULL \in Nodes /\ i \in 1 .. Len(q) /\ heap' = list_del(heap, q[i])
      /\ lists' = [lists EXCEPT ![h] = r]
  BY NodeFacts DEF LQInv
<1>2. q \in Seq(Entry) /\ \A x : x \in Linked(h) <=> \E j \in 1 .. Len(q) : q[j] = x
  BY <1>1, LinkedIs
<1>3. \A g \in Heads : g # h => \A j \in 1 .. Len(q) : q[j] \notin Linked(g)
  BY <1>2 DEF LQInv
<1> HIDE DEF q
<1>4. r \in Seq(Entry)
  BY <1>1, <1>2, WithoutIs
<1>5. /\ Ring(Nodes, h, r) /\ Len(r) = Len(q) - 1
      /\ \A k \in 1 .. Len(q) - 1 : r[k] # q[i] /\ \E j \in 1 .. Len(q) : r[k] = q[j]
      /\ \A j \in 1 .. Len(q) : j # i => \E k \in 1 .. Len(q) - 1 : r[k] = q[j]
  <2>1. Ring(Nodes, h, q) /\ i \in 1 .. Len(q)
    BY <1>1
  <2>2. Ring(Nodes, h, r) /\ Len(r) = Len(q) - 1
    BY <2>1, RingWithout
  <2>3. \A k \in 1 .. Len(q) - 1 : r[k] # q[i] /\ \E j \in 1 .. Len(q) : r[k] = q[j]
    BY <2>1, RingWithout
  <2>4. \A j \in 1 .. Len(q) : j # i => \E k \in 1 .. Len(q) - 1 : r[k] = q[j]
    BY <2>1, RingWithout
  <2> QED BY <2>2, <2>3, <2>4
<1> DEFINE heap2 == list_del(heap, q[i])
<1>6. /\ heap2 \in HeapOver(Nodes) /\ Chain(heap2, h, r)
      /\ heap2[q[i]].next = NULL /\ heap2[q[i]].prev = NULL
      /\ \A x \in Nodes : x # h /\ (\A j \in 1 .. Len(q) : q[j] # x)
                          => SameLinks(heap, heap2, x)
  BY <1>1, DelEntry
<1> HIDE DEF r
<1>7. heap' = heap2
  BY <1>1
<1> HIDE DEF heap2
<1>8. \A k \in 1 .. Len(r) : \A g \in Heads : g # h => r[k] \notin Linked(g)
  BY <1>3, <1>5
<1>9. \A x \in Nodes : x # h /\ x \notin Linked(h) /\ (\A k \in 1 .. Len(r) : r[k] # x)
                       => heap'[x].next = heap[x].next /\ heap'[x].prev = heap[x].prev
  BY <1>2, <1>6, <1>7 DEF SameLinks
<1>10. \A x \in Linked(h) : (\A k \in 1 .. Len(r) : r[k] # x)
                             => heap'[x].next = NULL /\ heap'[x].prev = NULL
  <2> SUFFICES ASSUME NEW x \in Linked(h), \A k \in 1 .. Len(r) : r[k] # x PROVE x = q[i]
    BY <1>6, <1>7
  <2>1. PICK j \in 1 .. Len(q) : q[j] = x
    BY <1>2
  <2>2. j = i
    BY <1>5, <2>1
  <2> QED BY <2>1, <2>2
<1>11. heap' \in HeapOver(Nodes) /\ Chain(heap', h, r)
  BY <1>6, <1>7
<1> QED BY <1>1, <1>4, <1>5, <1>8, <1>9, <1>10, <1>11, OneList

LEMMA LQStep == LQInv /\ [LQNext]_lqVars => LQInv'
<1> SUFFICES ASSUME LQInv, [LQNext]_lqVars PROVE LQInv'
  OBVIOUS
<1>0. lists \in [Heads -> Seq(Entry)]
  BY DEF LQInv
<1>6. ASSUME heap' = heap, lists' = lists PROVE LQInv'
  <2>1. \A h : Linked(h)' = Linked(h)
    BY <1>6 DEF Linked
  <2>2. \A e : InSome(e)' <=> InSome(e)
    BY <2>1 DEF InSome
  <2>3. FreeEntriesUnlinked'
    BY <1>6, <2>2 DEF LQInv, FreeEntriesUnlinked
  <2> QED BY <1>6, <2>1, <2>3 DEF LQInv
<1>1. ASSUME NEW e \in Entry, NEW h \in Heads, AddFirst(e, h) \/ AddLast(e, h) PROVE LQInv'
  BY <1>1, AddKeeps
<1>2. ASSUME NEW e \in Entry, Delete(e) PROVE LQInv'
  <2>0. PICK h \in Heads : \E i \in DOMAIN lists[h] :
          lists[h][i] = e /\ lists' = [lists EXCEPT ![h] = RemoveAt(@, i)]
    BY <1>2 DEF Delete
  <2>1. PICK i \in DOMAIN lists[h] :
          lists[h][i] = e /\ lists' = [lists EXCEPT ![h] = RemoveAt(@, i)]
    BY <2>0
  <2>2. i \in 1 .. Len(lists[h])
    BY <1>0
  <2>3. heap' = list_del(heap, lists[h][i]) /\ lists' = [lists EXCEPT ![h] = Without(lists[h], i)]
    BY <1>0, <1>2, <2>1 DEF Delete, RemoveAt, Without
  <2> QED BY <2>2, <2>3, DelKeeps
<1>3. ASSUME NEW h \in Heads, TakeFirst(h) PROVE LQInv'
  <2> DEFINE q == lists[h]
  <2>1. q \in Seq(Entry) /\ q # << >> /\ Ring(Nodes, h, q) /\ Chain(heap, h, q)
    BY <1>0, <1>3 DEF TakeFirst, LQInv
  <2>2. 1 \in 1 .. Len(q)
    BY <2>1
  <2>3. heap[h].next = At(h, q, 1) /\ At(h, q, 1) = q[1]
    <3> HIDE DEF q
    <3> QED BY <2>1, <2>2, ChainEnds, AtFacts
  <2>4. Tail(q) = Without(q, 1)
    <3> HIDE DEF q
    <3>1. Without(q, 1) \in Seq(Entry) /\ Len(Without(q, 1)) = Len(q) - 1
          /\ \A k \in 1 .. Len(q) - 1 : Without(q, 1)[k] = q[k + 1]
      BY <2>1, <2>2, WithoutIs
    <3>2. Tail(q) \in Seq(Entry) /\ Len(Tail(q)) = Len(q) - 1
          /\ \A k \in 1 .. Len(q) - 1 : Tail(q)[k] = q[k + 1]
      BY <2>1
    <3> QED BY <3>1, <3>2
  <2>5. heap' = list_del(heap, q[1]) /\ lists' = [lists EXCEPT ![h] = Without(q, 1)]
    BY <1>0, <1>3, <2>3, <2>4 DEF TakeFirst, list_first
  <2> QED BY <2>2, <2>5, DelKeeps
<1>4. ASSUME NEW h \in Heads, Reset(h) PROVE LQInv'
  <2>1. /\ lists[h] = << >> /\ heap' = INIT_LIST_HEAD(heap, h) /\ lists' = lists
        /\ heap \in HeapOver(Nodes) /\ h \in Nodes /\ Chain(heap, h, << >>)
    BY <1>4, NodeFacts DEF Reset, LQInv
  <2>2. heap[h].next = h /\ heap[h].prev = h
    BY <2>1, ChainEmpty
  <2>3. heap' = heap
    BY <2>1, <2>2 DEF INIT_LIST_HEAD, SetNext, SetPrev, HeapOver
  <2> QED BY <1>6, <2>1, <2>3
<1>5. CASE UNCHANGED lqVars
  BY <1>5, <1>6 DEF lqVars
<1> QED BY <1>1, <1>2, <1>3, <1>4, <1>5 DEF LQNext

\* A list has no more entries than there are.
LEMMA ListShort ==
  ASSUME LQInv, NEW h \in Heads
  PROVE  Turns \in Nat /\ Len(lists[h]) <= Turns
<1> DEFINE q == lists[h]
           n == Len(q)
<1>1. q \in Seq(Entry) /\ n \in Nat /\ IsFiniteSet(Entry)
  BY NodesAssumption DEF LQInv
<1>2. \A i, j \in 1 .. n : q[i] = q[j] => i = j
  BY DEF LQInv, Ring
<1>3. q \in Injection(1 .. n, Entry)
  BY <1>1, <1>2 DEF Injection, IsInjective
<1>4. IsFiniteSet(1 .. n) /\ Cardinality(1 .. n) = n
  BY <1>1, FS_Interval
<1> HIDE DEF q, n
<1>5. Cardinality(1 .. n) <= Cardinality(Entry)
  BY <1>1, <1>3, FS_Injection
<1>6. Cardinality(Entry) \in Nat
  BY <1>1, FS_CardinalityType
<1> QED BY <1>1, <1>4, <1>5, <1>6 DEF Turns, n, q

LEMMA LQLinks == LQInv => LinksAreLists
<1> SUFFICES ASSUME LQInv, NEW h \in Heads
             PROVE  /\ ForEach(heap, h, Turns) = lists[h]
                    /\ Ends(heap, h, Turns)
                    /\ ForEachBack(heap, h, Turns) = Reverse(lists[h])
                    /\ list_empty(heap, h) <=> lists[h] = <<>>
                    /\ \A e \in Linked(h) : list_is_last(heap, e, h) <=> lists[h][Len(lists[h])] = e
  BY DEF LinksAreLists
<1> DEFINE q == lists[h]
<1>1. /\ heap \in HeapOver(Nodes) /\ lists \in [Heads -> Seq(Entry)]
      /\ Ring(Nodes, h, q) /\ Chain(heap, h, q) /\ Turns \in Nat /\ Len(q) <= Turns
  BY ListShort DEF LQInv
<1>2. q \in Seq(Entry) /\ Len(q) \in Nat /\ \A x : x \in Linked(h) <=> \E i \in 1 .. Len(q) : q[i] = x
  BY <1>1, LinkedIs
<1> HIDE DEF q
<1>3. ForEach(heap, h, Turns) = q /\ Ends(heap, h, Turns)
  BY <1>1, WalkIs
<1>4. ForEachBack(heap, h, Turns) = Reverse(q)
  BY <1>1, WalkBackIs DEF Reverse, Backwards
<1>5. list_empty(heap, h) <=> q = << >>
  BY <1>1, ChainEnds DEF list_empty
<1>6. ASSUME NEW e \in Linked(h) PROVE list_is_last(heap, e, h) <=> q[Len(q)] = e
  <2>1. PICK i \in 1 .. Len(q) : q[i] = e
    BY <1>2
  <2>2. i \in 0 .. Len(q) /\ Len(q) \in 1 .. Len(q)
    BY <1>2
  <2>3. heap[e].next = At(h, q, i + 1)
    BY <1>1, <2>1, <2>2, AtFacts DEF Chain
  <2>4. At(h, q, i + 1) = h <=> i = Len(q)
    BY <1>1, <1>2, <2>2 DEF At, Ring
  <2>5. q[Len(q)] = e <=> i = Len(q)
    BY <1>1, <2>1, <2>2 DEF Ring
  <2> QED BY <2>3, <2>4, <2>5 DEF list_is_last
<1> QED BY <1>3, <1>4, <1>5, <1>6 DEF q

LEMMA LQAlways == LQSpec => []LQInv
<1> QED BY LQInitInv, LQStep, PTL DEF LQSpec

\* Whatever operations of list.c are made, in whatever order, on however many
\* lists: each walk meets the entries meant, in order and in reverse, and ends.
THEOREM LinksCorrect == LQSpec => []LinksAreLists
BY LQAlways, LQLinks, PTL

\* An entry in no list points nowhere, and nothing is written through NULL.
THEOREM UnlinkedCorrect == LQSpec => []FreeEntriesUnlinked
<1>1. LQInv => FreeEntriesUnlinked
  BY DEF LQInv
<1> QED BY <1>1, LQAlways, PTL

=============================================================================
