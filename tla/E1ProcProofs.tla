---------------------------- MODULE E1ProcProofs ----------------------------
(***************************************************************************)
(* Proofs about E1Proc, for any number of PCBs: PIDs are not reused, and   *)
(* the one list_head of a PCB is enough for the queues as long as nobody   *)
(* forks a second time.                                                    *)
(***************************************************************************)
EXTENDS E1Proc, ListHeadProofs, FiniteSetTheorems

Queue == {freequeue, readyqueue, blocked}

LEMMA Addresses ==
  /\ Tasks \subseteq Nodes /\ Queue \subseteq Nodes /\ NULL \in Nodes
  /\ Tasks \cap Queue = {} /\ NULL \notin Tasks /\ NULL \notin Queue
  /\ freequeue # readyqueue /\ freequeue # blocked /\ readyqueue # blocked
  /\ \A t \in Tasks : /\ kids(t) \in Nodes /\ kids(t) \notin Tasks /\ kids(t) \notin Queue
                      /\ list(t) = t
  /\ \A t, u \in Tasks : kids(t) = kids(u) => t = u
  /\ idle_task \in Tasks /\ task1 \in Tasks /\ idle_task # task1
BY E1Assumption DEF Tasks, Nodes, Queue, freequeue, readyqueue, blocked, kids, list, NULL,
                    idle_task, task1

Members(q) == {q[i] : i \in 1 .. Len(q)}

\* The queues of the heap hp hold the tasks F and R, the rest is out; the blocked
\* queue is empty; who is in R is marked ready in st.
Queues(hp, st, F, R, out) ==
  /\ hp \in HeapOver(Nodes) /\ Chain(hp, blocked, << >>)
  /\ F \in Seq(Tasks) /\ Ring(Nodes, freequeue, F) /\ Chain(hp, freequeue, F)
  /\ R \in Seq(Tasks) /\ Ring(Nodes, readyqueue, R) /\ Chain(hp, readyqueue, R)
  /\ Members(F) \cap Members(R) = {} /\ Members(F) \cup Members(R) = Tasks \ out
  /\ \A t \in Members(R) : st[t] = "ST_READY"

\* A list of children that looks empty from the front is empty from the back.
KidsSound(hp, S) == \A t \in S : hp[kids(t)].next = kids(t) => hp[kids(t)].prev = kids(t)

SameKids(hp, hp2) == \A t \in Tasks : SameLinks(hp, hp2, kids(t))

LEMMA RingOfTasks ==
  ASSUME NEW h \in Queue, NEW q \in Seq(Tasks),
         \A i, j \in 1 .. Len(q) : q[i] = q[j] => i = j
  PROVE  Ring(Nodes, h, q)
<1>1. q \in Seq(Nodes) /\ \A i \in 1 .. Len(q) : q[i] \in Tasks
  BY Addresses
<1> QED BY <1>1, Addresses DEF Ring

\* A change of the heap away from a queue.
LEMMA QueueFrame ==
  ASSUME NEW h \in Queue, NEW q, q \in Seq(Tasks), Ring(Nodes, h, q), NEW hp, NEW hp2,
         Chain(hp, h, q), SameLinks(hp, hp2, h), \A t \in Members(q) : SameLinks(hp, hp2, t)
  PROVE  Chain(hp2, h, q)
<1>1. \A x \in Nodes : x = h \/ (\E i \in 1 .. Len(q) : q[i] = x)
                       => hp2[x].next = hp[x].next /\ hp2[x].prev = hp[x].prev
  BY DEF SameLinks, Members
<1> QED BY <1>1, ChainFrame

LEMMA QueuesFrame ==
  ASSUME NEW hp, NEW hp2, NEW st, NEW F, NEW R, NEW out, Queues(hp, st, F, R, out),
         hp2 \in HeapOver(Nodes), Chain(hp2, blocked, << >>),
         SameLinks(hp, hp2, freequeue), SameLinks(hp, hp2, readyqueue),
         \A t \in Tasks \ out : SameLinks(hp, hp2, t)
  PROVE  Queues(hp2, st, F, R, out)
<1>1. (\A t \in Members(F) : SameLinks(hp, hp2, t)) /\ (\A t \in Members(R) : SameLinks(hp, hp2, t))
  BY DEF Queues
<1>2. freequeue \in Queue /\ readyqueue \in Queue
  BY DEF Queue
<1>3. Chain(hp2, freequeue, F)
  BY <1>1, <1>2, QueueFrame DEF Queues
<1>4. Chain(hp2, readyqueue, R)
  BY <1>1, <1>2, QueueFrame DEF Queues
<1> QED BY <1>3, <1>4 DEF Queues

LEMMA MembersAppend ==
  ASSUME NEW q \in Seq(Tasks), NEW t \in Tasks
  PROVE  Append(q, t) \in Seq(Tasks) /\ Members(Append(q, t)) = Members(q) \cup {t}
<1> DEFINE r == Append(q, t)
<1>1. /\ r \in Seq(Tasks) /\ Len(r) = Len(q) + 1 /\ r[Len(q) + 1] = t /\ Len(q) \in Nat
      /\ \A i \in 1 .. Len(q) : r[i] = q[i]
  OBVIOUS
<1> HIDE DEF r
<1>2. /\ \A i \in 1 .. Len(r) : i = Len(q) + 1 \/ i \in 1 .. Len(q)
      /\ \A i \in 1 .. Len(q) : i \in 1 .. Len(r)
      /\ Len(q) + 1 \in 1 .. Len(r)
  BY <1>1
<1>3. Members(r) = Members(q) \cup {t}
  BY <1>1, <1>2 DEF Members
<1> QED BY <1>1, <1>3 DEF r

\* What list_add_tail of a task does to a queue.
LEMMA Pushed ==
  ASSUME NEW h \in Queue, NEW q \in Seq(Tasks), Ring(Nodes, h, q), NEW hp \in HeapOver(Nodes),
         Chain(hp, h, q), NEW t \in Tasks, t \notin Members(q)
  PROVE  /\ list_add_tail(hp, t, h) \in HeapOver(Nodes)
         /\ Ring(Nodes, h, Append(q, t)) /\ Chain(list_add_tail(hp, t, h), h, Append(q, t))
         /\ \A x \in Nodes : x # t /\ x # h /\ x \notin Members(q)
                             => SameLinks(hp, list_add_tail(hp, t, h), x)
         /\ SameKids(hp, list_add_tail(hp, t, h))
<1> DEFINE hp2 == list_add_tail(hp, t, h)
<1>1. t \in Nodes /\ t # h /\ \A i \in 1 .. Len(q) : q[i] # t
  BY Addresses DEF Members
<1>2. hp2 \in HeapOver(Nodes) /\ Ring(Nodes, h, Append(q, t)) /\ Chain(hp2, h, Append(q, t))
  BY <1>1, AddTail
<1>3. \A x \in Nodes : x # t /\ x # h /\ (\A i \in 1 .. Len(q) : q[i] # x)
                       => hp2[x].next = hp[x].next /\ hp2[x].prev = hp[x].prev
  BY <1>1, AddTail
<1> HIDE DEF hp2
<1>4. \A x \in Nodes : x # t /\ x # h /\ x \notin Members(q) => SameLinks(hp, hp2, x)
  BY <1>3 DEF SameLinks, Members
<1>5. Members(q) \subseteq Tasks
  BY DEF Members
<1>6. SameKids(hp, hp2)
  BY <1>4, <1>5, Addresses DEF SameKids
<1> QED BY <1>2, <1>4, <1>6 DEF hp2

\* The same for a list_del of the first of a queue.
LEMMA Popped ==
  ASSUME NEW h \in Queue, NEW q \in Seq(Tasks), Ring(Nodes, h, q), NEW hp \in HeapOver(Nodes),
         Chain(hp, h, q), q # << >>
  PROVE  /\ q[1] \in Members(q) /\ q[1] \in Tasks
         /\ Without(q, 1) \in Seq(Tasks) /\ Members(Without(q, 1)) = Members(q) \ {q[1]}
         /\ list_del(hp, q[1]) \in HeapOver(Nodes)
         /\ Ring(Nodes, h, Without(q, 1)) /\ Chain(list_del(hp, q[1]), h, Without(q, 1))
         /\ \A x \in Nodes : x # h /\ x \notin Members(q) => SameLinks(hp, list_del(hp, q[1]), x)
         /\ SameKids(hp, list_del(hp, q[1]))
<1> DEFINE hp2 == list_del(hp, q[1])
           r == Without(q, 1)
<1>0. 1 \in 1 .. Len(q) /\ NULL \in Nodes /\ Members(q) \subseteq Tasks
  BY Addresses DEF Members
<1>1. q[1] \in Members(q) /\ q[1] \in Tasks
  BY <1>0 DEF Members
<1>2. r \in Seq(Tasks)
  BY <1>0, WithoutIs
<1>3. Ring(Nodes, h, r) /\ Len(r) = Len(q) - 1
  BY <1>0, RingWithout
<1>4. \A k \in 1 .. Len(q) - 1 : r[k] # q[1] /\ \E j \in 1 .. Len(q) : r[k] = q[j]
  BY <1>0, RingWithout
<1>5. \A j \in 1 .. Len(q) : j # 1 => \E k \in 1 .. Len(q) - 1 : r[k] = q[j]
  BY <1>0, RingWithout
<1>6. hp2 \in HeapOver(Nodes) /\ Chain(hp2, h, r)
  BY <1>0, DelEntry
<1>7. \A x \in Nodes : x # h /\ (\A j \in 1 .. Len(q) : q[j] # x) => SameLinks(hp, hp2, x)
  BY <1>0, DelEntry
<1> HIDE DEF hp2, r
<1>8. Members(r) = Members(q) \ {q[1]}
  <2>1. ASSUME NEW x \in Members(r) PROVE x \in Members(q) \ {q[1]}
    BY <1>3, <1>4 DEF Members
  <2>2. ASSUME NEW x \in Members(q) \ {q[1]} PROVE x \in Members(r)
    BY <1>3, <1>5 DEF Members
  <2> QED BY <2>1, <2>2
<1>9. \A x \in Nodes : x # h /\ x \notin Members(q) => SameLinks(hp, hp2, x)
  BY <1>7 DEF Members
<1>10. SameKids(hp, hp2)
  BY <1>0, <1>9, Addresses DEF SameKids
<1> QED BY <1>1, <1>2, <1>3, <1>6, <1>8, <1>9, <1>10 DEF hp2, r
\* A task that is out goes to the end of the freequeue.
LEMMA PushFree ==
  ASSUME NEW hp, NEW st, NEW F, NEW R, NEW out, Queues(hp, st, F, R, out),
         NEW t \in Tasks, t \in out
  PROVE  /\ Queues(list_add_tail(hp, t, freequeue), st, Append(F, t), R, out \ {t})
         /\ SameKids(hp, list_add_tail(hp, t, freequeue))
         /\ Members(Append(F, t)) = Members(F) \cup {t}
<1> DEFINE hp2 == list_add_tail(hp, t, freequeue)
           F2 == Append(F, t)
<1>1. /\ hp \in HeapOver(Nodes) /\ Chain(hp, blocked, << >>)
      /\ F \in Seq(Tasks) /\ Ring(Nodes, freequeue, F) /\ Chain(hp, freequeue, F)
      /\ R \in Seq(Tasks) /\ Ring(Nodes, readyqueue, R) /\ Chain(hp, readyqueue, R)
      /\ Members(F) \cap Members(R) = {} /\ Members(F) \cup Members(R) = Tasks \ out
      /\ \A u \in Members(R) : st[u] = "ST_READY"
  BY DEF Queues
<1>2. freequeue \in Queue /\ readyqueue \in Queue /\ blocked \in Queue
  BY DEF Queue
<1>3. t \notin Members(F) /\ t \notin Members(R)
  BY <1>1
<1>4. /\ hp2 \in HeapOver(Nodes) /\ Ring(Nodes, freequeue, F2) /\ Chain(hp2, freequeue, F2)
      /\ \A x \in Nodes : x # t /\ x # freequeue /\ x \notin Members(F) => SameLinks(hp, hp2, x)
      /\ SameKids(hp, hp2)
  BY <1>1, <1>2, <1>3, Pushed
<1>5. F2 \in Seq(Tasks) /\ Members(F2) = Members(F) \cup {t}
  BY <1>1, MembersAppend
<1> HIDE DEF hp2, F2
<1>6. Chain(hp2, readyqueue, R)
  <2>1. SameLinks(hp, hp2, readyqueue) /\ \A u \in Members(R) : SameLinks(hp, hp2, u)
    BY <1>1, <1>3, <1>4, Addresses DEF Queue
  <2> QED BY <1>1, <1>2, <2>1, QueueFrame
<1>7. Chain(hp2, blocked, << >>)
  <2>1. SameLinks(hp, hp2, blocked)
    BY <1>1, <1>4, Addresses DEF Queue
  <2> QED BY <1>1, <2>1, ChainEmpty DEF SameLinks
<1>8. Members(F2) \cap Members(R) = {} /\ Members(F2) \cup Members(R) = Tasks \ (out \ {t})
  BY <1>1, <1>3, <1>5
<1>9. Queues(hp2, st, F2, R, out \ {t})
  BY <1>1, <1>4, <1>5, <1>6, <1>7, <1>8 DEF Queues
<1> QED BY <1>4, <1>5, <1>9 DEF hp2, F2

\* A task that is out goes to the end of the readyqueue, marked ready in st2.
LEMMA PushReady ==
  ASSUME NEW hp, NEW st, NEW F, NEW R, NEW out, Queues(hp, st, F, R, out),
         NEW t \in Tasks, t \in out, NEW st2, st2[t] = "ST_READY",
         \A u \in Tasks : u # t => st2[u] = st[u]
  PROVE  /\ Queues(list_add_tail(hp, t, readyqueue), st2, F, Append(R, t), out \ {t})
         /\ SameKids(hp, list_add_tail(hp, t, readyqueue))
<1> DEFINE hp2 == list_add_tail(hp, t, readyqueue)
           R2 == Append(R, t)
<1>1. /\ hp \in HeapOver(Nodes) /\ Chain(hp, blocked, << >>)
      /\ F \in Seq(Tasks) /\ Ring(Nodes, freequeue, F) /\ Chain(hp, freequeue, F)
      /\ R \in Seq(Tasks) /\ Ring(Nodes, readyqueue, R) /\ Chain(hp, readyqueue, R)
      /\ Members(F) \cap Members(R) = {} /\ Members(F) \cup Members(R) = Tasks \ out
      /\ \A u \in Members(R) : st[u] = "ST_READY"
  BY DEF Queues
<1>2. freequeue \in Queue /\ readyqueue \in Queue /\ blocked \in Queue
  BY DEF Queue
<1>3. t \notin Members(F) /\ t \notin Members(R)
  BY <1>1
<1>4. /\ hp2 \in HeapOver(Nodes) /\ Ring(Nodes, readyqueue, R2) /\ Chain(hp2, readyqueue, R2)
      /\ \A x \in Nodes : x # t /\ x # readyqueue /\ x \notin Members(R) => SameLinks(hp, hp2, x)
      /\ SameKids(hp, hp2)
  BY <1>1, <1>2, <1>3, Pushed
<1>5. R2 \in Seq(Tasks) /\ Members(R2) = Members(R) \cup {t}
  BY <1>1, MembersAppend
<1> HIDE DEF hp2, R2
<1>6. Chain(hp2, freequeue, F)
  <2>1. SameLinks(hp, hp2, freequeue) /\ \A u \in Members(F) : SameLinks(hp, hp2, u)
    BY <1>1, <1>3, <1>4, Addresses DEF Queue
  <2> QED BY <1>1, <1>2, <2>1, QueueFrame
<1>7. Chain(hp2, blocked, << >>)
  <2>1. SameLinks(hp, hp2, blocked)
    BY <1>1, <1>4, Addresses DEF Queue
  <2> QED BY <1>1, <2>1, ChainEmpty DEF SameLinks
<1>8. Members(F) \cap Members(R2) = {} /\ Members(F) \cup Members(R2) = Tasks \ (out \ {t})
  BY <1>1, <1>3, <1>5
<1>9. \A u \in Members(R2) : st2[u] = "ST_READY"
  BY <1>1, <1>5
<1>10. Queues(hp2, st2, F, R2, out \ {t})
  BY <1>1, <1>4, <1>5, <1>6, <1>7, <1>8, <1>9 DEF Queues
<1> QED BY <1>4, <1>10 DEF hp2, R2

\* The first of the readyqueue is taken out, whatever it is marked then.
LEMMA PopReady ==
  ASSUME NEW hp, NEW st, NEW F, NEW R, NEW out, Queues(hp, st, F, R, out), R # << >>,
         NEW st2, \A u \in Tasks : u # R[1] => st2[u] = st[u]
  PROVE  /\ Queues(list_del(hp, R[1]), st2, F, Without(R, 1), out \cup {R[1]})
         /\ SameKids(hp, list_del(hp, R[1]))
<1> DEFINE t == R[1]
           hp2 == list_del(hp, t)
           R2 == Without(R, 1)
<1>1. /\ hp \in HeapOver(Nodes) /\ Chain(hp, blocked, << >>)
      /\ F \in Seq(Tasks) /\ Ring(Nodes, freequeue, F) /\ Chain(hp, freequeue, F)
      /\ R \in Seq(Tasks) /\ Ring(Nodes, readyqueue, R) /\ Chain(hp, readyqueue, R)
      /\ Members(F) \cap Members(R) = {} /\ Members(F) \cup Members(R) = Tasks \ out
      /\ \A u \in Members(R) : st[u] = "ST_READY"
  BY DEF Queues
<1>2. freequeue \in Queue /\ readyqueue \in Queue /\ blocked \in Queue
  BY DEF Queue
<1>4. /\ t \in Members(R) /\ t \in Tasks /\ R2 \in Seq(Tasks) /\ Members(R2) = Members(R) \ {t}
      /\ hp2 \in HeapOver(Nodes) /\ Ring(Nodes, readyqueue, R2) /\ Chain(hp2, readyqueue, R2)
      /\ \A x \in Nodes : x # readyqueue /\ x \notin Members(R) => SameLinks(hp, hp2, x)
      /\ SameKids(hp, hp2)
  BY <1>1, <1>2, Popped
<1>5. \A u \in Tasks : u # t => st2[u] = st[u]
  OBVIOUS
<1> HIDE DEF hp2, R2, t
<1>6. Chain(hp2, freequeue, F)
  <2>1. SameLinks(hp, hp2, freequeue) /\ \A u \in Members(F) : SameLinks(hp, hp2, u)
    BY <1>1, <1>4, Addresses DEF Queue
  <2> QED BY <1>1, <1>2, <2>1, QueueFrame
<1>7. Chain(hp2, blocked, << >>)
  <2>1. SameLinks(hp, hp2, blocked)
    BY <1>1, <1>4, Addresses DEF Queue
  <2> QED BY <1>1, <2>1, ChainEmpty DEF SameLinks
<1>8. Members(F) \cap Members(R2) = {} /\ Members(F) \cup Members(R2) = Tasks \ (out \cup {t})
  BY <1>1, <1>4
<1>9. \A u \in Members(R2) : st2[u] = "ST_READY"
  BY <1>1, <1>4, <1>5
<1>10. Queues(hp2, st2, F, R2, out \cup {t})
  BY <1>1, <1>4, <1>6, <1>7, <1>8, <1>9 DEF Queues
<1> QED BY <1>4, <1>10 DEF hp2, R2, t

LEMMA PopFree ==
  ASSUME NEW hp, NEW st, NEW F, NEW R, NEW out, Queues(hp, st, F, R, out), F # << >>
  PROVE  /\ Queues(list_del(hp, F[1]), st, Without(F, 1), R, out \cup {F[1]})
         /\ SameKids(hp, list_del(hp, F[1]))
         /\ F[1] \in Members(F) /\ Members(Without(F, 1)) = Members(F) \ {F[1]}
<1> DEFINE t == F[1]
           hp2 == list_del(hp, t)
           F2 == Without(F, 1)
<1>1. /\ hp \in HeapOver(Nodes) /\ Chain(hp, blocked, << >>)
      /\ F \in Seq(Tasks) /\ Ring(Nodes, freequeue, F) /\ Chain(hp, freequeue, F)
      /\ R \in Seq(Tasks) /\ Ring(Nodes, readyqueue, R) /\ Chain(hp, readyqueue, R)
      /\ Members(F) \cap Members(R) = {} /\ Members(F) \cup Members(R) = Tasks \ out
      /\ \A u \in Members(R) : st[u] = "ST_READY"
  BY DEF Queues
<1>2. freequeue \in Queue /\ readyqueue \in Queue /\ blocked \in Queue
  BY DEF Queue
<1>4. /\ t \in Members(F) /\ t \in Tasks /\ F2 \in Seq(Tasks) /\ Members(F2) = Members(F) \ {t}
      /\ hp2 \in HeapOver(Nodes) /\ Ring(Nodes, freequeue, F2) /\ Chain(hp2, freequeue, F2)
      /\ \A x \in Nodes : x # freequeue /\ x \notin Members(F) => SameLinks(hp, hp2, x)
      /\ SameKids(hp, hp2)
  BY <1>1, <1>2, Popped
<1> HIDE DEF hp2, F2, t
<1>6. Chain(hp2, readyqueue, R)
  <2>1. SameLinks(hp, hp2, readyqueue) /\ \A u \in Members(R) : SameLinks(hp, hp2, u)
    BY <1>1, <1>4, Addresses DEF Queue
  <2> QED BY <1>1, <1>2, <2>1, QueueFrame
<1>7. Chain(hp2, blocked, << >>)
  <2>1. SameLinks(hp, hp2, blocked)
    BY <1>1, <1>4, Addresses DEF Queue
  <2> QED BY <1>1, <2>1, ChainEmpty DEF SameLinks
<1>8. Members(F2) \cap Members(R) = {} /\ Members(F2) \cup Members(R) = Tasks \ (out \cup {t})
  BY <1>1, <1>4
<1>10. Queues(hp2, st, F2, R, out \cup {t})
  BY <1>1, <1>4, <1>6, <1>7, <1>8 DEF Queues
<1> QED BY <1>4, <1>10 DEF hp2, F2, t

LEMMA KidsKept ==
  ASSUME NEW hp, NEW hp2, SameKids(hp, hp2), NEW S, NEW S2, S2 \subseteq S, S \subseteq Tasks,
         KidsSound(hp, S)
  PROVE  KidsSound(hp2, S2)
BY DEF SameKids, SameLinks, KidsSound

-----------------------------------------------------------------------------
(* The invariant. *)

States == {"ST_READY", "ST_RUN"}

Basics ==
  /\ current \in Tasks
  /\ state \in [Tasks -> States]         \* nobody is ever marked ST_BLOCKED
  /\ PID \in [Tasks -> Nat]
  /\ PID_counter \in Nat /\ PID_counter >= 2 /\ gone \subseteq Tasks

\* While nobody has forked twice the links of the heap are the two queues, with
\* every task but the running one and idle in them.
QueuesSound ==
  ~hung /\ ~reforked =>
    \E F, R : /\ Queues(heap, state, F, R, {current, idle_task})
              /\ KidsSound(heap, Tasks \ Members(F))

E1Inv == Basics /\ PIDsUnique /\ QueuesSound

\* sched_next_rr with everybody but idle in a queue.
LEMMA Sched ==
  ASSUME NEW h, NEW st, NEW p, NEW F, NEW R, Queues(h, st, F, R, {idle_task}),
         KidsSound(h, Tasks \ Members(F)), st \in [Tasks -> States],
         SchedNext(h, st, p), ~hung'
  PROVE  \E F2, R2 : /\ Queues(heap', state', F2, R2, {current', idle_task})
                     /\ KidsSound(heap', Tasks \ Members(F2))
<1>1. R \in Seq(Tasks) /\ Ring(Nodes, readyqueue, R) /\ Chain(h, readyqueue, R)
      /\ \A u \in Members(R) : st[u] = "ST_READY"
  BY DEF Queues
<1>2. readyqueue \notin Tasks
  BY Addresses DEF Queue
<1>3. list_first(h, readyqueue) = At(readyqueue, R, 1) /\ (list_first(h, readyqueue) = readyqueue <=> R = << >>)
  BY <1>1, ChainEnds DEF list_first
<1>4. CASE R = << >>
  <2>1. heap' = h /\ state' = st /\ current' = idle_task
    BY <1>2, <1>3, <1>4 DEF SchedNext, TaskSwitch
  <2>2. {current', idle_task} = {idle_task}
    BY <2>1
  <2> QED BY <2>1, <2>2
<1>5. CASE R # << >>
  <2> DEFINE t == R[1]
  <2>1. 1 \in 1 .. Len(R) /\ t \in Tasks /\ t \in Members(R)
    BY <1>1, <1>5 DEF Members
  <2>2. list_first(h, readyqueue) = t
    BY <1>1, <1>3, <2>1, AtFacts
  <2>3. st[t] # "ST_RUN" /\ t # readyqueue /\ list(t) = t
    BY <1>1, <1>2, <2>1, Addresses
  <2>4. heap' = list_del(h, t) /\ state' = [st EXCEPT ![t] = "ST_RUN"] /\ current' = t
    BY <2>1, <2>2, <2>3 DEF SchedNext, TaskSwitch
  <2>5. \A u \in Tasks : u # R[1] => state'[u] = st[u]
    BY <2>4
  <2>6. /\ Queues(list_del(h, R[1]), state', F, Without(R, 1), {idle_task} \cup {R[1]})
        /\ SameKids(h, list_del(h, R[1]))
    BY <1>5, <2>5, PopReady
  <2>7. {idle_task} \cup {R[1]} = {current', idle_task}
    BY <2>4
  <2>8. Tasks \ Members(F) \subseteq Tasks
    OBVIOUS
  <2>9. KidsSound(heap', Tasks \ Members(F))
    BY <2>4, <2>6, <2>8, KidsKept
  <2> QED BY <2>4, <2>6, <2>7, <2>9
<1> QED BY <1>4, <1>5

LEMMA SchedBasics ==
  ASSUME NEW h, NEW st, NEW p, st \in [Tasks -> States], current \in Tasks, SchedNext(h, st, p)
  PROVE  current' \in Tasks /\ state' \in [Tasks -> States]
<1>1. idle_task \in Tasks
  BY Addresses
<1> QED BY <1>1 DEF SchedNext, TaskSwitch, States

LEMMA E1ForkOK == ASSUME E1Inv, ForkOK PROVE E1Inv'
<1> DEFINE c == list_first(heap, freequeue)
           h1 == list_del(heap, c)
           copied == [h1 EXCEPT ![c] = h1[current]]
           born == INIT_LIST_HEAD(copied, kids(c))
           linked == list_add_tail(born, c, kids(current))
<1>1. /\ current \in Tasks /\ state \in [Tasks -> States] /\ PID \in [Tasks -> Nat]
      /\ PID_counter \in Nat /\ PID_counter >= 2 /\ PIDsUnique /\ gone \subseteq Tasks
  BY DEF E1Inv, Basics
<1>2. /\ c \in Tasks /\ PID' = [PID EXCEPT ![c] = PID_counter] /\ PID_counter' = PID_counter + 1
      /\ state' = [state EXCEPT ![c] = "ST_READY"] /\ current' = current /\ hung' = hung
      /\ current # idle_task /\ ~hung /\ gone' = gone \ {c}
  BY DEF ForkOK, NewPID, InUserCode
<1>3. heap' = list_add_tail(linked, c, readyqueue)
  BY <1>1, <1>2, Addresses DEF ForkOK, ForkedHeap
<1>5. ~reforked' => ~reforked /\ NoKids
  BY DEF ForkOK
<1> HIDE DEF c
<1>6. Basics'
  BY <1>1, <1>2 DEF Basics, States
<1>7. PIDsUnique'
  BY <1>1, <1>2 DEF PIDsUnique
<1>8. ASSUME ~reforked'
      PROVE  \E F, R : /\ Queues(heap', state', F, R, {current', idle_task})
                       /\ KidsSound(heap', Tasks \ Members(F))
  <2>1. PICK F, R : /\ Queues(heap, state, F, R, {current, idle_task})
                    /\ KidsSound(heap, Tasks \ Members(F))
    BY <1>2, <1>5, <1>8 DEF E1Inv, QueuesSound
  <2>2. /\ F \in Seq(Tasks) /\ Ring(Nodes, freequeue, F) /\ Chain(heap, freequeue, F)
        /\ Members(F) \cup Members(R) = Tasks \ {current, idle_task}
        /\ freequeue \notin Tasks
    BY <2>1, Addresses DEF Queues, Queue
  <2>3. F # << >> /\ c = F[1]
    <3>1. c = At(freequeue, F, 1) /\ (c = freequeue <=> F = << >>)
      BY <2>2, ChainEnds DEF c, list_first
    <3>2. F # << >>
      BY <1>2, <2>2, <3>1
    <3>3. 1 \in 1 .. Len(F)
      BY <2>2, <3>2
    <3> QED BY <2>2, <3>1, <3>2, <3>3, AtFacts
  <2> DEFINE F2 == Without(F, 1)
             out == {current, idle_task} \cup {c}
  <2>4. /\ Queues(h1, state, F2, R, out) /\ SameKids(heap, h1)
        /\ c \in Members(F) /\ Members(F2) = Members(F) \ {c}
    <3> HIDE DEF F2, out, h1
    <3> QED BY <2>1, <2>3, PopFree DEF F2, out, h1
  <2>5. c # current /\ c # idle_task /\ c \in out /\ current \in Tasks \ Members(F)
    BY <1>1, <2>2, <2>4
  <2> HIDE DEF F2, h1
  <2>6. h1 \in HeapOver(Nodes) /\ Chain(h1, blocked, << >>)
    BY <2>4 DEF Queues
  <2>7. c \in Nodes /\ current \in Nodes /\ kids(c) \in Nodes /\ kids(current) \in Nodes
        /\ kids(c) # kids(current) /\ kids(c) # c /\ kids(current) # c
    BY <1>1, <1>2, <2>5, Addresses
  <2>8. copied \in HeapOver(Nodes) /\ \A x \in Nodes : x # c => SameLinks(h1, copied, x)
    BY <2>6, <2>7 DEF HeapOver, SameLinks
  <2> HIDE DEF copied
  <2>9. /\ born \in HeapOver(Nodes)
        /\ \A x \in Nodes : x # kids(c) => SameLinks(copied, born, x)
        /\ born[kids(c)].next = kids(c) /\ born[kids(c)].prev = kids(c)
    <3>1. /\ born \in HeapOver(Nodes)
          /\ \A x \in Nodes : /\ born[x].next = (IF x = kids(c) THEN kids(c) ELSE copied[x].next)
                              /\ born[x].prev = (IF x = kids(c) THEN kids(c) ELSE copied[x].prev)
      BY <2>7, <2>8, InitFacts
    <3> HIDE DEF born
    <3> QED BY <2>7, <3>1 DEF SameLinks
  <2> HIDE DEF born
  <2>10. Ring(Nodes, kids(current), << >>) /\ Chain(born, kids(current), << >>)
    <3>1. heap[kids(current)].next = kids(current) /\ heap[kids(current)].prev = kids(current)
      BY <1>5, <1>8, <2>1, <2>5 DEF NoKids, list_empty, KidsSound
    <3>2. born[kids(current)].next = kids(current) /\ born[kids(current)].prev = kids(current)
      BY <1>1, <2>4, <2>7, <2>8, <2>9, <3>1 DEF SameKids, SameLinks
    <3> QED BY <2>7, <3>2, ChainEmpty DEF Ring
  <2>11. /\ linked \in HeapOver(Nodes)
         /\ \A x \in Nodes : x # c /\ x # kids(current) => SameLinks(born, linked, x)
         /\ linked[kids(current)].next # kids(current)
    <3>1. linked = InsertBetween(born, c, kids(current), kids(current))
      BY <2>10, ChainEmpty DEF list_add_tail
    <3> DEFINE ins == InsertBetween(born, c, kids(current), kids(current))
    <3>2. /\ ins \in HeapOver(Nodes)
          /\ \A x \in Nodes :
               /\ ins[x].next = (IF x = kids(current) THEN c ELSE IF x = c THEN kids(current) ELSE born[x].next)
               /\ ins[x].prev = (IF x = c THEN kids(current) ELSE IF x = kids(current) THEN c ELSE born[x].prev)
      BY <2>7, <2>9, InsertFacts
    <3> HIDE DEF ins
    <3>3. linked = ins
      BY <3>1 DEF ins
    <3> HIDE DEF linked
    <3> QED BY <2>7, <3>2, <3>3 DEF SameLinks
  <2> HIDE DEF linked
  <2>12. \A x \in Nodes : x # c /\ x # kids(c) /\ x # kids(current) => SameLinks(h1, linked, x)
    BY <2>8, <2>9, <2>11 DEF SameLinks
  <2>13. Queues(linked, state, F2, R, out)
    <3>1. /\ SameLinks(h1, linked, freequeue) /\ SameLinks(h1, linked, readyqueue)
          /\ SameLinks(h1, linked, blocked) /\ \A t \in Tasks \ out : SameLinks(h1, linked, t)
      BY <1>1, <1>2, <2>5, <2>12, Addresses DEF Queue
    <3>2. Chain(linked, blocked, << >>)
      BY <2>6, <3>1, ChainEmpty DEF SameLinks
    <3> HIDE DEF out
    <3> QED BY <2>4, <2>11, <3>1, <3>2, QueuesFrame
  <2>14. state'[c] = "ST_READY" /\ \A u \in Tasks : u # c => state'[u] = state[u]
    BY <1>1, <1>2
  <2>15. /\ Queues(heap', state', F2, Append(R, c), out \ {c}) /\ SameKids(linked, heap')
    <3> HIDE DEF out
    <3> QED BY <1>2, <1>3, <2>5, <2>13, <2>14, PushReady
  <2>16. out \ {c} = {current', idle_task}
    BY <1>2, <2>5
  <2>17. KidsSound(heap', Tasks \ Members(F2))
    <3> SUFFICES ASSUME NEW t \in Tasks \ Members(F2), heap'[kids(t)].next = kids(t)
                 PROVE  heap'[kids(t)].prev = kids(t)
      BY DEF KidsSound
    <3>1. SameLinks(linked, heap', kids(t)) /\ kids(t) \in Nodes /\ kids(t) # c
      BY <1>2, <2>15, Addresses DEF SameKids
    <3>2. t # current
      BY <2>11, <3>1 DEF SameLinks
    <3>3. kids(t) # kids(current)
      BY <1>1, <3>2, Addresses
    <3>4. CASE t = c
      BY <2>9, <2>11, <3>1, <3>3, <3>4 DEF SameLinks
    <3>5. CASE t # c
      <4>1. t \in Tasks \ Members(F) /\ kids(t) # kids(c)
        BY <1>2, <2>4, <3>5, Addresses
      <4>2. SameLinks(h1, linked, kids(t)) /\ SameLinks(heap, h1, kids(t))
        BY <2>4, <2>12, <3>1, <3>3, <4>1 DEF SameKids
      <4> QED BY <2>1, <3>1, <4>1, <4>2 DEF KidsSound, SameLinks
    <3> QED BY <3>4, <3>5
  <2> QED BY <2>15, <2>16, <2>17
<1>9. QueuesSound'
  BY <1>8 DEF QueuesSound
<1> QED BY <1>6, <1>7, <1>9 DEF E1Inv

\* From one end of the freequeue to the other, with the parent's links copied.
LEMMA E1ForkNoFrames == ASSUME E1Inv, ForkNoFrames PROVE E1Inv'
<1> DEFINE c == list_first(heap, freequeue)
           h1 == list_del(heap, c)
           copied == [h1 EXCEPT ![c] = h1[current], ![kids(c)] = h1[kids(current)]]
<1>1. /\ current \in Tasks /\ state \in [Tasks -> States] /\ PID \in [Tasks -> Nat]
      /\ PID_counter \in Nat /\ PID_counter >= 2 /\ PIDsUnique /\ gone \subseteq Tasks
  BY DEF E1Inv, Basics
<1>2. /\ c \in Tasks /\ PID' = [PID EXCEPT ![c] = PID[current]] /\ gone' = gone \cup {c}
      /\ state' = [state EXCEPT ![c] = state[current]]
      /\ UNCHANGED <<current, PID_counter, hung, reforked>> /\ current # idle_task /\ ~hung
  BY DEF ForkNoFrames, InUserCode
<1>3. heap' = list_add_tail(copied, c, freequeue)
  BY <1>1, <1>2, Addresses DEF ForkNoFrames, GivenBack
<1> HIDE DEF c
<1>4. Basics'
  BY <1>1, <1>2 DEF Basics
<1>5. PIDsUnique'
  BY <1>1, <1>2 DEF PIDsUnique
<1>6. ASSUME ~reforked'
      PROVE  \E F, R : /\ Queues(heap', state', F, R, {current', idle_task})
                       /\ KidsSound(heap', Tasks \ Members(F))
  <2>1. PICK F, R : /\ Queues(heap, state, F, R, {current, idle_task})
                    /\ KidsSound(heap, Tasks \ Members(F))
    BY <1>2, <1>6 DEF E1Inv, QueuesSound
  <2>2. /\ F \in Seq(Tasks) /\ Ring(Nodes, freequeue, F) /\ Chain(heap, freequeue, F)
        /\ R \in Seq(Tasks) /\ Members(F) \cap Members(R) = {}
        /\ Members(F) \cup Members(R) = Tasks \ {current, idle_task}
        /\ freequeue \notin Tasks
    BY <2>1, Addresses DEF Queues, Queue
  <2>3. F # << >> /\ c = F[1]
    <3>1. c = At(freequeue, F, 1) /\ (c = freequeue <=> F = << >>)
      BY <2>2, ChainEnds DEF c, list_first
    <3>2. F # << >>
      BY <1>2, <2>2, <3>1
    <3>3. 1 \in 1 .. Len(F)
      BY <2>2, <3>2
    <3> QED BY <2>2, <3>1, <3>2, <3>3, AtFacts
  <2> DEFINE F2 == Without(F, 1)
             out == {current, idle_task} \cup {c}
  <2>4. /\ Queues(h1, state, F2, R, out) /\ SameKids(heap, h1)
        /\ c \in Members(F) /\ Members(F2) = Members(F) \ {c}
    <3> HIDE DEF F2, out, h1
    <3> QED BY <2>1, <2>3, PopFree DEF F2, out, h1
  <2>5. c # current /\ c # idle_task /\ c \in out /\ c \notin Members(R)
    BY <2>2, <2>4
  <2> HIDE DEF F2, h1
  <2>6. h1 \in HeapOver(Nodes) /\ Chain(h1, blocked, << >>)
    BY <2>4 DEF Queues
  <2>7. c \in Nodes /\ current \in Nodes /\ kids(c) \in Nodes /\ kids(current) \in Nodes /\ kids(c) # c
    BY <1>1, <1>2, Addresses
  <2>8. copied \in HeapOver(Nodes) /\ \A x \in Nodes : x # c /\ x # kids(c) => SameLinks(h1, copied, x)
    BY <2>6, <2>7 DEF HeapOver, SameLinks
  <2> HIDE DEF copied
  <2>9. Queues(copied, state, F2, R, out)
    <3>1. /\ SameLinks(h1, copied, freequeue) /\ SameLinks(h1, copied, readyqueue)
          /\ SameLinks(h1, copied, blocked) /\ \A t \in Tasks \ out : SameLinks(h1, copied, t)
      BY <1>2, <2>5, <2>8, Addresses DEF Queue
    <3>2. Chain(copied, blocked, << >>)
      BY <2>6, <3>1, ChainEmpty DEF SameLinks
    <3> HIDE DEF out
    <3> QED BY <2>4, <2>8, <3>1, <3>2, QueuesFrame
  <2>10. /\ Queues(heap', state, Append(F2, c), R, out \ {c}) /\ SameKids(copied, heap')
         /\ Members(Append(F2, c)) = Members(F2) \cup {c}
    <3> HIDE DEF out
    <3> QED BY <1>2, <1>3, <2>5, <2>9, PushFree
  <2>11. \A t \in Members(R) : state'[t] = "ST_READY"
    <3>1. \A t \in Members(R) : state[t] = "ST_READY" /\ t \in Tasks /\ t # c
      BY <2>2, <2>5, <2>10 DEF Queues
    <3> QED BY <1>1, <1>2, <3>1
  <2>12. Queues(heap', state', Append(F2, c), R, out \ {c})
    BY <2>10, <2>11 DEF Queues
  <2>13. out \ {c} = {current', idle_task}
    BY <1>2, <2>5
  <2>14. Tasks \ Members(Append(F2, c)) = Tasks \ Members(F)
    BY <2>4, <2>10
  <2>15. KidsSound(heap', Tasks \ Members(F))
    <3> SUFFICES ASSUME NEW t \in Tasks \ Members(F), heap'[kids(t)].next = kids(t)
                 PROVE  heap'[kids(t)].prev = kids(t)
      BY DEF KidsSound
    <3>1. t # c /\ kids(t) \in Nodes /\ kids(t) # c /\ kids(t) # kids(c)
      BY <1>2, <2>4, Addresses
    <3>2. SameLinks(heap, h1, kids(t)) /\ SameLinks(h1, copied, kids(t)) /\ SameLinks(copied, heap', kids(t))
      BY <2>4, <2>8, <2>10, <3>1 DEF SameKids
    <3> QED BY <2>1, <3>2 DEF KidsSound, SameLinks
  <2> QED BY <2>12, <2>13, <2>14, <2>15
<1>7. QueuesSound'
  BY <1>6 DEF QueuesSound
<1> QED BY <1>4, <1>5, <1>7 DEF E1Inv

LEMMA E1ExitAlone == ASSUME E1Inv, ExitAlone PROVE E1Inv'
<1> DEFINE h == list_add_tail(heap, current, freequeue)
<1>1. /\ current \in Tasks /\ state \in [Tasks -> States] /\ current # idle_task /\ ~hung
      /\ SchedNext(h, state, "exit") /\ UNCHANGED <<PID, PID_counter, reforked>>
      /\ gone' = gone \cup {current}
  BY Addresses DEF E1Inv, Basics, ExitAlone, InUserCode
<1>2. current' \in Tasks /\ state' \in [Tasks -> States]
  BY <1>1, SchedBasics
<1>3. Basics' /\ PIDsUnique'
  BY <1>1, <1>2 DEF E1Inv, Basics, PIDsUnique
<1>4. ASSUME ~hung', ~reforked'
      PROVE  \E F, R : /\ Queues(heap', state', F, R, {current', idle_task})
                       /\ KidsSound(heap', Tasks \ Members(F))
  <2>1. PICK F, R : /\ Queues(heap, state, F, R, {current, idle_task})
                    /\ KidsSound(heap, Tasks \ Members(F))
    BY <1>1, <1>4 DEF E1Inv, QueuesSound
  <2>2. current \in {current, idle_task} /\ {current, idle_task} \ {current} = {idle_task}
    BY <1>1
  <2>3. /\ Queues(h, state, Append(F, current), R, {idle_task}) /\ SameKids(heap, h)
        /\ Members(Append(F, current)) = Members(F) \cup {current}
    BY <1>1, <2>1, <2>2, PushFree
  <2>4. /\ Tasks \ Members(Append(F, current)) \subseteq Tasks \ Members(F)
        /\ Tasks \ Members(F) \subseteq Tasks
    BY <2>3
  <2> HIDE DEF h
  <2>5. KidsSound(h, Tasks \ Members(Append(F, current)))
    BY <2>1, <2>3, <2>4, KidsKept
  <2> QED BY <1>1, <1>4, <2>3, <2>5, Sched
<1>5. QueuesSound'
  BY <1>4 DEF QueuesSound
<1> QED BY <1>3, <1>5 DEF E1Inv

\* In and out of the blocked queue, and to the end of the readyqueue.
LEMMA E1BlockNow == ASSUME E1Inv, BlockNow PROVE E1Inv'
<1> DEFINE a == list_add_tail(heap, current, blocked)
           b == list_del(a, current)
           h == list_add_tail(b, current, readyqueue)
           st == [state EXCEPT ![current] = "ST_READY"]
<1>1. /\ current \in Tasks /\ state \in [Tasks -> States] /\ current # idle_task /\ ~hung
      /\ SchedNext(h, st, "block") /\ UNCHANGED <<PID, PID_counter, reforked, gone>>
  BY Addresses DEF E1Inv, Basics, BlockNow, InUserCode, Requeue
<1>2. st \in [Tasks -> States] /\ st[current] = "ST_READY" /\ \A u \in Tasks : u # current => st[u] = state[u]
  BY <1>1 DEF States
<1> HIDE DEF st
<1>3. Basics' /\ PIDsUnique'
  <2>1. current' \in Tasks /\ state' \in [Tasks -> States]
    BY <1>1, <1>2, SchedBasics
  <2> QED BY <1>1, <2>1 DEF E1Inv, Basics, PIDsUnique
<1>4. ASSUME ~hung', ~reforked'
      PROVE  \E F, R : /\ Queues(heap', state', F, R, {current', idle_task})
                       /\ KidsSound(heap', Tasks \ Members(F))
  <2>1. PICK F, R : /\ Queues(heap, state, F, R, {current, idle_task})
                    /\ KidsSound(heap, Tasks \ Members(F))
    BY <1>1, <1>4 DEF E1Inv, QueuesSound
  <2> DEFINE q == <<current>>
  <2>2. /\ q \in Seq(Tasks) /\ q # << >> /\ q[1] = current /\ Append(<< >>, current) = q
        /\ Members(q) = {current} /\ Without(q, 1) = << >>
    <3>1. q \in Seq(Tasks) /\ q # << >> /\ q[1] = current /\ Append(<< >>, current) = q /\ Len(q) = 1
      BY <1>1
    <3> HIDE DEF q
    <3>2. 1 \in 1 .. Len(q) /\ 1 .. Len(q) = {1}
      BY <3>1
    <3>3. Members(q) = {current}
      BY <3>1, <3>2 DEF Members
    <3>4. Without(q, 1) \in Seq(Tasks) /\ Len(Without(q, 1)) = Len(q) - 1
      BY <3>1, <3>2, WithoutIs
    <3>5. Without(q, 1) = << >>
      BY <3>1, <3>4
    <3> QED BY <3>1, <3>3, <3>5
  <2> HIDE DEF q
  <2>3. /\ heap \in HeapOver(Nodes) /\ Chain(heap, blocked, << >>)
        /\ blocked \in Queue /\ blocked \in Nodes
        /\ << >> \in Seq(Tasks) /\ Ring(Nodes, blocked, << >>) /\ Members(<< >>) = {}
    <3>1. blocked \in Nodes /\ blocked \in Queue
      BY Addresses DEF Queue
    <3>2. Ring(Nodes, blocked, << >>)
      BY <3>1 DEF Ring
    <3>3. Members(<< >>) = {}
      BY DEF Members
    <3> QED BY <2>1, <3>1, <3>2, <3>3 DEF Queues
  <2>4. /\ a \in HeapOver(Nodes) /\ Ring(Nodes, blocked, q) /\ Chain(a, blocked, q)
        /\ \A x \in Nodes : x # current /\ x # blocked => SameLinks(heap, a, x)
        /\ SameKids(heap, a)
    BY <1>1, <2>2, <2>3, Pushed
  <2> HIDE DEF a
  <2>5. /\ b \in HeapOver(Nodes) /\ Chain(b, blocked, << >>)
        /\ \A x \in Nodes : x # blocked /\ x # current => SameLinks(a, b, x)
        /\ SameKids(a, b)
    BY <2>2, <2>3, <2>4, Popped
  <2> HIDE DEF b
  <2>6. \A x \in Nodes : x # blocked /\ x # current => SameLinks(heap, b, x)
    BY <2>4, <2>5 DEF SameLinks
  <2>7. SameKids(heap, b)
    BY <2>4, <2>5 DEF SameKids, SameLinks
  <2>8. Queues(b, state, F, R, {current, idle_task})
    <3>1. /\ SameLinks(heap, b, freequeue) /\ SameLinks(heap, b, readyqueue)
          /\ \A t \in Tasks \ {current, idle_task} : SameLinks(heap, b, t)
      BY <1>1, <2>6, Addresses DEF Queue
    <3> QED BY <2>1, <2>5, <3>1, QueuesFrame
  <2>9. current \in {current, idle_task} /\ {current, idle_task} \ {current} = {idle_task}
    BY <1>1
  <2>10. Queues(h, st, F, Append(R, current), {idle_task}) /\ SameKids(b, h)
    BY <1>1, <1>2, <2>8, <2>9, PushReady
  <2> HIDE DEF h
  <2>11. KidsSound(h, Tasks \ Members(F))
    <3>1. SameKids(heap, h) /\ Tasks \ Members(F) \subseteq Tasks
      BY <2>7, <2>10 DEF SameKids, SameLinks
    <3> QED BY <2>1, <3>1, KidsKept
  <2> QED BY <1>1, <1>2, <1>4, <2>10, <2>11, Sched
<1>5. QueuesSound'
  BY <1>4 DEF QueuesSound
<1> QED BY <1>3, <1>5 DEF E1Inv

LEMMA E1Kept ==
  ASSUME E1Inv, UNCHANGED <<PID, state, current, PID_counter, reforked, gone>>,
         hung' \/ UNCHANGED <<heap, hung>>
  PROVE  E1Inv'
<1>1. Basics' /\ PIDsUnique'
  BY DEF E1Inv, Basics, PIDsUnique
<1>2. QueuesSound'
  BY DEF E1Inv, QueuesSound
<1> QED BY <1>1, <1>2 DEF E1Inv

LEMMA E1Unblock == ASSUME E1Inv, NEW pid, sys_unblock(pid) PROVE E1Inv'
<1> DEFINE w == Cursor(heap, kids(current), Turns)
<1>1. CASE UnblockFound(w, pid)
  <2>1. PICK i \in 0 .. Turns : /\ Hit(w, i, pid)
                                /\ IF state[w[i]] = "ST_BLOCKED" THEN TRUE ELSE UNCHANGED <<heap, state>>
                                /\ UNCHANGED <<PID, current, PID_counter, hung, reforked, gone>>
    BY <1>1 DEF UnblockFound
  <2>2. w[i] \in Tasks
    BY <2>1 DEF Hit
  <2>3. state[w[i]] # "ST_BLOCKED"
    BY <2>2 DEF E1Inv, Basics, States
  <2> QED BY <2>1, <2>3, E1Kept
<1>2. CASE UnblockNone(w, pid)
  BY <1>2, E1Kept DEF UnblockNone, vars, fields
<1>3. CASE UnblockHangs(w, pid)
  BY <1>3, E1Kept DEF UnblockHangs, fields
<1> QED BY <1>1, <1>2, <1>3 DEF sys_unblock

LEMMA E1Step == E1Inv /\ [Next]_vars => E1Inv'
<1> SUFFICES ASSUME E1Inv, [Next]_vars PROVE E1Inv'
  OBVIOUS
<1>1. CASE clock_routine
  BY <1>1, E1Kept DEF clock_routine, fields
<1>2. CASE ForkNoTask \/ ForkWild \/ Hung
  BY <1>2, E1Kept DEF ForkNoTask, ForkWild, Hung, vars, fields
<1>3. CASE sys_exit
  <2>1. CASE ExitRefused
    BY <2>1, E1Kept DEF ExitRefused, vars, fields
  <2>2. CASE ExitWithKids
    BY <2>2, E1Kept DEF ExitWithKids
  <2> QED BY <1>3, <2>1, <2>2, E1ExitAlone DEF sys_exit
<1>4. CASE sys_block
  <2>1. CASE BlockPending
    BY <2>1, E1Kept DEF BlockPending
  <2> QED BY <1>4, <2>1, E1BlockNow DEF sys_block
<1>5. CASE \E pid \in 0 .. MaxPID : sys_unblock(pid)
  BY <1>5, E1Unblock
<1>6. CASE UNCHANGED vars
  BY <1>6, E1Kept DEF vars, fields
<1> QED BY <1>1, <1>2, <1>3, <1>4, <1>5, <1>6, E1ForkOK, E1ForkNoFrames DEF Next

\* The freequeue at boot: the tasks below idle and task 1, the last one first.
LEMMA E1Init == Init => E1Inv
<1> SUFFICES ASSUME Init PROVE E1Inv
  OBVIOUS
<1> DEFINE n == NR_TASKS - 2
           F == [i \in 1 .. n |-> n - i]
<1>1. NR_TASKS \in Nat /\ NR_TASKS >= 3 /\ n \in Nat /\ n >= 1 /\ NR_TASKS = n + 2
  BY E1Assumption
<1>2. /\ F \in Seq(Tasks) /\ Len(F) = n /\ \A i \in 1 .. n : F[i] = n - i
      /\ \A i, j \in 1 .. n : F[i] = F[j] => i = j
  BY <1>1 DEF Tasks
<1>3. Members(F) = Tasks \ {task1, idle_task}
  <2>1. \A i \in 1 .. n : n - i \in Tasks \ {task1, idle_task}
    BY <1>1 DEF Tasks, task1, idle_task
  <2>2. \A t \in Tasks \ {task1, idle_task} : n - t \in 1 .. n /\ n - (n - t) = t
    BY <1>1 DEF Tasks, task1, idle_task
  <2> HIDE DEF F, n
  <2>3. \A i \in 1 .. n : F[i] \in Tasks \ {task1, idle_task}
    BY <1>2, <2>1
  <2>4. \A t \in Tasks \ {task1, idle_task} : n - t \in 1 .. n /\ F[n - t] = t
    BY <1>2, <2>2
  <2> QED BY <1>2, <2>3, <2>4 DEF Members
<1>4. heap = BootHeap /\ current = task1 /\ ~hung
  BY DEF Init
<1> DEFINE S == {kids(idle_task), kids(task1), readyqueue, blocked}
           L == 0 .. NR_TASKS - 3
<1>14. /\ freequeue \in Nodes /\ S \subseteq Nodes /\ L \subseteq Nodes /\ NULL \in Nodes
       /\ freequeue \notin S /\ freequeue \notin L /\ S \cap L = {}
       /\ L = 0 .. n - 1 /\ NR_TASKS - 3 = n - 1 /\ n - 1 \in L /\ 0 \in L
       /\ \A x \in L : (x # 0 => x - 1 \in L) /\ (x # NR_TASKS - 3 => x + 1 \in L)
  BY <1>1 DEF Nodes, NULL, freequeue, readyqueue, blocked, kids, idle_task, task1
<1>15. heap = [x \in Nodes |->
                 CASE x \in L -> [next |-> IF x = 0 THEN freequeue ELSE x - 1,
                                  prev |-> IF x = NR_TASKS - 3 THEN freequeue ELSE x + 1]
                   [] x = freequeue -> [next |-> NR_TASKS - 3, prev |-> 0]
                   [] x \in S -> [next |-> x, prev |-> x]
                   [] OTHER -> [next |-> NULL, prev |-> NULL]]
  BY <1>4 DEF BootHeap
<1> HIDE DEF S, L
<1>16. /\ \A x \in L : heap[x] = [next |-> IF x = 0 THEN freequeue ELSE x - 1,
                                  prev |-> IF x = NR_TASKS - 3 THEN freequeue ELSE x + 1]
       /\ heap[freequeue] = [next |-> NR_TASKS - 3, prev |-> 0]
       /\ \A x \in S : heap[x] = [next |-> x, prev |-> x]
       /\ \A x \in Nodes : x \notin L /\ x # freequeue /\ x \notin S => heap[x] = [next |-> NULL, prev |-> NULL]
  <2>1. ASSUME NEW x \in L PROVE heap[x] = [next |-> IF x = 0 THEN freequeue ELSE x - 1,
                                          prev |-> IF x = NR_TASKS - 3 THEN freequeue ELSE x + 1]
    BY <1>14, <1>15, <2>1
  <2>2. heap[freequeue] = [next |-> NR_TASKS - 3, prev |-> 0]
    BY <1>14, <1>15
  <2>3. ASSUME NEW x \in S PROVE heap[x] = [next |-> x, prev |-> x]
    BY <1>14, <1>15, <2>3
  <2>4. ASSUME NEW x \in Nodes, x \notin L, x # freequeue, x \notin S
        PROVE  heap[x] = [next |-> NULL, prev |-> NULL]
    BY <1>15, <2>4
  <2> QED BY <2>1, <2>2, <2>3, <2>4
<1>17. DOMAIN heap = Nodes /\ heap = [x \in Nodes |-> heap[x]]
  BY <1>15
<1>5. /\ \A x \in 0 .. n - 1 : /\ heap[x].next = (IF x = 0 THEN freequeue ELSE x - 1)
                               /\ heap[x].prev = (IF x = n - 1 THEN freequeue ELSE x + 1)
      /\ heap[freequeue].next = n - 1 /\ heap[freequeue].prev = 0
      /\ \A x \in {kids(idle_task), kids(task1), readyqueue, blocked} : heap[x].next = x /\ heap[x].prev = x
  <2>1. ASSUME NEW x \in S PROVE heap[x].next = x /\ heap[x].prev = x
    <3>1. heap[x] = [next |-> x, prev |-> x]
      BY <1>16
    <3> QED BY <3>1
  <2>2. ASSUME NEW x \in L PROVE /\ heap[x].next = (IF x = 0 THEN freequeue ELSE x - 1)
                                /\ heap[x].prev = (IF x = NR_TASKS - 3 THEN freequeue ELSE x + 1)
    <3>1. heap[x] = [next |-> IF x = 0 THEN freequeue ELSE x - 1,
                     prev |-> IF x = NR_TASKS - 3 THEN freequeue ELSE x + 1]
      BY <1>16
    <3> QED BY <3>1
  <2> QED BY <1>14, <1>16, <2>1, <2>2 DEF S
<1>6. heap \in HeapOver(Nodes)
  <2>1. ASSUME NEW x \in Nodes PROVE heap[x] \in [next : Nodes, prev : Nodes]
    <3>1. CASE x \in L
      <4>1. (IF x = 0 THEN freequeue ELSE x - 1) \in Nodes
            /\ (IF x = NR_TASKS - 3 THEN freequeue ELSE x + 1) \in Nodes
        BY <1>14, <3>1
      <4>2. heap[x] = [next |-> IF x = 0 THEN freequeue ELSE x - 1,
                       prev |-> IF x = NR_TASKS - 3 THEN freequeue ELSE x + 1]
        BY <1>16, <3>1
      <4> QED BY <4>1, <4>2
    <3>2. CASE x = freequeue
      BY <1>14, <1>16, <3>2
    <3>3. CASE x \in S
      <4>1. heap[x] = [next |-> x, prev |-> x]
        BY <1>16, <3>3
      <4> QED BY <4>1
    <3>4. CASE x \notin L /\ x # freequeue /\ x \notin S
      BY <1>14, <1>16, <3>4
    <3> QED BY <3>1, <3>2, <3>3, <3>4
  <2> QED BY <1>17, <2>1 DEF HeapOver
<1> HIDE DEF F, n
<1>7. Ring(Nodes, freequeue, F)
  <2>1. freequeue \in Queue
    BY DEF Queue
  <2> QED BY <1>2, <2>1, RingOfTasks
<1>8. Chain(heap, freequeue, F)
  <2> SUFFICES ASSUME NEW i \in 0 .. n
               PROVE  /\ heap[At(freequeue, F, i)].next = At(freequeue, F, i + 1)
                      /\ heap[At(freequeue, F, i + 1)].prev = At(freequeue, F, i)
    BY <1>2 DEF Chain
  <2>1. \A k \in 1 .. n : At(freequeue, F, k) = n - k
    BY <1>2 DEF At
  <2>2. At(freequeue, F, 0) = freequeue /\ At(freequeue, F, n + 1) = freequeue
    BY <1>1, <1>2 DEF At
  <2>3. CASE i = 0
    <3>1. At(freequeue, F, i) = freequeue /\ At(freequeue, F, i + 1) = n - 1
      BY <1>1, <2>1, <2>2, <2>3
    <3> QED BY <1>1, <1>5, <3>1
  <2>4. CASE i = n
    <3>1. At(freequeue, F, i) = 0 /\ At(freequeue, F, i + 1) = freequeue
      BY <1>1, <2>1, <2>2, <2>4
    <3> QED BY <1>1, <1>5, <3>1
  <2>5. CASE i \in 1 .. n - 1
    <3>1. i \in 1 .. n /\ i + 1 \in 1 .. n
      BY <1>1, <2>5
    <3>2. At(freequeue, F, i) = n - i /\ At(freequeue, F, i + 1) = n - (i + 1)
      BY <2>1, <3>1
    <3>3. /\ n - i \in 0 .. n - 1 /\ n - i # 0 /\ n - i - 1 = n - (i + 1)
          /\ n - (i + 1) \in 0 .. n - 1 /\ n - (i + 1) # n - 1 /\ n - (i + 1) + 1 = n - i
      BY <1>1, <2>5
    <3> QED BY <1>5, <3>2, <3>3
  <2> QED BY <1>1, <2>3, <2>4, <2>5
<1>9. Chain(heap, readyqueue, << >>) /\ Chain(heap, blocked, << >>)
  BY <1>5, ChainEmpty
<1>10. /\ << >> \in Seq(Tasks) /\ Ring(Nodes, readyqueue, << >>) /\ Members(<< >>) = {}
  <2>1. readyqueue \in Nodes
    BY Addresses DEF Queue
  <2> QED BY <2>1 DEF Ring, Members
<1>11. Queues(heap, state, F, << >>, {current, idle_task})
  BY <1>2, <1>3, <1>4, <1>6, <1>7, <1>8, <1>9, <1>10 DEF Queues
<1>12. KidsSound(heap, Tasks \ Members(F))
  BY <1>3, <1>5 DEF KidsSound
<1>13. Basics /\ PIDsUnique
  BY Addresses DEF Init, Basics, PIDsUnique, States
<1> QED BY <1>11, <1>12, <1>13 DEF E1Inv, QueuesSound

LEMMA E1Always == Spec => []E1Inv
BY E1Init, E1Step, PTL DEF Spec

\* No two processes ever have the same PID, and no PID is given out again.
THEOREM PIDsCorrect == Spec => []PIDsUnique
<1>1. E1Inv => PIDsUnique
  BY DEF E1Inv
<1> QED BY <1>1, E1Always, PTL


\* A queue and its members.
LEMMA QueueSize ==
  ASSUME NEW h, NEW q \in Seq(Tasks), Ring(Nodes, h, q)
  PROVE  /\ Len(q) \in Nat /\ Len(q) <= NR_TASKS
         /\ IsFiniteSet(Members(q)) /\ Cardinality(Members(q)) = Len(q)
<1> DEFINE n == Len(q)
           I == 1 .. n
<1>1. n \in Nat /\ \A i, j \in I : q[i] = q[j] => i = j
  BY DEF Ring
<1>2. IsFiniteSet(I) /\ Cardinality(I) = n
  <2> HIDE DEF n
  <2>1. 1 \in Int /\ n \in Int
    BY <1>1
  <2>2. IsFiniteSet(1 .. n) /\ Cardinality(1 .. n) = (IF 1 > n THEN 0 ELSE n - 1 + 1)
    BY <2>1, FS_Interval
  <2> QED BY <1>1, <2>2
<1>3. q \in Bijection(I, Members(q))
  <2>1. q \in [I -> Members(q)]
    BY DEF Members
  <2> QED BY <1>1, <2>1 DEF Members, Bijection, Injection, Surjection, IsInjective
<1>4. ExistsBijection(I, Members(q))
  BY <1>3 DEF ExistsBijection
<1> HIDE DEF I
<1>5. IsFiniteSet(Members(q)) /\ Cardinality(Members(q)) = Cardinality(I)
  BY <1>2, <1>4, FS_Bijection
<1>6. IsFiniteSet(Tasks) /\ Cardinality(Tasks) = NR_TASKS
  <2>1. NR_TASKS \in Nat /\ NR_TASKS >= 3 /\ 0 \in Int /\ NR_TASKS - 1 \in Int
    BY E1Assumption
  <2>2. IsFiniteSet(0 .. NR_TASKS - 1)
        /\ Cardinality(0 .. NR_TASKS - 1) = (IF 0 > NR_TASKS - 1 THEN 0 ELSE NR_TASKS - 1 - 0 + 1)
    BY <2>1, FS_Interval
  <2> QED BY <2>1, <2>2 DEF Tasks
<1>7. Members(q) \in SUBSET Tasks
  BY DEF Members
<1>8. Cardinality(Members(q)) <= Cardinality(Tasks)
  BY <1>6, <1>7, FS_Subset
<1> QED BY <1>1, <1>2, <1>5, <1>6, <1>8

LEMMA E1Lists == E1Inv => ListsSound
<1> SUFFICES ASSUME E1Inv, ~hung, ~reforked
             PROVE  /\ Ends(heap, freequeue, Turns) /\ Ends(heap, readyqueue, Turns)
                    /\ Len(InFree) + Len(InReady) = Cardinality(Elems(InFree) \cup Elems(InReady))
                    /\ {current, idle_task} = Tasks \ (Elems(InFree) \cup Elems(InReady))
                    /\ \A t \in Elems(InReady) : state[t] = "ST_READY"
  BY DEF ListsSound
<1>1. PICK F, R : Queues(heap, state, F, R, {current, idle_task})
  BY DEF E1Inv, QueuesSound
<1>2. /\ F \in Seq(Tasks) /\ Ring(Nodes, freequeue, F) /\ Chain(heap, freequeue, F)
      /\ R \in Seq(Tasks) /\ Ring(Nodes, readyqueue, R) /\ Chain(heap, readyqueue, R)
      /\ Members(F) \cap Members(R) = {} /\ Members(F) \cup Members(R) = Tasks \ {current, idle_task}
      /\ \A t \in Members(R) : state[t] = "ST_READY"
  BY <1>1 DEF Queues
<1>3. /\ Len(F) \in Nat /\ Len(F) <= NR_TASKS /\ IsFiniteSet(Members(F)) /\ Cardinality(Members(F)) = Len(F)
      /\ Len(R) \in Nat /\ Len(R) <= NR_TASKS /\ IsFiniteSet(Members(R)) /\ Cardinality(Members(R)) = Len(R)
  BY <1>2, QueueSize
<1>4. Turns \in Nat /\ NR_TASKS \in Nat /\ NR_TASKS <= Turns
  BY E1Assumption DEF Turns, blocked, freequeue
<1>5. Len(F) <= Turns /\ Len(R) <= Turns
  BY <1>3, <1>4
<1>6. InFree = F /\ Ends(heap, freequeue, Turns)
  BY <1>2, <1>4, <1>5, WalkIs DEF InFree
<1>7. InReady = R /\ Ends(heap, readyqueue, Turns)
  BY <1>2, <1>4, <1>5, WalkIs DEF InReady
<1>8. Elems(F) = Members(F) /\ Elems(R) = Members(R)
  BY <1>2 DEF Elems, Members
<1>9. Len(F) + Len(R) = Cardinality(Members(F) \cup Members(R))
  <2>1. Cardinality(Members(F) \cup Members(R))
          = Cardinality(Members(F)) + Cardinality(Members(R)) - Cardinality(Members(F) \cap Members(R))
    BY <1>3, FS_Union
  <2>2. Cardinality({}) = 0
    BY FS_EmptySet
  <2>3. Cardinality(Members(F) \cap Members(R)) = 0
    BY <1>2, <2>2
  <2> QED BY <1>3, <2>1, <2>3
<1>10. {current, idle_task} = Tasks \ (Members(F) \cup Members(R))
  <2>1. current \in Tasks /\ idle_task \in Tasks
    BY Addresses DEF E1Inv, Basics
  <2> QED BY <1>2, <2>1
<1> QED BY <1>2, <1>6, <1>7, <1>8, <1>9, <1>10

\* With any number of PCBs, and whatever processes fork (once each), block,
\* unblock and exit: the queues of the kernel are sound lists that hold every
\* PCB but the running one and idle exactly once.
THEOREM ListsCorrect == Spec => []ListsSound
BY E1Lists, E1Always, PTL
=============================================================================
