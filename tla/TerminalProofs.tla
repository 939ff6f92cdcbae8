--------------------------- MODULE TerminalProofs ---------------------------
(***************************************************************************)
(* Proofs about Keyboard and Terminal: the ring of keyboard events is a    *)
(* FIFO whatever the program at the terminal does, the kernels that test   *)
(* the block of a call stay inside the memory of the user, and a write     *)
(* prints exactly what it was given.                                       *)
(***************************************************************************)
EXTENDS Terminal, WellFoundedInduction, TLAPS

LEMMA ModFacts ==
    ASSUME NEW n \in Nat \ {0}
    PROVE  /\ \A x \in 0 .. n - 1 : (x % n) = x
           /\ \A x \in n .. 2 * n - 1 : (x % n) = x - n
           /\ \A x \in -n .. -1 : (x % n) = x + n
OBVIOUS

-----------------------------------------------------------------------------
(* The ring. *)

N == KB_BUFFER_SIZE

LEMMA Size == N \in Nat /\ N >= 2 /\ N \in Nat \ {0}
BY BufferAssumption DEF N

LEMMA SlotFacts ==
    /\ \A k \in Slots : /\ k \in Nat /\ k < N
                        /\ NextSlot(k) = IF k + 1 = N THEN 0 ELSE k + 1
                        /\ NextSlot(k) \in Slots
<1> SUFFICES ASSUME NEW k \in Slots
             PROVE  /\ k \in Nat /\ k < N
                    /\ NextSlot(k) = IF k + 1 = N THEN 0 ELSE k + 1
                    /\ NextSlot(k) \in Slots
  OBVIOUS
<1>1. k \in Nat /\ k < N
  BY Size DEF Slots, N
<1>2. NextSlot(k) = IF k + 1 = N THEN 0 ELSE k + 1
  <2>1. NextSlot(k) = (k + 1) % N
    BY DEF NextSlot, N
  <2>2. CASE k + 1 = N
    <3>1. N \in N .. 2 * N - 1 /\ N - N = 0
      BY Size
    <3> QED BY <2>1, <2>2, <3>1, ModFacts, Size
  <2>3. CASE k + 1 # N
    <3>1. k + 1 \in 0 .. N - 1
      BY <1>1, <2>3, Size
    <3> QED BY <2>1, <2>3, <3>1, ModFacts, Size
  <2> QED BY <2>2, <2>3
<1> QED BY <1>1, <1>2, Size DEF Slots, N

\* Where the k-th event behind position t is, and how many there are between t
\* and h.
Pos(t, k) == IF t + k < N THEN t + k ELSE t + k - N
Dist(t, h) == IF h >= t THEN h - t ELSE h - t + N

LEMMA RingArithmetic ==
    ASSUME NEW t \in Slots, NEW h \in Slots
    PROVE  /\ ((h - t) % N) = Dist(t, h) /\ Dist(t, h) \in 0 .. N - 1
           /\ \A k \in 0 .. N - 1 : ((t + k) % N) = Pos(t, k) /\ Pos(t, k) \in Slots
<1>1. t \in Nat /\ t < N /\ h \in Nat /\ h < N
  BY SlotFacts
<1>2. ((h - t) % N) = Dist(t, h) /\ Dist(t, h) \in 0 .. N - 1
  <2>1. CASE h >= t
    <3>1. h - t \in 0 .. N - 1
      BY <1>1, <2>1, Size
    <3> QED BY <1>1, <2>1, <3>1, ModFacts, Size DEF Dist
  <2>2. CASE h < t
    <3>1. h - t \in -N .. -1 /\ h - t + N \in 0 .. N - 1 /\ ~(h >= t)
      BY <1>1, <2>2, Size
    <3> QED BY <2>2, <3>1, ModFacts, Size DEF Dist
  <2> QED BY <1>1, <2>1, <2>2
<1>3. ASSUME NEW k \in 0 .. N - 1 PROVE ((t + k) % N) = Pos(t, k) /\ Pos(t, k) \in Slots
  <2>1. CASE t + k < N
    <3>1. t + k \in 0 .. N - 1
      BY <1>1, <2>1, Size
    <3> QED BY <2>1, <3>1, ModFacts, Size DEF Pos, Slots, N
  <2>2. CASE ~(t + k < N)
    <3>1. t + k \in N .. 2 * N - 1 /\ t + k - N \in 0 .. N - 1
      BY <1>1, <2>2, Size
    <3> QED BY <2>2, <3>1, ModFacts, Size DEF Pos, Slots, N
  <2> QED BY <2>1, <2>2
<1> QED BY <1>2, <1>3

LEMMA RingTypeInit == Init => TypeOK
<1> SUFFICES ASSUME Init PROVE TypeOK
  OBVIOUS
<1>1. [scancode |-> 0, pressed |-> 0] \in EventType /\ 0 \in Slots
  BY Size DEF EventType, Slots, N
<1> QED BY <1>1 DEF Init, TypeOK

LEMMA RingTypeStep == TypeOK /\ [Next]_ring => TypeOK'
<1> SUFFICES ASSUME TypeOK, [Next]_ring PROVE TypeOK'
  OBVIOUS
<1>1. ASSUME NEW k \in Keys, Press(k) PROVE TypeOK'
  <2>1. k \in 0 .. 127 /\ Decode(k) \in EventType
    BY KeysAssumption DEF Decode, EventType
  <2>2. Typed(k, 1) \in [event : EventType, n : {0, 1}]
    BY <2>1 DEF Typed, EventType, TypeOK
  <2>3. events' \in [Slots -> EventType] /\ head' \in Slots
    BY <1>1, <2>1, SlotFacts DEF Press, keyboard_routine, Store, TypeOK
  <2> QED BY <1>1, <2>2, <2>3 DEF Press, keyboard_routine, TypeOK
<1>2. ASSUME NEW k \in Keys, Release(k) PROVE TypeOK'
  <2>1. k \in 0 .. 127 /\ Decode(k + 128) \in EventType
    BY KeysAssumption DEF Decode, EventType
  <2>2. Typed(k, 0) \in [event : EventType, n : {0, 1}]
    BY <2>1 DEF Typed, EventType, TypeOK
  <2>3. events' \in [Slots -> EventType] /\ head' \in Slots
    BY <1>2, <2>1, SlotFacts DEF Release, keyboard_routine, Store, TypeOK
  <2> QED BY <1>2, <2>2, <2>3 DEF Release, keyboard_routine, TypeOK
<1>3. CASE clock_routine
  <2>1. last' = <<events[tail]>> /\ events[tail] \in EventType /\ tail' \in Slots
    BY <1>3, SlotFacts DEF clock_routine, TypeOK, AdvanceTail
  <2> QED BY <1>3, <2>1 DEF clock_routine, TypeOK
<1>4. CASE UNCHANGED ring
  BY <1>4 DEF ring, TypeOK
<1> QED BY <1>1, <1>2, <1>3, <1>4 DEF Next

\* What the ring holds, without remainders.
RingIs ==
    /\ Pending \in Seq(EventType)
    /\ Len(Pending) = Dist(tail, head)
    /\ \A k \in 1 .. Dist(tail, head) : Pending[k] = events[Pos(tail, k - 1)]

LEMMA TypeRing == TypeOK => RingIs
<1> SUFFICES ASSUME TypeOK PROVE RingIs
  OBVIOUS
<1> DEFINE d == Dist(tail, head)
<1>1. tail \in Slots /\ head \in Slots /\ events \in [Slots -> EventType]
  BY DEF TypeOK
<1>2. Count = d /\ d \in 0 .. N - 1
  BY <1>1, RingArithmetic DEF Count, N
<1>3. \A k \in 1 .. d : k \in Int /\ k - 1 \in 0 .. N - 1 /\ tail + k - 1 = tail + (k - 1)
  BY <1>1, <1>2, SlotFacts, Size
<1>4. \A k \in 1 .. d : /\ ((tail + k - 1) % N) = Pos(tail, k - 1)
                        /\ Pos(tail, k - 1) \in Slots
  BY <1>1, <1>3, RingArithmetic
<1>5. Pending = [k \in 1 .. d |-> events[(tail + k - 1) % N]]
  BY <1>2 DEF Pending, N
<1> HIDE DEF d
<1>6. Pending = [k \in 1 .. d |-> events[Pos(tail, k - 1)]]
  BY <1>4, <1>5
<1>7. d \in Nat /\ \A k \in 1 .. d : events[Pos(tail, k - 1)] \in EventType
  BY <1>1, <1>2, <1>4, Size
<1>8. Pending \in Seq(EventType) /\ Len(Pending) = d /\ \A k \in 1 .. d : Pending[k] = events[Pos(tail, k - 1)]
  BY <1>6, <1>7
<1> QED BY <1>8 DEF RingIs, d

\* An event that comes is put at the end of the queue, or dropped when the queue
\* holds KB_BUFFER_SIZE - 1 of them.
LEMMA StoreIsPut ==
    ASSUME TypeOK, RingIs, RingIs', NEW e \in EventType, Store(e),
           UNCHANGED <<tail, last>>, typed' = [event |-> e, n |-> 1 - typed.n]
    PROVE  Fifo!Put(e) \/ Fifo!Drop(e)
<1> DEFINE d == Dist(tail, head)
<1>1. /\ tail \in Slots /\ head \in Slots /\ events \in [Slots -> EventType]
      /\ tail \in Nat /\ head \in Nat /\ tail < N /\ head < N /\ tail' = tail
      /\ N \in Nat /\ N >= 2
  BY SlotFacts, Size DEF TypeOK
<1>2. NextSlot(head) = IF head + 1 = N THEN 0 ELSE head + 1
  BY <1>1, SlotFacts
<1>3. d \in Nat /\ d <= N - 1 /\ (Full <=> d = N - 1)
  BY <1>1, <1>2 DEF Full, Dist
<1>4. Fifo!Offer(e)
  BY DEF Fifo!Offer
<1>5. CASE Full
  <2>1. UNCHANGED <<events, head>>
    BY <1>5 DEF Store
  <2>2. Pending' = Pending
    BY <1>1, <2>1 DEF Pending, Count
  <2>3. Len(Pending) = KB_BUFFER_SIZE - 1
    BY <1>3, <1>5 DEF RingIs, N
  <2> QED BY <1>4, <2>2, <2>3 DEF Fifo!Drop
<1>6. CASE ~Full
  <2>1. events' = [events EXCEPT ![head] = e] /\ head' = NextSlot(head)
    BY <1>6 DEF Store
  <2>2. Dist(tail', head') = d + 1
    BY <1>1, <1>2, <1>3, <1>6, <2>1 DEF Dist
  <2>3. Pos(tail, d) = head
    BY <1>1 DEF Pos, Dist
  <2>4. \A k \in 1 .. d : Pos(tail, k - 1) # head /\ Pos(tail, k - 1) \in Slots
    <3> SUFFICES ASSUME NEW k \in 1 .. d PROVE Pos(tail, k - 1) # head /\ Pos(tail, k - 1) \in Slots
      OBVIOUS
    <3>1. k \in Nat /\ k >= 1 /\ k <= d
      BY <1>3
    <3> QED BY <1>1, <1>3, <3>1 DEF Pos, Dist, Slots, N
  <2> HIDE DEF d
  <2>5. /\ Pending' \in Seq(EventType) /\ Len(Pending') = d + 1
        /\ \A k \in 1 .. d + 1 : Pending'[k] = events'[Pos(tail, k - 1)]
    BY <1>1, <2>2 DEF RingIs, Pos
  <2>6. /\ Pending \in Seq(EventType) /\ Len(Pending) = d
        /\ \A k \in 1 .. d : Pending[k] = events[Pos(tail, k - 1)]
    BY DEF RingIs, d
  <2>7. \A k \in 1 .. d : Pending'[k] = Pending[k]
    BY <1>1, <1>3, <2>1, <2>4, <2>5, <2>6
  <2>8. Pending'[d + 1] = e
    <3>1. d + 1 \in 1 .. d + 1 /\ d + 1 - 1 = d
      BY <1>3
    <3>2. Pending'[d + 1] = events'[head]
      <4>1. Pending'[d + 1] = events'[Pos(tail, d + 1 - 1)]
        BY <1>3, <2>5, <3>1
      <4> QED BY <2>3, <3>1, <4>1
    <3> QED BY <1>1, <2>1, <3>2
  <2>9. Pending' = Append(Pending, e)
    <3> DEFINE q == Append(Pending, e)
    <3>1. q \in Seq(EventType) /\ Len(q) = d + 1 /\ q[d + 1] = e
          /\ \A k \in 1 .. d : q[k] = Pending[k]
      BY <2>6
    <3>2. \A k \in 1 .. d + 1 : Pending'[k] = q[k]
      BY <1>3, <2>7, <2>8, <3>1
    <3> HIDE DEF q
    <3>3. Pending' = q
      BY <2>5, <3>1, <3>2
    <3> QED BY <3>3 DEF q
  <2>10. Len(Pending) < KB_BUFFER_SIZE - 1
    BY <1>1, <1>3, <1>6, <2>6 DEF N
  <2> QED BY <1>4, <2>9, <2>10 DEF Fifo!Put
<1> QED BY <1>5, <1>6

\* The clock takes the oldest event.
LEMMA ClockIsGet ==
    ASSUME TypeOK, RingIs, RingIs', clock_routine
    PROVE  Fifo!Get
<1> DEFINE d == Dist(tail, head)
<1>1. /\ tail \in Slots /\ head \in Slots /\ head # tail
      /\ tail \in Nat /\ head \in Nat /\ tail < N /\ head < N
      /\ N \in Nat /\ N >= 2
      /\ tail' = NextSlot(tail) /\ last' = <<events[tail]>>
      /\ UNCHANGED <<events, head, typed>>
  BY SlotFacts, Size DEF TypeOK, clock_routine, AdvanceTail
<1>2. NextSlot(tail) = IF tail + 1 = N THEN 0 ELSE tail + 1
  BY <1>1, SlotFacts
<1>3. d \in Nat /\ d >= 1
  BY <1>1 DEF Dist
<1>4. Dist(tail', head') = d - 1
  BY <1>1, <1>2 DEF Dist
<1>5. \A k \in Nat : Pos(tail', k) = Pos(tail, k + 1) \/ k >= d
  BY <1>1, <1>2 DEF Pos, Dist
<1>6. Pos(tail, 0) = tail
  BY <1>1 DEF Pos
<1> HIDE DEF d
<1>7. /\ Pending \in Seq(EventType) /\ Len(Pending) = d
      /\ \A k \in 1 .. d : Pending[k] = events[Pos(tail, k - 1)]
  BY DEF RingIs, d
<1>8. /\ Pending' \in Seq(EventType) /\ Len(Pending') = d - 1
      /\ \A k \in 1 .. d - 1 : Pending'[k] = events[Pos(tail', k - 1)]
  BY <1>1, <1>4 DEF RingIs, Pos
<1>9. Pending # <<>> /\ Head(Pending) = events[tail]
  <2>1. Head(Pending) = Pending[1] /\ 1 \in 1 .. d /\ 1 - 1 = 0
    BY <1>3, <1>7
  <2> QED BY <1>3, <1>6, <1>7, <2>1
<1>10. Pending' = Tail(Pending)
  <2> DEFINE q == Tail(Pending)
  <2>1. q \in Seq(EventType) /\ Len(q) = d - 1 /\ \A k \in 1 .. d - 1 : q[k] = Pending[k + 1]
    BY <1>3, <1>7, <1>9
  <2>2. ASSUME NEW k \in 1 .. d - 1 PROVE Pending'[k] = q[k]
    <3>1. k + 1 \in 1 .. d /\ k - 1 \in Nat /\ (k - 1) + 1 = (k + 1) - 1 /\ ~(k - 1 >= d)
      BY <1>3
    <3>2. Pos(tail', k - 1) = Pos(tail, (k + 1) - 1)
      BY <1>5, <3>1
    <3> HIDE DEF q
    <3> QED BY <1>7, <1>8, <2>1, <3>1, <3>2
  <2> HIDE DEF q
  <2>3. Pending' = q
    BY <1>8, <2>1, <2>2
  <2> QED BY <2>3 DEF q
<1> QED BY <1>1, <1>9, <1>10 DEF Fifo!Get

LEMMA RingStep == TypeOK /\ RingIs /\ RingIs' /\ [Next]_ring => [Fifo!FifoNext]_(Fifo!fifoVars)
<1> SUFFICES ASSUME TypeOK, RingIs, RingIs', [Next]_ring
             PROVE  Fifo!FifoNext \/ UNCHANGED Fifo!fifoVars
  OBVIOUS
<1>1. ASSUME NEW k \in Keys, Press(k) \/ Release(k) PROVE Fifo!FifoNext
  <2> DEFINE e == IF Press(k) THEN Decode(k) ELSE Decode(k + 128)
  <2>1. k \in 0 .. 127
    BY KeysAssumption
  <2>2. Decode(k) = [scancode |-> k, pressed |-> 1] /\ Decode(k + 128) = [scancode |-> k, pressed |-> 0]
    <3>1. k % 128 = k /\ (k + 128) % 128 = k /\ ~(k >= 128) /\ k + 128 >= 128
      BY <2>1
    <3> QED BY <3>1 DEF Decode
  <2>3. e \in EventType
    BY <2>1, <2>2 DEF EventType
  <2>4. Store(e) /\ UNCHANGED <<tail, last>> /\ typed' = [event |-> e, n |-> 1 - typed.n]
    <3>1. CASE Press(k)
      BY <2>2, <3>1 DEF Press, keyboard_routine, Typed
    <3>2. CASE ~Press(k)
      BY <1>1, <2>2, <3>2 DEF Release, keyboard_routine, Typed
    <3> QED BY <3>1, <3>2
  <2> HIDE DEF e
  <2>5. Fifo!Put(e) \/ Fifo!Drop(e)
    BY <2>3, <2>4, StoreIsPut
  <2> QED BY <2>3, <2>5 DEF Fifo!FifoNext
<1>2. CASE clock_routine
  BY <1>2, ClockIsGet DEF Fifo!FifoNext
<1>3. CASE UNCHANGED ring
  BY <1>3 DEF ring, Fifo!fifoVars, Pending, Count
<1> QED BY <1>1, <1>2, <1>3 DEF Next

LEMMA RingInit == Init => Fifo!FifoInit
<1> SUFFICES ASSUME Init PROVE Fifo!FifoInit
  OBVIOUS
<1>1. Pending \in Seq(EventType) /\ Len(Pending) = 0
  <2>1. TypeOK /\ RingIs
    BY RingTypeInit, TypeRing
  <2>2. Dist(tail, head) = 0
    BY DEF Init, Dist
  <2> QED BY <2>1, <2>2 DEF RingIs
<1> QED BY <1>1 DEF Init, Fifo!FifoInit

\* Whatever the program at the terminal does, the ring only takes the steps of
\* Keyboard.
LEMMA TerminalKeepsRing == [TNext]_tvars => [Next]_ring
<1>1. TNext => [Next]_ring
  BY DEF TNext, Syscall, Perror, PerrorWrites, Kernel, CopyChunk, sys_write_console, WriteEnds,
         Return, Key, Tick, ring, Next
<1>2. UNCHANGED tvars => UNCHANGED ring
  BY DEF tvars
<1> QED BY <1>1, <1>2

\* The ring is well formed whatever calls, chunks, errors and interrupts come.
THEOREM RingTypeCorrect == TSpec => []TypeOK
<1>1. TInit => Init
  BY DEF TInit
<1> QED BY <1>1, RingTypeInit, RingTypeStep, TerminalKeepsRing, PTL DEF TSpec

\* The ring is a FIFO of KB_BUFFER_SIZE - 1 events, for every size and across any
\* number of turns of its indices.
THEOREM RingImplementsFifo == TSpec => FifoSpec
<1>1. TInit => Fifo!FifoInit
  BY RingInit DEF TInit
<1> QED BY <1>1, RingTypeCorrect, TypeRing, RingStep, TerminalKeepsRing, PTL
        DEF TSpec, FifoSpec, Fifo!FifoSpec

\* The errors the kernels answer with.
Errnos == Known \cup {ESRCH, ECHILD, EAGAIN, ENOMEM}

LEMMA ErrnosAre == Errnos = {3, 9, 10, 11, 12, 13, 14, 22, 38} /\ Known \subseteq Errnos
BY DEF Errnos, Known, ESRCH, EBADF, ECHILD, EAGAIN, ENOMEM, EACCES, EFAULT, EINVAL, ENOSYS

\* itoa of an error number has at most two digits.
LEMMA DigitsFew == \A a \in Errnos \cup {0} : Digits(a) \in 1 .. 2
<1> SUFFICES ASSUME NEW a \in Errnos \cup {0} PROVE Digits(a) \in 1 .. 2
  OBVIOUS
<1>1. a \in {0, 3, 9, 10, 11, 12, 13, 14, 22, 38}
  BY ErrnosAre
<1>2. 10^1 = 10 /\ 10^2 = 100
  OBVIOUS
<1>3. \E k \in 1 .. 10 : a < 10^k /\ (k = 1 \/ a >= 10^(k - 1))
  <2>1. CASE a < 10
    <3>1. 1 \in 1 .. 10 /\ a < 10^1
      BY <1>2, <2>1
    <3> QED BY <3>1
  <2>2. CASE a >= 10
    <3>1. 2 \in 1 .. 10 /\ a < 10^2 /\ a >= 10^(2-1)
      BY <1>1, <1>2, <2>2
    <3> QED BY <3>1
  <2> QED BY <1>1, <2>1, <2>2
<1> DEFINE d == Digits(a)
<1>4. d \in 1 .. 10 /\ (d = 1 \/ a >= 10^(d - 1))
  BY <1>3 DEF Digits
<1> HIDE DEF d
<1>5. d \in 1 .. 2
  <2>1. ASSUME NEW k \in {2, 3, 4, 5, 6, 7, 8, 9} PROVE 10^k >= 100 /\ 10^k \in Int
    <3>1. CASE k = 2
      <4>1. 10^2 = 100
        OBVIOUS
      <4> QED BY <3>1, <4>1
    <3>2. CASE k = 3
      <4>1. 10^3 = 1000
        OBVIOUS
      <4> QED BY <3>2, <4>1
    <3>3. CASE k = 4
      <4>1. 10^4 = 10000
        OBVIOUS
      <4> QED BY <3>3, <4>1
    <3>4. CASE k = 5
      <4>1. 10^5 = 100000
        OBVIOUS
      <4> QED BY <3>4, <4>1
    <3>5. CASE k = 6
      <4>1. 10^6 = 1000000
        OBVIOUS
      <4> QED BY <3>5, <4>1
    <3>6. CASE k = 7
      <4>1. 10^7 = 10000000
        OBVIOUS
      <4> QED BY <3>6, <4>1
    <3>7. CASE k = 8
      <4>1. 10^8 = 100000000
        OBVIOUS
      <4> QED BY <3>7, <4>1
    <3>8. CASE k = 9
      <4>1. 10^9 = 1000000000
        OBVIOUS
      <4> QED BY <3>8, <4>1
    <3> QED BY <3>1, <3>2, <3>3, <3>4, <3>5, <3>6, <3>7, <3>8
  <2>2. CASE d = 1 \/ d = 2
    BY <2>2
  <2>3. CASE d # 1 /\ d # 2
    <3>1. d - 1 \in {2, 3, 4, 5, 6, 7, 8, 9}
      BY <1>4, <2>3
    <3>2. 10^(d - 1) >= 100 /\ 10^(d - 1) \in Int
      BY <2>1, <3>1
    <3>3. 10^(d - 1) <= a
      BY <1>4, <2>3
    <3> QED BY <1>1, <3>2, <3>3
  <2> QED BY <2>2, <2>3
<1> QED BY <1>5 DEF d

-----------------------------------------------------------------------------
(* The memory of the user. *)

LEMMA FirstPages == SPACE \in Nat /\ PAGE \in Nat \ {0} /\ SPACE > 4 * PAGE
<1>1. /\ PAGE \in Nat /\ PAGE > 0 /\ SPACE \in Nat /\ SPACE > (END_PAGE + 1) * PAGE
      /\ END_PAGE \in Nat /\ END_PAGE >= 3
  BY UserAssumption DEF END_PAGE
<1>2. (END_PAGE + 1) * PAGE >= 4 * PAGE
  BY <1>1
<1> QED BY <1>1, <1>2

LEMMA SpaceFacts ==
  /\ PAGE \in Nat \ {0} /\ USER_FIRST_PAGE \in Nat /\ END_PAGE \in Nat
  /\ SPACE \in Nat \ {0} /\ SPACE > (END_PAGE + 1) * PAGE
  /\ \A k \in Int : k < SPACE \div 2 => k <= SPACE - PAGE
<1>1. /\ PAGE \in Nat /\ PAGE > 0 /\ USER_FIRST_PAGE \in Nat
      /\ SPACE \in Nat /\ SPACE > (END_PAGE + 1) * PAGE
      /\ END_PAGE \in Nat /\ END_PAGE >= 3
  BY UserAssumption DEF END_PAGE
<1> QED BY <1>1, FirstPages

LEMMA WrapsOnce ==
  ASSUME NEW n \in Nat \ {0}, NEW x \in Int, n <= x, x < 2 * n
  PROVE  (x % n) = x - n
<1>1. x \in n .. 2 * n - 1
  OBVIOUS
<1> QED BY <1>1, ModFacts

\* The test of access_ok: a block it grants does not wrap, and lies in the pages
\* of the user and the one behind them.
LEMMA GrantedBlock ==
  ASSUME NEW addr \in 0 .. SPACE - 1, NEW size \in Nat, size <= SPACE - PAGE,
         addr_fin(addr, size) >= addr_ini(addr),
         addr_ini(addr) >= USER_FIRST_PAGE, addr_fin(addr, size) <= END_PAGE
  PROVE  \A a \in Block(addr, size) : PageOf(a) \in USER_FIRST_PAGE .. END_PAGE
<1>1. /\ PAGE \in Nat /\ PAGE > 0 /\ SPACE \in Nat /\ SPACE > 0
      /\ addr \in Nat /\ addr < SPACE /\ USER_FIRST_PAGE \in Nat /\ END_PAGE \in Nat
  BY SpaceFacts
<1>2. addr + size < SPACE
  <2> SUFFICES ASSUME addr + size >= SPACE PROVE FALSE
    BY <1>1
  <2>5. ((addr + size) % SPACE) = addr + size - SPACE
    <3>1. SPACE \in Nat \ {0}
      BY SpaceFacts
    <3> DEFINE x == addr + size
    <3>2. x \in Int /\ SPACE <= x /\ x < 2 * SPACE
      BY <1>1
    <3> HIDE DEF x
    <3>3. (x % SPACE) = x - SPACE
      BY <3>1, <3>2, WrapsOnce
    <3> QED BY <1>1, <3>1, <3>3 DEF x
  <2> DEFINE e == addr + size - SPACE
  <2>1. e \in Nat /\ e + PAGE <= addr
    BY <1>1
  <2>2. ((addr + size) % SPACE) = e
    BY <2>5
  <2> HIDE DEF e
  <2>3. (e \div PAGE) + 1 <= (addr \div PAGE)
    BY <1>1, <2>1
  <2>4. (e \div PAGE) \in Int /\ (addr \div PAGE) \in Int
    BY <1>1, <2>1
  <2> QED BY <2>2, <2>3, <2>4 DEF addr_fin, addr_ini, PageOf
<1>3. ((addr + size) % SPACE) = addr + size
  <2>1. addr + size \in 0 .. SPACE - 1
    BY <1>1, <1>2
  <2> QED BY <2>1, SpaceFacts, ModFacts
<1>4. ASSUME NEW k \in 0 .. size - 1
      PROVE  PageOf((addr + k) % SPACE) \in USER_FIRST_PAGE .. END_PAGE
  <2>1. addr + k \in 0 .. SPACE - 1 /\ addr + k \in Nat /\ addr + size \in Nat
        /\ addr <= addr + k /\ addr + k <= addr + size
    BY <1>1, <1>2
  <2>2. ((addr + k) % SPACE) = addr + k
    BY <2>1, SpaceFacts, ModFacts
  <2>3. /\ (addr \div PAGE) <= ((addr + k) \div PAGE)
        /\ ((addr + k) \div PAGE) <= ((addr + size) \div PAGE)
        /\ (addr \div PAGE) \in Int /\ ((addr + k) \div PAGE) \in Int
        /\ ((addr + size) \div PAGE) \in Int
    BY <1>1, <2>1
  <2>4. (addr \div PAGE) >= USER_FIRST_PAGE /\ ((addr + size) \div PAGE) <= END_PAGE
    BY <1>3 DEF addr_fin, addr_ini, PageOf
  <2>5. ((addr + k) \div PAGE) \in USER_FIRST_PAGE .. END_PAGE
    BY <1>1, <2>3, <2>4
  <2> QED BY <2>2, <2>5 DEF PageOf
<1> QED BY <1>4 DEF Block

\* What access_ok grants for writing it would have granted for reading.
LEMMA GrantedPages ==
  ASSUME NEW type, NEW ini \in Int, NEW fin \in Int, NEW first \in Int, NEW end \in Int,
         USER_FIRST_PAGE <= first, end <= END_PAGE, Granted(type, ini, fin, first, end)
  PROVE  ini >= USER_FIRST_PAGE /\ fin <= END_PAGE
BY SpaceFacts DEF Granted

InUser(block) == \A a \in block : PageOf(a) \in USER_FIRST_PAGE .. END_PAGE
Fits(addr, size) == addr \in 0 .. SPACE - 1 /\ size \in Nat /\ size <= SPACE - PAGE

LEMMA AccessOk ==
  ASSUME NEW addr, NEW size, Fits(addr, size), NEW type,
         access_okGame(type, addr, size) \/ access_okEx2(type, addr, size)
         \/ access_okBase(type, addr, size)
  PROVE  InUser(Block(addr, size))
<1> DEFINE ini == addr_ini(addr)
           fin == addr_fin(addr, size)
<1>1. ini \in Int /\ fin \in Int
  <2>1. addr \in Int /\ ((addr + size) % SPACE) \in Int
    BY SpaceFacts DEF Fits
  <2> QED BY <2>1, SpaceFacts DEF addr_ini, addr_fin, PageOf
<1> HIDE DEF ini, fin
<1>2. fin >= ini /\ \/ Granted(type, ini, fin, USER_FIRST_PAGE + NUM_PAG_CODE, END_PAGE)
                    \/ Granted(type, ini, fin, USER_FIRST_PAGE, USER_FIRST_PAGE + NUM_PAG_DATA)
  BY DEF access_okGame, access_okEx2, access_okBase, ini, fin
<1>3. /\ USER_FIRST_PAGE + NUM_PAG_CODE \in Int /\ USER_FIRST_PAGE <= USER_FIRST_PAGE + NUM_PAG_CODE
      /\ USER_FIRST_PAGE + NUM_PAG_DATA \in Int /\ USER_FIRST_PAGE + NUM_PAG_DATA <= END_PAGE
      /\ END_PAGE \in Int /\ USER_FIRST_PAGE \in Int
  BY UserAssumption DEF END_PAGE
<1>4. ini >= USER_FIRST_PAGE /\ fin <= END_PAGE
  BY <1>1, <1>2, <1>3, GrantedPages
<1> QED BY <1>2, <1>4, GrantedBlock DEF InUser, Fits, ini, fin

\* The texts perror writes are short.
Short(t) == t \in Seq(Int) /\ Len(t) \in 1 .. 3 /\ t[Len(t)] = 0
Strings == {t \in Seq(Int) : Short(t)}

LEMMA StrlenShort == ASSUME NEW t \in Strings PROVE strlen(t) \in 0 .. 2 /\ strlen(t) \in 0 .. Len(t) - 1
<1> DEFINE S == {k \in 0 .. Len(t) - 1 : t[k + 1] = 0}
<1>1. Len(t) \in {1, 2, 3} /\ t[Len(t)] = 0
  BY DEF Strings, Short
<1>2. S \subseteq {0, 1, 2} /\ S # {}
  <2>1. Len(t) - 1 \in 0 .. Len(t) - 1 /\ Len(t) - 1 + 1 = Len(t)
    BY <1>1
  <2>2. S # {}
    BY <1>1, <2>1
  <2> QED BY <1>1, <2>2
<1>3. strlen(t) = Min(S) /\ S \subseteq 0 .. Len(t) - 1
  BY DEF strlen
<1> HIDE DEF S
<1>4. \E x \in S : \A y \in S : x <= y
  <2>1. CASE 0 \in S
    BY <1>2, <2>1
  <2>2. CASE 0 \notin S /\ 1 \in S
    BY <1>2, <2>2
  <2>3. CASE 0 \notin S /\ 1 \notin S
    <3>1. S = {2}
      BY <1>2, <2>3
    <3> QED BY <3>1
  <2> QED BY <2>1, <2>2, <2>3
<1>5. Min(S) \in S
  BY <1>4 DEF Min
<1>6. strlen(t) \in {0, 1, 2} /\ strlen(t) \in 0 .. Len(t) - 1
  BY <1>2, <1>3, <1>5
<1> QED BY <1>6

LEMMA StringIs ==
  ASSUME NEW t \in Seq(Int), Len(t) \in 1 .. 3, t[Len(t)] = 0
  PROVE  t \in Strings
BY DEF Strings, Short

LEMMA ShortTexts ==
  /\ \A a \in Int : <<a, 0>> \in Strings
  /\ << 0 >> \in Strings /\ <<58, 32, 0>> \in Strings
<1>1. ASSUME NEW a \in Int PROVE <<a, 0>> \in Strings
  <2>1. <<a, 0>> \in Seq(Int) /\ Len(<<a, 0>>) = 2 /\ <<a, 0>>[2] = 0
    OBVIOUS
  <2> DEFINE t == <<a, 0>>
  <2>2. t \in Seq(Int) /\ Len(t) \in 1 .. 3 /\ t[Len(t)] = 0
    BY <2>1
  <2> HIDE DEF t
  <2>3. t \in Strings
    BY <2>2, StringIs
  <2> QED BY <2>3 DEF t
<1>2. << 0 >> \in Strings
  <2> DEFINE t == << 0 >>
  <2>1. t \in Seq(Int) /\ Len(t) = 1 /\ t[1] = 0
    OBVIOUS
  <2> HIDE DEF t
  <2>3. Len(t) \in 1 .. 3 /\ t[Len(t)] = 0
    BY <2>1
  <2>2. t \in Strings
    BY <2>1, <2>3, StringIs
  <2> QED BY <2>2 DEF t
<1>3. <<58, 32, 0>> \in Strings
  <2> DEFINE t == <<58, 32, 0>>
  <2>1. t \in Seq(Int) /\ Len(t) = 3 /\ t[3] = 0
    OBVIOUS
  <2> HIDE DEF t
  <2>3. Len(t) \in 1 .. 3 /\ t[Len(t)] = 0
    BY <2>1
  <2>2. t \in Strings
    BY <2>1, <2>3, StringIs
  <2> QED BY <2>2 DEF t
<1> QED BY <1>1, <1>2, <1>3

LEMMA PerrorTexts ==
  ASSUME errno \in Errnos \cup {0}
  PROVE  /\ perrorGame \in Seq(Strings) /\ perrorE1 \in Seq(Strings)
         /\ \A t \in {<< 0 >>, <<77, 0>>} : perrorBase(t) \in Seq(Strings)
<1>1. itoa(errno) \in Strings
  <2> DEFINE d == Digits(errno)
             g == [k \in 1 .. d |-> 48 + ((errno \div 10^(d - k)) % 10)]
  <2>1. d \in 1 .. 2 /\ errno \in Int
    BY DigitsFew, ErrnosAre
  <2>2. 10^0 = 1 /\ 10^1 = 10
    OBVIOUS
  <2>3. \A k \in 1 .. d : d - k = 0 \/ d - k = 1
    BY <2>1
  <2>4. ASSUME NEW k \in 1 .. d PROVE 48 + ((errno \div 10^(d - k)) % 10) \in Int
    <3>1. 10^(d - k) \in {1, 10}
      <4>1. CASE d - k = 0
        BY <2>2, <4>1
      <4>2. CASE d - k = 1
        BY <2>2, <4>2
      <4> QED BY <2>3, <4>1, <4>2
    <3> DEFINE p == 10^(d - k)
    <3>2. p \in {1, 10}
      BY <3>1
    <3> HIDE DEF p
    <3>3. 48 + ((errno \div p) % 10) \in Int
      BY <2>1, <3>2
    <3> QED BY <3>3 DEF p
  <2>5. g \in Seq(Int) /\ Len(g) = d
    BY <2>1, <2>4
  <2>6. itoa(errno) = g \o << 0 >>
    BY DEF itoa
  <2> HIDE DEF g, d
  <2>7. /\ g \o << 0 >> \in Seq(Int) /\ Len(g \o << 0 >>) = d + 1
        /\ (g \o << 0 >>)[d + 1] = 0
    BY <2>1, <2>5
  <2>8. d + 1 \in 1 .. 3
    BY <2>1
  <2> QED BY <2>6, <2>7, <2>8, StringIs
<1>2. Message \in Strings
  <2> DEFINE m == 1000 + (IF errno \in Known THEN errno ELSE 0)
  <2>1. m \in Int
    BY ErrnosAre
  <2> HIDE DEF m
  <2>3. <<m, 0>> \in Strings
    BY <2>1, ShortTexts
  <2> QED BY <2>3 DEF Message, m
<1>3. /\ << 0 >> \in Strings /\ <<77, 0>> \in Strings /\ <<999, 0>> \in Strings
      /\ <<58, 32, 0>> \in Strings /\ <<NL, 0>> \in Strings
  BY ShortTexts DEF NL
<1>4. perrorGame \in Seq(Strings) /\ perrorE1 \in Seq(Strings)
  BY <1>1, <1>2, <1>3 DEF perrorGame, perrorE1
<1>5. ASSUME NEW t \in {<< 0 >>, <<77, 0>>} PROVE perrorBase(t) \in Seq(Strings)
  <2>1. <<t, <<58, 32, 0>>>> \in Seq(Strings) /\ << >> \in Seq(Strings) /\ <<Message, <<NL, 0>>>> \in Seq(Strings)
    BY <1>2, <1>3
  <2> QED BY <2>1 DEF perrorBase
<1> QED BY <1>4, <1>5
-----------------------------------------------------------------------------
(* Contained. *)

Kernels == {"GAME", "Ex2", "E1", "base"}
Tested == kernel # "E1"       \* the kernels that call access_ok

\* What the loop of sys_write relies on: the tests were made for the whole of
\* the block, and the loop does not leave it.
Writing ==
  mode = "kernel" =>
    /\ call.addr \in Nat /\ call.size \in Nat /\ left \in 0 .. call.size
    /\ Tested => InUser(Block(call.addr, call.size))

Stopped ==
  /\ mode = "dying" => kernel = "E1" /\ ~Reachable(touched)
  /\ mode = "halted" => kernel # "base" /\ ~Reachable(touched)
  /\ mode = "wild" => (kernel # "base" /\ call.n = MAX_SYSCALL) \/ (kernel = "E1" /\ call.n = EXIT)

\* errno is always one of the numbers the kernels answer with: the strings of
\* perror are therefore short, and its writes pass the tests.
Errors ==
  /\ mode = "return" => eax \in Int /\ (eax < 0 => -eax \in Errnos)
  /\ errno \in Errnos \cup {0}
  /\ plan \in Seq(Strings)

TermInv ==
  /\ kernel \in Kernels
  /\ Tested => InUser(touched)
  /\ Writing /\ Stopped /\ Errors

LEMMA ChunkFits == ASSUME NEW b \in Nat \ {0} PROVE Chunk(b) \in 1 .. b
<1> DEFINE t == IF kernel \in {"GAME", "Ex2"} THEN TAM_BUFFER ELSE BUFFER_SIZE
<1>1. t \in Nat \ {0}
  BY TerminalAssumption
<1> HIDE DEF t
<1>2. CASE b <= t
  <2>1. b \in {b, t} /\ \A y \in {b, t} : b <= y
    BY <1>1, <1>2
  <2>2. Min({b, t}) \in {b, t} /\ \A y \in {b, t} : Min({b, t}) <= y
    BY <2>1 DEF Min
  <2> QED BY <1>1, <2>2 DEF Chunk, t
<1>3. CASE t <= b
  <2>1. t \in {b, t} /\ \A y \in {b, t} : t <= y
    BY <1>1, <1>3
  <2>2. Min({b, t}) \in {b, t} /\ \A y \in {b, t} : Min({b, t}) <= y
    BY <2>1 DEF Min
  <2> QED BY <1>1, <2>2 DEF Chunk, t
<1> QED BY <1>1, <1>2, <1>3

LEMMA SubBlock ==
  ASSUME NEW addr \in Nat, NEW size \in Nat, NEW done \in Nat, NEW n \in Nat, done + n <= size
  PROVE  Block(addr + done, n) \subseteq Block(addr, size)
<1> SUFFICES ASSUME NEW i \in 0 .. n - 1
             PROVE  (addr + done + i) % SPACE \in Block(addr, size)
  BY DEF Block
<1>1. done + i \in 0 .. size - 1 /\ addr + done + i = addr + (done + i)
  OBVIOUS
<1> QED BY <1>1 DEF Block

\* What passes the tests of sys_write: a size that is not negative and, but for
\* "E1", a block in the memory of the user.
LEMMA WritePasses ==
  ASSUME NEW c, kernel \in Kernels, c.addr \in 0 .. SPACE - 1,
         c.size \in -(SPACE \div 2) .. SPACE \div 2 - 1, sys_write(c) = 0
  PROVE  c.size \in Nat /\ (Tested => InUser(Block(c.addr, c.size)))
<1>1. c.size \in Int /\ c.size < SPACE \div 2 /\ -EBADF # 0 /\ -EACCES # 0 /\ -EFAULT # 0 /\ -EINVAL # 0
  BY SpaceFacts DEF EBADF, EACCES, EFAULT, EINVAL
<1>2. ~(c.size < 0)
  BY <1>1 DEF sys_write, sys_writeGame, sys_writeEx2, sys_writeE1, sys_writeBase, check_fd,
              EBADF, EACCES, EFAULT, EINVAL, ESCRIPTURA
<1>3. Fits(c.addr, c.size)
  BY <1>1, <1>2, SpaceFacts DEF Fits
<1>4. Tested => \/ access_okGame(VERIFY_READ, c.addr, c.size)
                \/ access_okEx2(VERIFY_READ, c.addr, c.size)
                \/ access_okBase(VERIFY_READ, c.addr, c.size)
  BY <1>1, <1>2 DEF sys_write, sys_writeGame, sys_writeEx2, sys_writeBase, check_fd,
                    EBADF, EACCES, EFAULT, EINVAL, ESCRIPTURA, Tested, Kernels
<1>5. Tested => InUser(Block(c.addr, c.size))
  BY <1>3, <1>4, AccessOk
<1> QED BY <1>1, <1>2, <1>5

\* What it answers otherwise is an error perror knows.
LEMMA WriteRefuses ==
  ASSUME NEW c, sys_write(c) # 0
  PROVE  sys_write(c) \in Int /\ -sys_write(c) \in Errnos
<1>1. sys_write(c) \in {-9, -13, -14, -22}
  BY DEF sys_write, sys_writeGame, sys_writeEx2, sys_writeE1, sys_writeBase, check_fd,
         EBADF, EACCES, EFAULT, EINVAL, ESCRIPTURA
<1> QED BY <1>1, ErrnosAre

LEMMA TermInit == TInit => TermInv
<1> SUFFICES ASSUME TInit PROVE TermInv
  OBVIOUS
<1>1. << >> \in Seq(Strings)
  OBVIOUS
<1> QED BY <1>1 DEF TInit, TermInv, Kernels, InUser, Writing, Stopped, Errors

\* What the other calls copy and answer.
LEMMA BuffersAre ==
  /\ keyboard_buffer \in Seq(Int) /\ Len(keyboard_buffer) = POLL_SIZE
  /\ POLL_SIZE \in Nat \ {0} /\ POLL_SIZE < SPACE \div 2
  /\ p_stats \in Seq(Int) /\ Len(p_stats) = STATS_SIZE
  /\ STATS_SIZE \in Nat \ {0} /\ STATS_SIZE < SPACE \div 2
BY TerminalAssumption DEF keyboard_buffer, p_stats

LEMMA AnswersAre ==
  ASSUME NEW n, NEW x \in Answers(n)
  PROVE  x \in Int /\ (x < 0 => -x \in Errnos)
<1>1. x \in {0, 1, -12, -11, -10}
  BY DEF Answers, ENOMEM, EAGAIN, ECHILD
<1> QED BY <1>1, ErrnosAre

\* A call that is dispatched with arguments in their ranges.
LEMMA DispatchKeeps ==
  ASSUME TermInv, mode = "user", Dispatch(call'), kernel' = kernel, errno' = errno,
         plan' \in Seq(Strings),
         call'.n \in Int, call'.addr \in 0 .. SPACE - 1,
         call'.size \in -(SPACE \div 2) .. SPACE \div 2 - 1
  PROVE  TermInv'
<1> DEFINE c == call'
<1>1. c.n \in Int /\ c.addr \in 0 .. SPACE - 1 /\ c.size \in -(SPACE \div 2) .. SPACE \div 2 - 1
      /\ call' = c /\ Dispatch(c)
  OBVIOUS
<1>2. kernel \in Kernels /\ (Tested => InUser(touched)) /\ errno \in Errnos \cup {0}
  BY DEF TermInv, Errors
<1> HIDE DEF c
<1>3. ASSUME NEW r \in Int, r < 0 => -r \in Errnos, Answer(r), touched' = touched
      PROVE  TermInv'
  BY <1>2, <1>3 DEF TermInv, Writing, Stopped, Errors, Answer, Tested
<1>4. -ENOSYS \in Int /\ -(-ENOSYS) \in Errnos /\ -EFAULT \in Int /\ -(-EFAULT) \in Errnos
  <2>1. ENOSYS \in Int /\ EFAULT \in Int
    BY DEF ENOSYS, EFAULT
  <2>2. -ENOSYS \in Int /\ -(-ENOSYS) = ENOSYS /\ -EFAULT \in Int /\ -(-EFAULT) = EFAULT
    BY <2>1
  <2> QED BY <2>2 DEF Errnos, Known
<1>5. CASE Answer(-ENOSYS) /\ UNCHANGED <<con, left, mem, touched>>
  BY <1>3, <1>4, <1>5
<1>6. CASE /\ c.n = MAX_SYSCALL /\ ~sysenter_err(c.n)
           /\ mode' = "wild" /\ UNCHANGED <<con, eax, left, mem, touched>>
  <2>1. kernel # "base"
    BY <1>6 DEF sysenter_err, MAX_SYSCALL
  <2> QED BY <1>1, <1>2, <1>6, <2>1 DEF TermInv, Writing, Stopped, Errors, Tested, MAX_SYSCALL
<1>7. ASSUME NEW t, NEW n \in Nat, Len(t) = n, n < SPACE \div 2, CopyOut(t, c.addr), kernel # "base",
             access_okGame(VERIFY_WRITE, c.addr, n) \/ access_okEx2(VERIFY_WRITE, c.addr, n)
      PROVE  TermInv'
  <2> DEFINE block == Block(c.addr, n)
  <2>1. /\ touched' = block
        /\ \/ Answer(0)
           \/ mode' = "halted" /\ ~Reachable(block)
    BY <1>7 DEF CopyOut
  <2>2. Fits(c.addr, n)
    BY <1>1, <1>7, SpaceFacts DEF Fits
  <2>3. InUser(block)
    BY <1>7, <2>2, AccessOk
  <2> HIDE DEF block
  <2>4. InUser(touched)'
    BY <2>1, <2>3 DEF InUser
  <2>5. CASE Answer(0)
    BY <1>2, <2>4, <2>5 DEF TermInv, Writing, Stopped, Errors, Answer, Tested
  <2>6. CASE mode' = "halted" /\ ~Reachable(block)
    <3>1. ~Reachable(touched)'
      BY <2>1, <2>6 DEF Reachable, Mapped
    <3> QED BY <1>2, <1>7, <2>4, <2>6, <3>1 DEF TermInv, Writing, Stopped, Errors, Tested
  <2> QED BY <2>1, <2>5, <2>6
<1>10. CASE c.n = POLL /\ POLL \in sys_call_table /\ sys_pollEvent(c) /\ UNCHANGED <<con, left>>
  <2>1. CASE ~access_okGame(VERIFY_WRITE, c.addr, POLL_SIZE)
    <3>1. Answer(-EFAULT) /\ touched' = touched
      BY <1>10, <2>1 DEF sys_pollEvent
    <3> QED BY <1>3, <1>4, <3>1
  <2>2. CASE access_okGame(VERIFY_WRITE, c.addr, POLL_SIZE)
    <3>1. CopyOut(keyboard_buffer, c.addr)
      BY <1>10, <2>2 DEF sys_pollEvent
    <3>2. kernel # "base"
      BY <1>10 DEF sys_call_table, POLL, WRITE, GETTIME, GETPID
    <3> QED BY <1>7, <2>2, <3>1, <3>2, BuffersAre
  <2> QED BY <2>1, <2>2
<1>11. CASE c.n = GET_STATS /\ GET_STATS \in sys_call_table /\ sys_get_stats(c) /\ UNCHANGED <<con, left>>
  <2> DEFINE ok == IF kernel = "GAME" THEN access_okGame(VERIFY_WRITE, c.addr, STATS_SIZE)
                   ELSE access_okEx2(VERIFY_WRITE, c.addr, STATS_SIZE)
             refusal == IF ~ok THEN -EFAULT ELSE IF c.fd < 0 THEN -EINVAL ELSE -ESRCH
  <2>1. \/ Answer(refusal) /\ touched' = touched
        \/ ok /\ CopyOut(p_stats, c.addr)
    BY <1>11 DEF sys_get_stats
  <2>2. CASE Answer(refusal) /\ touched' = touched
    <3>1. refusal \in {-14, -22, -3}
      BY DEF EFAULT, EINVAL, ESRCH
    <3> HIDE DEF refusal
    <3>2. refusal \in Int /\ -refusal \in Errnos
      BY <3>1, ErrnosAre
    <3> QED BY <1>3, <2>2, <3>2
  <2>3. CASE ok /\ CopyOut(p_stats, c.addr)
    <3>1. kernel # "base"
      BY <1>11 DEF sys_call_table, GET_STATS, WRITE, GETTIME, GETPID
    <3>2. access_okGame(VERIFY_WRITE, c.addr, STATS_SIZE) \/ access_okEx2(VERIFY_WRITE, c.addr, STATS_SIZE)
      BY <2>3
    <3> QED BY <1>7, <2>3, <3>1, <3>2, BuffersAre
  <2> QED BY <2>1, <2>2, <2>3
<1>12. CASE /\ c.n \in sys_call_table \ {EXIT, WRITE, POLL, GET_STATS}
            /\ \E x \in Answers(c.n) : Answer(x)
            /\ UNCHANGED <<con, left, mem, touched>>
  <2>1. PICK x \in Answers(c.n) : Answer(x)
    BY <1>12
  <2>2. x \in Int /\ (x < 0 => -x \in Errnos)
    BY AnswersAre
  <2> QED BY <1>3, <1>12, <2>1, <2>2
<1>13. CASE c.n = EXIT /\ EXIT \in sys_call_table /\ sys_exit /\ UNCHANGED <<left, mem, touched>>
  <2>1. CASE mode' = "exited" \/ (mode' = "wild" /\ kernel = "E1")
    BY <1>1, <1>2, <1>13, <2>1 DEF TermInv, Writing, Stopped, Errors, Tested
  <2>2. CASE Answer(0)
    BY <1>3, <1>13, <2>2
  <2> QED BY <1>13, <2>1, <2>2 DEF sys_exit
<1>8. CASE c.n = WRITE /\ sys_write(c) # 0 /\ Answer(sys_write(c)) /\ UNCHANGED <<con, left, mem, touched>>
  BY <1>3, <1>8, WriteRefuses
<1>9. CASE WriteBegins(c)
  <2>1. sys_write(c) = 0 /\ mode' = "kernel" /\ left' = c.size /\ touched' = touched
    BY <1>9 DEF WriteBegins
  <2>2. c.size \in Nat /\ (Tested => InUser(Block(c.addr, c.size)))
    BY <1>1, <1>2, <2>1, WritePasses
  <2>3. c.addr \in Nat /\ c.size \in 0 .. c.size
    BY <1>1, <2>2, SpaceFacts
  <2>4. Writing'
    BY <1>1, <2>1, <2>2, <2>3 DEF Writing, Tested
  <2>5. (Tested => InUser(touched))'
    BY <1>2, <2>1 DEF Tested
  <2> QED BY <1>2, <2>1, <2>4, <2>5 DEF TermInv, Stopped, Errors
<1> QED BY <1>1, <1>5, <1>6, <1>8, <1>9, <1>10, <1>11, <1>12, <1>13 DEF Dispatch

LEMMA TermSyscall == ASSUME TermInv, Syscall PROVE TermInv'
<1>1. PICK c \in Calls :
        /\ call' = [n |-> c.n, fd |-> c.fd, addr |-> c.addr, size |-> c.size,
                    text |-> TextAt(c.addr, c.size), perror |-> FALSE]
        /\ Dispatch(call')
  BY DEF Syscall
<1>2. call'.n = c.n /\ call'.addr = c.addr /\ call'.size = c.size
  BY <1>1
<1>3. plan' \in Seq(Strings) /\ kernel' = kernel /\ errno' = errno /\ mode = "user"
  BY DEF Syscall, TermInv, Errors
<1> QED BY <1>1, <1>2, <1>3, CallsAssumption, DispatchKeeps

LEMMA TermPerror == ASSUME TermInv, Perror PROVE TermInv'
<1>1. errno \in Errnos \cup {0} /\ kernel \in Kernels
  BY DEF TermInv, Errors
<1>2. plan' \in Seq(Strings)
  <2>1. CASE kernel \in {"GAME", "Ex2"}
    BY <1>1, <2>1, PerrorTexts DEF Perror
  <2>2. CASE kernel = "E1"
    BY <1>1, <2>2, PerrorTexts DEF Perror
  <2>3. CASE kernel = "base"
    <3>1. plan' \in {perrorBase(s) : s \in {<< 0 >>, <<77, 0>>}}
      BY <2>3 DEF Perror
    <3> QED BY <1>1, <3>1, PerrorTexts
  <2> QED BY <1>1, <2>1, <2>2, <2>3 DEF Kernels
<1> QED BY <1>2 DEF Perror, TermInv, Writing, Stopped, Errors, Tested, Reachable, Mapped, MAX_SYSCALL

LEMMA TermPerrorWrites == ASSUME TermInv, PerrorWrites PROVE TermInv'
<1>1. plan \in Seq(Strings) /\ plan # << >> /\ mode = "user" /\ kernel' = kernel /\ errno' = errno
  BY DEF TermInv, Errors, PerrorWrites
<1>2. Head(plan) \in Strings /\ plan' \in Seq(Strings)
  BY <1>1 DEF PerrorWrites
<1>3. strlen(Head(plan)) \in 0 .. 2
  BY <1>2, StrlenShort
<1>4. call'.n = WRITE /\ call'.addr = LITERAL /\ call'.size = strlen(Head(plan))
  BY DEF PerrorWrites
<1>5. LITERAL \in 0 .. SPACE - 1 /\ SPACE >= 6
  <2>1. /\ PAGE \in Nat /\ USER_FIRST_PAGE \in Nat /\ END_PAGE \in Nat /\ SPACE \in Nat
        /\ SPACE > (END_PAGE + 1) * PAGE
        /\ LITERAL \in USER_FIRST_PAGE * PAGE .. END_PAGE * PAGE - 4
    BY SpaceFacts, TerminalAssumption
  <2>2. USER_FIRST_PAGE * PAGE \in Nat /\ END_PAGE * PAGE \in Nat
        /\ (END_PAGE + 1) * PAGE = END_PAGE * PAGE + PAGE
    BY <2>1
  <2>3. SPACE >= 6
    BY <2>1, <2>2, FirstPages
  <2> QED BY <2>1, <2>2, <2>3
<1>6. strlen(Head(plan)) \in -(SPACE \div 2) .. SPACE \div 2 - 1
  <2>1. SPACE \in Nat /\ SPACE >= 6
    BY <1>5, FirstPages
  <2>2. SPACE \div 2 >= 3 /\ SPACE \div 2 \in Int
    BY <2>1
  <2> QED BY <1>3, <2>2
<1>7. Dispatch(call')
  BY DEF PerrorWrites, Dispatch
<1>8. call'.n \in Int
  BY <1>4 DEF WRITE
<1> QED BY <1>1, <1>2, <1>4, <1>5, <1>6, <1>7, <1>8, DispatchKeeps

LEMMA TermCopyChunk == ASSUME TermInv, CopyChunk PROVE TermInv'
<1> DEFINE n == Chunk(left)
           done == call.size - left
           block == Block(call.addr + done, n)
<1>1. /\ mode = "kernel" /\ left > 0 /\ kernel' = kernel /\ call' = call
      /\ errno' = errno /\ plan' = plan /\ touched' = touched \cup block
      /\ \/ mode' = "kernel" /\ left' = left - n
         \/ mode' = "dying" /\ kernel = "E1" /\ ~Reachable(block)
         \/ mode' = "halted" /\ kernel # "E1" /\ ~Reachable(block)
  BY DEF CopyChunk, my_page_fault_routine
<1>2. /\ call.addr \in Nat /\ call.size \in Nat /\ left \in 0 .. call.size
      /\ Tested => InUser(Block(call.addr, call.size))
      /\ Tested => InUser(touched)
      /\ kernel \in Kernels
  BY <1>1 DEF TermInv, Writing
<1>3. n \in 1 .. left
  BY <1>1, <1>2, ChunkFits
<1>4. done \in Nat /\ n \in Nat /\ done + n <= call.size /\ left - n \in 0 .. call.size
  BY <1>2, <1>3
<1>5. block \subseteq Block(call.addr, call.size)
  BY <1>2, <1>4, SubBlock
<1> HIDE DEF n, done, block
<1>6. (Tested => InUser(touched))'
  BY <1>1, <1>2, <1>5 DEF Tested, InUser
<1>7. Writing'
  BY <1>1, <1>2, <1>4 DEF Writing, Tested, InUser
<1>8. Stopped'
  <2>1. ~Reachable(block) => kernel # "base" /\ ~Reachable(touched)'
    BY <1>1 DEF Reachable, Mapped
  <2> QED BY <1>1, <2>1 DEF Stopped
<1>9. Errors'
  BY <1>1 DEF TermInv, Errors
<1> QED BY <1>1, <1>2, <1>6, <1>7, <1>8, <1>9 DEF TermInv

LEMMA TermKernel == ASSUME TermInv, Kernel PROVE TermInv'
<1>1. CASE sys_write_console
  <2>1. /\ mode' = mode \/ (mode = "dying" /\ mode' = "halted")
        /\ UNCHANGED <<kernel, call, left, eax, errno, plan, touched>>
        /\ mode \in {"kernel", "dying"}
    BY <1>1 DEF sys_write_console
  <2>2. Stopped'
    BY <2>1 DEF TermInv, Stopped, Reachable, Mapped
  <2>3. Writing'
    BY <2>1 DEF TermInv, Writing, Tested
  <2> QED BY <2>1, <2>2, <2>3 DEF TermInv, Errors, Tested
<1>2. CASE WriteEnds
  <2>1. mode = "kernel" /\ mode' = "return" /\ eax' = call.size - left /\ left = 0
        /\ UNCHANGED <<kernel, errno, plan, touched>>
    BY <1>2 DEF WriteEnds, Answer
  <2>2. eax' \in Nat
    BY <2>1 DEF TermInv, Writing
  <2>3. eax' \in Int /\ ~(eax' < 0)
    BY <2>2
  <2> QED BY <2>1, <2>3 DEF TermInv, Writing, Stopped, Errors, Tested
<1>3. CASE Return
  <2>1. /\ mode = "return" /\ mode' = "user" /\ touched' = {}
        /\ errno' = (IF eax < 0 THEN -eax ELSE errno) /\ UNCHANGED <<kernel, plan>>
    BY <1>3 DEF Return
  <2>2. errno' \in Errnos \cup {0}
    BY <2>1 DEF TermInv, Errors
  <2> QED BY <2>1, <2>2 DEF TermInv, Writing, Stopped, Errors, Tested, InUser
<1> QED BY <1>1, <1>2, <1>3, TermCopyChunk DEF Kernel

\* The exceptions of Contained aside, no step takes the kernel out of the memory
\* of the user.
LEMMA TermStep == TermInv /\ [TNext]_tvars => TermInv'
<1> SUFFICES ASSUME TermInv, [TNext]_tvars PROVE TermInv'
  OBVIOUS
<1>1. ASSUME UNCHANGED <<kernel, sysvars>> PROVE TermInv'
  BY <1>1 DEF TermInv, Writing, Stopped, Errors, Tested, Reachable, Mapped, MAX_SYSCALL, sysvars
<1>2. CASE Key
  BY <1>1, <1>2 DEF Key
<1>3. CASE Tick
  BY <1>1, <1>3 DEF Tick
<1>4. CASE UNCHANGED tvars
  BY <1>1, <1>4 DEF tvars
<1> QED BY <1>2, <1>3, <1>4, TermSyscall, TermPerror, TermPerrorWrites, TermKernel DEF TNext

LEMMA TermContained == TermInv => Contained
BY DEF TermInv, Contained, InUser, Stopped, Tested

\* Whatever calls a program makes and whatever their arguments, a kernel that
\* calls access_ok touches only the pages of the user and the page behind them,
\* stops only because a page it was granted is not there, and calls what is not
\* in its table only for the number MAX_SYSCALL.
THEOREM ContainedCorrect == TSpec => []Contained
<1>1. TInit => TermInv
  BY TermInit
<1>2. TermInv /\ [TNext]_tvars => TermInv'
  BY TermStep
<1>3. TermInv => Contained
  BY TermContained
<1> QED BY <1>1, <1>2, <1>3, PTL DEF TSpec

-----------------------------------------------------------------------------
(* The console: where the characters of a text go. *)

\* The cell behind a character.
NextCell(cell, ch) ==
  IF ch = NL THEN ((cell \div NUM_COLUMNS + 1) % NUM_ROWS) * NUM_COLUMNS ELSE (cell + 1) % Cells

ConsoleOK(c) ==
  /\ c = [x |-> c.x, y |-> c.y, port |-> c.port, shown |-> c.shown]
  /\ c.x \in 0 .. NUM_COLUMNS - 1 /\ c.y \in 0 .. NUM_ROWS - 1 /\ c.port \in Seq(Int)

\* The row of a cell is its quotient by the number of columns.
LEMMA RowOf ==
  ASSUME NEW d \in Nat \ {0}, NEW x \in 0 .. d - 1, NEW y \in Nat
  PROVE  (y * d + x) \div d = y
<1> DEFINE a == y * d + x
           q == a \div d
           r == a % d
<1>1. y * d \in Nat /\ a \in Nat
  OBVIOUS
<1> HIDE DEF a
<1>2. q \in Int /\ r \in 0 .. d - 1 /\ a = d * q + r
  BY <1>1
<1>3. a = y * d + x
  BY DEF a
<1> HIDE DEF q, r
<1>4. q = y
  <2>1. CASE q > y
    <3>1. d * q >= d * (y + 1)
      BY <1>2, <2>1
    <3>2. d * (y + 1) = y * d + d
      OBVIOUS
    <3>3. d * q \in Int /\ y * d \in Int /\ d * (y + 1) \in Int
      BY <1>2
    <3> QED BY <1>2, <1>3, <3>1, <3>2, <3>3
  <2>2. CASE q < y
    <3>1. d * (q + 1) <= d * y
      BY <1>2, <2>2
    <3>2. d * (q + 1) = d * q + d /\ d * y = y * d
      BY <1>2
    <3>3. d * q \in Int /\ y * d \in Int
      BY <1>2
    <3> QED BY <1>2, <1>3, <3>1, <3>2, <3>3
  <2> QED BY <1>2, <2>1, <2>2
<1> QED BY <1>4 DEF q, a

\* What printc does, in terms of the cell.
LEMMA PrintcMoves ==
  ASSUME NEW c, ConsoleOK(c), NEW ch \in Int
  PROVE  /\ ConsoleOK(printc(c, ch))
         /\ Cursor(printc(c, ch)) = NextCell(Cursor(c), ch)
         /\ printc(c, ch).port = Append(c.port, ch)
         /\ printc(c, ch).shown = IF ch = NL THEN c.shown ELSE Draw(c.shown, Cursor(c), ch)
<1> DEFINE C == NUM_COLUMNS
           R == NUM_ROWS
           x == c.x
           y == c.y
           po == Append(c.port, ch)
           dr == Draw(c.shown, Cursor(c), ch)
           sh == IF ch = NL THEN c.shown ELSE dr
           turn == ch = NL \/ x + 1 >= C
           z == printc(c, ch)
<1>1. C \in Nat \ {0} /\ R \in Nat \ {0} /\ x \in 0 .. C - 1 /\ y \in 0 .. R - 1 /\ po \in Seq(Int)
  BY ScreenAssumption DEF ConsoleOK
<1>2. c = [x |-> x, y |-> y, port |-> c.port, shown |-> c.shown]
  BY DEF ConsoleOK
<1>3. z = [x |-> IF turn THEN 0 ELSE x + 1, y |-> IF turn THEN (y + 1) % R ELSE y, port |-> po, shown |-> sh]
  <2>1. CASE ch = NL
    BY <1>2, <2>1 DEF printc, NextRow
  <2>2. CASE ch # NL /\ x + 1 >= C
    BY <1>2, <2>2 DEF printc, NextRow
  <2>3. CASE ch # NL /\ ~(x + 1 >= C)
    BY <1>2, <2>3 DEF printc, NextRow
  <2> QED BY <2>1, <2>2, <2>3
<1> HIDE DEF po, dr, sh, z, x, y, C, R
<1>4. (y + 1) % R \in 0 .. R - 1
  BY <1>1
<1>5. ConsoleOK(z)
  <2>1. z.port = po /\ z.shown = sh
    BY <1>3
  <2>2. CASE turn
    <3>1. z.x = 0 /\ z.y = (y + 1) % R
      BY <1>3, <2>2
    <3> QED BY <1>1, <1>3, <1>4, <2>1, <2>2, <3>1 DEF ConsoleOK, C, R
  <2>3. CASE ~turn
    <3>1. z.x = x + 1 /\ z.y = y
      BY <1>3, <2>3
    <3> QED BY <1>1, <1>3, <2>1, <2>3, <3>1 DEF ConsoleOK, C, R
  <2> QED BY <2>2, <2>3
<1>6. Cursor(c) = y * C + x /\ Cursor(z) = z.y * C + z.x /\ Cells = C * R
  BY DEF Cursor, Cells, x, y, C, R
<1>7. y * C \in Nat /\ C * R \in Nat \ {0} /\ y * C + x \in Nat
  BY <1>1
<1>8. CASE ch = NL
  <2>1. z.x = 0 /\ z.y = (y + 1) % R
    BY <1>3, <1>8
  <2>2. (y * C + x) \div C = y
    BY <1>1, RowOf
  <2>3. ((y + 1) % R) * C + 0 = ((y + 1) % R) * C
    BY <1>1, <1>4
  <2>4. Cursor(z) = NextCell(Cursor(c), ch)
    BY <1>6, <1>8, <2>1, <2>2, <2>3 DEF NextCell, C, R
  <2> QED BY <1>3, <1>5, <1>8, <2>4 DEF z, po, dr, sh
<1>9. CASE ch # NL /\ x + 1 >= C
  <2>1. z.x = 0 /\ z.y = (y + 1) % R /\ x + 1 = C
    BY <1>1, <1>3, <1>9
  <2>2. y * C + x + 1 = (y + 1) * C /\ (y + 1) * C \in Nat
    BY <1>1, <2>1
  <2>3. ((y + 1) % R) * C = ((y + 1) * C) % (C * R)
    <3>1. CASE y + 1 = R
      <4>1. (y + 1) % R = 0
        BY <1>1, <3>1
      <4>2. (y + 1) * C = C * R
        BY <1>1, <3>1
      <4>3. (C * R) % (C * R) = 0
        BY <1>7
      <4> QED BY <1>1, <4>1, <4>2, <4>3
    <3>2. CASE y + 1 # R
      <4>1. y + 1 \in 0 .. R - 1
        BY <1>1, <3>2
      <4>2. (y + 1) % R = y + 1
        BY <1>1, <4>1, ModFacts
      <4>3. (y + 1) * C \in 0 .. (C * R) - 1
        <5>1. (R - (y + 1)) * C >= 1
          BY <1>1, <4>1
        <5>2. (R - (y + 1)) * C = C * R - (y + 1) * C
          BY <1>1
        <5> QED BY <1>7, <2>2, <5>1, <5>2
      <4>4. ((y + 1) * C) % (C * R) = (y + 1) * C
        BY <1>7, <4>3, ModFacts
      <4> QED BY <4>2, <4>4
    <3> QED BY <3>1, <3>2
  <2>4. ((y + 1) % R) * C + 0 = ((y + 1) % R) * C
    BY <1>1, <1>4
  <2>5. Cursor(z) = NextCell(Cursor(c), ch)
    BY <1>6, <1>9, <2>1, <2>2, <2>3, <2>4 DEF NextCell, C, R
  <2> QED BY <1>3, <1>5, <1>9, <2>5 DEF z, po, dr, sh
<1>10. CASE ch # NL /\ ~(x + 1 >= C)
  <2>1. z.x = x + 1 /\ z.y = y /\ x + 1 < C
    BY <1>1, <1>3, <1>10
  <2>2. y * C + x + 1 \in 0 .. (C * R) - 1
    <3>1. (R - y - 1) * C \in Nat
      BY <1>1
    <3>2. (R - y - 1) * C = C * R - y * C - C
      BY <1>1
    <3> QED BY <1>1, <1>7, <2>1, <3>1, <3>2
  <2>3. (y * C + x + 1) % (C * R) = y * C + x + 1
    BY <1>7, <2>2, ModFacts
  <2>4. y * C + (x + 1) = y * C + x + 1
    BY <1>1, <1>7
  <2>5. Cursor(z) = NextCell(Cursor(c), ch)
    BY <1>6, <1>10, <2>1, <2>3, <2>4 DEF NextCell, C, R
  <2> QED BY <1>3, <1>5, <1>10, <2>5 DEF z, po, dr, sh
<1> QED BY <1>8, <1>9, <1>10

Drawn(t) == {i \in 1 .. Len(t) : t[i] # NL}

\* at is where the text on the port went from cell s on, and the screen shows it.
Placed(at, c, s) ==
  /\ at = [i \in 0 .. Len(c.port) |-> at[i]]
  /\ at[0] = s /\ at[Len(c.port)] = Cursor(c)
  /\ \A i \in 1 .. Len(c.port) : at[i] = NextCell(at[i - 1], c.port[i])
  /\ DOMAIN c.shown = {at[i - 1] : i \in Drawn(c.port)}
  /\ \A i \in Drawn(c.port) :
       (\A j \in Drawn(c.port) : j > i => at[j - 1] # at[i - 1]) => c.shown[at[i - 1]] = c.port[i]

\* A character more is placed behind the others; it may cover an earlier one.
LEMMA PrintcPlaces ==
  ASSUME NEW c, ConsoleOK(c), NEW ch \in Int, NEW s, NEW at, Placed(at, c, s)
  PROVE  \E bt : Placed(bt, printc(c, ch), s)
<1> DEFINE z == printc(c, ch)
           n == Len(c.port)
           bt == [i \in 0 .. n + 1 |-> IF i <= n THEN at[i] ELSE Cursor(z)]
<1>1. /\ ConsoleOK(z) /\ Cursor(z) = NextCell(Cursor(c), ch) /\ z.port = Append(c.port, ch)
      /\ z.shown = IF ch = NL THEN c.shown ELSE Draw(c.shown, Cursor(c), ch)
  BY PrintcMoves
<1>2. c.port \in Seq(Int) /\ n \in Nat
  BY DEF ConsoleOK
<1>3. /\ z.port \in Seq(Int) /\ Len(z.port) = n + 1 /\ z.port[n + 1] = ch
      /\ \A i \in 1 .. n : z.port[i] = c.port[i]
  BY <1>1, <1>2
<1> HIDE DEF z, n
<1>4. /\ \A i \in 0 .. n : bt[i] = at[i]
      /\ bt[n + 1] = Cursor(z)
      /\ bt = [i \in 0 .. n + 1 |-> bt[i]]
  BY <1>2
<1>5. at[0] = s /\ at[n] = Cursor(c)
  BY DEF Placed, n
<1> HIDE DEF bt
<1>6. bt[0] = s /\ bt[n + 1] = Cursor(z)
  <2>1. 0 \in 0 .. n
    BY <1>2
  <2> QED BY <1>4, <1>5, <2>1
<1>7. ASSUME NEW i \in 1 .. n + 1 PROVE bt[i] = NextCell(bt[i - 1], z.port[i])
  <2>1. CASE i \in 1 .. n
    <3>1. bt[i] = at[i] /\ bt[i - 1] = at[i - 1] /\ z.port[i] = c.port[i]
      <4>1. i \in 0 .. n /\ i - 1 \in 0 .. n
        BY <1>2, <2>1
      <4> QED BY <1>3, <1>4, <2>1, <4>1
    <3>2. at[i] = NextCell(at[i - 1], c.port[i])
      BY <2>1 DEF Placed, n
    <3> QED BY <3>1, <3>2
  <2>2. CASE i = n + 1
    <3>1. i - 1 = n /\ n \in 0 .. n
      BY <1>2, <2>2
    <3>2. bt[i - 1] = Cursor(c) /\ bt[i] = Cursor(z) /\ z.port[i] = ch
      BY <1>3, <1>4, <1>5, <2>2, <3>1
    <3> QED BY <1>1, <3>2
  <2> QED BY <1>2, <2>1, <2>2
<1>8. /\ \A i \in Drawn(c.port) : i \in 1 .. n /\ i \in Int /\ bt[i - 1] = at[i - 1]
      /\ Drawn(z.port) = Drawn(c.port) \cup (IF ch = NL THEN {} ELSE {n + 1})
      /\ bt[(n + 1) - 1] = Cursor(c) /\ n + 1 \notin Drawn(c.port)
  <2>1. \A i \in 1 .. n : i - 1 \in 0 .. n /\ i \in Int
    BY <1>2
  <2>2. Drawn(c.port) = {i \in 1 .. n : c.port[i] # NL}
    BY DEF Drawn, n
  <2>3. Drawn(z.port) = {i \in 1 .. n + 1 : z.port[i] # NL}
    BY <1>3 DEF Drawn
  <2>4. (n + 1) - 1 = n /\ n \in 0 .. n /\ n + 1 \notin 1 .. n /\ 1 .. n + 1 = (1 .. n) \cup {n + 1}
    BY <1>2
  <2>5. bt[(n + 1) - 1] = Cursor(c)
    BY <1>4, <1>5, <2>4
  <2>6. Drawn(z.port) = Drawn(c.port) \cup (IF ch = NL THEN {} ELSE {n + 1})
    BY <1>3, <2>2, <2>3, <2>4
  <2> QED BY <1>4, <2>1, <2>2, <2>4, <2>5, <2>6
<1>9. /\ DOMAIN c.shown = {at[i - 1] : i \in Drawn(c.port)}
      /\ \A i \in Drawn(c.port) :
           (\A j \in Drawn(c.port) : j > i => at[j - 1] # at[i - 1]) => c.shown[at[i - 1]] = c.port[i]
  BY DEF Placed
<1>10. DOMAIN c.shown = {bt[i - 1] : i \in Drawn(c.port)}
  BY <1>8, <1>9
<1>11. DOMAIN z.shown = {bt[i - 1] : i \in Drawn(z.port)}
  <2>1. CASE ch = NL
    BY <1>1, <1>8, <1>10, <2>1
  <2>2. CASE ch # NL
    <3>1. DOMAIN z.shown = DOMAIN c.shown \cup {Cursor(c)}
      BY <1>1, <2>2 DEF Draw
    <3>2. {bt[i - 1] : i \in Drawn(z.port)} = {bt[i - 1] : i \in Drawn(c.port)} \cup {bt[(n + 1) - 1]}
      BY <1>8, <2>2
    <3> QED BY <1>8, <1>10, <3>1, <3>2
  <2> QED BY <2>1, <2>2
<1>12. ASSUME NEW i \in Drawn(z.port), \A j \in Drawn(z.port) : j > i => bt[j - 1] # bt[i - 1]
       PROVE  z.shown[bt[i - 1]] = z.port[i]
  <2>1. CASE i \in Drawn(c.port)
    <3>1. \A j \in Drawn(c.port) : j > i => at[j - 1] # at[i - 1]
      BY <1>8, <1>12, <2>1
    <3>2. c.shown[at[i - 1]] = c.port[i]
      BY <1>9, <2>1, <3>1
    <3>3. z.port[i] = c.port[i] /\ bt[i - 1] = at[i - 1]
      BY <1>3, <1>8, <2>1
    <3>4. z.shown[at[i - 1]] = c.shown[at[i - 1]]
      <4>1. CASE ch = NL
        BY <1>1, <4>1
      <4>2. CASE ch # NL
        <5>1. n + 1 \in Drawn(z.port) /\ n + 1 > i
          BY <1>2, <1>8, <2>1, <4>2
        <5>2. at[i - 1] # Cursor(c)
          BY <1>8, <1>12, <3>3, <5>1
        <5>3. at[i - 1] \in DOMAIN c.shown
          BY <1>9, <2>1
        <5> QED BY <1>1, <4>2, <5>2, <5>3 DEF Draw
      <4> QED BY <4>1, <4>2
    <3> QED BY <3>2, <3>3, <3>4
  <2>2. CASE i \notin Drawn(c.port)
    <3>1. i = n + 1 /\ ch # NL
      BY <1>8, <1>12, <2>2
    <3>2. bt[i - 1] = Cursor(c) /\ z.port[i] = ch
      BY <1>3, <1>8, <3>1
    <3> QED BY <1>1, <3>1, <3>2 DEF Draw
  <2> QED BY <2>1, <2>2
<1>13. Placed(bt, z, s)
  BY <1>3, <1>4, <1>6, <1>7, <1>11, <1>12 DEF Placed
<1> QED BY <1>13 DEF z

\* A set of numbers has a least one.
LEMMA LeastOf ==
  ASSUME NEW S, S \subseteq Nat, S # {}
  PROVE  \E i \in S : \A j \in S : i <= j
<1>1. PICK i \in S : \A j \in S : ~(<<j, i>> \in OpToRel(<, Nat))
  BY WFMin, NatLessThanWellFounded
<1>2. \A j \in S : ~(j < i)
  BY <1>1 DEF OpToRel
<1>3. \A j \in S : i <= j
  BY <1>2
<1> QED BY <1>3

\* Two lists of values that begin alike and go on alike are alike.
LEMMA StepByStep ==
  ASSUME NEW n \in Nat, NEW p, NEW v, p[0] = v[0], \A i \in 1 .. n : p[i - 1] = v[i - 1] => p[i] = v[i]
  PROVE  \A i \in 0 .. n : p[i] = v[i]
<1> DEFINE S == {i \in 0 .. n : p[i] # v[i]}
<1> SUFFICES ASSUME S # {} PROVE FALSE
  OBVIOUS
<1>1. S \subseteq Nat /\ S # {}
  OBVIOUS
<1>2. PICK i \in S : \A j \in S : i <= j
  <2> HIDE DEF S
  <2> QED BY <1>1, LeastOf
<1>3. i \in 0 .. n /\ p[i] # v[i]
  BY <1>2
<1>4. i # 0
  BY <1>3
<1>5. i \in 1 .. n /\ i - 1 \in 0 .. n /\ ~(i <= i - 1)
  BY <1>3, <1>4
<1>6. i - 1 \notin S
  <2> HIDE DEF S
  <2> QED BY <1>2, <1>5
<1>7. p[i - 1] = v[i - 1]
  BY <1>5, <1>6
<1> QED BY <1>3, <1>5, <1>7

\* Place computes these cells.
LEMMA PlaceIs ==
  ASSUME NEW c, ConsoleOK(c), NEW s, NEW at, Placed(at, c, s)
  PROVE  Place(c.port, s) = at
<1> DEFINE t == c.port
           n == Len(t)
           Body(w) == [i \in 0 .. n |->
                         IF i = 0 THEN s
                         ELSE IF t[i] = NL THEN ((w[i - 1] \div NUM_COLUMNS + 1) % NUM_ROWS) * NUM_COLUMNS
                         ELSE (w[i - 1] + 1) % Cells]
           p == Place(t, s)
<1>1. n \in Nat
  BY DEF ConsoleOK
<1>2. p = CHOOSE w : w = Body(w)
  BY DEF Place
<1>3. at = [i \in 0 .. n |-> at[i]] /\ at[0] = s /\ \A i \in 1 .. n : at[i] = NextCell(at[i - 1], t[i])
  BY DEF Placed
<1> HIDE DEF t, n, p
<1>4. ASSUME NEW i \in 0 .. n
      PROVE  at[i] = IF i = 0 THEN s
                     ELSE IF t[i] = NL THEN ((at[i - 1] \div NUM_COLUMNS + 1) % NUM_ROWS) * NUM_COLUMNS
                     ELSE (at[i - 1] + 1) % Cells
  <2>1. CASE i = 0
    BY <1>3, <2>1
  <2>2. CASE i # 0
    <3>1. i \in 1 .. n
      BY <1>1, <2>2
    <3> QED BY <1>3, <2>2, <3>1 DEF NextCell
  <2> QED BY <2>1, <2>2
<1>5. at = Body(at)
  BY <1>3, <1>4
<1>6. p = Body(p)
  <2> HIDE DEF Body
  <2> QED BY <1>2, <1>5
<1>7. p = [i \in 0 .. n |-> p[i]] /\ p[0] = s /\ \A i \in 1 .. n : p[i] = NextCell(p[i - 1], t[i])
  <2>1. p = [i \in 0 .. n |-> p[i]]
    BY <1>6
  <2>2. 0 \in 0 .. n /\ \A i \in 1 .. n : i \in 0 .. n /\ i # 0
    BY <1>1
  <2>3. p[0] = s
    BY <1>6, <2>2
  <2>4. ASSUME NEW i \in 1 .. n PROVE p[i] = NextCell(p[i - 1], t[i])
    BY <1>6, <2>2 DEF NextCell
  <2> QED BY <2>1, <2>3, <2>4
<1> HIDE DEF Body
<1>8. \A i \in 0 .. n : p[i] = at[i]
  <2>1. p[0] = at[0]
    BY <1>3, <1>7
  <2>2. \A i \in 1 .. n : p[i - 1] = at[i - 1] => p[i] = at[i]
    BY <1>3, <1>7
  <2> QED BY <1>1, <2>1, <2>2, StepByStep
<1>9. p = at
  BY <1>3, <1>7, <1>8
<1> QED BY <1>9 DEF p, t

-----------------------------------------------------------------------------
(* Numbers in digits. *)

DigitOf(ch) == IF ch >= 65 THEN ch - 55 ELSE ch - 48

\* v holds the numbers the digits of t make, read from the left.
Reads(v, t, base) ==
  /\ v = [i \in 0 .. Len(t) |-> v[i]] /\ v[0] = 0
  /\ \A i \in 1 .. Len(t) : v[i] = base * v[i - 1] + DigitOf(t[i])

\* Value is the last of them.
LEMMA ValueIs ==
  ASSUME NEW t \in Seq(Int), NEW base \in Int, NEW v, Reads(v, t, base)
  PROVE  Value(t, base) = v[Len(t)]
<1> DEFINE n == Len(t)
           Body(w) == [i \in 0 .. n |-> IF i = 0 THEN 0
                                         ELSE base * w[i - 1] + (IF t[i] >= 65 THEN t[i] - 55 ELSE t[i] - 48)]
           p == CHOOSE w : w = Body(w)
<1>1. n \in Nat
  OBVIOUS
<1>2. Value(t, base) = p[n]
  BY DEF Value
<1>10. v = [i \in 0 .. n |-> v[i]] /\ v[0] = 0 /\ \A i \in 1 .. n : v[i] = base * v[i - 1] + DigitOf(t[i])
  BY DEF Reads
<1> HIDE DEF n
<1>3. ASSUME NEW i \in 0 .. n
      PROVE  v[i] = IF i = 0 THEN 0 ELSE base * v[i - 1] + (IF t[i] >= 65 THEN t[i] - 55 ELSE t[i] - 48)
  <2>1. CASE i = 0
    BY <1>10, <2>1
  <2>2. CASE i # 0
    <3>1. i \in 1 .. n
      BY <1>1, <2>2
    <3> QED BY <1>10, <2>2, <3>1 DEF DigitOf
  <2> QED BY <2>1, <2>2
<1>4. v = Body(v)
  BY <1>3, <1>10
<1>5. p = Body(p)
  <2> HIDE DEF Body
  <2> QED BY <1>4
<1> HIDE DEF p
<1>6. p[0] = 0 /\ \A i \in 1 .. n : p[i] = base * p[i - 1] + DigitOf(t[i])
  <2>1. 0 \in 0 .. n /\ \A i \in 1 .. n : i \in 0 .. n /\ i # 0
    BY <1>1
  <2>2. p[0] = 0
    BY <1>5, <2>1
  <2>3. ASSUME NEW i \in 1 .. n PROVE p[i] = base * p[i - 1] + DigitOf(t[i])
    BY <1>5, <2>1 DEF DigitOf
  <2> QED BY <2>2, <2>3
<1> HIDE DEF Body
<1>8. \A i \in 0 .. n : p[i] = v[i]
  <2>1. p[0] = v[0]
    BY <1>6, <1>10
  <2>2. \A i \in 1 .. n : p[i - 1] = v[i - 1] => p[i] = v[i]
    BY <1>6, <1>10
  <2> QED BY <1>1, <2>1, <2>2, StepByStep
<1>9. p[n] = v[n]
  <2>1. n \in 0 .. n
    BY <1>1
  <2> QED BY <1>8, <2>1
<1> QED BY <1>2, <1>9 DEF n

\* A number in hexadecimal, one digit less.
LEMMA HexStep ==
  ASSUME NEW a \in Nat
  PROVE  /\ a \div 16777216 = 16 * (a \div 268435456) + ((a \div 16777216) % 16)
         /\ a \div 1048576 = 16 * (a \div 16777216) + ((a \div 1048576) % 16)
         /\ a \div 65536 = 16 * (a \div 1048576) + ((a \div 65536) % 16)
         /\ a \div 4096 = 16 * (a \div 65536) + ((a \div 4096) % 16)
         /\ a \div 256 = 16 * (a \div 4096) + ((a \div 256) % 16)
         /\ a \div 16 = 16 * (a \div 256) + ((a \div 16) % 16)
         /\ a = 16 * (a \div 16) + (a % 16)
<1>1. a \div 16777216 = 16 * (a \div 268435456) + ((a \div 16777216) % 16)
  BY SMTT(30)
<1>2. a \div 1048576 = 16 * (a \div 16777216) + ((a \div 1048576) % 16)
  BY SMTT(30)
<1>3. a \div 65536 = 16 * (a \div 1048576) + ((a \div 65536) % 16)
  BY SMTT(30)
<1>4. a \div 4096 = 16 * (a \div 65536) + ((a \div 4096) % 16)
  BY SMTT(30)
<1>5. a \div 256 = 16 * (a \div 4096) + ((a \div 256) % 16)
  BY SMTT(30)
<1>6. a \div 16 = 16 * (a \div 256) + ((a \div 16) % 16)
  BY SMTT(30)
<1>7. a = 16 * (a \div 16) + (a % 16)
  BY SMTT(30)
<1> QED BY SMT, <1>1, <1>2, <1>3, <1>4, <1>5, <1>6, <1>7

\* A digit of hex_convertor reads back as the digit.
LEMMA HexDigitIs == ASSUME NEW d \in 0 .. 15 PROVE HexDigit(d) \in Int /\ DigitOf(HexDigit(d)) = d
BY DEF HexDigit, DigitOf

Power16(k) == CASE k = 0 -> 1 [] k = 1 -> 16 [] k = 2 -> 256 [] k = 3 -> 4096 [] k = 4 -> 65536
                [] k = 5 -> 1048576 [] k = 6 -> 16777216 [] k = 7 -> 268435456
\* The powers of sixteen hex_convertor divides by.
LEMMA PowersOf16 == \A k \in 0 .. 7 : 16^k = Power16(k) /\ Power16(k) \in Nat \ {0}
<1>1. /\ 16^0 = 1 /\ 16^1 = 16 /\ 16^2 = 256 /\ 16^3 = 4096 /\ 16^4 = 65536 /\ 16^5 = 1048576
      /\ 16^6 = 16777216 /\ 16^7 = 268435456
  BY SMT
<1> TAKE k \in 0 .. 7
<1>2. k = 0 \/ k = 1 \/ k = 2 \/ k = 3 \/ k = 4 \/ k = 5 \/ k = 6 \/ k = 7
  BY SMT
<1>3. CASE k = 0
  BY SMT, <1>1, <1>3 DEF Power16
<1>4. CASE k = 1
  BY SMT, <1>1, <1>4 DEF Power16
<1>5. CASE k = 2
  BY SMT, <1>1, <1>5 DEF Power16
<1>6. CASE k = 3
  BY SMT, <1>1, <1>6 DEF Power16
<1>7. CASE k = 4
  BY SMT, <1>1, <1>7 DEF Power16
<1>8. CASE k = 5
  BY SMT, <1>1, <1>8 DEF Power16
<1>9. CASE k = 6
  BY SMT, <1>1, <1>9 DEF Power16
<1>10. CASE k = 7
  BY SMT, <1>1, <1>10 DEF Power16
<1> QED BY SMT, <1>2, <1>3, <1>4, <1>5, <1>6, <1>7, <1>8, <1>9, <1>10

\* hex_convertor writes what Value reads.
LEMMA HexIs ==
  ASSUME NEW a \in Nat, a \div 16^7 < 16
  PROVE  hex_convertor(a) \in Seq(Int) /\ Len(hex_convertor(a)) = 8 /\ Value(hex_convertor(a), 16) = a
<1> DEFINE t == hex_convertor(a)
           D(i) == (a \div 16^(8 - i)) % 16
           v == [i \in 0 .. 8 |-> IF i = 0 THEN 0 ELSE a \div Power16(8 - i)]
<1>1. ASSUME NEW i \in 1 .. 8 PROVE D(i) = (a \div Power16(8 - i)) % 16 /\ D(i) \in 0 .. 15
  <2>1. 8 - i \in 0 .. 7
    OBVIOUS
  <2>2. 16^(8 - i) = Power16(8 - i) /\ Power16(8 - i) \in Nat \ {0}
    BY <2>1, PowersOf16
  <2> DEFINE b == Power16(8 - i)
  <2>3. b \in Nat \ {0} /\ D(i) = (a \div b) % 16
    BY <2>2
  <2> HIDE DEF b
  <2>4. a \div b \in Nat
    BY <2>3
  <2>5. (a \div b) % 16 \in 0 .. 15
    BY <2>4
  <2> QED BY <2>3, <2>5 DEF b
<1>2. t = [i \in 1 .. 8 |-> HexDigit(D(i))]
  BY DEF hex_convertor
<1> HIDE DEF t, D
<1>3. \A i \in 1 .. 8 : HexDigit(D(i)) \in Int /\ DigitOf(HexDigit(D(i))) = D(i)
  BY <1>1, HexDigitIs
<1>4. t \in Seq(Int) /\ Len(t) = 8 /\ \A i \in 1 .. 8 : DigitOf(t[i]) = D(i)
  <2> DEFINE H(i) == HexDigit(D(i))
  <2>1. t = [i \in 1 .. 8 |-> H(i)] /\ \A i \in 1 .. 8 : H(i) \in Int /\ DigitOf(H(i)) = D(i)
    BY <1>2, <1>3
  <2> HIDE DEF H
  <2>2. t \in Seq(Int) /\ Len(t) = 8
    BY <2>1
  <2>3. \A i \in 1 .. 8 : t[i] = H(i)
    BY <2>1
  <2> QED BY <2>1, <2>2, <2>3
<1>5. /\ v[1] = a \div 268435456 /\ v[2] = a \div 16777216 /\ v[3] = a \div 1048576 /\ v[4] = a \div 65536
      /\ v[5] = a \div 4096 /\ v[6] = a \div 256 /\ v[7] = a \div 16 /\ v[8] = a \div 1 /\ v[0] = 0
  BY SMT DEF Power16
<1>6. v = [i \in 0 .. 8 |-> v[i]]
  OBVIOUS
<1>7. /\ D(1) = (a \div 268435456) % 16 /\ D(2) = (a \div 16777216) % 16 /\ D(3) = (a \div 1048576) % 16
      /\ D(4) = (a \div 65536) % 16 /\ D(5) = (a \div 4096) % 16 /\ D(6) = (a \div 256) % 16
      /\ D(7) = (a \div 16) % 16 /\ D(8) = (a \div 1) % 16
  BY SMT, <1>1 DEF Power16
<1>8. a \div 1 = a /\ a \div 268435456 < 16 /\ a \div 268435456 \in Nat
  <2>1. 16^7 = 268435456
    BY SMT
  <2> QED BY SMT, <2>1
<1> HIDE DEF v
<1>9. v[1] = 16 * v[0] + D(1)
  BY SMT, <1>5, <1>7, <1>8
<1>10. /\ v[2] = 16 * v[1] + D(2) /\ v[3] = 16 * v[2] + D(3) /\ v[4] = 16 * v[3] + D(4) /\ v[5] = 16 * v[4] + D(5)
       /\ v[6] = 16 * v[5] + D(6) /\ v[7] = 16 * v[6] + D(7) /\ v[8] = 16 * v[7] + D(8)
  <2>1. v[2] = 16 * v[1] + D(2)
    BY SMT, <1>5, <1>7, <1>8, HexStep
  <2>2. v[3] = 16 * v[2] + D(3)
    BY SMT, <1>5, <1>7, <1>8, HexStep
  <2>3. v[4] = 16 * v[3] + D(4)
    BY SMT, <1>5, <1>7, <1>8, HexStep
  <2>4. v[5] = 16 * v[4] + D(5)
    BY SMT, <1>5, <1>7, <1>8, HexStep
  <2>5. v[6] = 16 * v[5] + D(6)
    BY SMT, <1>5, <1>7, <1>8, HexStep
  <2>6. v[7] = 16 * v[6] + D(7)
    BY SMT, <1>5, <1>7, <1>8, HexStep
  <2>7. v[8] = 16 * v[7] + D(8)
    BY SMT, <1>5, <1>7, <1>8, HexStep
  <2> QED BY <2>1, <2>2, <2>3, <2>4, <2>5, <2>6, <2>7
<1>11. ASSUME NEW i \in 1 .. 8 PROVE v[i] = 16 * v[i - 1] + D(i)
  <2>1. i \in {1, 2, 3, 4, 5, 6, 7, 8}
    OBVIOUS
  <2> QED BY <1>9, <1>10, <2>1
<1>12. \A i \in 1 .. Len(t) : v[i] = 16 * v[i - 1] + DigitOf(t[i])
  BY <1>4, <1>11
<1>13. Value(t, 16) = v[Len(t)]
  <2>1. v[0] = 0
    BY <1>5
  <2>2. v = [i \in 0 .. Len(t) |-> v[i]]
    BY <1>4, <1>6
  <2>3. t \in Seq(Int) /\ 16 \in Int
    BY <1>4
  <2>4. Reads(v, t, 16)
    BY <1>12, <2>1, <2>2 DEF Reads
  <2> QED BY <2>3, <2>4, ValueIs
<1>14. Value(t, 16) = a
  BY SMT, <1>4, <1>5, <1>8, <1>13
<1> QED BY <1>4, <1>14 DEF t

\* Two texts of the same length with the same characters are one.
LEMMA SameText ==
  ASSUME NEW s \in Seq(Int), NEW t \in Seq(Int), Len(s) = Len(t), \A i \in 1 .. Len(s) : s[i] = t[i]
  PROVE  s = t
OBVIOUS

\* A text behind another, character by character.
LEMMA JoinedText ==
  ASSUME NEW s \in Seq(Int), NEW t \in Seq(Int)
  PROVE  /\ s \o t \in Seq(Int) /\ Len(s \o t) = Len(s) + Len(t)
         /\ \A i \in 1 .. Len(s) + Len(t) : (s \o t)[i] = IF i <= Len(s) THEN s[i] ELSE t[i - Len(s)]
OBVIOUS

\* A piece of a text, character by character.
LEMMA PartOfText ==
  ASSUME NEW t \in Seq(Int), NEW m \in Nat, NEW n \in Nat, m <= n, n <= Len(t)
  PROVE  /\ SubSeq(t, m + 1, n) \in Seq(Int) /\ Len(SubSeq(t, m + 1, n)) = n - m
         /\ \A i \in 1 .. n - m : SubSeq(t, m + 1, n)[i] = t[m + i]
OBVIOUS

\* A number of one digit, and one of two.
LEMMA ValueOne ==
  ASSUME NEW s \in Seq(Int), Len(s) = 1, NEW x \in Int, DigitOf(s[1]) = x
  PROVE  Value(s, 10) = x
<1> DEFINE v == [i \in 0 .. 1 |-> IF i = 0 THEN 0 ELSE x]
<1>1. v[0] = 0 /\ v[1] = x /\ v = [i \in 0 .. 1 |-> v[i]]
  OBVIOUS
<1> HIDE DEF v
<1>2. v = [i \in 0 .. Len(s) |-> v[i]]
  BY <1>1
<1>3. \A i \in 1 .. 1 : v[i] = 10 * v[i - 1] + DigitOf(s[i])
  BY <1>1
<1>4. \A i \in 1 .. Len(s) : v[i] = 10 * v[i - 1] + DigitOf(s[i])
  BY <1>3
<1>5. 10 \in Int
  OBVIOUS
<1>6. Value(s, 10) = v[Len(s)]
  <2>1. Reads(v, s, 10)
    BY <1>1, <1>2, <1>4 DEF Reads
  <2> QED BY <1>5, <2>1, ValueIs
<1> QED BY <1>1, <1>6

LEMMA ValueTwo ==
  ASSUME NEW s \in Seq(Int), Len(s) = 2, NEW x \in Int, NEW y \in Int, DigitOf(s[1]) = x, DigitOf(s[2]) = y
  PROVE  Value(s, 10) = 10 * x + y
<1> DEFINE z == 10 * x + y
           v == [i \in 0 .. 2 |-> IF i = 0 THEN 0 ELSE IF i = 1 THEN x ELSE z]
<1>1. v[0] = 0 /\ v[1] = x /\ v[2] = z /\ v = [i \in 0 .. 2 |-> v[i]] /\ z = 10 * x + y
  OBVIOUS
<1> HIDE DEF v, z
<1>2. v = [i \in 0 .. Len(s) |-> v[i]]
  BY <1>1
<1>3. \A i \in 1 .. 2 : v[i] = 10 * v[i - 1] + DigitOf(s[i])
  <2>1. v[1] = 10 * v[0] + DigitOf(s[1])
    BY <1>1
  <2>2. v[2] = 10 * v[1] + DigitOf(s[2])
    BY <1>1
  <2> QED BY <2>1, <2>2
<1>4. \A i \in 1 .. Len(s) : v[i] = 10 * v[i - 1] + DigitOf(s[i])
  BY <1>3
<1>5. 10 \in Int
  OBVIOUS
<1>6. Value(s, 10) = v[Len(s)]
  <2>1. Reads(v, s, 10)
    BY <1>1, <1>2, <1>4 DEF Reads
  <2> QED BY <1>5, <2>1, ValueIs
<1> QED BY <1>1, <1>6

\* A string of one or two characters, and its length.
LEMMA TextLength ==
  ASSUME NEW t \in Seq(Int), NEW n \in 1 .. 2, Len(t) = n + 1, \A i \in 1 .. n : t[i] # 0, t[n + 1] = 0
  PROVE  strlen(t) = n
<1> DEFINE S == {k \in 0 .. Len(t) - 1 : t[k + 1] = 0}
<1>1. S = {n}
  <2>1. CASE n = 1
    <3>1. 0 .. Len(t) - 1 = {0, 1} /\ t[1] # 0 /\ t[2] = 0
      BY <2>1
    <3> QED BY <2>1, <3>1
  <2>2. CASE n = 2
    <3>1. 0 .. Len(t) - 1 = {0, 1, 2} /\ t[1] # 0 /\ t[2] # 0 /\ t[3] = 0
      BY <2>2
    <3> QED BY <2>2, <3>1
  <2> QED BY <2>1, <2>2
<1>2. strlen(t) = Min(S)
  BY DEF strlen
<1> HIDE DEF S
<1> QED BY <1>1, <1>2 DEF Min

\* perror's digits read back as the number.
LEMMA ErrnoDigits ==
  ASSUME NEW a \in Errnos \cup {0}
  PROVE  Value(SubSeq(itoa(a), 1, strlen(itoa(a))), 10) = a
<1> DEFINE d == Digits(a)
           G(k) == 48 + ((a \div 10^(d - k)) % 10)
           g == [k \in 1 .. d |-> G(k)]
           t == itoa(a)
           s == SubSeq(t, 1, d)
<1>1. a \in {0, 3, 9, 10, 11, 12, 13, 14, 22, 38}
  BY ErrnosAre
<1>2. d \in {1, 2}
  BY DigitsFew
<1>3. a < 10^d /\ (d = 1 \/ a >= 10^(d - 1))
  <2>1. 10^1 = 10 /\ 10^2 = 100
    OBVIOUS
  <2>2. \E k \in 1 .. 10 : a < 10^k /\ (k = 1 \/ a >= 10^(k - 1))
    <3>1. CASE a < 10
      <4>1. 1 \in 1 .. 10 /\ a < 10^1
        BY <2>1, <3>1
      <4> QED BY <4>1
    <3>2. CASE a >= 10
      <4>1. 2 \in 1 .. 10 /\ a < 10^2 /\ a >= 10^(2-1)
        BY <1>1, <2>1, <3>2
      <4> QED BY <4>1
    <3> QED BY <1>1, <3>1, <3>2
  <2> QED BY <2>2 DEF Digits
<1>4. t = g \o << 0 >>
  BY DEF itoa
<1> HIDE DEF d
<1>5. 10^0 = 1 /\ 10^1 = 10 /\ 10^2 = 100
  OBVIOUS
<1>6. ASSUME NEW k \in 1 .. d
      PROVE  G(k) \in 48 .. 57 /\ G(k) = 48 + (IF k = d THEN a % 10 ELSE (a \div 10) % 10)
  <2>1. CASE k = d
    <3>1. d - k = 0 /\ a \div 1 = a /\ a % 10 \in 0 .. 9
      BY <1>1, <1>2, <2>1
    <3> QED BY <1>5, <2>1, <3>1
  <2>2. CASE k # d
    <3>1. d - k = 1 /\ (a \div 10) % 10 \in 0 .. 9
      BY <1>1, <1>2, <2>2
    <3>2. 10^(d - k) = 10
      BY <1>5, <3>1
    <3>3. G(k) = 48 + ((a \div 10) % 10)
      BY <3>2
    <3> HIDE DEF G
    <3>4. 48 + ((a \div 10) % 10) \in 48 .. 57
      BY <3>1
    <3> QED BY <2>2, <3>3, <3>4
  <2> QED BY <2>1, <2>2
<1>7. g \in Seq(Int) /\ Len(g) = d /\ \A k \in 1 .. d : g[k] = G(k)
  <2> HIDE DEF G
  <2>1. \A k \in 1 .. d : G(k) \in Int
    BY <1>6
  <2> QED BY <1>2, <2>1
<1> HIDE DEF G, g, t
<1>8. /\ t \in Seq(Int) /\ Len(t) = d + 1
      /\ \A k \in 1 .. d : t[k] = G(k)
      /\ t[d + 1] = 0
  <2> DEFINE z == << 0 >>
  <2>1. z \in Seq(Int) /\ Len(z) = 1 /\ z[1] = 0
    OBVIOUS
  <2>2. t = g \o z
    BY <1>4
  <2> HIDE DEF z
  <2>3. /\ t \in Seq(Int) /\ Len(t) = d + 1
        /\ \A i \in 1 .. d + 1 : t[i] = IF i <= d THEN g[i] ELSE z[i - d]
    BY <1>7, <2>1, <2>2, JoinedText
  <2>4. /\ \A i \in 1 .. d : i \in 1 .. d + 1 /\ i <= d
        /\ d + 1 \in 1 .. d + 1 /\ ~(d + 1 <= d) /\ d + 1 - d = 1
    BY <1>2
  <2> QED BY <1>7, <2>1, <2>3, <2>4
<1>9. strlen(t) = d
  <2>1. d \in 1 .. 2 /\ \A i \in 1 .. d : t[i] # 0
    BY <1>2, <1>6, <1>8
  <2> QED BY <1>8, <2>1, TextLength
<1>10. s \in Seq(Int) /\ Len(s) = d /\ \A i \in 1 .. d : s[i] = G(i)
  <2>1. 0 \in Nat /\ d \in Nat /\ 0 <= d /\ d <= Len(t) /\ d - 0 = d /\ 0 + 1 = 1
    BY <1>2, <1>8
  <2>2. s \in Seq(Int) /\ Len(s) = d /\ \A i \in 1 .. d : s[i] = t[0 + i]
    BY <1>8, <2>1, PartOfText
  <2> QED BY <1>8, <2>2
<1> HIDE DEF s
<1>11. CASE d = 1
  <2>1. a < 10 /\ a % 10 = a
    BY <1>1, <1>3, <1>5, <1>11
  <2>2. s[1] = 48 + a
    BY <1>6, <1>10, <1>11, <2>1
  <2>3. DigitOf(s[1]) = a
    BY <1>1, <2>1, <2>2 DEF DigitOf
  <2>4. Value(s, 10) = a
    BY <1>1, <1>10, <1>11, <2>3, ValueOne
  <2> QED BY <1>9, <2>4 DEF s, t
<1>12. CASE d = 2
  <2> DEFINE b == a \div 10
             r == a % 10
  <2>1. b \in 0 .. 9 /\ r \in 0 .. 9 /\ a = 10 * b + r /\ (a \div 10) % 10 = b
    BY <1>1
  <2>2. s[1] = 48 + b /\ s[2] = 48 + r
    BY <1>6, <1>10, <1>12, <2>1
  <2> HIDE DEF b, r
  <2>3. DigitOf(s[1]) = b /\ DigitOf(s[2]) = r
    BY <2>1, <2>2 DEF DigitOf
  <2>4. Value(s, 10) = 10 * b + r
    BY <1>10, <1>12, <2>1, <2>3, ValueTwo
  <2> QED BY <1>9, <2>1, <2>4 DEF s, t
<1> QED BY <1>2, <1>11, <1>12

\* The copies leave what they are given.
LEMMA CopyIs ==
  ASSUME NEW t \in Seq(Int), NEW n \in Nat \ {0}, Len(t) = n
  PROVE  copy_from_user(t, n) = t /\ copy_to_user(t, n) = t
<1> DEFINE w == WORD * Words(n)
<1>1. WORD \in Nat \ {0}
  BY UserAssumption
<1>2. w \in 0 .. n - 1
  <2> DEFINE q == (n - 1) \div WORD
             r == (n - 1) % WORD
  <2>1. q \in Nat /\ r \in 0 .. WORD - 1 /\ n - 1 = WORD * q + r
    BY <1>1
  <2>2. Words(n) = q
    BY DEF Words
  <2> HIDE DEF q, r
  <2>3. WORD * q \in Nat
    BY <1>1, <2>1
  <2> QED BY <1>1, <2>1, <2>2, <2>3
<1> HIDE DEF w
<1>3. SubSeq(t, 1, w) \o SubSeq(t, w + 1, n) = t
  <2> DEFINE a == SubSeq(t, 1, w)
             b == SubSeq(t, w + 1, n)
             u == a \o b
  <2>6. w \in Nat /\ w <= Len(t) /\ n \in Nat /\ w <= n /\ n <= Len(t)
    BY <1>2
  <2>1. a \in Seq(Int) /\ Len(a) = w /\ \A i \in 1 .. w : a[i] = t[i]
    BY <2>6
  <2>2. b \in Seq(Int) /\ Len(b) = n - w /\ \A i \in 1 .. n - w : b[i] = t[w + i]
    BY <2>6, PartOfText
  <2> HIDE DEF a, b
  <2>3. u \in Seq(Int) /\ Len(u) = n /\ \A i \in 1 .. n : u[i] = IF i <= w THEN a[i] ELSE b[i - w]
    <3>1. Len(a) + Len(b) = n
      BY <1>2, <2>1, <2>2
    <3>2. /\ u \in Seq(Int) /\ Len(u) = Len(a) + Len(b)
          /\ \A i \in 1 .. Len(a) + Len(b) : u[i] = IF i <= Len(a) THEN a[i] ELSE b[i - Len(a)]
      BY <2>1, <2>2, JoinedText
    <3> HIDE DEF u
    <3> QED BY <2>1, <3>1, <3>2
  <2> HIDE DEF u
  <2>4. ASSUME NEW i \in 1 .. n PROVE u[i] = t[i]
    <3>1. i <= w => i \in 1 .. w
      BY <1>2
    <3>2. ~(i <= w) => i - w \in 1 .. n - w /\ w + (i - w) = i
      BY <1>2
    <3> QED BY <2>1, <2>2, <2>3, <3>1, <3>2
  <2>5. u = t
    BY <2>3, <2>4, SameText
  <2> QED BY <2>5 DEF a, b, u
<1> QED BY <1>3 DEF copy_from_user, copy_to_user, w

-----------------------------------------------------------------------------
(* WriteExact. *)

\* What a call has given out: on the port already, or in the buffer for it.
Sent == con.port \o queue

\* What sys_write gives out for a text: all of it, but in "E1" the last chunk is
\* taken from the start.
Expected ==
  LET n == call.size - 1 - ((call.size - 1) % BUFFER_SIZE)
  IN IF kernel = "E1" /\ call.size > 0
     THEN SubSeq(call.text, 1, n) \o SubSeq(call.text, 1, call.size - n) ELSE call.text

\* Between calls nothing is pending and the cursor is where the text ended.
Idle == mode \in {"user", "exited"} =>
          con.port = << >> /\ con.shown = << >> /\ start = Cursor(con) /\ queue = << >>

Text == call.text \in Seq(Int) /\ Len(call.text) = call.size /\ call.size \in Nat

\* The chunks so far are the first characters of what is to come out; "E1",
\* which takes its last chunk from the start, has only whole chunks before it.
Printing ==
  mode = "kernel" =>
    /\ call.n = WRITE /\ Text
    /\ Len(Sent) = call.size - left /\ \A i \in 1 .. Len(Sent) : Sent[i] = Expected[i]
    /\ kernel = "E1" /\ left > 0 => \E k \in Nat : call.size - left = BUFFER_SIZE * k

Answered ==
  mode = "return" =>
    /\ queue = << >>
    /\ call.n # WRITE \/ eax < 0 => con.port = << >> \/ (kernel = "E1" /\ call.n = EXIT)
    /\ call.n = WRITE /\ eax >= 0 => Text /\ eax = call.size /\ con.port = Expected

\* perror of "GAME" and "Ex2" makes one write, and errno stays while it does.
Numbers ==
  kernel \in {"GAME", "Ex2"} =>
    /\ plan # << >> => plan = <<itoa(errno)>>
    /\ mode # "user" => plan = << >>
    /\ mode # "user" /\ call.perror => Value(call.text, 10) = errno

Fault(t) == Len(t) >= 18 /\ \A j \in 1 .. 8 : t[Len(t) - 18 + j] = hex_convertor(FAULT_EIP)[j]
Dying ==
  kernel = "E1" =>
    /\ mode \in {"dying", "halted"} => Fault(Sent)
    /\ mode = "dying" => queue # << >>
    /\ mode = "halted" => queue = << >>

ScreenType == ConsoleOK(con) /\ queue \in Seq(Int) /\ mem \in [0 .. SPACE - 1 -> Int]
OnScreen == \E at : Placed(at, con, start)

WInv == ScreenType /\ OnScreen /\ Idle /\ Printing /\ Answered /\ Numbers /\ Dying

\* A whole number of chunks below the size ends where the last chunk begins, or
\* before it.
LEMMA LastChunk ==
  ASSUME NEW B \in Nat \ {0}, NEW k \in Nat, NEW m \in Nat, B * k <= m
  PROVE  B * k <= m - (m % B) /\ (m - B * k < B => m - (m % B) = B * k)
<1> DEFINE q == m \div B
           r == m % B
<1>1. q \in Nat /\ r \in 0 .. B - 1 /\ m = B * q + r
  OBVIOUS
<1> HIDE DEF q, r
<1>2. B * q \in Nat /\ B * k \in Nat /\ m - r = B * q
  BY <1>1
<1>3. k <= q
  <2> SUFFICES ASSUME k >= q + 1 PROVE FALSE
    BY <1>1
  <2>1. B * k >= B * (q + 1)
    BY <1>1
  <2>2. B * (q + 1) = B * q + B
    BY <1>1
  <2> QED BY <1>1, <1>2, <2>1, <2>2
<1>4. B * k <= B * q
  BY <1>1, <1>3
<1>5. ASSUME m - B * k < B PROVE B * q = B * k
  <2>1. CASE k = q
    BY <2>1
  <2>2. CASE k < q
    <3>1. B * q >= B * (k + 1)
      BY <1>1, <2>2
    <3>2. B * (k + 1) = B * k + B
      OBVIOUS
    <3> QED BY <1>1, <1>2, <1>5, <3>1, <3>2
  <2> QED BY <1>1, <1>3, <2>1, <2>2
<1> QED BY <1>2, <1>4, <1>5 DEF r

\* What is to come out, character by character.
Base == call.size - 1 - ((call.size - 1) % BUFFER_SIZE)
LEMMA ExpectedIs ==
  ASSUME Text
  PROVE  /\ Expected \in Seq(Int) /\ Len(Expected) = call.size
         /\ kernel # "E1" => Expected = call.text
         /\ kernel = "E1" /\ call.size > 0 =>
              /\ Base \in 0 .. call.size - 1
              /\ \A i \in 1 .. call.size : Expected[i] = IF i <= Base THEN call.text[i] ELSE call.text[i - Base]
<1> DEFINE t == call.text
           z == call.size
           b == Base
<1>1. t \in Seq(Int) /\ z \in Nat /\ Len(t) = z /\ BUFFER_SIZE \in Nat \ {0}
  BY TerminalAssumption DEF Text
<1>2. CASE kernel = "E1" /\ z > 0
  <2>1. b \in 0 .. z - 1
    <3> DEFINE m == z - 1
               r == m % BUFFER_SIZE
    <3>1. m \in Nat
      BY <1>1, <1>2
    <3> HIDE DEF m
    <3>2. r \in 0 .. BUFFER_SIZE - 1 /\ r <= m
      <4> DEFINE q == m \div BUFFER_SIZE
      <4>1. r \in 0 .. BUFFER_SIZE - 1 /\ q \in Nat /\ m = BUFFER_SIZE * q + r
        BY <1>1, <3>1
      <4> HIDE DEF q, r
      <4>2. BUFFER_SIZE * q \in Nat
        BY <1>1, <4>1
      <4> QED BY <1>1, <3>1, <4>1, <4>2
    <3> HIDE DEF r
    <3>3. m - r \in 0 .. m
      BY <1>1, <3>1, <3>2
    <3> QED BY <3>3 DEF Base, m, r
  <2> DEFINE x == SubSeq(t, 1, b)
             y == SubSeq(t, 1, z - b)
  <2>2. Expected = x \o y
    BY <1>2 DEF Expected, Base
  <2> HIDE DEF t, z, b
  <2>3. x \in Seq(Int) /\ Len(x) = b /\ \A i \in 1 .. b : x[i] = t[i]
    BY <1>1, <2>1
  <2>4. y \in Seq(Int) /\ Len(y) = z - b /\ \A i \in 1 .. z - b : y[i] = t[i]
    BY <1>1, <2>1
  <2> HIDE DEF x, y
  <2>5. Len(x) + Len(y) = z
    BY <1>1, <2>1, <2>3, <2>4
  <2>6. /\ Expected \in Seq(Int) /\ Len(Expected) = z
        /\ \A i \in 1 .. z : Expected[i] = IF i <= b THEN x[i] ELSE y[i - b]
    <3>1. /\ x \o y \in Seq(Int) /\ Len(x \o y) = Len(x) + Len(y)
          /\ \A i \in 1 .. Len(x) + Len(y) : (x \o y)[i] = IF i <= Len(x) THEN x[i] ELSE y[i - Len(x)]
      BY <2>3, <2>4, JoinedText
    <3> QED BY <2>2, <2>3, <2>5, <3>1
  <2>7. ASSUME NEW i \in 1 .. z PROVE Expected[i] = IF i <= b THEN t[i] ELSE t[i - b]
    <3>1. i <= b => i \in 1 .. b
      BY <1>1, <2>1
    <3>2. ~(i <= b) => i - b \in 1 .. z - b
      BY <1>1, <2>1
    <3> QED BY <2>3, <2>4, <2>6, <3>1, <3>2
  <2> QED BY <1>2, <2>1, <2>6, <2>7 DEF t, z, b
<1>3. CASE ~(kernel = "E1" /\ z > 0)
  <2>1. Expected = t
    BY <1>3 DEF Expected
  <2> QED BY <1>1, <1>3, <2>1
<1> QED BY <1>2, <1>3

\* A character printed leaves what was sent.
LEMMA SentStays ==
  ASSUME NEW p \in Seq(Int), NEW q \in Seq(Int), q # << >>
  PROVE  /\ Head(q) \in Int /\ Tail(q) \in Seq(Int) /\ Append(p, Head(q)) \o Tail(q) = p \o q
<1>1. Head(q) \in Int /\ Tail(q) \in Seq(Int) /\ Len(Tail(q)) = Len(q) - 1 /\ Len(q) \in Nat \ {0}
      /\ Head(q) = q[1] /\ \A i \in 1 .. Len(q) - 1 : Tail(q)[i] = q[i + 1]
  OBVIOUS
<1> DEFINE a == Append(p, Head(q))
           b == Tail(q)
           m == Len(p)
           n == Len(q)
           u == a \o b
           w == p \o q
<1>2. a \in Seq(Int) /\ Len(a) = m + 1 /\ a[m + 1] = q[1] /\ m \in Nat /\ \A i \in 1 .. m : a[i] = p[i]
  BY <1>1
<1> HIDE DEF a, b, m, n
<1>3. b \in Seq(Int) /\ n \in Nat \ {0} /\ Len(b) = n - 1 /\ \A i \in 1 .. n - 1 : b[i] = q[i + 1]
  BY <1>1 DEF b, n
<1>4. Len(a) + Len(b) = m + n
  BY <1>2, <1>3
<1>5. u \in Seq(Int) /\ Len(u) = m + n /\ \A i \in 1 .. m + n : u[i] = IF i <= m + 1 THEN a[i] ELSE b[i - (m + 1)]
  <2>1. u \in Seq(Int) /\ Len(u) = Len(a) + Len(b)
        /\ \A i \in 1 .. Len(a) + Len(b) : u[i] = IF i <= Len(a) THEN a[i] ELSE b[i - Len(a)]
    BY <1>2, <1>3, JoinedText
  <2> HIDE DEF u
  <2> QED BY <1>2, <1>4, <2>1
<1>6. w \in Seq(Int) /\ Len(w) = m + n /\ \A i \in 1 .. m + n : w[i] = IF i <= m THEN p[i] ELSE q[i - m]
  BY JoinedText DEF m, n
<1> HIDE DEF u, w
<1>7. ASSUME NEW i \in 1 .. m + n PROVE u[i] = w[i]
  <2>1. CASE i <= m
    <3>1. i \in 1 .. m /\ i <= m + 1
      BY <1>2, <2>1
    <3> QED BY <1>2, <1>5, <1>6, <2>1, <3>1
  <2>2. CASE i = m + 1
    <3>1. ~(i <= m) /\ i - m = 1 /\ i <= m + 1
      BY <1>2, <2>2
    <3> QED BY <1>2, <1>5, <1>6, <2>2, <3>1
  <2>3. CASE i > m + 1
    <3>1. ~(i <= m) /\ ~(i <= m + 1) /\ i - (m + 1) \in 1 .. n - 1 /\ i - (m + 1) + 1 = i - m
      BY <1>2, <1>3, <2>3
    <3> QED BY <1>3, <1>5, <1>6, <3>1
  <2>4. i <= m \/ i = m + 1 \/ i > m + 1
    BY <1>2, <1>3
  <2> QED BY <2>1, <2>2, <2>3, <2>4
<1>8. u = w
  BY <1>5, <1>6, <1>7, SameText
<1> QED BY <1>1, <1>8 DEF u, w, a, b

\* An empty text is placed.
LEMMA NothingPlaced ==
  ASSUME NEW c, c.port = << >>, c.shown = << >>
  PROVE  \E at : Placed(at, c, Cursor(c))
<1> DEFINE s == Cursor(c)
           at == [i \in 0 .. 0 |-> s]
<1>1. at[0] = s /\ at = [i \in 0 .. 0 |-> at[i]]
  OBVIOUS
<1>2. Len(c.port) = 0 /\ Drawn(c.port) = {} /\ DOMAIN c.shown = {}
  BY DEF Drawn
<1> HIDE DEF at, s
<1>3. Placed(at, c, s)
  BY <1>1, <1>2 DEF Placed, s
<1> QED BY <1>3 DEF s

\* The invariant holds at the start.
LEMMA WriteInit == TInit => WInv
<1> SUFFICES ASSUME TInit PROVE WInv
  OBVIOUS
<1>1. ConsoleOK(con) /\ con.port = << >> /\ con.shown = << >>
  <2>1. con = [x |-> 0, y |-> NUM_ROWS - 1, port |-> << >>, shown |-> << >>]
    BY DEF TInit, Blank
  <2>2. NUM_COLUMNS \in Nat \ {0} /\ NUM_ROWS \in Nat \ {0}
    BY ScreenAssumption
  <2> QED BY <2>1, <2>2 DEF ConsoleOK
<1>2. mem \in [0 .. SPACE - 1 -> Int]
  <2>1. SPACE \in Nat
    BY SpaceFacts
  <2> QED BY <2>1 DEF TInit, NL
<1>3. OnScreen
  BY <1>1, NothingPlaced DEF TInit, OnScreen
<1>4. queue = << >> /\ mode = "user" /\ start = Cursor(con) /\ plan = << >>
  BY DEF TInit
<1>5. ScreenType
  BY <1>1, <1>2, <1>4 DEF ScreenType
<1>6. Idle /\ Printing /\ Answered
  BY <1>1, <1>4 DEF Idle, Printing, Answered
<1>7. Numbers /\ Dying
  BY <1>4 DEF Numbers, Dying
<1> QED BY <1>3, <1>5, <1>6, <1>7 DEF WInv

\* The invariant is what the property says, and more.
LEMMA WriteIs == TermInv /\ WInv => WriteExact
<1> SUFFICES ASSUME TermInv, WInv PROVE WriteExact
  OBVIOUS
<1>1. ConsoleOK(con) /\ con.port \in Seq(Int)
  BY DEF WInv, ScreenType, ConsoleOK
<1>2. PICK at : Placed(at, con, start)
  BY DEF WInv, OnScreen
<1>3. Place(con.port, start) = at
  BY <1>1, <1>2, PlaceIs
<1> DEFINE W1 == LET a == Place(con.port, start)
                     drawn == {i \in 1 .. call.size : con.port[i] # NL}
                 IN /\ eax = call.size /\ Len(con.port) = call.size
                    /\ \A i \in 1 .. InOrder : con.port[i] = call.text[i]
                    /\ DOMAIN con.shown = {a[i - 1] : i \in drawn}
                    /\ \A i \in drawn : (\A j \in drawn : j > i => a[j - 1] # a[i - 1])
                                           => con.shown[a[i - 1]] = con.port[i]
                    /\ call.perror /\ kernel \in {"GAME", "Ex2"} => Value(con.port, 10) = errno
           W3 == LET n == Len(con.port) IN Value(SubSeq(con.port, n - 17, n - 10), 16) = FAULT_EIP
<1>4. ASSUME mode = "return", call.n = WRITE, eax >= 0 PROVE W1
  <2>1. Text /\ eax = call.size /\ con.port = Expected
    BY <1>4 DEF WInv, Answered
  <2>2. /\ Len(Expected) = call.size /\ (kernel # "E1" => Expected = call.text)
        /\ kernel = "E1" /\ call.size > 0 =>
             /\ Base \in 0 .. call.size - 1
             /\ \A i \in 1 .. call.size :
                  Expected[i] = IF i <= Base THEN call.text[i] ELSE call.text[i - Base]
    BY <2>1, ExpectedIs
  <2>3. Drawn(con.port) = {i \in 1 .. call.size : con.port[i] # NL}
    BY <2>1, <2>2 DEF Drawn
  <2>4. /\ DOMAIN con.shown = {at[i - 1] : i \in Drawn(con.port)}
        /\ \A i \in Drawn(con.port) :
             (\A j \in Drawn(con.port) : j > i => at[j - 1] # at[i - 1]) => con.shown[at[i - 1]] = con.port[i]
    BY <1>2 DEF Placed
  <2>5. call.perror /\ kernel \in {"GAME", "Ex2"} => Value(con.port, 10) = errno
    BY <1>4, <2>1, <2>2 DEF WInv, Numbers
  <2>6. \A i \in 1 .. InOrder : con.port[i] = call.text[i]
    <3>1. call.size \in Nat /\ BUFFER_SIZE \in Nat \ {0}
      BY <2>1, TerminalAssumption DEF Text
    <3>2. CASE kernel # "E1"
      BY <2>1, <2>2, <3>2
    <3>3. CASE kernel = "E1" /\ call.size > BUFFER_SIZE
      <4>1. InOrder = Base
        BY <3>3 DEF InOrder, Base
      <4>2. call.size > 0
        BY <3>1, <3>3
      <4> QED BY <2>1, <2>2, <3>1, <3>3, <4>1, <4>2
    <3>4. CASE kernel = "E1" /\ call.size > 0 /\ call.size <= BUFFER_SIZE
      <4> DEFINE z == call.size
      <4>1. z - 1 \in 0 .. BUFFER_SIZE - 1
        BY <3>1, <3>4
      <4> HIDE DEF z
      <4>2. (z - 1) % BUFFER_SIZE = z - 1
        BY <3>1, <4>1, ModFacts
      <4>3. z - 1 - (z - 1) = 0
        BY <4>1
      <4>4. Base = 0
        BY <4>2, <4>3 DEF Base, z
      <4>5. InOrder = call.size
        BY <3>1, <3>4 DEF InOrder
      <4>6. ASSUME NEW i \in 1 .. call.size PROVE Expected[i] = call.text[i]
        <5>1. ~(i <= 0) /\ i - 0 = i
          BY <3>1
        <5> QED BY <2>2, <3>4, <4>4, <5>1
      <4> QED BY <2>1, <4>5, <4>6
    <3>5. CASE kernel = "E1" /\ call.size = 0
      <4>1. InOrder = 0
        BY <3>1, <3>5 DEF InOrder
      <4> QED BY <4>1
    <3>6. call.size = 0 \/ (call.size > 0 /\ call.size <= BUFFER_SIZE) \/ call.size > BUFFER_SIZE
      BY <3>1
    <3> QED BY <3>2, <3>3, <3>4, <3>5, <3>6
  <2>7. Len(con.port) = call.size
    BY <2>1, <2>2
  <2> QED BY <1>3, <2>1, <2>3, <2>4, <2>5, <2>6, <2>7
<1>5. mode = "return" /\ (call.n # WRITE \/ eax < 0) => con.port = << >> \/ (kernel = "E1" /\ call.n = EXIT)
  BY DEF WInv, Answered
<1>6. ASSUME mode = "halted", kernel = "E1" PROVE W3
  <2>1. Fault(Sent) /\ queue = << >>
    BY <1>6 DEF WInv, Dying
  <2>2. Sent = con.port
    BY <1>1, <2>1 DEF Sent
  <2> DEFINE p == con.port
             n == Len(p)
             h == hex_convertor(FAULT_EIP)
             u == SubSeq(p, n - 17, n - 10)
  <2>3. p \in Seq(Int) /\ n \in Nat /\ n >= 18 /\ \A j \in 1 .. 8 : p[n - 18 + j] = h[j]
    BY <1>1, <2>1, <2>2 DEF Fault
  <2>4. h \in Seq(Int) /\ Len(h) = 8 /\ Value(h, 16) = FAULT_EIP
    BY TerminalAssumption, HexIs
  <2> HIDE DEF h
  <2>5. u \in Seq(Int) /\ Len(u) = 8 /\ \A j \in 1 .. 8 : u[j] = p[n - 18 + j]
    <3>1. Len(p) = n
      OBVIOUS
    <3> HIDE DEF p, n
    <3> DEFINE a == n - 18
               b == n - 10
    <3>2. a \in Nat /\ b \in Nat /\ a <= b /\ b <= n /\ a + 1 = n - 17 /\ b - a = 8
      BY <2>3
    <3> HIDE DEF a, b
    <3>3. /\ SubSeq(p, a + 1, b) \in Seq(Int) /\ Len(SubSeq(p, a + 1, b)) = b - a
          /\ \A i \in 1 .. b - a : SubSeq(p, a + 1, b)[i] = p[a + i]
      BY <2>3, <3>1, <3>2, PartOfText
    <3>4. SubSeq(p, a + 1, b) = u
      BY <3>2 DEF b
    <3> QED BY <3>2, <3>3, <3>4 DEF a
  <2>6. u = h
    <3> HIDE DEF u, p, n
    <3> QED BY <2>3, <2>4, <2>5, SameText
  <2> QED BY <2>4, <2>6
<1> HIDE DEF W1, W3
<1>7. /\ mode = "return" /\ call.n = WRITE /\ eax >= 0 => W1
      /\ mode = "return" /\ (call.n # WRITE \/ eax < 0) => con.port = << >> \/ (kernel = "E1" /\ call.n = EXIT)
      /\ mode = "halted" /\ kernel = "E1" => W3
  BY <1>4, <1>5, <1>6
<1> QED BY <1>7 DEF WriteExact, W1, W3

\* The place in a block of one of its addresses.
LEMMA BlockIndex ==
  ASSUME NEW addr \in 0 .. SPACE - 1, NEW n \in Nat, n < SPACE, NEW a \in Block(addr, n)
  PROVE  ((a - addr) % SPACE) + 1 \in 1 .. n
<1>1. SPACE \in Nat \ {0}
  BY SpaceFacts
<1>2. PICK i \in 0 .. n - 1 : a = (addr + i) % SPACE
  BY DEF Block
<1>3. CASE addr + i < SPACE
  <2>1. addr + i \in 0 .. SPACE - 1 /\ i \in 0 .. SPACE - 1
    BY <1>1, <1>3
  <2>2. a = addr + i /\ i % SPACE = i
    BY <1>1, <1>2, <2>1, ModFacts
  <2>3. a - addr = i
    BY <1>1, <2>2
  <2> QED BY <2>2, <2>3
<1>4. CASE addr + i >= SPACE
  <2>1. addr + i \in SPACE .. 2 * SPACE - 1 /\ i - SPACE \in -SPACE .. -1
    BY <1>1, <1>4
  <2> DEFINE x == i - SPACE
             y == addr + i
  <2>4. x \in -SPACE .. -1 /\ y \in SPACE .. 2 * SPACE - 1
    BY <2>1
  <2> HIDE DEF x, y
  <2>5. x % SPACE = x + SPACE /\ y % SPACE = y - SPACE
    BY <1>1, <2>4, ModFacts
  <2>2. a = y % SPACE
    BY <1>2 DEF y
  <2>3. x = i - SPACE /\ y = addr + i
    BY DEF x, y
  <2>6. a - addr = x /\ x + SPACE = i
    <3>1. a = y - SPACE
      BY <2>2, <2>5
    <3> QED BY <1>1, <2>3, <3>1
  <2>7. (a - addr) % SPACE = i
    BY <2>5, <2>6
  <2> QED BY <2>7
<1>5. addr + i < SPACE \/ addr + i >= SPACE
  BY <1>1
<1> QED BY <1>3, <1>4, <1>5

\* What CopyOut leaves in the memory of the user.
LEMMA CopyOutGives ==
  ASSUME mem \in [0 .. SPACE - 1 -> Int], NEW t \in Seq(Int), NEW n \in Nat \ {0}, Len(t) = n,
         n < SPACE \div 2, NEW addr \in 0 .. SPACE - 1, CopyOut(t, addr)
  PROVE  mem' \in [0 .. SPACE - 1 -> Int] /\ mode' \in {"return", "halted"}
<1> DEFINE block == Block(addr, n)
           out == copy_to_user(t, n)
<1>1. mode' \in {"return", "halted"}
  BY DEF CopyOut, Answer
<1>2. mem' = [a \in DOMAIN mem |-> IF a \in block /\ Mapped(PageOf(a))
                                   THEN out[((a - addr) % SPACE) + 1] ELSE mem[a]]
  BY DEF CopyOut
<1>3. n < SPACE
  <2>1. SPACE \in Nat \ {0}
    BY SpaceFacts
  <2>2. SPACE \div 2 \in Int /\ SPACE \div 2 <= SPACE
    BY <2>1
  <2> QED BY <2>1, <2>2
<1>4. out = t
  BY CopyIs
<1>5. \A i \in 1 .. n : out[i] \in Int
  <2> HIDE DEF out
  <2> QED BY <1>4
<1> HIDE DEF out, block
<1>6. ASSUME NEW a \in 0 .. SPACE - 1
      PROVE  (IF a \in block /\ Mapped(PageOf(a)) THEN out[((a - addr) % SPACE) + 1] ELSE mem[a]) \in Int
  <2>1. a \in block => ((a - addr) % SPACE) + 1 \in 1 .. n
    BY <1>3, BlockIndex DEF block
  <2> QED BY <1>5, <2>1
<1>7. mem' \in [0 .. SPACE - 1 -> Int]
  BY <1>2, <1>6
<1> QED BY <1>1, <1>7

\* The message of a refused exit.
Refused == kernel = "E1" /\ call'.n = EXIT /\ con' = printk(con, <<NL, 503, NL>>)

\* How a call leaves the dispatch.
LEMMA DispatchGives ==
  ASSUME TermInv, ScreenType, Dispatch(call'),
         call'.addr \in 0 .. SPACE - 1, call'.size \in -(SPACE \div 2) .. SPACE \div 2 - 1
  PROVE  /\ mem' \in [0 .. SPACE - 1 -> Int]
         /\ con' = con \/ (mode' = "return" /\ Refused)
         /\ \/ mode' = "return" /\ ~(call'.n = WRITE /\ eax' >= 0)
            \/ mode' = "wild" \/ mode' = "exited"
            \/ mode' = "halted" /\ kernel # "E1"
            \/ mode' = "kernel" /\ call'.n = WRITE /\ left' = call'.size /\ call'.size \in Nat
<1> DEFINE c == call'
<1>1. c.addr \in 0 .. SPACE - 1 /\ c.size \in -(SPACE \div 2) .. SPACE \div 2 - 1 /\ Dispatch(c)
  OBVIOUS
<1>2. kernel \in Kernels /\ mem \in [0 .. SPACE - 1 -> Int]
  BY DEF TermInv, ScreenType
<1>3. -ENOSYS = -38 /\ -EFAULT = -14 /\ POLL # WRITE /\ GET_STATS # WRITE /\ EXIT # WRITE
  BY DEF ENOSYS, EFAULT, POLL, WRITE, GET_STATS, EXIT
<1> HIDE DEF c
<1>4. CASE Answer(-ENOSYS) /\ UNCHANGED <<con, left, mem, touched>>
  <2>1. mode' = "return" /\ eax' = -38 /\ mem' = mem /\ con' = con
    BY <1>3, <1>4 DEF Answer
  <2>2. ~(eax' >= 0)
    BY <2>1
  <2> QED BY <1>2, <2>1, <2>2
<1>5. CASE mode' = "wild" /\ UNCHANGED <<con, eax, left, mem, touched>>
  BY <1>2, <1>5
<1>6. CASE c.n = POLL /\ POLL \in sys_call_table /\ sys_pollEvent(c) /\ UNCHANGED <<con, left>>
  <2>1. c.n # WRITE /\ kernel # "E1" /\ con' = con
    BY <1>3, <1>6 DEF sys_call_table, POLL, WRITE, GETTIME, GETPID, EXIT, FORK, YIELD, BLOCK
  <2>2. CASE ~access_okGame(VERIFY_WRITE, c.addr, POLL_SIZE)
    BY <1>2, <1>6, <2>1, <2>2 DEF sys_pollEvent, Answer, c
  <2>3. CASE access_okGame(VERIFY_WRITE, c.addr, POLL_SIZE)
    <3>1. CopyOut(keyboard_buffer, c.addr)
      BY <1>6, <2>3 DEF sys_pollEvent
    <3>2. mem' \in [0 .. SPACE - 1 -> Int] /\ mode' \in {"return", "halted"}
      BY <1>1, <1>2, <3>1, BuffersAre, CopyOutGives
    <3> QED BY <2>1, <3>2 DEF c
  <2> QED BY <2>2, <2>3
<1>9. CASE c.n = GET_STATS /\ GET_STATS \in sys_call_table /\ sys_get_stats(c) /\ UNCHANGED <<con, left>>
  <2>1. c.n # WRITE /\ kernel # "E1" /\ con' = con
    BY <1>3, <1>9 DEF sys_call_table, GET_STATS, POLL, WRITE, GETTIME, GETPID, EXIT, FORK, YIELD, BLOCK
  <2>2. CASE mode' = "return" /\ mem' = mem
    BY <1>2, <2>1, <2>2 DEF c
  <2>3. CASE CopyOut(p_stats, c.addr)
    <3>1. mem' \in [0 .. SPACE - 1 -> Int] /\ mode' \in {"return", "halted"}
      BY <1>1, <1>2, <2>3, BuffersAre, CopyOutGives
    <3> QED BY <2>1, <3>1 DEF c
  <2> QED BY <1>9, <2>2, <2>3 DEF sys_get_stats, Answer
<1>10. CASE /\ c.n \in sys_call_table \ {EXIT, WRITE, POLL, GET_STATS}
            /\ \E x \in Answers(c.n) : Answer(x)
            /\ UNCHANGED <<con, left, mem, touched>>
  BY <1>2, <1>10 DEF Answer, c
<1>11. CASE c.n = EXIT /\ EXIT \in sys_call_table /\ sys_exit /\ UNCHANGED <<left, mem, touched>>
  <2>1. mem' = mem /\ call'.n = EXIT /\ call'.n # WRITE
    BY <1>3, <1>11 DEF c
  <2>2. \/ mode' = "exited" /\ con' = con
        \/ mode' = "wild" /\ con' = con
        \/ mode' = "return" /\ kernel = "E1" /\ con' = printk(con, <<NL, 503, NL>>)
    BY <1>11 DEF sys_exit, Answer
  <2> QED BY <1>2, <2>1, <2>2 DEF Refused
<1>7. CASE c.n = WRITE /\ sys_write(c) # 0 /\ Answer(sys_write(c)) /\ UNCHANGED <<con, left, mem, touched>>
  <2>1. sys_write(c) \in Int /\ -sys_write(c) \in {3, 9, 10, 11, 12, 13, 14, 22, 38}
    BY <1>7, WriteRefuses, ErrnosAre
  <2>2. mode' = "return" /\ eax' = sys_write(c) /\ mem' = mem /\ con' = con
    BY <1>7 DEF Answer
  <2>3. ~(eax' >= 0)
    BY <2>1, <2>2
  <2> QED BY <1>2, <2>2, <2>3
<1>8. CASE WriteBegins(c) /\ UNCHANGED con
  <2>1. /\ sys_write(c) = 0 /\ mode' = "kernel" /\ left' = c.size /\ mem' = mem /\ c.n = WRITE
        /\ con' = con
    BY <1>8 DEF WriteBegins
  <2>2. c.size \in Nat
    BY <1>1, <1>2, <2>1, WritePasses
  <2> QED BY <1>2, <2>1, <2>2 DEF c
<1> QED BY <1>1, <1>4, <1>5, <1>6, <1>7, <1>8, <1>9, <1>10, <1>11 DEF Dispatch

\* The message is placed like any other text.
LEMMA RefusedPlaced ==
  ASSUME ConsoleOK(con), OnScreen, Refused
  PROVE  ConsoleOK(con') /\ \E at : Placed(at, con', start)
<1> DEFINE one == printc(con, NL)
           two == printc(one, 503)
<1>1. NL \in Int /\ con' = printc(two, NL)
  BY DEF NL, Refused, printk
<1>2. PICK at : Placed(at, con, start)
  BY DEF OnScreen
<1>3. ConsoleOK(one) /\ \E bt : Placed(bt, one, start)
  BY <1>1, <1>2, PrintcMoves, PrintcPlaces
<1> HIDE DEF one
<1>4. ConsoleOK(two) /\ \E bt : Placed(bt, two, start)
  BY <1>3, PrintcMoves, PrintcPlaces
<1> HIDE DEF two
<1> QED BY <1>1, <1>4, PrintcMoves, PrintcPlaces

\* A call begins with nothing on the port; its text is what it is to print.
LEMMA CallBegins ==
  ASSUME TermInv, WInv, mode = "user", Dispatch(call'),
         call'.addr \in 0 .. SPACE - 1, call'.size \in -(SPACE \div 2) .. SPACE \div 2 - 1,
         call'.size \in Nat => call'.text \in Seq(Int) /\ Len(call'.text) = call'.size,
         UNCHANGED <<kernel, queue, errno, start>>,
         kernel \in {"GAME", "Ex2"} => /\ plan' = << >>
                                       /\ call'.perror => Value(call'.text, 10) = errno
  PROVE  WInv'
<1>1. /\ mem' \in [0 .. SPACE - 1 -> Int]
      /\ con' = con \/ (mode' = "return" /\ Refused)
      /\ \/ mode' = "return" /\ ~(call'.n = WRITE /\ eax' >= 0)
         \/ mode' = "wild" \/ mode' = "exited"
         \/ mode' = "halted" /\ kernel # "E1"
         \/ mode' = "kernel" /\ call'.n = WRITE /\ left' = call'.size /\ call'.size \in Nat
  BY DispatchGives DEF WInv
<1>2. con.port = << >> /\ con.shown = << >> /\ start = Cursor(con) /\ queue = << >> /\ ConsoleOK(con)
  BY DEF WInv, Idle, ScreenType
<1>3. ScreenType' /\ OnScreen'
  <2>1. CASE con' = con
    BY <1>1, <2>1 DEF WInv, ScreenType, OnScreen
  <2>2. CASE Refused
    <3>1. ConsoleOK(con') /\ \E at : Placed(at, con', start)
      BY <1>2, <2>2, RefusedPlaced DEF WInv
    <3> QED BY <1>1, <3>1 DEF WInv, ScreenType, OnScreen
  <2> QED BY <1>1, <2>1, <2>2
<1>4. Idle' /\ Numbers'
  <2>1. Idle'
    BY <1>1, <1>2 DEF Idle
  <2>2. Numbers'
    BY <1>1 DEF Numbers
  <2> QED BY <2>1, <2>2
<1>5. Dying'
  BY <1>1 DEF Dying
<1>6. Answered'
  BY <1>1, <1>2 DEF Answered, Refused
<1>7. Printing'
  <2> SUFFICES ASSUME mode' = "kernel" PROVE Printing'
    BY DEF Printing
  <2>1. call'.n = WRITE /\ left' = call'.size /\ Text' /\ con' = con
    BY <1>1 DEF Text
  <2>2. Sent' = << >>
    BY <1>2, <2>1 DEF Sent
  <2>3. Len(Sent') = 0 /\ call'.size - left' = 0
    BY <2>1, <2>2 DEF Text
  <2>4. \E k \in Nat : call'.size - left' = BUFFER_SIZE * k
    <3>1. BUFFER_SIZE * 0 = 0 /\ 0 \in Nat
      BY TerminalAssumption
    <3> QED BY <2>3, <3>1
  <2>5. \A i \in 1 .. Len(Sent') : Sent'[i] = Expected'[i]
    BY <2>3
  <2> QED BY <2>1, <2>3, <2>4, <2>5 DEF Printing
<1> QED BY <1>3, <1>4, <1>5, <1>6, <1>7 DEF WInv

\* A call of the program: its text is what its memory holds.
LEMMA WriteSyscall == ASSUME TermInv, WInv, Syscall PROVE WInv'
<1>1. PICK c \in Calls :
        /\ call' = [n |-> c.n, fd |-> c.fd, addr |-> c.addr, size |-> c.size,
                    text |-> TextAt(c.addr, c.size), perror |-> FALSE]
        /\ Dispatch(call')
  BY DEF Syscall
<1>2. call'.addr = c.addr /\ call'.size = c.size /\ call'.text = TextAt(c.addr, c.size) /\ call'.perror = FALSE
  BY <1>1
<1>3. mode = "user" /\ UNCHANGED <<kernel, queue, errno, start>> /\ plan' = << >>
  BY DEF Syscall
<1>4. c.addr \in 0 .. SPACE - 1 /\ c.size \in -(SPACE \div 2) .. SPACE \div 2 - 1
  BY CallsAssumption
<1>5. ASSUME c.size \in Nat PROVE TextAt(c.addr, c.size) \in Seq(Int) /\ Len(TextAt(c.addr, c.size)) = c.size
  <2>1. SPACE \in Nat \ {0} /\ mem \in [0 .. SPACE - 1 -> Int]
    BY SpaceFacts DEF WInv, ScreenType
  <2> DEFINE T(i) == mem[(c.addr + i - 1) % SPACE]
  <2>2. ASSUME NEW i \in 1 .. c.size PROVE T(i) \in Int
    <3>1. (c.addr + i - 1) \in Int
      BY <1>4, <1>5, <2>1
    <3>2. (c.addr + i - 1) % SPACE \in 0 .. SPACE - 1
      BY <2>1, <3>1
    <3> QED BY <2>1, <3>2
  <2>3. TextAt(c.addr, c.size) = [i \in 1 .. c.size |-> T(i)]
    BY DEF TextAt
  <2> HIDE DEF T
  <2> QED BY <1>5, <2>2, <2>3
<1> QED BY <1>1, <1>2, <1>3, <1>4, <1>5, CallBegins

\* perror plans its strings.
LEMMA WritePerror == ASSUME TermInv, WInv, Perror PROVE WInv'
<1>1. mode = "user" /\ UNCHANGED <<kernel, con, mode, call, left, queue, eax, errno, mem, start>>
  BY DEF Perror
<1>2. ScreenType' /\ OnScreen' /\ Idle'
  <2>1. ScreenType'
    BY <1>1 DEF WInv, ScreenType
  <2>2. OnScreen'
    BY <1>1 DEF WInv, OnScreen
  <2>3. Idle'
    BY <1>1 DEF WInv, Idle
  <2> QED BY <2>1, <2>2, <2>3
<1>3. Printing' /\ Answered'
  BY <1>1 DEF Printing, Answered
<1>4. Dying'
  BY <1>1 DEF Dying
<1>5. Numbers'
  <2>1. kernel \in {"GAME", "Ex2"} => plan' = <<itoa(errno)>>
    BY DEF Perror, perrorGame
  <2> QED BY <1>1, <2>1 DEF Numbers
<1> QED BY <1>2, <1>3, <1>4, <1>5 DEF WInv

\* The two parts of a joined text.
LEMMA JoinedParts ==
  ASSUME NEW s \in Seq(Int), NEW t \in Seq(Int)
  PROVE  /\ s \o t \in Seq(Int) /\ Len(s \o t) = Len(s) + Len(t)
         /\ \A i \in 1 .. Len(s) : (s \o t)[i] = s[i]
         /\ \A i \in 1 .. Len(t) : (s \o t)[Len(s) + i] = t[i]
<1> DEFINE u == s \o t
           m == Len(s)
           k == Len(t)
<1>1. u \in Seq(Int) /\ Len(u) = m + k /\ \A i \in 1 .. m + k : u[i] = IF i <= m THEN s[i] ELSE t[i - m]
  BY JoinedText
<1>2. m \in Nat /\ k \in Nat
  OBVIOUS
<1> HIDE DEF u, m, k
<1>3. \A i \in 1 .. m : i \in 1 .. m + k /\ i <= m
  BY <1>2
<1>4. \A i \in 1 .. k : m + i \in 1 .. m + k /\ ~(m + i <= m) /\ m + i - m = i
  BY <1>2
<1> QED BY <1>1, <1>3, <1>4 DEF u, m, k

\* A string of perror is a text as long as its size.
LEMMA WritePerrorWrites == ASSUME TermInv, WInv, PerrorWrites PROVE WInv'
<1> DEFINE t == Head(plan)
           m == strlen(t)
<1>1. plan \in Seq(Strings) /\ plan # << >> /\ mode = "user" /\ UNCHANGED <<kernel, con, queue, errno, start>>
      /\ errno \in Errnos \cup {0}
  BY DEF TermInv, Errors, PerrorWrites
<1>2. t \in Strings
  BY <1>1
<1>3. call' = [n |-> WRITE, fd |-> 1, addr |-> LITERAL, size |-> m, text |-> SubSeq(t, 1, m), perror |-> TRUE]
      /\ WriteBegins(call') /\ plan' = Tail(plan)
  BY DEF PerrorWrites
<1>4. call'.addr = LITERAL /\ call'.size = m /\ call'.text = SubSeq(t, 1, m)
  BY <1>3
<1>5. Dispatch(call')
  BY <1>1, <1>3 DEF Dispatch
<1>6. kernel \in {"GAME", "Ex2"} => plan' = << >> /\ Value(call'.text, 10) = errno
  <2> SUFFICES ASSUME kernel \in {"GAME", "Ex2"} PROVE plan' = << >> /\ Value(call'.text, 10) = errno
    OBVIOUS
  <2>1. plan = <<itoa(errno)>>
    BY <1>1 DEF WInv, Numbers
  <2>2. t = itoa(errno) /\ Tail(plan) = << >>
    BY <2>1
  <2>3. call'.text = SubSeq(itoa(errno), 1, strlen(itoa(errno)))
    BY <1>4, <2>2
  <2> QED BY <1>1, <1>3, <2>2, <2>3, ErrnoDigits
<1> HIDE DEF t
<1>7. m \in 0 .. 2 /\ m \in 0 .. Len(t) - 1 /\ t \in Seq(Int)
  BY <1>2, StrlenShort DEF Strings
<1> HIDE DEF m
<1>8. SubSeq(t, 1, m) \in Seq(Int) /\ Len(SubSeq(t, 1, m)) = m
  <2>1. 0 \in Nat /\ m \in Nat /\ 0 <= m /\ m <= Len(t) /\ m - 0 = m /\ 0 + 1 = 1
    BY <1>7
  <2>2. SubSeq(t, 0 + 1, m) \in Seq(Int) /\ Len(SubSeq(t, 0 + 1, m)) = m - 0
    BY <1>7, <2>1, PartOfText
  <2> QED BY <2>1, <2>2
<1>9. LITERAL \in 0 .. SPACE - 1 /\ m \in -(SPACE \div 2) .. SPACE \div 2 - 1
  <2>1. /\ PAGE \in Nat /\ USER_FIRST_PAGE \in Nat /\ END_PAGE \in Nat /\ SPACE \in Nat
        /\ SPACE > (END_PAGE + 1) * PAGE
        /\ LITERAL \in USER_FIRST_PAGE * PAGE .. END_PAGE * PAGE - 4
    BY SpaceFacts, TerminalAssumption
  <2>2. USER_FIRST_PAGE * PAGE \in Nat /\ END_PAGE * PAGE \in Nat
        /\ (END_PAGE + 1) * PAGE = END_PAGE * PAGE + PAGE
    BY <2>1
  <2>3. SPACE >= 6
    BY <2>1, <2>2, FirstPages
  <2>4. SPACE \div 2 >= 3 /\ SPACE \div 2 \in Int
    BY <2>1, <2>3
  <2> QED BY <1>7, <2>1, <2>2, <2>3, <2>4
<1> QED BY <1>1, <1>4, <1>5, <1>6, <1>8, <1>9, CallBegins

\* A chunk more.
LEMMA WriteCopyChunk == ASSUME TermInv, WInv, CopyChunk PROVE WInv'
<1> DEFINE n == Chunk(left)
           z == call.size
           t == call.text
           done == z - left
           block == Block(call.addr + done, n)
           part == SubSeq(t, done + 1, done + n)
           p == con.port
<1>1. mode = "kernel" /\ queue = << >> /\ left > 0 /\ UNCHANGED <<kernel, con, call, eax, errno, mem, plan, start>>
  BY DEF CopyChunk
<1>2. z \in Nat /\ left \in 1 .. z /\ kernel \in Kernels
  BY <1>1 DEF TermInv, Writing
<1>3. n \in 1 .. left
  BY <1>2, ChunkFits
<1>4. done \in Nat /\ done + n \in Nat /\ done <= done + n /\ done + n <= z /\ done + n - done = n /\ n \in Nat \ {0}
  BY <1>2, <1>3
<1>5. Text /\ call.n = WRITE /\ t \in Seq(Int) /\ Len(t) = z
  BY <1>1 DEF WInv, Printing, Text
<1>6. /\ Expected \in Seq(Int) /\ Len(Expected) = z
      /\ kernel # "E1" => Expected = t
      /\ kernel = "E1" => /\ Base \in 0 .. z - 1
                          /\ \A i \in 1 .. z : Expected[i] = IF i <= Base THEN t[i] ELSE t[i - Base]
  <2>1. z > 0
    BY <1>2
  <2> QED BY <1>5, <2>1, ExpectedIs
<1>7. p \in Seq(Int) /\ Len(p) = done /\ \A i \in 1 .. done : p[i] = Expected[i]
  <2>1. p \in Seq(Int)
    BY DEF WInv, ScreenType, ConsoleOK
  <2>2. Sent = p
    BY <1>1, <2>1 DEF Sent
  <2>3. Len(Sent) = done /\ \A i \in 1 .. Len(Sent) : Sent[i] = Expected[i]
    BY <1>1 DEF WInv, Printing
  <2> HIDE DEF p, done
  <2> QED BY <2>1, <2>2, <2>3
<1>8. Text' /\ Expected' = Expected /\ call' = call
  BY <1>1, <1>5 DEF Text, Expected
<1>9. OnScreen' /\ ConsoleOK(con)' /\ mem' \in [0 .. SPACE - 1 -> Int] /\ con'.port = p
  BY <1>1 DEF WInv, ScreenType, OnScreen
<1>10. Numbers'
  BY <1>1 DEF WInv, Numbers, CopyChunk, my_page_fault_routine
<1>11. CASE Reachable(block)
  <2>1. /\ mode' = "kernel" /\ left' = left - n
        /\ queue' = IF kernel = "E1" /\ n = left THEN SubSeq(t, 1, n) ELSE copy_from_user(part, n)
    BY <1>1, <1>11 DEF CopyChunk
  <2> HIDE DEF n, z, t, done, block, part, p
  <2>2. part \in Seq(Int) /\ Len(part) = n /\ \A i \in 1 .. n : part[i] = t[done + i]
    BY <1>4, <1>5, PartOfText DEF part
  <2>3. copy_from_user(part, n) = part
    BY <1>4, <2>2, CopyIs
  <2>4. BUFFER_SIZE \in Nat \ {0}
    BY TerminalAssumption
  <2>5. kernel = "E1" => n <= BUFFER_SIZE /\ (n # left => n = BUFFER_SIZE)
    <3> SUFFICES ASSUME kernel = "E1" PROVE n <= BUFFER_SIZE /\ (n # left => n = BUFFER_SIZE)
      OBVIOUS
    <3>1. n = Min({left, BUFFER_SIZE})
      BY DEF n, Chunk
    <3>2. CASE left <= BUFFER_SIZE
      <4>1. left \in {left, BUFFER_SIZE} /\ \A y \in {left, BUFFER_SIZE} : left <= y
        BY <1>2, <2>4, <3>2
      <4>2. n \in {left, BUFFER_SIZE} /\ \A y \in {left, BUFFER_SIZE} : n <= y
        BY <3>1, <4>1 DEF Min
      <4> QED BY <1>2, <2>4, <4>2
    <3>3. CASE BUFFER_SIZE <= left
      <4>1. BUFFER_SIZE \in {left, BUFFER_SIZE} /\ \A y \in {left, BUFFER_SIZE} : BUFFER_SIZE <= y
        BY <1>2, <2>4, <3>3
      <4>2. n \in {left, BUFFER_SIZE} /\ \A y \in {left, BUFFER_SIZE} : n <= y
        BY <3>1, <4>1 DEF Min
      <4> QED BY <1>2, <2>4, <4>2
    <3> QED BY <1>2, <2>4, <3>2, <3>3
  <2>6. kernel = "E1" => \E k \in Nat : done = BUFFER_SIZE * k
    BY <1>1, <1>2 DEF WInv, Printing, done, z
  <2>7. ASSUME kernel = "E1", n # left
        PROVE  done + n <= Base /\ \E k \in Nat : done + n = BUFFER_SIZE * k
    <3>1. PICK k \in Nat : done = BUFFER_SIZE * k
      BY <2>6, <2>7
    <3>2. n = BUFFER_SIZE
      BY <2>5, <2>7
    <3>3. done + n = BUFFER_SIZE * (k + 1) /\ k + 1 \in Nat
      BY <2>4, <3>1, <3>2
    <3>4. BUFFER_SIZE * (k + 1) <= z - 1 /\ z - 1 \in Nat
      BY <1>2, <1>3, <1>4, <2>7, <3>3 DEF done
    <3>5. BUFFER_SIZE * (k + 1) <= (z - 1) - ((z - 1) % BUFFER_SIZE)
      BY <2>4, <3>3, <3>4, LastChunk
    <3> QED BY <3>3, <3>5 DEF Base, z
  <2>8. ASSUME kernel = "E1", n = left PROVE Base = done
    <3>1. PICK k \in Nat : done = BUFFER_SIZE * k
      BY <2>6, <2>8
    <3>2. n <= BUFFER_SIZE
      BY <2>5, <2>8
    <3> DEFINE j == z - 1
               b == BUFFER_SIZE * k
    <3>3. j \in Nat /\ b \in Nat /\ b <= j /\ j - b < BUFFER_SIZE
      BY <1>2, <1>3, <1>4, <2>4, <2>8, <3>1, <3>2 DEF done
    <3> HIDE DEF j
    <3>4. j - (j % BUFFER_SIZE) = BUFFER_SIZE * k
      BY <2>4, <3>3, LastChunk
    <3> QED BY <3>1, <3>4 DEF Base, j, z
  <2>9. queue' \in Seq(Int) /\ Len(queue') = n /\ \A i \in 1 .. n : queue'[i] = Expected[done + i]
    <3>1. \A i \in 1 .. n : done + i \in 1 .. z /\ done + i <= done + n /\ i \in 1 .. z
      BY <1>2, <1>3, <1>4
    <3>2. CASE kernel = "E1" /\ n = left
      <4>1. queue' = SubSeq(t, 1, n) /\ n \in 0 .. z
        BY <1>2, <1>3, <2>1, <3>2
      <4>2. queue' \in Seq(Int) /\ Len(queue') = n /\ \A i \in 1 .. n : queue'[i] = t[i]
        BY <1>5, <4>1
      <4>3. ASSUME NEW i \in 1 .. n PROVE Expected[done + i] = t[i]
        <5>1. ~(done + i <= done) /\ done + i - done = i
          BY <1>4
        <5> QED BY <1>6, <2>8, <3>1, <3>2, <5>1
      <4> QED BY <4>2, <4>3
    <3>3. CASE ~(kernel = "E1" /\ n = left)
      <4>1. queue' = part
        BY <2>1, <2>3, <3>3
      <4>2. ASSUME NEW i \in 1 .. n PROVE Expected[done + i] = t[done + i]
        <5>1. CASE kernel # "E1"
          BY <1>6, <5>1
        <5>2. CASE kernel = "E1"
          <6>1. Base \in Int /\ done + n <= Base
            BY <1>6, <2>7, <3>3, <5>2
          <6>2. done + i <= Base
            BY <1>4, <3>1, <6>1
          <6> QED BY <1>6, <3>1, <5>2, <6>2
        <5> QED BY <5>1, <5>2
      <4> QED BY <2>2, <4>1, <4>2
    <3> QED BY <3>2, <3>3
  <2>10. Printing'
    <3> DEFINE q == queue'
               u == p \o q
    <3>1. q \in Seq(Int) /\ Len(q) = n /\ \A i \in 1 .. n : q[i] = Expected[done + i]
      BY <2>9
    <3> HIDE DEF q
    <3>2. u \in Seq(Int) /\ Len(u) = done + n /\ \A i \in 1 .. done + n : u[i] = IF i <= done THEN p[i] ELSE q[i - done]
      <4>1. /\ u \in Seq(Int) /\ Len(u) = Len(p) + Len(q)
            /\ \A i \in 1 .. Len(p) + Len(q) : u[i] = IF i <= Len(p) THEN p[i] ELSE q[i - Len(p)]
        BY <1>7, <3>1, JoinedText
      <4> HIDE DEF u
      <4> QED BY <1>7, <3>1, <4>1
    <3> HIDE DEF u
    <3>3. ASSUME NEW i \in 1 .. done + n PROVE u[i] = Expected[i]
      <4>1. i <= done => i \in 1 .. done
        BY <1>4
      <4>2. ~(i <= done) => i - done \in 1 .. n /\ done + (i - done) = i
        BY <1>4
      <4> QED BY <1>7, <3>1, <3>2, <4>1, <4>2
    <3>4. Sent' = u
      BY <1>9 DEF Sent, u, q
    <3>5. call'.size - left' = done + n /\ left' = left - n
      BY <1>2, <1>3, <1>8, <2>1 DEF done, z
    <3>6. kernel' = "E1" /\ left' > 0 => \E k \in Nat : call'.size - left' = BUFFER_SIZE * k
      <4> SUFFICES ASSUME kernel = "E1", left' > 0 PROVE \E k \in Nat : done + n = BUFFER_SIZE * k
        BY <1>1, <3>5
      <4>1. n # left
        BY <1>2, <1>3, <3>5
      <4> QED BY <2>7, <4>1
    <3>7. Len(Sent') = call'.size - left'
      BY <3>2, <3>4, <3>5
    <3>8. \A i \in 1 .. Len(Sent') : Sent'[i] = Expected'[i]
      BY <1>8, <3>2, <3>3, <3>4
    <3>9. call'.n = WRITE
      BY <1>5, <1>8
    <3> QED BY <1>8, <3>6, <3>7, <3>8, <3>9 DEF Printing
  <2>11. ScreenType' /\ Idle' /\ Answered' /\ Dying'
    BY <1>9, <2>1, <2>9 DEF ScreenType, Idle, Answered, Dying
  <2> QED BY <1>9, <1>10, <2>10, <2>11 DEF WInv
<1>12. CASE ~Reachable(block) /\ kernel # "E1"
  <2>1. mode' = "halted" /\ queue' = queue
    BY <1>1, <1>12 DEF CopyChunk
  <2>2. ScreenType' /\ Idle' /\ Printing' /\ Answered'
    BY <1>9, <2>1 DEF WInv, ScreenType, Idle, Printing, Answered
  <2>3. Dying'
    BY <1>1, <1>12 DEF Dying
  <2> QED BY <1>9, <1>10, <2>2, <2>3 DEF WInv
<1>13. CASE ~Reachable(block) /\ kernel = "E1"
  <2> DEFINE h == hex_convertor(FAULT_EIP)
             o == hex_convertor(0)
             l == <<NL>>
             q == ((h \o l) \o o) \o l
  <2>1. mode' = "dying" /\ queue' = q
    BY <1>1, <1>13 DEF CopyChunk, my_page_fault_routine
  <2>2. h \in Seq(Int) /\ Len(h) = 8 /\ o \in Seq(Int) /\ Len(o) = 8
    <3>1. 0 \in Nat /\ 0 \div 16^7 < 16
      <4>1. 16^7 = 268435456
        BY SMT
      <4> QED BY SMT, <4>1
    <3> QED BY <3>1, TerminalAssumption, HexIs
  <2>3. l \in Seq(Int) /\ Len(l) = 1
    BY DEF NL
  <2> HIDE DEF n, z, t, done, block, part, p, h, o, l
  <2>4. q \in Seq(Int) /\ Len(q) = 18 /\ \A j \in 1 .. 8 : q[j] = h[j]
    <3> DEFINE a == h \o l
               b == a \o o
    <3>1. a \in Seq(Int) /\ Len(a) = 9 /\ \A j \in 1 .. 8 : a[j] = h[j]
      <4>1. a \in Seq(Int) /\ Len(a) = Len(h) + Len(l) /\ \A j \in 1 .. Len(h) : a[j] = h[j]
        BY <2>2, <2>3, JoinedParts
      <4> HIDE DEF a
      <4> QED BY <2>2, <2>3, <4>1
    <3> HIDE DEF a
    <3>2. b \in Seq(Int) /\ Len(b) = 17 /\ \A j \in 1 .. 8 : b[j] = a[j]
      <4>1. \A j \in 1 .. 8 : j \in 1 .. 9
        OBVIOUS
      <4>2. b \in Seq(Int) /\ Len(b) = Len(a) + Len(o) /\ \A j \in 1 .. Len(a) : b[j] = a[j]
        BY <2>2, <3>1, JoinedParts
      <4> HIDE DEF b
      <4> QED BY <2>2, <3>1, <4>1, <4>2
    <3> HIDE DEF b
    <3>3. b \o l \in Seq(Int) /\ Len(b \o l) = 18 /\ \A j \in 1 .. 8 : (b \o l)[j] = b[j]
      <4>1. \A j \in 1 .. 8 : j \in 1 .. 17
        OBVIOUS
      <4> DEFINE c == b \o l
      <4>2. c \in Seq(Int) /\ Len(c) = Len(b) + Len(l) /\ \A j \in 1 .. Len(b) : c[j] = b[j]
        BY <2>3, <3>2, JoinedParts
      <4> HIDE DEF c
      <4>3. c \in Seq(Int) /\ Len(c) = 18 /\ \A j \in 1 .. 8 : c[j] = b[j]
        BY <2>3, <3>2, <4>1, <4>2
      <4> QED BY <4>3 DEF c
    <3>4. q = b \o l
      BY DEF a, b
    <3> HIDE DEF q
    <3> QED BY <3>1, <3>2, <3>3, <3>4
  <2> HIDE DEF q
  <2> DEFINE u == p \o q
  <2>5. u \in Seq(Int) /\ Len(u) = done + 18 /\ \A i \in 1 .. 18 : u[done + i] = q[i]
    <3>1. u \in Seq(Int) /\ Len(u) = Len(p) + Len(q) /\ \A i \in 1 .. Len(q) : u[Len(p) + i] = q[i]
      BY <1>7, <2>4, JoinedParts
    <3> HIDE DEF u
    <3> QED BY <1>7, <2>4, <3>1
  <2> HIDE DEF u
  <2>6. Fault(u)
    <3>1. Len(u) >= 18 /\ Len(u) - 18 = done
      BY <1>4, <2>5
    <3>3. \A j \in 1 .. 8 : j \in 1 .. 18
      OBVIOUS
    <3>2. \A j \in 1 .. 8 : u[done + j] = h[j]
      BY <2>4, <2>5, <3>3
    <3> QED BY <3>1, <3>2 DEF Fault, h
  <2>7. Sent' = u
    BY <1>9, <2>1 DEF Sent, u
  <2>8. queue' \in Seq(Int) /\ queue' # << >>
    <3>1. Len(q) # Len(<< >>)
      BY <2>4
    <3> QED BY <2>1, <2>4, <3>1
  <2>9. Dying'
    BY <2>1, <2>6, <2>7, <2>8 DEF Dying
  <2>10. ScreenType' /\ Idle' /\ Printing' /\ Answered'
    BY <1>9, <2>1, <2>8 DEF ScreenType, Idle, Printing, Answered
  <2> QED BY <1>9, <1>10, <2>9, <2>10 DEF WInv
<1> QED BY <1>11, <1>12, <1>13

\* A character goes from the buffer to the port and the screen.
LEMMA WriteConsole == ASSUME TermInv, WInv, sys_write_console PROVE WInv'
<1> DEFINE ch == Head(queue)
<1>1. /\ mode \in {"kernel", "dying"} /\ queue # << >> /\ con' = printc(con, ch) /\ queue' = Tail(queue)
      /\ mode' = (IF mode = "dying" /\ Len(queue) = 1 THEN "halted" ELSE mode)
      /\ UNCHANGED <<kernel, call, left, eax, errno, mem, plan, start>>
  BY DEF sys_write_console
<1>2. ConsoleOK(con) /\ con.port \in Seq(Int) /\ queue \in Seq(Int) /\ mem \in [0 .. SPACE - 1 -> Int]
  BY DEF WInv, ScreenType, ConsoleOK
<1>3. ch \in Int /\ Tail(queue) \in Seq(Int) /\ Append(con.port, ch) \o Tail(queue) = con.port \o queue
  BY <1>1, <1>2, SentStays
<1>4. Len(queue) = 1 <=> Tail(queue) = << >>
  <2> DEFINE r == Tail(queue)
  <2>1. r \in Seq(Int) /\ Len(r) = Len(queue) - 1 /\ Len(queue) \in Nat
    BY <1>1, <1>2
  <2> HIDE DEF r
  <2>2. Len(r) = 0 <=> r = << >>
    BY <2>1
  <2>3. Len(queue) = 1 <=> Len(r) = 0
    BY <2>1
  <2> QED BY <2>2, <2>3 DEF r
<1> HIDE DEF ch
<1>5. ConsoleOK(con') /\ con'.port = Append(con.port, ch)
  BY <1>1, <1>2, <1>3, PrintcMoves
<1>6. ScreenType'
  BY <1>1, <1>2, <1>3, <1>5 DEF ScreenType
<1>7. OnScreen'
  <2>1. PICK at : Placed(at, con, start)
    BY DEF WInv, OnScreen
  <2>2. \E bt : Placed(bt, printc(con, ch), start)
    BY <1>2, <1>3, <2>1, PrintcPlaces
  <2> QED BY <1>1, <2>2 DEF OnScreen
<1>8. Sent' = Sent
  BY <1>1, <1>3, <1>5 DEF Sent
<1>9. mode' \notin {"user", "exited"} /\ mode' # "return"
  BY <1>1
<1>10. Idle' /\ Answered'
  BY <1>9 DEF Idle, Answered
<1>11. Expected' = Expected /\ (Text => Text')
  BY <1>1 DEF Expected, Text
<1>12. Printing'
  <2> SUFFICES ASSUME mode' = "kernel" PROVE Printing'
    BY DEF Printing
  <2>1. mode = "kernel"
    BY <1>1
  <2> QED BY <1>1, <1>8, <1>11, <2>1 DEF WInv, Printing
<1>13. Numbers'
  BY <1>1, <1>9 DEF WInv, Numbers
<1>14. Dying'
  <2> SUFFICES ASSUME kernel = "E1" PROVE Dying'
    BY <1>1 DEF Dying
  <2>1. mode' \in {"dying", "halted"} => mode = "dying" /\ (mode' = "halted" <=> Tail(queue) = << >>)
    BY <1>1, <1>4
  <2>2. mode = "dying" => Fault(Sent)
    BY DEF WInv, Dying
  <2> QED BY <1>1, <1>8, <2>1, <2>2 DEF Dying
<1> QED BY <1>6, <1>7, <1>10, <1>12, <1>13, <1>14 DEF WInv

\* The loop has ended: all the characters are out.
LEMMA WriteWriteEnds == ASSUME TermInv, WInv, WriteEnds PROVE WInv'
<1>1. /\ mode = "kernel" /\ queue = << >> /\ left = 0 /\ mode' = "return" /\ eax' = call.size - left
      /\ UNCHANGED <<kernel, con, call, queue, errno, mem, plan, start>>
  BY DEF WriteEnds, Answer
<1>2. Text /\ call.n = WRITE /\ Len(Sent) = call.size - left /\ \A i \in 1 .. Len(Sent) : Sent[i] = Expected[i]
  BY <1>1 DEF WInv, Printing
<1>3. call.size \in Nat /\ call.size - left = call.size
  BY <1>1, <1>2 DEF Text
<1>4. con.port \in Seq(Int)
  BY DEF WInv, ScreenType, ConsoleOK
<1>5. Sent = con.port
  BY <1>1, <1>4 DEF Sent
<1>6. Expected \in Seq(Int) /\ Len(Expected) = call.size
  BY <1>2, ExpectedIs
<1>7. con.port = Expected
  <2>1. Len(con.port) = Len(Expected) /\ \A i \in 1 .. Len(con.port) : con.port[i] = Expected[i]
    BY <1>2, <1>3, <1>5, <1>6
  <2> QED BY <1>4, <1>6, <2>1, SameText
<1>8. ~(eax' < 0) /\ eax' = call.size
  BY <1>1, <1>3
<1>9. Answered'
  <2>1. Text' /\ Expected' = Expected
    BY <1>1, <1>2 DEF Text, Expected
  <2> QED BY <1>1, <1>2, <1>7, <1>8, <2>1 DEF Answered
<1>10. ScreenType'
  BY <1>1 DEF WInv, ScreenType
<1>11. OnScreen'
  BY <1>1 DEF WInv, OnScreen
<1>12. Idle' /\ Printing' /\ Dying'
  BY <1>1 DEF Idle, Printing, Dying
<1>13. Numbers'
  BY <1>1 DEF WInv, Numbers
<1> QED BY <1>9, <1>10, <1>11, <1>12, <1>13 DEF WInv

\* A console is its four fields.
LEMMA RecordIs ==
  ASSUME NEW d, DOMAIN d = {"x", "y", "port", "shown"}, d = [a \in DOMAIN d |-> d[a]],
         NEW x, NEW y, NEW p, NEW s, d["x"] = x, d["y"] = y, d["port"] = p, d["shown"] = s
  PROVE  d = [x |-> x, y |-> y, port |-> p, shown |-> s]
OBVIOUS

\* What the call printed is forgotten; the cursor stays.
LEMMA QuietIs ==
  ASSUME NEW c, ConsoleOK(c)
  PROVE  ConsoleOK(Quiet(c)) /\ Quiet(c).port = << >> /\ Quiet(c).shown = << >> /\ Cursor(Quiet(c)) = Cursor(c)
<1>1. PICK x, y, p, s : /\ c = [x |-> x, y |-> y, port |-> p, shown |-> s]
                        /\ x \in 0 .. NUM_COLUMNS - 1 /\ y \in 0 .. NUM_ROWS - 1
  BY DEF ConsoleOK
<1> DEFINE q == Quiet(c)
<1>2. q = [x |-> x, y |-> y, port |-> << >>, shown |-> << >>]
  <2>1. DOMAIN q = {"x", "y", "port", "shown"} /\ q = [a \in DOMAIN q |-> q[a]]
    BY <1>1 DEF Quiet
  <2>2. q["x"] = x /\ q["y"] = y /\ q["port"] = << >> /\ q["shown"] = << >>
    BY <1>1 DEF Quiet
  <2> HIDE DEF q
  <2> QED BY <2>1, <2>2, RecordIs
<1> HIDE DEF q
<1>3. q.x = x /\ q.y = y /\ q.port = << >> /\ q.shown = << >> /\ c.x = x /\ c.y = y
  BY <1>1, <1>2
<1>4. ConsoleOK(q) /\ Cursor(q) = Cursor(c)
  BY <1>2, <1>3 DEF ConsoleOK, Cursor
<1> QED BY <1>3, <1>4 DEF q

\* Back in the user program, or still there.
LEMMA QuietStep ==
  ASSUME WInv, mode' = "user" \/ (mode' = "exited" /\ UNCHANGED <<mode, call, errno>>), ConsoleOK(con'), con'.port = << >>, con'.shown = << >>, start' = Cursor(con'),
         queue = << >>, queue' = queue, mem' = mem, plan' = plan, kernel' = kernel,
         kernel \in {"GAME", "Ex2"} => plan = << >> \/ errno' = errno
  PROVE  WInv'
<1>1. ScreenType'
  BY DEF WInv, ScreenType
<1>2. OnScreen'
  BY NothingPlaced DEF OnScreen
<1>3. Idle' /\ Printing' /\ Answered' /\ Dying'
  BY DEF Idle, Printing, Answered, Dying
<1>4. Numbers'
  BY DEF WInv, Numbers
<1> QED BY <1>1, <1>2, <1>3, <1>4 DEF WInv

\* The call returns.
LEMMA WriteReturn == ASSUME TermInv, WInv, Return PROVE WInv'
<1>1. /\ mode = "return" /\ mode' = "user" /\ con' = Quiet(con) /\ start' = Cursor(con)
      /\ UNCHANGED <<kernel, queue, mem, plan>>
  BY DEF Return
<1>2. ConsoleOK(con) /\ queue = << >> /\ (kernel \in {"GAME", "Ex2"} => plan = << >>)
  BY <1>1 DEF WInv, ScreenType, Answered, Numbers
<1>3. ConsoleOK(con') /\ con'.port = << >> /\ con'.shown = << >> /\ start' = Cursor(con')
  BY <1>1, <1>2, QuietIs
<1> QED BY <1>1, <1>2, <1>3, QuietStep

\* A key shown at the corner leaves the cursor where it was.
LEMMA CornerKeeps ==
  ASSUME WInv, mode \in {"user", "exited"}, NEW ch \in Int, Corner(ch)
  PROVE  ConsoleOK(con') /\ con'.port = << >> /\ con'.shown = << >> /\ Cursor(con') = Cursor(con)
<1> DEFINE c == [con EXCEPT !.x = 0, !.y = 0]
           d == printc(c, ch)
           e == [d EXCEPT !.x = con.x, !.y = con.y]
<1>1. con = [x |-> con.x, y |-> con.y, port |-> con.port, shown |-> con.shown] /\ con.port \in Seq(Int)
      /\ con.x \in 0 .. NUM_COLUMNS - 1 /\ con.y \in 0 .. NUM_ROWS - 1
  BY DEF WInv, ScreenType, ConsoleOK
<1>2. c = [x |-> 0, y |-> 0, port |-> con.port, shown |-> con.shown]
  <2>1. PICK x, y, p, s : con = [x |-> x, y |-> y, port |-> p, shown |-> s]
    BY <1>1
  <2>2. con.port = p /\ con.shown = s
    BY <2>1
  <2>3. DOMAIN c = {"x", "y", "port", "shown"} /\ c = [a \in DOMAIN c |-> c[a]]
    BY <2>1
  <2>4. c["x"] = 0 /\ c["y"] = 0 /\ c["port"] = p /\ c["shown"] = s
    BY <2>1
  <2> HIDE DEF c
  <2>5. c = [x |-> 0, y |-> 0, port |-> p, shown |-> s]
    BY <2>3, <2>4, RecordIs
  <2> QED BY <2>2, <2>5
<1>3. ConsoleOK(c)
  <2>1. NUM_COLUMNS \in Nat \ {0} /\ NUM_ROWS \in Nat \ {0}
    BY ScreenAssumption
  <2> HIDE DEF c
  <2>2. c.x = 0 /\ c.y = 0 /\ c.port = con.port /\ c.shown = con.shown
    BY <1>2
  <2> QED BY <1>1, <1>2, <2>1, <2>2 DEF ConsoleOK
<1>4. con' = Quiet(e)
  BY DEF Corner, printc_xy
<1> HIDE DEF c
<1>5. ConsoleOK(d)
  BY <1>3, PrintcMoves
<1> HIDE DEF d
<1>6. e = [x |-> con.x, y |-> con.y, port |-> d.port, shown |-> d.shown] /\ d.port \in Seq(Int)
  <2>1. PICK x, y, p, s : d = [x |-> x, y |-> y, port |-> p, shown |-> s]
    BY <1>5 DEF ConsoleOK
  <2>2. d.port \in Seq(Int)
    BY <1>5 DEF ConsoleOK
  <2>3. d.port = p /\ d.shown = s
    BY <2>1
  <2>4. DOMAIN e = {"x", "y", "port", "shown"} /\ e = [a \in DOMAIN e |-> e[a]]
    BY <2>1
  <2>5. e["x"] = con.x /\ e["y"] = con.y /\ e["port"] = p /\ e["shown"] = s
    BY <2>1
  <2> HIDE DEF e
  <2>6. e = [x |-> con.x, y |-> con.y, port |-> p, shown |-> s]
    BY <2>4, <2>5, RecordIs
  <2> QED BY <2>2, <2>3, <2>6
<1> HIDE DEF e
<1>7. e.x = con.x /\ e.y = con.y /\ e.port = d.port /\ e.shown = d.shown
  BY <1>6
<1>8. ConsoleOK(e) /\ Cursor(e) = Cursor(con)
  BY <1>1, <1>6, <1>7 DEF ConsoleOK, Cursor
<1> QED BY <1>4, <1>8, QuietIs

\* What char_map gives is a character.
LEMMA CharIs == ASSUME NEW code, NEW ch \in char_map(code) PROVE ch \in Int
BY DEF char_map, NL

\* A key.
LEMMA WriteKey == ASSUME TermInv, WInv, Key PROVE WInv'
<1>1. mode \in {"user", "exited"} /\ UNCHANGED <<kernel, sysvars, start>>
  BY DEF Key, Interruptible
<1>2. UNCHANGED con \/ \E ch \in Int : Corner(ch)
  <2>1. ASSUME NEW c, keyboard_routineEx2(c) \/ keyboard_routineE1(c) \/ keyboard_routineBase(c)
        PROVE  UNCHANGED con \/ \E ch \in Int : Corner(ch)
    <3>1. CASE keyboard_routineEx2(c)
      BY <3>1, CharIs DEF keyboard_routineEx2
    <3>2. CASE keyboard_routineE1(c)
      <4>1. CASE c < 128
        <5>1. PICK ch \in char_map(c % 128) : Corner(IF ch # 0 THEN ch ELSE 67)
          BY <3>2, <4>1 DEF keyboard_routineE1
        <5>2. ch \in Int
          BY CharIs
        <5>3. (IF ch # 0 THEN ch ELSE 67) \in Int
          BY <5>2
        <5> QED BY <5>1, <5>3
      <4>2. CASE ~(c < 128)
        BY <3>2, <4>2 DEF keyboard_routineE1
      <4> QED BY <4>1, <4>2
    <3>3. CASE keyboard_routineBase(c)
      <4>1. CASE c < 128
        <5>1. PICK ch \in char_map(c % 128) : IF ch # 0 THEN Corner(ch) ELSE Corner(67)
          BY <3>3, <4>1 DEF keyboard_routineBase
        <5>2. ch \in Int /\ 67 \in Int
          BY CharIs
        <5> QED BY <5>1, <5>2
      <4>2. CASE ~(c < 128)
        BY <3>3, <4>2 DEF keyboard_routineBase
      <4> QED BY <4>1, <4>2
    <3> QED BY <2>1, <3>1, <3>2, <3>3
  <2>2. UNCHANGED con \/ \E c \in Codes \cup {k + 128 : k \in Codes} :
                           keyboard_routineEx2(c) \/ keyboard_routineE1(c) \/ keyboard_routineBase(c)
    BY DEF Key
  <2> QED BY <2>1, <2>2
<1>3. con.port = << >> /\ con.shown = << >> /\ start = Cursor(con) /\ queue = << >> /\ ConsoleOK(con)
  BY <1>1 DEF WInv, Idle, ScreenType
<1>4. UNCHANGED <<mode, call, queue, mem, plan, errno>>
  BY <1>1 DEF sysvars
<1>5. ConsoleOK(con') /\ con'.port = << >> /\ con'.shown = << >> /\ Cursor(con') = Cursor(con)
  BY <1>1, <1>2, <1>3, CornerKeeps
<1> QED BY <1>1, <1>3, <1>4, <1>5, QuietStep

\* A tick shows an event and leaves the cursor behind it.
LEMMA WriteTick == ASSUME TermInv, WInv, Tick PROVE WInv'
<1>1. mode \in {"user", "exited"} /\ UNCHANGED <<kernel, sysvars>> /\ start' = Cursor(con')
  BY DEF Tick, Interruptible
<1>2. PICK c \in char_map(events[tail].scancode) : con' = Quiet(ShowEvent(c))
  BY DEF Tick
<1>3. c \in Int /\ NL \in Int
  BY CharIs DEF NL
<1>4. queue = << >> /\ ConsoleOK(con)
  BY <1>1 DEF WInv, Idle, ScreenType
<1>5. ConsoleOK(ShowEvent(c))
  <2> DEFINE o == printc(con, 501)
             t == printc(o, c)
             f == printc(con, 502)
  <2>1. ConsoleOK(o) /\ ConsoleOK(f)
    BY <1>4, PrintcMoves
  <2> HIDE DEF o, f
  <2>2. ConsoleOK(t) /\ ConsoleOK(printc(f, NL))
    BY <1>3, <2>1, PrintcMoves
  <2> HIDE DEF t
  <2>3. ConsoleOK(printc(t, NL))
    BY <1>3, <2>2, PrintcMoves
  <2>4. printk(con, <<501, c, NL>>) = printc(t, NL)
    BY DEF printk, o, t
  <2>5. printk(con, <<502, NL>>) = printc(f, NL)
    BY DEF printk, f
  <2> QED BY <1>4, <2>2, <2>3, <2>4, <2>5 DEF ShowEvent
<1>6. ConsoleOK(con') /\ con'.port = << >> /\ con'.shown = << >>
  BY <1>2, <1>5, QuietIs
<1>7. UNCHANGED <<mode, call, queue, mem, plan, errno>>
  BY <1>1 DEF sysvars
<1> QED BY <1>1, <1>4, <1>6, <1>7, QuietStep

\* Every step keeps the invariant.
LEMMA WriteStep == TermInv /\ WInv /\ [TNext]_tvars => WInv'
<1> SUFFICES ASSUME TermInv, WInv, [TNext]_tvars PROVE WInv'
  OBVIOUS
<1>1. CASE UNCHANGED tvars
  <2>1. UNCHANGED <<kernel, con, mode, call, left, queue, eax, errno, mem, plan, start>>
    BY <1>1 DEF tvars, sysvars
  <2>2. ScreenType' /\ OnScreen'
    BY <2>1 DEF WInv, ScreenType, OnScreen
  <2>3. Idle' /\ Numbers'
    BY <2>1 DEF WInv, Idle, Numbers
  <2>4. Sent' = Sent /\ Expected' = Expected /\ (Text => Text')
    BY <2>1 DEF Sent, Expected, Text
  <2>5. Printing' /\ Answered' /\ Dying'
    BY <2>1, <2>4 DEF WInv, Printing, Answered, Dying
  <2> QED BY <2>2, <2>3, <2>5 DEF WInv
<1> QED BY <1>1, WriteSyscall, WritePerror, WritePerrorWrites, WriteCopyChunk, WriteConsole, WriteWriteEnds,
           WriteReturn, WriteKey, WriteTick DEF TNext, Kernel

\* In every kernel, for every screen, chunk and word size, and whatever calls are
\* made and keys hit: a write that is answered printed as many bytes as it was
\* given, on the port and behind the cursor, and answers their number; they are
\* its own bytes, once and in order, in "GAME", "Ex2" and "base", and in "E1" up to
\* where the last of several chunks begins.  A refused one printed nothing; the
\* numbers of perror and of the page fault routine are right.
THEOREM WriteCorrect == TSpec => []WriteExact
<1>1. TInit => TermInv /\ WInv
  BY TermInit, WriteInit
<1>2. (TermInv /\ WInv) /\ [TNext]_tvars => (TermInv /\ WInv)'
  BY TermStep, WriteStep
<1>3. TermInv /\ WInv => WriteExact
  BY WriteIs
<1> QED BY <1>1, <1>2, <1>3, PTL DEF TSpec
=============================================================================
