------------------------------ MODULE Keyboard ------------------------------
(***************************************************************************)
(* The keyboard of so2_old/GAME/zeos: the interrupt routine that decodes a *)
(* scancode and stores an event in the circular buffer k_buffer, and the   *)
(* clock routine that takes one event per tick.                            *)
(***************************************************************************)
EXTENDS Integers, Sequences

CONSTANTS
    KB_BUFFER_SIZE,   \* slots of the circular buffer
    Keys              \* the keys of the keyboard: raw scancodes below 128

ASSUME BufferAssumption == KB_BUFFER_SIZE \in Nat \ {0, 1}
ASSUME KeysAssumption == Keys \subseteq 0 .. 127

VARIABLES
    events, head, tail,    \* k_buffer
    last,                  \* the event the clock routine last took, or <<>>
    down,                  \* external: the keys that are held
    typed                  \* not in the code: what the user last did to a key,
                           \* and the parity of the number of such events

vars == <<events, head, tail, last, down, typed>>

Slots == 0 .. KB_BUFFER_SIZE - 1
EventType == [scancode : 0 .. 127, pressed : {0, 1}]

\* keyboard_init; the memory of k_buffer is zero.
Init ==
    /\ events = [i \in Slots |-> [scancode |-> 0, pressed |-> 0]]
    /\ head = 0 /\ tail = 0
    /\ last = <<>>
    /\ down = {}
    /\ typed = [event |-> [scancode |-> 0, pressed |-> 0], n |-> 0]

\* Bit 7 of what port 0x60 delivers tells a release from a press.
Decode(c) == [scancode |-> c % 128, pressed |-> IF c >= 128 THEN 0 ELSE 1]

NextSlotBug(i) == i + 1
NextSlot(i) == (i + 1) % KB_BUFFER_SIZE

FullBug == NextSlot(NextSlot(head)) = tail
Full == NextSlot(head) = tail

\* The event is dropped when the buffer is full.
Store(e) ==
    IF Full THEN UNCHANGED <<events, head>>
    ELSE events' = [events EXCEPT ![head] = e] /\ head' = NextSlot(head)

keyboard_routine(c) ==
    /\ Store(Decode(c))
    /\ UNCHANGED <<tail, last>>

Typed(k, p) == [event |-> [scancode |-> k, pressed |-> p], n |-> 1 - typed.n]

\* The keyboard sends k when key k is pressed, and again and again while it is
\* held, and k + 128 when it is released.
Press(k) ==
    /\ down' = down \cup {k}
    /\ typed' = Typed(k, 1)
    /\ keyboard_routine(k)

Release(k) ==
    /\ k \in down
    /\ down' = down \ {k}
    /\ typed' = Typed(k, 0)
    /\ keyboard_routine(k + 128)

AdvanceTailBug == tail
AdvanceTail == NextSlot(tail)

\* The part of clock_routine that consumes an event.
clock_routine ==
    /\ head # tail
    /\ last' = <<events[tail]>>
    /\ tail' = AdvanceTail
    /\ UNCHANGED <<events, head, down, typed>>

Next == \/ \E k \in Keys : Press(k) \/ Release(k)
        \/ clock_routine

Spec == Init /\ [][Next]_vars

-----------------------------------------------------------------------------
TypeOK ==
    /\ events \in [Slots -> EventType]
    /\ head \in Slots /\ tail \in Slots
    /\ last = <<>> \/ \E e \in EventType : last = <<e>>
    /\ down \subseteq Keys
    /\ typed \in [event : EventType, n : {0, 1}]

\* The events between tail and head, oldest first.
Count == (head - tail) % KB_BUFFER_SIZE
Pending == [i \in 1 .. Count |-> events[(tail + i - 1) % KB_BUFFER_SIZE]]

Fifo == INSTANCE KeyFifo WITH Event <- EventType, Capacity <- KB_BUFFER_SIZE - 1,
                              queue <- Pending, taken <- last,
                              offered <- typed

\* The ring is a FIFO of KB_BUFFER_SIZE - 1 events: across any number of turns
\* of the indices the events are what was done to the keys, in that order, none
\* is overwritten before the clock takes it or taken twice, and one is dropped
\* exactly when all the slots but one are taken.
FifoSpec == Fifo!FifoSpec
=============================================================================
