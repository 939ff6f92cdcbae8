------------------------------- MODULE KeyFifo -------------------------------
(***************************************************************************)
(* What the keyboard buffer promises: events come out in the order they    *)
(* went in, each once, and a new event is dropped exactly when Capacity of *)
(* them wait.                                                              *)
(***************************************************************************)
EXTENDS Naturals, Sequences

CONSTANTS Event, Capacity

VARIABLES
    queue,      \* events that wait, oldest first
    taken,      \* the last event taken, or <<>>
    offered     \* the last event that came, and the parity of their number

fifoVars == <<queue, taken, offered>>

FifoInit == queue = <<>> /\ taken = <<>> /\ offered.n = 0

Offer(e) == offered' = [event |-> e, n |-> 1 - offered.n] /\ UNCHANGED taken

Put(e) == Offer(e) /\ Len(queue) < Capacity /\ queue' = Append(queue, e)
Drop(e) == Offer(e) /\ Len(queue) = Capacity /\ UNCHANGED queue
Get == /\ queue # <<>>
       /\ taken' = <<Head(queue)>> /\ queue' = Tail(queue)
       /\ UNCHANGED offered

FifoNext == (\E e \in Event : Put(e) \/ Drop(e)) \/ Get
FifoSpec == FifoInit /\ [][FifoNext]_fifoVars
=============================================================================
