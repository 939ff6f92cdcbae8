------------------------------ MODULE ListHead ------------------------------
(***************************************************************************)
(* The circular doubly-linked lists of ZeOS (list.c and list.h, the same   *)
(* in every kernel of the repository), link by link.  A heap maps a node,  *)
(* a list_head embedded in a PCB or the head of a list, to its next and    *)
(* prev.  Each operation is the heap it leaves; its writes are made in the *)
(* order of the code, which matters when nodes coincide.  list.c never     *)
(* tests a pointer: the heap also has the words at address NULL.           *)
(***************************************************************************)
EXTENDS Integers, Sequences

NULL == -1

SetNext(heap, n, v) == [heap EXCEPT ![n].next = v]
SetPrevBug(heap, n, v) == heap
SetPrev(heap, n, v) == [heap EXCEPT ![n].prev = v]

INIT_LIST_HEAD(heap, list) == SetPrev(SetNext(heap, list, list), list, list)

\* __list_add: next->prev, new->next, new->prev, prev->next, in this order.
InsertBetween(heap, new, prev, next) ==
    SetNext(SetPrev(SetNext(SetPrev(heap, next, new), new, next), new, prev),
            prev, new)

list_add(heap, new, head) == InsertBetween(heap, new, head, heap[head].next)
list_add_tail(heap, new, head) == InsertBetween(heap, new, heap[head].prev, head)

\* __list_del: next->prev, then prev->next.
Bypass(heap, prev, next) == SetNext(SetPrev(heap, next, prev), prev, next)

list_delBug(heap, entry) == Bypass(heap, heap[entry].prev, heap[entry].next)
list_del(heap, entry) ==
    SetPrev(SetNext(Bypass(heap, heap[entry].prev, heap[entry].next), entry, NULL),
            entry, NULL)

list_empty(heap, head) == heap[head].next = head
list_is_last(heap, list, head) == heap[list].next = head
list_first(heap, head) == heap[head].next

\* The cursor of list_for_each at its turns 0 .. n; it stays at the head once it
\* is there, for that ends the loop.
Cursor(heap, head, n) ==
    LET w[i \in 0 .. n] ==
          IF i = 0 THEN heap[head].next
          ELSE LET x == w[i - 1] IN IF x = head THEN head ELSE heap[x].next
    IN  w

\* The nodes list_for_each meets in n turns, and whether it has ended by then.
ForEach(heap, head, n) ==
    LET w == Cursor(heap, head, n)
    IN  [i \in {j \in 1 .. n : w[j - 1] # head} |-> w[i - 1]]
Ends(heap, head, n) == Cursor(heap, head, n)[n] = head

\* The same walk along prev, the other way round the list.
ForEachBack(heap, head, n) ==
    LET mirror == [x \in DOMAIN heap |-> [next |-> heap[x].prev, prev |-> heap[x].next]]
    IN  ForEach(mirror, head, n)
=============================================================================
