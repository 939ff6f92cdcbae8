----------------------------- MODULE ListQueues -----------------------------
(***************************************************************************)
(* Several lists and the entries that move between them through list.c,    *)
(* beside the sequences the kernel means them to be.  The kernel's         *)
(* discipline is the guard of each action: an entry is added only while it *)
(* is in no list (sched.c unlinks it first) and deleted only while it is   *)
(* in one.                                                                 *)
(***************************************************************************)
EXTENDS ListHead, FiniteSets, SequencesExt

CONSTANTS Entry, Heads      \* node addresses

ASSUME NodesAssumption ==
    Entry \subseteq Nat /\ Heads \subseteq Nat /\ Entry \cap Heads = {}
      /\ IsFiniteSet(Entry) /\ IsFiniteSet(Heads)

VARIABLES
    heap,       \* the links
    lists       \* not in the code: lists[h] is the sequence of entries meant

lqVars == <<heap, lists>>

Nodes == Entry \cup Heads \cup {NULL}
Linked(h) == {lists[h][i] : i \in DOMAIN lists[h]}
InSome(e) == \E h \in Heads : e \in Linked(h)

\* INIT_LIST_HEAD of every head; the PCBs are zero.
LQInit ==
    /\ heap = [x \in Nodes |-> IF x \in Heads THEN [next |-> x, prev |-> x]
                               ELSE [next |-> NULL, prev |-> NULL]]
    /\ lists = [h \in Heads |-> <<>>]

AddFirst(e, h) ==
    /\ ~InSome(e)
    /\ heap' = list_add(heap, e, h)
    /\ lists' = [lists EXCEPT ![h] = <<e>> \o @]

AddLast(e, h) ==
    /\ ~InSome(e)
    /\ heap' = list_add_tail(heap, e, h)
    /\ lists' = [lists EXCEPT ![h] = Append(@, e)]

\* list_del needs no head: it works wherever the entry is.
Delete(e) ==
    /\ \E h \in Heads : \E i \in DOMAIN lists[h] :
         /\ lists[h][i] = e
         /\ lists' = [lists EXCEPT ![h] = RemoveAt(@, i)]
    /\ heap' = list_del(heap, e)

TakeFirst(h) ==
    /\ ~list_empty(heap, h)
    /\ lists[h] # <<>>
    /\ heap' = list_del(heap, list_first(heap, h))
    /\ lists' = [lists EXCEPT ![h] = Tail(@)]

\* INIT_LIST_HEAD of a head whose list is empty (a new process's children).
Reset(h) ==
    /\ lists[h] = <<>>
    /\ heap' = INIT_LIST_HEAD(heap, h)
    /\ UNCHANGED lists

LQNext == \/ \E e \in Entry, h \in Heads : AddFirst(e, h) \/ AddLast(e, h)
          \/ \E e \in Entry : Delete(e)
          \/ \E h \in Heads : TakeFirst(h) \/ Reset(h)

LQSpec == LQInit /\ [][LQNext]_lqVars

-----------------------------------------------------------------------------
Turns == Cardinality(Entry) + 1

\* Whatever sequence of operations was made, walking any list forwards gives
\* its entries in order, walking it backwards gives them in reverse, both walks
\* end, and list_empty and list_is_last agree with them.
LinksAreLists ==
    \A h \in Heads :
      /\ ForEach(heap, h, Turns) = lists[h]
      /\ Ends(heap, h, Turns)
      /\ ForEachBack(heap, h, Turns) = Reverse(lists[h])
      /\ list_empty(heap, h) <=> lists[h] = <<>>
      /\ \A e \in Linked(h) : list_is_last(heap, e, h) <=> lists[h][Len(lists[h])] = e

\* An entry in no list points nowhere, so a second list_del of it would go
\* through NULL; no operation of the discipline writes through NULL.
FreeEntriesUnlinked ==
    /\ \A e \in Entry : ~InSome(e) => heap[e] = [next |-> NULL, prev |-> NULL]
    /\ heap[NULL] = [next |-> NULL, prev |-> NULL]
=============================================================================
