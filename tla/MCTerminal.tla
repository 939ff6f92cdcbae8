---------------------------- MODULE MCTerminal ------------------------------
(* Terminal for TLC: calls at the edges of pages, chunks and the table. *)
EXTENDS Terminal

C(k, n, fd, addr, size) == [kernel |-> k, n |-> n, fd |-> fd, addr |-> addr, size |-> size]

\* Pages of four bytes: 1 is the kernel's, 2 and 3 the user's.
MCCalls ==
  {C("GAME", WRITE, 1, a, 5) : a \in {11, 30}}
  \cup {C("GAME", n, 1, 8, 0) : n \in {EXIT, 36}}
  \cup {C("GAME", POLL, 1, a, 0) : a \in {4, 12, 13}}
  \cup {C(k, WRITE, 1, a, s) : k \in {"Ex2", "E1", "base"}, a \in {0, 4, 7, 8, 11, 15, 31},
                               s \in {-1, 0, 1, 2, 5, 8}}
  \cup {C("Ex2", GET_STATS, pid, a, 0) : pid \in {-1, 1}, a \in {4, 12, 14}}
  \cup {C(k, n, 1, 8, 0) : k \in {"Ex2", "E1", "base"}, n \in {EXIT, FORK, GETTIME, BLOCK, YIELD, GETPID}}
  \cup {C(k, n, fd, 9, 3) : k \in {"Ex2", "E1", "base"}, fd \in {0, 1}, n \in {-1, 0, WRITE, 21, 22, 36, 37}}
=============================================================================
