---------------------------- MODULE E1MemoryProofs ----------------------------
(***************************************************************************)
(* Proofs about E1Memory: every process keeps its own memory, the TLB has  *)
(* no stale translation when user code runs, and no frame is lost or used  *)
(* twice.                                                                  *)
(***************************************************************************)
EXTENDS E1Memory, FiniteSetTheorems, TLAPS

Frames == 0 .. TOTAL_PAGES - 1
Scanned == {f \in NUM_PAG_KERNEL .. TOTAL_PAGES - 1 : (f - NUM_PAG_KERNEL) % 2 = 0}
Kept == MonoFrames \cup CodeFrames
\* The frames alloc_frame hands out after boot, and those task 1 got before.
Pool == Scanned \ Kept
Contents == Values \cup {0}
EntryType == [frame : Frames, user : BOOLEAN, rw : BOOLEAN, present : BOOLEAN]
DataFrame(t, n) == pt[t][PAG_LOG_INIT_DATA + n].frame
DataPresent(t, n) == pt[t][PAG_LOG_INIT_DATA + n].present

EmTypeOK ==
  /\ pt \in [Tasks -> [Pages -> EntryType]]
  /\ freequeue \in Seq(Tasks) /\ live \subseteq Tasks /\ current \in live \cup {idle_task}
  /\ DOMAIN tlb \subseteq Pages
  /\ mem \in [Frames -> Contents]
  /\ todo \in {"none", "alloc", "copy"}
  /\ i \in 0 .. NUM_PAG_DATA
  /\ new_frames \in Seq(Pool)
  /\ view \in [Tasks -> [Index -> Contents]]

\* A PCB is alive, free, idle or the child of a fork, and only one of these.
Places ==
  /\ \A m, n \in 1 .. Len(freequeue) : freequeue[m] = freequeue[n] => m = n
  /\ \A m \in 1 .. Len(freequeue) : freequeue[m] \notin live \cup {idle_task}
  /\ idle_task \notin live
  /\ todo # "none" =>
       /\ current \in live
       /\ child \in Tasks \ (live \cup {idle_task})
       /\ \A m \in 1 .. Len(freequeue) : freequeue[m] # child

\* Every data page of a live process has a frame of the pool to itself.
OwnFrames ==
  /\ \A t \in live, n \in Index : DataPresent(t, n) /\ DataFrame(t, n) \in Pool
  /\ \A t, u \in live, m, n \in Index : DataFrame(t, m) = DataFrame(u, n) => t = u /\ m = n

\* And so has what the fork under way took.
NewFrames ==
  /\ \A m, n \in 1 .. Len(new_frames) : new_frames[m] = new_frames[n] => m = n
  /\ \A m \in 1 .. Len(new_frames), t \in live, n \in Index : new_frames[m] # DataFrame(t, n)

DataFrames == {DataFrame(t, n) : t \in live, n \in Index}
TakenFrames == {new_frames[m] : m \in 1 .. Len(new_frames)}

Marked == phys_mem = (0 .. NUM_PAG_KERNEL - 1) \cup Kept \cup DataFrames \cup TakenFrames

\* How far the fork has come: what the child already has.
ForkAt ==
  /\ todo = "none" => new_frames = << >>
  /\ todo = "alloc" => Len(new_frames) = i
  /\ todo = "copy" =>
       /\ Len(new_frames) = NUM_PAG_DATA
       /\ \A n \in Index : DataPresent(child, n) /\ DataFrame(child, n) = new_frames[n + 1]
       /\ \A n \in 0 .. i - 1 : mem[new_frames[n + 1]] = view[current][n]

\* The TLB agrees with the page table, but for the temporary pages of the fork
\* that have been used.
TlbSound ==
  current # idle_task =>
    \A p \in DOMAIN tlb :
      \/ p < TOTAL_SPACE /\ pt[current][p].present /\ tlb[p] = pt[current][p].frame
      \/ p >= TOTAL_SPACE /\ todo = "copy" /\ p < TOTAL_SPACE + i

\* Together with MemoryIsMine these are inductive.
EmInv == EmTypeOK /\ Places /\ OwnFrames /\ NewFrames /\ Marked /\ ForkAt /\ TlbSound
         /\ MemoryIsMine

-----------------------------------------------------------------------------
(* Numbers, pages and frames. *)

LEMMA Sizes ==
  /\ NR_TASKS \in Nat /\ NR_TASKS >= 3
  /\ NUM_PAG_KERNEL \in Nat /\ NUM_PAG_KERNEL > 0
  /\ NUM_PAG_CODE \in Nat /\ NUM_PAG_CODE > 0
  /\ NUM_PAG_DATA \in Nat /\ NUM_PAG_DATA > 0
  /\ TOTAL_PAGES \in Nat
  /\ TOTAL_PAGES > NUM_PAG_KERNEL + 4 * (NUM_PAG_CODE + NUM_PAG_DATA)
BY E1MemoryAssumption

LEMMA TaskFacts ==
  /\ idle_task \in Tasks /\ task1 \in Tasks /\ 0 \in Tasks
  /\ idle_task # task1 /\ idle_task # 0 /\ task1 # 0
BY Sizes DEF Tasks, idle_task, task1

LEMMA PageFacts ==
  /\ \A n \in Index : /\ n \in Int /\ PAG_LOG_INIT_DATA + n \in DataPages
                      /\ TempPage(n) \in Pages /\ TempPage(n) \in Int
                      /\ TempPage(n) >= TOTAL_SPACE
                      /\ TempPage(n) \notin DataPages
  /\ \A p \in DataPages : /\ p - PAG_LOG_INIT_DATA \in Index
                          /\ PAG_LOG_INIT_DATA + (p - PAG_LOG_INIT_DATA) = p
                          /\ p \in Pages /\ p < TOTAL_SPACE
                          /\ p \notin (0 .. NUM_PAG_KERNEL - 1) \cup CodePages
  /\ \A m, n \in Index : PAG_LOG_INIT_DATA + m = PAG_LOG_INIT_DATA + n => m = n
  /\ Pages \subseteq Int /\ TOTAL_SPACE \in Int /\ PAG_LOG_INIT_DATA \in Int
  /\ Index \subseteq Int
BY Sizes DEF Index, PAG_LOG_INIT_DATA, PAG_LOG_INIT_CODE, DataPages, CodePages, Pages,
             TempPage, TOTAL_SPACE

LEMMA NthFacts ==
  /\ \A n \in Nat : Nth(n) \in Nat /\ Nth(n) >= NUM_PAG_KERNEL
                    /\ (Nth(n) - NUM_PAG_KERNEL) % 2 = 0
  /\ \A m, n \in Nat : Nth(m) = Nth(n) => m = n
  /\ \A n \in 0 .. 2 * (NUM_PAG_CODE + NUM_PAG_DATA) - 1 : n \in Nat /\ Nth(n) \in Scanned
<1>1. \A n \in Nat : Nth(n) \in Nat /\ Nth(n) >= NUM_PAG_KERNEL
                     /\ (Nth(n) - NUM_PAG_KERNEL) % 2 = 0
  BY Sizes DEF Nth
<1>2. \A m, n \in Nat : Nth(m) = Nth(n) => m = n
  BY Sizes DEF Nth
<1>3. \A n \in 0 .. 2 * (NUM_PAG_CODE + NUM_PAG_DATA) - 1 : n \in Nat /\ Nth(n) < TOTAL_PAGES
  BY Sizes DEF Nth
<1> QED BY <1>1, <1>2, <1>3, Sizes DEF Scanned

LEMMA PoolFacts ==
  /\ Pool \subseteq Frames /\ Kept \subseteq Frames
  /\ \A f \in Pool : /\ f \in Int /\ f > NUM_PAG_KERNEL /\ f < TOTAL_PAGES
                     /\ f \notin 0 .. NUM_PAG_KERNEL - 1 /\ f \notin Kept
  /\ \A f \in Kept : f \notin 0 .. NUM_PAG_KERNEL - 1
<1>1. NUM_PAG_KERNEL \in Kept
  <2>1. Nth(0) = NUM_PAG_KERNEL
    BY Sizes DEF Nth
  <2>2. 0 \in 0 .. NUM_PAG_CODE + NUM_PAG_DATA - 1
    BY Sizes
  <2> QED BY <2>1, <2>2 DEF Kept, MonoFrames
<1>2. \A f \in Scanned : f \in Int /\ f >= NUM_PAG_KERNEL /\ f < TOTAL_PAGES
  BY Sizes DEF Scanned
<1>3. Kept \subseteq Scanned
  <2>1. \A n \in 0 .. NUM_PAG_CODE + NUM_PAG_DATA - 1 : Nth(n) \in Scanned
    BY NthFacts, Sizes
  <2>2. \A n \in NUM_PAG_CODE + NUM_PAG_DATA .. 2 * NUM_PAG_CODE + NUM_PAG_DATA - 1 : Nth(n) \in Scanned
    BY NthFacts, Sizes
  <2> QED BY <2>1, <2>2 DEF Kept, MonoFrames, CodeFrames
<1> QED BY <1>1, <1>2, <1>3, Sizes DEF Pool, Frames

\* get_frame of every data page of every live process.
LEMMA DataFramesAre ==
  DataFrames = {get_frame(pt[t], p) : t \in live, p \in DataPages}
<1> DEFINE R == {get_frame(pt[t], p) : t \in live, p \in DataPages}
<1>1. ASSUME NEW t \in live, NEW n \in Index PROVE DataFrame(t, n) \in R
  <2>1. PAG_LOG_INIT_DATA + n \in DataPages
    BY PageFacts
  <2> QED BY <2>1 DEF DataFrame, get_frame
<1>2. ASSUME NEW t \in live, NEW p \in DataPages PROVE get_frame(pt[t], p) \in DataFrames
  <2>1. p - PAG_LOG_INIT_DATA \in Index /\ PAG_LOG_INIT_DATA + (p - PAG_LOG_INIT_DATA) = p
    BY PageFacts
  <2>2. get_frame(pt[t], p) = DataFrame(t, p - PAG_LOG_INIT_DATA)
    BY <2>1 DEF DataFrame, get_frame
  <2> QED BY <2>1, <2>2 DEF DataFrames
<1> QED BY <1>1, <1>2 DEF DataFrames

\* Any set of numbers that is not empty has a least one.
LEMMA Least ==
  ASSUME NEW T, T \subseteq Nat, T # {}
  PROVE  Min(T) \in T
<1>1. PICK m \in T : \A k \in T : ~(<<k, m>> \in OpToRel(<, Nat))
  BY WFMin, NatLessThanWellFounded
<1>2. \A k \in T : ~(k < m)
  BY <1>1 DEF OpToRel
<1>3. \A k \in T : m <= k
  BY <1>2
<1> QED BY <1>3 DEF Min

\* alloc_frame marks a frame of the pool that nobody has, or fails.
LEMMA AllocFacts ==
  ASSUME Marked, alloc_frame # -1
  PROVE  alloc_frame \in Pool /\ alloc_frame \notin DataFrames \cup TakenFrames
<1> DEFINE free == {f \in NUM_PAG_KERNEL .. TOTAL_PAGES - 1 :
                      (f - NUM_PAG_KERNEL) % 2 = 0 /\ f \notin phys_mem}
<1>1. free # {} /\ alloc_frame = Min(free)
  BY DEF alloc_frame
<1>2. free \subseteq Nat
  BY Sizes
<1>3. Min(free) \in free
  BY <1>1, <1>2, Least
<1> QED BY <1>1, <1>3 DEF Marked, Pool, Scanned

-----------------------------------------------------------------------------
LEMMA EntryFacts ==
  /\ NoEntry \in EntryType
  /\ \A f \in Frames : /\ Entry(f, TRUE, TRUE) \in EntryType
                       /\ Entry(f, TRUE, FALSE) \in EntryType
                       /\ Entry(f, FALSE, TRUE) \in EntryType
                       /\ Entry(f, TRUE, TRUE).frame = f /\ Entry(f, TRUE, TRUE).present
                       /\ Entry(f, TRUE, FALSE).frame = f
BY Sizes DEF EntryType, Entry, NoEntry, Frames

LEMMA BootTables ==
  /\ KernelTable \in [Pages -> EntryType]
  /\ \A first \in {0, NUM_PAG_CODE + NUM_PAG_DATA} :
       /\ UserTable(first) \in [Pages -> EntryType]
       /\ \A n \in Index : UserTable(first)[PAG_LOG_INIT_DATA + n]
                             = Entry(Nth(first + NUM_PAG_CODE + n), TRUE, TRUE)
<1>1. KernelTable \in [Pages -> EntryType]
  <2>1. \A p \in 1 .. NUM_PAG_KERNEL - 1 : p \in Frames
    BY Sizes DEF Frames
  <2>2. \A p \in Pages : (IF p \in 1 .. NUM_PAG_KERNEL - 1 THEN Entry(p, FALSE, TRUE) ELSE NoEntry) \in EntryType
    BY <2>1, EntryFacts
  <2> QED BY <2>2 DEF KernelTable
<1>2. ASSUME NEW first \in {0, NUM_PAG_CODE + NUM_PAG_DATA}
      PROVE  /\ UserTable(first) \in [Pages -> EntryType]
             /\ \A n \in Index : UserTable(first)[PAG_LOG_INIT_DATA + n]
                                   = Entry(Nth(first + NUM_PAG_CODE + n), TRUE, TRUE)
  <2>1. \A p \in CodePages : Nth(first + p - PAG_LOG_INIT_CODE) \in Frames
    BY Sizes DEF Frames, Nth, CodePages, PAG_LOG_INIT_CODE, PAG_LOG_INIT_DATA
  <2>2. \A p \in DataPages : Nth(first + NUM_PAG_CODE + p - PAG_LOG_INIT_DATA) \in Frames
    BY Sizes DEF Frames, Nth, DataPages, PAG_LOG_INIT_DATA
  <2>3. ASSUME NEW p \in Pages PROVE UserTable(first)[p] \in EntryType
    <3>1. CASE p \in CodePages
      <4>1. UserTable(first)[p] = Entry(Nth(first + p - PAG_LOG_INIT_CODE), TRUE, FALSE)
        BY <3>1, PageFacts DEF UserTable
      <4> QED BY <2>1, <3>1, <4>1, EntryFacts
    <3>2. CASE p \in DataPages
      <4>1. UserTable(first)[p] = Entry(Nth(first + NUM_PAG_CODE + p - PAG_LOG_INIT_DATA), TRUE, TRUE)
        BY <3>2, PageFacts DEF UserTable
      <4> QED BY <2>2, <3>2, <4>1, EntryFacts
    <3>3. CASE p \notin CodePages /\ p \notin DataPages
      <4>1. UserTable(first)[p] = KernelTable[p]
        BY <3>3 DEF UserTable
      <4> QED BY <1>1, <4>1
    <3> QED BY <3>1, <3>2, <3>3
  <2>4. UserTable(first) \in [Pages -> EntryType]
    BY <2>3 DEF UserTable
  <2>5. ASSUME NEW n \in Index
        PROVE UserTable(first)[PAG_LOG_INIT_DATA + n] = Entry(Nth(first + NUM_PAG_CODE + n), TRUE, TRUE)
    <3> DEFINE p == PAG_LOG_INIT_DATA + n
    <3>1. p \in DataPages /\ p \in Pages /\ p \notin CodePages
      BY PageFacts
    <3>2. first + NUM_PAG_CODE + p - PAG_LOG_INIT_DATA = first + NUM_PAG_CODE + n
      BY Sizes, PageFacts
    <3> HIDE DEF p
    <3>3. UserTable(first)[p] = Entry(Nth(first + NUM_PAG_CODE + p - PAG_LOG_INIT_DATA), TRUE, TRUE)
      BY <3>1 DEF UserTable
    <3> QED BY <3>2, <3>3 DEF p
  <2> QED BY <2>4, <2>5
<1> QED BY <1>1, <1>2

LEMMA EmInit == Init => EmInv
<1> SUFFICES ASSUME Init PROVE EmInv
  OBVIOUS
<1> DEFINE first == NUM_PAG_CODE + NUM_PAG_DATA
           boot(n) == Nth(first + NUM_PAG_CODE + n)
<1>1. /\ pt[0] = UserTable(0) /\ pt[task1] = UserTable(first)
      /\ \A t \in Tasks \ {0, task1} : pt[t] = KernelTable
      /\ live = {task1} /\ current = task1
  BY TaskFacts DEF Init
<1>2. pt \in [Tasks -> [Pages -> EntryType]]
  <2>1. \A t \in Tasks : pt[t] \in [Pages -> EntryType]
    BY <1>1, BootTables
  <2>2. pt = [t \in Tasks |-> pt[t]]
    BY DEF Init
  <2> QED BY <2>1, <2>2
<1>3. \A n \in Index : /\ boot(n) \in Scanned /\ boot(n) \in Pool
                       /\ DataPresent(task1, n) /\ DataFrame(task1, n) = boot(n)
  <2> SUFFICES ASSUME NEW n \in Index
               PROVE  /\ boot(n) \in Scanned /\ boot(n) \in Pool
                      /\ DataPresent(task1, n) /\ DataFrame(task1, n) = boot(n)
    OBVIOUS
  <2>1. first + NUM_PAG_CODE + n \in 0 .. 2 * (NUM_PAG_CODE + NUM_PAG_DATA) - 1
    BY Sizes DEF Index
  <2>2. boot(n) \in Scanned
    BY <2>1, NthFacts
  <2>3. \A m \in 0 .. 2 * NUM_PAG_CODE + NUM_PAG_DATA - 1 : Nth(m) # boot(n)
    <3>1. \A m \in 0 .. 2 * NUM_PAG_CODE + NUM_PAG_DATA - 1 :
             m \in Nat /\ m # first + NUM_PAG_CODE + n /\ first + NUM_PAG_CODE + n \in Nat
      BY Sizes DEF Index
    <3> QED BY <3>1, NthFacts
  <2>4. boot(n) \notin Kept
    <3>1. \A m \in 0 .. NUM_PAG_CODE + NUM_PAG_DATA - 1 : m \in 0 .. 2 * NUM_PAG_CODE + NUM_PAG_DATA - 1
      BY Sizes
    <3>2. \A m \in NUM_PAG_CODE + NUM_PAG_DATA .. 2 * NUM_PAG_CODE + NUM_PAG_DATA - 1 :
             m \in 0 .. 2 * NUM_PAG_CODE + NUM_PAG_DATA - 1
      BY Sizes
    <3> HIDE DEF boot
    <3> QED BY <2>3, <3>1, <3>2 DEF Kept, MonoFrames, CodeFrames
  <2>5. boot(n) \in Frames
    BY <2>2, Sizes DEF Scanned, Frames
  <2>6. pt[task1][PAG_LOG_INIT_DATA + n] = Entry(boot(n), TRUE, TRUE)
    BY <1>1, BootTables
  <2> HIDE DEF boot
  <2> QED BY <2>2, <2>4, <2>5, <2>6, EntryFacts DEF Pool, DataPresent, DataFrame
<1>4. \A m, n \in Index : boot(m) = boot(n) => m = n
  <2>1. \A m, n \in Index : /\ first + NUM_PAG_CODE + m \in Nat
                            /\ first + NUM_PAG_CODE + n \in Nat
                            /\ (first + NUM_PAG_CODE + m = first + NUM_PAG_CODE + n => m = n)
    BY Sizes DEF Index
  <2> QED BY <2>1, NthFacts
<1> HIDE DEF boot
<1>5. OwnFrames
  BY <1>1, <1>3, <1>4 DEF OwnFrames
<1>6. Len(new_frames) = 0 /\ new_frames = << >> /\ todo = "none"
  BY DEF Init
<1>7. NewFrames /\ ForkAt
  BY <1>6 DEF NewFrames, ForkAt
<1>8. Marked
  <2>1. TakenFrames = {}
    BY <1>6 DEF TakenFrames
  <2>2. BootFrames \subseteq Kept \cup DataFrames
    <3> SUFFICES ASSUME NEW n \in 0 .. 2 * (NUM_PAG_CODE + NUM_PAG_DATA) - 1
                 PROVE  Nth(n) \in Kept \cup DataFrames
      BY DEF BootFrames
    <3>1. CASE n < 2 * NUM_PAG_CODE + NUM_PAG_DATA
      <4>1. \/ n \in 0 .. NUM_PAG_CODE + NUM_PAG_DATA - 1
            \/ n \in NUM_PAG_CODE + NUM_PAG_DATA .. 2 * NUM_PAG_CODE + NUM_PAG_DATA - 1
        BY <3>1, Sizes
      <4> QED BY <4>1 DEF Kept, MonoFrames, CodeFrames
    <3>2. CASE n >= 2 * NUM_PAG_CODE + NUM_PAG_DATA
      <4> DEFINE m == n - (2 * NUM_PAG_CODE + NUM_PAG_DATA)
      <4>1. m \in Index /\ first + NUM_PAG_CODE + m = n
        BY <3>2, Sizes DEF Index
      <4>2. Nth(n) = boot(m)
        BY <4>1 DEF boot
      <4> HIDE DEF m
      <4> QED BY <1>1, <1>3, <4>1, <4>2 DEF DataFrames
    <3> QED BY <3>1, <3>2, Sizes
  <2>3. Kept \subseteq BootFrames
    <3>1. \A m \in 0 .. NUM_PAG_CODE + NUM_PAG_DATA - 1 : m \in 0 .. 2 * (NUM_PAG_CODE + NUM_PAG_DATA) - 1
      BY Sizes
    <3>2. \A m \in NUM_PAG_CODE + NUM_PAG_DATA .. 2 * NUM_PAG_CODE + NUM_PAG_DATA - 1 :
             m \in 0 .. 2 * (NUM_PAG_CODE + NUM_PAG_DATA) - 1
      BY Sizes
    <3> QED BY <3>1, <3>2 DEF Kept, MonoFrames, CodeFrames, BootFrames
  <2>4. DataFrames \subseteq BootFrames
    <3>1. \A n \in Index : first + NUM_PAG_CODE + n \in 0 .. 2 * (NUM_PAG_CODE + NUM_PAG_DATA) - 1
      BY Sizes DEF Index
    <3>2. \A n \in Index : boot(n) \in BootFrames
      BY <3>1 DEF boot, BootFrames
    <3> QED BY <1>1, <1>3, <3>2 DEF DataFrames
  <2> QED BY <2>1, <2>2, <2>3, <2>4 DEF Marked, Init
<1>9. freequeue \in Seq(Tasks) /\ Len(freequeue) = NR_TASKS - 2
      /\ \A n \in 1 .. NR_TASKS - 2 : freequeue[n] = NR_TASKS - 2 - n
  <2>1. NR_TASKS - 2 \in Nat /\ \A n \in 1 .. NR_TASKS - 2 : NR_TASKS - 2 - n \in Tasks
    BY Sizes DEF Tasks
  <2>2. freequeue = [n \in 1 .. NR_TASKS - 2 |-> NR_TASKS - 2 - n]
    BY DEF Init
  <2> QED BY <2>1, <2>2
<1>10. Places
  BY <1>1, <1>6, <1>9, Sizes, TaskFacts DEF Places, task1, idle_task
<1>11. MemoryIsMine
  <2>1. ASSUME NEW n \in Index PROVE mem[DataFrame(task1, n)] = view[task1][n]
    <3>1. DataFrame(task1, n) \in Frames
      BY <1>3, PoolFacts
    <3> QED BY <3>1, TaskFacts DEF Init, Frames
  <2> QED BY <1>1, <2>1 DEF MemoryIsMine, DataFrame, get_frame
<1>12. TlbSound
  BY DEF Init, TlbSound, Flushed
<1>13. EmTypeOK
  <2>1. mem \in [Frames -> Contents] /\ view \in [Tasks -> [Index -> Contents]]
    BY DEF Init, Frames, Contents
  <2>2. new_frames \in Seq(Pool)
    BY <1>6
  <2>3. DOMAIN tlb \subseteq Pages
    BY DEF Init, Flushed
  <2>4. i \in 0 .. NUM_PAG_DATA
    BY Sizes DEF Init
  <2> QED BY <1>1, <1>2, <1>6, <1>9, <2>1, <2>2, <2>3, <2>4, TaskFacts DEF EmTypeOK
<1> QED BY <1>5, <1>7, <1>8, <1>10, <1>11, <1>12, <1>13 DEF EmInv

-----------------------------------------------------------------------------
(* One step. *)

\* What user code and the copies of fork reach through the TLB.
LEMMA TranslateFacts ==
  ASSUME EmInv, current # idle_task, NEW n \in Index,
         NEW tab, tab[PAG_LOG_INIT_DATA + n] = pt[current][PAG_LOG_INIT_DATA + n]
  PROVE  Translate(tab, PAG_LOG_INIT_DATA + n) = DataFrame(current, n)
<1>1. PAG_LOG_INIT_DATA + n < TOTAL_SPACE /\ PAG_LOG_INIT_DATA + n \in Int /\ TOTAL_SPACE \in Int
  BY PageFacts
<1> QED BY <1>1 DEF Translate, EmInv, TlbSound, get_frame, DataFrame

LEMMA StoreStep == ASSUME EmInv, NEW p \in DataPages, NEW v \in Values, Store(p, v) PROVE EmInv'
<1> DEFINE n == p - PAG_LOG_INIT_DATA
           f == DataFrame(current, n)
<1>1. n \in Index /\ PAG_LOG_INIT_DATA + n = p /\ p \in Pages /\ p < TOTAL_SPACE
  BY PageFacts
<1>2. /\ todo = "none" /\ current # idle_task /\ current \in live /\ current \in Tasks
      /\ UNCHANGED << phys_mem, pt, freequeue, live, current, fork >>
      /\ UNCHANGED << child, todo, i, new_frames >>
  BY DEF Store, InUserCode, EmInv, EmTypeOK, fork
<1>3. f \in Pool /\ f \in Frames /\ DataPresent(current, n)
  BY <1>1, <1>2, PoolFacts DEF EmInv, OwnFrames
<1>4. Translate(pt[current], p) = f
  BY <1>1, <1>2, TranslateFacts
<1>5. mem' = [mem EXCEPT ![f] = v] /\ view' = [view EXCEPT ![current][n] = v]
  BY <1>4 DEF Store
<1> HIDE DEF n, f
<1>6. mem \in [Frames -> Contents] /\ view \in [Tasks -> [Index -> Contents]] /\ v \in Contents
  BY DEF EmInv, EmTypeOK, Contents
<1>7. mem' \in [Frames -> Contents] /\ view' \in [Tasks -> [Index -> Contents]]
  BY <1>1, <1>2, <1>3, <1>5, <1>6
<1>8. tlb' = Cached(pt[current], {p})
  BY DEF Store
<1>9. DOMAIN tlb' = DOMAIN tlb \cup {p} /\ \A q \in DOMAIN tlb' : tlb'[q] = Translate(pt[current], q)
  BY <1>8 DEF Cached
<1>10. EmTypeOK'
  BY <1>1, <1>2, <1>7, <1>9 DEF EmInv, EmTypeOK
<1>11. Places' /\ OwnFrames' /\ NewFrames' /\ Marked'
  BY <1>2 DEF EmInv, Places, OwnFrames, NewFrames, Marked, DataFrame, DataPresent,
              DataFrames, TakenFrames
<1>12. ForkAt'
  BY <1>2 DEF EmInv, ForkAt
<1>13. TlbSound'
  <2>1. tlb'[p] = pt[current][p].frame /\ pt[current][p].present
    BY <1>1, <1>3, <1>4, <1>9 DEF DataFrame, DataPresent, n, f
  <2>2. \A q \in DOMAIN tlb : tlb'[q] = tlb[q]
    BY <1>9 DEF Translate
  <2> QED BY <1>1, <1>2, <1>9, <2>1, <2>2 DEF EmInv, TlbSound
<1>14. MemoryIsMine'
  <2> SUFFICES ASSUME NEW t \in live, NEW m \in Index
               PROVE  mem'[DataFrame(t, m)] = view'[t][m]
    BY <1>2 DEF MemoryIsMine, DataFrame, get_frame
  <2>1. /\ DataFrame(t, m) \in Frames /\ t \in Tasks
        /\ mem[DataFrame(t, m)] = view[t][m]
        /\ (DataFrame(t, m) = f => t = current /\ m = n)
    BY <1>1, <1>2, PoolFacts DEF EmInv, EmTypeOK, OwnFrames, MemoryIsMine, DataFrame, get_frame, f
  <2>2. CASE t = current /\ m = n
    BY <1>2, <1>3, <1>5, <1>6, <2>1, <2>2 DEF f
  <2>3. CASE ~(t = current /\ m = n)
    BY <1>2, <1>3, <1>5, <1>6, <2>1, <2>3
  <2> QED BY <2>2, <2>3
<1> QED BY <1>10, <1>11, <1>12, <1>13, <1>14 DEF EmInv

LEMMA ForkStep == ASSUME EmInv, sys_fork PROVE EmInv'
<1>1. /\ todo = "none" /\ current # idle_task /\ freequeue # << >>
      /\ child' = Head(freequeue) /\ freequeue' = Tail(freequeue)
      /\ todo' = "alloc" /\ i' = 0 /\ new_frames' = << >> /\ new_frames = << >>
      /\ UNCHANGED << phys_mem, pt, live, current, tlb, mem, view >>
  BY DEF sys_fork, InUserCode, EmInv, ForkAt
<1>2. freequeue \in Seq(Tasks) /\ current \in live
  BY <1>1 DEF EmInv, EmTypeOK
<1>3. /\ Tail(freequeue) \in Seq(Tasks) /\ Len(Tail(freequeue)) = Len(freequeue) - 1
      /\ Len(freequeue) \in Nat /\ Len(freequeue) >= 1 /\ Head(freequeue) = freequeue[1]
      /\ \A m \in 1 .. Len(freequeue) - 1 : Tail(freequeue)[m] = freequeue[m + 1]
      /\ freequeue[1] \in Tasks
  BY <1>1, <1>2
<1>4. EmTypeOK'
  BY <1>1, <1>3, Sizes DEF EmInv, EmTypeOK
<1>5. Places'
  BY <1>1, <1>2, <1>3 DEF EmInv, Places
<1>6. OwnFrames' /\ MemoryIsMine' /\ NewFrames' /\ Marked'
  BY <1>1 DEF EmInv, OwnFrames, MemoryIsMine, NewFrames, Marked, DataFrame, DataPresent,
              DataFrames, TakenFrames
<1>7. ForkAt' /\ TlbSound'
  BY <1>1 DEF EmInv, ForkAt, TlbSound
<1> QED BY <1>4, <1>5, <1>6, <1>7 DEF EmInv

LEMMA AllocStep == ASSUME EmInv, AllocPage PROVE EmInv'
<1> DEFINE f == alloc_frame
<1>1. /\ todo = "alloc" /\ i < NUM_PAG_DATA /\ f # -1
      /\ phys_mem' = phys_mem \cup {f} /\ new_frames' = Append(new_frames, f) /\ i' = i + 1
      /\ UNCHANGED << pt, freequeue, live, current, tlb, mem, child, todo, view >>
  BY DEF AllocPage
<1>2. f \in Pool /\ f \notin DataFrames /\ f \notin TakenFrames
  BY <1>1, AllocFacts DEF EmInv
<1> HIDE DEF f
<1>3. new_frames \in Seq(Pool) /\ i \in 0 .. NUM_PAG_DATA /\ Len(new_frames) = i
  BY <1>1 DEF EmInv, EmTypeOK, ForkAt
<1>4. /\ new_frames' \in Seq(Pool) /\ Len(new_frames') = Len(new_frames) + 1
      /\ Len(new_frames) \in Nat
      /\ new_frames'[Len(new_frames) + 1] = f
      /\ \A m \in 1 .. Len(new_frames) : new_frames'[m] = new_frames[m]
  BY <1>1, <1>2, <1>3
<1>5. EmTypeOK'
  BY <1>1, <1>3, <1>4, Sizes DEF EmInv, EmTypeOK
<1>6. Places' /\ OwnFrames' /\ MemoryIsMine'
  BY <1>1 DEF EmInv, Places, OwnFrames, MemoryIsMine, DataFrame, DataPresent
<1>7. DataFrames' = DataFrames /\ TakenFrames' = TakenFrames \cup {f}
  <2>1. DataFrames' = DataFrames
    BY <1>1 DEF DataFrames, DataFrame
  <2>2. \A m : m \in 1 .. Len(new_frames') <=> m \in 1 .. Len(new_frames) \/ m = Len(new_frames) + 1
    BY <1>4
  <2> QED BY <1>4, <2>1, <2>2 DEF TakenFrames
<1>8. NewFrames'
  <2>1. \A m \in 1 .. Len(new_frames) : new_frames[m] # f
    BY <1>2 DEF TakenFrames
  <2>2. \A t \in live, n \in Index : f # DataFrame(t, n)
    BY <1>2 DEF DataFrames
  <2>3. ASSUME NEW m \in 1 .. Len(new_frames'), NEW n \in 1 .. Len(new_frames'),
               new_frames'[m] = new_frames'[n]
        PROVE  m = n
    <3>1. /\ m \in 1 .. Len(new_frames) \/ m = Len(new_frames) + 1
          /\ n \in 1 .. Len(new_frames) \/ n = Len(new_frames) + 1
      BY <1>4
    <3> QED BY <1>4, <2>1, <2>3, <3>1 DEF EmInv, NewFrames
  <2>4. ASSUME NEW m \in 1 .. Len(new_frames'), NEW t \in live, NEW n \in Index
        PROVE  new_frames'[m] # DataFrame(t, n)
    <3>1. m \in 1 .. Len(new_frames) \/ m = Len(new_frames) + 1
      BY <1>4
    <3> QED BY <1>4, <2>2, <3>1 DEF EmInv, NewFrames
  <2> QED BY <1>1, <2>3, <2>4 DEF NewFrames, DataFrame
<1>9. Marked'
  BY <1>1, <1>7 DEF EmInv, Marked
<1>10. ForkAt' /\ TlbSound'
  BY <1>1, <1>3, <1>4 DEF EmInv, ForkAt, TlbSound
<1> QED BY <1>5, <1>6, <1>8, <1>9, <1>10 DEF EmInv

LEMMA AllocFailsStep == ASSUME EmInv, AllocFails PROVE EmInv'
<1>1. /\ todo = "alloc" /\ phys_mem' = free_frame(phys_mem, Taken)
      /\ freequeue' = Append(freequeue, child)
      /\ todo' = "none" /\ i' = 0 /\ new_frames' = << >>
      /\ UNCHANGED << pt, live, current, tlb, mem, view >>
  BY DEF AllocFails
<1>2. freequeue \in Seq(Tasks) /\ child \in Tasks \ (live \cup {idle_task}) /\ Len(new_frames) = i
      /\ new_frames \in Seq(Pool)
  BY <1>1 DEF EmInv, EmTypeOK, Places, ForkAt
<1>3. /\ freequeue' \in Seq(Tasks) /\ Len(freequeue') = Len(freequeue) + 1
      /\ Len(freequeue) \in Nat
      /\ freequeue'[Len(freequeue) + 1] = child
      /\ \A m \in 1 .. Len(freequeue) : freequeue'[m] = freequeue[m]
  BY <1>1, <1>2
<1>4. EmTypeOK'
  BY <1>1, <1>3, Sizes DEF EmInv, EmTypeOK
<1>5. Places'
  <2>1. \A m \in 1 .. Len(freequeue') : m \in 1 .. Len(freequeue) \/ m = Len(freequeue) + 1
    BY <1>3
  <2> QED BY <1>1, <1>2, <1>3, <2>1 DEF EmInv, Places
<1>6. OwnFrames' /\ MemoryIsMine' /\ NewFrames' /\ ForkAt' /\ TlbSound'
  BY <1>1 DEF EmInv, OwnFrames, MemoryIsMine, NewFrames, DataFrame, DataPresent, ForkAt, TlbSound
<1>7. Marked'
  <2>1. Taken = TakenFrames
    BY <1>2 DEF Taken, TakenFrames
  <2>2. \A f \in TakenFrames : f \in Pool
    BY <1>2 DEF TakenFrames
  <2>3. free_frame(phys_mem, Taken) = phys_mem \ TakenFrames
    BY <2>1, <2>2, PoolFacts DEF free_frame
  <2>4. TakenFrames' = {} /\ DataFrames' = DataFrames
    BY <1>1 DEF TakenFrames, DataFrames, DataFrame
  <2>5. \A f \in TakenFrames : f \notin DataFrames
    BY DEF EmInv, NewFrames, TakenFrames, DataFrames
  <2> QED BY <1>1, <2>2, <2>3, <2>4, <2>5, PoolFacts DEF EmInv, Marked
<1> QED BY <1>4, <1>5, <1>6, <1>7 DEF EmInv

LEMMA MapStep == ASSUME EmInv, MapChild PROVE EmInv'
<1> DEFINE tab == [p \in Pages |->
              CASE p \in 0 .. NUM_PAG_KERNEL - 1 \cup CodePages -> Entry(get_frame(pt[current], p), TRUE, TRUE)
                [] p \in DataPages -> Entry(new_frames[p - PAG_LOG_INIT_DATA + 1], TRUE, TRUE)
                [] OTHER -> pt[child][p]]
<1>1. /\ todo = "alloc" /\ i = NUM_PAG_DATA /\ pt' = [pt EXCEPT ![child] = tab]
      /\ todo' = "copy" /\ i' = 0
      /\ UNCHANGED << phys_mem, freequeue, live, current, tlb, mem, child, new_frames, view >>
  BY DEF MapChild
<1>2. /\ pt \in [Tasks -> [Pages -> EntryType]] /\ new_frames \in Seq(Pool)
      /\ Len(new_frames) = NUM_PAG_DATA /\ current \in live /\ live \subseteq Tasks
      /\ child \in Tasks /\ child \notin live /\ child # idle_task
  BY <1>1 DEF EmInv, EmTypeOK, Places, ForkAt
<1>3. ASSUME NEW n \in Index
      PROVE  new_frames[n + 1] \in Frames /\ n + 1 \in 1 .. Len(new_frames)
  <2>1. n + 1 \in 1 .. Len(new_frames)
    BY <1>2, Sizes DEF Index
  <2> QED BY <1>2, <2>1, PoolFacts
<1>4. ASSUME NEW p \in DataPages
      PROVE  tab[p] = Entry(new_frames[p - PAG_LOG_INIT_DATA + 1], TRUE, TRUE) /\ tab[p] \in EntryType
  <2>1. p \in Pages /\ p \notin 0 .. NUM_PAG_KERNEL - 1 /\ p \notin CodePages
        /\ p - PAG_LOG_INIT_DATA \in Index
    BY PageFacts
  <2>2. tab[p] = Entry(new_frames[p - PAG_LOG_INIT_DATA + 1], TRUE, TRUE)
    BY <2>1
  <2> QED BY <1>3, <2>1, <2>2, EntryFacts
<1>5. tab \in [Pages -> EntryType]
  <2> SUFFICES ASSUME NEW p \in Pages PROVE tab[p] \in EntryType
    OBVIOUS
  <2>1. CASE p \in 0 .. NUM_PAG_KERNEL - 1 \cup CodePages
    <3>1. pt[current][p] \in EntryType
      BY <1>2
    <3>2. get_frame(pt[current], p) \in Frames
      BY <3>1 DEF get_frame, EntryType
    <3>3. tab[p] = Entry(get_frame(pt[current], p), TRUE, TRUE)
      BY <2>1, PageFacts
    <3> QED BY <3>2, <3>3, EntryFacts
  <2>2. CASE p \in DataPages
    BY <1>4, <2>2
  <2>3. CASE p \notin 0 .. NUM_PAG_KERNEL - 1 \cup CodePages /\ p \notin DataPages
    <3>1. tab[p] = pt[child][p]
      BY <2>3
    <3> QED BY <1>2, <3>1
  <2> QED BY <2>1, <2>2, <2>3
<1> HIDE DEF tab
<1>6. /\ pt' \in [Tasks -> [Pages -> EntryType]] /\ pt'[child] = tab
      /\ \A t \in live : pt'[t] = pt[t]
  BY <1>1, <1>2, <1>5
<1>7. EmTypeOK' /\ Places'
  <2>1. 0 \in 0 .. NUM_PAG_DATA
    BY Sizes
  <2>2. EmTypeOK'
    BY <1>1, <1>6, <2>1 DEF EmInv, EmTypeOK
  <2>3. Places'
    BY <1>1 DEF EmInv, Places
  <2> QED BY <2>2, <2>3
<1>8. \A t \in live : \A n \in Index : DataFrame(t, n)' = DataFrame(t, n)
                                        /\ DataPresent(t, n)' = DataPresent(t, n)
  BY <1>6 DEF DataFrame, DataPresent
<1>9. OwnFrames' /\ NewFrames'
  BY <1>1, <1>8 DEF EmInv, OwnFrames, NewFrames
<1>10. Marked'
  <2>1. DataFrames' = DataFrames /\ TakenFrames' = TakenFrames
    BY <1>1, <1>8 DEF DataFrames, TakenFrames
  <2> QED BY <1>1, <2>1 DEF EmInv, Marked
<1>11. ForkAt'
  <2>1. ASSUME NEW n \in Index
        PROVE  pt'[child][PAG_LOG_INIT_DATA + n] = Entry(new_frames[n + 1], TRUE, TRUE)
    <3> DEFINE p == PAG_LOG_INIT_DATA + n
    <3>1. p \in DataPages /\ p - PAG_LOG_INIT_DATA + 1 = n + 1
      BY PageFacts
    <3> HIDE DEF p
    <3>2. tab[p] = Entry(new_frames[p - PAG_LOG_INIT_DATA + 1], TRUE, TRUE)
      BY <1>4, <3>1
    <3> QED BY <1>6, <3>1, <3>2 DEF p
  <2>2. \A n \in Index : /\ pt'[child][PAG_LOG_INIT_DATA + n].present
                         /\ pt'[child][PAG_LOG_INIT_DATA + n].frame = new_frames[n + 1]
    BY <1>3, <2>1, EntryFacts
  <2> QED BY <1>1, <1>2, <2>2 DEF ForkAt, DataFrame, DataPresent
<1>12. TlbSound'
  BY <1>1, <1>2, <1>6 DEF EmInv, TlbSound
<1>13. MemoryIsMine'
  BY <1>1, <1>6 DEF EmInv, MemoryIsMine, get_frame
<1> QED BY <1>7, <1>9, <1>10, <1>11, <1>12, <1>13 DEF EmInv

LEMMA CopyStep == ASSUME EmInv, CopyPage PROVE EmInv'
<1> DEFINE temp == TempPage(i)
           src == PAG_LOG_INIT_DATA + i
           tab == set_ss_pag(pt[current], temp, new_frames[i + 1])
           f == new_frames[i + 1]
<1>1. /\ todo = "copy" /\ i < NUM_PAG_DATA
      /\ mem' = [mem EXCEPT ![Translate(tab, temp)] = mem[Translate(tab, src)]]
      /\ tlb' = Cached(tab, {src, temp})
      /\ pt' = [pt EXCEPT ![current] = del_ss_pag(tab, temp)]
      /\ i' = i + 1
      /\ UNCHANGED << phys_mem, freequeue, live, current, child, todo, new_frames, view >>
  BY DEF CopyPage
<1>2. /\ pt \in [Tasks -> [Pages -> EntryType]] /\ new_frames \in Seq(Pool)
      /\ Len(new_frames) = NUM_PAG_DATA /\ current \in live /\ live \subseteq Tasks
      /\ child \in Tasks /\ child \notin live /\ child # idle_task /\ idle_task \notin live
      /\ mem \in [Frames -> Contents] /\ view \in [Tasks -> [Index -> Contents]]
      /\ DOMAIN tlb \subseteq Pages
  BY <1>1 DEF EmInv, EmTypeOK, Places, ForkAt
<1>3. i \in Index /\ i \in Nat /\ i + 1 \in 1 .. Len(new_frames) /\ i + 1 \in 0 .. NUM_PAG_DATA
  BY <1>1, <1>2, Sizes DEF EmInv, EmTypeOK, Index
<1>4. f \in Pool /\ f \in Frames
  BY <1>2, <1>3, PoolFacts
<1>5. /\ temp \in Pages /\ temp \in Int /\ temp >= TOTAL_SPACE /\ temp \notin DataPages
      /\ temp = TOTAL_SPACE + i
      /\ src \in DataPages /\ src \in Pages /\ src < TOTAL_SPACE /\ src # temp
      /\ TOTAL_SPACE \in Int
  BY <1>3, PageFacts DEF TempPage
<1>6. tab = [pt[current] EXCEPT ![temp] = Entry(f, TRUE, TRUE)]
  BY DEF set_ss_pag
<1> HIDE DEF temp, src, f, tab
<1>7. /\ tab \in [Pages -> EntryType] /\ tab[temp] = Entry(f, TRUE, TRUE)
      /\ \A p \in Pages \ {temp} : tab[p] = pt[current][p]
  BY <1>2, <1>4, <1>5, <1>6, EntryFacts
<1>8. del_ss_pag(tab, temp) \in [Pages -> EntryType]
      /\ \A p \in Pages \ {temp} : del_ss_pag(tab, temp)[p] = pt[current][p]
  BY <1>5, <1>7, EntryFacts DEF del_ss_pag
<1>9. /\ pt' \in [Tasks -> [Pages -> EntryType]]
      /\ \A t \in Tasks : \A p \in Pages \ {temp} : pt'[t][p] = pt[t][p]
  <2>1. pt' \in [Tasks -> [Pages -> EntryType]]
    BY <1>1, <1>2, <1>8
  <2>2. \A t \in Tasks \ {current} : pt'[t] = pt[t]
    BY <1>1, <1>2
  <2>3. pt'[current] = del_ss_pag(tab, temp)
    BY <1>1, <1>2
  <2> QED BY <1>8, <2>1, <2>2, <2>3
<1>10. \A n \in Index : PAG_LOG_INIT_DATA + n \in Pages \ {temp}
  BY <1>5, PageFacts
<1>11. \A t \in Tasks : \A n \in Index : DataFrame(t, n)' = DataFrame(t, n)
                                         /\ DataPresent(t, n)' = DataPresent(t, n)
  BY <1>9, <1>10 DEF DataFrame, DataPresent
<1>12. Translate(tab, temp) = f
  <2>1. temp \notin DOMAIN tlb
    BY <1>1, <1>2, <1>3, <1>5 DEF EmInv, TlbSound
  <2> QED BY <1>4, <1>7, <2>1, EntryFacts DEF Translate, get_frame
<1>13. Translate(tab, src) = DataFrame(current, i)
  BY <1>2, <1>3, <1>5, <1>7, TranslateFacts DEF src
<1>14. DataFrame(current, i) \in Frames /\ mem[DataFrame(current, i)] = view[current][i]
       /\ DataPresent(current, i)
  BY <1>2, <1>3, PoolFacts DEF EmInv, OwnFrames, MemoryIsMine, DataFrame, get_frame
<1>15. /\ mem' = [mem EXCEPT ![f] = view[current][i]]
       /\ mem' \in [Frames -> Contents] /\ mem'[f] = view[current][i]
       /\ \A g \in Frames \ {f} : mem'[g] = mem[g]
  BY <1>1, <1>2, <1>3, <1>4, <1>12, <1>13, <1>14
<1>16. DOMAIN tlb' = DOMAIN tlb \cup {src, temp} /\ \A q \in DOMAIN tlb' : tlb'[q] = Translate(tab, q)
  BY <1>1 DEF Cached
<1>17. EmTypeOK' /\ Places'
  BY <1>1, <1>2, <1>3, <1>5, <1>9, <1>15, <1>16 DEF EmInv, EmTypeOK, Places
<1>18. OwnFrames' /\ NewFrames'
  BY <1>1, <1>2, <1>11 DEF EmInv, OwnFrames, NewFrames
<1>19. Marked'
  <2>1. DataFrames' = DataFrames /\ TakenFrames' = TakenFrames
    BY <1>1, <1>2, <1>11 DEF DataFrames, TakenFrames
  <2> QED BY <1>1, <2>1 DEF EmInv, Marked
<1>20. ForkAt'
  <2>1. ASSUME NEW n \in 0 .. i PROVE mem'[new_frames[n + 1]] = view[current][n]
    <3>1. CASE n = i
      BY <1>15, <3>1 DEF f
    <3>2. CASE n # i
      <4>1. n \in 0 .. i - 1 /\ n + 1 \in 1 .. Len(new_frames) /\ n + 1 # i + 1
        BY <1>3, <2>1, <3>2
      <4>2. new_frames[n + 1] # f /\ new_frames[n + 1] \in Frames
        BY <1>2, <1>3, <4>1, PoolFacts DEF EmInv, NewFrames, f
      <4> QED BY <1>1, <1>15, <4>1, <4>2 DEF EmInv, ForkAt
    <3> QED BY <3>1, <3>2
  <2>2. i' - 1 = i
    BY <1>1, <1>3
  <2> QED BY <1>1, <1>2, <1>11, <2>1, <2>2 DEF EmInv, ForkAt
<1>21. TlbSound'
  <2> SUFFICES ASSUME NEW q \in DOMAIN tlb'
               PROVE  \/ q < TOTAL_SPACE /\ pt'[current][q].present /\ tlb'[q] = pt'[current][q].frame
                      \/ q >= TOTAL_SPACE /\ q < TOTAL_SPACE + (i + 1)
    BY <1>1 DEF TlbSound
  <2>1. CASE q = src
    <3>1. pt'[current][src] = pt[current][src] /\ src = PAG_LOG_INIT_DATA + i
      BY <1>2, <1>5, <1>9 DEF src
    <3>2. tlb'[src] = DataFrame(current, i)
      BY <1>13, <1>16
    <3> QED BY <1>5, <1>14, <2>1, <3>1, <3>2 DEF DataFrame, DataPresent
  <2>2. CASE q = temp
    BY <1>3, <1>5, <2>2
  <2>3. CASE q \in DOMAIN tlb /\ q # temp
    <3>1. tlb'[q] = tlb[q] /\ q \in Int /\ q \in Pages
      BY <1>2, <1>16, <2>3, PageFacts DEF Translate
    <3>2. pt'[current][q] = pt[current][q]
      BY <1>2, <1>9, <2>3, <3>1
    <3>3. \/ q < TOTAL_SPACE /\ pt[current][q].present /\ tlb[q] = pt[current][q].frame
          \/ q >= TOTAL_SPACE /\ q < TOTAL_SPACE + i
      BY <1>2, <2>3 DEF EmInv, TlbSound
    <3> QED BY <1>3, <1>5, <3>1, <3>2, <3>3
  <2> QED BY <1>16, <2>1, <2>2, <2>3
<1>22. MemoryIsMine'
  <2> SUFFICES ASSUME NEW t \in live, NEW n \in Index
               PROVE  mem'[DataFrame(t, n)] = view[t][n]
    BY <1>1, <1>2, <1>11 DEF MemoryIsMine, DataFrame, get_frame
  <2>1. DataFrame(t, n) # f /\ DataFrame(t, n) \in Frames
    BY <1>3, PoolFacts DEF EmInv, OwnFrames, NewFrames, f
  <2> QED BY <1>15, <2>1 DEF EmInv, MemoryIsMine, DataFrame, get_frame
<1> QED BY <1>17, <1>18, <1>19, <1>20, <1>21, <1>22 DEF EmInv

LEMMA ForkEndsStep == ASSUME EmInv, ForkEnds PROVE EmInv'
<1>1. /\ todo = "copy" /\ i = NUM_PAG_DATA /\ tlb' = << >>
      /\ live' = live \cup {child} /\ view' = [view EXCEPT ![child] = view[current]]
      /\ todo' = "none" /\ i' = 0 /\ new_frames' = << >>
      /\ UNCHANGED << phys_mem, pt, freequeue, current, mem >>
  BY DEF ForkEnds, AfterFork, Flushed
<1>2. /\ new_frames \in Seq(Pool) /\ Len(new_frames) = NUM_PAG_DATA
      /\ current \in live /\ live \subseteq Tasks
      /\ child \in Tasks /\ child \notin live /\ child # idle_task
      /\ view \in [Tasks -> [Index -> Contents]]
      /\ \A m \in 1 .. Len(freequeue) : freequeue[m] # child
      /\ \A n \in Index : DataPresent(child, n) /\ DataFrame(child, n) = new_frames[n + 1]
      /\ \A n \in 0 .. i - 1 : mem[new_frames[n + 1]] = view[current][n]
  BY <1>1 DEF EmInv, EmTypeOK, Places, ForkAt
<1>3. \A n \in Index : n + 1 \in 1 .. Len(new_frames) /\ n \in 0 .. i - 1 /\ n \in Int
                       /\ new_frames[n + 1] \in Pool
  BY <1>1, <1>2, Sizes DEF Index
<1>4. /\ view' \in [Tasks -> [Index -> Contents]] /\ view'[child] = view[current]
      /\ \A t \in live : view'[t] = view[t]
  BY <1>1, <1>2
<1>5. DOMAIN tlb' = {}
  BY <1>1
<1>6. EmTypeOK'
  BY <1>1, <1>2, <1>4, <1>5, Sizes DEF EmInv, EmTypeOK
<1>7. Places'
  BY <1>1, <1>2 DEF EmInv, Places
<1>8. OwnFrames'
  <2>1. ASSUME NEW m \in Index, NEW n \in Index, DataFrame(child, m) = DataFrame(child, n)
        PROVE  m = n
    <3>1. m + 1 = n + 1
      BY <1>2, <1>3, <2>1 DEF EmInv, NewFrames
    <3> QED BY <1>3, <3>1
  <2>2. \A t \in live, m, n \in Index : DataFrame(t, m) # DataFrame(child, n)
    BY <1>2, <1>3 DEF EmInv, NewFrames
  <2>3. \A t \in Tasks, n \in Index : DataFrame(t, n)' = DataFrame(t, n)
                                      /\ DataPresent(t, n)' = DataPresent(t, n)
    BY <1>1 DEF DataFrame, DataPresent
  <2>4. \A t \in live', n \in Index : DataPresent(t, n) /\ DataFrame(t, n) \in Pool
    BY <1>1, <1>2, <1>3 DEF EmInv, OwnFrames
  <2>5. ASSUME NEW t \in live', NEW u \in live', NEW m \in Index, NEW n \in Index,
               DataFrame(t, m) = DataFrame(u, n)
        PROVE  t = u /\ m = n
    BY <1>1, <2>1, <2>2, <2>5 DEF EmInv, OwnFrames
  <2> QED BY <1>1, <1>2, <2>3, <2>4, <2>5 DEF OwnFrames
<1>9. NewFrames' /\ ForkAt' /\ TlbSound'
  BY <1>1, <1>5 DEF NewFrames, ForkAt, TlbSound
<1>10. Marked'
  <2>1. TakenFrames' = {}
    BY <1>1 DEF TakenFrames
  <2>2. DataFrames' = {DataFrame(t, n) : t \in live \cup {child}, n \in Index}
    BY <1>1 DEF DataFrames, DataFrame
  <2>3. TakenFrames = {DataFrame(child, n) : n \in Index}
    <3>1. \A m \in 1 .. Len(new_frames) : m - 1 \in Index /\ m = (m - 1) + 1
      BY <1>2, Sizes DEF Index
    <3> QED BY <1>2, <1>3, <3>1 DEF TakenFrames
  <2>4. DataFrames' = DataFrames \cup TakenFrames
    BY <2>2, <2>3 DEF DataFrames
  <2> QED BY <1>1, <2>1, <2>4 DEF EmInv, Marked
<1>11. MemoryIsMine'
  <2>1. \A n \in Index : mem[DataFrame(child, n)] = view[current][n]
    BY <1>2, <1>3
  <2> QED BY <1>1, <1>4, <2>1 DEF EmInv, MemoryIsMine, DataFrame, get_frame
<1> QED BY <1>6, <1>7, <1>8, <1>9, <1>10, <1>11 DEF EmInv

LEMMA SwitchStep == ASSUME EmInv, NEW t \in Tasks, Switch(t) PROVE EmInv'
<1>1. /\ todo = "none" /\ t \in live \cup {idle_task} /\ current' = t /\ tlb' = << >>
      /\ UNCHANGED << phys_mem, pt, freequeue, live, mem, view >>
      /\ UNCHANGED << child, todo, i, new_frames >>
  BY DEF Switch, Flushed, fork
<1>2. DOMAIN tlb' = {}
  BY <1>1
<1>3. EmTypeOK' /\ TlbSound'
  BY <1>1, <1>2 DEF EmInv, EmTypeOK, TlbSound
<1>4. Places' /\ OwnFrames' /\ NewFrames' /\ MemoryIsMine'
  BY <1>1 DEF EmInv, Places, OwnFrames, NewFrames, MemoryIsMine, DataFrame, DataPresent
<1>5. ForkAt'
  BY <1>1 DEF EmInv, ForkAt
<1>6. Marked'
  BY <1>1 DEF EmInv, Marked, DataFrames, TakenFrames, DataFrame
<1> QED BY <1>3, <1>4, <1>5, <1>6 DEF EmInv

LEMMA ExitStep == ASSUME EmInv, sys_exit PROVE EmInv'
<1> DEFINE mine == {get_frame(pt[current], p) : p \in DataPages}
<1>1. /\ todo = "none" /\ current # idle_task
      /\ phys_mem' = free_frame(phys_mem, mine)
      /\ pt' = [pt EXCEPT ![current] = [p \in Pages |-> IF p \in DataPages THEN NoEntry ELSE pt[current][p]]]
      /\ freequeue' = Append(freequeue, current)
      /\ live' = live \ {current} /\ current' \in live' \cup {idle_task}
      /\ tlb' = << >>
      /\ UNCHANGED << mem, view >> /\ UNCHANGED << child, todo, i, new_frames >>
  BY DEF sys_exit, InUserCode, Flushed, fork
<1>2. /\ freequeue \in Seq(Tasks) /\ live \subseteq Tasks /\ current \in live /\ current \in Tasks
      /\ pt \in [Tasks -> [Pages -> EntryType]] /\ new_frames = << >>
  BY <1>1 DEF EmInv, EmTypeOK, ForkAt
<1>3. /\ freequeue' \in Seq(Tasks) /\ Len(freequeue') = Len(freequeue) + 1
      /\ Len(freequeue) \in Nat
      /\ freequeue'[Len(freequeue) + 1] = current
      /\ \A m \in 1 .. Len(freequeue) : freequeue'[m] = freequeue[m]
  BY <1>1, <1>2
<1>4. pt' \in [Tasks -> [Pages -> EntryType]] /\ \A t \in live' : pt'[t] = pt[t]
  <2>1. [p \in Pages |-> IF p \in DataPages THEN NoEntry ELSE pt[current][p]] \in [Pages -> EntryType]
    BY <1>2, EntryFacts
  <2> QED BY <1>1, <1>2, <2>1
<1>5. DOMAIN tlb' = {}
  BY <1>1
<1>6. EmTypeOK'
  BY <1>1, <1>2, <1>3, <1>4, <1>5 DEF EmInv, EmTypeOK
<1>7. Places'
  <2>1. \A m \in 1 .. Len(freequeue') : m \in 1 .. Len(freequeue) \/ m = Len(freequeue) + 1
    BY <1>3
  <2> QED BY <1>1, <1>2, <1>3, <2>1 DEF EmInv, Places
<1>8. \A t \in live', n \in Index : DataFrame(t, n)' = DataFrame(t, n)
                                    /\ DataPresent(t, n)' = DataPresent(t, n)
  BY <1>4 DEF DataFrame, DataPresent
<1>9. OwnFrames'
  BY <1>1, <1>8 DEF EmInv, OwnFrames
<1>10. NewFrames' /\ ForkAt' /\ TlbSound'
  BY <1>1, <1>2, <1>5 DEF NewFrames, ForkAt, TlbSound
<1>11. MemoryIsMine'
  BY <1>1, <1>4 DEF EmInv, MemoryIsMine, get_frame
<1>12. Marked'
  <2>1. mine = {DataFrame(current, n) : n \in Index}
    <3>1. \A p \in DataPages : p - PAG_LOG_INIT_DATA \in Index /\ PAG_LOG_INIT_DATA + (p - PAG_LOG_INIT_DATA) = p
      BY PageFacts
    <3>2. \A n \in Index : PAG_LOG_INIT_DATA + n \in DataPages
      BY PageFacts
    <3> QED BY <3>1, <3>2 DEF DataFrame, get_frame
  <2> HIDE DEF mine
  <2>2. \A f \in mine : f \in Pool
    BY <1>2, <2>1 DEF EmInv, OwnFrames
  <2>3. phys_mem' = phys_mem \ mine
    BY <1>1, <2>2, PoolFacts DEF free_frame
  <2>4. DataFrames' = {DataFrame(t, n) : t \in live \ {current}, n \in Index}
    BY <1>1, <1>8 DEF DataFrames
  <2>5. \A t \in live \ {current}, n \in Index : DataFrame(t, n) \notin mine
    BY <1>2, <2>1 DEF EmInv, OwnFrames
  <2>6. DataFrames' = DataFrames \ mine
    <3>1. \A n \in Index : DataFrame(current, n) \in mine
      BY <2>1
    <3>2. \A t \in live, n \in Index : DataFrame(t, n) \notin mine => t \in live \ {current}
      BY <3>1
    <3>3. DataFrames' \subseteq DataFrames \ mine
      BY <2>4, <2>5 DEF DataFrames
    <3>4. DataFrames \ mine \subseteq DataFrames'
      BY <2>4, <3>2 DEF DataFrames
    <3> QED BY <3>3, <3>4
  <2>7. TakenFrames' = {} /\ TakenFrames = {}
    BY <1>1, <1>2 DEF TakenFrames
  <2> QED BY <2>2, <2>3, <2>6, <2>7, PoolFacts DEF EmInv, Marked
<1> QED BY <1>6, <1>7, <1>9, <1>10, <1>11, <1>12 DEF EmInv

LEMMA EmStep == EmInv /\ [Next]_vars => EmInv'
<1> SUFFICES ASSUME EmInv, [Next]_vars PROVE EmInv'
  OBVIOUS
<1>1. CASE UNCHANGED vars
  BY <1>1 DEF vars, EmInv, EmTypeOK, Places, OwnFrames, NewFrames, Marked, ForkAt, TlbSound,
              MemoryIsMine, DataFrame, DataPresent, DataFrames, TakenFrames
<1> QED BY <1>1, StoreStep, ForkStep, AllocStep, AllocFailsStep, MapStep, CopyStep, ForkEndsStep,
           SwitchStep, ExitStep DEF Next

LEMMA EmInvCorrect == Spec => []EmInv
BY EmInit, EmStep, PTL DEF Spec

-----------------------------------------------------------------------------
(* The theorems. *)

\* Every process reads in its data pages what it stored there or inherited, for
\* any number of processes, pages and frames: fork's copies and the TLB between
\* them never touch the frame of another.
THEOREM MemoryCorrect == Spec => []MemoryIsMine
<1>1. EmInv => MemoryIsMine
  BY DEF EmInv
<1> QED BY <1>1, EmInvCorrect, PTL

\* The flush at the end of fork and in the task switch is enough: user code never
\* runs with a translation its page table does not hold.
THEOREM TlbCorrect == Spec => []TlbAgrees
<1>1. EmInv => TlbAgrees
  <2> SUFFICES ASSUME EmInv, InUserCode, NEW p \in DOMAIN tlb
               PROVE  pt[current][p].present /\ tlb[p] = get_frame(pt[current], p)
    BY DEF TlbAgrees
  <2> QED BY DEF EmInv, TlbSound, InUserCode, get_frame
<1> QED BY <1>1, EmInvCorrect, PTL

\* Two sets with nothing in common.
LEMMA Disjoint ==
  ASSUME NEW S, NEW T, IsFiniteSet(S), IsFiniteSet(T), S \cap T = {}
  PROVE  IsFiniteSet(S \cup T) /\ Cardinality(S \cup T) = Cardinality(S) + Cardinality(T)
<1>1. /\ IsFiniteSet(S \cup T)
      /\ Cardinality(S \cup T) = Cardinality(S) + Cardinality(T) - Cardinality(S \cap T)
  BY FS_Union
<1>2. Cardinality(S \cap T) = 0 /\ Cardinality(S) \in Nat /\ Cardinality(T) \in Nat
  BY FS_EmptySet, FS_CardinalityType
<1> QED BY <1>1, <1>2

\* The frames of the live processes, counted.
LEMMA DataCount ==
  ASSUME EmInv
  PROVE  IsFiniteSet(DataFrames) /\ Cardinality(DataFrames) = NUM_PAG_DATA * Cardinality(live)
         /\ IsFiniteSet(live)
<1>1. IsFiniteSet(live)
  <2>1. IsFiniteSet(Tasks)
    <3>1. 0 \in Int /\ NR_TASKS - 1 \in Int
      BY Sizes
    <3> QED BY <3>1, FS_Interval DEF Tasks
  <2> QED BY <2>1, FS_Subset DEF EmInv, EmTypeOK
<1>2. IsFiniteSet(Index) /\ Cardinality(Index) = NUM_PAG_DATA
  <2>1. 0 \in Int /\ NUM_PAG_DATA - 1 \in Int /\ ~(0 > NUM_PAG_DATA - 1) /\ NUM_PAG_DATA - 1 - 0 + 1 = NUM_PAG_DATA
    BY Sizes
  <2>2. IsFiniteSet(0 .. NUM_PAG_DATA - 1)
        /\ Cardinality(0 .. NUM_PAG_DATA - 1) = IF 0 > NUM_PAG_DATA - 1 THEN 0 ELSE NUM_PAG_DATA - 1 - 0 + 1
    BY <2>1, FS_Interval
  <2> QED BY <2>1, <2>2 DEF Index
<1>3. IsFiniteSet(live \X Index) /\ Cardinality(live \X Index) = Cardinality(live) * Cardinality(Index)
  BY <1>1, <1>2, FS_Product
<1> DEFINE S == live \X Index
           f == [d \in S |-> DataFrame(d[1], d[2])]
<1>4. f \in [S -> DataFrames] /\ \A x \in DataFrames : \E d \in S : f[d] = x
  <2>1. \A d \in S : d[1] \in live /\ d[2] \in Index
    OBVIOUS
  <2>2. f \in [S -> DataFrames]
    BY <2>1 DEF DataFrames
  <2>3. ASSUME NEW t \in live, NEW n \in Index PROVE \E d \in S : f[d] = DataFrame(t, n)
    <3>1. <<t, n>> \in S /\ f[<<t, n>>] = DataFrame(t, n)
      OBVIOUS
    <3> QED BY <3>1
  <2> QED BY <2>2, <2>3 DEF DataFrames
<1>5. \A c, d \in S : f[c] = f[d] => c = d
  <2> SUFFICES ASSUME NEW c \in S, NEW d \in S, f[c] = f[d] PROVE c = d
    OBVIOUS
  <2>1. c[1] \in live /\ c[2] \in Index /\ d[1] \in live /\ d[2] \in Index
        /\ c = <<c[1], c[2]>> /\ d = <<d[1], d[2]>>
    OBVIOUS
  <2>2. c[1] = d[1] /\ c[2] = d[2]
    BY <2>1 DEF EmInv, OwnFrames
  <2> QED BY <2>1, <2>2
<1> HIDE DEF f, S
<1>6. f \in Bijection(S, DataFrames)
  BY <1>4, <1>5 DEF Bijection, Injection, Surjection, IsInjective
<1>7. ExistsBijection(S, DataFrames)
  BY <1>6 DEF ExistsBijection
<1>8. IsFiniteSet(S) /\ Cardinality(S) = Cardinality(live) * NUM_PAG_DATA
  BY <1>2, <1>3 DEF S
<1>9. IsFiniteSet(DataFrames) /\ Cardinality(DataFrames) = Cardinality(S)
  BY <1>7, <1>8, FS_Bijection
<1>10. Cardinality(live) \in Nat
  BY <1>1, FS_CardinalityType
<1> QED BY <1>1, <1>8, <1>9, <1>10, Sizes

LEMMA TakenCount ==
  ASSUME EmInv
  PROVE  IsFiniteSet(TakenFrames) /\ Cardinality(TakenFrames) = Len(new_frames)
<1> DEFINE n == Len(new_frames)
           f == [m \in 1 .. n |-> new_frames[m]]
<1>1. n \in Nat
  BY DEF EmInv, EmTypeOK
<1>2. f \in [1 .. n -> TakenFrames] /\ \A x \in TakenFrames : \E m \in 1 .. n : f[m] = x
  BY DEF TakenFrames
<1>3. \A l, m \in 1 .. n : f[l] = f[m] => l = m
  BY DEF EmInv, NewFrames
<1> HIDE DEF f, n
<1>4. f \in Bijection(1 .. n, TakenFrames)
  BY <1>2, <1>3 DEF Bijection, Injection, Surjection, IsInjective
<1>5. ExistsBijection(1 .. n, TakenFrames)
  BY <1>4 DEF ExistsBijection
<1>6. IsFiniteSet(TakenFrames)
  BY <1>1, <1>5, FS_NatBijection
<1> QED BY <1>1, <1>5, <1>6, FS_CountingElements DEF n

\* The frames marked as used are exactly those somebody has, and as many as the
\* processes need: no exit and no fork, given up or not, loses one.
THEOREM FramesCorrect == Spec => []FramesInUse
<1>1. EmInv => FramesInUse
  <2> SUFFICES ASSUME EmInv PROVE FramesInUse
    OBVIOUS
  <2> DEFINE K == 0 .. NUM_PAG_KERNEL - 1
  <2>1. {new_frames[n] : n \in DOMAIN new_frames} = TakenFrames
    BY DEF EmInv, EmTypeOK, TakenFrames
  <2>2. phys_mem = K \cup Kept \cup DataFrames \cup TakenFrames
    BY DEF EmInv, Marked
  <2>3. phys_mem = K \cup MonoFrames \cup CodeFrames
                \cup {get_frame(pt[t], p) : t \in live, p \in DataPages}
                \cup {new_frames[n] : n \in DOMAIN new_frames}
    BY <2>1, <2>2, DataFramesAre DEF Kept
  <2>4. IsFiniteSet(K) /\ Cardinality(K) = NUM_PAG_KERNEL
    <3>1. 0 \in Int /\ NUM_PAG_KERNEL - 1 \in Int /\ ~(0 > NUM_PAG_KERNEL - 1)
          /\ NUM_PAG_KERNEL - 1 - 0 + 1 = NUM_PAG_KERNEL
      BY Sizes
    <3>2. IsFiniteSet(K) /\ Cardinality(K) = IF 0 > NUM_PAG_KERNEL - 1 THEN 0 ELSE NUM_PAG_KERNEL - 1 - 0 + 1
      BY <3>1, FS_Interval
    <3> QED BY <3>1, <3>2
  <2>5. IsFiniteSet(Kept)
    <3>1. IsFiniteSet(Frames)
      <4>1. 0 \in Int /\ TOTAL_PAGES - 1 \in Int
        BY Sizes
      <4> QED BY <4>1, FS_Interval DEF Frames
    <3> QED BY <3>1, FS_Subset, PoolFacts
  <2>6. DataFrames \subseteq Pool /\ TakenFrames \subseteq Pool /\ DataFrames \cap TakenFrames = {}
    <3>1. DataFrames \subseteq Pool
      BY DEF EmInv, OwnFrames, DataFrames
    <3>2. TakenFrames \subseteq Pool
      BY DEF EmInv, EmTypeOK, TakenFrames
    <3>3. DataFrames \cap TakenFrames = {}
      BY DEF EmInv, NewFrames, DataFrames, TakenFrames
    <3> QED BY <3>1, <3>2, <3>3
  <2>7. K \cap Kept = {} /\ (K \cup Kept) \cap DataFrames = {}
        /\ (K \cup Kept \cup DataFrames) \cap TakenFrames = {}
    BY <2>6, PoolFacts
  <2> HIDE DEF K
  <2>8. IsFiniteSet(K \cup Kept) /\ Cardinality(K \cup Kept) = Cardinality(K) + Cardinality(Kept)
    BY <2>4, <2>5, <2>7, Disjoint
  <2>9. IsFiniteSet(K \cup Kept \cup DataFrames)
        /\ Cardinality(K \cup Kept \cup DataFrames) = Cardinality(K \cup Kept) + Cardinality(DataFrames)
    BY <2>7, <2>8, DataCount, Disjoint
  <2>10. Cardinality(phys_mem) = Cardinality(K \cup Kept \cup DataFrames) + Cardinality(TakenFrames)
    BY <2>2, <2>7, <2>9, TakenCount, Disjoint
  <2>11. Cardinality(phys_mem) = NUM_PAG_KERNEL + Cardinality(MonoFrames \cup CodeFrames)
                + NUM_PAG_DATA * Cardinality(live) + Len(new_frames)
    BY <2>4, <2>8, <2>9, <2>10, DataCount, TakenCount DEF Kept
  <2> QED BY <2>3, <2>11 DEF FramesInUse, K
<1> QED BY <1>1, EmInvCorrect, PTL
===============================================================================
