------------------------------ MODULE Terminal ------------------------------
(***************************************************************************)
(* A user program at the terminal: system calls from the trap to the       *)
(* return, write and the console behind it, perror, and the interrupts of  *)
(* the keyboard and the clock that use the same console.                   *)
(*                                                                         *)
(* kernel says which of the four kernels runs: "GAME" (with the ring of    *)
(* Keyboard), "Ex2", "E1" or "base"; each has its own tests, its own       *)
(* dispatch and its own keyboard routine.                                  *)
(***************************************************************************)
EXTENDS Keyboard, Console, UserAccess, FiniteSetsExt

CONSTANTS
  Codes,            \* make codes of the keyboard, where there is no ring
  Calls,            \* calls a user makes: [kernel, n, fd, addr, size]
  TAM_BUFFER,       \* chunk of write in "GAME" and "Ex2"
  BUFFER_SIZE,      \* chunk of write in "E1" and "base"
  POLL_SIZE,        \* bytes pollEvent copies
  STATS_SIZE,       \* sizeof(struct stats), which get_stats copies
  Newlines,         \* addresses of user memory that hold a newline
  LITERAL,          \* where the strings of the C library are
  FAULT_EIP         \* the instruction of the kernel that faults

ASSUME TerminalAssumption ==
  /\ {TAM_BUFFER, BUFFER_SIZE, POLL_SIZE, STATS_SIZE} \subseteq Nat \ {0}
  /\ LITERAL \in USER_FIRST_PAGE * PAGE .. END_PAGE * PAGE - 4
  /\ POLL_SIZE < SPACE \div 2 /\ STATS_SIZE < SPACE \div 2
  /\ FAULT_EIP \in Nat /\ FAULT_EIP \div 16^7 < 16       \* an address of 32 bits
\* Arguments are as wide as an address; the size of a write is a signed one.
ASSUME CallsAssumption ==
  \A c \in Calls : /\ c.n \in Int /\ c.fd \in Int
                    /\ c.addr \in 0 .. SPACE - 1
                    /\ c.size \in -(SPACE \div 2) .. SPACE \div 2 - 1

VARIABLES
  kernel, con,
  mode,       \* "user", "kernel", "return", "exited", "dying", "halted" or "wild"
  call,       \* the call under way: arguments, and text, the bytes at addr
  left,       \* bytes_left
  queue,      \* characters of the local buffer not yet printed
  eax, errno,
  mem,        \* the memory of the user program
  plan,       \* strings perror has still to write
  touched,    \* not in the code: addresses the kernel used for this call
  start       \* not in the code: where the cursor was left by the last text

ring == <<events, head, tail, last, down, typed>>
sysvars == <<mode, call, left, queue, eax, errno, mem, plan, touched>>
tvars == <<kernel, con, ring, sysvars, start>>

ESRCH == 3
EBADF == 9
ECHILD == 10
EAGAIN == 11
ENOMEM == 12
EACCES == 13
EFAULT == 14
EINVAL == 22
ENOSYS == 38
EXIT == 1
FORK == 2
WRITE == 4
POLL == 5
GETTIME == 10
BLOCK == 12       \* only in "E1"
YIELD == 13       \* unblock in "E1"
GETPID == 20
GET_STATS == 35
ESCRIPTURA == 1

NoCall == [n |-> 0, fd |-> 0, addr |-> 0, size |-> 0, text |-> << >>, perror |-> FALSE]
TextAt(addr, size) == [i \in 1 .. size |-> mem[(addr + i - 1) % SPACE]]
Quiet(c) == [c EXCEPT !.port = << >>, !.shown = << >>]

TInit ==
  /\ Init
  /\ kernel \in {"GAME", "Ex2", "E1", "base"}
  /\ con = Blank(NUM_ROWS - 1)
  /\ mode = "user" /\ call = NoCall /\ left = 0 /\ queue = << >> /\ eax = 0 /\ errno = 0
  /\ mem = [a \in 0 .. SPACE - 1 |-> IF a \in Newlines THEN NL ELSE 200 + a]
  /\ plan = << >> /\ touched = {} /\ start = Cursor(con)

-----------------------------------------------------------------------------
(* Entry: the number is tested against the length of the table. *)

\* Numbers whose entry is not sys_ni_syscall, and the length of the table.
sys_call_table ==
  {WRITE, GETTIME, GETPID}
  \cup (IF kernel # "base" THEN {EXIT, FORK, YIELD} ELSE {})
  \cup (IF kernel \in {"GAME", "Ex2"} THEN {GET_STATS} ELSE {})
  \cup (IF kernel = "GAME" THEN {POLL} ELSE {}) \cup (IF kernel = "E1" THEN {BLOCK} ELSE {})
MAX_SYSCALL == IF kernel \in {"GAME", "Ex2"} THEN 36 ELSE 21

\* "base" uses jge, the others jg: the number MAX_SYSCALL passes their test.
sysenter_err(n) == n < 0 \/ (IF kernel = "base" THEN n >= MAX_SYSCALL ELSE n > MAX_SYSCALL)

check_fd(fd, permissions) ==
  IF fd # 1 THEN -EBADF ELSE IF permissions # ESCRIPTURA THEN -EACCES ELSE 0

\* What the tests of sys_write answer: 0 goes on to the loop.
sys_writeGame(c) ==
  IF check_fd(c.fd, ESCRIPTURA) # 0 THEN check_fd(c.fd, ESCRIPTURA)
  ELSE IF c.size < 0 THEN -EINVAL
  ELSE IF ~access_okGame(VERIFY_READ, c.addr, c.size) THEN -EFAULT ELSE 0

sys_writeEx2(c) ==
  IF check_fd(c.fd, ESCRIPTURA) # 0 THEN check_fd(c.fd, ESCRIPTURA)
  ELSE IF c.size < 0 THEN -EINVAL
  ELSE IF ~access_okEx2(VERIFY_READ, c.addr, c.size) THEN -EFAULT ELSE 0

sys_writeE1(c) ==
  IF check_fd(c.fd, ESCRIPTURA) < 0 THEN check_fd(c.fd, ESCRIPTURA)
  ELSE IF c.addr = 0 THEN -EFAULT
  ELSE IF c.size < 0 THEN -EINVAL ELSE 0

sys_writeBase(c) ==
  IF check_fd(c.fd, ESCRIPTURA) < 0 THEN check_fd(c.fd, ESCRIPTURA)
  ELSE IF c.addr = 0 THEN -EFAULT
  ELSE IF c.size < 0 THEN -EINVAL
  ELSE IF ~access_okBase(VERIFY_READ, c.addr, c.size) THEN -EFAULT ELSE 0

sys_write(c) == CASE kernel = "GAME" -> sys_writeGame(c) [] kernel = "Ex2" -> sys_writeEx2(c)
                  [] kernel = "E1" -> sys_writeE1(c) [] OTHER -> sys_writeBase(c)

Answer(r) == mode' = "return" /\ eax' = r

\* Pages present in the table of the process; "base" never turns paging on.
Mapped(p) == kernel = "base" \/ p \in 1 .. END_PAGE - 1
Reachable(block) == \A a \in block : Mapped(PageOf(a))

\* Nothing writes this vector; pollEvent gives it to the user.
keyboard_buffer == [i \in 1 .. POLL_SIZE |-> 0]

\* The copy of a tested block to the user; it stops at a page that is not there.
CopyOut(s, addr) ==
  LET block == Block(addr, Len(s))
      out == copy_to_user(s, Len(s))
  IN /\ touched' = block
     /\ IF Reachable(block) THEN Answer(0) ELSE mode' = "halted" /\ UNCHANGED eax
     /\ mem' = [a \in DOMAIN mem |-> IF a \in block /\ Mapped(PageOf(a))
                                     THEN out[((a - addr) % SPACE) + 1] ELSE mem[a]]

sys_pollEvent(c) ==
  IF access_okGame(VERIFY_WRITE, c.addr, POLL_SIZE) THEN CopyOut(keyboard_buffer, c.addr)
  ELSE Answer(-EFAULT) /\ UNCHANGED <<mem, touched>>

\* The numbers are those of ZeosStats: here bytes that differ from the others.
p_stats == [i \in 1 .. STATS_SIZE |-> 7]

\* pid is the first argument, st the second.
sys_get_stats(c) ==
  LET ok == IF kernel = "GAME" THEN access_okGame(VERIFY_WRITE, c.addr, STATS_SIZE)
            ELSE access_okEx2(VERIFY_WRITE, c.addr, STATS_SIZE)
      refusal == IF ~ok THEN -EFAULT ELSE IF c.fd < 0 THEN -EINVAL ELSE -ESRCH
  IN \/ Answer(refusal) /\ UNCHANGED <<mem, touched>>
     \/ ok /\ c.fd >= 0 /\ CopyOut(p_stats, c.addr)

\* What the calls on processes and the clock answer; what they do to the
\* processes is in ZeosProc and E1Proc.  1 stands for any PID or time.
Answers(n) ==
  CASE n = FORK -> {0, 1, -ENOMEM, -EAGAIN}
    [] n \in {GETTIME, GETPID} -> {0, 1}
    [] n = YIELD /\ kernel = "E1" -> {0, -ECHILD}
    [] OTHER -> {0}

\* "E1" refuses the exit of task 1 with a message, here 503; the exit of a
\* process with children loses its way in their list.
sys_exit ==
  \/ mode' = "exited" /\ UNCHANGED <<con, eax>>
  \/ kernel = "E1" /\ Answer(0) /\ con' = printk(con, <<NL, 503, NL>>)
  \/ kernel = "E1" /\ mode' = "wild" /\ UNCHANGED <<con, eax>>

WriteBegins(c) ==
  /\ c.n = WRITE /\ sys_write(c) = 0
  /\ mode' = "kernel" /\ left' = c.size /\ UNCHANGED <<eax, mem, touched>>

Dispatch(c) ==
  \/ /\ sysenter_err(c.n)
     /\ Answer(-ENOSYS) /\ UNCHANGED <<con, left, mem, touched>>
  \/ /\ c.n = MAX_SYSCALL /\ ~sysenter_err(c.n)    \* the word behind the table is called
     /\ mode' = "wild" /\ UNCHANGED <<con, eax, left, mem, touched>>
  \/ /\ c.n \in (0 .. MAX_SYSCALL - 1) \ sys_call_table
     /\ Answer(-ENOSYS) /\ UNCHANGED <<con, left, mem, touched>>      \* sys_ni_syscall
  \/ /\ c.n \in sys_call_table \ {EXIT, WRITE, POLL, GET_STATS}
     /\ \E r \in Answers(c.n) : Answer(r)
     /\ UNCHANGED <<con, left, mem, touched>>
  \/ /\ c.n = EXIT /\ EXIT \in sys_call_table
     /\ sys_exit /\ UNCHANGED <<left, mem, touched>>
  \/ /\ c.n = POLL /\ POLL \in sys_call_table
     /\ sys_pollEvent(c) /\ UNCHANGED <<con, left>>
  \/ /\ c.n = GET_STATS /\ GET_STATS \in sys_call_table
     /\ sys_get_stats(c) /\ UNCHANGED <<con, left>>
  \/ /\ c.n = WRITE /\ sys_write(c) # 0
     /\ Answer(sys_write(c)) /\ UNCHANGED <<con, left, mem, touched>>
  \/ WriteBegins(c) /\ UNCHANGED con

Syscall ==
  /\ mode = "user" /\ plan = << >>
  /\ \E c \in Calls :
       /\ c.kernel = kernel
       /\ call' = [n |-> c.n, fd |-> c.fd, addr |-> c.addr, size |-> c.size,
                   text |-> TextAt(c.addr, c.size), perror |-> FALSE]
       /\ Dispatch(call')
  /\ UNCHANGED <<kernel, ring, queue, errno, plan, start>>

-----------------------------------------------------------------------------
(* The loop of sys_write: copy a chunk, print it. *)

ChunkBug(bytes_left) ==
  LET n == Min({bytes_left, IF kernel \in {"GAME", "Ex2"} THEN TAM_BUFFER ELSE BUFFER_SIZE})
  IN n - (n % WORD)
Chunk(bytes_left) ==
  Min({bytes_left, IF kernel \in {"GAME", "Ex2"} THEN TAM_BUFFER ELSE BUFFER_SIZE})

HexDigit(d) == IF d < 10 THEN 48 + d ELSE 65 + d - 10
hex_convertor(address) == [i \in 1 .. 8 |-> HexDigit((address \div 16^(8 - i)) % 16)]

\* A read by the kernel of a page that is not present: error code 0.
my_page_fault_routine ==
  /\ mode' = "dying"
  /\ queue' = hex_convertor(FAULT_EIP) \o <<NL>> \o hex_convertor(0) \o <<NL>>

\* "E1" prints its last chunk from the buffer of the user, and from its start.
CopyChunk ==
  LET n == Chunk(left)
      done == call.size - left
      block == Block(call.addr + done, n)
      chunk == copy_from_user(SubSeq(call.text, done + 1, done + n), n)
  IN /\ mode = "kernel" /\ queue = << >> /\ left > 0
     /\ touched' = touched \cup block
     /\ IF Reachable(block)
        THEN /\ queue' = IF kernel = "E1" /\ n = left THEN SubSeq(call.text, 1, n) ELSE chunk
             /\ left' = left - n /\ UNCHANGED mode
        ELSE /\ IF kernel = "E1" THEN my_page_fault_routine
                ELSE mode' = "halted" /\ UNCHANGED queue
             /\ UNCHANGED left
     /\ UNCHANGED <<kernel, con, ring, call, eax, errno, mem, plan, start>>

sys_write_console ==
  /\ mode \in {"kernel", "dying"} /\ queue # << >>
  /\ con' = printc(con, Head(queue))
  /\ queue' = Tail(queue)
  /\ mode' = IF mode = "dying" /\ Len(queue) = 1 THEN "halted" ELSE mode
  /\ UNCHANGED <<kernel, ring, call, left, eax, errno, mem, plan, touched, start>>

WriteEnds ==
  /\ mode = "kernel" /\ queue = << >> /\ left = 0
  /\ Answer(call.size - left)
  /\ UNCHANGED <<kernel, con, ring, call, left, queue, errno, mem, plan, touched, start>>

\* sysexit, and the wrapper that turns a negative answer into errno.
Return ==
  /\ mode = "return"
  /\ mode' = "user" /\ errno' = IF eax < 0 THEN -eax ELSE errno
  /\ call' = NoCall /\ eax' = 0 /\ touched' = {}
  /\ con' = Quiet(con) /\ start' = Cursor(con)
  /\ UNCHANGED <<kernel, ring, left, queue, mem, plan>>

-----------------------------------------------------------------------------
(* The C library.  A string ends in 0; a message is a character of its own. *)

Digits(a) == CHOOSE k \in 1 .. 10 : a < 10^k /\ (k = 1 \/ a >= 10^(k - 1))
itoa(a) == [i \in 1 .. Digits(a) |-> 48 + ((a \div 10^(Digits(a) - i)) % 10)] \o <<0>>
strlen(a) == Min({i \in 0 .. Len(a) - 1 : a[i + 1] = 0})

perrorGame == <<itoa(errno)>>

Known == {EACCES, EFAULT, EINVAL, EBADF, ENOSYS}
Message == <<1000 + (IF errno \in Known THEN errno ELSE 0), 0>>
perrorE1 == <<<<999, 0>>, Message>>
perrorBase(s) == (IF s[1] # 0 THEN <<s, <<58, 32, 0>>>> ELSE << >>) \o <<Message, <<NL, 0>>>>

Perror ==
  /\ mode = "user" /\ plan = << >>
  /\ plan' \in CASE kernel \in {"GAME", "Ex2"} -> {perrorGame} [] kernel = "E1" -> {perrorE1}
                 [] OTHER -> {perrorBase(s) : s \in {<<0>>, <<77, 0>>}}
  /\ UNCHANGED <<kernel, con, ring, mode, call, left, queue, eax, errno, mem, touched, start>>

PerrorWrites ==
  /\ mode = "user" /\ plan # << >>
  /\ plan' = Tail(plan)
  /\ LET size == strlen(Head(plan))
     IN call' = [n |-> WRITE, fd |-> 1, addr |-> LITERAL, size |-> size,
                 text |-> SubSeq(Head(plan), 1, size), perror |-> TRUE]
  /\ WriteBegins(call')     \* descriptor and address are good ones
  /\ UNCHANGED <<kernel, con, ring, queue, errno, start>>

-----------------------------------------------------------------------------
(* Interrupts: system calls and exceptions run with them disabled.  After an  *)
(* exit other processes run, in user mode.                                    *)

InterruptibleBug == mode \in {"user", "kernel", "exited"}
Interruptible == mode \in {"user", "exited"}

\* char_map has 98 entries; a code above them reads what lies behind.
CHAR_MAP_SIZE == 98
char_map(code) == IF code >= CHAR_MAP_SIZE THEN {0, NL, 65}
                  ELSE IF code = 30 THEN {97} ELSE {0}

\* The character at the corner of the screen, and the cursor back.
Corner(c) == con' = IF mode = "kernel" THEN printc_xy(con, 0, 0, c) ELSE Quiet(printc_xy(con, 0, 0, c))

keyboard_routineEx2(c) ==
  IF c >= 128 THEN \E ch \in char_map(c % 128) : Corner(ch) ELSE UNCHANGED con

keyboard_routineE1(c) ==
  IF c < 128 THEN \E ch \in char_map(c % 128) : Corner(IF ch # 0 THEN ch ELSE 67)
  ELSE UNCHANGED con

keyboard_routineBase(c) ==
  IF c < 128 THEN \E ch \in char_map(c % 128) : IF ch # 0 THEN Corner(ch) ELSE Corner(67)
  ELSE UNCHANGED con

Key ==
  /\ Interruptible
  /\ \/ kernel = "GAME" /\ (\E k \in Keys : Press(k) \/ Release(k)) /\ UNCHANGED con
     \/ /\ kernel # "GAME" /\ UNCHANGED ring
        /\ \E c \in Codes \cup {k + 128 : k \in Codes} :
             CASE kernel = "Ex2" -> keyboard_routineEx2(c) [] kernel = "E1" -> keyboard_routineE1(c)
               [] OTHER -> keyboard_routineBase(c)
  /\ UNCHANGED <<kernel, sysvars, start>>

\* The clock of "GAME" shows what the ring held; 501 is "Buffer OK: ", 502
\* "Buffer OK: [Special Key]".  The clock of the others leaves all of this alone.
ShowEvent(c) ==
  IF events[tail].pressed = 0 THEN con
  ELSE IF c # 0 THEN printk(con, <<501, c, NL>>) ELSE printk(con, <<502, NL>>)

Tick ==
  /\ Interruptible /\ kernel = "GAME"
  /\ clock_routine
  /\ \E c \in char_map(events[tail].scancode) : con' = Quiet(ShowEvent(c))
  /\ start' = Cursor(con')
  /\ UNCHANGED <<kernel, sysvars>>

Kernel == CopyChunk \/ sys_write_console \/ WriteEnds \/ Return

TNext == Syscall \/ Perror \/ PerrorWrites \/ Kernel \/ Key \/ Tick

\* The processor runs on in the kernel.  A tick that comes during a call stays
\* pending in the interrupt controller and is taken on the return.
TSpec == TInit /\ [][TNext]_tvars /\ WF_tvars(Kernel) /\ SF_tvars(Tick)

-----------------------------------------------------------------------------
(* Properties. *)

\* Where a text that begins at a cell goes: each character in the cell behind
\* the one before, round the screen; a newline to the start of the next row.
Place(text, cell) ==
  LET At[i \in 0 .. Len(text)] ==
        IF i = 0 THEN cell
        ELSE IF text[i] = NL THEN ((At[i - 1] \div NUM_COLUMNS + 1) % NUM_ROWS) * NUM_COLUMNS
        ELSE (At[i - 1] + 1) % Cells
  IN At

Value(s, base) ==
  LET d(i) == IF s[i] >= 65 THEN s[i] - 55 ELSE s[i] - 48
      Of[i \in 0 .. Len(s)] == IF i = 0 THEN 0 ELSE base * Of[i - 1] + d(i)
  IN Of[Len(s)]

\* Bytes that come out in their order: the last of several chunks of "E1" does
\* not, it is taken from the start of the text.
InOrder == IF kernel = "E1" /\ call.size > BUFFER_SIZE
           THEN call.size - 1 - ((call.size - 1) % BUFFER_SIZE) ELSE call.size

\* A write that is answered printed as many bytes as it answers, which is as many
\* as it was given, once and in order across its chunks: all of them, but in "E1"
\* only those before the last chunk when there are several, as that one is printed
\* from the start of the buffer (sys.c:484), against the comment of sys_write.  They
\* are on the port, and on the screen right behind the text before them, whatever
\* keys were hit in between.  Nothing else prints, neither a refused call nor
\* another one, but the refused exit of "E1".  The digits perror prints read back
\* as errno, and those of the page fault routine as the address.
WriteExact ==
  /\ mode = "return" /\ call.n = WRITE /\ eax >= 0 =>
       LET at == Place(con.port, start)
           drawn == {i \in 1 .. call.size : con.port[i] # NL}
       IN /\ eax = call.size /\ Len(con.port) = call.size
          /\ \A i \in 1 .. InOrder : con.port[i] = call.text[i]
          /\ DOMAIN con.shown = {at[i - 1] : i \in drawn}
          /\ \A i \in drawn : (\A j \in drawn : j > i => at[j - 1] # at[i - 1])
                                 => con.shown[at[i - 1]] = con.port[i]
          /\ call.perror /\ kernel \in {"GAME", "Ex2"} => Value(con.port, 10) = errno
  /\ mode = "return" /\ (call.n # WRITE \/ eax < 0) =>
       con.port = << >> \/ (kernel = "E1" /\ call.n = EXIT)
  /\ mode = "halted" /\ kernel = "E1" =>
       LET n == Len(con.port) IN Value(SubSeq(con.port, n - 17, n - 10), 16) = FAULT_EIP

\* A kernel that tests the block of a call uses no address outside the pages of
\* the user and the one page behind them, stops only on that page, and calls
\* only what is in its table, but for the number MAX_SYSCALL in the three
\* kernels that test with jg.  Only that and the exit of "E1" go astray.
Contained ==
  /\ kernel # "E1" => \A a \in touched : PageOf(a) \in USER_FIRST_PAGE .. END_PAGE
  /\ mode = "halted" => kernel # "base" /\ ~Reachable(touched)
  /\ mode = "wild" => \/ kernel # "base" /\ call.n = MAX_SYSCALL
                      \/ kernel = "E1" /\ call.n = EXIT

\* A call that has entered the kernel comes back, or the program has exited or
\* the machine stopped.
Returns == (mode # "user") ~> (mode \in {"user", "exited", "halted", "wild"})

\* A full ring of keyboard events is emptied, whatever calls the program makes.
RingDrains == Full ~> (~Full \/ mode \in {"halted", "wild"})
=============================================================================
