---------------------------- MODULE SyscallReplay ----------------------------
(***************************************************************************)
(* The system call handlers (arch/x86/interp/syscalls).  Behind each call  *)
(* the post handler appends to the log what the kernel wrote into the      *)
(* program's memory; the replay handler, mostly the same source compiled   *)
(* a second time, reads it back instead of making the call.                *)
(*                                                                         *)
(* A step is one call: the kernel's part, the post handler, and the replay *)
(* of the same call from its entries in the log.  The replay of a call     *)
(* depends on nothing else than those entries and its own memory and map,  *)
(* so the two runs can go side by side.                                    *)
(*                                                                         *)
(* Memory is a row of cells, each a page of its own.  A structure takes    *)
(* one cell or two; a cell that holds a length stands for its value + 1.   *)
(* What the kernel writes is modelled from its interface.                  *)
(***************************************************************************)
EXTENDS Integers, Sequences

CONSTANTS
  Data,   \* bound: cells 1 .. Data are the program's data
  Top     \* bound: cells Data + 1 .. Top are for brk and mmap2

ASSUME SyscallAssumption == Data \in Nat /\ Top \in Nat /\ 0 < Data /\ Data < Top

Cells == 1 .. Top
NULL == 0
Ptrs == {NULL} \cup Cells
Values == 0 .. 1
Results == -1 .. 2

\* Protections; "none": nothing is mapped
Perms == {"none", "r", "rw"}

VARIABLES
  rmem,      \* memory of the recorded run
  rmap,      \* its map
  pmem,      \* memory of the replay
  pmap,      \* its map
  brk,       \* end of the heap, of both
  released,  \* history: cells given back by munmap and not mapped since
  gaps,      \* history: cells written by calls whose handler leaves them out
  end        \* why the runs ended, and in which call

vars == <<rmem, rmap, pmem, pmap, brk, released, gaps, end>>

Running == [why |-> "", nr |-> ""]

Init ==
  /\ rmem = [a \in Cells |-> 0]
  /\ rmap = [a \in Cells |-> IF a <= Data THEN "rw" ELSE "none"]
  /\ pmem = rmem
  /\ pmap = rmap
  /\ brk = Data + 1
  /\ released = {}
  /\ gaps = {}
  /\ end = Running

-----------------------------------------------------------------------------
(* BUFFER and INT_VAL                                                      *)

\* The cells of a structure of n cells at p
Span(p, n) == IF p = NULL THEN {} ELSE p .. p + n - 1

\* BUFFER(p, n), and BUFFER(p, *q)
Fixed(p, n) == [at |-> p, len |-> n, from |-> NULL]
Counted(p, q) == [at |-> p, len |-> 0, from |-> q]

Length(i, mem) ==
  IF i.at = NULL THEN 0
  ELSE IF i.from = NULL THEN i.len
  ELSE mem[i.from] + 1

\* The cells the items of a handler stand for
Touched(items, mem) ==
  UNION {Span(items[j].at, Length(items[j], mem)) : j \in DOMAIN items}

Mapped(map, cells) == cells \subseteq Cells /\ \A a \in cells : map[a] # "none"
Writable(map, cells) == cells \subseteq Cells /\ \A a \in cells : map[a] = "rw"

\* append_buffer of one item
Append1(log, i, mem) == log \o [j \in 1 .. Length(i, mem) |-> mem[i.at + j - 1]]

\* What the post handler has appended behind each of its items, from none to all
LoggedTo(items, mem) ==
  LET log[j \in 0 .. Len(items)] ==
        IF j = 0 THEN <<>> ELSE Append1(log[j - 1], items[j], mem)
  IN  log

Logged(items, mem) == LoggedTo(items, mem)[Len(items)]

\* read_syscall_data for one item: the length is taken from the memory as the
\* items before it have left it.
Read1(st, i) ==
  LET n == Length(i, st.mem) IN
    IF ~st.ok \/ n > Len(st.log) \/ ~Writable(pmap, Span(i.at, n))
    THEN [st EXCEPT !.ok = FALSE]
    ELSE [ok  |-> TRUE,
          log |-> SubSeq(st.log, n + 1, Len(st.log)),
          mem |-> [a \in Cells |-> IF a \in Span(i.at, n)
                                   THEN st.log[a - i.at + 1] ELSE st.mem[a]]]

\* The replay handler behind each of the items
ReplayedTo(items, log) ==
  LET st[j \in 0 .. Len(items)] ==
        IF j = 0 THEN [ok |-> TRUE, log |-> log, mem |-> pmem] ELSE Read1(st[j - 1], items[j])
  IN  st

Replayed(items, log) == ReplayedTo(items, log)[Len(items)]

\* The kernel writes the cells in writes, and forced tells some of the values;
\* then the post handler and the replay handler work through items.  A gap is
\* a cell the handler is known to leave out.
Syscall(nr, writes, forced, items, gap) ==
  /\ end = Running
  /\ Writable(rmap, writes)
  /\ \E new \in [writes -> Values] :
       LET rm == [a \in Cells |-> IF a \in writes THEN new[a] ELSE rmem[a]]
           touched == Touched(items, rm)
           st == Replayed(items, Logged(items, rm))
       IN  /\ \A a \in DOMAIN forced : new[a] = forced[a]
           /\ IF ~Mapped(rmap, touched)
              THEN /\ end' = [why |-> "fault", nr |-> nr]
                   /\ UNCHANGED <<rmem, pmem, gaps>>
              ELSE IF ~Writable(pmap, touched)
              THEN /\ end' = [why |-> "read-only", nr |-> nr]
                   /\ UNCHANGED <<rmem, pmem, gaps>>
              ELSE IF ~st.ok \/ st.log # <<>>
              THEN /\ end' = [why |-> "step", nr |-> nr]
                   /\ UNCHANGED <<rmem, pmem, gaps>>
              ELSE /\ rmem' = rm
                   /\ pmem' = st.mem
                   /\ gaps' = (gaps \cup gap) \ touched
                   /\ UNCHANGED end
  /\ UNCHANGED <<rmap, pmap, brk, released>>

\* A call without lengths the kernel returns, and one without gaps
Plain(nr, writes, items) == Syscall(nr, writes, <<>>, items, {})
When(b, s) == IF b THEN s ELSE <<>>
Cell(b, s) == IF b THEN s ELSE {}

-----------------------------------------------------------------------------
(* Calls that fill one buffer                                              *)

read ==
  \E p \in Cells, r \in Results :
    Plain("read", Span(p, r), When(r > 0, <<Fixed(p, r)>>))

pread64 ==
  \E p \in Cells, r \in Results :
    Plain("pread64", Span(p, r), When(r > 0, <<Fixed(p, r)>>))

getdents64 ==
  \E p \in Cells, r \in Results :
    Plain("getdents64", Span(p, r), When(r > 0, <<Fixed(p, r)>>))

epoll_wait ==
  \E p \in Cells, r \in Results :
    Plain("epoll_wait", Span(p, r), When(r > 0, <<Fixed(p, r)>>))

\* Mutated form of getcwd: tests for success as if 0 came back.
getcwd_zero ==
  \E p \in Cells, r \in Results \ {0} :
    Plain("getcwd", Span(p, r), When(r = 0, <<Fixed(p, r)>>))

\* A success returns the length of the path with its 0.
getcwd ==
  \E p \in Cells, r \in Results \ {0} :
    Plain("getcwd", Span(p, r), When(r >= 0, <<Fixed(p, r)>>))

\* The kernel zeroes revents also when the time is up.
poll ==
  \E p \in Cells, n \in 1 .. 2, r \in -1 .. 1 :
    Syscall("poll", Cell(r >= 0, Span(p, n)), <<>>,
            When(r > 0, <<Fixed(p, n)>>), Cell(r = 0, Span(p, n)))

fstat64 ==
  \E p \in Cells, r \in -1 .. 0 :
    Plain("fstat64", Cell(r >= 0, Span(p, 2)), When(r >= 0, <<Fixed(p, 2)>>))

stat64 ==
  \E p \in Cells, r \in -1 .. 0 :
    Plain("stat64", Cell(r >= 0, Span(p, 2)), When(r >= 0, <<Fixed(p, 2)>>))

clock_getres ==
  \E p \in Ptrs, r \in -1 .. 0 :
    Plain("clock_getres", Cell(r >= 0, Span(p, 2)), When(r >= 0, <<Fixed(p, 2)>>))

clock_gettime ==
  \E p \in Cells, r \in -1 .. 0 :
    Plain("clock_gettime", Cell(r >= 0, Span(p, 2)), When(r >= 0, <<Fixed(p, 2)>>))

ugetrlimit ==
  \E p \in Cells, r \in -1 .. 0 :
    Plain("ugetrlimit", Cell(r >= 0, Span(p, 2)), When(r >= 0, <<Fixed(p, 2)>>))

pipe ==
  \E p \in Cells, r \in -1 .. 0 :
    Plain("pipe", Cell(r >= 0, Span(p, 2)), When(r >= 0, <<Fixed(p, 2)>>))

gettimeofday ==
  \E p, q \in Ptrs, r \in -1 .. 0 :
    Plain("gettimeofday", Cell(r >= 0, Span(p, 1) \cup Span(q, 1)),
          When(r >= 0, <<Fixed(p, 1), Fixed(q, 1)>>))

_llseek ==
  \E p \in Cells, r \in -1 .. 0 :
    Plain("_llseek", Cell(r >= 0, Span(p, 1)), When(r >= 0, <<Fixed(p, 1)>>))

setitimer ==
  \E p \in Ptrs, r \in -1 .. 0 :
    Plain("setitimer", Cell(r = 0, Span(p, 2)), When(r = 0, <<Fixed(p, 2)>>))

\* The lock queries are F_GETLK (1) and F_GETLK64 (2); other commands (0)
\* write nothing.
fcntl64 ==
  \E p \in Cells, cmd \in 0 .. 2, r \in -1 .. 0 :
    Plain("fcntl64", Cell(r >= 0, Span(p, cmd)),
          When(r >= 0 /\ cmd > 0, <<Fixed(p, cmd)>>))

\* The options that return an int (1), PR_GET_NAME (2), and the others (0)
prctl ==
  \E p \in Cells, option \in 0 .. 2, r \in -1 .. 0 :
    Plain("prctl", Cell(r >= 0, Span(p, option)),
          When(r >= 0 /\ option > 0, <<Fixed(p, option)>>))

\* The call writes new_utsname, the handler keeps old_utsname.
uname ==
  \E p \in Cells, r \in -1 .. 0 :
    Syscall("uname", Cell(r >= 0, Span(p, 2)), <<>>,
            When(r >= 0, <<Fixed(p, 1)>>), Cell(r >= 0, {p + 1}))

\* FUTEX_WAKE_OP writes the second word.
futex ==
  \E p, q \in Cells, op \in {"wake", "requeue", "wake_op"}, r \in -1 .. 0 :
    /\ r >= 0 => Writable(rmap, {p} \cup Cell(op # "wake", {q}))
    /\ Plain("futex", Cell(r >= 0 /\ op = "wake_op", {q}),
             When(r >= 0, <<Fixed(p, 1)>>)
               \o When(r >= 0 /\ op # "wake", <<Fixed(q, 1)>>))

-----------------------------------------------------------------------------
(* Handlers that do not look at the result                                 *)

\* A bad pointer makes the call fail with EFAULT.
time ==
  \E p \in Ptrs :
    Plain("time", Cell(Writable(rmap, Span(p, 1)), Span(p, 1)), <<Fixed(p, 1)>>)

waitpid ==
  \E p \in Ptrs, r \in -1 .. 1 :
    Plain("waitpid", Cell(r > 0, Span(p, 1)), <<Fixed(p, 1)>>)

\* The remaining time is written when a signal breaks the call.
nanosleep ==
  \E p \in Ptrs, r \in -1 .. 0 :
    Plain("nanosleep", Cell(r < 0 /\ Writable(rmap, Span(p, 2)), Span(p, 2)),
          <<Fixed(p, 2)>>)

\* Two of the three sets; Linux also writes the time that is left, in the
\* program's data at t.
_newselect ==
  \E p, q \in Ptrs, t \in {NULL, 1}, r \in -1 .. 1 :
    Syscall("_newselect",
            Cell(r >= 0, Span(p, 1) \cup Span(q, 1) \cup Span(t, 1)), <<>>,
            <<Fixed(p, 1), Fixed(q, 1)>>, Cell(r >= 0, Span(t, 1)))

\* TTY_IOCTL: queries of one or two cells, and commands without output (0)
tty_ioctl ==
  \E p \in Ptrs, n \in 0 .. 2, r \in -1 .. 0 :
    /\ r >= 0 /\ n > 0 => p # NULL
    /\ Plain("ioctl", Cell(r >= 0, Span(p, n)), When(n > 0, <<Fixed(p, n)>>))

\* BLK_IOCTL: the direction and the size come from the command's number, and
\* most queries are declared without them.
blk_ioctl ==
  \E p \in Cells, cmd \in {"BLKBSZGET", "BLKGETSIZE64", "BLKGETSIZE"}, r \in -1 .. 0 :
    LET n == IF cmd = "BLKGETSIZE64" THEN 2 ELSE 1
        dir == cmd # "BLKGETSIZE"
    IN  Syscall("ioctl", Cell(r >= 0, Span(p, n)), <<>>,
                When(r >= 0 /\ dir, <<Fixed(p, 1)>>),
                Cell(r >= 0, Span(p, n) \ Cell(dir, {p})))

\* Other commands: FATAL
ioctl_unknown ==
  /\ end = Running
  /\ end' = [why |-> "FATAL", nr |-> "ioctl"]
  /\ UNCHANGED <<rmem, rmap, pmem, pmap, brk, released, gaps>>

-----------------------------------------------------------------------------
(* socketcall: the arguments lie in memory at a, in the program's data or  *)
(* in a page of its own, and are logged first                              *)

\* A sub call with its result, what the kernel writes, the length it returns,
\* and the items of the sub handler
Socketcall(r, writes, forced, items, gap) ==
  \E a \in {1, Top} :
    /\ r >= 0 => Mapped(rmap, {a}) /\ a \notin writes
    /\ Syscall("socketcall", writes, forced, <<Fixed(a, 1)>> \o items, gap)

\* An address of v + 1 cells for a buffer of *q: the kernel copies what fits
\* and returns the whole length.
Fitting(p, q, v) ==
  Span(p, IF v < rmem[q] THEN v + 1 ELSE rmem[q] + 1)

\* Mutated form of getsockname: the address before its length
getsockname_order ==
  \E p, q \in Cells, v \in Values, r \in -1 .. 0 :
    /\ q \notin Span(p, 2)
    /\ Socketcall(r, Cell(r >= 0, Fitting(p, q, v) \cup {q}),
                  IF r >= 0 THEN [a \in {q} |-> v] ELSE <<>>,
                  When(r >= 0, <<Counted(p, q), Fixed(q, 1)>>), {})

getsockname ==
  \E p, q \in Cells, v \in Values, r \in -1 .. 0 :
    /\ q \notin Span(p, 2)
    /\ Socketcall(r, Cell(r >= 0, Fitting(p, q, v) \cup {q}),
                  IF r >= 0 THEN [a \in {q} |-> v] ELSE <<>>,
                  When(r >= 0, <<Fixed(q, 1), Counted(p, q)>>), {})

getpeername ==
  \E p, q \in Cells, v \in Values, r \in -1 .. 0 :
    /\ q \notin Span(p, 2)
    /\ Socketcall(r, Cell(r >= 0, Fitting(p, q, v) \cup {q}),
                  IF r >= 0 THEN [a \in {q} |-> v] ELSE <<>>,
                  When(r >= 0, <<Fixed(q, 1), Counted(p, q)>>), {})

\* With a new descriptor 0 the handler leaves the address out.
accept ==
  \E p \in Ptrs, q \in Cells, v \in Values, r \in -1 .. 1 :
    LET wanted == r >= 0 /\ p # NULL
        writes == Cell(wanted, Fitting(p, q, v) \cup {q})
    IN  /\ q \notin Span(p, 2)
        /\ Socketcall(r, writes, IF wanted THEN [a \in {q} |-> v] ELSE <<>>,
                      When(wanted /\ r > 0, <<Fixed(q, 1), Counted(p, q)>>),
                      Cell(r = 0, writes))

recvfrom ==
  \E b \in Cells, p \in Ptrs, q \in Cells, v \in Values, r \in Results :
    LET wanted == r >= 0 /\ p # NULL
    IN  /\ q \notin Span(p, 2) \cup Span(b, 2)
        /\ Socketcall(r, Span(b, r) \cup Cell(wanted, Fitting(p, q, v) \cup {q}),
                      IF wanted THEN [a \in {q} |-> v] ELSE <<>>,
                      When(r >= 0, <<Fixed(b, r)>>)
                        \o When(wanted, <<Fixed(q, 1), Counted(p, q)>>), {})

\* The header h, one data block b of 2 cells, and ancillary data in the
\* program's data at c, which the handler leaves out
recvmsg ==
  \E h, b \in Cells, c \in {NULL, 1}, r \in Results :
    Socketcall(r, Cell(r >= 0, {h} \cup Span(b, r) \cup Span(c, 1)), <<>>,
               When(r >= 0, <<Fixed(h, 1), Fixed(b, 2)>>),
               Cell(r >= 0, Span(c, 1)))

\* The buffer may also be filled when the call fails.
recv ==
  \E b \in Cells, n \in 0 .. 2, r \in Results :
    /\ r >= 0 => n = r
    /\ Socketcall(r, Span(b, n), <<>>, When(r > 0, <<Fixed(b, r)>>),
                  Cell(r < 0, Span(b, n)))

socketpair ==
  \E p \in Cells, r \in -1 .. 0 :
    Socketcall(r, Cell(r >= 0, Span(p, 2)), <<>>, When(r >= 0, <<Fixed(p, 2)>>), {})

\* The length that comes back is at most the one that was given.
getsockopt ==
  \E p, q \in Cells, v \in Values, r \in -1 .. 0 :
    /\ q \notin Span(p, 2)
    /\ v <= rmem[q]
    /\ Socketcall(r, Cell(r >= 0, Span(p, v + 1) \cup {q}),
                  IF r >= 0 THEN [a \in {q} |-> v] ELSE <<>>,
                  When(r >= 0, <<Fixed(q, 1), Counted(p, q)>>), {})

\* bind, connect, listen, send, ...
socketcall_trivial ==
  \E r \in -1 .. 0 : Socketcall(r, {}, <<>>, <<>>, {})

-----------------------------------------------------------------------------
(* Calls with a handler of their own                                       *)

\* pre_rt_sigaction stores the old action itself.
rt_sigaction ==
  \E p \in Ptrs, r \in -1 .. 0 :
    Plain("rt_sigaction", Cell(r = 0, Span(p, 2)), When(r = 0, <<Fixed(p, 2)>>))

\* pre_rt_sigprocmask may change the program's own set at p.
rt_sigprocmask ==
  \E p, q \in Ptrs, strip \in BOOLEAN, r \in -1 .. 0 :
    LET set == Cell(strip, Span(p, 1)) IN
      Syscall("rt_sigprocmask", set \cup Cell(r >= 0, Span(q, 1)), <<>>,
              When(r >= 0, <<Fixed(q, 1)>>), set)

sigprocmask ==
  \E q \in Ptrs, r \in -1 .. 0 :
    Plain("sigprocmask", Cell(r >= 0, Span(q, 1)), When(r >= 0, <<Fixed(q, 1)>>))

\* The replay echoes the output and touches no memory.
write == Plain("write", {}, <<>>)

\* trivial handlers: getpid, open, close, kill, writev, ...
trivial == Plain("trivial", {}, <<>>)

\* Trivial handlers of calls that do write: sendfile64 its offset, clone the
\* number of the new thread, madvise the pages that are dropped
trivial_writing ==
  \E nr \in {"sendfile64", "clone", "madvise"}, p \in Ptrs :
    Syscall(nr, Span(p, 1), <<>>, <<>>, Span(p, 1))

-----------------------------------------------------------------------------
(* The map                                                                 *)

With(map, cells, perm) == [a \in Cells |-> IF a \in cells THEN perm ELSE map[a]]

\* The values of cells the program cannot reach any more are not kept.
Without(mem, cells) == [a \in Cells |-> IF a \in cells THEN 0 ELSE mem[a]]

\* mmap2 of n cells at p, of which the file has m; an anonymous mapping has
\* all, with the value 0.  The replay maps anonymous memory, reads m cells
\* and restores the protection.
mmap2 ==
  \E p \in Data + 1 .. Top, n \in 1 .. 2, perm \in {"r", "rw"} :
  \E m \in 1 .. n, file \in BOOLEAN :
    LET cells == Span(p, n)
        kept == Span(p, m)
    IN  /\ end = Running
        /\ cells \subseteq Cells
        /\ file \/ m = n
        /\ \E new \in [kept -> IF file THEN Values ELSE {0}] :
             LET fill(mem) == [a \in Cells |-> IF a \in kept THEN new[a]
                                               ELSE IF a \in cells THEN 0 ELSE mem[a]]
             IN  rmem' = fill(rmem) /\ pmem' = fill(pmem)
        /\ rmap' = With(rmap, cells, perm)
        /\ pmap' = With(pmap, cells, perm)
        /\ released' = released \ cells
        /\ gaps' = gaps \ cells
        /\ UNCHANGED <<brk, end>>

\* replay_munmap repeats the call for a result above 0, and success is 0.
munmap ==
  \E p \in Data + 1 .. Top, n \in 1 .. 2 :
    /\ end = Running
    /\ Span(p, n) \subseteq Cells
    /\ rmap' = With(rmap, Span(p, n), "none")
    /\ released' = released \cup {a \in Span(p, n) : pmap[a] # "none"}
    /\ rmem' = Without(rmem, Span(p, n))
    /\ pmem' = Without(pmem, Span(p, n))
    /\ gaps' = gaps \ Span(p, n)
    /\ UNCHANGED <<pmap, brk, end>>

\* Mutated form of mprotect: the replay does not repeat the call.
mprotect_trivial ==
  \E p \in Data + 1 .. Top, n \in 1 .. 2, perm \in {"r", "rw"} :
    /\ end = Running
    /\ Mapped(rmap, Span(p, n))
    /\ rmap' = With(rmap, Span(p, n), perm)
    /\ UNCHANGED <<rmem, pmem, pmap, brk, released, gaps, end>>

\* A call that succeeded is repeated.
mprotect ==
  \E p \in Data + 1 .. Top, n \in 1 .. 2, perm \in {"r", "rw"} :
    /\ end = Running
    /\ Mapped(rmap, Span(p, n))
    /\ rmap' = With(rmap, Span(p, n), perm)
    /\ pmap' = With(pmap, Span(p, n), perm)
    /\ UNCHANGED <<rmem, pmem, brk, released, gaps, end>>

\* What brk(b) returns with a map: the heap grows over free cells only.
Brk(map, b) ==
  IF \/ b < Data + 1
     \/ \E a \in brk .. b - 1 : a \notin Cells \/ map[a] # "none"
  THEN brk ELSE b

\* The map and the memory after brk returned b
BrkMap(map, b) ==
  [a \in Cells |-> IF a \in b .. brk - 1 THEN "none"
                   ELSE IF a \in brk .. b - 1 THEN "rw" ELSE map[a]]
BrkMem(mem, b) == Without(mem, (brk .. b - 1) \cup (b .. brk - 1))

\* Mutated form of replay_brk: the call is not repeated.
replay_brk_trivial(b, r) == UNCHANGED <<pmem, pmap>>

\* replay_brk, when the repeated call returns the same
replay_brk(b, r) ==
  /\ Brk(pmap, b) = r
  /\ pmap' = BrkMap(pmap, r)
  /\ pmem' = BrkMem(pmem, r)

sys_brk ==
  \E b \in 0 .. Top + 1 :
    LET r == Brk(rmap, b) IN
      /\ end = Running
      /\ rmap' = BrkMap(rmap, r)
      /\ rmem' = BrkMem(rmem, r)
      /\ brk' = r
      /\ released' = released \ ((brk .. r - 1) \cup (r .. brk - 1))
      /\ gaps' = gaps \ ((brk .. r - 1) \cup (r .. brk - 1))
      /\ replay_brk(b, r)
      /\ UNCHANGED end

\* The assertion of replay_brk
brk_inconsistent ==
  \E b \in 0 .. Top + 1 :
    /\ end = Running
    /\ Brk(pmap, b) # Brk(rmap, b)
    /\ end' = [why |-> "CASSERT", nr |-> "brk"]
    /\ UNCHANGED <<rmem, rmap, pmem, pmap, brk, released, gaps>>

\* The program stores a value it computed without looking at a gap.
Store ==
  \E a \in Cells, v \in Values :
    /\ end = Running
    /\ rmap[a] = "rw"
    /\ rmem' = [rmem EXCEPT ![a] = v]
    /\ pmem' = [pmem EXCEPT ![a] = v]
    /\ gaps' = gaps \ {a}
    /\ UNCHANGED <<rmap, pmap, brk, released, end>>

-----------------------------------------------------------------------------
Next ==
  \/ read \/ pread64 \/ getdents64 \/ epoll_wait \/ getcwd \/ poll
  \/ fstat64 \/ stat64 \/ clock_getres \/ clock_gettime \/ ugetrlimit \/ pipe
  \/ gettimeofday \/ _llseek \/ setitimer \/ fcntl64 \/ prctl \/ uname \/ futex
  \/ time \/ waitpid \/ nanosleep \/ _newselect
  \/ tty_ioctl \/ blk_ioctl \/ ioctl_unknown
  \/ getsockname \/ getpeername \/ accept \/ recvfrom \/ recvmsg \/ recv
  \/ socketpair \/ getsockopt \/ socketcall_trivial
  \/ rt_sigaction \/ rt_sigprocmask \/ sigprocmask
  \/ write \/ trivial \/ trivial_writing
  \/ mmap2 \/ munmap \/ mprotect \/ sys_brk \/ brk_inconsistent
  \/ Store

Spec == Init /\ [][Next]_vars

-----------------------------------------------------------------------------
\* After any sequence of calls the replay's memory is that of the recorded
\* run, except for cells last written by one of the calls whose handlers are
\* marked to leave something out.
SameMemory ==
  end = Running =>
    \A a \in Cells : rmap[a] # "none" => rmem[a] = pmem[a] \/ a \in gaps

\* A replay handler reads exactly the entries its post handler has appended,
\* whatever its memory holds.
InStep == end.why # "step"

\* The recorder reads only cells the kernel has accepted, and the replay
\* writes only cells the program could write, except in the handlers that do
\* not look at the result, and where a longer address came back than the
\* buffer was given for.
TouchChecked ==
  end.why \in {"fault", "read-only"} =>
    end.nr \in {"time", "waitpid", "nanosleep", "_newselect", "ioctl", "socketcall"}

\* The replay has what the recorded run has mapped, with the same protection,
\* and beyond it exactly what munmap gave back; the assertion of replay_brk
\* fails only when the heap grows over such a cell.
MapKept ==
  /\ \A a \in Cells : rmap[a] # "none" => pmap[a] = rmap[a]
  /\ \A a \in Cells : pmap[a] # "none" /\ rmap[a] = "none" => a \in released
  /\ end.why = "CASSERT" => \E a \in released : brk <= a
=============================================================================
