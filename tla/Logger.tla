------------------------------- MODULE Logger -------------------------------
(***************************************************************************)
(* The per-thread log buffer of the recorder (src/interp/logger.c) and the *)
(* code-cache templates that write into it without the lock                *)
(* (arch/x86/interp/branch_template.S, logger.S).                          *)
(*                                                                         *)
(* Positions and sizes count units of one fixed width: a configuration     *)
(* chooses whether a unit stands for four bytes or for two, and scales the *)
(* constants accordingly.  The units of the k-th entry a thread logs all   *)
(* hold the number k, a cleared unit holds 0.                              *)
(***************************************************************************)
EXTENDS Integers, Sequences, FiniteSets

CONSTANTS
  Threads,        \* threads of the recorded process, each with a tls_logger
  Flushers,       \* the threads that reach exit_group or signal_terminate
  None,           \* no thread holds the lock
  MaxLoggerSize,  \* MAX_LOGGER_SIZE: log_buffer_end - log_buffer_start
  Additional,     \* LOGGER_ADDITIONAL_BYTES, allocated behind the end
  BranchSize,     \* size of the target address the log phase stores
  RdtscSize,      \* size of the mark and the two registers of rdtsc
  AppendSizes,    \* sizes append_buffer is called with
  MaxEntries      \* bound: entries a thread logs

ASSUME LoggerAssumption ==
  /\ Flushers \subseteq Threads
  /\ None \notin Threads
  /\ MaxLoggerSize \in Nat \ {0}
  /\ Additional \in Nat
  /\ BranchSize \in Nat \ {0}
  /\ RdtscSize \in Nat \ {0}
  /\ BranchSize <= RdtscSize
  /\ AppendSizes \subseteq Nat \ {0}
  /\ MaxEntries \in Nat

VARIABLES
  current,  \* log_buffer_current - log_buffer_start of each logger
  mem,      \* the memory log_buffer_start points to
  lock,     \* the holder of each logger_lock
  tlsLock,  \* the holder of __tls_ctl_lock
  file,     \* the log file of each thread, a sequence of blocks
  flushed,  \* the contents of those blocks, one after the other
  logged,   \* history: everything the thread has logged
  bounds,   \* history: the positions in logged between two entries
  torn,     \* history: a foreign flush hit the thread's log phase
  count,    \* history: number of entries logged
  pc,       \* control of each thread
  reg,      \* registers of a log phase: entry size, %ebx, the addl operand
  fa        \* locals of flush_all_logger: loggers left, pos, log_sz

vars == <<current, mem, lock, tlsLock, file, flushed, logged, bounds, torn,
          count, pc, reg, fa>>

\* Cells a log phase can reach: it starts below log_buffer_end.
Cells == 0 .. (MaxLoggerSize + RdtscSize - 2)

Clean == [i \in Cells |-> 0]

\* The process runs until exit_group, a fatal signal or a failed assertion.
Alive == \A t \in Threads : pc[t] \notin {"dead", "abort"}

\* The first c units of the memory m
View(m, c) == [i \in 1 .. c |-> m[i - 1]]

\* What a flush writes: log_buffer_start up to log_buffer_current
Buffered(t) == View(mem[t], current[t])

Copies(v, n) == [i \in 1 .. n |-> v]

COMPRESSED == "compressed"
UNCOMPRESSED == "uncompressed"

Pcs == {"run", "store", "addl", "commit", "check", "flush", "exiting",
        "fa_next", "fa_compress", "fa_reset", "exit", "dead", "abort"}

Init ==
  /\ current = [t \in Threads |-> 0]
  /\ mem = [t \in Threads |-> Clean]
  /\ lock = [t \in Threads |-> None]
  /\ tlsLock = None
  /\ file = [t \in Threads |-> <<>>]
  /\ flushed = [t \in Threads |-> <<>>]
  /\ logged = [t \in Threads |-> <<>>]
  /\ bounds = [t \in Threads |-> {0}]
  /\ torn = [t \in Threads |-> FALSE]
  /\ count = [t \in Threads |-> 0]
  /\ pc = [t \in Threads |-> "run"]
  /\ reg = [t \in Threads |-> [size |-> 0, ebx |-> 0, old |-> 0]]
  /\ fa = [t \in Threads |-> [todo |-> {}, pos |-> t, log_sz |-> 0]]

-----------------------------------------------------------------------------
(* Helpers shared by the operations.                                       *)

Goto(t, l) == pc' = [pc EXCEPT ![t] = l]

\* The entry becomes part of what the thread has logged.
Record(t, n) ==
  /\ logged' = [logged EXCEPT ![t] = @ \o Copies(count[t] + 1, n)]
  /\ bounds' = [bounds EXCEPT ![t] = @ \cup {Len(logged[t]) + n}]
  /\ count' = [count EXCEPT ![t] = @ + 1]

\* memcpy of n units of value v to position p
Stored(m, p, v, n) ==
  [i \in Cells |-> IF p <= i /\ i < p + n THEN v ELSE m[i]]

\* memset of the whole allocation
Cleared(m) == [i \in Cells |-> IF i < MaxLoggerSize + Additional THEN 0 ELSE m[i]]

\* One block of the file: mark, the size in the tag, the data
Block(mark, sz, data) == [mark |-> mark, real_sz |-> sz, data |-> data]

\* flush_logger_buffer: one compressed block, then an empty buffer.  Only the
\* lock holder calls it; when that is the owner nothing else can touch the
\* buffer meanwhile.
flush_logger_buffer(t) ==
  /\ file' = [file EXCEPT ![t] = Append(@, Block(COMPRESSED, current[t], Buffered(t)))]
  /\ flushed' = [flushed EXCEPT ![t] = @ \o Buffered(t)]
  /\ mem' = [mem EXCEPT ![t] = Cleared(@)]
  /\ current' = [current EXCEPT ![t] = 0]

-----------------------------------------------------------------------------
(* append_buffer, under the lock.  The signal handler and exit continue    *)
(* with flush_logger, exit_group and signal_terminate with                 *)
(* flush_all_logger; what they append last is a mark or a signal frame,    *)
(* which fits into an empty buffer.                                        *)

Fits(p, n) == p + n < MaxLoggerSize

AppendInPlace(t, n) ==
  /\ Fits(current[t], n)
  /\ mem' = [mem EXCEPT ![t] = Stored(@, current[t], count[t] + 1, n)]
  /\ current' = [current EXCEPT ![t] = @ + n]
  /\ Record(t, n)
  /\ UNCHANGED <<file, flushed>>

\* Mutated form of AppendAfterFlush: rewinds the buffer without writing it.
AppendAfterRewind(t, n) ==
  /\ ~Fits(current[t], n)
  /\ Fits(0, n)
  /\ mem' = [mem EXCEPT ![t] = Stored(Cleared(@), 0, count[t] + 1, n)]
  /\ current' = [current EXCEPT ![t] = n]
  /\ Record(t, n)
  /\ UNCHANGED <<file, flushed>>

\* Not enough space, but enough in an empty buffer.
AppendAfterFlush(t, n) ==
  /\ ~Fits(current[t], n)
  /\ Fits(0, n)
  /\ file' = [file EXCEPT ![t] = Append(@, Block(COMPRESSED, current[t], Buffered(t)))]
  /\ flushed' = [flushed EXCEPT ![t] = @ \o Buffered(t)]
  /\ mem' = [mem EXCEPT ![t] = Stored(Cleared(@), 0, count[t] + 1, n)]
  /\ current' = [current EXCEPT ![t] = n]
  /\ Record(t, n)

\* The blocks in the file once a non-empty buffer has been flushed
FileFlushed(t) ==
  IF current[t] > 0
  THEN Append(file[t], Block(COMPRESSED, current[t], Buffered(t)))
  ELSE file[t]

\* Larger than the buffer: written directly, as an uncompressed block.
AppendDirect(t, n) ==
  /\ ~Fits(current[t], n)
  /\ ~Fits(0, n)
  /\ n > MaxLoggerSize
  /\ LET data == Copies(count[t] + 1, n)
     IN  /\ file' = [file EXCEPT ![t] = Append(FileFlushed(t), Block(UNCOMPRESSED, n, data))]
         /\ flushed' = [flushed EXCEPT ![t] = @ \o Buffered(t) \o data]
  /\ mem' = [mem EXCEPT ![t] = IF current[t] > 0 THEN Cleared(@) ELSE @]
  /\ current' = [current EXCEPT ![t] = 0]
  /\ Record(t, n)

append_buffer(t, n, next) ==
  /\ pc[t] = "run"
  /\ next = "exiting" => t \in Flushers
  /\ next # "run" => Fits(0, n)
  /\ lock[t] = None
  /\ count[t] < MaxEntries
  /\ \/ AppendInPlace(t, n)
     \/ AppendAfterFlush(t, n)
     \/ AppendDirect(t, n)
  /\ Goto(t, next)
  /\ UNCHANGED <<lock, tlsLock, torn, reg, fa>>

\* assert(size > MAX_LOGGER_SIZE) fails, with the lock held.
AppendAssertFails(t, n) ==
  /\ pc[t] = "run"
  /\ lock[t] = None
  /\ count[t] < MaxEntries
  /\ ~Fits(current[t], n)
  /\ ~Fits(0, n)
  /\ ~(n > MaxLoggerSize)
  /\ file' = [file EXCEPT ![t] = FileFlushed(t)]
  /\ flushed' = [flushed EXCEPT ![t] = @ \o Buffered(t)]
  /\ mem' = [mem EXCEPT ![t] = IF current[t] > 0 THEN Cleared(@) ELSE @]
  /\ current' = [current EXCEPT ![t] = 0]
  /\ lock' = [lock EXCEPT ![t] = t]
  /\ Goto(t, "abort")
  /\ UNCHANGED <<tlsLock, logged, bounds, torn, count, reg, fa>>

-----------------------------------------------------------------------------
(* The log phase of a compiled branch, and the rdtsc template: no lock.    *)

\* movl LOG_BUFFER_CURRENT, %ebx
LogLoad(t, n) ==
  /\ pc[t] = "run"
  /\ count[t] < MaxEntries
  /\ reg' = [reg EXCEPT ![t].size = n, ![t].ebx = current[t]]
  /\ Goto(t, "store")
  /\ UNCHANGED <<current, mem, lock, tlsLock, file, flushed, logged, bounds,
                 torn, count, fa>>

\* movl %eax, (%ebx)
LogStore(t) ==
  /\ pc[t] = "store"
  /\ mem' = [mem EXCEPT ![t] = Stored(@, reg[t].ebx, count[t] + 1, reg[t].size)]
  /\ Goto(t, "addl")
  /\ UNCHANGED <<current, lock, tlsLock, file, flushed, logged, bounds, torn,
                 count, reg, fa>>

\* addl $4, LOG_BUFFER_CURRENT: reads memory and writes it back.
LogAddlRead(t) ==
  /\ pc[t] = "addl"
  /\ reg' = [reg EXCEPT ![t].old = current[t]]
  /\ Goto(t, "commit")
  /\ UNCHANGED <<current, mem, lock, tlsLock, file, flushed, logged, bounds,
                 torn, count, fa>>

LogCommit(t) ==
  /\ pc[t] = "commit"
  /\ current' = [current EXCEPT ![t] = reg[t].old + reg[t].size]
  /\ Record(t, reg[t].size)
  /\ torn' = [torn EXCEPT ![t] = @ \/ lock[t] # None]
  /\ Goto(t, "check")
  /\ UNCHANGED <<mem, lock, tlsLock, file, flushed, reg, fa>>

\* Mutated form of do_check_logger_buffer: flushes one unit too late.
CheckPastEnd(t) ==
  /\ pc[t] = "check"
  /\ lock[t] = None
  /\ IF current[t] > MaxLoggerSize
     THEN flush_logger_buffer(t)
     ELSE UNCHANGED <<current, mem, file, flushed>>
  /\ Goto(t, "run")
  /\ UNCHANGED <<lock, tlsLock, logged, bounds, torn, count, reg, fa>>

\* do_check_logger_buffer, reached from the end of every log phase
do_check_logger_buffer(t) ==
  /\ pc[t] = "check"
  /\ lock[t] = None
  /\ IF current[t] >= MaxLoggerSize
     THEN flush_logger_buffer(t)
     ELSE UNCHANGED <<current, mem, file, flushed>>
  /\ Goto(t, "run")
  /\ UNCHANGED <<lock, tlsLock, logged, bounds, torn, count, reg, fa>>

\* flush_logger: called by the signal handler and by exit after an append
flush_logger(t) ==
  /\ pc[t] = "flush"
  /\ lock[t] = None
  /\ flush_logger_buffer(t)
  /\ Goto(t, "run")
  /\ UNCHANGED <<lock, tlsLock, logged, bounds, torn, count, reg, fa>>

-----------------------------------------------------------------------------
(* flush_all_logger: one thread flushes the loggers of all threads, then   *)
(* ends the process.  A flush of another thread's logger is split where    *)
(* that thread's unlocked log phase can interfere: log_sz is read before   *)
(* the buffer is compressed, and the buffer is rewound after both.         *)

\* Mutated form of FaStart: a thread leaves its own logger out.
FaStartOthers(t) ==
  /\ pc[t] = "exiting"
  /\ tlsLock = None
  /\ tlsLock' = t
  /\ fa' = [fa EXCEPT ![t].todo = Threads \ {t}]
  /\ Goto(t, "fa_next")
  /\ UNCHANGED <<current, mem, lock, file, flushed, logged, bounds, torn,
                 count, reg>>

FaStart(t) ==
  /\ pc[t] = "exiting"
  /\ tlsLock = None
  /\ tlsLock' = t
  /\ fa' = [fa EXCEPT ![t].todo = Threads]
  /\ Goto(t, "fa_next")
  /\ UNCHANGED <<current, mem, lock, file, flushed, logged, bounds, torn,
                 count, reg>>

FaLock(t, p) ==
  /\ pc[t] = "fa_next"
  /\ p \in fa[t].todo
  /\ lock[p] = None
  /\ lock' = [lock EXCEPT ![p] = t]
  /\ fa' = [fa EXCEPT ![t] = [todo |-> @.todo \ {p}, pos |-> p, log_sz |-> current[p]]]
  /\ Goto(t, "fa_compress")
  /\ UNCHANGED <<current, mem, tlsLock, file, flushed, logged, bounds, torn,
                 count, reg>>

FaCompress(t) ==
  LET p == fa[t].pos
  IN  /\ pc[t] = "fa_compress"
      /\ file' = [file EXCEPT ![p] = Append(@, Block(COMPRESSED, fa[t].log_sz, Buffered(p)))]
      /\ flushed' = [flushed EXCEPT ![p] = @ \o Buffered(p)]
      /\ Goto(t, "fa_reset")
      /\ UNCHANGED <<current, mem, lock, tlsLock, logged, bounds, torn, count,
                     reg, fa>>

FaReset(t) ==
  LET p == fa[t].pos
  IN  /\ pc[t] = "fa_reset"
      /\ mem' = [mem EXCEPT ![p] = Cleared(@)]
      /\ current' = [current EXCEPT ![p] = 0]
      /\ lock' = [lock EXCEPT ![p] = None]
      /\ torn' = [torn EXCEPT ![p] = @ \/ pc[p] \in {"store", "addl", "commit"}]
      /\ Goto(t, "fa_next")
      /\ UNCHANGED <<tlsLock, file, flushed, logged, bounds, count, reg, fa>>

FaDone(t) ==
  /\ pc[t] = "fa_next"
  /\ fa[t].todo = {}
  /\ tlsLock' = None
  /\ Goto(t, "exit")
  /\ UNCHANGED <<current, mem, lock, file, flushed, logged, bounds, torn,
                 count, reg, fa>>

\* The exit_group system call, or the fatal signal, takes effect.
ProcessExit(t) ==
  /\ pc[t] = "exit"
  /\ Goto(t, "dead")
  /\ UNCHANGED <<current, mem, lock, tlsLock, file, flushed, logged, bounds,
                 torn, count, reg, fa>>

-----------------------------------------------------------------------------
Step(t) ==
  \/ \E n \in AppendSizes, next \in {"run", "flush", "exiting"} : append_buffer(t, n, next)
  \/ \E n \in AppendSizes : AppendAssertFails(t, n)
  \/ \E n \in {BranchSize, RdtscSize} : LogLoad(t, n)
  \/ LogStore(t)
  \/ LogAddlRead(t)
  \/ LogCommit(t)
  \/ do_check_logger_buffer(t)
  \/ flush_logger(t)
  \/ FaStart(t)
  \/ \E p \in Threads : FaLock(t, p)
  \/ FaCompress(t)
  \/ FaReset(t)
  \/ FaDone(t)
  \/ ProcessExit(t)

Next == Alive /\ \E t \in Threads : Step(t)

Spec == Init /\ [][Next]_vars

-----------------------------------------------------------------------------
(* Properties                                                              *)

Unit == Nat

TypeOK ==
  /\ current \in [Threads -> Nat]
  /\ mem \in [Threads -> [Cells -> Unit]]
  /\ lock \in [Threads -> Threads \cup {None}]
  /\ tlsLock \in Threads \cup {None}
  /\ file \in [Threads -> Seq([mark : {COMPRESSED, UNCOMPRESSED},
                               real_sz : Nat, data : Seq(Unit)])]
  /\ flushed \in [Threads -> Seq(Unit)]
  /\ logged \in [Threads -> Seq(Unit)]
  /\ bounds \in [Threads -> SUBSET Nat]
  /\ torn \in [Threads -> BOOLEAN]
  /\ count \in [Threads -> Nat]
  /\ pc \in [Threads -> Pcs]
  /\ reg \in [Threads -> [size : Nat, ebx : Nat, old : Nat]]
  /\ fa \in [Threads -> [todo : SUBSET Threads, pos : Threads, log_sz : Nat]]

\* Thread t is being flushed by s, and its data is already in the file.
Rewinding(t) == \E s \in Threads : pc[s] = "fa_reset" /\ fa[s].pos = t

\* Nothing a thread logs is lost, duplicated or reordered by the buffer, the
\* flushes and the direct writes: what the file holds followed by what is
\* still buffered is what was logged.  The one exception is a log phase that
\* another thread's flush_all_logger runs into (torn).
RoundTrip ==
  \A t \in Threads :
    ~torn[t] => logged[t] = flushed[t] \o (IF Rewinding(t) THEN <<>> ELSE Buffered(t))

\* A block never ends inside an entry, so a reader that asks for one whole
\* entry finds it in one block (readahead_log and the signal replay rely on it).
WholeEntries ==
  \A t \in Threads : ~torn[t] => Len(flushed[t]) \in bounds[t]

\* The size in a block's tag is the size of its data: the replayer refuses a
\* block whose data decompresses to another size.
TagsMatch ==
  \A t \in Threads : ~torn[t] =>
    \A i \in DOMAIN file[t] : file[t][i].real_sz = Len(file[t][i].data)

\* A log phase stores only inside the allocation of MAX_LOGGER_SIZE +
\* LOGGER_ADDITIONAL_BYTES.
NoOverrun ==
  \A t \in Threads :
    /\ current[t] <= MaxLoggerSize + Additional
    /\ pc[t] = "store" => reg[t].ebx + reg[t].size <= MaxLoggerSize + Additional

\* Once a thread has passed flush_all_logger on its way out of the process, its
\* file holds its whole log, whatever the other threads flush meanwhile.
ExitKeepsLog ==
  \A t \in Threads : pc[t] \in {"exit", "dead"} /\ ~torn[t] => flushed[t] = logged[t]

\* append_buffer never fails its assertion on the size.
NoAssertFailure == \A t \in Threads : pc[t] # "abort"
=============================================================================
